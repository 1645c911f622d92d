---- MODULE MC_EventDispatch ----
(* Instances of EventDispatch: one or two cameras, one or two handlers. *)
EXTENDS EventDispatch

CONSTANTS h1, h2

MCOne == {h1}
MCTwo == {h1, h2}
=============================
