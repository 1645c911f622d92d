---- MODULE MC_TokenAuth ----
(* Instances of TokenAuth: tick stands for a caller with a timeout of its  *)
(* own (the coordinator tick, the live-connection PUT), put for one without *)
(* (a setting write), timer for the proactive refresh.                     *)
EXTENDS TokenAuth, TLC

CONSTANTS put, tick, timer

MCTwo == {tick, timer}
MCThree == {put, tick, timer}
MCTimed == {tick}
=============================
