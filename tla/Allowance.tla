----------------------------- MODULE Allowance -----------------------------
(***************************************************************************)
(* What the daily allowance of AI descriptions promises: on every day at   *)
(* most MaxPerDay of those that events ask for, each counted when it is    *)
(* made.  A reload at the wrong moment may lose the count, and the promise *)
(* with it; nothing but that does.                                         *)
(***************************************************************************)
EXTENDS Naturals

CONSTANTS MaxPerDay,  \* the option ai_max_per_day
          Days        \* bound: the days looked at

VARIABLES day,    \* today
          spent,  \* descriptions made today
          cut     \* a count was lost

allowance == <<day, spent, cut>>

Init == day = 1 /\ spent = 0 /\ cut = FALSE

Describe ==
  /\ cut \/ spent < MaxPerDay
  /\ spent' = spent + 1
  /\ UNCHANGED <<day, cut>>

Midnight == day < Days /\ day' = day + 1 /\ spent' = 0 /\ UNCHANGED cut
LosesCount == cut' = TRUE /\ UNCHANGED <<day, spent>>

Spec == Init /\ [][Describe \/ Midnight \/ LosesCount]_allowance
=============================================================================
