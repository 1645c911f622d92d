------------------------------ MODULE AiBudget ------------------------------
(***************************************************************************)
(* The daily allowance of AI descriptions (ai_analysis_runtime.py).  Every *)
(* event may ask for one, from its alert and from the motion listener at   *)
(* the same time, a user may ask by hand.  A description takes up to       *)
(* twenty seconds and is counted when it has succeeded; the gate before it *)
(* adds those still under way.  The count is stored by a task of its own   *)
(* and read back when the entry is set up again, also on the next day.     *)
(***************************************************************************)
EXTENDS Naturals, FiniteSets

CONSTANTS Cams,       \* the cameras
          Calls,      \* slots for descriptions under way
          MaxPerDay,  \* the option ai_max_per_day
          Days,       \* bound: the days looked at
          MaxReloads, \* bound: how often the entry is set up again
          MaxManual   \* bound: descriptions asked for by hand, per day

ASSUME Bounds == /\ MaxPerDay \in Nat \ {0} /\ Days \in Nat \ {0}
                 /\ MaxReloads \in Nat /\ MaxManual \in Nat
ASSUME Slots == IsFiniteSet(Calls) /\ Cams # {}

VARIABLES day,       \* today
          used,      \* descriptions counted
          stamp,     \* the day they are counted for, 0 when none
          stored,    \* what the store holds
          pending,   \* a task that stores the count has not run yet
          calls,     \* the descriptions under way
          cooling,   \* cameras described a short while ago
          spent,     \* automatic descriptions made today
          manual,    \* descriptions asked for by hand today
          reloads,
          cut        \* a reload left a description or a count behind

aiVars == <<day, used, stamp, stored, pending, calls, cooling, spent, manual,
            reloads, cut>>

NoCall == [at |-> "none", cam |-> CHOOSE c \in Cams : TRUE, auto |-> TRUE]

TypeOK ==
  /\ day \in 1 .. Days /\ stamp \in 0 .. Days
  /\ used \in Nat /\ spent \in Nat /\ manual \in 0 .. MaxManual
  /\ stored \in [date : 0 .. Days, count : Nat]
  /\ pending \in BOOLEAN /\ cut \in BOOLEAN
  /\ calls \in [Calls -> [at : {"none", "running", "left behind"}, cam : Cams,
                          auto : BOOLEAN]]
  /\ cooling \subseteq Cams
  /\ reloads \in 0 .. MaxReloads

Init ==
  /\ day = 1 /\ used = 0 /\ stamp = 0 /\ stored = [date |-> 0, count |-> 0]
  /\ pending = FALSE /\ calls = [k \in Calls |-> NoCall] /\ cooling = {}
  /\ spent = 0 /\ manual = 0 /\ reloads = 0 /\ cut = FALSE

\* Mutant: those under way are not counted.
NoneInFlight == 0

ai_in_flight == Cardinality({k \in Calls : calls[k].at = "running"})

\* The count of today: on a new day it starts over, and is stored.
ai_budget_state == IF stamp = day THEN used ELSE 0
RollsOver(count) ==
  /\ used' = count /\ stamp' = day
  /\ pending' = (pending \/ stamp # day \/ count # used)

_ai_rate_allowed(cam) ==
  /\ ai_budget_state + ai_in_flight < MaxPerDay
  /\ cam \notin cooling

Starts(k, cam, auto) ==
  /\ calls[k].at = "none"
  /\ calls' = [calls EXCEPT ![k] = [at |-> "running", cam |-> cam, auto |-> auto]]

\* From an alert or from the motion listener: the gate, then the request.
async_generate_ai_description(k, cam) ==
  /\ _ai_rate_allowed(cam)
  /\ Starts(k, cam, TRUE)
  /\ RollsOver(ai_budget_state)
  /\ UNCHANGED <<day, stored, cooling, spent, manual, reloads, cut>>

\* The service: no gate, but under way and counted like the others.
handle_describe_snapshot(k, cam) ==
  /\ manual < MaxManual /\ manual' = manual + 1
  /\ Starts(k, cam, FALSE)
  /\ UNCHANGED <<day, used, stamp, stored, pending, cooling, spent, reloads, cut>>

\* A description has come: it is counted, for today, before it stops being
\* under way, and its camera cools down.
ai_record_call(k) ==
  /\ calls[k].at = "running"
  /\ calls' = [calls EXCEPT ![k] = NoCall]
  /\ cooling' = cooling \cup {calls[k].cam}
  /\ RollsOver(ai_budget_state + 1)
  /\ spent' = IF calls[k].auto THEN spent + 1 ELSE spent
  /\ UNCHANGED <<day, stored, manual, reloads, cut>>

\* It failed, timed out, was empty or was cancelled: nothing is counted.
Failed(k) ==
  /\ calls[k].at # "none"
  /\ calls' = [calls EXCEPT ![k] = NoCall]
  /\ UNCHANGED <<day, used, stamp, stored, pending, cooling, spent, manual, reloads, cut>>

\* A description that a reload left behind is counted by the coordinator
\* before, which stores a count of its own over the new one's.
LeftBehind(k) ==
  /\ calls[k].at = "left behind"
  /\ calls' = [calls EXCEPT ![k] = NoCall]
  /\ spent' = IF calls[k].auto THEN spent + 1 ELSE spent
  /\ stored' \in {[date |-> day, count |-> n] : n \in 1 .. MaxPerDay + MaxManual}
  /\ UNCHANGED <<day, used, stamp, pending, cooling, manual, reloads, cut>>

_async_save_ai_budget ==
  /\ pending /\ pending' = FALSE
  /\ stored' = [date |-> stamp, count |-> used]
  /\ UNCHANGED <<day, used, stamp, calls, cooling, spent, manual, reloads, cut>>

CooledDown(cam) ==
  /\ cam \in cooling /\ cooling' = cooling \ {cam}
  /\ UNCHANGED <<day, used, stamp, stored, pending, calls, spent, manual, reloads, cut>>

Midnight ==
  /\ day < Days /\ day' = day + 1
  /\ spent' = 0 /\ manual' = 0
  /\ UNCHANGED <<used, stamp, stored, pending, calls, cooling, reloads, cut>>

\* A new coordinator reads the store; only a count of today is taken over.
Loaded == stored.date = day

async_load_ai_budget ==
  /\ reloads < MaxReloads /\ reloads' = reloads + 1
  /\ used' = IF Loaded THEN stored.count ELSE 0
  /\ stamp' = IF Loaded THEN stored.date ELSE 0
  /\ pending' = FALSE /\ cooling' = {}
  /\ calls' = [k \in Calls |-> IF calls[k].at = "running"
                               THEN [calls[k] EXCEPT !.at = "left behind"] ELSE calls[k]]
  /\ cut' = (cut \/ pending \/ ai_in_flight > 0)
  /\ UNCHANGED <<day, stored, spent, manual>>

Next ==
  \/ \E k \in Calls : \/ \E cam \in Cams : \/ async_generate_ai_description(k, cam)
                                           \/ handle_describe_snapshot(k, cam)
                      \/ ai_record_call(k) \/ Failed(k) \/ LeftBehind(k)
  \/ \E cam \in Cams : CooledDown(cam)
  \/ _async_save_ai_budget \/ Midnight \/ async_load_ai_budget

Spec == Init /\ [][Next]_aiVars

(***************************************************************************)
(* Properties                                                              *)
(***************************************************************************)
Promise == INSTANCE Allowance

\* The promise of the option: no day sees more automatic descriptions than
\* it allows, however many events come at once, over midnight and over any
\* number of reloads, as long as no reload came while one was under way or
\* a count unsaved (ai_analysis_runtime.py: the gate counts those under way).
KeepsThePromise == Promise!Spec
=============================================================================
