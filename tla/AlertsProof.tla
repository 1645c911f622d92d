---------------------------- MODULE AlertsProof ----------------------------
(***************************************************************************)
(* Proofs about what follows an event, for any number of events, cameras,  *)
(* descriptions, requests and days: the media of an alert are its own and  *)
(* its files are removed, the copy on disk is the last frame that was      *)
(* handed over, and the gate for AI descriptions keeps what the option     *)
(* promises (AiBudget implements Allowance).                               *)
(*                                                                         *)
(* Every theorem is about the specification of its component; the last     *)
(* ones are about the run in which the components are checked together.    *)
(***************************************************************************)
EXTENDS MC_Alerts, FiniteSetTheorems, SequenceTheorems, TLAPS

-----------------------------------------------------------------------------
(* The allowance for descriptions.  The promise alone is not inductive.  As *)
(* long as no reload has lost a count, the count of today covers what was   *)
(* made today, what was made and what is under way together stay within the *)
(* allowance, and the store holds the count unless a task that stores it is *)
(* still to come.                                                           *)

Running == {k \in Calls : calls[k].at = "running"}
Automatic == {k \in Calls : calls[k].at = "running" /\ calls[k].auto}

Covered == spent <= ai_budget_state
Reserved == spent + Cardinality(Automatic) <= MaxPerDay
Saved == ~pending /\ stamp = day => stored = [date |-> stamp, count |-> used]
NoneLeftBehind == \A k \in Calls : calls[k].at # "left behind"

Honest == Covered /\ Reserved /\ Saved /\ NoneLeftBehind

(* The types, apart: numbers, slots, records and flags.                     *)
Numbers == /\ day \in 1 .. Days /\ stamp \in 0 .. Days /\ stamp <= day
           /\ used \in Nat /\ spent \in Nat
           /\ manual \in 0 .. MaxManual /\ reloads \in 0 .. MaxReloads
Slotted == calls \in [Calls -> [at : {"none", "running", "left behind"}, cam : Cams,
                                auto : BOOLEAN]]
Stored == stored \in [date : 0 .. Days, count : Nat]
Flags == pending \in BOOLEAN /\ cut \in BOOLEAN /\ cooling \subseteq Cams

Inv == Numbers /\ Slotted /\ Stored /\ Flags /\ (~cut => Honest)

(* What is under way is finite, and the automatic ones are part of it.      *)
LEMMA Finite ==
  /\ IsFiniteSet(Running) /\ IsFiniteSet(Automatic)
  /\ Cardinality(Automatic) \in Nat /\ Cardinality(Running) \in Nat
  /\ Cardinality(Automatic) <= Cardinality(Running)
<1>1. IsFiniteSet(Running) BY FS_Subset, Slots DEF Running
<1>2. Automatic \in SUBSET Running BY DEF Automatic, Running
<1>3. IsFiniteSet(Automatic) /\ Cardinality(Automatic) <= Cardinality(Running)
  BY <1>1, <1>2, FS_Subset
<1> QED BY <1>1, <1>3, FS_CardinalityType

(* The gate counts everything that is under way.                            *)
LEMMA InFlight == ai_in_flight = Cardinality(Running)
  BY DEF ai_in_flight, Running

LEMMA NoCallType ==
  NoCall \in [at : {"none", "running", "left behind"}, cam : Cams, auto : BOOLEAN]
  /\ NoCall.at = "none"
  BY Slots DEF NoCall

(* A description that begins takes one slot, and one of the automatic ones  *)
(* when it is one.                                                          *)
LEMMA StartTakes ==
  ASSUME Slotted, NEW k \in Calls, NEW cam \in Cams, NEW auto \in BOOLEAN,
         Starts(k, cam, auto)
  PROVE  /\ Slotted'
         /\ Cardinality(Automatic') = IF auto THEN Cardinality(Automatic) + 1 ELSE Cardinality(Automatic)
         /\ NoneLeftBehind => NoneLeftBehind'
<1>1. Slotted'
  BY DEF Slotted, Starts
<1>2. k \notin Automatic BY DEF Automatic, Starts
<1>3. Automatic' = IF auto THEN Automatic \cup {k} ELSE Automatic
  <2>1. \A j \in Calls : j # k => calls'[j] = calls[j] BY DEF Starts, Slotted
  <2>2. calls'[k].at = "running" /\ calls'[k].auto = auto BY DEF Starts, Slotted
  <2> QED BY <2>1, <2>2, <1>2 DEF Automatic
<1>4. Cardinality(Automatic') = IF auto THEN Cardinality(Automatic) + 1 ELSE Cardinality(Automatic)
  BY <1>2, <1>3, Finite, FS_AddElement
<1>5. NoneLeftBehind => NoneLeftBehind' BY DEF NoneLeftBehind, Starts, Slotted
<1> QED BY <1>1, <1>4, <1>5

(* One that ends gives its slot back.                                       *)
LEMMA EndGives ==
  ASSUME Slotted, NEW k \in Calls, calls' = [calls EXCEPT ![k] = NoCall]
  PROVE  /\ Slotted'
         /\ Automatic' = Automatic \ {k}
         /\ Cardinality(Automatic') = IF k \in Automatic THEN Cardinality(Automatic) - 1 ELSE Cardinality(Automatic)
         /\ NoneLeftBehind => NoneLeftBehind'
<1>1. Slotted'
  BY NoCallType DEF Slotted
<1>2. \A j \in Calls : calls'[j] = IF j = k THEN NoCall ELSE calls[j] BY DEF Slotted
<1>3. Automatic' = Automatic \ {k} BY <1>2, NoCallType DEF Automatic
<1>4. Cardinality(Automatic') = IF k \in Automatic THEN Cardinality(Automatic) - 1 ELSE Cardinality(Automatic)
  BY <1>3, Finite, FS_RemoveElement
<1>5. NoneLeftBehind => NoneLeftBehind' BY <1>2, NoCallType DEF NoneLeftBehind
<1> QED BY <1>1, <1>3, <1>4, <1>5

(* The count of today is a number, and so is what was made today.           *)
LEMMA CountType ==
  ASSUME Numbers
  PROVE  ai_budget_state \in Nat /\ spent \in Nat /\ MaxPerDay \in Nat
  BY Bounds DEF ai_budget_state, Numbers

(* Counting keeps the store's promise: a count that differs from the stored *)
(* one is about to be stored.                                               *)
LEMMA RollsOverSaves ==
  ASSUME NEW count \in Nat, RollsOver(count), day' = day, stored' = stored
  PROVE  /\ used' = count /\ stamp' = day /\ pending' \in BOOLEAN
         /\ ai_budget_state' = count
         /\ Saved => Saved'
<1>1. used' = count /\ stamp' = day
  BY DEF RollsOver
<1>2. pending' = (pending \/ stamp # day \/ count # used) BY DEF RollsOver
<1>3. ai_budget_state' = count BY <1>1 DEF ai_budget_state
<1>4. Saved => Saved' BY <1>1, <1>2 DEF Saved
<1>5. pending' \in BOOLEAN BY <1>2
<1> QED BY <1>1, <1>3, <1>4, <1>5

(* Where the slots and the counts stay.                                     *)
LEMMA SameSlots ==
  ASSUME calls' = calls
  PROVE  /\ Automatic' = Automatic /\ (Slotted => Slotted')
         /\ (NoneLeftBehind => NoneLeftBehind')
         /\ spent' = spent => (Reserved => Reserved')
  BY DEF Automatic, Slotted, NoneLeftBehind, Reserved

LEMMA SameCount ==
  ASSUME UNCHANGED <<day, used, stamp, stored, pending, spent>>
  PROVE  (Covered => Covered') /\ (Saved => Saved')
  BY DEF Covered, Saved, ai_budget_state

LEMMA InvInit == Init => Inv
<1> SUFFICES ASSUME Init PROVE Inv OBVIOUS
<1>1. Numbers BY Bounds DEF Init, Numbers
<1>2. Slotted BY NoCallType DEF Init, Slotted
<1>3. Stored BY Bounds DEF Init, Stored
<1>4. Flags BY DEF Init, Flags
<1>5. Covered BY DEF Init, Covered, ai_budget_state
<1>6. Automatic = {} BY NoCallType DEF Automatic, Init
<1>7. Reserved BY <1>6, FS_EmptySet, Bounds DEF Reserved, Init
<1>8. Saved /\ NoneLeftBehind BY NoCallType DEF Saved, NoneLeftBehind, Init
<1> QED BY <1>1, <1>2, <1>3, <1>4, <1>5, <1>7, <1>8 DEF Inv, Honest

LEMMA StepAsked ==
  ASSUME Inv, NEW k \in Calls, NEW cam \in Cams, async_generate_ai_description(k, cam)
  PROVE  Inv'
<1>0. Numbers /\ Slotted /\ Stored /\ Flags /\ (~cut => Honest) BY DEF Inv
<1>1. /\ Starts(k, cam, TRUE) /\ RollsOver(ai_budget_state)
      /\ day' = day /\ stored' = stored /\ cooling' = cooling /\ spent' = spent
      /\ manual' = manual /\ reloads' = reloads /\ cut' = cut
  BY DEF async_generate_ai_description
<1>2. ai_budget_state + ai_in_flight < MaxPerDay
  BY DEF async_generate_ai_description, _ai_rate_allowed
<1>3. /\ used' = ai_budget_state /\ stamp' = day /\ pending' \in BOOLEAN
      /\ ai_budget_state' = ai_budget_state /\ (Saved => Saved')
  BY <1>0, <1>1, CountType, RollsOverSaves
<1>4. Numbers' BY <1>0, <1>1, <1>3, CountType, Bounds DEF Numbers
<1>5. Stored' /\ Flags' BY <1>0, <1>1, <1>3 DEF Stored, Flags
<1>6. Slotted' BY <1>0, <1>1, StartTakes
<1>7. ASSUME ~cut PROVE Honest'
  <2>1. Covered' BY <1>0, <1>7, <1>1, <1>3 DEF Covered, Honest
  <2>2. Cardinality(Automatic') = Cardinality(Automatic) + 1 BY <1>0, <1>1, StartTakes
  <2>3. spent + (Cardinality(Automatic) + 1) <= MaxPerDay
    BY <1>0, <1>7, <1>2, CountType, Finite, InFlight DEF Covered, Honest
  <2>4. Reserved' BY <2>2, <2>3, <1>1 DEF Reserved
  <2> QED BY <2>1, <2>4, <1>0, <1>1, <1>3, <1>7, StartTakes DEF Honest
<1> QED BY <1>1, <1>4, <1>5, <1>6, <1>7 DEF Inv

LEMMA StepByHand ==
  ASSUME Inv, NEW k \in Calls, NEW cam \in Cams, handle_describe_snapshot(k, cam)
  PROVE  Inv'
<1>0. Numbers /\ Slotted /\ Stored /\ Flags /\ (~cut => Honest) BY DEF Inv
<1>1. /\ Starts(k, cam, FALSE) /\ manual < MaxManual /\ manual' = manual + 1
      /\ UNCHANGED <<day, used, stamp, stored, pending, cooling, spent, reloads, cut>>
  BY DEF handle_describe_snapshot
<1>2. Numbers' BY <1>0, <1>1, Bounds DEF Numbers
<1>3. Stored' /\ Flags' BY <1>0, <1>1 DEF Stored, Flags
<1>4. Slotted' BY <1>0, <1>1, StartTakes
<1>5. ASSUME ~cut PROVE Honest'
  <2>1. Cardinality(Automatic') = Cardinality(Automatic) BY <1>0, <1>1, StartTakes
  <2>2. Reserved' BY <1>0, <1>5, <2>1, <1>1 DEF Reserved, Honest
  <2> QED BY <2>2, <1>0, <1>1, <1>5, StartTakes, SameCount DEF Honest
<1> QED BY <1>1, <1>2, <1>3, <1>4, <1>5 DEF Inv

LEMMA StepRecorded ==
  ASSUME Inv, NEW k \in Calls, ai_record_call(k)
  PROVE  Inv'
<1>0. Numbers /\ Slotted /\ Stored /\ Flags /\ (~cut => Honest) BY DEF Inv
<1>1. /\ calls[k].at = "running" /\ calls' = [calls EXCEPT ![k] = NoCall]
      /\ RollsOver(ai_budget_state + 1)
      /\ day' = day /\ stored' = stored /\ manual' = manual
      /\ reloads' = reloads /\ cut' = cut
  BY DEF ai_record_call
<1>2. IF calls[k].auto THEN spent' = spent + 1 ELSE spent' = spent
  BY DEF ai_record_call
<1>3. spent' = spent + 1 \/ spent' = spent BY <1>2, Zenon
<1>4. /\ used' = ai_budget_state + 1 /\ stamp' = day /\ pending' \in BOOLEAN
      /\ ai_budget_state' = ai_budget_state + 1 /\ (Saved => Saved')
  BY <1>0, <1>1, CountType, RollsOverSaves
<1>5. Numbers' BY <1>0, <1>1, <1>3, <1>4, CountType, Bounds DEF Numbers
<1>6. calls[k].cam \in Cams BY <1>0 DEF Slotted
<1>7. cooling' = cooling \cup {calls[k].cam} BY DEF ai_record_call
<1>8. Stored' /\ Flags' BY <1>0, <1>1, <1>4, <1>6, <1>7 DEF Stored, Flags
<1>9. Slotted' BY <1>0, <1>1, EndGives
<1>10. k \in Automatic <=> calls[k].auto BY <1>1 DEF Automatic
<1>11. ASSUME ~cut PROVE Honest'
  <2>1. Covered' BY <1>0, <1>11, <1>3, <1>4, CountType DEF Covered, Honest
  <2>2. Cardinality(Automatic') = IF k \in Automatic THEN Cardinality(Automatic) - 1
                                  ELSE Cardinality(Automatic)
    BY <1>0, <1>1, EndGives
  <2>3. IF k \in Automatic THEN spent' = spent + 1 ELSE spent' = spent
    BY <1>2, <1>10, Zenon
  <2>4. Reserved' BY <2>2, <2>3, <1>0, <1>11, Finite, CountType DEF Reserved, Honest
  <2> QED BY <2>1, <2>4, <1>0, <1>1, <1>4, <1>11, EndGives DEF Honest
<1> QED BY <1>1, <1>5, <1>8, <1>9, <1>11 DEF Inv

LEMMA StepFailed ==
  ASSUME Inv, NEW k \in Calls, Failed(k)
  PROVE  Inv'
<1>0. Numbers /\ Slotted /\ Stored /\ Flags /\ (~cut => Honest) BY DEF Inv
<1>1. /\ calls' = [calls EXCEPT ![k] = NoCall]
      /\ UNCHANGED <<day, used, stamp, stored, pending, cooling, spent, manual, reloads, cut>>
  BY DEF Failed
<1>2. Numbers' /\ Stored' /\ Flags' BY <1>0, <1>1 DEF Numbers, Stored, Flags
<1>3. Slotted' BY <1>0, <1>1, EndGives
<1>4. ASSUME ~cut PROVE Honest'
  <2>1. Cardinality(Automatic') = IF k \in Automatic THEN Cardinality(Automatic) - 1
                                  ELSE Cardinality(Automatic)
    BY <1>0, <1>1, EndGives
  <2>2. Cardinality(Automatic') <= Cardinality(Automatic) /\ Cardinality(Automatic') \in Int
    BY <2>1, Finite
  <2>3. Reserved' BY <2>2, <1>0, <1>1, <1>4, Finite, CountType DEF Reserved, Honest
  <2> QED BY <2>3, <1>0, <1>1, <1>4, EndGives, SameCount DEF Honest
<1> QED BY <1>1, <1>2, <1>3, <1>4 DEF Inv

(* Nothing is left behind unless the promise is off.                        *)
LEMMA StepLeftBehind ==
  ASSUME Inv, NEW k \in Calls, LeftBehind(k)
  PROVE  /\ Inv' /\ cut /\ day' = day /\ cut' = cut
         /\ spent' = spent + 1 \/ spent' = spent
<1>0. Numbers /\ Slotted /\ Stored /\ Flags /\ (~cut => Honest) BY DEF Inv
<1>1. /\ calls[k].at = "left behind" /\ calls' = [calls EXCEPT ![k] = NoCall]
      /\ UNCHANGED <<day, used, stamp, pending, cooling, manual, reloads, cut>>
  BY DEF LeftBehind
<1>2. spent' = IF calls[k].auto THEN spent + 1 ELSE spent BY DEF LeftBehind
<1>3. spent' = spent + 1 \/ spent' = spent BY <1>2, Zenon
<1>4. UNCHANGED <<day, used, stamp, manual, reloads>> BY <1>1
<1>5. cut BY <1>0, <1>1 DEF Honest, NoneLeftBehind
<1>6. Numbers' BY <1>0, <1>3, <1>4 DEF Numbers
<1>7. PICK n \in 1 .. MaxPerDay + MaxManual : stored' = [date |-> day, count |-> n]
  BY DEF LeftBehind
<1>8. day \in 0 .. Days /\ n \in Nat BY <1>0, Bounds DEF Numbers
<1>9. Stored' BY <1>7, <1>8 DEF Stored
<1>10. Flags' BY <1>0, <1>1 DEF Flags
<1>11. Slotted' BY <1>0, <1>1, EndGives
<1> QED BY <1>1, <1>3, <1>5, <1>6, <1>9, <1>10, <1>11 DEF Inv

LEMMA StepSaved ==
  ASSUME Inv, _async_save_ai_budget
  PROVE  Inv'
<1>0. Numbers /\ Slotted /\ Stored /\ Flags /\ (~cut => Honest) BY DEF Inv
<1>1. /\ pending' = FALSE /\ stored' = [date |-> stamp, count |-> used]
      /\ UNCHANGED <<day, used, stamp, calls, cooling, spent, manual, reloads, cut>>
  BY DEF _async_save_ai_budget
<1>2. Numbers' /\ Flags' BY <1>0, <1>1 DEF Numbers, Flags
<1>3. stamp \in 0 .. Days /\ used \in Nat BY <1>0 DEF Numbers
<1>4. Stored' BY <1>1, <1>3 DEF Stored
<1>5. Saved' BY <1>1 DEF Saved
<1>6. Covered => Covered' BY <1>1 DEF Covered, ai_budget_state
<1> QED BY <1>0, <1>1, <1>2, <1>4, <1>5, <1>6, SameSlots DEF Inv, Honest

LEMMA StepCooled ==
  ASSUME Inv, NEW cam \in Cams, CooledDown(cam)
  PROVE  Inv'
<1>0. Numbers /\ Slotted /\ Stored /\ Flags /\ (~cut => Honest) BY DEF Inv
<1>1. /\ cooling' = cooling \ {cam}
      /\ UNCHANGED <<day, used, stamp, stored, pending, calls, spent, manual, reloads, cut>>
  BY DEF CooledDown
<1>2. Numbers' /\ Stored' /\ Flags' BY <1>0, <1>1 DEF Numbers, Stored, Flags
<1> QED BY <1>0, <1>1, <1>2, SameSlots, SameCount DEF Inv, Honest

(* On a new day nothing has been made, and no count is of that day.         *)
LEMMA StepMidnight ==
  ASSUME Inv, Midnight
  PROVE  Inv'
<1>0. Numbers /\ Slotted /\ Stored /\ Flags /\ (~cut => Honest) BY DEF Inv
<1>1. /\ day < Days /\ day' = day + 1 /\ spent' = 0 /\ manual' = 0
      /\ UNCHANGED <<used, stamp, stored, pending, calls, cooling, reloads, cut>>
  BY DEF Midnight
<1>2. Numbers' /\ stamp' # day' BY <1>0, <1>1, Bounds DEF Numbers
<1>3. Stored' /\ Flags' BY <1>0, <1>1 DEF Stored, Flags
<1>4. Covered' BY <1>1, <1>2 DEF Covered, ai_budget_state
<1>5. Saved' BY <1>2 DEF Saved
<1>6. Automatic' = Automatic BY <1>1, SameSlots
<1>7. Reserved => Reserved' BY <1>0, <1>1, <1>6, Finite, CountType DEF Reserved
<1> QED BY <1>0, <1>1, <1>2, <1>3, <1>4, <1>5, <1>7, SameSlots DEF Inv, Honest

(* A reload that loses nothing finds the count in the store.                *)
LEMMA StepReloaded ==
  ASSUME Inv, async_load_ai_budget
  PROVE  Inv'
<1>0. Numbers /\ Slotted /\ Stored /\ Flags /\ (~cut => Honest) BY DEF Inv
<1>1. /\ reloads' = reloads + 1 /\ reloads < MaxReloads
      /\ used' = (IF Loaded THEN stored.count ELSE 0)
      /\ stamp' = (IF Loaded THEN stored.date ELSE 0)
      /\ pending' = FALSE /\ cooling' = {}
      /\ day' = day /\ stored' = stored /\ spent' = spent /\ manual' = manual
  BY DEF async_load_ai_budget
<1>2. calls' = [j \in Calls |-> IF calls[j].at = "running"
                  THEN [calls[j] EXCEPT !.at = "left behind"] ELSE calls[j]]
  BY DEF async_load_ai_budget
<1>3. cut' = (cut \/ pending \/ ai_in_flight > 0) BY DEF async_load_ai_budget
<1>4. used' \in Nat /\ stamp' \in 0 .. Days /\ stamp' <= day
  <2>1. stored.count \in Nat /\ stored.date \in 0 .. Days BY <1>0 DEF Stored
  <2>2. CASE Loaded BY <2>1, <2>2, <1>0, <1>1 DEF Loaded, Numbers
  <2>3. CASE ~Loaded BY <2>3, <1>0, <1>1, Bounds DEF Numbers
  <2> QED BY <2>2, <2>3
<1>5. Numbers' BY <1>0, <1>1, <1>4, Bounds DEF Numbers
<1>6. Stored' BY <1>0, <1>1 DEF Stored
<1>7. cut' \in BOOLEAN BY <1>3
<1>8. Flags' BY <1>1, <1>7 DEF Flags
<1>9. Slotted' BY <1>0, <1>2 DEF Slotted
<1>10. ASSUME ~cut' PROVE Honest'
  <2>1. ~cut /\ ~pending /\ ~(ai_in_flight > 0) BY <1>3, <1>10
  <2>2. Covered /\ Reserved /\ Saved /\ NoneLeftBehind BY <1>0, <2>1 DEF Honest
  <2>3. Running = {} BY <2>1, InFlight, Finite, FS_EmptySet
  <2>4. \A j \in Calls : calls[j].at # "running" BY <2>3 DEF Running
  <2>5. calls' = calls BY <2>4, <1>0, <1>2 DEF Slotted
  <2>6. CASE stamp = day
    <3>1. stored = [date |-> stamp, count |-> used] BY <2>6, <2>1, <2>2 DEF Saved
    <3>2. stored.date = day /\ stored.count = used BY <3>1, <2>6
    <3>3. used' = used /\ stamp' = stamp BY <3>2, <2>6, <1>1 DEF Loaded
    <3>4. Covered' BY <3>3, <2>2, <1>1 DEF Covered, ai_budget_state
    <3>5. Saved' BY <3>1, <3>3, <1>1 DEF Saved
    <3> QED BY <3>4, <3>5, <2>2, <2>5, <1>1, SameSlots DEF Honest
  <2>7. CASE stamp # day
    <3>1. spent = 0 BY <2>7, <2>2, <1>0, CountType DEF Covered, ai_budget_state
    <3>2. Covered' BY <3>1, <1>1, <1>4 DEF Covered, ai_budget_state
    <3>3. ASSUME Loaded PROVE Saved'
      <4>1. stored = [date |-> stored.date, count |-> stored.count] BY <1>0 DEF Stored
      <4> QED BY <4>1, <3>3, <1>1 DEF Saved
    <3>4. ASSUME ~Loaded PROVE Saved'
      <4>1. stamp' # day' BY <3>4, <1>0, <1>1 DEF Numbers
      <4> QED BY <4>1 DEF Saved
    <3>5. Saved' BY <3>3, <3>4
    <3> QED BY <3>2, <3>5, <2>2, <2>5, <1>1, SameSlots DEF Honest
  <2> QED BY <2>6, <2>7
<1> QED BY <1>5, <1>6, <1>8, <1>9, <1>10 DEF Inv

LEMMA InvNext == Inv /\ [Next]_aiVars => Inv'
<1> SUFFICES ASSUME Inv, [Next]_aiVars PROVE Inv' OBVIOUS
<1>1. ASSUME NEW k \in Calls, NEW cam \in Cams,
             async_generate_ai_description(k, cam) \/ handle_describe_snapshot(k, cam)
      PROVE  Inv'
  BY <1>1, StepAsked, StepByHand
<1>2. ASSUME NEW k \in Calls, ai_record_call(k) \/ Failed(k) \/ LeftBehind(k)
      PROVE  Inv'
  BY <1>2, StepRecorded, StepFailed, StepLeftBehind
<1>3. ASSUME NEW cam \in Cams, CooledDown(cam) PROVE Inv' BY <1>3, StepCooled
<1>4. CASE _async_save_ai_budget \/ Midnight \/ async_load_ai_budget
  BY <1>4, StepSaved, StepMidnight, StepReloaded
<1>5. CASE UNCHANGED aiVars
  <2>1. UNCHANGED <<day, used, stamp, stored, pending, calls, cooling, spent, manual, reloads, cut>>
    BY <1>5 DEF aiVars
  <2>2. Numbers /\ Slotted /\ Stored /\ Flags /\ (~cut => Honest) BY DEF Inv
  <2>3. Numbers' /\ Stored' /\ Flags' BY <2>1, <2>2 DEF Numbers, Stored, Flags
  <2> QED BY <2>1, <2>2, <2>3, SameSlots, SameCount DEF Inv, Honest
<1> QED BY <1>1, <1>2, <1>3, <1>4, <1>5 DEF Next

(* Every description that is made maps to Describe, a reload that loses a   *)
(* count to LosesCount, midnight to itself, and everything else to nothing. *)
LEMMA StepMaps ==
  Inv /\ [Next]_aiVars =>
    [Promise!Describe \/ Promise!Midnight \/ Promise!LosesCount]_(Promise!allowance)
<1> SUFFICES ASSUME Inv, [Next]_aiVars
             PROVE  Promise!Describe \/ Promise!Midnight \/ Promise!LosesCount
                    \/ UNCHANGED Promise!allowance
  OBVIOUS
<1> USE DEF Promise!allowance
<1>0. Numbers /\ Flags /\ (~cut => Honest) BY DEF Inv
<1>1. ASSUME NEW k \in Calls, ai_record_call(k)
      PROVE  Promise!Describe \/ UNCHANGED Promise!allowance
  <2>1. CASE calls[k].auto
    <3>1. k \in Automatic BY <1>1, <2>1 DEF ai_record_call, Automatic
    <3>2. Automatic # {} BY <3>1
    <3>3. Cardinality(Automatic) # 0 BY <3>2, Finite, FS_EmptySet
    <3>4. cut \/ spent < MaxPerDay
      BY <3>3, <1>0, Finite, CountType DEF Honest, Reserved
    <3>5. spent' = spent + 1 /\ day' = day /\ cut' = cut BY <2>1, <1>1 DEF ai_record_call
    <3> QED BY <3>4, <3>5 DEF Promise!Describe
  <2>2. CASE ~calls[k].auto BY <2>2, <1>1 DEF ai_record_call
  <2> QED BY <2>1, <2>2
<1>2. ASSUME NEW k \in Calls, LeftBehind(k)
      PROVE  Promise!Describe \/ UNCHANGED Promise!allowance
  BY <1>2, StepLeftBehind DEF Promise!Describe
<1>3. ASSUME NEW k \in Calls, NEW cam \in Cams,
             async_generate_ai_description(k, cam) \/ handle_describe_snapshot(k, cam)
      PROVE  UNCHANGED Promise!allowance
  BY <1>3 DEF async_generate_ai_description, handle_describe_snapshot
<1>4. ASSUME NEW k \in Calls, Failed(k) PROVE UNCHANGED Promise!allowance
  BY <1>4 DEF Failed
<1>5. ASSUME NEW cam \in Cams, CooledDown(cam) PROVE UNCHANGED Promise!allowance
  BY <1>5 DEF CooledDown
<1>6. CASE _async_save_ai_budget BY <1>6 DEF _async_save_ai_budget
<1>7. CASE Midnight BY <1>7 DEF Midnight, Promise!Midnight
<1>8. CASE async_load_ai_budget
  <2>1. day' = day /\ spent' = spent BY <1>8 DEF async_load_ai_budget
  <2>2. cut' = (cut \/ pending \/ ai_in_flight > 0) BY <1>8 DEF async_load_ai_budget
  <2>3. CASE pending \/ ai_in_flight > 0
    <3>1. cut' = TRUE BY <2>2, <2>3
    <3> QED BY <2>1, <3>1 DEF Promise!LosesCount
  <2>4. CASE ~(pending \/ ai_in_flight > 0)
    <3>1. cut' = cut BY <2>2, <2>4, <1>0 DEF Flags
    <3> QED BY <2>1, <3>1
  <2> QED BY <2>3, <2>4
<1>9. CASE UNCHANGED aiVars BY <1>9 DEF aiVars
<1> QED BY <1>1, <1>2, <1>3, <1>4, <1>5, <1>6, <1>7, <1>8, <1>9 DEF Next

(* The invariant: as long as nothing was lost, the count of today covers    *)
(* what was made, and what is under way fits in what is left                *)
(* (ai_analysis_runtime.py _ai_rate_allowed, ai_record_call).               *)
THEOREM Reservation == Spec => []Inv
  BY InvInit, InvNext, PTL DEF Spec

(* The gate implements the daily allowance: of the descriptions that events *)
(* ask for, at most MaxPerDay are made on any day, unless a reload lost a   *)
(* count (ai_analysis_runtime.py).                                          *)
THEOREM KeepsThePromiseHolds == Spec => KeepsThePromise
<1>1. Init => Promise!Init BY DEF Init, Promise!Init
<1> QED BY <1>1, StepMaps, Reservation, PTL DEF Spec, KeepsThePromise, Promise!Spec

-----------------------------------------------------------------------------
(* The delivery of an alert.                                                *)

\* The record of an alert's task, and the types that the steps rely on.
TaskSet == [at : Delivery!Steps, given : BOOLEAN, trouble : BOOLEAN, left : Nat,
            url : Delivery!Events \cup {0}, clip : Delivery!Events \cup {0},
            status : {"pending", "done", "unavailable"}, cleanup : SUBSET Delivery!Media]
Tasks ==
    /\ opts \in Delivery!OptionSet /\ latest \in Delivery!Events \cup {0}
    /\ clips \in [Delivery!Events -> {"pending", "done", "unavailable"}]
    /\ task \in [Delivery!Events -> TaskSet]
    /\ www \subseteq Delivery!Events \X Delivery!Media
    /\ got \subseteq Delivery!Events \X Delivery!Media \X (Delivery!Events \cup {0})

\* An alert that was given its picture looks for no other, and takes its clip by its own id.
Given(e) == task[e].given =>
    /\ task[e].status = "pending" /\ task[e].clip \in {0, e}
    /\ task[e].at \in {"text", "download", "write", "shot"} => task[e].url = e
    /\ task[e].at \in {"clip", "clipwrite", "video"} => task[e].clip = e
    /\ task[e].at # "refetch"

\* What a user got of it is its own, and nobody gets anything of what has not happened.
Received(e) == \A g \in got : g[1] = e =>
    /\ task[e].given => g[3] = e
    /\ task[e].at # "none"

\* Its files are on its list until it has removed them.
Served(e) == \A f \in www : f[1] = e =>
    /\ task[e].at \notin {"none", "text"}
    /\ ~opts.keep => f[2] \in task[e].cleanup /\ task[e].at # "done"

\* An event that has not happened has no task; a clip that is polled for has a try left.
Begun(e) ==
    /\ e > latest => task[e].at = "none"
    /\ task[e].at = "poll" => task[e].left > 0

Own(e) == Given(e) /\ Received(e) /\ Served(e) /\ Begun(e)
DeliveryInv == Tasks /\ \A e \in Delivery!Events : Own(e)

\* A step of one alert leaves the others alone: it moves its own record, and what it puts under
\* www or sends to a user is its own.
Moves(e) ==
    /\ task' = [task EXCEPT ![e] = task'[e]]
    /\ \A f \in www' : f \in www \/ (f[1] = e /\ f \in Delivery!Events \X Delivery!Media)
    /\ \A g \in got' : g \in got \/ (g[1] = e /\ g \in Delivery!Events \X Delivery!Media \X (Delivery!Events \cup {0}))
    /\ opts' = opts /\ clips' = clips

\* What is so of the others stays so.
LEMMA OthersKeep ==
  ASSUME DeliveryInv, NEW e \in Delivery!Events, Moves(e), latest' = latest,
         task'[e] \in TaskSet, Own(e)'
  PROVE  DeliveryInv'
<1>1. ASSUME NEW u \in Delivery!Events, u # e PROVE Own(u)'
  <2>1. task'[u] = task[u] /\ Own(u)
    BY <1>1 DEF Moves, DeliveryInv, Tasks
  <2>2. Given(u)' /\ Begun(u)'
    BY <2>1 DEF Own, Given, Begun
  <2>3. Received(u)'
    BY <1>1, <2>1 DEF Own, Received, Moves
  <2>4. Served(u)'
    BY <1>1, <2>1 DEF Own, Served, Moves
  <2>. QED BY <2>2, <2>3, <2>4 DEF Own
<1>2. \A u \in Delivery!Events : Own(u)'
  BY <1>1
<1>3. Tasks'
  <2>1. task' \in [Delivery!Events -> TaskSet]
    BY DEF Moves, DeliveryInv, Tasks
  <2>2. UNCHANGED <<opts, clips, latest>>
    BY DEF Moves
  <2>3. www' \subseteq Delivery!Events \X Delivery!Media
    BY DEF Moves, DeliveryInv, Tasks
  <2>4. got' \subseteq Delivery!Events \X Delivery!Media \X (Delivery!Events \cup {0})
    BY DEF Moves, DeliveryInv, Tasks
  <2>. QED BY <2>1, <2>2, <2>3, <2>4 DEF DeliveryInv, Tasks
<1>. QED BY <1>2, <1>3 DEF DeliveryInv

\* A write leaves a whole file, or a piece of one that is on the list too, or nothing.
Leaves(e, m, at, cleanup) ==
    /\ task' = [task EXCEPT ![e] = [task[e] EXCEPT !.at = at, !.cleanup = cleanup]]
    /\ \/ www' = www /\ cleanup = task[e].cleanup
       \/ /\ www' = www \cup {<<e, m>>}
          /\ cleanup = Delivery!Registered(task[e].cleanup, m)

\* Whatever becomes of the write.
LEMMA Writes ==
  ASSUME Tasks, NEW e \in Delivery!Events, NEW m \in Delivery!Media,
         NEW next \in Delivery!Steps, NEW failed \in Delivery!Steps,
         Delivery!Written(e, m, next, failed)
  PROVE  \E cleanup \in SUBSET Delivery!Media :
            Leaves(e, m, next, cleanup) \/ Leaves(e, m, failed, cleanup)
<1>. USE DEF Leaves
<1>1. PICK ok, partial \in BOOLEAN :
        /\ www' = IF ok \/ partial THEN www \cup {<<e, m>>} ELSE www
        /\ task' = [task EXCEPT ![e] = [task[e] EXCEPT !.at = IF ok THEN next ELSE failed,
             !.cleanup = IF ok \/ partial THEN Delivery!Registered(task[e].cleanup, m)
                                          ELSE task[e].cleanup]]
  BY DEF Delivery!Written, Tasks, TaskSet
<1>2. Delivery!Registered(task[e].cleanup, m) \subseteq Delivery!Media /\ task[e].cleanup \subseteq Delivery!Media
  BY DEF Delivery!Registered, Tasks, TaskSet
<1>3. CASE ok \/ partial
  BY <1>1, <1>2, <1>3
<1>4. CASE ~(ok \/ partial)
  BY <1>1, <1>2, <1>4
<1>. QED BY <1>3, <1>4

\* What the list tells of the newest event is of an event.
LEMMA ListedTyped ==
  ASSUME Tasks, NEW e \in Delivery!Events, NEW n \in Delivery!Events
  PROVE  Delivery!Listed(e, n) \in TaskSet
<1>1. task[e] \in TaskSet
  BY DEF Tasks
<1>2. clips[n] \in {"pending", "done", "unavailable"}
  BY DEF Tasks
<1>3. PICK url \in Delivery!Events \cup {0}, clip \in Delivery!Events \cup {0}, status \in {"pending", "done", "unavailable"} :
        Delivery!Listed(e, n) = [task[e] EXCEPT !.url = url, !.clip = clip, !.status = status]
  <2>1. task[e].clip \in Delivery!Events \cup {0}
    BY <1>1 DEF TaskSet
  <2>2. Delivery!Listed(e, n) = [task[e] EXCEPT !.url = IF n \in pictures THEN n ELSE 0,
                                  !.clip = IF clips[n] = "done" THEN n ELSE task[e].clip,
                                  !.status = clips[n]]
    BY <1>1 DEF Delivery!Listed, TaskSet
  <2>. QED BY <1>2, <2>1, <2>2
<1>. QED BY <1>1, <1>3 DEF TaskSet

\* One that is asked for has one try less, and is downloaded or asked for again.
LEMMA Refetched ==
  ASSUME DeliveryInv, NEW e \in Delivery!Events, Delivery!Refetch(e)
  PROVE  /\ task' = [task EXCEPT ![e] = task'[e]] /\ task'[e] \in TaskSet
         /\ task'[e].at \in {"download", "refetch"}
         /\ UNCHANGED <<opts, latest, pictures, clips, www, got>>
         /\ task'[e].given = task[e].given /\ task'[e].cleanup = task[e].cleanup
<1>1. task[e] \in TaskSet /\ task[e].left > 0 /\ task[e].at = "refetch"
  BY DEF DeliveryInv, Tasks, Delivery!Refetch
<1>2. latest \in Delivery!Events
  BY <1>1, AlertsBounds DEF DeliveryInv, Tasks, Own, Begun, Delivery!Events, Delivery!Bounds
<1>3. PICK answered \in BOOLEAN, seen \in {Delivery!Listed(e, latest), task[e]} :
        task' = [task EXCEPT ![e] = [seen EXCEPT !.left = seen.left - 1,
                    !.at = IF seen.url # 0 /\ answered THEN "download" ELSE "refetch"]]
  <2>1. PICK answered \in BOOLEAN :
          LET seen == IF answered THEN Delivery!Listed(e, latest) ELSE task[e]
          IN  task' = [task EXCEPT ![e] = [seen EXCEPT !.left = @ - 1,
                    !.at = IF seen.url # 0 /\ answered THEN "download" ELSE "refetch"]]
    BY DEF Delivery!Refetch
  <2>2. CASE answered = TRUE
    BY <2>1, <2>2
  <2>3. CASE answered = FALSE
    BY <2>1, <2>3
  <2>. QED BY <2>2, <2>3
<1>4. /\ seen \in TaskSet /\ seen.left = task[e].left /\ seen.given = task[e].given
      /\ seen.cleanup = task[e].cleanup
  <2>1. CASE seen = task[e]
    BY <1>1, <2>1
  <2>2. CASE seen = Delivery!Listed(e, latest)
    <3>1. seen \in TaskSet
      BY <1>2, <2>2, ListedTyped DEF DeliveryInv
    <3>2. seen.left = task[e].left /\ seen.given = task[e].given /\ seen.cleanup = task[e].cleanup
      BY <1>1, <2>2 DEF Delivery!Listed, TaskSet
    <3>. QED BY <3>1, <3>2
  <2>. QED BY <1>3, <2>1, <2>2
<1>5. PICK at \in {"download", "refetch"} : task' = [task EXCEPT ![e] = [seen EXCEPT !.left = seen.left - 1, !.at = at]]
  <2>1. CASE seen.url # 0 /\ answered
    BY <1>3, <2>1
  <2>2. CASE ~(seen.url # 0 /\ answered)
    BY <1>3, <2>2
  <2>. QED BY <2>1, <2>2
<1>6. task'[e] = [seen EXCEPT !.left = seen.left - 1, !.at = at]
  BY <1>5 DEF DeliveryInv, Tasks
<1>7. task'[e] \in TaskSet
  <2>1. at \in Delivery!Steps
    BY DEF Delivery!Steps
  <2>2. seen.left - 1 \in Nat
    BY <1>1, <1>4 DEF TaskSet
  <2>. QED BY <1>4, <1>6, <2>1, <2>2 DEF TaskSet
<1>8. task' = [task EXCEPT ![e] = task'[e]]
  BY <1>5, <1>6
<1>9. task'[e].at = at /\ task'[e].given = seen.given /\ task'[e].cleanup = seen.cleanup
  BY <1>4, <1>6 DEF TaskSet
<1>. QED BY <1>4, <1>7, <1>8, <1>9 DEF Delivery!Refetch, Delivery!Cloud

\* The text is sent or not; a given picture is downloaded next.
LEMMA TextKeeps ==
  ASSUME DeliveryInv, NEW e \in Delivery!Events, Delivery!Text(e)
  PROVE  DeliveryInv'
<1>. USE AlertsBounds DEF Delivery!Text, Delivery!_notify_type, DeliveryInv, Tasks, TaskSet, Delivery!Steps, Delivery!Media
<1>1. task'[e] \in TaskSet /\ latest' = latest
  OBVIOUS
<1>2. Moves(e)
  BY DEF Moves
<1>3. Given(e)'
  BY DEF Own, Given
<1>4. Received(e)'
  BY DEF Own, Received, Given
<1>5. Served(e)'
  BY DEF Own, Served
<1>6. Begun(e)'
  BY DEF Own, Begun
<1>. QED BY <1>1, <1>2, <1>3, <1>4, <1>5, <1>6, OthersKeep DEF Own

\* Only one that was given nothing looks at the list.
LEMMA RefetchKeeps ==
  ASSUME DeliveryInv, NEW e \in Delivery!Events, Delivery!Refetch(e)
  PROVE  DeliveryInv'
<1>. USE AlertsBounds DEF Delivery!Refetch, Delivery!Listed, Delivery!Cloud, DeliveryInv, Tasks, TaskSet, Delivery!Steps, Delivery!Media
<1>1. task'[e] \in TaskSet /\ latest' = latest
  BY Refetched
<1>2. Moves(e)
  BY Refetched DEF Moves
<1>3. Given(e)'
  BY Refetched DEF Own, Given
<1>4. Received(e)'
  BY Refetched DEF Own, Received, Given
<1>5. Served(e)'
  BY Refetched DEF Own, Served
<1>6. Begun(e)'
  BY Refetched DEF Own, Begun
<1>. QED BY <1>1, <1>2, <1>3, <1>4, <1>5, <1>6, OthersKeep DEF Own

\* Without an address the clip is asked for.
LEMMA GiveUpPictureKeeps ==
  ASSUME DeliveryInv, NEW e \in Delivery!Events, Delivery!GiveUpPicture(e)
  PROVE  DeliveryInv'
<1>. USE AlertsBounds DEF Delivery!GiveUpPicture, Delivery!To, Delivery!AfterAddress, Delivery!Cloud, DeliveryInv, Tasks, TaskSet, Delivery!Steps, Delivery!Media
<1>1. task'[e] \in TaskSet /\ latest' = latest
  OBVIOUS
<1>2. Moves(e)
  BY DEF Moves
<1>3. Given(e)'
  BY DEF Own, Given
<1>4. Received(e)'
  BY DEF Own, Received, Given
<1>5. Served(e)'
  BY DEF Own, Served
<1>6. Begun(e)'
  BY DEF Own, Begun
<1>. QED BY <1>1, <1>2, <1>3, <1>4, <1>5, <1>6, OthersKeep DEF Own

\* The download changes nothing but the place.
LEMMA DownloadKeeps ==
  ASSUME DeliveryInv, NEW e \in Delivery!Events, Delivery!Download(e)
  PROVE  DeliveryInv'
<1>. USE AlertsBounds DEF Delivery!Download, Delivery!To, Delivery!Cloud, DeliveryInv, Tasks, TaskSet, Delivery!Steps, Delivery!Media
<1>1. task'[e] \in TaskSet /\ latest' = latest
  OBVIOUS
<1>2. Moves(e)
  BY DEF Moves
<1>3. Given(e)'
  BY DEF Own, Given
<1>4. Received(e)'
  BY DEF Own, Received, Given
<1>5. Served(e)'
  BY DEF Own, Served
<1>6. Begun(e)'
  BY DEF Own, Begun
<1>. QED BY <1>1, <1>2, <1>3, <1>4, <1>5, <1>6, OthersKeep DEF Own

\* The picture that is served is on the list.
LEMMA _write_fileKeeps ==
  ASSUME DeliveryInv, NEW e \in Delivery!Events, Delivery!_write_file(e)
  PROVE  DeliveryInv'
<1>1. /\ task[e].at = "write" /\ Delivery!Written(e, "shot", "shot", "probe")
      /\ UNCHANGED <<opts, latest, pictures, clips, got>>
  BY DEF Delivery!_write_file, Delivery!Cloud
<1>2. "shot" \in Delivery!Media /\ "shot" \in Delivery!Steps /\ "probe" \in Delivery!Steps
  BY DEF Delivery!Media, Delivery!Steps
<1>3. PICK cleanup \in SUBSET Delivery!Media :
         Leaves(e, "shot", "shot", cleanup) \/ Leaves(e, "shot", "probe", cleanup)
  BY <1>1, <1>2, Writes DEF DeliveryInv
<1>. PICK at \in {"shot", "probe"} : Leaves(e, "shot", at, cleanup)
  BY <1>3
<1>. USE DEF Leaves
<1>4. task[e] \in TaskSet
  BY DEF DeliveryInv, Tasks
<1>5. task'[e] = [task[e] EXCEPT !.at = at, !.cleanup = cleanup]
  BY DEF DeliveryInv, Tasks
<1>6. task'[e] \in TaskSet
  <2>1. at \in Delivery!Steps
    BY <1>2
  <2>2. cleanup \subseteq Delivery!Media
    OBVIOUS
  <2>. HIDE DEF Leaves
  <2>. QED BY <1>4, <1>5, <2>1, <2>2 DEF TaskSet
<1>7. Moves(e)
  <2>1. task' = [task EXCEPT ![e] = task'[e]]
    BY <1>5
  <2>2. \A f \in www' : f \in www \/ (f[1] = e /\ f \in Delivery!Events \X Delivery!Media)
    BY <1>2
  <2>. QED BY <1>1, <2>1, <2>2 DEF Moves
<1>8. Own(e)
  BY DEF DeliveryInv
<1>9. Given(e)' /\ Received(e)' /\ Begun(e)'
  BY <1>1, <1>4, <1>5, <1>8 DEF Own, Given, Received, Begun, TaskSet
<1>10. Served(e)'
  <2>1. task'[e].at = at /\ task'[e].cleanup = cleanup /\ opts' = opts
    BY <1>1, <1>4, <1>5 DEF TaskSet
  <2>2. at \notin {"none", "text", "done"}
    OBVIOUS
  <2>3. CASE www' = www /\ cleanup = task[e].cleanup
    BY <1>8, <2>1, <2>2, <2>3 DEF Own, Served
  <2>4. CASE www' = www \cup {<<e, "shot">>} /\ cleanup = Delivery!Registered(task[e].cleanup, "shot")
    BY <1>8, <2>1, <2>2, <2>4 DEF Own, Served, Delivery!Registered
  <2>. QED BY <2>3, <2>4
<1>. QED BY <1>1, <1>6, <1>7, <1>9, <1>10, OthersKeep DEF Own

\* The picture that is sent is the one of its address.
LEMMA ScreenshotKeeps ==
  ASSUME DeliveryInv, NEW e \in Delivery!Events, Delivery!Screenshot(e)
  PROVE  DeliveryInv'
<1>. USE AlertsBounds DEF Delivery!Screenshot, Delivery!_notify_type, Delivery!To, DeliveryInv, Tasks, TaskSet, Delivery!Steps, Delivery!Media
<1>1. task'[e] \in TaskSet /\ latest' = latest
  OBVIOUS
<1>2. Moves(e)
  BY DEF Moves
<1>3. Given(e)'
  BY DEF Own, Given
<1>4. Received(e)'
  BY DEF Own, Received, Given
<1>5. Served(e)'
  BY DEF Own, Served
<1>6. Begun(e)'
  BY DEF Own, Begun
<1>. QED BY <1>1, <1>2, <1>3, <1>4, <1>5, <1>6, OthersKeep DEF Own

\* The clip is asked for by the id of the event, unless the list had one.
LEMMA ProbeKeeps ==
  ASSUME DeliveryInv, NEW e \in Delivery!Events, Delivery!Probe(e)
  PROVE  DeliveryInv'
<1>. USE AlertsBounds DEF Delivery!Probe, Delivery!Found, Delivery!WithoutClip, Delivery!Cloud, DeliveryInv, Tasks, TaskSet, Delivery!Steps, Delivery!Media
<1>1. task'[e] \in TaskSet /\ latest' = latest
  OBVIOUS
<1>2. Moves(e)
  BY DEF Moves
<1>3. Given(e)'
  BY DEF Own, Given
<1>4. Received(e)'
  BY DEF Own, Received, Given
<1>5. Served(e)'
  BY DEF Own, Served
<1>6. Begun(e)'
  BY DEF Own, Begun
<1>. QED BY <1>1, <1>2, <1>3, <1>4, <1>5, <1>6, OthersKeep DEF Own

\* The poll takes the entry of the event, and counts its tries.
LEMMA PollKeeps ==
  ASSUME DeliveryInv, NEW e \in Delivery!Events, Delivery!Poll(e)
  PROVE  DeliveryInv'
<1>. USE AlertsBounds DEF Delivery!Poll, Delivery!Entry, Delivery!Cloud, DeliveryInv, Tasks, TaskSet, Delivery!Steps, Delivery!Media
<1>1. task'[e] \in TaskSet /\ latest' = latest
  OBVIOUS
<1>2. Moves(e)
  BY DEF Moves
<1>3. Given(e)'
  BY DEF Own, Given
<1>4. Received(e)'
  BY DEF Own, Received, Given
<1>5. Served(e)'
  BY DEF Own, Served
<1>6. Begun(e)'
  BY DEF Own, Begun
<1>. QED BY <1>1, <1>2, <1>3, <1>4, <1>5, <1>6, OthersKeep DEF Own

\* The clip is loaded or not.
LEMMA ClipLoadedKeeps ==
  ASSUME DeliveryInv, NEW e \in Delivery!Events, Delivery!ClipLoaded(e)
  PROVE  DeliveryInv'
<1>. USE AlertsBounds DEF Delivery!ClipLoaded, Delivery!To, Delivery!Cloud, DeliveryInv, Tasks, TaskSet, Delivery!Steps, Delivery!Media
<1>1. task'[e] \in TaskSet /\ latest' = latest
  OBVIOUS
<1>2. Moves(e)
  BY DEF Moves
<1>3. Given(e)'
  BY DEF Own, Given
<1>4. Received(e)'
  BY DEF Own, Received, Given
<1>5. Served(e)'
  BY DEF Own, Served
<1>6. Begun(e)'
  BY DEF Own, Begun
<1>. QED BY <1>1, <1>2, <1>3, <1>4, <1>5, <1>6, OthersKeep DEF Own

\* The clip that is served is on the list.
LEMMA _process_downloaded_clipKeeps ==
  ASSUME DeliveryInv, NEW e \in Delivery!Events, Delivery!_process_downloaded_clip(e)
  PROVE  DeliveryInv'
<1>1. /\ task[e].at = "clipwrite" /\ Delivery!Written(e, "video", "video", "upload")
      /\ UNCHANGED <<opts, latest, pictures, clips, got>>
  BY DEF Delivery!_process_downloaded_clip, Delivery!Cloud
<1>2. "video" \in Delivery!Media /\ "video" \in Delivery!Steps /\ "upload" \in Delivery!Steps
  BY DEF Delivery!Media, Delivery!Steps
<1>3. PICK cleanup \in SUBSET Delivery!Media :
         Leaves(e, "video", "video", cleanup) \/ Leaves(e, "video", "upload", cleanup)
  BY <1>1, <1>2, Writes DEF DeliveryInv
<1>. PICK at \in {"video", "upload"} : Leaves(e, "video", at, cleanup)
  BY <1>3
<1>. USE DEF Leaves
<1>4. task[e] \in TaskSet
  BY DEF DeliveryInv, Tasks
<1>5. task'[e] = [task[e] EXCEPT !.at = at, !.cleanup = cleanup]
  BY DEF DeliveryInv, Tasks
<1>6. task'[e] \in TaskSet
  <2>1. at \in Delivery!Steps
    BY <1>2
  <2>2. cleanup \subseteq Delivery!Media
    OBVIOUS
  <2>. HIDE DEF Leaves
  <2>. QED BY <1>4, <1>5, <2>1, <2>2 DEF TaskSet
<1>7. Moves(e)
  <2>1. task' = [task EXCEPT ![e] = task'[e]]
    BY <1>5
  <2>2. \A f \in www' : f \in www \/ (f[1] = e /\ f \in Delivery!Events \X Delivery!Media)
    BY <1>2
  <2>. QED BY <1>1, <2>1, <2>2 DEF Moves
<1>8. Own(e)
  BY DEF DeliveryInv
<1>9. Given(e)' /\ Received(e)' /\ Begun(e)'
  BY <1>1, <1>4, <1>5, <1>8 DEF Own, Given, Received, Begun, TaskSet
<1>10. Served(e)'
  <2>1. task'[e].at = at /\ task'[e].cleanup = cleanup /\ opts' = opts
    BY <1>1, <1>4, <1>5, ZenonT(60) DEF TaskSet
  <2>2. at \notin {"none", "text", "done"}
    OBVIOUS
  <2>3. CASE www' = www /\ cleanup = task[e].cleanup
    BY <1>8, <2>1, <2>2, <2>3 DEF Own, Served
  <2>4. CASE www' = www \cup {<<e, "video">>} /\ cleanup = Delivery!Registered(task[e].cleanup, "video")
    BY <1>8, <2>1, <2>2, <2>4 DEF Own, Served, Delivery!Registered
  <2>. QED BY <2>3, <2>4
<1>. QED BY <1>1, <1>6, <1>7, <1>9, <1>10, OthersKeep DEF Own

\* The clip that is sent is the one that was found.
LEMMA VideoKeeps ==
  ASSUME DeliveryInv, NEW e \in Delivery!Events, Delivery!Video(e)
  PROVE  DeliveryInv'
<1>. USE AlertsBounds DEF Delivery!Video, Delivery!_notify_type, Delivery!To, DeliveryInv, Tasks, TaskSet, Delivery!Steps, Delivery!Media
<1>1. task'[e] \in TaskSet /\ latest' = latest
  OBVIOUS
<1>2. Moves(e)
  BY DEF Moves
<1>3. Given(e)'
  BY DEF Own, Given
<1>4. Received(e)'
  BY DEF Own, Received, Given
<1>5. Served(e)'
  BY DEF Own, Served
<1>6. Begun(e)'
  BY DEF Own, Begun
<1>. QED BY <1>1, <1>2, <1>3, <1>4, <1>5, <1>6, OthersKeep DEF Own

\* With files on the list the task is not over.
LEMMA UploadsKeeps ==
  ASSUME DeliveryInv, NEW e \in Delivery!Events, Delivery!Uploads(e)
  PROVE  DeliveryInv'
<1>. USE AlertsBounds DEF Delivery!Uploads, Delivery!NoTask, Delivery!Cloud, DeliveryInv, Tasks, TaskSet, Delivery!Steps, Delivery!Media
<1>1. task'[e] \in TaskSet /\ latest' = latest
  OBVIOUS
<1>2. Moves(e)
  BY DEF Moves
<1>3. Given(e)'
  BY DEF Own, Given
<1>4. Received(e)'
  BY DEF Own, Received, Given
<1>5. Served(e)'
  BY DEF Own, Served
<1>6. Begun(e)'
  BY DEF Own, Begun
<1>. QED BY <1>1, <1>2, <1>3, <1>4, <1>5, <1>6, OthersKeep DEF Own

\* What is on the list is removed, and it is all there is.
LEMMA CleanupKeeps ==
  ASSUME DeliveryInv, NEW e \in Delivery!Events, Delivery!Cleanup(e)
  PROVE  DeliveryInv'
<1>. USE AlertsBounds DEF Delivery!Cleanup, Delivery!To, Delivery!Cloud, DeliveryInv, Tasks, TaskSet, Delivery!Steps, Delivery!Media
<1>1. task'[e] \in TaskSet /\ latest' = latest
  OBVIOUS
<1>2. Moves(e)
  BY DEF Moves
<1>3. Given(e)'
  BY DEF Own, Given
<1>4. Received(e)'
  BY DEF Own, Received, Given
<1>5. Served(e)'
  BY DEF Own, Served
<1>6. Begun(e)'
  BY DEF Own, Begun
<1>. QED BY <1>1, <1>2, <1>3, <1>4, <1>5, <1>6, OthersKeep DEF Own

\* Bosch publishes a picture or decides about a clip, which no task has seen yet.
LEMMA CloudKeeps ==
  ASSUME DeliveryInv, NEW e \in Delivery!Events,
         Delivery!PictureReady(e) \/ Delivery!ClipDecided(e)
  PROVE  DeliveryInv'
<1>1. UNCHANGED <<opts, latest, task, www, got>>
  BY DEF Delivery!PictureReady, Delivery!ClipDecided
<1>2. clips' \in [Delivery!Events -> {"pending", "done", "unavailable"}]
  BY DEF Delivery!PictureReady, Delivery!ClipDecided, DeliveryInv, Tasks
<1>. QED BY <1>1, <1>2 DEF DeliveryInv, Tasks, Own, Given, Received, Served, Begun

\* The next event happens: nothing was done for it, and what was given is its picture.
LEMMA BeginsKeeps ==
  ASSUME DeliveryInv, NEW e \in Delivery!Events, Delivery!async_send_alert(e)
  PROVE  DeliveryInv'
<1>1. PICK trouble \in BOOLEAN, given \in BOOLEAN :
        /\ trouble => ~given
        /\ task' = [task EXCEPT ![e] =
             [Delivery!NoTask EXCEPT !.at = IF Delivery!Wanted(trouble) THEN "text" ELSE "done",
                            !.given = given, !.trouble = trouble,
                            !.url = IF given THEN e ELSE 0]]
  BY DEF Delivery!async_send_alert
<1>2. e = latest + 1 /\ latest' = e /\ UNCHANGED <<opts, clips, www, got>>
  BY DEF Delivery!async_send_alert
<1>3. PICK at \in {"text", "done"}, url \in {0, e} :
        /\ given => url = e
        /\ task' = [task EXCEPT ![e] = [Delivery!NoTask EXCEPT !.at = at, !.given = given,
                                          !.trouble = trouble, !.url = url]]
  <2>1. PICK at \in {"text", "done"} : at = IF Delivery!Wanted(trouble) THEN "text" ELSE "done"
    OBVIOUS
  <2>2. PICK url \in {0, e} : url = IF given THEN e ELSE 0
    OBVIOUS
  <2>. QED BY <1>1, <2>1, <2>2
<1>4. task'[e] = [Delivery!NoTask EXCEPT !.at = at, !.given = given, !.trouble = trouble, !.url = url]
  BY <1>3 DEF DeliveryInv, Tasks
<1>5. /\ task'[e].at = at /\ task'[e].given = given /\ task'[e].url = url /\ task'[e].clip = 0
      /\ task'[e].status = "pending" /\ task'[e].cleanup = {} /\ task'[e].left = 0
      /\ task'[e] \in TaskSet
  <2>1. task'[e] = [at |-> at, given |-> given, trouble |-> trouble, left |-> 0, url |-> url,
                    clip |-> 0, status |-> "pending", cleanup |-> {}]
    BY <1>4 DEF Delivery!NoTask
  <2>2. at \in Delivery!Steps /\ url \in Delivery!Events \cup {0} /\ 0 \in Nat
    BY DEF Delivery!Steps
  <2>3. task'[e] \in TaskSet
    BY <2>1, <2>2 DEF TaskSet
  <2>. QED BY <2>1, <2>3
<1>6. e > latest /\ task[e].at = "none"
  BY <1>2 DEF DeliveryInv, Own, Begun, Tasks, Delivery!Events
<1>7. /\ \A f \in www : f[1] # e
      /\ \A g \in got : g[1] # e
  BY <1>6 DEF DeliveryInv, Own, Served, Received
<1>8. ASSUME NEW u \in Delivery!Events, u # e PROVE Own(u)'
  <2>1. task'[u] = task[u] /\ Own(u)
    BY <1>3, <1>8 DEF DeliveryInv, Tasks
  <2>2. Given(u)' /\ Received(u)' /\ Served(u)'
    BY <1>2, <2>1 DEF Own, Given, Received, Served
  <2>3. Begun(u)'
    BY <1>2, <2>1 DEF Own, Begun, DeliveryInv, Tasks, Delivery!Events
  <2>. QED BY <2>2, <2>3 DEF Own
<1>9. Own(e)'
  <2>1. Given(e)'
    BY <1>3, <1>5 DEF Given
  <2>2. Received(e)' /\ Served(e)'
    BY <1>2, <1>7 DEF Received, Served
  <2>3. Begun(e)'
    BY <1>2, <1>5 DEF Begun, Delivery!Events
  <2>. QED BY <2>1, <2>2, <2>3 DEF Own
<1>10. Tasks'
  BY <1>2, <1>3, <1>4, <1>5 DEF DeliveryInv, Tasks
<1>. QED BY <1>8, <1>9, <1>10 DEF DeliveryInv

\* An unload cuts the tasks that run, and changes nothing else of them.
LEMMA UnloadKeeps ==
  ASSUME DeliveryInv, Delivery!Unload
  PROVE  DeliveryInv'
<1>1. UNCHANGED <<opts, latest, clips, www, got>>
  BY DEF Delivery!Unload, Delivery!Cloud
<1>2. ASSUME NEW u \in Delivery!Events PROVE task'[u] \in TaskSet /\ Own(u)'
  <2>1. task[u] \in TaskSet /\ Own(u)
    BY DEF DeliveryInv, Tasks
  <2>2. CASE Delivery!Running(u)
    <3>1. task'[u] = [task[u] EXCEPT !.at = "cut"]
      BY <2>2 DEF Delivery!Unload
    <3>2. task'[u] \in TaskSet
      BY <2>1, <3>1 DEF TaskSet, Delivery!Steps
    <3>3. /\ task'[u].at = "cut" /\ task'[u].given = task[u].given /\ task'[u].clip = task[u].clip
          /\ task'[u].status = task[u].status /\ task'[u].cleanup = task[u].cleanup
      BY <2>1, <3>1 DEF TaskSet
    <3>4. ~(u > latest)
      BY <2>1, <2>2 DEF Own, Begun, Delivery!Running
    <3>. QED BY <1>1, <2>1, <3>2, <3>3, <3>4 DEF Own, Given, Received, Served, Begun
  <2>3. CASE ~Delivery!Running(u)
    <3>1. task'[u] = task[u]
      BY <2>3 DEF Delivery!Unload
    <3>. QED BY <1>1, <2>1, <3>1 DEF Own, Given, Received, Served, Begun
  <2>. QED BY <2>2, <2>3
<1>3. task' \in [Delivery!Events -> TaskSet]
  <2>1. task' = [u \in Delivery!Events |-> task'[u]]
    BY DEF Delivery!Unload
  <2>. QED BY <1>2, <2>1
<1>. QED BY <1>1, <1>2, <1>3 DEF DeliveryInv, Tasks

\* At first no event has happened.
LEMMA DeliveryInit == Delivery!Init => DeliveryInv
<1>. SUFFICES ASSUME Delivery!Init PROVE DeliveryInv
  OBVIOUS
<1>1. Tasks
  BY AlertsBounds DEF Delivery!Init, Tasks, TaskSet, Delivery!NoTask, Delivery!Steps,
     Delivery!OptionsKnown
<1>2. ASSUME NEW e \in Delivery!Events PROVE Own(e)
  BY DEF Delivery!Init, Delivery!NoTask, Own, Given, Received, Served, Begun
<1>. QED BY <1>1, <1>2 DEF DeliveryInv

\* Every step keeps what an alert owns.
LEMMA DeliveryStep ==
  ASSUME DeliveryInv, Delivery!Next \/ UNCHANGED alertVars
  PROVE  DeliveryInv'
<1>1. ASSUME NEW e \in Delivery!Events, Delivery!Alert(e) PROVE DeliveryInv'
  BY <1>1, TextKeeps, RefetchKeeps, GiveUpPictureKeeps, DownloadKeeps, _write_fileKeeps,
     ScreenshotKeeps, ProbeKeeps, PollKeeps, ClipLoadedKeeps, _process_downloaded_clipKeeps,
     VideoKeeps, UploadsKeeps, CleanupKeeps DEF Delivery!Alert
<1>2. CASE UNCHANGED alertVars
  BY <1>2 DEF alertVars, DeliveryInv, Tasks, Own, Given, Received, Served, Begun
<1>. QED BY <1>1, <1>2, CloudKeeps, BeginsKeeps, UnloadKeeps DEF Delivery!Next

\* What an alert owns is what the two properties speak of.
LEMMA DeliveryIsSound == DeliveryInv => Delivery!MediaAreItsOwn /\ Delivery!NoFileLeft
<1>. SUFFICES ASSUME DeliveryInv PROVE Delivery!MediaAreItsOwn /\ Delivery!NoFileLeft
  OBVIOUS
<1>1. \A g \in got : g[1] \in Delivery!Events
  BY DEF DeliveryInv, Tasks
<1>2. \A f \in www : f[1] \in Delivery!Events
  BY DEF DeliveryInv, Tasks
<1>3. Delivery!MediaAreItsOwn
  BY <1>1 DEF DeliveryInv, Own, Received, Delivery!MediaAreItsOwn
<1>4. Delivery!NoFileLeft
  BY <1>2 DEF DeliveryInv, Own, Served, Delivery!NoFileLeft
<1>. QED BY <1>3, <1>4

-----------------------------------------------------------------------------
(* The copy on disk.                                                        *)

\* A frame that may go to the disk has the full resolution.
Whole == {f \in Picture!Frames : f.small = FALSE}

\* The one that was handed over last is the last one that waits, or is there.
Newest == IF saves = <<>> THEN disk ELSE saves[Len(saves)]
PictureInv ==
    /\ events \in 0 .. MaxEvents
    /\ disk \in Whole /\ saves \in Seq(Whole)
    /\ handed = Newest

\* At first there is no frame but the placeholder.
LEMMA PictureInit == Picture!Init => PictureInv
<1>. SUFFICES ASSUME Picture!Init PROVE PictureInv
  OBVIOUS
<1>1. Picture!_PLACEHOLDER_JPEG \in Whole /\ 0 \in 0 .. MaxEvents
  BY AlertsBounds DEF Picture!Bounds, Picture!_PLACEHOLDER_JPEG, Whole, Picture!Frames
<1>. QED BY <1>1 DEF Picture!Init, PictureInv, Newest

\* What is handed over waits behind the others.
LEMMA HandedOver ==
  ASSUME PictureInv, NEW frame \in Whole, Picture!save_snapshot(frame)
  PROVE  disk' \in Whole /\ saves' \in Seq(Whole) /\ handed' = Newest'
<1>1. saves' = Append(saves, frame) /\ handed' = frame /\ disk' = disk
  BY DEF Picture!save_snapshot
<1>2. saves' \in Seq(Whole) /\ saves' # <<>> /\ saves'[Len(saves')] = frame
  BY <1>1 DEF PictureInv
<1>. QED BY <1>1, <1>2 DEF Newest, PictureInv

\* A live frame and the picture of an event have the full resolution.
LEMMA FramesAreWhole ==
  ASSUME PictureInv
  PROVE  Picture!Live(FALSE) \in Whole /\ \A n \in 0 .. MaxEvents : Picture!Picture(n) \in Whole
BY DEF PictureInv, Whole, Picture!Frames, Picture!Live, Picture!Picture

\* The frame that a refresh keeps is handed over, or nothing is.
LEMMA KeepsOrNot ==
  ASSUME PictureInv, NEW frame \in Whole, Picture!Keeps(frame)
  PROVE  disk' \in Whole /\ saves' \in Seq(Whole) /\ handed' = Newest'
<1>1. CASE privacy = "on"
  <2>1. UNCHANGED <<disk, saves, handed>>
    BY <1>1 DEF Picture!Keeps, Picture!store
  <2>. QED BY <2>1 DEF PictureInv, Newest
<1>2. CASE privacy # "on"
  BY <1>2, HandedOver DEF Picture!Keeps
<1>. QED BY <1>1, <1>2

\* Every step keeps the order of the store.
LEMMA PictureStep ==
  ASSUME PictureInv, Picture!Next \/ UNCHANGED snapVars
  PROVE  PictureInv'
<1>. USE DEF Picture!world
<1>1. CASE Picture!RefreshFetched \/ Picture!RefreshLocal \/ Picture!RefreshLast
  <2>1. events' = events
    BY <1>1 DEF Picture!RefreshFetched, Picture!RefreshLocal, Picture!RefreshLast
  <2>2. \/ UNCHANGED <<disk, saves, handed>>
        \/ Picture!Keeps(Picture!Live(FALSE))
        \/ events > 0 /\ Picture!Keeps(Picture!Picture(events))
    BY <1>1 DEF Picture!RefreshFetched, Picture!RefreshLocal, Picture!RefreshLast,
       Picture!NoImage, Picture!store
  <2>3. disk' \in Whole /\ saves' \in Seq(Whole) /\ handed' = Newest'
    <3>1. CASE UNCHANGED <<disk, saves, handed>>
      BY <3>1 DEF PictureInv, Newest
    <3>2. CASE Picture!Keeps(Picture!Live(FALSE))
      BY <3>2, KeepsOrNot, FramesAreWhole
    <3>3. CASE Picture!Keeps(Picture!Picture(events))
      <4>1. Picture!Picture(events) \in Whole
        BY FramesAreWhole DEF PictureInv
      <4>. QED BY <3>3, <4>1, KeepsOrNot
    <3>. QED BY <2>2, <3>1, <3>2, <3>3
  <2>. QED BY <2>1, <2>3 DEF PictureInv
<1>2. CASE Picture!_sync_save
  <2>1. /\ saves # <<>> /\ disk' = Head(saves) /\ saves' = Tail(saves)
        /\ handed' = handed /\ events' = events
    BY <1>2 DEF Picture!_sync_save
  <2>2. disk' \in Whole /\ saves' \in Seq(Whole)
    BY <2>1 DEF PictureInv
  <2>3. CASE Len(saves) = 1
    <3>1. saves' = <<>> /\ Head(saves) = saves[Len(saves)]
      BY <2>1, <2>3 DEF PictureInv
    <3>. QED BY <2>1, <2>2, <3>1 DEF PictureInv, Newest
  <2>4. CASE Len(saves) # 1
    <3>1. saves' # <<>> /\ saves'[Len(saves')] = saves[Len(saves)]
      <4>1. Len(saves) \in Nat /\ Len(saves) > 1 /\ saves \in Seq(Whole)
        <5>1. saves \in Seq(Whole) /\ saves # <<>>
          BY <2>1 DEF PictureInv
        <5>2. Len(saves) # 0 /\ Len(saves) \in Nat
          BY <5>1, EmptySeq
        <5>3. PICK n \in Nat : n = Len(saves)
          BY <5>2
        <5>4. n > 1
          BY <2>4, <5>2, <5>3
        <5>. QED BY <5>1, <5>2, <5>3, <5>4
      <4>2. Len(Tail(saves)) = Len(saves) - 1
        BY <4>1
      <4>3. \A i \in 1 .. Len(saves) - 1 : Tail(saves)[i] = saves[i + 1]
        BY <4>1
      <4>4. PICK n \in Nat : n = Len(saves) /\ n > 1
        BY <4>1
      <4>5. n - 1 \in 1 .. n - 1 /\ (n - 1) + 1 = n
        BY <4>4
      <4>6. Tail(saves)[n - 1] = saves[n] /\ Len(Tail(saves)) = n - 1
        BY <4>2, <4>3, <4>4, <4>5
      <4>. QED BY <2>1, <4>4, <4>6
    <3>. QED BY <2>1, <2>2, <3>1 DEF PictureInv, Newest
  <2>. QED BY <2>3, <2>4
<1>3. ASSUME NEW e \in Picture!Events, Picture!PathB(e) PROVE PictureInv'
  <2>1. events' = events
    BY <1>3 DEF Picture!PathB
  <2>2. UNCHANGED <<disk, saves, handed>> \/ Picture!save_snapshot(Picture!Picture(e))
    BY <1>3 DEF Picture!PathB, Picture!store
  <2>3. Picture!Picture(e) \in Whole
    BY FramesAreWhole DEF Picture!Events
  <2>4. disk' \in Whole /\ saves' \in Seq(Whole) /\ handed' = Newest'
    <3>1. CASE UNCHANGED <<disk, saves, handed>>
      BY <3>1 DEF PictureInv, Newest
    <3>2. CASE Picture!save_snapshot(Picture!Picture(e))
      BY <2>3, <3>2, HandedOver
    <3>. QED BY <2>2, <3>1, <3>2
  <2>. QED BY <2>1, <2>4 DEF PictureInv
<1>4. ASSUME NEW e \in Picture!Events, Picture!AlertBegins(e) PROVE PictureInv'
  <2>1. events' \in 0 .. MaxEvents /\ UNCHANGED <<disk, saves, handed>>
    BY <1>4 DEF Picture!AlertBegins, Picture!store, Picture!Events
  <2>. QED BY <2>1 DEF PictureInv, Newest
<1>5. CASE Picture!async_added_to_hass
  <2>1. handed' = disk /\ disk' = disk /\ saves' = <<>> /\ events' = events
    BY <1>5 DEF Picture!async_added_to_hass
  <2>. QED BY <2>1 DEF PictureInv, Newest
<1>6. CASE Picture!World
  <2>1. UNCHANGED <<disk, saves, handed, events>>
    BY <1>6 DEF Picture!World, Picture!Environment, Picture!store
  <2>. QED BY <2>1 DEF PictureInv, Newest
<1>7. CASE \/ Picture!async_trigger_image_refresh \/ Picture!RefreshSeeds
           \/ Picture!RefreshFetches \/ UNCHANGED snapVars
  <2>1. UNCHANGED <<disk, saves, handed, events>>
    BY <1>7 DEF Picture!async_trigger_image_refresh, Picture!RefreshSeeds,
       Picture!RefreshFetches, snapVars, Picture!store
  <2>. QED BY <2>1 DEF PictureInv, Newest
<1>8. CASE Picture!Request
  <2>1. UNCHANGED <<disk, saves, handed, events>>
    BY <1>8 DEF Picture!Request, Picture!async_camera_image, Picture!RequestFromSession,
       Picture!_async_rcp_thumbnail, Picture!RequestFromRelay, Picture!RequestFetches,
       Picture!RequestFetched, Picture!RequestLocal, Picture!RequestGivesUp,
       Picture!RequestLast, Picture!store
  <2>. QED BY <2>1 DEF PictureInv, Newest
<1>. QED BY <1>1, <1>2, <1>3, <1>4, <1>5, <1>6, <1>7, <1>8 DEF Picture!Next, Picture!Refresh

\* With nothing waiting the disk has what was handed over last.
LEMMA PictureIsSound == PictureInv => Picture!DiskCatchesUp
BY DEF PictureInv, Newest, Whole, Picture!DiskCatchesUp

-----------------------------------------------------------------------------
(* The theorems.                                                            *)

\* The tuples of the instances are those of the run.
LEMMA SameVariables ==
    /\ UNCHANGED Delivery!alertVars <=> UNCHANGED alertVars
    /\ UNCHANGED Picture!snapVars <=> UNCHANGED snapVars
BY DEF Delivery!alertVars, alertVars, Picture!snapVars, Picture!store, Picture!world, snapVars

\* Whatever other events happen, and whatever fails: an alert whose picture came with its event
\* shows nothing of another, and no file is served once its task has run to its end
\* (fcm.py async_send_alert).
THEOREM AlertsAreTheirOwn ==
    Delivery!Spec => []Delivery!MediaAreItsOwn /\ []Delivery!NoFileLeft
<1>1. Delivery!Init => DeliveryInv
  BY DeliveryInit
<1>2. DeliveryInv /\ [Delivery!Next]_(Delivery!alertVars) => DeliveryInv'
  BY DeliveryStep, SameVariables
<1>. QED BY <1>1, <1>2, DeliveryIsSound, PTL DEF Delivery!Spec

\* Whoever hands frames over, in whatever order: the last one gets to the disk, and it has the
\* full resolution (camera.py, fcm.py, snapshot_store.py: the lock).
THEOREM DiskIsLastHanded == Picture!Spec => []Picture!DiskCatchesUp
<1>1. Picture!Init => PictureInv
  BY PictureInit
<1>2. PictureInv /\ [Picture!Next]_(Picture!snapVars) => PictureInv'
  BY PictureStep, SameVariables
<1>. QED BY <1>1, <1>2, PictureIsSound, PTL DEF Picture!Spec

\* In the run each of them does what it does alone.
LEMMA EachAlone == MCSpec => Delivery!Spec /\ Picture!Spec /\ Spec
<1>1. MCInit => Delivery!Init /\ Picture!Init /\ Init
  BY DEF MCInit
<1>2. [MCNext]_all => /\ [Delivery!Next]_(Delivery!alertVars)
                      /\ [Picture!Next]_(Picture!snapVars)
                      /\ [Next]_aiVars
  <2>1. UNCHANGED all => UNCHANGED alertVars /\ UNCHANGED snapVars /\ UNCHANGED aiVars
    BY DEF all
  <2>2. MCNext => /\ Delivery!Next \/ UNCHANGED alertVars
                  /\ Picture!Next \/ UNCHANGED snapVars
                  /\ Next \/ UNCHANGED aiVars
    BY DEF MCNext, InDelivery, InPicture, InBudget
  <2>. QED BY <2>1, <2>2, SameVariables
<1>. QED BY <1>1, <1>2, PTL DEF MCSpec, Delivery!Spec, Picture!Spec, Spec

\* An alert whose picture came with its event shows nothing of another (fcm.py: the clip's
\* probe, the poll's match, the address kept from the push).
THEOREM NoForeignMedia == MCSpec => []MediaAreItsOwn
<1>1. Delivery!MediaAreItsOwn => MediaAreItsOwn
  BY DEF MediaAreItsOwn
<1>. QED BY <1>1, EachAlone, AlertsAreTheirOwn, PTL

\* No file of an alert is served once its task has run to its end (fcm.py: files_to_cleanup).
THEOREM FilesAreRemoved == MCSpec => []NoFileLeft
<1>1. Delivery!NoFileLeft => NoFileLeft
  BY DEF NoFileLeft
<1>. QED BY <1>1, EachAlone, AlertsAreTheirOwn, PTL

\* The last frame that was handed over gets to the disk, in full resolution (camera.py,
\* snapshot_store.py: the lock).
THEOREM LastFrameSurvives == MCSpec => []DiskCatchesUp
<1>1. Picture!DiskCatchesUp => DiskCatchesUp
  BY DEF DiskCatchesUp
<1>. QED BY <1>1, EachAlone, DiskIsLastHanded, PTL

=============================================================================
