--------------------------- MODULE HouseholdProof ---------------------------
(***************************************************************************)
(* The safety of what the coordinator looks after besides the streams, for *)
(* any grace, delay, number of windows and number of changes: no camera is *)
(* reported offline for a short drop and no outage that is none or is      *)
(* known already, no window is over that was not announced, only changed   *)
(* options reload the entry, and a teardown gives back what was held.      *)
(*                                                                         *)
(* Every theorem is about the specification of its component; the last one *)
(* is about the household in which the components are checked together.    *)
(***************************************************************************)
EXTENDS MC_Household, TLAPS

-----------------------------------------------------------------------------
\* ------------------------------------------------------ the status of a camera

\* The start of the grace is never older than the camera's absence: every tick that finds
\* it online drops the one and ends the other.
StatusInv ==
    /\ seen \in -1 .. Grace /\ absent \in 0 .. Grace
    /\ seen <= absent
    /\ last = "none" => seen = -1
    /\ cached \in Status!Statuses /\ camera \in Status!Reports

\* It is so after Home Assistant has started.
LEMMA StatusInit == Status!Init => StatusInv
BY HouseholdBounds DEF Status!Init, Status!Bounds, StatusInv, Status!Never, Status!Statuses

\* A tick that reports a camera offline has waited for the grace, which is over then.
LEMMA Housekeeping ==
  ASSUME StatusInv, Status!run_housekeeping
  PROVE  StatusInv' /\ (told' = "offline" /\ told # "offline" => absent >= Grace)
<1>. USE HouseholdBounds DEF StatusInv, Status!Bounds, Status!run_housekeeping, Status!news,
             Status!maybe_announce_camera_status, Status!Recovered, Status!Never
<1>1. Status!compute_status_for # "none"
  BY DEF Status!compute_status_for, Status!Statuses, Status!Reports
<1>2. seen' \in -1 .. Grace /\ absent' \in 0 .. Grace
  OBVIOUS
<1>3. seen' <= absent'
  OBVIOUS
<1>4. last' = "none" => seen' = -1
  BY <1>1
<1>5. told' = "offline" /\ told # "offline" => absent >= Grace
  OBVIOUS
<1>6. UNCHANGED <<cached, camera>>
  BY DEF Status!world
<1>. QED BY <1>2, <1>3, <1>4, <1>5, <1>6

\* A status is one of those there are, whoever has reported it.
LEMMA StatusesAreKnown ==
  ASSUME StatusInv, Status!Next \/ UNCHANGED statusVars
  PROVE  cached' \in Status!Statuses /\ camera' \in Status!Reports
<1>. USE DEF StatusInv, Status!Statuses, Status!Reports
<1>1. CASE Status!poll_statuses
  <2>1. camera' = camera
    BY <1>1 DEF Status!poll_statuses, Status!world
  <2>2. cached' \in {cached, "online", camera, Status!commissioned}
    BY <1>1 DEF Status!poll_statuses, Status!_check_one_camera_status, Status!Found
  <2>3. Status!commissioned \in Status!Reports
    BY DEF Status!commissioned
  <2>. QED BY <2>1, <2>2, <2>3
<1>2. CASE Status!WorldChanges
  BY <1>2 DEF Status!WorldChanges
<1>3. CASE Status!Restart
  BY <1>3 DEF Status!Restart, Status!Forgotten, Status!world
<1>4. CASE \/ Status!run_housekeeping \/ Status!_async_update_data \/ Status!TickFails
           \/ Status!async_outage_ping_all \/ Status!TimePasses \/ Status!CloudIsBack
           \/ UNCHANGED statusVars
  <2>1. UNCHANGED <<cached, camera>>
    BY <1>4 DEF Status!run_housekeeping, Status!_async_update_data, Status!TickFails,
       Status!async_outage_ping_all, Status!TimePasses, Status!CloudIsBack, statusVars,
       Status!world
  <2>. QED BY <2>1
<1>. QED BY <1>1, <1>2, <1>3, <1>4 DEF Status!Next

\* Time makes both older at the same pace; nothing else but a restart touches them.
LEMMA StatusStep ==
  ASSUME StatusInv, Status!Next \/ UNCHANGED statusVars
  PROVE  StatusInv' /\ (told' = "offline" /\ told # "offline" => absent >= Grace)
<1>. SUFFICES (StatusInv /\ cached' \in Status!Statuses /\ camera' \in Status!Reports) =>
       /\ seen' \in -1 .. Grace /\ absent' \in 0 .. Grace /\ seen' <= absent'
       /\ last' = "none" => seen' = -1
       /\ told' = "offline" /\ told # "offline" => absent >= Grace
  BY StatusesAreKnown DEF StatusInv
<1>1. CASE Status!run_housekeeping
  BY <1>1, Housekeeping DEF StatusInv
<1>2. CASE Status!TimePasses
  BY <1>2, HouseholdBounds DEF Status!TimePasses, Status!Older, StatusInv, Status!Never,
     Status!Bounds
<1>3. CASE Status!Restart
  BY <1>3, HouseholdBounds DEF Status!Restart, Status!Forgotten, StatusInv, Status!Never,
     Status!Bounds
<1>4. CASE \/ Status!_async_update_data \/ Status!TickFails \/ Status!poll_statuses
           \/ Status!async_outage_ping_all \/ Status!WorldChanges \/ Status!CloudIsBack
           \/ UNCHANGED statusVars
  <2>1. UNCHANGED <<seen, absent, last, told>>
    BY <1>4 DEF Status!_async_update_data, Status!TickFails, Status!poll_statuses,
       Status!async_outage_ping_all, Status!WorldChanges, Status!CloudIsBack, statusVars,
       Status!news
  <2>. QED BY <2>1 DEF StatusInv
<1>. QED BY <1>1, <1>2, <1>3, <1>4 DEF Status!Next

-----------------------------------------------------------------------------
\* ------------------------------------------------------ news of the cloud

NewsTypes ==
    /\ outage \in -1 .. OutageAfter /\ silent \in 0 .. OutageAfter /\ outs \in 0 .. 2
    /\ notified \in BOOLEAN /\ flag \in BOOLEAN /\ cut \in BOOLEAN

\* The failures the code counts are all without an answer in between.
FailuresInARow == outage <= silent

\* What a task is about to store, or else the store, is what the coordinator knows, so that
\* a restart forgets an announcement only before it is stored.
FlagIsKnown ==
    /\ flagSave = {} => flag = notified
    /\ flagSave # {} => flagSave = {notified}
ToldOnce == outs > 0 => notified \/ cut

OutageInv == NewsTypes /\ FailuresInARow /\ FlagIsKnown /\ ToldOnce

\* A key that says that a window is open, wherever it is, was set when that was announced.
Open(w) == <<w, "active">>
KeysAreTrue == \A w \in News!Windows :
    Open(w) = key \/ Open(w) = keyStore \/ Open(w) \in keySave => Open(w) \in said

\* Nothing is said at first.
LEMMA NewsInit == News!Init => OutageInv /\ KeysAreTrue /\ EndAfterBeginning
<1>. SUFFICES ASSUME News!Init PROVE OutageInv /\ KeysAreTrue /\ EndAfterBeginning
  OBVIOUS
<1>1. OutageInv
  <2>1. outage = -1 /\ silent = 0 /\ outs = 0 /\ flagSave = {}
    BY DEF News!Init, News!Never
  <2>2. notified = FALSE /\ flag = FALSE /\ cut = FALSE
    BY DEF News!Init
  <2>3. notified \in BOOLEAN /\ flag \in BOOLEAN /\ cut \in BOOLEAN /\ flag = notified
    BY <2>2, Zenon
  <2>4. outage \in -1 .. OutageAfter /\ silent \in 0 .. OutageAfter /\ outs \in 0 .. 2
    BY <2>1, HouseholdBounds DEF News!Bounds
  <2>. QED BY <2>1, <2>3, <2>4 DEF OutageInv, NewsTypes, FailuresInARow, FlagIsKnown, ToldOnce
<1>2. KeysAreTrue
  BY DEF News!Init, KeysAreTrue, Open, News!NoKey
<1>3. EndAfterBeginning
  BY DEF News!Init, EndAfterBeginning, News!EndAfterBeginning
<1>. QED BY <1>1, <1>2, <1>3

\* Of the steps only these touch the outage.
OutageStep ==
    \/ News!CloudAnswered \/ News!CloudFailed \/ News!persist_cloud_outage_flag
    \/ News!TimePasses \/ News!async_setup_entry
\* And only these what is said of the windows.
WindowStep ==
    \/ News!async_refresh_maintenance \/ News!persist_maint_notified_key
    \/ News!async_setup_entry

\* No other step of the news touches the outage.
LEMMA OutageSteps ==
  ASSUME News!Next \/ UNCHANGED newsVars, ~OutageStep
  PROVE  UNCHANGED <<outage, silent, outs, notified, flag, flagSave, cut>>
BY DEF News!Next, OutageStep, News!async_refresh_maintenance, News!persist_maint_notified_key,
   News!CloudChanges, News!WindowMoves, News!outageVars, newsVars

\* No other step says anything of a window.
LEMMA WindowSteps ==
  ASSUME News!Next \/ UNCHANGED newsVars, ~WindowStep
  PROVE  UNCHANGED <<key, keyStore, keySave, said>>
BY DEF News!Next, WindowStep, News!CloudAnswered, News!CloudFailed,
   News!persist_cloud_outage_flag, News!TimePasses, News!CloudChanges, News!WindowMoves,
   News!maintVars, newsVars

\* A tick that fails announces an outage that has lasted and is not known.
LEMMA FailedTick ==
  ASSUME OutageInv, News!CloudFailed
  PROVE  OutageInv' /\ (outs' > outs => silent >= OutageAfter /\ (cut \/ outs = 0))
<1>. USE HouseholdBounds DEF News!Bounds, OutageInv, NewsTypes
<1>1. CASE outage = -1
  <2>1. outage' = 0 /\ UNCHANGED <<silent, outs, notified, flag, flagSave, cut>>
    BY <1>1 DEF News!CloudFailed, News!Never
  <2>. QED BY <2>1 DEF FailuresInARow, FlagIsKnown, ToldOnce
<1>2. CASE outage # -1 /\ (notified \/ ~News!Lasted)
  <2>1. UNCHANGED <<outage, silent, outs, notified, flag, flagSave, cut>>
    BY <1>2 DEF News!CloudFailed, News!Never
  <2>. QED BY <2>1 DEF FailuresInARow, FlagIsKnown, ToldOnce
<1>3. CASE outage # -1 /\ ~notified /\ News!Lasted
  <2>1. /\ notified' = TRUE /\ flagSave' = {TRUE} /\ outs' \in {outs, News!Twice(outs)}
        /\ UNCHANGED <<outage, silent, flag, cut>>
    BY <1>3 DEF News!CloudFailed, News!Never
  <2>2. outage >= OutageAfter
    BY <1>3 DEF News!Lasted
  <2>3. silent >= OutageAfter
    BY <2>2 DEF FailuresInARow
  <2>4. outs > 0 => cut
    BY <1>3 DEF ToldOnce
  <2>5. NewsTypes'
    <3>1. outs' \in 0 .. 2
      BY <2>1 DEF News!Twice
    <3>. QED BY <2>1, <3>1
  <2>6. FailuresInARow' /\ FlagIsKnown' /\ ToldOnce'
    BY <2>1 DEF FailuresInARow, FlagIsKnown, ToldOnce
  <2>. QED BY <2>3, <2>4, <2>5, <2>6
<1>. QED BY <1>1, <1>2, <1>3

\* So does every other step keep the account of the outage.
LEMMA OutageKept ==
  ASSUME OutageInv, News!Next \/ UNCHANGED newsVars
  PROVE  OutageInv' /\ (outs' > outs => silent >= OutageAfter /\ (cut \/ outs = 0))
<1>. USE HouseholdBounds DEF News!Bounds, OutageInv, NewsTypes
<1>1. CASE News!CloudAnswered
  <2>1. /\ outage' = -1 /\ notified' = FALSE /\ outs' = 0 /\ silent' = 0
        /\ flagSave' = (IF notified THEN {FALSE} ELSE flagSave)
        /\ UNCHANGED <<flag, cut>>
    BY <1>1 DEF News!CloudAnswered, News!StartCleared, News!Never
  <2>2. FlagIsKnown'
    <3>1. CASE notified = TRUE
      BY <2>1, <3>1 DEF FlagIsKnown
    <3>2. CASE notified = FALSE
      BY <2>1, <3>2 DEF FlagIsKnown
    <3>. QED BY <3>1, <3>2
  <2>3. notified' \in BOOLEAN
    BY <2>1, Zenon
  <2>4. outage' \in -1 .. OutageAfter /\ silent' \in 0 .. OutageAfter /\ outs' \in 0 .. 2
    BY <2>1
  <2>5. FailuresInARow' /\ ToldOnce' /\ ~(outs' > outs)
    BY <2>1 DEF FailuresInARow, ToldOnce
  <2>6. flag' \in BOOLEAN /\ cut' \in BOOLEAN
    BY <2>1
  <2>. QED BY <2>2, <2>3, <2>4, <2>5, <2>6
<1>2. CASE News!CloudFailed
  BY <1>2, FailedTick
<1>3. CASE News!persist_cloud_outage_flag
  <2>1. /\ flagSave # {} /\ flag' \in flagSave /\ flagSave' = {}
        /\ UNCHANGED <<outage, silent, outs, notified, cut>>
    BY <1>3 DEF News!persist_cloud_outage_flag
  <2>2. flag' = notified
    BY <2>1 DEF FlagIsKnown
  <2>. QED BY <2>1, <2>2 DEF FailuresInARow, FlagIsKnown, ToldOnce
<1>4. CASE News!TimePasses
  <2>1. /\ outage' = (IF outage \in {-1, OutageAfter} THEN outage ELSE outage + 1)
        /\ silent' = (IF silent = OutageAfter THEN silent ELSE silent + 1)
        /\ UNCHANGED <<outs, notified, flag, flagSave, cut>>
    BY <1>4 DEF News!TimePasses, News!Never
  <2>2. outage' \in -1 .. OutageAfter /\ silent' \in 0 .. OutageAfter /\ outage' <= silent'
    BY <2>1 DEF FailuresInARow
  <2>. QED BY <2>1, <2>2 DEF FailuresInARow, FlagIsKnown, ToldOnce
<1>5. CASE News!async_setup_entry
  <2>1. /\ notified' = flag /\ flagSave' = {} /\ outage' = -1 /\ cut' = (cut \/ flagSave # {})
        /\ UNCHANGED <<flag, outs, silent>>
    BY <1>5 DEF News!async_setup_entry, News!Never
  <2>2. cut' \in BOOLEAN
    BY <2>1
  <2>3. ToldOnce'
    BY <2>1 DEF ToldOnce, FlagIsKnown
  <2>4. NewsTypes'
    BY <2>1, <2>2
  <2>. QED BY <2>1, <2>3, <2>4 DEF FailuresInARow, FlagIsKnown
<1>6. CASE ~OutageStep
  <2>1. UNCHANGED <<outage, silent, outs, notified, flag, flagSave, cut>>
    BY <1>6, OutageSteps
  <2>. QED BY <2>1 DEF FailuresInARow, FlagIsKnown, ToldOnce
<1>. QED BY <1>1, <1>2, <1>3, <1>4, <1>5, <1>6 DEF OutageStep

\* Whatever is announced of a window that is over was announced of its beginning.
LEMMA WindowsKept ==
  ASSUME KeysAreTrue, EndAfterBeginning, News!Next \/ UNCHANGED newsVars
  PROVE  KeysAreTrue' /\ EndAfterBeginning'
<1>. USE DEF EndAfterBeginning, News!EndAfterBeginning
<1>1. CASE News!async_refresh_maintenance
  <2>1. CASE UNCHANGED <<key, keySave, said>>
    BY <1>1, <2>1 DEF News!async_refresh_maintenance, KeysAreTrue
  <2>2. CASE ~UNCHANGED <<key, keySave, said>>
    <3>1. PICK w : News!maybe_announce_maintenance(w)
      BY <1>1, <2>2 DEF News!async_refresh_maintenance
    <3>2. keyStore' = keyStore
      BY <1>1 DEF News!async_refresh_maintenance
    <3>3. CASE News!NobodyKnew(w)
      <4>1. key' = <<w, "past">> /\ keySave' = {<<w, "past">>} /\ said' = said
        BY <3>1, <3>3 DEF News!maybe_announce_maintenance, News!NobodyKnew
      <4>. QED BY <3>2, <4>1 DEF KeysAreTrue, Open
    <3>4. CASE ~News!NobodyKnew(w)
      <4>1. key # <<w, windows[w]>> /\ key' = <<w, windows[w]>> /\ keySave' = {key'}
        BY <2>2, <3>1, <3>4 DEF News!maybe_announce_maintenance
      <4>2. said' = IF windows[w] = "scheduled" THEN said ELSE said \cup {<<w, windows[w]>>}
        BY <3>1, <3>4, <4>1 DEF News!maybe_announce_maintenance
      <4>3. windows[w] = "past" => key = Open(w)
        BY <3>4 DEF News!NobodyKnew, Open
      <4>4. KeysAreTrue'
        BY <3>2, <4>1, <4>2 DEF KeysAreTrue, Open
      <4>5. EndAfterBeginning'
        BY <4>2, <4>3 DEF KeysAreTrue, Open
      <4>. QED BY <4>4, <4>5
    <3>. QED BY <3>3, <3>4
  <2>. QED BY <2>1, <2>2
<1>2. CASE News!persist_maint_notified_key
  BY <1>2 DEF News!persist_maint_notified_key, KeysAreTrue
<1>3. CASE News!async_setup_entry
  BY <1>3 DEF News!async_setup_entry, KeysAreTrue
<1>4. CASE ~WindowStep
  <2>1. UNCHANGED <<key, keyStore, keySave, said>>
    BY <1>4, WindowSteps
  <2>. QED BY <2>1 DEF KeysAreTrue
<1>. QED BY <1>1, <1>2, <1>3, <1>4 DEF WindowStep

-----------------------------------------------------------------------------
\* ------------------------------------------------------ the life of the entry

\* The stages only count forward, and the options are never older than the copy of them,
\* which is never older than those in force.
EntryNumbers ==
    /\ options \in Nat /\ snapshot \in Nat /\ inForce \in Nat
    /\ inForce <= snapshot /\ snapshot <= options
    /\ stage \in 0 .. 9 /\ hit \in 0 .. 9
    /\ held \subseteq Entry!Resources

\* What the stages from n on give back.
Ahead(n) == {r \in Entry!Resources : \E m \in n .. 9 : r \in Entry!Gives[m]}

\* What a guarded stage that was cut short had in hand.
InHand == IF hit = 0 THEN {} ELSE Entry!Gives[hit]

\* No teardown runs, or it is through.
NotHit == phase \in {"out", "reading", "forwarding", "rest", "loaded"} => hit = 0

\* A teardown that runs: what it has not given back is still ahead of it, or in the hand of a
\* stage that was cut short, or was taken meanwhile; the flags are set ahead of the last stage.
Going == phase = "unloading" =>
    /\ stage \in 1 .. 9 /\ hit \in Entry!Guarded \cup {0}
    /\ "recorder" \in closed
    /\ stage = 9 => "go2rtc" \in closed
    /\ held \subseteq late \cup Ahead(stage) \cup InHand

\* One that is through: nothing is ahead, and no recorder and no go2rtc session can be made.
Torn == phase = "torn" /\ hit \in Entry!Guarded \cup {0} =>
    /\ "recorder" \in closed /\ "go2rtc" \in closed
    /\ held \subseteq late \cup InHand

EntryInv == EntryNumbers /\ NotHit /\ Going /\ Torn

\* Whatever the coordinator may hold, some stage gives it back.
LEMMA EveryResourceIsAhead == Ahead(1) = Entry!Resources
<1>1. ASSUME NEW r \in Entry!Resources PROVE \E m \in 1 .. 9 : r \in Entry!Gives[m]
  <2>1. CASE r = "fcm"
    <3>1. r \in Entry!Gives[1]
      BY <2>1 DEF Entry!Gives
    <3>. QED BY <3>1
  <2>2. CASE r \in {"timer", "drain"}
    <3>1. r \in Entry!Gives[2]
      BY <2>2 DEF Entry!Gives
    <3>. QED BY <3>1
  <2>3. CASE r = "recorder"
    <3>1. r \in Entry!Gives[3]
      BY <2>3 DEF Entry!Gives
    <3>. QED BY <3>1
  <2>4. CASE r = "task"
    <3>1. r \in Entry!Gives[4]
      BY <2>4 DEF Entry!Gives
    <3>. QED BY <3>1
  <2>5. CASE r = "stream"
    <3>1. r \in Entry!Gives[5]
      BY <2>5 DEF Entry!Gives
    <3>. QED BY <3>1
  <2>6. CASE r = "door"
    <3>1. r \in Entry!Gives[6]
      BY <2>6 DEF Entry!Gives
    <3>. QED BY <3>1
  <2>7. CASE r = "go2rtc"
    <3>1. r \in Entry!Gives[7]
      BY <2>7 DEF Entry!Gives
    <3>. QED BY <3>1
  <2>8. CASE r = "shc"
    <3>1. r \in Entry!Gives[8]
      BY <2>8 DEF Entry!Gives
    <3>. QED BY <3>1
  <2>9. CASE r \in {"proxy", "log listener"}
    <3>1. r \in Entry!Gives[9]
      BY <2>9 DEF Entry!Gives
    <3>. QED BY <3>1
  <2>. QED BY <2>1, <2>2, <2>3, <2>4, <2>5, <2>6, <2>7, <2>8, <2>9 DEF Entry!Resources
<1>. QED BY <1>1 DEF Ahead

\* A stage gives back the first of what is ahead.
LEMMA OneStageLess ==
  ASSUME NEW n \in 1 .. 9
  PROVE  Ahead(n) \subseteq Entry!Gives[n] \cup Ahead(n + 1)
<1>1. \A m \in n .. 9 : m = n \/ m \in n + 1 .. 9
  OBVIOUS
<1>. QED BY <1>1 DEF Ahead

\* After the last stage nothing is left to give back.
LEMMA NothingIsAhead == Ahead(10) = {}
<1>1. 10 .. 9 = {}
  OBVIOUS
<1>. QED BY <1>1 DEF Ahead

\* At first there is no coordinator.
LEMMA EntryInit == Entry!Init => EntryInv
BY DEF Entry!Init, Entry!Never, EntryInv, EntryNumbers, NotHit, Going, Torn

\* The options: a write makes them newer, a reload is asked for when the copy was older.
LEMMA NumbersKept ==
  ASSUME EntryInv, Entry!Next \/ UNCHANGED entryVars
  PROVE  EntryNumbers' /\ (reload' /\ ~reload => options # inForce)
<1>. USE DEF EntryInv, EntryNumbers, Entry!optionVars, Entry!holdVars
<1>1. CASE Entry!Setup
  <2>1. /\ options' \in {options, options + 1} /\ stage' \in {0, stage} /\ hit' \in {0, hit}
        /\ \/ UNCHANGED <<snapshot, inForce>>
           \/ snapshot' = options /\ inForce' = options /\ options' = options
    BY <1>1 DEF Entry!Setup, Entry!Begins, Entry!FirstRefresh, Entry!Snapshot, Entry!SetupFails,
       Entry!async_forward_entry_setups, Entry!async_setup_entry, Entry!Never
  <2>2. held' \subseteq Entry!Resources
    BY <1>1 DEF Entry!Setup, Entry!Begins, Entry!FirstRefresh, Entry!Resources,
       Entry!async_forward_entry_setups, Entry!async_setup_entry
  <2>3. ~(reload' /\ ~reload)
    BY <1>1 DEF Entry!Setup, Entry!Begins, Entry!FirstRefresh,
       Entry!async_forward_entry_setups, Entry!async_setup_entry
  <2>. QED BY <2>1, <2>2, <2>3
<1>2. CASE Entry!Edits \/ Entry!TokenWritten
  BY <1>2 DEF Entry!Edits, Entry!TokenWritten
<1>3. CASE Entry!_async_options_updated
  <2>1. /\ snapshot' = options /\ UNCHANGED <<options, inForce, stage, hit, held>>
        /\ reload' /\ ~reload => snapshot # options
    BY <1>3 DEF Entry!_async_options_updated
  <2>2. EntryNumbers'
    BY <2>1
  <2>3. snapshot # options => options # inForce
    OBVIOUS
  <2>. QED BY <2>1, <2>2, <2>3
<1>4. CASE Entry!async_unload_entry
  BY <1>4 DEF Entry!async_unload_entry
<1>5. CASE Entry!_async_cancel_coordinator_tasks \/ Entry!TeardownCancelled
  <2>1. /\ phase = "unloading" /\ UNCHANGED <<options, snapshot, inForce, reload>>
        /\ held' \subseteq held /\ hit' \in {hit, stage}
        /\ stage' = 0 \/ (stage # 9 /\ stage' = stage + 1)
    BY <1>5 DEF Entry!_async_cancel_coordinator_tasks, Entry!TeardownCancelled, Entry!Advances,
       Entry!Never
  <2>. QED BY <2>1
<1>6. CASE Entry!Calls \/ Entry!Call \/ UNCHANGED entryVars
  <2>1. UNCHANGED <<options, snapshot, inForce, reload, stage, hit>>
    BY <1>6 DEF Entry!Calls, Entry!Call, Entry!start_recorder, Entry!start_tls_proxy_wiring,
       Entry!start_tls_proxy, Entry!start_viewing_front_door, Entry!CallFails, entryVars
  <2>2. held' \subseteq Entry!Resources
    BY <1>6 DEF Entry!Calls, Entry!Call, Entry!start_recorder, Entry!start_tls_proxy_wiring,
       Entry!start_tls_proxy, Entry!start_viewing_front_door, Entry!CallFails, Entry!Takes,
       Entry!Resources, entryVars
  <2>. QED BY <2>1, <2>2
<1>. QED BY <1>1, <1>2, <1>3, <1>4, <1>5, <1>6 DEF Entry!Next

\* A stage that is done, or that was cut short and is guarded: on to the next one, with what
\* is left of its own in hand, and the flags that the next one sets.
LEMMA GoesAhead ==
  ASSUME EntryInv, phase = "unloading", Entry!Advances, UNCHANGED late,
         \/ held' = held \ Entry!Gives[stage] /\ hit' = hit
         \/ held' = held /\ hit = 0 /\ hit' = stage /\ stage \in Entry!Guarded
  PROVE  NotHit' /\ Going' /\ Torn'
<1>. USE DEF EntryInv, EntryNumbers
<1>1. /\ stage \in 1 .. 9 /\ hit \in Entry!Guarded \cup {0} /\ "recorder" \in closed
      /\ stage = 9 => "go2rtc" \in closed
      /\ held \subseteq late \cup Ahead(stage) \cup InHand
  BY DEF Going
<1>2. held' \subseteq late' \cup Ahead(stage + 1) \cup InHand'
  <2>1. Ahead(stage) \subseteq Entry!Gives[stage] \cup Ahead(stage + 1)
    BY <1>1, OneStageLess
  <2>2. CASE held' = held \ Entry!Gives[stage] /\ hit' = hit
    <3>1. InHand' = InHand
      BY <2>2 DEF InHand
    <3>. QED BY <1>1, <2>1, <2>2, <3>1
  <2>3. CASE held' = held /\ hit = 0 /\ hit' = stage
    <3>1. InHand = {} /\ InHand' = Entry!Gives[stage]
      BY <1>1, <2>3 DEF InHand
    <3>. QED BY <1>1, <2>1, <2>3, <3>1
  <2>. QED BY <2>2, <2>3
<1>3. hit' \in Entry!Guarded \cup {0}
  BY <1>1
<1>4. CASE stage = 9
  <2>1. phase' = "torn" /\ closed' = closed
    BY <1>4 DEF Entry!Advances
  <2>2. Ahead(stage + 1) = {}
    BY <1>4, NothingIsAhead
  <2>3. held' \subseteq late' \cup InHand'
    BY <1>2, <2>2
  <2>. QED BY <1>1, <1>4, <2>1, <2>3 DEF NotHit, Going, Torn
<1>5. CASE stage # 9
  <2>1. stage' = stage + 1 /\ closed' = closed \cup Entry!Sets(stage + 1) /\ phase' = phase
    BY <1>5 DEF Entry!Advances
  <2>2. stage' \in 1 .. 9
    BY <1>1, <1>5, <2>1
  <2>3. stage' = 9 => "go2rtc" \in closed'
    BY <2>1 DEF Entry!Sets
  <2>4. held' \subseteq late' \cup Ahead(stage') \cup InHand'
    BY <1>2, <2>1
  <2>. QED BY <1>1, <1>3, <2>1, <2>2, <2>3, <2>4 DEF NotHit, Going, Torn
<1>. QED BY <1>4, <1>5

\* A call that goes on: what it takes while the teardown runs is counted as late, but for a
\* recorder, which the flag keeps from being started.
LEMMA TakesLate ==
  ASSUME EntryInv, NEW rs, Entry!Takes(rs), UNCHANGED <<phase, stage, hit, closed>>,
         "recorder" \notin rs \/ "recorder" \notin closed,
         "go2rtc" \notin rs \/ "go2rtc" \notin closed
  PROVE  NotHit' /\ Going' /\ Torn'
<1>1. InHand' = InHand
  BY DEF InHand
<1>2. CASE phase = "unloading"
  <2>1. late' = late \cup (rs \ {"recorder"}) /\ held' = held \cup rs
    BY <1>2 DEF Entry!Takes
  <2>2. "recorder" \notin rs
    BY <1>2 DEF EntryInv, Going
  <2>3. held' \subseteq late' \cup Ahead(stage) \cup InHand'
    BY <1>1, <1>2, <2>1, <2>2 DEF EntryInv, Going
  <2>4. stage' = stage /\ hit' = hit /\ closed' = closed /\ phase' = phase
    OBVIOUS
  <2>5. Going'
    BY <1>2, <2>3, <2>4 DEF EntryInv, Going
  <2>. QED BY <1>2, <2>5 DEF NotHit, Torn
<1>3. CASE phase = "torn"
  <2>1. late' = late \cup (rs \ {"recorder", "go2rtc"}) /\ held' = held \cup rs
    BY <1>3 DEF Entry!Takes
  <2>2. Torn'
    BY <1>1, <2>1 DEF EntryInv, Torn
  <2>. QED BY <1>3, <2>2 DEF NotHit, Going
<1>4. CASE phase \notin {"unloading", "torn"}
  BY <1>4 DEF EntryInv, NotHit, Going, Torn
<1>. QED BY <1>2, <1>3, <1>4

\* Every step of the entry keeps the account of the teardown.
LEMMA TeardownKept ==
  ASSUME EntryInv, Entry!Next \/ UNCHANGED entryVars
  PROVE  NotHit' /\ Going' /\ Torn'
<1>1. CASE Entry!Setup
  <2>1. phase' \in {"out", "reading", "forwarding", "rest", "loaded"}
    BY <1>1 DEF Entry!Setup, Entry!Begins, Entry!FirstRefresh, Entry!SetupFails,
       Entry!async_forward_entry_setups, Entry!async_setup_entry
  <2>2. hit' = 0
    BY <1>1 DEF Entry!Setup, Entry!Begins, Entry!FirstRefresh, Entry!Never,
       Entry!async_forward_entry_setups, Entry!async_setup_entry, EntryInv, NotHit
  <2>. QED BY <2>1, <2>2 DEF NotHit, Going, Torn
<1>2. CASE Entry!async_unload_entry
  <2>1. /\ phase = "loaded" /\ phase' = "unloading" /\ stage' = 1 /\ UNCHANGED <<held, hit, late>>
        /\ closed' = {"recorder"}
    BY <1>2 DEF Entry!async_unload_entry, Entry!Sets
  <2>2. hit = 0
    BY <2>1 DEF EntryInv, NotHit
  <2>3. held \subseteq Ahead(1)
    BY EveryResourceIsAhead DEF EntryInv, EntryNumbers
  <2>4. held' \subseteq late' \cup Ahead(stage') \cup InHand'
    BY <2>1, <2>3
  <2>. QED BY <2>1, <2>2, <2>4 DEF NotHit, Going, Torn
<1>3. CASE Entry!_async_cancel_coordinator_tasks
  BY <1>3, GoesAhead DEF Entry!_async_cancel_coordinator_tasks
<1>4. CASE Entry!TeardownCancelled /\ stage \in Entry!Guarded
  BY <1>4, GoesAhead DEF Entry!TeardownCancelled, Entry!GoesOn, Entry!Never
<1>5. CASE Entry!TeardownCancelled /\ stage \notin Entry!Guarded
  <2>1. phase' = "torn" /\ hit' = stage /\ stage \in 1 .. 9
    BY <1>5 DEF Entry!TeardownCancelled, Entry!GoesOn, EntryInv, Going
  <2>. QED BY <1>5, <2>1 DEF NotHit, Going, Torn
<1>6. CASE Entry!start_recorder
  BY <1>6, TakesLate DEF Entry!start_recorder, Entry!Refused
<1>7. CASE Entry!start_tls_proxy
  BY <1>7, TakesLate DEF Entry!start_tls_proxy
<1>8. CASE Entry!start_viewing_front_door
  <2>1. PICK rs : Entry!Takes(rs) /\ "recorder" \notin rs /\ ("go2rtc" \notin rs \/ "go2rtc" \notin closed)
    BY <1>8 DEF Entry!start_viewing_front_door, Entry!Refused
  <2>. QED BY <1>8, <2>1, TakesLate DEF Entry!start_viewing_front_door
<1>9. CASE Entry!start_tls_proxy_wiring /\ Entry!Takes({"timer"})
  BY <1>9, TakesLate DEF Entry!start_tls_proxy_wiring
<1>10. CASE \/ Entry!start_tls_proxy_wiring /\ UNCHANGED <<held, late>>
            \/ Entry!CallFails \/ Entry!Calls \/ Entry!Edits \/ Entry!TokenWritten
            \/ Entry!_async_options_updated \/ UNCHANGED entryVars
  <2>1. UNCHANGED <<phase, stage, hit, closed, held, late>>
    BY <1>10 DEF Entry!start_tls_proxy_wiring, Entry!CallFails, Entry!Calls, Entry!Edits,
       Entry!TokenWritten, Entry!_async_options_updated, Entry!holdVars, entryVars
  <2>. QED BY <2>1 DEF EntryInv, NotHit, Going, Torn, InHand
<1>11. Entry!start_tls_proxy_wiring => Entry!Takes({"timer"}) \/ UNCHANGED <<held, late>>
  BY DEF Entry!start_tls_proxy_wiring
<1>. QED BY <1>1, <1>2, <1>3, <1>4, <1>5, <1>6, <1>7, <1>8, <1>9, <1>10, <1>11
         DEF Entry!Next, Entry!Call

\* Every step of the entry.
LEMMA EntryStep ==
  ASSUME EntryInv, Entry!Next \/ UNCHANGED entryVars
  PROVE  EntryInv' /\ (reload' /\ ~reload => options # inForce)
BY NumbersKept, TeardownKept DEF EntryInv

\* A teardown that is through has given back what it had to.
LEMMA TornIsWhole == EntryInv => TeardownIsWhole
BY DEF EntryInv, Torn, InHand, TeardownIsWhole, Entry!TeardownIsWhole, Entry!Never

-----------------------------------------------------------------------------
\* ------------------------------------------------------ the theorems

\* The tuples of the instances are those of the household.
LEMMA SameVariables ==
    /\ UNCHANGED Status!statusVars <=> UNCHANGED statusVars
    /\ UNCHANGED News!cloudVars <=> UNCHANGED newsVars
    /\ UNCHANGED Entry!entryVars <=> UNCHANGED entryVars
<1>1. UNCHANGED Status!statusVars <=> UNCHANGED statusVars
  BY DEF Status!statusVars, Status!world, Status!pings, Status!news, statusVars
<1>2. UNCHANGED News!cloudVars <=> UNCHANGED newsVars
  BY DEF News!cloudVars, News!outageVars, News!maintVars, newsVars
<1>3. UNCHANGED Entry!entryVars <=> UNCHANGED entryVars
  BY DEF Entry!entryVars, Entry!optionVars, Entry!holdVars, entryVars
<1>. QED BY <1>1, <1>2, <1>3

\* Whatever becomes of a camera: offline is said of one that no tick found online within the
\* grace (announcements.py, the start of the grace).
THEOREM OfflineIsSaidLate ==
    Status!Init /\ [][Status!Next]_(Status!statusVars) => Status!OfflineIsLasting
<1>1. Status!Init => StatusInv
  BY StatusInit
<1>2. StatusInv /\ [Status!Next]_(Status!statusVars) =>
        StatusInv' /\ [told' = "offline" /\ told # "offline" => absent >= Grace]_(Status!statusVars)
  BY StatusStep, SameVariables
<1>. QED BY <1>1, <1>2, PTL DEF Status!OfflineIsLasting

\* Whatever becomes of the cloud: an outage is announced when it has lasted, and once, unless a
\* restart forgets it before it is stored; that a window is over is only said of one that was
\* announced as open (announcements.py, the flag and the key that are stored).
THEOREM NewsIsNews == News!Spec => News!OutageIsNews /\ []News!EndAfterBeginning
<1>. DEFINE Inv == OutageInv /\ KeysAreTrue /\ EndAfterBeginning
<1>1. News!Init => Inv
  BY NewsInit
<1>2. Inv /\ [News!Next]_(News!cloudVars) =>
        Inv' /\ [outs' > outs => silent >= OutageAfter /\ (cut \/ outs = 0)]_(News!cloudVars)
  BY OutageKept, WindowsKept, SameVariables
<1>3. Inv => News!EndAfterBeginning
  BY DEF EndAfterBeginning
<1>. HIDE DEF Inv
<1>. QED BY <1>1, <1>2, <1>3, PTL DEF News!Spec, News!OutageIsNews

\* Whatever is edited, written, cancelled or called: a teardown that is through leaves nothing
\* but what it was kept from giving back, and only changed options reload the entry
\* (__init__.py _async_cancel_coordinator_tasks, _async_options_updated).
THEOREM EntryIsTornDown ==
    Entry!Init /\ [][Entry!Next]_(Entry!entryVars) =>
        []Entry!TeardownIsWhole /\ Entry!OnlyOptionsReload
<1>1. Entry!Init => EntryInv
  BY EntryInit
<1>2. EntryInv /\ [Entry!Next]_(Entry!entryVars) =>
        EntryInv' /\ [reload' /\ ~reload => options # inForce]_(Entry!entryVars)
  BY EntryStep, SameVariables
<1>3. EntryInv => Entry!TeardownIsWhole
  BY TornIsWhole DEF TeardownIsWhole
<1>. QED BY <1>1, <1>2, <1>3, PTL DEF Entry!OnlyOptionsReload

\* In the household each of them does what it does alone.
LEMMA EachAlone ==
  MCSpec => /\ Status!Init /\ [][Status!Next]_(Status!statusVars)
            /\ News!Spec
            /\ Entry!Init /\ [][Entry!Next]_(Entry!entryVars)
<1>1. MCInit => Status!Init /\ News!Init /\ Entry!Init
  BY DEF MCInit
<1>2. [MCNext]_all => /\ [Status!Next]_(Status!statusVars)
                      /\ [News!Next]_(News!cloudVars)
                      /\ [Entry!Next]_(Entry!entryVars)
  <2>1. UNCHANGED all => UNCHANGED statusVars /\ UNCHANGED newsVars /\ UNCHANGED entryVars
    BY DEF all
  <2>2. MCNext => /\ Status!Next \/ UNCHANGED statusVars
                  /\ News!Next \/ UNCHANGED newsVars
                  /\ Entry!Next \/ UNCHANGED entryVars
    BY DEF MCNext, InStatus, InNews, InDevices, InEntry
  <2>. QED BY <2>1, <2>2, SameVariables
<1>. QED BY <1>1, <1>2, PTL DEF MCSpec, News!Spec

\* In the household no camera is reported offline for a short drop, and no outage that is none
\* or is known (announcements.py).
THEOREM NobodyCriesWolf == MCSpec => NoFalseAlarm
BY EachAlone, OfflineIsSaidLate, NewsIsNews, PTL DEF NoFalseAlarm

\* In the household no window is said to be over that was not announced as open
\* (announcements.py: the key).
THEOREM EndsHaveBegun == MCSpec => []EndAfterBeginning
<1>1. News!EndAfterBeginning => EndAfterBeginning
  BY DEF EndAfterBeginning
<1>. QED BY <1>1, EachAlone, NewsIsNews, PTL

\* In the household a teardown that is through leaves nothing but what it was kept from giving
\* back (__init__.py _async_cancel_coordinator_tasks).
THEOREM NothingOutlivesTeardown == MCSpec => []TeardownIsWhole
<1>1. Entry!TeardownIsWhole => TeardownIsWhole
  BY DEF TeardownIsWhole
<1>. QED BY <1>1, EachAlone, EntryIsTornDown, PTL

\* In the household only changed options reload the entry (__init__.py _async_options_updated).
THEOREM WritesDoNotReload == MCSpec => OnlyOptionsReload
BY EachAlone, EntryIsTornDown, PTL DEF OnlyOptionsReload

=============================================================================
