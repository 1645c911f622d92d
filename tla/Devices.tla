------------------------------ MODULE Devices ------------------------------
(***************************************************************************)
(* A camera that appears in the Bosch account, leaves it and comes back:   *)
(* its entities (dynamic_devices.py, and the async_setup_entry of every    *)
(* platform), its device, the credentials kept in memory and on disk, and  *)
(* the viewing front door of its session (coordinator.py                   *)
(* cleanup_stale_devices and _purge_cam_id, tick_housekeeping.py).  The    *)
(* camera is one with lights, and the only one of the account.             *)
(***************************************************************************)
EXTENDS Integers

CONSTANTS MaxMoves,     \* bound: the camera joins or leaves, the cloud goes out
          MaxRenewals,  \* bound: sessions started or renewed
          MaxRestarts   \* bound: Home Assistant starts anew

Bounds == MaxMoves \in Nat /\ MaxRenewals \in Nat /\ MaxRestarts \in Nat

VARIABLES account,   \* the camera is in the account
          cloud,     \* the cloud answers
          loaded,    \* the entry is set up
          tick,      \* "idle", or "house": the list was read
          listed,    \* and held the camera
          data,      \* coordinator.data of the camera
          known,     \* known_cam_ids holds it
          entities,  \* its entities
          device,    \* it is in the device registry
          creds,     \* local_creds_cache
          snapshot,  \* local_creds_snapshot: {} before the first tick
          pending,   \* what a task is about to store: {} or one value
          stored,    \* the credentials are on disk
          door,      \* the viewing front door listens
          port,      \* viewing_sticky_port
          op,        \* a start or renewal of its session: "none", with the
                     \* session's lock "locked", or with one nobody takes now "orphan"
          closing,   \* the task that closes the door of a purged camera
          returned,  \* it left and came back while the entry was loaded
          late,      \* an operation ended after the purge, or a store was cut off
          moves, renewals, restarts

registry == <<entities, device>>
credVars == <<creds, snapshot, pending, stored>>
doorVars == <<door, port, op, closing>>
ghosts == <<returned, late>>
bounds == <<moves, renewals, restarts>>
deviceVars == <<account, cloud, loaded, tick, listed, data, known, registry,
                credVars, doorVars, ghosts, bounds>>

TypeOK ==
  /\ {account, cloud, loaded, listed, known, device, creds, stored} \subseteq BOOLEAN
  /\ {door, port, closing, returned, late} \subseteq BOOLEAN
  /\ tick \in {"idle", "house"} /\ data \in {"absent", "title", "full"}
  /\ entities \in {{}, {"plain"}, {"plain", "light"}}
  /\ snapshot \subseteq BOOLEAN /\ pending \subseteq BOOLEAN
  /\ op \in {"none", "locked", "orphan"}
  /\ moves \in 0 .. MaxMoves /\ renewals \in 0 .. MaxRenewals /\ restarts \in 0 .. MaxRestarts

Init ==
  /\ account \in BOOLEAN /\ cloud = TRUE /\ loaded = FALSE
  /\ tick = "idle" /\ listed = FALSE
  /\ data = "absent" /\ known = FALSE /\ entities = {} /\ device = FALSE
  /\ creds = FALSE /\ snapshot = {} /\ pending = {} /\ stored = FALSE
  /\ door = FALSE /\ port = FALSE /\ op = "none" /\ closing = FALSE
  /\ returned = FALSE /\ late = FALSE
  /\ moves = 0 /\ renewals = 0 /\ restarts = 0

\* What every platform builds for a camera it hears of: the lights only when
\* the cloud said that it has some.
_build_entities_for_cam(info) == IF info = "full" THEN {"plain", "light"} ELSE {"plain"}

Build(info) ==
  IF info = "absent" THEN UNCHANGED registry
  ELSE entities' = _build_entities_for_cam(info) /\ device' = TRUE

(***************************************************************************)
(* Setup: with the cloud, or from the registry when it is out.             *)
(***************************************************************************)
_rehydrate_cams_from_registry == IF device THEN "title" ELSE "absent"

async_setup_entry ==
  LET found == IF ~cloud THEN _rehydrate_cams_from_registry
               ELSE IF account THEN "full" ELSE "absent"
  IN  /\ ~loaded /\ (~cloud => device)
      /\ loaded' = TRUE
      /\ data' = found /\ known' = (found # "absent") /\ Build(found)
      /\ creds' = stored
      /\ IF cloud THEN snapshot' = {stored} /\ pending' = {stored}
         ELSE UNCHANGED <<snapshot, pending>>
      /\ UNCHANGED <<account, cloud, tick, listed, stored, doorVars, ghosts, bounds>>

(***************************************************************************)
(* The tick: the list is read, and a while later the housekeeping runs.     *)
(***************************************************************************)
fetch_camera_list ==
  /\ loaded /\ cloud /\ tick = "idle"
  /\ tick' = "house" /\ listed' = account
  /\ UNCHANGED <<account, cloud, loaded, data, known, registry, credVars, doorVars, ghosts, bounds>>

Stale == device /\ ~listed

\* The session is dropped with its lock; the door is closed by a task, which
\* takes the lock of a session that is made anew for it.
_purge_cam_id ==
  IF ~Stale THEN UNCHANGED <<entities, device, creds, port, op, closing, returned>>
  ELSE /\ entities' = {} /\ device' = FALSE
       /\ creds' = FALSE /\ port' = FALSE
       /\ closing' = (closing \/ port)
       /\ op' = IF op = "none" THEN "none" ELSE "orphan"
       /\ returned' = known

\* Mutant: only what there is is stored.
PersistSome ==
  IF snapshot = {creds'} \/ ~creds' THEN UNCHANGED <<snapshot, pending>>
  ELSE snapshot' = {creds'} /\ pending' = {creds'}

\* Also an empty account is stored: that is what forgets the last camera.
PersistCreds ==
  IF snapshot = {creds'} THEN UNCHANGED <<snapshot, pending>>
  ELSE snapshot' = {creds'} /\ pending' = {creds'}

\* Listeners of the coordinator: a camera not heard of before gets entities.
Unheard == listed /\ ~known

run_housekeeping ==
  /\ tick = "house" /\ tick' = "idle"
  /\ data' = IF listed THEN "full" ELSE "absent"
  /\ IF Unheard THEN /\ known' = TRUE /\ Build("full")
                     /\ UNCHANGED <<creds, port, op, closing, returned>>
     ELSE _purge_cam_id /\ UNCHANGED known
  /\ PersistCreds
  /\ UNCHANGED <<account, cloud, loaded, listed, stored, door, late, bounds>>

async_save ==
  /\ pending # {} /\ stored' \in pending /\ pending' = {}
  /\ UNCHANGED <<account, cloud, loaded, tick, listed, data, known, registry,
                 creds, snapshot, doorVars, ghosts, bounds>>

_close_leftover_viewing_front_door ==
  /\ closing /\ op # "locked"
  /\ closing' = FALSE /\ door' = FALSE /\ port' = FALSE
  /\ UNCHANGED <<account, cloud, loaded, tick, listed, data, known, registry,
                 credVars, op, ghosts, bounds>>

(***************************************************************************)
(* The session of the camera: Bosch opens it only for a camera that is in  *)
(* the account, and what follows takes a while, under the session's lock.  *)
(***************************************************************************)
StartSession ==
  /\ "plain" \in entities /\ account /\ cloud /\ op = "none" /\ ~closing
  /\ renewals < MaxRenewals /\ renewals' = renewals + 1
  /\ op' = "locked"
  /\ UNCHANGED <<account, cloud, loaded, tick, listed, data, known, registry,
                 credVars, door, port, closing, ghosts, moves, restarts>>

SessionOpened ==
  /\ op # "none" /\ op' = "none"
  /\ creds' = TRUE /\ door' = TRUE /\ port' = TRUE
  /\ late' = (late \/ op = "orphan")
  /\ UNCHANGED <<account, cloud, loaded, tick, listed, data, known, registry,
                 snapshot, pending, stored, closing, returned, bounds>>

SessionFailed ==
  /\ op # "none" /\ op' = "none"
  /\ UNCHANGED <<account, cloud, loaded, tick, listed, data, known, registry,
                 credVars, door, port, closing, ghosts, bounds>>

(***************************************************************************)
(* Around it.                                                              *)
(***************************************************************************)
Moves ==
  /\ moves < MaxMoves /\ moves' = moves + 1
  /\ \/ account' = ~account /\ UNCHANGED cloud
     \/ cloud /\ cloud' = FALSE /\ UNCHANGED account
  /\ UNCHANGED <<loaded, tick, listed, data, known, registry, credVars, doorVars,
                 ghosts, renewals, restarts>>

CloudIsBack ==
  /\ ~cloud /\ cloud' = TRUE
  /\ UNCHANGED <<account, loaded, tick, listed, data, known, registry, credVars,
                 doorVars, ghosts, bounds>>

\* Memory is gone, and with it a store that was not written yet.
Restart ==
  /\ loaded /\ restarts < MaxRestarts /\ restarts' = restarts + 1
  /\ loaded' = FALSE /\ tick' = "idle" /\ listed' = FALSE
  /\ data' = "absent" /\ known' = FALSE /\ entities' = {}
  /\ creds' = FALSE /\ snapshot' = {} /\ pending' = {}
  /\ door' = FALSE /\ port' = FALSE /\ op' = "none" /\ closing' = FALSE
  /\ returned' = FALSE /\ late' = (late \/ pending # {})
  /\ UNCHANGED <<account, cloud, device, stored, moves, renewals>>

Session == SessionOpened \/ SessionFailed
Tick == fetch_camera_list \/ run_housekeeping
Next == \/ async_setup_entry \/ Tick \/ async_save \/ _close_leftover_viewing_front_door
        \/ StartSession \/ Session \/ Moves \/ CloudIsBack \/ Restart

\* The timer ticks, tasks end, Home Assistant tries a setup again, and an
\* outage of the cloud ends.
Fairness == /\ WF_deviceVars(async_setup_entry) /\ WF_deviceVars(Tick) /\ WF_deviceVars(async_save)
            /\ WF_deviceVars(_close_leftover_viewing_front_door)
            /\ WF_deviceVars(Session) /\ WF_deviceVars(CloudIsBack)
Spec == Init /\ [][Next]_deviceVars /\ Fairness

(***************************************************************************)
(* Properties                                                              *)
(***************************************************************************)
Nothing == /\ ~device /\ entities = {} /\ data = "absent"
           /\ ~creds /\ ~stored /\ ~door /\ ~port

Forgotten == ~account => late \/ Nothing

\* Of a camera that is out of the account for good nothing stays: no device
\* or entity, no credentials in memory or on disk, no listener, also when it
\* was the only camera or left while Home Assistant was down
\* (coordinator.py _purge_cam_id, tick_housekeeping.py).  Not so when an
\* operation that began before the purge ended after it.
GoneIsForgotten == <>[]Forgotten

Appeared == account => returned \/ (data = "full" /\ "plain" \in entities)

\* A camera that is in the account for good has its entities and its data,
\* when the list first held it while the entry ran included
\* (dynamic_devices.py).  Not so one that left and came back within a run:
\* known_cam_ids still holds it.
NewCamerasAppear == <>[]Appeared

\* And it has its lights, when the entry was set up during an outage of the
\* cloud included (light.py: "so a cold-start during a cloud outage still
\* creates the right entities for Outdoor II").  In the code it has not: what
\* the camera can do is not known then, and later it is not new.
LightsAppear == <>[](account => returned \/ "light" \in entities)
=============================================================================
