---------------------------- MODULE CameraStatus ----------------------------
(***************************************************************************)
(* Whether a camera is there: the status the coordinator's tick keeps of   *)
(* it (camera_status.py, first the LAN, then the cloud), the reachability  *)
(* it remembers while the cloud is out, and the two messages a user gets,  *)
(* "offline" after a grace and "back online" (announcements.py).  Cameras  *)
(* do not influence each other here, so there is one.                      *)
(*                                                                         *)
(* Time passes in units of the status interval (a minute); ages stop       *)
(* growing where the code stops telling them apart.                        *)
(***************************************************************************)
EXTENDS Integers

CONSTANTS Grace,      \* CAMERA_OFFLINE_ANNOUNCE_GRACE_SEC (5 units)
          Extended,   \* _OFFLINE_EXTENDED_INTERVAL (15 units)
          MaxChanges  \* bound: changes of the world, inconclusive answers

Bounds == Grace \in Nat \ {0} /\ Extended \in Nat \ {0} /\ MaxChanges \in Nat

Reports == {"online", "offline", "updating", "session_limit"}
Statuses == Reports \cup {"unknown"}
Never == -1

VARIABLES camera,     \* what the cloud would report of it
          lan,        \* it answers on the LAN
          trouble,    \* its newest event says that it was disconnected
          cloud,      \* the cloud answers the tick
          tick,       \* where the tick is
          first,      \* the next tick is the first of this coordinator
          due,        \* a tick is due
          cached,     \* cached_status
          checked,    \* age of per_cam_status_at
          offline,    \* age of offline_since
          pinged,     \* lan_tcp_reachable
          pinging,    \* the pings of an outage are under way
          throttled,  \* and were started less than 30 seconds ago
          last,       \* _last_camera_status
          seen,       \* age of _offline_seen_at
          told,       \* the last message about it
          absent,     \* how long no tick has found it online
          left        \* what the bound still allows

world == <<camera, lan, trouble, cloud>>
pings == <<pinged, pinging, throttled>>
news == <<last, seen, told, absent>>
statusVars == <<world, tick, first, due, cached, checked, offline, pings, news, left>>

TypeOK ==
  /\ camera \in Reports /\ lan \in BOOLEAN /\ trouble \in BOOLEAN /\ cloud \in BOOLEAN
  /\ tick \in {"idle", "status", "house"} /\ first \in BOOLEAN /\ due \in BOOLEAN
  /\ cached \in Statuses
  /\ checked \in 0 .. Extended
  /\ offline \in Never .. Extended + 1
  /\ pinged \in {"unknown", "yes", "no"} /\ pinging \in BOOLEAN /\ throttled \in BOOLEAN
  /\ last \in Statuses \cup {"none"}
  /\ seen \in Never .. Grace /\ absent \in 0 .. Grace
  /\ told \in {"nothing", "offline", "online"}
  /\ left \in 0 .. MaxChanges

Forgotten ==
  /\ first' = TRUE /\ due' = TRUE /\ tick' = "idle"
  /\ cached' = "unknown" /\ checked' = Extended /\ offline' = Never
  /\ pinged' = "unknown" /\ pinging' = FALSE /\ throttled' = FALSE
  /\ last' = "none" /\ seen' = Never

Init ==
  /\ camera \in Reports /\ lan \in BOOLEAN /\ trouble = FALSE /\ cloud \in BOOLEAN
  /\ tick = "idle" /\ first = TRUE /\ due = TRUE
  /\ cached = "unknown" /\ checked = Extended /\ offline = Never
  /\ pinged = "unknown" /\ pinging = FALSE /\ throttled = FALSE
  /\ last = "none" /\ seen = Never /\ told = "nothing" /\ absent = 0
  /\ left = MaxChanges

(***************************************************************************)
(* The tick.  It may come early, when an entity asks for a refresh.        *)
(***************************************************************************)
_async_update_data ==
  /\ tick = "idle" /\ cloud
  /\ tick' = "status" /\ due' = FALSE
  /\ UNCHANGED <<world, first, cached, checked, offline, pings, news, left>>

\* The list of the cameras does not come: the tick fails, and the LAN is
\* looked at unless that happened half a minute ago.
TickFails ==
  /\ tick = "idle" /\ ~cloud
  /\ due' = FALSE /\ first' = FALSE
  /\ pinging' = (pinging \/ ~throttled) /\ throttled' = TRUE
  /\ UNCHANGED <<world, tick, cached, checked, offline, pinged, news, left>>

Ping == IF lan THEN "yes" ELSE "no"

async_outage_ping_all ==
  /\ pinging /\ pinging' = FALSE /\ pinged' = Ping
  /\ UNCHANGED <<world, tick, first, due, cached, checked, offline, throttled, news, left>>

\* A camera that has been offline for long is looked at less often.
should_check_status ==
  IF offline > Extended THEN checked >= Extended ELSE checked >= 1

\* The second question to the cloud tells only whether the camera is connected.
commissioned == IF camera = "updating" THEN "offline" ELSE camera

Found(status) ==
  /\ cached' = status /\ checked' = 0
  /\ offline' = IF status \notin {"offline", "updating"} THEN Never
                ELSE IF offline = Never THEN 0 ELSE offline

\* Both questions may stay without an answer; the status then stays.
_check_one_camera_status ==
  IF ~should_check_status THEN UNCHANGED <<cached, checked, offline, pinged, left>>
  ELSE /\ pinged' = Ping
       /\ \/ lan /\ Found("online") /\ UNCHANGED left
          \/ ~lan /\ Found(camera) /\ UNCHANGED left
          \/ /\ ~lan /\ left > 0 /\ left' = left - 1
             /\ \E status \in {commissioned, cached} : Found(status)

poll_statuses ==
  /\ tick = "status" /\ tick' = "house"
  /\ _check_one_camera_status
  /\ UNCHANGED <<world, first, due, pinging, throttled, news>>

compute_status_for == IF cached = "online" /\ trouble THEN "offline" ELSE cached

\* The start of the grace, cleared by every tick that finds the camera online.
Recovered(status) == IF status = "online" THEN Never ELSE seen

maybe_announce_camera_status(status) ==
  LET since == Recovered(status)
      silent == last = "none" \/ "unknown" \in {status, last}
      waits == status = "offline" /\ since < Grace
  IN  IF status = last THEN seen' = since /\ UNCHANGED <<last, told>>
      ELSE IF silent THEN last' = status /\ UNCHANGED told
                          /\ seen' = IF last = "none" THEN seen ELSE since
      ELSE IF waits THEN /\ seen' = IF since = Never THEN 0 ELSE since
                         /\ UNCHANGED <<last, told>>
      ELSE /\ last' = status /\ seen' = since
           /\ told' = IF status = "offline" THEN "offline" ELSE "online"

run_housekeeping ==
  /\ tick = "house" /\ tick' = "idle" /\ first' = FALSE
  /\ IF first THEN UNCHANGED news
     ELSE /\ maybe_announce_camera_status(compute_status_for)
          /\ absent' = IF compute_status_for = "online" THEN 0 ELSE absent
  /\ UNCHANGED <<world, due, cached, checked, offline, pings, left>>

(***************************************************************************)
(* Around it.                                                              *)
(***************************************************************************)
Older(age, bound) == IF age = Never \/ age = bound THEN age ELSE age + 1

TimePasses ==
  /\ ~due /\ due' = TRUE /\ throttled' = FALSE
  /\ checked' = Older(checked, Extended) /\ offline' = Older(offline, Extended + 1)
  /\ seen' = Older(seen, Grace) /\ absent' = Older(absent, Grace)
  /\ UNCHANGED <<world, tick, first, cached, pinged, pinging, last, told, left>>

WorldChanges ==
  /\ left > 0 /\ left' = left - 1
  /\ \/ camera' \in Reports \ {camera} /\ UNCHANGED <<lan, trouble, cloud>>
     \/ lan' = ~lan /\ UNCHANGED <<camera, trouble, cloud>>
     \/ trouble' = ~trouble /\ UNCHANGED <<camera, lan, cloud>>
     \/ cloud /\ cloud' = FALSE /\ UNCHANGED <<camera, lan, trouble>>
  /\ UNCHANGED <<tick, first, due, cached, checked, offline, pings, news>>

\* An outage of the cloud ends, sooner or later.
CloudIsBack ==
  /\ ~cloud /\ cloud' = TRUE
  /\ UNCHANGED <<camera, lan, trouble, tick, first, due, cached, checked, offline, pings, news, left>>

Restart ==
  /\ left > 0 /\ left' = left - 1
  /\ Forgotten
  /\ UNCHANGED <<world, told, absent>>

Work == poll_statuses \/ run_housekeeping \/ (due /\ (_async_update_data \/ TickFails))
Next == \/ _async_update_data \/ TickFails \/ poll_statuses \/ run_housekeeping
        \/ async_outage_ping_all \/ TimePasses
        \/ WorldChanges \/ CloudIsBack \/ Restart

\* The coordinator's timer and its tasks go on; an outage ends.
Fairness == /\ WF_statusVars(Work) /\ WF_statusVars(TimePasses)
            /\ WF_statusVars(async_outage_ping_all) /\ WF_statusVars(CloudIsBack)
Spec == Init /\ [][Next]_statusVars /\ Fairness

(***************************************************************************)
(* Properties                                                              *)
(***************************************************************************)

\* A camera that some tick found online within the grace is not announced as
\* offline: a short drop, or several short drops in a row, stay silent
\* (announcements.py: the start of the grace is dropped by every tick that
\* finds it online).
OfflineIsLasting ==
  [][told' = "offline" /\ told # "offline" => absent >= Grace]_statusVars

\* A message is about a camera that went offline or came back
\* (announcements.py: "Only online -> offline and offline -> online
\* transitions notify").  The code sends "back online" for every other
\* change, the end of an update or a session limit included.
OnlyOfflineAndBack ==
  [][told' # told => {last, last'} = {"online", "offline"}]_statusVars

CaughtUp ==
  /\ cached = (IF lan THEN "online" ELSE camera)
  /\ pinged = Ping
  /\ last = compute_status_for

\* When nothing changes any more the status, the reachability and what was
\* announced come to be what the camera is: the rare checks of a camera that
\* was offline for long, answers that did not come and outages only delay it
\* (camera_status.py, coordinator.py should_check_status).
StatusCatchesUp == <>[]CaughtUp
=============================================================================
