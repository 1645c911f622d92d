---------------------------- MODULE Credentials ----------------------------
(***************************************************************************)
(* The Digest credentials of one camera.  Every PUT /connection LOCAL makes *)
(* the camera mint a new pair and drop the pair before it.  Three tasks ask: *)
(* the build of a session (live_connection.py), the keepalive's heartbeat   *)
(* (session_renewal.py) and a snapshot taken while nothing streams          *)
(* (coordinator.py).  What they get is kept in the session's entry, in the  *)
(* URL when no front door hides it, and in local_creds_cache.  The recorder *)
(* reads the entry's URL under the NVR lock.                                *)
(*                                                                          *)
(* A pair is known by its age, "current" or "old", so that heartbeats need  *)
(* no bound: when the camera mints a pair, all others age.  A URL has no    *)
(* pair while it is the front door's.  Left out: the relay's sessions and   *)
(* the local data interface (nothing rotates), the minute for which the     *)
(* camera may still accept the pair before, a missing proxy port.           *)
(***************************************************************************)
EXTENDS Naturals

CONSTANTS
    MaxBuilds,      \* bound: calls of try_live_connection_inner
    MaxShots,       \* bound: snapshots that open a connection
    MaxRecordings,  \* bound: calls of start_recorder
    FailLimit       \* heartbeats that fail before the session is renewed (3)

Bounds == MaxBuilds \in Nat /\ MaxShots \in Nat /\ MaxRecordings \in Nat /\ FailLimit \in Nat \ {0}

VARIABLES
    live,           \* live_connections[cam_id]: its pair and its rtspsUrl
    warming,        \* cam_id in stream_warming
    door,           \* viewing_front_door_runner.has_server(cam_id)
    cache,          \* local_creds_cache[cam_id]: its pair
    build,          \* the build that holds the stream lock, with the pair of its PUT
    keeper,         \* auto_renew_local_session, with the reply it is about to write
    shot,           \* async_fetch_live_snapshot_local
    recorder,       \* start_recorder, holding the NVR lock unless idle
    stray,          \* whether the PUT of a task that is gone is still to reach the camera
    builds, shots, recordings

sessionVars == <<live, warming, door>>
counters == <<builds, shots, recordings>>
vars == <<sessionVars, cache, build, keeper, shot, recorder, stray, counters>>

Ages == {"none", "current", "old"}
NoLive == [pair |-> "none", url |-> "none"]
NoBuild == [pc |-> "idle", pair |-> "none"]
Keeper(pc) == [pc |-> pc, pair |-> "none", url |-> "none", mine |-> FALSE, fails |-> 0]
NoShot == [pc |-> "idle", pair |-> "none"]
NoRecorder == [pc |-> "idle", url |-> "none", mine |-> FALSE]

Up == live.pair # "none"
Published == live.url # "none"

(* The age of a pair, or of the pair in a URL, after another is minted.     *)
Aged(p) == IF p = "current" THEN "old" ELSE p

(* The camera serves a PUT: whoever sent it will be told the current pair.  *)
Minted(who) ==
    /\ live' = [pair |-> Aged(live.pair), url |-> Aged(live.url)]
    /\ cache' = Aged(cache)
    /\ build' = [build EXCEPT !.pair = IF who = "build" THEN "current" ELSE Aged(@)]
    /\ keeper' = [keeper EXCEPT !.pair = IF who = "keeper" THEN "current" ELSE Aged(@), !.url = Aged(@)]
    /\ shot' = [shot EXCEPT !.pair = IF who = "shot" THEN "current" ELSE Aged(@)]
    /\ recorder' = [recorder EXCEPT !.url = Aged(@)]
    /\ stray' = (stray /\ who # "stray")
    /\ UNCHANGED <<warming, door, counters>>

Waits(task) == task.pc = "put" /\ task.pair = "none"
MintsForKeeper == Waits(keeper) /\ Minted("keeper")
CameraMints ==
    \/ Waits(build) /\ Minted("build")
    \/ MintsForKeeper
    \/ Waits(shot) /\ Minted("shot")
    \/ stray /\ Minted("stray")

(* A task that ends with its PUT on the way leaves it behind.               *)
Leaves(task) == stray' = (stray \/ Waits(task))

(* The entry is replaced or removed: who looked it up holds another's.      *)
LosesEntry(k) == [k EXCEPT !.mine = FALSE]

------------------------------------------------------------------------------
\* -------------------------------------------------------------- building

(* A build; a recovery drops the old session first (force_reset).           *)
BuildAsks(forced) ==
    /\ build.pc = "idle" /\ builds < MaxBuilds
    /\ build' = [pc |-> "put", pair |-> "none"] /\ builds' = builds + 1
    /\ live' = IF forced THEN NoLive ELSE live
    /\ warming' = (warming /\ ~forced)
    /\ recorder' = IF forced THEN LosesEntry(recorder) ELSE recorder
    /\ UNCHANGED <<door, cache, shot, shots, recordings>>

TryLiveConnection == \E forced \in BOOLEAN :
    /\ BuildAsks(forced)
    /\ keeper' = IF forced THEN LosesEntry(keeper) ELSE keeper
    /\ UNCHANGED stray

(* The PUT fails; the answer may have been lost.                            *)
BuildIsRefused ==
    /\ build.pc = "put"
    /\ build' = NoBuild /\ Leaves(build)
    /\ keeper' = IF keeper.pc = "renewing" THEN Keeper("sleep") ELSE keeper
    /\ UNCHANGED <<sessionVars, cache, shot, recorder, counters>>

(* The answer is cached before the proxy is started.                        *)
BuildIsAnswered ==
    /\ build.pc = "put" /\ build.pair # "none"
    /\ cache' = build.pair
    /\ build' = [build EXCEPT !.pc = "proxy"]
    /\ UNCHANGED <<sessionVars, keeper, shot, recorder, stray, counters>>

(* The entry replaces the old session's, without a URL while it warms up.   *)
BuildEnters ==
    /\ build.pc = "proxy"
    /\ live' = [pair |-> build.pair, url |-> "none"] /\ warming' = TRUE
    /\ build' = [build EXCEPT !.pc = "prewarm"]
    /\ keeper' = LosesEntry(keeper) /\ recorder' = LosesEntry(recorder)
    /\ UNCHANGED <<door, cache, shot, stray, counters>>

PrewarmFails ==
    /\ build.pc = "prewarm"
    /\ live' = NoLive /\ warming' = FALSE /\ build' = NoBuild
    /\ keeper' = LosesEntry(IF keeper.pc = "renewing" THEN Keeper("sleep") ELSE keeper)
    /\ recorder' = LosesEntry(recorder)
    /\ UNCHANGED <<door, cache, shot, stray, counters>>

(* The front door's URL, or the one made with the PUT's pair if no port is  *)
(* to be had for a new door.                                                *)
BuildPublishes ==
    /\ build.pc = "prewarm"
    /\ \E bound \in BOOLEAN :
         /\ door => bound
         /\ door' = bound
         /\ live' = [live EXCEPT !.url = IF bound THEN "door" ELSE build.pair]
    /\ warming' = FALSE /\ build' = [build EXCEPT !.pc = "settle"]
    /\ recorder' = LosesEntry(recorder)
    /\ UNCHANGED <<cache, keeper, shot, stray, counters>>

(* The new generation's keepalive; the one before is cancelled where it is. *)
ReplaceRenewalTask ==
    /\ build.pc = "settle"
    /\ build' = NoBuild /\ keeper' = Keeper("sleep") /\ Leaves(keeper)
    /\ UNCHANGED <<sessionVars, cache, shot, recorder, counters>>

TearDownLiveStream ==
    /\ build.pc = "idle" /\ Up
    /\ live' = NoLive /\ warming' = FALSE /\ door' = FALSE
    /\ keeper' = Keeper("none") /\ Leaves(keeper)
    /\ recorder' = LosesEntry(recorder)
    /\ UNCHANGED <<cache, build, shot, counters>>

------------------------------------------------------------------------------
\* ------------------------------------------------------------ the heartbeat

(* The keepalive wakes up: there is no session any more, or a heartbeat, or *)
(* it is time for a renewal.                                                *)
KeeperWakes ==
    /\ keeper.pc = "sleep"
    /\ keeper' = IF Up THEN [keeper EXCEPT !.pc = "put", !.pair = "none"] ELSE Keeper("none")
    /\ UNCHANGED <<sessionVars, cache, build, shot, recorder, stray, counters>>

KeeperRenews ==
    /\ keeper.pc = "sleep" /\ Up /\ builds < MaxBuilds
    /\ keeper' = Keeper("queued")
    /\ UNCHANGED <<sessionVars, cache, build, shot, recorder, stray, counters>>

(* With the stream lock.  Past the bound a forced renewal fails at once.    *)
KeeperBuilds ==
    /\ keeper.pc = "queued" /\ build.pc = "idle"
    /\ IF builds < MaxBuilds
       THEN BuildAsks(FALSE) /\ keeper' = Keeper("renewing") /\ UNCHANGED stray
       ELSE /\ keeper' = Keeper("sleep")
            /\ UNCHANGED <<sessionVars, cache, build, shot, recorder, stray, counters>>

(* No answer, or a refusal; the last one in a row forces a renewal.         *)
HeartbeatFails ==
    /\ keeper.pc = "put" /\ Leaves(keeper)
    /\ keeper' = IF keeper.fails + 1 < FailLimit
                 THEN [Keeper("sleep") EXCEPT !.fails = keeper.fails + 1]
                 ELSE Keeper("queued")
    /\ UNCHANGED <<sessionVars, cache, build, shot, recorder, counters>>

(* Mutant: behind a front door nobody needs to know the new pair.           *)
RefreshesRawUrls(k) ==
    /\ live' = IF k.mine /\ ~door THEN [pair |-> k.pair, url |-> k.url] ELSE live
    /\ cache' = k.pair
    /\ keeper' = Keeper("sleep")

(* What a reply k changes under the NVR lock: the entry that was looked up, *)
(* its URL, the cache.                                                      *)
Refreshes(k) ==
    /\ live' = IF k.mine THEN [pair |-> k.pair, url |-> k.url] ELSE live
    /\ cache' = k.pair
    /\ keeper' = Keeper("sleep")

(* The answer: the entry of now and the URL it will have are settled before *)
(* the lock is there.                                                       *)
RefreshLocalCreds ==
    /\ keeper.pc = "put" /\ keeper.pair # "none"
    /\ LET reply == [keeper EXCEPT !.pc = "lock", !.fails = 0, !.mine = TRUE,
                                   !.url = IF door THEN live.url ELSE keeper.pair]
       IN  IF Up /\ recorder.pc = "idle" THEN Refreshes(reply)
           ELSE /\ keeper' = IF Up THEN reply ELSE Keeper("sleep")
                /\ UNCHANGED <<live, cache>>
    /\ UNCHANGED <<warming, door, build, shot, recorder, stray, counters>>

RefreshHasLock ==
    /\ keeper.pc = "lock" /\ recorder.pc = "idle"
    /\ Refreshes(keeper)
    /\ UNCHANGED <<warming, door, build, shot, recorder, stray, counters>>

------------------------------------------------------------------------------
\* ------------------------------------------------- a snapshot, the recorder

(* A fetcher saw no stream; it asks the relay first, then the camera.       *)
ShotDecides ==
    /\ shot.pc = "idle" /\ shots < MaxShots /\ ~Published /\ ~warming
    /\ shot' = [shot EXCEPT !.pc = "decided"] /\ shots' = shots + 1
    /\ UNCHANGED <<sessionVars, cache, build, keeper, recorder, stray, builds, recordings>>

ShotAsks ==
    /\ shot.pc = "decided"
    /\ shot' = [shot EXCEPT !.pc = "put"]
    /\ UNCHANGED <<sessionVars, cache, build, keeper, recorder, stray, counters>>

(* Only the cache is told, not the session that may be there by now.        *)
ShotIsAnswered ==
    /\ shot.pc = "put" /\ shot.pair # "none"
    /\ cache' = shot.pair /\ shot' = NoShot
    /\ UNCHANGED <<sessionVars, build, keeper, recorder, stray, counters>>

ShotFails ==
    /\ shot.pc = "put"
    /\ shot' = NoShot /\ Leaves(shot)
    /\ UNCHANGED <<sessionVars, cache, build, keeper, recorder, counters>>

(* start_recorder takes the lock and waits for a published URL, or gives up. *)
StartRecorder ==
    /\ recorder.pc = "idle" /\ keeper.pc # "lock"
    /\ recordings < MaxRecordings /\ Up
    /\ recorder' = [recorder EXCEPT !.pc = "waiting"] /\ recordings' = recordings + 1
    /\ UNCHANGED <<sessionVars, cache, build, keeper, shot, stray, builds, shots>>

(* Published: the staging directories are made in an executor.              *)
StreamIsReady ==
    /\ recorder.pc = "waiting" /\ Published
    /\ recorder' = [recorder EXCEPT !.pc = "dirs", !.url = live.url]
    /\ UNCHANGED <<sessionVars, cache, build, keeper, shot, stray, counters>>

(* The URL is read again right before ffmpeg is spawned with it.            *)
Spawns ==
    /\ recorder.pc = "dirs" /\ Up
    /\ recorder' = [pc |-> "spawning", url |-> IF Published THEN live.url ELSE recorder.url,
                    mine |-> Published]
    /\ UNCHANGED <<sessionVars, cache, build, keeper, shot, stray, counters>>

(* The lock is given back: spawned, torn down, not ready in time, or the    *)
(* camera records events only.                                              *)
RecorderEnds ==
    /\ recorder.pc \in {"waiting", "spawning"} \cup (IF Up THEN {} ELSE {"dirs"})
    /\ recorder' = NoRecorder
    /\ UNCHANGED <<sessionVars, cache, build, keeper, shot, stray, counters>>

------------------------------------------------------------------------------
Init ==
    /\ live = NoLive /\ warming = FALSE /\ door = FALSE
    /\ cache \in {"none", "old"}                \* "old": restored from the store
    /\ build = NoBuild /\ keeper = Keeper("none") /\ shot = NoShot /\ recorder = NoRecorder
    /\ stray = FALSE
    /\ builds = 0 /\ shots = 0 /\ recordings = 0

Build == BuildIsRefused \/ BuildIsAnswered \/ BuildEnters \/ PrewarmFails \/ BuildPublishes \/ ReplaceRenewalTask
Heartbeat == KeeperWakes \/ KeeperBuilds \/ HeartbeatFails \/ RefreshHasLock
Record == StreamIsReady \/ Spawns \/ RecorderEnds
Snapshot == ShotDecides \/ ShotAsks \/ ShotIsAnswered \/ ShotFails

Next ==
    \/ CameraMints
    \/ TryLiveConnection \/ Build \/ TearDownLiveStream
    \/ Heartbeat \/ KeeperRenews \/ RefreshLocalCreds
    \/ Snapshot
    \/ StartRecorder \/ Record
Spec == Init /\ [][Next]_vars

(* Tasks run on; of a camera that keeps being asked an answer comes before   *)
(* an abandoned request overtakes it.                                       *)
AnsweredInTime == keeper.pair = "current" /\ RefreshLocalCreds
Fairness ==
    /\ WF_vars(Build) /\ WF_vars(Heartbeat) /\ WF_vars(Record)
    /\ SF_vars(MintsForKeeper) /\ SF_vars(AnsweredInTime)
FairSpec == Spec /\ Fairness

------------------------------------------------------------------------------
\* ---------------------------------------------------------------- properties

(* Every variable has its type.                                             *)
Urls == Ages \cup {"door"}
TypeOK ==
    /\ live \in [pair : Ages, url : Urls] /\ warming \in BOOLEAN /\ door \in BOOLEAN
    /\ cache \in Ages /\ stray \in BOOLEAN
    /\ build \in [pc : {"idle", "put", "proxy", "prewarm", "settle"}, pair : Ages]
    /\ keeper \in [pc : {"none", "sleep", "put", "lock", "queued", "renewing"}, pair : Ages,
                   url : Urls, mine : BOOLEAN, fails : Nat]
    /\ shot \in [pc : {"idle", "decided", "put"}, pair : Ages]
    /\ recorder \in [pc : {"idle", "waiting", "dirs", "spawning"}, url : Urls, mine : BOOLEAN]
    /\ builds \in 0..MaxBuilds /\ shots \in 0..MaxShots /\ recordings \in 0..MaxRecordings

(* While a session lasts, its entry and the cache come to hold the pair the  *)
(* camera accepts, again and again, and so does a URL that no front door     *)
(* hides: whatever a late reply, an abandoned PUT or a snapshot left behind, *)
(* a heartbeat replaces it.  (A URL written before a door was bound keeps    *)
(* its pair until the next renewal.)                                         *)
PairComesBack ==
    []<>(Up => live.pair = "current" /\ cache = "current" /\ (door \/ live.url # "old"))

(* While ffmpeg is spawned its URL stays the session's, also when a heartbeat *)
(* was answered as the recorder made its directories, unless a build, which  *)
(* starts the recorder again, has written the session since.                *)
SpawnIsFresh == recorder.pc = "spawning" /\ recorder.mine => recorder.url = live.url

(* A heartbeat never takes a published URL away.  The recorder may hold the *)
(* lock from before the publication, so a URL looked up while the session   *)
(* was warming up can be written after it.                                  *)
UrlIsKept == [][Published /\ Up' /\ build.pc # "proxy" => live'.url # "none"]_vars
=============================================================================
