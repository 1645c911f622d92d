---------------------------- MODULE MC_Household ----------------------------
(* What the coordinator looks after besides the streams: whether a camera   *)
(* is there, what the user hears of the cloud, cameras that come and go,    *)
(* and the entry's own life.  The four share no state, so a behaviour is    *)
(* about one of them.                                                       *)
EXTENDS Integers

CONSTANTS Grace, Extended, MaxChanges, OutageAfter, NumWindows, MaxRestarts,
          MaxMoves, MaxRenewals, MaxEdits, MaxFailures

VARIABLES
    scene,
    camera, lan, trouble, reached, tick, first, due, cached, checked, offline, pinged, pinging, throttled,
    last, seen, told, absent, left,
    cloud, outage, notified, flag, flagSave, windows, cache, fetching, key, keyStore, keySave,
    outs, silent, said, restarts, cut,
    account, answers, loaded, pass, listed, data, known, entities, device, creds, saved, pending, stored,
    door, port, op, closing, returned, after, moves, renewals, starts,
    options, snapshot, inForce, calls, reload, hinted, phase, held, stage, closed, call, hit, late, edits, failures

statusVars == <<camera, lan, trouble, reached, tick, first, due, cached, checked, offline, pinged, pinging, throttled,
                last, seen, told, absent, left>>
newsVars == <<cloud, outage, notified, flag, flagSave, windows, cache, fetching, key, keyStore, keySave,
              outs, silent, said, restarts, cut>>
deviceVars == <<account, answers, loaded, pass, listed, data, known, entities, device, creds, saved, pending, stored,
                door, port, op, closing, returned, after, moves, renewals, starts>>
entryVars == <<options, snapshot, inForce, calls, reload, hinted, phase, held, stage, closed, call, hit, late, edits, failures>>
all == <<scene, statusVars, newsVars, deviceVars, entryVars>>

Status == INSTANCE CameraStatus WITH cloud <- reached
News == INSTANCE CloudNews
Device == INSTANCE Devices WITH cloud <- answers, tick <- pass, snapshot <- saved, late <- after, restarts <- starts
Entry == INSTANCE EntryLifecycle WITH due <- calls

ASSUME HouseholdBounds == Status!Bounds /\ News!Bounds /\ Device!Bounds /\ Entry!Bounds

(* In the other scenes one initial state is enough.                         *)
MCInit ==
    /\ scene \in {"status", "news", "devices", "entry"}
    /\ Status!Init /\ News!Init /\ Device!Init /\ Entry!Init
    /\ scene # "status" => camera = "online" /\ lan /\ reached
    /\ scene # "news" => cloud
    /\ scene # "devices" => account
    /\ scene # "entry" => hinted

InStatus(A) == scene = "status" /\ A /\ UNCHANGED <<scene, newsVars, deviceVars, entryVars>>
InNews(A) == scene = "news" /\ A /\ UNCHANGED <<scene, statusVars, deviceVars, entryVars>>
InDevices(A) == scene = "devices" /\ A /\ UNCHANGED <<scene, statusVars, newsVars, entryVars>>
InEntry(A) == scene = "entry" /\ A /\ UNCHANGED <<scene, statusVars, newsVars, deviceVars>>
MCNext == InStatus(Status!Next) \/ InNews(News!Next) \/ InDevices(Device!Next) \/ InEntry(Entry!Next)

(* The fairness of the three that have one, each in its scene.              *)
StatusFairness ==
    /\ WF_statusVars(scene = "status" /\ Status!Work) /\ WF_statusVars(scene = "status" /\ Status!TimePasses)
    /\ WF_statusVars(scene = "status" /\ Status!async_outage_ping_all)
    /\ WF_statusVars(scene = "status" /\ Status!CloudIsBack)
DeviceFairness ==
    /\ WF_deviceVars(scene = "devices" /\ Device!async_setup_entry) /\ WF_deviceVars(scene = "devices" /\ Device!Tick)
    /\ WF_deviceVars(scene = "devices" /\ Device!async_save)
    /\ WF_deviceVars(scene = "devices" /\ Device!_close_leftover_viewing_front_door)
    /\ WF_deviceVars(scene = "devices" /\ Device!Session) /\ WF_deviceVars(scene = "devices" /\ Device!CloudIsBack)
EntryFairness ==
    /\ WF_entryVars(scene = "entry" /\ Entry!Setup) /\ WF_entryVars(scene = "entry" /\ Entry!TokenWritten)
    /\ WF_entryVars(scene = "entry" /\ Entry!_async_options_updated)
    /\ WF_entryVars(scene = "entry" /\ reload /\ Entry!async_unload_entry)
    /\ WF_entryVars(scene = "entry" /\ Entry!_async_cancel_coordinator_tasks)
MCSpec == MCInit /\ [][MCNext]_all /\ StatusFairness /\ DeviceFairness /\ EntryFairness

TypeOK == Status!TypeOK /\ News!TypeOK /\ Device!TypeOK /\ Entry!TypeOK
OnlyOfflineAndBack == Status!OnlyOfflineAndBack

(* No camera is reported offline for a short drop, and no outage that is    *)
(* none or is known.                                                        *)
NoFalseAlarm == Status!OfflineIsLasting /\ News!OutageIsNews

EndAfterBeginning == News!EndAfterBeginning
TeardownIsWhole == Entry!TeardownIsWhole
OnlyOptionsReload == Entry!OnlyOptionsReload

(* What they come to be, and stay: StatusCatchesUp, GoneIsForgotten,        *)
(* NewCamerasAppear and OptionsTakeEffect of the modules in one formula.    *)
Settles ==
    <>[](CASE scene = "status" -> Status!CaughtUp
           [] scene = "devices" -> Device!Forgotten /\ Device!Appeared
           [] scene = "entry" -> inForce = options
           [] OTHER -> TRUE)

LightsAppear == scene = "devices" => Device!LightsAppear
=============================================================================
