-------------------------- MODULE MC_SessionServed --------------------------
(* What the session of one camera owes the tasks that use it: the stream    *)
(* lock to those that wait for it, and credentials the camera accepts to    *)
(* those that connect.  A behaviour is about one of the two; the other's    *)
(* module stays in its initial state, where none of its fair actions can    *)
(* happen.                                                                  *)
EXTENDS LiveSession

CONSTANTS MaxBuilds, MaxShots, MaxRecordings, FailLimit

VARIABLES scene, entry, warm, door, cache, asking, keeper, shot, recorder, stray, builds, shots, recordings

credVars == <<entry, warm, door, cache, asking, keeper, shot, recorder, stray, builds, shots, recordings>>
all == <<scene, vars, credVars>>

MCServed == {"turn_on", "turn_off", "worker", "promote"}
MCAllHealths == {"healthy", "unhealthy", "webrtc_only", "no_consumer"}

Creds == INSTANCE Credentials WITH live <- entry, warming <- warm, build <- asking

ASSUME Creds!Bounds

MCInit ==
    /\ scene \in {"lock", "credentials"}
    /\ Init /\ Creds!Init
    /\ scene = "lock" => cache = "none"

InLock(A) == scene = "lock" /\ A /\ UNCHANGED <<scene, credVars>>
InCredentials(A) == scene = "credentials" /\ A /\ UNCHANGED <<scene, vars>>

(* Without a session a camera may be left alone.                            *)
Over == scene = "credentials" /\ UNCHANGED all

MCNext == InLock(Next) \/ InCredentials(Creds!Next) \/ Over

(* The fairness of the two modules, each on its own variables.              *)
Locked(A) == scene = "lock" /\ A
LockFairness ==
    /\ WF_vars(Locked(BuildStep)) /\ WF_vars(Locked(LockServed))
    /\ \A g \in 1..MaxStarts :
         WF_vars(Locked(KeeperUnwinds(g) \/ KeeperLeaves(g) \/ GuardedTeardown(g)))
    /\ WF_vars(Locked(WatchdogTick)) /\ WF_vars(Locked(WatchdogRestarts))
    /\ WF_vars(Locked(RescueRetries)) /\ WF_vars(Locked(DiedRebuilds))
    /\ WF_vars(Locked(PrivacyWritten))
MCSpec == MCInit /\ [][MCNext]_all /\ LockFairness /\ Creds!Fairness

(* A task that waits for the stream lock gets it (the ones that can wait in *)
(* this mix); a switch-off leaves the camera without a session, whatever    *)
(* builds are in progress or queued.                                        *)
Askers == {TurnOn, TurnOff, Worker, Promote} \cup Reaps
AskersAreServed == (\A t \in Askers : pc[t] = "queued" ~> pc[t] # "queued") /\ OffEnds

(* ffmpeg is spawned with the session's URL, and as long as a session lasts *)
(* its credentials and the cached ones come to be those the camera accepts. *)
CredentialsHold == []Creds!SpawnIsFresh /\ Creds!PairComesBack
=============================================================================
