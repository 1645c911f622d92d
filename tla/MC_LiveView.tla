---------------------------- MODULE MC_LiveView ----------------------------
(* The live view of one camera: its session, under three mixes of the tasks *)
(* that act on it, and the doors its viewers and recorders come through,    *)
(* with one connection through a door.  The session's own module has what   *)
(* the doors see of it, so a behaviour is about one of them.                *)
EXTENDS LiveSession

CONSTANTS Clients, MaxDoors, MaxCount, MaxSessions, MaxToggles, MaxRefusals,
          MaxRequests, Window, MaxRotations

VARIABLES
    scene,
    want, call, runner, doorKind, up, count, linger, cst, via, inner, sess, doorGen, lock, opener, viewTry,
    pub, sweep, loaded, toggles, refusals, gaveUp,
    digest, phase, sent, open, atRelay, toCam, fromCam, swallowed, shifter, creds, camCreds, camLast, heard

doorVars == <<want, call, runner, doorKind, up, count, linger, cst, via, inner, sess, doorGen, lock, opener,
              viewTry, pub, sweep, loaded, toggles, refusals, gaveUp>>
relayVars == <<digest, phase, sent, open, atRelay, toCam, fromCam, swallowed, shifter, creds, camCreds, camLast, heard>>
all == <<scene, vars, doorVars, relayVars>>

(* The tasks that respect the stream lock are the constants' own mix.       *)
MCLocal  == {"turn_on", "turn_off", "renewal", "reaper"}
MCFaulty == {"turn_on", "turn_off", "renewal", "watchdog", "worker", "died"}
MCSteady == {"turn_on", "turn_off", "privacy", "promote", "renewal", "snapshot", "auto_open"}
MCAllHealths == {"healthy", "unhealthy", "webrtc_only", "no_consumer"}

Faulty == INSTANCE LiveSession WITH Enabled <- MCFaulty, MayRaise <- TRUE
Steady == INSTANCE LiveSession WITH Enabled <- MCSteady, MayRaise <- TRUE, SlowSchemes <- TRUE
Door == INSTANCE FrontDoor WITH kind <- doorKind, gen <- doorGen
Relay == INSTANCE RtspRelay

ASSUME LiveViewBounds == Door!Bounds

MCInit ==
    /\ scene \in {"local", "faulty", "steady", "doors", "relay"}
    /\ Init /\ Door!Init /\ Relay!Init
    /\ scene # "relay" => ~digest

InSession(name, A) == scene = name /\ A /\ UNCHANGED <<scene, doorVars, relayVars>>
InDoors(A) == scene = "doors" /\ A /\ UNCHANGED <<scene, vars, relayVars>>
InRelay(A) == scene = "relay" /\ A /\ UNCHANGED <<scene, vars, doorVars>>

(* Doors and a connection may come to rest; a session is asked for again.   *)
Over == scene \in {"doors", "relay"} /\ UNCHANGED all

(* Two builds are enough where tasks do not renew of their own accord.      *)
MCNext ==
    \/ InSession("local", Next)
    \/ InSession("faulty", Faulty!Next /\ starts' <= 2)
    \/ InSession("steady", Steady!Next /\ starts' <= 2)
    \/ InDoors(Door!Next)
    \/ InRelay(Relay!Next)
    \/ Over
MCSpec == MCInit /\ [][MCNext]_all

(* The recorders' door is open when it is wanted, the viewers' one serves   *)
(* the session that is published.                                           *)
DoorsServe == Door!WantedIsOpen /\ Door!PublishedDoorServes

RepliesMatch == Relay!RepliesMatch
=============================================================================
