----------------------------- MODULE FrontDoor -----------------------------
(***************************************************************************)
(* The RTSP listeners of one camera (frigate_endpoint.py,                  *)
(* viewing_front_door.py, remote_viewing_front_door.py): the door of the   *)
(* external recorders, bound while a High or Low switch is on, and the two *)
(* viewing doors, one for each kind of session, that keep the published    *)
(* URL the same while sessions come and go.                                *)
(*                                                                         *)
(* An action is what the event loop runs between two awaits.  A listener   *)
(* is bound in one await and registered after it.  The session is what the *)
(* doors see of it (module LiveSession has the rest): its kind, a number   *)
(* that grows when it is replaced, and the stream lock.  There is no       *)
(* clock: a linger ends at any moment.  Left out: ports, URLs, the IP and  *)
(* secret gates (a refused client leaves), the bytes relayed (module       *)
(* RtspRelay), go2rtc's restream of a local-data camera.                   *)
(***************************************************************************)
EXTENDS Integers, FiniteSets

CONSTANTS
    Clients,        \* external recorders
    MaxDoors,       \* bound: listeners
    MaxCount,       \* frigate_max_connections
    MaxSessions,    \* bound: sessions opened and torn down
    MaxToggles,     \* bound: switch calls
    MaxRefusals     \* bound: binds that fail

Bounds ==
    MaxDoors \in Nat /\ MaxCount \in Nat \ {0} /\ MaxSessions \in Nat /\ MaxToggles \in Nat /\ MaxRefusals \in Nat

Doors == 1..MaxDoors
Qualities == {"high", "low"}
Kinds == {"frigate", "local", "remote"}
NoDoor == 0
Viewer == "viewer"

VARIABLES
    want,           \* frigate_high_enabled, frigate_low_enabled
    call,           \* async_sync_frigate_endpoint of each switch: its door and try
    runner,         \* the registered listener of each FrontDoorRunner
    kind, up,       \* each listener
    count,          \* client_count of each
    linger,         \* listeners with an idle task that sleeps
    cst, via, inner,\* each recorder: its state, its listener, the session it is relayed to
    sess, gen,      \* _connection_type or none, generation
    lock,           \* the stream lock: free, or what its holder does
    opener,         \* who opens: the viewer or a recorder's resolve
    viewTry,        \* the viewing listener being bound: door and try
    pub,            \* what stream_source gives: none, raw, door
    sweep,          \* the task of _frigate_on_idle
    loaded,
    toggles, refusals,
    gaveUp          \* ghost: a bind was given up since a door was last registered

noCall == [door |-> NoDoor, try |-> 0]
switches == <<want, call>>
doorVars == <<runner, kind, up, count, linger>>
clientVars == <<cst, via, inner>>
sessionVars == <<sess, gen, lock, opener, viewTry, pub>>
vars == <<switches, doorVars, clientVars, sessionVars, sweep, loaded, toggles, refusals, gaveUp>>

Init ==
    /\ want = [q \in Qualities |-> FALSE]
    /\ call = [q \in Qualities |-> noCall]
    /\ runner = [k \in Kinds |-> NoDoor]
    /\ kind = [d \in Doors |-> "frigate"] /\ up = [d \in Doors |-> "none"]
    /\ count = [d \in Doors |-> 0] /\ linger = {}
    /\ cst = [c \in Clients |-> "away"] /\ via = [c \in Clients |-> NoDoor]
    /\ inner = [c \in Clients |-> 0]
    /\ sess = "none" /\ gen = 0 /\ lock = "free" /\ opener = Viewer
    /\ viewTry = noCall /\ pub = "none"
    /\ sweep = [pc |-> "none", gen |-> 0]
    /\ loaded = TRUE /\ toggles = 0 /\ refusals = 0 /\ gaveUp = FALSE

-----------------------------------------------------------------------------
(* FrontDoorRunner.                                                        *)

_frigate_wanted == want["high"] \/ want["low"]

\* A listener is created: its place is free.
Fresh(d) == up[d] = "none" /\ \A e \in Doors : up[e] = "none" => d <= e

\* close stops accepting and cancels the linger; clients stay connected,
\* and the listener is gone with the last of them.
Closed(d, ups) ==
    IF d = NoDoor THEN ups ELSE [ups EXCEPT ![d] = IF count[d] = 0 THEN "none" ELSE "closed"]

\* start_server closes what is registered, then binds.
start_server(k, d) ==
    /\ Fresh(d)
    /\ runner' = [runner EXCEPT ![k] = NoDoor]
    /\ up' = [Closed(runner[k], up) EXCEPT ![d] = "binding"]
    /\ kind' = [kind EXCEPT ![d] = k]
    /\ linger' = linger \ {runner[k]}
    /\ UNCHANGED count

\* What is registered last is what the runner knows.
Registers(k, d) ==
    /\ runner' = [runner EXCEPT ![k] = d]
    /\ up' = [up EXCEPT ![d] = "open"]
    /\ UNCHANGED <<kind, count, linger>>

\* The retry on any free port goes through start_server again.
Rebinds(k, d) ==
    /\ runner' = [runner EXCEPT ![k] = NoDoor]
    /\ up' = Closed(runner[k], up)
    /\ linger' = linger \ {runner[k]}
    /\ UNCHANGED <<kind, count>>

GivesUp(d) == up' = [up EXCEPT ![d] = "none"] /\ UNCHANGED <<runner, kind, count, linger>>

stop_server(k) ==
    /\ runner' = [runner EXCEPT ![k] = NoDoor]
    /\ up' = Closed(runner[k], up)
    /\ linger' = linger \ {runner[k]}
    /\ UNCHANGED <<kind, count>>

-----------------------------------------------------------------------------
(* The High and Low switches, and the end of the entry.                    *)

\* Mutant: a switch that goes off closes the door the other still wants.
SyncsOwnSwitch(q, on) ==
    /\ loaded /\ call[q] = noCall /\ toggles < MaxToggles
    /\ toggles' = toggles + 1
    /\ want' = [want EXCEPT ![q] = on]
    /\ IF on
       THEN \E d \in Doors : start_server("frigate", d) /\ call' = [call EXCEPT ![q] = [door |-> d, try |-> 1]]
       ELSE stop_server("frigate") /\ UNCHANGED call
    /\ UNCHANGED <<clientVars, sessionVars, sweep, loaded, refusals, gaveUp>>

async_sync_frigate_endpoint(q, on) ==
    /\ loaded /\ call[q] = noCall /\ toggles < MaxToggles
    /\ toggles' = toggles + 1
    /\ want' = [want EXCEPT ![q] = on]
    /\ IF on \/ \E r \in Qualities \ {q} : want[r]
       THEN \E d \in Doors : start_server("frigate", d) /\ call' = [call EXCEPT ![q] = [door |-> d, try |-> 1]]
       ELSE stop_server("frigate") /\ UNCHANGED call
    /\ UNCHANGED <<clientVars, sessionVars, sweep, loaded, refusals, gaveUp>>

Bound(q) ==
    /\ call[q] # noCall
    /\ Registers("frigate", call[q].door)
    /\ call' = [call EXCEPT ![q] = noCall]
    /\ gaveUp' = FALSE
    /\ UNCHANGED <<want, clientVars, sessionVars, sweep, loaded, toggles, refusals>>

BindFails(q) ==
    /\ call[q] # noCall /\ refusals < MaxRefusals
    /\ refusals' = refusals + 1
    /\ IF call[q].try = 1
       THEN /\ Rebinds("frigate", call[q].door)
            /\ call' = [call EXCEPT ![q].try = 2] /\ UNCHANGED gaveUp
       ELSE /\ GivesUp(call[q].door)
            /\ call' = [call EXCEPT ![q] = noCall] /\ gaveUp' = TRUE
    /\ UNCHANGED <<want, clientVars, sessionVars, sweep, loaded, toggles>>

\* async_unload_entry: the session first, then every runner.
Unload ==
    /\ loaded /\ lock = "free"
    /\ loaded' = FALSE
    /\ runner' = [k \in Kinds |-> NoDoor]
    /\ up' = Closed(runner["frigate"], Closed(runner["local"], Closed(runner["remote"], up)))
    /\ linger' = {d \in linger : \A k \in Kinds : runner[k] # d}
    /\ sess' = "none" /\ gen' = gen + 1 /\ pub' = "none"
    /\ UNCHANGED <<switches, kind, count, clientVars, lock, opener, viewTry, sweep, toggles, refusals, gaveUp>>

-----------------------------------------------------------------------------
(* A recorder at the door.                                                 *)

\* _handle: the connection cap, then the count; activity ends the linger.
_handle(c, d) ==
    /\ cst[c] = "away" /\ up[d] = "open" /\ kind[d] = "frigate"
    /\ count[d] < MaxCount
    /\ cst' = [cst EXCEPT ![c] = "reading"] /\ via' = [via EXCEPT ![c] = d]
    /\ count' = [count EXCEPT ![d] = @ + 1]
    /\ linger' = linger \ {d}
    /\ UNCHANGED <<switches, runner, kind, up, inner, sessionVars, sweep, loaded, toggles, refusals, gaveUp>>

\* The end of _handle: the last client out starts the linger.
Leaves(c) ==
    /\ cst' = [cst EXCEPT ![c] = "away"] /\ via' = [via EXCEPT ![c] = NoDoor]
    /\ inner' = [inner EXCEPT ![c] = 0]
    /\ count' = [count EXCEPT ![via[c]] = @ - 1]
    /\ linger' = IF count[via[c]] = 1 THEN linger \cup {via[c]} ELSE linger
    /\ UNCHANGED <<runner, kind, up>>

\* Refused at a gate, hung up, dropped by the camera, out of time.
Disconnects(c) ==
    /\ cst[c] \in {"reading", "relaying"}
    /\ Leaves(c)
    /\ UNCHANGED <<switches, sessionVars, sweep, loaded, toggles, refusals, gaveUp>>

_Relay(c) == cst' = [cst EXCEPT ![c] = "relaying"] /\ inner' = [inner EXCEPT ![c] = gen]

\* A LOCAL session is used as it is; otherwise one is opened, unless the
\* lock is held: then there is no target and the client gets a 503.
_frigate_resolve_inner(c) ==
    /\ cst[c] = "reading"
    /\ \/ /\ sess = "local" /\ _Relay(c)
          /\ UNCHANGED <<via, doorVars, lock, opener>>
       \/ /\ sess # "local" /\ lock # "free" /\ Leaves(c)
          /\ UNCHANGED <<lock, opener>>
       \/ /\ sess # "local" /\ lock = "free" /\ loaded /\ gen < MaxSessions
          /\ lock' = "opening" /\ opener' = c
          /\ cst' = [cst EXCEPT ![c] = "resolving"]
          /\ UNCHANGED <<via, inner, doorVars>>
    /\ UNCHANGED <<switches, sess, gen, viewTry, pub, sweep, loaded, toggles, refusals, gaveUp>>

\* resolve_inner goes on where try_live_connection returned.
Resolved(c) ==
    /\ cst[c] = "resolving" /\ ~(lock # "free" /\ opener = c)
    /\ IF sess = "local" THEN _Relay(c) /\ UNCHANGED <<via, doorVars>> ELSE Leaves(c)
    /\ UNCHANGED <<switches, sessionVars, sweep, loaded, toggles, refusals, gaveUp>>

\* _idle_linger, then _frigate_on_idle's task: the recorders it knows of
\* are those of the registered listener.
_idle_linger(d) ==
    /\ d \in linger /\ linger' = linger \ {d}
    /\ up' = IF up[d] = "closed" THEN [up EXCEPT ![d] = "none"] ELSE up
    /\ IF /\ count[d] = 0 /\ sweep.pc = "none" /\ sess # "none"
          /\ (runner["frigate"] = NoDoor \/ count[runner["frigate"]] = 0)
       THEN sweep' = [pc |-> "asking", gen |-> 0] ELSE UNCHANGED sweep
    /\ UNCHANGED <<switches, runner, kind, count, clientVars, sessionVars, loaded, toggles, refusals, gaveUp>>

\* go2rtc answers: with a viewer there, or on doubt, the session stays.
_maybe_teardown ==
    /\ sweep.pc = "asking"
    /\ \/ sweep' = [pc |-> "none", gen |-> 0]
       \/ sess = "local" /\ sweep' = [pc |-> "decided", gen |-> gen]
    /\ UNCHANGED <<switches, doorVars, clientVars, sessionVars, loaded, toggles, refusals, gaveUp>>

-----------------------------------------------------------------------------
(* The session, as far as the doors see it.                                *)

TornDown ==
    /\ sess' = "none" /\ gen' = gen + 1 /\ pub' = "none"
    /\ runner' = [runner EXCEPT !["local"] = NoDoor, !["remote"] = NoDoor]
    /\ up' = Closed(runner["local"], Closed(runner["remote"], up))

\* tear_down_live_stream, for the sweep only of the session it decided on.
tear_down_live_stream ==
    /\ lock = "free" /\ loaded
    /\ \/ sweep.pc = "decided" /\ sweep.gen = gen /\ TornDown /\ sweep' = [pc |-> "none", gen |-> 0]
       \/ /\ sweep.pc = "decided" /\ sweep.gen # gen /\ sweep' = [pc |-> "none", gen |-> 0]
          /\ UNCHANGED <<sess, gen, pub, runner, up>>
       \/ sess # "none" /\ gen < MaxSessions /\ TornDown /\ UNCHANGED sweep
    /\ UNCHANGED <<switches, kind, count, linger, clientVars, lock, opener, viewTry, loaded, toggles, refusals, gaveUp>>

\* A viewer opens, or a renewal replaces the session without a teardown.
try_live_connection ==
    /\ lock = "free" /\ loaded /\ gen < MaxSessions
    /\ lock' = "opening" /\ opener' = Viewer
    /\ UNCHANGED <<switches, doorVars, clientVars, sess, gen, viewTry, pub, sweep, loaded, toggles, refusals, gaveUp>>

\* A viewing door is kept for the next session of its kind.
start_viewing_front_door(k) == runner[k] # NoDoor

\* The camera or the cloud answers; a viewing door that is bound is used
\* again, else one is bound.
Opened(k) ==
    /\ lock = "opening" /\ k \in {"local", "remote"}
    /\ sess' = k /\ gen' = gen + 1
    /\ IF start_viewing_front_door(k)
       THEN /\ pub' = "door" /\ lock' = "free" /\ UNCHANGED <<doorVars, viewTry>>
       ELSE /\ \E d \in Doors : start_server(k, d) /\ viewTry' = [door |-> d, try |-> 1]
            /\ lock' = "binding" /\ UNCHANGED pub
    /\ UNCHANGED <<switches, clientVars, opener, sweep, loaded, toggles, refusals, gaveUp>>

OpenFails ==
    /\ lock = "opening" /\ lock' = "free"
    /\ UNCHANGED <<switches, doorVars, clientVars, sess, gen, opener, viewTry, pub, sweep, loaded, toggles, refusals, gaveUp>>

ViewBound ==
    /\ lock = "binding"
    /\ \/ /\ Registers(kind[viewTry.door], viewTry.door)
          /\ pub' = "door" /\ lock' = "free" /\ viewTry' = noCall /\ UNCHANGED refusals
       \/ /\ refusals < MaxRefusals /\ refusals' = refusals + 1
          /\ IF viewTry.try = 1
             THEN /\ Rebinds(kind[viewTry.door], viewTry.door)
                  /\ viewTry' = [viewTry EXCEPT !.try = 2] /\ UNCHANGED <<pub, lock>>
             ELSE /\ GivesUp(viewTry.door)
                  /\ pub' = "raw" /\ lock' = "free" /\ viewTry' = noCall
    /\ UNCHANGED <<switches, clientVars, sess, gen, opener, sweep, loaded, toggles, gaveUp>>

-----------------------------------------------------------------------------
Next ==
    \/ \E q \in Qualities : Bound(q) \/ BindFails(q) \/ \E on \in BOOLEAN : async_sync_frigate_endpoint(q, on)
    \/ Unload
    \/ \E c \in Clients : \/ Disconnects(c) \/ _frigate_resolve_inner(c) \/ Resolved(c)
                          \/ \E d \in Doors : _handle(c, d)
    \/ \E d \in Doors : _idle_linger(d)
    \/ _maybe_teardown \/ tear_down_live_stream \/ try_live_connection
    \/ \E k \in {"local", "remote"} : Opened(k)
    \/ OpenFails \/ ViewBound

Spec == Init /\ [][Next]_vars

-----------------------------------------------------------------------------
TypeOK ==
    /\ want \in [Qualities -> BOOLEAN]
    /\ call \in [Qualities -> [door : 0..MaxDoors, try : 0..2]]
    /\ runner \in [Kinds -> 0..MaxDoors]
    /\ kind \in [Doors -> Kinds] /\ up \in [Doors -> {"none", "binding", "open", "closed"}]
    /\ count \in [Doors -> 0..MaxCount] /\ linger \subseteq Doors
    /\ cst \in [Clients -> {"away", "reading", "resolving", "relaying"}]
    /\ via \in [Clients -> 0..MaxDoors] /\ inner \in [Clients -> Nat]
    /\ sess \in {"none", "local", "remote"} /\ gen \in Nat
    /\ lock \in {"free", "opening", "binding"}
    /\ pub \in {"none", "raw", "door"}
    /\ sweep.pc \in {"none", "asking", "decided"}
    /\ loaded \in BOOLEAN /\ gaveUp \in BOOLEAN

Settled == \A q \in Qualities : call[q] = noCall

\* When no switch call is at work, a camera whose High or Low switch is on
\* has its listener open and registered, in whatever order the two switches
\* were turned and their binds ended, unless a bind was given up.
\* (async_sync_frigate_endpoint, FrontDoorRunner.start_server)
WantedIsOpen ==
    Settled /\ _frigate_wanted /\ loaded /\ ~gaveUp =>
        runner["frigate"] # NoDoor /\ up[runner["frigate"]] = "open"

\* The published URL leads to an open door of the session's own kind, after
\* any number of promotions, renewals and teardowns.
\* (start_viewing_front_door, start_remote_viewing_front_door)
PublishedDoorServes ==
    lock = "free" /\ pub = "door" =>
        /\ sess \in {"local", "remote"} /\ runner[sess] # NoDoor
        /\ up[runner[sess]] = "open" /\ kind[runner[sess]] = sess

\* With both switches off, or the entry unloaded, and no switch call at work,
\* no recorder listener is open.  ("Start or stop the front-door for a camera
\* per current switch state", frigate_endpoint.py:1177)
ListenersFollowSwitches ==
    Settled /\ ~(_frigate_wanted /\ loaded) =>
        \A d \in Doors : kind[d] = "frigate" => up[d] # "open"

\* The idle sweep never takes the session from under a recorder that is
\* being served.  ("An external recorder connected to the persistent
\* front-door is a real consumer the reaper must not tear down",
\* stream_lifecycle.py:544)
SweepSparesRecorders ==
    [][sweep.pc = "decided" /\ sess # "none" /\ sess' = "none" /\ loaded' /\ sweep'.pc = "none" =>
           \A c \in Clients : ~(cst[c] = "relaying" /\ inner[c] = gen)]_vars
=============================================================================
