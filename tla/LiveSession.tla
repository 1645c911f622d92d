----------------------------- MODULE LiveSession -----------------------------
(***************************************************************************)
(* The live-stream session of one camera: what the asyncio tasks of the    *)
(* integration do to coordinator.live_connections[cam], the TLS proxy and  *)
(* the session generation.  Builds (live_connection.py) and teardowns      *)
(* (stream_lifecycle.py) run under the camera's stream lock; the switch,   *)
(* the cards, the keepalive, the health watchdog, the stream-worker        *)
(* listener, the proxy's circuit breaker and the status loop ask for them. *)
(*                                                                         *)
(* An action is what the event loop runs between two awaits.  Every sleep  *)
(* may end at any moment, so the model has no clock.  A session carries    *)
(* its type, whether its URL is published, and the generation it was       *)
(* completed under (a ghost; 0 while it is being built).                   *)
(*                                                                         *)
(* Left out: credential rotation by the heartbeat, the recorder, the       *)
(* front doors, the local-data-interface path, session_stale.              *)
(***************************************************************************)
EXTENDS Integers, Sequences, FiniteSets

CONSTANTS
    Enabled,        \* which of the optional tasks below exist in this run
    Pref,           \* stream_connection_type
    Healths,        \* what the watchdog may find at a tick
    MaxErrors,      \* CameraModelConfig.max_stream_errors
    MaxStarts,      \* bound: calls of try_live_connection that reach the lock
    MayRaise,       \* whether the proxy start and the warm-up may raise (OSError)
    SlowSchemes     \* whether _ensure_go2rtc_schemes_fresh may really wait

None == "none"
NoTask == <<None, 0>>

\* The tasks: one of each name, a keepalive or terminator per generation, and
\* the guarded teardown the terminator or the reaper of a generation schedules.
Keepers == {"keeper"} \X (1..MaxStarts)
Reaps   == {"reap"} \X (1..MaxStarts)
TurnOn        == <<"turn_on", 0>>
TurnOff       == <<"turn_off", 0>>
AutoOpen      == <<"auto_open", 0>>
Snapshot      == <<"snapshot", 0>>
PrivacySwitch == <<"privacy_switch", 0>>
PrivacySeen   == <<"privacy_seen", 0>>
Watchdog      == <<"watchdog", 0>>
Worker        == <<"worker", 0>>
Died          == <<"died", 0>>
Promote       == <<"promote", 0>>
Tasks == Keepers \cup Reaps \cup
         {TurnOn, TurnOff, AutoOpen, Snapshot, PrivacySwitch, PrivacySeen,
          Watchdog, Worker, Died, Promote}

OptionalTasks == {"turn_on", "turn_off", "auto_open", "snapshot", "privacy",
                  "watchdog", "worker", "died", "promote", "renewal", "reaper"}

ASSUME LiveSessionAssumption ==
    /\ Enabled \subseteq OptionalTasks
    /\ Pref \in {"local", "auto", "remote"}
    /\ Healths \subseteq {"healthy", "unhealthy", "webrtc_only", "no_consumer"}
    /\ MaxErrors \in Nat \ {0}
    /\ MaxStarts \in Nat
    /\ MayRaise \in BOOLEAN
    /\ SlowSchemes \in BOOLEAN

Renewal(t) == t \in Keepers \cup {Promote}            \* is_renewal=True
Forced(t) == t \in {Worker, Died}                     \* force_reset=True
Teardown(t) == t \in Reaps \cup {TurnOff, PrivacySwitch, PrivacySeen}

NoLive == [type |-> None, url |-> FALSE, gen |-> 0]
NoBuild == [step |-> None, todo |-> <<>>, remote |-> FALSE]

VARIABLES
    live,           \* live_connections[cam], NoLive when absent
    proxyUp,        \* the camera's TLS proxy is listening
    warming,        \* cam in stream_warming
    intent,         \* cam in user_intent_streams: the switch reads on
    lastAsk,        \* ghost: the last thing a user or consumer asked for
    privacy,        \* the shutter is closed, and shc_state_cache says so
    errCount,       \* stream_error_count, saturating at MaxErrors
    fellBack,       \* stream_fell_back
    rescued,        \* local_rescue_attempts >= 1
    gen,            \* CameraSessionState.generation
    kind,           \* what task a completed build started, by generation
    registered,     \* the generation of the task in renewal_tasks, 0 if none
    cancelled,      \* the keepers cancel() was called on
    pc,             \* where each task is
    owner,          \* holder of the stream lock
    waiters,        \* its FIFO of waiting tasks
    build,          \* the holder's progress through its candidates
    tries,          \* the worker's rescue_try, 0 outside a rescue
    tick,           \* ticks the watchdog has fired
    watched,        \* its watched_generation
    sawConsumer,    \* its had_webrtc_only_consumer
    rebuiltOnce,    \* tls_proxy_rebuild_last is set
    starts          \* builds asked for so far (bound)

userVars == <<intent, lastAsk, privacy>>
healthVars == <<errCount, fellBack, rescued>>
keeperVars == <<gen, kind, registered, cancelled>>
lockVars == <<owner, waiters, build>>
watchVars == <<tick, watched, sawConsumer>>
vars == <<live, proxyUp, warming, userVars, healthVars, keeperVars, pc,
          lockVars, tries, watchVars, rebuiltOnce, starts>>

Free == owner = NoTask /\ waiters = <<>>

Init ==
    /\ live = NoLive
    /\ proxyUp = FALSE
    /\ warming = FALSE
    /\ intent = FALSE
    /\ lastAsk = "off"
    /\ privacy = FALSE
    /\ errCount = 0
    /\ fellBack = FALSE
    /\ rescued = FALSE
    /\ gen = 0
    /\ kind = [g \in 1..MaxStarts |-> None]
    /\ registered = 0
    /\ cancelled = {}
    /\ pc = [t \in Tasks |-> "idle"]
    /\ owner = NoTask
    /\ waiters = <<>>
    /\ build = NoBuild
    /\ tries = 0
    /\ tick = 0
    /\ watched = 0
    /\ sawConsumer = FALSE
    /\ rebuiltOnce = FALSE
    /\ starts = 0

-----------------------------------------------------------------------------
\* ------------------------------------------------- asking for the stream lock

Opportunistic(t) == ~Renewal(t) /\ ~Forced(t)
Bump(n) == IF n < MaxErrors THEN n + 1 ELSE MaxErrors
LocalActive == live.type = "LOCAL"

\* Mutant: the keepalive ends with a renewal that failed.
AfterKeeperGivesUp(t, r, n) ==
    CASE t \in Keepers -> "done"
      [] t = Watchdog /\ tick < 2 /\ r \in {"LOCAL", None} -> "sleep"
      [] t = Worker /\ r = None /\ n \in {1, 2} -> "retry"
      [] OTHER -> "idle"

\* Where task t goes on once try_live_connection has given it a session of type
\* r, or None (STREAM_START_SKIPPED is as falsy as None).  n is rescue_try.
After(t, r, n) ==
    CASE t \in Keepers -> "sleep"
      [] t = Watchdog /\ tick < 2 /\ r \in {"LOCAL", None} -> "sleep"
      [] t = Worker /\ r = None /\ n \in {1, 2} -> "retry"
      [] OTHER -> "idle"

Wait(t) ==
    /\ waiters' = Append(waiters, t)
    /\ pc' = [pc EXCEPT ![t] = "queued"]

\* try_live_connection_inner up to its first await; l is the session t leaves.
EnterBuild(t, l) ==
    /\ owner' = t
    /\ build' = [NoBuild EXCEPT !.step = "begin"]
    /\ pc' = [pc EXCEPT ![t] = "holding"]
    /\ live' = IF Forced(t) THEN NoLive ELSE l
    /\ warming' = (warming /\ ~Forced(t))

AskBuild(t, l) ==
    \/ Free /\ EnterBuild(t, l) /\ UNCHANGED waiters
    \/ ~Free /\ Wait(t) /\ live' = l /\ UNCHANGED <<owner, build, warming>>

\* Privacy, or an opportunistic start that finds the lock held.
Declined(t) == privacy \/ (Opportunistic(t) /\ owner # NoTask)

Call(t, l, n) ==
    \/ /\ Declined(t)
       /\ pc' = [pc EXCEPT ![t] = After(t, None, n)]
       /\ live' = l
       /\ UNCHANGED <<warming, lockVars, starts>>
    \/ /\ ~Declined(t)
       /\ starts < MaxStarts
       /\ starts' = starts + 1
       /\ \/ (Renewal(t) \/ ~SlowSchemes) /\ AskBuild(t, l)
          \/ /\ ~Renewal(t) /\ SlowSchemes
             /\ pc' = [pc EXCEPT ![t] = "schemes"]
             /\ live' = l
             /\ UNCHANGED <<warming, lockVars>>

\* The go2rtc schemes are fresh; nothing is looked at again before the lock.
SchemesFresh(t) ==
    /\ pc[t] = "schemes"
    /\ AskBuild(t, live)
    /\ UNCHANGED <<proxyUp, userVars, healthVars, keeperVars, tries, watchVars,
                   rebuiltOnce, starts>>

\* Mutant: a guarded teardown trusts the check its task made.
StaleIgnored(t) == FALSE

Stale(t) == t \in Reaps /\ gen # t[2]

\* replace_renewal_task, tear_down_live_stream: cancel what is in renewal_tasks.
CancelRegistered == cancelled' = cancelled \cup ({registered} \ {0})

\* tear_down_live_stream up to its first await: the generation is checked again
\* under the lock, then all visible state is cleared.
EnterTeardown(t) ==
    \/ /\ Stale(t)
       /\ owner' = NoTask
       /\ pc' = [pc EXCEPT ![t] = "done"]
       /\ UNCHANGED <<live, warming, intent, healthVars, keeperVars, build>>
    \/ /\ ~Stale(t)
       /\ owner' = t
       /\ pc' = [x \in Tasks |-> IF x = t THEN "holding"
                                 ELSE IF pc[x] = "deciding" THEN "done" ELSE pc[x]]
       /\ CancelRegistered
       /\ registered' = 0
       /\ intent' = FALSE
       /\ live' = NoLive
       /\ warming' = FALSE
       /\ errCount' = 0 /\ fellBack' = FALSE /\ rescued' = FALSE
       /\ UNCHANGED <<gen, kind, build>>

\* i is the switch's intent as t leaves it.
AskTeardown(t, i) ==
    \/ Free /\ EnterTeardown(t) /\ UNCHANGED waiters
    \/ /\ ~Free
       /\ Wait(t)
       /\ intent' = i
       /\ UNCHANGED <<live, warming, healthVars, keeperVars, owner, build>>

\* A release wakes the first waiter, which runs in a later loop iteration: in
\* between the lock is not locked() but cannot be taken by anyone else.  A waiter
\* that was cancelled never gets it.
Acquire(t) ==
    /\ owner = NoTask /\ waiters # <<>> /\ t = Head(waiters)
    /\ t \in Keepers => t[2] \notin cancelled
    /\ waiters' = Tail(waiters)
    /\ IF Teardown(t) THEN EnterTeardown(t)
       ELSE /\ EnterBuild(t, live)
            /\ UNCHANGED <<intent, healthVars, keeperVars>>
    /\ UNCHANGED <<proxyUp, lastAsk, privacy, tries, watchVars, rebuiltOnce, starts>>

\* Mutant: the teardown never releases the lock.
TeardownEndsLocked(t) ==
    /\ owner = t /\ Teardown(t)
    /\ owner' = IF t \in Reaps THEN owner ELSE NoTask
    /\ proxyUp' = FALSE
    /\ pc' = [pc EXCEPT ![t] = IF t \in Reaps THEN "done" ELSE "idle"]
    /\ UNCHANGED <<live, warming, userVars, healthVars, keeperVars, waiters, build,
                   tries, watchVars, rebuiltOnce, starts>>

\* The rest of tear_down_live_stream: recorder, proxy, go2rtc, stream.stop().
TeardownEnds(t) ==
    /\ owner = t /\ Teardown(t)
    /\ owner' = NoTask
    /\ proxyUp' = FALSE
    /\ pc' = [pc EXCEPT ![t] = CASE t = PrivacySwitch -> "writing"
                                 [] t \in Reaps -> "done"
                                 [] OTHER -> "idle"]
    /\ UNCHANGED <<live, warming, userVars, healthVars, keeperVars, waiters, build,
                   tries, watchVars, rebuiltOnce, starts>>

-----------------------------------------------------------------------------
\* ------------------------------------ a build: try_live_connection_inner's loop

Building(s) == owner # NoTask /\ build.step = s
Candidate == Head(build.todo)
buildFrame == <<lastAsk, privacy, keeperVars, tries, watchVars, rebuiltOnce, starts>>

Goes(s) == build' = [build EXCEPT !.step = s] /\ UNCHANGED <<owner, waiters, pc>>

\* The candidate list: the preference, the decayed error counter, the Wi-Fi
\* signal and the TCP pre-check.
ChooseCandidates ==
    /\ Building("begin")
    /\ proxyUp' = (proxyUp /\ ~Forced(owner))
    /\ \E e \in {0, errCount}, c \in {<<"LOCAL">>, <<"REMOTE">>, <<"LOCAL", "REMOTE">>,
                                     <<"REMOTE", "LOCAL">>} :
         /\ CASE Pref = "local"  -> c = <<"LOCAL">> /\ e = errCount
              [] Pref = "remote" -> c = <<"REMOTE">> /\ e = errCount
              [] OTHER -> IF e >= MaxErrors THEN c = <<"REMOTE">> ELSE c # <<"LOCAL">>
         /\ errCount' = e
         /\ fellBack' = IF Pref = "auto" THEN c = <<"REMOTE">> ELSE fellBack
         /\ build' = [step |-> "put", todo |-> c, remote |-> c # <<"LOCAL">>]
    /\ UNCHANGED <<live, warming, intent, rescued, owner, waiters, pc, buildFrame>>

\* Mutant: a renewal that fails keeps the lock.
BuildFailsLocked ==
    /\ owner' = IF Renewal(owner) THEN owner ELSE NoTask
    /\ build' = NoBuild
    /\ pc' = [pc EXCEPT ![owner] = After(owner, None, tries)]
    /\ intent' = (intent /\ owner # TurnOn)
    /\ errCount' = IF owner = TurnOn /\ LocalActive THEN Bump(errCount) ELSE errCount
    /\ live' \in IF owner = Snapshot THEN {live, NoLive} ELSE {live}
    /\ UNCHANGED waiters

\* No candidate is left: the call returns None, the lock is released and the
\* caller runs on.
BuildFails ==
    /\ owner' = NoTask
    /\ build' = NoBuild
    /\ pc' = [pc EXCEPT ![owner] = After(owner, None, tries)]
    /\ intent' = (intent /\ owner # TurnOn)
    /\ errCount' = IF owner = TurnOn /\ LocalActive THEN Bump(errCount) ELSE errCount
    /\ live' \in IF owner = Snapshot THEN {live, NoLive} ELSE {live}
    /\ UNCHANGED waiters

NextCandidate ==
    \/ /\ Len(build.todo) > 1
       /\ build' = [build EXCEPT !.step = "put", !.todo = Tail(@)]
       /\ UNCHANGED <<owner, waiters, pc, live, intent, errCount>>
    \/ Len(build.todo) <= 1 /\ BuildFails

\* The camera answers PUT /connection, unless its shutter is closed.
PutAccepted ==
    /\ Building("put") /\ ~privacy
    /\ Goes("proxy")
    /\ UNCHANGED <<live, proxyUp, warming, intent, healthVars, buildFrame>>

PutRefused ==
    /\ Building("put")
    /\ NextCandidate
    /\ UNCHANGED <<proxyUp, warming, fellBack, rescued, buildFrame>>

\* start_tls_proxy returned; the entry is published, for LOCAL without its URL.
ProxyStarts ==
    /\ Building("proxy")
    /\ proxyUp' = TRUE
    /\ live' = [type |-> Candidate, url |-> Candidate = "REMOTE", gen |-> 0]
    /\ warming' = (warming \/ Candidate = "LOCAL")
    /\ Goes(IF Candidate = "LOCAL" THEN "stale" ELSE "finish")
    /\ UNCHANGED <<intent, healthVars, buildFrame>>

\* It raised: REMOTE goes on with the direct rtsps URL and no _connection_type,
\* LOCAL ends in the except clause, with nothing published.
ProxyRaises ==
    /\ Building("proxy") /\ MayRaise
    /\ \/ /\ Candidate = "REMOTE"
          /\ live' = [type |-> "DIRECT", url |-> TRUE, gen |-> 0]
          /\ Goes("finish")
          /\ UNCHANGED warming
       \/ /\ Candidate = "LOCAL"
          /\ warming' = FALSE
          /\ Goes("cleanup")
          /\ UNCHANGED live
    /\ proxyUp' \in {proxyUp, FALSE}
    /\ UNCHANGED <<intent, healthVars, buildFrame>>

\* Mutants: the fall-through forgets the warming flag, or the LOCAL entry.
PrewarmFailedStillWarming ==
    /\ UNCHANGED warming
    /\ IF build.remote THEN live' = NoLive /\ Goes("fallback")
                       ELSE Goes("door") /\ UNCHANGED live

\* Warm-up failed: fall through to REMOTE if it is a candidate, else publish the
\* URL all the same.
PrewarmFailed ==
    /\ warming' = FALSE
    /\ IF build.remote THEN live' = NoLive /\ Goes("fallback")
                       ELSE Goes("door") /\ UNCHANGED live

\* stale.stop() ended; without a proxy port there is nothing to warm up.
StaleStopped ==
    /\ Building("stale")
    /\ \/ proxyUp /\ Goes("prewarm") /\ UNCHANGED <<live, warming>>
       \/ ~proxyUp /\ PrewarmFailed
    /\ UNCHANGED <<proxyUp, intent, healthVars, buildFrame>>

Prewarmed ==
    /\ Building("prewarm")
    /\ \/ ~privacy /\ Goes("door") /\ UNCHANGED <<live, warming>>
       \/ PrewarmFailed
    /\ UNCHANGED <<proxyUp, intent, healthVars, buildFrame>>

\* The except clause with a published entry that has no URL.
WarmupRaises ==
    /\ MayRaise
    /\ Building("prewarm") \/ Building("door")
    /\ live' = NoLive
    /\ warming' = FALSE
    /\ Goes("cleanup")
    /\ UNCHANGED <<proxyUp, intent, healthVars, buildFrame>>

\* The minimum wait is over and the front door is bound: publish the URL.
PublishUrl ==
    /\ Building("door")
    /\ live' = [type |-> "LOCAL", url |-> TRUE, gen |-> 0]
    /\ warming' = FALSE
    /\ Goes("finish")
    /\ UNCHANGED <<proxyUp, intent, healthVars, buildFrame>>

\* stop_tls_proxy of a candidate that came to nothing.
CandidateCleaned ==
    /\ Building("cleanup") \/ Building("fallback")
    /\ proxyUp' = FALSE
    /\ fellBack' = (fellBack \/ build.step = "fallback")
    /\ NextCandidate
    /\ UNCHANGED <<warming, rescued, buildFrame>>

\* The providers are refreshed: new generation, new keepalive or terminator, and
\* the caller has its session.
BuildSucceeds ==
    /\ Building("finish")
    /\ LET g == gen + 1
           watch == owner = TurnOn /\ Candidate = "LOCAL" /\ "watchdog" \in Enabled
       IN  /\ gen' = g
           /\ kind' = [kind EXCEPT ![g] = Candidate]
           /\ live' = IF live = NoLive THEN live ELSE [live EXCEPT !.gen = g]
           /\ CancelRegistered
           /\ registered' = g
           /\ pc' = [x \in Tasks |->
                       CASE x = owner -> After(x, Candidate, tries)
                         [] x = <<"keeper", g>> -> "sleep"
                         [] x = Watchdog /\ watch -> "sleep"
                         [] pc[x] = "deciding" /\ Candidate = "LOCAL" -> "done"
                         [] OTHER -> pc[x]]
           /\ IF watch THEN tick' = 0 /\ watched' = g /\ sawConsumer' = FALSE
                       ELSE UNCHANGED watchVars
    /\ owner' = NoTask
    /\ build' = NoBuild
    /\ UNCHANGED <<proxyUp, warming, userVars, healthVars, waiters, tries,
                   rebuiltOnce, starts>>

-----------------------------------------------------------------------------
\* ---------------------------------------------------- the switch and the cards

taskFrame == <<proxyUp, healthVars, keeperVars, tries, watchVars, rebuiltOnce>>

\* async_turn_on.  (Bound: one health watchdog at a time.)
SwitchOn ==
    /\ "turn_on" \in Enabled /\ pc[TurnOn] = "idle" /\ pc[Watchdog] = "idle"
    /\ ~privacy
    /\ intent' = TRUE
    /\ lastAsk' = "on"
    /\ Call(TurnOn, live, tries)
    /\ UNCHANGED <<privacy, taskFrame>>

\* async_turn_off: the intent goes first, the teardown waits for the lock.
SwitchOff ==
    /\ "turn_off" \in Enabled /\ pc[TurnOff] = "idle"
    /\ lastAsk' = "off"
    /\ AskTeardown(TurnOff, FALSE)
    /\ UNCHANGED <<proxyUp, privacy, tries, watchVars, rebuiltOnce, starts>>

\* A card, a Cast or play_stream opens the session of a camera that has none.
CardOpens ==
    /\ "auto_open" \in Enabled /\ pc[AutoOpen] = "idle"
    /\ live = NoLive /\ ~privacy
    /\ lastAsk' = "on"
    /\ Call(AutoOpen, live, tries)
    /\ UNCHANGED <<intent, privacy, taskFrame>>

\* A snapshot through an expired session renews it as an opportunistic start;
\* a call that privacy refuses may end in dropping the entry.
SnapshotRenews ==
    /\ "snapshot" \in Enabled /\ pc[Snapshot] = "idle"
    /\ live # NoLive
    /\ \E l \in IF privacy THEN {live, NoLive} ELSE {live} : Call(Snapshot, l, tries)
    /\ lastAsk' = IF privacy THEN lastAsk ELSE "on"
    /\ UNCHANGED <<intent, privacy, taskFrame>>

-----------------------------------------------------------------------------
\* ------------------------------------------------------------------- privacy

\* is_stream_warming drops a flag that no warm-up stands behind any more.  (Its
\* hard timeout of five minutes is longer than any build.)
StaleWarmingCleared ==
    /\ warming /\ (live = NoLive \/ live.url)
    /\ warming' = FALSE
    /\ UNCHANGED <<live, userVars, pc, lockVars, starts, taskFrame>>

\* _apply_privacy(True): the teardown only if a session is there to tear down.
PrivacyOnRequested ==
    /\ "privacy" \in Enabled /\ pc[PrivacySwitch] = "idle"
    /\ ~privacy /\ ~warming
    /\ lastAsk' = "off"
    /\ IF live # NoLive THEN AskTeardown(PrivacySwitch, intent)
       ELSE /\ pc' = [pc EXCEPT ![PrivacySwitch] = "writing"]
            /\ UNCHANGED <<live, warming, intent, healthVars, keeperVars, lockVars>>
    /\ UNCHANGED <<proxyUp, privacy, tries, watchVars, rebuiltOnce, starts>>

\* async_cloud_set_privacy_mode succeeded, or failed on every path.
PrivacyWritten ==
    /\ pc[PrivacySwitch] = "writing"
    /\ privacy' \in {TRUE, privacy}
    /\ pc' = [pc EXCEPT ![PrivacySwitch] = "idle"]
    /\ UNCHANGED <<live, warming, intent, lastAsk, lockVars, starts, taskFrame>>

\* The slow tier learns that the shutter was closed elsewhere.
PrivacyDetected ==
    /\ "privacy" \in Enabled /\ pc[PrivacySeen] = "idle"
    /\ ~privacy
    /\ privacy' = TRUE
    /\ lastAsk' = "off"
    /\ IF live # NoLive THEN AskTeardown(PrivacySeen, intent)
       ELSE UNCHANGED <<live, warming, intent, healthVars, keeperVars, pc, lockVars>>
    /\ UNCHANGED <<proxyUp, tries, watchVars, rebuiltOnce, starts>>

PrivacyOff ==
    /\ "privacy" \in Enabled
    /\ privacy /\ privacy' = FALSE
    /\ UNCHANGED <<live, warming, intent, lastAsk, pc, lockVars, starts, taskFrame>>

-----------------------------------------------------------------------------
\* ----------------------------------- keepalive, terminator, reaper, promotion

Keeper(g) == <<"keeper", g>>
Asleep(g) == pc[Keeper(g)] = "sleep" /\ g \notin cancelled

\* The finally clause: whatever task is in renewal_tasks is dropped from it.
KeeperEnds(g) ==
    /\ pc' = [pc EXCEPT ![Keeper(g)] = "done"]
    /\ registered' = 0

\* Cancelled while it sleeps or waits for the lock.
KeeperUnwinds(g) ==
    /\ g \in cancelled
    /\ \/ pc[Keeper(g)] = "sleep" /\ UNCHANGED waiters
       \/ /\ pc[Keeper(g)] = "queued"
          /\ \E i \in 1..Len(waiters) :
               /\ waiters[i] = Keeper(g)
               /\ waiters' = SubSeq(waiters, 1, i - 1) \o SubSeq(waiters, i + 1, Len(waiters))
    /\ KeeperEnds(g)
    /\ UNCHANGED <<live, proxyUp, warming, userVars, healthVars, gen, kind, cancelled,
                   owner, build, tries, watchVars, rebuiltOnce, starts>>

\* It wakes to another generation, to no session, or to one of another type.
KeeperLeaves(g) ==
    /\ Asleep(g)
    /\ gen # g \/ live.type # kind[g]
    /\ KeeperEnds(g)
    /\ UNCHANGED <<live, proxyUp, warming, userVars, healthVars, gen, kind, cancelled,
                   lockVars, tries, watchVars, rebuiltOnce, starts>>

\* auto_renew_local_session: a full renewal is due, or three heartbeats failed.
KeeperRenews(g) ==
    /\ "renewal" \in Enabled
    /\ Asleep(g)
    /\ kind[g] = "LOCAL" /\ gen = g /\ LocalActive /\ ~privacy
    /\ Call(Keeper(g), live, tries)
    /\ UNCHANGED <<userVars, taskFrame>>

\* remote_session_terminator: the teardown runs in a task of its own, guarded by
\* the generation, and the terminator's finally clause follows.
TerminatorFires(g) ==
    /\ Asleep(g)
    /\ kind[g] = "REMOTE" /\ gen = g /\ live.type = "REMOTE"
    /\ pc[<<"reap", g>>] = "idle"
    /\ pc' = [pc EXCEPT ![Keeper(g)] = "done", ![<<"reap", g>>] = "spawned"]
    /\ registered' = 0
    /\ UNCHANGED <<live, proxyUp, warming, userVars, healthVars, gen, kind, cancelled,
                   lockVars, tries, watchVars, rebuiltOnce, starts>>

\* idle_session_reaper: its checks, then the await of has_active_consumer.
ReaperChecks(g) ==
    /\ "reaper" \in Enabled
    /\ pc[<<"reap", g>>] = "idle"
    /\ kind[g] = "LOCAL" /\ gen = g /\ LocalActive
    /\ pc' = [pc EXCEPT ![<<"reap", g>>] = "deciding"]
    /\ UNCHANGED <<live, warming, userVars, lockVars, starts, taskFrame>>

\* No consumer for the whole grace time: schedule the guarded teardown.
ReaperDecides(g) ==
    /\ pc[<<"reap", g>>] = "deciding"
    /\ \E next \in {"idle", "spawned"} : pc' = [pc EXCEPT ![<<"reap", g>>] = next]
    /\ UNCHANGED <<live, warming, userVars, lockVars, starts, taskFrame>>

GuardedTeardown(g) ==
    /\ pc[<<"reap", g>>] = "spawned"
    /\ AskTeardown(<<"reap", g>>, intent)
    /\ UNCHANGED <<proxyUp, lastAsk, privacy, tries, watchVars, rebuiltOnce, starts>>

\* The status loop reaches the camera on the LAN again: forget the fallback and
\* promote a REMOTE session, unless that was tried in the last five minutes.
LanReachable ==
    /\ Pref = "auto" /\ fellBack
    /\ errCount' = 0
    /\ fellBack' = FALSE
    /\ \/ UNCHANGED <<live, warming, pc, lockVars, starts>>
       \/ /\ "promote" \in Enabled /\ pc[Promote] = "idle"
          /\ live.type = "REMOTE" /\ ~privacy
          /\ Call(Promote, live, tries)
    /\ UNCHANGED <<proxyUp, userVars, rescued, keeperVars, tries, watchVars, rebuiltOnce>>

-----------------------------------------------------------------------------
\* --------------------------------------------- the health watchdog of the switch

WatchdogDone == pc' = [pc EXCEPT ![Watchdog] = "idle"]
WatchdogSleeps == pc' = [pc EXCEPT ![Watchdog] = IF tick = 0 THEN "sleep" ELSE "idle"]
Final == tick = 1
watchdogFrame == <<proxyUp, warming, userVars, keeperVars, lockVars, tries, rebuiltOnce, starts>>

\* stream_error_at is recent: another task counted the same crash.
RecentError == "worker" \in Enabled /\ errCount > 0

WatchdogTick ==
    /\ pc[Watchdog] = "sleep"
    /\ tick' = tick + 1
    /\ \/ /\ ~LocalActive
          /\ WatchdogDone
          /\ UNCHANGED <<live, healthVars, watched, sawConsumer>>
       \/ /\ LocalActive /\ gen # watched
          /\ watched' = gen /\ sawConsumer' = FALSE
          /\ WatchdogSleeps
          /\ UNCHANGED <<live, healthVars>>
       \/ /\ LocalActive /\ gen = watched
          /\ UNCHANGED watched
          /\ \/ /\ "healthy" \in Healths \/ ("webrtc_only" \in Healths /\ Final)
                /\ errCount' = 0 /\ fellBack' = FALSE /\ rescued' = FALSE
                /\ WatchdogDone
                /\ UNCHANGED <<live, sawConsumer>>
             \/ /\ "webrtc_only" \in Healths /\ ~Final
                /\ sawConsumer' = TRUE
                /\ WatchdogSleeps
                /\ UNCHANGED <<live, healthVars>>
             \/ /\ "no_consumer" \in Healths
                /\ errCount' = IF sawConsumer THEN Bump(errCount) ELSE errCount
                /\ WatchdogDone
                /\ UNCHANGED <<live, fellBack, rescued, sawConsumer>>
             \/ /\ "unhealthy" \in Healths
                /\ \E recent \in {FALSE, RecentError} :
                     errCount' = CASE recent -> errCount
                                   [] Final -> MaxErrors
                                   [] OTHER -> Bump(errCount)
                /\ live' = NoLive
                /\ pc' = [pc EXCEPT ![Watchdog] = "stopping"]
                /\ UNCHANGED <<fellBack, rescued, sawConsumer>>
    /\ UNCHANGED watchdogFrame

\* Its stop_tls_proxy, outside the lock; then the intent check and the restart.
WatchdogRestarts ==
    /\ pc[Watchdog] = "stopping"
    /\ proxyUp' = FALSE
    /\ \/ intent /\ Call(Watchdog, live, tries)
       \/ ~intent /\ WatchdogDone /\ UNCHANGED <<live, warming, lockVars, starts>>
    /\ UNCHANGED <<userVars, healthVars, keeperVars, tries, watchVars, rebuiltOnce>>

-----------------------------------------------------------------------------
\* ----------------------------------- stream-worker errors and proxy circuit breaker

workerFrame == <<proxyUp, userVars, keeperVars, watchVars, rebuiltOnce>>

\* handle_stream_worker_error; auth is is_auth_error, decayed the rescue's TTL.
WorkerError(auth, decayed) ==
    LET e == IF LocalActive THEN Bump(errCount) ELSE errCount
        act == auth \/ e >= MaxErrors
        used == rescued /\ ~(act /\ decayed)
        rescue == act /\ LocalActive /\ auth /\ ~used
    IN  /\ "worker" \in Enabled /\ pc[Worker] = "idle"
        /\ decayed => rescued
        /\ rescued' = (used \/ rescue)
        /\ errCount' = IF rescue THEN 0 ELSE e
        /\ fellBack' = IF rescue THEN FALSE ELSE fellBack \/ (act /\ LocalActive)
        /\ tries' = IF rescue THEN 1 ELSE 0
        /\ IF act /\ LocalActive
           THEN Call(Worker, IF rescue THEN NoLive ELSE live, tries')
           ELSE UNCHANGED <<live, warming, pc, lockVars, starts>>
        /\ UNCHANGED workerFrame

\* Five seconds after a failed rescue attempt.
RescueRetries ==
    /\ pc[Worker] = "retry"
    /\ tries' = tries + 1
    /\ Call(Worker, live, tries')
    /\ UNCHANGED <<healthVars, workerFrame>>

\* Five failed connects: the proxy closes its socket and calls back.  The rebuild
\* is skipped when one ran in the last thirty seconds.
ProxyDies ==
    /\ "died" \in Enabled
    /\ proxyUp /\ proxyUp' = FALSE
    /\ \/ pc[Died] = "idle" /\ pc' = [pc EXCEPT ![Died] = "prewait"]
       \/ rebuiltOnce /\ UNCHANGED pc
    /\ rebuiltOnce' = TRUE
    /\ UNCHANGED <<live, warming, userVars, healthVars, keeperVars, lockVars, tries,
                   watchVars, starts>>

\* on_tls_proxy_died after its five seconds.
DiedRebuilds ==
    /\ pc[Died] = "prewait"
    /\ \/ LocalActive /\ Call(Died, live, tries)
       \/ /\ ~LocalActive
          /\ pc' = [pc EXCEPT ![Died] = "idle"]
          /\ UNCHANGED <<live, warming, lockVars, starts>>
    /\ UNCHANGED <<userVars, taskFrame>>

-----------------------------------------------------------------------------
BuildStep ==
    \/ ChooseCandidates \/ PutAccepted \/ PutRefused \/ ProxyStarts \/ ProxyRaises
    \/ StaleStopped \/ Prewarmed \/ WarmupRaises \/ PublishUrl \/ CandidateCleaned
    \/ BuildSucceeds

KeeperStep(g) ==
    \/ KeeperUnwinds(g) \/ KeeperLeaves(g) \/ KeeperRenews(g) \/ TerminatorFires(g)
    \/ ReaperChecks(g) \/ ReaperDecides(g) \/ GuardedTeardown(g)

Next ==
    \/ SwitchOn \/ SwitchOff \/ CardOpens \/ SnapshotRenews
    \/ PrivacyOnRequested \/ PrivacyWritten \/ PrivacyDetected \/ PrivacyOff
    \/ StaleWarmingCleared
    \/ \E t \in Tasks : Acquire(t) \/ SchemesFresh(t) \/ TeardownEnds(t)
    \/ BuildStep
    \/ \E g \in 1..MaxStarts : KeeperStep(g)
    \/ LanReachable \/ WatchdogTick \/ WatchdogRestarts
    \/ \E auth, decayed \in BOOLEAN : WorkerError(auth, decayed)
    \/ RescueRetries \/ ProxyDies \/ DiedRebuilds

Spec == Init /\ [][Next]_vars

\* The event loop runs whatever is ready, and every await of a build or a
\* teardown is bounded by a timeout; users, cards and errors owe nothing.
LockServed == \E t \in Tasks : Acquire(t) \/ TeardownEnds(t)
Fairness ==
    /\ WF_vars(BuildStep)
    /\ WF_vars(LockServed)
    /\ \A g \in 1..MaxStarts :
         WF_vars(KeeperUnwinds(g) \/ KeeperLeaves(g) \/ GuardedTeardown(g))
    /\ WF_vars(WatchdogTick) /\ WF_vars(WatchdogRestarts)
    /\ WF_vars(RescueRetries) /\ WF_vars(DiedRebuilds)
    /\ WF_vars(PrivacyWritten)
FairSpec == Spec /\ Fairness

-----------------------------------------------------------------------------
\* ------------------------------------------------------------------ properties

PCs == {"idle", "schemes", "queued", "holding", "sleep", "done", "stopping", "retry",
        "writing", "prewait", "deciding", "spawned"}
Types == {"LOCAL", "REMOTE", "DIRECT", None}
Steps == {None, "begin", "put", "proxy", "stale", "prewarm", "door", "cleanup",
          "fallback", "finish"}

\* Every variable has its type.
TypeOK ==
    /\ live \in [type : Types, url : BOOLEAN, gen : Nat]
    /\ proxyUp \in BOOLEAN
    /\ warming \in BOOLEAN
    /\ intent \in BOOLEAN
    /\ lastAsk \in {"on", "off"}
    /\ privacy \in BOOLEAN
    /\ errCount \in 0..MaxErrors
    /\ fellBack \in BOOLEAN
    /\ rescued \in BOOLEAN
    /\ gen \in Nat
    /\ kind \in [1..MaxStarts -> {"LOCAL", "REMOTE", None}]
    /\ registered \in Nat
    /\ cancelled \subseteq Nat
    /\ pc \in [Tasks -> PCs]
    /\ owner \in Tasks \cup {NoTask}
    /\ waiters \in Seq(Tasks)
    /\ build \in [step : Steps, todo : Seq({"LOCAL", "REMOTE"}), remote : BOOLEAN]
    /\ tries \in 0..3
    /\ tick \in 0..2
    /\ watched \in Nat
    /\ sawConsumer \in BOOLEAN
    /\ rebuiltOnce \in BOOLEAN
    /\ starts \in 0..MaxStarts

NobodyBuilds == owner = NoTask \/ Teardown(owner)

\* Nothing but a build in progress leaves a session without its URL, or the
\* warming flag that blocks the privacy toggle: every exit of
\* try_live_connection_inner, the except clause included, settles both, whatever
\* other tasks did to the session meanwhile.
SettledSession ==
    NobodyBuilds => ~warming /\ (live # NoLive => live.url)

\* A LOCAL session that nobody is rebuilding is looked after: the keepalive of
\* the current generation is running and was not cancelled.
KeepaliveCovers ==
    NobodyBuilds /\ LocalActive =>
        /\ kind[gen] = "LOCAL"
        /\ pc[Keeper(gen)] \in {"sleep", "queued"} /\ gen \notin cancelled

\* A REMOTE session that nobody is rebuilding ends before the relay's cap: its
\* terminator sleeps, or has scheduled the teardown.
TerminatorCovers ==
    NobodyBuilds /\ live.type = "REMOTE" =>
        /\ kind[gen] = "REMOTE"
        /\ Asleep(gen) \/ pc[<<"reap", gen>>] \in {"spawned", "queued"}

\* A session nobody is rebuilding is looked after until it ends.
LookedAfter == KeepaliveCovers /\ TerminatorCovers

\* The URL of a published session leads to a running proxy: no task stops the
\* proxy of a session that somebody else has just put up.
PublishedIsServed ==
    owner = NoTask /\ live.type \in {"LOCAL", "REMOTE"} => proxyUp

AtRest ==
    /\ Free
    /\ \A t \in Tasks : pc[t] \in {"idle", "sleep", "done"}

\* No proxy outlives its session.
NoOrphanProxy == AtRest /\ live = NoLive => ~proxyUp

\* OFF and privacy are final: once every task is at rest no session is up unless
\* somebody asked for one afterwards.
OffSticks == AtRest /\ lastAsk = "off" => live = NoLive

\* Once every task is at rest no session is up behind a closed shutter.
PrivacyEndsSession == AtRest /\ privacy => live = NoLive

\* A teardown decided for one generation never ends the session of a later one.
StaleTeardownSpares ==
    [][\A g \in 1..MaxStarts :
         owner' = <<"reap", g>> /\ owner # owner' => live.gen <= g]_vars

\* Every task waiting for the stream lock leaves the queue.
WaiterServed == \A t \in Tasks : pc[t] = "queued" ~> pc[t] # "queued"

\* A switch-off eventually leaves the camera without a session, at least for a
\* moment, whatever builds are in progress or ahead of it in the queue.
OffEnds == pc[TurnOff] = "queued" ~> live = NoLive /\ ~intent

\* Once a build stops being in the way privacy can be toggled again.
WarmingEnds == warming ~> ~warming
=============================================================================
