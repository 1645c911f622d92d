---------------------------- MODULE FcmSupervisor ----------------------------
(***************************************************************************)
(* The FCM supervisor of fcm.py: a task per config entry that keeps one    *)
(* push listener alive, with a new registration when delivery looks dead.  *)
(* Around it run the tick and the setup, which ask for a supervisor, the   *)
(* push-mode select and the unload, which stop it, the client's callback   *)
(* that persists credentials, and the delivery watchdog of                 *)
(* event_dispatch.py.                                                      *)
(*                                                                         *)
(* An action is what the event loop runs between two awaits.  The token a  *)
(* client gets from Google is numbered after the client that first got it; *)
(* credentials are known by the token they renew.  There is no clock: a    *)
(* sleep may end at any moment, and so may the ten-minute window of the    *)
(* stale-credentials marker.  Left out: how long the back-off sleeps are,  *)
(* with the counters that only decide that (`failures`, the two heal       *)
(* streaks), the client's own loop (PushMessages), enable_fcm_push (on).   *)
(***************************************************************************)
EXTENDS Integers, FiniteSets

CONSTANTS
    MaxSups,        \* bound: supervisor tasks created
    MaxClients,     \* bound: FcmPushClient objects created
    MaxEnsures,     \* bound: pending async_ensure_fcm_supervisor tasks
    MaxTrouble,     \* bound: answers of Google or Bosch that are missing or refusals
    MaxRestarts,    \* bound: changes of the push mode and reloads
    SoftMax,        \* FCM_SUPERVISOR_SOFT_HEAL_MAX
    TickOverlaps,   \* whether a tick may find the supervisor done while a stop is in progress
    PurgeMayBeCut   \* whether a purge may end between the logout and the write

ASSUME FcmAssumption ==
    /\ MaxSups \in Nat /\ MaxClients \in Nat /\ MaxEnsures \in Nat \ {0}
    /\ MaxRestarts \in Nat /\ MaxTrouble \in Nat /\ SoftMax \in Nat \ {0}
    /\ TickOverlaps \in BOOLEAN /\ PurgeMayBeCut \in BOOLEAN

Sups == 1..MaxSups
Clients == 1..MaxClients
Select == -1                        \* async_select_option
Unload == -2                        \* _async_cancel_coordinator_tasks
Stoppers == {Select, Unload}

VARIABLES
    creds,          \* entry.data fcm_credentials: the token they renew, 0 when absent
    regTok,         \* entry.data fcm_registered_token, 0 when absent
    bosch,          \* Bosch CBS: the device tokens it pushes to
    mode,           \* option fcm_push_mode
    client,         \* fcm_client, 0 for None
    running,        \* fcm_running
    healthy,        \* fcm_healthy
    forced,         \* fcm_force_hard_heal
    stale,          \* a creds-staleness marker in the last ten minutes
    clientNo,       \* clients created so far
    cl,             \* what each client is doing
    tok,            \* the token it listens with
    callback,       \* clients whose _persist waits for the loop
    persist,        \* clients whose _async_persist_fcm_creds task waits to run
    lock,           \* fcm_start_lock: the supervisor that holds it, or 0
    supTask,        \* fcm_supervisor_task, 0 for None
    supNo,          \* supervisors created so far
    pc,             \* where each supervisor is
    cancelled,      \* supervisors with a cancel() not delivered yet
    loc,            \* the locals of each supervisor
    held,           \* the client whose stop() it, or a stopper, awaits
    spc,            \* where each stopper is
    waits,          \* the supervisor it awaits
    shutting,       \* nvr_shutting_down
    ensures,        \* async_ensure_fcm_supervisor tasks that wait to run
    restarts,       \* changes of the push mode and reloads so far
    trouble,        \* failed requests so far
    purgedAt        \* ghost: clientNo at the last purge

entry == <<creds, regTok>>
flags == <<running, healthy, forced, stale>>
clientv == <<client, clientNo, cl, tok>>
persisting == <<callback, persist>>
sups == <<supTask, supNo, pc, cancelled, loc>>
stopping == <<spc, waits>>
life == <<shutting, ensures, restarts, trouble>>
vars == <<entry, bosch, mode, flags, clientv, persisting, lock, sups, held, stopping, life, purgedAt>>

\* soft: soft_streak; force: force_hard; push: a push since this iteration began;
\* forcedHeal: forced_heal; old: the token a registration replaced.
FreshLocals == [soft |-> 0, force |-> FALSE, push |-> FALSE, forcedHeal |-> FALSE, old |-> 0]

Init ==
    /\ creds = 0 /\ regTok = 0 /\ bosch = {}
    /\ mode \in {"auto", "polling"}
    /\ client = 0
    /\ running = FALSE /\ healthy = FALSE /\ forced = FALSE /\ stale = FALSE
    /\ clientNo = 0
    /\ cl = [c \in Clients |-> "none"]
    /\ tok = [c \in Clients |-> 0]
    /\ callback = {} /\ persist = {}
    /\ lock = 0
    /\ supTask = 0 /\ supNo = 0
    /\ pc = [s \in Sups |-> "none"]
    /\ cancelled = {}
    /\ loc = [s \in Sups |-> FreshLocals]
    /\ held = [a \in Sups \cup Stoppers |-> 0]
    /\ spc = [p \in Stoppers |-> "idle"]
    /\ waits = [p \in Stoppers |-> 0]
    /\ shutting = FALSE
    /\ ensures = 1                      \* the setup's task
    /\ restarts = 0 /\ trouble = 0
    /\ purgedAt = 0

token == IF clientNo = 0 THEN 0 ELSE tok[clientNo]   \* fcm_token, set by the last check-in
Alive(s) == pc[s] \notin {"none", "done"}
NoSupervisor == supTask # 0 => pc[supTask] = "done"
StopInProgress == \E p \in Stoppers : spc[p] \in {"await", "push"}

\* Supervisor s may take its next step: it is at this await and nobody cancelled it.
At(s, step) == pc[s] = step /\ s \notin cancelled
\* A request fails.  How often it may is bounded; trouble ends.
Trouble == trouble < MaxTrouble /\ trouble' = trouble + 1
calm == <<shutting, ensures, restarts>>
Goto(s, step) == pc' = [pc EXCEPT ![s] = step]
Release(s) == lock' = IF lock = s THEN 0 ELSE lock

-----------------------------------------------------------------------------
\* ------------------------------------------------------ asking for a supervisor

\* The tick schedules async_ensure_fcm_supervisor when it sees none.
Tick ==
    /\ StopInProgress => TickOverlaps
    /\ spc[Unload] # "down"
    /\ NoSupervisor
    /\ ensures < MaxEnsures
    /\ ensures' = ensures + 1
    /\ UNCHANGED <<entry, bosch, mode, flags, clientv, persisting, lock, sups, held,
                   stopping, shutting, restarts, trouble, purgedAt>>

\* Mutant: the running supervisor is not looked at.
EnsureAlwaysCreates ==
    /\ ensures > 0
    /\ StopInProgress => TickOverlaps
    /\ ensures' = ensures - 1
    /\ IF shutting
       THEN UNCHANGED sups
       ELSE /\ supNo < MaxSups
            /\ supNo' = supNo + 1
            /\ supTask' = supNo + 1
            /\ Goto(supNo + 1, "sleep")
            /\ UNCHANGED <<cancelled, loc>>
    /\ UNCHANGED <<entry, bosch, mode, flags, clientv, persisting, lock, held, stopping,
                   shutting, restarts, trouble, purgedAt>>

\* async_ensure_fcm_supervisor.
EnsureRuns ==
    /\ ensures > 0
    /\ StopInProgress => shutting \/ TickOverlaps
    /\ ensures' = ensures - 1
    /\ IF shutting \/ ~NoSupervisor
       THEN UNCHANGED sups
       ELSE /\ supNo < MaxSups
            /\ supNo' = supNo + 1
            /\ supTask' = supNo + 1
            /\ Goto(supNo + 1, "sleep")
            /\ UNCHANGED <<cancelled, loc>>
    /\ UNCHANGED <<entry, bosch, mode, flags, clientv, persisting, lock, held, stopping,
                   shutting, restarts, trouble, purgedAt>>

-----------------------------------------------------------------------------
\* ------------------------------------------------------ one iteration of the loop

\* Why a hard heal is due.
NeedsHard(s) == forced \/ loc[s].soft >= SoftMax \/ stale \/ creds = 0

\* A sleep ends and the next iteration decides.  In polling mode it sleeps again.  The
\* streaks of heals that did not help only decide how long it waits before the purge.
Iterates(s) ==
    /\ At(s, "sleep")
    /\ mode = "auto"
    /\ loc' = [loc EXCEPT ![s].force = forced, ![s].push = FALSE, ![s].forcedHeal = FALSE]
    /\ \E step \in IF NeedsHard(s) THEN {"healWait", "wantPurge"} ELSE {"wantStart"} :
            Goto(s, step)
    /\ UNCHANGED <<entry, bosch, mode, flags, clientv, persisting, lock, supTask, supNo,
                   cancelled, held, stopping, life, purgedAt>>

HealWaitEnds(s) ==
    /\ At(s, "healWait")
    /\ Goto(s, "wantPurge")
    /\ UNCHANGED <<entry, bosch, mode, flags, clientv, persisting, lock, supTask, supNo,
                   cancelled, loc, held, stopping, life, purgedAt>>

-----------------------------------------------------------------------------
\* ------------------------------------------------------ async_stop_fcm_push

\* The client was stopped and drained: whatever is the client now is forgotten.
PushStopped(a) ==
    /\ cl' = IF held[a] = 0 THEN cl ELSE [cl EXCEPT ![held[a]] = "stopped"]
    /\ held' = [held EXCEPT ![a] = 0]
    /\ IF held[a] = 0
       THEN UNCHANGED <<client, running, healthy>>
       ELSE client' = 0 /\ running' = FALSE /\ healthy' = FALSE
    /\ UNCHANGED <<clientNo, tok, forced, stale>>

-----------------------------------------------------------------------------
\* ------------------------------------------------------ hard heal: the purge

PurgeLocks(s) ==
    /\ At(s, "wantPurge") /\ lock = 0
    /\ lock' = s
    /\ held' = [held EXCEPT ![s] = client]
    /\ Goto(s, "purgeStop")
    /\ UNCHANGED <<entry, bosch, mode, flags, clientv, persisting, supTask, supNo, cancelled,
                   loc, stopping, life, purgedAt>>

PurgeStops(s) ==
    /\ At(s, "purgeStop")
    /\ PushStopped(s)
    /\ Goto(s, "logout")
    /\ UNCHANGED <<entry, bosch, mode, persisting, lock, supTask, supNo, cancelled, loc,
                   stopping, life, purgedAt>>

\* Bosch handles the logout of the registered token, or never hears of it.
LogsOut(s) ==
    /\ At(s, "logout")
    /\ \/ bosch' = bosch \ {regTok} /\ UNCHANGED trouble
       \/ Trouble /\ regTok # 0 /\ UNCHANGED bosch
    /\ Goto(s, "purge")
    /\ UNCHANGED <<entry, mode, flags, clientv, persisting, lock, supTask, supNo, cancelled,
                   loc, held, stopping, calm, purgedAt>>

\* Every fcm_ key of the entry goes; the request is done.
Purges(s) ==
    /\ pc[s] = "purge" /\ (s \in cancelled => ~PurgeMayBeCut)
    /\ creds' = 0 /\ regTok' = 0
    /\ stale' = FALSE
    /\ forced' = IF loc[s].force THEN FALSE ELSE forced
    /\ loc' = [loc EXCEPT ![s].soft = 0]
    /\ purgedAt' = clientNo
    /\ Release(s)
    /\ Goto(s, "wantStart")
    /\ UNCHANGED <<bosch, mode, running, healthy, clientv, persisting, supTask, supNo,
                   cancelled, held, stopping, life>>

\* The purge raises: the request stays, the loop goes on.
PurgeRaises(s) ==
    /\ At(s, IF PurgeMayBeCut THEN "purge" ELSE "logout")
    /\ Trouble
    /\ Release(s)
    /\ Goto(s, "sleep")
    /\ UNCHANGED <<entry, bosch, mode, flags, clientv, persisting, supTask, supNo, cancelled,
                   loc, held, stopping, calm, purgedAt>>

-----------------------------------------------------------------------------
\* ------------------------------------------------------ _async_start_fcm_push_locked

\* The start failed: soft_streak counts, the loop sleeps.
StartFailed(s) ==
    /\ loc' = [loc EXCEPT ![s].soft = @ + 1]
    /\ Release(s)
    /\ Goto(s, "sleep")

StartLocks(s) ==
    /\ At(s, "wantStart") /\ lock = 0
    /\ IF running THEN Goto(s, "polling") /\ UNCHANGED <<lock, loc>>
       ELSE IF mode = "polling" THEN StartFailed(s)
       ELSE lock' = s /\ Goto(s, "config") /\ UNCHANGED loc
    /\ UNCHANGED <<entry, bosch, mode, flags, clientv, persisting, supTask, supNo, cancelled,
                   held, stopping, life, purgedAt>>

ConfigFails(s) ==
    /\ At(s, "config")
    /\ Trouble
    /\ StartFailed(s)
    /\ UNCHANGED <<entry, bosch, mode, flags, clientv, persisting, supTask, supNo, cancelled,
                   held, stopping, calm, purgedAt>>

\* The client is made with the saved credentials and registers with Google.
ClientMade(s) ==
    /\ At(s, "config")
    /\ clientNo < MaxClients
    /\ clientNo' = clientNo + 1
    /\ client' = clientNo + 1
    /\ cl' = [cl EXCEPT ![clientNo + 1] = "made"]
    /\ Goto(s, "checkin")
    /\ UNCHANGED <<entry, bosch, mode, flags, tok, persisting, lock, supTask, supNo,
                   cancelled, loc, held, stopping, life, purgedAt>>

\* Google answers: the token of the credentials, or a new one that the callback saves.
ChecksIn(s) ==
    /\ At(s, "checkin")
    /\ \E t \in {clientNo} \cup ({creds} \ {0}) :
        /\ tok' = [tok EXCEPT ![clientNo] = t]
        /\ callback' = IF t = clientNo THEN callback \cup {t} ELSE callback
    /\ Goto(s, "register")
    /\ UNCHANGED <<entry, bosch, mode, flags, client, clientNo, cl, persist, lock, supTask,
                   supNo, cancelled, loc, held, stopping, life, purgedAt>>

\* The client is given up; stop() is awaited before the start returns.
GivesUp(s) ==
    /\ Trouble
    /\ held' = [held EXCEPT ![s] = client]
    /\ client' = 0
    /\ Goto(s, "giveUp")
    /\ UNCHANGED <<entry, mode, running, healthy, forced, clientNo, cl, tok, persisting,
                   lock, supTask, supNo, cancelled, loc, stopping, calm, purgedAt>>

\* Google refuses; PHONE_REGISTRATION_ERROR leaves its marker.
CheckinFails(s) ==
    /\ At(s, "checkin")
    /\ stale' \in {stale, TRUE}
    /\ GivesUp(s)
    /\ UNCHANGED bosch

\* register_fcm_with_bosch: a known token is not posted again; else Bosch adds it.
Registered(s) ==
    /\ At(s, "register")
    /\ IF regTok = token
       THEN UNCHANGED bosch /\ Goto(s, "listen")
       ELSE bosch' = bosch \cup {token} /\ Goto(s, "posted")
    /\ UNCHANGED <<entry, mode, flags, clientv, persisting, lock, supTask, supNo, cancelled,
                   loc, held, stopping, life, purgedAt>>

\* The reply: the token is noted, the one it replaces is logged out next.
PostConfirmed(s) ==
    /\ At(s, "posted")
    /\ regTok' = token
    /\ loc' = [loc EXCEPT ![s].old = regTok]
    /\ Goto(s, IF regTok = 0 THEN "listen" ELSE "dropOld")
    /\ UNCHANGED <<creds, bosch, mode, flags, clientv, persisting, lock, supTask, supNo,
                   cancelled, held, stopping, life, purgedAt>>

\* The POST fails, or only its reply does.
PostFails(s) ==
    /\ pc[s] \in {"register", "posted"} /\ s \notin cancelled
    /\ UNCHANGED <<stale, bosch>>
    /\ GivesUp(s)

\* _deregister_replaced_token.
DropsOld(s) ==
    /\ At(s, "dropOld")
    /\ \/ bosch' = bosch \ {loc[s].old} /\ UNCHANGED trouble
       \/ Trouble /\ UNCHANGED bosch
    /\ loc' = [loc EXCEPT ![s].old = 0]
    /\ Goto(s, "listen")
    /\ UNCHANGED <<entry, mode, flags, clientv, persisting, lock, supTask, supNo, cancelled,
                   held, stopping, calm, purgedAt>>

\* client.start(): the listener is up.
Listens(s) ==
    /\ At(s, "listen")
    /\ client # 0
    /\ cl' = [cl EXCEPT ![client] = "started"]
    /\ running' = TRUE /\ healthy' = TRUE
    /\ Release(s)
    /\ Goto(s, "polling")
    /\ UNCHANGED <<entry, bosch, mode, forced, stale, client, clientNo, tok, persisting,
                   supTask, supNo, cancelled, loc, held, stopping, life, purgedAt>>

\* start() raises, also because a stop has taken the client away.
ListenFails(s) ==
    /\ At(s, "listen")
    /\ UNCHANGED <<stale, bosch>>
    /\ GivesUp(s)

GivenUp(s) ==
    /\ At(s, "giveUp")
    /\ cl' = IF held[s] = 0 THEN cl ELSE [cl EXCEPT ![held[s]] = "stopped"]
    /\ held' = [held EXCEPT ![s] = 0]
    /\ StartFailed(s)
    /\ UNCHANGED <<entry, bosch, mode, flags, client, clientNo, tok, persisting,
                   supTask, supNo, cancelled, stopping, life, purgedAt>>

-----------------------------------------------------------------------------
\* ------------------------------------------------------ while the listener is up

ListenerDown == client = 0 \/ cl[client] # "started"

\* Mutant: a dead listener still counts as running.
PollSeesRequestOnly(s) ==
    /\ At(s, "polling")
    /\ forced
    /\ loc' = [loc EXCEPT ![s].forcedHeal = TRUE]
    /\ held' = [held EXCEPT ![s] = client]
    /\ Goto(s, "stopPush")
    /\ UNCHANGED <<entry, bosch, mode, flags, clientv, persisting, lock, supTask, supNo,
                   cancelled, stopping, life, purgedAt>>

\* A poll of is_started() finds the listener dead, or a heal requested.
PollEnds(s) ==
    /\ At(s, "polling")
    /\ ListenerDown \/ forced
    /\ loc' = [loc EXCEPT ![s].forcedHeal = ~ListenerDown]
    /\ held' = [held EXCEPT ![s] = client]
    /\ Goto(s, "stopPush")
    /\ UNCHANGED <<entry, bosch, mode, flags, clientv, persisting, lock, supTask, supNo,
                   cancelled, stopping, life, purgedAt>>

\* The dead listener is stopped; a run with pushes clears the streak.
Stops(s) ==
    /\ At(s, "stopPush")
    /\ PushStopped(s)
    /\ loc' = [loc EXCEPT ![s] =
                IF @.forcedHeal THEN @
                ELSE IF @.push THEN [@ EXCEPT !.soft = 0]
                ELSE [@ EXCEPT !.soft = loc[s].soft + 1]]
    /\ Goto(s, "sleep")
    /\ UNCHANGED <<entry, bosch, mode, persisting, lock, supTask, supNo, cancelled, stopping,
                   life, purgedAt>>

\* A cancel() is delivered at an await.  While polling it stops the listener first;
\* everywhere else the task ends, the start lock is released by its `async with`.
Cancelled(s) ==
    /\ s \in cancelled /\ Alive(s)
    /\ pc[s] = "purge" => PurgeMayBeCut
    /\ cancelled' = cancelled \ {s}
    /\ Release(s)
    /\ loc' = [loc EXCEPT ![s] = FreshLocals]
    /\ IF pc[s] = "polling" /\ client # 0
       THEN /\ held' = [held EXCEPT ![s] = client]
            /\ Goto(s, "unwind")
       ELSE /\ held' = [held EXCEPT ![s] = 0]
            /\ Goto(s, "done")
    /\ IF pc[s] = "listen" /\ client # 0
       THEN cl' \in {cl, [cl EXCEPT ![client] = "started"]}
       ELSE UNCHANGED cl
    /\ UNCHANGED <<entry, bosch, mode, flags, client, clientNo, tok, persisting,
                   supTask, supNo, stopping, life, purgedAt>>

\* Mutant: the cancellation is swallowed, the loop goes on.
UnwindsIntoLoop(s) ==
    /\ At(s, "unwind")
    /\ PushStopped(s)
    /\ Goto(s, "sleep")
    /\ UNCHANGED <<entry, bosch, mode, persisting, lock, supTask, supNo, cancelled, loc,
                   stopping, life, purgedAt>>

Unwinds(s) ==
    /\ At(s, "unwind")
    /\ PushStopped(s)
    /\ Goto(s, "done")
    /\ UNCHANGED <<entry, bosch, mode, persisting, lock, supTask, supNo, cancelled, loc,
                   stopping, life, purgedAt>>

-----------------------------------------------------------------------------
\* ------------------------------------------------------ async_stop_fcm_supervisor

\* Mutant: only a running listener is stopped (the guard before fix F4).
BeginsPushStopIfRunning(p) ==
    /\ held' = [held EXCEPT ![p] = IF running THEN client ELSE 0]
    /\ spc' = [spc EXCEPT ![p] = IF ~running \/ client = 0 THEN "stopped" ELSE "push"]

\* async_stop_fcm_push of stopper p, up to client.stop().
BeginsPushStop(p) ==
    /\ held' = [held EXCEPT ![p] = client]
    /\ spc' = [spc EXCEPT ![p] = IF client = 0 THEN "stopped" ELSE "push"]

\* Cancel the supervisor and await it; without one, stop the push at once.
BeginsStop(p) ==
    IF ~NoSupervisor
    THEN /\ cancelled' = cancelled \cup {supTask}
         /\ waits' = [waits EXCEPT ![p] = supTask]
         /\ spc' = [spc EXCEPT ![p] = "await"]
         /\ UNCHANGED held
    ELSE BeginsPushStop(p) /\ UNCHANGED <<cancelled, waits>>

\* The select changes the mode and stops the supervisor.
SelectsMode(m) ==
    /\ spc[Select] = "idle" /\ restarts < MaxRestarts /\ m # mode /\ spc[Unload] # "down"
    /\ restarts' = restarts + 1
    /\ mode' = m
    /\ BeginsStop(Select)
    /\ UNCHANGED <<entry, bosch, flags, clientv, persisting, lock, supTask, supNo, pc, loc,
                   shutting, ensures, trouble, purgedAt>>

Unloads ==
    /\ spc[Unload] = "idle"
    /\ shutting' = TRUE
    /\ BeginsStop(Unload)
    /\ UNCHANGED <<entry, bosch, mode, flags, clientv, persisting, lock, supTask, supNo, pc,
                   loc, ensures, restarts, trouble, purgedAt>>

SupervisorEnded(p) ==
    /\ spc[p] = "await" /\ pc[waits[p]] = "done"
    /\ supTask' = 0
    /\ waits' = [waits EXCEPT ![p] = 0]
    /\ BeginsPushStop(p)
    /\ UNCHANGED <<entry, bosch, mode, flags, clientv, persisting, lock, supNo, pc, cancelled,
                   loc, life, purgedAt>>

StopperStops(p) ==
    /\ spc[p] = "push"
    /\ PushStopped(p)
    /\ spc' = [spc EXCEPT ![p] = "stopped"]
    /\ UNCHANGED <<entry, bosch, mode, persisting, lock, sups, waits, life, purgedAt>>

\* The select asks for a supervisor again, in a task of its own.
SelectRestarts ==
    /\ spc[Select] = "stopped"
    /\ ensures < MaxEnsures
    /\ ensures' = ensures + 1
    /\ spc' = [spc EXCEPT ![Select] = "idle"]
    /\ UNCHANGED <<entry, bosch, mode, flags, clientv, persisting, lock, sups, held, waits,
                   shutting, restarts, trouble, purgedAt>>

\* The rest of the unload cancels the tracked tasks.
UnloadEnds ==
    /\ spc[Unload] = "stopped"
    /\ persist' = {}
    /\ spc' = [spc EXCEPT ![Unload] = "down"]
    /\ UNCHANGED <<entry, bosch, mode, flags, clientv, callback, lock, sups, held, waits,
                   life, purgedAt>>

\* A new coordinator for the entry.  The stopped one's ensure tasks do nothing to it.
Reloads ==
    /\ spc[Unload] = "down" /\ spc[Select] = "idle" /\ restarts < MaxRestarts
    /\ \A s \in Sups : ~Alive(s)
    /\ restarts' = restarts + 1
    /\ shutting' = FALSE
    /\ spc' = [spc EXCEPT ![Unload] = "idle"]
    /\ client' = 0
    /\ running' = FALSE /\ healthy' = FALSE /\ forced' = FALSE
    /\ lock' = 0 /\ supTask' = 0
    /\ ensures' = 1
    /\ UNCHANGED <<entry, bosch, mode, stale, clientNo, cl, tok, persisting, supNo, pc,
                   cancelled, loc, held, waits, trouble, purgedAt>>

-----------------------------------------------------------------------------
\* ------------------------------------------------------ clients, pushes, the poll

\* The library gives the connection up.
Dies(c) ==
    /\ cl[c] = "started"
    /\ cl' = [cl EXCEPT ![c] = "dead"]
    /\ UNCHANGED <<entry, bosch, mode, flags, client, clientNo, tok, persisting, lock,
                   sups, held, stopping, life, purgedAt>>

\* _on_fcm_push.
PushArrives(c) ==
    /\ cl[c] = "started" /\ tok[c] \in bosch /\ running
    /\ healthy' = TRUE
    /\ loc' = [s \in Sups |-> [loc[s] EXCEPT !.push = Alive(s)]]
    /\ UNCHANGED <<entry, bosch, mode, running, forced, stale, clientv, persisting, lock,
                   supTask, supNo, pc, cancelled, held, stopping, life, purgedAt>>

\* The poll finds an event that no push announced (event_dispatch.py).
Condemns ==
    /\ running /\ healthy
    /\ healthy' = FALSE /\ forced' = TRUE
    /\ UNCHANGED <<entry, bosch, mode, running, stale, clientv, persisting, lock, sups, held,
                   stopping, life, purgedAt>>

StaleExpires ==
    /\ stale
    /\ stale' = FALSE
    /\ UNCHANGED <<entry, bosch, mode, running, healthy, forced, clientv, persisting, lock,
                   sups, held, stopping, life, purgedAt>>

\* _persist, called in the loop for the client's thread.
CallbackRuns(c) ==
    /\ c \in callback
    /\ callback' = callback \ {c}
    /\ persist' = IF client = c THEN persist \cup {c} ELSE persist
    /\ UNCHANGED <<entry, bosch, mode, flags, clientv, lock, sups, held, stopping, life,
                   purgedAt>>

\* Mutant: who is the client is only asked when the task is scheduled.
PersistsBlindly(c) ==
    /\ c \in persist
    /\ persist' = persist \ {c}
    /\ creds' = tok[c]
    /\ UNCHANGED <<regTok, bosch, mode, flags, clientv, callback, lock, sups, held, stopping,
                   life, purgedAt>>

\* _async_persist_fcm_creds.
Persists(c) ==
    /\ c \in persist
    /\ persist' = persist \ {c}
    /\ creds' = IF client = c THEN tok[c] ELSE creds
    /\ UNCHANGED <<regTok, bosch, mode, flags, clientv, callback, lock, sups, held, stopping,
                   life, purgedAt>>

-----------------------------------------------------------------------------
Starts(s) == StartLocks(s) \/ ClientMade(s) \/ ChecksIn(s) \/ Registered(s)
             \/ PostConfirmed(s) \/ DropsOld(s) \/ Listens(s) \/ GivenUp(s)
Heals(s) == HealWaitEnds(s) \/ PurgeLocks(s) \/ PurgeStops(s) \/ LogsOut(s) \/ Purges(s)
Fails(s) == ConfigFails(s) \/ CheckinFails(s) \/ PostFails(s) \/ ListenFails(s)
            \/ PurgeRaises(s)
Supervises(s) == Iterates(s) \/ PollEnds(s) \/ Stops(s) \/ Cancelled(s) \/ Unwinds(s)
Stopper(p) == SupervisorEnded(p) \/ StopperStops(p)

Next ==
    \/ Tick \/ EnsureRuns
    \/ \E s \in Sups : Starts(s) \/ Heals(s) \/ Fails(s) \/ Supervises(s)
    \/ \E p \in Stoppers : Stopper(p)
    \/ \E m \in {"auto", "polling"} : SelectsMode(m)
    \/ Unloads \/ SelectRestarts \/ UnloadEnds \/ Reloads
    \/ \E c \in Clients : Dies(c) \/ PushArrives(c) \/ CallbackRuns(c) \/ Persists(c)
    \/ Condemns \/ StaleExpires

Spec == Init /\ [][Next]_vars

\* Every await of a supervisor and of a stop ends; ensure tasks run; the tick goes on.
Fairness ==
    /\ WF_vars(Tick) /\ WF_vars(EnsureRuns)
    /\ \A s \in Sups : WF_vars(Starts(s) \/ Heals(s) \/ Supervises(s))
    /\ \A p \in Stoppers : WF_vars(Stopper(p))
    /\ WF_vars(SelectRestarts) /\ WF_vars(UnloadEnds)
FairSpec == Spec /\ Fairness

-----------------------------------------------------------------------------
TypeOK ==
    /\ creds \in 0..MaxClients /\ regTok \in 0..MaxClients
    /\ bosch \subseteq Clients
    /\ mode \in {"auto", "polling"}
    /\ client \in 0..MaxClients
    /\ running \in BOOLEAN /\ healthy \in BOOLEAN /\ forced \in BOOLEAN /\ stale \in BOOLEAN
    /\ clientNo \in 0..MaxClients
    /\ cl \in [Clients -> {"none", "made", "started", "dead", "stopped"}]
    /\ tok \in [Clients -> 0..MaxClients]
    /\ callback \subseteq Clients /\ persist \subseteq Clients
    /\ lock \in 0..MaxSups /\ supTask \in 0..MaxSups /\ supNo \in 0..MaxSups
    /\ pc \in [Sups -> {"none", "sleep", "healWait", "wantPurge", "purgeStop", "logout",
                        "purge", "wantStart", "config", "checkin", "register", "posted",
                        "dropOld", "listen", "giveUp", "polling", "stopPush", "unwind",
                        "done"}]
    /\ cancelled \subseteq Sups
    /\ loc \in [Sups -> [soft : 0..SoftMax, force : BOOLEAN, push : BOOLEAN,
                         forcedHeal : BOOLEAN, old : 0..MaxClients]]
    /\ held \in [Sups \cup Stoppers -> 0..MaxClients]
    /\ spc \in [Stoppers -> {"idle", "await", "push", "stopped", "down"}]
    /\ waits \in [Stoppers -> 0..MaxSups]
    /\ shutting \in BOOLEAN
    /\ ensures \in 0..MaxEnsures /\ restarts \in 0..MaxRestarts
    /\ trouble \in 0..MaxTrouble
    /\ purgedAt \in 0..MaxClients

\* However often the tick, the setup and the select ask, at most one supervisor of the
\* entry lives (async_ensure_fcm_supervisor against async_stop_fcm_supervisor).
OneSupervisor ==
    \A s, r \in Sups : Alive(s) /\ Alive(r) => s = r

\* When the unload is through, no supervisor lives and no client listens, wherever in a
\* start, a heal or a poll the cancellation hit (async_stop_fcm_push, bug fix F4).
NothingSurvivesUnload ==
    spc[Unload] = "down" => /\ \A s \in Sups : ~Alive(s)
                              /\ \A c \in Clients : cl[c] # "started"

\* A client that listens is the coordinator's, or somebody is about to stop it: no
\* listener is left behind by a failed start or a replaced client (bug fix F3).
NoStrayListener ==
    \A c \in Clients : cl[c] = "started" =>
        c = client \/ \E a \in Sups \cup Stoppers : held[a] = c

\* What a purge has thrown away never comes back into the entry through the late
\* callback of a client that was replaced (bug fix F1).
PurgedCredsStayAway == creds # 0 => creds > purgedAt

\* A running listener listens with a token Bosch pushes to: a start never trusts a
\* registration that a heal or a later start has logged out (bug fix F2).
ListensWhereBoschPushes ==
    (running /\ ~ListenerDown) => tok[client] \in bosch

\* A client replaced, failed or unloaded is stopped.
NothingLeftBehind == NoStrayListener /\ NothingSurvivesUnload

\* What the entry keeps of a registration is what Bosch has of it.
RegistrationIsSound == PurgedCredsStayAway /\ ListensWhereBoschPushes

\* A heal the poll asks for is carried out, however the request meets restarts, failed
\* purges and heals for other reasons; unless the user ends or switches it off.
ForcedHealIsDone ==
    forced ~> (~forced \/ mode = "polling" \/ shutting)

\* In auto mode push comes back: after any death, refusal or heal the listener runs
\* again, unless the entry is unloaded or the bound on clients or tasks is reached.
ListenerComesBack ==
    []<>((running /\ ~ListenerDown) \/ mode = "polling" \/ shutting
         \/ clientNo = MaxClients \/ supNo = MaxSups)

\* An unload never hangs on the supervisor it waits for.
UnloadGoesThrough == shutting ~> (spc[Unload] = "down")
=============================================================================
