---------------------------- MODULE NvrRecorder ----------------------------
(***************************************************************************)
(* The Mini-NVR of one camera (recorder.py): the ffmpeg child of the       *)
(* continuous recorder, the ffmpeg child of the pre-roll ring, and the     *)
(* tasks that start, stop, watch and borrow them.                          *)
(*                                                                         *)
(* An action is what the event loop runs between two awaits.  A task runs  *)
(* one of a few programs that share their steps:                           *)
(*   start, retry  start_recorder; retry is the watcher's after a 401      *)
(*   ring          start_preroll_recorder, the health watcher's respawn    *)
(*   stop          stop_recorder, which takes no lock                      *)
(*   sweep, unload stop_all_preroll and the rest of stop_all               *)
(*   clip, clipPost, clipEnd  assemble_and_ship_motion_clip and the two    *)
(*                 places where it starts the ring again                   *)
(* Every process has a watcher, known by the number of the process.        *)
(*                                                                         *)
(* There is no clock: sleeps and time limits end at any moment, and so     *)
(* does the window that makes a crash a second one.  Left out: segments    *)
(* (module Archive has the files), the prune task, the store behind the    *)
(* intent (its save stays an await), the camera's online status (always    *)
(* online), pre-roll seconds (positive), a SIGKILL that does not kill.     *)
(***************************************************************************)
EXTENDS Integers, FiniteSets

CONSTANTS
    MaxProcs,       \* bound: ffmpeg processes spawned
    MaxCalls,       \* bound: calls from outside: switch, select, session hooks
    MaxEvents,      \* bound: motion events that schedule a clip
    MaxAuth,        \* _MAX_CONSECUTIVE_AUTH_RETRIES
    ClipOptions     \* the sets of clip options an entry may have

ASSUME NvrAssumption ==
    /\ MaxProcs \in Nat /\ MaxCalls \in Nat /\ MaxEvents \in Nat /\ MaxAuth \in Nat
    /\ ClipOptions \subseteq SUBSET {"finalize", "postroll"}

Procs == 1..MaxProcs                \* a process, and the task that watches it
Clip == -1
Unload == -2
Callers == {-3, -4}                 \* tasks of the switch, the select, the session hooks
Tasks == Procs \cup Callers \cup {Clip, Unload}
Free == 0

VARIABLES
    opts,           \* nvr_finalize_ring_on_event, nvr_postroll_seconds > 0
    intent,         \* nvr_user_intent
    mode,           \* get_nvr_mode
    sess,           \* _connection_type of the live session, or "none"
    url,            \* the session has its rtsp:// URL
    rec,            \* nvr_processes, 0 for none
    ring,           \* nvr_preroll_processes, 0 for none
    spawned,        \* processes so far
    ps,             \* what each process does
    kind,           \* "rec" or "ring"
    why,            \* why it exited
    lock,           \* get_nvr_recorder_lock
    pc,             \* where each task is
    prog,           \* which program it runs
    held,           \* the process whose exit, or whose registration, it waits for
    recent,         \* a crash of each kind within _RESPAWN_WINDOW_SECONDS
    authRetries,    \* nvr_auth_retry_count
    shutting,       \* nvr_shutting_down
    calls, events,
    refusals,       \* ghost: exits on 401 since a start that was no retry
    older,          \* ghost: the retries still on their way at that start
    owed            \* ghost: a clip took the ring, and nothing changed since

tracked == <<rec, ring>>
procs == <<spawned, ps, kind, why>>
tasks == <<pc, prog, held>>
session == <<sess, url>>
rejected == <<refusals, older>>
ghosts == <<rejected, owed>>
counts == <<recent, authRetries>>
bounds == <<calls, events>>
vars == <<opts, intent, mode, session, tracked, procs, lock, tasks, counts, shutting, bounds, ghosts>>

Init ==
    /\ opts \in ClipOptions
    /\ intent \in BOOLEAN           \* restored by the switch
    /\ mode \in {"continuous", "event_buffered"}
    /\ sess = "none" /\ url = FALSE
    /\ rec = 0 /\ ring = 0 /\ spawned = 0
    /\ ps = [p \in Procs |-> "none"]
    /\ kind = [p \in Procs |-> "rec"]
    /\ why = [p \in Procs |-> "none"]
    /\ lock = Free
    /\ pc = [t \in Tasks |-> "idle"]
    /\ prog = [t \in Tasks |-> "none"]
    /\ held = [t \in Tasks |-> 0]
    /\ recent = [k \in {"rec", "ring"} |-> FALSE]
    /\ authRetries = 0
    /\ shutting = FALSE
    /\ calls = 0 /\ events = 0
    /\ refusals = 0 /\ older = 0 /\ owed = FALSE

Alive(p) == p # 0 /\ ps[p] = "alive"
Signal(p) == [q \in Procs |-> IF q = p /\ ps[q] = "alive" THEN "dying" ELSE ps[q]]
should_record(on) == on /\ sess = "LOCAL"
RingWanted == mode = "event_buffered" /\ ~shutting /\ sess = "LOCAL" /\ url

\* Where a task goes when its program is over.
Ends(t) == IF prog[t] = "clipPost" THEN "postroll"
           ELSE IF t \in Procs THEN "done" ELSE IF t = Unload THEN "swept" ELSE "idle"
Goto(t, step) == pc' = [pc EXCEPT ![t] = IF step = "end" THEN Ends(t) ELSE step]
\* A task that goes to `step` keeps the lock it holds until the program is over.
KeepsLock(t, step) == lock' = IF step = "end" /\ lock = t THEN Free ELSE lock
TakesLock(t, step) == lock' = IF prog[t] = "stop" THEN lock
                              ELSE IF step = "end" THEN Free ELSE t
MayEnter(t) == pc[t] = "begin" /\ (prog[t] # "stop" => lock = Free)
HeldIsGone(t) == ps[held[t]] = "gone"
Retrying == {p \in Procs : prog[p] = "retry" /\ pc[p] \notin {"watch", "done"}}

\* Mutant: no double-spawn guard.
RingStepBlind(r) == IF ~RingWanted THEN "end" ELSE "ringDirs"

\* _spawn_preroll_recorder_locked up to its first await; r is the tracked ring.
RingStep(r) == IF Alive(r) \/ ~RingWanted THEN "end" ELSE "ringDirs"
\* _start_recorder_locked after the leading stop: the session, its URL, the mode.
StartStep == IF sess # "LOCAL" THEN "end"
             ELSE IF ~url THEN "url"
             ELSE IF mode = "continuous" THEN "dirs" ELSE RingStep(0)

-----------------------------------------------------------------------------
\* ------------------------------------------------------ calls from outside

\* Which idle slot a call takes does not matter: the first.
Calls(c, step, program) ==
    /\ pc[c] = "idle" /\ \A d \in Callers : pc[d] = "idle" => d <= c
    /\ calls < MaxCalls /\ ~shutting
    /\ calls' = calls + 1
    /\ pc' = [pc EXCEPT ![c] = step]
    /\ prog' = [prog EXCEPT ![c] = program]

\* A call that starts no task.
Quiet == calls < MaxCalls /\ ~shutting /\ calls' = calls + 1

\* The switch: intent first, then the save, then the recorder.
SwitchOn(c) ==
    /\ Calls(c, "save", "start")
    /\ intent' = TRUE
    /\ UNCHANGED <<opts, mode, session, tracked, procs, lock, held, counts, shutting, events, ghosts>>

SwitchOff(c) ==
    /\ Calls(c, "save", "stop")
    /\ intent' = FALSE
    /\ UNCHANGED <<opts, mode, session, tracked, procs, lock, held, counts, shutting, events, ghosts>>

\* The NVR mode select: a running recorder is started again in the new mode.
SelectMode(c, m) ==
    /\ m # mode
    /\ mode' = m
    /\ IF rec # 0 \/ ring # 0
       THEN Calls(c, "save", "start") /\ intent' = TRUE
       ELSE c = -3 /\ Quiet /\ UNCHANGED <<pc, prog, intent>>
    /\ owed' = FALSE
    /\ UNCHANGED <<opts, session, tracked, procs, lock, held, counts, shutting, events, rejected>>

\* The intent is saved; the wrapper's gate decides about a start.
Saved(c) ==
    /\ pc[c] = "save"
    /\ pc' = [pc EXCEPT ![c] =
                IF prog[c] = "start" /\ ~should_record(TRUE) THEN "idle" ELSE "begin"]
    /\ UNCHANGED <<opts, intent, mode, session, tracked, procs, lock, prog, held, counts, shutting,
                   bounds, ghosts>>

\* A LOCAL session is published while its stream still warms up.
SessionOpens ==
    /\ sess = "none"
    /\ sess' = "LOCAL" /\ url' = FALSE
    /\ UNCHANGED <<opts, intent, mode, tracked, procs, lock, tasks, counts, shutting, bounds, ghosts>>

\* It is ready, or renewed: the hook of try_live_connection_inner.
SessionReady(c) ==
    /\ sess = "LOCAL"
    /\ url' = TRUE
    /\ IF intent THEN Calls(c, "begin", "start")
       ELSE c = -3 /\ Quiet /\ UNCHANGED <<pc, prog>>
    /\ UNCHANGED <<opts, intent, mode, sess, tracked, procs, lock, held, counts, shutting, events,
                   ghosts>>

\* The session falls back to the relay: recording is LAN-only.
SessionRemote(c) ==
    /\ sess = "LOCAL"
    /\ sess' = "REMOTE"
    /\ IF intent /\ (rec # 0 \/ ring # 0) THEN Calls(c, "begin", "stop")
       ELSE c = -3 /\ Quiet /\ UNCHANGED <<pc, prog>>
    /\ owed' = FALSE
    /\ UNCHANGED <<opts, intent, mode, url, tracked, procs, lock, held, counts, shutting, events,
                   rejected>>

\* tear_down_live_stream; the intent stays.
TearDown(c) ==
    /\ sess # "none"
    /\ sess' = "none" /\ url' = FALSE
    /\ IF rec # 0 \/ ring # 0 THEN Calls(c, "begin", "stop")
       ELSE c = -3 /\ Quiet /\ UNCHANGED <<pc, prog>>
    /\ owed' = FALSE
    /\ UNCHANGED <<opts, intent, mode, tracked, procs, lock, held, counts, shutting, events, rejected>>

-----------------------------------------------------------------------------
\* ------------------------------------------------------ stopping

\* stop_preroll_recorder of a live ring: out of the dict, SIGTERM, wait.
StopsRing(t) ==
    /\ MayEnter(t) /\ prog[t] # "clipEnd" /\ prog[t] # "clipPost"
    /\ Alive(ring)
    /\ ring' = 0
    /\ ps' = Signal(ring)
    /\ held' = [held EXCEPT ![t] = ring]
    /\ Goto(t, "ringExit")
    /\ TakesLock(t, "ringExit")
    /\ owed' = (prog[t] = "clip" /\ RingWanted)
    /\ UNCHANGED <<opts, intent, mode, session, rec, spawned, kind, why, prog, counts, shutting,
                   bounds, rejected>>

\* The ring is gone: the task goes on, or goes on at once.
RingGone(t) ==
    \/ pc[t] = "ringExit" /\ HeldIsGone(t)
    \/ MayEnter(t) /\ ~Alive(ring)

\* stop_recorder's second half: the recorder out of the dict, SIGTERM, wait.
StopsRec(t) ==
    /\ prog[t] \in {"start", "retry", "stop", "unload"}
    /\ RingGone(t)
    /\ rec' = 0
    /\ ring' = IF pc[t] = "begin" THEN 0 ELSE ring
    /\ ps' = Signal(rec)
    /\ held' = [held EXCEPT ![t] = IF Alive(rec) THEN rec ELSE 0]
    /\ LET step == IF Alive(rec) THEN "recExit"
                   ELSE IF prog[t] \in {"start", "retry"} THEN StartStep ELSE "end"
       IN  Goto(t, step) /\ IF pc[t] = "begin" THEN TakesLock(t, step) ELSE KeepsLock(t, step)
    /\ owed' = FALSE
    /\ UNCHANGED <<opts, intent, mode, session, spawned, kind, why, prog, counts, shutting, bounds,
                   rejected>>

RecGone(t) ==
    /\ pc[t] = "recExit" /\ HeldIsGone(t)
    /\ held' = [held EXCEPT ![t] = 0]
    /\ LET step == IF prog[t] \in {"start", "retry"} THEN StartStep ELSE "end"
       IN  Goto(t, step) /\ KeepsLock(t, step)
    /\ UNCHANGED <<opts, intent, mode, session, tracked, procs, prog, counts, shutting, bounds, ghosts>>

\* stop_all_preroll is through; stop_all takes the lock anew.
SweepGoesOn ==
    /\ prog[Unload] = "sweep" /\ RingGone(Unload)
    /\ ring' = IF pc[Unload] = "begin" THEN 0 ELSE ring
    /\ held' = [held EXCEPT ![Unload] = 0]
    /\ prog' = [prog EXCEPT ![Unload] = "unload"]
    /\ pc' = [pc EXCEPT ![Unload] = "begin"]
    /\ lock' = Free
    /\ UNCHANGED <<opts, intent, mode, session, rec, procs, counts, shutting, bounds, ghosts>>

-----------------------------------------------------------------------------
\* ------------------------------------------------------ starting

\* The wait for stream_ready_event ends, by the event or by its limit.
UrlWaited(t) ==
    /\ pc[t] = "url"
    /\ LET step == IF StartStep = "url" THEN "end" ELSE StartStep
       IN  Goto(t, step) /\ KeepsLock(t, step)
    /\ UNCHANGED <<opts, intent, mode, session, tracked, procs, prog, held, counts, shutting, bounds,
                   ghosts>>

\* The staging directories exist: the last checks, then ffmpeg is spawned.
Spawns(t) ==
    /\ pc[t] = "dirs"
    /\ IF shutting \/ sess # "LOCAL"
       THEN Goto(t, "end") /\ KeepsLock(t, "end") /\ UNCHANGED <<procs, held>>
       ELSE /\ spawned < MaxProcs
            /\ spawned' = spawned + 1
            /\ ps' = [ps EXCEPT ![spawned + 1] = "alive"]
            /\ kind' = [kind EXCEPT ![spawned + 1] = "rec"]
            /\ held' = [held EXCEPT ![t] = spawned + 1]
            /\ Goto(t, "spawned")
            /\ UNCHANGED <<why, lock>>
    /\ UNCHANGED <<opts, intent, mode, session, tracked, prog, counts, shutting, bounds, ghosts>>

\* Mutant: an early return with the lock taken.
SpawnFailsHolding(t) ==
    /\ pc[t] \in {"dirs", "ringDirs"}
    /\ Goto(t, "end")
    /\ owed' = FALSE
    /\ UNCHANGED <<opts, intent, mode, session, tracked, procs, lock, prog, held, counts,
                   shutting, bounds, rejected>>

\* No directory, no ffmpeg on the path, no process.
SpawnFails(t) ==
    /\ pc[t] \in {"dirs", "ringDirs"}
    /\ Goto(t, "end") /\ KeepsLock(t, "end")
    /\ owed' = FALSE
    /\ UNCHANGED <<opts, intent, mode, session, tracked, procs, prog, held, counts, shutting, bounds,
                   rejected>>

\* Mutant: every spawn gives the credentials a fresh budget.
RegistersFresh(t) ==
    /\ pc[t] = "spawned"
    /\ rec' = held[t]
    /\ held' = [held EXCEPT ![t] = 0]
    /\ authRetries' = 0
    /\ IF prog[t] = "retry" THEN UNCHANGED rejected
       ELSE refusals' = 0 /\ older' = Cardinality(Retrying)
    /\ pc' = [pc EXCEPT ![held[t]] = "watch", ![t] = Ends(t)]
    /\ KeepsLock(t, "end")
    /\ UNCHANGED <<opts, intent, mode, session, ring, procs, prog, recent, shutting, bounds, owed>>

\* nvr_processes has it, its watcher runs.
Registers(t) ==
    /\ pc[t] = "spawned"
    /\ rec' = held[t]
    /\ held' = [held EXCEPT ![t] = 0]
    /\ authRetries' = IF prog[t] = "retry" THEN authRetries ELSE 0
    /\ IF prog[t] = "retry" THEN UNCHANGED rejected
       ELSE refusals' = 0 /\ older' = Cardinality(Retrying)
    /\ pc' = [pc EXCEPT ![held[t]] = "watch", ![t] = Ends(t)]
    /\ KeepsLock(t, "end")
    /\ UNCHANGED <<opts, intent, mode, session, ring, procs, prog, recent, shutting, bounds, owed>>

\* The health watcher's respawn, after its leading stop.
RespawnsRing(t) ==
    /\ prog[t] = "ring" /\ RingGone(t)
    /\ ring' = IF pc[t] = "begin" THEN 0 ELSE ring
    /\ held' = [held EXCEPT ![t] = 0]
    /\ Goto(t, RingStep(ring'))
    /\ lock' = IF RingStep(ring') = "end" THEN Free ELSE t
    /\ UNCHANGED <<opts, intent, mode, session, rec, procs, prog, counts, shutting, bounds, ghosts>>

RingSpawns(t) ==
    /\ pc[t] = "ringDirs" /\ spawned < MaxProcs
    /\ spawned' = spawned + 1
    /\ ps' = [ps EXCEPT ![spawned + 1] = "alive"]
    /\ kind' = [kind EXCEPT ![spawned + 1] = "ring"]
    /\ held' = [held EXCEPT ![t] = spawned + 1]
    /\ Goto(t, "ringSpawned")
    /\ UNCHANGED <<opts, intent, mode, session, tracked, why, lock, prog, counts, shutting, bounds,
                   ghosts>>

\* nvr_preroll_processes has it; pruning and sweeping follow in the executor.
RingRegisters(t) ==
    /\ pc[t] = "ringSpawned"
    /\ ring' = held[t]
    /\ Goto(t, "ringPrune")
    /\ owed' = FALSE
    /\ UNCHANGED <<opts, intent, mode, session, rec, procs, lock, prog, held, counts, shutting,
                   bounds, rejected>>

\* Its watchers run.
RingWatched(t) ==
    /\ pc[t] = "ringPrune"
    /\ held' = [held EXCEPT ![t] = 0]
    /\ pc' = [pc EXCEPT ![held[t]] = "watch", ![t] = Ends(t)]
    /\ KeepsLock(t, "end")
    /\ UNCHANGED <<opts, intent, mode, session, tracked, procs, prog, counts, shutting, bounds, ghosts>>

-----------------------------------------------------------------------------
\* ------------------------------------------------------ processes and watchers

\* ffmpeg exits: it was told to, or it fails.
Exits(p, reason) ==
    /\ \/ ps[p] = "dying" /\ reason = "signal"
       \/ ps[p] = "alive" /\ reason # "signal"
    /\ ps' = [ps EXCEPT ![p] = "gone"]
    /\ why' = [why EXCEPT ![p] = reason]
    /\ UNCHANGED <<opts, intent, mode, session, tracked, spawned, kind, lock, tasks, counts, shutting,
                   bounds, ghosts>>

\* The watcher finds its process replaced or stopped.
NotMine(p) ==
    /\ pc[p] = "watch" /\ ps[p] = "gone" /\ p \notin {rec, ring}
    /\ pc' = [pc EXCEPT ![p] = "done"]
    /\ why' = [why EXCEPT ![p] = "none"]
    /\ UNCHANGED <<opts, intent, mode, session, tracked, spawned, ps, kind, lock, prog, held, counts, shutting,
                   bounds, ghosts>>

\* _watch_recorder: give up, or sleep and respawn.
RecorderDied(p) ==
    /\ pc[p] = "watch" /\ ps[p] = "gone" /\ rec = p
    /\ rec' = 0
    /\ LET wanted == should_record(intent)
           auth == why[p] = "auth"
           again == wanted /\ IF auth THEN authRetries < MaxAuth
                              ELSE why[p] = "crash" /\ ~recent["rec"]
       IN  /\ authRetries' = IF wanted /\ auth THEN authRetries + 1 ELSE authRetries
           /\ refusals' = IF wanted /\ auth THEN refusals + 1 ELSE refusals
           /\ recent' = [recent EXCEPT !["rec"] = @ \/ (again /\ ~auth)]
           /\ pc' = [pc EXCEPT ![p] = IF again THEN "sleep" ELSE "done"]
           /\ prog' = [prog EXCEPT ![p] = IF auth THEN "retry" ELSE "start"]
    /\ why' = [why EXCEPT ![p] = "none"]
    /\ UNCHANGED <<opts, intent, mode, session, ring, spawned, ps, kind, lock, held, shutting, bounds, older,
                   owed>>

\* _watch_preroll_health.
RingDied(p) ==
    /\ pc[p] = "watch" /\ ps[p] = "gone" /\ ring = p
    /\ ring' = 0
    /\ LET again == ~shutting /\ should_record(intent) /\ ~recent["ring"]
       IN  /\ recent' = [recent EXCEPT !["ring"] = @ \/ again]
           /\ pc' = [pc EXCEPT ![p] = IF again THEN "sleep" ELSE "done"]
    /\ prog' = [prog EXCEPT ![p] = "ring"]
    /\ why' = [why EXCEPT ![p] = "none"]
    /\ UNCHANGED <<opts, intent, mode, session, rec, spawned, ps, kind, lock, held, authRetries, shutting,
                   bounds, ghosts>>

\* The back-off ends.  The recorder's watcher still has the intent it read before it;
\* the ring's reads it again.
Wakes(p) ==
    /\ pc[p] = "sleep"
    /\ pc' = [pc EXCEPT ![p] =
                IF should_record(prog[p] = "ring" => intent) /\ (prog[p] = "ring" => ~shutting)
                THEN "begin" ELSE "done"]
    /\ UNCHANGED <<opts, intent, mode, session, tracked, procs, lock, prog, held, counts, shutting,
                   bounds, ghosts>>

WindowPasses(k) ==
    /\ recent[k]
    /\ recent' = [recent EXCEPT ![k] = FALSE]
    /\ UNCHANGED <<opts, intent, mode, session, tracked, procs, lock, tasks, authRetries, shutting,
                   bounds, ghosts>>

-----------------------------------------------------------------------------
\* ------------------------------------------------------ motion clips

\* maybe_schedule_nvr_motion_clip, and a clip that is not in progress yet.
MotionEvent ==
    /\ events < MaxEvents /\ pc[Clip] = "idle" /\ ~shutting
    /\ mode = "event_buffered" /\ should_record(intent)
    /\ events' = events + 1
    /\ prog' = [prog EXCEPT ![Clip] = "clip"]
    /\ pc' = [pc EXCEPT ![Clip] = IF "finalize" \in opts THEN "begin" ELSE "postroll"]
    /\ UNCHANGED <<opts, intent, mode, session, tracked, procs, lock, held, counts, shutting, calls,
                   ghosts>>

\* stop_and_finalize_preroll_recorder: no live ring, or it has no segment yet.
NothingToFinalize ==
    /\ prog[Clip] = "clip" /\ MayEnter(Clip)
    /\ pc' = [pc EXCEPT ![Clip] = "postroll"]
    /\ prog' = [prog EXCEPT ![Clip] = "none"]
    /\ UNCHANGED <<opts, intent, mode, session, tracked, procs, lock, held, counts, shutting, bounds,
                   ghosts>>

\* The ring has stopped; with a post-roll it must run again before the wait.
Finalized ==
    /\ prog[Clip] = "clip" /\ pc[Clip] = "ringExit" /\ HeldIsGone(Clip)
    /\ held' = [held EXCEPT ![Clip] = 0]
    /\ lock' = Free
    /\ pc' = [pc EXCEPT ![Clip] = IF "postroll" \in opts THEN "begin" ELSE "concat"]
    /\ prog' = [prog EXCEPT ![Clip] = IF "postroll" \in opts THEN "clipPost" ELSE "clipEnd"]
    /\ UNCHANGED <<opts, intent, mode, session, tracked, procs, counts, shutting, bounds, ghosts>>

\* restart_preroll_recorder_after_finalize.
ClipRestarts ==
    /\ prog[Clip] \in {"clipPost", "clipEnd"} /\ MayEnter(Clip)
    /\ Goto(Clip, RingStep(ring))
    /\ TakesLock(Clip, RingStep(ring))
    /\ UNCHANGED <<opts, intent, mode, session, tracked, procs, prog, held, counts, shutting, bounds,
                   ghosts>>

\* The post-roll wait is over, or there is none.
PostrollEnds ==
    /\ pc[Clip] = "postroll"
    /\ pc' = [pc EXCEPT ![Clip] = "concat"]
    /\ prog' = [prog EXCEPT ![Clip] = "none"]
    /\ UNCHANGED <<opts, intent, mode, session, tracked, procs, lock, held, counts, shutting, bounds,
                   ghosts>>

\* Mutant: a clip that could not be built ends without its finally clause.
ConcatReturns ==
    /\ pc[Clip] = "concat" /\ lock = Free
    /\ \E shipped \in BOOLEAN : pc' = [pc EXCEPT ![Clip] =
            IF prog[Clip] = "clipEnd" /\ shipped THEN "begin" ELSE "idle"]
    /\ UNCHANGED <<opts, intent, mode, session, tracked, procs, lock, prog, held, counts, shutting,
                   bounds, ghosts>>

\* create_motion_clip under the recorder lock, shipped or not; the ring that was
\* stopped for it is started again in the finally clause.
Concat ==
    /\ pc[Clip] = "concat" /\ lock = Free
    /\ pc' = [pc EXCEPT ![Clip] = IF prog[Clip] = "clipEnd" THEN "begin" ELSE "idle"]
    /\ UNCHANGED <<opts, intent, mode, session, tracked, procs, lock, prog, held, counts, shutting,
                   bounds, ghosts>>

-----------------------------------------------------------------------------
\* ------------------------------------------------------ unload

\* _async_cancel_coordinator_tasks: no more spawns, then stop_all.
Unloads ==
    /\ pc[Unload] = "idle"
    /\ shutting' = TRUE
    /\ pc' = [pc EXCEPT ![Unload] = "begin"]
    /\ prog' = [prog EXCEPT ![Unload] = "sweep"]
    /\ owed' = FALSE
    /\ UNCHANGED <<opts, intent, mode, session, tracked, procs, lock, held, counts, bounds, rejected>>

\* Then the tracked tasks are cancelled: watchers and a clip.
TasksCancelled ==
    /\ pc[Unload] = "swept"
    /\ LET hit == {t \in Procs \cup {Clip} : pc[t] \notin {"idle", "done"}}
       IN  /\ pc' = [t \in Tasks |-> IF t \in hit \cup {Unload} THEN "done" ELSE pc[t]]
           /\ held' = [t \in Tasks |-> IF t \in hit THEN 0 ELSE held[t]]
           /\ lock' = IF lock \in hit THEN Free ELSE lock
    /\ UNCHANGED <<opts, intent, mode, session, tracked, procs, prog, counts, shutting, bounds, ghosts>>

-----------------------------------------------------------------------------
Runs(t) ==
    \/ StopsRing(t) \/ StopsRec(t) \/ RecGone(t) \/ UrlWaited(t) \/ Spawns(t)
    \/ SpawnFails(t) \/ Registers(t) \/ RespawnsRing(t) \/ RingSpawns(t)
    \/ RingRegisters(t) \/ RingWatched(t)
Assembles == NothingToFinalize \/ Finalized \/ ClipRestarts \/ PostrollEnds \/ Concat
Watches(p) == NotMine(p) \/ RecorderDied(p) \/ RingDied(p) \/ Wakes(p)
Outside(c) == SwitchOn(c) \/ SwitchOff(c) \/ SessionReady(c) \/ SessionRemote(c) \/ TearDown(c)

Next ==
    \/ \E t \in Tasks : Runs(t)
    \/ \E c \in Callers : Outside(c) \/ Saved(c)
    \/ \E c \in Callers, m \in {"continuous", "event_buffered"} : SelectMode(c, m)
    \/ \E p \in Procs : Watches(p)
    \/ \E p \in Procs, reason \in {"signal", "auth", "crash", "disk"} : Exits(p, reason)
    \/ \E k \in {"rec", "ring"} : WindowPasses(k)
    \/ Assembles \/ MotionEvent \/ SessionOpens \/ SweepGoesOn \/ Unloads \/ TasksCancelled

Spec == Init /\ [][Next]_vars

\* The event loop's own steps: an await that ends, a signalled process that exits.
System ==
    \/ \E t \in Tasks : Runs(t)
    \/ \E c \in Callers : Saved(c)
    \/ \E p \in Procs : Watches(p) \/ Exits(p, "signal")
    \/ Assembles \/ SweepGoesOn \/ TasksCancelled

\* The loop goes on while it can.  No fairness among tasks is needed: each takes a
\* bounded number of steps.
Fairness == WF_vars(System)
FairSpec == Spec /\ Fairness

-----------------------------------------------------------------------------
TypeOK ==
    /\ opts \in ClipOptions
    /\ intent \in BOOLEAN /\ url \in BOOLEAN /\ shutting \in BOOLEAN /\ owed \in BOOLEAN
    /\ mode \in {"continuous", "event_buffered"}
    /\ sess \in {"none", "LOCAL", "REMOTE"}
    /\ rec \in 0..MaxProcs /\ ring \in 0..MaxProcs /\ spawned \in 0..MaxProcs
    /\ ps \in [Procs -> {"none", "alive", "dying", "gone"}]
    /\ kind \in [Procs -> {"rec", "ring"}]
    /\ why \in [Procs -> {"none", "signal", "auth", "crash", "disk"}]
    /\ lock \in Tasks \cup {Free}
    /\ pc \in [Tasks -> {"idle", "save", "begin", "ringExit", "recExit", "url", "dirs",
                         "spawned", "ringDirs", "ringSpawned", "ringPrune", "watch", "sleep",
                         "postroll", "concat", "swept", "done"}]
    /\ prog \in [Tasks -> {"none", "start", "retry", "ring", "stop", "sweep", "unload",
                           "clip", "clipPost", "clipEnd"}]
    /\ held \in [Tasks -> 0..MaxProcs]
    /\ recent \in [{"rec", "ring"} -> BOOLEAN]
    /\ authRetries \in Nat /\ refusals \in Nat /\ older \in Nat
    /\ calls \in 0..MaxCalls /\ events \in 0..MaxEvents

\* However starts, respawns, mode changes and clips overlap, at most one recorder and one
\* ring of the camera run that nobody has told to stop, and each is in its dict or about
\* to be: no ffmpeg is left behind untracked (GitHub #64, the double-spawn guard).
OneTrackedWriter ==
    /\ \A p, q \in Procs : Alive(p) /\ Alive(q) /\ kind[p] = kind[q] => p = q
    /\ \A p \in Procs : Alive(p) => p \in {rec, ring} \/ \E t \in Tasks : held[t] = p

\* Credentials the camera rejects are not tried for ever: between two starts that are no
\* retries there are at most MaxAuth + 1 rejections (start_recorder's is_auto_retry), and
\* one more for each older retry that the second start overtook while it still slept.
AuthRetriesEnd == refusals <= MaxAuth + 1 + older

\* A clip that stopped the ring gives it back, whether the clip was shipped or not
\* (GitHub #50), unless something else changed meanwhile.
ClipGivesRingBack == pc[Clip] = "idle" => ~owed

\* When the unload has swept, no ffmpeg runs on, whatever was in flight (stop_all).
NothingSurvivesUnload == pc[Unload] \in {"swept", "done"} => \A p \in Procs : ~Alive(p)

\* No ffmpeg runs that nobody knows of, nor one after the unload.
NoStrayWriter == OneTrackedWriter /\ NothingSurvivesUnload

\* Every call, respawn and clip comes to its end, and so does the unload: no task waits
\* for ever for a recorder lock, for a process or for a stream that never gets ready.
EveryTaskEnds ==
    []<>(/\ \A t \in Tasks : pc[t] \in {"idle", "watch", "done"}
         /\ lock = Free)

\* The user's OFF is honoured: when nothing is in progress any more, nothing records.
OffIsHonoured ==
    (~intent /\ (\A t \in Tasks : pc[t] \in {"idle", "watch", "done"}) /\ lock = Free)
        => \A p \in Procs : ~Alive(p)
=============================================================================
