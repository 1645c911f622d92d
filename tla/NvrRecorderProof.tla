------------------------- MODULE NvrRecorderProof -------------------------
(***************************************************************************)
(* What NvrRecorder keeps for any number of processes, calls and motion    *)
(* events: no ffmpeg runs that no dict knows of, nor one after the unload; *)
(* rejected credentials are given up; a clip gives the ring back.          *)
(*                                                                         *)
(* The recorder lock carries the first: who has stopped the old children   *)
(* and not yet registered the new one holds it (Locked), so that the dicts *)
(* stay empty meanwhile (NoneWhileStarting), and a child that runs is in   *)
(* its dict or in the hands of the one task between spawn and registration *)
(* (Tracked).  stop_recorder takes no lock; it only empties the dicts.     *)
(***************************************************************************)
EXTENDS NvrRecorder, FiniteSetTheorems, TLAPS

-----------------------------------------------------------------------------
\* ------------------------------------------------------ the invariant

Kinds == {"rec", "ring"}
States == {"none", "alive", "dying", "gone"}
Reasons == {"none", "signal", "auth", "crash", "disk"}
Steps == {"idle", "save", "begin", "ringExit", "recExit", "url", "dirs", "spawned", "ringDirs",
          "ringSpawned", "ringPrune", "watch", "sleep", "postroll", "concat", "swept", "done"}
Programs == {"none", "start", "retry", "ring", "stop", "sweep", "unload", "clip", "clipPost",
             "clipEnd"}

TypeSession ==
    /\ opts \in ClipOptions
    /\ intent \in BOOLEAN /\ url \in BOOLEAN /\ shutting \in BOOLEAN /\ owed \in BOOLEAN
    /\ mode \in {"continuous", "event_buffered"}
    /\ sess \in {"none", "LOCAL", "REMOTE"}
TypeProcs ==
    /\ rec \in 0..MaxProcs /\ ring \in 0..MaxProcs /\ spawned \in 0..MaxProcs
    /\ ps \in [Procs -> States]
    /\ kind \in [Procs -> Kinds]
    /\ why \in [Procs -> Reasons]
TypePlaces == lock \in Tasks \cup {Free} /\ pc \in [Tasks -> Steps]
TypeTasks == prog \in [Tasks -> Programs] /\ held \in [Tasks -> 0..MaxProcs]
TypeCounts ==
    /\ authRetries \in Nat /\ refusals \in Nat /\ older \in Nat
    /\ calls \in 0..MaxCalls /\ events \in 0..MaxEvents
TypeRecent == recent \in [Kinds -> BOOLEAN]

\* Which program a task may run.
OwnPrograms ==
    /\ \A p \in Procs : prog[p] \in {"none", "start", "retry", "ring"}
    /\ \A c \in Callers : prog[c] \in {"none", "start", "stop"}
    /\ prog[Clip] \in {"none", "clip", "clipPost", "clipEnd"}

\* The unload: the flag, the ring, the recorder.
UnloadSteps ==
    /\ prog[Unload] = "none" => pc[Unload] = "idle"
    /\ prog[Unload] = "sweep" => pc[Unload] \in {"begin", "ringExit"}
    /\ prog[Unload] = "unload" => pc[Unload] \in {"begin", "ringExit", "recExit", "swept", "done"}
    /\ prog[Unload] \in {"none", "sweep", "unload"}
    /\ pc[Unload] # "idle" => shutting

Typed ==
    /\ TypeSession /\ TypeProcs /\ TypePlaces /\ TypeTasks /\ TypeCounts /\ TypeRecent
    /\ OwnPrograms /\ UnloadSteps

\* Inside the section the recorder lock guards.
Critical(t) ==
    \/ pc[t] \in {"url", "dirs", "spawned", "ringDirs", "ringSpawned", "ringPrune"}
    \/ pc[t] \in {"ringExit", "recExit"} /\ prog[t] # "stop"

\* Who is inside holds the lock.
Locked == \A t \in Tasks : Critical(t) => lock = t

\* Processes are numbered in the order they are spawned, and each dict has its kind.
InOrder == \A p \in Procs : ps[p] # "none" => p <= spawned
DictsFit ==
    /\ rec # 0 => rec \in Procs /\ kind[rec] = "rec" /\ ps[rec] # "none"
    /\ ring # 0 => ring \in Procs /\ kind[ring] = "ring" /\ ps[ring] # "none"
HandsFit == \A t \in Tasks :
    /\ pc[t] = "spawned" =>
          held[t] \in Procs /\ kind[held[t]] = "rec" /\ ps[held[t]] # "none"
    /\ pc[t] = "ringSpawned" =>
          held[t] \in Procs /\ kind[held[t]] = "ring" /\ ps[held[t]] # "none"

\* The old children are out of the dicts until the new one is registered.
NoRecorder == \A t \in Tasks :
    /\ pc[t] \in {"url", "dirs", "spawned"} => rec = 0
    /\ pc[t] = "recExit" /\ prog[t] # "stop" => rec = 0
NoRing == \A t \in Tasks : Critical(t) /\ pc[t] # "ringPrune" => ~Alive(ring)

\* A child that runs is in its dict or about to be.
RecorderTracked == \A p \in Procs :
    ps[p] = "alive" /\ kind[p] = "rec" =>
        p = rec \/ \E t \in Tasks : pc[t] = "spawned" /\ held[t] = p
RingTracked == \A p \in Procs :
    ps[p] = "alive" /\ kind[p] = "ring" =>
        p = ring \/ \E t \in Tasks : pc[t] = "ringSpawned" /\ held[t] = p

\* Once stop_all_preroll is through there is no ring and none to come; once the recorder
\* is signalled too, nothing runs.
RingsSwept == prog[Unload] = "unload" =>
    /\ shutting
    /\ \A t \in Tasks : pc[t] \notin {"ringDirs", "ringSpawned"}
    /\ \A p \in Procs : ps[p] = "alive" => kind[p] = "rec"
AllSwept == prog[Unload] = "unload" /\ pc[Unload] # "begin" => \A p \in Procs : ps[p] # "alive"

Written ==
    /\ Locked /\ InOrder /\ DictsFit /\ HandsFit /\ NoRecorder /\ NoRing
    /\ RecorderTracked /\ RingTracked /\ RingsSwept /\ AllSwept

\* The ring is owed by a clip that is on its way to start it again, and that will.
ClipOwes == owed =>
    /\ RingWanted /\ ring = 0
    /\ \/ prog[Clip] = "clip" /\ pc[Clip] = "ringExit"
       \/ prog[Clip] = "clipPost" /\ pc[Clip] \in {"begin", "ringDirs", "ringSpawned"}
       \/ prog[Clip] = "clipEnd" /\ pc[Clip] \in {"begin", "ringDirs", "ringSpawned", "concat"}

\* A rejection below the limit makes a retry of the recorder it found; one above the limit
\* uses the recorder up.
Recorders == IF rec = 0 THEN 0 ELSE 1
Chances == Cardinality(Retrying) + Recorders
RetriesUsedUp ==
    /\ refusals = authRetries
    /\ Chances <= older + 1
    /\ refusals > MaxAuth => refusals + Chances <= MaxAuth + older + 1

IInv == Typed /\ Written /\ ClipOwes /\ RetriesUsedUp

-----------------------------------------------------------------------------
\* ------------------------------------------------------ where a step leads

\* RingStep is the end or the directories; for a live ring, and after the shutdown flag,
\* it is the end.
LEMMA RingSteps ==
  ASSUME NEW r
  PROVE  /\ RingStep(r) \in {"end", "ringDirs"}
         /\ shutting \/ Alive(r) => RingStep(r) = "end"
BY DEF RingStep, RingWanted

\* StartStep is the end or the next await of a start.
LEMMA StartSteps ==
  /\ StartStep \in {"end", "url", "dirs", "ringDirs"}
  /\ shutting => StartStep # "ringDirs"
BY RingSteps DEF StartStep

\* A program ends outside every section.
LEMMA EndsOutside ==
  ASSUME NEW t \in Tasks
  PROVE  /\ Ends(t) \in {"postroll", "done", "swept", "idle"}
         /\ t \in Procs /\ prog[t] # "clipPost" => Ends(t) = "done"
         /\ t = Unload /\ prog[t] # "clipPost" => Ends(t) = "swept"
BY DEF Ends, Procs, Unload

-----------------------------------------------------------------------------
\* ------------------------------------------------------ Typed

\* The sleeping retries are counted.
LEMMA RetryingCounted ==
  IsFiniteSet(Retrying) /\ Cardinality(Retrying) \in Nat
<1>1. IsFiniteSet(Procs)
  BY FS_Interval, NvrAssumption DEF Procs
<1>2. Retrying \subseteq Procs
  BY DEF Retrying
<1>. QED BY <1>1, <1>2, FS_Subset, FS_CardinalityType

\* Whoever registers ends its program, and the watcher of what it registered begins.
LEMMA HandsOver ==
  ASSUME TypePlaces, TypeTasks, NEW t \in Tasks, Registers(t) \/ RingWatched(t)
  PROVE  /\ pc'[t] = Ends(t)
         /\ \A u \in Tasks : u # t => pc'[u] = IF u = held[t] THEN "watch" ELSE pc[u]
         /\ prog' = prog
         /\ held' = [held EXCEPT ![t] = 0]
BY EndsOutside DEF Registers, RingWatched, TypePlaces, TypeTasks, procs

\* A start spawns the next process and has it in hand, or it ends.
SpawnsNext(t) ==
    /\ pc[t] = "dirs" /\ spawned < MaxProcs /\ spawned' = spawned + 1 /\ ~shutting
    /\ ps' = [ps EXCEPT ![spawned + 1] = "alive"]
    /\ kind' = [kind EXCEPT ![spawned + 1] = "rec"]
    /\ held' = [held EXCEPT ![t] = spawned + 1]
    /\ pc' = [pc EXCEPT ![t] = "spawned"]
    /\ UNCHANGED <<why, lock, rec, ring, prog, shutting>>
SpawnsNothing(t) ==
    /\ pc[t] = "dirs" /\ pc' = [pc EXCEPT ![t] = Ends(t)]
    /\ lock' = (IF lock = t THEN Free ELSE lock)
    /\ UNCHANGED <<spawned, ps, kind, why, held, rec, ring, prog, shutting>>

\* A start of a child spawns it, or does not and ends.
LEMMA SpawnsOrNot ==
  ASSUME NEW t \in Tasks, Spawns(t)
  PROVE  SpawnsNext(t) \/ SpawnsNothing(t)
<1>1. CASE shutting \/ sess # "LOCAL"
  BY <1>1 DEF Spawns, Goto, KeepsLock, SpawnsNothing, tracked, procs
<1>2. CASE ~(shutting \/ sess # "LOCAL")
  BY <1>2 DEF Spawns, Goto, SpawnsNext, tracked
<1>. QED BY <1>1, <1>2

\* The session, the mode and the flags.
LEMMA SessionTyped ==
  ASSUME TypeSession, [Next]_vars
  PROVE  TypeSession'
<1>. USE DEF tracked, procs, tasks, session, ghosts, rejected, counts, bounds
<1>1. ASSUME NEW t \in Tasks, Runs(t)
      PROVE  TypeSession'
  <2>1. CASE StopsRing(t)
    BY <2>1 DEF StopsRing, MayEnter, Alive, Signal, Goto, TakesLock, TypeSession
  <2>2. CASE StopsRec(t)
    BY <2>2 DEF StopsRec, RingGone, HeldIsGone, MayEnter, Alive, Signal, Goto, TakesLock,
       KeepsLock, TypeSession
  <2>3. CASE SpawnFails(t)
    BY <2>3 DEF SpawnFails, Goto, KeepsLock, TypeSession
  <2>4. CASE RingRegisters(t)
    BY <2>4 DEF RingRegisters, Goto, TypeSession
  <2>5. CASE \/ RecGone(t) \/ UrlWaited(t) \/ Spawns(t) \/ Registers(t) \/ RespawnsRing(t)
             \/ RingSpawns(t) \/ RingWatched(t)
    <3>1. UNCHANGED <<intent, mode, opts, owed, sess, shutting, url>>
      BY <2>5 DEF RecGone, UrlWaited, Spawns, Registers, RespawnsRing, RingSpawns,
         RingWatched, HeldIsGone, Goto, KeepsLock, RingGone, MayEnter, Alive
    <3>. QED BY <3>1 DEF TypeSession
  <2>. QED BY <1>1, <2>1, <2>2, <2>3, <2>4, <2>5 DEF Runs
<1>2. ASSUME NEW c \in Callers, Outside(c)
      PROVE  TypeSession'
  <2>1. CASE SwitchOn(c)
    BY <2>1 DEF SwitchOn, Calls, TypeSession
  <2>2. CASE SwitchOff(c)
    BY <2>2 DEF SwitchOff, Calls, TypeSession
  <2>3. CASE SessionReady(c)
    BY <2>3 DEF SessionReady, Calls, Quiet, TypeSession
  <2>4. CASE SessionRemote(c)
    BY <2>4 DEF SessionRemote, Calls, Quiet, TypeSession
  <2>5. CASE TearDown(c)
    BY <2>5 DEF TearDown, Calls, Quiet, TypeSession
  <2>. QED BY <1>2, <2>1, <2>2, <2>3, <2>4, <2>5 DEF Outside
<1>3. ASSUME NEW c \in Callers, NEW m \in {"continuous", "event_buffered"}, SelectMode(c, m)
      PROVE  TypeSession'
  BY <1>3 DEF SelectMode, Calls, Quiet, TypeSession
<1>4. CASE SessionOpens
  BY <1>4 DEF SessionOpens, TypeSession
<1>5. CASE Unloads
  BY <1>5 DEF Unloads, TypeSession
<1>6. CASE \/ (\E p \in Procs : Watches(p)) \/ (\E c \in Callers : Saved(c))
           \/ (\E p \in Procs, reason \in {"signal", "auth", "crash", "disk"} : Exits(p, reason))
           \/ (\E k \in {"rec", "ring"} : WindowPasses(k)) \/ NothingToFinalize \/ Finalized
           \/ ClipRestarts \/ PostrollEnds \/ Concat \/ MotionEvent \/ SweepGoesOn
           \/ TasksCancelled \/ UNCHANGED vars
  <2>1. UNCHANGED <<intent, mode, opts, owed, sess, shutting, url>>
    BY <1>6 DEF Watches, NotMine, RecorderDied, RingDied, Wakes, Saved, Exits, WindowPasses,
       NothingToFinalize, MayEnter, Finalized, HeldIsGone, ClipRestarts, Goto, TakesLock,
       PostrollEnds, Concat, MotionEvent, SweepGoesOn, RingGone, Alive, TasksCancelled, vars
  <2>. QED BY <2>1 DEF TypeSession
<1>. QED BY <1>1, <1>2, <1>3, <1>4, <1>5, <1>6 DEF Next, Assembles

\* The processes.
LEMMA ProcsTyped ==
  ASSUME TypeProcs, TypeTasks, [Next]_vars
  PROVE  TypeProcs'
<1>. USE DEF tracked, procs, tasks, session, ghosts, rejected, counts, bounds
<1>1. ASSUME NEW t \in Tasks, Runs(t)
      PROVE  TypeProcs'
  <2>1. CASE StopsRing(t)
    BY <2>1, NvrAssumption DEF StopsRing, MayEnter, Alive, Signal, Goto, TakesLock,
       TypeProcs, TypeTasks, States, Kinds, Reasons, Tasks, Procs, Callers, Clip, Unload,
       Free
  <2>2. CASE StopsRec(t)
    <3>1. CASE pc[t] = "begin"
      BY <2>2, NvrAssumption, <3>1 DEF StopsRec, RingGone, HeldIsGone, MayEnter, Alive,
         Signal, Goto, TakesLock, KeepsLock, TypeProcs, TypeTasks, States, Kinds, Reasons,
         Tasks, Procs, Callers, Clip, Unload, Free
    <3>2. CASE pc[t] # "begin"
      BY <2>2, NvrAssumption, <3>2 DEF StopsRec, RingGone, HeldIsGone, MayEnter, Alive,
         Signal, Goto, TakesLock, KeepsLock, TypeProcs, TypeTasks, States, Kinds, Reasons,
         Tasks, Procs, Callers, Clip, Unload, Free
    <3>. QED BY <3>1, <3>2
  <2>3. CASE Spawns(t)
    <3>1. SpawnsNext(t) \/ SpawnsNothing(t)
      BY <2>3, SpawnsOrNot
    <3>2. CASE SpawnsNext(t)
      BY <3>2, NvrAssumption DEF SpawnsNext, TypeProcs, TypeTasks, States, Kinds, Reasons,
         Procs
    <3>3. CASE SpawnsNothing(t)
      BY <3>3, EndsOutside DEF SpawnsNothing, TypeProcs, TypeTasks, States, Kinds, Reasons,
         Procs
    <3>. QED BY <3>1, <3>2, <3>3
  <2>4. CASE Registers(t)
    BY <2>4, NvrAssumption DEF Registers, KeepsLock, TypeProcs, TypeTasks, States, Kinds,
       Reasons, Tasks, Procs, Callers, Clip, Unload, Free
  <2>5. CASE RespawnsRing(t)
    <3>1. CASE pc[t] = "begin"
      BY <2>5, NvrAssumption, <3>1 DEF RespawnsRing, RingGone, HeldIsGone, MayEnter, Alive,
         Goto, TypeProcs, TypeTasks, States, Kinds, Reasons, Tasks, Procs, Callers, Clip,
         Unload, Free
    <3>2. CASE pc[t] # "begin"
      BY <2>5, NvrAssumption, <3>2 DEF RespawnsRing, RingGone, HeldIsGone, MayEnter, Alive,
         Goto, TypeProcs, TypeTasks, States, Kinds, Reasons, Tasks, Procs, Callers, Clip,
         Unload, Free
    <3>. QED BY <3>1, <3>2
  <2>6. CASE RingSpawns(t)
    BY <2>6, NvrAssumption DEF RingSpawns, Goto, TypeProcs, TypeTasks, States, Kinds,
       Reasons, Tasks, Procs, Callers, Clip, Unload, Free
  <2>7. CASE RingRegisters(t)
    BY <2>7, NvrAssumption DEF RingRegisters, Goto, TypeProcs, TypeTasks, States, Kinds,
       Reasons, Tasks, Procs, Callers, Clip, Unload, Free
  <2>8. CASE \/ RecGone(t) \/ UrlWaited(t) \/ SpawnFails(t) \/ RingWatched(t)
    <3>1. UNCHANGED <<kind, ps, rec, ring, spawned, why>>
      BY <2>8 DEF RecGone, UrlWaited, SpawnFails, RingWatched, HeldIsGone, Goto, KeepsLock
    <3>. QED BY <3>1 DEF TypeProcs
  <2>. QED BY <1>1, <2>1, <2>2, <2>3, <2>4, <2>5, <2>6, <2>7, <2>8 DEF Runs
<1>2. ASSUME NEW p \in Procs, Watches(p)
      PROVE  TypeProcs'
  <2>1. CASE NotMine(p)
    BY <2>1, NvrAssumption DEF NotMine, TypeProcs, TypeTasks, States, Kinds, Reasons, Tasks,
       Procs, Callers, Clip, Unload, Free
  <2>2. CASE RecorderDied(p)
    BY <2>2, NvrAssumption DEF RecorderDied, TypeProcs, TypeTasks, States, Kinds, Reasons,
       Tasks, Procs, Callers, Clip, Unload, Free
  <2>3. CASE RingDied(p)
    BY <2>3, NvrAssumption DEF RingDied, TypeProcs, TypeTasks, States, Kinds, Reasons,
       Tasks, Procs, Callers, Clip, Unload, Free
  <2>4. CASE Wakes(p)
    <3>1. UNCHANGED <<kind, ps, rec, ring, spawned, why>>
      BY <2>4 DEF Wakes
    <3>. QED BY <3>1 DEF TypeProcs
  <2>. QED BY <1>2, <2>1, <2>2, <2>3, <2>4 DEF Watches
<1>3. ASSUME NEW p \in Procs, NEW reason \in {"signal", "auth", "crash", "disk"}, Exits(p, reason)
      PROVE  TypeProcs'
  BY <1>3, NvrAssumption DEF Exits, TypeProcs, TypeTasks, States, Kinds, Reasons, Tasks,
     Procs, Callers, Clip, Unload, Free
<1>4. CASE SweepGoesOn
  <2>1. CASE pc[Unload] = "begin"
    BY <1>4, NvrAssumption, <2>1 DEF SweepGoesOn, RingGone, HeldIsGone, MayEnter, Alive,
       TypeProcs, TypeTasks, States, Kinds, Reasons, Tasks, Procs, Callers, Clip, Unload,
       Free
  <2>2. CASE pc[Unload] # "begin"
    BY <1>4, NvrAssumption, <2>2 DEF SweepGoesOn, RingGone, HeldIsGone, MayEnter, Alive,
       TypeProcs, TypeTasks, States, Kinds, Reasons, Tasks, Procs, Callers, Clip, Unload,
       Free
  <2>. QED BY <2>1, <2>2
<1>5. CASE \/ (\E c \in Callers : Outside(c)) \/ (\E c \in Callers : Saved(c))
           \/ (\E c \in Callers, m \in {"continuous", "event_buffered"} : SelectMode(c, m))
           \/ (\E k \in {"rec", "ring"} : WindowPasses(k)) \/ NothingToFinalize \/ Finalized
           \/ ClipRestarts \/ PostrollEnds \/ Concat \/ MotionEvent \/ SessionOpens
           \/ Unloads \/ TasksCancelled \/ UNCHANGED vars
  <2>1. UNCHANGED <<kind, ps, rec, ring, spawned, why>>
    BY <1>5 DEF Outside, SwitchOn, SwitchOff, SessionReady, SessionRemote, TearDown, Calls,
       Quiet, Saved, SelectMode, WindowPasses, NothingToFinalize, MayEnter, Finalized,
       HeldIsGone, ClipRestarts, Goto, TakesLock, PostrollEnds, Concat, MotionEvent,
       SessionOpens, Unloads, TasksCancelled, vars
  <2>. QED BY <2>1 DEF TypeProcs
<1>. QED BY <1>1, <1>2, <1>3, <1>4, <1>5 DEF Next, Assembles

\* Where the tasks are.
LEMMA PlacesTyped ==
  ASSUME TypePlaces, [Next]_vars
  PROVE  TypePlaces'
<1>. USE DEF tracked, procs, tasks, session, ghosts, rejected, counts, bounds
<1>1. ASSUME NEW t \in Tasks, Runs(t)
      PROVE  TypePlaces'
  <2>1. CASE StopsRing(t)
    BY <2>1 DEF StopsRing, MayEnter, Alive, Signal, Goto, TakesLock, TypePlaces, Steps,
       Tasks, Procs, Callers, Clip, Unload, Free
  <2>2. CASE StopsRec(t)
    <3>1. CASE pc[t] = "begin"
      BY <2>2, RingSteps, StartSteps, EndsOutside, <3>1 DEF StopsRec, RingGone, HeldIsGone,
         MayEnter, Alive, Signal, Goto, TakesLock, KeepsLock, TypePlaces, Steps, Tasks,
         Procs, Callers, Clip, Unload, Free
    <3>2. CASE pc[t] # "begin"
      BY <2>2, RingSteps, StartSteps, EndsOutside, <3>2 DEF StopsRec, RingGone, HeldIsGone,
         MayEnter, Alive, Signal, Goto, TakesLock, KeepsLock, TypePlaces, Steps, Tasks,
         Procs, Callers, Clip, Unload, Free
    <3>. QED BY <3>1, <3>2
  <2>3. CASE RecGone(t)
    BY <2>3, RingSteps, StartSteps, EndsOutside DEF RecGone, HeldIsGone, Goto, KeepsLock,
       TypePlaces, Steps, Tasks, Procs, Callers, Clip, Unload, Free
  <2>4. CASE UrlWaited(t)
    BY <2>4, RingSteps, StartSteps, EndsOutside DEF UrlWaited, Goto, KeepsLock, TypePlaces,
       Steps, Tasks, Procs, Callers, Clip, Unload, Free
  <2>5. CASE Spawns(t)
    <3>1. CASE shutting \/ sess # "LOCAL"
      BY <2>5, RingSteps, StartSteps, EndsOutside, <3>1 DEF Spawns, Goto, KeepsLock,
         TypePlaces, Steps, Tasks, Procs, Callers, Clip, Unload, Free
    <3>2. CASE ~(shutting \/ sess # "LOCAL")
      BY <2>5, RingSteps, StartSteps, EndsOutside, <3>2 DEF Spawns, Goto, KeepsLock,
         TypePlaces, Steps, Tasks, Procs, Callers, Clip, Unload, Free
    <3>. QED BY <3>1, <3>2
  <2>6. CASE SpawnFails(t)
    BY <2>6, RingSteps, StartSteps, EndsOutside DEF SpawnFails, Goto, KeepsLock, TypePlaces,
       Steps, Tasks, Procs, Callers, Clip, Unload, Free
  <2>7. CASE Registers(t)
    BY <2>7, RingSteps, StartSteps, EndsOutside DEF Registers, KeepsLock, TypePlaces, Steps,
       Tasks, Procs, Callers, Clip, Unload, Free
  <2>8. CASE RespawnsRing(t)
    <3>1. CASE pc[t] = "begin"
      BY <2>8, RingSteps, StartSteps, EndsOutside, <3>1 DEF RespawnsRing, RingGone,
         HeldIsGone, MayEnter, Alive, Goto, TypePlaces, Steps, Tasks, Procs, Callers, Clip,
         Unload, Free
    <3>2. CASE pc[t] # "begin"
      BY <2>8, RingSteps, StartSteps, EndsOutside, <3>2 DEF RespawnsRing, RingGone,
         HeldIsGone, MayEnter, Alive, Goto, TypePlaces, Steps, Tasks, Procs, Callers, Clip,
         Unload, Free
    <3>. QED BY <3>1, <3>2
  <2>9. CASE RingSpawns(t)
    BY <2>9 DEF RingSpawns, Goto, TypePlaces, Steps, Tasks, Procs, Callers, Clip, Unload,
       Free
  <2>10. CASE RingRegisters(t)
    BY <2>10 DEF RingRegisters, Goto, TypePlaces, Steps, Tasks, Procs, Callers, Clip,
       Unload, Free
  <2>11. CASE RingWatched(t)
    BY <2>11, RingSteps, StartSteps, EndsOutside DEF RingWatched, KeepsLock, TypePlaces,
       Steps, Tasks, Procs, Callers, Clip, Unload, Free
  <2>. QED BY <1>1, <2>1, <2>2, <2>3, <2>4, <2>5, <2>6, <2>7, <2>8, <2>9, <2>10, <2>11 DEF
     Runs
<1>2. ASSUME NEW c \in Callers, Outside(c)
      PROVE  TypePlaces'
  <2>1. CASE SwitchOn(c)
    BY <2>1 DEF SwitchOn, Calls, TypePlaces, Steps, Tasks, Procs, Callers, Clip, Unload,
       Free
  <2>2. CASE SwitchOff(c)
    BY <2>2 DEF SwitchOff, Calls, TypePlaces, Steps, Tasks, Procs, Callers, Clip, Unload,
       Free
  <2>3. CASE SessionReady(c)
    <3>1. CASE intent
      BY <2>3, <3>1 DEF SessionReady, Calls, Quiet, TypePlaces, Steps, Tasks, Procs,
         Callers, Clip, Unload, Free
    <3>2. CASE ~intent
      BY <2>3, <3>2 DEF SessionReady, Calls, Quiet, TypePlaces, Steps, Tasks, Procs,
         Callers, Clip, Unload, Free
    <3>. QED BY <3>1, <3>2
  <2>4. CASE SessionRemote(c)
    BY <2>4 DEF SessionRemote, Calls, Quiet, TypePlaces, Steps, Tasks, Procs, Callers, Clip,
       Unload, Free
  <2>5. CASE TearDown(c)
    BY <2>5 DEF TearDown, Calls, Quiet, TypePlaces, Steps, Tasks, Procs, Callers, Clip,
       Unload, Free
  <2>. QED BY <1>2, <2>1, <2>2, <2>3, <2>4, <2>5 DEF Outside
<1>3. ASSUME NEW p \in Procs, Watches(p)
      PROVE  TypePlaces'
  <2>1. CASE NotMine(p)
    BY <2>1 DEF NotMine, TypePlaces, Steps, Tasks, Procs, Callers, Clip, Unload, Free
  <2>2. CASE RecorderDied(p)
    BY <2>2 DEF RecorderDied, TypePlaces, Steps, Tasks, Procs, Callers, Clip, Unload, Free
  <2>3. CASE RingDied(p)
    BY <2>3 DEF RingDied, TypePlaces, Steps, Tasks, Procs, Callers, Clip, Unload, Free
  <2>4. CASE Wakes(p)
    BY <2>4 DEF Wakes, TypePlaces, Steps, Tasks, Procs, Callers, Clip, Unload, Free
  <2>. QED BY <1>3, <2>1, <2>2, <2>3, <2>4 DEF Watches
<1>4. ASSUME NEW c \in Callers, Saved(c)
      PROVE  TypePlaces'
  BY <1>4 DEF Saved, TypePlaces, Steps, Tasks, Procs, Callers, Clip, Unload, Free
<1>5. ASSUME NEW c \in Callers, NEW m \in {"continuous", "event_buffered"}, SelectMode(c, m)
      PROVE  TypePlaces'
  BY <1>5 DEF SelectMode, Calls, Quiet, TypePlaces, Steps, Tasks, Procs, Callers, Clip,
     Unload, Free
<1>6. CASE NothingToFinalize
  BY <1>6 DEF NothingToFinalize, MayEnter, TypePlaces, Steps, Tasks, Procs, Callers, Clip,
     Unload, Free
<1>7. CASE Finalized
  BY <1>7 DEF Finalized, HeldIsGone, TypePlaces, Steps, Tasks, Procs, Callers, Clip, Unload,
     Free
<1>8. CASE ClipRestarts
  <2>1. CASE RingStep(ring) = "end"
    BY <1>8, RingSteps, StartSteps, EndsOutside, <2>1 DEF ClipRestarts, MayEnter, Goto,
       TakesLock, TypePlaces, Steps, Tasks, Procs, Callers, Clip, Unload, Free
  <2>2. CASE RingStep(ring) # "end"
    BY <1>8, RingSteps, StartSteps, EndsOutside, <2>2 DEF ClipRestarts, MayEnter, Goto,
       TakesLock, TypePlaces, Steps, Tasks, Procs, Callers, Clip, Unload, Free
  <2>. QED BY <2>1, <2>2
<1>9. CASE PostrollEnds
  BY <1>9 DEF PostrollEnds, TypePlaces, Steps, Tasks, Procs, Callers, Clip, Unload, Free
<1>10. CASE Concat
  BY <1>10 DEF Concat, TypePlaces, Steps, Tasks, Procs, Callers, Clip, Unload, Free
<1>11. CASE MotionEvent
  BY <1>11 DEF MotionEvent, TypePlaces, Steps, Tasks, Procs, Callers, Clip, Unload, Free
<1>12. CASE SweepGoesOn
  <2>1. CASE pc[Unload] = "begin"
    BY <1>12, <2>1 DEF SweepGoesOn, RingGone, HeldIsGone, MayEnter, Alive, TypePlaces,
       Steps, Tasks, Procs, Callers, Clip, Unload, Free
  <2>2. CASE pc[Unload] # "begin"
    BY <1>12, <2>2 DEF SweepGoesOn, RingGone, HeldIsGone, MayEnter, Alive, TypePlaces,
       Steps, Tasks, Procs, Callers, Clip, Unload, Free
  <2>. QED BY <2>1, <2>2
<1>13. CASE Unloads
  BY <1>13 DEF Unloads, TypePlaces, Steps, Tasks, Procs, Callers, Clip, Unload, Free
<1>14. CASE TasksCancelled
  BY <1>14 DEF TasksCancelled, TypePlaces, Steps, Tasks, Procs, Callers, Clip, Unload, Free
<1>15. CASE \/ (\E p \in Procs, reason \in {"signal", "auth", "crash", "disk"} : Exits(p, reason))
            \/ (\E k \in {"rec", "ring"} : WindowPasses(k)) \/ SessionOpens
            \/ UNCHANGED vars
  <2>1. UNCHANGED <<lock, pc>>
    BY <1>15 DEF Exits, WindowPasses, SessionOpens, vars
  <2>. QED BY <2>1 DEF TypePlaces
<1>. QED BY <1>1, <1>2, <1>3, <1>4, <1>5, <1>6, <1>7, <1>8, <1>9, <1>10, <1>11, <1>12,
   <1>13, <1>14, <1>15 DEF Next, Assembles

\* What the tasks run, and the process they wait for.
LEMMA TasksTyped ==
  ASSUME TypeProcs, TypeTasks, [Next]_vars
  PROVE  TypeTasks'
<1>. USE DEF tracked, procs, tasks, session, ghosts, rejected, counts, bounds
<1>1. ASSUME NEW t \in Tasks, Runs(t)
      PROVE  TypeTasks'
  <2>1. CASE StopsRing(t)
    BY <2>1, NvrAssumption DEF StopsRing, MayEnter, Alive, Signal, Goto, TakesLock,
       TypeTasks, TypeProcs, Programs, Tasks, Procs, Callers, Clip, Unload, Free
  <2>2. CASE StopsRec(t)
    <3>1. CASE pc[t] = "begin"
      BY <2>2, NvrAssumption, <3>1 DEF StopsRec, RingGone, HeldIsGone, MayEnter, Alive,
         Signal, Goto, TakesLock, KeepsLock, TypeTasks, TypeProcs, Programs, Tasks, Procs,
         Callers, Clip, Unload, Free
    <3>2. CASE pc[t] # "begin"
      BY <2>2, NvrAssumption, <3>2 DEF StopsRec, RingGone, HeldIsGone, MayEnter, Alive,
         Signal, Goto, TakesLock, KeepsLock, TypeTasks, TypeProcs, Programs, Tasks, Procs,
         Callers, Clip, Unload, Free
    <3>. QED BY <3>1, <3>2
  <2>3. CASE RecGone(t)
    BY <2>3, NvrAssumption DEF RecGone, HeldIsGone, Goto, KeepsLock, TypeTasks, TypeProcs,
       Programs, Tasks, Procs, Callers, Clip, Unload, Free
  <2>4. CASE Spawns(t)
    <3>1. CASE shutting \/ sess # "LOCAL"
      BY <2>4, NvrAssumption, <3>1 DEF Spawns, Goto, KeepsLock, TypeTasks, TypeProcs,
         Programs, Tasks, Procs, Callers, Clip, Unload, Free
    <3>2. CASE ~(shutting \/ sess # "LOCAL")
      BY <2>4, NvrAssumption, <3>2 DEF Spawns, Goto, KeepsLock, TypeTasks, TypeProcs,
         Programs, Tasks, Procs, Callers, Clip, Unload, Free
    <3>. QED BY <3>1, <3>2
  <2>5. CASE Registers(t)
    BY <2>5, NvrAssumption DEF Registers, KeepsLock, TypeTasks, TypeProcs, Programs, Tasks,
       Procs, Callers, Clip, Unload, Free
  <2>6. CASE RespawnsRing(t)
    <3>1. CASE pc[t] = "begin"
      BY <2>6, NvrAssumption, <3>1 DEF RespawnsRing, RingGone, HeldIsGone, MayEnter, Alive,
         Goto, TypeTasks, TypeProcs, Programs, Tasks, Procs, Callers, Clip, Unload, Free
    <3>2. CASE pc[t] # "begin"
      BY <2>6, NvrAssumption, <3>2 DEF RespawnsRing, RingGone, HeldIsGone, MayEnter, Alive,
         Goto, TypeTasks, TypeProcs, Programs, Tasks, Procs, Callers, Clip, Unload, Free
    <3>. QED BY <3>1, <3>2
  <2>7. CASE RingSpawns(t)
    BY <2>7, NvrAssumption DEF RingSpawns, Goto, TypeTasks, TypeProcs, Programs, Tasks,
       Procs, Callers, Clip, Unload, Free
  <2>8. CASE RingWatched(t)
    BY <2>8, NvrAssumption DEF RingWatched, KeepsLock, TypeTasks, TypeProcs, Programs,
       Tasks, Procs, Callers, Clip, Unload, Free
  <2>9. CASE \/ UrlWaited(t) \/ SpawnFails(t) \/ RingRegisters(t)
    <3>1. UNCHANGED <<held, prog>>
      BY <2>9 DEF UrlWaited, SpawnFails, RingRegisters, Goto, KeepsLock
    <3>. QED BY <3>1 DEF TypeTasks
  <2>. QED BY <1>1, <2>1, <2>2, <2>3, <2>4, <2>5, <2>6, <2>7, <2>8, <2>9 DEF Runs
<1>2. ASSUME NEW c \in Callers, Outside(c)
      PROVE  TypeTasks'
  <2>1. CASE SwitchOn(c)
    BY <2>1, NvrAssumption DEF SwitchOn, Calls, TypeTasks, TypeProcs, Programs, Tasks,
       Procs, Callers, Clip, Unload, Free
  <2>2. CASE SwitchOff(c)
    BY <2>2, NvrAssumption DEF SwitchOff, Calls, TypeTasks, TypeProcs, Programs, Tasks,
       Procs, Callers, Clip, Unload, Free
  <2>3. CASE SessionReady(c)
    <3>1. CASE intent
      BY <2>3, NvrAssumption, <3>1 DEF SessionReady, Calls, Quiet, TypeTasks, TypeProcs,
         Programs, Tasks, Procs, Callers, Clip, Unload, Free
    <3>2. CASE ~intent
      BY <2>3, NvrAssumption, <3>2 DEF SessionReady, Calls, Quiet, TypeTasks, TypeProcs,
         Programs, Tasks, Procs, Callers, Clip, Unload, Free
    <3>. QED BY <3>1, <3>2
  <2>4. CASE SessionRemote(c)
    BY <2>4, NvrAssumption DEF SessionRemote, Calls, Quiet, TypeTasks, TypeProcs, Programs,
       Tasks, Procs, Callers, Clip, Unload, Free
  <2>5. CASE TearDown(c)
    BY <2>5, NvrAssumption DEF TearDown, Calls, Quiet, TypeTasks, TypeProcs, Programs,
       Tasks, Procs, Callers, Clip, Unload, Free
  <2>. QED BY <1>2, <2>1, <2>2, <2>3, <2>4, <2>5 DEF Outside
<1>3. ASSUME NEW p \in Procs, Watches(p)
      PROVE  TypeTasks'
  <2>1. CASE RecorderDied(p)
    BY <2>1, NvrAssumption DEF RecorderDied, TypeTasks, TypeProcs, Programs, Tasks, Procs,
       Callers, Clip, Unload, Free
  <2>2. CASE RingDied(p)
    BY <2>2, NvrAssumption DEF RingDied, TypeTasks, TypeProcs, Programs, Tasks, Procs,
       Callers, Clip, Unload, Free
  <2>3. CASE \/ NotMine(p) \/ Wakes(p)
    <3>1. UNCHANGED <<held, prog>>
      BY <2>3 DEF NotMine, Wakes
    <3>. QED BY <3>1 DEF TypeTasks
  <2>. QED BY <1>3, <2>1, <2>2, <2>3 DEF Watches
<1>4. ASSUME NEW c \in Callers, NEW m \in {"continuous", "event_buffered"}, SelectMode(c, m)
      PROVE  TypeTasks'
  BY <1>4, NvrAssumption DEF SelectMode, Calls, Quiet, TypeTasks, TypeProcs, Programs,
     Tasks, Procs, Callers, Clip, Unload, Free
<1>5. CASE NothingToFinalize
  BY <1>5, NvrAssumption DEF NothingToFinalize, MayEnter, TypeTasks, TypeProcs, Programs,
     Tasks, Procs, Callers, Clip, Unload, Free
<1>6. CASE Finalized
  BY <1>6, NvrAssumption DEF Finalized, HeldIsGone, TypeTasks, TypeProcs, Programs, Tasks,
     Procs, Callers, Clip, Unload, Free
<1>7. CASE PostrollEnds
  BY <1>7, NvrAssumption DEF PostrollEnds, TypeTasks, TypeProcs, Programs, Tasks, Procs,
     Callers, Clip, Unload, Free
<1>8. CASE MotionEvent
  BY <1>8, NvrAssumption DEF MotionEvent, TypeTasks, TypeProcs, Programs, Tasks, Procs,
     Callers, Clip, Unload, Free
<1>9. CASE SweepGoesOn
  <2>1. CASE pc[Unload] = "begin"
    BY <1>9, NvrAssumption, <2>1 DEF SweepGoesOn, RingGone, HeldIsGone, MayEnter, Alive,
       TypeTasks, TypeProcs, Programs, Tasks, Procs, Callers, Clip, Unload, Free
  <2>2. CASE pc[Unload] # "begin"
    BY <1>9, NvrAssumption, <2>2 DEF SweepGoesOn, RingGone, HeldIsGone, MayEnter, Alive,
       TypeTasks, TypeProcs, Programs, Tasks, Procs, Callers, Clip, Unload, Free
  <2>. QED BY <2>1, <2>2
<1>10. CASE Unloads
  BY <1>10, NvrAssumption DEF Unloads, TypeTasks, TypeProcs, Programs, Tasks, Procs,
     Callers, Clip, Unload, Free
<1>11. CASE TasksCancelled
  BY <1>11, NvrAssumption DEF TasksCancelled, TypeTasks, TypeProcs, Programs, Tasks, Procs,
     Callers, Clip, Unload, Free
<1>12. CASE \/ (\E c \in Callers : Saved(c))
            \/ (\E p \in Procs, reason \in {"signal", "auth", "crash", "disk"} : Exits(p, reason))
            \/ (\E k \in {"rec", "ring"} : WindowPasses(k)) \/ ClipRestarts \/ Concat
            \/ SessionOpens \/ UNCHANGED vars
  <2>1. UNCHANGED <<held, prog>>
    BY <1>12 DEF Saved, Exits, WindowPasses, ClipRestarts, MayEnter, Goto, TakesLock,
       Concat, SessionOpens, vars
  <2>. QED BY <2>1 DEF TypeTasks
<1>. QED BY <1>1, <1>2, <1>3, <1>4, <1>5, <1>6, <1>7, <1>8, <1>9, <1>10, <1>11, <1>12 DEF
   Next, Assembles

\* The counts.
LEMMA CountsTyped ==
  ASSUME TypeCounts, [Next]_vars
  PROVE  TypeCounts'
<1>. USE DEF tracked, procs, tasks, session, ghosts, rejected, counts, bounds
<1>1. ASSUME NEW t \in Tasks, Runs(t)
      PROVE  TypeCounts'
  <2>1. CASE Registers(t)
    BY <2>1, RetryingCounted, NvrAssumption DEF Registers, KeepsLock, TypeCounts
  <2>2. CASE \/ StopsRing(t) \/ StopsRec(t) \/ RecGone(t) \/ UrlWaited(t) \/ Spawns(t)
             \/ SpawnFails(t) \/ RespawnsRing(t) \/ RingSpawns(t) \/ RingRegisters(t)
             \/ RingWatched(t)
    <3>1. UNCHANGED <<authRetries, calls, events, older, refusals>>
      BY <2>2 DEF StopsRing, StopsRec, RecGone, UrlWaited, Spawns, SpawnFails, RespawnsRing,
         RingSpawns, RingRegisters, RingWatched, MayEnter, Alive, Signal, Goto, TakesLock,
         RingGone, HeldIsGone, KeepsLock
    <3>. QED BY <3>1 DEF TypeCounts
  <2>. QED BY <1>1, <2>1, <2>2 DEF Runs
<1>2. ASSUME NEW c \in Callers, Outside(c)
      PROVE  TypeCounts'
  <2>1. CASE SwitchOn(c)
    BY <2>1, NvrAssumption DEF SwitchOn, Calls, TypeCounts
  <2>2. CASE SwitchOff(c)
    BY <2>2, NvrAssumption DEF SwitchOff, Calls, TypeCounts
  <2>3. CASE SessionReady(c)
    <3>1. CASE intent
      BY <2>3, NvrAssumption, <3>1 DEF SessionReady, Calls, Quiet, TypeCounts
    <3>2. CASE ~intent
      BY <2>3, NvrAssumption, <3>2 DEF SessionReady, Calls, Quiet, TypeCounts
    <3>. QED BY <3>1, <3>2
  <2>4. CASE SessionRemote(c)
    BY <2>4, NvrAssumption DEF SessionRemote, Calls, Quiet, TypeCounts
  <2>5. CASE TearDown(c)
    BY <2>5, NvrAssumption DEF TearDown, Calls, Quiet, TypeCounts
  <2>. QED BY <1>2, <2>1, <2>2, <2>3, <2>4, <2>5 DEF Outside
<1>3. ASSUME NEW p \in Procs, Watches(p)
      PROVE  TypeCounts'
  <2>1. CASE RecorderDied(p)
    BY <2>1, NvrAssumption DEF RecorderDied, TypeCounts
  <2>2. CASE \/ NotMine(p) \/ RingDied(p) \/ Wakes(p)
    <3>1. UNCHANGED <<authRetries, calls, events, older, refusals>>
      BY <2>2 DEF NotMine, RingDied, Wakes
    <3>. QED BY <3>1 DEF TypeCounts
  <2>. QED BY <1>3, <2>1, <2>2 DEF Watches
<1>4. ASSUME NEW c \in Callers, NEW m \in {"continuous", "event_buffered"}, SelectMode(c, m)
      PROVE  TypeCounts'
  BY <1>4, NvrAssumption DEF SelectMode, Calls, Quiet, TypeCounts
<1>5. CASE MotionEvent
  BY <1>5, NvrAssumption DEF MotionEvent, TypeCounts
<1>6. CASE \/ (\E c \in Callers : Saved(c))
           \/ (\E p \in Procs, reason \in {"signal", "auth", "crash", "disk"} : Exits(p, reason))
           \/ (\E k \in {"rec", "ring"} : WindowPasses(k)) \/ NothingToFinalize \/ Finalized
           \/ ClipRestarts \/ PostrollEnds \/ Concat \/ SessionOpens \/ SweepGoesOn
           \/ Unloads \/ TasksCancelled \/ UNCHANGED vars
  <2>1. UNCHANGED <<authRetries, calls, events, older, refusals>>
    BY <1>6 DEF Saved, Exits, WindowPasses, NothingToFinalize, MayEnter, Finalized,
       HeldIsGone, ClipRestarts, Goto, TakesLock, PostrollEnds, Concat, SessionOpens,
       SweepGoesOn, RingGone, Alive, Unloads, TasksCancelled, vars
  <2>. QED BY <2>1 DEF TypeCounts
<1>. QED BY <1>1, <1>2, <1>3, <1>4, <1>5, <1>6 DEF Next, Assembles

\* The crash windows.
LEMMA RecentTyped ==
  ASSUME TypeRecent, [Next]_vars
  PROVE  TypeRecent'
<1>. USE DEF tracked, procs, tasks, session, ghosts, rejected, counts, bounds
<1>1. ASSUME NEW p \in Procs, Watches(p)
      PROVE  TypeRecent'
  <2>1. CASE RecorderDied(p)
    BY <2>1 DEF RecorderDied, TypeRecent, Kinds
  <2>2. CASE RingDied(p)
    BY <2>2 DEF RingDied, TypeRecent, Kinds
  <2>3. CASE \/ NotMine(p) \/ Wakes(p)
    <3>1. UNCHANGED <<recent>>
      BY <2>3 DEF NotMine, Wakes
    <3>. QED BY <3>1 DEF TypeRecent, Kinds
  <2>. QED BY <1>1, <2>1, <2>2, <2>3 DEF Watches
<1>2. ASSUME NEW k \in {"rec", "ring"}, WindowPasses(k)
      PROVE  TypeRecent'
  BY <1>2 DEF WindowPasses, TypeRecent, Kinds
<1>3. CASE \/ (\E t \in Tasks : Runs(t)) \/ (\E c \in Callers : Outside(c))
           \/ (\E c \in Callers : Saved(c))
           \/ (\E c \in Callers, m \in {"continuous", "event_buffered"} : SelectMode(c, m))
           \/ (\E p \in Procs, reason \in {"signal", "auth", "crash", "disk"} : Exits(p, reason))
           \/ NothingToFinalize \/ Finalized \/ ClipRestarts \/ PostrollEnds \/ Concat
           \/ MotionEvent \/ SessionOpens \/ SweepGoesOn \/ Unloads \/ TasksCancelled
           \/ UNCHANGED vars
  <2>1. UNCHANGED <<recent>>
    BY <1>3, ZenonT(60) DEF Runs, StopsRing, StopsRec, RecGone, UrlWaited, Spawns, SpawnFails,
       Registers, RespawnsRing, RingSpawns, RingRegisters, RingWatched, MayEnter, Alive,
       Signal, Goto, TakesLock, RingGone, HeldIsGone, KeepsLock, Outside, SwitchOn,
       SwitchOff, SessionReady, SessionRemote, TearDown, Calls, Quiet, Saved, SelectMode,
       Exits, NothingToFinalize, Finalized, ClipRestarts, PostrollEnds, Concat, MotionEvent,
       SessionOpens, SweepGoesOn, Unloads, TasksCancelled, vars
  <2>. QED BY <2>1 DEF TypeRecent, Kinds
<1>. QED BY <1>1, <1>2, <1>3 DEF Next, Assembles

\* Nobody runs a program of somebody else.
LEMMA ProgramsTyped ==
  ASSUME TypePlaces, TypeTasks, OwnPrograms, [Next]_vars
  PROVE  OwnPrograms'
<1>. USE DEF tracked, procs, tasks, session, ghosts, rejected, counts, bounds
<1>1. ASSUME NEW c \in Callers, Outside(c)
      PROVE  OwnPrograms'
  <2>1. CASE SwitchOn(c)
    BY <2>1 DEF SwitchOn, Calls, OwnPrograms, TypeTasks, Tasks, Procs, Callers, Clip,
       Unload, Free
  <2>2. CASE SwitchOff(c)
    BY <2>2 DEF SwitchOff, Calls, OwnPrograms, TypeTasks, Tasks, Procs, Callers, Clip,
       Unload, Free
  <2>3. CASE SessionReady(c)
    <3>1. CASE intent
      BY <2>3, <3>1 DEF SessionReady, Calls, Quiet, OwnPrograms, TypeTasks, Tasks, Procs,
         Callers, Clip, Unload, Free
    <3>2. CASE ~intent
      BY <2>3, <3>2 DEF SessionReady, Calls, Quiet, OwnPrograms, TypeTasks, Tasks, Procs,
         Callers, Clip, Unload, Free
    <3>. QED BY <3>1, <3>2
  <2>4. CASE SessionRemote(c)
    BY <2>4 DEF SessionRemote, Calls, Quiet, OwnPrograms, TypeTasks, Tasks, Procs, Callers,
       Clip, Unload, Free
  <2>5. CASE TearDown(c)
    BY <2>5 DEF TearDown, Calls, Quiet, OwnPrograms, TypeTasks, Tasks, Procs, Callers, Clip,
       Unload, Free
  <2>. QED BY <1>1, <2>1, <2>2, <2>3, <2>4, <2>5 DEF Outside
<1>2. ASSUME NEW p \in Procs, Watches(p)
      PROVE  OwnPrograms'
  <2>1. CASE RecorderDied(p)
    BY <2>1 DEF RecorderDied, OwnPrograms, TypeTasks, Tasks, Procs, Callers, Clip, Unload,
       Free
  <2>2. CASE RingDied(p)
    BY <2>2 DEF RingDied, OwnPrograms, TypeTasks, Tasks, Procs, Callers, Clip, Unload, Free
  <2>3. CASE \/ NotMine(p) \/ Wakes(p)
    <3>1. UNCHANGED <<prog>>
      BY <2>3 DEF NotMine, Wakes
    <3>. QED BY <3>1 DEF OwnPrograms
  <2>. QED BY <1>2, <2>1, <2>2, <2>3 DEF Watches
<1>3. ASSUME NEW c \in Callers, NEW m \in {"continuous", "event_buffered"}, SelectMode(c, m)
      PROVE  OwnPrograms'
  BY <1>3 DEF SelectMode, Calls, Quiet, OwnPrograms, TypeTasks, Tasks, Procs, Callers, Clip,
     Unload, Free
<1>4. CASE NothingToFinalize
  BY <1>4 DEF NothingToFinalize, MayEnter, OwnPrograms, TypeTasks, Tasks, Procs, Callers,
     Clip, Unload, Free
<1>5. CASE Finalized
  BY <1>5 DEF Finalized, HeldIsGone, OwnPrograms, TypeTasks, Tasks, Procs, Callers, Clip,
     Unload, Free
<1>6. CASE PostrollEnds
  BY <1>6 DEF PostrollEnds, OwnPrograms, TypeTasks, Tasks, Procs, Callers, Clip, Unload,
     Free
<1>7. CASE MotionEvent
  BY <1>7 DEF MotionEvent, OwnPrograms, TypeTasks, Tasks, Procs, Callers, Clip, Unload, Free
<1>8. CASE SweepGoesOn
  <2>1. CASE pc[Unload] = "begin"
    BY <1>8, <2>1 DEF SweepGoesOn, RingGone, HeldIsGone, MayEnter, Alive, OwnPrograms,
       TypeTasks, Tasks, Procs, Callers, Clip, Unload, Free
  <2>2. CASE pc[Unload] # "begin"
    BY <1>8, <2>2 DEF SweepGoesOn, RingGone, HeldIsGone, MayEnter, Alive, OwnPrograms,
       TypeTasks, Tasks, Procs, Callers, Clip, Unload, Free
  <2>. QED BY <2>1, <2>2
<1>9. CASE Unloads
  BY <1>9 DEF Unloads, OwnPrograms, TypeTasks, Tasks, Procs, Callers, Clip, Unload, Free
<1>10. CASE \/ (\E t \in Tasks : Runs(t)) \/ (\E c \in Callers : Saved(c))
            \/ (\E p \in Procs, reason \in {"signal", "auth", "crash", "disk"} : Exits(p, reason))
            \/ (\E k \in {"rec", "ring"} : WindowPasses(k)) \/ ClipRestarts \/ Concat
            \/ SessionOpens \/ TasksCancelled \/ UNCHANGED vars
  <2>1. UNCHANGED <<prog>>
    BY <1>10, ZenonT(60) DEF Runs, StopsRing, StopsRec, RecGone, UrlWaited, Spawns, SpawnFails,
       Registers, RespawnsRing, RingSpawns, RingRegisters, RingWatched, MayEnter, Alive,
       Signal, Goto, TakesLock, RingGone, HeldIsGone, KeepsLock, Saved, Exits, WindowPasses,
       ClipRestarts, Concat, SessionOpens, TasksCancelled, vars
  <2>. QED BY <2>1 DEF OwnPrograms
<1>. QED BY <1>1, <1>2, <1>3, <1>4, <1>5, <1>6, <1>7, <1>8, <1>9, <1>10 DEF Next, Assembles

\* The unload goes from step to step.
LEMMA UnloadTyped ==
  ASSUME TypePlaces, TypeTasks, TypeProcs, UnloadSteps, [Next]_vars
  PROVE  UnloadSteps'
<1>. USE DEF tracked, procs, tasks, session, ghosts, rejected, counts, bounds
<1>1. ASSUME NEW t \in Tasks, Runs(t)
      PROVE  UnloadSteps'
  <2>1. CASE StopsRing(t)
    BY <2>1 DEF StopsRing, MayEnter, Alive, Signal, Goto, TakesLock, UnloadSteps,
       TypePlaces, TypeTasks, TypeProcs, Tasks, Procs, Callers, Clip, Unload, Free
  <2>2. CASE StopsRec(t)
    <3>1. CASE pc[t] = "begin"
      BY <2>2, RingSteps, StartSteps, EndsOutside, <3>1 DEF StopsRec, RingGone, HeldIsGone,
         MayEnter, Alive, Signal, Goto, TakesLock, KeepsLock, UnloadSteps, TypePlaces,
         TypeTasks, TypeProcs, Tasks, Procs, Callers, Clip, Unload, Free
    <3>2. CASE pc[t] # "begin"
      BY <2>2, RingSteps, StartSteps, EndsOutside, <3>2 DEF StopsRec, RingGone, HeldIsGone,
         MayEnter, Alive, Signal, Goto, TakesLock, KeepsLock, UnloadSteps, TypePlaces,
         TypeTasks, TypeProcs, Tasks, Procs, Callers, Clip, Unload, Free
    <3>. QED BY <3>1, <3>2
  <2>3. CASE RecGone(t)
    BY <2>3, RingSteps, StartSteps, EndsOutside DEF RecGone, HeldIsGone, Goto, KeepsLock,
       UnloadSteps, TypePlaces, TypeTasks, TypeProcs, Tasks, Procs, Callers, Clip, Unload,
       Free
  <2>4. CASE UrlWaited(t)
    BY <2>4, RingSteps, StartSteps, EndsOutside DEF UrlWaited, Goto, KeepsLock, UnloadSteps,
       TypePlaces, TypeTasks, TypeProcs, Tasks, Procs, Callers, Clip, Unload, Free
  <2>5. CASE Spawns(t)
    <3>1. CASE shutting \/ sess # "LOCAL"
      BY <2>5, RingSteps, StartSteps, EndsOutside, <3>1 DEF Spawns, Goto, KeepsLock,
         UnloadSteps, TypePlaces, TypeTasks, TypeProcs, Tasks, Procs, Callers, Clip, Unload,
         Free
    <3>2. CASE ~(shutting \/ sess # "LOCAL")
      BY <2>5, RingSteps, StartSteps, EndsOutside, <3>2 DEF Spawns, Goto, KeepsLock,
         UnloadSteps, TypePlaces, TypeTasks, TypeProcs, Tasks, Procs, Callers, Clip, Unload,
         Free
    <3>. QED BY <3>1, <3>2
  <2>6. CASE SpawnFails(t)
    BY <2>6, RingSteps, StartSteps, EndsOutside DEF SpawnFails, Goto, KeepsLock,
       UnloadSteps, TypePlaces, TypeTasks, TypeProcs, Tasks, Procs, Callers, Clip, Unload,
       Free
  <2>7. CASE Registers(t)
    <3>1. t # Unload /\ held[t] # Unload
      BY <2>7 DEF Registers, UnloadSteps, TypeTasks, Unload
    <3>2. pc'[Unload] = pc[Unload] /\ prog' = prog
      BY <2>7, <3>1, HandsOver DEF Tasks
    <3>. QED BY <2>7, <3>2 DEF Registers, UnloadSteps
  <2>8. CASE RespawnsRing(t)
    <3>1. CASE pc[t] = "begin"
      BY <2>8, RingSteps, StartSteps, EndsOutside, <3>1 DEF RespawnsRing, RingGone,
         HeldIsGone, MayEnter, Alive, Goto, UnloadSteps, TypePlaces, TypeTasks, TypeProcs,
         Tasks, Procs, Callers, Clip, Unload, Free
    <3>2. CASE pc[t] # "begin"
      BY <2>8, RingSteps, StartSteps, EndsOutside, <3>2 DEF RespawnsRing, RingGone,
         HeldIsGone, MayEnter, Alive, Goto, UnloadSteps, TypePlaces, TypeTasks, TypeProcs,
         Tasks, Procs, Callers, Clip, Unload, Free
    <3>. QED BY <3>1, <3>2
  <2>9. CASE RingSpawns(t)
    BY <2>9 DEF RingSpawns, Goto, UnloadSteps, TypePlaces, TypeTasks, TypeProcs, Tasks,
       Procs, Callers, Clip, Unload, Free
  <2>10. CASE RingRegisters(t)
    BY <2>10 DEF RingRegisters, Goto, UnloadSteps, TypePlaces, TypeTasks, TypeProcs, Tasks,
       Procs, Callers, Clip, Unload, Free
  <2>11. CASE RingWatched(t)
    <3>1. t # Unload /\ held[t] # Unload
      BY <2>11 DEF RingWatched, UnloadSteps, TypeTasks, Unload
    <3>2. pc'[Unload] = pc[Unload] /\ prog' = prog
      BY <2>11, <3>1, HandsOver DEF Tasks
    <3>. QED BY <2>11, <3>2 DEF RingWatched, UnloadSteps
  <2>. QED BY <1>1, <2>1, <2>2, <2>3, <2>4, <2>5, <2>6, <2>7, <2>8, <2>9, <2>10, <2>11 DEF
     Runs
<1>2. ASSUME NEW c \in Callers, Outside(c)
      PROVE  UnloadSteps'
  <2>1. CASE SwitchOn(c)
    BY <2>1 DEF SwitchOn, Calls, UnloadSteps, TypePlaces, TypeTasks, TypeProcs, Tasks,
       Procs, Callers, Clip, Unload, Free
  <2>2. CASE SwitchOff(c)
    BY <2>2 DEF SwitchOff, Calls, UnloadSteps, TypePlaces, TypeTasks, TypeProcs, Tasks,
       Procs, Callers, Clip, Unload, Free
  <2>3. CASE SessionReady(c)
    <3>1. CASE intent
      BY <2>3, <3>1 DEF SessionReady, Calls, Quiet, UnloadSteps, TypePlaces, TypeTasks,
         TypeProcs, Tasks, Procs, Callers, Clip, Unload, Free
    <3>2. CASE ~intent
      BY <2>3, <3>2 DEF SessionReady, Calls, Quiet, UnloadSteps, TypePlaces, TypeTasks,
         TypeProcs, Tasks, Procs, Callers, Clip, Unload, Free
    <3>. QED BY <3>1, <3>2
  <2>4. CASE SessionRemote(c)
    BY <2>4 DEF SessionRemote, Calls, Quiet, UnloadSteps, TypePlaces, TypeTasks, TypeProcs,
       Tasks, Procs, Callers, Clip, Unload, Free
  <2>5. CASE TearDown(c)
    BY <2>5 DEF TearDown, Calls, Quiet, UnloadSteps, TypePlaces, TypeTasks, TypeProcs,
       Tasks, Procs, Callers, Clip, Unload, Free
  <2>. QED BY <1>2, <2>1, <2>2, <2>3, <2>4, <2>5 DEF Outside
<1>3. ASSUME NEW p \in Procs, Watches(p)
      PROVE  UnloadSteps'
  <2>1. CASE NotMine(p)
    BY <2>1 DEF NotMine, UnloadSteps, TypePlaces, TypeTasks, TypeProcs, Tasks, Procs,
       Callers, Clip, Unload, Free
  <2>2. CASE RecorderDied(p)
    BY <2>2 DEF RecorderDied, UnloadSteps, TypePlaces, TypeTasks, TypeProcs, Tasks, Procs,
       Callers, Clip, Unload, Free
  <2>3. CASE RingDied(p)
    BY <2>3 DEF RingDied, UnloadSteps, TypePlaces, TypeTasks, TypeProcs, Tasks, Procs,
       Callers, Clip, Unload, Free
  <2>4. CASE Wakes(p)
    BY <2>4 DEF Wakes, UnloadSteps, TypePlaces, TypeTasks, TypeProcs, Tasks, Procs, Callers,
       Clip, Unload, Free
  <2>. QED BY <1>3, <2>1, <2>2, <2>3, <2>4 DEF Watches
<1>4. ASSUME NEW c \in Callers, Saved(c)
      PROVE  UnloadSteps'
  BY <1>4 DEF Saved, UnloadSteps, TypePlaces, TypeTasks, TypeProcs, Tasks, Procs, Callers,
     Clip, Unload, Free
<1>5. ASSUME NEW c \in Callers, NEW m \in {"continuous", "event_buffered"}, SelectMode(c, m)
      PROVE  UnloadSteps'
  BY <1>5 DEF SelectMode, Calls, Quiet, UnloadSteps, TypePlaces, TypeTasks, TypeProcs,
     Tasks, Procs, Callers, Clip, Unload, Free
<1>6. CASE NothingToFinalize
  BY <1>6 DEF NothingToFinalize, MayEnter, UnloadSteps, TypePlaces, TypeTasks, TypeProcs,
     Tasks, Procs, Callers, Clip, Unload, Free
<1>7. CASE Finalized
  BY <1>7 DEF Finalized, HeldIsGone, UnloadSteps, TypePlaces, TypeTasks, TypeProcs, Tasks,
     Procs, Callers, Clip, Unload, Free
<1>8. CASE ClipRestarts
  <2>1. CASE RingStep(ring) = "end"
    BY <1>8, RingSteps, StartSteps, EndsOutside, <2>1 DEF ClipRestarts, MayEnter, Goto,
       TakesLock, UnloadSteps, TypePlaces, TypeTasks, TypeProcs, Tasks, Procs, Callers,
       Clip, Unload, Free
  <2>2. CASE RingStep(ring) # "end"
    BY <1>8, RingSteps, StartSteps, EndsOutside, <2>2 DEF ClipRestarts, MayEnter, Goto,
       TakesLock, UnloadSteps, TypePlaces, TypeTasks, TypeProcs, Tasks, Procs, Callers,
       Clip, Unload, Free
  <2>. QED BY <2>1, <2>2
<1>9. CASE PostrollEnds
  BY <1>9 DEF PostrollEnds, UnloadSteps, TypePlaces, TypeTasks, TypeProcs, Tasks, Procs,
     Callers, Clip, Unload, Free
<1>10. CASE Concat
  BY <1>10 DEF Concat, UnloadSteps, TypePlaces, TypeTasks, TypeProcs, Tasks, Procs, Callers,
     Clip, Unload, Free
<1>11. CASE MotionEvent
  BY <1>11 DEF MotionEvent, UnloadSteps, TypePlaces, TypeTasks, TypeProcs, Tasks, Procs,
     Callers, Clip, Unload, Free
<1>12. CASE SweepGoesOn
  <2>1. CASE pc[Unload] = "begin"
    BY <1>12, <2>1 DEF SweepGoesOn, RingGone, HeldIsGone, MayEnter, Alive, UnloadSteps,
       TypePlaces, TypeTasks, TypeProcs, Tasks, Procs, Callers, Clip, Unload, Free
  <2>2. CASE pc[Unload] # "begin"
    BY <1>12, <2>2 DEF SweepGoesOn, RingGone, HeldIsGone, MayEnter, Alive, UnloadSteps,
       TypePlaces, TypeTasks, TypeProcs, Tasks, Procs, Callers, Clip, Unload, Free
  <2>. QED BY <2>1, <2>2
<1>13. CASE Unloads
  BY <1>13 DEF Unloads, UnloadSteps, TypePlaces, TypeTasks, TypeProcs, Tasks, Procs,
     Callers, Clip, Unload, Free
<1>14. CASE TasksCancelled
  BY <1>14 DEF TasksCancelled, UnloadSteps, TypePlaces, TypeTasks, TypeProcs, Tasks, Procs,
     Callers, Clip, Unload, Free
<1>15. CASE \/ (\E p \in Procs, reason \in {"signal", "auth", "crash", "disk"} : Exits(p, reason))
            \/ (\E k \in {"rec", "ring"} : WindowPasses(k)) \/ SessionOpens
            \/ UNCHANGED vars
  <2>1. UNCHANGED <<pc, prog, shutting>>
    BY <1>15 DEF Exits, WindowPasses, SessionOpens, vars
  <2>. QED BY <2>1 DEF UnloadSteps
<1>. QED BY <1>1, <1>2, <1>3, <1>4, <1>5, <1>6, <1>7, <1>8, <1>9, <1>10, <1>11, <1>12,
   <1>13, <1>14, <1>15 DEF Next, Assembles

\* A step keeps the types, the programs and the order of the unload.
LEMMA TypedStep == Typed /\ [Next]_vars => Typed'
BY SessionTyped, ProcsTyped, PlacesTyped, TasksTyped, CountsTyped, RecentTyped, ProgramsTyped,
   UnloadTyped DEF Typed

-----------------------------------------------------------------------------
\* ------------------------------------------------------ the recorder lock

\* Nobody enters while another is inside.
LEMMA LockedStep ==
  ASSUME TypeProcs, TypePlaces, TypeTasks, Locked, [Next]_vars
  PROVE  Locked'
<1>. USE DEF tracked, procs, tasks, session, ghosts, rejected, counts, bounds
<1>1. ASSUME NEW t \in Tasks, Runs(t)
      PROVE  Locked'
  <2>1. CASE StopsRing(t)
    BY <2>1 DEF StopsRing, MayEnter, Alive, Signal, Goto, TakesLock, Locked, Critical,
       Tasks, Procs, Callers, Clip, Unload, Free, TypePlaces, TypeTasks, TypeProcs
  <2>2. CASE StopsRec(t)
    <3>1. \A u \in Tasks : u # t => pc'[u] = pc[u]
      BY <2>2 DEF StopsRec, Goto, TypePlaces
    <3>2. prog' = prog
      BY <2>2 DEF StopsRec
    <3>3. CASE pc[t] = "begin" /\ prog[t] = "stop"
      <4>1. lock' = lock /\ pc'[t] \in {"recExit", "postroll", "done", "swept", "idle"}
        BY <2>2, <3>3, EndsOutside DEF StopsRec, Goto, TakesLock, TypePlaces
      <4>. QED BY <3>1, <3>2, <3>3, <4>1 DEF Locked, Critical
    <3>4. CASE pc[t] = "begin" /\ prog[t] # "stop"
      <4>1. lock = Free
        BY <2>2, <3>4 DEF StopsRec, RingGone, MayEnter
      <4>2. \A u \in Tasks : u # t => ~Critical(u)
        BY <4>1 DEF Locked, Tasks, Procs, Callers, Clip, Unload, Free
      <4>3. lock' = t \/ pc'[t] = Ends(t)
        BY <2>2, <3>4 DEF StopsRec, Goto, TakesLock, TypePlaces
      <4>. QED BY <3>1, <3>2, <4>2, <4>3, EndsOutside DEF Locked, Critical
    <3>5. CASE pc[t] # "begin"
      BY <2>2, RingSteps, StartSteps, EndsOutside, <3>5, SMTT(60) DEF StopsRec, RingGone, HeldIsGone,
         MayEnter, Alive, Signal, Goto, TakesLock, KeepsLock, tracked, procs, tasks, session,
         ghosts, rejected, counts, bounds, Locked, Critical, Tasks, Procs, Callers, Clip, Unload,
         Free, TypePlaces, TypeTasks, TypeProcs
    <3>. QED BY <3>3, <3>4, <3>5
  <2>3. CASE RecGone(t)
    BY <2>3, RingSteps, StartSteps, EndsOutside DEF RecGone, HeldIsGone, Goto, KeepsLock,
       Locked, Critical, Tasks, Procs, Callers, Clip, Unload, Free, TypePlaces, TypeTasks,
       TypeProcs
  <2>4. CASE UrlWaited(t)
    BY <2>4, RingSteps, StartSteps, EndsOutside DEF UrlWaited, Goto, KeepsLock, Locked,
       Critical, Tasks, Procs, Callers, Clip, Unload, Free, TypePlaces, TypeTasks, TypeProcs
  <2>5. CASE Spawns(t)
    <3>1. CASE shutting \/ sess # "LOCAL"
      BY <2>5, RingSteps, StartSteps, EndsOutside, <3>1, SMTT(60) DEF Spawns, Goto, KeepsLock, Locked,
         Critical, Tasks, Procs, Callers, Clip, Unload, Free, TypePlaces, TypeTasks,
         TypeProcs
    <3>2. CASE ~(shutting \/ sess # "LOCAL")
      BY <2>5, RingSteps, StartSteps, EndsOutside, <3>2 DEF Spawns, Goto, KeepsLock, Locked,
         Critical, Tasks, Procs, Callers, Clip, Unload, Free, TypePlaces, TypeTasks,
         TypeProcs
    <3>. QED BY <3>1, <3>2
  <2>6. CASE SpawnFails(t)
    BY <2>6, RingSteps, StartSteps, EndsOutside DEF SpawnFails, Goto, KeepsLock, Locked,
       Critical, Tasks, Procs, Callers, Clip, Unload, Free, TypePlaces, TypeTasks, TypeProcs
  <2>7. CASE Registers(t)
    BY <2>7, RingSteps, StartSteps, EndsOutside DEF Registers, KeepsLock, Locked, Critical,
       Tasks, Procs, Callers, Clip, Unload, Free, TypePlaces, TypeTasks, TypeProcs
  <2>8. CASE RespawnsRing(t)
    <3>1. lock = Free \/ lock = t
      BY <2>8 DEF RespawnsRing, RingGone, MayEnter, Locked, Critical
    <3>2. pc' = [pc EXCEPT ![t] = IF RingStep(ring') = "end" THEN Ends(t) ELSE RingStep(ring')]
      BY <2>8 DEF RespawnsRing, Goto
    <3>3. lock' = (IF RingStep(ring') = "end" THEN Free ELSE t) /\ prog' = prog
      BY <2>8 DEF RespawnsRing
    <3>4. \A u \in Tasks : u # t => ~Critical(u)
      BY <3>1 DEF Locked, Tasks, Procs, Callers, Clip, Unload, Free
    <3>5. \A u \in Tasks : u # t => pc'[u] = pc[u]
      BY <3>2 DEF TypePlaces
    <3>6. CASE RingStep(ring') = "end"
      BY <3>2, <3>3, <3>4, <3>5, <3>6, EndsOutside DEF Locked, Critical, TypePlaces
    <3>7. CASE RingStep(ring') # "end"
      BY <3>3, <3>4, <3>5, <3>7 DEF Locked, Critical
    <3>. QED BY <3>6, <3>7
  <2>9. CASE RingSpawns(t)
    BY <2>9 DEF RingSpawns, Goto, Locked, Critical, Tasks, Procs, Callers, Clip, Unload,
       Free, TypePlaces, TypeTasks, TypeProcs
  <2>10. CASE RingRegisters(t)
    BY <2>10 DEF RingRegisters, Goto, Locked, Critical, Tasks, Procs, Callers, Clip, Unload,
       Free, TypePlaces, TypeTasks, TypeProcs
  <2>11. CASE RingWatched(t)
    BY <2>11, RingSteps, StartSteps, EndsOutside DEF RingWatched, KeepsLock, Locked,
       Critical, Tasks, Procs, Callers, Clip, Unload, Free, TypePlaces, TypeTasks, TypeProcs
  <2>. QED BY <1>1, <2>1, <2>2, <2>3, <2>4, <2>5, <2>6, <2>7, <2>8, <2>9, <2>10, <2>11 DEF
     Runs
<1>2. ASSUME NEW c \in Callers, Outside(c)
      PROVE  Locked'
  <2>1. CASE SwitchOn(c)
    BY <2>1 DEF SwitchOn, Calls, Locked, Critical, Tasks, Procs, Callers, Clip, Unload,
       Free, TypePlaces, TypeTasks, TypeProcs
  <2>2. CASE SwitchOff(c)
    BY <2>2 DEF SwitchOff, Calls, Locked, Critical, Tasks, Procs, Callers, Clip, Unload,
       Free, TypePlaces, TypeTasks, TypeProcs
  <2>3. CASE SessionReady(c)
    <3>1. CASE intent
      BY <2>3, <3>1 DEF SessionReady, Calls, Quiet, Locked, Critical, Tasks, Procs, Callers,
         Clip, Unload, Free, TypePlaces, TypeTasks, TypeProcs
    <3>2. CASE ~intent
      BY <2>3, <3>2 DEF SessionReady, Calls, Quiet, Locked, Critical, Tasks, Procs, Callers,
         Clip, Unload, Free, TypePlaces, TypeTasks, TypeProcs
    <3>. QED BY <3>1, <3>2
  <2>4. CASE SessionRemote(c)
    BY <2>4 DEF SessionRemote, Calls, Quiet, Locked, Critical, Tasks, Procs, Callers, Clip,
       Unload, Free, TypePlaces, TypeTasks, TypeProcs
  <2>5. CASE TearDown(c)
    BY <2>5 DEF TearDown, Calls, Quiet, Locked, Critical, Tasks, Procs, Callers, Clip,
       Unload, Free, TypePlaces, TypeTasks, TypeProcs
  <2>. QED BY <1>2, <2>1, <2>2, <2>3, <2>4, <2>5 DEF Outside
<1>3. ASSUME NEW p \in Procs, Watches(p)
      PROVE  Locked'
  <2>1. CASE NotMine(p)
    BY <2>1 DEF NotMine, Locked, Critical, Tasks, Procs, Callers, Clip, Unload, Free,
       TypePlaces, TypeTasks, TypeProcs
  <2>2. CASE RecorderDied(p)
    BY <2>2 DEF RecorderDied, Locked, Critical, Tasks, Procs, Callers, Clip, Unload, Free,
       TypePlaces, TypeTasks, TypeProcs
  <2>3. CASE RingDied(p)
    BY <2>3 DEF RingDied, Locked, Critical, Tasks, Procs, Callers, Clip, Unload, Free,
       TypePlaces, TypeTasks, TypeProcs
  <2>4. CASE Wakes(p)
    BY <2>4 DEF Wakes, Locked, Critical, Tasks, Procs, Callers, Clip, Unload, Free,
       TypePlaces, TypeTasks, TypeProcs
  <2>. QED BY <1>3, <2>1, <2>2, <2>3, <2>4 DEF Watches
<1>4. ASSUME NEW c \in Callers, Saved(c)
      PROVE  Locked'
  BY <1>4 DEF Saved, Locked, Critical, Tasks, Procs, Callers, Clip, Unload, Free,
     TypePlaces, TypeTasks, TypeProcs
<1>5. ASSUME NEW c \in Callers, NEW m \in {"continuous", "event_buffered"}, SelectMode(c, m)
      PROVE  Locked'
  BY <1>5 DEF SelectMode, Calls, Quiet, Locked, Critical, Tasks, Procs, Callers, Clip,
     Unload, Free, TypePlaces, TypeTasks, TypeProcs
<1>6. CASE NothingToFinalize
  BY <1>6 DEF NothingToFinalize, MayEnter, Locked, Critical, Tasks, Procs, Callers, Clip,
     Unload, Free, TypePlaces, TypeTasks, TypeProcs
<1>7. CASE Finalized
  BY <1>7 DEF Finalized, HeldIsGone, Locked, Critical, Tasks, Procs, Callers, Clip, Unload,
     Free, TypePlaces, TypeTasks, TypeProcs
<1>8. CASE ClipRestarts
  <2>1. CASE RingStep(ring) = "end"
    BY <1>8, RingSteps, StartSteps, EndsOutside, <2>1 DEF ClipRestarts, MayEnter, Goto,
       TakesLock, Locked, Critical, Tasks, Procs, Callers, Clip, Unload, Free, TypePlaces,
       TypeTasks, TypeProcs
  <2>2. CASE RingStep(ring) # "end"
    BY <1>8, RingSteps, StartSteps, EndsOutside, <2>2 DEF ClipRestarts, MayEnter, Goto,
       TakesLock, Locked, Critical, Tasks, Procs, Callers, Clip, Unload, Free, TypePlaces,
       TypeTasks, TypeProcs
  <2>. QED BY <2>1, <2>2
<1>9. CASE PostrollEnds
  BY <1>9 DEF PostrollEnds, Locked, Critical, Tasks, Procs, Callers, Clip, Unload, Free,
     TypePlaces, TypeTasks, TypeProcs
<1>10. CASE Concat
  BY <1>10 DEF Concat, Locked, Critical, Tasks, Procs, Callers, Clip, Unload, Free,
     TypePlaces, TypeTasks, TypeProcs
<1>11. CASE MotionEvent
  BY <1>11 DEF MotionEvent, Locked, Critical, Tasks, Procs, Callers, Clip, Unload, Free,
     TypePlaces, TypeTasks, TypeProcs
<1>12. CASE SweepGoesOn
  <2>1. CASE pc[Unload] = "begin"
    BY <1>12, <2>1 DEF SweepGoesOn, RingGone, HeldIsGone, MayEnter, Alive, Locked, Critical,
       Tasks, Procs, Callers, Clip, Unload, Free, TypePlaces, TypeTasks, TypeProcs
  <2>2. CASE pc[Unload] # "begin"
    BY <1>12, <2>2 DEF SweepGoesOn, RingGone, HeldIsGone, MayEnter, Alive, Locked, Critical,
       Tasks, Procs, Callers, Clip, Unload, Free, TypePlaces, TypeTasks, TypeProcs
  <2>. QED BY <2>1, <2>2
<1>13. CASE Unloads
  BY <1>13 DEF Unloads, Locked, Critical, Tasks, Procs, Callers, Clip, Unload, Free,
     TypePlaces, TypeTasks, TypeProcs
<1>14. CASE TasksCancelled
  BY <1>14 DEF TasksCancelled, Locked, Critical, Tasks, Procs, Callers, Clip, Unload, Free,
     TypePlaces, TypeTasks, TypeProcs
<1>15. CASE \/ (\E p \in Procs, reason \in {"signal", "auth", "crash", "disk"} : Exits(p, reason))
            \/ (\E k \in {"rec", "ring"} : WindowPasses(k)) \/ SessionOpens
            \/ UNCHANGED vars
  <2>1. UNCHANGED <<lock, pc, prog>>
    BY <1>15 DEF Exits, WindowPasses, SessionOpens, vars
  <2>. QED BY <2>1 DEF Locked, Critical
<1>. QED BY <1>1, <1>2, <1>3, <1>4, <1>5, <1>6, <1>7, <1>8, <1>9, <1>10, <1>11, <1>12,
   <1>13, <1>14, <1>15 DEF Next, Assembles

-----------------------------------------------------------------------------
\* ------------------------------------------------------ the dicts and the children

\* A new process has the next number.
LEMMA InOrderStep ==
  ASSUME TypeProcs, InOrder, [Next]_vars
  PROVE  InOrder'
<1>. USE DEF tracked, procs, tasks, session, ghosts, rejected, counts, bounds
<1>1. ASSUME NEW t \in Tasks, Runs(t)
      PROVE  InOrder'
  <2>1. CASE StopsRing(t)
    BY <2>1, NvrAssumption DEF StopsRing, MayEnter, Alive, Signal, Goto, TakesLock, InOrder,
       TypeProcs, Procs
  <2>2. CASE StopsRec(t)
    <3>1. CASE pc[t] = "begin"
      BY <2>2, NvrAssumption, <3>1 DEF StopsRec, RingGone, HeldIsGone, MayEnter, Alive,
         Signal, Goto, TakesLock, KeepsLock, InOrder, TypeProcs, Procs
    <3>2. CASE pc[t] # "begin"
      BY <2>2, NvrAssumption, <3>2 DEF StopsRec, RingGone, HeldIsGone, MayEnter, Alive,
         Signal, Goto, TakesLock, KeepsLock, InOrder, TypeProcs, Procs
    <3>. QED BY <3>1, <3>2
  <2>3. CASE Spawns(t)
    <3>1. CASE shutting \/ sess # "LOCAL"
      BY <2>3, NvrAssumption, <3>1 DEF Spawns, Goto, KeepsLock, InOrder, TypeProcs, Procs
    <3>2. CASE ~(shutting \/ sess # "LOCAL")
      BY <2>3, NvrAssumption, <3>2 DEF Spawns, Goto, KeepsLock, InOrder, TypeProcs, Procs
    <3>. QED BY <3>1, <3>2
  <2>4. CASE RingSpawns(t)
    BY <2>4, NvrAssumption DEF RingSpawns, Goto, InOrder, TypeProcs, Procs
  <2>5. CASE \/ RecGone(t) \/ UrlWaited(t) \/ SpawnFails(t) \/ Registers(t)
             \/ RespawnsRing(t) \/ RingRegisters(t) \/ RingWatched(t)
    <3>1. UNCHANGED <<ps, spawned>>
      BY <2>5 DEF RecGone, UrlWaited, SpawnFails, Registers, RespawnsRing, RingRegisters,
         RingWatched, HeldIsGone, Goto, KeepsLock, RingGone, MayEnter, Alive
    <3>. QED BY <3>1 DEF InOrder
  <2>. QED BY <1>1, <2>1, <2>2, <2>3, <2>4, <2>5 DEF Runs
<1>2. ASSUME NEW p \in Procs, NEW reason \in {"signal", "auth", "crash", "disk"}, Exits(p, reason)
      PROVE  InOrder'
  BY <1>2, NvrAssumption DEF Exits, InOrder, TypeProcs, Procs
<1>3. CASE \/ (\E c \in Callers : Outside(c)) \/ (\E p \in Procs : Watches(p))
           \/ (\E c \in Callers : Saved(c))
           \/ (\E c \in Callers, m \in {"continuous", "event_buffered"} : SelectMode(c, m))
           \/ (\E k \in {"rec", "ring"} : WindowPasses(k)) \/ NothingToFinalize \/ Finalized
           \/ ClipRestarts \/ PostrollEnds \/ Concat \/ MotionEvent \/ SessionOpens
           \/ SweepGoesOn \/ Unloads \/ TasksCancelled \/ UNCHANGED vars
  <2>1. UNCHANGED <<ps, spawned>>
    BY <1>3 DEF Outside, SwitchOn, SwitchOff, SessionReady, SessionRemote, TearDown, Calls,
       Quiet, Watches, NotMine, RecorderDied, RingDied, Wakes, Saved, SelectMode,
       WindowPasses, NothingToFinalize, MayEnter, Finalized, HeldIsGone, ClipRestarts, Goto,
       TakesLock, PostrollEnds, Concat, MotionEvent, SessionOpens, SweepGoesOn, RingGone,
       Alive, Unloads, TasksCancelled, vars
  <2>. QED BY <2>1 DEF InOrder
<1>. QED BY <1>1, <1>2, <1>3 DEF Next, Assembles

\* What is registered has been spawned for that dict.
LEMMA DictsStep ==
  ASSUME TypeProcs, TypePlaces, TypeTasks, InOrder, DictsFit, HandsFit, [Next]_vars
  PROVE  DictsFit'
<1>. USE DEF tracked, procs, tasks, session, ghosts, rejected, counts, bounds
<1>1. ASSUME NEW t \in Tasks, Runs(t)
      PROVE  DictsFit'
  <2>1. CASE StopsRing(t)
    BY <2>1, NvrAssumption DEF StopsRing, MayEnter, Alive, Signal, Goto, TakesLock,
       DictsFit, TypeProcs, InOrder, Procs
  <2>2. CASE StopsRec(t)
    <3>1. CASE pc[t] = "begin"
      BY <2>2, NvrAssumption, <3>1 DEF StopsRec, RingGone, HeldIsGone, MayEnter, Alive,
         Signal, Goto, TakesLock, KeepsLock, DictsFit, TypeProcs, InOrder, Procs
    <3>2. CASE pc[t] # "begin"
      BY <2>2, NvrAssumption, <3>2 DEF StopsRec, RingGone, HeldIsGone, MayEnter, Alive,
         Signal, Goto, TakesLock, KeepsLock, DictsFit, TypeProcs, InOrder, Procs
    <3>. QED BY <3>1, <3>2
  <2>3. CASE Spawns(t)
    <3>1. CASE shutting \/ sess # "LOCAL"
      BY <2>3, NvrAssumption, <3>1 DEF Spawns, Goto, KeepsLock, DictsFit, TypeProcs,
         InOrder, Procs
    <3>2. CASE ~(shutting \/ sess # "LOCAL")
      BY <2>3, NvrAssumption, <3>2 DEF Spawns, Goto, KeepsLock, DictsFit, TypeProcs,
         InOrder, Procs
    <3>. QED BY <3>1, <3>2
  <2>4. CASE Registers(t)
    BY <2>4, NvrAssumption DEF Registers, KeepsLock, HandsFit, DictsFit, TypeProcs, InOrder,
       Procs
  <2>5. CASE RespawnsRing(t)
    <3>1. CASE pc[t] = "begin"
      BY <2>5, NvrAssumption, <3>1 DEF RespawnsRing, RingGone, HeldIsGone, MayEnter, Alive,
         Goto, DictsFit, TypeProcs, InOrder, Procs
    <3>2. CASE pc[t] # "begin"
      BY <2>5, NvrAssumption, <3>2 DEF RespawnsRing, RingGone, HeldIsGone, MayEnter, Alive,
         Goto, DictsFit, TypeProcs, InOrder, Procs
    <3>. QED BY <3>1, <3>2
  <2>6. CASE RingSpawns(t)
    BY <2>6, NvrAssumption DEF RingSpawns, Goto, DictsFit, TypeProcs, InOrder, Procs
  <2>7. CASE RingRegisters(t)
    BY <2>7, NvrAssumption DEF RingRegisters, Goto, HandsFit, DictsFit, TypeProcs, InOrder,
       Procs
  <2>8. CASE \/ RecGone(t) \/ UrlWaited(t) \/ SpawnFails(t) \/ RingWatched(t)
    <3>1. UNCHANGED <<kind, ps, rec, ring>>
      BY <2>8 DEF RecGone, UrlWaited, SpawnFails, RingWatched, HeldIsGone, Goto, KeepsLock
    <3>. QED BY <3>1 DEF DictsFit
  <2>. QED BY <1>1, <2>1, <2>2, <2>3, <2>4, <2>5, <2>6, <2>7, <2>8 DEF Runs
<1>2. ASSUME NEW p \in Procs, Watches(p)
      PROVE  DictsFit'
  <2>1. CASE RecorderDied(p)
    BY <2>1, NvrAssumption DEF RecorderDied, DictsFit, TypeProcs, InOrder, Procs
  <2>2. CASE RingDied(p)
    BY <2>2, NvrAssumption DEF RingDied, DictsFit, TypeProcs, InOrder, Procs
  <2>3. CASE \/ NotMine(p) \/ Wakes(p)
    <3>1. UNCHANGED <<kind, ps, rec, ring>>
      BY <2>3 DEF NotMine, Wakes
    <3>. QED BY <3>1 DEF DictsFit
  <2>. QED BY <1>2, <2>1, <2>2, <2>3 DEF Watches
<1>3. ASSUME NEW p \in Procs, NEW reason \in {"signal", "auth", "crash", "disk"}, Exits(p, reason)
      PROVE  DictsFit'
  BY <1>3, NvrAssumption DEF Exits, DictsFit, TypeProcs, InOrder, Procs
<1>4. CASE SweepGoesOn
  <2>1. CASE pc[Unload] = "begin"
    BY <1>4, NvrAssumption, <2>1 DEF SweepGoesOn, RingGone, HeldIsGone, MayEnter, Alive,
       DictsFit, TypeProcs, InOrder, Procs
  <2>2. CASE pc[Unload] # "begin"
    BY <1>4, NvrAssumption, <2>2 DEF SweepGoesOn, RingGone, HeldIsGone, MayEnter, Alive,
       DictsFit, TypeProcs, InOrder, Procs
  <2>. QED BY <2>1, <2>2
<1>5. CASE \/ (\E c \in Callers : Outside(c)) \/ (\E c \in Callers : Saved(c))
           \/ (\E c \in Callers, m \in {"continuous", "event_buffered"} : SelectMode(c, m))
           \/ (\E k \in {"rec", "ring"} : WindowPasses(k)) \/ NothingToFinalize \/ Finalized
           \/ ClipRestarts \/ PostrollEnds \/ Concat \/ MotionEvent \/ SessionOpens
           \/ Unloads \/ TasksCancelled \/ UNCHANGED vars
  <2>1. UNCHANGED <<kind, ps, rec, ring>>
    BY <1>5 DEF Outside, SwitchOn, SwitchOff, SessionReady, SessionRemote, TearDown, Calls,
       Quiet, Saved, SelectMode, WindowPasses, NothingToFinalize, MayEnter, Finalized,
       HeldIsGone, ClipRestarts, Goto, TakesLock, PostrollEnds, Concat, MotionEvent,
       SessionOpens, Unloads, TasksCancelled, vars
  <2>. QED BY <2>1 DEF DictsFit
<1>. QED BY <1>1, <1>2, <1>3, <1>4, <1>5 DEF Next, Assembles

\* What a task is about to register has just been spawned for it.
LEMMA HandsStep ==
  ASSUME TypeProcs, TypePlaces, TypeTasks, InOrder, HandsFit, [Next]_vars
  PROVE  HandsFit'
<1>. USE DEF tracked, procs, tasks, session, ghosts, rejected, counts, bounds
<1>1. ASSUME NEW t \in Tasks, Runs(t)
      PROVE  HandsFit'
  <2>1. CASE StopsRing(t)
    BY <2>1 DEF StopsRing, MayEnter, Alive, Signal, Goto, TakesLock, HandsFit, InOrder,
       Tasks, Procs, Callers, Clip, Unload, Free, TypePlaces, TypeTasks, TypeProcs
  <2>2. CASE StopsRec(t)
    <3>1. CASE pc[t] = "begin"
      BY <2>2, RingSteps, StartSteps, EndsOutside, NvrAssumption, <3>1 DEF StopsRec,
         RingGone, HeldIsGone, MayEnter, Alive, Signal, Goto, TakesLock, KeepsLock,
         HandsFit, InOrder, Tasks, Procs, Callers, Clip, Unload, Free, TypePlaces,
         TypeTasks, TypeProcs
    <3>2. CASE pc[t] # "begin"
      BY <2>2, RingSteps, StartSteps, EndsOutside, NvrAssumption, <3>2 DEF StopsRec,
         RingGone, HeldIsGone, MayEnter, Alive, Signal, Goto, TakesLock, KeepsLock,
         HandsFit, InOrder, Tasks, Procs, Callers, Clip, Unload, Free, TypePlaces,
         TypeTasks, TypeProcs
    <3>. QED BY <3>1, <3>2
  <2>3. CASE RecGone(t)
    BY <2>3, RingSteps, StartSteps, EndsOutside, NvrAssumption DEF RecGone, HeldIsGone,
       Goto, KeepsLock, HandsFit, InOrder, Tasks, Procs, Callers, Clip, Unload, Free,
       TypePlaces, TypeTasks, TypeProcs
  <2>4. CASE UrlWaited(t)
    BY <2>4, RingSteps, StartSteps, EndsOutside, NvrAssumption DEF UrlWaited, Goto,
       KeepsLock, HandsFit, InOrder, Tasks, Procs, Callers, Clip, Unload, Free, TypePlaces,
       TypeTasks, TypeProcs
  <2>5. CASE Spawns(t)
    <3>1. SpawnsNext(t) \/ SpawnsNothing(t)
      BY <2>5, SpawnsOrNot
    <3>2. CASE SpawnsNext(t)
      BY <3>2, NvrAssumption DEF SpawnsNext, HandsFit, InOrder, TypePlaces, TypeTasks,
         TypeProcs, Procs
    <3>3. CASE SpawnsNothing(t)
      BY <3>3, EndsOutside DEF SpawnsNothing, HandsFit, InOrder, TypePlaces, TypeTasks,
         TypeProcs, Procs
    <3>. QED BY <3>1, <3>2, <3>3
  <2>6. CASE SpawnFails(t)
    BY <2>6, RingSteps, StartSteps, EndsOutside, NvrAssumption DEF SpawnFails, Goto,
       KeepsLock, HandsFit, InOrder, Tasks, Procs, Callers, Clip, Unload, Free, TypePlaces,
       TypeTasks, TypeProcs
  <2>7. CASE Registers(t)
    BY <2>7, RingSteps, StartSteps, EndsOutside, NvrAssumption DEF Registers, KeepsLock,
       HandsFit, InOrder, Tasks, Procs, Callers, Clip, Unload, Free, TypePlaces, TypeTasks,
       TypeProcs
  <2>8. CASE RespawnsRing(t)
    <3>1. CASE pc[t] = "begin"
      BY <2>8, RingSteps, StartSteps, EndsOutside, NvrAssumption, <3>1 DEF RespawnsRing,
         RingGone, HeldIsGone, MayEnter, Alive, Goto, HandsFit, InOrder, Tasks, Procs,
         Callers, Clip, Unload, Free, TypePlaces, TypeTasks, TypeProcs
    <3>2. CASE pc[t] # "begin"
      BY <2>8, RingSteps, StartSteps, EndsOutside, NvrAssumption, <3>2 DEF RespawnsRing,
         RingGone, HeldIsGone, MayEnter, Alive, Goto, HandsFit, InOrder, Tasks, Procs,
         Callers, Clip, Unload, Free, TypePlaces, TypeTasks, TypeProcs
    <3>. QED BY <3>1, <3>2
  <2>9. CASE RingSpawns(t)
    BY <2>9, NvrAssumption DEF RingSpawns, Goto, HandsFit, InOrder, Tasks, Procs, Callers,
       Clip, Unload, Free, TypePlaces, TypeTasks, TypeProcs
  <2>10. CASE RingRegisters(t)
    BY <2>10 DEF RingRegisters, Goto, HandsFit, InOrder, Tasks, Procs, Callers, Clip,
       Unload, Free, TypePlaces, TypeTasks, TypeProcs
  <2>11. CASE RingWatched(t)
    BY <2>11, RingSteps, StartSteps, EndsOutside, NvrAssumption DEF RingWatched, KeepsLock,
       HandsFit, InOrder, Tasks, Procs, Callers, Clip, Unload, Free, TypePlaces, TypeTasks,
       TypeProcs
  <2>. QED BY <1>1, <2>1, <2>2, <2>3, <2>4, <2>5, <2>6, <2>7, <2>8, <2>9, <2>10, <2>11 DEF
     Runs
<1>2. ASSUME NEW c \in Callers, Outside(c)
      PROVE  HandsFit'
  <2>1. CASE SwitchOn(c)
    BY <2>1 DEF SwitchOn, Calls, HandsFit, InOrder, Tasks, Procs, Callers, Clip, Unload,
       Free, TypePlaces, TypeTasks, TypeProcs
  <2>2. CASE SwitchOff(c)
    BY <2>2 DEF SwitchOff, Calls, HandsFit, InOrder, Tasks, Procs, Callers, Clip, Unload,
       Free, TypePlaces, TypeTasks, TypeProcs
  <2>3. CASE SessionReady(c)
    <3>1. CASE intent
      BY <2>3, <3>1 DEF SessionReady, Calls, Quiet, HandsFit, InOrder, Tasks, Procs,
         Callers, Clip, Unload, Free, TypePlaces, TypeTasks, TypeProcs
    <3>2. CASE ~intent
      BY <2>3, <3>2 DEF SessionReady, Calls, Quiet, HandsFit, InOrder, Tasks, Procs,
         Callers, Clip, Unload, Free, TypePlaces, TypeTasks, TypeProcs
    <3>. QED BY <3>1, <3>2
  <2>4. CASE SessionRemote(c)
    BY <2>4 DEF SessionRemote, Calls, Quiet, HandsFit, InOrder, Tasks, Procs, Callers, Clip,
       Unload, Free, TypePlaces, TypeTasks, TypeProcs
  <2>5. CASE TearDown(c)
    BY <2>5 DEF TearDown, Calls, Quiet, HandsFit, InOrder, Tasks, Procs, Callers, Clip,
       Unload, Free, TypePlaces, TypeTasks, TypeProcs
  <2>. QED BY <1>2, <2>1, <2>2, <2>3, <2>4, <2>5 DEF Outside
<1>3. ASSUME NEW p \in Procs, Watches(p)
      PROVE  HandsFit'
  <2>1. CASE NotMine(p)
    BY <2>1 DEF NotMine, HandsFit, InOrder, Tasks, Procs, Callers, Clip, Unload, Free,
       TypePlaces, TypeTasks, TypeProcs
  <2>2. CASE RecorderDied(p)
    BY <2>2 DEF RecorderDied, HandsFit, InOrder, Tasks, Procs, Callers, Clip, Unload, Free,
       TypePlaces, TypeTasks, TypeProcs
  <2>3. CASE RingDied(p)
    BY <2>3 DEF RingDied, HandsFit, InOrder, Tasks, Procs, Callers, Clip, Unload, Free,
       TypePlaces, TypeTasks, TypeProcs
  <2>4. CASE Wakes(p)
    BY <2>4 DEF Wakes, HandsFit, InOrder, Tasks, Procs, Callers, Clip, Unload, Free,
       TypePlaces, TypeTasks, TypeProcs
  <2>. QED BY <1>3, <2>1, <2>2, <2>3, <2>4 DEF Watches
<1>4. ASSUME NEW c \in Callers, Saved(c)
      PROVE  HandsFit'
  BY <1>4 DEF Saved, HandsFit, InOrder, Tasks, Procs, Callers, Clip, Unload, Free,
     TypePlaces, TypeTasks, TypeProcs
<1>5. ASSUME NEW c \in Callers, NEW m \in {"continuous", "event_buffered"}, SelectMode(c, m)
      PROVE  HandsFit'
  BY <1>5 DEF SelectMode, Calls, Quiet, HandsFit, InOrder, Tasks, Procs, Callers, Clip,
     Unload, Free, TypePlaces, TypeTasks, TypeProcs
<1>6. ASSUME NEW p \in Procs, NEW reason \in {"signal", "auth", "crash", "disk"}, Exits(p, reason)
      PROVE  HandsFit'
  BY <1>6 DEF Exits, HandsFit, InOrder, Tasks, Procs, Callers, Clip, Unload, Free,
     TypePlaces, TypeTasks, TypeProcs
<1>7. CASE NothingToFinalize
  BY <1>7 DEF NothingToFinalize, MayEnter, HandsFit, InOrder, Tasks, Procs, Callers, Clip,
     Unload, Free, TypePlaces, TypeTasks, TypeProcs
<1>8. CASE Finalized
  BY <1>8 DEF Finalized, HeldIsGone, HandsFit, InOrder, Tasks, Procs, Callers, Clip, Unload,
     Free, TypePlaces, TypeTasks, TypeProcs
<1>9. CASE ClipRestarts
  <2>1. CASE RingStep(ring) = "end"
    BY <1>9, RingSteps, StartSteps, EndsOutside, NvrAssumption, <2>1 DEF ClipRestarts,
       MayEnter, Goto, TakesLock, HandsFit, InOrder, Tasks, Procs, Callers, Clip, Unload,
       Free, TypePlaces, TypeTasks, TypeProcs
  <2>2. CASE RingStep(ring) # "end"
    BY <1>9, RingSteps, StartSteps, EndsOutside, NvrAssumption, <2>2 DEF ClipRestarts,
       MayEnter, Goto, TakesLock, HandsFit, InOrder, Tasks, Procs, Callers, Clip, Unload,
       Free, TypePlaces, TypeTasks, TypeProcs
  <2>. QED BY <2>1, <2>2
<1>10. CASE PostrollEnds
  BY <1>10 DEF PostrollEnds, HandsFit, InOrder, Tasks, Procs, Callers, Clip, Unload, Free,
     TypePlaces, TypeTasks, TypeProcs
<1>11. CASE Concat
  BY <1>11 DEF Concat, HandsFit, InOrder, Tasks, Procs, Callers, Clip, Unload, Free,
     TypePlaces, TypeTasks, TypeProcs
<1>12. CASE MotionEvent
  BY <1>12 DEF MotionEvent, HandsFit, InOrder, Tasks, Procs, Callers, Clip, Unload, Free,
     TypePlaces, TypeTasks, TypeProcs
<1>13. CASE SweepGoesOn
  <2>1. CASE pc[Unload] = "begin"
    BY <1>13, <2>1 DEF SweepGoesOn, RingGone, HeldIsGone, MayEnter, Alive, HandsFit,
       InOrder, Tasks, Procs, Callers, Clip, Unload, Free, TypePlaces, TypeTasks, TypeProcs
  <2>2. CASE pc[Unload] # "begin"
    BY <1>13, <2>2 DEF SweepGoesOn, RingGone, HeldIsGone, MayEnter, Alive, HandsFit,
       InOrder, Tasks, Procs, Callers, Clip, Unload, Free, TypePlaces, TypeTasks, TypeProcs
  <2>. QED BY <2>1, <2>2
<1>14. CASE Unloads
  BY <1>14 DEF Unloads, HandsFit, InOrder, Tasks, Procs, Callers, Clip, Unload, Free,
     TypePlaces, TypeTasks, TypeProcs
<1>15. CASE TasksCancelled
  BY <1>15 DEF TasksCancelled, HandsFit, InOrder, Tasks, Procs, Callers, Clip, Unload, Free,
     TypePlaces, TypeTasks, TypeProcs
<1>16. CASE \/ (\E k \in {"rec", "ring"} : WindowPasses(k)) \/ SessionOpens
            \/ UNCHANGED vars
  <2>1. UNCHANGED <<held, kind, pc, ps>>
    BY <1>16 DEF WindowPasses, SessionOpens, vars
  <2>. QED BY <2>1 DEF HandsFit
<1>. QED BY <1>1, <1>2, <1>3, <1>4, <1>5, <1>6, <1>7, <1>8, <1>9, <1>10, <1>11, <1>12,
   <1>13, <1>14, <1>15, <1>16 DEF Next, Assembles

\* No recorder is registered between the stop of the old one and the new one.
LEMMA NoRecorderStep ==
  ASSUME TypeProcs, TypePlaces, TypeTasks, Locked, NoRecorder, [Next]_vars
  PROVE  NoRecorder'
<1>. USE DEF tracked, procs, tasks, session, ghosts, rejected, counts, bounds
<1>1. ASSUME NEW t \in Tasks, Runs(t)
      PROVE  NoRecorder'
  <2>1. CASE StopsRing(t)
    BY <2>1 DEF StopsRing, MayEnter, Alive, Signal, Goto, TakesLock, NoRecorder, Tasks,
       Procs, Callers, Clip, Unload, Free, TypePlaces, TypeTasks
  <2>2. CASE StopsRec(t)
    <3>1. CASE pc[t] = "begin"
      BY <2>2, RingSteps, StartSteps, EndsOutside, <3>1 DEF StopsRec, RingGone, HeldIsGone,
         MayEnter, Alive, Signal, Goto, TakesLock, KeepsLock, NoRecorder, Tasks, Procs,
         Callers, Clip, Unload, Free, TypePlaces, TypeTasks
    <3>2. CASE pc[t] # "begin"
      BY <2>2, RingSteps, StartSteps, EndsOutside, <3>2 DEF StopsRec, RingGone, HeldIsGone,
         MayEnter, Alive, Signal, Goto, TakesLock, KeepsLock, NoRecorder, Tasks, Procs,
         Callers, Clip, Unload, Free, TypePlaces, TypeTasks
    <3>. QED BY <3>1, <3>2
  <2>3. CASE RecGone(t)
    BY <2>3, RingSteps, StartSteps, EndsOutside DEF RecGone, HeldIsGone, Goto, KeepsLock,
       NoRecorder, Tasks, Procs, Callers, Clip, Unload, Free, TypePlaces, TypeTasks
  <2>4. CASE UrlWaited(t)
    BY <2>4, RingSteps, StartSteps, EndsOutside DEF UrlWaited, Goto, KeepsLock, NoRecorder,
       Tasks, Procs, Callers, Clip, Unload, Free, TypePlaces, TypeTasks
  <2>5. CASE Spawns(t)
    <3>1. CASE shutting \/ sess # "LOCAL"
      BY <2>5, RingSteps, StartSteps, EndsOutside, <3>1 DEF Spawns, Goto, KeepsLock,
         NoRecorder, Tasks, Procs, Callers, Clip, Unload, Free, TypePlaces, TypeTasks
    <3>2. CASE ~(shutting \/ sess # "LOCAL")
      BY <2>5, RingSteps, StartSteps, EndsOutside, <3>2 DEF Spawns, Goto, KeepsLock,
         NoRecorder, Tasks, Procs, Callers, Clip, Unload, Free, TypePlaces, TypeTasks
    <3>. QED BY <3>1, <3>2
  <2>6. CASE SpawnFails(t)
    BY <2>6, RingSteps, StartSteps, EndsOutside DEF SpawnFails, Goto, KeepsLock, NoRecorder,
       Tasks, Procs, Callers, Clip, Unload, Free, TypePlaces, TypeTasks
  <2>7. CASE Registers(t)
    BY <2>7, RingSteps, StartSteps, EndsOutside DEF Registers, KeepsLock, Locked, Critical,
       NoRecorder, Tasks, Procs, Callers, Clip, Unload, Free, TypePlaces, TypeTasks
  <2>8. CASE RespawnsRing(t)
    <3>1. CASE pc[t] = "begin"
      BY <2>8, RingSteps, StartSteps, EndsOutside, <3>1 DEF RespawnsRing, RingGone,
         HeldIsGone, MayEnter, Alive, Goto, NoRecorder, Tasks, Procs, Callers, Clip, Unload,
         Free, TypePlaces, TypeTasks
    <3>2. CASE pc[t] # "begin"
      BY <2>8, RingSteps, StartSteps, EndsOutside, <3>2 DEF RespawnsRing, RingGone,
         HeldIsGone, MayEnter, Alive, Goto, NoRecorder, Tasks, Procs, Callers, Clip, Unload,
         Free, TypePlaces, TypeTasks
    <3>. QED BY <3>1, <3>2
  <2>9. CASE RingSpawns(t)
    BY <2>9 DEF RingSpawns, Goto, NoRecorder, Tasks, Procs, Callers, Clip, Unload, Free,
       TypePlaces, TypeTasks
  <2>10. CASE RingRegisters(t)
    BY <2>10 DEF RingRegisters, Goto, NoRecorder, Tasks, Procs, Callers, Clip, Unload, Free,
       TypePlaces, TypeTasks
  <2>11. CASE RingWatched(t)
    BY <2>11, RingSteps, StartSteps, EndsOutside DEF RingWatched, KeepsLock, NoRecorder,
       Tasks, Procs, Callers, Clip, Unload, Free, TypePlaces, TypeTasks
  <2>. QED BY <1>1, <2>1, <2>2, <2>3, <2>4, <2>5, <2>6, <2>7, <2>8, <2>9, <2>10, <2>11 DEF
     Runs
<1>2. ASSUME NEW c \in Callers, Outside(c)
      PROVE  NoRecorder'
  <2>1. CASE SwitchOn(c)
    BY <2>1 DEF SwitchOn, Calls, NoRecorder, Tasks, Procs, Callers, Clip, Unload, Free,
       TypePlaces, TypeTasks
  <2>2. CASE SwitchOff(c)
    BY <2>2 DEF SwitchOff, Calls, NoRecorder, Tasks, Procs, Callers, Clip, Unload, Free,
       TypePlaces, TypeTasks
  <2>3. CASE SessionReady(c)
    <3>1. CASE intent
      BY <2>3, <3>1 DEF SessionReady, Calls, Quiet, NoRecorder, Tasks, Procs, Callers, Clip,
         Unload, Free, TypePlaces, TypeTasks
    <3>2. CASE ~intent
      BY <2>3, <3>2 DEF SessionReady, Calls, Quiet, NoRecorder, Tasks, Procs, Callers, Clip,
         Unload, Free, TypePlaces, TypeTasks
    <3>. QED BY <3>1, <3>2
  <2>4. CASE SessionRemote(c)
    BY <2>4 DEF SessionRemote, Calls, Quiet, NoRecorder, Tasks, Procs, Callers, Clip,
       Unload, Free, TypePlaces, TypeTasks
  <2>5. CASE TearDown(c)
    BY <2>5 DEF TearDown, Calls, Quiet, NoRecorder, Tasks, Procs, Callers, Clip, Unload,
       Free, TypePlaces, TypeTasks
  <2>. QED BY <1>2, <2>1, <2>2, <2>3, <2>4, <2>5 DEF Outside
<1>3. ASSUME NEW p \in Procs, Watches(p)
      PROVE  NoRecorder'
  <2>1. CASE NotMine(p)
    BY <2>1 DEF NotMine, NoRecorder, Tasks, Procs, Callers, Clip, Unload, Free, TypePlaces,
       TypeTasks
  <2>2. CASE RecorderDied(p)
    BY <2>2 DEF RecorderDied, NoRecorder, Tasks, Procs, Callers, Clip, Unload, Free,
       TypePlaces, TypeTasks
  <2>3. CASE RingDied(p)
    BY <2>3 DEF RingDied, NoRecorder, Tasks, Procs, Callers, Clip, Unload, Free, TypePlaces,
       TypeTasks
  <2>4. CASE Wakes(p)
    BY <2>4 DEF Wakes, NoRecorder, Tasks, Procs, Callers, Clip, Unload, Free, TypePlaces,
       TypeTasks
  <2>. QED BY <1>3, <2>1, <2>2, <2>3, <2>4 DEF Watches
<1>4. ASSUME NEW c \in Callers, Saved(c)
      PROVE  NoRecorder'
  BY <1>4 DEF Saved, NoRecorder, Tasks, Procs, Callers, Clip, Unload, Free, TypePlaces,
     TypeTasks
<1>5. ASSUME NEW c \in Callers, NEW m \in {"continuous", "event_buffered"}, SelectMode(c, m)
      PROVE  NoRecorder'
  BY <1>5 DEF SelectMode, Calls, Quiet, NoRecorder, Tasks, Procs, Callers, Clip, Unload,
     Free, TypePlaces, TypeTasks
<1>6. CASE NothingToFinalize
  BY <1>6 DEF NothingToFinalize, MayEnter, NoRecorder, Tasks, Procs, Callers, Clip, Unload,
     Free, TypePlaces, TypeTasks
<1>7. CASE Finalized
  BY <1>7 DEF Finalized, HeldIsGone, NoRecorder, Tasks, Procs, Callers, Clip, Unload, Free,
     TypePlaces, TypeTasks
<1>8. CASE ClipRestarts
  <2>1. CASE RingStep(ring) = "end"
    BY <1>8, RingSteps, StartSteps, EndsOutside, <2>1 DEF ClipRestarts, MayEnter, Goto,
       TakesLock, NoRecorder, Tasks, Procs, Callers, Clip, Unload, Free, TypePlaces,
       TypeTasks
  <2>2. CASE RingStep(ring) # "end"
    BY <1>8, RingSteps, StartSteps, EndsOutside, <2>2 DEF ClipRestarts, MayEnter, Goto,
       TakesLock, NoRecorder, Tasks, Procs, Callers, Clip, Unload, Free, TypePlaces,
       TypeTasks
  <2>. QED BY <2>1, <2>2
<1>9. CASE PostrollEnds
  BY <1>9 DEF PostrollEnds, NoRecorder, Tasks, Procs, Callers, Clip, Unload, Free,
     TypePlaces, TypeTasks
<1>10. CASE Concat
  BY <1>10 DEF Concat, NoRecorder, Tasks, Procs, Callers, Clip, Unload, Free, TypePlaces,
     TypeTasks
<1>11. CASE MotionEvent
  BY <1>11 DEF MotionEvent, NoRecorder, Tasks, Procs, Callers, Clip, Unload, Free,
     TypePlaces, TypeTasks
<1>12. CASE SweepGoesOn
  <2>1. CASE pc[Unload] = "begin"
    BY <1>12, <2>1 DEF SweepGoesOn, RingGone, HeldIsGone, MayEnter, Alive, NoRecorder,
       Tasks, Procs, Callers, Clip, Unload, Free, TypePlaces, TypeTasks
  <2>2. CASE pc[Unload] # "begin"
    BY <1>12, <2>2 DEF SweepGoesOn, RingGone, HeldIsGone, MayEnter, Alive, NoRecorder,
       Tasks, Procs, Callers, Clip, Unload, Free, TypePlaces, TypeTasks
  <2>. QED BY <2>1, <2>2
<1>13. CASE Unloads
  BY <1>13 DEF Unloads, NoRecorder, Tasks, Procs, Callers, Clip, Unload, Free, TypePlaces,
     TypeTasks
<1>14. CASE TasksCancelled
  BY <1>14 DEF TasksCancelled, NoRecorder, Tasks, Procs, Callers, Clip, Unload, Free,
     TypePlaces, TypeTasks
<1>15. CASE \/ (\E p \in Procs, reason \in {"signal", "auth", "crash", "disk"} : Exits(p, reason))
            \/ (\E k \in {"rec", "ring"} : WindowPasses(k)) \/ SessionOpens
            \/ UNCHANGED vars
  <2>1. UNCHANGED <<pc, prog, rec>>
    BY <1>15 DEF Exits, WindowPasses, SessionOpens, vars
  <2>. QED BY <2>1 DEF NoRecorder
<1>. QED BY <1>1, <1>2, <1>3, <1>4, <1>5, <1>6, <1>7, <1>8, <1>9, <1>10, <1>11, <1>12,
   <1>13, <1>14, <1>15 DEF Next, Assembles

\* Nor a ring.
LEMMA NoRingStep ==
  ASSUME TypeProcs, TypePlaces, TypeTasks, Locked, InOrder, DictsFit, NoRing, [Next]_vars
  PROVE  NoRing'
<1>. USE DEF tracked, procs, tasks, session, ghosts, rejected, counts, bounds
<1>1. ASSUME NEW t \in Tasks, Runs(t)
      PROVE  NoRing'
  <2>1. CASE StopsRing(t)
    BY <2>1 DEF StopsRing, MayEnter, Alive, Signal, Goto, TakesLock, NoRing, Critical,
       Locked, Tasks, Procs, Callers, Clip, Unload, Free, TypePlaces, TypeTasks, TypeProcs
  <2>2. CASE StopsRec(t)
    <3>1. CASE pc[t] = "begin"
      <4>1. ring' = 0
        BY <2>2, <3>1 DEF StopsRec
      <4>. QED BY <4>1 DEF NoRing, Alive
    <3>2. CASE pc[t] # "begin"
      <4>1. pc[t] = "ringExit" /\ ring' = ring /\ prog' = prog
        BY <2>2, <3>2 DEF StopsRec, RingGone, MayEnter
      <4>2. ~Alive(ring) => ~Alive(ring)'
        BY <2>2, <4>1 DEF StopsRec, Signal, Alive, TypeProcs, Procs
      <4>3. \A u \in Tasks : u # t => pc'[u] = pc[u]
        BY <2>2 DEF StopsRec, Goto, TypePlaces
      <4>4. prog[t] = "stop" => pc'[t] \in {"recExit", "postroll", "done", "swept", "idle"}
        BY <2>2, EndsOutside DEF StopsRec, Goto, TypePlaces
      <4>. QED BY <4>1, <4>2, <4>3, <4>4 DEF NoRing, Critical
    <3>. QED BY <3>1, <3>2
  <2>3. CASE RecGone(t)
    BY <2>3, RingSteps, StartSteps, EndsOutside DEF RecGone, HeldIsGone, Goto, KeepsLock,
       NoRing, Critical, Alive, Locked, Tasks, Procs, Callers, Clip, Unload, Free,
       TypePlaces, TypeTasks, TypeProcs
  <2>4. CASE UrlWaited(t)
    BY <2>4, RingSteps, StartSteps, EndsOutside DEF UrlWaited, Goto, KeepsLock, NoRing,
       Critical, Alive, Locked, Tasks, Procs, Callers, Clip, Unload, Free, TypePlaces,
       TypeTasks, TypeProcs
  <2>5. CASE Spawns(t)
    <3>1. SpawnsNext(t) \/ SpawnsNothing(t)
      BY <2>5, SpawnsOrNot
    <3>2. CASE SpawnsNext(t)
      BY <3>2, NvrAssumption DEF SpawnsNext, NoRing, Critical, Alive, DictsFit, InOrder,
         TypePlaces, TypeTasks, TypeProcs, Procs
    <3>3. CASE SpawnsNothing(t)
      BY <3>3, EndsOutside DEF SpawnsNothing, NoRing, Critical, Alive, DictsFit, InOrder,
         TypePlaces, TypeTasks, TypeProcs, Procs
    <3>. QED BY <3>1, <3>2, <3>3
  <2>6. CASE SpawnFails(t)
    BY <2>6, RingSteps, StartSteps, EndsOutside DEF SpawnFails, Goto, KeepsLock, NoRing,
       Critical, Alive, Locked, Tasks, Procs, Callers, Clip, Unload, Free, TypePlaces,
       TypeTasks, TypeProcs
  <2>7. CASE Registers(t)
    BY <2>7, RingSteps, StartSteps, EndsOutside DEF Registers, KeepsLock, NoRing, Critical,
       Alive, Locked, Tasks, Procs, Callers, Clip, Unload, Free, TypePlaces, TypeTasks,
       TypeProcs
  <2>8. CASE RespawnsRing(t)
    <3>1. CASE pc[t] = "begin"
      BY <2>8, RingSteps, StartSteps, EndsOutside, <3>1 DEF RespawnsRing, RingGone,
         HeldIsGone, MayEnter, Alive, Goto, NoRing, Critical, Locked, Tasks, Procs, Callers,
         Clip, Unload, Free, TypePlaces, TypeTasks, TypeProcs
    <3>2. CASE pc[t] # "begin"
      BY <2>8, RingSteps, StartSteps, EndsOutside, <3>2 DEF RespawnsRing, RingGone,
         HeldIsGone, MayEnter, Alive, Goto, NoRing, Critical, Locked, Tasks, Procs, Callers,
         Clip, Unload, Free, TypePlaces, TypeTasks, TypeProcs
    <3>. QED BY <3>1, <3>2
  <2>9. CASE RingSpawns(t)
    BY <2>9 DEF RingSpawns, Goto, InOrder, DictsFit, NoRing, Critical, Alive, Locked, Tasks,
       Procs, Callers, Clip, Unload, Free, TypePlaces, TypeTasks, TypeProcs
  <2>10. CASE RingRegisters(t)
    BY <2>10 DEF RingRegisters, Goto, NoRing, Critical, Alive, Locked, Tasks, Procs,
       Callers, Clip, Unload, Free, TypePlaces, TypeTasks, TypeProcs
  <2>11. CASE RingWatched(t)
    BY <2>11, RingSteps, StartSteps, EndsOutside DEF RingWatched, KeepsLock, NoRing,
       Critical, Alive, Locked, Tasks, Procs, Callers, Clip, Unload, Free, TypePlaces,
       TypeTasks, TypeProcs
  <2>. QED BY <1>1, <2>1, <2>2, <2>3, <2>4, <2>5, <2>6, <2>7, <2>8, <2>9, <2>10, <2>11 DEF
     Runs
<1>2. ASSUME NEW c \in Callers, Outside(c)
      PROVE  NoRing'
  <2>1. CASE SwitchOn(c)
    BY <2>1 DEF SwitchOn, Calls, NoRing, Critical, Alive, Locked, Tasks, Procs, Callers,
       Clip, Unload, Free, TypePlaces, TypeTasks, TypeProcs
  <2>2. CASE SwitchOff(c)
    BY <2>2 DEF SwitchOff, Calls, NoRing, Critical, Alive, Locked, Tasks, Procs, Callers,
       Clip, Unload, Free, TypePlaces, TypeTasks, TypeProcs
  <2>3. CASE SessionReady(c)
    <3>1. CASE intent
      BY <2>3, <3>1, ZenonT(60) DEF SessionReady, Calls, Quiet, NoRing, Critical, Alive, Locked, Tasks,
         Procs, Callers, Clip, Unload, Free, TypePlaces, TypeTasks, TypeProcs
    <3>2. CASE ~intent
      BY <2>3, <3>2 DEF SessionReady, Calls, Quiet, NoRing, Critical, Alive, Locked, Tasks,
         Procs, Callers, Clip, Unload, Free, TypePlaces, TypeTasks, TypeProcs
    <3>. QED BY <3>1, <3>2
  <2>4. CASE SessionRemote(c)
    BY <2>4 DEF SessionRemote, Calls, Quiet, NoRing, Critical, Alive, Locked, Tasks, Procs,
       Callers, Clip, Unload, Free, TypePlaces, TypeTasks, TypeProcs
  <2>5. CASE TearDown(c)
    BY <2>5 DEF TearDown, Calls, Quiet, NoRing, Critical, Alive, Locked, Tasks, Procs,
       Callers, Clip, Unload, Free, TypePlaces, TypeTasks, TypeProcs
  <2>. QED BY <1>2, <2>1, <2>2, <2>3, <2>4, <2>5 DEF Outside
<1>3. ASSUME NEW p \in Procs, Watches(p)
      PROVE  NoRing'
  <2>1. CASE NotMine(p)
    BY <2>1 DEF NotMine, NoRing, Critical, Alive, Locked, Tasks, Procs, Callers, Clip,
       Unload, Free, TypePlaces, TypeTasks, TypeProcs
  <2>2. CASE RecorderDied(p)
    BY <2>2 DEF RecorderDied, NoRing, Critical, Alive, Locked, Tasks, Procs, Callers, Clip,
       Unload, Free, TypePlaces, TypeTasks, TypeProcs
  <2>3. CASE RingDied(p)
    BY <2>3 DEF RingDied, NoRing, Critical, Alive, Locked, Tasks, Procs, Callers, Clip,
       Unload, Free, TypePlaces, TypeTasks, TypeProcs
  <2>4. CASE Wakes(p)
    BY <2>4 DEF Wakes, NoRing, Critical, Alive, Locked, Tasks, Procs, Callers, Clip, Unload,
       Free, TypePlaces, TypeTasks, TypeProcs
  <2>. QED BY <1>3, <2>1, <2>2, <2>3, <2>4 DEF Watches
<1>4. ASSUME NEW c \in Callers, Saved(c)
      PROVE  NoRing'
  BY <1>4 DEF Saved, NoRing, Critical, Alive, Locked, Tasks, Procs, Callers, Clip, Unload,
     Free, TypePlaces, TypeTasks, TypeProcs
<1>5. ASSUME NEW c \in Callers, NEW m \in {"continuous", "event_buffered"}, SelectMode(c, m)
      PROVE  NoRing'
  BY <1>5, SMTT(60) DEF SelectMode, Calls, Quiet, NoRing, Critical, Alive, Locked, Tasks, Procs,
     Callers, Clip, Unload, Free, TypePlaces, TypeTasks, TypeProcs
<1>6. ASSUME NEW p \in Procs, NEW reason \in {"signal", "auth", "crash", "disk"}, Exits(p, reason)
      PROVE  NoRing'
  BY <1>6 DEF Exits, NoRing, Critical, Alive, Locked, Tasks, Procs, Callers, Clip, Unload,
     Free, TypePlaces, TypeTasks, TypeProcs
<1>7. CASE NothingToFinalize
  BY <1>7 DEF NothingToFinalize, MayEnter, NoRing, Critical, Alive, Locked, Tasks, Procs,
     Callers, Clip, Unload, Free, TypePlaces, TypeTasks, TypeProcs
<1>8. CASE Finalized
  BY <1>8 DEF Finalized, HeldIsGone, NoRing, Critical, Alive, Locked, Tasks, Procs, Callers,
     Clip, Unload, Free, TypePlaces, TypeTasks, TypeProcs
<1>9. CASE ClipRestarts
  <2>1. CASE RingStep(ring) = "end"
    BY <1>9, RingSteps, StartSteps, EndsOutside, <2>1 DEF ClipRestarts, MayEnter, Goto,
       TakesLock, NoRing, Critical, Alive, Locked, Tasks, Procs, Callers, Clip, Unload,
       Free, TypePlaces, TypeTasks, TypeProcs
  <2>2. CASE RingStep(ring) # "end"
    BY <1>9, RingSteps, StartSteps, EndsOutside, <2>2 DEF ClipRestarts, MayEnter, Goto,
       TakesLock, NoRing, Critical, Alive, Locked, Tasks, Procs, Callers, Clip, Unload,
       Free, TypePlaces, TypeTasks, TypeProcs
  <2>. QED BY <2>1, <2>2
<1>10. CASE PostrollEnds
  BY <1>10 DEF PostrollEnds, NoRing, Critical, Alive, Locked, Tasks, Procs, Callers, Clip,
     Unload, Free, TypePlaces, TypeTasks, TypeProcs
<1>11. CASE Concat
  BY <1>11 DEF Concat, NoRing, Critical, Alive, Locked, Tasks, Procs, Callers, Clip, Unload,
     Free, TypePlaces, TypeTasks, TypeProcs
<1>12. CASE MotionEvent
  BY <1>12 DEF MotionEvent, NoRing, Critical, Alive, Locked, Tasks, Procs, Callers, Clip,
     Unload, Free, TypePlaces, TypeTasks, TypeProcs
<1>13. CASE SweepGoesOn
  <2>1. CASE pc[Unload] = "begin"
    BY <1>13, <2>1 DEF SweepGoesOn, RingGone, HeldIsGone, MayEnter, Alive, NoRing, Critical,
       Locked, Tasks, Procs, Callers, Clip, Unload, Free, TypePlaces, TypeTasks, TypeProcs
  <2>2. CASE pc[Unload] # "begin"
    BY <1>13, <2>2 DEF SweepGoesOn, RingGone, HeldIsGone, MayEnter, Alive, NoRing, Critical,
       Locked, Tasks, Procs, Callers, Clip, Unload, Free, TypePlaces, TypeTasks, TypeProcs
  <2>. QED BY <2>1, <2>2
<1>14. CASE Unloads
  BY <1>14 DEF Unloads, NoRing, Critical, Alive, Locked, Tasks, Procs, Callers, Clip,
     Unload, Free, TypePlaces, TypeTasks, TypeProcs
<1>15. CASE TasksCancelled
  BY <1>15 DEF TasksCancelled, NoRing, Critical, Alive, Locked, Tasks, Procs, Callers, Clip,
     Unload, Free, TypePlaces, TypeTasks, TypeProcs
<1>16. CASE \/ (\E k \in {"rec", "ring"} : WindowPasses(k)) \/ SessionOpens
            \/ UNCHANGED vars
  <2>1. UNCHANGED <<pc, prog, ps, ring>>
    BY <1>16 DEF WindowPasses, SessionOpens, vars
  <2>. QED BY <2>1 DEF NoRing, Critical, Alive
<1>. QED BY <1>1, <1>2, <1>3, <1>4, <1>5, <1>6, <1>7, <1>8, <1>9, <1>10, <1>11, <1>12,
   <1>13, <1>14, <1>15, <1>16 DEF Next, Assembles

\* A recorder that runs leaves the hands of its starter for the dict.
LEMMA RecorderTrackedStep ==
  ASSUME TypeProcs, TypePlaces, TypeTasks, Locked, InOrder, NoRecorder, AllSwept, UnloadSteps, RecorderTracked, [Next]_vars
  PROVE  RecorderTracked'
<1>. USE DEF tracked, procs, tasks, session, ghosts, rejected, counts, bounds
<1>1. ASSUME NEW t \in Tasks, Runs(t)
      PROVE  RecorderTracked'
  <2>1. CASE StopsRing(t)
    BY <2>1 DEF StopsRing, MayEnter, Alive, Signal, Goto, TakesLock, RecorderTracked,
       Locked, Critical, Tasks, Procs, Callers, Clip, Unload, Free, TypePlaces, TypeTasks,
       TypeProcs
  <2>2. CASE StopsRec(t)
    <3>1. CASE pc[t] = "begin"
      BY <2>2, RingSteps, StartSteps, EndsOutside, <3>1 DEF StopsRec, RingGone, HeldIsGone,
         MayEnter, Alive, Signal, Goto, TakesLock, KeepsLock, RecorderTracked, Locked,
         Critical, Tasks, Procs, Callers, Clip, Unload, Free, TypePlaces, TypeTasks,
         TypeProcs
    <3>2. CASE pc[t] # "begin"
      BY <2>2, RingSteps, StartSteps, EndsOutside, <3>2 DEF StopsRec, RingGone, HeldIsGone,
         MayEnter, Alive, Signal, Goto, TakesLock, KeepsLock, RecorderTracked, Locked,
         Critical, Tasks, Procs, Callers, Clip, Unload, Free, TypePlaces, TypeTasks,
         TypeProcs
    <3>. QED BY <3>1, <3>2
  <2>3. CASE RecGone(t)
    BY <2>3, RingSteps, StartSteps, EndsOutside DEF RecGone, HeldIsGone, Goto, KeepsLock,
       RecorderTracked, Locked, Critical, Tasks, Procs, Callers, Clip, Unload, Free,
       TypePlaces, TypeTasks, TypeProcs
  <2>4. CASE UrlWaited(t)
    BY <2>4, RingSteps, StartSteps, EndsOutside DEF UrlWaited, Goto, KeepsLock,
       RecorderTracked, Locked, Critical, Tasks, Procs, Callers, Clip, Unload, Free,
       TypePlaces, TypeTasks, TypeProcs
  <2>5. CASE Spawns(t)
    <3>1. SpawnsNext(t) \/ SpawnsNothing(t)
      BY <2>5, SpawnsOrNot
    <3>2. CASE SpawnsNext(t)
      BY <3>2, NvrAssumption DEF SpawnsNext, RecorderTracked, TypePlaces, TypeTasks,
         TypeProcs, Procs
    <3>3. CASE SpawnsNothing(t)
      BY <3>3, EndsOutside DEF SpawnsNothing, RecorderTracked, TypePlaces, TypeTasks,
         TypeProcs, Procs
    <3>. QED BY <3>1, <3>2, <3>3
  <2>6. CASE SpawnFails(t)
    BY <2>6, RingSteps, StartSteps, EndsOutside DEF SpawnFails, Goto, KeepsLock,
       RecorderTracked, Locked, Critical, Tasks, Procs, Callers, Clip, Unload, Free,
       TypePlaces, TypeTasks, TypeProcs
  <2>7. CASE Registers(t)
    <3>. SUFFICES ASSUME NEW p \in Procs, ps'[p] = "alive", kind'[p] = "rec"
                  PROVE  p = rec'
      BY DEF RecorderTracked
    <3>1. p # rec
      BY <2>7, NvrAssumption DEF Registers, NoRecorder, Procs
    <3>2. PICK u \in Tasks : pc[u] = "spawned" /\ held[u] = p
      BY <2>7, <3>1 DEF Registers, RecorderTracked, procs
    <3>3. u = t
      BY <2>7, <3>2 DEF Registers, Locked, Critical
    <3>. QED BY <2>7, <3>2, <3>3 DEF Registers
  <2>8. CASE RespawnsRing(t)
    <3>1. CASE pc[t] = "begin"
      BY <2>8, RingSteps, StartSteps, EndsOutside, <3>1 DEF RespawnsRing, RingGone,
         HeldIsGone, MayEnter, Alive, Goto, RecorderTracked, Locked, Critical, Tasks, Procs,
         Callers, Clip, Unload, Free, TypePlaces, TypeTasks, TypeProcs
    <3>2. CASE pc[t] # "begin"
      BY <2>8, RingSteps, StartSteps, EndsOutside, <3>2 DEF RespawnsRing, RingGone,
         HeldIsGone, MayEnter, Alive, Goto, RecorderTracked, Locked, Critical, Tasks, Procs,
         Callers, Clip, Unload, Free, TypePlaces, TypeTasks, TypeProcs
    <3>. QED BY <3>1, <3>2
  <2>9. CASE RingSpawns(t)
    BY <2>9 DEF RingSpawns, Goto, RecorderTracked, Locked, Critical, Tasks, Procs, Callers,
       Clip, Unload, Free, TypePlaces, TypeTasks, TypeProcs
  <2>10. CASE RingRegisters(t)
    BY <2>10 DEF RingRegisters, Goto, RecorderTracked, Locked, Critical, Tasks, Procs,
       Callers, Clip, Unload, Free, TypePlaces, TypeTasks, TypeProcs
  <2>11. CASE RingWatched(t)
    BY <2>11, RingSteps, StartSteps, EndsOutside DEF RingWatched, KeepsLock,
       RecorderTracked, Locked, Critical, Tasks, Procs, Callers, Clip, Unload, Free,
       TypePlaces, TypeTasks, TypeProcs
  <2>. QED BY <1>1, <2>1, <2>2, <2>3, <2>4, <2>5, <2>6, <2>7, <2>8, <2>9, <2>10, <2>11 DEF
     Runs
<1>2. ASSUME NEW c \in Callers, Outside(c)
      PROVE  RecorderTracked'
  <2>1. CASE SwitchOn(c)
    BY <2>1 DEF SwitchOn, Calls, RecorderTracked, Locked, Critical, Tasks, Procs, Callers,
       Clip, Unload, Free, TypePlaces, TypeTasks, TypeProcs
  <2>2. CASE SwitchOff(c)
    BY <2>2 DEF SwitchOff, Calls, RecorderTracked, Locked, Critical, Tasks, Procs, Callers,
       Clip, Unload, Free, TypePlaces, TypeTasks, TypeProcs
  <2>3. CASE SessionReady(c)
    <3>1. \A u \in Tasks : pc[u] = "spawned" => pc'[u] = "spawned"
      BY <2>3 DEF SessionReady, Calls, Quiet, TypePlaces
    <3>2. held' = held /\ tracked' = tracked /\ procs' = procs
      BY <2>3 DEF SessionReady
    <3>. QED BY <3>1, <3>2 DEF RecorderTracked, tracked, procs
  <2>4. CASE SessionRemote(c)
    BY <2>4, SMTT(60) DEF SessionRemote, Calls, Quiet, RecorderTracked, Locked, Critical, Tasks,
       Procs, Callers, Clip, Unload, Free, TypePlaces, TypeTasks, TypeProcs
  <2>5. CASE TearDown(c)
    BY <2>5 DEF TearDown, Calls, Quiet, RecorderTracked, Locked, Critical, Tasks, Procs,
       Callers, Clip, Unload, Free, TypePlaces, TypeTasks, TypeProcs
  <2>. QED BY <1>2, <2>1, <2>2, <2>3, <2>4, <2>5 DEF Outside
<1>3. ASSUME NEW p \in Procs, Watches(p)
      PROVE  RecorderTracked'
  <2>1. CASE NotMine(p)
    BY <2>1 DEF NotMine, RecorderTracked, Locked, Critical, Tasks, Procs, Callers, Clip,
       Unload, Free, TypePlaces, TypeTasks, TypeProcs
  <2>2. CASE RecorderDied(p)
    BY <2>2 DEF RecorderDied, RecorderTracked, Locked, Critical, Tasks, Procs, Callers,
       Clip, Unload, Free, TypePlaces, TypeTasks, TypeProcs
  <2>3. CASE RingDied(p)
    BY <2>3 DEF RingDied, RecorderTracked, Locked, Critical, Tasks, Procs, Callers, Clip,
       Unload, Free, TypePlaces, TypeTasks, TypeProcs
  <2>4. CASE Wakes(p)
    BY <2>4 DEF Wakes, RecorderTracked, Locked, Critical, Tasks, Procs, Callers, Clip,
       Unload, Free, TypePlaces, TypeTasks, TypeProcs
  <2>. QED BY <1>3, <2>1, <2>2, <2>3, <2>4 DEF Watches
<1>4. ASSUME NEW c \in Callers, Saved(c)
      PROVE  RecorderTracked'
  BY <1>4 DEF Saved, RecorderTracked, Locked, Critical, Tasks, Procs, Callers, Clip, Unload,
     Free, TypePlaces, TypeTasks, TypeProcs
<1>5. ASSUME NEW c \in Callers, NEW m \in {"continuous", "event_buffered"}, SelectMode(c, m)
      PROVE  RecorderTracked'
  BY <1>5 DEF SelectMode, Calls, Quiet, RecorderTracked, Locked, Critical, Tasks, Procs,
     Callers, Clip, Unload, Free, TypePlaces, TypeTasks, TypeProcs
<1>6. ASSUME NEW p \in Procs, NEW reason \in {"signal", "auth", "crash", "disk"}, Exits(p, reason)
      PROVE  RecorderTracked'
  BY <1>6 DEF Exits, RecorderTracked, Locked, Critical, Tasks, Procs, Callers, Clip, Unload,
     Free, TypePlaces, TypeTasks, TypeProcs
<1>7. CASE NothingToFinalize
  BY <1>7 DEF NothingToFinalize, MayEnter, RecorderTracked, Locked, Critical, Tasks, Procs,
     Callers, Clip, Unload, Free, TypePlaces, TypeTasks, TypeProcs
<1>8. CASE Finalized
  BY <1>8 DEF Finalized, HeldIsGone, RecorderTracked, Locked, Critical, Tasks, Procs,
     Callers, Clip, Unload, Free, TypePlaces, TypeTasks, TypeProcs
<1>9. CASE ClipRestarts
  <2>1. CASE RingStep(ring) = "end"
    BY <1>9, RingSteps, StartSteps, EndsOutside, <2>1 DEF ClipRestarts, MayEnter, Goto,
       TakesLock, RecorderTracked, Locked, Critical, Tasks, Procs, Callers, Clip, Unload,
       Free, TypePlaces, TypeTasks, TypeProcs
  <2>2. CASE RingStep(ring) # "end"
    BY <1>9, RingSteps, StartSteps, EndsOutside, <2>2 DEF ClipRestarts, MayEnter, Goto,
       TakesLock, RecorderTracked, Locked, Critical, Tasks, Procs, Callers, Clip, Unload,
       Free, TypePlaces, TypeTasks, TypeProcs
  <2>. QED BY <2>1, <2>2
<1>10. CASE PostrollEnds
  BY <1>10 DEF PostrollEnds, RecorderTracked, Locked, Critical, Tasks, Procs, Callers, Clip,
     Unload, Free, TypePlaces, TypeTasks, TypeProcs
<1>11. CASE Concat
  BY <1>11 DEF Concat, RecorderTracked, Locked, Critical, Tasks, Procs, Callers, Clip,
     Unload, Free, TypePlaces, TypeTasks, TypeProcs
<1>12. CASE MotionEvent
  BY <1>12 DEF MotionEvent, RecorderTracked, Locked, Critical, Tasks, Procs, Callers, Clip,
     Unload, Free, TypePlaces, TypeTasks, TypeProcs
<1>13. CASE SweepGoesOn
  <2>1. CASE pc[Unload] = "begin"
    BY <1>13, <2>1 DEF SweepGoesOn, RingGone, HeldIsGone, MayEnter, Alive, RecorderTracked,
       Locked, Critical, Tasks, Procs, Callers, Clip, Unload, Free, TypePlaces, TypeTasks,
       TypeProcs
  <2>2. CASE pc[Unload] # "begin"
    BY <1>13, <2>2 DEF SweepGoesOn, RingGone, HeldIsGone, MayEnter, Alive, RecorderTracked,
       Locked, Critical, Tasks, Procs, Callers, Clip, Unload, Free, TypePlaces, TypeTasks,
       TypeProcs
  <2>. QED BY <2>1, <2>2
<1>14. CASE Unloads
  BY <1>14 DEF Unloads, RecorderTracked, Locked, Critical, Tasks, Procs, Callers, Clip,
     Unload, Free, TypePlaces, TypeTasks, TypeProcs
<1>15. CASE TasksCancelled
  BY <1>15 DEF TasksCancelled, AllSwept, UnloadSteps, RecorderTracked, Locked, Critical,
     Tasks, Procs, Callers, Clip, Unload, Free, TypePlaces, TypeTasks, TypeProcs
<1>16. CASE \/ (\E k \in {"rec", "ring"} : WindowPasses(k)) \/ SessionOpens
            \/ UNCHANGED vars
  <2>1. UNCHANGED <<held, kind, pc, ps, rec>>
    BY <1>16 DEF WindowPasses, SessionOpens, vars
  <2>. QED BY <2>1 DEF RecorderTracked
<1>. QED BY <1>1, <1>2, <1>3, <1>4, <1>5, <1>6, <1>7, <1>8, <1>9, <1>10, <1>11, <1>12,
   <1>13, <1>14, <1>15, <1>16 DEF Next, Assembles

\* So does a ring.
LEMMA RingTrackedStep ==
  ASSUME TypeProcs, TypePlaces, TypeTasks, Locked, InOrder, NoRing, AllSwept, UnloadSteps, RingTracked, [Next]_vars
  PROVE  RingTracked'
<1>. USE DEF tracked, procs, tasks, session, ghosts, rejected, counts, bounds
<1>1. ASSUME NEW t \in Tasks, Runs(t)
      PROVE  RingTracked'
  <2>1. CASE StopsRing(t)
    BY <2>1 DEF StopsRing, MayEnter, Alive, Signal, Goto, TakesLock, RingTracked, Locked,
       Critical, Tasks, Procs, Callers, Clip, Unload, Free, TypePlaces, TypeTasks, TypeProcs
  <2>2. CASE StopsRec(t)
    <3>1. CASE pc[t] = "begin"
      BY <2>2, RingSteps, StartSteps, EndsOutside, <3>1 DEF StopsRec, RingGone, HeldIsGone,
         MayEnter, Alive, Signal, Goto, TakesLock, KeepsLock, RingTracked, Locked, Critical,
         Tasks, Procs, Callers, Clip, Unload, Free, TypePlaces, TypeTasks, TypeProcs
    <3>2. CASE pc[t] # "begin"
      BY <2>2, RingSteps, StartSteps, EndsOutside, <3>2 DEF StopsRec, RingGone, HeldIsGone,
         MayEnter, Alive, Signal, Goto, TakesLock, KeepsLock, RingTracked, Locked, Critical,
         Tasks, Procs, Callers, Clip, Unload, Free, TypePlaces, TypeTasks, TypeProcs
    <3>. QED BY <3>1, <3>2
  <2>3. CASE RecGone(t)
    BY <2>3, RingSteps, StartSteps, EndsOutside DEF RecGone, HeldIsGone, Goto, KeepsLock,
       RingTracked, Locked, Critical, Tasks, Procs, Callers, Clip, Unload, Free, TypePlaces,
       TypeTasks, TypeProcs
  <2>4. CASE UrlWaited(t)
    BY <2>4, RingSteps, StartSteps, EndsOutside DEF UrlWaited, Goto, KeepsLock, RingTracked,
       Locked, Critical, Tasks, Procs, Callers, Clip, Unload, Free, TypePlaces, TypeTasks,
       TypeProcs
  <2>5. CASE Spawns(t)
    <3>1. SpawnsNext(t) \/ SpawnsNothing(t)
      BY <2>5, SpawnsOrNot
    <3>2. CASE SpawnsNext(t)
      BY <3>2, NvrAssumption DEF SpawnsNext, RingTracked, TypePlaces, TypeTasks, TypeProcs,
         Procs
    <3>3. CASE SpawnsNothing(t)
      BY <3>3, EndsOutside DEF SpawnsNothing, RingTracked, TypePlaces, TypeTasks, TypeProcs,
         Procs
    <3>. QED BY <3>1, <3>2, <3>3
  <2>6. CASE SpawnFails(t)
    BY <2>6, RingSteps, StartSteps, EndsOutside DEF SpawnFails, Goto, KeepsLock,
       RingTracked, Locked, Critical, Tasks, Procs, Callers, Clip, Unload, Free, TypePlaces,
       TypeTasks, TypeProcs
  <2>7. CASE Registers(t)
    BY <2>7, RingSteps, StartSteps, EndsOutside DEF Registers, KeepsLock, RingTracked,
       Locked, Critical, Tasks, Procs, Callers, Clip, Unload, Free, TypePlaces, TypeTasks,
       TypeProcs
  <2>8. CASE RespawnsRing(t)
    <3>1. CASE pc[t] = "begin"
      BY <2>8, RingSteps, StartSteps, EndsOutside, <3>1 DEF RespawnsRing, RingGone,
         HeldIsGone, MayEnter, Alive, Goto, RingTracked, Locked, Critical, Tasks, Procs,
         Callers, Clip, Unload, Free, TypePlaces, TypeTasks, TypeProcs
    <3>2. CASE pc[t] # "begin"
      BY <2>8, RingSteps, StartSteps, EndsOutside, <3>2 DEF RespawnsRing, RingGone,
         HeldIsGone, MayEnter, Alive, Goto, RingTracked, Locked, Critical, Tasks, Procs,
         Callers, Clip, Unload, Free, TypePlaces, TypeTasks, TypeProcs
    <3>. QED BY <3>1, <3>2
  <2>9. CASE RingSpawns(t)
    BY <2>9 DEF RingSpawns, Goto, RingTracked, Locked, Critical, Tasks, Procs, Callers,
       Clip, Unload, Free, TypePlaces, TypeTasks, TypeProcs
  <2>10. CASE RingRegisters(t)
    <3>. SUFFICES ASSUME NEW p \in Procs, ps'[p] = "alive", kind'[p] = "ring"
                  PROVE  p = ring'
      BY DEF RingTracked
    <3>1. p # ring
      BY <2>10, NvrAssumption DEF RingRegisters, NoRing, Critical, Alive, Procs, procs
    <3>2. PICK u \in Tasks : pc[u] = "ringSpawned" /\ held[u] = p
      BY <2>10, <3>1 DEF RingRegisters, RingTracked, procs
    <3>3. u = t
      BY <2>10, <3>2 DEF RingRegisters, Locked, Critical
    <3>. QED BY <2>10, <3>2, <3>3 DEF RingRegisters
  <2>11. CASE RingWatched(t)
    BY <2>11, RingSteps, StartSteps, EndsOutside DEF RingWatched, KeepsLock, RingTracked,
       Locked, Critical, Tasks, Procs, Callers, Clip, Unload, Free, TypePlaces, TypeTasks,
       TypeProcs
  <2>. QED BY <1>1, <2>1, <2>2, <2>3, <2>4, <2>5, <2>6, <2>7, <2>8, <2>9, <2>10, <2>11 DEF
     Runs
<1>2. ASSUME NEW c \in Callers, Outside(c)
      PROVE  RingTracked'
  <2>1. CASE SwitchOn(c)
    BY <2>1 DEF SwitchOn, Calls, RingTracked, Locked, Critical, Tasks, Procs, Callers, Clip,
       Unload, Free, TypePlaces, TypeTasks, TypeProcs
  <2>2. CASE SwitchOff(c)
    BY <2>2 DEF SwitchOff, Calls, RingTracked, Locked, Critical, Tasks, Procs, Callers,
       Clip, Unload, Free, TypePlaces, TypeTasks, TypeProcs
  <2>3. CASE SessionReady(c)
    <3>1. \A u \in Tasks : pc[u] = "ringSpawned" => pc'[u] = "ringSpawned"
      BY <2>3 DEF SessionReady, Calls, Quiet, TypePlaces
    <3>2. held' = held /\ tracked' = tracked /\ procs' = procs
      BY <2>3 DEF SessionReady
    <3>. QED BY <3>1, <3>2 DEF RingTracked, tracked, procs
  <2>4. CASE SessionRemote(c)
    BY <2>4 DEF SessionRemote, Calls, Quiet, RingTracked, Locked, Critical, Tasks, Procs,
       Callers, Clip, Unload, Free, TypePlaces, TypeTasks, TypeProcs
  <2>5. CASE TearDown(c)
    BY <2>5 DEF TearDown, Calls, Quiet, RingTracked, Locked, Critical, Tasks, Procs,
       Callers, Clip, Unload, Free, TypePlaces, TypeTasks, TypeProcs
  <2>. QED BY <1>2, <2>1, <2>2, <2>3, <2>4, <2>5 DEF Outside
<1>3. ASSUME NEW p \in Procs, Watches(p)
      PROVE  RingTracked'
  <2>1. CASE NotMine(p)
    BY <2>1 DEF NotMine, RingTracked, Locked, Critical, Tasks, Procs, Callers, Clip, Unload,
       Free, TypePlaces, TypeTasks, TypeProcs
  <2>2. CASE RecorderDied(p)
    BY <2>2 DEF RecorderDied, RingTracked, Locked, Critical, Tasks, Procs, Callers, Clip,
       Unload, Free, TypePlaces, TypeTasks, TypeProcs
  <2>3. CASE RingDied(p)
    BY <2>3 DEF RingDied, RingTracked, Locked, Critical, Tasks, Procs, Callers, Clip,
       Unload, Free, TypePlaces, TypeTasks, TypeProcs
  <2>4. CASE Wakes(p)
    BY <2>4 DEF Wakes, RingTracked, Locked, Critical, Tasks, Procs, Callers, Clip, Unload,
       Free, TypePlaces, TypeTasks, TypeProcs
  <2>. QED BY <1>3, <2>1, <2>2, <2>3, <2>4 DEF Watches
<1>4. ASSUME NEW c \in Callers, Saved(c)
      PROVE  RingTracked'
  BY <1>4 DEF Saved, RingTracked, Locked, Critical, Tasks, Procs, Callers, Clip, Unload,
     Free, TypePlaces, TypeTasks, TypeProcs
<1>5. ASSUME NEW c \in Callers, NEW m \in {"continuous", "event_buffered"}, SelectMode(c, m)
      PROVE  RingTracked'
  BY <1>5 DEF SelectMode, Calls, Quiet, RingTracked, Locked, Critical, Tasks, Procs,
     Callers, Clip, Unload, Free, TypePlaces, TypeTasks, TypeProcs
<1>6. ASSUME NEW p \in Procs, NEW reason \in {"signal", "auth", "crash", "disk"}, Exits(p, reason)
      PROVE  RingTracked'
  BY <1>6 DEF Exits, RingTracked, Locked, Critical, Tasks, Procs, Callers, Clip, Unload,
     Free, TypePlaces, TypeTasks, TypeProcs
<1>7. CASE NothingToFinalize
  BY <1>7 DEF NothingToFinalize, MayEnter, RingTracked, Locked, Critical, Tasks, Procs,
     Callers, Clip, Unload, Free, TypePlaces, TypeTasks, TypeProcs
<1>8. CASE Finalized
  BY <1>8 DEF Finalized, HeldIsGone, RingTracked, Locked, Critical, Tasks, Procs, Callers,
     Clip, Unload, Free, TypePlaces, TypeTasks, TypeProcs
<1>9. CASE ClipRestarts
  <2>1. CASE RingStep(ring) = "end"
    BY <1>9, RingSteps, StartSteps, EndsOutside, <2>1 DEF ClipRestarts, MayEnter, Goto,
       TakesLock, RingTracked, Locked, Critical, Tasks, Procs, Callers, Clip, Unload, Free,
       TypePlaces, TypeTasks, TypeProcs
  <2>2. CASE RingStep(ring) # "end"
    BY <1>9, RingSteps, StartSteps, EndsOutside, <2>2 DEF ClipRestarts, MayEnter, Goto,
       TakesLock, RingTracked, Locked, Critical, Tasks, Procs, Callers, Clip, Unload, Free,
       TypePlaces, TypeTasks, TypeProcs
  <2>. QED BY <2>1, <2>2
<1>10. CASE PostrollEnds
  BY <1>10 DEF PostrollEnds, RingTracked, Locked, Critical, Tasks, Procs, Callers, Clip,
     Unload, Free, TypePlaces, TypeTasks, TypeProcs
<1>11. CASE Concat
  BY <1>11 DEF Concat, RingTracked, Locked, Critical, Tasks, Procs, Callers, Clip, Unload,
     Free, TypePlaces, TypeTasks, TypeProcs
<1>12. CASE MotionEvent
  BY <1>12 DEF MotionEvent, RingTracked, Locked, Critical, Tasks, Procs, Callers, Clip,
     Unload, Free, TypePlaces, TypeTasks, TypeProcs
<1>13. CASE SweepGoesOn
  <2>1. CASE pc[Unload] = "begin"
    BY <1>13, <2>1 DEF SweepGoesOn, RingGone, HeldIsGone, MayEnter, Alive, RingTracked,
       Locked, Critical, Tasks, Procs, Callers, Clip, Unload, Free, TypePlaces, TypeTasks,
       TypeProcs
  <2>2. CASE pc[Unload] # "begin"
    BY <1>13, <2>2 DEF SweepGoesOn, RingGone, HeldIsGone, MayEnter, Alive, RingTracked,
       Locked, Critical, Tasks, Procs, Callers, Clip, Unload, Free, TypePlaces, TypeTasks,
       TypeProcs
  <2>. QED BY <2>1, <2>2
<1>14. CASE Unloads
  BY <1>14 DEF Unloads, RingTracked, Locked, Critical, Tasks, Procs, Callers, Clip, Unload,
     Free, TypePlaces, TypeTasks, TypeProcs
<1>15. CASE TasksCancelled
  BY <1>15 DEF TasksCancelled, AllSwept, UnloadSteps, RingTracked, Locked, Critical, Tasks,
     Procs, Callers, Clip, Unload, Free, TypePlaces, TypeTasks, TypeProcs
<1>16. CASE \/ (\E k \in {"rec", "ring"} : WindowPasses(k)) \/ SessionOpens
            \/ UNCHANGED vars
  <2>1. UNCHANGED <<held, kind, pc, ps, ring>>
    BY <1>16 DEF WindowPasses, SessionOpens, vars
  <2>. QED BY <2>1 DEF RingTracked
<1>. QED BY <1>1, <1>2, <1>3, <1>4, <1>5, <1>6, <1>7, <1>8, <1>9, <1>10, <1>11, <1>12,
   <1>13, <1>14, <1>15, <1>16 DEF Next, Assembles

\* After the sweep no ring runs and none is started.
LEMMA RingsSweptStep ==
  ASSUME TypeProcs, TypePlaces, TypeTasks, UnloadSteps, Locked, DictsFit, NoRing, RingTracked, RingsSwept, [Next]_vars
  PROVE  RingsSwept'
<1>. USE DEF tracked, procs, tasks, session, ghosts, rejected, counts, bounds
<1>1. ASSUME NEW t \in Tasks, Runs(t)
      PROVE  RingsSwept'
  <2>1. CASE StopsRing(t)
    BY <2>1 DEF StopsRing, MayEnter, Alive, Signal, Goto, TakesLock, RingsSwept, Tasks,
       Procs, Callers, Clip, Unload, Free, TypePlaces, TypeTasks, TypeProcs
  <2>2. CASE StopsRec(t)
    <3>1. CASE pc[t] = "begin"
      BY <2>2, RingSteps, StartSteps, EndsOutside, <3>1 DEF StopsRec, RingGone, HeldIsGone,
         MayEnter, Alive, Signal, Goto, TakesLock, KeepsLock, RingsSwept, Tasks, Procs,
         Callers, Clip, Unload, Free, TypePlaces, TypeTasks, TypeProcs
    <3>2. CASE pc[t] # "begin"
      BY <2>2, RingSteps, StartSteps, EndsOutside, <3>2 DEF StopsRec, RingGone, HeldIsGone,
         MayEnter, Alive, Signal, Goto, TakesLock, KeepsLock, RingsSwept, Tasks, Procs,
         Callers, Clip, Unload, Free, TypePlaces, TypeTasks, TypeProcs
    <3>. QED BY <3>1, <3>2
  <2>3. CASE RecGone(t)
    BY <2>3, RingSteps, StartSteps, EndsOutside DEF RecGone, HeldIsGone, Goto, KeepsLock,
       RingsSwept, Tasks, Procs, Callers, Clip, Unload, Free, TypePlaces, TypeTasks,
       TypeProcs
  <2>4. CASE UrlWaited(t)
    BY <2>4, RingSteps, StartSteps, EndsOutside DEF UrlWaited, Goto, KeepsLock, RingsSwept,
       Tasks, Procs, Callers, Clip, Unload, Free, TypePlaces, TypeTasks, TypeProcs
  <2>5. CASE Spawns(t)
    <3>1. CASE shutting \/ sess # "LOCAL"
      BY <2>5, RingSteps, StartSteps, EndsOutside, <3>1 DEF Spawns, Goto, KeepsLock,
         RingsSwept, Tasks, Procs, Callers, Clip, Unload, Free, TypePlaces, TypeTasks,
         TypeProcs
    <3>2. CASE ~(shutting \/ sess # "LOCAL")
      BY <2>5, RingSteps, StartSteps, EndsOutside, <3>2 DEF Spawns, Goto, KeepsLock,
         RingsSwept, Tasks, Procs, Callers, Clip, Unload, Free, TypePlaces, TypeTasks,
         TypeProcs
    <3>. QED BY <3>1, <3>2
  <2>6. CASE SpawnFails(t)
    BY <2>6, RingSteps, StartSteps, EndsOutside DEF SpawnFails, Goto, KeepsLock, RingsSwept,
       Tasks, Procs, Callers, Clip, Unload, Free, TypePlaces, TypeTasks, TypeProcs
  <2>7. CASE Registers(t)
    BY <2>7, RingSteps, StartSteps, EndsOutside DEF Registers, KeepsLock, RingsSwept, Tasks,
       Procs, Callers, Clip, Unload, Free, TypePlaces, TypeTasks, TypeProcs
  <2>8. CASE RespawnsRing(t)
    <3>1. CASE pc[t] = "begin"
      BY <2>8, RingSteps, StartSteps, EndsOutside, <3>1 DEF RespawnsRing, RingGone,
         HeldIsGone, MayEnter, Alive, Goto, RingsSwept, Tasks, Procs, Callers, Clip, Unload,
         Free, TypePlaces, TypeTasks, TypeProcs
    <3>2. CASE pc[t] # "begin"
      BY <2>8, RingSteps, StartSteps, EndsOutside, <3>2 DEF RespawnsRing, RingGone,
         HeldIsGone, MayEnter, Alive, Goto, RingsSwept, Tasks, Procs, Callers, Clip, Unload,
         Free, TypePlaces, TypeTasks, TypeProcs
    <3>. QED BY <3>1, <3>2
  <2>9. CASE RingSpawns(t)
    BY <2>9 DEF RingSpawns, Goto, RingsSwept, Tasks, Procs, Callers, Clip, Unload, Free,
       TypePlaces, TypeTasks, TypeProcs
  <2>10. CASE RingRegisters(t)
    BY <2>10 DEF RingRegisters, Goto, RingsSwept, Tasks, Procs, Callers, Clip, Unload, Free,
       TypePlaces, TypeTasks, TypeProcs
  <2>11. CASE RingWatched(t)
    BY <2>11, RingSteps, StartSteps, EndsOutside DEF RingWatched, KeepsLock, RingsSwept,
       Tasks, Procs, Callers, Clip, Unload, Free, TypePlaces, TypeTasks, TypeProcs
  <2>. QED BY <1>1, <2>1, <2>2, <2>3, <2>4, <2>5, <2>6, <2>7, <2>8, <2>9, <2>10, <2>11 DEF
     Runs
<1>2. ASSUME NEW c \in Callers, Outside(c)
      PROVE  RingsSwept'
  <2>1. CASE SwitchOn(c)
    BY <2>1 DEF SwitchOn, Calls, RingsSwept, Tasks, Procs, Callers, Clip, Unload, Free,
       TypePlaces, TypeTasks, TypeProcs
  <2>2. CASE SwitchOff(c)
    BY <2>2 DEF SwitchOff, Calls, RingsSwept, Tasks, Procs, Callers, Clip, Unload, Free,
       TypePlaces, TypeTasks, TypeProcs
  <2>3. CASE SessionReady(c)
    <3>1. CASE intent
      BY <2>3, <3>1 DEF SessionReady, Calls, Quiet, RingsSwept, Tasks, Procs, Callers, Clip,
         Unload, Free, TypePlaces, TypeTasks, TypeProcs
    <3>2. CASE ~intent
      BY <2>3, <3>2 DEF SessionReady, Calls, Quiet, RingsSwept, Tasks, Procs, Callers, Clip,
         Unload, Free, TypePlaces, TypeTasks, TypeProcs
    <3>. QED BY <3>1, <3>2
  <2>4. CASE SessionRemote(c)
    BY <2>4 DEF SessionRemote, Calls, Quiet, RingsSwept, Tasks, Procs, Callers, Clip,
       Unload, Free, TypePlaces, TypeTasks, TypeProcs
  <2>5. CASE TearDown(c)
    BY <2>5 DEF TearDown, Calls, Quiet, RingsSwept, Tasks, Procs, Callers, Clip, Unload,
       Free, TypePlaces, TypeTasks, TypeProcs
  <2>. QED BY <1>2, <2>1, <2>2, <2>3, <2>4, <2>5 DEF Outside
<1>3. ASSUME NEW p \in Procs, Watches(p)
      PROVE  RingsSwept'
  <2>1. CASE NotMine(p)
    BY <2>1 DEF NotMine, RingsSwept, Tasks, Procs, Callers, Clip, Unload, Free, TypePlaces,
       TypeTasks, TypeProcs
  <2>2. CASE RecorderDied(p)
    BY <2>2 DEF RecorderDied, RingsSwept, Tasks, Procs, Callers, Clip, Unload, Free,
       TypePlaces, TypeTasks, TypeProcs
  <2>3. CASE RingDied(p)
    BY <2>3 DEF RingDied, RingsSwept, Tasks, Procs, Callers, Clip, Unload, Free, TypePlaces,
       TypeTasks, TypeProcs
  <2>4. CASE Wakes(p)
    BY <2>4 DEF Wakes, RingsSwept, Tasks, Procs, Callers, Clip, Unload, Free, TypePlaces,
       TypeTasks, TypeProcs
  <2>. QED BY <1>3, <2>1, <2>2, <2>3, <2>4 DEF Watches
<1>4. ASSUME NEW c \in Callers, Saved(c)
      PROVE  RingsSwept'
  BY <1>4 DEF Saved, RingsSwept, Tasks, Procs, Callers, Clip, Unload, Free, TypePlaces,
     TypeTasks, TypeProcs
<1>5. ASSUME NEW c \in Callers, NEW m \in {"continuous", "event_buffered"}, SelectMode(c, m)
      PROVE  RingsSwept'
  BY <1>5 DEF SelectMode, Calls, Quiet, RingsSwept, Tasks, Procs, Callers, Clip, Unload,
     Free, TypePlaces, TypeTasks, TypeProcs
<1>6. ASSUME NEW p \in Procs, NEW reason \in {"signal", "auth", "crash", "disk"}, Exits(p, reason)
      PROVE  RingsSwept'
  BY <1>6 DEF Exits, RingsSwept, Tasks, Procs, Callers, Clip, Unload, Free, TypePlaces,
     TypeTasks, TypeProcs
<1>7. CASE NothingToFinalize
  BY <1>7 DEF NothingToFinalize, MayEnter, RingsSwept, Tasks, Procs, Callers, Clip, Unload,
     Free, TypePlaces, TypeTasks, TypeProcs
<1>8. CASE Finalized
  BY <1>8 DEF Finalized, HeldIsGone, RingsSwept, Tasks, Procs, Callers, Clip, Unload, Free,
     TypePlaces, TypeTasks, TypeProcs
<1>9. CASE ClipRestarts
  <2>1. CASE RingStep(ring) = "end"
    BY <1>9, RingSteps, StartSteps, EndsOutside, <2>1 DEF ClipRestarts, MayEnter, Goto,
       TakesLock, RingsSwept, Tasks, Procs, Callers, Clip, Unload, Free, TypePlaces,
       TypeTasks, TypeProcs
  <2>2. CASE RingStep(ring) # "end"
    BY <1>9, RingSteps, StartSteps, EndsOutside, <2>2 DEF ClipRestarts, MayEnter, Goto,
       TakesLock, RingsSwept, Tasks, Procs, Callers, Clip, Unload, Free, TypePlaces,
       TypeTasks, TypeProcs
  <2>. QED BY <2>1, <2>2
<1>10. CASE PostrollEnds
  BY <1>10 DEF PostrollEnds, RingsSwept, Tasks, Procs, Callers, Clip, Unload, Free,
     TypePlaces, TypeTasks, TypeProcs
<1>11. CASE Concat
  BY <1>11 DEF Concat, RingsSwept, Tasks, Procs, Callers, Clip, Unload, Free, TypePlaces,
     TypeTasks, TypeProcs
<1>12. CASE MotionEvent
  BY <1>12 DEF MotionEvent, RingsSwept, Tasks, Procs, Callers, Clip, Unload, Free,
     TypePlaces, TypeTasks, TypeProcs
<1>13. CASE SweepGoesOn
  <2>1. \A u \in Tasks : u # Unload => ~Critical(u)
    BY <1>13 DEF SweepGoesOn, RingGone, MayEnter, Locked, Critical, Tasks, Procs, Callers, Clip,
       Unload, Free
  <2>2. ~Alive(ring)
    BY <1>13 DEF SweepGoesOn, RingGone, MayEnter, NoRing, Critical, Tasks
  <2>3. \A u \in Tasks : pc[u] \notin {"ringDirs", "ringSpawned"}
    BY <1>13, <2>1 DEF SweepGoesOn, UnloadSteps, Critical
  <2>4. \A p \in Procs : ps[p] = "alive" => kind[p] = "rec"
    BY <2>2, <2>3, NvrAssumption DEF RingTracked, Alive, TypeProcs, Kinds, Procs
  <2>5. shutting' /\ ps' = ps /\ kind' = kind
    BY <1>13 DEF SweepGoesOn, UnloadSteps, procs
  <2>6. pc' = [pc EXCEPT ![Unload] = "begin"]
    BY <1>13 DEF SweepGoesOn
  <2>. QED BY <2>3, <2>4, <2>5, <2>6 DEF RingsSwept, TypePlaces
<1>14. CASE Unloads
  BY <1>14 DEF Unloads, RingsSwept, Tasks, Procs, Callers, Clip, Unload, Free, TypePlaces,
     TypeTasks, TypeProcs
<1>15. CASE TasksCancelled
  BY <1>15 DEF TasksCancelled, RingsSwept, Tasks, Procs, Callers, Clip, Unload, Free,
     TypePlaces, TypeTasks, TypeProcs
<1>16. CASE \/ (\E k \in {"rec", "ring"} : WindowPasses(k)) \/ SessionOpens
            \/ UNCHANGED vars
  <2>1. UNCHANGED <<kind, pc, prog, ps, shutting>>
    BY <1>16 DEF WindowPasses, SessionOpens, vars
  <2>. QED BY <2>1 DEF RingsSwept
<1>. QED BY <1>1, <1>2, <1>3, <1>4, <1>5, <1>6, <1>7, <1>8, <1>9, <1>10, <1>11, <1>12,
   <1>13, <1>14, <1>15, <1>16 DEF Next, Assembles

\* After the recorder is signalled nothing runs.
LEMMA AllSweptStep ==
  ASSUME TypeProcs, TypePlaces, TypeTasks, UnloadSteps, Locked, DictsFit, HandsFit, RecorderTracked, RingsSwept, AllSwept, [Next]_vars
  PROVE  AllSwept'
<1>. USE DEF tracked, procs, tasks, session, ghosts, rejected, counts, bounds
<1>1. ASSUME NEW t \in Tasks, Runs(t)
      PROVE  AllSwept'
  <2>1. CASE StopsRing(t)
    BY <2>1 DEF StopsRing, MayEnter, Alive, Signal, Goto, TakesLock, RingsSwept, DictsFit,
       UnloadSteps, AllSwept, Tasks, Procs, Callers, Clip, Unload, Free, TypePlaces,
       TypeTasks, TypeProcs
  <2>2. CASE StopsRec(t)
    <3>1. CASE pc[t] = "begin"
      BY <2>2, RingSteps, StartSteps, EndsOutside, <3>1 DEF StopsRec, RingGone, HeldIsGone,
         MayEnter, Alive, Signal, Goto, TakesLock, KeepsLock, Locked, Critical,
         RecorderTracked, RingsSwept, UnloadSteps, AllSwept, Tasks, Procs, Callers, Clip,
         Unload, Free, TypePlaces, TypeTasks, TypeProcs
    <3>2. CASE pc[t] # "begin"
      BY <2>2, RingSteps, StartSteps, EndsOutside, <3>2 DEF StopsRec, RingGone, HeldIsGone,
         MayEnter, Alive, Signal, Goto, TakesLock, KeepsLock, Locked, Critical,
         RecorderTracked, RingsSwept, UnloadSteps, AllSwept, Tasks, Procs, Callers, Clip,
         Unload, Free, TypePlaces, TypeTasks, TypeProcs
    <3>. QED BY <3>1, <3>2
  <2>3. CASE RecGone(t)
    BY <2>3, RingSteps, StartSteps, EndsOutside DEF RecGone, HeldIsGone, Goto, KeepsLock,
       AllSwept, Tasks, Procs, Callers, Clip, Unload, Free, TypePlaces, TypeTasks, TypeProcs
  <2>4. CASE UrlWaited(t)
    BY <2>4, RingSteps, StartSteps, EndsOutside DEF UrlWaited, Goto, KeepsLock, AllSwept,
       Tasks, Procs, Callers, Clip, Unload, Free, TypePlaces, TypeTasks, TypeProcs
  <2>5. CASE Spawns(t)
    <3>1. CASE shutting \/ sess # "LOCAL"
      BY <2>5, RingSteps, StartSteps, EndsOutside, <3>1 DEF Spawns, Goto, KeepsLock,
         RingsSwept, AllSwept, Tasks, Procs, Callers, Clip, Unload, Free, TypePlaces,
         TypeTasks, TypeProcs
    <3>2. CASE ~(shutting \/ sess # "LOCAL")
      BY <2>5, RingSteps, StartSteps, EndsOutside, <3>2 DEF Spawns, Goto, KeepsLock,
         RingsSwept, AllSwept, Tasks, Procs, Callers, Clip, Unload, Free, TypePlaces,
         TypeTasks, TypeProcs
    <3>. QED BY <3>1, <3>2
  <2>6. CASE SpawnFails(t)
    BY <2>6, RingSteps, StartSteps, EndsOutside DEF SpawnFails, Goto, KeepsLock, AllSwept,
       Tasks, Procs, Callers, Clip, Unload, Free, TypePlaces, TypeTasks, TypeProcs
  <2>7. CASE Registers(t)
    <3>0. held[t] # Unload
      BY DEF TypeTasks, Unload
    <3>a. CASE t = Unload
      BY <2>7, <3>a DEF Registers, UnloadSteps
    <3>b. CASE t # Unload
      <4>1. pc'[Unload] = pc[Unload] /\ prog' = prog
        BY <2>7, HandsOver, <3>0, <3>b DEF Tasks
      <4>2. ps' = ps
        BY <2>7 DEF Registers, procs
      <4>. QED BY <4>1, <4>2 DEF AllSwept
    <3>. QED BY <3>a, <3>b
  <2>8. CASE RespawnsRing(t)
    <3>1. CASE pc[t] = "begin"
      BY <2>8, RingSteps, StartSteps, EndsOutside, <3>1 DEF RespawnsRing, RingGone,
         HeldIsGone, MayEnter, Alive, Goto, AllSwept, Tasks, Procs, Callers, Clip, Unload,
         Free, TypePlaces, TypeTasks, TypeProcs
    <3>2. CASE pc[t] # "begin"
      BY <2>8, RingSteps, StartSteps, EndsOutside, <3>2 DEF RespawnsRing, RingGone,
         HeldIsGone, MayEnter, Alive, Goto, AllSwept, Tasks, Procs, Callers, Clip, Unload,
         Free, TypePlaces, TypeTasks, TypeProcs
    <3>. QED BY <3>1, <3>2
  <2>9. CASE RingSpawns(t)
    BY <2>9 DEF RingSpawns, Goto, RingsSwept, AllSwept, Tasks, Procs, Callers, Clip, Unload,
       Free, TypePlaces, TypeTasks, TypeProcs
  <2>10. CASE RingRegisters(t)
    BY <2>10 DEF RingRegisters, Goto, AllSwept, Tasks, Procs, Callers, Clip, Unload, Free,
       TypePlaces, TypeTasks, TypeProcs
  <2>11. CASE RingWatched(t)
    <3>0. held[t] # Unload
      BY DEF TypeTasks, Unload
    <3>a. CASE t = Unload
      BY <2>11, <3>a DEF RingWatched, UnloadSteps
    <3>b. CASE t # Unload
      <4>1. pc'[Unload] = pc[Unload] /\ prog' = prog
        BY <2>11, HandsOver, <3>0, <3>b DEF Tasks
      <4>2. ps' = ps
        BY <2>11 DEF RingWatched, procs
      <4>. QED BY <4>1, <4>2 DEF AllSwept
    <3>. QED BY <3>a, <3>b
  <2>. QED BY <1>1, <2>1, <2>2, <2>3, <2>4, <2>5, <2>6, <2>7, <2>8, <2>9, <2>10, <2>11 DEF
     Runs
<1>2. ASSUME NEW c \in Callers, Outside(c)
      PROVE  AllSwept'
  <2>1. CASE SwitchOn(c)
    BY <2>1 DEF SwitchOn, Calls, AllSwept, Tasks, Procs, Callers, Clip, Unload, Free,
       TypePlaces, TypeTasks, TypeProcs
  <2>2. CASE SwitchOff(c)
    BY <2>2 DEF SwitchOff, Calls, AllSwept, Tasks, Procs, Callers, Clip, Unload, Free,
       TypePlaces, TypeTasks, TypeProcs
  <2>3. CASE SessionReady(c)
    <3>1. CASE intent
      BY <2>3, <3>1 DEF SessionReady, Calls, Quiet, AllSwept, Tasks, Procs, Callers, Clip,
         Unload, Free, TypePlaces, TypeTasks, TypeProcs
    <3>2. CASE ~intent
      BY <2>3, <3>2 DEF SessionReady, Calls, Quiet, AllSwept, Tasks, Procs, Callers, Clip,
         Unload, Free, TypePlaces, TypeTasks, TypeProcs
    <3>. QED BY <3>1, <3>2
  <2>4. CASE SessionRemote(c)
    BY <2>4 DEF SessionRemote, Calls, Quiet, AllSwept, Tasks, Procs, Callers, Clip, Unload,
       Free, TypePlaces, TypeTasks, TypeProcs
  <2>5. CASE TearDown(c)
    BY <2>5 DEF TearDown, Calls, Quiet, AllSwept, Tasks, Procs, Callers, Clip, Unload, Free,
       TypePlaces, TypeTasks, TypeProcs
  <2>. QED BY <1>2, <2>1, <2>2, <2>3, <2>4, <2>5 DEF Outside
<1>3. ASSUME NEW p \in Procs, Watches(p)
      PROVE  AllSwept'
  <2>1. CASE NotMine(p)
    BY <2>1 DEF NotMine, AllSwept, Tasks, Procs, Callers, Clip, Unload, Free, TypePlaces,
       TypeTasks, TypeProcs
  <2>2. CASE RecorderDied(p)
    BY <2>2 DEF RecorderDied, AllSwept, Tasks, Procs, Callers, Clip, Unload, Free,
       TypePlaces, TypeTasks, TypeProcs
  <2>3. CASE RingDied(p)
    BY <2>3 DEF RingDied, AllSwept, Tasks, Procs, Callers, Clip, Unload, Free, TypePlaces,
       TypeTasks, TypeProcs
  <2>4. CASE Wakes(p)
    BY <2>4 DEF Wakes, AllSwept, Tasks, Procs, Callers, Clip, Unload, Free, TypePlaces,
       TypeTasks, TypeProcs
  <2>. QED BY <1>3, <2>1, <2>2, <2>3, <2>4 DEF Watches
<1>4. ASSUME NEW c \in Callers, Saved(c)
      PROVE  AllSwept'
  BY <1>4 DEF Saved, AllSwept, Tasks, Procs, Callers, Clip, Unload, Free, TypePlaces,
     TypeTasks, TypeProcs
<1>5. ASSUME NEW c \in Callers, NEW m \in {"continuous", "event_buffered"}, SelectMode(c, m)
      PROVE  AllSwept'
  BY <1>5 DEF SelectMode, Calls, Quiet, AllSwept, Tasks, Procs, Callers, Clip, Unload, Free,
     TypePlaces, TypeTasks, TypeProcs
<1>6. ASSUME NEW p \in Procs, NEW reason \in {"signal", "auth", "crash", "disk"}, Exits(p, reason)
      PROVE  AllSwept'
  BY <1>6 DEF Exits, AllSwept, Tasks, Procs, Callers, Clip, Unload, Free, TypePlaces,
     TypeTasks, TypeProcs
<1>7. CASE NothingToFinalize
  BY <1>7 DEF NothingToFinalize, MayEnter, AllSwept, Tasks, Procs, Callers, Clip, Unload,
     Free, TypePlaces, TypeTasks, TypeProcs
<1>8. CASE Finalized
  BY <1>8 DEF Finalized, HeldIsGone, AllSwept, Tasks, Procs, Callers, Clip, Unload, Free,
     TypePlaces, TypeTasks, TypeProcs
<1>9. CASE ClipRestarts
  <2>1. CASE RingStep(ring) = "end"
    BY <1>9, RingSteps, StartSteps, EndsOutside, <2>1 DEF ClipRestarts, MayEnter, Goto,
       TakesLock, AllSwept, Tasks, Procs, Callers, Clip, Unload, Free, TypePlaces,
       TypeTasks, TypeProcs
  <2>2. CASE RingStep(ring) # "end"
    BY <1>9, RingSteps, StartSteps, EndsOutside, <2>2 DEF ClipRestarts, MayEnter, Goto,
       TakesLock, AllSwept, Tasks, Procs, Callers, Clip, Unload, Free, TypePlaces,
       TypeTasks, TypeProcs
  <2>. QED BY <2>1, <2>2
<1>10. CASE PostrollEnds
  BY <1>10 DEF PostrollEnds, AllSwept, Tasks, Procs, Callers, Clip, Unload, Free,
     TypePlaces, TypeTasks, TypeProcs
<1>11. CASE Concat
  BY <1>11 DEF Concat, AllSwept, Tasks, Procs, Callers, Clip, Unload, Free, TypePlaces,
     TypeTasks, TypeProcs
<1>12. CASE MotionEvent
  BY <1>12 DEF MotionEvent, AllSwept, Tasks, Procs, Callers, Clip, Unload, Free, TypePlaces,
     TypeTasks, TypeProcs
<1>13. CASE SweepGoesOn
  <2>1. CASE pc[Unload] = "begin"
    BY <1>13, <2>1 DEF SweepGoesOn, RingGone, HeldIsGone, MayEnter, Alive, UnloadSteps,
       AllSwept, Tasks, Procs, Callers, Clip, Unload, Free, TypePlaces, TypeTasks, TypeProcs
  <2>2. CASE pc[Unload] # "begin"
    BY <1>13, <2>2 DEF SweepGoesOn, RingGone, HeldIsGone, MayEnter, Alive, UnloadSteps,
       AllSwept, Tasks, Procs, Callers, Clip, Unload, Free, TypePlaces, TypeTasks, TypeProcs
  <2>. QED BY <2>1, <2>2
<1>14. CASE Unloads
  BY <1>14 DEF Unloads, AllSwept, Tasks, Procs, Callers, Clip, Unload, Free, TypePlaces,
     TypeTasks, TypeProcs
<1>15. CASE TasksCancelled
  BY <1>15 DEF TasksCancelled, AllSwept, Tasks, Procs, Callers, Clip, Unload, Free,
     TypePlaces, TypeTasks, TypeProcs
<1>16. CASE \/ (\E k \in {"rec", "ring"} : WindowPasses(k)) \/ SessionOpens
            \/ UNCHANGED vars
  <2>1. UNCHANGED <<pc, prog, ps>>
    BY <1>16 DEF WindowPasses, SessionOpens, vars
  <2>. QED BY <2>1 DEF AllSwept
<1>. QED BY <1>1, <1>2, <1>3, <1>4, <1>5, <1>6, <1>7, <1>8, <1>9, <1>10, <1>11, <1>12,
   <1>13, <1>14, <1>15, <1>16 DEF Next, Assembles

-----------------------------------------------------------------------------
\* ------------------------------------------------------ the ring a clip took

\* A clip that took the ring stays on its way to the restart, which finds everything as it was.
LEMMA ClipOwesStep ==
  ASSUME TypePlaces, TypeTasks, OwnPrograms, UnloadSteps, ClipOwes, [Next]_vars
  PROVE  ClipOwes'
<1>. USE DEF tracked, procs, tasks, session, ghosts, rejected, counts, bounds
<1>1. ASSUME NEW t \in Tasks, Runs(t)
      PROVE  ClipOwes'
  <2>1. CASE StopsRing(t)
    BY <2>1 DEF StopsRing, MayEnter, Alive, Signal, Goto, TakesLock, OwnPrograms,
       UnloadSteps, ClipOwes, RingWanted, TypePlaces, TypeTasks, Tasks, Procs, Callers,
       Clip, Unload, Free
  <2>2. CASE StopsRec(t)
    <3>1. CASE pc[t] = "begin"
      BY <2>2, RingSteps, StartSteps, EndsOutside, <3>1 DEF StopsRec, RingGone, HeldIsGone,
         MayEnter, Alive, Signal, Goto, TakesLock, KeepsLock, ClipOwes, RingWanted,
         TypePlaces, TypeTasks, Tasks, Procs, Callers, Clip, Unload, Free
    <3>2. CASE pc[t] # "begin"
      BY <2>2, RingSteps, StartSteps, EndsOutside, <3>2 DEF StopsRec, RingGone, HeldIsGone,
         MayEnter, Alive, Signal, Goto, TakesLock, KeepsLock, ClipOwes, RingWanted,
         TypePlaces, TypeTasks, Tasks, Procs, Callers, Clip, Unload, Free
    <3>. QED BY <3>1, <3>2
  <2>3. CASE RecGone(t)
    BY <2>3, RingSteps, StartSteps, EndsOutside DEF RecGone, HeldIsGone, Goto, KeepsLock,
       ClipOwes, RingWanted, TypePlaces, TypeTasks, Tasks, Procs, Callers, Clip, Unload,
       Free
  <2>4. CASE UrlWaited(t)
    BY <2>4, RingSteps, StartSteps, EndsOutside DEF UrlWaited, Goto, KeepsLock, ClipOwes,
       RingWanted, TypePlaces, TypeTasks, Tasks, Procs, Callers, Clip, Unload, Free
  <2>5. CASE Spawns(t)
    <3>1. CASE shutting \/ sess # "LOCAL"
      BY <2>5, RingSteps, StartSteps, EndsOutside, <3>1 DEF Spawns, Goto, KeepsLock,
         ClipOwes, RingWanted, TypePlaces, TypeTasks, Tasks, Procs, Callers, Clip, Unload,
         Free
    <3>2. CASE ~(shutting \/ sess # "LOCAL")
      BY <2>5, RingSteps, StartSteps, EndsOutside, <3>2 DEF Spawns, Goto, KeepsLock,
         ClipOwes, RingWanted, TypePlaces, TypeTasks, Tasks, Procs, Callers, Clip, Unload,
         Free
    <3>. QED BY <3>1, <3>2
  <2>6. CASE SpawnFails(t)
    BY <2>6, RingSteps, StartSteps, EndsOutside DEF SpawnFails, Goto, KeepsLock, ClipOwes,
       RingWanted, TypePlaces, TypeTasks, Tasks, Procs, Callers, Clip, Unload, Free
  <2>7. CASE Registers(t)
    BY <2>7, RingSteps, StartSteps, EndsOutside DEF Registers, KeepsLock, ClipOwes,
       RingWanted, TypePlaces, TypeTasks, Tasks, Procs, Callers, Clip, Unload, Free
  <2>8. CASE RespawnsRing(t)
    <3>1. CASE pc[t] = "begin"
      BY <2>8, RingSteps, StartSteps, EndsOutside, <3>1 DEF RespawnsRing, RingGone,
         HeldIsGone, MayEnter, Alive, Goto, ClipOwes, RingWanted, TypePlaces, TypeTasks,
         Tasks, Procs, Callers, Clip, Unload, Free
    <3>2. CASE pc[t] # "begin"
      BY <2>8, RingSteps, StartSteps, EndsOutside, <3>2 DEF RespawnsRing, RingGone,
         HeldIsGone, MayEnter, Alive, Goto, ClipOwes, RingWanted, TypePlaces, TypeTasks,
         Tasks, Procs, Callers, Clip, Unload, Free
    <3>. QED BY <3>1, <3>2
  <2>9. CASE RingSpawns(t)
    BY <2>9 DEF RingSpawns, Goto, ClipOwes, RingWanted, TypePlaces, TypeTasks, Tasks, Procs,
       Callers, Clip, Unload, Free
  <2>10. CASE RingRegisters(t)
    BY <2>10 DEF RingRegisters, Goto, ClipOwes, RingWanted, TypePlaces, TypeTasks, Tasks,
       Procs, Callers, Clip, Unload, Free
  <2>11. CASE RingWatched(t)
    BY <2>11, RingSteps, StartSteps, EndsOutside DEF RingWatched, KeepsLock, ClipOwes,
       RingWanted, TypePlaces, TypeTasks, Tasks, Procs, Callers, Clip, Unload, Free
  <2>. QED BY <1>1, <2>1, <2>2, <2>3, <2>4, <2>5, <2>6, <2>7, <2>8, <2>9, <2>10, <2>11 DEF
     Runs
<1>2. ASSUME NEW c \in Callers, Outside(c)
      PROVE  ClipOwes'
  <2>1. CASE SwitchOn(c)
    BY <2>1 DEF SwitchOn, Calls, ClipOwes, RingWanted, TypePlaces, TypeTasks, Tasks, Procs,
       Callers, Clip, Unload, Free
  <2>2. CASE SwitchOff(c)
    BY <2>2 DEF SwitchOff, Calls, ClipOwes, RingWanted, TypePlaces, TypeTasks, Tasks, Procs,
       Callers, Clip, Unload, Free
  <2>3. CASE SessionReady(c)
    <3>1. CASE intent
      BY <2>3, <3>1 DEF SessionReady, Calls, Quiet, ClipOwes, RingWanted, TypePlaces,
         TypeTasks, Tasks, Procs, Callers, Clip, Unload, Free
    <3>2. CASE ~intent
      BY <2>3, <3>2 DEF SessionReady, Calls, Quiet, ClipOwes, RingWanted, TypePlaces,
         TypeTasks, Tasks, Procs, Callers, Clip, Unload, Free
    <3>. QED BY <3>1, <3>2
  <2>4. CASE SessionRemote(c)
    BY <2>4 DEF SessionRemote, Calls, Quiet, ClipOwes, RingWanted, TypePlaces, TypeTasks,
       Tasks, Procs, Callers, Clip, Unload, Free
  <2>5. CASE TearDown(c)
    BY <2>5 DEF TearDown, Calls, Quiet, ClipOwes, RingWanted, TypePlaces, TypeTasks, Tasks,
       Procs, Callers, Clip, Unload, Free
  <2>. QED BY <1>2, <2>1, <2>2, <2>3, <2>4, <2>5 DEF Outside
<1>3. ASSUME NEW p \in Procs, Watches(p)
      PROVE  ClipOwes'
  <2>1. CASE NotMine(p)
    BY <2>1 DEF NotMine, ClipOwes, RingWanted, TypePlaces, TypeTasks, Tasks, Procs, Callers,
       Clip, Unload, Free
  <2>2. CASE RecorderDied(p)
    BY <2>2 DEF RecorderDied, ClipOwes, RingWanted, TypePlaces, TypeTasks, Tasks, Procs,
       Callers, Clip, Unload, Free
  <2>3. CASE RingDied(p)
    BY <2>3 DEF RingDied, ClipOwes, RingWanted, TypePlaces, TypeTasks, Tasks, Procs,
       Callers, Clip, Unload, Free
  <2>4. CASE Wakes(p)
    BY <2>4 DEF Wakes, ClipOwes, RingWanted, TypePlaces, TypeTasks, Tasks, Procs, Callers,
       Clip, Unload, Free
  <2>. QED BY <1>3, <2>1, <2>2, <2>3, <2>4 DEF Watches
<1>4. ASSUME NEW c \in Callers, Saved(c)
      PROVE  ClipOwes'
  BY <1>4 DEF Saved, ClipOwes, RingWanted, TypePlaces, TypeTasks, Tasks, Procs, Callers,
     Clip, Unload, Free
<1>5. ASSUME NEW c \in Callers, NEW m \in {"continuous", "event_buffered"}, SelectMode(c, m)
      PROVE  ClipOwes'
  BY <1>5 DEF SelectMode, Calls, Quiet, ClipOwes, RingWanted, TypePlaces, TypeTasks, Tasks,
     Procs, Callers, Clip, Unload, Free
<1>6. CASE NothingToFinalize
  BY <1>6 DEF NothingToFinalize, MayEnter, ClipOwes, RingWanted, TypePlaces, TypeTasks,
     Tasks, Procs, Callers, Clip, Unload, Free
<1>7. CASE Finalized
  BY <1>7 DEF Finalized, HeldIsGone, ClipOwes, RingWanted, TypePlaces, TypeTasks, Tasks,
     Procs, Callers, Clip, Unload, Free
<1>8. CASE ClipRestarts
  <2>. SUFFICES ASSUME owed
                PROVE  ClipOwes'
    BY <1>8 DEF ClipRestarts, ClipOwes, ghosts
  <2>1. RingWanted /\ ring = 0 /\ prog[Clip] \in {"clipPost", "clipEnd"} /\ RingStep(ring) = "ringDirs"
    BY <1>8 DEF ClipRestarts, ClipOwes, RingStep, Alive
  <2>2. pc'[Clip] = "ringDirs" /\ prog' = prog /\ ring' = ring
    BY <1>8, <2>1 DEF ClipRestarts, Goto, TypePlaces, Tasks, tracked
  <2>3. UNCHANGED <<owed, mode, shutting, sess, url>>
    BY <1>8 DEF ClipRestarts, ghosts, session
  <2>. QED BY <2>1, <2>2, <2>3 DEF ClipOwes, RingWanted
<1>9. CASE PostrollEnds
  BY <1>9 DEF PostrollEnds, ClipOwes, RingWanted, TypePlaces, TypeTasks, Tasks, Procs,
     Callers, Clip, Unload, Free
<1>10. CASE Concat
  BY <1>10 DEF Concat, ClipOwes, RingWanted, TypePlaces, TypeTasks, Tasks, Procs, Callers,
     Clip, Unload, Free
<1>11. CASE MotionEvent
  BY <1>11 DEF MotionEvent, ClipOwes, RingWanted, TypePlaces, TypeTasks, Tasks, Procs,
     Callers, Clip, Unload, Free
<1>12. CASE SessionOpens
  BY <1>12 DEF SessionOpens, ClipOwes, RingWanted, TypePlaces, TypeTasks, Tasks, Procs,
     Callers, Clip, Unload, Free
<1>13. CASE SweepGoesOn
  <2>1. CASE pc[Unload] = "begin"
    BY <1>13, <2>1 DEF SweepGoesOn, RingGone, HeldIsGone, MayEnter, Alive, ClipOwes,
       RingWanted, TypePlaces, TypeTasks, Tasks, Procs, Callers, Clip, Unload, Free
  <2>2. CASE pc[Unload] # "begin"
    BY <1>13, <2>2 DEF SweepGoesOn, RingGone, HeldIsGone, MayEnter, Alive, ClipOwes,
       RingWanted, TypePlaces, TypeTasks, Tasks, Procs, Callers, Clip, Unload, Free
  <2>. QED BY <2>1, <2>2
<1>14. CASE Unloads
  BY <1>14 DEF Unloads, ClipOwes, RingWanted, TypePlaces, TypeTasks, Tasks, Procs, Callers,
     Clip, Unload, Free
<1>15. CASE TasksCancelled
  BY <1>15 DEF TasksCancelled, UnloadSteps, ClipOwes, RingWanted, TypePlaces, TypeTasks,
     Tasks, Procs, Callers, Clip, Unload, Free
<1>16. CASE \/ (\E p \in Procs, reason \in {"signal", "auth", "crash", "disk"} : Exits(p, reason))
            \/ (\E k \in {"rec", "ring"} : WindowPasses(k)) \/ UNCHANGED vars
  <2>1. UNCHANGED <<mode, owed, pc, prog, ring, sess, shutting, url>>
    BY <1>16 DEF Exits, WindowPasses, vars
  <2>. QED BY <2>1 DEF ClipOwes, RingWanted
<1>. QED BY <1>1, <1>2, <1>3, <1>4, <1>5, <1>6, <1>7, <1>8, <1>9, <1>10, <1>11, <1>12,
   <1>13, <1>14, <1>15, <1>16 DEF Next, Assembles

-----------------------------------------------------------------------------
\* ------------------------------------------------------ rejected credentials

\* A step that schedules no retry and registers no recorder.
NoMoreChances ==
    /\ Retrying' \subseteq Retrying
    /\ rec' = 0 \/ rec' = rec
    /\ UNCHANGED <<authRetries, refusals, older>>

\* The chances of one state are a number.
LEMMA ChancesCounted ==
  /\ Cardinality(Retrying) \in Nat /\ Recorders \in {0, 1} /\ Chances \in Nat
  /\ Chances = Cardinality(Retrying) + Recorders
BY RetryingCounted DEF Chances, Recorders

\* Fewer retries are no more in number.
LEMMA FewerRetries ==
  ASSUME NEW S \in SUBSET Procs, NEW T \in SUBSET S
  PROVE  /\ Cardinality(S) \in Nat /\ Cardinality(T) \in Nat
         /\ Cardinality(T) <= Cardinality(S)
         /\ \A p \in S \ T : Cardinality(T) + 1 <= Cardinality(S)
<1>1. IsFiniteSet(Procs)
  BY FS_Interval, NvrAssumption DEF Procs
<1>2. IsFiniteSet(S) /\ IsFiniteSet(T)
  BY <1>1, FS_Subset
<1>3. Cardinality(S) \in Nat /\ Cardinality(T) \in Nat
  BY <1>2, FS_CardinalityType
<1>4. Cardinality(T) <= Cardinality(S)
  BY <1>2, FS_Subset
<1>5. ASSUME NEW p \in S \ T
      PROVE  Cardinality(T) + 1 <= Cardinality(S)
  <2>1. IsFiniteSet(S \ {p}) /\ Cardinality(S \ {p}) = Cardinality(S) - 1
    BY <1>2, FS_RemoveElement
  <2>2. T \subseteq S \ {p}
    OBVIOUS
  <2>3. Cardinality(T) <= Cardinality(S \ {p})
    BY <2>1, <2>2, FS_Subset
  <2>. QED BY <1>3, <2>1, <2>3
<1>. QED BY <1>3, <1>4, <1>5

\* With no more chances than before the account stays covered.
LEMMA CoveredStill ==
  ASSUME TypeCounts, RetriesUsedUp, Chances' \in Nat, Chances' <= Chances,
         refusals' = refusals, authRetries' = authRetries, older' = older
  PROVE  RetriesUsedUp'
<1>1. Chances \in Nat /\ refusals \in Nat /\ older \in Nat /\ MaxAuth \in Nat
  BY ChancesCounted, NvrAssumption DEF TypeCounts
<1>2. PICK c \in Nat, d \in Nat : c = Chances /\ d = Chances'
  BY <1>1
<1>3. d <= c /\ c <= older + 1 /\ (refusals > MaxAuth => refusals + c <= MaxAuth + older + 1)
  BY <1>2 DEF RetriesUsedUp
<1>4. d <= older + 1 /\ (refusals > MaxAuth => refusals + d <= MaxAuth + older + 1)
  BY <1>1, <1>3
<1>5. refusals = authRetries
  BY DEF RetriesUsedUp
<1>. QED BY <1>2, <1>4, <1>5 DEF RetriesUsedUp

\* That is so unless a recorder is registered or dies.
LEMMA AccountKept ==
  ASSUME TypeCounts, RetriesUsedUp, NoMoreChances
  PROVE  RetriesUsedUp'
<1>1. Retrying \in SUBSET Procs /\ Retrying' \in SUBSET Retrying
  BY DEF NoMoreChances, Retrying
<1>2. Cardinality(Retrying)' <= Cardinality(Retrying) /\ Cardinality(Retrying)' \in Nat
  BY <1>1, FewerRetries
<1>3. Recorders' <= Recorders /\ Recorders' \in {0, 1}
  BY DEF Recorders, NoMoreChances
<1>4. Chances' <= Chances /\ Chances' \in Nat
  BY <1>2, <1>3, ChancesCounted DEF Chances
<1>. QED BY <1>4, CoveredStill DEF NoMoreChances

\* Only a registration and the death of a recorder change the account.
LEMMA OnlyTheRecorderCosts ==
  ASSUME TypePlaces, TypeTasks, OwnPrograms, UnloadSteps, [Next]_vars
  PROVE  NoMoreChances \/ (\E u \in Tasks : Registers(u)) \/ (\E q \in Procs : RecorderDied(q))
<1>. USE DEF tracked, procs, tasks, session, ghosts, rejected, counts, bounds
<1>1. ASSUME NEW t \in Tasks, Runs(t)
      PROVE  NoMoreChances \/ (\E u \in Tasks : Registers(u)) \/ (\E q \in Procs : RecorderDied(q))
  <2>1. CASE StopsRing(t)
    BY <2>1 DEF StopsRing, MayEnter, Alive, Signal, Goto, TakesLock, NoMoreChances,
       Retrying, TypePlaces, TypeTasks, Tasks, Procs, Callers, Clip, Unload, Free
  <2>2. CASE StopsRec(t)
    <3>1. CASE pc[t] = "begin"
      BY <2>2, RingSteps, StartSteps, EndsOutside, <3>1 DEF StopsRec, RingGone, HeldIsGone,
         MayEnter, Alive, Signal, Goto, TakesLock, KeepsLock, NoMoreChances, Retrying,
         TypePlaces, TypeTasks, Tasks, Procs, Callers, Clip, Unload, Free
    <3>2. CASE pc[t] # "begin"
      BY <2>2, RingSteps, StartSteps, EndsOutside, <3>2 DEF StopsRec, RingGone, HeldIsGone,
         MayEnter, Alive, Signal, Goto, TakesLock, KeepsLock, NoMoreChances, Retrying,
         TypePlaces, TypeTasks, Tasks, Procs, Callers, Clip, Unload, Free
    <3>. QED BY <3>1, <3>2
  <2>3. CASE RecGone(t)
    BY <2>3, RingSteps, StartSteps, EndsOutside DEF RecGone, HeldIsGone, Goto, KeepsLock,
       NoMoreChances, Retrying, TypePlaces, TypeTasks, Tasks, Procs, Callers, Clip, Unload,
       Free
  <2>4. CASE UrlWaited(t)
    BY <2>4, RingSteps, StartSteps, EndsOutside DEF UrlWaited, Goto, KeepsLock,
       NoMoreChances, Retrying, TypePlaces, TypeTasks, Tasks, Procs, Callers, Clip, Unload,
       Free
  <2>5. CASE Spawns(t)
    <3>1. CASE shutting \/ sess # "LOCAL"
      BY <2>5, RingSteps, StartSteps, EndsOutside, <3>1 DEF Spawns, Goto, KeepsLock,
         NoMoreChances, Retrying, TypePlaces, TypeTasks, Tasks, Procs, Callers, Clip,
         Unload, Free
    <3>2. CASE ~(shutting \/ sess # "LOCAL")
      BY <2>5, RingSteps, StartSteps, EndsOutside, <3>2 DEF Spawns, Goto, KeepsLock,
         NoMoreChances, Retrying, TypePlaces, TypeTasks, Tasks, Procs, Callers, Clip,
         Unload, Free
    <3>. QED BY <3>1, <3>2
  <2>6. CASE SpawnFails(t)
    BY <2>6, RingSteps, StartSteps, EndsOutside DEF SpawnFails, Goto, KeepsLock,
       NoMoreChances, Retrying, TypePlaces, TypeTasks, Tasks, Procs, Callers, Clip, Unload,
       Free
  <2>7. CASE Registers(t)
    BY <2>7
  <2>8. CASE RespawnsRing(t)
    <3>1. CASE pc[t] = "begin"
      BY <2>8, RingSteps, StartSteps, EndsOutside, <3>1 DEF RespawnsRing, RingGone,
         HeldIsGone, MayEnter, Alive, Goto, NoMoreChances, Retrying, TypePlaces, TypeTasks,
         Tasks, Procs, Callers, Clip, Unload, Free
    <3>2. CASE pc[t] # "begin"
      BY <2>8, RingSteps, StartSteps, EndsOutside, <3>2 DEF RespawnsRing, RingGone,
         HeldIsGone, MayEnter, Alive, Goto, NoMoreChances, Retrying, TypePlaces, TypeTasks,
         Tasks, Procs, Callers, Clip, Unload, Free
    <3>. QED BY <3>1, <3>2
  <2>9. CASE RingSpawns(t)
    BY <2>9 DEF RingSpawns, Goto, NoMoreChances, Retrying, TypePlaces, TypeTasks, Tasks,
       Procs, Callers, Clip, Unload, Free
  <2>10. CASE RingRegisters(t)
    BY <2>10 DEF RingRegisters, Goto, NoMoreChances, Retrying, TypePlaces, TypeTasks, Tasks,
       Procs, Callers, Clip, Unload, Free
  <2>11. CASE RingWatched(t)
    BY <2>11, RingSteps, StartSteps, EndsOutside DEF RingWatched, KeepsLock, NoMoreChances,
       Retrying, TypePlaces, TypeTasks, Tasks, Procs, Callers, Clip, Unload, Free
  <2>. QED BY <1>1, <2>1, <2>2, <2>3, <2>4, <2>5, <2>6, <2>7, <2>8, <2>9, <2>10, <2>11 DEF
     Runs
<1>2. ASSUME NEW c \in Callers, Outside(c)
      PROVE  NoMoreChances \/ (\E u \in Tasks : Registers(u)) \/ (\E q \in Procs : RecorderDied(q))
  <2>1. CASE SwitchOn(c)
    BY <2>1 DEF SwitchOn, Calls, NoMoreChances, Retrying, TypePlaces, TypeTasks, Tasks,
       Procs, Callers, Clip, Unload, Free
  <2>2. CASE SwitchOff(c)
    BY <2>2 DEF SwitchOff, Calls, NoMoreChances, Retrying, TypePlaces, TypeTasks, Tasks,
       Procs, Callers, Clip, Unload, Free
  <2>3. CASE SessionReady(c)
    <3>1. CASE intent
      BY <2>3, <3>1 DEF SessionReady, Calls, Quiet, NoMoreChances, Retrying, TypePlaces,
         TypeTasks, Tasks, Procs, Callers, Clip, Unload, Free
    <3>2. CASE ~intent
      BY <2>3, <3>2 DEF SessionReady, Calls, Quiet, NoMoreChances, Retrying, TypePlaces,
         TypeTasks, Tasks, Procs, Callers, Clip, Unload, Free
    <3>. QED BY <3>1, <3>2
  <2>4. CASE SessionRemote(c)
    BY <2>4 DEF SessionRemote, Calls, Quiet, NoMoreChances, Retrying, TypePlaces, TypeTasks,
       Tasks, Procs, Callers, Clip, Unload, Free
  <2>5. CASE TearDown(c)
    BY <2>5 DEF TearDown, Calls, Quiet, NoMoreChances, Retrying, TypePlaces, TypeTasks,
       Tasks, Procs, Callers, Clip, Unload, Free
  <2>. QED BY <1>2, <2>1, <2>2, <2>3, <2>4, <2>5 DEF Outside
<1>3. ASSUME NEW p \in Procs, Watches(p)
      PROVE  NoMoreChances \/ (\E u \in Tasks : Registers(u)) \/ (\E q \in Procs : RecorderDied(q))
  <2>1. CASE NotMine(p)
    BY <2>1 DEF NotMine, NoMoreChances, Retrying, TypePlaces, TypeTasks, Tasks, Procs,
       Callers, Clip, Unload, Free
  <2>2. CASE RecorderDied(p)
    BY <2>2
  <2>3. CASE RingDied(p)
    BY <2>3 DEF RingDied, NoMoreChances, Retrying, TypePlaces, TypeTasks, Tasks, Procs,
       Callers, Clip, Unload, Free
  <2>4. CASE Wakes(p)
    BY <2>4 DEF Wakes, NoMoreChances, Retrying, TypePlaces, TypeTasks, Tasks, Procs,
       Callers, Clip, Unload, Free
  <2>. QED BY <1>3, <2>1, <2>2, <2>3, <2>4 DEF Watches
<1>4. ASSUME NEW c \in Callers, Saved(c)
      PROVE  NoMoreChances \/ (\E u \in Tasks : Registers(u)) \/ (\E q \in Procs : RecorderDied(q))
  BY <1>4 DEF Saved, NoMoreChances, Retrying, TypePlaces, TypeTasks, Tasks, Procs, Callers,
     Clip, Unload, Free
<1>5. ASSUME NEW c \in Callers, NEW m \in {"continuous", "event_buffered"}, SelectMode(c, m)
      PROVE  NoMoreChances \/ (\E u \in Tasks : Registers(u)) \/ (\E q \in Procs : RecorderDied(q))
  BY <1>5 DEF SelectMode, Calls, Quiet, NoMoreChances, Retrying, TypePlaces, TypeTasks,
     Tasks, Procs, Callers, Clip, Unload, Free
<1>6. CASE NothingToFinalize
  BY <1>6 DEF NothingToFinalize, MayEnter, NoMoreChances, Retrying, TypePlaces, TypeTasks,
     Tasks, Procs, Callers, Clip, Unload, Free
<1>7. CASE Finalized
  BY <1>7 DEF Finalized, HeldIsGone, NoMoreChances, Retrying, TypePlaces, TypeTasks, Tasks,
     Procs, Callers, Clip, Unload, Free
<1>8. CASE ClipRestarts
  <2>1. CASE RingStep(ring) = "end"
    BY <1>8, RingSteps, StartSteps, EndsOutside, <2>1 DEF ClipRestarts, MayEnter, Goto,
       TakesLock, NoMoreChances, Retrying, TypePlaces, TypeTasks, Tasks, Procs, Callers,
       Clip, Unload, Free
  <2>2. CASE RingStep(ring) # "end"
    BY <1>8, RingSteps, StartSteps, EndsOutside, <2>2 DEF ClipRestarts, MayEnter, Goto,
       TakesLock, NoMoreChances, Retrying, TypePlaces, TypeTasks, Tasks, Procs, Callers,
       Clip, Unload, Free
  <2>. QED BY <2>1, <2>2
<1>9. CASE PostrollEnds
  BY <1>9 DEF PostrollEnds, NoMoreChances, Retrying, TypePlaces, TypeTasks, Tasks, Procs,
     Callers, Clip, Unload, Free
<1>10. CASE Concat
  BY <1>10 DEF Concat, NoMoreChances, Retrying, TypePlaces, TypeTasks, Tasks, Procs,
     Callers, Clip, Unload, Free
<1>11. CASE MotionEvent
  BY <1>11 DEF MotionEvent, NoMoreChances, Retrying, TypePlaces, TypeTasks, Tasks, Procs,
     Callers, Clip, Unload, Free
<1>12. CASE SweepGoesOn
  <2>1. CASE pc[Unload] = "begin"
    BY <1>12, <2>1 DEF SweepGoesOn, RingGone, HeldIsGone, MayEnter, Alive, NoMoreChances,
       Retrying, TypePlaces, TypeTasks, Tasks, Procs, Callers, Clip, Unload, Free
  <2>2. CASE pc[Unload] # "begin"
    BY <1>12, <2>2 DEF SweepGoesOn, RingGone, HeldIsGone, MayEnter, Alive, NoMoreChances,
       Retrying, TypePlaces, TypeTasks, Tasks, Procs, Callers, Clip, Unload, Free
  <2>. QED BY <2>1, <2>2
<1>13. CASE Unloads
  BY <1>13 DEF Unloads, NoMoreChances, Retrying, TypePlaces, TypeTasks, Tasks, Procs,
     Callers, Clip, Unload, Free
<1>14. CASE TasksCancelled
  BY <1>14 DEF TasksCancelled, NoMoreChances, Retrying, TypePlaces, TypeTasks, Tasks, Procs,
     Callers, Clip, Unload, Free
<1>15. CASE \/ (\E p \in Procs, reason \in {"signal", "auth", "crash", "disk"} : Exits(p, reason))
            \/ (\E k \in {"rec", "ring"} : WindowPasses(k)) \/ SessionOpens
            \/ UNCHANGED vars
  <2>1. UNCHANGED <<authRetries, older, pc, prog, rec, refusals>>
    BY <1>15 DEF Exits, WindowPasses, SessionOpens, vars
  <2>. QED BY <2>1 DEF NoMoreChances, Retrying
<1>. QED BY <1>1, <1>2, <1>3, <1>4, <1>5, <1>6, <1>7, <1>8, <1>9, <1>10, <1>11, <1>12,
   <1>13, <1>14, <1>15 DEF Next, Assembles

\* A retry that registers gives its chance to the recorder; a start that is no retry
\* opens a new account.
LEMMA RegistrationAccount ==
  ASSUME TypePlaces, TypeTasks, TypeCounts, OwnPrograms, UnloadSteps, RetriesUsedUp,
         NEW t \in Tasks, Registers(t)
  PROVE  RetriesUsedUp'
<1>1. Retrying' \subseteq Retrying \ {t}
  BY HandsOver, EndsOutside DEF Registers, Retrying, OwnPrograms, UnloadSteps, Tasks, Procs,
     TypeTasks, TypePlaces
<1>2. Retrying \in SUBSET Procs
  BY DEF Retrying
<1>3. Recorders' \in {0, 1}
  BY DEF Recorders
<1>4. CASE prog[t] = "retry"
  <2>1. t \in Procs
    BY <1>4 DEF OwnPrograms, UnloadSteps, Tasks
  <2>2. t \in Retrying
    BY <1>4, <2>1 DEF Registers, Retrying
  <2>3. Cardinality(Retrying)' + 1 <= Cardinality(Retrying) /\ Cardinality(Retrying)' \in Nat
    BY <1>1, <1>2, <2>2, FewerRetries
  <2>4. Chances' <= Chances /\ Chances' \in Nat
    BY <1>3, <2>3, ChancesCounted DEF Chances
  <2>5. refusals' = refusals /\ authRetries' = authRetries /\ older' = older
    BY <1>4 DEF Registers, rejected
  <2>. QED BY <2>4, <2>5, CoveredStill
<1>5. CASE prog[t] # "retry"
  <2>1. Cardinality(Retrying)' <= Cardinality(Retrying) /\ Cardinality(Retrying)' \in Nat
    BY <1>1, <1>2, FewerRetries
  <2>2. refusals' = 0 /\ authRetries' = 0 /\ older' = Cardinality(Retrying)
    BY <1>5 DEF Registers
  <2>3. Chances' <= older' + 1
    BY <1>3, <2>1, <2>2, ChancesCounted DEF Chances
  <2>. QED BY <2>2, <2>3, NvrAssumption DEF RetriesUsedUp
<1>. QED BY <1>4, <1>5

\* A recorder that dies costs a chance, and below the limit a rejection makes another.
LEMMA DeathAccount ==
  ASSUME TypeProcs, TypePlaces, TypeTasks, TypeCounts, RetriesUsedUp,
         NEW p \in Procs, RecorderDied(p)
  PROVE  RetriesUsedUp'
<1>1. rec # 0 /\ rec' = 0
  BY NvrAssumption DEF RecorderDied, Procs
<1>2. Recorders = 1 /\ Recorders' = 0
  BY <1>1 DEF Recorders
<1>3. Retrying \in SUBSET Procs
  BY DEF Retrying
<1>4. CASE should_record(intent) /\ why[p] = "auth" /\ authRetries < MaxAuth
  <2>1. Retrying' \subseteq Retrying \cup {p}
    BY <1>4 DEF RecorderDied, Retrying, TypePlaces, TypeTasks, Tasks
  <2>2. p \notin Retrying
    BY DEF RecorderDied, Retrying
  <2>3. Cardinality(Retrying \cup {p}) = Cardinality(Retrying) + 1
    BY <2>2, RetryingCounted, FS_AddElement
  <2>4. Retrying \cup {p} \in SUBSET Procs
    BY <1>3
  <2>5. Cardinality(Retrying)' <= Cardinality(Retrying) + 1 /\ Cardinality(Retrying)' \in Nat
    BY <2>1, <2>3, <2>4, FewerRetries
  <2>6. Chances' <= Chances /\ Chances' \in Nat
    BY <1>2, <2>5, ChancesCounted DEF Chances
  <2>7. refusals' = refusals + 1 /\ authRetries' = authRetries + 1 /\ older' = older
    BY <1>4 DEF RecorderDied
  <2>8. PICK c \in Nat, d \in Nat : c = Chances /\ d = Chances'
    BY <2>6, ChancesCounted
  <2>9. d <= older + 1 /\ refusals + 1 <= MaxAuth
    BY <1>4, <2>6, <2>8, NvrAssumption DEF RetriesUsedUp, TypeCounts
  <2>10. refusals \in Nat /\ older \in Nat /\ MaxAuth \in Nat /\ refusals = authRetries
    BY NvrAssumption DEF TypeCounts, RetriesUsedUp
  <2>11. ~(refusals + 1 > MaxAuth)
    BY <2>9, <2>10
  <2>. QED BY <2>7, <2>8, <2>9, <2>10, <2>11 DEF RetriesUsedUp
<1>5. CASE ~(should_record(intent) /\ why[p] = "auth" /\ authRetries < MaxAuth)
  <2>1. Retrying' \subseteq Retrying
    BY <1>5 DEF RecorderDied, Retrying, TypePlaces, TypeTasks, Tasks
  <2>2. Cardinality(Retrying)' <= Cardinality(Retrying) /\ Cardinality(Retrying)' \in Nat
    BY <1>3, <2>1, FewerRetries
  <2>3. Chances' + 1 <= Chances /\ Chances' \in Nat
    BY <1>2, <2>2, ChancesCounted DEF Chances
  <2>4. CASE should_record(intent) /\ why[p] = "auth"
    <3>1. refusals' = refusals + 1 /\ authRetries' = authRetries + 1 /\ older' = older
      BY <2>4 DEF RecorderDied
    <3>2. ~(authRetries < MaxAuth)
      BY <1>5, <2>4
    <3>3. PICK c \in Nat, d \in Nat : c = Chances /\ d = Chances'
      BY <2>3, ChancesCounted
    <3>4. d + 1 <= c /\ c <= older + 1 /\ ~(refusals < MaxAuth)
      BY <2>3, <3>2, <3>3 DEF RetriesUsedUp
    <3>5. refusals > MaxAuth => refusals + c <= MaxAuth + older + 1
      BY <3>3 DEF RetriesUsedUp
    <3>6. refusals \in Nat /\ older \in Nat /\ MaxAuth \in Nat /\ refusals = authRetries
      BY NvrAssumption DEF TypeCounts, RetriesUsedUp
    <3>7. d <= older + 1 /\ refusals + 1 + d <= MaxAuth + older + 1
      BY <3>4, <3>5, <3>6
    <3>. QED BY <3>1, <3>3, <3>6, <3>7 DEF RetriesUsedUp
  <2>5. CASE ~(should_record(intent) /\ why[p] = "auth")
    <3>1. refusals' = refusals /\ authRetries' = authRetries /\ older' = older
      BY <2>5 DEF RecorderDied
    <3>2. Chances' <= Chances
      BY <2>3, ChancesCounted
    <3>. QED BY <2>3, <3>1, <3>2, CoveredStill
  <2>. QED BY <2>4, <2>5
<1>. QED BY <1>4, <1>5

\* So the account is covered after every step.
LEMMA RetriesStep ==
  ASSUME Typed, RetriesUsedUp, [Next]_vars
  PROVE  RetriesUsedUp'
BY OnlyTheRecorderCosts, AccountKept, RegistrationAccount, DeathAccount DEF Typed

-----------------------------------------------------------------------------
\* ------------------------------------------------------ the theorems

\* It all holds when the entry has been set up.
LEMMA InitTyped == Init => Typed
<1>. SUFFICES ASSUME Init PROVE Typed
  OBVIOUS
<1>1. TypeSession /\ TypeRecent
  BY DEF Init, TypeSession, TypeRecent, Kinds
<1>2. TypeProcs
  BY NvrAssumption DEF Init, TypeProcs, States, Kinds, Reasons
<1>3. TypePlaces
  BY DEF Init, TypePlaces, Steps
<1>4. TypeTasks
  BY NvrAssumption DEF Init, TypeTasks, Programs
<1>5. TypeCounts
  BY NvrAssumption DEF Init, TypeCounts
<1>6. OwnPrograms /\ UnloadSteps
  BY DEF Init, OwnPrograms, UnloadSteps, Tasks
<1>. QED BY <1>1, <1>2, <1>3, <1>4, <1>5, <1>6 DEF Typed

\* The invariant holds initially.
LEMMA InitInv == Init => IInv
<1>. SUFFICES ASSUME Init PROVE IInv
  OBVIOUS
<1>1. Typed
  BY InitTyped
<1>2. Written
  BY DEF Init, Written, Locked, Critical, InOrder, DictsFit, HandsFit, NoRecorder, NoRing,
     RecorderTracked, RingTracked, RingsSwept, AllSwept, Tasks
<1>3. ClipOwes
  BY DEF Init, ClipOwes
<1>4. Retrying = {}
  BY DEF Init, Retrying, Tasks
<1>5. Chances = 0
  BY <1>4, FS_EmptySet DEF Init, Chances, Recorders
<1>6. RetriesUsedUp
  BY <1>5, NvrAssumption DEF Init, RetriesUsedUp
<1>. QED BY <1>1, <1>2, <1>3, <1>6 DEF IInv

\* A step keeps what is said of the lock, the dicts and the processes.
LEMMA WrittenStep ==
  ASSUME Typed, Written, [Next]_vars
  PROVE  Written'
BY LockedStep, InOrderStep, DictsStep, HandsStep, NoRecorderStep, NoRingStep,
   RecorderTrackedStep, RingTrackedStep, RingsSweptStep, AllSweptStep DEF Typed, Written

\* The invariant is inductive.
LEMMA Inductive == Spec => []IInv
<1>1. Init => IInv
  BY InitInv
<1>2. IInv /\ [Next]_vars => IInv'
  BY TypedStep, WrittenStep, ClipOwesStep, RetriesStep DEF IInv, Typed
<1>. QED BY <1>1, <1>2, PTL DEF Spec

\* Every variable keeps its type.
THEOREM TypeCorrect == Spec => []TypeOK
<1>1. Typed => TypeOK
  BY DEF Typed, TypeOK, TypeSession, TypeProcs, TypePlaces, TypeTasks, TypeCounts, TypeRecent,
     States, Kinds, Reasons, Steps, Programs
<1>. QED BY <1>1, Inductive, PTL DEF IInv

\* However starts, stops, respawns, clips and the unload overlap, at most one recorder and
\* one ring run that nobody told to stop, each in its dict or in the hands of the task that
\* spawned it, and none after the unload.
THEOREM NothingRunsUnseen == Spec => []NoStrayWriter
<1>1. IInv => OneTrackedWriter
  <2>. SUFFICES ASSUME IInv PROVE OneTrackedWriter
    OBVIOUS
  <2>. USE DEF IInv, Written
  <2>1. ASSUME NEW p \in Procs, Alive(p)
        PROVE  p \in {rec, ring} \/ \E t \in Tasks : held[t] = p
    <3>1. kind[p] \in {"rec", "ring"}
      BY DEF Typed, TypeProcs, Kinds
    <3>. QED BY <2>1, <3>1 DEF Alive, RecorderTracked, RingTracked
  <2>2. ASSUME NEW p \in Procs, NEW q \in Procs, Alive(p), Alive(q), kind[p] = "rec",
               kind[q] = "rec"
        PROVE  p = q
    <3>1. ASSUME NEW t \in Tasks, pc[t] = "spawned"
          PROVE  rec = 0 /\ lock = t
      BY <3>1 DEF NoRecorder, Locked, Critical
    <3>. QED BY <2>2, <3>1, NvrAssumption DEF Alive, RecorderTracked, Procs
  <2>3. ASSUME NEW p \in Procs, NEW q \in Procs, Alive(p), Alive(q), kind[p] = "ring",
               kind[q] = "ring"
        PROVE  p = q
    <3>1. ASSUME NEW t \in Tasks, pc[t] = "ringSpawned"
          PROVE  ~Alive(ring) /\ lock = t
      BY <3>1 DEF NoRing, Locked, Critical
    <3>. QED BY <2>3, <3>1 DEF Alive, RingTracked
  <2>4. \A p \in Procs : kind[p] \in {"rec", "ring"}
    BY DEF Typed, TypeProcs, Kinds
  <2>. QED BY <2>1, <2>2, <2>3, <2>4 DEF OneTrackedWriter
<1>2. IInv => NothingSurvivesUnload
  BY DEF IInv, Written, Typed, UnloadSteps, AllSwept, Alive, NothingSurvivesUnload
<1>. QED BY <1>1, <1>2, Inductive, PTL DEF NoStrayWriter

\* Between two starts that are no retries the camera rejects at most MaxAuth + 1 processes,
\* and one more for each older retry that was still on its way at the second start.
THEOREM RejectionsEnd == Spec => []AuthRetriesEnd
<1>1. IInv => AuthRetriesEnd
  BY ChancesCounted, NvrAssumption DEF IInv, Typed, TypeCounts, RetriesUsedUp, AuthRetriesEnd
<1>. QED BY <1>1, Inductive, PTL

\* No clip ends owing the ring it stopped.
THEOREM RingIsGivenBack == Spec => []ClipGivesRingBack
<1>1. IInv => ClipGivesRingBack
  BY DEF IInv, ClipOwes, ClipGivesRingBack
<1>. QED BY <1>1, Inductive, PTL
=============================================================================
