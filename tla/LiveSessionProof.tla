--------------------------- MODULE LiveSessionProof ---------------------------
(***************************************************************************)
(* Proofs about the live view of a camera.                                 *)
(*                                                                         *)
(* LiveSession, for every set of enabled tasks, every preference and every *)
(* bound: type correctness, that no exit of a build leaves a session half  *)
(* open, that a guarded teardown only ends the generation it was scheduled *)
(* for, and that a session nobody is rebuilding is looked after.           *)
(*                                                                         *)
(* IInv strengthens TypeOK and SettledSession to an inductive invariant.   *)
(* Core is about the lock and the build it protects: the build has a step  *)
(* exactly while a task that builds holds the lock (Progress), every step  *)
(* after the first has a candidate (Candidates), and outside the three     *)
(* steps that wait for a LOCAL warm-up the session is settled (Settles).   *)
(* The rest bounds the counters (TicksLeft, TriesLeft) and says that a     *)
(* session is no newer than the generation counter (Counted).  CInv is     *)
(* what looking after a session needs on top: who holds and who waits for  *)
(* the lock and how many generations are left for them (Lanes), what a     *)
(* build has published (Published), and that outside the steps after it    *)
(* the session has its keepalive or its terminator (Attended).             *)
(* There is one lemma for each action; a leaf expands the action and the   *)
(* conjuncts it can disturb.                                               *)
(*                                                                         *)
(* FrontDoor and RtspRelay, for any number of listeners, recorders,        *)
(* sessions and switch calls and any length of a connection: the door that *)
(* is wanted is open, the one that is published leads to the session, and  *)
(* a client that waits for each reply reads its own numbers.  The last     *)
(* theorems are about the run in which the parts are checked together.     *)
(***************************************************************************)
EXTENDS MC_LiveView, SequenceTheorems, FiniteSetTheorems, TLAPS

\* What live_connections and a build may hold.
LiveType == [type : Types, url : BOOLEAN, gen : Nat]
BuildType == [step : Steps, todo : Seq({"LOCAL", "REMOTE"}), remote : BOOLEAN]

\* TypeOK in groups: the lock and the build, ...
TypeLock ==
    /\ live \in LiveType
    /\ warming \in BOOLEAN
    /\ pc \in [Tasks -> PCs]
    /\ owner \in Tasks \cup {NoTask}
    /\ waiters \in Seq(Tasks)
    /\ build \in BuildType
    /\ starts \in 0..MaxStarts

\* ... the health counters, ...
TypeHealth ==
    /\ errCount \in 0..MaxErrors
    /\ fellBack \in BOOLEAN
    /\ rescued \in BOOLEAN
    /\ tries \in 0..3

\* ... the user and the proxy, ...
TypeUser ==
    /\ intent \in BOOLEAN
    /\ lastAsk \in {"on", "off"}
    /\ privacy \in BOOLEAN
    /\ proxyUp \in BOOLEAN
    /\ rebuiltOnce \in BOOLEAN

\* ... the keepalives and terminators, ...
TypeKeeper ==
    /\ gen \in Nat
    /\ kind \in [1..MaxStarts -> {"LOCAL", "REMOTE", None}]
    /\ registered \in Nat
    /\ cancelled \subseteq Nat

\* ... and the health watchdog.
TypeWatch ==
    /\ tick \in 0..2
    /\ watched \in Nat
    /\ sawConsumer \in BOOLEAN

\* A sleeping watchdog has a tick left, a retrying worker a try; only builds wait
\* for the go2rtc schemes.
TicksLeft == pc[Watchdog] = "sleep" => tick < 2
TriesLeft == pc[Worker] = "retry" => tries \in {1, 2}
SchemesAsked == \A t \in Tasks : pc[t] = "schemes" => ~Teardown(t)
\* The shape of a build in progress.
Candidates == build.step \notin {None, "begin"} => build.todo # <<>>
Progress == build.step = None <=> NobodyBuilds
Settled == ~warming /\ (live # NoLive => live.url)
Settles == build.step \notin {"stale", "prewarm", "door"} => Settled
\* No session is newer than the generation counter.
Counted == live.gen <= gen

Core == TypeLock /\ SchemesAsked /\ Candidates /\ Progress /\ Settles
IInv == Core /\ TypeHealth /\ TypeUser /\ TypeKeeper /\ TypeWatch /\ TicksLeft /\ TriesLeft /\ Counted

\* The tasks that exist once.
Singles == {TurnOn, TurnOff, AutoOpen, Snapshot, PrivacySwitch, PrivacySeen,
            Watchdog, Worker, Died, Promote}

USE LiveSessionAssumption
USE DEF Singles, userVars, healthVars, keeperVars, lockVars, watchVars, taskFrame, buildFrame,
   watchdogFrame, workerFrame

\* A caller never ends up holding or queued.
LEMMA AfterIsPC == ASSUME NEW t, NEW r, NEW n PROVE After(t, r, n) \in {"done", "sleep", "retry", "idle"}
BY DEF After

\* The task names differ from each other and fall into the classes they should.
LEMMA TasksDiffer ==
  /\ \A t \in Keepers :
       /\ t # NoTask /\ ~Teardown(t)
       /\ t \notin Singles
  /\ \A t \in Reaps :
       /\ t # NoTask /\ Teardown(t)
       /\ t \notin Singles
  /\ ~Teardown(TurnOn) /\ ~Teardown(AutoOpen) /\ ~Teardown(Snapshot)
  /\ ~Teardown(Watchdog) /\ ~Teardown(Worker) /\ ~Teardown(Died) /\ ~Teardown(Promote)
  /\ Teardown(TurnOff) /\ Teardown(PrivacySwitch) /\ Teardown(PrivacySeen)
  /\ Watchdog # Worker
  /\ NoTask \notin Tasks /\ Singles \subseteq Tasks
BY DEF Keepers, Reaps, Teardown, NoTask, None, TurnOn, TurnOff, AutoOpen, Snapshot,
   PrivacySwitch, PrivacySeen, Watchdog, Worker, Died, Promote, Tasks

\* The empty session and the empty build are well typed.
LEMMA EmptyRecords ==
  /\ NoLive \in LiveType /\ NoLive.gen = 0
  /\ [NoBuild EXCEPT !.step = "begin"] \in BuildType /\ [NoBuild EXCEPT !.step = "begin"].step = "begin"
  /\ NoBuild \in BuildType /\ NoBuild.step = None
<1>1. NoLive \in LiveType /\ NoLive.gen = 0
  BY DEF NoLive, LiveType, Types, None
<1>2. NoBuild \in BuildType /\ NoBuild.step = None
  BY DEF NoBuild, BuildType, Steps, None
<1>3. [NoBuild EXCEPT !.step = "begin"] \in BuildType /\ [NoBuild EXCEPT !.step = "begin"].step = "begin"
  BY <1>2 DEF BuildType, Steps, None
<1> QED
  BY <1>1, <1>2, <1>3

\* What a call does to the tasks: nobody but the caller t moves.
Moved(t, n) ==
    /\ \A x \in Tasks \ {t} : pc'[x] = pc[x]
    /\ pc'[t] = "sleep" => t \in Keepers \/ tick < 2
    /\ pc'[t] = "retry" => t = Worker /\ n \in {1, 2}
    /\ live'.gen \in {live.gen, 0}

\* A call of try_live_connection, up to the lock or its refusal.
LEMMA CallKeeps ==
  ASSUME Core, NEW t \in Tasks, ~Teardown(t), NEW l \in {live, NoLive},
         NEW n \in 0..3, Call(t, l, n)
  PROVE  Core' /\ Moved(t, n)
<1> USE TasksDiffer
<1>0. l \in LiveType /\ l.gen \in {live.gen, 0}
  BY EmptyRecords DEF Core, TypeLock
<1>1. CASE Declined(t) /\ pc' = [pc EXCEPT ![t] = After(t, None, n)]
          /\ live' = l /\ UNCHANGED <<warming, lockVars, starts>>
  <2>1. live' \in LiveType /\ live'.gen \in {live.gen, 0}
    BY <1>0, <1>1, EmptyRecords DEF Core, TypeLock, lockVars, After
  <2>2. Moved(t, n)
    BY <2>1, <1>1, AfterIsPC DEF Core, TypeLock, PCs, Moved, lockVars, After
  <2>3. TypeLock'
    BY <2>1, <1>1, AfterIsPC, EmptyRecords DEF Core, TypeLock, PCs, lockVars, After
  <2>4. Candidates' /\ SchemesAsked'
    BY <1>1, AfterIsPC, EmptyRecords DEF Core, TypeLock, Candidates, SchemesAsked,
       lockVars, After
  <2>5. Progress'
    BY <1>1, EmptyRecords DEF Core, TypeLock, Progress, NobodyBuilds, None, lockVars,
       After
  <2>6. Settles'
    BY <1>1, EmptyRecords DEF Core, TypeLock, Progress, NobodyBuilds, Settles,
       Settled, None, lockVars, After
  <2> QED
    BY <2>1, <2>2, <2>3, <2>4, <2>5, <2>6 DEF Core
<1>2. CASE pc' = [pc EXCEPT ![t] = "schemes"] /\ live' = l /\ starts < MaxStarts
          /\ starts' = starts + 1 /\ UNCHANGED <<warming, lockVars>>
  <2>1. live' \in LiveType /\ live'.gen \in {live.gen, 0}
    BY <1>0, <1>2, EmptyRecords DEF Core, TypeLock, lockVars
  <2>2. Moved(t, n)
    BY <2>1, <1>2, AfterIsPC DEF Core, TypeLock, PCs, Moved, lockVars
  <2>3. TypeLock'
    BY <2>1, <1>2, AfterIsPC, EmptyRecords DEF Core, TypeLock, PCs, lockVars
  <2>4. Candidates' /\ SchemesAsked'
    BY <1>2, AfterIsPC, EmptyRecords DEF Core, TypeLock, Candidates, SchemesAsked,
       lockVars
  <2>5. Progress'
    BY <1>2, EmptyRecords DEF Core, TypeLock, Progress, NobodyBuilds, None, lockVars
  <2>6. Settles'
    BY <1>2, EmptyRecords DEF Core, TypeLock, Progress, NobodyBuilds, Settles,
       Settled, None, lockVars
  <2> QED
    BY <2>1, <2>2, <2>3, <2>4, <2>5, <2>6 DEF Core
<1>3. CASE starts < MaxStarts /\ starts' = starts + 1
          /\ Free /\ EnterBuild(t, l) /\ UNCHANGED waiters
  <2>1. live' \in LiveType /\ live'.gen \in {live.gen, 0}
    BY <1>0, <1>3, EmptyRecords DEF Core, TypeLock, Free, EnterBuild
  <2>2. Moved(t, n)
    BY <2>1, <1>3, AfterIsPC DEF Core, TypeLock, PCs, Moved, Free, EnterBuild
  <2>3. TypeLock'
    BY <2>1, <1>3, AfterIsPC, EmptyRecords DEF Core, TypeLock, PCs, Free, EnterBuild
  <2>4. Candidates' /\ SchemesAsked'
    BY <1>3, AfterIsPC, EmptyRecords DEF Core, TypeLock, Candidates, SchemesAsked,
       Free, EnterBuild
  <2>5. Progress'
    BY <1>3, EmptyRecords DEF Core, TypeLock, Progress, NobodyBuilds, None, Free,
       EnterBuild
  <2>6. Settles'
    BY <1>3, EmptyRecords DEF Core, TypeLock, Progress, NobodyBuilds, Settles,
       Settled, None, Free, EnterBuild
  <2> QED
    BY <2>1, <2>2, <2>3, <2>4, <2>5, <2>6 DEF Core
<1>4. CASE starts < MaxStarts /\ starts' = starts + 1
          /\ ~Free /\ Wait(t) /\ live' = l /\ UNCHANGED <<owner, build, warming>>
  <2>1. live' \in LiveType /\ live'.gen \in {live.gen, 0}
    BY <1>0, <1>4, EmptyRecords DEF Core, TypeLock, Wait
  <2>2. Moved(t, n)
    BY <2>1, <1>4, AfterIsPC DEF Core, TypeLock, PCs, Moved, Wait
  <2>3. TypeLock'
    BY <2>1, <1>4, AfterIsPC, EmptyRecords DEF Core, TypeLock, PCs, Wait
  <2>4. Candidates' /\ SchemesAsked'
    BY <1>4, AfterIsPC, EmptyRecords DEF Core, TypeLock, Candidates, SchemesAsked, Wait
  <2>5. Progress'
    BY <1>4, EmptyRecords DEF Core, TypeLock, Progress, NobodyBuilds, None, Wait
  <2>6. Settles'
    BY <1>4, EmptyRecords DEF Core, TypeLock, Progress, NobodyBuilds, Settles,
       Settled, None, Wait
  <2> QED
    BY <2>1, <2>2, <2>3, <2>4, <2>5, <2>6 DEF Core
<1>5. QED
  BY <1>1, <1>2, <1>3, <1>4 DEF Call, AskBuild

\* A teardown moves nobody into a sleep or a retry.
Calmed ==
    /\ \A x \in Tasks : pc'[x] \in {"sleep", "retry"} => pc'[x] = pc[x]
    /\ live'.gen \in {live.gen, 0}
    /\ gen' = gen

\* A teardown that has the lock, up to its first await.
LEMMA EnterTeardownKeeps ==
  ASSUME IInv, NEW t \in Tasks, Teardown(t), owner = NoTask, EnterTeardown(t),
         waiters' \in Seq(Tasks), UNCHANGED starts
  PROVE  /\ Core' /\ Calmed /\ TypeKeeper' /\ intent' \in BOOLEAN
         /\ errCount' \in 0..MaxErrors /\ fellBack' \in BOOLEAN /\ rescued' \in BOOLEAN
<1> USE DEF IInv
<1>1. CASE Stale(t) /\ owner' = NoTask /\ pc' = [pc EXCEPT ![t] = "done"]
          /\ UNCHANGED <<live, warming, intent, healthVars, keeperVars, build>>
  <2>1. Core'
    BY <1>1 DEF Core, TypeLock, SchemesAsked, Candidates, Progress, NobodyBuilds,
       Settles, Settled, PCs
  <2>2. Calmed
    BY <1>1 DEF Core, TypeLock, Calmed
  <2>3. QED
    BY <1>1, <2>1, <2>2 DEF TypeKeeper, TypeHealth, TypeUser
<1>2. CASE ~Stale(t) /\ EnterTeardown(t)
  <2>0. pc' = [x \in Tasks |-> IF x = t THEN "holding" ELSE IF pc[x] = "deciding" THEN "done" ELSE pc[x]]
    BY <1>2 DEF EnterTeardown
  <2>1. TypeLock'
    BY <1>2, <2>0, EmptyRecords DEF EnterTeardown, Core, TypeLock, PCs
  <2>2. SchemesAsked'
    BY <2>0 DEF Core, TypeLock, SchemesAsked
  <2>3. Candidates' /\ Progress'
    BY <1>2 DEF EnterTeardown, Core, TypeLock, Candidates, Progress, NobodyBuilds
  <2>4. Settles'
    BY <1>2 DEF EnterTeardown, Settles, Settled
  <2>5. Calmed
    BY <1>2, <2>0, EmptyRecords DEF EnterTeardown, Calmed
  <2>6. TypeKeeper'
    <3>1. gen' = gen /\ kind' = kind /\ registered' = 0
          /\ cancelled' = cancelled \cup ({registered} \ {0})
      BY <1>2 DEF EnterTeardown, CancelRegistered
    <3>2. QED
      BY <3>1 DEF TypeKeeper
  <2>7. intent' = FALSE /\ errCount' = 0 /\ fellBack' = FALSE /\ rescued' = FALSE
    BY <1>2 DEF EnterTeardown
  <2>8. QED
    <3>1. Core' /\ 0 \in 0..MaxErrors
      BY <2>1, <2>2, <2>3, <2>4 DEF Core
    <3>2. QED
      BY <3>1, <2>5, <2>6, <2>7
<1>3. QED
  BY <1>1, <1>2 DEF EnterTeardown

\* A teardown that asks for the lock.
LEMMA AskTeardownKeeps ==
  ASSUME IInv, NEW t \in Tasks, Teardown(t), NEW i \in BOOLEAN, AskTeardown(t, i), UNCHANGED starts
  PROVE  /\ Core' /\ Calmed /\ TypeKeeper' /\ intent' \in BOOLEAN
         /\ errCount' \in 0..MaxErrors /\ fellBack' \in BOOLEAN /\ rescued' \in BOOLEAN
<1>1. CASE Free /\ EnterTeardown(t) /\ UNCHANGED waiters
  <2>1. owner = NoTask /\ waiters' \in Seq(Tasks)
    BY <1>1 DEF Free, IInv, Core, TypeLock
  <2>2. QED
    BY <1>1, <2>1, EnterTeardownKeeps
<1>2. CASE Wait(t) /\ intent' = i /\ UNCHANGED <<live, warming, healthVars, keeperVars, owner, build>>
  <2>1. TypeLock'
    BY <1>2 DEF Wait, IInv, Core, TypeLock, PCs
  <2>2. SchemesAsked' /\ Candidates' /\ Progress' /\ Settles'
    BY <1>2 DEF Wait, IInv, Core, TypeLock, SchemesAsked, Candidates, Progress,
       NobodyBuilds, Settles, Settled
  <2>3. Calmed
    BY <1>2 DEF Wait, IInv, Core, TypeLock, Calmed
  <2>4. QED
    BY <1>2, <2>1, <2>2, <2>3 DEF Core, IInv, TypeKeeper, TypeHealth
<1>3. QED
  BY <1>1, <1>2 DEF AskTeardown

\* A build whose last candidate failed.
LEMMA BuildFailsKeeps ==
  ASSUME IInv, NobodyBuilds = FALSE, build.step \in {"put", "cleanup", "fallback"},
         BuildFails, UNCHANGED <<starts, warming>>
  PROVE  /\ Core' /\ live'.gen \in {live.gen, 0} /\ intent' \in BOOLEAN /\ errCount' \in 0..MaxErrors
         /\ \A x \in Tasks \ {owner} : pc'[x] = pc[x]
         /\ pc'[owner] = "sleep" => owner \in Keepers \/ tick < 2
         /\ pc'[owner] = "retry" => owner = Worker /\ tries \in {1, 2}
<1>1. owner \in Tasks /\ ~Teardown(owner)
  BY DEF NobodyBuilds, IInv, Core, TypeLock
<1>2. live' \in {live, NoLive}
  BY DEF BuildFails
<1>3. live' \in LiveType /\ live'.gen \in {live.gen, 0}
  BY <1>2, EmptyRecords DEF IInv, Core, TypeLock
<1>4. pc' = [pc EXCEPT ![owner] = After(owner, None, tries)]
  BY DEF BuildFails
<1>5. TypeLock'
  BY <1>1, <1>3, <1>4, AfterIsPC, EmptyRecords DEF BuildFails, IInv, Core, TypeLock, PCs
<1>6. SchemesAsked' /\ Candidates' /\ Progress'
  BY <1>1, <1>4, AfterIsPC, EmptyRecords, TasksDiffer DEF BuildFails, IInv, Core,
     TypeLock, SchemesAsked, Candidates, Progress, NobodyBuilds
<1>7. Settles'
  BY <1>2, EmptyRecords DEF BuildFails, IInv, Core, Settles, Settled, None
<1>8. /\ \A x \in Tasks \ {owner} : pc'[x] = pc[x]
      /\ pc'[owner] = "sleep" => owner \in Keepers \/ tick < 2
      /\ pc'[owner] = "retry" => owner = Worker /\ tries \in {1, 2}
  BY <1>1, <1>4 DEF IInv, Core, TypeLock, After
<1>9. intent' \in BOOLEAN
  BY DEF BuildFails, IInv, TypeUser
<1>10. errCount' \in 0..MaxErrors
  BY DEF BuildFails, IInv, TypeHealth, Bump
<1>11. QED
  BY <1>3, <1>5, <1>6, <1>7, <1>8, <1>9, <1>10 DEF Core

\* The initial states.  Booleans and numbers are kept in steps of their own.
LEMMA InitHolds == Init => IInv
<1> SUFFICES ASSUME Init PROVE IInv
  OBVIOUS
<1>1. live \in LiveType /\ build \in BuildType
  BY EmptyRecords DEF Init
<1>2. pc \in [Tasks -> PCs] /\ owner \in Tasks \cup {NoTask} /\ waiters \in Seq(Tasks)
  BY EmptySeq DEF Init, PCs
<1>3. warming \in BOOLEAN
  BY DEF Init
<1>4. starts \in 0..MaxStarts
  BY DEF Init
<1>5. TypeLock
  BY <1>1, <1>2, <1>3, <1>4 DEF TypeLock
<1>6. SchemesAsked /\ Candidates /\ Progress /\ Settles
  BY EmptyRecords DEF Init, SchemesAsked, Candidates, Progress, NobodyBuilds, Settles,
     Settled
<1>7. fellBack \in BOOLEAN /\ rescued \in BOOLEAN /\ sawConsumer \in BOOLEAN
  BY DEF Init
<1>8. errCount \in 0..MaxErrors /\ tries \in 0..3
  BY DEF Init
<1>9. TypeHealth
  BY <1>7, <1>8 DEF TypeHealth
<1>10. gen \in Nat /\ registered \in Nat /\ cancelled \subseteq Nat
  BY DEF Init
<1>11. kind \in [1..MaxStarts -> {"LOCAL", "REMOTE", None}]
  BY DEF Init
<1>12. TypeKeeper
  BY <1>10, <1>11 DEF TypeKeeper
<1>13. tick \in 0..2 /\ watched \in Nat
  BY DEF Init
<1>14. TypeWatch
  BY <1>7, <1>13 DEF TypeWatch
<1>15. TypeUser
  BY DEF Init, TypeUser
<1>16. TicksLeft /\ TriesLeft /\ Counted
  BY TasksDiffer, EmptyRecords DEF Init, TicksLeft, TriesLeft, Counted
<1> QED
  BY <1>5, <1>6, <1>9, <1>12, <1>14, <1>15, <1>16 DEF Core, IInv

\* What a call leaves of the counters.
LEMMA MovedKeeps ==
  ASSUME IInv, NEW t \in Tasks, NEW n, Moved(t, n), tries' = n, t = Worker \/ tries' = tries,
         tick' = tick, gen' = gen
  PROVE  TicksLeft' /\ TriesLeft' /\ Counted'
BY TasksDiffer DEF IInv, Core, TypeLock, LiveType, TypeKeeper, TicksLeft, TriesLeft,
   Counted, Moved

\* What a teardown leaves of the counters.
LEMMA CalmedKeeps ==
  ASSUME IInv, Calmed, UNCHANGED <<tries, tick>>
  PROVE  TicksLeft' /\ TriesLeft' /\ Counted'
BY TasksDiffer DEF IInv, Core, TypeLock, LiveType, TypeKeeper, TicksLeft, TriesLeft,
   Counted, Calmed

\* The tasks that ask for a build: the switch, a card, a snapshot, the keepalive.
LEMMA SwitchOnKeeps ==
  ASSUME IInv, SwitchOn
  PROVE  IInv'
<1>1. Core' /\ Moved(TurnOn, tries)
  BY TasksDiffer, CallKeeps DEF SwitchOn, IInv, TypeHealth, Keeper, Keepers, Tasks
<1>2. TicksLeft' /\ TriesLeft' /\ Counted'
  BY <1>1, TasksDiffer, MovedKeeps DEF SwitchOn, Keeper, Keepers, Tasks
<1>3. TypeHealth' /\ TypeKeeper' /\ TypeWatch'
  BY DEF SwitchOn, IInv, TypeHealth, TypeKeeper, TypeWatch
<1>4. TypeUser'
  BY DEF SwitchOn, IInv, TypeUser
<1>5. QED
  BY <1>1, <1>2, <1>3, <1>4 DEF IInv

\* CardOpens keeps the invariant.
LEMMA CardOpensKeeps ==
  ASSUME IInv, CardOpens
  PROVE  IInv'
<1>1. Core' /\ Moved(AutoOpen, tries)
  BY TasksDiffer, CallKeeps DEF CardOpens, IInv, TypeHealth, Keeper, Keepers, Tasks
<1>2. TicksLeft' /\ TriesLeft' /\ Counted'
  BY <1>1, TasksDiffer, MovedKeeps DEF CardOpens, Keeper, Keepers, Tasks
<1>3. TypeHealth' /\ TypeKeeper' /\ TypeWatch'
  BY DEF CardOpens, IInv, TypeHealth, TypeKeeper, TypeWatch
<1>4. TypeUser'
  BY DEF CardOpens, IInv, TypeUser
<1>5. QED
  BY <1>1, <1>2, <1>3, <1>4 DEF IInv

\* SnapshotRenews keeps the invariant.
LEMMA SnapshotRenewsKeeps ==
  ASSUME IInv, SnapshotRenews
  PROVE  IInv'
<1>1. Core' /\ Moved(Snapshot, tries)
  BY TasksDiffer, CallKeeps DEF SnapshotRenews, IInv, TypeHealth, Keeper, Keepers, Tasks
<1>2. TicksLeft' /\ TriesLeft' /\ Counted'
  BY <1>1, TasksDiffer, MovedKeeps DEF SnapshotRenews, Keeper, Keepers, Tasks
<1>3. TypeHealth' /\ TypeKeeper' /\ TypeWatch'
  BY DEF SnapshotRenews, IInv, TypeHealth, TypeKeeper, TypeWatch
<1>4. TypeUser'
  BY DEF SnapshotRenews, IInv, TypeUser
<1>5. QED
  BY <1>1, <1>2, <1>3, <1>4 DEF IInv

\* KeeperRenews keeps the invariant.
LEMMA KeeperRenewsKeeps ==
  ASSUME IInv, NEW g \in 1..MaxStarts, KeeperRenews(g)
  PROVE  IInv'
<1>1. Core' /\ Moved(Keeper(g), tries)
  BY TasksDiffer, CallKeeps DEF KeeperRenews, IInv, TypeHealth, Keeper, Keepers, Tasks
<1>2. TicksLeft' /\ TriesLeft' /\ Counted'
  BY <1>1, TasksDiffer, MovedKeeps DEF KeeperRenews, Keeper, Keepers, Tasks
<1>3. TypeHealth' /\ TypeKeeper' /\ TypeWatch'
  BY DEF KeeperRenews, IInv, TypeHealth, TypeKeeper, TypeWatch
<1>4. TypeUser'
  BY DEF KeeperRenews, IInv, TypeUser
<1>5. QED
  BY <1>1, <1>2, <1>3, <1>4 DEF IInv

\* The tasks that ask for a teardown, and the rest of privacy mode.
LEMMA SwitchOffKeeps ==
  ASSUME IInv, SwitchOff
  PROVE  IInv'
<1>1. /\ Core' /\ Calmed /\ TypeKeeper' /\ intent' \in BOOLEAN
      /\ errCount' \in 0..MaxErrors /\ fellBack' \in BOOLEAN /\ rescued' \in BOOLEAN
  BY TasksDiffer, AskTeardownKeeps DEF SwitchOff, IInv, TypeUser, Reaps, Tasks
<1>2. TicksLeft' /\ TriesLeft' /\ Counted'
  BY <1>1, CalmedKeeps DEF SwitchOff
<1>3. TypeHealth' /\ TypeWatch'
  BY <1>1 DEF SwitchOff, IInv, TypeHealth, TypeWatch
<1>4. TypeUser'
  BY <1>1 DEF SwitchOff, IInv, TypeUser
<1>5. QED
  BY <1>1, <1>2, <1>3, <1>4 DEF IInv

\* GuardedTeardown keeps the invariant.
LEMMA GuardedTeardownKeeps ==
  ASSUME IInv, NEW g \in 1..MaxStarts, GuardedTeardown(g)
  PROVE  IInv'
<1>1. /\ Core' /\ Calmed /\ TypeKeeper' /\ intent' \in BOOLEAN
      /\ errCount' \in 0..MaxErrors /\ fellBack' \in BOOLEAN /\ rescued' \in BOOLEAN
  BY TasksDiffer, AskTeardownKeeps DEF GuardedTeardown, IInv, TypeUser, Reaps, Tasks
<1>2. TicksLeft' /\ TriesLeft' /\ Counted'
  BY <1>1, CalmedKeeps DEF GuardedTeardown
<1>3. TypeHealth' /\ TypeWatch'
  BY <1>1 DEF GuardedTeardown, IInv, TypeHealth, TypeWatch
<1>4. TypeUser'
  BY <1>1 DEF GuardedTeardown, IInv, TypeUser
<1>5. QED
  BY <1>1, <1>2, <1>3, <1>4 DEF IInv

\* StaleWarmingCleared keeps the invariant.
LEMMA StaleWarmingClearedKeeps ==
  ASSUME IInv, StaleWarmingCleared
  PROVE  IInv'
<1>1. Core'
  BY DEF StaleWarmingCleared, IInv, Core, TypeLock, SchemesAsked, Candidates, Progress,
     NobodyBuilds, Settles, Settled
<1>2. TypeHealth' /\ TypeKeeper' /\ TypeWatch'
  BY DEF StaleWarmingCleared, IInv, TypeHealth, TypeKeeper, TypeWatch
<1>3. TypeUser'
  BY DEF StaleWarmingCleared, IInv, TypeUser
<1>4. TicksLeft' /\ TriesLeft' /\ Counted'
  BY DEF StaleWarmingCleared, IInv, Core, TypeLock, TicksLeft, TriesLeft, Counted
<1>5. QED
  BY <1>1, <1>2, <1>3, <1>4 DEF IInv

\* PrivacyWritten keeps the invariant.
LEMMA PrivacyWrittenKeeps ==
  ASSUME IInv, PrivacyWritten
  PROVE  IInv'
<1>1. Core'
  BY TasksDiffer DEF PrivacyWritten, IInv, Core, TypeLock, SchemesAsked, Candidates,
     Progress, NobodyBuilds, Settles, Settled, PCs
<1>2. TypeHealth' /\ TypeKeeper' /\ TypeWatch'
  BY TasksDiffer DEF PrivacyWritten, IInv, TypeHealth, TypeKeeper, TypeWatch, PCs
<1>3. TypeUser'
  BY DEF PrivacyWritten, IInv, TypeUser
<1>4. TicksLeft' /\ TriesLeft' /\ Counted'
  BY TasksDiffer DEF PrivacyWritten, IInv, Core, TypeLock, TicksLeft, TriesLeft,
     Counted, PCs
<1>5. QED
  BY <1>1, <1>2, <1>3, <1>4 DEF IInv

\* PrivacyOff keeps the invariant.
LEMMA PrivacyOffKeeps ==
  ASSUME IInv, PrivacyOff
  PROVE  IInv'
<1>1. Core'
  BY DEF PrivacyOff, IInv, Core, TypeLock, SchemesAsked, Candidates, Progress,
     NobodyBuilds, Settles, Settled
<1>2. TypeHealth' /\ TypeKeeper' /\ TypeWatch'
  BY DEF PrivacyOff, IInv, TypeHealth, TypeKeeper, TypeWatch
<1>3. TypeUser'
  BY DEF PrivacyOff, IInv, TypeUser
<1>4. TicksLeft' /\ TriesLeft' /\ Counted'
  BY DEF PrivacyOff, IInv, Core, TypeLock, TicksLeft, TriesLeft, Counted
<1>5. QED
  BY <1>1, <1>2, <1>3, <1>4 DEF IInv

\* The keepalive, the terminator and the reaper.
LEMMA KeeperLeavesKeeps ==
  ASSUME IInv, NEW g \in 1..MaxStarts, KeeperLeaves(g)
  PROVE  IInv'
<1>1. Core'
  BY TasksDiffer DEF KeeperLeaves, IInv, Core, TypeLock, SchemesAsked, Candidates,
     Progress, NobodyBuilds, Settles, Settled, PCs, KeeperEnds, Keeper, Asleep, Keepers,
     Reaps, Tasks
<1>2. TypeHealth' /\ TypeKeeper' /\ TypeWatch'
  BY TasksDiffer DEF KeeperLeaves, IInv, TypeHealth, TypeKeeper, TypeWatch, PCs,
     KeeperEnds, Keeper, Asleep, Keepers, Reaps, Tasks
<1>3. TypeUser'
  BY DEF KeeperLeaves, IInv, TypeUser
<1>4. TicksLeft' /\ TriesLeft' /\ Counted'
  BY TasksDiffer DEF KeeperLeaves, IInv, Core, TypeLock, TicksLeft, TriesLeft, Counted,
     PCs, KeeperEnds, Keeper, Asleep, Keepers, Reaps, Tasks
<1>5. QED
  BY <1>1, <1>2, <1>3, <1>4 DEF IInv

\* TerminatorFires keeps the invariant.
LEMMA TerminatorFiresKeeps ==
  ASSUME IInv, NEW g \in 1..MaxStarts, TerminatorFires(g)
  PROVE  IInv'
<1>1. Core'
  BY TasksDiffer, ZenonT(60) DEF TerminatorFires, IInv, Core, TypeLock, SchemesAsked, Candidates,
     Progress, NobodyBuilds, Settles, Settled, PCs, KeeperEnds, Keeper, Asleep, Keepers,
     Reaps, Tasks
<1>2. TypeHealth' /\ TypeKeeper' /\ TypeWatch'
  BY TasksDiffer DEF TerminatorFires, IInv, TypeHealth, TypeKeeper, TypeWatch, PCs,
     KeeperEnds, Keeper, Asleep, Keepers, Reaps, Tasks
<1>3. TypeUser'
  BY DEF TerminatorFires, IInv, TypeUser
<1>4. TicksLeft' /\ TriesLeft' /\ Counted'
  BY TasksDiffer DEF TerminatorFires, IInv, Core, TypeLock, TicksLeft, TriesLeft,
     Counted, PCs, KeeperEnds, Keeper, Asleep, Keepers, Reaps, Tasks
<1>5. QED
  BY <1>1, <1>2, <1>3, <1>4 DEF IInv

\* ReaperChecks keeps the invariant.
LEMMA ReaperChecksKeeps ==
  ASSUME IInv, NEW g \in 1..MaxStarts, ReaperChecks(g)
  PROVE  IInv'
<1>1. Core'
  BY TasksDiffer DEF ReaperChecks, IInv, Core, TypeLock, SchemesAsked, Candidates,
     Progress, NobodyBuilds, Settles, Settled, PCs, KeeperEnds, Keeper, Asleep, Keepers,
     Reaps, Tasks
<1>2. TypeHealth' /\ TypeKeeper' /\ TypeWatch'
  BY TasksDiffer DEF ReaperChecks, IInv, TypeHealth, TypeKeeper, TypeWatch, PCs,
     KeeperEnds, Keeper, Asleep, Keepers, Reaps, Tasks
<1>3. TypeUser'
  BY DEF ReaperChecks, IInv, TypeUser
<1>4. TicksLeft' /\ TriesLeft' /\ Counted'
  BY TasksDiffer DEF ReaperChecks, IInv, Core, TypeLock, TicksLeft, TriesLeft, Counted,
     PCs, KeeperEnds, Keeper, Asleep, Keepers, Reaps, Tasks
<1>5. QED
  BY <1>1, <1>2, <1>3, <1>4 DEF IInv

\* ReaperDecides keeps the invariant.
LEMMA ReaperDecidesKeeps ==
  ASSUME IInv, NEW g \in 1..MaxStarts, ReaperDecides(g)
  PROVE  IInv'
<1>1. Core'
  BY TasksDiffer DEF ReaperDecides, IInv, Core, TypeLock, SchemesAsked, Candidates,
     Progress, NobodyBuilds, Settles, Settled, PCs, KeeperEnds, Keeper, Asleep, Keepers,
     Reaps, Tasks
<1>2. TypeHealth' /\ TypeKeeper' /\ TypeWatch'
  BY TasksDiffer DEF ReaperDecides, IInv, TypeHealth, TypeKeeper, TypeWatch, PCs,
     KeeperEnds, Keeper, Asleep, Keepers, Reaps, Tasks
<1>3. TypeUser'
  BY DEF ReaperDecides, IInv, TypeUser
<1>4. TicksLeft' /\ TriesLeft' /\ Counted'
  BY TasksDiffer DEF ReaperDecides, IInv, Core, TypeLock, TicksLeft, TriesLeft, Counted,
     PCs, KeeperEnds, Keeper, Asleep, Keepers, Reaps, Tasks
<1>5. QED
  BY <1>1, <1>2, <1>3, <1>4 DEF IInv

\* ProxyDies keeps the invariant.
LEMMA ProxyDiesKeeps ==
  ASSUME IInv, ProxyDies
  PROVE  IInv'
<1>1. Core'
  BY TasksDiffer DEF ProxyDies, IInv, Core, TypeLock, SchemesAsked, Candidates,
     Progress, NobodyBuilds, Settles, Settled, PCs
<1>2. TypeHealth' /\ TypeKeeper' /\ TypeWatch'
  BY TasksDiffer DEF ProxyDies, IInv, TypeHealth, TypeKeeper, TypeWatch, PCs
<1>3. TypeUser'
  BY DEF ProxyDies, IInv, TypeUser
<1>4. TicksLeft' /\ TriesLeft' /\ Counted'
  BY TasksDiffer DEF ProxyDies, IInv, Core, TypeLock, TicksLeft, TriesLeft, Counted, PCs
<1>5. QED
  BY <1>1, <1>2, <1>3, <1>4 DEF IInv

\* The waiters of the stream lock.
LEMMA AcquireKeeps ==
  ASSUME IInv, NEW t \in Tasks, Acquire(t)
  PROVE  IInv'
<1>1. owner = NoTask /\ waiters' \in Seq(Tasks)
  BY DEF Acquire, IInv, Core, TypeLock
<1>2. CASE Teardown(t)
  <2>1. /\ Core' /\ Calmed /\ TypeKeeper' /\ intent' \in BOOLEAN
        /\ errCount' \in 0..MaxErrors /\ fellBack' \in BOOLEAN /\ rescued' \in BOOLEAN
    BY <1>1, <1>2, EnterTeardownKeeps DEF Acquire
  <2>2. TicksLeft' /\ TriesLeft' /\ Counted'
    BY <2>1, CalmedKeeps DEF Acquire
  <2>3. TypeHealth' /\ TypeWatch'
    BY <2>1 DEF Acquire, IInv, TypeHealth, TypeWatch
  <2>4. TypeUser'
    BY <2>1 DEF Acquire, IInv, TypeUser
  <2>5. QED
    BY <2>1, <2>2, <2>3, <2>4 DEF IInv
<1>3. CASE ~Teardown(t)
  <2>1. EnterBuild(t, live) /\ UNCHANGED <<intent, healthVars, keeperVars, starts>>
    BY <1>3 DEF Acquire
  <2>2. live' \in {live, NoLive} /\ live' \in LiveType /\ live'.gen \in {live.gen, 0}
    BY <2>1, EmptyRecords DEF EnterBuild, IInv, Core, TypeLock
  <2>3. TypeLock'
    BY <1>1, <2>1, <2>2, EmptyRecords DEF EnterBuild, IInv, Core, TypeLock, PCs
  <2>4. SchemesAsked' /\ Candidates' /\ Progress'
    BY <1>3, <2>1, EmptyRecords, TasksDiffer DEF EnterBuild, IInv, Core, TypeLock,
       SchemesAsked, Candidates, Progress, NobodyBuilds, None
  <2>5. Settles'
    BY <1>1, <2>1, <2>2 DEF EnterBuild, IInv, Core, Progress, NobodyBuilds, Settles,
       Settled, None
  <2>6. TicksLeft' /\ TriesLeft' /\ Counted'
    BY <2>1, <2>2, TasksDiffer DEF Acquire, EnterBuild, IInv, Core, TypeLock,
       LiveType, TypeKeeper, TicksLeft, TriesLeft, Counted
  <2>7. TypeHealth' /\ TypeKeeper' /\ TypeWatch'
    BY <2>1 DEF Acquire, IInv, TypeHealth, TypeKeeper, TypeWatch
  <2>8. TypeUser'
    BY <2>1 DEF Acquire, IInv, TypeUser
  <2>9. QED
    BY <2>3, <2>4, <2>5, <2>6, <2>7, <2>8 DEF Core, IInv
<1>4. QED
  BY <1>2, <1>3

\* SchemesFresh keeps the invariant.
LEMMA SchemesFreshKeeps ==
  ASSUME IInv, NEW t \in Tasks, SchemesFresh(t)
  PROVE  IInv'
<1>1. ~Teardown(t) /\ AskBuild(t, live) /\ starts' = starts
  BY DEF SchemesFresh, IInv, Core, SchemesAsked
<1>2. TypeHealth' /\ TypeKeeper' /\ TypeWatch'
  BY DEF SchemesFresh, IInv, TypeHealth, TypeKeeper, TypeWatch
<1>3. TypeUser'
  BY DEF SchemesFresh, IInv, TypeUser
<1>4. CASE Free /\ EnterBuild(t, live) /\ UNCHANGED waiters
  <2>2. live' \in {live, NoLive} /\ live' \in LiveType /\ live'.gen \in {live.gen, 0}
    BY <1>4, EmptyRecords DEF EnterBuild, IInv, Core, TypeLock
  <2>3. TypeLock'
    BY <1>1, <1>4, <2>2, EmptyRecords DEF EnterBuild, IInv, Core, TypeLock, PCs
  <2>4. SchemesAsked' /\ Candidates' /\ Progress'
    BY <1>1, <1>4, EmptyRecords, TasksDiffer DEF EnterBuild, IInv, Core, TypeLock,
       SchemesAsked, Candidates, Progress, NobodyBuilds, None
  <2>5. Settles'
    BY <1>4, <2>2 DEF Free, EnterBuild, IInv, Core, Progress, NobodyBuilds, Settles,
       Settled, None
  <2>6. TicksLeft' /\ TriesLeft' /\ Counted'
    BY <1>4, <2>2, TasksDiffer DEF SchemesFresh, EnterBuild, IInv, Core, TypeLock,
       LiveType, TypeKeeper, TicksLeft, TriesLeft, Counted
  <2>9. QED
    BY <1>2, <1>3, <2>3, <2>4, <2>5, <2>6 DEF Core, IInv
<1>5. CASE Wait(t) /\ live' = live /\ UNCHANGED <<owner, build, warming>>
  <2>1. Core'
    BY <1>1, <1>5 DEF Wait, IInv, Core, TypeLock, SchemesAsked, Candidates, Progress,
       NobodyBuilds, Settles, Settled, PCs
  <2>2. TicksLeft' /\ TriesLeft' /\ Counted'
    BY <1>5 DEF SchemesFresh, Wait, IInv, Core, TypeLock, TicksLeft, TriesLeft, Counted
  <2>3. QED
    BY <1>2, <1>3, <2>1, <2>2 DEF IInv
<1>6. QED
  BY <1>1, <1>4, <1>5 DEF AskBuild

\* TeardownEnds keeps the invariant.
LEMMA TeardownEndsKeeps ==
  ASSUME IInv, NEW t \in Tasks, TeardownEnds(t)
  PROVE  IInv'
<1>1. pc' = [pc EXCEPT ![t] = pc'[t]] /\ pc'[t] \in {"writing", "done", "idle"}
  BY DEF TeardownEnds, IInv, Core, TypeLock
<1>2. Core'
  BY <1>1 DEF TeardownEnds, IInv, Core, TypeLock, SchemesAsked, Candidates, Progress,
     NobodyBuilds, Settles, Settled, PCs
<1>3. TypeHealth' /\ TypeKeeper' /\ TypeWatch'
  BY DEF TeardownEnds, IInv, TypeHealth, TypeKeeper, TypeWatch
<1>4. TypeUser'
  BY DEF TeardownEnds, IInv, TypeUser
<1>5. TicksLeft' /\ TriesLeft' /\ Counted'
  BY <1>1 DEF TeardownEnds, IInv, Core, TypeLock, TicksLeft, TriesLeft, Counted
<1>6. QED
  BY <1>2, <1>3, <1>4, <1>5 DEF IInv

\* KeeperUnwinds keeps the invariant.
LEMMA KeeperUnwindsKeeps ==
  ASSUME IInv, NEW g \in 1..MaxStarts, KeeperUnwinds(g)
  PROVE  IInv'
<1>0. waiters' \in Seq(Tasks)
  <2>1. CASE UNCHANGED waiters
    BY <2>1 DEF IInv, Core, TypeLock
  <2>2. CASE \E i \in 1..Len(waiters) :
               waiters' = SubSeq(waiters, 1, i - 1) \o SubSeq(waiters, i + 1, Len(waiters))
    <3>1. PICK i \in 1..Len(waiters) :
               waiters' = SubSeq(waiters, 1, i - 1) \o SubSeq(waiters, i + 1, Len(waiters))
      BY <2>2
    <3>2. waiters \in Seq(Tasks)
      BY DEF IInv, Core, TypeLock
    <3>3. SubSeq(waiters, 1, i - 1) \in Seq(Tasks) /\ SubSeq(waiters, i + 1, Len(waiters)) \in Seq(Tasks)
      BY <3>2, SubSeqProperties, LenProperties
    <3>4. QED
      BY <3>1, <3>3, ConcatProperties
  <2>3. QED
    BY <2>1, <2>2 DEF KeeperUnwinds
<1>1. Core'
  BY <1>0 DEF KeeperUnwinds, KeeperEnds, IInv, Core, TypeLock, SchemesAsked, Candidates,
     Progress, NobodyBuilds, Settles, Settled, PCs
<1>2. TypeHealth' /\ TypeKeeper' /\ TypeWatch'
  BY DEF KeeperUnwinds, KeeperEnds, IInv, TypeHealth, TypeKeeper, TypeWatch
<1>3. TypeUser'
  BY DEF KeeperUnwinds, IInv, TypeUser
<1>4. TicksLeft' /\ TriesLeft' /\ Counted'
  BY TasksDiffer DEF KeeperUnwinds, KeeperEnds, Keeper, IInv, Core, TypeLock, TicksLeft,
     TriesLeft, Counted
<1>5. QED
  BY <1>1, <1>2, <1>3, <1>4 DEF IInv

\* PrivacyOnRequested keeps the invariant.
LEMMA PrivacyOnRequestedKeeps ==
  ASSUME IInv, PrivacyOnRequested
  PROVE  IInv'
<1>1. TypeWatch' /\ tries' = tries /\ proxyUp' \in BOOLEAN /\ rebuiltOnce' \in BOOLEAN
      /\ privacy' \in BOOLEAN /\ lastAsk' \in {"on", "off"}
  BY DEF PrivacyOnRequested, IInv, TypeWatch, TypeUser
<1>2. CASE live # NoLive
  <2>1. /\ Core' /\ Calmed /\ TypeKeeper' /\ intent' \in BOOLEAN
        /\ errCount' \in 0..MaxErrors /\ fellBack' \in BOOLEAN /\ rescued' \in BOOLEAN
    BY <1>2, TasksDiffer, AskTeardownKeeps DEF PrivacyOnRequested, IInv, TypeUser
  <2>2. TicksLeft' /\ TriesLeft' /\ Counted'
    BY <2>1, CalmedKeeps DEF PrivacyOnRequested
  <2>3. QED
    BY <1>1, <2>1, <2>2 DEF IInv, TypeHealth, TypeUser
<1>3. CASE live = NoLive
  <2>1. Core'
    BY <1>3, TasksDiffer DEF PrivacyOnRequested, IInv, Core, TypeLock, SchemesAsked,
       Candidates, Progress, NobodyBuilds, Settles, Settled, PCs
  <2>2. TypeHealth' /\ TypeKeeper'
    BY <1>3 DEF PrivacyOnRequested, IInv, TypeHealth, TypeKeeper
  <2>3. intent' \in BOOLEAN
    BY <1>3 DEF PrivacyOnRequested, IInv, TypeUser
  <2>4. TicksLeft' /\ TriesLeft' /\ Counted'
    BY <1>3, TasksDiffer DEF PrivacyOnRequested, IInv, Core, TypeLock, TicksLeft,
       TriesLeft, Counted
  <2>5. QED
    BY <1>1, <2>1, <2>2, <2>3, <2>4 DEF IInv, TypeUser
<1>4. QED
  BY <1>2, <1>3

\* PrivacyDetected keeps the invariant.
LEMMA PrivacyDetectedKeeps ==
  ASSUME IInv, PrivacyDetected
  PROVE  IInv'
<1>1. TypeWatch' /\ tries' = tries /\ proxyUp' \in BOOLEAN /\ rebuiltOnce' \in BOOLEAN
      /\ privacy' \in BOOLEAN /\ lastAsk' \in {"on", "off"}
  BY DEF PrivacyDetected, IInv, TypeWatch, TypeUser
<1>2. CASE live # NoLive
  <2>1. /\ Core' /\ Calmed /\ TypeKeeper' /\ intent' \in BOOLEAN
        /\ errCount' \in 0..MaxErrors /\ fellBack' \in BOOLEAN /\ rescued' \in BOOLEAN
    BY <1>2, TasksDiffer, AskTeardownKeeps DEF PrivacyDetected, IInv, TypeUser
  <2>2. TicksLeft' /\ TriesLeft' /\ Counted'
    BY <2>1, CalmedKeeps DEF PrivacyDetected
  <2>3. QED
    BY <1>1, <2>1, <2>2 DEF IInv, TypeHealth, TypeUser
<1>3. CASE live = NoLive
  <2>1. Core'
    BY <1>3, TasksDiffer DEF PrivacyDetected, IInv, Core, TypeLock, SchemesAsked,
       Candidates, Progress, NobodyBuilds, Settles, Settled, PCs
  <2>2. TypeHealth' /\ TypeKeeper'
    BY <1>3 DEF PrivacyDetected, IInv, TypeHealth, TypeKeeper
  <2>3. intent' \in BOOLEAN
    BY <1>3 DEF PrivacyDetected, IInv, TypeUser
  <2>4. TicksLeft' /\ TriesLeft' /\ Counted'
    BY <1>3, TasksDiffer DEF PrivacyDetected, IInv, Core, TypeLock, TicksLeft,
       TriesLeft, Counted
  <2>5. QED
    BY <1>1, <2>1, <2>2, <2>3, <2>4 DEF IInv, TypeUser
<1>4. QED
  BY <1>2, <1>3

\* The tasks that build only if what they find calls for it.
LEMMA LanReachableKeeps ==
  ASSUME IInv, LanReachable
  PROVE  IInv'
<1>0. errCount' = 0 /\ fellBack' = FALSE /\ rescued' = rescued /\ tries' = tries
  BY DEF LanReachable
<1>1. TypeHealth' /\ TypeKeeper' /\ TypeWatch'
  <2>1. TypeHealth'
    <3>1. errCount' \in 0..MaxErrors /\ tries' \in 0..3
      BY <1>0 DEF IInv, TypeHealth
    <3>2. fellBack' \in BOOLEAN /\ rescued' \in BOOLEAN
      BY <1>0 DEF IInv, TypeHealth
    <3>3. QED
      BY <3>1, <3>2 DEF TypeHealth
  <2>2. TypeKeeper' /\ TypeWatch'
    BY DEF LanReachable, IInv, TypeKeeper, TypeWatch
  <2>3. QED
    BY <2>1, <2>2
<1>2. TypeUser'
  BY DEF LanReachable, IInv, TypeUser
<1>3. CASE UNCHANGED <<live, warming, pc, lockVars, starts>>
  <2>1. Core'
    BY <1>3 DEF IInv, Core, TypeLock, SchemesAsked, Candidates, Progress,
       NobodyBuilds, Settles, Settled
  <2>2. TicksLeft' /\ TriesLeft' /\ Counted'
    BY <1>3 DEF LanReachable, IInv, TicksLeft, TriesLeft, Counted
  <2>3. QED
    BY <1>1, <1>2, <2>1, <2>2 DEF IInv
<1>4. CASE Call(Promote, live, tries)
  <2>1. Core' /\ Moved(Promote, tries)
    BY <1>4, TasksDiffer, CallKeeps DEF IInv, TypeHealth
  <2>2. TicksLeft' /\ TriesLeft' /\ Counted'
    BY <2>1, TasksDiffer, MovedKeeps DEF LanReachable
  <2>3. QED
    BY <1>1, <1>2, <2>1, <2>2 DEF IInv
<1>5. QED
  BY <1>3, <1>4 DEF LanReachable

\* WatchdogRestarts keeps the invariant.
LEMMA WatchdogRestartsKeeps ==
  ASSUME IInv, WatchdogRestarts
  PROVE  IInv'
<1>1. TypeHealth' /\ TypeKeeper' /\ TypeWatch'
  BY DEF WatchdogRestarts, IInv, TypeHealth, TypeKeeper, TypeWatch
<1>2. TypeUser'
  BY DEF WatchdogRestarts, IInv, TypeUser
<1>3. CASE WatchdogDone /\ UNCHANGED <<live, warming, lockVars, starts>>
  <2>1. Core'
    BY <1>3 DEF WatchdogDone, IInv, Core, TypeLock, SchemesAsked, Candidates,
       Progress, NobodyBuilds, Settles, Settled, PCs
  <2>2. TicksLeft' /\ TriesLeft' /\ Counted'
    BY <1>3, TasksDiffer DEF WatchdogDone, WatchdogRestarts, IInv, Core, TypeLock,
       TicksLeft, TriesLeft, Counted
  <2>3. QED
    BY <1>1, <1>2, <2>1, <2>2 DEF IInv
<1>4. CASE Call(Watchdog, live, tries)
  <2>1. Core' /\ Moved(Watchdog, tries)
    BY <1>4, TasksDiffer, CallKeeps DEF IInv, TypeHealth
  <2>2. TicksLeft' /\ TriesLeft' /\ Counted'
    BY <2>1, TasksDiffer, MovedKeeps DEF WatchdogRestarts
  <2>3. QED
    BY <1>1, <1>2, <2>1, <2>2 DEF IInv
<1>5. QED
  BY <1>3, <1>4 DEF WatchdogRestarts

\* DiedRebuilds keeps the invariant.
LEMMA DiedRebuildsKeeps ==
  ASSUME IInv, DiedRebuilds
  PROVE  IInv'
<1>1. TypeHealth' /\ TypeKeeper' /\ TypeWatch'
  BY DEF DiedRebuilds, IInv, TypeHealth, TypeKeeper, TypeWatch
<1>2. TypeUser'
  BY DEF DiedRebuilds, IInv, TypeUser
<1>3. CASE pc' = [pc EXCEPT ![Died] = "idle"] /\ UNCHANGED <<live, warming, lockVars, starts>>
  <2>1. Core'
    BY <1>3 DEF IInv, Core, TypeLock, SchemesAsked, Candidates, Progress,
       NobodyBuilds, Settles, Settled, PCs
  <2>2. TicksLeft' /\ TriesLeft' /\ Counted'
    BY <1>3, TasksDiffer DEF DiedRebuilds, IInv, Core, TypeLock, TicksLeft, TriesLeft,
       Counted
  <2>3. QED
    BY <1>1, <1>2, <2>1, <2>2 DEF IInv
<1>4. CASE Call(Died, live, tries)
  <2>1. Core' /\ Moved(Died, tries)
    BY <1>4, TasksDiffer, CallKeeps DEF IInv, TypeHealth
  <2>2. TicksLeft' /\ TriesLeft' /\ Counted'
    BY <2>1, TasksDiffer, MovedKeeps DEF DiedRebuilds
  <2>3. QED
    BY <1>1, <1>2, <2>1, <2>2 DEF IInv
<1>5. QED
  BY <1>3, <1>4 DEF DiedRebuilds

\* RescueRetries keeps the invariant.
LEMMA RescueRetriesKeeps ==
  ASSUME IInv, RescueRetries
  PROVE  IInv'
<1>0. tries' = tries + 1 /\ tries' \in 0..3
  BY DEF RescueRetries, IInv, TriesLeft
<1>1. TypeHealth' /\ TypeKeeper' /\ TypeWatch'
  BY <1>0 DEF RescueRetries, IInv, TypeHealth, TypeKeeper, TypeWatch
<1>2. TypeUser'
  BY DEF RescueRetries, IInv, TypeUser
<1>3. Core' /\ Moved(Worker, tries')
  BY <1>0, TasksDiffer, CallKeeps DEF RescueRetries, IInv
<1>4. TicksLeft' /\ TriesLeft' /\ Counted'
  BY <1>3, TasksDiffer, MovedKeeps DEF RescueRetries
<1>5. QED
  BY <1>1, <1>2, <1>3, <1>4 DEF IInv

\* WorkerError keeps the invariant.
LEMMA WorkerErrorKeeps ==
  ASSUME IInv, NEW auth \in BOOLEAN, NEW decayed \in BOOLEAN, WorkerError(auth, decayed)
  PROVE  IInv'
<1>1. tries' \in {0, 1} /\ errCount' \in 0..MaxErrors
  BY DEF WorkerError, IInv, TypeHealth, Bump
<1>2. fellBack' \in BOOLEAN /\ rescued' \in BOOLEAN
  BY DEF WorkerError, IInv, TypeHealth
<1>3. TypeKeeper' /\ TypeWatch'
  BY DEF WorkerError, IInv, TypeKeeper, TypeWatch
<1>4. TypeUser'
  BY DEF WorkerError, IInv, TypeUser
<1>5. CASE UNCHANGED <<live, warming, pc, lockVars, starts>>
  <2>1. Core'
    BY <1>5 DEF IInv, Core, TypeLock, SchemesAsked, Candidates, Progress,
       NobodyBuilds, Settles, Settled
  <2>2. TicksLeft' /\ TriesLeft' /\ Counted'
    BY <1>5 DEF WorkerError, IInv, TicksLeft, TriesLeft, Counted
  <2>3. QED
    BY <1>1, <1>2, <1>3, <1>4, <2>1, <2>2 DEF IInv, TypeHealth
<1>6. CASE \E l \in {live, NoLive} : Call(Worker, l, tries')
  <2>1. Core' /\ Moved(Worker, tries')
    BY <1>1, <1>6, TasksDiffer, CallKeeps DEF IInv
  <2>2. TicksLeft' /\ TriesLeft' /\ Counted'
    BY <2>1, TasksDiffer, MovedKeeps DEF WorkerError
  <2>3. QED
    BY <1>1, <1>2, <1>3, <1>4, <2>1, <2>2 DEF IInv, TypeHealth
<1>7. QED
  BY <1>5, <1>6 DEF WorkerError

\* The health watchdog looks at the session.
LEMMA WatchdogTickKeeps ==
  ASSUME IInv, WatchdogTick
  PROVE  IInv'
<1>1. /\ tick \in {0, 1} /\ tick' = tick + 1
      /\ pc' = [pc EXCEPT ![Watchdog] = pc'[Watchdog]] /\ pc'[Watchdog] \in {"sleep", "idle", "stopping"}
      /\ pc'[Watchdog] = "sleep" => tick = 0
  BY TasksDiffer DEF WatchdogTick, WatchdogDone, WatchdogSleeps, IInv, Core, TypeLock,
     TypeWatch, TicksLeft
<1>2. live' \in {live, NoLive} /\ live' \in LiveType /\ live'.gen \in {live.gen, 0}
  BY EmptyRecords DEF WatchdogTick, IInv, Core, TypeLock
<1>3. Core'
  BY <1>1, <1>2, TasksDiffer DEF WatchdogTick, IInv, Core, TypeLock, SchemesAsked,
     Candidates, Progress, NobodyBuilds, Settles, Settled, PCs
<1>4. errCount' \in 0..MaxErrors
  BY DEF WatchdogTick, IInv, TypeHealth, Bump
<1>5. fellBack' \in BOOLEAN /\ rescued' \in BOOLEAN /\ tries' \in 0..3
  BY DEF WatchdogTick, IInv, TypeHealth
<1>6. TypeUser'
  BY DEF WatchdogTick, IInv, TypeUser
<1>7. TypeKeeper'
  BY DEF WatchdogTick, IInv, TypeKeeper
<1>8. watched' \in Nat /\ tick' \in 0..2
  BY <1>1 DEF WatchdogTick, IInv, TypeKeeper, TypeWatch
<1>9. sawConsumer' \in BOOLEAN
  BY DEF WatchdogTick, IInv, TypeWatch
<1>10. TicksLeft' /\ TriesLeft' /\ Counted'
  BY <1>1, <1>2, TasksDiffer DEF WatchdogTick, IInv, Core, TypeLock, LiveType,
     TypeKeeper, TicksLeft, TriesLeft, Counted
<1>11. QED
  BY <1>3, <1>4, <1>5, <1>6, <1>7, <1>8, <1>9, <1>10 DEF IInv, TypeHealth, TypeWatch

\* Whoever is building is a task, and has candidates once it has chosen them.
LEMMA Builder ==
  ASSUME IInv, NEW s \in Steps \ {None}, Building(s)
  PROVE  /\ owner \in Tasks /\ ~Teardown(owner) /\ NobodyBuilds = FALSE /\ build.step = s
         /\ s # "begin" => /\ build.todo \in Seq({"LOCAL", "REMOTE"}) /\ build.todo # <<>>
                           /\ Candidate \in {"LOCAL", "REMOTE"}
                           /\ Tail(build.todo) \in Seq({"LOCAL", "REMOTE"})
<1>1. build.step = s /\ owner \in Tasks /\ ~Teardown(owner) /\ NobodyBuilds = FALSE
  BY DEF Building, IInv, Core, TypeLock, Progress, NobodyBuilds
<1>2. CASE s # "begin"
  <2>1. build.todo \in Seq({"LOCAL", "REMOTE"}) /\ build.todo # <<>>
    BY <1>1, <1>2 DEF IInv, Core, TypeLock, BuildType, Candidates
  <2>2. QED
    BY <1>1, <2>1, HeadTailProperties DEF Candidate
<1>3. QED
  BY <1>1, <1>2

\* A sequence that has two elements keeps one.
LEMMA Predecessor == \A m \in Nat : \A k : m > 1 /\ k = m - 1 => k # 0
OBVIOUS

\* The steps of a build.
LEMMA NextCandidateKeeps ==
  ASSUME IInv, NEW s \in {"put", "cleanup", "fallback"}, Building(s), NextCandidate,
         UNCHANGED <<starts, warming, keeperVars, tries, watchVars>>
  PROVE  /\ Core' /\ TicksLeft' /\ TriesLeft' /\ Counted'
         /\ intent' \in BOOLEAN /\ errCount' \in 0..MaxErrors
<1>0. /\ owner \in Tasks /\ ~Teardown(owner) /\ NobodyBuilds = FALSE /\ build.step = s
      /\ build.todo \in Seq({"LOCAL", "REMOTE"}) /\ build.todo # <<>>
      /\ Tail(build.todo) \in Seq({"LOCAL", "REMOTE"})
  BY Builder DEF Steps, None
<1>1. CASE Len(build.todo) > 1 /\ build' = [build EXCEPT !.step = "put", !.todo = Tail(@)]
           /\ UNCHANGED <<owner, waiters, pc, live, intent, errCount>>
  <2>1. Tail(build.todo) # <<>>
    <3>1. Len(build.todo) \in Nat /\ Len(Tail(build.todo)) = Len(build.todo) - 1
      BY <1>0, HeadTailProperties, LenProperties
    <3>2. Len(<<>>) = 0
      BY EmptySeq
    <3>0. Len(build.todo) > 1
      BY <1>1
    <3>3. Len(Tail(build.todo)) # 0
      BY <3>0, <3>1, Predecessor, Zenon
    <3>4. QED
      BY <3>2, <3>3
  <2>2. build' \in BuildType /\ build'.step = "put" /\ build'.todo # <<>>
    BY <1>0, <1>1, <2>1 DEF IInv, Core, TypeLock, BuildType, Steps
  <2>3. Core'
    BY <1>0, <1>1, <2>2 DEF IInv, Core, TypeLock, SchemesAsked, Candidates, Progress,
       NobodyBuilds, Settles, Settled, None
  <2>4. QED
    BY <1>1, <2>3 DEF IInv, TicksLeft, TriesLeft, Counted, TypeHealth, TypeUser
<1>2. CASE BuildFails
  <2>1. /\ Core' /\ live'.gen \in {live.gen, 0} /\ intent' \in BOOLEAN /\ errCount' \in 0..MaxErrors
        /\ \A x \in Tasks \ {owner} : pc'[x] = pc[x]
        /\ pc'[owner] = "sleep" => owner \in Keepers \/ tick < 2
        /\ pc'[owner] = "retry" => owner = Worker /\ tries \in {1, 2}
    BY <1>0, <1>2, BuildFailsKeeps
  <2>2. QED
    BY <1>0, <2>1, TasksDiffer DEF IInv, Core, TypeLock, LiveType, TypeKeeper,
       TicksLeft, TriesLeft, Counted
<1>3. QED
  BY <1>1, <1>2 DEF NextCandidate

\* PutAccepted keeps the invariant.
LEMMA PutAcceptedKeeps ==
  ASSUME IInv, PutAccepted
  PROVE  IInv'
<1>1. /\ owner \in Tasks /\ ~Teardown(owner) /\ NobodyBuilds = FALSE /\ build.step = "put"
      /\ build.todo \in Seq({"LOCAL", "REMOTE"}) /\ build.todo # <<>> /\ Candidate \in {"LOCAL", "REMOTE"}
  <2>1. Building("put") /\ "put" \in Steps \ {None} /\ "put" # "begin"
    BY DEF PutAccepted, Steps, None
  <2>2. QED
    BY <2>1, Builder
<1>2. live' \in LiveType /\ live'.gen \in {live.gen, 0}
  BY <1>1, EmptyRecords DEF PutAccepted, PrewarmFailed, IInv, Core, TypeLock, LiveType,
     Types, None
<1>3. TypeLock'
  BY <1>1, <1>2 DEF PutAccepted, PrewarmFailed, Goes, IInv, Core, TypeLock, BuildType,
     Steps
<1>4. SchemesAsked' /\ Candidates' /\ Progress'
  BY <1>1 DEF PutAccepted, PrewarmFailed, Goes, IInv, Core, TypeLock, BuildType,
     SchemesAsked, Candidates, Progress, NobodyBuilds, None
<1>5. Settles'
  BY <1>1, EmptyRecords DEF PutAccepted, PrewarmFailed, Goes, IInv, Core, TypeLock,
     BuildType, Settles, Settled
<1>6. TypeHealth' /\ TypeKeeper' /\ TypeWatch'
  BY DEF PutAccepted, PrewarmFailed, Goes, IInv, TypeHealth, TypeKeeper, TypeWatch
<1>7. TypeUser'
  BY DEF PutAccepted, PrewarmFailed, Goes, IInv, TypeUser
<1>8. TicksLeft' /\ TriesLeft' /\ Counted'
  BY <1>2 DEF PutAccepted, PrewarmFailed, Goes, IInv, Core, TypeLock, LiveType,
     TypeKeeper, TicksLeft, TriesLeft, Counted
<1>9. QED
  BY <1>3, <1>4, <1>5, <1>6, <1>7, <1>8 DEF Core, IInv

\* ProxyStarts keeps the invariant.
LEMMA ProxyStartsKeeps ==
  ASSUME IInv, ProxyStarts
  PROVE  IInv'
<1>1. /\ owner \in Tasks /\ ~Teardown(owner) /\ NobodyBuilds = FALSE /\ build.step = "proxy"
      /\ build.todo \in Seq({"LOCAL", "REMOTE"}) /\ build.todo # <<>> /\ Candidate \in {"LOCAL", "REMOTE"}
  <2>1. Building("proxy") /\ "proxy" \in Steps \ {None} /\ "proxy" # "begin"
    BY DEF ProxyStarts, Steps, None
  <2>2. QED
    BY <2>1, Builder
<1>2. live' \in LiveType /\ live'.gen \in {live.gen, 0}
  BY <1>1, EmptyRecords DEF ProxyStarts, PrewarmFailed, IInv, Core, TypeLock, LiveType,
     Types, None
<1>3. TypeLock'
  BY <1>1, <1>2 DEF ProxyStarts, PrewarmFailed, Goes, IInv, Core, TypeLock, BuildType,
     Steps
<1>4. SchemesAsked' /\ Candidates' /\ Progress'
  BY <1>1 DEF ProxyStarts, PrewarmFailed, Goes, IInv, Core, TypeLock, BuildType,
     SchemesAsked, Candidates, Progress, NobodyBuilds, None
<1>5. Settles'
  BY <1>1, EmptyRecords DEF ProxyStarts, PrewarmFailed, Goes, IInv, Core, TypeLock,
     BuildType, Settles, Settled
<1>6. TypeHealth' /\ TypeKeeper' /\ TypeWatch'
  BY DEF ProxyStarts, PrewarmFailed, Goes, IInv, TypeHealth, TypeKeeper, TypeWatch
<1>7. TypeUser'
  BY DEF ProxyStarts, PrewarmFailed, Goes, IInv, TypeUser
<1>8. TicksLeft' /\ TriesLeft' /\ Counted'
  BY <1>2 DEF ProxyStarts, PrewarmFailed, Goes, IInv, Core, TypeLock, LiveType,
     TypeKeeper, TicksLeft, TriesLeft, Counted
<1>9. QED
  BY <1>3, <1>4, <1>5, <1>6, <1>7, <1>8 DEF Core, IInv

\* ProxyRaises keeps the invariant.
LEMMA ProxyRaisesKeeps ==
  ASSUME IInv, ProxyRaises
  PROVE  IInv'
<1>1. /\ owner \in Tasks /\ ~Teardown(owner) /\ NobodyBuilds = FALSE /\ build.step = "proxy"
      /\ build.todo \in Seq({"LOCAL", "REMOTE"}) /\ build.todo # <<>> /\ Candidate \in {"LOCAL", "REMOTE"}
  <2>1. Building("proxy") /\ "proxy" \in Steps \ {None} /\ "proxy" # "begin"
    BY DEF ProxyRaises, Steps, None
  <2>2. QED
    BY <2>1, Builder
<1>2. live' \in LiveType /\ live'.gen \in {live.gen, 0}
  <2>1. live' = live \/ live' = [type |-> "DIRECT", url |-> TRUE, gen |-> 0]
    BY DEF ProxyRaises
  <2>2. /\ [type |-> "DIRECT", url |-> TRUE, gen |-> 0] \in LiveType
        /\ [type |-> "DIRECT", url |-> TRUE, gen |-> 0].gen = 0
    BY DEF LiveType, Types
  <2>3. QED
    BY <2>1, <2>2 DEF IInv, Core, TypeLock
<1>3. TypeLock'
  BY <1>1, <1>2 DEF ProxyRaises, PrewarmFailed, Goes, IInv, Core, TypeLock, BuildType,
     Steps
<1>4. SchemesAsked' /\ Candidates' /\ Progress'
  BY <1>1 DEF ProxyRaises, PrewarmFailed, Goes, IInv, Core, TypeLock, BuildType,
     SchemesAsked, Candidates, Progress, NobodyBuilds, None
<1>5. Settles'
  BY <1>1, EmptyRecords DEF ProxyRaises, PrewarmFailed, Goes, IInv, Core, TypeLock,
     BuildType, Settles, Settled
<1>6. TypeHealth' /\ TypeKeeper' /\ TypeWatch'
  BY DEF ProxyRaises, PrewarmFailed, Goes, IInv, TypeHealth, TypeKeeper, TypeWatch
<1>7. TypeUser'
  BY DEF ProxyRaises, PrewarmFailed, Goes, IInv, TypeUser
<1>8. TicksLeft' /\ TriesLeft' /\ Counted'
  BY <1>2 DEF ProxyRaises, PrewarmFailed, Goes, IInv, Core, TypeLock, LiveType,
     TypeKeeper, TicksLeft, TriesLeft, Counted
<1>9. QED
  BY <1>3, <1>4, <1>5, <1>6, <1>7, <1>8 DEF Core, IInv

\* StaleStopped keeps the invariant.
LEMMA StaleStoppedKeeps ==
  ASSUME IInv, StaleStopped
  PROVE  IInv'
<1>1. /\ owner \in Tasks /\ ~Teardown(owner) /\ NobodyBuilds = FALSE /\ build.step = "stale"
      /\ build.todo \in Seq({"LOCAL", "REMOTE"}) /\ build.todo # <<>> /\ Candidate \in {"LOCAL", "REMOTE"}
  <2>1. Building("stale") /\ "stale" \in Steps \ {None} /\ "stale" # "begin"
    BY DEF StaleStopped, Steps, None
  <2>2. QED
    BY <2>1, Builder
<1>2. live' \in LiveType /\ live'.gen \in {live.gen, 0}
  BY <1>1, EmptyRecords DEF StaleStopped, PrewarmFailed, IInv, Core, TypeLock, LiveType,
     Types, None
<1>3. TypeLock'
  BY <1>1, <1>2 DEF StaleStopped, PrewarmFailed, Goes, IInv, Core, TypeLock, BuildType,
     Steps
<1>4. SchemesAsked' /\ Candidates' /\ Progress'
  BY <1>1 DEF StaleStopped, PrewarmFailed, Goes, IInv, Core, TypeLock, BuildType,
     SchemesAsked, Candidates, Progress, NobodyBuilds, None
<1>5. Settles'
  BY <1>1, EmptyRecords DEF StaleStopped, PrewarmFailed, Goes, IInv, Core, TypeLock,
     BuildType, Settles, Settled
<1>6. TypeHealth' /\ TypeKeeper' /\ TypeWatch'
  BY DEF StaleStopped, PrewarmFailed, Goes, IInv, TypeHealth, TypeKeeper, TypeWatch
<1>7. TypeUser'
  BY DEF StaleStopped, PrewarmFailed, Goes, IInv, TypeUser
<1>8. TicksLeft' /\ TriesLeft' /\ Counted'
  BY <1>2 DEF StaleStopped, PrewarmFailed, Goes, IInv, Core, TypeLock, LiveType,
     TypeKeeper, TicksLeft, TriesLeft, Counted
<1>9. QED
  BY <1>3, <1>4, <1>5, <1>6, <1>7, <1>8 DEF Core, IInv

\* Prewarmed keeps the invariant.
LEMMA PrewarmedKeeps ==
  ASSUME IInv, Prewarmed
  PROVE  IInv'
<1>1. /\ owner \in Tasks /\ ~Teardown(owner) /\ NobodyBuilds = FALSE /\ build.step = "prewarm"
      /\ build.todo \in Seq({"LOCAL", "REMOTE"}) /\ build.todo # <<>> /\ Candidate \in {"LOCAL", "REMOTE"}
  <2>1. Building("prewarm") /\ "prewarm" \in Steps \ {None} /\ "prewarm" # "begin"
    BY DEF Prewarmed, Steps, None
  <2>2. QED
    BY <2>1, Builder
<1>2. live' \in LiveType /\ live'.gen \in {live.gen, 0}
  BY <1>1, EmptyRecords DEF Prewarmed, PrewarmFailed, IInv, Core, TypeLock, LiveType,
     Types, None
<1>3. TypeLock'
  BY <1>1, <1>2 DEF Prewarmed, PrewarmFailed, Goes, IInv, Core, TypeLock, BuildType, Steps
<1>4. SchemesAsked' /\ Candidates' /\ Progress'
  BY <1>1 DEF Prewarmed, PrewarmFailed, Goes, IInv, Core, TypeLock, BuildType,
     SchemesAsked, Candidates, Progress, NobodyBuilds, None
<1>5. Settles'
  BY <1>1, EmptyRecords DEF Prewarmed, PrewarmFailed, Goes, IInv, Core, TypeLock,
     BuildType, Settles, Settled
<1>6. TypeHealth' /\ TypeKeeper' /\ TypeWatch'
  BY DEF Prewarmed, PrewarmFailed, Goes, IInv, TypeHealth, TypeKeeper, TypeWatch
<1>7. TypeUser'
  BY DEF Prewarmed, PrewarmFailed, Goes, IInv, TypeUser
<1>8. TicksLeft' /\ TriesLeft' /\ Counted'
  BY <1>2 DEF Prewarmed, PrewarmFailed, Goes, IInv, Core, TypeLock, LiveType,
     TypeKeeper, TicksLeft, TriesLeft, Counted
<1>9. QED
  BY <1>3, <1>4, <1>5, <1>6, <1>7, <1>8 DEF Core, IInv

\* PublishUrl keeps the invariant.
LEMMA PublishUrlKeeps ==
  ASSUME IInv, PublishUrl
  PROVE  IInv'
<1>1. /\ owner \in Tasks /\ ~Teardown(owner) /\ NobodyBuilds = FALSE /\ build.step = "door"
      /\ build.todo \in Seq({"LOCAL", "REMOTE"}) /\ build.todo # <<>> /\ Candidate \in {"LOCAL", "REMOTE"}
  <2>1. Building("door") /\ "door" \in Steps \ {None} /\ "door" # "begin"
    BY DEF PublishUrl, Steps, None
  <2>2. QED
    BY <2>1, Builder
<1>2. live' \in LiveType /\ live'.gen \in {live.gen, 0}
  BY <1>1, EmptyRecords DEF PublishUrl, PrewarmFailed, IInv, Core, TypeLock, LiveType,
     Types, None
<1>3. TypeLock'
  BY <1>1, <1>2 DEF PublishUrl, PrewarmFailed, Goes, IInv, Core, TypeLock, BuildType,
     Steps
<1>4. SchemesAsked' /\ Candidates' /\ Progress'
  BY <1>1 DEF PublishUrl, PrewarmFailed, Goes, IInv, Core, TypeLock, BuildType,
     SchemesAsked, Candidates, Progress, NobodyBuilds, None
<1>5. Settles'
  BY <1>1, EmptyRecords DEF PublishUrl, PrewarmFailed, Goes, IInv, Core, TypeLock,
     BuildType, Settles, Settled
<1>6. TypeHealth' /\ TypeKeeper' /\ TypeWatch'
  BY DEF PublishUrl, PrewarmFailed, Goes, IInv, TypeHealth, TypeKeeper, TypeWatch
<1>7. TypeUser'
  BY DEF PublishUrl, PrewarmFailed, Goes, IInv, TypeUser
<1>8. TicksLeft' /\ TriesLeft' /\ Counted'
  BY <1>2 DEF PublishUrl, PrewarmFailed, Goes, IInv, Core, TypeLock, LiveType,
     TypeKeeper, TicksLeft, TriesLeft, Counted
<1>9. QED
  BY <1>3, <1>4, <1>5, <1>6, <1>7, <1>8 DEF Core, IInv

\* WarmupRaises keeps the invariant.
LEMMA WarmupRaisesKeeps ==
  ASSUME IInv, WarmupRaises
  PROVE  IInv'
<1>1. /\ owner \in Tasks /\ ~Teardown(owner) /\ NobodyBuilds = FALSE /\ build.step \in {"prewarm", "door"}
      /\ build.todo \in Seq({"LOCAL", "REMOTE"}) /\ build.todo # <<>>
  <2>1. /\ Building("prewarm") \/ Building("door")
        /\ "prewarm" \in Steps \ {None} /\ "door" \in Steps \ {None}
        /\ "prewarm" # "begin" /\ "door" # "begin"
    BY DEF WarmupRaises, Steps, None
  <2>2. QED
    BY <2>1, Builder
<1>2. Core'
  BY <1>1, EmptyRecords DEF WarmupRaises, Goes, IInv, Core, TypeLock, BuildType, Steps,
     SchemesAsked, Candidates, Progress, NobodyBuilds, None, Settles, Settled
<1>3. TypeHealth' /\ TypeKeeper' /\ TypeWatch'
  BY DEF WarmupRaises, Goes, IInv, TypeHealth, TypeKeeper, TypeWatch
<1>4. TypeUser'
  BY DEF WarmupRaises, Goes, IInv, TypeUser
<1>5. TicksLeft' /\ TriesLeft' /\ Counted'
  BY EmptyRecords DEF WarmupRaises, Goes, IInv, Core, TypeLock, LiveType, TypeKeeper,
     TicksLeft, TriesLeft, Counted
<1>6. QED
  BY <1>2, <1>3, <1>4, <1>5 DEF IInv

\* PutRefused keeps the invariant.
LEMMA PutRefusedKeeps ==
  ASSUME IInv, PutRefused
  PROVE  IInv'
<1>1. Core' /\ TicksLeft' /\ TriesLeft' /\ Counted' /\ intent' \in BOOLEAN /\ errCount' \in 0..MaxErrors
  BY NextCandidateKeeps DEF PutRefused
<1>2. TypeKeeper' /\ TypeWatch' /\ fellBack' \in BOOLEAN /\ rescued' \in BOOLEAN /\ tries' \in 0..3
  BY DEF PutRefused, IInv, TypeKeeper, TypeWatch, TypeHealth
<1>3. TypeUser'
  BY <1>1 DEF PutRefused, IInv, TypeUser
<1>4. QED
  BY <1>1, <1>2, <1>3 DEF IInv, TypeHealth

\* CandidateCleaned keeps the invariant.
LEMMA CandidateCleanedKeeps ==
  ASSUME IInv, CandidateCleaned
  PROVE  IInv'
<1>1. Core' /\ TicksLeft' /\ TriesLeft' /\ Counted' /\ intent' \in BOOLEAN /\ errCount' \in 0..MaxErrors
  BY NextCandidateKeeps DEF CandidateCleaned
<1>2. TypeKeeper' /\ TypeWatch' /\ rescued' \in BOOLEAN /\ tries' \in 0..3
  BY DEF CandidateCleaned, IInv, TypeKeeper, TypeWatch, TypeHealth
<1>3. fellBack' \in BOOLEAN
  BY DEF CandidateCleaned, IInv, TypeHealth
<1>4. TypeUser'
  BY <1>1 DEF CandidateCleaned, IInv, TypeUser
<1>5. QED
  BY <1>1, <1>2, <1>3, <1>4 DEF IInv, TypeHealth

\* ChooseCandidates keeps the invariant.
LEMMA ChooseCandidatesKeeps ==
  ASSUME IInv, ChooseCandidates
  PROVE  IInv'
<1>1. owner \in Tasks /\ ~Teardown(owner) /\ NobodyBuilds = FALSE /\ build.step = "begin"
  <2>1. Building("begin") /\ "begin" \in Steps \ {None}
    BY DEF ChooseCandidates, Steps, None
  <2>2. QED
    BY <2>1, Builder
<1>2. PICK c \in {<<"LOCAL">>, <<"REMOTE">>, <<"LOCAL", "REMOTE">>, <<"REMOTE", "LOCAL">>} :
        build' = [step |-> "put", todo |-> c, remote |-> c # <<"LOCAL">>]
  BY DEF ChooseCandidates
<1>3. c \in Seq({"LOCAL", "REMOTE"}) /\ c # <<>>
  <2>1. <<"LOCAL">> \in Seq({"LOCAL", "REMOTE"}) /\ <<"LOCAL">> # <<>>
    OBVIOUS
  <2>2. <<"REMOTE">> \in Seq({"LOCAL", "REMOTE"}) /\ <<"REMOTE">> # <<>>
    OBVIOUS
  <2>3. <<"LOCAL", "REMOTE">> \in Seq({"LOCAL", "REMOTE"}) /\ <<"LOCAL", "REMOTE">> # <<>>
    OBVIOUS
  <2>4. <<"REMOTE", "LOCAL">> \in Seq({"LOCAL", "REMOTE"}) /\ <<"REMOTE", "LOCAL">> # <<>>
    OBVIOUS
  <2>5. QED
    BY <2>1, <2>2, <2>3, <2>4
<1>4. build' \in BuildType /\ build'.step = "put" /\ build'.todo # <<>>
  BY <1>2, <1>3 DEF BuildType, Steps
<1>5. Core'
  BY <1>1, <1>4 DEF ChooseCandidates, IInv, Core, TypeLock, SchemesAsked, Candidates,
     Progress, NobodyBuilds, None, Settles, Settled
<1>6. errCount' \in 0..MaxErrors
  BY DEF ChooseCandidates, IInv, TypeHealth
<1>7. fellBack' \in BOOLEAN /\ rescued' \in BOOLEAN /\ tries' \in 0..3
  BY DEF ChooseCandidates, IInv, TypeHealth
<1>8. TypeKeeper' /\ TypeWatch' /\ TicksLeft' /\ TriesLeft' /\ Counted'
  BY DEF ChooseCandidates, IInv, TypeKeeper, TypeWatch, TicksLeft, TriesLeft, Counted
<1>9. TypeUser'
  BY DEF ChooseCandidates, IInv, TypeUser
<1>10. QED
  BY <1>5, <1>6, <1>7, <1>8, <1>9 DEF IInv, TypeHealth

\* BuildSucceeds keeps the invariant.
LEMMA BuildSucceedsKeeps ==
  ASSUME IInv, BuildSucceeds
  PROVE  IInv'
<1>1. /\ owner \in Tasks /\ ~Teardown(owner) /\ NobodyBuilds = FALSE /\ build.step = "finish"
      /\ Candidate \in {"LOCAL", "REMOTE"}
  <2>1. Building("finish") /\ "finish" \in Steps \ {None} /\ "finish" # "begin"
    BY DEF BuildSucceeds, Steps, None
  <2>2. QED
    BY <2>1, Builder
<1>2. gen' = gen + 1 /\ gen' \in Nat
  BY DEF BuildSucceeds, IInv, TypeKeeper
<1>3. \/ live = NoLive /\ live' = live
      \/ live # NoLive /\ live' = [live EXCEPT !.gen = gen + 1]
  BY DEF BuildSucceeds
<1>4. /\ live' \in LiveType /\ live'.gen <= gen'
      /\ live.url => live'.url
  <2>1. CASE live = NoLive /\ live' = live
    BY <1>2, <2>1, EmptyRecords DEF IInv, TypeKeeper
  <2>2. CASE live' = [live EXCEPT !.gen = gen + 1]
    <3>1. live \in LiveType /\ live' \in LiveType /\ live'.gen = gen + 1
      BY <1>2, <2>2 DEF IInv, Core, TypeLock, LiveType
    <3>2. live'.url = live.url
      BY <2>2, <3>1 DEF LiveType
    <3>3. QED
      BY <1>2, <3>1, <3>2
  <2>3. QED
    BY <1>3, <2>1, <2>2
<1>5. /\ pc' \in [Tasks -> PCs]
      /\ \A x \in Tasks : pc'[x] # "schemes" \/ pc'[x] = pc[x]
  BY AfterIsPC DEF BuildSucceeds, IInv, Core, TypeLock, PCs
<1>6. TypeLock'
  BY <1>4, <1>5, EmptyRecords DEF BuildSucceeds, IInv, Core, TypeLock
<1>7. SchemesAsked'
  BY <1>5 DEF IInv, Core, SchemesAsked
<1>8. Candidates' /\ Progress'
  BY EmptyRecords DEF BuildSucceeds, Candidates, Progress, NobodyBuilds, None
<1>9. Settles'
  BY <1>1, <1>3, <1>4 DEF BuildSucceeds, IInv, Core, Settles, Settled
<1>10. TypeKeeper'
  BY <1>1, <1>2 DEF BuildSucceeds, IInv, TypeKeeper, CancelRegistered
<1>11. TypeHealth' /\ TypeUser'
  <2>1. errCount' = errCount /\ fellBack' = fellBack /\ rescued' = rescued /\ tries' = tries
        /\ UNCHANGED <<intent, lastAsk, privacy, proxyUp, rebuiltOnce>>
    BY DEF BuildSucceeds
  <2>2. QED
    BY <2>1 DEF IInv, TypeHealth, TypeUser
<1>12. TypeWatch'
  <2>1. tick' \in 0..2 /\ watched' \in Nat
    BY <1>2 DEF BuildSucceeds, IInv, TypeWatch
  <2>2. sawConsumer' \in BOOLEAN
    BY DEF BuildSucceeds, IInv, TypeWatch
  <2>3. QED
    BY <2>1, <2>2 DEF TypeWatch
<1>13. TicksLeft'
  <2>1. CASE owner = TurnOn /\ Candidate = "LOCAL" /\ "watchdog" \in Enabled
    <3>1. tick' = 0
      BY <2>1 DEF BuildSucceeds
    <3>2. QED
      BY <3>1 DEF TicksLeft
  <2>2. CASE ~(owner = TurnOn /\ Candidate = "LOCAL" /\ "watchdog" \in Enabled)
    <3>1. tick' = tick /\ Watchdog \in Tasks /\ Watchdog \notin Keepers
      BY <2>2, TasksDiffer DEF BuildSucceeds
    <3>2. pc'[Watchdog] \in {After(owner, Candidate, tries), pc[Watchdog], "done"}
                         /\ (pc'[Watchdog] # pc[Watchdog] => Watchdog = owner \/ pc'[Watchdog] = "done")
      BY <2>2, <3>1 DEF BuildSucceeds, Watchdog
    <3>3. QED
      BY <3>1, <3>2 DEF IInv, TicksLeft, After
  <2>3. QED
    BY <2>1, <2>2
<1>14. TriesLeft'
  BY <1>1, TasksDiffer DEF BuildSucceeds, IInv, Core, TypeLock, TriesLeft, After, Keepers
<1>15. QED
  BY <1>4, <1>6, <1>7, <1>8, <1>9, <1>10, <1>11, <1>12, <1>13, <1>14 DEF Core, IInv,
     Counted

\* Every step of the specification.
LEMMA NextKeeps == IInv /\ [Next]_vars => IInv'
<1> SUFFICES ASSUME IInv, [Next]_vars PROVE IInv'
  OBVIOUS
<1>1. CASE SwitchOn
  BY <1>1, SwitchOnKeeps
<1>2. CASE SwitchOff
  BY <1>2, SwitchOffKeeps
<1>3. CASE CardOpens
  BY <1>3, CardOpensKeeps
<1>4. CASE SnapshotRenews
  BY <1>4, SnapshotRenewsKeeps
<1>5. CASE PrivacyOnRequested
  BY <1>5, PrivacyOnRequestedKeeps
<1>6. CASE PrivacyWritten
  BY <1>6, PrivacyWrittenKeeps
<1>7. CASE PrivacyDetected
  BY <1>7, PrivacyDetectedKeeps
<1>8. CASE PrivacyOff
  BY <1>8, PrivacyOffKeeps
<1>9. CASE StaleWarmingCleared
  BY <1>9, StaleWarmingClearedKeeps
<1>10. CASE \E t \in Tasks : Acquire(t)
  BY <1>10, AcquireKeeps
<1>11. CASE \E t \in Tasks : SchemesFresh(t)
  BY <1>11, SchemesFreshKeeps
<1>12. CASE \E t \in Tasks : TeardownEnds(t)
  BY <1>12, TeardownEndsKeeps
<1>13. CASE ChooseCandidates
  BY <1>13, ChooseCandidatesKeeps
<1>14. CASE PutAccepted
  BY <1>14, PutAcceptedKeeps
<1>15. CASE PutRefused
  BY <1>15, PutRefusedKeeps
<1>16. CASE ProxyStarts
  BY <1>16, ProxyStartsKeeps
<1>17. CASE ProxyRaises
  BY <1>17, ProxyRaisesKeeps
<1>18. CASE StaleStopped
  BY <1>18, StaleStoppedKeeps
<1>19. CASE Prewarmed
  BY <1>19, PrewarmedKeeps
<1>20. CASE WarmupRaises
  BY <1>20, WarmupRaisesKeeps
<1>21. CASE PublishUrl
  BY <1>21, PublishUrlKeeps
<1>22. CASE CandidateCleaned
  BY <1>22, CandidateCleanedKeeps
<1>23. CASE BuildSucceeds
  BY <1>23, BuildSucceedsKeeps
<1>24. CASE \E g \in 1..MaxStarts : KeeperUnwinds(g)
  BY <1>24, KeeperUnwindsKeeps
<1>25. CASE \E g \in 1..MaxStarts : KeeperLeaves(g)
  BY <1>25, KeeperLeavesKeeps
<1>26. CASE \E g \in 1..MaxStarts : KeeperRenews(g)
  BY <1>26, KeeperRenewsKeeps
<1>27. CASE \E g \in 1..MaxStarts : TerminatorFires(g)
  BY <1>27, TerminatorFiresKeeps
<1>28. CASE \E g \in 1..MaxStarts : ReaperChecks(g)
  BY <1>28, ReaperChecksKeeps
<1>29. CASE \E g \in 1..MaxStarts : ReaperDecides(g)
  BY <1>29, ReaperDecidesKeeps
<1>30. CASE \E g \in 1..MaxStarts : GuardedTeardown(g)
  BY <1>30, GuardedTeardownKeeps
<1>31. CASE LanReachable
  BY <1>31, LanReachableKeeps
<1>32. CASE WatchdogTick
  BY <1>32, WatchdogTickKeeps
<1>33. CASE WatchdogRestarts
  BY <1>33, WatchdogRestartsKeeps
<1>34. CASE \E auth, decayed \in BOOLEAN : WorkerError(auth, decayed)
  BY <1>34, WorkerErrorKeeps
<1>35. CASE RescueRetries
  BY <1>35, RescueRetriesKeeps
<1>36. CASE ProxyDies
  BY <1>36, ProxyDiesKeeps
<1>37. CASE DiedRebuilds
  BY <1>37, DiedRebuildsKeeps
<1>38. CASE UNCHANGED vars
  BY <1>38 DEF vars, IInv, Core, TypeLock, SchemesAsked, Candidates, Progress,
     NobodyBuilds, Settles, Settled, TypeHealth, TypeUser, TypeKeeper, TypeWatch,
     TicksLeft, TriesLeft, Counted
<1>39. QED
  BY <1>1, <1>2, <1>3, <1>4, <1>5, <1>6, <1>7, <1>8, <1>9, <1>10, <1>11, <1>12, <1>13,
     <1>14, <1>15, <1>16, <1>17, <1>18, <1>19, <1>20, <1>21, <1>22, <1>23, <1>24, <1>25,
     <1>26, <1>27, <1>28, <1>29, <1>30, <1>31, <1>32, <1>33, <1>34, <1>35, <1>36, <1>37,
     <1>38 DEF Next, BuildStep, KeeperStep

\* A call gives the lock to nobody but its caller.
LEMMA CallTakes ==
  ASSUME NEW t, NEW l, NEW n, Call(t, l, n)
  PROVE  owner' \in {owner, t}
BY DEF Call, AskBuild, EnterBuild

\* A teardown takes the lock for itself, and only if it is not stale.
LEMMA TeardownTakes ==
  ASSUME NEW t, NEW i, AskTeardown(t, i)
  PROVE  owner' \in {owner, NoTask} \/ (owner' = t /\ ~Stale(t))
BY DEF AskTeardown, EnterTeardown

\* Whoever takes the stream lock is not a teardown, or is not a stale one.
LEMMA WhoTakesTheLock ==
  ASSUME IInv, [Next]_vars, owner' # owner, owner' # NoTask
  PROVE  \E t \in Tasks : owner' = t /\ (~Teardown(t) \/ ~Stale(t))
<1> USE TasksDiffer
<1>1. CASE SwitchOn
  BY <1>1, CallTakes DEF SwitchOn, Keeper, Keepers, Tasks
<1>2. CASE CardOpens
  BY <1>2, CallTakes DEF CardOpens, Keeper, Keepers, Tasks
<1>3. CASE SnapshotRenews
  BY <1>3, CallTakes DEF SnapshotRenews, Keeper, Keepers, Tasks
<1>4. CASE \E g \in 1..MaxStarts : KeeperRenews(g)
  BY <1>4, CallTakes DEF KeeperRenews, Keeper, Keepers, Tasks
<1>5. CASE LanReachable
  BY <1>5, CallTakes DEF LanReachable, Keeper, Keepers, Tasks
<1>6. CASE WatchdogRestarts
  BY <1>6, CallTakes DEF WatchdogRestarts, Keeper, Keepers, Tasks
<1>7. CASE \E auth, decayed \in BOOLEAN : WorkerError(auth, decayed)
  BY <1>7, CallTakes DEF WorkerError, Keeper, Keepers, Tasks
<1>8. CASE RescueRetries
  BY <1>8, CallTakes DEF RescueRetries, Keeper, Keepers, Tasks
<1>9. CASE DiedRebuilds
  BY <1>9, CallTakes DEF DiedRebuilds, Keeper, Keepers, Tasks
<1>10. CASE SwitchOff
  BY <1>10, TeardownTakes DEF SwitchOff, Reaps, Tasks
<1>11. CASE PrivacyOnRequested
  BY <1>11, TeardownTakes DEF PrivacyOnRequested, Reaps, Tasks
<1>12. CASE PrivacyDetected
  BY <1>12, TeardownTakes DEF PrivacyDetected, Reaps, Tasks
<1>13. CASE \E g \in 1..MaxStarts : GuardedTeardown(g)
  BY <1>13, TeardownTakes DEF GuardedTeardown, Reaps, Tasks
<1>14. CASE \E t \in Tasks : Acquire(t)
  BY <1>14 DEF Acquire, EnterTeardown, EnterBuild
<1>15. CASE \E t \in Tasks : SchemesFresh(t)
  BY <1>15 DEF SchemesFresh, AskBuild, EnterBuild, IInv, Core, SchemesAsked
<1>16. CASE \E t \in Tasks : TeardownEnds(t)
  BY <1>16 DEF TeardownEnds
<1>17. CASE BuildStep
  BY <1>17 DEF BuildStep, ChooseCandidates, PutAccepted, PutRefused, ProxyStarts,
     ProxyRaises, StaleStopped, Prewarmed, WarmupRaises, PublishUrl, CandidateCleaned,
     BuildSucceeds, NextCandidate, BuildFails, PrewarmFailed, Goes
<1>18. CASE \E g \in 1..MaxStarts :
               \/ KeeperUnwinds(g) \/ KeeperLeaves(g) \/ TerminatorFires(g)
               \/ ReaperChecks(g) \/ ReaperDecides(g)
  BY <1>18 DEF KeeperUnwinds, KeeperLeaves, TerminatorFires, ReaperChecks, ReaperDecides
<1>19. CASE PrivacyWritten \/ PrivacyOff \/ StaleWarmingCleared \/ WatchdogTick \/ ProxyDies \/ UNCHANGED vars
  BY <1>19 DEF PrivacyWritten, PrivacyOff, StaleWarmingCleared, WatchdogTick, ProxyDies,
     vars
<1>20. QED
  BY <1>1, <1>2, <1>3, <1>4, <1>5, <1>6, <1>7, <1>8, <1>9, <1>10, <1>11, <1>12, <1>13,
     <1>14, <1>15, <1>16, <1>17, <1>18, <1>19 DEF Next, KeeperStep

\* The strengthened invariant holds in every reachable state.
THEOREM Inductive == Spec => []IInv
<1>1. Init => IInv
  BY InitHolds
<1>2. IInv /\ [Next]_vars => IInv'
  BY NextKeeps
<1>3. QED
  BY <1>1, <1>2, PTL DEF Spec

\* Every variable keeps its type, whatever the tasks do.
THEOREM TypeCorrect == Spec => []TypeOK
<1>1. IInv => TypeOK
  BY DEF IInv, Core, TypeLock, TypeHealth, TypeUser, TypeKeeper, TypeWatch, TypeOK,
     LiveType, BuildType
<1>2. QED
  BY <1>1, Inductive, PTL

\* Nothing but a build in progress leaves a session without its URL or the
\* warming flag set: every exit of try_live_connection_inner settles both.
THEOREM SessionIsSettled == Spec => []SettledSession
<1>1. IInv => SettledSession
  BY DEF IInv, Core, Progress, Settles, Settled, SettledSession, None
<1>2. QED
  BY <1>1, Inductive, PTL

\* A guarded teardown that takes effect ends no session of a later generation.
THEOREM GuardedTeardownSpares == Spec => StaleTeardownSpares
<1> DEFINE Spares == \A g \in 1..MaxStarts :
                       owner' = <<"reap", g>> /\ owner # owner' => live.gen <= g
<1>1. IInv /\ [Next]_vars => [Spares]_vars
  <2> SUFFICES ASSUME IInv, [Next]_vars, NEW g \in 1..MaxStarts,
                      owner' = <<"reap", g>>, owner # owner'
               PROVE  live.gen <= g
    OBVIOUS
  <2>1. PICK t \in Tasks : owner' = t /\ (~Teardown(t) \/ ~Stale(t))
    BY WhoTakesTheLock, TasksDiffer DEF Reaps
  <2>2. Teardown(<<"reap", g>>) /\ <<"reap", g>> \in Reaps
    BY TasksDiffer DEF Reaps
  <2>3. gen = g
    BY <2>1, <2>2 DEF Stale
  <2>4. QED
    BY <2>3 DEF IInv, Counted
<1>2. QED
  BY <1>1, Inductive, PTL DEF Spec, StaleTeardownSpares

-----------------------------------------------------------------------------
(* Who looks after a session.                                               *)

\* A task on its way to a build: it has been counted in starts.
Asked == {"schemes", "queued", "holding"}
Busy == {t \in Tasks : ~Teardown(t) /\ pc[t] \in Asked}

\* The lock is held by the one task that says so, and a waiter waits once.
Places ==
    /\ owner # NoTask => pc[owner] = "holding"
    /\ \A t \in Tasks : pc[t] = "holding" => owner = t
Queue ==
    /\ \A i \in 1..Len(waiters) : pc[waiters[i]] = "queued"
    /\ \A i, j \in 1..Len(waiters) : waiters[i] = waiters[j] => i = j
\* Generations are completed builds: there is room for another one.
Started == gen + Cardinality(Busy) <= starts
\* Nobody registers or cancels a keeper of a generation to come, ...
Dated == registered \in 0..gen /\ cancelled \subseteq 0..gen
\* ... which has not begun.
Unborn == \A g \in 1..MaxStarts : g > gen => pc[Keeper(g)] = "idle"
\* While the switch asks for a build there is no watchdog.
WatchdogWaits == pc[TurnOn] \in Asked => pc[Watchdog] = "idle"
Lanes == Places /\ Queue /\ Started /\ Dated /\ Unborn /\ WatchdogWaits

\* The steps of a build after it has published its own entry.
Underway == {"stale", "prewarm", "door", "finish"}
\* What it has published is of the candidate's type.
WarmsUp == build.step \in {"stale", "prewarm", "door"} => Candidate = "LOCAL"
Finishes == build.step = "finish" /\ live.type \in {"LOCAL", "REMOTE"} => live.type = Candidate
Published == WarmsUp /\ Finishes

\* The keepalive of the current generation is there, or its terminator, or
\* the teardown that the terminator scheduled.
Minds == {"sleep", "queued", "holding"}
Ending == {"spawned", "queued"}
Kept ==
    /\ gen \in 1..MaxStarts /\ kind[gen] = "LOCAL"
    /\ pc[Keeper(gen)] \in Minds /\ gen \notin cancelled
Capped ==
    /\ gen \in 1..MaxStarts /\ kind[gen] = "REMOTE"
    /\ Asleep(gen) \/ pc[<<"reap", gen>>] \in Ending
Attended ==
    build.step \notin Underway =>
        /\ live.type = "LOCAL" => Kept
        /\ live.type = "REMOTE" => Capped

CInv == Lanes /\ Published /\ Attended

\* The names of the tasks, once more.
LEMMA Names ==
  /\ \A g \in 1..MaxStarts : Keeper(g) \in Keepers /\ Keeper(g) \in Tasks /\ ~Teardown(Keeper(g))
  /\ \A g \in 1..MaxStarts : <<"reap", g>> \in Reaps /\ <<"reap", g>> \in Tasks /\ Teardown(<<"reap", g>>)
  /\ \A g, h \in 1..MaxStarts : Keeper(g) # <<"reap", h>> /\ (Keeper(g) = Keeper(h) => g = h)
  /\ \A g \in 1..MaxStarts : Keeper(g) \notin Singles /\ <<"reap", g>> \notin Singles
  /\ \A t \in Keepers : t[2] \in 1..MaxStarts /\ t = Keeper(t[2])
  /\ \A t \in Reaps : t[2] \in 1..MaxStarts /\ t = <<"reap", t[2]>>
  /\ TurnOn # Watchdog /\ TurnOn \in Tasks /\ Watchdog \in Tasks /\ TurnOn # NoTask
  /\ \A t \in Tasks : t # NoTask
<1>1. \A g \in 1..MaxStarts : Keeper(g) \in Keepers /\ <<"reap", g>> \in Reaps
  BY DEF Keeper, Keepers, Reaps
<1>2. \A t \in Keepers : t[2] \in 1..MaxStarts /\ t = Keeper(t[2])
  BY DEF Keeper, Keepers
<1>3. \A t \in Reaps : t[2] \in 1..MaxStarts /\ t = <<"reap", t[2]>>
  BY DEF Reaps
<1>4. \A g, h \in 1..MaxStarts : Keeper(g) # <<"reap", h>> /\ (Keeper(g) = Keeper(h) => g = h)
  BY DEF Keeper
<1>5. TurnOn # Watchdog /\ TurnOn # NoTask
  BY DEF TurnOn, Watchdog, NoTask, None
<1>. QED BY <1>1, <1>2, <1>3, <1>4, <1>5, TasksDiffer DEF Tasks

\* There are finitely many tasks.
LEMMA FinitelyMany == IsFiniteSet(Tasks)
<1>1. IsFiniteSet(1..MaxStarts)
  BY FS_Interval
<1>2. IsFiniteSet({"keeper"}) /\ IsFiniteSet({"reap"})
  BY FS_Singleton
<1>3. IsFiniteSet(Keepers) /\ IsFiniteSet(Reaps)
  BY <1>1, <1>2, FS_Product DEF Keepers, Reaps
<1>4. IsFiniteSet(Singles)
  <2> DEFINE A == {TurnOn} \cup {TurnOff}
             B == A \cup {AutoOpen}
             C == B \cup {Snapshot}
             D == C \cup {PrivacySwitch}
             E == D \cup {PrivacySeen}
             F == E \cup {Watchdog}
             G == F \cup {Worker}
             H == G \cup {Died}
             K == H \cup {Promote}
  <2>1. IsFiniteSet(A)
    BY FS_Singleton, FS_AddElement
  <2>2. IsFiniteSet(B)
    BY <2>1, FS_AddElement
  <2>3. IsFiniteSet(C)
    BY <2>2, FS_AddElement
  <2>4. IsFiniteSet(D)
    BY <2>3, FS_AddElement
  <2>5. IsFiniteSet(E)
    BY <2>4, FS_AddElement
  <2>6. IsFiniteSet(F)
    BY <2>5, FS_AddElement
  <2>7. IsFiniteSet(G)
    BY <2>6, FS_AddElement
  <2>8. IsFiniteSet(H)
    BY <2>7, FS_AddElement
  <2>9. IsFiniteSet(K)
    BY <2>8, FS_AddElement
  <2>10. K = Singles
    OBVIOUS
  <2>. QED BY <2>9, <2>10
<1>5. IsFiniteSet(Keepers \cup Reaps)
  BY <1>3, FS_Union
<1>. QED BY <1>4, <1>5, FS_Union DEF Tasks

\* What the counts of tasks on their way to a build come to.
LEMMA BusyIsFinite ==
  /\ IsFiniteSet(Busy) /\ Cardinality(Busy) \in Nat
  /\ IsFiniteSet(Busy') /\ Cardinality(Busy') \in Nat
<1>1. Busy \in SUBSET Tasks /\ Busy' \in SUBSET Tasks
  BY DEF Busy
<1>. QED BY <1>1, FinitelyMany, FS_Subset, FS_CardinalityType

\* Nobody sets out.
LEMMA NoMoreBusy ==
  ASSUME IInv, Started, Busy' \subseteq Busy, gen' = gen, starts' = starts
  PROVE  Started'
<1>1. Cardinality(Busy') <= Cardinality(Busy)
  BY BusyIsFinite, FS_Subset
<1>2. PICK m \in Nat : m = Cardinality(Busy)
  BY BusyIsFinite
<1>3. PICK n \in Nat : n = Cardinality(Busy')
  BY BusyIsFinite
<1>4. gen \in Nat /\ starts \in Nat
  BY DEF IInv, Core, TypeLock, TypeKeeper
<1>5. gen + m <= starts
  BY <1>2 DEF Started
<1>6. gen + n <= starts
  BY <1>1, <1>2, <1>3, <1>4, <1>5
<1>. QED BY <1>3, <1>6 DEF Started

\* One task sets out, and is counted.
LEMMA OneMoreBusy ==
  ASSUME IInv, Started, NEW t, Busy' \subseteq Busy \cup {t}, gen' = gen, starts' = starts + 1
  PROVE  Started'
<1>1. PICK m \in Nat : m = Cardinality(Busy)
  BY BusyIsFinite
<1>2. PICK n \in Nat : n = Cardinality(Busy')
  BY BusyIsFinite
<1>3. PICK k \in Nat : k = Cardinality(Busy \cup {t})
  BY BusyIsFinite, FS_AddElement, FS_CardinalityType
<1>4. k <= m + 1
  <2>1. k = IF t \in Busy THEN m ELSE m + 1
    BY <1>1, <1>3, BusyIsFinite, FS_AddElement
  <2>. QED BY <2>1
<1>5. n <= k
  BY <1>2, <1>3, BusyIsFinite, FS_AddElement, FS_Subset
<1>6. gen \in Nat /\ starts \in Nat
  BY DEF IInv, Core, TypeLock, TypeKeeper
<1>7. gen + m <= starts
  BY <1>1 DEF Started
<1>8. gen + n <= starts + 1
  BY <1>4, <1>5, <1>6, <1>7
<1>. QED BY <1>2, <1>8 DEF Started

\* Who builds was counted: there is a generation left for it.
LEMMA Room ==
  ASSUME IInv, Started, NEW t \in Busy
  PROVE  gen + 1 \in 1..MaxStarts
<1>1. PICK m \in Nat : m = Cardinality(Busy)
  BY BusyIsFinite
<1>2. m # 0
  BY <1>1, BusyIsFinite, FS_EmptySet
<1>3. gen \in Nat /\ starts \in Nat /\ starts <= MaxStarts
  BY DEF IInv, Core, TypeLock, TypeKeeper
<1>4. gen + m <= starts
  BY <1>1 DEF Started
<1>. QED BY <1>2, <1>3, <1>4

\* The builder is through, with a generation.
LEMMA OneLessBusy ==
  ASSUME IInv, Started, NEW t \in Busy, Busy' \subseteq Busy \ {t}, gen' = gen + 1, starts' = starts
  PROVE  Started'
<1>1. PICK m \in Nat : m = Cardinality(Busy)
  BY BusyIsFinite
<1>2. PICK n \in Nat : n = Cardinality(Busy')
  BY BusyIsFinite
<1>3. IsFiniteSet(Busy \ {t}) /\ Cardinality(Busy \ {t}) = m - 1
  BY <1>1, BusyIsFinite, FS_RemoveElement
<1>4. n <= m - 1
  BY <1>2, <1>3, FS_Subset
<1>5. gen \in Nat /\ starts \in Nat
  BY DEF IInv, Core, TypeLock, TypeKeeper
<1>6. gen + m <= starts
  BY <1>1 DEF Started
<1>7. gen + 1 + n <= starts
  BY <1>4, <1>5, <1>6
<1>. QED BY <1>2, <1>5, <1>7 DEF Started

\* A step that moves nobody.
LEMMA NobodyMoves ==
  ASSUME IInv, Lanes, UNCHANGED <<pc, owner, waiters, gen, starts, cancelled>>,
         registered' \in {registered, 0}
  PROVE  Lanes'
<1>1. Busy' \subseteq Busy
  BY DEF Busy
<1>2. Started'
  BY <1>1, NoMoreBusy DEF Lanes
<1>3. Dated'
  BY DEF Lanes, Dated, IInv, TypeKeeper
<1>. QED BY <1>2, <1>3 DEF Lanes, Places, Queue, Unborn, WatchdogWaits

\* A task goes on somewhere away from the lock.
LEMMA MovesAside ==
  ASSUME IInv, Lanes, NEW t \in Tasks, NEW p, p \notin Asked, pc[t] \notin Asked,
         pc' = [pc EXCEPT ![t] = p],
         t = Watchdog \/ t \in Keepers => pc[t] # "idle",
         UNCHANGED <<owner, waiters, gen, starts, cancelled>>, registered' \in {registered, 0}
  PROVE  Lanes'
<1>1. \A x \in Tasks : x # t => pc'[x] = pc[x]
  BY DEF IInv, Core, TypeLock
<1>2. pc'[t] = p
  BY DEF IInv, Core, TypeLock
<1>3. Busy' \subseteq Busy
  BY <1>1, <1>2 DEF Busy
<1>4. Started'
  BY <1>3, NoMoreBusy DEF Lanes
<1>5. Dated'
  BY DEF Lanes, Dated, IInv, TypeKeeper
<1>6. Places'
  BY <1>1, <1>2 DEF Lanes, Places, IInv, Core, TypeLock, Asked
<1>7. Queue'
  <2>1. \A i \in 1..Len(waiters) : waiters[i] \in Tasks
    BY DEF IInv, Core, TypeLock
  <2>. QED BY <2>1, <1>1, <1>2 DEF Lanes, Queue, Asked
<1>8. Unborn'
  BY <1>1, Names DEF Lanes, Unborn
<1>9. WatchdogWaits'
  BY <1>1, <1>2, Names DEF Lanes, WatchdogWaits
<1>. QED BY <1>4, <1>5, <1>6, <1>7, <1>8, <1>9 DEF Lanes

\* A session that is left as it is, or dropped, is looked after as before.
LEMMA StillAttended ==
  ASSUME IInv, Attended, UNCHANGED <<gen, kind, cancelled>>, live' \in {live, NoLive},
         build'.step \notin Underway => build.step \notin Underway,
         live.type = "LOCAL" /\ Kept => pc'[Keeper(gen)] \in Minds,
         live.type = "REMOTE" /\ Capped => Capped'
  PROVE  Attended'
<1>1. NoLive.type \notin {"LOCAL", "REMOTE"}
  BY DEF NoLive, None
<1>2. live.type = "LOCAL" /\ Kept => Kept'
  BY DEF Kept
<1>. QED BY <1>1, <1>2 DEF Attended

\* Who moves neither the keeper nor the teardown of the generation leaves both be.
LEMMA Unmoved ==
  ASSUME UNCHANGED <<gen, kind, cancelled>>,
         gen \in 1..MaxStarts => pc'[Keeper(gen)] = pc[Keeper(gen)],
         gen \in 1..MaxStarts => pc'[<<"reap", gen>>] = pc[<<"reap", gen>>]
  PROVE  (Kept => pc'[Keeper(gen)] \in Minds) /\ (Capped => Capped')
BY DEF Kept, Capped, Asleep

\* A build left alone has published what it had.
LEMMA StillPublished ==
  ASSUME Published, build' = build, live' \in {live, NoLive}
  PROVE  Published'
<1>1. NoLive.type \notin {"LOCAL", "REMOTE"}
  BY DEF NoLive, None
<1>. QED BY <1>1 DEF Published, WarmsUp, Finishes, Candidate

\* A task waits in line: it was not there before.
LEMMA Waits ==
  ASSUME IInv, CInv, NEW t \in Tasks, pc[t] \notin {"queued", "holding"}, Wait(t),
         t = Watchdog \/ t \in Keepers => pc[t] # "idle",
         t = TurnOn => pc[Watchdog] = "idle",
         UNCHANGED <<owner, gen, cancelled>>, registered' \in {registered, 0},
         starts' = IF pc[t] = "schemes" \/ Teardown(t) THEN starts ELSE starts + 1
  PROVE  Lanes'
<1>1. /\ \A x \in Tasks : x # t => pc'[x] = pc[x]
      /\ pc'[t] = "queued"
  BY DEF IInv, Core, TypeLock, Wait
<1>2. Started'
  <2>1. CASE pc[t] = "schemes" \/ Teardown(t)
    <3>1. Busy' \subseteq Busy
      BY <1>1, <2>1 DEF Busy, Asked
    <3>. QED BY <2>1, <3>1, NoMoreBusy DEF CInv, Lanes
  <2>2. CASE ~(pc[t] = "schemes" \/ Teardown(t))
    <3>1. Busy' \subseteq Busy \cup {t}
      BY <1>1 DEF Busy
    <3>. QED BY <2>2, <3>1, OneMoreBusy DEF CInv, Lanes
  <2>. QED BY <2>1, <2>2
<1>3. Dated'
  BY DEF CInv, Lanes, Dated, IInv, TypeKeeper
<1>4. Places'
  BY <1>1 DEF CInv, Lanes, Places, IInv, Core, TypeLock
<1>5. Queue'
  <2>1. /\ waiters \in Seq(Tasks) /\ waiters' = Append(waiters, t)
        /\ \A i \in 1..Len(waiters) : waiters[i] \in Tasks
    BY DEF IInv, Core, TypeLock, Wait
  <2>2. PICK n \in Nat : n = Len(waiters)
    BY <2>1
  <2>3. /\ Len(waiters') = n + 1 /\ waiters'[n + 1] = t
        /\ \A i \in 1..n : waiters'[i] = waiters[i] /\ waiters[i] # t
    BY <2>1, <2>2 DEF CInv, Lanes, Queue
  <2>4. \A i \in 1..n + 1 : i \in 1..n \/ i = n + 1
    BY <2>2
  <2>5. \A i \in 1..n + 1 : pc'[waiters'[i]] = "queued"
    BY <1>1, <2>1, <2>2, <2>3, <2>4 DEF CInv, Lanes, Queue
  <2>6. \A i, j \in 1..n + 1 : waiters'[i] = waiters'[j] => i = j
    BY <2>2, <2>3, <2>4 DEF CInv, Lanes, Queue
  <2>. QED BY <2>3, <2>5, <2>6 DEF Queue
<1>6. Unborn'
  BY <1>1, Names DEF CInv, Lanes, Unborn
<1>7. WatchdogWaits'
  BY <1>1, Names DEF CInv, Lanes, WatchdogWaits, Asked
<1>. QED BY <1>2, <1>3, <1>4, <1>5, <1>6, <1>7 DEF Lanes

\* A build that has the lock begins.
LEMMA Begins ==
  ASSUME IInv, CInv, NEW t \in Tasks, ~Teardown(t), NEW l \in {live, NoLive}, owner = NoTask, EnterBuild(t, l),
         t = Watchdog \/ t \in Keepers => pc[t] # "idle",
         t = TurnOn => pc[Watchdog] = "idle",
         UNCHANGED keeperVars,
         starts' = IF pc[t] \in Asked THEN starts ELSE starts + 1,
         Queue'
  PROVE  Lanes' /\ Published' /\ live' \in {live, NoLive} /\ build.step \notin Underway /\ pc'[t] \in Minds
         /\ \A x \in Tasks : x # t => pc'[x] = pc[x]
<1>1. /\ \A x \in Tasks : x # t => pc'[x] = pc[x]
      /\ pc'[t] = "holding" /\ owner' = t
  BY DEF IInv, Core, TypeLock, EnterBuild
<1>2. Started'
  <2>1. CASE pc[t] \in Asked
    <3>1. Busy' \subseteq Busy
      BY <1>1, <2>1 DEF Busy, Asked
    <3>. QED BY <2>1, <3>1, NoMoreBusy DEF CInv, Lanes
  <2>2. CASE pc[t] \notin Asked
    <3>1. Busy' \subseteq Busy \cup {t}
      BY <1>1 DEF Busy
    <3>. QED BY <2>2, <3>1, OneMoreBusy DEF CInv, Lanes
  <2>. QED BY <2>1, <2>2
<1>3. Dated'
  BY DEF CInv, Lanes, Dated, IInv, TypeKeeper
<1>4. \A x \in Tasks : pc[x] # "holding"
  BY Names DEF CInv, Lanes, Places
<1>5. Places'
  BY <1>1, <1>4 DEF Places
<1>6. Unborn'
  BY <1>1, Names DEF CInv, Lanes, Unborn
<1>7. WatchdogWaits'
  BY <1>1, Names DEF CInv, Lanes, WatchdogWaits, Asked
<1>8. build.step = None
  BY DEF IInv, Core, Progress, NobodyBuilds
<1>9. build'.step = "begin" /\ live' \in {live, NoLive}
  BY EmptyRecords DEF EnterBuild
<1>. QED BY <1>1, <1>2, <1>3, <1>5, <1>6, <1>7, <1>8, <1>9
     DEF Lanes, Published, WarmsUp, Finishes, Underway, None, Minds

\* Where a caller is left: nobody's keeper goes, and what is published stays.
Calls(t, n) ==
    /\ t \in Tasks /\ ~Teardown(t) /\ n \in 0..3
    /\ pc[t] \in {"idle", "sleep", "stopping", "retry", "prewait"}
    /\ t = Watchdog => pc[t] = "stopping"
    /\ t = TurnOn => pc[Watchdog] = "idle"
    /\ t \in Keepers => pc[t] = "sleep" /\ kind[t[2]] = "LOCAL"

\* A call of try_live_connection.
LEMMA CallAttends ==
  ASSUME IInv, CInv, NEW t, NEW n, Calls(t, n), NEW l \in {live, NoLive}, Call(t, l, n), UNCHANGED keeperVars
  PROVE  CInv'
<1>0. /\ t \in Tasks /\ pc[t] \notin Asked /\ ~Teardown(t)
      /\ t = Watchdog \/ t \in Keepers => pc[t] # "idle"
      /\ t \notin Reaps
      /\ \A g \in 1..MaxStarts : t # <<"reap", g>>
  BY TasksDiffer, Names DEF Calls, Asked
<1>1. ASSUME /\ \A x \in Tasks : x # t => pc'[x] = pc[x]
             /\ t \in Keepers => pc'[t] \in Minds
      PROVE  /\ live.type = "LOCAL" /\ Kept => pc'[Keeper(gen)] \in Minds
             /\ live.type = "REMOTE" /\ Capped => Capped'
  <2>1. Kept => pc'[Keeper(gen)] \in Minds
    BY <1>1, Names DEF Kept
  <2>2. Capped => t # Keeper(gen)
    BY Names DEF Capped, Calls
  <2>3. Capped => pc'[Keeper(gen)] = pc[Keeper(gen)] /\ pc'[<<"reap", gen>>] = pc[<<"reap", gen>>]
    BY <1>0, <1>1, <2>2, Names DEF Capped
  <2>. QED BY <2>1, <2>3 DEF Capped, Asleep
<1>2. CASE Declined(t) /\ pc' = [pc EXCEPT ![t] = After(t, None, n)]
          /\ live' = l /\ UNCHANGED <<warming, lockVars, starts>>
  <2>1. /\ \A x \in Tasks : x # t => pc'[x] = pc[x]
        /\ pc'[t] = After(t, None, n)
    BY <1>0, <1>2 DEF IInv, Core, TypeLock
  <2>2. After(t, None, n) \notin Asked /\ (t \in Keepers => After(t, None, n) \in Minds)
    <3>1. After(t, None, n) \in {"done", "sleep", "retry", "idle"}
      BY AfterIsPC
    <3>2. t \in Keepers => After(t, None, n) = "sleep"
      BY TasksDiffer DEF After
    <3>. QED BY <3>1, <3>2 DEF Asked, Minds
  <2>3. Lanes'
    BY <1>0, <1>2, <2>2, MovesAside DEF CInv
  <2>4. Published'
    BY <1>2, StillPublished DEF CInv
  <2>5. Attended'
    BY <1>1, <1>2, <2>1, <2>2, StillAttended DEF CInv
  <2>. QED BY <2>3, <2>4, <2>5 DEF CInv
<1>3. CASE pc' = [pc EXCEPT ![t] = "schemes"] /\ live' = l /\ starts' = starts + 1
          /\ ~Renewal(t) /\ UNCHANGED <<warming, lockVars>>
  <2>1. /\ \A x \in Tasks : x # t => pc'[x] = pc[x]
        /\ pc'[t] = "schemes" /\ t \notin Keepers
    BY <1>0, <1>3 DEF IInv, Core, TypeLock, Renewal
  <2>2. Started'
    <3>1. Busy' \subseteq Busy \cup {t}
      BY <2>1 DEF Busy
    <3>. QED BY <1>3, <3>1, OneMoreBusy DEF CInv, Lanes
  <2>3. Places' /\ Dated'
    BY <1>0, <1>3, <2>1 DEF CInv, Lanes, Places, Dated, IInv, Core, TypeLock, Asked
  <2>4. Queue'
    <3>1. \A i \in 1..Len(waiters) : waiters[i] \in Tasks
      BY DEF IInv, Core, TypeLock
    <3>. QED BY <1>0, <1>3, <2>1, <3>1 DEF CInv, Lanes, Queue, Asked
  <2>5. Unborn' /\ WatchdogWaits'
    BY <1>0, <2>1, <1>3, Names DEF CInv, Lanes, Unborn, WatchdogWaits, Asked, Calls
  <2>6. Published'
    BY <1>3, StillPublished DEF CInv
  <2>7. Attended'
    BY <1>1, <1>3, <2>1, StillAttended DEF CInv
  <2>. QED BY <2>2, <2>3, <2>4, <2>5, <2>6, <2>7 DEF CInv, Lanes
<1>4. CASE starts' = starts + 1 /\ Free /\ EnterBuild(t, l) /\ UNCHANGED waiters
  <2>1. Queue'
    BY <1>4 DEF Queue, Free
  <2>2. /\ Lanes' /\ Published' /\ live' \in {live, NoLive} /\ build.step \notin Underway
        /\ pc'[t] \in Minds /\ \A x \in Tasks : x # t => pc'[x] = pc[x]
    BY <1>0, <1>4, <2>1, Begins DEF Free, Calls
  <2>3. Attended'
    BY <1>1, <2>2, StillAttended DEF CInv
  <2>. QED BY <2>2, <2>3 DEF CInv
<1>5. CASE starts' = starts + 1 /\ Wait(t) /\ live' = l /\ UNCHANGED <<owner, build, warming>>
  <2>1. Lanes'
    BY <1>0, <1>5, Waits DEF Calls, Asked
  <2>2. /\ \A x \in Tasks : x # t => pc'[x] = pc[x]
        /\ pc'[t] \in Minds
    BY <1>0, <1>5 DEF IInv, Core, TypeLock, Wait, Minds
  <2>3. Published'
    BY <1>5, StillPublished DEF CInv
  <2>4. Attended'
    BY <1>1, <1>5, <2>2, StillAttended DEF CInv
  <2>. QED BY <2>1, <2>3, <2>4 DEF CInv
<1>. QED BY <1>2, <1>3, <1>4, <1>5 DEF Call, AskBuild

\* A teardown that has the lock: it is of another generation and leaves, or
\* the session is gone.
LEMMA EnterTeardownAttends ==
  ASSUME IInv, CInv, NEW t \in Tasks, Teardown(t), owner = NoTask, EnterTeardown(t),
         pc[t] \notin {"holding", "deciding"}, UNCHANGED starts, Queue'
  PROVE  CInv'
<1>0. /\ t # NoTask /\ t \notin Keepers /\ t # TurnOn /\ t # Watchdog
      /\ \A x \in Tasks : pc[x] # "holding"
      /\ build.step = None
  BY TasksDiffer, Names DEF CInv, Lanes, Places, IInv, Core, Progress, NobodyBuilds
<1>1. CASE Stale(t) /\ owner' = NoTask /\ pc' = [pc EXCEPT ![t] = "done"]
          /\ UNCHANGED <<live, warming, intent, healthVars, keeperVars, build>>
  <2>1. /\ \A x \in Tasks : x # t => pc'[x] = pc[x]
        /\ pc'[t] = "done"
    BY <1>1 DEF IInv, Core, TypeLock
  <2>2. Started'
    <3>1. Busy' \subseteq Busy
      BY <2>1 DEF Busy
    <3>. QED BY <1>1, <3>1, NoMoreBusy DEF CInv, Lanes
  <2>3. Places' /\ Dated'
    BY <1>0, <1>1, <2>1 DEF CInv, Lanes, Places, Dated
  <2>4. Unborn' /\ WatchdogWaits'
    BY <1>0, <1>1, <2>1, Names DEF CInv, Lanes, Unborn, WatchdogWaits
  <2>5. Published'
    BY <1>1, StillPublished DEF CInv
  <2>6. gen \in 1..MaxStarts => t # <<"reap", gen>> /\ t # Keeper(gen)
    BY <1>0, <1>1, Names DEF Stale
  <2>7. (Kept => pc'[Keeper(gen)] \in Minds) /\ (Capped => Capped')
    BY <1>1, <2>1, <2>6, Names, Unmoved
  <2>8. Attended'
    BY <1>1, <2>7, StillAttended DEF CInv
  <2>. QED BY <2>2, <2>3, <2>4, <2>5, <2>8 DEF CInv, Lanes
<1>2. CASE ~Stale(t) /\ EnterTeardown(t)
  <2>1. /\ owner' = t /\ live' = NoLive /\ gen' = gen /\ build' = build
        /\ registered' = 0 /\ cancelled' = cancelled \cup ({registered} \ {0})
        /\ pc' = [x \in Tasks |-> IF x = t THEN "holding" ELSE IF pc[x] = "deciding" THEN "done" ELSE pc[x]]
    BY <1>2 DEF EnterTeardown, CancelRegistered
  <2>2. Started'
    <3>1. Busy' \subseteq Busy
      BY <2>1 DEF Busy, Asked
    <3>. QED BY <2>1, <3>1, NoMoreBusy DEF CInv, Lanes
  <2>3. Places'
    BY <1>0, <2>1 DEF Places
  <2>4. Dated'
    BY <2>1 DEF CInv, Lanes, Dated, IInv, TypeKeeper
  <2>5. Unborn' /\ WatchdogWaits'
    BY <1>0, <2>1, Names DEF CInv, Lanes, Unborn, WatchdogWaits, Asked
  <2>6. Published' /\ Attended'
    BY <1>0, <2>1 DEF Published, WarmsUp, Finishes, Attended, NoLive, None
  <2>. QED BY <2>2, <2>3, <2>4, <2>5, <2>6 DEF CInv, Lanes
<1>. QED BY <1>1, <1>2 DEF EnterTeardown

\* A teardown asks for the lock.
LEMMA AskTeardownAttends ==
  ASSUME IInv, CInv, NEW t \in Tasks, Teardown(t), NEW i, AskTeardown(t, i),
         pc[t] \in {"idle", "spawned"}, t \in Reaps => pc[t] = "spawned", UNCHANGED starts
  PROVE  CInv'
<1>1. CASE Free /\ EnterTeardown(t) /\ UNCHANGED waiters
  <2>1. Queue' /\ owner = NoTask
    BY <1>1 DEF Queue, Free
  <2>. QED BY <1>1, <2>1, EnterTeardownAttends
<1>2. CASE Wait(t) /\ UNCHANGED <<live, warming, healthVars, keeperVars, owner, build>>
  <2>0. t \notin Keepers /\ t # TurnOn /\ t # Watchdog
    BY TasksDiffer
  <2>1. Lanes'
    BY <1>2, <2>0, Waits
  <2>2. /\ \A x \in Tasks : x # t => pc'[x] = pc[x]
        /\ pc'[t] = "queued"
    BY <1>2 DEF IInv, Core, TypeLock, Wait
  <2>3. Published'
    BY <1>2, StillPublished DEF CInv
  <2>4. Kept => pc'[Keeper(gen)] \in Minds
    BY <2>0, <2>2, Names DEF Kept
  <2>5. Capped => Capped'
    BY <1>2, <2>0, <2>2, Names DEF Capped, Asleep, Ending
  <2>6. Attended'
    BY <1>2, <2>4, <2>5, StillAttended DEF CInv
  <2>. QED BY <2>1, <2>3, <2>6 DEF CInv
<1>. QED BY <1>1, <1>2 DEF AskTeardown

\* What leaves the line leaves the others in it, once each.
LEMMA LineMoves ==
  ASSUME IInv, CInv, NEW t \in Tasks, NEW i \in 1..Len(waiters), waiters[i] = t,
         waiters' \in Seq(Tasks), Len(waiters') = Len(waiters) - 1,
         \A j \in 1..Len(waiters) - 1 : waiters'[j] = waiters[IF j < i THEN j ELSE j + 1],
         \A x \in Tasks : x # t /\ pc[x] = "queued" => pc'[x] = "queued"
  PROVE  Queue'
<1>1. waiters \in Seq(Tasks)
  BY DEF IInv, Core, TypeLock
<1>2. PICK n \in Nat : n = Len(waiters)
  BY <1>1
<1>3. \A k \in 1..n : waiters[k] \in Tasks /\ pc[waiters[k]] = "queued"
  BY <1>1, <1>2 DEF CInv, Lanes, Queue
<1>4. \A k, m \in 1..n : waiters[k] = waiters[m] => k = m
  BY <1>2 DEF CInv, Lanes, Queue
<1>5. i \in 1..n /\ Len(waiters') = n - 1
  BY <1>2
<1>6. \A j \in 1..n - 1 : waiters'[j] = waiters[IF j < i THEN j ELSE j + 1]
  BY <1>2
<1>7. ASSUME NEW j \in 1..n - 1
      PROVE  /\ (IF j < i THEN j ELSE j + 1) \in 1..n
             /\ (IF j < i THEN j ELSE j + 1) # i
  BY <1>2, <1>5
<1>8. \A j \in 1..n - 1 : pc'[waiters'[j]] = "queued"
  <2> TAKE j \in 1..n - 1
  <2> DEFINE k == IF j < i THEN j ELSE j + 1
  <2>1. k \in 1..n /\ k # i /\ waiters'[j] = waiters[k]
    BY <1>6, <1>7
  <2> HIDE DEF k
  <2>2. waiters[k] # t /\ waiters[k] \in Tasks /\ pc[waiters[k]] = "queued"
    BY <1>3, <1>4, <1>5, <2>1
  <2>. QED BY <2>1, <2>2
<1>9. \A j, m \in 1..n - 1 : waiters'[j] = waiters'[m] => j = m
  <2> TAKE j, m \in 1..n - 1
  <2> HAVE waiters'[j] = waiters'[m]
  <2>1. waiters[IF j < i THEN j ELSE j + 1] = waiters[IF m < i THEN m ELSE m + 1]
    BY <1>6
  <2>2. (IF j < i THEN j ELSE j + 1) = (IF m < i THEN m ELSE m + 1)
    BY <1>4, <1>7, <2>1
  <2>. QED BY <1>2, <1>5, <2>2
<1>. QED BY <1>5, <1>8, <1>9 DEF Queue

\* The first waiter gets the lock.
LEMMA AcquireAttends ==
  ASSUME IInv, CInv, NEW t \in Tasks, Acquire(t)
  PROVE  CInv'
<1>1. waiters \in Seq(Tasks) /\ waiters # <<>> /\ t = Head(waiters) /\ waiters' = Tail(waiters)
  BY DEF Acquire, IInv, Core, TypeLock
<1>2. /\ Len(waiters) # 0 /\ Len(waiters) \in Nat /\ waiters[1] = t
      /\ waiters' \in Seq(Tasks) /\ Len(waiters') = Len(waiters) - 1
      /\ \A j \in 1..Len(waiters') : waiters'[j] = waiters[j + 1]
  BY <1>1, EmptySeq, HeadTailProperties
<1>3. PICK n \in Nat : n = Len(waiters)
  BY <1>2
<1>4. 1 \in 1..Len(waiters) /\ \A j \in 1..Len(waiters) - 1 : waiters'[j] = waiters[IF j < 1 THEN j ELSE j + 1]
  <2>1. 1 \in 1..n /\ Len(waiters') = n - 1
    BY <1>2, <1>3
  <2>2. \A j \in 1..n - 1 : ~(j < 1)
    BY <1>3
  <2>. QED BY <1>2, <1>3, <2>1, <2>2
<1>5. pc[t] = "queued"
  BY <1>2, <1>4 DEF CInv, Lanes, Queue
<1>6. Queue'
  <2>1. \A x \in Tasks : x # t /\ pc[x] = "queued" => pc'[x] = "queued"
    BY DEF Acquire, EnterTeardown, EnterBuild, IInv, Core, TypeLock
  <2>. QED BY <1>2, <1>4, <2>1, LineMoves
<1>7. CASE Teardown(t)
  BY <1>5, <1>6, <1>7, EnterTeardownAttends DEF Acquire
<1>8. CASE ~Teardown(t)
  <2>0. /\ EnterBuild(t, live) /\ UNCHANGED <<keeperVars, starts>> /\ owner = NoTask
        /\ pc[t] \in Asked /\ pc[t] # "idle"
    BY <1>5, <1>8 DEF Acquire, Asked
  <2>1. t = TurnOn => pc[Watchdog] = "idle"
    BY <2>0 DEF CInv, Lanes, WatchdogWaits
  <2>2. /\ Lanes' /\ Published' /\ live' \in {live, NoLive} /\ build.step \notin Underway
        /\ pc'[t] \in Minds /\ \A x \in Tasks : x # t => pc'[x] = pc[x]
    BY <1>6, <1>8, <2>0, <2>1, Begins
  <2>3. Kept => pc'[Keeper(gen)] \in Minds
    BY <2>2, Names DEF Kept
  <2>4. Capped => Capped'
    <3>1. Capped => t # <<"reap", gen>>
      BY <1>8, Names DEF Capped
    <3>2. Capped /\ Asleep(gen) => t # Keeper(gen)
      BY <1>5 DEF Asleep
    <3>. QED BY <2>0, <2>2, <3>1, <3>2, Names DEF Capped, Asleep
  <2>5. Attended'
    BY <2>0, <2>2, <2>3, <2>4, StillAttended DEF CInv
  <2>. QED BY <2>2, <2>5 DEF CInv
<1>. QED BY <1>7, <1>8

\* A task that waited for the schemes goes for the lock.
LEMMA SchemesFreshAttends ==
  ASSUME IInv, CInv, NEW t \in Tasks, SchemesFresh(t)
  PROVE  CInv'
<1>0. /\ pc[t] = "schemes" /\ ~Teardown(t) /\ UNCHANGED <<keeperVars, starts>>
      /\ pc[t] \in Asked /\ pc[t] # "idle"
      /\ t = TurnOn => pc[Watchdog] = "idle"
  BY DEF SchemesFresh, IInv, Core, SchemesAsked, Asked, CInv, Lanes, WatchdogWaits
<1>1. ASSUME \A x \in Tasks : x # t => pc'[x] = pc[x], pc'[t] \in Minds
      PROVE  (Kept => pc'[Keeper(gen)] \in Minds) /\ (Capped => Capped')
  <2>1. Kept => pc'[Keeper(gen)] \in Minds
    BY <1>1, Names DEF Kept
  <2>2. Capped => t # <<"reap", gen>>
    BY <1>0, Names DEF Capped
  <2>3. Capped /\ Asleep(gen) => t # Keeper(gen)
    BY <1>0 DEF Asleep
  <2>. QED BY <1>0, <1>1, <2>1, <2>2, <2>3, Names DEF Capped, Asleep
<1>2. CASE Free /\ EnterBuild(t, live) /\ UNCHANGED waiters
  <2>1. Queue' /\ owner = NoTask
    BY <1>2 DEF Queue, Free
  <2>2. /\ Lanes' /\ Published' /\ live' \in {live, NoLive} /\ build.step \notin Underway
        /\ pc'[t] \in Minds /\ \A x \in Tasks : x # t => pc'[x] = pc[x]
    BY <1>0, <1>2, <2>1, Begins
  <2>3. Attended'
    BY <1>0, <1>1, <2>2, StillAttended DEF CInv
  <2>. QED BY <2>2, <2>3 DEF CInv
<1>3. CASE Wait(t) /\ live' = live /\ UNCHANGED <<owner, build, warming>>
  <2>1. Lanes'
    BY <1>0, <1>3, Waits
  <2>2. /\ \A x \in Tasks : x # t => pc'[x] = pc[x]
        /\ pc'[t] \in Minds
    BY <1>3 DEF IInv, Core, TypeLock, Wait, Minds
  <2>3. Published'
    BY <1>3, StillPublished DEF CInv
  <2>4. Attended'
    BY <1>0, <1>1, <1>3, <2>2, StillAttended DEF CInv
  <2>. QED BY <2>1, <2>3, <2>4 DEF CInv
<1>. QED BY <1>2, <1>3 DEF SchemesFresh, AskBuild

\* The lock is given back by t, who goes on away from it.
LEMMA Releases ==
  ASSUME IInv, Lanes, NEW t \in Tasks, owner = t, owner' = NoTask,
         NEW p, p \notin Asked, pc' = [pc EXCEPT ![t] = p],
         UNCHANGED <<waiters, gen, cancelled, registered, starts>>
  PROVE  Lanes'
<1>1. /\ \A x \in Tasks : x # t => pc'[x] = pc[x] /\ pc[x] # "holding"
      /\ pc'[t] = p /\ pc[t] = "holding"
  BY Names DEF IInv, Core, TypeLock, Lanes, Places
<1>2. Started'
  <2>1. Busy' \subseteq Busy
    BY <1>1 DEF Busy
  <2>. QED BY <2>1, NoMoreBusy DEF Lanes
<1>3. Places' /\ Dated'
  BY <1>1 DEF Lanes, Places, Dated, Asked
<1>4. Queue'
  <2>1. \A i \in 1..Len(waiters) : waiters[i] \in Tasks
    BY DEF IInv, Core, TypeLock
  <2>. QED BY <1>1, <2>1 DEF Lanes, Queue
<1>5. Unborn'
  BY <1>1, Names DEF Lanes, Unborn
<1>6. WatchdogWaits'
  BY <1>1, Names DEF Lanes, WatchdogWaits
<1>. QED BY <1>2, <1>3, <1>4, <1>5, <1>6 DEF Lanes

\* A teardown that is through.
LEMMA TeardownEndsAttends ==
  ASSUME IInv, CInv, NEW t \in Tasks, TeardownEnds(t)
  PROVE  CInv'
<1>1. PICK p \in {"writing", "done", "idle"} : pc' = [pc EXCEPT ![t] = p]
  <2> DEFINE q == CASE t = PrivacySwitch -> "writing"
                    [] t \in Reaps -> "done"
                    [] OTHER -> "idle"
  <2>1. q \in {"writing", "done", "idle"}
    BY TasksDiffer
  <2>. QED BY <2>1 DEF TeardownEnds
<1>2. Lanes'
  BY <1>1, Releases DEF TeardownEnds, CInv, Asked
<1>3. \A x \in Tasks : x # t => pc'[x] = pc[x]
  BY <1>1 DEF IInv, Core, TypeLock
<1>4. pc[t] = "holding" /\ t \notin Keepers
  BY TasksDiffer, Names DEF TeardownEnds, CInv, Lanes, Places
<1>5. Kept => pc'[Keeper(gen)] \in Minds
  BY <1>3, <1>4, Names DEF Kept
<1>6. Capped => Capped'
  BY <1>3, <1>4, Names DEF Capped, Asleep, Ending, TeardownEnds
<1>7. Attended' /\ Published'
  BY <1>5, <1>6, StillAttended, StillPublished DEF TeardownEnds, CInv
<1>. QED BY <1>2, <1>7 DEF CInv

\* A build that failed leaves what it found, or nothing; its keeper sleeps on.
LEMMA BuildFailsAttends ==
  ASSUME IInv, CInv, ~NobodyBuilds, build.step \in {"put", "cleanup", "fallback"}, BuildFails,
         UNCHANGED <<keeperVars, starts>>
  PROVE  CInv'
<1>1. owner \in Tasks /\ ~Teardown(owner)
  BY DEF NobodyBuilds, IInv, Core, TypeLock
<1>2. pc' = [pc EXCEPT ![owner] = After(owner, None, tries)]
  BY DEF BuildFails
<1>3. After(owner, None, tries) \in {"done", "sleep", "retry", "idle"}
  BY AfterIsPC
<1>4. owner \in Keepers => After(owner, None, tries) = "sleep"
  BY TasksDiffer DEF After
<1>5. Lanes'
  <2>1. After(owner, None, tries) \notin Asked
    BY <1>3 DEF Asked
  <2>. QED BY <1>1, <1>2, <2>1, Releases DEF BuildFails, CInv
<1>6. /\ \A x \in Tasks : x # owner => pc'[x] = pc[x]
      /\ pc'[owner] = After(owner, None, tries) /\ pc[owner] = "holding"
  BY <1>1, <1>2, Names DEF IInv, Core, TypeLock, CInv, Lanes, Places
<1>7. Kept => pc'[Keeper(gen)] \in Minds
  BY <1>4, <1>6, Names DEF Kept, Minds
<1>8. Capped => Capped'
  <2>1. Capped => owner # <<"reap", gen>>
    BY <1>1, Names DEF Capped
  <2>2. Capped /\ Asleep(gen) => owner # Keeper(gen)
    BY <1>6 DEF Asleep
  <2>. QED BY <1>6, <2>1, <2>2, Names DEF Capped, Asleep
<1>9. live' \in {live, NoLive} /\ build'.step = None /\ build.step \notin Underway
  BY EmptyRecords DEF BuildFails, Underway
<1>10. Attended'
  BY <1>7, <1>8, <1>9, StillAttended DEF CInv
<1>11. Published'
  BY <1>9 DEF Published, WarmsUp, Finishes, None
<1>. QED BY <1>5, <1>10, <1>11 DEF CInv

\* A step of a build that goes on to the next await.
LEMMA GoesOn ==
  ASSUME IInv, CInv, UNCHANGED <<pc, owner, waiters, keeperVars, starts>>,
         Published',
         \/ build'.step \in Underway
         \/ live' = NoLive
         \/ live' = live /\ build.step \notin Underway
  PROVE  CInv'
<1>1. Lanes'
  BY NobodyMoves DEF CInv
<1>2. Attended'
  BY DEF CInv, Attended, Kept, Capped, Asleep, NoLive, None
<1>. QED BY <1>1, <1>2 DEF CInv

\* Another candidate, or none.
LEMMA NextCandidateAttends ==
  ASSUME IInv, CInv, ~NobodyBuilds, build.step \in {"put", "cleanup", "fallback"}, NextCandidate,
         UNCHANGED <<keeperVars, starts>>
  PROVE  CInv'
<1>1. CASE /\ build' = [build EXCEPT !.step = "put", !.todo = Tail(build.todo)]
           /\ UNCHANGED <<owner, waiters, pc, live, intent, errCount>>
  <2>1. build'.step = "put"
    BY <1>1 DEF IInv, Core, TypeLock, BuildType
  <2>2. Published'
    BY <2>1 DEF Published, WarmsUp, Finishes
  <2>. QED BY <1>1, <2>2, GoesOn DEF Underway
<1>2. CASE BuildFails
  BY <1>2, BuildFailsAttends
<1>. QED BY <1>1, <1>2 DEF NextCandidate

\* The candidate of a build stays while only its step changes.
LEMMA SameCandidate ==
  ASSUME IInv, NEW s \in Steps, build' = [build EXCEPT !.step = s]
  PROVE  build'.step = s /\ Candidate' = Candidate
<1>1. build'.step = s /\ build'.todo = build.todo
  BY DEF IInv, Core, TypeLock, BuildType
<1>. QED BY <1>1 DEF Candidate

\* The steps of a build from one await to the next.
LEMMA BuildStepAttends ==
  ASSUME IInv, CInv,
         ChooseCandidates \/ PutAccepted \/ ProxyStarts \/ ProxyRaises \/ StaleStopped
           \/ Prewarmed \/ PublishUrl \/ WarmupRaises
  PROVE  CInv'
<1> USE DEF Underway
<1>1. CASE ChooseCandidates
  <2>1. build'.step = "put" /\ build.step = "begin" /\ UNCHANGED <<live, pc, owner, waiters, keeperVars, starts>>
    BY <1>1 DEF ChooseCandidates, Building
  <2>2. Published'
    BY <2>1 DEF Published, WarmsUp, Finishes
  <2>. QED BY <2>1, <2>2, GoesOn
<1>2. CASE PutAccepted
  <2>1. /\ build' = [build EXCEPT !.step = "proxy"] /\ build.step = "put"
        /\ UNCHANGED <<live, pc, owner, waiters, keeperVars, starts>>
    BY <1>2 DEF PutAccepted, Building, Goes
  <2>2. build'.step = "proxy"
    BY <2>1, SameCandidate DEF Steps
  <2>3. Published'
    BY <2>2 DEF Published, WarmsUp, Finishes
  <2>. QED BY <2>1, <2>3, GoesOn
<1>3. CASE ProxyStarts
  <2>1. /\ build' = [build EXCEPT !.step = IF Candidate = "LOCAL" THEN "stale" ELSE "finish"]
        /\ UNCHANGED <<pc, owner, waiters, keeperVars, starts>>
        /\ live'.type = Candidate
    BY <1>3 DEF ProxyStarts, Goes
  <2>2. /\ build'.step = (IF Candidate = "LOCAL" THEN "stale" ELSE "finish")
        /\ Candidate' = Candidate
    BY <2>1, SameCandidate DEF Steps
  <2>3. Published'
    BY <2>1, <2>2 DEF Published, WarmsUp, Finishes
  <2>. QED BY <2>1, <2>2, <2>3, GoesOn
<1>4. CASE ProxyRaises
  <2>1. CASE live'.type = "DIRECT" /\ Goes("finish")
    <3>1. build'.step = "finish"
      BY <2>1, SameCandidate DEF Goes, Steps
    <3>2. Published'
      BY <2>1, <3>1 DEF Published, WarmsUp, Finishes
    <3>. QED BY <1>4, <2>1, <3>1, <3>2, GoesOn DEF ProxyRaises, Goes
  <2>2. CASE Goes("cleanup") /\ UNCHANGED live
    <3>1. build'.step = "cleanup" /\ build.step = "proxy"
      BY <1>4, <2>2, SameCandidate DEF Goes, Steps, ProxyRaises, Building
    <3>2. Published'
      BY <3>1 DEF Published, WarmsUp, Finishes
    <3>. QED BY <1>4, <2>2, <3>1, <3>2, GoesOn DEF ProxyRaises, Goes
  <2>. QED BY <1>4, <2>1, <2>2 DEF ProxyRaises
<1>5. ASSUME build.step \in {"stale", "prewarm"}, PrewarmFailed, UNCHANGED <<keeperVars, starts>>
      PROVE  CInv'
  <2>1. CASE live' = NoLive /\ Goes("fallback")
    <3>1. build'.step = "fallback"
      BY <2>1, SameCandidate DEF Goes, Steps
    <3>2. Published'
      BY <3>1 DEF Published, WarmsUp, Finishes
    <3>. QED BY <1>5, <2>1, <3>2, GoesOn DEF Goes
  <2>2. CASE Goes("door") /\ UNCHANGED live
    <3>1. build'.step = "door" /\ Candidate' = Candidate
      BY <2>2, SameCandidate DEF Goes, Steps
    <3>2. Published'
      BY <1>5, <3>1 DEF CInv, Published, WarmsUp, Finishes
    <3>. QED BY <1>5, <2>2, <3>1, <3>2, GoesOn DEF Goes
  <2>. QED BY <1>5, <2>1, <2>2 DEF PrewarmFailed
<1>6. ASSUME build.step \in {"stale", "prewarm"}, NEW s \in {"prewarm", "door"}, Goes(s),
             UNCHANGED <<live, keeperVars, starts>>
      PROVE  CInv'
  <2>1. build'.step = s /\ Candidate' = Candidate
    BY <1>6, SameCandidate DEF Goes, Steps
  <2>2. Published'
    BY <1>6, <2>1 DEF CInv, Published, WarmsUp, Finishes
  <2>. QED BY <1>6, <2>1, <2>2, GoesOn DEF Goes
<1>7. CASE StaleStopped
  BY <1>5, <1>6, <1>7 DEF StaleStopped, Building
<1>8. CASE Prewarmed
  BY <1>5, <1>6, <1>8 DEF Prewarmed, Building
<1>9. CASE PublishUrl
  <2>1. /\ build' = [build EXCEPT !.step = "finish"] /\ build.step = "door"
        /\ UNCHANGED <<pc, owner, waiters, keeperVars, starts>>
        /\ live'.type = "LOCAL"
    BY <1>9 DEF PublishUrl, Building, Goes
  <2>2. build'.step = "finish" /\ Candidate' = Candidate
    BY <2>1, SameCandidate DEF Steps
  <2>3. Published'
    BY <2>1, <2>2 DEF CInv, Published, WarmsUp, Finishes
  <2>. QED BY <2>1, <2>2, <2>3, GoesOn
<1>10. CASE WarmupRaises
  <2>1. /\ build' = [build EXCEPT !.step = "cleanup"] /\ live' = NoLive
        /\ UNCHANGED <<pc, owner, waiters, keeperVars, starts>>
    BY <1>10 DEF WarmupRaises, Goes
  <2>2. build'.step = "cleanup"
    BY <2>1, SameCandidate DEF Steps
  <2>3. Published'
    BY <2>2 DEF Published, WarmsUp, Finishes
  <2>. QED BY <2>1, <2>3, GoesOn
<1>. QED BY <1>1, <1>2, <1>3, <1>4, <1>7, <1>8, <1>9, <1>10

\* A candidate that comes to nothing.
LEMMA CandidateFailsAttends ==
  ASSUME IInv, CInv, PutRefused \/ CandidateCleaned
  PROVE  CInv'
<1>1. ~NobodyBuilds /\ build.step \in {"put", "cleanup", "fallback"}
  BY DEF PutRefused, CandidateCleaned, Building, IInv, Core, Progress, None
<1>. QED BY <1>1, NextCandidateAttends DEF PutRefused, CandidateCleaned

\* A build that succeeds starts the keeper of its own generation.
LEMMA BuildSucceedsAttends ==
  ASSUME IInv, CInv, BuildSucceeds
  PROVE  CInv'
<1> DEFINE g == gen + 1
<1>1. /\ owner \in Tasks /\ ~Teardown(owner) /\ build.step = "finish"
      /\ Candidate \in {"LOCAL", "REMOTE"}
  <2>1. Building("finish") /\ "finish" \in Steps \ {None} /\ "finish" # "begin"
    BY DEF BuildSucceeds, Steps, None
  <2>. QED BY <2>1, Builder
<1>2. /\ pc[owner] = "holding" /\ \A x \in Tasks : pc[x] = "holding" => x = owner
      /\ owner \in Busy
  BY <1>1, Names DEF CInv, Lanes, Places, Busy, Asked
<1>3. g \in Nat /\ gen \in Nat /\ g > gen
  BY DEF IInv, TypeKeeper
<1>4. /\ After(owner, Candidate, tries) \in {"done", "sleep", "retry", "idle"}
      /\ g \in 1..MaxStarts
  BY <1>2, AfterIsPC, Room DEF CInv, Lanes
<1>5. /\ pc[Keeper(g)] = "idle" /\ Keeper(g) \in Tasks /\ Keeper(g) # owner
      /\ Keeper(g) # Watchdog
  BY <1>2, <1>3, <1>4, Names DEF CInv, Lanes, Unborn
<1>6. owner = TurnOn => pc[Watchdog] = "idle"
  BY <1>2 DEF CInv, Lanes, WatchdogWaits, Asked
<1> DEFINE watch == owner = TurnOn /\ Candidate = "LOCAL" /\ "watchdog" \in Enabled
<1>7. pc' = [x \in Tasks |->
               CASE x = owner -> After(x, Candidate, tries)
                 [] x = Keeper(g) -> "sleep"
                 [] x = Watchdog /\ watch -> "sleep"
                 [] pc[x] = "deciding" /\ Candidate = "LOCAL" -> "done"
                 [] OTHER -> pc[x]]
  BY DEF BuildSucceeds, Keeper
<1>8. pc'[owner] = After(owner, Candidate, tries) /\ pc'[Keeper(g)] = "sleep"
  <2>1. owner # Keeper(g) /\ ~(owner = Watchdog /\ watch) /\ pc[owner] # "deciding"
    BY <1>2, <1>5, Names
  <2>2. pc[Keeper(g)] # "deciding"
    BY <1>5
  <2>3. pc'[owner] = After(owner, Candidate, tries)
    BY <1>1, <1>7, <2>1
  <2>4. pc'[Keeper(g)] = "sleep"
    BY <1>5, <1>7, <2>2
  <2>. QED BY <2>3, <2>4
<1>9. \A x \in Tasks : x # owner /\ x # Keeper(g) /\ pc[x] # "deciding" /\ ~(x = Watchdog /\ watch) => pc'[x] = pc[x]
  BY <1>7
<1>10. \A x \in Tasks : x # owner /\ x # Keeper(g) => pc'[x] \in {pc[x], "sleep", "done"}
  <2> SUFFICES ASSUME NEW x \in Tasks, x # owner, x # Keeper(g) PROVE pc'[x] \in {pc[x], "sleep", "done"}
    OBVIOUS
  <2>1. CASE x = Watchdog /\ watch
    <3>1. pc[x] # "deciding"
      BY <1>6, <2>1
    <3>. QED BY <1>7, <2>1, <3>1
  <2>2. CASE ~(x = Watchdog /\ watch) /\ pc[x] = "deciding" /\ Candidate = "LOCAL"
    BY <1>7, <2>2
  <2>3. CASE ~(x = Watchdog /\ watch) /\ ~(pc[x] = "deciding" /\ Candidate = "LOCAL")
    BY <1>7, <2>3
  <2>. QED BY <2>1, <2>2, <2>3
<1>11. gen' = g /\ starts' = starts /\ waiters' = waiters /\ owner' = NoTask /\ build'.step = None
  BY EmptyRecords DEF BuildSucceeds
<1>12. Started'
  <2>1. Busy' \subseteq Busy \ {owner}
    <3> SUFFICES ASSUME NEW x \in Busy' PROVE x \in Busy /\ x # owner
      OBVIOUS
    <3>1. x \in Tasks /\ ~Teardown(x) /\ pc'[x] \in Asked
      BY DEF Busy
    <3>2. x # owner /\ x # Keeper(g)
      BY <1>4, <1>8, <3>1 DEF Asked
    <3>3. pc'[x] = pc[x]
      BY <1>10, <3>1, <3>2 DEF Asked
    <3>. QED BY <3>1, <3>2, <3>3 DEF Busy
  <2>. QED BY <1>2, <1>11, <2>1, OneLessBusy DEF CInv, Lanes
<1>13. Places'
  <2>1. \A x \in Tasks : pc'[x] # "holding"
    BY <1>2, <1>4, <1>8, <1>10
  <2>. QED BY <1>11, <2>1 DEF Places
<1>14. Queue'
  <2>1. \A i \in 1..Len(waiters) : waiters[i] \in Tasks /\ pc[waiters[i]] = "queued"
    BY DEF IInv, Core, TypeLock, CInv, Lanes, Queue
  <2>2. \A x \in Tasks : pc[x] = "queued" => pc'[x] = "queued"
    BY <1>2, <1>5, <1>6, <1>9
  <2>. QED BY <1>11, <2>1, <2>2 DEF CInv, Lanes, Queue
<1>15. Dated' /\ registered' = g /\ cancelled' = cancelled \cup ({registered} \ {0}) /\ g \notin cancelled'
  <2>1. registered' = g /\ cancelled' = cancelled \cup ({registered} \ {0})
    BY DEF BuildSucceeds, CancelRegistered
  <2>2. registered \in 0..gen /\ cancelled \subseteq 0..gen
    BY DEF CInv, Lanes, Dated
  <2>. QED BY <1>3, <1>11, <2>1, <2>2 DEF Dated
<1>16. Unborn'
  <2> SUFFICES ASSUME NEW h \in 1..MaxStarts, h > gen' PROVE pc'[Keeper(h)] = "idle"
    BY DEF Unborn
  <2>1. h > gen /\ h # g
    BY <1>3, <1>11
  <2>2. pc[Keeper(h)] = "idle" /\ Keeper(h) \in Tasks /\ Keeper(h) # Keeper(g) /\ Keeper(h) # Watchdog
    BY <1>4, <2>1, Names DEF CInv, Lanes, Unborn
  <2>. QED BY <1>2, <1>9, <2>2
<1>17. WatchdogWaits'
  <2> SUFFICES ASSUME pc'[TurnOn] \in Asked PROVE pc'[Watchdog] = "idle"
    BY DEF WatchdogWaits
  <2>1. TurnOn # owner /\ TurnOn # Keeper(g)
    BY <1>4, <1>8, Names DEF Asked
  <2>2. pc[TurnOn] \in Asked
    BY <1>10, <2>1, Names DEF Asked
  <2>3. pc[Watchdog] = "idle" /\ Watchdog # owner
    BY <1>2, <2>2 DEF CInv, Lanes, WatchdogWaits
  <2>. QED BY <1>5, <1>9, <2>1, <2>3, Names
<1>18. Published'
  BY <1>11 DEF Published, WarmsUp, Finishes, None
<1>19. Attended'
  <2>1. kind'[g] = Candidate
    BY <1>4 DEF BuildSucceeds, IInv, TypeKeeper
  <2>2. live'.type = live.type
    <3>1. CASE live = NoLive /\ live' = live
      BY <3>1
    <3>2. CASE live' = [live EXCEPT !.gen = g]
      BY <3>2 DEF IInv, Core, TypeLock, LiveType
    <3>. QED BY <3>1, <3>2 DEF BuildSucceeds
  <2>3. live'.type \in {"LOCAL", "REMOTE"} => live'.type = Candidate
    BY <1>1, <2>2 DEF CInv, Published, Finishes
  <2>. QED BY <1>4, <1>8, <1>11, <1>15, <2>1, <2>3 DEF Attended, Kept, Capped, Asleep, Minds
<1>. QED BY <1>12, <1>13, <1>14, <1>15, <1>16, <1>17, <1>18, <1>19 DEF CInv, Lanes

\* A step away from the lock in which nobody moves.
LEMMA NothingMoves ==
  ASSUME IInv, CInv, UNCHANGED <<pc, lockVars, keeperVars, starts>>, live' \in {live, NoLive}
  PROVE  CInv'
<1>1. Lanes'
  BY NobodyMoves DEF CInv
<1>2. Published'
  BY StillPublished DEF CInv
<1>3. Attended'
  BY Unmoved, StillAttended DEF CInv
<1>. QED BY <1>1, <1>2, <1>3 DEF CInv

\* A step away from the lock of a task that exists once.
LEMMA OneMoves ==
  ASSUME IInv, CInv, NEW t \in Singles, NEW p, p \notin Asked, pc[t] \notin Asked,
         pc' = [pc EXCEPT ![t] = p], t = Watchdog => pc[t] # "idle",
         UNCHANGED <<lockVars, keeperVars, starts>>, live' \in {live, NoLive}
  PROVE  CInv'
<1>1. t \in Tasks /\ t \notin Keepers
  BY TasksDiffer
<1>2. Lanes'
  BY <1>1, MovesAside DEF CInv
<1>3. Published'
  BY StillPublished DEF CInv
<1>4. \A x \in Tasks : x # t => pc'[x] = pc[x]
  BY DEF IInv, Core, TypeLock
<1>5. gen \in 1..MaxStarts => pc'[Keeper(gen)] = pc[Keeper(gen)] /\ pc'[<<"reap", gen>>] = pc[<<"reap", gen>>]
  BY <1>4, Names
<1>6. Attended'
  BY <1>5, Unmoved, StillAttended DEF CInv
<1>. QED BY <1>2, <1>3, <1>6 DEF CInv

\* The tasks that ask for a session.
LEMMA CallersAttend ==
  ASSUME IInv, CInv,
         SwitchOn \/ CardOpens \/ SnapshotRenews \/ LanReachable \/ WatchdogRestarts
           \/ RescueRetries \/ DiedRebuilds
  PROVE  CInv'
<1> USE TasksDiffer
<1>0. tries \in 0..3 /\ live \in {live, NoLive}
  BY DEF IInv, TypeHealth
<1>1. CASE SwitchOn
  <2>1. Calls(TurnOn, tries)
    BY <1>0, <1>1, Names DEF SwitchOn, Calls
  <2>. QED BY <1>0, <1>1, <2>1, CallAttends DEF SwitchOn
<1>2. CASE CardOpens
  <2>1. Calls(AutoOpen, tries)
    BY <1>0, <1>2 DEF CardOpens, Calls, AutoOpen, Watchdog, TurnOn
  <2>. QED BY <1>0, <1>2, <2>1, CallAttends DEF CardOpens
<1>3. CASE SnapshotRenews
  <2>1. Calls(Snapshot, tries)
    BY <1>0, <1>3 DEF SnapshotRenews, Calls, Snapshot, Watchdog, TurnOn
  <2>2. PICK l \in {live, NoLive} : Call(Snapshot, l, tries)
    BY <1>3 DEF SnapshotRenews
  <2>. QED BY <1>3, <2>1, <2>2, CallAttends DEF SnapshotRenews
<1>4. CASE LanReachable
  <2>1. CASE UNCHANGED <<live, warming, pc, lockVars, starts>>
    BY <1>4, <2>1, NothingMoves DEF LanReachable
  <2>2. CASE pc[Promote] = "idle" /\ Call(Promote, live, tries)
    <3>1. Calls(Promote, tries)
      BY <1>0, <2>2 DEF Calls, Promote, Watchdog, TurnOn
    <3>. QED BY <1>0, <1>4, <2>2, <3>1, CallAttends DEF LanReachable
  <2>. QED BY <1>4, <2>1, <2>2 DEF LanReachable
<1>5. CASE WatchdogRestarts
  <2>1. CASE Call(Watchdog, live, tries)
    <3>1. Calls(Watchdog, tries)
      BY <1>0, <1>5, Names DEF WatchdogRestarts, Calls
    <3>. QED BY <1>0, <1>5, <2>1, <3>1, CallAttends DEF WatchdogRestarts
  <2>2. CASE WatchdogDone /\ UNCHANGED <<live, warming, lockVars, starts>>
    BY <1>5, <2>2, OneMoves DEF WatchdogRestarts, WatchdogDone, Asked
  <2>. QED BY <1>5, <2>1, <2>2 DEF WatchdogRestarts
<1>6. CASE RescueRetries
  <2>1. Calls(Worker, tries')
    BY <1>6 DEF RescueRetries, Calls, Worker, Watchdog, TurnOn, IInv, TriesLeft
  <2>. QED BY <1>0, <1>6, <2>1, CallAttends DEF RescueRetries
<1>7. CASE DiedRebuilds
  <2>1. CASE Call(Died, live, tries)
    <3>1. Calls(Died, tries)
      BY <1>0, <1>7 DEF DiedRebuilds, Calls, Died, Watchdog, TurnOn
    <3>. QED BY <1>0, <1>7, <2>1, <3>1, CallAttends DEF DiedRebuilds
  <2>2. CASE pc' = [pc EXCEPT ![Died] = "idle"] /\ UNCHANGED <<live, warming, lockVars, starts>>
    <3>1. pc[Died] \notin Asked /\ "idle" \notin Asked /\ Died # Watchdog
      BY <1>7 DEF DiedRebuilds, Asked, Died, Watchdog
    <3>. QED BY <1>7, <2>2, <3>1, OneMoves DEF DiedRebuilds
  <2>. QED BY <1>7, <2>1, <2>2 DEF DiedRebuilds
<1>. QED BY <1>1, <1>2, <1>3, <1>4, <1>5, <1>6, <1>7

\* The stream worker's error asks for a rebuild, or is only counted.
LEMMA WorkerErrorAttends ==
  ASSUME IInv, CInv, NEW auth \in BOOLEAN, NEW decayed \in BOOLEAN, WorkerError(auth, decayed)
  PROVE  CInv'
<1>1. CASE UNCHANGED <<live, warming, pc, lockVars, starts>>
  BY <1>1, NothingMoves DEF WorkerError
<1>2. CASE \E l \in {live, NoLive} : Call(Worker, l, tries')
  <2>1. PICK l \in {live, NoLive} : Call(Worker, l, tries')
    BY <1>2
  <2>2. tries' \in 0..3 /\ pc[Worker] = "idle"
    BY DEF WorkerError
  <2>3. Calls(Worker, tries')
    BY <2>2, TasksDiffer DEF Calls, Worker, Watchdog, TurnOn
  <2>. QED BY <2>1, <2>3, CallAttends DEF WorkerError
<1>. QED BY <1>1, <1>2 DEF WorkerError

\* The keepalive renews its session.
LEMMA KeeperRenewsAttends ==
  ASSUME IInv, CInv, NEW g \in 1..MaxStarts, KeeperRenews(g)
  PROVE  CInv'
<1>1. tries \in 0..3 /\ live \in {live, NoLive}
  BY DEF IInv, TypeHealth
<1>2. Calls(Keeper(g), tries)
  <2>1. Keeper(g)[2] = g
    BY DEF Keeper
  <2>2. Keeper(g) \in Tasks /\ ~Teardown(Keeper(g)) /\ Keeper(g) # Watchdog /\ Keeper(g) # TurnOn
    BY Names
  <2>3. pc[Keeper(g)] = "sleep" /\ kind[g] = "LOCAL"
    BY DEF KeeperRenews, Asleep
  <2>. QED BY <1>1, <2>1, <2>2, <2>3 DEF Calls
<1>. QED BY <1>1, <1>2, CallAttends DEF KeeperRenews

\* The tasks that ask for a teardown.
LEMMA AskersAttend ==
  ASSUME IInv, CInv, SwitchOff \/ PrivacyOnRequested \/ PrivacyDetected
  PROVE  CInv'
<1> USE TasksDiffer
<1>1. CASE SwitchOff
  BY <1>1, AskTeardownAttends DEF SwitchOff
<1>2. CASE PrivacyOnRequested
  <2>1. CASE AskTeardown(PrivacySwitch, intent)
    BY <1>2, <2>1, AskTeardownAttends DEF PrivacyOnRequested
  <2>2. CASE pc' = [pc EXCEPT ![PrivacySwitch] = "writing"]
             /\ UNCHANGED <<live, warming, intent, healthVars, keeperVars, lockVars>>
    <3>1. pc[PrivacySwitch] \notin Asked /\ "writing" \notin Asked /\ PrivacySwitch # Watchdog
      BY <1>2 DEF PrivacyOnRequested, Asked, PrivacySwitch, Watchdog
    <3>. QED BY <1>2, <2>2, <3>1, OneMoves DEF PrivacyOnRequested
  <2>. QED BY <1>2, <2>1, <2>2 DEF PrivacyOnRequested
<1>3. CASE PrivacyDetected
  <2>1. CASE AskTeardown(PrivacySeen, intent)
    BY <1>3, <2>1, AskTeardownAttends DEF PrivacyDetected
  <2>2. CASE UNCHANGED <<live, warming, intent, healthVars, keeperVars, pc, lockVars>>
    BY <1>3, <2>2, NothingMoves DEF PrivacyDetected
  <2>. QED BY <1>3, <2>1, <2>2 DEF PrivacyDetected
<1>. QED BY <1>1, <1>2, <1>3

\* The guarded teardown of a generation asks too.
LEMMA GuardedTeardownAttends ==
  ASSUME IInv, CInv, NEW g \in 1..MaxStarts, GuardedTeardown(g)
  PROVE  CInv'
BY Names, AskTeardownAttends DEF GuardedTeardown

\* The other steps away from the lock.
LEMMA OthersAttend ==
  ASSUME IInv, CInv,
         PrivacyWritten \/ PrivacyOff \/ StaleWarmingCleared \/ WatchdogTick \/ ProxyDies
  PROVE  CInv'
<1> USE TasksDiffer
<1>1. CASE PrivacyWritten
  <2>1. pc[PrivacySwitch] \notin Asked /\ "idle" \notin Asked /\ PrivacySwitch # Watchdog
    BY <1>1 DEF PrivacyWritten, Asked, PrivacySwitch, Watchdog
  <2>. QED BY <1>1, <2>1, OneMoves DEF PrivacyWritten
<1>2. CASE PrivacyOff
  BY <1>2, NothingMoves DEF PrivacyOff
<1>3. CASE StaleWarmingCleared
  BY <1>3, NothingMoves DEF StaleWarmingCleared
<1>4. CASE WatchdogTick
  <2>1. pc[Watchdog] = "sleep" /\ live' \in {live, NoLive} /\ UNCHANGED <<keeperVars, lockVars, starts>>
    BY <1>4 DEF WatchdogTick
  <2>2. PICK p \in {"idle", "sleep", "stopping"} : pc' = [pc EXCEPT ![Watchdog] = p]
    BY <1>4 DEF WatchdogTick, WatchdogDone, WatchdogSleeps
  <2>3. p \notin Asked /\ pc[Watchdog] \notin Asked
    BY <2>1 DEF Asked
  <2>. QED BY <2>1, <2>2, <2>3, OneMoves
<1>5. CASE ProxyDies
  <2>1. CASE UNCHANGED pc
    BY <1>5, <2>1, NothingMoves DEF ProxyDies
  <2>2. CASE pc[Died] = "idle" /\ pc' = [pc EXCEPT ![Died] = "prewait"]
    <3>1. pc[Died] \notin Asked /\ "prewait" \notin Asked /\ Died # Watchdog
      BY <2>2 DEF Asked, Died, Watchdog
    <3>. QED BY <1>5, <2>2, <3>1, OneMoves DEF ProxyDies
  <2>. QED BY <1>5, <2>1, <2>2 DEF ProxyDies
<1>. QED BY <1>1, <1>2, <1>3, <1>4, <1>5

\* A keeper that goes was of another generation, was cancelled, or had no such
\* session left.
LEMMA KeeperGoes ==
  ASSUME IInv, CInv, NEW g \in 1..MaxStarts, pc' = [pc EXCEPT ![Keeper(g)] = "done"],
         UNCHANGED <<live, build, gen, kind, cancelled>>,
         g \in cancelled \/ gen # g \/ live.type # kind[g]
  PROVE  Attended'
<1>1. \A x \in Tasks : x # Keeper(g) => pc'[x] = pc[x]
  BY DEF IInv, Core, TypeLock
<1>2. gen \in 1..MaxStarts => pc'[<<"reap", gen>>] = pc[<<"reap", gen>>]
  BY <1>1, Names
<1>3. gen \in 1..MaxStarts /\ gen # g => pc'[Keeper(gen)] = pc[Keeper(gen)]
  BY <1>1, Names
<1>4. live.type = "LOCAL" /\ Kept => pc'[Keeper(gen)] \in Minds
  BY <1>3 DEF Kept
<1>5. live.type = "REMOTE" /\ Capped => Capped'
  BY <1>2, <1>3 DEF Capped, Asleep
<1>. QED BY <1>4, <1>5, StillAttended DEF CInv

\* A keeper that was cancelled unwinds, out of the line if it waited there.
LEMMA KeeperUnwindsAttends ==
  ASSUME IInv, CInv, NEW g \in 1..MaxStarts, KeeperUnwinds(g)
  PROVE  CInv'
<1> DEFINE t == Keeper(g)
<1>0. /\ pc' = [pc EXCEPT ![t] = "done"] /\ registered' = 0 /\ g \in cancelled
      /\ UNCHANGED <<live, owner, build, gen, kind, cancelled, starts>>
  BY DEF KeeperUnwinds, KeeperEnds
<1>1. Attended'
  BY <1>0, KeeperGoes
<1>2. Published'
  BY <1>0, StillPublished DEF CInv
<1>3. t \in Tasks /\ t # TurnOn /\ t # Watchdog /\ t # NoTask
  BY Names
<1>4. /\ \A x \in Tasks : x # t => pc'[x] = pc[x]
      /\ pc'[t] = "done"
  BY <1>0, <1>3 DEF IInv, Core, TypeLock
<1>5. CASE pc[t] = "sleep" /\ UNCHANGED waiters
  <2>1. Lanes'
    BY <1>0, <1>3, <1>5, MovesAside DEF CInv, Asked
  <2>. QED BY <1>1, <1>2, <2>1 DEF CInv
<1>6. ASSUME pc[t] = "queued", NEW i \in 1..Len(waiters), waiters[i] = t,
             waiters' = SubSeq(waiters, 1, i - 1) \o SubSeq(waiters, i + 1, Len(waiters))
      PROVE  Lanes'
  <2>1. Started'
    <3>1. Busy' \subseteq Busy
      BY <1>4 DEF Busy, Asked
    <3>. QED BY <1>0, <3>1, NoMoreBusy DEF CInv, Lanes
  <2>2. Places'
    BY <1>0, <1>4, <1>6 DEF CInv, Lanes, Places, IInv, Core, TypeLock
  <2>3. Dated'
    BY <1>0 DEF CInv, Lanes, Dated, IInv, TypeKeeper
  <2>4. Unborn' /\ WatchdogWaits'
    BY <1>0, <1>3, <1>4, <1>6, Names DEF CInv, Lanes, Unborn, WatchdogWaits
  <2>5. Queue'
    <3>1. waiters \in Seq(Tasks)
      BY DEF IInv, Core, TypeLock
    <3>2. PICK n \in Nat : n = Len(waiters)
      BY <3>1
    <3>3. i \in 1..n /\ i - 1 \in 0..n /\ i + 1 \in 1..n + 1
      BY <3>2
    <3> DEFINE A == SubSeq(waiters, 1, i - 1)
               B == SubSeq(waiters, i + 1, n)
    <3>4. A \in Seq(Tasks) /\ Len(A) = i - 1 /\ \A j \in 1..i - 1 : A[j] = waiters[j]
      <4>1. \A j \in 1..i - 1 : j \in 1..n /\ waiters[j] \in Tasks
        BY <3>1, <3>2, <3>3
      <4>. QED BY <4>1, <3>1, <3>2, <3>3
    <3>5. B \in Seq(Tasks) /\ Len(B) = n - i /\ \A j \in 1..n - i : B[j] = waiters[i + j]
      <4>1. \A j \in i + 1..n : j \in 1..n /\ waiters[j] \in Tasks
        BY <3>1, <3>2, <3>3
      <4>. QED BY <4>1, <3>1, <3>2, <3>3
    <3>6. waiters' = A \o B
      BY <1>6, <3>2
    <3> HIDE DEF A, B
    <3>7. /\ waiters' \in Seq(Tasks) /\ Len(waiters') = n - 1
          /\ \A j \in 1..n - 1 : waiters'[j] = IF j <= i - 1 THEN A[j] ELSE B[j - (i - 1)]
      <4>1. waiters' \in Seq(Tasks) /\ Len(waiters') = Len(A) + Len(B)
        BY <3>4, <3>5, <3>6, ConcatProperties
      <4>2. \A j \in 1..Len(A) + Len(B) : waiters'[j] = IF j <= Len(A) THEN A[j] ELSE B[j - Len(A)]
        BY <3>4, <3>5, <3>6, ConcatProperties
      <4>3. (i - 1) + (n - i) = n - 1
        BY <3>2, <3>3
      <4>. QED BY <3>4, <3>5, <4>1, <4>2, <4>3
    <3>8. \A j \in 1..n - 1 : waiters'[j] = waiters[IF j < i THEN j ELSE j + 1]
      <4> TAKE j \in 1..n - 1
      <4>1. CASE j < i
        <5>1. j \in 1..i - 1
          BY <3>3, <4>1
        <5>. QED BY <3>3, <3>4, <3>7, <4>1, <5>1
      <4>2. CASE ~(j < i)
        <5>1. j - (i - 1) \in 1..n - i /\ i + (j - (i - 1)) = j + 1 /\ ~(j <= i - 1)
          BY <3>3, <4>2
        <5>. QED BY <3>5, <3>7, <4>2, <5>1
      <4>. QED BY <4>1, <4>2
    <3>. QED BY <1>3, <1>4, <1>6, <3>2, <3>7, <3>8, LineMoves, ZenonT(60)
  <2>. QED BY <2>1, <2>2, <2>3, <2>4, <2>5 DEF Lanes
<1>. QED BY <1>1, <1>2, <1>5, <1>6 DEF CInv, KeeperUnwinds

\* A keeper that finds another session leaves it alone.
LEMMA KeeperLeavesAttends ==
  ASSUME IInv, CInv, NEW g \in 1..MaxStarts, KeeperLeaves(g)
  PROVE  CInv'
<1>1. /\ pc' = [pc EXCEPT ![Keeper(g)] = "done"] /\ registered' = 0
      /\ gen # g \/ live.type # kind[g]
      /\ pc[Keeper(g)] = "sleep"
      /\ UNCHANGED <<live, lockVars, gen, kind, cancelled, starts>>
  BY DEF KeeperLeaves, KeeperEnds, Asleep
<1>2. Keeper(g) \in Tasks
  BY Names
<1>3. Lanes'
  BY <1>1, <1>2, MovesAside DEF CInv, Asked
<1>4. Attended'
  BY <1>1, KeeperGoes
<1>5. Published'
  BY <1>1, StillPublished DEF CInv
<1>. QED BY <1>3, <1>4, <1>5 DEF CInv

\* The terminator hands its session to the teardown of its own generation.
LEMMA TerminatorFiresAttends ==
  ASSUME IInv, CInv, NEW g \in 1..MaxStarts, TerminatorFires(g)
  PROVE  CInv'
<1> DEFINE t == Keeper(g)
           r == <<"reap", g>>
<1>1. /\ pc' = [pc EXCEPT ![t] = "done", ![r] = "spawned"] /\ registered' = 0
      /\ pc[t] = "sleep" /\ pc[r] = "idle" /\ gen = g /\ live.type = "REMOTE"
      /\ UNCHANGED <<live, lockVars, gen, kind, cancelled, starts>>
  BY DEF TerminatorFires, Asleep
<1>2. /\ t \in Tasks /\ r \in Tasks /\ t # r
      /\ t # TurnOn /\ r # TurnOn /\ t # Watchdog /\ r # Watchdog
      /\ \A h \in 1..MaxStarts : Keeper(h) # r /\ (Keeper(h) = t => h = g)
  BY Names
<1> HIDE DEF t, r
<1>3. /\ \A x \in Tasks : x # t /\ x # r => pc'[x] = pc[x]
      /\ pc'[t] = "done" /\ pc'[r] = "spawned"
  BY <1>1, <1>2 DEF IInv, Core, TypeLock
<1>4. Started'
  <2>1. Busy' \subseteq Busy
    BY <1>3 DEF Busy, Asked
  <2>. QED BY <1>1, <2>1, NoMoreBusy DEF CInv, Lanes
<1>5. Places'
  BY <1>1, <1>3 DEF CInv, Lanes, Places, IInv, Core, TypeLock
<1>6. Queue'
  <2>1. \A i \in 1..Len(waiters) : waiters[i] \in Tasks
    BY DEF IInv, Core, TypeLock
  <2>. QED BY <1>1, <1>3, <2>1, ZenonT(60) DEF CInv, Lanes, Queue
<1>7. Dated'
  BY <1>1 DEF CInv, Lanes, Dated, IInv, TypeKeeper
<1>8. Unborn'
  <2> SUFFICES ASSUME NEW h \in 1..MaxStarts, h > gen PROVE pc'[Keeper(h)] = "idle"
    BY <1>1 DEF Unborn
  <2>1. h # g /\ Keeper(h) \in Tasks
    BY <1>1, Names
  <2>. QED BY <1>2, <1>3, <2>1 DEF CInv, Lanes, Unborn
<1>9. WatchdogWaits'
  BY <1>2, <1>3, Names DEF CInv, Lanes, WatchdogWaits
<1>10. Published'
  BY <1>1, StillPublished DEF CInv
<1>11. Capped => Capped'
  BY <1>1, <1>3 DEF Capped, Ending, r
<1>12. Attended'
  BY <1>1, <1>11, StillAttended DEF CInv
<1>. QED BY <1>4, <1>5, <1>6, <1>7, <1>8, <1>9, <1>10, <1>12 DEF CInv, Lanes

\* The idle reaper of a LOCAL session is no terminator's teardown.
LEMMA ReaperAttends ==
  ASSUME IInv, CInv, NEW g \in 1..MaxStarts, ReaperChecks(g) \/ ReaperDecides(g)
  PROVE  CInv'
<1> DEFINE r == <<"reap", g>>
<1>1. /\ pc[r] \in {"idle", "deciding"} /\ UNCHANGED <<live, lockVars, starts, keeperVars>>
      /\ pc[r] = "idle" => kind[g] = "LOCAL"
  BY DEF ReaperChecks, ReaperDecides
<1>2. PICK p \in {"deciding", "idle", "spawned"} : pc' = [pc EXCEPT ![r] = p]
  BY DEF ReaperChecks, ReaperDecides
<1>3. r \in Tasks /\ r \notin Keepers /\ r # Watchdog
  BY Names, TasksDiffer
<1>4. \A x \in Tasks : x # r => pc'[x] = pc[x]
  BY <1>2 DEF IInv, Core, TypeLock
<1>5. Lanes'
  BY <1>1, <1>2, <1>3, MovesAside DEF CInv, Asked
<1>6. Published'
  BY <1>1, StillPublished DEF CInv
<1>7. gen \in 1..MaxStarts => pc'[Keeper(gen)] = pc[Keeper(gen)]
  BY <1>4, Names
<1>8. Kept => pc'[Keeper(gen)] \in Minds
  BY <1>7 DEF Kept
<1>9. Capped => Capped'
  <2>1. Capped /\ gen # g => pc'[<<"reap", gen>>] = pc[<<"reap", gen>>]
    BY <1>4, Names DEF Capped
  <2>2. Capped /\ gen = g => Asleep(gen)
    BY <1>1 DEF Capped, Ending
  <2>. QED BY <1>1, <1>7, <2>1, <2>2 DEF Capped, Asleep
<1>10. Attended'
  BY <1>1, <1>8, <1>9, StillAttended DEF CInv
<1>. QED BY <1>5, <1>6, <1>10 DEF CInv

\* Nobody is about when the integration starts.
LEMMA InitAttends == Init => CInv
<1> SUFFICES ASSUME Init PROVE CInv
  OBVIOUS
<1>1. \A t \in Tasks : pc[t] = "idle"
  BY DEF Init
<1>2. Busy = {} /\ Cardinality(Busy) = 0
  <2>1. Busy = {}
    BY <1>1 DEF Busy, Asked
  <2>. QED BY <2>1, FS_EmptySet
<1>3. Started
  BY <1>2 DEF Started, Init
<1>4. Places /\ Dated /\ Unborn /\ WatchdogWaits
  BY <1>1, Names DEF Init, Places, Dated, Unborn, WatchdogWaits
<1>5. Queue
  BY DEF Init, Queue
<1>6. Published /\ Attended
  BY DEF Init, NoLive, NoBuild, Published, WarmsUp, Finishes, Attended, None
<1>. QED BY <1>3, <1>4, <1>5, <1>6 DEF CInv, Lanes

\* Every step leaves the session with who looks after it.
LEMMA NextAttends == IInv /\ CInv /\ [Next]_vars => CInv'
<1> SUFFICES ASSUME IInv, CInv, [Next]_vars PROVE CInv'
  OBVIOUS
<1>1. CASE SwitchOn \/ CardOpens \/ SnapshotRenews \/ LanReachable \/ WatchdogRestarts
             \/ RescueRetries \/ DiedRebuilds
  BY <1>1, CallersAttend
<1>2. CASE SwitchOff \/ PrivacyOnRequested \/ PrivacyDetected
  BY <1>2, AskersAttend
<1>3. CASE PrivacyWritten \/ PrivacyOff \/ StaleWarmingCleared \/ WatchdogTick \/ ProxyDies
  BY <1>3, OthersAttend
<1>4. CASE \E t \in Tasks : Acquire(t) \/ SchemesFresh(t) \/ TeardownEnds(t)
  BY <1>4, AcquireAttends, SchemesFreshAttends, TeardownEndsAttends
<1>5. CASE BuildStep
  BY <1>5, BuildStepAttends, CandidateFailsAttends, BuildSucceedsAttends DEF BuildStep
<1>6. CASE \E g \in 1..MaxStarts : KeeperStep(g)
  BY <1>6, KeeperUnwindsAttends, KeeperLeavesAttends, KeeperRenewsAttends, TerminatorFiresAttends,
     ReaperAttends, GuardedTeardownAttends DEF KeeperStep
<1>7. CASE \E auth, decayed \in BOOLEAN : WorkerError(auth, decayed)
  BY <1>7, WorkerErrorAttends
<1>8. CASE UNCHANGED vars
  <2>1. live' \in {live, NoLive} /\ UNCHANGED <<pc, lockVars, keeperVars, starts>>
    BY <1>8 DEF vars
  <2>. QED BY <2>1, NothingMoves
<1>. QED BY <1>1, <1>2, <1>3, <1>4, <1>5, <1>6, <1>7, <1>8 DEF Next

\* For every bound and every set of tasks a session that nobody is rebuilding
\* is looked after until it ends: a LOCAL one by the keepalive of the current
\* generation, running and not cancelled, a REMOTE one by its terminator or by
\* the teardown that the terminator scheduled.
THEOREM SessionIsLookedAfter == Spec => []LookedAfter
<1>1. Init => IInv /\ CInv
  BY InitHolds, InitAttends
<1>2. IInv /\ CInv /\ [Next]_vars => IInv' /\ CInv'
  BY NextKeeps, NextAttends
<1>3. IInv /\ CInv => LookedAfter
  <2> SUFFICES ASSUME IInv, CInv, NobodyBuilds PROVE
         /\ live.type = "LOCAL" => kind[gen] = "LOCAL" /\ pc[Keeper(gen)] \in {"sleep", "queued"} /\ gen \notin cancelled
         /\ live.type = "REMOTE" => kind[gen] = "REMOTE" /\ (Asleep(gen) \/ pc[<<"reap", gen>>] \in {"spawned", "queued"})
    BY DEF LookedAfter, KeepaliveCovers, TerminatorCovers, LocalActive
  <2>1. build.step \notin Underway
    BY DEF IInv, Core, Progress, Underway, None
  <2>2. gen \in 1..MaxStarts => pc[Keeper(gen)] # "holding"
    <3>1. gen \in 1..MaxStarts => Keeper(gen) \in Tasks /\ ~Teardown(Keeper(gen)) /\ Keeper(gen) # NoTask
      BY Names
    <3>. QED BY <3>1 DEF CInv, Lanes, Places, NobodyBuilds
  <2>. QED BY <2>1, <2>2 DEF CInv, Attended, Kept, Capped, Minds, Ending
<1>. QED BY <1>1, <1>2, <1>3, PTL DEF Spec

-----------------------------------------------------------------------------
(* The doors.                                                               *)

USE LiveViewBounds DEF Door!Bounds

Trying == [door : 0..MaxDoors, try : 0..2]
DoorTyped ==
    /\ want \in [Door!Qualities -> BOOLEAN]
    /\ call \in [Door!Qualities -> Trying]
    /\ viewTry \in Trying
    /\ runner \in [Door!Kinds -> 0..MaxDoors]
    /\ doorKind \in [Door!Doors -> Door!Kinds]
    /\ up \in [Door!Doors -> {"none", "binding", "open", "closed"}]

\* A switch call that is at work has a listener of its own that is being bound.
Asks(q) == call[q] # Door!noCall
CallsBind ==
    /\ \A q \in Door!Qualities : Asks(q) =>
         /\ call[q].door \in Door!Doors /\ up[call[q].door] = "binding"
         /\ doorKind[call[q].door] = "frigate"
    /\ Asks("high") /\ Asks("low") => call["high"].door # call["low"].door
\* So has the holder of the stream lock that binds, one for the session's kind.
ViewBinds ==
    /\ lock = "binding" <=> viewTry # Door!noCall
    /\ lock = "binding" =>
         /\ sess \in {"local", "remote"} /\ viewTry.door \in Door!Doors
         /\ up[viewTry.door] = "binding" /\ doorKind[viewTry.door] = sess
\* What is registered is open, and of the runner's kind.
RunnersOpen ==
    \A k \in Door!Kinds : runner[k] # Door!NoDoor =>
        runner[k] \in Door!Doors /\ up[runner[k]] = "open" /\ doorKind[runner[k]] = k
\* A wanted door is there, or a switch call will bring it.
WantedComes ==
    Door!_frigate_wanted /\ loaded /\ ~gaveUp =>
        runner["frigate"] # Door!NoDoor \/ Asks("high") \/ Asks("low")
\* A session that is published through a door has it registered.
ViewServes ==
    lock # "binding" /\ pub = "door" => sess \in {"local", "remote"} /\ runner[sess] # Door!NoDoor

DoorInv == DoorTyped /\ CallsBind /\ ViewBinds /\ RunnersOpen /\ WantedComes /\ ViewServes

\* Two switches and three kinds of doors.
LEMMA DoorNames ==
  /\ Door!Qualities = {"high", "low"} /\ Door!Kinds = {"frigate", "local", "remote"}
  /\ Door!NoDoor = 0 /\ Door!Doors = 1..MaxDoors /\ 0 \notin Door!Doors
  /\ Door!noCall \in Trying /\ MaxDoors \in Nat
BY DEF Door!Qualities, Door!Kinds, Door!NoDoor, Door!Doors, Door!noCall, Trying

\* A listener that is closed is gone, or waits for its last client.
LEMMA Closing ==
  ASSUME DoorTyped, NEW d \in 0..MaxDoors,
         NEW ups \in [Door!Doors -> {"none", "binding", "open", "closed"}]
  PROVE  /\ Door!Closed(d, ups) \in [Door!Doors -> {"none", "binding", "open", "closed"}]
         /\ \A e \in Door!Doors : e # d => Door!Closed(d, ups)[e] = ups[e]
BY DoorNames DEF Door!Closed

\* What the runners of some kinds give up, and nobody else.
Frees(K) ==
    /\ \A k \in Door!Kinds : runner'[k] = IF k \in K THEN Door!NoDoor ELSE runner[k]
    /\ \A e \in Door!Doors : (\A k \in K : runner[k] # e) => up'[e] = up[e]

\* What is registered elsewhere stays open, and what is being bound goes on.
LEMMA Freed ==
  ASSUME DoorInv, NEW K \in SUBSET Door!Kinds, Frees(K), doorKind' = doorKind
  PROVE  /\ RunnersOpen'
         /\ \A e \in Door!Doors : up[e] = "binding" => up'[e] = "binding"
<1>1. \A e \in Door!Doors : up[e] = "binding" => up'[e] = "binding"
  BY DEF DoorInv, RunnersOpen, Frees, Door!NoDoor, Door!Doors
<1>2. ASSUME NEW k \in Door!Kinds, runner'[k] # Door!NoDoor
      PROVE  /\ runner'[k] \in Door!Doors /\ up'[runner'[k]] = "open" /\ doorKind'[runner'[k]] = k
  <2>1. k \notin K /\ runner'[k] = runner[k] /\ runner[k] # Door!NoDoor
    BY <1>2 DEF Frees
  <2>2. runner[k] \in Door!Doors /\ up[runner[k]] = "open" /\ doorKind[runner[k]] = k
    BY <2>1 DEF DoorInv, RunnersOpen
  <2>3. \A j \in K : runner[j] # runner[k]
    BY <2>1, <2>2 DEF DoorInv, RunnersOpen
  <2>. QED BY <1>2, <2>1, <2>2, <2>3 DEF Frees
<1>. QED BY <1>1, <1>2 DEF RunnersOpen

\* The runner of kind k makes a new listener and knows of none meanwhile.
LEMMA ServerStarts ==
  ASSUME DoorInv, NEW k \in Door!Kinds, NEW d \in Door!Doors, Door!start_server(k, d)
  PROVE  /\ runner' \in [Door!Kinds -> 0..MaxDoors] /\ runner' = [runner EXCEPT ![k] = Door!NoDoor]
         /\ doorKind' \in [Door!Doors -> Door!Kinds]
         /\ up' \in [Door!Doors -> {"none", "binding", "open", "closed"}]
         /\ RunnersOpen'
         /\ up[d] = "none" /\ up'[d] = "binding" /\ doorKind'[d] = k
         /\ \A e \in Door!Doors : up[e] = "binding" => up'[e] = "binding" /\ doorKind'[e] = doorKind[e]
<1> DEFINE ups == Door!Closed(runner[k], up)
<1>0. /\ up[d] = "none" /\ runner' = [runner EXCEPT ![k] = Door!NoDoor]
      /\ up' = [ups EXCEPT ![d] = "binding"] /\ doorKind' = [doorKind EXCEPT ![d] = k]
  BY DEF Door!start_server, Door!Fresh
<1>1. /\ ups \in [Door!Doors -> {"none", "binding", "open", "closed"}]
      /\ \A e \in Door!Doors : e # runner[k] => ups[e] = up[e]
  BY Closing DEF DoorInv, DoorTyped
<1> HIDE DEF ups
<1>2. /\ runner' \in [Door!Kinds -> 0..MaxDoors] /\ doorKind' \in [Door!Doors -> Door!Kinds]
      /\ up' \in [Door!Doors -> {"none", "binding", "open", "closed"}]
      /\ up'[d] = "binding" /\ doorKind'[d] = k
  BY <1>0, <1>1, DoorNames DEF DoorInv, DoorTyped
<1>3. \A e \in Door!Doors : up[e] = "binding" => up'[e] = "binding" /\ doorKind'[e] = doorKind[e]
  <2> SUFFICES ASSUME NEW e \in Door!Doors, up[e] = "binding" PROVE up'[e] = "binding" /\ doorKind'[e] = doorKind[e]
    OBVIOUS
  <2>1. e # d /\ e # runner[k]
    BY <1>0, DoorNames DEF DoorInv, RunnersOpen
  <2>. QED BY <1>0, <1>1, <2>1 DEF DoorInv, DoorTyped
<1>4. ASSUME NEW j \in Door!Kinds, runner'[j] # Door!NoDoor
      PROVE  runner'[j] \in Door!Doors /\ up'[runner'[j]] = "open" /\ doorKind'[runner'[j]] = j
  <2>1. j # k /\ runner'[j] = runner[j]
    BY <1>0, <1>4 DEF DoorInv, DoorTyped
  <2>2. runner[j] \in Door!Doors /\ up[runner[j]] = "open" /\ doorKind[runner[j]] = j
    BY <1>4, <2>1 DEF DoorInv, RunnersOpen
  <2>3. runner[j] # runner[k] /\ runner[j] # d
    BY <1>0, <2>1, <2>2, DoorNames DEF DoorInv, RunnersOpen
  <2>. QED BY <1>0, <1>1, <2>1, <2>2, <2>3 DEF DoorInv, DoorTyped
<1>. QED BY <1>0, <1>2, <1>3, <1>4 DEF RunnersOpen

\* A listener that was bound is registered with the runner of its kind.
LEMMA ServerRegisters ==
  ASSUME DoorInv, NEW k \in Door!Kinds, NEW d \in Door!Doors, doorKind[d] = k, up[d] = "binding",
         Door!Registers(k, d)
  PROVE  /\ runner' \in [Door!Kinds -> 0..MaxDoors] /\ runner' = [runner EXCEPT ![k] = d]
         /\ doorKind' = doorKind /\ RunnersOpen'
         /\ up' \in [Door!Doors -> {"none", "binding", "open", "closed"}]
         /\ \A e \in Door!Doors : e # d => up'[e] = up[e]
<1>1. runner' = [runner EXCEPT ![k] = d] /\ up' = [up EXCEPT ![d] = "open"] /\ doorKind' = doorKind
  BY DEF Door!Registers
<1>2. /\ runner' \in [Door!Kinds -> 0..MaxDoors] /\ up' \in [Door!Doors -> {"none", "binding", "open", "closed"}]
      /\ \A e \in Door!Doors : e # d => up'[e] = up[e]
  BY <1>1, DoorNames DEF DoorInv, DoorTyped
<1>3. \A j \in Door!Kinds : runner[j] # d
  BY DoorNames DEF DoorInv, RunnersOpen
<1>4. RunnersOpen'
  BY <1>1, <1>3, DoorNames DEF DoorInv, DoorTyped, RunnersOpen
<1>. QED BY <1>1, <1>2, <1>4

\* The runner of kind k gives up what it knows of.
LEMMA ServerStops ==
  ASSUME DoorInv, NEW k \in Door!Kinds, runner' = [runner EXCEPT ![k] = Door!NoDoor],
         up' = Door!Closed(runner[k], up), doorKind' = doorKind
  PROVE  /\ runner' \in [Door!Kinds -> 0..MaxDoors] /\ RunnersOpen'
         /\ up' \in [Door!Doors -> {"none", "binding", "open", "closed"}]
         /\ \A e \in Door!Doors : up[e] = "binding" => up'[e] = "binding"
<1>1. runner' \in [Door!Kinds -> 0..MaxDoors]
  BY DoorNames DEF DoorInv, DoorTyped
<1>2. /\ up' \in [Door!Doors -> {"none", "binding", "open", "closed"}]
      /\ \A e \in Door!Doors : e # runner[k] => up'[e] = up[e]
  BY Closing DEF DoorInv, DoorTyped
<1>3. Frees({k})
  BY <1>2 DEF Frees, DoorInv, DoorTyped
<1>. QED BY <1>1, <1>2, <1>3, Freed

\* A switch is turned, either way.
LEMMA SwitchKeepsDoors ==
  ASSUME DoorInv, NEW q \in Door!Qualities, NEW on \in BOOLEAN, Door!async_sync_frigate_endpoint(q, on)
  PROVE  DoorInv'
<1> DEFINE more == on \/ \E r \in Door!Qualities \ {q} : want[r]
<1>1. /\ want' = [want EXCEPT ![q] = on] /\ call[q] = Door!noCall
      /\ UNCHANGED <<sess, lock, viewTry, pub, loaded, gaveUp>>
  BY DEF Door!async_sync_frigate_endpoint, Door!sessionVars
<1>2. want' \in [Door!Qualities -> BOOLEAN]
  BY <1>1 DEF DoorInv, DoorTyped
<1>3. CASE more
  <2>1. PICK d \in Door!Doors : /\ Door!start_server("frigate", d)
                                /\ call' = [call EXCEPT ![q] = [door |-> d, try |-> 1]]
    BY <1>3 DEF Door!async_sync_frigate_endpoint
  <2>2. /\ runner' \in [Door!Kinds -> 0..MaxDoors] /\ runner' = [runner EXCEPT !["frigate"] = Door!NoDoor]
        /\ doorKind' \in [Door!Doors -> Door!Kinds]
        /\ up' \in [Door!Doors -> {"none", "binding", "open", "closed"}]
        /\ RunnersOpen'
        /\ up[d] = "none" /\ up'[d] = "binding" /\ doorKind'[d] = "frigate"
        /\ \A e \in Door!Doors : up[e] = "binding" => up'[e] = "binding" /\ doorKind'[e] = doorKind[e]
    BY <2>1, ServerStarts, DoorNames
  <2>3. [door |-> d, try |-> 1] \in Trying /\ [door |-> d, try |-> 1] # Door!noCall
    BY DoorNames DEF Trying, Door!noCall
  <2>4. call' \in [Door!Qualities -> Trying] /\ call'[q] = [door |-> d, try |-> 1]
        /\ \A r \in Door!Qualities : r # q => call'[r] = call[r]
    BY <2>1, <2>3 DEF DoorInv, DoorTyped
  <2>5. DoorTyped'
    BY <1>1, <1>2, <2>2, <2>4 DEF DoorInv, DoorTyped
  <2>6. CallsBind'
    BY <2>2, <2>3, <2>4, DoorNames DEF DoorInv, CallsBind, Asks
  <2>7. ViewBinds'
    BY <1>1, <2>2 DEF DoorInv, ViewBinds
  <2>8. WantedComes'
    BY <2>3, <2>4, DoorNames DEF WantedComes, Asks
  <2>9. ViewServes'
    BY <1>1, <2>2, DoorNames DEF DoorInv, DoorTyped, ViewServes
  <2>. QED BY <2>2, <2>5, <2>6, <2>7, <2>8, <2>9 DEF DoorInv
<1>4. CASE ~more
  <2>1. Door!stop_server("frigate") /\ call' = call
    BY <1>4 DEF Door!async_sync_frigate_endpoint
  <2>2. runner' = [runner EXCEPT !["frigate"] = Door!NoDoor] /\ doorKind' = doorKind
        /\ up' = Door!Closed(runner["frigate"], up)
    BY <2>1 DEF Door!stop_server
  <2>3. /\ runner' \in [Door!Kinds -> 0..MaxDoors] /\ RunnersOpen'
        /\ up' \in [Door!Doors -> {"none", "binding", "open", "closed"}]
        /\ \A e \in Door!Doors : up[e] = "binding" => up'[e] = "binding"
    BY <2>2, ServerStops, DoorNames
  <2>4. DoorTyped'
    BY <1>1, <1>2, <2>1, <2>2, <2>3 DEF DoorInv, DoorTyped
  <2>5. CallsBind'
    BY <2>1, <2>2, <2>3, DoorNames DEF DoorInv, CallsBind, Asks
  <2>6. ViewBinds'
    BY <1>1, <2>2, <2>3 DEF DoorInv, ViewBinds
  <2>7. WantedComes'
    <3>1. ~want'["high"] /\ ~want'["low"]
      BY <1>1, <1>4, DoorNames DEF DoorInv, DoorTyped
    <3>. QED BY <3>1 DEF WantedComes, Door!_frigate_wanted
  <2>8. ViewServes'
    BY <1>1, <2>2, DoorNames DEF DoorInv, DoorTyped, ViewServes
  <2>. QED BY <2>3, <2>4, <2>5, <2>6, <2>7, <2>8 DEF DoorInv
<1>. QED BY <1>3, <1>4

\* The listener of a switch call is bound.
LEMMA BoundKeepsDoors ==
  ASSUME DoorInv, NEW q \in Door!Qualities, Door!Bound(q)
  PROVE  DoorInv'
<1> DEFINE d == call[q].door
<1>1. /\ Asks(q) /\ Door!Registers("frigate", d) /\ call' = [call EXCEPT ![q] = Door!noCall]
      /\ UNCHANGED <<want, sess, lock, viewTry, pub, loaded>> /\ gaveUp' = FALSE
  BY DEF Door!Bound, Asks, Door!sessionVars
<1>2. d \in Door!Doors /\ up[d] = "binding" /\ doorKind[d] = "frigate"
  BY <1>1 DEF DoorInv, CallsBind
<1>3. /\ runner' \in [Door!Kinds -> 0..MaxDoors] /\ runner' = [runner EXCEPT !["frigate"] = d]
      /\ doorKind' = doorKind /\ RunnersOpen'
      /\ up' \in [Door!Doors -> {"none", "binding", "open", "closed"}]
      /\ \A e \in Door!Doors : e # d => up'[e] = up[e]
  BY <1>1, <1>2, ServerRegisters, DoorNames
<1>4. call' \in [Door!Qualities -> Trying] /\ call'[q] = Door!noCall
      /\ \A r \in Door!Qualities : r # q => call'[r] = call[r]
  BY <1>1, DoorNames DEF DoorInv, DoorTyped
<1>5. DoorTyped'
  BY <1>1, <1>3, <1>4 DEF DoorInv, DoorTyped
<1>6. CallsBind'
  BY <1>1, <1>3, <1>4, DoorNames DEF DoorInv, CallsBind, Asks
<1>7. ViewBinds'
  <2>1. lock = "binding" => viewTry.door # d
    BY <1>2 DEF DoorInv, ViewBinds
  <2>. QED BY <1>1, <1>3, <2>1 DEF DoorInv, ViewBinds
<1>8. WantedComes'
  BY <1>2, <1>3, DoorNames DEF DoorInv, DoorTyped, WantedComes
<1>9. ViewServes'
  BY <1>1, <1>3, DoorNames DEF DoorInv, DoorTyped, ViewServes
<1>. QED BY <1>3, <1>5, <1>6, <1>7, <1>8, <1>9 DEF DoorInv

\* It cannot be bound: on any free port, or not at all.
LEMMA BindFailsKeepsDoors ==
  ASSUME DoorInv, NEW q \in Door!Qualities, Door!BindFails(q)
  PROVE  DoorInv'
<1> DEFINE d == call[q].door
<1>1. Asks(q) /\ UNCHANGED <<want, sess, lock, viewTry, pub, loaded>>
  BY DEF Door!BindFails, Asks, Door!sessionVars
<1>2. d \in Door!Doors /\ up[d] = "binding" /\ doorKind[d] = "frigate"
  BY <1>1 DEF DoorInv, CallsBind
<1>3. CASE call[q].try = 1
  <2>1. Door!Rebinds("frigate", d) /\ call' = [call EXCEPT ![q].try = 2] /\ gaveUp' = gaveUp
    BY <1>3 DEF Door!BindFails
  <2>2. runner' = [runner EXCEPT !["frigate"] = Door!NoDoor] /\ doorKind' = doorKind
        /\ up' = Door!Closed(runner["frigate"], up)
    BY <2>1 DEF Door!Rebinds
  <2>3. /\ runner' \in [Door!Kinds -> 0..MaxDoors] /\ RunnersOpen'
        /\ up' \in [Door!Doors -> {"none", "binding", "open", "closed"}]
        /\ \A e \in Door!Doors : up[e] = "binding" => up'[e] = "binding"
    BY <2>2, ServerStops, DoorNames
  <2>4. /\ call' \in [Door!Qualities -> Trying] /\ call'[q].door = d /\ call'[q].try = 2
        /\ \A r \in Door!Qualities : r # q => call'[r] = call[r]
    BY <2>1 DEF DoorInv, DoorTyped, Trying
  <2>5. Asks(q)'
    BY <2>4 DEF Asks, Door!noCall
  <2>6. DoorTyped'
    BY <1>1, <2>2, <2>3, <2>4 DEF DoorInv, DoorTyped
  <2>7. CallsBind'
    <3>1. \A r \in Door!Qualities : Asks(r)' => Asks(r) /\ call'[r].door = call[r].door
      BY <1>1, <2>4 DEF Asks
    <3>. QED BY <2>2, <2>3, <3>1, DoorNames DEF DoorInv, CallsBind
  <2>8. ViewBinds'
    BY <1>1, <2>2, <2>3 DEF DoorInv, ViewBinds
  <2>9. WantedComes'
    BY <2>5, DoorNames DEF WantedComes
  <2>10. ViewServes'
    BY <1>1, <2>2, DoorNames DEF DoorInv, DoorTyped, ViewServes
  <2>. QED BY <2>3, <2>6, <2>7, <2>8, <2>9, <2>10 DEF DoorInv
<1>4. CASE call[q].try # 1
  <2>1. /\ up' = [up EXCEPT ![d] = "none"] /\ UNCHANGED <<runner, doorKind>>
        /\ call' = [call EXCEPT ![q] = Door!noCall] /\ gaveUp' = TRUE
    BY <1>4 DEF Door!BindFails, Door!GivesUp
  <2>2. /\ call' \in [Door!Qualities -> Trying] /\ call'[q] = Door!noCall
        /\ \A r \in Door!Qualities : r # q => call'[r] = call[r]
    BY <2>1, DoorNames DEF DoorInv, DoorTyped
  <2>3. /\ up' \in [Door!Doors -> {"none", "binding", "open", "closed"}]
        /\ \A e \in Door!Doors : e # d => up'[e] = up[e]
    BY <2>1 DEF DoorInv, DoorTyped
  <2>4. DoorTyped'
    BY <1>1, <2>1, <2>2, <2>3 DEF DoorInv, DoorTyped
  <2>5. CallsBind'
    BY <1>1, <2>1, <2>2, <2>3, DoorNames DEF DoorInv, CallsBind, Asks
  <2>6. ViewBinds'
    <3>1. lock = "binding" => viewTry.door # d
      BY <1>2 DEF DoorInv, ViewBinds
    <3>. QED BY <1>1, <2>1, <2>3, <3>1 DEF DoorInv, ViewBinds
  <2>7. RunnersOpen'
    BY <1>2, <2>1, <2>3 DEF DoorInv, RunnersOpen
  <2>8. WantedComes' /\ ViewServes'
    BY <1>1, <2>1 DEF DoorInv, WantedComes, ViewServes
  <2>. QED BY <2>4, <2>5, <2>6, <2>7, <2>8 DEF DoorInv
<1>. QED BY <1>3, <1>4

\* What clients do, and what the session does before it changes.
LEMMA DoorsUntouched ==
  ASSUME DoorInv, UNCHANGED <<want, call, viewTry, runner, doorKind, sess, pub, loaded, gaveUp>>,
         up' \in [Door!Doors -> {"none", "binding", "open", "closed"}],
         \A e \in Door!Doors : up[e] \in {"open", "binding"} => up'[e] = up[e],
         lock' = "binding" <=> lock = "binding"
  PROVE  DoorInv'
<1>1. DoorTyped'
  BY DEF DoorInv, DoorTyped
<1>2. CallsBind'
  BY DoorNames DEF DoorInv, CallsBind, Asks
<1>3. ViewBinds' /\ RunnersOpen'
  BY DEF DoorInv, ViewBinds, RunnersOpen
<1>4. WantedComes' /\ ViewServes'
  BY DEF DoorInv, WantedComes, Asks, ViewServes, Door!_frigate_wanted
<1>. QED BY <1>1, <1>2, <1>3, <1>4 DEF DoorInv

\* Recorders come and go, a linger ends, a session is asked for.
LEMMA VisitsKeepDoors ==
  ASSUME DoorInv,
         \/ \E c \in Clients : \/ Door!Disconnects(c) \/ Door!_frigate_resolve_inner(c) \/ Door!Resolved(c)
                               \/ \E d \in Door!Doors : Door!_handle(c, d)
         \/ \E d \in Door!Doors : Door!_idle_linger(d)
         \/ Door!_maybe_teardown \/ Door!try_live_connection \/ Door!OpenFails
         \/ UNCHANGED Door!vars
  PROVE  DoorInv'
<1>1. UNCHANGED <<want, call, viewTry, runner, doorKind, sess, pub, loaded, gaveUp>>
  BY DEF Door!Disconnects, Door!_frigate_resolve_inner, Door!Resolved, Door!_handle, Door!_idle_linger,
     Door!_maybe_teardown, Door!try_live_connection, Door!OpenFails, Door!vars, Door!switches,
     Door!doorVars, Door!sessionVars, Door!Leaves, Door!_Relay
<1>2. lock' = "binding" <=> lock = "binding"
  BY DEF Door!Disconnects, Door!_frigate_resolve_inner, Door!Resolved, Door!_handle, Door!_idle_linger,
     Door!_maybe_teardown, Door!try_live_connection, Door!OpenFails, Door!vars, Door!sessionVars,
     Door!Leaves, Door!_Relay
<1>3. up' = up \/ \E d \in Door!Doors : up[d] = "closed" /\ up' = [up EXCEPT ![d] = "none"]
  BY DEF Door!Disconnects, Door!_frigate_resolve_inner, Door!Resolved, Door!_handle, Door!_idle_linger,
     Door!_maybe_teardown, Door!try_live_connection, Door!OpenFails, Door!vars, Door!doorVars,
     Door!Leaves, Door!_Relay
<1>4. /\ up' \in [Door!Doors -> {"none", "binding", "open", "closed"}]
      /\ \A e \in Door!Doors : up[e] \in {"open", "binding"} => up'[e] = up[e]
  BY <1>3 DEF DoorInv, DoorTyped
<1>. QED BY <1>1, <1>2, <1>4, DoorsUntouched

\* The session is torn down, alone or with the entry.
LEMMA TeardownKeepsDoors ==
  ASSUME DoorInv, Door!tear_down_live_stream \/ Door!Unload
  PROVE  DoorInv'
<1>0. lock = "free" /\ UNCHANGED <<want, call, viewTry, doorKind, gaveUp, lock>>
  BY DEF Door!tear_down_live_stream, Door!Unload, Door!switches
<1>1. \A k \in Door!Kinds : runner[k] \in 0..MaxDoors
  BY DEF DoorInv, DoorTyped
<1>2. ASSUME NEW K \in SUBSET Door!Kinds, Frees(K), loaded' \in {loaded, FALSE}, pub' = "none",
             runner' \in [Door!Kinds -> 0..MaxDoors],
             loaded' => "frigate" \notin K,
             up' \in [Door!Doors -> {"none", "binding", "open", "closed"}]
      PROVE  DoorInv'
  <2>1. RunnersOpen' /\ \A e \in Door!Doors : up[e] = "binding" => up'[e] = "binding"
    BY <1>0, <1>2, Freed
  <2>2. DoorTyped'
    BY <1>0, <1>2 DEF DoorInv, DoorTyped
  <2>3. CallsBind'
    BY <1>0, <2>1, DoorNames DEF DoorInv, CallsBind, Asks
  <2>4. ViewBinds'
    BY <1>0, <2>1 DEF DoorInv, ViewBinds
  <2>5. WantedComes'
    BY <1>0, <1>2, DoorNames DEF DoorInv, WantedComes, Asks, Door!_frigate_wanted, Frees
  <2>6. ViewServes'
    BY <1>2 DEF ViewServes
  <2>. QED BY <2>1, <2>2, <2>3, <2>4, <2>5, <2>6 DEF DoorInv
<1>3. CASE Door!TornDown /\ loaded' = loaded
  <2> DEFINE a == Door!Closed(runner["remote"], up)
             b == Door!Closed(runner["local"], a)
  <2>1. /\ runner' = [runner EXCEPT !["local"] = Door!NoDoor, !["remote"] = Door!NoDoor]
        /\ up' = b /\ pub' = "none"
    BY <1>3 DEF Door!TornDown
  <2>2. /\ a \in [Door!Doors -> {"none", "binding", "open", "closed"}]
        /\ \A e \in Door!Doors : e # runner["remote"] => a[e] = up[e]
    BY <1>1, Closing, DoorNames DEF DoorInv, DoorTyped
  <2> HIDE DEF a
  <2>3. /\ b \in [Door!Doors -> {"none", "binding", "open", "closed"}]
        /\ \A e \in Door!Doors : e # runner["local"] => b[e] = a[e]
    BY <1>1, <2>2, Closing, DoorNames DEF DoorInv
  <2> HIDE DEF b
  <2>4. runner' \in [Door!Kinds -> 0..MaxDoors]
    BY <2>1, DoorNames DEF DoorInv, DoorTyped
  <2>5. Frees({"local", "remote"})
    BY <2>1, <2>2, <2>3 DEF Frees, DoorInv, DoorTyped
  <2>. QED BY <1>2, <1>3, <2>1, <2>3, <2>4, <2>5, DoorNames
<1>4. CASE UNCHANGED <<sess, pub, runner, up, loaded>>
  <2>1. up \in [Door!Doors -> {"none", "binding", "open", "closed"}]
    BY DEF DoorInv, DoorTyped
  <2>. QED BY <1>0, <1>4, <2>1, DoorsUntouched
<1>5. CASE Door!Unload
  <2> DEFINE a == Door!Closed(runner["remote"], up)
             b == Door!Closed(runner["local"], a)
             c == Door!Closed(runner["frigate"], b)
  <2>1. /\ runner' = [k \in Door!Kinds |-> Door!NoDoor]
        /\ up' = c /\ pub' = "none" /\ loaded' = FALSE
    BY <1>5 DEF Door!Unload
  <2>2. /\ a \in [Door!Doors -> {"none", "binding", "open", "closed"}]
        /\ \A e \in Door!Doors : e # runner["remote"] => a[e] = up[e]
    BY <1>1, Closing, DoorNames DEF DoorInv, DoorTyped
  <2> HIDE DEF a
  <2>3. /\ b \in [Door!Doors -> {"none", "binding", "open", "closed"}]
        /\ \A e \in Door!Doors : e # runner["local"] => b[e] = a[e]
    BY <1>1, <2>2, Closing, DoorNames DEF DoorInv
  <2> HIDE DEF b
  <2>4. /\ c \in [Door!Doors -> {"none", "binding", "open", "closed"}]
        /\ \A e \in Door!Doors : e # runner["frigate"] => c[e] = b[e]
    BY <1>1, <2>3, Closing, DoorNames DEF DoorInv
  <2> HIDE DEF c
  <2>5. runner' \in [Door!Kinds -> 0..MaxDoors]
    BY <2>1, DoorNames
  <2>6. Frees(Door!Kinds)
    BY <2>1, <2>2, <2>3, <2>4, DoorNames DEF Frees
  <2>. QED BY <1>2, <2>1, <2>4, <2>5, <2>6
<1>. QED BY <1>3, <1>4, <1>5 DEF Door!tear_down_live_stream

\* A session is there: its door is used again, or one is made.
LEMMA OpenedKeepsDoors ==
  ASSUME DoorInv, NEW k \in {"local", "remote"}, Door!Opened(k)
  PROVE  DoorInv'
<1>1. /\ lock = "opening" /\ sess' = k /\ k \in Door!Kinds /\ viewTry = Door!noCall
      /\ UNCHANGED <<want, call, loaded, gaveUp>>
  BY DoorNames DEF Door!Opened, Door!switches, DoorInv, ViewBinds
<1>2. CASE Door!start_viewing_front_door(k)
  <2>1. /\ runner[k] # Door!NoDoor /\ pub' = "door" /\ lock' = "free"
        /\ UNCHANGED <<runner, doorKind, up, viewTry>>
    BY <1>2 DEF Door!Opened, Door!start_viewing_front_door, Door!doorVars
  <2>2. DoorTyped' /\ RunnersOpen'
    BY <1>1, <2>1 DEF DoorInv, DoorTyped, RunnersOpen
  <2>3. CallsBind' /\ ViewBinds'
    BY <1>1, <2>1 DEF DoorInv, CallsBind, ViewBinds, Asks
  <2>4. WantedComes' /\ ViewServes'
    BY <1>1, <2>1 DEF DoorInv, WantedComes, ViewServes, Asks, Door!_frigate_wanted
  <2>. QED BY <2>2, <2>3, <2>4 DEF DoorInv
<1>3. CASE ~Door!start_viewing_front_door(k)
  <2>1. PICK d \in Door!Doors : Door!start_server(k, d) /\ viewTry' = [door |-> d, try |-> 1]
    BY <1>3 DEF Door!Opened
  <2>2. lock' = "binding"
    BY <1>3 DEF Door!Opened
  <2>3. /\ runner' \in [Door!Kinds -> 0..MaxDoors] /\ runner' = [runner EXCEPT ![k] = Door!NoDoor]
        /\ doorKind' \in [Door!Doors -> Door!Kinds]
        /\ up' \in [Door!Doors -> {"none", "binding", "open", "closed"}]
        /\ RunnersOpen'
        /\ up[d] = "none" /\ up'[d] = "binding" /\ doorKind'[d] = k
        /\ \A e \in Door!Doors : up[e] = "binding" => up'[e] = "binding" /\ doorKind'[e] = doorKind[e]
    BY <1>1, <2>1, ServerStarts
  <2>4. [door |-> d, try |-> 1] \in Trying /\ [door |-> d, try |-> 1] # Door!noCall
    BY DoorNames DEF Trying, Door!noCall
  <2>5. DoorTyped'
    BY <1>1, <2>1, <2>3, <2>4 DEF DoorInv, DoorTyped
  <2>6. CallsBind'
    BY <1>1, <2>3, DoorNames DEF DoorInv, CallsBind, Asks
  <2>7. ViewBinds'
    BY <1>1, <2>1, <2>2, <2>3, <2>4 DEF ViewBinds
  <2>8. WantedComes'
    <3>1. runner'["frigate"] = runner["frigate"]
      BY <2>3, DoorNames DEF DoorInv, DoorTyped
    <3>. QED BY <1>1, <3>1 DEF DoorInv, WantedComes, Asks, Door!_frigate_wanted
  <2>9. ViewServes'
    BY <2>2 DEF ViewServes
  <2>. QED BY <2>3, <2>5, <2>6, <2>7, <2>8, <2>9 DEF DoorInv
<1>. QED BY <1>2, <1>3

\* A viewing door is bound, is tried again, or is done without.
LEMMA ViewBoundKeepsDoors ==
  ASSUME DoorInv, Door!ViewBound
  PROVE  DoorInv'
<1> DEFINE d == viewTry.door
           k == doorKind[d]
<1>1. /\ lock = "binding" /\ UNCHANGED <<want, call, loaded, gaveUp, sess>>
  BY DEF Door!ViewBound, Door!switches
<1>2. /\ d \in Door!Doors /\ up[d] = "binding" /\ k = sess /\ sess \in {"local", "remote"}
      /\ k \in Door!Kinds /\ k # "frigate" /\ viewTry # Door!noCall
  BY <1>1, DoorNames DEF DoorInv, ViewBinds
<1>3. \A q \in Door!Qualities : Asks(q) => call[q].door # d
  BY <1>2 DEF DoorInv, CallsBind
<1>4. CASE Door!Registers(k, d) /\ pub' = "door" /\ lock' = "free" /\ viewTry' = Door!noCall
  <2>1. /\ runner' \in [Door!Kinds -> 0..MaxDoors] /\ runner' = [runner EXCEPT ![k] = d]
        /\ doorKind' = doorKind /\ RunnersOpen'
        /\ up' \in [Door!Doors -> {"none", "binding", "open", "closed"}]
        /\ \A e \in Door!Doors : e # d => up'[e] = up[e]
    BY <1>2, <1>4, ServerRegisters
  <2>2. DoorTyped'
    BY <1>1, <1>4, <2>1, DoorNames DEF DoorInv, DoorTyped
  <2>3. CallsBind'
    BY <1>1, <1>3, <2>1, DoorNames DEF DoorInv, CallsBind, Asks
  <2>4. ViewBinds'
    BY <1>4 DEF ViewBinds
  <2>5. WantedComes'
    <3>1. runner'["frigate"] = runner["frigate"]
      BY <1>2, <2>1, DoorNames DEF DoorInv, DoorTyped
    <3>. QED BY <1>1, <3>1 DEF DoorInv, WantedComes, Asks, Door!_frigate_wanted
  <2>6. ViewServes'
    BY <1>1, <1>2, <2>1, DoorNames DEF DoorInv, DoorTyped, ViewServes
  <2>. QED BY <2>1, <2>2, <2>3, <2>4, <2>5, <2>6 DEF DoorInv
<1>5. CASE Door!Rebinds(k, d) /\ viewTry' = [viewTry EXCEPT !.try = 2] /\ UNCHANGED <<pub, lock>>
  <2>1. runner' = [runner EXCEPT ![k] = Door!NoDoor] /\ doorKind' = doorKind
        /\ up' = Door!Closed(runner[k], up)
    BY <1>5 DEF Door!Rebinds
  <2>2. /\ runner' \in [Door!Kinds -> 0..MaxDoors] /\ RunnersOpen'
        /\ up' \in [Door!Doors -> {"none", "binding", "open", "closed"}]
        /\ \A e \in Door!Doors : up[e] = "binding" => up'[e] = "binding"
    BY <1>2, <2>1, ServerStops
  <2>3. viewTry' \in Trying /\ viewTry'.door = d /\ viewTry'.try = 2 /\ viewTry' # Door!noCall
    BY <1>5 DEF DoorInv, DoorTyped, Trying, Door!noCall
  <2>4. DoorTyped'
    BY <1>1, <2>1, <2>2, <2>3 DEF DoorInv, DoorTyped
  <2>5. CallsBind'
    BY <1>1, <2>1, <2>2, DoorNames DEF DoorInv, CallsBind, Asks
  <2>6. ViewBinds'
    BY <1>1, <1>2, <1>5, <2>1, <2>2, <2>3 DEF ViewBinds
  <2>7. WantedComes'
    <3>1. runner'["frigate"] = runner["frigate"]
      BY <1>2, <2>1, DoorNames DEF DoorInv, DoorTyped
    <3>. QED BY <1>1, <3>1 DEF DoorInv, WantedComes, Asks, Door!_frigate_wanted
  <2>8. ViewServes'
    BY <1>1, <1>5 DEF ViewServes
  <2>. QED BY <2>2, <2>4, <2>5, <2>6, <2>7, <2>8 DEF DoorInv
<1>6. CASE Door!GivesUp(d) /\ pub' = "raw" /\ lock' = "free" /\ viewTry' = Door!noCall
  <2>1. up' = [up EXCEPT ![d] = "none"] /\ UNCHANGED <<runner, doorKind>>
    BY <1>6 DEF Door!GivesUp
  <2>2. /\ up' \in [Door!Doors -> {"none", "binding", "open", "closed"}]
        /\ \A e \in Door!Doors : e # d => up'[e] = up[e]
    BY <2>1 DEF DoorInv, DoorTyped
  <2>3. DoorTyped'
    BY <1>1, <1>6, <2>1, <2>2, DoorNames DEF DoorInv, DoorTyped
  <2>4. CallsBind'
    BY <1>1, <1>3, <2>1, <2>2, DoorNames DEF DoorInv, CallsBind, Asks
  <2>5. ViewBinds' /\ ViewServes'
    BY <1>6 DEF ViewBinds, ViewServes
  <2>6. RunnersOpen'
    BY <1>2, <2>1, <2>2 DEF DoorInv, RunnersOpen
  <2>7. WantedComes'
    BY <1>1, <2>1 DEF DoorInv, WantedComes, Asks, Door!_frigate_wanted
  <2>. QED BY <2>3, <2>4, <2>5, <2>6, <2>7 DEF DoorInv
<1>. QED BY <1>4, <1>5, <1>6 DEF Door!ViewBound

\* No door is there at first.
LEMMA DoorsInit == Door!Init => DoorInv
<1> SUFFICES ASSUME Door!Init PROVE DoorInv
  OBVIOUS
<1>1. /\ want = [q \in Door!Qualities |-> FALSE] /\ call = [q \in Door!Qualities |-> Door!noCall]
      /\ runner = [k \in Door!Kinds |-> Door!NoDoor] /\ doorKind = [d \in Door!Doors |-> "frigate"]
      /\ up = [d \in Door!Doors |-> "none"] /\ viewTry = Door!noCall /\ lock = "free" /\ pub = "none"
  BY DEF Door!Init
<1>2. DoorTyped
  BY <1>1, DoorNames DEF DoorTyped
<1>3. \A q \in Door!Qualities : ~Asks(q)
  BY <1>1 DEF Asks
<1>4. CallsBind /\ ViewBinds /\ RunnersOpen /\ ViewServes
  BY <1>1, <1>3, DoorNames DEF CallsBind, ViewBinds, RunnersOpen, ViewServes
<1>5. WantedComes
  BY <1>1, DoorNames DEF WantedComes, Door!_frigate_wanted
<1>. QED BY <1>2, <1>4, <1>5 DEF DoorInv

\* Every step keeps the doors in order.
LEMMA DoorsStep == DoorInv /\ [Door!Next]_(Door!vars) => DoorInv'
BY SwitchKeepsDoors, BoundKeepsDoors, BindFailsKeepsDoors, VisitsKeepDoors, TeardownKeepsDoors,
   OpenedKeepsDoors, ViewBoundKeepsDoors DEF Door!Next

\* The invariant has both promises about the doors.
LEMMA DoorsAreInOrder == DoorInv => Door!WantedIsOpen /\ Door!PublishedDoorServes
<1> SUFFICES ASSUME DoorInv PROVE Door!WantedIsOpen /\ Door!PublishedDoorServes
  OBVIOUS
<1>1. Door!WantedIsOpen
  BY DoorNames DEF DoorInv, WantedComes, RunnersOpen, Asks, Door!WantedIsOpen, Door!Settled
<1>2. Door!PublishedDoorServes
  BY DoorNames DEF DoorInv, ViewServes, RunnersOpen, Door!PublishedDoorServes
<1>. QED BY <1>1, <1>2

\* In whatever order the two switches are turned and their binds end, and
\* whatever sessions come and go: the recorders' listener is open while a
\* switch is on, and the URL that is published leads to an open door of the
\* session's own kind (frigate_endpoint.py, viewing_front_door.py,
\* remote_viewing_front_door.py).
THEOREM DoorsAreOpen == Door!Spec => []Door!WantedIsOpen /\ []Door!PublishedDoorServes
<1>. QED BY DoorsInit, DoorsStep, DoorsAreInOrder, PTL DEF Door!Spec

-----------------------------------------------------------------------------
(* One connection.  A client that waits for each reply has one message on   *)
(* its way at most, and that one carries the number of its last request     *)
(* less what was swallowed.                                                 *)

Quiet == atRelay = <<>> /\ toCam = <<>> /\ fromCam = <<>>
ComesIn == /\ \E u : atRelay = <<[id |-> sent, udp |-> u]>>
           /\ toCam = <<>> /\ fromCam = <<>> /\ sent \in open
GoesIn == /\ \E a : toCam = <<Relay!Msg(sent, sent - swallowed, a)>>
          /\ atRelay = <<>> /\ fromCam = <<>> /\ sent \in open
ComesOut == /\ \E s : fromCam = <<Relay!Reply(sent, sent - swallowed, s)>>
            /\ atRelay = <<>> /\ toCam = <<>> /\ sent \in open

RelayInv ==
    /\ heard.fits = TRUE
    /\ sent \in Nat /\ swallowed \in Nat /\ shifter = swallowed
    /\ phase \in {"probe", "resent"} => swallowed = 0
    /\ Quiet \/ ComesIn \/ GoesIn \/ ComesOut

\* What a sequence of one message does.
LEMMA OneMessage ==
  ASSUME NEW m
  PROVE  /\ <<m>> # <<>> /\ Head(<<m>>) = m /\ Tail(<<m>>) = <<>> /\ Len(<<m>>) = 1
         /\ Append(<<>>, m) = <<m>> /\ Len(<<>>) = 0
OBVIOUS

\* The client reads a reply to its last request.
LEMMA Heard ==
  ASSUME sent \in open, NEW s, Relay!Client(sent, sent, s)
  PROVE  heard'.fits = TRUE
BY DEF Relay!Client, Relay!Fits

\* A client with nothing open sends the next request.
LEMMA SendsKeepsRelay ==
  ASSUME RelayInv, Window = 1, NEW u, Relay!Sends(u)
  PROVE  RelayInv'
<1>1. ~ComesIn /\ ~GoesIn /\ ~ComesOut
  BY OneMessage DEF Relay!Sends, ComesIn, GoesIn, ComesOut
<1>2. Quiet
  BY <1>1 DEF RelayInv
<1>3. ComesIn'
  BY <1>2, OneMessage DEF Relay!Sends, Quiet, ComesIn
<1>. QED BY <1>3 DEF Relay!Sends, RelayInv

\* The relay takes a request: it answers it, or hands it on renumbered.
LEMMA DrainKeepsRelay ==
  ASSUME RelayInv, Relay!_drain_requests
  PROVE  RelayInv'
<1>1. ComesIn /\ phase = "steady" /\ UNCHANGED <<sent, fromCam, phase>> /\ atRelay' = Tail(atRelay)
  BY DEF Relay!_drain_requests, RelayInv, Quiet, GoesIn, ComesOut
<1>2. PICK u : atRelay = <<[id |-> sent, udp |-> u]>>
  BY <1>1 DEF ComesIn
<1>3. atRelay' = <<>> /\ Head(atRelay).id = sent
  BY <1>1, <1>2, OneMessage
<1>4. CASE /\ swallowed' = swallowed + 1 /\ shifter' = swallowed + 1
           /\ Relay!Client(Head(atRelay).id, Head(atRelay).id, 461) /\ UNCHANGED toCam
  <2>1. heard'.fits = TRUE
    BY <1>1, <1>3, <1>4, Heard DEF ComesIn
  <2>2. Quiet'
    BY <1>1, <1>3, <1>4 DEF ComesIn, Quiet
  <2>. QED BY <1>1, <1>4, <2>1, <2>2 DEF RelayInv
<1>5. CASE /\ toCam' = Append(toCam, Relay!Msg(Head(atRelay).id, Relay!shift_cseq(Head(atRelay).id, -swallowed), digest))
           /\ UNCHANGED <<swallowed, shifter, heard, open>>
  <2>1. Relay!shift_cseq(sent, -swallowed) = sent - swallowed
    BY DEF Relay!shift_cseq, RelayInv
  <2>2. toCam' = <<Relay!Msg(sent, sent - swallowed, digest)>>
    BY <1>1, <1>3, <1>5, <2>1, OneMessage DEF ComesIn
  <2>3. GoesIn'
    BY <1>1, <1>3, <1>5, <2>2 DEF ComesIn, GoesIn, Relay!Msg
  <2>. QED BY <1>1, <1>5, <2>3 DEF RelayInv
<1>. QED BY <1>4, <1>5 DEF Relay!_drain_requests

\* The camera answers what it read.
LEMMA CameraKeepsRelay ==
  ASSUME RelayInv, Relay!Camera
  PROVE  RelayInv'
<1>1. /\ GoesIn /\ toCam' = Tail(toCam)
      /\ UNCHANGED <<phase, sent, open, atRelay, swallowed, shifter, heard>>
  BY DEF Relay!Camera, RelayInv, Quiet, ComesIn, ComesOut
<1>2. PICK a : toCam = <<Relay!Msg(sent, sent - swallowed, a)>>
  BY <1>1 DEF GoesIn
<1>3. toCam' = <<>> /\ Head(toCam).id = sent /\ Head(toCam).cseq = sent - swallowed
  BY <1>1, <1>2, OneMessage DEF Relay!Msg
<1>4. PICK s : fromCam' = <<Relay!Reply(sent, sent - swallowed, s)>>
  <2>1. PICK s : fromCam' = Append(fromCam, Relay!Reply(sent, sent - swallowed, s))
    BY <1>3 DEF Relay!Camera
  <2>. QED BY <1>1, <2>1, OneMessage DEF GoesIn
<1>5. ComesOut'
  <2>1. Relay!Reply(sent, sent - swallowed, s) = Relay!Reply(sent', sent' - swallowed', s)
    BY <1>1
  <2>2. fromCam' = <<Relay!Reply(sent', sent' - swallowed', s)>>
    BY <1>4, <2>1
  <2>. QED BY <1>1, <1>3, <2>2 DEF GoesIn, ComesOut, Relay!Reply
<1>. QED BY <1>1, <1>5 DEF RelayInv

\* The first answer: the request goes again, or the client has its reply.
LEMMA DanceKeepsRelay ==
  ASSUME RelayInv, Relay!_auth_dance
  PROVE  RelayInv'
<1>1. /\ ComesOut /\ fromCam' = Tail(fromCam) /\ swallowed = 0
      /\ UNCHANGED <<sent, atRelay, swallowed, shifter>>
  BY DEF Relay!_auth_dance, RelayInv, Quiet, ComesIn, GoesIn
<1>2. PICK s : fromCam = <<Relay!Reply(sent, sent - swallowed, s)>>
  BY <1>1 DEF ComesOut
<1>3. sent - swallowed = sent
  BY <1>1 DEF RelayInv
<1>4. /\ fromCam' = <<>> /\ Head(fromCam).id = sent
      /\ Head(fromCam).cseq = sent - swallowed
  BY <1>1, <1>2, OneMessage DEF Relay!Reply
<1>5. CASE /\ phase' = "resent" /\ UNCHANGED <<heard, open>>
           /\ toCam' = Append(toCam, Relay!Msg(Head(fromCam).id, Head(fromCam).cseq, TRUE))
  <2>1. toCam' = <<Relay!Msg(sent, sent - swallowed, TRUE)>>
    BY <1>1, <1>4, <1>5, OneMessage DEF ComesOut
  <2>2. toCam' = <<Relay!Msg(sent', sent' - swallowed', TRUE)>>
    BY <1>1, <2>1
  <2>3. GoesIn'
    BY <1>1, <1>4, <1>5, <2>2 DEF ComesOut, GoesIn, Relay!Msg
  <2>. QED BY <1>1, <1>5, <2>3 DEF RelayInv
<1>6. CASE /\ phase' = "steady" /\ UNCHANGED toCam
           /\ Relay!Client(Head(fromCam).id, Head(fromCam).cseq, Head(fromCam).status)
  <2>1. heard'.fits = TRUE
    BY <1>1, <1>3, <1>4, <1>6, Heard DEF ComesOut
  <2>2. Quiet'
    BY <1>1, <1>4, <1>6 DEF ComesOut, Quiet
  <2>. QED BY <1>1, <1>6, <2>1, <2>2 DEF RelayInv
<1>. QED BY <1>5, <1>6 DEF Relay!_auth_dance

\* Later answers get their number back.
LEMMA PipeKeepsRelay ==
  ASSUME RelayInv, Relay!_pipe_inner_to_client
  PROVE  RelayInv'
<1>1. /\ ComesOut /\ fromCam' = Tail(fromCam)
      /\ UNCHANGED <<phase, sent, atRelay, toCam, swallowed, shifter>>
  BY DEF Relay!_pipe_inner_to_client, RelayInv, Quiet, ComesIn, GoesIn
<1>2. PICK s : fromCam = <<Relay!Reply(sent, sent - swallowed, s)>>
  BY <1>1 DEF ComesOut
<1>3. /\ fromCam' = <<>> /\ Head(fromCam).id = sent
      /\ Head(fromCam).cseq = sent - swallowed
  BY <1>1, <1>2, OneMessage DEF Relay!Reply
<1>4. Relay!shift_cseq(sent - swallowed, shifter) = sent
  BY DEF Relay!shift_cseq, RelayInv
<1>5. heard'.fits = TRUE
  <2>1. Relay!Client(sent, sent, Head(fromCam).status)
    BY <1>3, <1>4 DEF Relay!_pipe_inner_to_client
  <2>. QED BY <1>1, <2>1, Heard DEF ComesOut
<1>6. Quiet'
  BY <1>1, <1>3 DEF ComesOut, Quiet
<1>. QED BY <1>1, <1>5, <1>6 DEF RelayInv

\* The first request is on its way when the relay begins.
LEMMA RelayInit == Relay!Init => RelayInv
<1> SUFFICES ASSUME Relay!Init PROVE RelayInv
  OBVIOUS
<1>1. heard.fits = TRUE /\ sent = 1 /\ swallowed = 0 /\ shifter = 0
  BY DEF Relay!Init, Relay!fine
<1>2. toCam = <<Relay!Msg(sent, sent - swallowed, FALSE)>>
  BY <1>1 DEF Relay!Init
<1>3. GoesIn
  BY <1>1, <1>2 DEF Relay!Init, GoesIn
<1>. QED BY <1>1, <1>3 DEF RelayInv

\* Every step of a connection keeps its numbers in order.
LEMMA RelayStep == RelayInv /\ Window = 1 /\ [Relay!Next]_(Relay!vars) => RelayInv'
<1> SUFFICES ASSUME RelayInv, Window = 1, [Relay!Next]_(Relay!vars) PROVE RelayInv'
  OBVIOUS
<1>1. CASE Relay!Rotates \/ UNCHANGED Relay!vars
  BY <1>1 DEF Relay!Rotates, Relay!vars, RelayInv, Quiet, ComesIn, GoesIn, ComesOut
<1>2. CASE Relay!Ends
  <2>1. Quiet' /\ UNCHANGED <<sent, swallowed, shifter, heard>> /\ phase' = "ended"
    BY <1>2 DEF Relay!Ends, Quiet
  <2>. QED BY <2>1 DEF RelayInv
<1>. QED BY <1>1, <1>2, SendsKeepsRelay, DrainKeepsRelay, CameraKeepsRelay, DanceKeepsRelay,
     PipeKeepsRelay DEF Relay!Next

-----------------------------------------------------------------------------
(* The run: doors and a connection do what they do alone.                   *)

\* The instances have the variables of the run.
LEMMA SameVariables ==
    /\ UNCHANGED Door!vars <=> UNCHANGED doorVars
    /\ UNCHANGED Relay!vars <=> UNCHANGED relayVars
BY DEF Door!vars, Door!switches, Door!doorVars, Door!clientVars, Door!sessionVars, doorVars,
   Relay!vars, relayVars

\* In the run each of them does what it does alone.
LEMMA EachAlone == MCSpec => Door!Spec /\ Relay!Spec
<1>1. MCInit => Door!Init /\ Relay!Init
  BY DEF MCInit
<1>2. [MCNext]_all => [Door!Next]_(Door!vars) /\ [Relay!Next]_(Relay!vars)
  <2>1. UNCHANGED all => UNCHANGED doorVars /\ UNCHANGED relayVars
    BY DEF all
  <2>2. MCNext => /\ Door!Next \/ UNCHANGED doorVars
                  /\ Relay!Next \/ UNCHANGED relayVars
    BY <2>1 DEF MCNext, InSession, InDoors, InRelay, Over
  <2>. QED BY <2>1, <2>2, SameVariables
<1>. QED BY <1>1, <1>2, PTL DEF MCSpec, Door!Spec, Relay!Spec

\* The recorders' door is open while a switch is on and the viewers' one leads
\* to the session that is published (frigate_endpoint.py,
\* viewing_front_door.py, remote_viewing_front_door.py).
THEOREM DoorsKeepServing == MCSpec => []DoorsServe
<1>1. Door!WantedIsOpen /\ Door!PublishedDoorServes => DoorsServe
  BY DEF DoorsServe
<1>. QED BY <1>1, EachAlone, DoorsAreOpen, PTL

\* A client that waits for each reply reads its own numbers, whatever the
\* relay swallowed or sent twice (frigate_endpoint.py CSeqCompensation,
\* _Relay._auth_dance).
THEOREM RepliesCarryTheirNumber ==
  ASSUME Window = 1
  PROVE  MCSpec => []RepliesMatch
<1>1. RelayInv => RepliesMatch
  BY DEF RelayInv, RepliesMatch, Relay!RepliesMatch
<1>2. Relay!Spec => []RelayInv
  <2>1. Relay!Init => RelayInv
    BY RelayInit
  <2>2. RelayInv /\ [Relay!Next]_(Relay!vars) => RelayInv'
    BY RelayStep
  <2>. QED BY <2>1, <2>2, PTL DEF Relay!Spec
<1>. QED BY <1>1, <1>2, EachAlone, PTL
=============================================================================
