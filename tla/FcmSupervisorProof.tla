------------------------- MODULE FcmSupervisorProof -------------------------
(***************************************************************************)
(* TLAPS proofs about FcmSupervisor, for every bound: type correctness;    *)
(* and, when no tick asks for a supervisor in the middle of a stop, that   *)
(* at most one supervisor lives, that no listener is left behind, and that *)
(* what the entry keeps of a registration is what Bosch has of it.         *)
(*                                                                         *)
(* The invariants come in layers, each proved with the help of the ones    *)
(* before it.  Typed adds to TypeOK what keeps the counters in their range *)
(* and what fcm_start_lock protects.  Supervised says that only the task   *)
(* in fcm_supervisor_task lives, and what a stop in progress waits for.    *)
(* Stopped follows the one client that may listen through every stop() in  *)
(* progress.  Persisted and PushedTo are about credentials and tokens.      *)
(***************************************************************************)
EXTENDS FcmSupervisor, TLAPS

\* The steps of a start that has a client, those that know its token, and all that
\* run under fcm_start_lock.
Starting == {"checkin", "register", "posted", "dropOld", "listen"}
KnowsToken == Starting \ {"checkin"}
Locked == Starting \cup {"purgeStop", "logout", "purge", "config", "giveUp"}
\* The steps in which a start or a listener uses up soft_streak.
CountsSoft == Starting \cup {"wantStart", "config", "giveUp", "polling", "stopPush"}

\* TypeOK in groups: the entry and what the coordinator knows of the listener, ...
TypeEntry ==
    /\ creds \in 0..MaxClients /\ regTok \in 0..MaxClients
    /\ bosch \subseteq Clients
    /\ mode \in {"auto", "polling"}
    /\ running \in BOOLEAN /\ healthy \in BOOLEAN /\ forced \in BOOLEAN /\ stale \in BOOLEAN

\* ... the clients, ...
TypeClient ==
    /\ client \in 0..MaxClients /\ clientNo \in 0..MaxClients
    /\ cl \in [Clients -> {"none", "made", "started", "dead", "stopped"}]
    /\ tok \in [Clients -> 0..MaxClients]
    /\ callback \subseteq Clients /\ persist \subseteq Clients
    /\ purgedAt \in 0..MaxClients
    /\ held \in [Sups \cup Stoppers -> 0..MaxClients]

\* ... the tasks, ...
Steps == {"none", "sleep", "healWait", "wantPurge", "purgeStop", "logout", "purge",
          "wantStart", "config", "checkin", "register", "posted", "dropOld", "listen",
          "giveUp", "polling", "stopPush", "unwind", "done"}
TypeTask ==
    /\ lock \in 0..MaxSups /\ supTask \in 0..MaxSups /\ supNo \in 0..MaxSups
    /\ pc \in [Sups -> Steps]
    /\ cancelled \subseteq Sups
    /\ spc \in [Stoppers -> {"idle", "await", "push", "stopped", "down"}]
    /\ waits \in [Stoppers -> 0..MaxSups]

\* ... their locals, ...
LocType == [soft : 0..SoftMax, force : BOOLEAN, push : BOOLEAN,
            forcedHeal : BOOLEAN, old : 0..MaxClients]
TypeLoc == loc \in [Sups -> LocType]

\* ... and what is counted.
TypeCount ==
    /\ shutting \in BOOLEAN
    /\ ensures \in 0..MaxEnsures /\ restarts \in 0..MaxRestarts
    /\ trouble \in 0..MaxTrouble

\* Where a heal for want of soft heals is not due, soft_streak has room.
SoftLeft == \A s \in Sups : pc[s] \in CountsSoft => loc[s].soft < SoftMax
\* fcm_start_lock is held in the steps it guards, by the supervisor in them.
LockHeld == \A s \in Sups : pc[s] \in Locked => lock = s
\* A start in progress is about the newest client, which has a token once checked in.
StartHasClient == \A s \in Sups : pc[s] \in Starting => clientNo # 0
TokenThere == \A s \in Sups : pc[s] \in KnowsToken => tok[clientNo] # 0

TypeGroups == TypeEntry /\ TypeClient /\ TypeTask /\ TypeLoc /\ TypeCount
Typed == TypeGroups /\ SoftLeft /\ LockHeld /\ StartHasClient /\ TokenThere

NoneAlive == \A s \in Sups : ~Alive(s)

\* Only the task in fcm_supervisor_task lives.
OnlyTheTask ==
    /\ \A s \in Sups : Alive(s) => s = supTask
    /\ supTask # 0 => pc[supTask] # "none"
\* A stopper that waits knows the task it cancelled; one that is further has seen it end.
StopperKnows ==
    /\ \A p \in Stoppers : spc[p] = "await" => waits[p] \in Sups /\ supTask \in {0, waits[p]}
    /\ \A p \in Stoppers : spc[p] = "push" => NoneAlive
    /\ spc[Unload] \in {"stopped", "down"} => NoneAlive
    /\ spc[Unload] # "idle" => shutting
\* Whoever is cancelled is awaited.
CancelledIsAwaited ==
    \A s \in cancelled : Alive(s) /\ \E p \in Stoppers : spc[p] = "await" /\ waits[p] = s

Supervised == OnlyTheTask /\ StopperKnows /\ CancelledIsAwaited

\* The client a task is stopping is the client there is.
HeldBySupervisor ==
    \A s \in Sups :
        /\ held[s] # 0 => pc[s] \in {"purgeStop", "giveUp", "stopPush", "unwind"}
        /\ pc[s] \in {"purgeStop", "stopPush", "unwind"} => held[s] = client
HeldByStopper ==
    \A p \in Stoppers :
        /\ held[p] # 0 <=> spc[p] = "push"
        /\ spc[p] = "push" => client \in {0, held[p]}
\* Only the coordinator's client listens, and not before its start is through.
OnlyTheClientListens ==
    /\ \A c \in Clients : cl[c] = "started" => c = client
    /\ \A s \in Sups : pc[s] \in Starting => client # 0 /\ cl[client] # "started"
\* There is no client where the code has just given it up or has not made it yet.
NoClient ==
    /\ \A s \in Sups : pc[s] \in {"logout", "purge", "config", "giveUp"} => client = 0
    /\ spc[Unload] \in {"stopped", "down"} => client = 0
\* fcm_running is false from the lock to the listener; a client that is not running is
\* in its start, or about to be stopped.
RunningClient ==
    /\ \A s \in Sups : pc[s] \in Starting \cup {"config", "giveUp"} => ~running
    /\ ~running /\ client # 0 =>
            \/ \E s \in Sups : pc[s] \in Starting
            \/ NoneAlive /\ \E p \in Stoppers : spc[p] \in {"await", "push"}

Stopped == HeldBySupervisor /\ HeldByStopper /\ OnlyTheClientListens /\ NoClient /\ RunningClient

\* Clients, their tokens and the entry's credentials are younger than the last purge.
YoungerThanPurge ==
    /\ client \in {0, clientNo}
    /\ purgedAt <= clientNo /\ creds <= clientNo
    /\ client # 0 => client > purgedAt
    /\ creds # 0 => creds > purgedAt
\* Only a client with a token of its own has something to save.
SavesItsToken ==
    /\ \A c \in callback \cup persist : c <= clientNo /\ tok[c] = c
    /\ \A s \in Sups : pc[s] = "checkin" => clientNo \notin callback \cup persist

Persisted == YoungerThanPurge /\ SavesItsToken

\* Bosch pushes to the token the entry has, except between a logout and the write.
BoschHasEntry == regTok # 0 /\ (\A s \in Sups : pc[s] # "purge") => regTok \in bosch
\* ... and to the token of a start, once it has been posted.
BoschHasToken ==
    \A s \in Sups :
        /\ pc[s] \in {"posted", "dropOld", "listen"} => tok[clientNo] \in bosch
        /\ pc[s] = "posted" => regTok # tok[clientNo]
        /\ pc[s] = "dropOld" => regTok = tok[clientNo] /\ loc[s].old # tok[clientNo]

PushedTo == BoschHasEntry /\ BoschHasToken /\ ListensWhereBoschPushes

USE FcmAssumption
USE DEF Sups, Clients, Stoppers, Select, Unload, At, Goto, Release,
    entry, flags, clientv, persisting, sups, stopping, life, calm

\* Changes of a supervisor's locals that keep their type.
LEMMA LocUpdate ==
  ASSUME TypeLoc, NEW s \in Sups, NEW r \in LocType, loc' = [loc EXCEPT ![s] = r]
  PROVE  TypeLoc'
BY DEF TypeLoc

\* Single fields of the locals may change within their types.
LEMMA LocRecords ==
  ASSUME NEW r \in LocType
  PROVE  /\ r.soft < SoftMax => [r EXCEPT !.soft = @ + 1] \in LocType
         /\ [r EXCEPT !.soft = 0] \in LocType
         /\ \A b \in BOOLEAN :
                /\ [r EXCEPT !.force = b, !.push = FALSE, !.forcedHeal = FALSE] \in LocType
                /\ [r EXCEPT !.forcedHeal = b] \in LocType
                /\ [r EXCEPT !.push = b] \in LocType
         /\ \A t \in 0..MaxClients : [r EXCEPT !.old = t] \in LocType
         /\ [r EXCEPT !.old = 0] \in LocType
<1>1. \A n \in 0..SoftMax : [r EXCEPT !.soft = n] \in LocType
  BY DEF LocType
<1>2. r.soft < SoftMax => r.soft + 1 \in 0..SoftMax
  BY DEF LocType
<1>3. \A b \in BOOLEAN :
                /\ [r EXCEPT !.force = b, !.push = FALSE, !.forcedHeal = FALSE] \in LocType
                /\ [r EXCEPT !.forcedHeal = b] \in LocType
                /\ [r EXCEPT !.push = b] \in LocType
  BY DEF LocType
<1>4. \A t \in 0..MaxClients : [r EXCEPT !.old = t] \in LocType
  BY DEF LocType
<1>5. [r EXCEPT !.soft = 0] \in LocType
  BY <1>1
<1>6. r.soft < SoftMax => [r EXCEPT !.soft = @ + 1] \in LocType
  BY <1>1, <1>2
<1>7. [r EXCEPT !.old = 0] \in LocType
  BY DEF LocType
<1>. QED BY <1>3, <1>4, <1>5, <1>6, <1>7

\* A new supervisor's locals.
LEMMA FreshType == FreshLocals \in LocType
BY DEF FreshLocals, LocType

\* What the coordinator keeps has its type: what is noted or posted is a token.
LEMMA EntryTyped ==
  ASSUME Typed, [Next]_vars
  PROVE  TypeEntry'
<1>1. ASSUME NEW s \in Sups, Starts(s) \/ Heals(s) \/ Fails(s) \/ Supervises(s)
      PROVE  TypeEntry'
  <2>1. CASE Registered(s)
    <3>1. token \in Clients
      BY <2>1 DEF Registered, token, Typed, TypeGroups, TypeClient, StartHasClient,
         TokenThere, KnowsToken, Starting
    <3>. QED BY <2>1, <3>1 DEF Registered, Typed, TypeGroups, TypeEntry
  <2>2. CASE PostConfirmed(s)
    BY <2>2 DEF PostConfirmed, token, Typed, TypeGroups, TypeEntry, TypeClient
  <2>3. CASE DropsOld(s)
    BY <2>3 DEF DropsOld, Trouble, Typed, TypeGroups, TypeEntry, TypeClient
  <2>4. CASE Listens(s)
    BY <2>4 DEF Listens, Typed, TypeGroups, TypeEntry, TypeClient
  <2>5. CASE PurgeStops(s)
    BY <2>5 DEF PurgeStops, PushStopped, Typed, TypeGroups, TypeEntry, TypeClient
  <2>6. CASE LogsOut(s)
    BY <2>6 DEF LogsOut, Trouble, Typed, TypeGroups, TypeEntry, TypeClient
  <2>7. CASE Purges(s)
    <3>1. forced' \in BOOLEAN
      <4>1. CASE loc[s].force
        BY <4>1, <2>7 DEF Purges
      <4>2. CASE ~loc[s].force
        BY <4>2, <2>7 DEF Purges, Typed, TypeGroups, TypeEntry
      <4>. QED BY <4>1, <4>2
    <3>2. /\ creds' = 0 /\ regTok' = 0 /\ stale' = FALSE
          /\ UNCHANGED <<bosch, mode, running, healthy>>
      BY <2>7 DEF Purges
    <3>3. running' \in BOOLEAN /\ healthy' \in BOOLEAN /\ stale' \in BOOLEAN
      BY <3>2, Zenon DEF Typed, TypeGroups, TypeEntry
    <3>. QED BY <3>1, <3>2, <3>3 DEF Typed, TypeGroups, TypeEntry
  <2>8. CASE CheckinFails(s)
    BY <2>8 DEF CheckinFails, Trouble, GivesUp, Typed, TypeGroups, TypeEntry, TypeClient
  <2>9. CASE Stops(s)
    BY <2>9 DEF Stops, PushStopped, Typed, TypeGroups, TypeEntry, TypeClient
  <2>10. CASE Unwinds(s)
    BY <2>10 DEF Unwinds, PushStopped, Typed, TypeGroups, TypeEntry, TypeClient
  <2>11. CASE \/ StartLocks(s) \/ ClientMade(s) \/ ChecksIn(s) \/ GivenUp(s)
              \/ HealWaitEnds(s) \/ PurgeLocks(s) \/ ConfigFails(s) \/ PostFails(s)
              \/ ListenFails(s) \/ PurgeRaises(s) \/ Iterates(s) \/ PollEnds(s)
              \/ Cancelled(s)
    BY <2>11 DEF StartLocks, ClientMade, ChecksIn, GivenUp, HealWaitEnds, PurgeLocks,
       ConfigFails, PostFails, ListenFails, PurgeRaises, Iterates, PollEnds, Cancelled,
       StartFailed, Trouble, GivesUp, NeedsHard, ListenerDown, FreshLocals, Alive, Typed,
       TypeGroups, TypeEntry
  <2>. QED BY <1>1, <2>1, <2>2, <2>3, <2>4, <2>5, <2>6, <2>7, <2>8, <2>9, <2>10, <2>11 DEF
     Starts, Heals, Fails, Supervises
<1>2. ASSUME NEW m \in {"auto", "polling"}, SelectsMode(m)
      PROVE  TypeEntry'
  BY <1>2 DEF SelectsMode, BeginsStop, BeginsPushStop, NoSupervisor, Typed, TypeGroups,
     TypeEntry, TypeClient
<1>3. ASSUME NEW p \in Stoppers, StopperStops(p)
      PROVE  TypeEntry'
  BY <1>3 DEF StopperStops, PushStopped, Typed, TypeGroups, TypeEntry, TypeClient
<1>4. CASE Reloads
  BY <1>4 DEF Reloads, Typed, TypeGroups, TypeEntry, TypeClient
<1>5. ASSUME NEW c \in Clients, PushArrives(c)
      PROVE  TypeEntry'
  BY <1>5 DEF PushArrives, Alive, Typed, TypeGroups, TypeEntry, TypeClient
<1>6. ASSUME NEW c \in Clients, Persists(c)
      PROVE  TypeEntry'
  BY <1>6 DEF Persists, Typed, TypeGroups, TypeEntry, TypeClient
<1>7. CASE Condemns
  BY <1>7 DEF Condemns, Typed, TypeGroups, TypeEntry, TypeClient
<1>8. CASE StaleExpires
  BY <1>8 DEF StaleExpires, Typed, TypeGroups, TypeEntry, TypeClient
<1>9. CASE \/ Tick \/ EnsureRuns \/ Unloads \/ (\E p \in Stoppers : SupervisorEnded(p))
           \/ SelectRestarts \/ UnloadEnds \/ (\E c \in Clients : Dies(c))
           \/ (\E c \in Clients : CallbackRuns(c)) \/ UNCHANGED vars
  BY <1>9 DEF Tick, EnsureRuns, Unloads, SupervisorEnded, SelectRestarts, UnloadEnds, Dies,
     CallbackRuns, NoSupervisor, BeginsStop, BeginsPushStop, vars, Typed, TypeGroups,
     TypeEntry
<1>. QED BY <1>1, <1>2, <1>3, <1>4, <1>5, <1>6, <1>7, <1>8, <1>9 DEF Next, Stopper

\* So have the clients.
LEMMA ClientTyped ==
  ASSUME Typed, [Next]_vars
  PROVE  TypeClient'
<1>1. ASSUME NEW s \in Sups, Starts(s) \/ Heals(s) \/ Fails(s) \/ Supervises(s)
      PROVE  TypeClient'
  <2>1. CASE ClientMade(s)
    BY <2>1 DEF ClientMade, Typed, TypeGroups, TypeEntry, TypeClient
  <2>2. CASE ChecksIn(s)
    BY <2>2 DEF ChecksIn, Typed, TypeGroups, TypeEntry, TypeClient, StartHasClient,
       Starting
  <2>3. CASE Listens(s)
    BY <2>3 DEF Listens, Typed, TypeGroups, TypeEntry, TypeClient
  <2>4. CASE GivenUp(s)
    BY <2>4 DEF GivenUp, StartFailed, Typed, TypeGroups, TypeEntry, TypeClient
  <2>5. CASE PurgeLocks(s)
    BY <2>5 DEF PurgeLocks, Typed, TypeGroups, TypeEntry, TypeClient
  <2>6. CASE PurgeStops(s)
    BY <2>6 DEF PurgeStops, PushStopped, Typed, TypeGroups, TypeEntry, TypeClient
  <2>7. CASE Purges(s)
    BY <2>7 DEF Purges, Typed, TypeGroups, TypeEntry, TypeClient
  <2>8. CASE CheckinFails(s)
    BY <2>8 DEF CheckinFails, Trouble, GivesUp, Typed, TypeGroups, TypeEntry, TypeClient
  <2>9. CASE PostFails(s)
    BY <2>9 DEF PostFails, Trouble, GivesUp, Typed, TypeGroups, TypeEntry, TypeClient
  <2>10. CASE ListenFails(s)
    BY <2>10 DEF ListenFails, Trouble, GivesUp, Typed, TypeGroups, TypeEntry, TypeClient
  <2>11. CASE PollEnds(s)
    BY <2>11 DEF PollEnds, ListenerDown, Typed, TypeGroups, TypeEntry, TypeClient
  <2>12. CASE Stops(s)
    BY <2>12, SMTT(60) DEF Stops, PushStopped, Typed, TypeGroups, TypeEntry, TypeClient
  <2>13. CASE Cancelled(s)
    <3>1. cl' \in [Clients -> {"none", "made", "started", "dead", "stopped"}]
      BY <2>13 DEF Cancelled, Typed, TypeGroups, TypeClient
    <3>2. held' \in [Sups \cup Stoppers -> 0..MaxClients]
      BY <2>13 DEF Cancelled, Typed, TypeGroups, TypeClient
    <3>3. UNCHANGED <<client, clientNo, tok, callback, persist, purgedAt>>
      BY <2>13 DEF Cancelled
    <3>. QED BY <3>1, <3>2, <3>3 DEF Typed, TypeGroups, TypeClient
  <2>14. CASE Unwinds(s)
    BY <2>14 DEF Unwinds, PushStopped, Typed, TypeGroups, TypeEntry, TypeClient
  <2>15. CASE \/ StartLocks(s) \/ Registered(s) \/ PostConfirmed(s) \/ DropsOld(s)
              \/ HealWaitEnds(s) \/ LogsOut(s) \/ ConfigFails(s) \/ PurgeRaises(s)
              \/ Iterates(s)
    BY <2>15 DEF StartLocks, Registered, PostConfirmed, DropsOld, HealWaitEnds, LogsOut,
       ConfigFails, PurgeRaises, Iterates, StartFailed, token, Trouble, NeedsHard, Typed,
       TypeGroups, TypeClient
  <2>. QED BY <1>1, <2>1, <2>2, <2>3, <2>4, <2>5, <2>6, <2>7, <2>8, <2>9, <2>10, <2>11,
     <2>12, <2>13, <2>14, <2>15 DEF Starts, Heals, Fails, Supervises
<1>2. ASSUME NEW m \in {"auto", "polling"}, SelectsMode(m)
      PROVE  TypeClient'
  BY <1>2 DEF SelectsMode, BeginsStop, BeginsPushStop, NoSupervisor, Typed, TypeGroups,
     TypeEntry, TypeClient
<1>3. CASE Unloads
  BY <1>3 DEF Unloads, BeginsStop, BeginsPushStop, NoSupervisor, Typed, TypeGroups,
     TypeEntry, TypeClient
<1>4. ASSUME NEW p \in Stoppers, SupervisorEnded(p)
      PROVE  TypeClient'
  BY <1>4 DEF SupervisorEnded, BeginsPushStop, Typed, TypeGroups, TypeEntry, TypeClient
<1>5. ASSUME NEW p \in Stoppers, StopperStops(p)
      PROVE  TypeClient'
  BY <1>5 DEF StopperStops, PushStopped, Typed, TypeGroups, TypeEntry, TypeClient
<1>6. CASE UnloadEnds
  BY <1>6 DEF UnloadEnds, Typed, TypeGroups, TypeEntry, TypeClient
<1>7. CASE Reloads
  BY <1>7 DEF Reloads, Typed, TypeGroups, TypeEntry, TypeClient
<1>8. ASSUME NEW c \in Clients, Dies(c)
      PROVE  TypeClient'
  BY <1>8 DEF Dies, Typed, TypeGroups, TypeEntry, TypeClient
<1>9. ASSUME NEW c \in Clients, CallbackRuns(c)
      PROVE  TypeClient'
  BY <1>9 DEF CallbackRuns, Typed, TypeGroups, TypeEntry, TypeClient
<1>10. ASSUME NEW c \in Clients, Persists(c)
      PROVE  TypeClient'
  BY <1>10 DEF Persists, Typed, TypeGroups, TypeEntry, TypeClient
<1>11. CASE \/ Tick \/ EnsureRuns \/ SelectRestarts \/ (\E c \in Clients : PushArrives(c))
            \/ Condemns \/ StaleExpires \/ UNCHANGED vars
  BY <1>11 DEF Tick, EnsureRuns, SelectRestarts, PushArrives, Condemns, StaleExpires,
     NoSupervisor, Alive, vars, Typed, TypeGroups, TypeClient
<1>. QED BY <1>1, <1>2, <1>3, <1>4, <1>5, <1>6, <1>7, <1>8, <1>9, <1>10, <1>11 DEF Next,
   Stopper

\* So have the tasks.
LEMMA TaskTyped ==
  ASSUME Typed, [Next]_vars
  PROVE  TypeTask'
<1>1. ASSUME NEW s \in Sups, Starts(s) \/ Heals(s) \/ Fails(s) \/ Supervises(s)
      PROVE  TypeTask'
  <2>1. CASE StartLocks(s)
    <3>1. pc' \in [Sups -> Steps]
      BY <2>1, SMTT(60) DEF StartLocks, StartFailed, Typed, TypeGroups, TypeTask, Steps
    <3>2. lock' \in 0..MaxSups
      BY <2>1 DEF StartLocks, StartFailed, Typed, TypeGroups, TypeTask
    <3>. QED BY <2>1, <3>1, <3>2 DEF StartLocks, Typed, TypeGroups, TypeTask
  <2>2. CASE ClientMade(s)
    BY <2>2 DEF ClientMade, Typed, TypeGroups, TypeTask, Steps
  <2>3. CASE ChecksIn(s)
    BY <2>3 DEF ChecksIn, Typed, TypeGroups, TypeTask, Steps
  <2>4. CASE Registered(s)
    BY <2>4 DEF Registered, token, Typed, TypeGroups, TypeTask, Steps
  <2>5. CASE PostConfirmed(s)
    BY <2>5 DEF PostConfirmed, token, Typed, TypeGroups, TypeTask, Steps
  <2>6. CASE DropsOld(s)
    BY <2>6 DEF DropsOld, Trouble, Typed, TypeGroups, TypeTask, Steps
  <2>7. CASE Listens(s)
    BY <2>7 DEF Listens, Typed, TypeGroups, TypeTask, Steps
  <2>8. CASE GivenUp(s)
    BY <2>8 DEF GivenUp, StartFailed, Typed, TypeGroups, TypeTask, Steps
  <2>9. CASE HealWaitEnds(s)
    BY <2>9 DEF HealWaitEnds, Typed, TypeGroups, TypeTask, Steps
  <2>10. CASE PurgeLocks(s)
    BY <2>10 DEF PurgeLocks, Typed, TypeGroups, TypeTask, Steps
  <2>11. CASE PurgeStops(s)
    BY <2>11 DEF PurgeStops, PushStopped, Typed, TypeGroups, TypeTask, Steps
  <2>12. CASE LogsOut(s)
    BY <2>12 DEF LogsOut, Trouble, Typed, TypeGroups, TypeTask, Steps
  <2>13. CASE Purges(s)
    BY <2>13 DEF Purges, Typed, TypeGroups, TypeTask, Steps
  <2>14. CASE ConfigFails(s)
    BY <2>14 DEF ConfigFails, Trouble, StartFailed, Typed, TypeGroups, TypeTask, Steps
  <2>15. CASE CheckinFails(s)
    BY <2>15 DEF CheckinFails, Trouble, GivesUp, Typed, TypeGroups, TypeTask, Steps
  <2>16. CASE PostFails(s)
    BY <2>16 DEF PostFails, Trouble, GivesUp, Typed, TypeGroups, TypeTask, Steps
  <2>17. CASE ListenFails(s)
    BY <2>17 DEF ListenFails, Trouble, GivesUp, Typed, TypeGroups, TypeTask, Steps
  <2>18. CASE PurgeRaises(s)
    BY <2>18 DEF PurgeRaises, Trouble, Typed, TypeGroups, TypeTask, Steps
  <2>19. CASE Iterates(s)
    BY <2>19 DEF Iterates, NeedsHard, Typed, TypeGroups, TypeTask, Steps
  <2>20. CASE PollEnds(s)
    BY <2>20 DEF PollEnds, ListenerDown, Typed, TypeGroups, TypeTask, Steps
  <2>21. CASE Stops(s)
    BY <2>21 DEF Stops, PushStopped, Typed, TypeGroups, TypeTask, Steps
  <2>22. CASE Cancelled(s)
    BY <2>22 DEF Cancelled, FreshLocals, Alive, Typed, TypeGroups, TypeTask, Steps
  <2>23. CASE Unwinds(s)
    BY <2>23 DEF Unwinds, PushStopped, Typed, TypeGroups, TypeTask, Steps
  <2>. QED BY <1>1, <2>1, <2>2, <2>3, <2>4, <2>5, <2>6, <2>7, <2>8, <2>9, <2>10, <2>11,
     <2>12, <2>13, <2>14, <2>15, <2>16, <2>17, <2>18, <2>19, <2>20, <2>21, <2>22, <2>23 DEF
     Starts, Heals, Fails, Supervises
<1>2. CASE EnsureRuns
  <2>1. CASE shutting \/ ~NoSupervisor
    BY <1>2, <2>1 DEF EnsureRuns, Typed, TypeGroups, TypeTask
  <2>2. CASE ~(shutting \/ ~NoSupervisor)
    <3>1. supNo + 1 \in Sups
      BY <1>2, <2>2 DEF EnsureRuns, Typed, TypeGroups, TypeTask
    <3>2. supNo' = supNo + 1 /\ supTask' = supNo + 1 /\ pc' = [pc EXCEPT ![supNo + 1] = "sleep"]
          /\ UNCHANGED <<lock, cancelled, spc, waits>>
      BY <1>2, <2>2 DEF EnsureRuns
    <3>. QED BY <3>1, <3>2 DEF Typed, TypeGroups, TypeTask, Steps
  <2>. QED BY <2>1, <2>2
<1>3. ASSUME NEW m \in {"auto", "polling"}, SelectsMode(m)
      PROVE  TypeTask'
  <2>1. CASE NoSupervisor
    BY <1>3, <2>1 DEF SelectsMode, BeginsStop, BeginsPushStop, Typed, TypeGroups, TypeTask
  <2>2. CASE ~NoSupervisor
    <3>1. supTask \in Sups
      BY <2>2 DEF NoSupervisor, Typed, TypeGroups, TypeTask
    <3>2. \E p \in Stoppers : /\ cancelled' = cancelled \cup {supTask}
                              /\ waits' = [waits EXCEPT ![p] = supTask]
                              /\ spc' = [spc EXCEPT ![p] = "await"]
                              /\ UNCHANGED <<lock, supTask, supNo, pc>>
      BY <1>3, <2>2 DEF SelectsMode, BeginsStop
    <3>. QED BY <3>1, <3>2 DEF Typed, TypeGroups, TypeTask
  <2>. QED BY <2>1, <2>2
<1>4. CASE Unloads
  <2>1. CASE NoSupervisor
    BY <1>4, <2>1 DEF Unloads, BeginsStop, BeginsPushStop, Typed, TypeGroups, TypeTask
  <2>2. CASE ~NoSupervisor
    <3>1. supTask \in Sups
      BY <2>2 DEF NoSupervisor, Typed, TypeGroups, TypeTask
    <3>2. \E p \in Stoppers : /\ cancelled' = cancelled \cup {supTask}
                              /\ waits' = [waits EXCEPT ![p] = supTask]
                              /\ spc' = [spc EXCEPT ![p] = "await"]
                              /\ UNCHANGED <<lock, supTask, supNo, pc>>
      BY <1>4, <2>2 DEF Unloads, BeginsStop
    <3>. QED BY <3>1, <3>2 DEF Typed, TypeGroups, TypeTask
  <2>. QED BY <2>1, <2>2
<1>5. ASSUME NEW p \in Stoppers, SupervisorEnded(p)
      PROVE  TypeTask'
  BY <1>5 DEF SupervisorEnded, BeginsPushStop, Typed, TypeGroups, TypeTask, Steps
<1>6. ASSUME NEW p \in Stoppers, StopperStops(p)
      PROVE  TypeTask'
  BY <1>6 DEF StopperStops, PushStopped, Typed, TypeGroups, TypeTask, Steps
<1>7. CASE SelectRestarts
  BY <1>7 DEF SelectRestarts, Typed, TypeGroups, TypeTask, Steps
<1>8. CASE UnloadEnds
  BY <1>8 DEF UnloadEnds, Typed, TypeGroups, TypeTask, Steps
<1>9. CASE Reloads
  BY <1>9 DEF Reloads, Typed, TypeGroups, TypeTask, Steps
<1>10. CASE \/ Tick \/ (\E c \in Clients : Dies(c)) \/ (\E c \in Clients : PushArrives(c))
            \/ (\E c \in Clients : CallbackRuns(c)) \/ (\E c \in Clients : Persists(c))
            \/ Condemns \/ StaleExpires \/ UNCHANGED vars
  BY <1>10 DEF Tick, Dies, PushArrives, CallbackRuns, Persists, Condemns, StaleExpires,
     Alive, vars, Typed, TypeGroups, TypeTask
<1>. QED BY <1>1, <1>2, <1>3, <1>4, <1>5, <1>6, <1>7, <1>8, <1>9, <1>10 DEF Next, Stopper

\* So have the supervisors' locals; soft_streak stays within its limit.
LEMMA LocTyped ==
  ASSUME Typed, [Next]_vars
  PROVE  TypeLoc'
<1>1. ASSUME NEW s \in Sups, Starts(s) \/ Heals(s) \/ Fails(s) \/ Supervises(s)
      PROVE  TypeLoc'
  <2>1. CASE StartLocks(s)
    <3>1. loc[s] \in LocType /\ loc[s].soft < SoftMax
      BY <2>1 DEF StartLocks, Typed, TypeGroups, TypeLoc, SoftLeft, CountsSoft
    <3>2. CASE StartFailed(s)
      BY <3>1, <3>2, LocUpdate, LocRecords DEF StartFailed, Typed, TypeGroups
    <3>3. CASE loc' = loc
      BY <3>3 DEF Typed, TypeGroups, TypeLoc
    <3>. QED BY <2>1, <3>2, <3>3 DEF StartLocks
  <2>2. CASE PostConfirmed(s)
    <3>1. loc[s] \in LocType /\ regTok \in 0..MaxClients
      BY <2>2 DEF PostConfirmed, Typed, TypeGroups, TypeLoc, TypeEntry
    <3>2. loc' = [loc EXCEPT ![s] = [loc[s] EXCEPT !.old = regTok]]
      BY <2>2, <3>1 DEF PostConfirmed, LocType, TypeLoc
    <3>. QED BY <3>1, <3>2, LocUpdate, LocRecords DEF Typed, TypeGroups
  <2>3. CASE DropsOld(s)
    <3>1. loc[s] \in LocType 
      BY <2>3 DEF DropsOld, Typed, TypeGroups, TypeLoc
    <3>2. loc' = [loc EXCEPT ![s] = [loc[s] EXCEPT !.old = 0]]
      BY <2>3, <3>1 DEF DropsOld, LocType, TypeLoc
    <3>. QED BY <3>1, <3>2, LocUpdate, LocRecords DEF Typed, TypeGroups
  <2>4. CASE GivenUp(s)
    <3>1. loc[s] \in LocType /\ loc[s].soft < SoftMax
      BY <2>4 DEF GivenUp, Typed, TypeGroups, TypeLoc, SoftLeft, CountsSoft, Starting
    <3>2. loc' = [loc EXCEPT ![s].soft = @ + 1]
      BY <2>4 DEF GivenUp, StartFailed
    <3>. QED BY <3>1, <3>2, LocUpdate, LocRecords DEF Typed, TypeGroups
  <2>5. CASE Purges(s)
    <3>1. loc[s] \in LocType 
      BY <2>5 DEF Purges, Typed, TypeGroups, TypeLoc
    <3>2. loc' = [loc EXCEPT ![s] = [loc[s] EXCEPT !.soft = 0]]
      BY <2>5, <3>1 DEF Purges, LocType, TypeLoc
    <3>. QED BY <3>1, <3>2, LocUpdate, LocRecords DEF Typed, TypeGroups
  <2>6. CASE ConfigFails(s)
    <3>1. loc[s] \in LocType /\ loc[s].soft < SoftMax
      BY <2>6 DEF ConfigFails, Typed, TypeGroups, TypeLoc, SoftLeft, CountsSoft, Starting
    <3>2. loc' = [loc EXCEPT ![s].soft = @ + 1]
      BY <2>6 DEF ConfigFails, StartFailed
    <3>. QED BY <3>1, <3>2, LocUpdate, LocRecords DEF Typed, TypeGroups
  <2>7. CASE Iterates(s)
    <3>1. loc[s] \in LocType /\ forced \in BOOLEAN
      BY <2>7 DEF Iterates, Typed, TypeGroups, TypeLoc, TypeEntry
    <3>2. loc' = [loc EXCEPT ![s] = [loc[s] EXCEPT !.force = forced, !.push = FALSE, !.forcedHeal = FALSE]]
      BY <2>7, <3>1 DEF Iterates, LocType, TypeLoc
    <3>. QED BY <3>1, <3>2, LocUpdate, LocRecords DEF Typed, TypeGroups
  <2>8. CASE PollEnds(s)
    <3>1. loc[s] \in LocType 
      BY <2>8 DEF PollEnds, Typed, TypeGroups, TypeLoc
    <3>2. loc' = [loc EXCEPT ![s] = [loc[s] EXCEPT !.forcedHeal = ~ListenerDown]]
      BY <2>8, <3>1 DEF PollEnds, LocType, TypeLoc
    <3>. QED BY <3>1, <3>2, LocUpdate, LocRecords DEF Typed, TypeGroups
  <2>9. CASE Stops(s)
    <3>1. loc[s] \in LocType /\ loc[s].soft < SoftMax
      BY <2>9 DEF Stops, Typed, TypeGroups, TypeLoc, SoftLeft, CountsSoft
    <3>2. CASE loc[s].forcedHeal
      BY <2>9, <3>1, <3>2, LocUpdate DEF Stops, Typed, TypeGroups
    <3>3. CASE ~loc[s].forcedHeal /\ loc[s].push
      BY <2>9, <3>1, <3>3, LocUpdate, LocRecords DEF Stops, Typed, TypeGroups
    <3>4. CASE ~loc[s].forcedHeal /\ ~loc[s].push
      <4>1. loc' = [loc EXCEPT ![s] = [loc[s] EXCEPT !.soft = loc[s].soft + 1]]
        BY <2>9, <3>4 DEF Stops
      <4>. QED BY <3>1, <4>1, LocUpdate, LocRecords DEF Typed, TypeGroups
    <3>. QED BY <3>2, <3>3, <3>4
  <2>10. CASE Cancelled(s)
    BY <2>10, FreshType, LocUpdate DEF Cancelled, Typed, TypeGroups
  <2>11. CASE \/ ClientMade(s) \/ ChecksIn(s) \/ Registered(s) \/ Listens(s)
              \/ HealWaitEnds(s) \/ PurgeLocks(s) \/ PurgeStops(s) \/ LogsOut(s)
              \/ CheckinFails(s) \/ PostFails(s) \/ ListenFails(s) \/ PurgeRaises(s)
              \/ Unwinds(s)
    BY <2>11 DEF ClientMade, ChecksIn, Registered, Listens, HealWaitEnds, PurgeLocks,
       PurgeStops, LogsOut, CheckinFails, PostFails, ListenFails, PurgeRaises, Unwinds,
       token, PushStopped, Trouble, GivesUp, Typed, TypeGroups, TypeLoc
  <2>. QED BY <1>1, <2>1, <2>2, <2>3, <2>4, <2>5, <2>6, <2>7, <2>8, <2>9, <2>10, <2>11 DEF
     Starts, Heals, Fails, Supervises
<1>2. ASSUME NEW c \in Clients, PushArrives(c)
      PROVE  TypeLoc'
  <2>1. \A s \in Sups : loc[s] \in LocType /\ Alive(s) \in BOOLEAN
    BY DEF Typed, TypeGroups, TypeLoc, Alive
  <2>. QED BY <1>2, <2>1, LocRecords DEF PushArrives, TypeLoc
<1>3. CASE \/ Tick \/ EnsureRuns \/ (\E m \in {"auto", "polling"} : SelectsMode(m))
           \/ Unloads \/ (\E p \in Stoppers : SupervisorEnded(p))
           \/ (\E p \in Stoppers : StopperStops(p)) \/ SelectRestarts \/ UnloadEnds
           \/ Reloads \/ (\E c \in Clients : Dies(c))
           \/ (\E c \in Clients : CallbackRuns(c)) \/ (\E c \in Clients : Persists(c))
           \/ Condemns \/ StaleExpires \/ UNCHANGED vars
  BY <1>3 DEF Tick, EnsureRuns, SelectsMode, Unloads, SupervisorEnded, StopperStops,
     SelectRestarts, UnloadEnds, Reloads, Dies, CallbackRuns, Persists, Condemns,
     StaleExpires, NoSupervisor, BeginsStop, BeginsPushStop, PushStopped, vars, Typed,
     TypeGroups, TypeLoc
<1>. QED BY <1>1, <1>2, <1>3 DEF Next, Stopper

\* And what is counted stays within its bounds.
LEMMA CountTyped ==
  ASSUME Typed, [Next]_vars
  PROVE  TypeCount'
<1>1. ASSUME NEW s \in Sups, Starts(s) \/ Heals(s) \/ Fails(s) \/ Supervises(s)
      PROVE  TypeCount'
  <2>1. CASE DropsOld(s)
    BY <2>1 DEF DropsOld, Trouble, Typed, TypeGroups, TypeCount
  <2>2. CASE LogsOut(s)
    BY <2>2 DEF LogsOut, Trouble, Typed, TypeGroups, TypeCount
  <2>3. CASE ConfigFails(s)
    BY <2>3 DEF ConfigFails, Trouble, StartFailed, Typed, TypeGroups, TypeCount
  <2>4. CASE CheckinFails(s)
    BY <2>4 DEF CheckinFails, Trouble, GivesUp, Typed, TypeGroups, TypeCount
  <2>5. CASE PostFails(s)
    BY <2>5 DEF PostFails, Trouble, GivesUp, Typed, TypeGroups, TypeCount
  <2>6. CASE ListenFails(s)
    BY <2>6 DEF ListenFails, Trouble, GivesUp, Typed, TypeGroups, TypeCount
  <2>7. CASE PurgeRaises(s)
    BY <2>7 DEF PurgeRaises, Trouble, Typed, TypeGroups, TypeCount
  <2>8. CASE \/ StartLocks(s) \/ ClientMade(s) \/ ChecksIn(s) \/ Registered(s)
             \/ PostConfirmed(s) \/ Listens(s) \/ GivenUp(s) \/ HealWaitEnds(s)
             \/ PurgeLocks(s) \/ PurgeStops(s) \/ Purges(s) \/ Iterates(s) \/ PollEnds(s)
             \/ Stops(s) \/ Cancelled(s) \/ Unwinds(s)
    BY <2>8 DEF StartLocks, ClientMade, ChecksIn, Registered, PostConfirmed, Listens,
       GivenUp, HealWaitEnds, PurgeLocks, PurgeStops, Purges, Iterates, PollEnds, Stops,
       Cancelled, Unwinds, StartFailed, token, PushStopped, NeedsHard, ListenerDown,
       FreshLocals, Alive, Typed, TypeGroups, TypeCount
  <2>. QED BY <1>1, <2>1, <2>2, <2>3, <2>4, <2>5, <2>6, <2>7, <2>8 DEF Starts, Heals,
     Fails, Supervises
<1>2. CASE Tick
  BY <1>2 DEF Tick, Typed, TypeGroups, TypeCount
<1>3. CASE EnsureRuns
  BY <1>3 DEF EnsureRuns, NoSupervisor, Typed, TypeGroups, TypeCount
<1>4. ASSUME NEW m \in {"auto", "polling"}, SelectsMode(m)
      PROVE  TypeCount'
  BY <1>4 DEF SelectsMode, BeginsStop, BeginsPushStop, NoSupervisor, Typed, TypeGroups,
     TypeCount
<1>5. CASE Unloads
  BY <1>5 DEF Unloads, BeginsStop, BeginsPushStop, NoSupervisor, Typed, TypeGroups,
     TypeCount
<1>6. CASE SelectRestarts
  BY <1>6 DEF SelectRestarts, Typed, TypeGroups, TypeCount
<1>7. CASE Reloads
  <2>1. /\ restarts < MaxRestarts /\ restarts' = restarts + 1
        /\ shutting' = FALSE /\ ensures' = 1 /\ trouble' = trouble
    BY <1>7 DEF Reloads
  <2>2. shutting' \in BOOLEAN
    BY <2>1, Zenon
  <2>3. restarts' \in 0..MaxRestarts /\ ensures' \in 0..MaxEnsures /\ trouble' \in 0..MaxTrouble
    BY <2>1 DEF Typed, TypeGroups, TypeCount
  <2>. QED BY <2>2, <2>3 DEF TypeCount
<1>8. CASE \/ (\E p \in Stoppers : SupervisorEnded(p))
           \/ (\E p \in Stoppers : StopperStops(p)) \/ UnloadEnds
           \/ (\E c \in Clients : Dies(c)) \/ (\E c \in Clients : PushArrives(c))
           \/ (\E c \in Clients : CallbackRuns(c)) \/ (\E c \in Clients : Persists(c))
           \/ Condemns \/ StaleExpires \/ UNCHANGED vars
  BY <1>8 DEF SupervisorEnded, StopperStops, UnloadEnds, Dies, PushArrives, CallbackRuns,
     Persists, Condemns, StaleExpires, BeginsPushStop, PushStopped, Alive, vars, Typed,
     TypeGroups, TypeCount
<1>. QED BY <1>1, <1>2, <1>3, <1>4, <1>5, <1>6, <1>7, <1>8 DEF Next, Stopper

\* A supervisor whose soft heals are used up purges before it starts again.
LEMMA SoftKept ==
  ASSUME Typed, [Next]_vars
  PROVE  SoftLeft'
<1>1. ASSUME NEW s \in Sups, Starts(s) \/ Heals(s) \/ Fails(s) \/ Supervises(s)
      PROVE  SoftLeft'
  <2>1. CASE StartLocks(s)
    BY <2>1 DEF StartLocks, StartFailed, Typed, TypeGroups, SoftLeft, TypeTask, TypeLoc,
       LocType, CountsSoft, Starting
  <2>2. CASE ClientMade(s)
    BY <2>2 DEF ClientMade, Typed, TypeGroups, SoftLeft, TypeTask, TypeLoc, LocType,
       CountsSoft, Starting
  <2>3. CASE ChecksIn(s)
    BY <2>3 DEF ChecksIn, Typed, TypeGroups, SoftLeft, TypeTask, TypeLoc, LocType,
       CountsSoft, Starting
  <2>4. CASE Registered(s)
    BY <2>4 DEF Registered, token, Typed, TypeGroups, SoftLeft, TypeTask, TypeLoc, LocType,
       CountsSoft, Starting
  <2>5. CASE PostConfirmed(s)
    BY <2>5 DEF PostConfirmed, token, Typed, TypeGroups, SoftLeft, TypeTask, TypeLoc,
       LocType, CountsSoft, Starting
  <2>6. CASE DropsOld(s)
    BY <2>6 DEF DropsOld, Trouble, Typed, TypeGroups, SoftLeft, TypeTask, TypeLoc, LocType,
       CountsSoft, Starting
  <2>7. CASE Listens(s)
    BY <2>7 DEF Listens, Typed, TypeGroups, SoftLeft, TypeTask, TypeLoc, LocType,
       CountsSoft, Starting
  <2>8. CASE GivenUp(s)
    BY <2>8 DEF GivenUp, StartFailed, Typed, TypeGroups, SoftLeft, TypeTask, TypeLoc,
       LocType, CountsSoft, Starting
  <2>9. CASE HealWaitEnds(s)
    BY <2>9 DEF HealWaitEnds, Typed, TypeGroups, SoftLeft, TypeTask, TypeLoc, LocType,
       CountsSoft, Starting
  <2>10. CASE PurgeLocks(s)
    BY <2>10 DEF PurgeLocks, Typed, TypeGroups, SoftLeft, TypeTask, TypeLoc, LocType,
       CountsSoft, Starting
  <2>11. CASE PurgeStops(s)
    BY <2>11 DEF PurgeStops, PushStopped, Typed, TypeGroups, SoftLeft, TypeTask, TypeLoc,
       LocType, CountsSoft, Starting
  <2>12. CASE LogsOut(s)
    BY <2>12 DEF LogsOut, Trouble, Typed, TypeGroups, SoftLeft, TypeTask, TypeLoc, LocType,
       CountsSoft, Starting
  <2>13. CASE Purges(s)
    BY <2>13, SMTT(60) DEF Purges, Typed, TypeGroups, SoftLeft, TypeTask, TypeLoc, LocType,
       CountsSoft, Starting
  <2>14. CASE ConfigFails(s)
    BY <2>14 DEF ConfigFails, Trouble, StartFailed, Typed, TypeGroups, SoftLeft, TypeTask,
       TypeLoc, LocType, CountsSoft, Starting
  <2>15. CASE CheckinFails(s)
    BY <2>15 DEF CheckinFails, Trouble, GivesUp, Typed, TypeGroups, SoftLeft, TypeTask,
       TypeLoc, LocType, CountsSoft, Starting
  <2>16. CASE PostFails(s)
    BY <2>16 DEF PostFails, Trouble, GivesUp, Typed, TypeGroups, SoftLeft, TypeTask,
       TypeLoc, LocType, CountsSoft, Starting
  <2>17. CASE ListenFails(s)
    BY <2>17 DEF ListenFails, Trouble, GivesUp, Typed, TypeGroups, SoftLeft, TypeTask,
       TypeLoc, LocType, CountsSoft, Starting
  <2>18. CASE PurgeRaises(s)
    BY <2>18 DEF PurgeRaises, Trouble, Typed, TypeGroups, SoftLeft, TypeTask, TypeLoc,
       LocType, CountsSoft, Starting
  <2>19. CASE Iterates(s)
    <3>1. CASE NeedsHard(s)
      BY <2>19, <3>1 DEF Iterates, Typed, TypeGroups, SoftLeft, TypeTask, TypeLoc, LocType,
         CountsSoft, Starting
    <3>2. CASE ~NeedsHard(s)
      <4>1. loc[s].soft < SoftMax
        BY <3>2 DEF NeedsHard, Typed, TypeGroups, TypeLoc, LocType
      <4>. QED BY <2>19, <3>2, <4>1, SMTT(60) DEF Iterates, Typed, TypeGroups, SoftLeft, TypeTask, TypeLoc, LocType,
         CountsSoft, Starting
    <3>. QED BY <3>1, <3>2
  <2>20. CASE PollEnds(s)
    BY <2>20 DEF PollEnds, ListenerDown, Typed, TypeGroups, SoftLeft, TypeTask, TypeLoc,
       LocType, CountsSoft, Starting
  <2>21. CASE Stops(s)
    BY <2>21 DEF Stops, PushStopped, Typed, TypeGroups, SoftLeft, TypeTask, TypeLoc,
       LocType, CountsSoft, Starting
  <2>22. CASE Cancelled(s)
    BY <2>22 DEF Cancelled, FreshLocals, Alive, Typed, TypeGroups, SoftLeft, TypeTask,
       TypeLoc, LocType, CountsSoft, Starting
  <2>23. CASE Unwinds(s)
    BY <2>23 DEF Unwinds, PushStopped, Typed, TypeGroups, SoftLeft, TypeTask, TypeLoc,
       LocType, CountsSoft, Starting
  <2>. QED BY <1>1, <2>1, <2>2, <2>3, <2>4, <2>5, <2>6, <2>7, <2>8, <2>9, <2>10, <2>11,
     <2>12, <2>13, <2>14, <2>15, <2>16, <2>17, <2>18, <2>19, <2>20, <2>21, <2>22, <2>23 DEF
     Starts, Heals, Fails, Supervises
<1>2. CASE EnsureRuns
  BY <1>2 DEF EnsureRuns, NoSupervisor, Typed, TypeGroups, SoftLeft, TypeTask, TypeLoc,
     LocType, CountsSoft, Starting
<1>3. ASSUME NEW c \in Clients, PushArrives(c)
      PROVE  SoftLeft'
  BY <1>3 DEF PushArrives, Alive, Typed, TypeGroups, SoftLeft, TypeTask, TypeLoc, LocType,
     CountsSoft, Starting
<1>4. CASE \/ Tick \/ (\E m \in {"auto", "polling"} : SelectsMode(m)) \/ Unloads
           \/ (\E p \in Stoppers : SupervisorEnded(p))
           \/ (\E p \in Stoppers : StopperStops(p)) \/ SelectRestarts \/ UnloadEnds
           \/ Reloads \/ (\E c \in Clients : Dies(c))
           \/ (\E c \in Clients : CallbackRuns(c)) \/ (\E c \in Clients : Persists(c))
           \/ Condemns \/ StaleExpires \/ UNCHANGED vars
  BY <1>4 DEF Tick, SelectsMode, Unloads, SupervisorEnded, StopperStops, SelectRestarts,
     UnloadEnds, Reloads, Dies, CallbackRuns, Persists, Condemns, StaleExpires, BeginsStop,
     BeginsPushStop, NoSupervisor, PushStopped, vars, Typed, TypeGroups, SoftLeft
<1>. QED BY <1>1, <1>2, <1>3, <1>4 DEF Next, Stopper

\* The start lock stays with the supervisor in the steps it guards.
LEMMA LockKept ==
  ASSUME Typed, [Next]_vars
  PROVE  LockHeld'
<1>1. ASSUME NEW s \in Sups, Starts(s) \/ Heals(s) \/ Fails(s) \/ Supervises(s)
      PROVE  LockHeld'
  <2>1. CASE StartLocks(s)
    BY <2>1 DEF StartLocks, StartFailed, Typed, TypeGroups, LockHeld, TypeTask, Locked,
       Starting
  <2>2. CASE ClientMade(s)
    BY <2>2 DEF ClientMade, Typed, TypeGroups, LockHeld, TypeTask, Locked, Starting
  <2>3. CASE ChecksIn(s)
    BY <2>3 DEF ChecksIn, Typed, TypeGroups, LockHeld, TypeTask, Locked, Starting
  <2>4. CASE Registered(s)
    BY <2>4 DEF Registered, token, Typed, TypeGroups, LockHeld, TypeTask, Locked, Starting
  <2>5. CASE PostConfirmed(s)
    BY <2>5 DEF PostConfirmed, token, Typed, TypeGroups, LockHeld, TypeTask, Locked,
       Starting
  <2>6. CASE DropsOld(s)
    BY <2>6 DEF DropsOld, Trouble, Typed, TypeGroups, LockHeld, TypeTask, Locked, Starting
  <2>7. CASE Listens(s)
    BY <2>7 DEF Listens, Typed, TypeGroups, LockHeld, TypeTask, Locked, Starting
  <2>8. CASE GivenUp(s)
    BY <2>8 DEF GivenUp, StartFailed, Typed, TypeGroups, LockHeld, TypeTask, Locked,
       Starting
  <2>9. CASE HealWaitEnds(s)
    BY <2>9 DEF HealWaitEnds, Typed, TypeGroups, LockHeld, TypeTask, Locked, Starting
  <2>10. CASE PurgeLocks(s)
    BY <2>10 DEF PurgeLocks, Typed, TypeGroups, LockHeld, TypeTask, Locked, Starting
  <2>11. CASE PurgeStops(s)
    BY <2>11 DEF PurgeStops, PushStopped, Typed, TypeGroups, LockHeld, TypeTask, Locked,
       Starting
  <2>12. CASE LogsOut(s)
    BY <2>12 DEF LogsOut, Trouble, Typed, TypeGroups, LockHeld, TypeTask, Locked, Starting
  <2>13. CASE Purges(s)
    BY <2>13 DEF Purges, Typed, TypeGroups, LockHeld, TypeTask, Locked, Starting
  <2>14. CASE ConfigFails(s)
    BY <2>14 DEF ConfigFails, Trouble, StartFailed, Typed, TypeGroups, LockHeld, TypeTask,
       Locked, Starting
  <2>15. CASE CheckinFails(s)
    BY <2>15 DEF CheckinFails, Trouble, GivesUp, Typed, TypeGroups, LockHeld, TypeTask,
       Locked, Starting
  <2>16. CASE PostFails(s)
    BY <2>16 DEF PostFails, Trouble, GivesUp, Typed, TypeGroups, LockHeld, TypeTask,
       Locked, Starting
  <2>17. CASE ListenFails(s)
    BY <2>17 DEF ListenFails, Trouble, GivesUp, Typed, TypeGroups, LockHeld, TypeTask,
       Locked, Starting
  <2>18. CASE PurgeRaises(s)
    BY <2>18 DEF PurgeRaises, Trouble, Typed, TypeGroups, LockHeld, TypeTask, Locked,
       Starting
  <2>19. CASE Iterates(s)
    BY <2>19 DEF Iterates, NeedsHard, Typed, TypeGroups, LockHeld, TypeTask, Locked,
       Starting
  <2>20. CASE PollEnds(s)
    BY <2>20 DEF PollEnds, ListenerDown, Typed, TypeGroups, LockHeld, TypeTask, Locked,
       Starting
  <2>21. CASE Stops(s)
    BY <2>21 DEF Stops, PushStopped, Typed, TypeGroups, LockHeld, TypeTask, Locked,
       Starting
  <2>22. CASE Cancelled(s)
    BY <2>22 DEF Cancelled, FreshLocals, Alive, Typed, TypeGroups, LockHeld, TypeTask,
       Locked, Starting
  <2>23. CASE Unwinds(s)
    BY <2>23 DEF Unwinds, PushStopped, Typed, TypeGroups, LockHeld, TypeTask, Locked,
       Starting
  <2>. QED BY <1>1, <2>1, <2>2, <2>3, <2>4, <2>5, <2>6, <2>7, <2>8, <2>9, <2>10, <2>11,
     <2>12, <2>13, <2>14, <2>15, <2>16, <2>17, <2>18, <2>19, <2>20, <2>21, <2>22, <2>23 DEF
     Starts, Heals, Fails, Supervises
<1>2. CASE EnsureRuns
  BY <1>2 DEF EnsureRuns, NoSupervisor, Typed, TypeGroups, LockHeld, TypeTask, Locked,
     Starting
<1>3. CASE Reloads
  BY <1>3 DEF Reloads, Typed, TypeGroups, LockHeld, TypeTask, Locked, Starting, Alive
<1>4. CASE \/ Tick \/ (\E m \in {"auto", "polling"} : SelectsMode(m)) \/ Unloads
           \/ (\E p \in Stoppers : SupervisorEnded(p))
           \/ (\E p \in Stoppers : StopperStops(p)) \/ SelectRestarts \/ UnloadEnds
           \/ (\E c \in Clients : Dies(c)) \/ (\E c \in Clients : PushArrives(c))
           \/ (\E c \in Clients : CallbackRuns(c)) \/ (\E c \in Clients : Persists(c))
           \/ Condemns \/ StaleExpires \/ UNCHANGED vars
  BY <1>4 DEF Tick, SelectsMode, Unloads, SupervisorEnded, StopperStops, SelectRestarts,
     UnloadEnds, Dies, PushArrives, CallbackRuns, Persists, Condemns, StaleExpires,
     BeginsStop, BeginsPushStop, NoSupervisor, PushStopped, Alive, vars, Typed, TypeGroups,
     LockHeld
<1>. QED BY <1>1, <1>2, <1>3, <1>4 DEF Next, Stopper

\* A start in progress has made a client.
LEMMA ClientKept ==
  ASSUME Typed, [Next]_vars
  PROVE  StartHasClient'
<1>1. ASSUME NEW s \in Sups, Starts(s) \/ Heals(s) \/ Fails(s) \/ Supervises(s)
      PROVE  StartHasClient'
  <2>1. CASE StartLocks(s)
    BY <2>1 DEF StartLocks, StartFailed, Typed, TypeGroups, StartHasClient, TypeTask,
       TypeClient, Starting
  <2>2. CASE ClientMade(s)
    BY <2>2 DEF ClientMade, Typed, TypeGroups, StartHasClient, TypeTask, TypeClient,
       Starting
  <2>3. CASE ChecksIn(s)
    BY <2>3 DEF ChecksIn, Typed, TypeGroups, StartHasClient, TypeTask, TypeClient, Starting
  <2>4. CASE Registered(s)
    BY <2>4 DEF Registered, token, Typed, TypeGroups, StartHasClient, TypeTask, TypeClient,
       Starting
  <2>5. CASE PostConfirmed(s)
    BY <2>5 DEF PostConfirmed, token, Typed, TypeGroups, StartHasClient, TypeTask,
       TypeClient, Starting
  <2>6. CASE DropsOld(s)
    BY <2>6 DEF DropsOld, Trouble, Typed, TypeGroups, StartHasClient, TypeTask, TypeClient,
       Starting
  <2>7. CASE Listens(s)
    BY <2>7 DEF Listens, Typed, TypeGroups, StartHasClient, TypeTask, TypeClient, Starting
  <2>8. CASE GivenUp(s)
    BY <2>8 DEF GivenUp, StartFailed, Typed, TypeGroups, StartHasClient, TypeTask,
       TypeClient, Starting
  <2>9. CASE HealWaitEnds(s)
    BY <2>9 DEF HealWaitEnds, Typed, TypeGroups, StartHasClient, TypeTask, TypeClient,
       Starting
  <2>10. CASE PurgeLocks(s)
    BY <2>10 DEF PurgeLocks, Typed, TypeGroups, StartHasClient, TypeTask, TypeClient,
       Starting
  <2>11. CASE PurgeStops(s)
    BY <2>11 DEF PurgeStops, PushStopped, Typed, TypeGroups, StartHasClient, TypeTask,
       TypeClient, Starting
  <2>12. CASE LogsOut(s)
    BY <2>12 DEF LogsOut, Trouble, Typed, TypeGroups, StartHasClient, TypeTask, TypeClient,
       Starting
  <2>13. CASE Purges(s)
    BY <2>13 DEF Purges, Typed, TypeGroups, StartHasClient, TypeTask, TypeClient, Starting
  <2>14. CASE ConfigFails(s)
    BY <2>14 DEF ConfigFails, Trouble, StartFailed, Typed, TypeGroups, StartHasClient,
       TypeTask, TypeClient, Starting
  <2>15. CASE CheckinFails(s)
    BY <2>15 DEF CheckinFails, Trouble, GivesUp, Typed, TypeGroups, StartHasClient,
       TypeTask, TypeClient, Starting
  <2>16. CASE PostFails(s)
    BY <2>16 DEF PostFails, Trouble, GivesUp, Typed, TypeGroups, StartHasClient, TypeTask,
       TypeClient, Starting
  <2>17. CASE ListenFails(s)
    BY <2>17 DEF ListenFails, Trouble, GivesUp, Typed, TypeGroups, StartHasClient,
       TypeTask, TypeClient, Starting
  <2>18. CASE PurgeRaises(s)
    BY <2>18 DEF PurgeRaises, Trouble, Typed, TypeGroups, StartHasClient, TypeTask,
       TypeClient, Starting
  <2>19. CASE Iterates(s)
    BY <2>19 DEF Iterates, NeedsHard, Typed, TypeGroups, StartHasClient, TypeTask,
       TypeClient, Starting
  <2>20. CASE PollEnds(s)
    BY <2>20 DEF PollEnds, ListenerDown, Typed, TypeGroups, StartHasClient, TypeTask,
       TypeClient, Starting
  <2>21. CASE Stops(s)
    BY <2>21 DEF Stops, PushStopped, Typed, TypeGroups, StartHasClient, TypeTask,
       TypeClient, Starting
  <2>22. CASE Cancelled(s)
    BY <2>22 DEF Cancelled, FreshLocals, Alive, Typed, TypeGroups, StartHasClient,
       TypeTask, TypeClient, Starting
  <2>23. CASE Unwinds(s)
    BY <2>23 DEF Unwinds, PushStopped, Typed, TypeGroups, StartHasClient, TypeTask,
       TypeClient, Starting
  <2>. QED BY <1>1, <2>1, <2>2, <2>3, <2>4, <2>5, <2>6, <2>7, <2>8, <2>9, <2>10, <2>11,
     <2>12, <2>13, <2>14, <2>15, <2>16, <2>17, <2>18, <2>19, <2>20, <2>21, <2>22, <2>23 DEF
     Starts, Heals, Fails, Supervises
<1>2. CASE EnsureRuns
  BY <1>2 DEF EnsureRuns, NoSupervisor, Typed, TypeGroups, StartHasClient, TypeTask,
     TypeClient, Starting
<1>3. CASE \/ Tick \/ (\E m \in {"auto", "polling"} : SelectsMode(m)) \/ Unloads
           \/ (\E p \in Stoppers : SupervisorEnded(p))
           \/ (\E p \in Stoppers : StopperStops(p)) \/ SelectRestarts \/ UnloadEnds
           \/ Reloads \/ (\E c \in Clients : Dies(c)) \/ (\E c \in Clients : PushArrives(c))
           \/ (\E c \in Clients : CallbackRuns(c)) \/ (\E c \in Clients : Persists(c))
           \/ Condemns \/ StaleExpires \/ UNCHANGED vars
  BY <1>3 DEF Tick, SelectsMode, Unloads, SupervisorEnded, StopperStops, SelectRestarts,
     UnloadEnds, Reloads, Dies, PushArrives, CallbackRuns, Persists, Condemns,
     StaleExpires, BeginsStop, BeginsPushStop, NoSupervisor, PushStopped, Alive, vars,
     Typed, TypeGroups, StartHasClient
<1>. QED BY <1>1, <1>2, <1>3 DEF Next, Stopper

\* A start that has checked in has a token.
LEMMA TokenKept ==
  ASSUME Typed, [Next]_vars
  PROVE  TokenThere'
<1>1. ASSUME NEW s \in Sups, Starts(s) \/ Heals(s) \/ Fails(s) \/ Supervises(s)
      PROVE  TokenThere'
  <2>1. CASE StartLocks(s)
    BY <2>1 DEF StartLocks, StartFailed, Typed, TypeGroups, TokenThere, TypeTask,
       TypeClient, KnowsToken, Starting, LockHeld, Locked, StartHasClient
  <2>2. CASE ClientMade(s)
    BY <2>2 DEF ClientMade, Typed, TypeGroups, TokenThere, TypeTask, TypeClient,
       KnowsToken, Starting, LockHeld, Locked, StartHasClient
  <2>3. CASE ChecksIn(s)
    BY <2>3, SMTT(60) DEF ChecksIn, Typed, TypeGroups, TokenThere, TypeTask, TypeClient, KnowsToken,
       Starting, LockHeld, Locked, StartHasClient
  <2>4. CASE Registered(s)
    BY <2>4 DEF Registered, token, Typed, TypeGroups, TokenThere, TypeTask, TypeClient,
       KnowsToken, Starting, LockHeld, Locked, StartHasClient
  <2>5. CASE PostConfirmed(s)
    BY <2>5 DEF PostConfirmed, token, Typed, TypeGroups, TokenThere, TypeTask, TypeClient,
       KnowsToken, Starting, LockHeld, Locked, StartHasClient
  <2>6. CASE DropsOld(s)
    BY <2>6 DEF DropsOld, Trouble, Typed, TypeGroups, TokenThere, TypeTask, TypeClient,
       KnowsToken, Starting, LockHeld, Locked, StartHasClient
  <2>7. CASE Listens(s)
    BY <2>7 DEF Listens, Typed, TypeGroups, TokenThere, TypeTask, TypeClient, KnowsToken,
       Starting, LockHeld, Locked, StartHasClient
  <2>8. CASE GivenUp(s)
    BY <2>8 DEF GivenUp, StartFailed, Typed, TypeGroups, TokenThere, TypeTask, TypeClient,
       KnowsToken, Starting, LockHeld, Locked, StartHasClient
  <2>9. CASE HealWaitEnds(s)
    BY <2>9 DEF HealWaitEnds, Typed, TypeGroups, TokenThere, TypeTask, TypeClient,
       KnowsToken, Starting, LockHeld, Locked, StartHasClient
  <2>10. CASE PurgeLocks(s)
    BY <2>10 DEF PurgeLocks, Typed, TypeGroups, TokenThere, TypeTask, TypeClient,
       KnowsToken, Starting, LockHeld, Locked, StartHasClient
  <2>11. CASE PurgeStops(s)
    BY <2>11 DEF PurgeStops, PushStopped, Typed, TypeGroups, TokenThere, TypeTask,
       TypeClient, KnowsToken, Starting, LockHeld, Locked, StartHasClient
  <2>12. CASE LogsOut(s)
    BY <2>12 DEF LogsOut, Trouble, Typed, TypeGroups, TokenThere, TypeTask, TypeClient,
       KnowsToken, Starting, LockHeld, Locked, StartHasClient
  <2>13. CASE Purges(s)
    BY <2>13 DEF Purges, Typed, TypeGroups, TokenThere, TypeTask, TypeClient, KnowsToken,
       Starting, LockHeld, Locked, StartHasClient
  <2>14. CASE ConfigFails(s)
    BY <2>14 DEF ConfigFails, Trouble, StartFailed, Typed, TypeGroups, TokenThere,
       TypeTask, TypeClient, KnowsToken, Starting, LockHeld, Locked, StartHasClient
  <2>15. CASE CheckinFails(s)
    BY <2>15 DEF CheckinFails, Trouble, GivesUp, Typed, TypeGroups, TokenThere, TypeTask,
       TypeClient, KnowsToken, Starting, LockHeld, Locked, StartHasClient
  <2>16. CASE PostFails(s)
    BY <2>16 DEF PostFails, Trouble, GivesUp, Typed, TypeGroups, TokenThere, TypeTask,
       TypeClient, KnowsToken, Starting, LockHeld, Locked, StartHasClient
  <2>17. CASE ListenFails(s)
    BY <2>17 DEF ListenFails, Trouble, GivesUp, Typed, TypeGroups, TokenThere, TypeTask,
       TypeClient, KnowsToken, Starting, LockHeld, Locked, StartHasClient
  <2>18. CASE PurgeRaises(s)
    BY <2>18 DEF PurgeRaises, Trouble, Typed, TypeGroups, TokenThere, TypeTask, TypeClient,
       KnowsToken, Starting, LockHeld, Locked, StartHasClient
  <2>19. CASE Iterates(s)
    BY <2>19 DEF Iterates, NeedsHard, Typed, TypeGroups, TokenThere, TypeTask, TypeClient,
       KnowsToken, Starting, LockHeld, Locked, StartHasClient
  <2>20. CASE PollEnds(s)
    BY <2>20 DEF PollEnds, ListenerDown, Typed, TypeGroups, TokenThere, TypeTask,
       TypeClient, KnowsToken, Starting, LockHeld, Locked, StartHasClient
  <2>21. CASE Stops(s)
    BY <2>21 DEF Stops, PushStopped, Typed, TypeGroups, TokenThere, TypeTask, TypeClient,
       KnowsToken, Starting, LockHeld, Locked, StartHasClient
  <2>22. CASE Cancelled(s)
    BY <2>22, SMTT(60) DEF Cancelled, FreshLocals, Alive, Typed, TypeGroups, TokenThere, TypeTask,
       TypeClient, KnowsToken, Starting, LockHeld, Locked, StartHasClient
  <2>23. CASE Unwinds(s)
    BY <2>23 DEF Unwinds, PushStopped, Typed, TypeGroups, TokenThere, TypeTask, TypeClient,
       KnowsToken, Starting, LockHeld, Locked, StartHasClient
  <2>. QED BY <1>1, <2>1, <2>2, <2>3, <2>4, <2>5, <2>6, <2>7, <2>8, <2>9, <2>10, <2>11,
     <2>12, <2>13, <2>14, <2>15, <2>16, <2>17, <2>18, <2>19, <2>20, <2>21, <2>22, <2>23 DEF
     Starts, Heals, Fails, Supervises
<1>2. CASE EnsureRuns
  BY <1>2 DEF EnsureRuns, NoSupervisor, Typed, TypeGroups, TokenThere, TypeTask,
     TypeClient, KnowsToken, Starting, LockHeld, Locked, StartHasClient
<1>3. CASE \/ Tick \/ (\E m \in {"auto", "polling"} : SelectsMode(m)) \/ Unloads
           \/ (\E p \in Stoppers : SupervisorEnded(p))
           \/ (\E p \in Stoppers : StopperStops(p)) \/ SelectRestarts \/ UnloadEnds
           \/ Reloads \/ (\E c \in Clients : Dies(c)) \/ (\E c \in Clients : PushArrives(c))
           \/ (\E c \in Clients : CallbackRuns(c)) \/ (\E c \in Clients : Persists(c))
           \/ Condemns \/ StaleExpires \/ UNCHANGED vars
  BY <1>3 DEF Tick, SelectsMode, Unloads, SupervisorEnded, StopperStops, SelectRestarts,
     UnloadEnds, Reloads, Dies, PushArrives, CallbackRuns, Persists, Condemns,
     StaleExpires, BeginsStop, BeginsPushStop, NoSupervisor, PushStopped, Alive, vars,
     Typed, TypeGroups, TokenThere
<1>. QED BY <1>1, <1>2, <1>3 DEF Next, Stopper

\* Type correctness holds initially, and every group of it is kept.
LEMMA TypedInvariant == Spec => []Typed
<1>1. ASSUME Init PROVE Typed
  <2>0. /\ running \in BOOLEAN /\ healthy \in BOOLEAN /\ forced \in BOOLEAN /\ stale \in BOOLEAN
        /\ shutting \in BOOLEAN
    BY <1>1, Zenon DEF Init
  <2>1. TypeEntry /\ TypeClient /\ TypeCount
    BY <1>1, <2>0 DEF Init, TypeEntry, TypeClient, TypeCount
  <2>2. TypeTask /\ TypeLoc
    BY <1>1, FreshType DEF Init, TypeTask, Steps, TypeLoc
  <2>3. SoftLeft /\ LockHeld /\ StartHasClient /\ TokenThere
    BY <1>1 DEF Init, SoftLeft, LockHeld, StartHasClient, TokenThere, CountsSoft, Locked, Starting, KnowsToken
  <2>. QED BY <2>1, <2>2, <2>3 DEF Typed, TypeGroups
<1>2. Typed /\ [Next]_vars => Typed'
  BY EntryTyped, ClientTyped, TaskTyped, LocTyped, CountTyped, SoftKept, LockKept, ClientKept, TokenKept
     DEF Typed, TypeGroups
<1>. QED BY <1>1, <1>2, PTL DEF Spec

(***************************************************************************)
(* The state of the supervisor, its stoppers and its clients keeps its     *)
(* type, however ticks, stops and reloads overlap; soft_streak never       *)
(* exceeds FCM_SUPERVISOR_SOFT_HEAL_MAX.                                   *)
(***************************************************************************)
THEOREM TypeCorrect == Spec => []TypeOK
<1>1. Typed => TypeOK
  BY DEF Typed, TypeGroups, TypeEntry, TypeClient, TypeTask, Steps, TypeLoc, LocType, TypeCount, TypeOK
<1>. QED BY <1>1, TypedInvariant, PTL

\* A second supervisor is only made when the first has ended.
LEMMA TaskKept ==
  ASSUME ~TickOverlaps, Typed, Supervised, [Next]_vars
  PROVE  OnlyTheTask'
<1>1. ASSUME NEW s \in Sups, Starts(s) \/ Heals(s) \/ Fails(s) \/ Supervises(s)
      PROVE  OnlyTheTask'
  <2>1. CASE StartLocks(s)
    BY <2>1 DEF StartLocks, StartFailed, Typed, TypeGroups, TypeTask, Supervised,
       OnlyTheTask, StopperKnows, Alive, NoneAlive
  <2>2. CASE ClientMade(s)
    BY <2>2 DEF ClientMade, Typed, TypeGroups, TypeTask, Supervised, OnlyTheTask,
       StopperKnows, Alive, NoneAlive
  <2>3. CASE ChecksIn(s)
    BY <2>3 DEF ChecksIn, Typed, TypeGroups, TypeTask, Supervised, OnlyTheTask,
       StopperKnows, Alive, NoneAlive
  <2>4. CASE Registered(s)
    BY <2>4 DEF Registered, token, Typed, TypeGroups, TypeTask, Supervised, OnlyTheTask,
       StopperKnows, Alive, NoneAlive
  <2>5. CASE PostConfirmed(s)
    BY <2>5 DEF PostConfirmed, token, Typed, TypeGroups, TypeTask, Supervised, OnlyTheTask,
       StopperKnows, Alive, NoneAlive
  <2>6. CASE DropsOld(s)
    BY <2>6 DEF DropsOld, Trouble, Typed, TypeGroups, TypeTask, Supervised, OnlyTheTask,
       StopperKnows, Alive, NoneAlive
  <2>7. CASE Listens(s)
    BY <2>7 DEF Listens, Typed, TypeGroups, TypeTask, Supervised, OnlyTheTask,
       StopperKnows, Alive, NoneAlive
  <2>8. CASE GivenUp(s)
    BY <2>8 DEF GivenUp, StartFailed, Typed, TypeGroups, TypeTask, Supervised, OnlyTheTask,
       StopperKnows, Alive, NoneAlive
  <2>9. CASE HealWaitEnds(s)
    BY <2>9 DEF HealWaitEnds, Typed, TypeGroups, TypeTask, Supervised, OnlyTheTask,
       StopperKnows, Alive, NoneAlive
  <2>10. CASE PurgeLocks(s)
    BY <2>10 DEF PurgeLocks, Typed, TypeGroups, TypeTask, Supervised, OnlyTheTask,
       StopperKnows, Alive, NoneAlive
  <2>11. CASE PurgeStops(s)
    BY <2>11 DEF PurgeStops, PushStopped, Typed, TypeGroups, TypeTask, Supervised,
       OnlyTheTask, StopperKnows, Alive, NoneAlive
  <2>12. CASE LogsOut(s)
    BY <2>12 DEF LogsOut, Trouble, Typed, TypeGroups, TypeTask, Supervised, OnlyTheTask,
       StopperKnows, Alive, NoneAlive
  <2>13. CASE Purges(s)
    BY <2>13 DEF Purges, Typed, TypeGroups, TypeTask, Supervised, OnlyTheTask,
       StopperKnows, Alive, NoneAlive
  <2>14. CASE ConfigFails(s)
    BY <2>14 DEF ConfigFails, Trouble, StartFailed, Typed, TypeGroups, TypeTask,
       Supervised, OnlyTheTask, StopperKnows, Alive, NoneAlive
  <2>15. CASE CheckinFails(s)
    BY <2>15 DEF CheckinFails, Trouble, GivesUp, Typed, TypeGroups, TypeTask, Supervised,
       OnlyTheTask, StopperKnows, Alive, NoneAlive
  <2>16. CASE PostFails(s)
    BY <2>16 DEF PostFails, Trouble, GivesUp, Typed, TypeGroups, TypeTask, Supervised,
       OnlyTheTask, StopperKnows, Alive, NoneAlive
  <2>17. CASE ListenFails(s)
    BY <2>17 DEF ListenFails, Trouble, GivesUp, Typed, TypeGroups, TypeTask, Supervised,
       OnlyTheTask, StopperKnows, Alive, NoneAlive
  <2>18. CASE PurgeRaises(s)
    BY <2>18 DEF PurgeRaises, Trouble, Typed, TypeGroups, TypeTask, Supervised,
       OnlyTheTask, StopperKnows, Alive, NoneAlive
  <2>19. CASE Iterates(s)
    BY <2>19 DEF Iterates, NeedsHard, Typed, TypeGroups, TypeTask, Supervised, OnlyTheTask,
       StopperKnows, Alive, NoneAlive
  <2>20. CASE PollEnds(s)
    BY <2>20 DEF PollEnds, ListenerDown, Typed, TypeGroups, TypeTask, Supervised,
       OnlyTheTask, StopperKnows, Alive, NoneAlive
  <2>21. CASE Stops(s)
    BY <2>21 DEF Stops, PushStopped, Typed, TypeGroups, TypeTask, Supervised, OnlyTheTask,
       StopperKnows, Alive, NoneAlive
  <2>22. CASE Cancelled(s)
    BY <2>22 DEF Cancelled, FreshLocals, Alive, Typed, TypeGroups, TypeTask, Supervised,
       OnlyTheTask, StopperKnows, NoneAlive
  <2>23. CASE Unwinds(s)
    BY <2>23 DEF Unwinds, PushStopped, Typed, TypeGroups, TypeTask, Supervised,
       OnlyTheTask, StopperKnows, Alive, NoneAlive
  <2>. QED BY <1>1, <2>1, <2>2, <2>3, <2>4, <2>5, <2>6, <2>7, <2>8, <2>9, <2>10, <2>11,
     <2>12, <2>13, <2>14, <2>15, <2>16, <2>17, <2>18, <2>19, <2>20, <2>21, <2>22, <2>23 DEF
     Starts, Heals, Fails, Supervises
<1>2. CASE EnsureRuns
  BY <1>2 DEF EnsureRuns, NoSupervisor, Typed, TypeGroups, TypeTask, Supervised,
     OnlyTheTask, StopperKnows, Alive, NoneAlive, StopInProgress
<1>3. ASSUME NEW p \in Stoppers, SupervisorEnded(p)
      PROVE  OnlyTheTask'
  BY <1>3 DEF SupervisorEnded, BeginsPushStop, Typed, TypeGroups, TypeTask, Supervised,
     OnlyTheTask, StopperKnows, Alive, NoneAlive
<1>4. CASE Reloads
  BY <1>4 DEF Reloads, Typed, TypeGroups, TypeTask, Supervised, OnlyTheTask, StopperKnows,
     Alive, NoneAlive
<1>5. CASE \/ Tick \/ (\E m \in {"auto", "polling"} : SelectsMode(m)) \/ Unloads
           \/ (\E p \in Stoppers : StopperStops(p)) \/ SelectRestarts \/ UnloadEnds
           \/ (\E c \in Clients : Dies(c)) \/ (\E c \in Clients : PushArrives(c))
           \/ (\E c \in Clients : CallbackRuns(c)) \/ (\E c \in Clients : Persists(c))
           \/ Condemns \/ StaleExpires \/ UNCHANGED vars
  BY <1>5 DEF Tick, SelectsMode, Unloads, StopperStops, SelectRestarts, UnloadEnds, Dies,
     PushArrives, CallbackRuns, Persists, Condemns, StaleExpires, BeginsStop,
     BeginsPushStop, NoSupervisor, PushStopped, Alive, vars, Supervised, OnlyTheTask
<1>. QED BY <1>1, <1>2, <1>3, <1>4, <1>5 DEF Next, Stopper

\* While a stop is in progress nobody makes a supervisor.
LEMMA StopperKept ==
  ASSUME ~TickOverlaps, Typed, Supervised, [Next]_vars
  PROVE  StopperKnows'
<1>1. ASSUME NEW s \in Sups, Starts(s) \/ Heals(s) \/ Fails(s) \/ Supervises(s)
      PROVE  StopperKnows'
  <2>1. CASE StartLocks(s)
    BY <2>1 DEF StartLocks, StartFailed, Typed, TypeGroups, TypeTask, Supervised,
       OnlyTheTask, StopperKnows, Alive, NoneAlive
  <2>2. CASE ClientMade(s)
    BY <2>2 DEF ClientMade, Typed, TypeGroups, TypeTask, Supervised, OnlyTheTask,
       StopperKnows, Alive, NoneAlive
  <2>3. CASE ChecksIn(s)
    BY <2>3 DEF ChecksIn, Typed, TypeGroups, TypeTask, Supervised, OnlyTheTask,
       StopperKnows, Alive, NoneAlive
  <2>4. CASE Registered(s)
    BY <2>4 DEF Registered, token, Typed, TypeGroups, TypeTask, Supervised, OnlyTheTask,
       StopperKnows, Alive, NoneAlive
  <2>5. CASE PostConfirmed(s)
    BY <2>5 DEF PostConfirmed, token, Typed, TypeGroups, TypeTask, Supervised, OnlyTheTask,
       StopperKnows, Alive, NoneAlive
  <2>6. CASE DropsOld(s)
    BY <2>6 DEF DropsOld, Trouble, Typed, TypeGroups, TypeTask, Supervised, OnlyTheTask,
       StopperKnows, Alive, NoneAlive
  <2>7. CASE Listens(s)
    BY <2>7 DEF Listens, Typed, TypeGroups, TypeTask, Supervised, OnlyTheTask,
       StopperKnows, Alive, NoneAlive
  <2>8. CASE GivenUp(s)
    BY <2>8 DEF GivenUp, StartFailed, Typed, TypeGroups, TypeTask, Supervised, OnlyTheTask,
       StopperKnows, Alive, NoneAlive
  <2>9. CASE HealWaitEnds(s)
    BY <2>9 DEF HealWaitEnds, Typed, TypeGroups, TypeTask, Supervised, OnlyTheTask,
       StopperKnows, Alive, NoneAlive
  <2>10. CASE PurgeLocks(s)
    BY <2>10 DEF PurgeLocks, Typed, TypeGroups, TypeTask, Supervised, OnlyTheTask,
       StopperKnows, Alive, NoneAlive
  <2>11. CASE PurgeStops(s)
    BY <2>11 DEF PurgeStops, PushStopped, Typed, TypeGroups, TypeTask, Supervised,
       OnlyTheTask, StopperKnows, Alive, NoneAlive
  <2>12. CASE LogsOut(s)
    BY <2>12 DEF LogsOut, Trouble, Typed, TypeGroups, TypeTask, Supervised, OnlyTheTask,
       StopperKnows, Alive, NoneAlive
  <2>13. CASE Purges(s)
    BY <2>13 DEF Purges, Typed, TypeGroups, TypeTask, Supervised, OnlyTheTask,
       StopperKnows, Alive, NoneAlive
  <2>14. CASE ConfigFails(s)
    BY <2>14 DEF ConfigFails, Trouble, StartFailed, Typed, TypeGroups, TypeTask,
       Supervised, OnlyTheTask, StopperKnows, Alive, NoneAlive
  <2>15. CASE CheckinFails(s)
    BY <2>15 DEF CheckinFails, Trouble, GivesUp, Typed, TypeGroups, TypeTask, Supervised,
       OnlyTheTask, StopperKnows, Alive, NoneAlive
  <2>16. CASE PostFails(s)
    BY <2>16 DEF PostFails, Trouble, GivesUp, Typed, TypeGroups, TypeTask, Supervised,
       OnlyTheTask, StopperKnows, Alive, NoneAlive
  <2>17. CASE ListenFails(s)
    BY <2>17 DEF ListenFails, Trouble, GivesUp, Typed, TypeGroups, TypeTask, Supervised,
       OnlyTheTask, StopperKnows, Alive, NoneAlive
  <2>18. CASE PurgeRaises(s)
    BY <2>18 DEF PurgeRaises, Trouble, Typed, TypeGroups, TypeTask, Supervised,
       OnlyTheTask, StopperKnows, Alive, NoneAlive
  <2>19. CASE Iterates(s)
    BY <2>19 DEF Iterates, NeedsHard, Typed, TypeGroups, TypeTask, Supervised, OnlyTheTask,
       StopperKnows, Alive, NoneAlive
  <2>20. CASE PollEnds(s)
    BY <2>20 DEF PollEnds, ListenerDown, Typed, TypeGroups, TypeTask, Supervised,
       OnlyTheTask, StopperKnows, Alive, NoneAlive
  <2>21. CASE Stops(s)
    BY <2>21 DEF Stops, PushStopped, Typed, TypeGroups, TypeTask, Supervised, OnlyTheTask,
       StopperKnows, Alive, NoneAlive
  <2>22. CASE Cancelled(s)
    BY <2>22 DEF Cancelled, FreshLocals, Alive, Typed, TypeGroups, TypeTask, Supervised,
       OnlyTheTask, StopperKnows, NoneAlive
  <2>23. CASE Unwinds(s)
    BY <2>23 DEF Unwinds, PushStopped, Typed, TypeGroups, TypeTask, Supervised,
       OnlyTheTask, StopperKnows, Alive, NoneAlive
  <2>. QED BY <1>1, <2>1, <2>2, <2>3, <2>4, <2>5, <2>6, <2>7, <2>8, <2>9, <2>10, <2>11,
     <2>12, <2>13, <2>14, <2>15, <2>16, <2>17, <2>18, <2>19, <2>20, <2>21, <2>22, <2>23 DEF
     Starts, Heals, Fails, Supervises
<1>2. CASE EnsureRuns
  BY <1>2 DEF EnsureRuns, NoSupervisor, Typed, TypeGroups, TypeTask, Supervised,
     OnlyTheTask, StopperKnows, Alive, NoneAlive, StopInProgress
<1>3. ASSUME NEW m \in {"auto", "polling"}, SelectsMode(m)
      PROVE  StopperKnows'
  BY <1>3 DEF SelectsMode, BeginsStop, BeginsPushStop, NoSupervisor, Typed, TypeGroups,
     TypeTask, Supervised, OnlyTheTask, StopperKnows, Alive, NoneAlive
<1>4. CASE Unloads
  BY <1>4 DEF Unloads, BeginsStop, BeginsPushStop, NoSupervisor, Typed, TypeGroups,
     TypeTask, Supervised, OnlyTheTask, StopperKnows, Alive, NoneAlive
<1>5. ASSUME NEW p \in Stoppers, SupervisorEnded(p)
      PROVE  StopperKnows'
  BY <1>5 DEF SupervisorEnded, BeginsPushStop, Typed, TypeGroups, TypeTask, Supervised,
     OnlyTheTask, StopperKnows, Alive, NoneAlive
<1>6. ASSUME NEW p \in Stoppers, StopperStops(p)
      PROVE  StopperKnows'
  BY <1>6 DEF StopperStops, PushStopped, Typed, TypeGroups, TypeTask, Supervised,
     OnlyTheTask, StopperKnows, Alive, NoneAlive
<1>7. CASE SelectRestarts
  BY <1>7 DEF SelectRestarts, Typed, TypeGroups, TypeTask, Supervised, OnlyTheTask,
     StopperKnows, Alive, NoneAlive
<1>8. CASE UnloadEnds
  BY <1>8 DEF UnloadEnds, Typed, TypeGroups, TypeTask, Supervised, OnlyTheTask,
     StopperKnows, Alive, NoneAlive
<1>9. CASE Reloads
  BY <1>9 DEF Reloads, Typed, TypeGroups, TypeTask, Supervised, OnlyTheTask, StopperKnows,
     Alive, NoneAlive
<1>10. CASE \/ Tick \/ (\E c \in Clients : Dies(c)) \/ (\E c \in Clients : PushArrives(c))
            \/ (\E c \in Clients : CallbackRuns(c)) \/ (\E c \in Clients : Persists(c))
            \/ Condemns \/ StaleExpires \/ UNCHANGED vars
  BY <1>10 DEF Tick, Dies, PushArrives, CallbackRuns, Persists, Condemns, StaleExpires,
     Alive, vars, Supervised, StopperKnows, NoneAlive
<1>. QED BY <1>1, <1>2, <1>3, <1>4, <1>5, <1>6, <1>7, <1>8, <1>9, <1>10 DEF Next, Stopper

\* A stopper waits until the supervisor it cancelled has ended.
LEMMA CancelKept ==
  ASSUME ~TickOverlaps, Typed, Supervised, [Next]_vars
  PROVE  CancelledIsAwaited'
<1>1. ASSUME NEW s \in Sups, Starts(s) \/ Heals(s) \/ Fails(s) \/ Supervises(s)
      PROVE  CancelledIsAwaited'
  <2>1. CASE StartLocks(s)
    BY <2>1 DEF StartLocks, StartFailed, Typed, TypeGroups, TypeTask, Supervised,
       OnlyTheTask, CancelledIsAwaited, Alive
  <2>2. CASE ClientMade(s)
    BY <2>2 DEF ClientMade, Typed, TypeGroups, TypeTask, Supervised, OnlyTheTask,
       CancelledIsAwaited, Alive
  <2>3. CASE ChecksIn(s)
    BY <2>3 DEF ChecksIn, Typed, TypeGroups, TypeTask, Supervised, OnlyTheTask,
       CancelledIsAwaited, Alive
  <2>4. CASE Registered(s)
    BY <2>4 DEF Registered, token, Typed, TypeGroups, TypeTask, Supervised, OnlyTheTask,
       CancelledIsAwaited, Alive
  <2>5. CASE PostConfirmed(s)
    BY <2>5 DEF PostConfirmed, token, Typed, TypeGroups, TypeTask, Supervised, OnlyTheTask,
       CancelledIsAwaited, Alive
  <2>6. CASE DropsOld(s)
    BY <2>6 DEF DropsOld, Trouble, Typed, TypeGroups, TypeTask, Supervised, OnlyTheTask,
       CancelledIsAwaited, Alive
  <2>7. CASE Listens(s)
    BY <2>7 DEF Listens, Typed, TypeGroups, TypeTask, Supervised, OnlyTheTask,
       CancelledIsAwaited, Alive
  <2>8. CASE GivenUp(s)
    BY <2>8 DEF GivenUp, StartFailed, Typed, TypeGroups, TypeTask, Supervised, OnlyTheTask,
       CancelledIsAwaited, Alive
  <2>9. CASE HealWaitEnds(s)
    BY <2>9 DEF HealWaitEnds, Typed, TypeGroups, TypeTask, Supervised, OnlyTheTask,
       CancelledIsAwaited, Alive
  <2>10. CASE PurgeLocks(s)
    BY <2>10 DEF PurgeLocks, Typed, TypeGroups, TypeTask, Supervised, OnlyTheTask,
       CancelledIsAwaited, Alive
  <2>11. CASE PurgeStops(s)
    BY <2>11 DEF PurgeStops, PushStopped, Typed, TypeGroups, TypeTask, Supervised,
       OnlyTheTask, CancelledIsAwaited, Alive
  <2>12. CASE LogsOut(s)
    BY <2>12 DEF LogsOut, Trouble, Typed, TypeGroups, TypeTask, Supervised, OnlyTheTask,
       CancelledIsAwaited, Alive
  <2>13. CASE Purges(s)
    BY <2>13 DEF Purges, Typed, TypeGroups, TypeTask, Supervised, OnlyTheTask,
       CancelledIsAwaited, Alive
  <2>14. CASE ConfigFails(s)
    BY <2>14 DEF ConfigFails, Trouble, StartFailed, Typed, TypeGroups, TypeTask,
       Supervised, OnlyTheTask, CancelledIsAwaited, Alive
  <2>15. CASE CheckinFails(s)
    BY <2>15 DEF CheckinFails, Trouble, GivesUp, Typed, TypeGroups, TypeTask, Supervised,
       OnlyTheTask, CancelledIsAwaited, Alive
  <2>16. CASE PostFails(s)
    BY <2>16 DEF PostFails, Trouble, GivesUp, Typed, TypeGroups, TypeTask, Supervised,
       OnlyTheTask, CancelledIsAwaited, Alive
  <2>17. CASE ListenFails(s)
    BY <2>17 DEF ListenFails, Trouble, GivesUp, Typed, TypeGroups, TypeTask, Supervised,
       OnlyTheTask, CancelledIsAwaited, Alive
  <2>18. CASE PurgeRaises(s)
    BY <2>18 DEF PurgeRaises, Trouble, Typed, TypeGroups, TypeTask, Supervised,
       OnlyTheTask, CancelledIsAwaited, Alive
  <2>19. CASE Iterates(s)
    BY <2>19 DEF Iterates, NeedsHard, Typed, TypeGroups, TypeTask, Supervised, OnlyTheTask,
       CancelledIsAwaited, Alive
  <2>20. CASE PollEnds(s)
    BY <2>20 DEF PollEnds, ListenerDown, Typed, TypeGroups, TypeTask, Supervised,
       OnlyTheTask, CancelledIsAwaited, Alive
  <2>21. CASE Stops(s)
    BY <2>21 DEF Stops, PushStopped, Typed, TypeGroups, TypeTask, Supervised, OnlyTheTask,
       CancelledIsAwaited, Alive
  <2>22. CASE Cancelled(s)
    BY <2>22 DEF Cancelled, FreshLocals, Alive, Typed, TypeGroups, TypeTask, Supervised,
       OnlyTheTask, CancelledIsAwaited
  <2>23. CASE Unwinds(s)
    BY <2>23 DEF Unwinds, PushStopped, Typed, TypeGroups, TypeTask, Supervised,
       OnlyTheTask, CancelledIsAwaited, Alive
  <2>. QED BY <1>1, <2>1, <2>2, <2>3, <2>4, <2>5, <2>6, <2>7, <2>8, <2>9, <2>10, <2>11,
     <2>12, <2>13, <2>14, <2>15, <2>16, <2>17, <2>18, <2>19, <2>20, <2>21, <2>22, <2>23 DEF
     Starts, Heals, Fails, Supervises
<1>2. CASE EnsureRuns
  BY <1>2, ZenonT(60) DEF EnsureRuns, NoSupervisor, Typed, TypeGroups, TypeTask, Supervised,
     OnlyTheTask, CancelledIsAwaited, Alive
<1>3. ASSUME NEW m \in {"auto", "polling"}, SelectsMode(m)
      PROVE  CancelledIsAwaited'
  <2>1. CASE NoSupervisor
    BY <1>3, <2>1, ZenonT(60) DEF SelectsMode, BeginsStop, BeginsPushStop, Typed, TypeGroups, TypeTask,
       Supervised, CancelledIsAwaited, Alive
  <2>2. CASE ~NoSupervisor
    <3>1. supTask \in Sups /\ Alive(supTask)
      BY <2>2 DEF NoSupervisor, Typed, TypeGroups, TypeTask, Supervised, OnlyTheTask, Alive
    <3>2. /\ spc[Select] = "idle" /\ UNCHANGED pc
          /\ cancelled' = cancelled \cup {supTask}
          /\ spc' = [spc EXCEPT ![Select] = "await"] /\ waits' = [waits EXCEPT ![Select] = supTask]
      BY <1>3, <2>2 DEF SelectsMode, BeginsStop
    <3>3. spc'[Select] = "await" /\ waits'[Select] = supTask
      BY <3>2 DEF Typed, TypeGroups, TypeTask
    <3>4. ASSUME NEW s \in cancelled, NEW q \in Stoppers, spc[q] = "await", waits[q] = s
          PROVE  spc'[q] = "await" /\ waits'[q] = s
      BY <3>2, <3>4 DEF Typed, TypeGroups, TypeTask
    <3>. QED BY <3>1, <3>2, <3>3, <3>4 DEF Supervised, CancelledIsAwaited, Alive
  <2>. QED BY <2>1, <2>2
<1>4. CASE Unloads
  <2>1. CASE NoSupervisor
    BY <1>4, <2>1, ZenonT(60) DEF Unloads, BeginsStop, BeginsPushStop, Typed, TypeGroups, TypeTask,
       Supervised, CancelledIsAwaited, Alive
  <2>2. CASE ~NoSupervisor
    <3>1. supTask \in Sups /\ Alive(supTask)
      BY <2>2 DEF NoSupervisor, Typed, TypeGroups, TypeTask, Supervised, OnlyTheTask, Alive
    <3>2. /\ spc[Unload] = "idle" /\ UNCHANGED pc
          /\ cancelled' = cancelled \cup {supTask}
          /\ spc' = [spc EXCEPT ![Unload] = "await"] /\ waits' = [waits EXCEPT ![Unload] = supTask]
      BY <1>4, <2>2 DEF Unloads, BeginsStop
    <3>3. spc'[Unload] = "await" /\ waits'[Unload] = supTask
      BY <3>2 DEF Typed, TypeGroups, TypeTask
    <3>4. ASSUME NEW s \in cancelled, NEW q \in Stoppers, spc[q] = "await", waits[q] = s
          PROVE  spc'[q] = "await" /\ waits'[q] = s
      BY <3>2, <3>4 DEF Typed, TypeGroups, TypeTask
    <3>. QED BY <3>1, <3>2, <3>3, <3>4 DEF Supervised, CancelledIsAwaited, Alive
  <2>. QED BY <2>1, <2>2
<1>5. ASSUME NEW p \in Stoppers, SupervisorEnded(p)
      PROVE  CancelledIsAwaited'
  BY <1>5 DEF SupervisorEnded, BeginsPushStop, Typed, TypeGroups, TypeTask, Supervised,
     OnlyTheTask, CancelledIsAwaited, Alive
<1>6. ASSUME NEW p \in Stoppers, StopperStops(p)
      PROVE  CancelledIsAwaited'
  BY <1>6 DEF StopperStops, PushStopped, Typed, TypeGroups, TypeTask, Supervised,
     OnlyTheTask, CancelledIsAwaited, Alive
<1>7. CASE SelectRestarts
  BY <1>7 DEF SelectRestarts, Typed, TypeGroups, TypeTask, Supervised, OnlyTheTask,
     CancelledIsAwaited, Alive
<1>8. CASE UnloadEnds
  BY <1>8 DEF UnloadEnds, Typed, TypeGroups, TypeTask, Supervised, OnlyTheTask,
     CancelledIsAwaited, Alive
<1>9. CASE Reloads
  BY <1>9 DEF Reloads, Typed, TypeGroups, TypeTask, Supervised, OnlyTheTask,
     CancelledIsAwaited, Alive
<1>10. CASE \/ Tick \/ (\E c \in Clients : Dies(c)) \/ (\E c \in Clients : PushArrives(c))
            \/ (\E c \in Clients : CallbackRuns(c)) \/ (\E c \in Clients : Persists(c))
            \/ Condemns \/ StaleExpires \/ UNCHANGED vars
  BY <1>10 DEF Tick, Dies, PushArrives, CallbackRuns, Persists, Condemns, StaleExpires,
     Alive, vars, Supervised, CancelledIsAwaited
<1>. QED BY <1>1, <1>2, <1>3, <1>4, <1>5, <1>6, <1>7, <1>8, <1>9, <1>10 DEF Next, Stopper

\* Only the task in fcm_supervisor_task ever lives.
LEMMA SupervisedInvariant ==
  ASSUME ~TickOverlaps
  PROVE  Spec => []Supervised
<1>1. Init => Supervised
  BY DEF Init, Supervised, OnlyTheTask, StopperKnows, CancelledIsAwaited, Alive, NoneAlive
<1>2. Typed /\ Supervised /\ [Next]_vars => Supervised'
  BY TaskKept, StopperKept, CancelKept DEF Supervised
<1>. QED BY <1>1, <1>2, TypedInvariant, PTL DEF Spec

\* A supervisor that takes a step is alone, and nobody is stopping the client.
Alone(s) ==
    /\ \A r \in Sups : r # s => pc[r] \in {"none", "done"}
    /\ \A p \in Stoppers : spc[p] # "push"
    /\ spc[Unload] \notin {"stopped", "down"}

\* Whoever takes a step lives, so it is the task.
LEMMA ActsAlone ==
  ASSUME Typed, Supervised, NEW s \in Sups, Starts(s) \/ Heals(s) \/ Fails(s) \/ Supervises(s)
  PROVE  Alone(s)
<1>1. Alive(s)
  <2>1. CASE Starts(s)
    BY <2>1 DEF Starts, Alive, StartLocks, ClientMade, ChecksIn, Registered, PostConfirmed, DropsOld,
       Listens, GivenUp
  <2>2. CASE Heals(s)
    BY <2>2 DEF Heals, Alive, HealWaitEnds, PurgeLocks, PurgeStops, LogsOut, Purges
  <2>3. CASE Fails(s)
    BY <2>3 DEF Fails, Alive, ConfigFails, CheckinFails, PostFails, ListenFails, PurgeRaises
  <2>4. CASE Supervises(s)
    BY <2>4 DEF Supervises, Alive, Iterates, PollEnds, Stops, Cancelled, Unwinds
  <2>. QED BY <2>1, <2>2, <2>3, <2>4
<1>. QED BY <1>1 DEF Alone, Alive, NoneAlive, Supervised, OnlyTheTask, StopperKnows

\* A new supervisor is only made when none lives and no stop is in progress.
LEMMA EnsureStep ==
  ASSUME ~TickOverlaps, Typed, Supervised, EnsureRuns
  PROVE  /\ UNCHANGED <<clientv, held, running, stopping>>
         /\ \/ UNCHANGED pc
            \/ /\ NoneAlive /\ ~StopInProgress /\ spc[Unload] = "idle"
               /\ \E n \in Sups : pc' = [pc EXCEPT ![n] = "sleep"]
<1>1. CASE shutting \/ ~NoSupervisor
  BY <1>1 DEF EnsureRuns
<1>2. CASE ~(shutting \/ ~NoSupervisor)
  <2>1. supNo + 1 \in Sups /\ pc' = [pc EXCEPT ![supNo + 1] = "sleep"]
    BY <1>2 DEF EnsureRuns, Typed, TypeGroups, TypeTask
  <2>2. NoneAlive
    BY <1>2 DEF NoSupervisor, NoneAlive, Alive, Supervised, OnlyTheTask
  <2>3. ~StopInProgress /\ spc[Unload] = "idle"
    BY <1>2 DEF EnsureRuns, Supervised, StopperKnows
  <2>4. UNCHANGED <<clientv, held, running, stopping>>
    BY DEF EnsureRuns
  <2>. QED BY <2>1, <2>2, <2>3, <2>4
<1>. QED BY <1>1, <1>2

\* Outside its start a supervisor sees a running client or none.
LEMMA OutsideStart ==
  ASSUME Stopped, NEW s \in Sups, Alone(s), Alive(s), pc[s] \notin Starting
  PROVE  running \/ client = 0
BY DEF Stopped, RunningClient, Alone, Starting, NoneAlive

\* What a supervisor is stopping stays the client.
LEMMA HeldKept ==
  ASSUME ~TickOverlaps, Typed, Supervised, Stopped, [Next]_vars
  PROVE  HeldBySupervisor'
<1>1. ASSUME NEW s \in Sups, Starts(s) \/ Heals(s) \/ Fails(s) \/ Supervises(s)
      PROVE  HeldBySupervisor'
  <2>a. Alone(s)
    BY <1>1, ActsAlone
  <2>1. CASE StartLocks(s)
    BY <2>1, <2>a, SMTT(60) DEF StartLocks, StartFailed, Typed, TypeGroups, TypeTask, TypeClient,
       Alone, Stopped, HeldBySupervisor
  <2>2. CASE ClientMade(s)
    BY <2>2, <2>a DEF ClientMade, Typed, TypeGroups, TypeTask, TypeClient, Alone, Stopped,
       HeldBySupervisor
  <2>3. CASE ChecksIn(s)
    BY <2>3, <2>a DEF ChecksIn, Typed, TypeGroups, TypeTask, TypeClient, Alone, Stopped,
       HeldBySupervisor
  <2>4. CASE Registered(s)
    BY <2>4, <2>a, SMTT(60) DEF Registered, token, Typed, TypeGroups, TypeTask, TypeClient, Alone,
       Stopped, HeldBySupervisor
  <2>5. CASE PostConfirmed(s)
    BY <2>5, <2>a DEF PostConfirmed, token, Typed, TypeGroups, TypeTask, TypeClient, Alone,
       Stopped, HeldBySupervisor
  <2>6. CASE DropsOld(s)
    BY <2>6, <2>a DEF DropsOld, Trouble, Typed, TypeGroups, TypeTask, TypeClient, Alone,
       Stopped, HeldBySupervisor
  <2>7. CASE Listens(s)
    BY <2>7, <2>a DEF Listens, Typed, TypeGroups, TypeTask, TypeClient, Alone, Stopped,
       HeldBySupervisor
  <2>8. CASE GivenUp(s)
    BY <2>8, <2>a DEF GivenUp, StartFailed, Typed, TypeGroups, TypeTask, TypeClient, Alone,
       Stopped, HeldBySupervisor
  <2>9. CASE HealWaitEnds(s)
    BY <2>9, <2>a DEF HealWaitEnds, Typed, TypeGroups, TypeTask, TypeClient, Alone,
       Stopped, HeldBySupervisor
  <2>10. CASE PurgeLocks(s)
    BY <2>10, <2>a DEF PurgeLocks, Typed, TypeGroups, TypeTask, TypeClient, Alone, Stopped,
       HeldBySupervisor
  <2>11. CASE PurgeStops(s)
    BY <2>11, <2>a DEF PurgeStops, PushStopped, Typed, TypeGroups, TypeTask, TypeClient,
       Alone, Stopped, HeldBySupervisor
  <2>12. CASE LogsOut(s)
    BY <2>12, <2>a DEF LogsOut, Trouble, Typed, TypeGroups, TypeTask, TypeClient, Alone,
       Stopped, HeldBySupervisor
  <2>13. CASE Purges(s)
    BY <2>13, <2>a DEF Purges, Typed, TypeGroups, TypeTask, TypeClient, Alone, Stopped,
       HeldBySupervisor
  <2>14. CASE ConfigFails(s)
    BY <2>14, <2>a DEF ConfigFails, Trouble, StartFailed, Typed, TypeGroups, TypeTask,
       TypeClient, Alone, Stopped, HeldBySupervisor
  <2>15. CASE CheckinFails(s)
    BY <2>15, <2>a DEF CheckinFails, Trouble, GivesUp, Typed, TypeGroups, TypeTask,
       TypeClient, Alone, Stopped, HeldBySupervisor
  <2>16. CASE PostFails(s)
    BY <2>16, <2>a DEF PostFails, Trouble, GivesUp, Typed, TypeGroups, TypeTask,
       TypeClient, Alone, Stopped, HeldBySupervisor
  <2>17. CASE ListenFails(s)
    BY <2>17, <2>a DEF ListenFails, Trouble, GivesUp, Typed, TypeGroups, TypeTask,
       TypeClient, Alone, Stopped, HeldBySupervisor
  <2>18. CASE PurgeRaises(s)
    BY <2>18, <2>a DEF PurgeRaises, Trouble, Typed, TypeGroups, TypeTask, TypeClient,
       Alone, Stopped, HeldBySupervisor
  <2>19. CASE Iterates(s)
    BY <2>19, <2>a DEF Iterates, NeedsHard, Typed, TypeGroups, TypeTask, TypeClient, Alone,
       Stopped, HeldBySupervisor
  <2>20. CASE PollEnds(s)
    BY <2>20, <2>a DEF PollEnds, ListenerDown, Typed, TypeGroups, TypeTask, TypeClient,
       Alone, Stopped, HeldBySupervisor
  <2>21. CASE Stops(s)
    BY <2>21, <2>a DEF Stops, PushStopped, Typed, TypeGroups, TypeTask, TypeClient, Alone,
       Stopped, HeldBySupervisor
  <2>22. CASE Cancelled(s)
    BY <2>22, <2>a, ZenonT(60) DEF Cancelled, FreshLocals, Alive, Typed, TypeGroups, TypeTask,
       TypeClient, Alone, Stopped, HeldBySupervisor
  <2>23. CASE Unwinds(s)
    BY <2>23, <2>a DEF Unwinds, PushStopped, Typed, TypeGroups, TypeTask, TypeClient,
       Alone, Stopped, HeldBySupervisor
  <2>. QED BY <1>1, <2>1, <2>2, <2>3, <2>4, <2>5, <2>6, <2>7, <2>8, <2>9, <2>10, <2>11,
     <2>12, <2>13, <2>14, <2>15, <2>16, <2>17, <2>18, <2>19, <2>20, <2>21, <2>22, <2>23 DEF
     Starts, Heals, Fails, Supervises
<1>2. CASE EnsureRuns
  BY <1>2, EnsureStep DEF Typed, TypeGroups, TypeTask, NoneAlive, Alive, Stopped, HeldBySupervisor
<1>3. ASSUME NEW m \in {"auto", "polling"}, SelectsMode(m)
      PROVE  HeldBySupervisor'
  <2>1. \A s \in Sups : held'[s] = held[s]
    <3>1. held' = held \/ held' = [held EXCEPT ![Select] = client]
      BY <1>3 DEF SelectsMode, BeginsStop, BeginsPushStop
    <3>2. Select \notin Sups
      OBVIOUS
    <3>. QED BY <3>1, <3>2 DEF Typed, TypeGroups, TypeClient
  <2>2. UNCHANGED <<pc, client>>
    BY <1>3 DEF SelectsMode
  <2>. QED BY <2>1, <2>2 DEF Stopped, HeldBySupervisor
<1>4. CASE Unloads
  <2>1. \A s \in Sups : held'[s] = held[s]
    <3>1. held' = held \/ held' = [held EXCEPT ![Unload] = client]
      BY <1>4 DEF Unloads, BeginsStop, BeginsPushStop
    <3>2. Unload \notin Sups
      OBVIOUS
    <3>. QED BY <3>1, <3>2 DEF Typed, TypeGroups, TypeClient
  <2>2. UNCHANGED <<pc, client>>
    BY <1>4 DEF Unloads
  <2>. QED BY <2>1, <2>2 DEF Stopped, HeldBySupervisor
<1>5. ASSUME NEW p \in Stoppers, SupervisorEnded(p)
      PROVE  HeldBySupervisor'
  BY <1>5, SMTT(60) DEF SupervisorEnded, BeginsPushStop, Typed, TypeGroups, TypeTask, TypeClient,
     Stopped, Supervised, OnlyTheTask, StopperKnows, Alive, NoneAlive, HeldBySupervisor
<1>6. ASSUME NEW p \in Stoppers, StopperStops(p)
      PROVE  HeldBySupervisor'
  BY <1>6 DEF StopperStops, PushStopped, Typed, TypeGroups, TypeTask, TypeClient, Stopped,
     Supervised, OnlyTheTask, StopperKnows, Alive, NoneAlive, HeldBySupervisor
<1>7. CASE Reloads
  BY <1>7 DEF Reloads, Typed, TypeGroups, TypeTask, TypeClient, Stopped, Supervised,
     OnlyTheTask, StopperKnows, Alive, NoneAlive, HeldBySupervisor
<1>8. CASE \/ Tick \/ SelectRestarts \/ UnloadEnds \/ (\E c \in Clients : Dies(c))
           \/ (\E c \in Clients : PushArrives(c)) \/ (\E c \in Clients : CallbackRuns(c))
           \/ (\E c \in Clients : Persists(c)) \/ Condemns \/ StaleExpires \/ UNCHANGED vars
  BY <1>8 DEF Tick, SelectRestarts, UnloadEnds, Dies, PushArrives, CallbackRuns, Persists,
     Condemns, StaleExpires, Alive, vars, Stopped, HeldBySupervisor
<1>. QED BY <1>1, <1>2, <1>3, <1>4, <1>5, <1>6, <1>7, <1>8 DEF Next, Stopper

\* So does what a stopper is stopping; nobody makes a client meanwhile.
LEMMA HeldByStopperKept ==
  ASSUME ~TickOverlaps, Typed, Supervised, Stopped, [Next]_vars
  PROVE  HeldByStopper'
<1>1. ASSUME NEW s \in Sups, Starts(s) \/ Heals(s) \/ Fails(s) \/ Supervises(s)
      PROVE  HeldByStopper'
  <2>a. Alone(s)
    BY <1>1, ActsAlone
  <2>1. CASE ClientMade(s)
    BY <2>1, <2>a DEF ClientMade, Typed, TypeGroups, TypeTask, TypeClient, Alone, Stopped,
       HeldByStopper
  <2>2. CASE GivenUp(s)
    BY <2>2, <2>a DEF GivenUp, StartFailed, Typed, TypeGroups, TypeTask, TypeClient, Alone,
       Stopped, HeldByStopper
  <2>3. CASE PurgeLocks(s)
    BY <2>3, <2>a DEF PurgeLocks, Typed, TypeGroups, TypeTask, TypeClient, Alone, Stopped,
       HeldByStopper
  <2>4. CASE PurgeStops(s)
    BY <2>4, <2>a DEF PurgeStops, PushStopped, Typed, TypeGroups, TypeTask, TypeClient,
       Alone, Stopped, HeldByStopper
  <2>5. CASE CheckinFails(s)
    BY <2>5, <2>a, SMTT(60) DEF CheckinFails, Trouble, GivesUp, Typed, TypeGroups, TypeTask,
       TypeClient, Alone, Stopped, HeldByStopper
  <2>6. CASE PostFails(s)
    BY <2>6, <2>a, SMTT(60) DEF PostFails, Trouble, GivesUp, Typed, TypeGroups, TypeTask, TypeClient,
       Alone, Stopped, HeldByStopper
  <2>7. CASE ListenFails(s)
    BY <2>7, <2>a, SMTT(60) DEF ListenFails, Trouble, GivesUp, Typed, TypeGroups, TypeTask,
       TypeClient, Alone, Stopped, HeldByStopper
  <2>8. CASE PollEnds(s)
    BY <2>8, <2>a, SMTT(60) DEF PollEnds, ListenerDown, Typed, TypeGroups, TypeTask, TypeClient,
       Alone, Stopped, HeldByStopper
  <2>9. CASE Stops(s)
    BY <2>9, <2>a DEF Stops, PushStopped, Typed, TypeGroups, TypeTask, TypeClient, Alone,
       Stopped, HeldByStopper
  <2>10. CASE Cancelled(s)
    BY <2>10, <2>a DEF Cancelled, FreshLocals, Alive, Typed, TypeGroups, TypeTask,
       TypeClient, Alone, Stopped, HeldByStopper
  <2>11. CASE Unwinds(s)
    BY <2>11, <2>a DEF Unwinds, PushStopped, Typed, TypeGroups, TypeTask, TypeClient,
       Alone, Stopped, HeldByStopper
  <2>12. CASE \/ StartLocks(s) \/ ChecksIn(s) \/ Registered(s) \/ PostConfirmed(s)
              \/ DropsOld(s) \/ Listens(s) \/ HealWaitEnds(s) \/ LogsOut(s) \/ Purges(s)
              \/ ConfigFails(s) \/ PurgeRaises(s) \/ Iterates(s)
    BY <2>12 DEF StartLocks, ChecksIn, Registered, PostConfirmed, DropsOld, Listens,
       HealWaitEnds, LogsOut, Purges, ConfigFails, PurgeRaises, Iterates, StartFailed,
       token, Trouble, NeedsHard, Stopped, HeldByStopper
  <2>. QED BY <1>1, <2>1, <2>2, <2>3, <2>4, <2>5, <2>6, <2>7, <2>8, <2>9, <2>10, <2>11,
     <2>12 DEF Starts, Heals, Fails, Supervises
<1>2. ASSUME NEW m \in {"auto", "polling"}, SelectsMode(m)
      PROVE  HeldByStopper'
  BY <1>2, SMTT(60) DEF SelectsMode, BeginsStop, BeginsPushStop, NoSupervisor, Typed, TypeGroups,
     TypeTask, TypeClient, Stopped, Supervised, OnlyTheTask, StopperKnows, Alive,
     NoneAlive, HeldByStopper
<1>3. CASE Unloads
  BY <1>3 DEF Unloads, BeginsStop, BeginsPushStop, NoSupervisor, Typed, TypeGroups,
     TypeTask, TypeClient, Stopped, Supervised, OnlyTheTask, StopperKnows, Alive,
     NoneAlive, HeldByStopper
<1>4. ASSUME NEW p \in Stoppers, SupervisorEnded(p)
      PROVE  HeldByStopper'
  BY <1>4 DEF SupervisorEnded, BeginsPushStop, Typed, TypeGroups, TypeTask, TypeClient,
     Stopped, Supervised, OnlyTheTask, StopperKnows, Alive, NoneAlive, HeldByStopper
<1>5. ASSUME NEW p \in Stoppers, StopperStops(p)
      PROVE  HeldByStopper'
  BY <1>5 DEF StopperStops, PushStopped, Typed, TypeGroups, TypeTask, TypeClient, Stopped,
     Supervised, OnlyTheTask, StopperKnows, Alive, NoneAlive, HeldByStopper
<1>6. CASE SelectRestarts
  BY <1>6 DEF SelectRestarts, Typed, TypeGroups, TypeTask, TypeClient, Stopped, Supervised,
     OnlyTheTask, StopperKnows, Alive, NoneAlive, HeldByStopper
<1>7. CASE UnloadEnds
  BY <1>7 DEF UnloadEnds, Typed, TypeGroups, TypeTask, TypeClient, Stopped, Supervised,
     OnlyTheTask, StopperKnows, Alive, NoneAlive, HeldByStopper
<1>8. CASE Reloads
  BY <1>8 DEF Reloads, Typed, TypeGroups, TypeTask, TypeClient, Stopped, Supervised,
     OnlyTheTask, StopperKnows, Alive, NoneAlive, HeldByStopper
<1>9. CASE \/ Tick \/ EnsureRuns \/ (\E c \in Clients : Dies(c))
           \/ (\E c \in Clients : PushArrives(c)) \/ (\E c \in Clients : CallbackRuns(c))
           \/ (\E c \in Clients : Persists(c)) \/ Condemns \/ StaleExpires \/ UNCHANGED vars
  BY <1>9 DEF Tick, EnsureRuns, Dies, PushArrives, CallbackRuns, Persists, Condemns,
     StaleExpires, NoSupervisor, Alive, vars, Stopped, HeldByStopper
<1>. QED BY <1>1, <1>2, <1>3, <1>4, <1>5, <1>6, <1>7, <1>8, <1>9 DEF Next, Stopper

\* Every way to give a client up stops it first.
LEMMA ListenerKept ==
  ASSUME ~TickOverlaps, Typed, Supervised, Stopped, [Next]_vars
  PROVE  OnlyTheClientListens'
<1>1. ASSUME NEW s \in Sups, Starts(s) \/ Heals(s) \/ Fails(s) \/ Supervises(s)
      PROVE  OnlyTheClientListens'
  <2>a. Alone(s)
    BY <1>1, ActsAlone
  <2>1. CASE StartLocks(s)
    BY <2>1, <2>a, SMTT(60) DEF StartLocks, StartFailed, Typed, TypeGroups, TypeTask, TypeClient,
       Alone, Stopped, OnlyTheClientListens, NoClient, HeldBySupervisor, HeldByStopper,
       Starting
  <2>2. CASE ClientMade(s)
    BY <2>2, <2>a DEF ClientMade, Typed, TypeGroups, TypeTask, TypeClient, Alone, Stopped,
       OnlyTheClientListens, NoClient, HeldBySupervisor, HeldByStopper, Starting
  <2>3. CASE ChecksIn(s)
    BY <2>3, <2>a DEF ChecksIn, Typed, TypeGroups, TypeTask, TypeClient, Alone, Stopped,
       OnlyTheClientListens, NoClient, HeldBySupervisor, HeldByStopper, Starting
  <2>4. CASE Registered(s)
    BY <2>4, <2>a DEF Registered, token, Typed, TypeGroups, TypeTask, TypeClient, Alone,
       Stopped, OnlyTheClientListens, NoClient, HeldBySupervisor, HeldByStopper, Starting
  <2>5. CASE PostConfirmed(s)
    BY <2>5, <2>a DEF PostConfirmed, token, Typed, TypeGroups, TypeTask, TypeClient, Alone,
       Stopped, OnlyTheClientListens, NoClient, HeldBySupervisor, HeldByStopper, Starting
  <2>6. CASE DropsOld(s)
    BY <2>6, <2>a DEF DropsOld, Trouble, Typed, TypeGroups, TypeTask, TypeClient, Alone,
       Stopped, OnlyTheClientListens, NoClient, HeldBySupervisor, HeldByStopper, Starting
  <2>7. CASE Listens(s)
    BY <2>7, <2>a DEF Listens, Typed, TypeGroups, TypeTask, TypeClient, Alone, Stopped,
       OnlyTheClientListens, NoClient, HeldBySupervisor, HeldByStopper, Starting
  <2>8. CASE GivenUp(s)
    BY <2>8, <2>a DEF GivenUp, StartFailed, Typed, TypeGroups, TypeTask, TypeClient, Alone,
       Stopped, OnlyTheClientListens, NoClient, HeldBySupervisor, HeldByStopper, Starting
  <2>9. CASE HealWaitEnds(s)
    BY <2>9, <2>a DEF HealWaitEnds, Typed, TypeGroups, TypeTask, TypeClient, Alone,
       Stopped, OnlyTheClientListens, NoClient, HeldBySupervisor, HeldByStopper, Starting
  <2>10. CASE PurgeLocks(s)
    BY <2>10, <2>a DEF PurgeLocks, Typed, TypeGroups, TypeTask, TypeClient, Alone, Stopped,
       OnlyTheClientListens, NoClient, HeldBySupervisor, HeldByStopper, Starting
  <2>11. CASE PurgeStops(s)
    BY <2>11, <2>a DEF PurgeStops, PushStopped, Typed, TypeGroups, TypeTask, TypeClient,
       Alone, Stopped, OnlyTheClientListens, NoClient, HeldBySupervisor, HeldByStopper,
       Starting
  <2>12. CASE LogsOut(s)
    BY <2>12, <2>a DEF LogsOut, Trouble, Typed, TypeGroups, TypeTask, TypeClient, Alone,
       Stopped, OnlyTheClientListens, NoClient, HeldBySupervisor, HeldByStopper, Starting
  <2>13. CASE Purges(s)
    BY <2>13, <2>a DEF Purges, Typed, TypeGroups, TypeTask, TypeClient, Alone, Stopped,
       OnlyTheClientListens, NoClient, HeldBySupervisor, HeldByStopper, Starting
  <2>14. CASE ConfigFails(s)
    BY <2>14, <2>a DEF ConfigFails, Trouble, StartFailed, Typed, TypeGroups, TypeTask,
       TypeClient, Alone, Stopped, OnlyTheClientListens, NoClient, HeldBySupervisor,
       HeldByStopper, Starting
  <2>15. CASE CheckinFails(s)
    BY <2>15, <2>a DEF CheckinFails, Trouble, GivesUp, Typed, TypeGroups, TypeTask,
       TypeClient, Alone, Stopped, OnlyTheClientListens, NoClient, HeldBySupervisor,
       HeldByStopper, Starting
  <2>16. CASE PostFails(s)
    BY <2>16, <2>a DEF PostFails, Trouble, GivesUp, Typed, TypeGroups, TypeTask,
       TypeClient, Alone, Stopped, OnlyTheClientListens, NoClient, HeldBySupervisor,
       HeldByStopper, Starting
  <2>17. CASE ListenFails(s)
    BY <2>17, <2>a DEF ListenFails, Trouble, GivesUp, Typed, TypeGroups, TypeTask,
       TypeClient, Alone, Stopped, OnlyTheClientListens, NoClient, HeldBySupervisor,
       HeldByStopper, Starting
  <2>18. CASE PurgeRaises(s)
    BY <2>18, <2>a DEF PurgeRaises, Trouble, Typed, TypeGroups, TypeTask, TypeClient,
       Alone, Stopped, OnlyTheClientListens, NoClient, HeldBySupervisor, HeldByStopper,
       Starting
  <2>19. CASE Iterates(s)
    BY <2>19, <2>a DEF Iterates, NeedsHard, Typed, TypeGroups, TypeTask, TypeClient, Alone,
       Stopped, OnlyTheClientListens, NoClient, HeldBySupervisor, HeldByStopper, Starting
  <2>20. CASE PollEnds(s)
    BY <2>20, <2>a DEF PollEnds, ListenerDown, Typed, TypeGroups, TypeTask, TypeClient,
       Alone, Stopped, OnlyTheClientListens, NoClient, HeldBySupervisor, HeldByStopper,
       Starting
  <2>21. CASE Stops(s)
    BY <2>21, <2>a DEF Stops, PushStopped, Typed, TypeGroups, TypeTask, TypeClient, Alone,
       Stopped, OnlyTheClientListens, NoClient, HeldBySupervisor, HeldByStopper, Starting
  <2>22. CASE Cancelled(s)
    <3>1. pc'[s] \notin Starting /\ UNCHANGED client
      BY <2>22 DEF Cancelled, Starting, Typed, TypeGroups, TypeTask
    <3>2. \A r \in Sups : r # s => pc'[r] = pc[r]
      BY <2>22 DEF Cancelled, Typed, TypeGroups, TypeTask
    <3>3. \A c \in Clients : cl'[c] = "started" => c = client \/ cl[c] = "started"
      BY <2>22 DEF Cancelled, Typed, TypeGroups, TypeClient
    <3>4. \A r \in Sups : r # s => pc[r] \notin Starting
      BY <2>a DEF Alone, Starting
    <3>. QED BY <3>1, <3>2, <3>3, <3>4 DEF Stopped, OnlyTheClientListens
  <2>23. CASE Unwinds(s)
    BY <2>23, <2>a DEF Unwinds, PushStopped, Typed, TypeGroups, TypeTask, TypeClient,
       Alone, Stopped, OnlyTheClientListens, NoClient, HeldBySupervisor, HeldByStopper,
       Starting
  <2>. QED BY <1>1, <2>1, <2>2, <2>3, <2>4, <2>5, <2>6, <2>7, <2>8, <2>9, <2>10, <2>11,
     <2>12, <2>13, <2>14, <2>15, <2>16, <2>17, <2>18, <2>19, <2>20, <2>21, <2>22, <2>23 DEF
     Starts, Heals, Fails, Supervises
<1>2. CASE EnsureRuns
  BY <1>2, SMTT(60) DEF EnsureRuns, NoSupervisor, Typed, TypeGroups, TypeTask, TypeClient, Stopped,
     Supervised, OnlyTheTask, StopperKnows, Alive, NoneAlive, OnlyTheClientListens,
     NoClient, HeldBySupervisor, HeldByStopper, Starting
<1>3. ASSUME NEW p \in Stoppers, StopperStops(p)
      PROVE  OnlyTheClientListens'
  BY <1>3, ZenonT(60) DEF StopperStops, PushStopped, Typed, TypeGroups, TypeTask, TypeClient, Stopped,
     Supervised, OnlyTheTask, StopperKnows, Alive, NoneAlive, OnlyTheClientListens,
     NoClient, HeldBySupervisor, HeldByStopper, Starting
<1>4. CASE Reloads
  BY <1>4 DEF Reloads, Typed, TypeGroups, TypeTask, TypeClient, Stopped, Supervised,
     OnlyTheTask, StopperKnows, Alive, NoneAlive, OnlyTheClientListens, NoClient,
     HeldBySupervisor, HeldByStopper, Starting
<1>5. ASSUME NEW c \in Clients, Dies(c)
      PROVE  OnlyTheClientListens'
  BY <1>5 DEF Dies, Typed, TypeGroups, TypeTask, TypeClient, Stopped, Supervised,
     OnlyTheTask, StopperKnows, Alive, NoneAlive, OnlyTheClientListens, NoClient,
     HeldBySupervisor, HeldByStopper, Starting
<1>6. CASE \/ Tick \/ (\E m \in {"auto", "polling"} : SelectsMode(m)) \/ Unloads
           \/ (\E p \in Stoppers : SupervisorEnded(p)) \/ SelectRestarts \/ UnloadEnds
           \/ (\E c \in Clients : PushArrives(c)) \/ (\E c \in Clients : CallbackRuns(c))
           \/ (\E c \in Clients : Persists(c)) \/ Condemns \/ StaleExpires \/ UNCHANGED vars
  BY <1>6 DEF Tick, SelectsMode, Unloads, SupervisorEnded, SelectRestarts, UnloadEnds,
     PushArrives, CallbackRuns, Persists, Condemns, StaleExpires, BeginsStop,
     BeginsPushStop, NoSupervisor, Alive, vars, Stopped, OnlyTheClientListens
<1>. QED BY <1>1, <1>2, <1>3, <1>4, <1>5, <1>6 DEF Next, Stopper

\* Where there is no client, nobody but the start makes one.
LEMMA NoClientKept ==
  ASSUME ~TickOverlaps, Typed, Supervised, Stopped, [Next]_vars
  PROVE  NoClient'
<1>1. ASSUME NEW s \in Sups, Starts(s) \/ Heals(s) \/ Fails(s) \/ Supervises(s)
      PROVE  NoClient'
  <2>a. Alone(s)
    BY <1>1, ActsAlone
  <2>1. CASE StartLocks(s)
    <3>1. pc'[s] = "config" => client = 0
      <4>1. running \/ client = 0
        BY <2>1, <2>a, OutsideStart DEF StartLocks, Alive, Starting
      <4>. QED BY <2>1, <4>1 DEF StartLocks, StartFailed, Typed, TypeGroups, TypeTask
    <3>2. \A r \in Sups : r # s => pc'[r] = pc[r]
      BY <2>1 DEF StartLocks, StartFailed, Typed, TypeGroups, TypeTask
    <3>3. pc'[s] \notin {"logout", "purge", "giveUp"} /\ UNCHANGED <<client, spc>>
      BY <2>1 DEF StartLocks, StartFailed, Typed, TypeGroups, TypeTask
    <3>. QED BY <3>1, <3>2, <3>3 DEF Stopped, NoClient
  <2>2. CASE ClientMade(s)
    BY <2>2, <2>a DEF ClientMade, Typed, TypeGroups, TypeTask, TypeClient, Alone, Stopped,
       NoClient, RunningClient, Starting, HeldBySupervisor, HeldByStopper
  <2>3. CASE ChecksIn(s)
    BY <2>3, <2>a DEF ChecksIn, Typed, TypeGroups, TypeTask, TypeClient, Alone, Stopped,
       NoClient, RunningClient, Starting, HeldBySupervisor, HeldByStopper
  <2>4. CASE Registered(s)
    BY <2>4, <2>a, SMTT(60) DEF Registered, token, Typed, TypeGroups, TypeTask, TypeClient, Alone,
       Stopped, NoClient, RunningClient, Starting, HeldBySupervisor, HeldByStopper
  <2>5. CASE PostConfirmed(s)
    BY <2>5, <2>a DEF PostConfirmed, token, Typed, TypeGroups, TypeTask, TypeClient, Alone,
       Stopped, NoClient, RunningClient, Starting, HeldBySupervisor, HeldByStopper
  <2>6. CASE DropsOld(s)
    BY <2>6, <2>a DEF DropsOld, Trouble, Typed, TypeGroups, TypeTask, TypeClient, Alone,
       Stopped, NoClient, RunningClient, Starting, HeldBySupervisor, HeldByStopper
  <2>7. CASE Listens(s)
    BY <2>7, <2>a DEF Listens, Typed, TypeGroups, TypeTask, TypeClient, Alone, Stopped,
       NoClient, RunningClient, Starting, HeldBySupervisor, HeldByStopper
  <2>8. CASE GivenUp(s)
    BY <2>8, <2>a DEF GivenUp, StartFailed, Typed, TypeGroups, TypeTask, TypeClient, Alone,
       Stopped, NoClient, RunningClient, Starting, HeldBySupervisor, HeldByStopper
  <2>9. CASE HealWaitEnds(s)
    BY <2>9, <2>a DEF HealWaitEnds, Typed, TypeGroups, TypeTask, TypeClient, Alone,
       Stopped, NoClient, RunningClient, Starting, HeldBySupervisor, HeldByStopper
  <2>10. CASE PurgeLocks(s)
    BY <2>10, <2>a DEF PurgeLocks, Typed, TypeGroups, TypeTask, TypeClient, Alone, Stopped,
       NoClient, RunningClient, Starting, HeldBySupervisor, HeldByStopper
  <2>11. CASE PurgeStops(s)
    BY <2>11, <2>a DEF PurgeStops, PushStopped, Typed, TypeGroups, TypeTask, TypeClient,
       Alone, Stopped, NoClient, RunningClient, Starting, HeldBySupervisor, HeldByStopper
  <2>12. CASE LogsOut(s)
    BY <2>12, <2>a DEF LogsOut, Trouble, Typed, TypeGroups, TypeTask, TypeClient, Alone,
       Stopped, NoClient, RunningClient, Starting, HeldBySupervisor, HeldByStopper
  <2>13. CASE Purges(s)
    BY <2>13, <2>a DEF Purges, Typed, TypeGroups, TypeTask, TypeClient, Alone, Stopped,
       NoClient, RunningClient, Starting, HeldBySupervisor, HeldByStopper
  <2>14. CASE ConfigFails(s)
    BY <2>14, <2>a DEF ConfigFails, Trouble, StartFailed, Typed, TypeGroups, TypeTask,
       TypeClient, Alone, Stopped, NoClient, RunningClient, Starting, HeldBySupervisor,
       HeldByStopper
  <2>15. CASE CheckinFails(s)
    BY <2>15, <2>a DEF CheckinFails, Trouble, GivesUp, Typed, TypeGroups, TypeTask,
       TypeClient, Alone, Stopped, NoClient, RunningClient, Starting, HeldBySupervisor,
       HeldByStopper
  <2>16. CASE PostFails(s)
    BY <2>16, <2>a DEF PostFails, Trouble, GivesUp, Typed, TypeGroups, TypeTask,
       TypeClient, Alone, Stopped, NoClient, RunningClient, Starting, HeldBySupervisor,
       HeldByStopper
  <2>17. CASE ListenFails(s)
    BY <2>17, <2>a DEF ListenFails, Trouble, GivesUp, Typed, TypeGroups, TypeTask,
       TypeClient, Alone, Stopped, NoClient, RunningClient, Starting, HeldBySupervisor,
       HeldByStopper
  <2>18. CASE PurgeRaises(s)
    BY <2>18, <2>a DEF PurgeRaises, Trouble, Typed, TypeGroups, TypeTask, TypeClient,
       Alone, Stopped, NoClient, RunningClient, Starting, HeldBySupervisor, HeldByStopper
  <2>19. CASE Iterates(s)
    BY <2>19, <2>a DEF Iterates, NeedsHard, Typed, TypeGroups, TypeTask, TypeClient, Alone,
       Stopped, NoClient, RunningClient, Starting, HeldBySupervisor, HeldByStopper
  <2>20. CASE PollEnds(s)
    BY <2>20, <2>a DEF PollEnds, ListenerDown, Typed, TypeGroups, TypeTask, TypeClient,
       Alone, Stopped, NoClient, RunningClient, Starting, HeldBySupervisor, HeldByStopper
  <2>21. CASE Stops(s)
    BY <2>21, <2>a DEF Stops, PushStopped, Typed, TypeGroups, TypeTask, TypeClient, Alone,
       Stopped, NoClient, RunningClient, Starting, HeldBySupervisor, HeldByStopper
  <2>22. CASE Cancelled(s)
    BY <2>22, <2>a, SMTT(60) DEF Cancelled, FreshLocals, Alive, Typed, TypeGroups, TypeTask,
       TypeClient, Alone, Stopped, NoClient, RunningClient, Starting, HeldBySupervisor,
       HeldByStopper
  <2>23. CASE Unwinds(s)
    BY <2>23, <2>a DEF Unwinds, PushStopped, Typed, TypeGroups, TypeTask, TypeClient,
       Alone, Stopped, NoClient, RunningClient, Starting, HeldBySupervisor, HeldByStopper
  <2>. QED BY <1>1, <2>1, <2>2, <2>3, <2>4, <2>5, <2>6, <2>7, <2>8, <2>9, <2>10, <2>11,
     <2>12, <2>13, <2>14, <2>15, <2>16, <2>17, <2>18, <2>19, <2>20, <2>21, <2>22, <2>23 DEF
     Starts, Heals, Fails, Supervises
<1>2. CASE EnsureRuns
  BY <1>2, ZenonT(60) DEF EnsureRuns, NoSupervisor, Typed, TypeGroups, TypeTask, TypeClient, Stopped,
     Supervised, OnlyTheTask, StopperKnows, Alive, NoneAlive, NoClient, RunningClient,
     Starting, HeldBySupervisor, HeldByStopper
<1>3. ASSUME NEW m \in {"auto", "polling"}, SelectsMode(m)
      PROVE  NoClient'
  BY <1>3 DEF SelectsMode, BeginsStop, BeginsPushStop, NoSupervisor, Typed, TypeGroups,
     TypeTask, TypeClient, Stopped, Supervised, OnlyTheTask, StopperKnows, Alive,
     NoneAlive, NoClient, RunningClient, Starting, HeldBySupervisor, HeldByStopper
<1>4. CASE Unloads
  BY <1>4, SMTT(60) DEF Unloads, BeginsStop, BeginsPushStop, NoSupervisor, Typed, TypeGroups,
     TypeTask, TypeClient, Stopped, Supervised, OnlyTheTask, StopperKnows, Alive,
     NoneAlive, NoClient, RunningClient, Starting, HeldBySupervisor, HeldByStopper
<1>5. ASSUME NEW p \in Stoppers, SupervisorEnded(p)
      PROVE  NoClient'
  BY <1>5 DEF SupervisorEnded, BeginsPushStop, Typed, TypeGroups, TypeTask, TypeClient,
     Stopped, Supervised, OnlyTheTask, StopperKnows, Alive, NoneAlive, NoClient,
     RunningClient, Starting, HeldBySupervisor, HeldByStopper
<1>6. ASSUME NEW p \in Stoppers, StopperStops(p)
      PROVE  NoClient'
  BY <1>6 DEF StopperStops, PushStopped, Typed, TypeGroups, TypeTask, TypeClient, Stopped,
     Supervised, OnlyTheTask, StopperKnows, Alive, NoneAlive, NoClient, RunningClient,
     Starting, HeldBySupervisor, HeldByStopper
<1>7. CASE SelectRestarts
  BY <1>7 DEF SelectRestarts, Typed, TypeGroups, TypeTask, TypeClient, Stopped, Supervised,
     OnlyTheTask, StopperKnows, Alive, NoneAlive, NoClient, RunningClient, Starting,
     HeldBySupervisor, HeldByStopper
<1>8. CASE UnloadEnds
  BY <1>8 DEF UnloadEnds, Typed, TypeGroups, TypeTask, TypeClient, Stopped, Supervised,
     OnlyTheTask, StopperKnows, Alive, NoneAlive, NoClient, RunningClient, Starting,
     HeldBySupervisor, HeldByStopper
<1>9. CASE Reloads
  BY <1>9 DEF Reloads, Typed, TypeGroups, TypeTask, TypeClient, Stopped, Supervised,
     OnlyTheTask, StopperKnows, Alive, NoneAlive, NoClient, RunningClient, Starting,
     HeldBySupervisor, HeldByStopper
<1>10. CASE \/ Tick \/ (\E c \in Clients : Dies(c)) \/ (\E c \in Clients : PushArrives(c))
            \/ (\E c \in Clients : CallbackRuns(c)) \/ (\E c \in Clients : Persists(c))
            \/ Condemns \/ StaleExpires \/ UNCHANGED vars
  BY <1>10 DEF Tick, Dies, PushArrives, CallbackRuns, Persists, Condemns, StaleExpires,
     Alive, vars, Stopped, NoClient
<1>. QED BY <1>1, <1>2, <1>3, <1>4, <1>5, <1>6, <1>7, <1>8, <1>9, <1>10 DEF Next, Stopper

\* A client that is not running is in its start, or about to be stopped.
LEMMA RunningKept ==
  ASSUME ~TickOverlaps, Typed, Supervised, Stopped, [Next]_vars
  PROVE  RunningClient'
<1>1. ASSUME NEW s \in Sups, Starts(s) \/ Heals(s) \/ Fails(s) \/ Supervises(s)
      PROVE  RunningClient'
  <2>a. Alone(s)
    BY <1>1, ActsAlone
  <2>1. CASE StartLocks(s)
    <3>1. running \/ client = 0
      BY <2>1, <2>a, OutsideStart DEF StartLocks, Alive, Starting
    <3>2. pc'[s] \notin Starting \cup {"giveUp"} /\ UNCHANGED <<running, client>>
      BY <2>1 DEF StartLocks, StartFailed, Starting, Typed, TypeGroups, TypeTask
    <3>3. pc'[s] = "config" => ~running
      BY <2>1 DEF StartLocks, StartFailed, Typed, TypeGroups, TypeTask
    <3>4. \A r \in Sups : r # s => pc'[r] \in {"none", "done"}
      BY <2>1, <2>a DEF StartLocks, StartFailed, Alone, Typed, TypeGroups, TypeTask
    <3>. QED BY <3>1, <3>2, <3>3, <3>4 DEF RunningClient, Starting
  <2>2. CASE ClientMade(s)
    BY <2>2, <2>a DEF ClientMade, Typed, TypeGroups, TypeTask, TypeClient, Alone, Stopped,
       NoClient, RunningClient, Starting, HeldBySupervisor, HeldByStopper
  <2>3. CASE ChecksIn(s)
    BY <2>3, <2>a DEF ChecksIn, Typed, TypeGroups, TypeTask, TypeClient, Alone, Stopped,
       NoClient, RunningClient, Starting, HeldBySupervisor, HeldByStopper
  <2>4. CASE Registered(s)
    BY <2>4, <2>a DEF Registered, token, Typed, TypeGroups, TypeTask, TypeClient, Alone,
       Stopped, NoClient, RunningClient, Starting, HeldBySupervisor, HeldByStopper
  <2>5. CASE PostConfirmed(s)
    BY <2>5, <2>a DEF PostConfirmed, token, Typed, TypeGroups, TypeTask, TypeClient, Alone,
       Stopped, NoClient, RunningClient, Starting, HeldBySupervisor, HeldByStopper
  <2>6. CASE DropsOld(s)
    BY <2>6, <2>a DEF DropsOld, Trouble, Typed, TypeGroups, TypeTask, TypeClient, Alone,
       Stopped, NoClient, RunningClient, Starting, HeldBySupervisor, HeldByStopper
  <2>7. CASE Listens(s)
    BY <2>7, <2>a DEF Listens, Typed, TypeGroups, TypeTask, TypeClient, Alone, Stopped,
       NoClient, RunningClient, Starting, HeldBySupervisor, HeldByStopper
  <2>8. CASE GivenUp(s)
    BY <2>8, <2>a DEF GivenUp, StartFailed, Typed, TypeGroups, TypeTask, TypeClient, Alone,
       Stopped, NoClient, RunningClient, Starting, HeldBySupervisor, HeldByStopper
  <2>9. CASE HealWaitEnds(s)
    <3>1. running \/ client = 0
      BY <2>9, <2>a, OutsideStart DEF HealWaitEnds, Alive, Starting
    <3>2. pc'[s] \notin Starting \cup {"config", "giveUp"} /\ UNCHANGED <<running, client>>
      BY <2>9 DEF HealWaitEnds, Starting, Typed, TypeGroups, TypeTask
    <3>3. \A r \in Sups : r # s => pc'[r] \in {"none", "done"}
      BY <2>9, <2>a DEF HealWaitEnds, Alone, Typed, TypeGroups, TypeTask
    <3>. QED BY <3>1, <3>2, <3>3 DEF RunningClient, Starting
  <2>10. CASE PurgeLocks(s)
    <3>1. running \/ client = 0
      BY <2>10, <2>a, OutsideStart DEF PurgeLocks, Alive, Starting
    <3>2. pc'[s] \notin Starting \cup {"config", "giveUp"} /\ UNCHANGED <<running, client>>
      BY <2>10 DEF PurgeLocks, Starting, Typed, TypeGroups, TypeTask
    <3>3. \A r \in Sups : r # s => pc'[r] \in {"none", "done"}
      BY <2>10, <2>a DEF PurgeLocks, Alone, Typed, TypeGroups, TypeTask
    <3>. QED BY <3>1, <3>2, <3>3 DEF RunningClient, Starting
  <2>11. CASE PurgeStops(s)
    BY <2>11, <2>a DEF PurgeStops, PushStopped, Typed, TypeGroups, TypeTask, TypeClient,
       Alone, Stopped, NoClient, RunningClient, Starting, HeldBySupervisor, HeldByStopper
  <2>12. CASE LogsOut(s)
    BY <2>12, <2>a DEF LogsOut, Trouble, Typed, TypeGroups, TypeTask, TypeClient, Alone,
       Stopped, NoClient, RunningClient, Starting, HeldBySupervisor, HeldByStopper
  <2>13. CASE Purges(s)
    BY <2>13, <2>a DEF Purges, Typed, TypeGroups, TypeTask, TypeClient, Alone, Stopped,
       NoClient, RunningClient, Starting, HeldBySupervisor, HeldByStopper
  <2>14. CASE ConfigFails(s)
    BY <2>14, <2>a DEF ConfigFails, Trouble, StartFailed, Typed, TypeGroups, TypeTask,
       TypeClient, Alone, Stopped, NoClient, RunningClient, Starting, HeldBySupervisor,
       HeldByStopper
  <2>15. CASE CheckinFails(s)
    BY <2>15, <2>a DEF CheckinFails, Trouble, GivesUp, Typed, TypeGroups, TypeTask,
       TypeClient, Alone, Stopped, NoClient, RunningClient, Starting, HeldBySupervisor,
       HeldByStopper
  <2>16. CASE PostFails(s)
    BY <2>16, <2>a DEF PostFails, Trouble, GivesUp, Typed, TypeGroups, TypeTask,
       TypeClient, Alone, Stopped, NoClient, RunningClient, Starting, HeldBySupervisor,
       HeldByStopper
  <2>17. CASE ListenFails(s)
    BY <2>17, <2>a DEF ListenFails, Trouble, GivesUp, Typed, TypeGroups, TypeTask,
       TypeClient, Alone, Stopped, NoClient, RunningClient, Starting, HeldBySupervisor,
       HeldByStopper
  <2>18. CASE PurgeRaises(s)
    BY <2>18, <2>a DEF PurgeRaises, Trouble, Typed, TypeGroups, TypeTask, TypeClient,
       Alone, Stopped, NoClient, RunningClient, Starting, HeldBySupervisor, HeldByStopper
  <2>19. CASE Iterates(s)
    <3>1. running \/ client = 0
      BY <2>19, <2>a, OutsideStart DEF Iterates, Alive, Starting
    <3>2. pc'[s] \notin Starting \cup {"config", "giveUp"} /\ UNCHANGED <<running, client>>
      BY <2>19 DEF Iterates, Starting, Typed, TypeGroups, TypeTask
    <3>3. \A r \in Sups : r # s => pc'[r] \in {"none", "done"}
      BY <2>19, <2>a DEF Iterates, Alone, Typed, TypeGroups, TypeTask
    <3>. QED BY <3>1, <3>2, <3>3 DEF RunningClient, Starting
  <2>20. CASE PollEnds(s)
    <3>1. running \/ client = 0
      BY <2>20, <2>a, OutsideStart DEF PollEnds, Alive, Starting
    <3>2. pc'[s] \notin Starting \cup {"config", "giveUp"} /\ UNCHANGED <<running, client>>
      BY <2>20 DEF PollEnds, Starting, Typed, TypeGroups, TypeTask
    <3>3. \A r \in Sups : r # s => pc'[r] \in {"none", "done"}
      BY <2>20, <2>a DEF PollEnds, Alone, Typed, TypeGroups, TypeTask
    <3>. QED BY <3>1, <3>2, <3>3 DEF RunningClient, Starting
  <2>21. CASE Stops(s)
    BY <2>21, <2>a DEF Stops, PushStopped, Typed, TypeGroups, TypeTask, TypeClient, Alone,
       Stopped, NoClient, RunningClient, Starting, HeldBySupervisor, HeldByStopper
  <2>22. CASE Cancelled(s)
    <3>1. PICK p \in Stoppers : spc[p] = "await"
      BY <2>22 DEF Cancelled, Supervised, CancelledIsAwaited
    <3>2. /\ pc'[s] \notin Starting \cup {"config", "giveUp"}
          /\ pc'[s] # "done" => pc[s] = "polling"
          /\ UNCHANGED <<running, client, spc>>
      BY <2>22 DEF Cancelled, Starting, Typed, TypeGroups, TypeTask
    <3>3. \A r \in Sups : r # s => pc'[r] \in {"none", "done"}
      BY <2>22, <2>a DEF Cancelled, Alone, Typed, TypeGroups, TypeTask
    <3>4. pc'[s] # "done" => running \/ client = 0
      BY <2>22, <2>a, <3>2, OutsideStart DEF Alive, Starting
    <3>. QED BY <3>1, <3>2, <3>3, <3>4 DEF RunningClient, Starting, NoneAlive, Alive
  <2>23. CASE Unwinds(s)
    BY <2>23, <2>a DEF Unwinds, PushStopped, Typed, TypeGroups, TypeTask, TypeClient,
       Alone, Stopped, NoClient, RunningClient, Starting, HeldBySupervisor, HeldByStopper
  <2>. QED BY <1>1, <2>1, <2>2, <2>3, <2>4, <2>5, <2>6, <2>7, <2>8, <2>9, <2>10, <2>11,
     <2>12, <2>13, <2>14, <2>15, <2>16, <2>17, <2>18, <2>19, <2>20, <2>21, <2>22, <2>23 DEF
     Starts, Heals, Fails, Supervises
<1>2. CASE EnsureRuns
  <2>1. CASE UNCHANGED pc
    BY <1>2, <2>1, EnsureStep DEF Stopped, RunningClient, NoneAlive, Alive
  <2>2. CASE ~(UNCHANGED pc)
    <3>1. running \/ client = 0
      BY <1>2, <2>2, EnsureStep DEF StopInProgress, Stopped, RunningClient, NoneAlive, Alive, Starting
    <3>2. \A r \in Sups : pc'[r] \in {"none", "done", "sleep"}
      BY <1>2, <2>2, EnsureStep DEF NoneAlive, Alive, Typed, TypeGroups, TypeTask
    <3>. QED BY <1>2, <3>1, <3>2, EnsureStep DEF RunningClient, Starting
  <2>. QED BY <2>1, <2>2
<1>3. ASSUME NEW m \in {"auto", "polling"}, SelectsMode(m)
      PROVE  RunningClient'
  BY <1>3 DEF SelectsMode, BeginsStop, BeginsPushStop, NoSupervisor, Typed, TypeGroups,
     TypeTask, TypeClient, Stopped, Supervised, OnlyTheTask, StopperKnows, Alive,
     NoneAlive, CancelledIsAwaited, NoClient, RunningClient, Starting, HeldBySupervisor,
     HeldByStopper
<1>4. CASE Unloads
  BY <1>4 DEF Unloads, BeginsStop, BeginsPushStop, NoSupervisor, Typed, TypeGroups,
     TypeTask, TypeClient, Stopped, Supervised, OnlyTheTask, StopperKnows, Alive,
     NoneAlive, CancelledIsAwaited, NoClient, RunningClient, Starting, HeldBySupervisor,
     HeldByStopper
<1>5. ASSUME NEW p \in Stoppers, SupervisorEnded(p)
      PROVE  RunningClient'
  BY <1>5 DEF SupervisorEnded, BeginsPushStop, Typed, TypeGroups, TypeTask, TypeClient,
     Stopped, Supervised, OnlyTheTask, StopperKnows, Alive, NoneAlive, CancelledIsAwaited,
     NoClient, RunningClient, Starting, HeldBySupervisor, HeldByStopper
<1>6. ASSUME NEW p \in Stoppers, StopperStops(p)
      PROVE  RunningClient'
  BY <1>6 DEF StopperStops, PushStopped, Typed, TypeGroups, TypeTask, TypeClient, Stopped,
     Supervised, OnlyTheTask, StopperKnows, Alive, NoneAlive, CancelledIsAwaited, NoClient,
     RunningClient, Starting, HeldBySupervisor, HeldByStopper
<1>7. CASE SelectRestarts
  BY <1>7 DEF SelectRestarts, Typed, TypeGroups, TypeTask, TypeClient, Stopped, Supervised,
     OnlyTheTask, StopperKnows, Alive, NoneAlive, CancelledIsAwaited, NoClient,
     RunningClient, Starting, HeldBySupervisor, HeldByStopper
<1>8. CASE UnloadEnds
  BY <1>8 DEF UnloadEnds, Typed, TypeGroups, TypeTask, TypeClient, Stopped, Supervised,
     OnlyTheTask, StopperKnows, Alive, NoneAlive, CancelledIsAwaited, NoClient,
     RunningClient, Starting, HeldBySupervisor, HeldByStopper
<1>9. CASE Reloads
  BY <1>9 DEF Reloads, Typed, TypeGroups, TypeTask, TypeClient, Stopped, Supervised,
     OnlyTheTask, StopperKnows, Alive, NoneAlive, CancelledIsAwaited, NoClient,
     RunningClient, Starting, HeldBySupervisor, HeldByStopper
<1>10. CASE \/ Tick \/ (\E c \in Clients : Dies(c)) \/ (\E c \in Clients : PushArrives(c))
            \/ (\E c \in Clients : CallbackRuns(c)) \/ (\E c \in Clients : Persists(c))
            \/ Condemns \/ StaleExpires \/ UNCHANGED vars
  BY <1>10 DEF Tick, Dies, PushArrives, CallbackRuns, Persists, Condemns, StaleExpires,
     Alive, vars, Stopped, RunningClient, NoneAlive
<1>. QED BY <1>1, <1>2, <1>3, <1>4, <1>5, <1>6, <1>7, <1>8, <1>9, <1>10 DEF Next, Stopper

\* Every client but the coordinator's is stopped.
LEMMA StoppedInvariant ==
  ASSUME ~TickOverlaps
  PROVE  Spec => []Stopped
<1>1. Init => Stopped
  BY DEF Init, Stopped, HeldBySupervisor, HeldByStopper, OnlyTheClientListens, NoClient, RunningClient, Starting
<1>2. Typed /\ Supervised /\ Stopped /\ [Next]_vars => Stopped'
  BY HeldKept, HeldByStopperKept, ListenerKept, NoClientKept, RunningKept DEF Stopped
<1>. QED BY <1>1, <1>2, TypedInvariant, SupervisedInvariant, PTL DEF Spec

\* A purge finds no client; the next one has a later number.
LEMMA YoungerKept ==
  ASSUME ~TickOverlaps, Typed, Supervised, Stopped, Persisted, [Next]_vars
  PROVE  YoungerThanPurge'
<1>1. ASSUME NEW s \in Sups, Starts(s) \/ Heals(s) \/ Fails(s) \/ Supervises(s)
      PROVE  YoungerThanPurge'
  <2>a. Alone(s)
    BY <1>1, ActsAlone
  <2>1. CASE ClientMade(s)
    BY <2>1, <2>a DEF ClientMade, Typed, TypeGroups, TypeTask, TypeClient, TypeEntry,
       Persisted, YoungerThanPurge, SavesItsToken, StartHasClient, Starting, Stopped,
       NoClient
  <2>2. CASE PurgeStops(s)
    BY <2>2, <2>a DEF PurgeStops, PushStopped, Typed, TypeGroups, TypeTask, TypeClient,
       TypeEntry, Persisted, YoungerThanPurge, SavesItsToken, StartHasClient, Starting,
       Stopped, NoClient
  <2>3. CASE Purges(s)
    BY <2>3, <2>a, SMTT(60) DEF Purges, Typed, TypeGroups, TypeTask, TypeClient, TypeEntry,
       Persisted, YoungerThanPurge, SavesItsToken, StartHasClient, Starting, Stopped,
       NoClient
  <2>4. CASE CheckinFails(s)
    BY <2>4, <2>a DEF CheckinFails, Trouble, GivesUp, Typed, TypeGroups, TypeTask,
       TypeClient, TypeEntry, Persisted, YoungerThanPurge, SavesItsToken, StartHasClient,
       Starting, Stopped, NoClient
  <2>5. CASE PostFails(s)
    BY <2>5, <2>a DEF PostFails, Trouble, GivesUp, Typed, TypeGroups, TypeTask, TypeClient,
       TypeEntry, Persisted, YoungerThanPurge, SavesItsToken, StartHasClient, Starting,
       Stopped, NoClient
  <2>6. CASE ListenFails(s)
    BY <2>6, <2>a DEF ListenFails, Trouble, GivesUp, Typed, TypeGroups, TypeTask,
       TypeClient, TypeEntry, Persisted, YoungerThanPurge, SavesItsToken, StartHasClient,
       Starting, Stopped, NoClient
  <2>7. CASE Stops(s)
    BY <2>7, <2>a DEF Stops, PushStopped, Typed, TypeGroups, TypeTask, TypeClient,
       TypeEntry, Persisted, YoungerThanPurge, SavesItsToken, StartHasClient, Starting,
       Stopped, NoClient
  <2>8. CASE Unwinds(s)
    BY <2>8, <2>a DEF Unwinds, PushStopped, Typed, TypeGroups, TypeTask, TypeClient,
       TypeEntry, Persisted, YoungerThanPurge, SavesItsToken, StartHasClient, Starting,
       Stopped, NoClient
  <2>9. CASE \/ StartLocks(s) \/ ChecksIn(s) \/ Registered(s) \/ PostConfirmed(s)
             \/ DropsOld(s) \/ Listens(s) \/ GivenUp(s) \/ HealWaitEnds(s) \/ PurgeLocks(s)
             \/ LogsOut(s) \/ ConfigFails(s) \/ PurgeRaises(s) \/ Iterates(s) \/ PollEnds(s)
             \/ Cancelled(s)
    BY <2>9 DEF StartLocks, ChecksIn, Registered, PostConfirmed, DropsOld, Listens,
       GivenUp, HealWaitEnds, PurgeLocks, LogsOut, ConfigFails, PurgeRaises, Iterates,
       PollEnds, Cancelled, StartFailed, token, Trouble, NeedsHard, ListenerDown,
       FreshLocals, Alive, Persisted, YoungerThanPurge
  <2>. QED BY <1>1, <2>1, <2>2, <2>3, <2>4, <2>5, <2>6, <2>7, <2>8, <2>9 DEF Starts, Heals,
     Fails, Supervises
<1>2. ASSUME NEW p \in Stoppers, StopperStops(p)
      PROVE  YoungerThanPurge'
  BY <1>2 DEF StopperStops, PushStopped, Typed, TypeGroups, TypeTask, TypeClient,
     TypeEntry, Persisted, YoungerThanPurge, SavesItsToken, StartHasClient, Starting,
     Stopped, NoClient
<1>3. CASE Reloads
  BY <1>3 DEF Reloads, Typed, TypeGroups, TypeTask, TypeClient, TypeEntry, Persisted,
     YoungerThanPurge, SavesItsToken, StartHasClient, Starting, Stopped, NoClient
<1>4. ASSUME NEW c \in Clients, Persists(c)
      PROVE  YoungerThanPurge'
  BY <1>4 DEF Persists, Typed, TypeGroups, TypeTask, TypeClient, TypeEntry, Persisted,
     YoungerThanPurge, SavesItsToken, StartHasClient, Starting, Stopped, NoClient
<1>5. CASE \/ Tick \/ EnsureRuns \/ (\E m \in {"auto", "polling"} : SelectsMode(m))
           \/ Unloads \/ (\E p \in Stoppers : SupervisorEnded(p)) \/ SelectRestarts
           \/ UnloadEnds \/ (\E c \in Clients : Dies(c))
           \/ (\E c \in Clients : PushArrives(c)) \/ (\E c \in Clients : CallbackRuns(c))
           \/ Condemns \/ StaleExpires \/ UNCHANGED vars
  BY <1>5 DEF Tick, EnsureRuns, SelectsMode, Unloads, SupervisorEnded, SelectRestarts,
     UnloadEnds, Dies, PushArrives, CallbackRuns, Condemns, StaleExpires, NoSupervisor,
     BeginsStop, BeginsPushStop, Alive, vars, Persisted, YoungerThanPurge
<1>. QED BY <1>1, <1>2, <1>3, <1>4, <1>5 DEF Next, Stopper

\* Only a new token is handed to the callback.
LEMMA SavesKept ==
  ASSUME ~TickOverlaps, Typed, Supervised, Stopped, Persisted, [Next]_vars
  PROVE  SavesItsToken'
<1>1. ASSUME NEW s \in Sups, Starts(s) \/ Heals(s) \/ Fails(s) \/ Supervises(s)
      PROVE  SavesItsToken'
  <2>a. Alone(s)
    BY <1>1, ActsAlone
  <2>1. CASE StartLocks(s)
    BY <2>1, <2>a, SMTT(60) DEF StartLocks, StartFailed, Typed, TypeGroups, TypeTask, TypeClient,
       TypeEntry, Persisted, SavesItsToken, StartHasClient, Starting, YoungerThanPurge,
       Alone
  <2>2. CASE ClientMade(s)
    BY <2>2, <2>a, SMTT(60) DEF ClientMade, Typed, TypeGroups, TypeTask, TypeClient, TypeEntry,
       Persisted, SavesItsToken, StartHasClient, Starting, YoungerThanPurge, Alone
  <2>3. CASE ChecksIn(s)
    <3>1. clientNo \in Clients /\ clientNo \notin callback \cup persist
      BY <2>3 DEF ChecksIn, Typed, TypeGroups, TypeClient, StartHasClient, Starting, Persisted,
         SavesItsToken
    <3>2. PICK t \in {clientNo} \cup ({creds} \ {0}) :
            /\ tok' = [tok EXCEPT ![clientNo] = t]
            /\ callback' = IF t = clientNo THEN callback \cup {t} ELSE callback
      BY <2>3 DEF ChecksIn
    <3>3. \A c \in callback \cup persist : c <= clientNo /\ tok'[c] = c
      BY <3>1, <3>2 DEF Typed, TypeGroups, TypeClient, Persisted, SavesItsToken
    <3>4. t = clientNo => tok'[t] = t /\ t <= clientNo
      BY <3>1, <3>2 DEF Typed, TypeGroups, TypeClient
    <3>5. UNCHANGED <<clientNo, persist>> /\ pc' = [pc EXCEPT ![s] = "register"]
      BY <2>3 DEF ChecksIn
    <3>6. \A r \in Sups : pc'[r] # "checkin"
      BY <2>a, <3>5 DEF Alone, Typed, TypeGroups, TypeTask
    <3>. QED BY <3>2, <3>3, <3>4, <3>5, <3>6 DEF SavesItsToken
  <2>4. CASE Registered(s)
    BY <2>4, <2>a DEF Registered, token, Typed, TypeGroups, TypeTask, TypeClient,
       TypeEntry, Persisted, SavesItsToken, StartHasClient, Starting, YoungerThanPurge,
       Alone
  <2>5. CASE PostConfirmed(s)
    BY <2>5, <2>a DEF PostConfirmed, token, Typed, TypeGroups, TypeTask, TypeClient,
       TypeEntry, Persisted, SavesItsToken, StartHasClient, Starting, YoungerThanPurge,
       Alone
  <2>6. CASE DropsOld(s)
    BY <2>6, <2>a DEF DropsOld, Trouble, Typed, TypeGroups, TypeTask, TypeClient,
       TypeEntry, Persisted, SavesItsToken, StartHasClient, Starting, YoungerThanPurge,
       Alone
  <2>7. CASE Listens(s)
    BY <2>7, <2>a DEF Listens, Typed, TypeGroups, TypeTask, TypeClient, TypeEntry,
       Persisted, SavesItsToken, StartHasClient, Starting, YoungerThanPurge, Alone
  <2>8. CASE GivenUp(s)
    BY <2>8, <2>a DEF GivenUp, StartFailed, Typed, TypeGroups, TypeTask, TypeClient,
       TypeEntry, Persisted, SavesItsToken, StartHasClient, Starting, YoungerThanPurge,
       Alone
  <2>9. CASE HealWaitEnds(s)
    BY <2>9, <2>a DEF HealWaitEnds, Typed, TypeGroups, TypeTask, TypeClient, TypeEntry,
       Persisted, SavesItsToken, StartHasClient, Starting, YoungerThanPurge, Alone
  <2>10. CASE PurgeLocks(s)
    BY <2>10, <2>a DEF PurgeLocks, Typed, TypeGroups, TypeTask, TypeClient, TypeEntry,
       Persisted, SavesItsToken, StartHasClient, Starting, YoungerThanPurge, Alone
  <2>11. CASE PurgeStops(s)
    BY <2>11, <2>a DEF PurgeStops, PushStopped, Typed, TypeGroups, TypeTask, TypeClient,
       TypeEntry, Persisted, SavesItsToken, StartHasClient, Starting, YoungerThanPurge,
       Alone
  <2>12. CASE LogsOut(s)
    BY <2>12, <2>a DEF LogsOut, Trouble, Typed, TypeGroups, TypeTask, TypeClient,
       TypeEntry, Persisted, SavesItsToken, StartHasClient, Starting, YoungerThanPurge,
       Alone
  <2>13. CASE Purges(s)
    BY <2>13, <2>a DEF Purges, Typed, TypeGroups, TypeTask, TypeClient, TypeEntry,
       Persisted, SavesItsToken, StartHasClient, Starting, YoungerThanPurge, Alone
  <2>14. CASE ConfigFails(s)
    BY <2>14, <2>a DEF ConfigFails, Trouble, StartFailed, Typed, TypeGroups, TypeTask,
       TypeClient, TypeEntry, Persisted, SavesItsToken, StartHasClient, Starting,
       YoungerThanPurge, Alone
  <2>15. CASE CheckinFails(s)
    BY <2>15, <2>a DEF CheckinFails, Trouble, GivesUp, Typed, TypeGroups, TypeTask,
       TypeClient, TypeEntry, Persisted, SavesItsToken, StartHasClient, Starting,
       YoungerThanPurge, Alone
  <2>16. CASE PostFails(s)
    BY <2>16, <2>a DEF PostFails, Trouble, GivesUp, Typed, TypeGroups, TypeTask,
       TypeClient, TypeEntry, Persisted, SavesItsToken, StartHasClient, Starting,
       YoungerThanPurge, Alone
  <2>17. CASE ListenFails(s)
    BY <2>17, <2>a DEF ListenFails, Trouble, GivesUp, Typed, TypeGroups, TypeTask,
       TypeClient, TypeEntry, Persisted, SavesItsToken, StartHasClient, Starting,
       YoungerThanPurge, Alone
  <2>18. CASE PurgeRaises(s)
    BY <2>18, <2>a DEF PurgeRaises, Trouble, Typed, TypeGroups, TypeTask, TypeClient,
       TypeEntry, Persisted, SavesItsToken, StartHasClient, Starting, YoungerThanPurge,
       Alone
  <2>19. CASE Iterates(s)
    BY <2>19, <2>a, SMTT(60) DEF Iterates, NeedsHard, Typed, TypeGroups, TypeTask, TypeClient,
       TypeEntry, Persisted, SavesItsToken, StartHasClient, Starting, YoungerThanPurge,
       Alone
  <2>20. CASE PollEnds(s)
    BY <2>20, <2>a DEF PollEnds, ListenerDown, Typed, TypeGroups, TypeTask, TypeClient,
       TypeEntry, Persisted, SavesItsToken, StartHasClient, Starting, YoungerThanPurge,
       Alone
  <2>21. CASE Stops(s)
    BY <2>21, <2>a DEF Stops, PushStopped, Typed, TypeGroups, TypeTask, TypeClient,
       TypeEntry, Persisted, SavesItsToken, StartHasClient, Starting, YoungerThanPurge,
       Alone
  <2>22. CASE Cancelled(s)
    BY <2>22, <2>a, SMTT(60) DEF Cancelled, FreshLocals, Alive, Typed, TypeGroups, TypeTask,
       TypeClient, TypeEntry, Persisted, SavesItsToken, StartHasClient, Starting,
       YoungerThanPurge, Alone
  <2>23. CASE Unwinds(s)
    BY <2>23, <2>a DEF Unwinds, PushStopped, Typed, TypeGroups, TypeTask, TypeClient,
       TypeEntry, Persisted, SavesItsToken, StartHasClient, Starting, YoungerThanPurge,
       Alone
  <2>. QED BY <1>1, <2>1, <2>2, <2>3, <2>4, <2>5, <2>6, <2>7, <2>8, <2>9, <2>10, <2>11,
     <2>12, <2>13, <2>14, <2>15, <2>16, <2>17, <2>18, <2>19, <2>20, <2>21, <2>22, <2>23 DEF
     Starts, Heals, Fails, Supervises
<1>2. CASE EnsureRuns
  BY <1>2, EnsureStep DEF EnsureRuns, NoSupervisor, Typed, TypeGroups, TypeTask,
     TypeClient, TypeEntry, Persisted, SavesItsToken, StartHasClient, Starting,
     YoungerThanPurge
<1>3. CASE UnloadEnds
  BY <1>3 DEF UnloadEnds, Typed, TypeGroups, TypeTask, TypeClient, TypeEntry, Persisted,
     SavesItsToken, StartHasClient, Starting, YoungerThanPurge
<1>4. ASSUME NEW c \in Clients, CallbackRuns(c)
      PROVE  SavesItsToken'
  BY <1>4 DEF CallbackRuns, Typed, TypeGroups, TypeTask, TypeClient, TypeEntry, Persisted,
     SavesItsToken, StartHasClient, Starting, YoungerThanPurge
<1>5. ASSUME NEW c \in Clients, Persists(c)
      PROVE  SavesItsToken'
  BY <1>5 DEF Persists, Typed, TypeGroups, TypeTask, TypeClient, TypeEntry, Persisted,
     SavesItsToken, StartHasClient, Starting, YoungerThanPurge
<1>6. CASE \/ Tick \/ (\E m \in {"auto", "polling"} : SelectsMode(m)) \/ Unloads
           \/ (\E p \in Stoppers : SupervisorEnded(p))
           \/ (\E p \in Stoppers : StopperStops(p)) \/ SelectRestarts \/ Reloads
           \/ (\E c \in Clients : Dies(c)) \/ (\E c \in Clients : PushArrives(c))
           \/ Condemns \/ StaleExpires \/ UNCHANGED vars
  BY <1>6 DEF Tick, SelectsMode, Unloads, SupervisorEnded, StopperStops, SelectRestarts,
     Reloads, Dies, PushArrives, Condemns, StaleExpires, BeginsStop, BeginsPushStop,
     NoSupervisor, PushStopped, Alive, vars, Persisted, SavesItsToken
<1>. QED BY <1>1, <1>2, <1>3, <1>4, <1>5, <1>6 DEF Next, Stopper

\* What was purged is older than everything that may still be saved.
LEMMA PersistedInvariant ==
  ASSUME ~TickOverlaps
  PROVE  Spec => []Persisted
<1>1. Init => Persisted
  BY DEF Init, Persisted, YoungerThanPurge, SavesItsToken
<1>2. Typed /\ Supervised /\ Stopped /\ Persisted /\ [Next]_vars => Persisted'
  BY YoungerKept, SavesKept DEF Persisted
<1>. QED BY <1>1, <1>2, TypedInvariant, SupervisedInvariant, StoppedInvariant, PTL DEF Spec

\* A logout is followed by the write that forgets the token.
LEMMA EntryKept ==
  ASSUME ~TickOverlaps, ~PurgeMayBeCut, Typed, Supervised, Stopped, Persisted, PushedTo, [Next]_vars
  PROVE  BoschHasEntry'
<1>1. ASSUME NEW s \in Sups, Starts(s) \/ Heals(s) \/ Fails(s) \/ Supervises(s)
      PROVE  BoschHasEntry'
  <2>a. Alone(s)
    BY <1>1, ActsAlone
  <2>1. CASE StartLocks(s)
    BY <2>1, <2>a DEF StartLocks, StartFailed, Typed, TypeGroups, TypeTask, TypeClient,
       TypeEntry, PushedTo, BoschHasEntry, BoschHasToken, Alone
  <2>2. CASE ClientMade(s)
    BY <2>2, <2>a DEF ClientMade, Typed, TypeGroups, TypeTask, TypeClient, TypeEntry,
       PushedTo, BoschHasEntry, BoschHasToken, Alone
  <2>3. CASE ChecksIn(s)
    BY <2>3, <2>a DEF ChecksIn, Typed, TypeGroups, TypeTask, TypeClient, TypeEntry,
       PushedTo, BoschHasEntry, BoschHasToken, Alone
  <2>4. CASE Registered(s)
    BY <2>4, <2>a DEF Registered, token, Typed, TypeGroups, TypeTask, TypeClient,
       TypeEntry, PushedTo, BoschHasEntry, BoschHasToken, Alone
  <2>5. CASE PostConfirmed(s)
    BY <2>5, <2>a DEF PostConfirmed, token, Typed, TypeGroups, TypeTask, TypeClient,
       TypeEntry, PushedTo, BoschHasEntry, BoschHasToken, Alone
  <2>6. CASE DropsOld(s)
    BY <2>6, <2>a DEF DropsOld, Trouble, Typed, TypeGroups, TypeTask, TypeClient,
       TypeEntry, PushedTo, BoschHasEntry, BoschHasToken, Alone
  <2>7. CASE Listens(s)
    BY <2>7, <2>a DEF Listens, Typed, TypeGroups, TypeTask, TypeClient, TypeEntry,
       PushedTo, BoschHasEntry, BoschHasToken, Alone
  <2>8. CASE GivenUp(s)
    BY <2>8, <2>a DEF GivenUp, StartFailed, Typed, TypeGroups, TypeTask, TypeClient,
       TypeEntry, PushedTo, BoschHasEntry, BoschHasToken, Alone
  <2>9. CASE HealWaitEnds(s)
    BY <2>9, <2>a DEF HealWaitEnds, Typed, TypeGroups, TypeTask, TypeClient, TypeEntry,
       PushedTo, BoschHasEntry, BoschHasToken, Alone
  <2>10. CASE PurgeLocks(s)
    BY <2>10, <2>a DEF PurgeLocks, Typed, TypeGroups, TypeTask, TypeClient, TypeEntry,
       PushedTo, BoschHasEntry, BoschHasToken, Alone
  <2>11. CASE PurgeStops(s)
    BY <2>11, <2>a DEF PurgeStops, PushStopped, Typed, TypeGroups, TypeTask, TypeClient,
       TypeEntry, PushedTo, BoschHasEntry, BoschHasToken, Alone
  <2>12. CASE LogsOut(s)
    BY <2>12, <2>a DEF LogsOut, Trouble, Typed, TypeGroups, TypeTask, TypeClient,
       TypeEntry, PushedTo, BoschHasEntry, BoschHasToken, Alone
  <2>13. CASE Purges(s)
    BY <2>13, <2>a DEF Purges, Typed, TypeGroups, TypeTask, TypeClient, TypeEntry,
       PushedTo, BoschHasEntry, BoschHasToken, Alone
  <2>14. CASE ConfigFails(s)
    BY <2>14, <2>a DEF ConfigFails, Trouble, StartFailed, Typed, TypeGroups, TypeTask,
       TypeClient, TypeEntry, PushedTo, BoschHasEntry, BoschHasToken, Alone
  <2>15. CASE CheckinFails(s)
    BY <2>15, <2>a DEF CheckinFails, Trouble, GivesUp, Typed, TypeGroups, TypeTask,
       TypeClient, TypeEntry, PushedTo, BoschHasEntry, BoschHasToken, Alone
  <2>16. CASE PostFails(s)
    BY <2>16, <2>a DEF PostFails, Trouble, GivesUp, Typed, TypeGroups, TypeTask,
       TypeClient, TypeEntry, PushedTo, BoschHasEntry, BoschHasToken, Alone
  <2>17. CASE ListenFails(s)
    BY <2>17, <2>a DEF ListenFails, Trouble, GivesUp, Typed, TypeGroups, TypeTask,
       TypeClient, TypeEntry, PushedTo, BoschHasEntry, BoschHasToken, Alone
  <2>18. CASE PurgeRaises(s)
    BY <2>18, <2>a DEF PurgeRaises, Trouble, Typed, TypeGroups, TypeTask, TypeClient,
       TypeEntry, PushedTo, BoschHasEntry, BoschHasToken, Alone
  <2>19. CASE Iterates(s)
    BY <2>19, <2>a DEF Iterates, NeedsHard, Typed, TypeGroups, TypeTask, TypeClient,
       TypeEntry, PushedTo, BoschHasEntry, BoschHasToken, Alone
  <2>20. CASE PollEnds(s)
    BY <2>20, <2>a DEF PollEnds, ListenerDown, Typed, TypeGroups, TypeTask, TypeClient,
       TypeEntry, PushedTo, BoschHasEntry, BoschHasToken, Alone
  <2>21. CASE Stops(s)
    BY <2>21, <2>a DEF Stops, PushStopped, Typed, TypeGroups, TypeTask, TypeClient,
       TypeEntry, PushedTo, BoschHasEntry, BoschHasToken, Alone
  <2>22. CASE Cancelled(s)
    BY <2>22, <2>a DEF Cancelled, FreshLocals, Alive, Typed, TypeGroups, TypeTask,
       TypeClient, TypeEntry, PushedTo, BoschHasEntry, BoschHasToken, Alone
  <2>23. CASE Unwinds(s)
    BY <2>23, <2>a DEF Unwinds, PushStopped, Typed, TypeGroups, TypeTask, TypeClient,
       TypeEntry, PushedTo, BoschHasEntry, BoschHasToken, Alone
  <2>. QED BY <1>1, <2>1, <2>2, <2>3, <2>4, <2>5, <2>6, <2>7, <2>8, <2>9, <2>10, <2>11,
     <2>12, <2>13, <2>14, <2>15, <2>16, <2>17, <2>18, <2>19, <2>20, <2>21, <2>22, <2>23 DEF
     Starts, Heals, Fails, Supervises
<1>2. CASE EnsureRuns
  <2>1. UNCHANGED <<regTok, bosch>>
    BY <1>2 DEF EnsureRuns
  <2>2. (\A s \in Sups : pc'[s] # "purge") => \A s \in Sups : pc[s] # "purge"
    BY <1>2, EnsureStep DEF NoneAlive, Alive
  <2>. QED BY <2>1, <2>2 DEF PushedTo, BoschHasEntry
<1>3. CASE \/ Tick \/ (\E m \in {"auto", "polling"} : SelectsMode(m)) \/ Unloads
           \/ (\E p \in Stoppers : SupervisorEnded(p))
           \/ (\E p \in Stoppers : StopperStops(p)) \/ SelectRestarts \/ UnloadEnds
           \/ Reloads \/ (\E c \in Clients : Dies(c)) \/ (\E c \in Clients : PushArrives(c))
           \/ (\E c \in Clients : CallbackRuns(c)) \/ (\E c \in Clients : Persists(c))
           \/ Condemns \/ StaleExpires \/ UNCHANGED vars
  BY <1>3 DEF Tick, SelectsMode, Unloads, SupervisorEnded, StopperStops, SelectRestarts,
     UnloadEnds, Reloads, Dies, PushArrives, CallbackRuns, Persists, Condemns,
     StaleExpires, BeginsStop, BeginsPushStop, NoSupervisor, PushStopped, Alive, vars,
     PushedTo, BoschHasEntry
<1>. QED BY <1>1, <1>2, <1>3 DEF Next, Stopper

\* What a start logs out is not the token it has just posted.
LEMMA TokenPushedTo ==
  ASSUME ~TickOverlaps, ~PurgeMayBeCut, Typed, Supervised, Stopped, Persisted, PushedTo, [Next]_vars
  PROVE  BoschHasToken'
<1>1. ASSUME NEW s \in Sups, Starts(s) \/ Heals(s) \/ Fails(s) \/ Supervises(s)
      PROVE  BoschHasToken'
  <2>a. Alone(s)
    BY <1>1, ActsAlone
  <2>1. CASE StartLocks(s)
    BY <2>1, <2>a DEF StartLocks, StartFailed, Typed, TypeGroups, TypeTask, TypeClient,
       TypeEntry, PushedTo, BoschHasToken, BoschHasEntry, TokenThere, KnowsToken, Starting,
       StartHasClient, Alone
  <2>2. CASE ClientMade(s)
    BY <2>2, <2>a DEF ClientMade, Typed, TypeGroups, TypeTask, TypeClient, TypeEntry,
       PushedTo, BoschHasToken, BoschHasEntry, TokenThere, KnowsToken, Starting,
       StartHasClient, Alone
  <2>3. CASE ChecksIn(s)
    BY <2>3, <2>a DEF ChecksIn, Typed, TypeGroups, TypeTask, TypeClient, TypeEntry,
       PushedTo, BoschHasToken, BoschHasEntry, TokenThere, KnowsToken, Starting,
       StartHasClient, Alone
  <2>4. CASE Registered(s)
    <3>1. token = tok[clientNo] /\ token # 0
      BY <2>4 DEF Registered, token, Typed, TokenThere, KnowsToken, Starting, StartHasClient
    <3>2. \A r \in Sups : r # s => pc'[r] \in {"none", "done"}
      BY <2>4, <2>a DEF Registered, Alone, Typed, TypeGroups, TypeTask
    <3>3. UNCHANGED <<clientNo, tok, regTok, loc>>
      BY <2>4 DEF Registered
    <3>4. CASE regTok = token
      <4>1. regTok \in bosch
        BY <2>4, <2>a, <3>1, <3>4 DEF Registered, Alone, PushedTo, BoschHasEntry
      <4>2. pc'[s] = "listen" /\ UNCHANGED bosch
        BY <2>4, <3>4 DEF Registered, Typed, TypeGroups, TypeTask
      <4>. QED BY <3>1, <3>2, <3>3, <3>4, <4>1, <4>2 DEF BoschHasToken
    <3>5. CASE regTok # token
      <4>1. pc'[s] = "posted" /\ bosch' = bosch \cup {token}
        BY <2>4, <3>5 DEF Registered, Typed, TypeGroups, TypeTask
      <4>. QED BY <3>1, <3>2, <3>3, <3>5, <4>1 DEF BoschHasToken
    <3>. QED BY <3>4, <3>5
  <2>5. CASE PostConfirmed(s)
    <3>1. token = tok[clientNo] /\ token \in bosch /\ regTok # token
      BY <2>5 DEF PostConfirmed, token, Typed, StartHasClient, Starting, PushedTo, BoschHasToken
    <3>2. \A r \in Sups : r # s => pc'[r] \in {"none", "done"}
      BY <2>5, <2>a DEF PostConfirmed, Alone, Typed, TypeGroups, TypeTask
    <3>3. UNCHANGED <<clientNo, tok, bosch>> /\ regTok' = token
      BY <2>5 DEF PostConfirmed
    <3>4. pc'[s] \in {"listen", "dropOld"} /\ loc'[s].old = regTok
      BY <2>5 DEF PostConfirmed, Typed, TypeGroups, TypeTask, TypeLoc, LocType
    <3>. QED BY <3>1, <3>2, <3>3, <3>4 DEF BoschHasToken
  <2>6. CASE DropsOld(s)
    BY <2>6, <2>a DEF DropsOld, Trouble, Typed, TypeGroups, TypeTask, TypeClient,
       TypeEntry, PushedTo, BoschHasToken, BoschHasEntry, TokenThere, KnowsToken, Starting,
       StartHasClient, Alone
  <2>7. CASE Listens(s)
    BY <2>7, <2>a DEF Listens, Typed, TypeGroups, TypeTask, TypeClient, TypeEntry,
       PushedTo, BoschHasToken, BoschHasEntry, TokenThere, KnowsToken, Starting,
       StartHasClient, Alone
  <2>8. CASE GivenUp(s)
    BY <2>8, <2>a DEF GivenUp, StartFailed, Typed, TypeGroups, TypeTask, TypeClient,
       TypeEntry, PushedTo, BoschHasToken, BoschHasEntry, TokenThere, KnowsToken, Starting,
       StartHasClient, Alone
  <2>9. CASE HealWaitEnds(s)
    BY <2>9, <2>a DEF HealWaitEnds, Typed, TypeGroups, TypeTask, TypeClient, TypeEntry,
       PushedTo, BoschHasToken, BoschHasEntry, TokenThere, KnowsToken, Starting,
       StartHasClient, Alone
  <2>10. CASE PurgeLocks(s)
    BY <2>10, <2>a DEF PurgeLocks, Typed, TypeGroups, TypeTask, TypeClient, TypeEntry,
       PushedTo, BoschHasToken, BoschHasEntry, TokenThere, KnowsToken, Starting,
       StartHasClient, Alone
  <2>11. CASE PurgeStops(s)
    BY <2>11, <2>a DEF PurgeStops, PushStopped, Typed, TypeGroups, TypeTask, TypeClient,
       TypeEntry, PushedTo, BoschHasToken, BoschHasEntry, TokenThere, KnowsToken, Starting,
       StartHasClient, Alone
  <2>12. CASE LogsOut(s)
    BY <2>12, <2>a DEF LogsOut, Trouble, Typed, TypeGroups, TypeTask, TypeClient,
       TypeEntry, PushedTo, BoschHasToken, BoschHasEntry, TokenThere, KnowsToken, Starting,
       StartHasClient, Alone
  <2>13. CASE Purges(s)
    BY <2>13, <2>a DEF Purges, Typed, TypeGroups, TypeTask, TypeClient, TypeEntry,
       PushedTo, BoschHasToken, BoschHasEntry, TokenThere, KnowsToken, Starting,
       StartHasClient, Alone
  <2>14. CASE ConfigFails(s)
    BY <2>14, <2>a DEF ConfigFails, Trouble, StartFailed, Typed, TypeGroups, TypeTask,
       TypeClient, TypeEntry, PushedTo, BoschHasToken, BoschHasEntry, TokenThere,
       KnowsToken, Starting, StartHasClient, Alone
  <2>15. CASE CheckinFails(s)
    BY <2>15, <2>a DEF CheckinFails, Trouble, GivesUp, Typed, TypeGroups, TypeTask,
       TypeClient, TypeEntry, PushedTo, BoschHasToken, BoschHasEntry, TokenThere,
       KnowsToken, Starting, StartHasClient, Alone
  <2>16. CASE PostFails(s)
    BY <2>16, <2>a DEF PostFails, Trouble, GivesUp, Typed, TypeGroups, TypeTask,
       TypeClient, TypeEntry, PushedTo, BoschHasToken, BoschHasEntry, TokenThere,
       KnowsToken, Starting, StartHasClient, Alone
  <2>17. CASE ListenFails(s)
    BY <2>17, <2>a DEF ListenFails, Trouble, GivesUp, Typed, TypeGroups, TypeTask,
       TypeClient, TypeEntry, PushedTo, BoschHasToken, BoschHasEntry, TokenThere,
       KnowsToken, Starting, StartHasClient, Alone
  <2>18. CASE PurgeRaises(s)
    BY <2>18, <2>a DEF PurgeRaises, Trouble, Typed, TypeGroups, TypeTask, TypeClient,
       TypeEntry, PushedTo, BoschHasToken, BoschHasEntry, TokenThere, KnowsToken, Starting,
       StartHasClient, Alone
  <2>19. CASE Iterates(s)
    BY <2>19, <2>a DEF Iterates, NeedsHard, Typed, TypeGroups, TypeTask, TypeClient,
       TypeEntry, PushedTo, BoschHasToken, BoschHasEntry, TokenThere, KnowsToken, Starting,
       StartHasClient, Alone
  <2>20. CASE PollEnds(s)
    BY <2>20, <2>a DEF PollEnds, ListenerDown, Typed, TypeGroups, TypeTask, TypeClient,
       TypeEntry, PushedTo, BoschHasToken, BoschHasEntry, TokenThere, KnowsToken, Starting,
       StartHasClient, Alone
  <2>21. CASE Stops(s)
    BY <2>21, <2>a DEF Stops, PushStopped, Typed, TypeGroups, TypeTask, TypeClient,
       TypeEntry, PushedTo, BoschHasToken, BoschHasEntry, TokenThere, KnowsToken, Starting,
       StartHasClient, Alone
  <2>22. CASE Cancelled(s)
    BY <2>22, <2>a DEF Cancelled, FreshLocals, Alive, Typed, TypeGroups, TypeTask,
       TypeClient, TypeEntry, PushedTo, BoschHasToken, BoschHasEntry, TokenThere,
       KnowsToken, Starting, StartHasClient, Alone
  <2>23. CASE Unwinds(s)
    BY <2>23, <2>a DEF Unwinds, PushStopped, Typed, TypeGroups, TypeTask, TypeClient,
       TypeEntry, PushedTo, BoschHasToken, BoschHasEntry, TokenThere, KnowsToken, Starting,
       StartHasClient, Alone
  <2>. QED BY <1>1, <2>1, <2>2, <2>3, <2>4, <2>5, <2>6, <2>7, <2>8, <2>9, <2>10, <2>11,
     <2>12, <2>13, <2>14, <2>15, <2>16, <2>17, <2>18, <2>19, <2>20, <2>21, <2>22, <2>23 DEF
     Starts, Heals, Fails, Supervises
<1>2. CASE EnsureRuns
  BY <1>2, EnsureStep DEF EnsureRuns, NoSupervisor, Typed, TypeGroups, TypeTask,
     TypeClient, TypeEntry, PushedTo, BoschHasToken, BoschHasEntry, TokenThere, KnowsToken,
     Starting, StartHasClient
<1>3. ASSUME NEW c \in Clients, PushArrives(c)
      PROVE  BoschHasToken'
  <2>1. \A s \in Sups : loc'[s].old = loc[s].old
    BY <1>3 DEF PushArrives, Typed, TypeGroups, TypeLoc, LocType
  <2>2. UNCHANGED <<pc, clientNo, tok, bosch, regTok>>
    BY <1>3 DEF PushArrives
  <2>. QED BY <2>1, <2>2 DEF PushedTo, BoschHasToken
<1>4. CASE \/ Tick \/ (\E m \in {"auto", "polling"} : SelectsMode(m)) \/ Unloads
           \/ (\E p \in Stoppers : SupervisorEnded(p))
           \/ (\E p \in Stoppers : StopperStops(p)) \/ SelectRestarts \/ UnloadEnds
           \/ Reloads \/ (\E c \in Clients : Dies(c))
           \/ (\E c \in Clients : CallbackRuns(c)) \/ (\E c \in Clients : Persists(c))
           \/ Condemns \/ StaleExpires \/ UNCHANGED vars
  BY <1>4 DEF Tick, SelectsMode, Unloads, SupervisorEnded, StopperStops, SelectRestarts,
     UnloadEnds, Reloads, Dies, CallbackRuns, Persists, Condemns, StaleExpires, BeginsStop,
     BeginsPushStop, NoSupervisor, PushStopped, vars, PushedTo, BoschHasToken
<1>. QED BY <1>1, <1>2, <1>3, <1>4 DEF Next, Stopper

\* A listener that is up has the token its start posted.
LEMMA ListenerPushedTo ==
  ASSUME ~TickOverlaps, ~PurgeMayBeCut, Typed, Supervised, Stopped, Persisted, PushedTo, [Next]_vars
  PROVE  ListensWhereBoschPushes'
<1>1. ASSUME NEW s \in Sups, Starts(s) \/ Heals(s) \/ Fails(s) \/ Supervises(s)
      PROVE  ListensWhereBoschPushes'
  <2>a. Alone(s)
    BY <1>1, ActsAlone
  <2>1. CASE ClientMade(s)
    BY <2>1, <2>a DEF ClientMade, Typed, TypeGroups, TypeTask, TypeClient, TypeEntry,
       PushedTo, ListensWhereBoschPushes, ListenerDown, BoschHasToken, BoschHasEntry,
       Stopped, OnlyTheClientListens, NoClient, RunningClient, Persisted, YoungerThanPurge,
       Starting, StartHasClient
  <2>2. CASE ChecksIn(s)
    BY <2>2, <2>a DEF ChecksIn, Typed, TypeGroups, TypeTask, TypeClient, TypeEntry,
       PushedTo, ListensWhereBoschPushes, ListenerDown, BoschHasToken, BoschHasEntry,
       Stopped, OnlyTheClientListens, NoClient, RunningClient, Persisted, YoungerThanPurge,
       Starting, StartHasClient
  <2>3. CASE Registered(s)
    BY <2>3, <2>a DEF Registered, token, Typed, TypeGroups, TypeTask, TypeClient,
       TypeEntry, PushedTo, ListensWhereBoschPushes, ListenerDown, BoschHasToken,
       BoschHasEntry, Stopped, OnlyTheClientListens, NoClient, RunningClient, Persisted,
       YoungerThanPurge, Starting, StartHasClient
  <2>4. CASE DropsOld(s)
    BY <2>4, <2>a DEF DropsOld, Trouble, Typed, TypeGroups, TypeTask, TypeClient,
       TypeEntry, PushedTo, ListensWhereBoschPushes, ListenerDown, BoschHasToken,
       BoschHasEntry, Stopped, OnlyTheClientListens, NoClient, RunningClient, Persisted,
       YoungerThanPurge, Starting, StartHasClient
  <2>5. CASE Listens(s)
    BY <2>5, <2>a DEF Listens, Typed, TypeGroups, TypeTask, TypeClient, TypeEntry,
       PushedTo, ListensWhereBoschPushes, ListenerDown, BoschHasToken, BoschHasEntry,
       Stopped, OnlyTheClientListens, NoClient, RunningClient, Persisted, YoungerThanPurge,
       Starting, StartHasClient
  <2>6. CASE GivenUp(s)
    BY <2>6, <2>a DEF GivenUp, StartFailed, Typed, TypeGroups, TypeTask, TypeClient,
       TypeEntry, PushedTo, ListensWhereBoschPushes, ListenerDown, BoschHasToken,
       BoschHasEntry, Stopped, OnlyTheClientListens, NoClient, RunningClient, Persisted,
       YoungerThanPurge, Starting, StartHasClient
  <2>7. CASE PurgeStops(s)
    BY <2>7, <2>a DEF PurgeStops, PushStopped, Typed, TypeGroups, TypeTask, TypeClient,
       TypeEntry, PushedTo, ListensWhereBoschPushes, ListenerDown, BoschHasToken,
       BoschHasEntry, Stopped, OnlyTheClientListens, NoClient, RunningClient, Persisted,
       YoungerThanPurge, Starting, StartHasClient
  <2>8. CASE LogsOut(s)
    BY <2>8, <2>a DEF LogsOut, Trouble, Typed, TypeGroups, TypeTask, TypeClient, TypeEntry,
       PushedTo, ListensWhereBoschPushes, ListenerDown, BoschHasToken, BoschHasEntry,
       Stopped, OnlyTheClientListens, NoClient, RunningClient, Persisted, YoungerThanPurge,
       Starting, StartHasClient
  <2>9. CASE CheckinFails(s)
    BY <2>9, <2>a DEF CheckinFails, Trouble, GivesUp, Typed, TypeGroups, TypeTask,
       TypeClient, TypeEntry, PushedTo, ListensWhereBoschPushes, ListenerDown,
       BoschHasToken, BoschHasEntry, Stopped, OnlyTheClientListens, NoClient,
       RunningClient, Persisted, YoungerThanPurge, Starting, StartHasClient
  <2>10. CASE PostFails(s)
    BY <2>10, <2>a DEF PostFails, Trouble, GivesUp, Typed, TypeGroups, TypeTask,
       TypeClient, TypeEntry, PushedTo, ListensWhereBoschPushes, ListenerDown,
       BoschHasToken, BoschHasEntry, Stopped, OnlyTheClientListens, NoClient,
       RunningClient, Persisted, YoungerThanPurge, Starting, StartHasClient
  <2>11. CASE ListenFails(s)
    BY <2>11, <2>a DEF ListenFails, Trouble, GivesUp, Typed, TypeGroups, TypeTask,
       TypeClient, TypeEntry, PushedTo, ListensWhereBoschPushes, ListenerDown,
       BoschHasToken, BoschHasEntry, Stopped, OnlyTheClientListens, NoClient,
       RunningClient, Persisted, YoungerThanPurge, Starting, StartHasClient
  <2>12. CASE Stops(s)
    BY <2>12, <2>a DEF Stops, PushStopped, Typed, TypeGroups, TypeTask, TypeClient,
       TypeEntry, PushedTo, ListensWhereBoschPushes, ListenerDown, BoschHasToken,
       BoschHasEntry, Stopped, OnlyTheClientListens, NoClient, RunningClient, Persisted,
       YoungerThanPurge, Starting, StartHasClient
  <2>13. CASE Cancelled(s)
    BY <2>13, <2>a DEF Cancelled, FreshLocals, Alive, Typed, TypeGroups, TypeTask,
       TypeClient, TypeEntry, PushedTo, ListensWhereBoschPushes, ListenerDown,
       BoschHasToken, BoschHasEntry, Stopped, OnlyTheClientListens, NoClient,
       RunningClient, Persisted, YoungerThanPurge, Starting, StartHasClient
  <2>14. CASE Unwinds(s)
    BY <2>14, <2>a DEF Unwinds, PushStopped, Typed, TypeGroups, TypeTask, TypeClient,
       TypeEntry, PushedTo, ListensWhereBoschPushes, ListenerDown, BoschHasToken,
       BoschHasEntry, Stopped, OnlyTheClientListens, NoClient, RunningClient, Persisted,
       YoungerThanPurge, Starting, StartHasClient
  <2>15. CASE \/ StartLocks(s) \/ PostConfirmed(s) \/ HealWaitEnds(s) \/ PurgeLocks(s)
              \/ Purges(s) \/ ConfigFails(s) \/ PurgeRaises(s) \/ Iterates(s) \/ PollEnds(s)
    <3>1. UNCHANGED <<running, client, cl, tok, bosch>>
      BY <2>15 DEF StartLocks, PostConfirmed, HealWaitEnds, PurgeLocks, Purges,
         ConfigFails, PurgeRaises, Iterates, PollEnds, StartFailed, token, Trouble,
         NeedsHard
    <3>. QED BY <3>1 DEF PushedTo, ListensWhereBoschPushes, ListenerDown
  <2>. QED BY <1>1, <2>1, <2>2, <2>3, <2>4, <2>5, <2>6, <2>7, <2>8, <2>9, <2>10, <2>11,
     <2>12, <2>13, <2>14, <2>15 DEF Starts, Heals, Fails, Supervises
<1>2. ASSUME NEW p \in Stoppers, StopperStops(p)
      PROVE  ListensWhereBoschPushes'
  BY <1>2 DEF StopperStops, PushStopped, Typed, TypeGroups, TypeTask, TypeClient,
     TypeEntry, PushedTo, ListensWhereBoschPushes, ListenerDown, BoschHasToken,
     BoschHasEntry, Stopped, OnlyTheClientListens, NoClient, RunningClient, Persisted,
     YoungerThanPurge, Starting, StartHasClient
<1>3. CASE Reloads
  BY <1>3 DEF Reloads, Typed, TypeGroups, TypeTask, TypeClient, TypeEntry, PushedTo,
     ListensWhereBoschPushes, ListenerDown, BoschHasToken, BoschHasEntry, Stopped,
     OnlyTheClientListens, NoClient, RunningClient, Persisted, YoungerThanPurge, Starting,
     StartHasClient
<1>4. ASSUME NEW c \in Clients, Dies(c)
      PROVE  ListensWhereBoschPushes'
  BY <1>4 DEF Dies, Typed, TypeGroups, TypeTask, TypeClient, TypeEntry, PushedTo,
     ListensWhereBoschPushes, ListenerDown, BoschHasToken, BoschHasEntry, Stopped,
     OnlyTheClientListens, NoClient, RunningClient, Persisted, YoungerThanPurge, Starting,
     StartHasClient
<1>5. CASE \/ Tick \/ EnsureRuns \/ (\E m \in {"auto", "polling"} : SelectsMode(m))
           \/ Unloads \/ (\E p \in Stoppers : SupervisorEnded(p)) \/ SelectRestarts
           \/ UnloadEnds \/ (\E c \in Clients : PushArrives(c))
           \/ (\E c \in Clients : CallbackRuns(c)) \/ (\E c \in Clients : Persists(c))
           \/ Condemns \/ StaleExpires \/ UNCHANGED vars
  <2>1. UNCHANGED <<running, client, cl, tok, bosch>>
    BY <1>5 DEF Tick, EnsureRuns, SelectsMode, Unloads, SupervisorEnded, SelectRestarts,
       UnloadEnds, PushArrives, CallbackRuns, Persists, Condemns, StaleExpires,
       NoSupervisor, BeginsStop, BeginsPushStop, Alive, vars
  <2>. QED BY <2>1 DEF PushedTo, ListensWhereBoschPushes, ListenerDown
<1>. QED BY <1>1, <1>2, <1>3, <1>4, <1>5 DEF Next, Stopper

\* The entry and a started listener have a token that Bosch pushes to.
LEMMA PushedToInvariant ==
  ASSUME ~TickOverlaps, ~PurgeMayBeCut
  PROVE  Spec => []PushedTo
<1>1. Init => PushedTo
  BY DEF Init, PushedTo, BoschHasEntry, BoschHasToken, ListensWhereBoschPushes
<1>2. Typed /\ Supervised /\ Stopped /\ Persisted /\ PushedTo /\ [Next]_vars => PushedTo'
  BY EntryKept, TokenPushedTo, ListenerPushedTo DEF PushedTo
<1>. QED BY <1>1, <1>2, TypedInvariant, SupervisedInvariant, StoppedInvariant, PersistedInvariant, PTL DEF Spec

(***************************************************************************)
(* However often the tick, the setup and the select ask, and wherever an   *)
(* unload or a change of the push mode cancels: at most one supervisor of  *)
(* the entry lives.                                                        *)
(***************************************************************************)
THEOREM AtMostOneSupervisor ==
  ASSUME ~TickOverlaps
  PROVE  Spec => []OneSupervisor
<1>1. Supervised => OneSupervisor
  BY DEF Supervised, OnlyTheTask, OneSupervisor
<1>. QED BY <1>1, SupervisedInvariant, PTL

(***************************************************************************)
(* No client listens but the coordinator's, and after an unload no client  *)
(* listens and no supervisor lives, wherever the cancellation hit.         *)
(***************************************************************************)
THEOREM UnloadLeavesNothing ==
  ASSUME ~TickOverlaps
  PROVE  Spec => []NothingLeftBehind
<1>1. Supervised /\ Stopped => NothingLeftBehind
  BY DEF Supervised, StopperKnows, NoneAlive, Stopped, OnlyTheClientListens, NoClient,
     NothingLeftBehind, NoStrayListener, NothingSurvivesUnload
<1>. QED BY <1>1, SupervisedInvariant, StoppedInvariant, PTL

(***************************************************************************)
(* Purged credentials never come back through a late callback, however     *)
(* many clients were replaced since.                                       *)
(***************************************************************************)
THEOREM PurgeIsFinal ==
  ASSUME ~TickOverlaps
  PROVE  Spec => []PurgedCredsStayAway
<1>1. Persisted => PurgedCredsStayAway
  BY DEF Persisted, YoungerThanPurge, PurgedCredsStayAway
<1>. QED BY <1>1, PersistedInvariant, PTL

(***************************************************************************)
(* A running listener has a token Bosch pushes to, and the entry has no    *)
(* credentials that were purged: unless a purge is cut between the logout  *)
(* and the write.                                                          *)
(***************************************************************************)
THEOREM RegistrationStaysSound ==
  ASSUME ~TickOverlaps, ~PurgeMayBeCut
  PROVE  Spec => []RegistrationIsSound
<1>1. Persisted /\ PushedTo => RegistrationIsSound
  BY DEF Persisted, YoungerThanPurge, PurgedCredsStayAway, PushedTo, RegistrationIsSound
<1>. QED BY <1>1, PersistedInvariant, PushedToInvariant, PTL

=============================================================================
