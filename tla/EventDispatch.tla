---------------------------- MODULE EventDispatch ----------------------------
(***************************************************************************)
(* How a camera event becomes an alert.  Two paths read the cloud's list   *)
(* of events and fire the automations: the handler of an FCM push          *)
(* (fcm.py) and the coordinator's poll (event_polling.py fetches, then     *)
(* event_dispatch.py dispatches).  They share, without a lock, the id last *)
(* dispatched per camera, the cached list and the ids alerted within 60 s. *)
(*                                                                         *)
(* An action is what the event loop runs between two awaits.  The events   *)
(* of a camera are numbered in the order they happen; a list is            *)
(* represented by its newest event, the only one either path dispatches.   *)
(*                                                                         *)
(* The state starts after the first tick of the coordinator, which fills   *)
(* coordinator.data and polls no events.  Left out: the routing of an      *)
(* alert once it is dispatched, 401 refreshes, mark-read by the push       *)
(* handler (a task of its own that nothing waits for).                     *)
(***************************************************************************)
EXTENDS Integers, Sequences, FiniteSets

CONSTANTS
    NumCams,        \* number of cameras, in the order the cloud lists them
    Handlers,       \* bound: push handlers that may run at once
    Before,         \* events of each camera that predate this session
    MaxEvents,      \* bound: events of each camera
    MarkRead,       \* option mark_events_read
    MayFail,        \* whether the cloud may fail to answer
    ListenerMay     \* what the push listener may do: "stop", "quiet"

ASSUME EventDispatchAssumption ==
    /\ NumCams \in Nat \ {0}
    /\ Before \in Nat
    /\ MaxEvents \in Nat
    /\ Before <= MaxEvents
    /\ MarkRead \in BOOLEAN
    /\ MayFail \in BOOLEAN
    /\ ListenerMay \subseteq {"stop", "quiet"}

Cams == 1..NumCams
Ids == 0..MaxEvents                 \* 0: no event, no baseline
Event == Cams \X (1..MaxEvents)
MaxAttempt == 2                     \* len(_FCM_FETCH_RETRY_BACKOFFS)

VARIABLES
    occurred,       \* Bosch: the last event of each camera
    indexed,        \* Bosch: the newest one /v11/events lists
    transit,        \* Bosch: pushes on their way
    last,           \* last_event_ids, 0 when the camera has no baseline
    cached,         \* newest event of cached_events, 0 when empty
    sent,           \* the ids in alert_sent_ids younger than 60 s, oldest first
    running,        \* fcm_running
    healthy,        \* fcm_healthy
    pushRecent,     \* a push or a listener start in the last ten minutes
    forced,         \* fcm_force_hard_heal
    poll,           \* where the poll is
    fetch,          \* its request for each camera
    at,             \* the camera it dispatches
    held,           \* the newest id it holds across the startup mark-read
    pc,             \* where each push handler is
    hat,            \* the camera it is at
    reply,          \* the newest event in the reply it waits to process
    attempt,        \* its _attempt
    found,          \* _dispatched_new is not empty
    fetchOk,        \* _any_fetch_ok
    alerts,         \* ghost: alerts dispatched for each event, at most 2 counted
    seed            \* ghost: the baseline the startup poll took silently

cloud == <<occurred, indexed, transit>>
memory == <<last, cached, sent>>
listener == <<running, healthy, pushRecent, forced>>
polling == <<poll, fetch, at, held>>
handling == <<pc, hat, reply, attempt, found, fetchOk>>
vars == <<cloud, memory, listener, polling, handling, alerts, seed>>

Idle == [step |-> "idle", id |-> 0]

Init ==
    /\ occurred = [c \in Cams |-> Before]
    /\ indexed = [c \in Cams |-> Before]
    /\ transit = {}
    /\ last = [c \in Cams |-> 0]
    /\ cached = [c \in Cams |-> 0]
    /\ sent = <<>>
    /\ running = FALSE /\ healthy = FALSE /\ pushRecent = FALSE /\ forced = FALSE
    /\ poll = "idle"
    /\ fetch = [c \in Cams |-> Idle]
    /\ at = 1
    /\ held = 0
    /\ pc = [h \in Handlers |-> "idle"]
    /\ hat = [h \in Handlers |-> 1]
    /\ reply = [h \in Handlers |-> 0]
    /\ attempt = [h \in Handlers |-> 0]
    /\ found = [h \in Handlers |-> FALSE]
    /\ fetchOk = [h \in Handlers |-> FALSE]
    /\ alerts = [c \in Cams |-> [n \in 1..MaxEvents |-> 0]]
    /\ seed = [c \in Cams |-> 0]

\* From the moment the replies are in until its next await the poll runs alone.
LoopFree == poll # "dispatch"

-----------------------------------------------------------------------------
\* --------------------------------------------------- the cloud, time, the listener

\* A camera reports an event.  Its push may be lost.
Occurs(c) ==
    /\ occurred[c] < MaxEvents
    /\ occurred' = [occurred EXCEPT ![c] = @ + 1]
    /\ transit' \in {transit, transit \cup {<<c, occurred[c] + 1>>}}
    /\ UNCHANGED <<indexed, memory, listener, polling, handling, alerts, seed>>

\* The push can beat the index by seconds.
Indexes(c) ==
    /\ indexed[c] < occurred[c]
    /\ indexed' = [indexed EXCEPT ![c] = @ + 1]
    /\ UNCHANGED <<occurred, transit, memory, listener, polling, handling, alerts, seed>>

\* A reply is processed within seconds of its arrival.
ReplyInFlight ==
    \/ \E h \in Handlers : pc[h] = "got"
    \/ \E c \in Cams : fetch[c].step \in {"compare", "got"}

\* The oldest stamp turns 60 s old; what is older than 120 s is also deleted.
Expires ==
    /\ sent # <<>> /\ ~ReplyInFlight
    /\ sent' = Tail(sent)
    /\ UNCHANGED <<cloud, last, cached, listener, polling, handling, alerts, seed>>

\* FCM_DELIVERY_DEAD_AFTER_SEC pass without a push.
Quiet ==
    /\ "quiet" \in ListenerMay
    /\ pushRecent /\ transit = {}
    /\ poll = "idle" /\ \A h \in Handlers : pc[h] = "idle"
    /\ pushRecent' = FALSE
    /\ UNCHANGED <<cloud, memory, running, healthy, forced, polling, handling, alerts, seed>>

\* The supervisor starts the listener.  It has forgotten a forced hard heal if it
\* saw the flag and purged the registration first.
ListenerStarts ==
    /\ ~running /\ LoopFree
    /\ running' = TRUE /\ healthy' = TRUE /\ pushRecent' = TRUE
    /\ forced' \in {forced, FALSE}
    /\ UNCHANGED <<cloud, memory, polling, handling, alerts, seed>>

ListenerStops ==
    /\ "stop" \in ListenerMay /\ running /\ LoopFree
    /\ running' = FALSE /\ healthy' = FALSE
    /\ UNCHANGED <<cloud, memory, pushRecent, forced, polling, handling, alerts, seed>>

-----------------------------------------------------------------------------
\* ------------------------------------------------------------------ the push handler

\* _on_fcm_push.  Bosch may push an event twice, so it may stay in transit.
PushArrives(e, h) ==
    /\ LoopFree /\ e \in transit /\ pc[h] = "idle"
    /\ transit' \in {transit, transit \ {e}}
    /\ IF ~running
       THEN UNCHANGED <<listener, handling>>
       ELSE /\ pushRecent' = TRUE
            /\ healthy' = TRUE
            /\ pc' = [pc EXCEPT ![h] = "ask"]
            /\ UNCHANGED <<running, forced, hat, reply, attempt, found, fetchOk>>
    /\ UNCHANGED <<occurred, indexed, memory, polling, alerts, seed>>

\* The cloud answers the handler's request for camera hat[h].
HandlerAsks(h) ==
    /\ pc[h] = "ask"
    /\ pc' = [pc EXCEPT ![h] = "got"]
    /\ reply' = [reply EXCEPT ![h] = indexed[hat[h]]]
    /\ UNCHANGED <<cloud, memory, listener, polling, hat, attempt, found, fetchOk,
                   alerts, seed>>

\* The handler returns, its locals with it.
HandlerEnds(h) ==
    /\ pc' = [pc EXCEPT ![h] = "idle"]
    /\ attempt' = [attempt EXCEPT ![h] = 0]

\* On to the next camera; after the last one, a retry if nothing new was found.
HandlerMovesOn(h, f, ok) ==
    /\ reply' = [reply EXCEPT ![h] = 0]
    /\ IF hat[h] < NumCams
       THEN /\ hat' = [hat EXCEPT ![h] = @ + 1]
            /\ pc' = [pc EXCEPT ![h] = "ask"]
            /\ found' = [found EXCEPT ![h] = f]
            /\ fetchOk' = [fetchOk EXCEPT ![h] = ok]
            /\ UNCHANGED attempt
       ELSE /\ hat' = [hat EXCEPT ![h] = 1]
            /\ found' = [found EXCEPT ![h] = FALSE]
            /\ fetchOk' = [fetchOk EXCEPT ![h] = FALSE]
            /\ \/ /\ ~f /\ ok /\ attempt[h] < MaxAttempt
                  /\ pc' = [pc EXCEPT ![h] = "sleep"]
                  /\ UNCHANGED attempt
               \/ /\ f \/ ~ok \/ attempt[h] = MaxAttempt
                  /\ HandlerEnds(h)

HandlerFetchFails(h) ==
    /\ MayFail /\ LoopFree /\ pc[h] = "ask"
    /\ HandlerMovesOn(h, found[h], fetchOk[h])
    /\ UNCHANGED <<cloud, memory, listener, polling, alerts, seed>>

Stamped(c, n) == \E i \in 1..Len(sent) : sent[i] = <<c, n>>

\* Stamp, move the baseline, fire the automation and start the alert.
Dispatch(c, n) ==
    /\ sent' = Append(sent, <<c, n>>)
    /\ last' = [last EXCEPT ![c] = n]
    /\ alerts' = [alerts EXCEPT ![c][n] = IF @ < 2 THEN @ + 1 ELSE 2]

\* Mutant: the first event without a baseline is swallowed (GitHub #64).
HandlerSwallowsFirst(h) ==
    LET c == hat[h]
        n == reply[h]
    IN  /\ LoopFree /\ pc[h] = "got"
        /\ IF n = 0 \/ Stamped(c, n)
           THEN UNCHANGED <<last, sent, alerts>> /\ HandlerMovesOn(h, found[h], TRUE)
           ELSE IF last[c] \in {0, n}
           THEN /\ last' = [last EXCEPT ![c] = n]
                /\ UNCHANGED <<sent, alerts>> /\ HandlerMovesOn(h, found[h], TRUE)
           ELSE Dispatch(c, n) /\ HandlerMovesOn(h, TRUE, TRUE)
        /\ UNCHANGED <<cloud, cached, listener, polling, seed>>

\* async_handle_fcm_push, what it does with the reply of one camera.
HandlerTakes(h) ==
    LET c == hat[h]
        n == reply[h]
        Ignored == n = 0 \/ Stamped(c, n)
        Predates == last[c] = 0 /\ n <= Before
    IN  /\ LoopFree /\ pc[h] = "got"
        /\ \/ /\ Ignored
              /\ HandlerMovesOn(h, found[h], TRUE)
              /\ UNCHANGED <<memory, alerts>>
           \/ /\ ~Ignored /\ (Predates \/ n = last[c])
              /\ last' = [last EXCEPT ![c] = n]
              /\ HandlerMovesOn(h, found[h], TRUE)
              /\ UNCHANGED <<cached, sent, alerts>>
           \/ /\ ~Ignored /\ ~Predates /\ n # last[c]
              /\ Dispatch(c, n)
              /\ cached' = [cached EXCEPT ![c] = n]
              /\ HandlerMovesOn(h, TRUE, TRUE)
        /\ UNCHANGED <<cloud, listener, polling, seed>>

\* Two, then four seconds later, unless the listener was stopped.
HandlerRetries(h) ==
    /\ LoopFree /\ pc[h] = "sleep"
    /\ IF running
       THEN /\ pc' = [pc EXCEPT ![h] = "ask"]
            /\ attempt' = [attempt EXCEPT ![h] = @ + 1]
       ELSE HandlerEnds(h)
    /\ UNCHANGED <<cloud, memory, listener, polling, hat, reply, found, fetchOk,
                   alerts, seed>>

-----------------------------------------------------------------------------
\* ------------------------------------------------------------- the coordinator's poll

pollFrame == <<cloud, handling>>
Fetches(c, s, n) == fetch' = [fetch EXCEPT ![c] = [step |-> s, id |-> n]]
inFetch == <<memory, listener, poll, at, held, alerts, seed>>

PollStarts ==
    /\ poll = "idle"
    /\ poll' = "fetching"
    /\ fetch' = [c \in Cams |-> [step |-> "look", id |-> 0]]
    /\ UNCHANGED <<memory, listener, at, held, alerts, seed, pollFrame>>

\* The cloud answers /last_event; without an answer the whole list is asked for.
PollLooks(c) ==
    /\ fetch[c].step = "look"
    /\ \/ Fetches(c, "compare", indexed[c])
       \/ MayFail /\ Fetches(c, "list", 0)
    /\ UNCHANGED <<inFetch, pollFrame>>

\* Nothing newer than the baseline: no list is fetched, the cache stays.
PollCompares(c) ==
    /\ fetch[c].step = "compare"
    /\ IF fetch[c].id # 0 /\ fetch[c].id = last[c]
       THEN Fetches(c, "skip", 0) ELSE Fetches(c, "list", 0)
    /\ UNCHANGED <<inFetch, pollFrame>>

PollLists(c) ==
    /\ fetch[c].step = "list"
    /\ Fetches(c, "got", indexed[c])
    /\ UNCHANGED <<inFetch, pollFrame>>

PollListFails(c) ==
    /\ MayFail /\ fetch[c].step = "list"
    /\ Fetches(c, "failed", 0)
    /\ UNCHANGED <<inFetch, pollFrame>>

\* All cameras answered: the lists that were fetched replace the cached ones.
PollWrites ==
    /\ poll = "fetching"
    /\ \A c \in Cams : fetch[c].step \in {"skip", "got", "failed"}
    /\ cached' = [c \in Cams |-> IF fetch[c].step = "got" THEN fetch[c].id ELSE cached[c]]
    /\ fetch' = [c \in Cams |-> Idle]
    /\ poll' = "dispatch"
    /\ at' = 1
    /\ UNCHANGED <<last, sent, listener, held, alerts, seed, pollFrame>>

NextCamera ==
    IF at < NumCams THEN at' = at + 1 /\ poll' = "dispatch"
                    ELSE at' = 1 /\ poll' = "idle"

\* The startup branch: events that are there when polling begins raise no alert.
PollSeeds(n) ==
    /\ last' = [last EXCEPT ![at] = n]
    /\ seed' = [seed EXCEPT ![at] = n]

\* The watchdog of push delivery: this poll found an event push had not.
PushIsDead == running /\ healthy /\ ~pushRecent
Condemn == healthy' = (healthy /\ ~PushIsDead) /\ forced' = (forced \/ PushIsDead)

\* Mutant: a stamp of the camera, not of the event, suppresses the alert.
PollTakesByCamera ==
    LET n == cached[at]
        Suppressed == \E m \in 1..MaxEvents : Stamped(at, m)
    IN  /\ poll = "dispatch"
        /\ last' = [last EXCEPT ![at] = IF n = 0 THEN @ ELSE n]
        /\ seed' = [seed EXCEPT ![at] = IF last[at] = 0 THEN n ELSE @]
        /\ IF last[at] = 0 \/ n \in {0, last[at]} \/ Suppressed
           THEN UNCHANGED <<sent, alerts>>
           ELSE Dispatch(at, n)
        /\ NextCamera
        /\ UNCHANGED <<cached, listener, fetch, held, pollFrame>>

\* Mutant: the poll does not stamp what it alerts.
PollTakesUnstamped ==
    LET n == cached[at]
    IN  /\ poll = "dispatch"
        /\ IF last[at] = 0 \/ n \in {0, last[at]} \/ Stamped(at, n)
           THEN /\ last' = [last EXCEPT ![at] = IF n = 0 THEN @ ELSE n]
                /\ UNCHANGED alerts
           ELSE /\ last' = [last EXCEPT ![at] = n]
                /\ alerts' = [alerts EXCEPT ![at][n] = IF @ < 2 THEN @ + 1 ELSE 2]
        /\ seed' = [seed EXCEPT ![at] = IF last[at] = 0 THEN n ELSE @]
        /\ NextCamera
        /\ UNCHANGED <<cached, sent, listener, fetch, held, pollFrame>>

\* build_data_and_dispatch, one camera, up to its next await.
PollTakes ==
    LET n == cached[at]
    IN  /\ poll = "dispatch"
        /\ \/ /\ n \in {0, last[at]}
              /\ NextCamera
              /\ UNCHANGED <<last, sent, listener, held, alerts, seed>>
           \/ /\ n # 0 /\ last[at] = 0
              /\ \/ PollSeeds(n) /\ NextCamera /\ UNCHANGED held
                 \/ /\ MarkRead
                    /\ poll' = "seeding" /\ held' = n
                    /\ UNCHANGED <<last, at, seed>>
              /\ UNCHANGED <<sent, listener, alerts>>
           \/ /\ n # 0 /\ last[at] \notin {0, n}
              /\ Condemn
              /\ IF Stamped(at, n)
                 THEN /\ last' = [last EXCEPT ![at] = n]
                      /\ NextCamera
                      /\ UNCHANGED <<sent, alerts>>
                 ELSE /\ Dispatch(at, n)
                      /\ IF MarkRead THEN poll' = "marking" /\ UNCHANGED at ELSE NextCamera
              /\ UNCHANGED <<running, pushRecent, held, seed>>
        /\ UNCHANGED <<cached, fetch, pollFrame>>

\* The await of the startup mark-read ends.
PollSeeded ==
    /\ poll = "seeding"
    /\ PollSeeds(held)
    /\ held' = 0
    /\ NextCamera
    /\ UNCHANGED <<cached, sent, listener, fetch, alerts, pollFrame>>

PollMarked ==
    /\ poll = "marking"
    /\ NextCamera
    /\ UNCHANGED <<memory, listener, fetch, held, alerts, seed, pollFrame>>

-----------------------------------------------------------------------------
HandlerStep(h) ==
    \/ HandlerAsks(h) \/ HandlerFetchFails(h) \/ HandlerTakes(h) \/ HandlerRetries(h)

PollFetchStep(c) == PollLooks(c) \/ PollCompares(c) \/ PollLists(c) \/ PollListFails(c)

Next ==
    \/ \E c \in Cams : Occurs(c) \/ Indexes(c) \/ PollFetchStep(c)
    \/ Expires \/ Quiet \/ ListenerStarts \/ ListenerStops
    \/ \E e \in Event, h \in Handlers : PushArrives(e, h)
    \/ \E h \in Handlers : HandlerStep(h)
    \/ PollStarts \/ PollWrites \/ PollTakes \/ PollSeeded \/ PollMarked

Spec == Init /\ [][Next]_vars

\* The coordinator ticks, every request is answered or times out, a cloud that
\* keeps being asked answers in the end and its index catches up.  No push need
\* ever arrive.
Fairness ==
    /\ WF_vars(PollStarts) /\ WF_vars(PollWrites) /\ WF_vars(PollTakes)
    /\ WF_vars(PollSeeded) /\ WF_vars(PollMarked)
    /\ \A c \in Cams : /\ WF_vars(Indexes(c))
                       /\ WF_vars(PollLooks(c)) /\ WF_vars(PollCompares(c))
                       /\ WF_vars(PollLists(c) \/ PollListFails(c))
                       /\ SF_vars(PollLists(c))
    /\ \A h \in Handlers : WF_vars(HandlerStep(h))
FairSpec == Spec /\ Fairness

-----------------------------------------------------------------------------
\* ------------------------------------------------------------------ properties

PollSteps == {"idle", "fetching", "dispatch", "seeding", "marking"}
FetchSteps == {"idle", "look", "compare", "list", "skip", "got", "failed"}

\* Every variable has its type.
TypeOK ==
    /\ occurred \in [Cams -> Ids] /\ indexed \in [Cams -> Ids]
    /\ transit \subseteq Event
    /\ last \in [Cams -> Ids] /\ cached \in [Cams -> Ids] /\ seed \in [Cams -> Ids]
    /\ sent \in Seq(Event)
    /\ running \in BOOLEAN /\ healthy \in BOOLEAN
    /\ pushRecent \in BOOLEAN /\ forced \in BOOLEAN
    /\ poll \in PollSteps
    /\ fetch \in [Cams -> [step : FetchSteps, id : Ids]]
    /\ at \in Cams /\ held \in Ids
    /\ pc \in [Handlers -> {"idle", "ask", "got", "sleep"}]
    /\ hat \in [Handlers -> Cams] /\ reply \in [Handlers -> Ids]
    /\ attempt \in [Handlers -> 0..MaxAttempt]
    /\ found \in [Handlers -> BOOLEAN] /\ fetchOk \in [Handlers -> BOOLEAN]
    /\ alerts \in [Cams -> [1..MaxEvents -> 0..2]]

Alerted(c, n) == alerts[c][n] > 0

\* No event of this session becomes a camera's baseline without having been
\* alerted, except the one the startup poll found: push and poll never both leave
\* an event to the other.
BaselineWasAlerted ==
    \A c \in Cams :
      last[c] > Before => last[c] = seed[c] \/ Alerted(c, last[c])

\* Whatever push handlers and poll do between each other's awaits, the same event
\* is not alerted again within the dedup window of 60 s, and every alert opens one.
NoQuickRepeat ==
    [][\A c \in Cams, n \in 1..MaxEvents :
         alerts'[c][n] # alerts[c][n] => ~Stamped(c, n) /\ Stamped(c, n)']_vars

\* An event that stays the camera's newest is alerted in the end, once the camera
\* has a baseline and unless the startup poll holds it: no overlap of push
\* handlers and poll loses it, even if no push arrives.
NewestIsAlerted ==
    \A c \in Cams, n \in (Before + 1)..MaxEvents :
      occurred[c] = n /\ last[c] \notin {0, n} /\ poll # "seeding"
        ~> Alerted(c, n) \/ occurred[c] > n

\* A re-scan raises no second alert: "no double alerts".
AlertedOnce == \A c \in Cams, n \in 1..MaxEvents : alerts[c][n] <= 1
=============================================================================
