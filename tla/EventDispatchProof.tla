-------------------------- MODULE EventDispatchProof --------------------------
(***************************************************************************)
(* For any number of cameras, push handlers and events: the types of       *)
(* EventDispatch, and the two promises its shared memory makes, that no    *)
(* event becomes a baseline without an alert and that no event is alerted  *)
(* twice within the dedup window.                                          *)
(*                                                                         *)
(* The poll takes an event it finds stamped for its new baseline and fires *)
(* nothing, so the first promise needs one fact more: what is stamped has  *)
(* been alerted (StampsAreAlerts).                                         *)
(* The bound on attempts needs another: who sleeps has one left.           *)
(***************************************************************************)
EXTENDS EventDispatch, TLAPS

TypeCloud ==
    /\ occurred \in [Cams -> Ids] /\ indexed \in [Cams -> Ids]
    /\ transit \subseteq Event
TypeMemory ==
    /\ last \in [Cams -> Ids] /\ cached \in [Cams -> Ids]
    /\ sent \in Seq(Event)
TypeListener ==
    /\ running \in BOOLEAN /\ healthy \in BOOLEAN
    /\ pushRecent \in BOOLEAN /\ forced \in BOOLEAN
TypePoll ==
    /\ poll \in PollSteps
    /\ fetch \in [Cams -> [step : FetchSteps, id : Ids]]
    /\ at \in Cams /\ held \in Ids
TypeHandler ==
    /\ pc \in [Handlers -> {"idle", "ask", "got", "sleep"}]
    /\ hat \in [Handlers -> Cams] /\ reply \in [Handlers -> Ids]
    /\ attempt \in [Handlers -> 0..MaxAttempt]
    /\ found \in [Handlers -> BOOLEAN] /\ fetchOk \in [Handlers -> BOOLEAN]
TypeGhost ==
    /\ alerts \in [Cams -> [1..MaxEvents -> 0..2]]
    /\ seed \in [Cams -> Ids]

\* TypeOK by the part of the state it speaks of.
LEMMA TypeParts ==
    TypeOK <=> /\ TypeCloud /\ TypeMemory /\ TypeListener
               /\ TypePoll /\ TypeHandler /\ TypeGhost
  BY DEF TypeOK, TypeCloud, TypeMemory, TypeListener, TypePoll, TypeHandler, TypeGhost

\* The same after a step.
LEMMA TypePartsNext ==
    TypeOK' <=> /\ TypeCloud' /\ TypeMemory' /\ TypeListener'
                /\ TypePoll' /\ TypeHandler' /\ TypeGhost'
  BY DEF TypeOK, TypeCloud, TypeMemory, TypeListener, TypePoll, TypeHandler, TypeGhost

\* An event is stamped only when its alert is dispatched.
StampsAreAlerts == \A i \in 1..Len(sent) : alerts[sent[i][1]][sent[i][2]] > 0

\* A handler sleeps only before an attempt that is left to it.
TriesLeft == \A h \in Handlers : pc[h] = "sleep" => attempt[h] < MaxAttempt

IInv == TypeOK /\ TriesLeft /\ StampsAreAlerts /\ BaselineWasAlerted

-----------------------------------------------------------------------------
\* The camera and event numbers the initial state uses exist.
LEMMA Numbers == 1 \in Cams /\ 0 \in Ids /\ Before \in Ids /\ MaxEvents \in Nat
  BY EventDispatchAssumption DEF Cams, Ids

\* The initial state has its types and has alerted nothing.
LEMMA InitHolds == Init => IInv
<1> SUFFICES ASSUME Init PROVE IInv OBVIOUS
<1>1. TypeCloud BY Numbers DEF Init, TypeCloud
<1>2. TypeMemory
  <2>1. <<>> \in Seq(Event) OBVIOUS
  <2> QED BY <2>1, Numbers DEF Init, TypeMemory
<1>3. TypeListener BY DEF Init, TypeListener
<1>4. TypePoll BY Numbers DEF Init, TypePoll, PollSteps, FetchSteps, Idle
<1>5. TypeHandler BY Numbers DEF Init, TypeHandler, MaxAttempt
<1>6. TypeGhost BY Numbers DEF Init, TypeGhost
<1>7. TypeOK BY <1>1, <1>2, <1>3, <1>4, <1>5, <1>6, TypeParts
<1>8. StampsAreAlerts
  <2>1. Len(sent) = 0 BY DEF Init
  <2> QED BY <2>1 DEF StampsAreAlerts
<1>9. BaselineWasAlerted
  <2>1. \A c \in Cams : last[c] = 0 BY DEF Init
  <2> QED BY <2>1, EventDispatchAssumption DEF BaselineWasAlerted
<1>10. TriesLeft BY DEF Init, TriesLeft
<1> QED BY <1>7, <1>8, <1>9, <1>10 DEF IInv

-----------------------------------------------------------------------------
\* What a step that dispatches nothing leaves: the stamps and alerts, the baseline
\* of each camera unless it is one the promise holds of, the seeds but with it.
Silent ==
    /\ UNCHANGED alerts
    /\ \/ UNCHANGED sent
       \/ sent # <<>> /\ sent' = Tail(sent)
    /\ \A c \in Cams :
         \/ last'[c] = last[c] /\ seed'[c] = seed[c]
         \/ last'[c] <= Before
         \/ last'[c] = seed'[c]
         \/ seed'[c] = seed[c] /\ last'[c] \in 1..MaxEvents /\ Stamped(c, last'[c])

\* Such a step keeps both facts.
LEMMA SilentKeeps ==
    ASSUME IInv, TypeOK', Silent
    PROVE  StampsAreAlerts' /\ BaselineWasAlerted'
<1>1. StampsAreAlerts'
  <2>1. CASE UNCHANGED sent BY <2>1 DEF IInv, StampsAreAlerts, Silent
  <2>2. CASE sent # <<>> /\ sent' = Tail(sent)
    <3>1. sent \in Seq(Event) BY DEF IInv, TypeOK
    <3>2. \A i \in 1..Len(sent') : i + 1 \in 1..Len(sent) /\ sent'[i] = sent[i + 1]
      BY <2>2, <3>1
    <3> QED BY <3>2 DEF IInv, StampsAreAlerts, Silent
  <2> QED BY <2>1, <2>2 DEF Silent
<1>2. ASSUME NEW c \in Cams, last'[c] > Before
      PROVE  last'[c] = seed'[c] \/ alerts[c][last'[c]] > 0
  <2>1. CASE last'[c] = last[c] /\ seed'[c] = seed[c]
    BY <1>2, <2>1 DEF IInv, BaselineWasAlerted, Alerted
  <2>2. CASE last'[c] <= Before
    <3>1. last'[c] \in Nat /\ Before \in Nat BY Numbers DEF TypeOK, Ids
    <3> QED BY <1>2, <2>2, <3>1
  <2>3. CASE Stamped(c, last'[c]) BY <2>3 DEF IInv, StampsAreAlerts, Stamped
  <2> QED BY <2>1, <2>2, <2>3 DEF Silent
<1> QED BY <1>1, <1>2 DEF BaselineWasAlerted, Alerted, Silent

\* A dispatch keeps the types of what it writes, and leaves a stamp and an alert.
LEMMA DispatchTyped ==
    ASSUME TypeOK, NEW c \in Cams, NEW n \in 1..MaxEvents, Dispatch(c, n)
    PROVE  /\ sent' \in Seq(Event) /\ last' \in [Cams -> Ids]
           /\ alerts' \in [Cams -> [1..MaxEvents -> 0..2]]
           /\ Len(sent') = Len(sent) + 1
           /\ \A i \in 1..Len(sent) : sent'[i] = sent[i]
           /\ sent'[Len(sent) + 1] = <<c, n>>
           /\ alerts'[c][n] > 0
           /\ \A d \in Cams, m \in 1..MaxEvents : alerts[d][m] > 0 => alerts'[d][m] > 0
           /\ \A d \in Cams, m \in 1..MaxEvents :
                alerts'[d][m] # alerts[d][m] => d = c /\ m = n
<1>1. <<c, n>> \in Event BY DEF Event
<1>2. n \in Ids BY Numbers DEF Ids
<1>3. /\ sent' \in Seq(Event)
      /\ Len(sent') = Len(sent) + 1
      /\ \A i \in 1..Len(sent) : sent'[i] = sent[i]
      /\ sent'[Len(sent) + 1] = <<c, n>>
  BY <1>1 DEF TypeOK, Dispatch
<1>4. last' \in [Cams -> Ids] BY <1>2 DEF TypeOK, Dispatch
<1>5. alerts[c] \in [1..MaxEvents -> 0..2] BY DEF TypeOK
<1>6. alerts' = [alerts EXCEPT ![c] =
                   [alerts[c] EXCEPT ![n] = IF @ < 2 THEN @ + 1 ELSE 2]]
  BY DEF Dispatch, TypeOK
<1>7. alerts'[c] = [alerts[c] EXCEPT ![n] = IF @ < 2 THEN @ + 1 ELSE 2]
  BY <1>6 DEF TypeOK
<1>8. \A d \in Cams : d # c => alerts'[d] = alerts[d] BY <1>6 DEF TypeOK
<1>9. \A m \in 1..MaxEvents : m # n => alerts'[c][m] = alerts[c][m]
  BY <1>5, <1>7
<1>10. alerts'[c][n] = IF alerts[c][n] < 2 THEN alerts[c][n] + 1 ELSE 2
  BY <1>5, <1>7
<1>11. alerts[c][n] \in 0..2 BY <1>5
<1>12. alerts'[c][n] \in 1..2 BY <1>10, <1>11
<1>13. alerts'[c] \in [1..MaxEvents -> 0..2] BY <1>5, <1>7, <1>11
<1>14. alerts' \in [Cams -> [1..MaxEvents -> 0..2]] BY <1>6, <1>7, <1>13 DEF TypeOK
<1> QED BY <1>3, <1>4, <1>8, <1>9, <1>12, <1>14

\* Nor does a dispatch break either fact.
LEMMA DispatchKeeps ==
    ASSUME IInv, NEW c \in Cams, NEW n \in 1..MaxEvents, Dispatch(c, n), UNCHANGED seed
    PROVE  StampsAreAlerts' /\ BaselineWasAlerted'
<1>1. TypeOK BY DEF IInv
<1> USE <1>1
<1>2. StampsAreAlerts'
  <2>1. SUFFICES ASSUME NEW i \in 1..Len(sent')
                 PROVE  alerts'[sent'[i][1]][sent'[i][2]] > 0
    BY DEF StampsAreAlerts
  <2>2. CASE i \in 1..Len(sent)
    <3>1. sent[i] \in Event BY <2>2 DEF TypeOK
    <3>2. sent[i][1] \in Cams /\ sent[i][2] \in 1..MaxEvents BY <3>1 DEF Event
    <3>3. alerts[sent[i][1]][sent[i][2]] > 0 BY <2>2 DEF IInv, StampsAreAlerts
    <3> QED BY <2>2, <3>2, <3>3, DispatchTyped
  <2>3. CASE i = Len(sent) + 1 BY <2>3, DispatchTyped
  <2>4. Len(sent) \in Nat BY DEF TypeOK
  <2>5. i \in 1..Len(sent) \/ i = Len(sent) + 1 BY <2>4, DispatchTyped
  <2> QED BY <2>2, <2>3, <2>5
<1>3. BaselineWasAlerted'
  <2>1. SUFFICES ASSUME NEW d \in Cams, last'[d] > Before
                 PROVE  last'[d] = seed[d] \/ alerts'[d][last'[d]] > 0
    BY DEF BaselineWasAlerted, Alerted
  <2>2. CASE d = c
    <3>1. last'[d] = n BY <2>2 DEF Dispatch, TypeOK
    <3> QED BY <2>2, <3>1, DispatchTyped
  <2>3. CASE d # c
    <3>1. last'[d] = last[d] BY <2>3 DEF Dispatch, TypeOK
    <3>2. last[d] = seed[d] \/ alerts[d][last[d]] > 0
      BY <2>1, <3>1 DEF IInv, BaselineWasAlerted, Alerted
    <3>3. last[d] \in 1..MaxEvents
      <4>1. last[d] \in 0..MaxEvents BY DEF TypeOK, Ids
      <4> QED BY <2>1, <3>1, <4>1, EventDispatchAssumption
    <3> QED BY <3>1, <3>2, <3>3, DispatchTyped
  <2> QED BY <2>2, <2>3
<1> QED BY <1>2, <1>3

-----------------------------------------------------------------------------
\* A step that touches neither alerts, stamps, baselines nor seeds is silent.
LEMMA QuietStep ==
    ASSUME IInv, TypeOK', TriesLeft', UNCHANGED <<last, sent, alerts, seed>>
    PROVE  IInv'
<1>1. Silent BY DEF Silent
<1> QED BY <1>1, SilentKeeps DEF IInv

\* The environment: cameras, the cloud's index, time, the listener.
LEMMA EnvironmentKeeps ==
    ASSUME IInv,
           \/ \E c \in Cams : Occurs(c) \/ Indexes(c)
           \/ Expires \/ Quiet \/ ListenerStarts \/ ListenerStops
    PROVE  IInv'
<1> USE DEF memory, listener, polling, handling
<1>1. TypeOK BY DEF IInv
<1>8. TriesLeft'
  BY DEF IInv, TriesLeft, Occurs, Indexes, Expires, Quiet, ListenerStarts, ListenerStops
<1>2. ASSUME NEW c \in Cams, Occurs(c) PROVE IInv'
  <2>1. occurred[c] \in Ids BY <1>1 DEF TypeOK
  <2>2. occurred[c] + 1 \in 1..MaxEvents BY <1>2, <2>1, Numbers DEF Occurs, Ids
  <2>3. TypeCloud'
    <3>1. occurred[c] + 1 \in Ids BY <2>2 DEF Ids
    <3>2. <<c, occurred[c] + 1>> \in Event BY <2>2 DEF Event
    <3>3. transit' \subseteq Event BY <1>1, <1>2, <3>2 DEF TypeOK, Occurs
    <3> QED BY <1>1, <1>2, <3>1, <3>3 DEF TypeOK, TypeCloud, Occurs
  <2>4. TypeOK' BY <1>1, <1>2, <2>3 DEF TypeOK, TypeCloud, Occurs
  <2> QED BY <1>8, <1>2, <2>4, QuietStep DEF Occurs
<1>3. ASSUME NEW c \in Cams, Indexes(c) PROVE IInv'
  <2>1. indexed[c] \in Ids /\ occurred[c] \in Ids BY <1>1 DEF TypeOK
  <2>2. indexed[c] + 1 \in Ids BY <1>3, <2>1, Numbers DEF Indexes, Ids
  <2>3. TypeOK' BY <1>1, <1>3, <2>2 DEF TypeOK, Indexes
  <2> QED BY <1>8, <1>3, <2>3, QuietStep DEF Indexes
<1>4. CASE Expires
  <2>1. Tail(sent) \in Seq(Event) BY <1>1, <1>4 DEF TypeOK, Expires
  <2>2. TypeOK' BY <1>1, <1>4, <2>1 DEF TypeOK, Expires, cloud
  <2>3. Silent BY <1>4 DEF Expires, Silent
  <2> QED BY <1>8, <2>2, <2>3, SilentKeeps DEF IInv
<1>5. CASE Quiet
  <2>1. TypeOK' BY <1>1, <1>5 DEF TypeOK, Quiet, cloud
  <2> QED BY <1>8, <1>5, <2>1, QuietStep DEF Quiet
<1>6. CASE ListenerStarts
  <2>1. TypeOK' BY <1>1, <1>6 DEF TypeOK, ListenerStarts, cloud
  <2> QED BY <1>8, <1>6, <2>1, QuietStep DEF ListenerStarts
<1>7. CASE ListenerStops
  <2>1. TypeOK' BY <1>1, <1>7 DEF TypeOK, ListenerStops, cloud
  <2> QED BY <1>8, <1>7, <2>1, QuietStep DEF ListenerStops
<1> QED BY <1>2, <1>3, <1>4, <1>5, <1>6, <1>7

-----------------------------------------------------------------------------
\* A push is dropped or starts a handler.
LEMMA PushKeeps ==
    ASSUME IInv, NEW e \in Event, NEW h \in Handlers, PushArrives(e, h)
    PROVE  IInv'
<1> USE DEF memory, listener, polling, handling
<1>1. TypeOK BY DEF IInv
<1>2. TypeCloud' BY <1>1 DEF TypeOK, TypeCloud, PushArrives
<1>3. TypeMemory' /\ TypePoll' /\ TypeGhost'
  BY <1>1 DEF TypeOK, TypeMemory, TypePoll, TypeGhost, PushArrives
<1>4. CASE ~running
  <2>1. UNCHANGED <<listener, handling>> BY <1>4 DEF PushArrives
  <2>2. TypeListener' /\ TypeHandler'
    BY <1>1, <2>1 DEF TypeOK, TypeListener, TypeHandler
  <2>3. TypeOK' BY <1>2, <1>3, <2>2, TypePartsNext
  <2>4. TriesLeft' BY <2>1 DEF IInv, TriesLeft
  <2> QED BY <2>3, <2>4, QuietStep DEF PushArrives
<1>5. CASE running
  <2>1. TypeListener' BY <1>1, <1>5 DEF TypeOK, TypeListener, PushArrives
  <2>2. pc' \in [Handlers -> {"idle", "ask", "got", "sleep"}]
    BY <1>1, <1>5 DEF TypeOK, PushArrives
  <2>4. TypeHandler'
    <3>1. UNCHANGED <<hat, reply, attempt, found, fetchOk>> BY <1>5 DEF PushArrives
    <3> QED BY <1>1, <2>2, <3>1 DEF TypeOK, TypeHandler
  <2>5. TypeOK' BY <1>2, <1>3, <2>1, <2>4, TypePartsNext
  <2>6. TriesLeft' BY <1>1, <1>5 DEF TypeOK, IInv, TriesLeft, PushArrives
  <2> QED BY <2>5, <2>6, QuietStep DEF PushArrives
<1> QED BY <1>4, <1>5

\* Moving on leaves a handler's locals typed.
LEMMA MovesOnTyped ==
    ASSUME TypeHandler, TriesLeft, NEW h \in Handlers,
           NEW f \in BOOLEAN, NEW ok \in BOOLEAN, HandlerMovesOn(h, f, ok)
    PROVE  TypeHandler' /\ TriesLeft'
<1>1. 1 \in Cams /\ 0 \in Ids BY Numbers
<1>2. hat[h] \in Cams BY DEF TypeHandler
<1>3. hat[h] < NumCams => hat[h] + 1 \in Cams
  BY <1>2, EventDispatchAssumption DEF Cams
<1>4. 0 \in 0..MaxAttempt BY DEF MaxAttempt
<1>5. reply' \in [Handlers -> Ids] BY <1>1 DEF TypeHandler, HandlerMovesOn
<1>6. CASE hat[h] < NumCams
  <2>1. TypeHandler' BY <1>3, <1>5, <1>6 DEF TypeHandler, HandlerMovesOn
  <2>2. TriesLeft' BY <1>6 DEF TypeHandler, TriesLeft, HandlerMovesOn
  <2> QED BY <2>1, <2>2
<1>7. CASE ~(hat[h] < NumCams)
  <2>1. TypeHandler'
    BY <1>1, <1>4, <1>5, <1>7 DEF TypeHandler, HandlerMovesOn, HandlerEnds
  <2>2. TriesLeft' BY <1>7 DEF TypeHandler, TriesLeft, HandlerMovesOn, HandlerEnds
  <2> QED BY <2>1, <2>2
<1> QED BY <1>6, <1>7

\* The steps of a handler that dispatch nothing.
LEMMA HandlerWaitsKeeps ==
    ASSUME IInv, NEW h \in Handlers,
           HandlerAsks(h) \/ HandlerFetchFails(h) \/ HandlerRetries(h)
    PROVE  IInv'
<1> USE DEF memory, listener, polling, cloud
<1>1. TypeOK BY DEF IInv
<1>2. CASE HandlerAsks(h)
  <2>1. hat[h] \in Cams BY <1>1 DEF TypeOK
  <2>2. indexed[hat[h]] \in Ids BY <1>1, <2>1 DEF TypeOK
  <2>3. TypeOK' BY <1>1, <1>2, <2>2 DEF TypeOK, HandlerAsks
  <2>4. TriesLeft' BY <1>1, <1>2 DEF IInv, TypeOK, TriesLeft, HandlerAsks
  <2> QED BY <1>2, <2>3, <2>4, QuietStep DEF HandlerAsks
<1>3. CASE HandlerFetchFails(h)
  <2>1. found[h] \in BOOLEAN /\ fetchOk[h] \in BOOLEAN BY <1>1 DEF TypeOK
  <2>2. HandlerMovesOn(h, found[h], fetchOk[h]) BY <1>3 DEF HandlerFetchFails
  <2>3. TypeHandler' /\ TriesLeft'
    BY <1>1, <2>1, <2>2, MovesOnTyped, TypeParts DEF IInv
  <2>4. TypeOK'
    <3>1. UNCHANGED <<cloud, memory, listener, polling, alerts, seed>>
      BY <1>3 DEF HandlerFetchFails
    <3> QED BY <1>1, <2>3, <3>1 DEF TypeOK, TypeHandler
  <2> QED BY <1>3, <2>3, <2>4, QuietStep DEF HandlerFetchFails
<1>4. CASE HandlerRetries(h)
  <2>1. attempt' \in [Handlers -> 0..MaxAttempt]
    <3>1. attempt[h] \in 0..2 BY <1>1 DEF TypeOK, MaxAttempt
    <3>2. attempt[h] < MaxAttempt BY <1>4 DEF IInv, TriesLeft, HandlerRetries
    <3>3. attempt[h] + 1 \in 0..MaxAttempt BY <3>1, <3>2 DEF MaxAttempt
    <3>4. 0 \in 0..MaxAttempt BY DEF MaxAttempt
    <3> QED BY <1>1, <1>4, <3>3, <3>4 DEF TypeOK, HandlerRetries, HandlerEnds
  <2>2. TypeHandler'
    BY <1>1, <1>4, <2>1 DEF TypeOK, TypeHandler, HandlerRetries, HandlerEnds
  <2>3. TypeOK' BY <1>1, <1>4, <2>2 DEF TypeOK, TypeHandler, HandlerRetries
  <2>4. TriesLeft'
    BY <1>1, <1>4 DEF IInv, TypeOK, TriesLeft, HandlerRetries, HandlerEnds
  <2> QED BY <1>4, <2>3, <2>4, QuietStep DEF HandlerRetries
<1> QED BY <1>2, <1>3, <1>4

-----------------------------------------------------------------------------
\* What a handler does with a reply keeps the invariant.
LEMMA HandlerTakesKeeps ==
    ASSUME IInv, NEW h \in Handlers, HandlerTakes(h)
    PROVE  IInv'
<1> DEFINE c == hat[h]
           n == reply[h]
           Ignored == n = 0 \/ Stamped(c, n)
           Predates == last[c] = 0 /\ n <= Before
<1> USE DEF listener, polling, cloud
<1>1. TypeOK BY DEF IInv
<1>2. c \in Cams /\ n \in Ids /\ found[h] \in BOOLEAN BY <1>1 DEF TypeOK
<1>3. \E f \in BOOLEAN : HandlerMovesOn(h, f, TRUE) BY <1>2 DEF HandlerTakes
<1>4. TypeHandler' /\ TriesLeft' BY <1>1, <1>3, MovesOnTyped, TypeParts DEF IInv
<1>5. UNCHANGED <<cloud, listener, polling, seed>> BY DEF HandlerTakes
<1>6. CASE Ignored /\ UNCHANGED <<memory, alerts>>
  <2>1. TypeOK' BY <1>1, <1>4, <1>5, <1>6 DEF TypeOK, TypeHandler, memory
  <2> QED BY <1>4, <1>5, <1>6, <2>1, QuietStep DEF memory
<1>7. CASE /\ ~Ignored /\ (Predates \/ n = last[c])
           /\ last' = [last EXCEPT ![c] = n]
           /\ UNCHANGED <<cached, sent, alerts>>
  <2>1. TypeOK' BY <1>1, <1>2, <1>4, <1>5, <1>7 DEF TypeOK, TypeHandler
  <2>2. \A d \in Cams : last'[d] = last[d] \/ last'[d] <= Before
    BY <1>1, <1>2, <1>7 DEF TypeOK
  <2>3. Silent BY <1>5, <1>7, <2>2 DEF Silent
  <2> QED BY <1>4, <2>1, <2>3, SilentKeeps DEF IInv
<1>8. CASE ~Ignored /\ Dispatch(c, n) /\ cached' = [cached EXCEPT ![c] = n]
  <2>1. n \in 1..MaxEvents BY <1>2, <1>8 DEF Ids
  <2>2. /\ sent' \in Seq(Event) /\ last' \in [Cams -> Ids]
        /\ alerts' \in [Cams -> [1..MaxEvents -> 0..2]]
    BY <1>1, <1>2, <1>8, <2>1, DispatchTyped
  <2>3. cached' \in [Cams -> Ids] BY <1>1, <1>2, <1>8 DEF TypeOK
  <2>4. TypeOK' BY <1>1, <1>4, <1>5, <2>2, <2>3 DEF TypeOK, TypeHandler
  <2> QED BY <1>2, <1>4, <1>5, <1>8, <2>1, <2>4, DispatchKeeps DEF IInv
<1> QED BY <1>6, <1>7, <1>8 DEF HandlerTakes

-----------------------------------------------------------------------------
\* Fetching touches the poll's requests alone.
LEMMA FetchKeeps ==
    ASSUME IInv, PollStarts \/ \E c \in Cams : PollFetchStep(c)
    PROVE  IInv'
<1> USE DEF pollFrame, cloud, handling, inFetch, memory, listener
<1>1. TypeOK BY DEF IInv
<1>2. CASE PollStarts
  <2>1. TypePoll'
    BY <1>1, <1>2, Numbers DEF TypeOK, TypePoll, PollStarts, PollSteps, FetchSteps
  <2>2. TypeOK' BY <1>1, <1>2, <2>1 DEF TypeOK, TypePoll, PollStarts
  <2>3. TriesLeft' BY <1>2 DEF IInv, TriesLeft, PollStarts
  <2> QED BY <1>2, <2>2, <2>3, QuietStep DEF PollStarts
<1>3. ASSUME NEW c \in Cams, PollFetchStep(c) PROVE IInv'
  <2>1. UNCHANGED <<inFetch, pollFrame>>
    BY <1>3 DEF PollFetchStep, PollLooks, PollCompares, PollLists, PollListFails
  <2>2. PICK s \in FetchSteps, n \in Ids : Fetches(c, s, n)
    <3>1. indexed[c] \in Ids /\ 0 \in Ids BY <1>1, Numbers DEF TypeOK
    <3> QED BY <1>3, <3>1 DEF PollFetchStep, PollLooks, PollCompares, PollLists,
                              PollListFails, FetchSteps
  <2>3. fetch' \in [Cams -> [step : FetchSteps, id : Ids]]
    BY <1>1, <2>2 DEF TypeOK, Fetches
  <2>4. TypeOK' BY <1>1, <2>1, <2>3 DEF TypeOK
  <2>5. TriesLeft' BY <2>1 DEF IInv, TriesLeft
  <2> QED BY <2>1, <2>4, <2>5, QuietStep
<1> QED BY <1>2, <1>3

\* Going on to the next camera keeps the poll's place typed.
LEMMA NextCameraTyped ==
    ASSUME TypeOK, NextCamera
    PROVE  at' \in Cams /\ poll' \in PollSteps
  BY Numbers, EventDispatchAssumption DEF TypeOK, NextCamera, Cams, PollSteps

\* The lists fetched replace the cached ones.
LEMMA PollWritesKeeps ==
    ASSUME IInv, PollWrites
    PROVE  IInv'
<1> USE DEF pollFrame, cloud, handling, listener
<1>1. TypeOK BY DEF IInv
<1>2. cached' \in [Cams -> Ids] BY <1>1 DEF TypeOK, PollWrites
<1>3. fetch' \in [Cams -> [step : FetchSteps, id : Ids]]
  BY Numbers DEF PollWrites, Idle, FetchSteps
<1>4. poll' \in PollSteps /\ at' \in Cams BY Numbers DEF PollWrites, PollSteps
<1>5. TypeOK' BY <1>1, <1>2, <1>3, <1>4 DEF TypeOK, PollWrites
<1>6. TriesLeft' BY DEF IInv, TriesLeft, PollWrites
<1> QED BY <1>5, <1>6, QuietStep DEF PollWrites

\* Seeding a baseline: the event is the seed.
LEMMA SeedKeeps ==
    ASSUME IInv, NEW n \in Ids, PollSeeds(n), NextCamera, held' \in Ids,
           UNCHANGED <<cached, sent, listener, fetch, alerts, pollFrame>>
    PROVE  IInv'
<1> USE DEF pollFrame, cloud, handling, listener
<1>1. TypeOK BY DEF IInv
<1>2. last' \in [Cams -> Ids] /\ seed' \in [Cams -> Ids]
  BY <1>1 DEF TypeOK, PollSeeds
<1>3. at' \in Cams /\ poll' \in PollSteps BY <1>1, NextCameraTyped
<1>4. TypeOK' BY <1>1, <1>2, <1>3 DEF TypeOK
<1>5. \A d \in Cams : \/ last'[d] = last[d] /\ seed'[d] = seed[d]
                      \/ last'[d] = seed'[d]
  BY <1>1 DEF TypeOK, PollSeeds
<1>6. Silent BY <1>5 DEF Silent
<1>7. TriesLeft' BY DEF IInv, TriesLeft
<1> QED BY <1>4, <1>6, <1>7, SilentKeeps DEF IInv

\* Dispatching one camera.
LEMMA PollTakesKeeps ==
    ASSUME IInv, PollTakes
    PROVE  IInv'
<1> DEFINE n == cached[at]
<1> USE DEF pollFrame, cloud, handling
<1>1. TypeOK BY DEF IInv
<1>2. at \in Cams /\ n \in Ids /\ held \in Ids BY <1>1 DEF TypeOK
<1>3. TriesLeft' BY DEF IInv, TriesLeft, PollTakes
<1>4. UNCHANGED <<cached, fetch, pollFrame>> BY DEF PollTakes
<1>5. CASE NextCamera /\ UNCHANGED <<last, sent, listener, held, alerts, seed>>
  <2>1. at' \in Cams /\ poll' \in PollSteps BY <1>1, <1>5, NextCameraTyped
  <2>2. TypeOK' BY <1>1, <1>4, <1>5, <2>1 DEF TypeOK, listener
  <2> QED BY <1>3, <1>5, <2>2, QuietStep
<1>6. CASE PollSeeds(n) /\ NextCamera /\ UNCHANGED <<held, sent, listener, alerts>>
  BY <1>2, <1>4, <1>6, SeedKeeps
<1>7. CASE /\ poll' = "seeding" /\ held' = n
           /\ UNCHANGED <<last, at, seed, sent, listener, alerts>>
  <2>1. TypeOK' BY <1>1, <1>2, <1>4, <1>7 DEF TypeOK, listener, PollSteps
  <2> QED BY <1>3, <1>7, <2>1, QuietStep
<1>8. CASE /\ n \notin {0, last[at]}
           /\ Condemn
           /\ IF Stamped(at, n)
              THEN /\ last' = [last EXCEPT ![at] = n]
                   /\ NextCamera
                   /\ UNCHANGED <<sent, alerts>>
              ELSE /\ Dispatch(at, n)
                   /\ IF MarkRead THEN poll' = "marking" /\ UNCHANGED at
                                  ELSE NextCamera
           /\ UNCHANGED <<running, pushRecent, held, seed>>
  <2>1. n \in 1..MaxEvents BY <1>2, <1>8 DEF Ids
  <2>2. healthy' \in BOOLEAN /\ forced' \in BOOLEAN
    BY <1>1, <1>8 DEF TypeOK, Condemn, PushIsDead
  <2>3. at' \in Cams /\ poll' \in PollSteps
    BY <1>1, <1>2, <1>8, NextCameraTyped DEF PollSteps
  <2>4. CASE Stamped(at, n)
    <3>1. last' = [last EXCEPT ![at] = n] /\ UNCHANGED <<sent, alerts>>
      BY <1>8, <2>4
    <3>2. TypeOK' BY <1>1, <1>2, <1>4, <1>8, <2>2, <2>3, <3>1 DEF TypeOK
    <3>3. \A d \in Cams : \/ last'[d] = last[d]
                          \/ last'[d] \in 1..MaxEvents /\ Stamped(d, last'[d])
      BY <1>1, <1>2, <2>1, <2>4, <3>1 DEF TypeOK
    <3>4. Silent BY <1>8, <3>1, <3>3 DEF Silent
    <3> QED BY <1>3, <3>2, <3>4, SilentKeeps DEF IInv
  <2>5. CASE ~Stamped(at, n)
    <3>1. Dispatch(at, n) BY <1>8, <2>5
    <3>2. /\ sent' \in Seq(Event) /\ last' \in [Cams -> Ids]
          /\ alerts' \in [Cams -> [1..MaxEvents -> 0..2]]
      BY <1>1, <1>2, <2>1, <3>1, DispatchTyped
    <3>3. TypeOK' BY <1>1, <1>4, <1>8, <2>2, <2>3, <3>2 DEF TypeOK
    <3> QED BY <1>2, <1>3, <1>8, <2>1, <3>1, <3>3, DispatchKeeps DEF IInv
  <2> QED BY <2>4, <2>5
<1> QED BY <1>5, <1>6, <1>7, <1>8 DEF PollTakes

\* An await of the dispatch loop ends.
LEMMA PollResumesKeeps ==
    ASSUME IInv, PollSeeded \/ PollMarked
    PROVE  IInv'
<1>1. TypeOK BY DEF IInv
<1>2. CASE PollSeeded
  <2>1. held \in Ids /\ 0 \in Ids BY <1>1, Numbers DEF TypeOK
  <2> QED BY <1>2, <2>1, SeedKeeps DEF PollSeeded
<1>3. CASE PollMarked
  <2> USE DEF pollFrame, cloud, handling, listener, memory
  <2>1. at' \in Cams /\ poll' \in PollSteps
    BY <1>1, <1>3, NextCameraTyped DEF PollMarked
  <2>2. TypeOK' BY <1>1, <1>3, <2>1 DEF TypeOK, PollMarked
  <2>3. TriesLeft' BY <1>3 DEF IInv, TriesLeft, PollMarked
  <2> QED BY <1>3, <2>2, <2>3, QuietStep DEF PollMarked
<1> QED BY <1>2, <1>3

-----------------------------------------------------------------------------
\* Every step keeps the invariant.
LEMMA StepKeeps == IInv /\ [Next]_vars => IInv'
<1> SUFFICES ASSUME IInv, [Next]_vars PROVE IInv' OBVIOUS
<1>1. CASE UNCHANGED vars
  <2> USE DEF vars, cloud, memory, listener, polling, handling
  <2>1. TypeOK' BY <1>1 DEF IInv, TypeOK
  <2>2. TriesLeft' BY <1>1 DEF IInv, TriesLeft
  <2> QED BY <1>1, <2>1, <2>2, QuietStep
<1>2. CASE Next
  BY <1>2, EnvironmentKeeps, PushKeeps, HandlerWaitsKeeps, HandlerTakesKeeps,
     FetchKeeps, PollWritesKeeps, PollTakesKeeps, PollResumesKeeps
     DEF Next, HandlerStep
<1> QED BY <1>1, <1>2

\* The state of both event paths always satisfies the invariant.
THEOREM Inductive == Spec => []IInv
  BY InitHolds, StepKeeps, PTL DEF Spec

\* For any cameras, handlers and events, every variable keeps its type; no handler
\* of async_handle_fcm_push makes more attempts than its backoffs allow.
THEOREM TypeCorrect == Spec => []TypeOK
<1>1. IInv => TypeOK BY DEF IInv
<1> QED BY <1>1, Inductive, PTL

\* Push handlers and poll never both leave an event to the other: what either
\* writes to last_event_ids has been alerted, is the startup seed, or predates the
\* session.
THEOREM NoEventIsSwallowed == Spec => []BaselineWasAlerted
<1>1. IInv => BaselineWasAlerted BY DEF IInv
<1> QED BY <1>1, Inductive, PTL

\* However many handlers and polls overlap, alert_sent_ids lets an event be alerted
\* once per dedup window.
THEOREM OneAlertPerWindow == Spec => NoQuickRepeat
<1> DEFINE Once == \A c \in Cams, n \in 1..MaxEvents :
                     alerts'[c][n] # alerts[c][n] => ~Stamped(c, n) /\ Stamped(c, n)'
<1>1. ASSUME TypeOK, NEW c \in Cams, NEW n \in 1..MaxEvents, Dispatch(c, n),
             ~Stamped(c, n)
      PROVE  Once
  <2>1. Len(sent) + 1 \in 1..Len(sent') BY <1>1, DispatchTyped DEF TypeOK
  <2>2. Stamped(c, n)' BY <1>1, <2>1, DispatchTyped DEF Stamped
  <2> QED BY <1>1, <2>2, DispatchTyped
<1>2. IInv /\ [Next]_vars => [Once]_vars
  <2> SUFFICES ASSUME IInv, Next PROVE Once BY DEF vars
  <2>1. TypeOK BY DEF IInv
  <2>2. CASE UNCHANGED alerts BY <2>2
  <2>3. ASSUME NEW h \in Handlers, HandlerTakes(h) PROVE Once
    <3>1. hat[h] \in Cams /\ reply[h] \in Ids BY <2>1 DEF TypeOK
    <3>2. CASE UNCHANGED alerts BY <3>2
    <3>3. CASE /\ reply[h] # 0 /\ ~Stamped(hat[h], reply[h])
               /\ Dispatch(hat[h], reply[h])
      <4>1. reply[h] \in 1..MaxEvents BY <3>1, <3>3 DEF Ids
      <4> QED BY <1>1, <2>1, <3>1, <3>3, <4>1
    <3> QED BY <2>3, <3>2, <3>3 DEF HandlerTakes
  <2>4. CASE PollTakes
    <3>1. at \in Cams /\ cached[at] \in Ids BY <2>1 DEF TypeOK
    <3>2. CASE UNCHANGED alerts BY <3>2
    <3>3. CASE /\ cached[at] # 0 /\ ~Stamped(at, cached[at])
               /\ Dispatch(at, cached[at])
      <4>1. cached[at] \in 1..MaxEvents BY <3>1, <3>3 DEF Ids
      <4> QED BY <1>1, <2>1, <3>1, <3>3, <4>1
    <3> QED BY <2>4, <3>2, <3>3 DEF PollTakes
  <2>5. (\E h \in Handlers : HandlerTakes(h)) \/ PollTakes \/ UNCHANGED alerts
    BY DEF Next, Occurs, Indexes, PollFetchStep, PollLooks, PollCompares, PollLists,
           PollListFails, inFetch, Expires, Quiet, ListenerStarts, ListenerStops,
           PushArrives, HandlerStep, HandlerAsks, HandlerFetchFails, HandlerRetries,
           PollStarts, PollWrites, PollSeeded, PollMarked
  <2> QED BY <2>2, <2>3, <2>4, <2>5
<1> QED BY <1>2, Inductive, PTL DEF Spec, NoQuickRepeat, Stamped

=============================================================================
