--------------------------- MODULE CloudCallsProof ---------------------------
(***************************************************************************)
(* TLAPS proofs about what is sent to the Bosch cloud: the writes to one   *)
(* camera, for every number of writers and calls, and the bearer token     *)
(* every call carries (TokenAuth).                                         *)
(***************************************************************************)
EXTENDS TokenAuth, MC_CameraWrites, SequenceTheorems, FiniteSetTheorems, TLAPS

(***************************************************************************)
(* Privacy.                                                                *)
(***************************************************************************)
Ways == {"cloud", "retry", "lan", "shc"}
Oks == {"cloudOk", "retryOk", "lanOk", "shcOk"}

\* The privacy switch: its types, and what makes one of its writes the only one.
PrivacyTypes ==
    /\ cam \in BOOLEAN /\ shown \in BOOLEAN /\ last \in BOOLEAN
    /\ late \subseteq BOOLEAN /\ tick \subseteq BOOLEAN
    /\ age \in {"hot", "fresh", "old"}
    /\ quota \in BOOLEAN /\ waiting \in BOOLEAN /\ raced \in BOOLEAN /\ upset \in BOOLEAN
    /\ live \in BOOLEAN /\ warming \in BOOLEAN
    /\ write \in [Privacy!Tasks -> [pc : {"idle", "teardown"} \union Ways \union Oks, want : BOOLEAN]]

Undisturbed == ~raced /\ ~upset
Taken == \E t \in Privacy!Tasks : write[t].pc \in Oks

\* One write at a time, and it carries the last request unless that one waits.
OneWrite ==
    /\ \A t, u \in Privacy!Tasks : Privacy!Busy(t) /\ Privacy!Busy(u) => t = u
    /\ \A t \in Privacy!Tasks : Privacy!Busy(t) => pending # {} \/ write[t].want = last

\* The camera has what was asked for last when nothing is left to be written.
LastIsWritten ==
    /\ (pending = {} /\ \A t \in Privacy!Tasks : ~Privacy!Busy(t)) => cam = last
    /\ \A t \in Privacy!Tasks : write[t].pc \in Oks => cam = write[t].want

\* Between an answer and the next request taken the cache is the camera's
\* mode; once the window of the write is over nothing older is on its way.
CacheFollows ==
    ~Taken => /\ shown = cam
              /\ age = "old" => late = {} /\ tick \subseteq {cam}

\* Undisturbed: no write raced another and nothing failed or was pressed at the camera.
PrivacyInv ==
    /\ PrivacyTypes
    /\ pending # {} => pending = {last}
    /\ Privacy!Busy("loop") => ~waiting
    /\ Undisturbed => OneWrite /\ LastIsWritten /\ CacheFollows

(***************************************************************************)
(* A settings object.                                                      *)
(***************************************************************************)
\* The objects a settings endpoint holds, and the types of the module's variables.
Bodies == [Settings!Fields -> BOOLEAN]
SettingTypes ==
    /\ endpoint \in Settings!Endpoints
    /\ camera \in Bodies /\ acked \in Bodies
    /\ older \subseteq Bodies /\ cache \subseteq Bodies /\ fetched \subseteq Bodies
    /\ recent \in BOOLEAN /\ disturbed \in BOOLEAN
    /\ lockedBy \in {0, 1, 2}
    /\ call \in [{1, 2} -> [pc : {"idle", "fetch", "put", "answered"},
                            own : SUBSET Settings!Fields, v : BOOLEAN, body : Bodies]]

With(o, j) == Settings!Set(o, call[j].own, call[j].v)
Answer(j) == call[j].pc = "answered"
NoAnswerDue == \A j \in {1, 2} : ~Answer(j)

\* A call is one the endpoint offers; calls that share a lock, or never meet, do not overlap.
OneCall ==
    /\ \A j \in {1, 2} : Settings!Busy(j) => call[j].own \in endpoint.calls
    /\ endpoint.lock => \A j \in {1, 2} : Settings!Busy(j) => lockedBy = j
    /\ (Settings!Protected /\ ~disturbed) => ~(Settings!Busy(1) /\ Settings!Busy(2))

\* What the camera has, and what is about to be sent to it.
Written ==
    /\ NoAnswerDue => camera = acked
    /\ \A j \in {1, 2} : Answer(j) => camera = With(acked, j)
    /\ \A j \in {1, 2} : (call[j].pc \in {"put", "answered"} /\ endpoint.base # "own")
                            => call[j].body = With(acked, j)

\* Where every write stamps, the cache is the camera's object, or during a
\* write the one before it, and outside the window nothing older is read.
Cached ==
    /\ NoAnswerDue => cache \subseteq {camera}
    /\ NoAnswerDue /\ ~recent => older = {} /\ fetched \subseteq {camera}
    /\ ~NoAnswerDue => cache \subseteq {acked, camera}
    /\ ~NoAnswerDue /\ ~recent => older \subseteq {acked} /\ fetched \subseteq {acked, camera}
    /\ \A j \in {1, 2} : call[j].pc = "fetch" => ~recent

AtMostOne(S) == S = {} \/ \E o \in Bodies : S = {o}

\* An object is read and sent whole: undisturbed, what is written is what calls set so far.
SettingInv ==
    /\ SettingTypes
    /\ OneCall
    /\ \A j \in {1, 2} : Settings!Busy(j) => cache # {}
    /\ recent => cache # {}
    /\ AtMostOne(cache) /\ AtMostOne(fetched)
    /\ (Settings!Protected /\ ~disturbed) => Written
    /\ (Settings!Protected /\ ~disturbed /\ endpoint.stamps = Settings!Fields) => Cached
    /\ endpoint.stamps = {} => ~recent

(***************************************************************************)
(* The lights.                                                             *)
(***************************************************************************)
\* The lights: brightness by group, the kinds of call and the steps of one.
Lamps == [Lights!Groups -> BOOLEAN]
Kinds == {"none", "rgb", "wall", "camera", "front", "frontLight", "intensity", "led", "white"}
LightSteps == {"idle", "put", "putDone", "enable", "enableDone", "enable2", "enable2Done",
               "fallback", "fallbackDone", "zero"}

\* The groups a call names are those its kind is about.
OpFits(op) ==
    /\ op \in [kind : Kinds, g : SUBSET Lights!Groups, v : BOOLEAN]
    /\ op.kind = "rgb" => op.g \subseteq Lights!Wall
    /\ op.kind = "wall" => op.g = Lights!Wall
    /\ op.kind \in {"front", "frontLight", "intensity"} => op.g = {"front"}

\* The types of the lights' variables.
LightTypes ==
    /\ stored \in Lamps /\ enabled \in Lamps /\ lsc \in Lamps
    /\ lag \subseteq Lamps
    /\ sw \in [front : BOOLEAN, wall : BOOLEAN, light : BOOLEAN]
    /\ fresh \in BOOLEAN /\ known \in BOOLEAN /\ off \in {"no", "alone", "yes"}
    /\ job \in [Lights!Writers -> [pc : LightSteps, op : [kind : Kinds, g : SUBSET Lights!Groups, v : BOOLEAN], body : Lamps, good : BOOLEAN]]
    /\ \A w \in Lights!Writers : OpFits(job[w].op)
    /\ \A w \in Lights!Writers : job[w].pc # "idle" =>
           job[w].op.kind # "none" /\ (job[w].op.kind = "white" => job[w].op.v)
    /\ poll \in [pc : {"idle", "got"}, data : Lamps]
    /\ confirm \in [pc : {"idle", "sleep", "got"}, tries : {0, 1}, data : Lamps]
    /\ menu \in Menus

Dark == ~sw.front /\ ~sw.wall /\ ~sw.light

\* An OFF that nothing disturbs is the only call; once the caches are dark no reader's stamp is
\* current.
OffAlone ==
    /\ off # "no" => \A w \in Lights!Writers :
           Lights!Busy(w) => /\ job[w].op.kind = "camera" /\ ~job[w].op.v
                             /\ \A x \in Lights!Writers : Lights!Busy(x) => x = w
    /\ (off = "alone" /\ fresh /\ \E w \in Lights!Writers : job[w].pc = "zero") => Dark /\ current = {}
    /\ off = "yes" => /\ fresh /\ Dark /\ current = {} /\ lsc = Lights!Zero
                      /\ \A w \in Lights!Writers : ~Lights!Busy(w)

\* The groups of the enable switches a call toggles.
Toggled(op) == UNION {Lights!Switch(x) : x \in op.g}

\* While the light cache is known to be right: what it has to do with the
\* camera at each step of the one call under way.
SentRight(w) ==
    LET j == job[w]
    IN  /\ \A g \in Lights!Groups : j.body[g] = IF g \in j.op.g THEN j.op.v ELSE lsc[g]
        /\ j.op.kind # "camera"
InPace(w) ==
    LET j == job[w]
    IN  /\ j.good
        /\ j.pc = "put" => lsc = Lights!Reported /\ SentRight(w)
        /\ j.pc = "putDone" => stored = j.body /\ Lights!Reported = j.body /\ SentRight(w)
        /\ (j.pc = "enable" /\ j.op.kind # "camera") =>
               /\ lsc = Lights!Reported
               /\ \A x \in Toggled(j.op) : IF j.op.v THEN stored[x] = lsc[x] ELSE j.op.kind = "front" \/ ~lsc[x]
        /\ (j.pc = "enableDone" /\ j.op.kind # "camera") => Lights!Reported = Lights!WithoutFront(j.op)
        /\ (j.pc \in {"enableDone", "enable2"} /\ j.op.kind = "camera" /\ ~j.op.v) => ~enabled["front"]
        /\ j.pc \in {"enable2Done", "zero"} /\ ~j.op.v => \A g \in Lights!Groups : ~enabled[g]
        /\ j.pc \in {"enable2", "enable2Done", "zero"} => j.op.kind = "camera"
        /\ j.pc = "zero" => ~j.op.v
        /\ j.pc \notin {"fallback", "fallbackDone"}

\* While the cache is known to be right one call at most is under way, in pace with the camera.
CacheIsRight ==
    known => /\ (\A w \in Lights!Writers : ~Lights!Busy(w)) => lsc = Lights!Reported
             /\ \A w, x \in Lights!Writers : Lights!Busy(w) /\ Lights!Busy(x) => x = w
             /\ \A w \in Lights!Writers : Lights!Busy(w) => InPace(w)

\* Together they are inductive.
LightInv == LightTypes /\ OffAlone /\ CacheIsRight

\* Before anything is asked for there is no write, and the cache is the camera's mode.
LEMMA PrivacyInit == Privacy!Init => PrivacyInv
<1> SUFFICES ASSUME Privacy!Init PROVE PrivacyInv
  OBVIOUS
<1> USE DEF Privacy!Init, Privacy!NoJob, Privacy!Tasks, Privacy!Calls
<1>1. PrivacyTypes
  BY DEF PrivacyTypes
<1>2. \A t \in Privacy!Tasks : write[t].pc = "idle"
  OBVIOUS
<1>3. OneWrite /\ LastIsWritten /\ CacheFollows
  BY <1>2 DEF Privacy!Busy, OneWrite, LastIsWritten, CacheFollows, Oks
<1> QED
  BY <1>1, <1>2, <1>3 DEF PrivacyInv, Privacy!Busy

\* Every step of the switch keeps its invariant: one step for each action.
LEMMA PrivacyStep == ASSUME PrivacyInv, Privacy!Next PROVE PrivacyInv'
<1> USE DEF Privacy!Tasks, Privacy!Calls, Privacy!Busy, Ways, Oks, PrivacyTypes
<1>t. PrivacyTypes
  BY DEF PrivacyInv
<1>1. ASSUME NEW c \in Privacy!Calls, NEW v \in BOOLEAN, Privacy!_request_privacy(c, v) PROVE PrivacyInv'
  <2>0. \/ UNCHANGED <<write, raced>> /\ pending' = {v} /\ waiting' = (waiting \/ ~Privacy!Busy("loop"))
        \/ /\ write' = [write EXCEPT ![c] = [pc |-> IF v /\ live THEN "teardown" ELSE Privacy!FirstWay, want |-> v]]
           /\ raced' = (raced \/ \E x \in Privacy!Tasks \ {c} : Privacy!Busy(x))
           /\ pending' = {} /\ waiting' = waiting /\ ~Privacy!Busy(c)
    BY <1>1 DEF Privacy!_request_privacy, Privacy!_apply_privacy, Privacy!Newest
  <2>u. UNCHANGED <<cam, late, shown, age, quota, tick, live, warming, upset>> /\ last' = v
    BY <1>1 DEF Privacy!_request_privacy
  <2>f. Privacy!FirstWay \in {"cloud", "lan"}
    BY DEF Privacy!FirstWay
  <2>2. last' = v /\ (pending' = {v} \/ pending' = {})
    BY <2>0, <2>u
  <2>a. waiting' \in BOOLEAN /\ raced' \in BOOLEAN
    BY <2>0, <1>t
  <2>b. write' \in [Privacy!Tasks -> [pc : {"idle", "teardown"} \union Ways \union Oks, want : BOOLEAN]]
    <3> DEFINE p == IF v /\ live THEN "teardown" ELSE Privacy!FirstWay
    <3>1. p \in {"teardown", "cloud", "lan"}
      BY <2>f
    <3> HIDE DEF p
    <3>2. write' = write \/ write' = [write EXCEPT ![c] = [pc |-> p, want |-> v]]
      BY <2>0 DEF p
    <3> QED
      BY <3>1, <3>2, <1>t
  <2>1. PrivacyTypes'
    BY <2>a, <2>b, <2>2, <2>u, <1>t
  <2>3. (Privacy!Busy("loop") => ~waiting)'
    BY <2>0, <2>u, <1>t DEF PrivacyInv
  <2>4. (Undisturbed => OneWrite /\ LastIsWritten /\ CacheFollows)'
    <3> SUFFICES ASSUME Undisturbed' PROVE (OneWrite /\ LastIsWritten /\ CacheFollows)'
      OBVIOUS
    <3>0. Undisturbed /\ OneWrite /\ LastIsWritten /\ CacheFollows
      BY <2>0, <2>u, <1>t DEF Undisturbed, PrivacyInv
    <3>1. CASE UNCHANGED write /\ pending' = {v}
      BY <3>0, <3>1, <2>u DEF OneWrite, LastIsWritten, CacheFollows, Taken
    <3>2. ASSUME NEW p \in {"teardown", "cloud", "lan"},
                 write' = [write EXCEPT ![c] = [pc |-> p, want |-> v]],
                 \A x \in Privacy!Tasks \ {c} : ~Privacy!Busy(x), ~Privacy!Busy(c)
          PROVE  (OneWrite /\ LastIsWritten /\ CacheFollows)'
      <4>1. /\ write'[c].pc = p /\ write'[c].want = v
            /\ \A x \in Privacy!Tasks \ {c} : write'[x] = write[x] /\ write[x].pc = "idle"
        BY <3>2, <1>t
      <4>2. ~Taken /\ ~Taken'
        BY <4>1, <3>2 DEF Taken
      <4> QED
        BY <4>1, <4>2, <3>0, <2>u DEF OneWrite, LastIsWritten, CacheFollows
    <3>3. CASE write' = [write EXCEPT ![c] = [pc |-> IF v /\ live THEN "teardown" ELSE Privacy!FirstWay, want |-> v]]
               /\ raced' = (raced \/ \E x \in Privacy!Tasks \ {c} : Privacy!Busy(x)) /\ ~Privacy!Busy(c)
      <4>1. \A x \in Privacy!Tasks \ {c} : ~Privacy!Busy(x)
        BY <3>3 DEF Undisturbed
      <4>2. (IF v /\ live THEN "teardown" ELSE Privacy!FirstWay) \in {"teardown", "cloud", "lan"}
        BY <2>f
      <4> QED
        BY <3>2, <3>3, <4>1, <4>2
    <3> QED
      BY <2>0, <3>1, <3>3
  <2> QED BY <2>1, <2>2, <2>3, <2>4 DEF PrivacyInv
<1>2. ASSUME NEW t \in Privacy!Tasks, Privacy!FailsOver(t) PROVE PrivacyInv'
  <2>0. upset' /\ UNCHANGED <<cam, late, shown, age, pending, waiting, tick, last, raced>>
    BY <1>2 DEF Privacy!FailsOver
  <2>3. \/ \E p \in Ways : write' = [write EXCEPT ![t].pc = p]
        \/ write' = [write EXCEPT ![t] = [pc |-> "idle", want |-> FALSE]]
    <3> DEFINE way == CHOOSE x \in Privacy!Ways : write[t].pc \in {x, Privacy!Answered(x)}
    <3>1. CASE way = "cloud"
      BY <1>2, <3>1 DEF Privacy!FailsOver
    <3>2. CASE way = "retry"
      BY <1>2, <3>2 DEF Privacy!FailsOver
    <3>3. CASE way = "lan"
      BY <1>2, <3>3 DEF Privacy!FailsOver, Privacy!NoJob
    <3>4. CASE way \notin {"cloud", "retry", "lan"}
      BY <1>2, <3>4 DEF Privacy!FailsOver, Privacy!NoJob
    <3> QED
      BY <3>1, <3>2, <3>3, <3>4
  <2>4. write[t].pc # "idle"
    BY <1>2 DEF Privacy!FailsOver, Privacy!Ways, Privacy!Answered
  <2>1. PrivacyTypes'
    <3>1. quota' \in BOOLEAN
      BY <1>2, <1>t DEF Privacy!FailsOver
    <3>2. write' \in [Privacy!Tasks -> [pc : {"idle", "teardown"} \union Ways \union Oks, want : BOOLEAN]]
      <4>1. CASE write' = [write EXCEPT ![t] = [pc |-> "idle", want |-> FALSE]]
        <5>1. [pc |-> "idle", want |-> FALSE] \in [pc : {"idle", "teardown"} \union Ways \union Oks, want : BOOLEAN]
          OBVIOUS
        <5> QED
          BY <4>1, <5>1, <1>t
      <4>2. CASE \E p \in Ways : write' = [write EXCEPT ![t].pc = p]
        BY <4>2, <1>t
      <4> QED
        BY <2>3, <4>1, <4>2
    <3>3. live' = live /\ warming' = warming
      BY <1>2 DEF Privacy!FailsOver
    <3> QED
      BY <3>1, <3>2, <3>3, <2>0, <1>t
  <2>2. ~Privacy!Busy("loop") => ~Privacy!Busy("loop")'
    BY <2>3, <2>4, <1>t
  <2> QED BY <2>0, <2>1, <2>2 DEF PrivacyInv, Undisturbed
<1>3. ASSUME NEW t \in Privacy!Tasks, Privacy!TornDown(t) PROVE PrivacyInv'
  <2>1. PICK p \in {"cloud", "lan"} : write' = [write EXCEPT ![t].pc = p]
    <3>1. Privacy!FirstWay \in {"cloud", "lan"}
      BY DEF Privacy!FirstWay
    <3> QED
      BY <1>3, <3>1 DEF Privacy!TornDown
  <2>2. /\ write[t].pc = "teardown" /\ live' = FALSE /\ warming' = FALSE
        /\ UNCHANGED <<cam, late, shown, age, quota, pending, waiting, tick, last, raced, upset>>
    BY <1>3 DEF Privacy!TornDown
  <2>3. PrivacyTypes'
    <3>1. live' \in BOOLEAN /\ warming' \in BOOLEAN
      BY <2>2
    <3>2. write' \in [Privacy!Tasks -> [pc : {"idle", "teardown"} \union Ways \union Oks, want : BOOLEAN]]
      BY <2>1, <1>t
    <3> QED
      BY <2>2, <3>1, <3>2, <1>t
  <2> QED
    BY <2>1, <2>2, <2>3, <1>t DEF PrivacyInv, Undisturbed, OneWrite, LastIsWritten, CacheFollows, Taken
<1>4. ASSUME NEW t \in Privacy!Tasks, Privacy!Takes(t) PROVE PrivacyInv'
  BY <1>4, <1>t DEF Privacy!Takes, Privacy!Ways, Privacy!Answered, PrivacyInv, Undisturbed, OneWrite, LastIsWritten, CacheFollows, Taken
<1>5. ASSUME NEW t \in Privacy!Tasks, Privacy!async_cloud_set_privacy_mode(t) PROVE PrivacyInv'
  BY <1>5, <1>t DEF Privacy!async_cloud_set_privacy_mode, Privacy!Ways, Privacy!Answered, Privacy!NoJob, PrivacyInv, Undisturbed, OneWrite, LastIsWritten, CacheFollows, Taken
<1>6. CASE Privacy!_pending_privacy_loop
  <2>0. pending # {} => (CHOOSE p \in pending : TRUE) = last
    BY DEF PrivacyInv
  <2>1. /\ waiting /\ waiting' = FALSE /\ pending' = {} /\ ~Privacy!Busy("loop")
        /\ UNCHANGED <<cam, late, shown, age, quota, tick, live, warming, last, upset>>
    BY <1>6 DEF Privacy!_pending_privacy_loop, PrivacyInv
  <2>2. CASE pending = {}
    <3>1. UNCHANGED <<write, raced>>
      BY <1>6, <2>2 DEF Privacy!_pending_privacy_loop
    <3>2. waiting' \in BOOLEAN /\ UNCHANGED <<pending, cam, late, shown, age, quota, tick, live, warming, last, upset, write, raced>>
      BY <2>1, <2>2, <3>1
    <3>3. PrivacyTypes'
      BY <3>2, <1>t
    <3> QED
      BY <2>1, <3>2, <3>3 DEF PrivacyInv, Undisturbed, OneWrite, LastIsWritten, CacheFollows, Taken
  <2>3. CASE pending # {}
    <3>1. Privacy!_apply_privacy("loop", last)
      BY <1>6, <2>0, <2>3 DEF Privacy!_pending_privacy_loop
    <3>2. PICK p \in {"teardown", "cloud", "lan"} : write' = [write EXCEPT !["loop"] = [pc |-> p, want |-> last]]
      <4>1. (IF last /\ live THEN "teardown" ELSE Privacy!FirstWay) \in {"teardown", "cloud", "lan"}
        BY DEF Privacy!FirstWay
      <4> QED
        BY <3>1, <4>1 DEF Privacy!_apply_privacy
    <3>3. raced' = (raced \/ \E x \in Privacy!Tasks \ {"loop"} : Privacy!Busy(x))
      BY <3>1 DEF Privacy!_apply_privacy
    <3>4. raced' \in BOOLEAN
      BY <3>3, <1>t
    <3>5. PrivacyTypes'
      BY <2>1, <3>2, <3>4, <1>t
    <3>6. ASSUME Undisturbed' PROVE (OneWrite /\ LastIsWritten /\ CacheFollows)'
      <4>1. Undisturbed /\ OneWrite /\ LastIsWritten /\ CacheFollows /\ \A x \in Privacy!Tasks \ {"loop"} : ~Privacy!Busy(x)
        BY <3>3, <3>6, <2>1, <1>t DEF Undisturbed, PrivacyInv
      <4>2. /\ write'["loop"].pc = p /\ write'["loop"].want = last
            /\ \A x \in Privacy!Tasks \ {"loop"} : write'[x] = write[x] /\ write[x].pc = "idle"
        BY <3>2, <4>1, <1>t
      <4>3. ~Taken /\ ~Taken'
        BY <4>1, <4>2, <2>1 DEF Taken
      <4> QED
        BY <4>1, <4>2, <4>3, <2>1 DEF OneWrite, LastIsWritten, CacheFollows
    <3> QED
      BY <2>1, <3>5, <3>6 DEF PrivacyInv
  <2> QED
    BY <2>2, <2>3
<1>7. CASE Privacy!TearDown \/ Privacy!WarmsUp \/ Privacy!QuotaEnds \/ Privacy!Starts
  <2>1. UNCHANGED <<cam, late, shown, age, pending, waiting, write, tick, last, raced, upset>>
    BY <1>7 DEF Privacy!TearDown, Privacy!WarmsUp, Privacy!QuotaEnds, Privacy!Starts
  <2>2. live' \in BOOLEAN /\ warming' \in BOOLEAN /\ quota' \in BOOLEAN
    BY <1>7, <1>t DEF Privacy!TearDown, Privacy!WarmsUp, Privacy!QuotaEnds, Privacy!Starts
  <2> QED
    BY <2>1, <2>2, <1>t DEF PrivacyInv, Undisturbed, OneWrite, LastIsWritten, CacheFollows, Taken
<1>8. CASE Privacy!Settles \/ Privacy!Ages \/ Privacy!Fetches
  BY <1>8, <1>t DEF Privacy!Settles, Privacy!Ages, Privacy!Fetches, PrivacyInv, Undisturbed, OneWrite, LastIsWritten, CacheFollows, Taken
<1>9. CASE Privacy!_poll_cam_info_caches
  <2>0. (CHOOSE v \in tick : TRUE) \in tick
    BY <1>9 DEF Privacy!_poll_cam_info_caches
  <2> QED
    BY <1>9, <1>t, <2>0 DEF Privacy!_poll_cam_info_caches, PrivacyInv, Undisturbed, OneWrite, LastIsWritten, CacheFollows, Taken
<1>10. CASE Privacy!_update_one_camera_shc_state
  BY <1>10, <1>t DEF Privacy!_update_one_camera_shc_state, PrivacyInv, Undisturbed, OneWrite, LastIsWritten, CacheFollows, Taken
<1>11. CASE Privacy!Button
  BY <1>11, <1>t DEF Privacy!Button, Privacy!Spend, PrivacyInv, Undisturbed
<1> QED
  BY <1>1, <1>2, <1>3, <1>4, <1>5, <1>6, <1>7, <1>8, <1>9, <1>10, <1>11 DEF Privacy!Next, Privacy!Work, Privacy!Poll

\* The invariant says what the run checks: the last request holds and is shown.
LEMMA PrivacyHolds == PrivacyInv => Privacy!RequestHolds
BY DEF PrivacyInv, PrivacyTypes, Undisturbed, OneWrite, LastIsWritten, CacheFollows, Taken, Oks, Ways,
       Privacy!RequestHolds, Privacy!Quiet, Privacy!Busy

\* The table of the endpoints: what each row says of its lock, body, cache and stamps.
Records == [lock : BOOLEAN, base : {"own", "cache", "fetch", "recent"}, keeps : {"own", "whole", "none"},
            stamps : SUBSET Settings!Fields, calls : SUBSET (SUBSET Settings!Fields)]
Row(e, locks, base, keeps, stamps, calling) ==
    e \in Records /\ e.lock = locks /\ e.base = base /\ e.keeps = keeps /\ e.stamps = stamps /\ e.calls = calling

\* A row made from another one by changing a field: its stamps.
LEMMA Restamped ==
  ASSUME NEW e, NEW s \in SUBSET Settings!Fields, NEW locks, NEW base, NEW keeps, NEW stamps, NEW calling,
         Row(e, locks, base, keeps, stamps, calling)
  PROVE  Row([e EXCEPT !.stamps = s], locks, base, keeps, s, calling)
BY DEF Row, Records

\* Its base.
LEMMA Rebased ==
  ASSUME NEW e, NEW s \in {"own", "cache", "fetch", "recent"}, NEW locks, NEW base, NEW keeps, NEW stamps, NEW calling,
         Row(e, locks, base, keeps, stamps, calling)
  PROVE  Row([e EXCEPT !.base = s], locks, s, keeps, stamps, calling)
BY DEF Row, Records

\* What it keeps of the answer.
LEMMA Keeping ==
  ASSUME NEW e, NEW s \in {"own", "whole", "none"}, NEW locks, NEW base, NEW keeps, NEW stamps, NEW calling,
         Row(e, locks, base, keeps, stamps, calling)
  PROVE  Row([e EXCEPT !.keeps = s], locks, base, s, stamps, calling)
BY DEF Row, Records

\* What the proof uses of the thirteen endpoints: which of them are protected, and how.
LEMMA EndpointFacts ==
  \A e \in Settings!Endpoints :
    /\ e.lock \in BOOLEAN /\ {} \notin e.calls
    /\ e.base \in {"own", "cache", "fetch", "recent"} /\ e.keeps \in {"own", "whole", "none"}
    /\ e.stamps \subseteq Settings!Fields /\ e.calls \subseteq SUBSET Settings!Fields
    /\ (e.base = "own" \/ (e.lock /\ e.stamps = Settings!Fields)) =>
         \/ e.base = "own" /\ ~e.lock /\ e.calls = {{"a"}} /\ e.stamps = Settings!Fields /\ e.keeps = "own"
         \/ e.base = "own" /\ ~e.lock /\ e.calls = {{"a"}} /\ e.stamps = {}
         \/ e.lock /\ e.stamps = Settings!Fields /\ e.base \in {"cache", "recent"} /\ e.keeps \in {"own", "whole"}
<1>f. {} \in SUBSET Settings!Fields /\ {"b"} \in SUBSET Settings!Fields /\ Settings!Fields = {"a", "b"}
  BY DEF Settings!Fields
<1>g. /\ {} \notin {{"a"}} /\ {} \notin {{"a"}, {"b"}} /\ {} \notin {{"a"}, {"a", "b"}}
      /\ "none" \in {"own", "whole", "none"} /\ "cache" \in {"own", "cache", "fetch", "recent"}
  OBVIOUS
<1>1. Row(Settings!toggle, FALSE, "own", "own", Settings!Fields, {{"a"}})
  BY DEF Row, Records, Settings!Fields, Settings!toggle, Settings!Only
<1>2. Row(Settings!lens_elevation, FALSE, "own", "own", {}, {{"a"}})
  BY <1>1, <1>f, Restamped DEF Settings!lens_elevation
<1>3. Row(Settings!recording_options, FALSE, "own", "none", {}, {{"a"}})
  <2>1. Row([Settings!toggle EXCEPT !.stamps = {}], FALSE, "own", "own", {}, {{"a"}})
    BY <1>1, <1>f, Restamped
  <2>2. Row([[Settings!toggle EXCEPT !.stamps = {}] EXCEPT !.keeps = "none"], FALSE, "own", "none", {}, {{"a"}})
    BY <2>1, <1>g, Keeping
  <2> QED
    BY <2>2 DEF Settings!recording_options
<1>4. Row(Settings!motion, FALSE, "cache", "none", {}, {{"a"}})
  BY <1>3, <1>g, Rebased DEF Settings!motion
<1>5. Row(Settings!lighting_ambient, FALSE, "fetch", "whole", {}, {{"a"}})
  BY DEF Row, Records, Settings!Fields, Settings!lighting_ambient, Settings!Only
<1>6. Row(Settings!notifications, FALSE, "cache", "whole", {}, {{"a"}, {"b"}})
  BY DEF Row, Records, Settings!Fields, Settings!notifications, Settings!Each
<1>7. Settings!lighting_motion = Settings!notifications /\ Settings!lighting = Settings!notifications
  BY DEF Settings!lighting_motion, Settings!lighting
<1>8. Row(Settings!alarm_settings, FALSE, "cache", "whole", {"b"}, {{"a"}, {"b"}})
  BY <1>6, <1>f, Restamped DEF Settings!alarm_settings
<1>9. Row(Settings!intrusionDetectionConfig, FALSE, "cache", "whole", Settings!Fields, {{"a"}, {"b"}})
  BY <1>6, Restamped DEF Settings!intrusionDetectionConfig
<1>10. Row(Settings!audio, TRUE, "cache", "own", {}, {{"a"}, {"b"}})
  BY DEF Row, Records, Settings!Fields, Settings!audio, Settings!Each
<1>11. Row(Settings!audioDetectionConfig, TRUE, "cache", "own", Settings!Fields, {{"a"}, {"b"}})
  BY <1>10, Restamped DEF Settings!audioDetectionConfig
<1>12. Row(Settings!lighting_options, TRUE, "recent", "whole", Settings!Fields, {{"a"}, {"a", "b"}})
  BY DEF Row, Records, Settings!Fields, Settings!lighting_options
<1>13. TAKE e \in Settings!Endpoints
<1>14. e \in Records
  BY <1>1, <1>2, <1>3, <1>4, <1>5, <1>6, <1>7, <1>8, <1>9, <1>10, <1>11, <1>12 DEF Settings!Endpoints, Row
<1>15. {} \notin e.calls
  BY <1>g, <1>1, <1>2, <1>3, <1>4, <1>5, <1>6, <1>7, <1>8, <1>9, <1>10, <1>11, <1>12 DEF Settings!Endpoints, Row
<1>16. ASSUME e.base = "own" \/ (e.lock /\ e.stamps = Settings!Fields)
       PROVE  \/ e.base = "own" /\ ~e.lock /\ e.calls = {{"a"}} /\ e.stamps = Settings!Fields /\ e.keeps = "own"
              \/ e.base = "own" /\ ~e.lock /\ e.calls = {{"a"}} /\ e.stamps = {}
              \/ e.lock /\ e.stamps = Settings!Fields /\ e.base \in {"cache", "recent"} /\ e.keeps \in {"own", "whole"}
  <2>1. {} # Settings!Fields
    BY <1>f
  <2> QED
    BY <2>1, <1>16, <1>1, <1>2, <1>3, <1>4, <1>5, <1>6, <1>7, <1>8, <1>9, <1>10, <1>11, <1>12 DEF Settings!Endpoints, Row
<1> QED
  BY <1>14, <1>15, <1>16 DEF Records

\* Setting a call's fields twice is setting them once.
LEMMA SetTyped ==
  ASSUME NEW o \in Bodies, NEW own \in SUBSET Settings!Fields, NEW v \in BOOLEAN
  PROVE  /\ Settings!Set(o, own, v) \in Bodies
         /\ Settings!Set(Settings!Set(o, own, v), own, v) = Settings!Set(o, own, v)
BY DEF Bodies, Settings!Set

\* Before the first call the object is read, acknowledged, and nothing older is about.
LEMMA SettingInit == Settings!Init => SettingInv
<1> SUFFICES ASSUME Settings!Init PROVE SettingInv
  OBVIOUS
<1> USE DEF Settings!Init, Settings!NoJob, Settings!Jobs, Settings!Nobody, Settings!Start
<1>1. SettingTypes
  BY DEF SettingTypes, Bodies
<1>2. \A j \in {1, 2} : call[j].pc = "idle"
  OBVIOUS
<1>3. OneCall /\ Written /\ Cached
  BY <1>2 DEF Settings!Busy, OneCall, Written, Cached, NoAnswerDue, Answer
<1> QED
  BY <1>1, <1>2, <1>3 DEF SettingInv, AtMostOne, Settings!Busy

\* The invariant says what the run checks: nothing that was acknowledged is undone.
LEMMA SettingHolds == SettingInv => Settings!NothingUndone
<1> SUFFICES ASSUME SettingInv, Settings!Protected, ~disturbed, \A j \in Settings!Jobs : ~Settings!Busy(j)
             PROVE  camera = acked /\ (recent => cache = {acked})
  BY DEF Settings!NothingUndone
<1>1. NoAnswerDue
  BY DEF NoAnswerDue, Answer, Settings!Busy, Settings!Jobs
<1>2. camera = acked
  BY <1>1 DEF SettingInv, Written
<1>3. ASSUME recent PROVE cache = {acked}
  <2>1. PICK o \in Bodies : cache = {o}
    BY <1>3 DEF SettingInv, AtMostOne
  <2>2. endpoint \in Settings!Endpoints /\ endpoint.stamps # {}
    BY <1>3 DEF SettingInv, SettingTypes
  <2>3. endpoint.stamps = Settings!Fields
    BY <2>2, EndpointFacts DEF Settings!Protected
  <2>4. cache \subseteq {camera}
    BY <1>1, <2>3 DEF SettingInv, Cached
  <2> QED
    BY <2>1, <2>4, <1>2
<1> QED
  BY <1>2, <1>3

\* Steps that leave the calls alone, and what they may change of the rest.
LEMMA Elsewhere ==
  ASSUME SettingInv, SettingTypes',
         UNCHANGED <<endpoint, camera, lockedBy, call, acked, disturbed>>,
         recent' => recent,
         recent /\ ~recent' => older = {} /\ fetched \subseteq {camera},
         older' \subseteq older,
         fetched' \subseteq fetched \union older \union {camera},
         cache' = cache \/ (~recent /\ fetched # {} /\ cache' = fetched),
         AtMostOne(cache'), AtMostOne(fetched')
  PROVE  SettingInv'
<1>1. OneCall'
  BY DEF SettingInv, OneCall, Settings!Busy, Settings!Protected
<1>2. cache # {} => cache' # {}
  OBVIOUS
<1>3. (\A j \in {1, 2} : Settings!Busy(j) => cache # {})'
  BY <1>2 DEF SettingInv, Settings!Busy
<1>4. (Settings!Protected /\ ~disturbed => Written)'
  BY DEF SettingInv, Settings!Protected, Written, NoAnswerDue, Answer, With
<1>5. ASSUME Settings!Protected, ~disturbed, endpoint.stamps = Settings!Fields PROVE Cached'
  <2>1. Cached
    BY <1>5 DEF SettingInv
  <2>2. (NoAnswerDue' <=> NoAnswerDue) /\ \A j \in {1, 2} : call'[j].pc = call[j].pc
    BY DEF NoAnswerDue, Answer
  <2>3. CASE NoAnswerDue
    <3>1. cache' \subseteq {camera}
      BY <2>1, <2>3 DEF Cached
    <3>2. ~recent' => older' = {} /\ fetched' \subseteq {camera}
      BY <2>1, <2>3 DEF Cached
    <3> QED
      BY <2>1, <2>2, <2>3, <3>1, <3>2 DEF Cached
  <2>4. CASE ~NoAnswerDue
    <3>1. cache' \subseteq {acked, camera}
      BY <2>1, <2>4 DEF Cached
    <3>2. ~recent' => older' \subseteq {acked} /\ fetched' \subseteq {acked, camera}
      BY <2>1, <2>4 DEF Cached
    <3> QED
      BY <2>1, <2>2, <2>4, <3>1, <3>2 DEF Cached
  <2> QED
    BY <2>3, <2>4
<1>6. recent' => cache' # {}
  BY <1>2 DEF SettingInv
<1>7. endpoint'.stamps = {} => ~recent'
  BY DEF SettingInv
<1> QED
  BY <1>1, <1>3, <1>4, <1>5, <1>6, <1>7 DEF SettingInv, Settings!Protected

\* Every step of a settings object keeps its invariant: one step for each action.
LEMMA SettingStep == ASSUME SettingInv, Settings!Next PROVE SettingInv'
<1> USE DEF Settings!Jobs, Settings!Nobody
<1>t. SettingTypes
  BY DEF SettingInv
<1>1. ASSUME NEW j \in {1, 2}, Settings!Call(j) PROVE SettingInv'
  <2>1. PICK own \in endpoint.calls, v \in BOOLEAN :
          /\ call' = [call EXCEPT ![j] =
                [pc |-> IF endpoint.base = "fetch" \/ (endpoint.base = "recent" /\ ~recent) THEN "fetch" ELSE "put",
                 own |-> own, v |-> v, body |-> Settings!Set(Settings!Held, own, v)]]
          /\ disturbed' = (disturbed \/ \E x \in {1, 2} \ {j} : Settings!Busy(x) /\ call[x].own \intersect own # {})
    BY <1>1 DEF Settings!Call, Settings!cached_if_write_locked
  <2>2. /\ UNCHANGED <<endpoint, camera, older, cache, recent, fetched, acked>>
        /\ ~Settings!Busy(j) /\ cache # {} /\ (endpoint.lock => lockedBy = 0)
        /\ lockedBy' = IF endpoint.lock THEN j ELSE lockedBy
    BY <1>1 DEF Settings!Call
  <2>3. /\ Settings!Held \in Bodies /\ cache = {Settings!Held}
    <3>1. PICK o \in Bodies : cache = {o}
      BY <2>2 DEF SettingInv, AtMostOne
    <3> QED
      BY <3>1 DEF Settings!Held
  <2>4. endpoint \in Settings!Endpoints /\ own \in SUBSET Settings!Fields /\ own # {}
    BY <1>t, EndpointFacts DEF SettingTypes
  <2>5. PICK p \in {"fetch", "put"} :
          /\ p = "fetch" => endpoint.base = "fetch" \/ (endpoint.base = "recent" /\ ~recent)
          /\ call' = [call EXCEPT ![j] = [pc |-> p, own |-> own, v |-> v, body |-> Settings!Set(Settings!Held, own, v)]]
    <3> DEFINE p == IF endpoint.base = "fetch" \/ (endpoint.base = "recent" /\ ~recent) THEN "fetch" ELSE "put"
    <3> p \in {"fetch", "put"}
      OBVIOUS
    <3> QED
      BY <2>1
  <2>6. Settings!Set(Settings!Held, own, v) \in Bodies
    BY <2>3, <2>4, SetTyped
  <2>7. SettingTypes'
    <3>1. disturbed' \in BOOLEAN
      BY <2>1
    <3>2. lockedBy' \in {0, 1, 2}
      BY <2>2, <1>t DEF SettingTypes
    <3>3. call'[j] \in [pc : {"idle", "fetch", "put", "answered"}, own : SUBSET Settings!Fields, v : BOOLEAN, body : Bodies]
      BY <2>4, <2>5, <2>6, <1>t DEF SettingTypes
    <3> QED
      BY <3>1, <3>2, <3>3, <2>2, <2>5, <1>t DEF SettingTypes
  <2>8. /\ call'[j].pc = p /\ call'[j].own = own /\ call'[j].v = v /\ call'[j].body = Settings!Set(Settings!Held, own, v)
        /\ \A x \in {1, 2} \ {j} : call'[x] = call[x]
    BY <2>5, <1>t DEF SettingTypes
  <2>9. (Settings!Protected /\ ~disturbed') => ~disturbed /\ \A x \in {1, 2} \ {j} : ~Settings!Busy(x)
    <3> SUFFICES ASSUME Settings!Protected, ~disturbed', NEW x \in {1, 2} \ {j}, Settings!Busy(x) PROVE FALSE
      BY <2>1, <1>t DEF SettingTypes
    <3>1. CASE endpoint.lock
      BY <3>1, <2>2 DEF SettingInv, OneCall
    <3>2. CASE ~endpoint.lock
      <4>1. endpoint.calls = {{"a"}}
        BY <3>2, <2>4, EndpointFacts DEF Settings!Protected
      <4>2. call[x].own \in endpoint.calls
        BY DEF SettingInv, OneCall
      <4> QED
        BY <4>1, <4>2, <2>1
    <3> QED
      BY <3>1, <3>2
  <2>10. OneCall'
    <3>1. (\A x \in {1, 2} : Settings!Busy(x) => call[x].own \in endpoint.calls)'
      BY <2>2, <2>8 DEF SettingInv, OneCall, Settings!Busy
    <3>2. (endpoint.lock => \A x \in {1, 2} : Settings!Busy(x) => lockedBy = x)'
      BY <2>2, <2>8 DEF SettingInv, OneCall, Settings!Busy
    <3>3. (Settings!Protected /\ ~disturbed => ~(Settings!Busy(1) /\ Settings!Busy(2)))'
      BY <2>2, <2>8, <2>9 DEF Settings!Busy, Settings!Protected
    <3> QED
      BY <3>1, <3>2, <3>3 DEF OneCall
  <2>11. ASSUME Settings!Protected, ~disturbed' PROVE Written' /\ (endpoint.stamps = Settings!Fields => Cached')
    <3>1. ~disturbed /\ (\A x \in {1, 2} \ {j} : call[x].pc = "idle" /\ call'[x].pc = "idle") /\ call[j].pc = "idle"
      BY <2>11, <2>9, <2>2, <2>8 DEF Settings!Busy
    <3>2. NoAnswerDue /\ NoAnswerDue'
      BY <3>1, <2>8 DEF NoAnswerDue, Answer
    <3>3. camera = acked
      BY <2>11, <3>1, <3>2 DEF SettingInv, Written
    <3>4. endpoint.base # "own" => endpoint.stamps = Settings!Fields /\ endpoint.base \in {"cache", "recent"}
      BY <2>11, <2>4, EndpointFacts DEF Settings!Protected
    <3>5. endpoint.base # "own" => Settings!Held = acked
      <4> SUFFICES ASSUME endpoint.base # "own" PROVE Settings!Held = acked
        OBVIOUS
      <4>1. cache \subseteq {camera}
        BY <2>11, <3>1, <3>2, <3>4 DEF SettingInv, Cached
      <4> QED
        BY <4>1, <2>3, <3>3
    <3>6. Written'
      BY <3>1, <3>2, <3>3, <3>5, <2>2, <2>8 DEF Written, With, Answer
    <3>7. p = "fetch" => ~recent
      BY <2>5, <2>11, <2>4, EndpointFacts DEF Settings!Protected
    <3>8. ASSUME endpoint.stamps = Settings!Fields PROVE Cached'
      <4>1. Cached
        BY <2>11, <3>1, <3>8 DEF SettingInv
      <4> QED
        BY <4>1, <3>1, <3>2, <3>7, <2>2, <2>8 DEF Cached
    <3> QED
      BY <3>6, <3>8
  <2> QED
    BY <2>2, <2>7, <2>10, <2>11 DEF SettingInv, Settings!Protected, AtMostOne
<1>2. ASSUME NEW j \in {1, 2}, Settings!Fails(j) PROVE SettingInv'
  <2>1. /\ call' = [call EXCEPT ![j] = Settings!NoJob] /\ lockedBy' = IF lockedBy = j THEN 0 ELSE lockedBy
        /\ disturbed' = TRUE
        /\ UNCHANGED <<endpoint, camera, older, cache, recent, fetched, acked>>
    BY <1>2 DEF Settings!Fails, Settings!Ends
  <2>2. Settings!NoJob \in [pc : {"idle", "fetch", "put", "answered"}, own : SUBSET Settings!Fields, v : BOOLEAN, body : Bodies]
    BY DEF Settings!NoJob, Bodies
  <2>3. SettingTypes'
    <3>1. disturbed' \in BOOLEAN
      BY <2>1
    <3> QED
      BY <3>1, <2>1, <2>2, <1>t DEF SettingTypes
  <2>4. call'[j].pc = "idle" /\ \A x \in {1, 2} \ {j} : call'[x] = call[x]
    BY <2>1, <1>t DEF SettingTypes, Settings!NoJob
  <2>5. OneCall'
    BY <2>1, <2>4 DEF SettingInv, OneCall, Settings!Busy
  <2> QED
    BY <2>1, <2>3, <2>4, <2>5 DEF SettingInv, Settings!Busy, AtMostOne
<1>3. ASSUME NEW j \in {1, 2}, Settings!Fetched(j) PROVE SettingInv'
  <2>0. /\ call[j].pc = "fetch" /\ endpoint \in Settings!Endpoints
        /\ UNCHANGED <<endpoint, camera, older, recent, fetched, acked, disturbed>>
    BY <1>3, <1>t DEF Settings!Fetched, SettingTypes
  <2>a. (Settings!Protected /\ ~disturbed) =>
          \A x \in {1, 2} \ {j} : call[x].pc = "idle"
    BY <2>0 DEF SettingInv, OneCall, Settings!Busy
  <2>1. PICK object \in older \union {camera} :
          \/ /\ endpoint.base = "recent" /\ cache' = {object}
             /\ call' = [call EXCEPT ![j] = Settings!NoJob] /\ lockedBy' = IF lockedBy = j THEN 0 ELSE lockedBy
          \/ /\ call' = [call EXCEPT ![j].pc = "put", ![j].body = With(object, j)]
             /\ UNCHANGED <<cache, lockedBy>>
    BY <1>3 DEF Settings!Fetched, Settings!Ends, With
  <2>2. object \in Bodies /\ With(object, j) \in Bodies
    BY <1>t, SetTyped DEF SettingTypes, With
  <2>3. ASSUME Settings!Protected, ~disturbed, endpoint.base # "own"
        PROVE  /\ NoAnswerDue /\ Cached /\ Written /\ ~recent /\ object = camera /\ camera = acked
    <3>1. endpoint.stamps = Settings!Fields
      BY <2>0, <2>3, EndpointFacts DEF Settings!Protected
    <3>2. Cached /\ Written
      BY <2>3, <3>1 DEF SettingInv
    <3>3. NoAnswerDue
      BY <2>a, <2>0, <2>3 DEF NoAnswerDue, Answer
    <3>4. ~recent /\ older = {} /\ camera = acked
      BY <3>2, <3>3, <2>0 DEF Cached, Written
    <3> QED
      BY <3>2, <3>3, <3>4
  <2>4. CASE /\ endpoint.base = "recent" /\ cache' = {object}
             /\ call' = [call EXCEPT ![j] = Settings!NoJob] /\ lockedBy' = IF lockedBy = j THEN 0 ELSE lockedBy
    <3>1. Settings!NoJob \in [pc : {"idle", "fetch", "put", "answered"}, own : SUBSET Settings!Fields, v : BOOLEAN, body : Bodies]
      BY DEF Settings!NoJob, Bodies
    <3>2. SettingTypes'
      BY <2>0, <2>2, <2>4, <3>1, <1>t DEF SettingTypes
    <3>3. call'[j].pc = "idle" /\ \A x \in {1, 2} \ {j} : call'[x] = call[x]
      BY <2>4, <1>t DEF SettingTypes, Settings!NoJob
    <3>4. OneCall'
      BY <2>0, <2>4, <3>3 DEF SettingInv, OneCall, Settings!Busy, Settings!Protected
    <3>5. (Settings!Protected /\ ~disturbed) => NoAnswerDue' /\ Written' /\ Cached'
      <4> SUFFICES ASSUME Settings!Protected, ~disturbed PROVE NoAnswerDue' /\ Written' /\ Cached'
        OBVIOUS
      <4>1. NoAnswerDue'
        BY <3>3, <2>3, <2>4 DEF NoAnswerDue, Answer
      <4>2. Written'
        BY <4>1, <3>3, <2>3, <2>4, <2>0, <2>a DEF Written, NoAnswerDue, Answer
      <4>3. Cached'
        BY <4>1, <3>3, <2>3, <2>4, <2>0 DEF Cached
      <4> QED
        BY <4>1, <4>2, <4>3
    <3> QED
      BY <2>0, <2>2, <2>4, <3>2, <3>4, <3>5 DEF SettingInv, Settings!Protected, AtMostOne
  <2>5. CASE /\ call' = [call EXCEPT ![j].pc = "put", ![j].body = With(object, j)]
             /\ UNCHANGED <<cache, lockedBy>>
    <3>2. SettingTypes'
      BY <2>0, <2>2, <2>5, <1>t DEF SettingTypes
    <3>3. /\ call'[j].pc = "put" /\ call'[j].own = call[j].own /\ call'[j].v = call[j].v /\ call'[j].body = With(object, j)
          /\ \A x \in {1, 2} \ {j} : call'[x] = call[x]
      BY <2>5, <1>t DEF SettingTypes
    <3>4. OneCall'
      <4>1. \A x \in {1, 2} : Settings!Busy(x)' => Settings!Busy(x) /\ call'[x].own = call[x].own
        BY <2>0, <3>3 DEF Settings!Busy
      <4>2. Settings!Busy(1)' /\ Settings!Busy(2)' => Settings!Busy(1) /\ Settings!Busy(2)
        BY <4>1
      <4> QED
        BY <4>1, <4>2, <2>0, <2>5 DEF SettingInv, OneCall, Settings!Protected
    <3>5. NoAnswerDue' <=> NoAnswerDue
      BY <3>3, <2>0 DEF NoAnswerDue, Answer
    <3>6. (Settings!Protected /\ ~disturbed) => Written'
      <4> SUFFICES ASSUME Settings!Protected, ~disturbed PROVE Written'
        OBVIOUS
      <4>1. Written
        BY DEF SettingInv
      <4> QED
        BY <4>1, <3>3, <3>5, <2>3, <2>0, <2>a DEF Written, With, Answer
    <3>7. (Settings!Protected /\ ~disturbed /\ endpoint.stamps = Settings!Fields) => Cached'
      BY <3>3, <3>5, <2>5, <2>0 DEF SettingInv, Cached
    <3> QED
      BY <2>0, <2>5, <3>2, <3>3, <3>4, <3>6, <3>7 DEF SettingInv, Settings!Protected, AtMostOne, Settings!Busy
  <2> QED
    BY <2>1, <2>4, <2>5
<1>4. ASSUME NEW j \in {1, 2}, Settings!async_put_camera(j) PROVE SettingInv'
  <2>0. /\ call[j].pc = "put" /\ endpoint \in Settings!Endpoints
        /\ call' = [call EXCEPT ![j].pc = "answered"]
        /\ camera' = IF endpoint.base = "own" THEN With(camera, j) ELSE call[j].body
        /\ older' \in {older, older \union {camera}}
        /\ UNCHANGED <<endpoint, cache, recent, lockedBy, fetched, acked, disturbed>>
    BY <1>4, <1>t DEF Settings!async_put_camera, SettingTypes, With
  <2>a. (Settings!Protected /\ ~disturbed) =>
          \A x \in {1, 2} \ {j} : call[x].pc = "idle"
    BY <2>0 DEF SettingInv, OneCall, Settings!Busy
  <2>1. camera' \in Bodies
    BY <2>0, <1>t, SetTyped DEF SettingTypes, With
  <2>2. SettingTypes'
    BY <2>0, <2>1, <1>t DEF SettingTypes
  <2>3. /\ call'[j].pc = "answered" /\ call'[j].own = call[j].own /\ call'[j].v = call[j].v /\ call'[j].body = call[j].body
        /\ \A x \in {1, 2} \ {j} : call'[x] = call[x]
    BY <2>0, <1>t DEF SettingTypes
  <2>4. OneCall'
    BY <2>0, <2>3 DEF SettingInv, OneCall, Settings!Busy, Settings!Protected
  <2>5. ASSUME Settings!Protected, ~disturbed PROVE Written' /\ (endpoint.stamps = Settings!Fields => Cached')
    <3>1. NoAnswerDue /\ ~NoAnswerDue'
      BY <2>5, <2>a, <2>0, <2>3 DEF NoAnswerDue, Answer
    <3>2. Written /\ camera = acked
      BY <2>5, <3>1 DEF SettingInv, Written
    <3>3. camera' = With(acked, j)
      BY <3>2, <2>0 DEF Written
    <3>4. Written'
      BY <3>1, <3>2, <3>3, <2>0, <2>3, <2>5, <2>a DEF Written, With, Answer
    <3>5. ASSUME endpoint.stamps = Settings!Fields PROVE Cached'
      <4>1. Cached
        BY <2>5, <3>5 DEF SettingInv
      <4> QED
        BY <4>1, <3>1, <3>2, <2>0, <2>3, <2>5, <2>a DEF Cached
    <3> QED
      BY <3>4, <3>5
  <2> QED
    BY <2>0, <2>2, <2>3, <2>4, <2>5 DEF SettingInv, Settings!Protected, AtMostOne, Settings!Busy
<1>5. ASSUME NEW j \in {1, 2}, Settings!Answered(j) PROVE SettingInv'
  <2>0. /\ call[j].pc = "answered" /\ endpoint \in Settings!Endpoints
        /\ call' = [call EXCEPT ![j] = Settings!NoJob] /\ lockedBy' = IF lockedBy = j THEN 0 ELSE lockedBy
        /\ acked' = With(acked, j)
        /\ recent' = (recent \/ call[j].own \intersect endpoint.stamps # {})
        /\ UNCHANGED <<endpoint, camera, older, fetched, disturbed>>
    BY <1>5, <1>t DEF Settings!Answered, Settings!Ends, SettingTypes, With
  <2>a. (Settings!Protected /\ ~disturbed) =>
          \A x \in {1, 2} \ {j} : call[x].pc = "idle"
    BY <2>0 DEF SettingInv, OneCall, Settings!Busy
  <2>1. /\ endpoint.keeps = "whole" => cache' = {call[j].body}
        /\ endpoint.keeps = "own" => cache' = {With(Settings!Held, j)}
        /\ endpoint.keeps = "none" => cache' = cache
    BY <1>5, <2>0 DEF Settings!Answered, With
  <2>2. /\ Settings!Held \in Bodies /\ cache = {Settings!Held}
    <3>1. cache # {}
      BY <2>0 DEF SettingInv, Settings!Busy
    <3>2. PICK o \in Bodies : cache = {o}
      BY <3>1 DEF SettingInv, AtMostOne
    <3> QED
      BY <3>2 DEF Settings!Held
  <2>3. acked' \in Bodies /\ With(Settings!Held, j) \in Bodies /\ call[j].body \in Bodies
    BY <2>0, <2>2, <1>t, SetTyped DEF SettingTypes, With
  <2>4. cache' \subseteq Bodies /\ cache' # {} /\ AtMostOne(cache')
    BY <2>0, <2>1, <2>2, <2>3, EndpointFacts DEF AtMostOne
  <2>5. recent' \in BOOLEAN
    BY <2>0
  <2>6. Settings!NoJob \in [pc : {"idle", "fetch", "put", "answered"}, own : SUBSET Settings!Fields, v : BOOLEAN, body : Bodies]
    BY DEF Settings!NoJob, Bodies
  <2>7. SettingTypes'
    BY <2>0, <2>3, <2>4, <2>5, <2>6, <1>t DEF SettingTypes
  <2>8. call'[j].pc = "idle" /\ \A x \in {1, 2} \ {j} : call'[x] = call[x]
    BY <2>0, <1>t DEF SettingTypes, Settings!NoJob
  <2>9. OneCall'
    BY <2>0, <2>8 DEF SettingInv, OneCall, Settings!Busy, Settings!Protected
  <2>10. ASSUME Settings!Protected, ~disturbed PROVE Written' /\ (endpoint.stamps = Settings!Fields => Cached')
    <3>1. ~NoAnswerDue /\ NoAnswerDue'
      BY <2>10, <2>a, <2>0, <2>8 DEF NoAnswerDue, Answer
    <3>2. Written /\ camera = With(acked, j)
      BY <2>10, <2>0 DEF SettingInv, Written, Answer
    <3>3. Written'
      BY <3>1, <3>2, <2>0, <2>8, <2>10, <2>a DEF Written, Answer, NoAnswerDue
    <3>4. ASSUME endpoint.stamps = Settings!Fields PROVE Cached'
      <4>1. Cached
        BY <2>10, <3>4 DEF SettingInv
      <4>2. recent'
        <5>1. call[j].own \in endpoint.calls
          BY <2>0 DEF SettingInv, OneCall, Settings!Busy
        <5>2. call[j].own # {} /\ call[j].own \subseteq Settings!Fields
          BY <5>1, <2>0, EndpointFacts
        <5> QED
          BY <5>2, <3>4, <2>0
      <4>3. cache' = {camera}
        <5>1. Settings!Held \in {acked, camera}
          BY <4>1, <3>1, <2>2 DEF Cached
        <5>2. With(Settings!Held, j) = camera
          BY <5>1, <3>2, SetTyped, <1>t DEF With, SettingTypes
        <5>3. endpoint.keeps = "whole" => call[j].body = camera
          BY <2>10, <3>4, <2>0, <3>2, EndpointFacts DEF Written, Settings!Protected, Settings!Fields
        <5>4. endpoint.keeps \in {"own", "whole"}
          BY <2>10, <3>4, <2>0, EndpointFacts DEF Settings!Protected, Settings!Fields
        <5> QED
          BY <5>2, <5>3, <5>4, <2>1
      <4> QED
        BY <3>1, <4>2, <4>3, <2>0, <2>8, <2>a, <2>10 DEF Cached
    <3> QED
      BY <3>3, <3>4
  <2>11. endpoint.stamps = {} => ~recent'
    BY <2>0 DEF SettingInv
  <2> QED
    BY <2>0, <2>4, <2>7, <2>8, <2>9, <2>10, <2>11 DEF SettingInv, Settings!Protected, Settings!Busy
<1>6. CASE Settings!_compute_cam_context
  <2>1. UNCHANGED <<endpoint, camera, older, cache, recent, lockedBy, call, acked, disturbed>>
    BY <1>6 DEF Settings!_compute_cam_context
  <2>2. fetched' = fetched \/ \E o \in older \union {camera} : fetched' = {o}
    BY <1>6 DEF Settings!_compute_cam_context
  <2>3. SettingTypes'
    BY <2>1, <2>2, <1>t DEF SettingTypes
  <2>4. AtMostOne(cache') /\ AtMostOne(fetched')
    BY <2>1, <2>2, <1>t DEF SettingInv, SettingTypes, AtMostOne
  <2> QED
    BY <2>1, <2>2, <2>3, <2>4, Elsewhere
<1>7. CASE Settings!_poll_slow_tier_endpoints
  <2>1. /\ UNCHANGED <<endpoint, camera, older, recent, lockedBy, call, acked, disturbed>>
        /\ fetched # {} /\ fetched' = {} /\ cache' = IF recent THEN cache ELSE fetched
    BY <1>7 DEF Settings!_poll_slow_tier_endpoints
  <2>3. SettingTypes'
    BY <2>1, <1>t DEF SettingTypes
  <2>4. AtMostOne(cache') /\ AtMostOne(fetched')
    BY <2>1 DEF SettingInv, AtMostOne
  <2> QED
    BY <2>1, <2>3, <2>4, Elsewhere
<1>8. CASE Settings!NoAnswer \/ Settings!Settles
  <2>1. /\ UNCHANGED <<endpoint, camera, cache, recent, lockedBy, call, acked, disturbed>>
        /\ older' \in {older, {}} /\ fetched' \in {fetched, {}}
    BY <1>8 DEF Settings!NoAnswer, Settings!Settles
  <2>3. SettingTypes'
    BY <2>1, <1>t DEF SettingTypes
  <2>4. AtMostOne(cache') /\ AtMostOne(fetched')
    BY <2>1 DEF SettingInv, AtMostOne
  <2> QED
    BY <2>1, <2>3, <2>4, Elsewhere
<1>9. CASE Settings!WindowEnds
  <2>1. /\ UNCHANGED <<endpoint, camera, older, cache, lockedBy, call, fetched, acked, disturbed>>
        /\ older = {} /\ fetched \subseteq {camera} /\ recent' = FALSE
    BY <1>9 DEF Settings!WindowEnds
  <2>2. recent' \in BOOLEAN
    BY <2>1
  <2>3. SettingTypes'
    BY <2>1, <2>2, <1>t DEF SettingTypes
  <2>4. AtMostOne(cache') /\ AtMostOne(fetched')
    BY <2>1 DEF SettingInv, AtMostOne
  <2> QED
    BY <2>1, <2>3, <2>4, Elsewhere
<1>10. CASE Settings!IntervalEnds \/ Settings!Ages \/ Settings!GoesOffline \/ Settings!ComesBack \/ Settings!StreamChanges
  <2>1. UNCHANGED <<endpoint, camera, older, cache, recent, lockedBy, call, fetched, acked, disturbed>>
    BY <1>10 DEF Settings!IntervalEnds, Settings!Ages, Settings!DeferralAges, Settings!AttemptAges,
                 Settings!GoesOffline, Settings!ComesBack, Settings!StreamChanges
  <2>3. SettingTypes'
    BY <2>1, <1>t DEF SettingTypes
  <2>4. AtMostOne(cache') /\ AtMostOne(fetched')
    BY <2>1 DEF SettingInv, AtMostOne
  <2> QED
    BY <2>1, <2>3, <2>4, Elsewhere
<1>11. CASE Settings!AppSets
  <2>1. /\ UNCHANGED <<endpoint, cache, recent, lockedBy, call, fetched, acked>>
        /\ older' = older \union {camera} /\ disturbed' = TRUE
        /\ \E f \in Settings!Fields : camera' = [camera EXCEPT ![f] = ~@]
    BY <1>11 DEF Settings!AppSets
  <2>2. camera' \in Bodies
    BY <2>1, <1>t DEF SettingTypes, Bodies, Settings!Fields
  <2>3. disturbed' \in BOOLEAN
    BY <2>1
  <2>4. SettingTypes'
    BY <2>1, <2>2, <2>3, <1>t DEF SettingTypes
  <2> QED
    BY <2>1, <2>4 DEF SettingInv, OneCall, Settings!Busy, Settings!Protected
<1> QED
  BY <1>1, <1>2, <1>3, <1>4, <1>5, <1>6, <1>7, <1>8, <1>9, <1>10, <1>11 DEF Settings!Next, Settings!Work, Settings!Poll

\* The calls and their jobs.
Ops == [kind : Kinds, g : SUBSET Lights!Groups, v : BOOLEAN]
Jobs == [pc : LightSteps, op : Ops, body : Lamps, good : BOOLEAN]

\* An operation of the menus.
Named(op) == OpFits(op) /\ op.kind # "none"

\* Every call of the menus is about the groups of its kind.
LEMMA MenusFit == \A m \in Menus : \A op \in m.calls : OpFits(op) /\ op.kind # "none"
<1>1. ASSUME NEW k \in Kinds, NEW g \in SUBSET Lights!Groups, NEW v \in BOOLEAN,
             k # "none", k = "rgb" => g \subseteq Lights!Wall, k = "wall" => g = Lights!Wall, k \in {"front", "frontLight", "intensity"} => g = {"front"}
      PROVE  Named(Op(k, g, v))
  BY <1>1 DEF Named, OpFits, Op
<1>2. ASSUME NEW g \in {"top", "bottom"}, NEW v \in BOOLEAN PROVE Named(Rgb(g, v))
  BY <1>1 DEF Rgb, Kinds, Lights!Groups, Lights!Wall
<1>3. ASSUME NEW v \in BOOLEAN PROVE Named(Wall(v)) /\ Named(CameraLight(v))
  BY <1>1 DEF Wall, CameraLight, Kinds, Lights!Groups, Lights!Wall
<1>4. ASSUME NEW k \in {"front", "frontLight", "intensity"}, NEW v \in BOOLEAN PROVE Named(Front(k, v))
  BY <1>1 DEF Front, Kinds, Lights!Groups, Lights!Wall
<1>5. Named(Op("white", {}, FALSE)) /\ Named(Op("led", {"top"}, TRUE))
  BY <1>1 DEF Kinds, Lights!Groups, Lights!Wall
<1>6. \A S, c, t : Menu(S, c, t).calls = S
  BY DEF Menu
<1>7. /\ Named(Rgb("top", TRUE)) /\ Named(Rgb("top", FALSE)) /\ Named(Rgb("bottom", TRUE)) /\ Named(Rgb("bottom", FALSE))
      /\ Named(Front("front", FALSE)) /\ Named(Front("frontLight", TRUE)) /\ Named(Front("frontLight", FALSE))
      /\ Named(Front("intensity", TRUE)) /\ Named(Front("intensity", FALSE))
      /\ Named(Wall(TRUE)) /\ Named(Wall(FALSE)) /\ Named(CameraLight(TRUE)) /\ Named(CameraLight(FALSE))
  BY <1>2, <1>3, <1>4
<1>8. ASSUME NEW S, NEW c, NEW t, \A op \in S : Named(op) PROVE \A op \in Menu(S, c, t).calls : Named(op)
  BY <1>6, <1>8
<1>m0. \A op \in Menu({Rgb("top", TRUE), Front("front", FALSE), Front("frontLight", TRUE)}, 3, 0).calls : Named(op)
  BY <1>5, <1>7, <1>8
<1>m1. \A op \in Menu({CameraLight(TRUE), CameraLight(FALSE)}, 3, 0).calls : Named(op)
  BY <1>5, <1>7, <1>8
<1>m2. \A op \in Menu({CameraLight(FALSE), Rgb("bottom", TRUE)}, 3, 0).calls : Named(op)
  BY <1>5, <1>7, <1>8
<1>m3. \A op \in Menu({CameraLight(TRUE), CameraLight(FALSE), Rgb("bottom", TRUE)}, 2, 0).calls : Named(op)
  BY <1>5, <1>7, <1>8
<1>m4. \A op \in Menu({Wall(TRUE), Rgb("top", FALSE), Rgb("bottom", FALSE)}, 3, 0).calls : Named(op)
  BY <1>5, <1>7, <1>8
<1>m5. \A op \in Menu({Front("frontLight", TRUE), Front("frontLight", FALSE), Op("white", {}, FALSE)}, 3, 0).calls : Named(op)
  BY <1>5, <1>7, <1>8
<1>m6. \A op \in Menu({Front("intensity", TRUE), Wall(FALSE)}, 2, 1).calls : Named(op)
  BY <1>5, <1>7, <1>8
<1>m7. \A op \in Menu({Front("intensity", FALSE), CameraLight(FALSE)}, 2, 1).calls : Named(op)
  BY <1>5, <1>7, <1>8
<1>m8. \A op \in Menu({Front("front", FALSE), Op("led", {"top"}, TRUE)}, 2, 1).calls : Named(op)
  BY <1>5, <1>7, <1>8
<1>m9. \A op \in Menu({Front("front", FALSE), Rgb("top", TRUE)}, 2, 1).calls : Named(op)
  BY <1>5, <1>7, <1>8
<1> QED
  BY <1>m0, <1>m1, <1>m2, <1>m3, <1>m4, <1>m5, <1>m6, <1>m7, <1>m8, <1>m9 DEF Menus, Named

\* The switches derived from a light cache are of their type.
LEMMA DerivedTyped ==
  ASSUME NEW l \in Lamps
  PROVE  Lights!Derived(l) \in [front : BOOLEAN, wall : BOOLEAN, light : BOOLEAN]
<1>1. l["front"] \in BOOLEAN
  BY DEF Lamps, Lights!Groups
<1>2. (l["top"] \/ l["bottom"]) \in BOOLEAN /\ (\E g \in Lights!Groups : l[g]) \in BOOLEAN
  OBVIOUS
<1> QED
  BY <1>1, <1>2 DEF Lights!Derived

\* What the camera reports of a group: its brightness, where its switch is on.
LEMMA ReportedAt ==
  ASSUME LightTypes
  PROVE  /\ Lights!Reported \in Lamps
         /\ \A g \in Lights!Groups : Lights!Reported[g] = (stored[g] /\ enabled[g])
BY DEF LightTypes, Lamps, Lights!Reported, Lights!Shown

\* Two states of the groups that agree on each are the same.
LEMMA SameLamps ==
  ASSUME NEW l \in Lamps, NEW m \in Lamps, \A g \in Lights!Groups : l[g] = m[g]
  PROVE  l = m
BY DEF Lamps

\* Before the first call everything is dark, and the caches say so.
LEMMA LightInit == Lights!Init => LightInv
<1> SUFFICES ASSUME Lights!Init PROVE LightInv
  OBVIOUS
<1>0. /\ stored = Lights!Zero /\ enabled = Lights!Zero /\ lsc = Lights!Zero /\ lag = {}
      /\ sw = Lights!Derived(Lights!Zero) /\ fresh = FALSE /\ known = TRUE /\ off = "no"
      /\ job = [w \in Lights!Writers |-> Lights!Idle] /\ confirm = Lights!NoConfirm /\ poll = Lights!NoPoll /\ menu \in Menus
  BY DEF Lights!Init
<1>1. Lights!Zero \in Lamps /\ \A g \in Lights!Groups : Lights!Zero[g] = FALSE
  BY DEF Lights!Zero, Lamps
<1>2. Lights!Idle \in Jobs /\ OpFits(Lights!Idle.op) /\ Lights!Idle.pc = "idle"
  BY <1>1 DEF Lights!Idle, Lights!NoOp, Jobs, Ops, Kinds, LightSteps, OpFits
<1>3. LightTypes
  <2>1. sw \in [front : BOOLEAN, wall : BOOLEAN, light : BOOLEAN]
    BY <1>0, <1>1, DerivedTyped
  <2>2. poll \in [pc : {"idle", "got"}, data : Lamps] /\ confirm \in [pc : {"idle", "sleep", "got"}, tries : {0, 1}, data : Lamps]
    BY <1>0, <1>1 DEF Lights!NoPoll, Lights!NoConfirm
  <2>3. fresh \in BOOLEAN /\ known \in BOOLEAN
    BY <1>0
  <2> QED
    BY <2>1, <2>2, <2>3, <1>0, <1>1, <1>2 DEF LightTypes, Jobs, Ops
<1>4. \A w \in Lights!Writers : ~Lights!Busy(w)
  BY <1>0, <1>2 DEF Lights!Busy
<1>5. lsc = Lights!Reported
  BY <1>0, <1>1, <1>3, ReportedAt, SameLamps
<1>6. OffAlone
  BY <1>0 DEF OffAlone
<1> QED
  BY <1>3, <1>4, <1>5, <1>6 DEF LightInv, CacheIsRight

\* A step that leaves the calls and the camera alone.
LEMMA Aside ==
  ASSUME CacheIsRight, UNCHANGED <<stored, enabled, job>>,
         \/ known' => known /\ lsc' = lsc
         \/ known' => lsc' = Lights!Reported /\ \A w \in Lights!Writers : ~Lights!Busy(w)
  PROVE  CacheIsRight'
<1>1. Lights!Reported' = Lights!Reported
  BY DEF Lights!Reported, Lights!Shown
<1>2. \A w \in Lights!Writers : Lights!Busy(w)' <=> Lights!Busy(w)
  BY DEF Lights!Busy
<1>3. CASE known' => known /\ lsc' = lsc
  BY <1>1, <1>2, <1>3 DEF CacheIsRight, InPace, SentRight, Lights!WithoutFront
<1>4. CASE known' => lsc' = Lights!Reported /\ \A w \in Lights!Writers : ~Lights!Busy(w)
  BY <1>1, <1>2, <1>4 DEF CacheIsRight
<1> QED
  BY <1>3, <1>4

\* A step of one call: what is left to show of the cache.
LEMMA RightKept ==
  ASSUME CacheIsRight, NEW w \in Lights!Writers, Lights!Busy(w), known' => known,
         \A x \in Lights!Writers \ {w} : job'[x] = job[x],
         known' => IF Lights!Busy(w)' THEN InPace(w)' ELSE lsc' = Lights!Reported'
  PROVE  CacheIsRight'
<1> SUFFICES ASSUME known'
    PROVE  /\ (\A x \in Lights!Writers : ~Lights!Busy(x)') => lsc' = Lights!Reported'
           /\ \A x, y \in Lights!Writers : Lights!Busy(x)' /\ Lights!Busy(y)' => y = x
           /\ \A x \in Lights!Writers : Lights!Busy(x)' => InPace(x)'
  BY DEF CacheIsRight
<1>1. \A x \in Lights!Writers \ {w} : ~Lights!Busy(x)
  BY DEF CacheIsRight
<1>2. \A x \in Lights!Writers \ {w} : ~Lights!Busy(x)'
  BY <1>1 DEF Lights!Busy
<1> QED
  BY <1>2

\* A step of one call that goes on with it, or ends it, leaves an undisturbed OFF undisturbed.
LEMMA OffKept ==
  ASSUME OffAlone, NEW w \in Lights!Writers, Lights!Busy(w), off' = off,
         \A x \in Lights!Writers \ {w} : job'[x] = job[x],
         Lights!Busy(w)' => job'[w].op = job[w].op,
         job'[w].pc = "zero" => Dark' /\ current' = {}
  PROVE  OffAlone'
<1> SUFFICES ASSUME off # "no" PROVE OffAlone'
  BY DEF OffAlone
<1>1. /\ off # "yes" /\ job[w].op.kind = "camera" /\ ~job[w].op.v
      /\ \A x \in Lights!Writers \ {w} : ~Lights!Busy(x)
  BY DEF OffAlone
<1>2. \A x \in Lights!Writers \ {w} : job'[x].pc = "idle"
  BY <1>1 DEF Lights!Busy
<1> QED
  BY <1>1, <1>2 DEF OffAlone, Lights!Busy

\* The invariant says what the run checks: an undisturbed OFF is shown.
LEMMA LightHolds == LightInv => Lights!OffIsShown
BY DEF LightInv, OffAlone, Dark, Lights!OffIsShown

\* A call about the front light toggles the front switch alone.
LEMMA FrontOnly ==
  ASSUME NEW op, op.g = {"front"} PROVE Toggled(op) = {"front"}
BY DEF Toggled, Lights!Switch

\* The types of the calls, by themselves: a step that moves or ends one of them keeps these.
JobsTyped ==
    /\ job \in [Lights!Writers -> Jobs]
    /\ \A x \in Lights!Writers : OpFits(job[x].op)
    /\ \A x \in Lights!Writers : job[x].pc # "idle" =>
           job[x].op.kind # "none" /\ (job[x].op.kind = "white" => job[x].op.v)

\* What a step of one call makes of the calls, when it ends it and when it does not.
LEMMA Ended ==
  ASSUME LightTypes, NEW w \in Lights!Writers, Lights!Ends(w)
  PROVE  /\ job'[w].pc = "idle" /\ ~Lights!Busy(w)'
         /\ \A x \in Lights!Writers \ {w} : job'[x] = job[x]
         /\ JobsTyped'
<1>1. Lights!Zero \in Lamps
  BY DEF Lights!Zero, Lamps
<1>2. Lights!Idle \in Jobs /\ OpFits(Lights!Idle.op) /\ Lights!Idle.pc = "idle"
  BY <1>1 DEF Lights!Idle, Lights!NoOp, Jobs, Ops, Kinds, LightSteps, OpFits
<1>3. job' = [job EXCEPT ![w] = Lights!Idle] /\ JobsTyped
  BY DEF Lights!Ends, LightTypes, JobsTyped, Jobs, Ops
<1>4. job'[w] = Lights!Idle /\ \A x \in Lights!Writers \ {w} : job'[x] = job[x]
  BY <1>3 DEF JobsTyped
<1> QED
  BY <1>2, <1>3, <1>4 DEF JobsTyped, Lights!Busy

\* A call's job is replaced by one of the same call.
LEMMA Moved ==
  ASSUME LightTypes, NEW w \in Lights!Writers, Lights!Busy(w), NEW k \in Jobs,
         job' = [job EXCEPT ![w] = k], k.op = job[w].op
  PROVE  /\ job'[w] = k
         /\ \A x \in Lights!Writers \ {w} : job'[x] = job[x]
         /\ JobsTyped'
<1>1. JobsTyped
  BY DEF LightTypes, JobsTyped, Jobs, Ops
<1>2. job'[w] = k /\ \A x \in Lights!Writers \ {w} : job'[x] = job[x]
  BY <1>1 DEF JobsTyped
<1>3. OpFits(k.op) /\ k.op.kind # "none" /\ (k.op.kind = "white" => k.op.v)
  BY <1>1 DEF JobsTyped, Lights!Busy
<1> QED
  BY <1>1, <1>2, <1>3 DEF JobsTyped

\* The types of what a step of a call may touch besides the calls.
LEMMA TypesKept ==
  ASSUME LightTypes, JobsTyped', UNCHANGED <<stored, enabled, lag, poll, menu>>,
         lsc' \in Lamps, sw' \in [front : BOOLEAN, wall : BOOLEAN, light : BOOLEAN],
         fresh' \in BOOLEAN, known' \in BOOLEAN, off' \in {"no", "alone", "yes"},
         confirm' = confirm \/ confirm' = [Lights!NoConfirm EXCEPT !.pc = "sleep"]
  PROVE  LightTypes'
<1>1. Lights!Zero \in Lamps
  BY DEF Lights!Zero, Lamps
<1>2. confirm' \in [pc : {"idle", "sleep", "got"}, tries : {0, 1}, data : Lamps]
  BY <1>1 DEF LightTypes, Lights!NoConfirm
<1>3. poll' \in [pc : {"idle", "got"}, data : Lamps] /\ menu' \in Menus /\ lag' \subseteq Lamps /\ stored' \in Lamps /\ enabled' \in Lamps
  BY DEF LightTypes
<1> QED
  BY <1>2, <1>3 DEF LightTypes, JobsTyped, Jobs, Ops

\* A job with its step replaced,
LEMMA SetPc ==
  ASSUME NEW r \in Jobs, NEW p
  PROVE  [r EXCEPT !.pc = p] = [pc |-> p, op |-> r.op, body |-> r.body, good |-> r.good]
BY DEF Jobs

\* with its body replaced,
LEMMA SetBody ==
  ASSUME NEW r \in Jobs, NEW b
  PROVE  [r EXCEPT !.body = b] = [pc |-> r.pc, op |-> r.op, body |-> b, good |-> r.good]
BY DEF Jobs

\* and with its outcome replaced.
LEMMA SetGood ==
  ASSUME NEW r \in Jobs, NEW b
  PROVE  [r EXCEPT !.good = b] = [pc |-> r.pc, op |-> r.op, body |-> r.body, good |-> b]
BY DEF Jobs

\* A call goes on to its next step.
LEMMA MovedOn ==
  ASSUME LightTypes, NEW w \in Lights!Writers, Lights!Busy(w), NEW p \in LightSteps,
         job' = [job EXCEPT ![w].pc = p]
  PROVE  /\ job'[w] = [pc |-> p, op |-> job[w].op, body |-> job[w].body, good |-> job[w].good]
         /\ \A x \in Lights!Writers \ {w} : job'[x] = job[x]
         /\ JobsTyped'
<1> DEFINE k == [pc |-> p, op |-> job[w].op, body |-> job[w].body, good |-> job[w].good]
<1>1. job[w] \in Jobs
  BY DEF LightTypes, Jobs, Ops
<1>2. k \in Jobs /\ k.op = job[w].op
  BY <1>1 DEF Jobs
<1>3. job' = [job EXCEPT ![w] = k]
  <2>1. job' = [job EXCEPT ![w] = [job[w] EXCEPT !.pc = p]]
    OBVIOUS
  <2> QED
    BY <2>1, <1>1, SetPc
<1> HIDE DEF k
<1>4. job'[w] = k /\ JobsTyped' /\ \A x \in Lights!Writers \ {w} : job'[x] = job[x]
  BY <1>2, <1>3, Moved
<1> QED
  BY <1>4 DEF k

\* The confirmation, the polls, the cloud catching up, the end of the window and the app: a
\* reader only applies what it read while no write has stamped.
LEMMA LightAside ==
  ASSUME LightInv,
         \/ Lights!_refresh_lighting_switch_after_on \/ Lights!Settles \/ Lights!WindowEnds
         \/ Lights!_poll_cam_control \/ Lights!PollApplies \/ Lights!AppSwitches
  PROVE  LightInv'
<1>t. LightTypes /\ OffAlone /\ CacheIsRight
  BY DEF LightInv
<1>r. Lights!Reported \in Lamps
  BY <1>t, ReportedAt
<1>1. CASE Lights!_refresh_lighting_switch_after_on
  <2>0. /\ UNCHANGED <<stored, enabled, lag, sw, current, fresh, holder, job, poll, menu, off>>
        /\ \/ UNCHANGED <<lsc, known>>
           \/ /\ "confirm" \in current /\ lsc' = confirm.data
              /\ known' = (confirm.data = Lights!Reported /\ \A x \in Lights!Writers : ~Lights!Busy(x))
    BY <1>1 DEF Lights!_refresh_lighting_switch_after_on, Lights!SameStamp
  <2>1. confirm' \in [pc : {"idle", "sleep", "got"}, tries : {0, 1}, data : Lamps]
    <3>1. Lights!NoConfirm \in [pc : {"idle", "sleep", "got"}, tries : {0, 1}, data : Lamps]
      BY DEF Lights!NoConfirm, Lights!Zero, Lamps
    <3>2. \A d \in Lamps : [confirm EXCEPT !.pc = "got", !.data = d] \in [pc : {"idle", "sleep", "got"}, tries : {0, 1}, data : Lamps]
      BY <1>t DEF LightTypes
    <3>3. [Lights!NoConfirm EXCEPT !.pc = "sleep", !.tries = 1] \in [pc : {"idle", "sleep", "got"}, tries : {0, 1}, data : Lamps]
      BY <3>1
    <3>4. lag \union {Lights!Reported} \subseteq Lamps
      BY <1>t, <1>r DEF LightTypes
    <3>5. \/ confirm' = Lights!NoConfirm \/ confirm' = [Lights!NoConfirm EXCEPT !.pc = "sleep", !.tries = 1]
          \/ \E d \in lag \union {Lights!Reported} : confirm' = [confirm EXCEPT !.pc = "got", !.data = d]
      BY <1>1 DEF Lights!_refresh_lighting_switch_after_on
    <3> QED
      BY <3>1, <3>2, <3>3, <3>4, <3>5
  <2>2. lsc' \in Lamps /\ known' \in BOOLEAN
    BY <2>0, <1>t DEF LightTypes
  <2>3. LightTypes'
    BY <2>0, <2>1, <2>2, <1>t DEF LightTypes, Lights!Writers
  <2>4. CacheIsRight'
    <3>1. CASE UNCHANGED <<lsc, known>>
      BY <2>0, <3>1, <1>t, Aside
    <3>2. CASE lsc' = confirm.data /\ known' = (confirm.data = Lights!Reported /\ \A x \in Lights!Writers : ~Lights!Busy(x))
      <4>1. known' => lsc' = Lights!Reported /\ \A x \in Lights!Writers : ~Lights!Busy(x)
        BY <3>2
      <4> QED
        BY <2>0, <4>1, <1>t, Aside
    <3> QED
      BY <2>0, <3>1, <3>2
  <2>5. OffAlone'
    BY <2>0, <1>t DEF OffAlone, Dark, Lights!Busy
  <2> QED
    BY <2>3, <2>4, <2>5 DEF LightInv
<1>2. CASE Lights!Settles \/ Lights!WindowEnds
  <2>0. /\ UNCHANGED <<stored, enabled, lsc, sw, current, holder, job, confirm, poll, menu, known>>
        /\ lag' \in {lag, {}}
        /\ \/ off' = off /\ fresh' = fresh
           \/ off' = "no" /\ fresh' = FALSE
    BY <1>2 DEF Lights!Settles, Lights!WindowEnds
  <2>1. fresh' \in BOOLEAN
    BY <2>0, <1>t DEF LightTypes
  <2>3. LightTypes'
    BY <2>0, <2>1, <1>t DEF LightTypes
  <2>4. CacheIsRight'
    BY <2>0, <1>t, Aside
  <2>5. OffAlone'
    BY <2>0, <1>t DEF OffAlone, Dark, Lights!Busy
  <2> QED
    BY <2>3, <2>4, <2>5 DEF LightInv
<1>3. CASE Lights!_poll_cam_control \/ Lights!PollApplies
  <2>0. /\ UNCHANGED <<stored, enabled, lag, fresh, holder, job, confirm, menu, off>>
        /\ fresh => sw' = sw
        /\ (fresh /\ ~sw.light /\ "poll" \notin current) => current' = current \/ current' = current \ {"poll"}
        /\ \/ UNCHANGED <<lsc, known>>
           \/ /\ "poll" \in current /\ lsc' = poll.data
              /\ known' = (poll.data = Lights!Reported /\ \A x \in Lights!Writers : ~Lights!Busy(x))
    BY <1>3 DEF Lights!_poll_cam_control, Lights!PollApplies, Lights!SameStamp, Lights!sync_gen2_light_cache
  <2>1. sw' = sw \/ \E l \in Lamps : sw' = Lights!Derived(l)
    BY <1>3, <1>t DEF Lights!_poll_cam_control, Lights!PollApplies, Lights!sync_gen2_light_cache, LightTypes
  <2>2. sw' \in [front : BOOLEAN, wall : BOOLEAN, light : BOOLEAN]
    BY <2>1, <1>t, DerivedTyped DEF LightTypes
  <2>6. poll' \in [pc : {"idle", "got"}, data : Lamps]
    <3>1. Lights!NoPoll \in [pc : {"idle", "got"}, data : Lamps]
      BY DEF Lights!NoPoll, Lights!Zero, Lamps
    <3>2. lag \union {Lights!Reported} \subseteq Lamps
      BY <1>t, <1>r DEF LightTypes
    <3>3. poll' = poll \/ poll' = Lights!NoPoll \/ \E d \in lag \union {Lights!Reported} : poll' = [pc |-> "got", data |-> d]
      BY <1>3 DEF Lights!_poll_cam_control, Lights!PollApplies
    <3> QED
      BY <3>1, <3>2, <3>3, <1>t DEF LightTypes
  <2>7. lsc' \in Lamps /\ known' \in BOOLEAN
    BY <2>0, <1>t DEF LightTypes
  <2>3. LightTypes'
    BY <2>0, <2>2, <2>6, <2>7, <1>t DEF LightTypes
  <2>4. CacheIsRight'
    <3>1. CASE UNCHANGED <<lsc, known>>
      BY <2>0, <3>1, <1>t, Aside
    <3>2. CASE lsc' = poll.data /\ known' = (poll.data = Lights!Reported /\ \A x \in Lights!Writers : ~Lights!Busy(x))
      <4>1. known' => lsc' = Lights!Reported /\ \A x \in Lights!Writers : ~Lights!Busy(x)
        BY <3>2
      <4> QED
        BY <2>0, <4>1, <1>t, Aside
    <3> QED
      BY <2>0, <3>1, <3>2
  <2>5. OffAlone'
    BY <2>0, <1>t DEF OffAlone, Dark, Lights!Busy
  <2> QED
    BY <2>3, <2>4, <2>5 DEF LightInv
<1>4. CASE Lights!AppSwitches
  <2>0. /\ UNCHANGED <<lsc, sw, current, fresh, holder, job, confirm, poll, menu>>
        /\ lag' = lag \union {Lights!Reported} /\ known' = FALSE /\ off' = "no"
    BY <1>4 DEF Lights!AppSwitches
  <2>1. stored' \in Lamps /\ enabled' \in Lamps
    <3>1. PICK g \in Lights!Groups :
            /\ stored' = [stored EXCEPT ![g] = ~Lights!Reported[g]]
            /\ enabled' = [x \in Lights!Groups |-> enabled[x] \/ (x \in Lights!Switch(g) /\ ~Lights!Reported[g])]
      BY <1>4 DEF Lights!AppSwitches
    <3>2. stored' \in Lamps
      BY <3>1, <1>t DEF LightTypes, Lamps
    <3>3. enabled' \in Lamps
      BY <3>1 DEF Lamps
    <3> QED
      BY <3>2, <3>3
  <2>2. known' \in BOOLEAN
    BY <2>0
  <2>3. LightTypes'
    BY <2>0, <2>1, <2>2, <1>t, <1>r DEF LightTypes
  <2> QED
    BY <2>0, <2>3 DEF LightInv, OffAlone, CacheIsRight
<1> QED
  BY <1>1, <1>2, <1>3, <1>4

\* A service call: it gets to send only what the cache, right until then, holds of the others.
LEMMA LightCalled ==
  ASSUME LightInv, NEW w \in Lights!Writers, Lights!Call(w) PROVE LightInv'
<1>t. LightTypes /\ OffAlone /\ CacheIsRight
  BY DEF LightInv
<1>0. /\ UNCHANGED <<stored, enabled, lag, lsc, sw, current, fresh, confirm, poll, menu, trouble>>
      /\ ~Lights!Busy(w) /\ known' = (known /\ ~Lights!Others(w))
  BY DEF Lights!Call
<1>1. PICK op \in menu.calls :
        /\ CASE op.kind = "white" -> Lights!_white_balance_set(w, op)
             [] op.kind # "white" /\ Lights!TakesLock(op) -> Lights!Send(w, op) /\ holder' = w
             [] OTHER -> Lights!Send(w, op) /\ UNCHANGED holder
        /\ off' = IF op.kind = "camera" /\ ~op.v /\ ~Lights!Others(w) THEN "alone" ELSE "no"
  BY DEF Lights!Call
<1>2. OpFits(op)
  BY <1>t, MenusFit DEF LightTypes
<1>n. op.kind # "none"
  BY <1>t, MenusFit DEF LightTypes
<1>3. job' = job \/ \E o : OpFits(o) /\ o.kind # "none" /\ (o.kind = "white" => o.v) /\ (op.kind = "camera" => o = op) /\ Lights!Send(w, o)
  <2>1. CASE op.kind = "white"
    <3>1. OpFits([op EXCEPT !.g = {"front"}, !.v = TRUE])
      BY <1>2, <2>1 DEF OpFits, Lights!Groups
    <3>2. job' = job \/ Lights!Send(w, [op EXCEPT !.g = {"front"}, !.v = TRUE])
      BY <1>1, <2>1 DEF Lights!_white_balance_set
    <3> QED
      BY <3>1, <3>2, <2>1, <1>2 DEF OpFits
  <2>2. CASE op.kind # "white"
    <3>1. Lights!Send(w, op)
      BY <1>1, <2>2
    <3> QED
      BY <1>2, <1>n, <2>2, <3>1
  <2> QED
    BY <2>1, <2>2
<1>4. known' \in BOOLEAN /\ off' \in {"no", "alone", "yes"}
  BY <1>0, <1>1
<1>5. off' # "no" => off' = "alone" /\ op.kind = "camera" /\ ~op.v /\ \A x \in Lights!Writers \ {w} : ~Lights!Busy(x)
  BY <1>1 DEF Lights!Others
<1>6. known' => lsc = Lights!Reported /\ \A x \in Lights!Writers : ~Lights!Busy(x)
  BY <1>0, <1>t DEF Lights!Others, CacheIsRight
<1>7. CASE job' = job
  <2>1. LightTypes'
    BY <1>0, <1>4, <1>7, <1>t DEF LightTypes
  <2>2. OffAlone'
    BY <1>0, <1>5, <1>7 DEF OffAlone, Lights!Busy
  <2>3. CacheIsRight'
    BY <1>0, <1>6, <1>7, <1>t, Aside
  <2> QED
    BY <2>1, <2>2, <2>3 DEF LightInv
<1>8. ASSUME NEW o, OpFits(o), o.kind # "none", o.kind = "white" => o.v, op.kind = "camera" => o = op, Lights!Send(w, o) PROVE LightInv'
  <2> DEFINE p == Lights!FirstStep(o)
  <2>1. job' = [job EXCEPT ![w] = [pc |-> p, op |-> o, body |-> Lights!FullBody(o), good |-> TRUE]]
    BY <1>8 DEF Lights!Send
  <2>2. /\ p \in {"put", "enable"}
        /\ p = "put" => o.kind # "camera"
        /\ (p = "enable" /\ o.kind # "camera") => o.kind = "front" /\ (o.v => lsc["front"])
    BY DEF Lights!FirstStep
  <2> HIDE DEF p
  <2>3. /\ Lights!FullBody(o) \in Lamps
        /\ \A g \in Lights!Groups : Lights!FullBody(o)[g] = IF g \in o.g THEN o.v ELSE lsc[g]
    BY <1>8, <1>t DEF Lights!FullBody, LightTypes, OpFits, Lamps
  <2>4. [pc |-> p, op |-> o, body |-> Lights!FullBody(o), good |-> TRUE] \in Jobs
    BY <1>8, <2>2, <2>3 DEF Jobs, OpFits, Ops, LightSteps
  <2>5. /\ job'[w].pc = p /\ job'[w].op = o /\ job'[w].body = Lights!FullBody(o) /\ job'[w].good = TRUE
        /\ \A x \in Lights!Writers \ {w} : job'[x] = job[x]
    BY <2>1, <1>t DEF LightTypes
  <2>6. LightTypes'
    <3>1. job' \in [Lights!Writers -> Jobs]
      BY <2>1, <2>4, <1>t DEF LightTypes, Jobs, Ops
    <3>2. \A x \in Lights!Writers : OpFits(job'[x].op)
      BY <2>5, <1>8, <1>t DEF LightTypes
    <3>3. \A x \in Lights!Writers : job'[x].pc # "idle" =>
             job'[x].op.kind # "none" /\ (job'[x].op.kind = "white" => job'[x].op.v)
      BY <2>5, <1>8, <1>t DEF LightTypes
    <3> QED
      BY <3>1, <3>2, <3>3, <1>0, <1>4, <1>t DEF LightTypes, Jobs, Ops
  <2>7. OffAlone'
    BY <1>0, <1>5, <1>8, <2>2, <2>5 DEF OffAlone, Lights!Busy
  <2>8. ASSUME known' PROVE InPace(w)'
    <3>1. lsc = Lights!Reported /\ Lights!Reported' = Lights!Reported
      BY <1>0, <1>6, <2>8 DEF Lights!Reported, Lights!Shown
    <3>2. CASE p = "put"
      <4>1. SentRight(w)'
        BY <2>2, <2>3, <2>5, <3>2, <1>0 DEF SentRight
      <4> QED
        BY <4>1, <3>1, <3>2, <2>5, <1>0 DEF InPace
    <3>3. CASE p = "enable" /\ o.kind # "camera"
      <4>1. Toggled(o) = {"front"} /\ o.kind = "front" /\ (o.v => lsc["front"])
        BY <1>8, <2>2, <3>3, FrontOnly DEF OpFits
      <4>2. o.v => stored["front"] = lsc["front"]
        BY <4>1, <3>1, <1>t, ReportedAt DEF Lights!Groups, LightTypes, Lamps
      <4> QED
        BY <4>1, <4>2, <3>1, <3>3, <2>5, <1>0 DEF InPace
    <3>4. CASE p = "enable" /\ o.kind = "camera"
      BY <3>4, <2>5, <1>0 DEF InPace
    <3> QED
      BY <2>2, <3>2, <3>3, <3>4
  <2>9. CacheIsRight'
    BY <1>6, <2>2, <2>5, <2>8 DEF CacheIsRight, Lights!Busy
  <2> QED
    BY <2>6, <2>7, <2>9 DEF LightInv
<1> QED
  BY <1>3, <1>7, <1>8

\* The camera takes a request: what it reports afterwards is the body, or what the enable made
\* of it.
LEMMA LightTaken ==
  ASSUME LightInv, NEW w \in Lights!Writers, Lights!Takes(w) PROVE LightInv'
<1>t. LightTypes /\ OffAlone /\ CacheIsRight
  BY DEF LightInv
<1> DEFINE j == job[w]
<1>0. /\ j.pc \in {"put", "enable", "enable2", "fallback"}
      /\ UNCHANGED <<lsc, sw, current, fresh, holder, confirm, poll, menu, ops, trouble, known, off>>
      /\ lag' \in {lag, lag \union {Lights!Reported}}
  BY DEF Lights!Takes
<1>1. \/ /\ j.pc = "put" /\ stored' = j.body
         /\ enabled' = [g \in Lights!Groups |-> enabled[g] \/ \E x \in Lights!Switch(g) : j.body[x]]
      \/ /\ j.pc = "fallback" /\ j.op.kind # "camera"
         /\ stored' = [stored EXCEPT !["front"] = j.op.v] /\ enabled' = [enabled EXCEPT !["front"] = j.op.v]
      \/ /\ j.pc \in {"enable", "enable2", "fallback"} /\ stored' = stored
         /\ enabled' = [g \in Lights!Groups |->
                IF \/ j.pc = "fallback"
                   \/ j.pc = "enable2" /\ g \in Lights!Wall
                   \/ j.pc = "enable" /\ g \in UNION {Lights!Switch(x) : x \in IF j.op.kind = "camera" THEN {"front"} ELSE j.op.g}
                THEN j.op.v ELSE enabled[g]]
  <2>1. CASE j.pc = "put"
    BY <2>1 DEF Lights!Takes
  <2>2. CASE j.pc = "fallback" /\ j.op.kind # "camera"
    BY <2>2 DEF Lights!Takes
  <2>3. CASE j.pc # "put" /\ ~(j.pc = "fallback" /\ j.op.kind # "camera")
    BY <1>0, <2>3 DEF Lights!Takes
  <2> QED
    BY <2>1, <2>2, <2>3
<1>2. /\ j.pc = "put" => job' = [job EXCEPT ![w].pc = "putDone"]
      /\ j.pc = "enable" => job' = [job EXCEPT ![w].pc = "enableDone"]
      /\ j.pc = "enable2" => job' = [job EXCEPT ![w].pc = "enable2Done"]
      /\ j.pc = "fallback" => job' = [job EXCEPT ![w].pc = "fallbackDone"]
  BY DEF Lights!Takes
<1>3. j \in Jobs /\ OpFits(j.op)
  BY <1>t DEF LightTypes, Jobs, Ops
<1>4. PICK p \in LightSteps :
        /\ job' = [job EXCEPT ![w].pc = p]
        /\ j.pc = "put" => p = "putDone"
        /\ j.pc = "enable" => p = "enableDone"
        /\ j.pc = "enable2" => p = "enable2Done"
        /\ j.pc = "fallback" => p = "fallbackDone"
  BY <1>0, <1>2 DEF LightSteps
<1>5. /\ job'[w].pc = p /\ job'[w].op = j.op /\ job'[w].body = j.body /\ job'[w].good = j.good
      /\ \A x \in Lights!Writers \ {w} : job'[x] = job[x]
  BY <1>4, <1>t DEF LightTypes
<1> HIDE DEF j
<1>6. stored' \in Lamps /\ enabled' \in Lamps
  <2>1. \A S : (\E x \in S : j.body[x]) \in BOOLEAN
    OBVIOUS
  <2>2. j.body \in Lamps /\ j.op.v \in BOOLEAN /\ stored \in Lamps /\ enabled \in Lamps
    BY <1>3, <1>t DEF LightTypes, Jobs, Ops
  <2>3. stored' \in Lamps
    BY <1>1, <2>2 DEF Lamps
  <2>4. enabled' \in Lamps
    <3>2. CASE j.pc = "put"
      <4>1. \A g \in Lights!Groups : (enabled[g] \/ \E x \in Lights!Switch(g) : j.body[x]) \in BOOLEAN
        OBVIOUS
      <4>2. enabled' = [g \in Lights!Groups |-> enabled[g] \/ \E x \in Lights!Switch(g) : j.body[x]]
        BY <1>1, <3>2
      <4> QED
        BY <4>1, <4>2, Zenon DEF Lamps
    <3>3. CASE j.pc # "put"
      BY <1>1, <2>2, <3>3 DEF Lamps
    <3> QED
      BY <3>2, <3>3
  <2> QED
    BY <2>3, <2>4
<1>7. LightTypes'
  <2>1. job' \in [Lights!Writers -> Jobs]
    BY <1>4, <1>t DEF LightTypes, Jobs, Ops
  <2>2. \A x \in Lights!Writers : OpFits(job'[x].op)
    BY <1>3, <1>5, <1>t DEF LightTypes
  <2>3. lag' \subseteq Lamps
    BY <1>0, <1>t, ReportedAt DEF LightTypes
  <2>4. \A x \in Lights!Writers : job'[x].pc # "idle" =>
           job'[x].op.kind # "none" /\ (job'[x].op.kind = "white" => job'[x].op.v)
    BY <1>0, <1>5, <1>t DEF LightTypes, j
  <2> QED
    BY <2>1, <2>2, <2>3, <2>4, <1>0, <1>6, <1>t DEF LightTypes, Jobs, Ops
<1>8. OffAlone'
  BY <1>0, <1>4, <1>5, <1>t, OffKept DEF j, Lights!Busy
<1>9. ASSUME known' PROVE InPace(w)'
  <2>1. InPace(w) /\ j.good /\ j.pc # "fallback"
    BY <1>0, <1>9, <1>t DEF j, CacheIsRight, InPace, Lights!Busy
  <2>2. /\ Lights!Reported' \in Lamps
        /\ \A g \in Lights!Groups : Lights!Reported'[g] = (stored'[g] /\ enabled'[g])
    BY <1>6 DEF Lights!Reported, Lights!Shown, Lamps
  <2>3. j.body \in Lamps /\ j.op.v \in BOOLEAN /\ lsc \in Lamps /\ lsc' = lsc /\ stored \in Lamps /\ enabled \in Lamps
    BY <1>0, <1>3, <1>t DEF LightTypes, Jobs, Ops
  <2>4. CASE j.pc = "put"
    <3>1. stored' = j.body /\ p = "putDone" /\ SentRight(w)
      BY <1>1, <1>4, <2>1, <2>4 DEF InPace, j
    <3>2. \A g \in Lights!Groups : Lights!Reported'[g] = j.body[g]
      <4> TAKE g \in Lights!Groups
      <4>1. g \in Lights!Switch(g)
        BY DEF Lights!Switch, Lights!Groups, Lights!Wall
      <4>2. enabled'[g] = (enabled[g] \/ \E x \in Lights!Switch(g) : j.body[x])
        BY <1>1, <2>4
      <4>3. j.body[g] \in BOOLEAN
        BY <2>3 DEF Lamps
      <4> QED
        BY <2>2, <3>1, <4>1, <4>2, <4>3
    <3>3. Lights!Reported' = j.body
      BY <3>2, <2>2, <2>3, SameLamps
    <3>4. SentRight(w)'
      BY <3>1, <1>5, <2>3 DEF SentRight, j
    <3> QED
      BY <2>1, <3>1, <3>3, <3>4, <1>5 DEF InPace
  <2>5. CASE j.pc = "enable" /\ j.op.kind # "camera"
    <3>1. /\ stored' = stored /\ p = "enableDone"
          /\ enabled' = [g \in Lights!Groups |-> IF g \in Toggled(j.op) THEN j.op.v ELSE enabled[g]]
      BY <1>1, <1>4, <2>5 DEF Toggled
    <3>2. /\ \A g \in Lights!Groups : lsc[g] = (stored[g] /\ enabled[g])
          /\ \A x \in Toggled(j.op) : IF j.op.v THEN stored[x] = lsc[x] ELSE j.op.kind = "front" \/ ~lsc[x]
      BY <2>1, <2>5, <1>t, ReportedAt DEF InPace, j
    <3>3. Lights!WithoutFront(j.op) \in Lamps
      BY <2>3 DEF Lights!WithoutFront, Lamps
    <3>4. \A g \in Lights!Groups : Lights!Reported'[g] = Lights!WithoutFront(j.op)[g]
      <4> TAKE g \in Lights!Groups
      <4>0. /\ Lights!Reported'[g] = (stored[g] /\ (IF g \in Toggled(j.op) THEN j.op.v ELSE enabled[g]))
            /\ stored[g] \in BOOLEAN /\ enabled[g] \in BOOLEAN /\ lsc[g] \in BOOLEAN
        BY <2>2, <2>3, <3>1 DEF Lamps
      <4>1. CASE j.op.kind = "front" /\ ~j.op.v
        <5>1. Toggled(j.op) = {"front"}
          BY <4>1, <1>3, FrontOnly DEF OpFits
        <5>2. Lights!WithoutFront(j.op)[g] = IF g = "front" THEN FALSE ELSE lsc[g]
          BY <4>1, <2>3 DEF Lights!WithoutFront, Lamps
        <5> QED
          BY <4>0, <4>1, <5>1, <5>2, <3>2
      <4>2. CASE ~(j.op.kind = "front" /\ ~j.op.v)
        <5>1. Lights!WithoutFront(j.op) = lsc
          BY <4>2 DEF Lights!WithoutFront
        <5> QED
          BY <4>0, <4>2, <5>1, <3>2, <2>3
      <4> QED
        BY <4>1, <4>2
    <3>5. Lights!Reported' = Lights!WithoutFront(j.op)
      BY <2>2, <3>3, <3>4, SameLamps
    <3>6. Lights!WithoutFront(job[w].op)' = Lights!WithoutFront(j.op)
      BY <1>5, <2>3 DEF Lights!WithoutFront
    <3>7. Lights!Reported' = Lights!WithoutFront(job[w].op)'
      BY <3>5, <3>6
    <3> QED
      BY <2>1, <2>5, <3>1, <3>7, <1>5 DEF InPace
  <2>6. CASE j.pc = "enable" /\ j.op.kind = "camera"
    <3>1. p = "enableDone" /\ enabled'["front"] = j.op.v
      BY <1>1, <1>4, <2>6 DEF Lights!Groups, Lights!Switch
    <3> QED
      BY <2>1, <2>6, <3>1, <1>5 DEF InPace
  <2>7. CASE j.pc = "enable2"
    <3>1. p = "enable2Done" /\ enabled' = [g \in Lights!Groups |-> IF g \in Lights!Wall THEN j.op.v ELSE enabled[g]]
      BY <1>1, <1>4, <2>7
    <3>2. j.op.kind = "camera" /\ (~j.op.v => ~enabled["front"])
      BY <2>1, <2>7 DEF InPace, j
    <3>3. ~j.op.v => \A g \in Lights!Groups : ~enabled'[g]
      BY <3>1, <3>2 DEF Lights!Groups, Lights!Wall
    <3> QED
      BY <2>1, <2>7, <3>1, <3>2, <3>3, <1>5 DEF InPace
  <2> QED
    BY <1>0, <2>1, <2>4, <2>5, <2>6, <2>7
<1>10. CacheIsRight'
  BY <1>0, <1>4, <1>5, <1>9, <1>t, RightKept DEF j, Lights!Busy
<1> QED
  BY <1>7, <1>8, <1>10 DEF LightInv

\* The body was taken: the merged cache is what the camera reports.
LEMMA LightPut ==
  ASSUME LightInv, NEW w \in Lights!Writers, Lights!_put_lighting_switch(w) PROVE LightInv'
<1>t. LightTypes /\ OffAlone /\ CacheIsRight
  BY DEF LightInv
<1> DEFINE j == job[w]
           M == Lights!Merged(w)
<1>0. /\ j.pc = "putDone" /\ lsc' = M
      /\ UNCHANGED <<stored, enabled, lag, confirm, poll, menu, ops, trouble, known, off>>
  BY DEF Lights!_put_lighting_switch
<1>1. /\ j \in Jobs /\ OpFits(j.op) /\ Lights!Busy(w) /\ j.op.kind # "none" /\ (j.op.kind = "white" => j.op.v)
      /\ lsc \in Lamps /\ stored \in Lamps
  BY <1>0, <1>t DEF LightTypes, Jobs, Ops, Lights!Busy
<1>2. M \in Lamps /\ \A g \in Lights!Groups : M[g] = IF g \in j.op.g THEN j.body[g] ELSE lsc[g]
  BY <1>1 DEF Lights!Merged, Lamps, Jobs
<1>3. \/ /\ job' = [job EXCEPT ![w].pc = "enable", ![w].body = Lights!Zero]
         /\ UNCHANGED <<holder, sw, current, fresh>>
         /\ j.op.kind # "led"
         /\ (j.op.kind = "rgb" /\ ~j.op.v) => \A g \in Lights!Wall : ~M[g]
      \/ /\ Lights!Ends(w)
         /\ sw' = sw \/ sw' = Lights!Derived(M)
         /\ fresh' = fresh \/ fresh' = TRUE
  <2>1. CASE j.op.kind = "rgb"
    BY <2>1 DEF Lights!_put_lighting_switch, Lights!_sync_wallwasher_cache, Lights!Stamped
  <2>2. CASE j.op.kind = "white"
    BY <2>2 DEF Lights!_put_lighting_switch, Lights!Stamped
  <2>3. CASE j.op.kind \notin {"rgb", "white"}
    BY <2>3 DEF Lights!_put_lighting_switch
  <2> QED
    BY <2>1, <2>2, <2>3
<1> HIDE DEF M
<1>4. ASSUME known' PROVE M = Lights!Reported /\ stored = M /\ Lights!Reported' = Lights!Reported /\ j.op.kind # "camera" /\ j.good
                          /\ \A g \in j.op.g : M[g] = j.op.v
  <2>1. InPace(w)
    BY <1>0, <1>1, <1>4, <1>t DEF CacheIsRight
  <2>2. stored = j.body /\ Lights!Reported = j.body /\ SentRight(w) /\ j.good
    BY <2>1, <1>0 DEF InPace
  <2>3. \A g \in Lights!Groups : M[g] = j.body[g]
    BY <1>2, <2>2 DEF SentRight
  <2>4. M = stored
    BY <1>1, <1>2, <2>2, <2>3, SameLamps
  <2>5. Lights!Reported' = Lights!Reported
    BY <1>0 DEF Lights!Reported, Lights!Shown
  <2>6. \A g \in j.op.g : M[g] = j.op.v
    BY <1>1, <2>2, <2>3 DEF SentRight, OpFits
  <2> QED
    BY <2>2, <2>4, <2>5, <2>6 DEF SentRight
<1>5. CASE /\ job' = [job EXCEPT ![w].pc = "enable", ![w].body = Lights!Zero]
           /\ UNCHANGED <<holder, sw, current, fresh>>
           /\ j.op.kind # "led"
           /\ (j.op.kind = "rgb" /\ ~j.op.v) => \A g \in Lights!Wall : ~M[g]
  <2> DEFINE k == [pc |-> "enable", op |-> j.op, body |-> Lights!Zero, good |-> j.good]
  <2>0. Lights!Zero \in Lamps
    BY DEF Lights!Zero, Lamps
  <2>1. k \in Jobs /\ k.op = j.op /\ k.pc = "enable" /\ k.good = j.good
    BY <1>1, <2>0 DEF Jobs, LightSteps
  <2>2. job' = [job EXCEPT ![w] = k]
    <3> DEFINE r == [job[w] EXCEPT !.pc = "enable"]
    <3>1. /\ r = [pc |-> "enable", op |-> j.op, body |-> j.body, good |-> j.good] /\ r \in Jobs
          /\ r.op = j.op /\ r.good = j.good /\ r.pc = "enable"
      BY <1>1, SetPc DEF Jobs, LightSteps
    <3>2. job' = [job EXCEPT ![w] = [r EXCEPT !.body = Lights!Zero]]
      BY <1>5
    <3> HIDE DEF r
    <3>3. [r EXCEPT !.body = Lights!Zero] = [pc |-> r.pc, op |-> r.op, body |-> Lights!Zero, good |-> r.good]
      BY <3>1, SetBody
    <3> QED
      BY <3>1, <3>2, <3>3
  <2> HIDE DEF k
  <2>3. job'[w] = k /\ JobsTyped' /\ \A x \in Lights!Writers \ {w} : job'[x] = job[x]
    BY <1>1, <1>t, <2>1, <2>2, Moved
  <2>4. LightTypes'
    <3>1. /\ sw' \in [front : BOOLEAN, wall : BOOLEAN, light : BOOLEAN] /\ fresh' \in BOOLEAN /\ known' \in BOOLEAN
          /\ off' \in {"no", "alone", "yes"} /\ lsc' \in Lamps
      BY <1>0, <1>2, <1>5, <1>t DEF LightTypes
    <3> QED
      BY <3>1, <1>0, <1>t, <2>3, TypesKept
  <2>5. OffAlone'
    BY <1>0, <1>1, <1>t, <2>1, <2>3, OffKept
  <2>6. ASSUME known' PROVE InPace(w)'
    <3>1. /\ job'[w].pc = "enable" /\ job'[w].op = j.op /\ job'[w].good /\ lsc' = Lights!Reported'
          /\ stored' = lsc'
      BY <1>0, <1>4, <2>1, <2>3, <2>6
    <3>2. ASSUME NEW x \in Toggled(j.op), ~j.op.v PROVE j.op.kind = "front" \/ ~M[x]
      <4>1. CASE j.op.kind \in {"rgb", "wall"}
        <5>1. x \in Lights!Wall
          BY <4>1, <1>1 DEF OpFits, Toggled, Lights!Switch, Lights!Wall
        <5>2. CASE j.op.kind = "rgb"
          BY <5>1, <5>2, <1>5, <3>2
        <5>3. CASE j.op.kind = "wall"
          BY <5>1, <5>3, <1>1, <1>4, <2>6, <3>2 DEF OpFits
        <5> QED
          BY <4>1, <5>2, <5>3
      <4>2. CASE j.op.kind \in {"front", "frontLight", "intensity"}
        <5>1. Toggled(j.op) = {"front"} /\ j.op.g = {"front"}
          BY <4>2, <1>1, FrontOnly DEF OpFits
        <5> QED
          BY <5>1, <1>4, <2>6, <3>2
      <4> QED
        BY <4>1, <4>2, <1>1, <1>4, <1>5, <2>6, <3>2 DEF Jobs, Ops, Kinds
    <3> QED
      BY <3>1, <3>2, <1>0 DEF InPace
  <2>7. CacheIsRight'
    BY <1>0, <1>1, <1>t, <2>3, <2>6, <2>1, RightKept DEF Lights!Busy
  <2> QED
    BY <2>4, <2>5, <2>7 DEF LightInv
<1>6. CASE /\ Lights!Ends(w)
           /\ sw' = sw \/ sw' = Lights!Derived(M)
           /\ fresh' = fresh \/ fresh' = TRUE
  <2>1. JobsTyped' /\ job'[w].pc = "idle" /\ ~Lights!Busy(w)' /\ \A x \in Lights!Writers \ {w} : job'[x] = job[x]
    BY <1>6, <1>t, Ended
  <2>2. LightTypes'
    <3>1. sw' \in [front : BOOLEAN, wall : BOOLEAN, light : BOOLEAN]
      BY <1>2, <1>6, <1>t, DerivedTyped DEF LightTypes
    <3>2. fresh' \in BOOLEAN
      BY <1>6, <1>t DEF LightTypes
    <3>3. known' \in BOOLEAN /\ off' \in {"no", "alone", "yes"} /\ lsc' \in Lamps
      BY <1>0, <1>2, <1>t DEF LightTypes
    <3> QED
      BY <3>1, <3>2, <3>3, <1>0, <1>t, <2>1, TypesKept
  <2>3. OffAlone'
    BY <1>0, <1>1, <1>t, <2>1, OffKept
  <2>4. CacheIsRight'
    BY <1>0, <1>1, <1>4, <1>t, <2>1, RightKept
  <2> QED
    BY <2>2, <2>3, <2>4 DEF LightInv
<1> QED
  BY <1>3, <1>5, <1>6

\* The switches after a component write are of their type.
LEMMA ComponentTyped ==
  ASSUME LightTypes, NEW w \in Lights!Writers
  PROVE  Lights!Component(job[w].op) \in [front : BOOLEAN, wall : BOOLEAN, light : BOOLEAN]
<1> DEFINE v == job[w].op.v
           s == CASE job[w].op.kind = "wall" -> [sw EXCEPT !.wall = v] [] OTHER -> [sw EXCEPT !.front = v]
<1>1. v \in BOOLEAN /\ sw \in [front : BOOLEAN, wall : BOOLEAN, light : BOOLEAN]
  BY DEF LightTypes
<1>2. s \in [front : BOOLEAN, wall : BOOLEAN, light : BOOLEAN]
  <2> HIDE DEF v
  <2>1. [sw EXCEPT !.wall = v] \in [front : BOOLEAN, wall : BOOLEAN, light : BOOLEAN]
    BY <1>1
  <2>2. [sw EXCEPT !.front = v] \in [front : BOOLEAN, wall : BOOLEAN, light : BOOLEAN]
    BY <1>1
  <2>3. s = [sw EXCEPT !.wall = v] \/ s = [sw EXCEPT !.front = v]
    OBVIOUS
  <2> QED
    BY <2>1, <2>2, <2>3
<1>3. Lights!Component(job[w].op) = [s EXCEPT !.light = s.front \/ s.wall]
  BY DEF Lights!Component
<1> HIDE DEF s
<1>4. (s.front \/ s.wall) \in BOOLEAN
  OBVIOUS
<1> QED
  BY <1>2, <1>3, <1>4

\* The enable was answered and the call is over: the cache is what the camera reports.
LEMMA LightCompleted ==
  ASSUME LightInv, NEW w \in Lights!Writers, Lights!Completes(w) PROVE LightInv'
<1>t. LightTypes /\ OffAlone /\ CacheIsRight
  BY DEF LightInv
<1> DEFINE j == job[w]
<1>0. /\ j.pc = "enableDone" /\ j.op.kind # "camera" /\ Lights!Ends(w)
      /\ UNCHANGED <<stored, enabled, lag, confirm, poll, menu, ops, trouble, known, off>>
  BY DEF Lights!Completes
<1>1. /\ lsc' = Lights!WithoutFront(j.op)
      /\ fresh' = TRUE
      /\ sw' = sw \/ sw' = Lights!Derived(lsc) \/ sw' = Lights!Component(j.op)
  <2>1. CASE j.op.kind \in {"rgb", "frontLight"}
    BY <2>1 DEF Lights!Completes, Lights!_sync_wallwasher_cache, Lights!Stamped, Lights!WithoutFront
  <2>2. CASE j.op.kind = "white"
    BY <2>2 DEF Lights!Completes, Lights!Stamped, Lights!WithoutFront
  <2>3. CASE j.op.kind \notin {"rgb", "frontLight", "white"}
    BY <2>3 DEF Lights!Completes, Lights!Stamped
  <2> QED
    BY <2>1, <2>2, <2>3
<1>2. JobsTyped' /\ job'[w].pc = "idle" /\ ~Lights!Busy(w)' /\ \A x \in Lights!Writers \ {w} : job'[x] = job[x]
  BY <1>0, <1>t, Ended
<1>3. Lights!Busy(w)
  BY <1>0 DEF Lights!Busy
<1>4. LightTypes'
  <2>1. sw' \in [front : BOOLEAN, wall : BOOLEAN, light : BOOLEAN]
    BY <1>1, <1>t, DerivedTyped, ComponentTyped DEF LightTypes
  <2>2. fresh' \in BOOLEAN /\ known' \in BOOLEAN /\ off' \in {"no", "alone", "yes"}
    BY <1>0, <1>1, <1>t DEF LightTypes
  <2>3. lsc' \in Lamps
    BY <1>1, <1>t DEF LightTypes, Lights!WithoutFront, Lamps
  <2> QED
    BY <2>1, <2>2, <2>3, <1>0, <1>2, <1>t, TypesKept
<1>5. OffAlone'
  BY <1>0, <1>2, <1>3, <1>t, OffKept
<1>6. ASSUME known' PROVE lsc' = Lights!Reported'
  <2>1. InPace(w)
    BY <1>0, <1>3, <1>6, <1>t DEF CacheIsRight
  <2>2. Lights!Reported = Lights!WithoutFront(j.op)
    BY <1>0, <2>1 DEF InPace
  <2>3. Lights!Reported' = Lights!Reported
    BY <1>0 DEF Lights!Reported, Lights!Shown
  <2> QED
    BY <1>1, <2>2, <2>3
<1>7. CacheIsRight'
  BY <1>0, <1>2, <1>3, <1>6, <1>t, RightKept
<1> QED
  BY <1>4, <1>5, <1>7 DEF LightInv

\* The camera light, by either way: an OFF is dark before the light cache is zeroed.
LEMMA CameraLightAnswered ==
  ASSUME LightInv, NEW w \in Lights!Writers, Lights!Busy(w), NEW v \in BOOLEAN, Lights!CameraAnswered(w, v),
         UNCHANGED <<stored, enabled, lag, lsc, poll, menu, ops, trouble, off>>,
         job[w].op.kind = "camera", known => job[w].pc = "enable2Done"
  PROVE  LightInv'
<1>t. LightTypes /\ OffAlone /\ CacheIsRight
  BY DEF LightInv
<1> DEFINE j == job[w]
<1>0. /\ sw' = [front |-> j.op.v, wall |-> j.op.v, light |-> j.op.v]
      /\ fresh' = TRUE
      /\ ~j.op.v => current' = {}
      /\ known' = (known /\ ~j.op.v)
      /\ confirm' = confirm \/ confirm' = [Lights!NoConfirm EXCEPT !.pc = "sleep"]
  <2>1. CASE j.op.v
    BY <2>1 DEF Lights!CameraAnswered
  <2>2. CASE ~j.op.v
    BY <2>2 DEF Lights!CameraAnswered
  <2> QED
    BY <2>1, <2>2
<1>1. j.op.v \in BOOLEAN /\ j \in Jobs
  BY <1>t DEF LightTypes, Jobs, Ops
<1>2. CASE j.op.v
  <2>1. Lights!Ends(w)
    BY <1>2 DEF Lights!CameraAnswered
  <2>2. JobsTyped' /\ job'[w].pc = "idle" /\ ~Lights!Busy(w)' /\ \A x \in Lights!Writers \ {w} : job'[x] = job[x]
    BY <2>1, <1>t, Ended
  <2>3. LightTypes'
    <3>1. sw' \in [front : BOOLEAN, wall : BOOLEAN, light : BOOLEAN]
      BY <1>0, <1>1
    <3>2. fresh' \in BOOLEAN /\ known' \in BOOLEAN /\ off' \in {"no", "alone", "yes"} /\ lsc' \in Lamps
      BY <1>0, <1>2, <1>t DEF LightTypes
    <3> QED
      BY <3>1, <3>2, <1>0, <1>t, <2>2, TypesKept
  <2>4. OffAlone'
    BY <2>2, <1>t, OffKept
  <2>5. ~known'
    BY <1>0, <1>2
  <2>6. CacheIsRight'
    BY <2>5 DEF CacheIsRight
  <2> QED
    BY <2>3, <2>4, <2>6 DEF LightInv
<1>3. CASE ~j.op.v
  <2>1. job' = [job EXCEPT ![w].pc = "zero"]
    BY <1>3 DEF Lights!CameraAnswered
  <2>2. "zero" \in LightSteps
    BY DEF LightSteps
  <2>3. /\ job'[w] = [pc |-> "zero", op |-> j.op, body |-> j.body, good |-> j.good]
        /\ JobsTyped' /\ \A x \in Lights!Writers \ {w} : job'[x] = job[x]
    BY <2>1, <2>2, <1>t, MovedOn
  <2>4. LightTypes'
    <3>1. sw' \in [front : BOOLEAN, wall : BOOLEAN, light : BOOLEAN]
      BY <1>0, <1>1
    <3>2. fresh' \in BOOLEAN /\ off' \in {"no", "alone", "yes"} /\ lsc' \in Lamps
      BY <1>0, <1>t DEF LightTypes
    <3>3. known' \in BOOLEAN
      BY <1>0, <1>3, <1>t DEF LightTypes
    <3> QED
      BY <3>1, <3>2, <3>3, <1>0, <1>t, <2>3, TypesKept
  <2>5. OffAlone'
    <3>1. Dark' /\ current' = {} /\ job'[w].op = j.op
      BY <1>0, <1>3, <2>3 DEF Dark
    <3> QED
      BY <3>1, <2>3, <1>t, OffKept
  <2>6. ASSUME known' PROVE InPace(w)'
    <3>1. InPace(w) /\ j.pc = "enable2Done"
      BY <1>0, <2>6, <1>t DEF CacheIsRight
    <3>2. j.good /\ \A g \in Lights!Groups : ~enabled[g]
      BY <3>1, <1>3 DEF InPace
    <3> QED
      BY <3>2, <2>3, <1>3 DEF InPace
  <2>7. Lights!Busy(w)'
    BY <2>3 DEF Lights!Busy
  <2>8. CacheIsRight'
    BY <1>0, <2>3, <2>6, <2>7, <1>t, RightKept
  <2> QED
    BY <2>4, <2>5, <2>8 DEF LightInv
<1> QED
  BY <1>2, <1>3

\* The camera light's two toggles.
LEMMA LightToggled ==
  ASSUME LightInv, NEW w \in Lights!Writers, Lights!async_cloud_set_camera_light(w) PROVE LightInv'
<1>t. LightTypes /\ OffAlone /\ CacheIsRight
  BY DEF LightInv
<1>0. /\ job[w].op.kind = "camera"
      /\ UNCHANGED <<stored, enabled, lag, lsc, poll, menu, ops, trouble, off>>
      /\ \/ /\ job[w].pc = "enableDone" /\ job' = [job EXCEPT ![w].pc = "enable2"]
            /\ UNCHANGED <<sw, current, fresh, holder, confirm, known>>
         \/ job[w].pc = "enable2Done" /\ Lights!CameraAnswered(w, TRUE)
  BY DEF Lights!async_cloud_set_camera_light
<1>1. Lights!Busy(w)
  BY <1>0 DEF Lights!Busy
<1>2. CASE job[w].pc = "enable2Done" /\ Lights!CameraAnswered(w, TRUE)
  BY <1>0, <1>1, <1>2, CameraLightAnswered
<1>3. CASE /\ job[w].pc = "enableDone" /\ job' = [job EXCEPT ![w].pc = "enable2"]
           /\ UNCHANGED <<sw, current, fresh, holder, confirm, known>>
  <2>1. "enable2" \in LightSteps
    BY DEF LightSteps
  <2>2. /\ job'[w] = [pc |-> "enable2", op |-> job[w].op, body |-> job[w].body, good |-> job[w].good]
        /\ JobsTyped' /\ \A x \in Lights!Writers \ {w} : job'[x] = job[x]
    BY <2>1, <1>1, <1>3, <1>t, MovedOn
  <2>3. LightTypes'
    <3>1. /\ sw' \in [front : BOOLEAN, wall : BOOLEAN, light : BOOLEAN]
          /\ fresh' \in BOOLEAN /\ known' \in BOOLEAN /\ off' \in {"no", "alone", "yes"} /\ lsc' \in Lamps
      BY <1>0, <1>3, <1>t DEF LightTypes
    <3> QED
      BY <3>1, <1>0, <1>3, <1>t, <2>2, TypesKept
  <2>4. OffAlone'
    <3>1. job'[w].op = job[w].op /\ job'[w].pc # "zero" /\ off' = off
      BY <1>0, <2>2
    <3> QED
      BY <1>1, <1>t, <2>2, <3>1, OffKept
  <2>5. ASSUME known' PROVE InPace(w)'
    <3>1. InPace(w)
      BY <1>1, <1>3, <1>t, <2>5 DEF CacheIsRight
    <3>2. job[w].good /\ (~job[w].op.v => ~enabled["front"])
      BY <1>0, <1>3, <3>1 DEF InPace
    <3> QED
      BY <3>2, <2>2, <1>0 DEF InPace
  <2>6. Lights!Busy(w)'
    BY <2>2 DEF Lights!Busy
  <2>7. CacheIsRight'
    BY <1>1, <1>3, <2>2, <2>5, <2>6, <1>t, RightKept
  <2> QED
    BY <2>3, <2>4, <2>7 DEF LightInv
<1> QED
  BY <1>0, <1>2, <1>3

\* The light cache of an OFF is zeroed: all switches are off, so that is what the camera
\* reports.
LEMMA LightZeroed ==
  ASSUME LightInv, NEW w \in Lights!Writers, Lights!_zero_lighting_switch_cache_gen2(w) PROVE LightInv'
<1>t. LightTypes /\ OffAlone /\ CacheIsRight
  BY DEF LightInv
<1>0. /\ job[w].pc = "zero" /\ lsc' = Lights!Zero /\ Lights!Ends(w)
      /\ off' = IF fresh /\ off = "alone" THEN "yes" ELSE "no"
      /\ UNCHANGED <<stored, enabled, lag, sw, current, fresh, confirm, poll, menu, ops, trouble, known>>
  BY DEF Lights!_zero_lighting_switch_cache_gen2
<1>1. JobsTyped' /\ job'[w].pc = "idle" /\ ~Lights!Busy(w)' /\ \A x \in Lights!Writers \ {w} : job'[x] = job[x]
  BY <1>0, <1>t, Ended
<1>2. Lights!Busy(w)
  BY <1>0 DEF Lights!Busy
<1>z. Lights!Zero \in Lamps /\ \A g \in Lights!Groups : Lights!Zero[g] = FALSE
  BY DEF Lights!Zero, Lamps
<1>3. LightTypes'
  <2>1. /\ sw' \in [front : BOOLEAN, wall : BOOLEAN, light : BOOLEAN]
        /\ fresh' \in BOOLEAN /\ known' \in BOOLEAN /\ off' \in {"no", "alone", "yes"} /\ lsc' \in Lamps
    BY <1>0, <1>z, <1>t DEF LightTypes
  <2> QED
    BY <2>1, <1>0, <1>1, <1>t, TypesKept
<1>4. OffAlone'
  <2> SUFFICES ASSUME off' # "no" PROVE OffAlone'
    BY DEF OffAlone
  <2>1. off = "alone" /\ fresh /\ off' = "yes"
    BY <1>0
  <2>2. Dark /\ current = {}
    BY <2>1, <1>0, <1>t DEF OffAlone
  <2>3. \A x \in Lights!Writers : ~Lights!Busy(x)'
    <3>1. \A x \in Lights!Writers \ {w} : ~Lights!Busy(x)
      BY <2>1, <1>2, <1>t DEF OffAlone
    <3> QED
      BY <3>1, <1>1 DEF Lights!Busy
  <2>4. Dark' /\ current' = {} /\ fresh' /\ Lights!Zero' = Lights!Zero
    BY <2>1, <2>2, <1>0 DEF Dark, Lights!Zero
  <2>5. job'[w].pc # "zero" /\ \A x \in Lights!Writers : job'[x].pc # "zero"
    BY <2>3 DEF Lights!Busy
  <2> QED
    BY <2>1, <2>3, <2>4, <2>5, <1>0 DEF OffAlone
<1>5. ASSUME known' PROVE lsc' = Lights!Reported'
  <2>1. InPace(w)
    BY <1>0, <1>2, <1>5, <1>t DEF CacheIsRight
  <2>2. \A g \in Lights!Groups : ~enabled[g]
    BY <2>1, <1>0 DEF InPace
  <2>3. \A g \in Lights!Groups : Lights!Reported[g] = FALSE
    BY <2>2, <1>t, ReportedAt
  <2>4. Lights!Reported = Lights!Zero
    BY <2>3, <1>z, <1>t, ReportedAt, SameLamps
  <2>5. Lights!Reported' = Lights!Reported
    BY <1>0 DEF Lights!Reported, Lights!Shown
  <2> QED
    BY <2>4, <2>5, <1>0
<1>6. CacheIsRight'
  BY <1>0, <1>1, <1>2, <1>5, <1>t, RightKept
<1> QED
  BY <1>3, <1>4, <1>6 DEF LightInv

\* A request fails: from then on the cache is not known to be right.
LEMMA LightFailed ==
  ASSUME LightInv, NEW w \in Lights!Writers, Lights!Fails(w) PROVE LightInv'
<1>t. LightTypes /\ OffAlone /\ CacheIsRight
  BY DEF LightInv
<1> DEFINE j == job[w]
<1>0. /\ j.pc \in {"put", "putDone", "enable", "enableDone", "enable2", "enable2Done", "fallback", "fallbackDone"}
      /\ known' = FALSE
      /\ UNCHANGED <<stored, enabled, lag, lsc, confirm, poll, menu, ops, off>>
  BY DEF Lights!Fails
<1>1. Lights!Busy(w) /\ j \in Jobs
  BY <1>0, <1>t DEF Lights!Busy, LightTypes, Jobs, Ops
<1>2. /\ \/ job' = [job EXCEPT ![w].pc = "enable2", ![w].good = FALSE]
         \/ job' = [job EXCEPT ![w].pc = "fallback"]
         \/ Lights!Ends(w)
      /\ \/ sw' = sw /\ fresh' = fresh
         \/ sw' = Lights!Derived(lsc) /\ fresh' = TRUE
  <2>1. CASE j.op.kind = "camera" /\ j.pc \in {"enable", "enableDone"}
    BY <2>1 DEF Lights!Fails
  <2>2. CASE /\ ~(j.op.kind = "camera" /\ j.pc \in {"enable", "enableDone"})
             /\ j.op.kind \in {"front", "intensity", "camera"} /\ j.pc \notin {"fallback", "fallbackDone"}
    BY <2>2 DEF Lights!Fails
  <2>3. CASE /\ ~(j.op.kind = "camera" /\ j.pc \in {"enable", "enableDone"})
             /\ ~(j.op.kind \in {"front", "intensity", "camera"} /\ j.pc \notin {"fallback", "fallbackDone"})
    BY <2>3 DEF Lights!Fails, Lights!_sync_wallwasher_cache, Lights!Stamped
  <2> QED
    BY <2>1, <2>2, <2>3
<1>3. /\ JobsTyped' /\ \A x \in Lights!Writers \ {w} : job'[x] = job[x]
      /\ job'[w].pc # "zero" /\ (Lights!Busy(w)' => job'[w].op = j.op)
  <2>1. CASE job' = [job EXCEPT ![w].pc = "enable2", ![w].good = FALSE]
    <3> DEFINE r == [job[w] EXCEPT !.pc = "enable2"]
               k == [pc |-> "enable2", op |-> j.op, body |-> j.body, good |-> FALSE]
    <3>1. /\ r = [pc |-> "enable2", op |-> j.op, body |-> j.body, good |-> j.good] /\ r \in Jobs
          /\ r.op = j.op /\ r.body = j.body /\ r.pc = "enable2"
      BY <1>1, SetPc DEF Jobs, LightSteps
    <3>2. job' = [job EXCEPT ![w] = [r EXCEPT !.good = FALSE]]
      BY <2>1
    <3>k. k \in Jobs /\ k.op = j.op /\ k.pc = "enable2"
      BY <1>1 DEF Jobs, LightSteps
    <3> HIDE DEF r
    <3>3. [r EXCEPT !.good = FALSE] = k
      BY <3>1, SetGood
    <3> HIDE DEF k
    <3>4. job' = [job EXCEPT ![w] = k]
      BY <3>2, <3>3
    <3>5. job'[w] = k /\ JobsTyped' /\ \A x \in Lights!Writers \ {w} : job'[x] = job[x]
      BY <1>1, <1>t, <3>k, <3>4, Moved
    <3> QED
      BY <3>5, <3>k
  <2>2. CASE job' = [job EXCEPT ![w].pc = "fallback"]
    <3>1. "fallback" \in LightSteps
      BY DEF LightSteps
    <3>2. /\ job'[w] = [pc |-> "fallback", op |-> job[w].op, body |-> job[w].body, good |-> job[w].good]
          /\ JobsTyped' /\ \A x \in Lights!Writers \ {w} : job'[x] = job[x]
      BY <2>2, <3>1, <1>1, <1>t, MovedOn
    <3> QED
      BY <3>2
  <2>3. CASE Lights!Ends(w)
    BY <2>3, <1>t, Ended
  <2> QED
    BY <1>2, <2>1, <2>2, <2>3
<1>4. LightTypes'
  <2>1. sw' \in [front : BOOLEAN, wall : BOOLEAN, light : BOOLEAN] /\ fresh' \in BOOLEAN
    BY <1>2, <1>t, DerivedTyped DEF LightTypes
  <2>2. off' \in {"no", "alone", "yes"} /\ lsc' \in Lamps
    BY <1>0, <1>t DEF LightTypes
  <2>3. known' \in BOOLEAN
    BY <1>0
  <2> QED
    BY <2>1, <2>2, <2>3, <1>0, <1>3, <1>t, TypesKept
<1>5. OffAlone'
  BY <1>0, <1>1, <1>3, <1>t, OffKept
<1>6. CacheIsRight'
  BY <1>0 DEF CacheIsRight
<1> QED
  BY <1>4, <1>5, <1>6 DEF LightInv

\* The first toggle had failed: the cache was not known to be right already.
LEMMA LightHalf ==
  ASSUME LightInv, NEW w \in Lights!Writers, Lights!HalfDone(w) PROVE LightInv'
<1>t. LightTypes /\ OffAlone /\ CacheIsRight
  BY DEF LightInv
<1>0. /\ job[w].pc = "enable2Done" /\ ~job[w].good
      /\ job' = [job EXCEPT ![w].pc = "fallback"] \/ Lights!Ends(w)
      /\ UNCHANGED <<stored, enabled, lag, lsc, sw, current, fresh, confirm, poll, menu, ops, trouble, known, off>>
  BY DEF Lights!HalfDone
<1>1. Lights!Busy(w)
  BY <1>0 DEF Lights!Busy
<1>2. ~known'
  <2>1. ~InPace(w)
    BY <1>0 DEF InPace
  <2> QED
    BY <2>1, <1>0, <1>1, <1>t DEF CacheIsRight
<1>3. /\ JobsTyped' /\ \A x \in Lights!Writers \ {w} : job'[x] = job[x]
      /\ job'[w].pc # "zero" /\ (Lights!Busy(w)' => job'[w].op = job[w].op)
  <2>1. CASE job' = [job EXCEPT ![w].pc = "fallback"]
    <3>1. "fallback" \in LightSteps
      BY DEF LightSteps
    <3>2. /\ job'[w] = [pc |-> "fallback", op |-> job[w].op, body |-> job[w].body, good |-> job[w].good]
          /\ JobsTyped' /\ \A x \in Lights!Writers \ {w} : job'[x] = job[x]
      BY <2>1, <3>1, <1>1, <1>t, MovedOn
    <3> QED
      BY <3>2
  <2>2. CASE Lights!Ends(w)
    BY <2>2, <1>t, Ended
  <2> QED
    BY <1>0, <2>1, <2>2
<1>4. LightTypes'
  <2>1. /\ sw' \in [front : BOOLEAN, wall : BOOLEAN, light : BOOLEAN] /\ fresh' \in BOOLEAN
        /\ off' \in {"no", "alone", "yes"} /\ lsc' \in Lamps /\ known' \in BOOLEAN
    BY <1>0, <1>t DEF LightTypes
  <2> QED
    BY <2>1, <1>0, <1>3, <1>t, TypesKept
<1>5. OffAlone'
  BY <1>0, <1>1, <1>3, <1>t, OffKept
<1>6. CacheIsRight'
  BY <1>2 DEF CacheIsRight
<1> QED
  BY <1>4, <1>5, <1>6 DEF LightInv

\* The way without the cloud was answered.
LEMMA LightFellBack ==
  ASSUME LightInv, NEW w \in Lights!Writers, Lights!FallbackAnswered(w) PROVE LightInv'
<1>t. LightTypes /\ OffAlone /\ CacheIsRight
  BY DEF LightInv
<1> DEFINE op == job[w].op
<1>0. /\ job[w].pc = "fallbackDone"
      /\ UNCHANGED <<stored, enabled, lag, lsc, poll, menu, ops, trouble, off>>
  BY DEF Lights!FallbackAnswered
<1>1. Lights!Busy(w)
  BY <1>0 DEF Lights!Busy
<1>2. ~known
  <2>1. ~InPace(w)
    BY <1>0 DEF InPace
  <2> QED
    BY <2>1, <1>1, <1>t DEF CacheIsRight
<1>3. CASE op.kind = "camera"
  <2>1. Lights!CameraAnswered(w, FALSE)
    BY <1>3 DEF Lights!FallbackAnswered
  <2> QED
    BY <2>1, <1>0, <1>1, <1>2, <1>3, CameraLightAnswered
<1>4. CASE op.kind # "camera"
  <2>1. /\ Lights!Ends(w) /\ fresh' = TRUE /\ UNCHANGED <<confirm, known>>
        /\ sw' = Lights!Component(op) \/ sw' = [sw EXCEPT !.light = sw.front \/ sw.wall]
    BY <1>4 DEF Lights!FallbackAnswered, Lights!Stamped
  <2>2. JobsTyped' /\ job'[w].pc = "idle" /\ ~Lights!Busy(w)' /\ \A x \in Lights!Writers \ {w} : job'[x] = job[x]
    BY <2>1, <1>t, Ended
  <2>3. LightTypes'
    <3>1. sw' \in [front : BOOLEAN, wall : BOOLEAN, light : BOOLEAN]
      <4>1. sw \in [front : BOOLEAN, wall : BOOLEAN, light : BOOLEAN] /\ (sw.front \/ sw.wall) \in BOOLEAN
        BY <1>t DEF LightTypes
      <4>2. [sw EXCEPT !.light = sw.front \/ sw.wall] \in [front : BOOLEAN, wall : BOOLEAN, light : BOOLEAN]
        BY <4>1
      <4> QED
        BY <2>1, <4>2, <1>t, ComponentTyped
    <3>2. fresh' \in BOOLEAN /\ known' \in BOOLEAN /\ off' \in {"no", "alone", "yes"} /\ lsc' \in Lamps
      BY <1>0, <2>1, <1>t DEF LightTypes
    <3> QED
      BY <3>1, <3>2, <1>0, <2>1, <2>2, <1>t, TypesKept
  <2>4. OffAlone'
    BY <1>0, <1>1, <1>t, <2>2, OffKept
  <2>5. CacheIsRight'
    BY <1>2, <2>1 DEF CacheIsRight
  <2> QED
    BY <2>3, <2>4, <2>5 DEF LightInv
<1> QED
  BY <1>3, <1>4

\* Every step of the lights keeps their invariant.
LEMMA LightStep == ASSUME LightInv, Lights!Next PROVE LightInv'
<1>1. ASSUME NEW w \in Lights!Writers, Lights!WriterStep(w) PROVE LightInv'
  BY <1>1, LightTaken, LightPut, LightCompleted, LightToggled, LightZeroed, LightHalf, LightFellBack
     DEF Lights!WriterStep
<1>2. ASSUME NEW w \in Lights!Writers, Lights!Call(w) \/ Lights!Fails(w) PROVE LightInv'
  BY <1>2, LightCalled, LightFailed
<1>3. CASE \/ Lights!_refresh_lighting_switch_after_on \/ Lights!Settles \/ Lights!WindowEnds
           \/ Lights!Poll \/ Lights!AppSwitches
  BY <1>3, LightAside DEF Lights!Poll
<1> QED
  BY <1>1, <1>2, <1>3 DEF Lights!Next, Lights!Work

\* What the camera makes of a full body.
Untouched(w) ==
    (known /\ job[w].pc = "put" /\ job'[w].pc = "putDone")
       => \A g \in Lights!Groups \ job[w].op.g : Lights!Shown(stored', enabled')[g] = Lights!Reported[g]

\* A body that is taken is the camera's until then, but for the call's own groups.
LEMMA PutTaken ==
  ASSUME LightInv, Lights!Next, NEW w \in Lights!Writers PROVE Untouched(w)
<1> SUFFICES ASSUME known, job[w].pc = "put", job'[w].pc = "putDone"
             PROVE  \A g \in Lights!Groups \ job[w].op.g : Lights!Shown(stored', enabled')[g] = Lights!Reported[g]
  BY DEF Untouched
<1>1. CacheIsRight /\ LightTypes
  BY DEF LightInv
<1>2. Lights!Busy(w) /\ \A x \in Lights!Writers : Lights!Busy(x) => x = w
  BY <1>1 DEF CacheIsRight, Lights!Busy
<1>3. ASSUME NEW x \in Lights!Writers, Lights!WriterStep(x) PROVE Lights!Takes(w)
  <2>1. Lights!Takes(x) \/ job[x].pc \in {"putDone", "enableDone", "enable2Done", "zero", "fallbackDone"}
    BY <1>3 DEF Lights!WriterStep, Lights!_put_lighting_switch, Lights!Completes, Lights!async_cloud_set_camera_light,
                Lights!_zero_lighting_switch_cache_gen2, Lights!HalfDone, Lights!FallbackAnswered
  <2>2. Lights!Busy(x)
    BY <2>1 DEF Lights!Takes, Lights!Busy
  <2> QED
    BY <2>1, <2>2, <1>2
<1>4. ASSUME NEW x \in Lights!Writers, Lights!Call(x) PROVE FALSE
  <2>1. x # w
    BY <1>2, <1>4 DEF Lights!Call
  <2>2. PICK op \in menu.calls :
          CASE op.kind = "white" -> Lights!_white_balance_set(x, op)
            [] op.kind # "white" /\ Lights!TakesLock(op) -> Lights!Send(x, op) /\ holder' = x
            [] OTHER -> Lights!Send(x, op) /\ UNCHANGED holder
    BY <1>4 DEF Lights!Call
  <2>3. job' = job \/ \E o : Lights!Send(x, o)
    <3>1. CASE op.kind = "white"
      BY <2>2, <3>1 DEF Lights!_white_balance_set
    <3>2. CASE op.kind # "white"
      BY <2>2, <3>2
    <3> QED
      BY <3>1, <3>2
  <2>4. job'[w] = job[w]
    BY <2>1, <2>3, <1>1 DEF Lights!Send, LightTypes
  <2> QED
    BY <2>4
<1>5. ASSUME NEW x \in Lights!Writers, Lights!Fails(x) PROVE FALSE
  <2>1. x = w
    BY <1>2, <1>5 DEF Lights!Fails, Lights!Busy
  <2>2. job' = [job EXCEPT ![w].pc = "fallback"] \/ Lights!Ends(w)
    <3>1. CASE job[w].op.kind \in {"front", "intensity", "camera"}
      BY <1>5, <2>1, <3>1 DEF Lights!Fails
    <3>2. CASE job[w].op.kind \notin {"front", "intensity", "camera"}
      BY <1>5, <2>1, <3>2 DEF Lights!Fails
    <3> QED
      BY <3>1, <3>2
  <2>3. CASE job' = [job EXCEPT ![w].pc = "fallback"]
    <3>1. job'[w].pc = "fallback"
      BY <2>3, <1>1 DEF LightTypes
    <3> QED
      BY <3>1
  <2>4. CASE Lights!Ends(w)
    BY <2>4, <1>1, Ended
  <2> QED
    BY <2>2, <2>3, <2>4
<1>6. ASSUME \/ Lights!_refresh_lighting_switch_after_on \/ Lights!Settles \/ Lights!WindowEnds
             \/ Lights!Poll \/ Lights!AppSwitches
      PROVE  FALSE
  <2>1. UNCHANGED job
    BY <1>6 DEF Lights!_refresh_lighting_switch_after_on, Lights!Settles, Lights!WindowEnds, Lights!Poll,
                Lights!_poll_cam_control, Lights!PollApplies, Lights!AppSwitches
  <2> QED
    BY <2>1
<1>7. Lights!Takes(w)
  <2>1. \/ \E x \in Lights!Writers : Lights!WriterStep(x)
        \/ \E x \in Lights!Writers : Lights!Call(x) \/ Lights!Fails(x)
        \/ Lights!_refresh_lighting_switch_after_on \/ Lights!Settles \/ Lights!WindowEnds
        \/ Lights!Poll \/ Lights!AppSwitches
    BY DEF Lights!Next, Lights!Work
  <2> QED
    BY <2>1, <1>3, <1>4, <1>5, <1>6
<1>8. UNCHANGED <<lsc, known>> /\ job' = [job EXCEPT ![w].pc = "putDone"]
  BY <1>7 DEF Lights!Takes
<1>9. job'[w].op = job[w].op
  BY <1>8, <1>1 DEF LightTypes
<1>10. InPace(w) /\ InPace(w)'
  <2>1. CacheIsRight' /\ Lights!Busy(w)'
    BY <1>7, LightTaken DEF LightInv, Lights!Busy
  <2> QED
    BY <2>1, <1>1, <1>2, <1>8 DEF CacheIsRight
<1>11. lsc = Lights!Reported /\ Lights!Reported' = job'[w].body /\ SentRight(w)'
  BY <1>10 DEF InPace
<1>12. \A g \in Lights!Groups \ job[w].op.g : job'[w].body[g] = lsc[g]
  BY <1>8, <1>9, <1>11 DEF SentRight
<1>13. Lights!Reported' = Lights!Shown(stored', enabled')
  BY DEF Lights!Reported, Lights!Shown
<1> QED
  BY <1>11, <1>12, <1>13

\* The three scenes.
LEMMA OwnVariables ==
  /\ UNCHANGED Lights!vars <=> UNCHANGED lightVars
  /\ UNCHANGED Privacy!vars <=> UNCHANGED privacyVars
  /\ UNCHANGED Settings!vars <=> UNCHANGED settingVars
BY DEF Lights!vars, Privacy!vars, Settings!vars, lightVars, privacyVars, settingVars

\* A step of another scene keeps the invariant of the lights,
LEMMA LightStutter == ASSUME LightInv, UNCHANGED lightVars PROVE LightInv'
<1>1. UNCHANGED <<stored, enabled, lag, lsc, sw, current, fresh, job, confirm, poll, menu, known, off>>
  BY DEF lightVars
<1>2. LightTypes' /\ OffAlone'
  BY <1>1 DEF LightInv, LightTypes, OffAlone, Dark, Lights!Busy, Lights!Zero
<1>3. CacheIsRight'
  BY <1>1, Aside DEF LightInv
<1> QED
  BY <1>2, <1>3 DEF LightInv

\* that of privacy,
LEMMA PrivacyStutter == ASSUME PrivacyInv, UNCHANGED privacyVars PROVE PrivacyInv'
BY DEF privacyVars, PrivacyInv, PrivacyTypes, Undisturbed, OneWrite, LastIsWritten, CacheFollows, Taken, Privacy!Busy

\* and that of a settings object.
LEMMA SettingStutter == ASSUME SettingInv, UNCHANGED settingVars PROVE SettingInv'
BY DEF settingVars, SettingInv, SettingTypes, OneCall, Written, Cached, AtMostOne, NoAnswerDue, Answer, With,
       Settings!Busy, Settings!Protected, Settings!Set

\* Whatever is asked of the lights: an OFF that nothing disturbs is shown until its window ends,
\* and a full body leaves the lights it is not about as they are (shc.py, light.py).
THEOREM LightsAreKept ==
    Lights!Init /\ [][Lights!Next]_(Lights!vars) => []Lights!OffIsShown /\ Lights!SiblingsKept
<1>1. Lights!Init => LightInv
  BY LightInit
<1>2. LightInv /\ [Lights!Next]_(Lights!vars) =>
        LightInv' /\ [\A w \in Lights!Writers : Untouched(w)]_(Lights!vars)
  BY LightStep, PutTaken, LightStutter, OwnVariables
<1>3. LightInv => Lights!OffIsShown
  BY LightHolds
<1>4. (\A w \in Lights!Writers : Untouched(w)) <=>
        \A w \in Lights!Writers :
            (known /\ job[w].pc = "put" /\ job'[w].pc = "putDone")
               => \A g \in Lights!Groups \ job[w].op.g : Lights!Shown(stored', enabled')[g] = Lights!Reported[g]
  BY DEF Untouched
<1> QED
  BY <1>1, <1>2, <1>3, <1>4, PTL DEF Lights!SiblingsKept

\* Whatever is asked of the privacy mode: what was asked for last holds and is shown
\* (switch.py, the privacy switch).
THEOREM PrivacyIsKept == Privacy!Init /\ [][Privacy!Next]_(Privacy!vars) => []Privacy!RequestHolds
<1>1. PrivacyInv /\ [Privacy!Next]_(Privacy!vars) => PrivacyInv'
  BY PrivacyStep, PrivacyStutter, OwnVariables
<1> QED
  BY <1>1, PrivacyInit, PrivacyHolds, PTL

\* Whatever is asked of a settings object that has a lock or whose calls do not meet: no call
\* undoes another's field, and the cache shows what was acknowledged (switch.py, number.py).
THEOREM SettingsAreKept == Settings!Init /\ [][Settings!Next]_(Settings!vars) => []Settings!NothingUndone
<1>1. SettingInv /\ [Settings!Next]_(Settings!vars) => SettingInv'
  BY SettingStep, SettingStutter, OwnVariables
<1> QED
  BY <1>1, SettingInit, SettingHolds, PTL

\* Beside the other two each of them does what it does alone.
LEMMA EachScene ==
  MCSpec => /\ Lights!Init /\ [][Lights!Next]_(Lights!vars)
            /\ Privacy!Init /\ [][Privacy!Next]_(Privacy!vars)
            /\ Settings!Init /\ [][Settings!Next]_(Settings!vars)
<1>1. MCInit => Lights!Init /\ Privacy!Init /\ Settings!Init
  BY DEF MCInit
<1>2. [MCNext]_all => /\ [Lights!Next]_(Lights!vars)
                      /\ [Privacy!Next]_(Privacy!vars)
                      /\ [Settings!Next]_(Settings!vars)
  <2>1. UNCHANGED all => UNCHANGED lightVars /\ UNCHANGED privacyVars /\ UNCHANGED settingVars
    BY DEF all
  <2>2. MCNext => /\ Lights!Next \/ UNCHANGED lightVars
                  /\ Privacy!Next \/ UNCHANGED privacyVars
                  /\ Settings!Next \/ UNCHANGED settingVars
    BY DEF MCNext, InLights, InPrivacy, InSettings
  <2> QED
    BY <2>1, <2>2, OwnVariables
<1> QED
  BY <1>1, <1>2, PTL DEF MCSpec

\* For every number of writers and calls: what was asked for last holds and is shown, of the
\* lights, of the privacy mode and of every settings object (shc.py, light.py, switch.py).
THEOREM RequestsAreKept == MCSpec => []RequestsHold
<1>1. Lights!OffIsShown /\ Privacy!RequestHolds /\ Settings!NothingUndone => RequestsHold
  BY DEF RequestsHold
<1> QED
  BY <1>1, EachScene, LightsAreKept, PrivacyIsKept, SettingsAreKept, PTL

\* For every number of writers and calls: the full body of one light's write leaves the others
\* as they are (shc.py:239, light.py:640).
THEOREM SiblingsAreKept == MCSpec => SiblingsKept
BY EachScene, LightsAreKept, PTL DEF SiblingsKept

(***************************************************************************)
(* The bearer token, for every set of callers and every bound.             *)
(*                                                                         *)
(* IInv strengthens the safety properties to an inductive invariant: only  *)
(* the lock's holder exchanges a token (Mutex), memory never runs ahead of *)
(* the config entry (Persisted), and the refresh token at hand is the one  *)
(* Keycloak honours until the reply that carries the next pair is under    *)
(* way (InStep).  There is one lemma for each action; a leaf expands the   *)
(* action and the conjuncts of IInv it needs.                              *)
(***************************************************************************)
\* Only the holder of the lock has an exchange under way, a reply exists
\* only while its POST waits for one, and no POST carries an empty token.
Mutex ==
    /\ \A c \in Callers : Exchanging(c) <=> owner = c
    /\ reply.kind # "none" => owner # None /\ pc[owner] = "post"
    /\ owner # None => sent # 0

\* A sleeping holder has an attempt left.
Bounded == \A c \in Callers : pc[c] = "sleep" => attempt < MaxAttempts - 1

\* Memory never runs ahead of the config entry.
Persisted == mem = NoPair \/ mem = entry

\* The refresh token at hand is the one Keycloak honours.
InStep ==
    ~MayLose =>
        IF reply.kind = "tokens" THEN reply.pair.refresh = valid
                                 ELSE entry.refresh \in {0, valid}

\* Every step towards reauth answers for an ambiguous reply.
Counted ==
    /\ failCount <= ambiguous
    /\ reply.kind \in {"malformed", "other"} => failCount + 1 <= ambiguous

\* Keycloak numbers its pairs: the one under way is newer than the current.
Fresh ==
    /\ entry.bearer <= issued /\ mem.bearer <= issued
    /\ reply.kind = "tokens" => reply.pair.bearer = issued /\ Token < issued

NotSelfInflicted == ~MayLose => NoSelfInflictedRefusal

IInv ==
    /\ TypeOK
    /\ Mutex
    /\ Bounded
    /\ Persisted
    /\ InStep
    /\ Counted
    /\ RefreshesTheCurrentToken
    /\ NoPostDuringBackoff
    /\ NotSelfInflicted
    /\ Fresh
    /\ NeverTheRejectedToken

\* The groups of variables, the empty pair and reply, and the constants'
\* assumptions are used throughout.
USE TokenAuthAssumption, NoneIsNoCaller
USE DEF store, lock, tasks, exchange, counters, keycloak, None, NoPair,
        NoReply, MaxAttempts, EscalateAfter

LEMMA BackoffPositive == \A n \in Nat \ {0} : Backoff(n) \in Nat \ {0}
BY DEF Backoff

LEMMA CallApiKeeps ==
  ASSUME IInv, NEW c \in Callers, CallApi(c)
  PROVE  IInv'
<1>1. TypeOK'
  BY DEF IInv, CallApi, TypeOK, Mutex, Bounded, Token, Pair, Answers,
     Exchanging
<1>2. Mutex'
  BY DEF IInv, CallApi, TypeOK, Mutex, Token, Pair, Answers, Exchanging
<1>3. Bounded'
  BY DEF IInv, CallApi, TypeOK, Mutex, Bounded, Token, Pair, Answers,
     Exchanging
<1>4. Persisted'
  BY DEF IInv, CallApi, TypeOK, Persisted, Token, Pair, Answers
<1>5. InStep'
  BY DEF IInv, CallApi, TypeOK, Mutex, Persisted, InStep, Token, Pair,
     Answers, Exchanging
<1>6. Counted'
  BY DEF IInv, CallApi, TypeOK, Mutex, Counted, Token, Pair, Answers,
     Exchanging
<1>7. RefreshesTheCurrentToken'
  BY DEF IInv, CallApi, TypeOK, Mutex, Persisted, RefreshesTheCurrentToken,
     Token, Pair, Answers, Exchanging, RefreshToken
<1>8. NoPostDuringBackoff'
  BY DEF IInv, CallApi, TypeOK, Mutex, NoPostDuringBackoff, Token, Pair,
     Answers, Exchanging, GateOpen
<1>9. NotSelfInflicted'
  BY DEF IInv, CallApi, TypeOK, Mutex, Persisted, InStep,
     RefreshesTheCurrentToken, NotSelfInflicted, Token, Pair, Answers,
     Exchanging, RefreshToken, NoSelfInflictedRefusal
<1>10. Fresh'
  BY DEF IInv, CallApi, TypeOK, Mutex, Persisted, Fresh, Token, Pair,
     Answers, Exchanging
<1>11. NeverTheRejectedToken'
  BY DEF IInv, CallApi, TypeOK, Mutex, Fresh, RefreshesTheCurrentToken,
     NeverTheRejectedToken, Token, Pair, Answers, Exchanging, RefreshToken
<1>. QED BY <1>1, <1>2, <1>3, <1>4, <1>5, <1>6, <1>7, <1>8, <1>9, <1>10, <1>11 DEF IInv

LEMMA ApiAnswersKeeps ==
  ASSUME IInv, NEW c \in Callers, ApiAnswers(c)
  PROVE  IInv'
BY DEF IInv, ApiAnswers, TypeOK, Mutex, Bounded, Persisted, InStep, Counted,
   RefreshesTheCurrentToken, NoPostDuringBackoff, NotSelfInflicted, Fresh,
   NeverTheRejectedToken, Pair, Answers, Exchanging, Token, RefreshToken,
   GateOpen, NoSelfInflictedRefusal

LEMMA UnauthorizedKeeps ==
  ASSUME IInv, NEW c \in Callers, Unauthorized(c)
  PROVE  IInv'
<1>1. TypeOK'
  BY DEF IInv, Unauthorized, TypeOK, Mutex, Bounded, Pair, Answers,
     Exchanging
<1>2. Mutex'
  BY DEF IInv, Unauthorized, TypeOK, Mutex, Pair, Answers, Exchanging
<1>3. Bounded'
  BY DEF IInv, Unauthorized, TypeOK, Mutex, Bounded, Pair, Answers,
     Exchanging
<1>4. Persisted'
  BY DEF IInv, Unauthorized, TypeOK, Persisted, Pair, Answers
<1>5. InStep'
  BY DEF IInv, Unauthorized, TypeOK, Mutex, Persisted, InStep, Pair, Answers,
     Exchanging
<1>6. Counted'
  BY DEF IInv, Unauthorized, TypeOK, Mutex, Counted, Pair, Answers,
     Exchanging
<1>7. RefreshesTheCurrentToken'
  BY DEF IInv, Unauthorized, TypeOK, Mutex, Persisted,
     RefreshesTheCurrentToken, Pair, Answers, Exchanging, Token, RefreshToken
<1>8. NoPostDuringBackoff'
  BY DEF IInv, Unauthorized, TypeOK, Mutex, NoPostDuringBackoff, Pair,
     Answers, Exchanging, GateOpen
<1>9. NotSelfInflicted'
  BY DEF IInv, Unauthorized, TypeOK, Mutex, Persisted, InStep,
     RefreshesTheCurrentToken, NotSelfInflicted, Pair, Answers, Exchanging,
     Token, RefreshToken, NoSelfInflictedRefusal
<1>10. Fresh'
  BY DEF IInv, Unauthorized, TypeOK, Mutex, Persisted, Fresh, Pair, Answers,
     Exchanging, Token
<1>11. NeverTheRejectedToken'
  BY DEF IInv, Unauthorized, TypeOK, Mutex, Fresh, RefreshesTheCurrentToken,
     NeverTheRejectedToken, Pair, Answers, Exchanging, Token, RefreshToken
<1>. QED BY <1>1, <1>2, <1>3, <1>4, <1>5, <1>6, <1>7, <1>8, <1>9, <1>10, <1>11 DEF IInv

LEMMA ReuseRefreshedKeeps ==
  ASSUME IInv, NEW c \in Callers, ReuseRefreshed(c)
  PROVE  IInv'
<1>1. TypeOK'
  BY DEF IInv, ReuseRefreshed, TypeOK, Mutex, Bounded, Token, LeavesAtOnce,
     Pair, Answers, Exchanging, MyTurn, Leaves
<1>2. Mutex'
  BY DEF IInv, ReuseRefreshed, TypeOK, Mutex, Token, LeavesAtOnce, Pair,
     Answers, Exchanging, MyTurn, Leaves
<1>3. Bounded'
  BY DEF IInv, ReuseRefreshed, TypeOK, Mutex, Bounded, Token, LeavesAtOnce,
     Pair, Answers, Exchanging, MyTurn, Leaves
<1>4. Persisted'
  BY DEF IInv, ReuseRefreshed, TypeOK, Persisted, Token, LeavesAtOnce, Pair,
     Answers, MyTurn, Leaves
<1>5. InStep'
  BY DEF IInv, ReuseRefreshed, TypeOK, Mutex, Persisted, InStep, Token,
     LeavesAtOnce, Pair, Answers, Exchanging, MyTurn, Leaves
<1>6. Counted'
  BY DEF IInv, ReuseRefreshed, TypeOK, Mutex, Counted, Token, LeavesAtOnce,
     Pair, Answers, Exchanging, MyTurn, Leaves
<1>7. RefreshesTheCurrentToken'
  BY DEF IInv, ReuseRefreshed, TypeOK, Mutex, Persisted,
     RefreshesTheCurrentToken, Token, LeavesAtOnce, Pair, Answers,
     Exchanging, RefreshToken, MyTurn, Leaves
<1>8. NoPostDuringBackoff'
  BY DEF IInv, ReuseRefreshed, TypeOK, Mutex, NoPostDuringBackoff, Token,
     LeavesAtOnce, Pair, Answers, Exchanging, GateOpen, MyTurn, Leaves
<1>9. NotSelfInflicted'
  BY DEF IInv, ReuseRefreshed, TypeOK, Mutex, Persisted, InStep,
     RefreshesTheCurrentToken, NotSelfInflicted, Token, LeavesAtOnce, Pair,
     Answers, Exchanging, RefreshToken, NoSelfInflictedRefusal, MyTurn,
     Leaves
<1>10. Fresh'
  BY DEF IInv, ReuseRefreshed, TypeOK, Mutex, Persisted, Fresh, Token,
     LeavesAtOnce, Pair, Answers, Exchanging, MyTurn, Leaves
<1>11. NeverTheRejectedToken'
  BY SMTT(60) DEF IInv, ReuseRefreshed, TypeOK, Mutex, Fresh,
     RefreshesTheCurrentToken, NeverTheRejectedToken, Token, LeavesAtOnce,
     Pair, Answers, Exchanging, RefreshToken, MyTurn, Leaves
<1>. QED BY <1>1, <1>2, <1>3, <1>4, <1>5, <1>6, <1>7, <1>8, <1>9, <1>10, <1>11 DEF IInv

LEMMA GateClosedKeeps ==
  ASSUME IInv, NEW c \in Callers, GateClosed(c)
  PROVE  IInv'
<1>1. TypeOK'
  BY SMTT(60) DEF IInv, GateClosed, TypeOK, Mutex, Bounded, Token, GateOpen,
     LeavesAtOnce, Pair, Answers, Exchanging, MyTurn, Leaves
<1>2. Mutex'
  BY DEF IInv, GateClosed, TypeOK, Mutex, Token, GateOpen, LeavesAtOnce,
     Pair, Answers, Exchanging, MyTurn, Leaves
<1>3. Bounded'
  BY DEF IInv, GateClosed, TypeOK, Mutex, Bounded, Token, GateOpen,
     LeavesAtOnce, Pair, Answers, Exchanging, MyTurn, Leaves
<1>4. Persisted'
  BY DEF IInv, GateClosed, TypeOK, Persisted, Token, GateOpen, LeavesAtOnce,
     Pair, Answers, MyTurn, Leaves
<1>5. InStep'
  BY DEF IInv, GateClosed, TypeOK, Mutex, Persisted, InStep, Token, GateOpen,
     LeavesAtOnce, Pair, Answers, Exchanging, MyTurn, Leaves
<1>6. Counted'
  BY DEF IInv, GateClosed, TypeOK, Mutex, Counted, Token, GateOpen,
     LeavesAtOnce, Pair, Answers, Exchanging, MyTurn, Leaves
<1>7. RefreshesTheCurrentToken'
  BY DEF IInv, GateClosed, TypeOK, Mutex, Persisted,
     RefreshesTheCurrentToken, Token, GateOpen, LeavesAtOnce, Pair, Answers,
     Exchanging, RefreshToken, MyTurn, Leaves
<1>8. NoPostDuringBackoff'
  BY DEF IInv, GateClosed, TypeOK, Mutex, NoPostDuringBackoff, Token,
     GateOpen, LeavesAtOnce, Pair, Answers, Exchanging, MyTurn, Leaves
<1>9. NotSelfInflicted'
  BY DEF IInv, GateClosed, TypeOK, Mutex, Persisted, InStep,
     RefreshesTheCurrentToken, NotSelfInflicted, Token, GateOpen,
     LeavesAtOnce, Pair, Answers, Exchanging, RefreshToken,
     NoSelfInflictedRefusal, MyTurn, Leaves
<1>10. Fresh'
  BY DEF IInv, GateClosed, TypeOK, Mutex, Persisted, Fresh, Token, GateOpen,
     LeavesAtOnce, Pair, Answers, Exchanging, MyTurn, Leaves
<1>11. NeverTheRejectedToken'
  BY DEF IInv, GateClosed, TypeOK, Mutex, Fresh, RefreshesTheCurrentToken,
     NeverTheRejectedToken, Token, GateOpen, LeavesAtOnce, Pair, Answers,
     Exchanging, RefreshToken, MyTurn, Leaves
<1>. QED BY <1>1, <1>2, <1>3, <1>4, <1>5, <1>6, <1>7, <1>8, <1>9, <1>10, <1>11 DEF IInv

LEMMA NoRefreshTokenKeeps ==
  ASSUME IInv, NEW c \in Callers, NoRefreshToken(c)
  PROVE  IInv'
BY SMTT(60) DEF IInv, NoRefreshToken, TypeOK, Mutex, Bounded, Persisted, InStep,
   Counted, RefreshesTheCurrentToken, NoPostDuringBackoff, NotSelfInflicted,
   Fresh, NeverTheRejectedToken, Token, GateOpen, RefreshToken, LeavesAtOnce,
   Pair, Answers, Exchanging, NoSelfInflictedRefusal, MyTurn, Leaves

LEMMA StartRefreshKeeps ==
  ASSUME IInv, NEW c \in Callers, StartRefresh(c)
  PROVE  IInv'
<1>1. TypeOK'
  <2>1. entry' \in Pair /\ mem' \in Pair
    BY DEF IInv, TypeOK, Mutex, Bounded, StartRefresh, Pair, Answers,
       Exchanging, MyTurn, Token, GateOpen, RefreshToken
  <2>2. owner' \in Callers \cup {None} /\ waiters' \in Seq(Callers)
    BY DEF IInv, TypeOK, Mutex, Bounded, StartRefresh, Pair, Answers,
       Exchanging, MyTurn, Token, GateOpen, RefreshToken
  <2>3. pc' \in [Callers -> {"idle", "api", "queued", "post", "sleep"}]
    BY DEF IInv, TypeOK, Mutex, Bounded, StartRefresh, Pair, Answers,
       Exchanging, MyTurn, Token, GateOpen, RefreshToken
  <2>4. obs' \in [Callers -> 0..MaxIssued]
    BY DEF IInv, TypeOK, Mutex, Bounded, StartRefresh, Pair, Answers,
       Exchanging, MyTurn, Token, GateOpen, RefreshToken
  <2>5. outcome' \in [Callers -> {None, "token", "retry", "reauth"}]
    BY DEF IInv, TypeOK, Mutex, Bounded, StartRefresh, Pair, Answers,
       Exchanging, MyTurn, Token, GateOpen, RefreshToken
  <2>6. got' \in [Callers -> 0..MaxIssued]
    BY DEF IInv, TypeOK, Mutex, Bounded, StartRefresh, Pair, Answers,
       Exchanging, MyTurn, Token, GateOpen, RefreshToken
  <2>7. attempt' \in 0..(MaxAttempts - 1)
    BY DEF IInv, TypeOK, Mutex, Bounded, StartRefresh, Pair, Answers,
       Exchanging, MyTurn, Token, GateOpen, RefreshToken
  <2>8. sent' \in 0..MaxIssued
    BY DEF IInv, TypeOK, Mutex, Bounded, StartRefresh, Pair, Answers,
       Exchanging, MyTurn, Token, GateOpen, RefreshToken
  <2>9. reply' \in [kind : Answers, pair : Pair]
    BY DEF IInv, TypeOK, Mutex, Bounded, StartRefresh, Pair, Answers,
       Exchanging, MyTurn, Token, GateOpen, RefreshToken
  <2>10. failCount' \in Nat /\ outageCount' \in Nat /\ gateWait' \in Nat
    BY DEF IInv, TypeOK, Mutex, Bounded, StartRefresh, Pair, Answers,
       Exchanging, MyTurn, Token, GateOpen, RefreshToken
  <2>11. elapsed' \in 0..1
    BY DEF IInv, TypeOK, Mutex, Bounded, StartRefresh, Pair, Answers,
       Exchanging, MyTurn, Token, GateOpen, RefreshToken
  <2>12. armed' \in BOOLEAN /\ alertSent' \in BOOLEAN
    BY DEF IInv, TypeOK, Mutex, Bounded, StartRefresh, Pair, Answers,
       Exchanging, MyTurn, Token, GateOpen, RefreshToken
  <2>13. issued' \in 1..MaxIssued /\ valid' \in 1..MaxIssued
    BY DEF IInv, TypeOK, Mutex, Bounded, StartRefresh, Pair, Answers,
       Exchanging, MyTurn, Token, GateOpen, RefreshToken
  <2>14. grantDead' \in BOOLEAN /\ ambiguous' \in Nat
    BY DEF IInv, TypeOK, Mutex, Bounded, StartRefresh, Pair, Answers,
       Exchanging, MyTurn, Token, GateOpen, RefreshToken
  <2>. QED BY <2>1, <2>2, <2>3, <2>4, <2>5, <2>6, <2>7, <2>8, <2>9, <2>10, <2>11, <2>12, <2>13, <2>14 DEF TypeOK
<1>2. Mutex'
  BY SMTT(60) DEF IInv, StartRefresh, TypeOK, Mutex, MyTurn, Token, GateOpen,
     RefreshToken, Pair, Answers, Exchanging
<1>3. Bounded'
  BY DEF IInv, StartRefresh, TypeOK, Mutex, Bounded, MyTurn, Token, GateOpen,
     RefreshToken, Pair, Answers, Exchanging
<1>4. Persisted'
  BY DEF IInv, StartRefresh, TypeOK, Persisted, MyTurn, Token, GateOpen,
     RefreshToken, Pair, Answers
<1>5. InStep'
  BY DEF IInv, StartRefresh, TypeOK, Mutex, Persisted, InStep, MyTurn, Token,
     GateOpen, RefreshToken, Pair, Answers, Exchanging
<1>6. Counted'
  BY DEF IInv, StartRefresh, TypeOK, Mutex, Counted, MyTurn, Token, GateOpen,
     RefreshToken, Pair, Answers, Exchanging
<1>7. RefreshesTheCurrentToken'
  BY DEF IInv, StartRefresh, TypeOK, Mutex, Persisted,
     RefreshesTheCurrentToken, MyTurn, Token, GateOpen, RefreshToken, Pair,
     Answers, Exchanging
<1>8. NoPostDuringBackoff'
  BY DEF IInv, StartRefresh, TypeOK, Mutex, NoPostDuringBackoff, MyTurn,
     Token, GateOpen, RefreshToken, Pair, Answers, Exchanging
<1>9. NotSelfInflicted'
  BY DEF IInv, StartRefresh, TypeOK, Mutex, Persisted, InStep,
     RefreshesTheCurrentToken, NotSelfInflicted, MyTurn, Token, GateOpen,
     RefreshToken, Pair, Answers, Exchanging, NoSelfInflictedRefusal
<1>10. Fresh'
  BY DEF IInv, StartRefresh, TypeOK, Mutex, Persisted, Fresh, MyTurn, Token,
     GateOpen, RefreshToken, Pair, Answers, Exchanging
<1>11. NeverTheRejectedToken'
  BY DEF IInv, StartRefresh, TypeOK, Mutex, Fresh, RefreshesTheCurrentToken,
     NeverTheRejectedToken, MyTurn, Token, GateOpen, RefreshToken, Pair,
     Answers, Exchanging
<1>. QED BY <1>1, <1>2, <1>3, <1>4, <1>5, <1>6, <1>7, <1>8, <1>9, <1>10, <1>11 DEF IInv

LEMMA SuccessKeeps ==
  ASSUME IInv, NEW c \in Callers, Success(c)
  PROVE  IInv'
<1>1. TypeOK'
  <2>1. entry' \in Pair /\ mem' \in Pair
    BY DEF IInv, TypeOK, Mutex, Bounded, Success, Pair, Answers, Exchanging,
       Holds, Leaves, Release
  <2>2. owner' \in Callers \cup {None} /\ waiters' \in Seq(Callers)
    BY DEF IInv, TypeOK, Mutex, Bounded, Success, Pair, Answers, Exchanging,
       Holds, Leaves, Release
  <2>3. pc' \in [Callers -> {"idle", "api", "queued", "post", "sleep"}]
    BY DEF IInv, TypeOK, Mutex, Bounded, Success, Pair, Answers, Exchanging,
       Holds, Leaves, Release
  <2>4. obs' \in [Callers -> 0..MaxIssued]
    BY DEF IInv, TypeOK, Mutex, Bounded, Success, Pair, Answers, Exchanging,
       Holds, Leaves, Release
  <2>5. outcome' \in [Callers -> {None, "token", "retry", "reauth"}]
    BY DEF IInv, TypeOK, Mutex, Bounded, Success, Pair, Answers, Exchanging,
       Holds, Leaves, Release
  <2>6. got' \in [Callers -> 0..MaxIssued]
    BY DEF IInv, TypeOK, Mutex, Bounded, Success, Pair, Answers, Exchanging,
       Holds, Leaves, Release
  <2>7. attempt' \in 0..(MaxAttempts - 1)
    BY DEF IInv, TypeOK, Mutex, Bounded, Success, Pair, Answers, Exchanging,
       Holds, Leaves, Release
  <2>8. sent' \in 0..MaxIssued
    BY DEF IInv, TypeOK, Mutex, Bounded, Success, Pair, Answers, Exchanging,
       Holds, Leaves, Release
  <2>9. reply' \in [kind : Answers, pair : Pair]
    BY DEF IInv, TypeOK, Mutex, Bounded, Success, Pair, Answers, Exchanging,
       Holds, Leaves, Release
  <2>10. failCount' \in Nat /\ outageCount' \in Nat /\ gateWait' \in Nat
    BY DEF IInv, TypeOK, Mutex, Bounded, Success, Pair, Answers, Exchanging,
       Holds, Leaves, Release
  <2>11. elapsed' \in 0..1
    BY DEF IInv, TypeOK, Mutex, Bounded, Success, Pair, Answers, Exchanging,
       Holds, Leaves, Release
  <2>12. armed' \in BOOLEAN /\ alertSent' \in BOOLEAN
    BY DEF IInv, TypeOK, Mutex, Bounded, Success, Pair, Answers, Exchanging,
       Holds, Leaves, Release
  <2>13. issued' \in 1..MaxIssued /\ valid' \in 1..MaxIssued
    BY DEF IInv, TypeOK, Mutex, Bounded, Success, Pair, Answers, Exchanging,
       Holds, Leaves, Release
  <2>14. grantDead' \in BOOLEAN /\ ambiguous' \in Nat
    BY DEF IInv, TypeOK, Mutex, Bounded, Success, Pair, Answers, Exchanging,
       Holds, Leaves, Release
  <2>. QED BY <2>1, <2>2, <2>3, <2>4, <2>5, <2>6, <2>7, <2>8, <2>9, <2>10, <2>11, <2>12, <2>13, <2>14 DEF TypeOK
<1>2. Mutex'
  BY DEF IInv, Success, TypeOK, Mutex, Holds, Leaves, Release, Pair, Answers,
     Exchanging
<1>3. Bounded'
  BY DEF IInv, Success, TypeOK, Mutex, Bounded, Holds, Leaves, Release, Pair,
     Answers, Exchanging
<1>4. Persisted'
  BY DEF IInv, Success, TypeOK, Persisted, Holds, Leaves, Release, Pair,
     Answers
<1>5. InStep'
  BY DEF IInv, Success, TypeOK, Mutex, Persisted, InStep, Holds, Leaves,
     Release, Pair, Answers, Exchanging
<1>6. Counted'
  BY DEF IInv, Success, TypeOK, Mutex, Counted, Holds, Leaves, Release, Pair,
     Answers, Exchanging
<1>7. RefreshesTheCurrentToken'
  BY DEF IInv, Success, TypeOK, Mutex, Persisted, RefreshesTheCurrentToken,
     Holds, Leaves, Release, Pair, Answers, Exchanging, Token, RefreshToken
<1>8. NoPostDuringBackoff'
  BY DEF IInv, Success, TypeOK, Mutex, NoPostDuringBackoff, Holds, Leaves,
     Release, Pair, Answers, Exchanging, GateOpen
<1>9. NotSelfInflicted'
  BY DEF IInv, Success, TypeOK, Mutex, Persisted, InStep,
     RefreshesTheCurrentToken, NotSelfInflicted, Holds, Leaves, Release,
     Pair, Answers, Exchanging, Token, RefreshToken, NoSelfInflictedRefusal
<1>10. Fresh'
  BY DEF IInv, Success, TypeOK, Mutex, Persisted, Fresh, Holds, Leaves,
     Release, Pair, Answers, Exchanging, Token
<1>11. NeverTheRejectedToken'
  BY DEF IInv, Success, TypeOK, Mutex, Fresh, RefreshesTheCurrentToken,
     NeverTheRejectedToken, Holds, Leaves, Release, Pair, Answers,
     Exchanging, Token, RefreshToken
<1>. QED BY <1>1, <1>2, <1>3, <1>4, <1>5, <1>6, <1>7, <1>8, <1>9, <1>10, <1>11 DEF IInv

LEMMA SleepAndRetryKeeps ==
  ASSUME IInv, NEW c \in Callers, SleepAndRetry(c)
  PROVE  IInv'
<1>1. TypeOK'
  <2>1. entry' \in Pair /\ mem' \in Pair
    BY DEF IInv, TypeOK, Mutex, Bounded, SleepAndRetry, Pair, Answers,
       Exchanging, Holds
  <2>2. owner' \in Callers \cup {None} /\ waiters' \in Seq(Callers)
    BY DEF IInv, TypeOK, Mutex, Bounded, SleepAndRetry, Pair, Answers,
       Exchanging, Holds
  <2>3. pc' \in [Callers -> {"idle", "api", "queued", "post", "sleep"}]
    BY DEF IInv, TypeOK, Mutex, Bounded, SleepAndRetry, Pair, Answers,
       Exchanging, Holds
  <2>4. obs' \in [Callers -> 0..MaxIssued]
    BY DEF IInv, TypeOK, Mutex, Bounded, SleepAndRetry, Pair, Answers,
       Exchanging, Holds
  <2>5. outcome' \in [Callers -> {None, "token", "retry", "reauth"}]
    BY DEF IInv, TypeOK, Mutex, Bounded, SleepAndRetry, Pair, Answers,
       Exchanging, Holds
  <2>6. got' \in [Callers -> 0..MaxIssued]
    BY DEF IInv, TypeOK, Mutex, Bounded, SleepAndRetry, Pair, Answers,
       Exchanging, Holds
  <2>7. attempt' \in 0..(MaxAttempts - 1)
    BY DEF IInv, TypeOK, Mutex, Bounded, SleepAndRetry, Pair, Answers,
       Exchanging, Holds
  <2>8. sent' \in 0..MaxIssued
    BY DEF IInv, TypeOK, Mutex, Bounded, SleepAndRetry, Pair, Answers,
       Exchanging, Holds
  <2>9. reply' \in [kind : Answers, pair : Pair]
    BY DEF IInv, TypeOK, Mutex, Bounded, SleepAndRetry, Pair, Answers,
       Exchanging, Holds
  <2>10. failCount' \in Nat /\ outageCount' \in Nat /\ gateWait' \in Nat
    BY DEF IInv, TypeOK, Mutex, Bounded, SleepAndRetry, Pair, Answers,
       Exchanging, Holds
  <2>11. elapsed' \in 0..1
    BY DEF IInv, TypeOK, Mutex, Bounded, SleepAndRetry, Pair, Answers,
       Exchanging, Holds
  <2>12. armed' \in BOOLEAN /\ alertSent' \in BOOLEAN
    BY DEF IInv, TypeOK, Mutex, Bounded, SleepAndRetry, Pair, Answers,
       Exchanging, Holds
  <2>13. issued' \in 1..MaxIssued /\ valid' \in 1..MaxIssued
    BY DEF IInv, TypeOK, Mutex, Bounded, SleepAndRetry, Pair, Answers,
       Exchanging, Holds
  <2>14. grantDead' \in BOOLEAN /\ ambiguous' \in Nat
    BY DEF IInv, TypeOK, Mutex, Bounded, SleepAndRetry, Pair, Answers,
       Exchanging, Holds
  <2>. QED BY <2>1, <2>2, <2>3, <2>4, <2>5, <2>6, <2>7, <2>8, <2>9, <2>10, <2>11, <2>12, <2>13, <2>14 DEF TypeOK
<1>2. Mutex'
  BY DEF IInv, SleepAndRetry, TypeOK, Mutex, Holds, Pair, Answers, Exchanging
<1>3. Bounded'
  BY DEF IInv, SleepAndRetry, TypeOK, Mutex, Bounded, Holds, Pair, Answers,
     Exchanging
<1>4. Persisted'
  BY DEF IInv, SleepAndRetry, TypeOK, Persisted, Holds, Pair, Answers
<1>5. InStep'
  BY DEF IInv, SleepAndRetry, TypeOK, Mutex, Persisted, InStep, Holds, Pair,
     Answers, Exchanging
<1>6. Counted'
  BY DEF IInv, SleepAndRetry, TypeOK, Mutex, Counted, Holds, Pair, Answers,
     Exchanging
<1>7. RefreshesTheCurrentToken'
  BY DEF IInv, SleepAndRetry, TypeOK, Mutex, Persisted,
     RefreshesTheCurrentToken, Holds, Pair, Answers, Exchanging, Token,
     RefreshToken
<1>8. NoPostDuringBackoff'
  BY DEF IInv, SleepAndRetry, TypeOK, Mutex, NoPostDuringBackoff, Holds,
     Pair, Answers, Exchanging, GateOpen
<1>9. NotSelfInflicted'
  BY DEF IInv, SleepAndRetry, TypeOK, Mutex, Persisted, InStep,
     RefreshesTheCurrentToken, NotSelfInflicted, Holds, Pair, Answers,
     Exchanging, Token, RefreshToken, NoSelfInflictedRefusal
<1>10. Fresh'
  BY DEF IInv, SleepAndRetry, TypeOK, Mutex, Persisted, Fresh, Holds, Pair,
     Answers, Exchanging, Token
<1>11. NeverTheRejectedToken'
  BY DEF IInv, SleepAndRetry, TypeOK, Mutex, Fresh, RefreshesTheCurrentToken,
     NeverTheRejectedToken, Holds, Pair, Answers, Exchanging, Token,
     RefreshToken
<1>. QED BY <1>1, <1>2, <1>3, <1>4, <1>5, <1>6, <1>7, <1>8, <1>9, <1>10, <1>11 DEF IInv

LEMMA NextAttemptKeeps ==
  ASSUME IInv, NEW c \in Callers, NextAttempt(c)
  PROVE  IInv'
<1>1. TypeOK'
  BY DEF IInv, NextAttempt, TypeOK, Mutex, Bounded, Pair, Answers, Exchanging
<1>2. Mutex'
  BY DEF IInv, NextAttempt, TypeOK, Mutex, Pair, Answers, Exchanging
<1>3. Bounded'
  BY DEF IInv, NextAttempt, TypeOK, Mutex, Bounded, Pair, Answers, Exchanging
<1>4. Persisted'
  BY DEF IInv, NextAttempt, TypeOK, Persisted, Pair, Answers
<1>5. InStep'
  BY DEF IInv, NextAttempt, TypeOK, Mutex, Persisted, InStep, Pair, Answers,
     Exchanging
<1>6. Counted'
  BY DEF IInv, NextAttempt, TypeOK, Mutex, Counted, Pair, Answers, Exchanging
<1>7. RefreshesTheCurrentToken'
  BY DEF IInv, NextAttempt, TypeOK, Mutex, Persisted,
     RefreshesTheCurrentToken, Pair, Answers, Exchanging, Token, RefreshToken
<1>8. NoPostDuringBackoff'
  BY DEF IInv, NextAttempt, TypeOK, Mutex, NoPostDuringBackoff, Pair,
     Answers, Exchanging, GateOpen
<1>9. NotSelfInflicted'
  BY DEF IInv, NextAttempt, TypeOK, Mutex, Persisted, InStep,
     RefreshesTheCurrentToken, NotSelfInflicted, Pair, Answers, Exchanging,
     Token, RefreshToken, NoSelfInflictedRefusal
<1>10. Fresh'
  BY DEF IInv, NextAttempt, TypeOK, Mutex, Persisted, Fresh, Pair, Answers,
     Exchanging, Token
<1>11. NeverTheRejectedToken'
  BY DEF IInv, NextAttempt, TypeOK, Mutex, Fresh, RefreshesTheCurrentToken,
     NeverTheRejectedToken, Pair, Answers, Exchanging, Token, RefreshToken
<1>. QED BY <1>1, <1>2, <1>3, <1>4, <1>5, <1>6, <1>7, <1>8, <1>9, <1>10, <1>11 DEF IInv

LEMMA GivesUpTransientKeeps ==
  ASSUME IInv, NEW c \in Callers, GivesUpTransient(c)
  PROVE  IInv'
BY SMTT(60) DEF IInv, GivesUpTransient, TypeOK, Mutex, Bounded, Persisted, InStep,
   Counted, RefreshesTheCurrentToken, NoPostDuringBackoff, NotSelfInflicted,
   Fresh, NeverTheRejectedToken, Holds, Leaves, Release, Pair, Answers,
   Exchanging, Token, RefreshToken, GateOpen, NoSelfInflictedRefusal

LEMMA GivesUpGenuineKeeps ==
  ASSUME IInv, NEW c \in Callers, GivesUpGenuine(c)
  PROVE  IInv'
BY SMTT(60) DEF IInv, GivesUpGenuine, TypeOK, Mutex, Bounded, Persisted, InStep,
   Counted, RefreshesTheCurrentToken, NoPostDuringBackoff, NotSelfInflicted,
   Fresh, NeverTheRejectedToken, Holds, Leaves, Release, Pair, Answers,
   Exchanging, Token, RefreshToken, GateOpen, NoSelfInflictedRefusal

LEMMA InvalidGrantKeeps ==
  ASSUME IInv, NEW c \in Callers, InvalidGrant(c)
  PROVE  IInv'
BY SMTT(60) DEF IInv, InvalidGrant, TypeOK, Mutex, Bounded, Persisted, InStep,
   Counted, RefreshesTheCurrentToken, NoPostDuringBackoff, NotSelfInflicted,
   Fresh, NeverTheRejectedToken, Holds, Leaves, Release, Pair, Answers,
   Exchanging, Token, RefreshToken, GateOpen, NoSelfInflictedRefusal

LEMMA OutageKeeps ==
  ASSUME IInv, NEW c \in Callers, Outage(c)
  PROVE  IInv'
<1>1. TypeOK'
  <2>1. entry' \in Pair /\ mem' \in Pair
    BY DEF IInv, TypeOK, Mutex, Bounded, Outage, Pair, Answers, Exchanging,
       Holds, Backoff, Leaves, Release
  <2>2. owner' \in Callers \cup {None} /\ waiters' \in Seq(Callers)
    BY DEF IInv, TypeOK, Mutex, Bounded, Outage, Pair, Answers, Exchanging,
       Holds, Backoff, Leaves, Release
  <2>3. pc' \in [Callers -> {"idle", "api", "queued", "post", "sleep"}]
    BY DEF IInv, TypeOK, Mutex, Bounded, Outage, Pair, Answers, Exchanging,
       Holds, Backoff, Leaves, Release
  <2>4. obs' \in [Callers -> 0..MaxIssued]
    BY DEF IInv, TypeOK, Mutex, Bounded, Outage, Pair, Answers, Exchanging,
       Holds, Backoff, Leaves, Release
  <2>5. outcome' \in [Callers -> {None, "token", "retry", "reauth"}]
    BY DEF IInv, TypeOK, Mutex, Bounded, Outage, Pair, Answers, Exchanging,
       Holds, Backoff, Leaves, Release
  <2>6. got' \in [Callers -> 0..MaxIssued]
    BY DEF IInv, TypeOK, Mutex, Bounded, Outage, Pair, Answers, Exchanging,
       Holds, Backoff, Leaves, Release
  <2>7. attempt' \in 0..(MaxAttempts - 1)
    BY DEF IInv, TypeOK, Mutex, Bounded, Outage, Pair, Answers, Exchanging,
       Holds, Backoff, Leaves, Release
  <2>8. sent' \in 0..MaxIssued
    BY DEF IInv, TypeOK, Mutex, Bounded, Outage, Pair, Answers, Exchanging,
       Holds, Backoff, Leaves, Release
  <2>9. reply' \in [kind : Answers, pair : Pair]
    BY DEF IInv, TypeOK, Mutex, Bounded, Outage, Pair, Answers, Exchanging,
       Holds, Backoff, Leaves, Release
  <2>10. failCount' \in Nat /\ outageCount' \in Nat /\ gateWait' \in Nat
    <3>1. failCount' = failCount /\ outageCount' = outageCount + 1
          /\ gateWait' = Backoff(outageCount + 1) - elapsed
      BY DEF Outage
    <3>2. failCount \in Nat /\ outageCount \in Nat /\ elapsed \in 0..1
      BY DEF IInv, TypeOK
    <3>3. Backoff(outageCount + 1) \in Nat \ {0}
      BY <3>2, BackoffPositive
    <3>. QED BY <3>1, <3>2, <3>3
  <2>11. elapsed' \in 0..1
    BY DEF IInv, TypeOK, Mutex, Bounded, Outage, Pair, Answers, Exchanging,
       Holds, Backoff, Leaves, Release
  <2>12. armed' \in BOOLEAN /\ alertSent' \in BOOLEAN
    BY DEF IInv, TypeOK, Mutex, Bounded, Outage, Pair, Answers, Exchanging,
       Holds, Backoff, Leaves, Release
  <2>13. issued' \in 1..MaxIssued /\ valid' \in 1..MaxIssued
    BY DEF IInv, TypeOK, Mutex, Bounded, Outage, Pair, Answers, Exchanging,
       Holds, Backoff, Leaves, Release
  <2>14. grantDead' \in BOOLEAN /\ ambiguous' \in Nat
    BY DEF IInv, TypeOK, Mutex, Bounded, Outage, Pair, Answers, Exchanging,
       Holds, Backoff, Leaves, Release
  <2>. QED BY <2>1, <2>2, <2>3, <2>4, <2>5, <2>6, <2>7, <2>8, <2>9, <2>10, <2>11, <2>12, <2>13, <2>14 DEF TypeOK
<1>2. Mutex'
  BY DEF IInv, Outage, TypeOK, Mutex, Holds, Backoff, Leaves, Release, Pair,
     Answers, Exchanging
<1>3. Bounded'
  BY DEF IInv, Outage, TypeOK, Mutex, Bounded, Holds, Backoff, Leaves,
     Release, Pair, Answers, Exchanging
<1>4. Persisted'
  BY DEF IInv, Outage, TypeOK, Persisted, Holds, Backoff, Leaves, Release,
     Pair, Answers
<1>5. InStep'
  BY DEF IInv, Outage, TypeOK, Mutex, Persisted, InStep, Holds, Backoff,
     Leaves, Release, Pair, Answers, Exchanging
<1>6. Counted'
  BY DEF IInv, Outage, TypeOK, Mutex, Counted, Holds, Backoff, Leaves,
     Release, Pair, Answers, Exchanging
<1>7. RefreshesTheCurrentToken'
  BY DEF IInv, Outage, TypeOK, Mutex, Persisted, RefreshesTheCurrentToken,
     Holds, Backoff, Leaves, Release, Pair, Answers, Exchanging, Token,
     RefreshToken
<1>8. NoPostDuringBackoff'
  BY DEF IInv, Outage, TypeOK, Mutex, NoPostDuringBackoff, Holds, Backoff,
     Leaves, Release, Pair, Answers, Exchanging, GateOpen
<1>9. NotSelfInflicted'
  BY DEF IInv, Outage, TypeOK, Mutex, Persisted, InStep,
     RefreshesTheCurrentToken, NotSelfInflicted, Holds, Backoff, Leaves,
     Release, Pair, Answers, Exchanging, Token, RefreshToken,
     NoSelfInflictedRefusal
<1>10. Fresh'
  BY DEF IInv, Outage, TypeOK, Mutex, Persisted, Fresh, Holds, Backoff,
     Leaves, Release, Pair, Answers, Exchanging, Token
<1>11. NeverTheRejectedToken'
  BY DEF IInv, Outage, TypeOK, Mutex, Fresh, RefreshesTheCurrentToken,
     NeverTheRejectedToken, Holds, Backoff, Leaves, Release, Pair, Answers,
     Exchanging, Token, RefreshToken
<1>. QED BY <1>1, <1>2, <1>3, <1>4, <1>5, <1>6, <1>7, <1>8, <1>9, <1>10, <1>11 DEF IInv

LEMMA OverallTimeoutKeeps ==
  ASSUME IInv, NEW c \in Callers, OverallTimeout(c)
  PROVE  IInv'
<1>1. TypeOK'
  BY DEF IInv, OverallTimeout, TypeOK, Mutex, Bounded, Exchanging, CanCancel,
     Leaves, Release, Pair, Answers
<1>2. Mutex'
  BY DEF IInv, OverallTimeout, TypeOK, Mutex, Exchanging, CanCancel, Leaves,
     Release, Pair, Answers
<1>3. Bounded'
  BY DEF IInv, OverallTimeout, TypeOK, Mutex, Bounded, Exchanging, CanCancel,
     Leaves, Release, Pair, Answers
<1>4. Persisted'
  BY DEF IInv, OverallTimeout, TypeOK, Persisted, Exchanging, CanCancel,
     Leaves, Release, Pair, Answers
<1>5. InStep'
  BY DEF IInv, OverallTimeout, TypeOK, Mutex, Persisted, InStep, Exchanging,
     CanCancel, Leaves, Release, Pair, Answers
<1>6. Counted'
  BY DEF IInv, OverallTimeout, TypeOK, Mutex, Counted, Exchanging, CanCancel,
     Leaves, Release, Pair, Answers
<1>7. RefreshesTheCurrentToken'
  BY DEF IInv, OverallTimeout, TypeOK, Mutex, Persisted,
     RefreshesTheCurrentToken, Exchanging, CanCancel, Leaves, Release, Pair,
     Answers, Token, RefreshToken
<1>8. NoPostDuringBackoff'
  BY DEF IInv, OverallTimeout, TypeOK, Mutex, NoPostDuringBackoff,
     Exchanging, CanCancel, Leaves, Release, Pair, Answers, GateOpen
<1>9. NotSelfInflicted'
  BY DEF IInv, OverallTimeout, TypeOK, Mutex, Persisted, InStep,
     RefreshesTheCurrentToken, NotSelfInflicted, Exchanging, CanCancel,
     Leaves, Release, Pair, Answers, Token, RefreshToken,
     NoSelfInflictedRefusal
<1>10. Fresh'
  BY DEF IInv, OverallTimeout, TypeOK, Mutex, Persisted, Fresh, Exchanging,
     CanCancel, Leaves, Release, Pair, Answers, Token
<1>11. NeverTheRejectedToken'
  BY DEF IInv, OverallTimeout, TypeOK, Mutex, Fresh,
     RefreshesTheCurrentToken, NeverTheRejectedToken, Exchanging, CanCancel,
     Leaves, Release, Pair, Answers, Token, RefreshToken
<1>. QED BY <1>1, <1>2, <1>3, <1>4, <1>5, <1>6, <1>7, <1>8, <1>9, <1>10, <1>11 DEF IInv

LEMMA CallerTimeoutKeeps ==
  ASSUME IInv, NEW c \in Callers, CallerTimeout(c)
  PROVE  IInv'
<1>1. CASE owner = c /\ Exchanging(c) /\ CanCancel /\ Release
  <2>1. TypeOK'
    BY <1>1 DEF IInv, CallerTimeout, TypeOK, Mutex, Bounded, Exchanging,
       CanCancel, Release, Leaves, Pair, Answers
  <2>2. Mutex'
    BY <1>1 DEF IInv, CallerTimeout, TypeOK, Mutex, Exchanging, CanCancel,
       Release, Leaves, Pair, Answers
  <2>3. Bounded'
    BY <1>1 DEF IInv, CallerTimeout, TypeOK, Mutex, Bounded, Exchanging,
       CanCancel, Release, Leaves, Pair, Answers
  <2>4. Persisted'
    BY <1>1 DEF IInv, CallerTimeout, TypeOK, Persisted, Exchanging,
       CanCancel, Release, Leaves, Pair, Answers
  <2>5. InStep'
    BY <1>1 DEF IInv, CallerTimeout, TypeOK, Mutex, Persisted, InStep,
       Exchanging, CanCancel, Release, Leaves, Pair, Answers
  <2>6. Counted'
    BY <1>1 DEF IInv, CallerTimeout, TypeOK, Mutex, Counted, Exchanging,
       CanCancel, Release, Leaves, Pair, Answers
  <2>7. RefreshesTheCurrentToken'
    BY <1>1 DEF IInv, CallerTimeout, TypeOK, Mutex, Persisted,
       RefreshesTheCurrentToken, Exchanging, CanCancel, Release, Leaves,
       Pair, Answers, Token, RefreshToken
  <2>8. NoPostDuringBackoff'
    BY <1>1 DEF IInv, CallerTimeout, TypeOK, Mutex, NoPostDuringBackoff,
       Exchanging, CanCancel, Release, Leaves, Pair, Answers, GateOpen
  <2>9. NotSelfInflicted'
    BY <1>1 DEF IInv, CallerTimeout, TypeOK, Mutex, Persisted, InStep,
       RefreshesTheCurrentToken, NotSelfInflicted, Exchanging, CanCancel,
       Release, Leaves, Pair, Answers, Token, RefreshToken,
       NoSelfInflictedRefusal
  <2>10. Fresh'
    BY <1>1 DEF IInv, CallerTimeout, TypeOK, Mutex, Persisted, Fresh,
       Exchanging, CanCancel, Release, Leaves, Pair, Answers, Token
  <2>11. NeverTheRejectedToken'
    BY <1>1 DEF IInv, CallerTimeout, TypeOK, Mutex, Fresh,
       RefreshesTheCurrentToken, NeverTheRejectedToken, Exchanging,
       CanCancel, Release, Leaves, Pair, Answers, Token, RefreshToken
  <2>. QED BY <2>1, <2>2, <2>3, <2>4, <2>5, <2>6, <2>7, <2>8, <2>9, <2>10, <2>11 DEF IInv
<1>2. ASSUME NEW i \in 1..Len(waiters),
             waiters' = SubSeq(waiters, 1, i-1) \o SubSeq(waiters, i+1, Len(waiters)),
             pc[c] = "queued", UNCHANGED <<owner, exchange>>
      PROVE  IInv'
  <2>1. waiters \in Seq(Callers) BY DEF IInv, TypeOK
  <2>2. SubSeq(waiters, 1, i-1) \in Seq(Callers)
    BY <2>1, SubSeqProperties
  <2>3. SubSeq(waiters, i+1, Len(waiters)) \in Seq(Callers)
    BY <2>1, SubSeqProperties
  <2>4. waiters' \in Seq(Callers)
    BY <1>2, <2>2, <2>3, ConcatProperties
  <2>5. TypeOK'
    <3>1. entry' \in Pair /\ mem' \in Pair
      BY <1>2, <2>4 DEF IInv, TypeOK, Mutex, Bounded, CallerTimeout, Pair,
         Answers, Exchanging, CanCancel, Release, Leaves
    <3>2. owner' \in Callers \cup {None} /\ waiters' \in Seq(Callers)
      BY <1>2, <2>4 DEF IInv, TypeOK, Mutex, Bounded, CallerTimeout, Pair,
         Answers, Exchanging, CanCancel, Release, Leaves
    <3>3. pc' \in [Callers -> {"idle", "api", "queued", "post", "sleep"}]
      BY <1>2, <2>4 DEF IInv, TypeOK, Mutex, Bounded, CallerTimeout, Pair,
         Answers, Exchanging, CanCancel, Release, Leaves
    <3>4. obs' \in [Callers -> 0..MaxIssued]
      BY <1>2, <2>4 DEF IInv, TypeOK, Mutex, Bounded, CallerTimeout, Pair,
         Answers, Exchanging, CanCancel, Release, Leaves
    <3>5. outcome' \in [Callers -> {None, "token", "retry", "reauth"}]
      BY <1>2, <2>4 DEF IInv, TypeOK, Mutex, Bounded, CallerTimeout, Pair,
         Answers, Exchanging, CanCancel, Release, Leaves
    <3>6. got' \in [Callers -> 0..MaxIssued]
      BY <1>2, <2>4 DEF IInv, TypeOK, Mutex, Bounded, CallerTimeout, Pair,
         Answers, Exchanging, CanCancel, Release, Leaves
    <3>7. attempt' \in 0..(MaxAttempts - 1)
      BY <1>2, <2>4 DEF IInv, TypeOK, Mutex, Bounded, CallerTimeout, Pair,
         Answers, Exchanging, CanCancel, Release, Leaves
    <3>8. sent' \in 0..MaxIssued
      BY <1>2, <2>4 DEF IInv, TypeOK, Mutex, Bounded, CallerTimeout, Pair,
         Answers, Exchanging, CanCancel, Release, Leaves
    <3>9. reply' \in [kind : Answers, pair : Pair]
      BY <1>2, <2>4 DEF IInv, TypeOK, Mutex, Bounded, CallerTimeout, Pair,
         Answers, Exchanging, CanCancel, Release, Leaves
    <3>10. failCount' \in Nat /\ outageCount' \in Nat /\ gateWait' \in Nat
      BY <1>2, <2>4 DEF IInv, TypeOK, Mutex, Bounded, CallerTimeout, Pair,
         Answers, Exchanging, CanCancel, Release, Leaves
    <3>11. elapsed' \in 0..1
      BY <1>2, <2>4 DEF IInv, TypeOK, Mutex, Bounded, CallerTimeout, Pair,
         Answers, Exchanging, CanCancel, Release, Leaves
    <3>12. armed' \in BOOLEAN /\ alertSent' \in BOOLEAN
      BY <1>2, <2>4 DEF IInv, TypeOK, Mutex, Bounded, CallerTimeout, Pair,
         Answers, Exchanging, CanCancel, Release, Leaves
    <3>13. issued' \in 1..MaxIssued /\ valid' \in 1..MaxIssued
      BY <1>2, <2>4 DEF IInv, TypeOK, Mutex, Bounded, CallerTimeout, Pair,
         Answers, Exchanging, CanCancel, Release, Leaves
    <3>14. grantDead' \in BOOLEAN /\ ambiguous' \in Nat
      BY <1>2, <2>4 DEF IInv, TypeOK, Mutex, Bounded, CallerTimeout, Pair,
         Answers, Exchanging, CanCancel, Release, Leaves
    <3>. QED BY <3>1, <3>2, <3>3, <3>4, <3>5, <3>6, <3>7, <3>8, <3>9, <3>10, <3>11, <3>12, <3>13, <3>14 DEF TypeOK
  <2>6. Mutex'
    BY <1>2, <2>4 DEF IInv, CallerTimeout, TypeOK, Mutex, Exchanging,
       CanCancel, Release, Leaves, Pair, Answers
  <2>7. Bounded'
    BY <1>2, <2>4 DEF IInv, CallerTimeout, TypeOK, Mutex, Bounded,
       Exchanging, CanCancel, Release, Leaves, Pair, Answers
  <2>8. Persisted'
    BY <1>2, <2>4 DEF IInv, CallerTimeout, TypeOK, Persisted, Exchanging,
       CanCancel, Release, Leaves, Pair, Answers
  <2>9. InStep'
    BY <1>2, <2>4 DEF IInv, CallerTimeout, TypeOK, Mutex, Persisted, InStep,
       Exchanging, CanCancel, Release, Leaves, Pair, Answers
  <2>10. Counted'
    BY <1>2, <2>4 DEF IInv, CallerTimeout, TypeOK, Mutex, Counted,
       Exchanging, CanCancel, Release, Leaves, Pair, Answers
  <2>11. RefreshesTheCurrentToken'
    BY <1>2, <2>4 DEF IInv, CallerTimeout, TypeOK, Mutex, Persisted,
       RefreshesTheCurrentToken, Exchanging, CanCancel, Release, Leaves,
       Pair, Answers, Token, RefreshToken
  <2>12. NoPostDuringBackoff'
    BY <1>2, <2>4 DEF IInv, CallerTimeout, TypeOK, Mutex,
       NoPostDuringBackoff, Exchanging, CanCancel, Release, Leaves, Pair,
       Answers, GateOpen
  <2>13. NotSelfInflicted'
    BY <1>2, <2>4 DEF IInv, CallerTimeout, TypeOK, Mutex, Persisted, InStep,
       RefreshesTheCurrentToken, NotSelfInflicted, Exchanging, CanCancel,
       Release, Leaves, Pair, Answers, Token, RefreshToken,
       NoSelfInflictedRefusal
  <2>14. Fresh'
    BY <1>2, <2>4 DEF IInv, CallerTimeout, TypeOK, Mutex, Persisted, Fresh,
       Exchanging, CanCancel, Release, Leaves, Pair, Answers, Token
  <2>15. NeverTheRejectedToken'
    BY <1>2, <2>4 DEF IInv, CallerTimeout, TypeOK, Mutex, Fresh,
       RefreshesTheCurrentToken, NeverTheRejectedToken, Exchanging,
       CanCancel, Release, Leaves, Pair, Answers, Token, RefreshToken
  <2>. QED BY <2>5, <2>6, <2>7, <2>8, <2>9, <2>10, <2>11, <2>12, <2>13, <2>14, <2>15 DEF IInv
<1>. QED BY <1>1, <1>2 DEF CallerTimeout

LEMMA TimerFiresKeeps ==
  ASSUME IInv, TimerFires
  PROVE  IInv'
<1>1. TypeOK'
  <2>1. entry' \in Pair /\ mem' \in Pair
    BY DEF IInv, TypeOK, Mutex, Bounded, TimerFires, Pair, Answers,
       Exchanging, Token
  <2>2. owner' \in Callers \cup {None} /\ waiters' \in Seq(Callers)
    BY DEF IInv, TypeOK, Mutex, Bounded, TimerFires, Pair, Answers,
       Exchanging, Token
  <2>3. pc' \in [Callers -> {"idle", "api", "queued", "post", "sleep"}]
    BY DEF IInv, TypeOK, Mutex, Bounded, TimerFires, Pair, Answers,
       Exchanging, Token
  <2>4. obs' \in [Callers -> 0..MaxIssued]
    BY DEF IInv, TypeOK, Mutex, Bounded, TimerFires, Pair, Answers,
       Exchanging, Token
  <2>5. outcome' \in [Callers -> {None, "token", "retry", "reauth"}]
    BY DEF IInv, TypeOK, Mutex, Bounded, TimerFires, Pair, Answers,
       Exchanging, Token
  <2>6. got' \in [Callers -> 0..MaxIssued]
    BY DEF IInv, TypeOK, Mutex, Bounded, TimerFires, Pair, Answers,
       Exchanging, Token
  <2>7. attempt' \in 0..(MaxAttempts - 1)
    BY DEF IInv, TypeOK, Mutex, Bounded, TimerFires, Pair, Answers,
       Exchanging, Token
  <2>8. sent' \in 0..MaxIssued
    BY DEF IInv, TypeOK, Mutex, Bounded, TimerFires, Pair, Answers,
       Exchanging, Token
  <2>9. reply' \in [kind : Answers, pair : Pair]
    BY DEF IInv, TypeOK, Mutex, Bounded, TimerFires, Pair, Answers,
       Exchanging, Token
  <2>10. failCount' \in Nat /\ outageCount' \in Nat /\ gateWait' \in Nat
    BY DEF IInv, TypeOK, Mutex, Bounded, TimerFires, Pair, Answers,
       Exchanging, Token
  <2>11. elapsed' \in 0..1
    BY DEF IInv, TypeOK, Mutex, Bounded, TimerFires, Pair, Answers,
       Exchanging, Token
  <2>12. armed' \in BOOLEAN /\ alertSent' \in BOOLEAN
    BY DEF IInv, TypeOK, Mutex, Bounded, TimerFires, Pair, Answers,
       Exchanging, Token
  <2>13. issued' \in 1..MaxIssued /\ valid' \in 1..MaxIssued
    BY DEF IInv, TypeOK, Mutex, Bounded, TimerFires, Pair, Answers,
       Exchanging, Token
  <2>14. grantDead' \in BOOLEAN /\ ambiguous' \in Nat
    BY DEF IInv, TypeOK, Mutex, Bounded, TimerFires, Pair, Answers,
       Exchanging, Token
  <2>. QED BY <2>1, <2>2, <2>3, <2>4, <2>5, <2>6, <2>7, <2>8, <2>9, <2>10, <2>11, <2>12, <2>13, <2>14 DEF TypeOK
<1>2. Mutex'
  BY DEF IInv, TimerFires, TypeOK, Mutex, Token, Pair, Answers, Exchanging
<1>3. Bounded'
  BY DEF IInv, TimerFires, TypeOK, Mutex, Bounded, Token, Pair, Answers,
     Exchanging
<1>4. Persisted'
  BY DEF IInv, TimerFires, TypeOK, Persisted, Token, Pair, Answers
<1>5. InStep'
  BY DEF IInv, TimerFires, TypeOK, Mutex, Persisted, InStep, Token, Pair,
     Answers, Exchanging
<1>6. Counted'
  BY DEF IInv, TimerFires, TypeOK, Mutex, Counted, Token, Pair, Answers,
     Exchanging
<1>7. RefreshesTheCurrentToken'
  BY DEF IInv, TimerFires, TypeOK, Mutex, Persisted,
     RefreshesTheCurrentToken, Token, Pair, Answers, Exchanging, RefreshToken
<1>8. NoPostDuringBackoff'
  BY DEF IInv, TimerFires, TypeOK, Mutex, NoPostDuringBackoff, Token, Pair,
     Answers, Exchanging, GateOpen
<1>9. NotSelfInflicted'
  BY DEF IInv, TimerFires, TypeOK, Mutex, Persisted, InStep,
     RefreshesTheCurrentToken, NotSelfInflicted, Token, Pair, Answers,
     Exchanging, RefreshToken, NoSelfInflictedRefusal
<1>10. Fresh'
  BY DEF IInv, TimerFires, TypeOK, Mutex, Persisted, Fresh, Token, Pair,
     Answers, Exchanging
<1>11. NeverTheRejectedToken'
  BY DEF IInv, TimerFires, TypeOK, Mutex, Fresh, RefreshesTheCurrentToken,
     NeverTheRejectedToken, Token, Pair, Answers, Exchanging, RefreshToken
<1>. QED BY <1>1, <1>2, <1>3, <1>4, <1>5, <1>6, <1>7, <1>8, <1>9, <1>10, <1>11 DEF IInv

LEMMA IssueKeeps ==
  ASSUME IInv, Issue
  PROVE  IInv'
BY SMTT(60) DEF IInv, Issue, TypeOK, Mutex, Bounded, Persisted, InStep, Counted,
   RefreshesTheCurrentToken, NoPostDuringBackoff, NotSelfInflicted, Fresh,
   NeverTheRejectedToken, PostPending, Pair, Answers, Exchanging, Token,
   RefreshToken, GateOpen, NoSelfInflictedRefusal

LEMMA RefuseKeeps ==
  ASSUME IInv, Refuse
  PROVE  IInv'
BY DEF IInv, Refuse, TypeOK, Mutex, Bounded, Persisted, InStep, Counted,
   RefreshesTheCurrentToken, NoPostDuringBackoff, NotSelfInflicted, Fresh,
   NeverTheRejectedToken, PostPending, Reply, Pair, Answers, Exchanging,
   Token, RefreshToken, GateOpen, NoSelfInflictedRefusal

LEMMA AnswerOutageKeeps ==
  ASSUME IInv, AnswerOutage
  PROVE  IInv'
BY DEF IInv, AnswerOutage, TypeOK, Mutex, Bounded, Persisted, InStep,
   Counted, RefreshesTheCurrentToken, NoPostDuringBackoff, NotSelfInflicted,
   Fresh, NeverTheRejectedToken, PostPending, Reply, Pair, Answers,
   Exchanging, Token, RefreshToken, GateOpen, NoSelfInflictedRefusal

LEMMA AnswerAmbiguouslyKeeps ==
  ASSUME IInv, AnswerAmbiguously
  PROVE  IInv'
BY DEF IInv, AnswerAmbiguously, TypeOK, Mutex, Bounded, Persisted, InStep,
   Counted, RefreshesTheCurrentToken, NoPostDuringBackoff, NotSelfInflicted,
   Fresh, NeverTheRejectedToken, PostPending, Reply, Pair, Answers,
   Exchanging, Token, RefreshToken, GateOpen, NoSelfInflictedRefusal

LEMMA NetworkFailsKeeps ==
  ASSUME IInv, NetworkFails
  PROVE  IInv'
BY DEF IInv, NetworkFails, TypeOK, Mutex, Bounded, Persisted, InStep,
   Counted, RefreshesTheCurrentToken, NoPostDuringBackoff, NotSelfInflicted,
   Fresh, NeverTheRejectedToken, Reply, Pair, Answers, Exchanging, Token,
   RefreshToken, GateOpen, NoSelfInflictedRefusal

LEMMA RevokeKeeps ==
  ASSUME IInv, Revoke
  PROVE  IInv'
BY DEF IInv, Revoke, TypeOK, Mutex, Bounded, Persisted, InStep, Counted,
   RefreshesTheCurrentToken, NoPostDuringBackoff, NotSelfInflicted, Fresh,
   NeverTheRejectedToken, Pair, Answers, Exchanging, Token, RefreshToken,
   GateOpen, NoSelfInflictedRefusal

LEMMA MinuteKeeps ==
  ASSUME IInv, Minute
  PROVE  IInv'
BY DEF IInv, Minute, TypeOK, Mutex, Bounded, Persisted, InStep, Counted,
   RefreshesTheCurrentToken, NoPostDuringBackoff, NotSelfInflicted, Fresh,
   NeverTheRejectedToken, Pair, Answers, Exchanging, Token, RefreshToken,
   GateOpen, NoSelfInflictedRefusal

LEMMA RestartKeeps ==
  ASSUME IInv, Restart
  PROVE  IInv'
<1>1. TypeOK'
  <2>1. entry' \in Pair /\ mem' \in Pair
    BY DEF IInv, TypeOK, Mutex, Bounded, Restart, Pair, Answers, Exchanging,
       CanCancel, FreshCoordinator
  <2>2. owner' \in Callers \cup {None} /\ waiters' \in Seq(Callers)
    BY DEF IInv, TypeOK, Mutex, Bounded, Restart, Pair, Answers, Exchanging,
       CanCancel, FreshCoordinator
  <2>3. pc' \in [Callers -> {"idle", "api", "queued", "post", "sleep"}]
    BY DEF IInv, TypeOK, Mutex, Bounded, Restart, Pair, Answers, Exchanging,
       CanCancel, FreshCoordinator
  <2>4. obs' \in [Callers -> 0..MaxIssued]
    BY DEF IInv, TypeOK, Mutex, Bounded, Restart, Pair, Answers, Exchanging,
       CanCancel, FreshCoordinator
  <2>5. outcome' \in [Callers -> {None, "token", "retry", "reauth"}]
    BY DEF IInv, TypeOK, Mutex, Bounded, Restart, Pair, Answers, Exchanging,
       CanCancel, FreshCoordinator
  <2>6. got' \in [Callers -> 0..MaxIssued]
    BY DEF IInv, TypeOK, Mutex, Bounded, Restart, Pair, Answers, Exchanging,
       CanCancel, FreshCoordinator
  <2>7. attempt' \in 0..(MaxAttempts - 1)
    BY DEF IInv, TypeOK, Mutex, Bounded, Restart, Pair, Answers, Exchanging,
       CanCancel, FreshCoordinator
  <2>8. sent' \in 0..MaxIssued
    BY DEF IInv, TypeOK, Mutex, Bounded, Restart, Pair, Answers, Exchanging,
       CanCancel, FreshCoordinator
  <2>9. reply' \in [kind : Answers, pair : Pair]
    BY DEF IInv, TypeOK, Mutex, Bounded, Restart, Pair, Answers, Exchanging,
       CanCancel, FreshCoordinator
  <2>10. failCount' \in Nat /\ outageCount' \in Nat /\ gateWait' \in Nat
    BY DEF IInv, TypeOK, Mutex, Bounded, Restart, Pair, Answers, Exchanging,
       CanCancel, FreshCoordinator
  <2>11. elapsed' \in 0..1
    BY DEF IInv, TypeOK, Mutex, Bounded, Restart, Pair, Answers, Exchanging,
       CanCancel, FreshCoordinator
  <2>12. armed' \in BOOLEAN /\ alertSent' \in BOOLEAN
    BY DEF IInv, TypeOK, Mutex, Bounded, Restart, Pair, Answers, Exchanging,
       CanCancel, FreshCoordinator
  <2>13. issued' \in 1..MaxIssued /\ valid' \in 1..MaxIssued
    BY DEF IInv, TypeOK, Mutex, Bounded, Restart, Pair, Answers, Exchanging,
       CanCancel, FreshCoordinator
  <2>14. grantDead' \in BOOLEAN /\ ambiguous' \in Nat
    BY DEF IInv, TypeOK, Mutex, Bounded, Restart, Pair, Answers, Exchanging,
       CanCancel, FreshCoordinator
  <2>. QED BY <2>1, <2>2, <2>3, <2>4, <2>5, <2>6, <2>7, <2>8, <2>9, <2>10, <2>11, <2>12, <2>13, <2>14 DEF TypeOK
<1>2. Mutex'
  BY DEF IInv, Restart, TypeOK, Mutex, CanCancel, FreshCoordinator, Pair,
     Answers, Exchanging
<1>3. Bounded'
  BY DEF IInv, Restart, TypeOK, Mutex, Bounded, CanCancel, FreshCoordinator,
     Pair, Answers, Exchanging
<1>4. Persisted'
  BY DEF IInv, Restart, TypeOK, Persisted, CanCancel, FreshCoordinator, Pair,
     Answers
<1>5. InStep'
  BY DEF IInv, Restart, TypeOK, Mutex, Persisted, InStep, CanCancel,
     FreshCoordinator, Pair, Answers, Exchanging
<1>6. Counted'
  BY DEF IInv, Restart, TypeOK, Mutex, Counted, CanCancel, FreshCoordinator,
     Pair, Answers, Exchanging
<1>7. RefreshesTheCurrentToken'
  BY DEF IInv, Restart, TypeOK, Mutex, Persisted, RefreshesTheCurrentToken,
     CanCancel, FreshCoordinator, Pair, Answers, Exchanging, Token,
     RefreshToken
<1>8. NoPostDuringBackoff'
  BY DEF IInv, Restart, TypeOK, Mutex, NoPostDuringBackoff, CanCancel,
     FreshCoordinator, Pair, Answers, Exchanging, GateOpen
<1>9. NotSelfInflicted'
  BY DEF IInv, Restart, TypeOK, Mutex, Persisted, InStep,
     RefreshesTheCurrentToken, NotSelfInflicted, CanCancel, FreshCoordinator,
     Pair, Answers, Exchanging, Token, RefreshToken, NoSelfInflictedRefusal
<1>10. Fresh'
  BY DEF IInv, Restart, TypeOK, Mutex, Persisted, Fresh, CanCancel,
     FreshCoordinator, Pair, Answers, Exchanging, Token
<1>11. NeverTheRejectedToken'
  BY DEF IInv, Restart, TypeOK, Mutex, Fresh, RefreshesTheCurrentToken,
     NeverTheRejectedToken, CanCancel, FreshCoordinator, Pair, Answers,
     Exchanging, Token, RefreshToken
<1>. QED BY <1>1, <1>2, <1>3, <1>4, <1>5, <1>6, <1>7, <1>8, <1>9, <1>10, <1>11 DEF IInv

LEMMA ReloginKeeps ==
  ASSUME IInv, Relogin
  PROVE  IInv'
<1>1. TypeOK'
  <2>1. entry' \in Pair /\ mem' \in Pair
    BY DEF IInv, TypeOK, Mutex, Bounded, Relogin, Pair, Answers, Exchanging,
       FreshCoordinator
  <2>2. owner' \in Callers \cup {None} /\ waiters' \in Seq(Callers)
    BY DEF IInv, TypeOK, Mutex, Bounded, Relogin, Pair, Answers, Exchanging,
       FreshCoordinator
  <2>3. pc' \in [Callers -> {"idle", "api", "queued", "post", "sleep"}]
    BY DEF IInv, TypeOK, Mutex, Bounded, Relogin, Pair, Answers, Exchanging,
       FreshCoordinator
  <2>4. obs' \in [Callers -> 0..MaxIssued]
    BY DEF IInv, TypeOK, Mutex, Bounded, Relogin, Pair, Answers, Exchanging,
       FreshCoordinator
  <2>5. outcome' \in [Callers -> {None, "token", "retry", "reauth"}]
    BY DEF IInv, TypeOK, Mutex, Bounded, Relogin, Pair, Answers, Exchanging,
       FreshCoordinator
  <2>6. got' \in [Callers -> 0..MaxIssued]
    BY DEF IInv, TypeOK, Mutex, Bounded, Relogin, Pair, Answers, Exchanging,
       FreshCoordinator
  <2>7. attempt' \in 0..(MaxAttempts - 1)
    BY DEF IInv, TypeOK, Mutex, Bounded, Relogin, Pair, Answers, Exchanging,
       FreshCoordinator
  <2>8. sent' \in 0..MaxIssued
    BY DEF IInv, TypeOK, Mutex, Bounded, Relogin, Pair, Answers, Exchanging,
       FreshCoordinator
  <2>9. reply' \in [kind : Answers, pair : Pair]
    BY DEF IInv, TypeOK, Mutex, Bounded, Relogin, Pair, Answers, Exchanging,
       FreshCoordinator
  <2>10. failCount' \in Nat /\ outageCount' \in Nat /\ gateWait' \in Nat
    BY DEF IInv, TypeOK, Mutex, Bounded, Relogin, Pair, Answers, Exchanging,
       FreshCoordinator
  <2>11. elapsed' \in 0..1
    BY DEF IInv, TypeOK, Mutex, Bounded, Relogin, Pair, Answers, Exchanging,
       FreshCoordinator
  <2>12. armed' \in BOOLEAN /\ alertSent' \in BOOLEAN
    BY DEF IInv, TypeOK, Mutex, Bounded, Relogin, Pair, Answers, Exchanging,
       FreshCoordinator
  <2>13. issued' \in 1..MaxIssued /\ valid' \in 1..MaxIssued
    BY DEF IInv, TypeOK, Mutex, Bounded, Relogin, Pair, Answers, Exchanging,
       FreshCoordinator
  <2>14. grantDead' \in BOOLEAN /\ ambiguous' \in Nat
    BY DEF IInv, TypeOK, Mutex, Bounded, Relogin, Pair, Answers, Exchanging,
       FreshCoordinator
  <2>. QED BY <2>1, <2>2, <2>3, <2>4, <2>5, <2>6, <2>7, <2>8, <2>9, <2>10, <2>11, <2>12, <2>13, <2>14 DEF TypeOK
<1>2. Mutex'
  BY DEF IInv, Relogin, TypeOK, Mutex, FreshCoordinator, Pair, Answers,
     Exchanging
<1>3. Bounded'
  BY DEF IInv, Relogin, TypeOK, Mutex, Bounded, FreshCoordinator, Pair,
     Answers, Exchanging
<1>4. Persisted'
  BY DEF IInv, Relogin, TypeOK, Persisted, FreshCoordinator, Pair, Answers
<1>5. InStep'
  BY DEF IInv, Relogin, TypeOK, Mutex, Persisted, InStep, FreshCoordinator,
     Pair, Answers, Exchanging
<1>6. Counted'
  BY DEF IInv, Relogin, TypeOK, Mutex, Counted, FreshCoordinator, Pair,
     Answers, Exchanging
<1>7. RefreshesTheCurrentToken'
  BY DEF IInv, Relogin, TypeOK, Mutex, Persisted, RefreshesTheCurrentToken,
     FreshCoordinator, Pair, Answers, Exchanging, Token, RefreshToken
<1>8. NoPostDuringBackoff'
  BY DEF IInv, Relogin, TypeOK, Mutex, NoPostDuringBackoff, FreshCoordinator,
     Pair, Answers, Exchanging, GateOpen
<1>9. NotSelfInflicted'
  BY DEF IInv, Relogin, TypeOK, Mutex, Persisted, InStep,
     RefreshesTheCurrentToken, NotSelfInflicted, FreshCoordinator, Pair,
     Answers, Exchanging, Token, RefreshToken, NoSelfInflictedRefusal
<1>10. Fresh'
  BY DEF IInv, Relogin, TypeOK, Mutex, Persisted, Fresh, FreshCoordinator,
     Pair, Answers, Exchanging, Token
<1>11. NeverTheRejectedToken'
  BY DEF IInv, Relogin, TypeOK, Mutex, Fresh, RefreshesTheCurrentToken,
     NeverTheRejectedToken, FreshCoordinator, Pair, Answers, Exchanging,
     Token, RefreshToken
<1>. QED BY <1>1, <1>2, <1>3, <1>4, <1>5, <1>6, <1>7, <1>8, <1>9, <1>10, <1>11 DEF IInv

LEMMA Initially == Init => IInv
<1>. SUFFICES ASSUME Init PROVE IInv
  OBVIOUS
<1>1. TypeOK
  <2>1. entry \in Pair /\ mem \in Pair
    BY DEF Init, Pair, Answers
  <2>2. owner \in Callers \cup {None} /\ waiters \in Seq(Callers)
    BY DEF Init, Pair, Answers
  <2>3. pc \in [Callers -> {"idle", "api", "queued", "post", "sleep"}]
    BY DEF Init, Pair, Answers
  <2>4. obs \in [Callers -> 0..MaxIssued]
    BY DEF Init, Pair, Answers
  <2>5. outcome \in [Callers -> {None, "token", "retry", "reauth"}]
    BY DEF Init, Pair, Answers
  <2>6. got \in [Callers -> 0..MaxIssued]
    BY DEF Init, Pair, Answers
  <2>7. attempt \in 0..(MaxAttempts - 1)
    BY DEF Init, Pair, Answers
  <2>8. sent \in 0..MaxIssued
    BY DEF Init, Pair, Answers
  <2>9. reply \in [kind : Answers, pair : Pair]
    BY DEF Init, Pair, Answers
  <2>10. failCount \in Nat /\ outageCount \in Nat /\ gateWait \in Nat
    BY DEF Init, Pair, Answers
  <2>11. elapsed \in 0..1
    BY DEF Init, Pair, Answers
  <2>12. armed \in BOOLEAN /\ alertSent \in BOOLEAN
    BY DEF Init, Pair, Answers
  <2>13. issued \in 1..MaxIssued /\ valid \in 1..MaxIssued
    BY DEF Init, Pair, Answers
  <2>14. grantDead \in BOOLEAN /\ ambiguous \in Nat
    BY DEF Init, Pair, Answers
  <2>. QED BY <2>1, <2>2, <2>3, <2>4, <2>5, <2>6, <2>7, <2>8, <2>9, <2>10, <2>11, <2>12, <2>13, <2>14 DEF TypeOK
<1>2. Mutex
  BY DEF Init, Mutex, Exchanging
<1>3. Bounded
  BY DEF Init, Bounded
<1>4. Persisted
  BY DEF Init, Persisted
<1>5. InStep
  BY DEF Init, InStep
<1>6. Counted
  BY DEF Init, Counted
<1>7. RefreshesTheCurrentToken
  BY DEF Init, RefreshesTheCurrentToken, Exchanging, Token, RefreshToken
<1>8. NoPostDuringBackoff
  BY DEF Init, NoPostDuringBackoff, Exchanging, GateOpen
<1>9. NotSelfInflicted
  BY DEF Init, NotSelfInflicted, NoSelfInflictedRefusal
<1>10. Fresh
  BY DEF Init, Fresh, Token
<1>11. NeverTheRejectedToken
  BY DEF Init, NeverTheRejectedToken
<1>. QED BY <1>1, <1>2, <1>3, <1>4, <1>5, <1>6, <1>7, <1>8, <1>9, <1>10, <1>11 DEF IInv

LEMMA StepKeeps == IInv /\ [Next]_vars => IInv'
<1>. SUFFICES ASSUME IInv, [Next]_vars PROVE IInv'
  OBVIOUS
<1>1. CASE TimerFires BY <1>1, TimerFiresKeeps
<1>2. ASSUME NEW c \in Callers, Task(c) PROVE IInv'
  BY <1>2, CallApiKeeps, ApiAnswersKeeps, UnauthorizedKeeps,
     ReuseRefreshedKeeps, GateClosedKeeps, NoRefreshTokenKeeps,
     StartRefreshKeeps, SuccessKeeps, SleepAndRetryKeeps, NextAttemptKeeps,
     GivesUpTransientKeeps, GivesUpGenuineKeeps, InvalidGrantKeeps,
     OutageKeeps, OverallTimeoutKeeps, CallerTimeoutKeeps
     DEF Task, Enter, Handle
<1>3. CASE Environment
  BY <1>3, IssueKeeps, RefuseKeeps, AnswerOutageKeeps,
     AnswerAmbiguouslyKeeps, NetworkFailsKeeps, RevokeKeeps, MinuteKeeps,
     RestartKeeps, ReloginKeeps
     DEF Environment
<1>4. CASE UNCHANGED vars
  BY <1>4 DEF IInv, vars, TypeOK, Mutex, Bounded, Persisted, InStep,
     Counted, RefreshesTheCurrentToken, NoPostDuringBackoff,
     NotSelfInflicted, Fresh, NeverTheRejectedToken, Pair, Answers,
     Exchanging, Token, RefreshToken, GateOpen, NoSelfInflictedRefusal
<1>. QED BY <1>1, <1>2, <1>3, <1>4 DEF Next

LEMMA Invariance == Spec => []IInv
BY Initially, StepKeeps, PTL DEF Spec

(***************************************************************************)
(* The state of every component of the token lifecycle keeps its type.     *)
(***************************************************************************)
THEOREM TypeCorrect == Spec => []TypeOK
<1>1. IInv => TypeOK
  BY DEF IInv
<1>. QED BY <1>1, Invariance, PTL

(***************************************************************************)
(* When no reply is lost, the integration never presents a refresh token   *)
(* it has itself used up: Keycloak refuses only after a revocation.        *)
(***************************************************************************)
THEOREM RefusalMeansRevocation ==
  ASSUME ~MayLose
  PROVE  Spec => []NoSelfInflictedRefusal
<1>1. IInv => NoSelfInflictedRefusal
  BY DEF IInv, NotSelfInflicted
<1>. QED BY <1>1, Invariance, PTL

(***************************************************************************)
(* A task never gets back the token it saw rejected.                       *)
(***************************************************************************)
THEOREM RejectedTokenIsReplaced == Spec => []NeverTheRejectedToken
<1>1. IInv => NeverTheRejectedToken
  BY DEF IInv
<1>. QED BY <1>1, Invariance, PTL

(***************************************************************************)
(* Nobody refreshes behind the back of the task that holds the lock.       *)
(***************************************************************************)
THEOREM RefreshIsExclusive == Spec => []RefreshesTheCurrentToken
<1>1. IInv => RefreshesTheCurrentToken
  BY DEF IInv
<1>. QED BY <1>1, Invariance, PTL

(***************************************************************************)
(* No POST is under way while the outage gate is closed.                   *)
(***************************************************************************)
THEOREM BackoffIsKept == Spec => []NoPostDuringBackoff
<1>1. IInv => NoPostDuringBackoff
  BY DEF IInv
<1>. QED BY <1>1, Invariance, PTL

(***************************************************************************)
(* When no reply is lost, network trouble alone never ends in reauth.      *)
(* Only three actions hand out that outcome, each for a reason of its own. *)
(***************************************************************************)
Justified == grantDead \/ ambiguous >= EscalateAfter \/ RefreshToken = 0

LEMMA ReauthStep ==
  ASSUME ~MayLose, IInv, [Next]_vars,
         NEW t \in Callers, outcome[t] # "reauth", outcome'[t] = "reauth"
  PROVE  Justified
<1>1. ~(UNCHANGED outcome)
  OBVIOUS
<1>2. CASE TimerFires
  BY <1>2 DEF TimerFires, IInv, TypeOK
<1>3. CASE Environment
  BY <1>1, <1>3 DEF Environment, Issue, Refuse, AnswerOutage, AnswerAmbiguously,
     NetworkFails, Revoke, Minute, Restart, Relogin, FreshCoordinator
<1>4. ASSUME NEW c \in Callers, Task(c) PROVE Justified
  <2>1. CASE NoRefreshToken(c)
    BY <2>1 DEF NoRefreshToken, Justified
  <2>2. CASE InvalidGrant(c)
    BY <2>2 DEF InvalidGrant, Holds, Justified, IInv, NotSelfInflicted,
       NoSelfInflictedRefusal
  <2>3. CASE GivesUpGenuine(c)
    <3>1. failCount + 1 <= ambiguous
      BY <2>3 DEF GivesUpGenuine, Holds, IInv, Counted
    <3>2. failCount + 1 >= EscalateAfter
      BY <2>3 DEF GivesUpGenuine, Leaves, IInv, TypeOK
    <3>. QED BY <3>1, <3>2 DEF Justified, IInv, TypeOK
  <2>4. CASE \/ CallApi(c) \/ ApiAnswers(c) \/ Unauthorized(c)
             \/ ReuseRefreshed(c) \/ GateClosed(c) \/ StartRefresh(c)
    BY <1>1, <2>4 DEF CallApi, ApiAnswers, Unauthorized, ReuseRefreshed, GateClosed,
       StartRefresh, LeavesAtOnce, Leaves, IInv, TypeOK
  <2>5. CASE \/ Success(c) \/ SleepAndRetry(c) \/ NextAttempt(c)
             \/ GivesUpTransient(c) \/ Outage(c) \/ OverallTimeout(c)
             \/ CallerTimeout(c)
    BY <1>1, <2>5 DEF Success, SleepAndRetry, NextAttempt, GivesUpTransient, Outage,
       OverallTimeout, CallerTimeout, Leaves, IInv, TypeOK
  <2>. QED BY <1>4, <2>1, <2>2, <2>3, <2>4, <2>5 DEF Task, Enter, Handle
<1>5. CASE UNCHANGED vars
  BY <1>1, <1>5 DEF vars
<1>. QED BY <1>2, <1>3, <1>4, <1>5 DEF Next

THEOREM OnlyRefusalsReauth ==
  ASSUME ~MayLose
  PROVE  Spec => TroubleNeverReauths
<1>1. IInv /\ [Next]_vars =>
        [\A c \in Callers : outcome[c] # "reauth" /\ outcome'[c] = "reauth" =>
            grantDead \/ ambiguous >= EscalateAfter \/ RefreshToken = 0]_vars
  BY ReauthStep DEF Justified
<1>. QED BY <1>1, Invariance, PTL DEF Spec, TroubleNeverReauths

=============================================================================
