---------------------------- MODULE CloudSettings ----------------------------
(* One settings object of one camera that the cloud keeps (alarm settings,   *)
(* audio, lighting options, ...): two of its fields, the entities that write *)
(* them, the cache the entities show, and the slow tier of the tick that     *)
(* reads it back, deferred while a stream is live.  The endpoints differ in  *)
(* how they write; a behaviour is about one of them.                         *)
EXTENDS Naturals, FiniteSets

CONSTANTS
    Deferring,      \* bound: the endpoints checked with defer_diag_during_stream on
    MaxCalls,       \* bound: service calls
    MaxTrouble      \* bound: failed requests, changes by the app, times the camera goes offline

Fields == {"a", "b"}
Jobs == {1, 2}
Objects == [Fields -> BOOLEAN]

(* lock: the read and the write of a call are one critical section.          *)
(* base: what the body is made from -- the call's own field alone, the cache,*)
(*   a fetch, or a fetch unless a write is recent.                           *)
(* keeps: what a call leaves in the cache -- its own field, the whole body,  *)
(*   or nothing.  stamps: the fields whose writers note the time.            *)
(* calls: the fields a call sets.                                            *)
Endpoint ==
    [lock : BOOLEAN, base : {"own", "cache", "fetch", "recent"}, keeps : {"own", "whole", "none"},
     stamps : SUBSET Fields, calls : SUBSET (SUBSET Fields)]

Only == {{"a"}}
Each == {{"a"}, {"b"}}
toggle == [lock |-> FALSE, base |-> "own", keeps |-> "own", stamps |-> Fields, calls |-> Only]
lens_elevation == [toggle EXCEPT !.stamps = {}]
recording_options == [toggle EXCEPT !.stamps = {}, !.keeps = "none"]
motion == [recording_options EXCEPT !.base = "cache"]
lighting_ambient == [lock |-> FALSE, base |-> "fetch", keeps |-> "whole", stamps |-> {}, calls |-> Only]
notifications == [lock |-> FALSE, base |-> "cache", keeps |-> "whole", stamps |-> {}, calls |-> Each]
lighting_motion == notifications
lighting == notifications
\* the delays stamp, the switches do not
alarm_settings == [notifications EXCEPT !.stamps = {"b"}]
intrusionDetectionConfig == [notifications EXCEPT !.stamps = Fields]
audio == [lock |-> TRUE, base |-> "cache", keeps |-> "own", stamps |-> {}, calls |-> Each]
audioDetectionConfig == [audio EXCEPT !.stamps = Fields]
\* the schedule service sets the mode too
lighting_options == [lock |-> TRUE, base |-> "recent", keeps |-> "whole", stamps |-> Fields, calls |-> {{"a"}, {"a", "b"}}]

Endpoints ==
    {toggle, lens_elevation, recording_options, motion, lighting_ambient, notifications, lighting_motion,
     lighting, alarm_settings, intrusionDetectionConfig, audio, audioDetectionConfig, lighting_options}

VARIABLES
    endpoint,       \* the settings object a behaviour is about
    camera,         \* the object as the camera has it
    older,          \* the older objects the cloud may still answer with
    cache,          \* the coordinator's cache of it: nothing, or one object
    recent,         \* is_write_locked: the endpoint's stamp is younger than WRITE_LOCK_SECS
    holder,         \* the call that holds the endpoint's lock
    job,            \* the calls
    slow,           \* the gate of the slow tier
    online, stream, \* the camera's status; a live session
    reply,          \* the slow tier's answer, on its way
    calls, trouble,
    acked,          \* ghost: what the calls that ended well have set
    upset           \* ghost: a failure, a change by the app, or one field written by two calls at once

vars == <<endpoint, camera, older, cache, recent, holder, job, slow, online, stream, reply, calls, trouble, acked, upset>>

Nobody == 0
NoJob == [pc |-> "idle", own |-> {}, v |-> FALSE, body |-> [f \in Fields |-> FALSE]]
Start == [f \in Fields |-> FALSE]

Init ==
    /\ endpoint \in Endpoints
    /\ camera = Start /\ older = {} /\ cache = {} /\ recent = FALSE
    /\ holder = Nobody /\ job = [j \in Jobs |-> NoJob]
    /\ slow = [due |-> TRUE, deferred |-> FALSE, since |-> "none", ran |-> FALSE, attempt |-> "none"]
    /\ online = TRUE /\ stream = FALSE /\ reply = {}
    /\ calls = 0 /\ trouble = 0
    /\ acked = Start /\ upset = FALSE

defer_diag_during_stream == endpoint \in Deferring
Set(object, own, v) == [f \in Fields |-> IF f \in own THEN v ELSE object[f]]
Held == CHOOSE object \in cache : TRUE
Busy(j) == job[j].pc # "idle"
Ends(j) == job' = [job EXCEPT ![j] = NoJob] /\ holder' = IF holder = j THEN Nobody ELSE holder

(* The cache is the base of a write while the cloud may still serve the      *)
(* object from before the last one.                                          *)
cached_if_write_locked == recent

(* A call starts, with the lock where the endpoint has one.  An entity of an *)
(* endpoint that was never read is unavailable.  Bound: a call changes what  *)
(* the entity shows.                                                         *)
Call(j) ==
    /\ calls < MaxCalls /\ calls' = calls + 1
    /\ ~Busy(j) /\ (j = 2 => Busy(1)) /\ cache # {}
    /\ endpoint.lock => holder = Nobody
    /\ holder' = IF endpoint.lock THEN j ELSE holder
    /\ \E own \in endpoint.calls, v \in BOOLEAN :
         /\ Set(Held, own, v) # Held
         /\ job' = [job EXCEPT ![j] =
                [pc |-> IF endpoint.base = "fetch" \/ (endpoint.base = "recent" /\ ~cached_if_write_locked) THEN "fetch" ELSE "put",
                 own |-> own, v |-> v, body |-> Set(Held, own, v)]]
         /\ upset' = (upset \/ \E x \in Jobs \ {j} : Busy(x) /\ job[x].own \intersect own # {})
    /\ UNCHANGED <<endpoint, camera, older, cache, recent, slow, online, stream, reply, trouble, acked>>

(* fetch_json: the object as the cloud tells it now.  A lighting mode that is*)
(* set already is not written again.                                         *)
Fetched(j) ==
    /\ job[j].pc = "fetch"
    /\ \E object \in older \union {camera} :
         IF endpoint.base = "recent" /\ Cardinality(job[j].own) = 1 /\ Set(object, job[j].own, job[j].v) = object
         THEN cache' = {object} /\ Ends(j)
         ELSE /\ job' = [job EXCEPT ![j].pc = "put", ![j].body = Set(object, job[j].own, job[j].v)]
              /\ UNCHANGED <<cache, holder>>
    /\ UNCHANGED <<endpoint, camera, older, recent, slow, online, stream, reply, calls, trouble, acked, upset>>

(* The camera takes the body.                                                *)
async_put_camera(j) ==
    /\ job[j].pc = "put" /\ online
    /\ camera' = IF endpoint.base = "own" THEN Set(camera, job[j].own, job[j].v) ELSE job[j].body
    /\ older' = IF camera' = camera THEN older ELSE older \union {camera}
    /\ job' = [job EXCEPT ![j].pc = "answered"]
    /\ UNCHANGED <<endpoint, cache, recent, holder, slow, online, stream, reply, calls, trouble, acked, upset>>

Answered(j) ==
    LET own == job[j].own
    IN  /\ job[j].pc = "answered"
        /\ cache' = CASE endpoint.keeps = "whole" -> {job[j].body}
                      [] endpoint.keeps = "own" -> {Set(Held, own, job[j].v)}
                      [] OTHER -> cache
        /\ recent' = (recent \/ own \intersect endpoint.stamps # {})
        /\ acked' = Set(acked, own, job[j].v)
        /\ Ends(j)
        /\ UNCHANGED <<endpoint, camera, older, slow, online, stream, reply, calls, trouble, upset>>

(* A request fails before the camera saw it, or its answer is lost: the call *)
(* gives up and leaves the cache alone.                                      *)
Fails(j) ==
    /\ Busy(j) /\ trouble < MaxTrouble /\ trouble' = trouble + 1
    /\ Ends(j) /\ upset' = TRUE
    /\ UNCHANGED <<endpoint, camera, older, cache, recent, slow, online, stream, reply, calls, acked>>

(* The tick decides whether the slow tier runs for this camera.  It runs when*)
(* its interval is over, when a first fetch that nobody answered may be      *)
(* repeated, or when it was deferred and the stream is gone; a live stream   *)
(* defers it, but not the first fetch and not for longer than                *)
(* SLOW_TIER_MAX_DEFER_SEC.                                                  *)
\* Mutant: a deferral without an end.
NoBound == FALSE
defer_bound_reached == slow.since = "over"

first_retry_due == ~slow.ran /\ slow.attempt = "due"
_compute_cam_context ==
    LET do_slow_cam == slow.due \/ first_retry_due \/ (slow.deferred /\ ~stream) \/ defer_bound_reached
        defers == do_slow_cam /\ defer_diag_during_stream /\ stream /\ ~defer_bound_reached /\ slow.ran
        runs == do_slow_cam /\ ~defers
        gate == [slow EXCEPT !.due = FALSE,
                             !.deferred = IF do_slow_cam THEN defers ELSE @,
                             !.since = IF defers /\ @ = "none" THEN "young" ELSE IF runs /\ slow.deferred THEN "none" ELSE @]
    IN  /\ reply = {}
        /\ IF runs /\ online
           THEN /\ slow' = IF slow.ran THEN gate ELSE [gate EXCEPT !.attempt = "young"]
                /\ \E object \in older \union {camera} : reply' = {object}
           ELSE slow' = gate /\ UNCHANGED reply
        /\ UNCHANGED <<endpoint, camera, older, cache, recent, holder, job, online, stream, calls, trouble, acked, upset>>

(* The answer is taken unless a write is recent; an answer at all ends the   *)
(* exemption of the first fetch.                                             *)
_poll_slow_tier_endpoints ==
    /\ reply # {} /\ reply' = {}
    /\ slow' = [slow EXCEPT !.ran = TRUE, !.attempt = "none"]
    /\ cache' = IF recent THEN cache ELSE reply
    /\ UNCHANGED <<endpoint, camera, older, recent, holder, job, online, stream, calls, trouble, acked, upset>>

NoAnswer ==
    /\ reply # {} /\ reply' = {}
    /\ trouble < MaxTrouble /\ trouble' = trouble + 1
    /\ UNCHANGED <<endpoint, camera, older, cache, recent, holder, job, slow, online, stream, calls, acked, upset>>

(* Time.  By the end of the window of a write the cloud is up to date, and no*)
(* answer from before it is still on its way.                                *)
IntervalEnds == ~slow.due /\ slow' = [slow EXCEPT !.due = TRUE]
                /\ UNCHANGED <<endpoint, camera, older, cache, recent, holder, job, online, stream, reply, calls, trouble, acked, upset>>
DeferralAges == slow.since = "young" /\ slow' = [slow EXCEPT !.since = "over"]
                /\ UNCHANGED <<endpoint, camera, older, cache, recent, holder, job, online, stream, reply, calls, trouble, acked, upset>>
AttemptAges == slow.attempt = "young" /\ slow' = [slow EXCEPT !.attempt = "due"]
                /\ UNCHANGED <<endpoint, camera, older, cache, recent, holder, job, online, stream, reply, calls, trouble, acked, upset>>
WindowEnds == recent /\ older = {} /\ reply \subseteq {camera} /\ recent' = FALSE
                /\ UNCHANGED <<endpoint, camera, older, cache, holder, job, slow, online, stream, reply, calls, trouble, acked, upset>>
Settles == older # {} /\ older' = {}
                /\ UNCHANGED <<endpoint, camera, cache, recent, holder, job, slow, online, stream, reply, calls, trouble, acked, upset>>

GoesOffline == online /\ trouble < MaxTrouble /\ trouble' = trouble + 1 /\ online' = FALSE
                /\ UNCHANGED <<endpoint, camera, older, cache, recent, holder, job, slow, stream, reply, calls, acked, upset>>
ComesBack == ~online /\ online' = TRUE
                /\ UNCHANGED <<endpoint, camera, older, cache, recent, holder, job, slow, stream, reply, calls, trouble, acked, upset>>
\* without the option the stream plays no part
StreamChanges == defer_diag_during_stream /\ stream' = ~stream
                /\ UNCHANGED <<endpoint, camera, older, cache, recent, holder, job, slow, online, reply, calls, trouble, acked, upset>>

AppSets ==
    /\ trouble < MaxTrouble /\ trouble' = trouble + 1
    /\ \E f \in Fields : camera' = [camera EXCEPT ![f] = ~@]
    /\ older' = older \union {camera} /\ upset' = TRUE
    /\ UNCHANGED <<endpoint, cache, recent, holder, job, slow, online, stream, reply, calls, acked>>

(* What a call or a disturbance leaves to be done: finitely many steps.      *)
Work == (\E j \in Jobs : Fetched(j) \/ async_put_camera(j) \/ Answered(j)) \/ WindowEnds \/ Settles \/ ComesBack
Poll == _compute_cam_context \/ _poll_slow_tier_endpoints
Ages == DeferralAges \/ AttemptAges
Next ==
    \/ \E j \in Jobs : Call(j) \/ Fails(j)
    \/ Work \/ Poll \/ NoAnswer \/ IntervalEnds \/ Ages
    \/ GoesOffline \/ StreamChanges \/ AppSets

Fairness == WF_vars(Work) /\ WF_vars(Poll) /\ WF_vars(IntervalEnds) /\ WF_vars(Ages)
Spec == Init /\ [][Next]_vars /\ Fairness

TypeOK ==
    /\ endpoint \in Endpoint /\ camera \in Objects /\ older \subseteq Objects
    /\ cache \subseteq Objects /\ Cardinality(cache) <= 1 /\ recent \in BOOLEAN
    /\ holder \in Jobs \union {Nobody} /\ reply \subseteq Objects

(* The endpoints whose writers are protected against each other and the poll.*)
Protected == endpoint.base = "own" \/ (endpoint.lock /\ endpoint.stamps = Fields)

(* A call does not undo an earlier one, of its own field or of another: when *)
(* none runs, the camera has what the calls that ended well have set, and    *)
(* while the last of them is recent the entities show it (the comments at    *)
(* switch.py:2245 and lighting_options.py:43).                               *)
NothingUndone ==
    (Protected /\ ~upset /\ \A j \in Jobs : ~Busy(j))
        => (camera = acked /\ (recent => cache = {acked}))

(* The entities come to show what the camera has and stay so, though a stream*)
(* never ends (the comment at slow_tier.py:127).                             *)
Converges == <>[](cache = {camera})
=============================================================================
