--------------------------- MODULE PrivacySwitch ---------------------------
(* The privacy mode of one camera: the switch's requests, which go out at    *)
(* once or are held until the camera may be switched again; the three ways   *)
(* a write can go; the two polls of the state; and the stream a privacy ON    *)
(* ends, whoever pressed the button.                                         *)
EXTENDS Naturals, FiniteSets

CONSTANTS
    Scripts         \* bound: how many requests, failures, button presses and
                    \* stream starts a behaviour has, and whether a controller polls

Calls == {"call1", "call2"}      \* two service calls at once, and the held one
Tasks == Calls \union {"loop"}

VARIABLES
    cam,            \* the camera's privacy mode
    lag,            \* the older answers the cloud may still give
    cache,          \* shc_state_cache[cam_id]["privacy_mode"]
    age,            \* of privacy_set_at: within the cooldown, within WRITE_LOCK_SECS, or older
    quota,          \* cloud_444_at is younger than the cooldown of a 444
    pending,        \* _pending_privacy: a set of at most one value
    waiting,        \* _pending_apply_task has not flushed yet
    job,            \* the writes under way
    tick,           \* the privacyMode of the list the tick works on, at most one
    live, warming,  \* a live session; its warm-up
    ending,         \* a teardown was spawned by the poll
    script, left,   \* left: what is left of the script
    last,           \* ghost: the value asked for last
    raced, upset    \* ghosts: two writes were under way at once; a write failed or somebody else switched

vars == <<cam, lag, cache, age, quota, pending, waiting, job, tick, live, warming, ending, script, left, last, raced, upset>>

NoJob == [pc |-> "idle", want |-> FALSE]

Init ==
    /\ cam = FALSE /\ lag = {} /\ cache = FALSE /\ age = "old" /\ quota = FALSE
    /\ pending = {} /\ waiting = FALSE
    /\ job = [t \in Tasks |-> NoJob]
    /\ tick = {} /\ live = FALSE /\ warming = FALSE /\ ending = FALSE
    /\ script \in Scripts /\ left = script
    /\ last = FALSE /\ raced = FALSE /\ upset = FALSE

Spend(what) == left[what] > 0 /\ left' = [left EXCEPT ![what] = @ - 1]
Busy(t) == job[t].pc # "idle"
_privacy_block_remaining == warming \/ age = "hot"

(* async_cloud_set_privacy_mode begins with the cloud, or past it while a    *)
(* 444 is young; an ON ends the stream first.                                *)
FirstWay == IF quota THEN "lan" ELSE "cloud"
_apply_privacy(t, desired) ==
    /\ job' = [job EXCEPT ![t] = [pc |-> IF desired /\ live THEN "teardown" ELSE FirstWay, want |-> desired]]
    /\ raced' = (raced \/ \E x \in Tasks \ {t} : Busy(x))

(* What is held: the newest request.                                         *)
\* Mutant: the first request is kept.
KeepsFirst(desired) == IF pending = {} THEN {desired} ELSE pending
Newest(desired) == {desired}

(* The user sets the switch.                                                 *)
_request_privacy(c, desired) ==
    /\ Spend("requests") /\ ~Busy(c) /\ (c = "call2" => Busy("call1"))
    /\ last' = desired
    /\ IF _privacy_block_remaining
       THEN /\ pending' = Newest(desired)
            /\ waiting' = (waiting \/ ~Busy("loop"))
            /\ UNCHANGED <<job, raced>>
       ELSE /\ pending' = {}
            /\ _apply_privacy(c, desired)
            /\ UNCHANGED waiting
    /\ UNCHANGED <<cam, lag, cache, age, quota, tick, live, warming, ending, script, upset>>

(* The held request goes out: at the end of the block, or at the latest after*)
(* _PRIVACY_PENDING_MAX_WAIT, which a warm-up may outlast.                   *)
_pending_privacy_loop ==
    /\ waiting /\ age # "hot"
    /\ waiting' = FALSE /\ pending' = {}
    /\ IF pending = {}
       THEN UNCHANGED <<job, raced>>
       ELSE _apply_privacy("loop", CHOOSE p \in pending : TRUE)
    /\ UNCHANGED <<cam, lag, cache, age, quota, tick, live, warming, ending, script, left, last, upset>>

TornDown(t) ==
    /\ job[t].pc = "teardown"
    /\ live' = FALSE /\ warming' = FALSE
    /\ job' = [job EXCEPT ![t].pc = FirstWay]
    /\ UNCHANGED <<cam, lag, cache, age, quota, pending, waiting, tick, ending, script, left, last, raced, upset>>

(* A request reaches the camera by one of the ways; each way's answer stamps *)
(* the write and sets the cache in one step.                                 *)
Ways == {"cloud", "retry", "lan", "shc"}
Answered(way) == CASE way = "cloud" -> "cloudOk" [] way = "retry" -> "retryOk" [] way = "lan" -> "lanOk" [] OTHER -> "shcOk"
Takes(t) ==
    /\ job[t].pc \in Ways
    /\ cam' = job[t].want /\ lag' = IF cam = job[t].want THEN lag ELSE {cam}
    /\ job' = [job EXCEPT ![t].pc = Answered(job[t].pc)]
    /\ UNCHANGED <<cache, age, quota, pending, waiting, tick, live, warming, ending, script, left, last, raced, upset>>

async_cloud_set_privacy_mode(t) ==
    /\ \E way \in Ways : job[t].pc = Answered(way)
    /\ age' = "hot" /\ cache' = job[t].want
    /\ job' = [job EXCEPT ![t] = NoJob]
    /\ UNCHANGED <<cam, lag, quota, pending, waiting, tick, live, warming, ending, script, left, last, raced, upset>>

(* A way fails, before the camera saw the request or with the answer lost: a *)
(* 401 is tried once more with a new token, a 444 is remembered, and then the*)
(* camera's LAN address, the controller, and a notification.                 *)
FailsOver(t) ==
    LET way == CHOOSE x \in Ways : job[t].pc \in {x, Answered(x)}
        Next1(pc) == job' = [job EXCEPT ![t].pc = pc]
    IN  /\ \E x \in Ways : job[t].pc \in {x, Answered(x)}
        /\ Spend("failures") /\ upset' = TRUE
        /\ CASE way = "cloud" -> \/ Next1("retry") /\ UNCHANGED quota
                                 \/ Next1("lan") /\ quota' \in {quota, TRUE}
             [] way = "retry" -> Next1("lan") /\ UNCHANGED quota
             [] way = "lan" -> /\ UNCHANGED quota
                               /\ IF script.controller THEN Next1("shc") ELSE job' = [job EXCEPT ![t] = NoJob]
             [] OTHER -> job' = [job EXCEPT ![t] = NoJob] /\ UNCHANGED quota
        /\ UNCHANGED <<cam, lag, cache, age, pending, waiting, tick, live, warming, ending, script, last, raced>>

(* The tick fetches the camera list, and works on it later.                  *)
Fetches ==
    /\ tick = {}
    /\ \E v \in lag \union {cam} : tick' = {v}
    /\ UNCHANGED <<cam, lag, cache, age, quota, pending, waiting, job, live, warming, ending, script, left, last, raced, upset>>

(* The list says ON, the cache said OFF, and a session is live.              *)
\* Mutant: compared with the cache after it was set.
ComparedAfter(new) == new /\ ~new /\ live
CameOn(new) == new /\ ~cache /\ live

(* The info pass takes the list's value outside the window of a write; a     *)
(* change to ON under a live session ends the session.                       *)
_poll_cam_info_caches ==
    /\ tick # {} /\ tick' = {}
    /\ LET new == CHOOSE v \in tick : TRUE
       IN  IF age = "old"
           THEN /\ cache' = new
                /\ ending' = (ending \/ CameOn(new))
           ELSE UNCHANGED <<cache, ending>>
    /\ UNCHANGED <<cam, lag, age, quota, pending, waiting, job, live, warming, script, left, last, raced, upset>>

TearDown ==
    /\ ending /\ ending' = FALSE
    /\ live' = FALSE /\ warming' = FALSE
    /\ UNCHANGED <<cam, lag, cache, age, quota, pending, waiting, job, tick, script, left, last, raced, upset>>

(* The controller's answer is taken too, and ends no session.                *)
_update_one_camera_shc_state ==
    /\ script.controller
    /\ cache # cam /\ age = "old"
    /\ cache' = cam
    /\ UNCHANGED <<cam, lag, age, quota, pending, waiting, job, tick, live, warming, ending, script, left, last, raced, upset>>

Settles == lag # {} /\ lag' = {} /\ UNCHANGED <<cam, cache, age, quota, pending, waiting, job, tick, live, warming, ending, script, left, last, raced, upset>>

(* Five seconds after a write; then the end of its window, by which the cloud*)
(* is up to date and no tick works on an older list.                         *)
Ages ==
    /\ age # "old" /\ (age = "fresh" => lag = {} /\ tick \subseteq {cam})
    /\ age' = IF age = "hot" THEN "fresh" ELSE "old"
    /\ UNCHANGED <<cam, lag, cache, quota, pending, waiting, job, tick, live, warming, ending, script, left, last, raced, upset>>

QuotaEnds == quota /\ quota' = FALSE /\ UNCHANGED <<cam, lag, cache, age, pending, waiting, job, tick, live, warming, ending, script, left, last, raced, upset>>

(* A stream starts, outside a write of ON (LiveSession has the start that    *)
(* slips in), and warms up.                                                  *)
Starts ==
    /\ Spend("streams") /\ ~live /\ ~cache /\ ~cam
    /\ \A t \in Tasks : Busy(t) => ~job[t].want
    /\ live' = TRUE /\ warming' = TRUE
    /\ UNCHANGED <<cam, lag, cache, age, quota, pending, waiting, job, tick, ending, script, last, raced, upset>>

WarmsUp == warming /\ warming' = FALSE /\ UNCHANGED <<cam, lag, cache, age, quota, pending, waiting, job, tick, live, ending, script, left, last, raced, upset>>

(* Somebody presses the camera's button or uses the Bosch app.               *)
Button ==
    /\ Spend("presses")
    /\ cam' = ~cam /\ lag' = {cam} /\ upset' = TRUE
    /\ UNCHANGED <<cache, age, quota, pending, waiting, job, tick, live, warming, ending, script, last, raced>>

(* What a request, a press or a start leaves to be done: finitely many steps.*)
Work ==
    \/ \E t \in Tasks : TornDown(t) \/ Takes(t) \/ async_cloud_set_privacy_mode(t)
    \/ _pending_privacy_loop \/ TearDown \/ Settles \/ Ages \/ WarmsUp
Poll == Fetches \/ _poll_cam_info_caches
Next ==
    \/ \E c \in Calls, v \in BOOLEAN : _request_privacy(c, v)
    \/ \E t \in Tasks : FailsOver(t)
    \/ Work \/ Poll \/ _update_one_camera_shc_state \/ QuotaEnds \/ Starts \/ Button

Fairness == WF_vars(Work) /\ WF_vars(Poll)
Spec == Init /\ [][Next]_vars /\ Fairness

TypeOK ==
    /\ cam \in BOOLEAN /\ cache \in BOOLEAN /\ lag \subseteq BOOLEAN /\ age \in {"hot", "fresh", "old"}
    /\ pending \subseteq BOOLEAN /\ Cardinality(pending) <= 1 /\ waiting \in BOOLEAN
    /\ live \in BOOLEAN /\ warming \in BOOLEAN /\ quota \in BOOLEAN /\ ending \in BOOLEAN

Quiet == pending = {} /\ ~waiting /\ \A t \in Tasks : ~Busy(t)

(* However often the switch is set while it is blocked, the camera and the   *)
(* switch end at the value asked for last, as long as no two writes were     *)
(* under way at once and nothing failed (switch.py:1391, #27).               *)
RequestHolds == (Quiet /\ ~raced /\ ~upset) => (cam = last /\ cache = last)

(* The same without the exception for two writes under way: the most recent  *)
(* intent wins (the comment at switch.py:1357).                              *)
LastRequestHolds == (Quiet /\ ~upset) => cam = last

(* Privacy that stays on, pressed at the camera or set here, ends the live   *)
(* session when no controller is configured.                                 *)
PrivacyEndsStream == []<>~(cam /\ live /\ ~script.controller)

(* The switch comes to show what the camera does, and stays so.              *)
ShowsTheCamera == <>[](cache = cam)
=============================================================================
