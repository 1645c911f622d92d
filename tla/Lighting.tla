------------------------------ MODULE Lighting ------------------------------
(* The lights of one Gen2 camera: three LED groups with a brightness each   *)
(* (on or off here), of which the front one and the pair of top and bottom  *)
(* also have an enable switch; the two caches of them the entities show;    *)
(* the writers (light entities, switches, numbers), the polls, and the      *)
(* confirmation after an ON.  Colours and white balance are left out: a     *)
(* write of them is a write of the full body at the brightness held.        *)
EXTENDS Naturals, FiniteSets

CONSTANTS
    MaxWriters,     \* bound: service calls that run at once
    Menus           \* bound: the calls a behaviour draws from, how many of them it makes,
                    \* and how many requests fail or changes come from the Bosch app

Writers == 1..MaxWriters
Groups == {"front", "top", "bottom"}
Wall == {"top", "bottom"}
Switch(g) == IF g = "front" THEN {"front"} ELSE Wall

VARIABLES
    stored,         \* the camera's brightness of each group, as a Boolean
    enabled,        \* the camera's enable switches, one per group
    lag,            \* the older states the cloud may still answer with
    lsc,            \* lighting_switch_cache[cam_id]: what the light entities show
    sw,             \* shc_state_cache[cam_id]: what the switches show
    current,        \* the readers that remember today's light_set_at[cam_id]
    fresh,          \* the last stamp is younger than WRITE_LOCK_SECS
    holder,         \* the task that holds the lighting lock
    job,            \* the service call each writer runs
    confirm,        \* the confirmation the last ON left behind; an older one ends without effect
    poll,           \* the tick's lighting/switch request
    menu, ops, trouble,
    known,          \* ghost: the light cache is what the camera does
    off             \* ghost: an undisturbed OFF of the camera light is fresh

vars == <<stored, enabled, lag, lsc, sw, current, fresh, holder, job, confirm, poll,
          menu, ops, trouble, known, off>>

Nobody == 0
Zero == [g \in Groups |-> FALSE]
Shown(s, e) == [g \in Groups |-> s[g] /\ e[g]]
Reported == Shown(stored, enabled)
Derived(l) == [front |-> l["front"], wall |-> l["top"] \/ l["bottom"],
               light |-> \E g \in Groups : l[g]]

NoOp == [kind |-> "none", g |-> {}, v |-> FALSE]
Idle == [pc |-> "idle", op |-> NoOp, body |-> Zero, good |-> TRUE]
NoConfirm == [pc |-> "idle", tries |-> 0, data |-> Zero]
NoPoll == [pc |-> "idle", data |-> Zero]

Init ==
    /\ stored = Zero /\ enabled = Zero /\ lag = {}
    /\ lsc = Zero /\ sw = Derived(Zero)
    /\ current = {} /\ fresh = FALSE /\ holder = Nobody
    /\ job = [w \in Writers |-> Idle] /\ confirm = NoConfirm
    /\ poll = NoPoll
    /\ menu \in Menus /\ ops = 0 /\ trouble = 0
    /\ known = TRUE /\ off = "no"

(* The kinds of call: which hold the lock, which send the full body first,  *)
(* which end with an enable.                                                *)
TakesLock(op) == op.kind \notin {"camera", "led"}
Busy(w) == job[w].pc # "idle"
Others(w) == \E x \in Writers \ {w} : Busy(x)

(* The whole body a call sends: the cache with its own groups replaced.     *)
FullBody(op) == [g \in Groups |-> IF g \in op.g THEN op.v ELSE lsc[g]]

Stamped == current' = {} /\ fresh' = TRUE

(* sync_wallwasher_cache: the switches follow the light cache, stamped.     *)
_sync_wallwasher_cache(l) == sw' = Derived(l) /\ Stamped

(* What a call sends once it may: the body, or at once the enable.          *)
FirstStep(op) ==
    CASE op.kind = "camera" -> "enable"
      [] op.kind = "front" -> IF op.v /\ ~lsc["front"] THEN "put" ELSE "enable"
      [] OTHER -> "put"

Send(w, op) == job' = [job EXCEPT ![w] = [pc |-> FirstStep(op), op |-> op, body |-> FullBody(op), good |-> TRUE]]

(* The white balance of a dark front light is held for its next ON; on a    *)
(* lit one, or one whose switch is on, it is written with a brightness.     *)
_white_balance_set(w, op) ==
    IF lsc["front"] \/ sw.front
    THEN Send(w, [op EXCEPT !.g = {"front"}, !.v = TRUE]) /\ holder' = w
    ELSE UNCHANGED <<job, holder>>

(* A service call gets the lock, or goes ahead without it: the camera light *)
(* switch and the LED numbers do.                                           *)
Call(w) ==
    /\ ops < menu.ops /\ ~Busy(w) /\ \A x \in 1..(w - 1) : Busy(x)
    /\ \E op \in menu.calls :
         /\ TakesLock(op) => holder = Nobody
         /\ CASE op.kind = "white" -> _white_balance_set(w, op)
              [] op.kind # "white" /\ TakesLock(op) -> Send(w, op) /\ holder' = w
              [] OTHER -> Send(w, op) /\ UNCHANGED holder
         /\ off' = IF op.kind = "camera" /\ ~op.v /\ ~Others(w) THEN "alone" ELSE "no"
    /\ ops' = ops + 1 /\ known' = (known /\ ~Others(w))
    /\ UNCHANGED <<stored, enabled, lag, lsc, sw, current, fresh, confirm, poll, menu, trouble>>

(* The camera takes a request: the full body switches a group it lights on  *)
(* again, an enable leaves the brightness alone.                            *)
Takes(w) ==
    LET j == job[w]
        wasReported == Reported
    IN  /\ j.pc \in {"put", "enable", "enable2", "fallback"}
        /\ CASE j.pc = "put" ->
                  /\ stored' = j.body
                  /\ enabled' = [g \in Groups |-> enabled[g] \/ \E x \in Switch(g) : j.body[x]]
             [] j.pc = "fallback" /\ j.op.kind # "camera" ->
                  /\ stored' = [stored EXCEPT !["front"] = j.op.v]
                  /\ enabled' = [enabled EXCEPT !["front"] = j.op.v]
             [] OTHER ->
                  /\ stored' = stored
                  /\ enabled' = [g \in Groups |->
                         IF \/ j.pc = "fallback"
                            \/ j.pc = "enable2" /\ g \in Wall
                            \/ j.pc = "enable" /\ g \in UNION {Switch(x) : x \in IF j.op.kind = "camera" THEN {"front"} ELSE j.op.g}
                         THEN j.op.v ELSE enabled[g]]
        /\ lag' = IF Shown(stored', enabled') = wasReported THEN lag ELSE lag \union {wasReported}
        /\ job' = [job EXCEPT ![w].pc = CASE j.pc = "put" -> "putDone" [] j.pc = "enable" -> "enableDone"
                                          [] j.pc = "enable2" -> "enable2Done" [] OTHER -> "fallbackDone"]
        /\ UNCHANGED <<lsc, sw, current, fresh, holder, confirm, poll, menu, ops, trouble, known, off>>

Ends(w) == job' = [job EXCEPT ![w] = Idle] /\ holder' = IF holder = w THEN Nobody ELSE holder

(* The body was taken: the call's own groups are merged into the cache, and *)
(* the enable follows where the call has one.                               *)
Merged(w) == [g \in Groups |-> IF g \in job[w].op.g THEN job[w].body[g] ELSE lsc[g]]
_put_lighting_switch(w) ==
    LET op == job[w].op
        restored == op.kind = "white" /\ ~lsc["front"]
        \* an LED entity switches the pair off only with its last group
        toggles == CASE op.kind = "rgb" -> op.v \/ \A g \in Wall : ~Merged(w)[g]
                     [] op.kind = "white" -> restored
                     [] OTHER -> op.kind # "led"
    IN  /\ job[w].pc = "putDone"
        /\ lsc' = Merged(w)
        /\ IF toggles
           THEN job' = [job EXCEPT ![w].pc = "enable", ![w].body = Zero] /\ UNCHANGED <<holder, sw, current, fresh>>
           ELSE /\ Ends(w)
                /\ CASE op.kind = "rgb" -> _sync_wallwasher_cache(Merged(w))
                     [] op.kind = "white" -> Stamped /\ UNCHANGED sw
                     [] OTHER -> UNCHANGED <<sw, current, fresh>>
        /\ UNCHANGED <<stored, enabled, lag, confirm, poll, menu, ops, trouble, known, off>>

(* The switches after a component write: the camera light is on with either.*)
Component(op) ==
    LET s == CASE op.kind = "wall" -> [sw EXCEPT !.wall = op.v] [] OTHER -> [sw EXCEPT !.front = op.v]
    IN  [s EXCEPT !.light = s.front \/ s.wall]

(* A component write that turns the front light off zeroes its brightness.  *)
\* Mutant: the brightness stays for the next full body.
KeepsFront(op) == lsc
WithoutFront(op) == IF op.kind = "front" /\ ~op.v THEN [lsc EXCEPT !["front"] = FALSE] ELSE lsc

(* The enable was answered and the call is over: async_turn_on and          *)
(* async_turn_off of the entities, and the end of the component setter.     *)
Completes(w) ==
    LET op == job[w].op
    IN  /\ job[w].pc = "enableDone" /\ op.kind # "camera"
        /\ CASE op.kind \in {"rgb", "frontLight"} -> _sync_wallwasher_cache(lsc) /\ UNCHANGED lsc
             [] op.kind = "white" -> Stamped /\ UNCHANGED <<sw, lsc>>
             [] OTHER -> /\ sw' = Component(op) /\ Stamped
                         /\ lsc' = WithoutFront(op)
        /\ Ends(w)
        /\ UNCHANGED <<stored, enabled, lag, confirm, poll, menu, ops, trouble, known, off>>

(* The camera light: both groups were toggled.  OFF zeroes the light cache  *)
(* under the lock; ON leaves it to a confirmation.                          *)
CameraAnswered(w, viaCloud) ==
    LET op == job[w].op
    IN  /\ sw' = [front |-> op.v, wall |-> op.v, light |-> op.v]
        /\ fresh' = TRUE /\ current' = IF op.v /\ viaCloud THEN {"confirm"} ELSE {}
        /\ known' = (known /\ ~op.v)
        /\ IF op.v
           THEN /\ Ends(w)
                /\ confirm' = IF viaCloud THEN [NoConfirm EXCEPT !.pc = "sleep"] ELSE confirm
           ELSE job' = [job EXCEPT ![w].pc = "zero"] /\ UNCHANGED <<holder, confirm>>

async_cloud_set_camera_light(w) ==
    /\ job[w].op.kind = "camera"
    /\ \/ /\ job[w].pc = "enableDone"
          /\ job' = [job EXCEPT ![w].pc = "enable2"]
          /\ UNCHANGED <<sw, current, fresh, holder, confirm, known>>
       \/ /\ job[w].pc = "enable2Done" /\ job[w].good
          /\ CameraAnswered(w, TRUE)
    /\ UNCHANGED <<stored, enabled, lag, lsc, poll, menu, ops, trouble, off>>

_zero_lighting_switch_cache_gen2(w) ==
    /\ job[w].pc = "zero" /\ holder = Nobody
    /\ lsc' = Zero
    /\ Ends(w)
    /\ off' = IF fresh /\ off = "alone" THEN "yes" ELSE "no"
    /\ UNCHANGED <<stored, enabled, lag, sw, current, fresh, confirm, poll, menu, ops, trouble, known>>

(* A request fails, before the camera saw it or with its answer lost.  An   *)
(* entity goes on without the enable; a component of the front light is     *)
(* tried on the LAN, the camera light at the controller, where there is one.*)
Fails(w) ==
    LET j == job[w]
        putLost == j.pc \in {"put", "putDone"}
        enableLost == j.pc \in {"enable", "enableDone"}
        noted == j.op.kind \in {"rgb", "frontLight"} /\ enableLost
    IN  /\ trouble < menu.trouble
        /\ putLost \/ enableLost \/ j.pc \in {"enable2", "enable2Done", "fallback", "fallbackDone"}
        /\ trouble' = trouble + 1 /\ known' = FALSE
        /\ IF j.op.kind = "camera" /\ enableLost
           THEN job' = [job EXCEPT ![w].pc = "enable2", ![w].good = FALSE] /\ UNCHANGED <<holder, sw, current, fresh>>
           ELSE IF /\ j.op.kind \in {"front", "intensity", "camera"}
                   /\ j.pc \notin {"fallback", "fallbackDone"}
           THEN /\ \/ job' = [job EXCEPT ![w].pc = "fallback"] /\ UNCHANGED holder
                   \/ Ends(w)
                /\ UNCHANGED <<sw, current, fresh>>
           ELSE /\ Ends(w)
                /\ IF noted THEN _sync_wallwasher_cache(lsc) ELSE UNCHANGED <<sw, current, fresh>>
        /\ UNCHANGED <<stored, enabled, lag, lsc, confirm, poll, menu, ops, off>>

(* The second toggle answered, but the first had failed.                    *)
HalfDone(w) ==
    /\ job[w].pc = "enable2Done" /\ ~job[w].good
    /\ \/ job' = [job EXCEPT ![w].pc = "fallback"] /\ UNCHANGED holder
       \/ Ends(w)
    /\ UNCHANGED <<stored, enabled, lag, lsc, sw, current, fresh, confirm, poll, menu, ops, trouble, known, off>>

(* The way without the cloud was answered.  The front light cache is left   *)
(* as it was.                                                               *)
FallbackAnswered(w) ==
    LET op == job[w].op
    IN  /\ job[w].pc = "fallbackDone"
        /\ IF op.kind = "camera"
           THEN CameraAnswered(w, FALSE)
           ELSE /\ sw' = IF op.kind = "front" THEN Component(op) ELSE [sw EXCEPT !.light = sw.front \/ sw.wall]
                /\ Stamped /\ Ends(w)
                /\ UNCHANGED <<confirm, known>>
        /\ UNCHANGED <<stored, enabled, lag, lsc, poll, menu, ops, trouble, off>>

(* No write has stamped light_set_at since the reader looked.               *)
SameStamp(reader) == reader \in current

(* The confirmation of an ON: two reads, each given up when a later write   *)
(* has stamped, before the read and again under the lock.                   *)
_refresh_lighting_switch_after_on ==
    LET c == confirm
        again == IF c.tries = 1 THEN NoConfirm ELSE [NoConfirm EXCEPT !.pc = "sleep", !.tries = 1]
    IN  /\ \/ /\ c.pc = "sleep"
              /\ IF SameStamp("confirm")
                 THEN \E d \in lag \union {Reported} : confirm' = [c EXCEPT !.pc = "got", !.data = d]
                 ELSE confirm' = NoConfirm
              /\ UNCHANGED <<lsc, known>>
           \/ /\ c.pc = "got" /\ holder = Nobody
              /\ IF SameStamp("confirm")
                 THEN /\ lsc' = c.data
                      /\ known' = (c.data = Reported /\ \A x \in Writers : ~Busy(x))
                      /\ confirm' = IF \E g \in Groups : c.data[g] THEN NoConfirm ELSE again
                 ELSE confirm' = NoConfirm /\ UNCHANGED <<lsc, known>>
        /\ UNCHANGED <<stored, enabled, lag, sw, current, fresh, holder, job, poll, menu, ops, trouble, off>>

(* The tick: the info pass derives the switches from the light cache unless *)
(* a write is fresh, then the state is asked for, unless a fresh OFF would  *)
(* be undone by it.                                                         *)
sync_gen2_light_cache(l) == sw' = IF fresh THEN sw ELSE Derived(l)

_poll_cam_control ==
    /\ poll.pc = "idle"
    /\ sync_gen2_light_cache(lsc)
    /\ IF fresh /\ ~sw.light
       THEN UNCHANGED <<poll, current>>
       ELSE /\ \E d \in lag \union {Reported} : poll' = [pc |-> "got", data |-> d]
            /\ current' = current \union {"poll"}
    /\ UNCHANGED <<stored, enabled, lag, lsc, fresh, holder, job, confirm, menu, ops, trouble, known, off>>

PollApplies ==
    /\ poll.pc = "got"
    /\ poll' = NoPoll /\ current' = current \ {"poll"}
    /\ IF SameStamp("poll")
       THEN /\ lsc' = poll.data /\ sync_gen2_light_cache(poll.data)
            /\ known' = (poll.data = Reported /\ \A x \in Writers : ~Busy(x))
       ELSE UNCHANGED <<lsc, sw, known>>
    /\ UNCHANGED <<stored, enabled, lag, fresh, holder, job, confirm, menu, ops, trouble, off>>

(* The cloud has caught up; it has by the end of the window of a write.     *)
Settles ==
    /\ lag # {} /\ lag' = {}
    /\ UNCHANGED <<stored, enabled, lsc, sw, current, fresh, holder, job, confirm, poll, menu, ops, trouble, known, off>>

WindowEnds ==
    /\ fresh /\ lag = {}
    /\ fresh' = FALSE /\ off' = "no"
    /\ UNCHANGED <<stored, enabled, lag, lsc, sw, current, holder, job, confirm, poll, menu, ops, trouble, known>>

AppSwitches ==
    /\ trouble < menu.trouble /\ trouble' = trouble + 1
    /\ \E g \in Groups :
         /\ stored' = [stored EXCEPT ![g] = ~Reported[g]]
         /\ enabled' = [x \in Groups |-> enabled[x] \/ (x \in Switch(g) /\ ~Reported[g])]
    /\ lag' = lag \union {Reported}
    /\ known' = FALSE /\ off' = "no"
    /\ UNCHANGED <<lsc, sw, current, fresh, holder, job, confirm, poll, menu, ops>>

WriterStep(w) ==
    \/ Takes(w) \/ _put_lighting_switch(w) \/ Completes(w)
    \/ async_cloud_set_camera_light(w) \/ _zero_lighting_switch_cache_gen2(w)
    \/ HalfDone(w) \/ FallbackAnswered(w)
(* What a service call leaves to be done: finitely many steps per call.     *)
Work == (\E w \in Writers : WriterStep(w)) \/ _refresh_lighting_switch_after_on \/ Settles \/ WindowEnds
Poll == _poll_cam_control \/ PollApplies
Next ==
    \/ Work \/ Poll \/ AppSwitches
    \/ \E w \in Writers : Call(w) \/ Fails(w)

Fairness == WF_vars(Work) /\ WF_vars(Poll)
Spec == Init /\ [][Next]_vars /\ Fairness

TypeOK ==
    /\ stored \in [Groups -> BOOLEAN] /\ enabled \in [Groups -> BOOLEAN] /\ lsc \in [Groups -> BOOLEAN]
    /\ lag \subseteq [Groups -> BOOLEAN]
    /\ sw \in [front : BOOLEAN, wall : BOOLEAN, light : BOOLEAN]
    /\ current \subseteq {"poll", "confirm"} /\ fresh \in BOOLEAN /\ holder \in Writers \union {Nobody}

(* While the light cache is true, the full body of one light's write leaves *)
(* the other lights of the camera as they are: every write that ended has   *)
(* left behind what the next body re-sends (shc.py:239, light.py:640).      *)
SiblingsKept ==
    [][\A w \in Writers :
         (known /\ job[w].pc = "put" /\ job'[w].pc = "putDone")
            => \A g \in Groups \ job[w].op.g : Shown(stored', enabled')[g] = Reported[g]]_vars

(* An OFF of the camera light that nothing disturbs is shown by the switches*)
(* and by the three lights until its window ends, whatever the cloud and an *)
(* earlier ON's confirmation still answer (GitHub #66).                     *)
OffIsShown == off = "yes" => lsc = Zero /\ ~sw.front /\ ~sw.wall /\ ~sw.light

(* Once the writing stops, lights and switches come to show what the camera *)
(* does, and stay so.                                                       *)
Converges == <>[](lsc = Reported /\ sw = Derived(Reported))
=============================================================================
