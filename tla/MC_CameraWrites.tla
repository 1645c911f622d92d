--------------------------- MODULE MC_CameraWrites ---------------------------
(* What Home Assistant writes to one camera through the cloud: its lights,  *)
(* its privacy mode, and one settings object.  The three share no state, so *)
(* a behaviour is about one of them.                                        *)
EXTENDS Naturals

CONSTANTS MaxWriters, MaxCalls, MaxTrouble

Menu(calls, ops, trouble) == [calls |-> calls, ops |-> ops, trouble |-> trouble]
Op(kind, g, v) == [kind |-> kind, g |-> g, v |-> v]
Rgb(g, v) == Op("rgb", {g}, v)
Wall(v) == Op("wall", {"top", "bottom"}, v)
CameraLight(v) == Op("camera", {"front", "top", "bottom"}, v)
Front(kind, v) == Op(kind, {"front"}, v)
Menus ==
    {Menu({Rgb("top", TRUE), Front("front", FALSE), Front("frontLight", TRUE)}, 3, 0),
     Menu({CameraLight(TRUE), CameraLight(FALSE)}, 3, 0),
     Menu({CameraLight(FALSE), Rgb("bottom", TRUE)}, 3, 0),
     Menu({CameraLight(TRUE), CameraLight(FALSE), Rgb("bottom", TRUE)}, 2, 0),
     Menu({Wall(TRUE), Rgb("top", FALSE), Rgb("bottom", FALSE)}, 3, 0),
     Menu({Front("frontLight", TRUE), Front("frontLight", FALSE), Op("white", {}, FALSE)}, 3, 0),
     Menu({Front("intensity", TRUE), Wall(FALSE)}, 2, 1),
     Menu({Front("intensity", FALSE), CameraLight(FALSE)}, 2, 1),
     Menu({Front("front", FALSE), Op("led", {"top"}, TRUE)}, 2, 1),
     Menu({Front("front", FALSE), Rgb("top", TRUE)}, 2, 1)}

Script(requests, failures, presses, streams, controller) ==
    [requests |-> requests, failures |-> failures, presses |-> presses, streams |-> streams, controller |-> controller]
Scripts ==
    {Script(3, 0, 0, 1, FALSE), Script(2, 2, 0, 1, TRUE), Script(1, 1, 2, 1, FALSE), Script(1, 0, 2, 0, TRUE)}

(* The toggles are checked with the deferral of the slow tier.              *)
Deferring == {[lock |-> FALSE, base |-> "own", keeps |-> "own", stamps |-> {"a", "b"}, calls |-> {{"a"}}]}

VARIABLES
    scene,
    stored, enabled, lag, lsc, sw, current, fresh, holder, job, confirm, poll, menu, ops, trouble, known, off,
    cam, late, shown, age, quota, pending, waiting, write, tick, live, warming, ending, script, left, last, raced, upset,
    endpoint, camera, older, cache, recent, lockedBy, call, slow, online, stream, fetched, calls, faults, acked, disturbed

lightVars == <<stored, enabled, lag, lsc, sw, current, fresh, holder, job, confirm, poll, menu, ops, trouble, known, off>>
privacyVars == <<cam, late, shown, age, quota, pending, waiting, write, tick, live, warming, ending, script, left, last, raced, upset>>
settingVars == <<endpoint, camera, older, cache, recent, lockedBy, call, slow, online, stream, fetched, calls, faults, acked, disturbed>>
all == <<scene, lightVars, privacyVars, settingVars>>

Lights == INSTANCE Lighting
Privacy == INSTANCE PrivacySwitch WITH lag <- late, job <- write, cache <- shown
Settings == INSTANCE CloudSettings WITH holder <- lockedBy, job <- call, reply <- fetched, trouble <- faults, upset <- disturbed

MCInit ==
    /\ scene \in {"lights", "privacy", "settings"}
    /\ Lights!Init /\ Privacy!Init /\ Settings!Init
    /\ scene # "lights" => menu = CHOOSE m \in Menus : TRUE
    /\ scene # "privacy" => script = CHOOSE s \in Scripts : TRUE
    /\ scene # "settings" => endpoint = Settings!toggle

InLights(A) == scene = "lights" /\ A /\ UNCHANGED <<scene, privacyVars, settingVars>>
InPrivacy(A) == scene = "privacy" /\ A /\ UNCHANGED <<scene, lightVars, settingVars>>
InSettings(A) == scene = "settings" /\ A /\ UNCHANGED <<scene, lightVars, privacyVars>>
MCNext == InLights(Lights!Next) \/ InPrivacy(Privacy!Next) \/ InSettings(Settings!Next)

(* The fairness of the three, each in its scene.                            *)
MCFairness ==
    /\ WF_lightVars(scene = "lights" /\ Lights!Work) /\ WF_lightVars(scene = "lights" /\ Lights!Poll)
    /\ WF_privacyVars(scene = "privacy" /\ Privacy!Work) /\ WF_privacyVars(scene = "privacy" /\ Privacy!Poll)
    /\ WF_settingVars(scene = "settings" /\ Settings!Work) /\ WF_settingVars(scene = "settings" /\ Settings!Poll)
    /\ WF_settingVars(scene = "settings" /\ Settings!IntervalEnds) /\ WF_settingVars(scene = "settings" /\ Settings!Ages)
MCSpec == MCInit /\ [][MCNext]_all /\ MCFairness

TypesOK == Lights!TypeOK /\ Privacy!TypeOK /\ Settings!TypeOK
SiblingsKept == Lights!SiblingsKept
PrivacyEndsStream == Privacy!PrivacyEndsStream

(* What was asked for last holds and is shown: of the lights, of privacy,   *)
(* of a settings object.                                                    *)
RequestsHold == Lights!OffIsShown /\ Privacy!RequestHolds /\ Settings!NothingUndone

(* What the entities show comes to be what the camera does, and stays so:   *)
(* the Converges and ShowsTheCamera of the three modules in one formula.    *)
ShowsTheCamera ==
    <>[](CASE scene = "lights" -> lsc = Lights!Reported /\ sw = Lights!Derived(Lights!Reported)
           [] scene = "privacy" -> shown = cam
           [] OTHER -> cache = {camera})
=============================================================================
