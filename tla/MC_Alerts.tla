----------------------------- MODULE MC_Alerts -----------------------------
(* What follows an event of a camera: the delivery of its alert, the        *)
(* picture it leaves in the camera's cache and on disk, and the daily       *)
(* allowance for its description.  The three share no state, so a behaviour *)
(* is about one of them.                                                    *)
EXTENDS AiBudget

CONSTANTS NumEvents, Refetches, Polls,
          MaxEvents, MaxRefreshes, MaxRequests, MaxSwitches

Settings(services, keep, upload) == [services |-> services, keep |-> keep, upload |-> upload]
Options == {Settings({"text", "shot", "video"}, FALSE, TRUE), Settings({}, FALSE, FALSE),
            Settings({"text"}, TRUE, TRUE)}

VARIABLES
    scene,
    opts, latest, pictures, clips, task, www, got,
    cached, fresh, disk, saves, handed, privacy, stream, local, events, lock, refresh, request, alerts, left

alertVars == <<opts, latest, pictures, clips, task, www, got>>
snapVars == <<cached, fresh, disk, saves, handed, privacy, stream, local, events, lock, refresh, request, alerts, left>>
all == <<scene, alertVars, snapVars, aiVars>>

Delivery == INSTANCE Alerts
Picture == INSTANCE Snapshots

ASSUME AlertsBounds == Delivery!Bounds /\ Delivery!OptionsKnown /\ Picture!Bounds

(* In the other scenes one initial state is enough.                         *)
MCInit ==
    /\ scene \in {"delivery", "picture", "budget"}
    /\ Delivery!Init /\ Picture!Init /\ Init
    /\ scene # "delivery" => opts = Settings({}, FALSE, FALSE)
    /\ scene # "picture" => privacy = "off" /\ local

InDelivery(A) == scene = "delivery" /\ A /\ UNCHANGED <<scene, snapVars, aiVars>>
InPicture(A) == scene = "picture" /\ A /\ UNCHANGED <<scene, alertVars, aiVars>>
InBudget(A) == scene = "budget" /\ A /\ UNCHANGED <<scene, alertVars, snapVars>>
MCNext == InDelivery(Delivery!Next) \/ InPicture(Picture!Next) \/ InBudget(Next)
MCSpec == MCInit /\ [][MCNext]_all

MCTypeOK == Delivery!TypeOK /\ Picture!TypeOK /\ TypeOK
MediaAreItsOwn == Delivery!MediaAreItsOwn
NoFileLeft == Delivery!NoFileLeft
DiskCatchesUp == Picture!DiskCatchesUp
NeverBackToAnOlderEvent == Picture!NeverBackToAnOlderEvent
=============================================================================
