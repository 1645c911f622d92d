---- MODULE MC_FcmSupervisor ----
(* Instances of FcmSupervisor, one entry with its setup, unload and reload, *)
(* and of PushMessages, the messages of one of its clients.  They share no  *)
(* state: a behaviour is about one of them.                                 *)
EXTENDS FcmSupervisor

CONSTANTS MaxMessages, MaxResets, RestartsToHeal

VARIABLES scene,
          kinds, queue, due, hand, received, listener, keys, handed, pushed, streak, resets
messageVars == <<kinds, queue, due, hand, received, listener, keys, handed, pushed, streak, resets>>

Messages == INSTANCE PushMessages WITH SoftMax <- RestartsToHeal

ASSUME Messages!Bounds

(* In the other scene one initial state is enough; the supervisor rests.    *)
MCInit ==
    /\ scene \in {"supervisor", "messages"}
    /\ Init /\ Messages!Init
    /\ scene = "supervisor" => keys = "sound"
    /\ scene = "messages" => mode = "polling"

InSupervisor == scene = "supervisor"
InMessages == scene = "messages"
MCNext ==
    \/ InSupervisor /\ Next /\ UNCHANGED <<scene, messageVars>>
    \/ InMessages /\ Messages!Next /\ UNCHANGED <<scene, vars>>

(* The fairness of each, in its scene.                                      *)
SupervisorFairness ==
    /\ WF_vars(InSupervisor /\ Tick) /\ WF_vars(InSupervisor /\ EnsureRuns)
    /\ \A s \in Sups : WF_vars(InSupervisor /\ (Starts(s) \/ Heals(s) \/ Supervises(s)))
    /\ \A p \in Stoppers : WF_vars(InSupervisor /\ Stopper(p))
    /\ WF_vars(InSupervisor /\ SelectRestarts) /\ WF_vars(InSupervisor /\ UnloadEnds)
MessageFairness ==
    /\ WF_messageVars(InMessages /\ Messages!Listener)
    /\ WF_messageVars(InMessages /\ Messages!Restarts)
MCSpec == MCInit /\ [][MCNext]_<<scene, vars, messageVars>> /\ SupervisorFairness /\ MessageFairness

MCTypeOK == TypeOK /\ Messages!TypeOK
PushesGetThrough == Messages!PushesGetThrough
=============================
