--------------------------- MODULE EntryLifecycle ---------------------------
(***************************************************************************)
(* The life of the config entry (__init__.py): set up, running, torn down  *)
(* and set up again when its options change.  Every setup makes a          *)
(* coordinator of its own, which holds timers, tasks, listeners, sessions  *)
(* and child processes; the teardown gives them back stage by stage, while *)
(* a call that began before goes on and may take new ones, and while Home  *)
(* Assistant may cancel it because it takes too long.  Coordinators share  *)
(* nothing but the snapshot of the options, so only the newest is kept.    *)
(*                                                                         *)
(* What the resources do is in the modules of their components.  Assumed:  *)
(* Home Assistant can unload the platforms.                                *)
(***************************************************************************)
EXTENDS Integers

CONSTANTS MaxEdits,     \* bound: changes of the options
          MaxFailures   \* bound: setups that fail

Bounds == MaxEdits \in Nat /\ MaxFailures \in Nat

Resources == {"fcm", "timer", "drain", "recorder", "task", "stream", "door",
              "go2rtc", "shc", "proxy", "log listener"}
Phases == {"out", "reading", "forwarding", "rest", "loaded", "unloading", "torn"}

VARIABLES options,    \* the entry's options
          snapshot,   \* hass.data's copy of them, Never before the first setup
          inForce,    \* the options the coordinator was made with
          due,        \* calls of the update listener to come
          reload,     \* a reload was asked for
          hinted,     \* feedback_hint_version is this version
          phase,
          held,       \* what the coordinator holds
          stage,      \* of the teardown
          closed,     \* its flags: nvr_shutting_down, go2rtc_teardown_done,
                      \* tls_proxy_teardown_done
          call,       \* a call that starts a stream or a recorder
          hit,        \* the stage at which the teardown was cancelled, Never
          late,       \* what a call took while the teardown ran or after it,
                      \* and no flag could have kept it from
          edits, failures

Never == 0
optionVars == <<options, snapshot, inForce, due, reload, hinted, edits>>
holdVars == <<held, closed, call, late>>
entryVars == <<optionVars, phase, holdVars, stage, hit, failures>>

(***************************************************************************)
(* The teardown, in the order of _async_cancel_coordinator_tasks: what     *)
(* each stage gives back, and the flags it sets first.                     *)
(***************************************************************************)
Gives == << {"fcm"}, {"timer", "drain"}, {"recorder"}, {"task"}, {"stream"},
            {"door"}, {"go2rtc"}, {"shc"}, {"proxy", "log listener"} >>

\* Mutant: the proxies and go2rtc are given back with no flag set.
SetsNothing(n) == IF n = 1 THEN {"recorder"} ELSE {}

Sets(n) == CASE n = 1 -> {"recorder"} [] n = 9 -> {"go2rtc", "proxy"} [] OTHER -> {}

\* Stages whose await is guarded against a cancellation of the teardown.
Guarded == {1, 2, 3}

TypeOK ==
  /\ options \in 1 .. MaxEdits + 2 /\ snapshot \in Never .. MaxEdits + 2
  /\ inForce \in Never .. MaxEdits + 2
  /\ due \in 0 .. 2 /\ reload \in BOOLEAN /\ hinted \in BOOLEAN
  /\ phase \in Phases /\ held \subseteq Resources /\ late \subseteq Resources
  /\ stage \in Never .. 9 /\ hit \in Never .. 9
  /\ closed \subseteq {"recorder", "go2rtc", "proxy"}
  /\ call \in {"none", "asked", "wants proxy", "proxied"}
  /\ edits \in 0 .. MaxEdits /\ failures \in 0 .. MaxFailures

Init ==
  /\ options = 1 /\ snapshot = Never /\ inForce = Never
  /\ due = 0 /\ reload = FALSE /\ hinted \in BOOLEAN
  /\ phase = "out" /\ held = {} /\ stage = Never /\ closed = {}
  /\ call = "none" /\ hit = Never /\ late = {}
  /\ edits = 0 /\ failures = 0

(***************************************************************************)
(* Setup.                                                                  *)
(***************************************************************************)
\* A new coordinator.  The hint of a new version writes the options, before
\* anybody listens.
Begins ==
  /\ phase \in {"out", "torn"} /\ phase' = "reading"
  /\ hinted' = TRUE /\ options' = IF hinted THEN options ELSE options + 1
  /\ reload' = FALSE
  /\ held' = {} /\ closed' = {} /\ call' = "none" /\ late' = {}
  /\ stage' = Never /\ hit' = Never
  /\ UNCHANGED <<snapshot, inForce, due, edits, failures>>

SetupFails ==
  /\ failures < MaxFailures /\ failures' = failures + 1
  /\ phase' = "out"

\* Mutant: the copy of the first setup is kept.
KeepsSnapshot == IF snapshot = Never THEN options ELSE snapshot

Snapshot == options

\* The first refresh; a token that it had to renew arms the timer.
FirstRefresh ==
  /\ phase = "reading"
  /\ held' \in {held, held \cup {"timer"}}
  /\ \/ phase' = "forwarding" /\ snapshot' = Snapshot /\ inForce' = options
        /\ UNCHANGED failures
     \/ SetupFails /\ UNCHANGED <<snapshot, inForce>>
  /\ UNCHANGED <<options, due, reload, hinted, edits, closed, call, late, stage, hit>>

async_forward_entry_setups ==
  /\ phase = "forwarding"
  /\ \/ phase' = "rest" /\ held' = held \cup {"timer", "log listener"} /\ UNCHANGED failures
     \/ SetupFails /\ UNCHANGED held
  /\ UNCHANGED <<optionVars, closed, call, late, stage, hit>>

\* go2rtc is looked after, then the update listener is registered and what
\* runs in the background starts.
async_setup_entry ==
  /\ phase = "rest" /\ phase' = "loaded"
  /\ held' = held \cup {"fcm", "drain", "task", "shc"}
  /\ UNCHANGED <<optionVars, closed, call, late, stage, hit, failures>>

(***************************************************************************)
(* The options.  Every write of the entry calls the listener, the hourly   *)
(* one of the token and those of FCM included; nobody listens during setup.*)
(***************************************************************************)
Notified == IF phase \in {"loaded", "unloading"} THEN due + 1 ELSE due

Edits ==
  /\ edits < MaxEdits /\ edits' = edits + 1
  /\ due < 2 /\ options' = options + 1 /\ due' = Notified
  /\ UNCHANGED <<snapshot, inForce, reload, hinted, phase, holdVars, stage, hit, failures>>

TokenWritten ==
  /\ phase = "loaded" /\ due = 0 /\ due' = 1
  /\ UNCHANGED <<options, snapshot, inForce, reload, hinted, edits, phase, holdVars, stage, hit, failures>>

_async_options_updated ==
  /\ due > 0 /\ due' = due - 1
  /\ snapshot' = options /\ reload' = (reload \/ snapshot # options)
  /\ UNCHANGED <<options, inForce, hinted, edits, phase, holdVars, stage, hit, failures>>

(***************************************************************************)
(* Unload.                                                                 *)
(***************************************************************************)
\* A reload, or the user's own.
async_unload_entry ==
  /\ phase = "loaded" /\ phase' = "unloading" /\ stage' = 1
  /\ closed' = Sets(1)
  /\ UNCHANGED <<optionVars, held, call, late, hit, failures>>

\* On to the next stage; the flags are set before it waits.
Advances ==
  IF stage = 9 THEN phase' = "torn" /\ stage' = Never /\ UNCHANGED closed
  ELSE stage' = stage + 1 /\ closed' = closed \cup Sets(stage + 1) /\ UNCHANGED phase

_async_cancel_coordinator_tasks ==
  /\ phase = "unloading"
  /\ held' = held \ Gives[stage]
  /\ Advances
  /\ UNCHANGED <<optionVars, call, late, hit, failures>>

\* Cancelled in the middle of a stage: a guarded one is left as it is and
\* the rest goes on, any other ends it all.
GoesOn == stage \in Guarded
TeardownCancelled ==
  /\ phase = "unloading" /\ hit = Never /\ hit' = stage
  /\ IF GoesOn THEN Advances
     ELSE phase' = "torn" /\ stage' = Never /\ UNCHANGED closed
  /\ UNCHANGED <<optionVars, held, call, late, failures>>

(***************************************************************************)
(* A call of an entity or a service: it outlives its platform.             *)
(***************************************************************************)
Alive == phase \in {"loaded", "unloading", "torn"}
Takes(rs) ==
  /\ held' = held \cup rs
  /\ late' = IF phase = "loaded" THEN late
             ELSE late \cup (rs \ (IF phase = "torn" THEN {"recorder", "go2rtc"} ELSE {"recorder"}))

Calls ==
  /\ phase \in {"loaded", "unloading"} /\ call = "none" /\ call' = "asked"
  /\ UNCHANGED <<optionVars, phase, held, closed, late, stage, hit, failures>>

\* A recorder is started unless the entry shuts down; the shared go2rtc
\* session is made unless it was given back for good.
Refused(r) == r \in closed

start_recorder ==
  /\ call = "asked" /\ Alive /\ ~Refused("recorder")
  /\ call' = "none" /\ Takes({"recorder"})
  /\ UNCHANGED <<optionVars, phase, closed, stage, hit, failures>>

\* A stream: Bosch is asked, maybe with a token that has to be renewed.
start_tls_proxy_wiring ==
  /\ call = "asked" /\ Alive
  /\ IF Refused("proxy") THEN call' = "none" ELSE call' = "wants proxy"
  /\ \/ Takes({"timer"})
     \/ UNCHANGED <<held, late>>
  /\ UNCHANGED <<optionVars, phase, closed, stage, hit, failures>>

\* The flag is looked at before the port is opened, not after.
start_tls_proxy ==
  /\ call = "wants proxy" /\ Alive /\ call' = "proxied"
  /\ Takes({"proxy"})
  /\ UNCHANGED <<optionVars, phase, closed, stage, hit, failures>>

\* The session is live: it is listed, registered with go2rtc and renewed.
start_viewing_front_door ==
  /\ call = "proxied" /\ Alive /\ call' = "none"
  /\ Takes({"door", "stream", "task"} \cup (IF Refused("go2rtc") THEN {} ELSE {"go2rtc"}))
  /\ UNCHANGED <<optionVars, phase, closed, stage, hit, failures>>

CallFails ==
  /\ call # "none" /\ call' = "none"
  /\ UNCHANGED <<optionVars, phase, held, closed, late, stage, hit, failures>>

Call == \/ start_recorder \/ start_tls_proxy_wiring \/ start_tls_proxy
        \/ start_viewing_front_door \/ CallFails

Setup == Begins \/ FirstRefresh \/ async_forward_entry_setups \/ async_setup_entry
Next == \/ Setup \/ Edits \/ TokenWritten \/ _async_options_updated
        \/ async_unload_entry \/ _async_cancel_coordinator_tasks \/ TeardownCancelled
        \/ Calls \/ Call

\* Home Assistant sets up what failed or was reloaded, unloads what is to be
\* reloaded, the token is written every hour, and tasks run.
Fairness == /\ WF_entryVars(Setup) /\ WF_entryVars(TokenWritten)
            /\ WF_entryVars(_async_options_updated)
            /\ WF_entryVars(reload /\ async_unload_entry)
            /\ WF_entryVars(_async_cancel_coordinator_tasks)
Spec == Init /\ [][Next]_entryVars /\ Fairness

(***************************************************************************)
(* Properties                                                              *)
(***************************************************************************)

\* When the teardown is through, nothing that the coordinator held is left,
\* also when Home Assistant cancelled it in one of its guarded stages: only
\* what that stage had in hand, and what a call that went on took meanwhile.
\* Such a call never leaves a recorder, and makes no go2rtc session after the
\* teardown (__init__.py _async_cancel_coordinator_tasks, the flags).
TeardownIsWhole ==
  phase = "torn" /\ hit \in Guarded \cup {Never} =>
    held \subseteq late \cup (IF hit = Never THEN {} ELSE Gives[hit])

\* The entry is only reloaded when its options are others than those it was
\* set up with: not for a token or FCM write, whenever it comes, nor for the
\* hint that the setup itself writes (__init__.py: "A data-only write must
\* NEVER reload").
OnlyOptionsReload ==
  [][reload' /\ ~reload => options # inForce]_entryVars

\* Options that are not changed any more come into force, when they were
\* changed during a setup or a reload, too (__init__.py
\* _async_options_updated).
OptionsTakeEffect == <>[](inForce = options)
=============================================================================
