----------------------------- MODULE CloudNews -----------------------------
(***************************************************************************)
(* What a user hears of the Bosch cloud itself: that it is out and that it *)
(* is back (announcements.py, fed by every tick of the coordinator), and   *)
(* of its maintenance windows, read from two community feeds of which any  *)
(* may fail (maintenance.py).  Two small stores keep what was said already *)
(* over a restart; they are written by tasks of their own.                 *)
(*                                                                         *)
(* Time passes in units of the tick; a later window has a later date.      *)
(***************************************************************************)
EXTENDS Integers

CONSTANTS OutageAfter,  \* _CLOUD_OUTAGE_NOTIFY_AFTER_S
          NumWindows,   \* how many maintenance windows are announced
          MaxRestarts   \* bound

Bounds == OutageAfter \in Nat \ {0} /\ NumWindows \in Nat /\ MaxRestarts \in Nat

Windows == 1 .. NumWindows
States == {"scheduled", "active", "past"}
Never == -1
NoKey == <<0, "none">>
Keys == {NoKey} \cup Windows \X States

VARIABLES cloud,     \* it answers
          outage,    \* age of _cloud_outage_started_at
          notified,  \* cloud_outage_notified
          flag,      \* the stored flag
          flagSave,  \* the flag a task is about to store: {} or one value
          windows,   \* the state of each window, "hidden" before it is announced
          cache,     \* maintenance_cache: a window, 0 when none
          fetching,  \* a fetch of the feeds is under way
          key,       \* maintenance_notified_key
          keyStore,  \* the stored key
          keySave,   \* the key a task is about to store: {} or one value
          outs,      \* messages that it is out since it last answered
          silent,    \* how long ago the last tick that succeeded is
          said,      \* the windows announced as open and as over
          restarts,
          cut        \* a restart lost something not stored yet

outageVars == <<outage, notified, flag, flagSave, outs, silent>>
maintVars == <<windows, cache, fetching, key, keyStore, keySave, said>>
cloudVars == <<cloud, outageVars, maintVars, restarts, cut>>

TypeOK ==
  /\ cloud \in BOOLEAN /\ outage \in Never .. OutageAfter
  /\ notified \in BOOLEAN /\ flag \in BOOLEAN /\ flagSave \subseteq BOOLEAN
  /\ windows \in [Windows -> States \cup {"hidden"}]
  /\ cache \in 0 .. NumWindows /\ fetching \in BOOLEAN
  /\ key \in Keys /\ keyStore \in Keys /\ keySave \subseteq Keys
  /\ outs \in 0 .. 2 /\ silent \in 0 .. OutageAfter
  /\ said \subseteq Windows \X {"active", "past"}
  /\ restarts \in 0 .. MaxRestarts /\ cut \in BOOLEAN

Init ==
  /\ cloud \in BOOLEAN
  /\ outage = Never /\ notified = FALSE /\ flag = FALSE /\ flagSave = {}
  /\ windows = [w \in Windows |-> "hidden"]
  /\ cache = 0 /\ fetching = FALSE
  /\ key = NoKey /\ keyStore = NoKey /\ keySave = {}
  /\ outs = 0 /\ silent = 0 /\ said = {}
  /\ restarts = 0 /\ cut = FALSE

Twice(n) == IF n = 2 THEN 2 ELSE n + 1

(***************************************************************************)
(* Maintenance.                                                            *)
(***************************************************************************)
\* A good tick asks again after an hour, a failed one after five minutes:
\* whether that is over is left open.
MayFetch == fetching' \in {fetching, TRUE}

Rank == [active |-> 0, scheduled |-> 1, past |-> 3]
_prefers(v, w) ==
  \/ Rank[windows[v]] < Rank[windows[w]]
  \/ Rank[windows[v]] = Rank[windows[w]] /\ v >= w

Published == {w \in Windows : windows[w] # "hidden"}

\* Mutant: it is always news.
NobodyIsHidden(w) == windows[w] = "hidden"

\* "Over" is news only for who was told that the window is open.
NobodyKnew(w) == windows[w] = "past" /\ key # <<w, "active">>

maybe_announce_maintenance(w) ==
  LET next == <<w, windows[w]>>
  IN  IF NobodyKnew(w) THEN key' = next /\ keySave' = {next} /\ UNCHANGED said
      ELSE IF key = next THEN UNCHANGED <<key, keySave, said>>
      ELSE /\ key' = next /\ keySave' = {next}
           /\ said' = IF next[2] = "scheduled" THEN said ELSE said \cup {next}

\* Any feed may fail, so any part of what is published may be seen; the
\* old entry stays when nothing is.
async_refresh_maintenance ==
  /\ fetching /\ fetching' = FALSE
  /\ \/ \E visible \in SUBSET Published \ {{}} :
          LET best == CHOOSE w \in visible : \A v \in visible : _prefers(w, v)
          IN  cache' = best /\ maybe_announce_maintenance(best)
     \/ UNCHANGED <<cache, key, keySave, said>>
  /\ UNCHANGED <<cloud, outageVars, windows, keyStore, restarts, cut>>

persist_maint_notified_key ==
  /\ keySave # {} /\ keyStore' \in keySave /\ keySave' = {}
  /\ UNCHANGED <<cloud, outageVars, windows, cache, fetching, key, said, restarts, cut>>

in_maintenance == IF cache = 0 THEN FALSE ELSE windows[cache] = "active"

(***************************************************************************)
(* The cloud.                                                              *)
(***************************************************************************)
\* Mutant: the start of the failures stays.
StartKept == outage

StartCleared == Never

\* A tick that succeeded.
CloudAnswered ==
  /\ cloud
  /\ outage' = StartCleared /\ notified' = FALSE
  /\ flagSave' = IF notified THEN {FALSE} ELSE flagSave
  /\ outs' = 0 /\ silent' = 0
  /\ MayFetch
  /\ UNCHANGED <<cloud, flag, windows, cache, key, keyStore, keySave, said, restarts, cut>>

Lasted == outage >= OutageAfter

\* A tick that failed.  A timeout and an error status also ask the feeds, a
\* broken connection does not.
CloudFailed ==
  /\ ~cloud
  /\ IF outage = Never THEN outage' = 0 /\ UNCHANGED <<notified, flagSave, outs>>
     ELSE IF notified \/ ~Lasted THEN UNCHANGED <<outage, notified, flagSave, outs>>
     ELSE /\ notified' = TRUE /\ flagSave' = {TRUE}
          /\ outs' = IF in_maintenance THEN outs ELSE Twice(outs)
          /\ UNCHANGED outage
  /\ MayFetch
  /\ UNCHANGED <<cloud, flag, silent, windows, cache, key, keyStore, keySave, said, restarts, cut>>

persist_cloud_outage_flag ==
  /\ flagSave # {} /\ flag' \in flagSave /\ flagSave' = {}
  /\ UNCHANGED <<cloud, outage, notified, outs, silent, maintVars, restarts, cut>>

(***************************************************************************)
(* Around it.                                                              *)
(***************************************************************************)
TimePasses ==
  /\ outage' = IF outage \in {Never, OutageAfter} THEN outage ELSE outage + 1
  /\ silent' = IF silent = OutageAfter THEN silent ELSE silent + 1
  /\ UNCHANGED <<cloud, notified, flag, flagSave, outs, windows, cache, fetching,
                 key, keyStore, keySave, said, restarts, cut>>

CloudChanges ==
  /\ cloud' = ~cloud
  /\ UNCHANGED <<outageVars, maintVars, restarts, cut>>

Later == [hidden |-> {"scheduled", "active", "past"}, scheduled |-> {"active"}, active |-> {"past"}, past |-> {}]
WindowMoves(w) ==
  /\ \E s \in Later[windows[w]] : windows' = [windows EXCEPT ![w] = s]
  /\ UNCHANGED <<cloud, outageVars, cache, fetching, key, keyStore, keySave, said, restarts, cut>>

\* Home Assistant starts anew: the two stores are read.
async_setup_entry ==
  /\ restarts < MaxRestarts /\ restarts' = restarts + 1
  /\ notified' = flag /\ flagSave' = {} /\ outage' = Never
  /\ key' = keyStore /\ keySave' = {}
  /\ cache' = 0 /\ fetching' = FALSE
  /\ cut' = (cut \/ flagSave # {})
  /\ UNCHANGED <<cloud, flag, outs, silent, windows, keyStore, said>>

Next == \/ async_refresh_maintenance \/ persist_maint_notified_key
        \/ CloudAnswered \/ CloudFailed \/ persist_cloud_outage_flag
        \/ TimePasses \/ CloudChanges \/ (\E w \in Windows : WindowMoves(w))
        \/ async_setup_entry

Spec == Init /\ [][Next]_cloudVars

(***************************************************************************)
(* Properties                                                              *)
(***************************************************************************)

\* An outage is announced when the cloud has not answered for the whole
\* delay, and once until it answers again: not for failures with an answer
\* in between, nor again by every restart of Home Assistant during the
\* outage, unless the restart came before the flag was stored
\* (announcements.py, __init__.py: the stored flag).
OutageIsNews ==
  [][outs' > outs => silent >= OutageAfter /\ (cut \/ outs = 0)]_cloudVars

\* That a window is over is only said of one that was announced as open,
\* also when a restart, another window or a failing feed came in between
\* (announcements.py: the key).
EndAfterBeginning ==
  \A w \in Windows : <<w, "past">> \in said => <<w, "active">> \in said
=============================================================================
