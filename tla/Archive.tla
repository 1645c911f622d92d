------------------------------ MODULE Archive ------------------------------
(***************************************************************************)
(* Where recordings and event files go: the drain of the Mini-NVR's        *)
(* staging tree and its retention (recorder.py), the upload of an alert's  *)
(* snapshot and clip and its retention (smb.py).  All of it runs in        *)
(* executor threads that nothing can stop: an unload cancels the coroutine *)
(* that waits for a pass over the staging tree, the pass goes on, and the  *)
(* coordinator set up next starts another over the same files.             *)
(*                                                                         *)
(* A step is one operation on the file system or the share, so that the    *)
(* threads interleave between any two.  A share may refuse an operation    *)
(* or break off a transfer (faults, bounded).  A file is what is left of   *)
(* it: growing, whole or cut short.  There is no clock: a segment ages     *)
(* past the retention at any moment.  Left out: names, folders, the local  *)
(* save (it has no share to fail), listings that fail, counters shown by   *)
(* the sensor.                                                             *)
(***************************************************************************)
EXTENDS Integers, FiniteSets

CONSTANTS
    Segments,       \* files ffmpeg writes to the staging tree
    Uploaders,      \* executor jobs of sync_smb_upload, all for the same event
    None,
    Setups,         \* target and protocol an entry may have, whether alerts come in, operations that fail
    MaxRetries,     \* _DRAIN_MAX_RETRIES
    MaxLoads        \* bound: coordinators, one after the other

ASSUME ArchiveAssumption ==
    /\ MaxRetries \in Nat \ {0} /\ MaxLoads \in Nat \ {0}
    /\ None \notin Segments /\ None \notin Uploaders /\ "walk" \notin Uploaders \cup {None}
    /\ Setups \subseteq [target : {"local", "smb", "ftp", "off"}, protocol : {"smb", "ftp", "off"}, alerts : BOOLEAN, faults : Nat]

Loads == 1..MaxLoads                \* a coordinator, and its drain
NoFailures == [s \in Segments |-> 0]
Items == {"jpg", "mp4"}             \* the files of the event

VARIABLES
    opts,
    \* the Mini-NVR's files
    seg,            \* what ffmpeg has written: none, growing, final
    staged, promoted, failedDir,    \* _staging, the promoted tree, _failed
    remote,         \* the copy on the share: no, part, whole
    old,            \* segments past nvr_retention_days
    \* the drains
    load,           \* the current coordinator
    loaded,
    dpc,            \* where the pass of each coordinator is
    todo,           \* what its listing found finalized and it has not tried
    cur,            \* the segment it transfers
    failures,       \* nvr_drain_failures
    spoiled,        \* passes whose target another pass opened and cut
    \* the event's files
    share,          \* each file under its final name: no, part, whole
    tmp,            \* the clip under its .part name
    upc, item,      \* each upload: where it is, at which file
    walk,           \* sync_smb_cleanup: idle, walking
    timeoutLock,    \* _SOCKET_TIMEOUT_LOCK
    sockTimeout,    \* socket.setdefaulttimeout, 0 for None
    faults,
    contested       \* ghost: segments two passes had open at once

nvrFiles == <<seg, staged, promoted, failedDir, remote, old>>
drains == <<load, loaded, dpc, todo, cur, failures, spoiled, contested>>
events == <<share, tmp, upc, item, walk, timeoutLock, sockTimeout>>
vars == <<opts, nvrFiles, drains, events, faults>>

UploadStates == {"idle", "session", "stat", "sending", "rename", "done"}

TypeOK ==
    /\ opts \in Setups
    /\ seg \in [Segments -> {"none", "growing", "final"}]
    /\ staged \subseteq Segments /\ promoted \subseteq Segments /\ failedDir \subseteq Segments
    /\ remote \in [Segments -> {"no", "part", "whole"}]
    /\ old \subseteq Segments /\ contested \subseteq Segments
    /\ load \in Loads /\ loaded \in BOOLEAN /\ spoiled \subseteq Loads
    /\ dpc \in [Loads -> {"idle", "next", "sending", "sent"}]
    /\ todo \in [Loads -> SUBSET Segments]
    /\ cur \in [Loads -> Segments \cup {None}]
    /\ failures \in [Loads -> [Segments -> 0..MaxRetries]]
    /\ share \in [Items -> {"no", "part", "whole"}] /\ tmp \in {"no", "part", "whole"}
    /\ upc \in [Uploaders -> UploadStates] /\ item \in [Uploaders -> Items]
    /\ walk \in {"idle", "session", "walking"}
    /\ timeoutLock \in Uploaders \cup {None, "walk"}
    /\ sockTimeout \in {0, 10, 20}
    /\ faults \in 0..opts.faults

Init ==
    /\ opts \in Setups
    /\ seg = [s \in Segments |-> "none"]
    /\ staged = {} /\ promoted = {} /\ failedDir = {} /\ old = {}
    /\ remote = [s \in Segments |-> "no"]
    /\ load = 1 /\ loaded = TRUE
    /\ dpc = [g \in Loads |-> "idle"]
    /\ todo = [g \in Loads |-> {}]
    /\ cur = [g \in Loads |-> None]
    /\ failures = [g \in Loads |-> NoFailures]
    /\ spoiled = {} /\ contested = {}
    /\ share = [i \in Items |-> "no"] /\ tmp = "no"
    /\ upc = [u \in Uploaders |-> "idle"] /\ item = [u \in Uploaders |-> "jpg"]
    /\ walk = "idle" /\ timeoutLock = None /\ sockTimeout = 0
    /\ faults = 0

Fault == faults < opts.faults /\ faults' = faults + 1

-----------------------------------------------------------------------------
(* ffmpeg and the calendar.                                                *)

\* A file that stays shorter than _DRAIN_MIN_SIZE_BYTES stays growing.
Writes(s) ==
    /\ opts.target # "off"
    /\ \/ seg[s] = "none" /\ seg' = [seg EXCEPT ![s] = "growing"] /\ staged' = staged \cup {s}
       \/ /\ seg[s] = "growing" /\ UNCHANGED staged
          /\ seg' = [seg EXCEPT ![s] = "final"]
    /\ UNCHANGED <<opts, promoted, failedDir, remote, old, drains, events, faults>>

Ages(s) ==
    /\ seg[s] = "final" /\ s \notin old
    /\ old' = old \cup {s}
    /\ UNCHANGED <<opts, seg, staged, promoted, failedDir, remote, drains, events, faults>>

Unload ==
    /\ loaded /\ opts.target # "off"
    /\ loaded' = FALSE
    /\ failures' = IF dpc[load] = "idle" THEN [failures EXCEPT ![load] = NoFailures] ELSE failures
    /\ UNCHANGED <<opts, nvrFiles, load, dpc, todo, cur, spoiled, contested, events, faults>>

SetUp ==
    /\ ~loaded /\ load < MaxLoads
    /\ loaded' = TRUE /\ load' = load + 1
    /\ UNCHANGED <<opts, nvrFiles, dpc, todo, cur, failures, spoiled, contested, events, faults>>

-----------------------------------------------------------------------------
(* The drain of one coordinator.                                           *)

_is_segment_finalized(s) == seg[s] = "final"

\* Mutant: a coordinator that follows an unloaded one starts no drain.
TickOfFirst(g) ==
    /\ g = 1 /\ g = load /\ loaded /\ opts.target # "off" /\ dpc[g] = "idle"
    /\ LET found == {s \in staged : _is_segment_finalized(s)}
       IN  /\ found # {}
           /\ todo' = [todo EXCEPT ![g] = found]
           /\ dpc' = [dpc EXCEPT ![g] = "next"]
    /\ UNCHANGED <<opts, nvrFiles, load, loaded, cur, failures, spoiled, contested, events, faults>>

\* drain_staging_to_remote waits for a pass before it starts the next.
Tick(g) ==
    /\ g = load /\ loaded /\ opts.target # "off" /\ dpc[g] = "idle"
    /\ LET found == {s \in staged : _is_segment_finalized(s)}
       IN  /\ found # {}
           /\ todo' = [todo EXCEPT ![g] = found]
           /\ dpc' = [dpc EXCEPT ![g] = "next"]
    /\ UNCHANGED <<opts, nvrFiles, load, loaded, cur, failures, spoiled, contested, events, faults>>

\* The pass is through with a segment.
Passed(g, s) ==
    LET rest == todo[g] \ {s}
    IN  /\ todo' = [todo EXCEPT ![g] = rest]
        /\ cur' = [cur EXCEPT ![g] = None]
        /\ dpc' = [dpc EXCEPT ![g] = IF rest = {} THEN "idle" ELSE "next"]
        /\ UNCHANGED <<load, loaded>>

\* The count of a coordinator that is gone goes with its last pass.
Counts(g, s, n) ==
    failures' = [failures EXCEPT ![g] =
        IF todo[g] = {s} /\ ~(g = load /\ loaded) THEN NoFailures
        ELSE [failures[g] EXCEPT ![s] = n]]

Drained(g, s) == Passed(g, s) /\ Counts(g, s, 0)

\* A failed attempt counts; the last one moves the file to _failed, which
\* fails too when the file is no longer there.
_quarantine_failed(s) ==
    IF s \in staged
    THEN staged' = staged \ {s} /\ failedDir' = failedDir \cup {s}
    ELSE UNCHANGED <<staged, failedDir>>

Failed(g, s) ==
    /\ Passed(g, s)
    /\ IF failures[g][s] + 1 >= MaxRetries
       THEN Counts(g, s, 0) /\ _quarantine_failed(s)
       ELSE Counts(g, s, failures[g][s] + 1) /\ UNCHANGED <<staged, failedDir>>

_move_local(g, s) ==
    /\ opts.target = "local" /\ dpc[g] = "next" /\ s \in todo[g]
    /\ \/ /\ s \in staged
          /\ staged' = staged \ {s} /\ promoted' = promoted \cup {s}
          /\ Drained(g, s) /\ UNCHANGED <<failedDir, faults>>
       \/ /\ IF s \in staged THEN Fault ELSE UNCHANGED faults
          /\ Failed(g, s) /\ UNCHANGED promoted
    /\ UNCHANGED <<opts, seg, remote, old, spoiled, contested, events>>

\* The pass opens the staging file, then the target, which cuts the target
\* to nothing.  The share, the folder or either file may fail first.
OpenBoth(g, s) ==
    /\ opts.target \in {"smb", "ftp"} /\ dpc[g] = "next" /\ s \in todo[g]
    /\ \/ /\ s \in staged
          /\ remote' = [remote EXCEPT ![s] = "part"]
          /\ dpc' = [dpc EXCEPT ![g] = "sending"] /\ cur' = [cur EXCEPT ![g] = s]
          /\ LET others == {h \in Loads \ {g} : cur[h] = s}
             IN  /\ spoiled' = (spoiled \ {g}) \cup others
                 /\ contested' = IF others = {} THEN contested ELSE contested \cup {s}
          /\ UNCHANGED <<load, loaded, todo, failures, staged, failedDir, faults>>
       \/ /\ IF s \in staged THEN Fault ELSE UNCHANGED faults
          /\ Failed(g, s) /\ UNCHANGED <<remote, spoiled, contested>>
    /\ UNCHANGED <<opts, seg, promoted, old, events>>

\* The transfer ends, or breaks off and leaves what has arrived.
Sent(g) ==
    /\ dpc[g] = "sending"
    /\ \/ /\ dpc' = [dpc EXCEPT ![g] = "sent"]
          /\ remote' = IF g \in spoiled THEN remote ELSE [remote EXCEPT ![cur[g]] = "whole"]
          /\ UNCHANGED <<load, loaded, todo, cur, failures, staged, failedDir, faults>>
       \/ Fault /\ Failed(g, cur[g]) /\ UNCHANGED remote
    /\ UNCHANGED <<opts, seg, promoted, old, spoiled, contested, events>>

\* The unlink is best effort: the upload counts either way.
Unlinked(g) ==
    /\ dpc[g] = "sent"
    /\ \/ staged' = staged \ {cur[g]} /\ UNCHANGED faults
       \/ Fault /\ UNCHANGED staged
    /\ Drained(g, cur[g])
    /\ UNCHANGED <<opts, seg, promoted, failedDir, remote, old, spoiled, contested, events>>

-----------------------------------------------------------------------------
(* Retention of the recordings: one file at a time, in its own thread.     *)
(* The share's copy is younger than the recording it was made of.          *)

_sync_nvr_cleanup_local(s) ==
    /\ s \in old /\ opts.target # "off"
    /\ s \in staged \cup promoted \cup failedDir
    /\ staged' = staged \ {s} /\ promoted' = promoted \ {s} /\ failedDir' = failedDir \ {s}
    /\ UNCHANGED <<opts, seg, remote, old, drains, events, faults>>

_sync_nvr_cleanup_remote(s) ==
    /\ s \in old /\ opts.target \in {"smb", "ftp"}
    /\ remote[s] # "no" /\ \A g \in Loads : cur[g] # s
    /\ remote' = [remote EXCEPT ![s] = "no"]
    /\ UNCHANGED <<opts, seg, staged, promoted, failedDir, old, drains, events, faults>>

-----------------------------------------------------------------------------
(* An alert's upload.                                                      *)

uploadVars == <<share, tmp, upc, item, walk, timeoutLock, sockTimeout>>

TimeoutLockFree == timeoutLock = None

Starts(u) ==
    /\ upc[u] = "idle" /\ opts.protocol # "off" /\ opts.alerts
    /\ upc' = [upc EXCEPT ![u] = IF opts.protocol = "smb" THEN "session" ELSE "stat"]
    /\ IF opts.protocol = "smb"
       THEN TimeoutLockFree /\ timeoutLock' = u /\ sockTimeout' = 10
       ELSE UNCHANGED <<timeoutLock, sockTimeout>>
    /\ UNCHANGED <<opts, nvrFiles, drains, share, tmp, item, walk, faults>>

Session(u) ==
    /\ upc[u] = "session"
    /\ \/ upc' = [upc EXCEPT ![u] = "stat"] /\ sockTimeout' = 20 /\ UNCHANGED <<timeoutLock, faults>>
       \/ /\ Fault /\ upc' = [upc EXCEPT ![u] = "done"]
          /\ sockTimeout' = 0 /\ timeoutLock' = None
    /\ UNCHANGED <<opts, nvrFiles, drains, share, tmp, item, walk>>

\* The upload is through with a file: the clip follows the snapshot.
NextItem(u) ==
    IF item[u] = "jpg"
    THEN /\ item' = [item EXCEPT ![u] = "mp4"] /\ upc' = [upc EXCEPT ![u] = "stat"]
         /\ UNCHANGED <<timeoutLock, sockTimeout>>
    ELSE /\ upc' = [upc EXCEPT ![u] = "done"] /\ UNCHANGED item
         /\ IF opts.protocol = "smb" THEN timeoutLock' = None /\ sockTimeout' = 0
                                     ELSE UNCHANGED <<timeoutLock, sockTimeout>>

\* Mutant: the clip is written under its final name.
WritesFinalName(u) == item[u] = "none"

\* A clip on an SMB share is written under a .part name.
_sync_smb_upload_events(u) == opts.protocol = "smb" /\ item[u] = "mp4"

\* What is there under the final name is taken for done.
Stat(u) ==
    /\ upc[u] = "stat"
    /\ IF share[item[u]] # "no"
       THEN NextItem(u) /\ UNCHANGED <<share, tmp>>
       ELSE /\ upc' = [upc EXCEPT ![u] = "sending"]
            /\ IF _sync_smb_upload_events(u)
               THEN tmp' = "part" /\ UNCHANGED share
               ELSE share' = [share EXCEPT ![item[u]] = "part"] /\ UNCHANGED tmp
            /\ UNCHANGED <<item, timeoutLock, sockTimeout>>
    /\ UNCHANGED <<opts, nvrFiles, drains, walk, faults>>

Sends(u) ==
    /\ upc[u] = "sending"
    /\ \/ Fault /\ NextItem(u) /\ UNCHANGED <<share, tmp>>
       \/ /\ UNCHANGED faults
          /\ IF _sync_smb_upload_events(u)
             THEN /\ tmp' = "whole" /\ upc' = [upc EXCEPT ![u] = "rename"]
                  /\ UNCHANGED <<share, item, timeoutLock, sockTimeout>>
             ELSE share' = [share EXCEPT ![item[u]] = "whole"] /\ UNCHANGED tmp /\ NextItem(u)
    /\ UNCHANGED <<opts, nvrFiles, drains, walk>>

\* A rename does not replace a file that is there.
Renames(u) ==
    /\ upc[u] = "rename"
    /\ \/ /\ share["mp4"] = "no" /\ share' = [share EXCEPT !["mp4"] = tmp] /\ tmp' = "no"
          /\ UNCHANGED faults
       \/ Fault /\ UNCHANGED <<share, tmp>>
    /\ NextItem(u)
    /\ UNCHANGED <<opts, nvrFiles, drains, walk>>

-----------------------------------------------------------------------------
(* Retention of the event files: the walk leaves out the recordings, whose *)
(* retention is another.                                                   *)

WalkStarts ==
    /\ walk = "idle" /\ opts.protocol # "off"
    /\ IF opts.protocol = "smb"
       THEN TimeoutLockFree /\ timeoutLock' = "walk" /\ sockTimeout' = 10
       ELSE UNCHANGED <<timeoutLock, sockTimeout>>
    /\ walk' = "session"
    /\ UNCHANGED <<opts, nvrFiles, drains, share, tmp, upc, item, faults>>

\* The default timeout is taken back before the walk begins.
WalkSession ==
    /\ walk = "session"
    /\ IF opts.protocol = "smb" THEN sockTimeout' = 0 ELSE UNCHANGED sockTimeout
    /\ \/ walk' = "walking" /\ UNCHANGED <<timeoutLock, faults>>
       \/ /\ Fault /\ walk' = "idle"
          /\ IF opts.protocol = "smb" THEN timeoutLock' = None ELSE UNCHANGED timeoutLock
    /\ UNCHANGED <<opts, nvrFiles, drains, share, tmp, upc, item>>

\* Mutant: the walk goes through the recordings as well.
WalkDeletesAll(files, recordings) ==
    /\ walk = "walking"
    /\ share' = [i \in Items |-> IF i \in files THEN "no" ELSE share[i]]
    /\ remote' = [s \in Segments |-> "no"]

WalkDeletes(files, recordings) ==
    /\ walk = "walking"
    /\ share' = [i \in Items |-> IF i \in files THEN "no" ELSE share[i]]
    /\ remote' = [s \in Segments |-> IF s \in recordings THEN "no" ELSE remote[s]]

\* Whatever of the event is old enough goes; a file being written is young.
WalkEnds ==
    /\ \E files \in SUBSET {i \in Items : \A u \in Uploaders : item[u] # i \/ upc[u] \in {"idle", "done"}} :
           WalkDeletes(files, {})
    /\ walk' = "idle"
    /\ IF opts.protocol = "smb" THEN timeoutLock' = None ELSE UNCHANGED timeoutLock
    /\ UNCHANGED <<opts, seg, staged, promoted, failedDir, old, drains, tmp, upc, item, sockTimeout, faults>>

-----------------------------------------------------------------------------
DrainStep(g) ==
    \/ Tick(g) \/ Sent(g) \/ Unlinked(g)
    \/ \E s \in Segments : _move_local(g, s) \/ OpenBoth(g, s)

UploadStep(u) == Starts(u) \/ Session(u) \/ Stat(u) \/ Sends(u) \/ Renames(u)

Next ==
    \/ \E s \in Segments : Writes(s) \/ Ages(s)
    \/ \E s \in Segments : _sync_nvr_cleanup_local(s) \/ _sync_nvr_cleanup_remote(s)
    \/ Unload \/ SetUp
    \/ \E g \in Loads : DrainStep(g)
    \/ \E u \in Uploaders : UploadStep(u)
    \/ WalkStarts \/ WalkSession \/ WalkEnds

Spec == Init /\ [][Next]_vars

\* Threads run on, the entry is set up again, transfers end one way or the
\* other; ffmpeg and the calendar may stop.
FairSpec == Spec /\ WF_vars(SetUp \/ \E g \in Loads : DrainStep(g))

-----------------------------------------------------------------------------
Kept(s) == s \in staged \cup promoted \cup failedDir \/ remote[s] = "whole"

\* A finished recording exists in one piece somewhere until its retention
\* is over: an upload that breaks off, a share that fails, the retry limit,
\* an unlink that does not work and the retention of the event files never
\* cost one.  The one exception is a file that two passes had open at the
\* same time, the thread of an unloaded coordinator and its successor's.
\* (sync_drain_tick, _upload_smb, _upload_ftp, sync_smb_cleanup)
NothingLost ==
    \A s \in Segments : seg[s] = "final" /\ s \notin old => Kept(s) \/ s \in contested

\* What stands under a clip's name on an SMB share is the whole clip, so
\* that the upload that finds it may skip it, whatever broke off before.
\* (_sync_smb_upload_events)
ClipUnderItsNameIsWhole == opts.protocol = "smb" => share["mp4"] # "part"

\* The process-wide socket timeout is in force during every SMB transfer:
\* no other upload and no retention walk takes it back under one's feet.
\* (sync_smb_upload, sync_smb_cleanup, _SOCKET_TIMEOUT_LOCK)
TransferIsBounded ==
    opts.protocol = "smb" =>
        \A u \in Uploaders : upc[u] \in {"stat", "sending", "rename"} => sockTimeout = 20

\* An SMB transfer is whole and ends.
UploadsAreSound == ClipUnderItsNameIsWhole /\ TransferIsBounded

\* A finished segment leaves the staging tree, by the drain, to _failed when
\* the target refuses it too often, or by the retention; reloads do not keep
\* it there.  (drain_staging_to_remote, sync_drain_tick)
StagingDrains ==
    \A s \in Segments :
        [](seg[s] = "final" => <>(s \notin staged \/ (~loaded /\ load = MaxLoads)))
=============================================================================
