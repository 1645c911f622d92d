---------------------------- MODULE ArchiveProof ----------------------------
(***************************************************************************)
(* Proofs of the safety of the archive, for any number of segments, upload *)
(* jobs, coordinators and retries: no finished recording is lost, and an   *)
(* SMB transfer is whole and bounded.                                      *)
(*                                                                         *)
(* Filed says where a segment is on its way, Transfers what a pass has in  *)
(* its hands, Serial that one job at a time holds the lock of the          *)
(* process-wide timeout.                                                   *)
(***************************************************************************)
EXTENDS Archive, TLAPS

-----------------------------------------------------------------------------
\* ------------------------------------------------------ the invariant

TypeFiles ==
    /\ seg \in [Segments -> {"none", "growing", "final"}]
    /\ staged \subseteq Segments /\ promoted \subseteq Segments /\ failedDir \subseteq Segments
    /\ remote \in [Segments -> {"no", "part", "whole"}]
    /\ old \subseteq Segments /\ contested \subseteq Segments
TypeLoads == load \in Loads /\ loaded \in BOOLEAN
TypePasses ==
    /\ spoiled \subseteq Loads
    /\ dpc \in [Loads -> {"idle", "next", "sending", "sent"}]
    /\ todo \in [Loads -> SUBSET Segments]
    /\ cur \in [Loads -> Segments \cup {None}]
TypeFailures == failures \in [Loads -> [Segments -> 0..MaxRetries]]
TypeUploads ==
    /\ share \in [Items -> {"no", "part", "whole"}] /\ tmp \in {"no", "part", "whole"}
    /\ upc \in [Uploaders -> UploadStates] /\ item \in [Uploaders -> Items]
    /\ walk \in {"idle", "session", "walking"}
    /\ timeoutLock \in Uploaders \cup {None, "walk"}
    /\ sockTimeout \in {0, 10, 20}
TypeFaults == faults \in 0..opts.faults

\* A segment that grows is staged, and only finished ones are old.
Filed == /\ \A s \in Segments : seg[s] = "growing" => s \in staged
         /\ \A s \in old : seg[s] = "final"

\* A pass has a segment in its hands while it transfers, and looks at finished ones only.
InHand == \A g \in Loads :
    /\ cur[g] # None <=> dpc[g] \in {"sending", "sent"}
    /\ cur[g] # None => seg[cur[g]] = "final"
    /\ \A s \in todo[g] : seg[s] = "final"

\* Two passes with one segment in their hands are known to contest it, and so is a target
\* that one pass cut under the other.
Contests ==
    /\ \A g, h \in Loads : g # h /\ cur[g] = cur[h] /\ cur[g] # None => cur[g] \in contested
    /\ \A g \in spoiled : cur[g] # None => cur[g] \in contested

\* What was sent is whole on the share, unless it is contested.
SentIsWhole == \A g \in Loads :
    dpc[g] = "sent" => remote[cur[g]] = "whole" \/ cur[g] \in contested

Transfers == InHand /\ Contests /\ SentIsWhole

\* With SMB the upload that goes on, or the walk, holds the lock of the timeout, and no other.
Serial == opts.protocol = "smb" =>
    /\ \A u \in Uploaders : upc[u] \in {"session", "stat", "sending", "rename"} => timeoutLock = u
    /\ walk # "idle" => timeoutLock = "walk"

\* What is renamed is the whole clip.
ClipIsWhole == opts.protocol = "smb" =>
    \A u \in Uploaders : upc[u] = "rename" => tmp = "whole"

Uploads == Serial /\ ClipIsWhole /\ UploadsAreSound
IInv == TypeOK /\ Filed /\ Transfers /\ NothingLost /\ Uploads

-----------------------------------------------------------------------------
\* ------------------------------------------------------ types

\* A count is set to no more than the retries there are.
LEMMA CountTyped ==
  ASSUME TypeFailures, NEW g \in Loads, NEW s \in Segments, NEW n \in 0..MaxRetries, Counts(g, s, n)
  PROVE  TypeFailures'
BY ArchiveAssumption DEF TypeFailures, Counts, NoFailures

\* The files.
LEMMA FilesTyped ==
  ASSUME TypeFiles, TypePasses, [Next]_vars
  PROVE  TypeFiles'
<1>. USE DEF nvrFiles, drains, events
<1>1. ASSUME NEW s \in Segments, Writes(s)
      PROVE  TypeFiles'
  BY <1>1 DEF Writes, TypeFiles, TypePasses
<1>2. ASSUME NEW s \in Segments, Ages(s)
      PROVE  TypeFiles'
  BY <1>2 DEF Ages, TypeFiles, TypePasses
<1>3. ASSUME NEW s \in Segments, _sync_nvr_cleanup_local(s)
      PROVE  TypeFiles'
  BY <1>3 DEF _sync_nvr_cleanup_local, TypeFiles, TypePasses
<1>4. ASSUME NEW s \in Segments, _sync_nvr_cleanup_remote(s)
      PROVE  TypeFiles'
  BY <1>4 DEF _sync_nvr_cleanup_remote, TypeFiles, TypePasses
<1>5. ASSUME NEW g \in Loads, Sent(g)
      PROVE  TypeFiles'
  BY <1>5 DEF Sent, Passed, Counts, Drained, Failed, _quarantine_failed, Fault, TypeFiles,
     TypePasses
<1>6. ASSUME NEW g \in Loads, Unlinked(g)
      PROVE  TypeFiles'
  BY <1>6 DEF Unlinked, Passed, Counts, Drained, Failed, _quarantine_failed, Fault,
     TypeFiles, TypePasses
<1>7. ASSUME NEW g \in Loads, NEW s \in Segments, _move_local(g, s)
      PROVE  TypeFiles'
  BY <1>7 DEF _move_local, Passed, Counts, Drained, Failed, _quarantine_failed, Fault,
     TypeFiles, TypePasses
<1>8. ASSUME NEW g \in Loads, NEW s \in Segments, OpenBoth(g, s)
      PROVE  TypeFiles'
  BY <1>8 DEF OpenBoth, Passed, Counts, Drained, Failed, _quarantine_failed, Fault,
     TypeFiles, TypePasses
<1>9. CASE WalkEnds
  BY <1>9 DEF WalkEnds, WalkDeletes, TypeFiles, TypePasses
<1>10. CASE \/ Unload \/ SetUp \/ (\E g \in Loads : Tick(g))
            \/ (\E u \in Uploaders : Starts(u)) \/ (\E u \in Uploaders : Session(u))
            \/ (\E u \in Uploaders : Stat(u)) \/ (\E u \in Uploaders : Sends(u))
            \/ (\E u \in Uploaders : Renames(u)) \/ WalkStarts \/ WalkSession
            \/ UNCHANGED vars
  <2>1. UNCHANGED <<contested, failedDir, old, promoted, remote, seg, staged>>
    BY <1>10 DEF Unload, SetUp, Tick, _is_segment_finalized, Starts, TimeoutLockFree,
       Session, Fault, Stat, NextItem, _sync_smb_upload_events, Sends, Renames, WalkStarts,
       WalkSession, vars
  <2>. QED BY <2>1 DEF TypeFiles
<1>. QED BY <1>1, <1>2, <1>3, <1>4, <1>5, <1>6, <1>7, <1>8, <1>9, <1>10 DEF Next, DrainStep,
   UploadStep

\* The coordinators.
LEMMA LoadsTyped ==
  ASSUME TypeLoads, [Next]_vars
  PROVE  TypeLoads'
<1>. USE DEF nvrFiles, drains, events
<1>1. CASE Unload
  BY <1>1, ArchiveAssumption DEF Unload, TypeLoads, Loads
<1>2. CASE SetUp
  BY <1>2, ArchiveAssumption DEF SetUp, TypeLoads, Loads
<1>3. CASE \/ (\E s \in Segments : Writes(s)) \/ (\E s \in Segments : Ages(s))
           \/ (\E s \in Segments : _sync_nvr_cleanup_local(s))
           \/ (\E s \in Segments : _sync_nvr_cleanup_remote(s))
           \/ (\E g \in Loads : Tick(g)) \/ (\E g \in Loads : Sent(g))
           \/ (\E g \in Loads : Unlinked(g))
           \/ (\E g \in Loads, s \in Segments : _move_local(g, s))
           \/ (\E g \in Loads, s \in Segments : OpenBoth(g, s))
           \/ (\E u \in Uploaders : Starts(u)) \/ (\E u \in Uploaders : Session(u))
           \/ (\E u \in Uploaders : Stat(u)) \/ (\E u \in Uploaders : Sends(u))
           \/ (\E u \in Uploaders : Renames(u)) \/ WalkStarts \/ WalkSession \/ WalkEnds
           \/ UNCHANGED vars
  <2>1. UNCHANGED <<load, loaded>>
    BY <1>3, ZenonT(60) DEF Writes, Ages, _sync_nvr_cleanup_local, _sync_nvr_cleanup_remote, Tick,
       _is_segment_finalized, Sent, Passed, Counts, Drained, Failed, _quarantine_failed,
       Fault, Unlinked, _move_local, OpenBoth, Starts, TimeoutLockFree, Session, Stat,
       NextItem, _sync_smb_upload_events, Sends, Renames, WalkStarts, WalkSession, WalkEnds,
       WalkDeletes, vars
  <2>. QED BY <2>1 DEF TypeLoads, Loads
<1>. QED BY <1>1, <1>2, <1>3 DEF Next, DrainStep, UploadStep

\* The passes.
LEMMA PassesTyped ==
  ASSUME TypePasses, TypeFiles, [Next]_vars
  PROVE  TypePasses'
<1>. USE DEF nvrFiles, drains, events
<1>1. ASSUME NEW g \in Loads, Tick(g)
      PROVE  TypePasses'
  BY <1>1 DEF Tick, _is_segment_finalized, TypePasses, TypeFiles
<1>2. ASSUME NEW g \in Loads, Sent(g)
      PROVE  TypePasses'
  BY <1>2 DEF Sent, Passed, Counts, Drained, Failed, _quarantine_failed, Fault, TypePasses,
     TypeFiles
<1>3. ASSUME NEW g \in Loads, Unlinked(g)
      PROVE  TypePasses'
  BY <1>3 DEF Unlinked, Passed, Counts, Drained, Failed, _quarantine_failed, Fault,
     TypePasses, TypeFiles
<1>4. ASSUME NEW g \in Loads, NEW s \in Segments, _move_local(g, s)
      PROVE  TypePasses'
  BY <1>4 DEF _move_local, Passed, Counts, Drained, Failed, _quarantine_failed, Fault,
     TypePasses, TypeFiles
<1>5. ASSUME NEW g \in Loads, NEW s \in Segments, OpenBoth(g, s)
      PROVE  TypePasses'
  BY <1>5 DEF OpenBoth, Passed, Counts, Drained, Failed, _quarantine_failed, Fault,
     TypePasses, TypeFiles
<1>6. CASE \/ (\E s \in Segments : Writes(s)) \/ (\E s \in Segments : Ages(s))
           \/ (\E s \in Segments : _sync_nvr_cleanup_local(s))
           \/ (\E s \in Segments : _sync_nvr_cleanup_remote(s)) \/ Unload \/ SetUp
           \/ (\E u \in Uploaders : Starts(u)) \/ (\E u \in Uploaders : Session(u))
           \/ (\E u \in Uploaders : Stat(u)) \/ (\E u \in Uploaders : Sends(u))
           \/ (\E u \in Uploaders : Renames(u)) \/ WalkStarts \/ WalkSession \/ WalkEnds
           \/ UNCHANGED vars
  <2>1. UNCHANGED <<cur, dpc, spoiled, todo>>
    BY <1>6 DEF Writes, Ages, _sync_nvr_cleanup_local, _sync_nvr_cleanup_remote, Unload,
       SetUp, Starts, TimeoutLockFree, Session, Fault, Stat, NextItem,
       _sync_smb_upload_events, Sends, Renames, WalkStarts, WalkSession, WalkEnds,
       WalkDeletes, vars
  <2>. QED BY <2>1 DEF TypePasses
<1>. QED BY <1>1, <1>2, <1>3, <1>4, <1>5, <1>6 DEF Next, DrainStep, UploadStep

\* The counts of failures.
LEMMA FailuresTyped ==
  ASSUME TypePasses, TypeFailures, TypeLoads, InHand, [Next]_vars
  PROVE  TypeFailures'
<1>. USE DEF nvrFiles, drains, events
<1>1. CASE Unload
  BY <1>1, ArchiveAssumption, CountTyped DEF Unload, NoFailures, TypeFailures, TypePasses,
     TypeLoads
<1>2. ASSUME NEW g \in Loads, Sent(g)
      PROVE  TypeFailures'
  <2>1. cur[g] \in Segments
    BY <1>2 DEF Sent, InHand, TypePasses
  <2>2. failures' = failures \/ \E n \in 0..MaxRetries : Counts(g, cur[g], n)
    <3>1. failures[g][cur[g]] \in 0..MaxRetries
      BY <2>1 DEF TypeFailures
    <3>. QED BY <1>2, <3>1, ArchiveAssumption DEF Sent, Drained, Failed
  <2>. QED BY <2>1, <2>2, CountTyped DEF TypeFailures
<1>3. ASSUME NEW g \in Loads, Unlinked(g)
      PROVE  TypeFailures'
  <2>1. cur[g] \in Segments
    BY <1>3 DEF Unlinked, InHand, TypePasses
  <2>2. failures' = failures \/ \E n \in 0..MaxRetries : Counts(g, cur[g], n)
    <3>1. failures[g][cur[g]] \in 0..MaxRetries
      BY <2>1 DEF TypeFailures
    <3>. QED BY <1>3, <3>1, ArchiveAssumption DEF Unlinked, Drained, Failed
  <2>. QED BY <2>1, <2>2, CountTyped DEF TypeFailures
<1>4. ASSUME NEW g \in Loads, NEW s \in Segments, _move_local(g, s)
      PROVE  TypeFailures'
  BY <1>4, ArchiveAssumption, CountTyped DEF _move_local, Passed, Drained, Failed,
     _quarantine_failed, Fault, TypeFailures, TypePasses, TypeLoads
<1>5. ASSUME NEW g \in Loads, NEW s \in Segments, OpenBoth(g, s)
      PROVE  TypeFailures'
  BY <1>5, ArchiveAssumption, CountTyped DEF OpenBoth, Passed, Drained, Failed,
     _quarantine_failed, Fault, TypeFailures, TypePasses, TypeLoads
<1>6. CASE \/ (\E s \in Segments : Writes(s)) \/ (\E s \in Segments : Ages(s))
           \/ (\E s \in Segments : _sync_nvr_cleanup_local(s))
           \/ (\E s \in Segments : _sync_nvr_cleanup_remote(s)) \/ SetUp
           \/ (\E g \in Loads : Tick(g)) \/ (\E u \in Uploaders : Starts(u))
           \/ (\E u \in Uploaders : Session(u)) \/ (\E u \in Uploaders : Stat(u))
           \/ (\E u \in Uploaders : Sends(u)) \/ (\E u \in Uploaders : Renames(u))
           \/ WalkStarts \/ WalkSession \/ WalkEnds \/ UNCHANGED vars
  <2>1. UNCHANGED <<failures>>
    BY <1>6 DEF Writes, Ages, _sync_nvr_cleanup_local, _sync_nvr_cleanup_remote, SetUp,
       Tick, _is_segment_finalized, Starts, TimeoutLockFree, Session, Fault, Stat, NextItem,
       _sync_smb_upload_events, Sends, Renames, WalkStarts, WalkSession, WalkEnds,
       WalkDeletes, vars
  <2>. QED BY <2>1 DEF TypeFailures
<1>. QED BY <1>1, <1>2, <1>3, <1>4, <1>5, <1>6 DEF Next, DrainStep, UploadStep

\* The uploads and the walk.
LEMMA UploadsTyped ==
  ASSUME TypeUploads, opts \in Setups, [Next]_vars
  PROVE  TypeUploads'
<1>. USE DEF nvrFiles, drains, events
<1>1. ASSUME NEW u \in Uploaders, Starts(u)
      PROVE  TypeUploads'
  BY <1>1 DEF Starts, TimeoutLockFree, TypeUploads, UploadStates, Items
<1>2. ASSUME NEW u \in Uploaders, Session(u)
      PROVE  TypeUploads'
  BY <1>2 DEF Session, Fault, TypeUploads, UploadStates, Items
<1>3. ASSUME NEW u \in Uploaders, Stat(u)
      PROVE  TypeUploads'
  BY <1>3 DEF Stat, NextItem, _sync_smb_upload_events, TypeUploads, UploadStates, Items
<1>4. ASSUME NEW u \in Uploaders, Sends(u)
      PROVE  TypeUploads'
  BY <1>4 DEF Sends, NextItem, _sync_smb_upload_events, Fault, TypeUploads, UploadStates,
     Items
<1>5. ASSUME NEW u \in Uploaders, Renames(u)
      PROVE  TypeUploads'
  BY <1>5 DEF Renames, NextItem, Fault, TypeUploads, UploadStates, Items
<1>6. CASE WalkStarts
  BY <1>6 DEF WalkStarts, TimeoutLockFree, TypeUploads, UploadStates, Items
<1>7. CASE WalkSession
  BY <1>7 DEF WalkSession, Fault, TypeUploads, UploadStates, Items
<1>8. CASE WalkEnds
  BY <1>8 DEF WalkEnds, WalkDeletes, TypeUploads, UploadStates, Items
<1>9. CASE \/ (\E s \in Segments : Writes(s)) \/ (\E s \in Segments : Ages(s))
           \/ (\E s \in Segments : _sync_nvr_cleanup_local(s))
           \/ (\E s \in Segments : _sync_nvr_cleanup_remote(s)) \/ Unload \/ SetUp
           \/ (\E g \in Loads : Tick(g)) \/ (\E g \in Loads : Sent(g))
           \/ (\E g \in Loads : Unlinked(g))
           \/ (\E g \in Loads, s \in Segments : _move_local(g, s))
           \/ (\E g \in Loads, s \in Segments : OpenBoth(g, s)) \/ UNCHANGED vars
  <2>1. UNCHANGED <<item, share, sockTimeout, timeoutLock, tmp, upc, walk>>
    BY <1>9 DEF Writes, Ages, _sync_nvr_cleanup_local, _sync_nvr_cleanup_remote, Unload,
       SetUp, Tick, _is_segment_finalized, Sent, Passed, Counts, Drained, Failed,
       _quarantine_failed, Fault, Unlinked, _move_local, OpenBoth, vars
  <2>. QED BY <2>1 DEF TypeUploads, UploadStates, Items
<1>. QED BY <1>1, <1>2, <1>3, <1>4, <1>5, <1>6, <1>7, <1>8, <1>9 DEF Next, DrainStep,
   UploadStep

\* The faults.
LEMMA FaultsTyped ==
  ASSUME TypeFaults, opts \in Setups, [Next]_vars
  PROVE  (TypeFaults /\ opts \in Setups)'
<1>. USE DEF nvrFiles, drains, events
<1>1. ASSUME NEW g \in Loads, Sent(g)
      PROVE  (TypeFaults /\ opts \in Setups)'
  BY <1>1, ArchiveAssumption DEF Sent, Passed, Counts, Drained, Failed, _quarantine_failed,
     Fault, TypeFaults
<1>2. ASSUME NEW g \in Loads, Unlinked(g)
      PROVE  (TypeFaults /\ opts \in Setups)'
  BY <1>2, ArchiveAssumption DEF Unlinked, Passed, Counts, Drained, Failed,
     _quarantine_failed, Fault, TypeFaults
<1>3. ASSUME NEW g \in Loads, NEW s \in Segments, _move_local(g, s)
      PROVE  (TypeFaults /\ opts \in Setups)'
  BY <1>3, ArchiveAssumption DEF _move_local, Passed, Counts, Drained, Failed,
     _quarantine_failed, Fault, TypeFaults
<1>4. ASSUME NEW g \in Loads, NEW s \in Segments, OpenBoth(g, s)
      PROVE  (TypeFaults /\ opts \in Setups)'
  BY <1>4, ArchiveAssumption DEF OpenBoth, Passed, Counts, Drained, Failed,
     _quarantine_failed, Fault, TypeFaults
<1>5. ASSUME NEW u \in Uploaders, Session(u)
      PROVE  (TypeFaults /\ opts \in Setups)'
  BY <1>5, ArchiveAssumption DEF Session, Fault, TypeFaults
<1>6. ASSUME NEW u \in Uploaders, Sends(u)
      PROVE  (TypeFaults /\ opts \in Setups)'
  BY <1>6, ArchiveAssumption DEF Sends, NextItem, _sync_smb_upload_events, Fault, TypeFaults
<1>7. ASSUME NEW u \in Uploaders, Renames(u)
      PROVE  (TypeFaults /\ opts \in Setups)'
  BY <1>7, ArchiveAssumption DEF Renames, NextItem, Fault, TypeFaults
<1>8. CASE WalkSession
  BY <1>8, ArchiveAssumption DEF WalkSession, Fault, TypeFaults
<1>9. CASE \/ (\E s \in Segments : Writes(s)) \/ (\E s \in Segments : Ages(s))
           \/ (\E s \in Segments : _sync_nvr_cleanup_local(s))
           \/ (\E s \in Segments : _sync_nvr_cleanup_remote(s)) \/ Unload \/ SetUp
           \/ (\E g \in Loads : Tick(g)) \/ (\E u \in Uploaders : Starts(u))
           \/ (\E u \in Uploaders : Stat(u)) \/ WalkStarts \/ WalkEnds \/ UNCHANGED vars
  <2>1. UNCHANGED <<faults, opts>>
    BY <1>9 DEF Writes, Ages, _sync_nvr_cleanup_local, _sync_nvr_cleanup_remote, Unload,
       SetUp, Tick, _is_segment_finalized, Starts, TimeoutLockFree, Stat, NextItem,
       _sync_smb_upload_events, WalkStarts, WalkEnds, WalkDeletes, vars
  <2>. QED BY <2>1 DEF TypeFaults
<1>. QED BY <1>1, <1>2, <1>3, <1>4, <1>5, <1>6, <1>7, <1>8, <1>9 DEF Next, DrainStep,
   UploadStep

\* The type invariant is that of its parts.
LEMMA TypeParts ==
  TypeOK <=> /\ opts \in Setups /\ TypeFiles /\ TypeLoads /\ TypePasses /\ TypeFailures
             /\ TypeUploads /\ TypeFaults
BY DEF TypeOK, TypeFiles, TypeLoads, TypePasses, TypeFailures, TypeUploads, TypeFaults

\* A step keeps the types.
LEMMA TypeStep == TypeOK /\ InHand /\ [Next]_vars => TypeOK'
<1>. SUFFICES ASSUME TypeOK, InHand, [Next]_vars PROVE TypeOK'
  OBVIOUS
<1>1. /\ opts \in Setups /\ TypeFiles /\ TypeLoads /\ TypePasses /\ TypeFailures
      /\ TypeUploads /\ TypeFaults
  BY TypeParts
<1>2. TypeFiles' /\ TypeLoads' /\ TypePasses' /\ TypeFailures'
  BY <1>1, FilesTyped, LoadsTyped, PassesTyped, FailuresTyped
<1>3. TypeUploads' /\ TypeFaults' /\ opts' \in Setups
  BY <1>1, UploadsTyped, FaultsTyped
<1>. QED BY <1>2, <1>3 DEF TypeOK, TypeFiles, TypeLoads, TypePasses, TypeFailures, TypeUploads,
         TypeFaults

-----------------------------------------------------------------------------
\* ------------------------------------------------------ the recordings

\* Only a pass or the retention takes a segment from the staging tree, a finished one.
LEMMA FiledKept ==
  ASSUME TypeFiles, TypePasses, InHand, Filed, [Next]_vars
  PROVE  Filed'
<1>. USE DEF nvrFiles, drains, events
<1>1. ASSUME NEW s \in Segments, Writes(s)
      PROVE  Filed'
  BY <1>1 DEF Writes, Filed, InHand, TypeFiles, TypePasses
<1>2. ASSUME NEW s \in Segments, Ages(s)
      PROVE  Filed'
  BY <1>2 DEF Ages, Filed, InHand, TypeFiles, TypePasses
<1>3. ASSUME NEW s \in Segments, _sync_nvr_cleanup_local(s)
      PROVE  Filed'
  BY <1>3 DEF _sync_nvr_cleanup_local, Filed, InHand, TypeFiles, TypePasses
<1>4. ASSUME NEW g \in Loads, Sent(g)
      PROVE  Filed'
  BY <1>4 DEF Sent, Passed, Counts, Drained, Failed, _quarantine_failed, Fault, Filed,
     InHand, TypeFiles, TypePasses
<1>5. ASSUME NEW g \in Loads, Unlinked(g)
      PROVE  Filed'
  BY <1>5 DEF Unlinked, Passed, Counts, Drained, Failed, _quarantine_failed, Fault, Filed,
     InHand, TypeFiles, TypePasses
<1>6. ASSUME NEW g \in Loads, NEW s \in Segments, _move_local(g, s)
      PROVE  Filed'
  BY <1>6 DEF _move_local, Passed, Counts, Drained, Failed, _quarantine_failed, Fault,
     Filed, InHand, TypeFiles, TypePasses
<1>7. ASSUME NEW g \in Loads, NEW s \in Segments, OpenBoth(g, s)
      PROVE  Filed'
  BY <1>7 DEF OpenBoth, Passed, Counts, Drained, Failed, _quarantine_failed, Fault, Filed,
     InHand, TypeFiles, TypePasses
<1>8. CASE \/ (\E s \in Segments : _sync_nvr_cleanup_remote(s)) \/ Unload \/ SetUp
           \/ (\E g \in Loads : Tick(g)) \/ (\E u \in Uploaders : Starts(u))
           \/ (\E u \in Uploaders : Session(u)) \/ (\E u \in Uploaders : Stat(u))
           \/ (\E u \in Uploaders : Sends(u)) \/ (\E u \in Uploaders : Renames(u))
           \/ WalkStarts \/ WalkSession \/ WalkEnds \/ UNCHANGED vars
  <2>1. UNCHANGED <<old, seg, staged>>
    BY <1>8 DEF _sync_nvr_cleanup_remote, Unload, SetUp, Tick, _is_segment_finalized,
       Starts, TimeoutLockFree, Session, Fault, Stat, NextItem, _sync_smb_upload_events,
       Sends, Renames, WalkStarts, WalkSession, WalkEnds, WalkDeletes, vars
  <2>. QED BY <2>1 DEF Filed
<1>. QED BY <1>1, <1>2, <1>3, <1>4, <1>5, <1>6, <1>7, <1>8 DEF Next, DrainStep, UploadStep

\* A pass takes a segment in its hands and lets it go again.
LEMMA InHandKept ==
  ASSUME TypeFiles, TypePasses, InHand, [Next]_vars
  PROVE  InHand'
<1>. USE DEF nvrFiles, drains, events
<1>1. ASSUME NEW s \in Segments, Writes(s)
      PROVE  InHand'
  BY <1>1, ArchiveAssumption DEF Writes, InHand, TypeFiles, TypePasses
<1>2. ASSUME NEW g \in Loads, Tick(g)
      PROVE  InHand'
  BY <1>2, ArchiveAssumption DEF Tick, _is_segment_finalized, InHand, TypeFiles, TypePasses
<1>3. ASSUME NEW g \in Loads, Sent(g)
      PROVE  InHand'
  BY <1>3, ArchiveAssumption DEF Sent, Passed, Counts, Drained, Failed, _quarantine_failed,
     Fault, InHand, TypeFiles, TypePasses
<1>4. ASSUME NEW g \in Loads, Unlinked(g)
      PROVE  InHand'
  BY <1>4, ArchiveAssumption DEF Unlinked, Passed, Counts, Drained, Failed,
     _quarantine_failed, Fault, InHand, TypeFiles, TypePasses
<1>5. ASSUME NEW g \in Loads, NEW s \in Segments, _move_local(g, s)
      PROVE  InHand'
  BY <1>5, ArchiveAssumption DEF _move_local, Passed, Counts, Drained, Failed,
     _quarantine_failed, Fault, InHand, TypeFiles, TypePasses
<1>6. ASSUME NEW g \in Loads, NEW s \in Segments, OpenBoth(g, s)
      PROVE  InHand'
  BY <1>6, ArchiveAssumption DEF OpenBoth, Passed, Counts, Drained, Failed,
     _quarantine_failed, Fault, InHand, TypeFiles, TypePasses
<1>7. CASE \/ (\E s \in Segments : Ages(s))
           \/ (\E s \in Segments : _sync_nvr_cleanup_local(s))
           \/ (\E s \in Segments : _sync_nvr_cleanup_remote(s)) \/ Unload \/ SetUp
           \/ (\E u \in Uploaders : Starts(u)) \/ (\E u \in Uploaders : Session(u))
           \/ (\E u \in Uploaders : Stat(u)) \/ (\E u \in Uploaders : Sends(u))
           \/ (\E u \in Uploaders : Renames(u)) \/ WalkStarts \/ WalkSession \/ WalkEnds
           \/ UNCHANGED vars
  <2>1. UNCHANGED <<cur, dpc, seg, todo>>
    BY <1>7 DEF Ages, _sync_nvr_cleanup_local, _sync_nvr_cleanup_remote, Unload, SetUp,
       Starts, TimeoutLockFree, Session, Fault, Stat, NextItem, _sync_smb_upload_events,
       Sends, Renames, WalkStarts, WalkSession, WalkEnds, WalkDeletes, vars
  <2>. QED BY <2>1 DEF InHand
<1>. QED BY <1>1, <1>2, <1>3, <1>4, <1>5, <1>6, <1>7 DEF Next, DrainStep, UploadStep

\* Whoever opens what another has open contests it.
LEMMA ContestsKept ==
  ASSUME TypeFiles, TypePasses, InHand, Contests, [Next]_vars
  PROVE  Contests'
<1>. USE DEF nvrFiles, drains, events
<1>1. ASSUME NEW g \in Loads, Sent(g)
      PROVE  Contests'
  BY <1>1, ArchiveAssumption DEF Sent, Passed, Counts, Drained, Failed, _quarantine_failed,
     Fault, Contests, InHand, TypeFiles, TypePasses
<1>2. ASSUME NEW g \in Loads, Unlinked(g)
      PROVE  Contests'
  BY <1>2, ArchiveAssumption DEF Unlinked, Passed, Counts, Drained, Failed,
     _quarantine_failed, Fault, Contests, InHand, TypeFiles, TypePasses
<1>3. ASSUME NEW g \in Loads, NEW s \in Segments, _move_local(g, s)
      PROVE  Contests'
  BY <1>3, ArchiveAssumption DEF _move_local, Passed, Counts, Drained, Failed,
     _quarantine_failed, Fault, Contests, InHand, TypeFiles, TypePasses
<1>4. ASSUME NEW g \in Loads, NEW s \in Segments, OpenBoth(g, s)
      PROVE  Contests'
  BY <1>4, ArchiveAssumption DEF OpenBoth, Passed, Counts, Drained, Failed,
     _quarantine_failed, Fault, Contests, InHand, TypeFiles, TypePasses
<1>5. CASE \/ (\E s \in Segments : Writes(s)) \/ (\E s \in Segments : Ages(s))
           \/ (\E s \in Segments : _sync_nvr_cleanup_local(s))
           \/ (\E s \in Segments : _sync_nvr_cleanup_remote(s)) \/ Unload \/ SetUp
           \/ (\E g \in Loads : Tick(g)) \/ (\E u \in Uploaders : Starts(u))
           \/ (\E u \in Uploaders : Session(u)) \/ (\E u \in Uploaders : Stat(u))
           \/ (\E u \in Uploaders : Sends(u)) \/ (\E u \in Uploaders : Renames(u))
           \/ WalkStarts \/ WalkSession \/ WalkEnds \/ UNCHANGED vars
  <2>1. UNCHANGED <<contested, cur, spoiled>>
    BY <1>5 DEF Writes, Ages, _sync_nvr_cleanup_local, _sync_nvr_cleanup_remote, Unload,
       SetUp, Tick, _is_segment_finalized, Starts, TimeoutLockFree, Session, Fault, Stat,
       NextItem, _sync_smb_upload_events, Sends, Renames, WalkStarts, WalkSession, WalkEnds,
       WalkDeletes, vars
  <2>. QED BY <2>1 DEF Contests
<1>. QED BY <1>1, <1>2, <1>3, <1>4, <1>5 DEF Next, DrainStep, UploadStep

\* What was sent stays, but for one who opens it again.
LEMMA SentKept ==
  ASSUME TypeFiles, TypePasses, InHand, Contests, SentIsWhole, [Next]_vars
  PROVE  SentIsWhole'
<1>. USE DEF nvrFiles, drains, events
<1>1. ASSUME NEW s \in Segments, _sync_nvr_cleanup_remote(s)
      PROVE  SentIsWhole'
  BY <1>1, ArchiveAssumption DEF _sync_nvr_cleanup_remote, SentIsWhole, Contests, InHand,
     TypeFiles, TypePasses
<1>2. ASSUME NEW g \in Loads, Tick(g)
      PROVE  SentIsWhole'
  BY <1>2, ArchiveAssumption DEF Tick, _is_segment_finalized, SentIsWhole, Contests, InHand,
     TypeFiles, TypePasses
<1>3. ASSUME NEW g \in Loads, Sent(g)
      PROVE  SentIsWhole'
  BY <1>3, ArchiveAssumption DEF Sent, Passed, Counts, Drained, Failed, _quarantine_failed,
     Fault, SentIsWhole, Contests, InHand, TypeFiles, TypePasses
<1>4. ASSUME NEW g \in Loads, Unlinked(g)
      PROVE  SentIsWhole'
  BY <1>4, ArchiveAssumption DEF Unlinked, Passed, Counts, Drained, Failed,
     _quarantine_failed, Fault, SentIsWhole, Contests, InHand, TypeFiles, TypePasses
<1>5. ASSUME NEW g \in Loads, NEW s \in Segments, _move_local(g, s)
      PROVE  SentIsWhole'
  BY <1>5, ArchiveAssumption DEF _move_local, Passed, Counts, Drained, Failed,
     _quarantine_failed, Fault, SentIsWhole, Contests, InHand, TypeFiles, TypePasses
<1>6. ASSUME NEW g \in Loads, NEW s \in Segments, OpenBoth(g, s)
      PROVE  SentIsWhole'
  BY <1>6, ArchiveAssumption DEF OpenBoth, Passed, Counts, Drained, Failed,
     _quarantine_failed, Fault, SentIsWhole, Contests, InHand, TypeFiles, TypePasses
<1>7. CASE WalkEnds
  BY <1>7, ArchiveAssumption DEF WalkEnds, WalkDeletes, SentIsWhole, Contests, InHand,
     TypeFiles, TypePasses
<1>8. CASE \/ (\E s \in Segments : Writes(s)) \/ (\E s \in Segments : Ages(s))
           \/ (\E s \in Segments : _sync_nvr_cleanup_local(s)) \/ Unload \/ SetUp
           \/ (\E u \in Uploaders : Starts(u)) \/ (\E u \in Uploaders : Session(u))
           \/ (\E u \in Uploaders : Stat(u)) \/ (\E u \in Uploaders : Sends(u))
           \/ (\E u \in Uploaders : Renames(u)) \/ WalkStarts \/ WalkSession
           \/ UNCHANGED vars
  <2>1. UNCHANGED <<contested, cur, dpc, remote>>
    BY <1>8 DEF Writes, Ages, _sync_nvr_cleanup_local, Unload, SetUp, Starts,
       TimeoutLockFree, Session, Fault, Stat, NextItem, _sync_smb_upload_events, Sends,
       Renames, WalkStarts, WalkSession, vars
  <2>. QED BY <2>1 DEF SentIsWhole
<1>. QED BY <1>1, <1>2, <1>3, <1>4, <1>5, <1>6, <1>7, <1>8 DEF Next, DrainStep, UploadStep

\* No step costs a recording.
LEMMA LostKept ==
  ASSUME TypeFiles, TypePasses, Filed, InHand, SentIsWhole, NothingLost, [Next]_vars
  PROVE  NothingLost'
<1>. USE DEF nvrFiles, drains, events
<1>1. ASSUME NEW s \in Segments, Writes(s)
      PROVE  NothingLost'
  BY <1>1 DEF Writes, NothingLost, Kept, Filed, SentIsWhole, InHand, TypeFiles, TypePasses
<1>2. ASSUME NEW s \in Segments, Ages(s)
      PROVE  NothingLost'
  BY <1>2 DEF Ages, NothingLost, Kept, Filed, SentIsWhole, InHand, TypeFiles, TypePasses
<1>3. ASSUME NEW s \in Segments, _sync_nvr_cleanup_local(s)
      PROVE  NothingLost'
  BY <1>3 DEF _sync_nvr_cleanup_local, NothingLost, Kept, Filed, SentIsWhole, InHand,
     TypeFiles, TypePasses
<1>4. ASSUME NEW s \in Segments, _sync_nvr_cleanup_remote(s)
      PROVE  NothingLost'
  BY <1>4 DEF _sync_nvr_cleanup_remote, NothingLost, Kept, Filed, SentIsWhole, InHand,
     TypeFiles, TypePasses
<1>5. ASSUME NEW g \in Loads, Sent(g)
      PROVE  NothingLost'
  BY <1>5 DEF Sent, Passed, Counts, Drained, Failed, _quarantine_failed, Fault, NothingLost,
     Kept, Filed, SentIsWhole, InHand, TypeFiles, TypePasses
<1>6. ASSUME NEW g \in Loads, Unlinked(g)
      PROVE  NothingLost'
  BY <1>6 DEF Unlinked, Passed, Counts, Drained, Failed, _quarantine_failed, Fault,
     NothingLost, Kept, Filed, SentIsWhole, InHand, TypeFiles, TypePasses
<1>7. ASSUME NEW g \in Loads, NEW s \in Segments, _move_local(g, s)
      PROVE  NothingLost'
  BY <1>7 DEF _move_local, Passed, Counts, Drained, Failed, _quarantine_failed, Fault,
     NothingLost, Kept, Filed, SentIsWhole, InHand, TypeFiles, TypePasses
<1>8. ASSUME NEW g \in Loads, NEW s \in Segments, OpenBoth(g, s)
      PROVE  NothingLost'
  BY <1>8 DEF OpenBoth, Passed, Counts, Drained, Failed, _quarantine_failed, Fault,
     NothingLost, Kept, Filed, SentIsWhole, InHand, TypeFiles, TypePasses
<1>9. CASE WalkEnds
  BY <1>9 DEF WalkEnds, WalkDeletes, NothingLost, Kept, Filed, SentIsWhole, InHand,
     TypeFiles, TypePasses
<1>10. CASE \/ Unload \/ SetUp \/ (\E g \in Loads : Tick(g))
            \/ (\E u \in Uploaders : Starts(u)) \/ (\E u \in Uploaders : Session(u))
            \/ (\E u \in Uploaders : Stat(u)) \/ (\E u \in Uploaders : Sends(u))
            \/ (\E u \in Uploaders : Renames(u)) \/ WalkStarts \/ WalkSession
            \/ UNCHANGED vars
  <2>1. UNCHANGED <<contested, failedDir, old, promoted, remote, seg, staged>>
    BY <1>10 DEF Unload, SetUp, Tick, _is_segment_finalized, Starts, TimeoutLockFree,
       Session, Fault, Stat, NextItem, _sync_smb_upload_events, Sends, Renames, WalkStarts,
       WalkSession, vars
  <2>. QED BY <2>1 DEF NothingLost, Kept
<1>. QED BY <1>1, <1>2, <1>3, <1>4, <1>5, <1>6, <1>7, <1>8, <1>9, <1>10 DEF Next, DrainStep,
   UploadStep

-----------------------------------------------------------------------------
\* ------------------------------------------------------ the uploads

\* The lock goes from one to the next.
LEMMA SerialKept ==
  ASSUME TypeUploads, Serial, [Next]_vars
  PROVE  Serial'
<1>. USE DEF nvrFiles, drains, events
<1>1. ASSUME NEW u \in Uploaders, Starts(u)
      PROVE  Serial'
  BY <1>1, ArchiveAssumption DEF Starts, TimeoutLockFree, Serial, TypeUploads, UploadStates
<1>2. ASSUME NEW u \in Uploaders, Session(u)
      PROVE  Serial'
  BY <1>2, ArchiveAssumption DEF Session, Fault, Serial, TypeUploads, UploadStates
<1>3. ASSUME NEW u \in Uploaders, Stat(u)
      PROVE  Serial'
  BY <1>3, ArchiveAssumption DEF Stat, NextItem, _sync_smb_upload_events, Serial,
     TypeUploads, UploadStates
<1>4. ASSUME NEW u \in Uploaders, Sends(u)
      PROVE  Serial'
  BY <1>4, ArchiveAssumption DEF Sends, NextItem, _sync_smb_upload_events, Fault, Serial,
     TypeUploads, UploadStates
<1>5. ASSUME NEW u \in Uploaders, Renames(u)
      PROVE  Serial'
  BY <1>5, ArchiveAssumption DEF Renames, NextItem, Fault, Serial, TypeUploads, UploadStates
<1>6. CASE WalkStarts
  BY <1>6, ArchiveAssumption DEF WalkStarts, TimeoutLockFree, Serial, TypeUploads,
     UploadStates
<1>7. CASE WalkSession
  BY <1>7, ArchiveAssumption DEF WalkSession, Fault, Serial, TypeUploads, UploadStates
<1>8. CASE WalkEnds
  BY <1>8, ArchiveAssumption DEF WalkEnds, WalkDeletes, Serial, TypeUploads, UploadStates
<1>9. CASE \/ (\E s \in Segments : Writes(s)) \/ (\E s \in Segments : Ages(s))
           \/ (\E s \in Segments : _sync_nvr_cleanup_local(s))
           \/ (\E s \in Segments : _sync_nvr_cleanup_remote(s)) \/ Unload \/ SetUp
           \/ (\E g \in Loads : Tick(g)) \/ (\E g \in Loads : Sent(g))
           \/ (\E g \in Loads : Unlinked(g))
           \/ (\E g \in Loads, s \in Segments : _move_local(g, s))
           \/ (\E g \in Loads, s \in Segments : OpenBoth(g, s)) \/ UNCHANGED vars
  <2>1. UNCHANGED <<opts, timeoutLock, upc, walk>>
    BY <1>9 DEF Writes, Ages, _sync_nvr_cleanup_local, _sync_nvr_cleanup_remote, Unload,
       SetUp, Tick, _is_segment_finalized, Sent, Passed, Counts, Drained, Failed,
       _quarantine_failed, Fault, Unlinked, _move_local, OpenBoth, vars
  <2>. QED BY <2>1 DEF Serial
<1>. QED BY <1>1, <1>2, <1>3, <1>4, <1>5, <1>6, <1>7, <1>8, <1>9 DEF Next, DrainStep,
   UploadStep

\* The clip under its .part name is written by one at a time.
LEMMA ClipKept ==
  ASSUME TypeUploads, Serial, ClipIsWhole, [Next]_vars
  PROVE  ClipIsWhole'
<1>. USE DEF nvrFiles, drains, events
<1>1. ASSUME NEW u \in Uploaders, Starts(u)
      PROVE  ClipIsWhole'
  BY <1>1, ArchiveAssumption DEF Starts, TimeoutLockFree, ClipIsWhole, Serial, TypeUploads,
     UploadStates, Items
<1>2. ASSUME NEW u \in Uploaders, Session(u)
      PROVE  ClipIsWhole'
  BY <1>2, ArchiveAssumption DEF Session, Fault, ClipIsWhole, Serial, TypeUploads,
     UploadStates, Items
<1>3. ASSUME NEW u \in Uploaders, Stat(u)
      PROVE  ClipIsWhole'
  BY <1>3, ArchiveAssumption DEF Stat, NextItem, _sync_smb_upload_events, ClipIsWhole,
     Serial, TypeUploads, UploadStates, Items
<1>4. ASSUME NEW u \in Uploaders, Sends(u)
      PROVE  ClipIsWhole'
  BY <1>4, ArchiveAssumption DEF Sends, NextItem, _sync_smb_upload_events, Fault,
     ClipIsWhole, Serial, TypeUploads, UploadStates, Items
<1>5. ASSUME NEW u \in Uploaders, Renames(u)
      PROVE  ClipIsWhole'
  BY <1>5, ArchiveAssumption DEF Renames, NextItem, Fault, ClipIsWhole, Serial, TypeUploads,
     UploadStates, Items
<1>6. CASE \/ (\E s \in Segments : Writes(s)) \/ (\E s \in Segments : Ages(s))
           \/ (\E s \in Segments : _sync_nvr_cleanup_local(s))
           \/ (\E s \in Segments : _sync_nvr_cleanup_remote(s)) \/ Unload \/ SetUp
           \/ (\E g \in Loads : Tick(g)) \/ (\E g \in Loads : Sent(g))
           \/ (\E g \in Loads : Unlinked(g))
           \/ (\E g \in Loads, s \in Segments : _move_local(g, s))
           \/ (\E g \in Loads, s \in Segments : OpenBoth(g, s)) \/ WalkStarts \/ WalkSession
           \/ WalkEnds \/ UNCHANGED vars
  <2>1. UNCHANGED <<opts, tmp, upc>>
    BY <1>6 DEF Writes, Ages, _sync_nvr_cleanup_local, _sync_nvr_cleanup_remote, Unload,
       SetUp, Tick, _is_segment_finalized, Sent, Passed, Counts, Drained, Failed,
       _quarantine_failed, Fault, Unlinked, _move_local, OpenBoth, WalkStarts,
       TimeoutLockFree, WalkSession, WalkEnds, WalkDeletes, vars
  <2>. QED BY <2>1 DEF ClipIsWhole
<1>. QED BY <1>1, <1>2, <1>3, <1>4, <1>5, <1>6 DEF Next, DrainStep, UploadStep

\* The clip gets its name when it is whole, and the timeout holds as long as the lock.
LEMMA SoundKept ==
  ASSUME TypeUploads, Serial, ClipIsWhole, UploadsAreSound, [Next]_vars
  PROVE  UploadsAreSound'
<1>. USE DEF nvrFiles, drains, events
<1>1. ASSUME NEW u \in Uploaders, Starts(u)
      PROVE  UploadsAreSound'
  BY <1>1, ArchiveAssumption DEF Starts, TimeoutLockFree, UploadsAreSound,
     ClipUnderItsNameIsWhole, TransferIsBounded, ClipIsWhole, Serial, TypeUploads,
     UploadStates, Items
<1>2. ASSUME NEW u \in Uploaders, Session(u)
      PROVE  UploadsAreSound'
  BY <1>2, ArchiveAssumption DEF Session, Fault, UploadsAreSound, ClipUnderItsNameIsWhole,
     TransferIsBounded, ClipIsWhole, Serial, TypeUploads, UploadStates, Items
<1>3. ASSUME NEW u \in Uploaders, Stat(u)
      PROVE  UploadsAreSound'
  BY <1>3, ArchiveAssumption DEF Stat, NextItem, _sync_smb_upload_events, UploadsAreSound,
     ClipUnderItsNameIsWhole, TransferIsBounded, ClipIsWhole, Serial, TypeUploads,
     UploadStates, Items
<1>4. ASSUME NEW u \in Uploaders, Sends(u)
      PROVE  UploadsAreSound'
  BY <1>4, ArchiveAssumption DEF Sends, NextItem, _sync_smb_upload_events, Fault,
     UploadsAreSound, ClipUnderItsNameIsWhole, TransferIsBounded, ClipIsWhole, Serial,
     TypeUploads, UploadStates, Items
<1>5. ASSUME NEW u \in Uploaders, Renames(u)
      PROVE  UploadsAreSound'
  BY <1>5, ArchiveAssumption DEF Renames, NextItem, Fault, UploadsAreSound,
     ClipUnderItsNameIsWhole, TransferIsBounded, ClipIsWhole, Serial, TypeUploads,
     UploadStates, Items
<1>6. CASE WalkStarts
  BY <1>6, ArchiveAssumption DEF WalkStarts, TimeoutLockFree, UploadsAreSound,
     ClipUnderItsNameIsWhole, TransferIsBounded, ClipIsWhole, Serial, TypeUploads,
     UploadStates, Items
<1>7. CASE WalkSession
  BY <1>7, ArchiveAssumption DEF WalkSession, Fault, UploadsAreSound,
     ClipUnderItsNameIsWhole, TransferIsBounded, ClipIsWhole, Serial, TypeUploads,
     UploadStates, Items
<1>8. CASE WalkEnds
  BY <1>8, ArchiveAssumption DEF WalkEnds, WalkDeletes, UploadsAreSound,
     ClipUnderItsNameIsWhole, TransferIsBounded, ClipIsWhole, Serial, TypeUploads,
     UploadStates, Items
<1>9. CASE \/ (\E s \in Segments : Writes(s)) \/ (\E s \in Segments : Ages(s))
           \/ (\E s \in Segments : _sync_nvr_cleanup_local(s))
           \/ (\E s \in Segments : _sync_nvr_cleanup_remote(s)) \/ Unload \/ SetUp
           \/ (\E g \in Loads : Tick(g)) \/ (\E g \in Loads : Sent(g))
           \/ (\E g \in Loads : Unlinked(g))
           \/ (\E g \in Loads, s \in Segments : _move_local(g, s))
           \/ (\E g \in Loads, s \in Segments : OpenBoth(g, s)) \/ UNCHANGED vars
  <2>1. UNCHANGED <<item, opts, share, sockTimeout, upc>>
    BY <1>9 DEF Writes, Ages, _sync_nvr_cleanup_local, _sync_nvr_cleanup_remote, Unload,
       SetUp, Tick, _is_segment_finalized, Sent, Passed, Counts, Drained, Failed,
       _quarantine_failed, Fault, Unlinked, _move_local, OpenBoth, vars
  <2>. QED BY <2>1 DEF UploadsAreSound, ClipUnderItsNameIsWhole, TransferIsBounded
<1>. QED BY <1>1, <1>2, <1>3, <1>4, <1>5, <1>6, <1>7, <1>8, <1>9 DEF Next, DrainStep,
   UploadStep

-----------------------------------------------------------------------------
\* ------------------------------------------------------ the theorems

\* Nothing is written at first.
LEMMA InitInv == Init => IInv
<1>. SUFFICES ASSUME Init PROVE IInv
  OBVIOUS
<1>1. TypeOK
  <2>1. TypeFiles /\ TypeLoads /\ TypePasses /\ TypeFailures
    BY ArchiveAssumption DEF Init, TypeFiles, TypeLoads, TypePasses, TypeFailures, NoFailures, Loads
  <2>2. TypeUploads
    BY DEF Init, TypeUploads, UploadStates, Items
  <2>3. opts \in Setups /\ TypeFaults
    BY ArchiveAssumption DEF Init, TypeFaults
  <2>. QED BY <2>1, <2>2, <2>3, TypeParts
<1>2. Filed /\ Transfers /\ NothingLost
  BY DEF Init, Filed, Transfers, InHand, Contests, SentIsWhole, NothingLost
<1>3. Uploads
  BY DEF Init, Uploads, Serial, ClipIsWhole, UploadsAreSound, ClipUnderItsNameIsWhole,
     TransferIsBounded, Items
<1>. QED BY <1>1, <1>2, <1>3 DEF IInv

\* A step keeps it all.
LEMMA StepInv == IInv /\ [Next]_vars => IInv'
<1>. SUFFICES ASSUME IInv, [Next]_vars PROVE IInv'
  OBVIOUS
<1>1. TypeOK'
  BY TypeStep DEF IInv, Transfers
<1>2. Filed' /\ Transfers' /\ NothingLost'
  BY TypeParts, FiledKept, InHandKept, ContestsKept, SentKept, LostKept DEF IInv, Transfers
<1>3. Uploads'
  BY TypeParts, SerialKept, ClipKept, SoundKept DEF IInv, Uploads
<1>. QED BY <1>1, <1>2, <1>3 DEF IInv

\* The variables keep their types, whatever threads run and whatever fails.
THEOREM TypeCorrect == Spec => []TypeOK
<1>1. IInv => TypeOK
  BY DEF IInv
<1>. QED BY <1>1, InitInv, StepInv, PTL DEF Spec

\* No finished recording is lost before its retention is over, but for one that two passes had
\* open at once (recorder.py sync_drain_tick, _upload_smb, _upload_ftp, smb.py sync_smb_cleanup).
THEOREM RecordingsAreKept == Spec => []NothingLost
<1>1. IInv => NothingLost
  BY DEF IInv
<1>. QED BY <1>1, InitInv, StepInv, PTL DEF Spec

\* What stands under a clip's name on an SMB share is the whole clip, and every SMB transfer has
\* the socket timeout (smb.py sync_smb_upload, sync_smb_cleanup, _SOCKET_TIMEOUT_LOCK).
THEOREM TransfersAreSound == Spec => []UploadsAreSound
<1>1. IInv => UploadsAreSound
  BY DEF IInv, Uploads
<1>. QED BY <1>1, InitInv, StepInv, PTL DEF Spec

=============================================================================
