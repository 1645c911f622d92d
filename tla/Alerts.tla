------------------------------- MODULE Alerts -------------------------------
(***************************************************************************)
(* Delivery of the alert of an event (fcm.py, async_send_alert).  Every    *)
(* new event of a camera gets a task of its own: an instant text, then the *)
(* picture, then the clip, then the read mark, the uploads and, half a     *)
(* minute later, the removal of the files it put under www/bosch_alerts,   *)
(* which Home Assistant serves to anybody.  The tasks of two events run    *)
(* side by side for up to two minutes while Bosch publishes pictures and   *)
(* clips at its own pace; an unload cuts them wherever they stand.         *)
(*                                                                         *)
(* Events are numbered in the order they happen, an address is the number  *)
(* of the event it belongs to, 0 when there is none.  Deciding which event *)
(* is new is EventDispatch; the picture's way into the camera's cache is   *)
(* Snapshots; the transfers themselves are Archive.                        *)
(***************************************************************************)
EXTENDS Naturals, FiniteSets

CONSTANTS NumEvents,   \* how many events the camera has
          Options,     \* the settings the run looks at
          Refetches,   \* asks for a missing picture (3 in the code)
          Polls        \* asks for the clip (9 in the code)

Bounds == NumEvents \in Nat /\ Refetches \in Nat \ {0} /\ Polls \in Nat \ {0}

Events == 1 .. NumEvents
Media == {"text", "shot", "video"}
OptionSet == [services : SUBSET Media, keep : BOOLEAN, upload : BOOLEAN]
OptionsKnown == Options \subseteq OptionSet

VARIABLES opts,      \* the settings
          latest,    \* the newest event of the cloud's list
          pictures,  \* the events whose picture is published
          clips,     \* the upload state of each clip
          task,      \* the alert of each event
          www,       \* the files served: <<event of the alert, medium>>
          got        \* what a user received: <<alert, medium, event shown>>

alertVars == <<opts, latest, pictures, clips, task, www, got>>

Steps == {"none", "text", "refetch", "download", "write", "shot", "probe",
          "poll", "clip", "clipwrite", "video", "upload", "cleanup",
          "done", "cut"}
NoTask == [at |-> "none", given |-> FALSE, trouble |-> FALSE, left |-> 0,
           url |-> 0, clip |-> 0, status |-> "pending", cleanup |-> {}]

TypeOK ==
  /\ opts \in Options
  /\ latest \in Events \cup {0}
  /\ pictures \subseteq Events
  /\ clips \in [Events -> {"pending", "done", "unavailable"}]
  /\ task \in [Events -> [at : Steps, given : BOOLEAN, trouble : BOOLEAN,
                          left : Nat, url : Events \cup {0},
                          clip : Events \cup {0},
                          status : {"pending", "done", "unavailable"},
                          cleanup : SUBSET Media]]
  /\ www \subseteq Events \X Media
  /\ got \subseteq Events \X Media \X (Events \cup {0})

Init ==
  /\ opts \in Options
  /\ latest = 0 /\ pictures = {} /\ www = {} /\ got = {}
  /\ clips = [e \in Events |-> "pending"]
  /\ task = [e \in Events |-> NoTask]

To(e, step) == task' = [task EXCEPT ![e].at = step]
Cloud == <<opts, latest, pictures, clips>>

(***************************************************************************)
(* Bosch: events happen, their pictures and clips follow when they are     *)
(* ready; a clip may also never come.                                      *)
(***************************************************************************)
PictureReady(e) ==
  /\ e <= latest /\ e \notin pictures
  /\ pictures' = pictures \cup {e}
  /\ UNCHANGED <<opts, latest, clips, task, www, got>>

ClipDecided(e) ==
  /\ e <= latest /\ clips[e] = "pending"
  /\ \E s \in {"done", "unavailable"} : clips' = [clips EXCEPT ![e] = s]
  /\ UNCHANGED <<opts, latest, pictures, task, www, got>>

\* The address the picture is loaded from decides the next step.
AfterAddress(url) == IF url # 0 THEN "download" ELSE "probe"

\* There is something to do: a text, a picture or a clip to send, a copy to
\* store, or news about the connection.
Wanted(trouble) == opts.services # {} \/ opts.upload \/ trouble

(***************************************************************************)
(* An event happens and its task begins.  What the push or the poll knew   *)
(* of the picture and of the clip is handed to it.                         *)
(***************************************************************************)
async_send_alert(e) ==
  /\ e = latest + 1 /\ latest' = e
  /\ \E trouble, given \in BOOLEAN :
       /\ trouble => ~given
       /\ pictures' = IF given THEN pictures \cup {e} ELSE pictures
       /\ task' = [task EXCEPT ![e] =
             [NoTask EXCEPT !.at = IF Wanted(trouble) THEN "text" ELSE "done",
                            !.given = given, !.trouble = trouble,
                            !.url = IF given THEN e ELSE 0]]
  /\ UNCHANGED <<opts, clips, www, got>>

\* A blocking call of the notify services of one kind of message.  It counts
\* as delivered when a configured service took it.
_notify_type(medium, delivered) == delivered => medium \in opts.services

\* Step 1, the text.  A connection alert ends here.
Text(e) ==
  /\ task[e].at = "text"
  /\ \E delivered \in BOOLEAN :
       /\ _notify_type("text", delivered)
       /\ got' = IF delivered THEN got \cup {<<e, "text", e>>} ELSE got
       /\ task' = [task EXCEPT
            ![e].left = Refetches,
            ![e].at = IF task[e].trouble THEN "done"
                      ELSE IF task[e].url # 0 THEN "download" ELSE "refetch"]
  /\ UNCHANGED <<opts, latest, pictures, clips, www>>

(***************************************************************************)
(* Step 2, the picture.  Without an address the list of the camera's       *)
(* events is read up to three times and its first entry is taken, with     *)
(* its clip: the newest event, which need not be this alert's.             *)
(***************************************************************************)
Listed(e, n) == [task[e] EXCEPT
  !.url = IF n \in pictures THEN n ELSE 0,
  !.clip = IF clips[n] = "done" THEN n ELSE @,
  !.status = clips[n]]

Refetch(e) ==
  /\ task[e].at = "refetch" /\ task[e].left > 0
  /\ \E answered \in BOOLEAN :
       LET seen == IF answered THEN Listed(e, latest) ELSE task[e]
       IN  task' = [task EXCEPT ![e] =
             [seen EXCEPT !.left = @ - 1,
                          !.at = IF seen.url # 0 /\ answered THEN "download"
                                 ELSE "refetch"]]
  /\ UNCHANGED <<Cloud, www, got>>

GiveUpPicture(e) ==
  /\ task[e].at = "refetch" /\ task[e].left = 0
  /\ To(e, AfterAddress(task[e].url))
  /\ UNCHANGED <<Cloud, www, got>>

Download(e) ==
  /\ task[e].at = "download"
  /\ \E ok \in BOOLEAN : To(e, IF ok THEN "write" ELSE "probe")
  /\ UNCHANGED <<Cloud, www, got>>

\* Mutant: only a picture is put on the list.
RegisteredShot(cleanup, medium) ==
  IF opts.keep \/ medium # "shot" THEN cleanup ELSE cleanup \cup {medium}

\* A file goes under www and, unless the user keeps the files, on the list
\* of those to remove; a write that fails half way may leave a file, which
\* is put on the list too.
Registered(cleanup, medium) == IF opts.keep THEN cleanup ELSE cleanup \cup {medium}

Written(e, medium, next, failed) ==
  \E ok, partial \in BOOLEAN :
    /\ ok => ~partial
    /\ www' = IF ok \/ partial THEN www \cup {<<e, medium>>} ELSE www
    /\ task' = [task EXCEPT
         ![e].at = IF ok THEN next ELSE failed,
         ![e].cleanup = IF ok \/ partial THEN Registered(@, medium) ELSE @]

_write_file(e) ==
  /\ task[e].at = "write"
  /\ Written(e, "shot", "shot", "probe")
  /\ UNCHANGED <<Cloud, got>>

\* The description by the AI has its own twenty seconds and cannot keep the
\* picture from being sent.
Screenshot(e) ==
  /\ task[e].at = "shot"
  /\ \E delivered \in BOOLEAN :
       /\ _notify_type("shot", delivered)
       /\ got' = IF delivered THEN got \cup {<<e, "shot", task[e].url>>} ELSE got
  /\ To(e, "probe")
  /\ UNCHANGED <<opts, latest, pictures, clips, www>>

(***************************************************************************)
(* Step 3, the clip.  An address known to be ready is used as it is; else  *)
(* the clip is asked for by the event's id, and unless it was unavailable  *)
(* from the start the list is polled for this event's entry.               *)
(***************************************************************************)
Found(e) == IF task[e].status = "done" THEN task[e].clip ELSE 0

\* Where a task without a clip goes.
WithoutClip(e) == IF task[e].status = "unavailable" THEN "upload" ELSE "poll"

Probe(e) ==
  /\ task[e].at = "probe"
  /\ \E ok \in BOOLEAN :
       LET clip == IF Found(e) # 0 THEN Found(e) ELSE IF ok THEN e ELSE 0
       IN  /\ ok => clips[e] = "done"
           /\ task' = [task EXCEPT ![e].clip = clip, ![e].left = Polls,
                 ![e].at = IF clip # 0 THEN "clip" ELSE WithoutClip(e)]
  /\ UNCHANGED <<Cloud, www, got>>

\* Mutant: the newest one.
NewestEntry(e) == latest

\* The entry of the list that the poll looks at: the alert's own.
Entry(e) == e

Poll(e) ==
  /\ task[e].at = "poll"
  /\ \E answered \in BOOLEAN :
       LET ready == answered /\ clips[Entry(e)] = "done"
           over == answered /\ clips[Entry(e)] = "unavailable"
       IN  task' = [task EXCEPT
             ![e].clip = IF ready THEN Entry(e) ELSE @, ![e].left = @ - 1,
             ![e].at = IF ready THEN "clip"
                       ELSE IF over \/ task[e].left = 1 THEN "upload" ELSE "poll"]
  /\ UNCHANGED <<Cloud, www, got>>

\* The download fails, or exceeds the size the code accepts.
ClipLoaded(e) ==
  /\ task[e].at = "clip"
  /\ \E ok \in BOOLEAN : To(e, IF ok THEN "clipwrite" ELSE "upload")
  /\ UNCHANGED <<Cloud, www, got>>

_process_downloaded_clip(e) ==
  /\ task[e].at = "clipwrite"
  /\ Written(e, "video", "video", "upload")
  /\ UNCHANGED <<Cloud, got>>

Video(e) ==
  /\ task[e].at = "video"
  /\ \E delivered \in BOOLEAN :
       /\ _notify_type("video", delivered)
       /\ got' = IF delivered THEN got \cup {<<e, "video", task[e].clip>>} ELSE got
  /\ To(e, "upload")
  /\ UNCHANGED <<opts, latest, pictures, clips, www>>

(***************************************************************************)
(* The end: the read mark, the copies, the removal of the files.           *)
(***************************************************************************)
\* The read mark and the uploads, thirty seconds each, are waited for and
\* change nothing here.
Uploads(e) ==
  /\ task[e].at = "upload"
  /\ task' = [task EXCEPT ![e] = [NoTask EXCEPT
        !.at = IF task[e].cleanup = {} THEN "done" ELSE "cleanup",
        !.given = task[e].given, !.cleanup = task[e].cleanup]]
  /\ UNCHANGED <<Cloud, www, got>>

Cleanup(e) ==
  /\ task[e].at = "cleanup"
  /\ www' = www \ {<<e, m>> : m \in task[e].cleanup}
  /\ To(e, "done")
  /\ UNCHANGED <<Cloud, got>>

\* The entry is unloaded: its tasks are cancelled where they wait.
Running(e) == task[e].at \notin {"none", "done", "cut"}

Unload ==
  /\ \E e \in Events : Running(e)
  /\ task' = [e \in Events |-> IF Running(e) THEN [task[e] EXCEPT !.at = "cut"]
                               ELSE task[e]]
  /\ UNCHANGED <<Cloud, www, got>>

Alert(e) ==
  \/ Text(e) \/ Refetch(e) \/ GiveUpPicture(e) \/ Download(e) \/ _write_file(e)
  \/ Screenshot(e) \/ Probe(e) \/ Poll(e) \/ ClipLoaded(e)
  \/ _process_downloaded_clip(e) \/ Video(e) \/ Uploads(e) \/ Cleanup(e)

Next == \/ \E e \in Events : PictureReady(e) \/ ClipDecided(e)
                             \/ async_send_alert(e) \/ Alert(e)
        \/ Unload

Spec == Init /\ [][Next]_alertVars

(***************************************************************************)
(* Properties                                                              *)
(***************************************************************************)

\* A user never gets the clip or the picture of another event with an alert
\* whose picture came with the event: whatever other events happen during
\* the two minutes, every later address is looked up by the event's id
\* (fcm.py: the clip's probe, the poll's match, the address kept from the
\* push).
MediaAreItsOwn ==
  \A g \in got : task[g[1]].given => g[3] = g[1]

\* Once its task has run to its end no file of an alert is served any more,
\* unless the user keeps them: not after a failed or half-done write, a
\* failed message, an upload that timed out (fcm.py: files_to_cleanup).
NoFileLeft ==
  \A f \in www : task[f[1]].at = "done" => opts.keep
=============================================================================
