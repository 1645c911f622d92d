----------------------------- MODULE Snapshots -----------------------------
(***************************************************************************)
(* The picture of a camera: the frame its entity holds in memory, the copy *)
(* on disk that survives a restart, and everybody who replaces them.  A    *)
(* background refresh, a request of a card (which may ask for a small      *)
(* picture), and the alert of every event fetch a frame over several       *)
(* awaits and store it afterwards, while events happen, privacy is         *)
(* switched, a stream starts or ends and the cached frame grows old.       *)
(*                                                                         *)
(* A frame is an event's picture or a live one; n is the number of events  *)
(* the camera had had when it was taken; a small frame has less than the   *)
(* full resolution.                                                        *)
(***************************************************************************)
EXTENDS Naturals, Sequences

CONSTANTS MaxEvents,     \* bound: events of the camera
          MaxRefreshes,  \* bound: background refreshes
          MaxRequests,   \* bound: requests of a card
          MaxSwitches    \* bound: changes of the privacy state

Bounds == /\ MaxEvents \in Nat /\ MaxRefreshes \in Nat
          /\ MaxRequests \in Nat /\ MaxSwitches \in Nat

Events == 1 .. MaxEvents

VARIABLES cached,      \* the frame the entity holds
          fresh,       \* the cached frame is younger than its time to live
          disk,        \* the persisted frame
          saves,       \* frames waiting for the store's lock, oldest first
          handed,      \* the last frame handed to the store
          privacy,     \* what the integration knows of the privacy mode
          stream,      \* the live session: "off", "warming" or "on"
          local,       \* the session is on the LAN
          events,      \* how many events there were
          lock,        \* who holds the lock of the live fetch
          refresh,     \* the background refresh
          request,     \* the request of a card
          alerts,      \* the alert of each event
          left         \* what the bounds still allow

store == <<disk, saves, handed>>
world == <<privacy, stream, local, events>>
snapVars == <<cached, fresh, store, world, lock, refresh, request, alerts, left>>

Frames == [kind : {"none", "event", "live"}, n : 0 .. MaxEvents, small : BOOLEAN]
_PLACEHOLDER_JPEG == [kind |-> "none", n |-> 0, small |-> FALSE]
Live(small) == [kind |-> "live", n |-> events, small |-> small]
Picture(n) == [kind |-> "event", n |-> n, small |-> FALSE]

Idle == "idle"
NoRequest == [at |-> Idle, small |-> FALSE, first |-> FALSE, since |-> {}]
NoAlert == [at |-> Idle, private |-> FALSE, newer |-> FALSE]

TypeOK ==
  /\ cached \in Frames /\ disk \in Frames /\ handed \in Frames
  /\ saves \in Seq(Frames)
  /\ fresh \in BOOLEAN /\ local \in BOOLEAN
  /\ privacy \in {"on", "off", "unknown"}
  /\ stream \in {"off", "warming", "on"}
  /\ events \in 0 .. MaxEvents
  /\ lock \in {"none", "refresh", "request"}
  /\ refresh \in {Idle, "seed", "remote", "fetching", "local", "last"}
  /\ request \in [at : {Idle, "session", "thumb", "remote", "fetching", "local",
                        "last"},
                  small : BOOLEAN, first : BOOLEAN, since : SUBSET Events]
  /\ alerts \in [Events -> [at : {Idle, "loading", "done"}, private : BOOLEAN,
                            newer : BOOLEAN]]
  /\ left \in [refreshes : 0 .. MaxRefreshes, requests : 0 .. MaxRequests,
               switches : 0 .. MaxSwitches]

Init ==
  /\ cached = _PLACEHOLDER_JPEG /\ disk = cached /\ handed = cached
  /\ saves = <<>> /\ fresh = FALSE
  /\ privacy \in {"off", "unknown"} /\ stream = "off" /\ local \in BOOLEAN
  /\ events = 0 /\ lock = "none"
  /\ refresh = Idle /\ request = NoRequest
  /\ alerts = [e \in Events |-> NoAlert]
  /\ left = [refreshes |-> MaxRefreshes, requests |-> MaxRequests,
             switches |-> MaxSwitches]

\* The RTSP address is published.
is_streaming == stream = "on"
HasFrame == cached # _PLACEHOLDER_JPEG

(***************************************************************************)
(* Storing a frame.  Every store stamps a time, which an alert that is     *)
(* under way compares with its own start: since is the alerts that had     *)
(* begun by then.                                                          *)
(***************************************************************************)
Newer(since) ==
  /\ fresh' = TRUE
  /\ alerts' = [e \in Events |->
       [alerts[e] EXCEPT !.newer = alerts[e].at = "loading" /\ e \in since]]
Stored(frame) == cached' = frame /\ Newer(Events)
Kept == UNCHANGED <<cached, fresh, alerts>>

\* Mutant: the newest is written first.
SavesFirst(frame) ==
  /\ saves' = <<frame>> \o saves /\ handed' = frame
  /\ UNCHANGED disk

\* The frame is written to disk under the camera's lock, in the order in
\* which it was handed over.
save_snapshot(frame) ==
  /\ saves' = Append(saves, frame) /\ handed' = frame
  /\ UNCHANGED disk

_sync_save ==
  /\ saves # <<>>
  /\ disk' = Head(saves) /\ saves' = Tail(saves)
  /\ UNCHANGED <<cached, fresh, handed, world, lock, refresh, request,
                 alerts, left>>

(***************************************************************************)
(* A live fetch.  One at a time per camera has the lock; in privacy        *)
(* nothing is fetched.                                                     *)
(***************************************************************************)
TakesLock(who) ==
  /\ lock = "none"
  /\ lock' = IF privacy = "on" THEN "none" ELSE who
FetchStage == IF privacy = "on" THEN "local" ELSE "fetching"

(***************************************************************************)
(* Path A, the background refresh: a picture of the last event at once     *)
(* when there is no frame at all, then a live frame, over the cloud or on  *)
(* the LAN, and as a last resort the event's picture again.  What the      *)
(* privacy mode was on entry is looked at again before the frame is kept.  *)
(***************************************************************************)
RefreshEnds == refresh' = Idle /\ UNCHANGED <<request, left>>

async_trigger_image_refresh ==
  /\ refresh = Idle /\ left.refreshes > 0 /\ privacy # "on"
  /\ refresh' = IF HasFrame THEN IF is_streaming THEN Idle ELSE "remote" ELSE "seed"
  /\ left' = [left EXCEPT !.refreshes = @ - 1]
  /\ Kept
  /\ UNCHANGED <<store, world, lock, request>>

RefreshSeeds ==
  /\ refresh = "seed"
  /\ \/ events > 0 /\ Stored(Picture(events))
     \/ Kept
  /\ refresh' = IF is_streaming THEN Idle ELSE "remote"
  /\ UNCHANGED <<store, world, lock, request, left>>

RefreshFetches ==
  /\ refresh = "remote"
  /\ TakesLock("refresh")
  /\ refresh' = FetchStage
  /\ Kept
  /\ UNCHANGED <<store, world, request, left>>

\* The frame is kept, unless privacy was switched on meanwhile, and saved.
Keeps(frame) ==
  IF privacy = "on" THEN Kept /\ UNCHANGED store
  ELSE Stored(frame) /\ save_snapshot(frame)

\* A failure with a frame at hand only stamps the time, so that the next
\* try waits.
Stamped == Newer(Events) /\ UNCHANGED cached
NoImage ==
  /\ IF HasFrame THEN Stamped ELSE Kept
  /\ refresh' = IF HasFrame \/ is_streaming THEN Idle ELSE "last"
  /\ UNCHANGED <<store, request, left>>

RefreshFetched ==
  /\ refresh = "fetching"
  /\ lock' = "none"
  /\ \/ Keeps(Live(FALSE)) /\ RefreshEnds
     \/ stream = "warming" /\ NoImage
     \/ /\ stream # "warming" /\ refresh' = "local"
        /\ Kept /\ UNCHANGED <<store, request, left>>
  /\ UNCHANGED <<world>>

\* The connection on the LAN needs no lock.
RefreshLocal ==
  /\ refresh = "local"
  /\ \/ privacy # "on" /\ Keeps(Live(FALSE)) /\ RefreshEnds
     \/ NoImage
  /\ UNCHANGED <<world, lock>>

RefreshLast ==
  /\ refresh = "last"
  /\ \/ events > 0 /\ Keeps(Picture(events))
     \/ Kept /\ UNCHANGED store
  /\ RefreshEnds
  /\ UNCHANGED <<world, lock>>

(***************************************************************************)
(* A card asks for the picture, for a thumbnail perhaps (camera.py,        *)
(* _async_camera_image_impl).  In privacy it gets the last real frame.     *)
(* During a session the camera is asked for a picture of the wanted size   *)
(* and whatever it sends is cached; without one a frame younger than its   *)
(* time to live is served, else a new one is fetched, and only one of full *)
(* size is cached.                                                         *)
(***************************************************************************)
RequestEnds == request' = NoRequest /\ UNCHANGED <<refresh, left>>

Stale == ~fresh \/ privacy = "unknown"

\* Without a picture from a session: the time is taken here.  During a stream
\* no connection is opened, and a frame that is still fresh is served.
OnDemand(small) ==
  LET To(at) == [at |-> at, small |-> small, first |-> ~HasFrame,
                 since |-> {e \in Events : alerts[e].at = "loading"}]
  IN  CASE is_streaming /\ ~HasFrame -> To("last")
        [] ~is_streaming /\ Stale -> To("remote")
        [] OTHER -> NoRequest

async_camera_image ==
  /\ request.at = Idle /\ left.requests > 0 /\ privacy # "on"
  /\ \E small \in BOOLEAN :
       request' = IF stream = "off" THEN OnDemand(small)
                  ELSE IF stream = "warming" /\ local THEN NoRequest
                  ELSE [NoRequest EXCEPT !.at = "session", !.small = small]
  /\ left' = [left EXCEPT !.requests = @ - 1]
  /\ Kept
  /\ UNCHANGED <<store, world, lock, refresh>>

\* The answer of the session's picture address, or of the warm-up that
\* follows a timeout on the LAN, where nothing else is tried.
RequestFromSession ==
  /\ request.at = "session"
  /\ \/ Stored(Live(request.small)) /\ RequestEnds
     \/ local /\ Kept /\ RequestEnds
  /\ UNCHANGED <<store, world, lock>>

\* Over the cloud an error leads to the thumbnail the camera keeps, a refusal
\* to a renewal of the session, which is cleared when that fails.
RequestFromRelay ==
  /\ request.at = "session" /\ ~local
  /\ request' = [request EXCEPT !.at = "thumb"]
  /\ stream' \in {stream, "off"}
  /\ Kept
  /\ UNCHANGED <<store, privacy, local, events, lock, refresh, left>>

_async_rcp_thumbnail ==
  /\ request.at = "thumb"
  /\ \/ Stored(Live(TRUE)) /\ RequestEnds
     \/ /\ request' = OnDemand(request.small)
        /\ Kept /\ UNCHANGED <<refresh, left>>
  /\ UNCHANGED <<store, world, lock>>

RequestFetches ==
  /\ request.at = "remote"
  /\ TakesLock("request")
  /\ request' = [request EXCEPT !.at = FetchStage]
  /\ Kept
  /\ UNCHANGED <<store, world, refresh, left>>

\* Whether the frame goes to the cache.
Caches(small) == ~small

\* The stamp is the time at which the request had begun.
RequestStores(frame) ==
  /\ IF Caches(request.small) THEN cached' = frame /\ Newer(request.since) ELSE Kept
  /\ RequestEnds

RequestFetched ==
  /\ request.at = "fetching"
  /\ lock' = "none"
  /\ \/ RequestStores(Live(request.small))
     \/ /\ request' = [request EXCEPT !.at = "local"]
        /\ Kept /\ UNCHANGED <<refresh, left>>
  /\ UNCHANGED <<store, world>>

\* A failure stamps the time all the same; only a request that found no
\* frame goes on.
RequestLocal ==
  /\ request.at = "local"
  /\ \/ privacy # "on" /\ RequestStores(Live(request.small))
     \/ /\ IF Caches(request.small) THEN Newer(request.since) /\ UNCHANGED cached
           ELSE Kept
        /\ request' = IF request.first THEN [request EXCEPT !.at = "last"] ELSE NoRequest
        /\ UNCHANGED <<refresh, left>>
  /\ UNCHANGED <<store, world, lock>>

\* The budget of a request that has a frame to fall back on runs out.
RequestGivesUp ==
  /\ request.at \in {"remote", "fetching", "local"} /\ ~request.first
  /\ lock' = IF request.at = "fetching" THEN "none" ELSE lock
  /\ Kept /\ RequestEnds
  /\ UNCHANGED <<store, world>>

\* The camera itself while the cloud is out, then the frame somebody else
\* has stored, then the pictures of the events the last poll knew.
RequestLast ==
  /\ request.at = "last"
  /\ \/ /\ ~is_streaming /\ Caches(request.small)
        /\ Stored(Live(request.small)) /\ RequestEnds
     \/ /\ ~HasFrame
        /\ \E n \in 1 .. events : Stored(Picture(n))
        /\ RequestEnds
     \/ Kept /\ RequestEnds
  /\ UNCHANGED <<store, world, lock>>

(***************************************************************************)
(* Path B, the alert of an event: the privacy state and the time are taken *)
(* when the alert begins; when its picture has been downloaded it goes to  *)
(* the cache unless privacy was on at the start, a frame has been fetched  *)
(* since, or the same picture is there already.                            *)
(***************************************************************************)
AlertBegins(e) ==
  /\ e = events + 1 /\ events' = e
  /\ alerts' = [alerts EXCEPT ![e] = [at |-> "loading", newer |-> FALSE,
                                      private |-> privacy = "on"]]
  /\ UNCHANGED <<cached, fresh, store, privacy, stream, local, lock,
                 refresh, request, left>>

MayReplace(e) == ~alerts[e].private /\ ~alerts[e].newer /\ cached # Picture(e)

PathB(e) ==
  /\ alerts[e].at = "loading"
  /\ \/ /\ MayReplace(e)
        /\ cached' = Picture(e) /\ fresh' = TRUE
        /\ alerts' = [f \in Events |->
             IF f = e THEN [NoAlert EXCEPT !.at = "done"]
             ELSE [alerts[f] EXCEPT !.newer = alerts[f].at = "loading"]]
        /\ save_snapshot(Picture(e))
     \/ /\ alerts' = [alerts EXCEPT ![e] = [NoAlert EXCEPT !.at = "done"]]
        /\ UNCHANGED <<cached, fresh, store>>
  /\ UNCHANGED <<world, lock, refresh, request, left>>

(***************************************************************************)
(* Around it.                                                              *)
(***************************************************************************)
Environment ==
  \/ fresh /\ fresh' = FALSE /\ UNCHANGED <<world, left>>
  \/ /\ stream = "off" /\ privacy # "on" /\ stream' = "warming"
     /\ UNCHANGED <<fresh, privacy, local, events, left>>
  \/ /\ stream = "warming" /\ stream' = "on"
     /\ UNCHANGED <<fresh, privacy, local, events, left>>
  \/ /\ stream # "off" /\ stream' = "off"
     /\ UNCHANGED <<fresh, privacy, local, events, left>>
  \/ /\ left.switches > 0 /\ left' = [left EXCEPT !.switches = @ - 1]
     /\ privacy' = IF privacy = "off" THEN "on" ELSE "off"
     /\ stream' = IF privacy' = "on" THEN "off" ELSE stream
     /\ UNCHANGED <<fresh, local, events>>

World == Environment /\ UNCHANGED <<cached, store, lock, refresh, request, alerts>>

\* Home Assistant restarts: the entity begins with the persisted frame.
async_added_to_hass ==
  /\ left.switches > 0 /\ left' = [left EXCEPT !.switches = @ - 1]
  /\ cached' = disk /\ handed' = disk /\ fresh' = FALSE /\ saves' = <<>>
  /\ lock' = "none" /\ refresh' = Idle /\ request' = NoRequest
  /\ alerts' = [e \in Events |-> IF alerts[e].at = "loading"
                                 THEN [NoAlert EXCEPT !.at = "done"] ELSE alerts[e]]
  /\ stream' = "off" /\ privacy' = "unknown"
  /\ UNCHANGED <<disk, local, events>>

Refresh == \/ async_trigger_image_refresh \/ RefreshSeeds \/ RefreshFetches
           \/ RefreshFetched \/ RefreshLocal \/ RefreshLast
Request == \/ async_camera_image \/ RequestFromSession \/ _async_rcp_thumbnail
           \/ RequestFromRelay \/ RequestFetches \/ RequestFetched
           \/ RequestLocal \/ RequestGivesUp \/ RequestLast

Next == \/ Refresh \/ Request \/ _sync_save \/ World \/ async_added_to_hass
        \/ \E e \in Events : AlertBegins(e) \/ PathB(e)

Spec == Init /\ [][Next]_snapVars

(***************************************************************************)
(* Properties                                                              *)
(***************************************************************************)

\* What survives a restart is the last frame anybody handed to the store,
\* and it has the full resolution: two writers, a refresh and an alert, never
\* leave the older one on disk, and no thumbnail a card asked for gets there
\* (camera.py: the refresh saves the frame it fetched; snapshot_store.py:
\* the lock).
DiskCatchesUp ==
  /\ ~disk.small
  /\ saves = <<>> => disk = handed

\* The alert of an older event never puts its picture over that of a newer
\* one, however long its download took: the check of Path B (fcm.py) is there
\* for that.  A request of a card that fails winds the stamp back to the time
\* it began (camera.py) and so defeats it.
NeverBackToAnOlderEvent ==
  [][\A e \in Events :
       (alerts[e].at = "loading" /\ alerts'[e].at = "done" /\ cached' = Picture(e))
         => ~(cached.kind = "event" /\ cached.n > e)]_snapVars
=============================================================================
