---------------------------- MODULE PushMessages ----------------------------
(***************************************************************************)
(* The messages of the push listener (fcm.py, _QuietFcmPushClient): Google *)
(* keeps a message until it is acknowledged and sends it again on every    *)
(* new connection, so that one that cannot be read must neither come for   *)
(* ever nor bring down the client, while credentials that cannot read      *)
(* anything must.  The supervisor starts a client that went down again,    *)
(* with a new registration when several in a row had no push.              *)
(*                                                                         *)
(* The library itself (login, reset, acknowledgement, its monitor) is not  *)
(* in the repository: it is modelled from how fcm.py uses it.  Left out:   *)
(* the fallback to the library's own class, the other reasons of the       *)
(* supervisor (FcmSupervisor), what the push leads to (EventDispatch).     *)
(***************************************************************************)
EXTENDS Naturals, Sequences, SequencesExt

CONSTANTS MaxMessages,  \* bound: messages Bosch sends
          MaxResets,    \* bound: connections that break
          SoftMax       \* FCM_SUPERVISOR_SOFT_HEAL_MAX

Bounds == MaxMessages \in Nat /\ MaxResets \in Nat /\ SoftMax \in Nat \ {0}

Messages == 1 .. MaxMessages
\* A wake-up of Bosch, the notice that messages were deleted, one without a
\* key header, one whose header is no base64, and one whose key or text is
\* not what it should be.
Kinds == {"wakeup", "deleted", "headerless", "undecodable", "undecipherable"}

VARIABLES kinds,     \* the messages sent so far, in order
          queue,     \* those that Google keeps
          due,       \* those that it has still to send on this connection
          hand,      \* the message the listener has received, 0 for none
          received,  \* persistent_ids of the client
          listener,  \* "connecting", "listening", "resetting" or "dead"
          keys,      \* the stored credentials: "sound" or "corrupt"
          handed,    \* messages that reached _on_fcm_push
          pushed,    \* one did since the client was started
          streak,    \* soft_streak
          resets     \* connections that broke

google == <<kinds, queue>>
pushVars == <<google, due, hand, received, listener, keys, handed, pushed, streak, resets>>

TypeOK ==
  /\ kinds \in Seq(Kinds) /\ Len(kinds) <= MaxMessages
  /\ queue \in Seq(Messages) /\ due \in Seq(Messages)
  /\ hand \in {0} \cup Messages
  /\ received \subseteq Messages /\ handed \subseteq Messages
  /\ listener \in {"connecting", "listening", "resetting", "dead"}
  /\ keys \in {"sound", "corrupt"}
  /\ pushed \in BOOLEAN /\ streak \in 0 .. SoftMax /\ resets \in 0 .. MaxResets

Init ==
  /\ kinds = <<>> /\ queue = <<>> /\ due = <<>> /\ hand = 0
  /\ received = {} /\ handed = {}
  /\ listener = "connecting" /\ keys \in {"sound", "corrupt"}
  /\ pushed = FALSE /\ streak = 0 /\ resets = 0

\* Bosch sends a message; a client that listens gets it at once.
Sends(kind) ==
  LET m == Len(kinds) + 1
  IN  /\ Len(kinds) < MaxMessages
      /\ kinds' = Append(kinds, kind) /\ queue' = Append(queue, m)
      /\ due' = IF listener = "listening" THEN Append(due, m) ELSE due
      /\ UNCHANGED <<hand, received, listener, keys, handed, pushed, streak, resets>>

\* The login reports what the client has received; the rest is sent again.
_login ==
  /\ listener \in {"connecting", "resetting"} /\ listener' = "listening"
  /\ queue' = SelectSeq(queue, LAMBDA m : m \notin received)
  /\ due' = queue' /\ received' = {}
  /\ UNCHANGED <<kinds, hand, keys, handed, pushed, streak, resets>>

_receive_msg ==
  /\ listener = "listening" /\ hand = 0 /\ due # <<>>
  /\ hand' = Head(due) /\ due' = Tail(due)
  /\ UNCHANGED <<google, received, listener, keys, handed, pushed, streak, resets>>

(***************************************************************************)
(* Handling the message at hand.                                           *)
(***************************************************************************)
Kind == kinds[hand]

\* _app_data_by_key finds no key, the key is no base64, or, once the stored
\* credentials are loaded, it is no point of the curve or does not decrypt.
Unreadable == \/ Kind \in {"headerless", "undecodable"}
              \/ Kind = "undecipherable" /\ keys = "sound"

\* The credentials themselves cannot be loaded: not a fault of the message.
Hopeless == Kind \in {"wakeup", "undecipherable"} /\ keys = "corrupt"

\* The message is received: it is acknowledged, or the connection breaks
\* before that and the next login reports it.
Acknowledged ==
  \/ /\ queue' = Remove(queue, hand) /\ received' = received \cup {hand}
     /\ UNCHANGED <<listener, due, resets>>
  \/ /\ resets < MaxResets /\ resets' = resets + 1
     /\ listener' = "resetting" /\ due' = <<>>
     /\ received' = received \cup {hand} /\ UNCHANGED queue

\* The client shuts down; what it had received it forgets.
_terminate ==
  /\ listener' = "dead" /\ due' = <<>> /\ received' = {}
  /\ UNCHANGED <<queue, resets>>

\* Mutant: it is only passed over.
Ignores == UNCHANGED <<queue, received, listener, due, resets>>

\* A message that cannot be read counts as received all the same.  While the
\* connection is reset there is nothing to write the acknowledgement to.
_skip_and_ack ==
  IF listener = "listening" THEN Acknowledged
  ELSE received' = received \cup {hand} /\ UNCHANGED <<queue, listener, due, resets>>

\* The library acknowledges what was handled; without a connection that is
\* an error nobody expects.
Handled == IF listener = "listening" THEN Acknowledged ELSE _terminate

_handle_data_message ==
  /\ hand # 0 /\ hand' = 0
  /\ IF Kind = "wakeup" /\ ~Hopeless
     THEN handed' = handed \cup {hand} /\ pushed' = TRUE
     ELSE UNCHANGED <<handed, pushed>>
  /\ IF Hopeless THEN _terminate
     ELSE IF Unreadable THEN _skip_and_ack ELSE Handled
  /\ UNCHANGED <<kinds, keys, streak>>

\* The connection breaks, at a read or because the library's monitor resets
\* it while a message is at hand.
_reset ==
  /\ listener = "listening" /\ resets < MaxResets
  /\ listener' = "resetting" /\ due' = <<>> /\ resets' = resets + 1
  /\ UNCHANGED <<google, hand, received, keys, handed, pushed, streak>>

(***************************************************************************)
(* The supervisor finds the client not started, because it went down or is *)
(* in a reset: it makes a new one, or purges the credentials first, and    *)
(* then what Google kept for the old registration is gone.                 *)
(***************************************************************************)
NeedsHard == ~pushed /\ streak + 1 >= SoftMax

Restarts ==
  /\ listener \in {"dead", "resetting"} /\ listener' = "connecting"
  /\ pushed' = FALSE /\ hand' = 0 /\ received' = {}
  /\ IF NeedsHard
     THEN keys' = "sound" /\ queue' = <<>> /\ streak' = 0
     ELSE /\ streak' = IF pushed THEN 0 ELSE streak + 1
          /\ UNCHANGED <<keys, queue>>
  /\ UNCHANGED <<kinds, due, handed, resets>>

Listener == _login \/ _receive_msg \/ _handle_data_message
Next == \/ Listener \/ Restarts \/ _reset
        \/ \E kind \in Kinds : Sends(kind)

\* The connection comes back, the listener reads and the supervisor polls.
Fairness == WF_pushVars(Listener) /\ WF_pushVars(Restarts)
Spec == Init /\ [][Next]_pushVars /\ Fairness

(***************************************************************************)
(* Properties                                                              *)
(***************************************************************************)

\* Whatever is sent, in whatever order, and wherever the connection breaks,
\* Google keeps nothing for ever; and a wake-up it kept for a client with
\* sound credentials has been handed over when it is gone, also behind
\* messages that cannot be read: these cost no registration as long as the
\* connection breaks less often than SoftMax times without a push, and
\* corrupt credentials are not mistaken for bad messages (fcm.py
\* _skip_and_ack, _decode_credential_material).
PushesGetThrough ==
  /\ <>[](queue = <<>>)
  /\ [][\A m \in Range(queue) \ Range(queue') :
         keys = "sound" /\ kinds[m] = "wakeup" => m \in handed']_pushVars
=============================================================================
