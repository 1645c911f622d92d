----------------------------- MODULE RtspRelay -----------------------------
(***************************************************************************)
(* One recorder's connection through a front door (frigate_endpoint.py     *)
(* _Relay, CSeqCompensation; remote_viewing_front_door.py                  *)
(* _PathRewriteRelay): the Digest exchange on the first request, the 461   *)
(* that sends a UDP SETUP back over TCP, and the renumbering of CSeq that  *)
(* the swallowed request makes necessary on both sides.                    *)
(*                                                                         *)
(* A message is the request it stands for or answers and the CSeq it       *)
(* carries; the camera answers in order and rotates its credentials at any *)
(* moment.  Left out: RTP frames, bodies, framing (a message arrives       *)
(* whole), the URI a relay rewrites.                                       *)
(***************************************************************************)
EXTENDS Integers, Sequences

CONSTANTS
    MaxRequests,    \* bound: requests of the client
    Window,         \* requests a client has open at once
    MaxRotations    \* bound: credentials the camera replaces

VARIABLES
    digest,         \* the relay injects Digest; the path-rewriting one does not
    phase,          \* probe, resent, steady, ended
    sent,           \* the client's last request
    open,           \* requests it has no reply to
    atRelay,        \* requests on their way to the relay
    toCam, fromCam, \* messages between relay and camera
    swallowed,      \* _swallowed
    shifter,        \* delta of the _ReplyCSeqShifter, 0 while there is none
    creds, camCreds,\* what the relay took at connect, what the camera accepts
    camLast,        \* CSeq of the last request the camera has read
    heard           \* ghost: the last reply the client got, and whether it fits

vars == <<digest, phase, sent, open, atRelay, toCam, fromCam, swallowed, shifter, creds, camCreds, camLast, heard>>

Fits(id, cseq) == id = cseq /\ id \in open
fine == [fits |-> TRUE, status |-> 200]
Msg(id, cseq, auth) == [id |-> id, cseq |-> cseq, auth |-> auth]
Reply(id, cseq, status) == [id |-> id, cseq |-> cseq, status |-> status]

\* The front door reads the first request and hands it to the relay.
Init ==
    /\ digest \in BOOLEAN
    /\ creds = 0 /\ camCreds = 0
    /\ phase = IF digest THEN "probe" ELSE "steady"
    /\ sent = 1 /\ open = {1} /\ atRelay = <<>>
    /\ toCam = <<Msg(1, 1, FALSE)>> /\ fromCam = <<>>
    /\ swallowed = 0 /\ shifter = 0 /\ camLast = 0 /\ heard = fine

Client(id, cseq, status) ==
    /\ heard' = [fits |-> Fits(id, cseq), status |-> status]
    /\ open' = open \ {cseq}

Sends(udp) ==
    /\ phase # "ended" /\ sent < MaxRequests /\ Len(atRelay) + Len(toCam) + Len(fromCam) < Window
    /\ sent' = sent + 1 /\ open' = open \cup {sent + 1}
    /\ atRelay' = Append(atRelay, [id |-> sent + 1, udp |-> udp])
    /\ UNCHANGED <<digest, phase, toCam, fromCam, swallowed, shifter, creds, camCreds, camLast, heard>>

\* Mutant: the camera's side is right, the client's is not renumbered.
ShiftsRequests(cseq, delta) == IF delta > 0 THEN cseq ELSE cseq + delta

shift_cseq(cseq, delta) == cseq + delta

\* _drain_requests: a UDP-only SETUP is answered here, the rest goes on
\* under the number the camera expects.
_drain_requests ==
    /\ phase = "steady" /\ atRelay # <<>>
    /\ LET r == Head(atRelay)
       IN  IF r.udp
           THEN /\ swallowed' = swallowed + 1 /\ shifter' = swallowed + 1
                /\ Client(r.id, r.id, 461) /\ UNCHANGED toCam
           ELSE /\ toCam' = Append(toCam, Msg(r.id, shift_cseq(r.id, -swallowed), digest))
                /\ UNCHANGED <<swallowed, shifter, heard, open>>
    /\ atRelay' = Tail(atRelay)
    /\ UNCHANGED <<digest, phase, sent, fromCam, creds, camCreds, camLast>>

\* The camera wants Digest of LOCAL clients; the cloud's path is its own proof.
Camera ==
    /\ phase # "ended" /\ toCam # <<>>
    /\ LET m == Head(toCam)
           ok == ~digest \/ (m.auth /\ creds = camCreds)
       IN  /\ fromCam' = Append(fromCam, Reply(m.id, m.cseq, IF ok THEN 200 ELSE 401))
           /\ camLast' = m.cseq
    /\ toCam' = Tail(toCam)
    /\ UNCHANGED <<digest, phase, sent, open, atRelay, swallowed, shifter, creds, camCreds, heard>>

Rotates ==
    /\ digest /\ phase # "ended" /\ camCreds < MaxRotations
    /\ camCreds' = camCreds + 1
    /\ UNCHANGED <<digest, phase, sent, open, atRelay, toCam, fromCam, swallowed, shifter, creds, camLast, heard>>

\* The first 401 stays here and the request goes again with Digest.
_auth_dance ==
    /\ fromCam # <<>>
    /\ LET r == Head(fromCam)
       IN  \/ /\ phase = "probe" /\ r.status = 401 /\ phase' = "resent"
              /\ toCam' = Append(toCam, Msg(r.id, r.cseq, TRUE)) /\ UNCHANGED <<heard, open>>
           \/ /\ phase = "resent" /\ phase' = "steady"
              /\ Client(r.id, r.cseq, r.status) /\ UNCHANGED toCam
    /\ fromCam' = Tail(fromCam)
    /\ UNCHANGED <<digest, sent, atRelay, swallowed, shifter, creds, camCreds, camLast>>

_pipe_inner_to_client ==
    /\ phase = "steady" /\ fromCam # <<>>
    /\ LET r == Head(fromCam) IN Client(r.id, shift_cseq(r.cseq, shifter), r.status)
    /\ fromCam' = Tail(fromCam)
    /\ UNCHANGED <<digest, phase, sent, atRelay, toCam, swallowed, shifter, creds, camCreds, camLast>>

\* Either side hangs up: both sockets are closed.
Ends ==
    /\ phase # "ended" /\ phase' = "ended"
    /\ atRelay' = <<>> /\ toCam' = <<>> /\ fromCam' = <<>> /\ open' = {}
    /\ UNCHANGED <<digest, sent, swallowed, shifter, creds, camCreds, camLast, heard>>

Next ==
    \/ \E udp \in BOOLEAN : Sends(udp)
    \/ _drain_requests \/ Camera \/ Rotates \/ _auth_dance \/ _pipe_inner_to_client \/ Ends

Spec == Init /\ [][Next]_vars

-----------------------------------------------------------------------------
\* Every reply the client reads carries the CSeq of the request it answers
\* and of one still open, whatever was swallowed or sent twice.
\* (CSeqCompensation, _Relay._auth_dance)
RepliesMatch == heard.fits

\* The camera side sees a sequence without gaps: each request carries the
\* number of the one before or the next.  ("Keep the CSeq sequence the camera
\* side sees contiguous", frigate_endpoint.py:276)
CSeqContiguous ==
    [][camLast' # camLast => camLast' = camLast + 1]_vars
=============================================================================
