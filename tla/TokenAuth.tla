------------------------------ MODULE TokenAuth ------------------------------
(***************************************************************************)
(* The bearer-token lifecycle of token_auth.py: several asyncio tasks that *)
(* got a 401 call ensure_valid_token, which serialises them on one         *)
(* asyncio.Lock and exchanges the refresh token at Keycloak, with retries, *)
(* an overall timeout, an outage back-off and an escalation to Home        *)
(* Assistant's reauth flow.                                                *)
(*                                                                         *)
(* Tokens are numbered in the order Keycloak issues them; 0 is the empty   *)
(* string.  A step is what the event loop runs between two awaits.         *)
(*                                                                         *)
(* Left out: _token_timeout_fail_count, which is only logged, and the      *)
(* observed_token=None path, which no caller takes.                        *)
(***************************************************************************)
EXTENDS Integers, Sequences, FiniteSets

CONSTANTS
    Callers,        \* tasks that may call ensure_valid_token
    TimedCallers,   \* those that do it inside an asyncio.timeout of their own
    Timer,          \* the task schedule_token_refresh starts
    MaxIssued,      \* bound: token pairs Keycloak issues
    MaxAmbiguous,   \* bound: unclassifiable answers of Keycloak
    MaxOutages,     \* bound: consecutive 5xx/429 answers
    MayLose         \* whether a reply Keycloak has sent may fail to arrive

ASSUME TokenAuthAssumption ==
    /\ TimedCallers \subseteq Callers
    /\ Timer \in Callers \ TimedCallers
    /\ MaxIssued \in Nat \ {0}
    /\ MaxAmbiguous \in Nat
    /\ MaxOutages \in Nat
    /\ MayLose \in BOOLEAN

None == "none"
ASSUME NoneIsNoCaller == None \notin Callers

MaxAttempts == 3      \* for attempt in range(3)
EscalateAfter == 3    \* _token_fail_count >= 3

\* min(60 * 2^(n-1), 600) seconds, in minutes.
Backoff(n) == CASE n = 1 -> 1 [] n = 2 -> 2 [] n = 3 -> 4
                [] n = 4 -> 8 [] OTHER -> 10

VARIABLES
    entry,          \* entry.data: the persisted pair
    mem,            \* _refreshed_token / _refreshed_refresh, 0 when unset
    owner,          \* holder of _token_refresh_lock
    waiters,        \* its FIFO of waiting tasks
    pc,             \* where each task is
    obs,            \* observed_token of each task
    outcome,        \* what its last ensure_valid_token returned or raised
    got,            \* the token it returned
    attempt,        \* the holder's loop index
    sent,           \* the refresh token the holder's POST carries
    reply,          \* what the holder's POST is answered
    failCount,      \* _token_fail_count
    outageCount,    \* auth_outage_count
    gateWait,       \* minutes until _auth_outage_next_retry_ts
    elapsed,        \* minutes since the holder read now_m
    armed,          \* token_refresh_handle is pending
    alertSent,      \* _token_alert_sent, and the token_expired issue with it
    issued,         \* Keycloak: number of the last pair it issued
    valid,          \* Keycloak: the refresh token it honours
    grantDead,      \* Keycloak: the offline session was revoked
    ambiguous       \* Keycloak: unclassifiable answers since the last success

store == <<entry, mem, armed, alertSent>>
lock == <<owner, waiters>>
tasks == <<pc, obs, outcome, got>>
exchange == <<attempt, sent, reply, elapsed>>
counters == <<failCount, outageCount, gateWait>>
keycloak == <<issued, valid, grantDead, ambiguous>>
vars == <<store, lock, tasks, exchange, counters, keycloak>>

Pair == [bearer : 0..MaxIssued, refresh : 0..MaxIssued]
NoPair == [bearer |-> 0, refresh |-> 0]
Answers == {"none", "tokens", "malformed", "refused", "outage", "other", "neterr"}
NoReply == [kind |-> "none", pair |-> NoPair]
Reply(k) == [kind |-> k, pair |-> NoPair]

\* The token property: memory first, then the config entry.
Token == IF mem.bearer # 0 THEN mem.bearer ELSE entry.bearer

\* The refresh token a locked refresh sends: the config entry first.
RefreshToken == IF entry.refresh # 0 THEN entry.refresh ELSE mem.refresh

Exchanging(c) == pc[c] \in {"post", "sleep"}

(***************************************************************************)
(* A fresh setup: the entry holds a bearer and, unless the user pasted a   *)
(* token by hand, a refresh token.                                         *)
(***************************************************************************)
Init ==
    /\ entry \in [bearer : {1}, refresh : {0, 1}]
    /\ mem = NoPair
    /\ owner = None /\ waiters = <<>>
    /\ pc = [c \in Callers |-> "idle"]
    /\ obs = [c \in Callers |-> 0]
    /\ outcome = [c \in Callers |-> None]
    /\ got = [c \in Callers |-> 0]
    /\ attempt = 0 /\ sent = 0 /\ reply = NoReply /\ elapsed = 0
    /\ failCount = 0 /\ outageCount = 0 /\ gateWait = 0
    /\ armed = TRUE /\ alertSent = FALSE
    /\ issued = 1 /\ valid = 1 /\ grantDead = FALSE /\ ambiguous = 0

-----------------------------------------------------------------------------
(* Tasks around the cloud API.                                             *)

\* A task reads coordinator.token and sends a request with it.
CallApi(c) ==
    /\ c # Timer /\ pc[c] = "idle"
    /\ pc' = [pc EXCEPT ![c] = "api"]
    /\ obs' = [obs EXCEPT ![c] = Token]
    /\ outcome' = [outcome EXCEPT ![c] = None]
    /\ got' = [got EXCEPT ![c] = 0]
    /\ UNCHANGED <<store, lock, exchange, counters, keycloak>>

\* The API accepts the token, or fails in a way that is not a 401.
ApiAnswers(c) ==
    /\ pc[c] = "api"
    /\ pc' = [pc EXCEPT ![c] = "idle"]
    /\ UNCHANGED <<store, lock, obs, outcome, got, exchange, counters, keycloak>>

\* The API answers 401: the task calls ensure_valid_token(token).
Unauthorized(c) ==
    /\ pc[c] = "api"
    /\ pc' = [pc EXCEPT ![c] = "queued"]
    /\ waiters' = Append(waiters, c)
    /\ UNCHANGED <<store, owner, obs, outcome, got, exchange, counters, keycloak>>

\* The proactive timer fires: _proactive_refresh passes the current token.
TimerFires ==
    /\ armed /\ pc[Timer] = "idle"
    /\ armed' = FALSE
    /\ pc' = [pc EXCEPT ![Timer] = "queued"]
    /\ obs' = [obs EXCEPT ![Timer] = Token]
    /\ outcome' = [outcome EXCEPT ![Timer] = None]
    /\ got' = [got EXCEPT ![Timer] = 0]
    /\ waiters' = Append(waiters, Timer)
    /\ UNCHANGED <<entry, mem, alertSent, owner, exchange, counters, keycloak>>

-----------------------------------------------------------------------------
(* _refresh_token_locked up to the first POST.                             *)

MyTurn(c) == pc[c] = "queued" /\ owner = None /\ waiters # <<>> /\ Head(waiters) = c

\* ensure_valid_token leaves with result r, and token t if it returns one.
Leaves(c, r, t) ==
    /\ pc' = [pc EXCEPT ![c] = "idle"]
    /\ outcome' = [outcome EXCEPT ![c] = r]
    /\ got' = [got EXCEPT ![c] = t]
    /\ UNCHANGED obs

LeavesAtOnce(c, r, t) ==
    /\ MyTurn(c)
    /\ waiters' = Tail(waiters)
    /\ Leaves(c, r, t)
    /\ UNCHANGED <<store, owner, exchange, counters, keycloak>>

\* Mutant: trust the JWT's exp claim instead of the caller's 401.
ReuseUnexpired(c) == LeavesAtOnce(c, "token", Token)

\* Another task refreshed while this one waited for the lock.
ReuseRefreshed(c) ==
    /\ obs[c] # Token
    /\ LeavesAtOnce(c, "token", Token)

GateOpen == ~(outageCount > 0 /\ gateWait > 0)

GateClosed(c) ==
    /\ obs[c] = Token
    /\ ~GateOpen
    /\ LeavesAtOnce(c, "retry", 0)

NoRefreshToken(c) ==
    /\ obs[c] = Token
    /\ GateOpen
    /\ RefreshToken = 0
    /\ LeavesAtOnce(c, "reauth", 0)

\* The first POST of the retry loop goes out, under the lock.
StartRefresh(c) ==
    /\ MyTurn(c)
    /\ obs[c] = Token
    /\ GateOpen
    /\ RefreshToken # 0
    /\ owner' = c /\ waiters' = Tail(waiters)
    /\ pc' = [pc EXCEPT ![c] = "post"]
    /\ attempt' = 0 /\ sent' = RefreshToken /\ reply' = NoReply /\ elapsed' = 0
    /\ UNCHANGED <<store, obs, outcome, got, counters, keycloak>>

-----------------------------------------------------------------------------
(* Keycloak and the network.                                               *)

PostPending == owner # None /\ pc[owner] = "post" /\ reply = NoReply

\* The refresh token is honoured; with rotation the old one is used up.
Issue ==
    /\ PostPending /\ ~grantDead /\ sent = valid /\ issued < MaxIssued
    /\ issued' = issued + 1
    /\ \E rotated \in BOOLEAN :
           valid' = IF rotated THEN issued + 1 ELSE valid
    /\ reply' = [kind |-> "tokens",
                 pair |-> [bearer |-> issued + 1, refresh |-> valid']]
    /\ UNCHANGED <<store, lock, tasks, attempt, sent, elapsed, counters,
                   grantDead, ambiguous>>

\* 400/401: the refresh token was already used, or the session was revoked.
Refuse ==
    /\ PostPending /\ (grantDead \/ sent # valid)
    /\ reply' = Reply("refused")
    /\ UNCHANGED <<store, lock, tasks, attempt, sent, elapsed, counters, keycloak>>

\* 5xx or 429.
AnswerOutage ==
    /\ PostPending /\ outageCount < MaxOutages
    /\ reply' = Reply("outage")
    /\ UNCHANGED <<store, lock, tasks, attempt, sent, elapsed, counters, keycloak>>

\* 200 without an access_token, or a status that proves nothing.
AnswerAmbiguously ==
    /\ PostPending /\ ambiguous < MaxAmbiguous
    /\ ambiguous' = ambiguous + 1
    /\ \E k \in {"malformed", "other"} : reply' = Reply(k)
    /\ UNCHANGED <<store, lock, tasks, attempt, sent, elapsed, counters,
                   issued, valid, grantDead>>

\* Timeout, DNS failure or reset: before Keycloak saw the POST or, when
\* replies may be lost, after it answered.
NetworkFails ==
    /\ owner # None /\ pc[owner] = "post"
    /\ reply = NoReply \/ (MayLose /\ reply.kind = "tokens")
    /\ reply' = Reply("neterr")
    /\ UNCHANGED <<store, lock, tasks, attempt, sent, elapsed, counters, keycloak>>

Revoke ==
    /\ ~grantDead
    /\ grantDead' = TRUE
    /\ UNCHANGED <<store, lock, tasks, exchange, counters, issued, valid, ambiguous>>

-----------------------------------------------------------------------------
(* The holder handles the answer.                                          *)

Holds(c, k) == owner = c /\ pc[c] = "post" /\ reply.kind = k

Release == owner' = None /\ attempt' = 0 /\ sent' = 0 /\ reply' = NoReply
           /\ elapsed' = 0 /\ UNCHANGED waiters

\* Mutant: the rotated refresh token is kept in memory only.
SuccessForgetsRotation(c) ==
    /\ Holds(c, "tokens")
    /\ mem' = reply.pair
    /\ entry' = [entry EXCEPT !.bearer = reply.pair.bearer]
    /\ armed' = TRUE /\ alertSent' = FALSE
    /\ failCount' = 0 /\ outageCount' = 0 /\ gateWait' = 0
    /\ ambiguous' = 0
    /\ Leaves(c, "token", reply.pair.bearer)
    /\ Release
    /\ UNCHANGED <<issued, valid, grantDead>>

\* _handle_successful_refresh: both tokens to memory and to the entry, the
\* timer armed, every failure counter and the outage gate cleared.
Success(c) ==
    /\ Holds(c, "tokens")
    /\ mem' = reply.pair
    /\ entry' = reply.pair
    /\ armed' = TRUE /\ alertSent' = FALSE
    /\ failCount' = 0 /\ outageCount' = 0 /\ gateWait' = 0
    /\ ambiguous' = 0
    /\ Leaves(c, "token", reply.pair.bearer)
    /\ Release
    /\ UNCHANGED <<issued, valid, grantDead>>

\* A failed attempt that is not the last: sleep 2 s, still under the lock.
SleepAndRetry(c) ==
    /\ Holds(c, "neterr") \/ Holds(c, "other")
    /\ attempt < MaxAttempts - 1
    /\ pc' = [pc EXCEPT ![c] = "sleep"]
    /\ reply' = NoReply
    /\ UNCHANGED <<store, lock, obs, outcome, got, attempt, sent, elapsed,
                   counters, keycloak>>

NextAttempt(c) ==
    /\ owner = c /\ pc[c] = "sleep"
    /\ pc' = [pc EXCEPT ![c] = "post"]
    /\ attempt' = attempt + 1
    /\ UNCHANGED <<store, lock, obs, outcome, got, sent, reply, elapsed,
                   counters, keycloak>>

\* Mutant: a network failure counts towards the escalation.
GivesUpTransientCounted(c) ==
    /\ Holds(c, "neterr") /\ attempt = MaxAttempts - 1
    /\ failCount' = failCount + 1
    /\ Leaves(c, IF failCount' >= EscalateAfter THEN "reauth" ELSE "retry", 0)
    /\ Release
    /\ UNCHANGED <<store, outageCount, gateWait, keycloak>>

\* The last attempt failed in the network: transient, whatever came before.
GivesUpTransient(c) ==
    /\ Holds(c, "neterr") /\ attempt = MaxAttempts - 1
    /\ Leaves(c, "retry", 0)
    /\ Release
    /\ UNCHANGED <<store, counters, keycloak>>

\* The loop ended on a real but useless answer: a step towards reauth.
GivesUpGenuine(c) ==
    /\ Holds(c, "malformed") \/ (Holds(c, "other") /\ attempt = MaxAttempts - 1)
    /\ failCount' = failCount + 1
    /\ Leaves(c, IF failCount' >= EscalateAfter THEN "reauth" ELSE "retry", 0)
    /\ Release
    /\ UNCHANGED <<store, outageCount, gateWait, keycloak>>

\* Mutant: the rejection escapes without releasing the lock.
InvalidGrantKeepsLock(c) ==
    /\ Holds(c, "refused")
    /\ Leaves(c, "reauth", 0)
    /\ reply' = NoReply
    /\ UNCHANGED <<store, lock, attempt, sent, elapsed, counters, keycloak>>

InvalidGrant(c) ==
    /\ Holds(c, "refused")
    /\ Leaves(c, "reauth", 0)
    /\ Release
    /\ UNCHANGED <<store, counters, keycloak>>

\* The gate is set from now_m, which was read before the first attempt.
Outage(c) ==
    /\ Holds(c, "outage")
    /\ outageCount' = outageCount + 1
    /\ gateWait' = Backoff(outageCount') - elapsed
    /\ Leaves(c, "retry", 0)
    /\ Release
    /\ UNCHANGED <<store, failCount, keycloak>>

\* A cancelled POST whose answer is under way loses that answer.
CanCancel == reply.kind = "tokens" => MayLose

\* asyncio.timeout(15) around the whole retry loop.
OverallTimeout(c) ==
    /\ owner = c /\ Exchanging(c) /\ CanCancel
    /\ Leaves(c, "retry", 0)
    /\ Release
    /\ UNCHANGED <<store, counters, keycloak>>

\* The caller's own timeout cancels it while it refreshes or waits.
CallerTimeout(c) ==
    /\ c \in TimedCallers
    /\ \/ /\ owner = c /\ Exchanging(c) /\ CanCancel
          /\ Release
       \/ /\ pc[c] = "queued"
          /\ \E i \in 1..Len(waiters) :
                /\ waiters[i] = c
                /\ waiters' = SubSeq(waiters, 1, i-1)
                                \o SubSeq(waiters, i+1, Len(waiters))
          /\ UNCHANGED <<owner, exchange>>
    /\ Leaves(c, "retry", 0)
    /\ UNCHANGED <<store, counters, keycloak>>

-----------------------------------------------------------------------------
(* Time, restart and reauthentication.                                     *)

\* A minute passes.  The 15 s ceiling lets at most one fall into a refresh.
Minute ==
    /\ gateWait > 0 \/ (owner # None /\ elapsed = 0)
    /\ owner # None => elapsed = 0
    /\ gateWait' = IF gateWait > 0 THEN gateWait - 1 ELSE 0
    /\ elapsed' = IF owner # None THEN 1 ELSE 0
    /\ UNCHANGED <<store, lock, tasks, attempt, sent, reply, failCount,
                   outageCount, keycloak>>

\* A new coordinator over the persisted entry e.
FreshCoordinator(e) ==
    /\ entry' = e
    /\ mem' = NoPair /\ armed' = TRUE /\ alertSent' = FALSE
    /\ owner' = None /\ waiters' = <<>>
    /\ pc' = [c \in Callers |-> "idle"]
    /\ obs' = [c \in Callers |-> 0]
    /\ outcome' = [c \in Callers |-> None]
    /\ got' = [c \in Callers |-> 0]
    /\ attempt' = 0 /\ sent' = 0 /\ reply' = NoReply /\ elapsed' = 0
    /\ failCount' = 0 /\ outageCount' = 0 /\ gateWait' = 0

\* Reload or restart of Home Assistant: memory, tasks and counters are gone.
Restart ==
    /\ CanCancel
    /\ FreshCoordinator(entry)
    /\ UNCHANGED keycloak

\* The user signs in again; the flow replaces the pair and reloads the entry.
Relogin ==
    /\ \E c \in Callers : outcome[c] = "reauth"
    /\ issued < MaxIssued
    /\ issued' = issued + 1 /\ valid' = issued + 1
    /\ grantDead' = FALSE /\ ambiguous' = 0
    /\ FreshCoordinator([bearer |-> issued + 1, refresh |-> issued + 1])

-----------------------------------------------------------------------------
Enter(c) == ReuseRefreshed(c) \/ GateClosed(c) \/ NoRefreshToken(c) \/ StartRefresh(c)

Handle(c) ==
    \/ Success(c) \/ SleepAndRetry(c) \/ NextAttempt(c) \/ GivesUpTransient(c)
    \/ GivesUpGenuine(c) \/ InvalidGrant(c) \/ Outage(c) \/ OverallTimeout(c)

Task(c) ==
    \/ CallApi(c) \/ ApiAnswers(c) \/ Unauthorized(c)
    \/ Enter(c) \/ Handle(c) \/ CallerTimeout(c)

Environment ==
    \/ Issue \/ Refuse \/ AnswerOutage \/ AnswerAmbiguously \/ NetworkFails
    \/ Revoke \/ Minute \/ Restart \/ Relogin

Next == TimerFires \/ (\E c \in Callers : Task(c)) \/ Environment

Spec == Init /\ [][Next]_vars

(***************************************************************************)
(* The event loop runs every ready task, and asyncio.timeout(15) ends a    *)
(* refresh that nobody answers.  Nothing is assumed of Keycloak.           *)
(***************************************************************************)
Fairness == \A c \in Callers : WF_vars(Enter(c) \/ Handle(c))
FairSpec == Spec /\ Fairness

-----------------------------------------------------------------------------
\* Every variable has its type; a refresh never exceeds its three attempts and
\* Keycloak never issues more pairs than the bound.
TypeOK ==
    /\ entry \in Pair /\ mem \in Pair
    /\ owner \in Callers \cup {None} /\ waiters \in Seq(Callers)
    /\ pc \in [Callers -> {"idle", "api", "queued", "post", "sleep"}]
    /\ obs \in [Callers -> 0..MaxIssued]
    /\ outcome \in [Callers -> {None, "token", "retry", "reauth"}]
    /\ got \in [Callers -> 0..MaxIssued]
    /\ attempt \in 0..(MaxAttempts - 1)
    /\ sent \in 0..MaxIssued
    /\ reply \in [kind : Answers, pair : Pair]
    /\ failCount \in Nat /\ outageCount \in Nat /\ gateWait \in Nat
    /\ elapsed \in 0..1
    /\ armed \in BOOLEAN /\ alertSent \in BOOLEAN
    /\ issued \in 1..MaxIssued /\ valid \in 1..MaxIssued
    /\ grantDead \in BOOLEAN /\ ambiguous \in Nat

(***************************************************************************)
(* Keycloak refuses our refresh token only after it revoked the session:   *)
(* the integration never sends a token it has itself used up by rotation,  *)
(* whatever the tasks, retries and restarts do.  ensure_valid_token's      *)
(* docstring, token_auth.py:109-112.  With lost replies this is false.     *)
(***************************************************************************)
NoSelfInflictedRefusal == reply.kind = "refused" => grantDead

(***************************************************************************)
(* Network errors, timeouts, outages and cancellations never lead to       *)
(* reauth, however many there are: a task is told to reauthenticate only   *)
(* after a revocation, three useless answers of Keycloak since the last    *)
(* success, or when there is no refresh token at all (token_auth.py:       *)
(* 282-288, 346-365).                                                      *)
(***************************************************************************)
TroubleNeverReauths ==
    [][\A c \in Callers : outcome[c] # "reauth" /\ outcome'[c] = "reauth" =>
          grantDead \/ ambiguous >= EscalateAfter \/ RefreshToken = 0]_vars

(***************************************************************************)
(* A task never gets back the token it saw rejected: it waits for the      *)
(* refresh another task runs, or runs one (token_auth.py:207-211).         *)
(***************************************************************************)
NeverTheRejectedToken ==
    \A c \in Callers : outcome[c] = "token" => got[c] # obs[c]

(***************************************************************************)
(* While a refresh is under way, across all its awaits, the token it       *)
(* replaces is still the current one: nobody refreshes behind its back, so *)
(* no redundant POST is made.                                              *)
(***************************************************************************)
RefreshesTheCurrentToken ==
    \A c \in Callers : Exchanging(c) => obs[c] = Token /\ sent = RefreshToken

(***************************************************************************)
(* No POST is sent to a server known to be down: a refresh is under way    *)
(* only while the back-off gate is open (token_auth.py:212-223, 310-329).  *)
(***************************************************************************)
NoPostDuringBackoff ==
    (\E c \in Callers : Exchanging(c)) => GateOpen

(***************************************************************************)
(* Every task that asks for a token is answered: the lock is always        *)
(* released (token_auth.py:248-257).                                       *)
(***************************************************************************)
EveryCallReturns ==
    \A c \in Callers : (pc[c] = "queued") ~> (pc[c] = "idle")
=============================================================================
