---------------------------- MODULE RpcFallback ----------------------------
(***************************************************************************)
(* CoralSwapClient.executeWithFallback (src/src/client.ts) with what it    *)
(* drives: the round-robin ConnectionPool, withRetry and the circuit       *)
(* breaker withRetry keeps per label and URL (src/src/utils/).  Concurrent *)
(* calls share the pool, the breakers and the client's current server, and *)
(* interleave at every await: the rate limiter's token, the RPC itself and *)
(* the backoff.  The calls are of one label, so there is one breaker for   *)
(* each endpoint.  Clock readings are kept as the time left to a deadline. *)
(***************************************************************************)
EXTENDS Integers

CONSTANTS
    Calls,             \* concurrent callers
    Size,              \* endpoints in the pool, 1..Size in order
    MaxRetries,        \* config.maxRetries
    PoolThreshold,     \* ConnectionPool failureThreshold (3 in the code)
    PoolRecovery,      \* ConnectionPool recoveryTimeMs (30 s)
    BreakerThreshold,  \* CircuitBreaker failureThreshold (5)
    BreakerCooldown,   \* CircuitBreaker cooldownMs (30 s)
    Limited,           \* whether a rateLimiter is configured
    HasDeadline        \* whether config.deadlineMs is set

ASSUME FallbackConstants ==
    /\ Size \in Nat \ {0} /\ MaxRetries \in Nat
    /\ PoolThreshold \in Nat \ {0} /\ PoolRecovery \in Nat
    /\ BreakerThreshold \in Nat \ {0} /\ BreakerCooldown \in Nat
    /\ Limited \in BOOLEAN /\ HasDeadline \in BOOLEAN

Endpoints == 1..Size

VARIABLES
    pc,        \* where each call is
    round,     \* executeWithFallback's attempt counter
    try,       \* withRetry's attempt counter
    limit,     \* withRetry's maxRetries for this round
    url,       \* rpcUrl of this round
    sentTo,    \* the endpoint the call's request was sent to
    probing,   \* this round is a half-open probe (history)
    seen,      \* endpoints this call picked or found unhealthy (history)
    disturbed, \* another call picked an endpoint meanwhile (history)
    active,    \* _activeRpcUrl and the endpoint of _server
    rrIndex,   \* round-robin position
    fails,     \* pool: consecutiveFailures, up to the threshold
    downFor,   \* pool: time until the endpoint counts as healthy
    bfails,    \* breaker: consecutiveFailures, up to the threshold
    openFor,   \* breaker: time until half-open, or Closed
    inFlight   \* breaker: halfOpenInFlight

callVars == <<pc, round, try, limit, url, sentTo, probing, seen, disturbed>>
poolVars == <<rrIndex, fails, downFor>>
brkVars  == <<bfails, openFor, inFlight>>
vars     == <<callVars, active, poolVars, brkVars>>

Closed == -1
None == 0   \* no endpoint

Init ==
    /\ pc = [c \in Calls |-> "idle"]
    /\ round = [c \in Calls |-> 0]
    /\ try = [c \in Calls |-> 0]
    /\ limit = [c \in Calls |-> 0]
    /\ url = [c \in Calls |-> None]
    /\ sentTo = [c \in Calls |-> None]
    /\ probing = [c \in Calls |-> FALSE]
    /\ seen = [c \in Calls |-> {}]
    /\ disturbed = [c \in Calls |-> FALSE]
    /\ active = 1
    /\ rrIndex = 1
    /\ fails = [e \in Endpoints |-> 0]
    /\ downFor = [e \in Endpoints |-> 0]
    /\ bfails = [e \in Endpoints |-> 0]
    /\ openFor = [e \in Endpoints |-> Closed]
    /\ inFlight = [e \in Endpoints |-> FALSE]

-----------------------------------------------------------------------------
(* ConnectionPool *)

(* The i-th endpoint from the round-robin position on. *)
Position(i) == ((rrIndex - 1 + i) % Size) + 1

(* Mutant: the scan starts at the first endpoint every time. *)
GetEndpoint_NoRotation(down) ==
    {e \in Endpoints : down[e] = 0 /\ \A f \in 1..(e - 1) : down[f] > 0}

(* getEndpoint: the first healthy endpoint of one full pass, if any.       *)
(* down[e] is the time until e counts as healthy.                          *)
GetEndpoint(down) ==
    {Position(i) : i \in {k \in 0..(Size - 1) :
        /\ down[Position(k)] = 0
        /\ \A j \in 0..(k - 1) : down[Position(j)] > 0}}

ReportSuccess(e) ==
    /\ fails' = [fails EXCEPT ![e] = 0]
    /\ downFor' = [downFor EXCEPT ![e] = 0]

Counted(n, threshold) == IF n < threshold THEN n + 1 ELSE n

(* unhealthyAt after a failure of e is reported. *)
DownAfterFailure(e) ==
    IF fails[e] + 1 >= PoolThreshold
    THEN [downFor EXCEPT ![e] = PoolRecovery] ELSE downFor

ReportFailure(e) ==
    /\ fails' = [fails EXCEPT ![e] = Counted(@, PoolThreshold)]
    /\ downFor' = DownAfterFailure(e)

-----------------------------------------------------------------------------
(* CircuitBreaker *)

HalfOpen(e) == openFor[e] = 0
(* beforeRequest throws *)
Refuses(e) == openFor[e] > 0 \/ (HalfOpen(e) /\ inFlight[e])

(* Mutant: a success resets the count and leaves the circuit open. *)
OnSuccess_KeepsOpen(e) ==
    /\ bfails' = [bfails EXCEPT ![e] = 0]
    /\ inFlight' = [inFlight EXCEPT ![e] = FALSE]
    /\ UNCHANGED openFor

OnSuccess(e) ==
    /\ bfails' = [bfails EXCEPT ![e] = 0]
    /\ openFor' = [openFor EXCEPT ![e] = Closed]
    /\ inFlight' = [inFlight EXCEPT ![e] = FALSE]

(* Mutant: a failed probe leaves the in-flight mark. *)
OnFailure_KeepsMark(e) ==
    /\ bfails' = [bfails EXCEPT ![e] = Counted(@, BreakerThreshold)]
    /\ openFor' = IF bfails[e] + 1 >= BreakerThreshold
                  THEN [openFor EXCEPT ![e] = BreakerCooldown] ELSE openFor
    /\ UNCHANGED inFlight

OnFailure(e) ==
    /\ bfails' = [bfails EXCEPT ![e] = Counted(@, BreakerThreshold)]
    /\ openFor' = IF bfails[e] + 1 >= BreakerThreshold
                  THEN [openFor EXCEPT ![e] = BreakerCooldown] ELSE openFor
    /\ inFlight' = [inFlight EXCEPT ![e] = FALSE]

-----------------------------------------------------------------------------
(* executeWithFallback *)

(* The call returns or throws: its locals are gone. *)
Leaves(c) ==
    /\ pc' = [pc EXCEPT ![c] = "idle"]
    /\ round' = [round EXCEPT ![c] = 0]
    /\ try' = [try EXCEPT ![c] = 0]
    /\ limit' = [limit EXCEPT ![c] = 0]
    /\ url' = [url EXCEPT ![c] = None]
    /\ sentTo' = [sentTo EXCEPT ![c] = None]
    /\ probing' = [probing EXCEPT ![c] = FALSE]
    /\ seen' = [seen EXCEPT ![c] = {}]

Ends(c) == Leaves(c) /\ disturbed' = [disturbed EXCEPT ![c] = FALSE]

(* History: call c has picked an endpoint, under the calls under way. *)
Disturbs(c) ==
    disturbed' = [d \in Calls |-> IF d = c
                                  THEN disturbed[c] /\ pc'[c] # "idle"
                                  ELSE pc[d] # "idle"]

(* A request goes to this.server (srv), perhaps after the rate limiter. *)
Dispatch(c, srv) ==
    /\ pc' = [pc EXCEPT ![c] = IF Limited THEN "token" ELSE "rpc"]
    /\ sentTo' = [sentTo EXCEPT ![c] = IF Limited THEN None ELSE srv]

(* Mutant: the endpoint is noted but the server is not replaced. *)
Pick_KeepsServer(e) ==
    /\ rrIndex' = (e % Size) + 1
    /\ UNCHANGED active

(* getEndpoint returned e: it becomes the current server. *)
Pick(e) ==
    /\ rrIndex' = (e % Size) + 1
    /\ active' = e

(* beforeRequest throws CircuitOpenError, which is not retryable: it is    *)
(* rethrown and no other endpoint is tried.                                *)
CircuitOpen(c, e) ==
    /\ Refuses(e)
    /\ Leaves(c)
    /\ UNCHANGED brkVars

(* The deadline passed before the first attempt: the breaker counts it. *)
LateRound(c, e) ==
    /\ HasDeadline /\ ~Refuses(e)
    /\ OnFailure(e)
    /\ Leaves(c)

(* withRetry's first attempt; a half-open breaker allows only this one. *)
FirstAttempt(c, e, down, k) ==
    /\ ~Refuses(e)
    /\ inFlight' = [inFlight EXCEPT ![e] = @ \/ HalfOpen(e)]
    /\ probing' = [probing EXCEPT ![c] = HalfOpen(e)]
    /\ limit' = [limit EXCEPT ![c] = IF HalfOpen(e) THEN 0 ELSE MaxRetries]
    /\ round' = [round EXCEPT ![c] = k]
    /\ try' = [try EXCEPT ![c] = 0]
    /\ url' = [url EXCEPT ![c] = e]
    /\ Dispatch(c, e)
    /\ seen' = [seen EXCEPT ![c] =
                   @ \cup {e} \cup {f \in Endpoints : down[f] > 0}]
    /\ UNCHANGED <<bfails, openFor>>

(* Round k, up to its first await, with the endpoints' health as in down.  *)
(* getEndpoint throws PoolExhaustedError when there is no endpoint.        *)
Round(c, down, k) ==
    \/ /\ GetEndpoint(down) = {}
       /\ Ends(c)
       /\ UNCHANGED <<active, rrIndex, brkVars>>
    \/ \E e \in GetEndpoint(down) :
          /\ Pick(e)
          /\ CircuitOpen(c, e) \/ LateRound(c, e) \/ FirstAttempt(c, e, down, k)
          /\ Disturbs(c)

(* The call is made, or made again. *)
Call(c) ==
    /\ pc[c] = "idle"
    /\ Round(c, downFor, 0)
    /\ UNCHANGED <<fails, downFor>>

(* The limiter grants a token: the server is the one of this moment. *)
Token(c) ==
    /\ pc[c] = "token"
    /\ pc' = [pc EXCEPT ![c] = "rpc"]
    /\ sentTo' = [sentTo EXCEPT ![c] = active]
    /\ UNCHANGED <<round, try, limit, url, probing, seen, disturbed, active,
                   poolVars, brkVars>>

(* The request of call c is over. *)
Answered(c, step) ==
    /\ pc[c] = "rpc"
    /\ pc' = [pc EXCEPT ![c] = step]
    /\ sentTo' = [sentTo EXCEPT ![c] = None]
    /\ UNCHANGED <<round, limit, url, seen, disturbed, active, poolVars>>

(* The RPC answers: onSuccess, and a turn of the event loop later          *)
(* reportSuccess.                                                          *)
RpcSucceeds(c) ==
    /\ Answered(c, "returned")
    /\ OnSuccess(url[c])
    /\ probing' = [probing EXCEPT ![c] = FALSE]
    /\ UNCHANGED try

Returns(c) ==
    /\ pc[c] = "returned"
    /\ ReportSuccess(url[c])
    /\ Ends(c)
    /\ UNCHANGED <<active, rrIndex, brkVars>>

(* An error that is not retryable (the limiter's included): the breaker    *)
(* counts it, the pool does not, and it is thrown.                         *)
FailsForGood(c) ==
    /\ pc[c] \in {"rpc", "token"}
    /\ OnFailure(url[c])
    /\ Ends(c)
    /\ UNCHANGED <<active, poolVars>>

(* A retryable error with attempts left: back off, then try again. *)
BackOff(c) ==
    /\ Answered(c, "sleep")
    /\ try[c] < limit[c]
    /\ try' = [try EXCEPT ![c] = @ + 1]
    /\ UNCHANGED <<probing, brkVars>>

NextAttempt(c) ==
    /\ pc[c] = "sleep"
    /\ Dispatch(c, active)
    /\ UNCHANGED <<round, try, limit, url, probing, seen, disturbed, active,
                   poolVars, brkVars>>

DeadlinePassed(c) ==
    /\ HasDeadline
    /\ pc[c] = "sleep"
    /\ OnFailure(url[c])
    /\ Ends(c)
    /\ UNCHANGED <<active, poolVars>>

(* A retryable error and no attempt left: onFailure, and a turn of the     *)
(* event loop later reportFailure with the next round, or giving up.       *)
RoundFails(c) ==
    /\ Answered(c, "caught")
    /\ try[c] = limit[c]
    /\ OnFailure(url[c])
    /\ probing' = [probing EXCEPT ![c] = FALSE]
    /\ UNCHANGED try

LastRound(c) == round[c] + 1 >= Size

NextRound(c) ==
    /\ pc[c] = "caught"
    /\ ~LastRound(c)
    /\ ReportFailure(url[c])
    /\ Round(c, DownAfterFailure(url[c]), round[c] + 1)

GivesUp(c) ==
    /\ pc[c] = "caught"
    /\ LastRound(c)
    /\ ReportFailure(url[c])
    /\ Ends(c)
    /\ UNCHANGED <<active, rrIndex, brkVars>>

(* The clock (external). *)
Tick ==
    /\ \E e \in Endpoints : downFor[e] > 0 \/ openFor[e] > 0
    /\ downFor' = [e \in Endpoints |-> IF downFor[e] > 0 THEN downFor[e] - 1
                                                         ELSE 0]
    /\ openFor' = [e \in Endpoints |-> IF openFor[e] > 0 THEN openFor[e] - 1
                                                         ELSE openFor[e]]
    /\ UNCHANGED <<callVars, active, rrIndex, fails, bfails, inFlight>>

Progress(c) ==
    \/ Token(c)    \/ RpcSucceeds(c) \/ Returns(c)     \/ FailsForGood(c)
    \/ BackOff(c)  \/ NextAttempt(c) \/ DeadlinePassed(c)
    \/ RoundFails(c) \/ NextRound(c) \/ GivesUp(c)

Next == (\E c \in Calls : Call(c) \/ Progress(c)) \/ Tick

Spec == Init /\ [][Next]_vars

-----------------------------------------------------------------------------
TypeOK ==
    /\ pc \in [Calls -> {"idle", "token", "rpc", "sleep", "returned", "caught"}]
    /\ round \in [Calls -> 0..(Size - 1)]
    /\ try \in [Calls -> 0..MaxRetries]
    /\ limit \in [Calls -> 0..MaxRetries]
    /\ url \in [Calls -> Endpoints \cup {None}]
    /\ sentTo \in [Calls -> Endpoints \cup {None}]
    /\ probing \in [Calls -> BOOLEAN]
    /\ seen \in [Calls -> SUBSET Endpoints]
    /\ disturbed \in [Calls -> BOOLEAN]
    /\ active \in Endpoints
    /\ rrIndex \in Endpoints
    /\ fails \in [Endpoints -> 0..PoolThreshold]
    /\ downFor \in [Endpoints -> 0..PoolRecovery]
    /\ bfails \in [Endpoints -> 0..BreakerThreshold]
    /\ openFor \in [Endpoints -> {Closed} \cup 0..BreakerCooldown]
    /\ inFlight \in [Endpoints -> BOOLEAN]

(* A half-open breaker cannot stay blocked: while halfOpenInFlight is set, *)
(* some call is probing that endpoint and will clear it (retry.ts:58-76).  *)
NoStuckProbe ==
    \A e \in Endpoints :
        inFlight[e] => \E c \in Calls : probing[c] /\ url[c] = e

(* A breaker is open or half-open exactly when the failures counted since  *)
(* the last success reached the threshold, however calls overlap.          *)
OpenIffTripped ==
    \A e \in Endpoints :
        (openFor[e] # Closed) <=> (bfails[e] = BreakerThreshold)

(* PERFORMANCE.md:289: "On retryable failure the client rotates to the     *)
(* next endpoint": a call that no other call disturbed gives up with a     *)
(* retryable error only after every endpoint was picked or was found       *)
(* unhealthy by it.  The position is shared: disturbed calls may try one   *)
(* endpoint twice and another never.                                       *)
FailedTriedAll ==
    \A c \in Calls :
        pc[c] = "caught" /\ LastRound(c) /\ ~disturbed[c]
            => seen[c] = Endpoints

(* PERFORMANCE.md:299: "Each failed operation retries with exponential     *)
(* backoff on the current URL": a request of an undisturbed call goes to   *)
(* the endpoint its outcome is reported for, in the breaker and the pool.  *)
ReportedWhereSent ==
    \A c \in Calls : pc[c] = "rpc" /\ ~disturbed[c] => sentTo[c] = url[c]

(* A call that no other call disturbed is served as the documentation says. *)
UndisturbedCallServed == FailedTriedAll /\ ReportedWhereSent
=============================================================================
