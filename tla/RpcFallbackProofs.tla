-------------------------- MODULE RpcFallbackProofs --------------------------
(***************************************************************************)
(* The breakers and the rotation of executeWithFallback, for any number of *)
(* overlapping calls and endpoints and any thresholds: no half-open        *)
(* breaker is blocked by a probe that is gone, a breaker is open exactly   *)
(* when it was tripped, and a call that no other one disturbed is served   *)
(* as documented.                                                          *)
(***************************************************************************)
EXTENDS RpcFallback, TLAPS

(* A probe is a round under way: its withRetry has not ended. *)
ProbeRuns ==
    \A c \in Calls : probing[c] => pc[c] \in {"token", "rpc", "sleep"}

(* A call under way has an endpoint. *)
HasEndpoint == \A c \in Calls : pc[c] # "idle" => url[c] \in Endpoints

(* The server and the round-robin position are where the last pick of an   *)
(* undisturbed call left them.                                             *)
OwnServer ==
    \A c \in Calls : pc[c] # "idle" /\ ~disturbed[c] =>
        active = url[c] /\ rrIndex = (url[c] % Size) + 1

(* The endpoint j places before e in the cycle. *)
Back(e, j) == IF j < e THEN e - j ELSE e - j + Size

(* The endpoints an undisturbed call has seen reach back from its current  *)
(* one by a place for every round.                                         *)
SeenBehind ==
    \A c \in Calls : pc[c] # "idle" /\ ~disturbed[c] =>
        \A j \in 0..round[c] : Back(url[c], j) \in seen[c]

FInv ==
    /\ TypeOK /\ ProbeRuns /\ HasEndpoint /\ OwnServer /\ SeenBehind
    /\ NoStuckProbe /\ OpenIffTripped /\ ReportedWhereSent
-----------------------------------------------------------------------------
(* Rotation. *)

LEMMA ModOnce ==
    ASSUME NEW n \in Nat \ {0}, NEW x \in Nat, x < 2 * n
    PROVE  x % n = IF x < n THEN x ELSE x - n
  OBVIOUS

LEMMA NextPosition ==
    ASSUME NEW e \in Endpoints
    PROVE  (e % Size) + 1 = IF e < Size THEN e + 1 ELSE 1
<1>1. e \in Nat /\ Size \in Nat \ {0} /\ e < 2 * Size /\ 0 < e /\ e <= Size
  BY FallbackConstants DEF Endpoints
<1>2. e % Size = IF e < Size THEN e ELSE e - Size
  BY <1>1, ModOnce
<1> QED
  BY <1>1, <1>2

LEMMA PositionIs ==
    ASSUME rrIndex \in Endpoints, NEW i \in 0..(Size - 1)
    PROVE  /\ Position(i) = IF rrIndex + i <= Size THEN rrIndex + i ELSE rrIndex + i - Size
           /\ Position(i) \in Endpoints
<1> DEFINE x == rrIndex - 1 + i
<1>1. x \in Nat /\ Size \in Nat \ {0} /\ x < 2 * Size
  BY FallbackConstants DEF Endpoints
<1>2. x % Size = IF x < Size THEN x ELSE x - Size
  BY <1>1, ModOnce
<1>3. Position(i) = (x % Size) + 1
  BY DEF Position
<1> QED
  BY <1>1, <1>2, <1>3, FallbackConstants DEF Endpoints

(* From a pick of u the scan of the next round passes over endpoints that   *)
(* are down and stops at e: going back from e, the places before the scan   *)
(* are those behind u.                                                      *)
LEMMA BehindPick ==
    ASSUME NEW u \in Endpoints, rrIndex = (u % Size) + 1,
           NEW i \in 0..(Size - 1), NEW j \in 0..(Size - 1)
    PROVE  Back(Position(i), j) = IF j <= i THEN Position(i - j) ELSE Back(u, j - i - 1)
<1>1. rrIndex = (IF u < Size THEN u + 1 ELSE 1) /\ rrIndex \in Endpoints
  <2>1. (u % Size) + 1 = IF u < Size THEN u + 1 ELSE 1
    BY NextPosition
  <2>2. rrIndex = IF u < Size THEN u + 1 ELSE 1
    BY <2>1
  <2> QED
    BY <2>2, FallbackConstants DEF Endpoints
<1>2. Position(i) = IF rrIndex + i <= Size THEN rrIndex + i ELSE rrIndex + i - Size
  BY <1>1, PositionIs
<1>3. CASE j <= i
  <2>1. i - j \in 0..(Size - 1)
    BY <1>3, FallbackConstants
  <2>2. Position(i - j) = IF rrIndex + (i - j) <= Size THEN rrIndex + (i - j)
                          ELSE rrIndex + (i - j) - Size
    BY <1>1, <2>1, PositionIs
  <2> QED
    BY <1>1, <1>2, <1>3, <2>2, FallbackConstants DEF Back, Endpoints
<1>4. CASE j > i
  BY <1>1, <1>2, <1>4, FallbackConstants DEF Back, Endpoints
<1> QED
  BY <1>3, <1>4, FallbackConstants

(* A call that reaches back through Size places has seen every endpoint. *)
LEMMA AllBehind ==
    ASSUME NEW u \in Endpoints, NEW e \in Endpoints
    PROVE  \E j \in 0..(Size - 1) : Back(u, j) = e
<1>1. CASE e <= u
  <2>1. u - e \in 0..(Size - 1) /\ Back(u, u - e) = e
    BY <1>1, FallbackConstants DEF Back, Endpoints
  <2> QED
    BY <2>1
<1>2. CASE e > u
  <2>1. u - e + Size \in 0..(Size - 1) /\ Back(u, u - e + Size) = e
    BY <1>2, FallbackConstants DEF Back, Endpoints
  <2> QED
    BY <2>1
<1> QED
  BY <1>1, <1>2, FallbackConstants DEF Endpoints

-----------------------------------------------------------------------------
(* The breaker. *)

LEMMA BreakerStep ==
    ASSUME TypeOK, OpenIffTripped, NEW e \in Endpoints, OnSuccess(e) \/ OnFailure(e)
    PROVE  /\ bfails' \in [Endpoints -> 0..BreakerThreshold]
           /\ openFor' \in [Endpoints -> {Closed} \cup 0..BreakerCooldown]
           /\ inFlight' \in [Endpoints -> BOOLEAN]
           /\ OpenIffTripped'
<1> USE FallbackConstants
<1>1. CASE OnSuccess(e)
  BY <1>1 DEF OnSuccess, TypeOK, OpenIffTripped, Closed
<1>2. CASE OnFailure(e)
  <2>1. bfails' = [bfails EXCEPT ![e] = IF bfails[e] < BreakerThreshold THEN bfails[e] + 1
                                        ELSE bfails[e]]
    BY <1>2 DEF OnFailure, Counted
  <2>2. openFor' = IF bfails[e] + 1 >= BreakerThreshold
                   THEN [openFor EXCEPT ![e] = BreakerCooldown] ELSE openFor
    BY <1>2 DEF OnFailure
  <2>3. inFlight' \in [Endpoints -> BOOLEAN]
    BY <1>2 DEF OnFailure, TypeOK
  <2>4. /\ bfails' \in [Endpoints -> 0..BreakerThreshold]
        /\ openFor' \in [Endpoints -> {Closed} \cup 0..BreakerCooldown]
    BY <2>1, <2>2 DEF TypeOK
  <2>5. OpenIffTripped'
    BY <2>1, <2>2 DEF TypeOK, OpenIffTripped, Closed
  <2> QED
    BY <2>3, <2>4, <2>5
<1> QED
  BY <1>1, <1>2

(* onSuccess and onFailure clear the mark of the endpoint call c was        *)
(* probing, and nobody else's.                                              *)
LEMMA ProbeEnds ==
    ASSUME TypeOK, NoStuckProbe, NEW c \in Calls,
           inFlight' = [inFlight EXCEPT ![url[c]] = FALSE],
           \A d \in Calls \ {c} : probing'[d] = probing[d] /\ url'[d] = url[d]
    PROVE  NoStuckProbe'
<1> SUFFICES ASSUME NEW e \in Endpoints, inFlight'[e]
             PROVE  \E d \in Calls : probing'[d] /\ url'[d] = e
  BY DEF NoStuckProbe
<1>1. inFlight[e] /\ e # url[c]
  BY DEF TypeOK
<1>2. PICK d \in Calls : probing[d] /\ url[d] = e
  BY <1>1 DEF NoStuckProbe
<1> QED
  BY <1>1, <1>2

LEMMA InitFInv == Init => FInv
<1> SUFFICES ASSUME Init PROVE FInv
  OBVIOUS
<1> USE FallbackConstants DEF Init
<1>1. TypeOK
  BY DEF TypeOK, Endpoints, Closed
<1>2. ProbeRuns /\ HasEndpoint /\ OwnServer /\ SeenBehind /\ ReportedWhereSent
  BY DEF ProbeRuns, HasEndpoint, OwnServer, SeenBehind, ReportedWhereSent
<1>3. NoStuckProbe /\ OpenIffTripped
  BY DEF NoStuckProbe, OpenIffTripped
<1> QED
  BY <1>1, <1>2, <1>3 DEF FInv

(* A call that is over: what is said of the others still holds. *)
LEMMA EndsFInv ==
    ASSUME FInv, NEW c \in Calls, Ends(c), UNCHANGED <<active, rrIndex>>,
           fails' \in [Endpoints -> 0..PoolThreshold],
           downFor' \in [Endpoints -> 0..PoolRecovery],
           \/ pc[c] \in {"idle", "returned", "caught"} /\ UNCHANGED brkVars
           \/ pc[c] # "idle" /\ (OnSuccess(url[c]) \/ OnFailure(url[c]))
    PROVE  FInv'
<1> USE DEF FInv
<1>1. CASE pc[c] \in {"idle", "returned", "caught"} /\ UNCHANGED brkVars
  <2>1. ~probing[c]
    BY <1>1 DEF ProbeRuns
  <2>2. NoStuckProbe'
    BY <1>1, <2>1 DEF NoStuckProbe, Ends, Leaves, brkVars, TypeOK
  <2>3. TypeOK'
    BY <1>1, FallbackConstants DEF TypeOK, Ends, Leaves, brkVars
  <2>4. OpenIffTripped'
    BY <1>1 DEF OpenIffTripped, brkVars
  <2> QED
    BY <2>2, <2>3, <2>4 DEF Ends, Leaves, ProbeRuns, HasEndpoint, OwnServer, SeenBehind,
       ReportedWhereSent, TypeOK
<1>2. CASE pc[c] # "idle" /\ (OnSuccess(url[c]) \/ OnFailure(url[c]))
  <2>1. url[c] \in Endpoints
    BY <1>2 DEF HasEndpoint
  <2>2. /\ bfails' \in [Endpoints -> 0..BreakerThreshold]
        /\ openFor' \in [Endpoints -> {Closed} \cup 0..BreakerCooldown]
        /\ inFlight' \in [Endpoints -> BOOLEAN]
        /\ OpenIffTripped'
    BY <1>2, <2>1, BreakerStep
  <2>3. NoStuckProbe'
    <3>1. inFlight' = [inFlight EXCEPT ![url[c]] = FALSE]
      BY <1>2 DEF OnSuccess, OnFailure
    <3>2. \A d \in Calls \ {c} : probing'[d] = probing[d] /\ url'[d] = url[d]
      BY DEF Ends, Leaves, TypeOK
    <3> QED
      BY <3>1, <3>2, ProbeEnds
  <2>4. TypeOK'
    BY <2>2, FallbackConstants DEF TypeOK, Ends, Leaves
  <2> QED
    BY <2>2, <2>3, <2>4 DEF Ends, Leaves, ProbeRuns, HasEndpoint, OwnServer, SeenBehind,
       ReportedWhereSent, TypeOK
<1> QED
  BY <1>1, <1>2

(* A step of call c inside a round: its endpoint, and what it has seen, stay. *)
LEMMA InRoundFInv ==
    ASSUME FInv, NEW c \in Calls,
           UNCHANGED <<round, limit, url, seen, disturbed, active, poolVars>>,
           pc[c] # "idle",
           NEW p \in {"token", "rpc", "sleep", "returned", "caught"},
           pc' = [pc EXCEPT ![c] = p],
           NEW s \in Endpoints \cup {None}, sentTo' = [sentTo EXCEPT ![c] = s],
           p = "rpc" => s = active,
           try' \in [Calls -> 0..MaxRetries],
           \/ UNCHANGED <<probing, brkVars>> /\ pc[c] \in {"token", "rpc", "sleep"}
              /\ p \in {"token", "rpc", "sleep"}
           \/ probing' = [probing EXCEPT ![c] = FALSE]
              /\ (OnSuccess(url[c]) \/ OnFailure(url[c]))
    PROVE  FInv'
<1> USE DEF FInv
<1>1. url[c] \in Endpoints
  BY DEF HasEndpoint
<1>2. /\ bfails' \in [Endpoints -> 0..BreakerThreshold]
      /\ openFor' \in [Endpoints -> {Closed} \cup 0..BreakerCooldown]
      /\ inFlight' \in [Endpoints -> BOOLEAN]
      /\ OpenIffTripped'
  <2>1. CASE UNCHANGED <<probing, brkVars>>
    BY <2>1 DEF TypeOK, OpenIffTripped, brkVars
  <2>2. CASE OnSuccess(url[c]) \/ OnFailure(url[c])
    BY <1>1, <2>2, BreakerStep
  <2> QED
    BY <2>1, <2>2
<1>3. NoStuckProbe'
  <2>1. CASE UNCHANGED <<probing, brkVars>>
    BY <2>1 DEF NoStuckProbe, brkVars
  <2>2. CASE /\ probing' = [probing EXCEPT ![c] = FALSE]
             /\ OnSuccess(url[c]) \/ OnFailure(url[c])
    <3>1. inFlight' = [inFlight EXCEPT ![url[c]] = FALSE]
      BY <2>2 DEF OnSuccess, OnFailure
    <3>2. \A d \in Calls \ {c} : probing'[d] = probing[d] /\ url'[d] = url[d]
      BY <2>2 DEF TypeOK
    <3> QED
      BY <3>1, <3>2, ProbeEnds
  <2> QED
    BY <2>1, <2>2
<1>4. TypeOK'
  BY <1>2 DEF TypeOK, poolVars
<1>5. ProbeRuns' /\ HasEndpoint'
  BY <1>1 DEF ProbeRuns, HasEndpoint, TypeOK
<1>6. OwnServer' /\ SeenBehind'
  BY DEF OwnServer, SeenBehind, TypeOK, poolVars
<1>7. ReportedWhereSent'
  BY DEF ReportedWhereSent, OwnServer, TypeOK
<1> QED
  BY <1>2, <1>3, <1>4, <1>5, <1>6, <1>7

(* A round begins: an endpoint is picked and becomes the current server, the *)
(* breaker refuses, the deadline has passed, or the first request goes out.  *)
LEMMA RoundFInv ==
    ASSUME FInv, NEW c \in Calls, NEW down \in [Endpoints -> 0..PoolRecovery],
           NEW k \in 0..(Size - 1),
           \/ pc[c] = "idle" /\ k = 0
           \/ pc[c] = "caught" /\ k = round[c] + 1,
           Round(c, down, k), downFor' = down,
           fails' \in [Endpoints -> 0..PoolThreshold]
    PROVE  FInv'
<1> USE DEF FInv
<1>1. ASSUME Ends(c), UNCHANGED <<active, rrIndex, brkVars>>
      PROVE  FInv'
  BY <1>1, EndsFInv
<1>2. ASSUME NEW i \in 0..(Size - 1), NEW e, e = Position(i),
             \A j \in 0..(i - 1) : down[Position(j)] > 0,
             Pick(e), CircuitOpen(c, e) \/ LateRound(c, e) \/ FirstAttempt(c, e, down, k),
             Disturbs(c)
      PROVE  FInv'
  <2>1. e \in Endpoints /\ rrIndex \in Endpoints
    BY <1>2, PositionIs DEF TypeOK
  <2>2. active' = e /\ rrIndex' = (e % Size) + 1 /\ rrIndex' \in Endpoints
    <3>1. active' = e /\ rrIndex' = (e % Size) + 1
      BY <1>2 DEF Pick
    <3>2. (e % Size) + 1 = IF e < Size THEN e + 1 ELSE 1
      BY <2>1, NextPosition
    <3>3. rrIndex' = IF e < Size THEN e + 1 ELSE 1
      BY <3>1, <3>2
    <3>4. rrIndex' \in Endpoints
      BY <2>1, <3>3, FallbackConstants DEF Endpoints
    <3> QED
      BY <3>1, <3>4
  <2>3. ~probing[c]
    BY DEF ProbeRuns
  <2>4. /\ disturbed' \in [Calls -> BOOLEAN]
        /\ \A d \in Calls \ {c} : pc[d] # "idle" => disturbed'[d]
        /\ disturbed'[c] = (disturbed[c] /\ pc'[c] # "idle")
    BY <1>2 DEF Disturbs, TypeOK
  <2>5. ASSUME Leaves(c), UNCHANGED brkVars \/ OnFailure(e)
        PROVE  FInv'
    <3>1. /\ bfails' \in [Endpoints -> 0..BreakerThreshold]
          /\ openFor' \in [Endpoints -> {Closed} \cup 0..BreakerCooldown]
          /\ inFlight' \in [Endpoints -> BOOLEAN]
          /\ OpenIffTripped'
      <4>1. CASE UNCHANGED brkVars
        BY <4>1 DEF TypeOK, OpenIffTripped, brkVars
      <4>2. CASE OnFailure(e)
        BY <2>1, <4>2, BreakerStep
      <4> QED
        BY <2>5, <4>1, <4>2
    <3>2. NoStuckProbe'
      <4> SUFFICES ASSUME NEW f \in Endpoints, inFlight'[f]
                   PROVE  \E d \in Calls : probing'[d] /\ url'[d] = f
        BY DEF NoStuckProbe
      <4>1. inFlight[f]
        BY <2>5 DEF OnFailure, brkVars, TypeOK
      <4>2. PICK d \in Calls : probing[d] /\ url[d] = f
        BY <4>1 DEF NoStuckProbe
      <4> QED
        BY <2>3, <2>5, <4>2 DEF Leaves, TypeOK
    <3>3. TypeOK'
      BY <2>1, <2>2, <2>4, <2>5, <3>1, FallbackConstants DEF TypeOK, Leaves
    <3>4. ProbeRuns' /\ HasEndpoint' /\ OwnServer' /\ SeenBehind' /\ ReportedWhereSent'
      BY <2>4, <2>5 DEF Leaves, ProbeRuns, HasEndpoint, OwnServer, SeenBehind,
         ReportedWhereSent, TypeOK
    <3> QED
      BY <3>1, <3>2, <3>3, <3>4
  <2>6. ASSUME FirstAttempt(c, e, down, k)
        PROVE  FInv'
    <3>1. /\ pc' = [pc EXCEPT ![c] = IF Limited THEN "token" ELSE "rpc"]
          /\ sentTo' = [sentTo EXCEPT ![c] = IF Limited THEN None ELSE e]
          /\ url' = [url EXCEPT ![c] = e] /\ round' = [round EXCEPT ![c] = k]
          /\ seen' = [seen EXCEPT ![c] = @ \cup {e} \cup {f \in Endpoints : down[f] > 0}]
      BY <2>6 DEF FirstAttempt, Dispatch
    <3>2. /\ bfails' = bfails /\ openFor' = openFor
          /\ inFlight' = [inFlight EXCEPT ![e] = inFlight[e] \/ HalfOpen(e)]
          /\ probing' = [probing EXCEPT ![c] = HalfOpen(e)]
      BY <2>6 DEF FirstAttempt
    <3>3. TypeOK'
      <4>1. try' \in [Calls -> 0..MaxRetries] /\ limit' \in [Calls -> 0..MaxRetries]
        <5>1. 0 \in 0..MaxRetries /\ MaxRetries \in 0..MaxRetries
          BY FallbackConstants
        <5> QED
          BY <2>6, <5>1 DEF FirstAttempt, TypeOK
      <4>3. probing' \in [Calls -> BOOLEAN]
        BY <3>2 DEF TypeOK, HalfOpen
      <4>4. inFlight' \in [Endpoints -> BOOLEAN]
        <5>1. (inFlight[e] \/ HalfOpen(e)) \in BOOLEAN
          BY DEF HalfOpen
        <5> QED
          BY <3>2, <5>1 DEF TypeOK
      <4>2. /\ pc' \in [Calls -> {"idle", "token", "rpc", "sleep", "returned", "caught"}]
            /\ sentTo' \in [Calls -> Endpoints \cup {None}]
            /\ url' \in [Calls -> Endpoints \cup {None}]
            /\ round' \in [Calls -> 0..(Size - 1)]
            /\ seen' \in [Calls -> SUBSET Endpoints]
        BY <2>1, <3>1 DEF TypeOK
      <4> QED
        BY <2>1, <2>2, <2>4, <3>2, <4>1, <4>2, <4>3, <4>4 DEF TypeOK
    <3>4. NoStuckProbe'
      <4> SUFFICES ASSUME NEW f \in Endpoints, inFlight'[f]
                   PROVE  \E d \in Calls : probing'[d] /\ url'[d] = f
        BY DEF NoStuckProbe
      <4>1. CASE f = e /\ HalfOpen(e)
        BY <3>1, <3>2, <4>1 DEF TypeOK
      <4>2. CASE ~(f = e /\ HalfOpen(e))
        <5>1. inFlight[f]
          BY <3>2, <4>2 DEF TypeOK
        <5>2. PICK d \in Calls : probing[d] /\ url[d] = f
          BY <5>1 DEF NoStuckProbe
        <5> QED
          BY <2>3, <3>1, <3>2, <5>2 DEF TypeOK
      <4> QED
        BY <4>1, <4>2
    <3>5. ProbeRuns' /\ HasEndpoint'
      BY <2>1, <3>1, <3>2 DEF ProbeRuns, HasEndpoint, TypeOK
    <3>6. OwnServer' /\ ReportedWhereSent'
      BY <2>2, <2>4, <3>1 DEF OwnServer, ReportedWhereSent, TypeOK
    <3>7. OpenIffTripped'
      BY <3>2 DEF OpenIffTripped
    <3>8. SeenBehind'
      <4> SUFFICES ASSUME NEW d \in Calls, pc'[d] # "idle", ~disturbed'[d],
                          NEW j \in 0..round'[d]
                   PROVE  Back(url'[d], j) \in seen'[d]
        BY DEF SeenBehind
      <4>1. d = c
        BY <2>4, <3>1 DEF TypeOK
      <4>2. ~disturbed[c] /\ j \in 0..k /\ url'[c] = e
            /\ seen'[c] = seen[c] \cup {e} \cup {f \in Endpoints : down[f] > 0}
        BY <2>4, <3>1, <4>1 DEF TypeOK
      <4>3. CASE pc[c] = "idle"
        <5>1. j = 0 /\ Back(e, j) = e
          BY <2>1, <4>2, <4>3 DEF Back, Endpoints
        <5> QED
          BY <4>1, <4>2, <5>1
      <4>4. CASE pc[c] = "caught" /\ k = round[c] + 1
        <5>1. /\ url[c] \in Endpoints /\ rrIndex = (url[c] % Size) + 1
              /\ \A m \in 0..round[c] : Back(url[c], m) \in seen[c]
          BY <4>2, <4>4 DEF HasEndpoint, OwnServer, SeenBehind
        <5>2. j \in 0..(Size - 1)
          BY <4>2, FallbackConstants
        <5>3. Back(e, j) = IF j <= i THEN Position(i - j) ELSE Back(url[c], j - i - 1)
          BY <1>2, <5>1, <5>2, BehindPick
        <5>4. CASE j = 0
          <6>1. Back(e, j) = e
            BY <2>1, <5>4 DEF Back, Endpoints
          <6> QED
            BY <4>1, <4>2, <6>1
        <5>5. CASE j # 0 /\ j <= i
          <6>1. i - j \in 0..(i - 1) /\ i - j \in 0..(Size - 1)
            BY <5>2, <5>5, FallbackConstants
          <6>2. down[Position(i - j)] > 0 /\ Position(i - j) \in Endpoints
            BY <1>2, <2>1, <6>1, PositionIs
          <6> QED
            BY <4>1, <4>2, <5>3, <5>5, <6>2
        <5>6. CASE j > i
          <6>1. j - i - 1 \in 0..round[c]
            BY <4>2, <4>4, <5>2, <5>6, FallbackConstants DEF TypeOK
          <6> QED
            BY <4>1, <4>2, <5>1, <5>3, <5>6, <6>1
        <5> QED
          BY <5>2, <5>4, <5>5, <5>6, FallbackConstants
      <4> QED
        BY <4>3, <4>4
    <3> QED
      BY <3>3, <3>4, <3>5, <3>6, <3>7, <3>8
  <2> QED
    BY <1>2, <2>5, <2>6 DEF CircuitOpen, LateRound
<1> QED
  BY <1>1, <1>2 DEF Round, GetEndpoint

(* Every step keeps FInv: a step either ends a call, moves it inside its     *)
(* round, begins its next round, or is a tick of the clock.                  *)
LEMMA ReportTypes ==
    ASSUME TypeOK, NEW e \in Endpoints
    PROVE  /\ DownAfterFailure(e) \in [Endpoints -> 0..PoolRecovery]
           /\ ReportFailure(e) \/ ReportSuccess(e) =>
                 /\ fails' \in [Endpoints -> 0..PoolThreshold]
                 /\ downFor' \in [Endpoints -> 0..PoolRecovery]
<1> USE FallbackConstants DEF TypeOK
<1>1. DownAfterFailure(e) \in [Endpoints -> 0..PoolRecovery]
  BY DEF DownAfterFailure
<1>2. ASSUME ReportFailure(e)
      PROVE  fails' \in [Endpoints -> 0..PoolThreshold]
  BY <1>2 DEF ReportFailure, Counted
<1>3. ASSUME ReportFailure(e)
      PROVE  downFor' \in [Endpoints -> 0..PoolRecovery]
  BY <1>1, <1>3 DEF ReportFailure
<1>4. ASSUME ReportSuccess(e)
      PROVE  /\ fails' \in [Endpoints -> 0..PoolThreshold]
             /\ downFor' \in [Endpoints -> 0..PoolRecovery]
  BY <1>4 DEF ReportSuccess
<1> QED
  BY <1>1, <1>2, <1>3, <1>4

LEMMA TickFInv ==
    ASSUME FInv, Tick
    PROVE  FInv'
<1> USE FallbackConstants DEF FInv, Tick, callVars
<1>1. TypeOK'
  BY DEF TypeOK, Closed
<1>2. OpenIffTripped'
  BY DEF OpenIffTripped, TypeOK, Closed
<1>3. NoStuckProbe' /\ ProbeRuns' /\ HasEndpoint' /\ ReportedWhereSent'
  BY DEF NoStuckProbe, ProbeRuns, HasEndpoint, ReportedWhereSent
<1>4. OwnServer' /\ SeenBehind'
  BY DEF OwnServer, SeenBehind
<1> QED
  BY <1>1, <1>2, <1>3, <1>4

LEMMA ProgressFInv ==
    ASSUME FInv, NEW c \in Calls, Progress(c)
    PROVE  FInv'
<1> USE FallbackConstants DEF FInv
<1>1. pc[c] # "idle" /\ url[c] \in Endpoints /\ active \in Endpoints
  <2>1. pc[c] # "idle"
    BY DEF Progress, Token, RpcSucceeds, Returns, FailsForGood, BackOff, NextAttempt,
       DeadlinePassed, RoundFails, NextRound, GivesUp, Answered
  <2> QED
    BY <2>1 DEF HasEndpoint, TypeOK
<1>2. CASE Token(c)
  <2>1. try' \in [Calls -> 0..MaxRetries]
    BY <1>2 DEF Token, TypeOK
  <2> QED
    BY <1>1, <1>2, <2>1, InRoundFInv DEF Token
<1>3. CASE RpcSucceeds(c)
  <2>1. try' \in [Calls -> 0..MaxRetries]
    BY <1>3 DEF RpcSucceeds, TypeOK
  <2> QED
    BY <1>1, <1>3, <2>1, InRoundFInv DEF RpcSucceeds, Answered
<1>4. CASE Returns(c)
  <2>1. /\ fails' \in [Endpoints -> 0..PoolThreshold]
        /\ downFor' \in [Endpoints -> 0..PoolRecovery]
    BY <1>1, <1>4, ReportTypes DEF Returns
  <2> QED
    BY <1>4, <2>1, EndsFInv DEF Returns
<1>5. CASE FailsForGood(c)
  <2>1. UNCHANGED <<rrIndex, fails, downFor>>
    BY <1>5 DEF FailsForGood, poolVars
  <2> QED
    BY <1>1, <1>5, <2>1, EndsFInv DEF FailsForGood, TypeOK
<1>6. CASE BackOff(c)
  <2>1. try' \in [Calls -> 0..MaxRetries]
    BY <1>6 DEF BackOff, TypeOK
  <2> QED
    BY <1>1, <1>6, <2>1, InRoundFInv DEF BackOff, Answered
<1>7. CASE NextAttempt(c)
  <2>1. try' \in [Calls -> 0..MaxRetries]
    BY <1>7 DEF NextAttempt, TypeOK
  <2>2. CASE Limited
    BY <1>1, <1>7, <2>1, <2>2, InRoundFInv DEF NextAttempt, Dispatch
  <2>3. CASE ~Limited
    BY <1>1, <1>7, <2>1, <2>3, InRoundFInv DEF NextAttempt, Dispatch
  <2> QED
    BY <2>2, <2>3
<1>8. CASE DeadlinePassed(c)
  <2>1. UNCHANGED <<rrIndex, fails, downFor>>
    BY <1>8 DEF DeadlinePassed, poolVars
  <2> QED
    BY <1>1, <1>8, <2>1, EndsFInv DEF DeadlinePassed, TypeOK
<1>9. CASE RoundFails(c)
  <2>1. try' \in [Calls -> 0..MaxRetries]
    BY <1>9 DEF RoundFails, TypeOK
  <2> QED
    BY <1>1, <1>9, <2>1, InRoundFInv DEF RoundFails, Answered
<1>10. CASE NextRound(c)
  <2>1. /\ DownAfterFailure(url[c]) \in [Endpoints -> 0..PoolRecovery]
        /\ fails' \in [Endpoints -> 0..PoolThreshold]
    BY <1>1, <1>10, ReportTypes DEF NextRound
  <2>2. round[c] + 1 \in 0..(Size - 1)
    BY <1>10 DEF NextRound, LastRound, TypeOK
  <2> QED
    BY <1>10, <2>1, <2>2, RoundFInv DEF NextRound, ReportFailure
<1>11. CASE GivesUp(c)
  <2>1. /\ fails' \in [Endpoints -> 0..PoolThreshold]
        /\ downFor' \in [Endpoints -> 0..PoolRecovery]
    BY <1>1, <1>11, ReportTypes DEF GivesUp
  <2> QED
    BY <1>11, <2>1, EndsFInv DEF GivesUp
<1> QED
  BY <1>2, <1>3, <1>4, <1>5, <1>6, <1>7, <1>8, <1>9, <1>10, <1>11 DEF Progress

LEMMA StepFInv == FInv /\ [Next]_vars => FInv'
<1> SUFFICES ASSUME FInv, [Next]_vars PROVE FInv'
  OBVIOUS
<1>1. ASSUME NEW c \in Calls, Call(c)
      PROVE  FInv'
  <2>1. /\ downFor \in [Endpoints -> 0..PoolRecovery]
        /\ fails' \in [Endpoints -> 0..PoolThreshold] /\ downFor' = downFor
    BY <1>1 DEF Call, FInv, TypeOK
  <2>2. 0 \in 0..(Size - 1)
    BY FallbackConstants
  <2> QED
    BY <1>1, <2>1, <2>2, RoundFInv DEF Call
<1>2. CASE UNCHANGED vars
  BY <1>2 DEF vars, callVars, poolVars, brkVars, FInv, TypeOK, ProbeRuns, HasEndpoint,
     OwnServer, SeenBehind, NoStuckProbe, OpenIffTripped, ReportedWhereSent
<1> QED
  BY <1>1, <1>2, ProgressFInv, TickFInv DEF Next

LEMMA FallbackInv == Spec => []FInv
  BY InitFInv, StepFInv, PTL DEF Spec

-----------------------------------------------------------------------------
(* What the pool, the breakers and every call keep is always of its type:   *)
(* no failure counter passes its threshold, no deadline its length, and the *)
(* current server and the round-robin position are endpoints of the pool.   *)
THEOREM FallbackTypes == Spec => []TypeOK
<1>1. FInv => TypeOK
  BY DEF FInv
<1> QED
  BY <1>1, FallbackInv, PTL

(* halfOpenInFlight is never left behind (retry.ts:58-76): while it blocks   *)
(* the half-open breaker of an endpoint, some call is probing that endpoint. *)
THEOREM ProbeNeverStuck == Spec => []NoStuckProbe
<1>1. FInv => NoStuckProbe
  BY DEF FInv
<1> QED
  BY <1>1, FallbackInv, PTL

(* A breaker is open or half-open exactly when the failures counted since   *)
(* the last success reached its threshold, whatever the calls that share it *)
(* do in between.                                                           *)
THEOREM BreakerOpenIffTripped == Spec => []OpenIffTripped
<1>1. FInv => OpenIffTripped
  BY DEF FInv
<1> QED
  BY <1>1, FallbackInv, PTL

(* A call of executeWithFallback that no other call disturbed sends every    *)
(* request to the endpoint its outcome is reported for, and gives up with a  *)
(* retryable error only when it has picked every endpoint of the pool or     *)
(* found it unhealthy: it went back over all the places of the cycle.        *)
THEOREM CallServed == Spec => []UndisturbedCallServed
<1>1. ASSUME FInv, NEW c \in Calls, pc[c] = "caught", LastRound(c), ~disturbed[c]
      PROVE  seen[c] = Endpoints
  <2>1. url[c] \in Endpoints /\ \A j \in 0..round[c] : Back(url[c], j) \in seen[c]
    BY <1>1 DEF FInv, HasEndpoint, SeenBehind
  <2>2. round[c] = Size - 1 /\ seen[c] \subseteq Endpoints
    BY <1>1, FallbackConstants DEF FInv, TypeOK, LastRound
  <2>3. \A e \in Endpoints : e \in seen[c]
    BY <2>1, <2>2, AllBehind
  <2> QED
    BY <2>2, <2>3
<1>2. FInv => UndisturbedCallServed
  BY <1>1 DEF FInv, UndisturbedCallServed, FailedTriedAll
<1> QED
  BY <1>2, FallbackInv, PTL
=============================================================================
