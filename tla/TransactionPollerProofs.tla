----------------------- MODULE TransactionPollerProofs -----------------------
(***************************************************************************)
(* TransactionPoller implements PollContract, for every limit on attempts. *)
(***************************************************************************)
EXTENDS TransactionPoller, TLAPS

(* Where the loop is decides what the last read was and what is still      *)
(* allowed.  A delay is entered only with an attempt left, so a poll that  *)
(* comes out of one never falls through to the end of the loop.            *)
Shape ==
    /\ (pc = "done") <=> (verdict # "pending")
    /\ pc = "idle" => attempt = 0 /\ errors = 0 /\ lastRead = "none"
    /\ pc = "rpc" => attempt <= maxAttempts /\ errors < MaxConsecutiveErrors
    /\ pc = "delay" => attempt < maxAttempts /\ errors < MaxConsecutiveErrors

PInv == TypeOK /\ Shape

LEMMA InitPInv == Init => PInv
  BY PollerConstants
  DEF Init, PInv, TypeOK, Shape, MaxConsecutiveErrors

(* The end of the loop's body keeps the counter in range. *)
LEMMA StepPInv == PInv /\ [Next]_vars => PInv'
<1> SUFFICES ASSUME PInv, [Next]_vars PROVE PInv'
  OBVIOUS
<1>t. TypeOK /\ Shape /\ maxAttempts \in Nat /\ attempt \in Nat /\ errors \in Nat
  BY PollerConstants DEF PInv, TypeOK, MaxConsecutiveErrors
<1>1. CASE Poll
  BY <1>t, <1>1
  DEF Poll, LoopTop, Exhausted, Resolve, PInv, TypeOK, Shape,
      MaxConsecutiveErrors
<1>2. CASE ReadsFinal
  BY <1>t, <1>2
  DEF ReadsFinal, Resolve, PInv, TypeOK, Shape, MaxConsecutiveErrors
<1>3. CASE ReadsNotFound
  BY <1>t, <1>3
  DEF ReadsNotFound, LoopEnd, Exhausted, Resolve, PInv, TypeOK, Shape,
      MaxConsecutiveErrors
<1>4. CASE ReadFails
  BY <1>t, <1>4
  DEF ReadFails, LoopEnd, Exhausted, Resolve, PInv, TypeOK, Shape,
      MaxConsecutiveErrors
<1>5. CASE DelayEnds
  BY <1>t, <1>5
  DEF DelayEnds, LoopTop, Exhausted, Resolve, PInv, TypeOK, Shape,
      MaxConsecutiveErrors
<1>6. CASE Abort \/ Include
  BY <1>t, <1>6 DEF Abort, Include, PInv, TypeOK, Shape
<1>7. CASE UNCHANGED vars
  BY <1>t, <1>7 DEF vars, PInv, TypeOK, Shape
<1> QED
  BY <1>1, <1>2, <1>3, <1>4, <1>5, <1>6, <1>7 DEF Next, Progress

(* The poller's counters stay within options.maxAttempts and               *)
(* MAX_CONSECUTIVE_ERRORS (polling.ts:61-77, 141-158).                     *)
THEOREM PollerTypes == Spec => []TypeOK
<1>1. PInv => TypeOK
  BY DEF PInv
<1> QED
  BY InitPInv, StepPInv, <1>1, PTL DEF Spec

-----------------------------------------------------------------------------
(* Every step of the loop is a step of the contract or changes nothing the *)
(* contract speaks of.                                                     *)
LEMMA StepRefines ==
    PInv /\ [Next]_vars => [Contract!Next]_(Contract!vars)
<1> SUFFICES ASSUME PInv, [Next]_vars
             PROVE  Contract!Next \/ UNCHANGED Contract!vars
  OBVIOUS
<1>t. TypeOK /\ Shape /\ maxAttempts \in Nat /\ attempt \in Nat /\ errors \in Nat
  BY PollerConstants DEF PInv, TypeOK, MaxConsecutiveErrors
<1> USE DEF Contract!Pending
<1>1. CASE Poll
  <2>1. verdict = "pending" /\ lastRead = "none" /\ UNCHANGED <<lastRead, aborted, chain>>
    BY <1>t, <1>1 DEF Poll, Shape
  <2>2. \/ verdict' = "TX_TIMEOUT"
        \/ aborted /\ verdict' = "ABORTED"
        \/ UNCHANGED verdict
    BY <1>1, <2>1 DEF Poll, LoopTop, Exhausted, Resolve
  <2> QED
    BY <2>1, <2>2
    DEF Contract!Next, Contract!NoAttempt, Contract!Cancel, Contract!vars
<1>2. CASE ReadsFinal
  BY <1>t, <1>2
  DEF ReadsFinal, Resolve, Shape, Contract!Next, Contract!ReadFinal,
      Contract!VerdictOn, Contract!Final
<1>3. CASE ReadsNotFound
  BY <1>t, <1>3
  DEF ReadsNotFound, LoopEnd, Exhausted, Resolve, Shape, Contract!Next,
      Contract!ReadNotFound
<1>4. CASE ReadFails
  <2>1. /\ verdict = "pending" /\ lastRead' = "ERROR"
        /\ UNCHANGED <<chain, aborted>>
    BY <1>t, <1>4 DEF ReadFails, Shape
  <2>2. \/ verdict' \in {"pending", "TX_TIMEOUT"}
        \/ aborted /\ verdict' = "ABORTED"
    BY <1>4, <2>1 DEF ReadFails, LoopEnd, Exhausted, Resolve
  <2> QED
    BY <2>1, <2>2 DEF Contract!Next, Contract!ReadFails
<1>5. CASE DelayEnds
  <2>1. verdict = "pending" /\ UNCHANGED <<lastRead, aborted, chain>>
    BY <1>t, <1>5 DEF DelayEnds, Shape
  <2>2. (aborted /\ verdict' = "ABORTED") \/ UNCHANGED verdict
    BY <1>t, <1>5 DEF DelayEnds, LoopTop, Resolve, Shape
  <2> QED
    BY <2>1, <2>2 DEF Contract!Next, Contract!Cancel, Contract!vars
<1>6. CASE Abort
  BY <1>6 DEF Abort, Contract!Next, Contract!Abort
<1>7. CASE Include
  BY <1>7 DEF Include, Contract!Next, Contract!Include, Contract!Final
<1>8. CASE UNCHANGED vars
  BY <1>8 DEF vars, Contract!vars
<1> QED
  BY <1>1, <1>2, <1>3, <1>4, <1>5, <1>6, <1>7, <1>8 DEF Next, Progress

(* poll (polling.ts:57-191) keeps its promise for every maxAttempts: it    *)
(* resolves once, and the verdict is justified by the last completed read  *)
(* of the ledger or by the caller's signal.                                *)
THEOREM PollerImplements == Spec => ImplementsContract
<1>1. Init => Contract!Init
  BY DEF Init, Contract!Init, Contract!Pending
<1> QED
  BY InitPInv, StepPInv, StepRefines, <1>1, PTL
  DEF Spec, ImplementsContract, Contract!Spec

(* No getTransaction is sent once the signal has fired (polling.ts:79-91,  *)
(* 160-170), whatever the number of attempts.                              *)
THEOREM AbortIsFinal == Spec => AbortStops
<1>1. [Next]_vars => [(aborted /\ pc # "rpc") => pc' # "rpc"]_vars
  BY DEF Next, Progress, Poll, LoopTop, Exhausted, Resolve, ReadsFinal,
         ReadsNotFound, ReadFails, LoopEnd, DelayEnds, Abort, Include
<1> QED
  BY <1>1, PTL DEF Spec, AbortStops
=============================================================================
