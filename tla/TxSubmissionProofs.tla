------------------------- MODULE TxSubmissionProofs -------------------------
(***************************************************************************)
(* Type correctness of TxSubmission, and the invariants that queueing the  *)
(* complete lifecycle establishes, for every set of calls and networks and *)
(* every value of the bounds; then what the loops of Resubmission, which   *)
(* run on top of it, guarantee of an operation.                            *)
(***************************************************************************)
EXTENDS Resubmission, SequenceTheorems, TLAPS

-----------------------------------------------------------------------------
(* What the queue operations return. *)

LEMMA AppendCall ==
    ASSUME NEW S, NEW q \in Seq(S), NEW c \in S
    PROVE  /\ Append(q, c) \in Seq(S)
           /\ Append(q, c) # <<>>
           /\ q # <<>> => Head(Append(q, c)) = Head(q)
  BY AppendProperties, HeadTailProperties

LEMMA AppendIndex ==
    ASSUME NEW S, NEW q \in Seq(S), NEW c \in S
    PROVE  /\ Len(q) \in Nat
           /\ Len(Append(q, c)) = Len(q) + 1
           /\ \A i \in 1..Len(q) : Append(q, c)[i] = q[i]
           /\ Append(q, c)[Len(q) + 1] = c
  BY AppendProperties, LenProperties

LEMMA TailCall ==
    ASSUME NEW S, NEW q \in Seq(S), q # <<>>
    PROVE  Tail(q) \in Seq(S)
  BY HeadTailProperties

-----------------------------------------------------------------------------
(* Type correctness.  TypeOK alone is not inductive: Settle takes the tail *)
(* of the queue, which must not be empty, and the account is read from the *)
(* network of an RPC that must have been dispatched.                       *)

TInv == TypeOK /\ HeadRuns /\ Dispatched

LEMMA InitTyped == Init => TInv
<1> SUFFICES ASSUME Init PROVE TInv
  OBVIOUS
<1>1. CallTypes
  BY DEF Init, CallTypes, Step
<1>2. TxTypes
  BY TxConstants DEF Init, TxTypes
<1>3. ClientTypes
  BY DEF Init, ClientTypes
<1>4. LedgerTypes
  BY TxConstants DEF Init, LedgerTypes
<1>5. HeadRuns /\ Dispatched
  BY DEF Init, HeadRuns, Dispatched, Running, RpcStep
<1> QED
  BY <1>1, <1>2, <1>3, <1>4, <1>5 DEF TInv, TypeOK

(* The actions that only settle a call. *)
SettlesOnly(c) ==
    \/ KeyUnavailable(c) \/ SimulationFails(c) \/ NoSigner(c)
    \/ SignerRejects(c) \/ SendRefused(c) \/ RpcThrows(c) \/ PollConfirmed(c)
    \/ PollFailed(c) \/ PollNotConfirmed(c) \/ PollTimesOut(c)

(* What they have in common. *)
LEMMA SettlesOnlyFacts ==
    ASSUME HeadRuns, NEW c \in Calls, SettlesOnly(c)
    PROVE  /\ queue # <<>> /\ Head(queue) = c
           /\ pc[c] \in Running \cup {"queued"}
           /\ \E code \in Code : Settle(c, code)
           /\ UNCHANGED <<txVars, clientVars, ledgerVars>>
           /\ wire' \subseteq wire
<1>1. pc[c] \in Running => queue # <<>> /\ Head(queue) = c
  BY DEF HeadRuns
<1>2. CASE KeyUnavailable(c)
  BY <1>2 DEF KeyUnavailable, IsTurn, Code, netVars
<1>3. CASE SimulationFails(c) \/ NoSigner(c)
  BY <1>1, <1>3 DEF SimulationFails, NoSigner, Running, RpcStep, Code, netVars
<1>4. CASE SignerRejects(c) \/ RpcThrows(c)
  BY <1>1, <1>4 DEF SignerRejects, RpcThrows, Running, RpcStep, Code, netVars
<1>5. CASE SendRefused(c)
  BY <1>1, <1>5 DEF SendRefused, Answered, Running, RpcStep, Code
<1>6. CASE PollConfirmed(c) \/ PollFailed(c)
  BY <1>1, <1>6 DEF PollConfirmed, PollFailed, Running, Code, Conclusive,
      netVars
<1>7. CASE PollNotConfirmed(c) \/ PollTimesOut(c)
  BY <1>1, <1>7 DEF PollNotConfirmed, PollTimesOut, Running, Code, netVars
<1> QED
  BY <1>2, <1>3, <1>4, <1>5, <1>6, <1>7 DEF SettlesOnly

(* A call that settles keeps the types, and nothing runs afterwards. *)
LEMMA SettleTyped ==
    ASSUME TInv, NEW c \in Calls, NEW code \in Code,
           queue # <<>>, Head(queue) = c, Settle(c, code)
    PROVE  CallTypes' /\ (\A d \in Calls : pc'[d] \notin Running)
<1>1. queue' \in Seq(Calls) /\ settled' \in Seq(Calls)
  BY AppendCall, TailCall DEF TInv, TypeOK, CallTypes, Settle
<1>2. pc' \in [Calls -> Step] /\ result' \in [Calls -> Code \cup {"none"}]
  BY DEF TInv, TypeOK, CallTypes, Settle, Step
<1>3. \A d \in Calls : pc'[d] \notin Running
  BY DEF TInv, TypeOK, CallTypes, HeadRuns, Settle, Running, RpcStep
<1> QED
  BY <1>1, <1>2, <1>3 DEF CallTypes

LEMMA StepTyped == TInv /\ [Next]_vars => TInv'
<1> SUFFICES ASSUME TInv, [Next]_vars PROVE TInv'
  OBVIOUS
<1>t. CallTypes /\ TxTypes /\ ClientTypes /\ LedgerTypes /\ HeadRuns /\ Dispatched
  BY DEF TInv, TypeOK
<1>q. ASSUME CallTypes', TxTypes', ClientTypes', LedgerTypes', HeadRuns', Dispatched'
      PROVE  TInv'
  BY <1>q DEF TInv, TypeOK
<1>1. ASSUME NEW c \in Calls, SubmitTransaction(c) PROVE TInv'
  <2>1. CallTypes'
    BY <1>t, <1>1, AppendCall DEF SubmitTransaction, CallTypes, Step
  <2>2. TxTypes' /\ ClientTypes' /\ LedgerTypes'
    BY <1>t, <1>1, AppendCall DEF SubmitTransaction, TxTypes, ClientTypes,
        LedgerTypes, txVars, clientVars, netVars, ledgerVars
  <2>3. HeadRuns' /\ Dispatched'
    BY <1>t, <1>1, AppendCall DEF SubmitTransaction, CallTypes, HeadRuns,
        Dispatched, txVars, Running, RpcStep
  <2> QED
    BY <2>1, <2>2, <2>3, <1>q
<1>2. ASSUME NEW c \in Calls, SettlesOnly(c) PROVE TInv'
  <2>1. PICK code \in Code : Settle(c, code)
    BY <1>t, <1>2, SettlesOnlyFacts
  <2>2. UNCHANGED <<txVars, clientVars, ledgerVars>> /\ wire' \subseteq wire
    BY <1>t, <1>2, SettlesOnlyFacts
  <2>3. CallTypes' /\ (\A d \in Calls : pc'[d] \notin Running)
    BY <1>t, <1>2, <2>1, SettlesOnlyFacts, SettleTyped
  <2>4. TxTypes' /\ ClientTypes'
    BY <1>t, <2>2 DEF TxTypes, ClientTypes, txVars, clientVars
  <2>5. LedgerTypes'
    BY <1>t, <2>2 DEF LedgerTypes, ledgerVars
  <2>6. HeadRuns' /\ Dispatched'
    BY <2>3 DEF HeadRuns, Dispatched, Running
  <2> QED
    BY <2>3, <2>4, <2>5, <2>6, <1>q
<1>3. ASSUME NEW c \in Calls, Start(c) PROVE TInv'
  <2>1. CallTypes'
    BY <1>t, <1>3, TxConstants
    DEF Start, Dispatch, IsTurn, CallTypes, Step, RpcStep
  <2>2. TxTypes'
    BY <1>t, <1>3, TxConstants
    DEF Start, Dispatch, IsTurn, TxTypes, ClientTypes
  <2>3. ClientTypes'
    BY <1>t, <1>3, TxConstants
    DEF Start, Dispatch, IsTurn, ClientTypes, clientVars
  <2>4. LedgerTypes'
    BY <1>t, <1>3, TxConstants
    DEF Start, Dispatch, IsTurn, LedgerTypes, ClientTypes, netVars, ledgerVars
  <2>5. HeadRuns' /\ Dispatched'
    BY <1>t, <1>3, TxConstants
    DEF Start, Dispatch, IsTurn, CallTypes, TxTypes, ClientTypes, HeadRuns,
        Dispatched, Running, RpcStep
  <2> QED
    BY <2>1, <2>2, <2>3, <2>4, <2>5, <1>q
<1>4. ASSUME NEW c \in Calls, AccountArrives(c) PROVE TInv'
  <2>1. CallTypes'
    BY <1>t, <1>4, TxConstants
    DEF AccountArrives, Dispatch, CallTypes, Step, RpcStep
  <2>2. TxTypes'
    BY <1>t, <1>4, TxConstants
    DEF AccountArrives, Dispatch, TxTypes, ClientTypes, LedgerTypes,
        Dispatched, RpcStep
  <2>3. ClientTypes'
    BY <1>t, <1>4, TxConstants
    DEF AccountArrives, Dispatch, ClientTypes, clientVars
  <2>4. LedgerTypes'
    BY <1>t, <1>4, TxConstants
    DEF AccountArrives, Dispatch, LedgerTypes, ClientTypes, netVars, ledgerVars
  <2>5. HeadRuns' /\ Dispatched'
    BY <1>t, <1>4, TxConstants
    DEF AccountArrives, Dispatch, CallTypes, TxTypes, ClientTypes, HeadRuns,
        Dispatched, Running, RpcStep
  <2> QED
    BY <2>1, <2>2, <2>3, <2>4, <2>5, <1>q
<1>5. ASSUME NEW c \in Calls, SimulationSucceeds(c) PROVE TInv'
  <2>1. CallTypes'
    BY <1>t, <1>5
    DEF SimulationSucceeds, CallTypes, Step, RpcStep
  <2>2. TxTypes'
    BY <1>t, <1>5
    DEF SimulationSucceeds, TxTypes, ClientTypes
  <2>3. ClientTypes'
    BY <1>t, <1>5
    DEF SimulationSucceeds, ClientTypes, clientVars
  <2>4. LedgerTypes'
    BY <1>t, <1>5
    DEF SimulationSucceeds, LedgerTypes, ClientTypes, netVars, ledgerVars
  <2>5. HeadRuns' /\ Dispatched'
    BY <1>t, <1>5
    DEF SimulationSucceeds, CallTypes, TxTypes, ClientTypes, HeadRuns,
        Dispatched, Running, RpcStep
  <2> QED
    BY <2>1, <2>2, <2>3, <2>4, <2>5, <1>q
<1>6. ASSUME NEW c \in Calls, Signed(c) PROVE TInv'
  <2>1. CallTypes'
    BY <1>t, <1>6, TxConstants
    DEF Signed, Dispatch, CallTypes, Step, RpcStep
  <2>2. TxTypes'
    BY <1>t, <1>6, TxConstants
    DEF Signed, Dispatch, TxTypes, ClientTypes
  <2>3. ClientTypes'
    BY <1>t, <1>6, TxConstants
    DEF Signed, Dispatch, ClientTypes, clientVars
  <2>4. LedgerTypes'
    BY <1>t, <1>6, TxConstants
    DEF Signed, Dispatch, LedgerTypes, ClientTypes, netVars, ledgerVars
  <2>5. HeadRuns' /\ Dispatched'
    BY <1>t, <1>6, TxConstants
    DEF Signed, Dispatch, CallTypes, TxTypes, ClientTypes, HeadRuns,
        Dispatched, Running, RpcStep
  <2> QED
    BY <2>1, <2>2, <2>3, <2>4, <2>5, <1>q
<1>7. ASSUME NEW c \in Calls, SendAccepted(c) \/ SendTryAgainLater(c) PROVE TInv'
  <2>1. CallTypes'
    BY <1>t, <1>7
    DEF SendAccepted, SendTryAgainLater, Answered, PollerNet, CallTypes, Step,
        RpcStep
  <2>2. TxTypes'
    BY <1>t, <1>7
    DEF SendAccepted, SendTryAgainLater, Answered, PollerNet, TxTypes,
        ClientTypes
  <2>3. ClientTypes'
    BY <1>t, <1>7
    DEF SendAccepted, SendTryAgainLater, Answered, PollerNet, ClientTypes,
        clientVars
  <2>4. LedgerTypes'
    BY <1>t, <1>7
    DEF SendAccepted, SendTryAgainLater, Answered, PollerNet, LedgerTypes,
        ClientTypes, netVars, ledgerVars
  <2>5. HeadRuns' /\ Dispatched'
    BY <1>t, <1>7
    DEF SendAccepted, SendTryAgainLater, Answered, PollerNet, CallTypes,
        TxTypes, ClientTypes, HeadRuns, Dispatched, Running, RpcStep
  <2> QED
    BY <2>1, <2>2, <2>3, <2>4, <2>5, <1>q
<1>8. ASSUME NEW c \in Calls, RpcRetry(c) PROVE TInv'
  <2>1. CallTypes'
    BY <1>t, <1>8, TxConstants
    DEF RpcRetry, CallTypes, Step, RpcStep
  <2>2. TxTypes'
    BY <1>t, <1>8, TxConstants
    DEF RpcRetry, TxTypes, ClientTypes
  <2>3. ClientTypes'
    BY <1>t, <1>8, TxConstants
    DEF RpcRetry, ClientTypes, clientVars
  <2>4. LedgerTypes'
    BY <1>t, <1>8, TxConstants
    DEF RpcRetry, LedgerTypes, ClientTypes, netVars, ledgerVars
  <2>5. HeadRuns' /\ Dispatched'
    BY <1>t, <1>8, TxConstants
    DEF RpcRetry, CallTypes, TxTypes, ClientTypes, HeadRuns, Dispatched,
        Running, RpcStep
  <2> QED
    BY <2>1, <2>2, <2>3, <2>4, <2>5, <1>q
<1>9. ASSUME NEW n \in Networks, SwitchNetwork(n) PROVE TInv'
  <2>1. ClientTypes'
    BY <1>t, <1>9
    DEF SwitchNetwork, SetNetwork, SetNetworkBadUrl, SetNetworkSignerMismatch,
        ClientTypes
  <2>2. UNCHANGED <<callVars, netVars>>
    BY <1>9
    DEF SwitchNetwork, SetNetwork, SetNetworkBadUrl, SetNetworkSignerMismatch
  <2>3. CallTypes' /\ TxTypes'
    BY <1>t, <2>2 DEF CallTypes, TxTypes, callVars, txVars
  <2>4. LedgerTypes'
    BY <1>t, <2>2 DEF LedgerTypes, netVars, ledgerVars
  <2>5. HeadRuns' /\ Dispatched'
    BY <1>t, <2>2 DEF HeadRuns, Dispatched, callVars, txVars
  <2> QED
    BY <2>1, <2>3, <2>4, <2>5, <1>q
<1>10. ASSUME LedgerStep PROVE TInv'
  <2>1. UNCHANGED <<callVars, clientVars>>
    BY <1>10
    DEF LedgerStep, NetworkReceives, Include, Drop, ForeignTransaction
  <2>2. CallTypes' /\ TxTypes'
    BY <1>t, <2>1 DEF CallTypes, TxTypes, callVars, txVars
  <2>3. ClientTypes'
    BY <1>t, <2>1 DEF ClientTypes, clientVars
  <2>4. HeadRuns' /\ Dispatched'
    BY <1>t, <2>1 DEF HeadRuns, Dispatched, callVars, txVars
  <2>5. ASSUME NEW n \in Networks, NEW c \in Calls,
               NetworkReceives(n, c) \/ Drop(n, c)
        PROVE  LedgerTypes'
    BY <1>t, <2>5 DEF NetworkReceives, Drop, LedgerTypes
  <2>6. ASSUME NEW n \in Networks, accSeq[n] < MaxSeq,
               accSeq' = [accSeq EXCEPT ![n] = @ + 1]
        PROVE  accSeq' \in [Networks -> 0..MaxSeq]
    BY <1>t, <2>6, TxConstants DEF LedgerTypes
  <2>7. ASSUME NEW n \in Networks, NEW c \in Calls, Include(n, c)
        PROVE  LedgerTypes'
    <3>1. accSeq' \in [Networks -> 0..MaxSeq]
      BY <2>6, <2>7 DEF Include
    <3> QED
      BY <1>t, <2>7, <3>1 DEF Include, LedgerTypes
  <2>8. ASSUME NEW n \in Networks, ForeignTransaction(n) PROVE LedgerTypes'
    <3>1. accSeq' \in [Networks -> 0..MaxSeq]
      BY <2>6, <2>8 DEF ForeignTransaction
    <3> QED
      BY <1>t, <2>8, <3>1 DEF ForeignTransaction, LedgerTypes
  <2>9. LedgerTypes'
    BY <1>10, <2>5, <2>7, <2>8 DEF LedgerStep
  <2> QED
    BY <2>2, <2>3, <2>4, <2>9, <1>q
<1>11. CASE UNCHANGED vars
  <2>1. UNCHANGED <<callVars, clientVars, netVars>>
    BY <1>11 DEF vars
  <2>2. CallTypes' /\ TxTypes'
    BY <1>t, <2>1 DEF CallTypes, TxTypes, callVars, txVars
  <2>3. ClientTypes' /\ LedgerTypes'
    BY <1>t, <2>1 DEF ClientTypes, LedgerTypes, clientVars, netVars, ledgerVars
  <2>4. HeadRuns' /\ Dispatched'
    BY <1>t, <2>1 DEF HeadRuns, Dispatched, callVars, txVars
  <2> QED
    BY <2>2, <2>3, <2>4, <1>q
<1> QED
  BY <1>1, <1>2, <1>3, <1>4, <1>5, <1>6, <1>7, <1>8, <1>9, <1>10, <1>11
  DEF Next, Progress, SettlesOnly

(* Type correctness for every instance, with what it rests on: only the    *)
(* head of _submissionQueue ever runs (client.ts:494-511).                 *)
THEOREM TypeCorrect == Spec => [](TypeOK /\ HeadRuns)
<1>1. Init => TInv
  BY InitTyped
<1>2. TInv /\ [Next]_vars => TInv'
  BY StepTyped
<1>3. TInv => TypeOK /\ HeadRuns
  BY DEF TInv
<1> QED
  BY <1>1, <1>2, <1>3, PTL DEF Spec

-----------------------------------------------------------------------------
(* The safety invariants.  Steps are grouped by what they do to the        *)
(* variables the invariants speak about.                                   *)

Early == Unbuilt \cup {"simulate", "sign"}

(* The steps of a call that neither read an account nor settle it. *)
Moves(c) ==
    \/ SubmitTransaction(c) \/ Start(c) \/ SimulationSucceeds(c) \/ Signed(c)
    \/ SendAccepted(c) \/ SendTryAgainLater(c) \/ RpcRetry(c)

LEMMA MoveFacts ==
    ASSUME TInv, NEW c \in Calls, Moves(c)
    PROVE  /\ UNCHANGED <<result, settled, seqNo, acctNet, ledgerVars>>
           /\ \A d \in Calls \ {c} : pc'[d] = pc[d] /\ pollNet'[d] = pollNet[d]
           /\ pc[c] # "done" /\ pc'[c] # "done"
           /\ pc'[c] \in Unbuilt => pc[c] \in Unbuilt
           /\ pc'[c] \in Early => pc[c] \in Early /\ wire' \subseteq wire
           /\ \A n \in Networks, d \in Calls \ {c} :
                 <<n, d>> \in wire' => <<n, d>> \in wire
<1>t. CallTypes /\ TxTypes
  BY DEF TInv, TypeOK
<1>1. CASE SubmitTransaction(c)
  BY <1>t, <1>1
  DEF SubmitTransaction, CallTypes, TxTypes, Early, Unbuilt, txVars, netVars
<1>2. CASE Start(c)
  BY <1>t, <1>2
  DEF Start, Dispatch, CallTypes, TxTypes, Early, Unbuilt, netVars
<1>3. CASE SimulationSucceeds(c)
  BY <1>t, <1>3
  DEF SimulationSucceeds, CallTypes, TxTypes, Early, Unbuilt, netVars
<1>4. CASE Signed(c)
  BY <1>t, <1>4 DEF Signed, Dispatch, CallTypes, TxTypes, Early, Unbuilt
<1>5. CASE SendAccepted(c) \/ SendTryAgainLater(c)
  BY <1>t, <1>5
  DEF SendAccepted, SendTryAgainLater, Answered, CallTypes, TxTypes, Early,
      Unbuilt
<1>6. CASE RpcRetry(c)
  BY <1>t, <1>6 DEF RpcRetry, CallTypes, TxTypes, Early, Unbuilt, RpcStep
<1> QED
  BY <1>1, <1>2, <1>3, <1>4, <1>5, <1>6 DEF Moves

LEMMA AccountFacts ==
    ASSUME TInv, NEW c \in Calls, AccountArrives(c)
    PROVE  /\ UNCHANGED <<result, settled, pollNet, ledgerVars, wire>>
           /\ pc[c] = "getAccount" /\ pc' = [pc EXCEPT ![c] = "simulate"]
           /\ reqNet[c] \in Networks
           /\ seqNo' = [seqNo EXCEPT ![c] = accSeq[reqNet[c]] + 1]
           /\ acctNet' = [acctNet EXCEPT ![c] = reqNet[c]]
  BY DEF TInv, Dispatched, RpcStep, AccountArrives, Dispatch, netVars

(* What the settling steps may report. *)
LEMMA VerdictFacts ==
    ASSUME TInv, NEW c \in Calls, SettlesOnly(c)
    PROVE  /\ pc' = [pc EXCEPT ![c] = "done"]
           /\ settled' = Append(settled, c)
           /\ result' = [result EXCEPT ![c] = result'[c]]
           /\ result'[c] # "none"
           /\ pc[c] \notin {"idle", "done"}
           /\ pc[c] \in Unbuilt => result'[c] \notin Conclusive
           /\ result'[c] = "SUCCESS" => <<pollNet[c], c>> \in applied
           /\ result'[c] = "TX_FAILED" => <<pollNet[c], c>> \in failed
           /\ result'[c] \in {"SIMULATION_FAILED", "NO_SIGNER"} =>
                 pc[c] = "simulate"
<1>t. CallTypes
  BY DEF TInv, TypeOK
<1>1. CASE KeyUnavailable(c)
  BY <1>t, <1>1
  DEF KeyUnavailable, Settle, CallTypes, Unbuilt, Conclusive
<1>2. CASE SimulationFails(c) \/ NoSigner(c)
  BY <1>t, <1>2
  DEF SimulationFails, NoSigner, Settle, CallTypes, Unbuilt, Conclusive
<1>3. CASE SignerRejects(c) \/ RpcThrows(c)
  BY <1>t, <1>3
  DEF SignerRejects, RpcThrows, Settle, CallTypes, Unbuilt, Conclusive, RpcStep
<1>4. CASE SendRefused(c)
  BY <1>t, <1>4 DEF SendRefused, Settle, CallTypes, Unbuilt, Conclusive
<1>5. CASE PollConfirmed(c) \/ PollFailed(c)
  BY <1>t, <1>5
  DEF PollConfirmed, PollFailed, Settle, CallTypes, Unbuilt, Conclusive
<1>6. CASE PollNotConfirmed(c) \/ PollTimesOut(c)
  BY <1>t, <1>6
  DEF PollNotConfirmed, PollTimesOut, Settle, CallTypes, Unbuilt, Conclusive
<1> QED
  BY <1>1, <1>2, <1>3, <1>4, <1>5, <1>6 DEF SettlesOnly

(* What a step of the ledger may change. *)
LEMMA LedgerFacts ==
    ASSUME TInv, IncludedIsSpent, LedgerStep
    PROVE  /\ UNCHANGED callVars
           /\ \A n \in Networks : accSeq[n] <= accSeq'[n]
           /\ \A n \in Networks, c \in Calls :
                 <<n, c>> \in wire' \cup mempool' \cup applied' \cup failed' =>
                    <<n, c>> \in wire \cup mempool \cup OnChain
           /\ \A n \in Networks, c \in Calls :
                 <<n, c>> \in applied' \cup failed' => accSeq'[n] >= seqNo[c]
           /\ applied \subseteq applied' /\ failed \subseteq failed'
<1>t. LedgerTypes /\ TxTypes
  BY DEF TInv, TypeOK
<1>n. \A n \in Networks : accSeq[n] \in Nat
  BY <1>t, TxConstants DEF LedgerTypes
<1>m. \A c \in Calls : seqNo[c] \in Nat
  BY <1>t, TxConstants DEF TxTypes
<1>1. ASSUME NEW n \in Networks, NEW c \in Calls,
             NetworkReceives(n, c) \/ Drop(n, c)
      PROVE  /\ UNCHANGED <<callVars, accSeq, applied, failed>>
             /\ wire' \cup mempool' \subseteq wire \cup mempool
  BY <1>1 DEF NetworkReceives, Drop
<1>3. ASSUME NEW n \in Networks, ForeignTransaction(n)
      PROVE  /\ UNCHANGED <<callVars, wire, mempool, applied, failed>>
             /\ accSeq' = [accSeq EXCEPT ![n] = @ + 1]
  BY <1>3 DEF ForeignTransaction
<1>4. CASE \E n \in Networks, c \in Calls : NetworkReceives(n, c) \/ Drop(n, c)
  BY <1>n, <1>1, <1>4 DEF IncludedIsSpent, OnChain
<1>5. CASE \E n \in Networks, c \in Calls : Include(n, c)
  <2>1. PICK n \in Networks, c \in Calls : Include(n, c)
    BY <1>5
  <2>a. /\ UNCHANGED <<callVars, wire>>
        /\ mempool' \subseteq mempool
        /\ applied \subseteq applied' /\ failed \subseteq failed'
        /\ applied' \cup failed' = OnChain \cup {<<n, c>>}
        /\ <<n, c>> \in mempool
        /\ accSeq' = [accSeq EXCEPT ![n] = accSeq[n] + 1]
        /\ seqNo[c] = accSeq[n] + 1
    BY <2>1 DEF Include, OnChain
  <2>2. \A m \in Networks :
           /\ accSeq'[m] >= accSeq[m] /\ accSeq'[m] \in Nat
           /\ m = n => accSeq'[m] = accSeq[n] + 1
    BY <1>t, <1>n, <2>a DEF LedgerTypes
  <2>3. ASSUME NEW m \in Networks, NEW d \in Calls,
               <<m, d>> \in applied' \cup failed'
        PROVE  accSeq'[m] >= seqNo[d]
    <3>1. CASE <<m, d>> \in OnChain
      BY <1>n, <1>m, <2>2, <3>1 DEF IncludedIsSpent
    <3>2. CASE m = n /\ d = c
      BY <1>n, <1>m, <2>a, <2>2, <3>2
    <3> QED
      BY <2>a, <2>3, <3>1, <3>2
  <2> QED
    BY <2>a, <2>2, <2>3 DEF OnChain
<1>6. CASE \E n \in Networks : ForeignTransaction(n)
  <2>1. \A m \in Networks : accSeq'[m] >= accSeq[m] /\ accSeq'[m] \in Nat
    BY <1>t, <1>n, <1>3, <1>6 DEF LedgerTypes
  <2> QED
    BY <1>n, <1>m, <1>3, <1>6, <2>1 DEF IncludedIsSpent, OnChain
<1> QED
  BY <1>4, <1>5, <1>6 DEF LedgerStep

(* Every step is one of these. *)
LEMMA StepKinds ==
    ASSUME [Next]_vars
    PROVE  \/ \E c \in Calls : Moves(c)
           \/ \E c \in Calls : AccountArrives(c)
           \/ \E c \in Calls : SettlesOnly(c)
           \/ LedgerStep
           \/ UNCHANGED <<callVars, netVars>>
<1>1. CASE \E n \in Networks : SwitchNetwork(n)
  BY <1>1
  DEF SwitchNetwork, SetNetwork, SetNetworkBadUrl, SetNetworkSignerMismatch
<1>2. CASE UNCHANGED vars
  BY <1>2 DEF vars
<1> QED
  BY <1>1, <1>2 DEF Next, Progress, Moves, SettlesOnly

-----------------------------------------------------------------------------
(* Each part of the invariant is preserved. *)

LEMMA DoneStep ==
    ASSUME TInv, DoneIsSettled, [Next]_vars PROVE DoneIsSettled'
<1>t. CallTypes
  BY DEF TInv, TypeOK
<1>1. ASSUME NEW c \in Calls, Moves(c) PROVE DoneIsSettled'
  BY <1>1, MoveFacts DEF DoneIsSettled
<1>2. ASSUME NEW c \in Calls, AccountArrives(c) PROVE DoneIsSettled'
  BY <1>t, <1>2, AccountFacts DEF DoneIsSettled, CallTypes
<1>3. ASSUME NEW c \in Calls, SettlesOnly(c) PROVE DoneIsSettled'
  <2>1. /\ pc' = [pc EXCEPT ![c] = "done"]
        /\ settled' = Append(settled, c)
        /\ result' = [result EXCEPT ![c] = result'[c]] /\ result'[c] # "none"
    BY <1>3, VerdictFacts
  <2>2. ASSUME NEW d \in Calls
        PROVE  (\E i \in 1..Len(settled') : settled'[i] = d) <=>
                  (d = c \/ \E i \in 1..Len(settled) : settled[i] = d)
    BY <1>t, <2>1, AppendIndex DEF CallTypes
  <2>3. ASSUME NEW d \in Calls
        PROVE  /\ (pc'[d] = "done") <=> (d = c \/ pc[d] = "done")
               /\ (result'[d] # "none") <=> (d = c \/ result[d] # "none")
    BY <1>t, <2>1 DEF CallTypes
  <2> QED
    BY <2>2, <2>3 DEF DoneIsSettled
<1>4. CASE LedgerStep \/ UNCHANGED <<callVars, netVars>>
  <2>1. UNCHANGED callVars
    BY <1>4
    DEF LedgerStep, NetworkReceives, Include, Drop, ForeignTransaction
  <2> QED
    BY <2>1 DEF DoneIsSettled, callVars
<1> QED
  BY <1>1, <1>2, <1>3, <1>4, StepKinds

LEMMA EarlyStep ==
    ASSUME TInv, NothingEarly, IncludedIsSpent, [Next]_vars
    PROVE  NothingEarly'
<1>t. CallTypes /\ TxTypes
  BY DEF TInv, TypeOK
<1>1. ASSUME NEW c \in Calls, Moves(c) PROVE NothingEarly'
  <2>1. UNCHANGED <<seqNo, mempool, applied, failed>>
    BY <1>1, MoveFacts DEF ledgerVars
  <2>2. /\ pc'[c] \in Unbuilt => pc[c] \in Unbuilt
        /\ pc'[c] \in Early => pc[c] \in Early /\ wire' \subseteq wire
        /\ \A d \in Calls \ {c} : pc'[d] = pc[d]
        /\ \A n \in Networks, d \in Calls \ {c} :
              <<n, d>> \in wire' => <<n, d>> \in wire
    BY <1>1, MoveFacts
  <2> QED
    BY <2>1, <2>2 DEF NothingEarly, Early, OnChain
<1>2. ASSUME NEW c \in Calls, AccountArrives(c) PROVE NothingEarly'
  <2>1. /\ UNCHANGED <<wire, mempool, applied, failed>>
        /\ pc[c] = "getAccount" /\ pc' = [pc EXCEPT ![c] = "simulate"]
        /\ seqNo' = [seqNo EXCEPT ![c] = accSeq[reqNet[c]] + 1]
    BY <1>2, AccountFacts DEF ledgerVars
  <2>2. pc'[c] = "simulate" /\ "simulate" \notin Unbuilt
    BY <1>t, <2>1 DEF CallTypes, Unbuilt
  <2>3. \A d \in Calls \ {c} : pc'[d] = pc[d] /\ seqNo'[d] = seqNo[d]
    BY <1>t, <2>1 DEF CallTypes, TxTypes
  <2>4. \A n \in Networks : <<n, c>> \notin wire \cup mempool \cup OnChain
    BY <2>1 DEF NothingEarly, Unbuilt
  <2>5. UNCHANGED OnChain
    BY <2>1 DEF OnChain
  <2> QED
    BY <2>1, <2>2, <2>3, <2>4, <2>5 DEF NothingEarly
<1>3. ASSUME NEW c \in Calls, SettlesOnly(c) PROVE NothingEarly'
  <2>1. pc' = [pc EXCEPT ![c] = "done"]
    BY <1>3, VerdictFacts
  <2>2. UNCHANGED <<seqNo, mempool, applied, failed>> /\ wire' \subseteq wire
    BY <1>3, SettlesOnlyFacts DEF TInv, txVars, ledgerVars
  <2> QED
    BY <1>t, <2>1, <2>2 DEF NothingEarly, CallTypes, Unbuilt, OnChain
<1>4. CASE LedgerStep
  <2>1. UNCHANGED <<pc, seqNo>>
    BY <1>4, LedgerFacts DEF callVars, txVars
  <2>2. \A n \in Networks, c \in Calls :
           <<n, c>> \in wire' \cup mempool' \cup applied' \cup failed' =>
              <<n, c>> \in wire \cup mempool \cup OnChain
    BY <1>4, LedgerFacts
  <2> QED
    BY <2>1, <2>2 DEF NothingEarly, OnChain
<1>5. CASE UNCHANGED <<callVars, netVars>>
  BY <1>5 DEF NothingEarly, OnChain, callVars, txVars, netVars, ledgerVars
<1> QED
  BY <1>1, <1>2, <1>3, <1>4, <1>5, StepKinds

LEMMA SpentStep ==
    ASSUME TInv, NothingEarly, IncludedIsSpent, [Next]_vars
    PROVE  IncludedIsSpent'
<1>t. CallTypes /\ TxTypes
  BY DEF TInv, TypeOK
<1>1. ASSUME NEW c \in Calls, Moves(c) PROVE IncludedIsSpent'
  BY <1>1, MoveFacts DEF IncludedIsSpent, OnChain, ledgerVars
<1>2. ASSUME NEW c \in Calls, AccountArrives(c) PROVE IncludedIsSpent'
  <2>1. \A n \in Networks : <<n, c>> \notin OnChain
    BY <1>2, AccountFacts DEF NothingEarly, Unbuilt
  <2> QED
    BY <1>t, <1>2, <2>1, AccountFacts
    DEF IncludedIsSpent, TxTypes, OnChain, ledgerVars
<1>3. ASSUME NEW c \in Calls, SettlesOnly(c) PROVE IncludedIsSpent'
  BY <1>3, SettlesOnlyFacts
  DEF TInv, IncludedIsSpent, OnChain, txVars, ledgerVars
<1>4. CASE LedgerStep
  BY <1>4, LedgerFacts DEF IncludedIsSpent, OnChain, callVars, txVars
<1>5. CASE UNCHANGED <<callVars, netVars>>
  BY <1>5 DEF IncludedIsSpent, OnChain, callVars, txVars, netVars, ledgerVars
<1> QED
  BY <1>1, <1>2, <1>3, <1>4, <1>5, StepKinds

LEMMA PolledStep ==
    ASSUME TInv, DoneIsSettled, IncludedIsSpent, VerdictIsPolled, [Next]_vars
    PROVE  VerdictIsPolled'
<1>t. CallTypes
  BY DEF TInv, TypeOK
<1>1. ASSUME NEW c \in Calls, Moves(c) PROVE VerdictIsPolled'
  <2>1. result[c] = "none"
    BY <1>1, MoveFacts DEF DoneIsSettled
  <2> QED
    BY <1>1, <2>1, MoveFacts DEF VerdictIsPolled, ledgerVars
<1>2. ASSUME NEW c \in Calls, AccountArrives(c) PROVE VerdictIsPolled'
  BY <1>2, AccountFacts DEF VerdictIsPolled, ledgerVars
<1>3. ASSUME NEW c \in Calls, SettlesOnly(c) PROVE VerdictIsPolled'
  <2>1. UNCHANGED <<pollNet, applied, failed>>
    BY <1>3, SettlesOnlyFacts DEF TInv, txVars, ledgerVars
  <2>2. /\ result'[c] = "SUCCESS" => <<pollNet[c], c>> \in applied
        /\ result'[c] = "TX_FAILED" => <<pollNet[c], c>> \in failed
        /\ \A d \in Calls \ {c} : result'[d] = result[d]
    BY <1>t, <1>3, VerdictFacts DEF CallTypes
  <2> QED
    BY <2>1, <2>2 DEF VerdictIsPolled
<1>4. CASE LedgerStep
  BY <1>4, LedgerFacts DEF VerdictIsPolled, callVars, txVars
<1>5. CASE UNCHANGED <<callVars, netVars>>
  BY <1>5 DEF VerdictIsPolled, callVars, txVars, netVars, ledgerVars
<1> QED
  BY <1>1, <1>2, <1>3, <1>4, <1>5, StepKinds

LEMMA TrueStep ==
    ASSUME TInv, TInv', DoneIsSettled, NothingEarly, IncludedIsSpent,
           VerdictsAreTrue, VerdictIsPolled', [Next]_vars
    PROVE  VerdictsAreTrue'
<1> DEFINE Unsent == {"SIMULATION_FAILED", "NO_SIGNER"}
<1> DEFINE Clean(d) ==
      \A n \in Networks : <<n, d>> \notin wire \cup mempool \cup OnChain
<1>t. CallTypes
  BY DEF TInv, TypeOK
<1>0. \A d \in Calls : result[d] \in Unsent => pc[d] = "done" /\ Clean(d)
  BY DEF DoneIsSettled, VerdictsAreTrue
<1>1. ASSUME NEW c \in Calls, Moves(c), NEW d \in Calls, result'[d] \in Unsent
      PROVE  Clean(d)'
  <2>1. UNCHANGED <<result, mempool, applied, failed>> /\ pc[c] # "done"
    BY <1>1, MoveFacts DEF ledgerVars
  <2>2. \A n \in Networks : d # c /\ <<n, d>> \in wire' => <<n, d>> \in wire
    BY <1>1, MoveFacts
  <2> QED
    BY <1>0, <1>1, <2>1, <2>2 DEF OnChain
<1>2. ASSUME NEW c \in Calls, AccountArrives(c),
             NEW d \in Calls, result'[d] \in Unsent
      PROVE  Clean(d)'
  BY <1>0, <1>2, AccountFacts DEF OnChain, ledgerVars
<1>3. ASSUME NEW c \in Calls, SettlesOnly(c),
             NEW d \in Calls, result'[d] \in Unsent
      PROVE  Clean(d)'
  <2>1. UNCHANGED <<mempool, applied, failed>> /\ wire' \subseteq wire
    BY <1>3, SettlesOnlyFacts DEF TInv, ledgerVars
  <2>2. d = c => pc[c] = "simulate"
    BY <1>3, VerdictFacts
  <2>3. d # c => result'[d] = result[d]
    BY <1>t, <1>3, VerdictFacts DEF CallTypes
  <2>4. Clean(d)
    BY <1>0, <1>3, <2>2, <2>3 DEF NothingEarly
  <2> QED
    BY <2>1, <2>4 DEF OnChain
<1>4. ASSUME LedgerStep, NEW d \in Calls, result'[d] \in Unsent
      PROVE  Clean(d)'
  <2>1. UNCHANGED result
    BY <1>4, LedgerFacts DEF callVars
  <2>2. \A n \in Networks :
           <<n, d>> \in wire' \cup mempool' \cup applied' \cup failed' =>
              <<n, d>> \in wire \cup mempool \cup OnChain
    BY <1>4, LedgerFacts
  <2> QED
    BY <1>0, <1>4, <2>1, <2>2 DEF OnChain
<1>5. ASSUME UNCHANGED <<callVars, netVars>>,
             NEW d \in Calls, result'[d] \in Unsent
      PROVE  Clean(d)'
  BY <1>0, <1>5 DEF OnChain, callVars, netVars, ledgerVars
<1>6. \A d \in Calls : result'[d] \in Unsent => Clean(d)'
  BY <1>1, <1>2, <1>3, <1>4, <1>5, StepKinds
<1>7. ASSUME NEW d \in Calls
      PROVE  /\ result'[d] = "SUCCESS" => \E n \in Networks : <<n, d>> \in applied'
             /\ result'[d] = "TX_FAILED" => \E n \in Networks : <<n, d>> \in failed'
  BY DEF VerdictIsPolled, TInv, TypeOK, LedgerTypes
<1> QED
  BY <1>6, <1>7 DEF VerdictsAreTrue

(* A conclusive verdict means the sequence number is spent where it was    *)
(* polled; a call built later reads the account after that.                *)
LEMMA FreshStep ==
    ASSUME TInv, DoneIsSettled, NothingEarly, IncludedIsSpent,
           VerdictIsPolled, FreshAfterConclusive, [Next]_vars
    PROVE  FreshAfterConclusive'
<1> DEFINE Fresh(c, d) ==
      ( /\ result[c] \in Conclusive
        /\ BuiltAfter(c, d)
        /\ acctNet[d] = pollNet[c] ) => seqNo[d] > seqNo[c]
<1>t. CallTypes /\ TxTypes /\ LedgerTypes
  BY DEF TInv, TypeOK
<1>0. \A c, d \in Calls : Fresh(c, d)
  BY DEF FreshAfterConclusive
<1>q. ASSUME \A c, d \in Calls : Fresh(c, d)' PROVE FreshAfterConclusive'
  BY <1>q DEF FreshAfterConclusive
<1>1. ASSUME NEW a \in Calls, Moves(a), NEW c \in Calls, NEW d \in Calls
      PROVE  Fresh(c, d)'
  <2>1. UNCHANGED <<result, settled, seqNo, acctNet>>
    BY <1>1, MoveFacts
  <2>2. result[c] \in Conclusive => pollNet'[c] = pollNet[c]
    BY <1>1, MoveFacts DEF DoneIsSettled, Conclusive
  <2> QED
    BY <1>0, <2>1, <2>2 DEF BuiltAfter
<1>2. ASSUME NEW a \in Calls, AccountArrives(a),
             NEW c \in Calls, NEW d \in Calls
      PROVE  Fresh(c, d)'
  <2>1. /\ UNCHANGED <<result, settled, pollNet, accSeq>>
        /\ pc[a] = "getAccount" /\ reqNet[a] \in Networks
        /\ seqNo' = [seqNo EXCEPT ![a] = accSeq[reqNet[a]] + 1]
        /\ acctNet' = [acctNet EXCEPT ![a] = reqNet[a]]
    BY <1>2, AccountFacts DEF ledgerVars
  <2>2. SUFFICES ASSUME result[c] \in Conclusive, BuiltAfter(c, d)',
                        acctNet'[d] = pollNet[c]
                 PROVE  seqNo'[d] > seqNo'[c]
    BY <2>1
  <2>3. c # d /\ pc[c] = "done" /\ c # a
    BY <2>1, <2>2 DEF BuiltAfter, DoneIsSettled, Conclusive
  <2>4. seqNo'[c] = seqNo[c]
    BY <1>t, <2>1, <2>3 DEF TxTypes
  <2>5. CASE d = a
    <3>1. pollNet[c] = reqNet[a] /\ seqNo'[d] = accSeq[reqNet[a]] + 1
      BY <1>t, <2>1, <2>2, <2>5 DEF TxTypes
    <3>2. <<pollNet[c], c>> \in OnChain
      BY <2>2 DEF VerdictIsPolled, Conclusive, OnChain
    <3>3. accSeq[reqNet[a]] >= seqNo[c]
      BY <2>1, <3>1, <3>2 DEF IncludedIsSpent
    <3>4. accSeq[reqNet[a]] \in Nat /\ seqNo[c] \in Nat
      BY <1>t, <2>1, TxConstants DEF LedgerTypes, TxTypes
    <3> QED
      BY <2>4, <3>1, <3>3, <3>4
  <2>6. CASE d # a
    <3>1. seqNo'[d] = seqNo[d] /\ acctNet'[d] = acctNet[d]
      BY <1>t, <2>1, <2>6 DEF TxTypes
    <3>2. BuiltAfter(c, d)
      BY <2>1, <2>2, <3>1 DEF BuiltAfter
    <3> QED
      BY <1>0, <2>2, <2>4, <3>1, <3>2
  <2> QED
    BY <2>5, <2>6
<1>3. ASSUME NEW a \in Calls, SettlesOnly(a),
             NEW c \in Calls, NEW d \in Calls
      PROVE  Fresh(c, d)'
  <2>1. /\ settled' = Append(settled, a)
        /\ result' = [result EXCEPT ![a] = result'[a]]
        /\ pc[a] \in Running \cup {"queued"}
        /\ queue # <<>> /\ Head(queue) = a
        /\ UNCHANGED <<seqNo, acctNet, pollNet>>
    BY <1>3, VerdictFacts, SettlesOnlyFacts DEF TInv, txVars
  <2>2. SUFFICES ASSUME result'[c] \in Conclusive, BuiltAfter(c, d)',
                        acctNet[d] = pollNet[c]
                 PROVE  seqNo[d] > seqNo[c]
    BY <2>1
  <2>3. PICK i \in 1..(Len(settled) + 1) :
           settled'[i] = c /\ \A j \in 1..i : settled'[j] # d
    BY <1>t, <2>1, <2>2, AppendIndex DEF BuiltAfter, CallTypes
  <2>4. c # d /\ seqNo[d] # 0
    BY <2>1, <2>2 DEF BuiltAfter
  <2>5. CASE i = Len(settled) + 1
    <3>0. /\ Len(settled) \in Nat
          /\ settled'[Len(settled) + 1] = a
          /\ \A j \in 1..Len(settled) : settled'[j] = settled[j]
      BY <1>t, <2>1, AppendIndex DEF CallTypes
    <3>1. c = a /\ \A j \in 1..Len(settled) : settled[j] # d
      BY <2>3, <2>5, <3>0
    <3>2. pc[d] # "done" /\ pc[d] \notin Unbuilt
      BY <2>4, <3>1 DEF DoneIsSettled, NothingEarly
    <3>3. pc[d] \in Running
      BY <1>t, <3>2 DEF CallTypes, Step, Running, RpcStep, Unbuilt
    <3>4. d = a
      BY <2>1, <3>3 DEF TInv, HeadRuns
    <3> QED
      BY <2>4, <3>1, <3>4
  <2>6. CASE i # Len(settled) + 1
    <3>0. Len(settled) \in Nat
          /\ \A j \in 1..Len(settled) : settled'[j] = settled[j]
      BY <1>t, <2>1, AppendIndex DEF CallTypes
    <3>1. /\ i \in 1..Len(settled)
          /\ settled[i] = c /\ \A j \in 1..i : settled[j] # d
      BY <2>3, <2>6, <3>0
    <3>2. BuiltAfter(c, d) /\ pc[c] = "done"
      BY <2>4, <3>1 DEF BuiltAfter, DoneIsSettled
    <3>3. c # a
      BY <2>1, <3>2 DEF Running, RpcStep
    <3>4. result'[c] = result[c]
      BY <1>t, <2>1, <3>3 DEF CallTypes
    <3> QED
      BY <1>0, <2>2, <3>2, <3>4
  <2> QED
    BY <2>5, <2>6
<1>4. ASSUME LedgerStep \/ UNCHANGED <<callVars, netVars>>,
             NEW c \in Calls, NEW d \in Calls
      PROVE  Fresh(c, d)'
  <2>1. UNCHANGED callVars
    BY <1>4, LedgerFacts
  <2> QED
    BY <1>0, <2>1 DEF BuiltAfter, callVars, txVars
<1> QED
  BY <1>1, <1>2, <1>3, <1>4, <1>q, StepKinds

-----------------------------------------------------------------------------
SInv ==
    /\ TInv
    /\ DoneIsSettled
    /\ NothingEarly
    /\ IncludedIsSpent
    /\ VerdictIsPolled
    /\ VerdictsAreTrue
    /\ FreshAfterConclusive

LEMMA InitSafe == Init => SInv
<1> SUFFICES ASSUME Init PROVE SInv
  OBVIOUS
<1>1. TInv
  BY InitTyped
<1>2. DoneIsSettled
  <2>1. settled = <<>> /\ 1..Len(settled) = {}
    BY DEF Init
  <2> QED
    BY <2>1 DEF Init, DoneIsSettled
<1>3. NothingEarly /\ IncludedIsSpent
  BY DEF Init, NothingEarly, IncludedIsSpent, OnChain
<1>4. VerdictIsPolled /\ VerdictsAreTrue
  BY DEF Init, VerdictIsPolled, VerdictsAreTrue
<1>5. FreshAfterConclusive
  BY DEF Init, FreshAfterConclusive, Conclusive
<1> QED
  BY <1>1, <1>2, <1>3, <1>4, <1>5 DEF SInv

LEMMA StepSafe == SInv /\ [Next]_vars => SInv'
<1> SUFFICES ASSUME SInv, [Next]_vars PROVE SInv'
  OBVIOUS
<1>0. /\ TInv /\ DoneIsSettled /\ NothingEarly /\ IncludedIsSpent
      /\ VerdictIsPolled /\ VerdictsAreTrue /\ FreshAfterConclusive
  BY DEF SInv
<1>1. TInv'
  BY <1>0, StepTyped
<1>2. DoneIsSettled'
  BY <1>0, DoneStep
<1>3. NothingEarly'
  BY <1>0, EarlyStep
<1>4. IncludedIsSpent'
  BY <1>0, SpentStep
<1>5. VerdictIsPolled'
  BY <1>0, PolledStep
<1>6. VerdictsAreTrue'
  BY <1>0, <1>1, <1>5, TrueStep
<1>7. FreshAfterConclusive'
  BY <1>0, FreshStep
<1> QED
  BY <1>1, <1>2, <1>3, <1>4, <1>5, <1>6, <1>7 DEF SInv

(* Queueing the complete lifecycle (client.ts:498-509) keeps sequence      *)
(* numbers fresh: for any number of calls and networks, with setNetwork    *)
(* at any moment, a transaction built after another submission was         *)
(* confirmed on that network has a higher sequence number.                 *)
THEOREM FreshSequence == Spec => []FreshAfterConclusive
<1>1. SInv => FreshAfterConclusive
  BY DEF SInv
<1> QED
  BY InitSafe, StepSafe, <1>1, PTL DEF Spec

(* submitTransactionUnlocked (client.ts:514-633) never makes up a verdict: *)
(* SUCCESS and TX_FAILED are reported only of transactions some network    *)
(* included with that outcome, and a call that ended before signing never  *)
(* reaches any network, not even later.                                    *)
THEOREM TrueVerdicts == Spec => []VerdictsAreTrue
<1>1. SInv => VerdictsAreTrue
  BY DEF SInv
<1> QED
  BY InitSafe, StepSafe, <1>1, PTL DEF Spec
-----------------------------------------------------------------------------
(* Where a transaction lands, when the network is switched only between     *)
(* submissions.                                                             *)

(* The call that runs asked, built and sends at the server of the moment,   *)
(* and every envelope is where its account was read.                        *)
AtHome ==
    /\ \A c \in Calls : pc[c] \in RpcStep => reqNet[c] = serverNet
    /\ \A c \in Calls : pc[c] \in {"simulate", "sign", "send"} => acctNet[c] = serverNet
    /\ \A c \in Calls, n \in Networks :
          <<n, c>> \in wire \cup mempool \cup OnChain => acctNet[c] = n

LEMMA HomeMoves ==
    ASSUME TInv, AtHome, NEW c \in Calls, Moves(c)
    PROVE  AtHome'
<1>t. CallTypes /\ TxTypes
  BY DEF TInv, TypeOK
<1>1. UNCHANGED <<acctNet, serverNet, mempool, applied, failed>>
  BY DEF Moves, SubmitTransaction, Start, SimulationSucceeds, Signed, SendAccepted,
      SendTryAgainLater, RpcRetry, txVars, clientVars, netVars, ledgerVars
<1>2. /\ \A d \in Calls : pc'[d] \in RpcStep => reqNet'[d] = serverNet
      /\ \A d \in Calls : pc'[d] \in {"simulate", "sign", "send"} => acctNet[d] = serverNet
      /\ wire' \subseteq wire \cup {<<acctNet[c], c>>}
  <2>1. CASE SubmitTransaction(c)
    BY <1>t, <2>1 DEF SubmitTransaction, AtHome, CallTypes, txVars, netVars, RpcStep
  <2>2. CASE Start(c)
    BY <1>t, <2>2 DEF Start, Dispatch, AtHome, CallTypes, TxTypes, netVars, RpcStep
  <2>3. CASE SimulationSucceeds(c)
    BY <1>t, <2>3 DEF SimulationSucceeds, AtHome, CallTypes, TxTypes, netVars, RpcStep
  <2>4. CASE Signed(c)
    BY <1>t, <2>4 DEF Signed, Dispatch, AtHome, CallTypes, TxTypes, RpcStep
  <2>5. CASE SendAccepted(c) \/ SendTryAgainLater(c)
    BY <1>t, <2>5
    DEF SendAccepted, SendTryAgainLater, Answered, AtHome, CallTypes, TxTypes, RpcStep
  <2>6. CASE RpcRetry(c)
    BY <1>t, <2>6 DEF RpcRetry, AtHome, CallTypes, TxTypes, RpcStep
  <2> QED
    BY <2>1, <2>2, <2>3, <2>4, <2>5, <2>6 DEF Moves
<1> QED
  BY <1>1, <1>2 DEF AtHome, OnChain

LEMMA HomeStep ==
    ASSUME SwitchPolicy = "idle", TInv, NothingEarly, IncludedIsSpent, AtHome, [Next]_vars
    PROVE  AtHome'
<1>t. CallTypes /\ TxTypes
  BY DEF TInv, TypeOK
<1>1. ASSUME NEW c \in Calls, AccountArrives(c) PROVE AtHome'
  <2>1. /\ UNCHANGED <<wire, mempool, applied, failed, serverNet>>
        /\ pc[c] = "getAccount" /\ pc' = [pc EXCEPT ![c] = "simulate"]
        /\ reqNet' = [reqNet EXCEPT ![c] = serverNet]
        /\ acctNet' = [acctNet EXCEPT ![c] = reqNet[c]]
    BY <1>1 DEF AccountArrives, Dispatch, clientVars, netVars, ledgerVars
  <2>2. \A n \in Networks : <<n, c>> \notin wire \cup mempool \cup OnChain
    BY <2>1 DEF NothingEarly, Unbuilt
  <2>3. reqNet[c] = serverNet
    BY <2>1 DEF AtHome, RpcStep
  <2>4. /\ \A d \in Calls : d # c => pc'[d] = pc[d] /\ reqNet'[d] = reqNet[d]
                                     /\ acctNet'[d] = acctNet[d]
        /\ reqNet'[c] = serverNet /\ acctNet'[c] = serverNet
    BY <1>t, <2>1, <2>3 DEF CallTypes, TxTypes
  <2> QED
    BY <2>1, <2>2, <2>4 DEF AtHome, OnChain
<1>2. ASSUME NEW c \in Calls, SettlesOnly(c) PROVE AtHome'
  <2>1. UNCHANGED <<txVars, clientVars, ledgerVars>> /\ wire' \subseteq wire
    BY <1>2, SettlesOnlyFacts DEF TInv
  <2>2. pc' = [pc EXCEPT ![c] = "done"]
    BY <1>2, VerdictFacts
  <2> QED
    BY <1>t, <2>1, <2>2 DEF AtHome, CallTypes, RpcStep, OnChain, txVars, clientVars, ledgerVars
<1>3. CASE LedgerStep
  <2>1. UNCHANGED callVars
    BY <1>3, LedgerFacts
  <2>2. UNCHANGED clientVars
    BY <1>3 DEF LedgerStep, NetworkReceives, Include, Drop, ForeignTransaction
  <2>3. \A n \in Networks, c \in Calls :
           <<n, c>> \in wire' \cup mempool' \cup applied' \cup failed' =>
              <<n, c>> \in wire \cup mempool \cup OnChain
    BY <1>3, LedgerFacts
  <2> QED
    BY <2>1, <2>2, <2>3 DEF AtHome, OnChain, callVars, txVars, clientVars
<1>4. CASE \E n \in Networks : SwitchNetwork(n)
  <2>1. queue = <<>> /\ UNCHANGED <<callVars, netVars>>
    BY <1>4 DEF SwitchNetwork, SetNetwork, SetNetworkBadUrl, SetNetworkSignerMismatch, MaySwitch
  <2>2. \A c \in Calls : pc[c] \notin RpcStep \cup {"sign"}
    BY <2>1 DEF TInv, HeadRuns, Running
  <2> QED
    BY <2>1, <2>2 DEF AtHome, RpcStep, OnChain, callVars, txVars, netVars, ledgerVars
<1>5. CASE UNCHANGED vars
  BY <1>5 DEF AtHome, OnChain, vars, callVars, txVars, clientVars, netVars, ledgerVars
<1> QED
  BY <1>1, <1>2, <1>3, <1>4, <1>5, HomeMoves DEF Next, Progress, Moves, SettlesOnly

(* An application that calls setNetwork only between submissions never      *)
(* lands a transaction on another network than the one its account was read *)
(* from (client.ts:514-633), for any number of calls and networks, whatever *)
(* the signer and however often an RPC is sent again.                       *)
THEOREM LandsAtHome ==
    ASSUME SwitchPolicy = "idle"
    PROVE  Spec => []LandsWhereBuilt
<1> DEFINE Inv == SInv /\ AtHome
<1>1. Init => Inv
  <2>1. Init => AtHome
    BY DEF Init, AtHome, RpcStep, OnChain
  <2> QED
    BY <2>1, InitSafe
<1>2. Inv /\ [Next]_vars => Inv'
  BY StepSafe, HomeStep DEF SInv
<1>3. Inv => LandsWhereBuilt
  BY DEF AtHome, LandsWhereBuilt
<1> QED
  BY <1>1, <1>2, <1>3, PTL DEF Spec

-----------------------------------------------------------------------------
(* The resubmission loops. *)

(* Nothing of this attempt is on its way and nothing of it was applied. *)
Dead(i) ==
    /\ pc[i] = "done"
    /\ \A n \in Networks : <<n, i>> \notin wire \cup mempool \cup applied

(* The loop's counter, and what it knows of the attempt it counts. *)
LoopAt ==
    /\ op \in OpStep /\ attempt \in 0..MaxRetries
    /\ op = "backoff" => attempt < MaxRetries
    /\ op \in {"checking", "reading", "backoff"} => pc[attempt] = "done"
    /\ \A c \in Calls : c > attempt => pc[c] = "idle"

(* An attempt the loop went round was still on its way, or never will be. *)
GivenUp(i) == i < attempt \/ (i = attempt /\ op = "backoff")
AliveOrDead ==
    strategy # "stake" => \A i \in Calls : GivenUp(i) => i \in alive \/ Dead(i)

RInv == SInv /\ LoopAt /\ AliveOrDead /\ OkMeansApplied

LEMMA InitLoop == RInit => RInv
<1> SUFFICES ASSUME RInit PROVE RInv
  OBVIOUS
<1>1. SInv
  BY InitSafe DEF RInit
<1>2. LoopAt
  BY ResubmissionConstants DEF RInit, Init, LoopAt, OpStep
<1>3. AliveOrDead /\ OkMeansApplied
  BY ResubmissionConstants DEF RInit, AliveOrDead, GivenUp, OkMeansApplied
<1> QED
  BY <1>1, <1>2, <1>3 DEF RInv

(* What the steps below the loop do to an attempt that is over, or that was *)
(* not begun.                                                               *)
LEMMA BelowLoop ==
    ASSUME SInv, NEW c \in Calls, SubmitTransaction(c) \/ Progress(c)
    PROVE  /\ applied' = applied
           /\ \A i \in Calls : Dead(i) => Dead(i)'
           /\ \A i \in Calls : pc[i] = "done" => pc'[i] = "done"
           /\ \A i \in Calls : i # c => pc'[i] = pc[i]
           /\ pc[c] = "idle" => SubmitTransaction(c)
<1>t. TInv /\ CallTypes
  BY DEF SInv, TInv, TypeOK
<1>1. CASE Moves(c)
  <2>1. /\ UNCHANGED <<mempool, applied>>
        /\ \A d \in Calls \ {c} : pc'[d] = pc[d]
        /\ pc[c] # "done"
        /\ \A n \in Networks, d \in Calls \ {c} : <<n, d>> \in wire' => <<n, d>> \in wire
    BY <1>t, <1>1, MoveFacts DEF ledgerVars
  <2>2. pc[c] = "idle" => SubmitTransaction(c)
    BY <1>1 DEF Moves, Start, SimulationSucceeds, Signed, SendAccepted, SendTryAgainLater,
        RpcRetry, RpcStep
  <2>3. \A i \in Calls : Dead(i) => Dead(i)'
    BY <2>1 DEF Dead
  <2> QED
    BY <2>1, <2>2, <2>3
<1>2. CASE AccountArrives(c)
  <2>1. /\ UNCHANGED <<ledgerVars, wire>> /\ pc[c] = "getAccount"
        /\ pc' = [pc EXCEPT ![c] = "simulate"]
    BY <1>t, <1>2, AccountFacts
  <2> QED
    BY <1>t, <2>1 DEF Dead, CallTypes, ledgerVars
<1>3. CASE SettlesOnly(c)
  <2>1. UNCHANGED ledgerVars /\ wire' \subseteq wire
    BY <1>t, <1>3, SettlesOnlyFacts DEF TInv
  <2>2. pc' = [pc EXCEPT ![c] = "done"] /\ pc[c] # "idle"
    BY <1>t, <1>3, VerdictFacts
  <2> QED
    BY <1>t, <2>1, <2>2 DEF Dead, CallTypes, ledgerVars
<1> QED
  BY <1>1, <1>2, <1>3 DEF Progress, Moves, SettlesOnly

LEMMA LedgerBelowLoop ==
    ASSUME SInv, LedgerStep
    PROVE  /\ applied \subseteq applied' /\ UNCHANGED pc
           /\ \A i \in Calls : Dead(i) => Dead(i)'
<1>1. TInv /\ IncludedIsSpent
  BY DEF SInv
<1>2. UNCHANGED callVars /\ applied \subseteq applied'
  BY <1>1, LedgerFacts
<1>3. \A n \in Networks, i \in Calls :
         <<n, i>> \in wire' \cup mempool' \cup applied' => <<n, i>> \in wire \cup mempool \cup applied
  BY DEF LedgerStep, NetworkReceives, Include, Drop, ForeignTransaction
<1> QED
  BY <1>2, <1>3 DEF Dead, callVars

(* The decision to go round again, with no attempt of it applied so far. *)
LEMMA GoesRound ==
    ASSUME RInv, op \in {"checking", "reading"}, RetryOrFail, UNCHANGED <<strategy, attempt, vars>>,
           \A n \in Networks : <<n, attempt>> \notin applied
    PROVE  LoopAt' /\ AliveOrDead' /\ OkMeansApplied'
<1>1. UNCHANGED <<pc, wire, mempool, applied>>
  BY DEF vars, callVars, netVars, ledgerVars
<1>2. attempt \in Calls /\ pc[attempt] = "done"
  BY ResubmissionConstants DEF RInv, LoopAt
<1>3. op' \in {"backoff", "error"} /\ (op' = "backoff" => attempt < MaxRetries)
  BY DEF RetryOrFail
<1>4. alive' = alive \cup {c \in Calls : \E n \in Networks : <<n, c>> \in wire \cup mempool}
  BY DEF RetryOrFail
<1>5. LoopAt'
  BY <1>1, <1>2, <1>3 DEF RInv, LoopAt, OpStep
<1>6. attempt \in alive' \/ Dead(attempt)
  BY <1>2, <1>4 DEF Dead
<1>7. \A i \in Calls : Dead(i) => Dead(i)'
  BY <1>1 DEF Dead
<1>8. AliveOrDead'
  <2> SUFFICES ASSUME strategy # "stake", NEW i \in Calls, GivenUp(i)'
               PROVE  i \in alive' \/ Dead(i)'
    BY DEF AliveOrDead
  <2>1. CASE i = attempt
    BY <1>6, <1>7, <2>1
  <2>2. CASE i # attempt
    BY <1>4, <1>7, <2>2 DEF RInv, AliveOrDead, GivenUp
  <2> QED
    BY <2>1, <2>2
<1>9. OkMeansApplied'
  BY <1>3 DEF OkMeansApplied
<1> QED
  BY <1>5, <1>8, <1>9

(* The operation ends, successfully only if an attempt was applied. *)
LEMMA LoopEnds ==
    ASSUME RInv, UNCHANGED <<strategy, attempt, alive, vars>>,
           op' \in {"ok", "error", "checking", "reading"},
           op' \in {"checking", "reading"} => pc[attempt] = "done",
           op' = "ok" /\ strategy # "unstake" => applied # {}
    PROVE  LoopAt' /\ AliveOrDead' /\ OkMeansApplied'
<1>1. UNCHANGED <<pc, wire, mempool, applied>>
  BY DEF vars, callVars, netVars, ledgerVars
<1>2. LoopAt' /\ OkMeansApplied'
  BY <1>1 DEF RInv, LoopAt, OpStep, OkMeansApplied
<1>3. \A i \in Calls : Dead(i) => Dead(i)'
  BY <1>1 DEF Dead
<1>4. AliveOrDead'
  BY <1>3 DEF RInv, AliveOrDead, GivenUp
<1> QED
  BY <1>2, <1>4

(* Every step of the composition is a step of TxSubmission, or leaves it. *)
LEMMA RStepsBelow ==
    ASSUME LoopAt, [RNext]_rvars
    PROVE  [Next]_vars
<1>1. CASE Begin
  <2>1. 0 \in Calls
    BY ResubmissionConstants
  <2> QED
    BY <1>1, <2>1 DEF Begin, Next
<1>2. CASE Resubmit
  <2>1. attempt + 1 \in Calls
    BY <1>2, ResubmissionConstants DEF Resubmit, LoopAt
  <2> QED
    BY <1>2, <2>1 DEF Resubmit, Next
<1>3. CASE UNCHANGED rvars
  BY <1>3 DEF rvars
<1> QED
  BY <1>1, <1>2, <1>3 DEF RNext, LoopStep, Next, SubmissionReturns, StatusAnswered, ContractRead,
      ContractReadThrows, ContractReadFails, DeadlinePassed

LEMMA LoopStepInv ==
    ASSUME RInv, LoopStep
    PROVE  LoopAt' /\ AliveOrDead' /\ OkMeansApplied'
<1>0. attempt \in Calls /\ attempt \in 0..MaxRetries /\ SInv
  BY ResubmissionConstants DEF RInv, LoopAt
<1>1. CASE Begin
  <2>1. 0 \in Calls /\ SubmitTransaction(0) /\ op' = "submitting"
        /\ UNCHANGED <<strategy, attempt, alive>> /\ op = "new"
    BY <1>1, ResubmissionConstants DEF Begin
  <2>2. /\ applied' = applied /\ (\A i \in Calls : Dead(i) => Dead(i)')
        /\ \A i \in Calls : i # 0 => pc'[i] = pc[i]
    BY <1>0, <2>1, BelowLoop
  <2>3. LoopAt'
    BY <1>0, <2>1, <2>2, ResubmissionConstants DEF RInv, LoopAt, OpStep
  <2>4. AliveOrDead'
    BY <2>1, <2>2 DEF RInv, AliveOrDead, GivenUp
  <2> QED
    BY <2>1, <2>3, <2>4 DEF OkMeansApplied
<1>2. CASE Resubmit
  <2> DEFINE c == attempt + 1
  <2>1. c \in Calls /\ c \in 0..MaxRetries /\ SubmitTransaction(c) /\ op = "backoff"
        /\ op' = "submitting" /\ attempt' = c /\ UNCHANGED <<strategy, alive>>
    BY <1>0, <1>2, ResubmissionConstants DEF Resubmit, RInv, LoopAt
  <2>2. /\ applied' = applied /\ (\A i \in Calls : Dead(i) => Dead(i)')
        /\ \A i \in Calls : i # c => pc'[i] = pc[i]
    BY <1>0, <2>1, BelowLoop
  <2>3. LoopAt'
    BY <1>0, <2>1, <2>2, ResubmissionConstants DEF RInv, LoopAt, OpStep
  <2>4. \A i \in Calls : GivenUp(i)' => GivenUp(i)
    BY <1>0, <2>1, ResubmissionConstants DEF GivenUp
  <2>5. AliveOrDead'
    BY <2>1, <2>2, <2>4 DEF RInv, AliveOrDead
  <2> QED
    BY <2>1, <2>3, <2>5 DEF OkMeansApplied
<1>3. CASE SubmissionReturns
  <2>1. /\ UNCHANGED <<strategy, attempt, alive, vars>> /\ pc[attempt] = "done"
        /\ op' \in {"ok", "error", "checking", "reading"}
        /\ op' = "ok" => result[attempt] = "SUCCESS"
    BY <1>3 DEF SubmissionReturns
  <2>2. result[attempt] = "SUCCESS" => applied # {}
    BY <1>0 DEF SInv, VerdictIsPolled
  <2> QED
    BY <2>1, <2>2, LoopEnds
<1>4. CASE StatusAnswered
  <2>1. PICK status \in {ChainStatus, "ERROR"} :
          \/ status = "SUCCESS" /\ EndAs("ok")
          \/ status # "SUCCESS" /\ ShouldRetry(status) /\ RetryOrFail
          \/ status # "SUCCESS" /\ ~ShouldRetry(status) /\ EndAs("error")
    BY <1>4 DEF StatusAnswered
  <2>2. op = "checking" /\ UNCHANGED <<strategy, attempt, vars>>
    BY <1>4 DEF StatusAnswered
  <2>3. CASE status = "SUCCESS" /\ EndAs("ok")
    <3>1. applied # {}
      BY <2>3 DEF ChainStatus
    <3> QED
      BY <2>2, <2>3, <3>1, LoopEnds DEF EndAs
  <2>4. CASE ShouldRetry(status) /\ RetryOrFail
    <3>1. \A n \in Networks : <<n, attempt>> \notin applied
      BY <2>1, <2>4 DEF ShouldRetry, ChainStatus
    <3> QED
      BY <2>2, <2>4, <3>1, GoesRound
  <2>5. CASE EndAs("error")
    BY <2>2, <2>5, LoopEnds DEF EndAs
  <2> QED
    BY <2>1, <2>3, <2>4, <2>5
<1>5. CASE ContractRead
  <2>1. op = "reading" /\ UNCHANGED <<strategy, attempt, vars>>
    BY <1>5 DEF ContractRead
  <2>2. CASE Landed /\ EndAs("ok")
    BY <2>1, <2>2, LoopEnds DEF EndAs, Landed
  <2>3. CASE ~Landed /\ RetryOrFail
    <3>1. \A n \in Networks : <<n, attempt>> \notin applied
      BY <2>3 DEF Landed
    <3> QED
      BY <2>1, <2>3, <3>1, GoesRound
  <2> QED
    BY <1>5, <2>2, <2>3 DEF ContractRead
<1>6. CASE ContractReadThrows \/ DeadlinePassed
  <2>1. UNCHANGED <<strategy, attempt, alive, vars>> /\ op' = "error"
    BY <1>6 DEF ContractReadThrows, DeadlinePassed, EndAs
  <2> QED
    BY <2>1, LoopEnds
<1>7. CASE ContractReadFails
  <2>1. op = "reading" /\ UNCHANGED <<strategy, attempt, vars>>
    BY <1>7 DEF ContractReadFails
  <2>2. CASE strategy = "unstake" /\ EndAs("ok")
    BY <2>1, <2>2, LoopEnds DEF EndAs
  <2>3. CASE strategy = "stake" /\ RetryOrFail
    <3>1. UNCHANGED pc
      BY <2>1 DEF vars, callVars
    <3>2. op' \in {"backoff", "error"} /\ (op' = "backoff" => attempt < MaxRetries)
      BY <2>3 DEF RetryOrFail
    <3>3. LoopAt'
      BY <2>1, <3>1, <3>2 DEF RInv, LoopAt, OpStep
    <3> QED
      BY <2>1, <2>3, <3>2, <3>3 DEF AliveOrDead, OkMeansApplied
  <2> QED
    BY <1>7, <2>2, <2>3 DEF ContractReadFails
<1> QED
  BY <1>1, <1>2, <1>3, <1>4, <1>5, <1>6, <1>7 DEF LoopStep

LEMMA RStepInv == RInv /\ [RNext]_rvars => RInv'
<1> SUFFICES ASSUME RInv, [RNext]_rvars PROVE RInv'
  OBVIOUS
<1>1. SInv'
  BY StepSafe, RStepsBelow DEF RInv
<1>2. CASE LoopStep
  BY <1>1, <1>2, LoopStepInv DEF RInv
<1>3. CASE (\E c \in Calls : Progress(c)) /\ UNCHANGED opVars
  <2>1. PICK c \in Calls : Progress(c)
    BY <1>3
  <2>2. UNCHANGED <<strategy, op, attempt, alive>>
    BY <1>3 DEF opVars
  <2>3. /\ applied' = applied /\ (\A i \in Calls : Dead(i) => Dead(i)')
        /\ \A i \in Calls : pc[i] = "done" => pc'[i] = "done"
        /\ \A i \in Calls : i # c => pc'[i] = pc[i]
        /\ pc[c] = "idle" => SubmitTransaction(c)
    BY <2>1, BelowLoop DEF RInv
  <2>4. pc[c] # "idle"
    BY <2>1 DEF Progress, Start, KeyUnavailable, AccountArrives, SimulationSucceeds,
        SimulationFails, NoSigner, Signed, SignerRejects, SendAccepted, SendTryAgainLater,
        SendRefused, RpcRetry, RpcThrows, PollConfirmed, PollFailed, PollNotConfirmed,
        PollTimesOut, RpcStep
  <2>5. LoopAt'
    BY <2>2, <2>3, <2>4, ResubmissionConstants DEF RInv, LoopAt
  <2>6. AliveOrDead' /\ OkMeansApplied'
    BY <2>2, <2>3 DEF RInv, AliveOrDead, GivenUp, OkMeansApplied
  <2> QED
    BY <1>1, <2>5, <2>6 DEF RInv
<1>4. CASE LedgerStep /\ UNCHANGED opVars
  <2>1. UNCHANGED <<strategy, op, attempt, alive>>
    BY <1>4 DEF opVars
  <2>2. /\ applied \subseteq applied' /\ UNCHANGED pc
        /\ \A i \in Calls : Dead(i) => Dead(i)'
    BY <1>4, LedgerBelowLoop DEF RInv
  <2>3. LoopAt' /\ AliveOrDead' /\ OkMeansApplied'
    BY <2>1, <2>2 DEF RInv, LoopAt, AliveOrDead, GivenUp, OkMeansApplied
  <2> QED
    BY <1>1, <2>3 DEF RInv
<1>5. CASE UNCHANGED rvars
  <2>1. UNCHANGED <<strategy, op, attempt, alive, pc, wire, mempool, applied>>
    BY <1>5 DEF rvars, opVars, vars, callVars, netVars, ledgerVars
  <2>2. LoopAt' /\ AliveOrDead' /\ OkMeansApplied'
    BY <2>1 DEF RInv, LoopAt, AliveOrDead, GivenUp, OkMeansApplied, Dead
  <2> QED
    BY <1>1, <2>2 DEF RInv
<1> QED
  BY <1>2, <1>3, <1>4, <1>5 DEF RNext

(* An operation a resubmission loop reports as successful took effect, for  *)
(* any number of retries and whatever the ledger, the RPCs and the reads of *)
(* the contract answer; the exception is named in the property.             *)
THEOREM OkIsApplied == RSpec => []OkMeansApplied
<1>1. RInv => OkMeansApplied
  BY DEF RInv
<1> QED
  BY InitLoop, RStepInv, <1>1, PTL DEF RSpec

(* What the loops of swap.ts, limit-orders.ts, flash-loan.ts, governance.ts *)
(* and submit-idempotent.ts guarantee, for any number of retries: an        *)
(* operation takes effect twice only if an earlier attempt was still on     *)
(* its way when the loop decided to go round again.                         *)
THEOREM RepeatNeedsAlive == RSpec => []RepeatedOnlyIfAlive
<1>1. RInv => RepeatedOnlyIfAlive
  <2> SUFFICES ASSUME RInv, strategy # "stake", NEW i \in Calls, NEW j \in Calls,
                      NEW m \in Networks, NEW n \in Networks,
                      i < j, <<m, i>> \in applied, <<n, j>> \in applied
               PROVE  i \in alive
    BY DEF RepeatedOnlyIfAlive
  <2>1. pc[j] # "idle"
    BY DEF RInv, SInv, NothingEarly, Unbuilt, OnChain
  <2>2. i < attempt
    BY <2>1, ResubmissionConstants DEF RInv, LoopAt
  <2> QED
    BY <2>2 DEF RInv, AliveOrDead, GivenUp, Dead
<1> QED
  BY InitLoop, RStepInv, <1>1, PTL DEF RSpec

=============================================================================
