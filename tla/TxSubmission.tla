---------------------------- MODULE TxSubmission ----------------------------
(***************************************************************************)
(* The transaction lifecycle of CoralSwapClient (src/src/client.ts):       *)
(* submitTransaction chains every call on one promise queue, and each call *)
(* runs getAccount -> build -> simulate -> sign -> send -> poll before the *)
(* next one starts.  setNetwork may be called by the application at any    *)
(* await point of a running lifecycle.                                     *)
(*                                                                         *)
(* Every RPC of the lifecycle goes through executeWithFallback, which this *)
(* module sees as: dispatched to the current server, perhaps dispatched    *)
(* again (to whatever the current server is by then), and finally answered *)
(* or thrown.  Module RpcFallback models executeWithFallback itself and    *)
(* module TransactionPoller the polling loop.  Each network has one        *)
(* endpoint here; with several, a rotation also drops the cached poller.   *)
(* A request takes effect when the server answers it: receiving the answer *)
(* is local to the call.                                                   *)
(*                                                                         *)
(* The ledger of each network is external: one account, its sequence       *)
(* number, the transactions waiting to be included and the included ones.  *)
(***************************************************************************)
EXTENDS Naturals, Sequences, FiniteSets

CONSTANTS
    Calls,         \* the submitTransaction calls the application makes
    Networks,      \* the networks setNetwork can switch to
    NoNet,         \* stands for null: no server bound, nothing read
    SignerKinds,   \* signers the client may be constructed with
    SwitchPolicy,  \* "idle": setNetwork only between submissions; "anytime"
    MaxDispatch,   \* bound: dispatches one executeWithFallback may make
    MaxSeq         \* bound: highest account sequence number explored

ASSUME TxConstants ==
    /\ NoNet \notin Networks
    /\ SignerKinds \subseteq {"keypair", "bound", "none"}
    /\ SwitchPolicy \in {"idle", "anytime"}
    /\ MaxDispatch \in Nat \ {0}
    /\ MaxSeq \in Nat

VARIABLES
    queue,      \* _submissionQueue: calls in order, the head is running
    pc,         \* where each call is in its lifecycle
    result,     \* the Result code each call resolved with
    settled,    \* calls in the order their promises settled (history)
    reqNet,     \* network of the server the call's RPC was dispatched to
    dispatches, \* dispatches of the call's current RPC so far
    acctNet,    \* network the call's account was read from
    seqNo,      \* sequence number of the call's transaction (0: not built)
    signNet,    \* network of the signer that was asked to sign
    pollNet,    \* network of the server the call's poller is bound to
    cfgNet,     \* network / networkConfig of the client
    serverNet,  \* network of _server, _connectionPool and _activeRpcUrl
    signer,     \* [kind, net]: the configured signer and its passphrase
    pollerNet,  \* network of the cached _poller's server, or NoNet
    wire,       \* <<network, call>> envelopes dispatched, not yet arrived
    accSeq,     \* ledger: the account's sequence number on each network
    mempool,    \* ledger: <<network, call>> accepted and waiting
    applied,    \* ledger: <<network, call>> included and successful
    failed      \* ledger: <<network, call>> included and failed

txVars     == <<reqNet, dispatches, acctNet, seqNo, signNet, pollNet>>
callVars   == <<queue, pc, result, settled, txVars>>
clientVars == <<cfgNet, serverNet, signer, pollerNet>>
ledgerVars == <<accSeq, mempool, applied, failed>>
netVars    == <<wire, ledgerVars>>
vars       == <<callVars, clientVars, netVars>>

RpcStep == {"getAccount", "simulate", "send"}
Step    == {"idle", "queued", "sign", "poll", "done"} \cup RpcStep
Running == RpcStep \cup {"sign", "poll"}

(* The codes of the Result a submission resolves with. *)
Conclusive == {"SUCCESS", "TX_FAILED"}
Code == Conclusive \cup
        {"SIMULATION_FAILED", "NO_SIGNER", "SUBMIT_FAILED",
         "TX_NOT_CONFIRMED", "TX_TIMEOUT", "UNEXPECTED_ERROR"}

OnChain == applied \cup failed

-----------------------------------------------------------------------------
(* Initial state: the constructor leaves configuration, server and signer  *)
(* on one network and creates no poller.                                   *)
Init ==
    /\ queue = <<>>
    /\ pc = [c \in Calls |-> "idle"]
    /\ result = [c \in Calls |-> "none"]
    /\ settled = <<>>
    /\ reqNet = [c \in Calls |-> NoNet]
    /\ dispatches = [c \in Calls |-> 0]
    /\ acctNet = [c \in Calls |-> NoNet]
    /\ seqNo = [c \in Calls |-> 0]
    /\ signNet = [c \in Calls |-> NoNet]
    /\ pollNet = [c \in Calls |-> NoNet]
    /\ cfgNet \in Networks
    /\ serverNet = cfgNet
    /\ signer \in [kind : SignerKinds, net : {cfgNet}]
    /\ pollerNet = NoNet
    /\ accSeq = [n \in Networks |-> 0]
    /\ wire = {} /\ mempool = {} /\ applied = {} /\ failed = {}

-----------------------------------------------------------------------------
(* Steps shared by the lifecycle's actions.                                *)

(* An RPC is dispatched to this.server as it is now. *)
Dispatch(c, step) ==
    /\ pc' = [pc EXCEPT ![c] = step]
    /\ reqNet' = [reqNet EXCEPT ![c] = serverNet]
    /\ dispatches' = [dispatches EXCEPT ![c] = 1]

(* Mutant: the queue is only advanced when the submission succeeds. *)
Settle_OnlyOnSuccess(c, code) ==
    /\ pc' = [pc EXCEPT ![c] = "done"]
    /\ result' = [result EXCEPT ![c] = code]
    /\ queue' = IF code = "SUCCESS" THEN Tail(queue) ELSE queue
    /\ settled' = Append(settled, c)

(* The submission's promise settles; whatever the outcome, the queue lets  *)
(* the next submission start.                                              *)
Settle(c, code) ==
    /\ pc' = [pc EXCEPT ![c] = "done"]
    /\ result' = [result EXCEPT ![c] = code]
    /\ queue' = Tail(queue)
    /\ settled' = Append(settled, c)

(* Mutant: submissions are not chained. *)
IsTurn_Unqueued(c) == queue # <<>>

(* A queued submission starts when every earlier one has settled. *)
IsTurn(c) == queue # <<>> /\ Head(queue) = c

-----------------------------------------------------------------------------
(* submitTransaction: chain the lifecycle on the queue. *)
SubmitTransaction(c) ==
    /\ pc[c] = "idle"
    /\ pc' = [pc EXCEPT ![c] = "queued"]
    /\ queue' = Append(queue, c)
    /\ UNCHANGED <<result, settled, txVars, clientVars, netVars>>

(* submitTransactionUnlocked begins: resolve the key, ask for the account. *)
Start(c) ==
    /\ pc[c] = "queued"
    /\ IsTurn(c)
    /\ Dispatch(c, "getAccount")
    /\ UNCHANGED <<queue, result, settled, acctNet, seqNo, signNet, pollNet,
                   clientVars, netVars>>

(* The source key cannot be resolved: no signer, or a wallet that refuses. *)
KeyUnavailable(c) ==
    /\ pc[c] = "queued"
    /\ IsTurn(c)
    /\ signer.kind # "keypair"
    /\ Settle(c, "UNEXPECTED_ERROR")
    /\ UNCHANGED <<txVars, clientVars, netVars>>

(* Mutant: the account is read through the cached poller's server. *)
AccountArrives_StaleServer(c) ==
    LET n == IF pollerNet = NoNet THEN reqNet[c] ELSE pollerNet IN
    /\ pc[c] = "getAccount"
    /\ acctNet' = [acctNet EXCEPT ![c] = n]
    /\ seqNo' = [seqNo EXCEPT ![c] = accSeq[n] + 1]
    /\ Dispatch(c, "simulate")
    /\ UNCHANGED <<queue, result, settled, signNet, pollNet, clientVars,
                   netVars>>

(* The account arrives: build with its next sequence number and, in the    *)
(* same run of the event loop, dispatch the simulation.                    *)
AccountArrives(c) ==
    /\ pc[c] = "getAccount"
    /\ acctNet' = [acctNet EXCEPT ![c] = reqNet[c]]
    /\ seqNo' = [seqNo EXCEPT ![c] = accSeq[reqNet[c]] + 1]
    /\ Dispatch(c, "simulate")
    /\ UNCHANGED <<queue, result, settled, signNet, pollNet, clientVars,
                   netVars>>

(* The simulation succeeds and this.signer, as it is now, is asked to sign. *)
SimulationSucceeds(c) ==
    /\ pc[c] = "simulate"
    /\ signer.kind # "none"
    /\ pc' = [pc EXCEPT ![c] = "sign"]
    /\ signNet' = [signNet EXCEPT ![c] = signer.net]
    /\ UNCHANGED <<queue, result, settled, reqNet, dispatches, acctNet, seqNo,
                   pollNet, clientVars, netVars>>

SimulationFails(c) ==
    /\ pc[c] = "simulate"
    /\ Settle(c, "SIMULATION_FAILED")
    /\ UNCHANGED <<txVars, clientVars, netVars>>

NoSigner(c) ==
    /\ pc[c] = "simulate"
    /\ signer.kind = "none"
    /\ Settle(c, "NO_SIGNER")
    /\ UNCHANGED <<txVars, clientVars, netVars>>

(* The signature arrives and the envelope is sent to this.server. *)
Signed(c) ==
    /\ pc[c] = "sign"
    /\ Dispatch(c, "send")
    /\ wire' = wire \cup {<<serverNet, c>>}
    /\ UNCHANGED <<queue, result, settled, acctNet, seqNo, signNet, pollNet,
                   clientVars, ledgerVars>>

SignerRejects(c) ==
    /\ pc[c] = "sign"
    /\ Settle(c, "UNEXPECTED_ERROR")
    /\ UNCHANGED <<txVars, clientVars, netVars>>

(* poller(): the cached instance, or a new one for this.server. *)
PollerNet == IF pollerNet = NoNet THEN serverNet ELSE pollerNet

(* The request that is answered is no longer under way; of an earlier      *)
(* dispatch that timed out nothing is known.                               *)
Answered(c) ==
    wire' = IF dispatches[c] = 1 THEN wire \ {<<reqNet[c], c>>} ELSE wire

(* sendTransaction is answered with a status other than ERROR: PENDING or  *)
(* DUPLICATE when the network has the transaction.  Polling begins.        *)
SendAccepted(c) ==
    /\ pc[c] = "send"
    /\ <<reqNet[c], c>> \in mempool \cup OnChain
    /\ pc' = [pc EXCEPT ![c] = "poll"]
    /\ Answered(c)
    /\ pollerNet' = PollerNet
    /\ pollNet' = [pollNet EXCEPT ![c] = PollerNet]
    /\ UNCHANGED <<queue, result, settled, reqNet, dispatches, acctNet, seqNo,
                   signNet, cfgNet, serverNet, signer, ledgerVars>>

(* TRY_AGAIN_LATER: the network does not have it, and polling begins too. *)
SendTryAgainLater(c) ==
    /\ pc[c] = "send"
    /\ <<reqNet[c], c>> \notin mempool \cup OnChain
    /\ pc' = [pc EXCEPT ![c] = "poll"]
    /\ Answered(c)
    /\ pollerNet' = PollerNet
    /\ pollNet' = [pollNet EXCEPT ![c] = PollerNet]
    /\ UNCHANGED <<queue, result, settled, reqNet, dispatches, acctNet, seqNo,
                   signNet, cfgNet, serverNet, signer, ledgerVars>>

(* A network accepts an envelope signed for it with its next sequence. *)
Acceptable(n, c) == signNet[c] = n /\ seqNo[c] = accSeq[n] + 1

(* sendTransaction is answered ERROR: the network refuses the envelope.    *)
(* A transaction sent again after its inclusion is refused as well, since  *)
(* its sequence number is spent.                                           *)
SendRefused(c) ==
    /\ pc[c] = "send"
    /\ ~Acceptable(reqNet[c], c)
    /\ Settle(c, "SUBMIT_FAILED")
    /\ Answered(c)
    /\ UNCHANGED <<txVars, clientVars, ledgerVars>>

(* An RPC attempt fails retryably: withRetry, or the next endpoint of the  *)
(* pool, dispatches it again, to the server of that moment.                *)
RpcRetry(c) ==
    /\ pc[c] \in RpcStep
    /\ dispatches[c] < MaxDispatch
    /\ dispatches' = [dispatches EXCEPT ![c] = @ + 1]
    /\ reqNet' = [reqNet EXCEPT ![c] = serverNet]
    /\ wire' = IF pc[c] = "send" THEN wire \cup {<<serverNet, c>>} ELSE wire
    /\ UNCHANGED <<queue, pc, result, settled, acctNet, seqNo, signNet,
                   pollNet, clientVars, ledgerVars>>

(* executeWithFallback throws: not retryable, attempts exhausted, circuit  *)
(* open or pool exhausted.  The Result carries no transaction hash.        *)
RpcThrows(c) ==
    /\ pc[c] \in RpcStep
    /\ Settle(c, "UNEXPECTED_ERROR")
    /\ UNCHANGED <<txVars, clientVars, netVars>>

(* Mutant: a transaction that is merely waiting counts as confirmed. *)
PollConfirmed_Pending(c) ==
    /\ pc[c] = "poll"
    /\ <<pollNet[c], c>> \in mempool \cup applied
    /\ Settle(c, "SUCCESS")
    /\ UNCHANGED <<txVars, clientVars, netVars>>

(* The poller's verdicts.  It reads the ledger its own server answers for. *)
PollConfirmed(c) ==
    /\ pc[c] = "poll"
    /\ <<pollNet[c], c>> \in applied
    /\ Settle(c, "SUCCESS")
    /\ UNCHANGED <<txVars, clientVars, netVars>>

PollFailed(c) ==
    /\ pc[c] = "poll"
    /\ <<pollNet[c], c>> \in failed
    /\ Settle(c, "TX_FAILED")
    /\ UNCHANGED <<txVars, clientVars, netVars>>

PollNotConfirmed(c) ==
    /\ pc[c] = "poll"
    /\ <<pollNet[c], c>> \notin OnChain
    /\ Settle(c, "TX_NOT_CONFIRMED")
    /\ UNCHANGED <<txVars, clientVars, netVars>>

PollTimesOut(c) ==
    /\ pc[c] = "poll"
    /\ Settle(c, "TX_TIMEOUT")
    /\ UNCHANGED <<txVars, clientVars, netVars>>

-----------------------------------------------------------------------------
(* setNetwork.  It reassigns network and networkConfig, validates the URL, *)
(* then replaces the pool and _server (not through the setter that drops   *)
(* _poller), then refreshes a KeypairSigner or checks an external one.     *)

MaySwitch == SwitchPolicy = "anytime" \/ queue = <<>>

SetNetwork(n) ==
    /\ MaySwitch
    /\ signer.kind = "bound" => signer.net = n
    /\ cfgNet' = n
    /\ serverNet' = n
    /\ signer' = IF signer.kind = "keypair" THEN [signer EXCEPT !.net = n]
                                            ELSE signer
    /\ UNCHANGED <<callVars, pollerNet, netVars>>

(* validateRpcUrls throws: network and networkConfig are already replaced. *)
SetNetworkBadUrl(n) ==
    /\ MaySwitch
    /\ cfgNet' = n
    /\ UNCHANGED <<callVars, serverNet, signer, pollerNet, netVars>>

(* assertSignerNetwork throws: everything but the signer is replaced. *)
SetNetworkSignerMismatch(n) ==
    /\ MaySwitch
    /\ signer.kind = "bound"
    /\ signer.net # n
    /\ cfgNet' = n
    /\ serverNet' = n
    /\ UNCHANGED <<callVars, signer, pollerNet, netVars>>

-----------------------------------------------------------------------------
(* The ledger (external). *)

(* A dispatched envelope arrives, perhaps after its sender has given up;   *)
(* one that never arrives stays on the wire.                               *)
NetworkReceives(n, c) ==
    /\ <<n, c>> \in wire
    /\ Acceptable(n, c)
    /\ wire' = wire \ {<<n, c>>}
    /\ mempool' = mempool \cup {<<n, c>>}
    /\ UNCHANGED <<callVars, clientVars, accSeq, applied, failed>>

(* A ledger closes with a waiting transaction: it spends the sequence      *)
(* number whether its operations succeed or fail.                          *)
Include(n, c) ==
    /\ <<n, c>> \in mempool
    /\ seqNo[c] = accSeq[n] + 1
    /\ accSeq[n] < MaxSeq
    /\ accSeq' = [accSeq EXCEPT ![n] = @ + 1]
    /\ mempool' = mempool \ {<<n, c>>}
    /\ \/ applied' = applied \cup {<<n, c>>} /\ UNCHANGED failed
       \/ failed' = failed \cup {<<n, c>>} /\ UNCHANGED applied
    /\ UNCHANGED <<callVars, clientVars, wire>>

(* A waiting transaction expires, or its sequence number was spent. *)
Drop(n, c) ==
    /\ <<n, c>> \in mempool
    /\ mempool' = mempool \ {<<n, c>>}
    /\ UNCHANGED <<callVars, clientVars, wire, accSeq, applied, failed>>

(* The account is used by another program as well. *)
ForeignTransaction(n) ==
    /\ accSeq[n] < MaxSeq
    /\ accSeq' = [accSeq EXCEPT ![n] = @ + 1]
    /\ UNCHANGED <<callVars, clientVars, wire, mempool, applied, failed>>

-----------------------------------------------------------------------------
(* The steps that carry one submission forward. *)
Progress(c) ==
    \/ Start(c)          \/ KeyUnavailable(c)
    \/ AccountArrives(c) \/ SimulationSucceeds(c)
    \/ SimulationFails(c) \/ NoSigner(c)         \/ Signed(c)
    \/ SignerRejects(c)  \/ SendAccepted(c)      \/ SendTryAgainLater(c)
    \/ SendRefused(c)    \/ RpcRetry(c)          \/ RpcThrows(c)
    \/ PollConfirmed(c)  \/ PollFailed(c)        \/ PollNotConfirmed(c)
    \/ PollTimesOut(c)

SwitchNetwork(n) ==
    SetNetwork(n) \/ SetNetworkBadUrl(n) \/ SetNetworkSignerMismatch(n)

LedgerStep ==
    \/ \E n \in Networks, c \in Calls :
          NetworkReceives(n, c) \/ Include(n, c) \/ Drop(n, c)
    \/ \E n \in Networks : ForeignTransaction(n)

Next ==
    \/ \E c \in Calls : SubmitTransaction(c) \/ Progress(c)
    \/ \E n \in Networks : SwitchNetwork(n)
    \/ LedgerStep

Spec == Init /\ [][Next]_vars

(* Every RPC, signer request and poll ends: executeWithFallback bounds its *)
(* dispatches and TransactionPoller its attempts, and the HTTP client      *)
(* times out.  Nothing is assumed of the ledger or of the application.     *)
Fairness == \A c \in Calls : WF_vars(Progress(c))

FairSpec == Spec /\ Fairness

-----------------------------------------------------------------------------
CallTypes ==
    /\ queue \in Seq(Calls)
    /\ pc \in [Calls -> Step]
    /\ result \in [Calls -> Code \cup {"none"}]
    /\ settled \in Seq(Calls)

TxTypes ==
    /\ reqNet \in [Calls -> Networks \cup {NoNet}]
    /\ dispatches \in [Calls -> 0..MaxDispatch]
    /\ acctNet \in [Calls -> Networks \cup {NoNet}]
    /\ seqNo \in [Calls -> 0..(MaxSeq + 1)]
    /\ signNet \in [Calls -> Networks \cup {NoNet}]
    /\ pollNet \in [Calls -> Networks \cup {NoNet}]

ClientTypes ==
    /\ cfgNet \in Networks
    /\ serverNet \in Networks
    /\ signer \in [kind : SignerKinds, net : Networks]
    /\ pollerNet \in Networks \cup {NoNet}

LedgerTypes ==
    /\ accSeq \in [Networks -> 0..MaxSeq]
    /\ wire \subseteq Networks \X Calls
    /\ mempool \subseteq Networks \X Calls
    /\ applied \subseteq Networks \X Calls
    /\ failed \subseteq Networks \X Calls

TypeOK == CallTypes /\ TxTypes /\ ClientTypes /\ LedgerTypes

(* d's transaction was built by a lifecycle that ran after c settled: c    *)
(* comes before d in the order of settlement, or d has not settled yet.    *)
BuiltAfter(c, d) ==
    /\ c # d /\ seqNo[d] # 0
    /\ \E i \in 1..Len(settled) :
          /\ settled[i] = c
          /\ \A j \in 1..i : settled[j] # d

(* A sequence number that a confirmed submission spent on a network is     *)
(* never built into a later transaction for that network.  This is what    *)
(* queueing the whole lifecycle (client.ts:498-509) buys.                  *)
FreshAfterConclusive ==
    \A c, d \in Calls :
        ( /\ result[c] \in Conclusive
          /\ BuiltAfter(c, d)
          /\ acctNet[d] = pollNet[c] )
        => seqNo[d] > seqNo[c]

(* A verdict about the chain is never made up: a submission reported       *)
(* successful was applied, one reported TX_FAILED was included and failed, *)
(* and one that ended before signing never reached any network.            *)
VerdictsAreTrue ==
    \A c \in Calls :
        /\ result[c] = "SUCCESS" => \E n \in Networks : <<n, c>> \in applied
        /\ result[c] = "TX_FAILED" => \E n \in Networks : <<n, c>> \in failed
        /\ result[c] \in {"SIMULATION_FAILED", "NO_SIGNER"} =>
              \A n \in Networks : <<n, c>> \notin wire \cup mempool \cup OnChain

(* A transaction is included only by the network whose account it was      *)
(* built for: no lifecycle mixes one network's sequence number with        *)
(* another network's signature and endpoint.                               *)
LandsWhereBuilt ==
    \A c \in Calls, n \in Networks :
        <<n, c>> \in mempool \cup OnChain => acctNet[c] = n

-----------------------------------------------------------------------------
(* The inductive invariant behind FreshAfterConclusive and VerdictsAreTrue. *)

(* Only the head of the queue runs. *)
HeadRuns ==
    \A c \in Calls : pc[c] \in Running => queue # <<>> /\ Head(queue) = c

(* An RPC under way has a server. *)
Dispatched ==
    \A c \in Calls : pc[c] \in RpcStep => reqNet[c] \in Networks

DoneIsSettled ==
    \A c \in Calls :
        /\ (pc[c] = "done") <=> (result[c] # "none")
        /\ (pc[c] = "done") <=> (\E i \in 1..Len(settled) : settled[i] = c)

Unbuilt == {"idle", "queued", "getAccount"}

(* Before its account is read a call has no sequence number, and before it *)
(* is signed no network has seen it.                                       *)
NothingEarly ==
    \A c \in Calls :
        /\ pc[c] \in Unbuilt => seqNo[c] = 0
        /\ pc[c] \in Unbuilt \cup {"simulate", "sign"} =>
              \A n \in Networks : <<n, c>> \notin wire \cup mempool \cup OnChain

(* An included transaction's sequence number is spent. *)
IncludedIsSpent ==
    \A n \in Networks, c \in Calls :
        <<n, c>> \in OnChain => accSeq[n] >= seqNo[c]

(* A verdict is about the network the poller asked. *)
VerdictIsPolled ==
    \A c \in Calls :
        /\ result[c] = "SUCCESS" => <<pollNet[c], c>> \in applied
        /\ result[c] = "TX_FAILED" => <<pollNet[c], c>> \in failed

IInv ==
    /\ TypeOK
    /\ HeadRuns
    /\ Dispatched
    /\ DoneIsSettled
    /\ NothingEarly
    /\ IncludedIsSpent
    /\ VerdictIsPolled
    /\ VerdictsAreTrue
    /\ FreshAfterConclusive

-----------------------------------------------------------------------------
(* TX_NOT_CONFIRMED is reported only of a transaction no network has       *)
(* included by then.  README.md: "A confirmed transaction returns          *)
(* success: true".                                                         *)
NotConfirmedIsTrue ==
    [][\A c \in Calls, n \in Networks :
          (result[c] = "none" /\ result'[c] = "TX_NOT_CONFIRMED")
              => <<n, c>> \notin OnChain]_vars

(* client.ts:501-502: "a failed submission never permanently blocks later  *)
(* submissions": every submitted call settles.                             *)
EverySubmissionSettles ==
    \A c \in Calls : pc[c] = "queued" ~> pc[c] = "done"
=============================================================================
