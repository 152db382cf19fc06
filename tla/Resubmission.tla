---------------------------- MODULE Resubmission ----------------------------
(***************************************************************************)
(* What the SDK's modules do when a submission reports failure: one        *)
(* application-level operation (a swap, a stake, an order...) is carried   *)
(* out by one or more submitTransaction calls, each building a transaction *)
(* with a fresh sequence number.  The module composes TxSubmission with    *)
(* the seven resubmission loops of the code; call i of TxSubmission is     *)
(* attempt i of the operation.                                             *)
(*                                                                         *)
(*   "swap"       modules/swap.ts   submitSwapWithIdempotentResubmission   *)
(*   "once"       modules/blend.ts, governance.ts, squid.ts                *)
(*   "flashLoan"  modules/flash-loan.ts execute                            *)
(*   "liquidity"  utils/submit-idempotent.ts submitIdempotent              *)
(*   "limitOrder" modules/limit-orders.ts submitWithIdempotentResubmission *)
(*   "stake", "unstake"  modules/staking.ts over idempotentResubmit        *)
(***************************************************************************)
EXTENDS TxSubmission

CONSTANTS
    Strategies,  \* the loops explored
    MaxRetries   \* resubmissions a loop may make

ASSUME ResubmissionConstants ==
    /\ MaxRetries \in Nat
    /\ Calls = 0..MaxRetries
    /\ Strategies \subseteq {"swap", "once", "flashLoan", "liquidity",
                             "limitOrder", "stake", "unstake"}

VARIABLES
    strategy,   \* the loop this behaviour runs
    op,         \* where the operation is
    attempt,    \* the loop's counter
    alive       \* attempts that could still be included when the loop
                \* decided to resubmit (history)

opVars == <<strategy, op, attempt, alive>>
rvars  == <<vars, opVars>>

OpStep == {"new", "submitting", "checking", "reading", "backoff",
           "ok", "error"}

RInit ==
    /\ Init
    /\ strategy \in Strategies
    /\ op = "new" /\ attempt = 0 /\ alive = {}

-----------------------------------------------------------------------------
(* Results of submitTransaction that carry a txHash: the poller's. *)
HasHash == {"TX_FAILED", "TX_NOT_CONFIRMED", "TX_TIMEOUT"}

(* isRetryable of the error: only an UNEXPECTED_ERROR keeps the message of *)
(* the RPC error it stands for; the other messages match no keyword        *)
(* ("timed out" is not "timeout").                                         *)
RetryableVerdicts(code) ==
    IF code = "UNEXPECTED_ERROR" THEN {TRUE, FALSE} ELSE {FALSE}

(* Which failed attempts each loop asks getTransactionStatus about. *)
SwapAsks(code)      == strategy = "swap" /\ code \in HasHash
FlashLoanAsks(code) == strategy = "flashLoan" /\ code \in HasHash
OrderAsks(code)     == strategy = "limitOrder" /\ code \in HasHash
(* Only of the first attempt: the second one's result is final. *)
OnceAsks(code)      == strategy = "once" /\ code \in HasHash /\ attempt = 0
LiquidityAsks(code) == strategy = "liquidity" /\ code = "TX_TIMEOUT"

AsksStatus(code) ==
    \/ SwapAsks(code) \/ FlashLoanAsks(code) \/ OrderAsks(code)
    \/ OnceAsks(code) \/ LiquidityAsks(code)

(* Where the loop reads the contract instead: landed(), checkLanded(). *)
OrderReads(code, retryable) ==
    strategy = "limitOrder" /\ code \notin HasHash /\ retryable
StakeReads(retryable) ==
    strategy \in {"stake", "unstake"} /\ retryable /\ attempt < MaxRetries

ReadsContract(code, retryable) ==
    OrderReads(code, retryable) \/ StakeReads(retryable)

(* Mutant: an indeterminate status is retried too. *)
ShouldRetry_OnError(status) ==
    /\ status \in {"NOT_FOUND", "ERROR"}
    /\ strategy \in {"swap", "once", "limitOrder"}

(* shouldRetrySubmission with the default policy: only NOT_FOUND.  The     *)
(* flash-loan and liquidity paths never act on it.                         *)
ShouldRetry(status) ==
    /\ status = "NOT_FOUND"
    /\ strategy \in {"swap", "once", "limitOrder"}

(* The loop goes round again, or gives up at its bound. *)
RetryOrFail ==
    /\ op' = IF attempt < MaxRetries THEN "backoff" ELSE "error"
    /\ alive' = alive \cup {c \in Calls : \E n \in Networks :
                               <<n, c>> \in wire \cup mempool}

EndAs(verdict) == op' = verdict /\ UNCHANGED alive

-----------------------------------------------------------------------------
Begin ==
    /\ op = "new"
    /\ SubmitTransaction(0)
    /\ op' = "submitting"
    /\ UNCHANGED <<strategy, attempt, alive>>

(* The submission of this attempt settled. *)
SubmissionReturns ==
    /\ op = "submitting"
    /\ pc[attempt] = "done"
    /\ LET code == result[attempt] IN
       \/ code = "SUCCESS" /\ op' = "ok"
       \/ code # "SUCCESS" /\ \E r \in RetryableVerdicts(code) :
             op' = IF AsksStatus(code) THEN "checking"
                   ELSE IF ReadsContract(code, r) THEN "reading"
                   ELSE "error"
    /\ UNCHANGED <<strategy, attempt, alive, vars>>

(* Mutant: inclusion counts as success. *)
ChainStatus_IncludedIsSuccess ==
    IF \E n \in Networks : <<n, attempt>> \in OnChain THEN "SUCCESS"
    ELSE "NOT_FOUND"

(* getTransactionStatus: the ledger's answer for this attempt's hash, or   *)
(* ERROR when the query itself fails.                                      *)
ChainStatus ==
    IF \E n \in Networks : <<n, attempt>> \in applied THEN "SUCCESS"
    ELSE IF \E n \in Networks : <<n, attempt>> \in failed THEN "FAILED"
    ELSE "NOT_FOUND"

StatusAnswered ==
    /\ op = "checking"
    /\ \E status \in {ChainStatus, "ERROR"} :
          \/ status = "SUCCESS" /\ EndAs("ok")
          \/ status # "SUCCESS" /\ ShouldRetry(status) /\ RetryOrFail
          \/ status # "SUCCESS" /\ ~ShouldRetry(status) /\ EndAs("error")
    /\ UNCHANGED <<strategy, attempt, vars>>

(* The contract's own view: did any attempt take effect? *)
Landed == applied # {}

(* A read that answers: the loop resubmits unless the effect is there. *)
ContractRead ==
    /\ op = "reading"
    /\ \/ Landed /\ EndAs("ok")
       \/ ~Landed /\ RetryOrFail
    /\ UNCHANGED <<strategy, attempt, vars>>

(* A read that throws ends the operation with that error. *)
ContractReadThrows ==
    /\ op = "reading"
    /\ EndAs("error")
    /\ UNCHANGED <<strategy, attempt, vars>>

(* getStakedBalance turns a failed simulation into a balance of zero: too  *)
(* little for stake to have landed, little enough for unstake to have.     *)
ContractReadFails ==
    /\ op = "reading"
    /\ \/ strategy = "stake" /\ RetryOrFail
       \/ strategy = "unstake" /\ EndAs("ok")
    /\ UNCHANGED <<strategy, attempt, vars>>

Resubmit ==
    /\ op = "backoff"
    /\ SubmitTransaction(attempt + 1)
    /\ op' = "submitting"
    /\ attempt' = attempt + 1
    /\ UNCHANGED <<strategy, alive>>

(* idempotentResubmit's deadline passed during the backoff. *)
DeadlinePassed ==
    /\ op = "backoff"
    /\ strategy \in {"stake", "unstake"}
    /\ EndAs("error")
    /\ UNCHANGED <<strategy, attempt, vars>>

LoopStep ==
    \/ Begin \/ SubmissionReturns \/ StatusAnswered \/ ContractRead
    \/ ContractReadThrows \/ ContractReadFails \/ Resubmit \/ DeadlinePassed

RNext ==
    \/ LoopStep
    \/ (\E c \in Calls : Progress(c)) /\ UNCHANGED opVars
    \/ LedgerStep /\ UNCHANGED opVars

RSpec == RInit /\ [][RNext]_rvars

(* As TxSubmission's Fairness, and the loop's own awaits end. *)
RFairSpec ==
    RSpec /\ WF_rvars(LoopStep)
          /\ \A c \in Calls : WF_rvars(Progress(c) /\ UNCHANGED opVars)

-----------------------------------------------------------------------------

(* The loops' guarantee, as far as it goes: an operation takes effect a    *)
(* second time only if an earlier attempt was still on its way, neither    *)
(* included nor dropped, when the loop decided to resubmit.  An attempt    *)
(* that was included before that decision is never repeated.  The stake    *)
(* loop is the exception: see StakedOnce.                                  *)
RepeatedOnlyIfAlive ==
    strategy # "stake" =>
        \A i, j \in Calls, m, n \in Networks :
            (i < j /\ <<m, i>> \in applied /\ <<n, j>> \in applied)
                => i \in alive

(* An operation reported successful took effect, unless it is an unstake   *)
(* that took a failed balance read (staking.ts:199) for a balance of zero. *)
OkMeansApplied == op = "ok" /\ strategy # "unstake" => applied # {}

(* idempotent-resubmit.ts:10-14: a retryable failure "never causes a blind *)
(* resubmission of an operation that actually landed on-chain": the check  *)
(* never sends a stake round again that has been applied by then.          *)
StakedOnce ==
    [][(strategy = "stake" /\ op = "reading" /\ op' = "backoff")
          => ~Landed]_rvars

(* swap.ts:396-403: checking the status "prevent[s] the same trade from    *)
(* executing twice".                                                       *)
AtMostOnce == \A x, y \in applied : x = y

(* Every operation ends: the retry loops are bounded. *)
OperationEnds == op = "submitting" ~> op \in {"ok", "error"}
=============================================================================
