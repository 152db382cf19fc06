------------------------------- MODULE Orders -------------------------------
(* Limit orders (modules/limit-orders.ts), DCA schedules (modules/dca.ts)  *)
(* and stop-loss orders (modules/stop-loss.ts).  The order contracts and    *)
(* the price oracle are external: fills, executions and expiry happen       *)
(* between any two steps of a call.  Each await of a call (status read,     *)
(* simulation, submission, its result) is a step.  A transaction applies    *)
(* before its result is asked for, or never: one that is still waiting is   *)
(* the subject of Resubmission.                                             *)
EXTENDS Naturals, FiniteSets

CONSTANTS
    OrderIds,    \* identifiers the contracts hand out
    Calls,       \* calls of the application
    Amount,      \* amountIn, or totalIntervals of a schedule
    OraclePrices,
    StaleAfter,  \* staleAfterMs
    MaxAttempts  \* MAX_IDEMPOTENT_RESUBMISSIONS + 1

ASSUME OrdersAssumption == Amount \in Nat \ {0} /\ 0 \notin OrderIds

VARIABLES
    order,     \* the contracts' records (external)
    oracle,    \* the oracle's price and the age of its timestamp (external)
    call,      \* what each call has read and where it waits
    refund     \* (history) what the contract paid back when it cancelled

ordersVars == <<order, oracle, call, refund>>

NoOrder == [kind |-> "none", state |-> "none", filled |-> 0, trigger |-> 0]
Live == {"open", "partial"}
Waiting == [pc |-> "idle", id |-> 0, attempt |-> 0, refunded |-> 0, filled |-> 0,
            next |-> 0, trigger |-> 0]
Ended(c, how) == [call EXCEPT ![c].pc = how]
Goto(c, pc) == [call EXCEPT ![c].pc = pc]
-----------------------------------------------------------------------------
(* The contracts and the oracle *)

Fill(id) ==
    /\ order[id].state \in Live
    /\ order[id].kind = "stop" => oracle.price <= order[id].trigger
    /\ LET f == IF order[id].kind = "stop" THEN Amount ELSE order[id].filled + 1 IN
       order' = [order EXCEPT ![id].filled = f,
                              ![id].state = IF f = Amount THEN "filled" ELSE "partial"]
    /\ UNCHANGED <<oracle, call, refund>>

Expire(id) ==
    /\ order[id].kind = "limit" /\ order[id].state \in Live
    /\ order' = [order EXCEPT ![id].state = "expired"]
    /\ UNCHANGED <<oracle, call, refund>>

OracleMoves(p, age) ==
    /\ oracle' = [price |-> p, age |-> age]
    /\ UNCHANGED <<order, call, refund>>

Created(id, kind, t) ==
    [order EXCEPT ![id] = [kind |-> kind, state |-> "open", filled |-> 0, trigger |-> t]]
-----------------------------------------------------------------------------
(* What the parsers make of a contract's answer *)

OrderStatus(id) == [state |-> order[id].state,
                    fillPercent |-> (order[id].filled * 100) \div Amount]

OrderDetails(id) == [status |-> OrderStatus(id), amountFilled |-> order[id].filled,
                     amountRemaining |-> Amount - order[id].filled]

CancelQuote(id) == [refundedAmount |-> OrderDetails(id).amountRemaining,
                    filledAmount |-> order[id].filled]

Schedule(id) == [status |-> order[id].state, executedCount |-> order[id].filled,
                 remainingCount |-> Amount - order[id].filled]
-----------------------------------------------------------------------------
(* placeLimitOrder, cancelLimitOrder, cancelAndReplaceLimitOrder *)

\* Simulation answers the id the order will have.
BuildPlace(c, id) ==
    /\ call[c].pc = "idle" /\ order[id] = NoOrder
    /\ \A d \in Calls : call[d].next # id
    /\ call' = [call EXCEPT ![c] = [Waiting EXCEPT !.pc = "submit", !.next = id]]
    /\ UNCHANGED <<order, oracle, refund>>

CancelLimitOrder(c, id) ==
    /\ call[c].pc = "idle" /\ order[id].kind = "limit"
    /\ call' = [call EXCEPT ![c] = [Waiting EXCEPT !.pc = "status", !.id = id]]
    /\ UNCHANGED <<order, oracle, refund>>

StatusRead(c) ==
    /\ call[c].pc = "status"
    /\ call' = IF OrderStatus(call[c].id).state \in {"cancelled", "filled", "expired"}
               THEN Ended(c, "threw") ELSE Goto(c, "simulate")
    /\ UNCHANGED <<order, oracle, refund>>

\* The amounts the caller will be told are those of the simulation.
CancelSimulated(c, replacement) ==
    LET id == call[c].id IN
    /\ call[c].pc = "simulate"
    /\ replacement # 0 => order[replacement] = NoOrder /\ \A d \in Calls : call[d].next # replacement
    /\ call' = IF order[id].state \notin Live THEN Ended(c, "threw")
               ELSE [call EXCEPT ![c].pc = "submit", ![c].next = replacement,
                        ![c].refunded = CancelQuote(id).refundedAmount,
                        ![c].filled = CancelQuote(id).filledAmount]
    /\ UNCHANGED <<order, oracle, refund>>

\* One attempt of submitWithIdempotentResubmission takes effect on the
\* ledger: the operations of a transaction all apply, or none does.
TransactionApplies(c) ==
    LET id == call[c].id
        new == call[c].next
        cancelled == IF id = 0 THEN order
                     ELSE [order EXCEPT ![id].state = "cancelled"] IN
    /\ call[c].pc = "submit"
    /\ id # 0 => order[id].state \in Live
    /\ order' = IF new = 0 THEN cancelled
                ELSE [cancelled EXCEPT ![new] = [kind |-> "limit", state |-> "open",
                                                 filled |-> 0, trigger |-> 0]]
    /\ new # 0 => order[new] = NoOrder
    /\ refund' = IF id = 0 THEN refund ELSE [refund EXCEPT ![id] = Amount - order[id].filled]
    /\ \/ call' = Ended(c, "ok")
       \/ call' = Goto(c, "landed")       \* applied, but no verdict came back
    /\ UNCHANGED <<oracle>>

\* Refused by the contract, dropped, or not heard of.
TransactionFails(c) ==
    /\ call[c].pc = "submit"
    /\ \/ call' = Ended(c, "threw")
       \/ call' = Goto(c, "landed")
    /\ UNCHANGED <<order, oracle, refund>>

\* The check made after an inconclusive attempt: a placed order exists, a
\* cancelled one reads `cancelled`.
HasLanded(c) ==
    IF call[c].next # 0 THEN order[call[c].next] # NoOrder
    ELSE OrderStatus(call[c].id).state = "cancelled"

LandedChecked(c) ==
    LET again == call[c].attempt + 1 < MaxAttempts IN
    /\ call[c].pc = "landed"
    /\ call' = IF HasLanded(c) THEN Ended(c, "ok")
               ELSE IF again THEN [call EXCEPT ![c].pc = "submit", ![c].attempt = @ + 1]
               ELSE Ended(c, "threw")
    /\ UNCHANGED <<order, oracle, refund>>
-----------------------------------------------------------------------------
(* createDCA, cancelDCA *)

CreateDCA(c, id) ==
    /\ call[c].pc = "idle" /\ order[id] = NoOrder /\ \A d \in Calls : call[d].next # id
    /\ order' = Created(id, "dca", 0)
    /\ call' = Ended(c, "created")
    /\ UNCHANGED <<oracle, refund>>

\* The refund told is computed from the schedule read before the signer and
\* the submission are awaited.
ScheduleRead(c, id) ==
    /\ call[c].pc = "idle" /\ order[id].kind = "dca"
    /\ call' = IF Schedule(id).status \in {"cancelled", "filled"} THEN Ended(c, "threw")
               ELSE [call EXCEPT ![c] = [Waiting EXCEPT !.pc = "cancelDCA", !.id = id,
                                           !.refunded = Schedule(id).remainingCount]]
    /\ UNCHANGED <<order, oracle, refund>>

CancelDCA(c) ==
    LET id == call[c].id IN
    /\ call[c].pc = "cancelDCA" /\ order[id].state \in Live
    /\ order' = [order EXCEPT ![id].state = "cancelled"]
    /\ refund' = [refund EXCEPT ![id] = Amount - order[id].filled]
    /\ \/ call' = Ended(c, "ok")
       \/ call' = Ended(c, "threw")      \* applied, reported as failed
    /\ UNCHANGED <<oracle>>

CancelDCAFails(c) ==
    /\ call[c].pc = "cancelDCA" /\ call' = Ended(c, "threw")
    /\ UNCHANGED <<order, oracle, refund>>
-----------------------------------------------------------------------------
(* createStopLoss *)

Fresh == oracle.age <= StaleAfter

\* buildCreateStopLossOperation: the trigger is below a fresh price.
BuildStopLoss(c, t) ==
    /\ call[c].pc = "idle"
    /\ call' = IF Fresh /\ t < oracle.price
               THEN [call EXCEPT ![c] = [Waiting EXCEPT !.pc = "createStop", !.trigger = t]]
               ELSE Ended(c, "threw")
    /\ UNCHANGED <<order, oracle, refund>>

CreateStopLoss(c, id) ==
    /\ call[c].pc = "createStop" /\ order[id] = NoOrder /\ \A d \in Calls : call[d].next # id
    /\ order' = Created(id, "stop", call[c].trigger)
    /\ call' = Ended(c, "created")
    /\ UNCHANGED <<oracle, refund>>

CreateStopLossFails(c) ==
    /\ call[c].pc = "createStop" /\ call' = Ended(c, "threw")
    /\ UNCHANGED <<order, oracle, refund>>

-----------------------------------------------------------------------------
OrdersInit ==
    /\ order = [i \in OrderIds |-> NoOrder]
    /\ oracle \in [price : OraclePrices, age : {0}]
    /\ call = [c \in Calls |-> Waiting]
    /\ refund = [i \in OrderIds |-> 0]

OrdersNext ==
    \/ \E id \in OrderIds : Fill(id) \/ Expire(id)
    \/ \E p \in OraclePrices, age \in {0, StaleAfter + 1} : OracleMoves(p, age)
    \/ \E c \in Calls, id \in OrderIds :
          \/ BuildPlace(c, id) \/ CancelLimitOrder(c, id)
          \/ CreateDCA(c, id) \/ ScheduleRead(c, id) \/ CreateStopLoss(c, id)
    \/ \E c \in Calls, r \in OrderIds \cup {0} : CancelSimulated(c, r)
    \/ \E c \in Calls, t \in OraclePrices : BuildStopLoss(c, t)
    \/ \E c \in Calls :
          \/ StatusRead(c) \/ TransactionApplies(c) \/ TransactionFails(c) \/ LandedChecked(c)
          \/ CancelDCA(c) \/ CancelDCAFails(c) \/ CreateStopLossFails(c)
-----------------------------------------------------------------------------
(* A cancellation reported as done is done: the order is cancelled, and the *)
(* refund told is at least what was paid back and differs from it only by   *)
(* what was filled between the read it rests on and the ledger              *)
(* (limit-orders.ts:711-803, dca.ts:222-271).                               *)
CancelReportIsTrue ==
    \A c \in Calls : call[c].pc = "ok" /\ call[c].id # 0 =>
        LET id == call[c].id IN
        /\ order[id].state = "cancelled"
        /\ call[c].refunded >= refund[id] /\ call[c].filled <= Amount - refund[id]
        /\ call[c].next # 0 => order[call[c].next] # NoOrder
=============================================================================
