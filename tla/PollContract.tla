---------------------------- MODULE PollContract ----------------------------
(***************************************************************************)
(* What TransactionPoller.poll promises its caller (the doc comment at     *)
(* src/src/utils/polling.ts:48-56): one final verdict, justified by what   *)
(* the last completed read of the ledger said.  Module TxSubmission uses   *)
(* the poller through this contract; TransactionPoller implements it.      *)
(***************************************************************************)

VARIABLES
    chain,     \* the transaction on the ledger
    aborted,   \* the caller's AbortSignal
    lastRead,  \* what the last completed read said
    verdict    \* what poll resolved with

vars == <<chain, aborted, lastRead, verdict>>

Final   == {"SUCCESS", "FAILED"}
Pending == "pending"

VerdictOn(status) == IF status = "SUCCESS" THEN "SUCCESS" ELSE "TX_FAILED"

Init ==
    /\ chain = "NOT_FOUND"
    /\ aborted \in BOOLEAN
    /\ lastRead = "none"
    /\ verdict = Pending

(* A read that finds the transaction decides at once. *)
ReadFinal ==
    /\ verdict = Pending
    /\ chain \in Final
    /\ lastRead' = chain
    /\ verdict' = VerdictOn(chain)
    /\ UNCHANGED <<chain, aborted>>

(* A read that does not find it may be the last one. *)
ReadNotFound ==
    /\ verdict = Pending
    /\ chain = "NOT_FOUND"
    /\ lastRead' = "NOT_FOUND"
    /\ verdict' \in {Pending, "TX_NOT_CONFIRMED"}
    /\ UNCHANGED <<chain, aborted>>

(* A read that fails may be the last one; it says nothing of the ledger. *)
ReadFails ==
    /\ verdict = Pending
    /\ lastRead' = "ERROR"
    /\ verdict' \in {Pending, "TX_TIMEOUT"} \cup
                    (IF aborted THEN {"ABORTED"} ELSE {})
    /\ UNCHANGED <<chain, aborted>>

(* An aborted poll ends without another read. *)
Cancel ==
    /\ verdict = Pending
    /\ aborted
    /\ verdict' = "ABORTED"
    /\ UNCHANGED <<chain, aborted, lastRead>>

(* A poll that is allowed no attempt knows nothing. *)
NoAttempt ==
    /\ verdict = Pending
    /\ lastRead = "none"
    /\ verdict' = "TX_TIMEOUT"
    /\ UNCHANGED <<chain, aborted, lastRead>>

Abort   == ~aborted /\ aborted' = TRUE /\ UNCHANGED <<chain, lastRead, verdict>>
Include == chain = "NOT_FOUND" /\ chain' \in Final
           /\ UNCHANGED <<aborted, lastRead, verdict>>

Next == ReadFinal \/ ReadNotFound \/ ReadFails \/ Cancel \/ NoAttempt
        \/ Abort \/ Include

Spec == Init /\ [][Next]_vars
=============================================================================
