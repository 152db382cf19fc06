-------------------------- MODULE TransactionPoller --------------------------
(***************************************************************************)
(* TransactionPoller.poll (src/src/utils/polling.ts): getTransaction is    *)
(* asked again and again, with a delay in between, until the ledger has    *)
(* the transaction, the attempts are used up, three reads in a row failed  *)
(* or the caller's AbortSignal fired.  A read takes effect when the server *)
(* answers it; how long a delay lasts is left open.                        *)
(***************************************************************************)
EXTENDS Naturals

CONSTANT AttemptLimits   \* the values of options.maxAttempts explored

ASSUME PollerConstants == AttemptLimits \subseteq Nat

MaxConsecutiveErrors == 3

VARIABLES
    maxAttempts,  \* options.maxAttempts (30 by default)
    pc,        \* "idle", "rpc", "delay", "done"
    attempt,   \* the loop's counter
    errors,    \* consecutiveRpcErrors
    lastRead,  \* lastOutcome, or the status that ended the poll
    verdict,   \* code of the Result, or "pending"
    aborted,   \* signal.aborted
    chain      \* the transaction on the ledger (external)

vars == <<maxAttempts, pc, attempt, errors, lastRead, verdict, aborted, chain>>

Init ==
    /\ maxAttempts \in AttemptLimits
    /\ pc = "idle" /\ attempt = 0 /\ errors = 0
    /\ lastRead = "none" /\ verdict = "pending"
    /\ aborted \in BOOLEAN
    /\ chain = "NOT_FOUND"

Resolve(v) == pc' = "done" /\ verdict' = v

(* Mutant: the last read is not looked at. *)
Exhausted_AlwaysNotConfirmed(read) == Resolve("TX_NOT_CONFIRMED")

(* After the loop: the last observed outcome decides. *)
Exhausted(read) ==
    Resolve(IF read = "NOT_FOUND" THEN "TX_NOT_CONFIRMED" ELSE "TX_TIMEOUT")

(* The top of the loop: attempt n sends a request unless aborted. *)
LoopTop(n) ==
    /\ attempt' = n
    /\ \/ n > maxAttempts /\ Exhausted(lastRead)
       \/ n <= maxAttempts /\ aborted /\ Resolve("ABORTED")
       \/ n <= maxAttempts /\ ~aborted /\ pc' = "rpc" /\ UNCHANGED verdict

Poll ==
    /\ pc = "idle"
    /\ LoopTop(1)
    /\ UNCHANGED <<errors, lastRead, aborted, chain, maxAttempts>>

(* The server answers SUCCESS or FAILED: decided, aborted or not. *)
ReadsFinal ==
    /\ pc = "rpc"
    /\ chain \in {"SUCCESS", "FAILED"}
    /\ errors' = 0
    /\ lastRead' = chain
    /\ Resolve(IF chain = "SUCCESS" THEN "SUCCESS" ELSE "TX_FAILED")
    /\ UNCHANGED <<attempt, aborted, chain, maxAttempts>>

(* The end of the loop's body: a delay, except after the last attempt. *)
LoopEnd(read) ==
    \/ attempt < maxAttempts /\ pc' = "delay" /\ UNCHANGED verdict
    \/ attempt >= maxAttempts /\ Exhausted(read)

ReadsNotFound ==
    /\ pc = "rpc"
    /\ chain = "NOT_FOUND"
    /\ errors' = 0
    /\ lastRead' = "NOT_FOUND"
    /\ LoopEnd("NOT_FOUND")
    /\ UNCHANGED <<attempt, aborted, chain, maxAttempts>>

(* The read throws: the third time in a row ends the poll. *)
ReadFails ==
    /\ pc = "rpc"
    /\ errors' = errors + 1
    /\ lastRead' = "ERROR"
    /\ \/ errors + 1 < MaxConsecutiveErrors /\ LoopEnd("ERROR")
       \/ errors + 1 >= MaxConsecutiveErrors /\ aborted /\ Resolve("ABORTED")
       \/ errors + 1 >= MaxConsecutiveErrors /\ ~aborted /\ Exhausted("ERROR")
    /\ UNCHANGED <<attempt, aborted, chain, maxAttempts>>

(* Mutant: the timer fires only if nobody aborts. *)
DelayEnds_DropsAbort ==
    /\ pc = "delay"
    /\ ~aborted
    /\ LoopTop(attempt + 1)
    /\ UNCHANGED <<errors, lastRead, aborted, chain, maxAttempts>>

(* The delay ends by its timer or by the signal, and the loop goes on. *)
DelayEnds ==
    /\ pc = "delay"
    /\ \/ aborted /\ Resolve("ABORTED") /\ UNCHANGED attempt
       \/ ~aborted /\ LoopTop(attempt + 1)
    /\ UNCHANGED <<errors, lastRead, aborted, chain, maxAttempts>>

(* The caller's signal (external). *)
Abort ==
    /\ ~aborted
    /\ aborted' = TRUE
    /\ UNCHANGED <<pc, attempt, errors, lastRead, verdict, chain,
                   maxAttempts>>

(* The ledger includes the transaction (external). *)
Include ==
    /\ chain = "NOT_FOUND"
    /\ chain' \in {"SUCCESS", "FAILED"}
    /\ UNCHANGED <<pc, attempt, errors, lastRead, verdict, aborted,
                   maxAttempts>>

Progress == ReadsFinal \/ ReadsNotFound \/ ReadFails \/ DelayEnds

Next == Poll \/ Progress \/ Abort \/ Include

Spec == Init /\ [][Next]_vars

(* getTransaction is answered or times out, and timers fire. *)
FairSpec == Spec /\ WF_vars(Progress)

-----------------------------------------------------------------------------
TypeOK ==
    /\ maxAttempts \in AttemptLimits
    /\ pc \in {"idle", "rpc", "delay", "done"}
    /\ attempt \in 0..(maxAttempts + 1)
    /\ errors \in 0..MaxConsecutiveErrors
    /\ lastRead \in {"none", "NOT_FOUND", "ERROR", "SUCCESS", "FAILED"}
    /\ verdict \in {"pending", "SUCCESS", "TX_FAILED", "TX_NOT_CONFIRMED",
                    "TX_TIMEOUT", "ABORTED"}
    /\ aborted \in BOOLEAN
    /\ chain \in {"NOT_FOUND", "SUCCESS", "FAILED"}

Contract == INSTANCE PollContract
                WITH chain <- chain, aborted <- aborted,
                     lastRead <- lastRead, verdict <- verdict

(* The poller implements its contract: every verdict is justified by the   *)
(* last completed read, or by the signal (polling.ts:52-55, 162-164).      *)
ImplementsContract == Contract!Spec

(* "Checked before each attempt and interrupts the delay": once the signal *)
(* has fired no further getTransaction is sent (polling.ts:29-33).         *)
AbortStops == [][(aborted /\ pc # "rpc") => pc' # "rpc"]_vars

(* A poll that was started resolves. *)
EveryPollEnds == pc \in {"rpc", "delay"} ~> pc = "done"
=============================================================================
