---------------------------- MODULE BatchRequest ----------------------------
(* batchRequest of utils/batch-request.ts: workers share one index into the *)
(* tasks; each awaits its task, or the task's timeout, before the next.     *)
EXTENDS Naturals

CONSTANTS
    NumTasks,     \* tasks.length
    Concurrency,  \* options.concurrency
    TimesOut      \* options.taskTimeoutMs is set

ASSUME BatchAssumption == NumTasks \in Nat /\ Concurrency \in Nat \ {0} /\ TimesOut \in BOOLEAN

Workers == 1..(IF Concurrency < NumTasks THEN Concurrency ELSE NumTasks)

VARIABLES
    nextIndex,  \* shared by the workers
    taken,      \* the index each worker awaits, or 0
    results,    \* what stands at each index
    begun,      \* (history) how often each task was started
    outcome     \* (history) how each task ended, "runs" until then

Empty == <<>>          \* no result yet
Value(i) == <<i>>       \* the value of task i
Rejection == <<0>>
batchVars == <<nextIndex, taken, results, begun, outcome>>

\* The loop's head and `nextIndex++`: no await lies between them.
TakeTask(w) ==
    /\ taken[w] = 0 /\ nextIndex <= NumTasks
    /\ taken' = [taken EXCEPT ![w] = nextIndex]
    /\ nextIndex' = nextIndex + 1
    /\ begun' = [begun EXCEPT ![nextIndex] = @ + 1]
    /\ UNCHANGED <<results, outcome>>

\* Mutant: the shared index is read again after the await.
Slot_Shared(w) == nextIndex - 1

Slot(w) == taken[w]

Records(w, result) ==
    /\ taken[w] # 0
    /\ results' = [results EXCEPT ![Slot(w)] = result]
    /\ taken' = [taken EXCEPT ![w] = 0]
    /\ UNCHANGED <<nextIndex, begun>>

Fulfilled(w) ==
    /\ Records(w, Value(taken[w]))
    /\ outcome' = [outcome EXCEPT ![taken[w]] = "fulfilled"]

Rejected(w) ==
    /\ Records(w, Rejection)
    /\ outcome' = [outcome EXCEPT ![taken[w]] = "rejected"]

\* The race is lost to the timer: the worker goes on while the task runs.
TaskTimesOut(w) == TimesOut /\ Records(w, Rejection) /\ UNCHANGED outcome

\* A task that timed out ends later; nobody looks at its value.
LateEnd(i) ==
    /\ outcome[i] = "runs" /\ results[i] = Rejection
    /\ outcome' = [outcome EXCEPT ![i] = "late"]
    /\ UNCHANGED <<nextIndex, taken, results, begun>>

\* Promise.all of the workers has settled.
Returned == nextIndex > NumTasks /\ \A w \in Workers : taken[w] = 0

BatchInit ==
    /\ nextIndex = 1 /\ taken = [w \in Workers |-> 0]
    /\ results = [i \in 1..NumTasks |-> Empty]
    /\ begun = [i \in 1..NumTasks |-> 0] /\ outcome = [i \in 1..NumTasks |-> "runs"]

BatchNext ==
    \/ \E w \in Workers : TakeTask(w) \/ Fulfilled(w) \/ Rejected(w) \/ TaskTimesOut(w)
    \/ \E i \in 1..NumTasks : LateEnd(i)
-----------------------------------------------------------------------------
(* However the workers overlap, each task is started once, and what the     *)
(* caller gets at an index is the value of that task if it was fulfilled in *)
(* time, a rejection otherwise (batch-request.ts:40-56, 82-101).            *)
BatchComplete ==
    /\ \A i \in 1..NumTasks : begun[i] = (IF i < nextIndex THEN 1 ELSE 0)
    /\ Returned => \A i \in 1..NumTasks :
          results[i] = IF outcome[i] = "fulfilled" THEN Value(i) ELSE Rejection
=============================================================================
