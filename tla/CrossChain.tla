----------------------------- MODULE CrossChain -----------------------------
(* SquidModule (modules/squid.ts): a bridge leg through Squid's HTTP API and   *)
(* a swap leg on Stellar.  External, as the code uses them: a POST may reach   *)
(* Squid late, or never, whatever its caller is told, and every POST that      *)
(* reaches it starts a transfer; a submitted transaction may be applied, fail  *)
(* or vanish, whatever submitTransaction reports.                              *)
EXTENDS Integers, FiniteSets

CONSTANTS
    RouteIds,         \* quotes, one per route id
    Received,       \* toAmount of Squid's quotes
    SwapFees,       \* swapFee of Squid's quotes
    NativeFeeBps,   \* NATIVE_SWAP_FEE_ESTIMATE_BPS
    SlippageBps, TenThousand,
    OwnFunds,       \* what the wallet holds of the bridged asset
    Deadline,       \* ledgers getDeadline() gives
    LastHeight      \* bound on the ledgers

ASSUME CrossChainAssumption ==
    /\ Received \subseteq Nat \ {0} /\ SwapFees \subseteq Nat
    /\ NativeFeeBps \in Nat /\ Deadline \in Nat
    /\ TenThousand \in Nat \ {0} /\ SlippageBps \in 0..TenThousand

VARIABLES
    height,         \* ledgers passed (external)
    wallet,         \* Stellar balance of the bridged asset (external)
    route,          \* the calls of getCrossChainQuote and executeCrossChainSwap
    posts,          \* posts[r][n]: the n-th POST of a route (external)
    swapTx          \* swapTx[r][n]: the n-th transaction of its swap leg (external)

crossVars == <<height, wallet, route, posts, swapTx>>

Unsent == [n \in 1..2 |-> "unsent"]
NoQuote == [native |-> FALSE, bridgedAmount |-> 0, amountOutMin |-> 0, deadline |-> 0]
Accepted(r) == {n \in 1..2 : posts[r][n] \in {"transferring", "arrived", "refused"}}
Applied(r) == {n \in 1..2 : swapTx[r][n] = "applied"}

\* A bridge-free quote estimates the pool fee; Squid's quote carries it.
Quote(native, amount, swapFee) ==
    LET out == amount - (IF native THEN (amount * NativeFeeBps) \div TenThousand ELSE swapFee) IN
    [native |-> native, bridgedAmount |-> amount,
     amountOutMin |-> out - (out * SlippageBps) \div TenThousand,
     deadline |-> height + Deadline]

GetCrossChainQuote(r, native, amount, swapFee) ==
    /\ route[r].pc = "none"
    /\ route' = [route EXCEPT ![r].pc = "quoted", ![r].quote = Quote(native, amount, swapFee)]
    /\ UNCHANGED <<height, wallet, posts, swapTx>>

\* buildSwapOperation refuses a bound that is not positive, after the bridge leg.
BoundPositive(r) == route[r].quote.amountOutMin > 0

SwapLeg(r) ==
    route' = [route EXCEPT ![r].pc = IF BoundPositive(r) THEN "swap" ELSE "failed"]

ExecuteCrossChainSwap(r) ==
    /\ route[r].pc = "quoted"
    /\ IF route[r].quote.native THEN SwapLeg(r) /\ UNCHANGED posts
       ELSE /\ route' = [route EXCEPT ![r].pc = "posting", ![r].post = 1]
            /\ posts' = [posts EXCEPT ![r][1] = "flying"]
    /\ UNCHANGED <<height, wallet, swapTx>>
-----------------------------------------------------------------------------
(* Squid *)

PostReaches(r, n) ==
    /\ posts[r][n] = "flying"
    /\ \E s \in {"transferring", "refused", "lost"} : posts' = [posts EXCEPT ![r][n] = s]
    /\ UNCHANGED <<height, wallet, route, swapTx>>

\* The bridge delivers what it quoted, or a little less (toAmountMin).
TransferArrives(r, n, short) ==
    /\ posts[r][n] = "transferring"
    /\ posts' = [posts EXCEPT ![r][n] = "arrived"]
    /\ wallet' = wallet + route[r].quote.bridgedAmount - short
    /\ UNCHANGED <<height, route, swapTx>>

\* The status of a route: the state of its transfers; a transfer the source
\* chain refused is "failed".
RouteStatus(r) ==
    IF \E n \in 1..2 : posts[r][n] \in {"transferring", "arrived"} THEN "landed"
    ELSE IF \E n \in 1..2 : posts[r][n] = "refused" THEN "failed"
    ELSE "not_found"
-----------------------------------------------------------------------------
(* The bridge leg *)

PostAnswered(r) ==
    /\ route[r].pc = "posting" /\ posts[r][route[r].post] \in {"transferring", "arrived"}
    /\ SwapLeg(r)
    /\ UNCHANGED <<height, wallet, posts, swapTx>>

\* The POST rejects, with an error isRetryable knows or another, or is answered
\* without a transaction hash.
PostFails(r, retryable) ==
    /\ route[r].pc = "posting"
    /\ route' = [route EXCEPT
          ![r].pc = IF retryable /\ route[r].post = 1 THEN "asking" ELSE "failed"]
    /\ UNCHANGED <<height, wallet, posts, swapTx>>

PostAgain(r) ==
    /\ route' = [route EXCEPT ![r].pc = "posting", ![r].post = 2,
                    ![r].late = @ \/ posts[r][1] = "flying"]
    /\ posts' = [posts EXCEPT ![r][2] = "flying"]

\* Mutant: a failed status query counts as "not_found".
ActOnStatus_UnknownIsNotFound(r, status) ==
    CASE status = "landed"    -> SwapLeg(r) /\ UNCHANGED posts
      [] status = "failed"    -> route' = [route EXCEPT ![r].pc = "failed"] /\ UNCHANGED posts
      [] OTHER                -> PostAgain(r)

\* What is made of each status; "unknown" is a query that failed.
ActOnStatus(r, status) ==
    CASE status = "landed"    -> (SwapLeg(r) \/ route' = [route EXCEPT ![r].pc = "failed"])
                                 /\ UNCHANGED posts   \* with a hash, or without
      [] status = "not_found" -> PostAgain(r)
      [] OTHER                -> route' = [route EXCEPT ![r].pc = "failed"] /\ UNCHANGED posts

StatusAnswered(r) ==
    /\ route[r].pc = "asking"
    /\ \E status \in {RouteStatus(r), "unknown"} : ActOnStatus(r, status)
    /\ UNCHANGED <<height, wallet, swapTx>>
-----------------------------------------------------------------------------
(* The swap leg *)

SubmitSwap(r) ==
    LET n == route[r].tx + 1 IN
    /\ route[r].pc \in {"swap", "resubmit"}
    /\ route' = [route EXCEPT ![r].pc = "submitted", ![r].tx = n]
    /\ swapTx' = [swapTx EXCEPT ![r][n] = "flying"]
    /\ UNCHANGED <<height, wallet, posts>>

\* The ledger takes the transaction: the router needs the funds, the deadline
\* and a pool that pays amountOutMin; or the transaction never gets there.
SwapLands(r, n, pays) ==
    LET q == route[r].quote
        fits == pays /\ wallet >= q.bridgedAmount /\ height <= q.deadline IN
    /\ swapTx[r][n] = "flying"
    /\ swapTx' = [swapTx EXCEPT ![r][n] = IF fits THEN "applied" ELSE "failed"]
    /\ wallet' = IF fits THEN wallet - q.bridgedAmount ELSE wallet
    /\ UNCHANGED <<height, route, posts>>

SwapVanishes(r, n) ==
    /\ swapTx[r][n] = "flying"
    /\ swapTx' = [swapTx EXCEPT ![r][n] = "gone"]
    /\ UNCHANGED <<height, wallet, route, posts>>

\* submitTransaction: success once applied; else an error, with the hash or not.
SwapAnswered(r) ==
    LET n == route[r].tx IN
    /\ route[r].pc = "submitted"
    /\ \/ swapTx[r][n] = "applied" /\ route' = [route EXCEPT ![r].pc = "done"]
       \/ n = 1 /\ route' = [route EXCEPT ![r].pc = "status"]
       \/ route' = [route EXCEPT ![r].pc = "failed"]
    /\ UNCHANGED <<height, wallet, posts, swapTx>>

\* getTransactionStatus and shouldRetrySubmission; a failed query is not retried.
SwapStatusAnswered(r) ==
    /\ route[r].pc = "status"
    /\ \/ /\ swapTx[r][1] = "applied"
          /\ route' = [route EXCEPT ![r].pc = "done"]
       \/ route' = [route EXCEPT ![r].pc = "failed"]
       \/ /\ swapTx[r][1] \in {"flying", "gone"}
          /\ route' = [route EXCEPT ![r].pc = "resubmit", ![r].lateTx = swapTx[r][1] = "flying"]
    /\ UNCHANGED <<height, wallet, posts, swapTx>>
-----------------------------------------------------------------------------
NextLedger ==
    /\ height < LastHeight /\ height' = height + 1
    /\ UNCHANGED <<wallet, route, posts, swapTx>>

CrossInit ==
    /\ height = 0 /\ wallet = OwnFunds
    /\ route = [r \in RouteIds |-> [pc |-> "none", quote |-> NoQuote, post |-> 0, tx |-> 0,
                                  late |-> FALSE, lateTx |-> FALSE]]
    /\ posts = [r \in RouteIds |-> Unsent] /\ swapTx = [r \in RouteIds |-> Unsent]

CrossNext ==
    \/ NextLedger
    \/ \E r \in RouteIds :
        \/ \E native \in BOOLEAN, amount \in Received, fee \in SwapFees :
              GetCrossChainQuote(r, native, amount, fee)
        \/ ExecuteCrossChainSwap(r) \/ PostAnswered(r) \/ StatusAnswered(r)
        \/ SubmitSwap(r) \/ SwapAnswered(r) \/ SwapStatusAnswered(r)
        \/ \E retryable \in BOOLEAN : PostFails(r, retryable)
        \/ \E n \in 1..2 : PostReaches(r, n) \/ SwapVanishes(r, n)
        \/ \E n \in 1..2, short \in 0..1 : TransferArrives(r, n, short)
        \/ \E n \in 1..2, pays \in BOOLEAN : SwapLands(r, n, pays)
-----------------------------------------------------------------------------
(* Each leg moves money once: a second transfer, or a second swap, happens   *)
(* only if the first request was still on its way when its status said       *)
(* "not found"; no swap leg is submitted for a transfer Squid does not have; *)
(* and a call that returns has had both of its legs (squid.ts:155-480).      *)
LegsMadeOnce ==
    \A r \in RouteIds :
        LET transfers == {n \in Accepted(r) : posts[r][n] # "refused"} IN
        /\ Cardinality(transfers) > 1 => route[r].late
        /\ Cardinality(Applied(r)) > 1 => route[r].lateTx
        /\ swapTx[r] # Unsent => route[r].quote.native \/ transfers # {}
        /\ route[r].pc = "done" => Applied(r) # {}
=============================================================================
