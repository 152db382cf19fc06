---------------------------- MODULE MarketProofs ----------------------------
(***************************************************************************)
(* Acting on a moving market, for any number of overlapping calls: the     *)
(* legs of a cross-chain swap, what orders, staking and governance report  *)
(* as done, the alerts, the oracle's window, what monitoring measures, the *)
(* pools with the quotes and loans made on them, and the oracle's prices.  *)
(***************************************************************************)
EXTENDS MCMarket, FiniteSetTheorems, WellFoundedInduction, TLAPS

-----------------------------------------------------------------------------
(* Cross-chain swaps. *)

PostStates == {"unsent", "flying", "transferring", "arrived", "refused", "lost"}
TxStates == {"unsent", "flying", "applied", "failed", "gone"}

RouteRecs ==
    [pc : {"none", "quoted", "posting", "asking", "swap", "submitted", "status", "resubmit",
           "done", "failed"},
     quote : [native : BOOLEAN, bridgedAmount : Int, amountOutMin : Int, deadline : Int],
     post : 0..2, tx : 0..2, late : BOOLEAN, lateTx : BOOLEAN]

(* A second POST goes out only when the first is lost, or was seen on its   *)
(* way; a second transaction only when the first is gone, or was seen so.   *)
SecondIsNoted(q, ps, tx) ==
    /\ ps[2] # "unsent" => q.late \/ ps[1] = "lost"
    /\ tx[2] # "unsent" \/ q.pc = "resubmit" => q.lateTx \/ tx[1] = "gone"

(* Where a call is tells which of its requests have left. *)
RequestsSent(q, ps, tx) ==
    /\ q.pc \in {"none", "quoted"} => ps[1] = "unsent"
    /\ q.pc = "posting" => q.post > 0
    /\ q.pc = "asking" => q.post = 1
    /\ q.post = 0 <=> ps[1] = "unsent"
    /\ q.post < 2 => ps[2] = "unsent"
    /\ q.pc \in {"none", "quoted", "posting", "asking", "swap"} => q.tx = 0
    /\ q.pc = "submitted" => q.tx > 0
    /\ q.pc \in {"status", "resubmit"} => q.tx = 1
    /\ q.tx = 0 => tx[1] = "unsent"
    /\ q.tx < 2 => tx[2] = "unsent"

(* The swap leg begins when there is something to swap, and ends a call that *)
(* returns.                                                                  *)
LegsInOrder(q, ps, tx) ==
    /\ q.pc \in {"swap", "submitted", "status", "resubmit", "done"} \/ q.tx > 0 =>
          q.quote.native \/ \E n \in 1..2 : ps[n] \in {"transferring", "arrived"}
    /\ q.pc = "done" => \E n \in 1..2 : tx[n] = "applied"

RouteOK(q, ps, tx) ==
    /\ q \in RouteRecs /\ ps \in [1..2 -> PostStates] /\ tx \in [1..2 -> TxStates]
    /\ RequestsSent(q, ps, tx) /\ SecondIsNoted(q, ps, tx) /\ LegsInOrder(q, ps, tx)

CrossInv ==
    /\ height \in Nat
    /\ route \in [RouteIds -> RouteRecs]
    /\ posts \in [RouteIds -> [1..2 -> PostStates]]
    /\ swapTx \in [RouteIds -> [1..2 -> TxStates]]
    /\ \A r \in RouteIds : RouteOK(route[r], posts[r], swapTx[r])

LEMMA CrossInitInv == CrossInit => CrossInv
<1> SUFFICES ASSUME CrossInit PROVE CrossInv
  OBVIOUS
<1>1. Unsent \in [1..2 -> PostStates] /\ Unsent \in [1..2 -> TxStates]
      /\ Unsent[1] = "unsent" /\ Unsent[2] = "unsent"
  BY DEF Unsent, PostStates, TxStates
<1> DEFINE q == [pc |-> "none", quote |-> NoQuote, post |-> 0, tx |-> 0,
                 late |-> FALSE, lateTx |-> FALSE]
<1>2. q \in RouteRecs /\ q.pc = "none" /\ q.post = 0 /\ q.tx = 0
  BY DEF RouteRecs, NoQuote
<1>3. route = [r \in RouteIds |-> q] /\ posts = [r \in RouteIds |-> Unsent]
      /\ swapTx = [r \in RouteIds |-> Unsent] /\ height = 0
  BY DEF CrossInit
<1> HIDE DEF q
<1>4. RouteOK(q, Unsent, Unsent)
  BY <1>1, <1>2 DEF RouteOK, RequestsSent, SecondIsNoted, LegsInOrder
<1> QED
  BY <1>1, <1>2, <1>3, <1>4 DEF CrossInv

(* A step of one route leaves the others alone. *)
LEMMA OneRoute ==
    ASSUME CrossInv, NEW r \in RouteIds, NEW q, NEW ps, NEW tx,
           height' = height,
           route' = [route EXCEPT ![r] = q], posts' = [posts EXCEPT ![r] = ps],
           swapTx' = [swapTx EXCEPT ![r] = tx], RouteOK(q, ps, tx)
    PROVE  CrossInv'
<1>1. q \in RouteRecs /\ ps \in [1..2 -> PostStates] /\ tx \in [1..2 -> TxStates]
  BY DEF RouteOK
<1>2. \A s \in RouteIds : RouteOK(route'[s], posts'[s], swapTx'[s])
  BY DEF CrossInv
<1> QED
  BY <1>1, <1>2 DEF CrossInv

(* A call that goes on without a request. *)
LEMMA RouteGoes ==
    ASSUME CrossInv, NEW r \in RouteIds, NEW pc,
           height' = height, route' = [route EXCEPT ![r].pc = pc], posts' = posts, swapTx' = swapTx,
           \/ pc = "failed"
           \/ /\ pc = "asking" /\ route[r].pc = "posting" /\ route[r].post = 1
           \/ /\ pc = "swap" /\ route[r].pc \in {"quoted", "posting", "asking"}
              /\ route[r].quote.native \/ \E n \in 1..2 : posts[r][n] \in {"transferring", "arrived"}
           \/ /\ pc \in {"status", "done"} /\ route[r].pc \in {"submitted", "status"}
              /\ pc = "status" => route[r].tx = 1
              /\ pc = "done" => \E n \in 1..2 : swapTx[r][n] = "applied"
    PROVE  CrossInv'
<1> DEFINE q == [route[r] EXCEPT !.pc = pc]
<1>1. RouteOK(route[r], posts[r], swapTx[r]) /\ route[r] \in RouteRecs
  BY DEF CrossInv
<1>2. q \in RouteRecs /\ q.pc = pc /\ q.post = route[r].post /\ q.tx = route[r].tx
      /\ q.late = route[r].late /\ q.lateTx = route[r].lateTx /\ q.quote = route[r].quote
  BY <1>1 DEF RouteRecs
<1>3. route' = [route EXCEPT ![r] = q] /\ posts' = [posts EXCEPT ![r] = posts[r]]
      /\ swapTx' = [swapTx EXCEPT ![r] = swapTx[r]]
  BY DEF CrossInv
<1> HIDE DEF q
<1>4. RequestsSent(q, posts[r], swapTx[r])
  BY <1>1, <1>2 DEF RouteOK, RequestsSent, RouteRecs
<1>5. SecondIsNoted(q, posts[r], swapTx[r])
  BY <1>1, <1>2 DEF RouteOK, SecondIsNoted
<1>6. LegsInOrder(q, posts[r], swapTx[r])
  BY <1>1, <1>2 DEF RouteOK, LegsInOrder
<1>7. RouteOK(q, posts[r], swapTx[r])
  BY <1>1, <1>2, <1>4, <1>5, <1>6 DEF RouteOK
<1> QED
  BY <1>3, <1>7, OneRoute

(* Squid and the ledger: a request that was on its way has got somewhere. *)
LEMMA RequestArrives ==
    ASSUME CrossInv, NEW r \in RouteIds, NEW n \in 1..2, height' = height, route' = route,
           \/ /\ posts[r][n] = "flying" /\ swapTx' = swapTx
              /\ \E s \in {"transferring", "refused", "lost"} : posts' = [posts EXCEPT ![r][n] = s]
           \/ /\ posts[r][n] = "transferring" /\ swapTx' = swapTx
              /\ posts' = [posts EXCEPT ![r][n] = "arrived"]
           \/ /\ swapTx[r][n] = "flying" /\ posts' = posts
              /\ \E s \in {"applied", "failed", "gone"} : swapTx' = [swapTx EXCEPT ![r][n] = s]
    PROVE  CrossInv'
<1>1. RouteOK(route[r], posts[r], swapTx[r]) /\ route' = [route EXCEPT ![r] = route[r]]
  BY DEF CrossInv
<1>2. ASSUME NEW ps \in [1..2 -> PostStates], swapTx' = swapTx,
             posts' = [posts EXCEPT ![r] = ps], \A m \in 1..2 : m # n => ps[m] = posts[r][m],
             \/ posts[r][n] = "flying" /\ ps[n] # "unsent"
             \/ posts[r][n] = "transferring" /\ ps[n] = "arrived"
      PROVE  CrossInv'
  <2>1. swapTx' = [swapTx EXCEPT ![r] = swapTx[r]]
    BY <1>2 DEF CrossInv
  <2>3. RequestsSent(route[r], ps, swapTx[r])
    BY <1>1, <1>2 DEF RouteOK, RequestsSent
  <2>4. SecondIsNoted(route[r], ps, swapTx[r])
    BY <1>1, <1>2 DEF RouteOK, SecondIsNoted
  <2>5. LegsInOrder(route[r], ps, swapTx[r])
    BY <1>1, <1>2 DEF RouteOK, LegsInOrder
  <2>6. RouteOK(route[r], ps, swapTx[r])
    BY <1>1, <1>2, <2>3, <2>4, <2>5 DEF RouteOK
  <2> QED
    BY <1>1, <1>2, <2>1, <2>6, OneRoute
<1>3. ASSUME NEW s \in {"applied", "failed", "gone"}, swapTx[r][n] = "flying",
             swapTx' = [swapTx EXCEPT ![r][n] = s], posts' = posts
      PROVE  CrossInv'
  <2> DEFINE tx == [swapTx[r] EXCEPT ![n] = s]
  <2>1. swapTx' = [swapTx EXCEPT ![r] = tx] /\ posts' = [posts EXCEPT ![r] = posts[r]]
    BY <1>3 DEF CrossInv
  <2>2. tx \in [1..2 -> TxStates] /\ \A m \in 1..2 : tx[m] = IF m = n THEN s ELSE swapTx[r][m]
    BY <1>1 DEF RouteOK, TxStates
  <2> HIDE DEF tx
  <2>3. RequestsSent(route[r], posts[r], tx)
    BY <1>1, <1>3, <2>2 DEF RouteOK, RequestsSent
  <2>4. SecondIsNoted(route[r], posts[r], tx)
    BY <1>1, <1>3, <2>2 DEF RouteOK, SecondIsNoted
  <2>5. LegsInOrder(route[r], posts[r], tx)
    BY <1>1, <1>3, <2>2 DEF RouteOK, LegsInOrder
  <2>6. RouteOK(route[r], posts[r], tx)
    BY <1>1, <2>2, <2>3, <2>4, <2>5 DEF RouteOK
  <2> QED
    BY <1>1, <2>1, <2>6, OneRoute
<1>4. ASSUME NEW s \in {"transferring", "refused", "lost", "arrived"}, swapTx' = swapTx,
             posts' = [posts EXCEPT ![r][n] = s],
             \/ posts[r][n] = "flying"
             \/ posts[r][n] = "transferring" /\ s = "arrived"
      PROVE  CrossInv'
  <2> DEFINE ps == [posts[r] EXCEPT ![n] = s]
  <2>1. posts' = [posts EXCEPT ![r] = ps]
    BY <1>4
  <2>2. /\ ps \in [1..2 -> PostStates] /\ ps[n] = s
        /\ \A m \in 1..2 : m # n => ps[m] = posts[r][m]
    BY <1>1 DEF RouteOK, PostStates
  <2> HIDE DEF ps
  <2> QED
    BY <1>2, <1>4, <2>1, <2>2
<1>5. CASE /\ posts[r][n] = "flying" /\ swapTx' = swapTx
           /\ \E s \in {"transferring", "refused", "lost"} : posts' = [posts EXCEPT ![r][n] = s]
  BY <1>4, <1>5
<1>7. CASE /\ posts[r][n] = "transferring" /\ swapTx' = swapTx
           /\ posts' = [posts EXCEPT ![r][n] = "arrived"]
  BY <1>4, <1>7
<1>6. CASE /\ swapTx[r][n] = "flying" /\ posts' = posts
           /\ \E s \in {"applied", "failed", "gone"} : swapTx' = [swapTx EXCEPT ![r][n] = s]
  BY <1>3, <1>6
<1> QED
  BY <1>5, <1>6, <1>7

(* The n-th POST leaves. *)
LEMMA PostLeaves ==
    ASSUME CrossInv, NEW r \in RouteIds, NEW n \in 1..2, NEW late \in BOOLEAN,
           height' = height, swapTx' = swapTx,
           route' = [route EXCEPT ![r] = [route[r] EXCEPT !.pc = "posting", !.post = n,
                                                          !.late = late]],
           posts' = [posts EXCEPT ![r][n] = "flying"],
           n = 1 => route[r].pc = "quoted",
           n = 2 => route[r].pc = "asking" /\ (late \/ posts[r][1] = "lost")
    PROVE  CrossInv'
<1> DEFINE q == [route[r] EXCEPT !.pc = "posting", !.post = n, !.late = late]
           ps == [posts[r] EXCEPT ![n] = "flying"]
<1>1. RouteOK(route[r], posts[r], swapTx[r]) /\ route[r] \in RouteRecs
  BY DEF CrossInv
<1>2. q \in RouteRecs /\ q.pc = "posting" /\ q.post = n /\ q.tx = route[r].tx /\ q.late = late
      /\ q.lateTx = route[r].lateTx /\ q.quote = route[r].quote
  <2>1. q.pc = "posting" /\ q.post = n /\ q.tx = route[r].tx /\ q.quote = route[r].quote
    BY <1>1 DEF RouteRecs
  <2>2. q.late = late
    BY <1>1 DEF RouteRecs
  <2>3. q.lateTx = route[r].lateTx
    BY <1>1 DEF RouteRecs
  <2>4. q \in RouteRecs
    <3>1. n \in 0..2
      OBVIOUS
    <3> QED
      BY <1>1, <3>1, Zenon DEF RouteRecs
  <2> QED
    BY <2>1, <2>2, <2>3, <2>4
<1>3. route' = [route EXCEPT ![r] = q] /\ posts' = [posts EXCEPT ![r] = ps]
      /\ swapTx' = [swapTx EXCEPT ![r] = swapTx[r]]
  BY DEF CrossInv
<1>4. ps \in [1..2 -> PostStates] /\ \A m \in 1..2 : ps[m] = IF m = n THEN "flying" ELSE posts[r][m]
  BY <1>1 DEF RouteOK, PostStates
<1> HIDE DEF q, ps
<1>5. RequestsSent(q, ps, swapTx[r])
  BY <1>1, <1>2, <1>4 DEF RouteOK, RequestsSent, RouteRecs
<1>6. SecondIsNoted(q, ps, swapTx[r])
  BY <1>1, <1>2, <1>4 DEF RouteOK, SecondIsNoted, RequestsSent
<1>7. LegsInOrder(q, ps, swapTx[r])
  BY <1>1, <1>2, <1>4 DEF RouteOK, LegsInOrder, RequestsSent
<1>8. RouteOK(q, ps, swapTx[r])
  BY <1>1, <1>2, <1>4, <1>5, <1>6, <1>7 DEF RouteOK
<1> QED
  BY <1>3, <1>8, OneRoute

(* The swap leg begins, or its bound is refused. *)
LEMMA SwapLegInv ==
    ASSUME CrossInv, NEW r \in RouteIds, SwapLeg(r),
           height' = height, posts' = posts, swapTx' = swapTx,
           route[r].pc \in {"quoted", "posting", "asking"},
           route[r].quote.native \/ \E n \in 1..2 : posts[r][n] \in {"transferring", "arrived"}
    PROVE  CrossInv'
<1>1. CASE BoundPositive(r)
  <2>1. route' = [route EXCEPT ![r].pc = "swap"]
    BY <1>1 DEF SwapLeg
  <2> QED
    BY <2>1, RouteGoes
<1>2. CASE ~BoundPositive(r)
  <2>1. route' = [route EXCEPT ![r].pc = "failed"]
    BY <1>2 DEF SwapLeg
  <2> QED
    BY <2>1, RouteGoes
<1> QED
  BY <1>1, <1>2

LEMMA QuoteInv ==
    ASSUME CrossInv, NEW r \in RouteIds, NEW native \in BOOLEAN, NEW amount \in Received,
           NEW fee \in SwapFees, GetCrossChainQuote(r, native, amount, fee)
    PROVE  CrossInv'
<1> DEFINE qt == Quote(native, amount, fee)
           q == [route[r] EXCEPT !.pc = "quoted", !.quote = qt]
<1>1. RouteOK(route[r], posts[r], swapTx[r]) /\ route[r] \in RouteRecs
  BY DEF CrossInv
<1>2. qt \in [native : BOOLEAN, bridgedAmount : Int, amountOutMin : Int, deadline : Int]
  <2> DEFINE out == amount - (IF native THEN (amount * NativeFeeBps) \div TenThousand ELSE fee)
  <2>1. amount \in Int /\ fee \in Int /\ NativeFeeBps \in Int /\ TenThousand \in Nat \ {0}
        /\ SlippageBps \in Int /\ height + Deadline \in Int
    BY CrossChainAssumption DEF CrossInv
  <2>2. amount * NativeFeeBps \in Int
    BY <2>1
  <2>3. (amount * NativeFeeBps) \div TenThousand \in Int
    BY <2>1, <2>2
  <2>4. out \in Int
    BY <2>1, <2>3
  <2> HIDE DEF out
  <2>5. out * SlippageBps \in Int
    BY <2>1, <2>4
  <2>6. out - (out * SlippageBps) \div TenThousand \in Int
    BY <2>1, <2>4, <2>5
  <2> QED
    BY <2>1, <2>6 DEF Quote, out
<1> HIDE DEF qt
<1>3. q \in RouteRecs /\ q.pc = "quoted" /\ q.post = route[r].post /\ q.tx = route[r].tx
      /\ q.late = route[r].late /\ q.lateTx = route[r].lateTx
  BY <1>1, <1>2 DEF RouteRecs
<1>4. route' = [route EXCEPT ![r] = q] /\ posts' = [posts EXCEPT ![r] = posts[r]]
      /\ swapTx' = [swapTx EXCEPT ![r] = swapTx[r]] /\ height' = height /\ route[r].pc = "none"
  BY DEF CrossInv, GetCrossChainQuote, qt
<1> HIDE DEF q
<1>5. RequestsSent(q, posts[r], swapTx[r])
  BY <1>1, <1>3, <1>4 DEF RouteOK, RequestsSent
<1>6. SecondIsNoted(q, posts[r], swapTx[r]) /\ LegsInOrder(q, posts[r], swapTx[r])
  BY <1>1, <1>3, <1>4 DEF RouteOK, SecondIsNoted, LegsInOrder, RequestsSent
<1>7. RouteOK(q, posts[r], swapTx[r])
  BY <1>1, <1>3, <1>5, <1>6 DEF RouteOK
<1> QED
  BY <1>4, <1>7, OneRoute

(* The n-th transaction of the swap leg leaves. *)
LEMMA SubmitSwapInv ==
    ASSUME CrossInv, NEW r \in RouteIds, SubmitSwap(r)
    PROVE  CrossInv'
<1> DEFINE n == route[r].tx + 1
           q == [route[r] EXCEPT !.pc = "submitted", !.tx = n]
           tx == [swapTx[r] EXCEPT ![n] = "flying"]
<1>1. RouteOK(route[r], posts[r], swapTx[r]) /\ route[r] \in RouteRecs
  BY DEF CrossInv
<1>2. route[r].pc \in {"swap", "resubmit"} /\ n \in 1..2
      /\ (route[r].pc = "swap" => n = 1) /\ (route[r].pc = "resubmit" => n = 2)
  BY <1>1 DEF SubmitSwap, RouteOK, RequestsSent
<1>3. route' = [route EXCEPT ![r] = q] /\ posts' = [posts EXCEPT ![r] = posts[r]]
      /\ swapTx' = [swapTx EXCEPT ![r] = tx] /\ height' = height
  BY DEF CrossInv, SubmitSwap
<1> HIDE DEF n
<1>4. q \in RouteRecs /\ q.pc = "submitted" /\ q.post = route[r].post /\ q.tx = n
      /\ q.quote = route[r].quote
  <2>1. n \in 0..2
    BY <1>2
  <2>2. q \in RouteRecs
    BY <1>1, <2>1, Zenon DEF RouteRecs
  <2>3. q.pc = "submitted" /\ q.post = route[r].post /\ q.quote = route[r].quote
    BY <1>1 DEF RouteRecs
  <2>4. q.tx = n
    BY <1>1 DEF RouteRecs
  <2> QED
    BY <2>2, <2>3, <2>4
<1>5. q.late = route[r].late /\ q.lateTx = route[r].lateTx
  BY <1>1, <1>2 DEF RouteRecs
<1>6. tx \in [1..2 -> TxStates] /\ \A m \in 1..2 : tx[m] = IF m = n THEN "flying" ELSE swapTx[r][m]
  BY <1>1 DEF RouteOK, TxStates
<1> HIDE DEF q, tx
<1>7. RequestsSent(q, posts[r], tx)
  BY <1>1, <1>2, <1>4, <1>6 DEF RouteOK, RequestsSent, RouteRecs
<1>8. SecondIsNoted(q, posts[r], tx)
  BY <1>1, <1>2, <1>4, <1>5, <1>6 DEF RouteOK, SecondIsNoted, RequestsSent
<1>9. LegsInOrder(q, posts[r], tx)
  BY <1>1, <1>2, <1>4, <1>6 DEF RouteOK, LegsInOrder
<1>10. RouteOK(q, posts[r], tx)
  BY <1>1, <1>4, <1>6, <1>7, <1>8, <1>9 DEF RouteOK
<1> QED
  BY <1>3, <1>10, OneRoute

LEMMA SwapStatusInv ==
    ASSUME CrossInv, NEW r \in RouteIds, SwapStatusAnswered(r)
    PROVE  CrossInv'
<1>1. RouteOK(route[r], posts[r], swapTx[r]) /\ route[r] \in RouteRecs /\ route[r].pc = "status"
      /\ height' = height /\ posts' = posts /\ swapTx' = swapTx
  BY DEF CrossInv, SwapStatusAnswered
<1>2. CASE swapTx[r][1] = "applied" /\ route' = [route EXCEPT ![r].pc = "done"]
  <2>1. \E n \in 1..2 : swapTx[r][n] = "applied"
    BY <1>2
  <2> QED
    BY <1>1, <1>2, <2>1, RouteGoes
<1>3. CASE route' = [route EXCEPT ![r].pc = "failed"]
  BY <1>1, <1>3, RouteGoes
<1>4. CASE /\ swapTx[r][1] \in {"flying", "gone"}
           /\ route' = [route EXCEPT ![r].pc = "resubmit", ![r].lateTx = swapTx[r][1] = "flying"]
  <2> DEFINE b == swapTx[r][1] = "flying"
             q == [route[r] EXCEPT !.pc = "resubmit", !.lateTx = b]
  <2>1. route' = [route EXCEPT ![r] = q] /\ posts' = [posts EXCEPT ![r] = posts[r]]
        /\ swapTx' = [swapTx EXCEPT ![r] = swapTx[r]]
    BY <1>1, <1>4 DEF CrossInv
  <2>2. b \in BOOLEAN /\ (~b => swapTx[r][1] = "gone")
    BY <1>4
  <2> HIDE DEF b
  <2>3. q.lateTx = b
    BY <1>1 DEF RouteRecs
  <2>4. q.late = route[r].late
    BY <1>1 DEF RouteRecs
  <2>5. q.pc = "resubmit" /\ q.post = route[r].post /\ q.tx = route[r].tx /\ q.quote = route[r].quote
    BY <1>1 DEF RouteRecs
  <2>6. q \in RouteRecs
    BY <1>1, <2>2, Zenon DEF RouteRecs
  <2> HIDE DEF q
  <2>7. RequestsSent(q, posts[r], swapTx[r])
    BY <1>1, <2>5 DEF RouteOK, RequestsSent
  <2>8. SecondIsNoted(q, posts[r], swapTx[r])
    BY <1>1, <2>2, <2>3, <2>4, <2>5 DEF RouteOK, SecondIsNoted
  <2>9. LegsInOrder(q, posts[r], swapTx[r])
    BY <1>1, <2>5 DEF RouteOK, LegsInOrder
  <2>10. RouteOK(q, posts[r], swapTx[r])
    BY <1>1, <2>6, <2>7, <2>8, <2>9 DEF RouteOK
  <2> QED
    BY <1>1, <2>1, <2>10, OneRoute
<1> QED
  BY <1>2, <1>3, <1>4 DEF SwapStatusAnswered

LEMMA StatusAnsweredInv ==
    ASSUME CrossInv, NEW r \in RouteIds, StatusAnswered(r)
    PROVE  CrossInv'
<1>1. RouteOK(route[r], posts[r], swapTx[r]) /\ route[r] \in RouteRecs /\ route[r].pc = "asking"
      /\ height' = height /\ swapTx' = swapTx
  BY DEF CrossInv, StatusAnswered
<1>2. CASE RouteStatus(r) = "landed" /\ SwapLeg(r) /\ posts' = posts
  BY <1>1, <1>2, SwapLegInv DEF RouteStatus
<1>3. CASE route' = [route EXCEPT ![r].pc = "failed"] /\ posts' = posts
  BY <1>1, <1>3, RouteGoes
<1>4. CASE RouteStatus(r) = "not_found" /\ PostAgain(r)
  <2> DEFINE late == route[r].late \/ posts[r][1] = "flying"
  <2>1. late \in BOOLEAN
    OBVIOUS
  <2>2. late \/ posts[r][1] = "lost"
    <3>1. posts[r][1] \notin {"transferring", "arrived", "refused"}
      BY <1>4 DEF RouteStatus
    <3>2. posts[r][1] # "unsent" /\ posts[r][1] \in PostStates
      BY <1>1 DEF RouteOK, RequestsSent
    <3> QED
      BY <3>1, <3>2 DEF PostStates
  <2>3. /\ route' = [route EXCEPT ![r] = [route[r] EXCEPT !.pc = "posting", !.post = 2,
                                                          !.late = late]]
        /\ posts' = [posts EXCEPT ![r][2] = "flying"]
    BY <1>4 DEF PostAgain
  <2> HIDE DEF late
  <2>4. 2 \in 1..2 /\ 2 # 1
    OBVIOUS
  <2> QED
    BY <1>1, <2>1, <2>2, <2>3, <2>4, PostLeaves
<1> QED
  BY <1>2, <1>3, <1>4 DEF StatusAnswered, ActOnStatus, RouteStatus

LEMMA CrossNextInv ==
    ASSUME CrossInv, [CrossNext]_crossVars
    PROVE  CrossInv'
<1>1. CASE NextLedger
  BY <1>1 DEF NextLedger, CrossInv
<1>2. ASSUME NEW r \in RouteIds, ExecuteCrossChainSwap(r)
      PROVE  CrossInv'
  <2>1. CASE route[r].quote.native
    BY <1>2, <2>1, SwapLegInv DEF ExecuteCrossChainSwap
  <2>2. CASE ~route[r].quote.native
    <3>1. route' = [route EXCEPT ![r] = [route[r] EXCEPT !.pc = "posting", !.post = 1,
                                                         !.late = route[r].late]]
      BY <1>2, <2>2 DEF ExecuteCrossChainSwap, CrossInv, RouteRecs
    <3>2. route[r].late \in BOOLEAN
      BY DEF CrossInv, RouteRecs
    <3>3. /\ posts' = [posts EXCEPT ![r][1] = "flying"] /\ route[r].pc = "quoted"
          /\ height' = height /\ swapTx' = swapTx
      BY <1>2, <2>2 DEF ExecuteCrossChainSwap
    <3>4. 1 \in 1..2 /\ 1 # 2
      OBVIOUS
    <3> QED
      BY <3>1, <3>2, <3>3, <3>4, PostLeaves
  <2> QED
    BY <2>1, <2>2
<1>3. ASSUME NEW r \in RouteIds, PostAnswered(r)
      PROVE  CrossInv'
  <2>1. route[r].post \in 1..2
    BY <1>3 DEF PostAnswered, CrossInv, RouteOK, RequestsSent, RouteRecs
  <2> QED
    BY <1>3, <2>1, SwapLegInv DEF PostAnswered
<1>4. ASSUME NEW r \in RouteIds, NEW retryable \in BOOLEAN, PostFails(r, retryable)
      PROVE  CrossInv'
  <2>1. CASE retryable /\ route[r].post = 1
    BY <1>4, <2>1, RouteGoes DEF PostFails
  <2>2. CASE ~(retryable /\ route[r].post = 1)
    BY <1>4, <2>2, RouteGoes DEF PostFails
  <2> QED
    BY <2>1, <2>2
<1>5. ASSUME NEW r \in RouteIds, SwapAnswered(r)
      PROVE  CrossInv'
  <2>1. route[r].tx \in 1..2
    BY <1>5 DEF SwapAnswered, CrossInv, RouteOK, RequestsSent, RouteRecs
  <2> QED
    BY <1>5, <2>1, RouteGoes DEF SwapAnswered
<1>6. ASSUME NEW r \in RouteIds, NEW n \in 1..2, PostReaches(r, n) \/ SwapVanishes(r, n)
      PROVE  CrossInv'
  BY <1>6, RequestArrives DEF PostReaches, SwapVanishes
<1>7. ASSUME NEW r \in RouteIds, NEW n \in 1..2, NEW short, TransferArrives(r, n, short)
      PROVE  CrossInv'
  BY <1>7, RequestArrives DEF TransferArrives
<1>8. ASSUME NEW r \in RouteIds, NEW n \in 1..2, NEW pays, SwapLands(r, n, pays)
      PROVE  CrossInv'
  <2>1. \E s \in {"applied", "failed", "gone"} : swapTx' = [swapTx EXCEPT ![r][n] = s]
    BY <1>8 DEF SwapLands
  <2> QED
    BY <1>8, <2>1, RequestArrives DEF SwapLands
<1>9. CASE UNCHANGED crossVars
  BY <1>9 DEF crossVars, CrossInv
<1> QED
  BY <1>1, <1>2, <1>3, <1>4, <1>5, <1>6, <1>7, <1>8, <1>9, QuoteInv, SubmitSwapInv,
     SwapStatusInv, StatusAnsweredInv DEF CrossNext

LEMMA BothOfTwo ==
    ASSUME NEW S \in SUBSET (1..2), Cardinality(S) > 1
    PROVE  1 \in S /\ 2 \in S
<1>1. ASSUME NEW n \in 1..2, n \notin S
      PROVE  FALSE
  <2>1. S \subseteq {3 - n}
    BY <1>1
  <2>2. IsFiniteSet({3 - n}) /\ Cardinality({3 - n}) = 1
    BY FS_Singleton
  <2>3. Cardinality(S) <= 1 /\ Cardinality(S) \in Nat
    BY <2>1, <2>2, FS_Subset, FS_CardinalityType, ZenonT(60)
  <2> QED
    BY <2>3
<1> QED
  BY <1>1

(* Each leg of a cross-chain swap moves money once: a second transfer, or a   *)
(* second swap, happens only if the first request was still on its way when   *)
(* its status said "not found"; no swap leg is submitted for a transfer Squid *)
(* does not have; and a call that returns has had both of its legs.           *)
THEOREM LegsAreMadeOnce == MarketSpec => []LegsMadeOnce
<1>1. MarketInit => CrossInv
  BY CrossInitInv DEF MarketInit
<1>2. CrossInv /\ [MarketNext]_marketVars => CrossInv'
  <2>1. [MarketNext]_marketVars => [CrossNext]_crossVars
    BY DEF MarketNext, marketVars
  <2> QED
    BY <2>1, CrossNextInv
<1>3. CrossInv => LegsMadeOnce
  <2> SUFFICES ASSUME CrossInv, NEW r \in RouteIds
               PROVE  LET transfers == {n \in Accepted(r) : posts[r][n] # "refused"} IN
                      /\ Cardinality(transfers) > 1 => route[r].late
                      /\ Cardinality(Applied(r)) > 1 => route[r].lateTx
                      /\ swapTx[r] # Unsent => route[r].quote.native \/ transfers # {}
                      /\ route[r].pc = "done" => Applied(r) # {}
    BY DEF LegsMadeOnce
  <2> DEFINE transfers == {n \in Accepted(r) : posts[r][n] # "refused"}
  <2>1. RouteOK(route[r], posts[r], swapTx[r])
    BY DEF CrossInv
  <2>2. transfers = {n \in 1..2 : posts[r][n] \in {"transferring", "arrived"}}
    BY DEF Accepted
  <2>3. ASSUME Cardinality(transfers) > 1 PROVE route[r].late
    <3>1. transfers \in SUBSET (1..2)
      BY <2>2
    <3> HIDE DEF transfers
    <3>2. 1 \in transfers /\ 2 \in transfers
      BY <2>3, <3>1, BothOfTwo
    <3> QED
      BY <2>1, <2>2, <3>2 DEF RouteOK, SecondIsNoted
  <2>4. ASSUME Cardinality(Applied(r)) > 1 PROVE route[r].lateTx
    <3>1. Applied(r) \in SUBSET (1..2)
      BY DEF Applied
    <3>2. 1 \in Applied(r) /\ 2 \in Applied(r)
      BY <2>4, <3>1, BothOfTwo
    <3> QED
      BY <2>1, <3>2 DEF RouteOK, SecondIsNoted, Applied
  <2>5. ASSUME swapTx[r] # Unsent PROVE route[r].quote.native \/ transfers # {}
    <3>1. swapTx[r][1] # "unsent" \/ swapTx[r][2] # "unsent"
      <4>1. swapTx[r] = [n \in 1..2 |-> swapTx[r][n]]
        BY <2>1 DEF RouteOK
      <4>2. ASSUME swapTx[r][1] = "unsent", swapTx[r][2] = "unsent" PROVE swapTx[r] = Unsent
        BY <4>1, <4>2 DEF Unsent
      <4> QED
        BY <2>5, <4>2
    <3>2. route[r].tx > 0
      BY <2>1, <3>1 DEF RouteOK, RequestsSent, RouteRecs
    <3> QED
      BY <2>1, <2>2, <3>2 DEF RouteOK, LegsInOrder
  <2>6. route[r].pc = "done" => Applied(r) # {}
    BY <2>1 DEF RouteOK, LegsInOrder, Applied
  <2> QED
    BY <2>3, <2>4, <2>5, <2>6
<1> QED
  BY <1>1, <1>2, <1>3, PTL DEF MarketSpec
-----------------------------------------------------------------------------
(* Orders. *)

CallRecs ==
    [pc : {"idle", "status", "simulate", "submit", "landed", "cancelDCA", "createStop",
           "created", "ok", "threw"},
     id : OrderIds \cup {0}, next : OrderIds \cup {0},
     refunded : Int, filled : Int, attempt : Nat, trigger : OraclePrices \cup {0}]

OrderRecs ==
    [kind : {"none", "limit", "dca", "stop"},
     state : {"none", "open", "partial", "filled", "expired", "cancelled"},
     filled : Nat, trigger : OraclePrices \cup {0}]

(* A record of the contract: what is not filled yet of a cancelled order has *)
(* been paid back.                                                           *)
RecordOK(o, back) ==
    /\ o.state = "none" <=> o = NoOrder
    /\ o.state \in Live => o.filled < Amount
    /\ o.state = "cancelled" => back = Amount - o.filled

(* What a call has read stays a bound on what the ledger will do: nothing is *)
(* filled less, and the identifier simulated for a replacement is used by no *)
(* other transaction, so that it exists only once the cancellation applied.  *)
CallOK(k, ord) ==
    /\ k.id # 0 /\ k.pc \in {"submit", "landed", "cancelDCA", "ok"} =>
          k.refunded >= Amount - ord[k.id].filled /\ k.filled <= ord[k.id].filled
    /\ k.id # 0 /\ k.next # 0 /\ ord[k.next].state # "none" /\ k.pc \in {"submit", "landed"} =>
          ord[k.id].state = "cancelled"
    /\ k.id # 0 /\ k.pc = "ok" =>
          ord[k.id].state = "cancelled" /\ (k.next # 0 => ord[k.next].state # "none")
    /\ k.pc \in {"status", "simulate", "cancelDCA"} => k.id # 0
    /\ k.pc = "cancelDCA" => k.next = 0

OrdersTypes ==
    /\ order \in [OrderIds -> OrderRecs]
    /\ call \in [Calls -> CallRecs]
    /\ refund \in [OrderIds -> Int]

OrdersInv ==
    /\ OrdersTypes
    /\ \A i \in OrderIds : RecordOK(order[i], refund[i])
    /\ \A c \in Calls : CallOK(call[c], order)
    /\ \A c \in Calls, d \in Calls : c # d /\ call[c].next # 0 => call[c].next # call[d].next

LEMMA OrdersInitInv == OrdersInit => OrdersInv
<1> SUFFICES ASSUME OrdersInit PROVE OrdersInv
  OBVIOUS
<1>1. NoOrder \in OrderRecs /\ NoOrder.state = "none" /\ RecordOK(NoOrder, 0)
  BY DEF NoOrder, OrderRecs, RecordOK, Live
<1>2. Waiting \in CallRecs /\ Waiting.pc = "idle" /\ Waiting.id = 0 /\ Waiting.next = 0
  BY DEF Waiting, CallRecs
<1>3. CallOK(Waiting, order)
  BY <1>2 DEF CallOK
<1>4. order = [i \in OrderIds |-> NoOrder] /\ call = [c \in Calls |-> Waiting]
      /\ refund = [i \in OrderIds |-> 0]
  BY DEF OrdersInit
<1>5. OrdersTypes
  BY <1>1, <1>2, <1>4 DEF OrdersTypes
<1>6. \A i \in OrderIds : RecordOK(order[i], refund[i])
  BY <1>1, <1>4
<1>7. \A c \in Calls : CallOK(call[c], order)
  BY <1>3, <1>4
<1>8. \A c \in Calls, d \in Calls : c # d /\ call[c].next # 0 => call[c].next # call[d].next
  BY <1>2, <1>4
<1> QED
  BY <1>5, <1>6, <1>7, <1>8 DEF OrdersInv

(* The contracts' records only go forward. *)
Forward(ord, new) ==
    \A i \in OrderIds :
        /\ new[i].filled >= ord[i].filled
        /\ ord[i].state = "cancelled" => new[i].state = "cancelled"
        /\ ord[i].state # "none" => new[i].state # "none"

LEMMA CallKept ==
    ASSUME NEW ord \in [OrderIds -> OrderRecs], NEW new \in [OrderIds -> OrderRecs],
           NEW k \in CallRecs, CallOK(k, ord), Forward(ord, new),
           k.next # 0 /\ ord[k.next].state = "none" => new[k.next].state = "none"
    PROVE  CallOK(k, new)
<1>1. k.id # 0 => k.id \in OrderIds /\ ord[k.id].filled \in Nat /\ new[k.id].filled \in Nat
                  /\ new[k.id].filled >= ord[k.id].filled
  BY DEF CallRecs, OrderRecs, Forward
<1>2. k.next # 0 => k.next \in OrderIds
  BY DEF CallRecs
<1>3. k.refunded \in Int /\ k.filled \in Int /\ Amount \in Nat
  BY OrdersAssumption DEF CallRecs
<1> QED
  BY <1>1, <1>2, <1>3 DEF CallOK, Forward

(* A step of the contracts, which may end a call. *)
LEMMA OrderChanges ==
    ASSUME OrdersInv, OrdersTypes', \A i \in OrderIds : RecordOK(order'[i], refund'[i]),
           Forward(order, order'),
           \A d \in Calls : call'[d].next = call[d].next,
           \A d \in Calls :
               \/ CallOK(call'[d], order')
               \/ /\ call'[d] = call[d]
                  /\ call[d].next # 0 /\ order[call[d].next].state = "none" =>
                        order'[call[d].next].state = "none"
    PROVE  OrdersInv'
<1>1. ASSUME NEW d \in Calls PROVE CallOK(call'[d], order')
  BY CallKept DEF OrdersInv, OrdersTypes
<1> QED
  BY <1>1 DEF OrdersInv

(* A step of one call. *)
LEMMA CallMoves ==
    ASSUME OrdersInv, NEW c \in Calls, NEW k \in CallRecs, order' = order, refund' = refund,
           call' = [call EXCEPT ![c] = k], CallOK(k, order),
           k.next = call[c].next \/ k.next = 0 \/ \A d \in Calls : call[d].next # k.next
    PROVE  OrdersInv'
<1>1. OrdersTypes' /\ \A d \in Calls : call'[d] = IF d = c THEN k ELSE call[d]
  BY DEF OrdersInv, OrdersTypes
<1>2. \A d \in Calls : CallOK(call'[d], order')
  BY <1>1 DEF OrdersInv
<1>3. ASSUME NEW d \in Calls, NEW e \in Calls, d # e, call'[d].next # 0
      PROVE  call'[d].next # call'[e].next
  <2>1. CASE d = c
    BY <1>1, <1>3, <2>1 DEF OrdersInv
  <2>2. CASE e = c
    BY <1>1, <1>3, <2>2 DEF OrdersInv
  <2>3. CASE d # c /\ e # c
    BY <1>1, <1>3, <2>3 DEF OrdersInv
  <2> QED
    BY <2>1, <2>2, <2>3
<1> QED
  BY <1>1, <1>2, <1>3 DEF OrdersInv

(* A call that only goes on. *)
LEMMA CallGoes ==
    ASSUME OrdersInv, NEW c \in Calls, order' = order, refund' = refund,
           NEW pc \in {"simulate", "landed", "submit", "threw", "ok"},
           NEW n \in Nat,
           call' = [call EXCEPT ![c] = [call[c] EXCEPT !.pc = pc, !.attempt = n]],
           pc = "simulate" => call[c].pc = "status",
           pc = "landed" => call[c].pc = "submit", pc = "submit" => call[c].pc = "landed",
           pc = "ok" => call[c].pc = "landed" /\ HasLanded(c)
    PROVE  OrdersInv'
<1> DEFINE k == [call[c] EXCEPT !.pc = pc, !.attempt = n]
<1>1. call[c] \in CallRecs /\ CallOK(call[c], order)
  BY DEF OrdersInv, OrdersTypes
<1>2. k \in CallRecs /\ k.pc = pc /\ k.id = call[c].id /\ k.next = call[c].next
      /\ k.refunded = call[c].refunded /\ k.filled = call[c].filled
  BY <1>1 DEF CallRecs
<1> HIDE DEF k
<1>3. CASE pc # "ok"
  <2>1. CallOK(k, order)
    BY <1>1, <1>2, <1>3 DEF CallOK
  <2> QED
    BY <1>2, <2>1, CallMoves DEF k
<1>4. CASE pc = "ok"
  <2>1. call[c].next # 0 => order[call[c].next].state # "none"
    <3>1. call[c].next # 0 => call[c].next \in OrderIds /\ order[call[c].next] # NoOrder
      BY <1>1, <1>4 DEF HasLanded, CallRecs
    <3> QED
      BY <3>1 DEF OrdersInv, RecordOK
  <2>2. call[c].next = 0 => order[call[c].id].state = "cancelled"
    BY <1>4 DEF HasLanded, OrderStatus
  <2>3. CallOK(k, order)
    BY <1>1, <1>2, <1>4, <2>1, <2>2 DEF CallOK
  <2> QED
    BY <1>2, <2>3, CallMoves DEF k
<1> QED
  BY <1>3, <1>4

(* A call from the start. *)
LEMMA CallStarts ==
    ASSUME OrdersInv, NEW c \in Calls, order' = order, refund' = refund,
           NEW k \in CallRecs, call' = [call EXCEPT ![c] = k],
           k.pc \in {"submit", "status", "cancelDCA", "createStop"},
           k.pc = "submit" => k.id = 0, k.pc = "status" => k.id # 0,
           k.pc = "cancelDCA" => /\ k.id # 0 /\ k.next = 0 /\ k.filled = 0
                                 /\ k.refunded = Amount - order[k.id].filled,
           k.next = 0 \/ \A d \in Calls : call[d].next # k.next
    PROVE  OrdersInv'
<1>1. CallOK(k, order)
  <2>1. k.id # 0 => order[k.id].filled \in Nat
    BY DEF OrdersInv, OrdersTypes, CallRecs, OrderRecs
  <2> QED
    BY <2>1, OrdersAssumption DEF CallOK
<1> QED
  BY <1>1, CallMoves

(* The contract changes one record. *)
LEMMA RecordChanges ==
    ASSUME OrdersInv, NEW i \in OrderIds, NEW o \in OrderRecs, NEW b \in Int,
           order' = [order EXCEPT ![i] = o], refund' = [refund EXCEPT ![i] = b], call' = call,
           RecordOK(o, b), order[i].state # "none", o.state # "none",
           o.filled >= order[i].filled, order[i].state # "cancelled"
    PROVE  OrdersInv'
<1>1. OrdersTypes' /\ \A j \in OrderIds : /\ order'[j] = IF j = i THEN o ELSE order[j]
                                          /\ refund'[j] = IF j = i THEN b ELSE refund[j]
  BY DEF OrdersInv, OrdersTypes
<1>2. \A j \in OrderIds : RecordOK(order'[j], refund'[j])
  BY <1>1 DEF OrdersInv
<1>3. Forward(order, order')
  <2>1. \A j \in OrderIds : order[j].filled \in Nat
    BY DEF OrdersInv, OrdersTypes, OrderRecs
  <2> QED
    BY <1>1, <2>1 DEF Forward
<1>4. \A d \in Calls : call[d].next # 0 /\ order[call[d].next].state = "none" =>
                          order'[call[d].next].state = "none"
  BY <1>1 DEF OrdersInv, OrdersTypes, CallRecs
<1> QED
  BY <1>1, <1>2, <1>3, <1>4, OrderChanges

LEMMA FillInv ==
    ASSUME OrdersInv, NEW id \in OrderIds, Fill(id) \/ Expire(id)
    PROVE  OrdersInv'
<1>1. order[id] \in OrderRecs /\ RecordOK(order[id], refund[id]) /\ order[id].state \in Live
      /\ call' = call /\ refund' = [refund EXCEPT ![id] = refund[id]] /\ refund[id] \in Int
  BY DEF OrdersInv, OrdersTypes, Fill, Expire
<1>2. ASSUME NEW o \in OrderRecs, o.filled >= order[id].filled,
             o.state \in {"filled", "partial", "expired"}, o.state = "partial" => o.filled < Amount,
             order' = [order EXCEPT ![id] = o]
      PROVE  OrdersInv'
  <2>1. RecordOK(o, refund[id])
    BY <1>2 DEF RecordOK, Live, NoOrder
  <2>2. order[id].state # "none" /\ order[id].state # "cancelled" /\ o.state # "none"
    BY <1>1, <1>2 DEF Live
  <2> QED
    BY <1>1, <1>2, <2>1, <2>2, RecordChanges
<1>3. CASE Fill(id)
  <2> DEFINE f == IF order[id].kind = "stop" THEN Amount ELSE order[id].filled + 1
             st == IF f = Amount THEN "filled" ELSE "partial"
             o == [order[id] EXCEPT !.filled = f, !.state = st]
  <2>1. order[id].filled \in Nat /\ order[id].filled < Amount /\ Amount \in Nat
    BY <1>1, OrdersAssumption DEF OrderRecs, RecordOK
  <2>2. f \in Nat /\ f >= order[id].filled /\ f <= Amount
    BY <2>1
  <2>3. order' = [order EXCEPT ![id] = o]
    BY <1>1, <1>3 DEF Fill, OrdersInv, OrdersTypes, OrderRecs
  <2> HIDE DEF f
  <2>4. st \in {"filled", "partial", "expired"} /\ (st = "partial" => f < Amount)
    BY <2>1, <2>2
  <2> HIDE DEF st
  <2>5. o \in OrderRecs /\ o.filled = f /\ o.state = st
    BY <1>1, <2>2, <2>4 DEF OrderRecs
  <2> HIDE DEF o
  <2> QED
    BY <1>2, <2>2, <2>3, <2>4, <2>5
<1>4. CASE Expire(id)
  <2> DEFINE o == [order[id] EXCEPT !.state = "expired"]
  <2>1. o \in OrderRecs /\ o.filled = order[id].filled /\ o.state = "expired" /\ o.filled \in Nat
    BY <1>1 DEF OrderRecs
  <2>2. order' = [order EXCEPT ![id] = o]
    BY <1>1, <1>4 DEF Expire, OrdersInv, OrdersTypes
  <2> HIDE DEF o
  <2>3. o.filled >= order[id].filled
    BY <2>1
  <2>4. o.state \in {"filled", "partial", "expired"} /\ o.state # "partial"
    BY <2>1
  <2> QED
    BY <1>2, <2>1, <2>2, <2>3, <2>4
<1> QED
  BY <1>3, <1>4

(* The contract takes an order under an identifier no transaction waits for. *)
LEMMA OrderCreated ==
    ASSUME OrdersInv, NEW c \in Calls, NEW id \in OrderIds, NEW o \in OrderRecs,
           order[id] = NoOrder, \A d \in Calls : call[d].next # id,
           o.state = "open", o.filled = 0, refund' = refund,
           order' = [order EXCEPT ![id] = o], call' = Ended(c, "created")
    PROVE  OrdersInv'
<1> DEFINE k == [call[c] EXCEPT !.pc = "created"]
<1>1. k \in CallRecs /\ k.pc = "created" /\ k.next = call[c].next
  BY DEF OrdersInv, OrdersTypes, CallRecs
<1>2. call' = [call EXCEPT ![c] = k]
  BY DEF Ended
<1> HIDE DEF k
<1>3. OrdersTypes' /\ \A j \in OrderIds : order'[j] = IF j = id THEN o ELSE order[j]
  BY <1>1, <1>2 DEF OrdersInv, OrdersTypes
<1>4. \A d \in Calls : call'[d] = IF d = c THEN k ELSE call[d]
  BY <1>2 DEF OrdersInv, OrdersTypes
<1>5. \A j \in OrderIds : RecordOK(order'[j], refund'[j])
  <2>1. RecordOK(o, refund[id])
    BY OrdersAssumption DEF RecordOK, NoOrder, Live
  <2> QED
    BY <1>3, <2>1 DEF OrdersInv
<1>6. Forward(order, order')
  <2>1. \A j \in OrderIds : order[j].filled \in Nat
    BY DEF OrdersInv, OrdersTypes, OrderRecs
  <2>2. order[id].filled = 0 /\ order[id].state = "none"
    BY DEF NoOrder
  <2> QED
    BY <1>3, <2>1, <2>2 DEF Forward
<1>7. CallOK(k, order')
  BY <1>1 DEF CallOK
<1>8. \A d \in Calls : call[d].next # 0 => order'[call[d].next] = order[call[d].next]
  BY <1>3 DEF OrdersInv, OrdersTypes, CallRecs
<1>9. ASSUME NEW d \in Calls
      PROVE  /\ call'[d].next = call[d].next
             /\ \/ CallOK(call'[d], order')
                \/ /\ call'[d] = call[d]
                   /\ call[d].next # 0 /\ order[call[d].next].state = "none" =>
                         order'[call[d].next].state = "none"
  BY <1>1, <1>4, <1>7, <1>8
<1> QED
  BY <1>3, <1>5, <1>6, <1>9, OrderChanges

(* An order is cancelled, and its call learns of it or not. *)
LEMMA OrderCancelled ==
    ASSUME OrdersInv, NEW c \in Calls, NEW id \in OrderIds, call[c].id = id,
           call[c].next = 0, call[c].pc \in {"submit", "cancelDCA"},
           order[id].state \in Live, NEW pc \in {"ok", "landed", "threw"},
           order' = [order EXCEPT ![id].state = "cancelled"],
           refund' = [refund EXCEPT ![id] = Amount - order[id].filled],
           call' = [call EXCEPT ![c].pc = pc]
    PROVE  OrdersInv'
<1> DEFINE k == [call[c] EXCEPT !.pc = pc]
           o == [order[id] EXCEPT !.state = "cancelled"]
<1>1. call[c] \in CallRecs /\ order[id] \in OrderRecs /\ CallOK(call[c], order)
  BY DEF OrdersInv, OrdersTypes
<1>2. k \in CallRecs /\ k.pc = pc /\ k.next = 0 /\ k.id = id
      /\ k.refunded = call[c].refunded /\ k.filled = call[c].filled
  BY <1>1 DEF CallRecs
<1>3. o \in OrderRecs /\ o.state = "cancelled" /\ o.filled = order[id].filled
  BY <1>1 DEF OrderRecs
<1>4. call' = [call EXCEPT ![c] = k] /\ order' = [order EXCEPT ![id] = o]
  BY DEF OrdersInv, OrdersTypes
<1> HIDE DEF k, o
<1>5. /\ OrdersTypes'
      /\ \A j \in OrderIds : /\ order'[j] = IF j = id THEN o ELSE order[j]
                             /\ refund'[j] = IF j = id THEN Amount - o.filled ELSE refund[j]
  <2>1. Amount - order[id].filled \in Int
    BY <1>1, OrdersAssumption DEF OrderRecs
  <2> QED
    BY <1>2, <1>3, <1>4, <2>1 DEF OrdersInv, OrdersTypes
<1>6. \A d \in Calls : call'[d] = IF d = c THEN k ELSE call[d]
  BY <1>4 DEF OrdersInv, OrdersTypes
<1>7. \A j \in OrderIds : RecordOK(order'[j], refund'[j])
  <2>1. RecordOK(o, Amount - o.filled)
    BY <1>3 DEF RecordOK, NoOrder, Live
  <2> QED
    BY <1>5, <2>1 DEF OrdersInv
<1>8. Forward(order, order')
  <2>1. \A j \in OrderIds : order[j].filled \in Nat
    BY DEF OrdersInv, OrdersTypes, OrderRecs
  <2> QED
    BY <1>3, <1>5, <2>1 DEF Forward
<1>9. CallOK(k, order')
  BY <1>1, <1>2, <1>3, <1>5 DEF CallOK
<1>10. \A d \in Calls : call[d].next # 0 /\ order[call[d].next].state = "none" =>
                           order'[call[d].next].state = "none"
  BY <1>5 DEF OrdersInv, OrdersTypes, CallRecs, Live
<1>11. ASSUME NEW d \in Calls
       PROVE  /\ call'[d].next = call[d].next
              /\ \/ CallOK(call'[d], order')
                 \/ /\ call'[d] = call[d]
                    /\ call[d].next # 0 /\ order[call[d].next].state = "none" =>
                          order'[call[d].next].state = "none"
  BY <1>2, <1>6, <1>9, <1>10
<1> QED
  BY <1>5, <1>7, <1>8, <1>11, OrderChanges

(* An order is placed, in the place of one that is cancelled or not. *)
LEMMA OrderPlaced ==
    ASSUME OrdersInv, NEW c \in Calls, NEW new \in OrderIds, call[c].next = new,
           call[c].pc = "submit", order[new] = NoOrder,
           call[c].id # 0 => order[call[c].id].state \in Live,
           NEW pc \in {"ok", "landed"}, call' = [call EXCEPT ![c].pc = pc],
           NEW ord \in [OrderIds -> OrderRecs], NEW ref \in [OrderIds -> Int],
           order' = [ord EXCEPT ![new] = [kind |-> "limit", state |-> "open", filled |-> 0,
                                          trigger |-> 0]],
           refund' = ref,
           \A j \in OrderIds :
               IF j = call[c].id
               THEN /\ ord[j].state = "cancelled" /\ ord[j].filled = order[j].filled
                    /\ ref[j] = Amount - order[j].filled
               ELSE ord[j] = order[j] /\ ref[j] = refund[j]
    PROVE  OrdersInv'
<1> DEFINE k == [call[c] EXCEPT !.pc = pc]
           o == [kind |-> "limit", state |-> "open", filled |-> 0, trigger |-> 0]
<1>1. call[c] \in CallRecs /\ CallOK(call[c], order) /\ new # 0
  BY OrdersAssumption DEF OrdersInv, OrdersTypes
<1>2. k \in CallRecs /\ k.pc = pc /\ k.next = new /\ k.id = call[c].id
      /\ k.refunded = call[c].refunded /\ k.filled = call[c].filled
  BY <1>1 DEF CallRecs
<1>3. o \in OrderRecs /\ o.state = "open" /\ o.filled = 0
  BY DEF OrderRecs
<1>4. call' = [call EXCEPT ![c] = k] /\ order' = [ord EXCEPT ![new] = o]
  BY DEF OrdersInv, OrdersTypes
<1> HIDE DEF k, o
<1>5. new # call[c].id
  <2>1. order[new].state = "none"
    BY DEF NoOrder
  <2> QED
    BY <1>1, <2>1 DEF Live
<1>6. OrdersTypes' /\ \A j \in OrderIds : order'[j] = IF j = new THEN o ELSE ord[j]
  BY <1>2, <1>3, <1>4 DEF OrdersInv, OrdersTypes
<1>7. \A d \in Calls : call'[d] = IF d = c THEN k ELSE call[d]
  BY <1>4 DEF OrdersInv, OrdersTypes
<1>8. ASSUME NEW j \in OrderIds PROVE RecordOK(order'[j], refund'[j])
  <2>1. RecordOK(o, refund[new])
    BY <1>3, OrdersAssumption DEF RecordOK, NoOrder, Live
  <2>2. CASE j = new
    BY <1>5, <1>6, <2>1, <2>2
  <2>3. CASE j = call[c].id
    <3>1. order'[j].state = "cancelled" /\ refund'[j] = Amount - order'[j].filled
      BY <1>5, <1>6, <2>3
    <3> QED
      BY <3>1 DEF RecordOK, NoOrder, Live
  <2>4. CASE j # new /\ j # call[c].id
    BY <1>6, <2>4 DEF OrdersInv
  <2> QED
    BY <2>2, <2>3, <2>4
<1>9. Forward(order, order')
  <2>1. \A j \in OrderIds : order[j].filled \in Nat /\ order'[j].filled \in Nat
    BY <1>6 DEF OrdersInv, OrdersTypes, OrderRecs
  <2>2. order[new].filled = 0 /\ order[new].state = "none"
    BY DEF NoOrder
  <2>3. ASSUME NEW j \in OrderIds
        PROVE  /\ order'[j].filled >= order[j].filled
               /\ order[j].state = "cancelled" => order'[j].state = "cancelled"
               /\ order[j].state # "none" => order'[j].state # "none"
    <3>1. CASE j = new
      BY <1>3, <1>6, <2>2, <3>1
    <3>2. CASE j = call[c].id
      <4>1. order'[j].state = "cancelled" /\ order'[j].filled = order[j].filled
        BY <1>5, <1>6, <3>2
      <4> QED
        BY <2>1, <4>1
    <3>3. CASE j # new /\ j # call[c].id
      <4>1. order'[j] = order[j]
        BY <1>6, <3>3
      <4> QED
        BY <2>1, <4>1
    <3> QED
      BY <3>1, <3>2, <3>3
  <2> QED
    BY <2>3 DEF Forward
<1>10. CallOK(k, order')
  <2>1. k.id # 0 => /\ k.id \in OrderIds /\ order'[k.id].state = "cancelled"
                    /\ order'[k.id].filled = order[k.id].filled
    BY <1>1, <1>2, <1>5, <1>6 DEF CallRecs
  <2>2. order'[k.next].state # "none"
    BY <1>2, <1>3, <1>6
  <2> QED
    BY <1>1, <1>2, <2>1, <2>2 DEF CallOK
<1>11. ASSUME NEW d \in Calls
       PROVE  /\ call'[d].next = call[d].next
              /\ \/ CallOK(call'[d], order')
                 \/ /\ call'[d] = call[d]
                    /\ call[d].next # 0 /\ order[call[d].next].state = "none" =>
                          order'[call[d].next].state = "none"
  <2>1. CASE d = c
    BY <1>2, <1>7, <1>10, <2>1
  <2>2. CASE d # c
    <3>1. call'[d] = call[d] /\ call[d].next # new
      BY <1>1, <1>7, <2>2 DEF OrdersInv
    <3>2. ASSUME call[d].next # 0, order[call[d].next].state = "none"
          PROVE  order'[call[d].next].state = "none"
      <4>1. call[d].next \in OrderIds
        BY <3>2 DEF OrdersInv, OrdersTypes, CallRecs
      <4>2. call[d].next # call[c].id
        BY <1>1, <3>2, OrdersAssumption DEF Live, CallRecs
      <4> QED
        BY <1>6, <3>1, <3>2, <4>1, <4>2
    <3> QED
      BY <3>1, <3>2
  <2> QED
    BY <2>1, <2>2
<1> QED
  BY <1>6, <1>8, <1>9, <1>11, OrderChanges

LEMMA TransactionInv ==
    ASSUME OrdersInv, NEW c \in Calls, TransactionApplies(c)
    PROVE  OrdersInv'
<1> DEFINE id == call[c].id
           new == call[c].next
<1>1. call[c] \in CallRecs /\ call[c].pc = "submit" /\ (id # 0 => order[id].state \in Live)
      /\ (id = 0 \/ id \in OrderIds) /\ (new = 0 \/ new \in OrderIds)
  BY DEF TransactionApplies, OrdersInv, OrdersTypes, CallRecs
<1>2. PICK pc \in {"ok", "landed"} : call' = [call EXCEPT ![c].pc = pc]
  BY DEF TransactionApplies, Ended, Goto
<1>3. CASE new = 0 /\ id = 0
  <2> DEFINE k == [call[c] EXCEPT !.pc = pc]
  <2>1. k \in CallRecs /\ k.pc = pc /\ k.id = 0 /\ k.next = 0
    BY <1>1, <1>3 DEF CallRecs
  <2>2. order' = order /\ refund' = refund /\ call' = [call EXCEPT ![c] = k]
    BY <1>2, <1>3 DEF TransactionApplies, OrdersInv, OrdersTypes
  <2> HIDE DEF k
  <2>3. CallOK(k, order)
    BY <2>1 DEF CallOK
  <2> QED
    BY <2>1, <2>2, <2>3, CallMoves
<1>4. CASE new = 0 /\ id # 0
  <2>1. order' = [order EXCEPT ![id].state = "cancelled"]
        /\ refund' = [refund EXCEPT ![id] = Amount - order[id].filled]
    BY <1>4 DEF TransactionApplies
  <2> QED
    BY <1>1, <1>2, <1>4, <2>1, OrderCancelled
<1>5. CASE new # 0
  <2> DEFINE ord == IF id = 0 THEN order ELSE [order EXCEPT ![id].state = "cancelled"]
             ref == IF id = 0 THEN refund ELSE [refund EXCEPT ![id] = Amount - order[id].filled]
  <2>1. order' = [ord EXCEPT ![new] = [kind |-> "limit", state |-> "open", filled |-> 0,
                                       trigger |-> 0]]
        /\ refund' = ref /\ order[new] = NoOrder
    BY <1>5 DEF TransactionApplies
  <2>2. ord \in [OrderIds -> OrderRecs]
    <3>1. id # 0 => [order[id] EXCEPT !.state = "cancelled"] \in OrderRecs
      BY <1>1 DEF OrdersInv, OrdersTypes, OrderRecs
    <3>2. id # 0 => [order EXCEPT ![id].state = "cancelled"]
                      = [order EXCEPT ![id] = [order[id] EXCEPT !.state = "cancelled"]]
      BY <1>1 DEF OrdersInv, OrdersTypes
    <3> QED
      BY <1>1, <3>1, <3>2 DEF OrdersInv, OrdersTypes
  <2>3. ref \in [OrderIds -> Int]
    <3>1. id # 0 => Amount - order[id].filled \in Int
      BY <1>1, OrdersAssumption DEF OrdersInv, OrdersTypes, OrderRecs
    <3> QED
      BY <1>1, <3>1 DEF OrdersInv, OrdersTypes
  <2>4. ASSUME NEW j \in OrderIds
        PROVE  IF j = id
               THEN /\ ord[j].state = "cancelled" /\ ord[j].filled = order[j].filled
                    /\ ref[j] = Amount - order[j].filled
               ELSE ord[j] = order[j] /\ ref[j] = refund[j]
    BY <1>1, OrdersAssumption DEF OrdersInv, OrdersTypes, OrderRecs
  <2> HIDE DEF ord, ref
  <2> QED
    BY <1>1, <1>2, <1>5, <2>1, <2>2, <2>3, <2>4, OrderPlaced, ZenonT(60)
<1> QED
  BY <1>3, <1>4, <1>5

LEMMA WaitingIs ==
    /\ Waiting \in CallRecs /\ Waiting.id = 0 /\ Waiting.next = 0 /\ Waiting.filled = 0
BY DEF Waiting, CallRecs

(* The calls that begin. *)
LEMMA BeginsInv ==
    ASSUME OrdersInv, NEW c \in Calls,
           \/ \E id \in OrderIds : BuildPlace(c, id) \/ CancelLimitOrder(c, id) \/ ScheduleRead(c, id)
           \/ \E t \in OraclePrices : BuildStopLoss(c, t)
    PROVE  OrdersInv'
<1>1. order' = order /\ refund' = refund
  BY DEF BuildPlace, CancelLimitOrder, ScheduleRead, BuildStopLoss
<1>2. CASE call' = Ended(c, "threw")
  <2>1. call[c] \in CallRecs
    BY DEF OrdersInv, OrdersTypes
  <2>2. call[c].attempt \in Nat
    BY <2>1 DEF CallRecs
  <2>3. [call[c] EXCEPT !.pc = "threw"]
          = [call[c] EXCEPT !.pc = "threw", !.attempt = call[c].attempt]
    BY <2>1 DEF CallRecs
  <2>4. call' = [call EXCEPT ![c] = [call[c] EXCEPT !.pc = "threw"]]
    BY <1>2 DEF Ended, OrdersInv, OrdersTypes
  <2> QED
    BY <1>1, <2>2, <2>3, <2>4, CallGoes
<1>3. ASSUME NEW id \in OrderIds, BuildPlace(c, id) PROVE OrdersInv'
  <2> DEFINE k == [Waiting EXCEPT !.pc = "submit", !.next = id]
  <2>1. k \in CallRecs /\ k.pc = "submit" /\ k.id = 0 /\ k.next = id
    BY WaitingIs DEF CallRecs
  <2>2. call' = [call EXCEPT ![c] = k] /\ \A d \in Calls : call[d].next # id
    BY <1>3 DEF BuildPlace
  <2> HIDE DEF k
  <2> QED
    BY <1>1, <2>1, <2>2, CallStarts
<1>4. ASSUME NEW id \in OrderIds, CancelLimitOrder(c, id) PROVE OrdersInv'
  <2> DEFINE k == [Waiting EXCEPT !.pc = "status", !.id = id]
  <2>1. k \in CallRecs /\ k.pc = "status" /\ k.next = 0 /\ k.id # 0
    BY WaitingIs, OrdersAssumption DEF CallRecs
  <2>2. call' = [call EXCEPT ![c] = k]
    BY <1>4 DEF CancelLimitOrder
  <2> HIDE DEF k
  <2> QED
    BY <1>1, <2>1, <2>2, CallStarts
<1>5. ASSUME NEW id \in OrderIds, ScheduleRead(c, id), call' # Ended(c, "threw") PROVE OrdersInv'
  <2> DEFINE left == Amount - order[id].filled
             k == [Waiting EXCEPT !.pc = "cancelDCA", !.id = id, !.refunded = left]
  <2>1. left \in Int /\ id # 0
    BY OrdersAssumption DEF OrdersInv, OrdersTypes, OrderRecs
  <2>2. call' = [call EXCEPT ![c] = k]
    BY <1>5 DEF ScheduleRead, Schedule
  <2>3. k \in CallRecs /\ k.pc = "cancelDCA" /\ k.next = 0 /\ k.id = id /\ k.filled = 0
        /\ k.refunded = left
    <3> HIDE DEF left
    <3> QED
      BY <2>1, WaitingIs DEF CallRecs
  <2> HIDE DEF k
  <2> QED
    BY <1>1, <2>1, <2>2, <2>3, CallStarts
<1>6. ASSUME NEW t \in OraclePrices, BuildStopLoss(c, t), call' # Ended(c, "threw")
      PROVE  OrdersInv'
  <2> DEFINE k == [Waiting EXCEPT !.pc = "createStop", !.trigger = t]
  <2>1. k \in CallRecs /\ k.pc = "createStop" /\ k.next = 0
    BY WaitingIs DEF CallRecs
  <2>2. call' = [call EXCEPT ![c] = k]
    BY <1>6 DEF BuildStopLoss
  <2> HIDE DEF k
  <2> QED
    BY <1>1, <2>1, <2>2, CallStarts
<1> QED
  BY <1>2, <1>3, <1>4, <1>5, <1>6

(* What simulating a cancellation leaves in the call. *)
LEMMA SimulatedInv ==
    ASSUME OrdersInv, NEW c \in Calls, NEW r \in OrderIds \cup {0}, CancelSimulated(c, r),
           order[call[c].id].state \in Live
    PROVE  OrdersInv'
<1> DEFINE id == call[c].id
           f == order[id].filled
           left == Amount - f
           k == [call[c] EXCEPT !.pc = "submit", !.next = r, !.refunded = left, !.filled = f]
<1>1. call[c] \in CallRecs /\ id \in OrderIds /\ order[id] \in OrderRecs
  BY DEF OrdersInv, OrdersTypes, CallRecs, CallOK, CancelSimulated
<1>2. f \in Nat /\ f \in Int /\ left \in Int
  BY <1>1, OrdersAssumption DEF OrderRecs
<1>3. k \in CallRecs /\ k.pc = "submit" /\ k.next = r /\ k.id = id
      /\ k.refunded = left /\ k.filled = f
  <2> HIDE DEF f, left
  <2> QED
    BY <1>1, <1>2 DEF CallRecs
<1>4. order' = order /\ refund' = refund
      /\ (r # 0 => order[r] = NoOrder /\ \A d \in Calls : call[d].next # r)
  BY DEF CancelSimulated
<1>5. call' = [call EXCEPT ![c] = k]
  BY <1>1 DEF CancelSimulated, CancelQuote, OrderDetails, OrdersInv, OrdersTypes
<1> HIDE DEF k
<1>6. r # 0 => order[r].state = "none"
  BY <1>4 DEF NoOrder
<1>7. CallOK(k, order)
  BY <1>2, <1>3, <1>6 DEF CallOK
<1> QED
  BY <1>3, <1>4, <1>5, <1>7, CallMoves

LEMMA OrdersNextInv ==
    ASSUME OrdersInv, [OrdersNext]_ordersVars
    PROVE  OrdersInv'
<1>1. ASSUME NEW c \in Calls, order' = order, refund' = refund,
             NEW pc \in {"simulate", "landed", "threw", "ok"}, call' = [call EXCEPT ![c].pc = pc],
             pc = "simulate" => call[c].pc = "status", pc = "landed" => call[c].pc = "submit",
             pc = "ok" => call[c].pc = "landed" /\ HasLanded(c)
      PROVE  OrdersInv'
  <2>1. call[c] \in CallRecs
    BY DEF OrdersInv, OrdersTypes
  <2>2. call[c].attempt \in Nat
    BY <2>1 DEF CallRecs
  <2>3. [call[c] EXCEPT !.pc = pc] = [call[c] EXCEPT !.pc = pc, !.attempt = call[c].attempt]
    BY <2>1 DEF CallRecs
  <2>4. call' = [call EXCEPT ![c] = [call[c] EXCEPT !.pc = pc]]
    BY <1>1 DEF OrdersInv, OrdersTypes
  <2>5. call' = [call EXCEPT ![c] = [call[c] EXCEPT !.pc = pc, !.attempt = call[c].attempt]]
    BY <2>3, <2>4
  <2>6. pc # "submit" /\ pc \in {"simulate", "landed", "submit", "threw", "ok"}
    OBVIOUS
  <2> QED
    BY <1>1, <2>2, <2>5, <2>6, CallGoes, ZenonT(60)
<1>2. CASE \E id \in OrderIds : Fill(id) \/ Expire(id)
  BY <1>2, FillInv
<1>3. CASE \E p \in OraclePrices, age \in {0, StaleAfter + 1} : OracleMoves(p, age)
  BY <1>3 DEF OracleMoves, OrdersInv, OrdersTypes
<1>4. ASSUME NEW c \in Calls, NEW id \in OrderIds, CreateDCA(c, id) \/ CreateStopLoss(c, id)
      PROVE  OrdersInv'
  <2> DEFINE kd == IF CreateDCA(c, id) THEN "dca" ELSE "stop"
             t == IF CreateDCA(c, id) THEN 0 ELSE call[c].trigger
             o == [kind |-> kd, state |-> "open", filled |-> 0, trigger |-> t]
  <2>1. order[id] = NoOrder /\ (\A d \in Calls : call[d].next # id) /\ refund' = refund
        /\ call' = Ended(c, "created") /\ order' = [order EXCEPT ![id] = o]
    BY <1>4 DEF CreateDCA, CreateStopLoss, Created
  <2>2. kd \in {"dca", "stop"} /\ t \in OraclePrices \cup {0}
    BY DEF OrdersInv, OrdersTypes, CallRecs
  <2> HIDE DEF kd, t
  <2>3. o \in OrderRecs /\ o.state = "open" /\ o.filled = 0
    BY <2>2 DEF OrderRecs
  <2> HIDE DEF o
  <2> QED
    BY <2>1, <2>3, OrderCreated
<1>5. ASSUME NEW c \in Calls, NEW r \in OrderIds \cup {0}, CancelSimulated(c, r)
      PROVE  OrdersInv'
  <2>1. CASE order[call[c].id].state \in Live
    BY <1>5, <2>1, SimulatedInv
  <2>2. CASE order[call[c].id].state \notin Live
    <3>1. order' = order /\ refund' = refund /\ call' = [call EXCEPT ![c].pc = "threw"]
      BY <1>5, <2>2 DEF CancelSimulated, Ended
    <3> QED
      BY <1>1, <3>1
  <2> QED
    BY <2>1, <2>2
<1>6. ASSUME NEW c \in Calls, StatusRead(c) PROVE OrdersInv'
  <2>1. order' = order /\ refund' = refund /\ call[c].pc = "status"
        /\ (call' = [call EXCEPT ![c].pc = "threw"] \/ call' = [call EXCEPT ![c].pc = "simulate"])
    BY <1>6 DEF StatusRead, Ended, Goto
  <2> QED
    BY <1>1, <2>1
<1>7. ASSUME NEW c \in Calls, TransactionFails(c) \/ CancelDCAFails(c) \/ CreateStopLossFails(c)
      PROVE  OrdersInv'
  <2>1. order' = order /\ refund' = refund
        /\ \/ call' = [call EXCEPT ![c].pc = "threw"]
           \/ call' = [call EXCEPT ![c].pc = "landed"] /\ call[c].pc = "submit"
    BY <1>7 DEF TransactionFails, CancelDCAFails, CreateStopLossFails, Ended, Goto
  <2> QED
    BY <1>1, <2>1
<1>8. ASSUME NEW c \in Calls, LandedChecked(c) PROVE OrdersInv'
  <2>1. order' = order /\ refund' = refund /\ call[c].pc = "landed" /\ call[c] \in CallRecs
    BY <1>8 DEF LandedChecked, OrdersInv, OrdersTypes
  <2>2. CASE HasLanded(c)
    <3>1. call' = [call EXCEPT ![c].pc = "ok"]
      BY <1>8, <2>2 DEF LandedChecked, Ended
    <3> QED
      BY <1>1, <2>1, <2>2, <3>1
  <2>3. CASE call' = [call EXCEPT ![c].pc = "submit", ![c].attempt = @ + 1]
    <3> DEFINE n == call[c].attempt + 1
    <3>1. n \in Nat
      BY <2>1 DEF CallRecs
    <3>2. call' = [call EXCEPT ![c] = [call[c] EXCEPT !.pc = "submit", !.attempt = n]]
      BY <2>1, <2>3 DEF OrdersInv, OrdersTypes, CallRecs
    <3> HIDE DEF n
    <3> QED
      BY <2>1, <3>1, <3>2, CallGoes
  <2>4. CASE call' = [call EXCEPT ![c].pc = "threw"]
    BY <1>1, <2>1, <2>4
  <2> QED
    BY <1>8, <2>2, <2>3, <2>4 DEF LandedChecked, Ended
<1>9. ASSUME NEW c \in Calls, CancelDCA(c) PROVE OrdersInv'
  <2>1. call[c].id \in OrderIds /\ call[c].next = 0
    BY <1>9 DEF CancelDCA, OrdersInv, OrdersTypes, CallRecs, CallOK
  <2> QED
    BY <1>9, <2>1, OrderCancelled DEF CancelDCA, Ended
<1>10. CASE UNCHANGED ordersVars
  BY <1>10 DEF ordersVars, OrdersInv, OrdersTypes
<1> QED
  BY <1>2, <1>3, <1>4, <1>5, <1>6, <1>7, <1>8, <1>9, <1>10, BeginsInv, TransactionInv DEF OrdersNext

(* A cancellation that is reported as done is done on the ledger, its refund  *)
(* bounded by what was told, and the order that replaces it exists.           *)
THEOREM CancelReports == MarketSpec => []CancelReportIsTrue
<1>1. MarketInit => OrdersInv
  BY OrdersInitInv DEF MarketInit
<1>2. OrdersInv /\ [MarketNext]_marketVars => OrdersInv'
  <2>1. [MarketNext]_marketVars => [OrdersNext]_ordersVars
    BY DEF MarketNext, marketVars
  <2> QED
    BY <2>1, OrdersNextInv
<1>3. OrdersInv => CancelReportIsTrue
  <2> SUFFICES ASSUME OrdersInv, NEW c \in Calls, call[c].pc = "ok", call[c].id # 0
               PROVE  LET id == call[c].id IN
                      /\ order[id].state = "cancelled"
                      /\ call[c].refunded >= refund[id] /\ call[c].filled <= Amount - refund[id]
                      /\ call[c].next # 0 => order[call[c].next] # NoOrder
    BY DEF CancelReportIsTrue
  <2>1. call[c] \in CallRecs /\ CallOK(call[c], order)
    BY DEF OrdersInv, OrdersTypes
  <2>2. call[c].id \in OrderIds /\ (call[c].next # 0 => call[c].next \in OrderIds)
    BY <2>1 DEF CallRecs
  <2>3. order[call[c].id].state = "cancelled"
    BY <2>1 DEF CallOK
  <2>4. refund[call[c].id] = Amount - order[call[c].id].filled /\ order[call[c].id].filled \in Nat
        /\ Amount \in Nat /\ call[c].filled \in Int /\ call[c].refunded \in Int
    BY <2>1, <2>2, <2>3, OrdersAssumption DEF OrdersInv, OrdersTypes, OrderRecs, RecordOK, CallRecs
  <2>5. call[c].refunded >= Amount - order[call[c].id].filled
        /\ call[c].filled <= order[call[c].id].filled
    BY <2>1 DEF CallOK
  <2>6. call[c].next # 0 => order[call[c].next] # NoOrder
    BY <2>1, <2>2 DEF CallOK, NoOrder
  <2>7. call[c].refunded >= refund[call[c].id] /\ call[c].filled <= Amount - refund[call[c].id]
    BY <2>4, <2>5
  <2> QED
    BY <2>3, <2>6, <2>7
<1> QED
  BY <1>1, <1>2, <1>3, PTL DEF MarketSpec

-----------------------------------------------------------------------------
(* Staking and governance. *)

Movers == {"stake", "unstake", "unstakeAndWithdraw"}
Early == {"idle", "before", "cooldown", "balance", "rewards", "exists"}

RequestRecs ==
    [pc : Early \cup {"submit", "submitted", "landed?", "status", "ok", "error"},
     kind : Movers \cup {"none", "claimRewards", "createProposal", "castVote", "closeProposal",
                         "delegate"},
     signer : Signers \cup {"none"},
     amount : Nat \cup Signers \cup Delegates,
     before : Nat, attempt : Attempts, blind : BOOLEAN, mixed : BOOLEAN, late : BOOLEAN]

SentStates == {"none", "flying", "applied", "failed", "gone"}

(* Where a call is tells its kind, and which of its transactions have left. *)
RequestStage(r, tx) ==
    /\ r.pc # "idle" => r.signer \in Signers
    /\ r.pc # "idle" /\ r.kind \in Movers => r.amount \in Nat \ {0}
    /\ r.pc \in {"before", "landed?"} => r.kind \in Staking
    /\ r.pc \in {"cooldown", "balance"} => r.kind \in {"unstake", "unstakeAndWithdraw"}
    /\ r.pc = "rewards" => r.kind = "claimRewards"
    /\ r.pc = "exists" => r.kind = "castVote"
    /\ r.pc = "landed?" => r.attempt < Resubmissions
    /\ r.pc = "status" => r.kind \in Twice /\ r.attempt = 0
    /\ r.pc \in Early => r.attempt = 0 /\ ~r.late
    /\ \A n \in Attempts : n > r.attempt => tx[n] = "none"
    /\ r.pc \in Early \cup {"submit"} => tx[r.attempt] = "none"
    /\ r.pc \in {"submitted", "landed?", "status"} => tx[r.attempt] # "none"

Quiet(r) == ~r.blind /\ ~r.mixed

(* While nobody else moves the signer's stake, the balance tells whether a *)
(* transaction of the call has applied.                                    *)
BalanceTells(r, tx, s) ==
    Quiet(r) /\ r.kind \in Staking /\ r.pc \in {"submit", "submitted", "landed?"} =>
        /\ (\A n \in Attempts : tx[n] # "applied") => s[r.signer].amount = r.before
        /\ ~r.late /\ (\E n \in Attempts : tx[n] = "applied") => HasMoved(r, s[r.signer].amount)

(* A call is repeated only when its earlier transactions are out of the way, *)
(* unless one was seen on its way.                                           *)
RepeatsDead(r, tx) ==
    Quiet(r) /\ ~r.late =>
        \A n \in Attempts : n < r.attempt => tx[n] \in {"failed", "gone"}

RequestOK(r, tx, s) ==
    /\ r \in RequestRecs /\ tx \in [Attempts -> SentStates]
    /\ RequestStage(r, tx) /\ BalanceTells(r, tx, s) /\ RepeatsDead(r, tx)
    /\ Quiet(r) /\ r.pc = "ok" => \E n \in Attempts : tx[n] = "applied"

GovInv ==
    /\ block \in Nat
    /\ stakes \in [Signers -> [amount : Nat, cooldownEnd : Nat, rewards : Nat]]
    /\ request \in [Requests -> RequestRecs]
    /\ sent \in [Requests -> [Attempts -> SentStates]]
    /\ \A c \in Requests : RequestOK(request[c], sent[c], stakes)

LEMMA NoRequestIs ==
    /\ NoRequest \in RequestRecs /\ NoRequest.pc = "idle" /\ NoRequest.kind = "none"
    /\ NoRequest.attempt = 0 /\ NoRequest.late = FALSE
<1>1. 0 \in Attempts
  BY GovAssumption DEF Attempts
<1>2. NoRequest \in RequestRecs
  BY <1>1, Zenon DEF NoRequest, RequestRecs, Early
<1> QED
  BY <1>2 DEF NoRequest

LEMMA GovInitInv == GovInit => GovInv
<1> SUFFICES ASSUME GovInit PROVE GovInv
  OBVIOUS
<1> DEFINE s0 == [amount |-> Staked, cooldownEnd |-> 0, rewards |-> 1]
<1>1. s0 \in [amount : Nat, cooldownEnd : Nat, rewards : Nat]
  BY GovAssumption
<1>2. block = 0 /\ stakes = [u \in Signers |-> s0] /\ request = [c \in Requests |-> NoRequest]
      /\ sent = [c \in Requests |-> NotSent]
  BY DEF GovInit
<1> HIDE DEF s0
<1>3. NotSent \in [Attempts -> SentStates] /\ \A n \in Attempts : NotSent[n] = "none"
  BY DEF NotSent, SentStates
<1>4. 0 \in Attempts /\ \A n \in Attempts : n \in Nat
  BY GovAssumption DEF Attempts
<1>5. RequestStage(NoRequest, NotSent)
  BY <1>3, <1>4, NoRequestIs DEF RequestStage, Early
<1>6. BalanceTells(NoRequest, NotSent, stakes)
  BY NoRequestIs DEF BalanceTells
<1>7. RepeatsDead(NoRequest, NotSent)
  BY <1>4, NoRequestIs DEF RepeatsDead
<1>8. RequestOK(NoRequest, NotSent, stakes)
  BY <1>3, <1>5, <1>6, <1>7, NoRequestIs DEF RequestOK
<1> QED
  BY <1>1, <1>2, <1>3, <1>8, NoRequestIs DEF GovInv

(* A step of one call leaves the others alone. *)
LEMMA OneRequest ==
    ASSUME GovInv, NEW c \in Requests, NEW r, NEW tx, block' = block, stakes' = stakes,
           request' = [request EXCEPT ![c] = r], sent' = [sent EXCEPT ![c] = tx],
           RequestOK(r, tx, stakes)
    PROVE  GovInv'
<1>1. r \in RequestRecs /\ tx \in [Attempts -> SentStates]
  BY DEF RequestOK
<1>2. \A d \in Requests : RequestOK(request'[d], sent'[d], stakes')
  BY DEF GovInv
<1> QED
  BY <1>1, <1>2 DEF GovInv

(* A call that goes on without a transaction. *)
LEMMA RequestGoes ==
    ASSUME GovInv, NEW c \in Requests, NEW pc, block' = block, stakes' = stakes, sent' = sent,
           request' = [request EXCEPT ![c].pc = pc],
           \/ pc = "error" /\ request[c].pc # "idle"
           \/ /\ pc = "balance" /\ request[c].pc = "cooldown"
           \/ /\ pc = "before" /\ request[c].pc = "balance" /\ request[c].kind = "unstake"
           \/ /\ pc = "submit" /\ request[c].pc \in {"balance", "rewards", "exists"}
              /\ request[c].kind \notin Staking
           \/ /\ pc = "landed?" /\ request[c].pc = "submitted" /\ request[c].kind \in Staking
              /\ request[c].attempt < Resubmissions
           \/ /\ pc = "status" /\ request[c].pc = "submitted" /\ request[c].kind \in Twice
              /\ request[c].attempt = 0
           \/ /\ pc = "ok" /\ request[c].pc \in {"submitted", "status"}
              /\ \E n \in Attempts : sent[c][n] = "applied"
    PROVE  GovInv'
<1> DEFINE r == [request[c] EXCEPT !.pc = pc]
<1>1. RequestOK(request[c], sent[c], stakes) /\ request[c] \in RequestRecs
  BY DEF GovInv
<1>2. /\ pc \in Early \cup {"submit", "submitted", "landed?", "status", "ok", "error"}
      /\ request[c].pc # "idle"
  BY DEF Early
<1>3. r \in RequestRecs
  BY <1>1, <1>2, Zenon DEF RequestRecs
<1>4. r.pc = pc /\ r.kind = request[c].kind /\ r.signer = request[c].signer
      /\ r.amount = request[c].amount /\ r.before = request[c].before
      /\ r.attempt = request[c].attempt
  BY <1>1 DEF RequestRecs
<1>5. r.blind = request[c].blind /\ r.mixed = request[c].mixed /\ r.late = request[c].late
  BY <1>1, Zenon DEF RequestRecs
<1>6. request' = [request EXCEPT ![c] = r] /\ sent' = [sent EXCEPT ![c] = sent[c]]
  BY DEF GovInv
<1> HIDE DEF r
<1>7. RequestStage(r, sent[c])
  BY <1>1, <1>2, <1>4, <1>5 DEF RequestOK, RequestStage, Early, Staking, Twice
<1>8. Quiet(r) <=> Quiet(request[c])
  BY <1>5, Zenon DEF Quiet
<1>9. BalanceTells(r, sent[c], stakes)
  <2>1. \A b : HasMoved(r, b) <=> HasMoved(request[c], b)
    BY <1>4 DEF HasMoved
  <2>2. r.pc \in {"submit", "submitted", "landed?"} /\ r.kind \in Staking => request[c].pc = "submitted"
    BY <1>4 DEF Staking
  <2> QED
    BY <1>1, <1>4, <1>5, <1>8, <2>1, <2>2 DEF RequestOK, BalanceTells
<1>10. RepeatsDead(r, sent[c])
  BY <1>1, <1>4, <1>5, <1>8 DEF RequestOK, RepeatsDead
<1>11. RequestOK(r, sent[c], stakes)
  BY <1>1, <1>3, <1>4, <1>7, <1>9, <1>10 DEF RequestOK
<1> QED
  BY <1>6, <1>11, OneRequest

LEMMA AskInv ==
    ASSUME GovInv, NEW c \in Requests, NEW u \in Signers,
           NEW kind \in {"stake", "unstake", "unstakeAndWithdraw", "claimRewards",
                         "createProposal", "castVote", "closeProposal", "delegate"},
           NEW amount \in Nat \cup Signers \cup Delegates,
           kind \in Movers => amount \in Nat \ {0},
           Ask(c, kind, u, amount)
    PROVE  GovInv'
<1> DEFINE pc == FirstStep(kind)
           r == [NoRequest EXCEPT !.pc = pc, !.kind = kind, !.signer = u, !.amount = amount]
<1>1. RequestOK(request[c], sent[c], stakes) /\ request[c].pc = "idle"
  BY DEF GovInv, Ask
<1>2. \A n \in Attempts : n \in Nat /\ sent[c][n] = "none"
  <2>1. request[c].attempt = 0 /\ sent[c][0] = "none"
    BY <1>1 DEF RequestOK, RequestStage, Early
  <2>2. ASSUME NEW n \in Attempts PROVE n \in Nat /\ (n = 0 \/ n > 0)
    BY GovAssumption DEF Attempts
  <2> QED
    BY <1>1, <2>1, <2>2 DEF RequestOK, RequestStage
<1>3. request' = [request EXCEPT ![c] = r] /\ sent' = [sent EXCEPT ![c] = sent[c]]
      /\ block' = block /\ stakes' = stakes
  BY DEF Ask, UnchangedChain, GovInv
<1>4. /\ pc \in {"before", "cooldown", "rewards", "exists", "submit"}
      /\ pc = "before" => kind = "stake"
      /\ pc = "cooldown" => kind \in {"unstake", "unstakeAndWithdraw"}
      /\ pc = "rewards" => kind = "claimRewards"
      /\ pc = "exists" => kind = "castVote"
      /\ pc = "submit" => kind \notin Staking
  BY DEF FirstStep, Staking
<1> HIDE DEF pc
<1>5. r \in RequestRecs
  <2>1. /\ pc \in Early \cup {"submit", "submitted", "landed?", "status", "ok", "error"}
        /\ kind \in Movers \cup {"none", "claimRewards", "createProposal", "castVote",
                                 "closeProposal", "delegate"}
    BY <1>4 DEF Early, Movers
  <2> QED
    BY <2>1, NoRequestIs, ZenonT(60) DEF RequestRecs
<1>6. r.pc = pc /\ r.kind = kind /\ r.signer = u /\ r.amount = amount /\ r.attempt = 0
  BY NoRequestIs DEF RequestRecs
<1>7. ~r.late
  BY NoRequestIs DEF RequestRecs
<1> HIDE DEF r
<1>8. 0 \in Attempts
  BY GovAssumption DEF Attempts
<1>9. RequestStage(r, sent[c])
  BY <1>2, <1>4, <1>6, <1>7, <1>8 DEF RequestStage, Early, Staking
<1>10. BalanceTells(r, sent[c], stakes)
  BY <1>4, <1>6 DEF BalanceTells
<1>11. RepeatsDead(r, sent[c])
  BY <1>2, <1>6 DEF RepeatsDead
<1>12. RequestOK(r, sent[c], stakes)
  BY <1>1, <1>4, <1>5, <1>6, <1>9, <1>10, <1>11 DEF RequestOK
<1> QED
  BY <1>3, <1>12, OneRequest

LEMMA BeforeReadInv ==
    ASSUME GovInv, NEW c \in Requests, NEW fails \in BOOLEAN, BeforeRead(c, fails)
    PROVE  GovInv'
<1> DEFINE bal == BalanceRead(c, fails)
           r == [request[c] EXCEPT !.pc = "submit", !.before = bal, !.blind = fails]
<1>1. RequestOK(request[c], sent[c], stakes) /\ request[c] \in RequestRecs /\ request[c].pc = "before"
  BY DEF GovInv, BeforeRead
<1>2. bal \in Nat /\ (~fails => bal = stakes[request[c].signer].amount)
  BY <1>1 DEF BalanceRead, GovInv, RequestOK, RequestStage
<1>3. request' = [request EXCEPT ![c] = r] /\ sent' = [sent EXCEPT ![c] = sent[c]]
      /\ block' = block /\ stakes' = stakes
  BY DEF BeforeRead, UnchangedChain, GovInv
<1> HIDE DEF bal
<1>4. r \in RequestRecs
  <2>1. "submit" \in Early \cup {"submit", "submitted", "landed?", "status", "ok", "error"}
    OBVIOUS
  <2> QED
    BY <1>1, <1>2, <2>1, Zenon DEF RequestRecs
<1>5. r.pc = "submit" /\ r.kind = request[c].kind /\ r.signer = request[c].signer
      /\ r.amount = request[c].amount /\ r.before = bal /\ r.attempt = request[c].attempt
  BY <1>1 DEF RequestRecs
<1>6. r.blind = fails /\ r.late = request[c].late
  BY <1>1, Zenon DEF RequestRecs
<1> HIDE DEF r
<1>7. \A n \in Attempts : n \in Nat /\ sent[c][n] = "none" /\ request[c].attempt = 0
  <2>1. request[c].attempt = 0 /\ sent[c][0] = "none"
    BY <1>1 DEF RequestOK, RequestStage, Early
  <2>2. ASSUME NEW n \in Attempts PROVE n \in Nat /\ (n = 0 \/ n > 0)
    BY GovAssumption DEF Attempts
  <2> QED
    BY <1>1, <2>1, <2>2 DEF RequestOK, RequestStage
<1>8. RequestStage(r, sent[c])
  BY <1>1, <1>5, <1>6 DEF RequestOK, RequestStage, Early
<1>9. BalanceTells(r, sent[c], stakes)
  BY <1>2, <1>5, <1>6, <1>7 DEF BalanceTells, Quiet
<1>10. RepeatsDead(r, sent[c])
  BY <1>5, <1>7 DEF RepeatsDead
<1>11. RequestOK(r, sent[c], stakes)
  BY <1>1, <1>4, <1>5, <1>8, <1>9, <1>10 DEF RequestOK
<1> QED
  BY <1>3, <1>11, OneRequest

LEMMA SubmitInv ==
    ASSUME GovInv, NEW c \in Requests, Submit(c)
    PROVE  GovInv'
<1> DEFINE k == request[c].attempt
           r == [request[c] EXCEPT !.pc = "submitted"]
           tx == [sent[c] EXCEPT ![k] = "flying"]
<1>1. RequestOK(request[c], sent[c], stakes) /\ request[c] \in RequestRecs /\ request[c].pc = "submit"
      /\ sent[c] \in [Attempts -> SentStates]
  BY DEF GovInv, Submit
<1>2. k \in Attempts /\ \A n \in Attempts : n \in Nat
  BY <1>1, GovAssumption DEF RequestRecs, Attempts
<1>3. request' = [request EXCEPT ![c] = r] /\ sent' = [sent EXCEPT ![c] = tx]
      /\ block' = block /\ stakes' = stakes
  BY DEF Submit, Goes, UnchangedChain, GovInv
<1>4. tx \in [Attempts -> SentStates] /\ \A n \in Attempts : tx[n] = IF n = k THEN "flying" ELSE sent[c][n]
  BY <1>1, <1>2 DEF SentStates
<1>5. r \in RequestRecs
  <2>1. "submitted" \in Early \cup {"submit", "submitted", "landed?", "status", "ok", "error"}
    OBVIOUS
  <2> QED
    BY <1>1, <2>1, Zenon DEF RequestRecs
<1>6. r.pc = "submitted" /\ r.kind = request[c].kind /\ r.signer = request[c].signer
      /\ r.amount = request[c].amount /\ r.before = request[c].before /\ r.attempt = k
  BY <1>1 DEF RequestRecs
<1>7. r.blind = request[c].blind /\ r.mixed = request[c].mixed /\ r.late = request[c].late
  BY <1>1, Zenon DEF RequestRecs
<1> HIDE DEF r, tx
<1>8. sent[c][k] = "none"
  BY <1>1 DEF RequestOK, RequestStage
<1>9. RequestStage(r, tx)
  BY <1>1, <1>2, <1>4, <1>6, <1>7 DEF RequestOK, RequestStage, Early
<1>10. Quiet(r) <=> Quiet(request[c])
  BY <1>7, Zenon DEF Quiet
<1>11. \A n \in Attempts : tx[n] = "applied" <=> sent[c][n] = "applied"
  BY <1>4, <1>8
<1>12. BalanceTells(r, tx, stakes)
  <2>1. \A b : HasMoved(r, b) <=> HasMoved(request[c], b)
    BY <1>6 DEF HasMoved
  <2> QED
    BY <1>1, <1>6, <1>7, <1>10, <1>11, <2>1 DEF RequestOK, BalanceTells
<1>13. RepeatsDead(r, tx)
  BY <1>1, <1>2, <1>4, <1>6, <1>7, <1>10 DEF RequestOK, RepeatsDead
<1>14. RequestOK(r, tx, stakes)
  BY <1>4, <1>5, <1>6, <1>9, <1>12, <1>13 DEF RequestOK
<1> QED
  BY <1>3, <1>14, OneRequest

(* The call is to be repeated. *)
LEMMA AgainInv ==
    ASSUME GovInv, NEW c \in Requests, NEW b \in BOOLEAN, Again(c, b),
           block' = block, stakes' = stakes, sent' = sent,
           request[c].attempt < Resubmissions,
           request[c].pc \in {"landed?", "status"},
           ~b /\ Quiet(request[c]) /\ ~request[c].late => sent[c][request[c].attempt] # "applied"
    PROVE  GovInv'
<1> DEFINE k == request[c].attempt
           m == k + 1
           b2 == request[c].blind \/ b
           l2 == request[c].late \/ \E n \in Attempts : sent[c][n] = "flying"
           r == [request[c] EXCEPT !.pc = "submit", !.attempt = m, !.blind = b2, !.late = l2]
<1>1. RequestOK(request[c], sent[c], stakes) /\ request[c] \in RequestRecs
      /\ sent[c] \in [Attempts -> SentStates]
  BY DEF GovInv
<1>2. /\ k \in Attempts /\ m \in Attempts /\ (\A n \in Attempts : n \in Nat) /\ k \in Nat
      /\ m > k /\ m > 0 /\ \A n \in Attempts : n < m => n < k \/ n = k
  <2>1. k \in 0..Resubmissions /\ k < Resubmissions /\ Resubmissions \in Nat
    BY <1>1, GovAssumption DEF RequestRecs, Attempts
  <2> QED
    BY <2>1 DEF Attempts
<1>3. request' = [request EXCEPT ![c] = r] /\ sent' = [sent EXCEPT ![c] = sent[c]]
  BY DEF Again, GovInv
<1>4. b2 \in BOOLEAN /\ l2 \in BOOLEAN
  OBVIOUS
<1>5. (b2 <=> request[c].blind \/ b)
      /\ (l2 <=> request[c].late \/ \E n \in Attempts : sent[c][n] = "flying")
  OBVIOUS
<1> HIDE DEF b2, l2, m
<1>6. r \in RequestRecs
  <2>1. "submit" \in Early \cup {"submit", "submitted", "landed?", "status", "ok", "error"}
    OBVIOUS
  <2> QED
    BY <1>1, <1>2, <1>4, <2>1, Zenon DEF RequestRecs
<1>7. r.pc = "submit" /\ r.kind = request[c].kind /\ r.signer = request[c].signer
      /\ r.amount = request[c].amount /\ r.before = request[c].before /\ r.attempt = m
  BY <1>1 DEF RequestRecs
<1>8. r.blind = b2 /\ r.mixed = request[c].mixed /\ r.late = l2
  BY <1>1, Zenon DEF RequestRecs
<1> HIDE DEF r
<1>9. RequestStage(r, sent[c])
  BY <1>1, <1>2, <1>7 DEF RequestOK, RequestStage, Early
<1>10. Quiet(r) => Quiet(request[c]) /\ ~b
  BY <1>5, <1>8, Zenon DEF Quiet
<1>11. ~r.late => ~request[c].late /\ \A n \in Attempts : sent[c][n] # "flying"
  BY <1>5, <1>8, Zenon
<1>12. BalanceTells(r, sent[c], stakes)
  <2>1. \A x : HasMoved(r, x) <=> HasMoved(request[c], x)
    BY <1>7 DEF HasMoved
  <2>2. r.kind \in Staking => request[c].pc = "landed?"
    BY <1>1, <1>7 DEF RequestOK, RequestStage, Twice, Staking
  <2> QED
    BY <1>1, <1>7, <1>10, <1>11, <2>1, <2>2 DEF RequestOK, BalanceTells
<1>13. RepeatsDead(r, sent[c])
  <2>1. ASSUME Quiet(r), ~r.late PROVE sent[c][k] \in {"failed", "gone"}
    <3>1. sent[c][k] # "applied" /\ sent[c][k] # "flying"
      BY <1>2, <1>10, <1>11, <2>1
    <3>2. sent[c][k] # "none" /\ sent[c][k] \in SentStates
      BY <1>1, <1>2 DEF RequestOK, RequestStage
    <3> QED
      BY <3>1, <3>2 DEF SentStates
  <2>2. ASSUME Quiet(r), ~r.late, NEW n \in Attempts, n < k PROVE sent[c][n] \in {"failed", "gone"}
    BY <1>1, <1>10, <1>11, <2>2 DEF RequestOK, RepeatsDead
  <2> QED
    BY <1>2, <1>7, <2>1, <2>2 DEF RepeatsDead
<1>14. RequestOK(r, sent[c], stakes)
  BY <1>1, <1>6, <1>7, <1>9, <1>12, <1>13 DEF RequestOK
<1> QED
  BY <1>3, <1>14, OneRequest

LEMMA CheckLandedInv ==
    ASSUME GovInv, NEW c \in Requests, NEW fails \in BOOLEAN, CheckLanded(c, fails)
    PROVE  GovInv'
<1> DEFINE bal == BalanceRead(c, fails)
           amt == stakes[request[c].signer].amount
<1>1. RequestOK(request[c], sent[c], stakes) /\ request[c] \in RequestRecs
      /\ request[c].pc = "landed?" /\ block' = block /\ stakes' = stakes /\ sent' = sent
      /\ sent[c] \in [Attempts -> SentStates]
  BY DEF GovInv, CheckLanded, UnchangedChain
<1>2. request[c].kind \in Staking /\ request[c].attempt < Resubmissions
      /\ request[c].amount \in Nat \ {0} /\ request[c].before \in Nat
      /\ request[c].attempt \in Attempts
  BY <1>1 DEF RequestOK, RequestStage, Staking, Movers, RequestRecs
<1>3. ~fails => bal = amt
  BY DEF BalanceRead
<1>4. ~HasMoved(request[c], request[c].before)
  BY <1>2 DEF HasMoved
<1>5. /\ Quiet(request[c]) /\ (\A n \in Attempts : sent[c][n] # "applied") => amt = request[c].before
      /\ Quiet(request[c]) /\ ~request[c].late /\ (\E n \in Attempts : sent[c][n] = "applied")
            => HasMoved(request[c], amt)
  BY <1>1, <1>2 DEF RequestOK, BalanceTells
<1> HIDE DEF bal, amt
<1>6. CASE HasMoved(request[c], bal)
  <2> DEFINE b2 == request[c].blind \/ fails
             r == [request[c] EXCEPT !.pc = "ok", !.blind = b2]
  <2>1. request' = [request EXCEPT ![c] = r] /\ sent' = [sent EXCEPT ![c] = sent[c]]
    BY <1>1, <1>6 DEF CheckLanded, GovInv, bal
  <2>2. b2 \in BOOLEAN /\ (b2 <=> request[c].blind \/ fails)
    OBVIOUS
  <2> HIDE DEF b2
  <2>3. r \in RequestRecs
    <3>1. "ok" \in Early \cup {"submit", "submitted", "landed?", "status", "ok", "error"}
      OBVIOUS
    <3> QED
      BY <1>1, <2>2, <3>1, Zenon DEF RequestRecs
  <2>4. r.pc = "ok" /\ r.kind = request[c].kind /\ r.signer = request[c].signer
        /\ r.amount = request[c].amount /\ r.attempt = request[c].attempt
    BY <1>1 DEF RequestRecs
  <2>5. r.blind = b2 /\ r.mixed = request[c].mixed /\ r.late = request[c].late
    BY <1>1, Zenon DEF RequestRecs
  <2> HIDE DEF r
  <2>6. Quiet(r) => Quiet(request[c]) /\ ~fails
    BY <2>2, <2>5, Zenon DEF Quiet
  <2>7. RequestStage(r, sent[c])
    BY <1>1, <2>4 DEF RequestOK, RequestStage, Early
  <2>8. BalanceTells(r, sent[c], stakes)
    BY <2>4 DEF BalanceTells
  <2>9. RepeatsDead(r, sent[c])
    BY <1>1, <2>4, <2>5, <2>6 DEF RequestOK, RepeatsDead
  <2>10. Quiet(r) => \E n \in Attempts : sent[c][n] = "applied"
    BY <1>3, <1>4, <1>5, <1>6, <2>6
  <2>11. RequestOK(r, sent[c], stakes)
    BY <1>1, <2>3, <2>7, <2>8, <2>9, <2>10 DEF RequestOK
  <2> QED
    BY <1>1, <2>1, <2>11, OneRequest
<1>7. CASE ~HasMoved(request[c], bal)
  <2>1. Again(c, fails)
    BY <1>7 DEF CheckLanded, bal
  <2>2. ~fails /\ Quiet(request[c]) /\ ~request[c].late => sent[c][request[c].attempt] # "applied"
    BY <1>2, <1>3, <1>5, <1>7
  <2> QED
    BY <1>1, <1>2, <2>1, <2>2, AgainInv
<1> QED
  BY <1>6, <1>7

LEMMA TxStatusReadInv ==
    ASSUME GovInv, NEW c \in Requests, NEW fails \in BOOLEAN, TxStatusRead(c, fails)
    PROVE  GovInv'
<1>1. RequestOK(request[c], sent[c], stakes) /\ request[c].pc = "status"
      /\ block' = block /\ stakes' = stakes /\ sent' = sent
  BY DEF GovInv, TxStatusRead, UnchangedChain
<1>2. request[c].attempt = 0 /\ 0 \in Attempts /\ 0 < Resubmissions
  BY <1>1, GovAssumption DEF RequestOK, RequestStage, Attempts
<1>3. CASE ~fails /\ sent[c][0] = "applied"
  <2>1. request' = [request EXCEPT ![c].pc = "ok"] /\ \E n \in Attempts : sent[c][n] = "applied"
    BY <1>2, <1>3 DEF TxStatusRead, Goes
  <2> QED
    BY <1>1, <2>1, RequestGoes
<1>4. CASE request' = [request EXCEPT ![c].pc = "error"]
  BY <1>1, <1>4, RequestGoes
<1>5. CASE Again(c, FALSE) /\ ~fails /\ sent[c][0] # "applied"
  <2>1. FALSE \in BOOLEAN /\ request[c].pc \in {"landed?", "status"}
    BY <1>1
  <2> QED
    BY <1>1, <1>2, <1>5, <2>1, AgainInv
<1> QED
  BY <1>3, <1>4, <1>5 DEF TxStatusRead, Goes

(* A transaction on its way belongs to a call that has made its requests. *)
LEMMA FlyingBelongs ==
    ASSUME GovInv, NEW c \in Requests, NEW n \in Attempts, sent[c][n] = "flying"
    PROVE  /\ request[c].pc \notin Early /\ request[c].signer \in Signers
           /\ request[c].kind \in Movers => request[c].amount \in Nat \ {0}
           /\ n < request[c].attempt \/ (n = request[c].attempt /\ request[c].pc # "submit")
           /\ Quiet(request[c]) /\ ~request[c].late => n = request[c].attempt
<1>1. RequestOK(request[c], sent[c], stakes) /\ request[c] \in RequestRecs
  BY DEF GovInv
<1>2. n \in Nat /\ request[c].attempt \in Nat
  BY <1>1, GovAssumption DEF RequestRecs, Attempts
<1>3. ~(n > request[c].attempt) /\ (request[c].pc \in Early \cup {"submit"} => n # request[c].attempt)
  BY <1>1 DEF RequestOK, RequestStage
<1>4. n < request[c].attempt \/ n = request[c].attempt
  BY <1>2, <1>3
<1>5. request[c].pc \notin Early
  BY <1>1, <1>2, <1>3, <1>4 DEF RequestOK, RequestStage
<1>6. request[c].signer \in Signers /\ (request[c].kind \in Movers => request[c].amount \in Nat \ {0})
  BY <1>1, <1>5 DEF RequestOK, RequestStage, Early
<1>7. Quiet(request[c]) /\ ~request[c].late => n = request[c].attempt
  BY <1>1, <1>4 DEF RequestOK, RepeatsDead
<1>8. n < request[c].attempt \/ (n = request[c].attempt /\ request[c].pc # "submit")
  <2>1. n = request[c].attempt => request[c].pc # "submit"
    BY <1>3
  <2> QED
    BY <1>4, <2>1
<1> QED
  BY <1>5, <1>6, <1>7, <1>8

LEMMA TxVanishesInv ==
    ASSUME GovInv, NEW c \in Requests, NEW n \in Attempts, TxVanishes(c, n)
    PROVE  GovInv'
<1> DEFINE tx == [sent[c] EXCEPT ![n] = "gone"]
<1>1. RequestOK(request[c], sent[c], stakes) /\ sent[c] \in [Attempts -> SentStates]
      /\ sent[c][n] = "flying"
  BY DEF GovInv, TxVanishes
<1>2. request' = [request EXCEPT ![c] = request[c]] /\ sent' = [sent EXCEPT ![c] = tx]
      /\ block' = block /\ stakes' = stakes
  BY DEF TxVanishes, UnchangedChain, GovInv
<1>3. tx \in [Attempts -> SentStates] /\ \A m \in Attempts : tx[m] = IF m = n THEN "gone" ELSE sent[c][m]
  BY <1>1 DEF SentStates
<1> HIDE DEF tx
<1>4. request[c].attempt \in Attempts
  BY DEF GovInv, RequestRecs
<1>5. RequestStage(request[c], tx)
  BY <1>1, <1>3, <1>4 DEF RequestOK, RequestStage
<1>6. \A m \in Attempts : tx[m] = "applied" <=> sent[c][m] = "applied"
  BY <1>1, <1>3
<1>7. BalanceTells(request[c], tx, stakes)
  BY <1>1, <1>6 DEF RequestOK, BalanceTells
<1>8. RepeatsDead(request[c], tx)
  BY <1>1, <1>3 DEF RequestOK, RepeatsDead
<1>9. RequestOK(request[c], tx, stakes)
  BY <1>1, <1>3, <1>5, <1>6, <1>7, <1>8 DEF RequestOK
<1> QED
  BY <1>2, <1>9, OneRequest

(* What a transaction does to the stakes. *)
LEMMA StakesAfter ==
    ASSUME GovInv, NEW c \in Requests, NEW n \in Attempts, TxLands(c, n)
    PROVE  LET r == request[c]
               movesStake == Accepts(r) /\ r.kind \in {"stake", "unstake", "unstakeAndWithdraw"} IN
           /\ stakes' \in [Signers -> [amount : Nat, cooldownEnd : Nat, rewards : Nat]]
           /\ \A u \in Signers : u # r.signer \/ ~movesStake => stakes'[u].amount = stakes[u].amount
           /\ movesStake /\ r.kind = "stake" =>
                 stakes'[r.signer].amount = stakes[r.signer].amount + r.amount
           /\ movesStake /\ r.kind # "stake" =>
                 /\ stakes[r.signer].amount >= r.amount
                 /\ stakes'[r.signer].amount = stakes[r.signer].amount - r.amount
<1> DEFINE r == request[c]
           movesStake == Accepts(r) /\ r.kind \in {"stake", "unstake", "unstakeAndWithdraw"}
           StakeRecs == [amount : Nat, cooldownEnd : Nat, rewards : Nat]
<1>1. sent[c][n] = "flying"
  BY DEF TxLands
<1>2. r.signer \in Signers /\ (r.kind \in Movers => r.amount \in Nat \ {0})
  BY <1>1, FlyingBelongs
<1>3. stakes \in [Signers -> StakeRecs] /\ block \in Nat /\ CooldownTime \in Nat
      /\ stakes[r.signer] \in StakeRecs
  BY <1>2, GovAssumption DEF GovInv
<1>4. stakes' = IF Accepts(r) /\ (movesStake \/ r.kind = "claimRewards")
                THEN [stakes EXCEPT ![r.signer] = StakeAfter(r)] ELSE stakes
  BY DEF TxLands
<1>5. CASE movesStake /\ r.kind = "stake"
  <2> DEFINE s == [amount |-> stakes[r.signer].amount + r.amount,
                   cooldownEnd |-> block + CooldownTime, rewards |-> 1]
  <2>1. stakes' = [stakes EXCEPT ![r.signer] = s]
    BY <1>4, <1>5 DEF StakeAfter
  <2>2. s \in StakeRecs /\ s.amount = stakes[r.signer].amount + r.amount
    BY <1>2, <1>3, <1>5 DEF Movers
  <2> HIDE DEF s
  <2> QED
    BY <1>2, <1>3, <1>5, <2>1, <2>2
<1>6. CASE movesStake /\ r.kind # "stake"
  <2> DEFINE a == stakes[r.signer].amount - r.amount
             s == [stakes[r.signer] EXCEPT !.amount = a]
  <2>1. stakes' = [stakes EXCEPT ![r.signer] = s]
    BY <1>4, <1>6 DEF StakeAfter
  <2>2. stakes[r.signer].amount >= r.amount /\ a \in Nat
    BY <1>2, <1>3, <1>6 DEF Accepts, Movers
  <2>3. s \in StakeRecs /\ s.amount = a
    <3> HIDE DEF a
    <3> QED
      BY <1>3, <2>2
  <2> HIDE DEF s
  <2> QED
    BY <1>2, <1>3, <1>6, <2>1, <2>2, <2>3
<1>7. CASE ~movesStake /\ Accepts(r) /\ r.kind = "claimRewards"
  <2> DEFINE s == [stakes[r.signer] EXCEPT !.rewards = 0]
  <2>1. stakes' = [stakes EXCEPT ![r.signer] = s]
    BY <1>4, <1>7 DEF StakeAfter
  <2>2. s \in StakeRecs /\ s.amount = stakes[r.signer].amount
    BY <1>3
  <2> HIDE DEF s
  <2> QED
    BY <1>2, <1>3, <1>7, <2>1, <2>2
<1>8. CASE ~movesStake /\ ~(Accepts(r) /\ r.kind = "claimRewards")
  BY <1>3, <1>4, <1>8
<1> QED
  BY <1>5, <1>6, <1>7, <1>8

(* A transaction of a call takes effect, or is refused. *)
LEMMA TxLandsInv ==
    ASSUME GovInv, NEW c \in Requests, NEW n \in Attempts, TxLands(c, n)
    PROVE  GovInv'
<1> DEFINE A == Accepts(request[c])
           movesStake == A /\ request[c].kind \in {"stake", "unstake", "unstakeAndWithdraw"}
           st == IF A THEN "applied" ELSE "failed"
           tx == [sent[c] EXCEPT ![n] = st]
           m(d) == request[d].mixed \/ (movesStake /\ d # c /\ request[d].signer = request[c].signer)
           q(d) == [request[d] EXCEPT !.mixed = m(d)]
<1>1. sent[c][n] = "flying" /\ sent[c] \in [Attempts -> SentStates] /\ block' = block
      /\ sent' = [sent EXCEPT ![c] = tx] /\ request' = [d \in Requests |-> q(d)]
  BY DEF GovInv, TxLands
<1>2. /\ stakes' \in [Signers -> [amount : Nat, cooldownEnd : Nat, rewards : Nat]]
      /\ \A u \in Signers : u # request[c].signer \/ ~movesStake => stakes'[u].amount = stakes[u].amount
      /\ movesStake /\ request[c].kind = "stake" =>
            stakes'[request[c].signer].amount = stakes[request[c].signer].amount + request[c].amount
      /\ movesStake /\ request[c].kind # "stake" =>
            /\ stakes[request[c].signer].amount >= request[c].amount
            /\ stakes'[request[c].signer].amount
                  = stakes[request[c].signer].amount - request[c].amount
  BY StakesAfter
<1>3. /\ request[c].pc \notin Early /\ request[c].signer \in Signers
      /\ request[c].kind \in Movers => request[c].amount \in Nat \ {0}
      /\ n < request[c].attempt \/ (n = request[c].attempt /\ request[c].pc # "submit")
      /\ Quiet(request[c]) /\ ~request[c].late => n = request[c].attempt
  BY <1>1, FlyingBelongs
<1>4. tx \in [Attempts -> SentStates] /\ st \in {"applied", "failed"} /\ (st = "applied" <=> A)
      /\ \A k \in Attempts : tx[k] = IF k = n THEN st ELSE sent[c][k]
  BY <1>1 DEF SentStates
<1>5. \A d \in Requests : sent'[d] = IF d = c THEN tx ELSE sent[d]
  BY <1>1 DEF GovInv
<1> HIDE DEF A, st, tx
<1>6. ASSUME NEW d \in Requests
      PROVE  /\ q(d) \in RequestRecs /\ q(d).pc = request[d].pc /\ q(d).kind = request[d].kind
             /\ q(d).signer = request[d].signer /\ q(d).amount = request[d].amount
             /\ q(d).before = request[d].before /\ q(d).attempt = request[d].attempt
             /\ q(d).late = request[d].late /\ q(d).blind = request[d].blind
             /\ Quiet(q(d)) => /\ Quiet(request[d])
                               /\ ~(movesStake /\ d # c /\ request[d].signer = request[c].signer)
             /\ d = c => (Quiet(q(d)) <=> Quiet(request[d]))
  <2> DEFINE md == m(d)
  <2>1. request[d] \in RequestRecs
    BY DEF GovInv
  <2>2. request[d].mixed \in BOOLEAN
    BY <2>1 DEF RequestRecs
  <2>3. md \in BOOLEAN /\ (md <=> request[d].mixed
                              \/ (movesStake /\ d # c /\ request[d].signer = request[c].signer))
    BY <2>2
  <2> HIDE DEF md
  <2>4. [request[d] EXCEPT !.mixed = md] \in RequestRecs
    BY <2>1, <2>3, Zenon DEF RequestRecs
  <2> DEFINE w == [request[d] EXCEPT !.mixed = md]
  <2>5. w.pc = request[d].pc /\ w.kind = request[d].kind /\ w.signer = request[d].signer
        /\ w.amount = request[d].amount /\ w.before = request[d].before
        /\ w.attempt = request[d].attempt
    BY <2>1 DEF RequestRecs
  <2>6. w.late = request[d].late /\ w.blind = request[d].blind /\ w.mixed = md
    BY <2>1, Zenon DEF RequestRecs
  <2>7. q(d) = w
    BY DEF md
  <2> HIDE DEF w
  <2>8. Quiet(w) => /\ Quiet(request[d])
                    /\ ~(movesStake /\ d # c /\ request[d].signer = request[c].signer)
    BY <2>3, <2>6, Zenon DEF Quiet
  <2>9. d = c => (Quiet(w) <=> Quiet(request[d]))
    BY <2>3, <2>6, Zenon DEF Quiet
  <2>10. w \in RequestRecs
    BY <2>4 DEF w
  <2> HIDE DEF q
  <2> QED
    BY <2>5, <2>6, <2>7, <2>8, <2>9, <2>10
<1>7. \A d \in Requests : request'[d] = q(d)
  BY <1>1
<1> HIDE DEF q
<1>8. ASSUME NEW d \in Requests, d # c PROVE RequestOK(request'[d], sent'[d], stakes')
  <2>1. RequestOK(request[d], sent[d], stakes) /\ request'[d] = q(d) /\ sent'[d] = sent[d]
    BY <1>5, <1>7, <1>8 DEF GovInv
  <2>2. RequestStage(q(d), sent[d])
    BY <1>6, <2>1 DEF RequestOK, RequestStage
  <2>3. BalanceTells(q(d), sent[d], stakes')
    <3>1. \A b : HasMoved(q(d), b) <=> HasMoved(request[d], b)
      BY <1>6 DEF HasMoved
    <3>2. ASSUME Quiet(q(d)), q(d).kind \in Staking, q(d).pc \in {"submit", "submitted", "landed?"}
          PROVE  stakes'[q(d).signer].amount = stakes[request[d].signer].amount
      <4>1. request[d].signer \in Signers
        BY <1>6, <2>1, <3>2 DEF RequestOK, RequestStage
      <4> QED
        BY <1>2, <1>6, <1>8, <3>2, <4>1
    <3> QED
      BY <1>6, <2>1, <3>1, <3>2 DEF RequestOK, BalanceTells
  <2>4. RepeatsDead(q(d), sent[d])
    BY <1>6, <2>1 DEF RequestOK, RepeatsDead
  <2> QED
    BY <1>6, <2>1, <2>2, <2>3, <2>4 DEF RequestOK
<1>9. RequestOK(request'[c], sent'[c], stakes')
  <2>1. RequestOK(request[c], sent[c], stakes) /\ request'[c] = q(c) /\ sent'[c] = tx
    BY <1>5, <1>7 DEF GovInv
  <2>2. request[c].attempt \in Attempts
    BY DEF GovInv, RequestRecs
  <2>3. RequestStage(q(c), tx)
    BY <1>1, <1>4, <1>6, <2>1, <2>2 DEF RequestOK, RequestStage
  <2>4. RepeatsDead(q(c), tx)
    <3>1. ASSUME Quiet(q(c)), ~q(c).late, NEW k \in Attempts, k < q(c).attempt
          PROVE  tx[k] \in {"failed", "gone"}
      <4>1. sent[c][k] \in {"failed", "gone"}
        BY <1>6, <2>1, <3>1 DEF RequestOK, RepeatsDead
      <4>2. k # n
        BY <1>1, <4>1
      <4> QED
        BY <1>4, <4>1, <4>2
    <3> QED
      BY <3>1 DEF RepeatsDead
  <2>5. BalanceTells(q(c), tx, stakes')
    <3>1. ASSUME Quiet(q(c)), q(c).kind \in Staking, q(c).pc \in {"submit", "submitted", "landed?"}
          PROVE  /\ (\A k \in Attempts : tx[k] # "applied") =>
                        stakes'[q(c).signer].amount = q(c).before
                 /\ ~q(c).late /\ (\E k \in Attempts : tx[k] = "applied") =>
                        HasMoved(q(c), stakes'[q(c).signer].amount)
      <4>1. Quiet(request[c]) /\ request[c].kind \in Staking
            /\ request[c].pc \in {"submit", "submitted", "landed?"}
        BY <1>6, <3>1
      <4>2. /\ (\A k \in Attempts : sent[c][k] # "applied") =>
                   stakes[request[c].signer].amount = request[c].before
            /\ ~request[c].late /\ (\E k \in Attempts : sent[c][k] = "applied") =>
                   HasMoved(request[c], stakes[request[c].signer].amount)
        BY <2>1, <4>1 DEF RequestOK, BalanceTells
      <4>3. \A b : HasMoved(q(c), b) <=> HasMoved(request[c], b)
        BY <1>6 DEF HasMoved
      <4>4. CASE ~A
        <5>1. stakes'[request[c].signer].amount = stakes[request[c].signer].amount
          BY <1>2, <1>3, <4>4
        <5>2. \A k \in Attempts : tx[k] = "applied" <=> sent[c][k] = "applied"
          BY <1>1, <1>4, <4>4
        <5> QED
          BY <1>6, <4>2, <4>3, <5>1, <5>2
      <4>5. CASE A
        <5>1. tx[n] = "applied" /\ movesStake
          BY <1>4, <4>1, <4>5 DEF Staking
        <5>2. ASSUME ~request[c].late PROVE HasMoved(request[c], stakes'[request[c].signer].amount)
          <6>1. n = request[c].attempt
            BY <1>3, <4>1, <5>2
          <6>2. \A k \in Attempts : sent[c][k] # "applied"
            <7>1. ASSUME NEW k \in Attempts PROVE k < n \/ k = n \/ k > n
              BY GovAssumption DEF Attempts
            <7> QED
              BY <1>1, <2>1, <4>1, <5>2, <6>1, <7>1 DEF RequestOK, RequestStage, RepeatsDead
          <6>3. stakes[request[c].signer].amount = request[c].before
            BY <4>2, <6>2
          <6>4. request[c].before \in Nat /\ request[c].amount \in Nat
            BY <1>3, <4>1 DEF GovInv, RequestRecs, Staking, Movers
          <6>5. CASE request[c].kind = "stake"
            BY <1>2, <5>1, <6>3, <6>4, <6>5 DEF HasMoved
          <6>6. CASE request[c].kind # "stake"
            BY <1>2, <5>1, <6>3, <6>4, <6>6 DEF HasMoved
          <6> QED
            BY <6>5, <6>6
        <5> QED
          BY <1>6, <4>3, <5>1, <5>2
      <4> QED
        BY <4>4, <4>5
    <3> QED
      BY <3>1 DEF BalanceTells
  <2>6. Quiet(q(c)) /\ q(c).pc = "ok" => \E k \in Attempts : tx[k] = "applied"
    <3>1. Quiet(q(c)) /\ q(c).pc = "ok" => \E k \in Attempts : sent[c][k] = "applied"
      BY <1>6, <2>1 DEF RequestOK
    <3> QED
      BY <1>1, <1>4, <3>1
  <2> QED
    BY <1>4, <1>6, <2>1, <2>3, <2>4, <2>5, <2>6 DEF RequestOK
<1>10. request' \in [Requests -> RequestRecs] /\ sent' \in [Requests -> [Attempts -> SentStates]]
  <2>1. \A d \in Requests : q(d) \in RequestRecs
    BY <1>6
  <2> QED
    BY <1>1, <1>4, <2>1 DEF GovInv
<1> QED
  BY <1>1, <1>2, <1>8, <1>9, <1>10 DEF GovInv

LEMMA SettledInv ==
    ASSUME GovInv, NEW c \in Requests, NEW success \in BOOLEAN, NEW hash \in BOOLEAN,
           NEW retryable \in BOOLEAN, Settled(c, success, hash, retryable)
    PROVE  GovInv'
<1>1. request[c].pc = "submitted" /\ request[c].attempt \in Attempts
      /\ block' = block /\ stakes' = stakes /\ sent' = sent
  BY DEF GovInv, Settled, UnchangedChain, RequestRecs
<1>2. CASE success
  <2>1. request' = [request EXCEPT ![c].pc = "ok"] /\ \E n \in Attempts : sent[c][n] = "applied"
    BY <1>1, <1>2 DEF Settled, Goes
  <2> QED
    BY <1>1, <2>1, RequestGoes
<1>3. CASE ~success
  <2> DEFINE pc == AfterError(request[c], hash, retryable)
  <2>1. request' = [request EXCEPT ![c].pc = pc]
    BY <1>3 DEF Settled, Goes
  <2>2. \/ pc = "error"
        \/ /\ pc = "landed?" /\ request[c].kind \in Staking /\ request[c].attempt < Resubmissions
        \/ /\ pc = "status" /\ request[c].kind \in Twice /\ request[c].attempt = 0
    BY DEF AfterError
  <2> HIDE DEF pc
  <2> QED
    BY <1>1, <2>1, <2>2, RequestGoes
<1> QED
  BY <1>2, <1>3

LEMMA ReadsInv ==
    ASSUME GovInv, NEW c \in Requests, NEW fails \in BOOLEAN,
           \/ CooldownRead(c, fails) \/ PositionRead(c, fails)
           \/ RewardsRead(c, fails) \/ ProposalRead(c, fails)
    PROVE  GovInv'
<1>1. RequestOK(request[c], sent[c], stakes) /\ block' = block /\ stakes' = stakes /\ sent' = sent
  BY DEF GovInv, CooldownRead, PositionRead, RewardsRead, ProposalRead, UnchangedChain
<1>2. CASE request' = [request EXCEPT ![c].pc = "error"] /\ request[c].pc # "idle"
  BY <1>1, <1>2, RequestGoes
<1>3. CASE CooldownRead(c, fails)
  <2>1. /\ request[c].pc = "cooldown"
        /\ \/ request' = [request EXCEPT ![c].pc = "error"]
           \/ request' = [request EXCEPT ![c].pc = "balance"]
    BY <1>3 DEF CooldownRead, Goes
  <2> QED
    BY <1>1, <1>2, <2>1, RequestGoes
<1>4. CASE PositionRead(c, fails)
  <2>1. /\ request[c].pc = "balance"
        /\ \/ request' = [request EXCEPT ![c].pc = "error"]
           \/ request' = [request EXCEPT ![c].pc = "before"] /\ request[c].kind = "unstake"
           \/ request' = [request EXCEPT ![c].pc = "submit"] /\ request[c].kind # "unstake"
    BY <1>4 DEF PositionRead, Goes
  <2>2. request[c].kind # "unstake" => request[c].kind \notin Staking
    BY <1>1, <2>1 DEF RequestOK, RequestStage, Staking
  <2> QED
    BY <1>1, <1>2, <2>1, <2>2, RequestGoes
<1>5. CASE RewardsRead(c, fails) \/ ProposalRead(c, fails)
  <2>1. /\ request[c].pc \in {"rewards", "exists"}
        /\ \/ request' = [request EXCEPT ![c].pc = "error"]
           \/ request' = [request EXCEPT ![c].pc = "submit"]
    BY <1>5 DEF RewardsRead, ProposalRead, Goes
  <2>2. request[c].kind \notin Staking
    BY <1>1, <2>1 DEF RequestOK, RequestStage, Staking
  <2> QED
    BY <1>1, <1>2, <2>1, <2>2, RequestGoes
<1> QED
  BY <1>3, <1>4, <1>5

LEMMA GovNextInv ==
    ASSUME GovInv, [GovNext]_govVars
    PROVE  GovInv'
<1>1. CASE NextBlock
  BY <1>1 DEF NextBlock, GovInv
<1>2. ASSUME NEW c \in Requests, NEW u \in Signers, NEW a \in StakeAmounts,
             Stake(c, u, a) \/ Unstake(c, u, a) \/ UnstakeAndWithdraw(c, u, a)
      PROVE  GovInv'
  <2>1. a \in Nat \ {0}
    BY GovAssumption
  <2> QED
    BY <1>2, <2>1, AskInv DEF Stake, Unstake, UnstakeAndWithdraw
<1>3. ASSUME NEW c \in Requests, NEW u \in Signers,
             ClaimRewards(c, u) \/ CreateProposal(c, u) \/ Undelegate(c, u)
      PROVE  GovInv'
  BY <1>3, AskInv DEF ClaimRewards, CreateProposal, Undelegate, Movers
<1>4. ASSUME NEW c \in Requests, NEW u \in Signers, NEW p \in 1..MaxProposals,
             CastVote(c, u, p) \/ CancelProposal(c, u, p) \/ ExecuteProposal(c, u, p)
      PROVE  GovInv'
  <2>1. p \in Nat \cup Signers \cup Delegates
    OBVIOUS
  <2> QED
    BY <1>4, <2>1, AskInv DEF CastVote, CancelProposal, ExecuteProposal, Movers
<1>5. ASSUME NEW c \in Requests, NEW u \in Signers, NEW v \in Delegates, Delegate(c, u, v)
      PROVE  GovInv'
  BY <1>5, AskInv DEF Delegate, Movers
<1>6. CASE UNCHANGED govVars
  BY <1>6 DEF govVars, GovInv
<1> QED
  BY <1>1, <1>2, <1>3, <1>4, <1>5, <1>6, ReadsInv, BeforeReadInv, CheckLandedInv, TxStatusReadInv,
     SubmitInv, TxLandsInv, TxVanishesInv, SettledInv DEF GovNext

(* When no other call moved the signer's stake meanwhile and no balance was  *)
(* read as zero because its read failed, a staking or governance call that   *)
(* returns has had its effect, and once, unless it was repeated while an     *)
(* earlier transaction of it was still on its way.                           *)
THEOREM CallsReturnTruth == MarketSpec => []ReturnedMeansDone
<1>1. MarketInit => GovInv
  BY GovInitInv DEF MarketInit
<1>2. GovInv /\ [MarketNext]_marketVars => GovInv'
  <2>1. [MarketNext]_marketVars => [GovNext]_govVars
    BY DEF MarketNext, marketVars
  <2> QED
    BY <2>1, GovNextInv
<1>3. GovInv => ReturnedMeansDone
  <2> SUFFICES ASSUME GovInv, NEW c \in Requests, Quiet(request[c])
               PROVE  LET done == {n \in Attempts : sent[c][n] = "applied"} IN
                      /\ request[c].pc = "ok" => done # {}
                      /\ Cardinality(done) > 1 => request[c].late
    BY DEF ReturnedMeansDone, Quiet
  <2> DEFINE done == {n \in Attempts : sent[c][n] = "applied"}
  <2>1. RequestOK(request[c], sent[c], stakes) /\ request[c].attempt \in Attempts
    BY DEF GovInv, RequestRecs
  <2>2. request[c].pc = "ok" => done # {}
    BY <2>1 DEF RequestOK
  <2>3. ASSUME ~request[c].late PROVE ~(Cardinality(done) > 1)
    <3>1. ASSUME NEW n \in done PROVE n = request[c].attempt
      <4>1. n \in Attempts /\ sent[c][n] = "applied"
        OBVIOUS
      <4>2. n < request[c].attempt \/ n = request[c].attempt \/ n > request[c].attempt
        BY <2>1, <4>1, GovAssumption DEF Attempts
      <4> QED
        BY <2>1, <2>3, <4>1, <4>2 DEF RequestOK, RequestStage, RepeatsDead
    <3>2. done \subseteq {request[c].attempt}
      BY <3>1
    <3>3. IsFiniteSet({request[c].attempt}) /\ Cardinality({request[c].attempt}) = 1
      BY FS_Singleton
    <3> HIDE DEF done
    <3>4. Cardinality(done) <= 1 /\ Cardinality(done) \in Nat
      BY <3>2, <3>3, FS_Subset, FS_CardinalityType
    <3> QED
      BY <3>4
  <2> QED
    BY <2>2, <2>3
<1> QED
  BY <1>1, <1>2, <1>3, PTL DEF MarketSpec

(* What orders, staking and governance report to the caller as done has      *)
(* taken effect on the ledger, for any number of calls that overlap.         *)
THEOREM ReportsAreTrue == MarketSpec => []ReportedIsDone
<1>1. CancelReportIsTrue /\ ReturnedMeansDone => ReportedIsDone
  BY DEF ReportedIsDone
<1> QED
  BY <1>1, CancelReports, CallsReturnTruth, PTL

-----------------------------------------------------------------------------
(* Loops over a Map. *)

SomeSeq(s) == \E S : s \in Seq(S)

LEMMA LeastNat ==
    ASSUME NEW S \in SUBSET Nat, S # {}
    PROVE  \E k \in S : \A j \in S : k <= j
<1>1. PICK k \in S : \A j \in S : ~(<<j, k>> \in OpToRel(<, Nat))
  BY NatLessThanWellFounded, WFMin, Zenon
<1>2. \A j \in S : ~(j < k)
  BY <1>1 DEF OpToRel
<1> QED
  BY <1>2

(* The first entry of a list that is in a set, when there is one. *)
LEMMA FirstOf ==
    ASSUME NEW s, SomeSeq(s), NEW D \in SUBSET (DOMAIN s), D # {}
    PROVE  LET k == CHOOSE k \in D : \A j \in D : k <= j IN
           k \in D /\ k \in 1..Len(s) /\ SomeSeq(SubSeq(s, k + 1, Len(s)))
<1> DEFINE k == CHOOSE k \in D : \A j \in D : k <= j
<1>1. PICK S : s \in Seq(S)
  BY DEF SomeSeq
<1>2. D \in SUBSET Nat /\ DOMAIN s = 1..Len(s) /\ Len(s) \in Nat
  BY <1>1
<1>3. \E x \in D : \A j \in D : x <= j
  BY <1>2, LeastNat
<1>4. k \in D
  BY <1>3
<1> HIDE DEF k
<1>5. k \in 1..Len(s)
  BY <1>2, <1>4
<1>6. SubSeq(s, k + 1, Len(s)) \in Seq(S)
  BY <1>1, <1>2, <1>5
<1> QED
  BY <1>4, <1>5, <1>6 DEF SomeSeq, k

LEMMA AppendIs ==
    ASSUME NEW s, SomeSeq(s), NEW x
    PROVE  SomeSeq(Append(s, x))
<1>1. PICK S : s \in Seq(S)
  BY DEF SomeSeq
<1>2. s \in Seq(S \cup {x})
  BY <1>1
<1>3. Append(s, x) \in Seq(S \cup {x})
  BY <1>2
<1> QED
  BY <1>3 DEF SomeSeq

LEMMA WithoutIs ==
    ASSUME NEW s, SomeSeq(s), NEW gone
    PROVE  SomeSeq(Without(s, gone))
<1> DEFINE kept == {k \in DOMAIN s : s[k] \notin gone}
           t == [n \in 1..Cardinality(kept) |-> s[Nth(kept, n)]]
<1>1. PICK S : s \in Seq(S)
  BY DEF SomeSeq
<1>2. DOMAIN s = 1..Len(s) /\ Len(s) \in Nat
  BY <1>1
<1>3. IsFiniteSet(1..Len(s)) /\ kept \subseteq 1..Len(s)
  BY <1>2, FS_Interval
<1>4. IsFiniteSet(kept)
  BY <1>3, FS_Subset
<1>5. Cardinality(kept) \in Nat
  BY <1>4, FS_CardinalityType
<1> HIDE DEF kept
<1>6. t \in [1..Cardinality(kept) -> {s[Nth(kept, n)] : n \in 1..Cardinality(kept)}]
  OBVIOUS
<1>7. t \in Seq({s[Nth(kept, n)] : n \in 1..Cardinality(kept)})
  <2> HIDE DEF t
  <2> QED
    BY <1>5, <1>6
<1>8. SomeSeq(t)
  BY <1>7 DEF SomeSeq
<1>9. Without(s, gone) = t
  BY DEF Without, Sublist, kept
<1> QED
  BY <1>8, <1>9

-----------------------------------------------------------------------------
(* Alerts: the rules of AlertsModule. *)

RuleRecs ==
    [status : {"active", "fired", "acknowledged", "resolved", "archived", "paused"},
     enabled : BOOLEAN, frequency : Frequencies, condition : Conditions,
     lastFiredAt : Nat, fireCount : Nat]

(* A rule, held by the map or by a loop that awaits its metric, knows the    *)
(* reports made of it.                                                       *)
RuleOK(r, at) ==
    /\ r \in RuleRecs
    /\ r.fireCount = Len(at)
    /\ Len(at) > 0 => r.lastFiredAt = at[Len(at)]
    /\ \A k \in 1..Len(at) : at[k] > 0
    /\ r.frequency = "once" => Len(at) <= 1
    /\ r.frequency = "interval" => \A k \in 1..(Len(at) - 1) : at[k + 1] - at[k] >= Cooldown

(* The loop awaits the metric of a rule that was due when it was read. *)
EvalOK(e, ids, ts) ==
    /\ \E t, i, r, s : e = [pc |-> "await", now |-> t, id |-> i, inst |-> r, left |-> s]
    /\ e.now \in Nat \ {0} /\ e.id \in ids /\ RuleOK(e.inst, ts[e.id])
    /\ ~Skipped(e.inst, e.now) /\ SomeSeq(e.left)

EachRuleOK(rs, ids, ts) == \A i \in Ids : rs[i] # None => i \in ids /\ RuleOK(rs[i], ts[i])

RulesInv ==
    /\ now \in Nat \ {0}
    /\ IsFiniteSet(used) /\ used = 1..Cardinality(used) /\ used \subseteq Ids
    /\ rules \in [Ids -> RuleRecs \cup {None}] /\ SomeSeq(ruleOrder)
    /\ reports \in [Ids -> Seq(Nat)]
    /\ EachRuleOK(rules, used, reports)
    /\ \A i \in Ids : i \notin used => reports[i] = <<>>
    /\ eval = Idle \/ EvalOK(eval, used, reports)

LEMMA RulesInitInv == AlertsInit => RulesInv
<1> SUFFICES ASSUME AlertsInit PROVE RulesInv
  OBVIOUS
<1>1. IsFiniteSet(used) /\ Cardinality(used) = 0 /\ used = 1..Cardinality(used)
  BY FS_EmptySet DEF AlertsInit
<1>2. SomeSeq(ruleOrder)
  <2>1. ruleOrder \in Seq({})
    BY DEF AlertsInit
  <2> QED
    BY <2>1 DEF SomeSeq
<1> QED
  BY <1>1, <1>2 DEF AlertsInit, RulesInv, EachRuleOK

(* The loop comes to a rule that is held, and due, or ends. *)
LEMMA AdvanceIs ==
    ASSUME NEW left, SomeSeq(left), NEW at \in Nat \ {0},
           NEW rs \in [Ids -> RuleRecs \cup {None}], NEW ids, NEW ts, EachRuleOK(rs, ids, ts)
    PROVE  Advance(left, at, rs) = Idle \/ EvalOK(Advance(left, at, rs), ids, ts)
<1> DEFINE due == {k \in DOMAIN left : left[k] \in Held(rs) /\ ~Skipped(rs[left[k]], at)}
           k == CHOOSE k \in due : \A j \in due : k <= j
           e == [pc |-> "await", now |-> at, id |-> left[k], inst |-> rs[left[k]],
                 left |-> SubSeq(left, k + 1, Len(left))]
<1>1. CASE due = {}
  BY <1>1 DEF Advance
<1>2. CASE due # {}
  <2>1. Advance(left, at, rs) = e
    BY <1>2 DEF Advance
  <2>2. k \in due /\ SomeSeq(SubSeq(left, k + 1, Len(left)))
    <3>1. due \in SUBSET (DOMAIN left)
      OBVIOUS
    <3> HIDE DEF due
    <3> QED
      BY <1>2, <3>1, FirstOf
  <2>3. left[k] \in Held(rs) /\ ~Skipped(rs[left[k]], at)
    BY <2>2
  <2> HIDE DEF due, k
  <2>4. left[k] \in ids /\ RuleOK(rs[left[k]], ts[left[k]])
    BY <2>3 DEF Held, EachRuleOK
  <2>5. e.now = at /\ e.id = left[k] /\ e.inst = rs[left[k]]
        /\ e.left = SubSeq(left, k + 1, Len(left))
    OBVIOUS
  <2>6. \E t, i, r, s : e = [pc |-> "await", now |-> t, id |-> i, inst |-> r, left |-> s]
    BY Zenon
  <2> HIDE DEF e
  <2>7. EvalOK(e, ids, ts)
    BY <2>2, <2>3, <2>4, <2>5, <2>6 DEF EvalOK
  <2> QED
    BY <2>1, <2>7
<1> QED
  BY <1>1, <1>2

(* A rule whose status or switch the application moves. *)
LEMMA RuleMoved ==
    ASSUME RulesInv, NEW id \in Ids, rules[id] # None, NEW r \in RuleRecs,
           r.frequency = rules[id].frequency, r.fireCount = rules[id].fireCount,
           r.lastFiredAt = rules[id].lastFiredAt, rules' = [rules EXCEPT ![id] = r],
           UNCHANGED <<now, ruleOrder, eval, reports, used>>
    PROVE  RulesInv'
<1>1. id \in used /\ RuleOK(r, reports[id])
  BY DEF RulesInv, EachRuleOK, RuleOK
<1>2. rules' \in [Ids -> RuleRecs \cup {None}] /\ EachRuleOK(rules', used, reports)
  BY <1>1 DEF RulesInv, EachRuleOK
<1> QED
  BY <1>2 DEF RulesInv

LEMMA CreateRuleInv ==
    ASSUME RulesInv, NEW id \in Ids, NEW f \in Frequencies, NEW c \in Conditions,
           CreateRule(id, f, c)
    PROVE  RulesInv'
<1> DEFINE n == Cardinality(used)
           r == [status |-> "active", enabled |-> TRUE, frequency |-> f, condition |-> c,
                 lastFiredAt |-> 0, fireCount |-> 0]
<1>1. n \in Nat /\ used = 1..n /\ id = n + 1 /\ used' = used \cup {id} /\ IsFiniteSet(used)
  BY FS_CardinalityType DEF RulesInv, CreateRule
<1>2. now' = now /\ reports' = reports /\ rules' = [rules EXCEPT ![id] = r]
      /\ ruleOrder' = Append(ruleOrder, id)
      /\ eval' = IF eval.pc = "idle" THEN eval ELSE [eval EXCEPT !.left = Append(@, id)]
  BY DEF CreateRule
<1>3. r \in RuleRecs /\ r.fireCount = 0
  <2>1. r \in RuleRecs
    BY Zenon DEF RuleRecs
  <2> QED
    BY <2>1
<1> HIDE DEF n, r
<1>4. id \notin used
  BY <1>1
<1>5. IsFiniteSet(used') /\ Cardinality(used') = n + 1
  BY <1>1, <1>4, FS_AddElement DEF n
<1>6. used' = 1..Cardinality(used') /\ used' \subseteq Ids
  BY <1>1, <1>5 DEF RulesInv
<1>7. reports[id] = <<>>
  BY <1>4 DEF RulesInv
<1>8. RuleOK(r, reports[id])
  BY <1>3, <1>7 DEF RuleOK
<1>9. rules' \in [Ids -> RuleRecs \cup {None}] /\ EachRuleOK(rules', used', reports)
  BY <1>1, <1>2, <1>3, <1>8 DEF RulesInv, EachRuleOK
<1>10. eval' = Idle \/ EvalOK(eval', used', reports)
  <2>1. CASE eval = Idle
    BY <1>2, <2>1 DEF Idle
  <2>2. CASE EvalOK(eval, used, reports)
    <3>7. PICK t, i, x, s : eval = [pc |-> "await", now |-> t, id |-> i, inst |-> x, left |-> s]
      BY <2>2 DEF EvalOK
    <3> DEFINE l == Append(s, id)
               e == [pc |-> "await", now |-> t, id |-> i, inst |-> x, left |-> l]
    <3>8. eval.pc = "await" /\ eval.left = s /\ eval.now = t /\ eval.id = i /\ eval.inst = x
      BY <3>7
    <3>1. eval' = e
      BY <1>2, <3>7
    <3>2. SomeSeq(l)
      BY <2>2, <3>8, AppendIs DEF EvalOK
    <3> HIDE DEF l
    <3>3. e.now = eval.now /\ e.id = eval.id /\ e.inst = eval.inst /\ e.left = l
      BY <3>8
    <3>4. \E a1, a2, a3, a4 : e = [pc |-> "await", now |-> a1, id |-> a2, inst |-> a3, left |-> a4]
      BY Zenon
    <3> HIDE DEF e
    <3>5. EvalOK(e, used', reports)
      BY <1>1, <2>2, <3>2, <3>3, <3>4 DEF EvalOK
    <3> QED
      BY <3>1, <3>5
  <2> QED
    BY <2>1, <2>2 DEF RulesInv
<1>11. SomeSeq(ruleOrder')
  BY <1>2, AppendIs DEF RulesInv
<1>12. \A i \in Ids : i \notin used' => reports'[i] = <<>>
  BY <1>1, <1>2 DEF RulesInv
<1> QED
  BY <1>2, <1>5, <1>6, <1>9, <1>10, <1>11, <1>12 DEF RulesInv

LEMMA CleanupInv ==
    ASSUME RulesInv, CleanupArchived
    PROVE  RulesInv'
<1>1. PICK gone : /\ rules' = [i \in Ids |-> IF i \in gone THEN None ELSE rules[i]]
                  /\ ruleOrder' = Without(ruleOrder, gone)
  BY DEF CleanupArchived
<1>2. UNCHANGED <<now, eval, reports, used>>
  BY DEF CleanupArchived
<1>3. SomeSeq(ruleOrder')
  BY <1>1, WithoutIs DEF RulesInv
<1>4. rules' \in [Ids -> RuleRecs \cup {None}] /\ EachRuleOK(rules', used, reports)
  BY <1>1 DEF RulesInv, EachRuleOK
<1> QED
  BY <1>2, <1>3, <1>4 DEF RulesInv

(* A report that is due keeps the promise on frequency. *)
LEMMA ReportAdded ==
    ASSUME NEW at \in Seq(Nat), NEW r, RuleOK(r, at), NEW t \in Nat \ {0}, ~Skipped(r, t),
           NEW u \in RuleRecs, u.frequency = r.frequency, u.lastFiredAt = t,
           u.fireCount = r.fireCount + 1
    PROVE  RuleOK(u, Append(at, t))
<1> DEFINE n == Len(at)
           b == Append(at, t)
<1>1. n \in Nat /\ Len(b) = n + 1 /\ b[n + 1] = t /\ \A k \in 1..n : b[k] = at[k]
  OBVIOUS
<1>2. r.fireCount = n /\ (n > 0 => r.lastFiredAt = at[n]) /\ (\A k \in 1..n : at[k] > 0)
  BY DEF RuleOK
<1>3. \A k \in 1..n : at[k] \in Nat
  OBVIOUS
<1> HIDE DEF b, n
<1>4. \A k \in 1..Len(b) : b[k] > 0
  BY <1>1, <1>2
<1>5. u.frequency = "once" => Len(b) <= 1
  BY <1>1, <1>2 DEF Skipped
<1>6. ASSUME u.frequency = "interval", NEW k \in 1..(Len(b) - 1)
      PROVE  b[k + 1] - b[k] >= Cooldown
  <2>1. CASE k = n
    <3>1. n > 0 /\ r.lastFiredAt = at[n] /\ at[n] # 0 /\ at[n] \in Nat
      BY <1>1, <1>2, <1>3, <1>6, <2>1
    <3>2. ~(t - at[n] < Cooldown)
      BY <1>6, <3>1 DEF Skipped
    <3>3. b[k + 1] = t /\ b[k] = at[n]
      BY <1>1, <2>1, <3>1
    <3> QED
      BY <3>1, <3>2, <3>3, AlertsAssumption
  <2>2. CASE k # n
    <3>1. k \in 1..(n - 1) /\ k \in 1..n /\ k + 1 \in 1..n
      BY <1>1, <1>6, <2>2
    <3>2. b[k] = at[k] /\ b[k + 1] = at[k + 1]
      BY <1>1, <3>1
    <3>3. at[k + 1] - at[k] >= Cooldown
      BY <1>6, <3>1 DEF RuleOK, n
    <3> QED
      BY <3>2, <3>3
  <2> QED
    BY <2>1, <2>2
<1>7. u.fireCount = Len(b) /\ u.lastFiredAt = b[Len(b)]
  BY <1>1, <1>2
<1>8. RuleOK(u, b)
  BY <1>4, <1>5, <1>6, <1>7 DEF RuleOK
<1> QED
  BY <1>8 DEF b

LEMMA EvaluatedInv ==
    ASSUME RulesInv, NEW v, Evaluated(v)
    PROVE  RulesInv'
<1> DEFINE r == eval.inst
           hit == Triggers(r.condition, Metric(r.condition, v))
           upd == IF hit THEN [r EXCEPT !.status = "fired", !.lastFiredAt = eval.now,
                                        !.fireCount = @ + 1]
                         ELSE r
           left == IF rules[eval.id] = None THEN Append(eval.left, eval.id) ELSE eval.left
           ts == IF hit THEN [reports EXCEPT ![eval.id] = Append(@, eval.now)] ELSE reports
<1>1. EvalOK(eval, used, reports)
  BY DEF RulesInv, Evaluated, Idle
<1>2. eval.id \in used /\ eval.id \in Ids /\ eval.now \in Nat \ {0} /\ r \in RuleRecs
      /\ RuleOK(r, reports[eval.id]) /\ ~Skipped(r, eval.now) /\ reports[eval.id] \in Seq(Nat)
  BY <1>1 DEF EvalOK, RuleOK, RulesInv
<1>3. rules' = [rules EXCEPT ![eval.id] = upd] /\ ruleOrder' = Inserted(ruleOrder, eval.id)
      /\ reports' = ts /\ eval' = Advance(left, eval.now, rules') /\ now' = now /\ used' = used
  BY DEF Evaluated
<1>4. upd \in RuleRecs /\ RuleOK(upd, ts[eval.id])
  <2>1. CASE hit
    <3> DEFINE m == r.fireCount + 1
               w == [r EXCEPT !.status = "fired", !.lastFiredAt = eval.now, !.fireCount = m]
    <3>1. upd = w /\ m \in Nat /\ eval.now \in Nat /\ r.fireCount \in Nat
      BY <1>2, <2>1 DEF RuleRecs
    <3>2. w.frequency = r.frequency /\ w.lastFiredAt = eval.now /\ w.fireCount = m
      BY <1>2, <3>1 DEF RuleRecs
    <3>3. w \in RuleRecs
      <4> HIDE DEF m
      <4> QED
        BY <1>2, <3>1, Zenon DEF RuleRecs
    <3>4. ts[eval.id] = Append(reports[eval.id], eval.now)
      BY <1>2, <2>1 DEF RulesInv
    <3> HIDE DEF w
    <3>5. RuleOK(w, Append(reports[eval.id], eval.now))
      BY <1>2, <3>2, <3>3, ReportAdded
    <3> QED
      BY <3>1, <3>3, <3>4, <3>5
  <2>2. CASE ~hit
    BY <1>2, <2>2
  <2> QED
    BY <2>1, <2>2
<1>5. ts \in [Ids -> Seq(Nat)] /\ \A i \in Ids : i # eval.id => ts[i] = reports[i]
  <2>1. Append(reports[eval.id], eval.now) \in Seq(Nat)
    BY <1>2
  <2> QED
    BY <1>2, <2>1 DEF RulesInv
<1>6. SomeSeq(left)
  BY <1>1, AppendIs DEF EvalOK
<1> HIDE DEF upd, ts, left, hit
<1>7. rules' \in [Ids -> RuleRecs \cup {None}] /\ EachRuleOK(rules', used, ts)
  <2>1. rules' \in [Ids -> RuleRecs \cup {None}]
        /\ \A i \in Ids : rules'[i] = IF i = eval.id THEN upd ELSE rules[i]
    BY <1>2, <1>3, <1>4 DEF RulesInv
  <2> QED
    BY <1>2, <1>4, <1>5, <2>1 DEF RulesInv, EachRuleOK
<1>8. eval' = Idle \/ EvalOK(eval', used, ts)
  BY <1>2, <1>3, <1>6, <1>7, AdvanceIs
<1>9. SomeSeq(ruleOrder')
  BY <1>3, AppendIs DEF Inserted, RulesInv
<1>10. \A i \in Ids : i \notin used => ts[i] = <<>>
  BY <1>2, <1>5 DEF RulesInv
<1> QED
  BY <1>3, <1>5, <1>7, <1>8, <1>9, <1>10 DEF RulesInv

LEMMA RulesNextInv ==
    ASSUME RulesInv, RulesNext
    PROVE  RulesInv'
<1>1. ASSUME NEW id \in Ids, NEW on \in BOOLEAN, UpdateRule(id, on) PROVE RulesInv'
  <2> DEFINE r == [rules[id] EXCEPT !.enabled = on, !.status = "active"]
  <2>1. rules[id] \in RuleRecs /\ rules[id] # None
    BY <1>1 DEF UpdateRule, RulesInv
  <2>2. r \in RuleRecs
    <3>1. "active" \in {"active", "fired", "acknowledged", "resolved", "archived", "paused"}
      OBVIOUS
    <3> QED
      BY <2>1, <3>1, Zenon DEF RuleRecs
  <2>3. r.frequency = rules[id].frequency /\ r.fireCount = rules[id].fireCount
        /\ r.lastFiredAt = rules[id].lastFiredAt
    BY <2>1 DEF RuleRecs
  <2>4. rules' = [rules EXCEPT ![id] = r] /\ UNCHANGED <<now, ruleOrder, eval, reports, used>>
    BY <1>1 DEF UpdateRule, RulesInv
  <2> HIDE DEF r
  <2> QED
    BY <2>1, <2>2, <2>3, <2>4, RuleMoved
<1>2. ASSUME NEW id \in Ids,
             NEW s \in {"acknowledged", "resolved", "archived", "paused", "active"},
             SetRuleStatus(id, s)
      PROVE  RulesInv'
  <2> DEFINE r == [rules[id] EXCEPT !.status = s]
  <2>1. rules[id] \in RuleRecs /\ rules[id] # None
    BY <1>2 DEF SetRuleStatus, RulesInv
  <2>2. r \in RuleRecs
    <3>1. s \in {"active", "fired", "acknowledged", "resolved", "archived", "paused"}
      OBVIOUS
    <3> QED
      BY <2>1, <3>1, Zenon DEF RuleRecs
  <2>3. r.frequency = rules[id].frequency /\ r.fireCount = rules[id].fireCount
        /\ r.lastFiredAt = rules[id].lastFiredAt
    BY <2>1 DEF RuleRecs
  <2>4. rules' = [rules EXCEPT ![id] = r] /\ UNCHANGED <<now, ruleOrder, eval, reports, used>>
    BY <1>2 DEF SetRuleStatus, RulesInv
  <2> HIDE DEF r
  <2> QED
    BY <2>1, <2>2, <2>3, <2>4, RuleMoved
<1>3. CASE EvaluateAll
  <2>1. eval' = Idle \/ EvalOK(eval', used, reports)
    BY <1>3, AdvanceIs DEF EvaluateAll, RulesInv
  <2> QED
    BY <1>3, <2>1 DEF EvaluateAll, RulesInv
<1>4. CASE Tick
  BY <1>4 DEF Tick, RulesInv
<1> QED
  BY <1>1, <1>2, <1>3, <1>4, CreateRuleInv, CleanupInv, EvaluatedInv DEF RulesNext

(* What is promised of a rule that the map holds. *)
LEMMA RulesSpaced == RulesInv => ReportsSpaced
BY DEF RulesInv, EachRuleOK, RuleOK, ReportsSpaced

-----------------------------------------------------------------------------
(* Alerts: AlertModule.alertsV2 and the calls that check it. *)

V2Recs ==
    [kind : {"price", "il", "health", "volume"}, direction : {"above", "below"},
     triggeredAt : BOOLEAN]

LEMMA DeletedIsNot == Deleted # None
<1>1. DOMAIN Deleted = {"deleted"} /\ DOMAIN None = {"none"}
  BY DEF Deleted, None
<1> QED
  BY <1>1

LEMMA V2RecIsNot ==
    ASSUME NEW a \in V2Recs
    PROVE  a # None
<1>1. DOMAIN a = {"kind", "direction", "triggeredAt"} /\ DOMAIN None = {"none"}
  BY DEF V2Recs, None
<1> QED
  BY <1>1

(* A call under way is about alerts that were created and that nobody had    *)
(* found when it began.                                                      *)
CheckOK(k, w) ==
    /\ \E b, t, y, r, p :
          k = [pc |-> "await", by |-> b, todo |-> t, copy |-> y, results |-> r, past |-> p]
    /\ k.todo \subseteq Ids /\ \A i \in k.todo : w[i] # None
    /\ k.todo \cap k.past = {} /\ k.results \cap k.past = {}

(* An alert that was found is marked, for as long as it is there. *)
FoundMarked(w, ids) ==
    \A i \in ids : w[i] # None /\ (w[i] # Deleted => w[i].triggeredAt)

V2Inv ==
    /\ v2 \in [Ids -> V2Recs \cup {None, Deleted}] /\ found \subseteq Ids
    /\ FoundMarked(v2, found)
    /\ check = [c \in Checks |-> check[c]]
    /\ \A c \in Checks : check[c] = Idle \/ CheckOK(check[c], v2)

LEMMA V2InitInv == AlertsInit => V2Inv
BY DEF AlertsInit, V2Inv, FoundMarked

(* Alerts come into being and are never uncreated. *)
LEMMA ChecksKept ==
    ASSUME NEW k, NEW w, NEW x, k = Idle \/ CheckOK(k, w),
           \A i \in Ids : w[i] # None => x[i] # None
    PROVE  k = Idle \/ CheckOK(k, x)
BY DEF CheckOK

(* One alert of the map changes and no call does. *)
LEMMA V2Moved ==
    ASSUME V2Inv, NEW id \in Ids, NEW a \in V2Recs \cup {Deleted}, id \notin found \/ a = Deleted,
           v2' = [v2 EXCEPT ![id] = a], UNCHANGED <<check, found>>
    PROVE  V2Inv'
<1>1. a # None
  BY DeletedIsNot, V2RecIsNot
<1>2. v2' \in [Ids -> V2Recs \cup {None, Deleted}]
      /\ \A i \in Ids : v2'[i] = IF i = id THEN a ELSE v2[i]
  BY DEF V2Inv
<1>3. FoundMarked(v2', found')
  BY <1>1, <1>2 DEF V2Inv, FoundMarked
<1>4. \A i \in Ids : v2[i] # None => v2'[i] # None
  BY <1>1, <1>2
<1>5. \A c \in Checks : check[c] = Idle \/ CheckOK(check[c], v2')
  BY <1>4, ChecksKept DEF V2Inv
<1> QED
  BY <1>2, <1>3, <1>5 DEF V2Inv

LEMMA CheckBeginsInv ==
    ASSUME V2Inv, NEW c \in Checks, NEW by, CheckAlerts(c, by)
    PROVE  V2Inv'
<1> DEFINE todo == {i \in Ids : v2[i] \notin {None, Deleted} /\ ~v2[i].triggeredAt}
           copy == [i \in todo |-> v2[i]]
           k == [pc |-> "await", by |-> by, todo |-> todo, copy |-> copy, results |-> {},
                 past |-> found]
<1>1. check' = [check EXCEPT ![c] = k] /\ UNCHANGED <<v2, found>>
  BY DEF CheckAlerts
<1>2. todo \subseteq Ids /\ (\A i \in todo : v2[i] # None) /\ todo \cap found = {}
  BY DEF V2Inv, FoundMarked
<1> HIDE DEF todo, copy
<1>3. k.todo = todo /\ k.results = {} /\ k.past = found
  OBVIOUS
<1>4. \E b, t, y, r, p :
         k = [pc |-> "await", by |-> b, todo |-> t, copy |-> y, results |-> r, past |-> p]
  BY Zenon
<1> HIDE DEF k
<1>5. CheckOK(k, v2)
  BY <1>2, <1>3, <1>4 DEF CheckOK
<1>6. check' = [d \in Checks |-> check'[d]]
      /\ \A d \in Checks : check'[d] = IF d = c THEN k ELSE check[d]
  BY <1>1 DEF V2Inv
<1> QED
  BY <1>1, <1>5, <1>6 DEF V2Inv

LEMMA CheckOverInv ==
    ASSUME V2Inv, NEW c \in Checks, check' = [check EXCEPT ![c] = Idle], UNCHANGED <<v2, found>>
    PROVE  V2Inv'
<1>1. check' = [d \in Checks |-> check'[d]]
      /\ \A d \in Checks : check'[d] = IF d = c THEN Idle ELSE check[d]
  BY DEF V2Inv
<1> QED
  BY <1>1 DEF V2Inv

(* An alert found by a call is marked in the map, unless it was deleted. *)
LEMMA AlertCheckedInv ==
    ASSUME V2Inv, NEW c \in Checks, NEW v, AlertChecked(c, v)
    PROVE  V2Inv'
<1> DEFINE k == check[c]
           id == Min(k.todo)
           hit == Met(k.copy[id], v)
           rest == k.todo \ {id}
           res == IF hit THEN k.results \cup {id} ELSE k.results
<1>1. k.todo # {} /\ CheckOK(k, v2)
  BY DEF AlertChecked, V2Inv, Idle
<1>2. /\ v2' = IF hit /\ v2[id] # Deleted THEN [v2 EXCEPT ![id].triggeredAt = TRUE] ELSE v2
      /\ found' = IF hit THEN found \cup {id} ELSE found
      /\ check' = [check EXCEPT ![c].todo = @ \ {id},
                                ![c].results = IF hit THEN @ \cup {id} ELSE @]
  BY DEF AlertChecked
<1>3. id \in k.todo
  <2>1. k.todo \in SUBSET Nat
    BY <1>1 DEF CheckOK, Ids
  <2> HIDE DEF k
  <2>2. \E x \in k.todo : \A y \in k.todo : x <= y
    BY <1>1, <2>1, LeastNat
  <2> QED
    BY <2>2, Zenon DEF Min
<1>4. id \in Ids /\ v2[id] # None /\ id \notin k.past
  BY <1>1, <1>3 DEF CheckOK
<1> HIDE DEF id, hit
<1>5. /\ v2' \in [Ids -> V2Recs \cup {None, Deleted}]
      /\ \A i \in Ids : i # id => v2'[i] = v2[i]
      /\ v2'[id] # None
      /\ hit => (v2'[id] # Deleted => v2'[id].triggeredAt)
      /\ (v2[id] # Deleted => v2[id].triggeredAt) => (v2'[id] # Deleted => v2'[id].triggeredAt)
  <2>1. CASE hit /\ v2[id] # Deleted
    <3> DEFINE a == [v2[id] EXCEPT !.triggeredAt = TRUE]
    <3>1. v2[id] \in V2Recs
      BY <1>4, <2>1 DEF V2Inv
    <3>2. a \in V2Recs
      BY <3>1, Zenon DEF V2Recs
    <3>3. a.triggeredAt = TRUE
      BY <3>1 DEF V2Recs
    <3>4. v2' = [v2 EXCEPT ![id] = a]
      BY <1>2, <2>1
    <3>5. a # None
      BY <3>2, V2RecIsNot
    <3> HIDE DEF a
    <3> QED
      BY <1>4, <3>2, <3>3, <3>4, <3>5 DEF V2Inv
  <2>2. CASE ~(hit /\ v2[id] # Deleted)
    BY <1>2, <1>4, <2>2 DEF V2Inv
  <2> QED
    BY <2>1, <2>2
<1>6. found' \subseteq Ids /\ FoundMarked(v2', found')
  BY <1>2, <1>4, <1>5 DEF V2Inv, FoundMarked
<1>7. \A i \in Ids : v2[i] # None => v2'[i] # None
  BY <1>5
<1>8. PICK b, t, y, r, p :
        k = [pc |-> "await", by |-> b, todo |-> t, copy |-> y, results |-> r, past |-> p]
  BY <1>1 DEF CheckOK
<1>9. k.todo = t /\ k.results = r /\ k.past = p
  BY <1>8
<1> DEFINE e == [pc |-> "await", by |-> b, todo |-> rest, copy |-> y, results |-> res, past |-> p]
<1>10. check' = [check EXCEPT ![c] = e]
  <2>1. [k EXCEPT !.todo = rest, !.results = res] = e
    <3> DEFINE m == [pc |-> "await", by |-> b, todo |-> rest, copy |-> y, results |-> r, past |-> p]
    <3> HIDE DEF k, rest, res
    <3>1. [k EXCEPT !.todo = rest] = m
      BY <1>8
    <3>2. [m EXCEPT !.results = res] = e
      OBVIOUS
    <3> HIDE DEF m, e
    <3>3. [k EXCEPT !.todo = rest, !.results = res] = [[k EXCEPT !.todo = rest] EXCEPT !.results = res]
      OBVIOUS
    <3> QED
      BY <3>1, <3>2, <3>3
  <2>2. check' = [check EXCEPT ![c] = [k EXCEPT !.todo = rest, !.results = res]]
    BY <1>2 DEF V2Inv
  <2> QED
    BY <2>1, <2>2
<1>11. e.todo = rest /\ e.results = res /\ e.past = p
  OBVIOUS
<1>12. \E b1, t1, y1, r1, p1 : e = [pc |-> "await", by |-> b1, todo |-> t1, copy |-> y1,
                                    results |-> r1, past |-> p1]
  BY Zenon
<1>13. rest \subseteq Ids /\ (\A i \in rest : v2'[i] # None) /\ rest \cap p = {} /\ res \cap p = {}
  <2>1. t \subseteq Ids /\ (\A i \in t : v2[i] # None) /\ t \cap p = {} /\ r \cap p = {}
        /\ id \notin p
    BY <1>1, <1>4, <1>9 DEF CheckOK
  <2>2. rest = t \ {id} /\ res = IF hit THEN r \cup {id} ELSE r
    BY <1>9
  <2> HIDE DEF rest, res, k
  <2> QED
    BY <1>7, <2>1, <2>2
<1> HIDE DEF e, rest, res
<1>14. CheckOK(e, v2')
  BY <1>11, <1>12, <1>13 DEF CheckOK
<1>15. check' = [d \in Checks |-> check'[d]]
       /\ \A d \in Checks : check'[d] = IF d = c THEN e ELSE check[d]
  BY <1>10 DEF V2Inv
<1>16. \A d \in Checks : check'[d] = Idle \/ CheckOK(check'[d], v2')
  <2>1. \A d \in Checks : check[d] = Idle \/ CheckOK(check[d], v2')
    BY <1>7, ChecksKept DEF V2Inv
  <2> QED
    BY <1>14, <1>15, <2>1
<1> QED
  BY <1>5, <1>6, <1>15, <1>16 DEF V2Inv

LEMMA V2NextInv ==
    ASSUME V2Inv, V2Next
    PROVE  V2Inv'
<1>1. ASSUME NEW id \in Ids, NEW k \in {"price", "il", "health", "volume"},
             NEW d \in {"above", "below"}, CreateV2(id, k, d)
      PROVE  V2Inv'
  <2> DEFINE a == [kind |-> k, direction |-> d, triggeredAt |-> FALSE]
  <2>1. a \in V2Recs
    BY Zenon DEF V2Recs
  <2>2. id \notin found /\ v2' = [v2 EXCEPT ![id] = a] /\ UNCHANGED <<check, found>>
    BY <1>1 DEF CreateV2, V2Inv, FoundMarked
  <2> HIDE DEF a
  <2> QED
    BY <2>1, <2>2, V2Moved
<1>2. ASSUME NEW id \in Ids, DeleteV2(id) PROVE V2Inv'
  BY <1>2, V2Moved DEF DeleteV2
<1>3. CASE StartPolling \/ StopPolling
  BY <1>3 DEF StartPolling, StopPolling, V2Inv
<1>4. ASSUME NEW c \in Checks, CheckEnds(c) \/ CheckThrows(c) PROVE V2Inv'
  BY <1>4, CheckOverInv DEF CheckEnds, CheckThrows
<1> QED
  BY <1>1, <1>2, <1>3, <1>4, CheckBeginsInv, AlertCheckedInv DEF V2Next

LEMMA V2FoundOnce == V2Inv => FoundOncePerOverlap
BY DEF V2Inv, CheckOK, FoundOncePerOverlap, Idle

-----------------------------------------------------------------------------
(* Alerts: AlertModule.thresholdPriceAlerts and its hysteresis. *)

ThrRecs ==
    [direction : {"above", "below"}, hasCrossedBack : BOOLEAN, last : Nat,
     status : {"active", "triggered"}]

LEMMA ThrRecIsNot ==
    ASSUME NEW a \in ThrRecs
    PROVE  a # None
<1>1. DOMAIN a = {"direction", "hasCrossedBack", "last", "status"} /\ DOMAIN None = {"none"}
  BY DEF ThrRecs, None
<1> QED
  BY <1>1

(* An alert that may trigger, or whose next observation makes it so, has     *)
(* seen a price on the other side since it last triggered.                   *)
ThrOK(a, seen) ==
    /\ a \in ThrRecs
    /\ a.hasCrossedBack => seen # "no"
    /\ a.last = 0 => seen # "no"

SweepOK(w, seen) ==
    /\ \E i, a, s : w = [pc |-> "await", id |-> i, inst |-> a, left |-> s]
    /\ w.id \in Ids /\ ThrOK(w.inst, seen[w.id]) /\ SomeSeq(w.left)

EachThrOK(t, seen) ==
    \A i \in Ids : /\ t[i] = None => seen[i] = "new"
                   /\ t[i] \notin {None, Deleted} => ThrOK(t[i], seen[i])

ThrInv ==
    /\ thr \in [Ids -> ThrRecs \cup {None, Deleted}] /\ SomeSeq(thrOrder)
    /\ rearmed \in [Ids -> {"new", "no", "yes"}]
    /\ EachThrOK(thr, rearmed)
    /\ sweep = Idle \/ SweepOK(sweep, rearmed)
    /\ early = FALSE

LEMMA ThrInitInv == AlertsInit => ThrInv
<1> SUFFICES ASSUME AlertsInit PROVE ThrInv
  OBVIOUS
<1>1. SomeSeq(thrOrder)
  <2>1. thrOrder \in Seq({})
    BY DEF AlertsInit
  <2> QED
    BY <2>1 DEF SomeSeq
<1> QED
  BY <1>1 DEF AlertsInit, ThrInv, EachThrOK

(* The loop comes to an alert that is held, or ends. *)
LEMMA SweepFromIs ==
    ASSUME NEW left, SomeSeq(left), NEW t \in [Ids -> ThrRecs \cup {None, Deleted}],
           NEW seen, EachThrOK(t, seen)
    PROVE  SweepFrom(left, t) = Idle \/ SweepOK(SweepFrom(left, t), seen)
<1> DEFINE held == {k \in DOMAIN left : left[k] \in Held(t)}
           k == CHOOSE k \in held : \A j \in held : k <= j
           w == [pc |-> "await", id |-> left[k], inst |-> t[left[k]],
                 left |-> SubSeq(left, k + 1, Len(left))]
<1>1. CASE held = {}
  BY <1>1 DEF SweepFrom
<1>2. CASE held # {}
  <2>1. SweepFrom(left, t) = w
    BY <1>2 DEF SweepFrom
  <2>2. k \in held /\ SomeSeq(SubSeq(left, k + 1, Len(left)))
    <3>1. held \in SUBSET (DOMAIN left)
      OBVIOUS
    <3> HIDE DEF held
    <3> QED
      BY <1>2, <3>1, FirstOf
  <2>3. left[k] \in Held(t)
    BY <2>2
  <2> HIDE DEF held, k
  <2>4. left[k] \in Ids /\ ThrOK(t[left[k]], seen[left[k]])
    BY <2>3 DEF Held, EachThrOK
  <2>5. w.id = left[k] /\ w.inst = t[left[k]] /\ w.left = SubSeq(left, k + 1, Len(left))
    OBVIOUS
  <2>6. \E i, a, s : w = [pc |-> "await", id |-> i, inst |-> a, left |-> s]
    BY Zenon
  <2> HIDE DEF w
  <2>7. SweepOK(w, seen)
    BY <2>2, <2>4, <2>5, <2>6 DEF SweepOK
  <2> QED
    BY <2>1, <2>7
<1> QED
  BY <1>1, <1>2

LEMMA CreateThresholdInv ==
    ASSUME ThrInv, NEW id \in Ids, NEW d \in {"above", "below"}, CreateThreshold(id, d)
    PROVE  ThrInv'
<1> DEFINE a == [direction |-> d, hasCrossedBack |-> TRUE, last |-> 0, status |-> "active"]
<1>1. thr[id] = None /\ thr' = [thr EXCEPT ![id] = a] /\ thrOrder' = Append(thrOrder, id)
      /\ sweep' = (IF sweep.pc = "idle" THEN sweep ELSE [sweep EXCEPT !.left = Append(@, id)])
      /\ UNCHANGED <<rearmed, early>>
  BY DEF CreateThreshold
<1>2. a \in ThrRecs
  BY Zenon DEF ThrRecs
<1> HIDE DEF a
<1>3. rearmed[id] = "new" /\ a # None /\ ThrOK(a, rearmed[id])
  BY <1>1, <1>2, ThrRecIsNot DEF ThrInv, EachThrOK, ThrOK
<1>4. thr' \in [Ids -> ThrRecs \cup {None, Deleted}]
      /\ \A i \in Ids : thr'[i] = IF i = id THEN a ELSE thr[i]
  BY <1>1, <1>2 DEF ThrInv
<1>5. EachThrOK(thr', rearmed)
  BY <1>3, <1>4 DEF ThrInv, EachThrOK
<1>6. sweep' = Idle \/ SweepOK(sweep', rearmed)
  <2>1. CASE sweep = Idle
    BY <1>1, <2>1 DEF Idle
  <2>2. CASE SweepOK(sweep, rearmed)
    <3>1. PICK i, x, s : sweep = [pc |-> "await", id |-> i, inst |-> x, left |-> s]
      BY <2>2 DEF SweepOK
    <3> DEFINE l == Append(s, id)
               w == [pc |-> "await", id |-> i, inst |-> x, left |-> l]
    <3>2. sweep.left = s /\ sweep.id = i /\ sweep.inst = x
      BY <3>1
    <3>3. sweep' = w
      BY <1>1, <3>1
    <3>4. SomeSeq(l)
      BY <2>2, <3>2, AppendIs DEF SweepOK
    <3> HIDE DEF l
    <3>5. w.id = sweep.id /\ w.inst = sweep.inst /\ w.left = l
      BY <3>2
    <3>6. \E a1, a2, a3 : w = [pc |-> "await", id |-> a1, inst |-> a2, left |-> a3]
      BY Zenon
    <3> HIDE DEF w
    <3>7. SweepOK(w, rearmed)
      BY <2>2, <3>4, <3>5, <3>6 DEF SweepOK
    <3> QED
      BY <3>3, <3>7
  <2> QED
    BY <2>1, <2>2 DEF ThrInv
<1>7. SomeSeq(thrOrder')
  BY <1>1, AppendIs DEF ThrInv
<1> QED
  BY <1>1, <1>4, <1>5, <1>6, <1>7 DEF ThrInv

LEMMA DeleteThresholdInv ==
    ASSUME ThrInv, NEW id \in Ids, DeleteThreshold(id)
    PROVE  ThrInv'
<1>1. thr' = [thr EXCEPT ![id] = Deleted] /\ thrOrder' = Without(thrOrder, {id})
      /\ UNCHANGED <<sweep, rearmed, early>>
  BY DEF DeleteThreshold
<1>2. SomeSeq(thrOrder')
  BY <1>1, WithoutIs DEF ThrInv
<1>3. thr' \in [Ids -> ThrRecs \cup {None, Deleted}] /\ EachThrOK(thr', rearmed)
  BY <1>1, DeletedIsNot DEF ThrInv, EachThrOK
<1> QED
  BY <1>1, <1>2, <1>3 DEF ThrInv

(* What one observation makes of an alert. *)
LEMMA ObservedOK ==
    ASSUME NEW seen \in {"new", "no", "yes"}, NEW a, ThrOK(a, seen), NEW v \in Prices
    PROVE  LET hit == a.status = "active" /\ evaluateThresholdCondition(a, v)
               back == checkCrossBack(a, v)
               upd == [a EXCEPT !.last = v, !.hasCrossedBack = ~hit /\ back,
                         !.status = IF hit THEN "triggered" ELSE IF back THEN "active" ELSE @]
           IN  /\ hit => seen # "no"
               /\ ThrOK(upd, IF hit THEN "no" ELSE IF Beyond(a.direction, v) THEN seen ELSE "yes")
<1> DEFINE hit == a.status = "active" /\ evaluateThresholdCondition(a, v)
           back == checkCrossBack(a, v)
           armed == ~hit /\ back
           st == IF hit THEN "triggered" ELSE IF back THEN "active" ELSE a.status
           upd == [a EXCEPT !.last = v, !.hasCrossedBack = armed, !.status = st]
           next == IF hit THEN "no" ELSE IF Beyond(a.direction, v) THEN seen ELSE "yes"
<1>1. a \in ThrRecs /\ v \in Nat /\ v # 0
  BY AlertsAssumption DEF ThrOK
<1>2. hit => seen # "no"
  BY DEF evaluateThresholdCondition, ThrOK
<1>3. armed => next # "no"
  BY DEF checkCrossBack, ThrOK
<1>4. st \in {"active", "triggered"} /\ armed \in BOOLEAN
  BY <1>1 DEF ThrRecs
<1> HIDE DEF armed, st
<1>5. upd \in ThrRecs
  BY <1>1, <1>4, Zenon DEF ThrRecs
<1>6. upd.hasCrossedBack = armed /\ upd.last = v
  BY <1>1 DEF ThrRecs
<1> HIDE DEF upd, next
<1>7. ThrOK(upd, next)
  BY <1>1, <1>3, <1>5, <1>6 DEF ThrOK
<1> QED
  BY <1>2, <1>7 DEF upd, next, armed, st

LEMMA ThresholdCheckedInv ==
    ASSUME ThrInv, NEW v \in Prices, ThresholdChecked(v)
    PROVE  ThrInv'
<1> DEFINE a == sweep.inst
           id == sweep.id
           hit == a.status = "active" /\ evaluateThresholdCondition(a, v)
           back == checkCrossBack(a, v)
           upd == [a EXCEPT !.last = v, !.hasCrossedBack = ~hit /\ back,
                     !.status = IF hit THEN "triggered" ELSE IF back THEN "active" ELSE @]
           left == IF thr[id] = Deleted THEN Append(sweep.left, id) ELSE sweep.left
           next == IF hit THEN "no" ELSE IF Beyond(a.direction, v) THEN rearmed[id] ELSE "yes"
<1>1. /\ sweep.pc = "await"
      /\ thr' = [thr EXCEPT ![id] = upd]
      /\ thrOrder' = Inserted(thrOrder, id)
      /\ sweep' = SweepFrom(left, thr')
      /\ rearmed' = [rearmed EXCEPT ![id] = next]
      /\ early' = (early \/ (hit /\ rearmed[id] = "no"))
  BY DEF ThresholdChecked
<1>2. SweepOK(sweep, rearmed)
  BY <1>1 DEF ThrInv, Idle
<1>3. id \in Ids /\ ThrOK(a, rearmed[id]) /\ SomeSeq(sweep.left)
      /\ rearmed[id] \in {"new", "no", "yes"}
  BY <1>2 DEF SweepOK, ThrInv
<1>4. (hit => rearmed[id] # "no") /\ ThrOK(upd, next)
  BY <1>3, ObservedOK
<1>5. next \in {"new", "no", "yes"}
  BY <1>3
<1>6. SomeSeq(left)
  BY <1>3, AppendIs
<1> HIDE DEF a, id, hit, back, upd, left, next
<1>7. upd \in ThrRecs /\ upd # None
  BY <1>4, ThrRecIsNot DEF ThrOK
<1>8. thr' \in [Ids -> ThrRecs \cup {None, Deleted}] /\ rearmed' \in [Ids -> {"new", "no", "yes"}]
      /\ (\A i \in Ids : thr'[i] = IF i = id THEN upd ELSE thr[i])
      /\ (\A i \in Ids : rearmed'[i] = IF i = id THEN next ELSE rearmed[i])
  BY <1>1, <1>3, <1>5, <1>7 DEF ThrInv
<1>9. EachThrOK(thr', rearmed')
  BY <1>4, <1>7, <1>8 DEF ThrInv, EachThrOK
<1>10. sweep' = Idle \/ SweepOK(sweep', rearmed')
  BY <1>1, <1>6, <1>8, <1>9, SweepFromIs
<1>11. SomeSeq(thrOrder')
  BY <1>1, AppendIs DEF Inserted, ThrInv
<1>12. early' = FALSE
  BY <1>1, <1>4 DEF ThrInv
<1> QED
  BY <1>8, <1>9, <1>10, <1>11, <1>12 DEF ThrInv

LEMMA ThrNextInv ==
    ASSUME ThrInv, ThresholdNext
    PROVE  ThrInv'
<1>1. CASE CheckThresholds
  BY <1>1, SweepFromIs DEF CheckThresholds, ThrInv
<1>2. CASE ThresholdUnreadable
  <2>1. SweepOK(sweep, rearmed)
    BY <1>2 DEF ThresholdUnreadable, ThrInv, Idle
  <2>2. sweep' = Idle \/ SweepOK(sweep', rearmed)
    BY <1>2, <2>1, SweepFromIs DEF ThresholdUnreadable, SweepOK, ThrInv
  <2> QED
    BY <1>2, <2>2 DEF ThresholdUnreadable, ThrInv
<1> QED
  BY <1>1, <1>2, CreateThresholdInv, DeleteThresholdInv, ThresholdCheckedInv DEF ThresholdNext

(* No mechanism of alerts.ts reports the same thing twice, whatever the      *)
(* application creates, moves, cleans up or deletes while a price is         *)
(* awaited: the frequency of a rule, the once per overlap of checkAlerts     *)
(* and the hysteresis of a threshold all hold.                               *)
THEOREM AlertsNeverRepeat == MarketSpec => []NoRepeatedAlert
<1> DEFINE Inv == RulesInv /\ V2Inv /\ ThrInv
<1>1. MarketInit => Inv
  BY RulesInitInv, V2InitInv, ThrInitInv DEF MarketInit
<1>2. Inv /\ [MarketNext]_marketVars => Inv'
  <2> SUFFICES ASSUME Inv, [MarketNext]_marketVars PROVE Inv'
    OBVIOUS
  <2>1. RulesInv'
    <3>1. RulesNext \/ UNCHANGED rulesVars
      BY DEF MarketNext, AlertsPart, marketVars, alertsVars
    <3>2. CASE UNCHANGED rulesVars
      BY <3>2 DEF rulesVars, RulesInv
    <3> QED
      BY <3>1, <3>2, RulesNextInv
  <2>2. V2Inv'
    <3>1. V2Next \/ UNCHANGED v2Vars
      BY DEF MarketNext, AlertsPart, marketVars, alertsVars
    <3>2. CASE UNCHANGED v2Vars
      BY <3>2 DEF v2Vars, V2Inv
    <3> QED
      BY <3>1, <3>2, V2NextInv
  <2>3. ThrInv'
    <3>1. ThresholdNext \/ UNCHANGED thrVars
      BY DEF MarketNext, AlertsPart, marketVars, alertsVars
    <3>2. CASE UNCHANGED thrVars
      BY <3>2 DEF thrVars, ThrInv
    <3> QED
      BY <3>1, <3>2, ThrNextInv
  <2> QED
    BY <2>1, <2>2, <2>3
<1>3. Inv => NoRepeatedAlert
  BY RulesSpaced, V2FoundOnce DEF ThrInv, RetriggerNeedsReturn, NoRepeatedAlert
<1> QED
  BY <1>1, <1>2, <1>3, PTL DEF MarketSpec

-----------------------------------------------------------------------------
(* Oracle: what pruning keeps.  The sums of the accumulator play no part in  *)
(* this, so an observation is typed by its time alone.                       *)

Timed(s) == \E S : s \in Seq(S) /\ \A o \in S : o.at \in Nat

OracleInv ==
    /\ \E S : spot \in Seq(S)
    /\ Timed(obs)
    /\ DOMAIN reader = Readers
    /\ \A c \in Readers : reader[c].pc = "answer" => reader[c].read.at \in Nat

LEMMA TimedAppend ==
    ASSUME NEW s, Timed(s), NEW o, o.at \in Nat
    PROVE  Timed(Append(s, o)) /\ Len(Append(s, o)) = Len(s) + 1 /\ Len(s) \in Nat
           /\ Append(s, o)[Len(s) + 1] = o /\ (\A k \in 1..Len(s) : Append(s, o)[k] = s[k])
<1>1. PICK S : s \in Seq(S) /\ \A x \in S : x.at \in Nat
  BY DEF Timed
<1>2. s \in Seq(S \cup {o})
  BY <1>1
<1>3. Append(s, o) \in Seq(S \cup {o})
  BY <1>2
<1>4. \A x \in S \cup {o} : x.at \in Nat
  BY <1>1
<1>5. Timed(Append(s, o))
  BY <1>3, <1>4 DEF Timed
<1> QED
  BY <1>2, <1>5

LEMMA TimedSubSeq ==
    ASSUME NEW s, Timed(s), NEW k \in 1..Len(s)
    PROVE  /\ Timed(SubSeq(s, k, Len(s))) /\ Len(SubSeq(s, k, Len(s))) = Len(s) - k + 1
           /\ SubSeq(s, k, Len(s)) # <<>>
           /\ SubSeq(s, k, Len(s))[1] = s[k]
           /\ SubSeq(s, k, Len(s))[Len(s) - k + 1] = s[Len(s)]
           /\ \A i \in 1..Len(SubSeq(s, k, Len(s))) : \E j \in 1..Len(s) : SubSeq(s, k, Len(s))[i] = s[j]
<1>1. PICK S : s \in Seq(S) /\ \A x \in S : x.at \in Nat
  BY DEF Timed
<1>2. SubSeq(s, k, Len(s)) \in Seq(S)
  BY <1>1
<1>3. Timed(SubSeq(s, k, Len(s)))
  BY <1>1, <1>2 DEF Timed
<1>4. Len(s) \in Nat /\ Len(SubSeq(s, k, Len(s))) = Len(s) - k + 1
  BY <1>1
<1>5. Len(s) - k + 1 \in 1..(Len(s) - k + 1) /\ 1 \in 1..(Len(s) - k + 1)
      /\ k + 1 - 1 = k /\ k + (Len(s) - k + 1) - 1 = Len(s)
  <2> DEFINE n == Len(s)
  <2>1. n \in Nat /\ k \in 1..n
    BY <1>4
  <2> HIDE DEF n
  <2>2. n - k + 1 \in 1..(n - k + 1) /\ 1 \in 1..(n - k + 1)
    BY <2>1
  <2>3. k + 1 - 1 = k /\ k + (n - k + 1) - 1 = n
    BY <2>1
  <2> QED
    BY <2>2, <2>3 DEF n
<1>6. \A i \in 1..(Len(s) - k + 1) : SubSeq(s, k, Len(s))[i] = s[k + i - 1]
  BY <1>1
<1>7. SubSeq(s, k, Len(s)) # <<>>
  <2> DEFINE b == SubSeq(s, k, Len(s))
  <2>1. Len(b) # 0
    BY <1>4
  <2> HIDE DEF b
  <2>2. b # <<>>
    BY <2>1
  <2> QED
    BY <2>2 DEF b
<1>8. \A i \in 1..Len(SubSeq(s, k, Len(s))) : \E j \in 1..Len(s) : SubSeq(s, k, Len(s))[i] = s[j]
  <2>1. \A i \in 1..(Len(s) - k + 1) : k + i - 1 \in 1..Len(s)
    BY <1>4
  <2> QED
    BY <1>4, <1>6, <2>1
<1> QED
  BY <1>3, <1>4, <1>5, <1>6, <1>7, <1>8

(* Pass 1 stops somewhere, at an entry that still spans the window or at    *)
(* the front; what is left was there.                                       *)
LEMMA PrunedFrom ==
    ASSUME NEW s, Timed(s), s # <<>>
    PROVE  \E k \in 1..Len(s) :
              /\ k = 1 \/ s[Len(s)].at >= s[k].at + MinWindow
              /\ Timed(Pruned(s))
              /\ Len(s) <= MaxObservations => Pruned(s) = SubSeq(s, k, Len(s))
              /\ Pruned(s) # <<>>
              /\ \A i \in 1..Len(Pruned(s)) : \E j \in 1..Len(s) : Pruned(s)[i] = s[j]
<1> DEFINE n == Len(s)
           newest == Last(s).at
           Spans(k) == newest >= s[k].at + MinWindow
           keep == CHOOSE k \in DOMAIN s : /\ \A j \in 2..k : Spans(j)
                                           /\ k = n \/ ~Spans(k + 1)
           covered == SubSeq(s, keep, n)
<1>1. n \in Nat \ {0} /\ DOMAIN s = 1..n
  BY DEF Timed
<1>2. newest = s[n].at
  BY DEF Last
<1>3. keep \in 1..n /\ \A j \in 2..keep : Spans(j)
  <2> DEFINE E == {k \in 1..n : k = n \/ ~Spans(k + 1)}
  <2> HIDE DEF Spans, n
  <2>1. E \in SUBSET Nat /\ E # {}
    BY <1>1
  <2>2. PICK e \in E : \A j \in E : e <= j
    <3> HIDE DEF E
    <3> QED
      BY <2>1, LeastNat
  <2>3. e \in 1..n /\ (e = n \/ ~Spans(e + 1))
    OBVIOUS
  <2>4. ASSUME NEW j \in 2..e PROVE Spans(j)
    <3>1. j - 1 \in 1..n /\ j = (j - 1) + 1 /\ ~(e <= j - 1)
      BY <1>1, <2>3
    <3>2. j - 1 \notin E
      BY <2>2, <3>1
    <3> QED
      BY <3>1, <3>2
  <2>5. \E k \in DOMAIN s : (\A j \in 2..k : Spans(j)) /\ (k = n \/ ~Spans(k + 1))
    BY <1>1, <2>3, <2>4
  <2> QED
    BY <1>1, <2>5
<1>4. keep \in 1..n
  BY <1>3
<1>5. keep = 1 \/ s[n].at >= s[keep].at + MinWindow
  <2>1. keep # 1 => Spans(keep)
    <3> HIDE DEF keep, Spans, n
    <3>1. keep # 1 => keep \in 2..keep
      BY <1>1, <1>4
    <3> QED
      BY <1>3, <3>1
  <2> QED
    BY <1>2, <2>1
<1>6. Pruned(s) = IF Len(covered) > MaxObservations
                  THEN SubSeq(covered, Len(covered) - MaxObservations + 1, Len(covered))
                  ELSE covered
  BY DEF Pruned
<1> HIDE DEF keep, Spans, newest
<1>7. /\ Timed(covered) /\ Len(covered) = n - keep + 1 /\ covered # <<>>
      /\ \A i \in 1..Len(covered) : \E j \in 1..n : covered[i] = s[j]
  BY <1>4, TimedSubSeq
<1> HIDE DEF covered, n
<1>8. Len(covered) \in Nat /\ Len(covered) <= n /\ MaxObservations \in Nat \ {0}
  BY <1>1, <1>4, <1>7, OracleAssumption
<1>9. /\ Timed(Pruned(s)) /\ Pruned(s) # <<>>
      /\ \A i \in 1..Len(Pruned(s)) : \E j \in 1..n : Pruned(s)[i] = s[j]
  <2>1. CASE Len(covered) > MaxObservations
    <3> DEFINE m == Len(covered) - MaxObservations + 1
               rest == SubSeq(covered, m, Len(covered))
    <3>1. m \in 1..Len(covered)
      BY <1>8, <2>1
    <3>2. Pruned(s) = rest
      BY <1>6, <2>1
    <3> HIDE DEF m
    <3>3. /\ Timed(rest) /\ rest # <<>>
          /\ \A i \in 1..Len(rest) : \E j \in 1..Len(covered) : rest[i] = covered[j]
      BY <1>7, <3>1, TimedSubSeq
    <3> HIDE DEF rest
    <3>4. \A i \in 1..Len(rest) : \E j \in 1..n : rest[i] = s[j]
      BY <1>7, <3>3
    <3> QED
      BY <3>2, <3>3, <3>4
  <2> QED
    BY <1>6, <1>7, <2>1
<1>10. n <= MaxObservations => Pruned(s) = covered
  <2>1. n <= MaxObservations => ~(Len(covered) > MaxObservations)
    BY <1>1, <1>8
  <2> QED
    BY <1>6, <2>1
<1> QED
  BY <1>4, <1>5, <1>9, <1>10 DEF n, covered

LEMMA OracleInitInv == OracleInit => OracleInv
<1> SUFFICES ASSUME OracleInit PROVE OracleInv
  OBVIOUS
<1>1. spot \in Seq({}) /\ obs \in Seq({})
  BY DEF OracleInit
<1>2. Timed(obs) /\ \E S : spot \in Seq(S)
  BY <1>1 DEF Timed
<1>3. DOMAIN reader = Readers /\ \A c \in Readers : reader[c].pc # "answer"
  BY DEF OracleInit, AtRest
<1> QED
  BY <1>2, <1>3 DEF OracleInv

LEMMA OracleNextInv == OracleInv /\ [OracleNext]_oracleVars => OracleInv'
<1> SUFFICES ASSUME OracleInv, [OracleNext]_oracleVars PROVE OracleInv'
  OBVIOUS
<1>0. Len(spot) \in Nat
  BY DEF OracleInv
<1>1. ASSUME NEW p \in SpotPrices, SecondPasses(p) PROVE OracleInv'
  <2>1. PICK S : spot \in Seq(S)
    BY DEF OracleInv
  <2>2. spot \in Seq(S \cup {p})
    BY <2>1
  <2>3. spot' \in Seq(S \cup {p})
    BY <1>1, <2>2 DEF SecondPasses
  <2> QED
    BY <1>1, <2>3 DEF SecondPasses, OracleInv
<1>2. ASSUME NEW c \in Readers, NEW twap, ReadAccumulator(c, twap) PROVE OracleInv'
  <2>1. Observation.at \in Nat
    BY <1>0 DEF Observation, time
  <2> DEFINE k == [pc |-> "answer", twap |-> twap, read |-> Observation]
  <2>2. k.read = Observation
    OBVIOUS
  <2>3. reader' = [reader EXCEPT ![c] = k] /\ UNCHANGED <<spot, obs>>
    BY <1>2 DEF ReadAccumulator
  <2> HIDE DEF k
  <2> QED
    BY <2>1, <2>2, <2>3 DEF OracleInv
<1>3. ASSUME NEW c \in Readers, NEW k, k.pc # "answer", reader' = [reader EXCEPT ![c] = k],
             UNCHANGED spot, Timed(obs')
      PROVE  OracleInv'
  BY <1>3 DEF OracleInv
<1>4. ASSUME NEW c \in Readers, ReadFails(c) \/ Return(c) PROVE OracleInv'
  BY <1>3, <1>4 DEF ReadFails, Return, AtRest, OracleInv
<1>5. ASSUME NEW c \in Readers, Answer(c) PROVE OracleInv'
  BY <1>3, <1>5 DEF Answer, OracleInv
<1>6. ASSUME NEW c \in Readers, Observe(c) PROVE OracleInv'
  <2>1. reader[c].read.at \in Nat /\ Timed(obs)
    BY <1>6 DEF Observe, OracleInv
  <2>2. Timed(Append(obs, reader[c].read)) /\ Append(obs, reader[c].read) # <<>>
    BY <2>1, TimedAppend, SMTT(60)
  <2>3. Timed(obs')
    BY <1>6, <2>2, PrunedFrom DEF Observe
  <2>4. PICK k : reader' = [reader EXCEPT ![c] = k] /\ k.pc # "answer"
    <3>1. PICK x, y, wide : reader' = [reader EXCEPT ![c] =
             IF wide THEN [pc |-> "tokens", start |-> x, end |-> y] ELSE AtRest]
      BY <1>6, Zenon DEF Observe
    <3>2. (IF wide THEN [pc |-> "tokens", start |-> x, end |-> y] ELSE AtRest).pc # "answer"
      BY DEF AtRest
    <3> QED
      BY <3>1, <3>2, Zenon
  <2> QED
    BY <1>3, <1>6, <2>3, <2>4 DEF Observe
<1>7. CASE ClearCache
  <2>1. obs' \in Seq({})
    BY <1>7 DEF ClearCache
  <2>2. Timed(obs')
    BY <2>1 DEF Timed
  <2> QED
    BY <1>7, <2>2 DEF ClearCache, OracleInv
<1>8. CASE UNCHANGED oracleVars
  BY <1>8 DEF oracleVars, OracleInv
<1> QED
  BY <1>1, <1>2, <1>4, <1>5, <1>6, <1>7, <1>8 DEF OracleNext

(* observe() and getTWAP() never prune the window away (oracle.ts:118-150), *)
(* for any window and cap and whatever order overlapping reads push in.     *)
THEOREM WindowIsKept == MarketSpec => WindowKept
<1> DEFINE Kept == \A c \in Readers :
              Observe(c) /\ Len(obs) < MaxObservations /\ obs # <<>>
                /\ reader[c].read.at >= obs[1].at + MinWindow
              => Last(obs').at >= obs'[1].at + MinWindow
<1>1. MarketInit => OracleInv
  BY OracleInitInv DEF MarketInit
<1>2. OracleInv /\ [MarketNext]_marketVars => OracleInv'
  <2>1. [MarketNext]_marketVars => [OracleNext]_oracleVars
    BY DEF MarketNext, marketVars
  <2> QED
    BY <2>1, OracleNextInv
<1>3. OracleInv => Kept
  <2> SUFFICES ASSUME OracleInv, NEW c \in Readers, Observe(c), Len(obs) < MaxObservations,
                      obs # <<>>, reader[c].read.at >= obs[1].at + MinWindow
               PROVE  Last(obs').at >= obs'[1].at + MinWindow
    OBVIOUS
  <2> DEFINE s == Append(obs, reader[c].read)
  <2>1. reader[c].read.at \in Nat /\ Timed(obs) /\ Len(obs) \in Nat /\ Len(obs) > 0
        /\ obs[1].at \in Nat
    BY DEF Observe, OracleInv, Timed
  <2>2. Timed(s) /\ Len(s) = Len(obs) + 1 /\ s[Len(s)] = reader[c].read /\ s[1] = obs[1]
        /\ s # <<>>
    <3>1. Timed(s) /\ Len(s) = Len(obs) + 1 /\ s[Len(obs) + 1] = reader[c].read
          /\ \A i \in 1..Len(obs) : s[i] = obs[i]
      BY <2>1, TimedAppend, SMTT(60)
    <3> HIDE DEF s
    <3>2. 1 \in 1..Len(obs) /\ Len(s) # 0
      BY <2>1, <3>1
    <3> QED
      BY <3>1, <3>2
  <2>3. obs' = Pruned(s)
    BY DEF Observe
  <2> HIDE DEF s
  <2>4. Len(s) <= MaxObservations
    BY <2>1, <2>2, OracleAssumption
  <2>5. PICK k \in 1..Len(s) : /\ k = 1 \/ s[Len(s)].at >= s[k].at + MinWindow
                               /\ Pruned(s) = SubSeq(s, k, Len(s))
    BY <2>2, <2>4, PrunedFrom
  <2>6. obs'[1] = s[k] /\ Len(obs') = Len(s) - k + 1 /\ obs'[Len(s) - k + 1] = s[Len(s)]
    BY <2>2, <2>3, <2>5, TimedSubSeq
  <2>7. Last(obs') = s[Len(s)]
    BY <2>6 DEF Last
  <2>8. s[Len(s)].at >= s[k].at + MinWindow
    BY <2>2, <2>5
  <2> QED
    BY <2>6, <2>7, <2>8
<1>4. OracleInv /\ [MarketNext]_marketVars => [Kept]_oracleVars
  BY <1>3
<1> QED
  BY <1>1, <1>2, <1>4, PTL DEF MarketSpec, WindowKept

-----------------------------------------------------------------------------
(* Sublists. *)

(* How many positions of a set are at or before a place. *)
Rank(kept, k) == Cardinality({j \in kept : j <= k})

LEMMA RankStep ==
    ASSUME NEW n \in Nat, NEW kept, \A e \in kept : e \in 1..n, NEW k \in Nat
    PROVE  Rank(kept, k) \in Nat
           /\ Rank(kept, k + 1) = Rank(kept, k) + IF k + 1 \in kept THEN 1 ELSE 0
<1> DEFINE To(m) == {j \in kept : j <= m}
<1>1. IsFiniteSet(To(k)) /\ Cardinality(To(k)) \in Nat
  <2>1. IsFiniteSet(1..n) /\ To(k) \subseteq 1..n
    BY FS_Interval
  <2>2. IsFiniteSet(To(k))
    BY <2>1, FS_Subset
  <2> QED
    BY <2>2, FS_CardinalityType
<1>2. CASE k + 1 \in kept
  <2>1. To(k + 1) = To(k) \cup {k + 1} /\ k + 1 \notin To(k)
    BY <1>2
  <2>2. IsFiniteSet(To(k))
    BY <1>1
  <2> HIDE DEF To
  <2>3. Cardinality(To(k) \cup {k + 1}) = Cardinality(To(k)) + 1
    BY <2>1, <2>2, FS_AddElement
  <2> QED
    BY <1>1, <1>2, <2>1, <2>3 DEF Rank, To
<1>3. CASE k + 1 \notin kept
  <2>1. To(k + 1) = To(k)
    BY <1>3
  <2> QED
    BY <1>1, <1>3, <2>1 DEF Rank
<1> QED
  BY <1>2, <1>3

LEMMA RankIs ==
    ASSUME NEW n \in Nat, NEW kept, \A e \in kept : e \in 1..n, NEW k \in Nat
    PROVE  /\ Rank(kept, k) \in Nat
           /\ Rank(kept, 0) = 0 /\ (n <= k => Rank(kept, k) = Cardinality(kept))
           /\ \A m \in Nat : k <= m => Rank(kept, k) <= Rank(kept, m)
<1> DEFINE To(m) == {j \in kept : j <= m}
<1>1. \A m \in Nat : IsFiniteSet(To(m)) /\ Cardinality(To(m)) \in Nat
  <2> SUFFICES ASSUME NEW m \in Nat PROVE IsFiniteSet(To(m)) /\ Cardinality(To(m)) \in Nat
    OBVIOUS
  <2>1. IsFiniteSet(1..n) /\ To(m) \subseteq 1..n
    BY FS_Interval
  <2>2. IsFiniteSet(To(m))
    BY <2>1, FS_Subset
  <2> QED
    BY <2>2, FS_CardinalityType
<1>2. To(0) = {} /\ Cardinality(To(0)) = 0
  BY FS_EmptySet
<1>3. n <= k => To(k) = kept
  OBVIOUS
<1>5. \A m \in Nat : k <= m => Cardinality(To(k)) <= Cardinality(To(m))
  <2> SUFFICES ASSUME NEW m \in Nat, k <= m PROVE Cardinality(To(k)) <= Cardinality(To(m))
    OBVIOUS
  <2>1. To(k) \subseteq To(m)
    OBVIOUS
  <2>2. IsFiniteSet(To(m))
    BY <1>1
  <2> HIDE DEF To
  <2> QED
    BY <2>1, <2>2, FS_Subset
<1> QED
  BY <1>1, <1>2, <1>3, <1>5 DEF Rank

LEMMA RankOfAll ==
    ASSUME NEW n \in Nat, NEW kept, \A e \in kept : e \in 1..n
    PROVE  Cardinality(kept) \in Nat /\ Rank(kept, n) = Cardinality(kept) /\ Rank(kept, 0) = 0
<1>1. /\ Rank(kept, n) \in Nat /\ Rank(kept, 0) = 0
      /\ n <= n => Rank(kept, n) = Cardinality(kept)
  BY RankIs, Zenon
<1> QED
  BY <1>1

(* Every place of a sublist has its position, later places later ones. *)
LEMMA NthIs ==
    ASSUME NEW n \in Nat, NEW kept, \A e \in kept : e \in 1..n, NEW i \in 1..Cardinality(kept)
    PROVE  /\ Nth(kept, i) \in kept /\ Rank(kept, Nth(kept, i)) = i
<1>1. Nth(kept, i) = CHOOSE k \in kept : Rank(kept, k) = i
  BY DEF Nth, Rank
<1>2. \E k \in kept : Rank(kept, k) = i
  <2> DEFINE far == {m \in Nat : Rank(kept, m) >= i}
  <2>1. n \in far /\ far \in SUBSET Nat
    <3>1. Cardinality(kept) \in Nat /\ Rank(kept, n) = Cardinality(kept)
      BY ONLY n \in Nat, \A e \in kept : e \in 1..n, RankOfAll
    <3> QED
      BY <3>1
  <2>2. PICK m \in far : \A j \in far : m <= j
    BY <2>1, LeastNat
  <2>3. i \in Nat \ {0} /\ m \in Nat /\ Rank(kept, m) >= i
    <3>1. Cardinality(kept) \in Nat
      BY ONLY n \in Nat, \A e \in kept : e \in 1..n, RankOfAll
    <3> QED
      BY <2>2, <3>1
  <2>4. m # 0
    <3>1. Rank(kept, 0) = 0
      BY ONLY n \in Nat, \A e \in kept : e \in 1..n, RankOfAll
    <3> QED
      BY <2>3, <3>1
  <2>5. m - 1 \in Nat /\ ~(Rank(kept, m - 1) >= i)
    BY <2>2, <2>3, <2>4
  <2> HIDE DEF far
  <2>6. /\ Rank(kept, m - 1) \in Nat
        /\ Rank(kept, (m - 1) + 1) = Rank(kept, m - 1) + IF (m - 1) + 1 \in kept THEN 1 ELSE 0
    <3> DEFINE p == m - 1
    <3>1. p \in Nat
      BY <2>5
    <3> HIDE DEF p
    <3>2. /\ Rank(kept, p) \in Nat
          /\ Rank(kept, p + 1) = Rank(kept, p) + IF p + 1 \in kept THEN 1 ELSE 0
      BY <3>1, RankStep, Zenon
    <3> QED
      BY <3>2 DEF p
  <2>7. (m - 1) + 1 = m
    BY <2>3
  <2> QED
    BY <2>3, <2>5, <2>6, <2>7
<1> QED
  BY <1>1, <1>2

LEMMA NthGrows ==
    ASSUME NEW n \in Nat, NEW kept, \A e \in kept : e \in 1..n,
           NEW i \in 1..Cardinality(kept), NEW j \in 1..Cardinality(kept), i < j
    PROVE  Nth(kept, i) < Nth(kept, j)
<1> DEFINE a == Nth(kept, i)
           b == Nth(kept, j)
<1>1. a \in kept /\ Rank(kept, a) = i /\ b \in kept /\ Rank(kept, b) = j
  BY NthIs
<1> HIDE DEF a, b
<1>2. a \in Nat /\ b \in Nat
  BY <1>1
<1>3. b <= a => Rank(kept, b) <= Rank(kept, a)
  BY ONLY n \in Nat, \A e \in kept : e \in 1..n, <1>2, RankIs
<1>4. i \in Nat /\ j \in Nat
  <2>1. Cardinality(kept) \in Nat
    BY ONLY n \in Nat, \A e \in kept : e \in 1..n, RankOfAll
  <2> QED
    BY <2>1
<1> QED
  BY <1>1, <1>2, <1>3, <1>4 DEF a, b

LEMMA SublistIs ==
    ASSUME NEW S, NEW s \in Seq(S), NEW kept, \A e \in kept : e \in 1..Len(s)
    PROVE  /\ Sublist(s, kept) \in Seq(S) /\ Len(Sublist(s, kept)) = Cardinality(kept)
           /\ \A i \in 1..Cardinality(kept) :
                 Nth(kept, i) \in kept /\ Sublist(s, kept)[i] = s[Nth(kept, i)]
           /\ Cardinality(kept) \in Nat /\ Cardinality(kept) <= Len(s)
           /\ Cardinality(kept) = Len(s) => kept = 1..Len(s)
<1> DEFINE c == Cardinality(kept)
           t == [i \in 1..c |-> s[Nth(kept, i)]]
<1>1. Len(s) \in Nat
  OBVIOUS
<1>2. IsFiniteSet(1..Len(s)) /\ Cardinality(1..Len(s)) = Len(s)
  <2> DEFINE n == Len(s)
  <2>1. n \in Int /\ n >= 0 /\ 1 \in Int
    BY <1>1
  <2> HIDE DEF n
  <2>2. IsFiniteSet(1..n) /\ Cardinality(1..n) = IF 1 > n THEN 0 ELSE n - 1 + 1
    BY <2>1, FS_Interval
  <2>3. (IF 1 > n THEN 0 ELSE n - 1 + 1) = n
    BY <2>1
  <2> QED
    BY <2>2, <2>3 DEF n
<1>3. c \in Nat /\ c <= Len(s) /\ (c = Len(s) => kept = 1..Len(s))
  <2>1. IsFiniteSet(kept) /\ Cardinality(kept) <= Cardinality(1..Len(s))
        /\ (Cardinality(kept) = Cardinality(1..Len(s)) => kept = 1..Len(s))
    BY <1>2, FS_Subset
  <2>2. Cardinality(kept) \in Nat
    BY <2>1, FS_CardinalityType
  <2> QED
    BY <1>2, <2>1, <2>2
<1>4. \A i \in 1..c : Nth(kept, i) \in kept
  BY <1>1, NthIs
<1>5. Sublist(s, kept) = t
  BY DEF Sublist
<1> HIDE DEF c
<1>6. t \in [1..c -> S]
  BY <1>3, <1>4
<1>7. t \in Seq(S) /\ Len(t) = c
  <2> HIDE DEF t
  <2> QED
    BY <1>3, <1>6
<1> QED
  BY <1>3, <1>4, <1>5, <1>7 DEF c

-----------------------------------------------------------------------------
(* Monitoring: the points of the metrics. *)

(* An array of timestamps, in order and in the past. *)
InOrderTo(d, t) ==
    /\ d \in Seq(Nat)
    /\ \A i \in 1..Len(d) : d[i] <= t
    /\ \A i, j \in 1..Len(d) : i <= j => d[i] <= d[j]

(* Every array is in order, whichever objects share it. *)
MetricInv ==
    /\ clock \in Nat
    /\ arrays \in Seq(Seq(Nat)) /\ \A d \in 1..Len(arrays) : InOrderTo(arrays[d], clock)
    /\ instances \in Seq([enabled : BOOLEAN, data : Nat])
    /\ \A i \in 1..Len(instances) : instances[i].data \in 1..Len(arrays)
    /\ current \in 0..Len(instances)
    /\ DOMAIN collecting = Collectors
    /\ \A c \in Collectors : collecting[c].pc = "await" => collecting[c].on \in 1..Len(instances)

LEMMA PushedIs ==
    ASSUME NEW S, NEW s \in Seq(S), NEW x \in S
    PROVE  /\ Append(s, x) \in Seq(S) /\ Len(s) \in Nat /\ Len(Append(s, x)) = Len(s) + 1
           /\ \A i \in 1..Len(s) : Append(s, x)[i] = s[i]
           /\ Append(s, x)[Len(s) + 1] = x
  OBVIOUS

LEMMA ElementIs ==
    ASSUME NEW S, NEW s \in Seq(S), NEW i \in 1..Len(s)
    PROVE  s[i] \in S
  OBVIOUS

LEMMA UpdateIs ==
    ASSUME NEW S, NEW s \in Seq(S), NEW x \in S, NEW k \in 1..Len(s)
    PROVE  /\ [s EXCEPT ![k] = x] \in Seq(S) /\ Len([s EXCEPT ![k] = x]) = Len(s)
           /\ \A i \in 1..Len(s) : [s EXCEPT ![k] = x][i] = IF i = k THEN x ELSE s[i]
  OBVIOUS

LEMMA PushInOrder ==
    ASSUME NEW t \in Nat, NEW d, InOrderTo(d, t)
    PROVE  InOrderTo(Append(d, t), t) /\ Len(Append(d, t)) = Len(d) + 1
<1> DEFINE e == Append(d, t)
<1>1. d \in Seq(Nat) /\ Len(d) \in Nat
  BY DEF InOrderTo
<1>2. /\ e \in Seq(Nat) /\ Len(e) = Len(d) + 1
      /\ \A i \in 1..Len(d) : e[i] = d[i]
      /\ e[Len(d) + 1] = t
  BY <1>1, PushedIs
<1> HIDE DEF e
<1>3. \A i \in 1..Len(e) : e[i] <= t
  <2> SUFFICES ASSUME NEW i \in 1..Len(e) PROVE e[i] <= t
    OBVIOUS
  <2>1. CASE i = Len(d) + 1
    BY <1>2, <2>1
  <2>2. CASE i # Len(d) + 1
    <3>1. i \in 1..Len(d)
      BY <1>1, <1>2, <2>2
    <3>2. d[i] <= t
      BY <3>1 DEF InOrderTo
    <3> QED
      BY <1>2, <3>1, <3>2
  <2> QED
    BY <2>1, <2>2
<1>4. \A i, j \in 1..Len(e) : i <= j => e[i] <= e[j]
  <2> SUFFICES ASSUME NEW i \in 1..Len(e), NEW j \in 1..Len(e), i <= j PROVE e[i] <= e[j]
    OBVIOUS
  <2>1. CASE j = Len(d) + 1
    BY <1>2, <1>3, <2>1
  <2>2. CASE j # Len(d) + 1
    <3>1. i \in 1..Len(d) /\ j \in 1..Len(d)
      BY <1>1, <1>2, <2>2
    <3>2. d[i] <= d[j]
      BY <3>1 DEF InOrderTo
    <3> QED
      BY <1>2, <3>1, <3>2
  <2> QED
    BY <2>1, <2>2
<1> QED
  BY <1>2, <1>3, <1>4 DEF InOrderTo, e

LEMMA CutInOrder ==
    ASSUME NEW t \in Nat, NEW d, InOrderTo(d, t), NEW m \in Nat \ {0}, Len(d) > m
    PROVE  InOrderTo(SubSeq(d, Len(d) - m + 1, Len(d)), t)
<1> DEFINE k == Len(d) - m
           e == SubSeq(d, Len(d) - m + 1, Len(d))
<1>1. d \in Seq(Nat) /\ Len(d) \in Nat /\ k \in Nat
  BY DEF InOrderTo
<1>2. /\ e \in Seq(Nat) /\ Len(e) = m
      /\ \A i \in 1..m : e[i] = d[k + i] /\ k + i \in 1..Len(d)
  BY <1>1
<1> HIDE DEF e, k
<1>3. \A i \in 1..Len(e) : e[i] <= t
  BY <1>1, <1>2 DEF InOrderTo
<1>4. \A i, j \in 1..Len(e) : i <= j => e[i] <= e[j]
  <2> SUFFICES ASSUME NEW i \in 1..m, NEW j \in 1..m, i <= j PROVE d[k + i] <= d[k + j]
    BY <1>2
  <2>1. k + i <= k + j /\ k + i \in 1..Len(d) /\ k + j \in 1..Len(d)
    BY <1>1, <1>2
  <2> QED
    BY <2>1 DEF InOrderTo
<1> QED
  BY <1>2, <1>3, <1>4 DEF InOrderTo, e

LEMMA FilterInOrder ==
    ASSUME NEW t \in Nat, NEW d, InOrderTo(d, t), NEW kept, \A e \in kept : e \in 1..Len(d)
    PROVE  InOrderTo(Sublist(d, kept), t)
<1> DEFINE e == Sublist(d, kept)
           c == Cardinality(kept)
<1>1. d \in Seq(Nat) /\ Len(d) \in Nat
  BY DEF InOrderTo
<1>2. /\ e \in Seq(Nat) /\ Len(e) = c /\ c \in Nat
      /\ \A i \in 1..c : Nth(kept, i) \in kept /\ e[i] = d[Nth(kept, i)]
  BY <1>1, SublistIs
<1>3. \A i, j \in 1..c : i < j => Nth(kept, i) < Nth(kept, j)
  BY <1>1, NthGrows
<1> HIDE DEF e, c
<1>4. \A i \in 1..Len(e) : e[i] <= t
  BY <1>1, <1>2 DEF InOrderTo
<1>5. \A i, j \in 1..Len(e) : i <= j => e[i] <= e[j]
  <2> SUFFICES ASSUME NEW i \in 1..c, NEW j \in 1..c, i <= j
               PROVE  d[Nth(kept, i)] <= d[Nth(kept, j)]
    BY <1>2
  <2>1. Nth(kept, i) \in 1..Len(d) /\ Nth(kept, j) \in 1..Len(d)
    BY <1>2
  <2>2. Nth(kept, i) <= Nth(kept, j)
    <3>1. CASE i = j
      BY <1>1, <2>1, <3>1
    <3>2. CASE i < j
      BY <1>1, <1>3, <2>1, <3>2
    <3> QED
      BY <1>2, <3>1, <3>2
  <2> QED
    BY <2>1, <2>2 DEF InOrderTo
<1> QED
  BY <1>2, <1>4, <1>5 DEF InOrderTo, e

LEMMA MetricInitInv == MonitoringInit => MetricInv
  BY DEF MonitoringInit, MetricInv, Free

LEMMA TickInOrder == MetricInv /\ ClockTicks => MetricInv'
<1> SUFFICES ASSUME MetricInv, ClockTicks PROVE MetricInv'
  OBVIOUS
<1>1. clock' \in Nat /\ clock <= clock' /\ UNCHANGED metricVars
  BY DEF ClockTicks, MetricInv
<1>2. \A d \in 1..Len(arrays) : InOrderTo(arrays[d], clock')
  <2> SUFFICES ASSUME NEW d \in 1..Len(arrays) PROVE InOrderTo(arrays[d], clock')
    OBVIOUS
  <2>1. InOrderTo(arrays[d], clock) /\ clock \in Nat
    BY DEF MetricInv
  <2>2. \A i \in 1..Len(arrays[d]) : arrays[d][i] \in Nat
    BY <2>1 DEF InOrderTo
  <2> QED
    BY <1>1, <2>1, <2>2 DEF InOrderTo
<1> QED
  BY <1>1, <1>2 DEF MetricInv, metricVars

(* What the steps of the metric registry leave, for the invariant to hold. *)
LEMMA MetricFrame ==
    ASSUME MetricInv, clock' = clock,
           arrays' \in Seq(Seq(Nat)), \A d \in 1..Len(arrays') : InOrderTo(arrays'[d], clock),
           instances' \in Seq([enabled : BOOLEAN, data : Nat]),
           Len(instances') >= Len(instances),
           \A i \in 1..Len(instances') : instances'[i].data \in 1..Len(arrays'),
           current' \in 0..Len(instances'),
           DOMAIN collecting' = Collectors,
           \A c \in Collectors : collecting'[c].pc = "await" =>
                                    collecting'[c].on \in 1..Len(instances')
    PROVE  MetricInv'
  BY DEF MetricInv

LEMMA MetricCollectors ==
    ASSUME MetricInv, NEW n \in Nat, n >= Len(instances)
    PROVE  /\ DOMAIN collecting = Collectors
           /\ \A c \in Collectors : collecting[c].pc = "await" => collecting[c].on \in 1..n
<1>1. Len(instances) \in Nat
  BY DEF MetricInv
<1>2. \A c \in Collectors : collecting[c].pc = "await" => collecting[c].on \in 1..Len(instances)
  BY DEF MetricInv
<1>3. \A k \in 1..Len(instances) : k \in 1..n
  BY <1>1
<1> QED
  BY <1>2, <1>3 DEF MetricInv

LEMMA MetricLengths == MetricInv => Len(instances) \in Nat /\ Len(arrays) \in Nat
  BY DEF MetricInv

LEMMA RegisterInv == MetricInv /\ RegisterMetric /\ clock' = clock => MetricInv'
<1> SUFFICES ASSUME MetricInv, RegisterMetric, clock' = clock PROVE MetricInv'
  OBVIOUS
<1>1. InOrderTo(<<>>, clock)
  BY DEF InOrderTo
<1>2. /\ arrays' = << <<>> >> /\ instances' = <<[enabled |-> TRUE, data |-> 1]>>
      /\ current' = 1 /\ collecting' = collecting /\ instances = <<>>
  BY DEF RegisterMetric
<1>3. DOMAIN collecting = Collectors /\ clock \in Nat
      /\ \A c \in Collectors : collecting[c].pc = "await" => collecting[c].on \in 1..Len(instances)
  BY DEF MetricInv
<1> QED
  BY <1>1, <1>2, <1>3 DEF MetricInv

LEMMA PruneInv == MetricInv /\ Prune /\ clock' = clock => MetricInv'
<1> SUFFICES ASSUME MetricInv, Prune, clock' = clock PROVE MetricInv'
  OBVIOUS
<1> DEFINE source == instances[current].data
           points == arrays[source]
           positions == {k \in DOMAIN points : points[k] + PruneAfter >= clock}
           kept == Sublist(points, positions)
           Rec == [enabled : BOOLEAN, data : Nat]
<1>1. /\ arrays' = Append(arrays, kept) /\ current # 0
      /\ instances' = [instances EXCEPT ![current].data = Len(arrays')]
      /\ current' = current /\ collecting' = collecting
  BY DEF Prune
<1>2. /\ instances \in Seq(Rec) /\ Len(instances) \in Nat /\ current \in 0..Len(instances)
      /\ arrays \in Seq(Seq(Nat)) /\ Len(arrays) \in Nat /\ clock \in Nat
  BY MetricLengths, Zenon DEF MetricInv
<1>3. current \in 1..Len(instances) /\ source \in 1..Len(arrays)
  BY <1>1, <1>2 DEF MetricInv
<1> HIDE DEF source
<1>4. InOrderTo(points, clock)
  BY <1>3 DEF MetricInv
<1>5. \A e \in positions : e \in 1..Len(points)
  <2>1. DOMAIN points = 1..Len(points)
    BY <1>4 DEF InOrderTo
  <2> QED
    BY <2>1
<1> HIDE DEF points, positions
<1>6. InOrderTo(kept, clock) /\ kept \in Seq(Nat)
  <2>1. InOrderTo(kept, clock)
    BY <1>2, <1>4, <1>5, FilterInOrder
  <2> QED
    BY <2>1 DEF InOrderTo
<1> HIDE DEF kept
<1>7. /\ arrays' \in Seq(Seq(Nat)) /\ Len(arrays') = Len(arrays) + 1
      /\ \A d \in 1..Len(arrays) : arrays'[d] = arrays[d]
      /\ arrays'[Len(arrays) + 1] = kept
  BY <1>1, <1>2, <1>6, PushedIs
<1>8. \A d \in 1..Len(arrays') : InOrderTo(arrays'[d], clock)
  <2> SUFFICES ASSUME NEW d \in 1..Len(arrays') PROVE InOrderTo(arrays'[d], clock)
    OBVIOUS
  <2>1. d \in 1..Len(arrays) \/ d = Len(arrays) + 1
    BY <1>2, <1>7
  <2>2. \A k \in 1..Len(arrays) : InOrderTo(arrays[k], clock)
    BY DEF MetricInv
  <2> QED
    BY <1>6, <1>7, <2>1, <2>2
<1> DEFINE new == [instances[current] EXCEPT !.data = Len(arrays')]
<1>9. new \in Rec /\ new.data = Len(arrays')
  <2>1. instances[current] \in Rec
    <3> HIDE DEF Rec
    <3> QED
      BY <1>2, <1>3, ElementIs
  <2>2. Len(arrays') \in Nat
    BY <1>2, <1>7
  <2> QED
    BY <2>1, <2>2
<1>10. instances' = [instances EXCEPT ![current] = new]
  BY <1>1
<1> HIDE DEF new
<1>11. /\ instances' \in Seq(Rec) /\ Len(instances') = Len(instances)
       /\ \A i \in 1..Len(instances) : instances'[i] = IF i = current THEN new ELSE instances[i]
  BY <1>2, <1>3, <1>9, <1>10, UpdateIs
<1>12. \A i \in 1..Len(instances) : instances[i].data \in 1..Len(arrays)
  BY DEF MetricInv
<1>13. \A i \in 1..Len(instances') : instances'[i].data \in 1..Len(arrays')
  <2> SUFFICES ASSUME NEW i \in 1..Len(instances) PROVE instances'[i].data \in 1..Len(arrays')
    BY <1>11
  <2>1. CASE i = current
    BY <1>2, <1>7, <1>9, <1>11, <2>1
  <2>2. CASE i # current
    BY <1>2, <1>7, <1>11, <1>12, <2>2, SMTT(60)
  <2> QED
    BY <2>1, <2>2
<1>14. /\ DOMAIN collecting = Collectors
       /\ \A c \in Collectors : collecting[c].pc = "await" => collecting[c].on \in 1..Len(instances)
  BY DEF MetricInv
<1> QED
  BY <1>1, <1>2, <1>7, <1>8, <1>11, <1>13, <1>14, MetricFrame

LEMMA UpdateInv ==
    ASSUME MetricInv, clock' = clock, NEW on \in BOOLEAN, UpdateMetric(on)
    PROVE  MetricInv'
<1> DEFINE new == [instances[current] EXCEPT !.enabled = on]
           Rec == [enabled : BOOLEAN, data : Nat]
<1>1. /\ instances' = Append(instances, new) /\ current # 0 /\ current' = Len(instances')
      /\ arrays' = arrays /\ collecting' = collecting
  BY DEF UpdateMetric
<1>2. /\ instances \in Seq(Rec) /\ Len(instances) \in Nat /\ current \in 0..Len(instances)
      /\ arrays \in Seq(Seq(Nat)) /\ \A d \in 1..Len(arrays) : InOrderTo(arrays[d], clock)
      /\ \A i \in 1..Len(instances) : instances[i].data \in 1..Len(arrays)
  BY MetricLengths, Zenon DEF MetricInv
<1>3. current \in 1..Len(instances)
  <2>1. Len(instances) \in Nat /\ current \in 0..Len(instances) /\ current # 0
    BY <1>1, <1>2
  <2> QED
    BY ONLY <2>1
<1>4. new \in Rec /\ new.data \in 1..Len(arrays)
  <2>1. instances[current] \in Rec
    <3> HIDE DEF Rec
    <3> QED
      BY <1>2, <1>3, ElementIs
  <2>2. instances[current].data \in 1..Len(arrays)
    BY <1>2, <1>3
  <2> QED
    BY <2>1, <2>2
<1> HIDE DEF new
<1>5. /\ instances' \in Seq(Rec) /\ Len(instances') = Len(instances) + 1
      /\ \A i \in 1..Len(instances) : instances'[i] = instances[i]
      /\ instances'[Len(instances) + 1] = new
  BY <1>1, <1>2, <1>4, PushedIs
<1>6. \A i \in 1..Len(instances') : instances'[i].data \in 1..Len(arrays)
  <2> SUFFICES ASSUME NEW i \in 1..Len(instances') PROVE instances'[i].data \in 1..Len(arrays)
    OBVIOUS
  <2>1. i \in 1..Len(instances) \/ i = Len(instances) + 1
    BY <1>2, <1>5
  <2> QED
    BY <1>2, <1>4, <1>5, <2>1
<1>7. Len(instances') \in Nat /\ Len(instances') >= Len(instances)
  BY <1>2, <1>5
<1>8. /\ DOMAIN collecting = Collectors
      /\ \A c \in Collectors : collecting[c].pc = "await" => collecting[c].on \in 1..Len(instances')
  <2> DEFINE n == Len(instances')
  <2>1. n \in Nat /\ n >= Len(instances)
    BY <1>7
  <2> HIDE DEF n
  <2>2. /\ DOMAIN collecting = Collectors
        /\ \A c \in Collectors : collecting[c].pc = "await" => collecting[c].on \in 1..n
    BY <2>1, MetricCollectors
  <2> QED
    BY <2>2 DEF n
<1>9. current' \in 0..Len(instances')
  BY <1>1, <1>7
<1> QED
  BY <1>1, <1>2, <1>5, <1>6, <1>7, <1>8, <1>9, MetricFrame

LEMMA CollectedInv ==
    ASSUME MetricInv, clock' = clock, NEW c \in Collectors, Collected(c)
    PROVE  MetricInv'
<1> DEFINE i == collecting[c].on
           d == instances[i].data
           pushed == Append(arrays[d], Stamp(c))
           over == Len(pushed) > MaxDataPoints
           cut == SubSeq(pushed, Len(pushed) - MaxDataPoints + 1, Len(pushed))
           first == [arrays EXCEPT ![d] = pushed]
           sliced == Append(first, cut)
           Rec == [enabled : BOOLEAN, data : Nat]
<1>1. /\ arrays' = IF over THEN sliced ELSE first
      /\ instances' = [instances EXCEPT ![i].data = IF over THEN Len(sliced) ELSE d]
      /\ current' = i /\ collecting' = [collecting EXCEPT ![c] = Free]
      /\ collecting[c].pc = "await"
  BY DEF Collected
<1>2. /\ instances \in Seq(Rec) /\ Len(instances) \in Nat /\ clock \in Nat
      /\ arrays \in Seq(Seq(Nat)) /\ Len(arrays) \in Nat
      /\ \A k \in 1..Len(arrays) : InOrderTo(arrays[k], clock)
      /\ \A k \in 1..Len(instances) : instances[k].data \in 1..Len(arrays)
  BY MetricLengths, Zenon DEF MetricInv
<1>3. i \in 1..Len(instances) /\ d \in 1..Len(arrays) /\ d \in Nat
  <2>1. i \in 1..Len(instances)
    BY <1>1 DEF MetricInv
  <2> QED
    BY <1>2, <2>1
<1>4. InOrderTo(pushed, clock) /\ pushed \in Seq(Nat)
  <2>1. pushed = Append(arrays[d], clock)
    BY DEF Stamp
  <2>2. InOrderTo(arrays[d], clock)
    BY <1>2, <1>3
  <2>3. InOrderTo(pushed, clock)
    BY <1>2, <2>1, <2>2, PushInOrder
  <2> QED
    BY <2>3 DEF InOrderTo
<1>5. over => InOrderTo(cut, clock) /\ cut \in Seq(Nat)
  <2> SUFFICES ASSUME over PROVE InOrderTo(cut, clock)
    BY DEF InOrderTo
  <2> HIDE DEF pushed
  <2> QED
    BY <1>2, <1>4, MonitoringAssumption, CutInOrder
<1> HIDE DEF i, d, pushed, cut, over
<1>6. /\ first \in Seq(Seq(Nat)) /\ Len(first) = Len(arrays)
      /\ \A k \in 1..Len(arrays) : first[k] = IF k = d THEN pushed ELSE arrays[k]
  BY <1>2, <1>3, <1>4, UpdateIs
<1>7. \A k \in 1..Len(first) : InOrderTo(first[k], clock)
  BY <1>2, <1>4, <1>6
<1> HIDE DEF first
<1>8. over =>
      /\ sliced \in Seq(Seq(Nat)) /\ Len(sliced) = Len(arrays) + 1
      /\ \A k \in 1..Len(sliced) : InOrderTo(sliced[k], clock)
  <2> SUFFICES ASSUME over
               PROVE  /\ sliced \in Seq(Seq(Nat)) /\ Len(sliced) = Len(arrays) + 1
                      /\ \A k \in 1..Len(sliced) : InOrderTo(sliced[k], clock)
    OBVIOUS
  <2>1. /\ sliced \in Seq(Seq(Nat)) /\ Len(sliced) = Len(first) + 1
        /\ \A k \in 1..Len(first) : sliced[k] = first[k]
        /\ sliced[Len(first) + 1] = cut
    BY <1>5, <1>6, PushedIs
  <2> HIDE DEF sliced
  <2>2. \A k \in 1..Len(sliced) : k \in 1..Len(first) \/ k = Len(first) + 1
    BY <1>2, <1>6, <2>1
  <2> QED
    BY <1>5, <1>6, <1>7, <2>1, <2>2
<1> HIDE DEF sliced
<1>9. /\ arrays' \in Seq(Seq(Nat)) /\ \A k \in 1..Len(arrays') : InOrderTo(arrays'[k], clock)
      /\ Len(arrays') = IF over THEN Len(arrays) + 1 ELSE Len(arrays)
  BY <1>1, <1>6, <1>7, <1>8
<1> DEFINE e == IF over THEN Len(sliced) ELSE d
           new == [instances[i] EXCEPT !.data = e]
<1>10. e \in Nat /\ e \in 1..Len(arrays')
  <2>1. CASE over
    <3>1. e = Len(arrays) + 1 /\ Len(arrays') = Len(arrays) + 1
      BY <1>8, <1>9, <2>1
    <3> QED
      BY <1>2, <3>1
  <2>2. CASE ~over
    BY <1>3, <1>9, <2>2
  <2> QED
    BY <2>1, <2>2
<1>11. instances' = [instances EXCEPT ![i] = new]
  BY <1>1
<1> HIDE DEF e
<1>12. new \in Rec /\ new.data = e
  <2>1. instances[i] \in Rec
    <3> HIDE DEF Rec, new
    <3> QED
      BY <1>2, <1>3, ElementIs
  <2> QED
    BY <1>10, <2>1
<1> HIDE DEF new
<1>13. /\ instances' \in Seq(Rec) /\ Len(instances') = Len(instances)
       /\ \A k \in 1..Len(instances) : instances'[k] = IF k = i THEN new ELSE instances[k]
  BY <1>2, <1>3, <1>11, <1>12, UpdateIs, SMTT(60)
<1>14. \A k \in 1..Len(instances') : instances'[k].data \in 1..Len(arrays')
  <2> SUFFICES ASSUME NEW k \in 1..Len(instances) PROVE instances'[k].data \in 1..Len(arrays')
    BY <1>13
  <2>1. CASE k = i
    BY <1>10, <1>12, <1>13, <2>1
  <2>2. CASE k # i
    BY <1>2, <1>9, <1>13, <2>2, SMTT(60)
  <2> QED
    BY <2>1, <2>2
<1>15. /\ DOMAIN collecting' = Collectors
       /\ \A x \in Collectors : collecting'[x].pc = "await" => collecting'[x].on \in 1..Len(instances')
  <2>1. /\ DOMAIN collecting = Collectors
        /\ \A x \in Collectors : collecting[x].pc = "await" => collecting[x].on \in 1..Len(instances)
    BY DEF MetricInv
  <2> QED
    BY <1>1, <1>13, <2>1 DEF Free
<1>16. current' \in 0..Len(instances')
  BY <1>1, <1>2, <1>3, <1>13
<1> QED
  BY <1>2, <1>9, <1>13, <1>14, <1>15, <1>16, MetricFrame

LEMMA MetricStepInv == MetricInv /\ MetricNext /\ clock' = clock => MetricInv'
<1> SUFFICES ASSUME MetricInv, MetricNext, clock' = clock PROVE MetricInv'
  OBVIOUS
<1>1. CASE RegisterMetric
  BY <1>1, RegisterInv
<1>2. CASE DeleteMetric
  BY <1>2 DEF DeleteMetric, MetricInv
<1>3. CASE Prune
  BY <1>3, PruneInv
<1>4. CASE \E on \in BOOLEAN : UpdateMetric(on)
  BY <1>4, UpdateInv
<1>5. CASE \E c \in Collectors : Collect(c) \/ FetchThrows(c)
  <2>1. PICK c \in Collectors : Collect(c) \/ FetchThrows(c)
    BY <1>5
  <2>2. /\ UNCHANGED <<instances, arrays, current>>
        /\ \/ collecting' = [collecting EXCEPT ![c] = Free]
           \/ /\ current # 0
              /\ collecting' = [collecting EXCEPT ![c] = [pc |-> "await", on |-> current, began |-> clock]]
    BY <2>1 DEF Collect, FetchThrows
  <2>3. /\ DOMAIN collecting = Collectors /\ current \in 0..Len(instances) /\ Len(instances) \in Nat
        /\ \A x \in Collectors : collecting[x].pc = "await" => collecting[x].on \in 1..Len(instances)
    BY DEF MetricInv
  <2>4. /\ DOMAIN collecting' = Collectors
        /\ \A x \in Collectors : collecting'[x].pc = "await" => collecting'[x].on \in 1..Len(instances)
    BY <2>2, <2>3 DEF Free
  <2> QED
    BY <2>2, <2>4 DEF MetricInv
<1>6. CASE \E c \in Collectors : Collected(c)
  BY <1>6, CollectedInv
<1> QED
  BY <1>1, <1>2, <1>3, <1>4, <1>5, <1>6 DEF MetricNext

-----------------------------------------------------------------------------
(* Monitoring: the endpoint probes. *)

StatsRecs == [at : Nat, mean : Nat, failed : BOOLEAN]
ScoreRecs == [healthy : BOOLEAN, score : Nat, sampled : Nat, used : Nat]

(* A score rests on samples that were within their time to live. *)
FreshScore(s) == s.healthy => s.used - s.sampled < LatencyTTL
FreshScores(scores) ==
    scores \in Seq(ScoreRecs) /\ \A u \in 1..Len(scores) : FreshScore(scores[u])

HealthInv ==
    /\ clock \in Nat
    /\ latencyOf \in [1..Len(Urls) -> StatsRecs]
    /\ probe.pc \in {"idle", "health", "samples", "chosen"}
    /\ probe.pc # "idle" => FreshScores(probe.scores)
    /\ probe.pc \in {"health", "samples"} => probe.url \in 1..Len(Urls)
    /\ probe.pc = "samples" => probe.latency \in Nat

LEMMA ScoredFresh ==
    ASSUME probe.url \in 1..Len(Urls), FreshScores(probe.scores),
           NEW s \in ScoreRecs, FreshScore(s)
    PROVE  /\ Scored(s).pc \in {"chosen", "health"} /\ FreshScores(Scored(s).scores)
           /\ Scored(s).pc = "health" => Scored(s).url \in 1..Len(Urls)
<1> DEFINE old == probe.scores
           new == Append(old, s)
<1>1. FreshScores(new)
  <2>1. old \in Seq(ScoreRecs) /\ \A u \in 1..Len(old) : FreshScore(old[u])
    BY DEF FreshScores
  <2> HIDE DEF old
  <2>2. /\ new \in Seq(ScoreRecs) /\ Len(old) \in Nat /\ Len(new) = Len(old) + 1
        /\ \A i \in 1..Len(old) : new[i] = old[i]
        /\ new[Len(old) + 1] = s
    <3> HIDE DEF ScoreRecs
    <3> QED
      BY <2>1, PushedIs
  <2> HIDE DEF new
  <2>3. \A u \in 1..Len(new) : u \in 1..Len(old) \/ u = Len(old) + 1
    BY <2>2
  <2> QED
    BY <2>1, <2>2, <2>3 DEF FreshScores
<1> HIDE DEF new
<1>2. Scored(s) = IF probe.url = Len(Urls) THEN [pc |-> "chosen", scores |-> new]
                  ELSE [pc |-> "health", url |-> probe.url + 1, scores |-> new]
  BY DEF Scored, new
<1>3. probe.url # Len(Urls) => probe.url + 1 \in 1..Len(Urls)
  BY MonitoringAssumption
<1> QED
  BY <1>1, <1>2, <1>3

LEMMA HealthInitInv == MonitoringInit => HealthInv
  BY MonitoringAssumption DEF MonitoringInit, HealthInv, NoStats, StatsRecs, Free

LEMMA TickHealth == HealthInv /\ ClockTicks => HealthInv'
  BY DEF HealthInv, ClockTicks, healthVars

LEMMA HealthStepInv == HealthInv /\ HealthNext /\ clock' = clock => HealthInv'
<1> SUFFICES ASSUME HealthInv, HealthNext, clock' = clock PROVE HealthInv'
  OBVIOUS
<1>1. /\ clock \in Nat /\ LatencyTTL \in Nat \ {0} /\ \A l \in Latencies : l \in Nat
      /\ latencyOf \in [1..Len(Urls) -> StatsRecs]
      /\ probe.pc # "idle" => FreshScores(probe.scores)
      /\ probe.pc \in {"health", "samples"} => probe.url \in 1..Len(Urls)
      /\ probe.pc = "samples" => probe.latency \in Nat
  BY MonitoringAssumption DEF HealthInv
<1>2. \A m, n \in Nat : \A failed \in BOOLEAN : Score(m, failed, n) \in Nat
  BY DEF Score
<1>3. CASE StartBest
  <2>1. FreshScores(<<>>)
    BY DEF FreshScores
  <2>2. 1 \in 1..Len(Urls)
    BY MonitoringAssumption
  <2> QED
    BY <1>1, <1>3, <2>1, <2>2 DEF StartBest, HealthInv
<1>4. CASE Unhealthy
  <2>1. NotHealthy \in ScoreRecs /\ FreshScore(NotHealthy)
    BY DEF NotHealthy, ScoreRecs, FreshScore
  <2>2. probe.pc = "health" /\ probe' = Scored(NotHealthy) /\ latencyOf' = latencyOf
    BY <1>4 DEF Unhealthy
  <2>3. /\ Scored(NotHealthy).pc \in {"chosen", "health"} /\ FreshScores(Scored(NotHealthy).scores)
        /\ Scored(NotHealthy).pc = "health" => Scored(NotHealthy).url \in 1..Len(Urls)
    BY <1>1, <2>1, <2>2, ScoredFresh
  <2> QED
    BY <1>1, <2>2, <2>3 DEF HealthInv
<1>5. CASE BestReturned
  BY <1>1, <1>5 DEF BestReturned, HealthInv, Free
<1>6. ASSUME NEW l \in Latencies, Healthy(l) PROVE HealthInv'
  <2> DEFINE swept == [u \in DOMAIN latencyOf |-> IF u \in EvictStale THEN NoStats ELSE latencyOf[u]]
             hit == swept[probe.url]
             s == [healthy |-> TRUE, sampled |-> hit.at, used |-> clock,
                   score |-> Score(hit.mean, hit.failed, l)]
  <2>1. /\ probe.pc = "health" /\ latencyOf' = swept
        /\ probe' = IF hit = NoStats
                    THEN [pc |-> "samples", url |-> probe.url, scores |-> probe.scores, latency |-> l]
                    ELSE Scored(s)
    BY <1>6 DEF Healthy
  <2>2. NoStats \in StatsRecs
    BY DEF NoStats, StatsRecs
  <2>3. swept \in [1..Len(Urls) -> StatsRecs]
    BY <1>1, <2>2
  <2>4. hit \in StatsRecs /\ probe.url \in 1..Len(Urls) /\ FreshScores(probe.scores) /\ l \in Nat
    BY <1>1, <2>1, <2>3
  <2>5. hit # NoStats => clock - hit.at < LatencyTTL
    <3>1. SUFFICES ASSUME hit # NoStats PROVE clock - hit.at < LatencyTTL
      OBVIOUS
    <3>2. hit = latencyOf[probe.url] /\ probe.url \notin EvictStale /\ probe.url \in DOMAIN latencyOf
      BY <1>1, <2>4, <3>1
    <3>3. ~(clock - hit.at >= LatencyTTL)
      BY <3>1, <3>2 DEF EvictStale
    <3>4. hit.at \in Nat
      BY <2>4 DEF StatsRecs
    <3> QED
      BY <1>1, <3>3, <3>4
  <2> HIDE DEF swept, hit
  <2>6. s \in ScoreRecs /\ s.sampled = hit.at /\ s.used = clock
    <3>1. hit.at \in Nat /\ hit.mean \in Nat /\ hit.failed \in BOOLEAN
      BY <2>4 DEF StatsRecs
    <3>2. Score(hit.mean, hit.failed, l) \in Nat
      BY <1>2, <2>4, <3>1
    <3> QED
      BY <1>1, <3>1, <3>2 DEF ScoreRecs
  <2> HIDE DEF s
  <2>7. CASE hit = NoStats
    BY <1>1, <2>1, <2>3, <2>4, <2>7 DEF HealthInv
  <2>8. CASE hit # NoStats
    <3>1. FreshScore(s)
      BY <2>5, <2>6, <2>8 DEF FreshScore
    <3>2. /\ Scored(s).pc \in {"chosen", "health"} /\ FreshScores(Scored(s).scores)
          /\ Scored(s).pc = "health" => Scored(s).url \in 1..Len(Urls)
      BY <2>4, <2>6, <3>1, ScoredFresh
    <3> QED
      BY <1>1, <2>1, <2>3, <2>8, <3>2 DEF HealthInv
  <2> QED
    BY <2>7, <2>8
<1>7. ASSUME NEW l \in Latencies, NEW failed \in BOOLEAN, Sampled(l, failed) PROVE HealthInv'
  <2> DEFINE s == [healthy |-> TRUE, sampled |-> clock, used |-> clock,
                   score |-> Score(l, failed, probe.latency)]
             w == [at |-> clock, mean |-> l, failed |-> failed]
  <2>1. /\ probe.pc = "samples" /\ latencyOf' = [latencyOf EXCEPT ![probe.url] = w]
        /\ probe' = Scored(s)
    BY <1>7 DEF Sampled
  <2>2. w \in StatsRecs
    BY <1>1 DEF StatsRecs
  <2> HIDE DEF w
  <2>3. latencyOf' \in [1..Len(Urls) -> StatsRecs]
    BY <1>1, <2>1, <2>2
  <2>4. s \in ScoreRecs /\ s.sampled = clock /\ s.used = clock
    <3>1. Score(l, failed, probe.latency) \in Nat
      BY <1>1, <1>2, <2>1
    <3> QED
      BY <1>1, <3>1 DEF ScoreRecs
  <2> HIDE DEF s
  <2>5. FreshScore(s)
    BY <1>1, <2>4 DEF FreshScore
  <2>6. /\ Scored(s).pc \in {"chosen", "health"} /\ FreshScores(Scored(s).scores)
        /\ Scored(s).pc = "health" => Scored(s).url \in 1..Len(Urls)
    BY <1>1, <2>1, <2>4, <2>5, ScoredFresh
  <2> QED
    BY <1>1, <2>1, <2>3, <2>6 DEF HealthInv
<1> QED
  BY <1>3, <1>4, <1>5, <1>6, <1>7 DEF HealthNext

(* Among scored endpoints there is a best one. *)
LEMMA BestExists ==
    ASSUME NEW scores, FreshScores(scores)
    PROVE  LET up == {u \in DOMAIN scores : scores[u].healthy} IN
           /\ up = {} => BestOf(scores) = 0
           /\ up # {} =>
                 /\ BestOf(scores) \in up
                 /\ \A w \in up : scores[BestOf(scores)].score <= scores[w].score
<1> DEFINE up == {u \in DOMAIN scores : scores[u].healthy}
           Best(u) == \A w \in up : scores[u].score < scores[w].score
                                    \/ (scores[u].score = scores[w].score /\ u <= w)
<1>1. BestOf(scores) = IF up = {} THEN 0 ELSE CHOOSE u \in up : Best(u)
  BY DEF BestOf
<1>2. /\ DOMAIN scores = 1..Len(scores) /\ Len(scores) \in Nat
      /\ \A u \in 1..Len(scores) : scores[u].score \in Nat
  <2>1. scores \in Seq(ScoreRecs)
    BY DEF FreshScores
  <2>2. \A u \in 1..Len(scores) : scores[u] \in ScoreRecs
    <3> HIDE DEF ScoreRecs
    <3> QED
      BY <2>1, ElementIs
  <2> QED
    BY <2>1, <2>2 DEF ScoreRecs
<1>3. \A u \in up : u \in Nat /\ scores[u].score \in Nat
  BY <1>2
<1> SUFFICES ASSUME up # {}
             PROVE  /\ BestOf(scores) \in up
                    /\ \A w \in up : scores[BestOf(scores)].score <= scores[w].score
  BY <1>1
<1> HIDE DEF up
<1> DEFINE values == {scores[u].score : u \in up}
<1>4. PICK m \in values : \A j \in values : m <= j
  <2>1. values \in SUBSET Nat /\ values # {}
    BY <1>3
  <2> HIDE DEF values
  <2> QED
    BY <2>1, LeastNat
<1> DEFINE least == {u \in up : scores[u].score = m}
<1>5. PICK u \in least : \A w \in least : u <= w
  <2>1. least \in SUBSET Nat /\ least # {}
    BY <1>3, <1>4
  <2> HIDE DEF least
  <2> QED
    BY <2>1, LeastNat
<1>6. u \in up /\ Best(u)
  <2>1. \A w \in up : m <= scores[w].score /\ m \in Nat
    BY <1>3, <1>4
  <2> QED
    BY <1>3, <1>5, <2>1
<1>7. BestOf(scores) \in up /\ Best(BestOf(scores))
  <2> HIDE DEF Best
  <2> QED
    BY <1>1, <1>6
<1> QED
  BY <1>3, <1>7

LEMMA HealthIsFresh == HealthInv => BestOnFreshSamples
<1> SUFFICES ASSUME HealthInv, probe.pc = "chosen"
             PROVE  LET b == BestOf(probe.scores) IN
                    /\ b # 0 => probe.scores[b].healthy
                    /\ \A u \in DOMAIN probe.scores :
                          probe.scores[u].healthy =>
                             probe.scores[u].used - probe.scores[u].sampled < LatencyTTL
  BY DEF BestOnFreshSamples
<1> DEFINE scores == probe.scores
<1>1. FreshScores(scores)
  BY DEF HealthInv
<1>2. BestOf(scores) # 0 => scores[BestOf(scores)].healthy
  <2> HIDE DEF scores
  <2> QED
    BY <1>1, BestExists
<1>3. DOMAIN scores = 1..Len(scores)
  BY <1>1 DEF FreshScores
<1> QED
  BY <1>1, <1>2, <1>3 DEF FreshScores, FreshScore

LEMMA MetricIsInOrder == MetricInv => PointsInOrder
<1> SUFFICES ASSUME MetricInv, NEW i \in DOMAIN instances,
                    NEW k \in 1..(Len(arrays[instances[i].data]) - 1)
             PROVE  arrays[instances[i].data][k] <= arrays[instances[i].data][k + 1]
  BY DEF PointsInOrder
<1>1. i \in 1..Len(instances)
  BY SMTT(60) DEF MetricInv
<1> DEFINE d == arrays[instances[i].data]
<1>2. InOrderTo(d, clock)
  BY <1>1 DEF MetricInv
<1> HIDE DEF d
<1>3. Len(d) \in Nat /\ \A a, b \in 1..Len(d) : a <= b => d[a] <= d[b]
  BY <1>2 DEF InOrderTo
<1>4. k \in 1..Len(d) /\ k + 1 \in 1..Len(d) /\ k <= k + 1
  BY <1>3 DEF d
<1> QED
  BY <1>3, <1>4 DEF d

(* What monitoring shows and chooses rests on measurements in their order   *)
(* and within their time to live (monitoring.ts:636-713,                    *)
(* health-check.ts:284-355), for any number of collections that overlap an  *)
(* update, a deletion or a prune, any cap on the points and any endpoints:  *)
(* every recentData array is in order whichever objects share it, and       *)
(* among the healthy endpoints there is always a best one to answer.        *)
THEOREM MeasurementsAreSound == MarketSpec => []MeasurementsSound
<1>1. MarketInit => MetricInv /\ HealthInv
  BY MetricInitInv, HealthInitInv DEF MarketInit
<1>2. MetricInv /\ HealthInv /\ [MarketNext]_marketVars => MetricInv' /\ HealthInv'
  <2> SUFFICES ASSUME MetricInv, HealthInv, [MarketNext]_marketVars PROVE MetricInv' /\ HealthInv'
    OBVIOUS
  <2>1. \/ ClockTicks
        \/ MetricNext /\ UNCHANGED <<clock, healthVars>>
        \/ HealthNext /\ UNCHANGED <<clock, metricVars>>
        \/ UNCHANGED monitoringVars
    BY DEF MarketNext, MonitoringPart, marketVars
  <2>2. CASE ClockTicks
    BY <2>2, TickInOrder, TickHealth
  <2>3. CASE MetricNext /\ UNCHANGED <<clock, healthVars>>
    <3>1. MetricInv'
      BY <2>3, MetricStepInv
    <3>2. HealthInv'
      BY <2>3 DEF HealthInv, healthVars
    <3> QED
      BY <3>1, <3>2
  <2>4. CASE HealthNext /\ UNCHANGED <<clock, metricVars>>
    <3>1. HealthInv'
      BY <2>4, HealthStepInv
    <3>2. MetricInv'
      BY <2>4 DEF MetricInv, metricVars
    <3> QED
      BY <3>1, <3>2
  <2>5. CASE UNCHANGED monitoringVars
    BY <2>5 DEF monitoringVars, metricVars, healthVars, MetricInv, HealthInv
  <2> QED
    BY <2>1, <2>2, <2>3, <2>4, <2>5
<1>3. MetricInv /\ HealthInv => MeasurementsSound
  BY MetricIsInOrder, HealthIsFresh DEF MeasurementsSound
<1> QED
  BY <1>1, <1>2, <1>3, PTL DEF MarketSpec

-----------------------------------------------------------------------------
(* The arithmetic of the pools: isqrt, quotes and the product they keep. *)

(* The integer square root. *)

(* Where the iteration goes from x, and the function it computes. *)
NewtonStep(n, x) == (x + n \div x) \div 2
Iterates(n, m, f) ==
    /\ f \in [1..m -> Nat]
    /\ \A x \in 1..m : f[x] = IF NewtonStep(n, x) < x THEN f[NewtonStep(n, x)] ELSE x

LEMMA NewtonStepIs ==
    ASSUME NEW n \in Nat, NEW x \in 1..n
    PROVE  /\ n \div x \in Nat \ {0}
           /\ (n \div x) * x <= n /\ n < (n \div x + 1) * x
           /\ NewtonStep(n, x) \in Nat \ {0}
           /\ 2 * NewtonStep(n, x) <= x + n \div x
           /\ x + n \div x <= 2 * NewtonStep(n, x) + 1
<1> DEFINE q == n \div x
<1>1. q \in Nat /\ q * x <= n /\ n < (q + 1) * x
  OBVIOUS
<1>2. q # 0
  BY <1>1
<1> HIDE DEF q
<1>3. x + q \in Nat /\ x + q >= 2
  BY <1>1, <1>2
<1>4. (x + q) \div 2 \in Nat \ {0} /\ 2 * ((x + q) \div 2) <= x + q
      /\ x + q <= 2 * ((x + q) \div 2) + 1
  BY <1>3
<1> QED
  BY <1>1, <1>2, <1>4 DEF q, NewtonStep

(* The recursion is well founded: there is such a function. *)
LEMMA NewtonExists ==
    ASSUME NEW n \in Nat, NEW m \in 0..n
    PROVE  \E f : Iterates(n, m, f)
<1> DEFINE bad == {k \in 0..n : ~ \E f : Iterates(n, k, f)}
<1>1. SUFFICES ASSUME bad # {} PROVE FALSE
  OBVIOUS
<1>2. PICK k \in bad : \A j \in bad : k <= j
  <2>1. bad \in SUBSET Nat
    OBVIOUS
  <2> QED
    BY <1>1, <2>1, LeastNat
<1>3. k # 0
  <2>1. Iterates(n, 0, [x \in 1..0 |-> 0])
    BY DEF Iterates
  <2> QED
    BY <2>1
<1>4. PICK f : Iterates(n, k - 1, f)
  <2>1. k - 1 \in 0..n /\ k - 1 \notin bad
    BY <1>2, <1>3
  <2> QED
    BY <2>1
<1> DEFINE y == NewtonStep(n, k)
           g == [x \in 1..k |-> IF x < k THEN f[x] ELSE IF y < k THEN f[y] ELSE k]
<1>5. k \in 1..n /\ y \in Nat \ {0}
  BY <1>2, <1>3, NewtonStepIs
<1> HIDE DEF bad, y
<1>6. g \in [1..k -> Nat]
  BY <1>4, <1>5 DEF Iterates
<1>7. \A x \in 1..k : g[x] = IF NewtonStep(n, x) < x THEN g[NewtonStep(n, x)] ELSE x
  <2> SUFFICES ASSUME NEW x \in 1..k
               PROVE  g[x] = IF NewtonStep(n, x) < x THEN g[NewtonStep(n, x)] ELSE x
    OBVIOUS
  <2>1. NewtonStep(n, x) \in Nat \ {0}
    <3>1. x \in 1..n
      BY <1>5
    <3> QED
      BY <3>1, NewtonStepIs, Zenon
  <2>2. CASE x < k
    BY <1>4, <1>5, <2>1, <2>2 DEF Iterates
  <2>3. CASE x = k
    BY <1>5, <2>1, <2>3 DEF y
  <2> QED
    BY <1>5, <2>2, <2>3
<1>8. Iterates(n, k, g)
  BY <1>6, <1>7 DEF Iterates
<1> QED
  BY <1>2, <1>8 DEF bad

(* Two such functions are one, so isqrt is the value of any. *)
LEMMA IsqrtIterates ==
    ASSUME NEW n \in Nat \ {0}
    PROVE  \E f : Iterates(n, n, f) /\ isqrt(n) = f[n]
<1> DEFINE F(f) == [x \in 1..n |-> IF NewtonStep(n, x) < x THEN f[NewtonStep(n, x)] ELSE x]
<1>1. PICK f : Iterates(n, n, f)
  BY NewtonExists
<1>2. f = F(f)
  BY <1>1 DEF Iterates
<1>3. (CHOOSE h : h = F(h)) = F(CHOOSE h : h = F(h))
  <2> HIDE DEF F
  <2> QED
    BY <1>2
<1> DEFINE c == CHOOSE h : h = F(h)
<1>4. isqrt(n) = c[n]
  BY DEF isqrt, NewtonStep
<1>5. c = F(c)
  BY <1>3
<1> HIDE DEF c
<1>6. \A x \in 1..n : c[x] = IF NewtonStep(n, x) < x THEN c[NewtonStep(n, x)] ELSE x
  BY <1>5
<1>7. \A x \in 1..n : c[x] = f[x]
  <2> DEFINE bad == {x \in 1..n : c[x] # f[x]}
  <2> SUFFICES ASSUME bad # {} PROVE FALSE
    OBVIOUS
  <2>1. PICK x \in bad : \A j \in bad : x <= j
    <3>1. bad \in SUBSET Nat
      OBVIOUS
    <3> QED
      BY <3>1, LeastNat
  <2>2. x \in 1..n /\ c[x] # f[x]
    BY <2>1
  <2>3. NewtonStep(n, x) \in Nat \ {0}
    BY <2>2, NewtonStepIs
  <2>4. NewtonStep(n, x) < x => c[NewtonStep(n, x)] = f[NewtonStep(n, x)]
    BY <2>1, <2>2, <2>3
  <2> QED
    BY <1>1, <1>6, <2>2, <2>4 DEF Iterates
<1> QED
  BY <1>1, <1>4, <1>7

(* A step from above the root stays above it, and only the root stops. *)
LEMMA NewtonApproaches ==
    ASSUME NEW n \in Nat, NEW x \in 1..n
    PROVE  /\ n < (NewtonStep(n, x) + 1) * (NewtonStep(n, x) + 1)
           /\ NewtonStep(n, x) >= x => x * x <= n
<1> DEFINE q == n \div x
           y == NewtonStep(n, x)
<1>0. /\ q \in Nat \ {0} /\ y \in Nat \ {0} /\ q * x <= n /\ n < (q + 1) * x
      /\ 2 * y <= x + q /\ x + q <= 2 * y + 1
  BY NewtonStepIs, Zenon
<1>1. /\ q \in Nat /\ y \in Nat /\ x \in Nat /\ q * x <= n /\ n < (q + 1) * x
      /\ 2 * y <= x + q /\ x + q <= 2 * y + 1
  <2> HIDE DEF q, y
  <2> QED
    BY <1>0
<1> HIDE DEF q, y
<1>2. n < (y + 1) * (y + 1)
  <2>1. (x + q + 1) * (x + q + 1) <= (2 * y + 2) * (2 * y + 2)
    BY <1>1
  <2>2. 4 * ((q + 1) * x) <= (x + q + 1) * (x + q + 1)
    <3>1. (x + q + 1) * (x + q + 1) - 4 * ((q + 1) * x) = (x - (q + 1)) * (x - (q + 1))
      BY <1>1
    <3>2. (x - (q + 1)) * (x - (q + 1)) >= 0
      BY <1>1
    <3> QED
      BY <1>1, <3>1, <3>2
  <2>3. (2 * y + 2) * (2 * y + 2) = 4 * ((y + 1) * (y + 1))
    BY <1>1
  <2> QED
    BY <1>1, <2>1, <2>2, <2>3
<1>3. y >= x => x * x <= n
  <2> SUFFICES ASSUME y >= x PROVE x * x <= n
    OBVIOUS
  <2>1. x <= q
    BY <1>1
  <2>2. x * x <= q * x
    BY <1>1, <2>1
  <2> QED
    BY <1>1, <2>2
<1> QED
  BY <1>2, <1>3 DEF y

(* isqrt (pair-math.ts) is the floor of the square root, for every number. *)
THEOREM IsqrtIsFloor ==
    ASSUME NEW n \in Nat
    PROVE  isqrt(n) \in Nat /\ isqrt(n) * isqrt(n) <= n
           /\ n < (isqrt(n) + 1) * (isqrt(n) + 1)
<1>1. CASE n = 0
  BY <1>1 DEF isqrt
<1>2. CASE n # 0
  <2>1. PICK f : Iterates(n, n, f) /\ isqrt(n) = f[n]
    BY <1>2, IsqrtIterates
  <2> DEFINE Root(r) == r * r <= n /\ n < (r + 1) * (r + 1)
             bad == {x \in 1..n : n < (x + 1) * (x + 1) /\ ~Root(f[x])}
  <2>2. bad = {}
    <3> SUFFICES ASSUME bad # {} PROVE FALSE
      OBVIOUS
    <3>1. PICK x \in bad : \A j \in bad : x <= j
      <4>1. bad \in SUBSET Nat
        OBVIOUS
      <4> QED
        BY <4>1, LeastNat
    <3>2. x \in 1..n /\ n < (x + 1) * (x + 1) /\ ~Root(f[x])
      BY <3>1
    <3> DEFINE y == NewtonStep(n, x)
    <3>3. y \in Nat \ {0} /\ n < (y + 1) * (y + 1) /\ (y >= x => x * x <= n)
      BY <3>2, NewtonStepIs, NewtonApproaches
    <3>4. f[x] = IF y < x THEN f[y] ELSE x
      BY <2>1, <3>2 DEF Iterates
    <3> HIDE DEF y, Root
    <3>5. CASE y < x
      <4>1. y \in 1..n /\ y \notin bad
        BY <3>1, <3>2, <3>3, <3>5
      <4> QED
        BY <3>2, <3>3, <3>4, <3>5, <4>1
    <3>6. CASE y >= x
      BY <3>2, <3>3, <3>4, <3>6 DEF Root
    <3> QED
      BY <3>2, <3>3, <3>5, <3>6
  <2>3. n < (n + 1) * (n + 1)
    OBVIOUS
  <2>4. Root(f[n]) /\ f[n] \in Nat
    BY <1>2, <2>1, <2>2, <2>3 DEF Iterates
  <2> QED
    BY <2>1, <2>4
<1> QED
  BY <1>1, <1>2

(* Arithmetic of the pools. *)

LEMMA QuotientIs ==
    ASSUME NEW a \in Nat, NEW d \in Nat \ {0}
    PROVE  a \div d \in Nat /\ (a \div d) * d <= a /\ a < (a \div d + 1) * d
  OBVIOUS

LEMMA TimesGrows ==
    ASSUME NEW a \in Nat, NEW b \in Nat, NEW c \in Nat, NEW d \in Nat, a <= b, c <= d
    PROVE  a * c <= b * d
<1>1. a * c <= b * c /\ b * c <= b * d
  OBVIOUS
<1> QED
  BY <1>1

LEMMA TimesCancels ==
    ASSUME NEW a \in Int, NEW b \in Int, NEW d \in Nat \ {0}, a * d <= b * d
    PROVE  a <= b
<1> SUFFICES ASSUME b < a PROVE FALSE
  OBVIOUS
<1>1. a - b >= 1 /\ a - b \in Nat
  OBVIOUS
<1>2. (a - b) * d >= 1
  BY <1>1
<1> QED
  BY <1>2

(* The quotient is the largest number whose multiple fits. *)
LEMMA QuotientLargest ==
    ASSUME NEW a \in Nat, NEW d \in Nat \ {0}, NEW q \in Nat, q * d <= a
    PROVE  q <= a \div d
<1> DEFINE w == a \div d
<1>1. w \in Nat /\ a < (w + 1) * d
  BY QuotientIs
<1> HIDE DEF w
<1>2. q * d < (w + 1) * d
  BY <1>1
<1>3. q < w + 1
  <2> SUFFICES ASSUME w + 1 <= q PROVE FALSE
    BY <1>1
  <2>1. (w + 1) * d <= q * d
    BY <1>1, TimesGrows
  <2> QED
    BY <1>1, <1>2, <2>1
<1> QED
  BY <1>1, <1>3 DEF w

AfterFee == BPS - Fee

LEMMA AfterFeeIs == BPS \in Nat \ {0} /\ AfterFee \in Nat \ {0} /\ AfterFee <= BPS
  BY AmmAssumption DEF AfterFee

(* What goes out of a pool for x is the most that x pays for; it never       *)
(* empties a funded pool.                                                    *)
LEMMA AmountOutIs ==
    ASSUME NEW x \in Nat, NEW rIn \in Nat, NEW rOut \in Nat, x + rIn > 0
    PROVE  /\ getAmountOut(x, rIn, rOut) \in Nat
           /\ getAmountOut(x, rIn, rOut) * (rIn * BPS + x * AfterFee) <= x * AfterFee * rOut
           /\ rIn * BPS + x * AfterFee \in Nat \ {0} /\ x * AfterFee * rOut \in Nat
           /\ getAmountOut(x, rIn, rOut) <= rOut
           /\ rIn > 0 /\ rOut > 0 => getAmountOut(x, rIn, rOut) < rOut
<1> DEFINE y == getAmountOut(x, rIn, rOut)
           d == rIn * BPS + x * AfterFee
           a == x * AfterFee * rOut
<1>1. d \in Nat \ {0} /\ a \in Nat
  <2>1. rIn * BPS \in Nat /\ x * AfterFee \in Nat /\ a \in Nat
    BY AfterFeeIs
  <2>2. rIn > 0 => rIn * BPS > 0
    BY AfterFeeIs
  <2>3. x > 0 => x * AfterFee > 0
    BY AfterFeeIs
  <2> QED
    BY <2>1, <2>2, <2>3
<1>2. y = a \div d
  BY DEF getAmountOut, AfterFee
<1> HIDE DEF y, d, a
<1>3. y \in Nat /\ y * d <= a
  BY <1>1, <1>2, QuotientIs
<1>4. a <= rOut * d
  <2>1. rOut * d = rOut * (rIn * BPS) + x * AfterFee * rOut
    BY AfterFeeIs DEF d
  <2>2. rOut * (rIn * BPS) >= 0
    BY AfterFeeIs
  <2> QED
    BY AfterFeeIs, <2>1, <2>2, <1>1 DEF a
<1>5. y <= rOut
  BY <1>1, <1>3, <1>4, TimesCancels
<1>6. ASSUME rIn > 0, rOut > 0 PROVE y < rOut
  <2>1. rOut * d = rOut * (rIn * BPS) + a
    BY AfterFeeIs DEF d, a
  <2>2. rOut * (rIn * BPS) \in Nat \ {0}
    BY AfterFeeIs, <1>6
  <2>3. y # rOut
    <3>1. a < rOut * d
      BY <1>1, <2>1, <2>2
    <3>2. y * d \in Int /\ rOut * d \in Int
      BY <1>1, <1>3
    <3>3. y * d # rOut * d
      BY <1>1, <1>3, <3>1, <3>2
    <3> QED
      BY <3>3
  <2> QED
    BY <1>3, <1>5, <2>3
<1> QED
  BY <1>1, <1>3, <1>5, <1>6 DEF y, d, a

(* A swap does not lower the product of the reserves. *)
LEMMA SwapKeepsProduct ==
    ASSUME NEW x \in Nat, NEW rIn \in Nat, NEW rOut \in Nat, NEW y \in Nat, y <= rOut,
           y * (rIn * BPS + x * AfterFee) <= x * AfterFee * rOut
    PROVE  rIn * rOut <= (rIn + x) * (rOut - y)
<1>1. (y * (rIn + x)) * BPS <= (x * rOut) * BPS
  <2>1. (y * (rIn + x)) * BPS = y * (rIn * BPS + x * AfterFee) + (x * y) * (BPS - AfterFee)
    BY AfterFeeIs
  <2>2. (x * y) * (BPS - AfterFee) <= (x * rOut) * (BPS - AfterFee)
    <3>1. x * y \in Nat /\ x * rOut \in Nat /\ x * y <= x * rOut
      OBVIOUS
    <3>2. BPS - AfterFee \in Nat
      BY AfterFeeIs
    <3> QED
      BY <3>1, <3>2, TimesGrows
  <2>3. (x * rOut) * BPS = x * AfterFee * rOut + (x * rOut) * (BPS - AfterFee)
    BY AfterFeeIs
  <2>4. (x * rOut) * BPS \in Int /\ (y * (rIn + x)) * BPS \in Int
        /\ (x * y) * (BPS - AfterFee) \in Int /\ (x * rOut) * (BPS - AfterFee) \in Int
        /\ y * (rIn * BPS + x * AfterFee) \in Int /\ x * AfterFee * rOut \in Int
    BY AfterFeeIs
  <2> QED
    BY <2>1, <2>2, <2>3, <2>4
<1>2. y * (rIn + x) <= x * rOut
  <2>1. y * (rIn + x) \in Int /\ x * rOut \in Int
    OBVIOUS
  <2> QED
    BY <1>1, <2>1, AfterFeeIs, TimesCancels
<1>3. (rIn + x) * (rOut - y) = rIn * rOut + x * rOut - y * (rIn + x)
  OBVIOUS
<1> QED
  BY <1>2, <1>3

(* What an exact output costs is enough to get it. *)
LEMMA AmountInSuffices ==
    ASSUME NEW y \in Nat, NEW rIn \in Nat, NEW rOut \in Nat, y < rOut
    PROVE  /\ getAmountIn(y, rIn, rOut) \in Nat \ {0}
           /\ y <= getAmountOut(getAmountIn(y, rIn, rOut), rIn, rOut)
<1> DEFINE a == rIn * y * BPS
           d == (rOut - y) * AfterFee
           x == getAmountIn(y, rIn, rOut)
<1>1. a \in Nat /\ d \in Nat \ {0}
  BY AfterFeeIs
<1>2. x = a \div d + 1
  BY DEF getAmountIn, AfterFee
<1>3. a \div d \in Nat /\ a < (a \div d + 1) * d
  BY <1>1, QuotientIs
<1> HIDE DEF x
<1>4. x \in Nat \ {0} /\ a < x * d
  <2> HIDE DEF a, d
  <2> QED
    BY <1>2, <1>3
<1>5. y * (rIn * BPS + x * AfterFee) <= x * AfterFee * rOut
  <2>1. x * AfterFee * rOut - y * (rIn * BPS + x * AfterFee) = x * d - a
    BY AfterFeeIs, <1>4
  <2>2. y * (rIn * BPS + x * AfterFee) \in Int /\ x * AfterFee * rOut \in Int
    BY AfterFeeIs, <1>4
  <2> HIDE DEF a, d
  <2>3. x * d \in Int /\ x * d - a >= 0
    BY <1>1, <1>4
  <2> QED
    BY <2>1, <2>2, <2>3
<1>6. rIn * BPS + x * AfterFee \in Nat \ {0} /\ x * AfterFee * rOut \in Nat
  <2>1. x \in Nat /\ x + rIn > 0
    BY <1>4
  <2> QED
    BY <2>1, AmountOutIs, Zenon
<1>7. y <= (x * AfterFee * rOut) \div (rIn * BPS + x * AfterFee)
  BY <1>5, <1>6, QuotientLargest
<1> QED
  BY <1>4, <1>7 DEF getAmountOut, AfterFee, x

(* More in never gets less out. *)
LEMMA AmountOutGrows ==
    ASSUME NEW x \in Nat, NEW z \in Nat, x <= z, NEW rIn \in Nat, NEW rOut \in Nat, x + rIn > 0
    PROVE  getAmountOut(x, rIn, rOut) <= getAmountOut(z, rIn, rOut)
<1> DEFINE y == getAmountOut(x, rIn, rOut)
<1>1. /\ y \in Nat /\ y * (rIn * BPS + x * AfterFee) <= x * AfterFee * rOut /\ y <= rOut
  BY AmountOutIs
<1> HIDE DEF y
<1>2. y * (rIn * BPS + z * AfterFee) <= z * AfterFee * rOut
  <2>1. y * (rIn * BPS + z * AfterFee) = y * (rIn * BPS + x * AfterFee) + ((z - x) * AfterFee) * y
    BY <1>1, AfterFeeIs
  <2>2. z * AfterFee * rOut = x * AfterFee * rOut + ((z - x) * AfterFee) * rOut
    BY AfterFeeIs
  <2>3. (z - x) * AfterFee \in Nat
    BY AfterFeeIs
  <2>4. ((z - x) * AfterFee) * y <= ((z - x) * AfterFee) * rOut
    BY <1>1, <2>3, TimesGrows
  <2>5. /\ y * (rIn * BPS + x * AfterFee) \in Int /\ x * AfterFee * rOut \in Int
        /\ ((z - x) * AfterFee) * y \in Int /\ ((z - x) * AfterFee) * rOut \in Int
    BY <1>1, AfterFeeIs
  <2> QED
    BY <1>1, <2>1, <2>2, <2>4, <2>5
<1>3. rIn * BPS + z * AfterFee \in Nat \ {0} /\ z * AfterFee * rOut \in Nat
  <2>1. z + rIn > 0
    OBVIOUS
  <2> QED
    BY <2>1, AmountOutIs, Zenon
<1>4. y <= (z * AfterFee * rOut) \div (rIn * BPS + z * AfterFee)
  BY <1>1, <1>2, <1>3, QuotientLargest
<1> QED
  BY <1>4 DEF getAmountOut, AfterFee, y

(* What a share stands for. *)

(* When each reserve grows as the supply does, or more, so does the product  *)
(* of the reserves as the square of the supply does.                         *)
LEMMA SharesKept ==
    ASSUME NEW u \in Nat, NEW v \in Nat, NEW s \in Nat, NEW w \in Nat, NEW x \in Nat, NEW z \in Nat,
           u * z <= w * s, v * z <= x * s
    PROVE  (u * v) * z * z <= (w * x) * s * s
<1>1. u * z \in Nat /\ w * s \in Nat /\ v * z \in Nat /\ x * s \in Nat
  OBVIOUS
<1>2. (u * z) * (v * z) <= (w * s) * (x * s)
  BY <1>1, TimesGrows
<1>3. (u * z) * (v * z) = (u * v) * z * z /\ (w * s) * (x * s) = (w * x) * s * s
  OBVIOUS
<1> QED
  BY <1>2, <1>3

(* Shares minted for a deposit: the reserve grows at least as the supply. *)
LEMMA MintedShare ==
    ASSUME NEW a \in Nat, NEW r \in Nat, NEW s \in Nat, NEW l \in Nat, l * r <= a * s
    PROVE  r * (s + l) <= (r + a) * s
<1>1. r * (s + l) = r * s + l * r /\ (r + a) * s = r * s + a * s
  OBVIOUS
<1>2. r * s \in Int /\ l * r \in Int /\ a * s \in Int
  OBVIOUS
<1> QED
  BY <1>1, <1>2

LEMMA ComputeMintIs ==
    ASSUME NEW a \in Nat, NEW b \in Nat, NEW ra \in Nat, NEW rb \in Nat, NEW s \in Nat,
           s > 0 => ra > 0 /\ rb > 0
    PROVE  /\ computeMint(a, b, ra, rb, s) \in Nat
           /\ s > 0 => /\ computeMint(a, b, ra, rb, s) * ra <= a * s
                       /\ computeMint(a, b, ra, rb, s) * rb <= b * s
<1>1. CASE s = 0
  <2>1. a * b \in Nat
    OBVIOUS
  <2>2. isqrt(a * b) \in Nat
    BY <2>1, IsqrtIsFloor
  <2> QED
    BY <1>1, <2>2, AmmAssumption DEF computeMint
<1>2. CASE s # 0
  <2> DEFINE la == (a * s) \div ra
             lb == (b * s) \div rb
  <2>1. ra \in Nat \ {0} /\ rb \in Nat \ {0} /\ a * s \in Nat /\ b * s \in Nat
    BY <1>2
  <2>2. la \in Nat /\ la * ra <= a * s
    BY <2>1, QuotientIs
  <2>3. lb \in Nat /\ lb * rb <= b * s
    BY <2>1, QuotientIs
  <2>4. computeMint(a, b, ra, rb, s) = IF la < lb THEN la ELSE lb
    BY <1>2 DEF computeMint
  <2> HIDE DEF la, lb
  <2> DEFINE m == IF la < lb THEN la ELSE lb
  <2>5. m \in Nat /\ m <= la /\ m <= lb
    BY <2>2, <2>3
  <2> HIDE DEF m
  <2>6. m * ra <= la * ra /\ m * rb <= lb * rb
    BY <2>2, <2>3, <2>5, TimesGrows
  <2>7. /\ m * ra \in Int /\ la * ra \in Int /\ m * rb \in Int /\ lb * rb \in Int
    BY <2>2, <2>3, <2>5
  <2> QED
    BY <2>1, <2>2, <2>3, <2>4, <2>5, <2>6, <2>7 DEF m
<1> QED
  BY <1>1, <1>2

LEMMA ComputeBurnIs ==
    ASSUME NEW l \in Nat, NEW r \in Nat, NEW s \in Nat \ {0}, l <= s
    PROVE  /\ computeBurn(l, r, s) \in Nat /\ computeBurn(l, r, s) <= r
           /\ r * (s - l) <= (r - computeBurn(l, r, s)) * s
           /\ l < s /\ r > 0 => computeBurn(l, r, s) < r
<1> DEFINE y == computeBurn(l, r, s)
<1>1. l * r \in Nat
  OBVIOUS
<1>2. y \in Nat /\ y * s <= l * r
  BY <1>1, QuotientIs DEF computeBurn
<1> HIDE DEF y
<1>3. l * r <= r * s
  <2>1. l * r <= s * r
    BY TimesGrows
  <2> QED
    BY <2>1
<1>4. y <= r
  <2>1. y * s \in Int /\ l * r \in Int /\ r * s \in Int
    BY <1>2
  <2>2. y * s <= r * s
    BY <1>2, <1>3, <2>1
  <2> QED
    BY <1>2, <2>2, TimesCancels
<1>5. r * (s - l) <= (r - y) * s
  <2>1. r * (s - l) = r * s - l * r /\ (r - y) * s = r * s - y * s
    BY <1>2
  <2>2. y * s \in Int /\ l * r \in Int /\ r * s \in Int
    BY <1>2
  <2> QED
    BY <1>2, <2>1, <2>2
<1>6. ASSUME l < s, r > 0 PROVE y < r
  <2> SUFFICES ASSUME y = r PROVE FALSE
    BY <1>2, <1>4
  <2>1. r * (s - l) <= 0
    BY <1>5
  <2>2. s - l \in Nat \ {0} /\ r \in Nat \ {0}
    BY <1>6
  <2>3. r * (s - l) >= 1
    BY <2>2
  <2> QED
    BY <2>1, <2>3, <2>2
<1> QED
  BY <1>2, <1>4, <1>5, <1>6 DEF y

(* The part of a one-token deposit that is swapped is not negative. *)
LEMMA SwapAmountIs ==
    ASSUME NEW b \in Nat, NEW k \in Nat, NEW f \in Nat \ {0}
    PROVE  (isqrt(b * b + k) - b) \div (2 * f) \in Nat
<1> DEFINE n == b * b + k
           q == isqrt(n)
<1>1. n \in Nat /\ b * b <= n
  <2>1. b * b \in Nat
    OBVIOUS
  <2> QED
    BY <2>1
<1> HIDE DEF n
<1>2. q \in Nat /\ n < (q + 1) * (q + 1)
  BY <1>1, IsqrtIsFloor
<1> HIDE DEF q
<1>3. b <= q
  <2> SUFFICES ASSUME q + 1 <= b PROVE FALSE
    BY <1>2
  <2>1. (q + 1) * (q + 1) <= b * b
    BY <1>2, TimesGrows
  <2>2. b * b \in Int /\ (q + 1) * (q + 1) \in Int
    BY <1>2
  <2> QED
    BY <1>1, <1>2, <2>1, <2>2
<1>4. q - b \in Nat /\ 2 * f \in Nat \ {0}
  BY <1>2, <1>3
<1>5. (q - b) \div (2 * f) \in Nat
  BY <1>4, QuotientIs
<1> QED
  BY <1>5 DEF n, q

(* A deposit of one token mints shares for what is left of it after a swap   *)
(* and for the proceeds: the swap keeps the product, the mint what a share   *)
(* stands for.                                                               *)
LEMMA OneTokenShares ==
    ASSUME NEW rIn \in Nat \ {0}, NEW rOut \in Nat \ {0}, NEW amount \in Nat, NEW s \in Nat,
           s < amount, NEW lp \in Nat
    PROVE  LET out == getAmountOut(s, rIn, rOut)
               lpIn == ((amount - s) * lp) \div (rIn + s)
               lpOut == (out * lp) \div (rOut - out)
               l == IF lpIn < lpOut THEN lpIn ELSE lpOut
           IN  /\ l \in Nat
               /\ (rIn * rOut) * (lp + l) * (lp + l) <= ((rIn + amount) * rOut) * lp * lp
<1> DEFINE out == getAmountOut(s, rIn, rOut)
           lpIn == ((amount - s) * lp) \div (rIn + s)
           lpOut == (out * lp) \div (rOut - out)
           l == IF lpIn < lpOut THEN lpIn ELSE lpOut
           R1 == rIn + s
           R2 == rOut - out
<1>1. out \in Nat /\ out < rOut /\ rIn * rOut <= R1 * R2
  <2>1. /\ out \in Nat /\ out < rOut /\ out <= rOut
        /\ out * (rIn * BPS + s * AfterFee) <= s * AfterFee * rOut
    BY AmountOutIs
  <2> HIDE DEF out
  <2> QED
    BY <2>1, SwapKeepsProduct
<1> HIDE DEF out
<1>2. R1 \in Nat \ {0} /\ R2 \in Nat \ {0} /\ amount - s \in Nat
  BY <1>1
<1>3. lpIn \in Nat /\ lpIn * R1 <= (amount - s) * lp
  <2>1. (amount - s) * lp \in Nat
    BY <1>2
  <2> QED
    BY <1>2, <2>1, QuotientIs
<1>4. lpOut \in Nat /\ lpOut * R2 <= out * lp
  <2>1. out * lp \in Nat
    BY <1>1
  <2> QED
    BY <1>2, <2>1, QuotientIs
<1> HIDE DEF lpIn, lpOut
<1>5. l \in Nat /\ l <= lpIn /\ l <= lpOut
  BY <1>3, <1>4
<1> HIDE DEF l, R1, R2
<1>6. l * R1 <= (amount - s) * lp /\ l * R2 <= out * lp
  <2>1. l * R1 <= lpIn * R1 /\ l * R2 <= lpOut * R2
    BY <1>2, <1>3, <1>4, <1>5, TimesGrows
  <2>2. /\ l * R1 \in Int /\ lpIn * R1 \in Int /\ l * R2 \in Int /\ lpOut * R2 \in Int
        /\ (amount - s) * lp \in Int /\ out * lp \in Int
    BY <1>1, <1>2, <1>3, <1>4, <1>5
  <2> QED
    BY <1>3, <1>4, <2>1, <2>2
<1>7. R1 * (lp + l) <= (R1 + (amount - s)) * lp
  BY <1>2, <1>5, <1>6, MintedShare
<1>8. R2 * (lp + l) <= (R2 + out) * lp
  BY <1>1, <1>2, <1>5, <1>6, MintedShare
<1>9. R1 + (amount - s) = rIn + amount /\ R2 + out = rOut
  BY <1>1 DEF R1, R2
<1>10. (R1 * R2) * (lp + l) * (lp + l) <= ((rIn + amount) * rOut) * lp * lp
  <2>1. /\ R1 \in Nat /\ R2 \in Nat /\ rIn + amount \in Nat /\ lp + l \in Nat
        /\ R1 * (lp + l) <= (rIn + amount) * lp /\ R2 * (lp + l) <= rOut * lp
    BY <1>2, <1>5, <1>7, <1>8, <1>9
  <2> QED
    BY <2>1, SharesKept
<1>11. (rIn * rOut) * (lp + l) * (lp + l) <= (R1 * R2) * (lp + l) * (lp + l)
  <2>1. /\ rIn * rOut \in Nat /\ R1 * R2 \in Nat /\ lp + l \in Nat
        /\ (lp + l) * (lp + l) \in Nat
    BY <1>2, <1>5
  <2>2. (rIn * rOut) * ((lp + l) * (lp + l)) <= (R1 * R2) * ((lp + l) * (lp + l))
    BY <1>1, <2>1, TimesGrows
  <2>3. /\ (rIn * rOut) * ((lp + l) * (lp + l)) = (rIn * rOut) * (lp + l) * (lp + l)
        /\ (R1 * R2) * ((lp + l) * (lp + l)) = (R1 * R2) * (lp + l) * (lp + l)
    BY <2>1, <1>2, <1>5
  <2> QED
    BY <2>2, <2>3
<1>12. /\ (rIn * rOut) * (lp + l) * (lp + l) \in Int /\ (R1 * R2) * (lp + l) * (lp + l) \in Int
       /\ ((rIn + amount) * rOut) * lp * lp \in Int
  BY <1>2, <1>5
<1>13. (rIn * rOut) * (lp + l) * (lp + l) <= ((rIn + amount) * rOut) * lp * lp
  BY <1>10, <1>11, <1>12
<1> QED
  BY <1>5, <1>13 DEF l, lpIn, lpOut, out

-----------------------------------------------------------------------------
(* The pools: what a step may do to them. *)

(* The pools: what a step may do to them. *)

PoolRecs(p) == [r : [p -> Nat], lp : Nat]
(* A pool with shares holds both its tokens. *)
PoolOK(p, e) == e \in PoolRecs(p) /\ (e.lp > 0 => \A t \in p : e.r[t] > 0)
AllPools(pl) == DOMAIN pl = Pools /\ \A p \in Pools : PoolOK(p, pl[p])

K(p, e) == LET t == CHOOSE t \in p : TRUE
               u == CHOOSE u \in p : u # t IN e.r[t] * e.r[u]
NotDiluted(p, e, f) == e.lp > 0 => K(p, e) * f.lp * f.lp <= K(p, f) * e.lp * e.lp

(* A step that moves the pools ps, and takes liquidity out of some of them. *)
PoolMoves(pl, pm, ps, drained) ==
    /\ AllPools(pm)
    /\ \A p \in Pools : /\ p \notin ps => pm[p] = pl[p]
                        /\ NotDiluted(p, pl[p], pm[p])
                        /\ p \notin drained => K(p, pl[p]) <= K(p, pm[p])

LEMMA PairIs ==
    ASSUME NEW p \in Pools, NEW t \in p
    PROVE  /\ (CHOOSE u \in p : u # t) \in p /\ (CHOOSE u \in p : u # t) # t
           /\ p = {t, CHOOSE u \in p : u # t}
<1>1. PICK a, b : p = {a, b} /\ a # b
  <2>1. 1 # 2 /\ 2 # 3 /\ 1 # 3
    OBVIOUS
  <2> QED
    BY <2>1, Zenon DEF Pools
<1>2. \E u \in p : u # t
  BY <1>1
<1> DEFINE u == CHOOSE u \in p : u # t
<1>3. u \in p /\ u # t
  BY <1>2
<1> HIDE DEF u
<1>4. p = {t, u}
  BY <1>1, <1>3
<1> QED
  BY <1>3, <1>4 DEF u

LEMMA KIs ==
    ASSUME NEW p \in Pools, NEW e \in PoolRecs(p), NEW a \in p, NEW b \in p, a # b
    PROVE  K(p, e) = e.r[a] * e.r[b] /\ K(p, e) \in Nat /\ e.r[a] \in Nat /\ e.r[b] \in Nat
           /\ p = {a, b}
<1> DEFINE t == CHOOSE t \in p : TRUE
           u == CHOOSE u \in p : u # t
<1>1. t \in p
  BY Zenon
<1>2. u \in p /\ u # t /\ p = {t, u}
  <2> HIDE DEF t
  <2> QED
    BY <1>1, PairIs
<1>3. K(p, e) = e.r[t] * e.r[u]
  BY DEF K
<1> HIDE DEF t, u
<1>4. (t = a /\ u = b) \/ (t = b /\ u = a)
  BY <1>1, <1>2
<1>5. \A w \in p : e.r[w] \in Nat
  BY DEF PoolRecs
<1>6. e.r[a] \in Nat /\ e.r[b] \in Nat
  BY <1>5
<1>7. e.r[a] * e.r[b] = e.r[b] * e.r[a] /\ e.r[a] * e.r[b] \in Nat
  BY <1>6
<1> QED
  BY <1>2, <1>3, <1>4, <1>6, <1>7

LEMMA ProductIs == \A pl, p : Product(pl, p) = K(p, pl[p])
  BY DEF Product, K

LEMMA Unmoved ==
    ASSUME NEW p \in Pools, NEW e \in PoolRecs(p)
    PROVE  NotDiluted(p, e, e) /\ K(p, e) \in Nat /\ K(p, e) <= K(p, e)
<1>1. PICK a \in p, b \in p : a # b
  <2>1. 1 # 2 /\ 2 # 3 /\ 1 # 3
    OBVIOUS
  <2> QED
    BY <2>1 DEF Pools
<1>2. K(p, e) \in Nat
  BY <1>1, KIs
<1>3. e.lp \in Nat
  BY DEF PoolRecs
<1>4. K(p, e) * e.lp * e.lp \in Int
  BY <1>2, <1>3
<1> QED
  BY <1>2, <1>4 DEF NotDiluted

(* One pool moves. *)
LEMMA OnePool ==
    ASSUME NEW pl, AllPools(pl), NEW p \in Pools, NEW f, NEW pm, pm = [pl EXCEPT ![p] = f],
           PoolOK(p, f), NotDiluted(p, pl[p], f), NEW drained,
           p \notin drained => K(p, pl[p]) <= K(p, f)
    PROVE  PoolMoves(pl, pm, {p}, drained)
<1>1. \A q \in Pools : pl[q] \in PoolRecs(q) /\ PoolOK(q, pl[q])
  BY DEF AllPools, PoolOK
<1>2. DOMAIN pm = Pools /\ pm[p] = f /\ \A q \in Pools : q # p => pm[q] = pl[q]
  BY DEF AllPools
<1>3. AllPools(pm)
  BY <1>1, <1>2 DEF AllPools
<1>4. ASSUME NEW q \in Pools
      PROVE  /\ q \notin {p} => pm[q] = pl[q]
             /\ NotDiluted(q, pl[q], pm[q])
             /\ q \notin drained => K(q, pl[q]) <= K(q, pm[q])
  <2>1. CASE q = p
    BY <1>2, <2>1
  <2>2. CASE q # p
    BY <1>1, <1>2, <2>2, Unmoved
  <2> QED
    BY <2>1, <2>2
<1> QED
  BY <1>3, <1>4 DEF PoolMoves

(* A pool that only takes a swap, whose price it is paid at least. *)
LEMMA SwapMoves ==
    ASSUME NEW p \in Pools, NEW a \in p, NEW b \in p, a # b, NEW e, PoolOK(p, e),
           NEW x \in Nat, NEW y \in Nat, y <= e.r[b],
           e.r[a] > 0 /\ e.r[b] > 0 => y < e.r[b],
           y * (e.r[a] * BPS + x * AfterFee) <= x * AfterFee * e.r[b],
           NEW f \in PoolRecs(p), f.lp = e.lp, f.r[a] = e.r[a] + x, f.r[b] = e.r[b] - y
    PROVE  PoolOK(p, f) /\ NotDiluted(p, e, f) /\ K(p, e) <= K(p, f)
<1>1. e \in PoolRecs(p) /\ e.lp \in Nat
  BY DEF PoolOK, PoolRecs
<1>2. /\ K(p, e) = e.r[a] * e.r[b] /\ K(p, e) \in Nat /\ e.r[a] \in Nat /\ e.r[b] \in Nat
      /\ K(p, f) = f.r[a] * f.r[b] /\ K(p, f) \in Nat /\ p = {a, b}
  BY <1>1, KIs
<1>3. K(p, e) <= K(p, f)
  <2> DEFINE rIn == e.r[a]
             rOut == e.r[b]
  <2>1. rIn \in Nat /\ rOut \in Nat /\ y <= rOut /\ y * (rIn * BPS + x * AfterFee) <= x * AfterFee * rOut
    BY <1>2
  <2>2. K(p, e) = rIn * rOut /\ K(p, f) = (rIn + x) * (rOut - y)
    BY <1>2
  <2> HIDE DEF rIn, rOut
  <2>3. rIn * rOut <= (rIn + x) * (rOut - y)
    BY <2>1, SwapKeepsProduct
  <2> QED
    BY <2>2, <2>3
<1>4. NotDiluted(p, e, f)
  <2> DEFINE k == K(p, e)
             m == K(p, f)
             s == e.lp
  <2>1. k \in Nat /\ m \in Nat /\ s \in Nat /\ k <= m
    BY <1>1, <1>2, <1>3
  <2> HIDE DEF k, m, s
  <2>2. s * s \in Nat
    BY <2>1
  <2>3. k * (s * s) <= m * (s * s)
    BY <2>1, <2>2, TimesGrows
  <2>4. k * s * s = k * (s * s) /\ m * s * s = m * (s * s)
    BY <2>1
  <2>5. k * s * s <= m * s * s
    BY <2>3, <2>4
  <2> QED
    BY <2>5 DEF NotDiluted, k, m, s
<1>5. ASSUME f.lp > 0 PROVE \A t \in p : f.r[t] > 0
  <2>1. e.r[a] > 0 /\ e.r[b] > 0
    BY <1>5 DEF PoolOK
  <2>2. f.r[a] > 0 /\ f.r[b] > 0
    BY <1>2, <2>1
  <2> QED
    BY <1>2, <2>2
<1> QED
  BY <1>3, <1>4, <1>5 DEF PoolOK

LEMMA PairOf ==
    ASSUME NEW p \in Pools, NEW a \in p, NEW b \in p, a # b
    PROVE  p = {a, b}
<1>1. 1 # 2 /\ 2 # 3 /\ 1 # 3
  OBVIOUS
<1> QED
  BY <1>1 DEF Pools

Exchange(p, e, a, x, y) ==
    [e EXCEPT !.r = [t \in p |-> IF t = a THEN e.r[t] + x ELSE e.r[t] - y]]

LEMMA HoldsIs ==
    ASSUME NEW pl, AllPools(pl), NEW p \in Pools, NEW a \in p, NEW b \in p, a # b,
           NEW x \in Nat, NEW y \in Nat, y <= pl[p].r[b]
    PROVE  /\ Exchange(p, pl[p], a, x, y) \in PoolRecs(p)
           /\ Holds(pl, <<a, b>>, x, y) = [pl EXCEPT ![p] = Exchange(p, pl[p], a, x, y)]
           /\ Exchange(p, pl[p], a, x, y).lp = pl[p].lp
           /\ Exchange(p, pl[p], a, x, y).r[a] = pl[p].r[a] + x
           /\ Exchange(p, pl[p], a, x, y).r[b] = pl[p].r[b] - y
<1> DEFINE e == pl[p]
           g == [t \in p |-> IF t = a THEN e.r[t] + x ELSE e.r[t] - y]
           f == [e EXCEPT !.r = g]
<1>0. p = {a, b}
  BY PairOf
<1>1. e \in PoolRecs(p)
  BY DEF AllPools, PoolOK
<1>2. /\ e.r \in [p -> Nat] /\ e.lp \in Nat
  BY <1>1 DEF PoolRecs
<1>3. g \in [p -> Nat] /\ g[a] = e.r[a] + x /\ g[b] = e.r[b] - y
  BY <1>0, <1>2
<1>4. Holds(pl, <<a, b>>, x, y) = [pl EXCEPT ![p] = f]
  <2>1. <<a, b>>[1] = a /\ <<a, b>>[2] = b
    OBVIOUS
  <2> QED
    BY <1>0, <2>1, Zenon DEF Holds
<1> HIDE DEF g
<1>5. f \in PoolRecs(p) /\ f.lp = e.lp /\ f.r = g
  BY <1>1, <1>3 DEF PoolRecs
<1> HIDE DEF f
<1>6. Exchange(p, pl[p], a, x, y) = f
  BY DEF Exchange, f, g
<1> QED
  BY <1>3, <1>4, <1>5, <1>6

(* A swap moves its pool, and no other. *)
LEMMA SwapOfPool ==
    ASSUME NEW pl, AllPools(pl), NEW p \in Pools, NEW a \in p, NEW b \in p, a # b,
           NEW x \in Nat, NEW y \in Nat, y <= pl[p].r[b],
           pl[p].r[a] > 0 /\ pl[p].r[b] > 0 => y < pl[p].r[b],
           y * (pl[p].r[a] * BPS + x * AfterFee) <= x * AfterFee * pl[p].r[b]
    PROVE  PoolMoves(pl, Holds(pl, <<a, b>>, x, y), {p}, {})
<1> DEFINE f == Exchange(p, pl[p], a, x, y)
<1>1. /\ f \in PoolRecs(p) /\ Holds(pl, <<a, b>>, x, y) = [pl EXCEPT ![p] = f]
      /\ f.lp = pl[p].lp /\ f.r[a] = pl[p].r[a] + x /\ f.r[b] = pl[p].r[b] - y
  BY HoldsIs
<1> HIDE DEF f
<1> DEFINE e == pl[p]
           pm == Holds(pl, <<a, b>>, x, y)
<1>2. PoolOK(p, e)
  BY DEF AllPools
<1>4. PoolOK(p, f) /\ NotDiluted(p, e, f) /\ K(p, e) <= K(p, f)
  <2>1. /\ y <= e.r[b] /\ (e.r[a] > 0 /\ e.r[b] > 0 => y < e.r[b])
        /\ y * (e.r[a] * BPS + x * AfterFee) <= x * AfterFee * e.r[b]
        /\ f.lp = e.lp /\ f.r[a] = e.r[a] + x /\ f.r[b] = e.r[b] - y
    BY <1>1
  <2> HIDE DEF e
  <2> QED
    BY <1>1, <1>2, <2>1, SwapMoves
<1>5. PoolMoves(pl, pm, {p}, {})
  <2>1. pm = [pl EXCEPT ![p] = f]
    BY <1>1
  <2> HIDE DEF pm
  <2> QED
    BY <1>4, <2>1, OnePool
<1> QED
  BY <1>5

LEMMA TwoPools ==
    ASSUME NEW pl, NEW pm, NEW pn, NEW p \in Pools, NEW q \in Pools, p # q,
           AllPools(pl), PoolMoves(pl, pm, {p}, {}), PoolMoves(pm, pn, {q}, {})
    PROVE  PoolMoves(pl, pn, {p, q}, {})
<1>1. AllPools(pm) /\ AllPools(pn)
  BY DEF PoolMoves
<1>2. ASSUME NEW o \in Pools
      PROVE  /\ o \notin {p, q} => pn[o] = pl[o]
             /\ NotDiluted(o, pl[o], pn[o])
             /\ o \notin {} => K(o, pl[o]) <= K(o, pn[o])
  <2>1. /\ o # p => pm[o] = pl[o]
        /\ NotDiluted(o, pl[o], pm[o]) /\ K(o, pl[o]) <= K(o, pm[o])
    BY DEF PoolMoves
  <2>2. /\ o # q => pn[o] = pm[o]
        /\ NotDiluted(o, pm[o], pn[o]) /\ K(o, pm[o]) <= K(o, pn[o])
    BY DEF PoolMoves
  <2>3. CASE o = q
    BY <2>1, <2>2, <2>3
  <2>4. CASE o # q
    BY <2>1, <2>2, <2>4
  <2> QED
    BY <2>3, <2>4
<1> QED
  BY <1>1, <1>2 DEF PoolMoves

LEMMA AmountsAre == \A x \in Amounts : x \in Nat \ {0}
  BY AmmAssumption

LEMMA ReserveIs ==
    ASSUME NEW pl, NEW p \in Pools, NEW a \in p, NEW b \in p, a # b
    PROVE  Reserve(pl, <<a, b>>, 1) = pl[p].r[a] /\ Reserve(pl, <<a, b>>, 2) = pl[p].r[b]
<1>1. p = {a, b}
  BY PairOf
<1>2. <<a, b>>[1] = a /\ <<a, b>>[2] = b
  OBVIOUS
<1> QED
  BY <1>1, <1>2, Zenon DEF Reserve

LEMMA PoolIs ==
    ASSUME NEW pl, AllPools(pl), NEW p \in Pools
    PROVE  /\ PoolOK(p, pl[p]) /\ pl[p] \in PoolRecs(p) /\ pl[p].lp \in Nat
           /\ pl[p].r \in [p -> Nat] /\ \A t \in p : pl[p].r[t] \in Nat
  BY DEF AllPools, PoolOK, PoolRecs

(* The contract swaps x for what getAmountOut says. *)
LEMMA ExactIn ==
    ASSUME NEW pl, AllPools(pl), NEW p \in Pools, NEW a \in p, NEW b \in p, a # b,
           NEW x \in Nat \ {0}, NEW y, y = getAmountOut(x, pl[p].r[a], pl[p].r[b])
    PROVE  y \in Nat /\ PoolMoves(pl, Holds(pl, <<a, b>>, x, y), {p}, {})
<1> DEFINE rIn == pl[p].r[a]
           rOut == pl[p].r[b]
<1>1. rIn \in Nat /\ rOut \in Nat
  BY PoolIs
<1>2. x + rIn > 0
  BY <1>1
<1>3. y = getAmountOut(x, rIn, rOut)
  OBVIOUS
<1> HIDE DEF rIn, rOut
<1>4. /\ y \in Nat /\ y <= rOut /\ (rIn > 0 /\ rOut > 0 => y < rOut)
      /\ y * (rIn * BPS + x * AfterFee) <= x * AfterFee * rOut
  BY <1>1, <1>2, <1>3, AmountOutIs
<1> QED
  BY <1>4, SwapOfPool DEF rIn, rOut

LEMMA OtherSwapMoves ==
    ASSUME AllPools(pool), NEW p \in Pools, NEW t \in p, NEW x \in Amounts, OtherSwap(p, t, x)
    PROVE  PoolMoves(pool, pool', {p}, {})
<1> DEFINE u == CHOOSE u \in p : u # t
           h == <<t, u>>
           y == getAmountOut(x, Reserve(pool, h, 1), Reserve(pool, h, 2))
<1>1. u \in p /\ u # t
  BY PairIs
<1>2. pool' = Holds(pool, h, x, y)
  BY DEF OtherSwap
<1> HIDE DEF u
<1>3. Reserve(pool, h, 1) = pool[p].r[t] /\ Reserve(pool, h, 2) = pool[p].r[u]
  BY <1>1, ReserveIs
<1>4. y = getAmountOut(x, pool[p].r[t], pool[p].r[u])
  BY <1>3
<1> HIDE DEF y
<1>5. x \in Nat \ {0}
  BY AmountsAre
<1>6. PoolMoves(pool, Holds(pool, <<t, u>>, x, y), {p}, {})
  BY <1>1, <1>4, <1>5, ExactIn
<1> QED
  BY <1>2, <1>6

Replaced(e, g, n) == [[e EXCEPT !.r = g] EXCEPT !.lp = n]

LEMMA RecordIs ==
    ASSUME NEW p, NEW e \in PoolRecs(p), NEW g \in [p -> Nat], NEW n \in Nat
    PROVE  /\ Replaced(e, g, n) \in PoolRecs(p)
           /\ Replaced(e, g, n).r = g /\ Replaced(e, g, n).lp = n
<1> DEFINE d == [e EXCEPT !.r = g]
<1>1. d \in PoolRecs(p) /\ d.r = g
  BY DEF PoolRecs
<1> HIDE DEF d
<1>2. LET f == [d EXCEPT !.lp = n] IN f \in PoolRecs(p) /\ f.r = g /\ f.lp = n
  BY <1>1 DEF PoolRecs
<1> QED
  BY <1>2 DEF d, Replaced

(* A mint that keeps the product per share. *)
LEMMA MintedMoves ==
    ASSUME AllPools(pool), NEW p \in Pools, NEW t \in p, NEW u \in p, t # u,
           NEW a \in [p -> Nat], NEW l \in Nat,
           pool[p].r[t] + a[t] > 0, pool[p].r[u] + a[u] > 0,
           pool[p].lp > 0 =>
              (pool[p].r[t] * pool[p].r[u]) * (pool[p].lp + l) * (pool[p].lp + l)
                 <= ((pool[p].r[t] + a[t]) * (pool[p].r[u] + a[u])) * pool[p].lp * pool[p].lp
    PROVE  PoolMoves(pool, Minted(p, a, l), {p}, {})
<1> DEFINE e == pool[p]
           g == [w \in p |-> e.r[w] + a[w]]
           n == e.lp + l + (IF e.lp = 0 THEN MinLiquidity ELSE 0)
           f == Replaced(e, g, n)
<1>1. /\ PoolOK(p, e) /\ e \in PoolRecs(p) /\ e.lp \in Nat
      /\ e.r \in [p -> Nat] /\ \A w \in p : e.r[w] \in Nat
  BY PoolIs
<1>2. Minted(p, a, l) = [pool EXCEPT ![p] = f]
  BY DEF Minted, AllPools, Replaced
<1>3. n \in Nat /\ (e.lp > 0 => n = e.lp + l)
  BY <1>1, AmmAssumption
<1>4. a[t] \in Nat /\ a[u] \in Nat /\ e.r[t] \in Nat /\ e.r[u] \in Nat /\ p = {t, u}
  BY <1>1, PairOf
<1>5. g \in [p -> Nat] /\ g[t] = e.r[t] + a[t] /\ g[u] = e.r[u] + a[u]
  BY <1>1
<1> HIDE DEF n, g
<1>6. f \in PoolRecs(p) /\ f.lp = n /\ f.r = g
  <2>1. e \in PoolRecs(p) /\ g \in [p -> Nat] /\ n \in Nat /\ f = Replaced(e, g, n)
    BY <1>1, <1>3, <1>5
  <2> HIDE DEF e, f
  <2>2. Replaced(e, g, n) \in PoolRecs(p)
    BY ONLY <2>1, RecordIs
  <2>3. Replaced(e, g, n).r = g /\ Replaced(e, g, n).lp = n
    BY <2>1 DEF Replaced, PoolRecs
  <2> QED
    BY <2>1, <2>2, <2>3
<1> HIDE DEF f
<1>7. PoolOK(p, f)
  <2>1. g[t] > 0 /\ g[u] > 0
    BY <1>5
  <2> QED
    BY <1>4, <1>6, <2>1 DEF PoolOK
<1>8. /\ K(p, e) = e.r[t] * e.r[u] /\ K(p, f) = g[t] * g[u]
      /\ K(p, e) \in Nat /\ K(p, f) \in Nat
  BY <1>1, <1>6, KIs
<1>9. NotDiluted(p, e, f)
  <2> SUFFICES ASSUME e.lp > 0 PROVE K(p, e) * f.lp * f.lp <= K(p, f) * e.lp * e.lp
    BY DEF NotDiluted
  <2>1. f.lp = e.lp + l
    BY <1>3, <1>6
  <2> QED
    BY <1>5, <1>8, <2>1
<1>10. K(p, e) <= K(p, f)
  <2>1. e.r[t] <= g[t] /\ e.r[u] <= g[u] /\ g[t] \in Nat /\ g[u] \in Nat
    BY <1>4, <1>5
  <2>2. e.r[t] * e.r[u] <= g[t] * g[u]
    BY <1>4, <2>1, TimesGrows
  <2> QED
    BY <1>8, <2>2
<1> QED
  BY <1>2, <1>7, <1>9, <1>10, OnePool

(* A deposit of both tokens, by anyone. *)
LEMMA DepositMoves ==
    ASSUME AllPools(pool), NEW p \in Pools, NEW a \in [p -> Amounts]
    PROVE  MintFor(p, a) \in Nat /\ PoolMoves(pool, Minted(p, a, MintFor(p, a)), {p}, {})
<1> DEFINE t == CHOOSE t \in p : TRUE
           u == CHOOSE u \in p : u # t
           e == pool[p]
           l == MintFor(p, a)
<1>0. \E w : w \in p
  BY DEF Pools
<1>1. t \in p
  BY <1>0, Zenon
<1>2. u \in p /\ u # t
  <2> HIDE DEF t
  <2> QED
    BY <1>1, PairIs
<1>3. l = computeMint(a[t], a[u], e.r[t], e.r[u], e.lp)
  BY DEF MintFor
<1> HIDE DEF t, u
<1>4. a[t] \in Nat \ {0} /\ a[u] \in Nat \ {0} /\ a \in [p -> Nat]
  BY <1>1, <1>2, AmountsAre
<1>5. e.lp \in Nat /\ e.r[t] \in Nat /\ e.r[u] \in Nat /\ (e.lp > 0 => e.r[t] > 0 /\ e.r[u] > 0)
  <2>1. PoolOK(p, e) /\ e.lp \in Nat /\ \A w \in p : e.r[w] \in Nat
    BY PoolIs
  <2> QED
    BY <1>1, <1>2, <2>1 DEF PoolOK
<1> HIDE DEF l
<1>6. l \in Nat /\ (e.lp > 0 => l * e.r[t] <= a[t] * e.lp /\ l * e.r[u] <= a[u] * e.lp)
  <2> DEFINE x == a[t]
             y == a[u]
             rx == e.r[t]
             ry == e.r[u]
             s == e.lp
  <2>1. /\ x \in Nat /\ y \in Nat /\ rx \in Nat /\ ry \in Nat /\ s \in Nat
        /\ (s > 0 => rx > 0 /\ ry > 0)
        /\ l = computeMint(x, y, rx, ry, s)
    BY <1>3, <1>4, <1>5
  <2> HIDE DEF x, y, rx, ry, s
  <2>2. l \in Nat /\ (s > 0 => l * rx <= x * s /\ l * ry <= y * s)
    BY <2>1, ComputeMintIs
  <2> QED
    BY <2>2 DEF x, y, rx, ry, s
<1>7. e.lp > 0 => (e.r[t] * e.r[u]) * (e.lp + l) * (e.lp + l)
                     <= ((e.r[t] + a[t]) * (e.r[u] + a[u])) * e.lp * e.lp
  <2> SUFFICES ASSUME e.lp > 0
               PROVE  (e.r[t] * e.r[u]) * (e.lp + l) * (e.lp + l)
                        <= ((e.r[t] + a[t]) * (e.r[u] + a[u])) * e.lp * e.lp
    OBVIOUS
  <2> DEFINE x == a[t]
             y == a[u]
             rx == e.r[t]
             ry == e.r[u]
             s == e.lp
  <2>1. /\ x \in Nat /\ y \in Nat /\ rx \in Nat /\ ry \in Nat /\ s \in Nat
        /\ l * rx <= x * s /\ l * ry <= y * s
    BY <1>4, <1>5, <1>6
  <2> HIDE DEF x, y, rx, ry, s
  <2>2. rx * (s + l) <= (rx + x) * s /\ ry * (s + l) <= (ry + y) * s
    BY <1>6, <2>1, MintedShare
  <2>3. s + l \in Nat /\ rx + x \in Nat /\ ry + y \in Nat
    BY <1>6, <2>1
  <2>4. (rx * ry) * (s + l) * (s + l) <= ((rx + x) * (ry + y)) * s * s
    BY <2>1, <2>2, <2>3, SharesKept
  <2> QED
    BY <2>4 DEF x, y, rx, ry, s
<1>8. e.r[t] + a[t] > 0 /\ e.r[u] + a[u] > 0
  BY <1>4, <1>5
<1>9. PoolMoves(pool, Minted(p, a, l), {p}, {})
  BY <1>1, <1>2, <1>4, <1>6, <1>7, <1>8, MintedMoves
<1> QED
  BY <1>6, <1>9 DEF l

(* A withdrawal leaves the others at least their share. *)
LEMMA BurntMoves ==
    ASSUME AllPools(pool), NEW p \in Pools, NEW l \in Nat \ {0}, l <= pool[p].lp
    PROVE  PoolMoves(pool, Burnt(p, l), {p}, {p})
<1> DEFINE e == pool[p]
           s == e.lp
           g == [w \in p |-> e.r[w] - computeBurn(l, e.r[w], s)]
           f == Replaced(e, g, s - l)
<1>1. /\ PoolOK(p, e) /\ e \in PoolRecs(p) /\ s \in Nat
      /\ e.r \in [p -> Nat] /\ \A w \in p : e.r[w] \in Nat
  BY PoolIs
<1>2. Burnt(p, l) = [pool EXCEPT ![p] = f]
  BY DEF Burnt, AllPools, Replaced
<1>3. s \in Nat \ {0} /\ l \in Nat /\ l <= s /\ s - l \in Nat
  BY <1>1
<1>4. \A w \in p : /\ g[w] \in Nat /\ e.r[w] * (s - l) <= g[w] * s
                   /\ l < s /\ e.r[w] > 0 => g[w] > 0
  <2> SUFFICES ASSUME NEW w \in p
               PROVE  /\ g[w] \in Nat /\ e.r[w] * (s - l) <= g[w] * s
                      /\ l < s /\ e.r[w] > 0 => g[w] > 0
    OBVIOUS
  <2> DEFINE r == e.r[w]
             y == computeBurn(l, r, s)
  <2>1. r \in Nat
    BY <1>1
  <2>2. g[w] = r - y
    OBVIOUS
  <2> HIDE DEF r, s
  <2>3. /\ y \in Nat /\ y <= r /\ r * (s - l) <= (r - y) * s
        /\ (l < s /\ r > 0 => y < r)
    BY <1>3, <2>1, ComputeBurnIs
  <2> HIDE DEF y, g
  <2>4. /\ g[w] \in Nat /\ r * (s - l) <= g[w] * s /\ (l < s /\ r > 0 => g[w] > 0)
    BY <2>1, <2>2, <2>3
  <2> QED
    BY <2>4 DEF r
<1>5. g \in [p -> Nat]
  BY <1>4
<1> HIDE DEF g, s
<1>6. f \in PoolRecs(p) /\ f.lp = s - l /\ f.r = g
  <2> DEFINE n == s - l
  <2>1. e \in PoolRecs(p) /\ g \in [p -> Nat] /\ n \in Nat /\ f = Replaced(e, g, n)
    BY <1>1, <1>3, <1>5
  <2> HIDE DEF e, n, f
  <2>2. f \in PoolRecs(p) /\ f.r = g /\ f.lp = n
    BY ONLY <2>1, RecordIs
  <2> QED
    BY <2>2 DEF n
<1> HIDE DEF f
<1>7. PoolOK(p, f)
  <2> SUFFICES ASSUME f.lp > 0, NEW w \in p PROVE f.r[w] > 0
    BY <1>6 DEF PoolOK
  <2>1. e.r[w] > 0
    BY <1>1, <1>3 DEF PoolOK, s
  <2>2. l < s
    BY <1>3, <1>6
  <2> QED
    BY <1>4, <1>6, <2>1, <2>2
<1>8. NotDiluted(p, e, f)
  <2>1. PICK t \in p, u \in p : t # u
    <3>1. 1 # 2 /\ 2 # 3 /\ 1 # 3
      OBVIOUS
    <3> QED
      BY <3>1 DEF Pools
  <2>2. /\ K(p, e) = e.r[t] * e.r[u] /\ K(p, f) = g[t] * g[u]
    BY <1>1, <1>6, <2>1, KIs
  <2>3. /\ e.r[t] \in Nat /\ e.r[u] \in Nat /\ g[t] \in Nat /\ g[u] \in Nat
        /\ e.r[t] * (s - l) <= g[t] * s /\ e.r[u] * (s - l) <= g[u] * s
    BY <1>1, <1>4
  <2>4. (e.r[t] * e.r[u]) * (s - l) * (s - l) <= (g[t] * g[u]) * s * s
    <3> DEFINE a == e.r[t]
               b == e.r[u]
               c == g[t]
               d == g[u]
               z == s - l
    <3>1. /\ a \in Nat /\ b \in Nat /\ c \in Nat /\ d \in Nat /\ z \in Nat /\ s \in Nat
          /\ a * z <= c * s /\ b * z <= d * s
      BY <1>3, <2>3
    <3> HIDE DEF a, b, c, d, z
    <3>2. (a * b) * z * z <= (c * d) * s * s
      BY <3>1, SharesKept
    <3> QED
      BY <3>2 DEF a, b, c, d, z
  <2> QED
    BY <1>6, <2>2, <2>4 DEF NotDiluted, s
<1> QED
  BY <1>2, <1>7, <1>8, OnePool

LEMMA OneTokenMoves ==
    ASSUME AllPools(pool), NEW p \in Pools, NEW t \in p, NEW amount \in Amounts,
           mint_with_one_token(p, t, amount)
    PROVE  PoolMoves(pool, pool', {p}, {})
<1> DEFINE u == CHOOSE u \in p : u # t
           f == BPS - Fee
           rIn == pool[p].r[t]
           rOut == pool[p].r[u]
           lp == pool[p].lp
           b == rIn * (BPS + f)
           k == 4 * BPS * f * amount * rIn
           s == (isqrt(b * b + k) - b) \div (2 * f)
           out == getAmountOut(s, rIn, rOut)
           lpIn == ((amount - s) * lp) \div (rIn + s)
           lpOut == (out * lp) \div (rOut - out)
           l == IF lpIn < lpOut THEN lpIn ELSE lpOut
           a == [w \in p |-> IF w = t THEN amount ELSE 0]
<1>1. Funded(p) /\ s < amount /\ pool' = Minted(p, a, l)
  BY DEF mint_with_one_token
<1>2. u \in p /\ u # t
  BY PairIs
<1> HIDE DEF u
<1>3. rIn \in Nat \ {0} /\ rOut \in Nat \ {0} /\ lp \in Nat
  <2>1. pool[p].lp \in Nat /\ \A w \in p : pool[p].r[w] \in Nat
    BY PoolIs
  <2>2. \A w \in p : pool[p].r[w] > 0
    BY <1>1 DEF Funded
  <2> QED
    BY ONLY <1>2, <2>1, <2>2, t \in p
<1>4. amount \in Nat \ {0} /\ f \in Nat \ {0} /\ BPS \in Nat \ {0}
  BY AmountsAre, AfterFeeIs DEF AfterFee
<1> HIDE DEF rIn, rOut, lp, f
<1>5. b \in Nat /\ k \in Nat
  <2>1. BPS + f \in Nat /\ 4 * BPS \in Nat
    BY <1>4
  <2>2. 4 * BPS * f \in Nat
    BY <1>4, <2>1
  <2>3. 4 * BPS * f * amount \in Nat
    BY <1>4, <2>2
  <2> QED
    BY <1>3, <2>1, <2>3
<1> HIDE DEF b, k
<1>6. s \in Nat
  BY <1>4, <1>5, SwapAmountIs
<1> HIDE DEF s
<1>7. l \in Nat /\ (rIn * rOut) * (lp + l) * (lp + l) <= ((rIn + amount) * rOut) * lp * lp
  BY <1>1, <1>3, <1>4, <1>6, OneTokenShares
<1> HIDE DEF l
<1>8. a \in [p -> Nat] /\ a[t] = amount /\ a[u] = 0
  BY <1>2, <1>4
<1> HIDE DEF a
<1>9. (rIn * rOut) * (lp + l) * (lp + l) <= ((rIn + a[t]) * (rOut + a[u])) * lp * lp
  <2>1. rOut + a[u] = rOut /\ rIn + a[t] = rIn + amount
    BY <1>3, <1>8
  <2> QED
    BY <1>7, <2>1
<1>10. rIn + a[t] > 0 /\ rOut + a[u] > 0
  BY <1>3, <1>4, <1>8
<1>11. PoolMoves(pool, Minted(p, a, l), {p}, {})
  BY <1>2, <1>7, <1>8, <1>9, <1>10, MintedMoves DEF rIn, rOut, lp
<1> QED
  BY <1>1, <1>11

(* A pool that only takes tokens in. *)
LEMMA RaisedMoves ==
    ASSUME NEW pl, AllPools(pl), NEW p \in Pools, NEW t \in p, NEW due \in Nat
    PROVE  PoolMoves(pl, [pl EXCEPT ![p].r[t] = @ + due], {p}, {})
<1> DEFINE e == pl[p]
           g == [e.r EXCEPT ![t] = e.r[t] + due]
           f == Replaced(e, g, e.lp)
           pm == [pl EXCEPT ![p].r[t] = @ + due]
<1>1. /\ PoolOK(p, e) /\ e \in PoolRecs(p) /\ e.lp \in Nat
      /\ e.r \in [p -> Nat] /\ \A w \in p : e.r[w] \in Nat
  BY PoolIs
<1>2. PICK u \in p : u # t
  BY PairIs
<1>3. g \in [p -> Nat] /\ g[t] = e.r[t] + due /\ g[u] = e.r[u]
  BY <1>1, <1>2
<1>4. pm = [pl EXCEPT ![p] = [e EXCEPT !.r = g]]
  OBVIOUS
<1> HIDE DEF g
<1>5. [e EXCEPT !.r = g] \in PoolRecs(p) /\ [e EXCEPT !.r = g].r = g /\ [e EXCEPT !.r = g].lp = e.lp
  <2> HIDE DEF e
  <2> QED
    BY <1>1, <1>3 DEF PoolRecs
<1> DEFINE d == [e EXCEPT !.r = g]
<1>6. d \in PoolRecs(p) /\ d.r = g /\ d.lp = e.lp /\ pm = [pl EXCEPT ![p] = d]
  BY <1>4, <1>5
<1> HIDE DEF d, pm
<1>7. PoolOK(p, d) /\ NotDiluted(p, e, d) /\ K(p, e) <= K(p, d)
  <2> DEFINE y == 0
  <2>1. /\ y \in Nat /\ y <= e.r[u] /\ (e.r[t] > 0 /\ e.r[u] > 0 => y < e.r[u])
        /\ d.r[t] = e.r[t] + due /\ d.r[u] = e.r[u] - y
    BY <1>1, <1>2, <1>3, <1>6
  <2>2. y * (e.r[t] * BPS + due * AfterFee) <= due * AfterFee * e.r[u]
    <3>1. e.r[t] \in Nat /\ e.r[u] \in Nat
      BY <1>1
    <3>2. e.r[t] * BPS \in Nat /\ due * AfterFee \in Nat
      BY <3>1, AfterFeeIs
    <3>3. due * AfterFee * e.r[u] \in Nat /\ y * (e.r[t] * BPS + due * AfterFee) = 0
      BY <3>1, <3>2
    <3> QED
      BY <3>3
  <2> HIDE DEF y, e
  <2> QED
    BY <1>1, <1>2, <1>6, <2>1, <2>2, SwapMoves
<1>8. PoolMoves(pl, pm, {p}, {})
  BY <1>6, <1>7, OnePool
<1> QED
  BY <1>8 DEF pm

(* Swaps along a path. *)

Direct == <<1, 3>>
Around == <<1, 2, 3>>
Paths == {Direct, Around}

LEMMA RoutesAre == Routes \in Seq(Paths) /\ Len(Routes) = 2 /\ DOMAIN Routes = 1..2
                   /\ Routes[1] = Direct /\ Routes[2] = Around
  BY DEF Routes, Paths, Direct, Around

LEMMA PathsAre ==
    /\ Len(Direct) = 2 /\ Direct[1] = 1 /\ Direct[2] = 3
    /\ Len(Around) = 3 /\ Around[1] = 1 /\ Around[2] = 2 /\ Around[3] = 3
    /\ Direct # Around
<1>1. Len(Direct) = 2 /\ Len(Around) = 3
  BY DEF Direct, Around
<1> QED
  BY <1>1 DEF Direct, Around

LEMMA PoolsAre ==
    /\ {1, 2} \in Pools /\ {2, 3} \in Pools /\ {1, 3} \in Pools
    /\ {1, 2} # {2, 3} /\ {1, 2} # {1, 3} /\ {2, 3} # {1, 3}
  BY DEF Pools

LEMMA HopsAre ==
    /\ HopsOf(Direct) \in Seq(Int \X Int) /\ Len(HopsOf(Direct)) = 1
    /\ HopsOf(Direct)[1] = <<1, 3>>
    /\ HopsOf(Around) \in Seq(Int \X Int) /\ Len(HopsOf(Around)) = 2
    /\ HopsOf(Around)[1] = <<1, 2>> /\ HopsOf(Around)[2] = <<2, 3>>
<1>1. HopsOf(Direct) = [i \in 1..1 |-> <<Direct[i], Direct[i + 1]>>]
  BY PathsAre DEF HopsOf
<1>2. HopsOf(Around) = [i \in 1..2 |-> <<Around[i], Around[i + 1]>>]
  BY PathsAre DEF HopsOf
<1>3. \A i \in 1..1 : <<Direct[i], Direct[i + 1]>> = <<1, 3>>
  BY PathsAre
<1>4. \A i \in 1..2 : <<Around[i], Around[i + 1]>> = IF i = 1 THEN <<1, 2>> ELSE <<2, 3>>
  BY PathsAre
<1>5. HopsOf(Direct) = [i \in 1..1 |-> <<1, 3>>]
  BY <1>1, <1>3
<1>6. HopsOf(Around) = [i \in 1..2 |-> IF i = 1 THEN <<1, 2>> ELSE <<2, 3>>]
  BY <1>2, <1>4
<1> QED
  BY <1>5, <1>6

LEMMA PoolsOfAre == PoolsOf(Direct) = {{1, 3}} /\ PoolsOf(Around) = {{1, 2}, {2, 3}}
<1>1. ToSet(HopsOf(Direct)) = {<<1, 3>>}
  <2>1. DOMAIN HopsOf(Direct) = 1..1
    BY HopsAre
  <2>2. ToSet(HopsOf(Direct)) = {HopsOf(Direct)[i] : i \in 1..1}
    BY <2>1 DEF ToSet
  <2>3. \A i \in 1..1 : HopsOf(Direct)[i] = <<1, 3>>
    BY HopsAre
  <2>4. 1 \in 1..1
    OBVIOUS
  <2> QED
    BY <2>2, <2>3, <2>4, Zenon
<1>2. ToSet(HopsOf(Around)) = {<<1, 2>>, <<2, 3>>}
  <2>1. DOMAIN HopsOf(Around) = 1..2
    BY HopsAre
  <2>2. ToSet(HopsOf(Around)) = {HopsOf(Around)[i] : i \in 1..2}
    BY <2>1 DEF ToSet
  <2>3. \A i \in 1..2 : i = 1 \/ i = 2
    OBVIOUS
  <2>4. 1 \in 1..2 /\ 2 \in 1..2
    OBVIOUS
  <2>5. HopsOf(Around)[1] = <<1, 2>> /\ HopsOf(Around)[2] = <<2, 3>>
    BY HopsAre
  <2> QED
    BY <2>2, <2>3, <2>4, <2>5, Zenon
<1> QED
  BY <1>1, <1>2 DEF PoolsOf

LEMMA ThroughDirect ==
    ASSUME NEW x, NEW pl
    PROVE  Through(Direct, x, pl) = Hop([x |-> x, pl |-> pl], <<1, 3>>)
<1> DEFINE g0 == [x |-> x, pl |-> pl]
           g1 == Hop(g0, <<1, 3>>)
           F(h) == [i \in 0..(Len(Direct) - 1) |-> IF i = 0 THEN g0 ELSE Hop(h[i - 1], HopsOf(Direct)[i])]
           g == [i \in 0..(Len(Direct) - 1) |-> IF i = 0 THEN g0 ELSE g1]
           after == CHOOSE h : h = F(h)
<1>1. Through(Direct, x, pl) = after[Len(Direct) - 1]
  BY DEF Through
<1> HIDE DEF g0, g1
<1>2. g = F(g)
  <2> SUFFICES ASSUME NEW i \in 0..(Len(Direct) - 1)
               PROVE  g[i] = IF i = 0 THEN g0 ELSE Hop(g[i - 1], HopsOf(Direct)[i])
    OBVIOUS
  <2>1. i = 0 \/ i = 1
    BY PathsAre
  <2>2. CASE i = 1
    <3>1. g[0] = g0 /\ g[1] = g1
      BY PathsAre
    <3>2. HopsOf(Direct)[1] = <<1, 3>>
      BY HopsAre
    <3> QED
      BY <2>2, <3>1, <3>2 DEF g1
  <2> QED
    BY <2>1, <2>2
<1> HIDE DEF F
<1>3. after = F(after)
  <2> HIDE DEF g
  <2> QED
    BY <1>2
<1> HIDE DEF after
<1>4. after[0] = g0
  BY <1>3, PathsAre DEF F
<1>5. after[1] = Hop(after[0], HopsOf(Direct)[1])
  BY <1>3, PathsAre DEF F
<1> QED
  BY <1>1, <1>4, <1>5, HopsAre, PathsAre DEF g0

LEMMA ThroughAround ==
    ASSUME NEW x, NEW pl
    PROVE  Through(Around, x, pl) = Hop(Hop([x |-> x, pl |-> pl], <<1, 2>>), <<2, 3>>)
<1> DEFINE g0 == [x |-> x, pl |-> pl]
           g1 == Hop(g0, <<1, 2>>)
           g2 == Hop(g1, <<2, 3>>)
           F(h) == [i \in 0..(Len(Around) - 1) |-> IF i = 0 THEN g0 ELSE Hop(h[i - 1], HopsOf(Around)[i])]
           g == [i \in 0..(Len(Around) - 1) |-> IF i = 0 THEN g0 ELSE IF i = 1 THEN g1 ELSE g2]
           after == CHOOSE h : h = F(h)
<1>1. Through(Around, x, pl) = after[Len(Around) - 1]
  BY DEF Through
<1> HIDE DEF g0, g1, g2
<1>2. g = F(g)
  <2> SUFFICES ASSUME NEW i \in 0..(Len(Around) - 1)
               PROVE  g[i] = IF i = 0 THEN g0 ELSE Hop(g[i - 1], HopsOf(Around)[i])
    OBVIOUS
  <2>1. i = 0 \/ i = 1 \/ i = 2
    BY PathsAre
  <2>2. g[0] = g0 /\ g[1] = g1 /\ g[2] = g2
    BY PathsAre
  <2>3. HopsOf(Around)[1] = <<1, 2>> /\ HopsOf(Around)[2] = <<2, 3>>
    BY HopsAre
  <2>4. CASE i = 1
    BY <2>2, <2>3, <2>4 DEF g1
  <2>5. CASE i = 2
    BY <2>2, <2>3, <2>5 DEF g2
  <2> QED
    BY <2>1, <2>4, <2>5
<1> HIDE DEF F
<1>3. after = F(after)
  <2> HIDE DEF g
  <2> QED
    BY <1>2
<1> HIDE DEF after
<1>4. after[0] = g0
  BY <1>3, PathsAre DEF F
<1>5. after[1] = Hop(after[0], HopsOf(Around)[1])
  BY <1>3, PathsAre DEF F
<1>6. after[2] = Hop(after[1], HopsOf(Around)[2])
  BY <1>3, PathsAre DEF F
<1> QED
  BY <1>1, <1>4, <1>5, <1>6, HopsAre, PathsAre DEF g0

-----------------------------------------------------------------------------
(* Quotes, hop by hop, and what the contract makes of them. *)

(* What a pool pays for x, and what a path of pools does. *)
Swapped(e, a, b, x) == IF x = 0 THEN 0 ELSE getAmountOut(x, e.r[a], e.r[b])
SoldFor(pl, path, x) ==
    IF path = Direct THEN Swapped(pl[{1, 3}], 1, 3, x)
    ELSE Swapped(pl[{2, 3}], 2, 3, Swapped(pl[{1, 2}], 1, 2, x))

LEMMA HopIs ==
    ASSUME NEW pl, AllPools(pl), NEW p \in Pools, NEW a \in p, NEW b \in p, a # b, NEW x \in Nat,
           NEW s, s.x = x, s.pl = pl
    PROVE  /\ Swapped(pl[p], a, b, x) \in Nat /\ Hop(s, <<a, b>>).x = Swapped(pl[p], a, b, x)
           /\ PoolMoves(pl, Hop(s, <<a, b>>).pl, {p}, {})
<1> DEFINE y == Swapped(pl[p], a, b, x)
<1>1. Reserve(pl, <<a, b>>, 1) = pl[p].r[a] /\ Reserve(pl, <<a, b>>, 2) = pl[p].r[b]
  BY ReserveIs
<1>2. Hop(s, <<a, b>>) = [x |-> y, pl |-> Holds(pl, <<a, b>>, x, y)]
  BY <1>1 DEF Hop, Swapped
<1>3. Hop(s, <<a, b>>).x = y /\ Hop(s, <<a, b>>).pl = Holds(pl, <<a, b>>, x, y)
  <2> HIDE DEF y
  <2> QED
    BY <1>2
<1>4. y \in Nat /\ PoolMoves(pl, Holds(pl, <<a, b>>, x, y), {p}, {})
  <2>1. CASE x = 0
    <3>1. y = 0
      BY <2>1 DEF Swapped
    <3> HIDE DEF y
    <3>2. pl[p].r[a] \in Nat /\ pl[p].r[b] \in Nat
      BY PoolIs
    <3> DEFINE rIn == pl[p].r[a]
               rOut == pl[p].r[b]
    <3>3. rIn \in Nat /\ rOut \in Nat
      BY <3>2
    <3> HIDE DEF rIn, rOut
    <3>4. /\ y * (rIn * BPS + x * AfterFee) <= x * AfterFee * rOut
          /\ y <= rOut /\ (rIn > 0 /\ rOut > 0 => y < rOut) /\ y \in Nat
      <4>1. x * AfterFee = 0 /\ rIn * BPS \in Nat
        BY <2>1, <3>3, AfterFeeIs
      <4>2. y * (rIn * BPS + x * AfterFee) = 0 /\ x * AfterFee * rOut = 0
        BY <3>1, <3>3, <4>1
      <4> QED
        BY <3>1, <3>3, <4>2
    <3> QED
      BY <3>4, SwapOfPool DEF rIn, rOut
  <2>2. CASE x # 0
    <3>1. y = getAmountOut(x, pl[p].r[a], pl[p].r[b]) /\ x \in Nat \ {0}
      BY <2>2 DEF Swapped
    <3> HIDE DEF y
    <3> QED
      BY <3>1, ExactIn
  <2> QED
    BY <2>1, <2>2
<1> QED
  BY <1>3, <1>4

LEMMA ThroughIs ==
    ASSUME NEW pl, AllPools(pl), NEW path \in Paths, NEW x \in Nat
    PROVE  /\ SoldFor(pl, path, x) \in Nat /\ Through(path, x, pl).x = SoldFor(pl, path, x)
           /\ PoolMoves(pl, Through(path, x, pl).pl, PoolsOf(path), {})
<1> DEFINE s == [x |-> x, pl |-> pl]
<1>0. s.x = x /\ s.pl = pl
  OBVIOUS
<1> HIDE DEF s
<1>1. CASE path = Direct
  <2>1. Through(path, x, pl) = Hop(s, <<1, 3>>)
    BY <1>1, ThroughDirect DEF s
  <2>2. /\ {1, 3} \in Pools /\ 1 \in {1, 3} /\ 3 \in {1, 3} /\ 1 # 3
    BY PoolsAre
  <2>3. /\ Swapped(pl[{1, 3}], 1, 3, x) \in Nat /\ Hop(s, <<1, 3>>).x = Swapped(pl[{1, 3}], 1, 3, x)
        /\ PoolMoves(pl, Hop(s, <<1, 3>>).pl, {{1, 3}}, {})
    <3> DEFINE p == {1, 3}
    <3>1. p \in Pools /\ 1 \in p /\ 3 \in p /\ 1 # 3
      BY <2>2
    <3> HIDE DEF p
    <3>2. /\ Swapped(pl[p], 1, 3, x) \in Nat /\ Hop(s, <<1, 3>>).x = Swapped(pl[p], 1, 3, x)
          /\ PoolMoves(pl, Hop(s, <<1, 3>>).pl, {p}, {})
      BY <1>0, <3>1, HopIs
    <3> QED
      BY <3>2 DEF p
  <2> QED
    BY <1>1, <2>1, <2>3, PoolsOfAre DEF SoldFor
<1>2. CASE path = Around
  <2> DEFINE m == Hop(s, <<1, 2>>)
             p == {1, 2}
             q == {2, 3}
             x1 == Swapped(pl[p], 1, 2, x)
  <2>1. Through(path, x, pl) = Hop(m, <<2, 3>>)
    BY <1>2, ThroughAround DEF s
  <2>2. /\ p \in Pools /\ 1 \in p /\ 2 \in p /\ 1 # 2 /\ q \in Pools /\ 2 \in q /\ 3 \in q /\ 2 # 3
        /\ p # q
    BY PoolsAre
  <2> HIDE DEF p, q
  <2>3. /\ x1 \in Nat /\ m.x = x1 /\ PoolMoves(pl, m.pl, {p}, {})
    BY <1>0, <2>2, HopIs
  <2> HIDE DEF m, x1
  <2>4. AllPools(m.pl) /\ m.pl[q] = pl[q]
    BY <2>2, <2>3 DEF PoolMoves
  <2>5. /\ Swapped(m.pl[q], 2, 3, x1) \in Nat /\ Hop(m, <<2, 3>>).x = Swapped(m.pl[q], 2, 3, x1)
        /\ PoolMoves(m.pl, Hop(m, <<2, 3>>).pl, {q}, {})
    BY <2>2, <2>3, <2>4, HopIs
  <2>6. PoolMoves(pl, Hop(m, <<2, 3>>).pl, {p, q}, {})
    BY <2>2, <2>3, <2>5, TwoPools
  <2>7. SoldFor(pl, path, x) = Swapped(pl[q], 2, 3, x1)
    BY <1>2, PathsAre DEF SoldFor, p, q, x1
  <2>8. PoolsOf(path) = {p, q}
    BY <1>2, PoolsOfAre DEF p, q
  <2> QED
    BY <2>1, <2>4, <2>5, <2>6, <2>7, <2>8
<1> QED
  BY <1>1, <1>2 DEF Paths

(* What getAmountIn asks for y pays for it. *)
LEMMA ExactOut ==
    ASSUME NEW pl, AllPools(pl), NEW p \in Pools, NEW a \in p, NEW b \in p, a # b,
           NEW y \in Nat, y < pl[p].r[b],
           NEW x, x = getAmountIn(y, pl[p].r[a], pl[p].r[b])
    PROVE  /\ x \in Nat \ {0} /\ PoolMoves(pl, Holds(pl, <<a, b>>, x, y), {p}, {})
           /\ y <= getAmountOut(x, pl[p].r[a], pl[p].r[b])
<1> DEFINE rIn == pl[p].r[a]
           rOut == pl[p].r[b]
           z == getAmountOut(x, rIn, rOut)
<1>1. rIn \in Nat /\ rOut \in Nat /\ y < rOut /\ x = getAmountIn(y, rIn, rOut)
  BY PoolIs
<1> HIDE DEF rIn, rOut
<1>2. x \in Nat \ {0} /\ y <= z
  BY <1>1, AmountInSuffices
<1>3. x \in Nat /\ x + rIn > 0
  BY <1>1, <1>2
<1>4. /\ z \in Nat /\ z * (rIn * BPS + x * AfterFee) <= x * AfterFee * rOut
      /\ rIn * BPS + x * AfterFee \in Nat \ {0} /\ x * AfterFee * rOut \in Nat
  BY <1>1, <1>3, AmountOutIs
<1> HIDE DEF z
<1>5. y * (rIn * BPS + x * AfterFee) <= x * AfterFee * rOut
  <2> DEFINE d == rIn * BPS + x * AfterFee
             k == x * AfterFee * rOut
  <2>1. d \in Nat /\ k \in Nat /\ z * d <= k
    BY <1>4
  <2> HIDE DEF d, k
  <2>2. y * d <= z * d
    BY <1>2, <1>4, <2>1, TimesGrows
  <2>3. y * d \in Int /\ z * d \in Int
    BY <1>4, <2>1
  <2>4. y * d <= k
    BY <2>1, <2>2, <2>3
  <2> QED
    BY <2>4 DEF d, k
<1>6. y <= rOut
  BY <1>1
<1>7. PoolMoves(pl, Holds(pl, <<a, b>>, x, y), {p}, {})
  BY <1>1, <1>3, <1>5, <1>6, SwapOfPool DEF rIn, rOut
<1> QED
  BY <1>2, <1>7 DEF z, rIn, rOut

(* Quotes, and what the contract makes of them. *)
QuoteRecs == [path : Paths, type : {"in", "out"}, amountIn : Nat, amountOut : Nat,
              amountOutMin : Nat, base : Nat]
QuoteOK(q) ==
    /\ q \in QuoteRecs /\ q.amountOutMin <= q.amountOut
    /\ q.amountOut * (BPS - Slippage) <= q.amountOutMin * BPS
    /\ q.type = "out" => q.amountOutMin = q.amountOut

Honoured(q, pl) ==
    IF q.type = "in" THEN q.amountOut = SoldFor(pl, q.path, q.amountIn)
    ELSE IF q.path = Direct
    THEN /\ q.amountOut < pl[{1, 3}].r[3]
         /\ getAmountIn(q.amountOut, pl[{1, 3}].r[1], pl[{1, 3}].r[3]) <= q.amountIn
    ELSE q.amountOut <= SoldFor(pl, q.path, q.amountIn)

LEMMA FitsIs ==
    ASSUME NEW ok, NEW spent, NEW got, NEW pl, NEW x,
           x = [ok |-> ok, spent |-> spent, got |-> got, pl |-> pl]
    PROVE  x.spent = spent /\ x.got = got /\ x.pl = pl /\ (x.ok => ok) /\ (ok => x.ok)
<1>1. x.ok = ok /\ x.spent = spent /\ x.got = got /\ x.pl = pl
  OBVIOUS
<1> QED
  BY <1>1, Zenon

LEMMA ExchangedIs ==
    ASSUME NEW pl, AllPools(pl), NEW q, QuoteOK(q)
    PROVE  LET x == Exchanged(q, pl) IN
           /\ x.ok => /\ PoolMoves(pl, x.pl, PoolsOf(q.path), {})
                      /\ x.spent \in Nat /\ x.got \in Nat
                      /\ x.spent <= q.amountIn /\ x.got >= q.amountOutMin
           /\ Honoured(q, pl) =>
                 /\ x.ok
                 /\ q.type = "in" => x.got = q.amountOut
                 /\ q.type = "out" => x.got >= q.amountOut /\ x.spent <= q.amountIn
<1> DEFINE x == Exchanged(q, pl)
<1>1. /\ q.path \in Paths /\ q.type \in {"in", "out"} /\ q.amountIn \in Nat /\ q.amountOut \in Nat
      /\ q.amountOutMin \in Nat /\ q.amountOutMin <= q.amountOut
      /\ q.type = "out" => q.amountOutMin = q.amountOut
  BY DEF QuoteOK, QuoteRecs
<1>2. CASE q.path = Direct /\ q.type = "out"
  <2> DEFINE y == q.amountOut
             rIn == pl[{1, 3}].r[1]
             rOut == pl[{1, 3}].r[3]
             need == getAmountIn(y, rIn, rOut)
             to == Holds(pl, <<1, 3>>, need, y)
  <2>1. {1, 3} \in Pools /\ 1 \in {1, 3} /\ 3 \in {1, 3} /\ 1 # 3
    BY PoolsAre
  <2>2. Reserve(pl, <<1, 3>>, 1) = rIn /\ Reserve(pl, <<1, 3>>, 2) = rOut
    BY <2>1, ReserveIs
  <2>3. <<q.path[1], q.path[2]>> = <<1, 3>> /\ Len(q.path) = 2
    BY <1>2, PathsAre
  <2>4. x = IF y >= rOut THEN [ok |-> FALSE]
            ELSE [ok |-> need <= q.amountIn, spent |-> need, got |-> y, pl |-> to]
    BY <1>2, <2>2, <2>3 DEF Exchanged
  <2>5. rIn \in Nat /\ rOut \in Nat
    BY <2>1, PoolIs
  <2>6. y < rOut => need \in Nat /\ PoolMoves(pl, to, {{1, 3}}, {})
    <3> SUFFICES ASSUME y < rOut PROVE need \in Nat /\ PoolMoves(pl, to, {{1, 3}}, {})
      OBVIOUS
    <3>1. /\ need \in Nat \ {0} /\ PoolMoves(pl, Holds(pl, <<1, 3>>, need, y), {{1, 3}}, {})
      <4> DEFINE n == need
      <4>1. n = getAmountIn(y, pl[{1, 3}].r[1], pl[{1, 3}].r[3])
        OBVIOUS
      <4> HIDE DEF n
      <4>2. n \in Nat \ {0} /\ PoolMoves(pl, Holds(pl, <<1, 3>>, n, y), {{1, 3}}, {})
        BY <1>1, <2>1, <4>1, ExactOut
      <4> QED
        BY <4>2 DEF n
    <3> QED
      BY <3>1
  <2>7. Honoured(q, pl) => y < rOut /\ need <= q.amountIn
    BY <1>2 DEF Honoured
  <2>8. PoolsOf(q.path) = {{1, 3}}
    BY <1>2, PoolsOfAre
  <2> HIDE DEF need, to, rIn, rOut, x
  <2>9. CASE y >= rOut
    <3>1. x.ok = FALSE
      BY <2>4, <2>9
    <3> QED
      BY <1>1, <2>5, <2>7, <2>9, <3>1 DEF x
  <2>10. CASE y < rOut
    <3> DEFINE fits == need <= q.amountIn
    <3>0. x = [ok |-> fits, spent |-> need, got |-> y, pl |-> to]
      BY <1>1, <2>4, <2>5, <2>10
    <3> HIDE DEF fits
    <3>1. /\ x.spent = need /\ x.got = y /\ x.pl = to
          /\ (x.ok => need <= q.amountIn) /\ (need <= q.amountIn => x.ok)
      BY <3>0, FitsIs DEF fits
    <3>2. x.ok => /\ PoolMoves(pl, x.pl, PoolsOf(q.path), {})
                  /\ x.spent \in Nat /\ x.got \in Nat
                  /\ x.spent <= q.amountIn /\ x.got >= q.amountOutMin
      BY <1>1, <1>2, <2>6, <2>8, <2>10, <3>1
    <3>3. Honoured(q, pl) => x.ok /\ x.got >= q.amountOut /\ x.spent <= q.amountIn
      BY <1>1, <2>7, <3>1
    <3> QED
      BY <1>2, <3>2, <3>3 DEF x
  <2> QED
    BY <1>1, <2>5, <2>9, <2>10
<1>3. CASE ~(q.path = Direct /\ q.type = "out")
  <2> DEFINE out == Through(q.path, q.amountIn, pl)
  <2>1. ~(Len(q.path) = 2 /\ q.type = "out")
    BY <1>1, <1>3, PathsAre DEF Paths
  <2>2. x = [ok |-> out.x >= q.amountOutMin, spent |-> q.amountIn, got |-> out.x, pl |-> out.pl]
    BY <2>1 DEF Exchanged
  <2>3. /\ out.x \in Nat /\ out.x = SoldFor(pl, q.path, q.amountIn)
        /\ PoolMoves(pl, out.pl, PoolsOf(q.path), {})
    BY <1>1, ThroughIs
  <2>4. Honoured(q, pl) => IF q.type = "in" THEN q.amountOut = out.x ELSE q.amountOut <= out.x
    BY <1>1, <1>3, <2>3 DEF Honoured
  <2> HIDE DEF out, x
  <2> DEFINE fits == out.x >= q.amountOutMin
  <2> HIDE DEF fits
  <2>5. /\ x.spent = q.amountIn /\ x.got = out.x /\ x.pl = out.pl
        /\ (x.ok => out.x >= q.amountOutMin) /\ (out.x >= q.amountOutMin => x.ok)
    BY <2>2, FitsIs DEF fits
  <2>6. x.ok => /\ PoolMoves(pl, x.pl, PoolsOf(q.path), {})
                /\ x.spent \in Nat /\ x.got \in Nat
                /\ x.spent <= q.amountIn /\ x.got >= q.amountOutMin
    BY <1>1, <2>3, <2>5
  <2>7. Honoured(q, pl) => /\ x.ok
                           /\ q.type = "in" => x.got = q.amountOut
                           /\ q.type = "out" => x.got >= q.amountOut /\ x.spent <= q.amountIn
    BY <1>1, <2>3, <2>4, <2>5
  <2> QED
    BY <2>6, <2>7 DEF x
<1> QED
  BY <1>2, <1>3

(* The calls under way: what they know of the pools. *)

HopsFields == {"pc", "api", "type", "path", "amount", "cur", "left", "todo", "best", "over", "still"}
ReadyFields == {"pc", "api", "quote", "over", "still"}

(* A quote the call holds. *)
QuoteHeld(q, a, pl) ==
    /\ QuoteOK(q) /\ PoolsOf(q.path) \subseteq a.over
    /\ a.still => Honoured(q, pl)

(* How far a quote has come along its path. *)
LeftOK(a, pl) ==
    /\ a.left \in Seq(Int \X Int)
    /\ \/ a.path = Direct /\ Len(a.left) = 1 /\ a.left[1] = <<1, 3>> /\ a.cur = a.amount
       \/ /\ a.path = Around /\ a.type = "in" /\ Len(a.left) = 2
          /\ a.left[1] = <<1, 2>> /\ a.left[2] = <<2, 3>> /\ a.cur = a.amount
       \/ /\ a.path = Around /\ a.type = "in" /\ Len(a.left) = 1 /\ a.left[1] = <<2, 3>>
          /\ a.still => a.cur = Swapped(pl[{1, 2}], 1, 2, a.amount)
       \/ /\ a.path = Around /\ a.type = "out" /\ Len(a.left) = 2
          /\ a.left[1] = <<2, 3>> /\ a.left[2] = <<1, 2>> /\ a.cur = a.amount
       \/ /\ a.path = Around /\ a.type = "out" /\ Len(a.left) = 1 /\ a.left[1] = <<1, 2>>
          /\ a.still => /\ a.amount < pl[{2, 3}].r[3]
                        /\ a.cur = getAmountIn(a.amount, pl[{2, 3}].r[2], pl[{2, 3}].r[3])

HopsOK(a, pl) ==
    /\ DOMAIN a = HopsFields /\ a.pc = "hops" /\ a.still \in BOOLEAN
    /\ a.type \in {"in", "out"} /\ a.path \in Paths /\ a.amount \in Nat \ {0} /\ a.cur \in Nat
    /\ PoolsOf(a.path) \subseteq a.over
    /\ a.todo \in Seq(Paths) /\ \A i \in 1..Len(a.todo) : PoolsOf(a.todo[i]) \subseteq a.over
    /\ a.best # <<>> => QuoteHeld(a.best[1], a, pl)
    /\ LeftOK(a, pl)

ReadyOK(a, pl) ==
    DOMAIN a = ReadyFields /\ a.pc = "ready" /\ a.still \in BOOLEAN /\ QuoteHeld(a.quote, a, pl)

AskOK(a, pl) == a = NoCall \/ a = CallOver \/ HopsOK(a, pl) \/ ReadyOK(a, pl)

LiqFields == {"pc", "p", "balance", "over", "still", "amounts"}
BalanceFields == {"pc", "p", "r", "over", "still"}

BalanceOK(l, pl) ==
    /\ DOMAIN l = BalanceFields /\ l.pc = "balance" /\ l.still \in BOOLEAN
    /\ l.p \in Pools /\ l.over = {l.p}
    /\ l.still => l.r = pl[l.p].r /\ pl[l.p].lp > 0
ToldOK(l, pl) ==
    /\ DOMAIN l = LiqFields /\ l.pc \in {"position", "add", "remove"} /\ l.still \in BOOLEAN
    /\ l.p \in Pools /\ l.over = {l.p} /\ l.balance \in Int
    /\ l.pc = "add" => l.amounts \in [l.p -> Amounts]
    /\ l.pc # "add" /\ l.still =>
          \A t \in l.p : l.amounts[t] = computeBurn(l.balance, pl[l.p].r[t], pl[l.p].lp)
LiqOK(l, pl) == l = NoCall \/ l = CallOver \/ BalanceOK(l, pl) \/ ToldOK(l, pl)

(* The product has not fallen under a guard, unless liquidity was taken out. *)
GuardOK(l, pl) ==
    l.guard # <<>> => l.guard[1] \in Nat /\ (l.drained \/ l.guard[1] <= K(l.p, pl[l.p]))
CallbackFields == {"pc", "p", "guard", "drained"}
LoanFields == {"pc", "p", "t", "amount", "bps", "guard", "drained"}
CallbackOK(l, pl) ==
    /\ DOMAIN l = CallbackFields /\ l.pc = "callback"
    /\ l.p \in Pools /\ l.drained \in BOOLEAN /\ GuardOK(l, pl)
LentOK(l, pl) ==
    /\ DOMAIN l = LoanFields /\ l.pc \in {"estimate", "submit", "after"}
    /\ l.p \in Pools /\ l.t \in l.p /\ l.amount \in Nat /\ l.drained \in BOOLEAN /\ GuardOK(l, pl)
    /\ l.pc = "after" => l.guard # <<>>
LoanOK(l, pl) ==
    \/ l = NoCall \/ l = CallOver \/ CallbackOK(l, pl) \/ LentOK(l, pl)
    \/ l.pc = "verified" /\ (l.ok \/ l.drained)

AmmInv ==
    /\ AllPools(pool) /\ flashBps \in Nat
    /\ AskOK(ask, pool) /\ LiqOK(liq, pool) /\ LoanOK(loan, pool)
    /\ GuardedNearFeed

(* A move touches a call that read one of its pools. *)
LEMMA TouchedIs ==
    ASSUME NEW c, NEW ps, c.pc \notin {"idle", "over"}, "still" \in DOMAIN c, c.still \in BOOLEAN
    PROVE  /\ DOMAIN Touched(ps, c) = DOMAIN c
           /\ \A f \in DOMAIN c : f # "still" => Touched(ps, c)[f] = c[f]
           /\ Touched(ps, c).still \in BOOLEAN
           /\ Touched(ps, c).still => c.still /\ ps \cap c.over = {}
<1> DEFINE b == c.still /\ ps \cap c.over = {}
           d == [c EXCEPT !.still = b]
<1>1. Touched(ps, c) = d
  BY DEF Touched
<1>2. b \in BOOLEAN
  OBVIOUS
<1> HIDE DEF b
<1>3. DOMAIN d = DOMAIN c /\ (\A f \in DOMAIN c : f # "still" => d[f] = c[f]) /\ d.still = b
  OBVIOUS
<1> HIDE DEF d
<1>4. d.still => b
  BY <1>3, Zenon
<1> QED
  BY <1>1, <1>2, <1>3, <1>4 DEF b

LEMMA PoolsOfIn == \A path \in Paths : PoolsOf(path) \subseteq Pools
  BY PoolsOfAre, PoolsAre DEF Paths

LEMMA SoldUnmoved ==
    ASSUME NEW pl, NEW pm, NEW path \in Paths, \A p \in PoolsOf(path) : pm[p] = pl[p], NEW x
    PROVE  SoldFor(pm, path, x) = SoldFor(pl, path, x)
<1>1. CASE path = Direct
  BY <1>1, PoolsOfAre DEF SoldFor
<1>2. CASE path = Around
  <2>1. pm[{1, 2}] = pl[{1, 2}] /\ pm[{2, 3}] = pl[{2, 3}]
    BY <1>2, PoolsOfAre
  <2> QED
    BY <1>2, <2>1, PathsAre DEF SoldFor
<1> QED
  BY <1>1, <1>2 DEF Paths

LEMMA HonouredUnmoved ==
    ASSUME NEW pl, NEW pm, NEW q, QuoteOK(q), \A p \in PoolsOf(q.path) : pm[p] = pl[p],
           Honoured(q, pl)
    PROVE  Honoured(q, pm)
<1>1. q.path \in Paths
  BY DEF QuoteOK, QuoteRecs
<1>2. \A x : SoldFor(pm, q.path, x) = SoldFor(pl, q.path, x)
  BY <1>1, SoldUnmoved
<1>3. q.path = Direct => pm[{1, 3}] = pl[{1, 3}]
  BY PoolsOfAre
<1> QED
  BY <1>2, <1>3 DEF Honoured

LEMMA QuoteStillHeld ==
    ASSUME NEW pl, NEW pm, NEW a, NEW b, NEW q, QuoteHeld(q, a, pl), b.over = a.over,
           b.still => a.still /\ \A p \in a.over \cap Pools : pm[p] = pl[p]
    PROVE  QuoteHeld(q, b, pm)
<1>1. QuoteOK(q) /\ q.path \in Paths
  BY DEF QuoteHeld, QuoteOK, QuoteRecs
<1>2. \A p \in PoolsOf(q.path) : p \in a.over \cap Pools
  BY <1>1, PoolsOfIn DEF QuoteHeld
<1>3. ASSUME b.still PROVE Honoured(q, pm)
  BY <1>1, <1>2, <1>3, HonouredUnmoved DEF QuoteHeld
<1> QED
  BY <1>1, <1>3 DEF QuoteHeld

LEMMA AskTouched ==
    ASSUME NEW pl, NEW pm, NEW ps, NEW drained, PoolMoves(pl, pm, ps, drained),
           NEW a, AskOK(a, pl)
    PROVE  AskOK(Touched(ps, a), pm)
<1> DEFINE b == Touched(ps, a)
<1>1. CASE a = NoCall \/ a = CallOver
  BY <1>1 DEF Touched, NoCall, CallOver, AskOK
<1>2. CASE HopsOK(a, pl)
  <2>1. /\ DOMAIN a = HopsFields /\ a.pc = "hops" /\ a.still \in BOOLEAN
        /\ a.type \in {"in", "out"} /\ a.path \in Paths /\ a.amount \in Nat \ {0} /\ a.cur \in Nat
        /\ PoolsOf(a.path) \subseteq a.over
        /\ a.todo \in Seq(Paths) /\ \A i \in 1..Len(a.todo) : PoolsOf(a.todo[i]) \subseteq a.over
        /\ a.best # <<>> => QuoteHeld(a.best[1], a, pl)
        /\ LeftOK(a, pl)
    BY <1>2 DEF HopsOK
  <2>2. /\ DOMAIN b = HopsFields /\ \A f \in HopsFields : f # "still" => b[f] = a[f]
        /\ b.still \in BOOLEAN /\ (b.still => a.still /\ ps \cap a.over = {})
    BY <2>1, TouchedIs DEF HopsFields
  <2> HIDE DEF b
  <2>3. /\ b.pc = a.pc /\ b.type = a.type /\ b.path = a.path /\ b.amount = a.amount
        /\ b.cur = a.cur /\ b.left = a.left /\ b.todo = a.todo /\ b.best = a.best /\ b.over = a.over
    BY <2>2 DEF HopsFields
  <2>4. b.still => a.still /\ \A p \in a.over \cap Pools : pm[p] = pl[p]
    BY <2>2 DEF PoolMoves
  <2>5. b.best # <<>> => QuoteHeld(b.best[1], b, pm)
    BY <2>1, <2>3, <2>4, QuoteStillHeld
  <2>6. LeftOK(b, pm)
    <3>1. a.path = Around /\ b.still => pm[{1, 2}] = pl[{1, 2}] /\ pm[{2, 3}] = pl[{2, 3}]
      <4>1. a.path = Around => {1, 2} \in a.over \cap Pools /\ {2, 3} \in a.over \cap Pools
        BY <2>1, PoolsOfAre, PoolsAre
      <4> QED
        BY <2>4, <4>1
    <3>2. b.still => a.still
      BY <2>4
    <3> QED
      BY <2>1, <2>3, <3>1, <3>2 DEF LeftOK
  <2> QED
    BY <2>1, <2>2, <2>3, <2>5, <2>6 DEF AskOK, HopsOK, b
<1>3. CASE ReadyOK(a, pl)
  <2>1. DOMAIN a = ReadyFields /\ a.pc = "ready" /\ a.still \in BOOLEAN /\ QuoteHeld(a.quote, a, pl)
    BY <1>3 DEF ReadyOK
  <2>2. /\ DOMAIN b = ReadyFields /\ \A f \in ReadyFields : f # "still" => b[f] = a[f]
        /\ b.still \in BOOLEAN /\ (b.still => a.still /\ ps \cap a.over = {})
    BY <2>1, TouchedIs DEF ReadyFields
  <2> HIDE DEF b
  <2>3. b.pc = a.pc /\ b.quote = a.quote /\ b.over = a.over
    BY <2>2 DEF ReadyFields
  <2>4. b.still => a.still /\ \A p \in a.over \cap Pools : pm[p] = pl[p]
    BY <2>2 DEF PoolMoves
  <2>5. QuoteHeld(b.quote, b, pm)
    BY <2>1, <2>3, <2>4, QuoteStillHeld
  <2> QED
    BY <2>1, <2>2, <2>3, <2>5 DEF AskOK, ReadyOK, b
<1> QED
  BY <1>1, <1>2, <1>3 DEF AskOK

LEMMA LiqTouched ==
    ASSUME NEW pl, NEW pm, NEW ps, NEW drained, PoolMoves(pl, pm, ps, drained),
           NEW l, LiqOK(l, pl)
    PROVE  LiqOK(Touched(ps, l), pm)
<1> DEFINE b == Touched(ps, l)
<1>1. CASE l = NoCall \/ l = CallOver
  BY <1>1 DEF Touched, NoCall, CallOver, LiqOK
<1>2. CASE BalanceOK(l, pl)
  <2>1. /\ DOMAIN l = BalanceFields /\ l.pc = "balance" /\ l.still \in BOOLEAN
        /\ l.p \in Pools /\ l.over = {l.p}
        /\ l.still => l.r = pl[l.p].r /\ pl[l.p].lp > 0
    BY <1>2 DEF BalanceOK
  <2>2. /\ DOMAIN b = BalanceFields /\ \A f \in BalanceFields : f # "still" => b[f] = l[f]
        /\ b.still \in BOOLEAN /\ (b.still => l.still /\ ps \cap l.over = {})
    BY <2>1, TouchedIs DEF BalanceFields
  <2> HIDE DEF b
  <2>3. b.pc = l.pc /\ b.p = l.p /\ b.r = l.r /\ b.over = l.over
    BY <2>2 DEF BalanceFields
  <2>4. b.still => l.still /\ pm[l.p] = pl[l.p]
    BY <2>1, <2>2 DEF PoolMoves
  <2>5. BalanceOK(b, pm)
    BY <2>1, <2>2, <2>3, <2>4 DEF BalanceOK
  <2> QED
    BY <2>5 DEF LiqOK, b
<1>3. CASE ToldOK(l, pl)
  <2>1. /\ DOMAIN l = LiqFields /\ l.pc \in {"position", "add", "remove"} /\ l.still \in BOOLEAN
        /\ l.p \in Pools /\ l.over = {l.p}
    BY <1>3 DEF ToldOK
  <2>2. /\ DOMAIN b = LiqFields /\ \A f \in LiqFields : f # "still" => b[f] = l[f]
        /\ b.still \in BOOLEAN /\ (b.still => l.still /\ ps \cap l.over = {})
    BY <2>1, TouchedIs DEF LiqFields
  <2> HIDE DEF b
  <2>3. b.pc = l.pc /\ b.p = l.p /\ b.balance = l.balance /\ b.over = l.over /\ b.amounts = l.amounts
    BY <2>2 DEF LiqFields
  <2>4. b.still => l.still /\ pm[l.p] = pl[l.p]
    BY <2>1, <2>2 DEF PoolMoves
  <2>5. ToldOK(b, pm)
    BY <1>3, <2>1, <2>2, <2>3, <2>4 DEF ToldOK
  <2> QED
    BY <2>5 DEF LiqOK, b
<1> QED
  BY <1>1, <1>2, <1>3 DEF LiqOK

(* The product under a guard does not fall while no liquidity is taken out. *)
LEMMA GuardHolds ==
    ASSUME NEW pl, AllPools(pl), NEW pm, NEW ps, NEW drained, PoolMoves(pl, pm, ps, drained),
           NEW l, l.p \in Pools, GuardOK(l, pl), NEW n, n.guard = l.guard, n.p = l.p,
           n.drained \/ (l.p \notin drained /\ (l.drained => n.drained))
    PROVE  GuardOK(n, pm)
<1> SUFFICES ASSUME n.guard # <<>>, ~n.drained
             PROVE  n.guard[1] \in Nat /\ n.guard[1] <= K(n.p, pm[n.p])
  BY DEF GuardOK
<1> DEFINE g == l.guard[1]
           k == K(l.p, pl[l.p])
           m == K(l.p, pm[l.p])
<1>1. g \in Nat /\ g <= k
  BY DEF GuardOK
<1>2. k <= m
  BY DEF PoolMoves
<1>3. k \in Nat /\ m \in Nat
  BY PoolIs, Unmoved DEF PoolMoves
<1> HIDE DEF g, k, m
<1>4. g <= m
  BY <1>1, <1>2, <1>3
<1> QED
  BY <1>1, <1>4 DEF g, m

LEMMA GuardTyped ==
    ASSUME NEW l, NEW pl, GuardOK(l, pl), l.guard # <<>> PROVE l.guard[1] \in Nat
  BY DEF GuardOK

(* A flash loan under way, when no liquidity is taken out ... *)
LEMMA LoanKept ==
    ASSUME NEW pl, AllPools(pl), NEW pm, NEW ps, PoolMoves(pl, pm, ps, {}), NEW l, LoanOK(l, pl)
    PROVE  LoanOK(l, pm)
<1>1. CASE CallbackOK(l, pl) \/ LentOK(l, pl)
  <2>1. l.p \in Pools /\ GuardOK(l, pl)
    BY <1>1 DEF CallbackOK, LentOK
  <2>2. l.p \notin {} /\ (l.drained => l.drained)
    OBVIOUS
  <2>3. GuardOK(l, pm)
    BY <2>1, <2>2, GuardHolds
  <2> QED
    BY <1>1, <2>3 DEF LoanOK, CallbackOK, LentOK
<1> QED
  BY <1>1 DEF LoanOK

(* ... and when it is. *)
LEMMA LoanDrained ==
    ASSUME AllPools(pool), NEW p \in Pools, NEW pm, PoolMoves(pool, pm, {p}, {p}), LoanOK(loan, pool)
    PROVE  LoanOK(Drained(p), pm)
<1> DEFINE n == Drained(p)
<1>1. CASE CallbackOK(loan, pool)
  <2>1. /\ DOMAIN loan = CallbackFields /\ loan.pc = "callback"
        /\ loan.p \in Pools /\ loan.drained \in BOOLEAN /\ GuardOK(loan, pool)
    BY <1>1 DEF CallbackOK
  <2>2. /\ DOMAIN n = CallbackFields /\ n.pc = "callback" /\ n.p = loan.p /\ n.guard = loan.guard
        /\ n.drained \in BOOLEAN /\ (loan.drained => n.drained) /\ (loan.p = p => n.drained)
    BY <2>1 DEF Drained, CallbackFields
  <2> HIDE DEF n
  <2>3. n.drained \/ (loan.p \notin {p} /\ (loan.drained => n.drained))
    BY <2>2
  <2>4. GuardOK(n, pm)
    BY <2>1, <2>2, <2>3, GuardHolds
  <2>5. CallbackOK(n, pm)
    BY <2>1, <2>2, <2>4 DEF CallbackOK
  <2> QED
    BY <2>5 DEF LoanOK, n
<1>2. CASE LentOK(loan, pool)
  <2>1. /\ DOMAIN loan = LoanFields /\ loan.pc \in {"estimate", "submit", "after"}
        /\ loan.p \in Pools /\ loan.t \in loan.p /\ loan.amount \in Nat /\ loan.drained \in BOOLEAN
        /\ GuardOK(loan, pool) /\ (loan.pc = "after" => loan.guard # <<>>)
    BY <1>2 DEF LentOK
  <2>2. /\ DOMAIN n = LoanFields /\ n.pc = loan.pc /\ n.p = loan.p /\ n.t = loan.t
        /\ n.amount = loan.amount /\ n.guard = loan.guard
        /\ n.drained \in BOOLEAN /\ (loan.drained => n.drained) /\ (loan.p = p => n.drained)
    BY <2>1 DEF Drained, LoanFields
  <2> HIDE DEF n
  <2>3. n.drained \/ (loan.p \notin {p} /\ (loan.drained => n.drained))
    BY <2>2
  <2>4. GuardOK(n, pm)
    BY <2>1, <2>2, <2>3, GuardHolds
  <2>5. LentOK(n, pm)
    BY <2>1, <2>2, <2>4 DEF LentOK
  <2> QED
    BY <2>5 DEF LoanOK, n
<1>3. CASE loan = NoCall \/ loan = CallOver \/ loan.pc = "verified"
  <2>1. loan.pc \notin {"callback", "estimate", "submit", "after"}
    BY <1>3 DEF NoCall, CallOver
  <2>2. n = loan
    BY <2>1 DEF Drained
  <2>3. ~CallbackOK(loan, pool) /\ ~LentOK(loan, pool)
    BY <2>1 DEF CallbackOK, LentOK
  <2> QED
    BY <2>2, <2>3 DEF LoanOK
<1> QED
  BY <1>1, <1>2, <1>3 DEF LoanOK

(* Slippage: at least so much of v. *)
LEMMA AtLeastIs ==
    ASSUME NEW v \in Nat
    PROVE  /\ AtLeast(v) \in Nat /\ AtLeast(v) <= v
           /\ v * (BPS - Slippage) <= AtLeast(v) * BPS
           /\ Inflated(v) \in Nat /\ v <= Inflated(v)
<1> DEFINE s == Slippage
           d == BPS
           k == (v * s) \div d
<1>1. d \in Nat \ {0} /\ s \in Nat /\ s <= d
  BY AmmAssumption
<1>2. AtLeast(v) = v - k /\ Inflated(v) = v + k
  BY DEF AtLeast, Inflated
<1>3. v * s \in Nat
  BY <1>1
<1>4. k \in Nat /\ k * d <= v * s
  BY <1>1, <1>3, QuotientIs
<1> HIDE DEF k, d, s
<1>5. v * s <= v * d
  BY <1>1, TimesGrows
<1>6. k * d <= v * d
  BY <1>1, <1>3, <1>4, <1>5
<1>7. k <= v
  BY <1>1, <1>4, <1>6, TimesCancels
<1>8. v * (d - s) = v * d - v * s /\ (v - k) * d = v * d - k * d
  BY <1>1, <1>4
<1>9. v * (d - s) <= (v - k) * d
  BY <1>1, <1>3, <1>4, <1>8
<1> QED
  BY <1>2, <1>4, <1>7, <1>9 DEF d, s

(* The quote at the last hop of a path is one the pools honour while they    *)
(* stand still: what was read of the first pool is taken on to the second.   *)
LEMMA QuotedOut ==
    ASSUME NEW pl, AllPools(pl), NEW x \in Nat \ {0}, NEW y \in Nat \ {0}, NEW z \in Nat,
           NEW r1 \in Nat, NEW r2 \in Nat, NEW s2 \in Nat, NEW s3 \in Nat,
           pl[{1, 2}].r[1] = r1, pl[{1, 2}].r[2] = r2, pl[{2, 3}].r[2] = s2, pl[{2, 3}].r[3] = s3,
           x < s3, y = getAmountIn(x, s2, s3), y < r2, getAmountIn(y, r1, r2) <= z
    PROVE  x <= SoldFor(pl, Around, z)
<1> DEFINE v == getAmountIn(y, r1, r2)
           g == getAmountOut(v, r1, r2)
           w == getAmountOut(z, r1, r2)
           u == getAmountOut(w, s2, s3)
<1>1. v \in Nat \ {0} /\ y <= g
  BY AmountInSuffices
<1>2. x <= getAmountOut(y, s2, s3)
  BY AmountInSuffices
<1>3. z # 0 /\ z + r1 > 0 /\ v + r1 > 0 /\ v <= z
  BY <1>1
<1> HIDE DEF v
<1>4. g \in Nat /\ w \in Nat
  BY <1>1, <1>3, AmountOutIs
<1>9. g <= w
  BY <1>1, <1>3, AmountOutGrows
<1> HIDE DEF g
<1>5. y <= w /\ w # 0
  BY <1>1, <1>4, <1>9
<1> HIDE DEF w
<1> DEFINE e == getAmountOut(y, s2, s3)
<1>10. y + s2 > 0 /\ w + s2 > 0 /\ w \in Nat
  BY <1>4, <1>5
<1>6. e \in Nat /\ u \in Nat
  BY <1>10, AmountOutIs, ZenonT(60)
<1>11. e <= u
  BY <1>5, <1>10, AmountOutGrows
<1> HIDE DEF e, u
<1>7. x <= u
  BY <1>2, <1>6, <1>11 DEF e
<1>8. SoldFor(pl, Around, z) = u
  <2>1. Swapped(pl[{1, 2}], 1, 2, z) = w
    BY <1>3 DEF Swapped, w
  <2>2. Swapped(pl[{2, 3}], 2, 3, w) = u
    BY <1>5 DEF Swapped, u
  <2> QED
    BY <2>1, <2>2, PathsAre DEF SoldFor
<1> QED
  BY <1>7, <1>8

(* A step of a quote that is not refused: what it reads and computes. *)
HopReads(a, pl, h, v) ==
    /\ a.cur # 0 /\ Reserve(pl, h, 1) # 0 /\ Reserve(pl, h, 2) # 0
    /\ a.type = "out" => a.cur < Reserve(pl, h, 2)
    /\ v = IF a.type = "in" THEN getAmountOut(a.cur, Reserve(pl, h, 1), Reserve(pl, h, 2))
           ELSE getAmountIn(a.cur, Reserve(pl, h, 1), Reserve(pl, h, 2))

LEMMA HopReadsNat ==
    ASSUME NEW pl, AllPools(pl), NEW a, a.cur \in Nat, a.type \in {"in", "out"},
           NEW x, NEW y, {x, y} \in Pools, x # y, NEW v, HopReads(a, pl, <<x, y>>, v)
    PROVE  /\ pl[{x, y}].r[x] \in Nat \ {0} /\ pl[{x, y}].r[y] \in Nat \ {0} /\ v \in Nat
           /\ a.cur # 0 /\ (a.type = "out" => a.cur < pl[{x, y}].r[y])
           /\ v = IF a.type = "in" THEN getAmountOut(a.cur, pl[{x, y}].r[x], pl[{x, y}].r[y])
                  ELSE getAmountIn(a.cur, pl[{x, y}].r[x], pl[{x, y}].r[y])
<1> DEFINE rIn == pl[{x, y}].r[x]
           rOut == pl[{x, y}].r[y]
<1>1. Reserve(pl, <<x, y>>, 1) = rIn /\ Reserve(pl, <<x, y>>, 2) = rOut
  BY ReserveIs
<1>2. rIn \in Nat /\ rOut \in Nat
  BY PoolIs
<1> HIDE DEF rIn, rOut
<1>3. /\ a.cur # 0 /\ rIn # 0 /\ rOut # 0 /\ (a.type = "out" => a.cur < rOut)
      /\ v = IF a.type = "in" THEN getAmountOut(a.cur, rIn, rOut) ELSE getAmountIn(a.cur, rIn, rOut)
  BY <1>1 DEF HopReads
<1>4. v \in Nat
  <2>1. CASE a.type = "in"
    <3>0. a.cur + rIn > 0
      BY <1>2, <1>3
    <3>1. getAmountOut(a.cur, rIn, rOut) \in Nat
      BY <1>2, <3>0, AmountOutIs
    <3> QED
      BY <1>3, <2>1, <3>1
  <2>2. CASE a.type = "out"
    <3>0. a.cur < rOut
      BY <1>3, <2>2
    <3>1. getAmountIn(a.cur, rIn, rOut) \in Nat
      BY <1>2, <3>0, AmountInSuffices
    <3> QED
      BY <1>3, <2>2, <3>1
  <2> QED
    BY <2>1, <2>2
<1> QED
  BY <1>2, <1>3, <1>4 DEF rIn, rOut

LEMMA QuoteFields ==
    ASSUME NEW a, a.type \in {"in", "out"}, a.path \in Paths, a.amount \in Nat \ {0}, NEW v \in Nat
    PROVE  LET q == QuoteOf(a, v) IN
           /\ QuoteOK(q) /\ q.path = a.path /\ q.type = a.type
           /\ a.type = "in" => q.amountIn = a.amount /\ q.amountOut = v
           /\ a.type = "out" => q.amountOut = a.amount /\ v <= q.amountIn
<1> DEFINE q == QuoteOf(a, v)
           n == AtLeast(v)
           m == IF a.api = "route" /\ Len(a.path) > 2 THEN v ELSE Inflated(v)
<1>0. /\ n \in Nat /\ n <= v /\ v * (BPS - Slippage) <= n * BPS
      /\ Inflated(v) \in Nat /\ v <= Inflated(v)
  BY AtLeastIs
<1>1. n \in Nat /\ n <= v /\ v * (BPS - Slippage) <= n * BPS /\ m \in Nat /\ v <= m
  <2>1. v <= v /\ (m = v \/ m = Inflated(v))
    OBVIOUS
  <2> HIDE DEF m, n
  <2> QED
    BY <1>0, <2>1, Zenon
<1>2. CASE a.type = "in"
  <2>1. q = [path |-> a.path, type |-> "in", amountIn |-> a.amount, amountOut |-> v,
             amountOutMin |-> n, base |-> a.amount]
    BY <1>2 DEF QuoteOf
  <2> HIDE DEF n, m, q
  <2>2. /\ q \in QuoteRecs /\ q.path = a.path /\ q.type = "in" /\ q.amountIn = a.amount
        /\ q.amountOut = v /\ q.amountOutMin = n
    BY <1>1, <2>1 DEF QuoteRecs
  <2>3. QuoteOK(q)
    BY <1>1, <2>2 DEF QuoteOK
  <2> QED
    BY <1>2, <2>2, <2>3 DEF q
<1>3. CASE a.type = "out"
  <2>1. q = [path |-> a.path, type |-> "out", amountOut |-> a.amount, amountOutMin |-> a.amount,
             amountIn |-> m, base |-> v]
    BY <1>3 DEF QuoteOf
  <2> HIDE DEF n, m, q
  <2>2. /\ q \in QuoteRecs /\ q.path = a.path /\ q.type = "out" /\ q.amountIn = m
        /\ q.amountOut = a.amount /\ q.amountOutMin = a.amount
    BY <1>1, <2>1 DEF QuoteRecs
  <2>3. q.amountOut * (BPS - Slippage) <= q.amountOutMin * BPS
    <3> DEFINE x == a.amount
               b == BPS
               c == BPS - Slippage
    <3>1. x \in Nat /\ b \in Nat /\ c \in Nat /\ c <= b
      BY AmmAssumption
    <3>2. q.amountOut = x /\ q.amountOutMin = x
      BY <2>2
    <3> HIDE DEF x, b, c
    <3>3. x * c <= x * b
      BY <3>1, TimesGrows
    <3> QED
      BY <3>2, <3>3 DEF b, c
  <2>4. q.amountOutMin <= q.amountOut
    BY <2>2
  <2>5. QuoteOK(q)
    BY <2>2, <2>3, <2>4 DEF QuoteOK
  <2> QED
    BY <1>1, <1>3, <2>2, <2>5 DEF q
<1> QED
  BY <1>2, <1>3

LEMMA QuoteAtLastHop ==
    ASSUME NEW pl, AllPools(pl), NEW a, HopsOK(a, pl), Len(a.left) = 1,
           NEW v, HopReads(a, pl, a.left[1], v)
    PROVE  QuoteHeld(QuoteOf(a, v), a, pl)
<1> DEFINE q == QuoteOf(a, v)
<1>1. /\ a.still \in BOOLEAN /\ a.type \in {"in", "out"} /\ a.path \in Paths
      /\ a.amount \in Nat \ {0} /\ a.cur \in Nat /\ PoolsOf(a.path) \subseteq a.over /\ LeftOK(a, pl)
  BY DEF HopsOK
<1>2. v \in Nat => /\ QuoteOK(q) /\ q.path = a.path /\ q.type = a.type
                   /\ a.type = "in" => q.amountIn = a.amount /\ q.amountOut = v
                   /\ a.type = "out" => q.amountOut = a.amount /\ v <= q.amountIn
  BY <1>1, QuoteFields
<1> HIDE DEF q
<1>3. QuoteOK(q) => q.amountIn \in Nat
  BY DEF QuoteOK, QuoteRecs
<1>4. CASE a.path = Direct
  <2>1. a.left[1] = <<1, 3>> /\ a.cur = a.amount
    BY <1>1, <1>4, PathsAre DEF LeftOK
  <2> DEFINE r1 == pl[{1, 3}].r[1]
             r3 == pl[{1, 3}].r[3]
  <2>2. HopReads(a, pl, <<1, 3>>, v)
    BY <2>1
  <2>3. /\ r1 \in Nat \ {0} /\ r3 \in Nat \ {0} /\ v \in Nat
        /\ a.cur # 0 /\ (a.type = "out" => a.cur < r3)
        /\ v = IF a.type = "in" THEN getAmountOut(a.cur, r1, r3) ELSE getAmountIn(a.cur, r1, r3)
    BY <1>1, <2>2, PoolsAre, HopReadsNat
  <2>4. Honoured(q, pl)
    <3>1. CASE a.type = "in"
      <4>1. q.type = "in" /\ q.path = Direct /\ q.amountIn = a.amount /\ q.amountOut = v
        BY <1>2, <1>4, <2>3, <3>1
      <4>2. SoldFor(pl, q.path, q.amountIn) = v
        BY <1>1, <2>1, <2>3, <3>1, <4>1 DEF SoldFor, Swapped
      <4> QED
        BY <4>1, <4>2 DEF Honoured
    <3>2. CASE a.type = "out"
      <4> HIDE DEF r1, r3
      <4>1. q.type = "out" /\ q.path = Direct /\ q.amountOut = a.amount /\ v <= q.amountIn
        BY <1>2, <1>4, <2>3, <3>2
      <4>2. q.amountOut < r3 /\ getAmountIn(q.amountOut, r1, r3) <= q.amountIn
        BY <2>1, <2>3, <3>2, <4>1
      <4> QED
        BY <4>1, <4>2 DEF Honoured, r1, r3
    <3> QED
      BY <1>1, <3>1, <3>2
  <2> QED
    BY <1>1, <1>2, <2>3, <2>4 DEF QuoteHeld, q
<1>5. CASE a.path = Around /\ a.type = "in"
  <2>1. a.left[1] = <<2, 3>> /\ (a.still => a.cur = Swapped(pl[{1, 2}], 1, 2, a.amount))
    BY <1>1, <1>5, PathsAre DEF LeftOK
  <2> DEFINE r1 == pl[{2, 3}].r[2]
             r3 == pl[{2, 3}].r[3]
  <2>2. HopReads(a, pl, <<2, 3>>, v)
    BY <2>1
  <2>3. /\ v \in Nat /\ a.cur # 0 /\ v = getAmountOut(a.cur, r1, r3)
    BY <1>1, <1>5, <2>2, PoolsAre, HopReadsNat
  <2>4. q.type = "in" /\ q.path = Around /\ q.amountIn = a.amount /\ q.amountOut = v
    BY <1>2, <1>5, <2>3
  <2>5. a.still => SoldFor(pl, q.path, q.amountIn) = v
    BY <2>1, <2>3, <2>4, PathsAre DEF SoldFor, Swapped
  <2>6. a.still => Honoured(q, pl)
    BY <2>4, <2>5 DEF Honoured
  <2> QED
    BY <1>1, <1>2, <2>3, <2>6 DEF QuoteHeld, q
<1>6. CASE a.path = Around /\ a.type = "out"
  <2> DEFINE r1 == pl[{1, 2}].r[1]
             r2 == pl[{1, 2}].r[2]
             s2 == pl[{2, 3}].r[2]
             s3 == pl[{2, 3}].r[3]
  <2>1. a.left[1] = <<1, 2>> /\ (a.still => a.amount < s3 /\ a.cur = getAmountIn(a.amount, s2, s3))
    BY <1>1, <1>6, PathsAre DEF LeftOK
  <2>2. HopReads(a, pl, <<1, 2>>, v)
    BY <2>1
  <2>3. /\ v \in Nat /\ a.cur # 0 /\ v = getAmountIn(a.cur, r1, r2) /\ a.cur < r2
        /\ r1 \in Nat /\ r2 \in Nat
    BY <1>1, <1>6, <2>2, PoolsAre, HopReadsNat
  <2>4. s2 \in Nat /\ s3 \in Nat
    BY PoolIs, PoolsAre
  <2>5. q.type = "out" /\ q.path = Around /\ q.amountOut = a.amount /\ v <= q.amountIn
        /\ q.amountIn \in Nat
    BY <1>2, <1>3, <1>6, <2>3
  <2>6. a.still => q.amountOut <= SoldFor(pl, Around, q.amountIn)
    <3> SUFFICES ASSUME a.still PROVE a.amount <= SoldFor(pl, Around, q.amountIn)
      BY <2>5
    <3> DEFINE x == a.amount
               y == a.cur
               z == q.amountIn
    <3>1. /\ x \in Nat \ {0} /\ y \in Nat \ {0} /\ z \in Nat /\ x < s3 /\ y = getAmountIn(x, s2, s3)
          /\ y < r2 /\ getAmountIn(y, r1, r2) <= z
      BY <1>1, <2>1, <2>3, <2>5
    <3> HIDE DEF x, y, z
    <3>2. x <= SoldFor(pl, Around, z)
      BY <2>3, <2>4, <3>1, QuotedOut
    <3> QED
      BY <3>2 DEF x, z
  <2>7. a.still => Honoured(q, pl)
    BY <2>5, <2>6, PathsAre DEF Honoured
  <2> QED
    BY <1>1, <1>2, <2>3, <2>7 DEF QuoteHeld, q
<1> QED
  BY <1>1, <1>4, <1>5, <1>6 DEF Paths

(* The hops of a path in the order in which they are quoted. *)
LEMMA InOrderIs ==
    /\ \A type \in {"in", "out"} : /\ InOrder(Direct, type) \in Seq(Int \X Int)
                                   /\ Len(InOrder(Direct, type)) = 1
                                   /\ InOrder(Direct, type)[1] = <<1, 3>>
    /\ InOrder(Around, "in") \in Seq(Int \X Int) /\ Len(InOrder(Around, "in")) = 2
    /\ InOrder(Around, "in")[1] = <<1, 2>> /\ InOrder(Around, "in")[2] = <<2, 3>>
    /\ InOrder(Around, "out") \in Seq(Int \X Int) /\ Len(InOrder(Around, "out")) = 2
    /\ InOrder(Around, "out")[1] = <<2, 3>> /\ InOrder(Around, "out")[2] = <<1, 2>>
<1>1. ASSUME NEW s \in Seq(Int \X Int)
      PROVE  /\ Reverse(s) \in Seq(Int \X Int) /\ Len(Reverse(s)) = Len(s)
             /\ \A i \in 1..Len(s) : Reverse(s)[i] = s[(Len(s) - i) + 1]
  BY DEF Reverse
<1> DEFINE d == HopsOf(Direct)
           e == HopsOf(Around)
<1>2. /\ d \in Seq(Int \X Int) /\ Len(d) = 1 /\ d[1] = <<1, 3>>
      /\ e \in Seq(Int \X Int) /\ Len(e) = 2 /\ e[1] = <<1, 2>> /\ e[2] = <<2, 3>>
  BY HopsAre
<1>3. \A type \in {"in", "out"} : InOrder(Direct, type) = d \/ InOrder(Direct, type) = Reverse(d)
  BY DEF InOrder
<1>4. InOrder(Around, "in") = e /\ InOrder(Around, "out") = Reverse(e)
  BY DEF InOrder
<1> HIDE DEF d, e
<1>5. Reverse(d) \in Seq(Int \X Int) /\ Len(Reverse(d)) = 1 /\ Reverse(d)[1] = <<1, 3>>
  <2>1. Reverse(d) \in Seq(Int \X Int) /\ Len(Reverse(d)) = Len(d)
        /\ \A i \in 1..Len(d) : Reverse(d)[i] = d[(Len(d) - i) + 1]
    BY <1>1, <1>2
  <2>2. (1 - 1) + 1 = 1
    OBVIOUS
  <2> QED
    BY <1>2, <2>1, <2>2
<1>6. /\ Reverse(e) \in Seq(Int \X Int) /\ Len(Reverse(e)) = 2
      /\ Reverse(e)[1] = <<2, 3>> /\ Reverse(e)[2] = <<1, 2>>
  <2>1. Reverse(e) \in Seq(Int \X Int) /\ Len(Reverse(e)) = Len(e)
        /\ \A i \in 1..Len(e) : Reverse(e)[i] = e[(Len(e) - i) + 1]
    BY <1>1, <1>2
  <2>2. (2 - 1) + 1 = 2 /\ (2 - 2) + 1 = 1
    OBVIOUS
  <2> QED
    BY <1>2, <2>1, <2>2
<1> QED
  BY <1>2, <1>3, <1>4, <1>5, <1>6

(* A quote that sets out on a path. *)
LEMMA QuotingStarts ==
    ASSUME NEW pl, NEW n, DOMAIN n = HopsFields, n.pc = "hops", n.type \in {"in", "out"},
           n.path \in Paths, n.amount \in Nat \ {0}, n.cur = n.amount,
           n.left = InOrder(n.path, n.type), n.todo \in Seq(Paths),
           n.still \in BOOLEAN, PoolsOf(n.path) \subseteq n.over,
           \A i \in 1..Len(n.todo) : PoolsOf(n.todo[i]) \subseteq n.over,
           n.best # <<>> => QuoteHeld(n.best[1], n, pl)
    PROVE  HopsOK(n, pl)
<1>1. LeftOK(n, pl)
  BY InOrderIs DEF LeftOK, Paths
<1> QED
  BY <1>1 DEF HopsOK

LEMMA QuotingIs ==
    ASSUME NEW api, NEW type, NEW path, NEW x, NEW todo, NEW best
    PROVE  LET n == Quoting(api, type, path, x, todo, best) IN
           /\ DOMAIN n = HopsFields /\ n.pc = "hops" /\ n.type = type
           /\ n.path = path /\ n.amount = x /\ n.cur = x /\ n.left = InOrder(path, type)
           /\ n.todo = todo /\ n.best = best /\ n.over = PoolsOf(path) /\ n.still = TRUE
  BY DEF Quoting, HopsFields

LEMMA Requested ==
    ASSUME NEW api, NEW type \in {"in", "out"}, NEW path \in Paths, NEW x \in Amounts,
           RequestQuote(api, type, path, x)
    PROVE  AskOK(ask', pool)
<1> DEFINE n == Quoting(api, type, path, x, <<>>, <<>>)
<1>1. x \in Nat \ {0}
  BY AmountsAre
<1>2. /\ DOMAIN n = HopsFields /\ n.pc = "hops" /\ n.type = type
      /\ n.path = path /\ n.amount = x /\ n.cur = x /\ n.left = InOrder(path, type)
      /\ n.todo = <<>> /\ n.best = <<>> /\ n.over = PoolsOf(path) /\ n.still = TRUE
  BY QuotingIs
<1>3. ask' = n
  BY DEF RequestQuote
<1> HIDE DEF n
<1>4. HopsOK(n, pool)
  <2>1. n.todo \in Seq(Paths) /\ \A i \in 1..Len(n.todo) : PoolsOf(n.todo[i]) \subseteq n.over
    BY <1>2
  <2>2. /\ n.type \in {"in", "out"} /\ n.path \in Paths /\ n.amount \in Nat \ {0}
        /\ n.cur = n.amount /\ n.left = InOrder(n.path, n.type) /\ n.still \in BOOLEAN
        /\ PoolsOf(n.path) \subseteq n.over
    BY <1>1, <1>2
  <2>3. DOMAIN n = HopsFields /\ n.pc = "hops" /\ (n.best # <<>> => QuoteHeld(n.best[1], n, pool))
    BY <1>2
  <2> QED
    BY <2>1, <2>2, <2>3, QuotingStarts
<1> QED
  BY <1>3, <1>4 DEF AskOK

(* The router sets out on the first of its routes, the others still to do. *)
LEMMA RouteStarts ==
    ASSUME NEW type \in {"in", "out"}, NEW x \in Amounts, FindOptimalPath(type, x)
    PROVE  AskOK(ask', pool)
<1>1. x \in Nat \ {0}
  BY AmountsAre
<1>2. Viable \in Seq(Paths)
  <2> DEFINE S == {i \in DOMAIN Routes : \A p \in PoolsOf(Routes[i]) : Funded(p)}
  <2>1. (\A e \in S : e \in 1..Len(Routes)) /\ Routes \in Seq(Paths)
    BY RoutesAre
  <2>2. Viable = Sublist(Routes, S)
    BY DEF Viable
  <2> HIDE DEF S
  <2> QED
    BY <2>1, <2>2, SublistIs
<1>3. Viable # <<>>
  BY DEF FindOptimalPath
<1> DEFINE w == Viable
           over == UNION {PoolsOf(r) : r \in ToSet(w)}
           m == Quoting("route", type, Head(w), x, Tail(w), <<>>)
           n == [m EXCEPT !.over = over]
<1>4. ask' = n
  BY DEF FindOptimalPath
<1>5. /\ DOMAIN m = HopsFields /\ m.pc = "hops" /\ m.type = type
      /\ m.path = Head(w) /\ m.amount = x /\ m.cur = x /\ m.left = InOrder(Head(w), type)
      /\ m.todo = Tail(w) /\ m.best = <<>> /\ m.still = TRUE
  <2> HIDE DEF w
  <2> QED
    BY DEF Quoting, HopsFields
<1>6. \A i \in 1..Len(w) : PoolsOf(w[i]) \subseteq over
  <2>1. \A i \in 1..Len(w) : w[i] \in ToSet(w)
    <3>1. DOMAIN w = 1..Len(w)
      BY <1>2
    <3> HIDE DEF w
    <3> QED
      BY <3>1 DEF ToSet
  <2> HIDE DEF w
  <2> QED
    BY <2>1
<1> HIDE DEF over, m
<1>7. /\ DOMAIN n = HopsFields /\ n.over = over /\ n.pc = "hops" /\ n.type = type
      /\ n.path = Head(w) /\ n.amount = x /\ n.cur = x /\ n.left = InOrder(Head(w), type)
      /\ n.todo = Tail(w) /\ n.best = <<>> /\ n.still = TRUE
  BY <1>5 DEF HopsFields
<1> HIDE DEF n, w
<1>8. /\ Head(w) \in Paths /\ Tail(w) \in Seq(Paths) /\ Head(w) = w[1] /\ 1 \in 1..Len(w)
      /\ \A i \in 1..Len(Tail(w)) : i + 1 \in 1..Len(w) /\ Tail(w)[i] = w[i + 1]
  BY <1>2, <1>3 DEF w
<1>9. /\ PoolsOf(Head(w)) \subseteq over
      /\ \A i \in 1..Len(Tail(w)) : PoolsOf(Tail(w)[i]) \subseteq over
  BY <1>6, <1>8
<1>10. HopsOK(n, pool)
  BY <1>1, <1>7, <1>8, <1>9, QuotingStarts
<1> QED
  BY <1>4, <1>10 DEF AskOK

(* A path is done: the next one is quoted with what the call knows already, *)
(* or the best quote is the answer.                                         *)
LEMMA PathIsDone ==
    ASSUME HopsOK(ask, pool), NEW best, best # <<>> => QuoteHeld(best[1], ask, pool)
    PROVE  AskOK(PathDone(best), pool)
<1>1. /\ ask.type \in {"in", "out"} /\ ask.amount \in Nat \ {0} /\ ask.still \in BOOLEAN
      /\ ask.todo \in Seq(Paths)
      /\ \A i \in 1..Len(ask.todo) : PoolsOf(ask.todo[i]) \subseteq ask.over
  BY DEF HopsOK
<1>2. CASE ask.todo # <<>>
  <2> DEFINE w == ask.todo
             m == Quoting(ask.api, ask.type, Head(w), ask.amount, Tail(w), best)
             n == [m EXCEPT !.over = ask.over, !.still = ask.still]
  <2>1. PathDone(best) = n
    BY <1>2 DEF PathDone
  <2>2. /\ DOMAIN m = HopsFields /\ m.pc = "hops" /\ m.type = ask.type
        /\ m.path = Head(w) /\ m.amount = ask.amount /\ m.cur = ask.amount
        /\ m.left = InOrder(Head(w), ask.type) /\ m.todo = Tail(w) /\ m.best = best
    <3> HIDE DEF w
    <3> QED
      BY DEF Quoting, HopsFields
  <2> HIDE DEF m
  <2>3. /\ DOMAIN n = HopsFields /\ n.over = ask.over /\ n.still = ask.still /\ n.pc = "hops"
        /\ n.type = ask.type /\ n.path = Head(w) /\ n.amount = ask.amount /\ n.cur = ask.amount
        /\ n.left = InOrder(Head(w), ask.type) /\ n.todo = Tail(w) /\ n.best = best
    BY <2>2 DEF HopsFields
  <2> HIDE DEF n
  <2>4. /\ Head(w) \in Paths /\ Tail(w) \in Seq(Paths) /\ Head(w) = w[1] /\ 1 \in 1..Len(w)
        /\ \A i \in 1..Len(Tail(w)) : i + 1 \in 1..Len(w) /\ Tail(w)[i] = w[i + 1]
    BY <1>1, <1>2
  <2>5. /\ PoolsOf(Head(w)) \subseteq ask.over
        /\ \A i \in 1..Len(Tail(w)) : PoolsOf(Tail(w)[i]) \subseteq ask.over
    BY <1>1, <2>4
  <2>6. best # <<>> => QuoteHeld(best[1], n, pool)
    BY <2>3 DEF QuoteHeld
  <2> HIDE DEF w
  <2>7. HopsOK(n, pool)
    BY <1>1, <2>3, <2>4, <2>5, <2>6, QuotingStarts
  <2> QED
    BY <2>1, <2>7 DEF AskOK
<1>3. CASE ask.todo = <<>> /\ best = <<>>
  BY <1>3 DEF PathDone, AskOK
<1>4. CASE ask.todo = <<>> /\ best # <<>>
  <2> DEFINE n == [pc |-> "ready", api |-> ask.api, quote |-> best[1], over |-> ask.over,
                   still |-> ask.still]
  <2>1. PathDone(best) = n
    BY <1>4 DEF PathDone
  <2>2. DOMAIN n = ReadyFields /\ n.pc = "ready" /\ n.quote = best[1] /\ n.over = ask.over
        /\ n.still = ask.still
    BY DEF ReadyFields
  <2> HIDE DEF n
  <2>3. QuoteHeld(n.quote, n, pool)
    BY <1>4, <2>2 DEF QuoteHeld
  <2> QED
    BY <1>1, <2>1, <2>2, <2>3 DEF AskOK, ReadyOK
<1> QED
  BY <1>2, <1>3, <1>4

LEMMA HopRead ==
    ASSUME AllPools(pool), AskOK(ask, pool), ReadHop
    PROVE  AskOK(ask', pool)
<1> DEFINE h == Head(ask.left)
           rIn == Reserve(pool, h, 1)
           rOut == Reserve(pool, h, 2)
           throws == ask.cur = 0 \/ rIn = 0 \/ rOut = 0 \/ (ask.type = "out" /\ ask.cur >= rOut)
           v == IF ask.type = "in" THEN getAmountOut(ask.cur, rIn, rOut)
                                   ELSE getAmountIn(ask.cur, rIn, rOut)
           q == QuoteOf(ask, v)
           n == [ask EXCEPT !.left = Tail(@), !.cur = v]
<1>1. ask.pc = "hops"
  BY DEF ReadHop
<1>2. HopsOK(ask, pool)
  BY <1>1 DEF AskOK, NoCall, CallOver, ReadyOK
<1>3. \/ throws /\ ask' = PathDone(ask.best)
      \/ ~throws /\ Len(ask.left) > 1 /\ ask' = n
      \/ ~throws /\ ~(Len(ask.left) > 1)
         /\ (ask' = PathDone(<<q>>) \/ ask' = PathDone(ask.best))
  <2> HIDE DEF throws, n
  <2> QED
    BY DEF ReadHop, throws, n
<1>4. /\ ask.type \in {"in", "out"} /\ ask.path \in Paths /\ ask.cur \in Nat /\ LeftOK(ask, pool)
      /\ DOMAIN ask = HopsFields /\ ask.still \in BOOLEAN /\ ask.amount \in Nat \ {0}
      /\ PoolsOf(ask.path) \subseteq ask.over /\ ask.todo \in Seq(Paths)
      /\ \A i \in 1..Len(ask.todo) : PoolsOf(ask.todo[i]) \subseteq ask.over
      /\ ask.best # <<>> => QuoteHeld(ask.best[1], ask, pool)
  BY <1>2 DEF HopsOK
<1>5. /\ ask.left \in Seq(Int \X Int) /\ Len(ask.left) \in {1, 2}
      /\ h = ask.left[1]
      /\ h \in {<<1, 3>>, <<1, 2>>, <<2, 3>>}
  BY <1>4 DEF LeftOK
<1>6. AskOK(PathDone(ask.best), pool)
  BY <1>2, <1>4, PathIsDone
<1>7. ASSUME ~throws PROVE HopReads(ask, pool, h, v)
  <2>1. rOut \in Nat
    <3>1. /\ Reserve(pool, <<1, 3>>, 2) = pool[{1, 3}].r[3] /\ Reserve(pool, <<1, 2>>, 2) = pool[{1, 2}].r[2]
          /\ Reserve(pool, <<2, 3>>, 2) = pool[{2, 3}].r[3]
      BY ReserveIs, PoolsAre
    <3>2. pool[{1, 3}].r[3] \in Nat /\ pool[{1, 2}].r[2] \in Nat /\ pool[{2, 3}].r[3] \in Nat
      BY PoolIs, PoolsAre
    <3> QED
      BY <1>5, <3>1, <3>2
  <2>2. ask.cur # 0 /\ rIn # 0 /\ rOut # 0 /\ (ask.type = "out" => ~(ask.cur >= rOut))
    BY <1>7
  <2> HIDE DEF h
  <2>3. ask.type = "out" => ask.cur < rOut
    BY <1>4, <2>1, <2>2
  <2> QED
    BY <2>2, <2>3 DEF HopReads
<1>8. CASE ~throws /\ Len(ask.left) > 1 /\ ask' = n
  <2>1. HopReads(ask, pool, h, v)
    BY <1>7, <1>8
  <2>2. Len(ask.left) = 2 /\ ask.path = Around /\ ask.cur = ask.amount
        /\ \/ ask.type = "in" /\ ask.left[1] = <<1, 2>> /\ ask.left[2] = <<2, 3>>
           \/ ask.type = "out" /\ ask.left[1] = <<2, 3>> /\ ask.left[2] = <<1, 2>>
    BY <1>4, <1>8 DEF LeftOK
  <2>3. Tail(ask.left) \in Seq(Int \X Int) /\ Len(Tail(ask.left)) = 1
        /\ Tail(ask.left)[1] = ask.left[2]
    BY <1>5, <2>2
  <2> HIDE DEF v, throws, h
  <2>4. /\ DOMAIN n = HopsFields /\ n.pc = "hops" /\ n.still = ask.still /\ n.type = ask.type
        /\ n.path = ask.path /\ n.amount = ask.amount /\ n.over = ask.over /\ n.todo = ask.todo
        /\ n.best = ask.best /\ n.left = Tail(ask.left) /\ n.cur = v
    BY <1>1, <1>4 DEF HopsFields
  <2> HIDE DEF n
  <2>5. n.best # <<>> => QuoteHeld(n.best[1], n, pool)
    BY <1>4, <2>4 DEF QuoteHeld
  <2>6. v \in Nat /\ LeftOK(n, pool)
    <3>1. CASE ask.type = "in"
      <4>1. HopReads(ask, pool, <<1, 2>>, v)
        BY <1>5, <2>1, <2>2, <3>1
      <4>2. v \in Nat /\ ask.cur # 0
            /\ v = getAmountOut(ask.cur, pool[{1, 2}].r[1], pool[{1, 2}].r[2])
        <5>1. ask.cur \in Nat /\ ask.type \in {"in", "out"} /\ 1 # 2 /\ {1, 2} \in Pools
          BY <1>4, PoolsAre
        <5>2. /\ v \in Nat /\ ask.cur # 0
              /\ v = IF ask.type = "in"
                     THEN getAmountOut(ask.cur, pool[{1, 2}].r[1], pool[{1, 2}].r[2])
                     ELSE getAmountIn(ask.cur, pool[{1, 2}].r[1], pool[{1, 2}].r[2])
          BY <4>1, <5>1, HopReadsNat
        <5> QED
          BY <3>1, <5>2
      <4>3. v = Swapped(pool[{1, 2}], 1, 2, ask.amount)
        BY <2>2, <4>2 DEF Swapped
      <4>4. n.left \in Seq(Int \X Int) /\ Len(n.left) = 1 /\ n.left[1] = <<2, 3>>
        BY <2>2, <2>3, <2>4, <3>1
      <4>5. n.path = Around /\ n.type = "in" /\ n.amount = ask.amount /\ n.cur = v
        BY <2>2, <2>4, <3>1
      <4> QED
        BY <4>2, <4>3, <4>4, <4>5 DEF LeftOK
    <3>2. CASE ask.type = "out"
      <4>1. HopReads(ask, pool, <<2, 3>>, v)
        BY <1>5, <2>1, <2>2, <3>2
      <4>2. v \in Nat /\ ask.cur < pool[{2, 3}].r[3]
            /\ v = getAmountIn(ask.cur, pool[{2, 3}].r[2], pool[{2, 3}].r[3])
        <5>1. ask.cur \in Nat /\ ask.type \in {"in", "out"} /\ 2 # 3 /\ {2, 3} \in Pools
          BY <1>4, PoolsAre
        <5>2. /\ v \in Nat /\ (ask.type = "out" => ask.cur < pool[{2, 3}].r[3])
              /\ v = IF ask.type = "in"
                     THEN getAmountOut(ask.cur, pool[{2, 3}].r[2], pool[{2, 3}].r[3])
                     ELSE getAmountIn(ask.cur, pool[{2, 3}].r[2], pool[{2, 3}].r[3])
          BY <4>1, <5>1, HopReadsNat
        <5>3. ask.type # "in"
          BY <3>2
        <5> QED
          BY <3>2, <5>2, <5>3
      <4>4. n.left \in Seq(Int \X Int) /\ Len(n.left) = 1 /\ n.left[1] = <<1, 2>>
        BY <2>2, <2>3, <2>4, <3>2
      <4>5. n.path = Around /\ n.type = "out" /\ n.amount = ask.cur /\ n.cur = v
        BY <2>2, <2>4, <3>2
      <4> QED
        BY <4>2, <4>4, <4>5 DEF LeftOK
    <3> QED
      BY <1>4, <3>1, <3>2
  <2>7. HopsOK(n, pool)
    BY <1>4, <2>4, <2>5, <2>6 DEF HopsOK
  <2> QED
    BY <1>8, <2>7 DEF AskOK
<1>9. CASE ~throws /\ ~(Len(ask.left) > 1) /\ ask' = PathDone(<<q>>)
  <2>1. Len(ask.left) = 1
    BY <1>5, <1>9
  <2>2. HopReads(ask, pool, ask.left[1], v)
    BY <1>5, <1>7, <1>9
  <2> HIDE DEF v, throws, h
  <2>3. QuoteHeld(q, ask, pool)
    BY <1>2, <2>1, <2>2, QuoteAtLastHop
  <2> DEFINE best == <<q>>
  <2> HIDE DEF q
  <2>4. best[1] = q
    OBVIOUS
  <2> HIDE DEF best
  <2>5. AskOK(PathDone(best), pool)
    BY <1>2, <2>3, <2>4, PathIsDone
  <2> QED
    BY <1>9, <2>5 DEF best
<1> QED
  BY <1>3, <1>6, <1>8, <1>9

(* Slippage and deviation together bound the price that was paid. *)
LEMMA NearPrice ==
    ASSUME NEW b \in Nat \ {0}, NEW c \in Nat, NEW d \in Int, NEW s \in Nat, d <= s,
           NEW x \in Nat, NEW o \in Nat, s * x <= o * b, NEW m \in Nat, o * c <= m * b,
           NEW g \in Nat, m <= g, NEW p \in Nat, p <= x
    PROVE  g * b * b >= p * d * c
<1>1. g * b * b \in Nat
  <2>1. g * b \in Nat
    OBVIOUS
  <2> QED
    BY <2>1
<1>2. CASE d < 0
  <2> DEFINE e == 0 - d
             f == p * e
  <2>1. e \in Nat
    BY <1>2
  <2>2. f \in Nat /\ p * d = 0 - f
    BY <2>1
  <2> HIDE DEF f
  <2>3. f * c \in Nat /\ p * d * c = 0 - f * c
    BY <2>2
  <2> DEFINE u == f * c
             w == p * d * c
             z == g * b * b
  <2>4. u \in Nat /\ w = 0 - u /\ z \in Nat
    BY <1>1, <2>3
  <2> HIDE DEF u, w, z
  <2>5. z >= w
    BY <2>4
  <2> QED
    BY <2>5 DEF w, z
<1>3. CASE d >= 0
  <2>1. d \in Nat
    BY <1>3
  <2> DEFINE pd == p * d
             xs == s * x
             ob == o * b
             oc == o * c
             mb == m * b
             gb == g * b
  <2>2. pd \in Nat /\ xs \in Nat /\ ob \in Nat /\ oc \in Nat /\ mb \in Nat /\ gb \in Nat
    BY <2>1
  <2>3. pd <= xs
    <3>1. p * d <= x * s
      BY <2>1, TimesGrows
    <3>2. x * s = s * x
      OBVIOUS
    <3> QED
      BY <3>1, <3>2
  <2>4. mb <= gb
    <3>1. b <= b /\ b \in Nat
      OBVIOUS
    <3> QED
      BY <3>1, TimesGrows
  <2>5. xs <= ob /\ oc <= mb
    OBVIOUS
  <2>6. ob * c = oc * b
    OBVIOUS
  <2> HIDE DEF pd, xs, ob, oc, mb, gb
  <2>7. pd <= ob /\ oc <= gb /\ c <= c /\ b <= b /\ b \in Nat
    BY <2>2, <2>3, <2>4, <2>5
  <2>8. pd * c <= ob * c /\ oc * b <= gb * b
    BY <2>2, <2>7, TimesGrows
  <2> DEFINE u == pd * c
             w == ob * c
             z == gb * b
  <2>9. u \in Nat /\ w \in Nat /\ z \in Nat
    BY <2>2
  <2>10. u <= w /\ w <= z
    BY <2>6, <2>8
  <2> HIDE DEF u, w, z
  <2>11. z >= u
    BY <2>9, <2>10
  <2> QED
    BY <2>11 DEF u, z, pd, gb
<1> QED
  BY <1>2, <1>3

LEMMA Standing ==
    ASSUME NEW pl, AllPools(pl) PROVE PoolMoves(pl, pl, {}, {})
<1>1. \A p \in Pools : NotDiluted(p, pl[p], pl[p]) /\ K(p, pl[p]) <= K(p, pl[p])
  BY PoolIs, Unmoved
<1> QED
  BY <1>1 DEF PoolMoves

(* A guarded swap that is paid is near the price of the feed. *)
LEMMA PaidNearFeed ==
    ASSUME NEW q, QuoteOK(q), q.amountIn > 0, Deviation(q) <= MaxDeviation,
           NEW spent \in Nat, spent <= q.amountIn, NEW got \in Nat, q.amountOutMin <= got
    PROVE  got * BPS * BPS >= spent * (BPS - MaxDeviation) * (BPS - Slippage)
<1> DEFINE x == q.amountIn
           o == q.amountOut
           m == q.amountOutMin
           b == BPS
           c == BPS - Slippage
           d == BPS - MaxDeviation
           s == (o * b) \div x
<1>1. /\ x \in Nat \ {0} /\ o \in Nat /\ m \in Nat /\ o * c <= m * b /\ m <= got
      /\ spent <= x
  BY DEF QuoteOK, QuoteRecs
<1>2. b \in Nat \ {0} /\ c \in Nat /\ d \in Int /\ MaxDeviation \in Nat
  BY AfterFeeIs, AmmAssumption
<1>3. Deviation(q) = IF s > b THEN s - b ELSE b - s
  BY DEF Deviation
<1>4. s \in Nat /\ s * x <= o * b
  <2>1. o * b \in Nat
    BY <1>1, <1>2
  <2> HIDE DEF x
  <2> QED
    BY <1>1, <2>1, QuotientIs
<1>5. d <= s
  <2> HIDE DEF s
  <2> QED
    BY <1>2, <1>3, <1>4
<1> HIDE DEF x, o, m, b, c, d, s
<1>6. got * b * b >= spent * d * c
  BY <1>1, <1>2, <1>4, <1>5, NearPrice
<1> QED
  BY <1>6 DEF b, c, d

LEMMA SwapExecuted ==
    ASSUME AmmInv, ExecuteSwap
    PROVE  /\ PoolMoves(pool, pool', Pools, {})
           /\ AskOK(ask', pool') /\ LiqOK(liq', pool') /\ LoanOK(loan', pool') /\ GuardedNearFeed'
<1> DEFINE q == ask.quote
           x == Exchanged(q, pool)
           ok == Buildable(q) /\ x.ok
<1>1. AllPools(pool) /\ AskOK(ask, pool) /\ LiqOK(liq, pool) /\ LoanOK(loan, pool) /\ GuardedNearFeed
  BY DEF AmmInv
<1>2. /\ ask.pc = "ready" /\ GuardPasses(ask)
      /\ pool' = IF ok THEN x.pl ELSE pool
      /\ paid' = IF ok THEN [api |-> ask.api, spent |-> x.spent, got |-> x.got,
                             guarded |-> ask.api = "guarded" /\ GuardRequired(q)]
                 ELSE paid
      /\ liq' = IF ok THEN Touched(PoolsOf(q.path), liq) ELSE liq
      /\ ask' = CallOver /\ loan' = loan
  BY DEF ExecuteSwap
<1>3. QuoteOK(q)
  <2>1. ReadyOK(ask, pool)
    BY <1>1, <1>2 DEF AskOK, NoCall, CallOver, HopsOK
  <2> QED
    BY <2>1 DEF ReadyOK, QuoteHeld
<1>4. AskOK(ask', pool')
  BY <1>2 DEF AskOK
<1>5. CASE ~ok
  <2>1. pool' = pool /\ paid' = paid /\ liq' = liq
    BY <1>2, <1>5
  <2>2. PoolMoves(pool, pool, {}, {})
    BY <1>1, Standing
  <2>3. PoolMoves(pool, pool, Pools, {})
    BY <2>2 DEF PoolMoves
  <2>4. GuardedNearFeed'
    BY <1>1, <2>1 DEF GuardedNearFeed
  <2> QED
    BY <1>1, <1>2, <1>4, <2>1, <2>3, <2>4
<1>6. CASE ok
  <2>1. /\ PoolMoves(pool, x.pl, PoolsOf(q.path), {})
        /\ x.spent \in Nat /\ x.got \in Nat /\ x.spent <= q.amountIn /\ x.got >= q.amountOutMin
    BY <1>1, <1>3, <1>6, ExchangedIs
  <2>2. /\ pool' = x.pl /\ liq' = Touched(PoolsOf(q.path), liq)
        /\ paid' = [api |-> ask.api, spent |-> x.spent, got |-> x.got,
                    guarded |-> ask.api = "guarded" /\ GuardRequired(q)]
    BY <1>2, <1>6
  <2>3. q.amountIn > 0 /\ q.amountOutMin > 0
    BY <1>6 DEF Buildable
  <2> HIDE DEF ok, x
  <2>4. PoolMoves(pool, pool', PoolsOf(q.path), {})
    BY <2>1, <2>2
  <2>5. LiqOK(liq', pool') /\ LoanOK(loan', pool')
    BY <1>1, <1>2, <2>2, <2>4, LiqTouched, LoanKept
  <2>6. PoolMoves(pool, pool', Pools, {})
    <3>1. PoolsOf(q.path) \subseteq Pools
      BY <1>3, PoolsOfIn DEF QuoteOK, QuoteRecs
    <3> QED
      BY <2>4, <3>1 DEF PoolMoves
  <2>7. GuardedNearFeed'
    <3>1. paid'.spent = x.spent /\ paid'.got = x.got
          /\ (paid'.guarded => ask.api = "guarded" /\ GuardRequired(q))
      <4> DEFINE g == ask.api = "guarded" /\ GuardRequired(q)
      <4>1. paid' = [api |-> ask.api, spent |-> x.spent, got |-> x.got, guarded |-> g]
        BY <2>2
      <4> HIDE DEF g
      <4>2. paid'.spent = x.spent /\ paid'.got = x.got /\ paid'.guarded = g
        BY <4>1
      <4> QED
        BY <4>2, Zenon DEF g
    <3> SUFFICES ASSUME paid'.guarded
                 PROVE  x.got * BPS * BPS >= x.spent * (BPS - MaxDeviation) * (BPS - Slippage)
      BY <3>1 DEF GuardedNearFeed
    <3>2. ask.api = "guarded" /\ GuardRequired(q)
      BY <3>1
    <3>3. q.amountOut # 0 /\ q.amountIn # 0
      BY <1>3, <2>3 DEF QuoteOK, QuoteRecs
    <3>4. Deviation(q) <= MaxDeviation
      BY <1>2, <3>2, <3>3 DEF GuardPasses
    <3>5. q.amountOutMin <= x.got
      BY <1>3, <2>1 DEF QuoteOK, QuoteRecs
    <3> QED
      BY <1>3, <2>1, <2>3, <3>4, <3>5, PaidNearFeed
  <2> QED
    BY <1>4, <2>5, <2>6, <2>7
<1> QED
  BY <1>5, <1>6

(* What a step leaves: sound calls, and no share worth less. *)
Kept == /\ AllPools(pool') /\ AskOK(ask', pool') /\ LiqOK(liq', pool') /\ LoanOK(loan', pool')
        /\ \A p \in Pools : NotDiluted(p, pool[p], pool'[p])

LEMMA PoolStands ==
    ASSUME AmmInv, pool' = pool, AskOK(ask', pool), LiqOK(liq', pool), LoanOK(loan', pool)
    PROVE  Kept
<1>1. AllPools(pool)
  BY DEF AmmInv
<1>2. \A p \in Pools : NotDiluted(p, pool[p], pool[p])
  BY <1>1, Standing DEF PoolMoves
<1> QED
  BY <1>1, <1>2 DEF Kept

(* Another account's move. *)
LEMMA OthersMoved ==
    ASSUME AmmInv, NEW p \in Pools, NEW seen, OthersMove(p, seen),
           \/ PoolMoves(pool, pool', {p}, {}) /\ seen = loan
           \/ PoolMoves(pool, pool', {p}, {p}) /\ seen = Drained(p)
    PROVE  Kept
<1>1. /\ AllPools(pool) /\ AskOK(ask, pool) /\ LiqOK(liq, pool) /\ LoanOK(loan, pool)
      /\ ask' = Touched({p}, ask) /\ liq' = Touched({p}, liq) /\ loan' = seen
  BY DEF AmmInv, OthersMove
<1>2. CASE PoolMoves(pool, pool', {p}, {}) /\ seen = loan
  <2>1. AskOK(ask', pool') /\ LiqOK(liq', pool') /\ LoanOK(loan', pool')
    BY <1>1, <1>2, AskTouched, LiqTouched, LoanKept
  <2> QED
    BY <1>2, <2>1 DEF Kept, PoolMoves
<1>3. CASE PoolMoves(pool, pool', {p}, {p}) /\ seen = Drained(p)
  <2>1. AskOK(ask', pool') /\ LiqOK(liq', pool') /\ LoanOK(loan', pool')
    BY <1>1, <1>3, AskTouched, LiqTouched, LoanDrained
  <2> QED
    BY <1>3, <2>1 DEF Kept, PoolMoves
<1> QED
  BY <1>2, <1>3

LEMMA OthersKeep ==
    ASSUME AmmInv, PoolNext PROVE Kept
<1>1. AllPools(pool)
  BY DEF AmmInv
<1>2. ASSUME NEW p \in Pools, NEW t \in p, NEW x \in Amounts, OtherSwap(p, t, x) PROVE Kept
  <2>1. PoolMoves(pool, pool', {p}, {})
    BY <1>1, <1>2, OtherSwapMoves
  <2>2. OthersMove(p, loan)
    BY <1>2 DEF OtherSwap
  <2> QED
    BY <2>1, <2>2, OthersMoved
<1>3. ASSUME NEW p \in Pools, NEW t \in p, NEW x \in Amounts, mint_with_one_token(p, t, x) PROVE Kept
  <2>1. PoolMoves(pool, pool', {p}, {})
    BY <1>1, <1>3, OneTokenMoves
  <2>2. OthersMove(p, loan)
    BY <1>3 DEF mint_with_one_token
  <2> QED
    BY <2>1, <2>2, OthersMoved
<1>4. ASSUME NEW p \in Pools, NEW a \in [p -> Amounts], OtherDeposit(p, a) PROVE Kept
  <2>1. PoolMoves(pool, Minted(p, a, MintFor(p, a)), {p}, {})
    BY <1>1, DepositMoves
  <2>2. pool' = Minted(p, a, MintFor(p, a)) /\ OthersMove(p, loan)
    BY <1>4 DEF OtherDeposit
  <2>3. PoolMoves(pool, pool', {p}, {})
    BY <2>1, <2>2
  <2> QED
    BY <2>2, <2>3, OthersMoved
<1>5. ASSUME NEW p \in Pools, NEW l \in Amounts, OtherWithdraw(p, l) PROVE Kept
  <2>1. pool[p].lp >= l + MinLiquidity /\ pool' = Burnt(p, l) /\ OthersMove(p, Drained(p))
    BY <1>5 DEF OtherWithdraw
  <2>2. l \in Nat \ {0} /\ l <= pool[p].lp
    <3>1. l \in Nat \ {0} /\ pool[p].lp \in Nat /\ MinLiquidity \in Nat
      BY <1>1, AmountsAre, PoolIs, AmmAssumption
    <3> DEFINE lp == pool[p].lp
    <3>2. lp >= l + MinLiquidity /\ lp \in Nat
      BY <2>1, <3>1
    <3> HIDE DEF lp
    <3>3. l <= lp
      BY <3>1, <3>2
    <3> QED
      BY <3>1, <3>3 DEF lp
  <2>3. PoolMoves(pool, Burnt(p, l), {p}, {p})
    BY <1>1, <2>2, BurntMoves
  <2>4. PoolMoves(pool, pool', {p}, {p})
    BY <2>1, <2>3
  <2> QED
    BY <2>1, <2>4, OthersMoved
<1> QED
  BY <1>2, <1>3, <1>4, <1>5 DEF PoolNext

LEMMA SwapsKeep ==
    ASSUME AmmInv, SwapNext PROVE Kept /\ (GuardedNearFeed' \/ paid' = paid)
<1>1. AllPools(pool) /\ AskOK(ask, pool) /\ LiqOK(liq, pool) /\ LoanOK(loan, pool)
  BY DEF AmmInv
<1>2. ASSUME NEW api, NEW type \in {"in", "out"}, NEW path \in ToSet(Routes), NEW x \in Amounts,
             RequestQuote(api, type, path, x)
      PROVE  Kept /\ paid' = paid
  <2>1. path \in Paths
    BY RoutesAre DEF ToSet, Paths
  <2>2. AskOK(ask', pool)
    BY <1>2, <2>1, Requested
  <2>3. pool' = pool /\ liq' = liq /\ loan' = loan /\ paid' = paid
    BY <1>2 DEF RequestQuote
  <2> QED
    BY <1>1, <2>2, <2>3, PoolStands
<1>3. ASSUME NEW type \in {"in", "out"}, NEW x \in Amounts, FindOptimalPath(type, x)
      PROVE  Kept /\ paid' = paid
  <2>1. AskOK(ask', pool)
    BY <1>3, RouteStarts
  <2>2. pool' = pool /\ liq' = liq /\ loan' = loan /\ paid' = paid
    BY <1>3 DEF FindOptimalPath
  <2> QED
    BY <1>1, <2>1, <2>2, PoolStands
<1>4. ASSUME ReadHop PROVE Kept /\ paid' = paid
  <2>1. AskOK(ask', pool)
    BY <1>1, <1>4, HopRead
  <2>2. pool' = pool /\ liq' = liq /\ loan' = loan /\ paid' = paid
    BY <1>4 DEF ReadHop
  <2> QED
    BY <1>1, <2>1, <2>2, PoolStands
<1>5. ASSUME GuardRefuses PROVE Kept /\ paid' = paid
  <2>1. ask' = CallOver /\ pool' = pool /\ liq' = liq /\ loan' = loan /\ paid' = paid
    BY <1>5 DEF GuardRefuses
  <2>2. AskOK(ask', pool)
    BY <2>1 DEF AskOK
  <2> QED
    BY <1>1, <2>1, <2>2, PoolStands
<1>6. ASSUME ExecuteSwap PROVE Kept /\ GuardedNearFeed'
  BY <1>6, SwapExecuted DEF Kept, PoolMoves
<1> QED
  BY <1>2, <1>3, <1>4, <1>5, <1>6 DEF SwapNext

LEMMA ToldIs ==
    ASSUME NEW l, NEW pl, NEW pc \in {"position", "add", "remove"}, NEW p \in Pools, NEW b \in Int,
           NEW still \in BOOLEAN, NEW amounts,
           l.pc = pc, l.p = p, l.over = {p}, l.balance = b, l.still = still, l.amounts = amounts,
           DOMAIN l = LiqFields,
           pc = "add" => amounts \in [p -> Amounts],
           pc # "add" /\ still => \A t \in p : amounts[t] = computeBurn(b, pl[p].r[t], pl[p].lp)
    PROVE  LiqOK(l, pl)
  BY DEF LiqOK, ToldOK

LEMMA LiquidityKeeps ==
    ASSUME AmmInv, LiquidityNext PROVE Kept
<1>1. AllPools(pool) /\ AskOK(ask, pool) /\ LiqOK(liq, pool) /\ LoanOK(loan, pool)
  BY DEF AmmInv
<1>2. ASSUME NEW p \in Pools, ReadReserves(p) PROVE Kept
  <2> DEFINE n == [pc |-> "balance", p |-> p, r |-> pool[p].r, over |-> {p}, still |-> TRUE]
  <2>1. liq' = n /\ pool' = pool /\ ask' = ask /\ loan' = loan /\ pool[p].lp > MinLiquidity
    BY <1>2 DEF ReadReserves
  <2>2. pool[p].lp > 0
    <3>1. pool[p].lp \in Nat /\ MinLiquidity \in Nat
      BY <1>1, PoolIs, AmmAssumption
    <3> QED
      BY <2>1, <3>1
  <2>3. DOMAIN n = BalanceFields /\ n.pc = "balance" /\ n.p = p /\ n.r = pool[p].r /\ n.over = {p}
        /\ n.still = TRUE
    BY DEF BalanceFields
  <2> HIDE DEF n
  <2>4. LiqOK(n, pool)
    BY <2>2, <2>3 DEF LiqOK, BalanceOK
  <2> QED
    BY <1>1, <2>1, <2>4, PoolStands
<1>3. ASSUME ReadBalance PROVE Kept
  <2> DEFINE p == liq.p
             s == pool[p].lp
             b == s - MinLiquidity
             told == [t \in p |-> IF s > 0 THEN (liq.r[t] * b) \div s ELSE 0]
             n == [pc |-> "position", p |-> p, balance |-> b, over |-> liq.over,
                   still |-> liq.still, amounts |-> told]
  <2>1. liq.pc = "balance" /\ liq' = n /\ pool' = pool /\ ask' = ask /\ loan' = loan
    BY <1>3 DEF ReadBalance
  <2>2. /\ p \in Pools /\ liq.over = {p} /\ liq.still \in BOOLEAN
        /\ liq.still => liq.r = pool[p].r /\ s > 0
    BY <1>1, <2>1 DEF LiqOK, BalanceOK, ToldOK, NoCall, CallOver
  <2>3. b \in Int /\ s \in Nat
    BY <1>1, <2>2, PoolIs, AmmAssumption
  <2>4. ASSUME liq.still, NEW t \in p PROVE told[t] = computeBurn(b, pool[p].r[t], s)
    <3> DEFINE r == pool[p].r[t]
    <3>1. r \in Nat
      BY <1>1, <2>2, PoolIs
    <3>2. told[t] = (r * b) \div s
      BY <2>2, <2>4
    <3>3. r * b = b * r
      <4> HIDE DEF r, b
      <4> QED
        BY <2>3, <3>1
    <3> QED
      BY <3>2, <3>3 DEF computeBurn
  <2>5. /\ n.pc = "position" /\ n.p = p /\ n.balance = b /\ n.over = {p} /\ n.still = liq.still
        /\ n.amounts = told /\ DOMAIN n = LiqFields
    <3> HIDE DEF told, b, p
    <3> QED
      BY <2>2 DEF LiqFields
  <2> HIDE DEF n, told, b
  <2>6. LiqOK(n, pool)
    BY <2>2, <2>3, <2>4, <2>5, ToldIs
  <2> QED
    BY <1>1, <2>1, <2>6, PoolStands
<1>4. ASSUME NEW p \in Pools, NEW a \in [p -> Amounts], NEW l \in Amounts \cup {0},
             SimulateLiquidity(p, a, l)
      PROVE  Kept
  <2> DEFINE m == MintFor(p, a)
             told == [t \in p |-> computeBurn(l, pool[p].r[t], pool[p].lp)]
             add == [pc |-> "add", p |-> p, amounts |-> a, balance |-> m,
                     over |-> {p}, still |-> TRUE]
             remove == [pc |-> "remove", p |-> p, balance |-> l, over |-> {p}, still |-> TRUE,
                        amounts |-> told]
  <2>1. (liq' = add \/ liq' = remove) /\ pool' = pool /\ ask' = ask /\ loan' = loan
    <3>1. SimulateLiquidity(p, a, l)
      BY <1>4
    <3> QED
      BY <3>1 DEF SimulateLiquidity
  <2>2. m \in Int
    <3>1. m \in Nat
      BY <1>1, DepositMoves, Zenon
    <3> HIDE DEF m
    <3> QED
      BY <3>1
  <2>3. l \in Int
    BY AmountsAre
  <2>4. \A t \in p : told[t] = computeBurn(l, pool[p].r[t], pool[p].lp)
    OBVIOUS
  <2> HIDE DEF m, told
  <2>5. /\ add.pc = "add" /\ add.p = p /\ add.amounts = a /\ add.balance = m
        /\ add.over = {p} /\ add.still = TRUE /\ DOMAIN add = LiqFields
    BY DEF LiqFields
  <2>6. /\ remove.pc = "remove" /\ remove.p = p /\ remove.amounts = told /\ remove.balance = l
        /\ remove.over = {p} /\ remove.still = TRUE /\ DOMAIN remove = LiqFields
    BY DEF LiqFields
  <2> HIDE DEF add, remove
  <2>7. LiqOK(add, pool)
    <3>1. ToldOK(add, pool)
      BY <2>2, <2>5 DEF ToldOK
    <3> QED
      BY <3>1 DEF LiqOK
  <2>8. LiqOK(remove, pool)
    <3>1. ToldOK(remove, pool)
      BY <2>3, <2>4, <2>6 DEF ToldOK
    <3> QED
      BY <3>1 DEF LiqOK
  <2> QED
    BY <1>1, <2>1, <2>7, <2>8, PoolStands
<1>5. ASSUME SubmitLiquidity PROVE Kept
  <2> DEFINE p == liq.p
             b == liq.balance
             a == liq.amounts
  <2>1. liq' = CallOver /\ ask' = Touched({p}, ask)
        /\ \/ /\ liq.pc = "add" /\ pool' = Minted(p, a, MintFor(p, a)) /\ loan' = loan
           \/ /\ liq.pc \in {"remove", "position"} /\ pool[p].lp >= b + MinLiquidity /\ b > 0
              /\ pool' = Burnt(p, b) /\ loan' = Drained(p)
    BY <1>5 DEF SubmitLiquidity
  <2>2. ToldOK(liq, pool)
    BY <1>1, <2>1 DEF LiqOK, BalanceOK, NoCall, CallOver
  <2>3. p \in Pools /\ b \in Int /\ (liq.pc = "add" => a \in [p -> Amounts])
    BY <2>2 DEF ToldOK
  <2>4. LiqOK(liq', pool')
    BY <2>1 DEF LiqOK
  <2> HIDE DEF p, b, a
  <2>5. CASE liq.pc = "add" /\ pool' = Minted(p, a, MintFor(p, a)) /\ loan' = loan
    <3>1. PoolMoves(pool, Minted(p, a, MintFor(p, a)), {p}, {})
      BY <1>1, <2>3, <2>5, DepositMoves
    <3>2. PoolMoves(pool, pool', {p}, {})
      BY <2>5, <3>1
    <3>3. AskOK(ask', pool') /\ LoanOK(loan', pool')
      BY <1>1, <2>1, <2>5, <3>2, AskTouched, LoanKept
    <3> QED
      BY <2>4, <3>2, <3>3 DEF Kept, PoolMoves
  <2>6. CASE /\ pool[p].lp >= b + MinLiquidity /\ b > 0
             /\ pool' = Burnt(p, b) /\ loan' = Drained(p)
    <3>1. b \in Nat \ {0} /\ b <= pool[p].lp
      <4> DEFINE lp == pool[p].lp
      <4>1. lp \in Nat /\ MinLiquidity \in Nat /\ lp >= b + MinLiquidity /\ b > 0
        BY <1>1, <2>3, <2>6, PoolIs, AmmAssumption
      <4> HIDE DEF lp
      <4>2. b \in Nat \ {0} /\ b <= lp
        BY <2>3, <4>1
      <4> QED
        BY <4>2 DEF lp
    <3>2. PoolMoves(pool, Burnt(p, b), {p}, {p})
      BY <1>1, <2>3, <3>1, BurntMoves
    <3>3. PoolMoves(pool, pool', {p}, {p})
      BY <2>6, <3>2
    <3>4. AskOK(ask', pool') /\ LoanOK(loan', pool')
      BY <1>1, <2>1, <2>3, <2>6, <3>3, AskTouched, LoanDrained
    <3> QED
      BY <2>4, <3>3, <3>4 DEF Kept, PoolMoves
  <2> QED
    BY <2>1, <2>5, <2>6
<1>6. ASSUME LiquidityFails PROVE Kept
  <2>1. liq' = CallOver /\ pool' = pool /\ ask' = ask /\ loan' = loan
    BY <1>6 DEF LiquidityFails
  <2>2. LiqOK(liq', pool)
    BY <2>1 DEF LiqOK
  <2> QED
    BY <1>1, <2>1, <2>2, PoolStands
<1> QED
  BY <1>2, <1>3, <1>4, <1>5, <1>6 DEF LiquidityNext

LEMMA FeeIs ==
    ASSUME NEW amount \in Nat, NEW bps \in Nat
    PROVE  (amount * bps) \div BPS \in Nat /\ estimateFee(amount, bps) \in Nat
<1> DEFINE d == BPS
           n == amount * bps
<1>1. d \in Nat \ {0} /\ n \in Nat /\ FlashFloor \in Nat
  BY AfterFeeIs, AmmAssumption
<1> HIDE DEF n, d
<1>2. n \div d \in Nat
  BY <1>1, QuotientIs
<1>3. estimateFee(amount, bps) = n \div d \/ estimateFee(amount, bps) = FlashFloor
  BY DEF estimateFee, LargerOf, n, d
<1> QED
  BY <1>1, <1>2, <1>3 DEF n, d

LEMMA FlashKeeps ==
    ASSUME AmmInv, FlashNext PROVE Kept /\ flashBps' \in Nat
<1>1. /\ AllPools(pool) /\ AskOK(ask, pool) /\ LiqOK(liq, pool) /\ LoanOK(loan, pool)
      /\ flashBps \in Nat
  BY DEF AmmInv
<1>2. ASSUME NEW b \in FlashFees, SetFlashFee(b) PROVE Kept /\ flashBps' \in Nat
  <2>1. pool' = pool /\ ask' = ask /\ liq' = liq /\ loan' = loan /\ flashBps' = b
    BY <1>2 DEF SetFlashFee
  <2>2. b \in Nat
    BY AmmAssumption
  <2> QED
    BY <1>1, <2>1, <2>2, PoolStands
<1>3. ASSUME NEW p \in Pools, SnapshotReserves(p) PROVE Kept /\ flashBps' \in Nat
  <2> DEFINE k == Product(pool, p)
             n == [pc |-> "callback", p |-> p, guard |-> <<k>>, drained |-> FALSE]
  <2>1. pool' = pool /\ ask' = ask /\ liq' = liq /\ flashBps' = flashBps /\ loan' = n
    BY <1>3 DEF SnapshotReserves
  <2>2. k = K(p, pool[p]) /\ k \in Nat
    BY <1>1, ProductIs, PoolIs, Unmoved
  <2> HIDE DEF k
  <2>3. DOMAIN n = CallbackFields /\ n.pc = "callback" /\ n.p = p /\ n.guard = <<k>>
        /\ n.drained = FALSE
    BY DEF CallbackFields
  <2> HIDE DEF n
  <2>4. n.guard[1] = k /\ k <= k
    BY <2>2, <2>3
  <2>5. GuardOK(n, pool)
    BY <2>2, <2>3, <2>4 DEF GuardOK
  <2>6. LoanOK(n, pool)
    BY <2>3, <2>5 DEF LoanOK, CallbackOK
  <2> QED
    BY <1>1, <2>1, <2>6, PoolStands
<1>4. ASSUME NEW p \in Pools, NEW t \in p, NEW amount \in Amounts, CheckFlashConfig(p, t, amount)
      PROVE  Kept /\ flashBps' \in Nat
  <2> DEFINE guarded == loan.pc = "callback"
             guard == IF guarded THEN loan.guard ELSE <<>>
             drained == guarded /\ loan.drained
             n == [pc |-> "estimate", p |-> p, t |-> t, amount |-> amount, bps |-> flashBps,
                   guard |-> guard, drained |-> drained]
  <2>1. /\ pool' = pool /\ ask' = ask /\ liq' = liq /\ flashBps' = flashBps
        /\ loan.pc = "idle" \/ (guarded /\ loan.p = p)
        /\ loan' = CallOver \/ loan' = n
    <3>1. CheckFlashConfig(p, t, amount)
      BY <1>4
    <3> QED
      BY <3>1 DEF CheckFlashConfig
  <2>2. guarded => loan.p = p /\ loan.drained \in BOOLEAN /\ GuardOK(loan, pool)
    BY <1>1, <2>1 DEF LoanOK, CallbackOK, LentOK, NoCall, CallOver
  <2>3. drained \in BOOLEAN /\ amount \in Nat
    BY AmountsAre
  <2>4. guard # <<>> => guarded /\ guard = loan.guard
    OBVIOUS
  <2>5. drained <=> guarded /\ loan.drained
    OBVIOUS
  <2> HIDE DEF guarded, guard, drained
  <2>6. /\ DOMAIN n = LoanFields /\ n.pc = "estimate" /\ n.p = p /\ n.t = t /\ n.amount = amount
        /\ n.guard = guard /\ n.drained = drained
    BY DEF LoanFields
  <2> HIDE DEF n
  <2>7. n.drained <=> drained
    BY <2>6
  <2>8. GuardOK(n, pool)
    <3> SUFFICES ASSUME n.guard # <<>>
                 PROVE  n.guard[1] \in Nat /\ (n.drained \/ n.guard[1] <= K(p, pool[p]))
      BY <2>6 DEF GuardOK
    <3>1. guarded /\ n.guard = loan.guard
      BY <2>4, <2>6
    <3> QED
      BY <2>2, <2>5, <2>7, <3>1 DEF GuardOK
  <2>9. LoanOK(n, pool)
    BY <2>3, <2>6, <2>8 DEF LoanOK, LentOK
  <2>10. LoanOK(loan', pool)
    BY <2>1, <2>9 DEF LoanOK
  <2> QED
    BY <1>1, <2>1, <2>10, PoolStands
<1>5. ASSUME loan.pc \in {"submit", "estimate", "after"}
      PROVE  /\ DOMAIN loan = LoanFields
             /\ loan.p \in Pools /\ loan.t \in loan.p /\ loan.amount \in Nat
             /\ loan.drained \in BOOLEAN /\ GuardOK(loan, pool)
             /\ loan.pc = "after" => loan.guard # <<>>
  BY <1>1, <1>5 DEF LoanOK, CallbackOK, LentOK, NoCall, CallOver
<1>6. ASSUME EstimateRepayment PROVE Kept /\ flashBps' \in Nat
  <2> DEFINE n == [loan EXCEPT !.pc = "submit"]
  <2>1. /\ pool' = pool /\ ask' = ask /\ liq' = liq /\ flashBps' = flashBps
        /\ loan.pc = "estimate" /\ (loan' = CallOver \/ loan' = n)
    BY <1>6 DEF EstimateRepayment
  <2>2. /\ DOMAIN n = LoanFields /\ n.pc = "submit" /\ n.p = loan.p /\ n.t = loan.t
        /\ n.amount = loan.amount /\ n.guard = loan.guard /\ n.drained = loan.drained
    BY <1>5, <2>1 DEF LoanFields
  <2> HIDE DEF n
  <2>3. GuardOK(n, pool)
    BY <1>5, <2>1, <2>2 DEF GuardOK
  <2>4. LoanOK(n, pool)
    BY <1>5, <2>1, <2>2, <2>3 DEF LoanOK, LentOK
  <2>5. LoanOK(loan', pool)
    BY <2>1, <2>4 DEF LoanOK
  <2> QED
    BY <1>1, <2>1, <2>5, PoolStands
<1>7. ASSUME NEW skim \in BOOLEAN, RunFlashLoan(skim) PROVE Kept /\ flashBps' \in Nat
  <2> DEFINE due == IF skim THEN 0 ELSE estimateFee(loan.amount, flashBps)
             lent == loan.amount < pool[loan.p].r[loan.t]
             paidBack == [pool EXCEPT ![loan.p].r[loan.t] = @ + due]
             n == [loan EXCEPT !.pc = "after"]
  <2>1. /\ loan.pc = "submit" /\ (pool' = paidBack \/ pool' = pool)
        /\ (loan' = CallOver \/ (loan.guard # <<>> /\ loan' = n))
        /\ ask' = Touched({loan.p}, ask) /\ liq' = Touched({loan.p}, liq) /\ flashBps' = flashBps
    BY <1>7 DEF RunFlashLoan
  <2>2. loan.p \in Pools /\ loan.t \in loan.p /\ loan.amount \in Nat
    BY <1>5, <2>1
  <2>3. due \in Nat
    BY <1>1, <2>2, FeeIs
  <2> HIDE DEF due
  <2>4. PoolMoves(pool, paidBack, {loan.p}, {})
    BY <1>1, <2>2, <2>3, RaisedMoves
  <2>5. PoolMoves(pool, pool, {loan.p}, {})
    BY <1>1, Standing DEF PoolMoves
  <2> HIDE DEF paidBack, n
  <2>6. PoolMoves(pool, pool', {loan.p}, {})
    BY <2>1, <2>4, <2>5
  <2>7. AskOK(ask', pool') /\ LiqOK(liq', pool') /\ LoanOK(loan, pool')
    BY <1>1, <2>1, <2>6, AskTouched, LiqTouched, LoanKept
  <2>8. loan.guard # <<>> => LoanOK(n, pool')
    <3> SUFFICES ASSUME loan.guard # <<>> PROVE LoanOK(n, pool')
      OBVIOUS
    <3>1. LentOK(loan, pool')
      BY <2>1, <2>7 DEF LoanOK, NoCall, CallOver, CallbackOK
    <3>2. /\ DOMAIN loan = LoanFields /\ loan.p \in Pools /\ loan.t \in loan.p /\ loan.amount \in Nat
          /\ loan.drained \in BOOLEAN /\ GuardOK(loan, pool')
      BY <3>1 DEF LentOK
    <3>3. /\ DOMAIN n = LoanFields /\ n.pc = "after" /\ n.p = loan.p /\ n.t = loan.t
          /\ n.amount = loan.amount /\ n.guard = loan.guard /\ n.drained = loan.drained
      BY <3>2 DEF LoanFields, n
    <3>4. GuardOK(n, pool')
      BY <3>2, <3>3 DEF GuardOK
    <3> QED
      BY <3>2, <3>3, <3>4 DEF LoanOK, LentOK
  <2>9. LoanOK(loan', pool')
    BY <2>1, <2>8 DEF LoanOK
  <2> QED
    BY <1>1, <2>1, <2>6, <2>7, <2>9 DEF Kept, PoolMoves
<1>8. ASSUME ReservesVerified PROVE Kept /\ flashBps' \in Nat
  <2> DEFINE k == loan.guard[1]
             fee == (k * flashBps) \div BPS
             m == Product(pool, loan.p)
             fine == m >= k - fee
             n == [pc |-> "verified", drained |-> loan.drained, ok |-> fine]
  <2>1. /\ pool' = pool /\ ask' = ask /\ liq' = liq /\ flashBps' = flashBps
        /\ loan.pc = "after" /\ loan' = n
    BY <1>8 DEF ReservesVerified
  <2>2. k \in Nat /\ (loan.drained \/ k <= m) /\ m \in Nat
    <3>1. loan.guard # <<>> /\ GuardOK(loan, pool) /\ loan.p \in Pools
      BY <1>5, <2>1
    <3>2. m = K(loan.p, pool[loan.p]) /\ m \in Nat
      BY <1>1, <3>1, ProductIs, PoolIs, Unmoved
    <3> HIDE DEF m
    <3> QED
      BY <3>1, <3>2 DEF GuardOK
  <2>3. fee \in Nat
    <3> HIDE DEF k
    <3> QED
      BY <1>1, <2>2, FeeIs
  <2> HIDE DEF k, m, fee
  <2>4. loan.drained \/ fine
    BY <2>2, <2>3
  <2> HIDE DEF fine
  <2>5. n.pc = "verified" /\ n.drained = loan.drained /\ n.ok = fine
    OBVIOUS
  <2>6. n.ok \/ n.drained
    <3> HIDE DEF n
    <3> QED
      BY <2>4, <2>5, Zenon
  <2>7. LoanOK(n, pool)
    <3> HIDE DEF n
    <3> QED
      BY <2>5, <2>6 DEF LoanOK
  <2> QED
    BY <1>1, <2>1, <2>7, PoolStands
<1> QED
  BY <1>2, <1>3, <1>4, <1>6, <1>7, <1>8 DEF FlashNext

-----------------------------------------------------------------------------
(* The pools and the calls under way, from step to step. *)

LEMMA AmmInitInv == ASSUME AmmAssumption, AmmInit PROVE AmmInv
<1>1. PICK direct \in {0, Depth} :
         pool = [p \in Pools |->
                    CASE p = {1, 3} -> PoolOf(p, direct, direct, direct)
                      [] OTHER -> PoolOf(p, Depth, Depth + 1, Depth)]
  BY DEF AmmInit
<1>2. Depth \in Nat /\ direct \in Nat
  BY DEF AmmAssumption
<1>3. ASSUME NEW p \in Pools, NEW x \in Nat, NEW y \in Nat, NEW lp \in Nat,
             lp > 0 => x > 0 /\ y > 0
      PROVE  PoolOK(p, PoolOf(p, x, y, lp))
  <2> DEFINE r == [t \in p |-> IF \A u \in p : t <= u THEN x ELSE y]
             e == [r |-> r, lp |-> lp]
  <2>1. r \in [p -> Nat]
    OBVIOUS
  <2>2. lp > 0 => \A t \in p : r[t] > 0
    BY <1>3
  <2>3. PoolOf(p, x, y, lp) = e
    BY DEF PoolOf
  <2> HIDE DEF r
  <2>4. e.r = r /\ e.lp = lp /\ e \in PoolRecs(p)
    BY <2>1 DEF PoolRecs
  <2> HIDE DEF e
  <2> QED
    BY <2>2, <2>3, <2>4 DEF PoolOK
<1>4. AllPools(pool)
  <2>1. ASSUME NEW p \in Pools PROVE PoolOK(p, pool[p])
    <3>1. CASE p = {1, 3}
      <4>1. pool[p] = PoolOf(p, direct, direct, direct)
        BY <1>1, <3>1
      <4>2. PoolOK(p, PoolOf(p, direct, direct, direct))
        BY <1>2, <1>3
      <4> QED
        BY <4>1, <4>2
    <3>2. CASE p # {1, 3}
      <4>1. pool[p] = PoolOf(p, Depth, Depth + 1, Depth)
        BY <1>1, <3>2
      <4>2. PoolOK(p, PoolOf(p, Depth, Depth + 1, Depth))
        BY <1>2, <1>3
      <4> QED
        BY <4>1, <4>2
    <3> QED
      BY <3>1, <3>2
  <2>2. DOMAIN pool = Pools
    BY <1>1
  <2> QED
    BY <2>1, <2>2 DEF AllPools
<1>5. AskOK(ask, pool) /\ LiqOK(liq, pool) /\ LoanOK(loan, pool)
  BY DEF AmmInit, AskOK, LiqOK, LoanOK
<1>6. flashBps \in Nat /\ paid.guarded = FALSE
  BY DEF AmmInit, AmmAssumption
<1> QED
  BY <1>4, <1>5, <1>6 DEF AmmInv, GuardedNearFeed

LEMMA AmmStep == ASSUME AmmInv, AmmNext PROVE Kept /\ AmmInv'
<1>1. GuardedNearFeed /\ flashBps \in Nat
  BY DEF AmmInv
<1>2. paid' = paid => GuardedNearFeed'
  BY <1>1 DEF GuardedNearFeed
<1>3. ASSUME Kept, flashBps' \in Nat, GuardedNearFeed' PROVE Kept /\ AmmInv'
  BY <1>3 DEF Kept, AmmInv
<1>4. CASE PoolNext
  <2>1. paid' = paid /\ flashBps' = flashBps
    <3>1. ASSUME NEW p, NEW t, NEW x, OtherSwap(p, t, x) \/ mint_with_one_token(p, t, x)
          PROVE  paid' = paid /\ flashBps' = flashBps
      BY <3>1 DEF OtherSwap, mint_with_one_token, OthersMove
    <3>2. ASSUME NEW p, NEW a, OtherDeposit(p, a) PROVE paid' = paid /\ flashBps' = flashBps
      BY <3>2 DEF OtherDeposit, OthersMove
    <3>3. ASSUME NEW p, NEW l, OtherWithdraw(p, l) PROVE paid' = paid /\ flashBps' = flashBps
      BY <3>3 DEF OtherWithdraw, OthersMove
    <3> QED
      BY <1>4, <3>1, <3>2, <3>3 DEF PoolNext
  <2> QED
    BY <1>1, <1>2, <1>3, <1>4, <2>1, OthersKeep
<1>5. CASE SwapNext
  <2>1. flashBps' = flashBps
    BY <1>5 DEF SwapNext, RequestQuote, FindOptimalPath, ReadHop, GuardRefuses, ExecuteSwap
  <2> QED
    BY <1>1, <1>2, <1>3, <1>5, <2>1, SwapsKeep
<1>6. CASE LiquidityNext
  <2>1. paid' = paid /\ flashBps' = flashBps
    BY <1>6 DEF LiquidityNext, ReadReserves, ReadBalance, SimulateLiquidity, SubmitLiquidity,
                LiquidityFails
  <2> QED
    BY <1>1, <1>2, <1>3, <1>6, <2>1, LiquidityKeeps
<1>7. CASE FlashNext
  <2>1. paid' = paid
    BY <1>7 DEF FlashNext, SetFlashFee, SnapshotReserves, CheckFlashConfig, EstimateRepayment,
                RunFlashLoan, ReservesVerified
  <2> QED
    BY <1>2, <1>3, <1>7, <2>1, FlashKeeps
<1> QED
  BY <1>4, <1>5, <1>6, <1>7 DEF AmmNext

LEMMA AmmStutter == ASSUME AmmInv, UNCHANGED ammVars PROVE AmmInv'
  BY DEF AmmInv, ammVars, GuardedNearFeed

LEMMA UndilutedIs ==
    ASSUME NEW p \in Pools, NEW e \in PoolRecs(p), NEW f \in PoolRecs(p), NotDiluted(p, e, f), e.lp > 0
    PROVE  K(p, f) * e.lp * e.lp >= K(p, e) * f.lp * f.lp
<1> DEFINE x == K(p, f) * e.lp * e.lp
           y == K(p, e) * f.lp * f.lp
<1>1. y <= x
  BY DEF NotDiluted
<1>2. K(p, e) \in Nat /\ K(p, f) \in Nat /\ e.lp \in Nat /\ f.lp \in Nat
  BY Unmoved DEF PoolRecs
<1> DEFINE k == K(p, e)
           m == K(p, f)
           s == e.lp
           z == f.lp
<1>3. k \in Nat /\ m \in Nat /\ s \in Nat /\ z \in Nat
  BY <1>2
<1>4. x \in Nat /\ y \in Nat
  <2> HIDE DEF k, m, s, z
  <2>1. m * s \in Nat /\ k * z \in Nat
    BY <1>3
  <2>2. m * s * s \in Nat /\ k * z * z \in Nat
    BY <1>3, <2>1
  <2> QED
    BY <2>2 DEF k, m, s, z
<1> HIDE DEF x, y
<1>5. x >= y
  BY <1>1, <1>4
<1> QED
  BY <1>5 DEF x, y

LEMMA NotDilutedStep ==
    ASSUME AmmInv, AmmNext
    PROVE  \A p \in Pools :
              pool[p].lp > 0 =>
                 Product(pool', p) * pool[p].lp * pool[p].lp
                    >= Product(pool, p) * pool'[p].lp * pool'[p].lp
<1>1. AllPools(pool) /\ AllPools(pool') /\ \A p \in Pools : NotDiluted(p, pool[p], pool'[p])
  BY AmmStep DEF Kept, AmmInv
<1>2. SUFFICES ASSUME NEW p \in Pools, pool[p].lp > 0
               PROVE  Product(pool', p) * pool[p].lp * pool[p].lp
                         >= Product(pool, p) * pool'[p].lp * pool'[p].lp
  OBVIOUS
<1> DEFINE e == pool[p]
           f == pool'[p]
<1>3. e \in PoolRecs(p) /\ f \in PoolRecs(p) /\ NotDiluted(p, e, f) /\ e.lp > 0
  BY <1>1, <1>2, PoolIs
<1>4. Product(pool, p) = K(p, e) /\ Product(pool', p) = K(p, f)
  BY ProductIs
<1> HIDE DEF e, f
<1>5. K(p, f) * e.lp * e.lp >= K(p, e) * f.lp * f.lp
  BY <1>3, UndilutedIs
<1> QED
  BY <1>4, <1>5 DEF e, f

LEMMA AmmInvPays == ASSUME AmmInv PROVE UnmovedPoolPays
<1>1. AllPools(pool) /\ AskOK(ask, pool) /\ LiqOK(liq, pool) /\ LoanOK(loan, pool)
  BY DEF AmmInv
<1>2. UnmovedQuoteExecutes
  <2> DEFINE q == ask.quote
             x == Exchanged(q, pool)
  <2> SUFFICES ASSUME ask.pc = "ready", ask.still
               PROVE  /\ x.ok
                      /\ q.type = "in" => x.got = q.amountOut
                      /\ q.type = "out" => x.got >= q.amountOut /\ x.spent <= q.amountIn
    BY DEF UnmovedQuoteExecutes
  <2>1. ReadyOK(ask, pool)
    BY <1>1 DEF AskOK, NoCall, CallOver, HopsOK
  <2>2. QuoteOK(q) /\ Honoured(q, pool)
    BY <2>1 DEF ReadyOK, QuoteHeld
  <2> HIDE DEF q
  <2> QED
    BY <1>1, <2>2, ExchangedIs
<1>3. UnmovedPositionIsPaid
  BY <1>1 DEF UnmovedPositionIsPaid, LiqOK, NoCall, CallOver, BalanceOK, ToldOK
<1>4. AlarmMeansDrained
  BY <1>1 DEF AlarmMeansDrained, LoanOK, NoCall, CallOver, CallbackOK, LentOK
<1> QED
  BY <1>2, <1>3, <1>4 DEF UnmovedPoolPays

LEMMA MarketStepAmm ==
    ASSUME [MarketNext]_marketVars PROVE AmmNext \/ UNCHANGED ammVars
  BY DEF MarketNext, AmmPart, AmmNext, marketVars

LEMMA AmmInvHolds == MarketSpec => []AmmInv
<1>1. MarketInit => AmmInv
  BY AmmInitInv, AmmAssumption DEF MarketInit
<1>2. AmmInv /\ [MarketNext]_marketVars => AmmInv'
  BY MarketStepAmm, AmmStep, AmmStutter
<1> QED
  BY <1>1, <1>2, PTL DEF MarketSpec

(* For any reserves, amounts, fee and slippage, any number of others' moves *)
(* and whatever the calls under way: a share never stands for less than it  *)
(* did, through every swap, deposit, withdrawal, one-token mint and flash   *)
(* loan, each with its roundings (pair-math.ts:25-92, pair/src/lib.rs).     *)
THEOREM SharesAreNeverDiluted == MarketSpec => NoDilution
<1>1. AmmInv /\ [MarketNext]_marketVars =>
         [\A p \in Pools :
             pool[p].lp > 0 =>
                Product(pool', p) * pool[p].lp * pool[p].lp
                   >= Product(pool, p) * pool'[p].lp * pool'[p].lp]_pool
  BY MarketStepAmm, NotDilutedStep DEF ammVars
<1> QED
  BY <1>1, AmmInvHolds, PTL DEF MarketSpec, NoDilution

(* What a guarded swap pays is within the allowed deviation and the slippage *)
(* of the feed's price, for every fee, bound and reserve, and however the    *)
(* pools move between the guard's look at the quote and the transaction      *)
(* (swap.ts:73-110, redstone.ts:54-123).                                     *)
THEOREM GuardedSwapsAreNearFeed == MarketSpec => []GuardedNearFeed
<1>1. AmmInv => GuardedNearFeed
  BY DEF AmmInv
<1> QED
  BY <1>1, AmmInvHolds, PTL

(* What a caller is told of a pool that stands still is what it gets: quotes *)
(* in and out, direct and over two pools, execute as quoted, positions and   *)
(* simulated withdrawals are paid, and the guard around a flash loan blames  *)
(* it only when liquidity has left the pool (swap.ts:471-750,                *)
(* liquidity.ts:288-467, reserve-conservation.ts:103-121).                   *)
THEOREM UnmovedPoolsPay == MarketSpec => []UnmovedPoolPays
  BY AmmInvPays, AmmInvHolds, PTL

-----------------------------------------------------------------------------
(* The prices of the oracle are means of prices the pair had. *)

(* The sums of a sequence of prices. *)
Sums(s) == CHOOSE f : f = [n \in 0..Len(s) |-> IF n = 0 THEN 0 ELSE f[n - 1] + s[n]]
SumsTo(s, m, f) ==
    f \in [0..m -> Nat] /\ f[0] = 0 /\ \A n \in 1..m : f[n] = f[n - 1] + s[n]

LEMMA SumsExist ==
    ASSUME NEW s \in Seq(Nat), NEW m \in 0..Len(s)
    PROVE  \E f : SumsTo(s, m, f)
<1> DEFINE bad == {k \in 0..Len(s) : ~ \E f : SumsTo(s, k, f)}
<1>1. SUFFICES ASSUME bad # {} PROVE FALSE
  OBVIOUS
<1>2. PICK k \in bad : \A j \in bad : k <= j
  <2>1. bad \in SUBSET Nat
    OBVIOUS
  <2> QED
    BY <1>1, <2>1, LeastNat
<1>3. k # 0
  <2> DEFINE f == [n \in 0..0 |-> 0]
  <2>1. f \in [0..0 -> Nat] /\ f[0] = 0
    OBVIOUS
  <2> HIDE DEF f
  <2>2. SumsTo(s, 0, f)
    BY <2>1 DEF SumsTo
  <2> QED
    BY <2>2
<1>4. PICK f : SumsTo(s, k - 1, f)
  <2>1. k - 1 \in 0..Len(s) /\ k - 1 \notin bad
    BY <1>2, <1>3
  <2> QED
    BY <2>1
<1> DEFINE g == [n \in 0..k |-> IF n < k THEN f[n] ELSE f[k - 1] + s[k]]
<1>5. k \in 1..Len(s) /\ s[k] \in Nat
  BY <1>2, <1>3
<1> HIDE DEF bad
<1>6. f \in [0..(k - 1) -> Nat] /\ f[0] = 0 /\ \A n \in 1..(k - 1) : f[n] = f[n - 1] + s[n]
  BY <1>4 DEF SumsTo
<1>7. g \in [0..k -> Nat] /\ g[0] = 0
  BY <1>5, <1>6
<1>8. \A n \in 1..k : g[n] = g[n - 1] + s[n]
  <2> SUFFICES ASSUME NEW n \in 1..k PROVE g[n] = g[n - 1] + s[n]
    OBVIOUS
  <2>1. CASE n < k
    BY <1>5, <1>6, <2>1
  <2>2. CASE n = k
    BY <1>5, <1>6, <2>2
  <2> QED
    BY <1>5, <2>1, <2>2
<1>9. SumsTo(s, k, g)
  BY <1>7, <1>8 DEF SumsTo
<1> QED
  BY <1>2, <1>9 DEF bad

LEMMA SumsAre ==
    ASSUME NEW s \in Seq(Nat) PROVE SumsTo(s, Len(s), Sums(s))
<1> DEFINE F(f) == [n \in 0..Len(s) |-> IF n = 0 THEN 0 ELSE f[n - 1] + s[n]]
<1>1. PICK f : SumsTo(s, Len(s), f)
  BY SumsExist
<1>2. f = F(f)
  BY <1>1 DEF SumsTo
<1> DEFINE c == Sums(s)
<1>3. c = F(c)
  <2>1. c = CHOOSE h : h = F(h)
    BY DEF Sums
  <2> HIDE DEF F, c
  <2> QED
    BY <1>2, <2>1
<1> HIDE DEF c
<1>4. c[0] = 0 /\ DOMAIN c = 0..Len(s) /\ \A n \in 1..Len(s) : c[n] = c[n - 1] + s[n]
  BY <1>3, SMTT(60)
<1> HIDE DEF F
<1>5. \A n \in 0..Len(s) : c[n] = f[n]
  <2> DEFINE bad == {n \in 0..Len(s) : c[n] # f[n]}
  <2> SUFFICES ASSUME bad # {} PROVE FALSE
    OBVIOUS
  <2>1. PICK n \in bad : \A j \in bad : n <= j
    <3>1. bad \in SUBSET Nat
      OBVIOUS
    <3> QED
      BY <3>1, LeastNat
  <2>2. n \in 0..Len(s) /\ c[n] # f[n]
    BY <2>1
  <2>3. n # 0
    BY <1>1, <1>4, <2>2 DEF SumsTo
  <2>4. n - 1 \in 0..Len(s) /\ n \in 1..Len(s) /\ c[n - 1] = f[n - 1]
    BY <2>1, <2>2, <2>3
  <2> QED
    BY <1>1, <1>4, <2>2, <2>4 DEF SumsTo
<1>6. c = [n \in 0..Len(s) |-> c[n]]
  BY <1>3 DEF F
<1>7. \A n \in 0..Len(s) : c[n] \in Nat
  BY <1>1, <1>5 DEF SumsTo
<1>8. c \in [0..Len(s) -> Nat]
  BY <1>6, <1>7
<1>9. SumsTo(s, Len(s), c)
  BY <1>4, <1>8 DEF SumsTo
<1> QED
  BY <1>9 DEF c

LEMMA CumulativeIs == \A t : Cumulative(t) = Sums(spot)[t]
  BY DEF Cumulative, Sums, time

(* The sums so far stay as they are when a second passes. *)
LEMMA SumsKept ==
    ASSUME NEW s \in Seq(Nat), NEW p \in Nat
    PROVE  \A n \in 0..Len(s) : Sums(Append(s, p))[n] = Sums(s)[n]
<1> DEFINE z == Append(s, p)
           f == Sums(s)
           g == Sums(z)
           bad == {n \in 0..Len(s) : g[n] # f[n]}
<1>1. z \in Seq(Nat) /\ Len(z) = Len(s) + 1 /\ \A n \in 1..Len(s) : z[n] = s[n]
  OBVIOUS
<1> HIDE DEF z
<1>2. SumsTo(s, Len(s), f) /\ SumsTo(z, Len(z), g)
  BY <1>1, SumsAre
<1> HIDE DEF f, g
<1> SUFFICES ASSUME bad # {} PROVE FALSE
  BY DEF f, g, z
<1>3. PICK n \in bad : \A j \in bad : n <= j
  <2>1. bad \in SUBSET Nat
    OBVIOUS
  <2> QED
    BY <2>1, LeastNat
<1>4. n \in 0..Len(s) /\ g[n] # f[n]
  BY <1>3
<1>5. n # 0
  BY <1>2, <1>4 DEF SumsTo
<1>6. n - 1 \in 0..Len(s) /\ n \in 1..Len(s) /\ g[n - 1] = f[n - 1]
  BY <1>3, <1>4, <1>5
<1>7. n \in 1..Len(z)
  BY <1>1, <1>6
<1> QED
  BY <1>1, <1>2, <1>4, <1>6, <1>7 DEF SumsTo

(* The mean of some prices lies between two of them. *)
LEMMA MeanBetween ==
    ASSUME NEW s \in Seq(Nat), NEW f, SumsTo(s, Len(s), f), NEW a \in 0..Len(s)
    PROVE  \A b \in (a + 1)..Len(s) :
              \E t \in (a + 1)..b, u \in (a + 1)..b :
                 s[t] * (b - a) <= f[b] - f[a] /\ f[b] - f[a] <= s[u] * (b - a)
<1> DEFINE Between(b) == \E t \in (a + 1)..b, u \in (a + 1)..b :
                            s[t] * (b - a) <= f[b] - f[a] /\ f[b] - f[a] <= s[u] * (b - a)
           bad == {b \in (a + 1)..Len(s) : ~Between(b)}
<1>1. SUFFICES ASSUME bad # {} PROVE FALSE
  OBVIOUS
<1>2. PICK b \in bad : \A j \in bad : b <= j
  <2>1. bad \in SUBSET Nat
    OBVIOUS
  <2> QED
    BY <1>1, <2>1, LeastNat
<1>3. /\ a \in Nat /\ b \in (a + 1)..Len(s) /\ ~Between(b)
      /\ \A j \in (a + 1)..(b - 1) : Between(j)
  <2> HIDE DEF Between
  <2>1. b \in (a + 1)..Len(s) /\ ~Between(b)
    BY <1>2
  <2>2. \A j \in (a + 1)..(b - 1) : j \in (a + 1)..Len(s) /\ ~(b <= j)
    BY <2>1
  <2> QED
    BY <1>2, <2>1, <2>2
<1> HIDE DEF bad, Between
<1>4. /\ f \in [0..Len(s) -> Nat]
      /\ f[b] = f[b - 1] + s[b] /\ s[b] \in Nat /\ f[b - 1] \in Nat /\ f[a] \in Nat
  <2>1. b \in 1..Len(s) /\ b - 1 \in 0..Len(s) /\ a \in 0..Len(s)
    BY <1>3
  <2>2. f \in [0..Len(s) -> Nat] /\ \A n \in 1..Len(s) : f[n] = f[n - 1] + s[n]
    BY DEF SumsTo
  <2> QED
    BY <2>1, <2>2
<1>5. CASE b = a + 1
  <2>1. b - a = 1 /\ f[b] - f[a] = s[b] /\ b \in (a + 1)..b
    <3>1. b - 1 = a
      BY <1>3, <1>5
    <3> QED
      BY <1>3, <1>4, <1>5, <3>1
  <2> DEFINE z == s[b]
  <2>2. z * (b - a) = z /\ z <= z
    <3>1. z \in Nat
      BY <1>4
    <3> HIDE DEF z
    <3> QED
      BY <2>1, <3>1
  <2>3. Between(b)
    BY <2>1, <2>2 DEF Between
  <2> QED
    BY <1>3, <2>3
<1>6. CASE b # a + 1
  <2>1. b - 1 \in (a + 1)..(b - 1)
    BY <1>3, <1>6
  <2>2. PICK t \in (a + 1)..(b - 1), u \in (a + 1)..(b - 1) :
           /\ s[t] * ((b - 1) - a) <= f[b - 1] - f[a]
           /\ f[b - 1] - f[a] <= s[u] * ((b - 1) - a)
    BY <1>3, <2>1 DEF Between
  <2> DEFINE d == (b - 1) - a
             e == f[b - 1] - f[a]
             x == s[t]
             y == s[u]
             z == s[b]
  <2>3. /\ d \in Nat /\ b - a = d + 1 /\ t \in (a + 1)..b /\ u \in (a + 1)..b /\ b \in (a + 1)..b
        /\ x \in Nat /\ y \in Nat /\ z \in Nat /\ e \in Int
    <3>1. /\ t \in 1..Len(s) /\ u \in 1..Len(s) /\ t \in (a + 1)..b /\ u \in (a + 1)..b
          /\ b \in (a + 1)..b /\ d \in Nat /\ b - a = d + 1
      BY <1>3, <1>6, <2>2
    <3>2. x \in Nat /\ y \in Nat
      BY <3>1, SMTT(60)
    <3>3. z \in Nat /\ e \in Int
      BY <1>4
    <3> QED
      BY <3>1, <3>2, <3>3
  <2>4. x * d <= e /\ e <= y * d /\ f[b] - f[a] = e + z
    BY <1>4, <2>2
  <2> DEFINE lo == IF x <= z THEN t ELSE b
             hi == IF y >= z THEN u ELSE b
  <2>5. lo \in (a + 1)..b /\ hi \in (a + 1)..b
        /\ (x <= z => s[lo] = x) /\ (~(x <= z) => s[lo] = z)
        /\ (y >= z => s[hi] = y) /\ (~(y >= z) => s[hi] = z)
    BY <2>3
  <2> HIDE DEF d, e, x, y, z, lo, hi
  <2>6. s[lo] * (d + 1) <= e + z
    <3>1. CASE x <= z
      <4> DEFINE w == x * d
      <4>1. x * (d + 1) = w + x /\ w \in Nat /\ s[lo] = x
        BY <2>3, <2>5, <3>1
      <4>2. w <= e
        BY <2>4
      <4> HIDE DEF w
      <4> QED
        BY <2>3, <3>1, <4>1, <4>2
    <3>2. CASE ~(x <= z)
      <4>1. z <= x /\ d <= d
        BY <2>3, <3>2
      <4>2. z * d <= x * d
        BY <2>3, <4>1, TimesGrows
      <4> DEFINE w == x * d
                 m == z * d
      <4>3. z * (d + 1) = m + z /\ m \in Nat /\ w \in Nat /\ s[lo] = z
        BY <2>3, <2>5, <3>2
      <4>4. w <= e /\ m <= w
        BY <2>4, <4>2
      <4> HIDE DEF w, m
      <4> QED
        BY <2>3, <4>3, <4>4
    <3> QED
      BY <3>1, <3>2
  <2>7. e + z <= s[hi] * (d + 1)
    <3>1. CASE y >= z
      <4> DEFINE w == y * d
      <4>1. y * (d + 1) = w + y /\ w \in Nat /\ s[hi] = y
        BY <2>3, <2>5, <3>1
      <4>2. e <= w
        BY <2>4
      <4> HIDE DEF w
      <4> QED
        BY <2>3, <3>1, <4>1, <4>2
    <3>2. CASE ~(y >= z)
      <4>1. y <= z /\ d <= d
        BY <2>3, <3>2
      <4>2. y * d <= z * d
        BY <2>3, <4>1, TimesGrows
      <4> DEFINE w == y * d
                 m == z * d
      <4>3. z * (d + 1) = m + z /\ m \in Nat /\ w \in Nat /\ s[hi] = z
        BY <2>3, <2>5, <3>2
      <4>4. e <= w /\ w <= m
        BY <2>4, <4>2
      <4> HIDE DEF w, m
      <4> QED
        BY <2>3, <4>3, <4>4
    <3> QED
      BY <3>1, <3>2
  <2>8. s[lo] * (b - a) <= f[b] - f[a] /\ f[b] - f[a] <= s[hi] * (b - a)
    BY <2>3, <2>4, <2>6, <2>7
  <2>9. Between(b)
    BY <2>5, <2>8 DEF Between
  <2> QED
    BY <1>3, <2>9
<1> QED
  BY <1>5, <1>6

(* ... and so does its quotient, rounded down. *)
LEMMA MeanIsBetween ==
    ASSUME NEW s \in Seq(Nat), NEW a \in 0..Len(s), NEW b \in 0..Len(s), a < b
    PROVE  \E t \in (a + 1)..b, u \in (a + 1)..b :
              /\ s[t] <= (Sums(s)[b] - Sums(s)[a]) \div (b - a)
              /\ (Sums(s)[b] - Sums(s)[a]) \div (b - a) <= s[u]
<1> DEFINE f == Sums(s)
           n == f[b] - f[a]
           d == b - a
           q == n \div d
<1>1. SumsTo(s, Len(s), f)
  BY SumsAre
<1> HIDE DEF f
<1>2. b \in (a + 1)..Len(s)
  OBVIOUS
<1>3. PICK t \in (a + 1)..b, u \in (a + 1)..b : s[t] * d <= n /\ n <= s[u] * d
  BY <1>1, <1>2, MeanBetween
<1>4. s[t] \in Nat /\ s[u] \in Nat /\ d \in Nat \ {0} /\ n \in Int
  <2>1. t \in 1..Len(s) /\ u \in 1..Len(s) /\ d \in Nat \ {0}
    OBVIOUS
  <2>2. f[a] \in Nat /\ f[b] \in Nat
    BY <1>1 DEF SumsTo
  <2> QED
    BY <2>1, <2>2
<1> DEFINE x == s[t]
           y == s[u]
<1>5. x \in Nat /\ y \in Nat /\ d \in Nat \ {0} /\ n \in Int /\ x * d <= n /\ n <= y * d
  BY <1>3, <1>4
<1> HIDE DEF x, y, d, n
<1>6. n \in Nat
  <2>1. x * d \in Nat
    BY <1>5
  <2> QED
    BY <1>5, <2>1
<1>7. q \in Nat /\ q * d <= n
  BY <1>5, <1>6, QuotientIs
<1>8. x <= q
  BY <1>5, <1>6, QuotientLargest
<1> HIDE DEF q
<1>9. q * d <= y * d
  <2>1. q * d \in Int /\ y * d \in Int
    BY <1>5, <1>7
  <2> QED
    BY <1>5, <1>6, <1>7, <2>1
<1>10. q <= y
  BY <1>5, <1>7, <1>9, TimesCancels
<1> QED
  BY <1>8, <1>10 DEF x, y, q, n, d, f

(* An observation is of a second that has passed, with the sums up to it. *)
SoundObservation(o, s) == o.at \in 0..Len(s) /\ o.cumulative = Sums(s)[o.at]

SoundReader(k, s) ==
    /\ k.pc = "answer" => SoundObservation(k.read, s)
    /\ k.pc = "tokens" => /\ SoundObservation(k.start, s) /\ SoundObservation(k.end, s)
                          /\ k.start.at < k.end.at /\ k.start.at + MinWindow <= k.end.at
    /\ k.pc = "result" => /\ k.from \in 0..Len(s) /\ k.to \in 0..Len(s)
                          /\ k.from < k.to /\ k.from + MinWindow <= k.to
                          /\ k.twap = (Sums(s)[k.to] - Sums(s)[k.from]) \div (k.to - k.from)

TwapInv ==
    /\ spot \in Seq(Nat)
    /\ \A i \in 1..Len(obs) : SoundObservation(obs[i], spot)
    /\ \A c \in Readers : SoundReader(reader[c], spot)

LEMMA StillSound ==
    ASSUME NEW s \in Seq(Nat), NEW p \in Nat
    PROVE  /\ \A o : SoundObservation(o, s) => SoundObservation(o, Append(s, p))
           /\ \A k : SoundReader(k, s) => SoundReader(k, Append(s, p))
<1> DEFINE z == Append(s, p)
<1>1. Len(z) = Len(s) + 1 /\ \A n \in 0..Len(s) : Sums(z)[n] = Sums(s)[n]
  BY SumsKept
<1>2. \A n \in 0..Len(s) : n \in 0..Len(z)
  BY <1>1
<1> HIDE DEF z
<1>3. \A o : SoundObservation(o, s) => SoundObservation(o, z)
  BY <1>1, <1>2 DEF SoundObservation
<1>4. \A k : SoundReader(k, s) => SoundReader(k, z)
  <2> SUFFICES ASSUME NEW k, SoundReader(k, s) PROVE SoundReader(k, z)
    OBVIOUS
  <2>1. k.pc = "result" => /\ k.from \in 0..Len(z) /\ k.to \in 0..Len(z)
                           /\ Sums(z)[k.to] = Sums(s)[k.to] /\ Sums(z)[k.from] = Sums(s)[k.from]
    BY <1>1, <1>2 DEF SoundReader
  <2> QED
    BY <1>3, <2>1 DEF SoundReader
<1> QED
  BY <1>3, <1>4 DEF z

LEMMA TwapInitInv == ASSUME OracleInit PROVE TwapInv
<1>1. spot \in Seq(Nat) /\ Len(obs) = 0 /\ \A c \in Readers : reader[c] = AtRest
  BY DEF OracleInit
<1>2. SoundReader(AtRest, spot)
  BY DEF SoundReader, AtRest
<1> QED
  BY <1>1, <1>2 DEF TwapInv

LEMMA TwapNextInv == ASSUME OracleInv, TwapInv, [OracleNext]_oracleVars PROVE TwapInv'
<1>1. /\ spot \in Seq(Nat) /\ (\A i \in 1..Len(obs) : SoundObservation(obs[i], spot))
      /\ (\A c \in Readers : SoundReader(reader[c], spot)) /\ DOMAIN reader = Readers /\ Timed(obs)
  BY DEF TwapInv, OracleInv
<1>2. ASSUME NEW p \in SpotPrices, SecondPasses(p) PROVE TwapInv'
  <2>1. p \in Nat /\ spot' = Append(spot, p) /\ obs' = obs /\ reader' = reader
    BY <1>2, OracleAssumption DEF SecondPasses
  <2> QED
    BY <1>1, <2>1, StillSound DEF TwapInv
<1>3. ASSUME NEW c \in Readers, NEW k, reader' = [reader EXCEPT ![c] = k], SoundReader(k, spot),
             spot' = spot, \A i \in 1..Len(obs') : SoundObservation(obs'[i], spot)
      PROVE  TwapInv'
  <2>1. \A d \in Readers : reader'[d] = reader[d] \/ reader'[d] = k
    BY <1>1, <1>3
  <2>2. \A d \in Readers : SoundReader(reader'[d], spot)
    BY <1>1, <1>3, <2>1
  <2> QED
    BY <1>1, <1>3, <2>2 DEF TwapInv
<1>4. SoundReader(AtRest, spot)
  BY DEF SoundReader, AtRest
<1>5. ASSUME NEW c \in Readers, NEW twap, ReadAccumulator(c, twap) PROVE TwapInv'
  <2> DEFINE o == Observation
             k == [pc |-> "answer", twap |-> twap, read |-> o]
  <2>1. SoundObservation(o, spot)
    <3>1. o.at = Len(spot) /\ o.cumulative = Cumulative(Len(spot)) /\ Len(spot) \in 0..Len(spot)
      BY <1>1 DEF Observation, time
    <3> QED
      BY <3>1, CumulativeIs DEF SoundObservation
  <2>2. reader' = [reader EXCEPT ![c] = k] /\ spot' = spot /\ obs' = obs
    BY <1>5 DEF ReadAccumulator
  <2> HIDE DEF o
  <2>3. SoundReader(k, spot)
    BY <2>1 DEF SoundReader
  <2> HIDE DEF k
  <2> QED
    BY <1>1, <1>3, <2>2, <2>3
<1>6. ASSUME NEW c \in Readers, ReadFails(c) \/ Return(c) PROVE TwapInv'
  <2>1. reader' = [reader EXCEPT ![c] = AtRest] /\ spot' = spot /\ obs' = obs
    BY <1>6 DEF ReadFails, Return
  <2> QED
    BY <1>1, <1>3, <1>4, <2>1
<1>7. ASSUME NEW c \in Readers, Observe(c) PROVE TwapInv'
  <2> DEFINE o == reader[c].read
             a == Append(obs, o)
             s == Pruned(a)
             first == s[1]
             end == Last(s)
             wide == Len(s) >= 2 /\ end.at > first.at /\ end.at - first.at >= MinWindow
             k == [pc |-> "tokens", start |-> first, end |-> end]
  <2>1. /\ reader[c].pc = "answer" /\ obs' = s /\ spot' = spot
        /\ reader' = [reader EXCEPT ![c] = IF reader[c].twap /\ wide THEN k ELSE AtRest]
    BY <1>7 DEF Observe
  <2>2. SoundObservation(o, spot) /\ o.at \in Nat
    BY <1>1, <2>1 DEF SoundReader, SoundObservation
  <2>3. Timed(a) /\ a # <<>> /\ \A i \in 1..Len(a) : SoundObservation(a[i], spot)
    <3>1. Timed(a) /\ Len(a) = Len(obs) + 1 /\ Len(obs) \in Nat
          /\ a[Len(obs) + 1] = o /\ \A i \in 1..Len(obs) : a[i] = obs[i]
      BY <1>1, <2>2, TimedAppend
    <3> HIDE DEF a, o
    <3>2. Len(a) # 0 /\ \A i \in 1..Len(a) : i \in 1..Len(obs) \/ i = Len(obs) + 1
      BY <3>1
    <3>3. a # <<>>
      BY <3>2
    <3> QED
      BY <1>1, <2>2, <3>1, <3>2, <3>3
  <2> HIDE DEF a
  <2>4. /\ Timed(s) /\ s # <<>> /\ \A i \in 1..Len(s) : SoundObservation(s[i], spot)
    <3>1. Timed(s) /\ s # <<>> /\ \A i \in 1..Len(s) : \E j \in 1..Len(a) : s[i] = a[j]
      BY <2>3, PrunedFrom
    <3> QED
      BY <2>3, <3>1
  <2>5. Len(s) \in 1..Len(s) /\ 1 \in 1..Len(s) /\ Last(s) = s[Len(s)]
    BY <2>4 DEF Timed, Last
  <2>6. SoundObservation(first, spot) /\ SoundObservation(end, spot)
    BY <2>4, <2>5
  <2>7. /\ k.pc = "tokens" /\ k.start = first /\ k.end = end
    OBVIOUS
  <2> HIDE DEF s, k, first, end
  <2>8. wide => SoundReader(k, spot)
    <3> SUFFICES ASSUME wide PROVE SoundReader(k, spot)
      OBVIOUS
    <3>1. first.at \in Nat /\ end.at \in Nat /\ MinWindow \in Nat
      BY <2>6, OracleAssumption DEF SoundObservation
    <3>2. first.at < end.at /\ first.at + MinWindow <= end.at
      BY <3>1
    <3> QED
      BY <2>6, <2>7, <3>2 DEF SoundReader
  <2> HIDE DEF wide
  <2>9. \/ reader' = [reader EXCEPT ![c] = k] /\ wide
        \/ reader' = [reader EXCEPT ![c] = AtRest]
    BY <2>1
  <2>10. \A i \in 1..Len(obs') : SoundObservation(obs'[i], spot)
    BY <2>1, <2>4
  <2> QED
    BY <1>3, <1>4, <2>1, <2>8, <2>9, <2>10
<1>8. ASSUME NEW c \in Readers, Answer(c) PROVE TwapInv'
  <2> DEFINE k == reader[c]
             a == k.start
             b == k.end
             n == [pc |-> "result", from |-> a.at, to |-> b.at, twap |-> computeTWAP(a, b)]
  <2>1. k.pc = "tokens" /\ reader' = [reader EXCEPT ![c] = n] /\ spot' = spot /\ obs' = obs
    BY <1>8 DEF Answer
  <2>2. /\ SoundObservation(a, spot) /\ SoundObservation(b, spot)
        /\ a.at < b.at /\ a.at + MinWindow <= b.at
    BY <1>1, <2>1 DEF SoundReader
  <2>3. computeTWAP(a, b) = (Sums(spot)[b.at] - Sums(spot)[a.at]) \div (b.at - a.at)
    BY <2>2 DEF computeTWAP, SoundObservation
  <2>4. n.pc = "result" /\ n.from = a.at /\ n.to = b.at /\ n.twap = computeTWAP(a, b)
    OBVIOUS
  <2> HIDE DEF n, a, b, k
  <2>5. SoundReader(n, spot)
    BY <2>2, <2>3, <2>4 DEF SoundReader, SoundObservation
  <2> QED
    BY <1>1, <1>3, <2>1, <2>5
<1>9. CASE ClearCache
  <2>1. Len(obs') = 0 /\ spot' = spot /\ reader' = reader
    BY <1>9 DEF ClearCache
  <2> QED
    BY <1>1, <2>1 DEF TwapInv
<1>10. CASE UNCHANGED oracleVars
  BY <1>10 DEF oracleVars, TwapInv
<1> QED
  BY <1>2, <1>5, <1>6, <1>7, <1>8, <1>9, <1>10 DEF OracleNext

LEMMA TwapIsMean == ASSUME TwapInv PROVE TwapOfItsWindow
<1> SUFFICES ASSUME NEW c \in Readers, reader[c].pc = "result"
             PROVE  LET r == reader[c]
                        in == {spot[t] : t \in (r.from + 1)..r.to} IN
                    /\ r.to >= r.from + MinWindow
                    /\ \E lo \in in, hi \in in : lo <= r.twap /\ r.twap <= hi
  BY DEF TwapOfItsWindow
<1> DEFINE r == reader[c]
           in == {spot[t] : t \in (r.from + 1)..r.to}
<1>1. /\ spot \in Seq(Nat) /\ r.from \in 0..Len(spot) /\ r.to \in 0..Len(spot)
      /\ r.from < r.to /\ r.from + MinWindow <= r.to
      /\ r.twap = (Sums(spot)[r.to] - Sums(spot)[r.from]) \div (r.to - r.from)
  BY DEF TwapInv, SoundReader
<1> DEFINE a == r.from
           b == r.to
<1>2. a \in 0..Len(spot) /\ b \in 0..Len(spot) /\ a < b
  BY <1>1
<1> HIDE DEF a, b
<1>3. PICK t \in (a + 1)..b, u \in (a + 1)..b :
         /\ spot[t] <= (Sums(spot)[b] - Sums(spot)[a]) \div (b - a)
         /\ (Sums(spot)[b] - Sums(spot)[a]) \div (b - a) <= spot[u]
  BY <1>1, <1>2, MeanIsBetween
<1>4. spot[t] \in in /\ spot[u] \in in /\ spot[t] <= r.twap /\ r.twap <= spot[u]
  BY <1>1, <1>3 DEF a, b
<1>5. r.to >= r.from + MinWindow
  BY <1>1, <1>2, OracleAssumption DEF a, b
<1> HIDE DEF in, r
<1>6. \E lo \in in, hi \in in : lo <= r.twap /\ r.twap <= hi
  BY <1>4
<1> QED
  BY <1>5, <1>6 DEF in, r

(* A price getTWAP answers lies between two prices the pair really had       *)
(* between the seconds it speaks of, at least the minimum window apart, for  *)
(* any prices, window and cap, and whatever overlapping calls push, prune    *)
(* or clear (oracle.ts:107-270).                                             *)
THEOREM TwapIsOfItsWindow == MarketSpec => []TwapOfItsWindow
<1>1. MarketInit => OracleInv /\ TwapInv
  BY OracleInitInv, TwapInitInv DEF MarketInit
<1>2. OracleInv /\ TwapInv /\ [MarketNext]_marketVars => OracleInv' /\ TwapInv'
  <2>1. [MarketNext]_marketVars => [OracleNext]_oracleVars
    BY DEF MarketNext, marketVars
  <2> QED
    BY <2>1, OracleNextInv, TwapNextInv
<1>3. TwapInv => TwapOfItsWindow
  BY TwapIsMean
<1> QED
  BY <1>1, <1>2, <1>3, PTL DEF MarketSpec
=============================================================================
