-------------------------------- MODULE Amm --------------------------------
(* The pools and the calls that trade in them: the arithmetic of             *)
(* utils/pair-math.ts, the pair contract (pair/src/lib.rs), quotes and swaps *)
(* (modules/swap.ts, utils/redstone.ts), route choice (modules/router.ts),   *)
(* liquidity (modules/liquidity.ts) and flash loans (modules/flash-loan.ts). *)
(* The repository's contract holds mint_with_one_token only; swap, deposit,  *)
(* withdraw and flash_loan are external and move the pool as pair-math says. *)
(* Every read of a pool is an await: trades of others fall between the reads *)
(* of one quote, and between the quote and the transaction.                  *)
EXTENDS Naturals, Sequences, FiniteSets, SequencesExt, Sublist

CONSTANTS
    BPS,           \* BPS_DENOMINATOR, reduced
    Fee,           \* dynamic fee of the pools
    Slippage,      \* slippageBps
    MinLiquidity,  \* MIN_LIQUIDITY
    Amounts,       \* amounts of requests, trades, deposits
    Depth,         \* first reserves of the pools 1-2 and 2-3
    MaxMoves,      \* bound on the moves of others
    MaxDeviation,  \* maxDeviationBps
    MinGuarded,    \* minGuardedAmountUsd
    FlashFees,     \* flashFeeBps the pool's owner sets
    FlashFloor     \* flashFeeFloor

ASSUME AmmAssumption ==
    /\ BPS \in Nat /\ Fee \in 0..(BPS - 1) /\ Slippage \in 0..BPS /\ Amounts \subseteq Nat \ {0}
    /\ MinLiquidity \in Nat /\ FlashFees \subseteq Nat /\ FlashFloor \in Nat
    /\ Depth \in Nat /\ MaxDeviation \in Nat

Pools == {{1, 2}, {2, 3}, {1, 3}}      \* a pool is named by its two tokens

VARIABLES
    pool,      \* reserves by token, and LP supply
    moves,     \* steps of others so far
    ask,       \* the swap or route request under way
    paid,      \* (history) what the last swap spent and got
    liq,       \* the liquidity or position request under way
    flashBps,  \* the pool's flash fee
    loan       \* the flash loan under way

ammVars == <<pool, moves, ask, paid, liq, flashBps, loan>>
NoCall == [pc |-> "idle"]
CallOver == [pc |-> "over"]    \* a behaviour makes one call of each kind
-----------------------------------------------------------------------------
(* utils/pair-math.ts *)

isqrt(n) ==
    LET newton[x \in 1..n] == LET y == (x + n \div x) \div 2 IN
                              IF y < x THEN newton[y] ELSE x
    IN  IF n = 0 THEN 0 ELSE newton[n]

\* Mutant: the larger side decides.
computeMint_Larger(a, b, ra, rb, supply) ==
    LET first == isqrt(a * b)
        la == (a * supply) \div ra
        lb == (b * supply) \div rb IN
    IF supply = 0 THEN (IF first > MinLiquidity THEN first - MinLiquidity ELSE 0)
    ELSE IF la < lb THEN lb ELSE la

computeMint(a, b, ra, rb, supply) ==
    LET first == isqrt(a * b)
        la == (a * supply) \div ra
        lb == (b * supply) \div rb IN
    IF supply = 0 THEN (IF first > MinLiquidity THEN first - MinLiquidity ELSE 0)
    ELSE IF la < lb THEN la ELSE lb

computeBurn(l, reserve, supply) == (l * reserve) \div supply

getAmountOut(x, rIn, rOut) ==
    (x * (BPS - Fee) * rOut) \div (rIn * BPS + x * (BPS - Fee))

\* Mutant: the input is rounded down.
getAmountIn_RoundsDown(y, rIn, rOut) ==
    (rIn * y * BPS) \div ((rOut - y) * (BPS - Fee))

getAmountIn(y, rIn, rOut) ==
    (rIn * y * BPS) \div ((rOut - y) * (BPS - Fee)) + 1

-----------------------------------------------------------------------------
(* The pools *)

Reserve(pl, h, side) == pl[{h[1], h[2]}].r[h[side]]
Holds(pl, h, x, y) ==    \* x of h[1] came in, y of h[2] went out
    [pl EXCEPT ![{h[1], h[2]}].r =
                   [t \in {h[1], h[2]} |-> IF t = h[1] THEN @[t] + x ELSE @[t] - y]]
Product(pl, p) == LET t == CHOOSE t \in p : TRUE
                      u == CHOOSE u \in p : u # t IN pl[p].r[t] * pl[p].r[u]
Funded(p) == \A t \in p : pool[p].r[t] > 0

\* (history) these pools moved under the call
Touched(ps, c) ==
    IF c.pc \in {"idle", "over"} THEN c ELSE [c EXCEPT !.still = @ /\ ps \cap c.over = {}]
\* Another account moves a pool: the calls under way read what it leaves.
OthersMove(p, seen) ==
    /\ moves < MaxMoves /\ moves' = moves + 1
    /\ ask' = Touched({p}, ask) /\ liq' = Touched({p}, liq)
    /\ loan' = seen
    /\ UNCHANGED <<paid, flashBps>>
\* (history) the loan's pool lost liquidity while the loan was under way
Drained(p) ==
    IF loan.pc \in {"callback", "estimate", "submit", "after"} /\ loan.p = p
    THEN [loan EXCEPT !.drained = TRUE] ELSE loan

OtherSwap(p, t, x) ==
    LET h == <<t, CHOOSE u \in p : u # t>>
        y == getAmountOut(x, Reserve(pool, h, 1), Reserve(pool, h, 2)) IN
    /\ Funded(p) /\ t \in p /\ y > 0
    /\ pool' = Holds(pool, h, x, y)
    /\ OthersMove(p, loan)

Minted(p, a, l) ==
    [pool EXCEPT ![p].r = [t \in p |-> @[t] + a[t]],
                 ![p].lp = @ + l + (IF @ = 0 THEN MinLiquidity ELSE 0)]

MintFor(p, a) ==
    LET t == CHOOSE t \in p : TRUE
        u == CHOOSE u \in p : u # t IN
    computeMint(a[t], a[u], pool[p].r[t], pool[p].r[u], pool[p].lp)

OtherDeposit(p, a) ==
    /\ a \in [p -> Amounts] /\ MintFor(p, a) > 0
    /\ pool' = Minted(p, a, MintFor(p, a))
    /\ OthersMove(p, loan)

Burnt(p, l) ==
    [pool EXCEPT ![p].r = [t \in p |-> @[t] - computeBurn(l, @[t], pool[p].lp)], ![p].lp = @ - l]

OtherWithdraw(p, l) ==
    /\ pool[p].lp >= l + MinLiquidity
    /\ pool' = Burnt(p, l)
    /\ OthersMove(p, Drained(p))

\* mint_with_one_token of the pair contract: part of the amount is thought
\* of as swapped, the shares are for the rest and the proceeds.
mint_with_one_token(p, t, amount) ==
    LET u == CHOOSE u \in p : u # t
        f == BPS - Fee
        rIn == pool[p].r[t]
        rOut == pool[p].r[u]
        b == rIn * (BPS + f)
        swap_amount == (isqrt(b * b + 4 * BPS * f * amount * rIn) - b) \div (2 * f)
        out == getAmountOut(swap_amount, rIn, rOut)
        lpIn == ((amount - swap_amount) * pool[p].lp) \div (rIn + swap_amount)
        lpOut == (out * pool[p].lp) \div (rOut - out)
        lp_minted == IF lpIn < lpOut THEN lpIn ELSE lpOut IN
    /\ t \in p /\ Funded(p)
    /\ swap_amount < amount /\ out > 0
    /\ pool' = Minted(p, [w \in p |-> IF w = t THEN amount ELSE 0], lp_minted)
    /\ OthersMove(p, loan)
-----------------------------------------------------------------------------
(* Quotes: one await per hop, in path order for EXACT_IN, backwards for     *)
(* EXACT_OUT.                                                               *)

HopsOf(path) == [i \in 1..(Len(path) - 1) |-> <<path[i], path[i + 1]>>]
PoolsOf(path) == {{h[1], h[2]} : h \in ToSet(HopsOf(path))}
InOrder(path, type) == IF type = "in" THEN HopsOf(path) ELSE Reverse(HopsOf(path))

Quoting(api, type, path, x, todo, best) ==
    [pc |-> "hops", api |-> api, type |-> type, path |-> path, amount |-> x, cur |-> x,
     left |-> InOrder(path, type), todo |-> todo, best |-> best,
     over |-> PoolsOf(path), still |-> TRUE]

\* swap.execute and swapWithPriceGuard; longer paths with EXACT_OUT are
\* refused there and go through executeMultiHop.
RequestQuote(api, type, path, x) ==
    /\ ask.pc = "idle"
    /\ api \in {"execute", "guarded"} /\ Len(path) > 2 => type = "in"
    /\ ask' = Quoting(api, type, path, x, <<>>, <<>>)
    /\ UNCHANGED <<pool, moves, paid, liq, flashBps, loan>>

Routes == << <<1, 3>>, <<1, 2, 3>> >>      \* findAllPaths: breadth first
\* filterZeroLiquidityPaths
Viable == Sublist(Routes, {i \in DOMAIN Routes : \A p \in PoolsOf(Routes[i]) : Funded(p)})

FindOptimalPath(type, x) ==
    /\ ask.pc = "idle" /\ Viable # <<>>
    /\ ask' = [Quoting("route", type, Head(Viable), x, Tail(Viable), <<>>)
                 EXCEPT !.over = UNION {PoolsOf(r) : r \in ToSet(Viable)}]
    /\ UNCHANGED <<pool, moves, paid, liq, flashBps, loan>>

Inflated(x) == x + (x * Slippage) \div BPS
AtLeast(x) == x - (x * Slippage) \div BPS

\* A direct EXACT_OUT quote, and executeMultiHop's, holds the inflated input;
\* the one the router builds for a longer path holds the bare input.
QuoteOf(a, v) ==
    IF a.type = "in"
    THEN [path |-> a.path, type |-> "in", amountIn |-> a.amount, amountOut |-> v,
          amountOutMin |-> AtLeast(v), base |-> a.amount]
    ELSE [path |-> a.path, type |-> "out", amountOut |-> a.amount, amountOutMin |-> a.amount,
          amountIn |-> IF a.api = "route" /\ Len(a.path) > 2 THEN v ELSE Inflated(v), base |-> v]

Better(q, best) ==
    \/ best = <<>>
    \/ IF q.type = "out" THEN q.amountIn < best[1].amountIn ELSE q.amountOut > best[1].amountOut

\* The path is quoted, or its quote threw: the router goes on to the next.
PathDone(best) ==
    LET next == Quoting(ask.api, ask.type, Head(ask.todo), ask.amount, Tail(ask.todo), best) IN
    IF ask.todo # <<>> THEN [next EXCEPT !.over = ask.over, !.still = ask.still]
    ELSE IF best = <<>> THEN CallOver
    ELSE [pc |-> "ready", api |-> ask.api, quote |-> best[1], over |-> ask.over, still |-> ask.still]

ReadHop ==
    LET h == Head(ask.left)
        rIn == Reserve(pool, h, 1)
        rOut == Reserve(pool, h, 2)
        throws == ask.cur = 0 \/ rIn = 0 \/ rOut = 0 \/ (ask.type = "out" /\ ask.cur >= rOut)
        v == IF ask.type = "in" THEN getAmountOut(ask.cur, rIn, rOut)
                                ELSE getAmountIn(ask.cur, rIn, rOut) IN
    /\ ask.pc = "hops"
    /\ ask' = IF throws THEN PathDone(ask.best)
              ELSE IF Len(ask.left) > 1 THEN [ask EXCEPT !.left = Tail(@), !.cur = v]
              ELSE PathDone(IF Better(QuoteOf(ask, v), ask.best) THEN <<QuoteOf(ask, v)>>
                                                                ELSE ask.best)
    /\ UNCHANGED <<pool, moves, paid, liq, flashBps, loan>>

\* Mutant: only a quote above the feed counts.
Deviation_Upwards(q) ==
    LET s == (q.amountOut * BPS) \div q.amountIn IN IF s > BPS THEN s - BPS ELSE 0

\* verifyRedStonePayload, for feeds that price the tokens alike.
Deviation(q) ==
    LET s == (q.amountOut * BPS) \div q.amountIn IN IF s > BPS THEN s - BPS ELSE BPS - s

GuardRequired(q) == q.amountIn >= MinGuarded
GuardRefuses ==
    /\ ask.pc = "ready" /\ ask.api = "guarded" /\ GuardRequired(ask.quote)
    /\ ask.quote.amountIn > 0 /\ ask.quote.amountOut > 0 /\ Deviation(ask.quote) > MaxDeviation
    /\ ask' = CallOver
    /\ UNCHANGED <<pool, moves, paid, liq, flashBps, loan>>
GuardPasses(a) ==
    \/ a.api # "guarded" \/ ~GuardRequired(a.quote)
    \/ a.quote.amountIn = 0 \/ a.quote.amountOut = 0
    \/ Deviation(a.quote) <= MaxDeviation
-----------------------------------------------------------------------------
(* The swap transaction.  buildSwapOperation and the router client refuse   *)
(* an empty bound; the contract checks the bound it is given.               *)

Buildable(q) == q.amountIn > 0 /\ q.amountOutMin > 0

Hop(s, h) ==                 \* exact tokens in, one hop
    LET y == IF s.x = 0 THEN 0
             ELSE getAmountOut(s.x, Reserve(s.pl, h, 1), Reserve(s.pl, h, 2)) IN
    [x |-> y, pl |-> Holds(s.pl, h, s.x, y)]

Through(path, x, pl) ==      \* hop by hop
    LET after[i \in 0..(Len(path) - 1)] ==
            IF i = 0 THEN [x |-> x, pl |-> pl] ELSE Hop(after[i - 1], HopsOf(path)[i])
    IN  after[Len(path) - 1]

Exchanged(q, pl) ==
    LET h == <<q.path[1], q.path[2]>>
        need == getAmountIn(q.amountOut, Reserve(pl, h, 1), Reserve(pl, h, 2))
        out == Through(q.path, q.amountIn, pl) IN
    IF Len(q.path) = 2 /\ q.type = "out"
    THEN IF q.amountOut >= Reserve(pl, h, 2) THEN [ok |-> FALSE]
         ELSE [ok |-> need <= q.amountIn, spent |-> need, got |-> q.amountOut,
               pl |-> Holds(pl, h, need, q.amountOut)]
    ELSE [ok |-> out.x >= q.amountOutMin, spent |-> q.amountIn, got |-> out.x, pl |-> out.pl]

ExecuteSwap ==
    /\ ask.pc = "ready" /\ GuardPasses(ask)
    /\ LET x == Exchanged(ask.quote, pool)
           ok == Buildable(ask.quote) /\ x.ok IN
       /\ pool' = IF ok THEN x.pl ELSE pool
       /\ paid' = IF ok THEN [api |-> ask.api, spent |-> x.spent, got |-> x.got,
                              guarded |-> ask.api = "guarded" /\ GuardRequired(ask.quote)]
                  ELSE paid
       /\ liq' = IF ok THEN Touched(PoolsOf(ask.quote.path), liq) ELSE liq
    /\ ask' = CallOver
    /\ UNCHANGED <<moves, flashBps, loan>>
-----------------------------------------------------------------------------
(* Liquidity: what is told is read, or simulated, before it is paid.        *)

\* getPosition of a holder of all but the locked shares: reserves first ...
ReadReserves(p) ==
    /\ liq.pc = "idle" /\ pool[p].lp > MinLiquidity
    /\ liq' = [pc |-> "balance", p |-> p, r |-> pool[p].r, over |-> {p}, still |-> TRUE]
    /\ UNCHANGED <<pool, moves, ask, paid, flashBps, loan>>

\* ... then balance and supply.
ReadBalance ==
    LET s == pool[liq.p].lp
        b == s - MinLiquidity IN
    /\ liq.pc = "balance"
    /\ liq' = [pc |-> "position", p |-> liq.p, balance |-> b, over |-> liq.over, still |-> liq.still,
               amounts |-> [t \in liq.p |-> IF s > 0 THEN (liq.r[t] * b) \div s ELSE 0]]
    /\ UNCHANGED <<pool, moves, ask, paid, flashBps, loan>>

\* addLiquidity and removeLiquidity simulate, then submit.
SimulateLiquidity(p, a, l) ==
    /\ liq.pc = "idle"
    /\ \/ /\ l = 0 /\ MintFor(p, a) > 0
          /\ liq' = [pc |-> "add", p |-> p, amounts |-> a, balance |-> MintFor(p, a),
                     over |-> {p}, still |-> TRUE]
       \/ /\ l > 0 /\ pool[p].lp >= l + MinLiquidity
          /\ liq' = [pc |-> "remove", p |-> p, balance |-> l, over |-> {p}, still |-> TRUE,
                     amounts |-> [t \in p |-> computeBurn(l, pool[p].r[t], pool[p].lp)]]
    /\ UNCHANGED <<pool, moves, ask, paid, flashBps, loan>>

SubmitLiquidity ==
    /\ \/ liq.pc = "add" /\ MintFor(liq.p, liq.amounts) > 0
          /\ pool' = Minted(liq.p, liq.amounts, MintFor(liq.p, liq.amounts))
       \/ liq.pc \in {"remove", "position"} /\ pool[liq.p].lp >= liq.balance + MinLiquidity
          /\ liq.balance > 0
          /\ pool' = Burnt(liq.p, liq.balance)
    /\ liq' = CallOver /\ ask' = Touched({liq.p}, ask)
    /\ loan' = IF liq.pc = "add" THEN loan ELSE Drained(liq.p)
    /\ UNCHANGED <<moves, paid, flashBps>>

LiquidityFails ==
    /\ liq.pc \notin {"idle", "over"} /\ liq' = CallOver
    /\ UNCHANGED <<pool, moves, ask, paid, flashBps, loan>>
-----------------------------------------------------------------------------
(* Flash loans: the configuration is read twice before the loan; a consumer *)
(* may run one inside verifyReserveConservation.                            *)

LargerOf(a, b) == IF a > b THEN a ELSE b
estimateFee(amount, bps) == LargerOf((amount * bps) \div BPS, FlashFloor)
calculateRepayment(amount, bps) == amount + (amount * bps) \div BPS
FeeFloorBps == 1     \* validateFeeFloor, reduced

SetFlashFee(b) ==
    /\ flashBps' = b /\ b # flashBps
    /\ UNCHANGED <<pool, moves, ask, paid, liq, loan>>

\* verifyReserveConservation: the reserves before its callback runs the loan ...
SnapshotReserves(p) ==
    /\ loan.pc = "idle"
    /\ loan' = [pc |-> "callback", p |-> p, guard |-> <<Product(pool, p)>>, drained |-> FALSE]
    /\ UNCHANGED <<pool, moves, ask, paid, liq, flashBps>>

CheckFlashConfig(p, t, amount) ==
    LET guarded == loan.pc = "callback" IN
    /\ loan.pc = "idle" \/ (guarded /\ loan.p = p)
    /\ t \in p
    /\ loan' = IF flashBps < FeeFloorBps THEN CallOver
               ELSE [pc |-> "estimate", p |-> p, t |-> t, amount |-> amount, bps |-> flashBps,
                     guard |-> IF guarded THEN loan.guard ELSE <<>>,
                     drained |-> guarded /\ loan.drained]
    /\ UNCHANGED <<pool, moves, ask, paid, liq, flashBps>>

EstimateRepayment ==
    LET fee == estimateFee(loan.amount, flashBps) IN
    /\ loan.pc = "estimate"
    /\ loan' = IF loan.amount + fee < calculateRepayment(loan.amount, loan.bps) THEN CallOver
               ELSE [loan EXCEPT !.pc = "submit"]
    /\ UNCHANGED <<pool, moves, ask, paid, liq, flashBps>>

\* The pool keeps the fee, or its receiver does; a borrower who does not
\* repay loses the transaction.
RunFlashLoan(skim) ==
    LET due == IF skim THEN 0 ELSE estimateFee(loan.amount, flashBps)
        lent == loan.amount < pool[loan.p].r[loan.t] IN
    /\ loan.pc = "submit"
    /\ pool' = IF lent THEN [pool EXCEPT ![loan.p].r[loan.t] = @ + due] ELSE pool
    /\ loan' = IF lent /\ loan.guard # <<>> THEN [loan EXCEPT !.pc = "after"] ELSE CallOver
    /\ ask' = Touched({loan.p}, ask) /\ liq' = Touched({loan.p}, liq)
    /\ UNCHANGED <<moves, paid, flashBps>>

\* ... and after it, within the flash fee.
ReservesVerified ==
    LET k == loan.guard[1] IN
    /\ loan.pc = "after"
    /\ loan' = [pc |-> "verified", drained |-> loan.drained,
                ok |-> Product(pool, loan.p) >= k - (k * flashBps) \div BPS]
    /\ UNCHANGED <<pool, moves, ask, paid, liq, flashBps>>
-----------------------------------------------------------------------------
PoolOf(p, x, y, lp) == [r |-> [t \in p |-> IF \A u \in p : t <= u THEN x ELSE y], lp |-> lp]

AmmInit ==
    /\ \E direct \in {0, Depth} :
          pool = [p \in Pools |->
                    CASE p = {1, 3} -> PoolOf(p, direct, direct, direct)
                      [] OTHER -> PoolOf(p, Depth, Depth + 1, Depth)]
    /\ moves = 0 /\ ask = NoCall /\ liq = NoCall /\ loan = NoCall
    /\ paid = [api |-> "none", spent |-> 0, got |-> 0, guarded |-> FALSE]
    /\ flashBps \in FlashFees

PoolNext ==
    \/ \E p \in Pools : \E t \in p, x \in Amounts :
          OtherSwap(p, t, x) \/ mint_with_one_token(p, t, x)
    \/ \E p \in Pools : \E a \in [p -> Amounts] : OtherDeposit(p, a)
    \/ \E p \in Pools, l \in Amounts : OtherWithdraw(p, l)

SwapNext ==
    \/ \E api \in {"execute", "guarded", "multihop"}, type \in {"in", "out"},
          path \in ToSet(Routes), x \in Amounts : RequestQuote(api, type, path, x)
    \/ \E type \in {"in", "out"}, x \in Amounts : FindOptimalPath(type, x)
    \/ ReadHop \/ GuardRefuses \/ ExecuteSwap

LiquidityNext ==
    \/ \E p \in Pools : ReadReserves(p)
    \/ ReadBalance
    \/ \E p \in Pools : \E a \in [p -> Amounts], l \in Amounts \cup {0} : SimulateLiquidity(p, a, l)
    \/ SubmitLiquidity \/ LiquidityFails

FlashNext ==
    \/ \E b \in FlashFees : SetFlashFee(b)
    \/ \E p \in Pools : \E t \in p, x \in Amounts : CheckFlashConfig(p, t, x)
    \/ \E p \in Pools : SnapshotReserves(p)
    \/ EstimateRepayment \/ ReservesVerified
    \/ \E skim \in BOOLEAN : RunFlashLoan(skim)

AmmNext == PoolNext \/ SwapNext \/ LiquidityNext \/ FlashNext
AmmSpec == AmmInit /\ [][AmmNext]_ammVars
-----------------------------------------------------------------------------
(* No sequence of swaps, deposits, withdrawals, one-token mints and flash   *)
(* loans lowers what a share stands for: the square root of the product of  *)
(* the reserves per LP token never falls, every rounding included           *)
(* (pair-math.ts:25-92, pair/src/lib.rs:106-190).                           *)
NoDilution ==
    [][\A p \in Pools :
          pool[p].lp > 0 =>
             Product(pool', p) * pool[p].lp * pool[p].lp >= Product(pool, p) * pool'[p].lp * pool'[p].lp]_pool

(* A quote, direct or over several hops, exact in or exact out, is one the  *)
(* contract honours if no pool it was read from has moved: an exact-in swap *)
(* gets what it was told, an exact-out swap no less than it asked for, for  *)
(* no more input than quoted (swap.ts:471-522, 573-750; router.ts:158-187). *)
UnmovedQuoteExecutes ==
    ask.pc = "ready" /\ ask.still /\ Buildable(ask.quote) =>
        LET x == Exchanged(ask.quote, pool) IN
        /\ x.ok
        /\ ask.quote.type = "in" => x.got = ask.quote.amountOut
        /\ ask.quote.type = "out" => x.got >= ask.quote.amountOut /\ x.spent <= ask.quote.amountIn

(* What a guarded swap really paid is within the allowed deviation and the  *)
(* slippage of the feed's price, whatever others did to the pool after the  *)
(* guard looked at the quote (swap.ts:73-110, redstone.ts:54-123).          *)
GuardedNearFeed ==
    paid.guarded =>
        paid.got * BPS * BPS >= paid.spent * (BPS - MaxDeviation) * (BPS - Slippage)

(* A position, or what a liquidity call tells its caller, is what the pool  *)
(* pays if it has not moved since it was read (liquidity.ts:288-467).       *)
UnmovedPositionIsPaid ==
    liq.pc \in {"position", "remove"} /\ liq.still =>
        \A t \in liq.p : liq.amounts[t] = computeBurn(liq.balance, pool[liq.p].r[t], pool[liq.p].lp)

(* The guard around a flash loan raises no false alarm: it fails only if    *)
(* liquidity was withdrawn between its two reads, whoever swapped,          *)
(* deposited, skimmed or changed the fee meanwhile                          *)
(* (reserve-conservation.ts:103-121).                                       *)
AlarmMeansDrained == loan.pc = "verified" => loan.ok \/ loan.drained

(* A caller who acts on a pool that has not moved since it was read gets    *)
(* what it was told, from a quote and from a position, and a guarded loan   *)
(* is not blamed for the trades of others.                                  *)
UnmovedPoolPays == UnmovedQuoteExecutes /\ UnmovedPositionIsPaid /\ AlarmMeansDrained
=============================================================================
