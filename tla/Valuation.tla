----------------------------- MODULE Valuation -----------------------------
(* What LP positions are worth: the price map of TreasuryModule (treasury.ts), *)
(* positions and their pages (positions.ts), portfolios, snapshots and profit  *)
(* and loss (portfolio.ts), treasury holdings (treasury.ts) and total value     *)
(* locked (monitoring.ts).  The chain's pools are external; a view reads them   *)
(* in one state of the chain.  Dollars are scaled by PRICE_SCALE.               *)
EXTENDS Integers, Sequences, FiniteSets, SequencesExt, FiniteSetsExt, Sublist, Sums

CONSTANTS
    Pairs,        \* factory.getAllPairs, in order: records [token0, token1]
    Stables,      \* stableAddresses
    Owners,       \* holders of LP tokens
    PoolStates,   \* states of a pool: [reserve0, reserve1, held : [Owners -> Nat], supply]
    PRICE_SCALE,  \* fixed point of a price
    SHARE_SCALE,  \* fixed point of a share, 10^12
    Revenues,     \* fee revenues of a window
    PageSizes,    \* limits of getPositions
    MaxTrades     \* bound on the changes of the pools

VARIABLES
    pools,    \* pair index -> PoolStates (external)
    down,     \* pairs whose reads fail (external)
    trades,   \* changes so far
    entry     \* a snapshot an application keeps

valuationVars == <<pools, down, trades, entry>>

AllPairs == [i \in DOMAIN Pairs |-> i]
TokensOf(pair) == {Pairs[pair].token0, Pairs[pair].token1}
PoolState == [reserve0 : Nat, reserve1 : Nat, held : [Owners -> Nat], supply : Nat]
\* A pool's first deposit locks MIN_LIQUIDITY for good (pair-math.ts:23), so while there
\* is any supply the pool has both reserves and its holders own no more than the supply.
ASSUME ValuationAssumption ==
    /\ Len(Pairs) \in Nat /\ DOMAIN Pairs = 1..Len(Pairs)
    /\ IsFiniteSet(Owners)
    /\ PRICE_SCALE \in Nat /\ SHARE_SCALE \in Nat /\ Revenues \subseteq Nat
    /\ PageSizes \subseteq Nat \ {0}
    /\ PoolStates \subseteq PoolState
    /\ \A s \in PoolStates : /\ SumOf(s.held, Owners) <= s.supply
                             /\ s.supply > 0 => s.reserve0 > 0 /\ s.reserve1 > 0
    /\ \E s \in PoolStates : s.reserve0 = 0
-----------------------------------------------------------------------------
(* Prices *)

\* scalePrice: toFixed rounds to the nearest.
ScalePrice(num, den) == (2 * num * PRICE_SCALE + den) \div (2 * den)

WithPrice(prices, token, price) ==
    [t \in DOMAIN prices \cup {token} |-> IF t = token THEN price ELSE prices[t]]
\* buildPriceMap: the first pair with a stable side and reserves prices its other token.
Priced(prices, pair) ==
    LET p == pools[pair]
        t0 == Pairs[pair].token0
        t1 == Pairs[pair].token1 IN
    IF pair \in down \/ p.reserve0 = 0 \/ p.reserve1 = 0 THEN prices
    ELSE CASE t0 \in Stables /\ t1 \notin DOMAIN prices ->
                WithPrice(prices, t1, ScalePrice(p.reserve0, p.reserve1))
           [] t1 \in Stables /\ t0 \notin DOMAIN prices ->
                WithPrice(prices, t0, ScalePrice(p.reserve1, p.reserve0))
           [] OTHER -> prices
BuildPriceMap(pairs) ==
    LET map[n \in 0..Len(pairs)] ==
            IF n = 0 THEN [t \in Stables |-> PRICE_SCALE] ELSE Priced(map[n - 1], pairs[n]) IN
    map[Len(pairs)]
PriceOr0(prices, token) == IF token \in DOMAIN prices THEN prices[token] ELSE 0
\* reservesToUSD: an unpriced side is worth nothing.
ReservesToUSD(pair, prices) ==
    pools[pair].reserve0 * PriceOr0(prices, Pairs[pair].token0)
      + pools[pair].reserve1 * PriceOr0(prices, Pairs[pair].token1)
-----------------------------------------------------------------------------
(* Positions and portfolios *)

\* Mutant: the share is rounded up.
Part_RoundsUp(reserve, p, owner) ==
    IF p.supply > 0 THEN (reserve * p.held[owner] + p.supply - 1) \div p.supply ELSE 0

\* PositionsModule.getPosition
Part(reserve, p, owner) == IF p.supply > 0 THEN (reserve * p.held[owner]) \div p.supply ELSE 0
GetPosition(pair, owner) ==
    LET p == pools[pair] IN
    [pair |-> pair, balance |-> p.held[owner],
     token0Amount |-> Part(p.reserve0, p, owner), token1Amount |-> Part(p.reserve1, p, owner)]

\* getPositions without empty ones; a pair that cannot be read is left out.
Listed(owner, pair) == pair \notin down /\ pools[pair].held[owner] > 0
PositionsOf(owner, pairs) ==
    LET found == Sublist(pairs, {k \in DOMAIN pairs : Listed(owner, pairs[k])}) IN
    [i \in DOMAIN found |-> GetPosition(found[i], owner)]

\* One page; the next cursor is 0 when there is none.
PageEnd(start, limit) == start + limit
PositionPage(positions, start, limit) ==
    LET end == PageEnd(start, limit)
        truncated == Len(positions) > limit /\ start < Len(positions) /\ end < Len(positions) IN
    [positions  |-> SubSeq(positions, start + 1, Min({Len(positions), start + limit})),
     nextCursor |-> IF truncated THEN end ELSE 0]

\* PortfolioModule.get; asked for no pair it takes all.  It goes through the positions
\* and passes over one with an unpriced token.
GetPortfolio(owner, asked) ==
    LET pairs  == IF asked = <<>> THEN AllPairs ELSE asked
        prices == BuildPriceMap(pairs)
        valued == {k \in DOMAIN pairs : /\ Listed(owner, pairs[k])
                                        /\ TokensOf(pairs[k]) \subseteq DOMAIN prices}
        Value(pair) == LET pos == GetPosition(pair, owner) IN
                       pos.token0Amount * prices[Pairs[pair].token0]
                         + pos.token1Amount * prices[Pairs[pair].token1] IN
    [positions |-> Sublist(pairs, valued),
     total     |-> SumSeq([k \in DOMAIN pairs |-> IF k \in valued THEN Value(pairs[k]) ELSE 0])]

\* TreasuryModule.collectLPHoldings
Holding(pair, owner) ==
    LET p == pools[pair] IN
    IF pair \in down \/ p.supply = 0 THEN 0
    ELSE (p.held[owner] * ReservesToUSD(pair, BuildPriceMap(AllPairs))) \div p.supply

\* PortfolioModule.getPortfolioValue: the share of every pool with two priced sides.
\* One simulation reads all pairs, and its failure is a value of zero.
GetPortfolioValue(owner) ==
    LET prices == BuildPriceMap(AllPairs)
        valued == {i \in DOMAIN Pairs : /\ pools[i].supply > 0
                                        /\ TokensOf(i) \subseteq DOMAIN prices} IN
    IF down # {} THEN 0
    ELSE SumSeq([i \in DOMAIN Pairs |-> IF i \in valued THEN Holding(i, owner) ELSE 0])

\* FeeModule.getLPYield: the owner's share of the window's fees and of the reserves,
\* both scaled by SHARE_SCALE.
GetLPYield(pair, owner, revenue) ==
    LET p == pools[pair]
        share == IF p.supply = 0 THEN 0 ELSE (p.held[owner] * SHARE_SCALE) \div p.supply IN
    [lpFeeShare |-> revenue * share, lpValue |-> (p.reserve0 + p.reserve1) * share]

\* MonitoringModule.getProtocolMetrics: tvlUSD of the pools with reserves.
TvlUSD ==
    LET prices == BuildPriceMap(AllPairs)
        active == {i \in DOMAIN Pairs : /\ i \notin down
                                        /\ pools[i].reserve0 > 0 /\ pools[i].reserve1 > 0} IN
    SumSeq([i \in DOMAIN Pairs |-> IF i \in active THEN ReservesToUSD(i, prices) ELSE 0])

\* MonitoringModule.getAllPoolHealth: a pool that cannot be read is not operational.
PoolHealthFailure == [operational |-> FALSE, tvlUSD |-> 0]
GetAllPoolHealth ==
    LET prices == BuildPriceMap(AllPairs) IN
    [i \in DOMAIN Pairs |->
        IF i \in down THEN PoolHealthFailure
        ELSE [operational |-> TRUE, tvlUSD |-> ReservesToUSD(i, prices)]]
GetProtocolSummary ==
    LET health == GetAllPoolHealth
        active == {i \in DOMAIN Pairs : health[i].operational} IN
    [totalTVLUSD |-> SumSeq([i \in DOMAIN Pairs |-> IF i \in active THEN health[i].tvlUSD ELSE 0]),
     activePairCount |-> Cardinality(active)]
-----------------------------------------------------------------------------
(* Snapshots *)

NoEntry == [owner |-> "none", asked |-> <<>>, positions |-> <<>>, total |-> 0, at |-> 0]

\* createSnapshot(get(owner, { pairAddresses: asked }))
CreateSnapshot(owner, asked) ==
    LET portfolio == GetPortfolio(owner, asked) IN
    /\ entry.owner = "none"
    /\ entry' = [owner |-> owner, asked |-> asked, positions |-> portfolio.positions,
                 total |-> portfolio.total, at |-> trades]
    /\ UNCHANGED <<pools, down, trades>>

\* getPortfolioPnL reads the pairs of the snapshot's positions.
GetPortfolioPnL == GetPortfolio(entry.owner, entry.positions).total - entry.total
-----------------------------------------------------------------------------
(* The chain *)

\* A trade, a deposit or a withdrawal.
PoolMoves(pair, p) ==
    /\ trades < MaxTrades /\ p # pools[pair]
    /\ pools' = [pools EXCEPT ![pair] = p]
    /\ trades' = trades + 1
    /\ UNCHANGED <<down, entry>>

ReadsFail(pairs) ==
    /\ trades < MaxTrades /\ pairs # down
    /\ down' = pairs
    /\ trades' = trades + 1
    /\ UNCHANGED <<pools, entry>>

FirstPool == CHOOSE p \in PoolStates : p.reserve0 = 0
ValuationInit ==
    /\ pools = [i \in DOMAIN Pairs |-> FirstPool]
    /\ down = {} /\ trades = 0 /\ entry = NoEntry
ValuationNext ==
    \/ \E pair \in DOMAIN Pairs, p \in PoolStates : PoolMoves(pair, p)
    \/ \E pairs \in SUBSET DOMAIN Pairs : Cardinality(pairs) <= 1 /\ ReadsFail(pairs)
    \/ \E owner \in Owners : \E asked \in {<<>>} \cup {<<i>> : i \in DOMAIN Pairs} :
           CreateSnapshot(owner, asked)
ValuationSpec == ValuationInit /\ [][ValuationNext]_valuationVars
-----------------------------------------------------------------------------
(* Properties *)

\* No view invents value: all portfolios together are worth no more than the total
\* value locked, and a portfolio no more than its getPortfolioValue, nor than the
\* same holdings in the treasury's view (portfolio.ts:300 and 680, treasury.ts:468,
\* monitoring.ts:273).
ValueIsBacked ==
    /\ SumOf([o \in Owners |-> GetPortfolio(o, <<>>).total], Owners) <= TvlUSD
    /\ \A o \in Owners :
          LET holdings == SumSeq([i \in DOMAIN Pairs |-> Holding(i, o)]) IN
          /\ GetPortfolio(o, <<>>).total <= holdings
          /\ GetPortfolioValue(o) <= holdings
          /\ down = {} => GetPortfolio(o, <<>>).total <= GetPortfolioValue(o)

\* What the holders of a pool are told they own and earned of it is no more than the
\* pool and its revenue (fees.ts:351-369).
YieldIsBacked ==
    \A i \in DOMAIN Pairs, revenue \in Revenues :
        LET yield == [o \in Owners |-> GetLPYield(i, o, revenue)] IN
        /\ SumOf([o \in Owners |-> yield[o].lpFeeShare], Owners) <= revenue * SHARE_SCALE
        /\ SumOf([o \in Owners |-> yield[o].lpValue], Owners)
             <= (pools[i].reserve0 + pools[i].reserve1) * SHARE_SCALE

\* The two totals of monitoring differ only by pools that lack one of their reserves
\* (monitoring.ts:273 and 587).
TotalsAgree ==
    LET oneSided == \E i \in DOMAIN Pairs \ down :
                        (pools[i].reserve0 = 0) # (pools[i].reserve1 = 0) IN
    /\ TvlUSD <= GetProtocolSummary.totalTVLUSD
    /\ TvlUSD # GetProtocolSummary.totalTVLUSD => oneSided

\* Following nextCursor lists every position once (positions.ts:172-181).
FirstRequest == [listed |-> <<>>, cursor |-> 0, done |-> FALSE]
NextRequest(acc, positions, limit) ==
    IF acc.done THEN acc
    ELSE LET page == PositionPage(positions, acc.cursor, limit) IN
         [listed |-> acc.listed \o page.positions,
          cursor |-> page.nextCursor, done |-> page.nextCursor = 0]
FollowPages(positions, limit) ==
    LET acc[n \in 0..Len(Pairs)] ==
            IF n = 0 THEN FirstRequest ELSE NextRequest(acc[n - 1], positions, limit) IN
    acc[Len(Pairs)]
PagesCover ==
    \A o \in Owners, limit \in PageSizes :
        FollowPages(PositionsOf(o, AllPairs), limit).listed = PositionsOf(o, AllPairs)

\* A portfolio nothing has happened to has no profit and no loss, if the snapshot
\* asked for the pairs it found positions in (portfolio.ts:506-509).  A snapshot of
\* all pairs has no such promise: the second reading prices with fewer pairs.
UnmovedHasNoPnL ==
    (entry.owner # "none" /\ entry.at = trades /\ entry.asked = entry.positions
       /\ entry.asked # <<>>) => GetPortfolioPnL = 0

\* The views of the same holdings agree: total value, yields, pages and snapshots.
ViewsAgree ==
    ValueIsBacked /\ YieldIsBacked /\ TotalsAgree /\ PagesCover /\ UnmovedHasNoPnL
============================================================================
