------------------------------- MODULE Books -------------------------------
(* What the reporting modules compute from the swap events: fee revenue       *)
(* (fees.ts, treasury.ts), system metrics (monitoring.ts), rankings           *)
(* (leaderboard.ts), swap history (swap.ts) and tax reports (tax-reporting.ts).*)
(* All of them read the events with EventCursor.scan, which returns every     *)
(* event from a ledger to the end of the chain (EventCursor, ScanIsRun), and  *)
(* each has its own decoder.  Prices and decimals are one: the sums compared  *)
(* are of amounts of one token.                                               *)
EXTENDS Integers, Sequences, FiniteSets, SequencesExt, FiniteSetsExt, Sublist, Sums

CONSTANTS
    Users,         \* senders of swaps
    Swaps,         \* swap events that can be emitted, without their ledger
    FEE_SCALE,     \* 10000
    Day,           \* ledgers of the shortest period
    HistoryLimit,  \* page limit of getSwapHistory, which slices its result
    LastLedger,    \* bound on the chain
    LongestLedger, \* bound on the events of a ledger
    MostSwaps      \* bound on the events of the chain

VARIABLES
    head,      \* latest ledger (external)
    swaps,     \* the swap events of the pair, oldest first (external)
    report     \* an application that asks for the fee revenue since its last question

booksVars == <<head, swaps, report>>

Tokens == {"A", "B"}
Other(token) == CHOOSE t \in Tokens : t # token
\* A swap event: sender, tin (token_in), in, out, bps (fee_bps), the field it
\* lacks, and whether its contract call succeeded.
Shapes == {"none", "fee_bps", "sender"}
SwapShape == [sender : Users, tin : Tokens, in : Nat \ {0}, out : Nat \ {0}, bps : Nat,
              lacks : Shapes, succeeded : BOOLEAN]
ASSUME BooksAssumption ==
    /\ Swaps \subseteq SwapShape
    /\ Day \in Nat \ {0} /\ FEE_SCALE \in Nat \ {0} /\ HistoryLimit \in Nat
-----------------------------------------------------------------------------
(* The chain, the scan and the decoders *)

Recorded(e, ledger) ==
    [sender |-> e.sender, tin |-> e.tin, in |-> e.in, out |-> e.out, bps |-> e.bps,
     lacks |-> e.lacks, succeeded |-> e.succeeded, ledger |-> ledger]
EmitSwaps(emitted) ==
    /\ head < LastLedger /\ Len(swaps) + Len(emitted) <= MostSwaps
    /\ head' = head + 1
    /\ swaps' = swaps \o [i \in DOMAIN emitted |-> Recorded(emitted[i], head + 1)]
    /\ UNCHANGED report

\* A loop over some of the events, which are named by their place in the log.
Total(Amount(_), events) ==
    SumSeq([i \in DOMAIN swaps |-> IF i \in events THEN Amount(swaps[i]) ELSE 0])
From(ledger) == {i \in DOMAIN swaps : swaps[i].ledger >= ledger}
Upto(events, ledger) == {i \in events : swaps[i].ledger <= ledger}

\* decodeMapEvent, readAddress, readI128 and readU32: a field that is absent is undefined.
Decodes(e) == e.lacks = "none"
\* EventParser.fromEventResponse and parseSwap: every field, of a call that succeeded.
ParseSwap(events) == {i \in events : swaps[i].succeeded /\ Decodes(swaps[i])}
\* TreasuryModule.parseSwapEventForRevenue: amount_in, fee_bps and token_in.
ParseSwapEventForRevenue(events) == {i \in events : swaps[i].lacks # "fee_bps"}
\* SwapModule.getSwapHistory: every field; the page is cut before it is filtered.
GetSwapHistory(from, to) ==
    LET scanned == From(from)
        page    == {i \in scanned : Cardinality({j \in scanned : j <= i}) <= HistoryLimit} IN
    {i \in Upto(page, to) : Decodes(swaps[i])}

Fee(e) == (e.in * e.bps) \div FEE_SCALE
Volume(e) == e.in
-----------------------------------------------------------------------------
(* Fee revenue, metrics and rankings *)

\* (mutant) forgets that ledgers close while it scans
FeeRevenue_OpenEnded(scanned, to) == Total(Fee, ParseSwap(scanned))
\* FeeModule.getFeeRevenue, from what the scan returned.
FeeRevenue(scanned, to) == Total(Fee, ParseSwap(Upto(scanned, to)))

\* TreasuryModule.fetchPoolRevenue
FetchPoolRevenue(from, to) ==
    LET events == ParseSwapEventForRevenue(Upto(From(from), to))
        mid    == (from + to) \div 2 IN
    [revenue    |-> Total(Fee, events),
     firstHalf  |-> Total(Fee, Upto(events, mid)),
     secondHalf |-> Total(Fee, events \ Upto(events, mid))]

PeriodStart(ledgers) == Max({1, head - ledgers})
Senders(events) == {swaps[i].sender : i \in events}

\* MonitoringModule.fetchPoolSwapActivity: the event's window.
InCurrent(e, currentStart) == e.ledger >= currentStart
FetchPoolSwapActivity(period) ==
    LET events   == ParseSwap(Upto(From(PeriodStart(2 * period)), head))
        start    == PeriodStart(period)
        current  == {i \in events : InCurrent(swaps[i], start)}
        previous == events \ current IN
    [currentVolume   |-> Total(Volume, current),  currentRevenue  |-> Total(Fee, current),
     previousVolume  |-> Total(Volume, previous), previousRevenue |-> Total(Fee, previous),
     currentUsers    |-> Senders(current)]

\* MonitoringModule.fetchPairSwapTotals
FetchPairSwapTotals ==
    LET events == GetSwapHistory(Max({0, head - Day}), head) IN
    [volume |-> Total(Volume, events), fees |-> Total(Fee, events),
     totalSwaps |-> Cardinality(events), uniqueUsers |-> Cardinality(Senders(events))]

\* LeaderboardModule.getLeaderboard("trader"): volume per sender in the two windows.
LeaderboardWindows(period) ==
    LET start  == PeriodStart(period + Day)
        events == {i \in From(start) : swaps[i].lacks # "sender"}
        cur    == Max({start, head - period})
        prev   == Max({start, head - Day})
        Of(u, lo, hi) == Total(Volume, {i \in events : /\ swaps[i].sender = u
                                                       /\ swaps[i].ledger \in lo..hi}) IN
    [u \in Users |-> [current |-> Of(u, cur, head), previous |-> Of(u, start, prev)]]
\* The entries, best first: each has the rank of its place.
GetLeaderboard(period) ==
    LET volumes == LeaderboardWindows(period)
        ranked  == {u \in Users : volumes[u].current > 0}
        entries == 1..Cardinality(ranked) IN
    CHOOSE board \in [entries -> ranked] :
        /\ Range(board) = ranked
        /\ \A i, j \in entries :
              i < j => volumes[board[i]].current >= volumes[board[j]].current

\* LeaderboardModule.getTopTraders: what each sender of the history traded and won.
GetTopTraders(period) ==
    LET history == GetSwapHistory(Max({0, head - period}), head)
        Of(u)   == {i \in history : swaps[i].sender = u} IN
    [u \in Senders(history) |->
        [volume |-> Total(Volume, Of(u)), tradeCount |-> Cardinality(Of(u)),
         winCount |-> Cardinality({i \in Of(u) : swaps[i].out > swaps[i].in})]]
-----------------------------------------------------------------------------
(* An application that polls FeeModule.getFeeRevenue *)

NoReport == [pc |-> "idle", next |-> 1, to |-> 0, total |-> 0]

\* getFeeRevenue({fromLedger: next}): the default toLedger is read first.
AskRevenue ==
    /\ report.pc = "idle" /\ report.next <= head
    /\ report' = [report EXCEPT !.pc = "scan", !.to = head]
    /\ UNCHANGED <<head, swaps>>

\* The scan ends, perhaps ledgers later.
RevenueAnswered ==
    /\ report.pc = "scan"
    /\ report' = [report EXCEPT !.pc = "idle", !.next = report.to + 1,
                                !.total = @ + FeeRevenue(From(report.next), report.to)]
    /\ UNCHANGED <<head, swaps>>
-----------------------------------------------------------------------------
(* Tax reports *)

\* exportTradeHistory: a swap without a sender is everybody's, one without a fee is free.
Rows(user) ==
    LET mine == Sublist(swaps, {i \in From(PeriodStart(Day)) :
                    swaps[i].lacks = "sender" \/ swaps[i].sender = user}) IN
    [i \in DOMAIN mine |->
        [tokenIn  |-> mine[i].tin, amountIn |-> mine[i].in,
         tokenOut |-> Other(mine[i].tin), amountOut |-> mine[i].out,
         fee |-> IF mine[i].lacks = "fee_bps" THEN 0 ELSE Fee(mine[i])]]

Lot(row) == [quantity |-> row.amountOut, cost |-> row.amountIn + row.fee]

\* (mutant) the lot keeps its cost
TakeFrom_KeepsCost(lot, qty) == [lot EXCEPT !.quantity = @ - qty]

\* One lot gives qty units of a disposal; an empty lot is dropped.
TakeFrom(lot, qty) ==
    [quantity |-> lot.quantity - qty, cost |-> lot.cost - (qty * lot.cost) \div lot.quantity]
Kept(lots, lot) == IF lot.quantity = 0 THEN lots ELSE Append(lots, lot)

\* The loop of getCostBasis over the lots in the order of the method.
Disposed(acc, lot) ==
    LET qty == Min({acc.left, lot.quantity}) IN
    [left |-> acc.left - qty, basis |-> acc.basis + (qty * lot.cost) \div lot.quantity,
     lots |-> Kept(acc.lots, TakeFrom(lot, qty))]
Dispose(lots, sold) ==
    LET after[n \in 0..Len(lots)] ==
            IF n = 0 THEN [left |-> sold, basis |-> 0, lots |-> <<>>]
            ELSE Disposed(after[n - 1], lots[n])
    IN  after[Len(lots)]

InMethodOrder(lots, method) == IF method = "FIFO" THEN lots ELSE Reverse(lots)
NoBasis == [lots |-> <<>>, totalQuantity |-> 0, totalCost |-> 0, uncovered |-> 0, disposals |-> <<>>]
BasisBuys(acc, row) ==
    [acc EXCEPT !.lots = Append(@, Lot(row)), !.totalQuantity = @ + row.amountOut,
                !.totalCost = @ + Lot(row).cost]
BasisSells(acc, row, method) ==
    LET disposal == Dispose(InMethodOrder(acc.lots, method), row.amountIn) IN
    [acc EXCEPT !.lots = InMethodOrder(disposal.lots, method),
                !.totalQuantity = @ - row.amountIn,
                !.uncovered = @ + disposal.left,
                !.disposals = Append(@, [basis |-> disposal.basis,
                    quantity |-> row.amountIn, lots |-> Len(acc.lots),
                    gain |-> row.amountOut - disposal.basis])]
GetCostBasis(rows, token, method) ==
    LET after[n \in 0..Len(rows)] ==
            IF n = 0 THEN NoBasis
            ELSE IF rows[n].tokenOut = token THEN BasisBuys(after[n - 1], rows[n])
            ELSE BasisSells(after[n - 1], rows[n], method)
    IN  after[Len(rows)]

\* The loop of getCapitalGains: what is left of disposalQty is not tracked, every
\* lot is offered the whole of it.
Gained(acc, lot, sold, proceeds) ==
    LET qty == Min({sold, lot.quantity}) IN
    [net  |-> acc.net + (qty * proceeds) \div sold - (qty * lot.cost) \div lot.quantity,
     lots |-> Kept(acc.lots, TakeFrom(lot, qty))]
GainOf(lots, sold, proceeds) ==
    LET after[n \in 0..Len(lots)] ==
            IF n = 0 THEN [net |-> 0, lots |-> <<>>]
            ELSE Gained(after[n - 1], lots[n], sold, proceeds)
    IN  after[Len(lots)]

\* netGain; the split by holding period is left out.
NoGains == [net |-> [t \in Tokens |-> 0], lots |-> [t \in Tokens |-> <<>>]]
GainsRow(acc, row) ==
    LET sale == GainOf(acc.lots[row.tokenIn], row.amountIn, row.amountOut) IN
    [net  |-> [acc.net EXCEPT ![row.tokenIn] = @ + sale.net],
     lots |-> [acc.lots EXCEPT ![row.tokenOut] = Append(@, Lot(row)),
                               ![row.tokenIn]  = sale.lots]]
GetCapitalGains(rows) ==
    LET after[n \in 0..Len(rows)] ==
            IF n = 0 THEN NoGains ELSE GainsRow(after[n - 1], rows[n])
    IN  after[Len(rows)]
-----------------------------------------------------------------------------
BooksInit == head = 0 /\ swaps = <<>> /\ report = NoReport

Emitted == UNION {[1..n -> Swaps] : n \in 0..LongestLedger}
BooksNext == (\E emitted \in Emitted : EmitSwaps(emitted)) \/ AskRevenue \/ RevenueAnswered
BooksSpec == BooksInit /\ [][BooksNext]_booksVars
-----------------------------------------------------------------------------
(* Properties *)

\* Consecutive windows count every decodable swap once, whatever ledgers close
\* between the read of the current ledger and the end of the scan (fees.ts:208-267).
PollAddsUp ==
    report.pc = "idle" =>
        report.total = Total(Fee, ParseSwap(Upto(DOMAIN swaps, report.next - 1)))

\* The reports are about the same swaps: the halves of the treasury's window make
\* up its revenue and are no less than FeeModule's; and if every event is complete
\* and within the page limit, system metrics, pool totals, leaderboard, top traders,
\* treasury and FeeModule agree on each period (treasury.ts:256, monitoring.ts:801
\* and 848, leaderboard.ts:185 and 325).
ReportsAgree ==
    \A period \in {Day, 2 * Day} :
        LET start    == PeriodStart(period)
            treasury == FetchPoolRevenue(start, head)
            activity == FetchPoolSwapActivity(period)
            board    == LeaderboardWindows(period)
            entries  == GetLeaderboard(period)
            traders  == GetTopTraders(period)
            fees     == FeeRevenue(From(start), head)
            whole    == FeeRevenue(From(PeriodStart(2 * period)), head) IN
        /\ treasury.revenue = treasury.firstHalf + treasury.secondHalf
        /\ fees <= treasury.revenue
        /\ activity.currentRevenue + activity.previousRevenue = whole
        /\ (\A e \in Range(swaps) : e.lacks = "none" /\ e.succeeded) =>
            /\ fees = treasury.revenue
            /\ activity.currentRevenue = fees
            /\ activity.currentVolume = SumOf([u \in Users |-> board[u].current], Range(entries))
            /\ activity.currentUsers = Range(entries)
            /\ Cardinality(From(Max({0, head - period}))) <= HistoryLimit =>
                /\ period = Day => FetchPairSwapTotals.fees = fees
                /\ DOMAIN traders = activity.currentUsers
                /\ \A u \in DOMAIN traders : traders[u].volume = board[u].current

EachBasis(disposals) == [k \in DOMAIN disposals |-> disposals[k].basis]
EachGain(disposals) == [k \in DOMAIN disposals |-> disposals[k].gain]
EachCost(lots) == [k \in DOMAIN lots |-> lots[k].cost]
EachQuantity(lots) == [k \in DOMAIN lots |-> lots[k].quantity]

\* Lots account for every unit and all of the cost: what the disposals were
\* charged and what the open lots still carry is what was paid (tax-reporting.ts:319-340).
CostConserved ==
    \A u \in Users, token \in Tokens, method \in {"FIFO", "LIFO"} :
        LET basis == GetCostBasis(Rows(u), token, method) IN
        /\ SumSeq(EachBasis(basis.disposals)) + SumSeq(EachCost(basis.lots)) = basis.totalCost
        /\ SumSeq(EachQuantity(basis.lots)) = basis.totalQuantity + basis.uncovered

\* While a token has one open lot at each sale, and the lot covers it, netGain is
\* the sum of the gains getCostBasis reports (tax-reporting.ts:345 and 440).  With
\* two open lots it is not: see GainOf.
GainsAgree ==
    \A u \in Users, token \in Tokens :
        LET basis == GetCostBasis(Rows(u), token, "FIFO") IN
        (basis.uncovered = 0 /\ \A d \in Range(basis.disposals) : d.lots = 1) =>
            GetCapitalGains(Rows(u)).net[token] = SumSeq(EachGain(basis.disposals))

\* The poller, the treasury, system metrics, pool totals and leaderboard tell of
\* the same swaps.
ReportsAddUp == PollAddsUp /\ ReportsAgree

\* The tax reports account for every unit, all of the cost and the same gains.
TaxBooksBalance == CostConserved /\ GainsAgree
============================================================================
