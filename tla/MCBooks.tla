------------------------------- MODULE MCBooks -------------------------------
(* What the SDK reads back from the chain: event scans and pool watches,       *)
(* revenue and tax reports, valuation, the caches and batches of reads.  They  *)
(* share the chain and no state of their own, so a behaviour exercises one of  *)
(* them, chosen in Init, and the others stand still.                           *)
EXTENDS PoolWatch, Books, Valuation, Caches, BatchRequest

VARIABLE subject

readerVars == <<cursorVars, watchVars>>
recordVars == <<readerVars, booksVars, valuationVars, cachesVars, batchVars, subject>>

MCSwap(u, t, i, o, b, l, k) ==
    [sender |-> u, tin |-> t, in |-> i, out |-> o, bps |-> b, lacks |-> l, succeeded |-> k]
MCSwaps == {MCSwap("u1", "A", 4, 2, 25, "none", TRUE), MCSwap("u1", "B", 2, 5, 25, "none", TRUE),
            MCSwap("u2", "B", 1, 3, 50, "none", FALSE), MCSwap("u2", "A", 4, 3, 50, "fee_bps", TRUE),
            MCSwap("u1", "B", 1, 2, 50, "sender", TRUE)}
MCPairs == <<[token0 |-> "S", token1 |-> "X"], [token0 |-> "X", token1 |-> "S"],
             [token0 |-> "X", token1 |-> "Y"]>>
MCPool(a, b, h1, h2, s) ==
    [reserve0 |-> a, reserve1 |-> b, held |-> [o1 |-> h1, o2 |-> h2], supply |-> s]
MCPools == {MCPool(0, 0, 0, 0, 0), MCPool(5, 3, 1, 2, 3), MCPool(2, 7, 0, 2, 4),
            MCPool(4, 4, 1, 3, 5)}

RecordInit ==
    /\ CursorInit /\ WatchInit /\ BooksInit /\ ValuationInit /\ CachesInit /\ BatchInit
    /\ subject \in {"cursor", "watch", "books", "valuation", "pairs", "decimals", "batch"}

ReaderNext ==
    \/ subject = "cursor" /\ CursorNext /\ UNCHANGED watchVars
    \/ subject = "watch" /\ WatchNext /\ UNCHANGED cursorVars
    \/ subject = "watch" /\ (\E n \in 0..PerLedger : CloseLedger(n)) /\ UNCHANGED watchVars

RecordNext ==
    /\ \/ ReaderNext /\ UNCHANGED <<booksVars, valuationVars, cachesVars, batchVars>>
       \/ subject = "books" /\ BooksNext
            /\ UNCHANGED <<readerVars, valuationVars, cachesVars, batchVars>>
       \/ subject = "valuation" /\ ValuationNext
            /\ UNCHANGED <<readerVars, booksVars, cachesVars, batchVars>>
       \/ subject = "pairs" /\ PairCacheNext
            /\ UNCHANGED <<readerVars, booksVars, valuationVars, resolverVars, batchVars>>
       \/ subject = "decimals" /\ ResolverNext
            /\ UNCHANGED <<readerVars, booksVars, valuationVars, pairVars, batchVars>>
       \/ subject = "batch" /\ BatchNext
            /\ UNCHANGED <<readerVars, booksVars, valuationVars, cachesVars>>
    /\ UNCHANGED subject

RecordSpec == RecordInit /\ [][RecordNext]_recordVars
=============================================================================
