---------------------------- MODULE EventCursor ----------------------------
(* EventCursor.scan (utils/event-cursor.ts); several scans share one object. *)
(* The RPC server is external: it answers at most Limit matching events, in  *)
(* ledger order, from a ledger or from an opaque cursor; some servers never  *)
(* send a cursor.  Ledgers close between any two pages; a request may fail.  *)
EXTENDS Naturals, Sequences, FiniteSets, SequencesExt, FiniteSetsExt, Sublist

CONSTANTS
    Scans,      \* scans that can be under way on the same cursor
    MaxLedger,  \* bound on the chain
    PerLedger,  \* bound on the matching events of a ledger
    MaxEvents,  \* bound on all matching events
    Limit,      \* page size
    Window      \* defaultWindow

ASSUME CursorAssumption == Limit \in Nat \ {0} /\ Window \in Nat /\ PerLedger \in Nat

VARIABLES
    tip,        \* latest ledger (external)
    log,        \* the ledgers of the events that match, oldest first (external)
    cursor,     \* this.cursor; 0 is undefined
    scan,       \* the calls of scan
    accounted   \* (history) events returned to the application, before a start
                \* that was chosen, or read by a scan that then failed

cursorVars == <<tip, log, cursor, scan, accounted>>

MIN_START_LEDGER == 1
NoScan == [pc |-> "idle", first |-> 0, startLedger |-> 0, toLedger |-> 0, opaque |-> FALSE,
           currentCursor |-> 0, carriedKeys |-> {}, allEvents |-> <<>>, hasMore |-> FALSE,
           length |-> 0]
Before(l) == {i \in DOMAIN log : log[i] < l}
FirstFrom(l) == Cardinality(Before(l)) + 1
-----------------------------------------------------------------------------
(* The chain and the RPC server *)

CloseLedger(n) ==
    /\ tip < MaxLedger /\ Len(log) + n <= MaxEvents
    /\ tip' = tip + 1
    /\ log' = log \o [i \in 1..n |-> tip + 1]
    /\ UNCHANGED <<cursor, scan, accounted>>

\* getEvents: positions of the answered page.
GetEvents(s) ==
    LET from == IF scan[s].currentCursor # 0 THEN scan[s].currentCursor + 1
                ELSE FirstFrom(scan[s].startLedger)
        last == Min({Len(log), from + Limit - 1}) IN
    [k \in 1..(IF last < from THEN 0 ELSE last - from + 1) |-> from + k - 1]
-----------------------------------------------------------------------------
(* scan *)

StartScan(s, from, to, opaque) ==
    LET start == IF from # 0 THEN from ELSE cursor IN
    /\ scan[s].pc \in {"idle", "done"}
    /\ scan' = [scan EXCEPT ![s] = [NoScan EXCEPT
                   !.pc = IF start = 0 THEN "anchor" ELSE "page",
                   !.first = start, !.startLedger = start, !.toLedger = to, !.opaque = opaque]]
    /\ accounted' = IF from # 0 THEN accounted \cup Before(from) ELSE accounted
    /\ UNCHANGED <<tip, log, cursor>>

\* anchorIfNeeded, once getLatestLedger has answered.
Anchor(s) ==
    LET a == Max({MIN_START_LEDGER, IF tip > Window THEN tip - Window ELSE 0}) IN
    /\ scan[s].pc = "anchor"
    /\ cursor' = a
    /\ scan' = [scan EXCEPT ![s].pc = "page", ![s].first = a, ![s].startLedger = a]
    /\ accounted' = accounted \cup Before(a)
    /\ UNCHANGED <<tip, log>>

\* Mutant: the carried keys are not filtered.
NewEvents_Uncarried(s, page) == page

\* What a page adds to allEvents: all of it, unless the previous page came
\* without a cursor and this one reads its last ledger again.
NewEvents(s, page) ==
    IF scan[s].carriedKeys = {} THEN page
    ELSE Sublist(page, {k \in DOMAIN page : /\ log[page[k]] >= scan[s].startLedger
                                            /\ page[k] \notin scan[s].carriedKeys})

\* Where the next page starts: at the server's cursor, or else at the
\* ledger of the last event.
Continued(s, page) ==
    LET last == page[Len(page)] IN
    IF scan[s].opaque
    THEN [scan[s] EXCEPT !.currentCursor = last, !.carriedKeys = {}]
    ELSE [scan[s] EXCEPT !.startLedger = log[last],
             !.carriedKeys = {i \in ToSet(page) : log[i] = log[last]}]

EmptyPage(s) ==
    /\ scan[s].pc = "page" /\ GetEvents(s) = <<>>
    /\ cursor' = tip
    /\ scan' = [scan EXCEPT ![s].pc = "done"]
    /\ accounted' = accounted \cup ToSet(scan[s].allEvents)
    /\ UNCHANGED <<tip, log>>

Page(s) ==
    LET page == GetEvents(s)
        new == NewEvents(s, page)
        lastLedger == log[page[Len(page)]]
        stop == \/ scan[s].toLedger # 0 /\ lastLedger > scan[s].toLedger
                \/ Len(page) < Limit \/ new = <<>>
        all == scan[s].allEvents \o new IN
    /\ scan[s].pc = "page" /\ page # <<>>
    /\ cursor' = lastLedger
    /\ scan' = [scan EXCEPT ![s] = [Continued(s, page) EXCEPT
                   !.pc = IF stop THEN "done" ELSE "page", !.allEvents = all,
                   !.hasMore = Len(page) >= Limit, !.length = Len(log)]]
    /\ accounted' = IF stop THEN accounted \cup ToSet(all) ELSE accounted
    /\ UNCHANGED <<tip, log>>

\* getLatestLedger or getEvents rejects, and scan with it.
RequestFails(s) ==
    /\ scan[s].pc \in {"anchor", "page"}
    /\ accounted' = accounted \cup ToSet(scan[s].allEvents)
    /\ scan' = [scan EXCEPT ![s] = NoScan]
    /\ UNCHANGED <<tip, log, cursor>>

Reset ==
    /\ cursor # 0 /\ cursor' = 0
    /\ UNCHANGED <<tip, log, scan, accounted>>
-----------------------------------------------------------------------------
CursorInit ==
    /\ tip = 1 /\ log = <<>> /\ cursor = 0
    /\ scan = [s \in Scans |-> NoScan]
    /\ accounted = {}

CursorNext ==
    \/ \E n \in 0..PerLedger : CloseLedger(n)
    \/ \E s \in Scans, from \in 0..tip, to \in {0, tip}, opaque \in BOOLEAN :
          StartScan(s, from, to, opaque)
    \/ \E s \in Scans : \/ Anchor(s) \/ EmptyPage(s) \/ Page(s) \/ RequestFails(s)
    \/ Reset
-----------------------------------------------------------------------------
(* Whatever ledgers close between its pages, a scan has collected a run of  *)
(* consecutive events, each once, that begins with the first event of its   *)
(* start ledger; and when it tells that there is no next page, the run went *)
(* to the end of the log as the last page found it (event-cursor.ts:253-353).*)
ScanIsRun ==
    \A s \in Scans : scan[s].pc \in {"page", "done"} =>
        LET f == FirstFrom(scan[s].first)
            n == Len(scan[s].allEvents) IN
        /\ scan[s].allEvents = [k \in 1..n |-> f + k - 1]
        /\ scan[s].pc = "done" /\ ~scan[s].hasMore => f + n - 1 >= scan[s].length

(* The persistent cursor never moves past an event nobody saw: an event of  *)
(* an earlier ledger was returned, is held by a scan under way, precedes a  *)
(* start that was chosen, or was read by a scan whose later page failed.    *)
NothingSkipped ==
    cursor # 0 =>
        Before(cursor) \subseteq
            accounted \cup UNION {ToSet(scan[s].allEvents) : s \in Scans}
=============================================================================
