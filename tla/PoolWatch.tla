------------------------------ MODULE PoolWatch ------------------------------
(* FactoryModule.watchPool (modules/factory.ts) over the ledgers and events of *)
(* EventCursor.  setInterval starts a poll whether or not the previous one has *)
(* answered, so polls overlap and share lastSeenLedger; the requests of a poll *)
(* may fail, which the poll swallows.                                          *)
EXTENDS EventCursor

CONSTANTS
    Polls,          \* polls that can be under way at once
    WatchWindow     \* WATCH_LEDGER_WINDOW

ASSUME WatchAssumption == WatchWindow \in Nat

VARIABLES
    active, lastSeenLedger,
    poll,           \* the polls
    delivered,      \* (history) events given to the callback
    before,         \* (history) events before the first start of a poll
    cut             \* (history) ledgers a full page ended inside

watchVars == <<active, lastSeenLedger, poll, delivered, before, cut>>

NoPoll == [pc |-> "idle", currentLedger |-> 0, startLedger |-> 0]

\* The page getEvents answers from a start ledger (limit 200).
WatchPage(start) ==
    LET from == FirstFrom(start) IN from..Min({Len(log), from + Limit - 1})

\* Mutant: the watch advances to the current ledger.
Seen_ThroughCurrent(ledgers) == Max(ledgers \cup {lastSeenLedger, tip})

\* lastSeenLedger after the page: the newest ledger delivered.
Seen(ledgers) == Max(ledgers \cup {lastSeenLedger})

WatchPool ==
    /\ ~active /\ active' = TRUE /\ lastSeenLedger' = 0
    /\ delivered' = {} /\ before' = {} /\ cut' = {}
    /\ poll' = [p \in Polls |-> NoPoll]

StartPoll(p) ==
    /\ active /\ poll[p].pc = "idle"
    /\ poll' = [poll EXCEPT ![p].pc = "ledger"]
    /\ UNCHANGED <<active, lastSeenLedger, delivered, before, cut>>

\* getCurrentLedger has answered: the start is chosen from lastSeenLedger now.
CurrentLedgerRead(p) ==
    LET start == IF lastSeenLedger > 0 THEN lastSeenLedger + 1
                 ELSE IF tip > WatchWindow THEN tip - WatchWindow ELSE 0 IN
    /\ poll[p].pc = "ledger"
    /\ poll' = [poll EXCEPT ![p] = IF start > tip THEN NoPoll
                   ELSE [pc |-> "events", currentLedger |-> tip, startLedger |-> start]]
    /\ before' = IF lastSeenLedger = 0 THEN before \cup Before(start) ELSE before
    /\ UNCHANGED <<active, lastSeenLedger, delivered, cut>>

EventsRead(p) ==
    LET page == WatchPage(poll[p].startLedger)
        given == {i \in page : log[i] <= poll[p].currentLedger}
        end == Max(page) IN
    /\ poll[p].pc = "events"
    /\ poll' = [poll EXCEPT ![p] = NoPoll]
    /\ IF active
       THEN /\ delivered' = delivered \cup given
            /\ lastSeenLedger' = Seen({log[i] : i \in given})
            /\ cut' = IF given = page /\ page # {} /\ end < Len(log)
                         /\ log[end + 1] = log[end]
                      THEN cut \cup {log[end]} ELSE cut
       ELSE UNCHANGED <<delivered, lastSeenLedger, cut>>
    /\ UNCHANGED <<active, before>>

\* A request fails; or there is no answer the poll can read.
PollFails(p) ==
    /\ poll[p].pc \in {"ledger", "events"}
    /\ poll' = [poll EXCEPT ![p] = NoPoll]
    /\ UNCHANGED <<active, lastSeenLedger, delivered, before, cut>>

Unwatch ==
    /\ active /\ active' = FALSE
    /\ UNCHANGED <<lastSeenLedger, poll, delivered, before, cut>>

WatchInit ==
    /\ active = FALSE /\ lastSeenLedger = 0 /\ poll = [p \in Polls |-> NoPoll]
    /\ delivered = {} /\ before = {} /\ cut = {}

WatchNext ==
    \/ WatchPool \/ Unwatch
    \/ \E p \in Polls : \/ StartPoll(p) \/ CurrentLedgerRead(p)
                        \/ EventsRead(p) \/ PollFails(p)
-----------------------------------------------------------------------------
(* However polls overlap and fail, lastSeenLedger never moves past an event  *)
(* the callback has not had, except in a ledger that a full page ended       *)
(* inside and before the start the first polls chose (factory.ts:340-371).   *)
WatchLosesNothing ==
    {i \in DOMAIN log : log[i] <= lastSeenLedger /\ log[i] \notin cut}
        \subseteq delivered \cup before

(* Neither reader of the chain's events moves past one it has not handed on: *)
(* not the cursor that scans share, not the watch that polls share.          *)
NoEventMissed == NothingSkipped /\ WatchLosesNothing
=============================================================================
