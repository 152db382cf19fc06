# Verification of the CoralSwap SDK

TLA+ models of the CoralSwap SDK (`src/src/`, TypeScript), the TLC configurations
that check them on small instances, and TLAPS proofs of the results that matter
most. Line numbers refer to the repository; `PROJECT.json` maps every definition
to the lines it stands for.

## 1. The system

The SDK is one process on one event loop. Nothing runs in parallel, but every
`await` is a point at which other calls of the application, timers and answers
run, and several objects are shared across those points: the client's network,
server, pool, poller and submission queue, the module-level circuit breakers, the
webhook records, the alert and metric maps, the caches. The Stellar network
(ledger, RPC servers, contracts) and Squid's bridge are external: requests and
answers can be lost, delayed or repeated, a transaction is included or dropped
whenever the ledger pleases, and pools, orders and balances move between any two
reads.

### Inventory

| Component | State it keeps | Operations | Hard behaviour | What makes it correct |
|---|---|---|---|---|
| Submission, `client.ts` | `_submissionQueue`, network, server, signer, cached poller | `submitTransaction`, `setNetwork` | lifecycle of six awaits; switches between them; lost sends; half-done switches | verdicts are true, no sequence number used twice, nothing on the wrong network, every call settles |
| Resubmission loops, `swap.ts`, `blend.ts`, `governance.ts`, `squid.ts`, `flash-loan.ts`, `limit-orders.ts`, `staking.ts`, three helpers | attempt counters, a balance read earlier | submit, ask the status, resubmit | a status query answers while the transaction is still waiting; the query fails | no repeat of what landed, no false success, termination |
| RPC fallback, `client.ts`, `connection-pool.ts`, `retry.ts` | round-robin position, health, breakers, current server | `executeWithFallback`, `withRetry` | concurrent calls share all of it | outcomes booked where sent, every endpoint tried, no breaker stuck |
| Rate limiter, `rate-limiter.ts` | tokens, refill clock, queue, timer | `acquire`, `tryAcquire`, `destroy`, callback | late timers, rounding | no lost wakeup, rate kept |
| Poller, `polling.ts` | attempt and error counters | `poll`, abort | signal during a read or a delay | verdict justified by the last read |
| Webhook registry, `webhooks.ts` | records, failure counters, history | register, update, send, verify, disable, enable, delete | deliveries and handshakes overlap updates; stale record references | verified and disabled mean what they say |
| Webhook endpoints, `webhooks.ts` | deliveries, payloads, health | `deliver`, `retryDelivery`, update, delete, `clear` | nested retries that catch their own errors; manual retries | nothing sent twice once acknowledged, truthful records |
| Alerts, `alerts.ts` | four maps of alerts | create, update, pause, delete, evaluate, poll | a price is awaited between the read and the write of an entry | nothing reported twice |
| Orders, `limit-orders.ts`, `dca.ts`, `stop-loss.ts` | none; the contracts keep the orders | place, cancel, replace, create | fills and expiry during a call | a reported cancellation happened, with the refund told |
| AMM, `pair-math.ts`, `swap.ts`, `router.ts`, `liquidity.ts`, `flash-loan.ts`, `pair/src/lib.rs` | the pools (on chain) | quotes, swaps, deposits, withdrawals, one-token mint, flash loans | several reads per quote; trades in between; rounding | no dilution; what was told is what a pool that has not moved pays |
| Oracle, `oracle.ts` | observations per pair | `observe`, `getTWAP`, `clearCache` | readings pushed out of order; pruning | a TWAP is an average over a full window |
| Staking and governance, `staking.ts`, `governance.ts` | none; contracts | stake, unstake, claim, propose, vote, cancel, execute, delegate | checks on reads that are stale or failed; resubmission | what is reported done is done, once |
| Cross-chain, `squid.ts` | none | quote, bridge leg, swap leg | a POST that failed may have arrived | each leg moves money once |
| Monitoring, `monitoring.ts`, `health-check.ts` | metric instances, latency windows | collect, update, delete, prune, probe | collections overlap and hold replaced objects | points in order, choices on fresh samples |
| Events, `event-cursor.ts`, `factory.ts` `watchPool` | cursor, last seen ledger | scan, reset, watch, unwatch | pages end inside ledgers, ledgers close between pages, polls overlap | no event lost, none twice in a scan |
| Reports, `fees.ts`, `treasury.ts`, `leaderboard.ts`, `tax-reporting.ts`, `monitoring.ts`, `swap.ts` | per-call accumulators | revenue, rankings, history, cost basis | boundaries, partial lots, five decoders | the books add up and agree |
| Valuation, `portfolio.ts`, `positions.ts`, `treasury.ts`, `fees.ts`, `monitoring.ts` | snapshots | portfolio, positions, holdings, yield, total value | rounding, failed pools, pages | no value invented, pages cover |
| Caches, `factory.ts`, `decimals-resolver.ts` | maps with a time to live, an LRU list | lookup, invalidate, clear | filled across an await | bounded age, least recently used |
| Batch requests, `batch-request.ts` | shared index, results | run | workers, time-outs, late ends | each result at its index |

Interactions: every module calls `submitTransaction`; it calls
`executeWithFallback` for each RPC and the poller at its end; `executeWithFallback`
takes a token of the rate limiter, picks an endpoint of the pool and runs
`withRetry` under a breaker; `setNetwork` replaces what all of them read. The
reporting modules read the chain through `EventCursor.scan`. The business modules
share the client and the chain, and no state of their own.

## 2. Modules

| Module | Models | Composition |
|---|---|---|
| `TxSubmission` | the queue, the complete lifecycle, `setNetwork` with its partial failures, the cached poller, an external ledger per network | sees `executeWithFallback` as "dispatched, perhaps again, answered or thrown" and the poller as its verdict |
| `Resubmission` | the seven resubmission loops | extends `TxSubmission`; attempt *i* of the operation is call *i* |
| `RpcFallback` | `executeWithFallback`, `ConnectionPool`, `withRetry`, `CircuitBreaker` | what `TxSubmission` abstracts |
| `RateLimiter` | the token bucket | what `RpcFallback` sees as one await |
| `PollContract` | what `poll` promises: a verdict justified by the last completed read, the limit or the signal | abstract specification |
| `TransactionPoller` | the polling loop | implements `PollContract` (`INSTANCE PollContract WITH ...`, the identity on its four variables; checked and proved) |
| `Webhooks` | one webhook: record, state, deliveries, handshakes | |
| `WebhookDelivery` | one endpoint: records, bodies, health, the stack of nested `sendHttpRequest` frames | |
| `Amm` | pools, quotes, routes, the price guard, execution, liquidity, flash loans, the Rust pair | `MCMarket` |
| `Oracle` | the observation window | `MCMarket` |
| `Orders` | limit orders, DCA schedules, stop-losses | `MCMarket` |
| `CrossChain` | bridge leg and swap leg | `MCMarket` |
| `Governance` | staking and governance requests | `MCMarket` |
| `Alerts` | the four registries | `MCMarket` |
| `Monitoring` | the metric registry, endpoint probes | `MCMarket` |
| `EventCursor` | the chain's log, `scan`, the shared cursor | `MCBooks` |
| `PoolWatch` | `watchPool` | extends `EventCursor`: the same ledgers and events |
| `Books` | reports over swap events | takes from `EventCursor` that a scan returns every event from its start (`ScanIsRun`) |
| `Valuation` | what positions are worth | `MCBooks` |
| `Caches` | pair addresses, decimals | `MCBooks` |
| `BatchRequest` | `batchRequest` | `MCBooks` |
| `Sublist` | what `Array.filter` and `Map.delete` leave of a sequence, without recursion | `Alerts`, `Amm`, `Monitoring`, `EventCursor`, `Books`, `Valuation` |
| `Sums` | what a loop that adds up amounts returns, as a recursive function | `Books`, `Valuation` |
| `MC*` | instances for TLC | extend what they check |
| `*Proofs` | theorems | extend the module they are named after; `TxSubmissionProofs` extends `Resubmission`, `MarketProofs` extends `MCMarket`, `BooksProofs` extends `MCBooks` |

An action is one stretch of code between two awaits, with everything that stretch
changes. Definitions called `X_Something` next to a definition `X` are mutants:
plausible bugs used to show that a property can fail. Variables and record fields
commented "(history)" exist for the properties only and never appear in a guard of
the code.

Choices worth knowing:

- **Submission.** A request takes effect when the server answers; an envelope is
  on the `wire` until the network receives or loses it, so a send that timed out
  can arrive later. One account per network; `ForeignTransaction` is another
  program using it. With several endpoints a rotation also drops the cached
  poller (`client.ts` `server` setter); each network has one endpoint here.
- **Resubmission.** `Landed` is what the contract would answer. `getStakedBalance`
  answers zero when its simulation fails: `ContractReadFails`.
- **Clock readings** of the limiter, breakers and deadlines are kept as time elapsed
  or time left, so states are finite. The modules that store timestamps (`Oracle`,
  `Alerts`, `Monitoring`, `Caches`) have a clock that stops at a bound.
- **Webhooks.** `updateWebhook` replaces the stored record by a copy: `version`
  names the copy in the map, `held` the one a handshake read before its await.
  Ids are never reused and webhooks share nothing, so one suffices. A `sendWebhook`
  for an unsubscribed event returns without a trace and is no step.
- **Webhook endpoints.** A retry is a nested call, so a frame awaits it inside its
  `try` block (after an answer that is not 2xx) or its `catch` block (after an
  error). An exception of the retry is caught by the innermost frame still in its
  `try`; that frame marks the delivery failed again and sleeps again.
- **Amm.** Three tokens and their three pools; the two pools of the indirect route
  start filled, the direct one filled or empty. The contract in the repository has `mint_with_one_token`;
  swap, deposit, withdraw and flash loan of the deployed contract are external and
  move the pool by `pair-math.ts`. Constants `BPS`, `Fee` and so on are reduced, so
  rounding is coarser than in the code and shows with small numbers.
- **Alerts.** A loop over a `Map` visits entries added during the loop; `sweep.left`
  and `eval` keep that order.
- **Books and Valuation** are mostly operators: the same events, or the same pools,
  through each module's own decoder, window and rounding, compared with one another.

`MCMarket` and `MCBooks` each put several modules into one state: these modules
share only the chain, so a behaviour chooses one of them in `Init` (`focus`,
`subject`) and the others stand still. Nothing is lost, since none of them reads a
variable of another; what is composed with shared state is composed for real
(`Resubmission` over `TxSubmission`, `PoolWatch` over `EventCursor`, quotes, swaps,
liquidity and loans over one set of pools in `Amm`).

## 3. Runs

| Run | Bounds | Shows |
|---|---|---|
| `tx` | 2 submissions, 2 networks, 3 signer kinds, 2 dispatches per RPC, one included transaction per network, `setNetwork` between submissions | `FreshAfterConclusive`, `VerdictsAreTrue`, `LandsWhereBuilt`, `EverySubmissionSettles` |
| `resubmit` | all 7 loops, one resubmission each, 2 dispatches per RPC | `RepeatedOnlyIfAlive`, `OkMeansApplied`, `OperationEnds` |
| `limiter` | 2 callers, rate 2 per second of 6 units, burst 2, 2 `tryAcquire` grants, timers as late as `MaxIdle` | `NoLostWakeup`, `RateBound`, `WakeupGrants`, `EveryWaiterServed` |
| `fallback` | 2 calls, 2 endpoints, 1 retry, thresholds 2, limiter and deadline | `NoStuckProbe`, `OpenIffTripped`, `UndisturbedCallServed` |
| `poller` | attempt limits 0, 1 and 4 (above the limit of consecutive errors) | `ImplementsContract`, `EveryPollEnds` |
| `webhooks` | 3 deliveries with a retry each, 2 handshakes, 2 updates, threshold 2 | `VerifiedIsEarned`, `AutoDisableEarned`, `ManualHolds` |
| `webhook_delivery` | a delivery, 2 manual retries, 2 automatic retries each | `NotSentOnceAcked`, `HealthAccurate`, `DeletedStaysDeleted`, `OutcomeIsTrue`, `EveryCallEnds` |
| `market` | amounts 2 and 5 in pools up to 12, 2 moves of others; 2 oracle readers over 4 seconds, window 2; 2 orders, 2 calls; one route with 2 attempts per leg; 2 requests with a resubmission; 2 alerts or 1 rule over 5 time steps; 2 collectors, 2 endpoints | `UnmovedPoolPays`, `GuardedNearFeed`, `NoDilution`, `TwapOfItsWindow`, `WindowKept`, `ReportedIsDone`, `LegsMadeOnce`, `NoRepeatedAlert`, `MeasurementsSound` |
| `books` | 2 scans and 2 polls over 3 ledgers of up to 3 events, pages of 2; 5 kinds of swap, up to 3 of them over 4 ledgers, 2 users; 3 pairs, 4 pool states, 2 owners; 2 overlapping lookups, capacity 2, 4 tokens; 4 tasks, 2 workers | `ScanIsRun`, `NoEventMissed`, `ReportsAddUp`, `TaxBooksBalance`, `ViewsAgree`, `CachesSound`, `BatchComplete` |

Two of each actor is where the interleavings start; the bounds on attempts let
each loop take its first pass, a repeat and its last pass; thresholds of 2 let a
counter be neither empty nor full. Three deliveries are what it takes to fail,
succeed and fail again. Pages of 2 with up to 3 events in a ledger let a page end
inside a ledger; an LRU of 2 with 4 tokens evicts; a hard cap of 3 observations over
5 instants cuts. The proofs of section 4 remove the bounds for the properties they
cover. Symmetry is used in `webhooks` only, over calls of one kind; that run checks
no liveness. Deadlock is checked where the system cannot rest (`limiter`,
`fallback`) and switched off where the application may have made its last call.

Properties that are conjunctions say what belongs together: `UnmovedPoolPays` is
`UnmovedQuoteExecutes`, `UnmovedPositionIsPaid` and `AlarmMeansDrained`;
`ReportedIsDone` is `CancelReportIsTrue` (orders) and `ReturnedMeansDone` (staking,
governance); `NoRepeatedAlert`, `MeasurementsSound`, `NoEventMissed`, `ReportsAddUp`,
`TaxBooksBalance`, `ViewsAgree` and `CachesSound` name their parts in their modules.

**Fairness.** Only the code's own continuations are fair: an RPC is answered or
times out, a signer answers or rejects, `setTimeout` fires, `fetch` ends
(`AbortSignal.timeout`). Applications, foreign accounts, inclusion and message
arrival are never assumed to act. `RateLimiter` adds that time passes. A signer
that never answers would block the queue for ever: the code has no timeout there,
and `EverySubmissionSettles` assumes it answers. `market` and `books` check safety
only and assume no fairness.

**Disagreements between the code and its documentation** (runs expected to be
violated, one property each, quoted in `PROJECT.json`):

- `tx_poller`: `setNetwork` keeps the poller of the previous network, so a
  transaction the new network included is reported `TX_NOT_CONFIRMED`.
- `resubmit_swap`: `NOT_FOUND` is also the answer for a transaction that is still
  waiting; the swap is resubmitted and can execute twice.
- `resubmit_stake`: a failed balance read counts as zero, so a stake that landed
  is staked again.

**Met while modelling.** The models behave as the code does; the properties are
stated so as not to claim the opposite.

Submission, transport and webhooks:

- after an inconclusive submission the next one may read the same sequence number
  (`client.ts:498`); `FreshAfterConclusive` speaks of conclusive ones;
- `setNetwork` checks the signer after it has replaced the server
  (`client.ts:430`), so a mismatch leaves a half-switched client;
- `unstake` takes a failed balance read for success (`staking.ts:386`);
- a limit order whose status query fails is reported failed although it may have
  landed (`limit-orders.ts:1081`), and a send dispatched twice may have arrived
  although the result has no hash (`limit-orders.ts:1041`);
- when the rate does not divide 1000, `_refill` advances its clock by the floor of
  the time its tokens took, and the sustained rate is exceeded without bound
  (`rate-limiter.ts:157`); `tryAcquire` passes the queue and can starve waiters, and
  `acquire` grants after `destroy` (`rate-limiter.ts:118`, `136`);
- overlapping calls move the shared round-robin position and the shared server
  (`client.ts:84`, `101`), so `UndisturbedCallServed` is stated for calls no other
  call disturbed; an open circuit ends a call although another endpoint is healthy
  (`client.ts:110`);
- a handshake under way during `updateWebhook` writes its outcome to the replaced
  record (`webhooks.ts:325`, `1079`), although `README.md:392` promises the last
  handshake's state; `disableWebhook` on an automatically disabled webhook is not
  stored as manual (`webhooks.ts:649`), and a later url change re-enables it;
- a failure of the old url that ends after a url change is counted against the new
  one (`webhooks.ts:1112`); a final 408 or 429 resets the failure counter
  (`webhooks.ts:1229`);
- an application's `retryDelivery` can leave an acknowledged delivery `failed`, and
  `clear` leaves deliveries under way `failed` for ever (`webhooks.ts:974`, `722`).

Alerts, orders, staking, bridge, monitoring:

- `evaluateAll` and `checkThresholdPriceAlerts` write back the copy they read, so an
  alert deleted, archived or paused meanwhile is back (`alerts.ts:227`, `1097`); a
  failed price read counts as zero and fires a `price_below` rule (`262`);
  overlapping `checkAlerts` calls can both report an alert, the polling loop drops
  what it finds, and a read that throws loses the alerts already marked; a crossing
  between two reads is reported only if the last read was on the other side;
- the refund a cancellation tells is that of an earlier read (`dca.ts:232`), and
  `placeLimitOrder` tells the id of the simulation;
- concurrent stakes or unstakes of one position confuse `checkLanded`
  (`staking.ts:163`, `386`): `ReturnedMeansDone` excludes them and reads that failed;
  a vote whose first transaction counted can be reported failed when its repeat is
  refused;
- the swap leg is submitted while the bridge is still "ongoing", and a route that is
  bridged can fail in its swap leg (deadline counted from the quote); a repost may
  meet a first POST that is still under way (`squid.ts:233`): `LegsMadeOnce` excepts
  exactly that case;
- a collection that ends after `deleteMetric` brings the metric back, one that ends
  after `updateMetric` reverts it (`monitoring.ts:670`).

Pools, oracle:

- an executed swap tells the quote's `amountOut`, liquidity calls tell the simulated
  amounts; both hold only of a pool that has not moved; a multi-hop exact-out swap
  spends the quoted input although less would do;
- a position is read in two awaits and may mix two states of the pool
  (`liquidity.ts`); the flash-loan configuration is read twice;
- the reserve guard fails when others withdraw liquidity during the loan;
- the hard cap on observations can cut the window (`oracle.ts:147`), and overlapping
  calls push readings out of order.

Events, reports, caches:

- a scan whose later page fails has moved the shared cursor past the pages it loses
  (`event-cursor.ts:326`, `334`); a server without cursors never gets past a ledger with more
  events than a page;
- `watchPool` skips the rest of a ledger that a full page ended inside
  (`factory.ts:360`, `369`), overlapping polls deliver events twice, and a callback
  that unwatches still gets the rest of its page;
- `getCapitalGains` never reduces `disposalQty` (`tax-reporting.ts:426`), so a sale
  from two lots is counted twice: `GainsAgree` speaks of sales from one lot; failed
  calls' events count for the treasury and not for fees; the swap history is cut to
  its limit before it is filtered by user;
- `getPortfolioPnL` prices with the pairs of the snapshot only, and a snapshot of no
  positions values all pairs;
- a read under way during `clearCache` or `setNetwork` stores the old answer
  afterwards (`factory.ts:138`), an older read overwrites a newer one;
- a task that timed out runs on, so more than `concurrency` tasks can run at once.

## 4. Proofs

All by induction on steps, for every value of the constants that satisfies the
named assumptions: `TxConstants`, `ResubmissionConstants`, `FallbackConstants`,
`LimiterConstants`, `PollerConstants`, `WebhookConstants`, `DeliveryConstants`, and
in the composed modules `BatchAssumption`, `CachesAssumption`, `CursorAssumption`,
`WatchAssumption`, `CrossChainAssumption`, `OrdersAssumption`, `GovAssumption`,
`AlertsAssumption`, `OracleAssumption`, `MonitoringAssumption`, `AmmAssumption`,
`BooksAssumption` and `ValuationAssumption`.
They say that limits, times, prices and amounts are natural numbers (positive where
the code divides by them or counts from one; the fee below `BPS`, the slippage at most
`BPS`), that identifiers are told apart, and of a pool that its first deposit locked
`MIN_LIQUIDITY`: with any supply it has both reserves, and its holders own no more. The bounds of the runs (ticks, ledgers, numbers of
calls) are constants of the theorems too: they are arbitrary there.

| Theorem | Statement | Why it holds |
|---|---|---|
| `TypeCorrect` | types; only the queue's head runs | `TInv` |
| `FreshSequence` | `FreshAfterConclusive`, with `setNetwork` at any moment | the account is read by the head of the queue, after every earlier call has settled, and an included transaction's number is spent: `HeadRuns`, `DoneIsSettled`, `NothingEarly`, `IncludedIsSpent`, `VerdictIsPolled` |
| `TrueVerdicts` | `VerdictsAreTrue` | same invariant |
| `PollerTypes`, `PollerImplements`, `AbortIsFinal` | the loop implements `PollContract`; no read after the signal | `Shape`: what the position in the loop says of the last read and the attempts left |
| `LimiterTypes`, `WakeupArmed` | bucket and clock in range; a timer exactly while somebody waits | `LInv` |
| `WakeupSuffices` | a callback serves a waiter unless `tryAcquire` took its token, at any rate | tokens and elapsed time together are worth at least the time the timer has run (`WInv`); `Delay * Rate >= Second` |
| `RateKept` | `RateBound`, assuming `Second = Rate * Period` | every grant is paid for by a token, every token by `Period` (`BInv`); the assumption is where the rounding is exact, and section 3 says why it is needed |
| `VerifiedEarned` | `VerifiedIsEarned` | a handshake that holds the stored copy began after the last url change (`HeldIsOld`) |
| `ManualDisableHolds` | `ManualHolds` | step by step |
| `AutoDisableIsEarned` | `AutoDisableEarned` | the counter is the run of counted failures at the end of the history, as far as the history reaches (`RunOfFailures`); needs `Threshold <= HistoryCapacity` |
| `LandsAtHome` | `LandsWhereBuilt`, assuming `SwitchPolicy = "idle"` (each step of a call uses the server of the moment, so `setNetwork` between two of them can part the account from the send) | the head of the queue asked, built and sends at the server of the moment, and an envelope is only where its account was read (`AtHome`) |
| `OkIsApplied`, `RepeatNeedsAlive` | `OkMeansApplied`, `RepeatedOnlyIfAlive` | `RInv`: where the loop stands and what that says of its last attempt (`LoopAt`); an attempt the loop went round was still alive or is `Dead`, neither on its way nor applied, and stays so (`AliveOrDead`) |
| `FallbackTypes`, `ProbeNeverStuck`, `BreakerOpenIffTripped`, `CallServed` | types, `NoStuckProbe`, `OpenIffTripped`, `UndisturbedCallServed` | `FInv`: a probe is a round under way (`ProbeRuns`); the endpoints an undisturbed call has seen reach back from its current one by a place per round (`SeenBehind`), so after `Size` rounds they are all (`AllBehind`) |
| `HealthIsAccurate`, `OutcomesAreTrue` | `HealthAccurate`, `OutcomeIsTrue` | `OInv`: a retry by hand marks its delivery (`ByHand`), and the status of an unmarked one follows its only call (`Course`) |
| `DeletionIsFinal`, `AckedIsNotResent` | `DeletedStaysDeleted`, `NotSentOnceAcked` | nothing exists of a delivery before its `deliver` call began (`Begun`), and acknowledged deliveries have no body (`AckedHasNoBody`) |
| `BatchIsComplete` | `BatchComplete` | `BatchInv`: `nextIndex` separates the tasks taken from the others, no two workers await the same one (`TakenOnce`), and what is settled stands in its place (`SettledRight`) |
| `CachesAreSound` | `CachesSound` | an entry expires within the time to live and the longest read of the state it was read from (`PairInv`); the list of decimals is the beginning of the list of all tokens by last use, each once (`ResolverInv`) |
| `WatchSeesAll` | `WatchLosesNothing` | `WatchInv`: what precedes the start of a poll under way is at or below `lastSeenLedger` or before the first start (`StartsCovered`), for a chain whose log is ordered and never rewritten (`ChainOK`) |
| `ScansAreRuns`, `EventsNotMissed` | `ScanIsRun`, `NoEventMissed` | `ScanInv`: between pages a scan goes on from the server's cursor, or from the ledger of its last event with exactly the events of that ledger it already has in `carriedKeys` (`Continues`), so that a page is a run that begins no later than the next event due; what precedes the shared cursor is known (`AllKnown`) |
| `ReportsAgreeOnSwaps` | `ReportsAddUp`, for any log of swaps, users, period and page limit | `BooksInv`: the revenue told so far is that of the ledgers before the next question, since a window that ends at the head of its question gets no event later; the rest holds of every log: parts of a set of events add up to it (`PickedParts`), also sender by sender (`SumOfGroups`) |
| `TaxLotsBalance` | `TaxBooksBalance`, for any log of swaps | what a lot gives and what it keeps are its cost (`TakeFromIs`), so every loop over lots (`DisposeIs`) and over rows (`Balanced`) keeps the balance; the loops of `getCostBasis` and `getCapitalGains` are followed side by side (`SameGains`), from a sale's one lot to the next |
| `ViewsOfHoldingsAgree` | `ViewsAgree`, for any pools, prices, owners and page sizes, assuming that a pool with supply has both reserves and its holders own no more than the supply | a rounded part times the supply fits the reserve times the holding (`PartFits`), so the holders' parts fit the reserve (`SharesFit`), pool by pool and then over all pools (`ListsFit`); what has been listed after some requests is the beginning of the positions up to the cursor (`PagesOK`); `EntryOK`: a snapshot nothing has happened to is what it would be if made again |
| `LegsAreMadeOnce` | `LegsMadeOnce` | `CrossInv`: what the position of `executeCrossChainSwap` says of the two POSTs and the two swap transactions |
| `CancelReports`, `CallsReturnTruth`, `ReportsAreTrue` | `CancelReportIsTrue`, `ReturnedMeansDone`, together `ReportedIsDone` | `OrdersInv`: a call that reports a cancellation has it in the record, and no two calls create the same id; `GovInv`: an attempt before the current one failed or is gone unless the request was late (`RepeatsDead`), and the balance tells an applied stake (`BalanceTells`) |
| `AlertsNeverRepeat` | `NoRepeatedAlert` | each registry by itself: the rule an evaluation holds was due when it was read (`RulesInv`), what a check found is marked as long as it exists (`V2Inv`), a threshold alert that fired is unarmed until a price on the other side was seen (`ThrInv`) |
| `WindowIsKept` | `WindowKept` | `OracleInv`, and lemmas on what pruning keeps |
| `TwapIsOfItsWindow` | `TwapOfItsWindow`, for any prices, window and cap | `TwapInv`: every observation that is kept, read or held across an await is the sum of the prices up to a second that has passed (`SoundObservation`), and pruning keeps only entries it was given; the difference of two such sums lies between the least and the greatest price times the seconds between them |
| `MeasurementsAreSound` | `MeasurementsSound` | `MetricInv`: all arrays, also the ones a replaced object still holds, are in order and not after the clock; `HealthInv`: every healthy score was taken from samples younger than their time to live |
| `IsqrtIsFloor` | `isqrt(n)` is the floor of the square root, for every `n` | the iterates fall until one is the root; none before it is below the root |
| `SharesAreNeverDiluted` | `NoDilution` | a step that mints or burns rounds for the pool, so the product of the reserves over the square of the supply does not fall (`NotDiluted`); a step that swaps or repays a loan does not lower the product (`PoolMoves`) |
| `UnmovedPoolsPay` | `UnmovedPoolPays` | `AmmInv`: as long as the pools a call has read stand still, the hops already quoted are what the contract makes of them (`LeftOK`), a finished quote is honoured (`QuoteHeld`), what is told of a position is its share (`LiqOK`), and a guard's product is not above the pool's unless liquidity was taken out (`GuardOK`) |
| `GuardedSwapsAreNearFeed` | `GuardedNearFeed` | part of `AmmInv`; the guard looked at the quote, and the contract enforces the quote's bound (`QuoteOK`) on whatever the pools have become |

The invariants of the runs are not inductive as they stand: `FreshAfterConclusive`,
for example, says nothing of states before a verdict, so the invariant has to carry
what the ledger has spent and where each call is.

Five kinds of lemma recur. `Array.filter` and `Map.delete` are modelled by `Sublist`,
whose lemmas say where each kept element stands. `FirstFrom`, the place of the first
event at or after a ledger, is a cardinality, and its lemmas (`FirstFromIs`,
`FirstFromGrows`) turn it into an index of the ordered log. The loops of the code that
are recursive functions here (`isqrt`, the accumulator `Cumulative`, the swap along a
path `Through`) are defined by `CHOOSE`: a lemma gives a function that satisfies the
recursion, and what it computes is shown by the least counterexample (`LeastNat`). The
loops over events, lots and rows are such functions too: `LoopRuns` gives the course of
any loop whose step stays in a set, `CountUp` carries what holds from each place to the
next, and `SumAdds`, `SumGrows`, `SumOnce` and `SumReverses` are what sums need. The
prices of the pools are quotients of products of variables, which the solvers do not
decide: `QuotientIs` replaces a quotient by the two inequalities that define it,
`TimesGrows` and `TimesCancels` multiply and divide an inequality, and the lemmas on
`getAmountOut`, `getAmountIn`, `computeMint`, `computeBurn` and `mint_with_one_token`
are chains of these.

Only model-checked: liveness, and everything about fairness or `ENABLED`. Every safety
invariant that a passing run checks is a theorem.

## 5. Plan

What would extend the project, in this order: `pollEvents` of
`webhooks.ts` over `EventCursor`, `watchOrder`, the router's path cache,
`swapAndCreateStopLoss`.

## 6. Not modelled

Payload formats, signatures and header contents; error wording and logging; which
error of several a failed call surfaces; the risk statistics and price feeds
(floating-point computations without state); validation and parsing of inputs, which
happen before any state changes; tests, examples, benchmarks and the unrelated
`rosedrip` stub; `order-book.ts`, which returns fixed data; `utils/health-check.ts`,
a second probe without state. `ConnectionPool.addEndpoint`, `removeEndpoint`,
`markFailed` and `markHealthy` have no caller in the SDK. The breaker inside
`idempotentResubmit` is left out of `Resubmission`; `pollEvents`, `watchOrder`, the
router's path cache and the pair metadata cache are planned or left out as section 5
says. `PROJECT.json` lists every component with its status.
