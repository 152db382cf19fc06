----------------------------- MODULE Monitoring -----------------------------
(* The metric registry of modules/monitoring.ts, and the endpoint probes of  *)
(* modules/health-check.ts.  Collecting a metric                             *)
(* awaits its value: other collections, an update, a deletion or a prune run *)
(* in between.  Instances are objects: a collection writes the one it read,  *)
(* which an update has replaced, or a deletion removed.                      *)
EXTENDS Naturals, Sequences, FiniteSets, SequencesExt, Sublist

CONSTANTS
    Collectors,    \* collect calls under way
    MaxDataPoints, \* MAX_DATA_POINTS
    PruneAfter,    \* olderThanSeconds
    Urls,          \* endpoints, in the order given
    LatencyTTL,    \* LATENCY_WINDOW_TTL_MS
    Latencies,     \* answers of a probe; none is a timeout
    MaxArrays,     \* bound on the arrays made
    EndTime        \* bound on the clock

ASSUME MonitoringAssumption ==
    /\ MaxDataPoints \in Nat \ {0} /\ PruneAfter \in Nat
    /\ Len(Urls) \in Nat \ {0} /\ DOMAIN Urls = 1..Len(Urls)
    /\ LatencyTTL \in Nat \ {0} /\ Latencies \subseteq Nat

VARIABLES
    clock,
    instances,  \* objects: the first registered metric, and its replacement
    arrays,     \* recentData arrays: the timestamps of their points
    current,    \* the instance the Map holds, 0 if deleted
    collecting, \* collect calls
    latencyOf,  \* latencyWindowCache
    probe       \* the getBestEndpoint call under way

metricVars == <<instances, arrays, current, collecting>>
healthVars == <<latencyOf, probe>>
monitoringVars == <<clock, metricVars, healthVars>>
Free == [pc |-> "idle"]
NoStats == [at |-> 0, mean |-> 0, failed |-> FALSE]

ClockTicks ==
    /\ clock < EndTime /\ clock' = clock + 1 /\ UNCHANGED <<metricVars, healthVars>>
-----------------------------------------------------------------------------
(* MonitoringModule.metrics *)

RegisterMetric ==
    /\ current = 0 /\ instances = <<>>
    /\ instances' = <<[enabled |-> TRUE, data |-> 1]>>
    /\ arrays' = << <<>> >> /\ current' = 1
    /\ UNCHANGED collecting

\* updateMetric spreads the instance: the new object shares its array.
UpdateMetric(on) ==
    /\ current # 0 /\ Len(instances) < 2
    /\ instances' = Append(instances, [instances[current] EXCEPT !.enabled = on])
    /\ current' = Len(instances')
    /\ UNCHANGED <<arrays, collecting>>

DeleteMetric ==
    /\ current # 0 /\ current' = 0
    /\ UNCHANGED <<instances, arrays, collecting>>

Collect(c) ==
    /\ collecting[c].pc = "idle" /\ current # 0 /\ instances[current].enabled
    /\ collecting' = [collecting EXCEPT ![c] = [pc |-> "await", on |-> current, began |-> clock]]
    /\ UNCHANGED <<instances, arrays, current>>

\* Mutant: the point carries the time the fetch began.
Stamp_WhenAsked(c) == collecting[c].began

Stamp(c) == clock

\* The value, and whether it breaches the bound, are left out.  Over the limit, a
\* slice becomes the instance's own array.
Collected(c) ==
    LET i == collecting[c].on
        d == instances[i].data
        pushed == Append(arrays[d], Stamp(c))
        over == Len(pushed) > MaxDataPoints
        sliced == Append([arrays EXCEPT ![d] = pushed],
                         SubSeq(pushed, Len(pushed) - MaxDataPoints + 1, Len(pushed))) IN
    /\ collecting[c].pc = "await" /\ Len(arrays) < MaxArrays
    /\ arrays' = IF over THEN sliced ELSE [arrays EXCEPT ![d] = pushed]
    /\ instances' = [instances EXCEPT ![i].data = IF over THEN Len(sliced) ELSE d]
    /\ current' = i
    /\ collecting' = [collecting EXCEPT ![c] = Free]

FetchThrows(c) ==
    /\ collecting[c].pc = "await" /\ collecting' = [collecting EXCEPT ![c] = Free]
    /\ UNCHANGED <<instances, arrays, current>>

Prune ==
    LET points == arrays[instances[current].data]
        kept == Sublist(points, {k \in DOMAIN points : points[k] + PruneAfter >= clock}) IN
    /\ current # 0 /\ Len(arrays) < MaxArrays
    /\ kept # points
    /\ arrays' = Append(arrays, kept)
    /\ instances' = [instances EXCEPT ![current].data = Len(arrays')]
    /\ UNCHANGED <<current, collecting>>

MetricNext ==
    \/ RegisterMetric \/ DeleteMetric \/ Prune
    \/ \E on \in BOOLEAN : UpdateMetric(on)
    \/ \E c \in Collectors : Collect(c) \/ FetchThrows(c) \/ Collected(c)
-----------------------------------------------------------------------------
(* getBestEndpoint: each endpoint in turn, a health probe and then samples, *)
(* unless a window of samples is still cached.                              *)

StartBest ==
    /\ probe.pc = "idle"
    /\ probe' = [pc |-> "health", url |-> 1, scores |-> <<>>]
    /\ UNCHANGED latencyOf

Scored(s) ==
    IF probe.url = Len(Urls) THEN [pc |-> "chosen", scores |-> Append(probe.scores, s)]
    ELSE [pc |-> "health", url |-> probe.url + 1, scores |-> Append(probe.scores, s)]
NotHealthy == [healthy |-> FALSE, score |-> 0, sampled |-> 0, used |-> 0]

\* No answer within the timeout, or an answer that says so.
Unhealthy ==
    /\ probe.pc = "health" /\ probe' = Scored(NotHealthy) /\ UNCHANGED latencyOf

Score(mean, failed, latency) == IF failed THEN latency * 11 ELSE mean

EvictStale == {u \in DOMAIN latencyOf :
                 latencyOf[u] # NoStats /\ clock - latencyOf[u].at >= LatencyTTL}

Healthy(latency) ==
    LET swept == [u \in DOMAIN latencyOf |-> IF u \in EvictStale THEN NoStats ELSE latencyOf[u]]
        hit == swept[probe.url] IN
    /\ probe.pc = "health"
    /\ latencyOf' = swept
    /\ probe' = IF hit = NoStats
                THEN [pc |-> "samples", url |-> probe.url, scores |-> probe.scores, latency |-> latency]
                ELSE Scored([healthy |-> TRUE, sampled |-> hit.at, used |-> clock,
                             score |-> Score(hit.mean, hit.failed, latency)])

\* The window is stored, an entirely failed one too.
Sampled(mean, failed) ==
    /\ probe.pc = "samples"
    /\ latencyOf' = [latencyOf EXCEPT ![probe.url] = [at |-> clock, mean |-> mean, failed |-> failed]]
    /\ probe' = Scored([healthy |-> TRUE, sampled |-> clock, used |-> clock,
                        score |-> Score(mean, failed, probe.latency)])

BestOf(scores) ==
    LET up == {u \in DOMAIN scores : scores[u].healthy} IN
    IF up = {} THEN 0
    ELSE CHOOSE u \in up : \A w \in up : scores[u].score < scores[w].score
                                         \/ (scores[u].score = scores[w].score /\ u <= w)

BestReturned == probe.pc = "chosen" /\ probe' = Free /\ UNCHANGED latencyOf

HealthNext ==
    \/ StartBest \/ Unhealthy \/ BestReturned
    \/ \E l \in Latencies : Healthy(l)
    \/ \E l \in Latencies, failed \in BOOLEAN : Sampled(l, failed)
-----------------------------------------------------------------------------
MonitoringInit ==
    /\ clock = 1 /\ instances = <<>> /\ arrays = <<>> /\ current = 0
    /\ collecting = [c \in Collectors |-> Free]
    /\ latencyOf = [u \in DOMAIN Urls |-> NoStats] /\ probe = Free

MonitoringNext ==
    \/ ClockTicks
    \/ MetricNext /\ UNCHANGED <<clock, healthVars>>
    \/ HealthNext /\ UNCHANGED <<clock, metricVars>>
MonitoringSpec == MonitoringInit /\ [][MonitoringNext]_monitoringVars
-----------------------------------------------------------------------------
(* The points of a metric are in the order of their timestamps, although    *)
(* collections overlap, updateMetric makes objects that share an array, and *)
(* collect and prune replace it (monitoring.ts:636-713).                    *)
PointsInOrder ==
    \A i \in DOMAIN instances :
        LET d == arrays[instances[i].data] IN
        \A k \in 1..(Len(d) - 1) : d[k] <= d[k + 1]

(* The endpoint getBestEndpoint answers was healthy in that call, and no    *)
(* healthy one scores better on samples still within their time to live     *)
(* when they were used (health-check.ts:70-79, 284-355, 559-602).           *)
BestOnFreshSamples ==
    probe.pc = "chosen" =>
        LET b == BestOf(probe.scores) IN
        /\ b # 0 => probe.scores[b].healthy
        /\ \A u \in DOMAIN probe.scores :
              probe.scores[u].healthy => probe.scores[u].used - probe.scores[u].sampled < LatencyTTL

(* What monitoring shows and chooses rests on measurements in their order   *)
(* and within their time to live.                                           *)
MeasurementsSound == PointsInOrder /\ BestOnFreshSamples
=============================================================================
