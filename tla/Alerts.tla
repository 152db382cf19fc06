------------------------------- MODULE Alerts -------------------------------
(* The alert registries of modules/alerts.ts.  Four maps share nothing:     *)
(*   rules    AlertsModule.rules, evaluated by evaluateAll;                 *)
(*   managed  AlertModule.rules, whose status the application drives;       *)
(*   v2       AlertModule.alertsV2, checked by checkAlerts and startPolling;*)
(*   thr      AlertModule.thresholdPriceAlerts, with hysteresis.            *)
(* A loop over a Map awaits a price inside its body, so every other method  *)
(* can run between its read of an entry and its write of that entry.  A     *)
(* price is any value the oracle or the pool answers; a read may fail.      *)
EXTENDS Naturals, Sequences, FiniteSets, FiniteSetsExt, SequencesExt, Sublist

CONSTANTS
    NumIds,      \* alerts created per map; identifiers are never reused
    NumRules,    \* of those, rules of AlertsModule
    Prices,      \* positive prices a read can answer
    Threshold,   \* config.threshold, targetPriceUSD
    Cooldown,    \* config.cooldownSeconds
    MaxTime,     \* bound on the clock
    MaxRules,    \* MAX_ALERTS_PER_USER
    MaxReports,  \* bound on the reports of one alert
    Checks       \* checkAlerts calls that can be under way

ASSUME AlertsAssumption ==
    /\ NumIds \in Nat /\ Prices \subseteq Nat \ {0} /\ Cooldown \in Nat

Ids == 1..NumIds   \* in the order of creation

VARIABLES
    now,       \* Date.now(), in units of the cooldown
    rules,     \* id -> rule, or None
    ruleOrder, \* insertion order of the Map
    eval,      \* the evaluateAll call under way
    reports,   \* (history) when evaluateAll reported each rule
    used,      \* identifiers of rules handed out
    managed,   \* id -> status, or None
    v2,        \* id -> alert, or None
    check,     \* the checkAlerts calls under way
    polling,   \* startPolling's timer is set
    found,     \* (history) ids some call has found triggered
    thr,       \* id -> threshold alert, or None
    thrOrder,  \* insertion order of the Map
    sweep,     \* the checkThresholdPriceAlerts call under way
    rearmed,   \* (history) a price on the other side was seen since the trigger
    early      \* (history) an alert triggered again before that

None == [none |-> TRUE]        \* not created yet
Deleted == [deleted |-> TRUE]
rulesVars == <<now, rules, ruleOrder, eval, reports, used>>
managedVars == <<managed>>
v2Vars == <<v2, check, polling, found>>
thrVars == <<thr, thrOrder, sweep, rearmed, early>>

Idle == [pc |-> "idle"]
\* Map.set of a key that is not present appends it, and a running iteration
\* over the map will come to it.
Inserted(order, id) == IF id \in ToSet(order) THEN order ELSE Append(order, id)
\* Map.delete of some keys: the others stay in their order.
Without(order, gone) == Sublist(order, {k \in DOMAIN order : order[k] \notin gone})
\* A loop over a Map passes over the entries that are no longer in it.
Held(map) == {i \in Ids : map[i] \notin {None, Deleted}}
-----------------------------------------------------------------------------
(* AlertsModule *)

Frequencies == {"once", "always", "interval"}
\* volume_above, gas_above and reserve_change read stubs that answer 0.
Conditions == {"price_above", "price_below", "stub"}

CreateRule(id, f, c) ==
    /\ id = Cardinality(used) + 1 /\ id <= NumRules /\ used' = used \cup {id}
    /\ Cardinality({i \in Ids : rules[i] # None}) < MaxRules
    /\ rules' = [rules EXCEPT ![id] = [status |-> "active", enabled |-> TRUE,
                    frequency |-> f, condition |-> c, lastFiredAt |-> 0, fireCount |-> 0]]
    /\ ruleOrder' = Append(ruleOrder, id)
    /\ eval' = IF eval.pc = "idle" THEN eval ELSE [eval EXCEPT !.left = Append(@, id)]
    /\ UNCHANGED <<now, reports>>

\* updateAlert: whatever changes, the status goes back to active.
UpdateRule(id, on) ==
    /\ rules[id] # None
    /\ rules' = [rules EXCEPT ![id].enabled = on, ![id].status = "active"]
    /\ UNCHANGED <<now, ruleOrder, eval, reports, used>>

\* acknowledgeAlert needs status fired; the other three need nothing.
SetRuleStatus(id, s) ==
    /\ rules[id] # None
    /\ s = "acknowledged" => rules[id].status = "fired"
    /\ rules' = [rules EXCEPT ![id].status = s]
    /\ UNCHANGED <<now, ruleOrder, eval, reports, used>>

CleanupArchived ==
    LET gone == {i \in Ids : rules[i] # None /\ rules[i].status = "archived"} IN
    /\ gone # {}
    /\ rules' = [i \in Ids |-> IF i \in gone THEN None ELSE rules[i]]
    /\ ruleOrder' = Without(ruleOrder, gone)
    /\ UNCHANGED <<now, eval, reports, used>>

Skipped(r, at) ==
    \/ r.status \in {"paused", "archived", "resolved"} \/ ~r.enabled
    \/ r.frequency = "interval" /\ r.lastFiredAt # 0 /\ at - r.lastFiredAt < Cooldown
    \/ r.frequency = "once" /\ r.fireCount > 0

\* The loop runs on to the next rule that is due and awaits its metric.
Advance(left, at, rs) ==
    LET due == {k \in DOMAIN left : left[k] \in Held(rs) /\ ~Skipped(rs[left[k]], at)} IN
    IF due = {} THEN Idle
    ELSE LET k == CHOOSE k \in due : \A j \in due : k <= j IN
         [pc |-> "await", now |-> at, id |-> left[k], inst |-> rs[left[k]],
          left |-> SubSeq(left, k + 1, Len(left))]

EvaluateAll ==
    /\ eval.pc = "idle" /\ Advance(ruleOrder, now, rules) # Idle
    /\ eval' = Advance(ruleOrder, now, rules)
    /\ UNCHANGED <<now, rules, ruleOrder, reports, used>>

\* fetchPrice answers 0 when the oracle and the pool cannot be read.
Metric(c, v) == IF c = "stub" THEN 0 ELSE v

Triggers(c, v) ==
    IF c = "price_below" THEN v <= Threshold ELSE v >= Threshold

\* Mutant: the rule is copied before it fires.
Evaluated_CopyBeforeFire(v) ==
    LET r == eval.inst
        hit == Triggers(r.condition, Metric(r.condition, v))
        left == IF rules[eval.id] = None THEN Append(eval.left, eval.id) ELSE eval.left IN
    /\ eval.pc = "await" /\ Len(reports[eval.id]) < MaxReports
    /\ rules' = [rules EXCEPT ![eval.id] =
                    IF @ = None THEN r ELSE [@ EXCEPT !.status = IF hit THEN "fired" ELSE @]]
    /\ ruleOrder' = Inserted(ruleOrder, eval.id)
    /\ reports' = IF hit THEN [reports EXCEPT ![eval.id] = Append(@, eval.now)] ELSE reports
    /\ eval' = Advance(left, eval.now, rules')
    /\ UNCHANGED <<now, used>>

\* The write replaces the entry by the instance read before the await.
Evaluated(v) ==
    LET r == eval.inst
        hit == Triggers(r.condition, Metric(r.condition, v))
        upd == IF hit THEN [r EXCEPT !.status = "fired", !.lastFiredAt = eval.now,
                                     !.fireCount = @ + 1]
                      ELSE r
        left == IF rules[eval.id] = None THEN Append(eval.left, eval.id) ELSE eval.left IN
    /\ eval.pc = "await" /\ Len(reports[eval.id]) < MaxReports
    /\ rules' = [rules EXCEPT ![eval.id] = upd]
    /\ ruleOrder' = Inserted(ruleOrder, eval.id)
    /\ reports' = IF hit THEN [reports EXCEPT ![eval.id] = Append(@, eval.now)] ELSE reports
    /\ eval' = Advance(left, eval.now, rules')
    /\ UNCHANGED <<now, used>>

Tick == now < MaxTime /\ now' = now + 1 /\ UNCHANGED <<rules, ruleOrder, eval, reports, used>>

RulesNext ==
    \/ \E id \in Ids, f \in Frequencies, c \in Conditions : CreateRule(id, f, c)
    \/ \E id \in Ids, on \in BOOLEAN : UpdateRule(id, on)
    \/ \E id \in Ids, s \in {"acknowledged", "resolved", "archived", "paused", "active"} :
          SetRuleStatus(id, s)
    \/ CleanupArchived
    \/ EvaluateAll
    \/ \E v \in Prices \cup {0} : Evaluated(v)
    \/ Tick
-----------------------------------------------------------------------------
(* AlertModule.rules: only the application moves them. *)

AllowedFrom ==
    [acknowledged |-> {"fired"},
     resolved     |-> {"fired", "acknowledged"},
     paused       |-> {"active", "fired", "acknowledged"},
     active       |-> {"paused"},
     archived     |-> {"active", "fired", "acknowledged", "resolved", "paused"}]

Manage(id, s) ==
    \/ /\ s = "active" /\ managed[id] = "none"          \* create
       /\ managed' = [managed EXCEPT ![id] = s]
    \/ /\ s \in DOMAIN AllowedFrom                      \* transitionStatus
       /\ managed[id] \in AllowedFrom[s]
       /\ managed' = [managed EXCEPT ![id] = s]
    \/ /\ s = "deleted" /\ managed[id] \notin {"none", "deleted"}
       /\ managed' = [managed EXCEPT ![id] = s]

ManagedNext == \E id \in Ids, s \in DOMAIN AllowedFrom \cup {"deleted"} : Manage(id, s)
-----------------------------------------------------------------------------
(* AlertModule.alertsV2 *)

Scale == 100       \* PRICE_SCALE, reduced
ScaleSqrt == 10    \* PRICE_SCALE_SQRT
Bps == 100         \* BPS, reduced
MaxLoss == 10      \* maxImpermanentLossBps

sqrt(n) ==
    LET newton[x \in 1..n] == LET y == (x + n \div x) \div 2 IN
                              IF y < x THEN newton[y] ELSE x
    IN  IF n = 0 THEN 0 ELSE newton[n]

computeImpermanentLossBps(ratio) ==
    LET pool == (2 * sqrt(ratio) * ScaleSqrt * Bps) \div (Scale + ratio) IN
    IF ratio = 0 \/ pool >= Bps THEN 0 ELSE Bps - pool

\* checkPriceAlert
PriceMet(direction, v) == IF direction = "above" THEN v >= Threshold ELSE v <= Threshold

\* checkILAlert
LossMet(v) == computeImpermanentLossBps((v * Scale) \div Threshold) >= MaxLoss

\* checkHealthAlert and checkVolumeAlert answer triggered = false.
NeverMet == {"health", "volume"}

\* checkStoredAlert
Met(a, v) ==
    CASE a.kind = "price" -> PriceMet(a.direction, v)
      [] a.kind = "il"    -> LossMet(v)
      [] a.kind \in NeverMet -> FALSE

CreateV2(id, k, d) ==
    /\ v2[id] = None /\ \A i \in 1..(id - 1) : v2[i] # None
    /\ v2' = [v2 EXCEPT ![id] = [kind |-> k, direction |-> d, triggeredAt |-> FALSE]]
    /\ UNCHANGED <<check, polling, found>>

DeleteV2(id) ==
    /\ v2[id] \notin {None, Deleted}
    /\ v2' = [v2 EXCEPT ![id] = Deleted]
    /\ UNCHANGED <<check, polling, found>>

StartPolling ==
    /\ ~polling /\ polling' = TRUE /\ UNCHANGED <<v2, check, found>>

StopPolling ==
    /\ polling /\ polling' = FALSE /\ UNCHANGED <<v2, check, found>>

\* checkAlerts takes the untriggered alerts once and awaits each in turn;
\* nothing stops a second call, or the next tick, from starting meanwhile.
CheckAlerts(c, by) ==
    LET todo == {i \in Ids : v2[i] \notin {None, Deleted} /\ ~v2[i].triggeredAt} IN
    /\ check[c].pc = "idle" /\ todo # {}
    /\ by = "poll" => polling
    /\ check' = [check EXCEPT ![c] = [pc |-> "await", by |-> by, todo |-> todo,
                    copy |-> [i \in todo |-> v2[i]], results |-> {}, past |-> found]]
    /\ UNCHANGED <<v2, polling, found>>

\* The record is marked in place: deleting the alert does not end its check.
AlertChecked(c, v) ==
    LET k == check[c]
        id == Min(k.todo)
        hit == Met(k.copy[id], v) IN
    /\ k.pc = "await" /\ k.todo # {}
    /\ v2' = IF hit /\ v2[id] # Deleted THEN [v2 EXCEPT ![id].triggeredAt = TRUE] ELSE v2
    /\ found' = IF hit THEN found \cup {id} ELSE found
    /\ check' = [check EXCEPT ![c].todo = @ \ {id},
                              ![c].results = IF hit THEN @ \cup {id} ELSE @]
    /\ UNCHANGED polling

\* Returned to the application, or dropped by the polling loop; a read that
\* throws (no liquidity, RPC failure) ends the call and loses its results.
CheckEnds(c) ==
    /\ check[c].pc = "await" /\ check[c].todo = {}
    /\ check' = [check EXCEPT ![c] = Idle] /\ UNCHANGED <<v2, polling, found>>

CheckThrows(c) ==
    /\ check[c].pc = "await" /\ check[c].todo # {}
    /\ check' = [check EXCEPT ![c] = Idle] /\ UNCHANGED <<v2, polling, found>>

V2Next ==
    \/ \E id \in Ids, k \in {"price", "il", "health", "volume"}, d \in {"above", "below"} :
          CreateV2(id, k, d)
    \/ \E id \in Ids : DeleteV2(id)
    \/ StartPolling \/ StopPolling
    \/ \E c \in Checks, by \in {"app", "poll"} : CheckAlerts(c, by)
    \/ \E c \in Checks, v \in Prices : AlertChecked(c, v)
    \/ \E c \in Checks : CheckEnds(c) \/ CheckThrows(c)
-----------------------------------------------------------------------------
(* AlertModule.thresholdPriceAlerts *)

Beyond(d, v) == IF d = "above" THEN v >= Threshold ELSE v <= Threshold

evaluateThresholdCondition(a, v) ==
    /\ a.hasCrossedBack
    /\ a.last # 0 => (a.direction = "above") = (a.last < Threshold)
    /\ Beyond(a.direction, v)

checkCrossBack(a, v) ==
    \/ a.last = 0
    \/ ~Beyond(a.direction, v) /\ Beyond(a.direction, a.last)

CreateThreshold(id, d) ==
    /\ thr[id] = None /\ \A i \in 1..(id - 1) : thr[i] # None
    /\ thr' = [thr EXCEPT ![id] = [direction |-> d, hasCrossedBack |-> TRUE, last |-> 0,
                                   status |-> "active"]]
    /\ thrOrder' = Append(thrOrder, id)
    /\ sweep' = IF sweep.pc = "idle" THEN sweep ELSE [sweep EXCEPT !.left = Append(@, id)]
    /\ UNCHANGED <<rearmed, early>>

DeleteThreshold(id) ==
    /\ thr[id] \notin {None, Deleted}
    /\ thr' = [thr EXCEPT ![id] = Deleted]
    /\ thrOrder' = Without(thrOrder, {id})
    /\ UNCHANGED <<sweep, rearmed, early>>

SweepFrom(left, t) ==
    LET held == {k \in DOMAIN left : left[k] \in Held(t)} IN
    IF held = {} THEN Idle
    ELSE LET k == CHOOSE k \in held : \A j \in held : k <= j IN
         [pc |-> "await", id |-> left[k], inst |-> t[left[k]],
          left |-> SubSeq(left, k + 1, Len(left))]

CheckThresholds ==
    /\ sweep.pc = "idle" /\ thrOrder # <<>>
    /\ sweep' = SweepFrom(thrOrder, thr)
    /\ UNCHANGED <<thr, thrOrder, rearmed, early>>

\* The entry becomes a copy of what was read before the await: one deleted
\* meanwhile is back, at the end of the map, and the loop comes to it again.
ThresholdChecked(v) ==
    LET a == sweep.inst
        id == sweep.id
        hit == a.status = "active" /\ evaluateThresholdCondition(a, v)
        back == checkCrossBack(a, v)
        upd == [a EXCEPT !.last = v, !.hasCrossedBack = ~hit /\ back,
                  !.status = IF hit THEN "triggered" ELSE IF back THEN "active" ELSE @]
        left == IF thr[id] = Deleted THEN Append(sweep.left, id) ELSE sweep.left IN
    /\ sweep.pc = "await"
    /\ thr' = [thr EXCEPT ![id] = upd]
    /\ thrOrder' = Inserted(thrOrder, id)
    /\ sweep' = SweepFrom(left, thr')
    /\ rearmed' = [rearmed EXCEPT ![id] =
                     IF hit THEN "no" ELSE IF Beyond(a.direction, v) THEN @ ELSE "yes"]
    /\ early' = (early \/ (hit /\ rearmed[id] = "no"))

ThresholdUnreadable ==
    /\ sweep.pc = "await" /\ sweep' = SweepFrom(sweep.left, thr)
    /\ UNCHANGED <<thr, thrOrder, rearmed, early>>

ThresholdNext ==
    \/ \E id \in Ids, d \in {"above", "below"} : CreateThreshold(id, d)
    \/ \E id \in Ids : DeleteThreshold(id)
    \/ CheckThresholds
    \/ \E v \in Prices : ThresholdChecked(v)
    \/ ThresholdUnreadable
-----------------------------------------------------------------------------
AlertsInit ==
    /\ now = 1 /\ rules = [i \in Ids |-> None] /\ ruleOrder = <<>> /\ eval = Idle
    /\ reports = [i \in Ids |-> <<>>] /\ used = {}
    /\ managed = [i \in Ids |-> "none"]
    /\ v2 = [i \in Ids |-> None] /\ check = [c \in Checks |-> Idle]
    /\ polling = FALSE /\ found = {}
    /\ thr = [i \in Ids |-> None] /\ thrOrder = <<>> /\ sweep = Idle
    /\ rearmed = [i \in Ids |-> "new"] /\ early = FALSE

AlertsNext ==
    \/ RulesNext /\ UNCHANGED <<managedVars, v2Vars, thrVars>>
    \/ ManagedNext /\ UNCHANGED <<rulesVars, v2Vars, thrVars>>
    \/ V2Next /\ UNCHANGED <<rulesVars, managedVars, thrVars>>
    \/ ThresholdNext /\ UNCHANGED <<rulesVars, managedVars, v2Vars>>

alertsVars == <<rulesVars, managedVars, v2Vars, thrVars>>
AlertsSpec == AlertsInit /\ [][AlertsNext]_alertsVars
-----------------------------------------------------------------------------
(* evaluateAll keeps its promise on frequency whatever the application does *)
(* to the rule while a metric is awaited (pause, archive, clean up,         *)
(* update): a "once" rule is reported once, reports of an "interval" rule   *)
(* are a cooldown apart, and fireCount counts the reports                   *)
(* (alerts.ts:209-236).                                                     *)
ReportsSpaced ==
    \A id \in Ids : rules[id] # None =>
        LET r == rules[id]
            at == reports[id] IN
        /\ r.fireCount = Len(at)
        /\ r.frequency = "once" => Len(at) <= 1
        /\ r.frequency = "interval" =>
              \A k \in 1..(Len(at) - 1) : at[k + 1] - at[k] >= Cooldown

(* A call of checkAlerts that began after an alert was found triggered      *)
(* does not find it again, though calls and ticks of the timer overlap      *)
(* (alerts.ts:564-578, 480-502).                                            *)
FoundOncePerOverlap ==
    \A c \in Checks : check[c].pc = "await" => check[c].results \cap check[c].past = {}

(* "prevent re-triggering until the price crosses back" (alerts.ts:976):    *)
(* between two triggers of a threshold alert a price on the other side of   *)
(* the target was observed, also when the alert is deleted and comes back.  *)
RetriggerNeedsReturn == ~early

(* No mechanism reports the same thing twice. *)
NoRepeatedAlert == ReportsSpaced /\ FoundOncePerOverlap /\ RetriggerNeedsReturn
=============================================================================
