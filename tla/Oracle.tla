------------------------------- MODULE Oracle -------------------------------
(* modules/oracle.ts: time-weighted prices from the cumulative prices of a   *)
(* pair.  The pair's accumulator is external.  observe() and getTWAP() await *)
(* the accumulator, and getTWAP() the token names as well; calls overlap and *)
(* an early read may be pushed after a later one.                            *)
EXTENDS Naturals, Sequences, SequencesExt

CONSTANTS
    Readers,         \* getTWAP and observe calls
    SpotPrices,      \* prices a pair can have
    MinWindow,       \* MIN_TWAP_WINDOW_SECONDS
    MaxObservations, \* MAX_OBSERVATIONS
    LastTime         \* bound on the pair's clock

ASSUME OracleAssumption ==
    MinWindow \in Nat /\ MaxObservations \in Nat \ {0} /\ SpotPrices \subseteq Nat

VARIABLES
    spot,        \* spot[t]: price of the pair during second t (external, history)
    obs,         \* observationCache of the pair
    reader       \* the calls under way

oracleVars == <<spot, obs, reader>>
time == Len(spot)
AtRest == [pc |-> "idle"]

\* get_cumulative_prices: the sum of the price over the seconds so far.
Cumulative(t) ==
    LET sum[n \in 0..time] == IF n = 0 THEN 0 ELSE sum[n - 1] + spot[n] IN sum[t]
Observation == [cumulative |-> Cumulative(time), at |-> time]

SecondPasses(p) ==
    /\ time < LastTime /\ spot' = Append(spot, p)
    /\ UNCHANGED <<obs, reader>>

\* The pair answers; the push happens when the answer is handled.
ReadAccumulator(c, twap) ==
    /\ reader[c].pc = "idle"
    /\ reader' = [reader EXCEPT ![c] = [pc |-> "answer", twap |-> twap, read |-> Observation]]
    /\ UNCHANGED <<spot, obs>>

ReadFails(c) ==
    /\ reader[c].pc \in {"answer", "tokens"} /\ reader' = [reader EXCEPT ![c] = AtRest]
    /\ UNCHANGED <<spot, obs>>

\* Mutant: the front entry itself decides whether it is dropped.
Pruned_SpansFront(s) ==
    LET newest == Last(s).at
        Spans(k) == newest >= s[k - 1].at + MinWindow
        keep == CHOOSE k \in DOMAIN s : /\ \A j \in 2..k : Spans(j)
                                        /\ k = Len(s) \/ ~Spans(k + 1)
        covered == SubSeq(s, keep, Len(s)) IN
    IF Len(covered) > MaxObservations
    THEN SubSeq(covered, Len(covered) - MaxObservations + 1, Len(covered)) ELSE covered

\* Pass 1 drops from the front while what is left spans the window, pass 2
\* bounds the length.  An entry read before the front one spans nothing.
Pruned(s) ==
    LET newest == Last(s).at
        Spans(k) == newest >= s[k].at + MinWindow
        keep == CHOOSE k \in DOMAIN s : /\ \A j \in 2..k : Spans(j)
                                        /\ k = Len(s) \/ ~Spans(k + 1)
        covered == SubSeq(s, keep, Len(s)) IN
    IF Len(covered) > MaxObservations
    THEN SubSeq(covered, Len(covered) - MaxObservations + 1, Len(covered)) ELSE covered

\* getTWAP picks its two observations at once, and awaits the token names.
Observe(c) ==
    LET s == Pruned(Append(obs, reader[c].read))
        first == s[1]
        end == Last(s)
        wide == Len(s) >= 2 /\ end.at > first.at /\ end.at - first.at >= MinWindow IN
    /\ reader[c].pc = "answer"
    /\ obs' = s
    /\ reader' = [reader EXCEPT ![c] =
                    IF reader[c].twap /\ wide
                    THEN [pc |-> "tokens", start |-> first, end |-> end] ELSE AtRest]
    /\ UNCHANGED spot

computeTWAP(start, end) == (end.cumulative - start.cumulative) \div (end.at - start.at)

\* Mutant: the newest observation is read again after the await.
Answer_RereadsNewest(c) ==
    LET k == reader[c] IN
    /\ k.pc = "tokens"
    /\ reader' = [reader EXCEPT ![c] =
                    [pc |-> "result", from |-> k.start.at, to |-> k.end.at,
                     twap |-> IF obs = <<>> THEN 0
                              ELSE (Last(obs).cumulative - k.start.cumulative)
                                     \div (k.end.at - k.start.at)]]
    /\ UNCHANGED <<spot, obs>>

Answer(c) ==
    LET k == reader[c] IN
    /\ k.pc = "tokens"
    /\ reader' = [reader EXCEPT ![c] =
                    [pc |-> "result", from |-> k.start.at, to |-> k.end.at,
                     twap |-> computeTWAP(k.start, k.end)]]
    /\ UNCHANGED <<spot, obs>>

Return(c) ==
    /\ reader[c].pc = "result" /\ reader' = [reader EXCEPT ![c] = AtRest]
    /\ UNCHANGED <<spot, obs>>

ClearCache == obs # <<>> /\ obs' = <<>> /\ UNCHANGED <<spot, reader>>

OracleInit == spot = <<>> /\ obs = <<>> /\ reader = [c \in Readers |-> AtRest]
OracleNext ==
    \/ \E p \in SpotPrices : SecondPasses(p)
    \/ \E c \in Readers, twap \in BOOLEAN : ReadAccumulator(c, twap)
    \/ \E c \in Readers : ReadFails(c) \/ Observe(c) \/ Answer(c) \/ Return(c)
    \/ ClearCache
OracleSpec == OracleInit /\ [][OracleNext]_oracleVars
-----------------------------------------------------------------------------
(* A price getTWAP answers is an average of prices the pair really had over *)
(* at least the minimum window, whatever other calls push, prune or clear   *)
(* while it waits (oracle.ts:107-270).                                      *)
TwapOfItsWindow ==
    \A c \in Readers : reader[c].pc = "result" =>
        LET r == reader[c]
            in == {spot[t] : t \in (r.from + 1)..r.to} IN
        /\ r.to >= r.from + MinWindow
        /\ \E lo \in in, hi \in in : lo <= r.twap /\ r.twap <= hi

(* Observing does not throw away the window: if the retained observations   *)
(* reach MinWindow back from a new one, they still do after pruning, as     *)
(* long as the hard cap is not what cuts them (oracle.ts:118-150).          *)
WindowKept ==
    [][\A c \in Readers :
          Observe(c) /\ Len(obs) < MaxObservations /\ obs # <<>>
            /\ reader[c].read.at >= obs[1].at + MinWindow
          => Last(obs').at >= obs'[1].at + MinWindow]_oracleVars
=============================================================================
