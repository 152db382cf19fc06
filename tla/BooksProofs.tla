----------------------------- MODULE BooksProofs -----------------------------
(***************************************************************************)
(* What the SDK reads back from the chain, for any number of overlapping   *)
(* readers and any limits: batches of reads, the two caches that are       *)
(* filled across an await, the watch of a pool, the scans of events, the   *)
(* reports and tax books computed from the events, and what positions are  *)
(* worth.                                                                  *)
(***************************************************************************)
EXTENDS MCBooks, FiniteSetTheorems, WellFoundedInduction, TLAPS

-----------------------------------------------------------------------------
(* Batches. *)

Tasks == 1..NumTasks

BatchTypeOK ==
    /\ nextIndex \in 1..(NumTasks + 1)
    /\ taken \in [Workers -> 0..NumTasks]
    /\ results \in [Tasks -> {Empty, Rejection} \cup {Value(i) : i \in Tasks}]
    /\ begun \in [Tasks -> Nat]
    /\ outcome \in [Tasks -> {"runs", "fulfilled", "rejected", "late"}]

(* A worker awaits a task that was taken, and nobody else awaits it. *)
TakenOnce ==
    /\ \A w \in Workers : taken[w] < nextIndex
    /\ \A v, w \in Workers : v # w /\ taken[v] = taken[w] => taken[v] = 0

BegunOnce == \A i \in Tasks : begun[i] = (IF i < nextIndex THEN 1 ELSE 0)

Awaited(i) == \E w \in Workers : taken[w] = i

(* A task that is still to be settled for the caller was not fulfilled; one  *)
(* that is settled has its result in its place.                              *)
SettledRight ==
    \A i \in Tasks :
        IF nextIndex <= i \/ Awaited(i) THEN outcome[i] # "fulfilled"
        ELSE results[i] = IF outcome[i] = "fulfilled" THEN Value(i) ELSE Rejection

BatchInv == BatchTypeOK /\ TakenOnce /\ BegunOnce /\ SettledRight

LEMMA BatchInitInv == BatchInit => BatchInv
<1> SUFFICES ASSUME BatchInit PROVE BatchInv
  OBVIOUS
<1> USE BatchAssumption DEF BatchInit, Tasks
<1>1. BatchTypeOK
  BY DEF BatchTypeOK
<1>2. TakenOnce /\ BegunOnce
  BY DEF TakenOnce, BegunOnce
<1>3. SettledRight
  BY DEF SettledRight
<1> QED
  BY <1>1, <1>2, <1>3 DEF BatchInv

LEMMA TakeTaskInv ==
    ASSUME BatchInv, NEW w \in Workers, TakeTask(w)
    PROVE  BatchInv'
<1> USE BatchAssumption DEF BatchInv, TakeTask, Tasks
<1>1. BatchTypeOK'
  BY DEF BatchTypeOK
<1>2. TakenOnce'
  BY DEF TakenOnce, BatchTypeOK
<1>3. BegunOnce'
  BY DEF BegunOnce, BatchTypeOK
<1>4. SettledRight'
  <2> SUFFICES ASSUME NEW i \in Tasks
               PROVE  IF nextIndex' <= i \/ Awaited(i)' THEN outcome[i] # "fulfilled"
                      ELSE results[i] = IF outcome[i] = "fulfilled" THEN Value(i) ELSE Rejection
    BY DEF SettledRight
  <2>1. Awaited(i)' <=> (Awaited(i) \/ i = nextIndex)
    BY DEF Awaited, BatchTypeOK
  <2>2. nextIndex' <= i \/ Awaited(i)' <=> nextIndex <= i \/ Awaited(i)
    BY <2>1 DEF BatchTypeOK
  <2> QED
    BY <2>2 DEF SettledRight
<1> QED
  BY <1>1, <1>2, <1>3, <1>4

(* Worker w puts the result of its task in place. *)
LEMMA RecordsAs ==
    ASSUME BatchInv, NEW w \in Workers,
           NEW r, NEW o, Records(w, r), outcome' = [outcome EXCEPT ![taken[w]] = o],
           \/ r = Value(taken[w]) /\ o = "fulfilled"
           \/ r = Rejection /\ o \in {"rejected", outcome[taken[w]]}
    PROVE  BatchInv'
<1> USE BatchAssumption DEF BatchInv, Tasks
<1>2. /\ taken[w] \in Tasks
      /\ results' = [results EXCEPT ![taken[w]] = r]
      /\ taken' = [taken EXCEPT ![w] = 0]
      /\ nextIndex' = nextIndex /\ begun' = begun
  BY DEF Records, Slot, BatchTypeOK
<1>3. BatchTypeOK'
  BY <1>2 DEF BatchTypeOK
<1>4. TakenOnce' /\ BegunOnce'
  BY <1>2 DEF BatchTypeOK, TakenOnce, BegunOnce
<1>5. \A i \in Tasks : Awaited(i)' <=> Awaited(i) /\ i # taken[w]
  BY <1>2 DEF Awaited, TakenOnce, BatchTypeOK
<1>6. outcome[taken[w]] # "fulfilled"
  BY <1>2 DEF SettledRight, Awaited
<1>7. SettledRight'
  <2> SUFFICES ASSUME NEW i \in Tasks
               PROVE  IF nextIndex <= i \/ Awaited(i)' THEN outcome'[i] # "fulfilled"
                      ELSE results'[i] = IF outcome'[i] = "fulfilled" THEN Value(i) ELSE Rejection
    BY <1>2 DEF SettledRight
  <2>1. CASE i = taken[w]
    <3>1. ~(nextIndex <= i) /\ ~Awaited(i)'
      BY <1>2, <1>5, <2>1 DEF TakenOnce, BatchTypeOK
    <3>2. results'[i] = r /\ outcome'[i] = o
      BY <1>2, <2>1 DEF BatchTypeOK
    <3> QED
      BY <1>6, <2>1, <3>1, <3>2
  <2>2. CASE i # taken[w]
    BY <1>2, <1>5, <2>2 DEF SettledRight, BatchTypeOK
  <2> QED
    BY <2>1, <2>2
<1> QED
  BY <1>3, <1>4, <1>7

LEMMA RecordsInv ==
    ASSUME BatchInv, NEW w \in Workers,
           Fulfilled(w) \/ Rejected(w) \/ TaskTimesOut(w)
    PROVE  BatchInv'
<1>1. CASE Fulfilled(w)
  BY <1>1, RecordsAs DEF Fulfilled
<1>2. CASE Rejected(w)
  BY <1>2, RecordsAs DEF Rejected
<1>3. CASE TaskTimesOut(w)
  <2>1. outcome' = [outcome EXCEPT ![taken[w]] = outcome[taken[w]]]
    BY <1>3 DEF TaskTimesOut, BatchInv, BatchTypeOK
  <2> QED
    BY <1>3, <2>1, RecordsAs DEF TaskTimesOut
<1> QED
  BY <1>1, <1>2, <1>3

LEMMA BatchNextInv ==
    ASSUME BatchInv, [BatchNext]_batchVars
    PROVE  BatchInv'
<1>1. ASSUME NEW i \in Tasks, LateEnd(i)
      PROVE  BatchInv'
  BY <1>1 DEF LateEnd, BatchInv, BatchTypeOK, TakenOnce, BegunOnce, SettledRight, Awaited
<1>2. CASE UNCHANGED batchVars
  BY <1>2 DEF batchVars, BatchInv, BatchTypeOK, TakenOnce, BegunOnce, SettledRight, Awaited
<1> QED
  BY <1>1, <1>2, TakeTaskInv, RecordsInv DEF BatchNext, Tasks

(* However the workers of batchRequest overlap, each task is started once,  *)
(* and when the batch is returned every index holds the value of its own    *)
(* task, or a rejection when the task failed or was too late.               *)
THEOREM BatchIsComplete == RecordSpec => []BatchComplete
<1>1. RecordInit => BatchInv
  BY BatchInitInv DEF RecordInit
<1>2. BatchInv /\ [RecordNext]_recordVars => BatchInv'
  <2>1. [RecordNext]_recordVars => [BatchNext]_batchVars
    BY DEF RecordNext, recordVars
  <2> QED
    BY <2>1, BatchNextInv
<1>3. BatchInv => BatchComplete
  BY BatchAssumption DEF BatchInv, BatchTypeOK, BegunOnce, SettledRight, BatchComplete,
     Returned, Awaited, Tasks
<1> QED
  BY <1>1, <1>2, <1>3, PTL DEF RecordSpec

-----------------------------------------------------------------------------
(* The cache of pair addresses. *)

PairTypeOK ==
    /\ tick \in Nat /\ deployed \in BOOLEAN
    /\ lookup \in [Lookups -> {NotAsked} \cup
                      [pc : {"read", "told"}, found : BOOLEAN, asOf : Nat]]
    /\ \/ cached = <<>>
       \/ \E e \in [found : BOOLEAN, asOf : Nat, expiresAt : Nat] : cached = <<e>>

(* A read under way is recent, and an entry expires within the time to live *)
(* of the longest read: whatever is told is then fresh.                     *)
ReadsRecent ==
    \A c \in Lookups : lookup[c].pc = "read" => tick <= lookup[c].asOf + LongestRead

EntryRecent ==
    cached # <<>> => cached[1].expiresAt <= cached[1].asOf + LongestRead + CacheTtl

PairInv == PairTypeOK /\ ReadsRecent /\ EntryRecent /\ PairAnswerFresh

LEMMA PairInitInv == CachesInit => PairInv
<1> SUFFICES ASSUME CachesInit PROVE PairInv
  OBVIOUS
<1>1. PairTypeOK /\ EntryRecent
  BY DEF CachesInit, PairTypeOK, EntryRecent
<1>2. \A c \in Lookups : lookup[c].pc = "idle"
  BY DEF CachesInit, NotAsked
<1> QED
  BY <1>1, <1>2 DEF PairInv, ReadsRecent, PairAnswerFresh

(* Call c is over with this answer, or gone. *)
LEMMA LookupInv ==
    ASSUME PairInv, NEW c \in Lookups, UNCHANGED tick,
           NEW a \in {NotAsked} \cup [pc : {"read", "told"}, found : BOOLEAN, asOf : Nat],
           lookup' = [lookup EXCEPT ![c] = a],
           a.pc = "read" => tick <= a.asOf + LongestRead,
           a.pc = "told" => tick < a.asOf + CacheTtl + LongestRead + 1
    PROVE  /\ lookup' \in [Lookups -> {NotAsked} \cup
                      [pc : {"read", "told"}, found : BOOLEAN, asOf : Nat]]
           /\ ReadsRecent' /\ PairAnswerFresh'
  BY DEF PairInv, PairTypeOK, ReadsRecent, PairAnswerFresh

LEMMA PairNextInv ==
    ASSUME PairInv, [PairCacheNext]_pairVars
    PROVE  PairInv'
<1> USE CachesAssumption DEF PairInv
<1>1. CASE TickPasses
  <2>1. PairTypeOK' /\ EntryRecent'
    BY <1>1 DEF TickPasses, PairTypeOK, EntryRecent
  <2>2. ReadsRecent' /\ PairAnswerFresh'
    BY <1>1 DEF TickPasses, PairTypeOK, ReadsRecent, PairAnswerFresh, NotAsked
  <2> QED
    BY <2>1, <2>2
<1>2. CASE PairDeployed
  BY <1>2 DEF PairDeployed, PairTypeOK, ReadsRecent, EntryRecent, PairAnswerFresh
<1>3. CASE InvalidatePair \/ ClearPairs
  BY <1>3 DEF InvalidatePair, ClearPairs, PairTypeOK, ReadsRecent, EntryRecent, PairAnswerFresh
<1>4. CASE PreLoadPairs
  <2>1. cached' = <<[found |-> TRUE, asOf |-> tick, expiresAt |-> tick + CacheTtl]>>
        /\ UNCHANGED <<tick, deployed, lookup>>
    BY <1>4 DEF PreLoadPairs, Entry
  <2> DEFINE e == [found |-> TRUE, asOf |-> tick, expiresAt |-> tick + CacheTtl]
  <2>2. e \in [found : BOOLEAN, asOf : Nat, expiresAt : Nat]
    BY DEF PairTypeOK
  <2>3. e.expiresAt <= e.asOf + LongestRead + CacheTtl
    BY DEF PairTypeOK
  <2> HIDE DEF e
  <2>4. PairTypeOK' /\ EntryRecent'
    BY <2>1, <2>2, <2>3 DEF PairTypeOK, EntryRecent, e
  <2> QED
    BY <2>1, <2>4 DEF ReadsRecent, PairAnswerFresh
<1>5. ASSUME NEW c \in Lookups, NEW bypass \in BOOLEAN, GetPairAddress(c, bypass)
      PROVE  PairInv'
  <2>1. UNCHANGED <<tick, deployed, cached>>
    BY <1>5 DEF GetPairAddress
  <2>2. CASE lookup' = [lookup EXCEPT ![c] = [pc |-> "read", found |-> deployed, asOf |-> tick]]
    <3> DEFINE a == [pc |-> "read", found |-> deployed, asOf |-> tick]
    <3>1. /\ a \in [pc : {"read", "told"}, found : BOOLEAN, asOf : Nat]
          /\ a.pc = "read" /\ tick <= a.asOf + LongestRead
      BY DEF PairTypeOK
    <3>2. lookup' = [lookup EXCEPT ![c] = a]
      BY <2>2
    <3> HIDE DEF a
    <3>3. /\ lookup' \in [Lookups -> {NotAsked} \cup
                      [pc : {"read", "told"}, found : BOOLEAN, asOf : Nat]]
          /\ ReadsRecent' /\ PairAnswerFresh'
      BY <2>1, <3>1, <3>2, LookupInv
    <3> QED
      BY <2>1, <3>3 DEF PairTypeOK, EntryRecent
  <2>3. CASE /\ cached # <<>> /\ tick < Head(cached).expiresAt
             /\ lookup' = [lookup EXCEPT ![c] = Told(Head(cached).found, Head(cached).asOf)]
    <3> DEFINE a == Told(Head(cached).found, Head(cached).asOf)
    <3>0. PICK e \in [found : BOOLEAN, asOf : Nat, expiresAt : Nat] : cached = <<e>>
      BY <2>3 DEF PairTypeOK
    <3>1. Head(cached) = e /\ cached[1] = e
      BY <3>0
    <3>2. /\ a \in [pc : {"read", "told"}, found : BOOLEAN, asOf : Nat]
          /\ a.pc = "told" /\ a.asOf = e.asOf
      BY <3>1 DEF Told
    <3>3. tick < a.asOf + CacheTtl + LongestRead + 1
      BY <2>3, <3>1, <3>2 DEF EntryRecent, PairTypeOK
    <3>4. lookup' = [lookup EXCEPT ![c] = a]
      BY <2>3
    <3> HIDE DEF a
    <3>5. /\ lookup' \in [Lookups -> {NotAsked} \cup
                      [pc : {"read", "told"}, found : BOOLEAN, asOf : Nat]]
          /\ ReadsRecent' /\ PairAnswerFresh'
      BY <2>1, <3>2, <3>3, <3>4, LookupInv
    <3> QED
      BY <2>1, <3>5 DEF PairTypeOK, EntryRecent
  <2> QED
    BY <1>5, <2>2, <2>3 DEF GetPairAddress
<1>6. ASSUME NEW c \in Lookups, PairAddressRead(c)
      PROVE  PairInv'
  <2> DEFINE a == Told(lookup[c].found, lookup[c].asOf)
  <2>1. /\ lookup[c] \in [pc : {"read", "told"}, found : BOOLEAN, asOf : Nat]
        /\ tick <= lookup[c].asOf + LongestRead
    BY <1>6 DEF PairAddressRead, PairTypeOK, ReadsRecent, NotAsked
  <2>2. /\ cached' = <<[found |-> lookup[c].found, asOf |-> lookup[c].asOf,
                        expiresAt |-> tick + CacheTtl]>>
        /\ UNCHANGED <<tick, deployed>>
        /\ lookup' = [lookup EXCEPT ![c] = a]
    BY <1>6 DEF PairAddressRead, Entry
  <2>3. /\ a \in [pc : {"read", "told"}, found : BOOLEAN, asOf : Nat]
        /\ a.pc = "told" /\ tick < a.asOf + CacheTtl + LongestRead + 1
    BY <2>1 DEF Told, PairTypeOK
  <2> HIDE DEF a
  <2>4. /\ lookup' \in [Lookups -> {NotAsked} \cup
                      [pc : {"read", "told"}, found : BOOLEAN, asOf : Nat]]
        /\ ReadsRecent' /\ PairAnswerFresh'
    BY <2>2, <2>3, LookupInv
  <2>5. PairTypeOK' /\ EntryRecent'
    BY <2>1, <2>2, <2>4 DEF PairTypeOK, EntryRecent
  <2> QED
    BY <2>4, <2>5
<1>7. ASSUME NEW c \in Lookups, PairReadFails(c)
      PROVE  PairInv'
  BY <1>7 DEF PairReadFails, PairTypeOK, ReadsRecent, EntryRecent, PairAnswerFresh, NotAsked
<1>8. CASE UNCHANGED pairVars
  BY <1>8 DEF pairVars, PairTypeOK, ReadsRecent, EntryRecent, PairAnswerFresh
<1> QED
  BY <1>1, <1>2, <1>3, <1>4, <1>5, <1>6, <1>7, <1>8 DEF PairCacheNext

-----------------------------------------------------------------------------
(* The list of token decimals. *)

Distinct(list) == \A i, j \in 1..Len(list) : list[i] = list[j] => i = j

(* The list is the beginning of all tokens used, each once. *)
ResolverInv ==
    /\ lru \in Seq(TokenKeys) /\ recent \in Seq(TokenKeys)
    /\ resolve \in [Resolves -> {NotAsked} \cup [pc : {"read"}, key : TokenKeys]]
    /\ Distinct(recent)
    /\ Len(lru) <= Capacity /\ Len(lru) <= Len(recent)
    /\ \A i \in 1..Len(lru) : lru[i] = recent[i]

LEMMA Concatenated ==
    ASSUME NEW E, NEW x \in Seq(E), NEW y \in Seq(E)
    PROVE  /\ x \o y \in Seq(E) /\ Len(x \o y) = Len(x) + Len(y)
           /\ \A j \in 1..(Len(x) + Len(y)) :
                 (x \o y)[j] = IF j <= Len(x) THEN x[j] ELSE y[j - Len(x)]
  OBVIOUS

(* What unlinking a token leaves: the others, in their order. *)
LEMMA DroppedIs ==
    ASSUME NEW list \in Seq(TokenKeys), Distinct(list), NEW k \in 1..Len(list)
    PROVE  LET d == Dropped(list, list[k]) IN
           /\ d \in Seq(TokenKeys) /\ Len(d) = Len(list) - 1
           /\ \A j \in 1..Len(d) : d[j] = IF j < k THEN list[j] ELSE list[j + 1]
           /\ Distinct(d) /\ \A j \in 1..Len(d) : d[j] # list[k]
<1> DEFINE I == {i \in 1..Len(list) : list[i] = list[k]}
<1>1. I = {k}
  BY DEF Distinct
<1>2. Min(I) = k
  BY <1>1 DEF Min
<1>3. Dropped(list, list[k]) = RemoveAt(list, k)
  BY <1>1, <1>2 DEF Dropped, RemoveFirst, SelectInSeq
<1>4. RemoveAt(list, k) = SubSeq(list, 1, k - 1) \o SubSeq(list, k + 1, Len(list))
  BY DEF RemoveAt
<1> DEFINE a == SubSeq(list, 1, k - 1)
           b == SubSeq(list, k + 1, Len(list))
<1>5. a \in Seq(TokenKeys) /\ Len(a) = k - 1 /\ \A j \in 1..(k - 1) : a[j] = list[j]
  OBVIOUS
<1>6. /\ b \in Seq(TokenKeys) /\ Len(b) = Len(list) - k
      /\ \A j \in 1..(Len(list) - k) : b[j] = list[k + j]
  OBVIOUS
<1> HIDE DEF a, b
<1>7. /\ a \o b \in Seq(TokenKeys) /\ Len(a \o b) = Len(list) - 1
      /\ \A j \in 1..(Len(list) - 1) : (a \o b)[j] = IF j < k THEN a[j] ELSE b[j - k + 1]
  <2>1. /\ a \o b \in Seq(TokenKeys) /\ Len(a \o b) = Len(a) + Len(b)
        /\ \A j \in 1..(Len(a) + Len(b)) :
              (a \o b)[j] = IF j <= Len(a) THEN a[j] ELSE b[j - Len(a)]
    BY <1>5, <1>6, Concatenated
  <2>2. Len(a) + Len(b) = Len(list) - 1
    BY <1>5, <1>6
  <2>3. \A j \in 1..(Len(list) - 1) : (j <= Len(a) <=> j < k) /\ j - Len(a) = j - k + 1
    BY <1>5
  <2> QED
    BY <2>1, <2>2, <2>3
<1>8. \A j \in 1..(Len(list) - 1) : (a \o b)[j] = IF j < k THEN list[j] ELSE list[j + 1]
  <2> SUFFICES ASSUME NEW j \in 1..(Len(list) - 1)
               PROVE  (a \o b)[j] = IF j < k THEN list[j] ELSE list[j + 1]
    OBVIOUS
  <2>1. CASE j < k
    BY <1>5, <1>7, <2>1
  <2>2. CASE ~(j < k)
    <3>1. j - k + 1 \in 1..(Len(list) - k) /\ k + (j - k + 1) = j + 1
      BY <2>2
    <3> QED
      BY <1>6, <1>7, <2>2, <3>1
  <2> QED
    BY <2>1, <2>2
<1> DEFINE d == a \o b
<1>9. Len(d) = Len(list) - 1 /\ \A j \in 1..Len(d) : d[j] = IF j < k THEN list[j] ELSE list[j + 1]
  BY <1>7, <1>8
<1> HIDE DEF d
<1>10. \A j \in 1..Len(d) : d[j] # list[k]
  BY <1>9 DEF Distinct
<1>11. Distinct(d)
  <2> SUFFICES ASSUME NEW i \in 1..Len(d), NEW j \in 1..Len(d), d[i] = d[j]
               PROVE  i = j
    BY DEF Distinct
  <2> DEFINE at(x) == IF x < k THEN x ELSE x + 1
  <2>1. at(i) \in 1..Len(list) /\ at(j) \in 1..Len(list) /\ d[i] = list[at(i)] /\ d[j] = list[at(j)]
    BY <1>9
  <2>2. at(i) = at(j)
    BY <2>1 DEF Distinct
  <2> QED
    BY <2>2
<1> QED
  BY <1>3, <1>4, <1>7, <1>9, <1>10, <1>11 DEF a, b, d

LEMMA NotDropped ==
    ASSUME NEW list, NEW key, ~Contains(list, key)
    PROVE  Dropped(list, key) = list
  BY DEF Contains, Dropped, RemoveFirst

(* Dropping a token from both lists keeps one the beginning of the other. *)
LEMMA DroppedBoth ==
    ASSUME ResolverInv, NEW k \in 1..Len(lru)
    PROVE  LET l == Dropped(lru, lru[k])
               r == Dropped(recent, lru[k]) IN
           /\ l \in Seq(TokenKeys) /\ r \in Seq(TokenKeys) /\ Distinct(r)
           /\ Len(l) = Len(lru) - 1 /\ Len(l) <= Len(r)
           /\ \A i \in 1..Len(l) : l[i] = r[i]
           /\ \A i \in 1..Len(r) : r[i] # lru[k]
<1> DEFINE l == Dropped(lru, lru[k])
           r == Dropped(recent, lru[k])
<1>1. Distinct(lru) /\ k \in 1..Len(recent) /\ lru[k] = recent[k]
  BY DEF ResolverInv, Distinct
<1>2. /\ l \in Seq(TokenKeys) /\ Len(l) = Len(lru) - 1
      /\ \A j \in 1..Len(l) : l[j] = IF j < k THEN lru[j] ELSE lru[j + 1]
  BY <1>1, DroppedIs DEF ResolverInv
<1>3. /\ r \in Seq(TokenKeys) /\ Len(r) = Len(recent) - 1
      /\ \A j \in 1..Len(r) : r[j] = IF j < k THEN recent[j] ELSE recent[j + 1]
      /\ Distinct(r) /\ \A i \in 1..Len(r) : r[i] # recent[k]
  <2>1. r = Dropped(recent, recent[k])
    BY <1>1
  <2>2. recent \in Seq(TokenKeys) /\ Distinct(recent)
    BY DEF ResolverInv
  <2> DEFINE d == Dropped(recent, recent[k])
  <2>3. k \in 1..Len(recent)
    BY <1>1
  <2>4. /\ d \in Seq(TokenKeys) /\ Len(d) = Len(recent) - 1
        /\ \A j \in 1..Len(d) : d[j] = IF j < k THEN recent[j] ELSE recent[j + 1]
        /\ Distinct(d) /\ \A j \in 1..Len(d) : d[j] # recent[k]
    BY <2>2, <2>3, DroppedIs
  <2> HIDE DEF r, d
  <2>5. r = d
    BY <2>1 DEF d
  <2> QED
    BY <2>4, <2>5
<1> HIDE DEF l, r
<1>5. \A i \in 1..Len(l) : l[i] = r[i]
  <2> SUFFICES ASSUME NEW i \in 1..Len(l) PROVE l[i] = r[i]
    OBVIOUS
  <2>1. /\ i \in 1..Len(r) /\ l[i] = (IF i < k THEN lru[i] ELSE lru[i + 1])
        /\ r[i] = IF i < k THEN recent[i] ELSE recent[i + 1]
    BY <1>2, <1>3 DEF ResolverInv
  <2>2. i \in 1..Len(lru) /\ i + 1 \in 1..Len(lru)
    BY <1>2 DEF ResolverInv
  <2> QED
    BY <2>1, <2>2 DEF ResolverInv
<1>6. Len(l) <= Len(r)
  BY <1>2, <1>3 DEF ResolverInv
<1> QED
  BY <1>1, <1>2, <1>3, <1>5, <1>6 DEF l, r

(* A token that goes to the front of both lists. *)
LEMMA InFront ==
    ASSUME NEW key \in TokenKeys, NEW l \in Seq(TokenKeys), NEW r \in Seq(TokenKeys),
           Distinct(r), \A i \in 1..Len(r) : r[i] # key,
           Len(l) < Capacity, Len(l) <= Len(r), \A i \in 1..Len(l) : l[i] = r[i],
           lru' = <<key>> \o l, recent' = <<key>> \o r,
           resolve' \in [Resolves -> {NotAsked} \cup [pc : {"read"}, key : TokenKeys]]
    PROVE  ResolverInv'
<1>1. /\ lru' \in Seq(TokenKeys) /\ Len(lru') = Len(l) + 1
      /\ \A i \in 1..Len(lru') : lru'[i] = IF i = 1 THEN key ELSE l[i - 1]
  OBVIOUS
<1>2. /\ recent' \in Seq(TokenKeys) /\ Len(recent') = Len(r) + 1
      /\ \A i \in 1..Len(recent') : recent'[i] = IF i = 1 THEN key ELSE r[i - 1]
  OBVIOUS
<1>3. Distinct(recent')
  BY <1>2, SMTT(60) DEF Distinct
<1>4. \A i \in 1..Len(lru') : lru'[i] = recent'[i]
  BY <1>1, <1>2
<1> QED
  BY <1>1, <1>2, <1>3, <1>4, CachesAssumption DEF ResolverInv

(* A token that is not in the list, once it is out of the tokens used before. *)
LEMMA UsedElsewhere ==
    ASSUME ResolverInv, NEW key \in TokenKeys, ~Contains(lru, key)
    PROVE  LET r == Dropped(recent, key) IN
           /\ r \in Seq(TokenKeys) /\ Distinct(r) /\ Len(lru) <= Len(r)
           /\ \A i \in 1..Len(lru) : lru[i] = r[i]
           /\ \A i \in 1..Len(r) : r[i] # key
<1>1. CASE ~Contains(recent, key)
  BY <1>1, NotDropped DEF ResolverInv, Contains
<1>2. CASE Contains(recent, key)
  <2> DEFINE r == Dropped(recent, key)
  <2>1. PICK k \in 1..Len(recent) : recent[k] = key
    BY <1>2 DEF Contains
  <2>2. k > Len(lru)
    BY <2>1 DEF ResolverInv, Contains
  <2>3. /\ r \in Seq(TokenKeys) /\ Len(r) = Len(recent) - 1
        /\ \A j \in 1..Len(r) : r[j] = IF j < k THEN recent[j] ELSE recent[j + 1]
        /\ Distinct(r) /\ \A i \in 1..Len(r) : r[i] # recent[k]
    BY <2>1, DroppedIs DEF ResolverInv
  <2> HIDE DEF r
  <2>5. Len(lru) <= Len(r) /\ \A i \in 1..Len(lru) : lru[i] = r[i]
    BY <2>1, <2>2, <2>3, SMTT(60) DEF ResolverInv
  <2> QED
    BY <2>1, <2>3, <2>5 DEF r
<1> QED
  BY <1>1, <1>2

LEMMA ResolverInitInv == CachesInit => ResolverInv
<1> SUFFICES ASSUME CachesInit PROVE ResolverInv
  OBVIOUS
<1> QED
  BY CachesAssumption DEF CachesInit, ResolverInv, Distinct

LEMMA ResolveInv ==
    ASSUME ResolverInv, NEW c \in Resolves, NEW key \in TokenKeys, NEW expired \in BOOLEAN,
           Resolve(c, key, expired)
    PROVE  ResolverInv'
<1>1. resolve' \in [Resolves -> {NotAsked} \cup [pc : {"read"}, key : TokenKeys]]
  BY DEF Resolve, ResolverInv
<1>2. CASE Contains(lru, key)
  <2>1. PICK k \in 1..Len(lru) : lru[k] = key
    BY <1>2 DEF Contains
  <2> DEFINE l == Dropped(lru, key)
             r == Dropped(recent, key)
  <2>2. /\ l \in Seq(TokenKeys) /\ r \in Seq(TokenKeys) /\ Distinct(r)
        /\ Len(l) = Len(lru) - 1 /\ Len(l) <= Len(r)
        /\ \A i \in 1..Len(l) : l[i] = r[i]
        /\ \A i \in 1..Len(r) : r[i] # key
    BY <2>1, DroppedBoth
  <2>3. Len(l) < Capacity
    BY <2>2, CachesAssumption DEF ResolverInv
  <2>4. CASE expired
    <3>1. lru' = l /\ recent' = r
      BY <1>2, <2>4 DEF Resolve
    <3> HIDE DEF l, r
    <3> QED
      BY <1>1, <2>2, <2>3, <3>1, CachesAssumption DEF ResolverInv
  <2>5. CASE ~expired
    <3>1. lru' = <<key>> \o l /\ recent' = <<key>> \o r
      BY <1>2, <2>5 DEF Resolve, MovedToFront
    <3> HIDE DEF l, r
    <3> QED
      BY <1>1, <2>2, <2>3, <3>1, InFront
  <2> QED
    BY <2>4, <2>5
<1>3. CASE ~Contains(lru, key)
  <2>1. lru' = lru /\ recent' = recent
    BY <1>3, NotDropped DEF Resolve
  <2> QED
    BY <1>1, <2>1 DEF ResolverInv
<1> QED
  BY <1>2, <1>3

LEMMA ResolvedInv ==
    ASSUME ResolverInv, NEW c \in Resolves, Resolved(c)
    PROVE  ResolverInv'
<1> DEFINE key == resolve[c].key
<1>1. key \in TokenKeys
  BY DEF Resolved, ResolverInv, NotAsked
<1>2. resolve' \in [Resolves -> {NotAsked} \cup [pc : {"read"}, key : TokenKeys]]
  BY DEF Resolved, ResolverInv
<1>3. lru' = Stored(key) /\ recent' = <<key>> \o Dropped(recent, key)
  BY DEF Resolved, MovedToFront
<1> HIDE DEF key
<1>4. CASE Contains(lru, key)
  <2>1. PICK k \in 1..Len(lru) : lru[k] = key
    BY <1>4 DEF Contains
  <2> DEFINE l == Dropped(lru, key)
             r == Dropped(recent, key)
  <2>2. /\ l \in Seq(TokenKeys) /\ r \in Seq(TokenKeys) /\ Distinct(r)
        /\ Len(l) = Len(lru) - 1 /\ Len(l) <= Len(r)
        /\ \A i \in 1..Len(l) : l[i] = r[i]
        /\ \A i \in 1..Len(r) : r[i] # key
    BY <2>1, DroppedBoth
  <2>3. Len(l) < Capacity
    BY <2>2, CachesAssumption DEF ResolverInv
  <2>4. lru' = <<key>> \o l
    BY <1>3, <1>4 DEF Stored, MovedToFront
  <2>5. recent' = <<key>> \o r
    BY <1>3
  <2> HIDE DEF l, r
  <2> QED
    BY <1>1, <1>2, <2>2, <2>3, <2>4, <2>5, InFront
<1>5. CASE ~Contains(lru, key)
  <2> DEFINE l == IF Len(lru) >= Capacity THEN Front(lru) ELSE lru
             r == Dropped(recent, key)
  <2>1. /\ r \in Seq(TokenKeys) /\ Distinct(r) /\ Len(lru) <= Len(r)
        /\ \A i \in 1..Len(lru) : lru[i] = r[i]
        /\ \A i \in 1..Len(r) : r[i] # key
    BY <1>1, <1>5, UsedElsewhere
  <2>2. /\ l \in Seq(TokenKeys) /\ Len(l) < Capacity /\ Len(l) <= Len(lru)
        /\ \A i \in 1..Len(l) : l[i] = lru[i]
    <3>1. CASE Len(lru) >= Capacity
      <4>1. l = SubSeq(lru, 1, Len(lru) - 1) /\ lru \in Seq(TokenKeys) /\ Len(lru) >= 1
        BY <3>1, CachesAssumption DEF Front, ResolverInv
      <4>2. /\ l \in Seq(TokenKeys) /\ Len(l) = Len(lru) - 1
            /\ \A i \in 1..Len(l) : l[i] = lru[i]
        BY <4>1
      <4> QED
        BY <4>1, <4>2, CachesAssumption DEF ResolverInv
    <3>2. CASE ~(Len(lru) >= Capacity)
      BY <3>2, CachesAssumption DEF ResolverInv
    <3> QED
      BY <3>1, <3>2
  <2>3. lru' = <<key>> \o l
    BY <1>3, <1>5 DEF Stored
  <2>4. recent' = <<key>> \o r
    BY <1>3
  <2> HIDE DEF l, r
  <2>5. Len(l) <= Len(r) /\ \A i \in 1..Len(l) : l[i] = r[i]
    BY <2>1, <2>2 DEF ResolverInv
  <2> QED
    BY <1>1, <1>2, <2>1, <2>2, <2>3, <2>4, <2>5, InFront
<1> QED
  BY <1>4, <1>5

LEMMA ResolverNextInv ==
    ASSUME ResolverInv, [ResolverNext]_resolverVars
    PROVE  ResolverInv'
<1>1. ASSUME NEW c \in Resolves, ResolveFails(c)
      PROVE  ResolverInv'
  BY <1>1 DEF ResolveFails, ResolverInv
<1>2. CASE ClearResolver
  BY <1>2, CachesAssumption DEF ClearResolver, ResolverInv, Distinct
<1>3. CASE UNCHANGED resolverVars
  BY <1>3 DEF resolverVars, ResolverInv
<1> QED
  BY <1>1, <1>2, <1>3, ResolveInv, ResolvedInv DEF ResolverNext

(* However lookups, stores and invalidations overlap, an application is never *)
(* told of a pair what the factory said longer ago than the time to live and  *)
(* one read, and the list of decimals is within its capacity and holds        *)
(* exactly the tokens used last, the latest first.                            *)
THEOREM CachesAreSound == RecordSpec => []CachesSound
<1>1. RecordInit => PairInv /\ ResolverInv
  BY PairInitInv, ResolverInitInv DEF RecordInit
<1>2. PairInv /\ ResolverInv /\ [RecordNext]_recordVars => PairInv' /\ ResolverInv'
  <2>1. [RecordNext]_recordVars => [PairCacheNext]_pairVars /\ [ResolverNext]_resolverVars
    BY DEF RecordNext, recordVars, cachesVars
  <2> QED
    BY <2>1, PairNextInv, ResolverNextInv
<1>3. PairInv /\ ResolverInv => CachesSound
  <2> SUFFICES ASSUME ResolverInv PROVE IsPrefix(lru, recent)
    BY DEF PairInv, ResolverInv, CachesSound, MostRecentKept
  <2>1. SubSeq(lru, 1, Len(lru)) = SubSeq(recent, 1, Len(lru))
    BY DEF ResolverInv
  <2> QED
    BY <2>1 DEF ResolverInv, IsPrefix
<1> QED
  BY <1>1, <1>2, <1>3, PTL DEF RecordSpec

-----------------------------------------------------------------------------
(* The watch of a pool. *)

(* A bounded set of numbers has a largest one: the one least far below the    *)
(* bound.                                                                     *)
LEMMA MaxOfBounded ==
    ASSUME NEW b \in Nat, NEW S \in SUBSET (0..b), S # {}
    PROVE  Max(S) \in S /\ \A y \in S : y <= Max(S)
<1> DEFINE T == {b - x : x \in S}
<1>1. T \subseteq Nat
  OBVIOUS
<1>2. T # {}
  <2>1. PICK x \in S : TRUE
    OBVIOUS
  <2>2. b - x \in T
    BY <2>1
  <2> QED
    BY <2>2
<1>3. PICK m \in T : \A y \in T : ~(<<y, m>> \in OpToRel(<, Nat))
  BY <1>1, <1>2, NatLessThanWellFounded, WFMin, Zenon
<1>4. \A y \in T : ~(y < m)
  BY <1>1, <1>3 DEF OpToRel
<1>5. PICK x \in S : m = b - x
  OBVIOUS
<1>6. \A y \in S : x >= y
  BY <1>4, <1>5
<1> QED
  BY <1>6 DEF Max

(* The chain's log is in the order of its ledgers. *)
ChainOK ==
    /\ tip \in Nat /\ log \in Seq(Nat)
    /\ \A i \in 1..Len(log) : 0 < log[i] /\ log[i] <= tip
    /\ \A i, j \in 1..Len(log) : i <= j => log[i] <= log[j]

LEMMA FirstFromIs ==
    ASSUME ChainOK, NEW l \in Nat
    PROVE  /\ FirstFrom(l) \in Nat \ {0} /\ FirstFrom(l) <= Len(log) + 1
           /\ \A i \in 1..Len(log) : log[i] < l <=> i < FirstFrom(l)
<1>1. DOMAIN log = 1..Len(log) /\ Len(log) \in Nat
  BY DEF ChainOK
<1>2. IsFiniteSet(1..Len(log)) /\ Before(l) \subseteq 1..Len(log)
  BY <1>1, FS_Interval DEF Before
<1>3. IsFiniteSet(Before(l)) /\ Cardinality(Before(l)) \in Nat
      /\ Cardinality(Before(l)) <= Len(log)
  <2>1. Cardinality(1..Len(log)) = Len(log)
    <3>1. Cardinality(1..Len(log)) = IF 1 > Len(log) THEN 0 ELSE Len(log) - 1 + 1
      BY <1>1, FS_Interval
    <3> QED
      BY <1>1, <3>1
  <2>2. IsFiniteSet(Before(l)) /\ Cardinality(Before(l)) <= Cardinality(1..Len(log))
    BY <1>2, FS_Subset
  <2> QED
    BY <2>1, <2>2, FS_CardinalityType
<1>4. ASSUME NEW i \in 1..Len(log), log[i] < l
      PROVE  i <= Cardinality(Before(l))
  <2>1. 1..i \subseteq Before(l)
    BY <1>1, <1>4 DEF Before, ChainOK
  <2>2. Cardinality(1..i) = i
    BY FS_Interval
  <2> QED
    BY <1>3, <2>1, <2>2, FS_Subset
<1>5. ASSUME NEW i \in 1..Len(log), ~(log[i] < l)
      PROVE  Cardinality(Before(l)) <= i - 1
  <2>1. Before(l) \subseteq 1..(i - 1)
    BY <1>1, <1>5 DEF Before, ChainOK
  <2>2. IsFiniteSet(1..(i - 1)) /\ Cardinality(1..(i - 1)) = i - 1
    BY FS_Interval
  <2> QED
    BY <2>1, <2>2, FS_Subset
<1> QED
  BY <1>1, <1>3, <1>4, <1>5 DEF FirstFrom

(* Ledgers close in order. *)
LEMMA CloseChain ==
    ASSUME ChainOK, NEW n \in Nat, tip' = tip + 1, log' = log \o [i \in 1..n |-> tip + 1]
    PROVE  /\ ChainOK'
           /\ Len(log') = Len(log) + n
           /\ \A i \in 1..Len(log') : log'[i] = IF i <= Len(log) THEN log[i] ELSE tip + 1
<1> DEFINE new == [i \in 1..n |-> tip + 1]
<1>1. new \in Seq(Nat) /\ Len(new) = n /\ \A i \in 1..n : new[i] = tip + 1
  BY DEF ChainOK
<1>2. log \in Seq(Nat) /\ log' = log \o new
  BY DEF ChainOK
<1> HIDE DEF new
<1>3. /\ log' \in Seq(Nat) /\ Len(log') = Len(log) + n
      /\ \A i \in 1..Len(log') : log'[i] = IF i <= Len(log) THEN log[i] ELSE new[i - Len(log)]
  BY <1>1, <1>2
<1>4. \A i \in 1..Len(log') : log'[i] = IF i <= Len(log) THEN log[i] ELSE tip + 1
  BY <1>1, <1>2, <1>3
<1>5. ChainOK'
  BY <1>3, <1>4 DEF ChainOK
<1> QED
  BY <1>3, <1>4, <1>5

WatchTypeOK ==
    /\ active \in BOOLEAN /\ lastSeenLedger \in Nat /\ lastSeenLedger <= tip
    /\ poll \in [Polls -> [pc : {"idle", "ledger", "events"},
                           currentLedger : Nat, startLedger : Nat]]

(* What precedes the start of a poll was seen, or precedes the first starts; *)
(* what a poll starts from and looks up to are ledgers that have closed.     *)
StartsCovered ==
    \A p \in Polls : poll[p].pc = "events" =>
        /\ poll[p].startLedger <= tip /\ poll[p].currentLedger <= tip
        /\ \A i \in 1..Len(log) :
              log[i] < poll[p].startLedger => log[i] <= lastSeenLedger \/ i \in before

NothingLost ==
    \A i \in 1..Len(log) :
        log[i] <= lastSeenLedger /\ log[i] \notin cut => i \in delivered \cup before

WatchInv == ChainOK /\ WatchTypeOK /\ StartsCovered /\ NothingLost

LEMMA NoPollIs ==
    /\ NoPoll \in [pc : {"idle", "ledger", "events"}, currentLedger : Nat, startLedger : Nat]
    /\ NoPoll.pc = "idle"
  BY DEF NoPoll

LEMMA WatchInitInv == CursorInit /\ WatchInit => WatchInv
<1> SUFFICES ASSUME CursorInit, WatchInit PROVE WatchInv
  OBVIOUS
<1>1. ChainOK
  BY DEF CursorInit, ChainOK
<1>2. WatchTypeOK
  <2>1. active \in BOOLEAN
    BY DEF WatchInit
  <2>2. poll \in [Polls -> [pc : {"idle", "ledger", "events"},
                           currentLedger : Nat, startLedger : Nat]]
    BY NoPollIs DEF WatchInit
  <2>3. lastSeenLedger \in Nat /\ lastSeenLedger <= tip
    BY DEF CursorInit, WatchInit
  <2> QED
    BY <2>1, <2>2, <2>3 DEF WatchTypeOK
<1>4. StartsCovered
  BY NoPollIs DEF WatchInit, StartsCovered
<1>3. NothingLost
  BY DEF CursorInit, NothingLost
<1> QED
  BY <1>1, <1>2, <1>3, <1>4 DEF WatchInv

LEMMA CloseWatch ==
    ASSUME WatchInv, NEW n \in 0..PerLedger, tip' = tip + 1,
           log' = log \o [i \in 1..n |-> tip + 1], UNCHANGED watchVars
    PROVE  WatchInv'
<1> USE DEF WatchInv, watchVars
<1>1. n \in Nat
  BY CursorAssumption
<1>2. /\ ChainOK'
      /\ Len(log') = Len(log) + n
      /\ \A i \in 1..Len(log') : log'[i] = IF i <= Len(log) THEN log[i] ELSE tip + 1
  BY <1>1, CloseChain
<1>3. WatchTypeOK'
  BY DEF WatchTypeOK, ChainOK
<1>4. \A i \in 1..Len(log') : log'[i] <= tip => i \in 1..Len(log) /\ log'[i] = log[i]
  BY <1>1, <1>2 DEF ChainOK
<1>5. StartsCovered'
  BY <1>2, <1>4 DEF StartsCovered, ChainOK, WatchTypeOK
<1>6. NothingLost'
  BY <1>2, <1>4 DEF NothingLost, ChainOK, WatchTypeOK
<1> QED
  BY <1>2, <1>3, <1>5, <1>6

(* A page is read: the events given are those up to the poll's ledger, and   *)
(* what the page ended before, in the last ledger it gave, is in cut.        *)
LEMMA EventsReadInv ==
    ASSUME WatchInv, NEW p \in Polls, EventsRead(p), UNCHANGED <<tip, log>>
    PROVE  WatchInv'
<1> USE DEF WatchInv
<1> DEFINE start == poll[p].startLedger
           from == FirstFrom(start)
           page == WatchPage(start)
           given == {i \in page : log[i] <= poll[p].currentLedger}
           end == Min({Len(log), from + Limit - 1})
           seen == {log[i] : i \in given} \cup {lastSeenLedger}
<1>1. start \in Nat /\ start <= tip /\ poll[p].currentLedger \in Nat /\ poll[p].currentLedger <= tip
      /\ \A i \in 1..Len(log) : log[i] < start => log[i] <= lastSeenLedger \/ i \in before
  BY DEF EventsRead, WatchTypeOK, StartsCovered
<1>2. from \in Nat \ {0} /\ \A i \in 1..Len(log) : log[i] < start <=> i < from
  BY <1>1, FirstFromIs
<1>3. end \in Nat /\ end <= Len(log) /\ end <= from + Limit - 1
      /\ (end = Len(log) \/ end = from + Limit - 1)
  BY <1>2, CursorAssumption, SMTT(60) DEF Min, ChainOK
<1>4. page = from..end
  BY DEF WatchPage
<1>5. poll' = [poll EXCEPT ![p] = NoPoll] /\ active' = active /\ before' = before
  BY DEF EventsRead
<1>6. ASSUME NEW i \in page
      PROVE  i \in 1..Len(log) /\ log[i] \in Nat /\ log[i] <= tip
  BY <1>2, <1>3, <1>4, <1>6 DEF ChainOK
<1>7. Max(seen) \in seen /\ lastSeenLedger <= Max(seen) /\ Max(seen) <= tip /\ Max(seen) \in Nat
  <2>1. seen \subseteq 0..tip /\ lastSeenLedger \in seen
    BY <1>6 DEF WatchTypeOK, ChainOK
  <2> HIDE DEF seen
  <2>2. Max(seen) \in seen /\ \A y \in seen : y <= Max(seen)
    BY <2>1, MaxOfBounded DEF ChainOK
  <2>3. Max(seen) \in 0..tip /\ tip \in Nat
    BY <2>1, <2>2 DEF ChainOK
  <2>4. lastSeenLedger <= Max(seen)
    BY <2>1, <2>2
  <2> QED
    BY <2>2, <2>3, <2>4
<1>8. CASE ~active
  <2>1. UNCHANGED <<delivered, lastSeenLedger, cut>>
    BY <1>8 DEF EventsRead
  <2>2. WatchTypeOK' /\ StartsCovered'
    BY <1>5, <2>1 DEF WatchTypeOK, StartsCovered, NoPoll
  <2> QED
    BY <1>5, <2>1, <2>2 DEF ChainOK, NothingLost
<1>9. CASE active
  <2>1. /\ delivered' = delivered \cup given
        /\ lastSeenLedger' = Max(seen)
    BY <1>9 DEF EventsRead, Seen
  <2>2. cut' = IF given = page /\ page # {} /\ Max(page) < Len(log)
                         /\ log[Max(page) + 1] = log[Max(page)]
               THEN cut \cup {log[Max(page)]} ELSE cut
    BY <1>9 DEF EventsRead
  <2>3. cut \subseteq cut'
    BY <2>2
  <2> HIDE DEF start, from, page, given, end, seen
  <2>4. WatchTypeOK'
    BY <1>5, <1>7, <2>1, NoPollIs DEF WatchTypeOK
  <2>5. StartsCovered'
    <3>1. \A q \in Polls : poll'[q].pc = "events" => poll'[q] = poll[q] /\ poll[q].pc = "events"
      BY <1>5, NoPollIs DEF WatchTypeOK
    <3>2. \A i \in 1..Len(log) : log[i] <= lastSeenLedger => log[i] <= lastSeenLedger'
      BY <1>7, <2>1 DEF ChainOK, WatchTypeOK
    <3> QED
      BY <1>5, <3>1, <3>2 DEF StartsCovered
  <2>6. NothingLost'
    <3> SUFFICES ASSUME NEW i \in 1..Len(log), log[i] <= Max(seen), log[i] \notin cut',
                        i \notin delivered', i \notin before
                 PROVE  FALSE
      BY <1>5, <2>1 DEF NothingLost
    <3>1. log[i] > lastSeenLedger
      BY <2>1, <2>3 DEF NothingLost, ChainOK, WatchTypeOK
    <3>2. PICK g \in given : Max(seen) = log[g]
      <4>1. Max(seen) # lastSeenLedger
        BY <1>7, <3>1 DEF ChainOK, WatchTypeOK
      <4>2. Max(seen) \in {log[x] : x \in given} \cup {lastSeenLedger}
        BY <1>7 DEF seen
      <4> QED
        BY <4>1, <4>2
    <3>3. g \in page /\ log[g] <= poll[p].currentLedger /\ g \in 1..Len(log)
      BY <1>6, <3>2 DEF given
    <3>4. i >= from
      BY <1>1, <1>2, <3>1 DEF ChainOK, WatchTypeOK
    <3>5. i \notin page
      <4>1. i \in page => i \in given
        BY <1>1, <3>2, <3>3 DEF given, ChainOK
      <4> QED
        BY <2>1, <4>1
    <3>6. i > end /\ end \in page /\ end \in 1..Len(log) /\ g <= end /\ end + 1 <= i
      BY <1>2, <1>3, <1>4, <3>3, <3>4, <3>5 DEF ChainOK
    <3>7. log[end] = log[i] /\ log[end + 1] = log[i] /\ log[i] = log[g]
      <4>1. end + 1 \in 1..Len(log)
        BY <3>6 DEF ChainOK
      <4>2. log[g] <= log[end] /\ log[end] <= log[end + 1] /\ log[end + 1] <= log[i]
        BY <3>3, <3>6, <4>1 DEF ChainOK
      <4>3. log[i] <= log[g] /\ log[i] \in Nat /\ log[g] \in Nat /\ log[end] \in Nat
            /\ log[end + 1] \in Nat
        BY <3>2, <3>3, <3>6, <4>1, SMTT(60) DEF ChainOK
      <4> QED
        BY <4>2, <4>3
    <3>8. Max(page) = end
      BY <1>2, <1>3, <1>4, <3>6 DEF Max
    <3>9. given = page
      <4> SUFFICES ASSUME NEW j \in page PROVE log[j] <= poll[p].currentLedger
        BY DEF given
      <4>1. j \in 1..Len(log) /\ j <= end
        BY <1>2, <1>3, <1>4, <1>6
      <4>2. log[j] <= log[end] /\ log[end] <= poll[p].currentLedger
        BY <3>3, <3>6, <3>7, <4>1 DEF ChainOK
      <4> QED
        BY <1>1, <3>6, <4>1, <4>2 DEF ChainOK
    <3>10. log[i] \in cut'
      BY <2>2, <3>3, <3>6, <3>7, <3>8, <3>9
    <3> QED
      BY <3>10
  <2> QED
    BY <2>4, <2>5, <2>6 DEF ChainOK
<1> QED
  BY <1>8, <1>9 DEF WatchTypeOK

LEMMA WatchNextInv ==
    ASSUME WatchInv, WatchNext, UNCHANGED <<tip, log>>
    PROVE  WatchInv'
<1> USE DEF WatchInv
<1>1. ChainOK'
  BY DEF ChainOK
<1>2. CASE WatchPool
  <2>1. WatchTypeOK' /\ StartsCovered'
    BY <1>2, NoPollIs DEF WatchPool, WatchTypeOK, StartsCovered, ChainOK
  <2>2. NothingLost'
    BY <1>2 DEF WatchPool, NothingLost, ChainOK, WatchTypeOK
  <2> QED
    BY <1>1, <2>1, <2>2
<1>3. CASE Unwatch
  BY <1>1, <1>3 DEF Unwatch, WatchTypeOK, StartsCovered, NothingLost
<1>4. ASSUME NEW p \in Polls, StartPoll(p)
      PROVE  WatchInv'
  BY <1>1, <1>4 DEF StartPoll, WatchTypeOK, StartsCovered, NothingLost
<1>5. ASSUME NEW p \in Polls, CurrentLedgerRead(p)
      PROVE  WatchInv'
  <2> DEFINE start == IF lastSeenLedger > 0 THEN lastSeenLedger + 1
                      ELSE IF tip > WatchWindow THEN tip - WatchWindow ELSE 0
             q == IF start > tip THEN NoPoll
                  ELSE [pc |-> "events", currentLedger |-> tip, startLedger |-> start]
  <2>1. start \in Nat
    BY WatchAssumption DEF WatchTypeOK, ChainOK
  <2>2. /\ poll' = [poll EXCEPT ![p] = q]
        /\ before' = IF lastSeenLedger = 0 THEN before \cup Before(start) ELSE before
        /\ UNCHANGED <<active, lastSeenLedger, delivered, cut>>
    BY <1>5 DEF CurrentLedgerRead
  <2>3. q \in [pc : {"idle", "ledger", "events"}, currentLedger : Nat, startLedger : Nat]
        /\ (q.pc = "events" => q.startLedger = start /\ start <= tip /\ q.currentLedger = tip)
    BY <2>1 DEF NoPoll, ChainOK
  <2>4. \A i \in 1..Len(log) : log[i] < start => log[i] <= lastSeenLedger \/ i \in before'
    <3>1. CASE lastSeenLedger = 0
      BY <2>2, <3>1 DEF Before, ChainOK
    <3>2. CASE lastSeenLedger # 0
      BY <3>2 DEF ChainOK, WatchTypeOK
    <3> QED
      BY <3>1, <3>2
  <2> HIDE DEF start, q
  <2>5. WatchTypeOK'
    BY <2>2, <2>3 DEF WatchTypeOK
  <2>6. before \subseteq before'
    BY <2>2
  <2>7. NothingLost'
    BY <2>2, <2>6 DEF NothingLost
  <2>8. StartsCovered'
    <3> SUFFICES ASSUME NEW r \in Polls, poll'[r].pc = "events"
                 PROVE  /\ poll'[r].startLedger <= tip /\ poll'[r].currentLedger <= tip
                        /\ \A i \in 1..Len(log) : log[i] < poll'[r].startLedger
                              => log[i] <= lastSeenLedger \/ i \in before'
      BY <2>2 DEF StartsCovered
    <3>1. CASE r = p
      <4>1. poll'[r] = q
        BY <2>2, <3>1 DEF WatchTypeOK
      <4> QED
        BY <2>3, <2>4, <4>1 DEF ChainOK
    <3>2. CASE r # p
      <4>1. poll'[r] = poll[r]
        BY <2>2, <3>2 DEF WatchTypeOK
      <4> QED
        BY <2>6, <4>1 DEF StartsCovered
    <3> QED
      BY <3>1, <3>2
  <2> QED
    BY <1>1, <2>5, <2>7, <2>8
<1>6. ASSUME NEW p \in Polls, PollFails(p)
      PROVE  WatchInv'
  BY <1>1, <1>6 DEF PollFails, WatchTypeOK, StartsCovered, NothingLost, NoPoll
<1> QED
  BY <1>2, <1>3, <1>4, <1>5, <1>6, EventsReadInv DEF WatchNext

(* However the polls of watchPool overlap and fail, lastSeenLedger does not    *)
(* move past an event the callback has not had, except in a ledger that a full *)
(* page ended inside and before the start the first polls chose.               *)
THEOREM WatchSeesAll == RecordSpec => []WatchLosesNothing
<1>1. RecordInit => WatchInv
  BY WatchInitInv DEF RecordInit
<1>2. WatchInv /\ [RecordNext]_recordVars => WatchInv'
  <2> SUFFICES ASSUME WatchInv, [RecordNext]_recordVars PROVE WatchInv'
    OBVIOUS
  <2>1. \/ \E n \in 0..PerLedger : CloseLedger(n) /\ UNCHANGED watchVars
        \/ WatchNext /\ UNCHANGED <<tip, log>>
        \/ UNCHANGED <<tip, log, watchVars>>
    <3>1. CASE ReaderNext
      <4>1. CASE CursorNext /\ UNCHANGED watchVars
        BY <4>1 DEF CursorNext, StartScan, Anchor, EmptyPage, Page, RequestFails, Reset
      <4> QED
        BY <3>1, <4>1 DEF ReaderNext, cursorVars
    <3>2. CASE UNCHANGED readerVars
      BY <3>2 DEF readerVars, cursorVars
    <3> QED
      BY <3>1, <3>2 DEF RecordNext, recordVars
  <2>2. CASE \E n \in 0..PerLedger : CloseLedger(n) /\ UNCHANGED watchVars
    BY <2>2, CloseWatch DEF CloseLedger
  <2>3. CASE UNCHANGED <<tip, log, watchVars>>
    BY <2>3 DEF watchVars, WatchInv, ChainOK, WatchTypeOK, StartsCovered, NothingLost
  <2> QED
    BY <2>1, <2>2, <2>3, WatchNextInv
<1>3. WatchInv => WatchLosesNothing
  BY DEF WatchInv, ChainOK, NothingLost, WatchLosesNothing
<1> QED
  BY <1>1, <1>2, <1>3, PTL DEF RecordSpec

-----------------------------------------------------------------------------
(* The event cursor. *)

(* A run of consecutive positions. *)
Run(a, n) == [k \in 1..n |-> a + k - 1]

ScanRecord ==
    [pc : {"idle", "anchor", "page", "done"}, first : Nat, startLedger : Nat, toLedger : Nat,
     opaque : BOOLEAN, currentCursor : Nat, carriedKeys : SUBSET Nat, allEvents : Seq(Nat),
     hasMore : BOOLEAN, length : Nat]

ScanTypeOK ==
    /\ cursor \in Nat /\ cursor <= tip /\ 0 < tip
    /\ scan \in [Scans -> ScanRecord]

(* The first event of a scan, and the one after the last it has collected. *)
First(r) == FirstFrom(r.first)
NextUp(r) == First(r) + Len(r.allEvents)

(* Between its pages, a scan continues after the last event it collected: at *)
(* the server's cursor, or else from the ledger of that event, whose events  *)
(* collected so far it carries and which all fit into a page.                *)
Continues(r) ==
    /\ r.startLedger <= tip
    /\ NextUp(r) <= Len(log) + 1
    /\ r.hasMore \/ (Len(r.allEvents) = 0 /\ r.length = 0)
    /\ r.currentCursor # 0 =>
          r.opaque /\ r.currentCursor = NextUp(r) - 1 /\ r.carriedKeys = {}
    /\ r.currentCursor = 0 =>
          LET from == FirstFrom(r.startLedger) IN
          /\ First(r) <= from /\ from <= NextUp(r) /\ NextUp(r) <= from + Limit
          /\ r.carriedKeys = from..(NextUp(r) - 1)

ScanOK(r) ==
    /\ r.pc \in {"page", "done"} =>
          r.first <= tip /\ r.allEvents = Run(First(r), Len(r.allEvents))
    /\ r.pc = "page" => Continues(r)
    /\ r.pc = "done" /\ ~r.hasMore => NextUp(r) > r.length
    /\ r.pc = "anchor" =>
          r.allEvents = <<>> /\ r.currentCursor = 0 /\ r.carriedKeys = {} /\ r.length = 0

(* Events that were returned or are held by a scan. *)
Known(i) == i \in accounted \/ \E s \in Scans : i \in ToSet(scan[s].allEvents)

(* What precedes the cursor, or the start of a scan, is known, and what a    *)
(* scan returned is accounted for.                                           *)
AllKnown ==
    /\ \A i \in 1..Len(log) : log[i] < cursor => Known(i)
    /\ \A s \in Scans : scan[s].pc = "page" =>
          \A i \in 1..Len(log) : log[i] < scan[s].first => Known(i)
    /\ \A s \in Scans :
         scan[s].pc \in {"idle", "done"} => ToSet(scan[s].allEvents) \subseteq accounted

ScanInv == ChainOK /\ ScanTypeOK /\ (\A s \in Scans : ScanOK(scan[s])) /\ AllKnown

LEMMA SameSequence ==
    ASSUME NEW E, NEW x \in Seq(E), NEW y \in Seq(E), Len(x) = Len(y),
           \A k \in 1..Len(y) : x[k] = y[k]
    PROVE  x = y
  OBVIOUS

LEMMA RunIs ==
    ASSUME NEW a \in Nat \ {0}, NEW n \in Nat
    PROVE  /\ Run(a, n) \in Seq(Nat) /\ Len(Run(a, n)) = n
           /\ DOMAIN Run(a, n) = 1..n
           /\ \A k \in 1..n : Run(a, n)[k] = a + k - 1
           /\ ToSet(Run(a, n)) = a..(a + n - 1)
<1>1. /\ Run(a, n) \in Seq(Nat) /\ Len(Run(a, n)) = n
      /\ DOMAIN Run(a, n) = 1..n
      /\ \A k \in 1..n : Run(a, n)[k] = a + k - 1
  BY DEF Run
<1>2. ToSet(Run(a, n)) = {a + k - 1 : k \in 1..n}
  BY <1>1 DEF ToSet
<1>3. {a + k - 1 : k \in 1..n} = a..(a + n - 1)
  <2>1. ASSUME NEW i \in a..(a + n - 1) PROVE i \in {a + k - 1 : k \in 1..n}
    <3>1. i - a + 1 \in 1..n /\ a + (i - a + 1) - 1 = i
      OBVIOUS
    <3> QED
      BY <3>1
  <2>2. a..(a + n - 1) \subseteq {a + k - 1 : k \in 1..n}
    BY <2>1, Zenon
  <2>3. {a + k - 1 : k \in 1..n} \subseteq a..(a + n - 1)
    <3>1. ASSUME NEW k \in 1..n PROVE a + k - 1 \in a..(a + n - 1)
      OBVIOUS
    <3> QED
      BY <3>1
  <2> QED
    BY <2>2, <2>3, Zenon
<1> QED
  BY <1>1, <1>2, <1>3

LEMMA RunExtended ==
    ASSUME NEW a \in Nat \ {0}, NEW n \in Nat, NEW m \in Nat,
           NEW b \in Nat, b = a + n
    PROVE  Run(a, n) \o Run(b, m) = Run(a, n + m)
<1> DEFINE x == Run(a, n)
           y == Run(b, m)
           z == Run(a, n + m)
<1>1. x \in Seq(Nat) /\ Len(x) = n /\ \A k \in 1..n : x[k] = a + k - 1
  BY RunIs
<1>2. y \in Seq(Nat) /\ Len(y) = m /\ \A k \in 1..m : y[k] = a + n + k - 1
  <2>1. b \in Nat \ {0}
    OBVIOUS
  <2>2. y \in Seq(Nat) /\ Len(y) = m /\ \A k \in 1..m : y[k] = b + k - 1
    BY <2>1, RunIs
  <2> QED
    BY <2>2
<1>3. z \in Seq(Nat) /\ Len(z) = n + m /\ \A k \in 1..(n + m) : z[k] = a + k - 1
  <2>1. n + m \in Nat
    OBVIOUS
  <2> QED
    BY <2>1, RunIs
<1> HIDE DEF x, y, z
<1>4. /\ x \o y \in Seq(Nat) /\ Len(x \o y) = Len(x) + Len(y)
      /\ \A k \in 1..(Len(x) + Len(y)) :
            (x \o y)[k] = IF k <= Len(x) THEN x[k] ELSE y[k - Len(x)]
  <2>1. x \in Seq(Nat) /\ y \in Seq(Nat)
    BY <1>1, <1>2
  <2> QED
    BY <2>1
<1>5. \A k \in 1..Len(z) : (x \o y)[k] = z[k]
  <2> SUFFICES ASSUME NEW k \in 1..Len(z) PROVE (x \o y)[k] = z[k]
    OBVIOUS
  <2>1. k \in Int /\ k \in 1..(n + m) /\ k \in 1..(Len(x) + Len(y)) /\ z[k] = a + k - 1
    BY <1>1, <1>2, <1>3
  <2>2. CASE k <= n
    <3>1. (x \o y)[k] = x[k]
      BY <1>1, <1>4, <2>1, <2>2
    <3>2. x[k] = a + k - 1
      BY <1>1, <2>1, <2>2
    <3> QED
      BY <2>1, <3>1, <3>2
  <2>3. CASE ~(k <= n)
    <3>1. (x \o y)[k] = y[k - n]
      BY <1>1, <1>4, <2>1, <2>3
    <3>2. k - n \in 1..m
      BY <2>1, <2>3
    <3>3. y[k - n] = a + n + (k - n) - 1
      BY <1>2, <3>2
    <3>4. a + n + (k - n) - 1 = a + k - 1
      BY <2>1
    <3> QED
      BY <2>1, <3>1, <3>3, <3>4
  <2> QED
    BY <2>2, <2>3
<1>6. Len(x \o y) = Len(z)
  BY <1>1, <1>2, <1>3, <1>4
<1>7. x \o y = z
  BY <1>3, <1>4, <1>5, <1>6, SameSequence
<1> QED
  BY <1>7 DEF x, y, z

(* Of a run, an interval of positions leaves a run. *)
LEMMA NthOfInterval ==
    ASSUME NEW a \in Nat, NEW b \in Nat, NEW n \in 1..(b - a)
    PROVE  Nth((a + 1)..b, n) = a + n
<1> DEFINE kept == (a + 1)..b
           upTo(k) == {j \in kept : j <= k}
<1>1. \A k \in kept : Cardinality(upTo(k)) = k - a
  <2> SUFFICES ASSUME NEW k \in kept PROVE Cardinality(upTo(k)) = k - a
    OBVIOUS
  <2>1. upTo(k) = (a + 1)..k
    OBVIOUS
  <2>2. Cardinality((a + 1)..k) = k - a
    BY FS_Interval
  <2> QED
    BY <2>1, <2>2
<1>2. Nth(kept, n) = CHOOSE k \in kept : Cardinality(upTo(k)) = n
  BY DEF Nth
<1> HIDE DEF upTo
<1>3. a + n \in kept /\ \A k \in kept : Cardinality(upTo(k)) = n <=> k = a + n
  BY <1>1
<1> QED
  BY <1>2, <1>3

LEMMA SublistOfRun ==
    ASSUME NEW c \in Nat \ {0}, NEW m \in Nat, NEW a \in Nat, a <= m
    PROVE  Sublist(Run(c, m), (a + 1)..m) = Run(c + a, m - a)
<1>1. Cardinality((a + 1)..m) = m - a
  <2> DEFINE c1 == a + 1
  <2>1. c1 \in Int /\ m \in Int
    OBVIOUS
  <2>2. Cardinality(c1..m) = IF c1 > m THEN 0 ELSE m - c1 + 1
    <3> HIDE DEF c1
    <3> QED
      BY <2>1, FS_Interval
  <2>3. (IF c1 > m THEN 0 ELSE m - c1 + 1) = m - a
    OBVIOUS
  <2> QED
    BY <2>2, <2>3
<1>2. \A n \in 1..(m - a) : Run(c, m)[Nth((a + 1)..m, n)] = c + a + n - 1
  <2> SUFFICES ASSUME NEW n \in 1..(m - a)
               PROVE  Run(c, m)[Nth((a + 1)..m, n)] = c + a + n - 1
    OBVIOUS
  <2>1. Nth((a + 1)..m, n) = a + n
    BY NthOfInterval
  <2>2. a + n \in 1..m
    OBVIOUS
  <2>3. Run(c, m)[a + n] = c + (a + n) - 1
    BY <2>2, RunIs
  <2> QED
    BY <2>1, <2>3
<1>3. Sublist(Run(c, m), (a + 1)..m) = [n \in 1..(m - a) |-> c + a + n - 1]
  BY <1>1, <1>2 DEF Sublist
<1> QED
  BY <1>3 DEF Run

LEMMA FirstFromGrows ==
    ASSUME ChainOK, NEW l \in Nat, NEW h \in Nat, l <= h
    PROVE  FirstFrom(l) <= FirstFrom(h)
<1>1. /\ FirstFrom(l) \in Nat \ {0} /\ FirstFrom(l) <= Len(log) + 1
      /\ \A i \in 1..Len(log) : log[i] < l <=> i < FirstFrom(l)
  BY FirstFromIs
<1>2. /\ FirstFrom(h) \in Nat \ {0} /\ FirstFrom(h) <= Len(log) + 1
      /\ \A i \in 1..Len(log) : log[i] < h <=> i < FirstFrom(h)
  BY FirstFromIs
<1> SUFFICES ASSUME FirstFrom(h) < FirstFrom(l) PROVE FALSE
  BY <1>1, <1>2
<1>3. FirstFrom(h) \in 1..Len(log)
  BY <1>1, <1>2 DEF ChainOK
<1> QED
  BY <1>1, <1>2, <1>3 DEF ChainOK

LEMMA SmallerOf ==
    ASSUME NEW x \in Int, NEW y \in Int
    PROVE  Min({x, y}) = IF x <= y THEN x ELSE y
<1> DEFINE m == IF x <= y THEN x ELSE y
<1>1. m \in {x, y} /\ \A k \in {x, y} : m <= k
  OBVIOUS
<1>2. \A k \in {x, y} : (\A j \in {x, y} : k <= j) => k = m
  OBVIOUS
<1> QED
  BY <1>1, <1>2 DEF Min

(* A step of one scan that leaves the chain alone keeps the invariant if it   *)
(* forgets no event.                                                          *)
LEMMA ScanMoves ==
    ASSUME ScanInv, NEW s \in Scans, NEW q \in ScanRecord, UNCHANGED <<tip, log>>,
           scan' = [scan EXCEPT ![s] = q], ScanOK(q),
           cursor' \in Nat, cursor' <= tip, accounted \subseteq accounted',
           ToSet(scan[s].allEvents) \subseteq accounted' \cup ToSet(q.allEvents),
           \A i \in 1..Len(log) : log[i] < cursor'
               => Known(i) \/ i \in accounted' \cup ToSet(q.allEvents),
           q.pc = "page" => \A i \in 1..Len(log) : log[i] < q.first
               => Known(i) \/ i \in accounted' \cup ToSet(q.allEvents),
           q.pc \in {"idle", "done"} => ToSet(q.allEvents) \subseteq accounted'
    PROVE  ScanInv'
<1> USE DEF ScanInv
<1>1. ChainOK'
  BY DEF ChainOK
<1>2. /\ scan \in [Scans -> ScanRecord] /\ scan'[s] = q
      /\ \A t \in Scans : t # s => scan'[t] = scan[t]
  BY DEF ScanTypeOK
<1>3. ScanTypeOK'
  <2>1. scan' \in [Scans -> ScanRecord]
    BY <1>2
  <2> QED
    BY <2>1 DEF ScanTypeOK
<1>4. (\A t \in Scans : ScanOK(scan[t]))'
  <2>1. \A t \in Scans : ScanOK(scan'[t])
    <3> SUFFICES ASSUME NEW t \in Scans PROVE ScanOK(scan'[t])
      OBVIOUS
    <3>1. CASE t = s
      BY <1>2, <3>1
    <3>2. CASE t # s
      <4>1. scan'[t] = scan[t]
        BY <1>2, <3>2
      <4> QED
        BY <4>1
    <3> QED
      BY <3>1, <3>2
  <2> SUFFICES ASSUME NEW t \in Scans PROVE ScanOK(scan[t])'
    OBVIOUS
  <2>2. /\ FirstFrom(scan[t].first)' = FirstFrom(scan'[t].first)
        /\ FirstFrom(scan[t].startLedger)' = FirstFrom(scan'[t].startLedger)
    BY DEF FirstFrom, Before
  <2>3. First(scan[t])' = First(scan'[t]) /\ NextUp(scan[t])' = NextUp(scan'[t])
    BY <2>2 DEF First, NextUp
  <2>4. Continues(scan'[t]) => Continues(scan[t])'
    BY <2>2, <2>3 DEF Continues
  <2> QED
    BY <2>1, <2>3, <2>4 DEF ScanOK
<1>5. \A i : i \in accounted' \cup ToSet(q.allEvents) => Known(i)'
  BY <1>2 DEF Known
<1>6. \A i : Known(i) => Known(i)'
  <2> SUFFICES ASSUME NEW i, Known(i) PROVE Known(i)'
    OBVIOUS
  <2>1. CASE i \in accounted
    BY <2>1 DEF Known
  <2>2. ASSUME NEW t \in Scans, i \in ToSet(scan[t].allEvents) PROVE Known(i)'
    <3>1. CASE t = s
      BY <1>5, <2>2, <3>1
    <3>2. CASE t # s
      <4>1. i \in ToSet(scan'[t].allEvents)
        BY <1>2, <2>2, <3>2
      <4> QED
        BY <4>1 DEF Known
    <3> QED
      BY <3>1, <3>2
  <2> QED
    BY <2>1, <2>2 DEF Known
<1>7. AllKnown'
  <2>1. \A i \in 1..Len(log) : log[i] < cursor' => Known(i)'
    BY <1>5, <1>6
  <2>2. ASSUME NEW t \in Scans, scan'[t].pc = "page"
        PROVE  \A i \in 1..Len(log) : log[i] < scan'[t].first => Known(i)'
    <3>1. CASE t = s
      <4>1. scan'[t] = q /\ q.pc = "page"
        BY <1>2, <2>2, <3>1
      <4> QED
        BY <1>5, <1>6, <4>1
    <3>2. CASE t # s
      <4>1. scan'[t] = scan[t] /\ scan[t].pc = "page"
        BY <1>2, <2>2, <3>2
      <4> QED
        BY <1>6, <4>1 DEF AllKnown
    <3> QED
      BY <3>1, <3>2
  <2>3. ASSUME NEW t \in Scans, scan'[t].pc \in {"idle", "done"}
        PROVE  ToSet(scan'[t].allEvents) \subseteq accounted'
    <3>1. CASE t = s
      BY <1>2, <2>3, <3>1
    <3>2. CASE t # s
      <4>1. scan'[t] = scan[t]
        BY <1>2, <3>2
      <4> QED
        BY <2>3, <4>1 DEF AllKnown
    <3> QED
      BY <3>1, <3>2
  <2> QED
    BY <2>1, <2>2, <2>3 DEF AllKnown
<1> QED
  BY <1>1, <1>3, <1>4, <1>7

(* Ledgers that close between two pages move no scan's first event. *)
LEMMA CloseScans ==
    ASSUME ScanInv, NEW n \in 0..PerLedger, tip' = tip + 1,
           log' = log \o [i \in 1..n |-> tip + 1], UNCHANGED <<cursor, scan, accounted>>
    PROVE  ScanInv'
<1> USE DEF ScanInv
<1>1. n \in Nat
  BY CursorAssumption
<1>2. /\ ChainOK'
      /\ Len(log') = Len(log) + n
      /\ \A i \in 1..Len(log') : log'[i] = IF i <= Len(log) THEN log[i] ELSE tip + 1
  BY <1>1, CloseChain
<1>3. \A l \in Nat :
        l <= tip => \A i \in 1..Len(log') : log'[i] < l <=> (i \in 1..Len(log) /\ log[i] < l)
  BY <1>1, <1>2 DEF ChainOK
<1>4. \A l \in Nat : l <= tip => FirstFrom(l)' = FirstFrom(l)
  <2> SUFFICES ASSUME NEW l \in Nat, l <= tip PROVE Before(l)' = Before(l)
    BY DEF FirstFrom
  <2>1. DOMAIN log = 1..Len(log) /\ DOMAIN log' = 1..Len(log') /\ 1..Len(log) \subseteq 1..Len(log')
    BY <1>1, <1>2 DEF ChainOK
  <2>2. Before(l)' = {i \in 1..Len(log') : log'[i] < l} /\ Before(l) = {i \in 1..Len(log) : log[i] < l}
    BY <2>1 DEF Before
  <2> QED
    BY <1>3, <2>1, <2>2
<1>5. ScanTypeOK'
  BY DEF ScanTypeOK, ChainOK
<1>6. (\A s \in Scans : ScanOK(scan[s]))'
  <2> SUFFICES ASSUME NEW s \in Scans PROVE ScanOK(scan[s])'
    OBVIOUS
  <2>1. /\ scan[s] \in ScanRecord /\ scan[s].first \in Nat /\ scan[s].startLedger \in Nat
        /\ scan'[s] = scan[s] /\ ScanOK(scan[s])
    BY DEF ScanTypeOK, ScanRecord
  <2>2. /\ scan[s].first <= tip => First(scan[s])' = First(scan[s])
        /\ scan[s].first <= tip => NextUp(scan[s])' = NextUp(scan[s])
    BY <1>4, <2>1 DEF First, NextUp
  <2>3. scan[s].startLedger <= tip => FirstFrom(scan[s].startLedger)' = FirstFrom(scan[s].startLedger)
    BY <1>4, <2>1
  <2>4. scan[s].pc = "page" => Continues(scan[s])'
    <3> SUFFICES ASSUME scan[s].pc = "page" PROVE Continues(scan[s])'
      OBVIOUS
    <3>1. Continues(scan[s]) /\ scan[s].first <= tip
      BY <2>1 DEF ScanOK
    <3>2. NextUp(scan[s]) <= Len(log') + 1
      <4>1. NextUp(scan[s]) \in Nat
        <5>1. FirstFrom(scan[s].first) \in Nat
          BY <2>1, FirstFromIs
        <5>2. Len(scan[s].allEvents) \in Nat
          BY <2>1 DEF ScanRecord
        <5> QED
          BY <5>1, <5>2 DEF NextUp, First
      <4> QED
        BY <1>1, <1>2, <3>1, <4>1 DEF Continues, ChainOK
    <3>3. tip <= tip' /\ tip \in Nat
      BY DEF ChainOK
    <3> QED
      BY <2>1, <2>2, <2>3, <3>1, <3>2, <3>3 DEF Continues
  <2>5. scan[s].pc \in {"page", "done"} =>
          scan[s].first <= tip' /\ scan[s].allEvents = Run(First(scan[s])', Len(scan[s].allEvents))
    BY <2>1, <2>2 DEF ScanOK, ChainOK
  <2>6. scan[s].pc = "done" /\ ~scan[s].hasMore => NextUp(scan[s])' > scan[s].length
    BY <2>1, <2>2 DEF ScanOK
  <2> QED
    BY <2>1, <2>4, <2>5, <2>6 DEF ScanOK
<1>7. AllKnown'
  <2>1. \A i : Known(i) <=> Known(i)'
    BY DEF Known
  <2>2. \A i \in 1..Len(log') : log'[i] < cursor => Known(i)
    BY <1>3 DEF ScanTypeOK, AllKnown
  <2>3. ASSUME NEW s \in Scans, scan[s].pc = "page"
        PROVE  \A i \in 1..Len(log') : log'[i] < scan[s].first => Known(i)
    <3>1. scan[s].first \in Nat /\ scan[s].first <= tip
      BY <2>3 DEF ScanTypeOK, ScanOK, ScanRecord
    <3> QED
      BY <1>3, <2>3, <3>1 DEF AllKnown
  <2> QED
    BY <2>1, <2>2, <2>3 DEF AllKnown
<1> QED
  BY <1>2, <1>5, <1>6, <1>7

(* The page a scan reads is a run that begins no later than the event it has *)
(* to continue with and reaches it, if there is one; its new events begin    *)
(* there.                                                                    *)
LEMMA PageIs ==
    ASSUME ScanInv, NEW s \in Scans, scan[s].pc = "page"
    PROVE  \E from \in Nat \ {0}, m \in Nat :
             /\ GetEvents(s) = Run(from, m)
             /\ First(scan[s]) <= from /\ from <= NextUp(scan[s]) /\ NextUp(scan[s]) <= from + m
             /\ from + m - 1 <= Len(log) /\ m <= Limit
             /\ m < Limit => from + m - 1 = Len(log)
             /\ scan[s].currentCursor = 0 => from = FirstFrom(scan[s].startLedger)
             /\ NewEvents(s, Run(from, m)) = Run(NextUp(scan[s]), from + m - NextUp(scan[s]))
<1> DEFINE r == scan[s]
           f == First(r)
           nx == NextUp(r)
           from == IF r.currentCursor # 0 THEN r.currentCursor + 1 ELSE FirstFrom(r.startLedger)
           last == Min({Len(log), from + Limit - 1})
           m == last - from + 1
<1>1. /\ r \in ScanRecord /\ r.startLedger \in Nat /\ r.currentCursor \in Nat /\ r.first \in Nat
      /\ Len(r.allEvents) \in Nat /\ Continues(r) /\ ChainOK /\ Len(log) \in Nat
      /\ Limit \in Nat \ {0}
  <2>1. r \in ScanRecord
    BY DEF ScanInv, ScanTypeOK
  <2>2. /\ r.startLedger \in Nat /\ r.currentCursor \in Nat /\ r.first \in Nat
        /\ Len(r.allEvents) \in Nat
    <3> HIDE DEF r
    <3> QED
      BY <2>1 DEF ScanRecord
  <2>3. Continues(r)
    BY DEF ScanInv, ScanOK
  <2>4. ChainOK /\ Len(log) \in Nat
    BY DEF ScanInv, ChainOK
  <2> QED
    BY <2>1, <2>2, <2>3, <2>4, CursorAssumption
<1>2. f \in Nat \ {0} /\ nx \in Nat /\ f <= nx
  <2>1. FirstFrom(r.first) \in Nat \ {0}
    BY <1>1, FirstFromIs
  <2> QED
    BY <1>1, <2>1 DEF First, NextUp
<1> HIDE DEF r, f, nx
<1>3. /\ from \in Nat \ {0} /\ f <= from /\ from <= nx /\ nx <= from + Limit /\ nx <= Len(log) + 1
      /\ r.currentCursor = 0 => from = FirstFrom(r.startLedger)
      /\ r.carriedKeys = from..(nx - 1)
  <2>1. /\ nx <= Len(log) + 1
        /\ r.currentCursor # 0 => r.currentCursor = nx - 1 /\ r.carriedKeys = {}
        /\ r.currentCursor = 0 =>
              LET g == FirstFrom(r.startLedger) IN
              f <= g /\ g <= nx /\ nx <= g + Limit /\ r.carriedKeys = g..(nx - 1)
    BY <1>1 DEF Continues, f, nx
  <2>2. FirstFrom(r.startLedger) \in Nat \ {0}
    BY <1>1, FirstFromIs
  <2>3. CASE r.currentCursor = 0
    BY <2>1, <2>2, <2>3
  <2>4. CASE r.currentCursor # 0
    <3>1. from = nx
      BY <1>1, <1>2, <2>1, <2>4
    <3>2. from..(nx - 1) = {}
      BY <1>2, <3>1
    <3>3. r.carriedKeys = from..(nx - 1)
      BY <2>1, <2>4, <3>2
    <3>4. nx <= from + Limit /\ from \in Nat \ {0}
      BY <1>1, <1>2, <3>1
    <3>5. f <= from /\ from <= nx
      BY <1>2, <3>1
    <3> QED
      BY <2>1, <2>4, <3>3, <3>4, <3>5
  <2> QED
    BY <2>3, <2>4
<1> HIDE DEF from
<1>4. last = IF Len(log) <= from + Limit - 1 THEN Len(log) ELSE from + Limit - 1
  <2>1. Len(log) \in Int /\ from + Limit - 1 \in Int
    BY <1>1, <1>3
  <2> QED
    BY ONLY <2>1, SmallerOf
<1> HIDE DEF last
<1>5. /\ last \in Int /\ last >= nx - 1 /\ last >= from - 1
      /\ last <= Len(log) /\ last <= from + Limit - 1
      /\ (last < from + Limit - 1 => last = Len(log))
  BY <1>1, <1>2, <1>3, <1>4
<1>6. /\ m \in Nat /\ nx <= from + m /\ from + m - 1 <= Len(log) /\ m <= Limit
      /\ m < Limit => from + m - 1 = Len(log)
  BY <1>1, <1>2, <1>3, <1>5
<1>7. GetEvents(s) = Run(from, m)
  <2>1. GetEvents(s) = [k \in 1..(IF last < from THEN 0 ELSE last - from + 1) |-> from + k - 1]
    BY DEF GetEvents, last, from, r
  <2>2. (IF last < from THEN 0 ELSE last - from + 1) = m
    BY <1>3, <1>5
  <2> QED
    BY <2>1, <2>2 DEF Run
<1> HIDE DEF m
<1>8. NewEvents(s, Run(from, m)) = Run(nx, from + m - nx)
  <2>1. CASE r.carriedKeys = {}
    <3>1. nx = from
      <4>1. from \notin from..(nx - 1)
        BY <1>3, <2>1
      <4> QED
        BY <1>2, <1>3, <4>1
    <3>2. from + m - nx = m
      BY <1>3, <1>6, <3>1
    <3> QED
      BY <2>1, <3>1, <3>2 DEF NewEvents, r
  <2>2. CASE r.carriedKeys # {}
    <3> DEFINE page == Run(from, m)
               a == nx - from
               kept == {k \in DOMAIN page : /\ log[page[k]] >= r.startLedger
                                            /\ page[k] \notin r.carriedKeys}
    <3>1. NewEvents(s, page) = Sublist(page, kept)
      BY <2>2 DEF NewEvents, r
    <3>2. DOMAIN page = 1..m /\ \A k \in 1..m : page[k] = from + k - 1
      BY <1>3, <1>6, RunIs
    <3>3. r.currentCursor = 0
      BY <1>1, <2>2 DEF Continues
    <3>4. a \in Nat /\ a <= m /\ from + a = nx /\ m - a = from + m - nx
      BY <1>2, <1>3, <1>6
    <3>5. \A i \in 1..Len(log) : i >= from => log[i] >= r.startLedger
      <4>1. \A i \in 1..Len(log) : log[i] < r.startLedger <=> i < FirstFrom(r.startLedger)
        BY <1>1, FirstFromIs
      <4> SUFFICES ASSUME NEW i \in 1..Len(log), i >= from PROVE log[i] >= r.startLedger
        OBVIOUS
      <4>2. log[i] \in Nat /\ ~(i < from)
        BY <1>1, <1>3 DEF ChainOK
      <4> QED
        BY <1>1, <1>3, <3>3, <4>1, <4>2
    <3>6. \A k \in 1..m : /\ log[from + k - 1] >= r.startLedger
                          /\ from + k - 1 \in r.carriedKeys <=> k <= a
      <4> SUFFICES ASSUME NEW k \in 1..m
                   PROVE  /\ log[from + k - 1] >= r.startLedger
                          /\ from + k - 1 \in r.carriedKeys <=> k <= a
        OBVIOUS
      <4>1. from + k - 1 \in 1..Len(log) /\ from + k - 1 >= from
        BY <1>1, <1>3, <1>6, SMTT(60)
      <4>2. from + k - 1 \in from..(nx - 1) <=> k <= a
        BY <1>2, <1>3
      <4> QED
        BY <1>3, <3>5, <4>1, <4>2
    <3> HIDE DEF page, a
    <3>7. kept = {k \in 1..m : ~(k <= a)}
      BY <3>2, <3>6
    <3>8. {k \in 1..m : ~(k <= a)} = (a + 1)..m
      BY <1>6, <3>4
    <3>9. Sublist(Run(from, m), (a + 1)..m) = Run(from + a, m - a)
      BY <1>3, <1>6, <3>4, SublistOfRun
    <3> QED
      BY <3>1, <3>4, <3>7, <3>8, <3>9 DEF page
  <2> QED
    BY <2>1, <2>2
<1> QED
  BY <1>3, <1>6, <1>7, <1>8 DEF r, f, nx

(* Where a scan continues after a page. *)
LEMMA ContinuedIs ==
    ASSUME NEW s \in Scans, scan[s] \in ScanRecord, NEW page, ToSet(page) \subseteq Nat,
           page[Len(page)] \in Nat, log[page[Len(page)]] \in Nat
    PROVE  LET c == Continued(s, page)
               last == page[Len(page)] IN
           /\ c \in ScanRecord /\ c.first = scan[s].first /\ c.opaque = scan[s].opaque
           /\ c.startLedger = IF scan[s].opaque THEN scan[s].startLedger ELSE log[last]
           /\ c.currentCursor = IF scan[s].opaque THEN last ELSE scan[s].currentCursor
           /\ scan[s].opaque => c.carriedKeys = {}
           /\ ~scan[s].opaque =>
                 \A i : i \in c.carriedKeys <=> i \in ToSet(page) /\ log[i] = log[last]
<1> DEFINE r == scan[s]
           c == Continued(s, page)
           last == page[Len(page)]
           keys == {i \in ToSet(page) : log[i] = log[last]}
<1>1. keys \in SUBSET Nat
  OBVIOUS
<1>2. CASE r.opaque
  <2>1. c = [r EXCEPT !.currentCursor = last, !.carriedKeys = {}]
    BY <1>2 DEF Continued
  <2>2. r \in ScanRecord /\ last \in Nat
    OBVIOUS
  <2> HIDE DEF r, c, last
  <2>3. /\ c \in ScanRecord /\ c.first = r.first /\ c.opaque = r.opaque
        /\ c.startLedger = r.startLedger /\ c.currentCursor = last /\ c.carriedKeys = {}
    BY <2>1, <2>2 DEF ScanRecord
  <2> QED
    BY <1>2, <2>3 DEF r, c, last
<1>3. CASE ~r.opaque
  <2>1. c = [r EXCEPT !.startLedger = log[last], !.carriedKeys = keys]
    BY <1>3 DEF Continued
  <2>2. r \in ScanRecord /\ log[last] \in Nat
    OBVIOUS
  <2> HIDE DEF r, c, last, keys
  <2>3. /\ c \in ScanRecord /\ c.first = r.first /\ c.opaque = r.opaque
        /\ c.startLedger = log[last] /\ c.currentCursor = r.currentCursor /\ c.carriedKeys = keys
    BY <1>1, <2>1, <2>2 DEF ScanRecord
  <2>4. \A i : i \in keys <=> i \in ToSet(page) /\ log[i] = log[last]
    BY DEF keys
  <2> QED
    BY <1>3, <2>3, <2>4 DEF r, c, last
<1> QED
  BY <1>2, <1>3

(* What a scan has collected, and what comes before it. *)
LEMMA Collected ==
    ASSUME ScanInv, NEW s \in Scans, scan[s].pc = "page"
    PROVE  /\ scan[s] \in ScanRecord /\ scan[s].first \in Nat /\ Len(scan[s].allEvents) \in Nat
           /\ First(scan[s]) \in Nat \ {0} /\ NextUp(scan[s]) \in Nat
           /\ First(scan[s]) + Len(scan[s].allEvents) = NextUp(scan[s])
           /\ scan[s].allEvents = Run(First(scan[s]), Len(scan[s].allEvents))
           /\ ToSet(scan[s].allEvents) = First(scan[s])..(NextUp(scan[s]) - 1)
           /\ scan[s].first <= tip
           /\ \A i \in 1..Len(log) : i < First(scan[s]) => Known(i)
<1> DEFINE r == scan[s]
<1>1. r \in ScanRecord /\ r.first \in Nat /\ Len(r.allEvents) \in Nat
  BY DEF ScanInv, ScanTypeOK, ScanRecord
<1>2. /\ FirstFrom(r.first) \in Nat \ {0}
      /\ \A i \in 1..Len(log) : log[i] < r.first <=> i < FirstFrom(r.first)
  BY <1>1, FirstFromIs DEF ScanInv
<1>3. First(r) \in Nat \ {0} /\ NextUp(r) \in Nat /\ First(r) + Len(r.allEvents) = NextUp(r)
  BY <1>1, <1>2 DEF First, NextUp
<1>4. r.first <= tip /\ r.allEvents = Run(First(r), Len(r.allEvents))
  BY DEF ScanInv, ScanOK
<1>5. ToSet(r.allEvents) = First(r)..(NextUp(r) - 1)
  <2>1. ToSet(Run(First(r), Len(r.allEvents))) = First(r)..(First(r) + Len(r.allEvents) - 1)
    BY <1>1, <1>3, RunIs
  <2> QED
    BY <1>3, <1>4, <2>1
<1>6. \A i \in 1..Len(log) : i < First(r) => Known(i)
  BY <1>2 DEF ScanInv, AllKnown, First
<1> QED
  BY <1>1, <1>3, <1>4, <1>5, <1>6

LEMMA PageAdds ==
    ASSUME ScanInv, NEW s \in Scans, scan[s].pc = "page", NEW d \in Nat
    PROVE  scan[s].allEvents \o Run(NextUp(scan[s]), d)
             = Run(First(scan[s]), Len(scan[s].allEvents) + d)
<1>1. PICK f \in Nat \ {0}, n \in Nat, nx \in Nat :
         /\ f = First(scan[s]) /\ n = Len(scan[s].allEvents) /\ nx = NextUp(scan[s])
         /\ nx = f + n /\ scan[s].allEvents = Run(f, n)
  BY Collected
<1>2. nx = f + n
  BY <1>1
<1>3. Run(f, n) \o Run(nx, d) = Run(f, n + d)
  BY <1>2, RunExtended, ZenonT(60)
<1> QED
  BY <1>1, <1>3

LEMMA PageInv ==
    ASSUME ScanInv, NEW s \in Scans, Page(s)
    PROVE  ScanInv'
<1> DEFINE r == scan[s]
           f == First(r)
           nx == NextUp(r)
           page == GetEvents(s)
           new == NewEvents(s, page)
           lastLedger == log[page[Len(page)]]
           stop == \/ r.toLedger # 0 /\ lastLedger > r.toLedger
                   \/ Len(page) < Limit \/ new = <<>>
           all == r.allEvents \o new
           q == [Continued(s, page) EXCEPT
                   !.pc = IF stop THEN "done" ELSE "page", !.allEvents = all,
                   !.hasMore = Len(page) >= Limit, !.length = Len(log)]
<1>1. /\ r.pc = "page" /\ page # <<>> /\ cursor' = lastLedger
      /\ scan' = [scan EXCEPT ![s] = q]
      /\ accounted' = IF stop THEN accounted \cup ToSet(all) ELSE accounted
      /\ UNCHANGED <<tip, log>>
  BY DEF Page
<1>2. PICK from \in Nat \ {0}, m \in Nat :
             /\ page = Run(from, m)
             /\ f <= from /\ from <= nx /\ nx <= from + m
             /\ from + m - 1 <= Len(log) /\ m <= Limit
             /\ m < Limit => from + m - 1 = Len(log)
             /\ r.currentCursor = 0 => from = FirstFrom(r.startLedger)
             /\ NewEvents(s, Run(from, m)) = Run(nx, from + m - nx)
  BY <1>1, PageIs
<1> DEFINE last == from + m - 1
<1>3. /\ r \in ScanRecord /\ r.first \in Nat /\ Len(r.allEvents) \in Nat
      /\ f \in Nat \ {0} /\ nx \in Nat /\ f + Len(r.allEvents) = nx
      /\ r.allEvents = Run(f, Len(r.allEvents))
      /\ ToSet(r.allEvents) = f..(nx - 1) /\ r.first <= tip
      /\ \A i \in 1..Len(log) : i < f => Known(i)
  BY <1>1, Collected
<1>4. /\ ChainOK /\ Len(log) \in Nat /\ Limit \in Nat \ {0} /\ tip \in Nat
      /\ r.startLedger \in Nat /\ r.currentCursor \in Nat /\ Continues(r)
  <2>1. ChainOK /\ Len(log) \in Nat /\ tip \in Nat
    BY DEF ScanInv, ChainOK
  <2>2. r.startLedger \in Nat /\ r.currentCursor \in Nat
    BY <1>3 DEF ScanRecord
  <2>3. Continues(r)
    BY <1>1 DEF ScanInv, ScanOK
  <2> QED
    BY <2>1, <2>2, <2>3, CursorAssumption
<1> HIDE DEF r, f, nx
<1>5. /\ Len(page) = m /\ ToSet(page) = from..last /\ m # 0 /\ page[Len(page)] = last
  <2>1. /\ Run(from, m) \in Seq(Nat) /\ Len(Run(from, m)) = m
        /\ \A k \in 1..m : Run(from, m)[k] = from + k - 1
        /\ ToSet(Run(from, m)) = from..(from + m - 1)
    BY RunIs
  <2>2. m # 0
    <3> SUFFICES ASSUME m = 0 PROVE FALSE
      OBVIOUS
    <3>1. Run(from, m) = <<>>
      BY <2>1
    <3> QED
      BY <1>1, <1>2, <3>1
  <2>3. m \in 1..m
    BY <2>2
  <2> QED
    BY <1>2, <2>1, <2>2, <2>3
<1>6. new = Run(nx, from + m - nx)
  BY <1>2
<1>7. all = Run(f, last - f + 1) /\ last - f + 1 \in Nat
  <2> DEFINE d == from + m - nx
  <2>1. d \in Nat /\ Len(r.allEvents) + d = last - f + 1
    <3>1. Len(r.allEvents) \in Nat /\ f \in Nat \ {0} /\ nx \in Nat /\ f + Len(r.allEvents) = nx
      BY <1>3
    <3>2. nx <= from + m
      BY <1>2
    <3>3. d \in Nat
      BY <3>1, <3>2
    <3>4. Len(r.allEvents) + d = last - f + 1
      <4> DEFINE n == Len(r.allEvents)
      <4>1. n \in Nat /\ f \in Nat \ {0} /\ nx \in Nat /\ f + n = nx
        BY <3>1
      <4> HIDE DEF n
      <4>2. n + d = last - f + 1
        BY <4>1
      <4> QED
        BY <4>2 DEF n
    <3> QED
      BY <3>3, <3>4
  <2> HIDE DEF d, last
  <2>2. r.allEvents \o Run(nx, d) = Run(f, Len(r.allEvents) + d)
    BY <1>1, <2>1, PageAdds DEF r, f, nx
  <2>3. last - f + 1 \in Nat
    BY <1>3, <2>1
  <2> QED
    BY <1>6, <2>1, <2>2, <2>3 DEF d
<1> HIDE DEF page, new, all, last
<1>8. last \in 1..Len(log) /\ last \in Nat \ {0} /\ last >= from /\ last + 1 = from + m
      /\ last >= nx - 1 /\ last >= f
  BY <1>2, <1>3, <1>4, <1>5 DEF last
<1>9. all \in Seq(Nat) /\ Len(all) = last - f + 1 /\ ToSet(all) = f..last
  <2> DEFINE d == last - f + 1
  <2>1. d \in Nat /\ f + d - 1 = last
    BY <1>3, <1>7, <1>8
  <2> HIDE DEF d
  <2>2. Run(f, d) \in Seq(Nat) /\ Len(Run(f, d)) = d /\ ToSet(Run(f, d)) = f..(f + d - 1)
    BY <1>3, <2>1, RunIs
  <2> QED
    BY <1>7, <2>1, <2>2 DEF d
<1>10. log[last] \in Nat /\ log[last] <= tip
  BY <1>4, <1>8 DEF ChainOK
<1> DEFINE keys == {i \in ToSet(page) : log[i] = log[last]}
           p == IF stop THEN "done" ELSE "page"
           more == Len(page) >= Limit
<1>11. /\ q \in ScanRecord
       /\ q.pc = p /\ q.first = r.first /\ q.allEvents = all
       /\ q.hasMore = more /\ q.length = Len(log) /\ q.opaque = r.opaque
       /\ q.startLedger = IF r.opaque THEN r.startLedger ELSE log[last]
       /\ q.currentCursor = IF r.opaque THEN last ELSE r.currentCursor
       /\ r.opaque => q.carriedKeys = {}
       /\ ~r.opaque => q.carriedKeys = keys
  <2>1. keys \in SUBSET Nat
    BY <1>5, <1>8
  <2>2. more \in BOOLEAN /\ p \in {"page", "done"}
    OBVIOUS
  <2>3. scan[s] \in ScanRecord /\ last = page[Len(page)]
    BY <1>3, <1>5 DEF r
  <2>4. last \in Nat /\ Len(log) \in Nat
    BY <1>4, <1>8
  <2>5. /\ ToSet(page) \subseteq Nat
        /\ \A i : i \in keys <=> i \in ToSet(page) /\ log[i] = log[last]
    BY <1>5, <1>8 DEF keys
  <2>6. all \in Seq(Nat) /\ log[last] \in Nat
    BY <1>9, <1>10
  <2> DEFINE c == Continued(s, page)
  <2>7. /\ c \in ScanRecord /\ c.first = scan[s].first /\ c.opaque = scan[s].opaque
        /\ c.startLedger = IF scan[s].opaque THEN scan[s].startLedger ELSE log[last]
        /\ c.currentCursor = IF scan[s].opaque THEN last ELSE scan[s].currentCursor
        /\ scan[s].opaque => c.carriedKeys = {}
        /\ ~scan[s].opaque =>
              \A i : i \in c.carriedKeys <=> i \in ToSet(page) /\ log[i] = log[last]
    <3> HIDE DEF keys, p, more, stop
    <3> QED
      BY <2>3, <2>4, <2>5, <2>6, ContinuedIs
  <2> HIDE DEF keys, more, p, c
  <2>10. q = [c EXCEPT !.pc = p, !.allEvents = all, !.hasMore = more, !.length = Len(log)]
    BY DEF p, more, c
  <2> HIDE DEF q
  <2>8. /\ q \in ScanRecord
        /\ q.pc = p /\ q.first = c.first /\ q.allEvents = all
        /\ q.hasMore = more /\ q.length = Len(log) /\ q.opaque = c.opaque
        /\ q.startLedger = c.startLedger /\ q.currentCursor = c.currentCursor
        /\ q.carriedKeys = c.carriedKeys
    BY <2>2, <2>4, <2>6, <2>7, <2>10 DEF ScanRecord
  <2>9. ~scan[s].opaque => q.carriedKeys = keys
    <3>1. ~scan[s].opaque => \A i : i \in q.carriedKeys <=> i \in keys
      BY <2>5, <2>7, <2>8
    <3>2. q.carriedKeys \in SUBSET Nat
      BY <2>8 DEF ScanRecord
    <3> QED
      BY <2>1, <3>1, <3>2
  <2> QED
    BY <2>7, <2>8, <2>9 DEF r
<1>12. p = (IF stop THEN "done" ELSE "page") /\ (more <=> m >= Limit) /\ (~stop => m >= Limit)
       /\ cursor' = log[last]
  BY <1>1, <1>3, <1>4, <1>5
<1> HIDE DEF q, p, more, stop
<1>13. First(q) = f /\ NextUp(q) = last + 1
  BY <1>3, <1>8, <1>9, <1>11 DEF First, NextUp, f
<1>14. ScanOK(q)
  <2>1. q.pc \in {"page", "done"} /\ q.first <= tip /\ q.allEvents = Run(First(q), Len(q.allEvents))
    BY <1>3, <1>7, <1>9, <1>11, <1>12, <1>13
  <2>2. ~q.hasMore => NextUp(q) > q.length
    BY <1>2, <1>4, <1>8, <1>11, <1>12, <1>13
  <2>3. ASSUME q.pc = "page" PROVE Continues(q)
    <3>1. q.hasMore
      BY <1>11, <1>12, <2>3
    <3>2. NextUp(q) <= Len(log) + 1
      BY <1>4, <1>8, <1>13
    <3>3. CASE r.opaque
      <4>1. q.currentCursor = NextUp(q) - 1 /\ q.currentCursor # 0 /\ q.carriedKeys = {} /\ q.opaque
        BY <1>8, <1>11, <1>13, <3>3
      <4>2. q.startLedger <= tip
        BY <1>4, <1>11, <3>3 DEF Continues
      <4> QED
        BY <3>1, <3>2, <4>1, <4>2 DEF Continues
    <3>4. CASE ~r.opaque
      <4> DEFINE g == FirstFrom(log[last])
      <4>1. r.currentCursor = 0
        BY <1>4, <3>4 DEF Continues
      <4>2. q.currentCursor = 0 /\ q.startLedger = log[last] /\ q.carriedKeys = keys
        BY <1>11, <3>4, <4>1
      <4>3. g \in Nat \ {0} /\ \A i \in 1..Len(log) : log[i] < log[last] <=> i < g
        BY <1>4, <1>10, FirstFromIs
      <4>4. from <= g
        <5>1. from = FirstFrom(r.startLedger)
          BY <1>2, <4>1
        <5>2. \A i \in 1..Len(log) : log[i] < r.startLedger <=> i < FirstFrom(r.startLedger)
          BY <1>4, FirstFromIs
        <5>3. ~(log[last] < r.startLedger)
          BY <1>2, <1>8, <5>1, <5>2
        <5>4. r.startLedger <= log[last]
          BY <1>4, <1>10, <5>3
        <5> QED
          BY <1>4, <1>10, <5>1, <5>4, FirstFromGrows
      <4> HIDE DEF g
      <4>5. g <= last
        <5>1. ~(log[last] < log[last])
          BY <1>10
        <5>2. ~(last < g)
          BY <1>8, <4>3, <5>1
        <5> QED
          BY <1>8, <4>3, <5>2
      <4>6. keys = g..last
        <5>1. \A i \in from..last : log[i] = log[last] <=> ~(i < g)
          <6> SUFFICES ASSUME NEW i \in from..last PROVE log[i] = log[last] <=> ~(i < g)
            OBVIOUS
          <6>1. i \in 1..Len(log) /\ i <= last
            BY <1>2, <1>8
          <6>2. log[i] \in Nat /\ log[i] <= log[last]
            BY <1>4, <1>8, <6>1 DEF ChainOK
          <6> QED
            BY <1>10, <4>3, <6>1, <6>2
        <5>2. keys = {i \in from..last : ~(i < g)}
          BY <1>5, <5>1
        <5>3. {i \in from..last : ~(i < g)} = g..last
          BY <1>2, <1>8, <4>3, <4>4
        <5> QED
          BY <5>2, <5>3
      <4>7. First(q) <= g /\ g <= NextUp(q) /\ NextUp(q) <= g + Limit /\ NextUp(q) - 1 = last
        BY <1>2, <1>3, <1>4, <1>8, <1>13, <4>3, <4>4, <4>5
      <4>8. q.carriedKeys = g..(NextUp(q) - 1) /\ g = FirstFrom(q.startLedger)
        BY <4>2, <4>6, <4>7 DEF g
      <4>9. q.startLedger <= tip
        BY <1>10, <4>2
      <4> HIDE DEF keys
      <4> QED
        BY <3>1, <3>2, <4>2, <4>7, <4>8, <4>9 DEF Continues
    <3> QED
      BY <3>3, <3>4
  <2> QED
    BY <2>1, <2>2, <2>3 DEF ScanOK
<1>15. \A i \in 1..Len(log) : log[i] < log[last] => Known(i) \/ i \in ToSet(all)
  <2> SUFFICES ASSUME NEW i \in 1..Len(log), log[i] < log[last], ~(i < f) PROVE i \in f..last
    BY <1>3, <1>9
  <2>1. ~(last <= i)
    <3>1. last <= i => log[last] <= log[i]
      BY <1>4, <1>8 DEF ChainOK
    <3>2. log[i] \in Nat
      BY <1>4 DEF ChainOK
    <3> QED
      BY <1>10, <3>1, <3>2
  <2> QED
    BY <1>3, <1>8, <2>1
<1>16. ToSet(r.allEvents) \subseteq ToSet(all)
  BY <1>3, <1>8, <1>9
<1>17. \A i \in 1..Len(log) : log[i] < r.first => Known(i)
  BY <1>1, <1>3 DEF ScanInv, AllKnown, r
<1>18. accounted \subseteq accounted' /\ (q.pc = "done" => ToSet(all) \subseteq accounted')
  BY <1>1, <1>11, <1>12
<1>19. q.pc \in {"page", "done"}
  BY <1>11, <1>12
<1>20. scan[s] = r
  BY DEF r
<1> HIDE DEF keys
<1> QED
  BY <1>1, <1>10, <1>11, <1>12, <1>14, <1>15, <1>16, <1>17, <1>18, <1>19, <1>20, ScanMoves

LEMMA EmptyPageInv ==
    ASSUME ScanInv, NEW s \in Scans, EmptyPage(s)
    PROVE  ScanInv'
<1> DEFINE r == scan[s]
           q == [r EXCEPT !.pc = "done"]
<1>1. /\ r.pc = "page" /\ GetEvents(s) = <<>> /\ cursor' = tip
      /\ accounted' = accounted \cup ToSet(r.allEvents) /\ UNCHANGED <<tip, log>>
  BY DEF EmptyPage
<1>2. r \in ScanRecord /\ scan' = [scan EXCEPT ![s] = q]
  BY DEF EmptyPage, ScanInv, ScanTypeOK
<1>3. /\ r.first \in Nat /\ Len(r.allEvents) \in Nat /\ First(r) \in Nat \ {0} /\ NextUp(r) \in Nat
      /\ r.allEvents = Run(First(r), Len(r.allEvents))
      /\ ToSet(r.allEvents) = First(r)..(NextUp(r) - 1) /\ r.first <= tip
      /\ \A i \in 1..Len(log) : i < First(r) => Known(i)
  BY <1>1, Collected
<1>4. tip \in Nat /\ Len(log) \in Nat /\ Continues(r)
  BY <1>1 DEF ScanInv, ChainOK, ScanOK
<1>5. NextUp(r) > Len(log)
  <2>1. PICK from \in Nat \ {0}, m \in Nat :
             /\ Run(from, m) = <<>> /\ from <= NextUp(r) /\ m <= Limit
             /\ m < Limit => from + m - 1 = Len(log)
    BY <1>1, PageIs
  <2>2. m = 0
    <3>1. Len(Run(from, m)) = m
      BY RunIs
    <3> QED
      BY <2>1, <3>1
  <2>3. from - 1 = Len(log)
    BY <2>1, <2>2, CursorAssumption
  <2> QED
    BY <1>3, <1>4, <2>1, <2>3
<1> HIDE DEF r
<1>6. /\ q \in ScanRecord /\ q.pc = "done" /\ q.first = r.first /\ q.allEvents = r.allEvents
      /\ q.hasMore = r.hasMore /\ q.length = r.length
  BY <1>2 DEF ScanRecord
<1> HIDE DEF q
<1>7. First(q) = First(r) /\ NextUp(q) = NextUp(r)
  BY <1>6 DEF First, NextUp
<1>8. ScanOK(q)
  <2>1. ~q.hasMore => NextUp(q) > q.length
    BY <1>3, <1>4, <1>6, <1>7 DEF Continues, NextUp
  <2> QED
    BY <1>3, <1>6, <1>7, <2>1 DEF ScanOK
<1>9. \A i \in 1..Len(log) : Known(i) \/ i \in ToSet(r.allEvents)
  BY <1>3, <1>4, <1>5
<1>10. scan[s] = r /\ q.pc # "page"
  BY <1>6 DEF r
<1>11. /\ cursor' \in Nat /\ cursor' <= tip /\ accounted \subseteq accounted'
       /\ ToSet(scan[s].allEvents) \subseteq accounted' \cup ToSet(q.allEvents)
       /\ ToSet(q.allEvents) \subseteq accounted'
  BY <1>1, <1>4, <1>6, <1>10
<1>12. \A i \in 1..Len(log) : log[i] < cursor'
          => Known(i) \/ i \in accounted' \cup ToSet(q.allEvents)
  BY <1>6, <1>9
<1> QED
  BY <1>1, <1>2, <1>6, <1>8, <1>10, <1>11, <1>12, ScanMoves

LEMMA NoScanIs ==
    /\ NoScan \in ScanRecord /\ NoScan.pc = "idle" /\ NoScan.allEvents = <<>>
    /\ ScanOK(NoScan) /\ ToSet(NoScan.allEvents) = {}
<1>1. <<>> \in Seq(Nat) /\ ToSet(<<>>) = {}
  BY DEF ToSet
<1>2. /\ NoScan.pc = "idle" /\ NoScan.allEvents = <<>>
  BY DEF NoScan
<1>3. NoScan \in ScanRecord
  BY <1>1 DEF NoScan, ScanRecord
<1> QED
  BY <1>1, <1>2, <1>3 DEF ScanOK

LEMMA RequestFailsInv ==
    ASSUME ScanInv, NEW s \in Scans, RequestFails(s)
    PROVE  ScanInv'
<1>1. /\ accounted' = accounted \cup ToSet(scan[s].allEvents)
      /\ scan' = [scan EXCEPT ![s] = NoScan] /\ UNCHANGED <<tip, log, cursor>>
  BY DEF RequestFails
<1>2. cursor \in Nat /\ cursor <= tip /\ \A i \in 1..Len(log) : log[i] < cursor => Known(i)
  BY DEF ScanInv, ScanTypeOK, AllKnown
<1> QED
  BY <1>1, <1>2, NoScanIs, ScanMoves

(* A scan begins with nothing collected, at the first event of its start. *)
LEMMA Begins ==
    ASSUME ChainOK, NEW q \in ScanRecord, q.pc = "page", q.first <= tip, q.startLedger = q.first,
           q.allEvents = <<>>, q.currentCursor = 0, q.carriedKeys = {}, q.length = 0
    PROVE  ScanOK(q)
<1>1. q.first \in Nat
  BY DEF ScanRecord
<1>2. FirstFrom(q.first) \in Nat \ {0} /\ FirstFrom(q.first) <= Len(log) + 1
  BY <1>1, FirstFromIs
<1>3. Len(q.allEvents) = 0 /\ First(q) = FirstFrom(q.first) /\ NextUp(q) = FirstFrom(q.first)
  BY <1>2 DEF First, NextUp
<1>4. q.allEvents = Run(First(q), Len(q.allEvents))
  <2>1. Run(First(q), 0) = <<>>
    BY DEF Run
  <2> QED
    BY <1>3, <2>1
<1>5. FirstFrom(q.first)..(FirstFrom(q.first) - 1) = {}
  BY <1>2
<1>6. Continues(q)
  <2>1. Limit \in Nat
    BY CursorAssumption
  <2>2. FirstFrom(q.first) <= FirstFrom(q.first) + Limit
    BY <1>2, <2>1
  <2> QED
    BY <1>2, <1>3, <1>5, <2>2 DEF Continues
<1> QED
  BY <1>4, <1>6 DEF ScanOK

LEMMA StartScanInv ==
    ASSUME ScanInv, NEW s \in Scans, NEW from \in 0..tip, NEW to \in {0, tip}, NEW opaque \in BOOLEAN,
           StartScan(s, from, to, opaque)
    PROVE  ScanInv'
<1> DEFINE start == IF from # 0 THEN from ELSE cursor
           q == [NoScan EXCEPT !.pc = IF start = 0 THEN "anchor" ELSE "page",
                   !.first = start, !.startLedger = start, !.toLedger = to, !.opaque = opaque]
<1>1. /\ scan[s].pc \in {"idle", "done"} /\ scan' = [scan EXCEPT ![s] = q]
      /\ accounted' = IF from # 0 THEN accounted \cup Before(from) ELSE accounted
      /\ UNCHANGED <<tip, log, cursor>>
  BY DEF StartScan
<1>2. tip \in Nat /\ cursor \in Nat /\ cursor <= tip /\ ChainOK
  BY DEF ScanInv, ScanTypeOK, ChainOK
<1>3. start \in Nat /\ start <= tip /\ to \in Nat
  BY <1>2
<1>4. /\ q.pc = (IF start = 0 THEN "anchor" ELSE "page") /\ q.first = start
      /\ q.startLedger = start /\ q.allEvents = <<>> /\ q.currentCursor = 0
      /\ q.carriedKeys = {} /\ q.length = 0 /\ q \in ScanRecord
  <2> HIDE DEF start
  <2>1. /\ q.pc = (IF start = 0 THEN "anchor" ELSE "page") /\ q.first = start
        /\ q.startLedger = start /\ q.allEvents = <<>> /\ q.currentCursor = 0
        /\ q.carriedKeys = {} /\ q.length = 0
    BY DEF NoScan
  <2>2. q \in ScanRecord
    BY <1>3, NoScanIs DEF ScanRecord
  <2> QED
    BY <2>1, <2>2
<1> HIDE DEF q
<1>5. \A i \in 1..Len(log) : log[i] < start => Known(i) \/ i \in accounted'
  <2>1. CASE from # 0
    BY <1>1, <1>2, <2>1 DEF Before, ChainOK
  <2>2. CASE from = 0
    BY <2>2 DEF ScanInv, AllKnown
  <2> QED
    BY <2>1, <2>2
<1>6. \A i \in 1..Len(log) : log[i] < cursor => Known(i)
  BY DEF ScanInv, AllKnown
<1> HIDE DEF start
<1>7. ScanOK(q)
  <2>1. CASE start = 0
    BY <1>4, <2>1 DEF ScanOK
  <2>2. CASE start # 0
    BY <1>2, <1>3, <1>4, <2>2, Begins
  <2> QED
    BY <2>1, <2>2
<1>8. ToSet(scan[s].allEvents) \subseteq accounted' /\ accounted \subseteq accounted'
  BY <1>1 DEF ScanInv, AllKnown
<1>9. q.pc \notin {"idle", "done"}
  BY <1>4
<1> QED
  BY <1>1, <1>2, <1>4, <1>5, <1>6, <1>7, <1>8, <1>9, ScanMoves

LEMMA AnchorInv ==
    ASSUME ScanInv, NEW s \in Scans, Anchor(s)
    PROVE  ScanInv'
<1> DEFINE a == Max({MIN_START_LEDGER, IF tip > Window THEN tip - Window ELSE 0})
           r == scan[s]
           q == [r EXCEPT !.pc = "page", !.first = a, !.startLedger = a]
<1>1. /\ r.pc = "anchor" /\ cursor' = a /\ accounted' = accounted \cup Before(a)
      /\ UNCHANGED <<tip, log>>
  BY DEF Anchor
<1>2. r \in ScanRecord /\ ChainOK /\ tip \in Nat /\ 0 < tip /\ ScanOK(r)
  BY DEF ScanInv, ScanTypeOK, ChainOK
<1>3. scan' = [scan EXCEPT ![s] = q]
  BY DEF Anchor, ScanInv, ScanTypeOK
<1>4. a \in Nat /\ a <= tip
  <2> DEFINE b == IF tip > Window THEN tip - Window ELSE 0
  <2>1. {1, b} \in SUBSET (0..tip)
    BY <1>2, CursorAssumption
  <2>2. a \in {1, b}
    BY <1>2, <2>1, MaxOfBounded DEF MIN_START_LEDGER
  <2> QED
    BY <1>2, <2>1, <2>2
<1> HIDE DEF a, r
<1>5. /\ q \in ScanRecord /\ q.pc = "page" /\ q.first = a /\ q.startLedger = a
      /\ q.allEvents = r.allEvents /\ q.currentCursor = r.currentCursor
      /\ q.carriedKeys = r.carriedKeys /\ q.length = r.length
  BY <1>2, <1>4 DEF ScanRecord
<1> HIDE DEF q
<1>6. r.allEvents = <<>> /\ r.currentCursor = 0 /\ r.carriedKeys = {} /\ r.length = 0
  BY <1>1, <1>2 DEF ScanOK
<1>7. ScanOK(q)
  BY <1>2, <1>4, <1>5, <1>6, Begins
<1>8. \A i \in 1..Len(log) : log[i] < a => i \in accounted'
  BY <1>1, <1>2 DEF Before, ChainOK
<1>9. scan[s] = r /\ ToSet(r.allEvents) = ToSet(q.allEvents) /\ q.pc \notin {"idle", "done"}
  BY <1>5 DEF r
<1> QED
  BY <1>1, <1>3, <1>4, <1>5, <1>7, <1>8, <1>9, ScanMoves

LEMMA ScansStay ==
    ASSUME ScanInv, UNCHANGED <<tip, log, scan>>
    PROVE  (\A s \in Scans : ScanOK(scan[s]))'
<1> SUFFICES ASSUME NEW s \in Scans PROVE ScanOK(scan[s])'
  OBVIOUS
<1>1. ScanOK(scan[s])
  BY DEF ScanInv
<1>2. /\ FirstFrom(scan[s].first)' = FirstFrom(scan[s].first)
      /\ FirstFrom(scan[s].startLedger)' = FirstFrom(scan[s].startLedger)
  BY DEF FirstFrom, Before
<1>3. First(scan[s])' = First(scan[s]) /\ NextUp(scan[s])' = NextUp(scan[s])
  BY <1>2 DEF First, NextUp
<1>4. Continues(scan[s]) => Continues(scan[s])'
  BY <1>2, <1>3 DEF Continues
<1> QED
  BY <1>1, <1>3, <1>4 DEF ScanOK

LEMMA ScanInitInv == CursorInit => ScanInv
<1> SUFFICES ASSUME CursorInit PROVE ScanInv
  OBVIOUS
<1>1. ChainOK
  BY DEF CursorInit, ChainOK
<1>2. ScanTypeOK
  BY NoScanIs DEF CursorInit, ScanTypeOK
<1>3. \A s \in Scans : scan[s] = NoScan
  BY DEF CursorInit
<1>4. \A s \in Scans : ScanOK(scan[s])
  BY <1>3, NoScanIs
<1>5. AllKnown
  <2>1. \A i \in 1..Len(log) : FALSE
    BY DEF CursorInit
  <2> QED
    BY <1>3, <2>1, NoScanIs DEF AllKnown
<1> QED
  BY <1>1, <1>2, <1>4, <1>5 DEF ScanInv

LEMMA CursorNextInv ==
    ASSUME ScanInv, CursorNext
    PROVE  ScanInv'
<1>1. CASE \E n \in 0..PerLedger : CloseLedger(n)
  BY <1>1, CloseScans DEF CloseLedger
<1>2. CASE Reset
  <2>1. ChainOK' /\ ScanTypeOK'
    BY <1>2 DEF Reset, ScanInv, ChainOK, ScanTypeOK
  <2>2. (\A s \in Scans : ScanOK(scan[s]))'
    BY <1>2, ScansStay DEF Reset
  <2>3. AllKnown'
    <3>1. \A i : Known(i) <=> Known(i)'
      BY <1>2 DEF Reset, Known
    <3>2. \A i \in 1..Len(log) : ~(log[i] < 0)
      BY DEF ScanInv, ChainOK
    <3> QED
      BY <1>2, <3>1, <3>2 DEF Reset, ScanInv, AllKnown
  <2> QED
    BY <2>1, <2>2, <2>3 DEF ScanInv
<1> QED
  BY <1>1, <1>2, StartScanInv, AnchorInv, EmptyPageInv, PageInv, RequestFailsInv DEF CursorNext

LEMMA ScanAlways == RecordSpec => []ScanInv
<1>1. RecordInit => ScanInv
  BY ScanInitInv DEF RecordInit
<1>2. ScanInv /\ [RecordNext]_recordVars => ScanInv'
  <2> SUFFICES ASSUME ScanInv, [RecordNext]_recordVars PROVE ScanInv'
    OBVIOUS
  <2>1. CASE CursorNext
    BY <2>1, CursorNextInv
  <2>2. CASE \E n \in 0..PerLedger : CloseLedger(n)
    BY <2>2, CloseScans DEF CloseLedger
  <2>3. CASE UNCHANGED cursorVars
    <3>1. ChainOK' /\ ScanTypeOK'
      BY <2>3 DEF cursorVars, ScanInv, ChainOK, ScanTypeOK
    <3>2. (\A s \in Scans : ScanOK(scan[s]))'
      BY <2>3, ScansStay DEF cursorVars
    <3>3. AllKnown'
      BY <2>3 DEF cursorVars, ScanInv, AllKnown, Known
    <3> QED
      BY <3>1, <3>2, <3>3 DEF ScanInv
  <2>4. CursorNext \/ (\E n \in 0..PerLedger : CloseLedger(n)) \/ UNCHANGED cursorVars
    BY DEF RecordNext, recordVars, ReaderNext, readerVars
  <2> QED
    BY <2>1, <2>2, <2>3, <2>4
<1> QED
  BY <1>1, <1>2, PTL DEF RecordSpec

(* Whatever ledgers close between its pages, however scans overlap and       *)
(* whatever the page size, a scan has collected a run of consecutive events, *)
(* each once, from the first event of its start ledger; when it tells that   *)
(* there is no next page the run reached the end of the log.                 *)
THEOREM ScansAreRuns == RecordSpec => []ScanIsRun
<1>1. ScanInv => ScanIsRun
  <2> SUFFICES ASSUME ScanInv, NEW s \in Scans, scan[s].pc \in {"page", "done"}
               PROVE  LET f == FirstFrom(scan[s].first)
                          n == Len(scan[s].allEvents) IN
                      /\ scan[s].allEvents = [k \in 1..n |-> f + k - 1]
                      /\ scan[s].pc = "done" /\ ~scan[s].hasMore => f + n - 1 >= scan[s].length
    BY DEF ScanIsRun
  <2>1. /\ scan[s].allEvents = Run(First(scan[s]), Len(scan[s].allEvents))
        /\ scan[s].pc = "done" /\ ~scan[s].hasMore => NextUp(scan[s]) > scan[s].length
    BY DEF ScanInv, ScanOK
  <2>2. scan[s].first \in Nat /\ scan[s].length \in Nat /\ Len(scan[s].allEvents) \in Nat
    BY DEF ScanInv, ScanTypeOK, ScanRecord
  <2>3. FirstFrom(scan[s].first) \in Nat \ {0}
    BY <2>2, FirstFromIs DEF ScanInv
  <2> QED
    BY <2>1, <2>2, <2>3 DEF Run, First, NextUp
<1> QED
  BY <1>1, ScanAlways, PTL

(* Neither reader of the chain's events moves past one it has not handed on, *)
(* however scans and polls overlap, fail and share their positions.          *)
THEOREM EventsNotMissed == RecordSpec => []NoEventMissed
<1>1. ScanInv => NothingSkipped
  BY DEF ScanInv, AllKnown, Known, NothingSkipped, Before, ChainOK
<1>2. NothingSkipped /\ WatchLosesNothing => NoEventMissed
  BY DEF NoEventMissed
<1> QED
  BY <1>1, <1>2, ScanAlways, WatchSeesAll, PTL

-----------------------------------------------------------------------------
(* What a loop leaves, and sums of lists. *)

(* What holds at zero and from each number to the next holds up to the last.  *)
LEMMA CountUp ==
    ASSUME NEW N \in Nat, NEW T, 0 \in T, \A n \in 1..N : n - 1 \in T => n \in T
    PROVE  N \in T /\ \A n \in 0..N : n \in T
<1> DEFINE bad == {n \in 0..N : n \notin T}
<1>1. SUFFICES ASSUME bad # {} PROVE FALSE
  <2>1. N \in 0..N
    OBVIOUS
  <2> QED
    BY <2>1
<1>2. bad \subseteq Nat
  OBVIOUS
<1>3. PICK k \in bad : \A y \in bad : ~(<<y, k>> \in OpToRel(<, Nat))
  BY <1>1, <1>2, NatLessThanWellFounded, WFMin, Zenon
<1>4. \A y \in bad : ~(y < k)
  BY <1>2, <1>3 DEF OpToRel
<1>5. k \in 1..N
  OBVIOUS
<1>6. k - 1 \in T
  BY <1>4, <1>5
<1> QED
  BY <1>5, <1>6

(* A loop over places 1 to N has a course: the values after each place.       *)
Course(N, S, a, g, f) ==
    f \in [0..N -> S] /\ f[0] = a /\ \A n \in 1..N : f[n] = g[<<f[n - 1], n>>]

LEMMA LoopRuns ==
    ASSUME NEW N \in Nat, NEW S, NEW a \in S, NEW g \in [S \X (1..N) -> S]
    PROVE  \E f : Course(N, S, a, g, f)
<1> DEFINE h(m, f) == [n \in 0..m |-> IF n < m THEN f[n] ELSE g[<<f[m - 1], m>>]]
           gm(m) == [p \in S \X (1..m) |-> g[p]]
           T == {m \in 0..N : \E f : Course(m, S, a, gm(m), f)}
<1>1. 0 \in T
  <2> DEFINE f == [n \in 0..0 |-> a]
  <2>1. f \in [0..0 -> S] /\ f[0] = a /\ 1..0 = {}
    OBVIOUS
  <2>2. Course(0, S, a, gm(0), f)
    BY <2>1 DEF Course
  <2> HIDE DEF f, gm
  <2>3. \E x : Course(0, S, a, gm(0), x)
    BY <2>2, Zenon
  <2> QED
    BY <2>3
<1>2. \A m \in 1..N : m - 1 \in T => m \in T
  <2> SUFFICES ASSUME NEW m \in 1..N, m - 1 \in T PROVE m \in T
    OBVIOUS
  <2>1. PICK f : Course(m - 1, S, a, gm(m - 1), f)
    <3> HIDE DEF gm
    <3> QED
      OBVIOUS
  <2>2. /\ f \in [0..(m - 1) -> S] /\ f[0] = a
        /\ \A n \in 1..(m - 1) : f[n] = g[<<f[n - 1], n>>]
    <3>1. /\ f \in [0..(m - 1) -> S] /\ f[0] = a
          /\ \A n \in 1..(m - 1) : f[n] = gm(m - 1)[<<f[n - 1], n>>]
      BY <2>1 DEF Course
    <3>2. ASSUME NEW n \in 1..(m - 1) PROVE f[n] = g[<<f[n - 1], n>>]
      <4>1. n - 1 \in 0..(m - 1) /\ f[n - 1] \in S
        BY <3>1
      <4>2. <<f[n - 1], n>> \in S \X (1..(m - 1))
        BY <4>1
      <4> QED
        BY <3>1, <4>2
    <3> QED
      BY <3>1, <3>2
  <2>3. f[m - 1] \in S /\ <<f[m - 1], m>> \in S \X (1..N)
    BY <2>2
  <2> DEFINE e == h(m, f)
  <2>4. e \in [0..m -> S] /\ e[0] = a
    BY <2>2, <2>3
  <2>5. \A n \in 1..m : e[n] = gm(m)[<<e[n - 1], n>>]
    <3> SUFFICES ASSUME NEW n \in 1..m PROVE e[n] = gm(m)[<<e[n - 1], n>>]
      OBVIOUS
    <3>1. e[n - 1] = f[n - 1] /\ f[n - 1] \in S
      <4>1. n - 1 \in 0..m /\ n - 1 < m /\ n - 1 \in 0..(m - 1)
        OBVIOUS
      <4> QED
        BY <4>1, <2>2
    <3>2. gm(m)[<<e[n - 1], n>>] = g[<<f[n - 1], n>>]
      BY <3>1, SMTT(60)
    <3>3. CASE n < m
      <4>1. e[n] = f[n] /\ n \in 1..(m - 1)
        BY <3>3
      <4> QED
        BY <2>2, <3>2, <4>1
    <3>4. CASE n = m
      <4>1. e[n] = g[<<f[m - 1], m>>]
        BY <3>4
      <4> QED
        BY <3>2, <3>4, <4>1
    <3> QED
      BY <3>3, <3>4
  <2> HIDE DEF e, gm
  <2>6. Course(m, S, a, gm(m), e)
    BY <2>4, <2>5 DEF Course
  <2>7. \E x : Course(m, S, a, gm(m), x)
    BY <2>6, Zenon
  <2> QED
    BY <2>7
<1> HIDE DEF T
<1>3. N \in T
  BY <1>1, <1>2, CountUp
<1>4. gm(N) = g
  OBVIOUS
<1>5. \E f : Course(N, S, a, gm(N), f)
  BY <1>3 DEF T
<1> QED
  BY <1>4, <1>5

(* The sums after each place of a list.                                       *)
SumsOf(s, f) ==
    /\ f \in [0..Len(s) -> Int] /\ f[0] = 0
    /\ \A n \in 1..Len(s) : f[n] = f[n - 1] + s[n]

LEMMA SumSeqIs ==
    ASSUME NEW s \in Seq(Int)
    PROVE  \E f : SumsOf(s, f) /\ SumSeq(s) = f[Len(s)]
<1> DEFINE N == Len(s)
           F(f) == [n \in 0..N |-> IF n = 0 THEN 0 ELSE f[n - 1] + s[n]]
           g == [p \in Int \X (1..N) |-> p[1] + s[p[2]]]
           c == CHOOSE f : f = F(f)
<1>1. N \in Nat /\ 0 \in Int /\ \A n \in 1..N : s[n] \in Int
  OBVIOUS
<1>2. g \in [Int \X (1..N) -> Int]
  BY <1>1
<1>3. PICK f : Course(N, Int, 0, g, f)
  <2> HIDE DEF g, N
  <2> QED
    BY <1>1, <1>2, LoopRuns
<1>4. f = F(f)
  <2>1. f \in [0..N -> Int] /\ f[0] = 0 /\ \A n \in 1..N : f[n] = g[<<f[n - 1], n>>]
    BY <1>3 DEF Course
  <2>2. \A n \in 1..N : f[n] = f[n - 1] + s[n]
    <3> SUFFICES ASSUME NEW n \in 1..N PROVE f[n] = f[n - 1] + s[n]
      OBVIOUS
    <3>1. f[n - 1] \in Int /\ f[n] = g[<<f[n - 1], n>>]
      <4> HIDE DEF g
      <4>1. n - 1 \in 0..N
        BY <1>1
      <4> QED
        BY <2>1, <4>1
    <3>2. g[<<f[n - 1], n>>] = f[n - 1] + s[n]
      BY <3>1
    <3> QED
      BY <3>1, <3>2
  <2> HIDE DEF g
  <2>3. f = [n \in 0..N |-> f[n]]
    BY <2>1
  <2>4. \A n \in 0..N : f[n] = IF n = 0 THEN 0 ELSE f[n - 1] + s[n]
    BY <2>1, <2>2
  <2> QED
    BY <2>3, <2>4
<1>5. c = F(c)
  <2> HIDE DEF F
  <2> QED
    BY <1>4
<1>6. SumSeq(s) = c[N]
  BY DEF SumSeq
<1> HIDE DEF c
<1>7. c[0] = 0 /\ DOMAIN c = 0..N /\ \A n \in 1..N : c[n] = c[n - 1] + s[n]
  <2> HIDE DEF N
  <2> QED
    BY <1>1, <1>5
<1>8. \A n \in 0..N : c[n] \in Int
  <2> DEFINE T == {n \in 0..N : c[n] \in Int}
  <2>1. 0 \in T /\ \A n \in 1..N : n - 1 \in T => n \in T
    BY <1>1, <1>7
  <2> HIDE DEF T, N
  <2>2. \A n \in 0..N : n \in T
    BY <1>1, <2>1, CountUp
  <2> QED
    BY <2>2 DEF T
<1>9. c = [n \in 0..N |-> c[n]]
  BY <1>5
<1>10. SumsOf(s, c)
  BY <1>7, <1>8, <1>9 DEF SumsOf
<1> QED
  BY <1>6, <1>10

LEMMA SumIsInt == ASSUME NEW s \in Seq(Int) PROVE SumSeq(s) \in Int
<1>1. PICK f : SumsOf(s, f) /\ SumSeq(s) = f[Len(s)]
  BY SumSeqIs
<1> QED
  BY <1>1 DEF SumsOf

(* Sums of lists that add up place by place.                                  *)
LEMMA SumAdds ==
    ASSUME NEW a \in Seq(Int), NEW b \in Seq(Int), NEW c \in Seq(Int),
           Len(a) = Len(c), Len(b) = Len(c), \A n \in 1..Len(c) : c[n] = a[n] + b[n]
    PROVE  SumSeq(c) = SumSeq(a) + SumSeq(b)
<1>1. PICK f : SumsOf(a, f) /\ SumSeq(a) = f[Len(a)]
  BY SumSeqIs
<1>2. PICK g : SumsOf(b, g) /\ SumSeq(b) = g[Len(b)]
  BY SumSeqIs
<1>3. PICK h : SumsOf(c, h) /\ SumSeq(c) = h[Len(c)]
  BY SumSeqIs
<1> DEFINE N == Len(c)
           T == {n \in 0..N : h[n] = f[n] + g[n]}
<1>4. N \in Nat /\ \A n \in 1..N : a[n] \in Int /\ b[n] \in Int
  OBVIOUS
<1>5. 0 \in T
  BY <1>1, <1>2, <1>3 DEF SumsOf
<1>6. \A n \in 1..N : n - 1 \in T => n \in T
  <2> SUFFICES ASSUME NEW n \in 1..N, n - 1 \in T PROVE n \in T
    OBVIOUS
  <2>1. h[n - 1] = f[n - 1] + g[n - 1] /\ n \in 0..N
    BY <1>4
  <2>2. /\ f[n] = f[n - 1] + a[n] /\ g[n] = g[n - 1] + b[n] /\ h[n] = h[n - 1] + c[n]
        /\ f[n - 1] \in Int /\ g[n - 1] \in Int /\ h[n - 1] \in Int
    BY <1>1, <1>2, <1>3, <1>4, <2>1 DEF SumsOf
  <2>3. a[n] \in Int /\ b[n] \in Int /\ c[n] = a[n] + b[n]
    BY <1>4
  <2>4. h[n] = f[n] + g[n]
    <3> DEFINE x == f[n - 1]
               y == g[n - 1]
               u == a[n]
               v == b[n]
    <3>1. f[n] = x + u /\ g[n] = y + v /\ h[n] = (x + y) + (u + v)
      BY <2>1, <2>2, <2>3
    <3>2. x \in Int /\ y \in Int /\ u \in Int /\ v \in Int
      BY <2>2, <2>3
    <3> HIDE DEF x, y, u, v
    <3> QED
      BY <3>1, <3>2
  <2> QED
    BY <2>1, <2>4
<1> HIDE DEF T, N
<1>7. N \in T
  BY <1>4, <1>5, <1>6, CountUp
<1> QED
  BY <1>1, <1>2, <1>3, <1>7 DEF T, N

LEMMA SumGrows ==
    ASSUME NEW a \in Seq(Int), NEW b \in Seq(Int),
           Len(a) = Len(b), \A n \in 1..Len(b) : a[n] <= b[n]
    PROVE  SumSeq(a) <= SumSeq(b)
<1>1. PICK f : SumsOf(a, f) /\ SumSeq(a) = f[Len(a)]
  BY SumSeqIs
<1>2. PICK g : SumsOf(b, g) /\ SumSeq(b) = g[Len(b)]
  BY SumSeqIs
<1> DEFINE N == Len(b)
           T == {n \in 0..N : f[n] <= g[n]}
<1>4. N \in Nat /\ \A n \in 1..N : a[n] \in Int /\ b[n] \in Int
  OBVIOUS
<1>5. 0 \in T
  BY <1>1, <1>2, <1>4 DEF SumsOf
<1>6. \A n \in 1..N : n - 1 \in T => n \in T
  <2> SUFFICES ASSUME NEW n \in 1..N, n - 1 \in T PROVE n \in T
    OBVIOUS
  <2>1. n - 1 \in 0..N /\ f[n - 1] <= g[n - 1] /\ n \in 0..N
    BY <1>4
  <2>2. f[n] = f[n - 1] + a[n] /\ g[n] = g[n - 1] + b[n] /\ f[n - 1] \in Int /\ g[n - 1] \in Int
    BY <1>1, <1>2, <1>4, <2>1 DEF SumsOf
  <2>3. a[n] \in Int /\ b[n] \in Int /\ a[n] <= b[n]
    BY <1>4
  <2>4. f[n] <= g[n]
    BY <2>1, <2>2, <2>3
  <2> QED
    BY <2>1, <2>4
<1> HIDE DEF T, N
<1>7. N \in T
  BY <1>4, <1>5, <1>6, CountUp
<1> QED
  BY <1>1, <1>2, <1>7 DEF T, N

LEMMA SumOfNothing ==
    ASSUME NEW s \in Seq(Int), \A n \in 1..Len(s) : s[n] = 0
    PROVE  SumSeq(s) = 0
<1>1. SumSeq(s) = SumSeq(s) + SumSeq(s)
  BY SumAdds
<1> QED
  BY <1>1, SumIsInt

LEMMA SumIsNat ==
    ASSUME NEW s \in Seq(Int), \A n \in 1..Len(s) : s[n] >= 0
    PROVE  SumSeq(s) \in Nat
<1> DEFINE z == [n \in 1..Len(s) |-> 0]
<1>1. z \in Seq(Int) /\ Len(z) = Len(s) /\ \A n \in 1..Len(s) : z[n] = 0
  OBVIOUS
<1> HIDE DEF z
<1>2. SumSeq(z) = 0
  BY <1>1, SumOfNothing
<1>3. SumSeq(z) <= SumSeq(s)
  BY <1>1, SumGrows
<1> QED
  BY <1>2, <1>3, SumIsInt

(* What a list adds after the end of another one.                             *)
LEMMA SumExtends ==
    ASSUME NEW a \in Seq(Int), NEW b \in Seq(Int), Len(a) <= Len(b),
           \A n \in 1..Len(a) : b[n] = a[n],
           \A n \in (Len(a) + 1)..Len(b) : b[n] = 0
    PROVE  SumSeq(b) = SumSeq(a)
<1>1. PICK f : SumsOf(a, f) /\ SumSeq(a) = f[Len(a)]
  BY SumSeqIs
<1>2. PICK g : SumsOf(b, g) /\ SumSeq(b) = g[Len(b)]
  BY SumSeqIs
<1> DEFINE N == Len(b)
           M == Len(a)
           T == {n \in 0..N : g[n] = IF n <= M THEN f[n] ELSE f[M]}
<1>4. N \in Nat /\ M \in 0..N
  OBVIOUS
<1>5. 0 \in T
  BY <1>1, <1>2, <1>4 DEF SumsOf
<1>6. \A n \in 1..N : n - 1 \in T => n \in T
  <2> SUFFICES ASSUME NEW n \in 1..N, n - 1 \in T PROVE n \in T
    OBVIOUS
  <2>1. g[n] = g[n - 1] + b[n] /\ g[n - 1] = IF n - 1 <= M THEN f[n - 1] ELSE f[M]
    BY <1>2 DEF SumsOf
  <2>2. CASE n <= M
    <3>1. f[n] = f[n - 1] + a[n] /\ b[n] = a[n]
      BY <1>1, <2>2 DEF SumsOf
    <3> QED
      BY <2>1, <2>2, <3>1
  <2>3. CASE n > M
    <3>1. b[n] = 0 /\ f[M] \in Int
      BY <1>1, <1>4, <2>3 DEF SumsOf
    <3>2. g[n - 1] = f[M]
      BY <1>4, <2>1, <2>3
    <3> QED
      BY <2>1, <2>3, <3>1, <3>2
  <2> QED
    BY <1>4, <2>2, <2>3
<1> HIDE DEF T, N
<1>7. N \in T
  BY <1>4, <1>5, <1>6, CountUp
<1> QED
  BY <1>1, <1>2, <1>4, <1>7 DEF T, N

LEMMA SumAppends ==
    ASSUME NEW s \in Seq(Int), NEW x \in Int
    PROVE  SumSeq(Append(s, x)) = SumSeq(s) + x
<1> DEFINE b == Append(s, x)
<1>1. /\ b \in Seq(Int) /\ Len(b) = Len(s) + 1 /\ Len(s) \in Nat
      /\ \A n \in 1..Len(s) : b[n] = s[n]
      /\ b[Len(s) + 1] = x
  OBVIOUS
<1> HIDE DEF b
<1>2. PICK f : SumsOf(s, f) /\ SumSeq(s) = f[Len(s)]
  BY SumSeqIs
<1>3. PICK g : SumsOf(b, g) /\ SumSeq(b) = g[Len(b)]
  BY <1>1, SumSeqIs
<1> DEFINE N == Len(s)
           T == {n \in 0..N : g[n] = f[n]}
<1>4. 0 \in T
  BY <1>1, <1>2, <1>3 DEF SumsOf
<1>5. \A n \in 1..N : n - 1 \in T => n \in T
  <2> SUFFICES ASSUME NEW n \in 1..N, n - 1 \in T PROVE n \in T
    OBVIOUS
  <2>1. g[n - 1] = f[n - 1] /\ n \in 1..Len(b)
    BY <1>1
  <2>2. f[n] = f[n - 1] + s[n] /\ g[n] = g[n - 1] + b[n] /\ b[n] = s[n]
    BY <1>1, <1>2, <1>3, <2>1 DEF SumsOf
  <2> QED
    BY <2>1, <2>2
<1> HIDE DEF T, N
<1>6. N \in T
  <2>1. N \in Nat
    BY <1>1 DEF N
  <2> QED
    BY <1>4, <1>5, <2>1, CountUp
<1>7. g[N] = f[N]
  BY <1>6 DEF T
<1>8. g[N + 1] = g[N] + x
  <2>1. N + 1 \in 1..Len(b) /\ N + 1 - 1 = N
    BY <1>1 DEF N
  <2> QED
    BY <1>1, <1>3, <2>1 DEF SumsOf, N
<1> QED
  BY <1>1, <1>2, <1>3, <1>7, <1>8 DEF b, N

(* Adding up backwards makes no difference.                                   *)
LEMMA SumReverses ==
    ASSUME NEW s \in Seq(Int), NEW r \in Seq(Int), Len(r) = Len(s),
           \A n \in 1..Len(s) : r[n] = s[Len(s) + 1 - n]
    PROVE  SumSeq(r) = SumSeq(s)
<1>1. PICK f : SumsOf(s, f) /\ SumSeq(s) = f[Len(s)]
  BY SumSeqIs
<1>2. PICK g : SumsOf(r, g) /\ SumSeq(r) = g[Len(r)]
  BY SumSeqIs
<1> DEFINE N == Len(s)
           T == {n \in 0..N : g[n] = f[N] - f[N - n]}
<1>4. N \in Nat
  OBVIOUS
<1>5. 0 \in T
  <2>1. g[0] = 0 /\ f[N] \in Int /\ N - 0 = N /\ 0 \in 0..N
    BY <1>1, <1>2, <1>4 DEF SumsOf
  <2>2. g[0] = f[N] - f[N - 0]
    BY <2>1
  <2> QED
    BY <2>1, <2>2
<1>6. \A n \in 1..N : n - 1 \in T => n \in T
  <2> SUFFICES ASSUME NEW n \in 1..N, n - 1 \in T PROVE n \in T
    OBVIOUS
  <2>0. n \in 1..Len(r) /\ n - 1 \in 0..N
    BY <1>4
  <2>1. g[n] = g[n - 1] + r[n] /\ g[n - 1] = f[N] - f[N - (n - 1)]
    BY <1>2, <2>0 DEF SumsOf
  <2>2. N + 1 - n \in 1..N /\ N - n \in 0..N /\ N - (n - 1) = N + 1 - n /\ N + 1 - n - 1 = N - n
    <3>1. N \in Int /\ n \in Int /\ 1 <= n /\ n <= N
      BY <1>4
    <3> HIDE DEF N, T
    <3> QED
      BY <3>1
  <2>3. f[N + 1 - n] = f[N - n] + s[N + 1 - n] /\ f[N - n] \in Int /\ f[N] \in Int /\ s[N + 1 - n] \in Int
    <3>1. \A k \in 1..N : f[k] = f[k - 1] + s[k] /\ s[k] \in Int
      BY <1>1 DEF SumsOf
    <3>2. \A k \in 0..N : f[k] \in Int
      BY <1>1 DEF SumsOf
    <3> HIDE DEF N
    <3> DEFINE k == N + 1 - n
    <3>3. f[k] = f[N - n] + s[k] /\ s[k] \in Int
      <4>1. k \in 1..N /\ k - 1 = N - n
        <5>1. N \in Int /\ n \in Int
          BY <1>4
        <5> QED
          BY <2>2, <5>1
      <4> HIDE DEF k
      <4>2. f[k] = f[k - 1] + s[k] /\ s[k] \in Int
        BY <3>1, <4>1
      <4> QED
        BY <4>1, <4>2
    <3>4. N \in 0..N
      BY <1>4
    <3> QED
      BY <2>2, <3>2, <3>3, <3>4
  <2>4. r[n] = s[N + 1 - n]
    BY <2>0
  <2>5. g[n] = f[N] - f[N - n]
    <3> DEFINE x == f[N - n]
               y == f[N + 1 - n]
               z == f[N]
               v == s[N + 1 - n]
    <3>1. g[n] = (z - y) + v /\ y = x + v /\ x \in Int /\ z \in Int /\ v \in Int
      BY <2>1, <2>2, <2>3, <2>4
    <3> HIDE DEF x, y, z, v
    <3>2. g[n] = z - x
      BY <3>1
    <3> QED
      BY <3>2 DEF x, z
  <2> QED
    BY <1>4, <2>5
<1> HIDE DEF T, N
<1>7. N \in T
  BY <1>4, <1>5, <1>6, CountUp
<1>8. f[0] = 0 /\ f[N] \in Int /\ N - N = 0
  BY <1>1, <1>4 DEF SumsOf, N
<1> QED
  BY <1>1, <1>2, <1>7, <1>8 DEF T, N

(* A list with one amount in it.                                              *)
LEMMA SumOnce ==
    ASSUME NEW s \in Seq(Int), NEW k \in 1..Len(s), \A n \in 1..Len(s) : n # k => s[n] = 0
    PROVE  SumSeq(s) = s[k]
<1>1. PICK f : SumsOf(s, f) /\ SumSeq(s) = f[Len(s)]
  BY SumSeqIs
<1> DEFINE N == Len(s)
           T == {n \in 0..N : f[n] = IF n < k THEN 0 ELSE s[k]}
<1>4. N \in Nat /\ s[k] \in Int
  OBVIOUS
<1>5. 0 \in T
  BY <1>1, <1>4 DEF SumsOf
<1>6. \A n \in 1..N : n - 1 \in T => n \in T
  <2> SUFFICES ASSUME NEW n \in 1..N, n - 1 \in T PROVE n \in T
    OBVIOUS
  <2>1. f[n - 1] = (IF n - 1 < k THEN 0 ELSE s[k]) /\ f[n] = f[n - 1] + s[n] /\ n \in 0..N
    BY <1>1, <1>4 DEF SumsOf
  <2>2. CASE n = k
    BY <1>4, <2>1, <2>2
  <2>3. CASE n # k
    <3>1. s[n] = 0
      BY <2>3
    <3>2. n - 1 < k <=> n < k
      BY <1>4, <2>3
    <3>3. f[n] = IF n < k THEN 0 ELSE s[k]
      BY <1>4, <2>1, <3>1, <3>2
    <3> QED
      BY <2>1, <3>3
  <2> QED
    BY <2>2, <2>3
<1> HIDE DEF T, N
<1>7. N \in T
  BY <1>4, <1>5, <1>6, CountUp
<1> QED
  BY <1>1, <1>4, <1>7 DEF T, N

-----------------------------------------------------------------------------
(* Sums of some of the entries of a list. *)

(* The amounts of some of the entries of a list, and nothing for the others.  *)
Picked(a, E) == [i \in DOMAIN a |-> IF i \in E THEN a[i] ELSE 0]

LEMMA PickedIs ==
    ASSUME NEW a \in Seq(Nat), NEW E
    PROVE  /\ Picked(a, E) \in Seq(Int) /\ Len(Picked(a, E)) = Len(a)
           /\ \A i \in 1..Len(a) : /\ Picked(a, E)[i] = IF i \in E THEN a[i] ELSE 0
                                   /\ Picked(a, E)[i] >= 0
<1> DEFINE p == [i \in 1..Len(a) |-> IF i \in E THEN a[i] ELSE 0]
<1>1. p \in [1..Len(a) -> Int] /\ Len(a) \in Nat
  OBVIOUS
<1>2. p \in Seq(Int) /\ Len(p) = Len(a)
  BY <1>1
<1>3. \A i \in 1..Len(a) : p[i] = (IF i \in E THEN a[i] ELSE 0) /\ p[i] >= 0
  OBVIOUS
<1>4. Picked(a, E) = p
  BY DEF Picked
<1> QED
  BY <1>2, <1>3, <1>4

LEMMA PickedSum ==
    ASSUME NEW a \in Seq(Nat), NEW E PROVE SumSeq(Picked(a, E)) \in Nat
  BY PickedIs, SumIsNat

(* Parts of a set of entries add up to it.                                    *)
LEMMA PickedParts ==
    ASSUME NEW a \in Seq(Nat), NEW E, NEW F, NEW G,
           \A i \in 1..Len(a) : (i \in G <=> i \in E \/ i \in F) /\ ~(i \in E /\ i \in F)
    PROVE  SumSeq(Picked(a, G)) = SumSeq(Picked(a, E)) + SumSeq(Picked(a, F))
<1> DEFINE g == Picked(a, G)
           e == Picked(a, E)
           f == Picked(a, F)
<1>1. /\ g \in Seq(Int) /\ Len(g) = Len(a)
      /\ \A i \in 1..Len(a) : g[i] = IF i \in G THEN a[i] ELSE 0
  BY PickedIs
<1>2. /\ e \in Seq(Int) /\ Len(e) = Len(a)
      /\ \A i \in 1..Len(a) : e[i] = IF i \in E THEN a[i] ELSE 0
  BY PickedIs
<1>3. /\ f \in Seq(Int) /\ Len(f) = Len(a)
      /\ \A i \in 1..Len(a) : f[i] = IF i \in F THEN a[i] ELSE 0
  BY PickedIs
<1> HIDE DEF g, e, f
<1>4. \A i \in 1..Len(g) : g[i] = e[i] + f[i]
  <2> SUFFICES ASSUME NEW i \in 1..Len(g) PROVE g[i] = e[i] + f[i]
    OBVIOUS
  <2>1. i \in 1..Len(a) /\ a[i] \in Nat
    BY <1>1
  <2>2. CASE i \in E
    BY <1>1, <1>2, <1>3, <2>1, <2>2
  <2>3. CASE i \in F
    BY <1>1, <1>2, <1>3, <2>1, <2>3
  <2>4. CASE i \notin E /\ i \notin F
    BY <1>1, <1>2, <1>3, <2>1, <2>4
  <2> QED
    BY <2>2, <2>3, <2>4
<1>5. SumSeq(g) = SumSeq(e) + SumSeq(f)
  BY <1>1, <1>2, <1>3, <1>4, SumAdds
<1> QED
  BY <1>5 DEF g, e, f

LEMMA PickedMore ==
    ASSUME NEW a \in Seq(Nat), NEW E, NEW F, \A i \in 1..Len(a) : i \in E => i \in F
    PROVE  SumSeq(Picked(a, E)) <= SumSeq(Picked(a, F))
<1> DEFINE e == Picked(a, E)
           f == Picked(a, F)
<1>2. /\ e \in Seq(Int) /\ Len(e) = Len(a)
      /\ \A i \in 1..Len(a) : e[i] = IF i \in E THEN a[i] ELSE 0
  BY PickedIs
<1>3. /\ f \in Seq(Int) /\ Len(f) = Len(a)
      /\ \A i \in 1..Len(a) : f[i] = IF i \in F THEN a[i] ELSE 0
  BY PickedIs
<1> HIDE DEF e, f
<1>4. \A i \in 1..Len(f) : e[i] <= f[i]
  <2> SUFFICES ASSUME NEW i \in 1..Len(f) PROVE e[i] <= f[i]
    OBVIOUS
  <2>1. i \in 1..Len(a) /\ a[i] \in Nat
    BY <1>3
  <2>2. CASE i \in E
    BY <1>2, <1>3, <2>1, <2>2
  <2>3. CASE i \notin E
    <3>1. e[i] = 0 /\ f[i] = IF i \in F THEN a[i] ELSE 0
      BY <1>2, <1>3, <2>1, <2>3
    <3>2. f[i] \in Nat
      BY <2>1, <3>1
    <3> QED
      BY <3>1, <3>2
  <2> QED
    BY <2>2, <2>3
<1>5. SumSeq(e) <= SumSeq(f)
  BY <1>2, <1>3, <1>4, SumGrows
<1> QED
  BY <1>5 DEF e, f

(* Entries after the end of a list whose own entries stay.                    *)
LEMMA PickedLonger ==
    ASSUME NEW a \in Seq(Nat), NEW b \in Seq(Nat), Len(a) <= Len(b), NEW E, NEW F,
           \A i \in 1..Len(a) : b[i] = a[i] /\ (i \in E <=> i \in F),
           \A i \in (Len(a) + 1)..Len(b) : i \notin F
    PROVE  SumSeq(Picked(b, F)) = SumSeq(Picked(a, E))
<1> DEFINE e == Picked(a, E)
           f == Picked(b, F)
<1>2. /\ e \in Seq(Int) /\ Len(e) = Len(a)
      /\ \A i \in 1..Len(a) : e[i] = IF i \in E THEN a[i] ELSE 0
  BY PickedIs
<1>3. /\ f \in Seq(Int) /\ Len(f) = Len(b)
      /\ \A i \in 1..Len(b) : f[i] = IF i \in F THEN b[i] ELSE 0
  BY PickedIs
<1> HIDE DEF e, f
<1>4. \A i \in 1..Len(e) : f[i] = e[i]
  <2> SUFFICES ASSUME NEW i \in 1..Len(e) PROVE f[i] = e[i]
    OBVIOUS
  <2>1. i \in 1..Len(a) /\ i \in 1..Len(b) /\ b[i] = a[i]
    BY <1>2
  <2> QED
    BY <1>2, <1>3, <2>1
<1>5. \A i \in (Len(e) + 1)..Len(f) : f[i] = 0
  BY <1>2, <1>3
<1>6. SumSeq(f) = SumSeq(e)
  BY <1>2, <1>3, <1>4, <1>5, SumExtends
<1> QED
  BY <1>6 DEF e, f

-----------------------------------------------------------------------------
(* The chain of swap events. *)

SwapEvent == [sender : Users, tin : Tokens, in : Nat \ {0}, out : Nat \ {0}, bps : Nat,
              lacks : Shapes, succeeded : BOOLEAN, ledger : Nat \ {0}]
SwapsOK ==
    /\ head \in Nat /\ swaps \in Seq(SwapEvent)
    /\ \A i \in 1..Len(swaps) : swaps[i].ledger <= head

Fees == [i \in DOMAIN swaps |-> Fee(swaps[i])]
Volumes == [i \in DOMAIN swaps |-> Volume(swaps[i])]

LEMMA AmountsOf ==
    ASSUME NEW s \in Seq(SwapEvent)
    PROVE  LET fees == [i \in DOMAIN s |-> Fee(s[i])]
               volumes == [i \in DOMAIN s |-> Volume(s[i])] IN
           /\ fees \in Seq(Nat) /\ Len(fees) = Len(s)
           /\ volumes \in Seq(Nat) /\ Len(volumes) = Len(s)
           /\ \A i \in 1..Len(s) : fees[i] = Fee(s[i]) /\ volumes[i] = s[i].in
           /\ DOMAIN s = 1..Len(s) /\ Len(s) \in Nat
<1> DEFINE fees == [i \in DOMAIN s |-> Fee(s[i])]
           volumes == [i \in DOMAIN s |-> Volume(s[i])]
<1>1. DOMAIN s = 1..Len(s) /\ Len(s) \in Nat
  OBVIOUS
<1>2. \A i \in 1..Len(s) : s[i].in \in Nat \ {0} /\ s[i].bps \in Nat
  <2> SUFFICES ASSUME NEW i \in 1..Len(s) PROVE s[i].in \in Nat \ {0} /\ s[i].bps \in Nat
    OBVIOUS
  <2>1. s[i] \in SwapEvent
    OBVIOUS
  <2> QED
    BY <2>1 DEF SwapEvent
<1>3. \A i \in 1..Len(s) : Fee(s[i]) \in Nat
  <2> SUFFICES ASSUME NEW i \in 1..Len(s) PROVE Fee(s[i]) \in Nat
    OBVIOUS
  <2> DEFINE x == s[i].in * s[i].bps
  <2>1. x \in Nat
    BY <1>2
  <2> HIDE DEF x
  <2>2. x \div FEE_SCALE \in Nat
    BY <2>1, BooksAssumption
  <2> QED
    BY <2>2 DEF Fee, x
<1>4. fees \in [1..Len(s) -> Nat] /\ volumes \in [1..Len(s) -> Nat]
  BY <1>1, <1>2, <1>3 DEF Volume
<1> QED
  BY <1>1, <1>4 DEF Volume

LEMMA AmountsAre ==
    ASSUME SwapsOK
    PROVE  /\ Fees \in Seq(Nat) /\ Len(Fees) = Len(swaps)
           /\ Volumes \in Seq(Nat) /\ Len(Volumes) = Len(swaps)
           /\ \A i \in 1..Len(swaps) : Fees[i] = Fee(swaps[i]) /\ Volumes[i] = swaps[i].in
           /\ DOMAIN swaps = 1..Len(swaps) /\ Len(swaps) \in Nat
<1>1. swaps \in Seq(SwapEvent)
  BY DEF SwapsOK
<1> QED
  BY <1>1, AmountsOf DEF Fees, Volumes

LEMMA TotalsAre ==
    ASSUME SwapsOK, NEW E
    PROVE  Total(Fee, E) = SumSeq(Picked(Fees, E)) /\ Total(Volume, E) = SumSeq(Picked(Volumes, E))
<1>1. /\ [i \in DOMAIN swaps |-> IF i \in E THEN Fee(swaps[i]) ELSE 0] = Picked(Fees, E)
      /\ [i \in DOMAIN swaps |-> IF i \in E THEN Volume(swaps[i]) ELSE 0] = Picked(Volumes, E)
  BY DEF Fees, Volumes, Picked
<1> QED
  BY <1>1 DEF Total

(* The revenue told so far is that of the ledgers told about.                 *)
RevenueOK ==
    /\ report \in [pc : {"idle", "scan"}, next : Nat \ {0}, to : Nat, total : Nat]
    /\ report.next <= head + 1
    /\ report.pc = "scan" => report.next <= report.to /\ report.to <= head
    /\ report.total = Total(Fee, ParseSwap(Upto(DOMAIN swaps, report.next - 1)))

BooksInv == SwapsOK /\ RevenueOK

LEMMA BooksInitInv == BooksInit => BooksInv
<1> SUFFICES ASSUME BooksInit PROVE BooksInv
  OBVIOUS
<1>1. head = 0 /\ swaps = <<>> /\ report = NoReport
  BY DEF BooksInit
<1>2. SwapsOK
  BY <1>1 DEF SwapsOK
<1>3. Total(Fee, ParseSwap(Upto(DOMAIN swaps, 0))) = 0
  <2> DEFINE E == ParseSwap(Upto(DOMAIN swaps, 0))
             p == Picked(Fees, E)
  <2>1. Fees \in Seq(Nat) /\ Len(Fees) = 0
    BY <1>1, <1>2, AmountsAre
  <2> HIDE DEF E
  <2>2. p \in Seq(Int) /\ Len(p) = 0
    BY <2>1, PickedIs
  <2>3. \A n \in 1..Len(p) : p[n] = 0
    BY <2>2
  <2> HIDE DEF p
  <2>4. SumSeq(p) = 0
    BY <2>2, <2>3, SumOfNothing
  <2>5. Total(Fee, E) = SumSeq(p)
    BY <1>2, TotalsAre DEF p
  <2> QED
    BY <2>4, <2>5 DEF E
<1>4. report.next - 1 = 0 /\ report.total = 0
  BY <1>1 DEF NoReport
<1>5. RevenueOK
  BY <1>1, <1>3, <1>4 DEF RevenueOK, NoReport
<1> QED
  BY <1>2, <1>5 DEF BooksInv

LEMMA RecordedIs ==
    ASSUME NEW e \in SwapShape, NEW l \in Nat \ {0}
    PROVE  Recorded(e, l) \in SwapEvent /\ Recorded(e, l).ledger = l
  BY DEF SwapShape, SwapEvent, Recorded

LEMMA EmitSwapsInv ==
    ASSUME BooksInv, NEW n \in 0..LongestLedger, NEW emitted \in [1..n -> Swaps], EmitSwaps(emitted)
    PROVE  BooksInv'
<1> DEFINE new == [i \in DOMAIN emitted |-> Recorded(emitted[i], head + 1)]
<1>1. /\ head \in Nat /\ swaps \in Seq(SwapEvent) /\ \A i \in 1..Len(swaps) : swaps[i].ledger <= head
  BY DEF BooksInv, SwapsOK
<1>2. head' = head + 1 /\ swaps' = swaps \o new /\ report' = report
  BY DEF EmitSwaps
<1>3. DOMAIN emitted = 1..n /\ \A i \in 1..n : emitted[i] \in SwapShape
  BY BooksAssumption
<1>4. \A i \in 1..n : new[i] \in SwapEvent /\ new[i].ledger = head + 1
  BY <1>1, <1>3, RecordedIs
<1>5. DOMAIN new = 1..n
  BY <1>3
<1>6. new \in Seq(SwapEvent) /\ Len(new) \in Nat
      /\ \A i \in 1..Len(new) : new[i].ledger = head + 1
  <2>1. n \in Nat
    OBVIOUS
  <2> HIDE DEF new
  <2>2. new = [i \in 1..n |-> new[i]]
    BY <1>4, <1>5 DEF new
  <2> QED
    BY <1>4, <1>5, <2>1, <2>2
<1> HIDE DEF new
<1>7. /\ swaps' \in Seq(SwapEvent) /\ Len(swaps') = Len(swaps) + Len(new) /\ Len(swaps) \in Nat
      /\ \A i \in 1..Len(swaps) : swaps'[i] = swaps[i]
      /\ \A i \in (Len(swaps) + 1)..Len(swaps') : swaps'[i].ledger = head + 1
  <2>1. swaps' \in Seq(SwapEvent) /\ Len(swaps') = Len(swaps) + Len(new) /\ Len(swaps) \in Nat
    BY <1>1, <1>2, <1>6
  <2>2. \A i \in 1..Len(swaps') : swaps'[i] = IF i <= Len(swaps) THEN swaps[i] ELSE new[i - Len(swaps)]
    BY <1>1, <1>2, <1>6
  <2>3. ASSUME NEW i \in (Len(swaps) + 1)..Len(swaps') PROVE swaps'[i].ledger = head + 1
    <3>1. i - Len(swaps) \in 1..Len(new) /\ i \in 1..Len(swaps') /\ ~(i <= Len(swaps))
      BY <2>1
    <3> QED
      BY <1>6, <2>2, <3>1
  <2> QED
    BY <2>1, <2>2, <2>3
<1>8. SwapsOK'
  <2>1. ASSUME NEW i \in 1..Len(swaps') PROVE swaps'[i].ledger <= head + 1
    <3>1. CASE i <= Len(swaps)
      <4>1. swaps'[i] = swaps[i] /\ swaps[i].ledger <= head /\ swaps[i] \in SwapEvent
        BY <1>1, <1>7, <3>1
      <4>2. swaps[i].ledger \in Nat
        BY <4>1 DEF SwapEvent
      <4> QED
        BY <1>1, <4>1, <4>2
    <3>2. CASE i > Len(swaps)
      <4>1. swaps'[i].ledger = head + 1
        BY <1>7, <3>2
      <4> QED
        BY <1>1, <4>1
    <3> QED
      BY <1>7, <3>1, <3>2
  <2> QED
    BY <1>1, <1>2, <1>7, <2>1 DEF SwapsOK
<1> DEFINE m == report.next - 1
           E == ParseSwap(Upto(DOMAIN swaps, m))
           F == ParseSwap(Upto(DOMAIN swaps, m))'
<1>9. m \in Nat /\ m <= head
  BY <1>1 DEF BooksInv, RevenueOK
<1>10. SwapsOK
  BY DEF BooksInv
<1>11. /\ Fees \in Seq(Nat) /\ Len(Fees) = Len(swaps) /\ Fees' \in Seq(Nat) /\ Len(Fees') = Len(swaps')
       /\ \A i \in 1..Len(swaps) : Fees[i] = Fee(swaps[i])
       /\ \A i \in 1..Len(swaps') : Fees'[i] = Fee(swaps'[i])
       /\ DOMAIN swaps = 1..Len(swaps) /\ DOMAIN swaps' = 1..Len(swaps')
  <2>1. /\ Fees \in Seq(Nat) /\ Len(Fees) = Len(swaps)
        /\ \A i \in 1..Len(swaps) : Fees[i] = Fee(swaps[i])
        /\ DOMAIN swaps = 1..Len(swaps)
    BY <1>10, AmountsAre
  <2>2. /\ Fees' \in Seq(Nat) /\ Len(Fees') = Len(swaps')
        /\ \A i \in 1..Len(swaps') : Fees'[i] = Fee(swaps'[i])
        /\ DOMAIN swaps' = 1..Len(swaps')
    BY <1>7, AmountsOf DEF Fees
  <2> QED
    BY <2>1, <2>2
<1>12. \A i \in 1..Len(swaps) : i \in E <=> i \in F
  BY <1>2, <1>7, <1>11 DEF ParseSwap, Upto, Decodes
<1>13. \A i \in (Len(swaps) + 1)..Len(swaps') : i \notin F
  <2> SUFFICES ASSUME NEW i \in (Len(swaps) + 1)..Len(swaps'), i \in F PROVE FALSE
    OBVIOUS
  <2>1. swaps'[i].ledger <= m
    BY <1>2 DEF ParseSwap, Upto
  <2> QED
    BY <1>1, <1>7, <1>9, <2>1
<1> HIDE DEF E, F, m
<1>14. SumSeq(Picked(Fees', F)) = SumSeq(Picked(Fees, E))
  <2>1. Len(Fees) <= Len(Fees')
    BY <1>6, <1>7, <1>11
  <2>2. \A i \in 1..Len(Fees) : Fees'[i] = Fees[i] /\ (i \in E <=> i \in F)
    BY <1>6, <1>7, <1>11, <1>12
  <2>3. \A i \in (Len(Fees) + 1)..Len(Fees') : i \notin F
    BY <1>11, <1>13
  <2> DEFINE x == Fees
             y == Fees'
  <2>4. x \in Seq(Nat) /\ y \in Seq(Nat)
    BY <1>11
  <2> HIDE DEF x, y
  <2>5. SumSeq(Picked(y, F)) = SumSeq(Picked(x, E))
    <3>1. Len(x) <= Len(y)
      BY <2>1 DEF x, y
    <3>2. \A i \in 1..Len(x) : y[i] = x[i] /\ (i \in E <=> i \in F)
      BY <2>2 DEF x, y
    <3>3. \A i \in (Len(x) + 1)..Len(y) : i \notin F
      BY <2>3 DEF x, y
    <3> QED
      BY <2>4, <3>1, <3>2, <3>3, PickedLonger
  <2> QED
    BY <2>5 DEF x, y
<1>15. Total(Fee, E) = SumSeq(Picked(Fees, E))
  BY <1>10, TotalsAre
<1>16. Total(Fee, ParseSwap(Upto(DOMAIN swaps, report.next - 1)))' = SumSeq(Picked(Fees', F))
  BY <1>2 DEF F, m, Total, Fees, Picked
<1>17. report.total = Total(Fee, E)
  BY DEF BooksInv, RevenueOK, E, m
<1>18. report.total' = Total(Fee, ParseSwap(Upto(DOMAIN swaps, report.next - 1)))'
  BY <1>2, <1>14, <1>15, <1>16, <1>17
<1>19. RevenueOK'
  <2>1. /\ report \in [pc : {"idle", "scan"}, next : Nat \ {0}, to : Nat, total : Nat]
        /\ report.next <= head + 1
        /\ report.pc = "scan" => report.next <= report.to /\ report.to <= head
    BY DEF BooksInv, RevenueOK
  <2>2. report.next \in Nat /\ report.to \in Nat
    BY <2>1
  <2>3. report.next <= head + 1 + 1 /\ (report.pc = "scan" => report.next <= report.to /\ report.to <= head + 1)
    BY <1>1, <2>1, <2>2
  <2> QED
    BY <1>2, <1>18, <2>1, <2>3 DEF RevenueOK
<1> QED
  BY <1>8, <1>19 DEF BooksInv

LEMMA AskRevenueInv == BooksInv /\ AskRevenue => BooksInv'
<1> SUFFICES ASSUME BooksInv, AskRevenue PROVE BooksInv'
  OBVIOUS
<1>1. /\ report \in [pc : {"idle", "scan"}, next : Nat \ {0}, to : Nat, total : Nat]
      /\ head \in Nat
      /\ report' = [report EXCEPT !.pc = "scan", !.to = head] /\ report.next <= head
      /\ head' = head /\ swaps' = swaps
  BY DEF BooksInv, SwapsOK, RevenueOK, AskRevenue
<1>2. /\ report' \in [pc : {"idle", "scan"}, next : Nat \ {0}, to : Nat, total : Nat]
      /\ report'.pc = "scan" /\ report'.next = report.next /\ report'.to = head
      /\ report'.total = report.total
  BY <1>1
<1>3. report.next <= head + 1
  BY <1>1
<1>4. SwapsOK'
  BY <1>1 DEF BooksInv, SwapsOK
<1>5. Total(Fee, ParseSwap(Upto(DOMAIN swaps, report.next - 1)))'
      = Total(Fee, ParseSwap(Upto(DOMAIN swaps, report.next - 1)))
  BY <1>1, <1>2 DEF Total, ParseSwap, Upto, Decodes
<1>6. report.total = Total(Fee, ParseSwap(Upto(DOMAIN swaps, report.next - 1)))
  BY DEF BooksInv, RevenueOK
<1>7. RevenueOK'
  BY <1>1, <1>2, <1>3, <1>5, <1>6 DEF RevenueOK
<1> QED
  BY <1>4, <1>7 DEF BooksInv

LEMMA RevenueAnsweredInv == BooksInv /\ RevenueAnswered => BooksInv'
<1> SUFFICES ASSUME BooksInv, RevenueAnswered PROVE BooksInv'
  OBVIOUS
<1> DEFINE a == report.next
           b == report.to
           E == ParseSwap(Upto(DOMAIN swaps, a - 1))
           F == ParseSwap(Upto(From(a), b))
           G == ParseSwap(Upto(DOMAIN swaps, b))
<1>1. /\ report \in [pc : {"idle", "scan"}, next : Nat \ {0}, to : Nat, total : Nat]
      /\ head \in Nat /\ a \in Nat \ {0} /\ b \in Nat /\ a <= b /\ b <= head
      /\ report' = [report EXCEPT !.pc = "idle", !.next = b + 1,
                                  !.total = report.total + FeeRevenue(From(a), b)]
      /\ head' = head /\ swaps' = swaps
  BY DEF BooksInv, SwapsOK, RevenueOK, RevenueAnswered
<1>2. SwapsOK
  BY DEF BooksInv
<1>3. Fees \in Seq(Nat) /\ Len(Fees) = Len(swaps) /\ DOMAIN swaps = 1..Len(swaps)
  BY <1>2, AmountsAre
<1>4. \A i \in 1..Len(Fees) : (i \in G <=> i \in E \/ i \in F) /\ ~(i \in E /\ i \in F)
  <2> SUFFICES ASSUME NEW i \in 1..Len(Fees)
               PROVE  (i \in G <=> i \in E \/ i \in F) /\ ~(i \in E /\ i \in F)
    OBVIOUS
  <2> DEFINE l == swaps[i].ledger
             ok == swaps[i].succeeded /\ Decodes(swaps[i])
  <2>1. swaps[i] \in SwapEvent
    BY <1>2, <1>3 DEF SwapsOK
  <2>2. l \in Nat
    BY <2>1 DEF SwapEvent
  <2>3. /\ i \in G <=> ok /\ l <= b
        /\ i \in E <=> ok /\ l <= a - 1
        /\ i \in F <=> ok /\ a <= l /\ l <= b
    BY <1>1, <1>3, <2>2 DEF ParseSwap, Upto, From
  <2> HIDE DEF E, F, G, l, ok
  <2>4. a <= b /\ a \in Nat /\ b \in Nat
    BY <1>1
  <2> HIDE DEF a, b
  <2> QED
    BY <2>2, <2>3, <2>4
<1> HIDE DEF E, F, G
<1>5. SumSeq(Picked(Fees, G)) = SumSeq(Picked(Fees, E)) + SumSeq(Picked(Fees, F))
  BY <1>3, <1>4, PickedParts
<1>6. Total(Fee, G) = Total(Fee, E) + Total(Fee, F) /\ Total(Fee, F) \in Nat
  BY <1>2, <1>3, <1>5, TotalsAre, PickedSum
<1>7. report.total = Total(Fee, E) /\ FeeRevenue(From(a), b) = Total(Fee, F)
  BY DEF BooksInv, RevenueOK, E, F, FeeRevenue
<1>8. report.total \in Nat
  BY <1>1
<1>9. /\ report' \in [pc : {"idle", "scan"}, next : Nat \ {0}, to : Nat, total : Nat]
      /\ report'.pc = "idle" /\ report'.next = b + 1 /\ report'.total = Total(Fee, G)
  <2>1. report.total + FeeRevenue(From(a), b) = Total(Fee, G) /\ Total(Fee, G) \in Nat
    BY <1>6, <1>7, <1>8
  <2>2. b + 1 \in Nat \ {0}
    BY <1>1
  <2> HIDE DEF a, b
  <2> QED
    BY <1>1, <2>1, <2>2
<1>10. report'.next - 1 = b /\ report'.next <= head + 1
  BY <1>1, <1>9
<1>11. Total(Fee, ParseSwap(Upto(DOMAIN swaps, report.next - 1)))' = Total(Fee, G)
  BY <1>1, <1>10 DEF Total, ParseSwap, Upto, Decodes, G
<1>12. SwapsOK'
  BY <1>1, <1>2 DEF SwapsOK
<1>13. RevenueOK'
  BY <1>1, <1>9, <1>10, <1>11 DEF RevenueOK
<1> QED
  BY <1>12, <1>13 DEF BooksInv

LEMMA BooksNextInv == BooksInv /\ [BooksNext]_booksVars => BooksInv'
<1> SUFFICES ASSUME BooksInv, [BooksNext]_booksVars PROVE BooksInv'
  OBVIOUS
<1>1. CASE \E emitted \in Emitted : EmitSwaps(emitted)
  <2>1. PICK n \in 0..LongestLedger : \E emitted \in [1..n -> Swaps] : EmitSwaps(emitted)
    BY <1>1 DEF Emitted
  <2>2. PICK emitted \in [1..n -> Swaps] : EmitSwaps(emitted)
    BY <2>1
  <2> QED
    BY <2>2, EmitSwapsInv
<1>2. CASE AskRevenue
  BY <1>2, AskRevenueInv
<1>3. CASE RevenueAnswered
  BY <1>3, RevenueAnsweredInv
<1>4. CASE UNCHANGED booksVars
  <2>1. head' = head /\ swaps' = swaps /\ report' = report
    BY <1>4 DEF booksVars
  <2> QED
    BY <2>1 DEF BooksInv, SwapsOK, RevenueOK, Total, ParseSwap, Upto, Decodes
<1> QED
  BY <1>1, <1>2, <1>3, <1>4 DEF BooksNext

LEMMA MaxTwo ==
    ASSUME NEW a \in Int, NEW b \in Int
    PROVE  Max({a, b}) = IF a >= b THEN a ELSE b
<1> DEFINE S == {a, b}
           m == IF a >= b THEN a ELSE b
<1>1. m \in S /\ (\A y \in S : m >= y) /\ \A x \in S : (\A y \in S : x >= y) => x = m
  OBVIOUS
<1> HIDE DEF S, m
<1>2. (CHOOSE x \in S : \A y \in S : x >= y) = m
  BY <1>1
<1> QED
  BY <1>2 DEF Max, S, m

(* A set of numbers that is not empty has a least one.                        *)
LEMMA LeastOf ==
    ASSUME NEW S, S # {}, NEW v \in [S -> Nat]
    PROVE  \E m \in S : \A u \in S : v[m] <= v[u]
<1> DEFINE V == {v[u] : u \in S}
<1>1. V # {} /\ V \subseteq Nat
  OBVIOUS
<1>2. PICK k \in V : \A y \in V : ~(<<y, k>> \in OpToRel(<, Nat))
  <2> HIDE DEF V
  <2> QED
    BY <1>1, NatLessThanWellFounded, WFMin, Zenon
<1>3. \A y \in V : ~(y < k)
  BY <1>1, <1>2 DEF OpToRel
<1>4. \A y \in V : k <= y
  <2> HIDE DEF V
  <2> QED
    BY <1>1, <1>3
<1> QED
  BY <1>2, <1>4

(* A finite set can be listed with the greatest first.                        *)
Ranking(S, v, b) ==
    /\ b \in [1..Cardinality(S) -> S] /\ Range(b) = S
    /\ \A i, j \in 1..Cardinality(S) : i < j => v[b[i]] >= v[b[j]]

LEMMA RankingExists ==
    ASSUME NEW R, IsFiniteSet(R), NEW v \in [R -> Nat]
    PROVE  \E b : Ranking(R, v, b)
<1> DEFINE N == Cardinality(R)
           T == {n \in 0..N : \A S \in SUBSET R : Cardinality(S) = n => \E b : Ranking(S, v, b)}
<1>1. N \in Nat
  BY FS_CardinalityType
<1>2. 0 \in T
  <2> SUFFICES ASSUME NEW S \in SUBSET R, Cardinality(S) = 0 PROVE \E b : Ranking(S, v, b)
    BY <1>1
  <2>1. S = {}
    BY FS_Subset, FS_EmptySet
  <2> DEFINE b == [i \in 1..0 |-> i]
  <2>2. b \in [1..Cardinality(S) -> S] /\ Range(b) = S /\ 1..Cardinality(S) = {}
    BY <2>1 DEF Range
  <2>3. Ranking(S, v, b)
    BY <2>2 DEF Ranking
  <2> HIDE DEF b
  <2> QED
    BY <2>3
<1>3. \A n \in 1..N : n - 1 \in T => n \in T
  <2> SUFFICES ASSUME NEW n \in 1..N, n - 1 \in T, NEW S \in SUBSET R, Cardinality(S) = n
               PROVE  \E b : Ranking(S, v, b)
    BY <1>1
  <2>1. IsFiniteSet(S) /\ S # {} /\ n \in Nat
    BY <1>1, FS_Subset, FS_EmptySet
  <2>2. PICK m \in S : \A u \in S : v[m] <= v[u]
    <3> DEFINE w == [u \in S |-> v[u]]
    <3>1. w \in [S -> Nat] /\ \A u \in S : w[u] = v[u]
      OBVIOUS
    <3> HIDE DEF w
    <3>2. \E x \in S : \A u \in S : w[x] <= w[u]
      BY <2>1, <3>1, LeastOf
    <3> QED
      BY <3>1, <3>2
  <2> DEFINE Q == S \ {m}
  <2>3. Q \in SUBSET R /\ Cardinality(Q) = n - 1
    BY <2>1, FS_RemoveElement
  <2>4. PICK a : Ranking(Q, v, a)
    <3> HIDE DEF Q
    <3> QED
      BY <2>3
  <2> DEFINE b == [i \in 1..n |-> IF i = n THEN m ELSE a[i]]
  <2>5. /\ a \in [1..(n - 1) -> Q] /\ Range(a) = Q
        /\ \A i, j \in 1..(n - 1) : i < j => v[a[i]] >= v[a[j]]
    BY <2>3, <2>4 DEF Ranking
  <2>6. \A i \in 1..n : i # n => i \in 1..(n - 1)
    BY <2>1
  <2>7. b \in [1..n -> S]
    BY <2>5, <2>6
  <2>8. Range(b) = S
    <3>1. \A u \in S : \E i \in 1..n : b[i] = u
      <4> SUFFICES ASSUME NEW u \in S PROVE \E i \in 1..n : b[i] = u
        OBVIOUS
      <4>1. CASE u = m
        <5>1. n \in 1..n /\ b[n] = m
          BY <2>1
        <5> QED
          BY <4>1, <5>1
      <4>2. CASE u # m
        <5>1. PICK i \in 1..(n - 1) : a[i] = u
          BY <2>5, <4>2 DEF Range
        <5>2. i \in 1..n /\ i # n
          BY <2>1
        <5> QED
          BY <5>1, <5>2
      <4> QED
        BY <4>1, <4>2
    <3> HIDE DEF b
    <3> QED
      BY <2>7, <3>1 DEF Range
  <2>9. \A i, j \in 1..n : i < j => v[b[i]] >= v[b[j]]
    <3> SUFFICES ASSUME NEW i \in 1..n, NEW j \in 1..n, i < j PROVE v[b[i]] >= v[b[j]]
      OBVIOUS
    <3>1. i # n /\ i \in 1..(n - 1) /\ a[i] \in S /\ b[i] = a[i]
      BY <2>1, <2>5
    <3>2. CASE j = n
      BY <2>2, <3>1, <3>2
    <3>3. CASE j # n
      <4>1. j \in 1..(n - 1) /\ b[j] = a[j]
        BY <2>6, <3>3
      <4> QED
        BY <2>5, <3>1, <4>1
    <3> QED
      BY <3>2, <3>3
  <2> HIDE DEF b
  <2>10. Ranking(S, v, b)
    BY <2>7, <2>8, <2>9 DEF Ranking
  <2> QED
    BY <2>10
<1> HIDE DEF T, N
<1>4. N \in T
  BY <1>1, <1>2, <1>3, CountUp
<1> QED
  BY <1>4 DEF T, N

(* The entries of a list add up by the member of a set that each belongs to.  *)
Group(E, who, u) == {i \in E : who[i] = u}

SumsOfGroups(a, E, who, S, f) ==
    /\ \A i \in 1..Len(a) : i \in E => who[i] \in S
    /\ \A u \in S : f[u] = SumSeq(Picked(a, Group(E, who, u)))

LEMMA SumOfGroups ==
    ASSUME NEW a \in Seq(Nat), NEW E, NEW S, IsFiniteSet(S), NEW who, NEW f,
           SumsOfGroups(a, E, who, S, f)
    PROVE  SumOf(f, S) = SumSeq(Picked(a, E))
<1>0. /\ \A i \in 1..Len(a) : i \in E => who[i] \in S
      /\ \A u \in S : f[u] = SumSeq(Picked(a, Group(E, who, u)))
  BY DEF SumsOfGroups
<1> DEFINE N == Cardinality(S)
           e == SetToSeq(S)
           s == [k \in DOMAIN e |-> f[e[k]]]
<1>1. N \in Nat /\ e \in [1..N -> S] /\ IsInjective(e)
  <2>1. N \in Nat /\ \E b : b \in [1..N -> S] /\ IsInjective(b)
    <3>1. N \in Nat /\ ExistsBijection(1..N, S)
      BY FS_CardinalityType
    <3>2. PICK b \in Bijection(1..N, S) : TRUE
      BY <3>1 DEF ExistsBijection
    <3> HIDE DEF N
    <3>3. b \in [1..N -> S] /\ \A x, y \in 1..N : b[x] = b[y] => x = y
      BY <3>2 DEF Bijection, Injection, IsInjective
    <3>4. IsInjective(b)
      BY <3>3 DEF IsInjective
    <3> QED
      BY <3>1, <3>3, <3>4
  <2> QED
    BY <2>1 DEF SetToSeq
<1> HIDE DEF e
<1>2. \A u \in S : \E k \in 1..N : e[k] = u
  <2>1. e \in Injection(1..N, S)
    BY <1>1 DEF Injection, IsInjective
  <2>2. IsFiniteSet(1..N) /\ Cardinality(1..N) = N
    <3>0. N \in Int
      BY <1>1
    <3>1. Cardinality(1..N) = IF 1 > N THEN 0 ELSE N - 1 + 1
      BY <3>0, FS_Interval
    <3>2. IsFiniteSet(1..N)
      BY <3>0, FS_Interval
    <3> HIDE DEF N
    <3> QED
      BY <1>1, <3>1, <3>2
  <2>3. e \in Surjection(1..N, S)
    BY <2>1, <2>2, FS_Injection
  <2> QED
    BY <2>3 DEF Surjection
<1> HIDE DEF N
<1>3. \A u \in S : f[u] \in Nat
  <2> SUFFICES ASSUME NEW u \in S PROVE f[u] \in Nat
    OBVIOUS
  <2> DEFINE G == Group(E, who, u)
  <2>1. f[u] = SumSeq(Picked(a, G))
    BY <1>0
  <2> HIDE DEF G
  <2> QED
    BY <2>1, PickedSum
<1>4. s \in Seq(Int) /\ Len(s) = N /\ \A k \in 1..N : s[k] = f[e[k]]
  <2>1. s \in [1..N -> Int]
    BY <1>1, <1>3
  <2> QED
    BY <1>1, <2>1
<1>5. SumOf(f, S) = SumSeq(s)
  BY DEF SumOf, e
<1> HIDE DEF s
<1>6. PICK g : SumsOf(s, g) /\ SumSeq(s) = g[Len(s)]
  BY <1>4, SumSeqIs
<1>7. /\ g \in [0..N -> Int] /\ g[0] = 0
      /\ \A n \in 1..N : g[n] = g[n - 1] + s[n]
  BY <1>4, <1>6 DEF SumsOf
<1> DEFINE Up(n) == {i \in E : \E k \in 1..n : who[i] = e[k]}
           T == {n \in 0..N : g[n] = SumSeq(Picked(a, Up(n)))}
<1>8. 0 \in T
  <2>1. Up(0) = {}
    OBVIOUS
  <2>2. Picked(a, {}) \in Seq(Int) /\ \A n \in 1..Len(Picked(a, {})) : Picked(a, {})[n] = 0
    BY PickedIs
  <2>3. SumSeq(Picked(a, {})) = 0
    BY <2>2, SumOfNothing
  <2>4. 0 \in 0..N
    BY <1>1
  <2> QED
    BY <1>7, <2>1, <2>3, <2>4
<1>9. \A n \in 1..N : n - 1 \in T => n \in T
  <2> SUFFICES ASSUME NEW n \in 1..N, n - 1 \in T PROVE n \in T
    OBVIOUS
  <2> DEFINE A == Up(n - 1)
             B == Up(n)
             C == Group(E, who, e[n])
  <2>1. \A k \in 1..(n - 1) : k \in 1..n /\ k # n /\ e[k] # e[n]
    <3> SUFFICES ASSUME NEW k \in 1..(n - 1) PROVE k \in 1..n /\ k # n /\ e[k] # e[n]
      OBVIOUS
    <3>1. k \in 1..n /\ k # n /\ k \in 1..N /\ DOMAIN e = 1..N
      BY <1>1
    <3> QED
      BY <1>1, <3>1 DEF IsInjective
  <2>2. \A k \in 1..n : k = n \/ k \in 1..(n - 1)
    BY <1>1
  <2>2a. n \in 1..n
    BY <1>1
  <2>3. \A i \in 1..Len(a) : (i \in B <=> i \in A \/ i \in C) /\ ~(i \in A /\ i \in C)
    BY <2>1, <2>2, <2>2a DEF Group
  <2> HIDE DEF A, B, C
  <2>4. SumSeq(Picked(a, B)) = SumSeq(Picked(a, A)) + SumSeq(Picked(a, C))
    BY <2>3, PickedParts
  <2>5. s[n] = SumSeq(Picked(a, C))
    <3>1. e[n] \in S
      BY <1>1
    <3> QED
      BY <1>0, <1>4, <3>1 DEF C
  <2>6. g[n - 1] = SumSeq(Picked(a, A)) /\ g[n] = g[n - 1] + s[n]
    BY <1>7 DEF A
  <2>7. g[n] = SumSeq(Picked(a, B)) /\ n \in 0..N
    BY <1>1, <2>4, <2>5, <2>6
  <2> QED
    BY <2>7 DEF B
<1> HIDE DEF T
<1>10. N \in T
  BY <1>1, <1>8, <1>9, CountUp
<1>11. g[N] = SumSeq(Picked(a, Up(N)))
  BY <1>10 DEF T
<1>12. \A i \in 1..Len(a) : (i \in Up(N) <=> i \in E \/ i \in {}) /\ ~(i \in E /\ i \in {})
  BY <1>0, <1>2
<1> DEFINE Z == {}
           W == Up(N)
<1>13. \A i \in 1..Len(a) : (i \in W <=> i \in E \/ i \in Z) /\ ~(i \in E /\ i \in Z)
  BY <1>12
<1>14. SumSeq(Picked(a, Z)) = 0
  <2>2. Picked(a, Z) \in Seq(Int) /\ \A n \in 1..Len(Picked(a, Z)) : Picked(a, Z)[n] = 0
    BY PickedIs
  <2> QED
    BY <2>2, SumOfNothing
<1>14a. g[N] = SumSeq(Picked(a, W))
  BY <1>11
<1> HIDE DEF Z, W
<1>15. SumSeq(Picked(a, W)) = SumSeq(Picked(a, E)) + SumSeq(Picked(a, Z)) /\ SumSeq(Picked(a, E)) \in Nat
  BY <1>13, PickedParts, PickedSum
<1> QED
  BY <1>4, <1>5, <1>6, <1>14, <1>14a, <1>15

-----------------------------------------------------------------------------
(* The windows of the reports. *)

LEMMA StartIs ==
    ASSUME SwapsOK, NEW l \in Nat
    PROVE  PeriodStart(l) = (IF 1 >= head - l THEN 1 ELSE head - l) /\ PeriodStart(l) \in Nat
  BY MaxTwo DEF SwapsOK, PeriodStart

LEMMA EventIs ==
    ASSUME SwapsOK
    PROVE  \A i \in DOMAIN swaps :
              /\ i \in 1..Len(swaps) /\ swaps[i] \in SwapEvent
              /\ swaps[i].ledger \in Nat /\ swaps[i].ledger >= 1 /\ swaps[i].ledger <= head
              /\ swaps[i].sender \in Users /\ swaps[i].in \in Nat /\ swaps[i].in > 0
<1> SUFFICES ASSUME NEW i \in DOMAIN swaps
             PROVE  /\ i \in 1..Len(swaps) /\ swaps[i] \in SwapEvent
                    /\ swaps[i].ledger \in Nat /\ swaps[i].ledger >= 1 /\ swaps[i].ledger <= head
                    /\ swaps[i].sender \in Users /\ swaps[i].in \in Nat /\ swaps[i].in > 0
  OBVIOUS
<1>1. i \in 1..Len(swaps) /\ swaps[i] \in SwapEvent /\ swaps[i].ledger <= head
  BY DEF SwapsOK
<1> DEFINE e == swaps[i]
<1>2. e \in SwapEvent
  BY <1>1
<1> HIDE DEF e
<1>3. e.ledger \in Nat \ {0} /\ e.sender \in Users /\ e.in \in Nat \ {0}
  BY <1>2 DEF SwapEvent
<1> QED
  BY <1>1, <1>3 DEF e

LEMMA PartsAddUp ==
    ASSUME SwapsOK, NEW E, NEW F, NEW G,
           \A i \in DOMAIN swaps : (i \in G <=> i \in E \/ i \in F) /\ ~(i \in E /\ i \in F)
    PROVE  Total(Fee, G) = Total(Fee, E) + Total(Fee, F)
<1>1. \A i \in 1..Len(Fees) : (i \in G <=> i \in E \/ i \in F) /\ ~(i \in E /\ i \in F)
  BY AmountsAre
<1>2. SumSeq(Picked(Fees, G)) = SumSeq(Picked(Fees, E)) + SumSeq(Picked(Fees, F))
  BY <1>1, AmountsAre, PickedParts
<1> QED
  BY <1>2, TotalsAre

(* The treasury's halves.                                                     *)
LEMMA HalvesAddUp ==
    ASSUME SwapsOK, NEW from, NEW to
    PROVE  FetchPoolRevenue(from, to).revenue
             = FetchPoolRevenue(from, to).firstHalf + FetchPoolRevenue(from, to).secondHalf
<1> DEFINE G == ParseSwapEventForRevenue(Upto(From(from), to))
           E == Upto(G, (from + to) \div 2)
           F == G \ E
<1>1. \A i \in DOMAIN swaps : (i \in G <=> i \in E \/ i \in F) /\ ~(i \in E /\ i \in F)
  BY DEF Upto
<1>2. /\ FetchPoolRevenue(from, to).revenue = Total(Fee, G)
      /\ FetchPoolRevenue(from, to).firstHalf = Total(Fee, E)
      /\ FetchPoolRevenue(from, to).secondHalf = Total(Fee, F)
  BY DEF FetchPoolRevenue
<1> HIDE DEF E, F, G
<1> QED
  BY <1>1, <1>2, PartsAddUp

(* FeeModule counts some of the treasury's events.                            *)
LEMMA FeesWithinRevenue ==
    ASSUME SwapsOK, NEW from, NEW to
    PROVE  FeeRevenue(From(from), to) <= FetchPoolRevenue(from, to).revenue
<1> DEFINE E == ParseSwap(Upto(From(from), to))
           G == ParseSwapEventForRevenue(Upto(From(from), to))
<1>1. \A i \in 1..Len(Fees) : i \in E => i \in G
  BY DEF ParseSwap, ParseSwapEventForRevenue, Decodes
<1>2. FetchPoolRevenue(from, to).revenue = Total(Fee, G) /\ FeeRevenue(From(from), to) = Total(Fee, E)
  BY DEF FetchPoolRevenue, FeeRevenue
<1> HIDE DEF E, G
<1>3. SumSeq(Picked(Fees, E)) <= SumSeq(Picked(Fees, G))
  BY <1>1, AmountsAre, PickedMore
<1> QED
  BY <1>2, <1>3, TotalsAre

(* The windows of the metrics.                                                *)
LEMMA ActivityAddsUp ==
    ASSUME SwapsOK, NEW period
    PROVE  FetchPoolSwapActivity(period).currentRevenue + FetchPoolSwapActivity(period).previousRevenue
             = FeeRevenue(From(PeriodStart(2 * period)), head)
<1> DEFINE G == ParseSwap(Upto(From(PeriodStart(2 * period)), head))
           E == {i \in G : InCurrent(swaps[i], PeriodStart(period))}
           F == G \ E
<1>1. \A i \in DOMAIN swaps : (i \in G <=> i \in E \/ i \in F) /\ ~(i \in E /\ i \in F)
  OBVIOUS
<1>2. /\ FeeRevenue(From(PeriodStart(2 * period)), head) = Total(Fee, G)
      /\ FetchPoolSwapActivity(period).currentRevenue = Total(Fee, E)
      /\ FetchPoolSwapActivity(period).previousRevenue = Total(Fee, F)
  BY DEF FetchPoolSwapActivity, FeeRevenue
<1> HIDE DEF E, F, G
<1> QED
  BY <1>1, <1>2, PartsAddUp

-----------------------------------------------------------------------------
(* Reports of complete events. *)

Complete == \A i \in DOMAIN swaps : swaps[i].lacks = "none" /\ swaps[i].succeeded

(* The swaps of a period.                                                     *)
Lately(period) == From(PeriodStart(period))
By(u, E) == {i \in E : swaps[i].sender = u}

LEMMA LatelyIs ==
    ASSUME SwapsOK, Complete, NEW period \in Nat
    PROVE  /\ ParseSwap(Upto(From(PeriodStart(period)), head)) = Lately(period)
           /\ ParseSwapEventForRevenue(Upto(From(PeriodStart(period)), head)) = Lately(period)
           /\ {i \in ParseSwap(Upto(From(PeriodStart(2 * period)), head)) :
                 InCurrent(swaps[i], PeriodStart(period))} = Lately(period)
<1>1. \A i \in DOMAIN swaps : swaps[i].ledger \in Nat /\ swaps[i].ledger <= head
  BY EventIs
<1>2. PeriodStart(2 * period) <= PeriodStart(period) /\ PeriodStart(2 * period) \in Nat
      /\ PeriodStart(period) \in Nat
  <2>1. 2 * period \in Nat /\ head \in Nat
    BY DEF SwapsOK
  <2> QED
    BY <2>1, StartIs
<1>3. \A i \in DOMAIN swaps : swaps[i].ledger >= PeriodStart(period)
                               => swaps[i].ledger >= PeriodStart(2 * period)
  BY <1>1, <1>2
<1> QED
  BY <1>1, <1>3 DEF Lately, ParseSwap, ParseSwapEventForRevenue, Decodes, Upto, From, InCurrent, Complete

LEMMA BoardIs ==
    ASSUME SwapsOK, Complete, NEW period \in Nat, NEW u \in Users
    PROVE  LeaderboardWindows(period)[u].current = Total(Volume, By(u, Lately(period)))
<1> DEFINE start  == PeriodStart(period + Day)
           events == {i \in From(start) : swaps[i].lacks # "sender"}
           cur    == Max({start, head - period})
           mine   == {i \in events : swaps[i].sender = u /\ swaps[i].ledger \in cur..head}
<1>1. LeaderboardWindows(period)[u].current = Total(Volume, mine)
  BY DEF LeaderboardWindows
<1>2. Day \in Nat /\ head \in Nat /\ period + Day \in Nat
  BY BooksAssumption DEF SwapsOK
<1>3. start = (IF 1 >= head - (period + Day) THEN 1 ELSE head - (period + Day)) /\ start \in Nat
  BY <1>2, StartIs
<1>4. PeriodStart(period) = (IF 1 >= head - period THEN 1 ELSE head - period)
      /\ PeriodStart(period) \in Nat
  BY StartIs
<1> HIDE DEF start
<1>5. cur = IF start >= head - period THEN start ELSE head - period
  <2>1. start \in Int /\ head - period \in Int
    BY <1>2, <1>3
  <2> QED
    BY <2>1, MaxTwo
<1> HIDE DEF cur
<1>6. cur = PeriodStart(period) /\ start <= cur
  BY <1>2, <1>3, <1>4, <1>5
<1>7. \A i \in DOMAIN swaps : swaps[i].ledger \in Nat /\ swaps[i].ledger <= head
  BY EventIs
<1>8. \A i \in DOMAIN swaps : /\ swaps[i].ledger \in cur..head <=> swaps[i].ledger >= PeriodStart(period)
                              /\ swaps[i].ledger >= PeriodStart(period) => swaps[i].ledger >= start
  BY <1>2, <1>3, <1>4, <1>6, <1>7
<1>9. mine = By(u, Lately(period))
  BY <1>8 DEF By, Lately, From, Complete
<1> QED
  BY <1>1, <1>9

(* A sender traded something.                                                 *)
LEMMA TradersTrade ==
    ASSUME SwapsOK, NEW E, E \subseteq DOMAIN swaps, NEW u
    PROVE  /\ Total(Volume, By(u, E)) \in Nat
           /\ Total(Volume, By(u, E)) > 0 <=> u \in Senders(E)
<1> DEFINE M == By(u, E)
<1>1. Total(Volume, M) = SumSeq(Picked(Volumes, M)) /\ SumSeq(Picked(Volumes, M)) \in Nat
  BY TotalsAre, AmountsAre, PickedSum
<1>2. ASSUME u \in Senders(E) PROVE SumSeq(Picked(Volumes, M)) > 0
  <2>1. PICK k \in E : swaps[k].sender = u
    BY <1>2 DEF Senders
  <2>2. k \in 1..Len(Volumes) /\ Volumes[k] > 0 /\ k \in M
    BY <2>1, AmountsAre, EventIs DEF By
  <2> DEFINE p == Picked(Volumes, {k})
  <2>3. /\ p \in Seq(Int) /\ Len(p) = Len(Volumes)
        /\ \A i \in 1..Len(Volumes) : p[i] = IF i \in {k} THEN Volumes[i] ELSE 0
    BY AmountsAre, PickedIs
  <2> HIDE DEF p
  <2>4. k \in 1..Len(p) /\ \A n \in 1..Len(p) : n # k => p[n] = 0
    BY <2>2, <2>3
  <2>5. SumSeq(p) = p[k] /\ p[k] = Volumes[k]
    BY <2>2, <2>3, <2>4, SumOnce
  <2> HIDE DEF M
  <2>6. SumSeq(p) <= SumSeq(Picked(Volumes, M))
    <3>1. \A i \in 1..Len(Volumes) : i \in {k} => i \in M
      BY <2>2
    <3> QED
      BY <3>1, AmountsAre, PickedMore DEF p
  <2>7. Volumes[k] \in Nat
    BY <2>2, AmountsAre
  <2> QED
    BY <1>1, <2>2, <2>5, <2>6, <2>7
<1>3. ASSUME u \notin Senders(E) PROVE SumSeq(Picked(Volumes, M)) = 0
  <2>1. M = {}
    BY <1>3 DEF By, Senders
  <2>2. Picked(Volumes, M) \in Seq(Int)
        /\ \A n \in 1..Len(Picked(Volumes, M)) : Picked(Volumes, M)[n] = 0
    <3> DEFINE Z == {}
    <3>1. /\ Picked(Volumes, Z) \in Seq(Int) /\ Len(Picked(Volumes, Z)) = Len(Volumes)
          /\ \A i \in 1..Len(Volumes) : Picked(Volumes, Z)[i] = IF i \in Z THEN Volumes[i] ELSE 0
      BY AmountsAre, PickedIs
    <3> QED
      BY <2>1, <3>1
  <2> QED
    BY <2>2, SumOfNothing
<1> HIDE DEF M
<1>4. Total(Volume, M) \in Nat /\ (Total(Volume, M) > 0 <=> u \in Senders(E))
  BY <1>1, <1>2, <1>3
<1> QED
  BY <1>4 DEF M

(* There are finitely many senders.                                           *)
LEMMA SendersFinite ==
    ASSUME SwapsOK, NEW E, E \subseteq DOMAIN swaps
    PROVE  IsFiniteSet(Senders(E)) /\ IsFiniteSet(E)
<1> DEFINE f == [i \in E |-> swaps[i].sender]
<1>1. IsFiniteSet(DOMAIN swaps)
  <2>1. DOMAIN swaps = 1..Len(swaps) /\ Len(swaps) \in Nat
    BY AmountsAre
  <2>2. IsFiniteSet(1..Len(swaps))
    BY <2>1, FS_Interval
  <2> QED
    BY <2>1, <2>2
<1>2. IsFiniteSet(E)
  BY <1>1, FS_Subset
<1>3. f \in Surjection(E, Senders(E))
  BY DEF Surjection, Senders
<1> QED
  BY <1>2, <1>3, FS_Surjection

(* The rows of the leaderboard are the senders of the period.                 *)
LEMMA LeaderboardIs ==
    ASSUME SwapsOK, Complete, NEW period \in Nat
    PROVE  Range(GetLeaderboard(period)) = Senders(Lately(period))
<1> DEFINE volumes == LeaderboardWindows(period)
           ranked  == {u \in Users : volumes[u].current > 0}
           v == [u \in ranked |-> volumes[u].current]
<1>1. Lately(period) \subseteq DOMAIN swaps
  BY DEF Lately, From
<1>2. \A u \in Users : /\ volumes[u].current = Total(Volume, By(u, Lately(period)))
                       /\ volumes[u].current \in Nat
                       /\ volumes[u].current > 0 <=> u \in Senders(Lately(period))
  BY <1>1, BoardIs, TradersTrade
<1>3. Senders(Lately(period)) \subseteq Users
  BY <1>1, EventIs DEF Senders
<1> HIDE DEF volumes
<1>4. ranked = Senders(Lately(period)) /\ v \in [ranked -> Nat]
      /\ \A u \in ranked : v[u] = volumes[u].current
  BY <1>2, <1>3
<1>5. IsFiniteSet(ranked)
  BY <1>1, <1>4, SendersFinite
<1> HIDE DEF ranked, v
<1>6. PICK b : Ranking(ranked, v, b)
  BY <1>4, <1>5, RankingExists
<1>7. /\ b \in [1..Cardinality(ranked) -> ranked] /\ Range(b) = ranked
      /\ \A i, j \in 1..Cardinality(ranked) :
            i < j => volumes[b[i]].current >= volumes[b[j]].current
  BY <1>4, <1>6 DEF Ranking
<1> DEFINE board == CHOOSE board \in [1..Cardinality(ranked) -> ranked] :
        /\ Range(board) = ranked
        /\ \A i, j \in 1..Cardinality(ranked) :
              i < j => volumes[board[i]].current >= volumes[board[j]].current
<1>8. Range(board) = ranked
  BY <1>7
<1>9. GetLeaderboard(period) = board
  BY DEF GetLeaderboard, volumes, ranked
<1> QED
  BY <1>4, <1>8, <1>9

(* The history within its page limit is every swap since its first ledger.    *)
LEMMA HistoryIs ==
    ASSUME SwapsOK, Complete, NEW period \in Nat,
           Cardinality(From(Max({0, head - period}))) <= HistoryLimit
    PROVE  GetSwapHistory(Max({0, head - period}), head) = Lately(period)
<1> DEFINE from == Max({0, head - period})
           scanned == From(from)
           page == {i \in scanned : Cardinality({j \in scanned : j <= i}) <= HistoryLimit}
<1>1. head \in Nat /\ HistoryLimit \in Nat
  BY BooksAssumption DEF SwapsOK
<1>2. from = IF 0 >= head - period THEN 0 ELSE head - period
  <2>1. 0 \in Int /\ head - period \in Int
    BY <1>1
  <2> QED
    BY <2>1, MaxTwo
<1>3. PeriodStart(period) = IF 1 >= head - period THEN 1 ELSE head - period
  BY StartIs
<1> HIDE DEF from
<1>4. \A i \in DOMAIN swaps : /\ swaps[i].ledger <= head
                              /\ swaps[i].ledger >= from <=> swaps[i].ledger >= PeriodStart(period)
  BY <1>1, <1>2, <1>3, EventIs
<1>5. scanned = Lately(period) /\ scanned \subseteq DOMAIN swaps
  BY <1>4 DEF Lately, From
<1>6. IsFiniteSet(scanned)
  BY <1>5, SendersFinite
<1>7. Cardinality(scanned) <= HistoryLimit
  BY DEF from
<1>8. page = scanned
  <2> SUFFICES ASSUME NEW i \in scanned PROVE Cardinality({j \in scanned : j <= i}) <= HistoryLimit
    OBVIOUS
  <2> DEFINE S == scanned
             P == {j \in S : j <= i}
  <2>1. P \in SUBSET S /\ IsFiniteSet(S)
    BY <1>6
  <2> HIDE DEF S, P
  <2>2. Cardinality(P) <= Cardinality(S) /\ Cardinality(P) \in Nat /\ Cardinality(S) \in Nat
    BY <2>1, FS_Subset, FS_CardinalityType
  <2>3. Cardinality(S) <= HistoryLimit
    BY <1>7 DEF S
  <2>4. Cardinality(P) <= HistoryLimit
    BY <1>1, <2>2, <2>3
  <2> QED
    BY <2>4 DEF P, S
<1>9. {i \in Upto(scanned, head) : Decodes(swaps[i])} = scanned
  BY <1>4, <1>5 DEF Upto, Decodes, Complete
<1>10. GetSwapHistory(from, head) = {i \in Upto(page, head) : Decodes(swaps[i])}
  BY DEF GetSwapHistory
<1> QED
  BY <1>5, <1>8, <1>9, <1>10 DEF from

LEMMA CompleteReports ==
    ASSUME SwapsOK, Complete, NEW period \in Nat
    PROVE  LET start    == PeriodStart(period)
               activity == FetchPoolSwapActivity(period)
               board    == LeaderboardWindows(period)
               entries  == GetLeaderboard(period)
               traders  == GetTopTraders(period)
               fees     == FeeRevenue(From(start), head) IN
           /\ fees = FetchPoolRevenue(start, head).revenue
           /\ activity.currentRevenue = fees
           /\ activity.currentVolume = SumOf([u \in Users |-> board[u].current], Range(entries))
           /\ activity.currentUsers = Range(entries)
           /\ Cardinality(From(Max({0, head - period}))) <= HistoryLimit =>
               /\ period = Day => FetchPairSwapTotals.fees = fees
               /\ DOMAIN traders = activity.currentUsers
               /\ \A u \in DOMAIN traders : traders[u].volume = board[u].current
<1> DEFINE start    == PeriodStart(period)
           activity == FetchPoolSwapActivity(period)
           board    == LeaderboardWindows(period)
           entries  == GetLeaderboard(period)
           traders  == GetTopTraders(period)
           fees     == FeeRevenue(From(start), head)
           C == Lately(period)
           S == Senders(C)
           f == [u \in Users |-> board[u].current]
<1>1. fees = Total(Fee, C)
  BY LatelyIs DEF FeeRevenue
<1>2. FetchPoolRevenue(start, head).revenue = Total(Fee, C)
  BY LatelyIs DEF FetchPoolRevenue
<1>3. /\ activity.currentRevenue = Total(Fee, C)
      /\ activity.currentVolume = Total(Volume, C)
      /\ activity.currentUsers = S
  BY LatelyIs DEF FetchPoolSwapActivity
<1>4. Range(entries) = S
  BY LeaderboardIs
<1>5. C \subseteq DOMAIN swaps
  BY DEF Lately, From
<1>6. S \subseteq Users
  BY <1>5, EventIs DEF Senders
<1>7. \A u \in S : board[u].current = Total(Volume, By(u, C)) /\ f[u] = board[u].current
  BY <1>6, BoardIs
<1>8. SumOf(f, S) = Total(Volume, C)
  <2> DEFINE who == [i \in DOMAIN swaps |-> swaps[i].sender]
             a == Volumes
  <2>1. a \in Seq(Nat) /\ Len(a) = Len(swaps) /\ DOMAIN swaps = 1..Len(swaps)
    BY AmountsAre
  <2>2. IsFiniteSet(S)
    BY <1>5, SendersFinite
  <2>3. \A i \in 1..Len(a) : i \in C => who[i] \in S
    BY <2>1 DEF Senders
  <2>4. \A u \in S : f[u] = SumSeq(Picked(a, Group(C, who, u)))
    <3> SUFFICES ASSUME NEW u \in S PROVE f[u] = SumSeq(Picked(a, Group(C, who, u)))
      OBVIOUS
    <3>1. Group(C, who, u) = By(u, C)
      BY <1>5 DEF By, Group
    <3>2. Total(Volume, By(u, C)) = SumSeq(Picked(a, By(u, C)))
      BY TotalsAre
    <3> QED
      BY <1>7, <3>1, <3>2
  <2> HIDE DEF who, a, f, S, C
  <2>5. SumOf(f, S) = SumSeq(Picked(a, C))
    <3>1. SumsOfGroups(a, C, who, S, f)
      BY <2>3, <2>4 DEF SumsOfGroups
    <3> QED
      BY <2>1, <2>2, <3>1, SumOfGroups
  <2>6. Total(Volume, C) = SumSeq(Picked(a, C))
    BY TotalsAre DEF a
  <2> QED
    BY <2>5, <2>6
<1>9. ASSUME Cardinality(From(Max({0, head - period}))) <= HistoryLimit
      PROVE  /\ period = Day => FetchPairSwapTotals.fees = fees
             /\ DOMAIN traders = S
             /\ \A u \in DOMAIN traders : traders[u].volume = board[u].current
  <2>1. GetSwapHistory(Max({0, head - period}), head) = C
    BY <1>9, HistoryIs
  <2>2. period = Day => FetchPairSwapTotals.fees = Total(Fee, C)
    BY <2>1 DEF FetchPairSwapTotals
  <2>3. DOMAIN traders = S /\ \A u \in S : traders[u].volume = Total(Volume, By(u, C))
    BY <2>1 DEF GetTopTraders, By
  <2> HIDE DEF traders, board, fees, S, C
  <2> QED
    BY <1>1, <1>7, <2>2, <2>3
<1> HIDE DEF C, S
<1>10. SumOf(f, Range(entries)) = activity.currentVolume
  BY <1>3, <1>4, <1>8
<1> QED
  BY <1>1, <1>2, <1>3, <1>4, <1>9, <1>10

LEMMA ReportsAgreeAlways == SwapsOK => ReportsAgree
<1> SUFFICES ASSUME SwapsOK, NEW period \in {Day, 2 * Day}
             PROVE
    LET start    == PeriodStart(period)
        treasury == FetchPoolRevenue(start, head)
        activity == FetchPoolSwapActivity(period)
        board    == LeaderboardWindows(period)
        entries  == GetLeaderboard(period)
        traders  == GetTopTraders(period)
        fees     == FeeRevenue(From(start), head)
        whole    == FeeRevenue(From(PeriodStart(2 * period)), head) IN
    /\ treasury.revenue = treasury.firstHalf + treasury.secondHalf
    /\ fees <= treasury.revenue
    /\ activity.currentRevenue + activity.previousRevenue = whole
    /\ (\A e \in Range(swaps) : e.lacks = "none" /\ e.succeeded) =>
        /\ fees = treasury.revenue
        /\ activity.currentRevenue = fees
        /\ activity.currentVolume = SumOf([u \in Users |-> board[u].current], Range(entries))
        /\ activity.currentUsers = Range(entries)
        /\ Cardinality(From(Max({0, head - period}))) <= HistoryLimit =>
            /\ period = Day => FetchPairSwapTotals.fees = fees
            /\ DOMAIN traders = activity.currentUsers
            /\ \A u \in DOMAIN traders : traders[u].volume = board[u].current
  BY DEF ReportsAgree
<1>1. period \in Nat
  BY BooksAssumption
<1>2. (\A e \in Range(swaps) : e.lacks = "none" /\ e.succeeded) => Complete
  BY DEF Complete, Range
<1>3. CASE Complete
  BY <1>1, <1>3, CompleteReports, HalvesAddUp, FeesWithinRevenue, ActivityAddsUp
<1>4. CASE ~Complete
  BY <1>2, <1>4, HalvesAddUp, FeesWithinRevenue, ActivityAddsUp
<1> QED
  BY <1>3, <1>4

(* Every place of a sublist has its position.                                 *)
LEMMA NthKept ==
    ASSUME NEW n \in Nat, NEW kept, kept \subseteq 1..n, NEW i \in 1..Cardinality(kept)
    PROVE  Nth(kept, i) \in kept
<1> DEFINE Until(m) == {j \in kept : j <= m}
           T == {m \in 0..n : Cardinality(Until(m)) >= i => \E k \in kept : Cardinality(Until(k)) = i}
<1>0. \A j \in kept : j \in 1..n
  OBVIOUS
<1>1. IsFiniteSet(kept)
  <2>1. IsFiniteSet(1..n)
    BY FS_Interval
  <2> QED
    BY <2>1, FS_Subset
<1>2. \A m \in Nat : IsFiniteSet(Until(m)) /\ Cardinality(Until(m)) \in Nat
  <2> SUFFICES ASSUME NEW m \in Nat PROVE IsFiniteSet(Until(m)) /\ Cardinality(Until(m)) \in Nat
    OBVIOUS
  <2>1. Until(m) \subseteq kept
    OBVIOUS
  <2> HIDE DEF Until
  <2> QED
    BY <1>1, <2>1, FS_Subset, FS_CardinalityType
<1>3. Cardinality(kept) \in Nat /\ i \in Nat \ {0}
  BY <1>1, FS_CardinalityType
<1>4. 0 \in T
  <2>1. Until(0) = {}
    BY ONLY <1>0
  <2>2. Cardinality(Until(0)) = 0
    BY <2>1, FS_EmptySet
  <2> QED
    BY <1>3, <2>2
<1>5. \A m \in 1..n : m - 1 \in T => m \in T
  <2> SUFFICES ASSUME NEW m \in 1..n, m - 1 \in T, Cardinality(Until(m)) >= i
               PROVE  \E k \in kept : Cardinality(Until(k)) = i
    OBVIOUS
  <2>1. /\ Cardinality(Until(m - 1)) \in Nat /\ Cardinality(Until(m)) \in Nat
        /\ IsFiniteSet(Until(m - 1))
    <3>1. m \in Nat /\ m - 1 \in Nat
      OBVIOUS
    <3> HIDE DEF Until
    <3> QED
      BY <1>2, <3>1
  <2>2. CASE m \in kept
    <3>1. Until(m) = Until(m - 1) \cup {m} /\ m \notin Until(m - 1)
      <4>1. \A j \in kept : j <= m <=> j <= m - 1 \/ j = m
        BY <1>0
      <4>2. ~(m <= m - 1)
        OBVIOUS
      <4>3. m \notin Until(m - 1)
        BY <4>2
      <4>4. Until(m) = Until(m - 1) \cup {m}
        BY <2>2, <4>1, Zenon
      <4> QED
        BY <4>3, <4>4
    <3>2. Cardinality(Until(m)) = Cardinality(Until(m - 1)) + 1
      <4> DEFINE B == Until(m - 1)
      <4>1. IsFiniteSet(B) /\ m \notin B
        BY <2>1, <3>1
      <4> HIDE DEF B
      <4>2. Cardinality(B \cup {m}) = Cardinality(B) + 1
        BY <4>1, FS_AddElement
      <4> QED
        BY <3>1, <4>2 DEF B
    <3>3. CASE Cardinality(Until(m - 1)) >= i
      BY <3>3
    <3>4. CASE ~(Cardinality(Until(m - 1)) >= i)
      <4>1. Cardinality(Until(m)) = i
        <5> HIDE DEF Until
        <5> QED
          BY <1>3, <2>1, <3>2, <3>4
      <4> QED
        BY <2>2, <4>1
    <3> QED
      BY <3>3, <3>4
  <2>3. CASE m \notin kept
    <3>1. Until(m) = Until(m - 1)
      <4>1. \A j \in kept : j <= m <=> j <= m - 1
        BY <1>0, <2>3
      <4> QED
        BY <4>1
    <3> QED
      BY <3>1
  <2> QED
    BY <2>2, <2>3
<1>6. n \in T
  <2> HIDE DEF T
  <2> QED
    BY <1>4, <1>5, CountUp
<1>7. Until(n) = kept
  <2>1. \A j \in kept : j <= n
    BY <1>0
  <2> QED
    BY <2>1, Zenon
<1>8. \E k \in kept : Cardinality(Until(k)) = i
  BY <1>3, <1>6, <1>7
<1> QED
  BY <1>8 DEF Nth

LEMMA SublistOf ==
    ASSUME NEW S, NEW s \in Seq(S), NEW kept, kept \subseteq 1..Len(s)
    PROVE  Sublist(s, kept) \in Seq(S)
<1> DEFINE c == Cardinality(kept)
<1>1. Len(s) \in Nat
  OBVIOUS
<1>2. c \in Nat
  <2>1. IsFiniteSet(1..Len(s))
    BY <1>1, FS_Interval
  <2> QED
    BY <2>1, FS_Subset, FS_CardinalityType
<1>3. \A i \in 1..c : Nth(kept, i) \in 1..Len(s)
  BY <1>1, NthKept
<1> HIDE DEF c
<1>4. [i \in 1..c |-> s[Nth(kept, i)]] \in Seq(S)
  BY <1>2, <1>3
<1> QED
  BY <1>4 DEF Sublist, c

-----------------------------------------------------------------------------
(* The rows of a tax report and the lots they open. *)

RowType == [tokenIn : Tokens, amountIn : Nat \ {0}, tokenOut : Tokens,
            amountOut : Nat \ {0}, fee : Nat]
LotType == [quantity : Nat \ {0}, cost : Nat]
RowsOK(rows) == rows \in Seq(RowType) /\ \A n \in 1..Len(rows) : rows[n].tokenIn # rows[n].tokenOut

LEMMA FeesAreNat == ASSUME NEW e \in SwapEvent PROVE Fee(e) \in Nat
<1> DEFINE x == e.in * e.bps
<1>1. e.in \in Nat /\ e.bps \in Nat
  BY DEF SwapEvent
<1>2. x \in Nat
  BY <1>1
<1> HIDE DEF x
<1>3. x \div FEE_SCALE \in Nat
  BY <1>2, BooksAssumption
<1> QED
  BY <1>3 DEF Fee, x

LEMMA RowsAre ==
    ASSUME SwapsOK, NEW user
    PROVE  RowsOK(Rows(user))
<1> DEFINE kept == {i \in From(PeriodStart(Day)) :
                       swaps[i].lacks = "sender" \/ swaps[i].sender = user}
           mine == Sublist(swaps, kept)
           rows == [i \in DOMAIN mine |->
                      [tokenIn  |-> mine[i].tin, amountIn |-> mine[i].in,
                       tokenOut |-> Other(mine[i].tin), amountOut |-> mine[i].out,
                       fee |-> IF mine[i].lacks = "fee_bps" THEN 0 ELSE Fee(mine[i])]]
<1>1. swaps \in Seq(SwapEvent) /\ kept \subseteq 1..Len(swaps)
  BY DEF SwapsOK, From
<1> HIDE DEF kept
<1>2. mine \in Seq(SwapEvent)
  BY <1>1, SublistOf
<1>3. Rows(user) = rows
  BY DEF Rows, kept
<1> HIDE DEF mine
<1>4. DOMAIN mine = 1..Len(mine) /\ Len(mine) \in Nat
  BY <1>2
<1>5. \A i \in 1..Len(mine) : Fee(mine[i]) \in Nat
  BY <1>2, FeesAreNat
<1>6. \A i \in 1..Len(mine) : rows[i] \in RowType /\ rows[i].tokenIn # rows[i].tokenOut
  <2> SUFFICES ASSUME NEW i \in 1..Len(mine)
               PROVE  rows[i] \in RowType /\ rows[i].tokenIn # rows[i].tokenOut
    OBVIOUS
  <2> DEFINE e == mine[i]
  <2>1. e \in SwapEvent /\ Fee(e) \in Nat
    BY <1>2, <1>5
  <2>2. rows[i] = [tokenIn  |-> e.tin, amountIn |-> e.in,
                   tokenOut |-> Other(e.tin), amountOut |-> e.out,
                   fee |-> IF e.lacks = "fee_bps" THEN 0 ELSE Fee(e)]
    BY <1>4
  <2> HIDE DEF e, rows
  <2>3. e.tin \in Tokens /\ e.in \in Nat \ {0} /\ e.out \in Nat \ {0}
    BY <2>1 DEF SwapEvent
  <2>4. Other(e.tin) \in Tokens /\ Other(e.tin) # e.tin
    BY <2>3 DEF Other, Tokens
  <2> QED
    BY <2>1, <2>2, <2>3, <2>4 DEF RowType
<1>7. rows \in [1..Len(mine) -> RowType]
  BY <1>4, <1>6
<1>8. rows \in Seq(RowType) /\ Len(rows) = Len(mine)
  <2> HIDE DEF rows
  <2> QED
    BY <1>4, <1>7
<1> QED
  BY <1>3, <1>6, <1>8 DEF RowsOK

(* The part of a cost that goes with a part of a quantity.                    *)
LEMMA PartIs ==
    ASSUME NEW q \in Nat \ {0}, NEW k \in 0..q, NEW c \in Nat
    PROVE  /\ (k * c) \div q \in Nat /\ (k * c) \div q <= c
           /\ k = q => (k * c) \div q = c
<1> DEFINE x == k * c
           y == q * c
           d == x \div q
           z == q * d
<1>1. x \in Nat /\ y \in Nat /\ x <= y /\ (k = q => x = y)
  <2>1. k \in Nat /\ q - k \in Nat
    OBVIOUS
  <2>2. (q - k) * c \in Nat /\ k * c \in Nat /\ q * c = k * c + (q - k) * c
    BY <2>1
  <2> QED
    BY <2>2
<1>2. d \in Nat /\ z \in Nat /\ z <= x /\ x < z + q
  <2>1. x \in Nat
    BY <1>1
  <2> HIDE DEF x
  <2> QED
    BY <2>1
<1>3. d <= c
  <2> SUFFICES ASSUME d >= c + 1 PROVE FALSE
    BY <1>2
  <2>1. d - (c + 1) \in Nat
    BY <1>2
  <2>2. q * (d - (c + 1)) \in Nat /\ z = y + q + q * (d - (c + 1))
    BY <1>2, <2>1
  <2> HIDE DEF x, y, z, d
  <2> QED
    BY <1>1, <1>2, <2>2
<1>4. k = q => d = c
  <2> SUFFICES ASSUME k = q, d < c PROVE FALSE
    BY <1>2, <1>3
  <2>1. c - d - 1 \in Nat
    BY <1>2
  <2>2. q * (c - d - 1) \in Nat /\ y = z + q + q * (c - d - 1)
    BY <1>2, <2>1
  <2> HIDE DEF x, y, z, d
  <2> QED
    BY <1>1, <1>2, <2>2
<1> QED
  BY <1>2, <1>3, <1>4

LEMMA MinTwo ==
    ASSUME NEW a \in Int, NEW b \in Int
    PROVE  Min({a, b}) = IF a <= b THEN a ELSE b
<1> DEFINE S == {a, b}
           m == IF a <= b THEN a ELSE b
<1>1. m \in S /\ (\A y \in S : m <= y) /\ \A x \in S : (\A y \in S : x <= y) => x = m
  OBVIOUS
<1> HIDE DEF S, m
<1>2. (CHOOSE x \in S : \A y \in S : x <= y) = m
  BY <1>1
<1> QED
  BY <1>2 DEF Min, S, m

(* What steps from each value of a loop to the next is the loop's course.     *)
LEMMA CourseOf ==
    ASSUME NEW N \in Nat, NEW S, NEW a \in S, NEW g \in [S \X (1..N) -> S], NEW c,
           c = [n \in 0..N |-> c[n]], c[0] = a,
           \A n \in 1..N : c[n - 1] \in S => c[n] = g[<<c[n - 1], n>>]
    PROVE  Course(N, S, a, g, c)
<1> DEFINE T == {n \in 0..N : c[n] \in S}
<1>1. 0 \in T
  OBVIOUS
<1>2. \A n \in 1..N : n - 1 \in T => n \in T
  <2> SUFFICES ASSUME NEW n \in 1..N, n - 1 \in T PROVE n \in T
    OBVIOUS
  <2>0. c[n - 1] \in S /\ n \in 0..N
    OBVIOUS
  <2>1. c[n - 1] \in S /\ c[n] = g[<<c[n - 1], n>>] /\ n \in 0..N
    <3> HIDE DEF T
    <3> QED
      BY <2>0, Zenon
  <2>2. <<c[n - 1], n>> \in S \X (1..N)
    BY <2>1
  <2>3. c[n] \in S
    BY <2>1, <2>2
  <2> QED
    BY <2>1, <2>3
<1> HIDE DEF T
<1>3. \A n \in 0..N : n \in T
  BY <1>1, <1>2, CountUp
<1>4. \A n \in 0..N : c[n] \in S
  BY <1>3 DEF T
<1>5. \A n \in 1..N : n - 1 \in 0..N
  OBVIOUS
<1>6. c \in [0..N -> S]
  BY <1>4
<1> QED
  BY <1>4, <1>5, <1>6 DEF Course

-----------------------------------------------------------------------------
(* Lots. *)

CostOf(lots) == SumSeq(EachCost(lots))
QuantityOf(lots) == SumSeq(EachQuantity(lots))

LEMMA EachIs ==
    ASSUME NEW lots \in Seq(LotType)
    PROVE  /\ EachCost(lots) \in Seq(Int) /\ Len(EachCost(lots)) = Len(lots)
           /\ EachQuantity(lots) \in Seq(Int) /\ Len(EachQuantity(lots)) = Len(lots)
           /\ \A k \in 1..Len(lots) : /\ EachCost(lots)[k] = lots[k].cost
                                      /\ EachQuantity(lots)[k] = lots[k].quantity
           /\ CostOf(lots) \in Int /\ QuantityOf(lots) \in Int
<1>1. Len(lots) \in Nat /\ DOMAIN lots = 1..Len(lots)
  OBVIOUS
<1>2. \A k \in 1..Len(lots) : lots[k].cost \in Int /\ lots[k].quantity \in Int
  <2> SUFFICES ASSUME NEW k \in 1..Len(lots)
               PROVE  lots[k].cost \in Int /\ lots[k].quantity \in Int
    OBVIOUS
  <2>1. lots[k] \in LotType
    OBVIOUS
  <2> QED
    BY <2>1 DEF LotType
<1> DEFINE c == [k \in 1..Len(lots) |-> lots[k].cost]
           q == [k \in 1..Len(lots) |-> lots[k].quantity]
<1>3. c \in Seq(Int) /\ Len(c) = Len(lots) /\ q \in Seq(Int) /\ Len(q) = Len(lots)
  BY <1>1, <1>2
<1>4. EachCost(lots) = c /\ EachQuantity(lots) = q
  BY <1>1 DEF EachCost, EachQuantity
<1>5. SumSeq(c) \in Int /\ SumSeq(q) \in Int
  BY <1>3, SumIsInt
<1> QED
  BY <1>3, <1>4, <1>5 DEF CostOf, QuantityOf

LEMMA LotAdds ==
    ASSUME NEW lots \in Seq(LotType), NEW lot \in LotType
    PROVE  /\ Append(lots, lot) \in Seq(LotType)
           /\ CostOf(Append(lots, lot)) = CostOf(lots) + lot.cost
           /\ QuantityOf(Append(lots, lot)) = QuantityOf(lots) + lot.quantity
<1> DEFINE m == Append(lots, lot)
           n == Len(lots)
<1>1. /\ m \in Seq(LotType) /\ Len(m) = n + 1 /\ n \in Nat /\ m[n + 1] = lot
      /\ \A k \in 1..n : m[k] = lots[k]
  OBVIOUS
<1>2. lot.cost \in Int /\ lot.quantity \in Int
  BY DEF LotType
<1> HIDE DEF m
<1>3. /\ EachCost(m) \in Seq(Int) /\ Len(EachCost(m)) = n + 1
      /\ EachQuantity(m) \in Seq(Int) /\ Len(EachQuantity(m)) = n + 1
      /\ \A k \in 1..(n + 1) : EachCost(m)[k] = m[k].cost /\ EachQuantity(m)[k] = m[k].quantity
  BY <1>1, EachIs
<1>4. /\ EachCost(lots) \in Seq(Int) /\ Len(EachCost(lots)) = n
      /\ EachQuantity(lots) \in Seq(Int) /\ Len(EachQuantity(lots)) = n
      /\ \A k \in 1..n : EachCost(lots)[k] = lots[k].cost /\ EachQuantity(lots)[k] = lots[k].quantity
  BY EachIs
<1>5. \A k \in 1..(n + 1) : k = n + 1 \/ k \in 1..n
  BY <1>1
<1>6. n + 1 \in 1..(n + 1) /\ \A k \in 1..n : k \in 1..(n + 1)
  BY <1>1
<1> DEFINE a == EachCost(m)
           b == Append(EachCost(lots), lot.cost)
           d == EachQuantity(m)
           e == Append(EachQuantity(lots), lot.quantity)
<1> HIDE DEF n
<1>7. a = b
  <2>1. b \in Seq(Int) /\ Len(b) = n + 1 /\ b[n + 1] = lot.cost
        /\ \A k \in 1..n : b[k] = EachCost(lots)[k]
    BY <1>1, <1>2, <1>4
  <2>2. \A k \in 1..(n + 1) : a[k] = b[k]
    BY <1>1, <1>3, <1>4, <1>5, <1>6, <2>1
  <2>3. a \in Seq(Int) /\ Len(a) = n + 1
    BY <1>3
  <2> HIDE DEF a, b
  <2> QED
    BY <2>1, <2>2, <2>3
<1>8. d = e
  <2>1. e \in Seq(Int) /\ Len(e) = n + 1 /\ e[n + 1] = lot.quantity
        /\ \A k \in 1..n : e[k] = EachQuantity(lots)[k]
    BY <1>1, <1>2, <1>4
  <2>2. \A k \in 1..(n + 1) : d[k] = e[k]
    BY <1>1, <1>3, <1>4, <1>5, <1>6, <2>1
  <2>3. d \in Seq(Int) /\ Len(d) = n + 1
    BY <1>3
  <2> HIDE DEF d, e
  <2> QED
    BY <2>1, <2>2, <2>3
<1>9. SumSeq(b) = SumSeq(EachCost(lots)) + lot.cost
      /\ SumSeq(e) = SumSeq(EachQuantity(lots)) + lot.quantity
  BY <1>2, <1>4, SumAppends
<1> QED
  BY <1>1, <1>7, <1>8, <1>9 DEF CostOf, QuantityOf, m

LEMMA NoLots == <<>> \in Seq(LotType) /\ CostOf(<<>>) = 0 /\ QuantityOf(<<>>) = 0
<1> DEFINE z == <<>>
<1>1. z \in Seq(LotType) /\ Len(z) = 0
  OBVIOUS
<1> HIDE DEF z
<1>2. /\ EachCost(z) \in Seq(Int) /\ Len(EachCost(z)) = 0
      /\ EachQuantity(z) \in Seq(Int) /\ Len(EachQuantity(z)) = 0
  BY <1>1, EachIs
<1>3. SumSeq(EachCost(z)) = 0 /\ SumSeq(EachQuantity(z)) = 0
  <2> DEFINE a == EachCost(z)
             b == EachQuantity(z)
  <2>1. a \in Seq(Int) /\ Len(a) = 0 /\ b \in Seq(Int) /\ Len(b) = 0
    BY <1>2
  <2> HIDE DEF a, b
  <2>2. SumSeq(a) = 0 /\ SumSeq(b) = 0
    <3>1. (\A k \in 1..Len(a) : a[k] = 0) /\ \A k \in 1..Len(b) : b[k] = 0
      BY <2>1
    <3> QED
      BY <2>1, <3>1, SumOfNothing
  <2> QED
    BY <2>2 DEF a, b
<1> QED
  BY <1>1, <1>3 DEF CostOf, QuantityOf, z

LEMMA LotsReverse ==
    ASSUME NEW lots \in Seq(LotType), NEW method
    PROVE  /\ InMethodOrder(lots, method) \in Seq(LotType)
           /\ CostOf(InMethodOrder(lots, method)) = CostOf(lots)
           /\ QuantityOf(InMethodOrder(lots, method)) = QuantityOf(lots)
<1> DEFINE n == Len(lots)
           r == Reverse(lots)
<1>1. n \in Nat /\ \A k \in 1..n : n - k + 1 \in 1..n /\ n - k + 1 = n + 1 - k
  OBVIOUS
<1>2. r = [k \in 1..n |-> lots[(n - k) + 1]]
  BY DEF Reverse
<1>3. r \in Seq(LotType) /\ Len(r) = n /\ \A k \in 1..n : r[k] = lots[n + 1 - k]
  <2>1. \A k \in 1..n : lots[n - k + 1] \in LotType
    BY <1>1
  <2>2. r \in [1..n -> LotType]
    BY <1>2, <2>1
  <2>3. \A k \in 1..n : r[k] = lots[n - k + 1]
    BY <1>2
  <2> HIDE DEF r, n
  <2>4. r \in Seq(LotType) /\ Len(r) = n
    BY <1>1, <2>2
  <2> QED
    BY <1>1, <2>3, <2>4
<1> HIDE DEF r
<1>4. /\ EachCost(lots) \in Seq(Int) /\ Len(EachCost(lots)) = n
      /\ EachQuantity(lots) \in Seq(Int) /\ Len(EachQuantity(lots)) = n
      /\ \A k \in 1..n : EachCost(lots)[k] = lots[k].cost /\ EachQuantity(lots)[k] = lots[k].quantity
  BY EachIs
<1>5. /\ EachCost(r) \in Seq(Int) /\ Len(EachCost(r)) = n
      /\ EachQuantity(r) \in Seq(Int) /\ Len(EachQuantity(r)) = n
      /\ \A k \in 1..n : EachCost(r)[k] = r[k].cost /\ EachQuantity(r)[k] = r[k].quantity
  BY <1>3, EachIs
<1>6. \A k \in 1..n : n + 1 - k \in 1..n
  BY <1>1
<1> HIDE DEF n
<1>7. \A k \in 1..n : /\ EachCost(r)[k] = EachCost(lots)[n + 1 - k]
                      /\ EachQuantity(r)[k] = EachQuantity(lots)[n + 1 - k]
  <2> SUFFICES ASSUME NEW k \in 1..n
               PROVE  /\ EachCost(r)[k] = EachCost(lots)[n + 1 - k]
                      /\ EachQuantity(r)[k] = EachQuantity(lots)[n + 1 - k]
    OBVIOUS
  <2> DEFINE j == n + 1 - k
  <2>1. j \in 1..n /\ r[k] = lots[j]
    BY <1>3, <1>6
  <2> HIDE DEF j
  <2>2. /\ EachCost(r)[k] = EachCost(lots)[j]
        /\ EachQuantity(r)[k] = EachQuantity(lots)[j]
    BY <1>4, <1>5, <2>1
  <2> QED
    BY <2>2 DEF j
<1>8. SumSeq(EachCost(r)) = SumSeq(EachCost(lots))
  BY <1>4, <1>5, <1>7, SumReverses
<1>9. SumSeq(EachQuantity(r)) = SumSeq(EachQuantity(lots))
  BY <1>4, <1>5, <1>7, SumReverses
<1> QED
  BY <1>3, <1>8, <1>9 DEF InMethodOrder, CostOf, QuantityOf, r

-----------------------------------------------------------------------------
(* Disposals. *)

(* What a lot keeps.                                                          *)
LEMMA KeptIs ==
    ASSUME NEW lots \in Seq(LotType), NEW lot \in [quantity : Nat, cost : Nat],
           lot.quantity = 0 => lot.cost = 0
    PROVE  /\ Kept(lots, lot) \in Seq(LotType)
           /\ CostOf(Kept(lots, lot)) = CostOf(lots) + lot.cost
           /\ QuantityOf(Kept(lots, lot)) = QuantityOf(lots) + lot.quantity
<1>1. lot.cost \in Nat /\ lot.quantity \in Nat
  OBVIOUS
<1>2. CASE lot.quantity = 0
  <2>1. Kept(lots, lot) = lots
    BY <1>2 DEF Kept
  <2>2. CostOf(lots) \in Int /\ QuantityOf(lots) \in Int
    BY EachIs
  <2> QED
    BY <1>2, <2>1, <2>2
<1>3. CASE lot.quantity # 0
  <2>1. Kept(lots, lot) = Append(lots, lot) /\ lot \in LotType
    BY <1>1, <1>3 DEF Kept, LotType
  <2> QED
    BY <2>1, LotAdds
<1> QED
  BY <1>2, <1>3

LEMMA TakeFromIs ==
    ASSUME NEW lots \in Seq(LotType), NEW lot \in LotType, NEW qty \in 0..lot.quantity
    PROVE  LET part == (qty * lot.cost) \div lot.quantity
               left == Kept(lots, TakeFrom(lot, qty)) IN
           /\ part \in Nat /\ left \in Seq(LotType)
           /\ CostOf(left) + part = CostOf(lots) + lot.cost
           /\ QuantityOf(left) + qty = QuantityOf(lots) + lot.quantity
<1> DEFINE q == lot.quantity
           c == lot.cost
           part == (qty * c) \div q
           rest == TakeFrom(lot, qty)
<1>1. q \in Nat \ {0} /\ c \in Nat /\ qty \in 0..q
  BY DEF LotType
<1> HIDE DEF q, c
<1>2. part \in Nat /\ part <= c /\ (qty = q => part = c)
  BY <1>1, PartIs
<1>3. rest = [quantity |-> q - qty, cost |-> c - part]
  BY DEF TakeFrom, q, c
<1> HIDE DEF part
<1>4. q - qty \in Nat /\ c - part \in Nat /\ (q - qty = 0 => c - part = 0)
  BY <1>1, <1>2
<1>5. rest \in [quantity : Nat, cost : Nat] /\ rest.quantity = q - qty /\ rest.cost = c - part
  BY <1>3, <1>4
<1> HIDE DEF rest
<1>6. /\ Kept(lots, rest) \in Seq(LotType)
      /\ CostOf(Kept(lots, rest)) = CostOf(lots) + rest.cost
      /\ QuantityOf(Kept(lots, rest)) = QuantityOf(lots) + rest.quantity
  BY <1>4, <1>5, KeptIs
<1>7. CostOf(lots) \in Int /\ QuantityOf(lots) \in Int
  BY EachIs
<1>8. /\ CostOf(Kept(lots, rest)) + part = CostOf(lots) + c
      /\ QuantityOf(Kept(lots, rest)) + qty = QuantityOf(lots) + q
  BY <1>1, <1>2, <1>5, <1>6, <1>7
<1> QED
  BY <1>2, <1>6, <1>8 DEF rest, part, q, c

DisposalType == [left : Nat, basis : Nat, lots : Seq(LotType)]

LEMMA DisposedIs ==
    ASSUME NEW acc \in DisposalType, NEW lot \in LotType
    PROVE  LET next == Disposed(acc, lot) IN
           /\ next \in DisposalType
           /\ next.basis + CostOf(next.lots) = acc.basis + CostOf(acc.lots) + lot.cost
           /\ QuantityOf(next.lots) - next.left = QuantityOf(acc.lots) - acc.left + lot.quantity
<1> DEFINE qty == Min({acc.left, lot.quantity})
           part == (qty * lot.cost) \div lot.quantity
           lots == acc.lots
           left == Kept(lots, TakeFrom(lot, qty))
           next == Disposed(acc, lot)
<1>1. /\ acc.left \in Nat /\ acc.basis \in Nat /\ lots \in Seq(LotType)
      /\ lot.quantity \in Nat /\ lot.cost \in Nat
  BY DEF DisposalType, LotType
<1>2. qty = IF acc.left <= lot.quantity THEN acc.left ELSE lot.quantity
  <2>1. acc.left \in Int /\ lot.quantity \in Int
    BY <1>1
  <2> QED
    BY <2>1, MinTwo
<1>3. next = [left |-> acc.left - qty, basis |-> acc.basis + part, lots |-> left]
  BY DEF Disposed
<1> HIDE DEF qty, next
<1>4. qty \in 0..lot.quantity /\ acc.left - qty \in Nat /\ qty \in Nat
  BY <1>1, <1>2
<1> HIDE DEF lots
<1>5. /\ part \in Nat /\ left \in Seq(LotType)
      /\ CostOf(left) + part = CostOf(lots) + lot.cost
      /\ QuantityOf(left) + qty = QuantityOf(lots) + lot.quantity
  BY <1>1, <1>4, TakeFromIs
<1> HIDE DEF part, left
<1>6. /\ CostOf(lots) \in Int /\ QuantityOf(lots) \in Int
      /\ CostOf(left) \in Int /\ QuantityOf(left) \in Int
  BY <1>1, <1>5, EachIs
<1>7. /\ next \in DisposalType /\ next.left = acc.left - qty
      /\ next.basis = acc.basis + part /\ next.lots = left
  BY <1>1, <1>3, <1>4, <1>5 DEF DisposalType
<1>8. /\ next.basis + CostOf(left) = acc.basis + CostOf(lots) + lot.cost
      /\ QuantityOf(left) - next.left = QuantityOf(lots) - acc.left + lot.quantity
  <2> DEFINE cl == CostOf(left)
             co == CostOf(lots)
             ql == QuantityOf(left)
             qo == QuantityOf(lots)
  <2>1. cl \in Int /\ co \in Int /\ ql \in Int /\ qo \in Int
        /\ cl + part = co + lot.cost /\ ql + qty = qo + lot.quantity
    BY <1>5, <1>6
  <2> HIDE DEF cl, co, ql, qo
  <2>2. acc.basis + part + cl = acc.basis + co + lot.cost
        /\ ql - (acc.left - qty) = qo - acc.left + lot.quantity
    <3> DEFINE x == acc.left
               b == acc.basis
               c == lot.cost
               q == lot.quantity
    <3>1. x \in Int /\ b \in Int /\ c \in Int /\ q \in Int /\ qty \in Int /\ part \in Int
      BY <1>1, <1>4, <1>5
    <3>2. cl + part = co + c /\ ql + qty = qo + q
      BY <2>1
    <3> HIDE DEF x, b, c, q
    <3>3. b + part + cl = b + co + c
      BY <2>1, <3>1, <3>2
    <3>4. ql - (x - qty) = qo - x + q
      BY <2>1, <3>1, <3>2
    <3> QED
      BY <3>3, <3>4 DEF x, b, c, q
  <2> QED
    BY <1>7, <2>2 DEF cl, co, ql, qo
<1> QED
  BY <1>7, <1>8 DEF next, lots

(* What a disposal has after each lot.                                        *)
DisposeCourse(lots, sold, d) ==
    /\ d \in [0..Len(lots) -> DisposalType]
    /\ d[0] = [left |-> sold, basis |-> 0, lots |-> <<>>]
    /\ \A n \in 1..Len(lots) : d[n] = Disposed(d[n - 1], lots[n])

LEMMA DisposeRuns ==
    ASSUME NEW lots \in Seq(LotType), NEW sold \in Nat
    PROVE  \E d : DisposeCourse(lots, sold, d) /\ Dispose(lots, sold) = d[Len(lots)]
<1> DEFINE N == Len(lots)
           a == [left |-> sold, basis |-> 0, lots |-> <<>>]
           F(f) == [n \in 0..N |-> IF n = 0 THEN a ELSE Disposed(f[n - 1], lots[n])]
           S == DisposalType
           g == [p \in S \X (1..N) |-> Disposed(p[1], lots[p[2]])]
           d == CHOOSE f : f = F(f)
<1>1. N \in Nat /\ \A n \in 1..N : lots[n] \in LotType
  OBVIOUS
<1>2. a \in S
  BY NoLots DEF DisposalType
<1>3. g \in [S \X (1..N) -> S] /\ \A x \in S, n \in 1..N : g[<<x, n>>] = Disposed(x, lots[n])
  <2>1. \A x \in S, n \in 1..N : Disposed(x, lots[n]) \in S
    BY <1>1, DisposedIs
  <2> HIDE DEF S, N
  <2>2. \A p \in S \X (1..N) : p[1] \in S /\ p[2] \in 1..N
    OBVIOUS
  <2>3. g \in [S \X (1..N) -> S]
    BY <2>1, <2>2
  <2>4. \A x \in S, n \in 1..N : <<x, n>> \in S \X (1..N) /\ <<x, n>>[1] = x /\ <<x, n>>[2] = n
    OBVIOUS
  <2>5. \A x \in S, n \in 1..N : g[<<x, n>>] = Disposed(x, lots[n])
    BY <2>4
  <2> QED
    BY <2>3, <2>5
<1> HIDE DEF g, N, S
<1>4. \A n \in 1..N : n \in 0..N /\ n - 1 \in 0..N /\ n # 0
  BY <1>1
<1>5. PICK r : Course(N, S, a, g, r)
  BY <1>1, <1>2, <1>3, LoopRuns
<1>6. r = F(r)
  <2>1. r \in [0..N -> S] /\ r[0] = a /\ \A n \in 1..N : r[n] = g[<<r[n - 1], n>>]
    BY <1>5 DEF Course
  <2>2. \A n \in 1..N : r[n] = Disposed(r[n - 1], lots[n])
    BY <1>3, <1>4, <2>1
  <2> HIDE DEF a
  <2>3. \A n \in 0..N : r[n] = IF n = 0 THEN a ELSE Disposed(r[n - 1], lots[n])
    <3>1. \A n \in 0..N : n = 0 \/ n \in 1..N
      BY <1>1
    <3> QED
      BY <1>4, <2>1, <2>2, <3>1
  <2>4. r = [n \in 0..N |-> r[n]]
    BY <2>1
  <2> QED
    BY <2>3, <2>4
<1>7. d = F(d)
  <2> HIDE DEF F
  <2> QED
    BY <1>6
<1>8. Dispose(lots, sold) = d[N]
  BY DEF Dispose, N
<1> HIDE DEF d
<1>9. d = [n \in 0..N |-> d[n]] /\ d[0] = a /\ \A n \in 1..N : d[n] = Disposed(d[n - 1], lots[n])
  <2> HIDE DEF a
  <2>1. 0 \in 0..N
    BY <1>1
  <2> QED
    BY <1>4, <1>7, <2>1
<1>10. Course(N, S, a, g, d)
  <2>1. \A n \in 1..N : d[n - 1] \in S => d[n] = g[<<d[n - 1], n>>]
    BY <1>3, <1>9
  <2> HIDE DEF a, F
  <2> QED
    BY <1>1, <1>2, <1>3, <1>9, <2>1, CourseOf
<1>11. d \in [0..N -> S]
  BY <1>10 DEF Course
<1> QED
  BY <1>8, <1>9, <1>11 DEF DisposeCourse, N, S

(* The disposal of a quantity by the lots in an order.                        *)
LEMMA DisposeIs ==
    ASSUME NEW lots \in Seq(LotType), NEW sold \in Nat
    PROVE  LET all == Dispose(lots, sold) IN
           /\ all \in DisposalType
           /\ all.basis + CostOf(all.lots) = CostOf(lots)
           /\ QuantityOf(all.lots) - all.left = QuantityOf(lots) - sold
<1> DEFINE N == Len(lots)
<1>1. N \in Nat /\ \A n \in 1..N : lots[n] \in LotType
  OBVIOUS
<1>2. PICK d : DisposeCourse(lots, sold, d) /\ Dispose(lots, sold) = d[N]
  BY DisposeRuns
<1>4. \A n \in 1..N : n \in 0..N /\ n - 1 \in 0..N /\ n # 0
  BY <1>1
<1>8. Dispose(lots, sold) = d[N]
  BY <1>2
<1>9. /\ d[0] = [left |-> sold, basis |-> 0, lots |-> <<>>]
      /\ \A n \in 1..N : d[n] = Disposed(d[n - 1], lots[n])
  BY <1>2 DEF DisposeCourse
<1>11. \A n \in 0..N : d[n] \in DisposalType
  BY <1>2 DEF DisposeCourse
<1> HIDE DEF N
<1>12. PICK c : SumsOf(EachCost(lots), c) /\ CostOf(lots) = c[Len(EachCost(lots))]
  BY EachIs, SumSeqIs DEF CostOf
<1>13. PICK q : SumsOf(EachQuantity(lots), q) /\ QuantityOf(lots) = q[Len(EachQuantity(lots))]
  BY EachIs, SumSeqIs DEF QuantityOf
<1>14. /\ c \in [0..N -> Int] /\ c[0] = 0 /\ q \in [0..N -> Int] /\ q[0] = 0
       /\ \A n \in 1..N : /\ c[n] = c[n - 1] + lots[n].cost
                          /\ q[n] = q[n - 1] + lots[n].quantity
       /\ CostOf(lots) = c[N] /\ QuantityOf(lots) = q[N]
  BY <1>12, <1>13, EachIs DEF SumsOf, N
<1> DEFINE T == {n \in 0..N : /\ d[n].basis + CostOf(d[n].lots) = c[n]
                              /\ QuantityOf(d[n].lots) - d[n].left = q[n] - sold}
<1>15. 0 \in T
  <2>1. d[0].basis = 0 /\ d[0].lots = <<>> /\ d[0].left = sold
    BY <1>9
  <2> QED
    BY <1>1, <1>14, <2>1, NoLots
<1>16. \A n \in 1..N : n - 1 \in T => n \in T
  <2> SUFFICES ASSUME NEW n \in 1..N, n - 1 \in T PROVE n \in T
    OBVIOUS
  <2> DEFINE x == d[n - 1]
             y == d[n]
             l == lots[n]
             m == n - 1
  <2>1. x \in DisposalType /\ y = Disposed(x, l) /\ l \in LotType /\ m \in 0..N /\ n \in 0..N
    BY <1>1, <1>4, <1>9, <1>11
  <2>2. /\ x.basis + CostOf(x.lots) = c[m]
        /\ QuantityOf(x.lots) - x.left = q[m] - sold
    OBVIOUS
  <2>3. c[n] = c[m] + l.cost /\ q[n] = q[m] + l.quantity
        /\ c[m] \in Int /\ q[m] \in Int
    BY <1>14, <2>1
  <2> HIDE DEF x, y, l, m
  <2>4. /\ y \in DisposalType
        /\ y.basis + CostOf(y.lots) = x.basis + CostOf(x.lots) + l.cost
        /\ QuantityOf(y.lots) - y.left = QuantityOf(x.lots) - x.left + l.quantity
    BY <2>1, DisposedIs
  <2>5. l.cost \in Int /\ l.quantity \in Int /\ sold \in Int
    BY <2>1 DEF LotType
  <2>6. y.basis + CostOf(y.lots) = c[n]
    BY <2>2, <2>3, <2>4
  <2>7. QuantityOf(y.lots) - y.left = q[n] - sold
    <3> DEFINE v == QuantityOf(y.lots) - y.left
               u == QuantityOf(x.lots) - x.left
               i == q[m]
               k == l.quantity
    <3>1. v = u + k /\ u = i - sold /\ q[n] = i + k
      BY <2>2, <2>3, <2>4
    <3>2. i \in Int /\ k \in Int /\ sold \in Int
      BY <2>3, <2>5
    <3> HIDE DEF v, u, i, k
    <3>3. v = q[n] - sold
      BY <3>1, <3>2
    <3> QED
      BY <3>3 DEF v
  <2> QED
    BY <2>1, <2>6, <2>7 DEF y
<1> HIDE DEF T
<1>17. N \in T
  BY <1>1, <1>15, <1>16, CountUp
<1>18. N \in 0..N
  BY <1>1
<1> QED
  BY <1>8, <1>11, <1>14, <1>17, <1>18 DEF T

DisposalRow == [basis : Nat, quantity : Nat, lots : Nat, gain : Int]
BasisType == [lots : Seq(LotType), totalQuantity : Int, totalCost : Int, uncovered : Nat,
              disposals : Seq(DisposalRow)]
(* What getCostBasis keeps as it reads the rows.                              *)
Balanced ==
    {acc \in BasisType :
        /\ SumSeq(EachBasis(acc.disposals)) + CostOf(acc.lots) = acc.totalCost
        /\ QuantityOf(acc.lots) = acc.totalQuantity + acc.uncovered}

LEMMA RowsDisposed ==
    ASSUME NEW ds \in Seq(DisposalRow)
    PROVE  /\ EachBasis(ds) \in Seq(Int) /\ Len(EachBasis(ds)) = Len(ds)
           /\ EachGain(ds) \in Seq(Int) /\ Len(EachGain(ds)) = Len(ds)
           /\ \A k \in 1..Len(ds) : EachBasis(ds)[k] = ds[k].basis /\ EachGain(ds)[k] = ds[k].gain
           /\ SumSeq(EachBasis(ds)) \in Int /\ SumSeq(EachGain(ds)) \in Int
<1>1. Len(ds) \in Nat /\ DOMAIN ds = 1..Len(ds)
  OBVIOUS
<1>2. \A k \in 1..Len(ds) : ds[k].basis \in Int /\ ds[k].gain \in Int
  <2> SUFFICES ASSUME NEW k \in 1..Len(ds) PROVE ds[k].basis \in Int /\ ds[k].gain \in Int
    OBVIOUS
  <2>1. ds[k] \in DisposalRow
    OBVIOUS
  <2> QED
    BY <2>1 DEF DisposalRow
<1> DEFINE c == [k \in 1..Len(ds) |-> ds[k].basis]
           q == [k \in 1..Len(ds) |-> ds[k].gain]
<1>3. c \in Seq(Int) /\ Len(c) = Len(ds) /\ q \in Seq(Int) /\ Len(q) = Len(ds)
  BY <1>1, <1>2
<1>4. EachBasis(ds) = c /\ EachGain(ds) = q
  BY <1>1 DEF EachBasis, EachGain
<1>5. SumSeq(c) \in Int /\ SumSeq(q) \in Int
  BY <1>3, SumIsInt
<1> QED
  BY <1>3, <1>4, <1>5

LEMMA RowDisposed ==
    ASSUME NEW ds \in Seq(DisposalRow), NEW row \in DisposalRow
    PROVE  /\ Append(ds, row) \in Seq(DisposalRow)
           /\ SumSeq(EachBasis(Append(ds, row))) = SumSeq(EachBasis(ds)) + row.basis
           /\ SumSeq(EachGain(Append(ds, row))) = SumSeq(EachGain(ds)) + row.gain
<1> DEFINE m == Append(ds, row)
           n == Len(ds)
<1>1. /\ m \in Seq(DisposalRow) /\ Len(m) = n + 1 /\ n \in Nat /\ m[n + 1] = row
      /\ \A k \in 1..n : m[k] = ds[k]
  OBVIOUS
<1>2. row.basis \in Int /\ row.gain \in Int
  BY DEF DisposalRow
<1> HIDE DEF m
<1>3. /\ EachBasis(m) \in Seq(Int) /\ Len(EachBasis(m)) = n + 1
      /\ EachGain(m) \in Seq(Int) /\ Len(EachGain(m)) = n + 1
      /\ \A k \in 1..(n + 1) : EachBasis(m)[k] = m[k].basis /\ EachGain(m)[k] = m[k].gain
  BY <1>1, RowsDisposed
<1>4. /\ EachBasis(ds) \in Seq(Int) /\ Len(EachBasis(ds)) = n
      /\ EachGain(ds) \in Seq(Int) /\ Len(EachGain(ds)) = n
      /\ \A k \in 1..n : EachBasis(ds)[k] = ds[k].basis /\ EachGain(ds)[k] = ds[k].gain
  BY RowsDisposed
<1>5. \A k \in 1..(n + 1) : k = n + 1 \/ k \in 1..n
  BY <1>1
<1>6. n + 1 \in 1..(n + 1) /\ \A k \in 1..n : k \in 1..(n + 1)
  BY <1>1
<1> DEFINE a == EachBasis(m)
           b == Append(EachBasis(ds), row.basis)
           d == EachGain(m)
           e == Append(EachGain(ds), row.gain)
<1> HIDE DEF n
<1>7. a = b
  <2>1. b \in Seq(Int) /\ Len(b) = n + 1 /\ b[n + 1] = row.basis
        /\ \A k \in 1..n : b[k] = EachBasis(ds)[k]
    BY <1>1, <1>2, <1>4
  <2>2. \A k \in 1..(n + 1) : a[k] = b[k]
    BY <1>1, <1>3, <1>4, <1>5, <1>6, <2>1
  <2>3. a \in Seq(Int) /\ Len(a) = n + 1
    BY <1>3
  <2> HIDE DEF a, b
  <2> QED
    BY <2>1, <2>2, <2>3
<1>8. d = e
  <2>1. e \in Seq(Int) /\ Len(e) = n + 1 /\ e[n + 1] = row.gain
        /\ \A k \in 1..n : e[k] = EachGain(ds)[k]
    BY <1>1, <1>2, <1>4
  <2>2. \A k \in 1..(n + 1) : d[k] = e[k]
    BY <1>1, <1>3, <1>4, <1>5, <1>6, <2>1
  <2>3. d \in Seq(Int) /\ Len(d) = n + 1
    BY <1>3
  <2> HIDE DEF d, e
  <2> QED
    BY <2>1, <2>2, <2>3
<1>9. SumSeq(b) = SumSeq(EachBasis(ds)) + row.basis
      /\ SumSeq(e) = SumSeq(EachGain(ds)) + row.gain
  BY <1>2, <1>4, SumAppends
<1> QED
  BY <1>1, <1>7, <1>8, <1>9 DEF m

LEMMA NoBasisIs == NoBasis \in Balanced /\ SumSeq(EachGain(<<>>)) = 0
<1> DEFINE z == <<>>
<1>1. z \in Seq(DisposalRow) /\ Len(z) = 0
  OBVIOUS
<1> HIDE DEF z
<1> DEFINE a == EachBasis(z)
           b == EachGain(z)
<1>2. a \in Seq(Int) /\ Len(a) = 0 /\ b \in Seq(Int) /\ Len(b) = 0
  BY <1>1, RowsDisposed
<1> HIDE DEF a, b
<1>3. (\A k \in 1..Len(a) : a[k] = 0) /\ \A k \in 1..Len(b) : b[k] = 0
  BY <1>2
<1>4. SumSeq(a) = 0 /\ SumSeq(b) = 0
  BY <1>2, <1>3, SumOfNothing
<1>5. SumSeq(EachBasis(<<>>)) = 0 /\ SumSeq(EachGain(<<>>)) = 0
  BY <1>4 DEF a, b, z
<1>6. NoBasis \in BasisType
  BY <1>1, NoLots DEF NoBasis, BasisType, z
<1> QED
  BY <1>5, <1>6, NoLots DEF Balanced, NoBasis

LEMMA LotIs ==
    ASSUME NEW row \in RowType
    PROVE  Lot(row) \in LotType /\ Lot(row).cost \in Nat /\ Lot(row).quantity = row.amountOut
<1>1. row.amountOut \in Nat \ {0} /\ row.amountIn \in Nat /\ row.fee \in Nat
  BY DEF RowType
<1>2. row.amountIn + row.fee \in Nat
  BY <1>1
<1> QED
  BY <1>1, <1>2 DEF Lot, LotType

LEMMA BuysBalance ==
    ASSUME NEW acc \in Balanced, NEW row \in RowType
    PROVE  BasisBuys(acc, row) \in Balanced
<1> DEFINE lot == Lot(row)
           next == BasisBuys(acc, row)
           lots == acc.lots
           ds == acc.disposals
<1>1. /\ acc \in BasisType /\ lots \in Seq(LotType) /\ ds \in Seq(DisposalRow)
      /\ acc.totalQuantity \in Int /\ acc.totalCost \in Int /\ acc.uncovered \in Nat
      /\ SumSeq(EachBasis(ds)) + CostOf(lots) = acc.totalCost
      /\ QuantityOf(lots) = acc.totalQuantity + acc.uncovered
  BY DEF Balanced, BasisType
<1>2. lot \in LotType /\ lot.cost \in Nat /\ lot.quantity = row.amountOut /\ row.amountOut \in Nat
  BY LotIs DEF RowType
<1>3. next = [acc EXCEPT !.lots = Append(lots, lot), !.totalQuantity = acc.totalQuantity + row.amountOut,
                         !.totalCost = acc.totalCost + lot.cost]
  BY DEF BasisBuys
<1> HIDE DEF lot, next
<1>4. /\ Append(lots, lot) \in Seq(LotType)
      /\ CostOf(Append(lots, lot)) = CostOf(lots) + lot.cost
      /\ QuantityOf(Append(lots, lot)) = QuantityOf(lots) + lot.quantity
      /\ CostOf(lots) \in Int /\ QuantityOf(lots) \in Int /\ SumSeq(EachBasis(ds)) \in Int
  BY <1>1, <1>2, LotAdds, EachIs, RowsDisposed
<1>5. /\ next \in BasisType /\ next.lots = Append(lots, lot) /\ next.disposals = ds
      /\ next.totalQuantity = acc.totalQuantity + row.amountOut
      /\ next.totalCost = acc.totalCost + lot.cost /\ next.uncovered = acc.uncovered
  <2> DEFINE x == Append(lots, lot)
             y == acc.totalQuantity + row.amountOut
             z == acc.totalCost + lot.cost
  <2>1. y \in Int /\ z \in Int
    BY <1>1, <1>2
  <2>2. x \in Seq(LotType)
    BY <1>4
  <2> HIDE DEF x, y, z
  <2>3. next = [acc EXCEPT !.lots = x, !.totalQuantity = y, !.totalCost = z]
    BY <1>3 DEF x, y, z
  <2>4. /\ next \in BasisType /\ next.lots = x /\ next.disposals = acc.disposals
        /\ next.totalQuantity = y /\ next.totalCost = z /\ next.uncovered = acc.uncovered
    BY <1>1, <2>1, <2>2, <2>3 DEF BasisType
  <2> QED
    BY <2>4 DEF x, y, z
<1>6. /\ SumSeq(EachBasis(ds)) + (CostOf(lots) + lot.cost) = acc.totalCost + lot.cost
      /\ QuantityOf(lots) + row.amountOut = acc.totalQuantity + row.amountOut + acc.uncovered
  <2> DEFINE s == SumSeq(EachBasis(ds))
             c == CostOf(lots)
             q == QuantityOf(lots)
             x == lot.cost
             y == row.amountOut
             v == acc.totalQuantity
             w == acc.uncovered
             u == acc.totalCost
  <2>1. /\ s \in Int /\ c \in Int /\ q \in Int /\ x \in Int /\ y \in Int /\ v \in Int /\ w \in Int
        /\ u \in Int /\ s + c = u /\ q = v + w
    BY <1>1, <1>2, <1>4
  <2> HIDE DEF s, c, q, x, y, v, w, u
  <2>2. s + (c + x) = u + x /\ q + y = v + y + w
    BY <2>1
  <2> QED
    BY <2>2 DEF s, c, q, x, y, v, w, u
<1> QED
  BY <1>2, <1>4, <1>5, <1>6 DEF Balanced, next

LEMMA SellsBalance ==
    ASSUME NEW acc \in Balanced, NEW row \in RowType, NEW method
    PROVE  BasisSells(acc, row, method) \in Balanced
<1> DEFINE lots == acc.lots
           ds == acc.disposals
           ordered == InMethodOrder(lots, method)
           sold == row.amountIn
           all == Dispose(ordered, sold)
           kept == InMethodOrder(all.lots, method)
           new == [basis |-> all.basis, quantity |-> sold, lots |-> Len(lots),
                   gain |-> row.amountOut - all.basis]
           next == BasisSells(acc, row, method)
<1>1. /\ acc \in BasisType /\ lots \in Seq(LotType) /\ ds \in Seq(DisposalRow)
      /\ acc.totalQuantity \in Int /\ acc.totalCost \in Int /\ acc.uncovered \in Nat
      /\ SumSeq(EachBasis(ds)) + CostOf(lots) = acc.totalCost
      /\ QuantityOf(lots) = acc.totalQuantity + acc.uncovered
      /\ Len(lots) \in Nat
  BY DEF Balanced, BasisType
<1>2. sold \in Nat /\ row.amountOut \in Nat
  BY DEF RowType
<1>3. ordered \in Seq(LotType) /\ CostOf(ordered) = CostOf(lots) /\ QuantityOf(ordered) = QuantityOf(lots)
  BY <1>1, LotsReverse
<1>4. next = [acc EXCEPT !.lots = kept, !.totalQuantity = acc.totalQuantity - sold,
                         !.uncovered = acc.uncovered + all.left, !.disposals = Append(ds, new)]
  BY DEF BasisSells
<1> HIDE DEF ordered, sold, next
<1>5. /\ all \in DisposalType
      /\ all.basis + CostOf(all.lots) = CostOf(ordered)
      /\ QuantityOf(all.lots) - all.left = QuantityOf(ordered) - sold
  BY <1>2, <1>3, DisposeIs
<1> HIDE DEF all
<1>6. all.left \in Nat /\ all.basis \in Nat /\ all.lots \in Seq(LotType)
  BY <1>5 DEF DisposalType
<1>7. kept \in Seq(LotType) /\ CostOf(kept) = CostOf(all.lots) /\ QuantityOf(kept) = QuantityOf(all.lots)
  BY <1>6, LotsReverse
<1> HIDE DEF kept
<1>8. new \in DisposalRow /\ new.basis = all.basis
  BY <1>1, <1>2, <1>6 DEF DisposalRow
<1> HIDE DEF new
<1>9. /\ Append(ds, new) \in Seq(DisposalRow)
      /\ SumSeq(EachBasis(Append(ds, new))) = SumSeq(EachBasis(ds)) + all.basis
      /\ SumSeq(EachBasis(ds)) \in Int
      /\ CostOf(all.lots) \in Int /\ QuantityOf(all.lots) \in Int
      /\ CostOf(lots) \in Int /\ QuantityOf(lots) \in Int
  BY <1>1, <1>6, <1>8, RowDisposed, RowsDisposed, EachIs
<1>10. /\ next \in BasisType /\ next.lots = kept /\ next.disposals = Append(ds, new)
       /\ next.totalQuantity = acc.totalQuantity - sold
       /\ next.totalCost = acc.totalCost /\ next.uncovered = acc.uncovered + all.left
  <2> DEFINE y == acc.totalQuantity - sold
             z == acc.uncovered + all.left
             x == Append(ds, new)
  <2>1. y \in Int /\ z \in Nat
    BY <1>1, <1>2, <1>6
  <2>2. x \in Seq(DisposalRow)
    BY <1>9
  <2> HIDE DEF x, y, z
  <2>3. next = [acc EXCEPT !.lots = kept, !.totalQuantity = y, !.uncovered = z, !.disposals = x]
    BY <1>4 DEF x, y, z
  <2>4. /\ next \in BasisType /\ next.lots = kept /\ next.disposals = x
        /\ next.totalQuantity = y /\ next.totalCost = acc.totalCost /\ next.uncovered = z
    BY <1>1, <1>7, <2>1, <2>2, <2>3 DEF BasisType
  <2> QED
    BY <2>4 DEF x, y, z
<1>11. /\ SumSeq(EachBasis(ds)) + all.basis + CostOf(all.lots) = acc.totalCost
       /\ QuantityOf(all.lots) = acc.totalQuantity - sold + (acc.uncovered + all.left)
  <2> DEFINE s == SumSeq(EachBasis(ds))
             c == CostOf(lots)
             q == QuantityOf(lots)
             b == all.basis
             l == all.left
             k == CostOf(all.lots)
             m == QuantityOf(all.lots)
             v == acc.totalQuantity
             w == acc.uncovered
             u == acc.totalCost
  <2>1. /\ s \in Int /\ c \in Int /\ q \in Int /\ b \in Int /\ l \in Int /\ k \in Int /\ m \in Int
        /\ v \in Int /\ w \in Int /\ u \in Int /\ sold \in Int
    BY <1>1, <1>2, <1>6, <1>9, SMTT(60)
  <2>2. s + c = u /\ q = v + w /\ b + k = c /\ m - l = q - sold
    BY <1>1, <1>3, <1>5
  <2> HIDE DEF s, c, q, b, l, k, m, v, w, u
  <2>3. s + b + k = u
    BY <2>1, <2>2
  <2>4. m = v - sold + (w + l)
    BY <2>1, <2>2
  <2> QED
    BY <2>3, <2>4 DEF s, c, q, b, l, k, m, v, w, u
<1> QED
  BY <1>7, <1>9, <1>10, <1>11 DEF Balanced, next

(* What getCostBasis has after each row.                                      *)
BasisStep(acc, row, token, method) ==
    IF row.tokenOut = token THEN BasisBuys(acc, row) ELSE BasisSells(acc, row, method)

BasisCourse(rows, token, method, b) ==
    /\ b \in [0..Len(rows) -> Balanced] /\ b[0] = NoBasis
    /\ \A n \in 1..Len(rows) : b[n] = BasisStep(b[n - 1], rows[n], token, method)

LEMMA CostBasisIs ==
    ASSUME NEW rows, RowsOK(rows), NEW token, NEW method
    PROVE  \E b : /\ BasisCourse(rows, token, method, b)
                  /\ GetCostBasis(rows, token, method) = b[Len(rows)]
<1> DEFINE N == Len(rows)
           a == NoBasis
           Step(x, n) == BasisStep(x, rows[n], token, method)
           F(f) == [n \in 0..N |-> IF n = 0 THEN NoBasis
                                   ELSE IF rows[n].tokenOut = token THEN BasisBuys(f[n - 1], rows[n])
                                   ELSE BasisSells(f[n - 1], rows[n], method)]
           S == Balanced
           g == [p \in S \X (1..N) |-> Step(p[1], p[2])]
           d == CHOOSE f : f = F(f)
<1>1. N \in Nat /\ \A n \in 1..N : rows[n] \in RowType
  BY DEF RowsOK
<1>2. a \in S
  BY NoBasisIs
<1>2a. \A x \in S, n \in 1..N : Step(x, n) \in S
  BY <1>1, BuysBalance, SellsBalance DEF BasisStep
<1>2b. \A f : F(f) = [n \in 0..N |-> IF n = 0 THEN a ELSE Step(f[n - 1], n)]
  BY DEF BasisStep
<1> HIDE DEF a, Step, F
<1>3. g \in [S \X (1..N) -> S] /\ \A x \in S, n \in 1..N : g[<<x, n>>] = Step(x, n)
  <2> HIDE DEF S, N
  <2>2. \A p \in S \X (1..N) : p[1] \in S /\ p[2] \in 1..N
    OBVIOUS
  <2>3. g \in [S \X (1..N) -> S]
    BY <1>2a, <2>2
  <2>4. \A x \in S, n \in 1..N : <<x, n>> \in S \X (1..N) /\ <<x, n>>[1] = x /\ <<x, n>>[2] = n
    OBVIOUS
  <2>5. \A x \in S, n \in 1..N : g[<<x, n>>] = Step(x, n)
    BY <2>4
  <2> QED
    BY <2>3, <2>5
<1> HIDE DEF g, N, S
<1>4. \A n \in 1..N : n \in 0..N /\ n - 1 \in 0..N /\ n # 0
  BY <1>1
<1>5. PICK r : Course(N, S, a, g, r)
  BY <1>1, <1>2, <1>3, LoopRuns
<1>6. r = F(r)
  <2>1. r \in [0..N -> S] /\ r[0] = a /\ \A n \in 1..N : r[n] = g[<<r[n - 1], n>>]
    BY <1>5 DEF Course
  <2>2. \A n \in 1..N : r[n] = Step(r[n - 1], n)
    BY <1>3, <1>4, <2>1
  <2>3. \A n \in 0..N : r[n] = IF n = 0 THEN a ELSE Step(r[n - 1], n)
    <3>1. \A n \in 0..N : n = 0 \/ n \in 1..N
      BY <1>1
    <3> QED
      BY <1>4, <2>1, <2>2, <3>1
  <2>4. r = [n \in 0..N |-> r[n]]
    BY <2>1
  <2> QED
    BY <1>2b, <2>3, <2>4
<1>7. d = F(d)
  BY <1>6
<1>8. GetCostBasis(rows, token, method) = d[N]
  BY DEF GetCostBasis, N, F
<1> HIDE DEF d
<1>9. d = [n \in 0..N |-> d[n]] /\ d[0] = a /\ \A n \in 1..N : d[n] = Step(d[n - 1], n)
  <2>1. 0 \in 0..N
    BY <1>1
  <2>2. d = [n \in 0..N |-> IF n = 0 THEN a ELSE Step(d[n - 1], n)]
    BY <1>2b, <1>7
  <2> QED
    BY <1>4, <2>1, <2>2
<1>10. Course(N, S, a, g, d)
  <2>1. \A n \in 1..N : d[n - 1] \in S => d[n] = g[<<d[n - 1], n>>]
    BY <1>3, <1>9
  <2> QED
    BY <1>1, <1>2, <1>3, <1>9, <2>1, CourseOf
<1>11. d \in [0..N -> S]
  BY <1>10 DEF Course
<1>12. BasisCourse(rows, token, method, d)
  BY <1>9, <1>11 DEF BasisCourse, N, S, a, Step
<1> QED
  BY <1>8, <1>12 DEF N

LEMMA CostIsConserved == SwapsOK => CostConserved
<1> SUFFICES ASSUME SwapsOK, NEW u \in Users, NEW token \in Tokens, NEW method \in {"FIFO", "LIFO"}
             PROVE  LET basis == GetCostBasis(Rows(u), token, method) IN
                    /\ SumSeq(EachBasis(basis.disposals)) + SumSeq(EachCost(basis.lots)) = basis.totalCost
                    /\ SumSeq(EachQuantity(basis.lots)) = basis.totalQuantity + basis.uncovered
  BY DEF CostConserved
<1> DEFINE rows == Rows(u)
<1>1. RowsOK(rows)
  BY RowsAre
<1> HIDE DEF rows
<1>2. PICK b : /\ BasisCourse(rows, token, method, b)
               /\ GetCostBasis(rows, token, method) = b[Len(rows)]
  BY <1>1, CostBasisIs
<1>3. b[Len(rows)] \in Balanced
  BY <1>1, <1>2 DEF BasisCourse, RowsOK
<1> QED
  BY <1>2, <1>3 DEF Balanced, CostOf, QuantityOf, rows

(* A sale covered by the one open lot.                                        *)
LEMMA DisposeOne ==
    ASSUME NEW lot \in LotType, NEW sold \in Nat, Dispose(<<lot>>, sold).left = 0
    PROVE  /\ sold <= lot.quantity
           /\ Dispose(<<lot>>, sold).basis = (sold * lot.cost) \div lot.quantity
           /\ Dispose(<<lot>>, sold).lots = Kept(<<>>, TakeFrom(lot, sold))
<1> DEFINE lots == <<lot>>
           a == [left |-> sold, basis |-> 0, lots |-> <<>>]
<1>1. lots \in Seq(LotType) /\ Len(lots) = 1 /\ lots[1] = lot
  OBVIOUS
<1> HIDE DEF lots
<1>2. PICK d : DisposeCourse(lots, sold, d) /\ Dispose(lots, sold) = d[Len(lots)]
  BY <1>1, DisposeRuns
<1>3. d[1] = Disposed(a, lot) /\ Dispose(lots, sold) = d[1]
  <2>1. 1 \in 1..1 /\ 1 - 1 = 0
    OBVIOUS
  <2>2. \A n \in 1..1 : d[n] = Disposed(d[n - 1], lots[n])
    BY <1>1, <1>2 DEF DisposeCourse
  <2>3. d[1] = Disposed(d[0], lots[1])
    BY <2>1, <2>2
  <2> QED
    BY <1>1, <1>2, <2>3 DEF DisposeCourse
<1> DEFINE qty == Min({sold, lot.quantity})
<1>4. Disposed(a, lot) = [left |-> sold - qty, basis |-> 0 + (qty * lot.cost) \div lot.quantity,
                          lots |-> Kept(<<>>, TakeFrom(lot, qty))]
  BY DEF Disposed
<1>5. lot.quantity \in Nat \ {0} /\ lot.cost \in Nat
  BY DEF LotType
<1>6. qty = IF sold <= lot.quantity THEN sold ELSE lot.quantity
  <2>1. sold \in Int /\ lot.quantity \in Int
    BY <1>5
  <2> QED
    BY <2>1, MinTwo
<1> HIDE DEF qty, a
<1>7. sold - qty = 0
  BY <1>3, <1>4 DEF lots
<1>8. qty = sold /\ sold <= lot.quantity
  <2>1. qty \in Nat
    BY <1>5, <1>6
  <2>2. qty = sold
    BY <1>7, <2>1
  <2> QED
    BY <1>5, <1>6, <2>2
<1>9. (sold * lot.cost) \div lot.quantity \in Nat
  <2>1. sold \in 0..lot.quantity
    BY <1>5, <1>8
  <2> QED
    BY <1>5, <2>1, PartIs
<1>10. 0 + (sold * lot.cost) \div lot.quantity = (sold * lot.cost) \div lot.quantity
  BY <1>9
<1> QED
  BY <1>3, <1>4, <1>8, <1>10 DEF lots

-----------------------------------------------------------------------------
(* getCapitalGains. *)

SaleType == [net : Int, lots : Seq(LotType)]

LEMMA QuotIsInt ==
    ASSUME NEW x \in Nat, NEW y \in Nat \ {0}
    PROVE  x \div y \in Int
  OBVIOUS

LEMMA GainedIs ==
    ASSUME NEW acc \in SaleType, NEW lot \in LotType, NEW sold \in Nat \ {0}, NEW proceeds \in Nat
    PROVE  Gained(acc, lot, sold, proceeds) \in SaleType
<1> DEFINE qty == Min({sold, lot.quantity})
           lots == acc.lots
           won == (qty * proceeds) \div sold
           part == (qty * lot.cost) \div lot.quantity
           left == Kept(lots, TakeFrom(lot, qty))
<1>1. /\ acc.net \in Int /\ lots \in Seq(LotType)
      /\ lot.quantity \in Nat \ {0} /\ lot.cost \in Nat
  BY DEF SaleType, LotType
<1>2. qty = IF sold <= lot.quantity THEN sold ELSE lot.quantity
  <2>1. sold \in Int /\ lot.quantity \in Int
    BY <1>1
  <2> QED
    BY <2>1, MinTwo
<1>3. Gained(acc, lot, sold, proceeds) = [net |-> acc.net + won - part, lots |-> left]
  BY DEF Gained
<1> HIDE DEF qty, lots
<1>4. qty \in 0..lot.quantity /\ qty \in Nat
  BY <1>1, <1>2
<1>5. part \in Nat /\ left \in Seq(LotType)
  BY <1>1, <1>4, TakeFromIs
<1>6. won \in Int
  <2> DEFINE x == qty * proceeds
  <2>1. x \in Nat
    BY <1>4
  <2> HIDE DEF x
  <2>2. x \div sold \in Int
    BY <2>1, QuotIsInt
  <2> QED
    BY <2>2 DEF x
<1> HIDE DEF won, part, left
<1>7. acc.net + won - part \in Int
  BY <1>1, <1>5, <1>6
<1> QED
  BY <1>3, <1>5, <1>7 DEF SaleType

(* What a sale has after each lot.                                            *)
SaleCourse(lots, sold, proceeds, d) ==
    /\ d \in [0..Len(lots) -> SaleType]
    /\ d[0] = [net |-> 0, lots |-> <<>>]
    /\ \A n \in 1..Len(lots) : d[n] = Gained(d[n - 1], lots[n], sold, proceeds)

LEMMA SaleRuns ==
    ASSUME NEW lots \in Seq(LotType), NEW sold \in Nat \ {0}, NEW proceeds \in Nat
    PROVE  \E d : SaleCourse(lots, sold, proceeds, d) /\ GainOf(lots, sold, proceeds) = d[Len(lots)]
<1> DEFINE N == Len(lots)
           a == [net |-> 0, lots |-> <<>>]
           Step(x, n) == Gained(x, lots[n], sold, proceeds)
           F(f) == [n \in 0..N |-> IF n = 0 THEN [net |-> 0, lots |-> <<>>]
                                   ELSE Gained(f[n - 1], lots[n], sold, proceeds)]
           S == SaleType
           g == [p \in S \X (1..N) |-> Step(p[1], p[2])]
           d == CHOOSE f : f = F(f)
<1>1. N \in Nat /\ \A n \in 1..N : lots[n] \in LotType
  OBVIOUS
<1>2. a \in S
  BY NoLots DEF SaleType
<1>2a. \A x \in S, n \in 1..N : Step(x, n) \in S
  BY <1>1, GainedIs
<1>2b. \A f : F(f) = [n \in 0..N |-> IF n = 0 THEN a ELSE Step(f[n - 1], n)]
  OBVIOUS
<1> HIDE DEF a, Step, F
<1>3. g \in [S \X (1..N) -> S] /\ \A x \in S, n \in 1..N : g[<<x, n>>] = Step(x, n)
  <2> HIDE DEF S, N
  <2>2. \A p \in S \X (1..N) : p[1] \in S /\ p[2] \in 1..N
    OBVIOUS
  <2>3. g \in [S \X (1..N) -> S]
    BY <1>2a, <2>2
  <2>4. \A x \in S, n \in 1..N : <<x, n>> \in S \X (1..N) /\ <<x, n>>[1] = x /\ <<x, n>>[2] = n
    OBVIOUS
  <2>5. \A x \in S, n \in 1..N : g[<<x, n>>] = Step(x, n)
    BY <2>4
  <2> QED
    BY <2>3, <2>5
<1> HIDE DEF g, N, S
<1>4. \A n \in 1..N : n \in 0..N /\ n - 1 \in 0..N /\ n # 0
  BY <1>1
<1>5. PICK r : Course(N, S, a, g, r)
  BY <1>1, <1>2, <1>3, LoopRuns
<1>6. r = F(r)
  <2>1. r \in [0..N -> S] /\ r[0] = a /\ \A n \in 1..N : r[n] = g[<<r[n - 1], n>>]
    BY <1>5 DEF Course
  <2>2. \A n \in 1..N : r[n] = Step(r[n - 1], n)
    BY <1>3, <1>4, <2>1
  <2>3. \A n \in 0..N : r[n] = IF n = 0 THEN a ELSE Step(r[n - 1], n)
    <3>1. \A n \in 0..N : n = 0 \/ n \in 1..N
      BY <1>1
    <3> QED
      BY <1>4, <2>1, <2>2, <3>1
  <2>4. r = [n \in 0..N |-> r[n]]
    BY <2>1
  <2> QED
    BY <1>2b, <2>3, <2>4
<1>7. d = F(d)
  BY <1>6
<1>8. GainOf(lots, sold, proceeds) = d[N]
  BY DEF GainOf, N, F
<1> HIDE DEF d
<1>9. d = [n \in 0..N |-> d[n]] /\ d[0] = a /\ \A n \in 1..N : d[n] = Step(d[n - 1], n)
  <2>1. 0 \in 0..N
    BY <1>1
  <2>2. d = [n \in 0..N |-> IF n = 0 THEN a ELSE Step(d[n - 1], n)]
    BY <1>2b, <1>7
  <2> QED
    BY <1>4, <2>1, <2>2
<1>10. Course(N, S, a, g, d)
  <2>1. \A n \in 1..N : d[n - 1] \in S => d[n] = g[<<d[n - 1], n>>]
    BY <1>3, <1>9
  <2> QED
    BY <1>1, <1>2, <1>3, <1>9, <2>1, CourseOf
<1>11. d \in [0..N -> S]
  BY <1>10 DEF Course
<1>12. SaleCourse(lots, sold, proceeds, d)
  BY <1>9, <1>11 DEF SaleCourse, N, S, a, Step
<1> QED
  BY <1>8, <1>12 DEF N

LEMMA SaleIs ==
    ASSUME NEW lots \in Seq(LotType), NEW sold \in Nat \ {0}, NEW proceeds \in Nat
    PROVE  GainOf(lots, sold, proceeds) \in SaleType
<1>1. PICK d : SaleCourse(lots, sold, proceeds, d) /\ GainOf(lots, sold, proceeds) = d[Len(lots)]
  BY SaleRuns
<1>2. Len(lots) \in 0..Len(lots)
  OBVIOUS
<1> QED
  BY <1>1, <1>2 DEF SaleCourse

LEMMA SaleOfOne ==
    ASSUME NEW lot \in LotType, NEW sold \in Nat \ {0}, NEW proceeds \in Nat, sold <= lot.quantity
    PROVE  /\ GainOf(<<lot>>, sold, proceeds).net = proceeds - (sold * lot.cost) \div lot.quantity
           /\ GainOf(<<lot>>, sold, proceeds).lots = Kept(<<>>, TakeFrom(lot, sold))
<1> DEFINE lots == <<lot>>
           a == [net |-> 0, lots |-> <<>>]
<1>1. lots \in Seq(LotType) /\ Len(lots) = 1 /\ lots[1] = lot
  OBVIOUS
<1> HIDE DEF lots
<1>2. PICK d : SaleCourse(lots, sold, proceeds, d) /\ GainOf(lots, sold, proceeds) = d[Len(lots)]
  BY <1>1, SaleRuns
<1>3. GainOf(lots, sold, proceeds) = Gained(a, lot, sold, proceeds)
  <2>1. 1 \in 1..1 /\ 1 - 1 = 0
    OBVIOUS
  <2>2. \A n \in 1..1 : d[n] = Gained(d[n - 1], lots[n], sold, proceeds)
    BY <1>1, <1>2 DEF SaleCourse
  <2>3. d[1] = Gained(d[0], lots[1], sold, proceeds)
    BY <2>1, <2>2
  <2> QED
    BY <1>1, <1>2, <2>3 DEF SaleCourse
<1> DEFINE qty == Min({sold, lot.quantity})
           part == (sold * lot.cost) \div lot.quantity
<1>4. Gained(a, lot, sold, proceeds) =
        [net |-> 0 + (qty * proceeds) \div sold - (qty * lot.cost) \div lot.quantity,
         lots |-> Kept(<<>>, TakeFrom(lot, qty))]
  BY DEF Gained
<1>5. lot.quantity \in Nat \ {0} /\ lot.cost \in Nat
  BY DEF LotType
<1>6. qty = sold
  <2>1. sold \in Int /\ lot.quantity \in Int
    BY <1>5
  <2>2. qty = IF sold <= lot.quantity THEN sold ELSE lot.quantity
    BY <2>1, MinTwo
  <2> QED
    BY <2>2
<1> HIDE DEF qty, a
<1>7. part \in Nat
  <2>1. sold \in 0..lot.quantity
    BY <1>5
  <2> QED
    BY <1>5, <2>1, PartIs
<1>8. (sold * proceeds) \div sold = proceeds
  <2>1. sold \in 0..sold
    OBVIOUS
  <2> QED
    BY <2>1, PartIs
<1> HIDE DEF part
<1>9. 0 + proceeds - part = proceeds - part
  BY <1>7
<1> QED
  BY <1>3, <1>4, <1>6, <1>8, <1>9 DEF lots, part

GainsType == [net : [Tokens -> Int], lots : [Tokens -> Seq(LotType)]]

LEMMA GainsRowIs ==
    ASSUME NEW acc \in GainsType, NEW row \in RowType, row.tokenIn # row.tokenOut
    PROVE  LET sale == GainOf(acc.lots[row.tokenIn], row.amountIn, row.amountOut)
               next == GainsRow(acc, row) IN
           /\ sale \in SaleType /\ next \in GainsType
           /\ next.net[row.tokenIn] = acc.net[row.tokenIn] + sale.net
           /\ next.lots[row.tokenIn] = sale.lots
           /\ next.net[row.tokenOut] = acc.net[row.tokenOut]
           /\ next.lots[row.tokenOut] = Append(acc.lots[row.tokenOut], Lot(row))
<1> DEFINE i == row.tokenIn
           o == row.tokenOut
           sale == GainOf(acc.lots[i], row.amountIn, row.amountOut)
           lot == Lot(row)
           net == acc.net
           lots == acc.lots
           next == GainsRow(acc, row)
<1>1. /\ i \in Tokens /\ o \in Tokens /\ row.amountIn \in Nat \ {0} /\ row.amountOut \in Nat
      /\ net \in [Tokens -> Int] /\ lots \in [Tokens -> Seq(LotType)] /\ i # o
  BY DEF RowType, GainsType
<1>2. lot \in LotType
  BY LotIs
<1>3. sale \in SaleType
  <2>1. lots[i] \in Seq(LotType)
    BY <1>1
  <2> QED
    BY <1>1, <2>1, SaleIs
<1>4. next = [net  |-> [net EXCEPT ![i] = net[i] + sale.net],
              lots |-> [lots EXCEPT ![o] = Append(lots[o], lot), ![i] = sale.lots]]
  BY DEF GainsRow
<1> HIDE DEF i, o, lot, net, lots, sale, next
<1>5. sale.net \in Int /\ sale.lots \in Seq(LotType)
  BY <1>3 DEF SaleType
<1> DEFINE x == net[i] + sale.net
           y == Append(lots[o], lot)
           z == sale.lots
<1>6. x \in Int /\ y \in Seq(LotType) /\ z \in Seq(LotType)
  <2>1. net[i] \in Int /\ lots[o] \in Seq(LotType)
    BY <1>1
  <2>2. x \in Int
    BY <1>5, <2>1
  <2>3. y \in Seq(LotType)
    BY <1>2, <2>1
  <2> QED
    BY <1>5, <2>2, <2>3
<1>7. next = [net |-> [net EXCEPT ![i] = x], lots |-> [lots EXCEPT ![o] = y, ![i] = z]]
  BY <1>4
<1> HIDE DEF x, y, z
<1> DEFINE n == [net EXCEPT ![i] = x]
           l == [lots EXCEPT ![o] = y, ![i] = z]
<1>8. n \in [Tokens -> Int] /\ n[i] = x /\ n[o] = net[o]
  BY <1>1, <1>6
<1>9. l \in [Tokens -> Seq(LotType)] /\ l[i] = z /\ l[o] = y
  BY <1>1, <1>6
<1> HIDE DEF n, l
<1>10. next \in GainsType /\ next.net = n /\ next.lots = l
  <2>1. next = [net |-> n, lots |-> l]
    BY <1>7 DEF n, l
  <2> QED
    BY <1>8, <1>9, <2>1 DEF GainsType
<1> QED
  BY <1>3, <1>8, <1>9, <1>10 DEF next, x, y, z, sale, lot, net, lots, i, o

LEMMA NoGainsIs == NoGains \in GainsType
  BY NoLots DEF NoGains, GainsType

(* What getCapitalGains has after each row.                                   *)
GainsCourse(rows, k) ==
    /\ k \in [0..Len(rows) -> GainsType] /\ k[0] = NoGains
    /\ \A n \in 1..Len(rows) : k[n] = GainsRow(k[n - 1], rows[n])

LEMMA CapitalGainsIs ==
    ASSUME NEW rows, RowsOK(rows)
    PROVE  \E k : GainsCourse(rows, k) /\ GetCapitalGains(rows) = k[Len(rows)]
<1> DEFINE N == Len(rows)
           a == NoGains
           Step(x, n) == GainsRow(x, rows[n])
           F(f) == [n \in 0..N |-> IF n = 0 THEN NoGains ELSE GainsRow(f[n - 1], rows[n])]
           S == GainsType
           g == [p \in S \X (1..N) |-> Step(p[1], p[2])]
           d == CHOOSE f : f = F(f)
<1>1. N \in Nat /\ \A n \in 1..N : rows[n] \in RowType /\ rows[n].tokenIn # rows[n].tokenOut
  BY DEF RowsOK
<1>2. a \in S
  BY NoGainsIs
<1>2a. \A x \in S, n \in 1..N : Step(x, n) \in S
  BY <1>1, GainsRowIs
<1>2b. \A f : F(f) = [n \in 0..N |-> IF n = 0 THEN a ELSE Step(f[n - 1], n)]
  OBVIOUS
<1> HIDE DEF a, Step, F
<1>3. g \in [S \X (1..N) -> S] /\ \A x \in S, n \in 1..N : g[<<x, n>>] = Step(x, n)
  <2> HIDE DEF S, N
  <2>2. \A p \in S \X (1..N) : p[1] \in S /\ p[2] \in 1..N
    OBVIOUS
  <2>3. g \in [S \X (1..N) -> S]
    BY <1>2a, <2>2
  <2>4. \A x \in S, n \in 1..N : <<x, n>> \in S \X (1..N) /\ <<x, n>>[1] = x /\ <<x, n>>[2] = n
    OBVIOUS
  <2>5. \A x \in S, n \in 1..N : g[<<x, n>>] = Step(x, n)
    BY <2>4
  <2> QED
    BY <2>3, <2>5
<1> HIDE DEF g, N, S
<1>4. \A n \in 1..N : n \in 0..N /\ n - 1 \in 0..N /\ n # 0
  BY <1>1
<1>5. PICK r : Course(N, S, a, g, r)
  BY <1>1, <1>2, <1>3, LoopRuns
<1>6. r = F(r)
  <2>1. r \in [0..N -> S] /\ r[0] = a /\ \A n \in 1..N : r[n] = g[<<r[n - 1], n>>]
    BY <1>5 DEF Course
  <2>2. \A n \in 1..N : r[n] = Step(r[n - 1], n)
    BY <1>3, <1>4, <2>1
  <2>3. \A n \in 0..N : r[n] = IF n = 0 THEN a ELSE Step(r[n - 1], n)
    <3>1. \A n \in 0..N : n = 0 \/ n \in 1..N
      BY <1>1
    <3> QED
      BY <1>4, <2>1, <2>2, <3>1
  <2>4. r = [n \in 0..N |-> r[n]]
    BY <2>1
  <2> QED
    BY <1>2b, <2>3, <2>4
<1>7. d = F(d)
  BY <1>6
<1>8. GetCapitalGains(rows) = d[N]
  BY DEF GetCapitalGains, N, F
<1> HIDE DEF d
<1>9. d = [n \in 0..N |-> d[n]] /\ d[0] = a /\ \A n \in 1..N : d[n] = Step(d[n - 1], n)
  <2>1. 0 \in 0..N
    BY <1>1
  <2>2. d = [n \in 0..N |-> IF n = 0 THEN a ELSE Step(d[n - 1], n)]
    BY <1>2b, <1>7
  <2> QED
    BY <1>4, <2>1, <2>2
<1>10. Course(N, S, a, g, d)
  <2>1. \A n \in 1..N : d[n - 1] \in S => d[n] = g[<<d[n - 1], n>>]
    BY <1>3, <1>9
  <2> QED
    BY <1>1, <1>2, <1>3, <1>9, <2>1, CourseOf
<1>11. d \in [0..N -> S]
  BY <1>10 DEF Course
<1>12. GainsCourse(rows, d)
  BY <1>9, <1>11 DEF GainsCourse, N, S, a, Step
<1> QED
  BY <1>8, <1>12 DEF N

(* No sale of a token so far had other than the one open lot, which covered it.*)
OneLotEach(acc) ==
    /\ acc.uncovered = 0
    /\ \A j \in 1..Len(acc.disposals) : acc.disposals[j].lots = 1
(* Both loops tell of the same lots and gains.                                *)
SameGains(acc, gains, token) ==
    /\ gains.lots[token] = acc.lots
    /\ gains.net[token] = SumSeq(EachGain(acc.disposals))

(* A purchase of the token.                                                   *)
LEMMA SameAfterPurchase ==
    ASSUME NEW token \in Tokens, NEW acc \in Balanced, NEW gains \in GainsType,
           NEW row \in RowType, row.tokenIn # row.tokenOut, row.tokenOut = token,
           OneLotEach(acc) => SameGains(acc, gains, token), OneLotEach(BasisBuys(acc, row))
    PROVE  SameGains(BasisBuys(acc, row), GainsRow(gains, row), token)
<1> DEFINE next == BasisBuys(acc, row)
<1>1. acc \in BasisType
  BY DEF Balanced
<1>2. /\ next.lots = Append(acc.lots, Lot(row)) /\ next.disposals = acc.disposals
      /\ next.uncovered = acc.uncovered
  BY <1>1 DEF BasisBuys, BasisType
<1>3. OneLotEach(acc)
  BY <1>2 DEF OneLotEach
<1>4. GainsRow(gains, row).lots[token] = Append(gains.lots[token], Lot(row))
      /\ GainsRow(gains, row).net[token] = gains.net[token]
  BY GainsRowIs
<1> QED
  BY <1>2, <1>3, <1>4 DEF SameGains

(* A sale of it.                                                              *)
LEMMA SameAfterSale ==
    ASSUME NEW token \in Tokens, NEW acc \in Balanced, NEW gains \in GainsType,
           NEW row \in RowType, row.tokenIn # row.tokenOut, row.tokenIn = token,
           OneLotEach(acc) => SameGains(acc, gains, token),
           OneLotEach(BasisSells(acc, row, "FIFO"))
    PROVE  SameGains(BasisSells(acc, row, "FIFO"), GainsRow(gains, row), token)
<1> DEFINE lots == acc.lots
           ds == acc.disposals
           sold == row.amountIn
           all == Dispose(lots, sold)
           new == [basis |-> all.basis, quantity |-> sold, lots |-> Len(lots),
                   gain |-> row.amountOut - all.basis]
           after == Append(ds, new)
           next == BasisSells(acc, row, "FIFO")
<1>1. /\ acc \in BasisType /\ lots \in Seq(LotType) /\ ds \in Seq(DisposalRow)
      /\ acc.uncovered \in Nat /\ Len(lots) \in Nat /\ Len(ds) \in Nat
      /\ sold \in Nat \ {0} /\ row.amountOut \in Nat
  BY DEF Balanced, BasisType, RowType
<1>2. all \in DisposalType
  BY <1>1, DisposeIs
<1>3. all.left \in Nat /\ all.basis \in Nat /\ all.lots \in Seq(LotType)
  BY <1>2 DEF DisposalType
<1>4. next = [acc EXCEPT !.lots = all.lots, !.totalQuantity = acc.totalQuantity - sold,
                         !.uncovered = acc.uncovered + all.left, !.disposals = after]
  BY DEF BasisSells, InMethodOrder
<1> HIDE DEF all, next, after, new, sold
<1>5. next.lots = all.lots /\ next.uncovered = acc.uncovered + all.left /\ next.disposals = after
  BY <1>1, <1>4 DEF BasisType
<1>6. new \in DisposalRow
  BY <1>1, <1>3 DEF new, DisposalRow
<1>7. /\ Len(after) = Len(ds) + 1 /\ after[Len(ds) + 1] = new
      /\ \A j \in 1..Len(ds) : after[j] = ds[j]
      /\ SumSeq(EachGain(after)) = SumSeq(EachGain(ds)) + new.gain
  BY <1>1, <1>6, RowDisposed DEF after
<1>8. /\ acc.uncovered + all.left = 0
      /\ \A j \in 1..(Len(ds) + 1) : after[j].lots = 1
  BY <1>5, <1>7 DEF OneLotEach, next
<1>9. acc.uncovered = 0 /\ all.left = 0
  BY <1>1, <1>3, <1>8
<1>10. new.lots = 1 /\ \A j \in 1..Len(ds) : ds[j].lots = 1
  <2>1. Len(ds) + 1 \in 1..(Len(ds) + 1) /\ \A j \in 1..Len(ds) : j \in 1..(Len(ds) + 1)
    BY <1>1
  <2> QED
    BY <1>7, <1>8, <2>1
<1>11. SameGains(acc, gains, token)
  BY <1>9, <1>10 DEF OneLotEach
<1> DEFINE lot == lots[1]
<1>12. Len(lots) = 1
  BY <1>10 DEF new
<1>13. lots = <<lot>> /\ lot \in LotType
  BY <1>1, <1>12
<1> HIDE DEF lot, lots, ds
<1> DEFINE part == (sold * lot.cost) \div lot.quantity
           sale == GainOf(lots, sold, row.amountOut)
<1>14. sold <= lot.quantity /\ all.basis = part /\ all.lots = Kept(<<>>, TakeFrom(lot, sold))
  <2>1. Dispose(<<lot>>, sold).left = 0 /\ sold \in Nat
    BY <1>1, <1>9, <1>13 DEF all
  <2> QED
    BY <1>13, <2>1, DisposeOne DEF all
<1>15. sale.net = row.amountOut - part /\ sale.lots = Kept(<<>>, TakeFrom(lot, sold))
  BY <1>1, <1>13, <1>14, SaleOfOne
<1>16. /\ GainsRow(gains, row).net[token] = gains.net[token] + sale.net
       /\ GainsRow(gains, row).lots[token] = sale.lots
  <2>1. gains.lots[token] = lots
    BY <1>11 DEF SameGains, lots
  <2> QED
    BY <2>1, GainsRowIs DEF sold
<1>17. gains.net[token] = SumSeq(EachGain(ds))
  BY <1>11 DEF SameGains, ds
<1>18. new.gain = row.amountOut - part
  BY <1>14 DEF new
<1> QED
  BY <1>5, <1>7, <1>14, <1>15, <1>16, <1>17, <1>18 DEF SameGains, next

LEMMA GainsAgreeAlways == SwapsOK => GainsAgree
<1> SUFFICES ASSUME SwapsOK, NEW u \in Users, NEW token \in Tokens,
                    GetCostBasis(Rows(u), token, "FIFO").uncovered = 0,
                    \A d \in Range(GetCostBasis(Rows(u), token, "FIFO").disposals) : d.lots = 1
             PROVE  GetCapitalGains(Rows(u)).net[token]
                      = SumSeq(EachGain(GetCostBasis(Rows(u), token, "FIFO").disposals))
  BY DEF GainsAgree
<1> DEFINE rows == Rows(u)
           N == Len(rows)
           basis == GetCostBasis(rows, token, "FIFO")
<1>1. RowsOK(rows)
  BY RowsAre
<1> HIDE DEF rows
<1>2. PICK b : BasisCourse(rows, token, "FIFO", b) /\ basis = b[N]
  BY <1>1, CostBasisIs
<1>3. PICK k : GainsCourse(rows, k) /\ GetCapitalGains(rows) = k[N]
  BY <1>1, CapitalGainsIs
<1>4. /\ N \in Nat
      /\ \A n \in 1..N : rows[n] \in RowType /\ rows[n].tokenIn # rows[n].tokenOut
  BY <1>1 DEF RowsOK
<1>5. /\ b \in [0..N -> Balanced] /\ b[0] = NoBasis
      /\ \A n \in 1..N : b[n] = BasisStep(b[n - 1], rows[n], token, "FIFO")
      /\ k \in [0..N -> GainsType] /\ k[0] = NoGains
      /\ \A n \in 1..N : k[n] = GainsRow(k[n - 1], rows[n])
  BY <1>2, <1>3 DEF BasisCourse, GainsCourse
<1> DEFINE T == {n \in 0..N : OneLotEach(b[n]) => SameGains(b[n], k[n], token)}
<1>6. 0 \in T
  <2>1. SameGains(NoBasis, NoGains, token)
    BY NoBasisIs DEF SameGains, NoBasis, NoGains
  <2> QED
    BY <1>4, <1>5, <2>1
<1>7. \A n \in 1..N : n - 1 \in T => n \in T
  <2> SUFFICES ASSUME NEW n \in 1..N, n - 1 \in T, OneLotEach(b[n])
               PROVE  SameGains(b[n], k[n], token)
    BY <1>4
  <2> DEFINE acc == b[n - 1]
             gains == k[n - 1]
             row == rows[n]
  <2>1. n - 1 \in 0..N
    BY <1>4
  <2>2. acc \in Balanced /\ gains \in GainsType /\ row \in RowType /\ row.tokenIn # row.tokenOut
    BY <1>4, <1>5, <2>1
  <2>3. b[n] = BasisStep(acc, row, token, "FIFO") /\ k[n] = GainsRow(gains, row)
    BY <1>5
  <2>4. OneLotEach(acc) => SameGains(acc, gains, token)
    OBVIOUS
  <2> HIDE DEF acc, gains, row, T
  <2>5. CASE row.tokenOut = token
    <3>1. b[n] = BasisBuys(acc, row)
      BY <2>3, <2>5 DEF BasisStep
    <3> QED
      BY <2>2, <2>3, <2>4, <2>5, <3>1, SameAfterPurchase
  <2>6. CASE row.tokenOut # token
    <3>1. b[n] = BasisSells(acc, row, "FIFO")
      BY <2>3, <2>6 DEF BasisStep
    <3>2. row.tokenIn = token
      BY <2>2, <2>6 DEF RowType, Tokens
    <3> QED
      BY <2>2, <2>3, <2>4, <3>1, <3>2, SameAfterSale
  <2> QED
    BY <2>5, <2>6
<1> HIDE DEF T, N
<1>8. N \in T
  BY <1>4, <1>6, <1>7, CountUp
<1>9. OneLotEach(b[N])
  <2>1. b[N] \in BasisType
    BY <1>4, <1>5 DEF Balanced
  <2>2. b[N].disposals \in Seq(DisposalRow)
    BY <2>1 DEF BasisType
  <2>3. b[N].uncovered = 0 /\ \A d \in Range(b[N].disposals) : d.lots = 1
    BY <1>2 DEF rows
  <2> QED
    BY <2>2, <2>3 DEF OneLotEach, Range
<1> QED
  BY <1>2, <1>3, <1>8, <1>9 DEF T, SameGains, rows

-----------------------------------------------------------------------------
(* The reports and the tax books, always. *)

LEMMA BooksAlways == RecordSpec => []BooksInv
<1>1. RecordInit => BooksInv
  BY BooksInitInv DEF RecordInit
<1>2. BooksInv /\ [RecordNext]_recordVars => BooksInv'
  <2> SUFFICES ASSUME BooksInv, [RecordNext]_recordVars PROVE BooksInv'
    OBVIOUS
  <2>1. [BooksNext]_booksVars
    BY DEF RecordNext, recordVars
  <2> QED
    BY <2>1, BooksNextInv
<1> QED
  BY <1>1, <1>2, PTL DEF RecordSpec

(* Whatever swaps are emitted and whatever ledgers close between a question   *)
(* and the end of its scan, the fee revenue told so far is that of the        *)
(* ledgers told about; the treasury's halves make up its revenue, which is no *)
(* less than FeeModule's; and where every event is complete, treasury,        *)
(* FeeModule, system metrics and leaderboard tell of the same volume, revenue *)
(* and users, as do the pool totals and top traders within the page limit.    *)
THEOREM ReportsAgreeOnSwaps == RecordSpec => []ReportsAddUp
<1>1. BooksInv => ReportsAddUp
  BY ReportsAgreeAlways DEF BooksInv, RevenueOK, ReportsAddUp, PollAddsUp
<1> QED
  BY <1>1, BooksAlways, PTL

(* Over any history of swaps, what the disposals of a token were charged and  *)
(* what its open lots still carry is what was paid for it, unit by unit, in   *)
(* either order of the lots; and while one covering lot is open at each sale, *)
(* the gains that getCapitalGains nets are those of getCostBasis.             *)
THEOREM TaxLotsBalance == RecordSpec => []TaxBooksBalance
<1>1. BooksInv => TaxBooksBalance
  BY CostIsConserved, GainsAgreeAlways DEF BooksInv, TaxBooksBalance
<1> QED
  BY <1>1, BooksAlways, PTL

-----------------------------------------------------------------------------
(* Quotients, and sums over the members of a set. *)

LEMMA QuotientIs ==
    ASSUME NEW a \in Nat, NEW d \in Nat \ {0}
    PROVE  a \div d \in Nat /\ (a \div d) * d <= a /\ a < (a \div d + 1) * d
  OBVIOUS

LEMMA TimesGrows ==
    ASSUME NEW a \in Nat, NEW b \in Nat, NEW c \in Nat, NEW d \in Nat, a <= b, c <= d
    PROVE  a * c <= b * d
<1>1. a * c <= b * c /\ b * c <= b * d
  OBVIOUS
<1> QED
  BY <1>1

LEMMA TimesCancels ==
    ASSUME NEW a \in Int, NEW b \in Int, NEW d \in Nat \ {0}, a * d <= b * d
    PROVE  a <= b
<1> SUFFICES ASSUME b < a PROVE FALSE
  OBVIOUS
<1>1. a - b >= 1 /\ a - b \in Nat
  OBVIOUS
<1>2. (a - b) * d >= 1
  BY <1>1
<1> QED
  BY <1>2

(* What fits divisor times fits the quotient.                                 *)
LEMMA QuotientLargest ==
    ASSUME NEW a \in Nat, NEW d \in Nat \ {0}, NEW q \in Nat, q * d <= a
    PROVE  q <= a \div d
<1> DEFINE w == a \div d
<1>1. w \in Nat /\ a < (w + 1) * d
  BY QuotientIs
<1> HIDE DEF w
<1>2. q * d < (w + 1) * d
  BY <1>1
<1>3. q < w + 1
  <2> SUFFICES ASSUME w + 1 <= q PROVE FALSE
    BY <1>1
  <2>1. (w + 1) * d <= q * d
    BY <1>1, TimesGrows
  <2> QED
    BY <1>1, <1>2, <2>1
<1> QED
  BY <1>1, <1>3 DEF w

LEMMA SetListed ==
    ASSUME NEW S, IsFiniteSet(S)
    PROVE  Cardinality(S) \in Nat /\ SetToSeq(S) \in [1..Cardinality(S) -> S]
<1> DEFINE N == Cardinality(S)
<1>1. N \in Nat /\ ExistsBijection(1..N, S)
  BY FS_CardinalityType
<1>2. PICK b \in Bijection(1..N, S) : TRUE
  BY <1>1 DEF ExistsBijection
<1> HIDE DEF N
<1>3. b \in [1..N -> S] /\ \A x, y \in 1..N : b[x] = b[y] => x = y
  BY <1>2 DEF Bijection, Injection, IsInjective
<1>4. IsInjective(b)
  BY <1>3 DEF IsInjective
<1>5. \E c : c \in [1..N -> S] /\ IsInjective(c)
  BY <1>3, <1>4
<1>6. SetToSeq(S) \in [1..N -> S]
  BY <1>5 DEF SetToSeq, N
<1> QED
  BY <1>1, <1>6 DEF N

(* The amounts of the members of a set, in the order of SumOf.                *)
Listing(f, S) == [k \in DOMAIN SetToSeq(S) |-> f[SetToSeq(S)[k]]]

LEMMA ListingIs ==
    ASSUME NEW S, IsFiniteSet(S), NEW f \in [S -> Int]
    PROVE  /\ Listing(f, S) \in Seq(Int) /\ Len(Listing(f, S)) = Cardinality(S)
           /\ \A k \in 1..Cardinality(S) : Listing(f, S)[k] = f[SetToSeq(S)[k]]
           /\ SumOf(f, S) = SumSeq(Listing(f, S)) /\ SumOf(f, S) \in Int
<1> DEFINE e == SetToSeq(S)
           n == Cardinality(S)
           s == Listing(f, S)
<1>1. n \in Nat /\ e \in [1..n -> S]
  BY SetListed
<1> HIDE DEF e, n
<1>2. s = [k \in 1..n |-> f[e[k]]]
  BY <1>1 DEF Listing, e
<1>3. s \in Seq(Int) /\ Len(s) = n /\ \A k \in 1..n : s[k] = f[e[k]]
  BY <1>1, <1>2
<1>4. SumOf(f, S) = SumSeq(s)
  BY DEF SumOf, Listing
<1> HIDE DEF s
<1>5. SumSeq(s) \in Int
  BY <1>3, SumIsInt
<1> QED
  BY <1>3, <1>4, <1>5 DEF e, n, s

(* Members who each have no more of c than their part of q have no more than  *)
(* c together, if their parts are no more than q.                             *)
LEMMA SharesFit ==
    ASSUME NEW S, IsFiniteSet(S), NEW f \in [S -> Nat], NEW h \in [S -> Nat],
           NEW q \in Nat \ {0}, NEW c \in Nat,
           \A u \in S : f[u] * q <= h[u] * c, SumOf(h, S) <= q
    PROVE  SumOf(f, S) <= c
<1> DEFINE e == SetToSeq(S)
           n == Cardinality(S)
           a == Listing(f, S)
           b == Listing(h, S)
<1>1. n \in Nat /\ e \in [1..n -> S]
  BY SetListed
<1>2. /\ a \in Seq(Int) /\ Len(a) = n /\ SumOf(f, S) = SumSeq(a)
      /\ b \in Seq(Int) /\ Len(b) = n /\ SumOf(h, S) = SumSeq(b)
      /\ \A k \in 1..n : a[k] = f[e[k]] /\ b[k] = h[e[k]]
  <2>1. f \in [S -> Int] /\ h \in [S -> Int]
    OBVIOUS
  <2> QED
    BY <2>1, ListingIs
<1> HIDE DEF e, n, a, b
<1>3. \A k \in 1..n : a[k] \in Nat /\ b[k] \in Nat /\ a[k] * q <= b[k] * c
  <2> SUFFICES ASSUME NEW k \in 1..n PROVE a[k] \in Nat /\ b[k] \in Nat /\ a[k] * q <= b[k] * c
    OBVIOUS
  <2>1. e[k] \in S /\ a[k] = f[e[k]] /\ b[k] = h[e[k]]
    BY <1>1, <1>2
  <2> QED
    BY <2>1
<1>4. PICK x : SumsOf(a, x) /\ SumSeq(a) = x[n]
  BY <1>2, SumSeqIs
<1>5. PICK y : SumsOf(b, y) /\ SumSeq(b) = y[n]
  BY <1>2, SumSeqIs
<1>6. /\ x \in [0..n -> Int] /\ x[0] = 0 /\ \A k \in 1..n : x[k] = x[k - 1] + a[k]
      /\ y \in [0..n -> Int] /\ y[0] = 0 /\ \A k \in 1..n : y[k] = y[k - 1] + b[k]
  BY <1>2, <1>4, <1>5 DEF SumsOf
<1> DEFINE T == {k \in 0..n : x[k] * q <= y[k] * c}
<1>7. 0 \in T
  BY <1>1, <1>6
<1>8. \A k \in 1..n : k - 1 \in T => k \in T
  <2> SUFFICES ASSUME NEW k \in 1..n, k - 1 \in T PROVE k \in T
    OBVIOUS
  <2>1. k \in 0..n /\ k - 1 \in 0..n /\ x[k - 1] * q <= y[k - 1] * c
    BY <1>1
  <2>2. /\ x[k - 1] \in Int /\ y[k - 1] \in Int /\ a[k] \in Int /\ b[k] \in Int
        /\ x[k] = x[k - 1] + a[k] /\ y[k] = y[k - 1] + b[k] /\ a[k] * q <= b[k] * c
    <3>1. a[k] \in Int /\ b[k] \in Int /\ a[k] * q <= b[k] * c
      BY <1>3
    <3>2. x[k - 1] \in Int /\ y[k - 1] \in Int
      BY <1>6, <2>1
    <3>3. x[k] = x[k - 1] + a[k] /\ y[k] = y[k - 1] + b[k]
      BY <1>6
    <3> QED
      BY <3>1, <3>2, <3>3
  <2>3. (x[k - 1] + a[k]) * q = x[k - 1] * q + a[k] * q
    BY <2>2
  <2>4. (y[k - 1] + b[k]) * c = y[k - 1] * c + b[k] * c
    BY <2>2
  <2>5. /\ x[k - 1] * q \in Int /\ a[k] * q \in Int /\ y[k - 1] * c \in Int /\ b[k] * c \in Int
    BY <2>2
  <2>6. x[k] * q <= y[k] * c
    BY <2>1, <2>2, <2>3, <2>4, <2>5
  <2> QED
    BY <2>1, <2>6
<1> HIDE DEF T
<1>9. n \in T
  BY <1>1, <1>7, <1>8, CountUp
<1>10. SumSeq(a) * q <= SumSeq(b) * c /\ SumSeq(a) \in Int /\ SumSeq(b) \in Nat
  <2>1. SumSeq(a) \in Int /\ SumSeq(b) \in Nat
    BY <1>2, <1>3, SumIsInt, SumIsNat
  <2> QED
    BY <1>4, <1>5, <1>9, <2>1 DEF T
<1>11. SumSeq(b) * c <= q * c
  BY <1>2, <1>10, TimesGrows
<1>12. SumSeq(a) * q <= c * q
  <2>1. SumSeq(a) * q \in Int /\ SumSeq(b) * c \in Int /\ q * c \in Int /\ q * c = c * q
    BY <1>10
  <2> QED
    BY <1>10, <1>11, <2>1
<1>13. SumSeq(a) <= c
  BY <1>10, <1>12, TimesCancels
<1> QED
  BY <1>2, <1>13

(* The last amount of a list.                                                 *)
LEMMA SumLast ==
    ASSUME NEW k \in Nat \ {0}, NEW v, NEW s,
           v \in [1..k -> Int], s = [j \in 1..(k - 1) |-> v[j]]
    PROVE  SumSeq(v) = SumSeq(s) + v[k] /\ SumSeq(v) \in Int /\ SumSeq(s) \in Int
<1>1. k - 1 \in Nat /\ s \in Seq(Int) /\ v \in Seq(Int) /\ v[k] \in Int /\ Len(s) = k - 1
  OBVIOUS
<1>2. v = Append(s, v[k])
  <2>1. Len(v) = k /\ Len(Append(s, v[k])) = k /\ Append(s, v[k]) \in Seq(Int)
    BY <1>1
  <2>2. \A j \in 1..k : v[j] = Append(s, v[k])[j]
    <3> SUFFICES ASSUME NEW j \in 1..k PROVE v[j] = Append(s, v[k])[j]
      OBVIOUS
    <3>1. CASE j = k
      BY <1>1, <3>1
    <3>2. CASE j # k
      <4>1. j \in 1..(k - 1)
        BY <3>2
      <4> QED
        BY <1>1, <4>1
    <3> QED
      BY <3>1, <3>2
  <2> QED
    BY <1>1, <2>1, <2>2
<1>3. SumSeq(Append(s, v[k])) = SumSeq(s) + v[k]
  BY <1>1, SumAppends
<1> QED
  BY <1>1, <1>2, <1>3, SumIsInt

(* The sums of some lists add up by the place in the lists.                   *)
LEMMA ListsFit ==
    ASSUME NEW S, IsFiniteSet(S), NEW P \in Nat, NEW m \in [S -> [1..P -> Nat]],
           NEW c \in [1..P -> Nat],
           \A i \in 1..P : SumOf([u \in S |-> m[u][i]], S) <= c[i]
    PROVE  SumOf([u \in S |-> SumSeq(m[u])], S) <= SumSeq(c)
<1> DEFINE e == SetToSeq(S)
           n == Cardinality(S)
           row == [u \in S |-> SumSeq(m[u])]
           column == [i \in 1..P |-> [u \in S |-> m[u][i]]]
<1>1. n \in Nat /\ e \in [1..n -> S]
  BY SetListed
<1>2. row \in [S -> Int] /\ column \in [1..P -> [S -> Int]]
  <2>1. \A u \in S : m[u] \in Seq(Int)
    OBVIOUS
  <2>2. \A u \in S : SumSeq(m[u]) \in Int
    BY <2>1, SumIsInt
  <2> QED
    BY <2>2
<1>3. \A u \in S : row[u] = SumSeq(m[u]) /\ \A i \in 1..P : column[i][u] = m[u][i]
  OBVIOUS
<1>4. \A i \in 1..P : SumOf(column[i], S) <= c[i]
  OBVIOUS
<1> HIDE DEF e, n, row, column
<1> DEFINE RowsTo(k) == [j \in 1..k |-> row[e[j]]]
           Column(k, i) == [j \in 1..k |-> column[i][e[j]]]
           Places(k) == [i \in 1..P |-> SumSeq(Column(k, i))]
           T == {k \in 0..n : SumSeq(RowsTo(k)) = SumSeq(Places(k))}
<1>5. \A k \in 0..n : /\ RowsTo(k) \in [1..k -> Int] /\ RowsTo(k) \in Seq(Int)
                      /\ \A i \in 1..P : Column(k, i) \in [1..k -> Int] /\ Column(k, i) \in Seq(Int)
  <2> SUFFICES ASSUME NEW k \in 0..n
               PROVE  /\ RowsTo(k) \in [1..k -> Int] /\ RowsTo(k) \in Seq(Int)
                      /\ \A i \in 1..P : /\ Column(k, i) \in [1..k -> Int]
                                         /\ Column(k, i) \in Seq(Int)
    OBVIOUS
  <2>1. k \in Nat /\ \A j \in 1..k : e[j] \in S
    BY <1>1
  <2> QED
    BY <1>2, <2>1
<1>6. \A k \in 0..n : /\ Places(k) \in Seq(Int) /\ Len(Places(k)) = P
                      /\ \A i \in 1..P : Places(k)[i] = SumSeq(Column(k, i))
  <2> SUFFICES ASSUME NEW k \in 0..n
               PROVE  /\ Places(k) \in Seq(Int) /\ Len(Places(k)) = P
                      /\ \A i \in 1..P : Places(k)[i] = SumSeq(Column(k, i))
    OBVIOUS
  <2> HIDE DEF Column
  <2>1. \A i \in 1..P : SumSeq(Column(k, i)) \in Int
    BY <1>5, SumIsInt
  <2> QED
    BY <2>1
<1>7. 0 \in T
  <2>1. 0 \in 0..n
    BY <1>1
  <2>2. Len(RowsTo(0)) = 0 /\ \A i \in 1..P : Len(Column(0, i)) = 0
    OBVIOUS
  <2> HIDE DEF RowsTo, Column, Places
  <2>3. SumSeq(RowsTo(0)) = 0
    BY <1>5, <2>1, <2>2, SumOfNothing
  <2>4. \A i \in 1..P : SumSeq(Column(0, i)) = 0
    BY <1>5, <2>1, <2>2, SumOfNothing
  <2>5. SumSeq(Places(0)) = 0
    BY <1>6, <2>1, <2>4, SumOfNothing
  <2> QED
    BY <2>1, <2>3, <2>5
<1>8. \A k \in 1..n : k - 1 \in T => k \in T
  <2> SUFFICES ASSUME NEW k \in 1..n, k - 1 \in T PROVE k \in T
    OBVIOUS
  <2>1. k \in 0..n /\ k - 1 \in 0..n /\ k \in Nat \ {0} /\ e[k] \in S
    BY <1>1
  <2>2. SumSeq(RowsTo(k - 1)) = SumSeq(Places(k - 1))
    OBVIOUS
  <2>3. SumSeq(RowsTo(k)) = SumSeq(RowsTo(k - 1)) + SumSeq(m[e[k]])
    <3>1. RowsTo(k - 1) = [j \in 1..(k - 1) |-> RowsTo(k)[j]] /\ RowsTo(k)[k] = row[e[k]]
      OBVIOUS
    <3> HIDE DEF RowsTo
    <3>2. SumSeq(RowsTo(k)) = SumSeq(RowsTo(k - 1)) + RowsTo(k)[k]
      BY <1>5, <2>1, <3>1, SumLast
    <3> QED
      BY <1>3, <2>1, <3>1, <3>2
  <2>4. \A i \in 1..P : SumSeq(Column(k, i)) = SumSeq(Column(k - 1, i)) + m[e[k]][i]
    <3> SUFFICES ASSUME NEW i \in 1..P
                 PROVE  SumSeq(Column(k, i)) = SumSeq(Column(k - 1, i)) + m[e[k]][i]
      OBVIOUS
    <3>1. /\ Column(k - 1, i) = [j \in 1..(k - 1) |-> Column(k, i)[j]]
          /\ Column(k, i)[k] = column[i][e[k]]
      OBVIOUS
    <3> HIDE DEF Column
    <3>2. SumSeq(Column(k, i)) = SumSeq(Column(k - 1, i)) + Column(k, i)[k]
      BY <1>5, <2>1, <3>1, SumLast
    <3> QED
      BY <1>3, <2>1, <3>1, <3>2
  <2>5. m[e[k]] \in Seq(Int) /\ Len(m[e[k]]) = P
    <3>1. m[e[k]] \in [1..P -> Nat]
      BY <2>1
    <3> HIDE DEF T
    <3> QED
      BY <3>1
  <2> HIDE DEF RowsTo, Column, Places
  <2>6. \A i \in 1..P : Places(k)[i] = Places(k - 1)[i] + m[e[k]][i]
    BY <1>6, <2>1, <2>4
  <2>7. SumSeq(Places(k)) = SumSeq(Places(k - 1)) + SumSeq(m[e[k]])
    <3>1. /\ Places(k) \in Seq(Int) /\ Places(k - 1) \in Seq(Int)
          /\ Len(Places(k)) = P /\ Len(Places(k - 1)) = P
      BY <1>6, <2>1
    <3> DEFINE x == Places(k - 1)
               y == m[e[k]]
               z == Places(k)
    <3>2. /\ x \in Seq(Int) /\ y \in Seq(Int) /\ z \in Seq(Int)
          /\ Len(x) = Len(z) /\ Len(y) = Len(z)
          /\ \A i \in 1..Len(z) : z[i] = x[i] + y[i]
      BY <2>5, <2>6, <3>1
    <3> HIDE DEF x, y, z
    <3>3. SumSeq(z) = SumSeq(x) + SumSeq(y)
      BY <3>2, SumAdds
    <3> QED
      BY <3>3 DEF x, y, z
  <2> QED
    BY <2>1, <2>2, <2>3, <2>7
<1> HIDE DEF T
<1>9. n \in T
  BY <1>1, <1>7, <1>8, CountUp
<1>10. SumOf(row, S) = SumSeq(RowsTo(n))
  <2>1. Listing(row, S) = RowsTo(n)
    BY <1>1 DEF Listing, e
  <2> QED
    BY <1>2, <2>1, ListingIs
<1>11. \A i \in 1..P : SumOf(column[i], S) = SumSeq(Column(n, i))
  <2> SUFFICES ASSUME NEW i \in 1..P PROVE SumOf(column[i], S) = SumSeq(Column(n, i))
    OBVIOUS
  <2>1. Listing(column[i], S) = Column(n, i) /\ column[i] \in [S -> Int]
    BY <1>1, <1>2 DEF Listing, e
  <2> HIDE DEF Column
  <2> QED
    BY <2>1, ListingIs
<1>12. c \in Seq(Int) /\ Len(c) = P
  OBVIOUS
<1>13. n \in 0..n
  BY <1>1
<1> HIDE DEF RowsTo, Column, Places
<1>14. \A i \in 1..P : Places(n)[i] <= c[i]
  BY <1>4, <1>6, <1>11, <1>13
<1>15. SumSeq(Places(n)) <= SumSeq(c)
  BY <1>6, <1>12, <1>13, <1>14, SumGrows
<1> QED
  BY <1>9, <1>10, <1>15 DEF T, row

-----------------------------------------------------------------------------
(* The pools and the prices read from them. *)

PoolsOK == pools \in [DOMAIN Pairs -> PoolStates]

LEMMA PoolIs ==
    ASSUME PoolsOK, NEW i \in DOMAIN Pairs
    PROVE  /\ pools[i].reserve0 \in Nat /\ pools[i].reserve1 \in Nat
           /\ pools[i].held \in [Owners -> Nat] /\ pools[i].supply \in Nat
           /\ SumOf(pools[i].held, Owners) <= pools[i].supply
           /\ pools[i].supply > 0 => pools[i].reserve0 > 0 /\ pools[i].reserve1 > 0
<1>1. pools[i] \in PoolStates
  BY DEF PoolsOK
<1> DEFINE p == pools[i]
<1>2. p \in PoolState
  BY <1>1, ValuationAssumption
<1> HIDE DEF p
<1>3. /\ p.reserve0 \in Nat /\ p.reserve1 \in Nat
      /\ p.held \in [Owners -> Nat] /\ p.supply \in Nat
  BY <1>2 DEF PoolState
<1>4. \A s \in PoolStates : /\ SumOf(s.held, Owners) <= s.supply
                            /\ s.supply > 0 => s.reserve0 > 0 /\ s.reserve1 > 0
  BY ValuationAssumption
<1>5. SumOf(p.held, Owners) <= p.supply /\ (p.supply > 0 => p.reserve0 > 0 /\ p.reserve1 > 0)
  BY <1>1, <1>4, Zenon DEF p
<1> QED
  BY <1>3, <1>5 DEF p

PricedTokens == Stables \cup UNION {TokensOf(i) : i \in DOMAIN Pairs}
PriceMaps == UNION {[T -> Nat] : T \in SUBSET PricedTokens}

LEMMA PriceMapIs ==
    ASSUME NEW prices
    PROVE  prices \in PriceMaps <=> /\ prices = [t \in DOMAIN prices |-> prices[t]]
                                    /\ DOMAIN prices \subseteq PricedTokens
                                    /\ \A t \in DOMAIN prices : prices[t] \in Nat
<1>1. ASSUME prices \in PriceMaps
      PROVE  /\ prices = [t \in DOMAIN prices |-> prices[t]]
             /\ DOMAIN prices \subseteq PricedTokens
             /\ \A t \in DOMAIN prices : prices[t] \in Nat
  <2>1. PICK T \in SUBSET PricedTokens : prices \in [T -> Nat]
    BY <1>1 DEF PriceMaps
  <2> QED
    BY <2>1
<1>2. ASSUME prices = [t \in DOMAIN prices |-> prices[t]],
             DOMAIN prices \subseteq PricedTokens,
             \A t \in DOMAIN prices : prices[t] \in Nat
      PROVE  prices \in PriceMaps
  <2>1. prices \in [DOMAIN prices -> Nat]
    BY <1>2
  <2> QED
    BY <1>2, <2>1 DEF PriceMaps
<1> QED
  BY <1>1, <1>2

LEMMA AddsPrice ==
    ASSUME NEW prices \in PriceMaps, NEW token \in PricedTokens, NEW price \in Nat
    PROVE  WithPrice(prices, token, price) \in PriceMaps
<1> DEFINE q == WithPrice(prices, token, price)
           D == DOMAIN prices \cup {token}
<1>1. q = [t \in D |-> IF t = token THEN price ELSE prices[t]]
  BY DEF WithPrice
<1>3. /\ DOMAIN prices \subseteq PricedTokens
      /\ \A t \in DOMAIN prices : prices[t] \in Nat
  BY PriceMapIs
<1>4. DOMAIN q = D /\ \A t \in D : q[t] \in Nat
  BY <1>1, <1>3
<1>5. q = [t \in DOMAIN q |-> q[t]]
  BY <1>1
<1> HIDE DEF q
<1>6. q \in PriceMaps
  BY <1>3, <1>4, <1>5, PriceMapIs
<1> QED
  BY <1>6 DEF q

LEMMA ScalePriceIs ==
    ASSUME NEW num \in Nat, NEW den \in Nat \ {0} PROVE ScalePrice(num, den) \in Nat
<1>1. 2 * num * PRICE_SCALE + den \in Nat /\ 2 * den \in Nat \ {0}
  BY ValuationAssumption
<1> QED
  BY <1>1, QuotientIs DEF ScalePrice

LEMMA PricedIs ==
    ASSUME PoolsOK, NEW prices \in PriceMaps, NEW pair \in DOMAIN Pairs
    PROVE  Priced(prices, pair) \in PriceMaps
<1> DEFINE p == pools[pair]
           t0 == Pairs[pair].token0
           t1 == Pairs[pair].token1
           x == WithPrice(prices, t1, ScalePrice(p.reserve0, p.reserve1))
           y == WithPrice(prices, t0, ScalePrice(p.reserve1, p.reserve0))
<1>1. CASE pair \in down \/ p.reserve0 = 0 \/ p.reserve1 = 0
  BY <1>1 DEF Priced
<1>2. CASE ~(pair \in down \/ p.reserve0 = 0 \/ p.reserve1 = 0)
  <2>1. t0 \in PricedTokens /\ t1 \in PricedTokens
    BY DEF PricedTokens, TokensOf
  <2>2. ScalePrice(p.reserve0, p.reserve1) \in Nat /\ ScalePrice(p.reserve1, p.reserve0) \in Nat
    BY <1>2, PoolIs, ScalePriceIs
  <2>3. x \in PriceMaps /\ y \in PriceMaps
    BY <2>1, <2>2, AddsPrice
  <2>4. Priced(prices, pair) \in {x, y, prices}
    <3> DEFINE A == t0 \in Stables /\ t1 \notin DOMAIN prices
               B == t1 \in Stables /\ t0 \notin DOMAIN prices
    <3>1. Priced(prices, pair) = CASE A -> x [] B -> y [] OTHER -> prices
      BY <1>2 DEF Priced
    <3> HIDE DEF A, B, x, y
    <3> QED
      BY <3>1
  <2> HIDE DEF x, y
  <2> QED
    BY <2>3, <2>4
<1> QED
  BY <1>1, <1>2

(* The map is typed whatever the pairs are.                                   *)
LEMMA PricesAre ==
    ASSUME PoolsOK, NEW pairs \in Seq(DOMAIN Pairs)
    PROVE  BuildPriceMap(pairs) \in PriceMaps
<1> DEFINE N == Len(pairs)
           a == [t \in Stables |-> PRICE_SCALE]
           Step(x, n) == Priced(x, pairs[n])
           F(f) == [n \in 0..N |-> IF n = 0 THEN [t \in Stables |-> PRICE_SCALE]
                                   ELSE Priced(f[n - 1], pairs[n])]
           S == PriceMaps
           g == [p \in S \X (1..N) |-> Step(p[1], p[2])]
           d == CHOOSE f : f = F(f)
<1>1. N \in Nat /\ \A n \in 1..N : pairs[n] \in DOMAIN Pairs
  OBVIOUS
<1>2. a \in S
  <2>1. a \in [Stables -> Nat] /\ Stables \in SUBSET PricedTokens
    BY ValuationAssumption DEF PricedTokens
  <2> QED
    BY <2>1 DEF PriceMaps
<1>2a. \A x \in S, n \in 1..N : Step(x, n) \in S
  BY <1>1, PricedIs
<1>2b. \A f : F(f) = [n \in 0..N |-> IF n = 0 THEN a ELSE Step(f[n - 1], n)]
  OBVIOUS
<1> HIDE DEF a, Step, F
<1>3. g \in [S \X (1..N) -> S] /\ \A x \in S, n \in 1..N : g[<<x, n>>] = Step(x, n)
  <2> HIDE DEF S, N
  <2>2. \A p \in S \X (1..N) : p[1] \in S /\ p[2] \in 1..N
    OBVIOUS
  <2>3. g \in [S \X (1..N) -> S]
    BY <1>2a, <2>2
  <2>4. \A x \in S, n \in 1..N : <<x, n>> \in S \X (1..N) /\ <<x, n>>[1] = x /\ <<x, n>>[2] = n
    OBVIOUS
  <2>5. \A x \in S, n \in 1..N : g[<<x, n>>] = Step(x, n)
    BY <2>4
  <2> QED
    BY <2>3, <2>5
<1> HIDE DEF g, N, S
<1>4. \A n \in 1..N : n \in 0..N /\ n - 1 \in 0..N /\ n # 0
  BY <1>1
<1>5. PICK r : Course(N, S, a, g, r)
  BY <1>1, <1>2, <1>3, LoopRuns
<1>6. r = F(r)
  <2>1. r \in [0..N -> S] /\ r[0] = a /\ \A n \in 1..N : r[n] = g[<<r[n - 1], n>>]
    BY <1>5 DEF Course
  <2>2. \A n \in 1..N : r[n] = Step(r[n - 1], n)
    BY <1>3, <1>4, <2>1
  <2>3. \A n \in 0..N : r[n] = IF n = 0 THEN a ELSE Step(r[n - 1], n)
    <3>1. \A n \in 0..N : n = 0 \/ n \in 1..N
      BY <1>1
    <3> QED
      BY <1>4, <2>1, <2>2, <3>1
  <2>4. r = [n \in 0..N |-> r[n]]
    BY <2>1
  <2> QED
    BY <1>2b, <2>3, <2>4
<1>7. d = F(d)
  BY <1>6
<1>8. BuildPriceMap(pairs) = d[N]
  BY DEF BuildPriceMap, N, F
<1> HIDE DEF d
<1>9. d = [n \in 0..N |-> d[n]] /\ d[0] = a /\ \A n \in 1..N : d[n] = Step(d[n - 1], n)
  <2>1. 0 \in 0..N
    BY <1>1
  <2>2. d = [n \in 0..N |-> IF n = 0 THEN a ELSE Step(d[n - 1], n)]
    BY <1>2b, <1>7
  <2> QED
    BY <1>4, <2>1, <2>2
<1>10. Course(N, S, a, g, d)
  <2>1. \A n \in 1..N : d[n - 1] \in S => d[n] = g[<<d[n - 1], n>>]
    BY <1>3, <1>9
  <2> QED
    BY <1>1, <1>2, <1>3, <1>9, <2>1, CourseOf
<1>11. d \in [0..N -> S] /\ N \in 0..N
  BY <1>1, <1>10 DEF Course
<1> QED
  BY <1>8, <1>11 DEF S

LEMMA AllPairsAre ==
    /\ AllPairs \in Seq(DOMAIN Pairs)
    /\ DOMAIN AllPairs = DOMAIN Pairs /\ Len(AllPairs) = Len(Pairs)
    /\ \A i \in DOMAIN Pairs : AllPairs[i] = i
<1>1. Len(Pairs) \in Nat /\ DOMAIN Pairs = 1..Len(Pairs)
  BY ValuationAssumption
<1>2. AllPairs = [i \in 1..Len(Pairs) |-> i]
  BY <1>1 DEF AllPairs
<1> QED
  BY <1>1, <1>2

(* What one side is worth, and a whole pool.                                  *)
LEMMA PoolWorth ==
    ASSUME PoolsOK, NEW prices \in PriceMaps, NEW i \in DOMAIN Pairs
    PROVE  /\ PriceOr0(prices, Pairs[i].token0) \in Nat
           /\ PriceOr0(prices, Pairs[i].token1) \in Nat
           /\ ReservesToUSD(i, prices) \in Nat
           /\ ReservesToUSD(i, prices) =
                 pools[i].reserve0 * PriceOr0(prices, Pairs[i].token0)
                   + pools[i].reserve1 * PriceOr0(prices, Pairs[i].token1)
<1>1. \A t : PriceOr0(prices, t) \in Nat
  <2>1. \A t \in DOMAIN prices : prices[t] \in Nat
    BY PriceMapIs
  <2> QED
    BY <2>1 DEF PriceOr0
<1>2. pools[i].reserve0 \in Nat /\ pools[i].reserve1 \in Nat
  BY PoolIs
<1> QED
  BY <1>1, <1>2 DEF ReservesToUSD

-----------------------------------------------------------------------------
(* Portfolios, holdings and the total value locked. *)

LEMMA PartFits ==
    ASSUME NEW r \in Nat, NEW p, NEW o, p.supply \in Nat, p.held[o] \in Nat
    PROVE  /\ Part(r, p, o) \in Nat /\ Part(r, p, o) * p.supply <= r * p.held[o]
           /\ p.supply = 0 => Part(r, p, o) = 0
<1>1. CASE p.supply = 0
  BY <1>1 DEF Part
<1>2. CASE p.supply # 0
  <2>1. p.supply > 0 /\ p.supply \in Nat \ {0} /\ r * p.held[o] \in Nat
    BY <1>2
  <2>2. Part(r, p, o) = (r * p.held[o]) \div p.supply
    BY <2>1 DEF Part
  <2> QED
    BY <2>1, <2>2, QuotientIs
<1> QED
  BY <1>1, <1>2

(* What a portfolio of all pairs counts of a pair.                            *)
Prices == BuildPriceMap(AllPairs)
Counted(o, i) == Listed(o, i) /\ TokensOf(i) \subseteq DOMAIN Prices
Worth(o, i) ==
    IF Counted(o, i)
    THEN Part(pools[i].reserve0, pools[i], o) * Prices[Pairs[i].token0]
           + Part(pools[i].reserve1, pools[i], o) * Prices[Pairs[i].token1]
    ELSE 0

LEMMA PricesTyped == ASSUME PoolsOK PROVE Prices \in PriceMaps
  BY AllPairsAre, PricesAre DEF Prices

LEMMA WorthIs ==
    ASSUME PoolsOK, NEW o \in Owners, NEW i \in DOMAIN Pairs
    PROVE  /\ Worth(o, i) \in Nat
           /\ Worth(o, i) * pools[i].supply <= pools[i].held[o] * ReservesToUSD(i, Prices)
           /\ pools[i].supply = 0 => Worth(o, i) = 0
<1> DEFINE s == pools[i].supply
           h == pools[i].held[o]
           r0 == pools[i].reserve0
           r1 == pools[i].reserve1
           a == Part(r0, pools[i], o)
           b == Part(r1, pools[i], o)
           x == PriceOr0(Prices, Pairs[i].token0)
           y == PriceOr0(Prices, Pairs[i].token1)
           R == ReservesToUSD(i, Prices)
<1>1. s \in Nat /\ h \in Nat /\ r0 \in Nat /\ r1 \in Nat
  BY PoolIs
<1>2. /\ a \in Nat /\ a * s <= r0 * h /\ (s = 0 => a = 0)
      /\ b \in Nat /\ b * s <= r1 * h /\ (s = 0 => b = 0)
  BY <1>1, PartFits
<1>3. x \in Nat /\ y \in Nat /\ R \in Nat /\ R = r0 * x + r1 * y
  BY PricesTyped, PoolWorth
<1>4. Counted(o, i) => Worth(o, i) = a * x + b * y
  BY DEF Worth, Counted, TokensOf, PriceOr0
<1>5. ~Counted(o, i) => Worth(o, i) = 0
  BY DEF Worth
<1> HIDE DEF s, h, r0, r1, a, b, x, y, R
<1>6. CASE Counted(o, i)
  <2>1. /\ a * x \in Nat /\ b * y \in Nat /\ a * s \in Nat /\ b * s \in Nat
        /\ r0 * h \in Nat /\ r1 * h \in Nat
    BY <1>1, <1>2, <1>3
  <2>2. (a * s) * x <= (r0 * h) * x /\ (b * s) * y <= (r1 * h) * y
    BY <1>2, <1>3, <2>1, TimesGrows
  <2>3. (a * x + b * y) * s = (a * s) * x + (b * s) * y
    BY <1>1, <1>2, <1>3
  <2>4. h * (r0 * x + r1 * y) = (r0 * h) * x + (r1 * h) * y
    BY <1>1, <1>3
  <2>5. /\ (a * s) * x \in Int /\ (r0 * h) * x \in Int
        /\ (b * s) * y \in Int /\ (r1 * h) * y \in Int
    BY <1>3, <2>1
  <2>6. (a * x + b * y) * s <= h * (r0 * x + r1 * y)
    BY <2>2, <2>3, <2>4, <2>5
  <2>7. Worth(o, i) * s <= h * R
    BY <1>3, <1>4, <1>6, <2>6
  <2>8. s = 0 => a * x + b * y = 0
    BY <1>2, <1>3
  <2> QED
    BY <1>4, <1>6, <2>1, <2>7, <2>8 DEF s, h, R
<1>7. CASE ~Counted(o, i)
  <2>1. 0 * s <= h * R
    BY <1>1, <1>3
  <2> QED
    BY <1>5, <1>7, <2>1 DEF s, h, R
<1> QED
  BY <1>6, <1>7

WorthRow(o) == [i \in 1..Len(Pairs) |-> Worth(o, i)]

LEMMA PortfolioIs ==
    ASSUME PoolsOK, NEW o \in Owners
    PROVE  /\ GetPortfolio(o, <<>>).total = SumSeq(WorthRow(o))
           /\ WorthRow(o) \in [1..Len(Pairs) -> Nat]
<1>1. DOMAIN Pairs = 1..Len(Pairs)
  BY ValuationAssumption
<1> DEFINE valued == {k \in DOMAIN AllPairs : /\ Listed(o, AllPairs[k])
                                              /\ TokensOf(AllPairs[k]) \subseteq DOMAIN Prices}
           Amount(i) == Part(pools[i].reserve0, pools[i], o) * Prices[Pairs[i].token0]
                         + Part(pools[i].reserve1, pools[i], o) * Prices[Pairs[i].token1]
           row == [k \in DOMAIN AllPairs |-> IF k \in valued THEN Amount(AllPairs[k]) ELSE 0]
<1>2. GetPortfolio(o, <<>>).total = SumSeq(row)
  BY DEF GetPortfolio, GetPosition, Prices
<1>3. \A i \in DOMAIN Pairs : (i \in valued <=> Counted(o, i))
  BY AllPairsAre DEF Counted
<1>4. \A i \in DOMAIN Pairs : row[i] = Worth(o, i)
  <2> SUFFICES ASSUME NEW i \in DOMAIN Pairs PROVE row[i] = Worth(o, i)
    OBVIOUS
  <2>1. i \in DOMAIN AllPairs /\ AllPairs[i] = i
    BY AllPairsAre
  <2>2. row[i] = IF i \in valued THEN Amount(i) ELSE 0
    BY <2>1
  <2> HIDE DEF row, valued
  <2> QED
    BY <1>3, <2>2 DEF Worth
<1>5. DOMAIN row = DOMAIN Pairs /\ row = [i \in DOMAIN row |-> row[i]]
  BY AllPairsAre
<1> HIDE DEF row
<1>6. row = WorthRow(o)
  BY <1>1, <1>4, <1>5 DEF WorthRow
<1>7. WorthRow(o) \in [1..Len(Pairs) -> Nat]
  BY <1>1, WorthIs DEF WorthRow
<1> QED
  BY <1>2, <1>6, <1>7

(* What the total value locked counts of a pool.                              *)
TvlRow == [i \in 1..Len(Pairs) |->
              IF i \notin down /\ pools[i].reserve0 > 0 /\ pools[i].reserve1 > 0
              THEN ReservesToUSD(i, Prices) ELSE 0]

LEMMA TvlIs ==
    ASSUME PoolsOK
    PROVE  TvlUSD = SumSeq(TvlRow) /\ TvlRow \in [1..Len(Pairs) -> Nat]
<1>1. DOMAIN Pairs = 1..Len(Pairs)
  BY ValuationAssumption
<1> DEFINE live == {i \in DOMAIN Pairs : /\ i \notin down
                                           /\ pools[i].reserve0 > 0 /\ pools[i].reserve1 > 0}
           row == [i \in DOMAIN Pairs |-> IF i \in live THEN ReservesToUSD(i, Prices) ELSE 0]
<1>2. TvlUSD = SumSeq(row)
  BY DEF TvlUSD, Prices
<1>3. row = TvlRow
  BY <1>1 DEF TvlRow
<1>4. \A i \in DOMAIN Pairs : ReservesToUSD(i, Prices) \in Nat
  BY PricesTyped, PoolWorth
<1>5. TvlRow \in [1..Len(Pairs) -> Nat]
  BY <1>1, <1>4 DEF TvlRow
<1> HIDE DEF row
<1> QED
  BY <1>2, <1>3, <1>5

LEMMA NothingIs ==
    ASSUME NEW S, IsFiniteSet(S), NEW f \in [S -> Nat], \A u \in S : f[u] = 0
    PROVE  SumOf(f, S) = 0
<1>1. f \in [S -> Int]
  OBVIOUS
<1>2. \A k \in 1..Cardinality(S) : SetToSeq(S)[k] \in S
  BY SetListed
<1>3. /\ Listing(f, S) \in Seq(Int) /\ SumOf(f, S) = SumSeq(Listing(f, S))
      /\ \A k \in 1..Len(Listing(f, S)) : Listing(f, S)[k] = 0
  BY <1>1, <1>2, ListingIs
<1> QED
  BY <1>3, SumOfNothing

(* The holders of a pool are told of no more than the pool is worth.          *)
LEMMA OwnersOfPool ==
    ASSUME PoolsOK, NEW i \in DOMAIN Pairs
    PROVE  SumOf([o \in Owners |-> Worth(o, i)], Owners) <= TvlRow[i]
<1> DEFINE f == [o \in Owners |-> Worth(o, i)]
           q == pools[i].supply
           R == ReservesToUSD(i, Prices)
<1>0. IsFiniteSet(Owners) /\ i \in 1..Len(Pairs)
  BY ValuationAssumption
<1>1. f \in [Owners -> Nat] /\ \A o \in Owners : f[o] = Worth(o, i)
  BY WorthIs
<1>2. TvlRow[i] \in Nat
  BY <1>0, TvlIs
<1> HIDE DEF f
<1>3. CASE q = 0 \/ i \in down
  <2>1. \A o \in Owners : f[o] = 0
    BY <1>1, <1>3, WorthIs DEF Worth, Counted, Listed
  <2>2. SumOf(f, Owners) = 0
    BY <1>0, <1>1, <2>1, NothingIs
  <2> QED
    BY <1>2, <2>2 DEF f
<1>4. CASE ~(q = 0 \/ i \in down)
  <2>1. q \in Nat \ {0} /\ pools[i].reserve0 > 0 /\ pools[i].reserve1 > 0
    BY <1>4, PoolIs
  <2>2. TvlRow[i] = R
    BY <1>0, <1>4, <2>1 DEF TvlRow
  <2>3. /\ pools[i].held \in [Owners -> Nat] /\ SumOf(pools[i].held, Owners) <= q
        /\ R \in Nat
    BY PoolIs, PricesTyped, PoolWorth
  <2>4. \A o \in Owners : f[o] * q <= pools[i].held[o] * R
    BY <1>1, WorthIs
  <2> HIDE DEF q, R
  <2>5. SumOf(f, Owners) <= R
    BY <1>0, <1>1, <2>1, <2>3, <2>4, SharesFit
  <2> QED
    BY <2>2, <2>5 DEF f
<1> QED
  BY <1>3, <1>4

LEMMA PortfoliosWithinTvl ==
    ASSUME PoolsOK
    PROVE  SumOf([o \in Owners |-> GetPortfolio(o, <<>>).total], Owners) <= TvlUSD
<1> DEFINE P == Len(Pairs)
           m == [o \in Owners |-> WorthRow(o)]
<1>0. IsFiniteSet(Owners) /\ P \in Nat /\ DOMAIN Pairs = 1..P
  BY ValuationAssumption
<1>1. m \in [Owners -> [1..P -> Nat]]
  BY PortfolioIs
<1>2. TvlRow \in [1..P -> Nat]
  BY TvlIs
<1>3. ASSUME NEW i \in 1..P PROVE SumOf([o \in Owners |-> m[o][i]], Owners) <= TvlRow[i]
  <2>1. [o \in Owners |-> m[o][i]] = [o \in Owners |-> Worth(o, i)]
    BY DEF WorthRow
  <2> QED
    BY <1>0, <2>1, OwnersOfPool
<1>4. [o \in Owners |-> GetPortfolio(o, <<>>).total] = [o \in Owners |-> SumSeq(m[o])]
  BY PortfolioIs
<1> HIDE DEF m, P
<1>5. SumOf([o \in Owners |-> SumSeq(m[o])], Owners) <= SumSeq(TvlRow)
  BY <1>0, <1>1, <1>2, <1>3, ListsFit
<1> QED
  BY <1>4, <1>5, TvlIs

(* The treasury's view of the same holdings.                                  *)
HoldingRow(o) == [i \in DOMAIN Pairs |-> Holding(i, o)]

LEMMA HoldingIs ==
    ASSUME PoolsOK, NEW o \in Owners, NEW i \in DOMAIN Pairs
    PROVE  Holding(i, o) \in Nat /\ Worth(o, i) <= Holding(i, o)
<1> DEFINE s == pools[i].supply
           h == pools[i].held[o]
           R == ReservesToUSD(i, Prices)
           w == Worth(o, i)
<1>1. s \in Nat /\ h \in Nat /\ R \in Nat
  BY PoolIs, PricesTyped, PoolWorth
<1>2. w \in Nat /\ w * s <= h * R /\ (s = 0 => w = 0)
  BY WorthIs
<1>3. i \in down => w = 0
  BY DEF Worth, Counted, Listed
<1>4. Holding(i, o) = IF i \in down \/ s = 0 THEN 0 ELSE (h * R) \div s
  BY DEF Holding, Prices
<1> HIDE DEF s, h, R, w
<1>5. CASE i \in down \/ s = 0
  BY <1>2, <1>3, <1>4, <1>5 DEF w
<1>6. CASE ~(i \in down \/ s = 0)
  <2>1. h * R \in Nat /\ s \in Nat \ {0}
    BY <1>1, <1>6
  <2>2. (h * R) \div s \in Nat
    BY <2>1, QuotientIs
  <2>3. w <= (h * R) \div s
    BY <1>2, <2>1, QuotientLargest
  <2> QED
    BY <1>4, <1>6, <2>2, <2>3 DEF w
<1> QED
  BY <1>5, <1>6

LEMMA ValueIsBackedAlways == PoolsOK => ValueIsBacked
<1> SUFFICES ASSUME PoolsOK PROVE ValueIsBacked
  OBVIOUS
<1>0. Len(Pairs) \in Nat /\ DOMAIN Pairs = 1..Len(Pairs)
  BY ValuationAssumption
<1>1. ASSUME NEW o \in Owners
      PROVE  /\ GetPortfolio(o, <<>>).total <= SumSeq(HoldingRow(o))
             /\ GetPortfolioValue(o) <= SumSeq(HoldingRow(o))
             /\ down = {} => GetPortfolio(o, <<>>).total <= GetPortfolioValue(o)
  <2> DEFINE w == WorthRow(o)
             h == HoldingRow(o)
             valued == {i \in DOMAIN Pairs : /\ pools[i].supply > 0
                                             /\ TokensOf(i) \subseteq DOMAIN Prices}
             v == [i \in DOMAIN Pairs |-> IF i \in valued THEN Holding(i, o) ELSE 0]
  <2>1. w \in Seq(Int) /\ Len(w) = Len(Pairs) /\ \A i \in 1..Len(Pairs) : w[i] = Worth(o, i)
    <3>1. w \in [1..Len(Pairs) -> Int]
      BY PortfolioIs
    <3>2. \A i \in 1..Len(Pairs) : w[i] = Worth(o, i)
      BY DEF WorthRow
    <3> HIDE DEF w
    <3> QED
      BY <1>0, <3>1, <3>2
  <2>2. /\ h \in Seq(Int) /\ Len(h) = Len(Pairs)
        /\ \A i \in 1..Len(Pairs) : h[i] = Holding(i, o) /\ h[i] >= 0
    <3>1. \A i \in 1..Len(Pairs) : Holding(i, o) \in Nat
      BY <1>0, HoldingIs
    <3>2. h = [i \in 1..Len(Pairs) |-> Holding(i, o)]
      BY <1>0 DEF HoldingRow
    <3> HIDE DEF h
    <3> QED
      BY <1>0, <3>1, <3>2
  <2>3. /\ v \in Seq(Int) /\ Len(v) = Len(Pairs)
        /\ \A i \in 1..Len(Pairs) : v[i] = IF i \in valued THEN h[i] ELSE 0
    <3>1. \A i \in 1..Len(Pairs) : Holding(i, o) \in Nat
      BY <1>0, HoldingIs
    <3>2. v = [i \in 1..Len(Pairs) |-> IF i \in valued THEN Holding(i, o) ELSE 0]
      BY <1>0
    <3> HIDE DEF v, h, valued
    <3> QED
      BY <1>0, <2>2, <3>1, <3>2
  <2>4. GetPortfolioValue(o) = IF down # {} THEN 0 ELSE SumSeq(v)
    BY DEF GetPortfolioValue, Prices
  <2>5. GetPortfolio(o, <<>>).total = SumSeq(w)
    BY PortfolioIs
  <2>6. \A i \in 1..Len(Pairs) : w[i] <= h[i]
    BY <1>0, <2>1, <2>2, HoldingIs
  <2>7. \A i \in 1..Len(Pairs) : v[i] <= h[i]
    <3> HIDE DEF h, v, valued
    <3> QED
      BY <1>0, <2>2, <2>3
  <2>8. \A i \in 1..Len(Pairs) : w[i] <= v[i]
    <3> SUFFICES ASSUME NEW i \in 1..Len(Pairs) PROVE w[i] <= v[i]
      OBVIOUS
    <3>1. CASE i \in valued
      <4> HIDE DEF w, h, v, valued
      <4> QED
        BY <2>3, <2>6, <3>1
    <3>2. CASE i \notin valued
      <4>1. i \in DOMAIN Pairs /\ pools[i].supply \in Nat
        BY <1>0, PoolIs
      <4>2. Worth(o, i) = 0
        BY <3>2, <4>1, WorthIs DEF Worth, Counted
      <4>3. w[i] = 0
        BY <2>1, <4>2
      <4>4. v[i] = 0
        <5> HIDE DEF h, v, valued
        <5> QED
          BY <2>3, <3>2
      <4> HIDE DEF w, v
      <4> QED
        BY <4>3, <4>4
    <3> QED
      BY <3>1, <3>2
  <2> HIDE DEF w, h, v, valued
  <2>9. SumSeq(w) <= SumSeq(h) /\ SumSeq(v) <= SumSeq(h) /\ SumSeq(w) <= SumSeq(v)
    BY <2>1, <2>2, <2>3, <2>6, <2>7, <2>8, SumGrows
  <2>10. SumSeq(h) \in Nat
    BY <2>2, SumIsNat
  <2> QED
    BY <2>4, <2>5, <2>9, <2>10 DEF h
<1> QED
  BY <1>1, PortfoliosWithinTvl DEF ValueIsBacked, HoldingRow

-----------------------------------------------------------------------------
(* Yields, and the two totals of monitoring. *)

Share(i, o) ==
    IF pools[i].supply = 0 THEN 0 ELSE (pools[i].held[o] * SHARE_SCALE) \div pools[i].supply

(* Handing something out by shares hands out no more than there is.           *)
LEMMA SharedOut ==
    ASSUME PoolsOK, NEW i \in DOMAIN Pairs, NEW x \in Nat
    PROVE  SumOf([o \in Owners |-> x * Share(i, o)], Owners) <= x * SHARE_SCALE
<1> DEFINE q == pools[i].supply
           h == pools[i].held
           f == [o \in Owners |-> x * Share(i, o)]
           c == x * SHARE_SCALE
<1>0. IsFiniteSet(Owners) /\ SHARE_SCALE \in Nat
  BY ValuationAssumption
<1>1. q \in Nat /\ h \in [Owners -> Nat] /\ SumOf(h, Owners) <= q
  BY PoolIs
<1>2. \A o \in Owners : Share(i, o) = IF q = 0 THEN 0 ELSE (h[o] * SHARE_SCALE) \div q
  BY DEF Share
<1>3. c \in Nat
  BY <1>0
<1> HIDE DEF q, h, c
<1>4. \A o \in Owners : /\ Share(i, o) \in Nat /\ (q = 0 => Share(i, o) = 0)
                        /\ q # 0 => Share(i, o) * q <= h[o] * SHARE_SCALE
  <2> SUFFICES ASSUME NEW o \in Owners
               PROVE  /\ Share(i, o) \in Nat /\ (q = 0 => Share(i, o) = 0)
                      /\ q # 0 => Share(i, o) * q <= h[o] * SHARE_SCALE
    OBVIOUS
  <2>1. h[o] * SHARE_SCALE \in Nat
    BY <1>0, <1>1
  <2>2. CASE q = 0
    BY <1>2, <2>2
  <2>3. CASE q # 0
    <3>1. q \in Nat \ {0}
      BY <1>1, <2>3
    <3>2. Share(i, o) = (h[o] * SHARE_SCALE) \div q
      BY <1>2, <2>3
    <3> QED
      BY <2>1, <2>3, <3>1, <3>2, QuotientIs
  <2> QED
    BY <2>2, <2>3
<1>5. f \in [Owners -> Nat] /\ \A o \in Owners : f[o] = x * Share(i, o)
  BY <1>4
<1> HIDE DEF f
<1>6. CASE q = 0
  <2>1. \A o \in Owners : f[o] = 0
    BY <1>4, <1>5, <1>6
  <2>2. SumOf(f, Owners) = 0
    BY <1>0, <1>5, <2>1, NothingIs
  <2> QED
    BY <1>3, <2>2 DEF f, c
<1>7. CASE q # 0
  <2>1. q \in Nat \ {0}
    BY <1>1, <1>7
  <2>2. \A o \in Owners : f[o] * q <= h[o] * c
    <3> SUFFICES ASSUME NEW o \in Owners PROVE f[o] * q <= h[o] * c
      OBVIOUS
    <3> DEFINE s == Share(i, o)
               u == h[o]
    <3>1. s \in Nat /\ u \in Nat /\ s * q <= u * SHARE_SCALE /\ f[o] = x * s
      BY <1>1, <1>4, <1>5, <1>7
    <3> HIDE DEF s, u
    <3>2. s * q \in Nat /\ u * SHARE_SCALE \in Nat
      BY <1>0, <1>1, <3>1
    <3>3. (s * q) * x <= (u * SHARE_SCALE) * x
      BY <3>1, <3>2, TimesGrows
    <3>4. (x * s) * q = (s * q) * x
      BY <1>1, <3>1
    <3>5. u * (x * SHARE_SCALE) = (u * SHARE_SCALE) * x
      BY <1>0, <3>1
    <3> QED
      BY <3>1, <3>3, <3>4, <3>5 DEF c, u
  <2>3. SumOf(f, Owners) <= c
    BY <1>0, <1>1, <1>3, <1>5, <2>1, <2>2, SharesFit
  <2> QED
    BY <2>3 DEF f, c
<1> QED
  BY <1>6, <1>7

LEMMA YieldIsBackedAlways == PoolsOK => YieldIsBacked
<1> SUFFICES ASSUME PoolsOK, NEW i \in DOMAIN Pairs, NEW revenue \in Revenues
             PROVE  LET yield == [o \in Owners |-> GetLPYield(i, o, revenue)] IN
                    /\ SumOf([o \in Owners |-> yield[o].lpFeeShare], Owners)
                         <= revenue * SHARE_SCALE
                    /\ SumOf([o \in Owners |-> yield[o].lpValue], Owners)
                         <= (pools[i].reserve0 + pools[i].reserve1) * SHARE_SCALE
  BY DEF YieldIsBacked
<1> DEFINE yield == [o \in Owners |-> GetLPYield(i, o, revenue)]
           r == pools[i].reserve0 + pools[i].reserve1
<1>1. revenue \in Nat /\ r \in Nat
  BY PoolIs, ValuationAssumption
<1>2. \A o \in Owners : /\ yield[o].lpFeeShare = revenue * Share(i, o)
                        /\ yield[o].lpValue = r * Share(i, o)
  BY DEF GetLPYield, Share
<1>3. /\ [o \in Owners |-> yield[o].lpFeeShare] = [o \in Owners |-> revenue * Share(i, o)]
      /\ [o \in Owners |-> yield[o].lpValue] = [o \in Owners |-> r * Share(i, o)]
  <2> HIDE DEF yield, r
  <2> QED
    BY <1>2
<1>4. SumOf([o \in Owners |-> revenue * Share(i, o)], Owners) <= revenue * SHARE_SCALE
  BY <1>1, SharedOut
<1>5. SumOf([o \in Owners |-> r * Share(i, o)], Owners) <= r * SHARE_SCALE
  <2> HIDE DEF r
  <2> QED
    BY <1>1, SharedOut
<1> QED
  BY <1>3, <1>4, <1>5

(* What getProtocolSummary counts of a pool.                                  *)
SummaryRow == [i \in 1..Len(Pairs) |-> IF i \in down THEN 0 ELSE ReservesToUSD(i, Prices)]

LEMMA TotalsAgreeAlways == PoolsOK => TotalsAgree
<1> SUFFICES ASSUME PoolsOK PROVE TotalsAgree
  OBVIOUS
<1>0. Len(Pairs) \in Nat /\ DOMAIN Pairs = 1..Len(Pairs)
  BY ValuationAssumption
<1> DEFINE health == GetAllPoolHealth
           working == {i \in DOMAIN Pairs : health[i].operational}
           row == [i \in DOMAIN Pairs |-> IF i \in working THEN health[i].tvlUSD ELSE 0]
           oneSided == \E i \in DOMAIN Pairs \ down :
                           (pools[i].reserve0 = 0) # (pools[i].reserve1 = 0)
<1>1. \A i \in DOMAIN Pairs :
         /\ i \in down => health[i].operational = FALSE
         /\ i \notin down => /\ health[i].operational = TRUE
                             /\ health[i].tvlUSD = ReservesToUSD(i, Prices)
  BY DEF GetAllPoolHealth, PoolHealthFailure, Prices
<1>2. GetProtocolSummary.totalTVLUSD = SumSeq(row)
  BY DEF GetProtocolSummary
<1>3. row = SummaryRow
  <2> HIDE DEF health
  <2>1. \A i \in DOMAIN Pairs : row[i] = IF i \in down THEN 0 ELSE ReservesToUSD(i, Prices)
    BY <1>1
  <2>2. row = [i \in DOMAIN Pairs |-> row[i]]
    OBVIOUS
  <2> HIDE DEF row
  <2>3. row = [i \in DOMAIN Pairs |-> IF i \in down THEN 0 ELSE ReservesToUSD(i, Prices)]
    BY <2>1, <2>2
  <2> QED
    BY <1>0, <2>3 DEF SummaryRow
<1> HIDE DEF row
<1>4. \A i \in 1..Len(Pairs) :
         /\ ReservesToUSD(i, Prices) \in Nat
         /\ pools[i].reserve0 = 0 /\ pools[i].reserve1 = 0 => ReservesToUSD(i, Prices) = 0
  <2> SUFFICES ASSUME NEW i \in 1..Len(Pairs)
               PROVE  /\ ReservesToUSD(i, Prices) \in Nat
                      /\ pools[i].reserve0 = 0 /\ pools[i].reserve1 = 0
                           => ReservesToUSD(i, Prices) = 0
    OBVIOUS
  <2> DEFINE x == PriceOr0(Prices, Pairs[i].token0)
             y == PriceOr0(Prices, Pairs[i].token1)
  <2>1. /\ x \in Nat /\ y \in Nat /\ ReservesToUSD(i, Prices) \in Nat
        /\ ReservesToUSD(i, Prices) = pools[i].reserve0 * x + pools[i].reserve1 * y
    BY <1>0, PricesTyped, PoolWorth
  <2> HIDE DEF x, y
  <2> QED
    BY <2>1
<1>5. SummaryRow \in Seq(Int) /\ Len(SummaryRow) = Len(Pairs)
  <2>1. SummaryRow \in [1..Len(Pairs) -> Int]
    BY <1>4 DEF SummaryRow
  <2> QED
    BY <1>0, <2>1
<1>6. TvlRow \in Seq(Int) /\ Len(TvlRow) = Len(Pairs)
  <2>1. TvlRow \in [1..Len(Pairs) -> Int]
    BY TvlIs
  <2> QED
    BY <1>0, <2>1
<1>7. \A i \in 1..Len(Pairs) : TvlRow[i] <= SummaryRow[i]
  BY <1>4 DEF TvlRow, SummaryRow
<1>8. SumSeq(TvlRow) <= SumSeq(SummaryRow)
  BY <1>5, <1>6, <1>7, SumGrows
<1>9. ASSUME ~oneSided PROVE TvlRow = SummaryRow
  <2>1. \A i \in 1..Len(Pairs) : /\ pools[i].reserve0 \in Nat /\ pools[i].reserve1 \in Nat
                                 /\ i \notin down => ((pools[i].reserve0 = 0) <=> (pools[i].reserve1 = 0))
    BY <1>0, <1>9, PoolIs
  <2> QED
    BY <1>4, <2>1 DEF TvlRow, SummaryRow
<1>10. /\ TvlUSD <= GetProtocolSummary.totalTVLUSD
       /\ TvlUSD # GetProtocolSummary.totalTVLUSD => oneSided
  <2> HIDE DEF oneSided
  <2> QED
    BY <1>2, <1>3, <1>8, <1>9, TvlIs
<1> QED
  BY <1>10 DEF TotalsAgree

-----------------------------------------------------------------------------
(* Pages of positions. *)

LEMMA PositionsAre ==
    ASSUME NEW o \in Owners
    PROVE  /\ PositionsOf(o, AllPairs) \in Seq({GetPosition(i, o) : i \in DOMAIN Pairs})
           /\ Len(PositionsOf(o, AllPairs)) <= Len(Pairs)
<1> DEFINE kept == {k \in DOMAIN AllPairs : Listed(o, AllPairs[k])}
           found == Sublist(AllPairs, kept)
           c == Cardinality(kept)
           positions == [i \in DOMAIN found |-> GetPosition(found[i], o)]
<1>0. Len(Pairs) \in Nat /\ DOMAIN Pairs = 1..Len(Pairs)
  BY ValuationAssumption
<1>1. AllPairs \in Seq(DOMAIN Pairs) /\ Len(AllPairs) = Len(Pairs) /\ kept \subseteq 1..Len(Pairs)
  BY <1>0, AllPairsAre
<1>2. found \in Seq(DOMAIN Pairs)
  BY <1>1, SublistOf
<1>3. c \in Nat /\ c <= Len(Pairs)
  <2>1. IsFiniteSet(1..Len(Pairs)) /\ Cardinality(1..Len(Pairs)) = Len(Pairs)
    <3>1. /\ IsFiniteSet(1..Len(Pairs))
          /\ Cardinality(1..Len(Pairs)) = IF 1 > Len(Pairs) THEN 0 ELSE Len(Pairs) - 1 + 1
      BY <1>0, FS_Interval
    <3> QED
      BY <1>0, <3>1
  <2> HIDE DEF kept
  <2> QED
    BY <1>1, <2>1, FS_Subset, FS_CardinalityType
<1>4. DOMAIN found = 1..c
  BY DEF Sublist
<1> HIDE DEF found, c
<1>5. Len(positions) = c /\ positions \in Seq({GetPosition(i, o) : i \in DOMAIN Pairs})
  <2>1. \A i \in 1..c : found[i] \in DOMAIN Pairs
    <3> HIDE DEF positions, kept
    <3>1. Len(found) \in Nat /\ DOMAIN found = 1..Len(found)
      BY <1>2
    <3>2. \A i \in 1..Len(found) : found[i] \in DOMAIN Pairs
      BY <1>2
    <3> QED
      BY <1>4, <3>1, <3>2
  <2> DEFINE S == {GetPosition(i, o) : i \in DOMAIN Pairs}
  <2>2. \A i \in 1..c : GetPosition(found[i], o) \in S
    BY <2>1
  <2>3. positions = [i \in 1..c |-> GetPosition(found[i], o)]
    BY <1>4
  <2> HIDE DEF S, positions
  <2>4. positions \in Seq(S) /\ Len(positions) = c
    BY <1>3, <2>2, <2>3
  <2> QED
    BY <2>4 DEF S
<1>6. PositionsOf(o, AllPairs) = positions
  BY DEF PositionsOf, found
<1> QED
  BY <1>3, <1>5, <1>6

LEMMA Joined ==
    ASSUME NEW S, NEW s \in Seq(S), NEW c \in 0..Len(s), NEW e \in c..Len(s)
    PROVE  /\ SubSeq(s, 1, c) \o SubSeq(s, c + 1, e) = SubSeq(s, 1, e)
           /\ SubSeq(s, 1, Len(s)) = s /\ SubSeq(s, 1, 0) = <<>>
  OBVIOUS

LEMMA PieceIs ==
    ASSUME NEW S, NEW s \in Seq(S), NEW c \in Nat, NEW e \in Nat, e <= Len(s)
    PROVE  SubSeq(s, c + 1, e) \in Seq(S)
  OBVIOUS

(* What has been listed after some requests.                                  *)
Requests(S) == [listed : Seq(S), cursor : Nat, done : BOOLEAN]
PagesOK(acc, positions, n) ==
    IF acc.done THEN acc.listed = positions
    ELSE /\ acc.listed = SubSeq(positions, 1, acc.cursor)
         /\ n <= acc.cursor /\ acc.cursor <= Len(positions)

LEMMA NextRequestIs ==
    ASSUME NEW S, NEW positions \in Seq(S), NEW limit \in Nat \ {0}, NEW acc \in Requests(S)
    PROVE  /\ NextRequest(acc, positions, limit) \in Requests(S)
           /\ \A n \in Nat : PagesOK(acc, positions, n)
                                => PagesOK(NextRequest(acc, positions, limit), positions, n + 1)
<1> DEFINE L == Len(positions)
           c == acc.cursor
           e == IF L <= c + limit THEN L ELSE c + limit
           truncated == L > limit /\ c < L /\ c + limit < L
           listed == acc.listed \o SubSeq(positions, c + 1, e)
           next == IF truncated THEN c + limit ELSE 0
           after == NextRequest(acc, positions, limit)
<1>1. L \in Nat /\ c \in Nat /\ acc.listed \in Seq(S) /\ acc.done \in BOOLEAN
  BY DEF Requests
<1>2. e \in Nat /\ e <= L /\ next \in Nat /\ (truncated <=> next # 0)
  BY <1>1
<1>3. ASSUME ~acc.done
      PROVE  after = [listed |-> listed, cursor |-> next, done |-> next = 0]
  <2>1. Min({L, c + limit}) = e
    BY <1>1, MinTwo
  <2>2. PositionPage(positions, c, limit) =
          [positions |-> SubSeq(positions, c + 1, e), nextCursor |-> next]
    <3> HIDE DEF e
    <3> QED
      BY <2>1 DEF PositionPage, PageEnd
  <2> HIDE DEF e, next
  <2> QED
    BY <1>3, <2>2 DEF NextRequest
<1>4. acc.done => after = acc
  BY DEF NextRequest
<1> HIDE DEF e, after
<1>5. listed \in Seq(S)
  <2>1. SubSeq(positions, c + 1, e) \in Seq(S)
    <3> HIDE DEF c
    <3> QED
      BY <1>1, <1>2, PieceIs
  <2> QED
    BY <1>1, <2>1
<1> HIDE DEF listed, next
<1>6. after \in Requests(S)
  <2>1. CASE acc.done
    BY <1>4, <2>1
  <2>2. CASE ~acc.done
    <3>1. after = [listed |-> listed, cursor |-> next, done |-> next = 0]
      BY <1>3, <2>2
    <3>2. (next = 0) \in BOOLEAN /\ next \in Nat
      BY <1>2
    <3> HIDE DEF truncated
    <3> QED
      BY <1>5, <3>1, <3>2 DEF Requests
  <2> QED
    BY <2>1, <2>2
<1>7. ASSUME NEW n \in Nat, PagesOK(acc, positions, n)
      PROVE  PagesOK(after, positions, n + 1)
  <2>1. CASE acc.done
    BY <1>4, <1>7, <2>1 DEF PagesOK
  <2>2. CASE ~acc.done
    <3>1. acc.listed = SubSeq(positions, 1, c) /\ n <= c /\ c <= L
      BY <1>7, <2>2 DEF PagesOK
    <3>2. c \in 0..L /\ e \in c..L
      BY <1>1, <1>2, <3>1 DEF e
    <3>3. listed = SubSeq(positions, 1, e) /\ SubSeq(positions, 1, L) = positions
      <4> HIDE DEF c
      <4>1. SubSeq(positions, 1, c) \o SubSeq(positions, c + 1, e) = SubSeq(positions, 1, e)
        BY <3>2, Joined
      <4>2. SubSeq(positions, 1, L) = positions
        BY <3>2, Joined
      <4> QED
        BY <3>1, <4>1, <4>2 DEF listed
    <3>4. CASE truncated
      <4>1. e = c + limit /\ next = e /\ n + 1 <= e
        BY <1>1, <3>1, <3>4 DEF e, next
      <4>2. after = [listed |-> listed, cursor |-> next, done |-> next = 0]
        BY <1>3, <2>2
      <4>3. (next = 0) = FALSE
        BY <1>2, <3>4
      <4>4. after.done = FALSE /\ after.cursor = e /\ after.listed = SubSeq(positions, 1, e)
        BY <3>3, <4>1, <4>2, <4>3
      <4> HIDE DEF c, L, truncated
      <4> QED
        BY <1>2, <4>1, <4>4 DEF PagesOK, L
    <3>5. CASE ~truncated
      <4>1. e = L /\ next = 0
        BY <1>1, <3>1, <3>5 DEF e, next
      <4>2. after = [listed |-> listed, cursor |-> next, done |-> next = 0]
        BY <1>3, <2>2
      <4>3. after.done = TRUE /\ after.listed = positions
        BY <3>3, <4>1, <4>2
      <4> QED
        BY <4>3 DEF PagesOK
    <3> QED
      BY <3>4, <3>5
  <2> QED
    BY <2>1, <2>2
<1> QED
  BY <1>6, <1>7 DEF after

LEMMA PagesFollow ==
    ASSUME NEW S, NEW positions \in Seq(S), NEW limit \in Nat \ {0},
           Len(positions) <= Len(Pairs)
    PROVE  FollowPages(positions, limit).listed = positions
<1> DEFINE N == Len(Pairs)
           a == FirstRequest
           Step(x, n) == NextRequest(x, positions, limit)
           F(f) == [n \in 0..N |-> IF n = 0 THEN FirstRequest
                                   ELSE NextRequest(f[n - 1], positions, limit)]
           A == Requests(S)
           g == [p \in A \X (1..N) |-> Step(p[1], p[2])]
           d == CHOOSE f : f = F(f)
<1>1. N \in Nat
  BY ValuationAssumption
<1>2. a \in A /\ PagesOK(a, positions, 0)
  <2>1. SubSeq(positions, 1, 0) = <<>> /\ <<>> \in Seq(S) /\ Len(positions) \in Nat
    OBVIOUS
  <2> QED
    BY <2>1 DEF FirstRequest, Requests, PagesOK
<1>2a. \A x \in A, n \in 1..N : Step(x, n) \in A
  BY NextRequestIs
<1>2b. \A f : F(f) = [n \in 0..N |-> IF n = 0 THEN a ELSE Step(f[n - 1], n)]
  OBVIOUS
<1>2c. \A x \in A, n \in 1..N :
          PagesOK(x, positions, n - 1) => PagesOK(Step(x, n), positions, n)
  <2> SUFFICES ASSUME NEW x \in A, NEW n \in 1..N, PagesOK(x, positions, n - 1)
               PROVE  PagesOK(Step(x, n), positions, n)
    OBVIOUS
  <2>1. n - 1 \in Nat /\ (n - 1) + 1 = n
    BY <1>1
  <2>2. PagesOK(Step(x, n), positions, (n - 1) + 1)
    BY <2>1, NextRequestIs
  <2> QED
    BY <2>1, <2>2
<1> HIDE DEF a, Step, F
<1>3. g \in [A \X (1..N) -> A] /\ \A x \in A, n \in 1..N : g[<<x, n>>] = Step(x, n)
  <2> HIDE DEF A, N
  <2>2. \A p \in A \X (1..N) : p[1] \in A /\ p[2] \in 1..N
    OBVIOUS
  <2>3. g \in [A \X (1..N) -> A]
    BY <1>2a, <2>2
  <2>4. \A x \in A, n \in 1..N : <<x, n>> \in A \X (1..N) /\ <<x, n>>[1] = x /\ <<x, n>>[2] = n
    OBVIOUS
  <2>5. \A x \in A, n \in 1..N : g[<<x, n>>] = Step(x, n)
    BY <2>4
  <2> QED
    BY <2>3, <2>5
<1> HIDE DEF g, N, A
<1>4. \A n \in 1..N : n \in 0..N /\ n - 1 \in 0..N /\ n # 0
  BY <1>1
<1>5. PICK r : Course(N, A, a, g, r)
  BY <1>1, <1>2, <1>3, LoopRuns
<1>6. r = F(r)
  <2>1. r \in [0..N -> A] /\ r[0] = a /\ \A n \in 1..N : r[n] = g[<<r[n - 1], n>>]
    BY <1>5 DEF Course
  <2>2. \A n \in 1..N : r[n] = Step(r[n - 1], n)
    BY <1>3, <1>4, <2>1
  <2>3. \A n \in 0..N : r[n] = IF n = 0 THEN a ELSE Step(r[n - 1], n)
    <3>1. \A n \in 0..N : n = 0 \/ n \in 1..N
      BY <1>1
    <3> QED
      BY <1>4, <2>1, <2>2, <3>1
  <2>4. r = [n \in 0..N |-> r[n]]
    BY <2>1
  <2> QED
    BY <1>2b, <2>3, <2>4
<1>7. d = F(d)
  BY <1>6
<1>8. FollowPages(positions, limit) = d[N]
  BY DEF FollowPages, N, F
<1> HIDE DEF d
<1>9. d = [n \in 0..N |-> d[n]] /\ d[0] = a /\ \A n \in 1..N : d[n] = Step(d[n - 1], n)
  <2>1. 0 \in 0..N
    BY <1>1
  <2>2. d = [n \in 0..N |-> IF n = 0 THEN a ELSE Step(d[n - 1], n)]
    BY <1>2b, <1>7
  <2> QED
    BY <1>4, <2>1, <2>2
<1>10. Course(N, A, a, g, d)
  <2>1. \A n \in 1..N : d[n - 1] \in A => d[n] = g[<<d[n - 1], n>>]
    BY <1>3, <1>9
  <2> QED
    BY <1>1, <1>2, <1>3, <1>9, <2>1, CourseOf
<1>11. d \in [0..N -> A] /\ N \in 0..N
  BY <1>1, <1>10 DEF Course
<1> DEFINE T == {n \in 0..N : PagesOK(d[n], positions, n)}
<1>12. 0 \in T
  BY <1>1, <1>2, <1>9
<1>13. \A n \in 1..N : n - 1 \in T => n \in T
  <2> SUFFICES ASSUME NEW n \in 1..N, n - 1 \in T PROVE n \in T
    OBVIOUS
  <2>1. d[n - 1] \in A /\ n \in 0..N /\ d[n] = Step(d[n - 1], n)
    BY <1>4, <1>9, <1>11
  <2>2. PagesOK(d[n - 1], positions, n - 1)
    OBVIOUS
  <2>3. PagesOK(d[n], positions, n)
    BY <1>2c, <2>1, <2>2
  <2> QED
    BY <2>1, <2>3
<1> HIDE DEF T
<1>14. N \in T
  BY <1>1, <1>12, <1>13, CountUp
<1>15. PagesOK(d[N], positions, N)
  BY <1>14 DEF T
<1>16. CASE d[N].done
  BY <1>8, <1>15, <1>16 DEF PagesOK
<1>17. CASE ~d[N].done
  <2>1. d[N].cursor \in Nat /\ Len(positions) \in Nat
    BY <1>11 DEF A, Requests
  <2>2. /\ d[N].listed = SubSeq(positions, 1, d[N].cursor)
        /\ N <= d[N].cursor /\ d[N].cursor <= Len(positions)
    BY <1>15, <1>17 DEF PagesOK
  <2>3. d[N].cursor = Len(positions)
    BY <1>1, <2>1, <2>2 DEF N
  <2>4. SubSeq(positions, 1, Len(positions)) = positions
    OBVIOUS
  <2> QED
    BY <1>8, <2>2, <2>3, <2>4
<1> QED
  BY <1>16, <1>17

LEMMA PagesCoverAlways == PagesCover
<1> SUFFICES ASSUME NEW o \in Owners, NEW limit \in PageSizes
             PROVE  FollowPages(PositionsOf(o, AllPairs), limit).listed = PositionsOf(o, AllPairs)
  BY DEF PagesCover
<1>1. limit \in Nat \ {0}
  BY ValuationAssumption
<1> QED
  BY <1>1, PositionsAre, PagesFollow

-----------------------------------------------------------------------------
(* Snapshots, and the views always. *)

LEMMA PortfolioTyped ==
    ASSUME PoolsOK, NEW owner \in Owners, NEW asked \in Seq(DOMAIN Pairs)
    PROVE  GetPortfolio(owner, asked).total \in Int
<1> DEFINE pairs == IF asked = <<>> THEN AllPairs ELSE asked
           prices == BuildPriceMap(pairs)
           valued == {k \in DOMAIN pairs : /\ Listed(owner, pairs[k])
                                           /\ TokensOf(pairs[k]) \subseteq DOMAIN prices}
           Counts(i) == Part(pools[i].reserve0, pools[i], owner) * prices[Pairs[i].token0]
                          + Part(pools[i].reserve1, pools[i], owner) * prices[Pairs[i].token1]
           row == [k \in DOMAIN pairs |-> IF k \in valued THEN Counts(pairs[k]) ELSE 0]
<1>1. pairs \in Seq(DOMAIN Pairs)
  BY AllPairsAre
<1>2. GetPortfolio(owner, asked).total = SumSeq(row)
  BY DEF GetPortfolio, GetPosition
<1> HIDE DEF pairs
<1>3. prices \in PriceMaps
  BY <1>1, PricesAre
<1>4. ASSUME NEW k \in valued PROVE Counts(pairs[k]) \in Int
  <2> DEFINE i == pairs[k]
             p == pools[i]
             x == prices[Pairs[i].token0]
             y == prices[Pairs[i].token1]
  <2>1. i \in DOMAIN Pairs /\ Pairs[i].token0 \in DOMAIN prices /\ Pairs[i].token1 \in DOMAIN prices
    BY <1>1 DEF TokensOf
  <2> HIDE DEF i
  <2>2. x \in Nat /\ y \in Nat
    <3> HIDE DEF prices
    <3> QED
      BY <1>3, <2>1, PriceMapIs
  <2>3. p.reserve0 \in Nat /\ p.reserve1 \in Nat /\ p.supply \in Nat /\ p.held[owner] \in Nat
    BY <2>1, PoolIs
  <2>4. Part(p.reserve0, p, owner) \in Nat /\ Part(p.reserve1, p, owner) \in Nat
    BY <2>3, PartFits
  <2>5. Counts(i) = Part(p.reserve0, p, owner) * x + Part(p.reserve1, p, owner) * y
    OBVIOUS
  <2> HIDE DEF p, x, y, Counts
  <2>6. Counts(i) \in Int
    BY <2>2, <2>4, <2>5
  <2> QED
    BY <2>6 DEF i
<1> HIDE DEF prices, valued, Counts
<1>5. row \in Seq(Int)
  <2>1. DOMAIN pairs = 1..Len(pairs) /\ Len(pairs) \in Nat
    BY <1>1
  <2>2. row \in [1..Len(pairs) -> Int]
    BY <1>4, <2>1
  <2> QED
    BY <2>1, <2>2
<1> HIDE DEF row
<1> QED
  BY <1>2, <1>5, SumIsInt

(* A portfolio is read from the pools only.                                   *)
LEMMA PortfolioStays ==
    ASSUME pools' = pools, down' = down, NEW owner, NEW asked
    PROVE  GetPortfolio(owner, asked)' = GetPortfolio(owner, asked)
<1>1. \A prices, pair : Priced(prices, pair)' = Priced(prices, pair)
  BY DEF Priced
<1>2. \A pairs : BuildPriceMap(pairs)' = BuildPriceMap(pairs)
  <2> SUFFICES ASSUME NEW pairs PROVE BuildPriceMap(pairs)' = BuildPriceMap(pairs)
    OBVIOUS
  <2> QED
    BY <1>1, Zenon DEF BuildPriceMap
<1>3. \A pair : Listed(owner, pair)' = Listed(owner, pair)
  BY DEF Listed
<1>4. \A pair : GetPosition(pair, owner)' = GetPosition(pair, owner)
  BY DEF GetPosition
<1> DEFINE pairs == IF asked = <<>> THEN AllPairs ELSE asked
           prices == BuildPriceMap(pairs)
           valued == {k \in DOMAIN pairs : /\ Listed(owner, pairs[k])
                                           /\ TokensOf(pairs[k]) \subseteq DOMAIN prices}
           Counts(pos, pair) == pos.token0Amount * prices[Pairs[pair].token0]
                                  + pos.token1Amount * prices[Pairs[pair].token1]
           row == [k \in DOMAIN pairs |->
                      IF k \in valued THEN Counts(GetPosition(pairs[k], owner), pairs[k]) ELSE 0]
<1>5. GetPortfolio(owner, asked) = [positions |-> Sublist(pairs, valued), total |-> SumSeq(row)]
  BY DEF GetPortfolio
<1>6. GetPortfolio(owner, asked)' = [positions |-> Sublist(pairs, valued'), total |-> SumSeq(row')]
  BY DEF GetPortfolio
<1> HIDE DEF pairs
<1>7. prices' = prices
  BY <1>2
<1>8. valued' = valued
  BY <1>3, <1>7
<1>9. \A k \in DOMAIN pairs : Counts(GetPosition(pairs[k], owner), pairs[k])' =
                              Counts(GetPosition(pairs[k], owner), pairs[k])
  BY <1>4, <1>7
<1> HIDE DEF valued, Counts
<1>10. row' = row
  BY <1>8, <1>9
<1> QED
  BY <1>5, <1>6, <1>8, <1>10

(* A snapshot nothing has happened to is what it would be if made again.      *)
EntryOK ==
    entry.owner # "none" =>
        /\ entry.owner \in Owners /\ entry.asked \in Seq(DOMAIN Pairs)
        /\ entry.at \in Nat /\ entry.at <= trades
        /\ entry.at = trades => entry.total = GetPortfolio(entry.owner, entry.asked).total
ValuationInv == PoolsOK /\ trades \in Nat /\ EntryOK

LEMMA ValuationInitInv == ValuationInit => ValuationInv
<1>1. FirstPool \in PoolStates
  BY ValuationAssumption DEF FirstPool
<1> QED
  BY <1>1 DEF ValuationInit, ValuationInv, PoolsOK, EntryOK, NoEntry

LEMMA TradesEntry ==
    ASSUME ValuationInv, trades' = trades + 1, entry' = entry PROVE EntryOK'
  BY DEF ValuationInv, EntryOK

LEMMA CreateSnapshotInv ==
    ASSUME ValuationInv, NEW owner \in Owners,
           NEW asked \in {<<>>} \cup {<<i>> : i \in DOMAIN Pairs}, CreateSnapshot(owner, asked)
    PROVE  ValuationInv'
<1>1. /\ pools' = pools /\ down' = down /\ trades' = trades /\ trades \in Nat
      /\ entry' = [owner |-> owner, asked |-> asked,
                   positions |-> GetPortfolio(owner, asked).positions,
                   total |-> GetPortfolio(owner, asked).total, at |-> trades]
  BY DEF CreateSnapshot, ValuationInv
<1>2. asked \in Seq(DOMAIN Pairs)
  <2>1. CASE asked = <<>>
    BY <2>1
  <2>2. CASE asked # <<>>
    <3>1. PICK i \in DOMAIN Pairs : asked = <<i>>
      BY <2>2
    <3> DEFINE D == DOMAIN Pairs
    <3>2. i \in D
      OBVIOUS
    <3> HIDE DEF D
    <3>3. <<i>> \in Seq(D)
      BY <3>2
    <3> QED
      BY <3>1, <3>3 DEF D
  <2> QED
    BY <2>1, <2>2
<1>3. GetPortfolio(owner, asked)' = GetPortfolio(owner, asked)
  BY <1>1, PortfolioStays
<1>4. /\ entry'.owner = owner /\ entry'.asked = asked /\ entry'.at = trades
      /\ entry'.total = GetPortfolio(owner, asked).total
  BY <1>1
<1>5. entry'.total = (GetPortfolio(entry.owner, entry.asked).total)'
  BY <1>3, <1>4
<1>6. EntryOK'
  BY <1>1, <1>2, <1>4, <1>5 DEF EntryOK
<1> QED
  BY <1>1, <1>6 DEF ValuationInv, PoolsOK

LEMMA ValuationNextInv == ValuationInv /\ [ValuationNext]_valuationVars => ValuationInv'
<1> SUFFICES ASSUME ValuationInv, [ValuationNext]_valuationVars PROVE ValuationInv'
  OBVIOUS
<1>1. ASSUME NEW pair \in DOMAIN Pairs, NEW p \in PoolStates, PoolMoves(pair, p)
      PROVE  ValuationInv'
  <2>1. EntryOK'
    BY <1>1, TradesEntry DEF PoolMoves
  <2>2. PoolsOK' /\ trades' \in Nat
    BY <1>1 DEF PoolMoves, ValuationInv, PoolsOK
  <2> QED
    BY <2>1, <2>2 DEF ValuationInv
<1>2. ASSUME NEW pairs, ReadsFail(pairs) PROVE ValuationInv'
  <2>1. EntryOK'
    BY <1>2, TradesEntry DEF ReadsFail
  <2>2. PoolsOK' /\ trades' \in Nat
    BY <1>2 DEF ReadsFail, ValuationInv, PoolsOK
  <2> QED
    BY <2>1, <2>2 DEF ValuationInv
<1>3. ASSUME UNCHANGED valuationVars PROVE ValuationInv'
  <2>1. pools' = pools /\ down' = down /\ trades' = trades /\ entry' = entry
    BY <1>3 DEF valuationVars
  <2>2. GetPortfolio(entry.owner, entry.asked)' = GetPortfolio(entry.owner, entry.asked)
    <3>1. ASSUME NEW o, NEW asked PROVE GetPortfolio(o, asked)' = GetPortfolio(o, asked)
      BY <2>1, PortfolioStays
    <3> QED
      BY <2>1, <3>1
  <2>3. EntryOK'
    BY <2>1, <2>2 DEF ValuationInv, EntryOK
  <2> QED
    BY <2>1, <2>3 DEF ValuationInv, PoolsOK
<1> QED
  BY <1>1, <1>2, <1>3, CreateSnapshotInv DEF ValuationNext

LEMMA UnmovedAlways == ValuationInv => UnmovedHasNoPnL
<1> SUFFICES ASSUME ValuationInv, entry.owner # "none", entry.at = trades,
                    entry.asked = entry.positions
             PROVE  GetPortfolioPnL = 0
  BY DEF UnmovedHasNoPnL
<1>1. /\ entry.total = GetPortfolio(entry.owner, entry.positions).total
      /\ GetPortfolio(entry.owner, entry.positions).total \in Int
  BY PortfolioTyped DEF ValuationInv, EntryOK
<1> QED
  BY <1>1 DEF GetPortfolioPnL

LEMMA ValuationAlways == RecordSpec => []ValuationInv
<1>1. RecordInit => ValuationInv
  BY ValuationInitInv DEF RecordInit
<1>2. ValuationInv /\ [RecordNext]_recordVars => ValuationInv'
  <2> SUFFICES ASSUME ValuationInv, [RecordNext]_recordVars PROVE ValuationInv'
    OBVIOUS
  <2>1. [ValuationNext]_valuationVars
    BY DEF RecordNext, recordVars
  <2> QED
    BY <2>1, ValuationNextInv
<1> QED
  BY <1>1, <1>2, PTL DEF RecordSpec

(* Whatever the pools do and whichever pairs cannot be read, the portfolios   *)
(* together are worth no more than the total value locked, and each no more   *)
(* than its other views; holders are told of no more fees and liquidity than  *)
(* there are; the two totals of monitoring differ by one-sided pools only;    *)
(* pages list every position once; and an unmoved portfolio has no profit.    *)
THEOREM ViewsOfHoldingsAgree == RecordSpec => []ViewsAgree
<1>1. ValuationInv => ViewsAgree
  BY ValueIsBackedAlways, YieldIsBackedAlways, TotalsAgreeAlways, PagesCoverAlways,
     UnmovedAlways DEF ValuationInv, ViewsAgree
<1> QED
  BY <1>1, ValuationAlways, PTL
=============================================================================
