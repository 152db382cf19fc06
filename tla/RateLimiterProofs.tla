-------------------------- MODULE RateLimiterProofs --------------------------
(***************************************************************************)
(* The token bucket for every rate, burst and number of callers: nobody    *)
(* waits without a timer; every timer callback serves a waiter as long as  *)
(* tryAcquire has taken no token; and the rate is kept when it divides the *)
(* second, which is the case the code's rounding is exact in.              *)
(***************************************************************************)
EXTENDS RateLimiter, SequenceTheorems, TLAPS

-----------------------------------------------------------------------------
(* Arithmetic. *)

(* Division rounds down. *)
LEMMA DivBounds ==
    ASSUME NEW a \in Nat, NEW b \in Nat \ {0}
    PROVE  /\ a \div b \in Nat
           /\ (a \div b) * b <= a
           /\ a < (a \div b) * b + b
  OBVIOUS

(* A quotient is determined by its remainder's range. *)
LEMMA DivUnique ==
    ASSUME NEW q \in Nat, NEW r \in Nat, NEW b \in Nat \ {0}, r < b
    PROVE  (q * b + r) \div b = q
  OBVIOUS

LEMMA TimesNat == ASSUME NEW a \in Nat, NEW b \in Nat PROVE a * b \in Nat
  OBVIOUS

LEMMA TimesMono ==
    ASSUME NEW a \in Nat, NEW b \in Nat, NEW k \in Nat, a <= b
    PROVE  a * k <= b * k
  OBVIOUS

LEMMA TimesCancel ==
    ASSUME NEW a \in Nat, NEW b \in Nat, NEW k \in Nat \ {0}, a * k <= b * k
    PROVE  a <= b
  OBVIOUS

(* The delay is at least one unit and long enough for one token. *)
LEMMA DelayFacts == Delay \in Nat \ {0} /\ Delay * Rate >= Second
<1>1. /\ Rate \in Nat \ {0} /\ Second \in Nat \ {0}
      /\ Second + Rate - 1 \in Nat
  BY LimiterConstants
<1>2. /\ Delay \in Nat
      /\ Second + Rate - 1 < Delay * Rate + Rate
  BY <1>1, DivBounds DEF Delay
<1>3. Delay * Rate \in Nat
  BY <1>1, <1>2, TimesNat
<1>4. Delay * Rate >= Second
  BY <1>1, <1>2, <1>3
<1>5. Delay # 0
  BY <1>1, <1>4
<1> QED
  BY <1>2, <1>4, <1>5

-----------------------------------------------------------------------------
(* What _refill computes. *)

LEMMA RefillFacts ==
    ASSUME TypeOK
    PROVE  /\ Earned \in Nat
           /\ RefilledTokens \in 0..MaxBurst
           /\ RefilledClock \in Nat
           /\ Earned * Second <= elapsed * Rate
           /\ elapsed * Rate < Earned * Second + Second
<1>1. /\ Rate \in Nat \ {0} /\ Second \in Nat \ {0}
      /\ MaxBurst \in Nat \ {0} /\ elapsed \in Nat /\ tokens \in 0..MaxBurst
      /\ elapsed * Rate \in Nat
  BY LimiterConstants, TimesNat DEF TypeOK
<1>2. /\ Earned \in Nat
      /\ Earned * Second <= elapsed * Rate
      /\ elapsed * Rate < Earned * Second + Second
  BY <1>1, DivBounds DEF Earned
<1>3. RefilledTokens \in 0..MaxBurst
  BY <1>1, <1>2 DEF RefilledTokens, Lesser
<1>4. Earned * Second \in Nat
  BY <1>1, <1>2, TimesNat
<1> DEFINE moved == (Earned * Second) \div Rate
<1>5. moved \in Nat /\ moved * Rate <= Earned * Second
  BY <1>1, <1>4, DivBounds
<1>6. moved * Rate \in Nat /\ moved * Rate <= elapsed * Rate
  BY <1>1, <1>2, <1>4, <1>5, TimesNat
<1> HIDE DEF moved
<1>7. moved <= elapsed
  BY <1>1, <1>5, <1>6, TimesCancel
<1>8. RefilledClock \in Nat
  BY <1>1, <1>5, <1>7 DEF RefilledClock, moved
<1> QED
  BY <1>2, <1>3, <1>8

(* The flush leaves the rest of the queue, none of it when every waiter is *)
(* served.                                                                 *)
LEMMA FlushFacts ==
    ASSUME NEW q \in Seq(Callers), NEW t \in Nat
    PROVE  LET m == Lesser(Len(q), t)
               rest == SubSeq(q, m + 1, Len(q))
           IN  /\ m \in Nat /\ m <= t /\ m <= Len(q)
               /\ rest \in Seq(Callers) /\ Len(rest) = Len(q) - m
               /\ m = Len(q) <=> rest = <<>>
               /\ m < Len(q) => t - m < 1
<1> DEFINE m == Lesser(Len(q), t)
<1> DEFINE rest == SubSeq(q, m + 1, Len(q))
<1>1. Len(q) \in Nat
  BY LenProperties
<1>2. m \in Nat /\ m <= t /\ m <= Len(q) /\ (m < Len(q) => t - m < 1)
  BY <1>1 DEF Lesser
<1> HIDE DEF m
<1>3. rest \in Seq(Callers) /\ Len(rest) = Len(q) - m
  BY <1>1, <1>2, SubSeqProperties
<1> HIDE DEF rest
<1>4. m = Len(q) <=> rest = <<>>
  BY <1>1, <1>2, <1>3, EmptySeq
<1> QED
  BY <1>2, <1>3, <1>4 DEF m, rest

-----------------------------------------------------------------------------
(* Types and wakeups. *)

LInv == TypeOK /\ NoLostWakeup

LEMMA InitLInv == Init => LInv
<1> SUFFICES ASSUME Init PROVE LInv
  OBVIOUS
<1>1. /\ MaxBurst \in Nat \ {0}
      /\ queue \in Seq(Callers) /\ timer = Off
  BY LimiterConstants, EmptySeq DEF Init
<1>2. tokens \in 0..MaxBurst /\ elapsed \in Nat /\ debt \in Nat
  BY <1>1 DEF Init
<1>3. tries \in Nat /\ NoLostWakeup
  BY DEF Init, NoLostWakeup
<1> QED
  BY <1>1, <1>2, <1>3 DEF LInv, TypeOK

LEMMA GrantNat ==
    ASSUME TypeOK, NEW n \in Nat, Grant(n)
    PROVE  debt' \in Nat /\ debt' <= debt + n * Second
<1>1. debt \in Nat /\ n * Second \in Nat /\ MeterCap \in Nat
  BY LimiterConstants, TimesNat DEF TypeOK, MeterCap
<1> QED
  BY <1>1 DEF Grant, Lesser

LEMMA StepLInv == LInv /\ [Next]_vars => LInv'
<1> SUFFICES ASSUME LInv, [Next]_vars PROVE LInv'
  OBVIOUS
<1>t. TypeOK /\ NoLostWakeup
  BY DEF LInv
<1>r. RefilledTokens \in 0..MaxBurst /\ RefilledClock \in Nat
  BY <1>t, RefillFacts
<1>c. Delay \in Nat \ {0} /\ Rate \in Nat \ {0} /\ MaxBurst \in Nat
  BY DelayFacts, LimiterConstants
<1>1. ASSUME RefilledTokens >= 1, tokens' = RefilledTokens - 1,
             elapsed' = RefilledClock, Grant(1),
             tries' \in Nat, UNCHANGED <<queue, timer>>
      PROVE  LInv'
  <2>1. debt' \in Nat
    BY <1>t, <1>1, GrantNat
  <2>2. tokens' \in 0..MaxBurst
    BY <1>r, <1>c, <1>1
  <2> QED
    BY <1>t, <1>r, <1>1, <2>1, <2>2 DEF LInv, TypeOK, NoLostWakeup
<1>2. ASSUME NEW c \in Callers, AcquireNow(c) PROVE LInv'
  BY <1>t, <1>1, <1>2 DEF AcquireNow, TypeOK
<1>3. ASSUME NEW c \in Callers, AcquireQueued(c) PROVE LInv'
  <2>1. queue' \in Seq(Callers) /\ queue' # <<>>
    BY <1>t, <1>3, AppendProperties DEF AcquireQueued, TypeOK
  <2>2. timer' \in 0..Delay
    BY <1>t, <1>c, <1>3 DEF AcquireQueued, Scheduled, TypeOK, Off
  <2>3. timer' # Off
    BY <2>2, <1>c DEF Off
  <2> QED
    BY <1>t, <1>r, <1>3, <2>1, <2>2, <2>3
    DEF AcquireQueued, LInv, TypeOK, NoLostWakeup
<1>4. CASE TryAcquire
  BY <1>t, <1>1, <1>4 DEF TryAcquire, TypeOK
<1>5. CASE GetRemainingCapacity
  BY <1>t, <1>r, <1>5
  DEF GetRemainingCapacity, LInv, TypeOK, NoLostWakeup
<1>6. CASE Destroy
  BY <1>t, <1>6, EmptySeq DEF Destroy, LInv, TypeOK, NoLostWakeup
<1>7. CASE TimerFires
  <2> DEFINE m == Lesser(Len(queue), RefilledTokens)
  <2>1. /\ m \in Nat /\ m <= RefilledTokens /\ m <= Len(queue)
        /\ queue' \in Seq(Callers)
        /\ m = Len(queue) <=> queue' = <<>>
        /\ m < Len(queue) => RefilledTokens - m < 1
    <3>1. RefilledTokens \in Nat /\ queue \in Seq(Callers)
      BY <1>t, <1>r, <1>c DEF TypeOK
    <3>2. queue' = SubSeq(queue, m + 1, Len(queue))
      BY <1>7 DEF TimerFires
    <3> QED
      BY <3>1, <3>2, FlushFacts
  <2>2. /\ tokens' = RefilledTokens - m /\ elapsed' = RefilledClock
        /\ timer' = IF m < Len(queue) /\ RefilledTokens - m < 1
                    THEN Delay ELSE Off
        /\ Grant(m) /\ UNCHANGED tries
    BY <1>7 DEF TimerFires
  <2> HIDE DEF m
  <2>3. debt' \in Nat
    BY <1>t, <2>1, <2>2, GrantNat
  <2>4. tokens' \in 0..MaxBurst
    BY <1>r, <1>c, <2>1, <2>2
  <2>5. Len(queue) \in Nat
    BY <1>t, LenProperties DEF TypeOK
  <2>6. timer' \in {Off} \cup 0..Delay /\ ((queue' # <<>>) <=> (timer' # Off))
    BY <1>c, <2>1, <2>2, <2>5 DEF Off
  <2> QED
    BY <1>t, <1>r, <2>1, <2>2, <2>3, <2>4, <2>6 DEF LInv, TypeOK, NoLostWakeup
<1>8. CASE Tick
  <2>1. timer' \in {Off} \cup 0..Delay /\ ((timer' = Off) <=> (timer = Off))
    BY <1>t, <1>c, <1>8 DEF Tick, TypeOK, Off
  <2>2. debt' \in Nat /\ elapsed' \in Nat
    BY <1>t, <1>c, <1>8 DEF Tick, TypeOK
  <2> QED
    BY <1>t, <1>8, <2>1, <2>2 DEF Tick, LInv, TypeOK, NoLostWakeup
<1>9. CASE UNCHANGED vars
  BY <1>t, <1>9 DEF vars, LInv, TypeOK, NoLostWakeup
<1> QED
  BY <1>2, <1>3, <1>4, <1>5, <1>6, <1>7, <1>8, <1>9 DEF Next

(* The bucket never holds more than maxBurst tokens and never goes below   *)
(* zero (rate-limiter.ts:151-159).                                         *)
THEOREM LimiterTypes == Spec => []TypeOK
<1>1. LInv => TypeOK
  BY DEF LInv
<1> QED
  BY InitLInv, StepLInv, <1>1, PTL DEF Spec

(* acquire, the timer callback and destroy (rate-limiter.ts:97-182) leave  *)
(* a timer armed exactly while somebody waits.                             *)
THEOREM WakeupArmed == Spec => []NoLostWakeup
<1>1. LInv => NoLostWakeup
  BY DEF LInv
<1> QED
  BY InitLInv, StepLInv, <1>1, PTL DEF Spec

-----------------------------------------------------------------------------
(* The delay suffices.  While somebody waits there is a token already, or  *)
(* the timer is due no earlier than the next token, as long as tryAcquire  *)
(* has taken none.                                                         *)

TokenInTime ==
    timer # Off => tokens >= 1 \/ (elapsed + timer) * Rate >= Second

WInv == LInv /\ (tries = 0 => TokenInTime)

(* A refill that earns nothing leaves the clock; one that earns leaves a   *)
(* token.                                                                  *)
LEMMA RefillKeeps ==
    ASSUME TypeOK
    PROVE  \/ RefilledTokens >= 1
           \/ RefilledTokens = tokens /\ RefilledClock = elapsed
<1>1. Earned \in Nat /\ MaxBurst \in Nat \ {0} /\ tokens \in Nat
  BY RefillFacts, LimiterConstants DEF TypeOK
<1> QED
  BY <1>1 DEF RefilledTokens, RefilledClock, Lesser

(* A callback that is due finds a token. *)
LEMMA DueHasToken ==
    ASSUME WInv, timer = 0, tries = 0 PROVE RefilledTokens >= 1
<1>1. TypeOK /\ elapsed \in Nat /\ Rate \in Nat /\ Second \in Nat \ {0}
      /\ tokens \in Nat /\ MaxBurst \in Nat \ {0}
  BY LimiterConstants DEF WInv, LInv, TypeOK
<1>2. tokens >= 1 \/ elapsed * Rate >= Second
  BY <1>1 DEF WInv, TokenInTime, Off
<1>3. Earned \in Nat /\ elapsed * Rate < Earned * Second + Second
  BY <1>1, RefillFacts
<1>4. CASE elapsed * Rate >= Second
  <2>1. elapsed * Rate \in Nat /\ Earned # 0
    BY <1>1, <1>3, <1>4, TimesNat
  <2> QED
    BY <1>1, <1>3, <2>1 DEF RefilledTokens, Lesser
<1>5. CASE tokens >= 1
  BY <1>1, <1>3, <1>5 DEF RefilledTokens, Lesser
<1> QED
  BY <1>2, <1>4, <1>5

LEMMA StepWInv == WInv /\ [Next]_vars => WInv'
<1> SUFFICES ASSUME WInv, [Next]_vars, tries' = 0 PROVE TokenInTime'
  BY StepLInv DEF WInv
<1>0. tries \in Nat /\ (tries' = tries \/ tries' = tries + 1)
  BY DEF WInv, LInv, TypeOK, vars, Next, AcquireNow, AcquireQueued, TryAcquire,
         GetRemainingCapacity, Destroy, TimerFires, Tick
<1>t. LInv /\ TypeOK /\ NoLostWakeup /\ TokenInTime
  BY <1>0 DEF WInv, LInv
<1>8. ~TryAcquire
  BY <1>0 DEF TryAcquire
<1>c. /\ Delay \in Nat \ {0} /\ Delay * Rate >= Second /\ Rate \in Nat \ {0}
      /\ Second \in Nat \ {0}
  BY DelayFacts, LimiterConstants
<1>r. /\ RefilledTokens \in Nat /\ RefilledClock \in Nat
      /\ \/ RefilledTokens >= 1
         \/ RefilledTokens = tokens /\ RefilledClock = elapsed
  BY <1>t, RefillFacts, RefillKeeps, LimiterConstants
<1>a. \A x \in Nat : (x + Delay) * Rate >= Second
  <2> SUFFICES ASSUME NEW x \in Nat PROVE (x + Delay) * Rate >= Second
    OBVIOUS
  <2>1. (x + Delay) * Rate = x * Rate + Delay * Rate
    BY <1>c
  <2>2. x * Rate \in Nat /\ Delay * Rate \in Nat
    BY <1>c, TimesNat
  <2> QED
    BY <1>c, <2>1, <2>2
<1>1. ASSUME NEW c \in Callers, AcquireNow(c) PROVE TokenInTime'
  BY <1>t, <1>1 DEF AcquireNow, TokenInTime, NoLostWakeup
<1>2. ASSUME NEW c \in Callers, AcquireQueued(c) PROVE TokenInTime'
  <2>1. /\ tokens' = RefilledTokens /\ elapsed' = RefilledClock
        /\ timer' = IF timer = Off THEN Delay ELSE timer
    BY <1>2 DEF AcquireQueued, Scheduled
  <2>2. CASE timer = Off
    BY <1>r, <1>a, <2>1, <2>2 DEF TokenInTime
  <2>3. CASE timer # Off
    BY <1>t, <1>r, <2>1, <2>3 DEF TokenInTime
  <2> QED
    BY <2>2, <2>3
<1>3. CASE GetRemainingCapacity
  BY <1>t, <1>r, <1>3 DEF GetRemainingCapacity, TokenInTime
<1>4. CASE Destroy
  BY <1>4 DEF Destroy, TokenInTime
<1>5. CASE TimerFires
  <2>1. elapsed' = RefilledClock /\ timer' \in {Delay, Off}
    BY <1>5 DEF TimerFires
  <2> QED
    BY <1>r, <1>a, <2>1 DEF TokenInTime
<1>6. CASE Tick
  <2>1. /\ elapsed \in Nat /\ tokens' = tokens /\ elapsed' = elapsed + 1
        /\ timer' = IF timer > 0 THEN timer - 1 ELSE timer
        /\ timer \in {Off} \cup Nat
    BY <1>t, <1>c, <1>6 DEF Tick, TypeOK
  <2>2. CASE timer \in Nat \ {0}
    <3>1. elapsed' + timer' = elapsed + timer /\ timer # Off
      BY <2>1, <2>2 DEF Off
    <3> QED
      BY <1>t, <2>1, <3>1 DEF TokenInTime
  <2>3. CASE timer = 0
    <3>1. timer' = 0 /\ timer # Off
      BY <2>1, <2>3 DEF Off
    <3>2. (elapsed + 1) * Rate = elapsed * Rate + Rate
      BY <1>c, <2>1
    <3>3. elapsed * Rate \in Nat
      BY <1>c, <2>1, TimesNat
    <3>4. tokens >= 1 \/ elapsed * Rate >= Second
      BY <1>t, <2>1, <2>3, <3>1 DEF TokenInTime
    <3> QED
      BY <1>c, <2>1, <3>1, <3>2, <3>3, <3>4 DEF TokenInTime
  <2>4. CASE timer = Off
    BY <2>1, <2>4 DEF TokenInTime, Off
  <2> QED
    BY <2>1, <2>2, <2>3, <2>4
<1>7. CASE UNCHANGED vars
  BY <1>t, <1>7 DEF vars, TokenInTime
<1> QED
  BY <1>1, <1>2, <1>3, <1>4, <1>5, <1>6, <1>7, <1>8 DEF Next

(* The delay of _scheduleNext (rate-limiter.ts:162-174) is long enough:    *)
(* as long as tryAcquire has taken no token, every timer callback serves a *)
(* waiter, even when refills by other callers have moved lastRefillTime.   *)
THEOREM WakeupSuffices == Spec => WakeupGrants
<1>1. Init => WInv
  BY InitLInv DEF Init, WInv, TokenInTime
<1>2. WInv /\ [Next]_vars => WInv'
  BY StepWInv
<1>3. WInv /\ [Next]_vars
         => [TimerFires /\ tries = 0 => Len(queue') < Len(queue)]_vars
  <2> SUFFICES ASSUME WInv, TimerFires, tries = 0 PROVE Len(queue') < Len(queue)
    OBVIOUS
  <2> DEFINE m == Lesser(Len(queue), RefilledTokens)
  <2>1. /\ queue \in Seq(Callers) /\ queue # <<>> /\ timer = 0
        /\ RefilledTokens \in Nat /\ RefilledTokens >= 1
    BY DueHasToken, RefillFacts, LimiterConstants
    DEF TimerFires, WInv, LInv, TypeOK, NoLostWakeup, Off
  <2>2. Len(queue) \in Nat \ {0}
    BY <2>1, EmptySeq
  <2>3. queue' = SubSeq(queue, m + 1, Len(queue))
    BY DEF TimerFires
  <2>4. Len(queue') = Len(queue) - m
    BY <2>1, <2>3, FlushFacts
  <2>5. m \in Nat \ {0}
    BY <2>1, <2>2 DEF Lesser
  <2> QED
    BY <2>2, <2>4, <2>5
<1> QED
  BY <1>1, <1>2, <1>3, PTL DEF Spec, WakeupGrants

-----------------------------------------------------------------------------
(* The rate.  When Rate divides Second, a token takes Period clock units   *)
(* and rounding loses nothing.  What was granted beyond the sustained      *)
(* rate, with the tokens a refill would leave in the bucket and the part   *)
(* of a token earned since, never exceeds a full bucket and the part of a  *)
(* token that a window may begin with.                                     *)

Period == Second \div Rate

Credit(q, r) == debt + Lesser(MaxBurst, tokens + q) * Second + r * Rate

Allowance == MaxBurst * Second + (Period - 1) * Rate

(* The clock reads q whole periods and r units since the last refill. *)
Reads(q, r) == elapsed = q * Period + r /\ r < Period

Metered == \E q, r \in Nat : Reads(q, r) /\ Credit(q, r) <= Allowance

BInv == LInv /\ Metered

LEMMA PeriodNat ==
    ASSUME Second = Rate * Period
    PROVE  /\ Period \in Nat \ {0}
           /\ Rate \in Nat \ {0} /\ Second \in Nat \ {0}
           /\ MaxBurst \in Nat \ {0}
<1>1. /\ Rate \in Nat \ {0} /\ Second \in Nat \ {0}
      /\ MaxBurst \in Nat \ {0}
  BY LimiterConstants
<1>2. Period \in Nat
  BY <1>1, DivBounds DEF Period
<1>3. Period # 0
  BY <1>1
<1> QED
  BY <1>1, <1>2, <1>3

(* A refill turns the whole periods into tokens and keeps the rest. *)
LEMMA ExactRefill ==
    ASSUME Second = Rate * Period, TypeOK,
           NEW q \in Nat, NEW r \in Nat, Reads(q, r)
    PROVE  /\ RefilledTokens = Lesser(MaxBurst, tokens + q)
           /\ RefilledClock = r
<1>c. /\ Period \in Nat \ {0} /\ Rate \in Nat \ {0} /\ Second \in Nat \ {0}
      /\ MaxBurst \in Nat \ {0}
  BY PeriodNat
<1>1. elapsed = q * Period + r /\ r < Period /\ tokens \in 0..MaxBurst
  BY DEF Reads, TypeOK
<1>2. r * Rate \in Nat /\ r * Rate < Second
  BY <1>c, <1>1
<1>3. elapsed * Rate = q * Second + r * Rate
  BY <1>c, <1>1
<1>4. Earned = q
  BY <1>c, <1>2, <1>3, DivUnique DEF Earned
<1>5. q * Second = (q * Period) * Rate + 0 /\ q * Period \in Nat
  BY <1>c
<1>6. (q * Second) \div Rate = q * Period
  BY <1>c, <1>5, DivUnique
<1>7. RefilledClock = r
  BY <1>c, <1>1, <1>4, <1>5, <1>6 DEF RefilledClock
<1>8. RefilledTokens = Lesser(MaxBurst, tokens + q)
  BY <1>c, <1>1, <1>4 DEF RefilledTokens, Lesser
<1> QED
  BY <1>7, <1>8

(* A method refills and grants n of the tokens: the credit does not grow. *)
LEMMA GrantMetered ==
    ASSUME Second = Rate * Period, BInv, NEW n \in Nat, n <= RefilledTokens,
           tokens' = RefilledTokens - n, elapsed' = RefilledClock,
           debt' \in Nat, debt' <= debt + n * Second
    PROVE  Metered'
<1>c. /\ Period \in Nat \ {0} /\ Rate \in Nat \ {0} /\ Second \in Nat \ {0}
      /\ MaxBurst \in Nat \ {0}
  BY PeriodNat
<1>t. TypeOK /\ debt \in Nat
  BY DEF BInv, LInv, TypeOK
<1>1. PICK q \in Nat, r \in Nat : Reads(q, r) /\ Credit(q, r) <= Allowance
  BY DEF BInv, Metered
<1>2. RefilledTokens = Lesser(MaxBurst, tokens + q) /\ RefilledClock = r
  BY <1>t, <1>1, ExactRefill
<1>3. RefilledTokens \in 0..MaxBurst /\ r < Period
  BY <1>t, <1>1, RefillFacts DEF Reads
<1> DEFINE t == RefilledTokens
<1>4. tokens' = t - n /\ t \in 0..MaxBurst /\ n <= t
  BY <1>3
<1>5. debt + t * Second + r * Rate <= Allowance
  BY <1>1, <1>2 DEF Credit
<1> HIDE DEF t
<1>6. Lesser(MaxBurst, tokens' + 0) = t - n
  BY <1>c, <1>4 DEF Lesser
<1>7. (t - n) * Second = t * Second - n * Second
  BY <1>c, <1>4
<1>8. r * Rate \in Nat /\ t * Second \in Nat /\ n * Second \in Nat
  BY <1>c, <1>4, TimesNat
<1>9. Allowance \in Nat
  BY <1>c DEF Allowance
<1>10. debt' + (t - n) * Second + r * Rate <= Allowance
  BY <1>t, <1>5, <1>7, <1>8, <1>9
<1>11. Reads(0, r)'
  BY <1>c, <1>2, <1>3 DEF Reads, Period
<1>12. Credit(0, r)' <= Allowance'
  BY <1>6, <1>10 DEF Credit, Allowance, Period
<1> QED
  BY <1>11, <1>12 DEF Metered

(* A clock unit pays Rate off the debt and earns Rate of a token. *)
LEMMA TickMetered ==
    ASSUME Second = Rate * Period, BInv, Tick PROVE Metered'
<1>c. /\ Period \in Nat \ {0} /\ Rate \in Nat \ {0} /\ Second \in Nat \ {0}
      /\ MaxBurst \in Nat \ {0}
  BY PeriodNat
<1>1. PICK q \in Nat, r \in Nat : Reads(q, r) /\ Credit(q, r) <= Allowance
  BY DEF BInv, Metered
<1>2. /\ elapsed = q * Period + r /\ r < Period
      /\ debt \in Nat /\ tokens \in 0..MaxBurst
      /\ tokens' = tokens /\ elapsed' = elapsed + 1
      /\ debt' = IF debt > Rate THEN debt - Rate ELSE 0
  BY <1>1 DEF Reads, Tick, BInv, LInv, TypeOK
<1> DEFINE s == Lesser(MaxBurst, tokens + q)
<1> DEFINE u == Lesser(MaxBurst, tokens + (q + 1))
<1>3. s \in 0..MaxBurst /\ u \in 0..MaxBurst /\ u <= s + 1
  BY <1>c, <1>2 DEF Lesser
<1>4. debt + s * Second + r * Rate <= MaxBurst * Second + (Period - 1) * Rate
  BY <1>1 DEF Credit, Allowance
<1> DEFINE Left(x) == Lesser(MaxBurst, tokens' + x)
<1>5. Left(q) = s /\ Left(q + 1) = u
  BY <1>2
<1>6. ASSUME NEW x \in Nat, NEW y \in Nat, elapsed' = x * Period + y,
             y < Period,
             debt' + Left(x) * Second + y * Rate
                <= MaxBurst * Second + (Period - 1) * Rate
      PROVE  Metered'
  <2>1. Reads(x, y)'
    BY <1>6 DEF Reads, Period
  <2>2. Credit(x, y)' <= Allowance'
    BY <1>6 DEF Credit, Allowance, Period
  <2> QED
    BY <2>1, <2>2 DEF Metered
<1> HIDE DEF s, u, Left
<1>7. /\ s * Second \in Nat /\ u * Second \in Nat /\ r * Rate \in Nat
      /\ MaxBurst * Second \in Nat /\ s * Second <= MaxBurst * Second
      /\ u * Second <= MaxBurst * Second /\ u * Second <= s * Second + Second
      /\ (Period - 1) * Rate \in Nat /\ Second = (Period - 1) * Rate + Rate
  BY <1>c, <1>3
<1>8. CASE r + 1 < Period
  <2>1. elapsed' = q * Period + (r + 1)
    BY <1>c, <1>2
  <2>2. (r + 1) * Rate = r * Rate + Rate /\ (r + 1) * Rate <= (Period - 1) * Rate
    BY <1>c, <1>8
  <2>3. debt' + s * Second + (r + 1) * Rate
           <= MaxBurst * Second + (Period - 1) * Rate
    BY <1>c, <1>2, <1>4, <1>7, <2>2
  <2> QED
    BY <1>5, <1>6, <1>8, <2>1, <2>3
<1>9. CASE r + 1 = Period
  <2>1. elapsed' = (q + 1) * Period + 0
    BY <1>c, <1>2, <1>9
  <2>2. r * Rate = (Period - 1) * Rate
    BY <1>9
  <2>3. debt' + u * Second + 0 * Rate
           <= MaxBurst * Second + (Period - 1) * Rate
    BY <1>c, <1>2, <1>4, <1>7, <2>2
  <2> QED
    BY <1>c, <1>5, <1>6, <2>1, <2>3
<1> QED
  BY <1>c, <1>2, <1>8, <1>9

LEMMA StepBInv ==
    ASSUME Second = Rate * Period PROVE BInv /\ [Next]_vars => BInv'
<1> SUFFICES ASSUME BInv, [Next]_vars PROVE Metered'
  BY StepLInv DEF BInv
<1>t. LInv /\ TypeOK /\ debt \in Nat
  BY DEF BInv, LInv, TypeOK
<1>r. RefilledTokens \in Nat
  BY <1>t, RefillFacts, LimiterConstants
<1>1. ASSUME NEW n \in Nat, n <= RefilledTokens, Grant(n),
             tokens' = RefilledTokens - n, elapsed' = RefilledClock
      PROVE  Metered'
  BY <1>t, <1>1, GrantNat, GrantMetered
<1>2. ASSUME tokens' = RefilledTokens, elapsed' = RefilledClock,
             UNCHANGED debt
      PROVE  Metered'
  <2>1. tokens' = RefilledTokens - 0 /\ debt' <= debt + 0 * Second
    BY <1>t, <1>r, <1>2, LimiterConstants
  <2> QED
    BY <1>t, <1>r, <1>2, <2>1, GrantMetered
<1>3. ASSUME NEW c \in Callers, AcquireNow(c) \/ AcquireQueued(c)
      PROVE  Metered'
  BY <1>r, <1>1, <1>2, <1>3 DEF AcquireNow, AcquireQueued
<1>4. CASE TryAcquire
  BY <1>r, <1>1, <1>4 DEF TryAcquire
<1>5. CASE GetRemainingCapacity
  BY <1>2, <1>5 DEF GetRemainingCapacity
<1>6. CASE TimerFires
  <2> DEFINE m == Lesser(Len(queue), RefilledTokens)
  <2>1. m \in Nat /\ m <= RefilledTokens
    BY <1>t, <1>r, FlushFacts DEF TypeOK
  <2>2. /\ tokens' = RefilledTokens - m /\ elapsed' = RefilledClock
        /\ Grant(m)
    BY <1>6 DEF TimerFires
  <2> HIDE DEF m
  <2> QED
    BY <1>1, <2>1, <2>2
<1>7. CASE Tick
  BY <1>7, TickMetered
<1>8. CASE Destroy \/ UNCHANGED vars
  <2>1. UNCHANGED <<tokens, elapsed, debt>>
    BY <1>8 DEF Destroy, vars
  <2> QED
    BY <2>1 DEF BInv, Metered, Reads, Credit, Allowance, Period
<1> QED
  BY <1>3, <1>4, <1>5, <1>6, <1>7, <1>8 DEF Next

(* "Maximum sustained requests per second" (rate-limiter.ts:21-24) holds   *)
(* for every burst, every number of callers and any use of tryAcquire      *)
(* when maxRequestsPerSecond divides the second: no window sees more than  *)
(* the sustained rate, maxBurst and the token under way at its beginning.  *)
(* The run limiter_fraction shows that the condition is needed.        *)
THEOREM RateKept ==
    ASSUME Second = Rate * Period
    PROVE  Spec => []RateBound
<1>c. /\ Period \in Nat \ {0} /\ Rate \in Nat \ {0} /\ Second \in Nat \ {0}
      /\ MaxBurst \in Nat \ {0}
  BY PeriodNat
<1>1. Init => BInv
  <2> SUFFICES ASSUME Init PROVE BInv
    OBVIOUS
  <2>1. Reads(0, 0)
    BY <1>c DEF Init, Reads
  <2>2. Lesser(MaxBurst, tokens + 0) = MaxBurst /\ debt = 0
    BY <1>c DEF Init, Lesser
  <2>3. /\ MaxBurst * Second \in Nat /\ (Period - 1) * Rate \in Nat
        /\ 0 * Rate = 0
    BY <1>c
  <2>4. Credit(0, 0) <= Allowance
    BY <2>2, <2>3 DEF Credit, Allowance
  <2> QED
    BY <2>1, <2>4, InitLInv DEF BInv, Metered
<1>2. BInv /\ [Next]_vars => BInv'
  BY StepBInv
<1>3. BInv => RateBound
  <2> SUFFICES ASSUME BInv PROVE RateBound
    OBVIOUS
  <2>1. PICK q \in Nat, r \in Nat : Credit(q, r) <= Allowance
    BY DEF BInv, Metered
  <2> DEFINE s == Lesser(MaxBurst, tokens + q)
  <2>2. s \in Nat /\ debt \in Nat
    BY <1>c DEF BInv, LInv, TypeOK, Lesser
  <2>3. debt + s * Second + r * Rate <= MaxBurst * Second + (Period - 1) * Rate
    BY <2>1 DEF Credit, Allowance
  <2> HIDE DEF s
  <2>4. /\ s * Second \in Nat /\ r * Rate \in Nat
        /\ MaxBurst * Second + (Period - 1) * Rate < (MaxBurst + 1) * Second
        /\ MaxBurst * Second \in Nat /\ (Period - 1) * Rate \in Nat
        /\ (MaxBurst + 1) * Second \in Nat
    BY <1>c, <2>2
  <2> QED
    BY <2>2, <2>3, <2>4 DEF RateBound
<1> QED
  BY <1>1, <1>2, <1>3, PTL DEF Spec
=============================================================================
