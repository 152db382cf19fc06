---------------------------- MODULE RateLimiter ----------------------------
(***************************************************************************)
(* The token bucket of src/src/utils/rate-limiter.ts.  Every method runs   *)
(* to completion on the event loop, so each one is an action; the timer    *)
(* callback is another, and it may be late.  Clock readings are relative:  *)
(* elapsed is Date.now() - lastRefillTime and timer counts down.           *)
(***************************************************************************)
EXTENDS Integers, Sequences

CONSTANTS
    Callers,    \* concurrent users of acquire
    Rate,       \* maxRequestsPerSecond (a whole number)
    Second,     \* clock units in a second: 1000 in the code
    MaxBurst,   \* maxBurst
    MaxTry,     \* bound: tokens taken by tryAcquire
    MaxIdle     \* bound: longest time without a refill

ASSUME LimiterConstants ==
    /\ Rate \in Nat \ {0}
    /\ Second \in Nat \ {0}
    /\ MaxBurst \in Nat \ {0}
    /\ MaxIdle \in Nat
    /\ MaxTry \in Nat

VARIABLES
    tokens,     \* tokens in the bucket
    elapsed,    \* time since lastRefillTime
    queue,      \* callers waiting, in order
    timer,      \* time until the timer is due, or Off
    tries,      \* tokens tryAcquire has taken (history)
    debt        \* Second per grant less Rate per clock unit (history)

vars == <<tokens, elapsed, queue, timer, tries, debt>>

Off == -1

Lesser(a, b) == IF a < b THEN a ELSE b

(* max(1, ceil(1000 / maxRequestsPerSecond)) *)
Delay == (Second + Rate - 1) \div Rate

Init ==
    /\ tokens = MaxBurst
    /\ elapsed = 0
    /\ queue = <<>>
    /\ timer = Off
    /\ tries = 0
    /\ debt = 0

-----------------------------------------------------------------------------
(* _refill: whole tokens earned since the last refill.  The refill clock   *)
(* moves by the time those tokens took, rounded down.                      *)
Earned == (elapsed * Rate) \div Second

RefilledTokens == IF Earned > 0 THEN Lesser(MaxBurst, tokens + Earned)
                                ELSE tokens

(* Mutant: the refill clock is advanced one unit short. *)
RefilledClock_Short ==
    IF Earned > 0 THEN elapsed - (Earned * Second) \div Rate + 1 ELSE elapsed

(* Mutant: the refill clock is set to now even when no token was earned. *)
RefilledClock_Now == 0

RefilledClock == IF Earned > 0 THEN elapsed - (Earned * Second) \div Rate
                               ELSE elapsed

(* _scheduleNext *)
Scheduled == IF timer = Off THEN Delay ELSE timer

(* The meter of the properties: what n grants add.  It saturates above the *)
(* level RateBound forbids.                                                *)
MeterCap == (MaxBurst + 2) * Second

Grant(n) == debt' = Lesser(MeterCap, debt + n * Second)

-----------------------------------------------------------------------------
(* acquire: take a token if nobody waits, or queue up. *)
AcquireNow(c) ==
    /\ \A i \in 1..Len(queue) : queue[i] # c
    /\ RefilledTokens >= 1 /\ queue = <<>>
    /\ tokens' = RefilledTokens - 1
    /\ elapsed' = RefilledClock
    /\ Grant(1)
    /\ UNCHANGED <<queue, timer, tries>>

(* Mutant: the caller is queued and no timer is armed. *)
AcquireQueued_NoTimer(c) ==
    /\ \A i \in 1..Len(queue) : queue[i] # c
    /\ ~(RefilledTokens >= 1 /\ queue = <<>>)
    /\ tokens' = RefilledTokens
    /\ elapsed' = RefilledClock
    /\ queue' = Append(queue, c)
    /\ UNCHANGED <<timer, tries, debt>>

AcquireQueued(c) ==
    /\ \A i \in 1..Len(queue) : queue[i] # c
    /\ ~(RefilledTokens >= 1 /\ queue = <<>>)
    /\ tokens' = RefilledTokens
    /\ elapsed' = RefilledClock
    /\ queue' = Append(queue, c)
    /\ timer' = Scheduled
    /\ UNCHANGED <<tries, debt>>

(* tryAcquire returns true: the queue is not looked at. *)
TryAcquire ==
    /\ tries < MaxTry
    /\ RefilledTokens >= 1
    /\ tokens' = RefilledTokens - 1
    /\ elapsed' = RefilledClock
    /\ Grant(1)
    /\ tries' = tries + 1
    /\ UNCHANGED <<queue, timer>>

(* getRemainingCapacity, and a tryAcquire that returns false, only refill. *)
GetRemainingCapacity ==
    /\ tokens' = RefilledTokens
    /\ elapsed' = RefilledClock
    /\ UNCHANGED <<queue, timer, tries, debt>>

(* destroy: clear the timer and reject every waiter. *)
Destroy ==
    /\ timer' = Off
    /\ queue' = <<>>
    /\ UNCHANGED <<tokens, elapsed, tries, debt>>

(* The timer callback: refill, _flush in FIFO order, reschedule. *)
TimerFires ==
    LET m == Lesser(Len(queue), RefilledTokens) IN
    /\ timer = 0
    /\ tokens' = RefilledTokens - m
    /\ elapsed' = RefilledClock
    /\ queue' = SubSeq(queue, m + 1, Len(queue))
    /\ timer' = IF m < Len(queue) /\ RefilledTokens - m < 1 THEN Delay ELSE Off
    /\ Grant(m)
    /\ UNCHANGED tries

(* The clock (external): a due timer may still be waiting for its turn. *)
Tick ==
    /\ elapsed < MaxIdle
    /\ elapsed' = elapsed + 1
    /\ timer' = IF timer > 0 THEN timer - 1 ELSE timer
    /\ debt' = IF debt > Rate THEN debt - Rate ELSE 0
    /\ UNCHANGED <<tokens, queue, tries>>

Next ==
    \/ \E c \in Callers : AcquireNow(c) \/ AcquireQueued(c)
    \/ TryAcquire \/ GetRemainingCapacity \/ Destroy \/ TimerFires \/ Tick

Spec == Init /\ [][Next]_vars

(* Time passes, and the event loop runs a callback that is due. *)
FairSpec == Spec /\ WF_vars(Tick) /\ WF_vars(TimerFires)

-----------------------------------------------------------------------------
TypeOK ==
    /\ tokens \in 0..MaxBurst
    /\ elapsed \in Nat
    /\ queue \in Seq(Callers)
    /\ timer \in {Off} \cup 0..Delay
    /\ tries \in Nat
    /\ debt \in Nat

(* Nobody is left waiting without a timer that will look at the queue,     *)
(* and no timer outlives the queue it was armed for (_scheduleNext is      *)
(* called from acquire and from the callback only).                        *)
NoLostWakeup == (queue # <<>>) <=> (timer # Off)

(* "Maximum sustained requests per second" (rate-limiter.ts:21-24): in any *)
(* window the grants exceed the sustained rate by at most maxBurst and the *)
(* one token whose time had partly passed when the window began.           *)
RateBound == debt < (MaxBurst + 1) * Second

(* A timer callback always has a token for the first waiter: Delay is long *)
(* enough for the token, however refills by other callers move the clock.  *)
(* Only tryAcquire, which passes the queue, can take it away.              *)
WakeupGrants ==
    [][TimerFires /\ tries = 0 => Len(queue') < Len(queue)]_vars

(* "Requests are granted in FIFO order so starvation is impossible"        *)
(* (rate-limiter.ts:91): every waiter leaves the queue, however destroy    *)
(* and a bounded number of tryAcquire calls interfere.  Callers that never *)
(* stop calling tryAcquire can starve a waiter.                            *)
EveryWaiterServed ==
    \A c \in Callers :
        (\E i \in 1..Len(queue) : queue[i] = c)
            ~> (\A i \in 1..Len(queue) : queue[i] # c)
=============================================================================
