\* Two callers, a rate that divides the second, late timers and destroy.
CONSTANTS
    Callers = {a, b}
    Rate = 2
    Second = 6
    MaxBurst = 2
    MaxTry = 2
    MaxIdle = 12
SPECIFICATION FairSpec
INVARIANTS
    NoLostWakeup
    RateBound
PROPERTIES
    WakeupGrants
    EveryWaiterServed
