\* Two callers share two endpoints, their breakers and the pool.
CONSTANTS
    Calls = {c1, c2}
    Size = 2
    MaxRetries = 1
    PoolThreshold = 2
    PoolRecovery = 2
    BreakerThreshold = 2
    BreakerCooldown = 2
    Limited = TRUE
    HasDeadline = TRUE
SPECIFICATION Spec
INVARIANTS
    NoStuckProbe
    OpenIffTripped
    UndisturbedCallServed
