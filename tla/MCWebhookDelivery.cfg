\* One delivery and two retries by hand.
CONSTANTS
    Deliveries = {d1}
    Retries = {r1, r2}
    MaxRetry = 2
SPECIFICATION FairSpec
\* Every call may have ended and the application may make no other.
CHECK_DEADLOCK FALSE
INVARIANTS
    HealthAccurate
    DeletedStaysDeleted
    OutcomeIsTrue
PROPERTIES
    NotSentOnceAcked
    EveryCallEnds
