\* Three deliveries and two handshakes against two updates.
CONSTANTS
    Sends = {s1, s2, s3}
    Checks = {v1, v2}
    Urls = {u1, u2}
    MaxRetries = 1
    Threshold = 2
    HistoryCapacity = 2
    MaxUpdates = 2
SPECIFICATION Spec
SYMMETRY CallSymmetry
\* Every call may have ended and the application may make no other.
CHECK_DEADLOCK FALSE
INVARIANTS
    VerifiedIsEarned
PROPERTIES
    AutoDisableEarned
    ManualHolds
