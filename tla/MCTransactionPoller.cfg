\* No attempt, one attempt, and more than the consecutive errors allowed.
CONSTANT
    AttemptLimits = {0, 1, 4}
SPECIFICATION FairSpec
\* A poll that has resolved is over.
CHECK_DEADLOCK FALSE
PROPERTIES
    ImplementsContract
    EveryPollEnds
