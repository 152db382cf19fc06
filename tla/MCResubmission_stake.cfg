\* Is a stake that landed ever staked again?
CONSTANTS
    Calls = {0, 1}
    Networks = {n1}
    NoNet = NoNet
    SignerKinds = {"keypair"}
    SwitchPolicy = "idle"
    MaxDispatch = 1
    MaxSeq = 2
    Strategies = {"stake"}
    MaxRetries = 1
SPECIFICATION RSpec
\* The operation ends, and the client may rest.
CHECK_DEADLOCK FALSE
PROPERTY
    StakedOnce
