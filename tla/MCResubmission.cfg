\* All seven loops, two attempts each, every RPC dispatched up to twice.
CONSTANTS
    Calls = {0, 1}
    Networks = {n1}
    NoNet = NoNet
    SignerKinds = {"keypair"}
    SwitchPolicy = "idle"
    MaxDispatch = 2
    MaxSeq = 2
    Strategies = {"swap", "once", "flashLoan", "liquidity", "limitOrder", "stake", "unstake"}
    MaxRetries = 1
SPECIFICATION RFairSpec
\* The operation ends, and the client may rest.
CHECK_DEADLOCK FALSE

    
    
PROPERTY
    OperationEnds
