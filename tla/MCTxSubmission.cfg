\* Two submissions, two networks switched between them, every kind of signer.
CONSTANTS
    Calls = {c1, c2}
    Networks = {n1, n2}
    NoNet = NoNet
    SignerKinds = {"keypair", "bound", "none"}
    SwitchPolicy = "idle"
    MaxDispatch = 2
    MaxSeq = 1
SPECIFICATION FairSpec
\* Once both submissions have settled the client may rest.
CHECK_DEADLOCK FALSE
INVARIANTS
    FreshAfterConclusive
    
    LandsWhereBuilt
PROPERTY
    EverySubmissionSettles
