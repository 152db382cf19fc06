\* A network switch between two submissions, and the cached poller.
CONSTANTS
    Calls = {c1, c2}
    Networks = {n1, n2}
    NoNet = NoNet
    SignerKinds = {"keypair"}
    SwitchPolicy = "idle"
    MaxDispatch = 1
    MaxSeq = 2
SPECIFICATION Spec
\* Once both submissions have settled the client may rest.
CHECK_DEADLOCK FALSE
PROPERTY
    NotConfirmedIsTrue
