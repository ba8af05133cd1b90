CONSTANTS
    NumConns = 3
    Ssh = {2, 3}
    MaxChunks <- MCChunks
SPECIFICATION Spec
INVARIANTS
    AuthFindsTransport
    HijackedAsShown
PROPERTY RelaySpec
CHECK_DEADLOCK FALSE
