CONSTANTS
    NumConns = 2
    MaxChunks <- MCNone
    Dests <- MCDests
    Unset = Unset
    Intended <- MCSame
SPECIFICATION FairSpec
PROPERTIES FailedSetupCleaned PumpsEnd
CHECK_DEADLOCK FALSE
