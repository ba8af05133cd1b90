CONSTANTS
    NumConns = 2
    MaxChunks <- MCTwoUp
    Dests <- MCDests
    Unset = Unset
    Intended <- MCIntended
SPECIFICATION Spec
INVARIANTS LiveStreamsStayOpen LeakNeedsFault FlowRows
PROPERTIES RelaySpec
CHECK_DEADLOCK FALSE
