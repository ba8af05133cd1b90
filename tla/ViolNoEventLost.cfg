CONSTANTS
    Conns = {c1}
    Texts = {"as is"}
    MaxMsgs = 1
    MaxSends = 1
    MaxToggles = 1
    NoEvent = NoEvent
SPECIFICATION Spec
INVARIANTS NoEventLost
CHECK_DEADLOCK FALSE
