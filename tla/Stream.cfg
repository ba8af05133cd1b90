CONSTANTS
    Conns = {c1}
    Texts = {"as is", "empty"}
    MaxMsgs = 2
    MaxSends = 1
    MaxToggles = 2
    NoEvent = NoEvent
SPECIFICATION Spec
INVARIANTS TypeOK OwnBytes HeldUntilReturned
PROPERTIES RelaySpec
CHECK_DEADLOCK FALSE
