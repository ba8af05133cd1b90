CONSTANTS
    Conns = {c1}
    Texts = {"as is", "edited", "empty"}
    MaxMsgs = 1
    MaxSends = 1
    MaxToggles = 3
    NoEvent = NoEvent
SPECIFICATION FairSpec
INVARIANTS SetDebugReachesAll
PROPERTIES AutoSendReleases
CHECK_DEADLOCK FALSE
