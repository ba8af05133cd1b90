CONSTANTS
    Clients = {v1, v2}
    Ports = {p1, p2}
    None = None
    MaxFailTicks = 3
    MaxDatagrams = 3
    MaxReplies = 3
SPECIFICATION FairSpec
INVARIANTS TypeOK OneSessionPerClient SessionServed LookupFindsOwnSession WaitsBeforeGivingUp
PROPERTIES SessionExpires
CHECK_DEADLOCK FALSE
