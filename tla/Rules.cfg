CONSTANTS
    Threads <- MCThreads
    Udp = "udp"
    Patterns = {"x"}
    RuleSets <- MCRuleSets
    MaxRules = 2
    MaxChunks = 1
    MaxUpdates = 2
    NoData = NoData
    NoRules = NoRules
SPECIFICATION Spec
INVARIANTS ChainActs LoneMuckOwnData LoneFuzzRecorded DebugRuleHeeded UpdateReachesAll DiesInTwoWays
CHECK_DEADLOCK FALSE
