CONSTANTS
    NumRuns = 2
    NumConns = 2
    Limit <- MCLimit
    NoFile = NoFile
SPECIFICATION FairSpec
INVARIANTS FuzzExplained
PROPERTIES LogSpec OrphansJoinedNextCommit FilesKept CatchesUp
CHECK_DEADLOCK FALSE
