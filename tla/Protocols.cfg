CONSTANTS
    Protos = {"http", "ssl"}
    Plain = "tcp"
    Wrappers = {"ssl"}
    Unknown = "nothing"
    Ports = {80, 443}
    NoPort = 0
    Files <- MCFiles
    CmdLine <- MCNone
    MaxLoads = 2
SPECIFICATION Spec
INVARIANTS ChosenFits WrapsFit
PROPERTIES UdpListFixed
CHECK_DEADLOCK FALSE
