CONSTANTS
    p1 = p1
    p2 = p2
    Procs <- TwoTerminals
    NumKeys = 1
    Configured = {}
    DaemonKeys = {1}
    Links = {"wifi"}
    Serialized = FALSE
    DiskFull = FALSE
SPECIFICATION RaceSpec
INVARIANT StopNeverRefused
