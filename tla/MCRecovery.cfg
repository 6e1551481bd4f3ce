CONSTANTS
    Procs = {p1}
    NumKeys = 1
    Configured = {}
    DaemonKeys = {1}
    Links = {"wifi"}
    Serialized = TRUE
    DiskFull = FALSE
SPECIFICATION RecoverySpec
PROPERTY EventuallyGivenBack
