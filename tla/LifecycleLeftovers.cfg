CONSTANTS
    Procs = {p1}
    NumKeys = 2
    Configured = {}
    DaemonKeys = {1}
    Links = {"wifi"}
    Serialized = TRUE
    DiskFull = FALSE
SPECIFICATION UncutSpec
INVARIANTS
    BaselinePristine
    RevertRestores
    CleanGivesBack
