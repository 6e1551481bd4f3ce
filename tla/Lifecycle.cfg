CONSTANTS
    Procs = {p1}
    NumKeys = 2
    Configured = {1}
    DaemonKeys = {1}
    Links = {"none", "wired", "wifi"}
    Serialized = TRUE
    DiskFull = FALSE
SPECIFICATION Spec
INVARIANTS
    TypeOK
    StopNeverRefused
    BaselinePristine
    TuningIsRecoverable
    NoReturnAfterRevert
    RevertRestores
    TierRulesHaveGroups
    CleanLeavesNothing
    IInv
PROPERTY BaselineContract
