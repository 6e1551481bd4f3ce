CONSTANTS
    NumQueues = 2
    NumIrqs = 2
    NumCpus = 2
    ApplyCut = FALSE
SPECIFICATION Spec
INVARIANTS
    TypeOK
    MasksRestored
    AffinityRestored
    BalancerRestored
