CONSTANTS
    NumQueues = 1
    NumIrqs = 1
    NumCpus = 2
    ApplyCut = FALSE
SPECIFICATION Spec
INVARIANT AffinityAsBefore
