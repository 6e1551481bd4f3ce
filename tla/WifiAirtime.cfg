CONSTANTS
    NumCategories = 3
    SaveCut = FALSE
SPECIFICATION Spec
INVARIANTS
    TypeOK
    LimitsRestored
PROPERTY BaselineContract
