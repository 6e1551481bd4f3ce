CONSTANT Cut = FALSE
SPECIFICATION Spec
INVARIANTS
    TypeOK
    CoalescingRestored
    QdiscRestored
    PowerSaveRestored
