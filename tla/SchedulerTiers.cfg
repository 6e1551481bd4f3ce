CONSTANTS
    Pids = {p1, p2}
    Desktops = {d1}
    Compositors = {}
    Nobody = Nobody
    Curve <- MCCurve
    Elapse = {4}
    HistorySize = 4
    Window = 1
    Dwell = 2
    RescanEvery = 2
    PruneEvery = 2
    RetryEvery = 2
    MissingFocus = 0
    Cycle = 2
    AudioAvailable = TRUE
    Lingers = FALSE
    Mortal = {}
    Crashes = TRUE
SPECIFICATION Spec
INVARIANTS
    TypeOK
    GroupMatchesTier
    ForgottenEverywhere
    UserIsHot
PROPERTIES
    DwellsInGroup
    HotByFocusOnly
SYMMETRY Symmetry
