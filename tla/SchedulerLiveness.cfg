CONSTANTS
    Pids = {p1, p2}
    Desktops = {d1, d2}
    Compositors = {d1}
    Nobody = Nobody
    Curve <- ShortCurve
    Elapse = {1}
    HistorySize = 0
    Window = 1
    Dwell = 1
    RescanEvery = 1
    PruneEvery = 1
    RetryEvery = 1
    MissingFocus = 2
    Cycle = 2
    AudioAvailable = FALSE
    Lingers = TRUE
    Mortal = {p2}
    Crashes = FALSE
SPECIFICATION FairSpec
PROPERTIES
    NeglectedGoesCold
    SessionPickedUp
