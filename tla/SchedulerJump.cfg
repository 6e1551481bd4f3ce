CONSTANTS
    Pids = {p1, p2}
    Desktops = {d1}
    Compositors = {}
    Nobody = Nobody
    Curve <- MCCurve
    Elapse = {0, 1}
    HistorySize = 0
    Window = 1
    Dwell = 3
    RescanEvery = 2
    PruneEvery = 2
    RetryEvery = 2
    MissingFocus = 0
    Cycle = 2
    AudioAvailable = FALSE
    Lingers = FALSE
    Mortal = {}
    Crashes = FALSE
SPECIFICATION Spec
PROPERTY LosesGradually
