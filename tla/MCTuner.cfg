CONSTANTS
    Rtts = {20, 200}
    Unknown = Unknown
    Times = {0, 1, 2}
    Roams = FALSE
    BufMin = 16
    BufMax = 128
    Align = 4
    IdleBuf = 32
    RestMin = 4
    Word = 160
    Unit = 2
SPECIFICATION FairSpec
INVARIANTS
    TypeOK
    RatioIsProportion
PROPERTIES
    FreshSample
    DaemonContract
    StopReturns
    CakeFollowsRtt
