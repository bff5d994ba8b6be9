SPECIFICATION Spec
CONSTANTS
    Pumps = {"pumpA", "pumpB"}
    MaxCases = 2
    MaxHits = 4
    kPostCeiling = 7
    kMinCredible = 4
    Radix = 3
    Largest = 15
    Words <- SmallWords
    Incidental = 2
    Limits <- SmallLimits
    Figures <- SmallFigures
    MaxBase = 1
    MaxStrays = 1
    kPostures = 2
    nCount = 4
    g_nWindow = 2
    nTotal = 5
    nConc = 2
    kHeadStart = 3
    kServerWait = 30
    kClientWait = 20
    kFlush = 3
    kJoin = 6
    kReap = 30
    kTimeout = 120
    kDelay = 1
INVARIANTS
    TypeOK
    NoFalseGreen
    SummaryIsSafe
    PassIsTruth
    NoneEnforcesMore
    TrueAtTheEdges
    OkIsComplete
    WindowHolds
    OnlyLossStalls
    PassMeansCrossed
    WhoPostsIsHeard
    KillSparesSuccess
    BatchesDoNotMeet
PROPERTIES
    MainReturns
