SPECIFICATION FairSpec
CONSTANTS
    unit = unit
    hand = hand
    ports = ports
    profile = profile
    Runs <- BothRuns
    Unit = unit
    Modules <- TwoModules
    Absences <- AllOrNoProfile
    Threshold = 60
    Window = 2
    Multiplier = 2
    MaxVersion = 2
    FaultKinds <- AllKinds
    MaxFaults = 1
INVARIANTS
    CommittedIsWhole
PROPERTIES
    ReportsNeverGoBack
    OnlyExceptionsLoseARun
    FactsReachTheQueue
