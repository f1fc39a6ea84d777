SPECIFICATION FairSpec
CONSTANTS
    Tasks = {1, 2, 3}
    ModeTasks = {3}
    UnknownNames = {4}
    Catalogs <- AnyCatalogs
    NoSelection = NoSelection
INVARIANTS FindsAllDependencies DependenciesFirst ExitZeroIsComplete StopLeavesTheRest
PROPERTY EveryRunEnds
CHECK_DEADLOCK FALSE
