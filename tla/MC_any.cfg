SPECIFICATION MCAnySpec
CONSTANTS
    Processes = {1, 2}
    Tasks = {1, 2}
    ProcessOf <- SmallProcessOf
    Phases = {1, 2}
    PhaseIds = {1, 2, 3}
    PhaseOf <- SmallPhaseOf
    PhaseDeps <- SmallPhaseDeps
    Duration <- SmallOnes
    Priority <- SmallZeros
    Demand <- SmallDemand
    ReleaseTime <- SmallZeros
    Deadline <- None
    LatestStart <- None
    Preemptible = {}
    Deps <- SmallDeps
    Mutex <- SmallNoTasks
    Allowed <- SmallAllowed
    Preferred <- SmallPreferred
    Distances <- SmallDistances
    Actors = {1, 2}
    Marker = 9
    Capacity <- SmallCapacity
    ExecutionCost <- SmallCost
    Windows <- SmallWindows
    Strategies = {"edf"}
    Profiles <- DefaultProfiles
    MaxTime = 1
    MaxCalls = 4
    InitialLoads = {0, 1}
INVARIANTS
    TypeOK
    FsmAgreement
    InFlightExclusive
    LoadAccounts
PROPERTIES
    NoDispatchToUnavailable
    DispatchesAfterPhases
CHECK_DEADLOCK FALSE
