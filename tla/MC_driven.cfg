SPECIFICATION MCDrivenSpec
CONSTANTS
    Processes = {1, 2, 3, 5}
    Tasks = {1, 2, 3, 4, 5}
    ProcessOf <- WideProcessOf
    Phases = {1, 2}
    PhaseIds = {1, 2}
    PhaseOf <- WidePhaseOf
    PhaseDeps <- RichPhaseDeps
    Duration <- WideDuration
    Priority <- WidePriority
    Demand <- WideDemand
    ReleaseTime <- WideRelease
    Deadline <- RichDeadline
    LatestStart <- RichLatest
    Preemptible = {}
    Deps <- WideDeps
    Mutex <- WideMutex
    Allowed <- WideAllowed
    Preferred <- WidePreferred
    Distances <- WideDistances
    Actors = {1, 2}
    Marker = 9
    Capacity <- RichCapacity
    ExecutionCost <- RichCost
    Windows <- RichWindows
    Strategies = {"edf", "sjf"}
    Profiles <- AllProfiles
    MaxTime = 3
    MaxCalls = 5
    InitialLoads = {0}
INVARIANTS
    MutualExclusion
    InFlightInOrder
    PlanWithinCapacity
    PlanRespectsDependencies
CHECK_DEADLOCK FALSE
