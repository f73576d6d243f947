SPECIFICATION FairSpec
CONSTANTS
    Processes = {1, 2, 3}
    Tasks = {1, 2, 3}
    ProcessOf <- TightProcessOf
    Phases = {1, 2}
    PhaseIds = {1, 2}
    PhaseOf <- TightPhaseOf
    PhaseDeps <- SmallPhaseDeps
    Duration <- TightOnes
    Priority <- TightZeros
    Demand <- TightOnes
    ReleaseTime <- TightZeros
    Deadline <- None
    LatestStart <- None
    Preemptible = {}
    Deps <- TightNoTasks
    Mutex <- TightNoTasks
    Allowed <- TightAllowed
    Preferred <- TightNoTasks
    Distances <- TightDistances
    Actors = {1, 2}
    Marker = 9
    Capacity <- TightCapacity
    ExecutionCost <- SmallCost
    Windows <- SmallWindows
    Strategies = {"fifo"}
    Profiles <- DefaultProfiles
    MaxTime = 2
    InitialLoads = {0}
    MaxFailures = 2
INVARIANTS
    CapacityRespected
PROPERTIES
    WorkflowCompletes
CHECK_DEADLOCK FALSE
