SPECIFICATION Spec
CONSTANTS
    LargeTime = 50
    PriorityBound = 3000
    Requests <- MCRequests
    Builds <- MCBuilds
INVARIANTS
    RowsAreTheSchedules
    ExactPlanIsASchedule
    ExactIsBest
    OptimumFulfilsMost
    SearchIsBounded
