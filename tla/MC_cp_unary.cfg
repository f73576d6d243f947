SPECIFICATION FairSpec
CONSTANTS
    Handlers = {h1}
    Main = main
    t1 = t1  t2 = t2
    k1 = k1  k2 = k2
    NoKey = NoKey  AnyVersion = AnyVersion  NoRecord = NoRecord  NoSession = NoSession
    Tasks <- TwoTasks
    Requests <- ClientRequests
    Starts <- KeepingStarts
    Streaming = FALSE
    MaxCalls = 4
    MaxCrashes = 0
PROPERTIES HistoryAppendOnly PlanCoversOutstanding PlanningEnds
