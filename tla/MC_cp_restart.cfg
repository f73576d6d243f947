SPECIFICATION Spec
CONSTANTS
    Handlers = {h1}
    Main = main
    t1 = t1  t2 = t2
    k1 = k1  k2 = k2
    NoKey = NoKey  AnyVersion = AnyVersion  NoRecord = NoRecord  NoSession = NoSession
    Tasks <- TwoTasks
    Requests <- RetriedRequests
    Starts <- KeepingStarts
    Streaming = TRUE
    MaxCalls = 3
    MaxCrashes = 2
INVARIANTS OnePlanPerKey SessionFound
PROPERTIES VersionTokenHonoured
