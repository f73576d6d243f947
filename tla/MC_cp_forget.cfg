SPECIFICATION Spec
CONSTANTS
    Handlers = {h1}
    Main = main
    t1 = t1  t2 = t2
    k1 = k1  k2 = k2
    NoKey = NoKey  AnyVersion = AnyVersion  NoRecord = NoRecord  NoSession = NoSession
    Tasks <- TwoTasks
    Requests <- ForgettingRequests
    Starts <- RecoveringStart
    Streaming = FALSE
    MaxCalls = 3
    MaxCrashes = 1
PROPERTIES CompletedNotPlanned
