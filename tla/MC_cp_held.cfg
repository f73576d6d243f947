SPECIFICATION Spec
CONSTANTS
    Handlers = {h1, h2}
    Main = main
    t1 = t1  t2 = t2
    k1 = k1  k2 = k2
    NoKey = NoKey  AnyVersion = AnyVersion  NoRecord = NoRecord  NoSession = NoSession
    Tasks <- TwoTasks
    Requests <- HoldingRequests
    Starts <- KeepingStarts
    Streaming = FALSE
    MaxCalls = 4
    MaxCrashes = 0
PROPERTIES HeldIsRefused
