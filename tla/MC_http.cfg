SPECIFICATION Spec
CONSTANTS
    c1 = c1
    c2 = c2
    c3 = c3
    Threads <- MCThreads
    EncodeURIComponent <- MCEncode
    Scripts <- MCScripts
    Workflows = {"w1", "w2", "w 3"}
    Tasks = {"t1", "t2"}
    Submitted = {"t1"}
    Original = {"t2"}
    Listed = "w1"
    Stored = {"w1", "w2"}
    Retained = 2
    NoRecord = NoRecord
    NotSent = NotSent
CHECK_DEADLOCK FALSE
INVARIANTS
    TypeOK
    CaughtUpIsFresh
    QuietRecordIsExact
    SocketsOutliveTheirPointers
PROPERTIES
    ShutdownCompletes
    RequestResolves
    StreamCatchesUp
