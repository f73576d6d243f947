SPECIFICATION MCSpec
CONSTANTS
    Calls = {c1}
    Threads = {t1, t2}
    MaxEvents = 2
    Faults = {"break", "cancel", "fail", "stop"}
INVARIANTS
    UnaryOutlivesItsTags
    EventsInOrder
    OneAlarmAtATime
    OneThreadStrandsNone
PROPERTIES
    OneThreadImplementsChannel
    ClientResolves
    StopCompletes
CHECK_DEADLOCK FALSE
