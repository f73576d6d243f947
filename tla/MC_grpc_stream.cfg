SPECIFICATION Spec
CONSTANTS
    Calls = {c1}
    Threads = {t1}
    MaxEvents = 2
    Faults = {}
INVARIANTS
    StreamEndsWithResponse
CHECK_DEADLOCK FALSE
