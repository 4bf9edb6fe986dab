CONSTANTS
    Request = {r1, r2}
    Backends = {"local", "redis", "pebble"}
    ChanSize = 2
SPECIFICATION FairSpec
INVARIANTS
    ClosedIsStopped
PROPERTIES
    StopsInReverse
    
    LoopsReturn
CHECK_DEADLOCK FALSE
