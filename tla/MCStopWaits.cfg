CONSTANTS
    Request = {r1}
    Backends = {"pebble"}
    ChanSize = 1
SPECIFICATION Spec
INVARIANTS
    StopWaits
CHECK_DEADLOCK FALSE
