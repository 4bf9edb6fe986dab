CONSTANTS
    n1 = n1
    n2 = n2
    a1 = a1
    a2 = a2
    a3 = a3
    t1 = t1
    t2 = t2
    t3 = t3
    t4 = t4
    b1 = b1
    b2 = b2
    Kettle = {n1, n2}
    Account = {a1, a2, a3}
    Holder <- MCHolder
    Tx = {t1, t2, t3, t4}
    Signed = {t1, t2, t4}
    ExecutionNode <- MCExecutionNode
    BidId = {b1, b2}
    Creates <- MCCreates
    Writes <- MCWrites
    UserStores <- MCUserStores
    Imported = {a1, a2}
    Subscribed = {n1}
    ChanSize = 1
    Faults = TRUE
    Persistent = {n1}
    MaxRestarts = 1
    None = None
SPECIFICATION LossSpec
INVARIANTS
    TypeOK
    Provenance
    HomeIsCurrent
PROPERTIES
    Delivered
CHECK_DEADLOCK FALSE
