CONSTANTS
    b1 = b1
    b2 = b2
    b3 = b3
    c1 = c1
    c2 = c2
    c3 = c3
    i1 = i1
    i2 = i2
    BidId = {b1, b2, b3}
    Key = {k1}
    Value = {v1}
    Tx = {c1, c2, c3}
    IndexKeys = {i1, i2}
    IndexKey <- MCIndexKey
    None = None
    Receivers = {c3}
    Program <- MCProgram
    Backends = {FALSE}
    Errors = FALSE
    Crashes = FALSE
SPECIFICATION KVSpec
INVARIANTS
    InitializedIsListed
CHECK_DEADLOCK FALSE
