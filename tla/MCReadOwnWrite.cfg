CONSTANTS
    b1 = b1
    b2 = b2
    c1 = c1
    c2 = c2
    i1 = i1
    BidId = {b1, b2}
    Key = {k1}
    Value = {v1, v2}
    Tx = {t1, t2}
    Signed = {t1}
    IndexKeys = {i1}
    IndexKey <- MCIndexKey
    Address = {c1, c2}
    AllowedPeekerAny = Any
    AllowedPeekers <- MCAllowedPeekers
    MaxWrites = 2
    None = None
SPECIFICATION Spec
INVARIANT
    ReadsOwnLatestWrite
CHECK_DEADLOCK FALSE
