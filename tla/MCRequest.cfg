CONSTANTS
    b1 = b1
    b2 = b2
    c1 = c1
    i1 = i1
    t1 = t1
    MaxDeep = 4
    MaxFlat = 2
    BidId = {b1, b2}
    Key = {k1}
    Value = {v1}
    Tx = {t1, t2}
    Signed = {t1}
    IndexKeys = {i1}
    IndexKey <- MCIndexKey
    Address = {c1, c2, confStore, confRetrieve, newBid}
    Precompile = {confStore, confRetrieve, newBid}
    confStoreAddress = confStore
    confRetrieveAddress = confRetrieve
    newBidAddress = newBid
    CallCreateDepth = 3
    MaxCalls <- MCMaxCalls
    Arrays = {0, 1, 2, 3, 4}
    AllowedPeekerAny = Any
    AllowedPeekers <- MCAllowedPeekers
    MaxWrites = 1
    None = None
SPECIFICATION FairRequestSpec
INVARIANTS
    ErrorLeavesNothing
    PooledIsComplete
    StackIsPath
PROPERTIES
    InnermostPeeker
    RefinesTransactionalStore
    
CHECK_DEADLOCK FALSE
