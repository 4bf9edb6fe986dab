CONSTANTS
    x1 = x1
    x2 = x2
    x3 = x3
    x4 = x4
    x5 = x5
    x6 = x6
    u1 = u1
    s1 = s1
    m1 = m1
    u2 = u2
    u3 = u3
    d1 = d1
    f1 = f1
    g1 = g1
    g2 = g2
    g3 = g3
    g4 = g4
    g5 = g5
    g6 = g6
    c1 = c1
    Tx = {x1, x2, x3, x4, x5, x6}
    Gas <- MCGas
    Limit <- MCLimit
    Tip <- MCTip
    Invalid = {x6}
    GasLimit = 30
    BaseFee = 1
    BidId = {u1, s1, m1, u2, u3, d1, f1, g1, g2, g3, g4, g5, g6}
    version <- MCversion
    mergedBids <- MCmergedBids
    matchedBids <- MCmatchedBids
    ethBundles <- MCethBundles
    None = None
    Caller = {c1, c2, c3}
    Asks <- MCAsks
SYMMETRY Symmetry
SPECIFICATION Spec
INVARIANTS
    TypeOK
    PublishedIsOpen
    DropsFailed
    PanicNeedsFailure
    LeakNeedsOverlap
    BlockIsWhole
    
    
CHECK_DEADLOCK FALSE
