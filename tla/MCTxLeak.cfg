CONSTANTS
    Peer = {p1, p2}
    Hash = {h1}
    MaxTxAnnounces = 2
    MaxTxRetrievals = 1
    None = None
SPECIFICATION Spec
INVARIANTS
    NoLeak
