CONSTANTS
    Peer = {p1}
    Hash = {h1, h2, h3, h4, h5}
    MaxTxAnnounces = 3
    MaxTxRetrievals = 2
    None = None
SPECIFICATION Spec
INVARIANTS
    WithinCap
