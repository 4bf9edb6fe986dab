CONSTANTS
    Peer = {p1, p2}
    Hash = {h1, h2}
    MaxTxAnnounces = 2
    MaxTxRetrievals = 1
    None = None
SPECIFICATION FairSpec
INVARIANTS
    TypeOK
    OneStage
    NoPanic
    FetchingIsRequested
    SlotsAreTracked
PROPERTIES
    MovesOn
