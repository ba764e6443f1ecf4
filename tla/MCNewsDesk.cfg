SPECIFICATION Spec
CONSTANTS
    p1 = p1
    p2 = p2
    m1 = m1
    m2 = m2
    e1 = e1
    e2 = e2
    u1 = u1
    u2 = u2
    Null = Null
    Procs = {p1, p2}
    Markets = {m1, m2}
    Events = {e1, e2}
    EventOf <- MCEventOf
    Multivariate = {e2}
    Urls = {u1, u2}
    Starts <- MCStarts
    MaxTime = 1
    StartListing <- MCStartListing
    Sparse = {e1, m2}
    Watched = {m1, e1}
    SyncOptions <- MCSyncOptions
    MaxCommands = 2
SYMMETRY MCSymmetry
INVARIANTS
    NewsWhole
    IntegrityErrorsNeedOverlap
PROPERTIES
    CatalogueNeverForgets
    PruneExact
    ExportsAgree
CHECK_DEADLOCK FALSE
