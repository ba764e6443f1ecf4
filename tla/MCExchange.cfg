SPECIFICATION ExchangeSpec
CONSTANTS
    create = create
    decrease = decrease
    cancel = cancel
    read = read
    r1 = r1
    Requests = {r1}
    Endpoints = {create, decrease, cancel, read}
    Effect <- OneOfEach
    LenientHeader = {decrease, read}
    MaxRetries = 5
    k1 = k1
    k2 = k2
    k3 = k3
    e1 = e1
    e2 = e2
    None = None
    NoFile = NoFile
    Listing <- ScanListing
    EventOf <- ScanEventOf
    Category <- ScanCategory
    ClassOf <- ScanClassOf
    Boards <- ScanBoards
    Changes <- ScanChanges
    Histories <- ScanHistories
    Correlated <- ScanCorrelated
    Books <- ScanBooks
    Ladders <- ScanLadders
    Scans <- ScanCommands
    PageSize = 2
    MaxCandidates = 2
    HistoryLimit = 3
    MaxHour = 1
    MaxMoves = 1
    CommandLines <- RecorderCommands
    Credentials = {"demo", "prod"}
    Tracked <- TrackedFiles
    Combos = 2
    LiveTypes = 2
    Required = {"a", "b"}
    Optional = {"c"}
    AliasOf <- ModelAliases
    SentNow = {"A", "b"}
    SentLater = {"A", "b", "c", "d"}
    FreshDays = 0
    MaxDay = 1
    MaxScripts = 2
INVARIANTS
    RepeatsHarmless
    OutcomeIsTrue
    SizingSound
    
    
    
PROPERTIES
    ImplementsSubmission
    WritesAsked
CHECK_DEADLOCK FALSE
