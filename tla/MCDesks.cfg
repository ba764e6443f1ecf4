SPECIFICATION DesksSpec
CONSTANTS
    r1 = r1
    r2 = r2
    u1 = u1
    u2 = u2
    m1 = m1
    m2 = m2
    k1 = k1
    Null = Null
    Procs = {r1, r2}
    Modes <- DeskModes
    Limits = {4}
    Estimate <- DeskEstimate
    Charges = {0, 3}
    Ttl = 0
    MaxTime = 1
    StartTheses <- DeskTheses
    Typed <- DeskTyped
    MaxCommands = 2
    Users = {u1, u2}
    Monitors = {m1, m2}
    Conditions <- WatchedConditions
    StartAlerts <- FirstAlerts
    Markets = {k1}
    Quotes <- SeenQuotes
    TypedIds <- AlertTyped
    KeepLines = 1
    TrimAbove = 2
    MaxPasses = 3
    MaxTasks = 2
SYMMETRY Users2
INVARIANTS
    
    CacheSound
    MonitorTellsAll
    OneDaemon
PROPERTIES
    FilesKept
CHECK_DEADLOCK FALSE
