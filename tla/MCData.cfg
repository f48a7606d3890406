\* The edge: two requests a second, three ticks to the second, so that refills do
\* not add up to a token.  A log that is full takes no more: the funnel, the
\* attribution and the shadow report stop there.
SPECIFICATION DataSpec
CONSTANTS
    Keys = {"k1", "k2"}
    Rate = 2
    Unit = 3
    MaxClock = 5
    MaxGrants = 4
    Nothing = Nothing
    d1 = d1
    Ids = {1, 2, 3, 4}
    Phones = {1}
    Devices = {d1}
    Threads = {"t1", "t2"}
    Requests <- Asks
    Null = Nothing
    NoneId = 2
    Batches <- RawBatches
    UserRows <- RawUsers
    LabelTables <- Derived
    Absent = Nothing
    Now = 40
    MaxLatency = 24
    MaxPasses = 2
    Customers = {"w1", "w2", "w3", ""}
    Targets <- Filtered
    NoCustomer = ""
    Users = {1, 2, 3}
    Position <- Places
    Scale = 4
    Lists <- Fired
    Days = 2
    MaxFires = 2
    MaxSent = 7
    Events <- Payments
    PerDay = 20000
    WindowDays = 1
    Instants <- HalfDays
    MaxEvents = 5
    Margins = {0, 1, 2, 3}
    ViaRoute = FALSE
    Footprints <- FunnelEvents
    Touches <- Touched
    Funnels <- Steps
    Windows <- WithinDays
    Conversion = "Remit"
    Hours = 2
    MaxRecords = 4
    Values = {0, 1, 2, 5}
    Thresholds = {1, 2}
    MaxPeriods = 6
CHECK_DEADLOCK FALSE
INVARIANTS
    RateBound
    WalksStayInside
    IngestionIsExact
    NeverKeepsConverted
    ReconcileIsExact
    VerdictIsFair
    JourneysAreCounted
    ReportsAreCoherent
    InsightsStandOut
PROPERTIES
    IdentityIsKept
    LateNewsIsHarmless
    ResolvesReturn
