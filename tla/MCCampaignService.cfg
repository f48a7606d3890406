SPECIFICATION FairServiceSpec
CONSTANTS
    Users <- MCUsers
    Campaigns <- MCCampaigns
    Days = {1}
    Variants = {0, 1, 2}
    Callers = {t1, t2}
    OptOut <- MCOptOut
    Profile <- MCProfile
    Adapters <- AllAdapters
    Refused = {}
    Limited = FALSE
    Capacity = 0
    NoRequest = NoRequest
    Scale = 4
    Definition <- MCDefinition
    Frac <- MCFrac
    FiredSets = {}
    DailyCap = 1
    MaxRuns = 2
    NoRun = NoRun
    Today = 1
    Batches <- MCBatches
    MaxBatches = 1
    NoBatch = NoBatch
INVARIANTS
    AnswersBackedByLog
PROPERTIES
    RequestsReturn
\* The bounded behaviours end: every run and batch allowed has been served.
CHECK_DEADLOCK FALSE
