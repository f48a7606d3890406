SPECIFICATION Spec
CONSTANTS
    Users <- MCUsers
    Campaigns <- MCCampaigns
    Days = {1}
    Variants = {1, 2}
    Callers = {t1, t2}
    OptOut <- MCOptOut
    Profile <- MCProfile
    Adapters <- NoInApp
    Refused = {}
    Limited = TRUE
    Capacity = 2
    NoRequest = NoRequest
    Scale = 4
    Definition <- MCDefinition
    Frac <- MCFrac
    FiredSets <- MCFiredSets
    DailyCap = 2
    MaxRuns = 4
    NoRun = NoRun
INVARIANTS
    TypeOK
    Accounting
    ShortfallIsCounted
    ArmsAreClean
    DailyCapOvershoot
    RerunOvershoot
    WindowOvershoot
PROPERTIES
    KeepsDayBudget
    KeepsCampaignBudget
SYMMETRY ThreadSymmetry
