\* Two rules and a template; two runs of the wizard; two keys and five calls.
SPECIFICATION ConsoleSpec
CONSTANTS
    Matches <- TwoMatches
    Names = {"audience-segment", "template"}
    SizeOf <- TheirSizes
    VariantLists <- Tables
    Trim <- Trims
    MaxRuns = 2
    Keys = {"banner", "offer"}
    MaxCalls = 5
INVARIANTS
    SettledShowsCurrent
    OneEstimateAwaited
    LaunchesAreTrue
    RowsAreTrue
