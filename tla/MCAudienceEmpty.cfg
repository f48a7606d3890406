\* An estimate that is overtaken by the removal of the last rule.
SPECIFICATION ConsoleSpec
CONSTANTS
    Matches <- TwoMatches
    Names = {"audience-segment", "template"}
    SizeOf <- TheirSizes
    VariantLists <- Tables
    Trim <- Trims
    MaxRuns = 2
    Keys = {"banner", "offer"}
    MaxCalls = 5
INVARIANTS
    EmptyIsNotEstimated
