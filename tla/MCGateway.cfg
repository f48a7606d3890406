SPECIFICATION GatewaySpec
CONSTANTS
    Users <- MCUsers
    Campaigns = {camp}
    Days = {1}
    Variants = {1}
    Callers = {t1, t2}
    OptOut <- MCOptOut
    Profile <- MCProfile
    Adapters <- AllAdapters
    Refused <- MCRefused
    Limited = TRUE
    Capacity = 1
    NoRequest = NoRequest
    MaxLog = 3
INVARIANTS
    TokenConservation
    FallbackJustified
    NoForbiddenTouch
SYMMETRY ThreadSymmetry
