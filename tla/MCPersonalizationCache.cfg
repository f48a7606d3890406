\* Fewer addresses than objects: the address of a variant is used again.
SPECIFICATION EngagementSpec
CONSTANTS
    Workers = {w1, w2, w3}
    Slots = {s1, s2}
    Cap = 2
    c1 = c1
    c2 = c2
    Scale = 10
    MaxVariants = 3
    MaxWeight = 4
    Keys = {"home", "offer"}
    Drafts <- TheirDrafts
    Frac <- Fractions
    Fetchers = {f1}
    Publishers = {p1}
    Requests <- Fetched
    Addresses = {a1, a2, a3}
    MaxObjects = 3
    MaxFetches = 1
    None = None
    Absent = Absent
    CHANNEL_MAX_LEN <- TheirLimits
    DISCLAIMER_PRODUCTS = {"Loan"}
    SHOUT_MIN_LETTERS = 4
    CopyRequests <- AskedCopies
    SUPPORTED_LOCALES <- Locales
    TEMPLATES <- Templates
    CTAS <- Calls
    TONE_PREFIX <- Tones
    Spelled <- Names
    DefaultChannel = "push"
    MaxSeeds = 3
    Draws = {0, 1}
    MAX_ARMS = 2
    ContentIds <- TheirContent
    Weights <- TheirWeights
    Channels <- GateChannels
    Products = {"Loan", "Wallet"}
    Pieces <- Vocabulary
    MaxLength = 7
    Variants = {1, 2, 3}
    NoVariant = NoVariant
    MaxLog = 4
    ViaRoute = FALSE
CHECK_DEADLOCK FALSE
INVARIANTS
    CacheIsPerSpec
SYMMETRY AddressSymmetry
