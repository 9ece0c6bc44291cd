SPECIFICATION FairSpec
CONSTANTS
    PIN = {p1, p2}
    RP = {}
    Nobody = Nobody
    NoRp = NoRp
    MaxRetries = 8
    Grants <- MCGrants
    QueueCap = 2
    InOrder = FALSE
INVARIANTS
    GuessBudget
    BootGuessLimit
    TokenProvesCurrentPin
    ForcedMeansNoToken
    KeyReadableNow
PROPERTIES
    BlockedUntilReset
    ForcedUntilChanged
    AttemptEnds
