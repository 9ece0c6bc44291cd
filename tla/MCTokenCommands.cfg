SPECIFICATION TokenSpec
CONSTANTS
    PIN = {p1, p2}
    RP = {r1, r2}
    Nobody = Nobody
    NoRp = NoRp
    MaxRetries = 2
    Grants <- MCGrants
    QueueCap = 2
    InOrder = TRUE
SYMMETRY Symmetric
INVARIANTS
    OneRelyingParty
    SpentByTouch
    UsedAsGranted
    KeyAtRiskOnlyInRewrap
PROPERTIES
    UsedWithPresentPin
