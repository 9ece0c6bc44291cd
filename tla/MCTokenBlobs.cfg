SPECIFICATION TokenSpec
CONSTANTS
    PIN = {p1, p2}
    RP = {r1, r2}
    Nobody = Nobody
    NoRp = NoRp
    MaxRetries = 1
    Grants <- MCGrants
    QueueCap = 0
    InOrder = FALSE

INVARIANTS
    LargeBlobsAsGranted
