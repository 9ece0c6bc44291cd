SPECIFICATION Spec
CONSTANTS
    Name = {n1, n2}
    Code = {c1, c2}
    MaxCreds = 2
    MaxRetries = 3
    NoData = NoData
    MaxKeys = 2
    MaxImf = 2
    QueueCap = 1
    InOrder = FALSE
SYMMETRY Symmetric
INVARIANTS
    OtpPinBudget
    CodeIsProved
    ImfMovesOn
    NoPlainKey
