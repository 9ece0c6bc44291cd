SPECIFICATION Spec
CONSTANTS
    Slots = {s1, s2, s3}
    SessionSlots = {s1, s2}
    MaxCounter = 3
    SessionMod = 2
    NoData = NoData
    MaxKeys = 2
    MaxImf = 3
    QueueCap = 0
    InOrder = FALSE
SYMMETRY Symmetric
INVARIANTS
    NextIsNew
    KeyInOneSlot
