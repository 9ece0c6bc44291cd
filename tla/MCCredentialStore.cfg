SPECIFICATION StoreSpec
CONSTANTS
    MaxSlots = 2
    CountMod = 4
    RP = {r1, r2}
    User = {u1, u2}
    Info = {x1, x2}
    Absent = Absent
    Broken = Broken
    OldFirmware = TRUE
    QueueCap = 1
    MaxMishaps = 1
    InOrder = TRUE
SYMMETRY Symmetric
INVARIANTS
    CountsFollow
    StateNamesCredentials
PROPERTIES
    OnlyAskedIsLost
