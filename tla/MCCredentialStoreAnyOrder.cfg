SPECIFICATION StoreSpec
CONSTANTS
    MaxSlots = 2
    CountMod = 4
    RP = {r1, r2}
    User = {u1, u2}
    Info = {x1}
    Absent = Absent
    Broken = Broken
    OldFirmware = TRUE
    QueueCap = 0
    MaxMishaps = 3
    InOrder = FALSE
SYMMETRY Symmetric
INVARIANTS
    OneCredentialPerUser
    OneRecordPerRp
