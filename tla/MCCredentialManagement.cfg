SPECIFICATION MgmtSpec
CONSTANTS
    MaxSlots = 3
    CountMod = 3
    RP = {r1, r2}
    User = {u1, u2, u3}
    Info = {x1}
    Absent = Absent
    Broken = Broken
    OldFirmware = FALSE
    QueueCap = 0
    MaxMishaps = 0
    NoRp = NoRp
    Dangling = Dangling
    InOrder = TRUE
SYMMETRY Symmetric
INVARIANTS
    RpsGivenOnce
    CredentialsGivenOnce
    EveryCredentialReachable
