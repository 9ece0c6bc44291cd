SPECIFICATION AssertionSpec
CONSTANTS
    Cred = {c1, c2, c3}
    None = None
    RP = {r1, r2}
    MaxSlots = 3
    MaxList = 3
    MaxAllow = 2
    MaxCreated = 1
SYMMETRY Symmetric
INVARIANTS
    GivenNewestFirst
    GivenIsAllowed
    AllGiven
