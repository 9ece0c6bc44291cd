SPECIFICATION Spec
CONSTANTS
    Objects <- MCObjects
    Mutable = "credential"
    Value = {v1, v2}
    Absent = Absent
    MaxGeneration = 3
    QueueCap = 1
    InOrder = TRUE
SYMMETRY Symmetric
INVARIANTS
    ReadsOneVersion
    NothingInvented
    FreeSlotIsUsable
PROPERTIES
    ChangesAtOnce
    DoneIsDurable
