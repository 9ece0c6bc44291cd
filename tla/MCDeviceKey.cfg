SPECIFICATION Spec
CONSTANTS
    Key = {k1, k2, k3}
    OddKeys = {k3}
    Zero = Zero
    Garbled = Garbled
    QueueCap = 2
    InOrder = TRUE
SYMMETRY Symmetric
INVARIANTS
    RightKeyOrNone
    KeySurvives
