SPECIFICATION BlobSpec
CONSTANTS
    Name = {x1, x2}
    NoName = NoName
    Zero = Zero
    MinLength = 2
    MaxLength = 4
    MaxFragment = 3
    QueueCap = 0
    InOrder = TRUE
SYMMETRY Symmetric
INVARIANTS
    StoredIsWhole
    BufferIsFresh
    UndisturbedWriteSucceeds
