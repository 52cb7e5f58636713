SPECIFICATION Spec
CONSTANTS
    f = f
    g = g
    empty = empty
    locked = locked
    c1 = c1
    c2 = c2
    tail = tail
    None = None
    File = {f, g, empty, locked}
    Chunk = {c1, c2, tail}
    Content <- FileContent
    Size <- Sizes
    Qos = {1}
    BufferSize = 2
    Unwritable = {locked}
    MaxEvents = 7
INVARIANTS
    IInv
PROPERTIES
    DeliverySpec
    VerdictSound
    LargeTailComplete
    RowTimes
    RowSize
