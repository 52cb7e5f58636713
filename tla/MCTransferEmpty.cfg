SPECIFICATION TransferSpec
CONSTANTS
    f = f
    h = h
    empty = empty
    c1 = c1
    c2 = c2
    None = None
    File = {f, h, empty}
    Chunk = {c1, c2}
    Content <- TransferContent
    Size <- TransferSize
    BufferSize = 2
    Qos = {1, 2}
    Files <- TwoFiles
    Missing = {}
    Unwritable = {}
    MaxEvents = 99
    MaxDisconnects = 2
    MaxReceiverFaults = 0
INVARIANTS
    NoMixing
    RowsInOrder
    OkMeansWholeRun
