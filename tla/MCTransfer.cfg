SPECIFICATION TransferSpec
CONSTANTS
    f = f
    h = h
    empty = empty
    c1 = c1
    c2 = c2
    None = None
    File = {f, h, empty}
    Chunk = {c1, c2}
    Content <- TransferContent
    Size <- TransferSize
    BufferSize = 2
    Qos = {1, 2}
    Files <- OneFile
    Missing = {}
    Unwritable = {}
    MaxEvents = 99
    MaxDisconnects = 1
    MaxReceiverFaults = 1
INVARIANTS
    UndisturbedRunIsOk
    RunsReported
PROPERTIES
    UndisturbedCompletes
