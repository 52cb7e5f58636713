SPECIFICATION SharedSpec
CONSTANTS
    f = f
    g = g
    c1 = c1
    c2 = c2
    tail = tail
    None = None
    File = {f, g}
    Chunk = {c1, c2, tail}
    Content <- TwoFiles
    Size <- Sizes
    Qos = {"X"}
    BufferSize = 2
    Unwritable = {}
    MaxEvents = 99
    Sends <- FourSends
    MaxCuts = 1
INVARIANTS
    SourceIsPrefix
    EveryRunAnswered
    DamageReported
CHECK_DEADLOCK FALSE
