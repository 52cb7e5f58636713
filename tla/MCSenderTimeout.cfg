SPECIFICATION SenderSpec
CONSTANTS
    f = f
    g = g
    absent = absent
    c1 = c1
    c2 = c2
    File = {f, g, absent}
    Chunk = {c1, c2}
    Content <- SenderContent
    Qos = {1, 2}
    Files <- Files1
    Missing = {absent}
    MaxDisconnects = 0
PROPERTY
    TimeoutMeansNoAck
