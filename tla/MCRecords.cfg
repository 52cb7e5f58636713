SPECIFICATION RecordsSpec
CONSTANTS
    sender = sender
    receiver = receiver
    coap_v1 = coap_v1
    coap_v2 = coap_v2
    Writer = {sender, receiver, coap_v1, coap_v2}
    WritesTo <- Kinds
    Suffix <- OneSuffix
    MaxCalls = 2
    MaxKills = 1
    MaxRuns = 2
    MaxSamples = 2
    Length = {60, 90}
    Time <- Times
    MsgType = {publish, puback}
    publish = publish
    puback = puback
    NotMqtt = NotMqtt
    Unknown = Unknown
    Bad = Bad
    FileSizes = {0, 100}
    MaxFrames = 2
    Lengths <- Boundaries
    CHUNK_SIZE = 1048576
    BLOCK_SIZE = 1024
    NameLengths = {1, 9, 12}
INVARIANTS
    RowsKept
    OneHeaderFirst
    HeadersBounded
    StatsOfOneRun
    CountsRight
    PublishLength
    OverheadIsFraming
    BlocksPaid
PROPERTIES
    SamplerEnds
CHECK_DEADLOCK FALSE
