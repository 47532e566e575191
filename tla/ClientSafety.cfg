SPECIFICATION FairSpec
CONSTANTS
    Methods = {"discover_address", "set_address"}
    Readers = {r1}
    Addresses = {1, 2}
    Broadcast = 255
    Rates = {"BAUD_57600"}
    MaxChunk = 3
    MaxCalls = 2
    MaxConnections = 2
    MaxUnsolicited = 1
INVARIANTS
    TypeOK
    NothingOutlivesConnection
    AnswerIsOwn
    QuietBetweenCalls
    AddressIsCurrent
    OneChunkHeld
PROPERTY
    EveryCallEnds
