SPECIFICATION Spec
CONSTANTS
    Methods = {"get_reader_info"}
    Readers = {r1}
    Addresses = {1}
    Broadcast = 255
    Rates = {"BAUD_57600"}
    MaxChunk = 2
    MaxCalls = 2
    MaxConnections = 1
    MaxUnsolicited = 0
INVARIANT ReturnsMatchingResponse
