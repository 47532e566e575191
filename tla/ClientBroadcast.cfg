SPECIFICATION Spec
CONSTANTS
    Methods = {"discover_address", "set_baud_rate"}
    Readers = {r1, r2}
    Addresses = {1, 2}
    Broadcast = 255
    Rates = {"BAUD_57600", "BAUD_115200"}
    MaxChunk = 2
    MaxCalls = 2
    MaxConnections = 1
    MaxUnsolicited = 0
SYMMETRY ReaderSymmetry
INVARIANTS
    AnswerIsOwn
    AddressIsCurrent
