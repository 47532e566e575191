SPECIFICATION FairSpec
CONSTANTS
    Messages <- MCMessages
    Noise = {}
    AllowedReaders <- MCReaders
    ChunkSizes = {1, 2, 3, 5, 6, 7, 12}
    MaxSent = 3
    MaxNoise = 0
INVARIANTS
    TypeOK
    Reassembly
    NothingHeldBack
    RightVerdict
    CapturedFrameAccepted
    DamageDetected
PROPERTIES
    ImplementsMessageStream
    EveryMessageHandedOver
