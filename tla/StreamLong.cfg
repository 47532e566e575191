SPECIFICATION Spec
CONSTANTS
    Messages <- LongMessages
    Noise <- LongNoise
    AllowedReaders <- MCReaders
    ChunkSizes = {6, 81, 256}
    MaxSent = 2
    MaxNoise = 1
INVARIANTS
    Reassembly
    HeldBytesBounded
