SPECIFICATION Spec
CONSTANTS
    Messages <- NoiseMessages
    Noise <- MCNoise
    AllowedReaders <- MCReaders
    ChunkSizes = {1, 2, 3, 6, 11}
    MaxSent = 2
    MaxNoise = 2
INVARIANTS
    BufferIsUnparsedPart
    ChunkIndependence
