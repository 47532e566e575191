\* MaxCalls bounds the run.
CHECK_DEADLOCK FALSE
SPECIFICATION Spec
CONSTANTS
    AnInt = AnInt
    NotAMember = AnInt
    Probes <- MCProbes
    Factory <- Known
    MaxCalls = 2
INVARIANTS
    TypeOK
    ReadsBackAsSet
    ReadBackIsAccepted
    RegionIsInterval
