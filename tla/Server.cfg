\* The server stops for good on Ctrl-C.
CHECK_DEADLOCK FALSE
SPECIFICATION FairSpec
CONSTANTS
    Peers = {"p1", "p2"}
    CommandLines <- MCCommandLines
    Writes <- MCWrites
    MaxWritten <- MCMaxWritten
    MaxChunk = 3
INVARIANTS
    TypeOK
    NothingUnlogged
    SocketsOwned
PROPERTIES
    ReportsAreStreams
    EveryReportLogged
