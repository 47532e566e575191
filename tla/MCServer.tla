------------------------------ MODULE MCServer ------------------------------
(***************************************************************************)
(* A small instance of the server: a busy connection and one with a single *)
(* message.                                                                *)
(***************************************************************************)
EXTENDS Server

Report == [kind |-> "frame", reader |-> 0]

OtherReader == [kind |-> "frame", reader |-> 7]

MCWrites ==
    [p1 |-> {Report}, p2 |-> {Report, OtherReader, [kind |-> "heartbeat", reader |-> 0]}]

MCMaxWritten == [p1 |-> 2, p2 |-> 1]

Args(port, readers, names) == [port |-> port, readers |-> readers, fields |-> names]

\* One command line that is served and four that are not: the ports and the
\* reader next to a limit, and an unknown field.
MCCommandLines ==
    {Args(2077, {0, 255}, <<"tag", "", "reader">>), Args(0, Byte, <<"tag">>),
     Args(65536, Byte, <<"tag">>), Args(2077, {256}, <<"tag">>),
     Args(2077, {0}, <<"tag", "time">>)}
=============================================================================
