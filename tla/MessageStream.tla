--------------------------- MODULE MessageStream ---------------------------
(***************************************************************************)
(* What a connection promises its reader thread, with TCP, chunks and      *)
(* buffers left out: the messages the peer writes are handed over whole,   *)
(* once each and in the order written, until the connection is dropped.    *)
(***************************************************************************)
EXTENDS Naturals, Sequences

CONSTANT Messages

VARIABLES written,     \* what the peer has written on this connection
          handed       \* what has been handed over, in order

vars == <<written, handed>>

Init == written = <<>> /\ handed = <<>>

Write(m) == written' = Append(written, m) /\ UNCHANGED handed

HandOver ==
    /\ Len(handed) < Len(written)
    /\ handed' = Append(handed, written[Len(handed) + 1])
    /\ UNCHANGED written

\* The connection is closed; the next one starts empty.
Drop == written' = <<>> /\ handed' = <<>>

Next == (\E m \in Messages : Write(m)) \/ HandOver \/ Drop

Spec == Init /\ [][Next]_vars
=============================================================================
