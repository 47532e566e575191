--------------------------- MODULE MCStreamBuffer ---------------------------
(***************************************************************************)
(* Real messages for the stream buffer: bytes as they are on the wire.     *)
(***************************************************************************)
EXTENDS StreamBuffer

\* Readers 0 and 86 are allowed; reader 7 is not.
MCReaders == {0, HEARTBEAT_MARKER}

Report(reader, data) == build_response_frame(reader, 238, 0, data)

\* The tag report that the protocol document and the tests give byte for byte,
\* and the same with the last bit of one byte and the first of the next one
\* inverted on its way.
CapturedFrame ==
    <<17, 0, 238, 0, 32, 0, 112, 140, 43, 56, 11, 45, 0, 0, 0, 0, 224, 86>>

DamagedFrame  == [CapturedFrame EXCEPT ![8] = @ - 128, ![9] = @ - 1]

\* The same with three bits inverted that are far apart.
OddlyDamaged  == [CapturedFrame EXCEPT ![5] = @ + 1, ![8] = @ + 1, ![16] = @ + 1]

TagReport     == Report(0, <<>>)
MarkerReport  == Report(HEARTBEAT_MARKER, <<HEARTBEAT_MARKER>>)
UnknownReader == Report(7, <<>>)
StrayByte     == <<0>>

\* A legal frame whose length byte is the heartbeat marker.
LongReport    == Report(0, [i \in 1 .. 81 |-> 200])

MCMessages  == {CapturedFrame, MarkerReport, UnknownReader, DamagedFrame,
                OddlyDamaged, StrayByte, build_heartbeat}
LargestReport == Report(0, [i \in 1 .. MAX_RESPONSE_DATA |-> 255])
LongMessages  == {LongReport, LargestReport, build_heartbeat}

\* The start of a frame, the start of a heartbeat, a length byte too large,
\* and bytes too small to be a length.
MCNoise == {SubSeq(TagReport, 1, 3), <<HEARTBEAT_MARKER, 0>>, <<6>>, <<4, 1>>}
LongNoise == {<<255>>, <<HEARTBEAT_MARKER>>}

NoiseMessages == {TagReport, build_heartbeat}

\* What a real reader sent is accepted, and what was damaged on its way is not:
\* the checksum is the one the reader computes, over the bytes it computes it
\* over, and stored as it stores it.
CapturedFrameAccepted ==
    \A i \in 1 .. Len(taken) :
      /\ taken[i].bytes = CapturedFrame => taken[i].as = "frames"
      /\ taken[i].bytes = DamagedFrame => taken[i].as = "errors"
=============================================================================
