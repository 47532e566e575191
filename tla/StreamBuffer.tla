---------------------------- MODULE StreamBuffer ----------------------------
(***************************************************************************)
(* TCP stream reassembly (stream.py).  A peer writes messages; TCP hands   *)
(* them to feed() in chunks that need not respect message boundaries;      *)
(* feed() appends the chunk to _buffer and its loop cuts complete messages *)
(* off the front.  Each turn of the loop is one action, named for the      *)
(* branch it takes, and Return is the way out of the loop.                 *)
(*                                                                         *)
(* The peer may also write Noise: bytes that are no message, after which   *)
(* the message boundaries may be lost.                                     *)
(***************************************************************************)
EXTENDS Frames, Selection, FiniteSets

CONSTANTS Messages,         \* what the peer writes as one message
          Noise,            \* byte strings that are no message
          AllowedReaders,   \* _allowed_readers; Byte stands for None
          ChunkSizes,       \* the numbers of bytes one recv may return
          MaxSent,          \* bound on the messages of one connection
          MaxNoise          \* bound on the noise written on it

VARIABLES
    stream,    \* the bytes the peer has written on this connection
    rcv,       \* how many of them TCP has delivered to feed()
    buffer,    \* _buffer
    result,    \* the ParseResult of the current or latest feed()
    pc,        \* "idle" between calls of feed(), "loop" inside one
    sent,      \* history: the messages written, each with its offset
    garbled,   \* history: how many times the peer wrote noise
    taken      \* history: what the loop cut off the buffer, with offsets

vars == <<stream, rcv, buffer, result, pc, sent, garbled, taken>>

\* How many bytes the loop removes from the front of the bytes `bytes' once
\* it holds enough of them, and whether such a piece starts at offset p.
StartsWithHeartbeat(bytes, p) ==
    \A i \in 1 .. HEARTBEAT_LENGTH : bytes[p + i] = build_heartbeat[i]

PieceLength(bytes, p) ==
    IF /\ p + HEARTBEAT_LENGTH <= Len(bytes)
       /\ StartsWithHeartbeat(bytes, p)           THEN HEARTBEAT_LENGTH
    ELSE IF bytes[p + 1] < MIN_FRAME_LENGTH THEN 1
    ELSE bytes[p + 1] + 1

\* A message delimits itself: by its length byte, by being the heartbeat, or
\* (a stray byte) by being too small to be a length.  Checksum and address do
\* not matter.  The one frame excluded is the 87-byte frame that starts with
\* the heartbeat's six bytes: no receiver can tell the two apart.
SelfDelimiting(m) == m # <<>> /\ Len(m) = PieceLength(m, 0)

ASSUME MessagesAssumption ==
    \A m \in Messages : m \in Seq(Byte) /\ SelfDelimiting(m)

ASSUME NoiseAssumption == Noise \subseteq Seq(Byte)

ASSUME BoundsAssumption ==
    ChunkSizes \subseteq Nat \ {0} /\ MaxSent \in Nat /\ MaxNoise \in Nat

EmptyResult == [frames |-> <<>>, heartbeats |-> <<>>, errors |-> <<>>]

Init ==
    /\ stream = <<>> /\ rcv = 0
    /\ buffer = <<>> /\ result = EmptyResult /\ pc = "idle"
    /\ sent = <<>> /\ garbled = 0 /\ taken = <<>>
-----------------------------------------------------------------------------
(* The peer and the network.                                               *)

Write(m) ==
    /\ Len(sent) < MaxSent
    /\ stream' = stream \o m
    /\ sent' = Append(sent, [at |-> Len(stream), bytes |-> m])
    /\ UNCHANGED <<rcv, buffer, result, pc, garbled, taken>>

Garble(n) ==
    /\ garbled < MaxNoise
    /\ garbled' = garbled + 1
    /\ stream' = stream \o n
    /\ UNCHANGED <<rcv, buffer, result, pc, sent, taken>>

\* Fault for Reset: the half-received message survives into the next connection.
Reset_KeepsBuffer ==
    /\ pc = "idle"
    /\ stream' = <<>> /\ rcv' = 0 /\ result' = EmptyResult
    /\ sent' = <<>> /\ garbled' = 0 /\ taken' = <<>>
    /\ UNCHANGED <<pc, buffer>>

\* The owner drops the connection and starts on a new one: RfidClient.close()
\* calls reset(), handle_client() makes a StreamBuffer of its own.
Reset ==
    /\ pc = "idle"
    /\ buffer' = <<>>
    /\ stream' = <<>> /\ rcv' = 0 /\ result' = EmptyResult
    /\ sent' = <<>> /\ garbled' = 0 /\ taken' = <<>>
    /\ UNCHANGED pc
-----------------------------------------------------------------------------
(* feed().                                                                 *)

Feed(n) ==
    /\ pc = "idle"
    /\ rcv + n <= Len(stream)
    /\ buffer' = buffer \o SubSeq(stream, rcv + 1, rcv + n)
    /\ rcv' = rcv + n
    /\ result' = EmptyResult
    /\ pc' = "loop"
    /\ UNCHANGED <<stream, sent, garbled, taken>>

\* Faults for the three: off by one, and a heartbeat told by its marker alone.
PartialHeartbeat_OffByOne ==
    buffer[1] = HEARTBEAT_MARKER /\ Len(buffer) <= HEARTBEAT_LENGTH

WholeHeartbeat_MarkerOnly ==
    buffer[1] = HEARTBEAT_MARKER /\ Len(buffer) >= HEARTBEAT_LENGTH

PartialFrame_OffByOne ==
    /\ ~(/\ buffer[1] = HEARTBEAT_MARKER
         /\ Len(buffer) >= HEARTBEAT_LENGTH
         /\ SubSeq(buffer, 1, HEARTBEAT_LENGTH) = build_heartbeat)
    /\ buffer[1] >= MIN_FRAME_LENGTH
    /\ Len(buffer) <= buffer[1] + 1

\* The three places where the loop stops or goes on without cutting a frame.
PartialHeartbeat ==
    buffer[1] = HEARTBEAT_MARKER /\ Len(buffer) < HEARTBEAT_LENGTH

WholeHeartbeat ==
    /\ buffer[1] = HEARTBEAT_MARKER
    /\ Len(buffer) >= HEARTBEAT_LENGTH
    /\ SubSeq(buffer, 1, HEARTBEAT_LENGTH) = build_heartbeat

PartialFrame ==
    /\ ~WholeHeartbeat
    /\ buffer[1] >= MIN_FRAME_LENGTH
    /\ Len(buffer) < buffer[1] + 1

Waiting == buffer # <<>> => PartialHeartbeat \/ PartialFrame

\* Cut n bytes off the front of the buffer and file `item' under `list'.
Take(n, list, item) ==
    /\ buffer' = SubSeq(buffer, n + 1, Len(buffer))
    /\ result' = [result EXCEPT ![list] = Append(@, item)]
    /\ taken' = Append(taken, [at    |-> rcv - Len(buffer),
                               bytes |-> SubSeq(buffer, 1, n),
                               as    |-> list])
    /\ UNCHANGED <<stream, rcv, pc, sent, garbled>>

InLoop == pc = "loop" /\ ~Waiting

TakeHeartbeat ==
    /\ InLoop
    /\ WholeHeartbeat
    /\ Take(HEARTBEAT_LENGTH, "heartbeats", SubSeq(buffer, 1, HEARTBEAT_LENGTH))

\* Faults for DiscardByte: the last byte is removed in place of the first, and
\* everything that came is dropped.
DiscardByte_DropsLast ==
    /\ InLoop
    /\ ~WholeHeartbeat /\ buffer[1] < MIN_FRAME_LENGTH
    /\ buffer' = SubSeq(buffer, 1, Len(buffer) - 1)
    /\ result' = [result EXCEPT !.errors = Append(@, "length byte")]
    /\ taken' = Append(taken, [at |-> rcv - Len(buffer), bytes |-> SubSeq(buffer, 1, 1),
                               as |-> "errors"])
    /\ UNCHANGED <<stream, rcv, pc, sent, garbled>>

DiscardByte_DropsChunk ==
    /\ InLoop
    /\ ~WholeHeartbeat /\ buffer[1] < MIN_FRAME_LENGTH
    /\ Take(Len(buffer), "errors", "length byte")

DiscardByte ==
    /\ InLoop
    /\ ~WholeHeartbeat /\ buffer[1] < MIN_FRAME_LENGTH
    /\ Take(1, "errors", "length byte")

\* The length byte promises a frame and the buffer holds all of it.
FrameAhead == InLoop /\ ~WholeHeartbeat /\ buffer[1] >= MIN_FRAME_LENGTH

Raw == SubSeq(buffer, 1, buffer[1] + 1)

\* Fault for RejectFrame: after a bad frame go on at its second byte.
RejectFrame_DropsOneByte ==
    /\ FrameAhead
    /\ LET outcome == validate_frame(Raw)
       IN  /\ outcome.kind = "error"
           /\ Take(1, "errors", outcome.cause)

RejectFrame ==
    /\ FrameAhead
    /\ LET outcome == validate_frame(Raw)
       IN  /\ outcome.kind = "error"
           /\ Take(buffer[1] + 1, "errors", outcome.cause)

RejectReader ==
    /\ FrameAhead
    /\ LET outcome == validate_frame(Raw)
       IN  /\ outcome.kind = "frame"
           /\ outcome.frame.reader_address \notin AllowedReaders
           /\ Take(buffer[1] + 1, "errors", "unknown reader")

AcceptFrame ==
    /\ FrameAhead
    /\ LET outcome == validate_frame(Raw)
       IN  /\ outcome.kind = "frame"
           /\ outcome.frame.reader_address \in AllowedReaders
           /\ Take(buffer[1] + 1, "frames", outcome.frame)

Return ==
    /\ pc = "loop"
    /\ Waiting
    /\ pc' = "idle"
    /\ UNCHANGED <<stream, rcv, buffer, result, sent, garbled, taken>>

Turn == TakeHeartbeat \/ DiscardByte \/ RejectFrame \/ RejectReader \/ AcceptFrame
-----------------------------------------------------------------------------
FeedAny == \E n \in ChunkSizes : Feed(n)

Parse == FeedAny \/ Turn \/ Return

Next ==
    \/ \E m \in Messages : Write(m)
    \/ \E n \in Noise : Garble(n)
    \/ Reset
    \/ Parse

Spec == Init /\ [][Next]_vars

\* recv() returns what TCP delivers, and the loop runs to its end.
FairSpec == Spec /\ WF_vars(FeedAny) /\ WF_vars(Turn \/ Return)
-----------------------------------------------------------------------------
(* Properties.                                                             *)

\* How many bytes of the stream the loop has dealt with.
Consumed == rcv - Len(buffer)

\* Every variable keeps its type: offsets, bytes, and lists of results.
TypeOK ==
    /\ stream \in Seq(Byte) /\ rcv \in 0 .. Len(stream)
    /\ buffer \in Seq(Byte) /\ Len(buffer) <= rcv
    /\ pc \in {"idle", "loop"}
    /\ DOMAIN result = {"frames", "heartbeats", "errors"}
    /\ garbled \in Nat
    /\ sent \in Seq([at : Nat, bytes : Messages])
    /\ taken \in Seq([at : Nat, bytes : Seq(Byte),
                      as : {"frames", "heartbeats", "errors"}])

\* No byte is lost, duplicated or invented by the buffer: it holds exactly the
\* part of the stream that has arrived and has not been cut off yet, also
\* after a reset() that threw a half-received message away.
BufferIsUnparsedPart ==
    buffer = SubSeq(stream, Consumed + 1, rcv)

\* What feed() cuts depends on the stream alone and never on how TCP chunked
\* it: the pieces taken tile the stream from its first byte, each as long as
\* the bytes of the whole stream say, noise or no noise.
ChunkIndependence ==
    /\ \A i \in 1 .. Len(taken) :
         /\ taken[i].at = IF i = 1 THEN 0
                          ELSE taken[i - 1].at + Len(taken[i - 1].bytes)
         /\ Len(taken[i].bytes) = PieceLength(stream, taken[i].at)
         /\ taken[i].bytes =
              SubSeq(stream, taken[i].at + 1, taken[i].at + Len(taken[i].bytes))
    /\ Consumed = IF taken = <<>> THEN 0
                  ELSE taken[Len(taken)].at + Len(taken[Len(taken)].bytes)

\* Whatever the peer writes, feed() never returns with more than 255 bytes
\* held: one byte less than the largest frame a length byte can announce.
HeldBytesBounded == pc = "idle" => Len(buffer) <= 255

\* A peer that writes only self-delimiting messages (heartbeats, frames for
\* any reader, frames with a bad checksum, stray small bytes) gets each of
\* them taken whole, once and in order, whatever the chunks.
Reassembly ==
    garbled = 0 =>
      /\ Len(taken) <= Len(sent)
      /\ \A i \in 1 .. Len(taken) :
           taken[i].at = sent[i].at /\ taken[i].bytes = sent[i].bytes

\* feed() holds back no message: when it returns, every message that has
\* arrived completely has been taken.  (The partial-heartbeat wait is the
\* branch that could hold back a frame.)
NothingHeldBack ==
    pc = "idle" /\ garbled = 0 =>
      \A i \in 1 .. Len(sent) :
        sent[i].at + Len(sent[i].bytes) <= rcv => i <= Len(taken)

\* A response frame is what the builder makes of its fields.
BuiltResponse(raw) ==
    /\ Len(raw) >= 6
    /\ raw = build_response_frame(raw[2], raw[3], raw[4], SubSeq(raw, 5, Len(raw) - 2))

to_bytes(frame) ==
    build_response_frame(frame.reader_address, frame.command, frame.status, frame.data)

\* The list a piece belongs in, said with the builders and not the validator.
RightList(raw) ==
    IF raw = build_heartbeat THEN "heartbeats"
    ELSE IF BuiltResponse(raw) /\ raw[2] \in AllowedReaders THEN "frames"
    ELSE "errors"

TakenAs(list) ==
    LET places == {i \in 1 .. Len(taken) : taken[i].as = list}
    IN  Select(taken, {taken[i] : i \in places})

\* Every piece ends up in the list it belongs in, frames of readers that are
\* not allowed in none but `errors', and the frames feed() returns are the
\* last ones taken, in order and with the fields that were sent.
RightVerdict ==
    /\ \A i \in 1 .. Len(taken) : taken[i].as = RightList(taken[i].bytes)
    /\ LET accepted == TakenAs("frames")
           before   == Len(accepted) - Len(result.frames)
       IN  /\ before >= 0
           /\ \A i \in 1 .. Len(result.frames) :
                to_bytes(result.frames[i]) = accepted[before + i].bytes

\* The bits of a byte sequence in the order the checksum takes them in: byte by
\* byte, the lowest bit of each first.
Bit(byte, k) == (byte \div <<1, 2, 4, 8, 16, 32, 64, 128>>[k + 1]) % 2

BitAt(bytes, n) == Bit(bytes[n \div 8 + 1], n % 8)

\* Where two byte sequences of one length differ.
BitsChanged(a, b) == {n \in 0 .. 8 * Len(a) - 1 : BitAt(a, n) # BitAt(b, n)}

\* Damage the checksum is there for: bits inverted within 16 in a row, or an
\* odd number of them anywhere, the checksum's own bits among them.
Detectable(changed) ==
    /\ changed # {}
    /\ \/ \A p, q \in changed : q - p < 16
       \/ Cardinality(changed) % 2 = 1

\* No frame is accepted that is an accepted one with such damage done to it,
\* wherever in the frame it is done: no two frames of one length that feed()
\* hands over differ by it.
DamageDetected ==
    \A i, j \in 1 .. Len(taken) :
      LET sound == taken[i].bytes
          other == taken[j].bytes
      IN  /\ taken[i].as = "frames"
          /\ taken[j].as = "frames"
          /\ Len(other) = Len(sound)
          => ~Detectable(BitsChanged(sound, other))

\* With a peer that writes no noise the buffer implements the message stream.
Abstract ==
    INSTANCE MessageStream
      WITH written <- [i \in 1 .. Len(sent)  |-> sent[i].bytes],
           handed  <- [i \in 1 .. Len(taken) |-> taken[i].bytes]

ImplementsMessageStream == Abstract!Spec

\* Every message written is handed over in the end, unless the connection is
\* dropped first: no pattern of chunks leaves the loop waiting for bytes that
\* have already come.
EveryMessageHandedOver ==
    \A k \in 1 .. MaxSent : Len(sent) >= k ~> (Len(taken) >= k \/ sent = <<>>)
=============================================================================
