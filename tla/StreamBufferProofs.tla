------------------------- MODULE StreamBufferProofs -------------------------
(***************************************************************************)
(* Proofs about StreamBuffer for every set of messages and noise, every    *)
(* chunking and every length of the stream.                                *)
(*                                                                         *)
(* The argument: the buffer is the window Consumed + 1 .. rcv of the       *)
(* stream (InvWindow); the pieces cut so far tile the stream up to         *)
(* Consumed (InvTiles), and the messages written tile all of it            *)
(* (InvSent); so a message boundary is where the next cut starts           *)
(* (InvBoundary), and the next cut is as long as that message because its  *)
(* length depends on the stream only (TurnCutsPiece, PieceOfMessage).      *)
(*                                                                         *)
(* The last sections are about the checksum.  It is a register that is fed *)
(* one bit at a time, and feeding is linear (FedLinear): two frames that   *)
(* are both accepted differ by bits that, fed into a register of zero,     *)
(* leave zero (FramesDiffer), which damage within 16 bits in a row and     *)
(* damage of an odd number of bits never does (BurstLeavesDifference,      *)
(* OddLeavesDifference).  MCStreamBuffer is extended for its captured      *)
(* frame only; its other values are not used.                              *)
(***************************************************************************)
EXTENDS MCStreamBuffer, SelectionProofs, FiniteSetTheorems

-----------------------------------------------------------------------------
(* Windows of byte sequences.                                              *)

LEMMA Window ==
    ASSUME NEW S, NEW s \in Seq(S), NEW a \in Nat, NEW b \in Nat, a <= b, b <= Len(s)
    PROVE  /\ SubSeq(s, a + 1, b) \in Seq(S)
           /\ Len(SubSeq(s, a + 1, b)) = b - a
           /\ \A i \in 1 .. b - a : SubSeq(s, a + 1, b)[i] = s[a + i]
  <1>1. \A i \in a + 1 .. b : s[i] \in S
    BY LenProperties, ElementOfSeq
  <1>2. a + 1 \in Int /\ b \in Int
    OBVIOUS
  <1> QED BY <1>1, <1>2, SubSeqProperties

LEMMA WindowOfConcat ==
    ASSUME NEW S, NEW s \in Seq(S), NEW t \in Seq(S),
           NEW a \in Nat, NEW b \in Nat, a <= b, b <= Len(s)
    PROVE  SubSeq(s \o t, a + 1, b) = SubSeq(s, a + 1, b)
  <1>1. /\ s \o t \in Seq(S)
        /\ Len(s \o t) = Len(s) + Len(t)
        /\ \A i \in 1 .. Len(s) : (s \o t)[i] = s[i]
        /\ Len(s) \in Nat /\ Len(t) \in Nat
    BY ConcatProperties, LenProperties
  <1> DEFINE u == SubSeq(s \o t, a + 1, b)
             v == SubSeq(s, a + 1, b)
  <1>2. /\ u \in Seq(S) /\ Len(u) = b - a
        /\ \A i \in 1 .. b - a : u[i] = (s \o t)[a + i]
    BY <1>1, Window
  <1>3. /\ v \in Seq(S) /\ Len(v) = b - a
        /\ \A i \in 1 .. b - a : v[i] = s[a + i]
    BY Window
  <1>4. \A i \in 1 .. b - a : u[i] = v[i]
    BY <1>1, <1>2, <1>3
  <1> HIDE DEF u, v
  <1>5. u = v
    BY <1>2, <1>3, <1>4, SeqEqual
  <1> QED BY <1>5 DEF u, v

LEMMA WindowEnd ==
    ASSUME NEW S, NEW s \in Seq(S), NEW t \in Seq(S)
    PROVE  SubSeq(s \o t, Len(s) + 1, Len(s) + Len(t)) = t
  <1>1. /\ s \o t \in Seq(S)
        /\ Len(s \o t) = Len(s) + Len(t)
        /\ \A i \in 1 .. Len(s) + Len(t) :
             (s \o t)[i] = IF i <= Len(s) THEN s[i] ELSE t[i - Len(s)]
        /\ Len(s) \in Nat /\ Len(t) \in Nat
    BY ConcatProperties, LenProperties
  <1> DEFINE u == SubSeq(s \o t, Len(s) + 1, Len(s) + Len(t))
  <1>2. /\ u \in Seq(S) /\ Len(u) = Len(t)
        /\ \A i \in 1 .. Len(t) : u[i] = (s \o t)[Len(s) + i]
    BY <1>1, Window
  <1>3. \A i \in 1 .. Len(u) : u[i] = t[i]
    BY <1>1, <1>2
  <1> HIDE DEF u
  <1>4. u = t
    BY <1>2, <1>3, SeqEqual
  <1> QED BY <1>4 DEF u

LEMMA WindowOfWindow ==
    ASSUME NEW S, NEW s \in Seq(S), NEW a \in Nat, NEW b \in Nat,
           NEW c \in Nat, NEW d \in Nat, a <= b, b <= Len(s), c <= d, a + d <= b
    PROVE  SubSeq(SubSeq(s, a + 1, b), c + 1, d) = SubSeq(s, (a + c) + 1, a + d)
  <1> DEFINE w == SubSeq(s, a + 1, b)
             u == SubSeq(w, c + 1, d)
             v == SubSeq(s, (a + c) + 1, a + d)
  <1>0. Len(s) \in Nat
    BY LenProperties
  <1>1. /\ w \in Seq(S) /\ Len(w) = b - a
        /\ \A i \in 1 .. b - a : w[i] = s[a + i]
    BY Window
  <1>2. /\ v \in Seq(S) /\ Len(v) = d - c
        /\ \A i \in 1 .. d - c : v[i] = s[(a + c) + i]
    <2>1. /\ a + c \in Nat /\ a + d \in Nat /\ a + c <= a + d /\ a + d <= Len(s)
          /\ (a + d) - (a + c) = d - c
      BY <1>0
    <2> QED BY <2>1, Window
  <1> HIDE DEF w
  <1>3. /\ u \in Seq(S) /\ Len(u) = d - c
        /\ \A i \in 1 .. d - c : u[i] = w[c + i]
    <2>1. d <= Len(w)
      BY <1>1
    <2> QED BY <1>1, <2>1, Window, SMTT(60)
  <1>4. \A i \in 1 .. d - c : u[i] = v[i]
    BY <1>1, <1>2, <1>3
  <1> HIDE DEF u, v
  <1>5. u = v
    BY <1>2, <1>3, <1>4, SeqEqual
  <1> QED BY <1>5 DEF u, v, w

LEMMA WindowGrows ==
    ASSUME NEW S, NEW s \in Seq(S), NEW a \in Nat, NEW b \in Nat, NEW c \in Nat,
           a <= b, b <= c, c <= Len(s)
    PROVE  SubSeq(s, a + 1, b) \o SubSeq(s, b + 1, c) = SubSeq(s, a + 1, c)
  <1>1. Len(s) \in Nat
    BY LenProperties
  <1>2. /\ a + 1 \in 1 .. Len(s) + 1 /\ b \in (a + 1) - 1 .. Len(s) /\ c \in b .. Len(s)
    BY <1>1
  <1> QED BY <1>2, ConcatAdjacentSubSeq
-----------------------------------------------------------------------------
(* Pieces.                                                                 *)

LEMMA ByteIsNat == \A b \in Byte : b \in Nat /\ b <= 255
  BY DEF Byte

LEMMA HeartbeatBytes ==
    /\ build_heartbeat \in Seq(Byte)
    /\ Len(build_heartbeat) = HEARTBEAT_LENGTH
    /\ build_heartbeat[1] = HEARTBEAT_MARKER
  <1> DEFINE head  == <<HEARTBEAT_MARKER>>
             zeros == [i \in 1 .. HEARTBEAT_LENGTH - 1 |-> 0]
  <1>1. zeros \in Seq(Byte) /\ Len(zeros) = 5
    BY DEF HEARTBEAT_LENGTH, Byte
  <1>2. head \in Seq(Byte) /\ Len(head) = 1 /\ head[1] = HEARTBEAT_MARKER
    BY DEF HEARTBEAT_MARKER, Byte
  <1> HIDE DEF head, zeros
  <1>3. /\ head \o zeros \in Seq(Byte)
        /\ Len(head \o zeros) = Len(head) + Len(zeros)
        /\ \A i \in 1 .. Len(head) + Len(zeros) :
             (head \o zeros)[i] = IF i <= Len(head) THEN head[i] ELSE zeros[i - Len(head)]
    BY <1>1, <1>2, ConcatProperties
  <1> QED BY <1>3 DEF build_heartbeat, head, zeros, HEARTBEAT_LENGTH

\* The length of a piece depends on the bytes of the piece only.
LEMMA PieceIsLocal ==
    ASSUME NEW s \in Seq(Byte), NEW p \in Nat, p < Len(s),
           p + PieceLength(s, p) <= Len(s),
           NEW t \in Seq(Byte), NEW q \in Nat,
           q + PieceLength(s, p) <= Len(t),
           \A i \in 1 .. PieceLength(s, p) : t[q + i] = s[p + i]
    PROVE  PieceLength(t, q) = PieceLength(s, p)
  <1> DEFINE n == PieceLength(s, p)
  <1>0. Len(s) \in Nat /\ Len(t) \in Nat /\ s[p + 1] \in Nat
    <2>1. Len(s) \in Nat /\ Len(t) \in Nat
      BY LenProperties
    <2>2. p + 1 \in 1 .. Len(s)
      BY <2>1
    <2>3. s[p + 1] \in Byte
      BY <2>2, ElementOfSeq
    <2> QED BY <2>1, <2>3, ByteIsNat
  <1>1. CASE p + HEARTBEAT_LENGTH <= Len(s) /\ StartsWithHeartbeat(s, p)
    <2>1. n = HEARTBEAT_LENGTH
      BY <1>1 DEF PieceLength
    <2>2. StartsWithHeartbeat(t, q)
      BY <1>1, <2>1 DEF StartsWithHeartbeat
    <2> QED BY <2>1, <2>2 DEF PieceLength
  <1>2. CASE ~(p + HEARTBEAT_LENGTH <= Len(s) /\ StartsWithHeartbeat(s, p))
    <2>1. CASE s[p + 1] < MIN_FRAME_LENGTH
      <3>1. n = 1
        BY <1>2, <2>1 DEF PieceLength
      <3>2. t[q + 1] = s[p + 1]
        BY <3>1
      <3>3. ~StartsWithHeartbeat(t, q)
        <4>1. t[q + 1] # build_heartbeat[1]
          BY <2>1, <3>2, <1>0, HeartbeatBytes DEF HEARTBEAT_MARKER, MIN_FRAME_LENGTH
        <4> QED BY <4>1 DEF StartsWithHeartbeat, HEARTBEAT_LENGTH
      <3> QED BY <2>1, <3>1, <3>2, <3>3 DEF PieceLength
    <2>2. CASE ~(s[p + 1] < MIN_FRAME_LENGTH)
      <3>1. n = s[p + 1] + 1
        BY <1>2, <2>2 DEF PieceLength
      <3> HIDE DEF n
      <3>5. n \in Nat /\ n >= HEARTBEAT_LENGTH
        BY <1>0, <3>1, <2>2 DEF MIN_FRAME_LENGTH, HEARTBEAT_LENGTH
      <3>6. \A i \in 1 .. n : t[q + i] = s[p + i]
        BY DEF n
      <3>7. p + HEARTBEAT_LENGTH <= Len(s)
        BY <1>0, <3>5 DEF HEARTBEAT_LENGTH, n
      <3>2. t[q + 1] = s[p + 1]
        BY <3>5, <3>6 DEF HEARTBEAT_LENGTH
      <3>3. ~StartsWithHeartbeat(s, p)
        BY <1>2, <3>7
      <3>4. ~StartsWithHeartbeat(t, q)
        BY <3>5, <3>6, <3>3 DEF StartsWithHeartbeat, HEARTBEAT_LENGTH
      <3> QED BY <2>2, <3>1, <3>2, <3>4 DEF PieceLength, n
    <2> QED BY <2>1, <2>2
  <1> QED BY <1>1, <1>2

\* A piece is never empty.
LEMMA PieceNotEmpty ==
    ASSUME NEW s \in Seq(Byte), NEW p \in Nat, p < Len(s)
    PROVE  PieceLength(s, p) \in Nat /\ PieceLength(s, p) >= 1
  <1>1. s[p + 1] \in Nat
    <2>1. p + 1 \in 1 .. Len(s)
      BY LenProperties
    <2>2. s[p + 1] \in Byte
      BY <2>1, ElementOfSeq
    <2> QED BY <2>2, ByteIsNat
  <1> QED BY <1>1 DEF PieceLength, HEARTBEAT_LENGTH, MIN_FRAME_LENGTH

\* More bytes on the stream do not change a piece that is complete.
LEMMA PieceStable ==
    ASSUME NEW s \in Seq(Byte), NEW t \in Seq(Byte), NEW p \in Nat, p < Len(s),
           p + PieceLength(s, p) <= Len(s)
    PROVE  PieceLength(s \o t, p) = PieceLength(s, p)
  <1>1. /\ s \o t \in Seq(Byte)
        /\ Len(s \o t) = Len(s) + Len(t)
        /\ \A i \in 1 .. Len(s) : (s \o t)[i] = s[i]
        /\ Len(s) \in Nat /\ Len(t) \in Nat
    BY ConcatProperties, LenProperties
  <1>2. PieceLength(s, p) \in Nat
    BY PieceNotEmpty
  <1>3. p + PieceLength(s, p) <= Len(s \o t)
    BY <1>1, <1>2
  <1>4. \A i \in 1 .. PieceLength(s, p) : (s \o t)[p + i] = s[p + i]
    BY <1>1, <1>2
  <1> QED BY <1>1, <1>3, <1>4, PieceIsLocal
-----------------------------------------------------------------------------
(* Every turn of the loop cuts one piece of the stream.                    *)

Lists == {"frames", "heartbeats", "errors"}

Cut(n, list) == \E item : Take(n, list, item)

InvWindow == TypeOK /\ BufferIsUnparsedPart

\* The buffer, indexed as the part of the stream it is.
LEMMA BufferBytes ==
    ASSUME InvWindow
    PROVE  /\ rcv \in Nat /\ Len(buffer) \in Nat /\ Len(stream) \in Nat
           /\ Consumed \in Nat /\ Consumed + Len(buffer) = rcv /\ rcv <= Len(stream)
           /\ \A i \in 1 .. Len(buffer) :
                buffer[i] = stream[Consumed + i] /\ buffer[i] \in Nat /\ buffer[i] <= 255
  <1>1. /\ rcv \in Nat /\ Len(buffer) \in Nat /\ Len(stream) \in Nat
        /\ Consumed \in Nat /\ Consumed + Len(buffer) = rcv /\ rcv <= Len(stream)
        /\ buffer \in Seq(Byte) /\ stream \in Seq(Byte)
    BY LenProperties DEF InvWindow, TypeOK, Consumed
  <1>2. \A i \in 1 .. rcv - Consumed : SubSeq(stream, Consumed + 1, rcv)[i] = stream[Consumed + i]
    BY <1>1, Window
  <1>3. \A i \in 1 .. Len(buffer) : buffer[i] = stream[Consumed + i]
    BY <1>1, <1>2 DEF InvWindow, BufferIsUnparsedPart
  <1>4. \A i \in 1 .. Len(buffer) : buffer[i] \in Byte
    BY <1>1, ElementOfSeq
  <1> QED BY <1>1, <1>3, <1>4, ByteIsNat

\* The test on the buffer is the test on the stream.
LEMMA HeartbeatSeen ==
    ASSUME InvWindow, Len(buffer) >= HEARTBEAT_LENGTH
    PROVE  WholeHeartbeat <=> StartsWithHeartbeat(stream, Consumed)
  <1> DEFINE six == SubSeq(buffer, 1, HEARTBEAT_LENGTH)
  <1>1. buffer \in Seq(Byte) /\ Len(buffer) \in Nat
    BY LenProperties DEF InvWindow, TypeOK
  <1>2. /\ six \in Seq(Byte) /\ Len(six) = HEARTBEAT_LENGTH
        /\ \A i \in 1 .. HEARTBEAT_LENGTH : six[i] = buffer[i]
    <2>1. /\ SubSeq(buffer, 0 + 1, HEARTBEAT_LENGTH) \in Seq(Byte)
          /\ Len(SubSeq(buffer, 0 + 1, HEARTBEAT_LENGTH)) = HEARTBEAT_LENGTH - 0
          /\ \A i \in 1 .. HEARTBEAT_LENGTH - 0 :
               SubSeq(buffer, 0 + 1, HEARTBEAT_LENGTH)[i] = buffer[0 + i]
      BY <1>1, Window DEF HEARTBEAT_LENGTH
    <2> QED BY <2>1 DEF HEARTBEAT_LENGTH
  <1>3. \A i \in 1 .. HEARTBEAT_LENGTH : six[i] = stream[Consumed + i]
    <2>1. \A i \in 1 .. HEARTBEAT_LENGTH : i \in 1 .. Len(buffer)
      BY <1>1 DEF HEARTBEAT_LENGTH
    <2>2. \A i \in 1 .. Len(buffer) : buffer[i] = stream[Consumed + i]
      BY BufferBytes
    <2> HIDE DEF six
    <2> QED BY <1>2, <2>1, <2>2
  <1> HIDE DEF six
  <1>4. six = build_heartbeat <=> \A i \in 1 .. HEARTBEAT_LENGTH : six[i] = build_heartbeat[i]
    BY <1>2, HeartbeatBytes, SeqEqual
  <1>5. six = build_heartbeat <=> StartsWithHeartbeat(stream, Consumed)
    BY <1>3, <1>4 DEF StartsWithHeartbeat
  <1>6. six = build_heartbeat => buffer[1] = HEARTBEAT_MARKER
    BY <1>2, HeartbeatBytes DEF HEARTBEAT_LENGTH
  <1> QED BY <1>5, <1>6 DEF WholeHeartbeat, six

LEMMA TurnCutsPiece ==
    ASSUME InvWindow, Turn
    PROVE  \E n \in 1 .. Len(buffer), list \in Lists :
             /\ n = PieceLength(stream, Consumed)
             /\ Cut(n, list)
  <1>1. InLoop
    BY DEF Turn, TakeHeartbeat, DiscardByte, RejectFrame, RejectReader, AcceptFrame, FrameAhead
  <1>2. buffer # <<>> /\ ~PartialHeartbeat /\ ~PartialFrame
    BY <1>1 DEF InLoop, Waiting
  <1>3. Len(buffer) \in Nat /\ Len(buffer) >= 1
    BY <1>2, EmptySeq DEF InvWindow, TypeOK
  <1>4. buffer[1] = stream[Consumed + 1] /\ buffer[1] \in Nat /\ buffer[1] <= 255
    BY <1>3, BufferBytes
  <1>5. CASE TakeHeartbeat
    <2>1. WholeHeartbeat /\ Cut(HEARTBEAT_LENGTH, "heartbeats")
      BY <1>5 DEF TakeHeartbeat, Cut
    <2>2. Len(buffer) >= HEARTBEAT_LENGTH
      BY <2>1 DEF WholeHeartbeat
    <2>3. Consumed + HEARTBEAT_LENGTH <= Len(stream) /\ StartsWithHeartbeat(stream, Consumed)
      BY <2>1, <2>2, HeartbeatSeen, BufferBytes DEF HEARTBEAT_LENGTH
    <2>4. HEARTBEAT_LENGTH = PieceLength(stream, Consumed)
      BY <2>3 DEF PieceLength
    <2>5. HEARTBEAT_LENGTH \in 1 .. Len(buffer)
      BY <1>3, <2>2 DEF HEARTBEAT_LENGTH
    <2> QED BY <2>1, <2>4, <2>5 DEF Lists
  <1>6. CASE DiscardByte
    <2>1. ~WholeHeartbeat /\ buffer[1] < MIN_FRAME_LENGTH /\ Cut(1, "errors")
      BY <1>6 DEF DiscardByte, Cut
    <2>2. ~StartsWithHeartbeat(stream, Consumed)
      <3>1. stream[Consumed + 1] # build_heartbeat[1]
        BY <1>4, <2>1, HeartbeatBytes DEF MIN_FRAME_LENGTH, HEARTBEAT_MARKER
      <3> QED BY <3>1 DEF StartsWithHeartbeat, HEARTBEAT_LENGTH
    <2>3. 1 = PieceLength(stream, Consumed)
      BY <1>4, <2>1, <2>2 DEF PieceLength
    <2> QED BY <1>3, <2>1, <2>3 DEF Lists
  <1>7. CASE RejectFrame \/ RejectReader \/ AcceptFrame
    <2>1. FrameAhead
      BY <1>7 DEF RejectFrame, RejectReader, AcceptFrame
    <2>2. PICK list \in Lists : Cut(buffer[1] + 1, list)
      BY <1>7 DEF RejectFrame, RejectReader, AcceptFrame, Cut, Lists
    <2>3. ~WholeHeartbeat /\ ~(buffer[1] < MIN_FRAME_LENGTH)
      BY <2>1, <1>4 DEF FrameAhead, MIN_FRAME_LENGTH
    <2>4. Len(buffer) >= buffer[1] + 1
      BY <1>2, <1>3, <1>4, <2>3 DEF PartialFrame, MIN_FRAME_LENGTH
    <2>5. ~StartsWithHeartbeat(stream, Consumed)
      <3>1. Len(buffer) >= HEARTBEAT_LENGTH
        BY <1>3, <1>4, <2>3, <2>4 DEF MIN_FRAME_LENGTH, HEARTBEAT_LENGTH
      <3> QED BY <2>3, <3>1, HeartbeatSeen
    <2>6. buffer[1] + 1 = PieceLength(stream, Consumed)
      BY <1>4, <2>3, <2>5 DEF PieceLength
    <2>7. buffer[1] + 1 \in 1 .. Len(buffer)
      BY <1>3, <1>4, <2>4
    <2> QED BY <2>2, <2>6, <2>7
  <1> QED BY <1>5, <1>6, <1>7 DEF Turn
-----------------------------------------------------------------------------
(* Type correctness and the window.                                        *)

\* What a cut does to the typed part of the state.
LEMMA CutTypes ==
    ASSUME InvWindow, NEW n \in 1 .. Len(buffer), NEW list \in Lists, Cut(n, list)
    PROVE  /\ buffer' = SubSeq(stream, (Consumed + n) + 1, rcv)
           /\ buffer' \in Seq(Byte) /\ Len(buffer') = Len(buffer) - n
           /\ Consumed' = Consumed + n
           /\ taken' = Append(taken, [at    |-> Consumed,
                                      bytes |-> SubSeq(stream, Consumed + 1, Consumed + n),
                                      as    |-> list])
           /\ Consumed \in Nat /\ SubSeq(stream, Consumed + 1, Consumed + n) \in Seq(Byte)
           /\ Len(SubSeq(stream, Consumed + 1, Consumed + n)) = n
           /\ DOMAIN result' = DOMAIN result
           /\ UNCHANGED <<stream, rcv, pc, sent, garbled>>
  <1>1. PICK item : Take(n, list, item)
    BY DEF Cut
  <1>2. /\ rcv \in Nat /\ Len(buffer) \in Nat /\ Len(stream) \in Nat
        /\ Consumed \in Nat /\ Consumed + Len(buffer) = rcv /\ rcv <= Len(stream)
        /\ n \in Nat /\ n <= Len(buffer)
        /\ stream \in Seq(Byte) /\ buffer \in Seq(Byte)
        /\ buffer = SubSeq(stream, Consumed + 1, rcv)
    BY BufferBytes DEF InvWindow, TypeOK, BufferIsUnparsedPart
  <1>3. /\ SubSeq(buffer, n + 1, Len(buffer)) \in Seq(Byte)
        /\ Len(SubSeq(buffer, n + 1, Len(buffer))) = Len(buffer) - n
    BY <1>2, Window
  <1>4. SubSeq(buffer, n + 1, Len(buffer)) = SubSeq(stream, (Consumed + n) + 1, rcv)
    <2>1. Consumed <= rcv /\ Consumed + Len(buffer) <= rcv
      BY <1>2
    <2>2. SubSeq(SubSeq(stream, Consumed + 1, rcv), n + 1, Len(buffer))
            = SubSeq(stream, (Consumed + n) + 1, Consumed + Len(buffer))
      BY <1>2, <2>1, WindowOfWindow
    <2> QED BY <1>2, <2>2
  <1>5. SubSeq(buffer, 1, n) = SubSeq(stream, Consumed + 1, Consumed + n)
    <2>1. Consumed <= rcv /\ Consumed + n <= rcv /\ 0 \in Nat /\ 0 <= n
      BY <1>2
    <2>2. SubSeq(SubSeq(stream, Consumed + 1, rcv), 0 + 1, n)
            = SubSeq(stream, (Consumed + 0) + 1, Consumed + n)
      BY <1>2, <2>1, WindowOfWindow
    <2> QED BY <1>2, <2>2
  <1>6. /\ SubSeq(stream, Consumed + 1, Consumed + n) \in Seq(Byte)
        /\ Len(SubSeq(stream, Consumed + 1, Consumed + n)) = n
    <2>1. Consumed + n \in Nat /\ Consumed <= Consumed + n /\ Consumed + n <= Len(stream)
          /\ (Consumed + n) - Consumed = n
      BY <1>2
    <2> QED BY <1>2, <2>1, Window
  <1>7. /\ buffer' = SubSeq(buffer, n + 1, Len(buffer))
        /\ UNCHANGED <<stream, rcv, pc, sent, garbled>>
        /\ DOMAIN result' = DOMAIN result
        /\ taken' = Append(taken, [at |-> rcv - Len(buffer),
                                   bytes |-> SubSeq(buffer, 1, n), as |-> list])
    BY <1>1 DEF Take
  <1>8. Consumed' = Consumed + n
    <2>1. Len(buffer') = Len(buffer) - n /\ rcv' = rcv
      BY <1>3, <1>7
    <2>2. Consumed' = rcv' - Len(buffer') /\ Consumed = rcv - Len(buffer)
      BY DEF Consumed
    <2> QED BY <1>2, <2>1, <2>2
  <1>9. rcv - Len(buffer) = Consumed
    BY DEF Consumed
  <1> QED BY <1>2, <1>3, <1>4, <1>5, <1>6, <1>7, <1>8, <1>9

LEMMA FeedTypes ==
    ASSUME InvWindow, NEW n \in ChunkSizes, Feed(n)
    PROVE  /\ buffer' = SubSeq(stream, Consumed + 1, rcv + n)
           /\ buffer' \in Seq(Byte) /\ Len(buffer') = Len(buffer) + n
           /\ Consumed' = Consumed
           /\ n \in Nat /\ rcv' = rcv + n /\ rcv + n <= Len(stream)
           /\ DOMAIN result' = {"frames", "heartbeats", "errors"}
           /\ pc' = "loop"
           /\ UNCHANGED <<stream, sent, garbled, taken>>
  <1>1. /\ rcv \in Nat /\ Len(buffer) \in Nat /\ Len(stream) \in Nat
        /\ Consumed \in Nat /\ Consumed + Len(buffer) = rcv
        /\ n \in Nat /\ rcv + n <= Len(stream) /\ rcv + n \in Nat
        /\ stream \in Seq(Byte) /\ buffer \in Seq(Byte)
        /\ buffer = SubSeq(stream, Consumed + 1, rcv)
    BY BufferBytes, BoundsAssumption DEF InvWindow, TypeOK, BufferIsUnparsedPart, Feed
  <1>2. /\ SubSeq(stream, rcv + 1, rcv + n) \in Seq(Byte)
        /\ Len(SubSeq(stream, rcv + 1, rcv + n)) = n
    <2>1. rcv <= rcv + n /\ (rcv + n) - rcv = n
      BY <1>1
    <2>2. /\ SubSeq(stream, rcv + 1, rcv + n) \in Seq(Byte)
          /\ Len(SubSeq(stream, rcv + 1, rcv + n)) = (rcv + n) - rcv
      BY <1>1, <2>1, Window, SMTT(60)
    <2> QED BY <2>1, <2>2
  <1>3. /\ buffer \o SubSeq(stream, rcv + 1, rcv + n) \in Seq(Byte)
        /\ Len(buffer \o SubSeq(stream, rcv + 1, rcv + n)) = Len(buffer) + n
    <2> DEFINE t == SubSeq(stream, rcv + 1, rcv + n)
    <2>1. t \in Seq(Byte) /\ Len(t) = n
      BY <1>2
    <2> HIDE DEF t
    <2>2. /\ buffer \o t \in Seq(Byte)
          /\ Len(buffer \o t) = Len(buffer) + Len(t)
      BY <1>1, <2>1, ConcatProperties
    <2> QED BY <2>1, <2>2 DEF t
  <1>4. buffer \o SubSeq(stream, rcv + 1, rcv + n) = SubSeq(stream, Consumed + 1, rcv + n)
    <2>1. Consumed <= rcv /\ rcv <= rcv + n
      BY <1>1
    <2> QED BY <1>1, <2>1, WindowGrows
  <1>5. /\ buffer' = buffer \o SubSeq(stream, rcv + 1, rcv + n)
        /\ rcv' = rcv + n /\ pc' = "loop" /\ result' = EmptyResult
        /\ UNCHANGED <<stream, sent, garbled, taken>>
    BY DEF Feed
  <1>6. Consumed' = Consumed
    <2>1. Len(buffer') = Len(buffer) + n
      BY <1>3, <1>5
    <2>2. Consumed' = rcv' - Len(buffer') /\ Consumed = rcv - Len(buffer)
      BY DEF Consumed
    <2> QED BY <1>1, <1>5, <2>1, <2>2
  <1>7. DOMAIN result' = {"frames", "heartbeats", "errors"}
    BY <1>5 DEF EmptyResult
  <1> QED BY <1>1, <1>3, <1>4, <1>5, <1>6, <1>7
-----------------------------------------------------------------------------
(* Writing to the stream leaves the windows on what was there before.      *)

LEMMA GrowthKeepsWindow ==
    ASSUME InvWindow, NEW t \in Seq(Byte), stream' = stream \o t,
           UNCHANGED <<rcv, buffer, pc, taken>>
    PROVE  /\ stream' \in Seq(Byte) /\ Len(stream') = Len(stream) + Len(t)
           /\ Len(t) \in Nat
           /\ rcv' \in 0 .. Len(stream')
           /\ Consumed' = Consumed
           /\ BufferIsUnparsedPart'
  <1>1. /\ rcv \in Nat /\ Len(buffer) \in Nat /\ Len(stream) \in Nat
        /\ Consumed \in Nat /\ Consumed <= rcv /\ rcv <= Len(stream)
        /\ stream \in Seq(Byte) /\ Len(t) \in Nat
    BY BufferBytes, LenProperties DEF InvWindow, TypeOK
  <1>2. stream \o t \in Seq(Byte) /\ Len(stream \o t) = Len(stream) + Len(t)
    BY <1>1, ConcatProperties
  <1>3. SubSeq(stream \o t, Consumed + 1, rcv) = SubSeq(stream, Consumed + 1, rcv)
    BY <1>1, WindowOfConcat
  <1>4. Consumed' = Consumed
    BY DEF Consumed
  <1>5. BufferIsUnparsedPart'
    BY <1>3, <1>4 DEF InvWindow, BufferIsUnparsedPart
  <1>6. rcv' \in 0 .. Len(stream')
    <2>1. rcv' = rcv /\ Len(stream') = Len(stream) + Len(t)
      BY <1>2
    <2> QED BY <1>1, <2>1
  <1> QED BY <1>1, <1>2, <1>4, <1>5, <1>6

LEMMA WindowInit == Init => InvWindow
  <1> SUFFICES ASSUME Init PROVE InvWindow
    OBVIOUS
  <1> USE DEF Init
  <1>1. stream \in Seq(Byte) /\ buffer \in Seq(Byte) /\ Len(stream) = 0 /\ Len(buffer) = 0
    BY EmptySeq
  <1>2. /\ sent \in Seq([at : Nat, bytes : Messages])
        /\ taken \in Seq([at : Nat, bytes : Seq(Byte), as : Lists])
    BY EmptySeq
  <1>3. DOMAIN result = {"frames", "heartbeats", "errors"}
    BY DEF EmptyResult
  <1>4. TypeOK
    BY <1>1, <1>2, <1>3 DEF TypeOK, Lists
  <1>5. BufferIsUnparsedPart
    BY <1>1, SubSeqEmpty DEF BufferIsUnparsedPart, Consumed
  <1> QED BY <1>4, <1>5 DEF InvWindow

LEMMA WindowStep == InvWindow /\ [Next]_vars => InvWindow'
  <1> SUFFICES ASSUME InvWindow, [Next]_vars PROVE InvWindow'
    OBVIOUS
  <1>0. TypeOK /\ BufferIsUnparsedPart
    BY DEF InvWindow
  <1>1. CASE \E m \in Messages : Write(m)
    <2>1. PICK m \in Messages : Write(m)
      BY <1>1
    <2>2. m \in Seq(Byte)
      BY MessagesAssumption
    <2>3. /\ stream' = stream \o m
          /\ sent' = Append(sent, [at |-> Len(stream), bytes |-> m])
          /\ UNCHANGED <<rcv, buffer, result, pc, garbled, taken>>
      BY <2>1 DEF Write
    <2>4. /\ stream' \in Seq(Byte) /\ rcv' \in 0 .. Len(stream') /\ BufferIsUnparsedPart'
      BY <2>2, <2>3, GrowthKeepsWindow
    <2>5. sent' \in Seq([at : Nat, bytes : Messages])
      <3>1. [at |-> Len(stream), bytes |-> m] \in [at : Nat, bytes : Messages]
        BY <1>0, LenProperties DEF TypeOK
      <3> QED BY <1>0, <2>3, <3>1, AppendProperties DEF TypeOK
    <2>6. TypeOK'
      BY <1>0, <2>3, <2>4, <2>5 DEF TypeOK
    <2> QED BY <2>4, <2>6 DEF InvWindow
  <1>2. CASE \E n \in Noise : Garble(n)
    <2>1. PICK n \in Noise : Garble(n)
      BY <1>2
    <2>2. n \in Seq(Byte)
      BY NoiseAssumption
    <2>3. /\ stream' = stream \o n
          /\ garbled' = garbled + 1
          /\ UNCHANGED <<rcv, buffer, result, pc, sent, taken>>
      BY <2>1 DEF Garble
    <2>4. /\ stream' \in Seq(Byte) /\ rcv' \in 0 .. Len(stream') /\ BufferIsUnparsedPart'
      BY <2>2, <2>3, GrowthKeepsWindow
    <2>5. garbled' \in Nat
      BY <1>0, <2>3 DEF TypeOK
    <2>6. TypeOK'
      BY <1>0, <2>3, <2>4, <2>5 DEF TypeOK
    <2> QED BY <2>4, <2>6 DEF InvWindow
  <1>3. CASE Reset
    <2>1. Init'
      BY <1>3, <1>0 DEF Reset, Init, TypeOK
    <2> QED BY <2>1, WindowInit, PTL
  <1>4. CASE FeedAny
    <2>1. PICK n \in ChunkSizes : Feed(n)
      BY <1>4 DEF FeedAny
    <2>2. /\ buffer' = SubSeq(stream, Consumed + 1, rcv + n)
          /\ buffer' \in Seq(Byte) /\ Len(buffer') = Len(buffer) + n
          /\ Consumed' = Consumed
          /\ n \in Nat /\ rcv' = rcv + n /\ rcv + n <= Len(stream)
          /\ DOMAIN result' = {"frames", "heartbeats", "errors"}
          /\ pc' = "loop"
          /\ UNCHANGED <<stream, sent, garbled, taken>>
      BY <2>1, FeedTypes
    <2>3. BufferIsUnparsedPart'
      BY <2>2 DEF BufferIsUnparsedPart
    <2>4. rcv' \in 0 .. Len(stream') /\ Len(buffer') <= rcv'
      <3>1. /\ rcv \in Nat /\ Len(buffer) \in Nat /\ Len(buffer) <= rcv
            /\ Len(stream') = Len(stream) /\ Len(stream) \in Nat
        BY <2>2, BufferBytes
      <3> QED BY <2>2, <3>1
    <2>5. TypeOK'
      BY <1>0, <2>2, <2>4 DEF TypeOK
    <2> QED BY <2>3, <2>5 DEF InvWindow
  <1>5. CASE Turn
    <2>1. PICK n \in 1 .. Len(buffer), list \in Lists : Cut(n, list)
      BY <1>5, TurnCutsPiece
    <2>2. /\ buffer' = SubSeq(stream, (Consumed + n) + 1, rcv)
          /\ buffer' \in Seq(Byte) /\ Len(buffer') = Len(buffer) - n
          /\ Consumed' = Consumed + n
          /\ taken' = Append(taken, [at    |-> Consumed,
                                     bytes |-> SubSeq(stream, Consumed + 1, Consumed + n),
                                     as    |-> list])
          /\ Consumed \in Nat /\ SubSeq(stream, Consumed + 1, Consumed + n) \in Seq(Byte)
          /\ DOMAIN result' = DOMAIN result
          /\ UNCHANGED <<stream, rcv, pc, sent, garbled>>
      BY <2>1, CutTypes
    <2>3. BufferIsUnparsedPart'
      BY <2>2 DEF BufferIsUnparsedPart
    <2>4. Len(buffer') <= rcv'
      <3>1. /\ rcv \in Nat /\ Len(buffer) \in Nat /\ Len(buffer) <= rcv
            /\ n \in Nat /\ rcv' = rcv
        BY <2>2, BufferBytes
      <3> QED BY <2>2, <3>1
    <2>5. taken' \in Seq([at : Nat, bytes : Seq(Byte), as : Lists])
      <3>1. [at |-> Consumed, bytes |-> SubSeq(stream, Consumed + 1, Consumed + n),
             as |-> list] \in [at : Nat, bytes : Seq(Byte), as : Lists]
        BY <2>2
      <3>2. taken \in Seq([at : Nat, bytes : Seq(Byte), as : Lists])
        BY <1>0 DEF TypeOK, Lists
      <3> QED BY <2>2, <3>1, <3>2, AppendProperties
    <2>6. TypeOK'
      BY <1>0, <2>2, <2>4, <2>5 DEF TypeOK, Lists
    <2> QED BY <2>3, <2>6 DEF InvWindow
  <1>6. CASE Return
    <2>1. /\ UNCHANGED <<stream, rcv, buffer, result, sent, garbled, taken>>
          /\ pc' = "idle"
      BY <1>6 DEF Return
    <2>2. TypeOK'
      BY <1>0, <2>1 DEF TypeOK
    <2>3. BufferIsUnparsedPart'
      BY <1>0, <2>1 DEF BufferIsUnparsedPart, Consumed
    <2> QED BY <2>2, <2>3 DEF InvWindow
  <1>7. CASE UNCHANGED vars
    BY <1>0, <1>7 DEF InvWindow, TypeOK, BufferIsUnparsedPart, Consumed, vars
  <1> QED BY <1>1, <1>2, <1>3, <1>4, <1>5, <1>6, <1>7 DEF Next, Parse

\* The state of the buffer is well typed, and the buffer is exactly the part of
\* the stream that has arrived and is not yet cut off: feed() and reset() lose,
\* repeat and invent no byte, for any peer and any chunks.
THEOREM BufferWindow == Spec => [](TypeOK /\ BufferIsUnparsedPart)
  <1>1. Spec => []InvWindow
    BY WindowInit, WindowStep, PTL DEF Spec
  <1> QED BY <1>1, PTL DEF InvWindow

\* Whatever is written and however it is cut into chunks, buffer, offsets and
\* the lists of results keep their types.
THEOREM BufferTypes == Spec => []TypeOK
  BY BufferWindow, PTL
-----------------------------------------------------------------------------
(* The pieces tile the stream.                                             *)

PieceEnd(piece) == piece.at + Len(piece.bytes)

InvTiles ==
    /\ ChunkIndependence
    /\ \A i \in 1 .. Len(taken) :
         Len(taken[i].bytes) >= 1 /\ PieceEnd(taken[i]) <= Consumed

LEMMA TakenTypes ==
    ASSUME InvWindow
    PROVE  /\ Len(taken) \in Nat
           /\ \A i \in 1 .. Len(taken) :
                /\ taken[i].at \in Nat
                /\ taken[i].bytes \in Seq(Byte) /\ Len(taken[i].bytes) \in Nat
  <1>1. taken \in Seq([at : Nat, bytes : Seq(Byte), as : Lists])
    BY DEF InvWindow, TypeOK, Lists
  <1>2. Len(taken) \in Nat
    BY <1>1, LenProperties
  <1>3. \A i \in 1 .. Len(taken) : taken[i] \in [at : Nat, bytes : Seq(Byte), as : Lists]
    BY <1>1, ElementOfSeq
  <1>4. \A i \in 1 .. Len(taken) : taken[i].at \in Nat /\ taken[i].bytes \in Seq(Byte)
    BY <1>3
  <1> QED BY <1>2, <1>4, LenProperties

LEMMA TilesInit == Init => InvTiles
  <1> SUFFICES ASSUME Init PROVE InvTiles
    OBVIOUS
  <1>1. taken = <<>> /\ Len(taken) = 0 /\ Consumed = 0
    <2>1. taken = <<>> /\ buffer = <<>> /\ rcv = 0
      BY DEF Init
    <2>2. Len(taken) = 0 /\ Len(buffer) = 0
      BY <2>1, EmptySeq
    <2>3. Consumed = rcv - Len(buffer)
      BY DEF Consumed
    <2>4. Consumed = 0 - 0
      BY <2>1, <2>2, <2>3, Zenon
    <2> QED BY <2>1, <2>2, <2>4
  <1> QED BY <1>1 DEF InvTiles, ChunkIndependence

LEMMA TilesGrow ==
    ASSUME InvWindow, InvTiles, NEW t \in Seq(Byte), stream' = stream \o t,
           UNCHANGED <<rcv, buffer, pc, taken>>
    PROVE  InvTiles'
  <1>1. Consumed' = Consumed /\ stream \in Seq(Byte)
    BY DEF Consumed, InvWindow, TypeOK
  <1>2. SUFFICES ASSUME NEW i \in 1 .. Len(taken)
                 PROVE  /\ PieceLength(stream', taken[i].at) = PieceLength(stream, taken[i].at)
                        /\ SubSeq(stream', taken[i].at + 1, taken[i].at + Len(taken[i].bytes))
                             = SubSeq(stream, taken[i].at + 1, taken[i].at + Len(taken[i].bytes))
    BY <1>1 DEF InvTiles, ChunkIndependence, PieceEnd
  <1> DEFINE a == taken[i].at
             n == Len(taken[i].bytes)
  <1>3. /\ a \in Nat /\ n \in Nat /\ n >= 1 /\ n = PieceLength(stream, a)
        /\ a + n <= Consumed /\ Consumed \in Nat /\ Consumed <= Len(stream)
        /\ Len(stream) \in Nat
    <2>1. a \in Nat /\ n \in Nat
      BY TakenTypes
    <2>2. n >= 1 /\ a + n <= Consumed
      BY DEF InvTiles, PieceEnd
    <2>3. n = PieceLength(stream, a)
      BY DEF InvTiles, ChunkIndependence
    <2>4. Consumed \in Nat /\ Consumed <= Len(stream) /\ Len(stream) \in Nat
      BY BufferBytes
    <2> HIDE DEF a, n
    <2> QED BY <2>1, <2>2, <2>3, <2>4
  <1> HIDE DEF a, n
  <1>4. a < Len(stream) /\ a + PieceLength(stream, a) <= Len(stream)
    BY <1>3
  <1>5. PieceLength(stream \o t, a) = PieceLength(stream, a)
    BY <1>1, <1>3, <1>4, PieceStable
  <1>6. SubSeq(stream \o t, a + 1, a + n) = SubSeq(stream, a + 1, a + n)
    <2>1. a + n \in Nat /\ a <= a + n /\ a + n <= Len(stream)
      BY <1>3
    <2>2. stream \in Seq(Byte) /\ t \in Seq(Byte) /\ a \in Nat
      BY <1>1, <1>3
    <2> QED BY ONLY <2>1, <2>2, WindowOfConcat
  <1> QED BY <1>5, <1>6 DEF a, n

LEMMA TilesCut ==
    ASSUME InvWindow, InvTiles, NEW n \in 1 .. Len(buffer), NEW list \in Lists,
           n = PieceLength(stream, Consumed), Cut(n, list)
    PROVE  InvTiles'
  <1> DEFINE k     == Len(taken)
             piece == [at |-> Consumed,
                       bytes |-> SubSeq(stream, Consumed + 1, Consumed + n), as |-> list]
  <1>1. /\ taken' = Append(taken, piece)
        /\ Consumed' = Consumed + n /\ stream' = stream
        /\ Consumed \in Nat /\ piece.bytes \in Seq(Byte) /\ Len(piece.bytes) = n
    BY CutTypes
  <1>2. n \in Nat /\ n >= 1 /\ k \in Nat
    BY TakenTypes, BufferBytes
  <1>3. /\ Len(taken') = k + 1
        /\ \A i \in 1 .. k : taken'[i] = taken[i]
        /\ taken'[k + 1] = piece
    <2>1. taken \in Seq([at : Nat, bytes : Seq(Byte), as : Lists])
      BY DEF InvWindow, TypeOK, Lists
    <2>2. piece \in [at : Nat, bytes : Seq(Byte), as : Lists]
      BY <1>1
    <2> HIDE DEF piece
    <2> QED BY <1>1, <2>1, <2>2, AppendProperties
  <1>4. piece.at = Consumed /\ piece.bytes = SubSeq(stream, Consumed + 1, Consumed + n)
    OBVIOUS
  <1> HIDE DEF piece
  <1>5. Consumed = IF k = 0 THEN 0 ELSE taken[k].at + Len(taken[k].bytes)
    <2>1. taken = <<>> <=> k = 0
      <3>1. taken \in Seq([at : Nat, bytes : Seq(Byte), as : Lists])
        BY DEF InvWindow, TypeOK, Lists
      <3> QED BY <3>1, EmptySeq
    <2> QED BY <2>1 DEF InvTiles, ChunkIndependence
  <1>6. taken' # <<>>
    BY <1>2, <1>3, EmptySeq
  <1> HIDE DEF k
  <1>7. ASSUME NEW i \in 1 .. k
        PROVE  /\ taken'[i].at = IF i = 1 THEN 0
                                 ELSE taken'[i - 1].at + Len(taken'[i - 1].bytes)
               /\ Len(taken'[i].bytes) = PieceLength(stream', taken'[i].at)
               /\ taken'[i].bytes =
                    SubSeq(stream', taken'[i].at + 1, taken'[i].at + Len(taken'[i].bytes))
               /\ Len(taken'[i].bytes) >= 1
               /\ PieceEnd(taken'[i]) <= Consumed'
    <2>1. taken'[i] = taken[i] /\ (i # 1 => taken'[i - 1] = taken[i - 1])
      BY <1>2, <1>3
    <2>2. /\ taken[i].at = IF i = 1 THEN 0
                           ELSE taken[i - 1].at + Len(taken[i - 1].bytes)
          /\ Len(taken[i].bytes) = PieceLength(stream, taken[i].at)
          /\ taken[i].bytes =
               SubSeq(stream, taken[i].at + 1, taken[i].at + Len(taken[i].bytes))
          /\ Len(taken[i].bytes) >= 1
          /\ PieceEnd(taken[i]) <= Consumed
      BY DEF InvTiles, ChunkIndependence, k
    <2>3. PieceEnd(taken[i]) \in Nat
      BY TakenTypes DEF PieceEnd, k
    <2>4. PieceEnd(taken[i]) <= Consumed + n
      BY <1>1, <1>2, <2>2, <2>3
    <2> QED BY <1>1, <2>1, <2>2, <2>4
  <1>8. /\ piece.at = IF k + 1 = 1 THEN 0 ELSE taken'[k].at + Len(taken'[k].bytes)
        /\ Len(piece.bytes) = PieceLength(stream', piece.at)
        /\ piece.bytes = SubSeq(stream', piece.at + 1, piece.at + Len(piece.bytes))
        /\ Len(piece.bytes) >= 1
        /\ PieceEnd(piece) <= Consumed'
        /\ Consumed' = PieceEnd(piece)
    <2>1. k # 0 => taken'[k] = taken[k]
      BY <1>2, <1>3
    <2>2. piece.at = IF k + 1 = 1 THEN 0 ELSE taken'[k].at + Len(taken'[k].bytes)
      BY <1>2, <1>4, <1>5, <2>1
    <2>3. PieceEnd(piece) = Consumed + n
      BY <1>1, <1>4 DEF PieceEnd
    <2>4. PieceLength(stream', piece.at) = n
      BY <1>1, <1>4
    <2>5. piece.bytes = SubSeq(stream', piece.at + 1, piece.at + Len(piece.bytes))
      BY <1>1, <1>4
    <2>6. PieceEnd(piece) <= Consumed' /\ Consumed' = PieceEnd(piece)
      BY <1>1, <1>2, <2>3
    <2> QED BY <1>1, <1>2, <2>2, <2>4, <2>5, <2>6
  <1>9. ChunkIndependence'
    <2>1. ASSUME NEW i \in 1 .. Len(taken')
          PROVE  /\ taken'[i].at = IF i = 1 THEN 0
                                   ELSE taken'[i - 1].at + Len(taken'[i - 1].bytes)
                 /\ Len(taken'[i].bytes) = PieceLength(stream', taken'[i].at)
                 /\ taken'[i].bytes =
                      SubSeq(stream', taken'[i].at + 1, taken'[i].at + Len(taken'[i].bytes))
      <3>1. CASE i \in 1 .. k
        BY <1>7, <3>1
      <3>2. CASE i = k + 1
        <4>1. i - 1 = k
          BY <1>2, <3>2
        <4> QED BY <1>3, <1>8, <3>2, <4>1
      <3> QED BY <1>2, <1>3, <3>1, <3>2
    <2>2. Consumed' = taken'[Len(taken')].at + Len(taken'[Len(taken')].bytes)
      BY <1>3, <1>8 DEF PieceEnd
    <2> QED BY <1>6, <2>1, <2>2 DEF ChunkIndependence
  <1>10. ASSUME NEW i \in 1 .. Len(taken')
         PROVE  Len(taken'[i].bytes) >= 1 /\ PieceEnd(taken'[i]) <= Consumed'
    <2>1. i \in 1 .. k \/ i = k + 1
      BY <1>2, <1>3
    <2> QED BY <1>3, <1>7, <1>8, <2>1
  <1> QED BY <1>9, <1>10 DEF InvTiles, PieceEnd
LEMMA ResetIsInit == InvWindow /\ Reset => Init'
  BY DEF Reset, Init, InvWindow, TypeOK

LEMMA TilesStep == InvWindow /\ InvTiles /\ [Next]_vars => InvTiles'
  <1> SUFFICES ASSUME InvWindow, InvTiles, [Next]_vars PROVE InvTiles'
    OBVIOUS
  <1>1. CASE \E m \in Messages : Write(m)
    <2>1. PICK m \in Messages : Write(m)
      BY <1>1
    <2>2. /\ m \in Seq(Byte) /\ stream' = stream \o m
          /\ UNCHANGED <<rcv, buffer, pc, taken>>
      BY <2>1, MessagesAssumption DEF Write
    <2> QED BY <2>2, TilesGrow
  <1>2. CASE \E n \in Noise : Garble(n)
    <2>1. PICK n \in Noise : Garble(n)
      BY <1>2
    <2>2. /\ n \in Seq(Byte) /\ stream' = stream \o n
          /\ UNCHANGED <<rcv, buffer, pc, taken>>
      BY <2>1, NoiseAssumption DEF Garble
    <2> QED BY <2>2, TilesGrow
  <1>3. CASE Reset
    BY <1>3, ResetIsInit, TilesInit, PTL
  <1>4. CASE FeedAny
    <2>1. PICK n \in ChunkSizes : Feed(n)
      BY <1>4 DEF FeedAny
    <2>2. Consumed' = Consumed /\ UNCHANGED <<stream, taken>>
      BY <2>1, FeedTypes
    <2> QED BY <2>2 DEF InvTiles, ChunkIndependence, PieceEnd
  <1>5. CASE Turn
    BY <1>5, TurnCutsPiece, TilesCut
  <1>6. CASE Return \/ UNCHANGED vars
    <2>1. UNCHANGED <<stream, rcv, buffer, taken>>
      BY <1>6 DEF Return, vars
    <2> QED BY <2>1 DEF InvTiles, ChunkIndependence, PieceEnd, Consumed
  <1> QED BY <1>1, <1>2, <1>3, <1>4, <1>5, <1>6 DEF Next, Parse

\* The pieces cut are those of the stream, in order and without gaps, whatever
\* the chunks and whatever noise is on the stream.
THEOREM ChunksDoNotMatter == Spec => []ChunkIndependence
  <1>1. Spec => [](InvWindow /\ InvTiles)
    BY WindowInit, WindowStep, TilesInit, TilesStep, PTL DEF Spec
  <1> QED BY <1>1, PTL DEF InvTiles
-----------------------------------------------------------------------------
(* What feed() leaves in the buffer.                                       *)

InvIdle == pc = "idle" => Waiting

LEMMA IdleInit == Init => InvIdle
  BY DEF Init, InvIdle, Waiting

LEMMA IdleStep == InvWindow /\ InvIdle /\ [Next]_vars => InvIdle'
  <1> SUFFICES ASSUME InvWindow, InvIdle, [Next]_vars PROVE InvIdle'
    OBVIOUS
  <1> USE DEF InvIdle, Waiting, PartialHeartbeat, PartialFrame, WholeHeartbeat
  <1>1. CASE (\E m \in Messages : Write(m)) \/ (\E n \in Noise : Garble(n))
    BY <1>1 DEF Write, Garble
  <1>2. CASE Reset
    BY <1>2 DEF Reset
  <1>3. CASE FeedAny
    BY <1>3 DEF FeedAny, Feed
  <1>4. CASE Turn
    <2>1. pc = "loop"
      BY <1>4 DEF Turn, TakeHeartbeat, DiscardByte, RejectFrame, RejectReader,
                  AcceptFrame, FrameAhead, InLoop
    <2>2. pc' = pc
      BY <1>4, TurnCutsPiece, CutTypes
    <2> QED BY <2>1, <2>2
  <1>5. CASE Return \/ UNCHANGED vars
    BY <1>5 DEF Return, vars
  <1> QED BY <1>1, <1>2, <1>3, <1>4, <1>5 DEF Next, Parse

LEMMA WaitingIsShort == InvWindow /\ InvIdle => HeldBytesBounded
  <1> SUFFICES ASSUME InvWindow, pc = "idle", Waiting PROVE Len(buffer) <= 255
    BY DEF InvIdle, HeldBytesBounded
  <1>1. Len(buffer) \in Nat
    BY BufferBytes
  <1>2. CASE buffer = <<>>
    <2>1. Len(buffer) = 0
      BY <1>2, EmptySeq
    <2> QED BY <2>1
  <1>3. CASE buffer # <<>> /\ PartialHeartbeat
    BY <1>1, <1>3 DEF PartialHeartbeat, HEARTBEAT_LENGTH
  <1>4. CASE buffer # <<>> /\ PartialFrame
    <2>1. Len(buffer) >= 1
      BY <1>1, <1>4, EmptySeq DEF InvWindow, TypeOK
    <2>2. buffer[1] \in Nat /\ buffer[1] <= 255
      BY <1>1, <2>1, BufferBytes
    <2> QED BY <1>1, <1>4, <2>2 DEF PartialFrame
  <1> QED BY <1>2, <1>3, <1>4 DEF Waiting

\* A reader connection never makes feed() hold more than 255 bytes, whatever
\* the peer sends and however it is chunked.
THEOREM HeldBytes == Spec => []HeldBytesBounded
  <1>1. Spec => [](InvWindow /\ InvIdle)
    BY WindowInit, WindowStep, IdleInit, IdleStep, PTL DEF Spec
  <1> QED BY <1>1, WaitingIsShort, PTL
-----------------------------------------------------------------------------
(* A peer that writes no noise: the messages tile the stream, and every cut *)
(* ends at a message boundary.                                              *)

\* Where the message after the k-th starts; the end of the stream if none.
NextAt(k) == IF k < Len(sent) THEN sent[k + 1].at ELSE Len(stream)

SentTiles ==
    /\ NextAt(0) = 0
    /\ \A i \in 1 .. Len(sent) :
         /\ PieceEnd(sent[i]) = NextAt(i)
         /\ PieceEnd(sent[i]) <= Len(stream)
         /\ SubSeq(stream, sent[i].at + 1, PieceEnd(sent[i])) = sent[i].bytes
    /\ \A i, j \in 1 .. Len(sent) : i < j => PieceEnd(sent[i]) <= sent[j].at

InvSent == garbled = 0 => SentTiles

InvBoundary == Reassembly /\ (garbled = 0 => Consumed = NextAt(Len(taken)))

LEMMA SentTypes ==
    ASSUME InvWindow
    PROVE  /\ sent \in Seq([at : Nat, bytes : Messages])
           /\ Len(sent) \in Nat
           /\ \A i \in 1 .. Len(sent) :
                /\ sent[i].at \in Nat /\ sent[i].bytes \in Messages
                /\ sent[i].bytes \in Seq(Byte) /\ Len(sent[i].bytes) \in Nat
                /\ PieceEnd(sent[i]) \in Nat /\ sent[i].at <= PieceEnd(sent[i])
  <1>1. sent \in Seq([at : Nat, bytes : Messages])
    BY DEF InvWindow, TypeOK
  <1>2. Len(sent) \in Nat
    BY <1>1, LenProperties
  <1>3. \A i \in 1 .. Len(sent) : sent[i] \in [at : Nat, bytes : Messages]
    BY <1>1, ElementOfSeq
  <1>4. \A i \in 1 .. Len(sent) :
          sent[i].at \in Nat /\ sent[i].bytes \in Messages /\ sent[i].bytes \in Seq(Byte)
    BY <1>3, MessagesAssumption
  <1>5. \A i \in 1 .. Len(sent) : Len(sent[i].bytes) \in Nat
    BY <1>4, LenProperties
  <1> QED BY <1>1, <1>2, <1>4, <1>5 DEF PieceEnd

LEMMA SentInit == Init => InvSent /\ InvBoundary
  <1> SUFFICES ASSUME Init PROVE InvSent /\ InvBoundary
    OBVIOUS
  <1>1. sent = <<>> /\ taken = <<>> /\ stream = <<>> /\ buffer = <<>> /\ rcv = 0
    BY DEF Init
  <1>2. Len(sent) = 0 /\ Len(taken) = 0 /\ Len(stream) = 0 /\ Len(buffer) = 0
    BY <1>1, EmptySeq
  <1>3. Consumed = 0
    <2>1. Consumed = rcv - Len(buffer)
      BY DEF Consumed
    <2>2. Consumed = 0 - 0
      BY <1>1, <1>2, <2>1, Zenon
    <2> QED BY <2>2
  <1> QED BY <1>2, <1>3 DEF InvSent, SentTiles, InvBoundary, Reassembly, NextAt

\* A new message starts where the stream ended and becomes its last tile.
LEMMA WriteTiles ==
    ASSUME InvWindow, SentTiles, NEW m \in Messages, Write(m)
    PROVE  /\ SentTiles'
           /\ \A k \in 0 .. Len(sent) : NextAt(k)' = NextAt(k)
           /\ Len(sent') = Len(sent) + 1
           /\ \A i \in 1 .. Len(sent) : sent'[i] = sent[i]
  <1>0. PICK k \in Nat : k = Len(sent)
    BY SentTypes
  <1> DEFINE piece == [at |-> Len(stream), bytes |-> m]
  <1>1. /\ m \in Seq(Byte) /\ Len(m) \in Nat
        /\ stream \in Seq(Byte) /\ Len(stream) \in Nat
        /\ stream' = stream \o m /\ sent' = Append(sent, piece)
    BY MessagesAssumption, LenProperties DEF Write, InvWindow, TypeOK
  <1>2. /\ piece \in [at : Nat, bytes : Messages]
        /\ piece.at = Len(stream) /\ piece.bytes = m
    BY <1>1
  <1> HIDE DEF piece
  <1>3. /\ Len(sent') = k + 1 /\ Len(sent) = k
        /\ \A i \in 1 .. k : sent'[i] = sent[i]
        /\ sent'[k + 1] = piece
    BY <1>0, <1>1, <1>2, SentTypes, AppendProperties
  <1>4. Len(stream') = Len(stream) + Len(m)
    BY <1>1, ConcatProperties
  <1>5. PieceEnd(piece) = Len(stream')
    BY <1>2, <1>4 DEF PieceEnd
  <1>6. SubSeq(stream', piece.at + 1, PieceEnd(piece)) = piece.bytes
    <2>1. SubSeq(stream \o m, Len(stream) + 1, Len(stream) + Len(m)) = m
      BY <1>1, WindowEnd
    <2> QED BY <1>1, <1>2, <1>4, <1>5, <2>1
  <1>7. \A i \in 0 .. k + 1 :
          NextAt(i)' = IF i < k + 1 THEN sent'[i + 1].at ELSE Len(stream')
    <2>1. \A i \in 0 .. k + 1 :
            NextAt(i)' = IF i < Len(sent') THEN sent'[i + 1].at ELSE Len(stream')
      BY DEF NextAt
    <2> QED BY <1>3, <2>1
  <1>8. \A i \in 0 .. k : NextAt(i)' = NextAt(i)
    <2> SUFFICES ASSUME NEW i \in 0 .. k PROVE NextAt(i)' = NextAt(i)
      OBVIOUS
    <2>1. CASE i < k
      <3>1. i + 1 \in 1 .. k
        BY <1>3, <2>1
      <3>2. NextAt(i) = sent[i + 1].at /\ NextAt(i)' = sent'[i + 1].at
        BY <1>3, <1>7, <2>1 DEF NextAt
      <3> QED BY <1>3, <3>1, <3>2
    <2>2. CASE i = k
      <3>1. NextAt(i) = Len(stream) /\ NextAt(i)' = sent'[k + 1].at
        BY <1>3, <1>7, <2>2 DEF NextAt
      <3> QED BY <1>2, <1>3, <3>1
    <2> QED BY <1>3, <2>1, <2>2
  <1>9. ASSUME NEW i \in 1 .. k
        PROVE  /\ PieceEnd(sent'[i]) = NextAt(i)'
               /\ PieceEnd(sent'[i]) <= Len(stream)
               /\ SubSeq(stream', sent'[i].at + 1, PieceEnd(sent'[i])) = sent'[i].bytes
    <2>1. sent'[i] = sent[i] /\ i \in 0 .. k
      BY <1>3
    <2>2. /\ PieceEnd(sent[i]) = NextAt(i) /\ PieceEnd(sent[i]) <= Len(stream)
          /\ SubSeq(stream, sent[i].at + 1, PieceEnd(sent[i])) = sent[i].bytes
      BY <1>3 DEF SentTiles
    <2>3. sent[i].at \in Nat /\ PieceEnd(sent[i]) \in Nat /\ sent[i].at <= PieceEnd(sent[i])
      BY <1>3, SentTypes
    <2>4. SubSeq(stream \o m, sent[i].at + 1, PieceEnd(sent[i]))
            = SubSeq(stream, sent[i].at + 1, PieceEnd(sent[i]))
      <3> DEFINE a == sent[i].at
                 b == PieceEnd(sent[i])
      <3>1. a \in Nat /\ b \in Nat /\ a <= b /\ b <= Len(stream)
        BY <2>2, <2>3
      <3> HIDE DEF a, b
      <3>2. SubSeq(stream \o m, a + 1, b) = SubSeq(stream, a + 1, b)
        BY <1>1, <3>1, WindowOfConcat
      <3> QED BY <3>2 DEF a, b
    <2> QED BY <1>1, <1>8, <2>1, <2>2, <2>4
  <1>10. NextAt(k + 1)' = Len(stream')
    BY <1>3, <1>7
  <1>11. NextAt(0)' = 0
    BY <1>3, <1>8 DEF SentTiles
  <1>12. ASSUME NEW i \in 1 .. Len(sent')
         PROVE  /\ PieceEnd(sent'[i]) = NextAt(i)'
                /\ PieceEnd(sent'[i]) <= Len(stream')
                /\ SubSeq(stream', sent'[i].at + 1, PieceEnd(sent'[i])) = sent'[i].bytes
    <2>1. CASE i \in 1 .. k
      <3>1. PieceEnd(sent'[i]) \in Nat
        BY <1>3, <2>1, SentTypes
      <3>2. PieceEnd(sent'[i]) <= Len(stream')
        BY <1>1, <1>4, <1>9, <2>1, <3>1
      <3> QED BY <1>9, <2>1, <3>2
    <2>2. CASE i = k + 1
      <3>1. PieceEnd(sent'[i]) <= Len(stream')
        BY <1>1, <1>3, <1>4, <1>5, <2>2
      <3> QED BY <1>3, <1>5, <1>6, <1>10, <2>2, <3>1
    <2> QED BY <1>3, <2>1, <2>2
  <1>13. ASSUME NEW i \in 1 .. Len(sent'), NEW j \in 1 .. Len(sent'), i < j
         PROVE  PieceEnd(sent'[i]) <= sent'[j].at
    <2>1. CASE j \in 1 .. k
      BY <1>3, <1>13, <2>1 DEF SentTiles
    <2>2. CASE j = k + 1
      <3>1. i \in 1 .. k
        BY <1>3, <1>13, <2>2
      <3> QED BY <1>2, <1>3, <1>9, <2>2, <3>1
    <2> QED BY <1>3, <2>1, <2>2
  <1>14. SentTiles'
    BY <1>11, <1>12, <1>13 DEF SentTiles, PieceEnd
  <1> QED BY <1>3, <1>8, <1>14
\* A self-delimiting message on the stream is one piece of it.
LEMMA PieceOfMessage ==
    ASSUME InvWindow, SentTiles, NEW i \in 1 .. Len(sent)
    PROVE  /\ PieceLength(stream, sent[i].at) = Len(sent[i].bytes)
           /\ Len(sent[i].bytes) >= 1
  <1> DEFINE m == sent[i].bytes
             a == sent[i].at
  <1>1. /\ m \in Messages /\ m \in Seq(Byte) /\ Len(m) \in Nat /\ a \in Nat
        /\ a + Len(m) <= Len(stream)
        /\ SubSeq(stream, a + 1, a + Len(m)) = m
        /\ stream \in Seq(Byte) /\ Len(stream) \in Nat
    BY SentTypes, LenProperties DEF SentTiles, PieceEnd, InvWindow, TypeOK
  <1> HIDE DEF m, a
  <1>2. m # <<>> /\ PieceLength(m, 0) = Len(m)
    BY <1>1, MessagesAssumption DEF SelfDelimiting
  <1>3. Len(m) >= 1
    BY <1>1, <1>2, EmptySeq
  <1>4. \A j \in 1 .. Len(m) : stream[a + j] = m[0 + j]
    <2>1. /\ a + Len(m) \in Nat /\ a <= a + Len(m) /\ (a + Len(m)) - a = Len(m)
      BY <1>1
    <2>2. \A j \in 1 .. (a + Len(m)) - a :
            SubSeq(stream, a + 1, a + Len(m))[j] = stream[a + j]
      BY <1>1, <2>1, Window
    <2> QED BY <1>1, <2>1, <2>2
  <1>5. PieceLength(stream, a) = PieceLength(m, 0)
    <2>1. 0 \in Nat /\ 0 < Len(m) /\ 0 + PieceLength(m, 0) <= Len(m)
      BY <1>1, <1>2, <1>3
    <2>2. a + PieceLength(m, 0) <= Len(stream)
      BY <1>1, <1>2
    <2>3. \A j \in 1 .. PieceLength(m, 0) : stream[a + j] = m[0 + j]
      BY <1>2, <1>4
    <2> QED BY <1>1, <2>1, <2>2, <2>3, PieceIsLocal
  <1> QED BY <1>2, <1>3, <1>5 DEF m, a

LEMMA CutBoundary ==
    ASSUME InvWindow, InvSent, InvBoundary, NEW n \in 1 .. Len(buffer), NEW list \in Lists,
           n = PieceLength(stream, Consumed), Cut(n, list)
    PROVE  InvBoundary'
  <1>0. /\ UNCHANGED <<stream, sent, garbled>>
        /\ Consumed' = Consumed + n
        /\ SubSeq(stream, Consumed + 1, Consumed + n) \in Seq(Byte)
        /\ taken' = Append(taken, [at    |-> Consumed,
                                   bytes |-> SubSeq(stream, Consumed + 1, Consumed + n),
                                   as    |-> list])
    BY CutTypes
  <1> SUFFICES ASSUME garbled = 0
               PROVE  /\ Len(taken') <= Len(sent')
                      /\ \A i \in 1 .. Len(taken') :
                           taken'[i].at = sent'[i].at /\ taken'[i].bytes = sent'[i].bytes
                      /\ Consumed' = NextAt(Len(taken))'
    BY <1>0 DEF InvBoundary, Reassembly
  <1>1. PICK k \in Nat : k = Len(taken)
    BY TakenTypes
  <1>2. /\ SentTiles /\ k <= Len(sent) /\ Consumed = NextAt(k)
        /\ \A i \in 1 .. k : taken[i].at = sent[i].at /\ taken[i].bytes = sent[i].bytes
    BY <1>1 DEF InvSent, InvBoundary, Reassembly
  <1>3. /\ Consumed \in Nat /\ n \in Nat /\ n >= 1 /\ Len(sent) \in Nat
        /\ Len(stream) \in Nat /\ Consumed + n <= Len(stream)
    BY BufferBytes, SentTypes
  <1>4. k < Len(sent)
    BY <1>1, <1>2, <1>3 DEF NextAt
  <1>5. k + 1 \in 1 .. Len(sent) /\ Consumed = sent[k + 1].at
    BY <1>2, <1>3, <1>4 DEF NextAt
  <1>6. n = Len(sent[k + 1].bytes)
    BY <1>2, <1>5, PieceOfMessage
  <1> DEFINE piece == [at    |-> Consumed,
                       bytes |-> SubSeq(stream, Consumed + 1, Consumed + n),
                       as    |-> list]
  <1>7. piece.at = sent[k + 1].at /\ piece.bytes = sent[k + 1].bytes
    BY <1>2, <1>5, <1>6 DEF SentTiles, PieceEnd
  <1>8. piece \in [at : Nat, bytes : Seq(Byte), as : Lists]
    BY <1>0, <1>3
  <1> HIDE DEF piece
  <1>9. /\ Len(taken') = k + 1
        /\ \A i \in 1 .. k : taken'[i] = taken[i]
        /\ taken'[k + 1] = piece
    <2>1. taken \in Seq([at : Nat, bytes : Seq(Byte), as : Lists])
      BY DEF InvWindow, TypeOK, Lists
    <2>2. taken' = Append(taken, piece)
      BY <1>0 DEF piece
    <2> QED BY <1>1, <1>8, <2>1, <2>2, AppendProperties
  <1>10. Len(taken') <= Len(sent')
    <2>1. Len(sent') = Len(sent)
      BY <1>0
    <2> QED BY <1>3, <1>4, <1>9, <2>1
  <1>11. ASSUME NEW i \in 1 .. Len(taken')
         PROVE  taken'[i].at = sent'[i].at /\ taken'[i].bytes = sent'[i].bytes
    <2>1. i \in 1 .. k \/ i = k + 1
      BY <1>9
    <2> QED BY <1>0, <1>2, <1>7, <1>9, <2>1
  <1>12. Consumed' = NextAt(Len(taken))'
    <2>1. Consumed' = PieceEnd(sent[k + 1])
      BY <1>0, <1>5, <1>6 DEF PieceEnd
    <2>2. PieceEnd(sent[k + 1]) = NextAt(k + 1)
      BY <1>2, <1>5 DEF SentTiles
    <2>3. NextAt(Len(taken))' = NextAt(k + 1)
      BY <1>0, <1>9 DEF NextAt
    <2> QED BY <2>1, <2>2, <2>3
  <1> QED BY <1>10, <1>11, <1>12

LEMMA SentStep == InvWindow /\ InvSent /\ InvBoundary /\ [Next]_vars => InvSent' /\ InvBoundary'
  <1> SUFFICES ASSUME InvWindow, InvSent, InvBoundary, [Next]_vars
               PROVE  InvSent' /\ InvBoundary'
    OBVIOUS
  <1>1. CASE \E m \in Messages : Write(m)
    <2>1. PICK m \in Messages : Write(m)
      BY <1>1
    <2>2. garbled' = garbled /\ taken' = taken /\ Consumed' = Consumed
      BY <2>1 DEF Write, Consumed
    <2> SUFFICES ASSUME garbled = 0 PROVE InvSent' /\ InvBoundary'
      BY <2>2 DEF InvSent, InvBoundary, Reassembly
    <2>3. /\ SentTiles /\ Len(taken) <= Len(sent) /\ Consumed = NextAt(Len(taken))
          /\ \A i \in 1 .. Len(taken) :
               taken[i].at = sent[i].at /\ taken[i].bytes = sent[i].bytes
      BY DEF InvSent, InvBoundary, Reassembly
    <2>4. /\ SentTiles' /\ Len(sent') = Len(sent) + 1
          /\ \A k \in 0 .. Len(sent) : NextAt(k)' = NextAt(k)
          /\ \A i \in 1 .. Len(sent) : sent'[i] = sent[i]
      BY <2>1, <2>3, WriteTiles
    <2>5. PICK k \in Nat : k = Len(taken)
      BY TakenTypes
    <2>6. Len(sent) \in Nat /\ k \in 0 .. Len(sent)
      BY <2>3, <2>5, SentTypes
    <2>7. Consumed' = NextAt(Len(taken))'
      <3>1. NextAt(Len(taken))' = NextAt(k)'
        BY <2>2, <2>5
      <3> QED BY <2>2, <2>3, <2>4, <2>5, <2>6, <3>1
    <2>8. Reassembly'
      <3>1. Len(taken') <= Len(sent')
        BY <2>2, <2>4, <2>5, <2>6
      <3>2. \A i \in 1 .. Len(taken') :
              taken'[i].at = sent'[i].at /\ taken'[i].bytes = sent'[i].bytes
        BY <2>2, <2>3, <2>4, <2>5, <2>6
      <3> QED BY <3>1, <3>2 DEF Reassembly
    <2> QED BY <2>4, <2>7, <2>8 DEF InvSent, InvBoundary
  <1>2. CASE \E n \in Noise : Garble(n)
    <2>1. garbled' # 0
      BY <1>2 DEF Garble, InvWindow, TypeOK
    <2> QED BY <2>1 DEF InvSent, InvBoundary, Reassembly
  <1>3. CASE Reset
    BY <1>3, ResetIsInit, SentInit, PTL
  <1>4. CASE FeedAny
    <2>1. Consumed' = Consumed /\ UNCHANGED <<stream, sent, garbled, taken>>
      BY <1>4, FeedTypes DEF FeedAny
    <2> QED BY <2>1 DEF InvSent, SentTiles, InvBoundary, Reassembly, NextAt, PieceEnd
  <1>5. CASE Turn
    <2>1. PICK n \in 1 .. Len(buffer), list \in Lists :
            n = PieceLength(stream, Consumed) /\ Cut(n, list)
      BY <1>5, TurnCutsPiece
    <2>2. UNCHANGED <<stream, sent, garbled>>
      BY <2>1, CutTypes
    <2>3. InvSent'
      BY <2>2 DEF InvSent, SentTiles, NextAt, PieceEnd
    <2> QED BY <2>1, <2>3, CutBoundary
  <1>6. CASE Return \/ UNCHANGED vars
    <2>1. UNCHANGED <<stream, rcv, buffer, sent, garbled, taken>>
      BY <1>6 DEF Return, vars
    <2> QED BY <2>1 DEF InvSent, SentTiles, InvBoundary, Reassembly, NextAt, PieceEnd, Consumed
  <1> QED BY <1>1, <1>2, <1>3, <1>4, <1>5, <1>6 DEF Next, Parse
\* Every message of a peer that writes no noise is taken whole, once and in
\* order, for every chunking of the stream.
THEOREM MessagesReassembled == Spec => []Reassembly
  <1>1. Spec => [](InvWindow /\ InvSent /\ InvBoundary)
    BY WindowInit, WindowStep, SentInit, SentStep, PTL DEF Spec
  <1> QED BY <1>1, PTL DEF InvBoundary

\* A complete message at the front of the buffer is never waited on.
LEMMA WaitingNeedsMore ==
    ASSUME InvWindow, InvIdle, InvSent, InvBoundary
    PROVE  NothingHeldBack
  <1> SUFFICES ASSUME pc = "idle", garbled = 0, NEW i \in 1 .. Len(sent),
                      PieceEnd(sent[i]) <= rcv, ~(i <= Len(taken))
               PROVE  FALSE
    BY DEF NothingHeldBack, PieceEnd
  <1>1. PICK k \in Nat : k = Len(taken)
    BY TakenTypes
  <1>2. /\ SentTiles /\ k <= Len(sent) /\ Consumed = NextAt(k)
        /\ Len(sent) \in Nat /\ k < i
    BY <1>1, SentTypes DEF InvSent, InvBoundary, Reassembly
  <1>3. k + 1 \in 1 .. Len(sent) /\ Consumed = sent[k + 1].at
    BY <1>2 DEF NextAt
  <1>4. PieceEnd(sent[k + 1]) <= rcv
    <2>1. CASE i = k + 1
      BY <2>1
    <2>2. CASE k + 1 < i
      <3>1. /\ PieceEnd(sent[k + 1]) <= sent[i].at /\ sent[i].at <= PieceEnd(sent[i])
            /\ PieceEnd(sent[k + 1]) \in Nat /\ PieceEnd(sent[i]) \in Nat
            /\ sent[i].at \in Nat
        BY <1>2, <1>3, <2>2, SentTypes DEF SentTiles
      <3>2. rcv \in Nat
        BY BufferBytes
      <3> QED BY <3>1, <3>2
    <2> QED BY <1>2, <2>1, <2>2
  <1> DEFINE n == PieceLength(stream, Consumed)
  <1>5. n = Len(sent[k + 1].bytes) /\ n >= 1 /\ n \in Nat
    BY <1>2, <1>3, PieceOfMessage, SentTypes
  <1>6. Len(buffer) >= n
    BY <1>3, <1>4, <1>5, BufferBytes DEF PieceEnd
  <1>7. /\ Len(buffer) \in Nat /\ Len(buffer) >= 1 /\ buffer # <<>>
        /\ buffer[1] = stream[Consumed + 1] /\ buffer[1] \in Nat
    <2>1. Len(buffer) \in Nat /\ Len(buffer) >= 1
      BY <1>5, <1>6, BufferBytes
    <2> QED BY <2>1, BufferBytes, EmptySeq
  <1>8. PartialHeartbeat \/ PartialFrame
    BY <1>7 DEF InvIdle, Waiting
  <1>9. n = HEARTBEAT_LENGTH \/ n = buffer[1] + 1 \/ (n = 1 /\ buffer[1] < MIN_FRAME_LENGTH)
    BY <1>7 DEF PieceLength
  <1>10. CASE PartialHeartbeat
    BY <1>6, <1>7, <1>9, <1>10
      DEF PartialHeartbeat, HEARTBEAT_LENGTH, HEARTBEAT_MARKER, MIN_FRAME_LENGTH
  <1>11. CASE PartialFrame
    <2>1. ~WholeHeartbeat /\ ~(buffer[1] < MIN_FRAME_LENGTH) /\ ~(Len(buffer) >= buffer[1] + 1)
      BY <1>7, <1>11 DEF PartialFrame, MIN_FRAME_LENGTH
    <2>2. n = HEARTBEAT_LENGTH /\ n # buffer[1] + 1
      BY <1>6, <1>9, <2>1
    <2>3. StartsWithHeartbeat(stream, Consumed)
      BY <1>7, <2>1, <2>2 DEF PieceLength
    <2>4. WholeHeartbeat
      BY <1>6, <2>2, <2>3, HeartbeatSeen
    <2> QED BY <2>1, <2>4
  <1> QED BY <1>8, <1>10, <1>11

\* When feed() returns, no complete message is left waiting in the buffer.
THEOREM NoMessageHeldBack == Spec => []NothingHeldBack
  <1>1. Spec => [](InvWindow /\ InvIdle /\ InvSent /\ InvBoundary)
    BY WindowInit, WindowStep, IdleInit, IdleStep, SentInit, SentStep, PTL DEF Spec
  <1> QED BY <1>1, WaitingNeedsMore, PTL
-----------------------------------------------------------------------------
(* Refinement.                                                             *)

\* The bytes of a history with one more entry.
LEMMA BytesOfAppend ==
    ASSUME NEW S, NEW s \in Seq(S), NEW t \in Seq(S), NEW e \in S,
           \A x \in S : x.bytes \in Seq(Byte),
           t = Append(s, e)
    PROVE  [i \in 1 .. Len(t) |-> t[i].bytes]
             = Append([i \in 1 .. Len(s) |-> s[i].bytes], e.bytes)
  <1> DEFINE u == [i \in 1 .. Len(t) |-> t[i].bytes]
             v == [i \in 1 .. Len(s) |-> s[i].bytes]
  <1>0. PICK n \in Nat : n = Len(s)
    BY LenProperties
  <1>1. /\ Len(t) = n + 1 /\ t[n + 1] = e
        /\ \A i \in 1 .. n : t[i] = s[i] /\ s[i] \in S
    BY <1>0, AppendProperties, ElementOfSeq
  <1>2. v \in Seq(Seq(Byte)) /\ Len(v) = n /\ \A i \in 1 .. n : v[i] = s[i].bytes
    BY <1>0, <1>1
  <1>3. u \in Seq(Seq(Byte)) /\ Len(u) = n + 1 /\ \A i \in 1 .. n + 1 : u[i] = t[i].bytes
    <2>1. \A i \in 1 .. n + 1 : t[i].bytes \in Seq(Byte)
      <3>1. \A i \in 1 .. n + 1 : t[i] \in S
        BY <1>1, ElementOfSeq
      <3> QED BY <3>1
    <2> QED BY <1>1, <2>1
  <1> HIDE DEF u, v
  <1>4. /\ Append(v, e.bytes) \in Seq(Seq(Byte)) /\ Len(Append(v, e.bytes)) = n + 1
        /\ \A i \in 1 .. n : Append(v, e.bytes)[i] = v[i]
        /\ Append(v, e.bytes)[n + 1] = e.bytes
    BY <1>2, AppendProperties
  <1>5. \A i \in 1 .. n + 1 : u[i] = Append(v, e.bytes)[i]
    <2> SUFFICES ASSUME NEW i \in 1 .. n + 1 PROVE u[i] = Append(v, e.bytes)[i]
      OBVIOUS
    <2>1. CASE i \in 1 .. n
      BY <1>1, <1>2, <1>3, <1>4, <2>1
    <2>2. CASE i = n + 1
      BY <1>1, <1>3, <1>4, <2>2
    <2>3. i \in 1 .. n \/ i = n + 1
      OBVIOUS
    <2> QED BY <2>1, <2>2, <2>3
  <1>6. u = Append(v, e.bytes)
    BY <1>3, <1>4, <1>5, SeqEqual
  <1> QED BY <1>6 DEF u, v

InvAll == InvWindow /\ InvSent /\ InvBoundary /\ garbled = 0

LEMMA StepRefines ==
    ASSUME Noise = {}, InvAll, InvBoundary', [Next]_vars
    PROVE  [Abstract!Next]_(Abstract!vars)
  <1> DEFINE Written == [i \in 1 .. Len(sent)  |-> sent[i].bytes]
             Handed  == [i \in 1 .. Len(taken) |-> taken[i].bytes]
             Piece   == [at : Nat, bytes : Seq(Byte), as : Lists]
             Message == [at : Nat, bytes : Messages]
  <1>0. /\ InvWindow /\ garbled = 0
        /\ sent \in Seq(Message) /\ taken \in Seq(Piece)
        /\ \A x \in Message : x.bytes \in Seq(Byte)
        /\ \A x \in Piece : x.bytes \in Seq(Byte)
    BY MessagesAssumption DEF InvAll, InvWindow, TypeOK, Lists
  <1>1. CASE \E m \in Messages : Write(m)
    <2>1. PICK m \in Messages : Write(m)
      BY <1>1
    <2> DEFINE message == [at |-> Len(stream), bytes |-> m]
    <2>2. sent' = Append(sent, message) /\ taken' = taken
      BY <2>1 DEF Write
    <2>3. message \in Message /\ message.bytes = m
      BY <1>0, LenProperties DEF InvWindow, TypeOK
    <2> HIDE DEF message
    <2>4. sent' \in Seq(Message)
      BY <1>0, <2>2, <2>3, AppendProperties
    <2> HIDE DEF Message
    <2>5. [i \in 1 .. Len(sent') |-> sent'[i].bytes] = Append(Written, message.bytes)
      BY <1>0, <2>2, <2>3, <2>4, BytesOfAppend
    <2>6. Written' = Append(Written, m) /\ Handed' = Handed
      BY <2>2, <2>3, <2>5
    <2>7. Abstract!Write(m)
      BY <2>6 DEF Abstract!Write
    <2> QED BY <2>7 DEF Abstract!Next
  <1>2. CASE \E n \in Noise : Garble(n)
    BY <1>2
  <1>3. CASE Reset
    <2>1. sent' = <<>> /\ taken' = <<>>
      BY <1>3 DEF Reset
    <2>2. Written' = <<>> /\ Handed' = <<>>
      BY <2>1
    <2>3. Abstract!Drop
      BY <2>2 DEF Abstract!Drop
    <2> QED BY <2>3 DEF Abstract!Next
  <1>4. CASE FeedAny
    <2>1. UNCHANGED <<sent, taken>>
      BY <1>4 DEF FeedAny, Feed
    <2> QED BY <2>1 DEF Abstract!vars
  <1>5. CASE Turn
    <2>1. PICK n \in 1 .. Len(buffer), list \in Lists : Cut(n, list)
      BY <1>0, <1>5, TurnCutsPiece
    <2> DEFINE piece == [at    |-> Consumed,
                         bytes |-> SubSeq(stream, Consumed + 1, Consumed + n),
                         as    |-> list]
    <2>2. /\ taken' = Append(taken, piece) /\ UNCHANGED <<sent, garbled>>
          /\ piece \in Piece
      BY <1>0, <2>1, CutTypes
    <2> HIDE DEF piece
    <2>3. taken' \in Seq(Piece)
      BY <1>0, <2>2, AppendProperties
    <2>4. PICK k \in Nat : k = Len(taken)
      BY <1>0, TakenTypes
    <2>5. Len(taken') = k + 1 /\ taken'[k + 1] = piece
      BY <1>0, <2>2, <2>4, AppendProperties
    <2>6. k + 1 <= Len(sent) /\ piece.bytes = sent[k + 1].bytes /\ Len(sent) \in Nat
      BY <1>0, <2>2, <2>5, SentTypes DEF InvBoundary, Reassembly
    <2> HIDE DEF Piece
    <2>7. [i \in 1 .. Len(taken') |-> taken'[i].bytes] = Append(Handed, piece.bytes)
      BY <1>0, <2>2, <2>3, BytesOfAppend
    <2>8. Len(Handed) = k /\ Len(Written) = Len(sent) /\ Written[k + 1] = sent[k + 1].bytes
      BY <2>4, <2>6
    <2>9. Handed' = Append(Handed, Written[Len(Handed) + 1]) /\ Written' = Written
      BY <2>2, <2>6, <2>7, <2>8
    <2>10. Len(Handed) < Len(Written)
      BY <2>6, <2>8
    <2>11. Abstract!HandOver
      BY <2>9, <2>10 DEF Abstract!HandOver
    <2> QED BY <2>11 DEF Abstract!Next
  <1>6. CASE Return \/ UNCHANGED vars
    <2>1. UNCHANGED <<sent, taken>>
      BY <1>6 DEF Return, vars
    <2> QED BY <2>1 DEF Abstract!vars
  <1> QED BY <1>1, <1>2, <1>3, <1>4, <1>5, <1>6 DEF Next, Parse

\* With a peer that writes no noise, what the owner of the buffer sees is the
\* message stream: whole messages, once each, in order.
THEOREM BufferImplementsStream ==
    ASSUME Noise = {}
    PROVE  Spec => ImplementsMessageStream
  <1>1. Init => InvAll
    BY WindowInit, SentInit DEF InvAll, Init
  <1>2. InvAll /\ [Next]_vars => InvAll' /\ InvBoundary'
    <2> SUFFICES ASSUME InvAll, [Next]_vars PROVE InvAll' /\ InvBoundary'
      OBVIOUS
    <2>1. garbled' = 0
      <3>1. CASE Turn
        BY <3>1, TurnCutsPiece, CutTypes DEF InvAll
      <3>2. CASE ~Turn
        BY <3>2 DEF InvAll, Next, Parse, FeedAny, Feed, Write, Reset, Return, vars
      <3> QED BY <3>1, <3>2
    <2> QED BY <2>1, WindowStep, SentStep DEF InvAll
  <1>3. Init => Abstract!Init
    BY DEF Init, Abstract!Init
  <1>4. InvAll /\ InvBoundary' /\ [Next]_vars => [Abstract!Next]_(Abstract!vars)
    BY StepRefines
  <1> QED BY <1>1, <1>2, <1>3, <1>4, PTL DEF Spec, ImplementsMessageStream, Abstract!Spec
-----------------------------------------------------------------------------
(* The checksum: a word, for every sequence of bytes.                      *)

LEMMA WordMeans ==
    ASSUME NEW n \in Nat
    PROVE  n < WORDS => n \in Word
  <1>1. WORDS \in Nat
    BY DEF WORDS
  <1> QED BY <1>1 DEF Word

LEMMA WordIsNat ==
    ASSUME NEW n \in Word
    PROVE  n \in Nat /\ n < WORDS
  <1>1. WORDS \in Nat
    BY DEF WORDS
  <1> QED BY <1>1 DEF Word

LEMMA Quotient ==
    ASSUME NEW n \in Nat, NEW d \in {1, 2, 4, 8, 16, 256, 4096}
    PROVE  n \div d \in Nat /\ n \div d <= n
  OBVIOUS

LEMMA XorNibbleType ==
    ASSUME NEW a \in 0 .. 15, NEW b \in 0 .. 15
    PROVE  XorNibble[a][b] \in 0 .. 15
  <1> DEFINE bit(x, weight) == (x \div weight) % 2
             sum(weight) == weight * ((bit(a, weight) + bit(b, weight)) % 2)
  <1>1. XorNibble[a][b] = sum(1) + sum(2) + sum(4) + sum(8)
    BY DEF XorNibble
  <1>2. ASSUME NEW n \in Int, NEW m \in Int PROVE (n + m) % 2 \in 0 .. 1
    OBVIOUS
  <1>3. \A weight \in {1, 2, 4, 8} : bit(a, weight) \in Int /\ bit(b, weight) \in Int
    <2>1. \A weight \in {1, 2, 4, 8} : a \div weight \in Int /\ b \div weight \in Int
      BY Quotient
    <2> QED BY <2>1
  <1> DEFINE odd(weight) == (bit(a, weight) + bit(b, weight)) % 2
  <1>4. \A weight \in {1, 2, 4, 8} : odd(weight) \in 0 .. 1
    BY <1>2, <1>3
  <1>5. odd(1) \in 0 .. 1 /\ odd(2) \in 0 .. 1 /\ odd(4) \in 0 .. 1 /\ odd(8) \in 0 .. 1
    BY <1>4
  <1>6. XorNibble[a][b] = 1 * odd(1) + 2 * odd(2) + 4 * odd(4) + 8 * odd(8)
    BY <1>1
  <1> HIDE DEF odd
  <1> QED BY <1>5, <1>6

LEMMA FourDigits ==
    ASSUME NEW p \in Nat, NEW q \in Nat, NEW r \in Nat, NEW s \in Nat,
           p <= 15, q <= 15, r <= 15, s <= 15
    PROVE  /\ 1 * p + 16 * q + 256 * r + 4096 * s \in Nat
           /\ 1 * p + 16 * q + 256 * r + 4096 * s <= 256 * 256 - 1
  <1>1. 1 * p + 16 * q + 256 * r + 4096 * s <= 256 * 256 - 1
    OBVIOUS
  <1>2. 1 * p + 16 * q + 256 * r + 4096 * s \in Nat
    OBVIOUS
  <1> QED BY <1>1, <1>2

LEMMA XorType ==
    ASSUME NEW a \in Word, NEW b \in Word
    PROVE  Xor(a, b) \in Word
  <1> DEFINE digit(x, weight) == (x \div weight) % 16
             X(weight) == XorNibble[digit(a, weight)][digit(b, weight)]
             p == X(1)
             q == X(16)
             r == X(256)
             s == X(4096)
  <1>1. ASSUME NEW weight \in {1, 16, 256, 4096}
        PROVE  X(weight) \in Nat /\ X(weight) <= 15
    <2>1. weight \in {1, 2, 4, 8, 16, 256, 4096}
      OBVIOUS
    <2>2. a \div weight \in Int /\ b \div weight \in Int
      BY <2>1, WordIsNat, Quotient
    <2>3. \A n \in Int : n % 16 \in 0 .. 15
      OBVIOUS
    <2>4. digit(a, weight) \in 0 .. 15 /\ digit(b, weight) \in 0 .. 15
      BY <2>2, <2>3
    <2>5. X(weight) \in 0 .. 15
      BY <2>4, XorNibbleType
    <2> HIDE DEF X
    <2> QED BY <2>5
  <1>2. Xor(a, b) = 1 * p + 16 * q + 256 * r + 4096 * s
    BY DEF Xor
  <1> HIDE DEF X
  <1>3. /\ p \in Nat /\ q \in Nat /\ r \in Nat /\ s \in Nat
        /\ p <= 15 /\ q <= 15 /\ r <= 15 /\ s <= 15
    BY <1>1
  <1> HIDE DEF p, q, r, s
  <1>4. Xor(a, b) \in Nat /\ Xor(a, b) <= 256 * 256 - 1
    BY <1>2, <1>3, FourDigits
  <1>5. Xor(a, b) < WORDS
    BY <1>4 DEF WORDS
  <1> QED BY <1>4, <1>5, WordMeans

LEMMA ShiftBitType ==
    ASSUME NEW crc \in Word
    PROVE  ShiftBit(crc) \in Word
  <1>1. crc \in Nat /\ crc < WORDS /\ 2 \in {1, 2, 4, 8, 16, 256, 4096}
    BY WordIsNat
  <1> DEFINE half == crc \div 2
  <1>2. half \in Nat /\ half <= crc
    BY <1>1, Quotient
  <1> HIDE DEF half
  <1>3. half \in Word
    <2>1. half < WORDS
      BY <1>1, <1>2 DEF WORDS
    <2> QED BY <1>2, <2>1, WordMeans
  <1>4. CRC_POLYNOMIAL \in Word
    BY DEF Word, WORDS, CRC_POLYNOMIAL
  <1>5. Xor(half, CRC_POLYNOMIAL) \in Word
    BY <1>3, <1>4, XorType
  <1> QED BY <1>3, <1>5 DEF ShiftBit, half

\* What the recursion of Shifts computes from f.
ShiftsOf(f) == [k \in 0 .. 8 |->
                  [crc \in Word |-> IF k = 0 THEN crc ELSE f[k - 1][ShiftBit(crc)]]]

LEMMA ShiftsAre == Shifts = ShiftsOf(Shifts)
  <1> DEFINE S == [Word -> Word]
             next == [k \in 1 .. 8 |-> [g \in S |-> [crc \in Word |-> g[ShiftBit(crc)]]]]
             start == [crc \in Word |-> crc]
  <1>1. start \in S
    OBVIOUS
  <1>2. next \in [1 .. 8 -> [S -> S]]
    <2>1. \A g \in S : [crc \in Word |-> g[ShiftBit(crc)]] \in S
      BY ShiftBitType
    <2> HIDE DEF S
    <2> QED BY <2>1
  <1>3. \A k \in 1 .. 8, g \in S : next[k][g] = [crc \in Word |-> g[ShiftBit(crc)]]
    OBVIOUS
  <1> HIDE DEF next, S
  <1>4. PICK f \in [0 .. 8 -> S] : Iterates(f, start, next, 8)
    <2> HIDE DEF start
    <2>1. 8 \in Nat
      OBVIOUS
    <2> QED BY <1>1, <1>2, <2>1, Iterate
  <1>5. ASSUME NEW k \in 0 .. 8
        PROVE  f[k] = [crc \in Word |-> IF k = 0 THEN crc ELSE f[k - 1][ShiftBit(crc)]]
    <2>1. CASE k = 0
      BY <1>4, <2>1 DEF Iterates
    <2>2. CASE k # 0
      <3>1. k \in 1 .. 8 /\ k - 1 \in 0 .. 8
        BY <2>2
      <3>2. f[k] = next[k][f[k - 1]] /\ f[k - 1] \in S
        BY <1>4, <3>1 DEF Iterates
      <3> QED BY <1>3, <2>2, <3>1, <3>2
    <2> QED BY <2>1, <2>2
  <1>6. f = ShiftsOf(f) /\ f \in [0 .. 8 -> [Word -> Word]]
    BY <1>4, <1>5 DEF ShiftsOf, S
  <1>7. \E g : g = ShiftsOf(g)
    BY <1>6
  <1> QED BY <1>7 DEF Shifts, ShiftsOf

LEMMA ShiftsType == Shifts[8] \in [Word -> Word]
  <1> DEFINE T == {k \in 0 .. 8 : Shifts[k] \in [Word -> Word]}
  <1>1. 0 \in T
    BY ShiftsAre DEF ShiftsOf
  <1>2. ASSUME NEW k \in 1 .. 8, k - 1 \in T PROVE k \in T
    <2>1. Shifts[k] = [crc \in Word |-> Shifts[k - 1][ShiftBit(crc)]]
      <3>1. k \in 0 .. 8 /\ k # 0
        OBVIOUS
      <3> QED BY ShiftsAre, <3>1 DEF ShiftsOf
    <2>2. Shifts[k - 1] \in [Word -> Word]
      BY <1>2
    <2> QED BY <2>1, <2>2, ShiftBitType
  <1> HIDE DEF T
  <1>3. 8 \in T
    <2>1. 8 \in Nat /\ 8 \in 0 .. 8
      OBVIOUS
    <2>2. \A k \in 0 .. 8 : k \in T
      BY <1>1, <1>2, <2>1, SetInduction
    <2> QED BY <2>1, <2>2
  <1> QED BY <1>3 DEF T

LEMMA AddByteType ==
    ASSUME NEW register \in Word, NEW byte \in Byte
    PROVE  AddByte(register, byte) \in Word
  <1>1. byte \in Word
    <2>1. byte \in Nat /\ byte < WORDS
      BY DEF Byte, WORDS
    <2> QED BY <2>1, WordMeans
  <1>2. Xor(register, byte) \in Word
    BY <1>1, XorType
  <1> QED BY <1>2, ShiftsType DEF AddByte

\* What the recursion of Registers computes from f.
RegistersOf(f, data) ==
    [k \in 0 .. Len(data) |->
       [crc \in Word |-> IF k = Len(data) THEN crc ELSE f[k + 1][AddByte(crc, data[k + 1])]]]

LEMMA RegistersAre ==
    ASSUME NEW data \in Seq(Byte)
    PROVE  Registers(data) = RegistersOf(Registers(data), data)
  <1> DEFINE S == [Word -> Word]
             n == Len(data)
             next == [k \in 1 .. n |->
                        [g \in S |-> [crc \in Word |-> g[AddByte(crc, data[n - k + 1])]]]]
             start == [crc \in Word |-> crc]
  <1>0. n \in Nat /\ \A k \in 1 .. n : data[k] \in Byte
    OBVIOUS
  <1>1. start \in S
    OBVIOUS
  <1>2. ASSUME NEW k \in 1 .. n, NEW g \in S
        PROVE  [crc \in Word |-> g[AddByte(crc, data[n - k + 1])]] \in S
    <2>1. n - k + 1 \in 1 .. n
      BY <1>0
    <2>2. data[n - k + 1] \in Byte
      BY <1>0, <2>1
    <2> QED BY <2>2, AddByteType
  <1>3. next \in [1 .. n -> [S -> S]]
    <2> HIDE DEF S
    <2> QED BY <1>2
  <1>4. \A k \in 1 .. n, g \in S :
           next[k][g] = [crc \in Word |-> g[AddByte(crc, data[n - k + 1])]]
    OBVIOUS
  <1> HIDE DEF next, S
  <1>5. PICK f \in [0 .. n -> S] : Iterates(f, start, next, n)
    <2> HIDE DEF start, n
    <2> QED BY <1>0, <1>1, <1>3, Iterate
  <1> DEFINE h == [k \in 0 .. n |-> f[n - k]]
  <1>6. ASSUME NEW k \in 0 .. n
        PROVE  h[k] = [crc \in Word |-> IF k = n THEN crc ELSE h[k + 1][AddByte(crc, data[k + 1])]]
    <2>1. h[k] = f[n - k] /\ n - k \in 0 .. n
      BY <1>0
    <2>2. CASE k = n
      BY <1>0, <1>5, <2>1, <2>2 DEF Iterates
    <2>3. CASE k # n
      <3>1. /\ n - k \in 1 .. n /\ n - (n - k) + 1 = k + 1 /\ k + 1 \in 0 .. n
            /\ n - k - 1 \in 0 .. n /\ n - (k + 1) = n - k - 1
        BY <1>0, <2>3
      <3> HIDE DEF n
      <3>2. f[n - k] = next[n - k][f[n - k - 1]] /\ f[n - k - 1] \in S
        BY <1>5, <3>1 DEF Iterates
      <3>3. f[n - k] = [crc \in Word |-> f[n - k - 1][AddByte(crc, data[k + 1])]]
        <4> DEFINE j == n - k
        <4>1. next[j][f[n - k - 1]] = [crc \in Word |-> f[n - k - 1][AddByte(crc, data[n - j + 1])]]
          BY <1>4, <3>1, <3>2
        <4> QED BY <3>1, <3>2, <4>1
      <3>4. h[k + 1] = f[n - k - 1]
        BY <3>1
      <3> HIDE DEF h
      <3> QED BY <2>1, <2>3, <3>3, <3>4
    <2> QED BY <2>2, <2>3
  <1>7. h = RegistersOf(h, data)
    BY <1>6 DEF RegistersOf
  <1> HIDE DEF h
  <1>8. \E g : g = RegistersOf(g, data)
    BY <1>7
  <1> QED BY <1>8 DEF Registers, RegistersOf

LEMMA RegistersType ==
    ASSUME NEW data \in Seq(Byte)
    PROVE  Registers(data)[0] \in [Word -> Word]
  <1> DEFINE S == [Word -> Word]
             n == Len(data)
             R == Registers(data)
             T == {k \in 0 .. n : R[n - k] \in S}
  <1>1. n \in Nat /\ \A k \in 1 .. n : data[k] \in Byte
    OBVIOUS
  <1> HIDE DEF R
  <1>2. \A k \in 0 .. n :
          R[k] = [crc \in Word |-> IF k = n THEN crc ELSE R[k + 1][AddByte(crc, data[k + 1])]]
    BY RegistersAre DEF RegistersOf, R
  <1>3. 0 \in T
    <2>1. n - 0 = n /\ n \in 0 .. n /\ 0 \in 0 .. n
      BY <1>1
    <2>2. R[n] = [crc \in Word |-> crc]
      BY <1>2, <2>1
    <2> QED BY <2>1, <2>2
  <1>4. ASSUME NEW k \in 1 .. n, k - 1 \in T PROVE k \in T
    <2>1. /\ k \in 0 .. n /\ n - k \in 0 .. n /\ n - k # n
          /\ n - (k - 1) = n - k + 1 /\ n - k + 1 \in 1 .. n
      BY <1>1
    <2>2. R[n - k] = [crc \in Word |-> R[n - k + 1][AddByte(crc, data[n - k + 1])]]
      BY <1>2, <2>1
    <2>3. R[n - k + 1] \in S /\ data[n - k + 1] \in Byte
      BY <1>1, <1>4, <2>1
    <2> QED BY <2>1, <2>2, <2>3, AddByteType
  <1> HIDE DEF T
  <1>5. n \in T
    <2>1. \A k \in 0 .. n : k \in T
      BY <1>1, <1>3, <1>4, SetInduction
    <2> QED BY <1>1, <2>1
  <1>6. n - n = 0
    BY <1>1
  <1> QED BY <1>5, <1>6 DEF T, S, R

LEMMA CrcType ==
    ASSUME NEW data \in Seq(Byte)
    PROVE  crc16(data) \in Nat /\ crc16(data) < WORDS
  <1> DEFINE last == Registers(data)[0][CRC_PRESET]
  <1>1. CRC_PRESET \in Word
    BY DEF CRC_PRESET, Word, WORDS
  <1>2. last \in Word
    BY <1>1, RegistersType
  <1> HIDE DEF last
  <1>3. last \in Nat /\ last < WORDS /\ WORDS \in Nat
    BY <1>2, WordIsNat DEF WORDS
  <1>4. last % WORDS = last
    BY <1>3
  <1> QED BY <1>3, <1>4 DEF crc16, last
-----------------------------------------------------------------------------
(* The verdict.                                                            *)

\* The two bytes of a word, and the word of two bytes.
LEMMA LittleEndianBytes ==
    ASSUME NEW word \in Nat, word < WORDS
    PROVE  word % 256 \in Byte /\ word \div 256 \in Byte
  <1>1. word < 256 * 256
    BY DEF WORDS
  <1>2. word % 256 \in 0 .. 255
    BY <1>1
  <1>3. \A k \in Int : k = word \div 256 => k >= 0 /\ k <= 255
    BY <1>1
  <1>4. word \div 256 \in Int
    OBVIOUS
  <1> DEFINE high == word \div 256
  <1>5. high \in Int /\ high >= 0 /\ high <= 255
    BY <1>3, <1>4
  <1> HIDE DEF high
  <1>6. high \in 0 .. 255
    BY <1>5
  <1> QED BY <1>2, <1>6 DEF Byte, high

LEMMA LittleEndianInverse ==
    ASSUME NEW word \in Nat, NEW low \in Byte, NEW high \in Byte
    PROVE  low + 256 * high = word <=> low = word % 256 /\ high = word \div 256
  <1> DEFINE r == word % 256
             q == word \div 256
  <1>1. r \in Nat /\ q \in Int /\ r <= 255 /\ word = r + 256 * q
    OBVIOUS
  <1>2. low \in Nat /\ high \in Nat /\ low <= 255
    BY ByteIsNat
  <1> HIDE DEF r, q
  <1>3. low + 256 * high = r + 256 * q => low = r /\ high = q
    BY <1>1, <1>2
  <1>4. low = r /\ high = q => low + 256 * high = word
    BY <1>1
  <1>5. low + 256 * high = word => low = r /\ high = q
    BY <1>1, <1>3
  <1> QED BY <1>4, <1>5 DEF r, q

\* What WithCrc appends.
LEMMA WithCrcIs ==
    ASSUME NEW payload \in Seq(Byte)
    PROVE  /\ WithCrc(payload) \in Seq(Byte)
           /\ Len(WithCrc(payload)) = Len(payload) + 2
           /\ \A i \in 1 .. Len(payload) : WithCrc(payload)[i] = payload[i]
           /\ WithCrc(payload)[Len(payload) + 1] = crc16(payload) % 256
           /\ WithCrc(payload)[Len(payload) + 2] = crc16(payload) \div 256
  <1> DEFINE low == crc16(payload) % 256
             high == crc16(payload) \div 256
  <1>1. low \in Byte /\ high \in Byte
    BY CrcType, LittleEndianBytes
  <1>2. WithCrc(payload) = payload \o <<low, high>>
    BY DEF WithCrc, LittleEndian
  <1> HIDE DEF low, high
  <1>3. <<low, high>> \in Seq(Byte)
    BY <1>1
  <1>4. /\ Len(payload \o <<low, high>>) = Len(payload) + 2
        /\ payload \o <<low, high>> \in Seq(Byte)
        /\ \A i \in 1 .. Len(payload) : (payload \o <<low, high>>)[i] = payload[i]
        /\ (payload \o <<low, high>>)[Len(payload) + 1] = low
        /\ (payload \o <<low, high>>)[Len(payload) + 2] = high
    BY <1>1, <1>3
  <1> QED BY <1>2, <1>4 DEF low, high

\* A frame as long as its length byte says is what the builder makes of its
\* fields exactly when its last two bytes are the checksum of the others.
LEMMA BuiltFrame ==
    ASSUME NEW raw \in Seq(Byte), Len(raw) >= 6, Len(raw) = raw[1] + 1
    PROVE  BuiltResponse(raw) <=> ReceivedCrc(raw) = ComputedCrc(raw)
  <1> DEFINE n == Len(raw)
             data == SubSeq(raw, 5, n - 2)
             head == <<Len(data) + 5, raw[2], raw[3], raw[4]>>
             payload == SubSeq(raw, 1, n - 2)
  <1>1. n \in Nat /\ n >= 6 /\ \A i \in 1 .. n : raw[i] \in Byte
    BY LenProperties, ElementOfSeq
  <1>2. /\ data \in Seq(Byte) /\ Len(data) = n - 6
        /\ \A i \in 1 .. n - 6 : data[i] = raw[4 + i]
    <2>1. SubSeq(raw, 4 + 1, n - 2) = data /\ (n - 2) - 4 = n - 6
      BY <1>1
    <2> HIDE DEF n, data
    <2>2. n - 2 \in Nat /\ 4 <= n - 2 /\ n - 2 <= Len(raw) /\ 4 \in Nat
      BY <1>1 DEF n
    <2>3. /\ SubSeq(raw, 4 + 1, n - 2) \in Seq(Byte)
          /\ Len(SubSeq(raw, 4 + 1, n - 2)) = (n - 2) - 4
          /\ \A i \in 1 .. (n - 2) - 4 : SubSeq(raw, 4 + 1, n - 2)[i] = raw[4 + i]
      BY ONLY <2>2, Window, raw \in Seq(Byte)
    <2> QED BY <2>1, <2>3
  <1>3. /\ payload \in Seq(Byte) /\ Len(payload) = n - 2
        /\ \A i \in 1 .. n - 2 : payload[i] = raw[i]
    <2>1. SubSeq(raw, 0 + 1, n - 2) = payload /\ n - 2 - 0 = n - 2
      BY <1>1
    <2> HIDE DEF n, payload
    <2>2. n - 2 \in Nat /\ 0 <= n - 2 /\ n - 2 <= n /\ 0 \in Nat
      BY <1>1
    <2> QED BY <2>1, <2>2, Window DEF n
  <1> HIDE DEF data, payload
  <1>4. head \o data = payload
    <2>1. Len(data) + 5 = raw[1]
      <3>1. raw[1] \in Nat
        BY <1>1, ByteIsNat
      <3> QED BY <1>1, <1>2, <3>1
    <2>2. head = <<raw[1], raw[2], raw[3], raw[4]>>
      BY <2>1
    <2>3. raw[1] \in Byte /\ raw[2] \in Byte /\ raw[3] \in Byte /\ raw[4] \in Byte
      BY <1>1
    <2> HIDE DEF head
    <2>4. head \in Seq(Byte) /\ Len(head) = 4 /\ \A i \in 1 .. 4 : head[i] = raw[i]
      BY <2>2, <2>3
    <2>5. /\ head \o data \in Seq(Byte) /\ Len(head \o data) = n - 2
          /\ \A i \in 1 .. n - 2 :
               (head \o data)[i] = IF i <= 4 THEN head[i] ELSE data[i - 4]
      <3>1. 4 + (n - 6) = n - 2
        BY <1>1
      <3> HIDE DEF n
      <3> HIDE DEF head
      <3>2. /\ head \o data \in Seq(Byte) /\ Len(head \o data) = Len(head) + Len(data)
            /\ \A i \in 1 .. Len(head) + Len(data) :
                 (head \o data)[i] = IF i <= Len(head) THEN head[i] ELSE data[i - Len(head)]
        BY <1>2, <2>4, ConcatProperties
      <3> QED BY <1>2, <2>4, <3>1, <3>2
    <2>6. \A i \in 1 .. n - 2 : (head \o data)[i] = payload[i]
      <3> SUFFICES ASSUME NEW i \in 1 .. n - 2 PROVE (head \o data)[i] = raw[i]
        BY <1>3
      <3>1. CASE i <= 4
        BY <2>4, <2>5, <3>1
      <3>2. CASE ~(i <= 4)
        <4>1. i - 4 \in 1 .. n - 6 /\ 4 + (i - 4) = i
          BY <1>1, <3>2
        <4> QED BY <1>2, <2>5, <3>2, <4>1
      <3> QED BY <3>1, <3>2
    <2> HIDE DEF n
    <2> QED BY <1>3, <2>5, <2>6, SeqEqual
  <1>5. BuiltResponse(raw) <=> raw = WithCrc(payload)
    BY <1>1, <1>4 DEF BuiltResponse, build_response_frame, data
  <1> DEFINE low == crc16(payload) % 256
             high == crc16(payload) \div 256
  <1>6. raw = WithCrc(payload) <=> raw[n - 1] = low /\ raw[n] = high
    <2> DEFINE built == WithCrc(payload)
    <2>1. /\ built \in Seq(Byte) /\ Len(built) = n
          /\ \A i \in 1 .. n - 2 : built[i] = raw[i]
          /\ built[n - 1] = low /\ built[n] = high
      <3>1. n - 2 + 2 = n /\ n - 2 + 1 = n - 1
        BY <1>1
      <3> HIDE DEF n, low, high
      <3>2. /\ built \in Seq(Byte) /\ Len(built) = Len(payload) + 2
            /\ \A i \in 1 .. Len(payload) : built[i] = payload[i]
            /\ built[Len(payload) + 1] = low /\ built[Len(payload) + 2] = high
        BY <1>3, WithCrcIs DEF low, high
      <3> HIDE DEF built
      <3> QED BY <1>3, <3>1, <3>2
    <2> HIDE DEF built, low, high
    <2>2. raw = built <=> \A i \in 1 .. n : raw[i] = built[i]
      BY <2>1, SeqEqual
    <2>3. \A i \in 1 .. n : i \in 1 .. n - 2 \/ i = n - 1 \/ i = n
      BY <1>1
    <2>4. n - 1 \in 1 .. n /\ n \in 1 .. n
      BY <1>1
    <2> QED BY <2>1, <2>2, <2>3, <2>4 DEF built
  <1>7. ReceivedCrc(raw) = raw[n - 1] + 256 * raw[n] /\ ComputedCrc(raw) = crc16(payload)
    BY DEF ReceivedCrc, ComputedCrc, payload
  <1>8. raw[n - 1] \in Byte /\ raw[n] \in Byte
    BY <1>1
  <1>9. crc16(payload) \in Nat
    BY <1>3, CrcType
  <1>10. raw[n - 1] + 256 * raw[n] = crc16(payload) <=> raw[n - 1] = low /\ raw[n] = high
    BY <1>8, <1>9, LittleEndianInverse
  <1> QED BY <1>5, <1>6, <1>7, <1>10

\* And it is accepted then, with its fields.
LEMMA Verdict ==
    ASSUME NEW raw \in Seq(Byte), Len(raw) >= 6, Len(raw) = raw[1] + 1
    PROVE  /\ validate_frame(raw).kind \in {"error", "frame"}
           /\ validate_frame(raw).kind = "frame" <=> BuiltResponse(raw)
           /\ BuiltResponse(raw) => /\ validate_frame(raw).frame = RfidResponse(raw)
                                    /\ to_bytes(RfidResponse(raw)) = raw
  <1>1. raw # <<>> /\ ~(raw[1] < MIN_FRAME_LENGTH)
    <2>1. Len(raw) \in Nat /\ raw[1] \in Byte
      BY LenProperties, ElementOfSeq
    <2>2. raw[1] \in Nat
      BY <2>1, ByteIsNat
    <2>3. raw[1] >= 5
      BY <2>2
    <2> QED BY <2>1, <2>2, <2>3, EmptySeq DEF MIN_FRAME_LENGTH
  <1>2. validate_frame(raw) = IF ReceivedCrc(raw) # ComputedCrc(raw) THEN FrameError("crc")
                              ELSE [kind |-> "frame", frame |-> RfidResponse(raw)]
    BY <1>1 DEF validate_frame
  <1>3. BuiltResponse(raw) <=> ReceivedCrc(raw) = ComputedCrc(raw)
    BY BuiltFrame
  <1>4. BuiltResponse(raw) => to_bytes(RfidResponse(raw)) = raw
    BY DEF BuiltResponse, to_bytes, RfidResponse
  <1> QED BY <1>2, <1>3, <1>4 DEF FrameError

Responses == [length : Byte, reader_address : Byte, command : Byte, status : Byte, data : Seq(Byte)]

\* The pieces filed under a list, of any sequence of pieces.
Filed(pieces, list) ==
    LET places == {i \in 1 .. Len(pieces) : pieces[i].as = list}
    IN  Select(pieces, {pieces[i] : i \in places})

Pieces == [at : Nat, bytes : Seq(Byte), as : Lists]

LEMMA FiledNext ==
    ASSUME NEW pieces \in Seq(Pieces), NEW piece \in Pieces, NEW list
    PROVE  Filed(Append(pieces, piece), list) =
             IF piece.as = list THEN Append(Filed(pieces, list), piece) ELSE Filed(pieces, list)
  <1> DEFINE Keep(s) == {s[i] : i \in {j \in 1 .. Len(s) : s[j].as = list}}
             longer == Append(pieces, piece)
             n == Len(pieces)
  <1>1. /\ longer \in Seq(Pieces) /\ Len(longer) = n + 1 /\ longer[n + 1] = piece /\ n \in Nat
        /\ \A i \in 1 .. n : longer[i] = pieces[i]
    OBVIOUS
  <1> HIDE DEF longer
  <1>2. piece \in Keep(longer) <=> piece.as = list
    BY <1>1
  <1>3. \A i \in 1 .. n : pieces[i] \in Keep(longer) <=> pieces[i] \in Keep(pieces)
    <2> SUFFICES ASSUME NEW i \in 1 .. n
                 PROVE  pieces[i] \in Keep(longer) <=> pieces[i] \in Keep(pieces)
      OBVIOUS
    <2>1. pieces[i] \in Keep(pieces) <=> pieces[i].as = list
      OBVIOUS
    <2>2. i \in 1 .. Len(longer) /\ longer[i] = pieces[i]
      BY <1>1
    <2>3. pieces[i] \in Keep(longer) <=> pieces[i].as = list
      BY <2>2
    <2> QED BY <2>1, <2>3
  <1> HIDE DEF Keep
  <1>4. Select(pieces, Keep(longer)) = Select(pieces, Keep(pieces))
    BY <1>3, SelectSame
  <1>5. Select(longer, Keep(longer)) =
          IF piece \in Keep(longer) THEN Append(Select(pieces, Keep(longer)), piece)
          ELSE Select(pieces, Keep(longer))
    BY SelectAppend DEF longer
  <1>6. Filed(longer, list) = Select(longer, Keep(longer)) /\ Filed(pieces, list) = Select(pieces, Keep(pieces))
    BY DEF Filed, Keep
  <1> QED BY <1>2, <1>4, <1>5, <1>6 DEF longer

LEMMA FiledType ==
    ASSUME NEW pieces \in Seq(Pieces), NEW list
    PROVE  Filed(pieces, list) \in Seq(Pieces)
  <1> DEFINE Keep == {pieces[i] : i \in {j \in 1 .. Len(pieces) : pieces[j].as = list}}
  <1> HIDE DEF Keep
  <1>1. Select(pieces, Keep) \in Seq(Pieces \cap Keep)
    BY SelectType
  <1>2. Seq(Pieces \cap Keep) \subseteq Seq(Pieces)
    OBVIOUS
  <1> QED BY <1>1, <1>2 DEF Filed, Keep

\* The frames in the result are the last ones taken, among frames.
LastFrames(frames, accepted) ==
    /\ Len(frames) <= Len(accepted)
    /\ \A i \in 1 .. Len(frames) :
         to_bytes(frames[i]) = accepted[Len(accepted) - Len(frames) + i].bytes

InvVerdict ==
    /\ \A i \in 1 .. Len(taken) : taken[i].as = RightList(taken[i].bytes)
    /\ result = [list \in Lists |-> result[list]]
    /\ result.frames \in Seq(Responses)
    /\ LastFrames(result.frames, Filed(taken, "frames"))

LEMMA VerdictMeans == InvWindow /\ InvVerdict => RightVerdict
  <1> SUFFICES ASSUME InvWindow, InvVerdict PROVE RightVerdict
    OBVIOUS
  <1> DEFINE accepted == Filed(taken, "frames")
             frames == result.frames
  <1>1. accepted \in Seq(Pieces) /\ frames \in Seq(Responses)
    BY FiledType DEF InvWindow, TypeOK, InvVerdict, Pieces, Lists
  <1>2. TakenAs("frames") = accepted
    BY DEF TakenAs, Filed
  <1>3. LastFrames(frames, accepted)
    BY DEF InvVerdict
  <1> HIDE DEF accepted, frames
  <1>4. Len(accepted) \in Nat /\ Len(frames) \in Nat
    BY <1>1, LenProperties
  <1>5. /\ Len(accepted) - Len(frames) >= 0
        /\ \A i \in 1 .. Len(frames) :
             to_bytes(frames[i]) = accepted[Len(accepted) - Len(frames) + i].bytes
    BY <1>3, <1>4 DEF LastFrames
  <1>6. \A i \in 1 .. Len(taken) : taken[i].as = RightList(taken[i].bytes)
    BY DEF InvVerdict
  <1> QED BY <1>2, <1>5, <1>6 DEF RightVerdict, frames

LEMMA VerdictInit == Init => InvVerdict
  <1> SUFFICES ASSUME Init PROVE InvVerdict
    OBVIOUS
  <1>1. taken = <<>> /\ Len(taken) = 0
    BY DEF Init
  <1>2. result = EmptyResult
    BY DEF Init
  <1>3. /\ result = [list \in Lists |-> result[list]]
        /\ result.frames = <<>> /\ <<>> \in Seq(Responses)
    BY <1>2 DEF EmptyResult, Lists
  <1>4. Filed(taken, "frames") \in Seq(Pieces)
    <2>1. taken \in Seq(Pieces)
      BY <1>1
    <2> QED BY <2>1, FiledType
  <1>5. LastFrames(<<>>, Filed(taken, "frames"))
    BY <1>4, LenProperties DEF LastFrames
  <1>6. \A i \in 1 .. Len(taken) : taken[i].as = RightList(taken[i].bytes)
    BY <1>1
  <1> QED BY <1>3, <1>5, <1>6 DEF InvVerdict

\* The first n bytes of the buffer.
LEMMA FirstBytes ==
    ASSUME InvWindow, NEW n \in 1 .. Len(buffer)
    PROVE  /\ SubSeq(buffer, 1, n) \in Seq(Byte) /\ Len(SubSeq(buffer, 1, n)) = n
           /\ SubSeq(buffer, 1, n)[1] = buffer[1]
           /\ \A i \in 1 .. n : SubSeq(buffer, 1, n)[i] = buffer[i]
  <1>1. buffer \in Seq(Byte) /\ Len(buffer) \in Nat
    BY LenProperties DEF InvWindow, TypeOK
  <1>2. n \in Nat /\ 0 <= n /\ n <= Len(buffer) /\ n >= 1
    BY <1>1
  <1>3. /\ SubSeq(buffer, 0 + 1, n) \in Seq(Byte)
        /\ Len(SubSeq(buffer, 0 + 1, n)) = n - 0
        /\ \A i \in 1 .. n - 0 : SubSeq(buffer, 0 + 1, n)[i] = buffer[0 + i]
    BY <1>1, <1>2, Window
  <1> QED BY <1>2, <1>3

\* A turn of the loop files what it cuts under the right list.
LEMMA TurnFiles ==
    ASSUME InvWindow, Turn
    PROVE  \E n \in 1 .. Len(buffer), list \in Lists : \E item :
             /\ Take(n, list, item)
             /\ list = RightList(SubSeq(buffer, 1, n))
             /\ list = "frames" =>
                  item \in Responses /\ to_bytes(item) = SubSeq(buffer, 1, n)
  <1>1. InLoop
    BY DEF Turn, TakeHeartbeat, DiscardByte, RejectFrame, RejectReader, AcceptFrame, FrameAhead
  <1>2. buffer # <<>> /\ ~PartialHeartbeat /\ ~PartialFrame
    BY <1>1 DEF InLoop, Waiting
  <1>3. Len(buffer) \in Nat /\ Len(buffer) >= 1
    BY <1>2, EmptySeq DEF InvWindow, TypeOK
  <1>4. buffer[1] \in Nat
    BY <1>3, BufferBytes
  <1>5. Len(build_heartbeat) = HEARTBEAT_LENGTH /\ build_heartbeat[1] = HEARTBEAT_MARKER
    BY HeartbeatBytes DEF HEARTBEAT_LENGTH
  <1>6. CASE TakeHeartbeat
    <2>1. Take(HEARTBEAT_LENGTH, "heartbeats", SubSeq(buffer, 1, HEARTBEAT_LENGTH)) /\ WholeHeartbeat
      BY <1>6 DEF TakeHeartbeat
    <2>2. HEARTBEAT_LENGTH \in 1 .. Len(buffer) /\ SubSeq(buffer, 1, HEARTBEAT_LENGTH) = build_heartbeat
      BY <1>3, <2>1 DEF WholeHeartbeat, HEARTBEAT_LENGTH
    <2>3. RightList(SubSeq(buffer, 1, HEARTBEAT_LENGTH)) = "heartbeats"
      BY <2>2 DEF RightList
    <2>4. "heartbeats" \in Lists /\ "heartbeats" # "frames"
      BY DEF Lists
    <2> QED BY <2>1, <2>2, <2>3, <2>4
  <1>7. CASE DiscardByte
    <2>1. Take(1, "errors", "length byte")
      BY <1>7 DEF DiscardByte
    <2>2. 1 \in 1 .. Len(buffer)
      BY <1>3
    <2>3. Len(SubSeq(buffer, 1, 1)) = 1
      BY <2>2, FirstBytes
    <2>4. SubSeq(buffer, 1, 1) # build_heartbeat /\ ~BuiltResponse(SubSeq(buffer, 1, 1))
      BY <1>5, <2>3 DEF BuiltResponse, HEARTBEAT_LENGTH
    <2>5. RightList(SubSeq(buffer, 1, 1)) = "errors"
      BY <2>4 DEF RightList
    <2>6. "errors" \in Lists /\ "errors" # "frames"
      BY DEF Lists
    <2> QED BY <2>1, <2>2, <2>5, <2>6
  <1>8. CASE RejectFrame \/ RejectReader \/ AcceptFrame
    <2> DEFINE n == buffer[1] + 1
    <2>1. FrameAhead
      BY <1>8 DEF RejectFrame, RejectReader, AcceptFrame
    <2>2. ~WholeHeartbeat /\ buffer[1] >= 5
      BY <2>1 DEF FrameAhead, MIN_FRAME_LENGTH
    <2>3. n \in 1 .. Len(buffer) /\ n >= 6
      BY <1>2, <1>3, <1>4, <2>2 DEF PartialFrame, MIN_FRAME_LENGTH
    <2>4. Raw = SubSeq(buffer, 1, n)
      BY DEF Raw
    <2>5. /\ Raw \in Seq(Byte) /\ Len(Raw) = n /\ Raw[1] = buffer[1]
          /\ \A i \in 1 .. n : Raw[i] \in Byte
      <3>1. Raw \in Seq(Byte) /\ Len(Raw) = n /\ Raw[1] = buffer[1]
        BY <2>3, <2>4, FirstBytes
      <3> QED BY <3>1, ElementOfSeq
    <2>6. Raw # build_heartbeat
      <3>1. CASE Raw = build_heartbeat
        <4>1. buffer[1] = 86 /\ n = 6
          BY <1>5, <2>5, <3>1 DEF HEARTBEAT_LENGTH, HEARTBEAT_MARKER
        <4> QED BY <4>1
      <3> QED BY <3>1
    <2>7. /\ validate_frame(Raw).kind \in {"error", "frame"}
          /\ validate_frame(Raw).kind = "frame" <=> BuiltResponse(Raw)
          /\ BuiltResponse(Raw) => /\ validate_frame(Raw).frame = RfidResponse(Raw)
                                   /\ to_bytes(RfidResponse(Raw)) = Raw
      BY <2>3, <2>5, Verdict
    <2>8. RfidResponse(Raw) \in Responses /\ RfidResponse(Raw).reader_address = Raw[2]
      <3>1. 1 \in 1 .. n /\ 2 \in 1 .. n /\ 3 \in 1 .. n /\ 4 \in 1 .. n
        BY <2>3
      <3>2. Raw[1] \in Byte /\ Raw[2] \in Byte /\ Raw[3] \in Byte /\ Raw[4] \in Byte
        BY <2>5, <3>1
      <3>3. SubSeq(Raw, 5, Len(Raw) - 2) \in Seq(Byte)
        <4>1. \A i \in 5 .. Len(Raw) - 2 : Raw[i] \in Byte
          BY <2>3, <2>5
        <4>2. 5 \in Int /\ Len(Raw) - 2 \in Int
          BY <2>3, <2>5
        <4> QED BY <4>1, <4>2, SubSeqProperties
      <3> QED BY <3>2, <3>3 DEF RfidResponse, Responses
    <2>9. "errors" \in Lists /\ "frames" \in Lists /\ "errors" # "frames"
      BY DEF Lists
    <2> HIDE DEF n
    <2>10. CASE RejectFrame
      <3>1. PICK item : Take(n, "errors", item)
        BY <2>10 DEF RejectFrame, n
      <3>2. ~BuiltResponse(Raw)
        BY <2>7, <2>10 DEF RejectFrame
      <3>3. RightList(Raw) = "errors"
        BY <2>6, <3>2 DEF RightList
      <3> QED BY <2>3, <2>4, <2>9, <3>1, <3>3
    <2>11. CASE RejectReader
      <3>1. PICK item : Take(n, "errors", item)
        BY <2>11 DEF RejectReader, n
      <3>2. Raw[2] \notin AllowedReaders
        BY <2>7, <2>8, <2>11 DEF RejectReader
      <3>3. RightList(Raw) = "errors"
        BY <2>6, <3>2 DEF RightList
      <3> QED BY <2>3, <2>4, <2>9, <3>1, <3>3
    <2>12. CASE AcceptFrame
      <3>1. Take(n, "frames", validate_frame(Raw).frame) /\ validate_frame(Raw).kind = "frame"
        BY <2>12 DEF AcceptFrame, n
      <3>2. BuiltResponse(Raw) /\ Raw[2] \in AllowedReaders
        BY <2>7, <2>8, <2>12 DEF AcceptFrame
      <3>3. RightList(Raw) = "frames"
        BY <2>6, <3>2 DEF RightList
      <3> QED BY <2>3, <2>4, <2>7, <2>8, <2>9, <3>1, <3>2, <3>3
    <2> QED BY <1>8, <2>10, <2>11, <2>12
  <1> QED BY <1>6, <1>7, <1>8 DEF Turn

LEMMA VerdictTurn ==
    ASSUME InvWindow, InvVerdict, Turn
    PROVE  InvVerdict'
  <1>0. PICK n \in 1 .. Len(buffer), list \in Lists : \E item :
           /\ Take(n, list, item)
           /\ list = RightList(SubSeq(buffer, 1, n))
           /\ list = "frames" =>
                item \in Responses /\ to_bytes(item) = SubSeq(buffer, 1, n)
    BY TurnFiles
  <1>1. PICK item :
           /\ Take(n, list, item)
           /\ list = RightList(SubSeq(buffer, 1, n))
           /\ list = "frames" =>
                item \in Responses /\ to_bytes(item) = SubSeq(buffer, 1, n)
    BY <1>0
  <1> DEFINE bytes == SubSeq(buffer, 1, n)
             piece == [at |-> rcv - Len(buffer), bytes |-> bytes, as |-> list]
             accepted == Filed(taken, "frames")
             frames == result.frames
  <1>2. taken' = Append(taken, piece) /\ result' = [result EXCEPT ![list] = Append(@, item)]
    BY <1>1 DEF Take
  <1>3. taken \in Seq(Pieces) /\ piece \in Pieces
    <2>1. rcv - Len(buffer) \in Nat
      BY BufferBytes DEF Consumed
    <2>2. bytes \in Seq(Byte)
      BY FirstBytes
    <2> QED BY <2>1, <2>2 DEF InvWindow, TypeOK, Pieces, Lists
  <1>4. piece.bytes = bytes /\ piece.as = list
    OBVIOUS
  <1> HIDE DEF piece, bytes
  <1>5. \A i \in 1 .. Len(taken') : taken'[i].as = RightList(taken'[i].bytes)
    <2>1. /\ Len(taken') = Len(taken) + 1 /\ taken'[Len(taken) + 1] = piece
          /\ \A i \in 1 .. Len(taken) : taken'[i] = taken[i]
          /\ \A i \in 1 .. Len(taken) + 1 : i \in 1 .. Len(taken) \/ i = Len(taken) + 1
      BY <1>2, <1>3
    <2>2. piece.as = RightList(piece.bytes)
      BY <1>1, <1>4 DEF bytes
    <2> QED BY <2>1, <2>2 DEF InvVerdict
  <1>6. /\ result' = [l \in Lists |-> result'[l]]
        /\ \A l \in Lists : result'[l] = IF l = list THEN Append(result[l], item) ELSE result[l]
    <2>1. result = [l \in Lists |-> result[l]]
      BY DEF InvVerdict
    <2> QED BY <1>2, <2>1
  <1>7. result'.frames = IF list = "frames" THEN Append(frames, item) ELSE frames
    BY <1>6 DEF Lists
  <1>8. Filed(taken', "frames") = IF list = "frames" THEN Append(accepted, piece) ELSE accepted
    BY <1>2, <1>3, <1>4, FiledNext
  <1>9. accepted \in Seq(Pieces) /\ frames \in Seq(Responses) /\ LastFrames(frames, accepted)
    BY <1>3, FiledType DEF InvVerdict
  <1> HIDE DEF accepted, frames
  <1>10. CASE list # "frames"
    BY <1>5, <1>6, <1>7, <1>8, <1>9, <1>10 DEF InvVerdict
  <1>11. CASE list = "frames"
    <2> DEFINE more == Append(frames, item)
               longer == Append(accepted, piece)
    <2>1. item \in Responses /\ to_bytes(item) = bytes
      BY <1>1, <1>11 DEF bytes
    <2>2. /\ Len(frames) \in Nat /\ Len(accepted) \in Nat
          /\ more \in Seq(Responses) /\ Len(more) = Len(frames) + 1
          /\ more[Len(frames) + 1] = item
          /\ \A i \in 1 .. Len(frames) : more[i] = frames[i]
          /\ Len(longer) = Len(accepted) + 1 /\ longer[Len(accepted) + 1] = piece
          /\ \A i \in 1 .. Len(accepted) : longer[i] = accepted[i]
      BY <1>3, <1>9, <2>1
    <2> HIDE DEF more, longer
    <2>3. Len(frames) <= Len(accepted)
      BY <1>9 DEF LastFrames
    <2>4. ASSUME NEW i \in 1 .. Len(frames) + 1
          PROVE  to_bytes(more[i]) = longer[Len(longer) - Len(more) + i].bytes
      <3> DEFINE j == Len(accepted) - Len(frames) + i
      <3>1. Len(longer) - Len(more) + i = j
        BY <2>2
      <3>2. CASE i = Len(frames) + 1
        <4>1. j = Len(accepted) + 1
          BY <2>2, <3>2
        <4>2. longer[j] = piece /\ more[i] = item
          BY <2>2, <3>2, <4>1
        <4> QED BY <1>4, <2>1, <3>1, <4>2
      <3>3. CASE i \in 1 .. Len(frames)
        <4>1. j \in 1 .. Len(accepted)
          BY <2>2, <2>3, <3>3
        <4>2. to_bytes(frames[i]) = accepted[j].bytes
          BY <1>9, <3>3 DEF LastFrames
        <4> HIDE DEF j
        <4>3. longer[j] = accepted[j] /\ more[i] = frames[i]
          BY <2>2, <3>3, <4>1
        <4> QED BY <3>1, <4>2, <4>3
      <3> QED BY <2>2, <3>2, <3>3
    <2>5. LastFrames(more, longer)
      BY <2>2, <2>3, <2>4 DEF LastFrames
    <2> QED BY <1>5, <1>6, <1>7, <1>8, <1>11, <2>2, <2>5 DEF InvVerdict, more, longer
  <1> QED BY <1>10, <1>11

LEMMA VerdictStep == InvWindow /\ InvVerdict /\ [Next]_vars => InvVerdict'
  <1> SUFFICES ASSUME InvWindow, InvVerdict, [Next]_vars PROVE InvVerdict'
    OBVIOUS
  <1>1. ASSUME UNCHANGED <<result, taken>> PROVE InvVerdict'
    BY <1>1 DEF InvVerdict
  <1>2. CASE \E m \in Messages : Write(m)
    BY <1>1, <1>2 DEF Write
  <1>3. CASE \E n \in Noise : Garble(n)
    BY <1>1, <1>3 DEF Garble
  <1>4. CASE Reset
    <2>1. Init'
      BY <1>4, ResetIsInit
    <2> QED BY <2>1, VerdictInit, PTL
  <1>5. CASE FeedAny
    <2>1. result' = EmptyResult /\ taken' = taken
      BY <1>5 DEF FeedAny, Feed
    <2>2. /\ result' = [list \in Lists |-> result'[list]]
          /\ result'.frames = <<>> /\ <<>> \in Seq(Responses)
      BY <2>1 DEF EmptyResult, Lists
    <2>3. Filed(taken, "frames") \in Seq(Pieces)
      BY FiledType DEF InvWindow, TypeOK, Pieces, Lists
    <2>4. LastFrames(<<>>, Filed(taken, "frames"))
      BY <2>3, LenProperties DEF LastFrames
    <2>5. LastFrames(result'.frames, Filed(taken', "frames"))
      BY <2>1, <2>2, <2>4
    <2> QED BY <2>1, <2>2, <2>5 DEF InvVerdict
  <1>6. CASE Turn
    BY <1>6, VerdictTurn
  <1>7. CASE Return
    BY <1>1, <1>7 DEF Return
  <1>8. CASE UNCHANGED vars
    BY <1>1, <1>8 DEF vars
  <1> QED BY <1>2, <1>3, <1>4, <1>5, <1>6, <1>7, <1>8 DEF Next, Parse

\* Every piece cut ends up in the list it belongs in: among the frames exactly
\* what the builder makes of its fields, for a reader that is allowed; and the
\* frames feed() returns are the last pieces taken for frames, with their fields.
THEOREM VerdictsAreRight == Spec => []RightVerdict
  <1>1. Spec => []InvWindow
    BY WindowInit, WindowStep, PTL DEF Spec
  <1>2. Spec => []InvVerdict
    BY <1>1, VerdictInit, VerdictStep, PTL DEF Spec
  <1> QED BY <1>1, <1>2, VerdictMeans, PTL

-----------------------------------------------------------------------------
(* The checksum bit by bit.  A word is the number of a vector of 16 bits,  *)
(* and exclusive-or is the sum modulo 2 of the bits.                       *)

Bits    == {0, 1}
Vectors == [0 .. 15 -> Bits]

\* The sum of two bits, modulo 2.
Plus(a, b) == IF a = b THEN 0 ELSE 1

\* A digit of four bits, a word of four digits; the digit that is made of the
\* bits of a vector from bit k on, and the word made of all of them.
Nibble(p, q, r, s)   == p + 2 * q + 4 * r + 8 * s
FourNibbles(p, q, r, s) == p + 16 * q + 256 * r + 4096 * s

Digit(d, k) == Nibble(d[k], d[k + 1], d[k + 2], d[k + 3])

DigitAt(n, weight) == (n \div weight) % 16

Number(d) == FourNibbles(Digit(d, 0), Digit(d, 4), Digit(d, 8), Digit(d, 12))

XorBits(d, e) == [i \in 0 .. 15 |-> Plus(d[i], e[i])]

\* The sum of two vectors is one, and a digit of a vector has four bits.
LEMMA XorBitsType ==
    ASSUME NEW d \in Vectors, NEW e \in Vectors
    PROVE  XorBits(d, e) \in Vectors /\ \A i \in 0 .. 15 : XorBits(d, e)[i] = Plus(d[i], e[i])
  BY DEF XorBits, Vectors, Plus, Bits

LEMMA DigitType ==
    ASSUME NEW d \in Vectors, NEW k \in {0, 4, 8, 12}
    PROVE  /\ Digit(d, k) \in 0 .. 15
           /\ d[k] \in Bits /\ d[k + 1] \in Bits /\ d[k + 2] \in Bits /\ d[k + 3] \in Bits
  <1>1. d[k] \in Bits /\ d[k + 1] \in Bits /\ d[k + 2] \in Bits /\ d[k + 3] \in Bits
    BY DEF Vectors
  <1>2. \A p, q, r, s \in Bits : p + 2 * q + 4 * r + 8 * s \in 0 .. 15
    BY DEF Bits
  <1> QED BY <1>1, <1>2 DEF Digit, Nibble

\* Four digits make a word.
LEMMA FourNibblesType ==
    ASSUME NEW p \in 0 .. 15, NEW q \in 0 .. 15, NEW r \in 0 .. 15, NEW s \in 0 .. 15
    PROVE  FourNibbles(p, q, r, s) \in Nat /\ FourNibbles(p, q, r, s) < 256 * 256
  BY DEF FourNibbles

\* The same of the number of a vector.
LEMMA NumberType ==
    ASSUME NEW d \in Vectors
    PROVE  Number(d) \in Word
  <1>1. \A k \in {0, 4, 8, 12} : Digit(d, k) \in 0 .. 15
    BY DigitType
  <1>2. /\ Digit(d, 0) \in 0 .. 15 /\ Digit(d, 4) \in 0 .. 15
        /\ Digit(d, 8) \in 0 .. 15 /\ Digit(d, 12) \in 0 .. 15
    BY <1>1
  <1>3. Number(d) \in Nat /\ Number(d) < 256 * 256
    BY <1>2, FourNibblesType DEF Number
  <1> QED BY <1>3, WordMeans DEF WORDS

\* The digits of the number are those of the vector.
LEMMA NumberDigits ==
    ASSUME NEW d \in Vectors
    PROVE  /\ DigitAt(Number(d), 1) = Digit(d, 0)
           /\ DigitAt(Number(d), 16) = Digit(d, 4)
           /\ DigitAt(Number(d), 256) = Digit(d, 8)
           /\ DigitAt(Number(d), 4096) = Digit(d, 12)
  <1>1. \A k \in {0, 4, 8, 12} : Digit(d, k) \in 0 .. 15
    BY DigitType
  <1> DEFINE p == Digit(d, 0)
             q == Digit(d, 4)
             r == Digit(d, 8)
             s == Digit(d, 12)
  <1>2. p \in 0 .. 15 /\ q \in 0 .. 15 /\ r \in 0 .. 15 /\ s \in 0 .. 15
    BY <1>1
  <1> HIDE DEF p, q, r, s
  <1> DEFINE n == p + 16 * q + 256 * r + 4096 * s
  <1>3. n \div 1 = n /\ n % 16 = p
    BY <1>2
  <1>4. n \div 16 = q + 16 * r + 256 * s /\ (q + 16 * r + 256 * s) % 16 = q
    BY <1>2
  <1>5. n \div 256 = r + 16 * s /\ (r + 16 * s) % 16 = r
    BY <1>2
  <1>6. n \div 4096 = s /\ s % 16 = s
    BY <1>2
  <1>7. DigitAt(n, 1) = p /\ DigitAt(n, 16) = q /\ DigitAt(n, 256) = r /\ DigitAt(n, 4096) = s
    BY <1>3, <1>4, <1>5, <1>6 DEF DigitAt
  <1> HIDE DEF n
  <1>8. Number(d) = n
    BY DEF Number, FourNibbles, n, p, q, r, s
  <1> QED BY <1>7, <1>8 DEF p, q, r, s

\* The exclusive-or of two digits is that of their bits.
LEMMA XorNibbleBits ==
    ASSUME NEW d \in Vectors, NEW e \in Vectors, NEW k \in {0, 4, 8, 12}
    PROVE  XorNibble[Digit(d, k)][Digit(e, k)] = Digit(XorBits(d, e), k)
  <1> DEFINE a0 == d[k]  a1 == d[k + 1]  a2 == d[k + 2]  a3 == d[k + 3]
             b0 == e[k]  b1 == e[k + 1]  b2 == e[k + 2]  b3 == e[k + 3]
             a == a0 + 2 * a1 + 4 * a2 + 8 * a3
             b == b0 + 2 * b1 + 4 * b2 + 8 * b3
             bit(x, weight) == (x \div weight) % 2
             sum(weight) == weight * ((bit(a, weight) + bit(b, weight)) % 2)
  <1>1. Digit(d, k) = a /\ Digit(e, k) = b
    BY DEF Digit, Nibble
  <1>2. /\ a0 \in Bits /\ a1 \in Bits /\ a2 \in Bits /\ a3 \in Bits
        /\ b0 \in Bits /\ b1 \in Bits /\ b2 \in Bits /\ b3 \in Bits
    BY DigitType
  <1>3. Digit(XorBits(d, e), k) =
          Plus(a0, b0) + 2 * Plus(a1, b1) + 4 * Plus(a2, b2) + 8 * Plus(a3, b3)
    <2>1. k \in 0 .. 15 /\ k + 1 \in 0 .. 15 /\ k + 2 \in 0 .. 15 /\ k + 3 \in 0 .. 15
      OBVIOUS
    <2> DEFINE x == XorBits(d, e)
    <2>2. \A i \in 0 .. 15 : x[i] = Plus(d[i], e[i])
      BY DEF XorBits
    <2> HIDE DEF x
    <2>3. /\ x[k] = Plus(a0, b0) /\ x[k + 1] = Plus(a1, b1)
          /\ x[k + 2] = Plus(a2, b2) /\ x[k + 3] = Plus(a3, b3)
      BY <2>1, <2>2
    <2> QED BY <2>3 DEF Digit, Nibble, x
  <1> HIDE DEF a0, a1, a2, a3, b0, b1, b2, b3
  <1>4. /\ a \in 0 .. 15
        /\ bit(a, 1) = a0 /\ bit(a, 2) = a1 /\ bit(a, 4) = a2 /\ bit(a, 8) = a3
    BY <1>2 DEF Bits
  <1>5. /\ b \in 0 .. 15
        /\ bit(b, 1) = b0 /\ bit(b, 2) = b1 /\ bit(b, 4) = b2 /\ bit(b, 8) = b3
    BY <1>2 DEF Bits
  <1> HIDE DEF a, b
  <1>6. XorNibble[a][b] = sum(1) + sum(2) + sum(4) + sum(8)
    BY <1>4, <1>5 DEF XorNibble
  <1>7. \A p, q \in Bits : (p + q) % 2 = Plus(p, q) /\ Plus(p, q) \in Int
    BY DEF Bits, Plus
  <1> HIDE DEF bit
  <1>8. /\ sum(1) = 1 * Plus(a0, b0) /\ sum(2) = 2 * Plus(a1, b1)
        /\ sum(4) = 4 * Plus(a2, b2) /\ sum(8) = 8 * Plus(a3, b3)
    BY <1>2, <1>4, <1>5, <1>7
  <1> HIDE DEF sum
  <1> QED BY <1>1, <1>2, <1>3, <1>6, <1>7, <1>8

\* The exclusive-or of two words is that of their bits.
LEMMA XorIsXorBits ==
    ASSUME NEW d \in Vectors, NEW e \in Vectors
    PROVE  Xor(Number(d), Number(e)) = Number(XorBits(d, e))
  <1> DEFINE X(weight) == XorNibble[DigitAt(Number(d), weight)][DigitAt(Number(e), weight)]
             x == XorBits(d, e)
  <1>1. \A k \in {0, 4, 8, 12} : XorNibble[Digit(d, k)][Digit(e, k)] = Digit(x, k)
    BY XorNibbleBits
  <1>2. /\ X(1) = Digit(x, 0) /\ X(16) = Digit(x, 4)
        /\ X(256) = Digit(x, 8) /\ X(4096) = Digit(x, 12)
    BY <1>1, NumberDigits
  <1>3. Xor(Number(d), Number(e)) = 1 * X(1) + 16 * X(16) + 256 * X(256) + 4096 * X(4096)
    BY DEF Xor, DigitAt
  <1>4. \A k \in {0, 4, 8, 12} : Digit(x, k) \in 0 .. 15
    BY XorBitsType, DigitType
  <1> HIDE DEF X, x
  <1>5. Digit(x, 0) \in Int
    BY <1>4
  <1>6. 1 * Digit(x, 0) = Digit(x, 0)
    BY <1>5
  <1> QED BY <1>2, <1>3, <1>6 DEF Number, FourNibbles, x

\* A vector shifted towards its lowest bit, and what ShiftBit makes of one.
Half(d) == [i \in 0 .. 15 |-> IF i = 15 THEN 0 ELSE d[i + 1]]

Poly == [i \in 0 .. 15 |-> IF i \in {3, 10, 15} THEN 1 ELSE 0]

Shifted(d) == IF d[0] = 1 THEN XorBits(Half(d), Poly) ELSE Half(d)

\* What these operations give, as vectors and as numbers.
LEMMA HalfType ==
    ASSUME NEW d \in Vectors
    PROVE  Half(d) \in Vectors
  <1>1. 0 \in Bits
    BY DEF Bits
  <1>2. \A i \in 0 .. 15 : i # 15 => i + 1 \in 0 .. 15
    OBVIOUS
  <1>3. \A i \in 0 .. 15 : i # 15 => d[i + 1] \in Bits
    BY <1>2 DEF Vectors
  <1> QED BY <1>1, <1>3 DEF Half, Vectors

LEMMA PolyNumber == Poly \in Vectors /\ Number(Poly) = CRC_POLYNOMIAL
  <1>1. Poly \in Vectors
    BY DEF Poly, Vectors, Bits
  <1>2. \A i \in 0 .. 15 : Poly[i] = IF i \in {3, 10, 15} THEN 1 ELSE 0
    BY DEF Poly
  <1> HIDE DEF Poly
  <1>3. /\ Poly[0] = 0 /\ Poly[1] = 0 /\ Poly[2] = 0 /\ Poly[3] = 1
        /\ Poly[4] = 0 /\ Poly[5] = 0 /\ Poly[6] = 0 /\ Poly[7] = 0
        /\ Poly[8] = 0 /\ Poly[9] = 0 /\ Poly[10] = 1 /\ Poly[11] = 0
        /\ Poly[12] = 0 /\ Poly[13] = 0 /\ Poly[14] = 0 /\ Poly[15] = 1
    BY <1>2
  <1> QED BY <1>1, <1>3 DEF Number, FourNibbles, Digit, Nibble, CRC_POLYNOMIAL

LEMMA HalfNumber ==
    ASSUME NEW d \in Vectors
    PROVE  Number(d) % 2 = d[0] /\ Number(d) \div 2 = Number(Half(d))
  <1> DEFINE h == Half(d)
             m == Number(h)
  <1>1. \A i \in 0 .. 15 : h[i] = IF i = 15 THEN 0 ELSE d[i + 1]
    BY DEF Half
  <1> HIDE DEF h
  <1>2. /\ h[0] = d[1] /\ h[1] = d[2] /\ h[2] = d[3] /\ h[3] = d[4]
        /\ h[4] = d[5] /\ h[5] = d[6] /\ h[6] = d[7] /\ h[7] = d[8]
        /\ h[8] = d[9] /\ h[9] = d[10] /\ h[10] = d[11] /\ h[11] = d[12]
        /\ h[12] = d[13] /\ h[13] = d[14] /\ h[14] = d[15] /\ h[15] = 0
    BY <1>1
  <1>3. \A i \in 0 .. 15 : d[i] \in Bits
    BY DEF Vectors
  <1>4. \A i \in 0 .. 15 : d[i] \in Int
    BY <1>3 DEF Bits
  <1>5. /\ d[0] \in Int /\ d[1] \in Int /\ d[2] \in Int /\ d[3] \in Int
        /\ d[4] \in Int /\ d[5] \in Int /\ d[6] \in Int /\ d[7] \in Int
        /\ d[8] \in Int /\ d[9] \in Int /\ d[10] \in Int /\ d[11] \in Int
        /\ d[12] \in Int /\ d[13] \in Int /\ d[14] \in Int /\ d[15] \in Int
    BY <1>4
  <1>6. Number(d) = d[0] + 2 * m /\ m \in Int
    BY <1>2, <1>5 DEF Number, FourNibbles, Digit, Nibble
  <1> HIDE DEF m
  <1>7. d[0] = 0 \/ d[0] = 1
    BY <1>3 DEF Bits
  <1>8. Number(d) % 2 = d[0] /\ Number(d) \div 2 = m
    BY <1>6, <1>7
  <1> QED BY <1>8 DEF m, h

LEMMA ShiftedType ==
    ASSUME NEW d \in Vectors
    PROVE  Shifted(d) \in Vectors
  BY HalfType, PolyNumber, XorBitsType DEF Shifted

\* ShiftBit on numbers is Shifted on vectors.
LEMMA ShiftBitIsShifted ==
    ASSUME NEW d \in Vectors
    PROVE  ShiftBit(Number(d)) = Number(Shifted(d))
  <1>1. Number(d) % 2 = d[0] /\ Number(d) \div 2 = Number(Half(d))
    BY HalfNumber
  <1>2. Xor(Number(Half(d)), CRC_POLYNOMIAL) = Number(XorBits(Half(d), Poly))
    BY HalfType, PolyNumber, XorIsXorBits
  <1> QED BY <1>1, <1>2 DEF ShiftBit, Shifted

-----------------------------------------------------------------------------
(* The checksum as a register that is fed bit by bit.                      *)

\* The register after one more bit is fed into it: the bit that leaves it and
\* the new one together decide whether the polynomial is added.
Fed(d, bit) ==
    LET out == Plus(d[0], bit)
    IN  [i \in 0 .. 15 |-> IF i = 15 THEN out
                           ELSE IF i \in {3, 10} THEN Plus(d[i + 1], out)
                           ELSE d[i + 1]]

\* A register that is fed stays a vector of bits.
LEMMA PlusType ==
    ASSUME NEW a \in Bits, NEW b \in Bits
    PROVE  Plus(a, b) \in Bits
  BY DEF Plus, Bits

LEMMA FedType ==
    ASSUME NEW d \in Vectors, NEW bit \in Bits
    PROVE  /\ Fed(d, bit) \in Vectors
           /\ \A i \in 0 .. 15 :
                Fed(d, bit)[i] = IF i = 15 THEN Plus(d[0], bit)
                                 ELSE IF i \in {3, 10} THEN Plus(d[i + 1], Plus(d[0], bit))
                                 ELSE d[i + 1]
  <1> DEFINE out == Plus(d[0], bit)
  <1>1. d[0] \in Bits
    BY DEF Vectors
  <1>2. out \in Bits
    BY <1>1, PlusType
  <1>3. \A i \in 0 .. 15 : i # 15 => d[i + 1] \in Bits
    <2>1. \A i \in 0 .. 15 : i # 15 => i + 1 \in 0 .. 15
      OBVIOUS
    <2> QED BY <2>1 DEF Vectors
  <1>4. \A i \in 0 .. 15 : i # 15 => Plus(d[i + 1], out) \in Bits
    BY <1>2, <1>3, PlusType
  <1> HIDE DEF out
  <1> DEFINE f == [i \in 0 .. 15 |-> IF i = 15 THEN out
                           ELSE IF i \in {3, 10} THEN Plus(d[i + 1], out)
                           ELSE d[i + 1]]
  <1>5. Fed(d, bit) = f
    BY DEF Fed, out
  <1>6. f \in Vectors
    BY <1>2, <1>3, <1>4 DEF Vectors
  <1> QED BY <1>5, <1>6 DEF out

\* Feeding is linear: what is fed into the difference of two registers is the
\* difference of what is fed into them.
LEMMA FedLinear ==
    ASSUME NEW d \in Vectors, NEW e \in Vectors, NEW b \in Bits, NEW c \in Bits
    PROVE  Fed(XorBits(d, e), Plus(b, c)) = XorBits(Fed(d, b), Fed(e, c))
  <1> DEFINE x == XorBits(d, e)
             left == Fed(x, Plus(b, c))
             p == Fed(d, b)
             q == Fed(e, c)
             right == XorBits(p, q)
  <1>1. x \in Vectors /\ \A i \in 0 .. 15 : x[i] = Plus(d[i], e[i])
    BY XorBitsType
  <1>2. Plus(b, c) \in Bits
    BY PlusType
  <1> HIDE DEF x
  <1>3. /\ left \in Vectors
        /\ \A i \in 0 .. 15 :
             left[i] = IF i = 15 THEN Plus(x[0], Plus(b, c))
                       ELSE IF i \in {3, 10} THEN Plus(x[i + 1], Plus(x[0], Plus(b, c)))
                       ELSE x[i + 1]
    BY <1>1, <1>2, FedType
  <1>4. /\ p \in Vectors
        /\ \A i \in 0 .. 15 :
             p[i] = IF i = 15 THEN Plus(d[0], b)
                    ELSE IF i \in {3, 10} THEN Plus(d[i + 1], Plus(d[0], b))
                    ELSE d[i + 1]
    BY FedType
  <1>5. /\ q \in Vectors
        /\ \A i \in 0 .. 15 :
             q[i] = IF i = 15 THEN Plus(e[0], c)
                    ELSE IF i \in {3, 10} THEN Plus(e[i + 1], Plus(e[0], c))
                    ELSE e[i + 1]
    BY FedType
  <1> HIDE DEF left, p, q
  <1>6. right \in Vectors /\ \A i \in 0 .. 15 : right[i] = Plus(p[i], q[i])
    BY <1>4, <1>5, XorBitsType
  <1> HIDE DEF right
  <1>7. ASSUME NEW i \in 0 .. 15 PROVE left[i] = right[i]
    <2>1. d[0] \in Bits /\ e[0] \in Bits /\ x[0] = Plus(d[0], e[0])
      BY <1>1 DEF Vectors
    <2>2. CASE i = 15
      <3>1. Plus(Plus(d[0], e[0]), Plus(b, c)) = Plus(Plus(d[0], b), Plus(e[0], c))
        BY <2>1 DEF Bits, Plus
      <3> QED BY <1>3, <1>4, <1>5, <1>6, <2>1, <2>2, <3>1
    <2>3. CASE i # 15
      <3>1. i + 1 \in 0 .. 15
        BY <2>3
      <3>2. d[i + 1] \in Bits /\ e[i + 1] \in Bits /\ x[i + 1] = Plus(d[i + 1], e[i + 1])
        BY <1>1, <3>1 DEF Vectors
      <3>3. CASE i \in {3, 10}
        <4>1. Plus(Plus(d[i + 1], e[i + 1]), Plus(Plus(d[0], e[0]), Plus(b, c))) =
                Plus(Plus(d[i + 1], Plus(d[0], b)), Plus(e[i + 1], Plus(e[0], c)))
          BY <2>1, <3>2 DEF Bits, Plus
        <4> QED BY <1>3, <1>4, <1>5, <1>6, <2>1, <2>3, <3>2, <3>3, <4>1
      <3>4. CASE i \notin {3, 10}
        BY <1>3, <1>4, <1>5, <1>6, <2>3, <3>2, <3>4
      <3> QED BY <3>3, <3>4
    <2> QED BY <2>2, <2>3
  <1>8. left = right
    BY <1>3, <1>6, <1>7 DEF Vectors
  <1> QED BY <1>8 DEF left, right, x, p, q

\* To shift a register with a word added is to feed the word's lowest bit to
\* the register and to add the rest of the word afterwards.
LEMMA ShiftedSum ==
    ASSUME NEW d \in Vectors, NEW w \in Vectors
    PROVE  Shifted(XorBits(d, w)) = XorBits(Fed(d, w[0]), Half(w))
  <1> DEFINE x == XorBits(d, w)
             h == Half(x)
             left == Shifted(x)
             p == Fed(d, w[0])
             q == Half(w)
             right == XorBits(p, q)
  <1>1. x \in Vectors /\ \A i \in 0 .. 15 : x[i] = Plus(d[i], w[i])
    BY XorBitsType
  <1>2. d[0] \in Bits /\ w[0] \in Bits /\ x[0] = Plus(d[0], w[0])
    BY <1>1 DEF Vectors
  <1> HIDE DEF x
  <1>3. h \in Vectors /\ \A i \in 0 .. 15 : h[i] = IF i = 15 THEN 0 ELSE x[i + 1]
    BY <1>1, HalfType DEF Half
  <1>4. q \in Vectors /\ \A i \in 0 .. 15 : q[i] = IF i = 15 THEN 0 ELSE w[i + 1]
    BY HalfType DEF Half
  <1>5. /\ p \in Vectors
        /\ \A i \in 0 .. 15 :
             p[i] = IF i = 15 THEN Plus(d[0], w[0])
                    ELSE IF i \in {3, 10} THEN Plus(d[i + 1], Plus(d[0], w[0]))
                    ELSE d[i + 1]
    BY <1>2, FedType
  <1>6. left = IF x[0] = 1 THEN XorBits(h, Poly) ELSE h
    BY DEF Shifted
  <1>7. left \in Vectors
    BY <1>1, ShiftedType
  <1> HIDE DEF h, left, p, q
  <1>8. right \in Vectors /\ \A i \in 0 .. 15 : right[i] = Plus(p[i], q[i])
    BY <1>4, <1>5, XorBitsType
  <1>9. \A i \in 0 .. 15 : left[i] = IF x[0] = 1 THEN Plus(h[i], Poly[i]) ELSE h[i]
    BY <1>3, <1>6, PolyNumber, XorBitsType
  <1>10. \A i \in 0 .. 15 : Poly[i] = IF i \in {3, 10, 15} THEN 1 ELSE 0
    BY DEF Poly
  <1> HIDE DEF right
  <1>11. ASSUME NEW i \in 0 .. 15 PROVE left[i] = right[i]
    <2>1. CASE i = 15
      <3>1. left[i] = IF x[0] = 1 THEN Plus(0, 1) ELSE 0
        BY <1>3, <1>9, <1>10, <2>1
      <3>2. right[i] = Plus(Plus(d[0], w[0]), 0)
        BY <1>4, <1>5, <1>8, <2>1
      <3> QED BY <1>2, <3>1, <3>2 DEF Bits, Plus
    <2>2. CASE i # 15
      <3>1. i + 1 \in 0 .. 15
        BY <2>2
      <3>2. d[i + 1] \in Bits /\ w[i + 1] \in Bits /\ h[i] = Plus(d[i + 1], w[i + 1])
        BY <1>1, <1>3, <2>2, <3>1 DEF Vectors
      <3>3. CASE i \in {3, 10}
        <4>1. left[i] = IF x[0] = 1 THEN Plus(Plus(d[i + 1], w[i + 1]), 1)
                        ELSE Plus(d[i + 1], w[i + 1])
          BY <1>9, <1>10, <3>2, <3>3
        <4>2. right[i] = Plus(Plus(d[i + 1], Plus(d[0], w[0])), w[i + 1])
          BY <1>4, <1>5, <1>8, <2>2, <3>3
        <4> QED BY <1>2, <3>2, <4>1, <4>2 DEF Bits, Plus
      <3>4. CASE i \notin {3, 10}
        <4>1. left[i] = IF x[0] = 1 THEN Plus(Plus(d[i + 1], w[i + 1]), 0)
                        ELSE Plus(d[i + 1], w[i + 1])
          BY <1>9, <1>10, <2>2, <3>2, <3>4
        <4>2. right[i] = Plus(d[i + 1], w[i + 1])
          BY <1>4, <1>5, <1>8, <2>2, <3>4
        <4> QED BY <3>2, <4>1, <4>2 DEF Bits, Plus
      <3> QED BY <3>3, <3>4
    <2> QED BY <2>1, <2>2
  <1>12. left = right
    BY <1>7, <1>8, <1>11 DEF Vectors
  <1> QED BY <1>12 DEF left, right, x, p, q

\* A byte as a vector.
ByteBits(byte) == [i \in 0 .. 15 |-> IF i <= 7 THEN Bit(byte, i) ELSE 0]

\* The bits of a byte, as its digits, and the byte as the number of its vector.
LEMMA BitIs ==
    ASSUME NEW byte
    PROVE  /\ Bit(byte, 0) = (byte \div 1) % 2  /\ Bit(byte, 1) = (byte \div 2) % 2
           /\ Bit(byte, 2) = (byte \div 4) % 2  /\ Bit(byte, 3) = (byte \div 8) % 2
           /\ Bit(byte, 4) = (byte \div 16) % 2 /\ Bit(byte, 5) = (byte \div 32) % 2
           /\ Bit(byte, 6) = (byte \div 64) % 2 /\ Bit(byte, 7) = (byte \div 128) % 2
  <1> DEFINE weights == <<1, 2, 4, 8, 16, 32, 64, 128>>
  <1>1. \A k : Bit(byte, k) = (byte \div weights[k + 1]) % 2
    BY DEF Bit
  <1>2. /\ weights[0 + 1] = 1 /\ weights[1 + 1] = 2 /\ weights[2 + 1] = 4 /\ weights[3 + 1] = 8
        /\ weights[4 + 1] = 16 /\ weights[5 + 1] = 32 /\ weights[6 + 1] = 64
        /\ weights[7 + 1] = 128
    OBVIOUS
  <1> HIDE DEF weights
  <1> QED BY <1>1, <1>2

LEMMA BitType ==
    ASSUME NEW byte \in Nat, NEW k \in 0 .. 7
    PROVE  Bit(byte, k) \in Bits
  <1>1. \A n \in Int : n % 2 = 0 \/ n % 2 = 1
    OBVIOUS
  <1>2. /\ byte \div 1 \in Int /\ byte \div 2 \in Int /\ byte \div 4 \in Int
        /\ byte \div 8 \in Int /\ byte \div 16 \in Int /\ byte \div 32 \in Int
        /\ byte \div 64 \in Int /\ byte \div 128 \in Int
    OBVIOUS
  <1>3. \E n \in Int : Bit(byte, k) = n % 2
    <2>1. k = 0 \/ k = 1 \/ k = 2 \/ k = 3 \/ k = 4 \/ k = 5 \/ k = 6 \/ k = 7
      OBVIOUS
    <2> QED BY <1>2, <2>1, BitIs
  <1> QED BY <1>1, <1>3 DEF Bits

LEMMA ByteBitsType ==
    ASSUME NEW byte \in Byte
    PROVE  ByteBits(byte) \in Vectors
  <1>1. \A i \in 0 .. 15 : i <= 7 => Bit(byte, i) \in Bits
    BY BitType, ByteIsNat
  <1> QED BY <1>1 DEF ByteBits, Vectors, Bits

LEMMA ByteIsBits ==
    ASSUME NEW byte \in Byte
    PROVE  Number(ByteBits(byte)) = byte
  <1> DEFINE v == ByteBits(byte)
             h1 == byte \div 2
             h2 == byte \div 4
             h3 == byte \div 8
             h4 == byte \div 16
             h5 == byte \div 32
             h6 == byte \div 64
             h7 == byte \div 128
  <1>1. \A i \in 0 .. 15 : v[i] = IF i <= 7 THEN Bit(byte, i) ELSE 0
    BY DEF ByteBits
  <1>2. byte \in Nat /\ byte <= 255
    BY DEF Byte
  <1> HIDE DEF v
  <1>3. /\ v[0] = byte % 2 /\ v[1] = h1 % 2 /\ v[2] = h2 % 2 /\ v[3] = h3 % 2
        /\ v[4] = h4 % 2 /\ v[5] = h5 % 2 /\ v[6] = h6 % 2 /\ v[7] = h7 % 2
    <2>1. byte \div 1 = byte
      BY <1>2
    <2> QED BY <1>1, <2>1, BitIs
  <1>4. /\ v[8] = 0 /\ v[9] = 0 /\ v[10] = 0 /\ v[11] = 0
        /\ v[12] = 0 /\ v[13] = 0 /\ v[14] = 0 /\ v[15] = 0
    BY <1>1
  <1>5. /\ byte = (byte % 2) + 2 * h1 /\ h1 = (h1 % 2) + 2 * h2 /\ h2 = (h2 % 2) + 2 * h3
        /\ h3 = (h3 % 2) + 2 * h4 /\ h4 = (h4 % 2) + 2 * h5 /\ h5 = (h5 % 2) + 2 * h6
        /\ h6 = (h6 % 2) + 2 * h7 /\ h7 = h7 % 2
    BY <1>2
  <1>6. /\ h1 \in Int /\ h2 \in Int /\ h3 \in Int /\ h4 \in Int
        /\ h5 \in Int /\ h6 \in Int /\ h7 \in Int
    BY <1>2
  <1> HIDE DEF h1, h2, h3, h4, h5, h6, h7
  <1>7. /\ byte = v[0] + 2 * h1 /\ h1 = v[1] + 2 * h2 /\ h2 = v[2] + 2 * h3
        /\ h3 = v[3] + 2 * h4 /\ h4 = v[4] + 2 * h5 /\ h5 = v[5] + 2 * h6
        /\ h6 = v[6] + 2 * h7 /\ h7 = v[7]
    BY <1>3, <1>5
  <1>8. /\ v[0] \in Int /\ v[1] \in Int /\ v[2] \in Int /\ v[3] \in Int
        /\ v[4] \in Int /\ v[5] \in Int /\ v[6] \in Int /\ v[7] \in Int
    BY <1>2, <1>3, <1>6
  <1>9. byte = v[0] + 2 * v[1] + 4 * v[2] + 8 * v[3]
               + 16 * v[4] + 32 * v[5] + 64 * v[6] + 128 * v[7]
    <2> DEFINE a0 == v[0]  a1 == v[1]  a2 == v[2]  a3 == v[3]
               a4 == v[4]  a5 == v[5]  a6 == v[6]  a7 == v[7]
    <2>1. /\ a0 \in Int /\ a1 \in Int /\ a2 \in Int /\ a3 \in Int
          /\ a4 \in Int /\ a5 \in Int /\ a6 \in Int /\ a7 \in Int
      BY <1>8
    <2>2. /\ byte = a0 + 2 * h1 /\ h1 = a1 + 2 * h2 /\ h2 = a2 + 2 * h3
          /\ h3 = a3 + 2 * h4 /\ h4 = a4 + 2 * h5 /\ h5 = a5 + 2 * h6
          /\ h6 = a6 + 2 * h7 /\ h7 = a7
      BY <1>7
    <2> HIDE DEF a0, a1, a2, a3, a4, a5, a6, a7
    <2>3. h3 = a3 + 2 * a4 + 4 * a5 + 8 * a6 + 16 * a7
      BY <1>6, <2>1, <2>2
    <2>4. byte = a0 + 2 * a1 + 4 * a2 + 8 * h3
      BY <1>2, <1>6, <2>1, <2>2
    <2>5. byte = a0 + 2 * a1 + 4 * a2 + 8 * a3 + 16 * a4 + 32 * a5 + 64 * a6 + 128 * a7
      BY <1>2, <2>1, <2>3, <2>4
    <2> QED BY <2>5 DEF a0, a1, a2, a3, a4, a5, a6, a7
  <1>10. Number(v) = (v[0] + 2 * v[1] + 4 * v[2] + 8 * v[3])
                     + 16 * (v[4] + 2 * v[5] + 4 * v[6] + 8 * v[7])
    BY <1>4, <1>8 DEF Number, FourNibbles, Digit, Nibble
  <1>11. Number(v) = byte
    BY <1>8, <1>9, <1>10
  <1> QED BY <1>11 DEF v

\* A byte folded into the register is its bits fed to it, the lowest first.
LEMMA AddByteFeeds ==
    ASSUME NEW byte \in Byte, NEW y \in [0 .. 8 -> Vectors],
           \A k \in 0 .. 7 : y[k + 1] = Fed(y[k], Bit(byte, k))
    PROVE  AddByte(Number(y[0]), byte) = Number(y[8])
  <1> DEFINE added == AddByte(Number(y[0]), byte)
             rest(w, k) == \A i \in 0 .. 15 : w[i] = IF i + k <= 7 THEN Bit(byte, i + k) ELSE 0
             T == {k \in 0 .. 8 :
                     \E w \in Vectors :
                       rest(w, k) /\ added = Shifts[8 - k][Number(XorBits(y[k], w))]}
  <1>1. 0 \in T
    <2> DEFINE w == ByteBits(byte)
    <2>1. w \in Vectors /\ Number(w) = byte
      BY ByteBitsType, ByteIsBits
    <2>2. rest(w, 0)
      BY DEF ByteBits
    <2>3. y[0] \in Vectors
      OBVIOUS
    <2> HIDE DEF w
    <2>4. added = Shifts[8][Number(XorBits(y[0], w))]
      BY <2>1, <2>3, XorIsXorBits DEF AddByte
    <2>5. 8 - 0 = 8 /\ 0 \in 0 .. 8
      OBVIOUS
    <2> HIDE DEF added, rest
    <2> QED BY <2>1, <2>2, <2>4, <2>5
  <1>2. ASSUME NEW k \in 1 .. 8, k - 1 \in T PROVE k \in T
    <2> DEFINE j == k - 1
    <2>1. PICK w \in Vectors :
            rest(w, j) /\ added = Shifts[8 - j][Number(XorBits(y[j], w))]
      BY <1>2
    <2>2. j \in 0 .. 7 /\ j + 1 = k /\ 8 - j \in 0 .. 8 /\ 8 - j # 0 /\ (8 - j) - 1 = 8 - k
      OBVIOUS
    <2>3. w[0] = Bit(byte, j)
      BY <2>1, <2>2
    <2>4. y[k] = Fed(y[j], w[0]) /\ y[j] \in Vectors
      BY <2>2, <2>3
    <2> DEFINE v == Half(w)
    <2>5. v \in Vectors
      BY HalfType
    <2>6. rest(v, k)
      <3> SUFFICES ASSUME NEW i \in 0 .. 15
                   PROVE  v[i] = IF i + k <= 7 THEN Bit(byte, i + k) ELSE 0
        OBVIOUS
      <3>1. v[i] = IF i = 15 THEN 0 ELSE w[i + 1]
        BY DEF Half
      <3> HIDE DEF v
      <3>2. CASE i = 15
        BY <3>1, <3>2
      <3>3. CASE i # 15
        <4>1. i + 1 \in 0 .. 15 /\ i + 1 + j = i + k
          BY <3>3
        <4>2. w[i + 1] = IF i + 1 + j <= 7 THEN Bit(byte, i + 1 + j) ELSE 0
          BY <2>1, <4>1
        <4> QED BY <3>1, <3>3, <4>1, <4>2
      <3> QED BY <3>2, <3>3
    <2> DEFINE x == XorBits(y[j], w)
    <2>7. x \in Vectors /\ Shifted(x) = XorBits(y[k], v)
      BY <2>4, XorBitsType, ShiftedSum
    <2> HIDE DEF x, v, j, added, rest
    <2>8. Shifts[8 - j] = [crc \in Word |-> Shifts[8 - j - 1][ShiftBit(crc)]]
      BY <2>2, ShiftsAre DEF ShiftsOf
    <2>9. Number(x) \in Word /\ ShiftBit(Number(x)) = Number(Shifted(x))
      BY <2>7, NumberType, ShiftBitIsShifted
    <2>10. Shifts[8 - j][Number(x)] = Shifts[8 - k][Number(XorBits(y[k], v))]
      BY <2>2, <2>7, <2>8, <2>9
    <2>11. added = Shifts[8 - k][Number(XorBits(y[k], v))]
      BY <2>1, <2>10 DEF x
    <2> QED BY <2>5, <2>6, <2>11
  <1>3. 8 \in T
    <2> HIDE DEF T
    <2>1. 8 \in Nat /\ 8 \in 0 .. 8
      OBVIOUS
    <2>2. \A k \in 0 .. 8 : k \in T
      BY <1>1, <1>2, <2>1, SetInduction
    <2> QED BY <2>1, <2>2
  <1>4. PICK w \in Vectors : rest(w, 8) /\ added = Shifts[8 - 8][Number(XorBits(y[8], w))]
    BY <1>3
  <1>5. y[8] \in Vectors
    OBVIOUS
  <1>6. XorBits(y[8], w) = y[8]
    <2>1. \A i \in 0 .. 15 : w[i] = 0
      BY <1>4
    <2>2. \A i \in 0 .. 15 : y[8][i] \in Bits
      BY <1>5 DEF Vectors
    <2>3. \A i \in 0 .. 15 : XorBits(y[8], w)[i] = y[8][i]
      BY <2>1, <2>2 DEF XorBits, Plus, Bits
    <2> QED BY <1>5, <2>3, XorBitsType DEF Vectors
  <1>7. Shifts[0] = [crc \in Word |-> crc]
    BY ShiftsAre DEF ShiftsOf
  <1>8. Number(y[8]) \in Word
    BY <1>5, NumberType
  <1> QED BY <1>4, <1>6, <1>7, <1>8

\* The registers while the bits of a byte sequence are fed in, from the preset.
Run(reg, bytes) ==
    /\ reg \in [0 .. 8 * Len(bytes) -> Vectors]
    /\ reg[0] = [i \in 0 .. 15 |-> 1]
    /\ \A n \in 0 .. 8 * Len(bytes) - 1 : reg[n + 1] = Fed(reg[n], BitAt(bytes, n))

\* The bits of a byte sequence are those of its bytes.
LEMMA BitAtIs ==
    ASSUME NEW bytes \in Seq(Byte), NEW k \in 0 .. Len(bytes) - 1, NEW j \in 0 .. 7
    PROVE  /\ 8 * k + j \in 0 .. 8 * Len(bytes) - 1
           /\ BitAt(bytes, 8 * k + j) = Bit(bytes[k + 1], j)
  <1>1. Len(bytes) \in Nat
    BY LenProperties
  <1>2. (8 * k + j) \div 8 = k /\ (8 * k + j) % 8 = j
    BY <1>1
  <1>3. 8 * k + j \in 0 .. 8 * Len(bytes) - 1
    BY <1>1
  <1> QED BY <1>2, <1>3 DEF BitAt

LEMMA BitAtType ==
    ASSUME NEW bytes \in Seq(Byte), NEW n \in 0 .. 8 * Len(bytes) - 1
    PROVE  BitAt(bytes, n) \in Bits
  <1>1. Len(bytes) \in Nat
    BY LenProperties
  <1> DEFINE k == n \div 8
             j == n % 8
  <1>2. k \in Int /\ j \in 0 .. 7 /\ n = 8 * k + j
    BY <1>1
  <1>3. BitAt(bytes, n) = Bit(bytes[k + 1], j)
    BY DEF BitAt
  <1> HIDE DEF k, j
  <1>4. k + 1 \in 1 .. Len(bytes)
    BY <1>1, <1>2
  <1>5. bytes[k + 1] \in Nat
    BY <1>4, ElementOfSeq, ByteIsNat
  <1> QED BY <1>2, <1>3, <1>5, BitType

\* Every byte sequence has its run of registers.
LEMMA RunExists ==
    ASSUME NEW bytes \in Seq(Byte)
    PROVE  \E reg : Run(reg, bytes)
  <1> DEFINE n == 8 * Len(bytes)
             start == [i \in 0 .. 15 |-> 1]
             next == [k \in 1 .. n |-> [d \in Vectors |-> Fed(d, BitAt(bytes, k - 1))]]
  <1>1. n \in Nat
    BY LenProperties
  <1>2. start \in Vectors
    BY DEF Vectors, Bits
  <1>3. \A k \in 1 .. n, d \in Vectors : Fed(d, BitAt(bytes, k - 1)) \in Vectors
    <2> SUFFICES ASSUME NEW k \in 1 .. n, NEW d \in Vectors
                 PROVE  Fed(d, BitAt(bytes, k - 1)) \in Vectors
      OBVIOUS
    <2>1. k - 1 \in 0 .. n - 1
      BY <1>1
    <2>2. BitAt(bytes, k - 1) \in Bits
      BY <2>1, BitAtType
    <2> QED BY <2>2, FedType
  <1>4. next \in [1 .. n -> [Vectors -> Vectors]]
    BY <1>3
  <1>5. \A k \in 1 .. n, d \in Vectors : next[k][d] = Fed(d, BitAt(bytes, k - 1))
    OBVIOUS
  <1> HIDE DEF next, start, n
  <1>6. PICK reg \in [0 .. n -> Vectors] : Iterates(reg, start, next, n)
    BY <1>1, <1>2, <1>4, Iterate
  <1>7. \A m \in 0 .. n - 1 : reg[m + 1] = Fed(reg[m], BitAt(bytes, m))
    <2> SUFFICES ASSUME NEW m \in 0 .. n - 1
                 PROVE  reg[m + 1] = Fed(reg[m], BitAt(bytes, m))
      OBVIOUS
    <2>1. m + 1 \in 1 .. n /\ m + 1 - 1 = m /\ m \in 0 .. n
      BY <1>1
    <2>2. reg[m + 1] = next[m + 1][reg[m]] /\ reg[m] \in Vectors
      BY <1>6, <2>1 DEF Iterates
    <2> QED BY <1>5, <2>1, <2>2
  <1>8. reg[0] = start
    BY <1>6 DEF Iterates
  <1>9. Run(reg, bytes)
    BY <1>6, <1>7, <1>8 DEF Run, n, start
  <1> QED BY <1>9

\* The checksum of a byte sequence is the register after its last bit.
LEMMA RunIsCrc ==
    ASSUME NEW bytes \in Seq(Byte), NEW reg, Run(reg, bytes)
    PROVE  reg[8 * Len(bytes)] \in Vectors /\ crc16(bytes) = Number(reg[8 * Len(bytes)])
  <1> DEFINE n == Len(bytes)
             R == Registers(bytes)
             last == R[0][CRC_PRESET]
             T == {k \in 0 .. n : last = R[k][Number(reg[8 * k])]}
  <1>1. n \in Nat /\ \A k \in 1 .. n : bytes[k] \in Byte
    BY LenProperties, ElementOfSeq
  <1>2. \A k \in 0 .. n :
          R[k] = [crc \in Word |-> IF k = n THEN crc ELSE R[k + 1][AddByte(crc, bytes[k + 1])]]
    BY RegistersAre DEF RegistersOf
  <1> HIDE DEF R
  <1>3. \A k \in 0 .. 8 * n : reg[k] \in Vectors
    BY DEF Run
  <1>4. 0 \in T
    <2>1. Number(reg[0]) = CRC_PRESET
      <3> DEFINE d == reg[0]
      <3>1. \A i \in 0 .. 15 : d[i] = 1
        BY DEF Run
      <3> HIDE DEF d
      <3>2. /\ d[0] = 1 /\ d[1] = 1 /\ d[2] = 1 /\ d[3] = 1 /\ d[4] = 1 /\ d[5] = 1
            /\ d[6] = 1 /\ d[7] = 1 /\ d[8] = 1 /\ d[9] = 1 /\ d[10] = 1 /\ d[11] = 1
            /\ d[12] = 1 /\ d[13] = 1 /\ d[14] = 1 /\ d[15] = 1
        BY <3>1
      <3>3. Digit(d, 0) = 15 /\ Digit(d, 4) = 15 /\ Digit(d, 8) = 15 /\ Digit(d, 12) = 15
        BY <3>2 DEF Digit, Nibble
      <3>4. Number(d) = 256 * 256 - 1
        BY <3>3 DEF Number, FourNibbles
      <3> QED BY <3>4 DEF CRC_PRESET, WORDS, d
    <2>2. 0 \in 0 .. n /\ 8 * 0 = 0
      BY <1>1
    <2> QED BY <2>1, <2>2
  <1>5. ASSUME NEW k \in 1 .. n, k - 1 \in T PROVE k \in T
    <2> DEFINE j == k - 1
               y == [i \in 0 .. 8 |-> reg[8 * j + i]]
    <2>1. /\ j \in 0 .. n - 1 /\ j \in 0 .. n /\ j # n /\ j + 1 = k /\ j + 1 \in 1 .. n
          /\ 8 * j + 0 = 8 * j /\ 8 * j + 8 = 8 * k /\ 8 * j \in 0 .. 8 * n
          /\ \A i \in 0 .. 8 : 8 * j + i \in 0 .. 8 * n
          /\ \A i \in 0 .. 7 : i \in 0 .. 8 /\ i + 1 \in 0 .. 8
                               /\ 8 * j + (i + 1) = (8 * j + i) + 1
      BY <1>1
    <2>2. last = R[j][Number(reg[8 * j])]
      BY <1>5
    <2> HIDE DEF j
    <2>3. y \in [0 .. 8 -> Vectors]
      BY <1>3, <2>1
    <2>4. \A i \in 0 .. 8 : y[i] = reg[8 * j + i]
      OBVIOUS
    <2> HIDE DEF y
    <2>5. \A i \in 0 .. 7 : y[i + 1] = Fed(y[i], Bit(bytes[j + 1], i))
      <3> SUFFICES ASSUME NEW i \in 0 .. 7
                   PROVE  y[i + 1] = Fed(y[i], Bit(bytes[j + 1], i))
        OBVIOUS
      <3>1. /\ 8 * j + i \in 0 .. 8 * Len(bytes) - 1
            /\ BitAt(bytes, 8 * j + i) = Bit(bytes[j + 1], i)
        BY <2>1, BitAtIs
      <3>2. reg[(8 * j + i) + 1] = Fed(reg[8 * j + i], BitAt(bytes, 8 * j + i))
        BY <3>1 DEF Run
      <3>3. y[i + 1] = reg[(8 * j + i) + 1] /\ y[i] = reg[8 * j + i]
        <4>1. i \in 0 .. 8 /\ i + 1 \in 0 .. 8 /\ 8 * j + (i + 1) = (8 * j + i) + 1
          BY <2>1, Zenon
        <4>2. y[i + 1] = reg[8 * j + (i + 1)] /\ y[i] = reg[8 * j + i]
          BY <2>4, <4>1, Zenon
        <4> QED BY <4>1, <4>2, Zenon
      <3> QED BY <3>1, <3>2, <3>3
    <2>6. AddByte(Number(y[0]), bytes[j + 1]) = Number(y[8])
      BY <1>1, <2>1, <2>3, <2>5, AddByteFeeds
    <2>7. y[0] = reg[8 * j] /\ y[8] = reg[8 * k]
      <3>1. 0 \in 0 .. 8 /\ 8 \in 0 .. 8
        OBVIOUS
      <3>2. y[0] = reg[8 * j + 0] /\ y[8] = reg[8 * j + 8]
        BY <2>4, <3>1, Zenon
      <3> QED BY <2>1, <3>2, Zenon
    <2>8. Number(reg[8 * j]) \in Word
      BY <1>3, <2>1, NumberType
    <2>9. R[j] = [crc \in Word |-> R[k][AddByte(crc, bytes[j + 1])]]
      BY <1>2, <2>1
    <2>10. R[j][Number(reg[8 * j])] = R[k][Number(reg[8 * k])]
      BY <2>6, <2>7, <2>8, <2>9
    <2> QED BY <2>2, <2>10
  <1>6. n \in T
    <2> HIDE DEF T
    <2>1. \A k \in 0 .. n : k \in T
      BY <1>1, <1>4, <1>5, SetInduction
    <2> QED BY <1>1, <2>1
  <1>7. reg[8 * n] \in Vectors
    BY <1>1, <1>3
  <1>8. Number(reg[8 * n]) \in Word
    BY <1>7, NumberType
  <1>9. last = Number(reg[8 * n])
    <2>1. R[n] = [crc \in Word |-> crc]
      BY <1>1, <1>2
    <2> QED BY <1>6, <1>8, <2>1
  <1> HIDE DEF last, n
  <1>10. last \in Nat /\ last < WORDS /\ WORDS \in Nat
    BY <1>8, <1>9, WordIsNat DEF WORDS
  <1>11. last % WORDS = last
    BY <1>10
  <1> QED BY <1>7, <1>9, <1>11 DEF crc16, last, R, n

\* A word has one vector.
LEMMA NumberInjective ==
    ASSUME NEW d \in Vectors, NEW e \in Vectors, Number(d) = Number(e)
    PROVE  d = e
  <1>1. /\ Digit(d, 0) = Digit(e, 0) /\ Digit(d, 4) = Digit(e, 4)
        /\ Digit(d, 8) = Digit(e, 8) /\ Digit(d, 12) = Digit(e, 12)
    BY NumberDigits
  <1>2. ASSUME NEW k \in {0, 4, 8, 12}
        PROVE  d[k] = e[k] /\ d[k + 1] = e[k + 1] /\ d[k + 2] = e[k + 2] /\ d[k + 3] = e[k + 3]
    <2> DEFINE a0 == d[k]  a1 == d[k + 1]  a2 == d[k + 2]  a3 == d[k + 3]
               b0 == e[k]  b1 == e[k + 1]  b2 == e[k + 2]  b3 == e[k + 3]
    <2>1. /\ a0 \in Bits /\ a1 \in Bits /\ a2 \in Bits /\ a3 \in Bits
          /\ b0 \in Bits /\ b1 \in Bits /\ b2 \in Bits /\ b3 \in Bits
      BY DigitType
    <2>2. Digit(d, k) = Digit(e, k)
      BY <1>1
    <2>3. a0 + 2 * a1 + 4 * a2 + 8 * a3 = b0 + 2 * b1 + 4 * b2 + 8 * b3
      BY <2>2 DEF Digit, Nibble
    <2> HIDE DEF a0, a1, a2, a3, b0, b1, b2, b3
    <2>4. /\ a0 = 0 \/ a0 = 1
          /\ a1 = 0 \/ a1 = 1
          /\ a2 = 0 \/ a2 = 1
          /\ a3 = 0 \/ a3 = 1
      BY <2>1 DEF Bits
    <2>5. /\ b0 = 0 \/ b0 = 1
          /\ b1 = 0 \/ b1 = 1
          /\ b2 = 0 \/ b2 = 1
          /\ b3 = 0 \/ b3 = 1
      BY <2>1 DEF Bits
    <2>6. a0 = b0 /\ a1 = b1 /\ a2 = b2 /\ a3 = b3
      BY <2>3, <2>4, <2>5
    <2> QED BY <2>6 DEF a0, a1, a2, a3, b0, b1, b2, b3
  <1>3. ASSUME NEW i \in 0 .. 15 PROVE d[i] = e[i]
    <2>1. \E k \in {0, 4, 8, 12} : i = k \/ i = k + 1 \/ i = k + 2 \/ i = k + 3
      OBVIOUS
    <2> QED BY <1>2, <2>1
  <1> QED BY <1>3 DEF Vectors

\* The checksum as a vector, from the two bytes it is stored in.
LEMMA StoredBits ==
    ASSUME NEW d \in Vectors, NEW low \in Byte, NEW high \in Byte,
           low + 256 * high = Number(d)
    PROVE  \A i \in 0 .. 15 : d[i] = IF i <= 7 THEN Bit(low, i) ELSE Bit(high, i - 8)
  <1> DEFINE a == ByteBits(low)
             b == ByteBits(high)
             w == [i \in 0 .. 15 |-> IF i <= 7 THEN a[i] ELSE b[i - 8]]
  <1>1. /\ a \in Vectors /\ Number(a) = low
        /\ \A i \in 0 .. 15 : a[i] = IF i <= 7 THEN Bit(low, i) ELSE 0
    BY ByteBitsType, ByteIsBits DEF ByteBits
  <1>2. /\ b \in Vectors /\ Number(b) = high
        /\ \A i \in 0 .. 15 : b[i] = IF i <= 7 THEN Bit(high, i) ELSE 0
    BY ByteBitsType, ByteIsBits DEF ByteBits
  <1> HIDE DEF a, b
  <1>3. w \in Vectors
    <2>1. \A i \in 0 .. 15 : ~(i <= 7) => i - 8 \in 0 .. 15
      OBVIOUS
    <2>2. \A i \in 0 .. 15 : a[i] \in Bits /\ b[i] \in Bits
      BY <1>1, <1>2 DEF Vectors
    <2> QED BY <2>1, <2>2 DEF Vectors
  <1>4. \A i \in 0 .. 15 : w[i] = IF i <= 7 THEN a[i] ELSE b[i - 8]
    OBVIOUS
  <1> HIDE DEF w
  <1>5. /\ Digit(w, 0) = Digit(a, 0) /\ Digit(w, 4) = Digit(a, 4)
        /\ Digit(w, 8) = Digit(b, 0) /\ Digit(w, 12) = Digit(b, 4)
    <2>1. /\ w[0] = a[0] /\ w[1] = a[1] /\ w[2] = a[2] /\ w[3] = a[3]
          /\ w[4] = a[4] /\ w[5] = a[5] /\ w[6] = a[6] /\ w[7] = a[7]
          /\ w[8] = b[0] /\ w[9] = b[1] /\ w[10] = b[2] /\ w[11] = b[3]
          /\ w[12] = b[4] /\ w[13] = b[5] /\ w[14] = b[6] /\ w[15] = b[7]
      BY <1>4
    <2> QED BY <2>1 DEF Digit
  <1>6. Digit(a, 8) = 0 /\ Digit(a, 12) = 0 /\ Digit(b, 8) = 0 /\ Digit(b, 12) = 0
    <2>1. \A i \in 8 .. 15 : a[i] = 0 /\ b[i] = 0
      BY <1>1, <1>2
    <2> QED BY <2>1 DEF Digit, Nibble
  <1>7. /\ Digit(a, 0) \in Int /\ Digit(a, 4) \in Int
        /\ Digit(b, 0) \in Int /\ Digit(b, 4) \in Int
    BY <1>1, <1>2, DigitType
  <1>8. low = Digit(a, 0) + 16 * Digit(a, 4) /\ high = Digit(b, 0) + 16 * Digit(b, 4)
    BY <1>1, <1>2, <1>6, <1>7 DEF Number, FourNibbles
  <1>9. Number(w) = low + 256 * high
    BY <1>5, <1>7, <1>8 DEF Number, FourNibbles
  <1>10. d = w
    BY <1>3, <1>9, NumberInjective
  <1>11. \A i \in 0 .. 15 : ~(i <= 7) => i - 8 \in 0 .. 15 /\ i - 8 <= 7
    OBVIOUS
  <1> QED BY <1>1, <1>2, <1>4, <1>10, <1>11

\* The register that a frame with a right checksum leaves.
Zero == [i \in 0 .. 15 |-> 0]

\* The checksum's own two bytes, fed in after the bytes it is of, leave zero.
LEMMA FrameLeavesZero ==
    ASSUME NEW raw \in Seq(Byte), Len(raw) >= 2, ReceivedCrc(raw) = ComputedCrc(raw),
           NEW reg, Run(reg, raw)
    PROVE  reg[8 * Len(raw)] = Zero
  <1> DEFINE n == Len(raw)
             m == n - 2
             payload == SubSeq(raw, 1, m)
             c == reg[8 * m]
             head == [k \in 0 .. 8 * m |-> reg[k]]
  <1>1. n \in Nat /\ n >= 2 /\ m \in Nat /\ \A i \in 1 .. n : raw[i] \in Byte
    BY LenProperties, ElementOfSeq
  <1>2. payload \in Seq(Byte) /\ Len(payload) = m /\ \A i \in 1 .. m : payload[i] = raw[i]
    <2>1. SubSeq(raw, 0 + 1, m) = payload /\ m - 0 = m
      BY <1>1
    <2> HIDE DEF payload
    <2>2. 0 <= m /\ m <= Len(raw) /\ 0 \in Nat /\ m \in Nat
      BY <1>1
    <2> HIDE DEF m
    <2> QED BY <2>1, <2>2, Window
  <1>3. ComputedCrc(raw) = crc16(payload) /\ ReceivedCrc(raw) = raw[n - 1] + 256 * raw[n]
    BY DEF ComputedCrc, ReceivedCrc
  <1> HIDE DEF payload
  <1>4. /\ \A k \in 0 .. 8 * n : reg[k] \in Vectors
        /\ \A k \in 0 .. 8 * n - 1 : reg[k + 1] = Fed(reg[k], BitAt(raw, k))
    BY DEF Run
  <1>5. Run(head, payload)
    <2>1. \A k \in 0 .. 8 * m : k \in 0 .. 8 * n
      BY <1>1
    <2>2. head \in [0 .. 8 * m -> Vectors]
      BY <1>4, <2>1
    <2>3. head[0] = [i \in 0 .. 15 |-> 1]
      <3>1. 0 \in 0 .. 8 * m
        BY <1>1
      <3> QED BY <3>1 DEF Run
    <2>4. ASSUME NEW k \in 0 .. 8 * m - 1
          PROVE  head[k + 1] = Fed(head[k], BitAt(payload, k))
      <3>1. /\ k \in 0 .. 8 * m /\ k + 1 \in 0 .. 8 * m /\ k \in 0 .. 8 * n - 1
            /\ k \div 8 + 1 \in 1 .. m
        BY <1>1
      <3>2. head[k + 1] = reg[k + 1] /\ head[k] = reg[k]
        BY <3>1
      <3>3. BitAt(payload, k) = BitAt(raw, k)
        BY <1>2, <3>1 DEF BitAt
      <3> HIDE DEF head
      <3> QED BY <1>4, <3>1, <3>2, <3>3
    <2> QED BY <1>2, <2>2, <2>3, <2>4 DEF Run
  <1>6. c \in Vectors /\ crc16(payload) = Number(c)
    <2>1. head[8 * m] \in Vectors /\ crc16(payload) = Number(head[8 * m])
      BY <1>2, <1>5, RunIsCrc
    <2>2. 8 * m \in 0 .. 8 * m
      BY <1>1
    <2>3. head[8 * m] = c
      BY <2>2
    <2> QED BY <2>1, <2>3
  <1> HIDE DEF head, c
  <1>7. /\ raw[n - 1] \in Byte /\ raw[n] \in Byte
        /\ n - 1 = m + 1 /\ n = m + 1 + 1 /\ m \in 0 .. n - 1 /\ m + 1 \in 0 .. n - 1
    BY <1>1
  <1>8. \A i \in 0 .. 15 : c[i] = IF i <= 7 THEN Bit(raw[n - 1], i) ELSE Bit(raw[n], i - 8)
    <2> DEFINE low == raw[n - 1]
               high == raw[n]
    <2>1. low \in Byte /\ high \in Byte /\ low + 256 * high = Number(c)
      BY <1>3, <1>6, <1>7
    <2> HIDE DEF low, high
    <2>2. \A i \in 0 .. 15 : c[i] = IF i <= 7 THEN Bit(low, i) ELSE Bit(high, i - 8)
      BY <1>6, <2>1, StoredBits
    <2> QED BY <2>2 DEF low, high
  <1>9. ASSUME NEW k \in 0 .. 15
        PROVE  8 * m + k \in 0 .. 8 * n - 1 /\ BitAt(raw, 8 * m + k) = c[k]
    <2> HIDE DEF m, n
    <2>1. CASE k <= 7
      <3>1. k \in 0 .. 7
        BY <2>1
      <3>2. /\ 8 * m + k \in 0 .. 8 * Len(raw) - 1
            /\ BitAt(raw, 8 * m + k) = Bit(raw[m + 1], k)
        BY <1>7, <3>1, BitAtIs DEF n
      <3> QED BY <1>7, <1>8, <2>1, <3>2 DEF n
    <2>2. CASE ~(k <= 7)
      <3> DEFINE j == k - 8
      <3>1. j \in 0 .. 7 /\ 8 * (m + 1) + j = 8 * m + k
        BY <1>1, <2>2
      <3> HIDE DEF j
      <3>2. /\ 8 * (m + 1) + j \in 0 .. 8 * Len(raw) - 1
            /\ BitAt(raw, 8 * (m + 1) + j) = Bit(raw[m + 1 + 1], j)
        BY <1>7, <3>1, BitAtIs DEF n
      <3>3. c[k] = Bit(raw[n], j)
        BY <1>8, <2>2 DEF j
      <3> QED BY <1>7, <3>1, <3>2, <3>3 DEF n
    <2> QED BY <2>1, <2>2
  <1> DEFINE T == {k \in 0 .. 16 :
                     \A i \in 0 .. 15 :
                       reg[8 * m + k][i] = IF i + k <= 15 THEN c[i + k] ELSE 0}
  <1>10. 0 \in T
    <2>1. 8 * m + 0 = 8 * m
      BY <1>1
    <2>2. \A i \in 0 .. 15 : i + 0 = i /\ i <= 15
      OBVIOUS
    <2> HIDE DEF m
    <2> QED BY <2>1, <2>2 DEF c
  <1>11. ASSUME NEW k \in 1 .. 16, k - 1 \in T PROVE k \in T
    <2> DEFINE j == k - 1
               d == reg[8 * m + j]
    <2>1. j \in 0 .. 15 /\ 8 * m + j + 1 = 8 * m + k
      BY <1>1
    <2>2. \A i \in 0 .. 15 : d[i] = IF i + j <= 15 THEN c[i + j] ELSE 0
      BY <1>11
    <2>3. 8 * m + j \in 0 .. 8 * n - 1 /\ BitAt(raw, 8 * m + j) = c[j]
      BY <1>9, <2>1
    <2>4. d \in Vectors
      <3>1. 8 * m + j \in 0 .. 8 * n
        BY <1>1, <2>3
      <3> QED BY <1>4, <3>1
    <2>5. reg[8 * m + k] = Fed(d, c[j])
      BY <1>4, <2>1, <2>3
    <2>6. d[0] = c[j] /\ c[j] \in Bits
      <3>1. 0 + j = j /\ j <= 15 /\ 0 \in 0 .. 15
        BY <2>1
      <3>2. c[j] \in Bits
        BY <1>6, <2>1 DEF Vectors
      <3> HIDE DEF d, j
      <3> QED BY <2>2, <3>1, <3>2
    <2> DEFINE e == reg[8 * m + k]
               bit == c[j]
    <2> HIDE DEF d, e, bit
    <2>7. \A i \in 0 .. 15 :
            e[i] = IF i = 15 THEN Plus(d[0], bit)
                   ELSE IF i \in {3, 10} THEN Plus(d[i + 1], Plus(d[0], bit))
                   ELSE d[i + 1]
      <3>1. e = Fed(d, bit) /\ bit \in Bits
        BY <2>5, <2>6 DEF e, bit
      <3> QED BY <2>4, <3>1, FedType
    <2>8. Plus(d[0], bit) = 0
      BY <2>6 DEF Plus, bit
    <2> HIDE DEF j
    <2>9. ASSUME NEW i \in 0 .. 15
          PROVE  e[i] = IF i + k <= 15 THEN c[i + k] ELSE 0
      <3>1. CASE i = 15
        <4>1. ~(i + k <= 15)
          BY <3>1
        <4> QED BY <2>7, <2>8, <3>1, <4>1
      <3>2. CASE i # 15
        <4>1. i + 1 \in 0 .. 15 /\ (i + 1) + j = i + k
          BY <3>2 DEF j
        <4>2. d[i + 1] \in Bits /\ d[i + 1] = IF i + k <= 15 THEN c[i + k] ELSE 0
          <5>1. d[i + 1] = IF (i + 1) + j <= 15 THEN c[(i + 1) + j] ELSE 0
            BY <2>2, <4>1, Zenon
          <5>2. d[i + 1] \in Bits
            BY <2>4, <4>1 DEF Vectors
          <5> QED BY <4>1, <5>1, <5>2
        <4>3. Plus(d[i + 1], 0) = d[i + 1]
          BY <4>2 DEF Plus, Bits
        <4> QED BY <2>7, <2>8, <3>2, <4>2, <4>3
      <3> QED BY <3>1, <3>2
    <2> HIDE DEF m
    <2> QED BY <2>9 DEF e
  <1>12. 16 \in T
    <2> HIDE DEF T
    <2>1. 16 \in Nat /\ 16 \in 0 .. 16
      OBVIOUS
    <2>2. \A k \in 0 .. 16 : k \in T
      BY <1>10, <1>11, <2>1, SetInduction
    <2> QED BY <2>1, <2>2
  <1>13. 8 * m + 16 = 8 * n /\ 8 * n \in 0 .. 8 * n
    BY <1>1
  <1>14. \A i \in 0 .. 15 : reg[8 * n][i] = 0
    <2>1. \A i \in 0 .. 15 : ~(i + 16 <= 15)
      OBVIOUS
    <2>2. \A i \in 0 .. 15 :
            reg[8 * m + 16][i] = IF i + 16 <= 15 THEN c[i + 16] ELSE 0
      BY <1>12
    <2>3. \A i \in 0 .. 15 : reg[8 * m + 16][i] = 0
      BY <2>1, <2>2
    <2> QED BY <1>13, <2>3, Zenon
  <1>15. reg[8 * n] \in Vectors
    BY <1>4, <1>13
  <1> HIDE DEF n
  <1> QED BY <1>14, <1>15 DEF Zero, Vectors, n

-----------------------------------------------------------------------------
(* How the registers of two frames differ, and what damage must show.      *)

\* diff is how two registers differ while bytes that differ in the bits
\* `changed' are fed into them: it is a register fed with those bits alone.
Difference(diff, changed, n) ==
    /\ diff \in [0 .. n -> Vectors]
    /\ diff[0] = Zero
    /\ \A k \in 0 .. n - 1 : diff[k + 1] = Fed(diff[k], IF k \in changed THEN 1 ELSE 0)

\* Two equal registers do not differ.
LEMMA ZeroType == Zero \in Vectors /\ \A i \in 0 .. 15 : Zero[i] = 0
  BY DEF Zero, Vectors, Bits

LEMMA SameIsZero ==
    ASSUME NEW d \in Vectors
    PROVE  XorBits(d, d) = Zero
  BY DEF XorBits, Plus, Zero

\* What two runs over different bytes of one length leave.
LEMMA RunsDiffer ==
    ASSUME NEW a \in Seq(Byte), NEW b \in Seq(Byte), Len(a) = Len(b),
           NEW rega, NEW regb, Run(rega, a), Run(regb, b)
    PROVE  LET n == 8 * Len(a)
           IN  Difference([k \in 0 .. n |-> XorBits(rega[k], regb[k])], BitsChanged(a, b), n)
  <1> DEFINE n == 8 * Len(a)
             diff == [k \in 0 .. n |-> XorBits(rega[k], regb[k])]
             changed == BitsChanged(a, b)
  <1>1. n \in Nat
    BY LenProperties
  <1>2. \A k \in 0 .. n : rega[k] \in Vectors /\ regb[k] \in Vectors
    BY DEF Run
  <1>3. diff \in [0 .. n -> Vectors]
    BY <1>2, XorBitsType
  <1>4. diff[0] = Zero
    <2>1. 0 \in 0 .. n /\ rega[0] = regb[0]
      BY <1>1 DEF Run
    <2>2. rega[0] \in Vectors
      BY <1>2, <2>1
    <2> QED BY <2>1, <2>2, SameIsZero
  <1>5. ASSUME NEW k \in 0 .. n - 1
        PROVE  diff[k + 1] = Fed(diff[k], IF k \in changed THEN 1 ELSE 0)
    <2> DEFINE p == BitAt(a, k)
               q == BitAt(b, k)
    <2>1. k \in 0 .. n /\ k + 1 \in 0 .. n
      BY <1>1
    <2>2. p \in Bits /\ q \in Bits
      BY BitAtType
    <2>3. k \in changed <=> p # q
      BY DEF BitsChanged
    <2>4. Plus(p, q) = IF k \in changed THEN 1 ELSE 0
      BY <2>3 DEF Plus
    <2>5. rega[k + 1] = Fed(rega[k], p) /\ regb[k + 1] = Fed(regb[k], q)
      BY DEF Run
    <2>6. diff[k + 1] = XorBits(rega[k + 1], regb[k + 1]) /\ diff[k] = XorBits(rega[k], regb[k])
      BY <2>1
    <2> HIDE DEF diff, p, q
    <2>7. Fed(XorBits(rega[k], regb[k]), Plus(p, q)) = XorBits(Fed(rega[k], p), Fed(regb[k], q))
      BY <1>2, <2>1, <2>2, FedLinear
    <2> QED BY <2>4, <2>5, <2>6, <2>7
  <1> HIDE DEF diff, changed, n
  <1>6. Difference(diff, changed, n)
    BY <1>3, <1>4, <1>5 DEF Difference
  <1> QED BY <1>6 DEF diff, changed, n

\* Two frames with a right checksum: the difference begins and ends with zero.
LEMMA FramesDiffer ==
    ASSUME NEW a \in Seq(Byte), NEW b \in Seq(Byte), Len(a) = Len(b), Len(a) >= 2,
           ReceivedCrc(a) = ComputedCrc(a), ReceivedCrc(b) = ComputedCrc(b)
    PROVE  \E diff : /\ Difference(diff, BitsChanged(a, b), 8 * Len(a))
                     /\ diff[8 * Len(a)] = Zero
  <1>1. PICK rega : Run(rega, a)
    BY RunExists
  <1>2. PICK regb : Run(regb, b)
    BY RunExists
  <1> DEFINE n == 8 * Len(a)
             diff == [k \in 0 .. n |-> XorBits(rega[k], regb[k])]
  <1>3. Difference(diff, BitsChanged(a, b), n)
    BY <1>1, <1>2, RunsDiffer
  <1>4. rega[n] = Zero /\ regb[n] = Zero
    <2>1. rega[8 * Len(a)] = Zero
      BY <1>1, FrameLeavesZero
    <2>2. regb[8 * Len(b)] = Zero
      BY <1>2, FrameLeavesZero
    <2> QED BY <2>1, <2>2
  <1>5. n \in 0 .. n
    <2>1. Len(a) \in Nat
      BY LenProperties
    <2> QED BY <2>1
  <1>6. diff[n] = Zero
    BY <1>4, <1>5, ZeroType, SameIsZero
  <1> HIDE DEF diff
  <1> QED BY <1>3, <1>6

\* A change within 16 bits in a row leaves a difference: from its first bit on
\* some bit of it is set, and while more changes may come one that is too high
\* to be cancelled by them.
LEMMA BurstLeavesDifference ==
    ASSUME NEW n \in Nat, NEW changed \in SUBSET (0 .. n - 1), changed # {},
           \A p, q \in changed : q - p < 16,
           NEW diff, Difference(diff, changed, n)
    PROVE  diff[n] # Zero
  <1>1. PICK p \in changed : \A q \in changed : p <= q
    <2>1. changed \in SUBSET Nat
      OBVIOUS
    <2> QED BY <2>1, LeastElement
  <1>2. p \in 0 .. n - 1
    OBVIOUS
  <1>3. /\ \A k \in 0 .. n : diff[k] \in Vectors
        /\ \A k \in 0 .. n - 1 : diff[k + 1] = Fed(diff[k], IF k \in changed THEN 1 ELSE 0)
        /\ diff[0] = Zero
    BY DEF Difference
  <1> DEFINE T == {k \in 0 .. p : diff[k] = Zero}
  <1>4. 0 \in T
    BY <1>2, <1>3
  <1>5. ASSUME NEW k \in 1 .. p, k - 1 \in T PROVE k \in T
    <2>1. k - 1 \in 0 .. n - 1 /\ k - 1 \notin changed /\ (k - 1) + 1 = k
      <3>1. k - 1 \in 0 .. n - 1 /\ (k - 1) + 1 = k /\ ~(p <= k - 1)
        BY <1>2
      <3> QED BY <1>1, <3>1
    <2>2. diff[(k - 1) + 1] = Fed(diff[k - 1], IF k - 1 \in changed THEN 1 ELSE 0)
      BY <1>3, <2>1
    <2>3. diff[k] = Fed(Zero, 0)
      BY <1>5, <2>1, <2>2
    <2>4. Fed(Zero, 0) = Zero
      <3>1. 0 \in Bits /\ Plus(0, 0) = 0
        BY DEF Bits, Plus
      <3>2. Fed(Zero, 0) \in Vectors
        BY <3>1, ZeroType, FedType
      <3>3. \A i \in 0 .. 15 :
              Fed(Zero, 0)[i] = IF i = 15 THEN Plus(Zero[0], 0)
                                ELSE IF i \in {3, 10} THEN Plus(Zero[i + 1], Plus(Zero[0], 0))
                                ELSE Zero[i + 1]
        BY <3>1, ZeroType, FedType
      <3>4. \A i \in 0 .. 15 : i # 15 => i + 1 \in 0 .. 15
        OBVIOUS
      <3>5. Zero[0] = 0 /\ \A i \in 0 .. 15 : i # 15 => Zero[i + 1] = 0
        BY <3>4, ZeroType
      <3>6. \A i \in 0 .. 15 : Fed(Zero, 0)[i] = Zero[i]
        BY <3>1, <3>3, <3>5, ZeroType
      <3> QED BY <3>2, <3>6, ZeroType DEF Vectors
    <2> QED BY <2>3, <2>4
  <1>6. diff[p] = Zero
    <2> HIDE DEF T
    <2>1. p \in Nat
      BY <1>2
    <2>2. \A k \in 0 .. p : k \in T
      BY <1>4, <1>5, <2>1, SetInduction
    <2> QED BY <2>1, <2>2 DEF T
  <1>7. diff[p + 1][15] = 1
    <2>1. diff[p + 1] = Fed(Zero, 1)
      BY <1>2, <1>3, <1>6
    <2>2. 1 \in Bits
      BY DEF Bits
    <2>3. Fed(Zero, 1)[15] = Plus(Zero[0], 1)
      BY <2>2, ZeroType, FedType
    <2> QED BY <2>1, <2>3, ZeroType DEF Plus
  <1> DEFINE m == n - p - 1
             High(k) == \E i \in 0 .. 15 : diff[p + 1 + k][i] = 1 /\ i >= 15 - k
             U == {k \in 0 .. m : High(k)}
  <1>8. 0 \in U
    <2>1. p + 1 + 0 = p + 1 /\ 0 \in 0 .. m /\ 15 \in 0 .. 15 /\ 15 >= 15 - 0
      BY <1>2
    <2> QED BY <1>7, <2>1
  <1>9. ASSUME NEW k \in 1 .. m, k - 1 \in U PROVE k \in U
    <2> DEFINE d == diff[p + k]
               e == diff[p + 1 + k]
               bit == IF p + k \in changed THEN 1 ELSE 0
               out == Plus(d[0], bit)
    <2>1. /\ p + k \in 0 .. n - 1 /\ p + k \in 0 .. n
          /\ p + k + 1 = p + 1 + k /\ p + 1 + (k - 1) = p + k
      BY <1>2
    <2>2. PICK i \in 0 .. 15 : d[i] = 1 /\ i >= 15 - (k - 1)
      BY <1>9, <2>1
    <2>3. d \in Vectors /\ bit \in Bits /\ e = Fed(d, bit)
      BY <1>3, <2>1 DEF Bits
    <2>4. bit = 1 => k < 16
      <3>1. p + k \in changed => (p + k) - p < 16
        BY <1>1
      <3> QED BY <1>2, <3>1
    <2> HIDE DEF d, e, bit
    <2>5. \A j \in 0 .. 15 :
            e[j] = IF j = 15 THEN out
                   ELSE IF j \in {3, 10} THEN Plus(d[j + 1], out)
                   ELSE d[j + 1]
      BY <2>3, FedType
    <2>6. d[0] \in Bits /\ out \in Bits
      BY <2>3, PlusType DEF Vectors
    <2>7. CASE out = 1
      <3>1. e[15] = 1 /\ 15 \in 0 .. 15 /\ 15 >= 15 - k
        BY <2>5, <2>7
      <3> QED BY <3>1 DEF e
    <2>8. CASE out = 0
      <3>1. d[0] = bit
        BY <2>8 DEF Plus
      <3>2. i # 0
        <4>1. i = 0 => bit = 1 /\ 0 >= 15 - (k - 1)
          BY <2>2, <3>1
        <4> QED BY <2>4, <4>1
      <3> DEFINE j == i - 1
      <3>3. j \in 0 .. 15 /\ j # 15 /\ j + 1 = i /\ j >= 15 - k
        BY <2>2, <3>2
      <3> HIDE DEF j
      <3>4. d[j + 1] = 1 /\ Plus(1, 0) = 1
        BY <2>2, <3>3 DEF Plus
      <3>5. e[j] = 1
        BY <2>5, <2>8, <3>3, <3>4
      <3> QED BY <3>3, <3>5 DEF e
    <2> QED BY <2>6, <2>7, <2>8 DEF Bits
  <1>10. m \in U
    <2> HIDE DEF U
    <2>1. m \in Nat /\ m \in 0 .. m
      BY <1>2
    <2>2. \A k \in 0 .. m : k \in U
      BY <1>8, <1>9, <2>1, SetInduction
    <2> QED BY <2>1, <2>2
  <1>11. p + 1 + m = n
    BY <1>2
  <1>12. PICK i \in 0 .. 15 : diff[n][i] = 1
    BY <1>10, <1>11
  <1>13. Zero[i] = 0
    BY ZeroType
  <1> QED BY <1>12, <1>13

\* How many bits of a vector are set, modulo 2.
Parity(d) ==
    (d[0] + d[1] + d[2] + d[3] + d[4] + d[5] + d[6] + d[7]
       + d[8] + d[9] + d[10] + d[11] + d[12] + d[13] + d[14] + d[15]) % 2

\* The polynomial has an even number of terms: feeding a bit adds it to the
\* parity, whatever the register.
LEMMA FedParity ==
    ASSUME NEW d \in Vectors, NEW bit \in Bits
    PROVE  Parity(Fed(d, bit)) = (Parity(d) + bit) % 2
  <1> DEFINE e == Fed(d, bit)
             out == Plus(d[0], bit)
             u == d[1] + d[2] + d[3]
             v == d[5] + d[6] + d[7] + d[8] + d[9] + d[10]
             w == d[12] + d[13] + d[14] + d[15]
             p == d[0]
             q == d[4]
             r == d[11]
             x == Plus(q, out)
             y == Plus(r, out)
             rest == u + v + w
  <1>1. \A i \in 0 .. 15 :
          e[i] = IF i = 15 THEN out
                 ELSE IF i \in {3, 10} THEN Plus(d[i + 1], out)
                 ELSE d[i + 1]
    BY FedType
  <1>2. \A i \in 0 .. 15 : d[i] \in Bits
    BY DEF Vectors
  <1>3. \A i \in 0 .. 15 : d[i] \in Int
    BY <1>2 DEF Bits
  <1>4. u \in Int /\ \A s \in Int : s + d[1] + d[2] + d[3] = s + u
    <2>1. d[1] \in Int /\ d[2] \in Int /\ d[3] \in Int
      BY <1>3
    <2> QED BY <2>1
  <1>5. v \in Int /\ \A s \in Int : s + d[5] + d[6] + d[7] + d[8] + d[9] + d[10] = s + v
    <2>1. /\ d[5] \in Int /\ d[6] \in Int /\ d[7] \in Int
          /\ d[8] \in Int /\ d[9] \in Int /\ d[10] \in Int
      BY <1>3
    <2> QED BY <2>1
  <1>6. w \in Int /\ \A s \in Int : s + d[12] + d[13] + d[14] + d[15] = s + w
    <2>1. d[12] \in Int /\ d[13] \in Int /\ d[14] \in Int /\ d[15] \in Int
      BY <1>3
    <2> QED BY <2>1
  <1>7. p \in Bits /\ q \in Bits /\ r \in Bits
    BY <1>2
  <1>8. out \in Bits
    BY <1>7, PlusType
  <1>9. x \in Bits /\ y \in Bits
    BY <1>7, <1>8, PlusType
  <1>10. /\ p \in Int /\ q \in Int /\ r \in Int /\ out \in Int /\ x \in Int /\ y \in Int
         /\ rest \in Int
    BY <1>4, <1>5, <1>6, <1>7, <1>8, <1>9 DEF Bits
  <1>11. Parity(d) = (rest + p + q + r) % 2
    <2>1. p + d[1] + d[2] + d[3] + q = p + u + q
      BY <1>4, <1>10
    <2> DEFINE s1 == p + u + q
               s2 == s1 + v + r
    <2>2. s1 \in Int /\ s2 \in Int
      BY <1>4, <1>5, <1>10
    <2>3. s2 + w = rest + p + q + r
      BY <1>4, <1>5, <1>6, <1>10
    <2> HIDE DEF s1
    <2>4. s1 + d[5] + d[6] + d[7] + d[8] + d[9] + d[10] = s1 + v
      BY <1>5, <2>2
    <2> HIDE DEF s2, u, v, w, rest
    <2>5. s2 + d[12] + d[13] + d[14] + d[15] = s2 + w
      BY <1>6, <2>2
    <2> QED BY <2>1, <2>3, <2>4, <2>5, Zenon DEF Parity, s1, s2
  <1>12. Parity(e) = (rest + x + y + out) % 2
    <2> HIDE DEF e, out, x, y
    <2>1. /\ e[0] = d[1] /\ e[1] = d[2] /\ e[2] = d[3] /\ e[3] = x
          /\ e[4] = d[5] /\ e[5] = d[6] /\ e[6] = d[7] /\ e[7] = d[8]
          /\ e[8] = d[9] /\ e[9] = d[10] /\ e[10] = y /\ e[11] = d[12]
          /\ e[12] = d[13] /\ e[13] = d[14] /\ e[14] = d[15] /\ e[15] = out
      BY <1>1 DEF x, y
    <2> DEFINE s1 == u + x
               s2 == s1 + v + y
    <2>2. s1 \in Int /\ s2 \in Int
      BY <1>4, <1>5, <1>10
    <2>3. s2 + w + out = rest + x + y + out
      BY <1>4, <1>5, <1>6, <1>10
    <2> HIDE DEF s1
    <2>4. s1 + d[5] + d[6] + d[7] + d[8] + d[9] + d[10] = s1 + v
      BY <1>5, <2>2
    <2> HIDE DEF s2, v, w, rest
    <2>5. s2 + d[12] + d[13] + d[14] + d[15] = s2 + w
      BY <1>6, <2>2
    <2>6. Parity(e) = (d[1] + d[2] + d[3] + x + d[5] + d[6] + d[7] + d[8] + d[9] + d[10]
                         + y + d[12] + d[13] + d[14] + d[15] + out) % 2
      BY <2>1, Zenon DEF Parity
    <2> QED BY <2>3, <2>4, <2>5, <2>6, Zenon DEF s1, s2, u
  <1> HIDE DEF rest, p, q, r
  <1>13. (rest + x + y + out) % 2 = (((rest + p + q + r) % 2) + bit) % 2
    <2>1. out = Plus(p, bit)
      BY DEF p
    <2> QED BY <1>7, <1>10, <2>1 DEF Bits, Plus
  <1> HIDE DEF e, out, x, y
  <1> QED BY <1>11, <1>12, <1>13 DEF e

\* So an odd number of changes leaves a difference.
LEMMA OddLeavesDifference ==
    ASSUME NEW n \in Nat, NEW changed \in SUBSET (0 .. n - 1),
           Cardinality(changed) % 2 = 1,
           NEW diff, Difference(diff, changed, n)
    PROVE  diff[n] # Zero
  <1> DEFINE C(k) == changed \cap (0 .. k - 1)
             T == {k \in 0 .. n :
                     IsFiniteSet(C(k)) /\ Cardinality(C(k)) % 2 = Parity(diff[k])}
  <1>1. /\ \A k \in 0 .. n : diff[k] \in Vectors
        /\ \A k \in 0 .. n - 1 : diff[k + 1] = Fed(diff[k], IF k \in changed THEN 1 ELSE 0)
        /\ diff[0] = Zero
    BY DEF Difference
  <1>2. Parity(Zero) = 0
    <2> DEFINE z == Zero
    <2>1. \A i \in 0 .. 15 : z[i] = 0
      BY ZeroType
    <2> HIDE DEF z
    <2>2. /\ z[0] = 0 /\ z[1] = 0 /\ z[2] = 0 /\ z[3] = 0 /\ z[4] = 0 /\ z[5] = 0
          /\ z[6] = 0 /\ z[7] = 0 /\ z[8] = 0 /\ z[9] = 0 /\ z[10] = 0 /\ z[11] = 0
          /\ z[12] = 0 /\ z[13] = 0 /\ z[14] = 0 /\ z[15] = 0
      BY <2>1
    <2>3. Parity(z) = 0
      BY <2>2 DEF Parity
    <2> QED BY <2>3 DEF z
  <1>3. 0 \in T
    <2>1. C(0) = {} /\ 0 \in 0 .. n
      OBVIOUS
    <2>2. IsFiniteSet(C(0)) /\ Cardinality(C(0)) = 0
      BY <2>1, FS_EmptySet
    <2>3. Cardinality(C(0)) % 2 = 0
      BY <2>2
    <2> HIDE DEF C
    <2> QED BY <1>1, <1>2, <2>1, <2>2, <2>3
  <1>4. ASSUME NEW k \in 1 .. n, k - 1 \in T PROVE k \in T
    <2> DEFINE j == k - 1
               d == diff[j]
               bit == IF j \in changed THEN 1 ELSE 0
               few == Cardinality(C(j))
    <2>1. j \in 0 .. n - 1 /\ j \in 0 .. n /\ j + 1 = k
      OBVIOUS
    <2>2. IsFiniteSet(C(j)) /\ few % 2 = Parity(d)
      BY <1>4
    <2>3. diff[k] = Fed(d, bit) /\ d \in Vectors /\ bit \in Bits
      BY <1>1, <2>1 DEF Bits
    <2>4. few \in Nat
      BY <2>2, FS_CardinalityType
    <2>5. C(k) = IF j \in changed THEN C(j) \cup {j} ELSE C(j)
      BY <2>1
    <2>6. j \notin C(j)
      BY <2>1
    <2> HIDE DEF C
    <2>7. IsFiniteSet(C(k)) /\ Cardinality(C(k)) = few + bit
      <3>1. CASE j \in changed
        BY <2>2, <2>5, <2>6, <3>1, FS_AddElement
      <3>2. CASE j \notin changed
        BY <2>2, <2>4, <2>5, <3>2
      <3> QED BY <3>1, <3>2
    <2> HIDE DEF few, d, bit
    <2>8. Parity(diff[k]) = (Parity(d) + bit) % 2
      BY <2>3, FedParity
    <2>9. (few + bit) % 2 = ((few % 2) + bit) % 2
      BY <2>3, <2>4 DEF Bits
    <2> QED BY <2>2, <2>7, <2>8, <2>9
  <1>5. n \in T
    <2> HIDE DEF T
    <2>1. \A k \in 0 .. n : k \in T
      BY <1>3, <1>4, SetInduction
    <2> QED BY <2>1
  <1>6. C(n) = changed
    OBVIOUS
  <1>7. Parity(diff[n]) = 1
    BY <1>5, <1>6
  <1> QED BY <1>2, <1>7

\* What the builder makes is as long as its length byte says.
LEMMA BuiltLength ==
    ASSUME NEW raw \in Seq(Byte), BuiltResponse(raw)
    PROVE  Len(raw) >= 6 /\ Len(raw) = raw[1] + 1
  <1> DEFINE n == Len(raw)
             data == SubSeq(raw, 5, n - 2)
             payload == <<Len(data) + 5, raw[2], raw[3], raw[4]>> \o data
             low == crc16(payload) % 256
             high == crc16(payload) \div 256
             S == Nat \cup {low, high}
  <1>1. n \in Nat /\ n >= 6 /\ \A i \in 1 .. n : raw[i] \in Byte
    BY LenProperties, ElementOfSeq DEF BuiltResponse
  <1>2. raw = payload \o <<low, high>>
    BY DEF BuiltResponse, build_response_frame, WithCrc, LittleEndian
  <1>3. \A i \in 1 .. n : raw[i] \in Nat
    BY <1>1, ByteIsNat
  <1>4. data \in Seq(Nat) /\ Len(data) = n - 6
    <2>1. raw \in Seq(Nat)
      BY <1>3
    <2>2. SubSeq(raw, 4 + 1, n - 2) = data /\ (n - 2) - 4 = n - 6
      BY <1>1
    <2>3. n - 2 \in Nat /\ 4 <= n - 2 /\ n - 2 <= Len(raw) /\ 4 \in Nat
      BY <1>1
    <2> HIDE DEF n, data
    <2>4. /\ SubSeq(raw, 4 + 1, n - 2) \in Seq(Nat)
          /\ Len(SubSeq(raw, 4 + 1, n - 2)) = (n - 2) - 4
      BY ONLY <2>1, <2>3, Window
    <2> QED BY <2>2, <2>4
  <1> HIDE DEF low, high, data
  <1>5. raw[1] = n - 1
    <2> DEFINE head == <<Len(data) + 5, raw[2], raw[3], raw[4]>>
    <2>1. raw[2] \in Nat /\ raw[3] \in Nat /\ raw[4] \in Nat /\ Len(data) + 5 \in Nat
      BY <1>1, <1>3, <1>4
    <2>2. head \in Seq(S) /\ Len(head) = 4 /\ head[1] = Len(data) + 5
      BY <2>1
    <2>3. data \in Seq(S)
      BY <1>4
    <2>4. <<low, high>> \in Seq(S)
      OBVIOUS
    <2> HIDE DEF head, S
    <2>5. /\ head \o data \in Seq(S) /\ Len(head \o data) = Len(head) + Len(data)
          /\ \A i \in 1 .. Len(head) + Len(data) :
               (head \o data)[i] = IF i <= Len(head) THEN head[i] ELSE data[i - Len(head)]
      BY <2>2, <2>3, ConcatProperties
    <2>6. 1 \in 1 .. Len(head) + Len(data) /\ 1 <= Len(head)
      BY <1>1, <1>4, <2>2
    <2>7. (head \o data)[1] = Len(data) + 5 /\ Len(head \o data) >= 4
      BY <1>1, <1>4, <2>2, <2>5, <2>6
    <2> DEFINE front == head \o data
    <2>8. front \in Seq(S) /\ front[1] = Len(data) + 5 /\ Len(front) \in Nat /\ Len(front) >= 4
      BY <2>5, <2>7, LenProperties
    <2>9. payload = front
      BY DEF head
    <2> HIDE DEF front, payload
    <2>10. (front \o <<low, high>>)[1] = front[1]
      BY <2>4, <2>8, ConcatProperties
    <2>11. raw[1] = Len(data) + 5
      BY <1>2, <2>8, <2>9, <2>10
    <2> QED BY <1>1, <1>4, <2>11
  <1> QED BY <1>1, <1>5

\* Two built frames never differ by damage the checksum is there for.
LEMMA DamageShows ==
    ASSUME NEW a \in Seq(Byte), NEW b \in Seq(Byte), Len(a) = Len(b),
           BuiltResponse(a), BuiltResponse(b)
    PROVE  ~Detectable(BitsChanged(a, b))
  <1> DEFINE n == 8 * Len(a)
             changed == BitsChanged(a, b)
  <1>1. n \in Nat /\ Len(a) >= 2
    <2>1. Len(a) \in Nat /\ Len(a) >= 6
      BY LenProperties, BuiltLength
    <2> QED BY <2>1
  <1>2. ReceivedCrc(a) = ComputedCrc(a)
    BY BuiltLength, BuiltFrame
  <1>3. ReceivedCrc(b) = ComputedCrc(b)
    BY BuiltLength, BuiltFrame
  <1>4. PICK diff : Difference(diff, changed, n) /\ diff[n] = Zero
    BY <1>1, <1>2, <1>3, FramesDiffer
  <1>5. changed \in SUBSET (0 .. n - 1)
    BY DEF BitsChanged
  <1> HIDE DEF n, changed
  <1>6. ~(changed # {} /\ \A p, q \in changed : q - p < 16)
    BY <1>1, <1>4, <1>5, BurstLeavesDifference
  <1>7. ~(Cardinality(changed) % 2 = 1)
    BY <1>1, <1>4, <1>5, OddLeavesDifference
  <1> QED BY <1>6, <1>7 DEF Detectable, changed

\* A frame that is accepted is a built one.
LEMMA AcceptedIsBuilt ==
    ASSUME TypeOK, RightVerdict, NEW i \in 1 .. Len(taken), taken[i].as = "frames"
    PROVE  taken[i].bytes \in Seq(Byte) /\ BuiltResponse(taken[i].bytes)
  <1>1. taken[i] \in [at : Nat, bytes : Seq(Byte), as : {"frames", "heartbeats", "errors"}]
    BY ElementOfSeq DEF TypeOK
  <1>2. RightList(taken[i].bytes) = "frames"
    BY DEF RightVerdict
  <1> QED BY <1>1, <1>2 DEF RightList

\* Two frames that feed() hands over, if they are of one length and differ at
\* all, differ in an even number of bits, two of them at least 16 apart:
\* whatever is written, no frame damaged within 16 bits in a row or in an odd
\* number of bits passes for another one.
THEOREM DamageIsDetected == Spec => []DamageDetected
  <1>1. TypeOK /\ RightVerdict => DamageDetected
    <2> SUFFICES ASSUME TypeOK, RightVerdict,
                        NEW i \in 1 .. Len(taken), NEW j \in 1 .. Len(taken),
                        taken[i].as = "frames", taken[j].as = "frames",
                        Len(taken[j].bytes) = Len(taken[i].bytes)
                 PROVE  ~Detectable(BitsChanged(taken[i].bytes, taken[j].bytes))
      BY DEF DamageDetected
    <2>1. taken[i].bytes \in Seq(Byte) /\ BuiltResponse(taken[i].bytes)
      BY AcceptedIsBuilt
    <2>2. taken[j].bytes \in Seq(Byte) /\ BuiltResponse(taken[j].bytes)
      BY AcceptedIsBuilt
    <2> QED BY <2>1, <2>2, DamageShows
  <1> QED BY <1>1, BufferTypes, VerdictsAreRight, PTL

-----------------------------------------------------------------------------
(* The captured frame of the runs, byte by byte.                           *)

\* Half a word, with the polynomial added to it.
Flipped(h) ==
    32768 + h + (IF (h \div 1024) % 2 = 0 THEN 1024 ELSE -1024)
              + (IF (h \div 8) % 2 = 0 THEN 8 ELSE -8)

LEMMA FlippedIs ==
    ASSUME NEW h \in Nat, h < 32768
    PROVE  Xor(h, CRC_POLYNOMIAL) = Flipped(h)
  <1> DEFINE p == (h \div 1) % 16
             q == (h \div 16) % 16
             r == (h \div 256) % 16
             s == (h \div 4096) % 16
  <1>1. /\ p \in 0 .. 15 /\ q \in 0 .. 15 /\ r \in 0 .. 15 /\ s \in 0 .. 7
        /\ h = p + 16 * q + 256 * r + 4096 * s
    <2> DEFINE h1 == h \div 16
               h2 == h \div 256
               h3 == h \div 4096
    <2>1. /\ h \div 1 = h /\ h = (h % 16) + 16 * h1
          /\ h1 = (h1 % 16) + 16 * h2 /\ h2 = (h2 % 16) + 16 * h3
      OBVIOUS
    <2>2. h1 \in Nat /\ h2 \in Nat /\ h3 \in 0 .. 7
      OBVIOUS
    <2> HIDE DEF h1, h2, h3
    <2>3. h % 16 \in 0 .. 15 /\ h1 % 16 \in 0 .. 15 /\ h2 % 16 \in 0 .. 15 /\ h3 % 16 = h3
      BY <2>2
    <2>4. p = h % 16 /\ q = h1 % 16 /\ r = h2 % 16 /\ s = h3
      BY <2>1, <2>3 DEF h1, h2, h3
    <2> HIDE DEF p, q, r, s
    <2> QED BY <2>1, <2>2, <2>3, <2>4
  <1>2. /\ (CRC_POLYNOMIAL \div 1) % 16 = 8 /\ (CRC_POLYNOMIAL \div 16) % 16 = 0
        /\ (CRC_POLYNOMIAL \div 256) % 16 = 4 /\ (CRC_POLYNOMIAL \div 4096) % 16 = 8
    BY DEF CRC_POLYNOMIAL
  <1>3. Xor(h, CRC_POLYNOMIAL) =
          1 * XorNibble[p][8] + 16 * XorNibble[q][0]
            + 256 * XorNibble[r][4] + 4096 * XorNibble[s][8]
    BY <1>2 DEF Xor
  <1> DEFINE flip3 == IF (h \div 8) % 2 = 0 THEN 8 ELSE -8
             flip10 == IF (h \div 1024) % 2 = 0 THEN 1024 ELSE -1024
  <1>4. \A a \in 0 .. 15 :
          /\ XorNibble[a][8] = IF a < 8 THEN a + 8 ELSE a - 8
          /\ XorNibble[a][0] = a
          /\ XorNibble[a][4] = IF (a \div 4) % 2 = 0 THEN a + 4 ELSE a - 4
    BY DEF XorNibble
  <1> HIDE DEF p, q, r, s
  <1>5. /\ (h \div 8) % 2 = 0 <=> p < 8
        /\ (h \div 1024) % 2 = 0 <=> (r \div 4) % 2 = 0
    <2>1. h \div 8 = 2 * q + 32 * r + 512 * s + (IF p < 8 THEN 0 ELSE 1)
      BY <1>1
    <2>2. h \div 1024 = (r \div 4) + 4 * s
      BY <1>1
    <2>3. (r \div 4) \in Int
      BY <1>1
    <2> QED BY <1>1, <2>1, <2>2, <2>3
  <1>6. /\ XorNibble[p][8] = p + (IF p < 8 THEN 8 ELSE -8)
        /\ XorNibble[q][0] = q
        /\ XorNibble[r][4] = r + (IF (r \div 4) % 2 = 0 THEN 4 ELSE -4)
        /\ XorNibble[s][8] = s + 8
    BY <1>1, <1>4
  <1>7. Xor(h, CRC_POLYNOMIAL) =
          1 * (p + (IF p < 8 THEN 8 ELSE -8)) + 16 * q
            + 256 * (r + (IF (r \div 4) % 2 = 0 THEN 4 ELSE -4)) + 4096 * (s + 8)
    BY <1>3, <1>6
  <1> QED BY <1>1, <1>5, <1>7 DEF Flipped

\* A shift of the register, by its value.
LEMMA ShiftBitIs ==
    ASSUME NEW crc \in Word
    PROVE  ShiftBit(crc) = IF crc % 2 = 1 THEN Flipped(crc \div 2) ELSE crc \div 2
  <1> DEFINE half == crc \div 2
  <1>1. crc \in Nat /\ crc < 256 * 256
    BY WordIsNat DEF WORDS
  <1>2. half \in Nat /\ half < 32768
    BY <1>1
  <1> HIDE DEF half
  <1>3. Xor(half, CRC_POLYNOMIAL) = Flipped(half)
    BY <1>2, FlippedIs
  <1> QED BY <1>3 DEF ShiftBit, half

\* What the inner loop makes of the register.
LEMMA EightShifts ==
    ASSUME NEW crc \in Word
    PROVE  Shifts[8][crc] =
             ShiftBit(ShiftBit(ShiftBit(ShiftBit(
               ShiftBit(ShiftBit(ShiftBit(ShiftBit(crc))))))))
  <1>1. ASSUME NEW k \in 1 .. 8, NEW x \in Word
        PROVE  Shifts[k][x] = Shifts[k - 1][ShiftBit(x)]
    <2>1. k \in 0 .. 8 /\ k # 0
      OBVIOUS
    <2>2. Shifts[k] = [c \in Word |-> Shifts[k - 1][ShiftBit(c)]]
      BY <2>1, ShiftsAre DEF ShiftsOf
    <2> QED BY <2>2
  <1>2. \A x \in Word : Shifts[0][x] = x
    BY ShiftsAre DEF ShiftsOf
  <1> DEFINE x1 == ShiftBit(crc)
             x2 == ShiftBit(x1)
             x3 == ShiftBit(x2)
             x4 == ShiftBit(x3)
             x5 == ShiftBit(x4)
             x6 == ShiftBit(x5)
             x7 == ShiftBit(x6)
             x8 == ShiftBit(x7)
  <1>3. /\ x1 \in Word /\ x2 \in Word /\ x3 \in Word /\ x4 \in Word
        /\ x5 \in Word /\ x6 \in Word /\ x7 \in Word /\ x8 \in Word
    BY ShiftBitType
  <1>4. /\ 8 - 1 = 7 /\ 7 - 1 = 6 /\ 6 - 1 = 5 /\ 5 - 1 = 4
        /\ 4 - 1 = 3 /\ 3 - 1 = 2 /\ 2 - 1 = 1 /\ 1 - 1 = 0
        /\ \A k \in {1, 2, 3, 4, 5, 6, 7, 8} : k \in 1 .. 8
    OBVIOUS
  <1>5. /\ Shifts[8][crc] = Shifts[7][x1] /\ Shifts[7][x1] = Shifts[6][x2]
        /\ Shifts[6][x2] = Shifts[5][x3] /\ Shifts[5][x3] = Shifts[4][x4]
    BY <1>1, <1>3, <1>4
  <1>6. /\ Shifts[4][x4] = Shifts[3][x5] /\ Shifts[3][x5] = Shifts[2][x6]
        /\ Shifts[2][x6] = Shifts[1][x7] /\ Shifts[1][x7] = Shifts[0][x8]
    BY <1>1, <1>3, <1>4
  <1>7. Shifts[0][x8] = x8
    BY <1>2, <1>3
  <1> QED BY <1>5, <1>6, <1>7

\* The register after each byte of the captured frame: the byte is added to it,
\* and it is shifted eight times.
LEMMA CapturedRegisters ==
    /\ AddByte(65535, 17) = 3727 /\ AddByte(3727, 0) = 31985 /\ AddByte(31985, 238) = 59402
    /\ AddByte(59402, 0) = 44978 /\ AddByte(44978, 32) = 46900 /\ AddByte(46900, 0) = 30480
    /\ AddByte(30480, 112) = 25457 /\ AddByte(25457, 140) = 11273 /\ AddByte(11273, 43) = 572
    /\ AddByte(572, 56) = 17958 /\ AddByte(17958, 11) = 64161 /\ AddByte(64161, 45) = 20126
    /\ AddByte(20126, 0) = 32185 /\ AddByte(32185, 0) = 10295 /\ AddByte(10295, 0) = 17684
    /\ AddByte(17684, 0) = 22240
  <1>1. AddByte(65535, 17) = 3727
    <2>1. Xor(65535, 17) = 65518
      BY SMT DEF Xor, XorNibble
    <2>2. /\ 65518 \in Word /\ 32759 \in Word /\ 48115 \in Word /\ 55793 \in Word
          /\ 59632 \in Word /\ 29816 \in Word /\ 14908 \in Word /\ 7454 \in Word
      BY SMT DEF Word, WORDS
    <2>3. /\ ShiftBit(65518) = 32759 /\ ShiftBit(32759) = 48115 /\ ShiftBit(48115) = 55793
          /\ ShiftBit(55793) = 59632 /\ ShiftBit(59632) = 29816 /\ ShiftBit(29816) = 14908
          /\ ShiftBit(14908) = 7454 /\ ShiftBit(7454) = 3727
      BY <2>2, ShiftBitIs, SMT DEF Flipped
    <2>4. Shifts[8][65518] = 3727
      BY ONLY <2>2, <2>3, EightShifts, SMT
    <2> QED BY <2>1, <2>4, SMT DEF AddByte
  <1>2. AddByte(3727, 0) = 31985
    <2>1. Xor(3727, 0) = 3727
      BY SMT DEF Xor, XorNibble
    <2>2. /\ 3727 \in Word /\ 33615 \in Word /\ 50607 \in Word /\ 59103 \in Word
          /\ 63335 \in Word /\ 65467 \in Word /\ 64469 \in Word /\ 63970 \in Word
      BY SMT DEF Word, WORDS
    <2>3. /\ ShiftBit(3727) = 33615 /\ ShiftBit(33615) = 50607 /\ ShiftBit(50607) = 59103
          /\ ShiftBit(59103) = 63335 /\ ShiftBit(63335) = 65467 /\ ShiftBit(65467) = 64469
          /\ ShiftBit(64469) = 63970 /\ ShiftBit(63970) = 31985
      BY <2>2, ShiftBitIs, SMT DEF Flipped
    <2>4. Shifts[8][3727] = 31985
      BY ONLY <2>2, <2>3, EightShifts, SMT
    <2> QED BY <2>1, <2>4, SMT DEF AddByte
  <1>3. AddByte(31985, 238) = 59402
    <2>1. Xor(31985, 238) = 31775
      BY SMT DEF Xor, XorNibble
    <2>2. /\ 31775 \in Word /\ 47623 \in Word /\ 55563 \in Word /\ 59533 \in Word
          /\ 61518 \in Word /\ 30759 \in Word /\ 47131 \in Word /\ 55301 \in Word
      BY SMT DEF Word, WORDS
    <2>3. /\ ShiftBit(31775) = 47623 /\ ShiftBit(47623) = 55563 /\ ShiftBit(55563) = 59533
          /\ ShiftBit(59533) = 61518 /\ ShiftBit(61518) = 30759 /\ ShiftBit(30759) = 47131
          /\ ShiftBit(47131) = 55301 /\ ShiftBit(55301) = 59402
      BY <2>2, ShiftBitIs, SMT DEF Flipped
    <2>4. Shifts[8][31775] = 59402
      BY ONLY <2>2, <2>3, EightShifts, SMT
    <2> QED BY <2>1, <2>4, SMT DEF AddByte
  <1>4. AddByte(59402, 0) = 44978
    <2>1. Xor(59402, 0) = 59402
      BY SMT DEF Xor, XorNibble
    <2>2. /\ 59402 \in Word /\ 29701 \in Word /\ 48650 \in Word /\ 24325 \in Word
          /\ 43914 \in Word /\ 21957 \in Word /\ 44778 \in Word /\ 22389 \in Word
      BY SMT DEF Word, WORDS
    <2>3. /\ ShiftBit(59402) = 29701 /\ ShiftBit(29701) = 48650 /\ ShiftBit(48650) = 24325
          /\ ShiftBit(24325) = 43914 /\ ShiftBit(43914) = 21957 /\ ShiftBit(21957) = 44778
          /\ ShiftBit(44778) = 22389 /\ ShiftBit(22389) = 44978
      BY <2>2, ShiftBitIs, SMT DEF Flipped
    <2>4. Shifts[8][59402] = 44978
      BY ONLY <2>2, <2>3, EightShifts, SMT
    <2> QED BY <2>1, <2>4, SMT DEF AddByte
  <1>5. AddByte(44978, 32) = 46900
    <2>1. Xor(44978, 32) = 44946
      BY SMT DEF Xor, XorNibble
    <2>2. /\ 44946 \in Word /\ 22473 \in Word /\ 45036 \in Word /\ 22518 \in Word
          /\ 11259 \in Word /\ 37365 \in Word /\ 52466 \in Word /\ 26233 \in Word
      BY SMT DEF Word, WORDS
    <2>3. /\ ShiftBit(44946) = 22473 /\ ShiftBit(22473) = 45036 /\ ShiftBit(45036) = 22518
          /\ ShiftBit(22518) = 11259 /\ ShiftBit(11259) = 37365 /\ ShiftBit(37365) = 52466
          /\ ShiftBit(52466) = 26233 /\ ShiftBit(26233) = 46900
      BY <2>2, ShiftBitIs, SMT DEF Flipped
    <2>4. Shifts[8][44946] = 46900
      BY ONLY <2>2, <2>3, EightShifts, SMT
    <2> QED BY <2>1, <2>4, SMT DEF AddByte
  <1>6. AddByte(46900, 0) = 30480
    <2>1. Xor(46900, 0) = 46900
      BY SMT DEF Xor, XorNibble
    <2>2. /\ 46900 \in Word /\ 23450 \in Word /\ 11725 \in Word /\ 37614 \in Word
          /\ 18807 \in Word /\ 41139 \in Word /\ 54353 \in Word /\ 60960 \in Word
      BY SMT DEF Word, WORDS
    <2>3. /\ ShiftBit(46900) = 23450 /\ ShiftBit(23450) = 11725 /\ ShiftBit(11725) = 37614
          /\ ShiftBit(37614) = 18807 /\ ShiftBit(18807) = 41139 /\ ShiftBit(41139) = 54353
          /\ ShiftBit(54353) = 60960 /\ ShiftBit(60960) = 30480
      BY <2>2, ShiftBitIs, SMT DEF Flipped
    <2>4. Shifts[8][46900] = 30480
      BY ONLY <2>2, <2>3, EightShifts, SMT
    <2> QED BY <2>1, <2>4, SMT DEF AddByte
  <1>7. AddByte(30480, 112) = 25457
    <2>1. Xor(30480, 112) = 30560
      BY SMT DEF Xor, XorNibble
    <2>2. /\ 30560 \in Word /\ 15280 \in Word /\ 7640 \in Word /\ 3820 \in Word
          /\ 1910 \in Word /\ 955 \in Word /\ 34261 \in Word /\ 50914 \in Word
      BY SMT DEF Word, WORDS
    <2>3. /\ ShiftBit(30560) = 15280 /\ ShiftBit(15280) = 7640 /\ ShiftBit(7640) = 3820
          /\ ShiftBit(3820) = 1910 /\ ShiftBit(1910) = 955 /\ ShiftBit(955) = 34261
          /\ ShiftBit(34261) = 50914 /\ ShiftBit(50914) = 25457
      BY <2>2, ShiftBitIs, SMT DEF Flipped
    <2>4. Shifts[8][30560] = 25457
      BY ONLY <2>2, <2>3, EightShifts, SMT
    <2> QED BY <2>1, <2>4, SMT DEF AddByte
  <1>8. AddByte(25457, 140) = 11273
    <2>1. Xor(25457, 140) = 25597
      BY SMT DEF Xor, XorNibble
    <2>2. /\ 25597 \in Word /\ 46582 \in Word /\ 23291 \in Word /\ 43381 \in Word
          /\ 53426 \in Word /\ 26713 \in Word /\ 45092 \in Word /\ 22546 \in Word
      BY SMT DEF Word, WORDS
    <2>3. /\ ShiftBit(25597) = 46582 /\ ShiftBit(46582) = 23291 /\ ShiftBit(23291) = 43381
          /\ ShiftBit(43381) = 53426 /\ ShiftBit(53426) = 26713 /\ ShiftBit(26713) = 45092
          /\ ShiftBit(45092) = 22546 /\ ShiftBit(22546) = 11273
      BY <2>2, ShiftBitIs, SMT DEF Flipped
    <2>4. Shifts[8][25597] = 11273
      BY ONLY <2>2, <2>3, EightShifts, SMT
    <2> QED BY <2>1, <2>4, SMT DEF AddByte
  <1>9. AddByte(11273, 43) = 572
    <2>1. Xor(11273, 43) = 11298
      BY SMT DEF Xor, XorNibble
    <2>2. /\ 11298 \in Word /\ 5649 \in Word /\ 36608 \in Word /\ 18304 \in Word
          /\ 9152 \in Word /\ 4576 \in Word /\ 2288 \in Word /\ 1144 \in Word
      BY SMT DEF Word, WORDS
    <2>3. /\ ShiftBit(11298) = 5649 /\ ShiftBit(5649) = 36608 /\ ShiftBit(36608) = 18304
          /\ ShiftBit(18304) = 9152 /\ ShiftBit(9152) = 4576 /\ ShiftBit(4576) = 2288
          /\ ShiftBit(2288) = 1144 /\ ShiftBit(1144) = 572
      BY <2>2, ShiftBitIs, SMT DEF Flipped
    <2>4. Shifts[8][11298] = 572
      BY ONLY <2>2, <2>3, EightShifts, SMT
    <2> QED BY <2>1, <2>4, SMT DEF AddByte
  <1>10. AddByte(572, 56) = 17958
    <2>1. Xor(572, 56) = 516
      BY SMT DEF Xor, XorNibble
    <2>2. /\ 516 \in Word /\ 258 \in Word /\ 129 \in Word /\ 33864 \in Word
          /\ 16932 \in Word /\ 8466 \in Word /\ 4233 \in Word /\ 35916 \in Word
      BY SMT DEF Word, WORDS
    <2>3. /\ ShiftBit(516) = 258 /\ ShiftBit(258) = 129 /\ ShiftBit(129) = 33864
          /\ ShiftBit(33864) = 16932 /\ ShiftBit(16932) = 8466 /\ ShiftBit(8466) = 4233
          /\ ShiftBit(4233) = 35916 /\ ShiftBit(35916) = 17958
      BY <2>2, ShiftBitIs, SMT DEF Flipped
    <2>4. Shifts[8][516] = 17958
      BY ONLY <2>2, <2>3, EightShifts, SMT
    <2> QED BY <2>1, <2>4, SMT DEF AddByte
  <1>11. AddByte(17958, 11) = 64161
    <2>1. Xor(17958, 11) = 17965
      BY SMT DEF Xor, XorNibble
    <2>2. /\ 17965 \in Word /\ 42782 \in Word /\ 21391 \in Word /\ 44495 \in Word
          /\ 53999 \in Word /\ 60799 \in Word /\ 62135 \in Word /\ 64851 \in Word
      BY SMT DEF Word, WORDS
    <2>3. /\ ShiftBit(17965) = 42782 /\ ShiftBit(42782) = 21391 /\ ShiftBit(21391) = 44495
          /\ ShiftBit(44495) = 53999 /\ ShiftBit(53999) = 60799 /\ ShiftBit(60799) = 62135
          /\ ShiftBit(62135) = 64851 /\ ShiftBit(64851) = 64161
      BY <2>2, ShiftBitIs, SMT DEF Flipped
    <2>4. Shifts[8][17965] = 64161
      BY ONLY <2>2, <2>3, EightShifts, SMT
    <2> QED BY <2>1, <2>4, SMT DEF AddByte
  <1>12. AddByte(64161, 45) = 20126
    <2>1. Xor(64161, 45) = 64140
      BY SMT DEF Xor, XorNibble
    <2>2. /\ 64140 \in Word /\ 32070 \in Word /\ 16035 \in Word /\ 39769 \in Word
          /\ 51620 \in Word /\ 25810 \in Word /\ 12905 \in Word /\ 40252 \in Word
      BY SMT DEF Word, WORDS
    <2>3. /\ ShiftBit(64140) = 32070 /\ ShiftBit(32070) = 16035 /\ ShiftBit(16035) = 39769
          /\ ShiftBit(39769) = 51620 /\ ShiftBit(51620) = 25810 /\ ShiftBit(25810) = 12905
          /\ ShiftBit(12905) = 40252 /\ ShiftBit(40252) = 20126
      BY <2>2, ShiftBitIs, SMT DEF Flipped
    <2>4. Shifts[8][64140] = 20126
      BY ONLY <2>2, <2>3, EightShifts, SMT
    <2> QED BY <2>1, <2>4, SMT DEF AddByte
  <1>13. AddByte(20126, 0) = 32185
    <2>1. Xor(20126, 0) = 20126
      BY SMT DEF Xor, XorNibble
    <2>2. /\ 20126 \in Word /\ 10063 \in Word /\ 38831 \in Word /\ 53215 \in Word
          /\ 58343 \in Word /\ 62971 \in Word /\ 65269 \in Word /\ 64370 \in Word
      BY SMT DEF Word, WORDS
    <2>3. /\ ShiftBit(20126) = 10063 /\ ShiftBit(10063) = 38831 /\ ShiftBit(38831) = 53215
          /\ ShiftBit(53215) = 58343 /\ ShiftBit(58343) = 62971 /\ ShiftBit(62971) = 65269
          /\ ShiftBit(65269) = 64370 /\ ShiftBit(64370) = 32185
      BY <2>2, ShiftBitIs, SMT DEF Flipped
    <2>4. Shifts[8][20126] = 32185
      BY ONLY <2>2, <2>3, EightShifts, SMT
    <2> QED BY <2>1, <2>4, SMT DEF AddByte
  <1>14. AddByte(32185, 0) = 10295
    <2>1. Xor(32185, 0) = 32185
      BY SMT DEF Xor, XorNibble
    <2>2. /\ 32185 \in Word /\ 47828 \in Word /\ 23914 \in Word /\ 11957 \in Word
          /\ 37714 \in Word /\ 18857 \in Word /\ 41180 \in Word /\ 20590 \in Word
      BY SMT DEF Word, WORDS
    <2>3. /\ ShiftBit(32185) = 47828 /\ ShiftBit(47828) = 23914 /\ ShiftBit(23914) = 11957
          /\ ShiftBit(11957) = 37714 /\ ShiftBit(37714) = 18857 /\ ShiftBit(18857) = 41180
          /\ ShiftBit(41180) = 20590 /\ ShiftBit(20590) = 10295
      BY <2>2, ShiftBitIs, SMT DEF Flipped
    <2>4. Shifts[8][32185] = 10295
      BY ONLY <2>2, <2>3, EightShifts, SMT
    <2> QED BY <2>1, <2>4, SMT DEF AddByte
  <1>15. AddByte(10295, 0) = 17684
    <2>1. Xor(10295, 0) = 10295
      BY SMT DEF Xor, XorNibble
    <2>2. /\ 10295 \in Word /\ 36883 \in Word /\ 52225 \in Word /\ 57864 \in Word
          /\ 28932 \in Word /\ 14466 \in Word /\ 7233 \in Word /\ 35368 \in Word
      BY SMT DEF Word, WORDS
    <2>3. /\ ShiftBit(10295) = 36883 /\ ShiftBit(36883) = 52225 /\ ShiftBit(52225) = 57864
          /\ ShiftBit(57864) = 28932 /\ ShiftBit(28932) = 14466 /\ ShiftBit(14466) = 7233
          /\ ShiftBit(7233) = 35368 /\ ShiftBit(35368) = 17684
      BY <2>2, ShiftBitIs, SMT DEF Flipped
    <2>4. Shifts[8][10295] = 17684
      BY ONLY <2>2, <2>3, EightShifts, SMT
    <2> QED BY <2>1, <2>4, SMT DEF AddByte
  <1>16. AddByte(17684, 0) = 22240
    <2>1. Xor(17684, 0) = 17684
      BY SMT DEF Xor, XorNibble
    <2>2. /\ 17684 \in Word /\ 8842 \in Word /\ 4421 \in Word /\ 36010 \in Word
          /\ 18005 \in Word /\ 42786 \in Word /\ 21393 \in Word /\ 44480 \in Word
      BY SMT DEF Word, WORDS
    <2>3. /\ ShiftBit(17684) = 8842 /\ ShiftBit(8842) = 4421 /\ ShiftBit(4421) = 36010
          /\ ShiftBit(36010) = 18005 /\ ShiftBit(18005) = 42786 /\ ShiftBit(42786) = 21393
          /\ ShiftBit(21393) = 44480 /\ ShiftBit(44480) = 22240
      BY <2>2, ShiftBitIs, SMT DEF Flipped
    <2>4. Shifts[8][17684] = 22240
      BY ONLY <2>2, <2>3, EightShifts, SMT
    <2> QED BY <2>1, <2>4, SMT DEF AddByte
  <1> QED BY <1>1, <1>2, <1>3, <1>4, <1>5, <1>6, <1>7, <1>8, <1>9, <1>10,
            <1>11, <1>12, <1>13, <1>14, <1>15, <1>16

\* The bytes the run takes for the captured frame.
LEMMA CapturedBytes ==
    /\ CapturedFrame \in Seq(Byte) /\ Len(CapturedFrame) = 18
    /\ CapturedFrame[1] = 17 /\ CapturedFrame[2] = 0 /\ CapturedFrame[3] = 238
    /\ CapturedFrame[4] = 0 /\ CapturedFrame[5] = 32 /\ CapturedFrame[6] = 0
    /\ CapturedFrame[7] = 112 /\ CapturedFrame[8] = 140 /\ CapturedFrame[9] = 43
    /\ CapturedFrame[10] = 56 /\ CapturedFrame[11] = 11 /\ CapturedFrame[12] = 45
    /\ CapturedFrame[13] = 0 /\ CapturedFrame[14] = 0 /\ CapturedFrame[15] = 0
    /\ CapturedFrame[16] = 0 /\ CapturedFrame[17] = 224 /\ CapturedFrame[18] = 86
  BY DEF CapturedFrame, Byte

\* The checksum of its first 16 bytes is the one stored in the last two.
LEMMA CapturedCrc == ReceivedCrc(CapturedFrame) = ComputedCrc(CapturedFrame)
  <1> DEFINE raw == CapturedFrame
             payload == SubSeq(raw, 1, 16)
             R == Registers(payload)
  <1>1. raw \in Seq(Byte) /\ Len(raw) = 18
    BY CapturedBytes
  <1>2. payload \in Seq(Byte) /\ Len(payload) = 16 /\ \A i \in 1 .. 16 : payload[i] = raw[i]
    <2> DEFINE none == 0
               m == 16
    <2>1. SubSeq(raw, none + 1, m) = payload /\ m - none = 16 /\ m = 16
          /\ \A i \in 1 .. 16 : none + i = i
      OBVIOUS
    <2>2. none \in Nat /\ m \in Nat /\ none <= m /\ m <= Len(raw)
      BY <1>1
    <2> HIDE DEF raw, payload, none, m
    <2>3. /\ SubSeq(raw, none + 1, m) \in Seq(Byte)
          /\ Len(SubSeq(raw, none + 1, m)) = m - none
          /\ \A i \in 1 .. m - none : SubSeq(raw, none + 1, m)[i] = raw[none + i]
      BY ONLY <1>1, <2>2, Window
    <2> QED BY <2>1, <2>3
  <1>3. /\ payload[1] = 17 /\ payload[2] = 0 /\ payload[3] = 238 /\ payload[4] = 0
        /\ payload[5] = 32 /\ payload[6] = 0 /\ payload[7] = 112 /\ payload[8] = 140
        /\ payload[9] = 43 /\ payload[10] = 56 /\ payload[11] = 11 /\ payload[12] = 45
        /\ payload[13] = 0 /\ payload[14] = 0 /\ payload[15] = 0 /\ payload[16] = 0
    BY <1>2, CapturedBytes
  <1> HIDE DEF raw, payload
  <1>4. \A k \in 0 .. 16 :
          R[k] = [crc \in Word |-> IF k = 16 THEN crc ELSE R[k + 1][AddByte(crc, payload[k + 1])]]
    <2>1. R = RegistersOf(R, payload)
      BY <1>2, RegistersAre
    <2> DEFINE last == Len(payload)
    <2>2. last = 16
      BY <1>2
    <2> HIDE DEF R
    <2>3. R = [k \in 0 .. last |-> [crc \in Word |->
                IF k = last THEN crc ELSE R[k + 1][AddByte(crc, payload[k + 1])]]]
      BY <2>1, Zenon DEF RegistersOf
    <2> HIDE DEF last
    <2>4. \A k \in 0 .. last :
            R[k] = [crc \in Word |->
                      IF k = last THEN crc ELSE R[k + 1][AddByte(crc, payload[k + 1])]]
      BY <2>3, Zenon
    <2> QED BY <2>2, <2>4, Zenon
  <1> HIDE DEF R
  <1>5. \A k \in 0 .. 15, crc \in Word : R[k][crc] = R[k + 1][AddByte(crc, payload[k + 1])]
    <2> SUFFICES ASSUME NEW k \in 0 .. 15, NEW crc \in Word
                 PROVE  R[k][crc] = R[k + 1][AddByte(crc, payload[k + 1])]
      OBVIOUS
    <2>1. k \in 0 .. 16 /\ k # 16
      OBVIOUS
    <2>2. R[k] = [c \in Word |-> R[k + 1][AddByte(c, payload[k + 1])]]
      BY <1>4, <2>1
    <2> QED BY <2>2
  <1>6. /\ 65535 \in Word /\ 3727 \in Word /\ 31985 \in Word /\ 59402 \in Word /\ 44978 \in Word
        /\ 46900 \in Word /\ 30480 \in Word /\ 25457 \in Word /\ 11273 \in Word /\ 572 \in Word
        /\ 17958 \in Word /\ 64161 \in Word /\ 20126 \in Word /\ 32185 \in Word /\ 10295 \in Word
        /\ 17684 \in Word /\ 22240 \in Word
    BY SMT DEF Word, WORDS
  <1>7. /\ R[0][65535] = R[1][3727] /\ R[1][3727] = R[2][31985]
        /\ R[2][31985] = R[3][59402] /\ R[3][59402] = R[4][44978]
    BY <1>3, <1>5, <1>6, CapturedRegisters, SMT
  <1>8. /\ R[4][44978] = R[5][46900] /\ R[5][46900] = R[6][30480]
        /\ R[6][30480] = R[7][25457] /\ R[7][25457] = R[8][11273]
    BY <1>3, <1>5, <1>6, CapturedRegisters, SMT
  <1>9. /\ R[8][11273] = R[9][572] /\ R[9][572] = R[10][17958]
        /\ R[10][17958] = R[11][64161] /\ R[11][64161] = R[12][20126]
    BY <1>3, <1>5, <1>6, CapturedRegisters, SMT
  <1>10. /\ R[12][20126] = R[13][32185] /\ R[13][32185] = R[14][10295]
        /\ R[14][10295] = R[15][17684] /\ R[15][17684] = R[16][22240]
    BY <1>3, <1>5, <1>6, CapturedRegisters, SMT
  <1>11. R[16][22240] = 22240
    <2>1. R[16] = [crc \in Word |-> crc]
      BY <1>4
    <2> QED BY <1>6, <2>1, SMT
  <1>12. crc16(payload) = 22240
    <2>1. R[0][65535] = 22240
      BY <1>7, <1>8, <1>9, <1>10, <1>11, SMT
    <2>2. CRC_PRESET = 65535 /\ 22240 % WORDS = 22240
      BY SMT DEF CRC_PRESET, WORDS
    <2> QED BY <2>1, <2>2, SMT DEF crc16, R
  <1>13. ComputedCrc(raw) = crc16(payload)
    <2>1. Len(raw) - 2 = 16
      BY <1>1
    <2> QED BY <2>1 DEF ComputedCrc, payload
  <1>14. ReceivedCrc(raw) = 22240
    <2>1. raw[Len(raw) - 1] = 224 /\ raw[Len(raw)] = 86
      BY <1>1, CapturedBytes, SMT DEF raw
    <2> QED BY <2>1, SMT DEF ReceivedCrc
  <1> QED BY <1>12, <1>13, <1>14, SMT DEF raw

\* So the frame is one that the builder makes.
LEMMA CapturedIsBuilt == BuiltResponse(CapturedFrame)
  <1>1. Len(CapturedFrame) >= 6 /\ Len(CapturedFrame) = CapturedFrame[1] + 1
    BY CapturedBytes
  <1> QED BY <1>1, CapturedBytes, CapturedCrc, BuiltFrame

\* The damage is within two neighbouring bytes.
LEMMA DamagedBits ==
    /\ DamagedFrame \in Seq(Byte) /\ Len(DamagedFrame) = 18 /\ DamagedFrame[1] = 17
    /\ Detectable(BitsChanged(CapturedFrame, DamagedFrame))
  <1> DEFINE a == CapturedFrame
             b == DamagedFrame
             changed == BitsChanged(a, b)
  <1>1. a \in Seq(Byte) /\ Len(a) = 18 /\ a[1] = 17 /\ a[8] = 140 /\ a[9] = 43
    BY CapturedBytes
  <1>2. b = [a EXCEPT ![8] = @ - 128, ![9] = @ - 1]
    BY DEF DamagedFrame
  <1> HIDE DEF a, b
  <1>3. /\ b \in Seq(Byte) /\ Len(b) = 18 /\ b[1] = 17 /\ b[8] = 12
        /\ \A i \in 1 .. 18 : i # 8 /\ i # 9 => b[i] = a[i]
    <2>1. a \in [1 .. 18 -> Byte]
      <3>1. a \in [1 .. Len(a) -> Byte]
        BY <1>1, LenProperties
      <3> QED BY <1>1, <3>1
    <2>2. DOMAIN b = 1 .. 18 /\ b[9] = 42 /\ b[8] = 12
          /\ \A i \in 1 .. 18 : i # 8 /\ i # 9 => b[i] = a[i]
      <3>1. 8 \in 1 .. 18 /\ 9 \in 1 .. 18
        OBVIOUS
      <3>2. [a EXCEPT ![8] = @ - 128] = [i \in 1 .. 18 |-> IF i = 8 THEN a[8] - 128 ELSE a[i]]
        BY <2>1
      <3>3. b = [i \in 1 .. 18 |-> IF i = 9 THEN a[9] - 1
                                   ELSE IF i = 8 THEN a[8] - 128 ELSE a[i]]
        BY <1>2, <2>1, <3>1, <3>2
      <3> QED BY <1>1, <3>1, <3>3
    <2>3. 12 \in Byte /\ 42 \in Byte
      BY DEF Byte
    <2>4. \A i \in 1 .. 18 : b[i] \in Byte
      BY <2>1, <2>2, <2>3
    <2>5. b \in [1 .. 18 -> Byte]
      <3>1. b = [i \in DOMAIN b |-> b[i]]
        BY <1>2
      <3> QED BY <2>2, <2>4, <3>1
    <2>6. b \in Seq(Byte) /\ Len(b) = 18
      <3> DEFINE n == 18
      <3>1. n \in Nat /\ b \in [1 .. n -> Byte]
        BY <2>5
      <3> HIDE DEF n
      <3>2. b \in Seq(Byte)
        BY ONLY <3>1, SMT
      <3>3. Len(b) = n
        BY ONLY <3>1, <3>2, LenProperties, SMT
      <3> QED BY <3>2, <3>3 DEF n
    <2> QED BY <1>1, <2>2, <2>6
  <1>4. 63 \in changed
    <2>1. 63 \div 8 + 1 = 8 /\ 63 % 8 = 7
      OBVIOUS
    <2>2. BitAt(a, 63) = Bit(140, 7) /\ BitAt(b, 63) = Bit(12, 7)
      BY <1>1, <1>3, <2>1 DEF BitAt
    <2>3. Bit(140, 7) = 1 /\ Bit(12, 7) = 0
      BY BitIs
    <2>4. 63 \in 0 .. 8 * Len(a) - 1
      BY <1>1
    <2> QED BY <2>2, <2>3, <2>4 DEF BitsChanged
  <1>5. \A n \in changed : n \in 56 .. 71
    <2> SUFFICES ASSUME NEW n \in changed PROVE n \in 56 .. 71
      OBVIOUS
    <2>1. n \in 0 .. 143 /\ BitAt(a, n) # BitAt(b, n)
      BY <1>1 DEF BitsChanged
    <2>2. n \div 8 + 1 \in 1 .. 18
      BY <2>1
    <2>3. a[n \div 8 + 1] # b[n \div 8 + 1]
      BY <2>1 DEF BitAt
    <2>4. n \div 8 + 1 = 8 \/ n \div 8 + 1 = 9
      BY <1>3, <2>2, <2>3
    <2> QED BY <2>1, <2>4
  <1>6. Detectable(changed)
    <2>1. \A p, q \in changed : q - p < 16
      BY <1>5
    <2> QED BY <1>4, <2>1 DEF Detectable
  <1> QED BY <1>3, <1>6 DEF a, b

\* The tag report that a real reader sent is accepted, whatever else is written
\* and however it is chunked, and never the copy of it that was damaged on its
\* way: the checksum of the model is the reader's own.  The one assumption is
\* that the owner of the buffer lets in the reader that sent it.
THEOREM CapturedFrameIsAccepted ==
    ASSUME 0 \in AllowedReaders
    PROVE  Spec => []CapturedFrameAccepted
  <1>1. RightList(CapturedFrame) = "frames" /\ RightList(DamagedFrame) = "errors"
    <2>1. build_heartbeat[1] = 86
      BY DEF build_heartbeat, HEARTBEAT_MARKER, HEARTBEAT_LENGTH
    <2>2. CapturedFrame # build_heartbeat /\ DamagedFrame # build_heartbeat
      <3>1. CapturedFrame[1] = 17 /\ DamagedFrame[1] = 17
        BY CapturedBytes, DamagedBits
      <3> QED BY <2>1, <3>1
    <2>3. ~BuiltResponse(DamagedFrame)
      BY CapturedBytes, CapturedIsBuilt, DamagedBits, DamageShows
    <2>4. CapturedFrame[2] \in AllowedReaders
      BY CapturedBytes
    <2> QED BY <2>2, <2>3, <2>4, CapturedIsBuilt DEF RightList
  <1>2. RightVerdict => CapturedFrameAccepted
    BY <1>1 DEF RightVerdict, CapturedFrameAccepted
  <1> QED BY <1>2, VerdictsAreRight, PTL
=============================================================================
