------------------------------- MODULE Frames -------------------------------
(***************************************************************************)
(* The messages on the wire: the builders (builder.py) and the validation  *)
(* of one complete response frame (frame.py).  A message is a sequence of  *)
(* bytes with the protocol's own values:                                   *)
(*                                                                         *)
(*   response    length, reader, command, status, data..., crc low, high   *)
(*   heartbeat   0x56 and five zero bytes, with no checksum                *)
(*                                                                         *)
(* where `length' counts the bytes after itself.  A raised FrameError is   *)
(* an outcome of kind "error" whose text is reduced to its cause.          *)
(***************************************************************************)
EXTENDS Crc16

HEARTBEAT_MARKER == 86    \* 0x56, which is also a legal length byte
HEARTBEAT_LENGTH == 6
MIN_FRAME_LENGTH == 5
MAX_COMMAND_DATA  == 251
MAX_RESPONSE_DATA == 250

LittleEndian(word) == <<word % 256, word \div 256>>

build_heartbeat ==
    <<HEARTBEAT_MARKER>> \o [i \in 1 .. HEARTBEAT_LENGTH - 1 |-> 0]

is_heartbeat(data) ==
    /\ Len(data) >= HEARTBEAT_LENGTH
    /\ SubSeq(data, 1, HEARTBEAT_LENGTH) = build_heartbeat

\* The builders raise ValueError on a field that is no byte or on too much data.
CommandArgsOK(address, command, data) ==
    {address, command} \subseteq Byte /\ Len(data) <= MAX_COMMAND_DATA

ResponseArgsOK(reader, command, status, data) ==
    {reader, command, status} \subseteq Byte /\ Len(data) <= MAX_RESPONSE_DATA

WithCrc(payload) == payload \o LittleEndian(crc16(payload))

build_command_frame(address, command, data) ==
    WithCrc(<<Len(data) + 4, address, command>> \o data)

build_response_frame(reader, command, status, data) ==
    WithCrc(<<Len(data) + 5, reader, command, status>> \o data)

RfidResponse(raw) ==
    [length |-> raw[1], reader_address |-> raw[2], command |-> raw[3],
     status |-> raw[4], data |-> SubSeq(raw, 5, Len(raw) - 2)]

FrameError(cause) == [kind |-> "error", cause |-> cause]

\* Fault for ReceivedCrc: the checksum read in the wrong byte order.
ReceivedCrc_BigEndian(raw) == 256 * raw[Len(raw) - 1] + raw[Len(raw)]

ReceivedCrc(raw) == raw[Len(raw) - 1] + 256 * raw[Len(raw)]

ComputedCrc(raw) == crc16(SubSeq(raw, 1, Len(raw) - 2))

\* Fault for validate_frame: the checksum is not compared.
validate_frame_AnyCrc(raw) ==
    IF raw = <<>> THEN FrameError("empty")
    ELSE IF raw[1] < MIN_FRAME_LENGTH THEN FrameError("too small")
    ELSE IF Len(raw) # raw[1] + 1 THEN FrameError("length")
    ELSE [kind |-> "frame", frame |-> RfidResponse(raw)]

validate_frame(raw) ==
    IF raw = <<>> THEN FrameError("empty")
    ELSE IF raw[1] < MIN_FRAME_LENGTH THEN FrameError("too small")
    ELSE IF Len(raw) # raw[1] + 1 THEN FrameError("length")
    ELSE IF ReceivedCrc(raw) # ComputedCrc(raw) THEN FrameError("crc")
    ELSE [kind |-> "frame", frame |-> RfidResponse(raw)]
=============================================================================
