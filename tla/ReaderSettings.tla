--------------------------- MODULE ReaderSettings ---------------------------
(***************************************************************************)
(* The settings of a reader through the methods of RfidClient (client.py,  *)
(* constants.py): what each setter accepts and sends, and what             *)
(* get_reader_info() and get_work_mode() make of the bytes the reader      *)
(* reports back.  How a call gets its answer is the subject of RfidClient; *)
(* here every call that is sent succeeds.                                  *)
(*                                                                         *)
(* A member of an Enum is its name and an IntFlag the integer of its bits. *)
(* NotAMember stands for an argument of another type, which the setters    *)
(* answer with a TypeError, as they answer a number out of range with a    *)
(* ValueError.                                                             *)
(***************************************************************************)
EXTENDS Integers, Sequences

CONSTANTS Probes,    \* for every integer parameter, the arguments to try
          Factory,   \* the settings a reader may come with: command |-> bytes
          NotAMember,
          MaxCalls   \* bound on the calls of setters

Byte == 0 .. 255

Bit(flags, n) == (flags \div 2^n) % 2

FreqBand == [USER |-> 0, CHINESE_2 |-> 1, US |-> 2, KOREAN |-> 3]

MaxIndex == [USER |-> 62, CHINESE_2 |-> 19, US |-> 49, KOREAN |-> 31]

\* The first channel and the distance of two channels, in kHz.
BandFormula == [USER |-> <<902600, 400>>, CHINESE_2 |-> <<920125, 250>>,
                US   |-> <<902750, 500>>, KOREAN    |-> <<917100, 200>>]

ReaderType == [UHFREADER18 |-> 9]

Protocol == 0 .. 3

WorkMode == [ANSWER |-> 0, SCAN |-> 1, TRIGGER_LOW |-> 2, TRIGGER_HIGH |-> 3]

MemInven == [PASSWORD |-> 0, EPC |-> 1, TID |-> 2, USER |-> 3,
             INVENTORY_MULTIPLE |-> 4, INVENTORY_SINGLE |-> 5, EAS_ALARM |-> 6]

ReaderBaudRate == [BAUD_9600 |-> 0, BAUD_19200 |-> 1, BAUD_38400 |-> 2,
                   BAUD_57600 |-> 5, BAUD_115200 |-> 6]

WiegandFormat == 0 .. 3

ModeState == 0 .. 31

SYRIS_485 == 4   \* the bit of ModeState

None == "None"

ValueError == "ValueError"

\* Fault for InRange: the end of range() taken for the end of the interval.
InRange_OffByOne(value, lo, hi) == value \in lo .. hi + 1

InRange(value, lo, hi) == value \in lo .. hi

EnumOrNone(enum, code) ==
    IF \E m \in DOMAIN enum : enum[m] = code
      THEN CHOOSE m \in DOMAIN enum : enum[m] = code
      ELSE None

\* The band is split over the top bits of two bytes, the indices take the rest.
\* Fault for Pack: the two indices in the wrong bytes.
Pack_Swapped(r) ==
    <<(FreqBand[r.band] \div 4) * 64 + r.min_index, (FreqBand[r.band] % 4) * 64 + r.max_index>>

Pack(r) ==
    <<(FreqBand[r.band] \div 4) * 64 + r.max_index, (FreqBand[r.band] % 4) * 64 + r.min_index>>

Unpack(max_fre, min_fre) ==
    [band |-> EnumOrNone(FreqBand, (max_fre \div 64) * 4 + min_fre \div 64),
     max_index |-> max_fre % 64, min_index |-> min_fre % 64]

\* In kHz; an index outside the domain is a ValueError.
frequency_mhz(band) ==
    [index \in 0 .. MaxIndex[band] |-> BandFormula[band][1] + index * BandFormula[band][2]]

ReaderInfo(data) ==
    IF Len(data) < 7 THEN ValueError
    ELSE [version |-> <<data[1], data[2]>>, model |-> EnumOrNone(ReaderType, data[3]),
          protocols |-> data[4] % 4, region |-> Unpack(data[5], data[6]),
          power |-> data[7], scan_time |-> IF Len(data) > 7 THEN data[8] ELSE 0]

\* Fault for StateBits: the mask of the state is one bit short.
StateBits_Short(byte) == byte % 16

StateBits(byte) == byte % 32

WorkModeInfo(data) ==
    IF Len(data) < 12 THEN ValueError
    ELSE [wiegand |-> [wg_format |-> data[1] % 4, data_interval |-> data[2],
                       pulse_width |-> data[3], pulse_interval |-> data[4]],
          mode    |-> [work_mode |-> EnumOrNone(WorkMode, data[5] % 4),
                       state |-> StateBits(data[6]),
                       mem_inven |-> EnumOrNone(MemInven, data[7]),
                       first_adr |-> data[8], word_num |-> data[9], tag_time |-> data[10]],
          eas_accuracy |-> data[11], syris_offset |-> data[12]]
-----------------------------------------------------------------------------
(* What the setters accept and the bytes they send.                        *)

RegionOK(r) ==
    /\ r.band \in DOMAIN FreqBand
    /\ InRange(r.max_index, 0, MaxIndex[r.band])
    /\ InRange(r.min_index, 0, MaxIndex[r.band])
    /\ r.min_index <= r.max_index

WiegandOK(w) ==
    /\ w.wg_format \in WiegandFormat
    /\ InRange(w.data_interval, 0, 255)
    /\ InRange(w.pulse_width, 1, 255) /\ InRange(w.pulse_interval, 1, 255)

\* Fault for WiegandBytes: two parameters change places.
WiegandBytes_Swapped(w) ==
    <<w.wg_format, w.pulse_width, w.data_interval, w.pulse_interval>>

WiegandBytes(w) == <<w.wg_format, w.data_interval, w.pulse_width, w.pulse_interval>>

WorkModeOK(m) ==
    /\ m.work_mode \in DOMAIN WorkMode /\ m.state \in ModeState
    /\ m.mem_inven \in DOMAIN MemInven
    /\ InRange(m.first_adr, 0, 255) /\ InRange(m.tag_time, 0, 255)
    /\ InRange(m.word_num, 1, IF Bit(m.state, SYRIS_485) = 1 THEN 4 ELSE 32)

WorkModeBytes(m) == <<WorkMode[m.work_mode], m.state, MemInven[m.mem_inven],
                      m.first_adr, m.word_num, m.tag_time>>

\* The setters of one number: the range each accepts.
Ranges == [SET_POWER |-> <<0, 30>>, SET_SCAN_TIME |-> <<3, 255>>,
           SET_EAS_ACCURACY |-> <<0, 8>>, SYRIS_RESPONSE_OFFSET |-> <<0, 100>>,
           TRIGGER_OFFSET |-> <<0, 255>>]

Commands == DOMAIN Ranges \cup {"SET_REGION", "SET_WIEGAND", "SET_WORK_MODE",
                                "SET_BAUD_RATE", "ACOUSTO_OPTIC_CONTROL"}
-----------------------------------------------------------------------------
VARIABLES stored,   \* the reader's settings: for each command its bytes
          asked,    \* history: the arguments last accepted for each command
          outcome,  \* of the latest call: "none", "sent" or "rejected"
          calls     \* history: how many setters were called

vars == <<stored, asked, outcome, calls>>

Unset == <<>>

Init ==
    /\ stored \in Factory
    /\ asked = [c \in Commands |-> Unset]
    /\ outcome = "none" /\ calls = 0

\* The reader (external) keeps the bytes it is sent, except that a trigger
\* offset of 255 is a query and the buzzer has nothing to keep.
Keeps(command, bytes) ==
    CASE command = "TRIGGER_OFFSET"        -> bytes # <<255>>
      [] command = "ACOUSTO_OPTIC_CONTROL" -> FALSE
      [] OTHER                             -> TRUE

Send(command, args, bytes) ==
    /\ outcome' = "sent"
    /\ IF Keeps(command, bytes)
         THEN /\ stored' = [stored EXCEPT ![command] = bytes]
              /\ asked' = [asked EXCEPT ![command] = <<args>>]
         ELSE UNCHANGED <<stored, asked>>

\* A TypeError or a ValueError leaves before anything is sent.
Reject == outcome' = "rejected" /\ UNCHANGED <<stored, asked>>

Call == calls < MaxCalls /\ calls' = calls + 1

set_number(command, n) ==
    /\ Call
    /\ IF InRange(n, Ranges[command][1], Ranges[command][2])
         THEN Send(command, n, <<n>>) ELSE Reject

set_baud_rate(baud) ==
    /\ Call
    /\ IF baud \in DOMAIN ReaderBaudRate
         THEN Send("SET_BAUD_RATE", baud, <<ReaderBaudRate[baud]>>) ELSE Reject

acousto_optic_control(times) ==
    /\ Call
    /\ IF \A i \in 1 .. 3 : InRange(times[i], 0, 255)
         THEN Send("ACOUSTO_OPTIC_CONTROL", times, times) ELSE Reject

set_region(r) ==
    Call /\ IF RegionOK(r) THEN Send("SET_REGION", r, Pack(r)) ELSE Reject

set_wiegand(w) ==
    Call /\ IF WiegandOK(w) THEN Send("SET_WIEGAND", w, WiegandBytes(w)) ELSE Reject

set_work_mode(m) ==
    Call /\ IF WorkModeOK(m) THEN Send("SET_WORK_MODE", m, WorkModeBytes(m)) ELSE Reject
-----------------------------------------------------------------------------
\* The arguments tried.
Regions == [band : DOMAIN FreqBand \cup {NotAMember},
            max_index : Probes.index, min_index : Probes.index]

Wiegands == [wg_format : WiegandFormat \cup {NotAMember}, data_interval : Probes.byte,
             pulse_width : Probes.byte, pulse_interval : Probes.byte]

Modes == [work_mode : DOMAIN WorkMode \cup {NotAMember}, state : Probes.state,
          mem_inven : Probes.memory, first_adr : Probes.plain,
          word_num : Probes.words, tag_time : Probes.plain]

Next ==
    \/ \E command \in DOMAIN Ranges, n \in Probes.number : set_number(command, n)
    \/ \E baud \in DOMAIN ReaderBaudRate \cup {NotAMember} : set_baud_rate(baud)
    \/ \E a, s, t \in Probes.plain : acousto_optic_control(<<a, s, t>>)
    \/ \E r \in Regions : set_region(r)
    \/ \E w \in Wiegands : set_wiegand(w)
    \/ \E m \in Modes : set_work_mode(m)

Spec == Init /\ [][Next]_vars
-----------------------------------------------------------------------------
\* The data of the two reports (external), as the reader's manual lays it out.
InfoData(s) == <<3, 1, 9, 3>> \o s.SET_REGION \o s.SET_POWER \o s.SET_SCAN_TIME

WorkModeData(s) == s.SET_WIEGAND \o s.SET_WORK_MODE
                     \o s.SET_EAS_ACCURACY \o s.SYRIS_RESPONSE_OFFSET

Sizes == [SET_REGION |-> 2, SET_WIEGAND |-> 4, SET_WORK_MODE |-> 6,
          ACOUSTO_OPTIC_CONTROL |-> 3]

Size(c) == IF c \in DOMAIN Sizes THEN Sizes[c] ELSE 1

InBytes(s) ==
    s \in [Commands -> Seq(Byte)] /\ \A c \in Commands : Len(s[c]) = Size(c)

\* Settings that the setters could have made.
Legal(s) ==
    LET work == WorkModeInfo(WorkModeData(s))
    IN  /\ RegionOK(ReaderInfo(InfoData(s)).region)
        /\ WiegandOK(work.wiegand) /\ WorkModeOK(work.mode)

ASSUME FactoryAssumption ==
    MaxCalls \in Nat /\ \A s \in Factory : InBytes(s) /\ Legal(s)

\* Whatever a setter accepts fits the bytes it is sent in.
TypeOK ==
    /\ InBytes(stored)
    /\ outcome \in {"none", "sent", "rejected"} /\ calls \in 0 .. MaxCalls
    /\ ReaderInfo(InfoData(stored)).protocols \in Protocol

Current(command, value) == asked[command] \in {Unset, <<value>>}

\* Every setting reads back as it was last set, through packing, the reader's
\* reports and their decoding, and whatever was set in between.
ReadsBackAsSet ==
    LET info == ReaderInfo(InfoData(stored))
        work == WorkModeInfo(WorkModeData(stored))
    IN  /\ Current("SET_REGION", info.region)
        /\ Current("SET_POWER", info.power)
        /\ Current("SET_SCAN_TIME", info.scan_time)
        /\ Current("SET_WIEGAND", work.wiegand)
        /\ Current("SET_WORK_MODE", work.mode)
        /\ Current("SET_EAS_ACCURACY", work.eas_accuracy)
        /\ Current("SYRIS_RESPONSE_OFFSET", work.syris_offset)

\* What get_work_mode() returns can be passed straight to the setters it
\* mirrors, as the docstring of WorkModeInfo says.
ReadBackIsAccepted ==
    LET work == WorkModeInfo(WorkModeData(stored))
    IN  WiegandOK(work.wiegand) /\ WorkModeOK(work.mode)

\* The reader's channels form an interval of its band: min_index to max_index,
\* and frequency_mhz() has a frequency for every one of them.
RegionIsInterval ==
    LET region   == ReaderInfo(InfoData(stored)).region
        channels == region.min_index .. region.max_index
    IN  /\ channels # {}
        /\ channels \subseteq DOMAIN frequency_mhz(region.band)
=============================================================================
