------------------------ MODULE ReaderSettingsProofs ------------------------
(***************************************************************************)
(* Proofs about ReaderSettings for any arguments the setters are called    *)
(* with and any settings a reader comes with.  The run tries arguments on  *)
(* both sides of every limit; here Probes is any record of sets.           *)
(*                                                                         *)
(* First what the two reports say of each setting alone, then that each    *)
(* setting survives being packed, stored, reported and decoded, and then   *)
(* that no setter touches the bytes of another.                            *)
(***************************************************************************)
EXTENDS ReaderSettings, SequenceTheorems, TLAPS

-----------------------------------------------------------------------------
(* The reports.                                                            *)

LEMMA Joined ==
    ASSUME NEW a \in Seq(Byte), NEW b \in Seq(Byte), NEW m \in Nat, NEW n \in Nat,
           Len(a) = m, Len(b) = n
    PROVE  /\ a \o b \in Seq(Byte) /\ Len(a \o b) = m + n
           /\ \A i \in 1 .. m : (a \o b)[i] = a[i]
           /\ \A i \in 1 .. n : (a \o b)[m + i] = b[i]
  <1>1. /\ a \o b \in Seq(Byte) /\ Len(a \o b) = Len(a) + Len(b)
        /\ \A i \in 1 .. Len(a) + Len(b) :
             (a \o b)[i] = IF i <= Len(a) THEN a[i] ELSE b[i - Len(a)]
    BY ConcatProperties
  <1>2. ASSUME NEW i \in 1 .. n PROVE (a \o b)[m + i] = b[i]
    <2>1. m + i \in 1 .. m + n /\ ~(m + i <= m) /\ (m + i) - m = i
      OBVIOUS
    <2> QED BY <1>1, <2>1
  <1> QED BY <1>1, <1>2

LEMMA Parts ==
    ASSUME NEW s, InBytes(s)
    PROVE  /\ s.SET_REGION \in Seq(Byte) /\ Len(s.SET_REGION) = 2
           /\ s.SET_POWER \in Seq(Byte) /\ Len(s.SET_POWER) = 1
           /\ s.SET_SCAN_TIME \in Seq(Byte) /\ Len(s.SET_SCAN_TIME) = 1
           /\ s.SET_WIEGAND \in Seq(Byte) /\ Len(s.SET_WIEGAND) = 4
           /\ s.SET_WORK_MODE \in Seq(Byte) /\ Len(s.SET_WORK_MODE) = 6
           /\ s.SET_EAS_ACCURACY \in Seq(Byte) /\ Len(s.SET_EAS_ACCURACY) = 1
           /\ s.SYRIS_RESPONSE_OFFSET \in Seq(Byte) /\ Len(s.SYRIS_RESPONSE_OFFSET) = 1
  BY DEF InBytes, Commands, Ranges, Size, Sizes

\* What is decoded of each setting, from its own bytes alone.
RegionOf(s) == Unpack(s.SET_REGION[1], s.SET_REGION[2])

WiegandOf(s) ==
    [wg_format |-> s.SET_WIEGAND[1] % 4, data_interval |-> s.SET_WIEGAND[2],
     pulse_width |-> s.SET_WIEGAND[3], pulse_interval |-> s.SET_WIEGAND[4]]

ModeOf(s) ==
    [work_mode |-> EnumOrNone(WorkMode, s.SET_WORK_MODE[1] % 4),
     state     |-> StateBits(s.SET_WORK_MODE[2]),
     mem_inven |-> EnumOrNone(MemInven, s.SET_WORK_MODE[3]),
     first_adr |-> s.SET_WORK_MODE[4], word_num |-> s.SET_WORK_MODE[5],
     tag_time  |-> s.SET_WORK_MODE[6]]

LEMMA InfoDecoded ==
    ASSUME NEW s, InBytes(s)
    PROVE  /\ ReaderInfo(InfoData(s)).region = RegionOf(s)
           /\ ReaderInfo(InfoData(s)).power = s.SET_POWER[1]
           /\ ReaderInfo(InfoData(s)).scan_time = s.SET_SCAN_TIME[1]
           /\ ReaderInfo(InfoData(s)).protocols = 3
  <1> DEFINE h == <<3, 1, 9, 3>>
             a == h \o s.SET_REGION
             b == a \o s.SET_POWER
             d == b \o s.SET_SCAN_TIME
  <1>1. h \in Seq(Byte) /\ Len(h) = 4 /\ h[4] = 3
    BY DEF Byte
  <1> HIDE DEF h
  <1>2. a \in Seq(Byte) /\ Len(a) = 6 /\ a[4] = 3 /\ a[5] = s.SET_REGION[1]
        /\ a[6] = s.SET_REGION[2]
    <2>1. /\ a \in Seq(Byte) /\ Len(a) = 4 + 2
          /\ \A i \in 1 .. 4 : a[i] = h[i]
          /\ \A i \in 1 .. 2 : a[4 + i] = s.SET_REGION[i]
      <3>1. s.SET_REGION \in Seq(Byte) /\ Len(s.SET_REGION) = 2 /\ 2 \in Nat /\ 4 \in Nat
        BY Parts
      <3> QED BY <1>1, <3>1, Joined
    <2> HIDE DEF a
    <2> QED BY <1>1, <2>1
  <1> HIDE DEF a
  <1>3. b \in Seq(Byte) /\ Len(b) = 7 /\ b[4] = 3 /\ b[5] = s.SET_REGION[1]
        /\ b[6] = s.SET_REGION[2] /\ b[7] = s.SET_POWER[1]
    <2>1. /\ b \in Seq(Byte) /\ Len(b) = 6 + 1
          /\ \A i \in 1 .. 6 : b[i] = a[i]
          /\ \A i \in 1 .. 1 : b[6 + i] = s.SET_POWER[i]
      <3>1. s.SET_POWER \in Seq(Byte) /\ Len(s.SET_POWER) = 1 /\ 1 \in Nat /\ 6 \in Nat
        BY Parts
      <3> QED BY <1>2, <3>1, Joined
    <2> HIDE DEF b
    <2> QED BY <1>2, <2>1
  <1> HIDE DEF b
  <1>4. d \in Seq(Byte) /\ Len(d) = 8 /\ d[4] = 3 /\ d[5] = s.SET_REGION[1]
        /\ d[6] = s.SET_REGION[2] /\ d[7] = s.SET_POWER[1] /\ d[8] = s.SET_SCAN_TIME[1]
    <2>1. /\ d \in Seq(Byte) /\ Len(d) = 7 + 1
          /\ \A i \in 1 .. 7 : d[i] = b[i]
          /\ \A i \in 1 .. 1 : d[7 + i] = s.SET_SCAN_TIME[i]
      <3>1. s.SET_SCAN_TIME \in Seq(Byte) /\ Len(s.SET_SCAN_TIME) = 1 /\ 1 \in Nat /\ 7 \in Nat
        BY Parts
      <3> QED BY <1>3, <3>1, Joined
    <2> HIDE DEF d
    <2> QED BY <1>3, <2>1
  <1>5. InfoData(s) = d
    BY DEF InfoData, h, a, b
  <1> HIDE DEF d
  <1>6. ReaderInfo(d) =
          [version |-> <<d[1], d[2]>>, model |-> EnumOrNone(ReaderType, d[3]),
           protocols |-> d[4] % 4, region |-> Unpack(d[5], d[6]),
           power |-> d[7], scan_time |-> d[8]]
    BY <1>4 DEF ReaderInfo
  <1> QED BY <1>4, <1>5, <1>6 DEF RegionOf

LEMMA WorkDecoded ==
    ASSUME NEW s, InBytes(s)
    PROVE  /\ WorkModeInfo(WorkModeData(s)).wiegand = WiegandOf(s)
           /\ WorkModeInfo(WorkModeData(s)).mode = ModeOf(s)
           /\ WorkModeInfo(WorkModeData(s)).eas_accuracy = s.SET_EAS_ACCURACY[1]
           /\ WorkModeInfo(WorkModeData(s)).syris_offset = s.SYRIS_RESPONSE_OFFSET[1]
  <1> DEFINE wg == s.SET_WIEGAND
             wm == s.SET_WORK_MODE
             a == wg \o wm
             b == a \o s.SET_EAS_ACCURACY
             d == b \o s.SYRIS_RESPONSE_OFFSET
  <1>1. /\ a \in Seq(Byte) /\ Len(a) = 10
        /\ \A i \in 1 .. 4 : a[i] = wg[i]
        /\ \A i \in 1 .. 6 : a[4 + i] = wm[i]
    <2>1. /\ wg \in Seq(Byte) /\ Len(wg) = 4 /\ wm \in Seq(Byte) /\ Len(wm) = 6
          /\ 4 \in Nat /\ 6 \in Nat
      BY Parts
    <2> HIDE DEF wg, wm
    <2>2. /\ a \in Seq(Byte) /\ Len(a) = 4 + 6
          /\ \A i \in 1 .. 4 : a[i] = wg[i]
          /\ \A i \in 1 .. 6 : a[4 + i] = wm[i]
      <3> DEFINE p == 4
                 q == 6
      <3>1. p \in Nat /\ q \in Nat /\ Len(wg) = p /\ Len(wm) = q
        BY <2>1
      <3> HIDE DEF p, q
      <3>2. ASSUME NEW x \in Seq(Byte), NEW y \in Seq(Byte), Len(x) = p, Len(y) = q
            PROVE  /\ x \o y \in Seq(Byte) /\ Len(x \o y) = p + q
                   /\ \A i \in 1 .. p : (x \o y)[i] = x[i]
                   /\ \A i \in 1 .. q : (x \o y)[p + i] = y[i]
        <4>1. x \o y \in Seq(Byte)
          BY ConcatProperties
        <4>2. Len(x \o y) = p + q
          BY <3>1, <3>2, Joined
        <4>3. \A i \in 1 .. p : (x \o y)[i] = x[i]
          BY <3>1, <3>2, Joined
        <4>4. \A i \in 1 .. q : (x \o y)[p + i] = y[i]
          BY <3>1, <3>2, Joined
        <4> QED BY <4>1, <4>2, <4>3, <4>4
      <3> HIDE DEF a
      <3>3. a = wg \o wm
        BY DEF a
      <3> QED BY <2>1, <3>1, <3>2, <3>3 DEF p, q
    <2> HIDE DEF a
    <2> QED BY <2>2
  <1> HIDE DEF a
  <1>2. /\ b \in Seq(Byte) /\ Len(b) = 11
        /\ \A i \in 1 .. 10 : b[i] = a[i]
        /\ \A i \in 1 .. 1 : b[10 + i] = s.SET_EAS_ACCURACY[i]
    <2>1. /\ s.SET_EAS_ACCURACY \in Seq(Byte) /\ Len(s.SET_EAS_ACCURACY) = 1
          /\ 1 \in Nat /\ 10 \in Nat
      BY Parts
    <2>2. /\ b \in Seq(Byte) /\ Len(b) = 10 + 1
          /\ \A i \in 1 .. 10 : b[i] = a[i]
          /\ \A i \in 1 .. 1 : b[10 + i] = s.SET_EAS_ACCURACY[i]
      BY <1>1, <2>1, Joined
    <2> HIDE DEF b
    <2> QED BY <2>2
  <1> HIDE DEF b
  <1>3. /\ d \in Seq(Byte) /\ Len(d) = 12
        /\ \A i \in 1 .. 11 : d[i] = b[i]
        /\ \A i \in 1 .. 1 : d[11 + i] = s.SYRIS_RESPONSE_OFFSET[i]
    <2>1. /\ s.SYRIS_RESPONSE_OFFSET \in Seq(Byte) /\ Len(s.SYRIS_RESPONSE_OFFSET) = 1
          /\ 1 \in Nat /\ 11 \in Nat
      BY Parts
    <2>2. /\ d \in Seq(Byte) /\ Len(d) = 11 + 1
          /\ \A i \in 1 .. 11 : d[i] = b[i]
          /\ \A i \in 1 .. 1 : d[11 + i] = s.SYRIS_RESPONSE_OFFSET[i]
      BY <1>2, <2>1, Joined
    <2> HIDE DEF d
    <2> QED BY <2>2
  <1>4. WorkModeData(s) = d
    BY DEF WorkModeData, a, b
  <1> HIDE DEF d, wg, wm
  <1>5. d[1] = wg[1] /\ d[2] = wg[2] /\ d[3] = wg[3] /\ d[4] = wg[4]
    BY <1>1, <1>2, <1>3
  <1>6. d[5] = wm[1] /\ d[6] = wm[2] /\ d[7] = wm[3] /\ d[8] = wm[4] /\ d[9] = wm[5] /\ d[10] = wm[6]
    BY <1>1, <1>2, <1>3
  <1>7. d[11] = s.SET_EAS_ACCURACY[1] /\ d[12] = s.SYRIS_RESPONSE_OFFSET[1]
    BY <1>2, <1>3
  <1>8. WorkModeInfo(d) =
          [wiegand |-> [wg_format |-> d[1] % 4, data_interval |-> d[2],
                        pulse_width |-> d[3], pulse_interval |-> d[4]],
           mode    |-> [work_mode |-> EnumOrNone(WorkMode, d[5] % 4),
                        state |-> StateBits(d[6]),
                        mem_inven |-> EnumOrNone(MemInven, d[7]),
                        first_adr |-> d[8], word_num |-> d[9], tag_time |-> d[10]],
           eas_accuracy |-> d[11], syris_offset |-> d[12]]
    BY <1>3 DEF WorkModeInfo
  <1> QED BY <1>4, <1>5, <1>6, <1>7, <1>8 DEF WiegandOf, ModeOf, wg, wm

-----------------------------------------------------------------------------
(* One setting, packed and decoded.                                        *)

\* The members of an enum have different codes, so a code names its member.
LEMMA BandOfCode ==
    ASSUME NEW band \in DOMAIN FreqBand
    PROVE  FreqBand[band] \in 0 .. 3 /\ EnumOrNone(FreqBand, FreqBand[band]) = band
  <1>1. \A m \in DOMAIN FreqBand : FreqBand[m] = FreqBand[band] => m = band
    BY DEF FreqBand
  <1>2. FreqBand[band] \in 0 .. 3
    BY DEF FreqBand
  <1> QED BY <1>1, <1>2 DEF EnumOrNone

LEMMA WorkModeOfCode ==
    ASSUME NEW mode \in DOMAIN WorkMode
    PROVE  WorkMode[mode] \in 0 .. 3 /\ EnumOrNone(WorkMode, WorkMode[mode]) = mode
  <1>1. \A m \in DOMAIN WorkMode : WorkMode[m] = WorkMode[mode] => m = mode
    BY DEF WorkMode
  <1>2. WorkMode[mode] \in 0 .. 3
    BY DEF WorkMode
  <1> QED BY <1>1, <1>2 DEF EnumOrNone

LEMMA MemoryOfCode ==
    ASSUME NEW memory \in DOMAIN MemInven
    PROVE  MemInven[memory] \in 0 .. 6 /\ EnumOrNone(MemInven, MemInven[memory]) = memory
  <1>1. \A m \in DOMAIN MemInven : MemInven[m] = MemInven[memory] => m = memory
    BY DEF MemInven
  <1>2. MemInven[memory] \in 0 .. 6
    BY DEF MemInven
  <1> QED BY <1>1, <1>2 DEF EnumOrNone

\* The band in the top bits of two bytes and the indices below it.
LEMMA RegionReadsBack ==
    ASSUME NEW r \in Regions, RegionOK(r)
    PROVE  /\ Pack(r) \in Seq(Byte) /\ Len(Pack(r)) = 2
           /\ Unpack(Pack(r)[1], Pack(r)[2]) = r
  <1> DEFINE k  == FreqBand[r.band]
             hi == r.max_index
             lo == r.min_index
  <1>1. r.band \in DOMAIN FreqBand
    BY DEF RegionOK
  <1>2. k \in 0 .. 3 /\ EnumOrNone(FreqBand, k) = r.band
    BY <1>1, BandOfCode
  <1>3. hi \in 0 .. 63 /\ lo \in 0 .. 63
    BY DEF RegionOK, InRange, MaxIndex, FreqBand
  <1>4. r = [band |-> r.band, max_index |-> hi, min_index |-> lo]
    BY DEF Regions
  <1>5. Pack(r) = <<(k \div 4) * 64 + hi, (k % 4) * 64 + lo>>
    BY DEF Pack
  <1> HIDE DEF k, hi, lo
  <1>6. k \div 4 = 0 /\ k % 4 = k
    BY <1>2
  <1>7. Pack(r) = <<hi, k * 64 + lo>>
    BY <1>3, <1>5, <1>6
  <1>8. hi \in Byte /\ k * 64 + lo \in Byte
    BY <1>2, <1>3 DEF Byte
  <1>9. hi \div 64 = 0 /\ hi % 64 = hi
    BY <1>3
  <1>10. (k * 64 + lo) \div 64 = k /\ (k * 64 + lo) % 64 = lo
    BY <1>2, <1>3
  <1>11. Unpack(hi, k * 64 + lo) = [band |-> EnumOrNone(FreqBand, 0 * 4 + k),
                                   max_index |-> hi, min_index |-> lo]
    BY <1>9, <1>10 DEF Unpack
  <1>12. 0 * 4 + k = k
    BY <1>2
  <1>13. Unpack(hi, k * 64 + lo) = r
    BY <1>2, <1>4, <1>11, <1>12
  <1> QED BY <1>7, <1>8, <1>13

LEMMA WiegandReadsBack ==
    ASSUME NEW w \in Wiegands, WiegandOK(w), NEW s, s.SET_WIEGAND = WiegandBytes(w)
    PROVE  /\ WiegandBytes(w) \in Seq(Byte) /\ Len(WiegandBytes(w)) = 4
           /\ WiegandOf(s) = w
  <1>1. /\ w.wg_format \in 0 .. 3 /\ w.data_interval \in Byte
        /\ w.pulse_width \in Byte /\ w.pulse_interval \in Byte
    BY DEF WiegandOK, InRange, WiegandFormat, Byte
  <1>2. w.wg_format % 4 = w.wg_format /\ w.wg_format \in Byte
    BY <1>1 DEF Byte
  <1>3. w = [wg_format |-> w.wg_format, data_interval |-> w.data_interval,
             pulse_width |-> w.pulse_width, pulse_interval |-> w.pulse_interval]
    BY DEF Wiegands
  <1> QED BY <1>1, <1>2, <1>3 DEF WiegandBytes, WiegandOf

LEMMA ModeReadsBack ==
    ASSUME NEW m \in Modes, WorkModeOK(m), NEW s, s.SET_WORK_MODE = WorkModeBytes(m)
    PROVE  /\ WorkModeBytes(m) \in Seq(Byte) /\ Len(WorkModeBytes(m)) = 6
           /\ ModeOf(s) = m
  <1>1. /\ m.work_mode \in DOMAIN WorkMode /\ m.mem_inven \in DOMAIN MemInven
        /\ m.state \in 0 .. 31 /\ m.first_adr \in Byte /\ m.tag_time \in Byte
    BY DEF WorkModeOK, InRange, ModeState, Byte
  <1>2. m.word_num \in Byte
    <2>1. m.word_num \in 1 .. 4 \/ m.word_num \in 1 .. 32
      BY DEF WorkModeOK, InRange
    <2> QED BY <2>1 DEF Byte
  <1>3. /\ WorkMode[m.work_mode] \in 0 .. 3 /\ MemInven[m.mem_inven] \in 0 .. 6
        /\ EnumOrNone(WorkMode, WorkMode[m.work_mode]) = m.work_mode
        /\ EnumOrNone(MemInven, MemInven[m.mem_inven]) = m.mem_inven
    BY <1>1, WorkModeOfCode, MemoryOfCode
  <1> DEFINE c == WorkMode[m.work_mode]
             n == MemInven[m.mem_inven]
  <1>4. WorkModeBytes(m) = <<c, m.state, n, m.first_adr, m.word_num, m.tag_time>>
    BY DEF WorkModeBytes
  <1>5. c \in 0 .. 3 /\ n \in 0 .. 6 /\ EnumOrNone(WorkMode, c) = m.work_mode
        /\ EnumOrNone(MemInven, n) = m.mem_inven
    BY <1>3
  <1>6. m = [work_mode |-> m.work_mode, state |-> m.state, mem_inven |-> m.mem_inven,
             first_adr |-> m.first_adr, word_num |-> m.word_num, tag_time |-> m.tag_time]
    BY DEF Modes
  <1> HIDE DEF c, n
  <1>7. c % 4 = c /\ m.state % 32 = m.state
    BY <1>1, <1>5
  <1>8. c \in Byte /\ n \in Byte /\ m.state \in Byte
    BY <1>1, <1>5 DEF Byte
  <1>9. WorkModeBytes(m) \in Seq(Byte) /\ Len(WorkModeBytes(m)) = 6
    BY <1>1, <1>2, <1>4, <1>8
  <1>10. ModeOf(s) = [work_mode |-> EnumOrNone(WorkMode, c % 4), state |-> m.state % 32,
                      mem_inven |-> EnumOrNone(MemInven, n), first_adr |-> m.first_adr,
                      word_num |-> m.word_num, tag_time |-> m.tag_time]
    BY <1>4 DEF ModeOf, StateBits
  <1> QED BY <1>5, <1>6, <1>7, <1>9, <1>10

-----------------------------------------------------------------------------
(* The invariant.                                                          *)

\* The settings the two reports are about.
Reported == {"SET_REGION", "SET_POWER", "SET_SCAN_TIME", "SET_WIEGAND", "SET_WORK_MODE",
             "SET_EAS_ACCURACY", "SYRIS_RESPONSE_OFFSET"}

\* What the two reports say of the setting of one command.
ReadBack(c, s) ==
    CASE c = "SET_REGION"  -> RegionOf(s)
      [] c = "SET_WIEGAND" -> WiegandOf(s)
      [] c = "SET_WORK_MODE" -> ModeOf(s)
      [] OTHER -> s[c][1]

LEMMA ReadBackIs ==
    ASSUME NEW s
    PROVE  /\ ReadBack("SET_REGION", s) = RegionOf(s) /\ ReadBack("SET_WIEGAND", s) = WiegandOf(s)
           /\ ReadBack("SET_WORK_MODE", s) = ModeOf(s)
           /\ \A c \in Reported \ {"SET_REGION", "SET_WIEGAND", "SET_WORK_MODE"} :
                ReadBack(c, s) = s[c][1]
  BY DEF ReadBack

\* It depends on the bytes of that command alone.
LEMMA ReadBackLocal ==
    ASSUME NEW s, NEW t, NEW c \in Reported, s[c] = t[c]
    PROVE  ReadBack(c, s) = ReadBack(c, t)
  <1>1. CASE c = "SET_REGION"
    BY <1>1, ReadBackIs DEF RegionOf
  <1>2. CASE c = "SET_WIEGAND"
    BY <1>2, ReadBackIs DEF WiegandOf
  <1>3. CASE c = "SET_WORK_MODE"
    BY <1>3, ReadBackIs DEF ModeOf
  <1>4. CASE c \notin {"SET_REGION", "SET_WIEGAND", "SET_WORK_MODE"}
    BY <1>4, ReadBackIs
  <1> QED BY <1>1, <1>2, <1>3, <1>4

Accepted(c, value) ==
    /\ c = "SET_REGION"    => RegionOK(value)
    /\ c = "SET_WIEGAND"   => WiegandOK(value)
    /\ c = "SET_WORK_MODE" => WorkModeOK(value)

\* What is read back of a setting is what was asked for last, and legal.
InvSettings ==
    /\ InBytes(stored)
    /\ asked = [c \in Commands |-> asked[c]]
    /\ outcome \in {"none", "sent", "rejected"} /\ calls \in 0 .. MaxCalls
    /\ \A c \in Reported :
         Current(c, ReadBack(c, stored)) /\ Accepted(c, ReadBack(c, stored))

LEMMA ReportedAreCommands == Reported \subseteq Commands
  BY DEF Reported, Commands, Ranges

LEMMA InitSettings == Init => InvSettings
  <1> SUFFICES ASSUME Init PROVE InvSettings
    OBVIOUS
  <1>1. InBytes(stored) /\ Legal(stored) /\ MaxCalls \in Nat
    BY FactoryAssumption DEF Init
  <1>2. asked = [c \in Commands |-> Unset] /\ outcome = "none" /\ calls = 0
    BY DEF Init
  <1>3. RegionOK(RegionOf(stored)) /\ WiegandOK(WiegandOf(stored)) /\ WorkModeOK(ModeOf(stored))
    BY <1>1, InfoDecoded, WorkDecoded DEF Legal
  <1>4. asked = [c \in Commands |-> asked[c]] /\ \A c \in Commands : asked[c] = Unset
    BY <1>2
  <1>5. \A c \in Reported : Current(c, ReadBack(c, stored))
    BY <1>4, ReportedAreCommands DEF Current
  <1>6. \A c \in Reported : Accepted(c, ReadBack(c, stored))
    BY <1>3, ReadBackIs DEF Accepted
  <1>7. calls \in 0 .. MaxCalls
    BY <1>1, <1>2
  <1> QED BY <1>1, <1>2, <1>4, <1>5, <1>6, <1>7 DEF InvSettings

\* A setter stores its own bytes and no others.
LEMMA SendStores ==
    ASSUME InvSettings, NEW command \in Commands, NEW args, NEW bytes \in Seq(Byte),
           Len(bytes) = Size(command), Send(command, args, bytes)
    PROVE  /\ InBytes(stored') /\ asked' = [c \in Commands |-> asked'[c]]
           /\ \A c \in Commands \ {command} : stored'[c] = stored[c] /\ asked'[c] = asked[c]
           /\ \/ stored'[command] = stored[command] /\ asked'[command] = asked[command]
              \/ stored'[command] = bytes /\ asked'[command] = <<args>>
           /\ outcome' = "sent"
  <1>1. stored \in [Commands -> Seq(Byte)] /\ \A c \in Commands : Len(stored[c]) = Size(c)
    BY DEF InvSettings, InBytes
  <1>2. asked = [c \in Commands |-> asked[c]]
    BY DEF InvSettings
  <1>3. CASE UNCHANGED <<stored, asked>>
    BY <1>1, <1>2, <1>3 DEF Send, InBytes
  <1>4. CASE stored' = [stored EXCEPT ![command] = bytes] /\ asked' = [asked EXCEPT ![command] = <<args>>]
    <2>1. stored' \in [Commands -> Seq(Byte)] /\ \A c \in Commands : Len(stored'[c]) = Size(c)
      BY <1>1, <1>4
    <2>2. asked' = [c \in Commands |-> IF c = command THEN <<args>> ELSE asked[c]]
      BY <1>2, <1>4
    <2> QED BY <1>1, <1>4, <2>1, <2>2 DEF Send, InBytes
  <1> QED BY <1>3, <1>4 DEF Send


\* A setter that is given legal arguments keeps the invariant if what it sends
\* reads back as they are.
LEMMA SendKeeps ==
    ASSUME InvSettings, NEW command \in Commands, NEW args, NEW bytes \in Seq(Byte),
           Len(bytes) = Size(command), Call, Send(command, args, bytes),
           \A s : command \in Reported /\ s[command] = bytes =>
                    ReadBack(command, s) = args /\ Accepted(command, args)
    PROVE  InvSettings'
  <1>1. /\ InBytes(stored') /\ asked' = [c \in Commands |-> asked'[c]]
        /\ \A c \in Commands \ {command} : stored'[c] = stored[c] /\ asked'[c] = asked[c]
        /\ \/ stored'[command] = stored[command] /\ asked'[command] = asked[command]
           \/ stored'[command] = bytes /\ asked'[command] = <<args>>
        /\ outcome' = "sent"
    BY SendStores
  <1>2. calls' \in 0 .. MaxCalls
    BY FactoryAssumption DEF Call, InvSettings
  <1>3. ASSUME NEW c \in Reported
        PROVE  Current(c, ReadBack(c, stored))' /\ Accepted(c, ReadBack(c, stored'))
    <2>1. Current(c, ReadBack(c, stored)) /\ Accepted(c, ReadBack(c, stored)) /\ c \in Commands
      BY ReportedAreCommands DEF InvSettings
    <2>2. CASE stored'[c] = stored[c] /\ asked'[c] = asked[c]
      <3>1. ReadBack(c, stored') = ReadBack(c, stored)
        BY <2>2, ReadBackLocal
      <3> QED BY <2>1, <2>2, <3>1 DEF Current
    <2>3. CASE c = command /\ stored'[c] = bytes /\ asked'[c] = <<args>>
      <3>1. ReadBack(c, stored') = args /\ Accepted(c, args)
        BY <2>3
      <3> QED BY <2>3, <3>1 DEF Current
    <2> QED BY <1>1, <2>1, <2>2, <2>3
  <1> QED BY <1>1, <1>2, <1>3 DEF InvSettings

LEMMA RejectKeeps ==
    ASSUME InvSettings, Reject, Call \/ calls' = calls
    PROVE  InvSettings'
  <1>1. calls' \in 0 .. MaxCalls
    BY FactoryAssumption DEF Call, InvSettings
  <1> QED BY <1>1 DEF Reject, InvSettings, Current

LEMMA NumberSet ==
    ASSUME InvSettings, NEW command \in DOMAIN Ranges, NEW n, set_number(command, n)
    PROVE  InvSettings'
  <1>1. CASE Call /\ Reject
    BY <1>1, RejectKeeps
  <1>2. CASE /\ InRange(n, Ranges[command][1], Ranges[command][2])
             /\ Call /\ Send(command, n, <<n>>)
    <2>1. command \in Commands /\ Size(command) = 1
          /\ command \notin {"SET_REGION", "SET_WIEGAND", "SET_WORK_MODE"}
      BY DEF Commands, Ranges, Size, Sizes
    <2>2. n \in Byte
      BY <1>2 DEF InRange, Ranges, Byte
    <2>3. <<n>> \in Seq(Byte) /\ Len(<<n>>) = 1 /\ <<n>>[1] = n
      BY <2>2
    <2>4. ASSUME NEW s, command \in Reported, s[command] = <<n>>
          PROVE  ReadBack(command, s) = n /\ Accepted(command, n)
      BY <2>1, <2>3, <2>4, ReadBackIs DEF Accepted
    <2> QED BY <1>2, <2>1, <2>3, <2>4, SendKeeps
  <1> QED BY <1>1, <1>2 DEF set_number

LEMMA OtherSet ==
    ASSUME InvSettings,
           \/ \E baud \in DOMAIN ReaderBaudRate \cup {NotAMember} : set_baud_rate(baud)
           \/ \E a, s, t \in Probes.plain : acousto_optic_control(<<a, s, t>>)
    PROVE  InvSettings'
  <1>1. CASE Call /\ Reject
    BY <1>1, RejectKeeps
  <1>2. CASE \E baud \in DOMAIN ReaderBaudRate :
               Call /\ Send("SET_BAUD_RATE", baud, <<ReaderBaudRate[baud]>>)
    <2>1. PICK baud \in DOMAIN ReaderBaudRate :
            Call /\ Send("SET_BAUD_RATE", baud, <<ReaderBaudRate[baud]>>)
      BY <1>2
    <2>2. /\ "SET_BAUD_RATE" \in Commands /\ Size("SET_BAUD_RATE") = 1
          /\ "SET_BAUD_RATE" \notin Reported
      BY DEF Commands, Size, Sizes, Reported
    <2>3. ReaderBaudRate[baud] \in Byte
      BY DEF ReaderBaudRate, Byte
    <2>4. <<ReaderBaudRate[baud]>> \in Seq(Byte) /\ Len(<<ReaderBaudRate[baud]>>) = 1
      BY <2>3
    <2> QED BY <2>1, <2>2, <2>4, SendKeeps
  <1>3. CASE \E a, s, t \in Byte :
               Call /\ Send("ACOUSTO_OPTIC_CONTROL", <<a, s, t>>, <<a, s, t>>)
    <2>1. PICK a \in Byte, s \in Byte, t \in Byte :
            Call /\ Send("ACOUSTO_OPTIC_CONTROL", <<a, s, t>>, <<a, s, t>>)
      BY <1>3
    <2>2. /\ "ACOUSTO_OPTIC_CONTROL" \in Commands /\ Size("ACOUSTO_OPTIC_CONTROL") = 3
          /\ "ACOUSTO_OPTIC_CONTROL" \notin Reported
      BY DEF Commands, Size, Sizes, Reported
    <2>3. <<a, s, t>> \in Seq(Byte) /\ Len(<<a, s, t>>) = 3
      OBVIOUS
    <2> QED BY <2>1, <2>2, <2>3, SendKeeps
  <1>4. ASSUME NEW a, NEW s, NEW t, acousto_optic_control(<<a, s, t>>)
        PROVE  \/ Call /\ Reject
               \/ /\ a \in Byte /\ s \in Byte /\ t \in Byte
                  /\ Call /\ Send("ACOUSTO_OPTIC_CONTROL", <<a, s, t>>, <<a, s, t>>)
    BY <1>4 DEF acousto_optic_control, InRange, Byte
  <1>5. (\E a, s, t \in Probes.plain : acousto_optic_control(<<a, s, t>>)) => InvSettings'
    BY <1>1, <1>3, <1>4
  <1> QED BY <1>1, <1>2, <1>5 DEF set_baud_rate

LEMMA RegionSet ==
    ASSUME InvSettings, NEW r \in Regions, set_region(r)
    PROVE  InvSettings'
  <1>1. CASE Call /\ Reject
    BY <1>1, RejectKeeps
  <1>2. CASE RegionOK(r) /\ Call /\ Send("SET_REGION", r, Pack(r))
    <2>1. /\ Pack(r) \in Seq(Byte) /\ Len(Pack(r)) = 2
          /\ Unpack(Pack(r)[1], Pack(r)[2]) = r
      BY <1>2, RegionReadsBack
    <2>2. "SET_REGION" \in Commands /\ Size("SET_REGION") = 2
      BY DEF Commands, Size, Sizes
    <2>3. ASSUME NEW s, s["SET_REGION"] = Pack(r)
          PROVE  ReadBack("SET_REGION", s) = r /\ Accepted("SET_REGION", r)
      BY <1>2, <2>1, <2>3, ReadBackIs DEF RegionOf, Accepted
    <2> QED BY <1>2, <2>1, <2>2, <2>3, SendKeeps
  <1> QED BY <1>1, <1>2 DEF set_region

LEMMA WiegandSet ==
    ASSUME InvSettings, NEW w \in Wiegands, set_wiegand(w)
    PROVE  InvSettings'
  <1>1. CASE Call /\ Reject
    BY <1>1, RejectKeeps
  <1>2. CASE WiegandOK(w) /\ Call /\ Send("SET_WIEGAND", w, WiegandBytes(w))
    <2>1. WiegandBytes(w) \in Seq(Byte) /\ Len(WiegandBytes(w)) = 4
      <3>1. [SET_WIEGAND |-> WiegandBytes(w)].SET_WIEGAND = WiegandBytes(w)
        OBVIOUS
      <3> QED BY <1>2, <3>1, WiegandReadsBack
    <2>2. "SET_WIEGAND" \in Commands /\ Size("SET_WIEGAND") = 4
      BY DEF Commands, Size, Sizes
    <2>3. ASSUME NEW s, s["SET_WIEGAND"] = WiegandBytes(w)
          PROVE  ReadBack("SET_WIEGAND", s) = w /\ Accepted("SET_WIEGAND", w)
      BY <1>2, <2>3, WiegandReadsBack, ReadBackIs DEF Accepted
    <2> QED BY <1>2, <2>1, <2>2, <2>3, SendKeeps
  <1> QED BY <1>1, <1>2 DEF set_wiegand

LEMMA ModeSet ==
    ASSUME InvSettings, NEW m \in Modes, set_work_mode(m)
    PROVE  InvSettings'
  <1>1. CASE Call /\ Reject
    BY <1>1, RejectKeeps
  <1>2. CASE WorkModeOK(m) /\ Call /\ Send("SET_WORK_MODE", m, WorkModeBytes(m))
    <2>1. WorkModeBytes(m) \in Seq(Byte) /\ Len(WorkModeBytes(m)) = 6
      <3>1. [SET_WORK_MODE |-> WorkModeBytes(m)].SET_WORK_MODE = WorkModeBytes(m)
        OBVIOUS
      <3> QED BY <1>2, <3>1, ModeReadsBack
    <2>2. "SET_WORK_MODE" \in Commands /\ Size("SET_WORK_MODE") = 6
      BY DEF Commands, Size, Sizes
    <2>3. ASSUME NEW s, s["SET_WORK_MODE"] = WorkModeBytes(m)
          PROVE  ReadBack("SET_WORK_MODE", s) = m /\ Accepted("SET_WORK_MODE", m)
      BY <1>2, <2>3, ModeReadsBack, ReadBackIs DEF Accepted
    <2> QED BY <1>2, <2>1, <2>2, <2>3, SendKeeps
  <1> QED BY <1>1, <1>2 DEF set_work_mode

LEMMA NextSettings == InvSettings /\ [Next]_vars => InvSettings'
  <1>1. InvSettings /\ UNCHANGED vars => InvSettings'
    BY DEF vars, InvSettings, Current
  <1> QED BY <1>1, NumberSet, OtherSet, RegionSet, WiegandSet, ModeSet DEF Next

LEMMA Settings == Spec => []InvSettings
  BY InitSettings, NextSettings, PTL DEF Spec

\* The theorems are about what the two reports are decoded to.
LEMMA Reports ==
    ASSUME InvSettings
    PROVE  /\ ReaderInfo(InfoData(stored)).region = ReadBack("SET_REGION", stored)
           /\ ReaderInfo(InfoData(stored)).power = ReadBack("SET_POWER", stored)
           /\ ReaderInfo(InfoData(stored)).scan_time = ReadBack("SET_SCAN_TIME", stored)
           /\ WorkModeInfo(WorkModeData(stored)).wiegand = ReadBack("SET_WIEGAND", stored)
           /\ WorkModeInfo(WorkModeData(stored)).mode = ReadBack("SET_WORK_MODE", stored)
           /\ WorkModeInfo(WorkModeData(stored)).eas_accuracy
                = ReadBack("SET_EAS_ACCURACY", stored)
           /\ WorkModeInfo(WorkModeData(stored)).syris_offset
                = ReadBack("SYRIS_RESPONSE_OFFSET", stored)
  BY InfoDecoded, WorkDecoded, ReadBackIs DEF InvSettings, Reported

\* Whatever a setter accepts fits the bytes of its command.
THEOREM SettingsFitTheirBytes == Spec => []TypeOK
  <1>1. InvSettings => TypeOK
    BY InfoDecoded DEF InvSettings, TypeOK, Protocol
  <1> QED BY <1>1, Settings, PTL

\* set_region(), set_power(), set_scan_time(), set_wiegand(), set_work_mode(),
\* set_eas_accuracy() and set_syris_response_offset() read back as they were last
\* set, for all arguments that they accept.
THEOREM SettingsReadBack == Spec => []ReadsBackAsSet
  <1>1. InvSettings => ReadsBackAsSet
    BY Reports DEF InvSettings, Reported, ReadsBackAsSet
  <1> QED BY <1>1, Settings, PTL

\* What get_work_mode() returns is accepted by the setters it mirrors.
THEOREM ReportsAreAccepted == Spec => []ReadBackIsAccepted
  <1>1. InvSettings => ReadBackIsAccepted
    BY Reports DEF InvSettings, Reported, ReadBackIsAccepted, Accepted
  <1> QED BY <1>1, Settings, PTL

\* The region a reader is in is a non-empty interval of channels of its band, each
\* of which frequency_mhz() knows.
THEOREM RegionHasChannels == Spec => []RegionIsInterval
  <1>1. InvSettings => RegionIsInterval
    <2> SUFFICES ASSUME InvSettings PROVE RegionIsInterval
      OBVIOUS
    <2> DEFINE r == ReaderInfo(InfoData(stored)).region
    <2>1. RegionOK(r)
      BY Reports DEF InvSettings, Reported, Accepted
    <2> HIDE DEF r
    <2>2. /\ r.max_index \in 0 .. MaxIndex[r.band] /\ r.min_index \in 0 .. MaxIndex[r.band]
          /\ r.min_index <= r.max_index /\ MaxIndex[r.band] \in Nat
      BY <2>1 DEF RegionOK, InRange, FreqBand, MaxIndex
    <2>3. r.min_index \in r.min_index .. r.max_index
      BY <2>2
    <2>4. r.min_index .. r.max_index \subseteq 0 .. MaxIndex[r.band]
      BY <2>2
    <2>5. DOMAIN frequency_mhz(r.band) = 0 .. MaxIndex[r.band]
      BY DEF frequency_mhz
    <2> QED BY <2>3, <2>4, <2>5 DEF RegionIsInterval, r
  <1> QED BY <1>1, Settings, PTL
=============================================================================
