-------------------------- MODULE HwVxWriteProofs --------------------------
(***************************************************************************)
(* What is proved of the methods that write to a module: it reboots after  *)
(* them, and the two passes of save_config() store every setting.          *)
(***************************************************************************)
EXTENDS HwVxProofs

(* The shape of the scripts.                                               *)

\* A command between which and a reboot command nothing changes as to whether
\* the target hears what is sent to the address to.
Mild(cmd, to) == cmd.c \in {"L", "S"} /\ (cmd.field = "ip_address" => to = "all")

IsSend(step, c) == step.do = "send" /\ step.to = "target" /\ step.cmd.c = c

Passing(step, to) ==
    step.do = "drain" \/ (step.do = "send" /\ step.to = "target" /\ Mild(step.cmd, to))

\* After step i the script comes to a reboot command.
Reboots(seq, i, to) ==
    \E j \in i + 1 .. Len(seq) :
      IsSend(seq[j], "E") /\ \A k \in i + 1 .. j - 1 : Passing(seq[k], to)

Shaped(seq) ==
    /\ \A i \in 1 .. Len(seq) :
         seq[i].do = "send" /\ seq[i].cmd.c = "S" =>
           seq[i].to = "target" /\ Reboots(seq, i, "all")
    /\ \A i \in 1 .. Len(seq) :
         seq[i].do = "fallback" =>
           i + 1 <= Len(seq) /\ IsSend(seq[i + 1], "W") /\ Reboots(seq, i + 1, "all")
    /\ \A i \in 2 .. Len(seq) : seq[i].do = "fallback" => seq[i - 1].do = "sleep"
    /\ \A i \in 2 .. Len(seq) :
         seq[i].do = "send" /\ seq[i].cmd.c = "W" => seq[i - 1].do = "fallback"
    /\ \A i, j \in 1 .. Len(seq) : seq[i].do = "fallback" /\ seq[j].do = "fallback" => i = j

LEMMA TailIs ==
    ASSUME NEW S, NEW seq \in Seq(S), seq # <<>>
    PROVE  /\ Len(seq) \in Nat /\ Len(seq) >= 1 /\ Len(Tail(seq)) = Len(seq) - 1
           /\ Head(seq) = seq[1] /\ Head(seq) \in S /\ Tail(seq) \in Seq(S)
           /\ \A i \in 1 .. Len(seq) - 1 : Tail(seq)[i] = seq[i + 1]
  OBVIOUS

LEMMA RebootsTail ==
    ASSUME NEW seq \in Seq(Steps), seq # <<>>, NEW i \in Nat, NEW to, Reboots(seq, i + 1, to)
    PROVE  Reboots(Tail(seq), i, to)
  <1> DEFINE rest == Tail(seq)
  <1>1. /\ Len(seq) \in Nat /\ Len(rest) = Len(seq) - 1
        /\ \A k \in 1 .. Len(seq) - 1 : rest[k] = seq[k + 1]
    BY TailIs
  <1> HIDE DEF rest
  <1>2. PICK j \in (i + 1) + 1 .. Len(seq) :
           IsSend(seq[j], "E") /\ \A k \in (i + 1) + 1 .. j - 1 : Passing(seq[k], to)
    BY DEF Reboots
  <1>3. /\ j - 1 \in i + 1 .. Len(rest) /\ rest[j - 1] = seq[j]
        /\ \A k \in i + 1 .. (j - 1) - 1 :
             k + 1 \in (i + 1) + 1 .. j - 1 /\ rest[k] = seq[k + 1]
    BY <1>1
  <1>4. \A k \in i + 1 .. (j - 1) - 1 : Passing(rest[k], to)
    BY <1>2, <1>3
  <1>5. Reboots(rest, i, to)
    BY <1>2, <1>3, <1>4 DEF Reboots
  <1> QED BY <1>5 DEF rest

\* A script that comes to its reboot command starts with it or comes closer.
LEMMA RebootsHead ==
    ASSUME NEW seq \in Seq(Steps), NEW to, Reboots(seq, 0, to)
    PROVE  /\ seq # <<>>
           /\ \/ IsSend(Head(seq), "E")
              \/ Passing(Head(seq), to) /\ Reboots(Tail(seq), 0, to)
  <1>1. PICK j \in 1 .. Len(seq) :
           IsSend(seq[j], "E") /\ \A k \in 1 .. j - 1 : Passing(seq[k], to)
    BY DEF Reboots
  <1>2. seq # <<>> /\ Head(seq) = seq[1]
    BY <1>1
  <1>3. CASE j = 1
    BY <1>1, <1>2, <1>3
  <1>4. CASE j # 1
    <2>1. 1 \in 1 .. j - 1 /\ j \in 2 .. Len(seq)
      BY <1>4
    <2>2. Passing(seq[1], to)
      BY <1>1, <2>1
    <2>3. Reboots(seq, 0 + 1, to)
      BY <1>1, <2>1 DEF Reboots
    <2>4. Reboots(Tail(seq), 0, to)
      BY <1>2, <2>3, RebootsTail
    <2> QED BY <1>2, <2>2, <2>4
  <1> QED BY <1>3, <1>4

LEMMA ShapedTail ==
    ASSUME NEW seq \in Seq(Steps), seq # <<>>, Shaped(seq)
    PROVE  Shaped(Tail(seq))
  <1> DEFINE rest == Tail(seq)
  <1>1. /\ Len(seq) \in Nat /\ Len(rest) = Len(seq) - 1
        /\ \A k \in 1 .. Len(seq) - 1 : rest[k] = seq[k + 1]
    BY TailIs
  <1>2. \A i \in Nat : Reboots(seq, i + 1, "all") => Reboots(rest, i, "all")
    BY RebootsTail
  <1> HIDE DEF rest
  <1>3. \A i \in 1 .. Len(rest) : i \in Nat /\ i + 1 \in 1 .. Len(seq) /\ rest[i] = seq[i + 1]
    BY <1>1
  <1>4. ASSUME NEW i \in 1 .. Len(rest), rest[i].do = "send", rest[i].cmd.c = "S"
        PROVE  rest[i].to = "target" /\ Reboots(rest, i, "all")
    BY <1>2, <1>3, <1>4 DEF Shaped
  <1>5. ASSUME NEW i \in 1 .. Len(rest), rest[i].do = "fallback"
        PROVE  i + 1 <= Len(rest) /\ IsSend(rest[i + 1], "W") /\ Reboots(rest, i + 1, "all")
    <2>1. /\ (i + 1) + 1 <= Len(seq) /\ IsSend(seq[(i + 1) + 1], "W")
          /\ Reboots(seq, (i + 1) + 1, "all")
      BY <1>3, <1>5 DEF Shaped
    <2>2. i + 1 <= Len(rest) /\ i + 1 \in Nat /\ rest[i + 1] = seq[(i + 1) + 1]
      BY <1>1, <2>1
    <2> QED BY <1>2, <2>1, <2>2
  <1>6. ASSUME NEW i \in 2 .. Len(rest)
        PROVE  /\ rest[i].do = "fallback" => rest[i - 1].do = "sleep"
               /\ rest[i].do = "send" /\ rest[i].cmd.c = "W" => rest[i - 1].do = "fallback"
    <2>1. /\ i + 1 \in 2 .. Len(seq) /\ rest[i] = seq[i + 1] /\ rest[i - 1] = seq[(i + 1) - 1]
      BY <1>1
    <2> QED BY <2>1 DEF Shaped
  <1>7. ASSUME NEW i \in 1 .. Len(rest), NEW j \in 1 .. Len(rest),
               rest[i].do = "fallback", rest[j].do = "fallback"
        PROVE  i = j
    <2>1. i + 1 = j + 1
      BY <1>3, <1>7 DEF Shaped
    <2> QED BY <2>1
  <1>8. Shaped(rest)
    BY <1>4, <1>5, <1>6, <1>7 DEF Shaped
  <1> QED BY <1>8 DEF rest

\* One pass of save_config() or change_network().
PassShape(pass) ==
    /\ pass \in Seq(Steps) /\ Len(pass) >= 3
    /\ pass[1].do = "send" /\ pass[1].to = "target" /\ pass[1].cmd.c \in {"X", "W", "L"}
    /\ \A k \in 2 .. Len(pass) - 2 : Passing(pass[k], "all")
    /\ IsSend(pass[Len(pass) - 1], "E") /\ pass[Len(pass)].do = "sleep"

LEMMA PassFacts ==
    ASSUME NEW pass, PassShape(pass), NEW i \in 1 .. Len(pass)
    PROVE  /\ pass[i].do # "fallback"
           /\ pass[i].do = "send" /\ pass[i].cmd.c = "S" =>
                i \in 2 .. Len(pass) - 2 /\ pass[i].to = "target"
           /\ pass[i].do = "send" /\ pass[i].cmd.c = "W" => i = 1 /\ pass[1].cmd.c = "W"
  <1>1. Len(pass) \in Nat
    BY DEF PassShape
  <1>2. i = 1 \/ i \in 2 .. Len(pass) - 2 \/ i = Len(pass) - 1 \/ i = Len(pass)
    BY <1>1
  <1>3. CASE i = 1
    BY <1>3 DEF PassShape
  <1>4. CASE i \in 2 .. Len(pass) - 2
    <2>1. Passing(pass[i], "all")
      BY <1>4 DEF PassShape
    <2> QED BY <1>4, <2>1 DEF Passing, Mild
  <1>5. CASE i = Len(pass) - 1
    BY <1>5 DEF PassShape, IsSend
  <1>6. CASE i = Len(pass)
    BY <1>6 DEF PassShape
  <1> QED BY <1>2, <1>3, <1>4, <1>5, <1>6

LEMMA PassShaped ==
    ASSUME NEW pass, PassShape(pass), pass[1].cmd.c # "W"
    PROVE  /\ Shaped(pass) /\ \A i \in 1 .. Len(pass) : pass[i].do # "fallback"
  <1>1. Len(pass) \in Nat /\ Len(pass) >= 3
    BY DEF PassShape
  <1>2. ASSUME NEW i \in 1 .. Len(pass), pass[i].do = "send", pass[i].cmd.c = "S"
        PROVE  pass[i].to = "target" /\ Reboots(pass, i, "all")
    <2>1. i \in 2 .. Len(pass) - 2 /\ pass[i].to = "target"
      BY <1>2, PassFacts
    <2>2. Len(pass) - 1 \in i + 1 .. Len(pass)
      BY <1>1, <2>1
    <2>3. \A k \in i + 1 .. (Len(pass) - 1) - 1 : k \in 2 .. Len(pass) - 2
      BY <1>1, <2>1
    <2>4. Reboots(pass, i, "all")
      BY <2>2, <2>3 DEF PassShape, Reboots
    <2> QED BY <2>1, <2>4
  <1>3. \A i \in 1 .. Len(pass) :
          pass[i].do # "fallback" /\ ~(pass[i].do = "send" /\ pass[i].cmd.c = "W")
    BY PassFacts
  <1>4. \A i \in 2 .. Len(pass) : i \in 1 .. Len(pass)
    BY <1>1
  <1> QED BY <1>2, <1>3, <1>4 DEF Shaped

LEMMA TwoPassesShaped ==
    ASSUME NEW first, PassShape(first), first[1].cmd.c # "W",
           NEW second, PassShape(second), second[1].cmd.c = "W"
    PROVE  LET both == first \o (<<Do("fallback")>> \o second)
           IN  Shaped(both) /\ \E i \in 1 .. Len(both) : both[i].do = "fallback"
  <1> DEFINE both == first \o (<<Do("fallback")>> \o second)
             p == Len(first)
             q == Len(second)
  <1>1. first \in Seq(Steps) /\ second \in Seq(Steps) /\ p >= 3 /\ q >= 3
    BY DEF PassShape
  <1>2. /\ p \in Nat /\ q \in Nat /\ Len(both) = p + 1 + q
        /\ \A i \in 1 .. p : both[i] = first[i]
        /\ both[p + 1] = Do("fallback")
        /\ \A i \in 1 .. q : both[p + 1 + i] = second[i]
    <2> DEFINE tail == <<Do("fallback")>> \o second
    <2>1. Do("fallback") \in Steps
      BY StepTypes
    <2>2. /\ tail \in Seq(Steps) /\ Len(tail) = 1 + q /\ tail[1] = Do("fallback")
          /\ \A i \in 1 .. q : tail[1 + i] = second[i]
      BY <1>1, <2>1
    <2> HIDE DEF tail
    <2>3. /\ Len(both) = p + (1 + q) /\ p \in Nat /\ q \in Nat
          /\ \A i \in 1 .. p : both[i] = first[i]
          /\ \A i \in 1 .. 1 + q : both[p + i] = tail[i]
      BY <1>1, <2>2
    <2>4. \A i \in 1 .. q : 1 + i \in 1 .. 1 + q /\ p + 1 + i = p + (1 + i)
      BY <2>3
    <2>5. 1 \in 1 .. 1 + q
      BY <2>3
    <2> HIDE DEF both
    <2> QED BY <2>2, <2>3, <2>4, <2>5
  <1> HIDE DEF both, p, q
  <1>3. both[p + 1].do = "fallback"
    <2>1. Do("fallback").do = "fallback"
      BY DEF Do, Step
    <2> QED BY <1>2, <2>1
  <1>4. ASSUME NEW i \in 1 .. Len(both)
        PROVE  i \in 1 .. p \/ i = p + 1 \/ (i - (p + 1) \in 1 .. q /\ i = p + 1 + (i - (p + 1)))
    BY <1>2
  <1>5. ASSUME NEW i \in 1 .. Len(both), both[i].do = "send", both[i].cmd.c = "S"
        PROVE  both[i].to = "target" /\ Reboots(both, i, "all")
    <2>1. CASE i \in 1 .. p
      <3>1. i \in 2 .. p - 2 /\ both[i].to = "target"
        BY <1>2, <1>5, <2>1, PassFacts DEF p
      <3>2. p - 1 \in i + 1 .. Len(both) /\ p - 1 \in 1 .. p
        BY <1>1, <1>2, <3>1
      <3>3. \A k \in i + 1 .. (p - 1) - 1 : k \in 2 .. p - 2 /\ k \in 1 .. p
        BY <1>2, <3>1
      <3>4. IsSend(both[p - 1], "E") /\ \A k \in i + 1 .. (p - 1) - 1 : Passing(both[k], "all")
        BY <1>2, <3>2, <3>3 DEF PassShape, p
      <3> QED BY <3>1, <3>2, <3>4 DEF Reboots
    <2>2. CASE i - (p + 1) \in 1 .. q /\ i = p + 1 + (i - (p + 1))
      <3> DEFINE h == i - (p + 1)
      <3>1. h \in 1 .. q /\ both[i] = second[h]
        BY <1>2, <2>2
      <3>2. h \in 2 .. q - 2 /\ both[i].to = "target"
        BY <1>5, <3>1, PassFacts DEF q
      <3>3. p + 1 + (q - 1) \in i + 1 .. Len(both) /\ q - 1 \in 1 .. q
        BY <1>1, <1>2, <3>2
      <3>4. \A k \in i + 1 .. (p + 1 + (q - 1)) - 1 :
              /\ k - (p + 1) \in 2 .. q - 2 /\ k - (p + 1) \in 1 .. q
              /\ k = p + 1 + (k - (p + 1))
        BY <1>2, <3>2
      <3>5. IsSend(both[p + 1 + (q - 1)], "E")
        BY <1>2, <3>3 DEF PassShape, q
      <3>6. \A k \in 2 .. q - 2 : Passing(second[k], "all")
        BY DEF PassShape, q
      <3>7. \A k \in i + 1 .. (p + 1 + (q - 1)) - 1 : Passing(both[k], "all")
        BY <1>2, <3>4, <3>6
      <3> QED BY <3>2, <3>3, <3>5, <3>7 DEF Reboots
    <2> QED BY <1>3, <1>4, <1>5, <2>1, <2>2
  <1>6. ASSUME NEW i \in 1 .. Len(both), both[i].do = "fallback"
        PROVE  i = p + 1
    <2>1. CASE i \in 1 .. p
      BY <1>2, <1>6, <2>1, PassFacts DEF p
    <2>2. CASE i - (p + 1) \in 1 .. q /\ i = p + 1 + (i - (p + 1))
      <3>1. both[i] = second[i - (p + 1)]
        BY <1>2, <2>2
      <3> QED BY <1>6, <2>2, <3>1, PassFacts DEF q
    <2> QED BY <1>4, <2>1, <2>2
  <1>7. /\ (p + 1) + 1 <= Len(both) /\ IsSend(both[(p + 1) + 1], "W")
        /\ Reboots(both, (p + 1) + 1, "all")
    <2>1. (p + 1) + 1 <= Len(both) /\ both[p + 1 + 1] = second[1]
      BY <1>1, <1>2
    <2>2. IsSend(second[1], "W")
      BY DEF PassShape, IsSend
    <2>3. p + 1 + (q - 1) \in (p + 1 + 1) + 1 .. Len(both) /\ q - 1 \in 1 .. q
      BY <1>1, <1>2
    <2>4. \A k \in (p + 1 + 1) + 1 .. (p + 1 + (q - 1)) - 1 :
            /\ k - (p + 1) \in 2 .. q - 2 /\ k - (p + 1) \in 1 .. q
            /\ k = p + 1 + (k - (p + 1))
      BY <1>2
    <2>5. IsSend(both[p + 1 + (q - 1)], "E")
      BY <1>2, <2>3 DEF PassShape, q
    <2>6. \A k \in 2 .. q - 2 : Passing(second[k], "all")
      BY DEF PassShape, q
    <2>7. \A k \in (p + 1 + 1) + 1 .. (p + 1 + (q - 1)) - 1 : Passing(both[k], "all")
      BY <1>2, <2>4, <2>6
    <2>8. Reboots(both, p + 1 + 1, "all")
      BY <2>3, <2>5, <2>7 DEF Reboots
    <2> QED BY <2>1, <2>2, <2>8
  <1>8. both[(p + 1) - 1].do = "sleep" /\ p + 1 \in 1 .. Len(both)
    <2>1. (p + 1) - 1 = p /\ p \in 1 .. p /\ p + 1 \in 1 .. Len(both)
      BY <1>1, <1>2
    <2> QED BY <1>2, <2>1 DEF PassShape, p
  <1>9. ASSUME NEW i \in 2 .. Len(both), both[i].do = "send", both[i].cmd.c = "W"
        PROVE  both[i - 1].do = "fallback"
    <2>0. i \in 1 .. Len(both)
      BY <1>2
    <2>1. CASE i \in 1 .. p
      BY <1>2, <1>9, <2>1, PassFacts DEF p
    <2>2. CASE i - (p + 1) \in 1 .. q /\ i = p + 1 + (i - (p + 1))
      <3>1. both[i] = second[i - (p + 1)]
        BY <1>2, <2>2
      <3>2. i - (p + 1) = 1
        BY <1>9, <2>2, <3>1, PassFacts DEF q
      <3>3. i - 1 = p + 1
        BY <1>2, <3>2
      <3> QED BY <1>3, <3>3
    <2> QED BY <1>3, <1>4, <1>9, <2>0, <2>1, <2>2
  <1>10. \A i \in 2 .. Len(both) : i \in 1 .. Len(both)
    BY <1>2
  <1>11. Shaped(both)
    BY <1>5, <1>6, <1>7, <1>8, <1>9, <1>10 DEF Shaped
  <1> QED BY <1>3, <1>8, <1>11 DEF both

LEMMA StepParts ==
    /\ \A c \in {"X", "W", "L", "E"} :
         /\ Send(Cmd(c)) \in Steps /\ Send(Cmd(c)).do = "send" /\ Send(Cmd(c)).to = "target"
         /\ Send(Cmd(c)).cmd.c = c /\ Send(Cmd(c)).cmd.field = ""
    /\ \A do \in {"collect", "drain", "sleep", "fallback"} : Do(do) \in Steps /\ Do(do).do = do
  <1>1. \A c \in {"X", "W", "L", "E"} : Cmd(c) \in Commands
    BY CommandTypes
  <1>2. \A c \in {"X", "W", "L", "E"} : Send(Cmd(c)) \in Steps
    BY <1>1, StepTypes
  <1> QED BY <1>2, StepTypes DEF Send, Do, Step, Cmd

LEMMA SendsParts ==
    ASSUME NEW order \in Seq(Fields)
    PROVE  /\ Sends(order) \in Seq(Steps) /\ Len(Sends(order)) = Len(order)
           /\ \A i \in 1 .. Len(order) :
                /\ Sends(order)[i] = Send(Set(order[i]))
                /\ Sends(order)[i].do = "send" /\ Sends(order)[i].to = "target"
                /\ Sends(order)[i].cmd.c = "S" /\ Sends(order)[i].cmd.field = order[i]
  <1>1. Len(order) \in Nat
    OBVIOUS
  <1>2. Len(Sends(order)) = Len(order)
    BY <1>1 DEF Sends
  <1>3. ASSUME NEW i \in 1 .. Len(order)
        PROVE  /\ Sends(order)[i] = Send(Set(order[i]))
               /\ Sends(order)[i].do = "send" /\ Sends(order)[i].to = "target"
               /\ Sends(order)[i].cmd.c = "S" /\ Sends(order)[i].cmd.field = order[i]
    BY DEF Sends, Send, Set, Step
  <1>4. Sends(order) \in Seq(Steps)
    <2>1. Sends(order) \in Seq(Straight) /\ Straight \subseteq Steps
      BY SilentBlocks, SendsOf DEF Straight, Silent
    <2> QED BY <2>1
  <1> QED BY <1>2, <1>3, <1>4

\* n settings between what opens a pass and what ends it.
LEMMA Surrounded ==
    ASSUME NEW S, NEW before \in Seq(S), NEW middle \in Seq(S), NEW after \in Seq(S)
    PROVE  /\ before \o middle \o after \in Seq(S)
           /\ Len(before \o middle \o after) = Len(before) + Len(middle) + Len(after)
           /\ \A i \in 1 .. Len(before) : (before \o middle \o after)[i] = before[i]
           /\ \A i \in 1 .. Len(middle) :
                (before \o middle \o after)[Len(before) + i] = middle[i]
           /\ \A i \in 1 .. Len(after) :
                (before \o middle \o after)[Len(before) + Len(middle) + i] = after[i]
  OBVIOUS

LEMMA Preceded ==
    ASSUME NEW S, NEW first \in S, NEW seq \in Seq(S)
    PROVE  /\ <<first>> \o seq \in Seq(S) /\ Len(<<first>> \o seq) = Len(seq) + 1
           /\ (<<first>> \o seq)[1] = first
           /\ \A i \in 1 .. Len(seq) : (<<first>> \o seq)[i + 1] = seq[i]
  OBVIOUS

\* Where the commands of a pass of save_config() are; with a W in front, by 1
\* further.
LEMMA ConfigPassAt ==
    /\ SetOrder \in Seq(Fields) /\ Len(SetOrder) \in Nat
    /\ send_config_pass \in Seq(Steps) /\ Len(send_config_pass) = Len(SetOrder) + 3
    /\ send_config_pass[1] = Send(Cmd("L"))
    /\ \A i \in 1 .. Len(SetOrder) : send_config_pass[1 + i] = Send(Set(SetOrder[i]))
    /\ send_config_pass[Len(SetOrder) + 2] = Send(Cmd("E"))
    /\ send_config_pass[Len(SetOrder) + 3] = Do("sleep")
  <1> DEFINE before == <<Send(Cmd("L"))>>
             middle == Sends(SetOrder)
             after  == <<Send(Cmd("E")), Do("sleep")>>
             n      == Len(SetOrder)
  <1>1. SetOrder \in Seq(Fields) /\ n \in Nat
    BY SetOrderType
  <1>2. /\ before \in Seq(Steps) /\ after \in Seq(Steps) /\ Len(before) = 1 /\ Len(after) = 2
        /\ before[1] = Send(Cmd("L")) /\ after[1] = Send(Cmd("E")) /\ after[2] = Do("sleep")
    <2>1. Send(Cmd("L")) \in Steps /\ Send(Cmd("E")) \in Steps /\ Do("sleep") \in Steps
      BY StepParts
    <2> QED BY <2>1
  <1>3. /\ middle \in Seq(Steps) /\ Len(middle) = n
        /\ \A i \in 1 .. n : middle[i] = Send(Set(SetOrder[i]))
    BY <1>1, SendsParts
  <1>4. send_config_pass = before \o middle \o after
    BY DEF send_config_pass
  <1> HIDE DEF before, middle, after, n
  <1>5. /\ send_config_pass \in Seq(Steps)
        /\ Len(send_config_pass) = Len(before) + Len(middle) + Len(after)
        /\ \A i \in 1 .. Len(before) : send_config_pass[i] = before[i]
        /\ \A i \in 1 .. Len(middle) : send_config_pass[Len(before) + i] = middle[i]
        /\ \A i \in 1 .. Len(after) :
             send_config_pass[Len(before) + Len(middle) + i] = after[i]
    <2>1. before \in Seq(Steps) /\ middle \in Seq(Steps) /\ after \in Seq(Steps)
      BY <1>2, <1>3
    <2> QED BY ONLY <2>1, <1>4, Surrounded
  <1>6. /\ Len(send_config_pass) = n + 3 /\ send_config_pass[1] = before[1]
        /\ \A i \in 1 .. n : send_config_pass[1 + i] = middle[i]
        /\ send_config_pass[1 + n + 1] = after[1] /\ send_config_pass[1 + n + 2] = after[2]
    BY <1>1, <1>2, <1>3, <1>5
  <1>7. 1 + n + 1 = n + 2 /\ 1 + n + 2 = n + 3
    BY <1>1
  <1> QED BY <1>1, <1>2, <1>3, <1>5, <1>6, <1>7 DEF n

LEMMA ConfigPassShape ==
    /\ PassShape(send_config_pass) /\ send_config_pass[1].cmd.c = "L"
    /\ PassShape(<<Send(Cmd("W"))>> \o send_config_pass)
    /\ (<<Send(Cmd("W"))>> \o send_config_pass)[1].cmd.c = "W"
  <1> DEFINE pass == send_config_pass
             n == Len(SetOrder)
             second == <<Send(Cmd("W"))>> \o pass
  <1>1. /\ n \in Nat /\ pass \in Seq(Steps) /\ Len(pass) = n + 3 /\ pass[1] = Send(Cmd("L"))
        /\ \A i \in 1 .. n : pass[1 + i] = Send(Set(SetOrder[i])) /\ SetOrder[i] \in Fields
        /\ pass[n + 2] = Send(Cmd("E")) /\ pass[n + 3] = Do("sleep")
    BY ConfigPassAt
  <1>2. \A field \in Fields : Passing(Send(Set(field)), "all")
    BY DEF Passing, Mild, Send, Set, Step
  <1>3. Passing(Send(Cmd("L")), "all") /\ IsSend(Send(Cmd("E")), "E")
    BY StepParts DEF Passing, Mild, IsSend
  <1>4. /\ second \in Seq(Steps) /\ Len(second) = n + 4 /\ second[1] = Send(Cmd("W"))
        /\ \A i \in 1 .. n + 3 : second[i + 1] = pass[i]
    <2>1. Send(Cmd("W")) \in Steps
      BY StepParts
    <2>2. /\ second \in Seq(Steps) /\ Len(second) = Len(pass) + 1
          /\ second[1] = Send(Cmd("W")) /\ \A i \in 1 .. Len(pass) : second[i + 1] = pass[i]
      BY <1>1, <2>1, Preceded
    <2> QED BY <1>1, <2>2
  <1> HIDE DEF pass, n, second
  <1>5. ASSUME NEW k \in 2 .. Len(pass) - 2 PROVE Passing(pass[k], "all")
    <2>1. k - 1 \in 1 .. n /\ k = 1 + (k - 1)
      BY <1>1
    <2> QED BY <1>1, <1>2, <2>1
  <1>6. ASSUME NEW k \in 2 .. Len(second) - 2 PROVE Passing(second[k], "all")
    <2>1. k - 1 \in 1 .. n + 3 /\ k = (k - 1) + 1 /\ second[k] = pass[k - 1]
      BY <1>1, <1>4
    <2>2. k - 1 = 1 \/ (k - 1) \in 2 .. Len(pass) - 2
      BY <1>1, <1>4
    <2> QED BY <1>1, <1>3, <1>5, <2>1, <2>2
  <1>7. PassShape(pass)
    <2>1. Len(pass) - 1 = n + 2 /\ Len(pass) >= 3
      BY <1>1
    <2> QED BY <1>1, <1>3, <1>5, <2>1, StepParts DEF PassShape
  <1>8. PassShape(second)
    <2>1. Len(second) - 1 = (n + 2) + 1 /\ Len(second) = (n + 3) + 1 /\ Len(second) >= 3
          /\ n + 2 \in 1 .. n + 3 /\ n + 3 \in 1 .. n + 3
      BY <1>1, <1>4
    <2> QED BY <1>1, <1>3, <1>4, <1>6, <2>1, StepParts DEF PassShape
  <1>9. pass[1].cmd.c = "L" /\ second[1].cmd.c = "W"
    BY <1>1, <1>4, StepParts
  <1> QED BY <1>7, <1>8, <1>9 DEF pass, second

LEMMA NetworkPassShape ==
    ASSUME NEW opener \in {"X", "W"}
    PROVE  PassShape(push_network(opener)) /\ push_network(opener)[1].cmd.c = opener
  <1> DEFINE order  == Chosen(<<"gateway_ip", "subnet_mask", "ip_address">>)
             m      == Len(order)
             before == <<Send(Cmd(opener)), Send(Cmd("L")), Do("drain")>>
             middle == Sends(order)
             after  == <<Do("drain"), Send(Cmd("E")), Do("sleep")>>
             pass   == push_network(opener)
  <1>1. order \in Seq(Fields) /\ m \in Nat
    <2>1. <<"gateway_ip", "subnet_mask", "ip_address">> \in
            Seq({"gateway_ip", "subnet_mask", "ip_address"})
      OBVIOUS
    <2>2. order \in Seq(Fields)
      BY <2>1, ChosenType
    <2> HIDE DEF order
    <2> QED BY <2>2
  <1>2. /\ before \in Seq(Steps) /\ after \in Seq(Steps) /\ Len(before) = 3 /\ Len(after) = 3
        /\ before[1] = Send(Cmd(opener)) /\ before[2] = Send(Cmd("L")) /\ before[3] = Do("drain")
        /\ after[1] = Do("drain") /\ after[2] = Send(Cmd("E")) /\ after[3] = Do("sleep")
    <2>1. /\ Send(Cmd(opener)) \in Steps /\ Send(Cmd("L")) \in Steps /\ Send(Cmd("E")) \in Steps
          /\ Do("drain") \in Steps /\ Do("sleep") \in Steps
      BY StepParts
    <2> QED BY <2>1
  <1>3. /\ middle \in Seq(Steps) /\ Len(middle) = m
        /\ \A i \in 1 .. m : middle[i] = Send(Set(order[i])) /\ order[i] \in Fields
    BY <1>1, SendsParts
  <1>4. pass = before \o middle \o after
    BY DEF push_network
  <1> HIDE DEF before, middle, after, m, order, pass
  <1>5. /\ pass \in Seq(Steps) /\ Len(pass) = Len(before) + Len(middle) + Len(after)
        /\ \A i \in 1 .. Len(before) : pass[i] = before[i]
        /\ \A i \in 1 .. Len(middle) : pass[Len(before) + i] = middle[i]
        /\ \A i \in 1 .. Len(after) : pass[Len(before) + Len(middle) + i] = after[i]
    <2>1. before \in Seq(Steps) /\ middle \in Seq(Steps) /\ after \in Seq(Steps)
      BY <1>2, <1>3
    <2> QED BY ONLY <2>1, <1>4, Surrounded
  <1>6. /\ Len(pass) = m + 6 /\ pass[1] = before[1] /\ pass[2] = before[2] /\ pass[3] = before[3]
        /\ \A i \in 1 .. m : pass[3 + i] = middle[i]
        /\ pass[3 + m + 1] = after[1] /\ pass[3 + m + 2] = after[2] /\ pass[3 + m + 3] = after[3]
    BY <1>1, <1>2, <1>3, <1>5
  <1>7. \A field \in Fields : Passing(Send(Set(field)), "all")
    BY DEF Passing, Mild, Send, Set, Step
  <1>8. Passing(Send(Cmd("L")), "all") /\ IsSend(Send(Cmd("E")), "E") /\ Passing(Do("drain"), "all")
    BY StepParts DEF Passing, Mild, IsSend
  <1>9. ASSUME NEW k \in 2 .. Len(pass) - 2 PROVE Passing(pass[k], "all")
    <2>1. k = 2 \/ k = 3 \/ k = 3 + m + 1 \/ (k - 3 \in 1 .. m /\ k = 3 + (k - 3))
      BY <1>1, <1>6
    <2>2. CASE k - 3 \in 1 .. m /\ k = 3 + (k - 3)
      BY <1>3, <1>6, <1>7, <2>2
    <2> QED BY <1>2, <1>6, <1>8, <2>1, <2>2
  <1>10. PassShape(pass) /\ pass[1].cmd.c = opener
    <2>1. Len(pass) - 1 = 3 + m + 2 /\ Len(pass) = 3 + m + 3 /\ Len(pass) >= 3
      BY <1>1, <1>6
    <2>2. pass[1].do = "send" /\ pass[1].to = "target" /\ pass[1].cmd.c = opener
      BY <1>2, <1>6, StepParts
    <2>3. pass[Len(pass)].do = "sleep"
      BY <1>2, <1>6, <2>1, StepParts
    <2> QED BY <1>2, <1>5, <1>6, <1>8, <1>9, <2>1, <2>2, <2>3 DEF PassShape
  <1> QED BY <1>10 DEF pass
-----------------------------------------------------------------------------
(* What is left of a script, with regard to the call it belongs to.        *)

Doing(seq, do) == \E i \in 1 .. Len(seq) : seq[i].do = do

Setting(seq, field) ==
    \E i \in 1 .. Len(seq) : seq[i].do = "send" /\ seq[i].cmd.c = "S" /\ seq[i].cmd.field = field

\* For seq, what is left of method on a device with the target.
Fitting(method, target, seq) ==
    /\ Shaped(seq)
    /\ Doing(seq, "fallback") => method \in {"save_config", "change_network"} /\ target # "all"
    /\ \A field \in Fields : Setting(seq, field) => method \in Writers
    /\ Doing(seq, "drain") => method = "change_network"
    /\ method = "set_dhcp" => ~Setting(seq, "ip_address")

LEMMA FittingTail ==
    ASSUME NEW method, NEW target, NEW seq \in Seq(Steps), seq # <<>>,
           Fitting(method, target, seq)
    PROVE  Fitting(method, target, Tail(seq))
  <1> DEFINE rest == Tail(seq)
  <1>1. /\ Len(seq) \in Nat /\ Len(rest) = Len(seq) - 1
        /\ \A k \in 1 .. Len(seq) - 1 : rest[k] = seq[k + 1]
    BY TailIs
  <1> HIDE DEF rest
  <1>2. \A i \in 1 .. Len(rest) : i + 1 \in 1 .. Len(seq) /\ rest[i] = seq[i + 1]
    BY <1>1
  <1>3. \A do : Doing(rest, do) => Doing(seq, do)
    BY <1>2 DEF Doing
  <1>4. \A field : Setting(rest, field) => Setting(seq, field)
    BY <1>2 DEF Setting
  <1>5. Shaped(rest)
    BY ShapedTail DEF Fitting, rest
  <1>6. Fitting(method, target, rest)
    BY <1>3, <1>4, <1>5 DEF Fitting
  <1> QED BY <1>6 DEF rest

\* Scripts that write nothing.
LEMMA PlainFitting ==
    ASSUME NEW method, NEW target, NEW seq,
           \A i \in 1 .. Len(seq) :
             /\ seq[i].do \notin {"fallback", "drain"}
             /\ seq[i].do = "send" => seq[i].cmd.c \in {"X", "E"},
           Len(seq) \in Nat
    PROVE  Fitting(method, target, seq)
  <1>1. \A i \in 2 .. Len(seq) : i \in 1 .. Len(seq)
    OBVIOUS
  <1>2. Shaped(seq)
    BY <1>1 DEF Shaped
  <1>3. ~Doing(seq, "fallback") /\ ~Doing(seq, "drain") /\ \A field : ~Setting(seq, field)
    BY DEF Doing, Setting
  <1> QED BY <1>2, <1>3 DEF Fitting

LEMMA DhcpFitting ==
    /\ Fitting("set_dhcp", device.target, set_dhcp)
    /\ set_dhcp[1].do # "fallback"
  <1> DEFINE order  == Chosen(<<"dhcp">>)
             m      == Len(order)
             before == <<Send(Cmd("L"))>>
             middle == Sends(order)
             after  == <<Send(Cmd("E"))>>
  <1>1. order \in Seq(Fields) /\ order \in Seq({"dhcp"})
    <2>1. <<"dhcp">> \in Seq({"dhcp"})
      OBVIOUS
    <2>2. order \in Seq(Fields)
      BY <2>1, ChosenType
    <2>3. order \in Seq({"dhcp"} \cap Fields)
      BY <2>1, SelectType DEF Chosen
    <2> HIDE DEF order
    <2> QED BY <2>2, <2>3
  <1>2. /\ before \in Seq(Steps) /\ after \in Seq(Steps) /\ Len(before) = 1 /\ Len(after) = 1
        /\ before[1] = Send(Cmd("L")) /\ after[1] = Send(Cmd("E"))
    <2>1. Send(Cmd("L")) \in Steps /\ Send(Cmd("E")) \in Steps
      BY StepParts
    <2> QED BY <2>1
  <1>3. /\ middle \in Seq(Steps) /\ Len(middle) = m
        /\ \A i \in 1 .. m :
             /\ middle[i].do = "send" /\ middle[i].to = "target"
             /\ middle[i].cmd.c = "S" /\ middle[i].cmd.field = order[i]
    BY <1>1, SendsParts
  <1>4. set_dhcp = before \o middle \o after
    BY DEF set_dhcp
  <1> HIDE DEF before, middle, after, order
  <1>5. m \in Nat /\ \A i \in 1 .. m : order[i] = "dhcp"
    BY <1>1
  <1> HIDE DEF m
  <1>6. /\ Len(set_dhcp) = Len(before) + Len(middle) + Len(after)
        /\ \A i \in 1 .. Len(before) : set_dhcp[i] = before[i]
        /\ \A i \in 1 .. Len(middle) : set_dhcp[Len(before) + i] = middle[i]
        /\ \A i \in 1 .. Len(after) : set_dhcp[Len(before) + Len(middle) + i] = after[i]
    <2>1. before \in Seq(Steps) /\ middle \in Seq(Steps) /\ after \in Seq(Steps)
      BY <1>2, <1>3
    <2> QED BY ONLY <2>1, <1>4, Surrounded
  <1>7. /\ Len(set_dhcp) = m + 2 /\ set_dhcp[1] = before[1]
        /\ \A i \in 1 .. m : set_dhcp[1 + i] = middle[i]
        /\ set_dhcp[1 + m + 1] = after[1]
    BY <1>2, <1>3, <1>5, <1>6
  <1>8. ASSUME NEW i \in 1 .. Len(set_dhcp)
        PROVE  i = 1 \/ (i \in 2 .. m + 1 /\ i - 1 \in 1 .. m /\ i = 1 + (i - 1)) \/ i = 1 + m + 1
    BY <1>5, <1>7
  <1>9. ASSUME NEW i \in 2 .. m + 1
        PROVE  /\ set_dhcp[i].do = "send" /\ set_dhcp[i].to = "target"
               /\ set_dhcp[i].cmd.c = "S" /\ set_dhcp[i].cmd.field = "dhcp"
    <2>1. i - 1 \in 1 .. m /\ i = 1 + (i - 1)
      BY <1>5
    <2>2. set_dhcp[1 + (i - 1)] = middle[i - 1]
      BY <1>7, <2>1
    <2>3. set_dhcp[i] = middle[i - 1]
      BY <2>1, <2>2
    <2>4. order[i - 1] = "dhcp"
      BY <1>5, <2>1
    <2> QED BY <1>3, <2>1, <2>3, <2>4
  <1>10. /\ set_dhcp[1].do = "send" /\ set_dhcp[1].cmd.c = "L"
         /\ IsSend(set_dhcp[1 + m + 1], "E")
    BY <1>2, <1>7, StepParts DEF IsSend
  <1>11. ASSUME NEW i \in 1 .. Len(set_dhcp)
         PROVE  /\ set_dhcp[i].do = "send" /\ set_dhcp[i].cmd.c # "W"
                /\ set_dhcp[i].cmd.c = "S" =>
                     i \in 2 .. m + 1 /\ set_dhcp[i].to = "target" /\ set_dhcp[i].cmd.field = "dhcp"
    BY <1>8, <1>9, <1>10 DEF IsSend
  <1>12. ASSUME NEW i \in 2 .. m + 1 PROVE Reboots(set_dhcp, i, "all")
    <2>1. 1 + m + 1 \in i + 1 .. Len(set_dhcp)
      BY <1>5, <1>7
    <2>2. \A k \in i + 1 .. (1 + m + 1) - 1 : k \in 2 .. m + 1
      BY <1>5
    <2>3. \A k \in i + 1 .. (1 + m + 1) - 1 : Passing(set_dhcp[k], "all")
      BY <1>9, <2>2 DEF Passing, Mild
    <2> QED BY <1>10, <2>1, <2>3 DEF Reboots
  <1>13. \A i \in 2 .. Len(set_dhcp) : i \in 1 .. Len(set_dhcp)
    BY <1>5, <1>7
  <1>14. Shaped(set_dhcp)
    BY <1>11, <1>12, <1>13 DEF Shaped
  <1>15. /\ ~Doing(set_dhcp, "fallback") /\ ~Doing(set_dhcp, "drain")
         /\ ~Setting(set_dhcp, "ip_address")
    BY <1>11 DEF Doing, Setting
  <1> QED BY <1>10, <1>14, <1>15 DEF Fitting, Writers

LEMMA TwoPassFitting ==
    ASSUME NEW method \in {"save_config", "change_network"}, NEW first, NEW second,
           PassShape(first), first[1].cmd.c # "W", PassShape(second), second[1].cmd.c = "W",
           method = "change_network" \/ (~Doing(first, "drain") /\ ~Doing(second, "drain")),
           NEW all, all = first \o SecondPass(second)
    PROVE  /\ Fitting(method, device.target, all) /\ all[1].do # "fallback"
           /\ device.target # "all" => Doing(all, "fallback")
  <1>1. /\ first \in Seq(Steps) /\ second \in Seq(Steps) /\ Len(first) >= 3
        /\ Do("fallback") \in Steps /\ Do("fallback").do = "fallback"
    BY StepParts DEF PassShape
  <1>2. first[1].do # "fallback"
    BY DEF PassShape
  <1>3. CASE device.target = "all"
    <2>1. all = first
      BY <1>1, <1>3 DEF SecondPass
    <2>2. Shaped(all) /\ ~Doing(all, "fallback")
      BY <2>1, PassShaped DEF Doing
    <2> QED BY <1>2, <1>3, <2>1, <2>2 DEF Fitting, Writers
  <1>4. CASE device.target # "all"
    <2>1. all = first \o (<<Do("fallback")>> \o second)
      BY <1>4 DEF SecondPass
    <2>2. Shaped(all) /\ Doing(all, "fallback")
      BY <2>1, TwoPassesShaped DEF Doing
    <2>3. all[1] = first[1]
      BY <1>1, <2>1
    <2>4. Doing(all, "drain") => Doing(first, "drain") \/ Doing(second, "drain")
      <3> DEFINE tail == <<Do("fallback")>> \o second
      <3>1. tail \in Seq(Steps) /\ Len(tail) = Len(second) + 1 /\ tail[1] = Do("fallback")
            /\ \A i \in 1 .. Len(second) : tail[i + 1] = second[i]
        BY <1>1, Preceded
      <3> HIDE DEF tail
      <3>2. all = first \o tail
        BY <2>1 DEF tail
      <3>3. \A i \in 1 .. Len(all) :
              \/ i \in 1 .. Len(first) /\ all[i] = first[i]
              \/ i - Len(first) \in 1 .. Len(tail) /\ all[i] = tail[i - Len(first)]
        BY <1>1, <3>1, <3>2
      <3>4. \A i \in 1 .. Len(tail) :
              \/ tail[i] = Do("fallback")
              \/ i - 1 \in 1 .. Len(second) /\ tail[i] = second[i - 1]
        <4>1. Len(second) \in Nat
          BY <1>1
        <4>2. \A i \in 1 .. Len(tail) : i = 1 \/ (i - 1 \in 1 .. Len(second) /\ i = (i - 1) + 1)
          BY <3>1, <4>1
        <4> QED BY <3>1, <4>2
      <3> QED BY <1>1, <3>3, <3>4 DEF Doing
    <2> QED BY <1>2, <1>4, <2>2, <2>3, <2>4 DEF Fitting, Writers
  <1> QED BY <1>3, <1>4

LEMMA OfEither ==
    ASSUME NEW S, NEW s \in Seq(S), NEW t \in Seq(S), NEW i \in 1 .. Len(s \o t)
    PROVE  \/ \E j \in 1 .. Len(s) : (s \o t)[i] = s[j]
           \/ \E j \in 1 .. Len(t) : (s \o t)[i] = t[j]
  <1>1. i \in 1 .. Len(s) \/ (i - Len(s) \in 1 .. Len(t) /\ i = Len(s) + (i - Len(s)))
    OBVIOUS
  <1>2. CASE i \in 1 .. Len(s)
    BY <1>2
  <1>3. CASE i - Len(s) \in 1 .. Len(t) /\ i = Len(s) + (i - Len(s))
    <2>1. (s \o t)[i] = t[i - Len(s)]
      BY <1>3
    <2> QED BY <1>3, <2>1
  <1> QED BY <1>1, <1>2, <1>3

LEMMA ScriptFitting ==
    ASSUME NEW method \in AllMethods
    PROVE  /\ Fitting(method, device.target, Script(method))
           /\ Script(method) # <<>> => Script(method)[1].do # "fallback"
           /\ method \in {"save_config", "change_network"} /\ device.target # "all" =>
                Doing(Script(method), "fallback")
  <1>0. method = "search" \/ method = "search_targets" \/ method = "connect" \/
        method = "get_config" \/ method = "save_config" \/ method = "change_network" \/
        method = "set_dhcp" \/ method = "reboot"
    BY DEF AllMethods
  <1>1. CASE method \in {"search", "search_targets", "connect", "get_config", "reboot"}
    <2> DEFINE Plain(step) == /\ step.do \notin {"fallback", "drain"}
                              /\ step.do = "send" => step.cmd.c \in {"X", "E"}
               seq == Script(method)
    <2>1. seq \in Seq(Steps) /\ Len(seq) \in Nat
      BY ScriptType
    <2>2. /\ Plain(Send(Cmd("X"))) /\ Plain(Send(Cmd("E"))) /\ Plain(Do("collect"))
          /\ Plain(SendTo(Cmd("X"), "old")) /\ Plain(SendTo(Cmd("X"), "new"))
          /\ \A cmd, retries : Plain(Request(cmd, retries))
      BY DEF Send, SendTo, Request, Do, Step, Cmd
    <2>3. \A i \in 1 .. Len(seq) : Plain(seq[i])
      <3> HIDE DEF Plain
      <3>1. CASE method = "search"
        BY <2>2, <3>1 DEF Script, search
      <3>2. CASE method = "search_targets"
        BY <2>2, <3>2 DEF Script, search_targets
      <3>3. CASE method = "connect"
        <4> DEFINE start == IF device.mac = NoMac THEN search ELSE <<>>
                   end == <<Request(Cmd("W"), ConnectRetries), Request(Cmd("L"), ConnectRetries)>>
        <4>1. seq = start \o end
          BY <3>3 DEF Script, connect
        <4>2. /\ Send(Cmd("X")) \in Steps /\ Do("collect") \in Steps
              /\ Request(Cmd("W"), ConnectRetries) \in Steps
              /\ Request(Cmd("L"), ConnectRetries) \in Steps
          <5>1. /\ Cmd("W") \in Commands /\ Cmd("L") \in Commands
                /\ Cmd("W").c # "S" /\ Cmd("L").c # "S"
            BY CommandTypes DEF Cmd
          <5> QED BY <5>1, StepTypes, StepParts
        <4>3. start \in Seq(Steps) /\ \A i \in 1 .. Len(start) : Plain(start[i])
          BY <2>2, <4>2 DEF search
        <4>4. end \in Seq(Steps) /\ \A i \in 1 .. Len(end) : Plain(end[i])
          BY <2>2, <4>2
        <4> HIDE DEF start, end, seq
        <4>5. ASSUME NEW i \in 1 .. Len(seq) PROVE Plain(seq[i])
          <5>1. \/ \E j \in 1 .. Len(start) : seq[i] = start[j]
                \/ \E j \in 1 .. Len(end) : seq[i] = end[j]
            BY <4>1, <4>3, <4>4, OfEither
          <5> QED BY <4>3, <4>4, <5>1
        <4> QED BY <4>5
      <3>4. CASE method = "get_config"
        <4>1. seq = [i \in 1 .. Len(Settings) |-> Request(Get(Settings[i][1]), Retries)]
          BY <3>4 DEF Script, get_config
        <4>2. Len(Settings) \in Nat
          BY SettingsType
        <4> HIDE DEF seq
        <4>3. Len(seq) = Len(Settings)
          BY <4>1, <4>2
        <4> QED BY <2>2, <4>1, <4>3
      <3>5. CASE method = "reboot"
        BY <2>2, <3>5 DEF Script, reboot
      <3> QED BY <1>1, <3>1, <3>2, <3>3, <3>4, <3>5
    <2> HIDE DEF seq
    <2>4. Fitting(method, device.target, seq)
      BY <2>1, <2>3, PlainFitting
    <2>5. seq # <<>> => seq[1].do # "fallback"
      BY <2>1, <2>3
    <2> QED BY <1>1, <2>4, <2>5 DEF seq
  <1>2. CASE method = "save_config"
    <2> DEFINE second == <<Send(Cmd("W"))>> \o send_config_pass
    <2>1. Script(method) = send_config_pass \o SecondPass(second)
      BY <1>2 DEF Script, save_config
    <2>2. ~Doing(send_config_pass, "drain") /\ ~Doing(second, "drain")
      <3> DEFINE pass == send_config_pass
                 n == Len(SetOrder)
      <3>1. /\ n \in Nat /\ pass \in Seq(Steps) /\ Len(pass) = n + 3 /\ pass[1] = Send(Cmd("L"))
            /\ \A i \in 1 .. n : pass[1 + i] = Send(Set(SetOrder[i]))
            /\ pass[n + 2] = Send(Cmd("E")) /\ pass[n + 3] = Do("sleep")
        BY ConfigPassAt
      <3>2. /\ \A cmd : Send(cmd).do = "send"
            /\ Do("sleep").do = "sleep" /\ Send(Cmd("W")) \in Steps
        BY StepParts DEF Send, Step
      <3>3. /\ Len(second) = Len(pass) + 1 /\ second[1] = Send(Cmd("W"))
            /\ \A i \in 1 .. Len(pass) : second[i + 1] = pass[i]
        BY <3>1, <3>2, Preceded
      <3> HIDE DEF pass, n, second
      <3>4. ASSUME NEW i \in 1 .. Len(pass) PROVE pass[i].do # "drain"
        <4>1. i = 1 \/ (i - 1 \in 1 .. n /\ i = 1 + (i - 1)) \/ i = n + 2 \/ i = n + 3
          BY <3>1
        <4>2. CASE i - 1 \in 1 .. n /\ i = 1 + (i - 1)
          <5>1. pass[1 + (i - 1)] = Send(Set(SetOrder[i - 1]))
            BY <3>1, <4>2
          <5>2. pass[i] = Send(Set(SetOrder[i - 1]))
            BY <4>2, <5>1
          <5> QED BY <3>2, <5>2
        <4> QED BY <3>1, <3>2, <4>1, <4>2
      <3>5. ASSUME NEW i \in 1 .. Len(second) PROVE second[i].do # "drain"
        <4>1. i = 1 \/ (i - 1 \in 1 .. Len(pass) /\ i = (i - 1) + 1)
          BY <3>1, <3>3
        <4>2. CASE i - 1 \in 1 .. Len(pass) /\ i = (i - 1) + 1
          <5>1. second[(i - 1) + 1] = pass[i - 1]
            BY <3>3, <4>2
          <5> QED BY <3>4, <4>2, <5>1
        <4> QED BY <3>2, <3>3, <4>1, <4>2
      <3> QED BY <3>4, <3>5 DEF Doing, pass
    <2>3. /\ PassShape(send_config_pass) /\ send_config_pass[1].cmd.c # "W"
          /\ PassShape(second) /\ second[1].cmd.c = "W"
      BY ConfigPassShape
    <2> HIDE DEF second
    <2>4. /\ Fitting(method, device.target, Script(method)) /\ Script(method)[1].do # "fallback"
          /\ device.target # "all" => Doing(Script(method), "fallback")
      BY <1>2, <2>1, <2>2, <2>3, TwoPassFitting
    <2> QED BY <2>4
  <1>3. CASE method = "change_network"
    <2>1. Script(method) = push_network("X") \o SecondPass(push_network("W"))
      BY <1>3 DEF Script, change_network
    <2>2. /\ PassShape(push_network("X")) /\ push_network("X")[1].cmd.c # "W"
          /\ PassShape(push_network("W")) /\ push_network("W")[1].cmd.c = "W"
      BY NetworkPassShape
    <2>3. /\ Fitting(method, device.target, Script(method)) /\ Script(method)[1].do # "fallback"
          /\ device.target # "all" => Doing(Script(method), "fallback")
      BY <1>3, <2>1, <2>2, TwoPassFitting
    <2> QED BY <2>3
  <1>4. CASE method = "set_dhcp"
    BY <1>4, DhcpFitting DEF Script
  <1> QED BY <1>0, <1>1, <1>2, <1>3, <1>4
-----------------------------------------------------------------------------
\* The script is what is left of the call under way, and has its second pass still
\* before it or is in it.
Scripted ==
    /\ op = "none" => via = "main"
    /\ op # "none" => Fitting(op, device.target, script)
    /\ via = "fallback" =>
         /\ op \in {"save_config", "change_network"} /\ device.target # "all"
         /\ ~Doing(script, "fallback")
    /\ via = "main" /\ op \in {"save_config", "change_network"} /\ device.target # "all" =>
         Doing(script, "fallback")

LEMMA DoingTail ==
    ASSUME NEW seq \in Seq(Steps), seq # <<>>, NEW do
    PROVE  /\ Doing(Tail(seq), do) => Doing(seq, do)
           /\ Doing(seq, do) /\ Head(seq).do # do => Doing(Tail(seq), do)
  <1> DEFINE rest == Tail(seq)
  <1>1. /\ Len(seq) \in Nat /\ Len(rest) = Len(seq) - 1 /\ Head(seq) = seq[1]
        /\ \A k \in 1 .. Len(seq) - 1 : rest[k] = seq[k + 1]
    BY TailIs
  <1> HIDE DEF rest
  <1>2. \A i \in 1 .. Len(rest) : i + 1 \in 1 .. Len(seq) /\ rest[i] = seq[i + 1]
    BY <1>1
  <1>3. \A i \in 1 .. Len(seq) :
          i = 1 \/ (i - 1 \in 1 .. Len(rest) /\ rest[i - 1] = seq[(i - 1) + 1] /\ (i - 1) + 1 = i)
    BY <1>1
  <1>4. Doing(rest, do) => Doing(seq, do)
    BY <1>2 DEF Doing
  <1>5. Doing(seq, do) /\ Head(seq).do # do => Doing(rest, do)
    BY <1>1, <1>3 DEF Doing
  <1> QED BY <1>4, <1>5 DEF rest

\* What is before the fallback of a script, and after it.
LEMMA NextInScript ==
    ASSUME NEW seq \in Seq(Steps), seq # <<>>, Shaped(seq), Tail(seq) # <<>>
    PROVE  /\ Head(Tail(seq)).do = "fallback" => Head(seq).do = "sleep"
           /\ Head(seq).do = "fallback" => ~Doing(Tail(seq), "fallback")
  <1> DEFINE rest == Tail(seq)
  <1>1. /\ Len(seq) \in Nat /\ Len(rest) = Len(seq) - 1 /\ Head(seq) = seq[1]
        /\ rest \in Seq(Steps) /\ \A k \in 1 .. Len(seq) - 1 : rest[k] = seq[k + 1]
    BY TailIs
  <1> HIDE DEF rest
  <1>2. Len(rest) >= 1 /\ Head(rest) = rest[1]
    BY <1>1 DEF rest
  <1>3. 2 \in 2 .. Len(seq) /\ 2 - 1 = 1 /\ rest[1] = seq[2] /\ 1 \in 1 .. Len(seq)
    BY <1>1, <1>2
  <1>4. \A k \in 1 .. Len(rest) : k + 1 \in 1 .. Len(seq) /\ k + 1 # 1 /\ rest[k] = seq[k + 1]
    BY <1>1
  <1>5. Head(rest).do = "fallback" => Head(seq).do = "sleep"
    BY <1>1, <1>2, <1>3 DEF Shaped
  <1>6. Head(seq).do = "fallback" => ~Doing(rest, "fallback")
    BY <1>1, <1>3, <1>4 DEF Shaped, Doing
  <1> QED BY <1>5, <1>6 DEF rest

LEMMA ScriptedMove ==
    ASSUME Typed, Scripted, op # "none", HostMove, LeavesModules
    PROVE  Scripted'
  <1>0. /\ script \in Seq(Steps) /\ via \in {"main", "fallback"} /\ device'.target = device.target
        /\ Fitting(op, device.target, script) /\ Shaped(script)
    BY DEF Typed, TypedControl, Scripted, LeavesModules, Fitting
  <1>1. CASE Waits
    BY <1>0, <1>1 DEF Waits, Scripted
  <1>2. CASE Ends
    <2>1. op' = "none" /\ via' = "main" /\ script' = <<>>
      BY <1>2 DEF Ends, Finish
    <2> QED BY <2>1 DEF Scripted
  <1>3. CASE Asks
    <2>1. /\ script # <<>> /\ Head(script).do = "request" /\ UNCHANGED <<op, script, via>>
      BY <1>3 DEF Asks
    <2> QED BY <1>0, <2>1 DEF Scripted
  <1>4. ASSUME script # <<>>, script' = Tail(script), UNCHANGED op
        PROVE  /\ Fitting(op', device'.target, script')
               /\ Doing(script', "fallback") => Doing(script, "fallback")
               /\ Doing(script, "fallback") /\ Head(script).do # "fallback" =>
                    Doing(script', "fallback")
               /\ script' # <<>> /\ Head(script).do = "fallback" => ~Doing(script', "fallback")
    BY <1>0, <1>4, FittingTail, DoingTail, NextInScript
  <1>5. Doing(<<>>, "fallback") = FALSE
    BY DEF Doing
  <1>6. script # <<>> => (Head(script).do = "fallback" => Doing(script, "fallback"))
    <2>1. script # <<>> => 1 \in 1 .. Len(script) /\ Head(script) = script[1]
      BY <1>0
    <2> QED BY <2>1 DEF Doing
  <1>7. CASE Passes \/ PutsOut
    <2>1. /\ script # <<>> /\ script' = Tail(script) /\ UNCHANGED <<op, via>>
          /\ Head(script).do # "fallback"
      BY <1>7 DEF Passes, PutsOut, Advance
    <2>2. /\ op' = "none" => via' = "main"
          /\ op' # "none" => Fitting(op', device'.target, script')
          /\ via' = "fallback" =>
               /\ op' \in {"save_config", "change_network"} /\ device'.target # "all"
               /\ ~Doing(script', "fallback")
          /\ via' = "main" /\ op' \in {"save_config", "change_network"} /\ device'.target # "all"
               => Doing(script', "fallback")
      BY <1>0, <1>4, <2>1 DEF Scripted
    <2> QED BY <2>2 DEF Scripted
  <1>8. CASE FallsBack
    <2>1. /\ script # <<>> /\ script' = Tail(script) /\ UNCHANGED op
          /\ Head(script).do = "fallback" /\ via' = "fallback"
      BY <1>8 DEF FallsBack
    <2>2. op \in {"save_config", "change_network"} /\ device.target # "all"
      BY <1>0, <1>6, <2>1 DEF Scripted, Fitting
    <2>3. ~Doing(script', "fallback")
      BY <1>4, <1>5, <2>1
    <2>4. Fitting(op', device'.target, script')
      BY <1>4, <2>1
    <2> QED BY <1>0, <2>1, <2>2, <2>3, <2>4 DEF Scripted
  <1> QED BY <1>1, <1>2, <1>3, <1>7, <1>8 DEF HostMove

LEMMA ScriptedStep ==
    ASSUME Typed, Scripted, Next
    PROVE  Scripted'
  <1>1. CASE HostStep
    BY <1>1, HostMoves, ScriptedMove
  <1>2. ASSUME UNCHANGED <<op, script, via>>, op = "none" PROVE Scripted'
    BY <1>2 DEF Scripted, Typed, TypedControl
  <1>3. ASSUME UNCHANGED <<op, script, via, device>> PROVE Scripted'
    BY <1>3 DEF Scripted
  <1>4. ASSUME NEW method \in Methods, Call(method) PROVE Scripted'
    <2>1. /\ op' = method /\ script' = Script(method) /\ UNCHANGED <<via, own>>
          /\ op = "none"
      BY <1>4 DEF Call
    <2>2. method \in AllMethods /\ method # "none"
      BY ConstantsAssumption DEF AllMethods
    <2>3. UNCHANGED device /\ via' = "main"
      BY <2>1 DEF own, Scripted
    <2>4. /\ Fitting(method, device.target, script')
          /\ method \in {"save_config", "change_network"} /\ device.target # "all" =>
               Doing(script', "fallback")
      BY <2>1, <2>2, ScriptFitting
    <2> QED BY <2>1, <2>2, <2>3, <2>4 DEF Scripted
  <1>5. CASE Delivery
    <2>1. UNCHANGED host
      BY <1>5 DEF Delivery, EchoArrives, SelectArrives, LoginArrives, GetArrives, SetArrives,
             RebootArrives, Arrives, Handled
    <2> QED BY <1>3, <2>1 DEF host, own, control
  <1>6. ASSUME NEW d \in Devices, New(d) PROVE Scripted'
    BY <1>2, <1>6 DEF New, control
  <1>7. CASE Close
    BY <1>2, <1>7 DEF Close, control
  <1>8. ASSUME NEW method \in Methods, CallClosed(method) PROVE Scripted'
    BY <1>2, <1>8 DEF CallClosed, control
  <1>9. ASSUME NEW m \in Modules, Boots(m) PROVE Scripted'
    BY <1>3, <1>9 DEF Boots, host, own, control
  <1>10. CASE Lose
    BY <1>3, <1>10 DEF Lose, host, own, control
  <1>11. ASSUME NEW kind \in StrayKinds, Stray(kind) PROVE Scripted'
    BY <1>3, <1>11 DEF Stray, host, own, control
  <1> QED BY <1>1, <1>4, <1>5, <1>6, <1>7, <1>8, <1>9, <1>10, <1>11 DEF Next

\* The script invariant, for every call of every method.
THEOREM AlwaysScripted == Spec => [](Typed /\ Scripted)
  <1>1. Init => Scripted
    BY DEF Init, Scripted
  <1>2. Typed /\ Scripted /\ [Next]_vars => Scripted'
    <2>1. ASSUME Scripted, UNCHANGED vars PROVE Scripted'
      BY <2>1 DEF vars, host, own, control, Scripted
    <2> QED BY <2>1, ScriptedStep
  <1> QED BY <1>1, <1>2, AlwaysTyped, PTL DEF Spec
-----------------------------------------------------------------------------
(* What was written is followed by a reboot command.                       *)

\* The same of what is on its way: after datagram i comes a reboot command to the
\* address to, or nothing that changes whether the target would hear it.
QueueReboots(queue, i, to) ==
    \E j \in i + 1 .. Len(queue) :
      /\ queue[j].cmd.c = "E" /\ queue[j].to = to
      /\ \A k \in i + 1 .. j - 1 : Mild(queue[k].cmd, to)

QueueMild(queue, i, to) == \A k \in i + 1 .. Len(queue) : Mild(queue[k].cmd, to)

LEMMA QueueTail ==
    ASSUME NEW queue \in Seq(Datagrams), queue # <<>>, NEW i \in Nat, NEW to
    PROVE  /\ QueueReboots(queue, i + 1, to) => QueueReboots(Tail(queue), i, to)
           /\ QueueMild(queue, i + 1, to) => QueueMild(Tail(queue), i, to)
  <1> DEFINE rest == Tail(queue)
  <1>1. /\ Len(queue) \in Nat /\ Len(rest) = Len(queue) - 1
        /\ \A k \in 1 .. Len(queue) - 1 : rest[k] = queue[k + 1]
    BY TailIs
  <1> HIDE DEF rest
  <1>2. ASSUME QueueReboots(queue, i + 1, to) PROVE QueueReboots(rest, i, to)
    <2>1. PICK j \in (i + 1) + 1 .. Len(queue) :
             /\ queue[j].cmd.c = "E" /\ queue[j].to = to
             /\ \A k \in (i + 1) + 1 .. j - 1 : Mild(queue[k].cmd, to)
      BY <1>2 DEF QueueReboots
    <2>2. /\ j - 1 \in i + 1 .. Len(rest) /\ rest[j - 1] = queue[j]
          /\ \A k \in i + 1 .. (j - 1) - 1 :
               k + 1 \in (i + 1) + 1 .. j - 1 /\ rest[k] = queue[k + 1]
      BY <1>1
    <2>3. \A k \in i + 1 .. (j - 1) - 1 : Mild(rest[k].cmd, to)
      BY <2>1, <2>2
    <2> QED BY <2>1, <2>2, <2>3 DEF QueueReboots
  <1>3. ASSUME QueueMild(queue, i + 1, to) PROVE QueueMild(rest, i, to)
    <2>1. \A k \in i + 1 .. Len(rest) :
            k + 1 \in (i + 1) + 1 .. Len(queue) /\ rest[k] = queue[k + 1]
      BY <1>1
    <2> QED BY <1>3, <2>1 DEF QueueMild
  <1> QED BY <1>2, <1>3 DEF rest

LEMMA QueueHead ==
    ASSUME NEW queue \in Seq(Datagrams), queue # <<>>, NEW to
    PROVE  /\ QueueReboots(queue, 0, to) =>
                \/ Head(queue).cmd.c = "E" /\ Head(queue).to = to
                \/ Mild(Head(queue).cmd, to) /\ QueueReboots(Tail(queue), 0, to)
           /\ QueueMild(queue, 0, to) =>
                Mild(Head(queue).cmd, to) /\ QueueMild(Tail(queue), 0, to)
  <1>1. /\ Len(queue) \in Nat /\ Len(queue) >= 1 /\ Head(queue) = queue[1]
        /\ 1 \in 1 .. Len(queue) /\ 0 \in Nat /\ 0 + 1 = 1
    OBVIOUS
  <1>2. ASSUME QueueReboots(queue, 0, to)
        PROVE  \/ Head(queue).cmd.c = "E" /\ Head(queue).to = to
               \/ Mild(Head(queue).cmd, to) /\ QueueReboots(Tail(queue), 0, to)
    <2>1. PICK j \in 1 .. Len(queue) :
             /\ queue[j].cmd.c = "E" /\ queue[j].to = to
             /\ \A k \in 1 .. j - 1 : Mild(queue[k].cmd, to)
      BY <1>2 DEF QueueReboots
    <2>2. CASE j = 1
      BY <1>1, <2>1, <2>2
    <2>3. CASE j # 1
      <3>1. 1 \in 1 .. j - 1 /\ j \in 1 + 1 .. Len(queue)
            /\ \A k \in 1 + 1 .. j - 1 : k \in 1 .. j - 1
        BY <2>3
      <3>2. Mild(queue[1].cmd, to)
        BY <2>1, <3>1
      <3>3. QueueReboots(queue, 1, to)
        BY <2>1, <3>1 DEF QueueReboots
      <3>4. QueueReboots(Tail(queue), 0, to)
        BY <1>1, <3>3, QueueTail
      <3> QED BY <1>1, <3>2, <3>4
    <2> QED BY <2>2, <2>3
  <1>3. ASSUME QueueMild(queue, 0, to)
        PROVE  Mild(Head(queue).cmd, to) /\ QueueMild(Tail(queue), 0, to)
    <2>1. Mild(queue[1].cmd, to)
      BY <1>1, <1>3 DEF QueueMild
    <2>2. QueueMild(queue, 1, to)
      BY <1>1, <1>3 DEF QueueMild
    <2>3. QueueMild(Tail(queue), 0, to)
      BY <1>1, <2>2, QueueTail
    <2> QED BY <1>1, <2>1, <2>3
  <1> QED BY <1>2, <1>3

LEMMA QueueAppend ==
    ASSUME NEW queue \in Seq(Datagrams), NEW d \in Datagrams, NEW i \in 0 .. Len(queue), NEW to
    PROVE  /\ QueueReboots(queue, i, to) => QueueReboots(Append(queue, d), i, to)
           /\ QueueMild(queue, i, to) /\ Mild(d.cmd, to) => QueueMild(Append(queue, d), i, to)
           /\ QueueMild(queue, i, to) /\ d.cmd.c = "E" /\ d.to = to =>
                QueueReboots(Append(queue, d), i, to)
  <1> DEFINE longer == Append(queue, d)
             n == Len(queue)
  <1>1. /\ n \in Nat /\ Len(longer) = n + 1 /\ longer[n + 1] = d
        /\ \A k \in 1 .. n : longer[k] = queue[k]
    OBVIOUS
  <1> HIDE DEF longer, n
  <1>2. /\ n + 1 \in i + 1 .. Len(longer)
        /\ \A k \in i + 1 .. n : k \in 1 .. n /\ k \in i + 1 .. Len(longer)
        /\ \A k \in i + 1 .. Len(longer) : k \in i + 1 .. n \/ k = n + 1
        /\ (n + 1) - 1 = n
    BY <1>1 DEF n
  <1>3. ASSUME QueueReboots(queue, i, to) PROVE QueueReboots(longer, i, to)
    <2>1. PICK j \in i + 1 .. n :
             /\ queue[j].cmd.c = "E" /\ queue[j].to = to
             /\ \A k \in i + 1 .. j - 1 : Mild(queue[k].cmd, to)
      BY <1>3 DEF QueueReboots, n
    <2>2. \A k \in i + 1 .. j - 1 : k \in i + 1 .. n
      BY <1>1
    <2>3. /\ longer[j].cmd.c = "E" /\ longer[j].to = to
          /\ \A k \in i + 1 .. j - 1 : Mild(longer[k].cmd, to)
      BY <1>1, <1>2, <2>1, <2>2
    <2> QED BY <1>2, <2>3 DEF QueueReboots
  <1>4. ASSUME QueueMild(queue, i, to), Mild(d.cmd, to) PROVE QueueMild(longer, i, to)
    BY <1>1, <1>2, <1>4 DEF QueueMild, n
  <1>5. ASSUME QueueMild(queue, i, to), d.cmd.c = "E", d.to = to PROVE QueueReboots(longer, i, to)
    <2>1. \A k \in i + 1 .. n : Mild(longer[k].cmd, to)
      BY <1>1, <1>2, <1>5 DEF QueueMild, n
    <2>2. longer[n + 1].cmd.c = "E" /\ longer[n + 1].to = to
      BY <1>1, <1>5
    <2> QED BY <1>2, <2>1, <2>2 DEF QueueReboots
  <1> QED BY <1>3, <1>4, <1>5 DEF longer

\* Where what the call under way sends to its target goes.
Here == IF via = "fallback" THEN "all" ELSE device.target

\* The call under way will yet send a reboot command to the address to.
Owed(to) == to = Here /\ Reboots(script, 0, to)

Followed(i, to) ==
    \/ QueueReboots(toModules, i, to)
    \/ QueueMild(toModules, i, to) /\ Owed(to)

\* The call under way has a second pass that selects the target still before it.
Second ==
    /\ op \in {"save_config", "change_network"}
    /\ device.target # "all" /\ device.mac = Target
    /\ \/ via = "main"
       \/ script # <<>> /\ IsSend(Head(script), "W") /\ Reboots(script, 1, "all")

Rescue(i) ==
    /\ toModules[i].cmd.c = "W" /\ toModules[i].to = "all" /\ toModules[i].mac = Target
    /\ Followed(i, "all")

Audible(to) == IF to = "all" THEN Target \in selected ELSE address = to

\* Nothing has happened that RebootedAfterWriting() excepts.
Lossless == lost = 0 /\ ~astray /\ ~Elsewhere

Secured(i) == Mild(toModules[i].cmd, toModules[i].to) /\ Followed(i, toModules[i].to)

\* The W of a second pass is on its way, after datagram i.
Rescued(i) == \E k \in i + 1 .. Len(toModules) : Rescue(k)

SetsFollowed ==
    \A i \in 1 .. Len(toModules) :
      toModules[i].cmd.c = "S" => Second \/ Rescued(i) \/ Secured(i)

RebootAhead ==
    dirty =>
      \/ Target \notin up
      \/ Second
      \/ Rescued(0)
      \/ \E to \in {"old", "new", "all"} : Followed(0, to) /\ Audible(to)

Rebooting == Lossless => SetsFollowed /\ RebootAhead

\* Without the address of the module among what a script sets, what it sends to
\* one address reboots at that address.
LEMMA RebootsAnywhere ==
    ASSUME NEW seq \in Seq(Steps), Reboots(seq, 1, "all"), ~Setting(seq, "ip_address"), NEW to
    PROVE  Reboots(seq, 1, to)
  <1>1. PICK j \in 1 + 1 .. Len(seq) :
           IsSend(seq[j], "E") /\ \A k \in 1 + 1 .. j - 1 : Passing(seq[k], "all")
    BY DEF Reboots
  <1>2. ASSUME NEW k \in 1 + 1 .. j - 1 PROVE Passing(seq[k], to)
    <2>1. k \in 1 .. Len(seq) /\ Passing(seq[k], "all")
      BY <1>1
    <2>2. seq[k].do = "send" /\ seq[k].cmd.c = "S" => seq[k].cmd.field # "ip_address"
      BY <2>1 DEF Setting
    <2>3. seq[k].cmd.c = "L" => seq[k].cmd.field = ""
      <3>1. seq[k] \in Steps
        BY <2>1
      <3>2. seq[k].cmd \in Commands
        BY <3>1, StepFields
      <3> QED BY <3>2 DEF Commands
    <2> QED BY <2>1, <2>2, <2>3 DEF Passing, Mild
  <1> QED BY <1>1, <1>2 DEF Reboots

LEMMA FollowedMove ==
    ASSUME Typed, Scripted, op # "none", HostMove, LeavesModules, ~astray',
           NEW i \in 0 .. Len(toModules), NEW to, Followed(i, to)
    PROVE  Followed(i, to)'
  <1>0. /\ script \in Seq(Steps) /\ via \in {"main", "fallback"} /\ toModules \in Seq(Datagrams)
        /\ device'.target = device.target /\ Fitting(op, device.target, script)
    BY DEF Typed, TypedControl, TypedNet, Scripted, LeavesModules
  <1>1. ASSUME Owed(to)
        PROVE  /\ script # <<>>
               /\ \/ IsSend(Head(script), "E")
                  \/ Passing(Head(script), to) /\ Reboots(Tail(script), 0, to)
    BY <1>0, <1>1, RebootsHead DEF Owed
  <1>2. CASE Waits
    BY <1>0, <1>2 DEF Waits, Followed, Owed, Here
  <1>3. CASE Ends
    <2>1. CASE QueueReboots(toModules, i, to)
      BY <1>3, <2>1 DEF Ends, Followed
    <2>2. CASE Owed(to)
      <3>1. Head(script).do = "drain" /\ script # <<>> /\ \E kind \in Outcomes \ {"returned"} : Finish(kind)
        BY <1>1, <1>3, <2>2 DEF Ends, IsSend, Passing
      <3>2. Doing(script, "drain")
        <4>1. 1 \in 1 .. Len(script) /\ Head(script) = script[1]
          BY <1>0, <3>1
        <4> QED BY <3>1, <4>1 DEF Doing
      <3>3. op \in Writers
        BY <1>0, <3>2 DEF Fitting, Writers
      <3> QED BY <3>1, <3>3 DEF Finish
    <2> QED BY <2>1, <2>2 DEF Followed
  <1>4. CASE Passes
    <2>1. /\ UNCHANGED <<toModules, op, via>> /\ script' = Tail(script)
          /\ Head(script).do \in {"request", "collect", "drain", "sleep"}
      BY <1>4 DEF Passes, Advance
    <2>2. Owed(to) => Owed(to)'
      BY <1>0, <1>1, <2>1 DEF IsSend, Owed, Here
    <2> QED BY <2>1, <2>2 DEF Followed
  <1>5. CASE PutsOut
    <2>1. /\ script # <<>> /\ Head(script).do = "send" /\ UNCHANGED <<op, via>>
          /\ script' = Tail(script) /\ toModules' = Append(toModules, Datagram)
      BY <1>5 DEF PutsOut, Advance
    <2>2. Datagram \in Datagrams /\ Datagram.cmd = Head(script).cmd
      BY <2>1, Sent
    <2>3. /\ QueueReboots(toModules, i, to) => QueueReboots(toModules', i, to)
          /\ QueueMild(toModules, i, to) /\ Mild(Datagram.cmd, to) => QueueMild(toModules', i, to)
          /\ QueueMild(toModules, i, to) /\ Datagram.cmd.c = "E" /\ Datagram.to = to =>
               QueueReboots(toModules', i, to)
      BY <1>0, <2>1, <2>2, QueueAppend
    <2>4. CASE QueueReboots(toModules, i, to)
      BY <2>3, <2>4 DEF Followed
    <2>5. CASE QueueMild(toModules, i, to) /\ Owed(to)
      <3>1. CASE IsSend(Head(script), "E")
        <4>1. Datagram.to = to
          BY <1>0, <2>5, <3>1 DEF IsSend, Owed, Here, Datagram
        <4> QED BY <2>2, <2>3, <2>5, <3>1, <4>1 DEF Followed, IsSend
      <3>2. CASE Passing(Head(script), to) /\ Reboots(Tail(script), 0, to)
        <4>1. Mild(Datagram.cmd, to)
          BY <2>1, <2>2, <3>2 DEF Passing
        <4>2. Owed(to)'
          BY <1>0, <2>1, <2>5, <3>2 DEF Owed, Here
        <4> QED BY <2>3, <2>5, <4>1, <4>2 DEF Followed
      <3> QED BY <1>1, <2>5, <3>1, <3>2
    <2> QED BY <2>4, <2>5 DEF Followed
  <1>6. CASE Asks
    <2>1. /\ script # <<>> /\ Head(script).do = "request" /\ toModules' = Append(toModules, Datagram)
      BY <1>6 DEF Asks
    <2>2. Datagram \in Datagrams
      BY <2>1, Sent
    <2>3. QueueReboots(toModules, i, to) => QueueReboots(toModules', i, to)
      BY <1>0, <2>1, <2>2, QueueAppend
    <2>4. ~Owed(to)
      BY <1>1, <2>1 DEF IsSend, Passing
    <2> QED BY <2>3, <2>4 DEF Followed
  <1>7. CASE FallsBack
    <2>1. script # <<>> /\ Head(script).do = "fallback" /\ UNCHANGED toModules
      BY <1>7 DEF FallsBack
    <2>2. ~Owed(to)
      BY <1>1, <2>1 DEF IsSend, Passing
    <2> QED BY <2>1, <2>2 DEF Followed
  <1> QED BY <1>2, <1>3, <1>4, <1>5, <1>6, <1>7 DEF HostMove

\* The second pass stays before the call, or its W is on its way now.
LEMMA SecondMove ==
    ASSUME Typed, Scripted, op # "none", HostMove, LeavesModules, ~astray', Second
    PROVE  \/ Second'
           \/ \E n \in Nat : /\ n = Len(toModules) + 1 /\ Len(toModules') = n
                            /\ Rescue(n)'
  <1>0. /\ script \in Seq(Steps) /\ via \in {"main", "fallback"} /\ toModules \in Seq(Datagrams)
        /\ device' = device /\ Fitting(op, device.target, script) /\ Shaped(script)
        /\ script # <<>> /\ op \in Writers
    <2>1. Doing(script, "fallback") => script # <<>>
      BY DEF Doing
    <2> QED BY <2>1 DEF Typed, TypedControl, TypedNet, Scripted, Second, LeavesModules, Fitting,
                       Writers
  <1>1. CASE Waits
    BY <1>0, <1>1 DEF Waits, Second
  <1>2. CASE Ends
    BY <1>0, <1>2 DEF Ends, Finish
  <1>3. CASE Passes
    <2>1. UNCHANGED <<op, via>> /\ Head(script).do # "send"
      BY <1>3 DEF Passes, Advance
    <2> QED BY <1>0, <2>1 DEF Second, IsSend
  <1>4. CASE Asks
    BY <1>0, <1>4 DEF Asks, Second
  <1>5. CASE PutsOut
    <2>1. /\ Head(script).do = "send" /\ UNCHANGED <<op, via>>
          /\ script' = Tail(script) /\ toModules' = Append(toModules, Datagram)
      BY <1>5 DEF PutsOut, Advance
    <2>2. CASE via = "main"
      BY <1>0, <2>1, <2>2 DEF Second
    <2>3. CASE via = "fallback"
      <3>1. /\ IsSend(Head(script), "W") /\ Reboots(script, 1, "all") /\ device.mac = Target
        BY <2>3 DEF Second
      <3>2. PICK n \in Nat : n = Len(toModules) + 1
        BY <1>0
      <3>3. /\ Datagram.cmd = Head(script).cmd /\ Datagram.mac = Target /\ Datagram.to = "all"
        BY <2>3, <3>1 DEF Datagram
      <3>4. Len(toModules') = n /\ toModules'[n] = Datagram
        <4>1. Head(script).do = "send" /\ Datagram \in Datagrams
          BY <1>0, <2>1, Sent
        <4> QED BY <1>0, <2>1, <3>2, <4>1
      <3>5. Reboots(script', 0, "all")
        <4>1. Reboots(script, 0 + 1, "all") /\ 0 \in Nat
          BY <3>1
        <4> QED BY <1>0, <2>1, <4>1, RebootsTail
      <3>6. Owed("all")'
        BY <2>1, <2>3, <3>5 DEF Owed, Here
      <3>7. QueueMild(toModules', n, "all")
        BY <3>4 DEF QueueMild
      <3>8. Followed(n, "all")'
        BY <3>6, <3>7 DEF Followed
      <3>9. Rescue(n)'
        BY <3>1, <3>3, <3>4, <3>8 DEF Rescue, IsSend
      <3> QED BY <3>2, <3>4, <3>9
    <2> QED BY <1>0, <2>2, <2>3
  <1>6. CASE FallsBack
    <2>1. /\ Head(script).do = "fallback" /\ via' = "fallback" /\ script' = Tail(script)
          /\ UNCHANGED op
      BY <1>6 DEF FallsBack
    <2>2. /\ Len(script) \in Nat /\ Len(script) >= 1 /\ Head(script) = script[1]
          /\ Len(script') = Len(script) - 1 /\ script' \in Seq(Steps)
          /\ \A k \in 1 .. Len(script) - 1 : script'[k] = script[k + 1]
      BY <1>0, <2>1, TailIs
    <2>3. 1 + 1 <= Len(script) /\ IsSend(script[1 + 1], "W") /\ Reboots(script, 1 + 1, "all")
      BY <1>0, <2>1, <2>2 DEF Shaped
    <2>4. 1 \in 1 .. Len(script) - 1 /\ script' # <<>> /\ Head(script') = script'[1]
      BY <2>2, <2>3
    <2>5. Reboots(script', 1, "all")
      BY <1>0, <2>1, <2>3, RebootsTail
    <2> QED BY <1>0, <2>1, <2>2, <2>3, <2>4, <2>5 DEF Second
  <1> QED BY <1>1, <1>2, <1>3, <1>4, <1>5, <1>6 DEF HostMove

\* A setting is put on its way before a reboot command, or a second pass is to come.
LEMMA NewSet ==
    ASSUME Typed, Scripted, op # "none", PutsOut, LeavesModules, ~Elsewhere,
           Head(script).cmd.c = "S", NEW to, Datagram.to = to
    PROVE  \/ Second'
           \/ Mild(Datagram.cmd, to) /\ Owed(to)'
  <1>0. /\ script \in Seq(Steps) /\ via \in {"main", "fallback"} /\ script # <<>>
        /\ device'.target = device.target /\ Fitting(op, device.target, script) /\ Shaped(script)
        /\ Head(script).do = "send" /\ UNCHANGED <<op, via>> /\ script' = Tail(script)
    BY DEF PutsOut, Advance, Typed, TypedControl, Scripted, LeavesModules, Fitting
  <1>1. Len(script) \in Nat /\ 1 \in 1 .. Len(script) /\ Head(script) = script[1] /\ 0 \in Nat
        /\ 0 + 1 = 1 /\ Head(script) \in Steps
    BY <1>0
  <1>2. Head(script).to = "target" /\ Reboots(script, 1, "all")
    BY <1>0, <1>1 DEF Shaped
  <1>3. to = Here /\ Datagram.cmd = Head(script).cmd
    BY <1>2 DEF Datagram, Here
  <1>4. Here' = Here
    BY <1>0 DEF Here
  <1>5. CASE Here = "all"
    <2>1. Reboots(script', 0, "all")
      BY <1>0, <1>1, <1>2, RebootsTail
    <2>2. Mild(Datagram.cmd, "all")
      BY <1>3 DEF Mild
    <2> QED BY <1>3, <1>4, <1>5, <2>1, <2>2 DEF Owed
  <1>6. CASE Here # "all"
    <2>1. via = "main" /\ device.target # "all"
      BY <1>0, <1>6 DEF Here, Scripted
    <2>2. Head(script).cmd.field \in Fields
      <3>1. Head(script).cmd \in Commands
        BY <1>1, StepFields
      <3> QED BY <3>1, CommandFields
    <2>3. Setting(script, Head(script).cmd.field)
      BY <1>0, <1>1 DEF Setting
    <2>4. op \in Writers
      BY <1>0, <2>2, <2>3 DEF Fitting
    <2>5. CASE op = "set_dhcp"
      <3>1. ~Setting(script, "ip_address")
        BY <1>0, <2>5 DEF Fitting
      <3>2. Reboots(script, 1, Here)
        BY <1>0, <1>2, <3>1, RebootsAnywhere
      <3>3. Reboots(script', 0, Here)
        BY <1>0, <1>1, <3>2, RebootsTail
      <3>4. Mild(Datagram.cmd, Here)
        BY <1>3, <2>3, <3>1 DEF Mild
      <3> QED BY <1>3, <1>4, <3>3, <3>4 DEF Owed
    <2>6. CASE op \in {"save_config", "change_network"}
      <3>1. device' = device /\ device.mac = Target
        BY <2>1, <2>6 DEF LeavesModules, Elsewhere
      <3> QED BY <1>0, <2>1, <2>6, <3>1 DEF Second
    <2> QED BY <2>4, <2>5, <2>6 DEF Writers
  <1> QED BY <1>5, <1>6

LEMMA LosslessBefore ==
    ASSUME Typed, HostStep, Lossless'
    PROVE  Lossless
  <1>1. op # "none" /\ HostMove /\ LeavesModules
    BY HostMoves
  <1>2. lost' = lost
    BY <1>1 DEF LeavesModules, faults
  <1>3. astray => astray'
    BY <1>1 DEF HostMove, Waits, Ends, Passes, PutsOut, Asks, FallsBack, Advance, Finish, ended
  <1>4. Elsewhere => astray' \/ Elsewhere'
    <2>1. CASE op' = op
      BY <1>1, <2>1 DEF Elsewhere, LeavesModules
    <2>2. CASE op' # op
      <3>1. Ends
        BY <1>1, <2>2 DEF HostMove, Waits, Passes, PutsOut, Asks, FallsBack, Advance
      <3> QED BY <3>1 DEF Ends, Finish
    <2> QED BY <2>1, <2>2
  <1> QED BY <1>2, <1>3, <1>4 DEF Lossless

LEMMA QueueMove ==
    ASSUME Typed, HostMove
    PROVE  /\ toModules \in Seq(Datagrams) /\ Len(toModules) \in Nat
           /\ Len(toModules) <= Len(toModules')
           /\ \A i \in 1 .. Len(toModules) : toModules'[i] = toModules[i]
           /\ Len(toModules') # Len(toModules) =>
                /\ Asks \/ PutsOut
                /\ Len(toModules') = Len(toModules) + 1
                /\ toModules'[Len(toModules) + 1] = Datagram
  <1>1. toModules \in Seq(Datagrams) /\ Len(toModules) \in Nat
    BY DEF Typed, TypedNet
  <1>2. \/ UNCHANGED toModules
        \/ toModules' = Append(toModules, Datagram) /\ (Asks \/ PutsOut)
    BY DEF HostMove, Waits, Ends, Passes, PutsOut, Asks, FallsBack
  <1>3. CASE UNCHANGED toModules
    BY <1>1, <1>3
  <1>4. CASE toModules' = Append(toModules, Datagram) /\ (Asks \/ PutsOut)
    <2>1. Datagram \in Datagrams
      BY <1>4, Sent DEF Asks, PutsOut
    <2> QED BY <1>1, <1>4, <2>1
  <1> QED BY <1>2, <1>3, <1>4

\* request() is never called for a SET command.
LEMMA AsksNothingNew ==
    ASSUME Typed, Asks
    PROVE  Datagram.cmd.c # "S"
  <1>1. script # <<>> /\ Head(script).do = "request" /\ script \in Seq(Steps)
    BY DEF Asks, Typed, TypedControl
  <1>2. Head(script) \in Steps /\ Datagram.cmd = Head(script).cmd
    BY <1>1 DEF Datagram
  <1> QED BY <1>1, <1>2 DEF Steps

LEMMA RebootingMove ==
    ASSUME Typed, Scripted, Rebooting, HostStep
    PROVE  Rebooting'
  <1> SUFFICES ASSUME Lossless'
               PROVE  SetsFollowed' /\ RebootAhead'
    BY DEF Rebooting
  <1>1. op # "none" /\ HostMove /\ LeavesModules
    BY HostMoves
  <1>2. Lossless /\ SetsFollowed /\ RebootAhead /\ ~astray'
    BY LosslessBefore DEF Rebooting, Lossless
  <1>3. /\ toModules \in Seq(Datagrams) /\ Len(toModules) \in Nat
        /\ Len(toModules) <= Len(toModules')
        /\ \A i \in 1 .. Len(toModules) : toModules'[i] = toModules[i]
        /\ Len(toModules') # Len(toModules) =>
             /\ Asks \/ PutsOut
             /\ Len(toModules') = Len(toModules) + 1
             /\ toModules'[Len(toModules) + 1] = Datagram
    BY <1>1, QueueMove
  <1>4. \A to : \A i \in 0 .. Len(toModules) : Followed(i, to) => Followed(i, to)'
    BY <1>1, <1>2, FollowedMove
  <1>5. Second => \/ Second'
                  \/ \E n \in Nat : /\ n = Len(toModules) + 1 /\ Len(toModules') = n
                                   /\ Rescue(n)'
    BY <1>1, <1>2, SecondMove
  <1>6. UNCHANGED <<up, selected, address, dirty>>
    BY <1>1 DEF LeavesModules, modules
  <1>7. ASSUME NEW i \in 0 .. Len(toModules), Rescued(i) \/ (Second /\ ~Second')
         PROVE  Rescued(i)'
    <2>1. CASE Rescued(i)
      <3>1. PICK k \in i + 1 .. Len(toModules) : Rescue(k)
        BY <2>1 DEF Rescued
      <3>2. k \in 0 .. Len(toModules) /\ k \in i + 1 .. Len(toModules') /\ toModules'[k] = toModules[k]
        BY <1>3
      <3>3. Followed(k, "all")'
        BY <1>4, <3>1, <3>2 DEF Rescue
      <3>4. Rescue(k)'
        BY <3>1, <3>2, <3>3 DEF Rescue
      <3> QED BY <3>2, <3>4 DEF Rescued
    <2>2. CASE Second /\ ~Second'
      <3>1. PICK n \in Nat : n = Len(toModules) + 1 /\ Len(toModules') = n /\ Rescue(n)'
        BY <1>5, <2>2
      <3>2. n \in i + 1 .. Len(toModules')
        BY <1>3, <3>1
      <3> QED BY <3>1, <3>2 DEF Rescued
    <2> QED BY <1>7, <2>1, <2>2
  <1>8. ASSUME NEW i \in 1 .. Len(toModules'), toModules'[i].cmd.c = "S", ~Second', ~Rescued(i)'
        PROVE  Secured(i)'
    <2>1. CASE i \in 1 .. Len(toModules)
      <3>1. toModules'[i] = toModules[i] /\ i \in 0 .. Len(toModules)
        BY <1>3, <2>1
      <3>2. ~Second /\ ~Rescued(i)
        BY <1>8, <1>7, <3>1
      <3>3. Secured(i)
        BY <1>2, <1>8, <2>1, <3>1, <3>2 DEF SetsFollowed
      <3>4. PICK to : to = toModules[i].to
        OBVIOUS
      <3>5. Mild(toModules'[i].cmd, to) /\ Followed(i, to) /\ toModules'[i].to = to
        BY <3>1, <3>3, <3>4 DEF Secured
      <3>6. Followed(i, to)'
        BY <1>4, <3>1, <3>5
      <3> QED BY <3>5, <3>6 DEF Secured, Followed
    <2>2. CASE i \notin 1 .. Len(toModules)
      <3>1. /\ i = Len(toModules) + 1 /\ Len(toModules') = i /\ toModules'[i] = Datagram
            /\ Asks \/ PutsOut
        BY <1>3, <2>2
      <3>2. PutsOut
        BY <1>8, <3>1, AsksNothingNew
      <3>3. Head(script).cmd.c = "S" /\ ~Elsewhere
        BY <1>2, <1>8, <3>1, <3>2 DEF Datagram, Lossless
      <3>4. PICK to : Datagram.to = to
        OBVIOUS
      <3>5. Mild(Datagram.cmd, to) /\ Owed(to)'
        BY <1>1, <1>8, <3>2, <3>3, <3>4, NewSet
      <3>6. QueueMild(toModules', i, to)
        BY <1>3, <3>1 DEF QueueMild
      <3>7. Followed(i, to)'
        BY <3>5, <3>6 DEF Followed
      <3> QED BY <3>1, <3>4, <3>5, <3>7 DEF Secured, Followed
    <2> QED BY <2>1, <2>2
  <1>9. SetsFollowed'
    BY <1>8 DEF SetsFollowed
  <1>10. ASSUME dirty', Target \in up', ~Second'
        PROVE  \/ Rescued(0)'
               \/ \E to \in {"old", "new", "all"} : Followed(0, to)' /\ Audible(to)'
    <2>1. Second \/ Rescued(0) => Rescued(0)'
      <3>1. 0 \in 0 .. Len(toModules)
        BY <1>3
      <3> QED BY <1>10, <1>7, <3>1
    <2>2. ASSUME NEW to \in {"old", "new", "all"}, Followed(0, to), Audible(to)
          PROVE  Followed(0, to)' /\ Audible(to)'
      <3>1. 0 \in 0 .. Len(toModules)
        BY <1>3
      <3> QED BY <1>4, <1>6, <2>2, <3>1 DEF Audible
    <2> QED BY <1>2, <1>6, <1>10, <2>1, <2>2 DEF RebootAhead
  <1> QED BY <1>9, <1>10 DEF RebootAhead

\* What a datagram at the head of the queue leaves of what was said of the others.
LEMMA FollowedNext ==
    ASSUME Typed, toModules # <<>>, toModules' = Tail(toModules), UNCHANGED host
    PROVE  /\ toModules \in Seq(Datagrams) /\ Head(toModules) \in Datagrams
           /\ Head(toModules) = toModules[1] /\ 1 \in 1 .. Len(toModules)
           /\ \A i \in 1 .. Len(toModules') :
                i + 1 \in 1 .. Len(toModules) /\ toModules'[i] = toModules[i + 1]
           /\ \A i \in 1 .. Len(toModules) : i = 1 \/ (i - 1 \in 1 .. Len(toModules') /\ i = (i - 1) + 1)
           /\ \A to : \A i \in Nat : Followed(i + 1, to) => Followed(i, to)'
           /\ \A to : Followed(0, to) =>
                \/ Head(toModules).cmd.c = "E" /\ Head(toModules).to = to
                \/ Mild(Head(toModules).cmd, to) /\ Followed(0, to)'
           /\ \A i \in Nat : Rescued(i + 1) => Rescued(i)'
           /\ Second' = Second
  <1>1. toModules \in Seq(Datagrams)
    BY DEF Typed, TypedNet
  <1>2. /\ Len(toModules) \in Nat /\ Len(toModules) >= 1
        /\ Head(toModules) \in Datagrams /\ Head(toModules) = toModules[1]
        /\ Len(toModules') = Len(toModules) - 1
        /\ \A i \in 1 .. Len(toModules) - 1 : toModules'[i] = toModules[i + 1]
    BY <1>1, TailIs
  <1>3. UNCHANGED <<op, script, via, device>>
    BY DEF host, own, control
  <1>4. \A to : Owed(to)' = Owed(to)
    BY <1>3 DEF Owed, Here
  <1>5. \A to : \A i \in Nat : Followed(i + 1, to) => Followed(i, to)'
    BY <1>1, <1>4, QueueTail DEF Followed
  <1>6. \A to : Followed(0, to) =>
                \/ Head(toModules).cmd.c = "E" /\ Head(toModules).to = to
                \/ Mild(Head(toModules).cmd, to) /\ Followed(0, to)'
    BY <1>1, <1>4, QueueHead DEF Followed
  <1>7. Second' = Second
    BY <1>3 DEF Second
  <1>8. ASSUME NEW i \in Nat, Rescued(i + 1) PROVE Rescued(i)'
    <2>1. PICK k \in (i + 1) + 1 .. Len(toModules) : Rescue(k)
      BY <1>8 DEF Rescued
    <2>2. PICK j \in Nat : k = j + 1
      BY <1>2
    <2>3. j \in i + 1 .. Len(toModules') /\ toModules'[j] = toModules[k]
      BY <1>2, <2>2
    <2>4. Followed(j, "all")'
      BY <1>5, <2>1, <2>2 DEF Rescue
    <2>5. Rescue(j)'
      BY <2>1, <2>3, <2>4 DEF Rescue
    <2> QED BY <2>3, <2>5 DEF Rescued
  <1>9. /\ 1 \in 1 .. Len(toModules)
        /\ \A i \in 1 .. Len(toModules') :
                i + 1 \in 1 .. Len(toModules) /\ toModules'[i] = toModules[i + 1]
        /\ \A i \in 1 .. Len(toModules) : i = 1 \/ (i - 1 \in 1 .. Len(toModules') /\ i = (i - 1) + 1)
    BY <1>2
  <1> QED BY <1>1, <1>2, <1>5, <1>6, <1>7, <1>9, <1>8

\* As long as the modules stay as they were, but for what d did to the target.
LEMMA RebootingNext ==
    ASSUME Typed, SetsFollowed, RebootAhead, toModules # <<>>, toModules' = Tail(toModules),
           UNCHANGED host, NEW d, d = Head(toModules),
           d.cmd.c = "W" /\ d.to = "all" /\ d.mac = Target /\ Target \in up' =>
             Target \in selected',
           d.cmd.c = "E" => \A to : d.to = to /\ Audible(to) => Target \notin up',
           \A to \in {"old", "new", "all"} : Mild(d.cmd, to) /\ Audible(to) => Audible(to)',
           dirty' => dirty \/ (d.cmd.c = "S" /\ Audible(d.to)),
           Target \notin up => Target \notin up'
    PROVE  SetsFollowed' /\ RebootAhead'
  <1>1. /\ toModules \in Seq(Datagrams) /\ d \in Datagrams
        /\ d = toModules[1] /\ 1 \in 1 .. Len(toModules)
        /\ \A i \in 1 .. Len(toModules') :
             i + 1 \in 1 .. Len(toModules) /\ toModules'[i] = toModules[i + 1]
        /\ \A i \in 1 .. Len(toModules) : i = 1 \/ (i - 1 \in 1 .. Len(toModules') /\ i = (i - 1) + 1)
        /\ \A to : \A i \in Nat : Followed(i + 1, to) => Followed(i, to)'
        /\ \A to : Followed(0, to) =>
             \/ d.cmd.c = "E" /\ d.to = to
             \/ Mild(d.cmd, to) /\ Followed(0, to)'
        /\ \A i \in Nat : Rescued(i + 1) => Rescued(i)'
        /\ Second' = Second
    BY FollowedNext
  <1>2. ASSUME NEW i \in 1 .. Len(toModules'), toModules'[i].cmd.c = "S", ~Second', ~Rescued(i)'
        PROVE  Secured(i)'
    <2>1. PICK to : to = toModules[i + 1].to
      OBVIOUS
    <2>2. i \in Nat /\ toModules'[i] = toModules[i + 1] /\ toModules'[i].to = to
      BY <1>1, <2>1
    <2>3. Mild(toModules'[i].cmd, to) /\ Followed(i + 1, to)
      BY <1>1, <1>2, <2>1, <2>2 DEF SetsFollowed, Secured
    <2>4. Followed(i, to)'
      BY <1>1, <2>2, <2>3
    <2> QED BY <2>2, <2>3, <2>4 DEF Secured, Followed
  <1>3. SetsFollowed'
    BY <1>2 DEF SetsFollowed
  <1>4. ASSUME dirty', Target \in up', ~Second'
        PROVE  \/ Rescued(0)'
               \/ \E to \in {"old", "new", "all"} : Followed(0, to)' /\ Audible(to)'
    <2>1. Target \in up /\ ~Second /\ 0 \in Nat /\ 0 + 1 = 1
      BY <1>1, <1>4
    <2>2. ASSUME NEW to \in {"old", "new", "all"}, Followed(0, to), Audible(to)
          PROVE  Followed(0, to)' /\ Audible(to)'
      <3>1. CASE d.cmd.c = "E" /\ d.to = to
        BY <1>4, <2>2, <3>1
      <3>2. CASE Mild(d.cmd, to) /\ Followed(0, to)'
        BY <2>2, <3>2
      <3> QED BY <1>1, <2>2, <3>1, <3>2
    <2>3. ASSUME d.cmd.c = "S", Audible(d.to), ~Rescued(0)'
          PROVE  \E to \in {"old", "new", "all"} : Followed(0, to)' /\ Audible(to)'
      <3>0. PICK to : to = d.to
        OBVIOUS
      <3>1. to \in {"old", "new", "all"}
        BY <1>1, <3>0 DEF Datagrams
      <3>2. Mild(d.cmd, to) /\ Followed(1, to)
        <4>1. ~Rescued(1)
          BY <1>1, <2>1, <2>3
        <4> QED BY <1>1, <2>1, <2>3, <3>0, <4>1 DEF SetsFollowed, Secured
      <3>3. Audible(to)
        BY <2>3, <3>0
      <3>4. Followed(0 + 1, to) /\ 0 \in Nat
        BY <3>2
      <3>5. Followed(0, to)'
        BY <1>1, <3>4
      <3>6. Audible(to)'
        BY <3>1, <3>2, <3>3
      <3> QED BY <3>1, <3>5, <3>6
    <2>4. ASSUME Rescued(0)
          PROVE  \/ Rescued(0)'
                 \/ Followed(0, "all")' /\ Audible("all")'
      <3>0. PICK k \in 1 .. Len(toModules) : Rescue(k)
        BY <2>1, <2>4 DEF Rescued
      <3>1. CASE k = 1
        <4>1. Followed(0 + 1, "all")
          BY <2>1, <3>0, <3>1 DEF Rescue
        <4>2. Followed(0, "all")'
          BY <1>1, <2>1, <4>1
        <4>3. Target \in selected'
          BY <1>1, <1>4, <3>0, <3>1 DEF Rescue
        <4> QED BY <4>2, <4>3 DEF Audible
      <3>2. CASE k # 1
        <4>1. k \in 1 + 1 .. Len(toModules)
          BY <3>2
        <4>2. Rescued(0 + 1)
          BY <2>1, <3>0, <4>1 DEF Rescued
        <4> QED BY <1>1, <2>1, <4>2
      <3> QED BY <3>1, <3>2
    <2>5. CASE dirty
      BY <2>1, <2>2, <2>4, <2>5 DEF RebootAhead
    <2> QED BY <1>4, <2>3, <2>5
  <1> QED BY <1>3, <1>4 DEF RebootAhead

LEMMA RebootingDelivery ==
    ASSUME Typed, Rebooting, Delivery
    PROVE  Rebooting'
  <1> SUFFICES ASSUME Lossless'
               PROVE  SetsFollowed' /\ RebootAhead'
    BY DEF Rebooting
  <1> DEFINE d == Head(toModules)
  <1>1. /\ toModules # <<>> /\ toModules' = Tail(toModules) /\ UNCHANGED <<host, strays>>
    BY DEF Delivery, EchoArrives, SelectArrives, LoginArrives, GetArrives, SetArrives,
           RebootArrives, Arrives, Handled
  <1>2. Typed' /\ lost <= lost'
    <2>1. Typed'
      BY TypedDelivery
    <2>2. lost <= lost'
      BY DeliveryAnswers
    <2> QED BY <2>1, <2>2
  <1>3. SetsFollowed /\ RebootAhead
    <2>1. lost = 0
      BY <1>2 DEF Lossless, Typed, TypedNet
    <2>2. Elsewhere' = Elsewhere /\ astray' = astray
      BY <1>1 DEF host, own, control, ended, Elsewhere
    <2> QED BY <2>1, <2>2 DEF Lossless, Rebooting
  <1>4. \/ EchoArrives \/ SelectArrives \/ LoginArrives \/ GetArrives
        \/ SetArrives \/ RebootArrives
    BY DEF Delivery
  <1>5. ASSUME NEW to, Audible(to), d.to = to, Target \in up PROVE Target \in Concerned(d)
    BY <1>5, ConstantsAssumption DEF Concerned, Hearers, Audible
  <1>6. Target \in Concerned(d) => Audible(d.to) /\ Target \in Hearers(d)
    BY DEF Concerned, Hearers, Audible
  <1> HIDE DEF d
  <1>7. /\ d.cmd.c = "W" /\ d.to = "all" /\ d.mac = Target /\ Target \in up' =>
             Target \in selected'
        /\ d.cmd.c = "E" => \A to : d.to = to /\ Audible(to) => Target \notin up'
        /\ \A to \in {"old", "new", "all"} : Mild(d.cmd, to) /\ Audible(to) => Audible(to)'
        /\ dirty' => dirty \/ (d.cmd.c = "S" /\ Audible(d.to))
        /\ Target \notin up => Target \notin up'
    <2>1. CASE EchoArrives \/ GetArrives
      BY <1>4, <2>1 DEF EchoArrives, GetArrives, Arrives, Audible, modules, d
    <2>2. CASE SelectArrives
      <3>1. /\ d.cmd.c = "W" /\ UNCHANGED <<up, address, dirty>>
            /\ selected' = (selected \ Hearers(d)) \cup (Hearers(d) \cap {d.mac})
        BY <2>2 DEF SelectArrives, Arrives, d
      <3>2. d.to = "all" /\ Target \in up => Target \in Hearers(d)
        BY ConstantsAssumption DEF Hearers
      <3> QED BY <3>1, <3>2 DEF Mild, Audible
    <2>3. CASE LoginArrives
      BY <2>3 DEF LoginArrives, Arrives, Audible, d
    <2>4. CASE SetArrives
      <3>1. /\ d.cmd.c = "S" /\ UNCHANGED <<up, selected>>
            /\ address' # address => d.cmd.field = "ip_address"
            /\ dirty' => dirty \/ Target \in Obeys(d)
        BY <2>4 DEF SetArrives, Arrives, d
      <3>2. Target \in Obeys(d) => Audible(d.to)
        BY <1>6 DEF Obeys
      <3> QED BY <3>1, <3>2 DEF Mild, Audible
    <2>5. CASE RebootArrives
      <3>1. d.cmd.c = "E" /\ UNCHANGED <<dirty, address>> /\ up' = up \ Concerned(d)
        BY <2>5 DEF RebootArrives, Arrives, d
      <3> QED BY <1>5, <3>1 DEF Mild
    <2> QED BY <1>4, <2>1, <2>2, <2>3, <2>4, <2>5
  <1> QED BY <1>1, <1>3, <1>7, RebootingNext DEF d

LEMMA RebootingStep ==
    ASSUME Typed, Scripted, Rebooting, Next
    PROVE  Rebooting'
  <1>1. CASE HostStep
    BY <1>1, RebootingMove
  <1>2. CASE Delivery
    BY <1>2, RebootingDelivery
  <1>3. ASSUME UNCHANGED <<toModules, up, selected, address, dirty, lost, astray>>, op = "none"
        PROVE  Rebooting'
    <2>1. ~Second /\ ~Elsewhere /\ \A to : ~Owed(to)
      <3>1. script = <<>> /\ 0 \in Nat
        BY <1>3 DEF Typed, TypedControl
      <3>2. \A to : ~Reboots(<<>>, 0, to)
        BY DEF Reboots
      <3> QED BY <1>3, <3>1, <3>2 DEF Second, Elsewhere, Owed
    <2>2. \A to : \A i : Followed(i, to) => Followed(i, to)'
      BY <1>3, <2>1 DEF Followed
    <2>3. ASSUME Lossless' PROVE SetsFollowed /\ RebootAhead
      BY <1>3, <2>1, <2>3 DEF Lossless, Rebooting
    <2>4. \A to : Audible(to)' = Audible(to)
      BY <1>3 DEF Audible
    <2>5. ASSUME NEW i, Rescued(i) PROVE Rescued(i)'
      <3>1. PICK k \in i + 1 .. Len(toModules) : Rescue(k)
        BY <2>5 DEF Rescued
      <3>2. Followed(k, "all")'
        BY <2>2, <3>1 DEF Rescue
      <3>3. Rescue(k)'
        BY <1>3, <3>1, <3>2 DEF Rescue
      <3> QED BY <1>3, <3>1, <3>3 DEF Rescued
    <2>6. ASSUME SetsFollowed PROVE SetsFollowed'
      <3>1. ASSUME NEW i \in 1 .. Len(toModules), toModules[i].cmd.c = "S", ~Rescued(i)
            PROVE  Secured(i)'
        <4>1. PICK to : to = toModules[i].to
          OBVIOUS
        <4>2. Mild(toModules[i].cmd, to) /\ Followed(i, to)
          BY <2>1, <2>6, <3>1, <4>1 DEF SetsFollowed, Secured
        <4>3. Followed(i, to)'
          BY <2>2, <4>2
        <4> QED BY <1>3, <4>1, <4>2, <4>3 DEF Secured, Followed
      <3> QED BY <1>3, <2>5, <3>1 DEF SetsFollowed
    <2>7. ASSUME RebootAhead PROVE RebootAhead'
      <3>2. ASSUME NEW to \in {"old", "new", "all"}, Followed(0, to), Audible(to)
            PROVE  Followed(0, to)' /\ Audible(to)'
        BY <2>2, <2>4, <3>2
      <3> QED BY <1>3, <2>1, <2>7, <2>5, <3>2 DEF RebootAhead
    <2> QED BY <2>3, <2>6, <2>7 DEF Rebooting
  <1>4. ASSUME NEW d \in Devices, New(d) PROVE Rebooting'
    BY <1>3, <1>4 DEF New, modules, faults
  <1>5. CASE Close
    BY <1>3, <1>5 DEF Close, modules, faults, ended
  <1>6. ASSUME NEW method \in Methods, Call(method) PROVE Rebooting'
    BY <1>3, <1>6 DEF Call, modules, faults, ended
  <1>7. ASSUME NEW method \in Methods, CallClosed(method) PROVE Rebooting'
    BY <1>3, <1>7 DEF CallClosed, modules, faults
  <1>8. ASSUME UNCHANGED <<host, toModules, selected, lost>>,
               \/ UNCHANGED <<up, dirty, address>>
               \/ Target \in up' /\ ~dirty'
               \/ (Target \in up' <=> Target \in up) /\ UNCHANGED <<dirty, address>>
        PROVE  Rebooting'
    <2>1. UNCHANGED <<op, script, via, device, astray>>
      BY <1>8 DEF host, own, control, ended
    <2>2. Lossless' = Lossless /\ Second' = Second
      BY <1>8, <2>1 DEF Lossless, Elsewhere, Second
    <2>3. \A to : Owed(to)' = Owed(to)
      BY <2>1 DEF Owed, Here
    <2>4. \A to : \A i : Followed(i, to)' = Followed(i, to)
      BY <1>8, <2>3 DEF Followed
    <2>5. \A i : Rescued(i)' = Rescued(i) /\ Secured(i)' = Secured(i)
      BY <1>8, <2>3 DEF Rescued, Rescue, Secured, Followed
    <2>6. SetsFollowed' = SetsFollowed
      BY <1>8, <2>2, <2>5 DEF SetsFollowed
    <2>7. RebootAhead => RebootAhead'
      <3>1. CASE ~dirty'
        BY <3>1 DEF RebootAhead
      <3>2. CASE (Target \in up' <=> Target \in up) /\ UNCHANGED <<dirty, address>>
        <4>1. \A to : Audible(to)' = Audible(to)
          BY <1>8, <3>2 DEF Audible
        <4> QED BY <1>8, <2>2, <2>4, <2>5, <3>2, <4>1 DEF RebootAhead
      <3> QED BY <1>8, <3>1, <3>2
    <2> QED BY <2>2, <2>6, <2>7 DEF Rebooting
  <1>9. ASSUME NEW m \in Modules, Boots(m) PROVE Rebooting'
    <2>1. /\ UNCHANGED <<host, toModules, selected, lost>>
          /\ up' = up \cup {m} /\ dirty' = (dirty /\ m # Target)
          /\ m # Target => UNCHANGED address
      BY <1>9 DEF Boots, faults
    <2>2. CASE m = Target
      BY <1>8, <2>1, <2>2
    <2>3. CASE m # Target
      <3>1. Target \in up' <=> Target \in up
        BY <2>1, <2>3
      <3>2. UNCHANGED <<dirty, address>>
        BY <2>1, <2>3 DEF Typed, TypedModules
      <3> QED BY <1>8, <2>1, <3>1, <3>2
    <2> QED BY <2>2, <2>3
  <1>10. CASE Lose
    <2>1. lost \in Nat /\ lost' = lost + 1
      BY <1>10 DEF Lose, Typed, TypedNet
    <2>2. lost' # 0
      BY <2>1
    <2> QED BY <2>2 DEF Rebooting, Lossless
  <1>11. ASSUME NEW kind \in StrayKinds, Stray(kind) PROVE Rebooting'
    BY <1>8, <1>11 DEF Stray, modules
  <1> QED BY <1>1, <1>2, <1>4, <1>5, <1>6, <1>7, <1>9, <1>10, <1>11 DEF Next

LEMMA RebootingQuiet ==
    ASSUME Typed, Rebooting
    PROVE  RebootedAfterWriting
  <1> SUFFICES ASSUME Quiet, lost = 0, ~astray, dirty
               PROVE  FALSE
    BY DEF RebootedAfterWriting
  <1>1. /\ op = "none" /\ script = <<>> /\ toModules = <<>> /\ Target \in up
        /\ Len(toModules) = 0 /\ Len(script) = 0
    BY ConstantsAssumption DEF Quiet, Typed, TypedControl
  <1>2. ~Second /\ ~Elsewhere
    BY <1>1 DEF Second, Elsewhere
  <1>3. \A to : ~Owed(to)
    BY <1>1 DEF Owed, Reboots
  <1>4. \A to : ~Followed(0, to)
    BY <1>1, <1>3 DEF Followed, QueueReboots
  <1> QED BY <1>1, <1>2, <1>4 DEF Rebooting, Lossless, RebootAhead, Rescued

\* When nothing was lost, no call that writes was cut short and none was made
\* without the MAC address its second pass needs, a module that has been written to
\* reboots: whatever was called before, on however many devices, in whatever order
\* the datagrams of the calls arrive in between.
THEOREM Rebooted == Spec => []RebootedAfterWriting
  <1>1. Init => Rebooting
    <2>1. SUFFICES ASSUME Init PROVE SetsFollowed /\ RebootAhead
      BY DEF Rebooting
    <2>2. Len(toModules) = 0 /\ ~dirty
      BY <2>1 DEF Init
    <2> QED BY <2>2 DEF SetsFollowed, RebootAhead
  <1>2. Typed /\ Scripted /\ Rebooting /\ [Next]_vars => Rebooting'
    <2>1. ASSUME Rebooting, UNCHANGED vars PROVE Rebooting'
      BY <2>1 DEF vars, host, own, control, ended, modules, faults, Rebooting, Lossless, Elsewhere,
             SetsFollowed, RebootAhead, Secured, Rescued, Rescue, Followed, Owed, Here, Second, Audible
    <2> QED BY <2>1, RebootingStep
  <1>3. Typed /\ Rebooting => RebootedAfterWriting
    BY RebootingQuiet
  <1> QED BY <1>1, <1>2, <1>3, AlwaysScripted, PTL DEF Spec
-----------------------------------------------------------------------------
(* The two passes of save_config() store every setting.                    *)

\* save_config() on a device that does not broadcast.
TwoPasses ==
    send_config_pass \o (<<Do("fallback")>> \o (<<Send(Cmd("W"))>> \o send_config_pass))

Size == Len(SetOrder)

\* Where the pass under way begins, and where its L is.
Start == IF via = "main" THEN 0 ELSE Size + 4
LoginAt == IF via = "main" THEN 1 ELSE Size + 6

Stored(i) == settings[Target][SetOrder[i]] = "new"

AllStored == \A i \in 1 .. Size : Stored(i)

\* The call has come to step b, and what it has sent after step a is on its way.
At(b) ==
    Len(script) = (2 * Size + 8) - b /\ \A j \in 1 .. Len(script) : script[j] = TwoPasses[b + j]

OnWay(a, b) ==
    /\ Len(toModules) = b - a
    /\ \A j \in 1 .. Len(toModules) :
         /\ toModules[j].cmd = TwoPasses[a + j].cmd
         /\ toModules[j].to = Here /\ toModules[j].mac = Target

\* What the datagrams of a pass up to step a have done to the target.
Progress(a) ==
    /\ a <= LoginAt + Size => Target \in up
    /\ LoginAt <= a /\ a <= LoginAt + Size => Target \in loggedIn
    /\ via = "main" /\ a < LoginAt + Size => address = device.target
    /\ via = "fallback" /\ Start < a /\ a <= LoginAt + Size => Target \in selected
    /\ \A i \in 1 .. Size : i <= a - LoginAt => Stored(i)

InPass(a, b) ==
    /\ Start <= a /\ a <= b /\ b <= LoginAt + Size + 1
    /\ At(b) /\ OnWay(a, b) /\ Progress(a)

Saving ==
    op = "save_config" /\ aimed /\ ~hasty /\ device.mac = Target /\ lost <= 1 =>
      /\ device.target # "all"
      /\ via = "main" =>
           \E b \in 0 .. Size + 3 :
             At(b) /\ (lost = 0 => AllStored \/ \E a \in 0 .. Size + 2 : InPass(a, b))
      /\ via = "fallback" =>
           AllStored \/ (lost = 1 /\ \E a, b \in Size + 4 .. 2 * Size + 7 : InPass(a, b))

Saved ==
    /\ script # <<>> /\ Head(script).do = "fallback" /\ ~hasty => toModules = <<>> /\ Target \in up
    /\ Returned("save_config") /\ aimed /\ ~hasty /\ device.mac = Target /\ lost <= 1 => AllStored

LEMMA Layout ==
    /\ Size \in Nat /\ TwoPasses \in Seq(Steps) /\ Len(TwoPasses) = 2 * Size + 8
    /\ \A o \in {1, Size + 6} :
         /\ TwoPasses[o] = Send(Cmd("L"))
         /\ \A i \in 1 .. Size : TwoPasses[o + i] = Send(Set(SetOrder[i]))
         /\ TwoPasses[o + Size + 1] = Send(Cmd("E")) /\ TwoPasses[o + Size + 2] = Do("sleep")
    /\ TwoPasses[Size + 4] = Do("fallback") /\ TwoPasses[Size + 5] = Send(Cmd("W"))
  <1> DEFINE pass == send_config_pass
             second == <<Send(Cmd("W"))>> \o pass
             end == <<Do("fallback")>> \o second
  <1>1. /\ Size \in Nat /\ pass \in Seq(Steps) /\ Len(pass) = Size + 3
        /\ pass[1] = Send(Cmd("L"))
        /\ \A i \in 1 .. Size : pass[1 + i] = Send(Set(SetOrder[i]))
        /\ pass[Size + 2] = Send(Cmd("E")) /\ pass[Size + 3] = Do("sleep")
    BY ConfigPassAt DEF Size
  <1>2. Send(Cmd("W")) \in Steps /\ Do("fallback") \in Steps
    BY StepParts
  <1> HIDE DEF pass
  <1>3. /\ second \in Seq(Steps) /\ Len(second) = Len(pass) + 1 /\ second[1] = Send(Cmd("W"))
        /\ \A i \in 1 .. Len(pass) : second[i + 1] = pass[i]
    BY <1>1, <1>2, Preceded
  <1> HIDE DEF second
  <1>4. /\ end \in Seq(Steps) /\ Len(end) = Len(second) + 1 /\ end[1] = Do("fallback")
        /\ \A i \in 1 .. Len(second) : end[i + 1] = second[i]
    BY <1>2, <1>3, Preceded
  <1>5. TwoPasses = pass \o end
    BY DEF TwoPasses, pass, second
  <1> HIDE DEF end
  <1>6. /\ TwoPasses \in Seq(Steps) /\ Len(TwoPasses) = Len(pass) + Len(end)
        /\ \A i \in 1 .. Len(pass) : TwoPasses[i] = pass[i]
        /\ \A i \in 1 .. Len(end) : TwoPasses[Len(pass) + i] = end[i]
    <2>1. pass \in Seq(Steps) /\ end \in Seq(Steps)
      BY <1>1, <1>4
    <2> QED BY ONLY <1>5, <2>1, ConcatOf
  <1>7. Len(second) = Size + 4 /\ Len(end) = Size + 5 /\ Len(TwoPasses) = 2 * Size + 8
    BY <1>1, <1>3, <1>4, <1>6
  <1>8. \A i \in 1 .. Size + 3 : TwoPasses[i] = pass[i]
    BY <1>1, <1>6
  <1>9. \A i \in 1 .. Size + 3 : TwoPasses[(Size + 3) + ((i + 1) + 1)] = pass[i]
    <2>1. \A i \in 1 .. Size + 3 : (i + 1) + 1 \in 1 .. Len(end) /\ i + 1 \in 1 .. Len(second)
      BY <1>1, <1>7
    <2> QED BY <1>1, <1>3, <1>4, <1>6, <2>1
  <1>10. TwoPasses[(Size + 3) + 1] = Do("fallback") /\ TwoPasses[(Size + 3) + (1 + 1)] = Send(Cmd("W"))
    <2>1. 1 \in 1 .. Len(end) /\ 1 + 1 \in 1 .. Len(end) /\ 1 \in 1 .. Len(second)
      BY <1>1, <1>7
    <2> QED BY <1>1, <1>3, <1>4, <1>6, <2>1
  <1>11. /\ (Size + 3) + 1 = Size + 4 /\ (Size + 3) + (1 + 1) = Size + 5
         /\ \A i \in 1 .. Size + 3 : (Size + 3) + ((i + 1) + 1) = (Size + 6) + (i - 1)
         /\ 1 \in 1 .. Size + 3 /\ Size + 2 \in 1 .. Size + 3 /\ Size + 3 \in 1 .. Size + 3
         /\ \A i \in 1 .. Size : 1 + i \in 1 .. Size + 3 /\ (1 + i) - 1 = i
         /\ 1 - 1 = 0 /\ (Size + 6) + 0 = Size + 6
         /\ (Size + 6) + ((Size + 2) - 1) = (Size + 6) + Size + 1
         /\ (Size + 6) + ((Size + 3) - 1) = (Size + 6) + Size + 2
         /\ 1 + Size + 1 = Size + 2 /\ 1 + Size + 2 = Size + 3
    BY <1>1
  <1>12. \A i \in 1 .. Size + 3 : TwoPasses[(Size + 6) + (i - 1)] = pass[i]
    BY <1>9, <1>11
  <1>13. /\ TwoPasses[1] = Send(Cmd("L"))
         /\ \A i \in 1 .. Size : TwoPasses[1 + i] = Send(Set(SetOrder[i]))
         /\ TwoPasses[1 + Size + 1] = Send(Cmd("E")) /\ TwoPasses[1 + Size + 2] = Do("sleep")
    BY <1>1, <1>8, <1>11
  <1>14. /\ TwoPasses[Size + 6] = Send(Cmd("L"))
         /\ \A i \in 1 .. Size : TwoPasses[(Size + 6) + i] = Send(Set(SetOrder[i]))
         /\ TwoPasses[(Size + 6) + Size + 1] = Send(Cmd("E"))
         /\ TwoPasses[(Size + 6) + Size + 2] = Do("sleep")
    BY <1>1, <1>11, <1>12
  <1> QED BY <1>1, <1>6, <1>7, <1>10, <1>11, <1>13, <1>14

\* The address is set last.
LEMMA AddressLast ==
    ASSUME NEW i \in 1 .. Size, SetOrder[i] = "ip_address"
    PROVE  i = Size
  <1>1. PICK p : Places(p, SetOrder, AllSetOrder, Fields, 20)
    BY TablesType, SelectPlaces DEF SetOrder
  <1>2. Size \in Nat /\ Size = Len(SetOrder)
    BY ConfigPassAt DEF Size
  <1>3. \A k \in 1 .. 20 : AllSetOrder[k] = "ip_address" => k = 20
    BY DEF AllSetOrder
  <1>4. p[i] = 20
    <2>1. p[i] \in 1 .. 20 /\ AllSetOrder[p[i]] = "ip_address"
      BY <1>1, <1>2 DEF Places
    <2> QED BY <1>3, <2>1
  <1>5. i # Size => p[i] < p[Size] /\ p[Size] \in 1 .. 20
    <2>1. i # Size => i < Size /\ Size \in 1 .. Size
      BY <1>2
    <2> QED BY <1>1, <1>2, <2>1 DEF Places
  <1> QED BY <1>4, <1>5

\* The steps of a pass.
LEMMA PassAt ==
    ASSUME via \in {"main", "fallback"}, NEW k \in Start + 1 .. LoginAt + Size + 1
    PROVE  /\ TwoPasses[k] \in Steps
           /\ TwoPasses[k].do = "send" /\ TwoPasses[k].to = "target"
           /\ \/ k = Start + 1 /\ k # LoginAt /\ via = "fallback" /\ TwoPasses[k].cmd.c = "W"
              \/ k = LoginAt /\ TwoPasses[k].cmd.c = "L"
              \/ \E i \in 1 .. Size :
                   k = LoginAt + i /\ TwoPasses[k].cmd = Set(SetOrder[i]) /\ SetOrder[i] \in Fields
              \/ k = LoginAt + Size + 1 /\ TwoPasses[k].cmd.c = "E"
  <1>1. /\ Size \in Nat /\ LoginAt \in {1, Size + 6} /\ SetOrder \in Seq(Fields)
        /\ TwoPasses \in Seq(Steps) /\ Len(TwoPasses) = 2 * Size + 8
        /\ TwoPasses[LoginAt] = Send(Cmd("L"))
        /\ \A i \in 1 .. Size : TwoPasses[LoginAt + i] = Send(Set(SetOrder[i]))
        /\ TwoPasses[LoginAt + Size + 1] = Send(Cmd("E")) /\ TwoPasses[Size + 5] = Send(Cmd("W"))
    BY Layout, SetOrderType DEF LoginAt
  <1>2. \A i \in 1 .. Size : SetOrder[i] \in Fields
    BY <1>1 DEF Size
  <1>3. /\ via = "main" => Start = 0 /\ LoginAt = 1
        /\ via = "fallback" => Start = Size + 4 /\ LoginAt = Size + 6
    BY DEF Start, LoginAt
  <1>4. /\ k \in 1 .. Len(TwoPasses)
        /\ \/ k = Size + 5 /\ k = Start + 1 /\ k # LoginAt /\ via = "fallback"
           \/ k = LoginAt
           \/ k - LoginAt \in 1 .. Size /\ k = LoginAt + (k - LoginAt)
           \/ k = LoginAt + Size + 1
    <2>1. CASE via = "main"
      BY <1>1, <1>3, <2>1
    <2>2. CASE via = "fallback"
      BY <1>1, <1>3, <2>2
    <2> QED BY <2>1, <2>2
  <1>5. TwoPasses[k] \in Steps
    BY <1>1, <1>4
  <1>6. \A cmd : Send(cmd).do = "send" /\ Send(cmd).to = "target" /\ Send(cmd).cmd = cmd
    BY DEF Send, Step
  <1>7. \A c : Cmd(c).c = c
    BY DEF Cmd
  <1>8. CASE k - LoginAt \in 1 .. Size /\ k = LoginAt + (k - LoginAt)
    <2>1. PICK i \in 1 .. Size : k = LoginAt + i
      BY <1>8
    <2>2. TwoPasses[k] = Send(Set(SetOrder[i])) /\ SetOrder[i] \in Fields
      BY <1>1, <1>2, <2>1
    <2>3. TwoPasses[k].do = "send" /\ TwoPasses[k].to = "target" /\ TwoPasses[k].cmd = Set(SetOrder[i])
      BY <1>6, <2>2
    <2>4. \E j \in 1 .. Size :
            k = LoginAt + j /\ TwoPasses[k].cmd = Set(SetOrder[j]) /\ SetOrder[j] \in Fields
      BY <2>1, <2>2, <2>3
    <2> QED BY <1>5, <2>3, <2>4
  <1>9. CASE k = LoginAt
    BY <1>1, <1>5, <1>6, <1>7, <1>9
  <1>10. CASE k = LoginAt + Size + 1
    BY <1>1, <1>5, <1>6, <1>7, <1>10
  <1>11. CASE k = Size + 5 /\ k = Start + 1 /\ k # LoginAt /\ via = "fallback"
    <2>1. TwoPasses[k] = Send(Cmd("W"))
      BY <1>1, <1>11
    <2> QED BY <1>5, <1>6, <1>7, <1>11, <2>1
  <1> QED BY <1>4, <1>8, <1>9, <1>10, <1>11

\* Step b + 1 is the next one of the call.
LEMMA NextAt ==
    ASSUME Typed, NEW b \in 0 .. 2 * Size + 7, At(b)
    PROVE  /\ script # <<>> /\ Head(script) = TwoPasses[b + 1]
           /\ script' = Tail(script) => At(b + 1)'
  <1>1. script \in Seq(Steps) /\ Size \in Nat
    BY Layout DEF Typed, TypedControl
  <1>2. Len(script) \in Nat /\ Len(script) >= 1 /\ 1 \in 1 .. Len(script)
    BY <1>1 DEF At
  <1>3. script # <<>> /\ Head(script) = script[1]
    BY <1>1, <1>2
  <1>4. ASSUME script' = Tail(script) PROVE At(b + 1)'
    <2>1. /\ Len(script') = Len(script) - 1
          /\ \A j \in 1 .. Len(script) - 1 : script'[j] = script[j + 1]
      BY <1>1, <1>3, <1>4, TailIs
    <2>2. Len(script') = (2 * Size + 8) - (b + 1)
      BY <1>1, <2>1 DEF At
    <2>3. \A j \in 1 .. Len(script') : j + 1 \in 1 .. Len(script) /\ b + (j + 1) = (b + 1) + j
      BY <1>1, <1>2, <2>1
    <2>4. \A j \in 1 .. Len(script') : script'[j] = TwoPasses[(b + 1) + j]
      BY <2>1, <2>3 DEF At
    <2> QED BY <2>2, <2>4 DEF At, Size, TwoPasses
  <1> QED BY <1>2, <1>3, <1>4 DEF At

\* What has been stored stays stored: nothing sets a setting to its old value.
LEMMA StoredStays ==
    ASSUME Typed, Next
    PROVE  \A i \in 1 .. Size : Stored(i) => Stored(i)'
  <1>1. CASE SetArrives
    <2> DEFINE d == Head(toModules)
    <2>1. settings' = [m \in Modules |->
                         IF m \in Obeys(d) THEN [settings[m] EXCEPT ![d.cmd.field] = d.cmd.value]
                         ELSE settings[m]]
          /\ d.cmd.c = "S" /\ toModules # <<>>
      BY <1>1 DEF SetArrives, Arrives
    <2>2. d.cmd.value = "new"
      <3>1. d \in Datagrams
        BY <2>1 DEF Typed, TypedNet
      <3> QED BY <2>1, <3>1, CommandFields DEF Datagrams
    <2> HIDE DEF d
    <2>3. settings \in [Modules -> [Fields -> {"old", "new"}]] /\ Target \in Modules
      BY ConstantsAssumption DEF Typed, TypedModules
    <2>4. ASSUME NEW i \in 1 .. Size, Stored(i) PROVE Stored(i)'
      <3>1. SetOrder[i] \in Fields
        BY SetOrderType DEF Size
      <3> QED BY <2>1, <2>2, <2>3, <2>4, <3>1 DEF Stored
    <2> QED BY <2>4
  <1>2. CASE ~SetArrives
    <2>1. HostStep => UNCHANGED settings
      BY HostMoves DEF LeavesModules, modules
    <2>2. UNCHANGED settings
      BY <1>2, <2>1 DEF Next, New, Close, Call, CallClosed, Delivery, EchoArrives, SelectArrives,
             LoginArrives, GetArrives, RebootArrives, Boots, Lose, Stray, modules
    <2> QED BY <2>2 DEF Stored
  <1> QED BY <1>1, <1>2

LEMMA Bases ==
    ASSUME via \in {"main", "fallback"}
    PROVE  /\ Size \in Nat /\ Start \in Nat /\ LoginAt \in Nat
           /\ via = "main" => Start = 0 /\ LoginAt = 1
           /\ via = "fallback" => Start = Size + 4 /\ LoginAt = Size + 6
  BY Layout DEF Start, LoginAt

\* A datagram of the pass arrives, and does to the target what it is for.
LEMMA PassDelivery ==
    ASSUME Typed, Next, Delivery, device.target # "all", NEW a \in Nat, NEW b \in Nat, InPass(a, b)
    PROVE  InPass(a + 1, b)'
  <1> DEFINE d == Head(toModules)
             k == a + 1
  <1>1. /\ toModules \in Seq(Datagrams) /\ toModules # <<>> /\ toModules' = Tail(toModules)
        /\ d \in Datagrams /\ UNCHANGED host
    BY DeliveryAnswers DEF Typed, TypedNet
  <1>2. /\ Len(toModules) \in Nat /\ Len(toModules) >= 1 /\ d = toModules[1]
        /\ Len(toModules') = Len(toModules) - 1
        /\ \A j \in 1 .. Len(toModules) - 1 : toModules'[j] = toModules[j + 1]
    BY <1>1, TailIs
  <1>3. UNCHANGED <<script, via, device, op>> /\ via \in {"main", "fallback"}
    BY <1>1 DEF host, own, control, Typed, TypedControl
  <1>4. Start' = Start /\ LoginAt' = LoginAt /\ Here' = Here /\ Size' = Size
    BY <1>3 DEF Start, LoginAt, Here, Size
  <1>5. /\ Size \in Nat /\ Start \in Nat /\ LoginAt \in Nat
        /\ via = "main" => Start = 0 /\ LoginAt = 1
        /\ via = "fallback" => Start = Size + 4 /\ LoginAt = Size + 6
    BY <1>3, Bases
  <1>6. /\ Start <= a /\ a <= b /\ b <= LoginAt + Size + 1
        /\ At(b) /\ OnWay(a, b) /\ Progress(a)
    BY DEF InPass
  <1>7. k \in Start + 1 .. LoginAt + Size + 1 /\ k <= b /\ k \in Nat
    BY <1>2, <1>5, <1>6 DEF OnWay
  <1>8. d.cmd = TwoPasses[k].cmd /\ d.to = Here /\ d.mac = Target
    <2>1. 1 \in 1 .. Len(toModules)
      BY <1>2
    <2> QED BY <1>2, <1>6, <2>1 DEF OnWay
  <1>9. At(b)'
    BY <1>3, <1>6 DEF At, TwoPasses, Size
  <1>10. OnWay(k, b)'
    <2>1. Len(toModules') = b - k
      BY <1>2, <1>6 DEF OnWay
    <2>2. \A j \in 1 .. Len(toModules') : j + 1 \in 1 .. Len(toModules) /\ a + (j + 1) = k + j
      BY <1>2
    <2>3. ASSUME NEW j \in 1 .. Len(toModules')
          PROVE  /\ toModules'[j].cmd = TwoPasses[k + j].cmd
                 /\ toModules'[j].to = Here /\ toModules'[j].mac = Target
      <3>1. toModules'[j] = toModules[j + 1] /\ TwoPasses[a + (j + 1)] = TwoPasses[k + j]
        BY <1>2, <2>2
      <3> QED BY <1>6, <2>2, <3>1 DEF OnWay
    <2> QED BY <1>4, <2>1, <2>3 DEF OnWay, TwoPasses, Here
  <1>11. ASSUME Target \in up, Here # "all" => address = Here, Here = "all" => Target \in selected
         PROVE  Target \in Concerned(d)
    BY <1>8, <1>11, ConstantsAssumption DEF Concerned, Hearers
  <1>12. \A i \in 1 .. Size : Stored(i) => Stored(i)'
    BY StoredStays
  <1>13. /\ via = "main" => Here = device.target /\ Here # "all"
         /\ via = "fallback" => Here = "all"
    BY DEF Here
  <1>14. \/ EchoArrives /\ d.cmd.c = "X"
         \/ SelectArrives /\ d.cmd.c = "W"
         \/ LoginArrives /\ d.cmd.c = "L"
         \/ GetArrives /\ d.cmd.c = "G"
         \/ SetArrives /\ d.cmd.c = "S"
         \/ RebootArrives /\ d.cmd.c = "E"
    BY DEF Delivery, EchoArrives, SelectArrives, LoginArrives, GetArrives, SetArrives,
           RebootArrives, Arrives
  <1>15. \A i : Set(SetOrder[i]).c = "S" /\ Set(SetOrder[i]).field = SetOrder[i]
                /\ Set(SetOrder[i]).value = "new"
    BY DEF Set
  <1>16. \/ k = Start + 1 /\ k # LoginAt /\ via = "fallback" /\ SelectArrives /\ d.cmd.c = "W"
         \/ k = LoginAt /\ LoginArrives
         \/ \E i \in 1 .. Size :
              k = LoginAt + i /\ d.cmd = Set(SetOrder[i]) /\ SetOrder[i] \in Fields /\ SetArrives
         \/ k = LoginAt + Size + 1 /\ RebootArrives
    BY <1>3, <1>7, <1>8, <1>14, <1>15, PassAt
  <1> HIDE DEF d, k
  <1>17. a = k - 1
    BY DEF k
  <1>18. ASSUME k = Start + 1, k # LoginAt, via = "fallback", SelectArrives
         PROVE  Progress(k)'
    <2>1. /\ UNCHANGED <<settings, address, up, loggedIn>>
          /\ selected' = (selected \ Hearers(d)) \cup (Hearers(d) \cap {d.mac})
      BY <1>18 DEF SelectArrives, d
    <2>2. Target \in up /\ k < LoginAt
      BY <1>5, <1>6, <1>7, <1>17, <1>18 DEF Progress
    <2>3. Target \in selected'
      BY <1>8, <1>13, <1>18, <2>1, <2>2, ConstantsAssumption DEF Hearers
    <2>4. \A i \in 1 .. Size : ~(i <= k - LoginAt)
      BY <1>5, <1>7, <2>2
    <2>5. ~(LoginAt <= k)
      BY <1>5, <1>7, <2>2
    <2> QED BY <1>3, <1>4, <1>18, <2>1, <2>2, <2>3, <2>4, <2>5 DEF Progress
  <1>19. ASSUME k = LoginAt, LoginArrives PROVE Progress(k)'
    <2>1. UNCHANGED <<settings, address, up, selected>> /\ loggedIn' = loggedIn \cup Concerned(d)
      BY <1>19 DEF LoginArrives, d
    <2>2. /\ Target \in up
          /\ via = "main" => address = device.target
          /\ via = "fallback" => Target \in selected
      BY <1>5, <1>6, <1>17, <1>19 DEF Progress
    <2>3. Target \in Concerned(d)
      BY <1>3, <1>11, <1>13, <2>2
    <2>4. \A i \in 1 .. Size : ~(i <= k - LoginAt)
      BY <1>5, <1>7, <1>19
    <2> QED BY <1>3, <1>4, <2>1, <2>2, <2>3, <2>4 DEF Progress
  <1>20. ASSUME NEW i \in 1 .. Size, k = LoginAt + i, d.cmd = Set(SetOrder[i]),
                SetOrder[i] \in Fields, SetArrives
         PROVE  Progress(k)'
    <2>1. /\ UNCHANGED <<up, selected, loggedIn>>
          /\ settings' = [m \in Modules |->
                            IF m \in Obeys(d) THEN [settings[m] EXCEPT ![d.cmd.field] = d.cmd.value]
                            ELSE settings[m]]
          /\ address' # address => d.cmd.field = "ip_address"
      BY <1>20 DEF SetArrives, d
    <2>2. LoginAt <= a /\ a <= LoginAt + Size /\ a < LoginAt + Size /\ Start < a
      <3>1. Start < LoginAt
        BY <1>3, <1>5
      <3> QED BY <1>5, <1>17, <1>20, <3>1
    <2>3. /\ Target \in up /\ Target \in loggedIn
          /\ via = "main" => address = device.target
          /\ via = "fallback" => Target \in selected
      BY <1>6, <2>2 DEF Progress
    <2>4. Target \in Obeys(d)
      BY <1>3, <1>11, <1>13, <2>3 DEF Obeys
    <2>5. settings \in [Modules -> [Fields -> {"old", "new"}]] /\ Target \in Modules
      BY ConstantsAssumption DEF Typed, TypedModules
    <2>6. Stored(i)'
      BY <1>15, <1>20, <2>1, <2>4, <2>5 DEF Stored
    <2>7. \A j \in 1 .. Size : j <= k - LoginAt => j = i \/ j <= a - LoginAt
      BY <1>5, <1>17, <1>20
    <2>8. \A j \in 1 .. Size : j <= k - LoginAt => Stored(j)'
      BY <1>6, <1>12, <2>6, <2>7 DEF Progress
    <2>9. k < LoginAt + Size => UNCHANGED address
      <3>1. address' # address => i = Size
        BY <1>15, <1>20, <2>1, AddressLast
      <3> QED BY <1>5, <1>20, <3>1
    <2> QED BY <1>3, <1>4, <2>1, <2>3, <2>8, <2>9 DEF Progress
  <1>21. ASSUME k = LoginAt + Size + 1, RebootArrives PROVE Progress(k)'
    <2>1. ~(k <= LoginAt + Size) /\ ~(k < LoginAt + Size)
      BY <1>5, <1>21
    <2>2. \A j \in 1 .. Size : j <= k - LoginAt => j <= a - LoginAt
      BY <1>5, <1>17, <1>21
    <2>3. \A j \in 1 .. Size : j <= k - LoginAt => Stored(j)'
      BY <1>6, <1>12, <2>2 DEF Progress
    <2> QED BY <1>3, <1>4, <2>1, <2>3 DEF Progress
  <1>22. Progress(k)'
    BY <1>16, <1>18, <1>19, <1>20, <1>21
  <1>23. /\ Start' <= k /\ k <= b /\ b <= LoginAt' + Size + 1
    BY <1>4, <1>5, <1>6, <1>7
  <1>24. InPass(k, b)'
    BY <1>4, <1>9, <1>10, <1>22, <1>23 DEF InPass
  <1> QED BY <1>24 DEF k

\* The step the call is at, in a pass.
LEMMA StepAt ==
    ASSUME Typed, NEW b \in Nat, Start <= b, b <= LoginAt + Size + 1, At(b)
    PROVE  /\ script # <<>> /\ Head(script) = TwoPasses[b + 1]
           /\ script' = Tail(script) => At(b + 1)'
           /\ \/ /\ b + 1 \in Start + 1 .. LoginAt + Size + 1
                 /\ Head(script).do = "send" /\ Head(script).to = "target"
              \/ b = LoginAt + Size + 1 /\ Head(script).do = "sleep"
  <1>1. /\ Size \in Nat /\ Start \in Nat /\ LoginAt \in Nat
        /\ via = "main" => Start = 0 /\ LoginAt = 1
        /\ via = "fallback" => Start = Size + 4 /\ LoginAt = Size + 6
        /\ via \in {"main", "fallback"}
    BY Bases DEF Typed, TypedControl
  <1>2. b \in 0 .. 2 * Size + 7
    <2>1. CASE via = "main"
      BY <1>1, <2>1
    <2>2. CASE via = "fallback"
      BY <1>1, <2>2
    <2> QED BY <1>1, <2>1, <2>2
  <1>3. /\ script # <<>> /\ Head(script) = TwoPasses[b + 1]
        /\ script' = Tail(script) => At(b + 1)'
    BY <1>2, NextAt
  <1>4. CASE b = LoginAt + Size + 1
    <2>1. TwoPasses[LoginAt + Size + 2] = Do("sleep")
      BY Layout DEF LoginAt
    <2>2. b + 1 = LoginAt + Size + 2 /\ Do("sleep").do = "sleep"
      BY <1>1, <1>4 DEF Do, Step
    <2> QED BY <1>3, <1>4, <2>1, <2>2
  <1>5. CASE b # LoginAt + Size + 1
    <2>1. b + 1 \in Start + 1 .. LoginAt + Size + 1
      BY <1>1, <1>5
    <2>2. TwoPasses[b + 1].do = "send" /\ TwoPasses[b + 1].to = "target"
      BY <1>1, <2>1, PassAt
    <2> QED BY <1>3, <2>1, <2>2
  <1> QED BY <1>4, <1>5

\* What a step of the host does to a pass.
LEMMA PassMove ==
    ASSUME Typed, op = "save_config", HostMove, LeavesModules, ~hasty', device.mac = Target,
           NEW a \in Nat, NEW b \in Nat, InPass(a, b)
    PROVE  /\ UNCHANGED <<op, via, device>>
           /\ \/ InPass(a, b)'
              \/ InPass(a, b + 1)'
              \/ AllStored /\ b = LoginAt + Size + 1 /\ At(b + 1)'
  <1>1. /\ Size \in Nat /\ Start \in Nat /\ LoginAt \in Nat
        /\ via \in {"main", "fallback"} /\ toModules \in Seq(Datagrams)
    BY Bases DEF Typed, TypedControl, TypedNet
  <1>2. /\ Start <= a /\ a <= b /\ b <= LoginAt + Size + 1
        /\ At(b) /\ OnWay(a, b) /\ Progress(a)
    BY DEF InPass
  <1>3. Start <= b
    BY <1>1, <1>2
  <1>4. /\ script # <<>> /\ Head(script) = TwoPasses[b + 1]
        /\ script' = Tail(script) => At(b + 1)'
        /\ \/ /\ b + 1 \in Start + 1 .. LoginAt + Size + 1
              /\ Head(script).do = "send" /\ Head(script).to = "target"
           \/ b = LoginAt + Size + 1 /\ Head(script).do = "sleep"
    BY <1>2, <1>3, StepAt
  <1>5. Head(script).do \in {"send", "sleep"}
    BY <1>4
  <1>6. UNCHANGED <<device, settings, address, up, selected, loggedIn>>
    BY DEF LeavesModules, modules
  <1>7. CASE Waits
    <2>1. UNCHANGED <<op, script, via, toModules>>
      BY <1>7 DEF Waits
    <2> QED BY <1>6, <2>1 DEF InPass, At, OnWay, Progress, Start, LoginAt, Here, Stored, Size, TwoPasses
  <1>8. CASE PutsOut
    <2>1. /\ Head(script).do = "send" /\ UNCHANGED <<op, via>> /\ script' = Tail(script)
          /\ toModules' = Append(toModules, Datagram)
      BY <1>8 DEF PutsOut, Advance
    <2>2. Datagram \in Datagrams
      BY <1>4, <2>1, Sent
    <2>3. /\ b + 1 \in Start + 1 .. LoginAt + Size + 1 /\ Head(script).to = "target"
      BY <1>4, <2>1
    <2>4. Datagram.cmd = TwoPasses[b + 1].cmd /\ Datagram.to = Here /\ Datagram.mac = Target
      BY <1>4, <2>3 DEF Datagram, Here
    <2>5. Start' = Start /\ LoginAt' = LoginAt /\ Here' = Here /\ Size' = Size
      BY <1>6, <2>1 DEF Start, LoginAt, Here, Size
    <2>6. OnWay(a, b + 1)'
      <3>1. /\ Len(toModules') = Len(toModules) + 1 /\ Len(toModules) \in Nat
            /\ toModules'[Len(toModules) + 1] = Datagram
            /\ \A j \in 1 .. Len(toModules) : toModules'[j] = toModules[j]
        BY <1>1, <2>1, <2>2
      <3>2. Len(toModules') = (b + 1) - a /\ a + (Len(toModules) + 1) = b + 1
        BY <1>2, <3>1 DEF OnWay
      <3>3. ASSUME NEW j \in 1 .. Len(toModules')
            PROVE  /\ toModules'[j].cmd = TwoPasses[a + j].cmd
                   /\ toModules'[j].to = Here /\ toModules'[j].mac = Target
        <4>1. CASE j \in 1 .. Len(toModules)
          BY <1>2, <3>1, <4>1 DEF OnWay
        <4>2. CASE j = Len(toModules) + 1
          BY <2>4, <3>1, <3>2, <4>2
        <4> QED BY <3>1, <4>1, <4>2
      <3> QED BY <2>5, <3>2, <3>3 DEF OnWay, TwoPasses, Here
    <2>7. Progress(a)'
      BY <1>2, <1>6, <2>1, <2>5 DEF Progress, Stored
    <2>8. a <= b + 1 /\ b + 1 <= LoginAt + Size + 1
      BY <1>1, <1>2, <2>3
    <2>9. InPass(a, b + 1)'
      BY <1>2, <1>4, <2>1, <2>5, <2>6, <2>7, <2>8 DEF InPass
    <2> QED BY <1>6, <2>1, <2>9
  <1>9. CASE Passes
    <2>1. /\ Head(script).do = "sleep" /\ toModules = <<>> /\ UNCHANGED <<op, via>>
          /\ script' = Tail(script)
      BY <1>5, <1>9 DEF Passes, Advance
    <2>2. b = LoginAt + Size + 1 /\ At(b + 1)'
      BY <1>4, <2>1
    <2>3. Len(toModules) = 0
      BY <2>1
    <2>4. a = b
      BY <1>2, <2>3 DEF OnWay
    <2>5. \A i \in 1 .. Size : i <= a - LoginAt
      BY <1>1, <2>2, <2>4
    <2>6. AllStored
      BY <1>2, <2>5 DEF Progress, AllStored
    <2> QED BY <1>6, <2>1, <2>2, <2>6
  <1>10. ~Ends /\ ~Asks /\ ~FallsBack
    BY <1>4, <1>5 DEF Ends, Asks, FallsBack
  <1> QED BY <1>7, <1>8, <1>9, <1>10 DEF HostMove

\* A sleep that was too short stays one until the next call.
LEMMA HastyStays ==
    ASSUME HostStep, ~hasty'
    PROVE  ~hasty
  <1>1. Finish("returned") \/ Finish("TimeoutError") \/ Finish("ValueError")
          \/ Finish("ConnectionError") \/ Advance \/ UNCHANGED hasty
    BY DEF HostStep, Return, DoSend, RequestSends, NoReply, Reply, Collect, CollectEnds, Drain,
           Sleep, Fallback, control
  <1> QED BY <1>1 DEF Finish, Advance

\* Between the passes the target runs, and nothing is under way.
LEMMA BetweenPasses ==
    ASSUME Typed, Scripted, Saved, op # "none", HostMove, LeavesModules, ~hasty, ~hasty',
           script' # <<>>, Head(script').do = "fallback"
    PROVE  toModules' = <<>> /\ Target \in up'
  <1>1. script \in Seq(Steps) /\ UNCHANGED up
    BY DEF Typed, TypedControl, LeavesModules, modules
  <1>2. CASE UNCHANGED script
    <2>1. UNCHANGED toModules
      BY <1>2 DEF HostMove, Waits, Ends, Passes, PutsOut, Asks, FallsBack, Advance, Finish
    <2> QED BY <1>1, <1>2, <2>1 DEF Saved
  <1>3. CASE script # <<>> /\ script' = Tail(script)
    <2>1. Head(script).do = "sleep"
      BY <1>1, <1>3, NextInScript DEF Scripted, Fitting
    <2>2. UNCHANGED script \/ Passes
      BY <1>3, <2>1 DEF HostMove, Waits, Ends, Passes, PutsOut, Asks, FallsBack, Finish
    <2>3. CASE Passes
      BY <1>1, <2>1, <2>3 DEF Passes
    <2> QED BY <1>2, <2>2, <2>3
  <1> QED BY <1>2, <1>3 DEF HostMove, Waits, Ends, Passes, PutsOut, Asks, FallsBack, Advance, Finish

Aiming == op = "save_config" /\ aimed /\ ~hasty /\ device.mac = Target /\ lost <= 1

\* The host moves on in the first pass, or to the second one.
LEMMA SavingMoveMain ==
    ASSUME Typed, Scripted, Saving, Saved, HostMove, LeavesModules, Aiming, ~hasty', via = "main",
           AllStored => AllStored'
    PROVE  Saving' /\ op' = op
  <1>1. /\ Size \in Nat /\ Start = 0 /\ LoginAt = 1 /\ via \in {"main", "fallback"}
        /\ op = "save_config" /\ device.mac = Target /\ device.target # "all"
    BY Bases DEF Aiming, Saving
  <1>2. PICK b \in 0 .. Size + 3 :
          At(b) /\ (lost = 0 => AllStored \/ \E a \in 0 .. Size + 2 : InPass(a, b))
    BY DEF Aiming, Saving
  <1>3. UNCHANGED <<device, aimed, lost, up, settings>> /\ Size' = Size
    BY <1>1 DEF LeavesModules, modules, calls, faults, Size
  <1>4. lost = 0 \/ lost = 1
    BY DEF Aiming, Typed, TypedNet
  <1>5. CASE b = Size + 3
    <2>1. script # <<>> /\ Head(script).do = "fallback" /\ (script' = Tail(script) => At(b + 1)')
      <3>1. b \in 0 .. 2 * Size + 7 /\ b + 1 = Size + 4
        BY <1>1, <1>5
      <3> QED BY <1>2, <3>1, NextAt, Layout, StepParts
    <2>2. ~(\E a \in 0 .. Size + 2 : InPass(a, b))
      BY <1>1, <1>5 DEF InPass
    <2>3. toModules = <<>> /\ Target \in up
      BY <2>1 DEF Saved, Aiming
    <2>4. CASE Waits
      <3>1. UNCHANGED <<op, via, script>>
        BY <2>4 DEF Waits
      <3>2. At(b)' /\ (lost' = 0 => AllStored')
        BY <1>2, <1>3, <2>2, <3>1 DEF At, TwoPasses, Size
      <3>3. Saving'
        BY <1>1, <1>2, <1>3, <1>5, <3>1, <3>2 DEF Saving
      <3> QED BY <3>1, <3>3
    <2>5. CASE FallsBack
      <3>1. via' = "fallback" /\ script' = Tail(script) /\ UNCHANGED <<op, toModules>>
        BY <2>5 DEF FallsBack
      <3>2. CASE lost = 0
        <4>1. AllStored'
          BY <1>2, <2>2, <3>2
        <4> QED BY <1>1, <1>3, <3>1, <4>1 DEF Saving
      <3>3. CASE lost = 1
        <4> DEFINE a == Size + 4
        <4>1. Start' = a /\ LoginAt' = a + 2 /\ a \in Nat /\ b + 1 = a
          BY <1>1, <1>3, <1>5, <3>1 DEF Start, LoginAt
        <4> HIDE DEF a
        <4>2. At(a)'
          BY <2>1, <3>1, <4>1
        <4>3. OnWay(a, a)'
          <5>1. Len(toModules') = 0 /\ a - a = 0
            BY <2>3, <3>1, <4>1
          <5> QED BY <5>1 DEF OnWay
        <4>4. Progress(a)'
          <5>1. ~(LoginAt' <= a) /\ ~(Start' < a) /\ \A i \in 1 .. Size : ~(i <= a - LoginAt')
            BY <1>1, <4>1
          <5> QED BY <1>3, <2>3, <3>1, <5>1 DEF Progress
        <4>5. Start' <= a /\ a <= a /\ a <= LoginAt' + Size + 1
          BY <1>1, <4>1
        <4>6. InPass(a, a)'
          BY <1>3, <4>2, <4>3, <4>4, <4>5 DEF InPass
        <4>7. a \in Size + 4 .. 2 * Size + 7
          BY <1>1 DEF a
        <4> QED BY <1>1, <1>3, <3>1, <3>3, <4>6, <4>7 DEF Saving
      <3> QED BY <1>4, <3>1, <3>2, <3>3
    <2>6. ~Ends /\ ~Passes /\ ~PutsOut /\ ~Asks
      BY <2>1 DEF Ends, Passes, PutsOut, Asks
    <2> QED BY <2>4, <2>5, <2>6 DEF HostMove
  <1>6. CASE b # Size + 3
    <2>1. b \in 0 .. Size + 2 /\ b \in Nat /\ Start <= b /\ b <= LoginAt + Size + 1
          /\ b + 1 \in 0 .. Size + 3
      BY <1>1, <1>2, <1>6
    <2>2. /\ script # <<>> /\ (script' = Tail(script) => At(b + 1)')
          /\ Head(script).do \in {"send", "sleep"}
      BY <1>2, <2>1, StepAt
    <2>3. \/ Waits
          \/ UNCHANGED <<op, via>> /\ script' = Tail(script)
      BY <2>2 DEF HostMove, Ends, Passes, PutsOut, Asks, FallsBack, Advance
    <2>4. UNCHANGED <<op, via>> /\ (At(b)' \/ At(b + 1)')
      BY <1>2, <1>3, <2>2, <2>3 DEF Waits, At, TwoPasses, Size
    <2>5. CASE lost = 1
      <3>1. \E c \in 0 .. Size + 3 : At(c)'
        BY <2>1, <2>4
      <3> QED BY <1>1, <1>3, <2>4, <2>5, <3>1 DEF Saving
    <2>6. CASE AllStored
      <3>1. \E c \in 0 .. Size + 3 : At(c)'
        BY <2>1, <2>4
      <3>2. AllStored'
        BY <2>6
      <3> QED BY <1>1, <1>3, <2>4, <3>1, <3>2 DEF Saving
    <2>7. ASSUME NEW a \in 0 .. Size + 2, InPass(a, b)
          PROVE  Saving' /\ op' = op
      <3>1. \/ InPass(a, b)'
            \/ InPass(a, b + 1)'
            \/ AllStored /\ At(b + 1)'
        BY <1>1, <2>1, <2>7, PassMove
      <3>2. \E c \in 0 .. Size + 3 : At(c)' /\ (AllStored' \/ \E e \in 0 .. Size + 2 : InPass(e, c)')
        BY <1>2, <2>1, <3>1 DEF InPass
      <3> QED BY <1>1, <1>3, <2>4, <3>2 DEF Saving
    <2> QED BY <1>2, <1>4, <2>5, <2>6, <2>7
  <1> QED BY <1>5, <1>6

\* The host moves on in the second pass, or is through.
LEMMA SavingMoveFallback ==
    ASSUME Typed, Saving, HostMove, LeavesModules, Aiming, ~hasty', via = "fallback",
           AllStored => AllStored'
    PROVE  Saving' /\ (op' = op \/ AllStored')
  <1>1. /\ Size \in Nat /\ Start = Size + 4 /\ LoginAt = Size + 6 /\ via \in {"main", "fallback"}
        /\ op = "save_config" /\ device.mac = Target /\ device.target # "all"
    BY Bases DEF Aiming, Saving
  <1>2. AllStored \/ (lost = 1 /\ \E a, b \in Size + 4 .. 2 * Size + 7 : InPass(a, b))
    BY DEF Aiming, Saving
  <1>3. UNCHANGED <<device, aimed, lost>> /\ Size' = Size
    BY <1>1 DEF LeavesModules, calls, faults, Size
  <1>4. CASE AllStored
    <2>1. AllStored' /\ (op' = op => via' = "fallback")
      BY <1>1, <1>4 DEF HostMove, Waits, Ends, Passes, PutsOut, Asks, FallsBack, Advance, Finish,
                        Typed, TypedControl
    <2>2. op' = op \/ op' = "none"
      BY DEF HostMove, Waits, Ends, Passes, PutsOut, Asks, FallsBack, Advance, Finish
    <2> QED BY <1>1, <1>3, <2>1, <2>2 DEF Saving
  <1>5. ASSUME NEW a \in Size + 4 .. 2 * Size + 7, NEW b \in Size + 4 .. 2 * Size + 7,
               InPass(a, b), lost = 1
        PROVE  Saving' /\ op' = op
    <2>1. a \in Nat /\ b \in Nat
      BY <1>1
    <2>2. /\ UNCHANGED <<op, via, device>>
          /\ \/ InPass(a, b)'
             \/ InPass(a, b + 1)'
             \/ AllStored
      BY <1>1, <1>5, <2>1, PassMove
    <2>3. InPass(a, b + 1)' => b + 1 \in Size + 4 .. 2 * Size + 7
      <3>1. LoginAt' = Size + 6
        BY <1>1, <1>3, <2>2 DEF LoginAt
      <3>2. InPass(a, b + 1)' => b + 1 <= (Size + 6) + Size + 1
        BY <1>3, <3>1 DEF InPass
      <3> QED BY <1>1, <3>2
    <2>4. AllStored' \/ \E e, c \in Size + 4 .. 2 * Size + 7 : InPass(e, c)'
      BY <1>5, <2>2, <2>3
    <2> QED BY <1>1, <1>3, <1>5, <2>2, <2>4 DEF Saving
  <1> QED BY <1>2, <1>4, <1>5

LEMMA SavingHost ==
    ASSUME Typed, Scripted, Saving, Saved, HostStep
    PROVE  Saving' /\ Saved'
  <1>1. op # "none" /\ HostMove /\ LeavesModules
    BY HostMoves
  <1>2. AllStored => AllStored'
    BY StoredStays DEF AllStored, Next, Size
  <1>3. ~hasty' => ~hasty
    BY HastyStays
  <1>4. script' # <<>> /\ Head(script').do = "fallback" /\ ~hasty' =>
          toModules' = <<>> /\ Target \in up'
    BY <1>1, <1>3, BetweenPasses
  <1>5. UNCHANGED <<aimed, lost>> /\ (op # "connect" => UNCHANGED device)
    BY <1>1 DEF LeavesModules, calls, faults
  <1>6. \/ op' = op
        \/ op' = "none" /\ outcome'.op = op
    BY <1>1 DEF HostMove, Waits, Ends, Passes, PutsOut, Asks, FallsBack, Advance, Finish
  <1>7. CASE op # "save_config"
    <2>1. op' # "save_config" /\ ~Returned("save_config")'
      BY <1>1, <1>6, <1>7 DEF Returned
    <2> QED BY <1>4, <2>1 DEF Saving, Saved
  <1>8. CASE op = "save_config" /\ ~Aiming
    <2>1. ~(aimed' /\ ~hasty' /\ device'.mac = Target /\ lost' <= 1)
      BY <1>5, <1>8, <1>3 DEF Aiming
    <2> QED BY <1>4, <2>1 DEF Saving, Saved
  <1>9. CASE hasty'
    BY <1>4, <1>9 DEF Saving, Saved
  <1>10. CASE Aiming /\ ~hasty'
    <2>1. Saving' /\ (op' = op \/ AllStored')
      BY <1>1, <1>2, <1>10, SavingMoveMain, SavingMoveFallback DEF Typed, TypedControl
    <2>2. AllStored' \/ ~Returned("save_config")'
      BY <1>1, <2>1 DEF Returned
    <2> QED BY <1>4, <2>1, <2>2 DEF Saved
  <1> QED BY <1>7, <1>8, <1>10, <1>9 DEF Aiming

LEMMA SavingDelivery ==
    ASSUME Typed, Scripted, Saving, Saved, Delivery
    PROVE  Saving' /\ Saved'
  <1>1. AllStored => AllStored'
    BY StoredStays DEF AllStored, Next, Size
  <1>2. /\ toModules # <<>> /\ UNCHANGED <<op, script, via, device, outcome, aimed, hasty>>
        /\ lost \in Nat /\ lost' \in Nat /\ lost <= lost'
    BY DeliveryAnswers DEF host, own, control, ended, calls, Typed, TypedNet
  <1>3. Saved'
    <2>1. ~(script # <<>> /\ Head(script).do = "fallback" /\ ~hasty)
      BY <1>2 DEF Saved
    <2>2. Returned("save_config")' = Returned("save_config")
      BY <1>2 DEF Returned
    <2>3. lost' <= 1 => lost <= 1
      BY <1>2
    <2> QED BY <1>1, <1>2, <2>1, <2>2, <2>3 DEF Saved
  <1>4. ASSUME op = "save_config", aimed, ~hasty, device.mac = Target, lost' <= 1
        PROVE  Saving'
    <2>1. lost <= 1 /\ lost \in {0, 1} /\ (lost' = 0 => lost = 0) /\ (lost = 1 => lost' = 1)
      BY <1>2, <1>4
    <2>2. device.target # "all" /\ Size \in Nat /\ via \in {"main", "fallback"}
      BY <1>4, <2>1, Layout DEF Saving, Typed, TypedControl
    <2>3. ASSUME NEW a \in Nat, NEW b \in Nat, InPass(a, b) PROVE InPass(a + 1, b)'
      BY <2>2, <2>3, PassDelivery DEF Next
    <2>4. CASE via = "main"
      <3>1. PICK b \in 0 .. Size + 3 :
              At(b) /\ (lost = 0 => AllStored \/ \E a \in 0 .. Size + 2 : InPass(a, b))
        BY <1>4, <2>1, <2>4 DEF Saving
      <3>2. At(b)' /\ b \in Nat
        <4>1. b \in Nat
          BY <2>2, <3>1
        <4>2. At(b)'
          BY <1>2, <3>1 DEF At, TwoPasses, Size
        <4> QED BY <4>1, <4>2
      <3>3. ASSUME NEW a \in 0 .. Size + 2, InPass(a, b), lost = 0
            PROVE  \E e \in 0 .. Size + 2 : InPass(e, b)'
        <4>1. InPass(a + 1, b)' /\ a + 1 \in Nat
          BY <2>2, <2>3, <3>2, <3>3
        <4>2. LoginAt' = 1 /\ Size' = Size
          BY <1>2, <2>4 DEF LoginAt, Size
        <4>3. a + 1 <= b /\ b <= 1 + Size + 1
          BY <4>1, <4>2 DEF InPass
        <4>4. a + 1 \in 0 .. Size + 2
          BY <2>2, <3>2, <4>1, <4>3
        <4> QED BY <4>1, <4>4
      <3>4. lost' = 0 => AllStored' \/ \E e \in 0 .. Size + 2 : InPass(e, b)'
        BY <1>1, <2>1, <3>1, <3>3
      <3> QED BY <1>2, <2>2, <2>4, <3>2, <3>4 DEF Saving, Size
    <2>5. CASE via = "fallback"
      <3>1. AllStored \/ (lost = 1 /\ \E a, b \in Size + 4 .. 2 * Size + 7 : InPass(a, b))
        BY <1>4, <2>1, <2>5 DEF Saving
      <3>2. ASSUME NEW a \in Size + 4 .. 2 * Size + 7, NEW b \in Size + 4 .. 2 * Size + 7,
                   InPass(a, b)
            PROVE  \E e, c \in Size + 4 .. 2 * Size + 7 : InPass(e, c)'
        <4>1. InPass(a + 1, b)' /\ a + 1 \in Nat /\ b \in Nat
          BY <2>2, <2>3, <3>2
        <4>2. a + 1 <= b
          BY <4>1 DEF InPass
        <4>3. a + 1 \in Size + 4 .. 2 * Size + 7
          BY <2>2, <4>1, <4>2
        <4> QED BY <4>1, <4>3
      <3>3. AllStored' \/ (lost' = 1 /\ \E e, c \in Size + 4 .. 2 * Size + 7 : InPass(e, c)')
        BY <1>1, <2>1, <3>1, <3>2
      <3> QED BY <1>2, <2>2, <2>5, <3>3 DEF Saving, Size
    <2> QED BY <2>2, <2>4, <2>5
  <1> QED BY <1>2, <1>3, <1>4 DEF Saving

LEMMA SavingSame ==
    ASSUME Saving, Saved,
           UNCHANGED <<op, script, via, device, outcome, aimed, hasty, lost, toModules>>,
           UNCHANGED <<settings, address, up, selected, loggedIn>>
    PROVE  Saving' /\ Saved'
  <1>1. Start' = Start /\ LoginAt' = LoginAt /\ Here' = Here /\ Size' = Size
    BY DEF Start, LoginAt, Here, Size
  <1>2. AllStored' = AllStored
    BY DEF AllStored, Stored, Size
  <1>3. \A a : Progress(a)' = Progress(a)
    BY <1>1 DEF Progress, Stored
  <1>4. \A a, b : InPass(a, b)' = InPass(a, b) /\ At(b)' = At(b)
    <2>1. \A b : At(b)' = At(b)
      BY DEF At, TwoPasses, Size
    <2>2. \A a, b : OnWay(a, b)' = OnWay(a, b)
      BY <1>1 DEF OnWay, TwoPasses
    <2> QED BY <1>1, <1>3, <2>1, <2>2 DEF InPass
  <1>5. Saving'
    BY <1>1, <1>2, <1>4 DEF Saving
  <1>6. Saved'
    BY <1>2 DEF Saved, Returned
  <1> QED BY <1>5, <1>6

LEMMA SavingStep ==
    ASSUME Typed, Scripted, Saving, Saved, Next
    PROVE  Saving' /\ Saved'
  <1>0. AllStored => AllStored'
    BY StoredStays DEF AllStored, Size
  <1>1. CASE HostStep
    BY <1>1, SavingHost
  <1>2. CASE Delivery
    BY <1>2, SavingDelivery
  <1>3. ASSUME op = "none", op' = "none", UNCHANGED script,
               Returned("save_config")' => Returned("save_config") /\ UNCHANGED <<device, aimed, hasty, lost>>
        PROVE  Saving' /\ Saved'
    <2>1. script = <<>>
      BY <1>3 DEF Typed, TypedControl
    <2> QED BY <1>0, <1>3, <2>1 DEF Saving, Saved
  <1>4. ASSUME NEW d \in Devices, New(d) PROVE Saving' /\ Saved'
    BY <1>3, <1>4 DEF New, control, Returned, NoOutcome
  <1>5. CASE Close
    BY <1>3, <1>5 DEF Close, control, ended, calls, faults, Returned
  <1>6. ASSUME NEW method \in Methods, CallClosed(method) PROVE Saving' /\ Saved'
    BY <1>3, <1>6 DEF CallClosed, control, Returned
  <1>7. ASSUME NEW method \in Methods, Call(method) PROVE Saving' /\ Saved'
    <2>1. /\ op' = method /\ script' = Script(method) /\ UNCHANGED <<via, own>> /\ op = "none"
          /\ UNCHANGED <<toModules, modules, faults>>
          /\ aimed' = (toModules = <<>> /\ up = Modules /\ device.target = address)
      BY <1>7 DEF Call
    <2>2. method \in AllMethods /\ method # "none"
      BY ConstantsAssumption DEF AllMethods
    <2>3. UNCHANGED <<device, up, address, lost>> /\ via' = "main" /\ via = "main"
      BY <2>1 DEF own, modules, faults, Scripted
    <2>4. script' # <<>> /\ Head(script').do = "fallback" => FALSE
      <3>1. script' \in Seq(Steps)
        BY <2>1, <2>2, ScriptType
      <3>2. script' # <<>> => script'[1].do # "fallback"
        BY <2>1, <2>2, ScriptFitting
      <3>3. script' # <<>> => Head(script') = script'[1]
        BY <3>1
      <3> QED BY <3>2, <3>3
    <2>5. Saved'
      BY <2>1, <2>2, <2>4 DEF Saved, Returned
    <2>6. ASSUME method = "save_config", aimed' PROVE Saving'
      <3>1. /\ toModules = <<>> /\ toModules' = <<>> /\ up = Modules
            /\ device.target = address /\ address \in {"old", "new"}
        BY <2>1, <2>6 DEF Typed, TypedModules
      <3>2. script' = TwoPasses
        BY <2>1, <2>6, <3>1 DEF Script, save_config, SecondPass, TwoPasses
      <3>3. /\ Size \in Nat /\ Start' = 0 /\ LoginAt' = 1 /\ Size' = Size
            /\ Len(TwoPasses) = 2 * Size + 8 /\ TwoPasses \in Seq(Steps)
        BY <2>3, Layout DEF Start, LoginAt, Size
      <3>4. At(0)'
        <4>1. /\ Len(TwoPasses) = (2 * Size + 8) - 0
              /\ \A j \in 1 .. Len(TwoPasses) : TwoPasses[j] = TwoPasses[0 + j]
          BY <3>3
        <4> QED BY <3>2, <3>3, <4>1 DEF At, TwoPasses
      <3>5. OnWay(0, 0)'
        BY <3>1 DEF OnWay
      <3>6. Progress(0)'
        <4>1. ~(1 <= 0) /\ \A i \in 1 .. Size : ~(i <= 0 - 1)
          BY <3>3
        <4> QED BY <2>3, <3>1, <3>3, <4>1, ConstantsAssumption DEF Progress
      <3>7. InPass(0, 0)'
        <4>1. 0 <= 0 /\ 0 <= 1 + Size + 1
          BY <3>3
        <4> QED BY <3>3, <3>4, <3>5, <3>6, <4>1 DEF InPass
      <3>8. 0 \in 0 .. Size + 3 /\ 0 \in 0 .. Size + 2
        BY <3>3
      <3> QED BY <2>3, <3>1, <3>3, <3>4, <3>7, <3>8 DEF Saving
    <2>7. Saving'
      BY <2>1, <2>6 DEF Saving
    <2> QED BY <2>5, <2>7
  <1>8. ASSUME NEW m \in Modules, Boots(m) PROVE Saving' /\ Saved'
    <2>1. /\ UNCHANGED <<op, script, via, device, outcome, aimed, hasty, lost>>
          /\ UNCHANGED <<toModules, settings, selected, loggedIn>>
          /\ m \notin up /\ up' = up \cup {m} /\ (m # Target => UNCHANGED address)
      BY <1>8 DEF Boots, host, own, control, ended, calls, faults
    <2>2. Start' = Start /\ LoginAt' = LoginAt /\ Here' = Here /\ Size' = Size
      BY <2>1 DEF Start, LoginAt, Here, Size
    <2>3. ASSUME NEW a \in Int, Progress(a) PROVE Progress(a)'
      <3>1. a < LoginAt + Size => UNCHANGED address
        <4>1. a < LoginAt + Size => a <= LoginAt + Size
          BY Bases DEF Typed, TypedControl
        <4> QED BY <2>1, <2>3, <4>1 DEF Progress
      <3> QED BY <2>1, <2>2, <2>3, <3>1 DEF Progress, Stored
    <2>4. ASSUME NEW a \in Int, NEW b, InPass(a, b) PROVE InPass(a, b)'
      <3>1. At(b)' /\ OnWay(a, b)'
        BY <2>1, <2>2, <2>4 DEF InPass, At, OnWay, TwoPasses, Here
      <3> QED BY <2>2, <2>3, <2>4, <3>1 DEF InPass
    <2>5. \A b : At(b) => At(b)'
      BY <2>1 DEF At, TwoPasses, Size
    <2>6. /\ (0 .. Size + 2) \subseteq Int /\ (Size + 4 .. 2 * Size + 7) \subseteq Int
          /\ (0 .. Size + 3) \subseteq Int
      BY Layout
    <2>7. Saving'
      BY <1>0, <2>1, <2>2, <2>4, <2>5, <2>6 DEF Saving
    <2>8. Saved'
      BY <1>0, <2>1 DEF Saved, Returned
    <2> QED BY <2>7, <2>8
  <1>9. CASE Lose
    <2>1. /\ UNCHANGED <<op, script, via, device, outcome, aimed, hasty>> /\ UNCHANGED modules
          /\ lost \in Nat /\ lost' = lost + 1 /\ toModules # <<>>
      BY <1>9 DEF Lose, host, own, control, ended, calls, faults, Typed, TypedNet
    <2>2. lost' <= 1 => lost = 0 /\ lost <= 1 /\ lost' = 1
      BY <2>1
    <2>3. Saved'
      BY <1>0, <2>1, <2>2 DEF Saved, Returned, modules
    <2>4. \A b : At(b) => At(b)'
      BY <2>1 DEF At, TwoPasses, Size
    <2>5. Saving'
      BY <1>0, <2>1, <2>2, <2>4 DEF Saving, Size
    <2> QED BY <2>3, <2>5
  <1>10. ASSUME NEW kind \in StrayKinds, Stray(kind) PROVE Saving' /\ Saved'
    <2>1. /\ UNCHANGED <<op, script, via, device, outcome, aimed, hasty, lost, toModules>>
          /\ UNCHANGED <<settings, address, up, selected, loggedIn>>
      BY <1>10 DEF Stray, host, own, control, ended, calls, faults, modules
    <2> QED BY <2>1, SavingSame
  <1> QED BY <1>1, <1>2, <1>4, <1>5, <1>6, <1>7, <1>8, <1>9, <1>10 DEF Next

\* Whatever was called before and in whatever way the one datagram is lost, a
\* save_config() that returns on a device that found its module where it looked for
\* it, knows its MAC address, and slept long enough for everything to arrive and the
\* module to run again has stored every setting.
THEOREM StoredDespiteOneLoss == Spec => []SavedDespiteOneLoss
  <1>1. Init => Saving /\ Saved
    BY DEF Init, Saving, Saved, Returned, NoOutcome
  <1>2. Typed /\ Scripted /\ Saving /\ Saved /\ [Next]_vars => Saving' /\ Saved'
    <2>1. ASSUME Saving, Saved, UNCHANGED vars PROVE Saving' /\ Saved'
      BY <2>1, SavingSame DEF vars, host, own, control, ended, modules, faults, calls
    <2> QED BY <2>1, SavingStep
  <1>3. Saved => SavedDespiteOneLoss
    BY DEF Saved, SavedDespiteOneLoss, AllStored, Stored, Size
  <1> QED BY <1>1, <1>2, <1>3, AlwaysScripted, PTL DEF Spec
=============================================================================
