---------------------------- MODULE ServerProofs ----------------------------
(***************************************************************************)
(* Proofs about Server for any peers, whatever they write, and any command *)
(* lines: who holds which connection, where a message is, and in which     *)
(* order it is logged.                                                     *)
(***************************************************************************)
EXTENDS Server, SelectionProofs

\* The main thread has a connection in hand exactly between accept() and
\* Thread.start().
InvHands ==
    /\ main \in {"parse", "accept", "start", "stopped", "failed", "exited"}
    /\ accepted \in Peers \cup {Nobody}
    /\ main = "start" <=> accepted # Nobody
    /\ socket \in [Peers -> {"none", "open", "closed"}]
    /\ thread \in [Peers -> {"none", "recv", "log", "finally", "ended"}]

\* Stronger than SocketsOwned: nothing of it depends on the process being alive.
InvOwned ==
    \A p \in Peers : socket[p] = "open" => p = accepted \/ p \in Running

Inv == InvHands /\ InvOwned

LEMMA InitInv == Init => Inv
  <1> SUFFICES ASSUME Init PROVE Inv
    OBVIOUS
  <1>1. /\ main = "parse" /\ accepted = Nobody
        /\ socket = [p \in Peers |-> "none"] /\ thread = [p \in Peers |-> "none"]
    BY DEF Init
  <1>2. InvHands
    BY <1>1 DEF InvHands
  <1>3. InvOwned
    BY <1>1 DEF InvOwned
  <1> QED BY <1>2, <1>3 DEF Inv

\* A step that leaves the main thread, the sockets and the threads alone.
LEMMA Untouched ==
    ASSUME Inv, UNCHANGED <<main, accepted, socket, thread>>
    PROVE  Inv'
  <1>1. InvHands'
    BY DEF Inv, InvHands
  <1>2. InvOwned'
    BY DEF Inv, InvOwned, Running
  <1> QED BY <1>1, <1>2 DEF Inv

LEMMA PeerInv ==
    ASSUME Inv, NEW p \in Peers, PeerStep(p)
    PROVE  Inv'
  <1>1. UNCHANGED <<main, accepted, ours>>
    BY DEF PeerStep, PeerConnects, PeerCloses, PeerBreaks, PeerWrites, PeerStopsShort
  <1> QED BY <1>1, Untouched DEF ours

LEMMA MainInv ==
    ASSUME Inv, NEW args \in CommandLines, Main(args)
    PROVE  Inv'
  <1>1. /\ main = "parse" /\ main' \in {"accept", "failed", "exited"}
        /\ UNCHANGED <<accepted, socket, thread>>
    BY DEF Main, ours
  <1>2. InvHands'
    BY <1>1 DEF Inv, InvHands
  <1>3. InvOwned'
    BY <1>1 DEF Inv, InvOwned, Running
  <1> QED BY <1>2, <1>3 DEF Inv

LEMMA AcceptInv ==
    ASSUME Inv, NEW p \in Peers, Accept(p)
    PROVE  Inv'
  <1>1. /\ main = "accept" /\ main' = "start" /\ accepted' = p /\ thread' = thread
        /\ socket' = [socket EXCEPT ![p] = "open"]
    BY DEF Accept
  <1>2. accepted = Nobody /\ p # Nobody
    BY <1>1, NobodyAssumption DEF Inv, InvHands
  <1>3. InvHands'
    BY <1>1, <1>2 DEF Inv, InvHands
  <1>4. ASSUME NEW q \in Peers, socket'[q] = "open" PROVE q = p \/ q \in Running
    <2>1. CASE q # p
      <3>1. socket[q] = "open" /\ q # accepted
        BY <1>1, <1>2, <1>4, <2>1, NobodyAssumption DEF Inv, InvHands
      <3> QED BY <3>1 DEF Inv, InvOwned
    <2> QED BY <2>1
  <1>5. InvOwned'
    BY <1>1, <1>4 DEF InvOwned, Running
  <1> QED BY <1>3, <1>5 DEF Inv

LEMMA StartInv ==
    ASSUME Inv, StartThread
    PROVE  Inv'
  <1>1. /\ main = "start" /\ main' = "accept" /\ accepted' = Nobody /\ socket' = socket
        /\ thread' = [thread EXCEPT ![accepted] = "recv"]
    BY DEF StartThread
  <1>2. InvHands'
    BY <1>1 DEF Inv, InvHands
  <1>3. ASSUME NEW q \in Peers, socket'[q] = "open"
        PROVE  thread'[q] \notin {"none", "ended"}
    <2>1. q = accepted \/ q \in Running
      BY <1>1, <1>3 DEF Inv, InvOwned
    <2>2. CASE q = accepted
      BY <1>1, <2>2 DEF Inv, InvHands
    <2>3. CASE q # accepted
      BY <1>1, <2>1, <2>3 DEF Inv, InvHands, Running
    <2> QED BY <2>2, <2>3
  <1>4. InvOwned'
    BY <1>3 DEF InvOwned, Running
  <1> QED BY <1>2, <1>4 DEF Inv

\* start_server() returns or raises with or without a connection in hand.
LEMMA StopInv ==
    ASSUME Inv, ServingFails \/ Interrupt
    PROVE  Inv'
  <1>1. /\ main' \in {"stopped", "failed"} /\ accepted' = Nobody /\ thread' = thread
        /\ socket' = [p \in Peers |-> IF p = accepted THEN "closed" ELSE socket[p]]
    BY DEF ServingFails, Interrupt, DropAccepted
  <1>2. InvHands'
    BY <1>1 DEF Inv, InvHands
  <1>3. ASSUME NEW q \in Peers, socket'[q] = "open" PROVE q \in Running
    <2>1. q # accepted /\ socket[q] = "open"
      BY <1>1, <1>3
    <2> QED BY <2>1 DEF Inv, InvOwned
  <1>4. InvOwned'
    BY <1>1, <1>3 DEF InvOwned, Running
  <1> QED BY <1>2, <1>4 DEF Inv

LEMMA ExitInv ==
    ASSUME Inv, Exit
    PROVE  Inv'
  <1>1. /\ main \in {"stopped", "failed"} /\ main' = "exited"
        /\ UNCHANGED <<accepted, socket, thread>>
    BY DEF Exit, ours
  <1>2. InvHands'
    BY <1>1 DEF Inv, InvHands
  <1>3. InvOwned'
    BY <1>1 DEF Inv, InvOwned, Running
  <1> QED BY <1>2, <1>3 DEF Inv

\* The thread of a connection goes on, or ends by way of the finally clause.
LEMMA ThreadInv ==
    ASSUME Inv, NEW p \in Peers, ThreadStep(p)
    PROVE  Inv'
  <1>1. CASE Finally(p)
    <2>1. /\ socket' = [socket EXCEPT ![p] = "closed"] /\ thread' = [thread EXCEPT ![p] = "ended"]
          /\ UNCHANGED <<main, accepted>>
      BY <1>1 DEF Finally
    <2>2. InvHands'
      BY <2>1 DEF Inv, InvHands
    <2>3. ASSUME NEW q \in Peers, socket'[q] = "open"
          PROVE  q = accepted' \/ thread'[q] \notin {"none", "ended"}
      <3>1. q # p /\ socket[q] = "open" /\ thread'[q] = thread[q]
        BY <2>1, <2>3 DEF Inv, InvHands
      <3> QED BY <2>1, <3>1 DEF Inv, InvOwned, Running
    <2>4. InvOwned'
      BY <2>3 DEF InvOwned, Running
    <2> QED BY <2>2, <2>4 DEF Inv
  <1>2. CASE ~Finally(p)
    <2>1. /\ UNCHANGED <<main, accepted, socket>>
          /\ \/ UNCHANGED thread
             \/ \E to \in {"recv", "log", "finally"} : thread' = [thread EXCEPT ![p] = to]
      BY <1>2 DEF ThreadStep, Recv, LogLine, NextRecv, RecvEnds, AfterLoop
    <2>2. InvHands'
      BY <2>1 DEF Inv, InvHands
    <2>3. ASSUME NEW q \in Peers, socket'[q] = "open"
          PROVE  q = accepted' \/ thread'[q] \notin {"none", "ended"}
      <3>1. q = accepted \/ thread[q] \notin {"none", "ended"}
        BY <2>1, <2>3 DEF Inv, InvOwned, Running
      <3>2. thread'[q] \in {thread[q], "recv", "log", "finally"}
        BY <2>1 DEF Inv, InvHands
      <3> QED BY <2>1, <3>1, <3>2
    <2>4. InvOwned'
      BY <2>3 DEF InvOwned, Running
    <2> QED BY <2>2, <2>4 DEF Inv
  <1> QED BY <1>1, <1>2

LEMMA NextInv == Inv /\ [Next]_vars => Inv'
  <1> SUFFICES ASSUME Inv, [Next]_vars PROVE Inv'
    OBVIOUS
  <1>1. CASE MainStep
    BY <1>1, MainInv, AcceptInv, StartInv DEF MainStep
  <1>2. CASE ServingFails \/ Interrupt \/ Exit
    BY <1>2, StopInv, ExitInv
  <1>3. CASE \E p \in Peers : PeerStep(p) \/ ThreadStep(p)
    BY <1>3, PeerInv, ThreadInv
  <1>4. CASE UNCHANGED vars
    BY <1>4, Untouched DEF vars, ours
  <1> QED BY <1>1, <1>2, <1>3, <1>4 DEF Next

\* No connection leaks: start_server(), by its `with', and handle_client(), by its
\* finally clause, leave no open socket that no thread has in hand, for any number
\* of connections and however each of them ends.
THEOREM NoSocketLeaks == Spec => []SocketsOwned
  <1>1. Inv => SocketsOwned
    BY DEF Inv, InvOwned, SocketsOwned
  <1> QED BY <1>1, InitInv, NextInv, PTL DEF Spec
-----------------------------------------------------------------------------
(* Types.                                                                  *)

Messages == [from : Peers \cup {Nobody}, kind : Kinds, reader : Byte, no : Nat]

AllUnits == [of : Messages, half : {1, 2}]

AllLines == [as : {"report", "heartbeat", "error", "pending", "closed"}, of : Messages]

InvTypes ==
    /\ allowed \subseteq Byte /\ NamesIn(fields) \subseteq AVAILABLE_FIELDS
    /\ peer \in [Peers -> {"idle", "open", "closed", "short", "reset", "lost"}]
    /\ written \in [Peers -> Seq(Messages)]
    /\ wire \in [Peers -> Seq(AllUnits)] /\ stream \in [Peers -> Seq(AllUnits)]
    /\ result \in [Peers -> SUBSET Messages] /\ log \in [Peers -> Seq(AllLines)]
    /\ \A p \in Peers : \A m \in InSeq(written[p]) : m.from = p

LEMMA NothingIsMessage == Nothing \in Messages
  BY DEF Nothing, Messages, Kinds, Byte

LEMMA LastLinesTypes ==
    ASSUME NEW p
    PROVE  /\ LastLines(p) \in Seq(AllLines)
           /\ PendingLine # ClosedLine
           /\ stream[p] # <<>> => LastLines(p) = <<PendingLine, ClosedLine>>
           /\ stream[p] = <<>> => LastLines(p) = <<ClosedLine>>
  <1>1. PendingLine \in AllLines /\ ClosedLine \in AllLines /\ PendingLine # ClosedLine
    BY NothingIsMessage DEF PendingLine, ClosedLine, Line, AllLines
  <1>2. <<PendingLine, ClosedLine>> \in Seq(AllLines) /\ <<ClosedLine>> \in Seq(AllLines)
    BY <1>1
  <1> QED BY <1>1, <1>2 DEF LastLines

LEMMA LoggedAsTypes ==
    ASSUME NEW m
    PROVE  LoggedAs(m) \in {"report", "heartbeat", "error"}
  BY DEF LoggedAs

\* What p writes next, and its two units.
LEMMA MessageTypes ==
    ASSUME InvTypes, NEW p \in Peers, NEW w \in Writes[p]
    PROVE  /\ Message(p, w) \in Messages
           /\ Units(Message(p, w)) \in Seq(AllUnits) /\ Len(Units(Message(p, w))) = 2
           /\ \A j \in {1, 2} : /\ Units(Message(p, w))[j] \in AllUnits
                                /\ Units(Message(p, w))[j].of = Message(p, w)
  <1>1. written[p] \in Seq(Messages)
    BY DEF InvTypes
  <1>2. Len(written[p]) + 1 \in Nat
    BY <1>1, LenProperties
  <1>3. w.kind \in Kinds /\ w.reader \in Byte
    BY WritesAssumption
  <1>4. Message(p, w) \in Messages
    BY <1>2, <1>3 DEF Message, Messages
  <1>5. /\ [of |-> Message(p, w), half |-> 1] \in AllUnits
        /\ [of |-> Message(p, w), half |-> 2] \in AllUnits
    BY <1>4 DEF AllUnits
  <1> QED BY <1>4, <1>5 DEF Units
-----------------------------------------------------------------------------
(* The units on their way, from the StreamBuffer through the network.      *)

At(s, v, j) == IF j <= Len(s) THEN s[j] ELSE v[j - Len(s)]

\* What is in the StreamBuffer once n units are received, what the network still
\* holds, and how many messages are whole.
Received(s, v, n) == s \o SubSeq(v, 1, n)

Left(v, n) == SubSeq(v, n + 1, Len(v))

Whole(units) == Len(units) \div 2

\* The whole messages are the first ones on their way, and what remains on its
\* way is the rest.
LEMMA RecvCuts ==
    ASSUME NEW s \in Seq(AllUnits), NEW v \in Seq(AllUnits), NEW n \in Nat, n <= Len(v),
           NEW units, units = Received(s, v, n)
    PROVE  /\ units \in Seq(AllUnits) /\ Len(units) = Len(s) + n
           /\ \A j \in 1 .. Len(units) : units[j] = At(s, v, j)
           /\ Whole(units) \in Nat
           /\ 2 * Whole(units) <= Len(units) /\ Len(units) <= 2 * Whole(units) + 1
           /\ Remainder(units) \in Seq(AllUnits)
           /\ Len(Remainder(units)) = Len(units) - 2 * Whole(units)
           /\ Left(v, n) \in Seq(AllUnits) /\ Len(Left(v, n)) = Len(v) - n
           /\ \A j \in 1 .. Len(s) + Len(v) - 2 * Whole(units) :
                At(Remainder(units), Left(v, n), j) = At(s, v, j + 2 * Whole(units))
  <1> DEFINE part  == SubSeq(v, 1, n)
             S     == AllUnits
             h     == Len(units) \div 2
             left  == SubSeq(v, n + 1, Len(v))
             rest  == SubSeq(units, 2 * h + 1, Len(units))
  <1>1. Len(s) \in Nat /\ Len(v) \in Nat
    BY LenProperties
  <1>2. /\ \A i \in 1 .. n : v[i] \in S
        /\ \A i \in n + 1 .. Len(v) : v[i] \in S
    BY <1>1, ElementOfSeq
  <1>3. /\ part \in Seq(S) /\ Len(part) = n
        /\ \A i \in 1 .. n : part[i] = v[i]
    BY <1>1, <1>2, SubSeqProperties
  <1>4. /\ left \in Seq(S) /\ Len(left) = Len(v) - n
        /\ \A i \in 1 .. Len(v) - n : left[i] = v[n + i]
    BY <1>1, <1>2, SubSeqProperties
  <1>0. units = s \o part
    BY DEF Received
  <1> HIDE DEF part, left, S
  <1>5. /\ units \in Seq(S) /\ Len(units) = Len(s) + n
        /\ \A j \in 1 .. Len(s) + n : units[j] = IF j <= Len(s) THEN s[j] ELSE part[j - Len(s)]
    <2>1. s \in Seq(S)
      BY DEF S
    <2>2. /\ s \o part \in Seq(S) /\ Len(s \o part) = Len(s) + Len(part)
          /\ \A j \in 1 .. Len(s) + Len(part) :
               (s \o part)[j] = IF j <= Len(s) THEN s[j] ELSE part[j - Len(s)]
      BY <1>3, <2>1, ConcatProperties
    <2> QED BY <1>0, <1>3, <2>2
  <1>6. h \in Nat /\ 2 * h <= Len(units) /\ Len(units) <= 2 * h + 1
    BY <1>1, <1>5
  <1> HIDE DEF h
  <1>7. \A i \in 2 * h + 1 .. Len(units) : units[i] \in S
    BY <1>1, <1>5, <1>6, ElementOfSeq
  <1>8. /\ rest \in Seq(S) /\ Len(rest) = Len(units) - 2 * h
        /\ \A i \in 1 .. Len(units) - 2 * h : rest[i] = units[2 * h + i]
    <2> DEFINE m == 2 * h + 1
               l == Len(units)
    <2>1. m = 2 * h + 1 /\ l = Len(units) /\ m \in Nat /\ l \in Nat /\ m <= l + 1
      BY <1>1, <1>5, <1>6
    <2> HIDE DEF m, l
    <2>2. /\ SubSeq(units, m, l) \in Seq(S)
          /\ Len(SubSeq(units, m, l)) = IF m <= l THEN l - m + 1 ELSE 0
          /\ \A i \in 1 .. l - m + 1 : SubSeq(units, m, l)[i] = units[m + i - 1]
      BY <1>7, <2>1, SubSeqProperties
    <2>3. rest = SubSeq(units, m, l)
      BY <2>1 DEF rest
    <2>4. /\ l - m + 1 = Len(units) - 2 * h
          /\ \A i \in 1 .. l - m + 1 : m + i - 1 = 2 * h + i
      BY <1>6, <2>1
    <2>5. rest \in Seq(S)
      BY <2>2, <2>3
    <2>6. Len(rest) = l - m + 1
      BY <2>1, <2>2, <2>3
    <2>7. \A i \in 1 .. l - m + 1 : rest[i] = units[m + i - 1]
      BY <2>2, <2>3
    <2> HIDE DEF rest
    <2> QED BY <2>4, <2>5, <2>6, <2>7
  <1> HIDE DEF rest
  <1>9. \A j \in 1 .. Len(units) : units[j] = At(s, v, j)
    BY <1>1, <1>3, <1>5 DEF At
  <1>10. ASSUME NEW j \in 1 .. Len(s) + Len(v) - 2 * h
         PROVE  At(rest, left, j) = At(s, v, j + 2 * h)
    <2>1. CASE j <= Len(rest)
      BY <2>1, <1>1, <1>5, <1>6, <1>8, <1>9 DEF At
    <2>2. CASE j > Len(rest)
      <3>1. j - Len(rest) \in 1 .. Len(v) - n /\ j - Len(rest) = j + 2 * h - Len(s) - n
        BY <2>2, <1>1, <1>5, <1>6, <1>8
      <3>2. At(rest, left, j) = left[j - Len(rest)]
        BY <2>2, <1>1, <1>5, <1>6, <1>8 DEF At
      <3>4. left[j - Len(rest)] = v[n + (j - Len(rest))]
        BY <3>1, <1>4
      <3>3. n + (j - Len(rest)) = (j + 2 * h) - Len(s) /\ ~(j + 2 * h <= Len(s))
        BY <3>1, <1>1, <1>6
      <3> QED BY <3>2, <3>4, <3>3 DEF At
    <2> QED BY <2>1, <2>2, <1>1, <1>8
  <1>11. rest = Remainder(units)
    BY DEF rest, Remainder, h
  <1> QED BY <1>4, <1>5, <1>6, <1>8, <1>9, <1>10, <1>11 DEF h, left, S, Whole, Left

LEMMA InSeqOfAppend ==
    ASSUME NEW S, NEW s \in Seq(S), NEW e \in S
    PROVE  InSeq(Append(s, e)) = InSeq(s) \cup {e}
  <1>1. /\ Len(Append(s, e)) = Len(s) + 1 /\ Append(s, e)[Len(s) + 1] = e
        /\ \A i \in 1 .. Len(s) : Append(s, e)[i] = s[i]
    BY AppendProperties
  <1>2. Len(s) \in Nat
    BY LenProperties
  <1>3. ASSUME NEW x \in InSeq(Append(s, e)) PROVE x \in InSeq(s) \cup {e}
    BY <1>1, <1>2, <1>3 DEF InSeq
  <1>4. ASSUME NEW x \in InSeq(s) \cup {e} PROVE x \in InSeq(Append(s, e))
    <2>1. CASE x = e
      BY <2>1, <1>1, <1>2 DEF InSeq
    <2>2. CASE x \in InSeq(s)
      <3>1. PICK i \in 1 .. Len(s) : s[i] = x
        BY <2>2 DEF InSeq
      <3>2. i \in 1 .. Len(Append(s, e)) /\ Append(s, e)[i] = x
        BY <3>1, <1>1, <1>2
      <3> QED BY <3>2 DEF InSeq
    <2> QED BY <1>4, <2>1, <2>2
  <1> QED BY <1>3, <1>4

LEMMA InSeqOfEmpty == InSeq(<<>>) = {}
  BY DEF InSeq

\* The finally clause logs one line, or two if bytes are pending.
LEMMA LastAppended ==
    ASSUME NEW p \in Peers, NEW s \in Seq(AllLines)
    PROVE  s \o LastLines(p) = IF stream[p] = <<>> THEN Append(s, ClosedLine)
                               ELSE Append(Append(s, PendingLine), ClosedLine)
  <1>1. PendingLine \in AllLines /\ ClosedLine \in AllLines /\ PendingLine # ClosedLine
    BY NothingIsMessage DEF PendingLine, ClosedLine, Line, AllLines
  <1>2. CASE stream[p] = <<>>
    BY <1>1, <1>2, AppendIsConcat DEF LastLines
  <1>3. CASE stream[p] # <<>>
    <2> DEFINE t == Append(s, PendingLine)
    <2>1. t \in Seq(AllLines)
      BY <1>1, AppendProperties
    <2>2. s \o LastLines(p) = Append(t, ClosedLine)
      <3>1. /\ s \o LastLines(p) \in Seq(AllLines)
            /\ Len(s \o LastLines(p)) = Len(s) + 2
            /\ \A i \in 1 .. Len(s) + 2 :
                 (s \o LastLines(p))[i] = IF i <= Len(s) THEN s[i] ELSE LastLines(p)[i - Len(s)]
        <4> DEFINE l == LastLines(p)
        <4>1. l \in Seq(AllLines) /\ Len(l) = 2
          BY <1>3, LastLinesTypes
        <4> HIDE DEF l
        <4>2. /\ s \o l \in Seq(AllLines) /\ Len(s \o l) = Len(s) + Len(l)
              /\ \A i \in 1 .. Len(s) + Len(l) :
                   (s \o l)[i] = IF i <= Len(s) THEN s[i] ELSE l[i - Len(s)]
          BY <4>1, ConcatProperties
        <4> QED BY <4>1, <4>2 DEF l
      <3>2. /\ Append(t, ClosedLine) \in Seq(AllLines)
            /\ Len(t) = Len(s) + 1 /\ Len(Append(t, ClosedLine)) = Len(s) + 2
            /\ \A i \in 1 .. Len(s) : t[i] = s[i]
            /\ t[Len(s) + 1] = PendingLine
            /\ \A i \in 1 .. Len(s) + 1 : Append(t, ClosedLine)[i] = t[i]
            /\ Append(t, ClosedLine)[Len(s) + 2] = ClosedLine
        BY <1>1, <2>1, AppendProperties, LenProperties
      <3>3. LastLines(p)[1] = PendingLine /\ LastLines(p)[2] = ClosedLine /\ Len(s) \in Nat
        BY <1>3, LastLinesTypes, LenProperties
      <3>4. \A i \in 1 .. Len(s) + 2 : (s \o LastLines(p))[i] = Append(t, ClosedLine)[i]
        BY <3>1, <3>2, <3>3
      <3> HIDE DEF t
      <3> QED BY <3>1, <3>2, <3>4, SeqEqual
    <2> QED BY <1>3, <2>2
  <1> QED BY <1>2, <1>3

\* What the finally clause logs.
LEMMA InSeqOfLast ==
    ASSUME NEW p \in Peers, NEW s \in Seq(AllLines)
    PROVE  /\ s \o LastLines(p) \in Seq(AllLines)
           /\ InSeq(s) \subseteq InSeq(s \o LastLines(p))
           /\ PendingLine \in InSeq(s \o LastLines(p))
                <=> PendingLine \in InSeq(s) \/ stream[p] # <<>>
  <1>1. PendingLine \in AllLines /\ ClosedLine \in AllLines /\ PendingLine # ClosedLine
    BY NothingIsMessage DEF PendingLine, ClosedLine, Line, AllLines
  <1>2. CASE stream[p] = <<>>
    <2>1. s \o LastLines(p) = Append(s, ClosedLine)
      BY <1>2, LastAppended
    <2> QED BY <2>1, <1>1, <1>2, InSeqOfAppend, AppendProperties
  <1>3. CASE stream[p] # <<>>
    <2> DEFINE t == Append(s, PendingLine)
    <2>1. t \in Seq(AllLines) /\ InSeq(t) = InSeq(s) \cup {PendingLine}
      BY <1>1, InSeqOfAppend, AppendProperties
    <2>2. s \o LastLines(p) = Append(t, ClosedLine)
      BY <1>3, LastAppended
    <2> HIDE DEF t
    <2>3. /\ Append(t, ClosedLine) \in Seq(AllLines)
          /\ InSeq(Append(t, ClosedLine)) = InSeq(t) \cup {ClosedLine}
      BY <1>1, <2>1, InSeqOfAppend, AppendProperties
    <2> QED BY <1>3, <2>1, <2>2, <2>3
  <1> QED BY <1>2, <1>3

-----------------------------------------------------------------------------
LEMMA TypesInit == Init => InvTypes
  <1> SUFFICES ASSUME Init PROVE InvTypes
    OBVIOUS
  <1>1. <<>> \in Seq(Messages) /\ <<>> \in Seq(AllUnits) /\ <<>> \in Seq(AllLines)
    BY EmptySeq
  <1>2. NamesIn(<<>>) = {}
    BY DEF NamesIn
  <1> QED BY <1>1, <1>2, InSeqOfEmpty DEF Init, InvTypes

LEMMA TypesUnchanged ==
    ASSUME InvTypes, UNCHANGED <<config, theirs, stream, result, log>>
    PROVE  InvTypes'
  BY DEF InvTypes, config, theirs, NamesIn, InSeq

\* What recv() and feed() do to the types.
LEMMA RecvTypes ==
    ASSUME InvTypes, NEW p \in Peers, NEW n \in 1 .. MaxChunk, Recv(p, n)
    PROVE  InvTypes'
  <1> DEFINE units == Received(stream[p], wire[p], n)
             left  == Left(wire[p], n)
  <1>1. /\ n \in Nat /\ n <= Len(wire[p])
        /\ wire' = [wire EXCEPT ![p] = left]
        /\ stream' = [stream EXCEPT ![p] = Remainder(units)]
        /\ result' = [result EXCEPT ![p] = WholeMessages(units)]
        /\ UNCHANGED <<config, peer, written, log>>
    BY BoundAssumption DEF Recv, Kept, Received, Left
  <1>2. stream[p] \in Seq(AllUnits) /\ wire[p] \in Seq(AllUnits)
    BY DEF InvTypes
  <1>3. units \in Seq(AllUnits) /\ Remainder(units) \in Seq(AllUnits) /\ left \in Seq(AllUnits)
    BY <1>1, <1>2, RecvCuts
  <1> HIDE DEF units, left
  <1>4. \A i \in 1 .. Len(units) \div 2 : units[2 * i].of \in Messages
    <2>1. ASSUME NEW i \in 1 .. Len(units) \div 2 PROVE units[2 * i].of \in Messages
      <3>1. Len(units) \in Nat
        BY <1>3, LenProperties
      <3>2. 2 * i \in 1 .. Len(units)
        BY <3>1
      <3>3. units[2 * i] \in AllUnits
        BY <1>3, <3>2, ElementOfSeq
      <3> QED BY <3>3 DEF AllUnits
    <2> QED BY <2>1
  <1>5. WholeMessages(units) \subseteq Messages
    BY <1>4, NothingIsMessage DEF WholeMessages
  <1> QED BY <1>1, <1>3, <1>5 DEF InvTypes, config, InSeq, NamesIn

LEMMA PeerTypes ==
    ASSUME InvTypes, NEW p \in Peers, PeerStep(p)
    PROVE  InvTypes'
  <1>0. written[p] \in Seq(Messages) /\ wire[p] \in Seq(AllUnits) /\ <<>> \in Seq(AllUnits)
    BY EmptySeq DEF InvTypes
  <1>1. CASE PeerConnects(p)
    <2>1. peer' = [peer EXCEPT ![p] = "open"] /\ UNCHANGED <<config, written, wire, ours>>
      BY <1>1 DEF PeerConnects
    <2> QED BY <2>1 DEF InvTypes, config, ours, InSeq, NamesIn
  <1>2. CASE PeerCloses(p)
    BY <1>2 DEF PeerCloses, InvTypes, config, ours, InSeq, NamesIn
  <1>3. CASE PeerBreaks(p)
    BY <1>0, <1>3 DEF PeerBreaks, InvTypes, config, ours, InSeq, NamesIn
  <1>4. ASSUME NEW w \in Writes[p], PeerWrites(p, w) PROVE InvTypes'
    <2> DEFINE m == Message(p, w)
               u == Units(m)
    <2>1. m \in Messages /\ u \in Seq(AllUnits)
      BY MessageTypes
    <2>2. m.from = p
      BY DEF Message
    <2>3. /\ written' = [written EXCEPT ![p] = Append(written[p], m)]
          /\ wire' = [wire EXCEPT ![p] = wire[p] \o u]
          /\ UNCHANGED <<config, peer, ours>>
      BY <1>4 DEF PeerWrites
    <2> HIDE DEF m, u
    <2>4. /\ Append(written[p], m) \in Seq(Messages)
          /\ InSeq(Append(written[p], m)) = InSeq(written[p]) \cup {m}
          /\ wire[p] \o u \in Seq(AllUnits)
      BY <1>0, <2>1, AppendProperties, InSeqOfAppend, ConcatProperties
    <2>5. \A q \in Peers : \A x \in InSeq(written'[q]) : x.from = q
      <3> SUFFICES ASSUME NEW q \in Peers, NEW x \in InSeq(written'[q]) PROVE x.from = q
        OBVIOUS
      <3>1. CASE q = p
        BY <3>1, <2>2, <2>3, <2>4 DEF InvTypes
      <3>2. CASE q # p
        BY <3>2, <2>3 DEF InvTypes
      <3> QED BY <3>1, <3>2
    <2>6. \A q \in Peers : InSeq(written[q])' = InSeq(written'[q])
      BY DEF InSeq
    <2> QED BY <2>3, <2>4, <2>5, <2>6 DEF InvTypes, config, ours, NamesIn
  <1>5. ASSUME NEW w \in Writes[p], PeerStopsShort(p, w) PROVE InvTypes'
    <2> DEFINE e == Units(Message(p, w))[1]
    <2>1. e \in AllUnits
      BY MessageTypes
    <2>2. /\ wire' = [wire EXCEPT ![p] = Append(wire[p], e)]
          /\ peer' = [peer EXCEPT ![p] = "short"] /\ UNCHANGED <<config, written, ours>>
      BY <1>5 DEF PeerStopsShort
    <2> HIDE DEF e
    <2>3. Append(wire[p], e) \in Seq(AllUnits)
      BY <1>0, <2>1, AppendProperties
    <2> QED BY <2>2, <2>3 DEF InvTypes, config, ours, InSeq, NamesIn
  <1> QED BY <1>1, <1>2, <1>3, <1>4, <1>5 DEF PeerStep

LEMMA ThreadTypes ==
    ASSUME InvTypes, NEW p \in Peers, ThreadStep(p)
    PROVE  InvTypes'
  <1>0. log[p] \in Seq(AllLines)
    BY DEF InvTypes
  <1>1. CASE \E n \in 1 .. MaxChunk : Recv(p, n)
    BY <1>1, RecvTypes
  <1>2. CASE LogLine(p)
    <2>1. PICK m \in result[p] : UNCHANGED <<result, log>>
             \/ /\ log' = [log EXCEPT ![p] = Append(log[p], Line(LoggedAs(m), m))]
                /\ result' = [result EXCEPT ![p] = result[p] \ {m}]
      BY <1>2 DEF LogLine
    <2>2. Line(LoggedAs(m), m) \in AllLines
      BY LoggedAsTypes DEF InvTypes, Line, AllLines
    <2>3. Append(log[p], Line(LoggedAs(m), m)) \in Seq(AllLines)
      BY <1>0, <2>2, AppendProperties
    <2>4. UNCHANGED <<config, theirs, stream>>
      BY <1>2 DEF LogLine
    <2>5. CASE UNCHANGED <<result, log>>
      BY <2>4, <2>5, TypesUnchanged
    <2>6. CASE /\ log' = [log EXCEPT ![p] = Append(log[p], Line(LoggedAs(m), m))]
               /\ result' = [result EXCEPT ![p] = result[p] \ {m}]
      BY <2>3, <2>4, <2>6 DEF InvTypes, config, theirs, InSeq, NamesIn
    <2> QED BY <2>1, <2>5, <2>6
  <1>3. CASE NextRecv(p) \/ RecvEnds(p)
    BY <1>3, TypesUnchanged DEF NextRecv, RecvEnds
  <1>4. CASE Finally(p)
    <2>1. log' = [log EXCEPT ![p] = log[p] \o LastLines(p)] /\ UNCHANGED <<config, theirs, stream, result>>
      BY <1>4 DEF Finally
    <2>2. log[p] \o LastLines(p) \in Seq(AllLines)
      BY <1>0, InSeqOfLast
    <2> QED BY <2>1, <2>2 DEF InvTypes, config, theirs, InSeq, NamesIn
  <1> QED BY <1>1, <1>2, <1>3, <1>4 DEF ThreadStep

LEMMA MainTypes ==
    ASSUME InvTypes, MainStep \/ ServingFails \/ Interrupt \/ Exit
    PROVE  InvTypes'
  <1>1. ASSUME NEW args \in CommandLines, Main(args) PROVE InvTypes'
    <2>1. UNCHANGED <<theirs, stream, result, log>>
      BY <1>1 DEF Main, ours
    <2>2. CASE UNCHANGED config
      BY <2>1, <2>2, TypesUnchanged
    <2>3. CASE Accepts(args) /\ allowed' = args.readers /\ fields' = Names(args)
      <3>1. allowed' \subseteq Byte /\ NamesIn(Names(args)) \subseteq AVAILABLE_FIELDS
        BY <2>3 DEF Accepts, FieldsKnown
      <3>2. NamesIn(fields)' = NamesIn(Names(args))
        BY <2>3 DEF NamesIn
      <3> QED BY <2>1, <3>1, <3>2 DEF InvTypes, theirs, InSeq
    <2> QED BY <1>1, <2>2, <2>3 DEF Main
  <1>2. CASE (\E p \in Peers : Accept(p)) \/ StartThread \/ ServingFails \/ Interrupt \/ Exit
    BY <1>2, TypesUnchanged DEF Accept, StartThread, ServingFails, Interrupt, Exit, ours
  <1> QED BY <1>1, <1>2 DEF MainStep

LEMMA TypesStep == InvTypes /\ [Next]_vars => InvTypes'
  <1> SUFFICES ASSUME InvTypes, [Next]_vars PROVE InvTypes'
    OBVIOUS
  <1>1. CASE MainStep \/ ServingFails \/ Interrupt \/ Exit
    BY <1>1, MainTypes
  <1>2. CASE \E p \in Peers : PeerStep(p) \/ ThreadStep(p)
    BY <1>2, PeerTypes, ThreadTypes
  <1>3. CASE UNCHANGED vars
    BY <1>3, TypesUnchanged DEF vars, ours
  <1> QED BY <1>1, <1>2, <1>3 DEF Next

\* Every command line that is served leads to types that the threads can work
\* with, whatever arrives.
THEOREM ServerTypes == Spec => []TypeOK
  <1>1. Inv /\ InvTypes => TypeOK
    <2> SUFFICES ASSUME Inv, InvTypes PROVE TypeOK
      OBVIOUS
    <2>1. ASSUME NEW S, NEW s \in Seq(S) PROVE InSeq(s) \subseteq S
      BY <2>1, ElementOfSeq DEF InSeq
    <2>2. \A p \in Peers :
            /\ InSeq(written[p]) \subseteq Messages /\ InSeq(log[p]) \subseteq AllLines
            /\ InSeq(wire[p]) \subseteq AllUnits /\ InSeq(stream[p]) \subseteq AllUnits
      BY <2>1 DEF InvTypes
    <2>3. ASSUME NEW p \in Peers
          PROVE  /\ \A m \in InSeq(written[p]) : m.from = p /\ m.kind \in Kinds /\ m.reader \in Byte
                 /\ \A unit \in InSeq(wire[p]) \cup InSeq(stream[p]) : unit.half \in {1, 2}
                 /\ \A line \in InSeq(log[p]) :
                      line.as \in {"report", "heartbeat", "error", "pending", "closed"}
      BY <2>2 DEF InvTypes, Messages, AllUnits, AllLines
    <2> QED BY <2>3 DEF TypeOK, Inv, InvHands, InvTypes
  <1> QED BY <1>1, InitInv, NextInv, TypesInit, TypesStep, PTL DEF Spec
-----------------------------------------------------------------------------
(* Where a message is: on its way, in the result of feed(), or logged.     *)

\* The messages up to the k-th of all have left the StreamBuffer; the units of
\* the others are held in it or coming, one after the other, and behind them only
\* the first half of a message cut short.
Queued(held, coming, all, k, short) ==
    /\ Len(held) + Len(coming) = 2 * (Len(all) - k) + short
    /\ \A i \in 1 .. Len(all) - k : \A j \in {2 * i - 1, 2 * i} :
         At(held, coming, j).of = all[k + i]

LEMMA QueuedWrite ==
    ASSUME NEW S, NEW T, NEW held \in Seq(S), NEW coming \in Seq(S), NEW all \in Seq(T),
           NEW k \in 0 .. Len(all), Queued(held, coming, all, k, 0),
           NEW m \in T, NEW u \in Seq(S), Len(u) = 2, u[1].of = m, u[2].of = m
    PROVE  Queued(held, coming \o u, Append(all, m), k, 0)
  <1> DEFINE more  == coming \o u
             all2  == Append(all, m)
             n     == Len(held) + Len(coming)
  <1>1. Len(held) \in Nat /\ Len(coming) \in Nat /\ Len(all) \in Nat /\ k \in Nat
    BY LenProperties
  <1>2. /\ Len(more) = Len(coming) + 2
        /\ \A i \in 1 .. Len(coming) : more[i] = coming[i]
        /\ more[Len(coming) + 1] = u[1] /\ more[Len(coming) + 2] = u[2]
    <2>1. /\ Len(more) = Len(coming) + Len(u)
          /\ \A i \in 1 .. Len(coming) + Len(u) :
               more[i] = IF i <= Len(coming) THEN coming[i] ELSE u[i - Len(coming)]
      BY ConcatProperties
    <2> HIDE DEF more
    <2>2. Len(more) = Len(coming) + 2 /\ \A i \in 1 .. Len(coming) : more[i] = coming[i]
      BY <1>1, <2>1
    <2>3. ASSUME NEW d \in {1, 2} PROVE more[Len(coming) + d] = u[d]
      <3>1. /\ Len(coming) + d \in 1 .. Len(coming) + Len(u)
            /\ ~(Len(coming) + d <= Len(coming)) /\ (Len(coming) + d) - Len(coming) = d
        BY <1>1
      <3> QED BY <3>1, <2>1
    <2> QED BY <2>2, <2>3
  <1>3. /\ Len(all2) = Len(all) + 1 /\ all2[Len(all) + 1] = m
        /\ \A i \in 1 .. Len(all) : all2[i] = all[i]
    BY AppendProperties
  <1> HIDE DEF more, all2
  <1>4. ASSUME NEW j \in 1 .. n PROVE At(held, more, j) = At(held, coming, j)
    <2>1. CASE j <= Len(held)
      BY <2>1 DEF At
    <2>2. CASE ~(j <= Len(held))
      <3>1. j - Len(held) \in 1 .. Len(coming)
        BY <1>1, <2>2
      <3> QED BY <2>2, <3>1, <1>2 DEF At
    <2> QED BY <2>1, <2>2
  <1>5. At(held, more, n + 1) = u[1] /\ At(held, more, n + 2) = u[2]
    <2>1. ASSUME NEW d \in {1, 2} PROVE At(held, more, n + d) = more[Len(coming) + d]
      <3>1. ~(n + d <= Len(held)) /\ (n + d) - Len(held) = Len(coming) + d
        BY <1>1
      <3> QED BY <3>1 DEF At
    <2> QED BY <2>1, <1>2
  <1>6. n = 2 * (Len(all) - k) /\ n \in Nat
    BY <1>1 DEF Queued
  <1> HIDE DEF n
  <1>7. ASSUME NEW i \in 1 .. (Len(all) + 1) - k, NEW j \in {2 * i - 1, 2 * i}
        PROVE  At(held, more, j).of = all2[k + i]
    <2>1. CASE i <= Len(all) - k
      <3>1. j \in 1 .. n /\ k + i \in 1 .. Len(all) /\ i \in 1 .. Len(all) - k
        BY <2>1, <1>1, <1>6
      <3>2. At(held, coming, j).of = all[k + i]
        BY <3>1 DEF Queued
      <3> QED BY <3>1, <3>2, <1>3, <1>4
    <2>2. CASE i = Len(all) + 1 - k
      <3>1. j \in {n + 1, n + 2} /\ k + i = Len(all) + 1
        <4>1. i - 1 = Len(all) - k /\ i \in Int
          BY <2>2, <1>1
        <4>2. n + 1 = 2 * i - 1 /\ n + 2 = 2 * i
          BY <4>1, <1>1, <1>6
        <4>3. k + i = Len(all) + 1
          BY <2>2, <1>1
        <4> QED BY <4>2, <4>3
      <3> QED BY <3>1, <1>3, <1>5
    <2> QED BY <2>1, <2>2, <1>1
  <1>8. Len(held) + Len(more) = 2 * (Len(all2) - k) + 0
    <2>1. Len(held) + Len(more) = n + 2
      BY <1>1, <1>2 DEF n
    <2>2. 2 * (Len(all2) - k) = 2 * (Len(all) - k) + 2
      BY <1>1, <1>3
    <2> QED BY <1>1, <1>6, <2>1, <2>2
  <1>9. Queued(held, more, all2, k, 0)
    BY <1>3, <1>7, <1>8 DEF Queued
  <1> QED BY <1>9 DEF more, all2

LEMMA QueuedShort ==
    ASSUME NEW S, NEW T, NEW held \in Seq(S), NEW coming \in Seq(S), NEW all \in Seq(T),
           NEW k \in 0 .. Len(all), Queued(held, coming, all, k, 0), NEW e \in S
    PROVE  Queued(held, Append(coming, e), all, k, 1)
  <1> DEFINE more == Append(coming, e)
             n    == Len(held) + Len(coming)
  <1>1. Len(held) \in Nat /\ Len(coming) \in Nat /\ Len(all) \in Nat /\ k \in Nat
    BY LenProperties
  <1>2. Len(more) = Len(coming) + 1 /\ \A i \in 1 .. Len(coming) : more[i] = coming[i]
    BY AppendProperties
  <1> HIDE DEF more
  <1>3. \A j \in 1 .. n : At(held, more, j) = At(held, coming, j)
    BY <1>1, <1>2 DEF At
  <1>4. n = 2 * (Len(all) - k)
    BY DEF Queued
  <1> HIDE DEF n
  <1>5. ASSUME NEW i \in 1 .. Len(all) - k, NEW j \in {2 * i - 1, 2 * i}
        PROVE  At(held, more, j).of = all[k + i]
    <2>1. j \in 1 .. n
      BY <1>1, <1>4
    <2>2. At(held, coming, j).of = all[k + i]
      BY DEF Queued
    <2> QED BY <2>1, <2>2, <1>3
  <1>6. Len(held) + Len(more) = 2 * (Len(all) - k) + 1
    BY <1>1, <1>2, <1>4 DEF n
  <1> QED BY <1>5, <1>6 DEF Queued, more

\* The h elements behind the k-th.
Behind(all, k, h) == {all[k + i] : i \in 1 .. h}

\* recv() and feed() deliver the next messages whole and leave the others queued.
LEMMA QueuedRecv ==
    ASSUME NEW T, NEW held \in Seq(AllUnits), NEW coming \in Seq(AllUnits), NEW all \in Seq(T),
           NEW k \in 0 .. Len(all), NEW short \in {0, 1}, Queued(held, coming, all, k, short),
           NEW n \in Nat, n <= Len(coming)
    PROVE  LET units == Received(held, coming, n)
           IN  /\ Whole(units) \in 0 .. Len(all) - k
               /\ Len(Remainder(units)) <= 1
               /\ Queued(Remainder(units), Left(coming, n), all, k + Whole(units), short)
               /\ WholeMessages(units) = Behind(all, k, Whole(units))
  <1> DEFINE units == Received(held, coming, n)
             left  == Left(coming, n)
             rest  == Remainder(units)
             h     == Whole(units)
             total == Len(held) + Len(coming)
  <1>1. Len(held) \in Nat /\ Len(coming) \in Nat /\ Len(all) \in Nat /\ k \in Nat
    BY LenProperties
  <1>2. /\ Len(units) = Len(held) + n
        /\ h \in Nat /\ 2 * h <= Len(units) /\ Len(units) <= 2 * h + 1
        /\ Len(rest) = Len(units) - 2 * h /\ Len(left) = Len(coming) - n
        /\ \A j \in 1 .. Len(units) : units[j] = At(held, coming, j)
        /\ \A j \in 1 .. Len(held) + Len(coming) - 2 * h :
             At(rest, left, j) = At(held, coming, j + 2 * h)
    BY RecvCuts
  <1>3. WholeMessages(units) =
          {IF units[2 * i - 1].of = units[2 * i].of THEN units[2 * i].of ELSE Nothing :
             i \in 1 .. h}
    BY DEF WholeMessages, Whole
  <1> HIDE DEF units, left, rest, h
  <1>4. total = 2 * (Len(all) - k) + short /\ total \in Nat
    BY <1>1 DEF Queued
  <1>5. h <= Len(all) - k /\ 2 * h <= total
    BY <1>1, <1>2, <1>4
  <1>6. ASSUME NEW i \in 1 .. h
        PROVE  units[2 * i - 1].of = all[k + i] /\ units[2 * i].of = all[k + i]
    <2>1. /\ 2 * i - 1 \in 1 .. Len(units) /\ 2 * i \in 1 .. Len(units)
          /\ i \in 1 .. Len(all) - k
      BY <1>1, <1>2, <1>5
    <2>2. /\ units[2 * i - 1] = At(held, coming, 2 * i - 1)
          /\ units[2 * i] = At(held, coming, 2 * i)
      BY <2>1, <1>2
    <2>3. /\ At(held, coming, 2 * i - 1).of = all[k + i]
          /\ At(held, coming, 2 * i).of = all[k + i]
      BY <2>1 DEF Queued
    <2> QED BY <2>2, <2>3
  <1>11. WholeMessages(units) = Behind(all, k, h)
    BY <1>3, <1>6 DEF Behind
  <1>7. ASSUME NEW i \in 1 .. Len(all) - (k + h), NEW j \in {2 * i - 1, 2 * i}
        PROVE  At(rest, left, j).of = all[(k + h) + i]
    <2>1. j \in 1 .. total - 2 * h /\ h + i \in 1 .. Len(all) - k
      BY <1>1, <1>2, <1>4, <1>5
    <2>2. At(rest, left, j) = At(held, coming, j + 2 * h)
      BY <2>1, <1>2
    <2>3. j + 2 * h \in {2 * (h + i) - 1, 2 * (h + i)}
      BY <2>1, <1>2
    <2>4. At(held, coming, j + 2 * h).of = all[k + (h + i)]
      BY <2>1, <2>3 DEF Queued
    <2>5. k + (h + i) = (k + h) + i
      BY <1>1, <1>2
    <2> QED BY <2>2, <2>4, <2>5
  <1>8. Len(rest) + Len(left) = 2 * (Len(all) - (k + h)) + short /\ Len(rest) <= 1
    <2>1. Len(rest) + Len(left) = total - 2 * h /\ Len(rest) <= 1
      BY <1>1, <1>2
    <2>2. total - 2 * h = 2 * (Len(all) - (k + h)) + short
      <3>1. h \in Nat
        BY <1>2
      <3> HIDE DEF total
      <3> QED BY <1>1, <1>4, <3>1
    <2> QED BY <2>1, <2>2
  <1>9. Queued(rest, left, all, k + h, short)
    BY <1>7, <1>8 DEF Queued
  <1>10. h \in 0 .. Len(all) - k
    BY <1>1, <1>2, <1>5
  <1> QED BY <1>8, <1>9, <1>10, <1>11 DEF units, left, rest, h

Ahead(p, k) ==
    Queued(stream[p], wire[p], written[p], k, IF peer[p] = "short" THEN 1 ELSE 0)

Told(p, m) == m \in result[p] \/ \E line \in InSeq(log[p]) : line.of = m

FlowOf(p) ==
    peer[p] \notin {"reset", "lost"} =>
      \E k \in 0 .. Len(written[p]) : Ahead(p, k) /\ \A j \in 1 .. k : Told(p, written[p][j])

\* What each stage of a thread means for what it holds and what its peer can
\* still do.
StageOf(p) ==
    /\ Len(stream[p]) <= 1
    /\ thread[p] # "log" => result[p] = {}
    /\ thread[p] # "ended" => PendingLine \notin InSeq(log[p])
    /\ thread[p] \in {"finally", "ended"} => peer[p] \notin {"idle", "open"} /\ wire[p] = <<>>
    /\ thread[p] = "ended" => (PendingLine \in InSeq(log[p]) <=> stream[p] # <<>>)
    /\ socket[p] = "none" \/ p = accepted => thread[p] = "none"
    /\ p = accepted => socket[p] # "none"

InvMessages == \A p \in Peers : StageOf(p) /\ FlowOf(p)

LEMMA MessagesInit == Init => InvMessages
  <1> SUFFICES ASSUME Init, NEW p \in Peers PROVE StageOf(p) /\ FlowOf(p)
    BY DEF InvMessages
  <1>1. /\ peer[p] = "idle" /\ written[p] = <<>> /\ wire[p] = <<>> /\ thread[p] = "none"
        /\ stream[p] = <<>> /\ result[p] = {} /\ log[p] = <<>> /\ p # accepted
    BY NobodyAssumption DEF Init
  <1>2. Len(<<>>) = 0
    OBVIOUS
  <1>3. StageOf(p)
    BY <1>1, <1>2, InSeqOfEmpty DEF StageOf
  <1>4. Ahead(p, 0)
    BY <1>1, <1>2 DEF Ahead, Queued
  <1>5. FlowOf(p)
    BY <1>1, <1>2, <1>4 DEF FlowOf
  <1> QED BY <1>3, <1>5

\* A step that is not about the connection of q.
LEMMA OtherPeer ==
    ASSUME NEW q \in Peers, StageOf(q) /\ FlowOf(q),
           /\ peer'[q] = peer[q] /\ written'[q] = written[q] /\ wire'[q] = wire[q]
           /\ thread'[q] = thread[q] /\ stream'[q] = stream[q]
           /\ result'[q] = result[q] /\ log'[q] = log[q],
           socket'[q] = "none" => socket[q] = "none",
           q = accepted' => q = accepted
    PROVE  (StageOf(q) /\ FlowOf(q))'
  <1>1. StageOf(q)'
    BY DEF StageOf, InSeq
  <1>2. \A k \in 0 .. Len(written[q]) : Ahead(q, k)' <=> Ahead(q, k)
    BY DEF Ahead
  <1>3. \A m : Told(q, m)' <=> Told(q, m)
    BY DEF Told, InSeq
  <1>4. FlowOf(q)'
    BY <1>2, <1>3 DEF FlowOf
  <1> QED BY <1>1, <1>4

LEMMA MainMessages ==
    ASSUME Inv, InvTypes, InvMessages, MainStep \/ ServingFails \/ Interrupt \/ Exit
    PROVE  InvMessages'
  <1> SUFFICES ASSUME NEW q \in Peers PROVE (StageOf(q) /\ FlowOf(q))'
    BY DEF InvMessages
  <1>0. StageOf(q) /\ FlowOf(q)
    BY DEF InvMessages
  <1>1. CASE (\E args \in CommandLines : Main(args)) \/ Exit
    <2>1. UNCHANGED <<accepted, theirs, ours>>
      BY <1>1 DEF Main, Exit
    <2> QED BY <2>1, <1>0, OtherPeer DEF theirs, ours
  <1>2. ASSUME NEW p \in Peers, Accept(p) PROVE (StageOf(q) /\ FlowOf(q))'
    <2>1. /\ socket[p] = "none" /\ socket' = [socket EXCEPT ![p] = "open"] /\ accepted' = p
          /\ UNCHANGED <<theirs, thread, stream, result, log>>
      BY <1>2 DEF Accept
    <2>2. CASE q # p
      BY <2>1, <2>2, <1>0, OtherPeer DEF theirs, Inv, InvHands
    <2>3. CASE q = p
      <3>1. StageOf(q)'
        BY <2>1, <2>3, <1>0 DEF StageOf, theirs, InSeq, Inv, InvHands
      <3>2. \A k \in 0 .. Len(written[q]) : Ahead(q, k)' <=> Ahead(q, k)
        BY <2>1 DEF Ahead, theirs
      <3>3. \A m : Told(q, m)' <=> Told(q, m)
        BY <2>1 DEF Told, InSeq
      <3>4. FlowOf(q)'
        BY <2>1, <3>2, <3>3, <1>0 DEF FlowOf, theirs
      <3> QED BY <3>1, <3>4
    <2> QED BY <2>2, <2>3
  <1>3. CASE StartThread
    <2>1. /\ main = "start" /\ thread' = [thread EXCEPT ![accepted] = "recv"] /\ accepted' = Nobody
          /\ UNCHANGED <<theirs, socket, stream, result, log>>
      BY <1>3 DEF StartThread
    <2>2. accepted \in Peers
      BY <2>1 DEF Inv, InvHands
    <2>3. CASE q # accepted
      BY <2>1, <2>3, <1>0, OtherPeer, NobodyAssumption DEF theirs, Inv, InvHands
    <2>4. CASE q = accepted
      <3>1. thread[q] = "none" /\ thread'[q] = "recv" /\ q # accepted'
        BY <2>1, <2>2, <2>4, <1>0, NobodyAssumption DEF StageOf, Inv, InvHands
      <3>2. socket[q] # "none"
        BY <2>4, <1>0 DEF StageOf
      <3>3. StageOf(q)'
        BY <2>1, <3>1, <3>2, <1>0 DEF StageOf, theirs, InSeq
      <3>4. \A k \in 0 .. Len(written[q]) : Ahead(q, k)' <=> Ahead(q, k)
        BY <2>1 DEF Ahead, theirs
      <3>5. \A m : Told(q, m)' <=> Told(q, m)
        BY <2>1 DEF Told, InSeq
      <3>6. FlowOf(q)'
        BY <2>1, <3>4, <3>5, <1>0 DEF FlowOf, theirs
      <3> QED BY <3>3, <3>6
    <2> QED BY <2>3, <2>4
  <1>4. CASE ServingFails \/ Interrupt
    <2>1. /\ accepted' = Nobody /\ UNCHANGED <<theirs, thread, stream, result, log>>
          /\ socket' = [p \in Peers |-> IF p = accepted THEN "closed" ELSE socket[p]]
      BY <1>4 DEF ServingFails, Interrupt, DropAccepted
    <2> QED BY <2>1, <1>0, OtherPeer, NobodyAssumption DEF theirs
  <1> QED BY <1>1, <1>2, <1>3, <1>4 DEF MainStep

\* The peer changes nothing about what has already left the StreamBuffer, unless it
\* breaks the connection.
LEMMA AheadPeer ==
    ASSUME InvTypes, NEW p \in Peers, NEW k \in 0 .. Len(written[p]), Ahead(p, k),
           PeerStep(p), ~PeerBreaks(p)
    PROVE  /\ Ahead(p, k)' /\ k \in 0 .. Len(written'[p])
           /\ \A j \in 1 .. k : written'[p][j] = written[p][j]
  <1>0. /\ written[p] \in Seq(Messages) /\ wire[p] \in Seq(AllUnits) /\ stream[p] \in Seq(AllUnits)
        /\ Len(written[p]) \in Nat
    BY LenProperties DEF InvTypes
  <1>1. stream'[p] = stream[p] /\ peer[p] \in {"idle", "open"}
    BY DEF PeerStep, PeerConnects, PeerCloses, PeerBreaks, PeerWrites, PeerStopsShort, ours
  <1>2. CASE PeerConnects(p) \/ PeerCloses(p)
    <2>1. /\ peer'[p] \in {"open", "closed"} /\ written' = written /\ wire' = wire
          /\ peer[p] # "short" /\ peer'[p] # "short"
      BY <1>1, <1>2 DEF PeerConnects, PeerCloses, InvTypes
    <2> QED BY <1>1, <2>1 DEF Ahead
  <1>3. ASSUME NEW w \in Writes[p], PeerWrites(p, w)
        PROVE  /\ Ahead(p, k)' /\ k \in 0 .. Len(written'[p])
               /\ \A j \in 1 .. k : written'[p][j] = written[p][j]
    <2> DEFINE m == Message(p, w)
               u == Units(m)
    <2>1. /\ m \in Messages /\ u \in Seq(AllUnits) /\ Len(u) = 2
          /\ u[1].of = m /\ u[2].of = m
      BY MessageTypes
    <2>2. /\ written'[p] = Append(written[p], m) /\ wire'[p] = wire[p] \o u
          /\ peer'[p] = "open" /\ peer[p] = "open"
      BY <1>3 DEF PeerWrites, InvTypes
    <2> HIDE DEF m, u
    <2>3. Queued(stream[p], wire[p], written[p], k, 0)
      BY <2>2 DEF Ahead
    <2>4. Queued(stream[p], wire[p] \o u, Append(written[p], m), k, 0)
      BY <1>0, <2>1, <2>3, QueuedWrite
    <2>5. /\ Len(Append(written[p], m)) = Len(written[p]) + 1
          /\ \A i \in 1 .. Len(written[p]) : Append(written[p], m)[i] = written[p][i]
      BY <1>0, <2>1, AppendProperties
    <2>6. Ahead(p, k)'
      BY <1>1, <2>2, <2>4 DEF Ahead
    <2> QED BY <1>0, <2>2, <2>5, <2>6
  <1>4. ASSUME NEW w \in Writes[p], PeerStopsShort(p, w)
        PROVE  Ahead(p, k)' /\ written'[p] = written[p]
    <2> DEFINE e == Units(Message(p, w))[1]
    <2>1. e \in AllUnits
      BY MessageTypes
    <2>2. /\ written'[p] = written[p] /\ wire'[p] = Append(wire[p], e)
          /\ peer'[p] = "short" /\ peer[p] = "open"
      BY <1>4 DEF PeerStopsShort, InvTypes
    <2> HIDE DEF e
    <2>3. Queued(stream[p], wire[p], written[p], k, 0)
      BY <2>2 DEF Ahead
    <2>4. Queued(stream[p], Append(wire[p], e), written[p], k, 1)
      BY <1>0, <2>1, <2>3, QueuedShort
    <2> QED BY <1>1, <2>2, <2>4 DEF Ahead
  <1> QED BY <1>2, <1>3, <1>4 DEF PeerStep

LEMMA PeerMessages ==
    ASSUME InvTypes, InvMessages, NEW p \in Peers, PeerStep(p)
    PROVE  InvMessages'
  <1>0. /\ StageOf(p) /\ FlowOf(p)
        /\ written[p] \in Seq(Messages) /\ wire[p] \in Seq(AllUnits) /\ stream[p] \in Seq(AllUnits)
    BY DEF InvMessages, InvTypes
  <1>1. UNCHANGED <<accepted, ours>>
    BY DEF PeerStep, PeerConnects, PeerCloses, PeerBreaks, PeerWrites, PeerStopsShort
  <1>2. ASSUME NEW q \in Peers, q # p PROVE (StageOf(q) /\ FlowOf(q))'
    <2>1. peer'[q] = peer[q] /\ written'[q] = written[q] /\ wire'[q] = wire[q]
      BY <1>2 DEF PeerStep, PeerConnects, PeerCloses, PeerBreaks, PeerWrites, PeerStopsShort,
                  theirs, InvTypes
    <2>2. StageOf(q) /\ FlowOf(q)
      BY DEF InvMessages
    <2> QED BY <1>1, <2>1, <2>2, OtherPeer DEF ours
  <1>3. peer[p] \in {"idle", "open"}
    BY DEF PeerStep, PeerConnects, PeerCloses, PeerBreaks, PeerWrites, PeerStopsShort
  <1>4. StageOf(p)'
    <2>1. thread[p] \notin {"finally", "ended"}
      BY <1>0, <1>3 DEF StageOf
    <2> QED BY <1>0, <1>1, <2>1 DEF StageOf, ours, InSeq
  <1>5. \A m : Told(p, m)' <=> Told(p, m)
    BY <1>1 DEF Told, InSeq, ours
  <1>6. PICK k \in 0 .. Len(written[p]) : Ahead(p, k) /\ \A j \in 1 .. k : Told(p, written[p][j])
    BY <1>0, <1>3 DEF FlowOf
  <1>7. CASE PeerBreaks(p)
    <2>1. peer'[p] \in {"reset", "lost"}
      BY <1>7 DEF PeerBreaks, InvTypes
    <2>2. FlowOf(p)'
      BY <2>1 DEF FlowOf
    <2> QED BY <1>2, <1>4, <2>2 DEF InvMessages
  <1>8. CASE ~PeerBreaks(p)
    <2>1. /\ Ahead(p, k)' /\ k \in 0 .. Len(written'[p])
          /\ \A j \in 1 .. k : written'[p][j] = written[p][j]
      BY <1>6, <1>8, AheadPeer
    <2>2. \A j \in 1 .. k : Told(p, written[p][j])'
      BY <1>1, <1>6, <2>1 DEF Told, InSeq, ours
    <2>3. FlowOf(p)'
      BY <2>1, <2>2 DEF FlowOf
    <2> QED BY <1>2, <1>4, <2>3 DEF InvMessages
  <1> QED BY <1>7, <1>8

\* A step of the thread of p that takes nothing from the network and loses no
\* message.
LEMMA FlowKept ==
    ASSUME NEW p \in Peers, FlowOf(p),
           /\ peer'[p] = peer[p] /\ written'[p] = written[p]
           /\ wire'[p] = wire[p] /\ stream'[p] = stream[p],
           ASSUME NEW m, Told(p, m) PROVE Told(p, m)'
    PROVE  FlowOf(p)'
  <1>1. \A k \in 0 .. Len(written[p]) : Ahead(p, k)' <=> Ahead(p, k)
    BY DEF Ahead
  <1>2. \A m : Told(p, m) => Told(p, m)'
    OBVIOUS
  <1> QED BY <1>1, <1>2 DEF FlowOf

LEMMA AheadRecv ==
    ASSUME InvTypes, NEW p \in Peers, NEW k \in 0 .. Len(written[p]), Ahead(p, k),
           NEW n \in 1 .. MaxChunk, Recv(p, n)
    PROVE  \E h \in 0 .. Len(written[p]) - k :
             Ahead(p, k + h)' /\ result'[p] = Behind(written[p], k, h)
  <1> DEFINE units == Received(stream[p], wire[p], n)
             left  == Left(wire[p], n)
             short == IF peer[p] = "short" THEN 1 ELSE 0
  <1>1. /\ written[p] \in Seq(Messages) /\ wire[p] \in Seq(AllUnits)
        /\ stream[p] \in Seq(AllUnits) /\ n \in Nat /\ n <= Len(wire[p])
    BY BoundAssumption DEF InvTypes, Recv
  <1>2. /\ wire'[p] = left /\ stream'[p] = Remainder(units)
        /\ result'[p] = WholeMessages(units) /\ UNCHANGED <<peer, written>>
    BY DEF Recv, Kept, Received, Left, InvTypes
  <1>3. short \in {0, 1} /\ Queued(stream[p], wire[p], written[p], k, short)
    BY DEF Ahead
  <1> HIDE DEF short
  <1>4. PICK h \in 0 .. Len(written[p]) - k :
          /\ Queued(Remainder(units), left, written[p], k + h, short)
          /\ WholeMessages(units) = Behind(written[p], k, h)
    <2> DEFINE got == Whole(units)
    <2>1. /\ got \in 0 .. Len(written[p]) - k
          /\ Queued(Remainder(units), left, written[p], k + got, short)
          /\ WholeMessages(units) = Behind(written[p], k, got)
      BY <1>1, <1>3, QueuedRecv
    <2> QED BY <2>1
  <1> HIDE DEF units, left
  <1>5. Ahead(p, k + h)'
    BY <1>2, <1>4 DEF Ahead, short
  <1> QED BY <1>2, <1>4, <1>5

LEMMA RecvMessages ==
    ASSUME Inv, InvTypes, NEW p \in Peers, StageOf(p), FlowOf(p),
           NEW n \in 1 .. MaxChunk, Recv(p, n)
    PROVE  (StageOf(p) /\ FlowOf(p))'
  <1> DEFINE units == Received(stream[p], wire[p], n)
             left  == Left(wire[p], n)
             whole == WholeMessages(units)
  <1>1. n \in Nat /\ n <= Len(wire[p]) /\ thread[p] = "recv"
    BY BoundAssumption DEF Recv
  <1>2. /\ written[p] \in Seq(Messages) /\ wire[p] \in Seq(AllUnits)
        /\ stream[p] \in Seq(AllUnits) /\ Len(written[p]) \in Nat
    BY LenProperties DEF InvTypes
  <1>3. /\ wire'[p] = left /\ stream'[p] = Remainder(units) /\ result'[p] = whole
        /\ thread'[p] = "log"
        /\ UNCHANGED <<accepted, peer, written, socket, log>>
    BY DEF Recv, Kept, Received, Left, InvTypes, Inv, InvHands
  <1>4. Len(Remainder(units)) <= 1
    <2>1. /\ Len(Remainder(units)) = Len(units) - 2 * Whole(units)
          /\ Len(units) <= 2 * Whole(units) + 1 /\ Whole(units) \in Nat
          /\ Len(units) = Len(stream[p]) + n
      BY <1>1, <1>2, RecvCuts
    <2>2. Len(stream[p]) \in Nat
      BY <1>2, LenProperties
    <2> HIDE DEF units
    <2> QED BY <1>1, <2>1, <2>2
  <1>5. result[p] = {}
    BY <1>1 DEF StageOf
  <1>6. StageOf(p)'
    BY <1>1, <1>3, <1>4 DEF StageOf, InSeq
  <1>7. ASSUME peer[p] \notin {"reset", "lost"} PROVE FlowOf(p)'
    <2>1. PICK k \in 0 .. Len(written[p]) : Ahead(p, k) /\ \A j \in 1 .. k : Told(p, written[p][j])
      BY <1>7 DEF FlowOf
    <2>3. PICK h \in 0 .. Len(written[p]) - k :
            Ahead(p, k + h)' /\ result'[p] = Behind(written[p], k, h)
      BY <2>1, AheadRecv
    <2> HIDE DEF units, left, whole
    <2>4. k + h \in 0 .. Len(written[p])
      BY <1>2
    <2>6. ASSUME NEW j \in 1 .. k + h PROVE Told(p, written[p][j])'
      <3>1. CASE j <= k
        <4>1. Told(p, written[p][j])
          BY <2>1, <3>1
        <4>2. \E line \in InSeq(log[p]) : line.of = written[p][j]
          BY <1>5, <4>1 DEF Told
        <4> QED BY <1>3, <4>2 DEF Told, InSeq
      <3>2. CASE ~(j <= k)
        <4>1. j - k \in 1 .. h /\ k + (j - k) = j
          BY <3>2, <1>2
        <4>2. written[p][j] \in result'[p]
          BY <2>3, <4>1 DEF Behind
        <4> QED BY <4>2, <1>3 DEF Told
      <3> QED BY <3>1, <3>2
    <2> QED BY <1>3, <2>3, <2>4, <2>6 DEF FlowOf
  <1>8. ASSUME peer[p] \in {"reset", "lost"} PROVE FlowOf(p)'
    BY <1>3, <1>8 DEF FlowOf
  <1> QED BY <1>6, <1>7, <1>8

LEMMA LogMessages ==
    ASSUME Inv, InvTypes, NEW p \in Peers, StageOf(p), FlowOf(p), LogLine(p)
    PROVE  (StageOf(p) /\ FlowOf(p))'
  <1>1. NamesIn(fields) \subseteq AVAILABLE_FIELDS /\ log[p] \in Seq(AllLines) /\ result[p] \subseteq Messages
    BY DEF InvTypes
  <1>2. PICK m \in result[p] :
          /\ log' = [log EXCEPT ![p] = Append(log[p], Line(LoggedAs(m), m))]
          /\ result' = [result EXCEPT ![p] = result[p] \ {m}]
          /\ UNCHANGED thread
    BY <1>1 DEF LogLine
  <1> DEFINE line == Line(LoggedAs(m), m)
  <1>3. line \in AllLines /\ line # PendingLine /\ line.of = m
    BY <1>1, LoggedAsTypes DEF Line, AllLines, PendingLine
  <1>4. /\ thread[p] = "log" /\ thread'[p] = "log"
        /\ UNCHANGED <<accepted, peer, written, wire, socket, stream>>
    BY <1>2 DEF LogLine, theirs
  <1>5. log'[p] = Append(log[p], line) /\ result'[p] = result[p] \ {m}
    BY <1>2 DEF InvTypes
  <1> HIDE DEF line
  <1>6. InSeq(log'[p]) = InSeq(log[p]) \cup {line}
    BY <1>1, <1>3, <1>5, InSeqOfAppend
  <1>7. StageOf(p)'
    <2>1. InSeq(log[p])' = InSeq(log[p]) \cup {line}
      BY <1>6 DEF InSeq
    <2> QED BY <1>3, <1>4, <2>1 DEF StageOf, PendingLine, Line, Nothing
  <1>8. ASSUME NEW x, Told(p, x) PROVE Told(p, x)'
    <2>1. InSeq(log[p])' = InSeq(log[p]) \cup {line}
      BY <1>6 DEF InSeq
    <2> QED BY <1>3, <1>5, <1>8, <2>1 DEF Told
  <1>9. FlowOf(p)'
    BY <1>4, <1>8, FlowKept
  <1> QED BY <1>7, <1>9

LEMMA FinallyMessages ==
    ASSUME Inv, InvTypes, NEW p \in Peers, StageOf(p), FlowOf(p), Finally(p)
    PROVE  (StageOf(p) /\ FlowOf(p))'
  <1>1. /\ thread[p] = "finally" /\ thread'[p] = "ended" /\ socket'[p] = "closed"
        /\ log'[p] = log[p] \o LastLines(p)
        /\ UNCHANGED <<accepted, peer, written, wire, stream, result>>
    BY DEF Finally, InvTypes, theirs, Inv, InvHands
  <1>2. log[p] \in Seq(AllLines)
    BY DEF InvTypes
  <1>3. InSeq(log[p])' = InSeq(log[p] \o LastLines(p))
    BY <1>1 DEF InSeq
  <1>4. /\ InSeq(log[p]) \subseteq InSeq(log[p])'
        /\ PendingLine \in InSeq(log[p])' <=> PendingLine \in InSeq(log[p]) \/ stream[p] # <<>>
    BY <1>2, <1>3, InSeqOfLast
  <1>5. StageOf(p)'
    BY <1>1, <1>4 DEF StageOf, PendingLine, Line, Nothing
  <1>6. ASSUME NEW x, Told(p, x) PROVE Told(p, x)'
    BY <1>1, <1>4, <1>6 DEF Told
  <1>7. FlowOf(p)'
    BY <1>1, <1>6, FlowKept
  <1> QED BY <1>5, <1>7

LEMMA ThreadMessages ==
    ASSUME Inv, InvTypes, InvMessages, NEW p \in Peers, ThreadStep(p)
    PROVE  InvMessages'
  <1>0. StageOf(p) /\ FlowOf(p)
    BY DEF InvMessages
  <1>1. ASSUME NEW q \in Peers, q # p PROVE (StageOf(q) /\ FlowOf(q))'
    <2>1. /\ accepted' = accepted /\ peer' = peer /\ written' = written
          /\ socket'[q] = socket[q] /\ wire'[q] = wire[q] /\ thread'[q] = thread[q]
          /\ stream'[q] = stream[q] /\ result'[q] = result[q] /\ log'[q] = log[q]
      <3>1. ASSUME NEW n \in 1 .. MaxChunk, Recv(p, n)
            PROVE  /\ UNCHANGED <<accepted, peer, written, socket, log>>
                   /\ wire'[q] = wire[q] /\ thread'[q] = thread[q]
                   /\ stream'[q] = stream[q] /\ result'[q] = result[q]
        BY <1>1, <3>1 DEF Recv, Kept, InvTypes, Inv, InvHands
      <3>2. CASE LogLine(p)
        BY <1>1, <3>2 DEF LogLine, theirs, InvTypes, Inv, InvHands
      <3>3. CASE NextRecv(p) \/ RecvEnds(p) \/ Finally(p)
        BY <1>1, <3>3 DEF NextRecv, RecvEnds, Finally, theirs, InvTypes, Inv, InvHands
      <3> QED BY <3>1, <3>2, <3>3 DEF ThreadStep
    <2>2. StageOf(q) /\ FlowOf(q)
      BY DEF InvMessages
    <2> QED BY <2>1, <2>2, OtherPeer
  <1>2. ASSUME NextRecv(p) \/ RecvEnds(p) PROVE (StageOf(p) /\ FlowOf(p))'
    <2>1. /\ UNCHANGED <<accepted, peer, written, wire, socket, stream, result, log>>
          /\ \/ thread[p] = "log" /\ result[p] = {} /\ thread'[p] = "recv"
             \/ /\ thread[p] = "recv" /\ thread'[p] = "finally" /\ wire[p] = <<>>
                /\ peer[p] \in {"closed", "short", "reset", "lost"}
      BY <1>2 DEF NextRecv, RecvEnds, AfterLoop, theirs, Inv, InvHands
    <2>2. StageOf(p)'
      BY <1>0, <2>1 DEF StageOf, InSeq
    <2>3. ASSUME NEW m, Told(p, m) PROVE Told(p, m)'
      BY <2>1, <2>3 DEF Told, InSeq
    <2>4. FlowOf(p)'
      BY <1>0, <2>1, <2>3, FlowKept
    <2> QED BY <2>2, <2>4
  <1>3. (StageOf(p) /\ FlowOf(p))'
    BY <1>0, <1>2, RecvMessages, LogMessages, FinallyMessages DEF ThreadStep
  <1> QED BY <1>1, <1>3 DEF InvMessages

LEMMA MessagesStep == Inv /\ InvTypes /\ InvMessages /\ [Next]_vars => InvMessages'
  <1> SUFFICES ASSUME Inv, InvTypes, InvMessages, [Next]_vars PROVE InvMessages'
    OBVIOUS
  <1>1. CASE UNCHANGED vars
    <2>1. ASSUME NEW q \in Peers PROVE (StageOf(q) /\ FlowOf(q))'
      <3>1. StageOf(q) /\ FlowOf(q)
        BY DEF InvMessages
      <3> QED BY <1>1, <3>1, OtherPeer DEF vars, theirs, ours
    <2> QED BY <2>1 DEF InvMessages
  <1>2. CASE \E p \in Peers : PeerStep(p) \/ ThreadStep(p)
    BY <1>2, PeerMessages, ThreadMessages
  <1> QED BY <1>1, <1>2, MainMessages DEF Next

LEMMA AllLogged == InvTypes /\ InvMessages => NothingUnlogged
  <1> SUFFICES ASSUME InvTypes, InvMessages,
                      NEW p \in Peers, thread[p] = "ended", peer[p] \in {"closed", "short"}
               PROVE  /\ InSeq(written[p]) \subseteq {line.of : line \in InSeq(log[p])}
                      /\ peer[p] = "short" <=> PendingLine \in InSeq(log[p])
    BY DEF NothingUnlogged
  <1> DEFINE short == IF peer[p] = "short" THEN 1 ELSE 0
  <1>1. /\ wire[p] = <<>> /\ result[p] = {} /\ Len(stream[p]) <= 1
        /\ PendingLine \in InSeq(log[p]) <=> stream[p] # <<>>
        /\ FlowOf(p)
    BY DEF InvMessages, StageOf
  <1>2. PICK k \in 0 .. Len(written[p]) : Ahead(p, k) /\ \A j \in 1 .. k : Told(p, written[p][j])
    BY <1>1 DEF FlowOf
  <1>3. Len(stream[p]) \in Nat /\ Len(written[p]) \in Nat /\ stream[p] \in Seq(AllUnits)
    BY LenProperties DEF InvTypes
  <1>4. Len(stream[p]) + Len(wire[p]) = 2 * (Len(written[p]) - k) + short
    BY <1>2 DEF Ahead, Queued
  <1>5. Len(wire[p]) = 0 /\ short \in {0, 1}
    BY <1>1
  <1>6. k = Len(written[p]) /\ Len(stream[p]) = short
    <2> HIDE DEF short
    <2> QED BY <1>1, <1>3, <1>4, <1>5
  <1>7. stream[p] # <<>> <=> Len(stream[p]) # 0
    BY <1>3, EmptySeq
  <1>8. peer[p] = "short" <=> PendingLine \in InSeq(log[p])
    BY <1>1, <1>6, <1>7
  <1>9. ASSUME NEW m \in InSeq(written[p]) PROVE m \in {line.of : line \in InSeq(log[p])}
    <2>1. PICK j \in 1 .. Len(written[p]) : written[p][j] = m
      BY DEF InSeq
    <2>2. Told(p, m)
      BY <1>2, <1>6, <2>1
    <2> QED BY <1>1, <2>2 DEF Told
  <1> QED BY <1>8, <1>9

\* When the thread of an orderly connection has ended, every message its peer
\* wrote is logged, and a message cut short is logged as pending.
THEOREM ServerLogsAll == Spec => []NothingUnlogged
  <1>1. Spec => []InvMessages
    BY InitInv, NextInv, TypesInit, TypesStep, MessagesInit, MessagesStep, PTL DEF Spec
  <1> QED BY <1>1, TypesInit, TypesStep, AllLogged, PTL DEF Spec
-----------------------------------------------------------------------------
(* The order of the reports of a connection.                               *)

ReportLines == {line \in AllLines : line.as = "report"}

Wanted == {m \in Messages : m.kind = "frame" /\ m.reader \in allowed}

LEMMA ReportsSelected ==
    ASSUME NEW lines \in Seq(AllLines)
    PROVE  ReportsOf(lines) = Select(lines, ReportLines)
  <1> DEFINE Keep == {line \in InSeq(lines) : line.as = "report"}
  <1>1. ASSUME NEW n \in 1 .. Len(lines) PROVE lines[n] \in Keep <=> lines[n] \in ReportLines
    <2>1. lines[n] \in AllLines /\ lines[n] \in InSeq(lines)
      BY ElementOfSeq DEF InSeq
    <2> QED BY <2>1 DEF ReportLines
  <1> HIDE DEF Keep
  <1>2. Select(lines, Keep) = Select(lines, ReportLines)
    BY <1>1, SelectSame
  <1> QED BY <1>2 DEF ReportsOf, Keep

\* The selection is the same among all messages.
LEMMA WrittenSelected ==
    ASSUME NEW seq \in Seq(Messages), NEW readers
    PROVE  Select(seq, {m \in InSeq(seq) : m.kind = "frame" /\ m.reader \in readers})
             = Select(seq, {m \in Messages : m.kind = "frame" /\ m.reader \in readers})
  <1> DEFINE Keep  == {m \in InSeq(seq) : m.kind = "frame" /\ m.reader \in readers}
             Other == {m \in Messages : m.kind = "frame" /\ m.reader \in readers}
  <1>1. ASSUME NEW n \in 1 .. Len(seq) PROVE seq[n] \in Keep <=> seq[n] \in Other
    <2>1. seq[n] \in Messages /\ seq[n] \in InSeq(seq)
      BY ElementOfSeq DEF InSeq
    <2> QED BY <2>1
  <1> HIDE DEF Keep, Other
  <1>2. Select(seq, Keep) = Select(seq, Other)
    BY <1>1, SelectSame
  <1> QED BY <1>2 DEF Keep, Other

LEMMA MessagesOfAppend ==
    ASSUME NEW lines \in Seq(AllLines), NEW line \in AllLines
    PROVE  /\ MessagesOf(lines) \in Seq(Messages) /\ Len(MessagesOf(lines)) = Len(lines)
           /\ MessagesOf(Append(lines, line)) = Append(MessagesOf(lines), line.of)
  <1> DEFINE more == Append(lines, line)
             ms == MessagesOf(lines)
  <1>1. Len(lines) \in Nat /\ \A i \in 1 .. Len(lines) : lines[i] \in AllLines
    BY LenProperties, ElementOfSeq
  <1>2. /\ Len(more) = Len(lines) + 1 /\ more[Len(lines) + 1] = line
        /\ \A i \in 1 .. Len(lines) : more[i] = lines[i]
    BY AppendProperties
  <1>3. line.of \in Messages /\ \A i \in 1 .. Len(lines) : lines[i].of \in Messages
    BY <1>1 DEF AllLines
  <1>4. ms \in Seq(Messages) /\ Len(ms) = Len(lines) /\ \A i \in 1 .. Len(lines) : ms[i] = lines[i].of
    BY <1>1, <1>3 DEF MessagesOf
  <1>5. MessagesOf(more) = [i \in 1 .. Len(lines) + 1 |-> more[i].of]
    BY <1>2 DEF MessagesOf
  <1> HIDE DEF more, ms
  <1>6. /\ Append(ms, line.of) \in Seq(Messages) /\ Len(Append(ms, line.of)) = Len(lines) + 1
        /\ Append(ms, line.of)[Len(lines) + 1] = line.of
        /\ \A i \in 1 .. Len(lines) : Append(ms, line.of)[i] = lines[i].of
    BY <1>3, <1>4, AppendProperties
  <1>7. \A i \in 1 .. Len(lines) + 1 : more[i].of = Append(ms, line.of)[i]
    BY <1>1, <1>2, <1>6
  <1>8. /\ MessagesOf(more) \in Seq(Messages) /\ Len(MessagesOf(more)) = Len(lines) + 1
        /\ \A i \in 1 .. Len(lines) + 1 : MessagesOf(more)[i] = Append(ms, line.of)[i]
    <2>1. \A i \in 1 .. Len(lines) + 1 : more[i].of \in Messages
      BY <1>1, <1>2, <1>3
    <2> DEFINE n == Len(lines) + 1
               all == MessagesOf(more)
    <2>2. n \in Nat
      BY <1>1
    <2>3. all \in [1 .. n -> Messages] /\ \A i \in 1 .. n : all[i] = Append(ms, line.of)[i]
      BY <1>5, <1>7, <2>1
    <2> HIDE DEF all, n
    <2>4. all \in Seq(Messages) /\ Len(all) = n
      BY <2>2, <2>3
    <2> QED BY <2>3, <2>4 DEF all, n
  <1>9. MessagesOf(more) = Append(ms, line.of)
    BY <1>6, <1>8, SeqEqual
  <1> QED BY <1>4, <1>9 DEF more, ms

\* Only a report adds to what is handed over.
LEMMA HandedAppend ==
    ASSUME NEW lines \in Seq(AllLines), NEW line \in AllLines
    PROVE  /\ MessagesOf(ReportsOf(lines)) \in Seq(Messages)
           /\ MessagesOf(ReportsOf(Append(lines, line))) =
                IF line.as = "report" THEN Append(MessagesOf(ReportsOf(lines)), line.of)
                ELSE MessagesOf(ReportsOf(lines))
  <1>1. Append(lines, line) \in Seq(AllLines)
    BY AppendProperties
  <1>2. /\ ReportsOf(lines) = Select(lines, ReportLines)
        /\ ReportsOf(Append(lines, line)) = Select(Append(lines, line), ReportLines)
    BY <1>1, ReportsSelected
  <1>3. ReportsOf(Append(lines, line)) =
          IF line \in ReportLines THEN Append(ReportsOf(lines), line) ELSE ReportsOf(lines)
    BY <1>2, SelectAppend
  <1>4. ReportsOf(lines) \in Seq(AllLines)
    <2>1. ReportsOf(lines) \in Seq(AllLines \cap ReportLines)
      BY <1>2, SelectType
    <2>2. AllLines \cap ReportLines \subseteq AllLines
      OBVIOUS
    <2> QED BY <2>1, <2>2
  <1>5. line \in ReportLines <=> line.as = "report"
    BY DEF ReportLines
  <1> QED BY <1>3, <1>4, <1>5, MessagesOfAppend

LEMMA HandedEmpty == MessagesOf(ReportsOf(<<>>)) = <<>>
  <1>1. ReportsOf(<<>>) = <<>>
    BY SelectEmpty DEF ReportsOf
  <1> QED BY <1>1 DEF MessagesOf

LEMMA HandedLast ==
    ASSUME NEW p \in Peers, NEW lines \in Seq(AllLines)
    PROVE  MessagesOf(ReportsOf(lines \o LastLines(p))) = MessagesOf(ReportsOf(lines))
  <1>1. /\ PendingLine \in AllLines /\ ClosedLine \in AllLines
        /\ PendingLine.as # "report" /\ ClosedLine.as # "report"
    BY NothingIsMessage DEF PendingLine, ClosedLine, Line, AllLines
  <1>2. CASE stream[p] = <<>>
    <2>1. lines \o LastLines(p) = Append(lines, ClosedLine)
      BY <1>2, LastAppended
    <2> QED BY <1>1, <2>1, HandedAppend
  <1>3. CASE stream[p] # <<>>
    <2> DEFINE more == Append(lines, PendingLine)
    <2>1. lines \o LastLines(p) = Append(more, ClosedLine)
      BY <1>3, LastAppended
    <2>2. more \in Seq(AllLines) /\ MessagesOf(ReportsOf(more)) = MessagesOf(ReportsOf(lines))
      BY <1>1, HandedAppend, AppendProperties
    <2> HIDE DEF more
    <2> QED BY <1>1, <2>1, <2>2, HandedAppend
  <1> QED BY <1>2, <1>3

\* Of the first k messages, which have left the StreamBuffer, the reports among
\* the first c are logged and the others are still in the result of feed().
Reported(p, k, c) ==
    /\ MessagesOf(ReportsOf(log[p])) = Selections(written[p], Wanted)[c]
    /\ result[p] \cap Wanted = Behind(written[p], c, k - c) \cap Wanted

\* A broken connection delivers nothing more, so that it does not matter what has
\* become of the other messages.
OrderOf(p) ==
    /\ peer[p] \in {"reset", "lost"} => wire[p] = <<>>
    /\ \E k \in 0 .. Len(written[p]) :
         /\ peer[p] \notin {"reset", "lost"} => Ahead(p, k)
         /\ \E c \in 0 .. k : Reported(p, k, c)

NumbersOf(p) ==
    /\ Len(written[p]) <= MaxWritten[p]
    /\ \A j \in 1 .. Len(written[p]) : written[p][j].no = j

\* The readers asked for are known before the first connection.
StartOf(p) ==
    main = "parse" =>
      /\ peer[p] = "idle" /\ thread[p] = "none" /\ written[p] = <<>>
      /\ log[p] = <<>> /\ result[p] = {}

InvOrder == \A p \in Peers : OrderOf(p) /\ NumbersOf(p) /\ StartOf(p)

LEMMA BehindNone ==
    ASSUME NEW all, NEW k
    PROVE  Behind(all, k, 0) = {}
  BY DEF Behind

LEMMA BehindIs ==
    ASSUME NEW all, NEW k \in Nat, NEW c \in 0 .. k
    PROVE  \A x : x \in Behind(all, c, k - c) <=> \E j \in c + 1 .. k : all[j] = x
  <1>1. ASSUME NEW j \in c + 1 .. k PROVE all[j] \in Behind(all, c, k - c)
    <2>1. j - c \in 1 .. k - c /\ c + (j - c) = j
      OBVIOUS
    <2> QED BY <2>1 DEF Behind
  <1>2. ASSUME NEW x \in Behind(all, c, k - c) PROVE \E j \in c + 1 .. k : all[j] = x
    <2>1. PICK i \in 1 .. k - c : x = all[c + i]
      BY DEF Behind
    <2>2. c + i \in c + 1 .. k
      OBVIOUS
    <2> QED BY <2>1, <2>2
  <1> QED BY <1>1, <1>2

\* Nothing written, nothing logged.
LEMMA NothingReported ==
    ASSUME NEW p \in Peers, written[p] = <<>>, log[p] = <<>>, result[p] = {}
    PROVE  Reported(p, 0, 0)
  <1>1. Selections(<<>>, Wanted)[0] = <<>>
    BY SelectEmpty DEF Select
  <1>2. Behind(written[p], 0, 0 - 0) = {}
    BY BehindNone
  <1> QED BY <1>1, <1>2, HandedEmpty DEF Reported

LEMMA OrderInit == Init => InvOrder
  <1> SUFFICES ASSUME Init, NEW p \in Peers PROVE OrderOf(p) /\ NumbersOf(p) /\ StartOf(p)
    BY DEF InvOrder
  <1>1. /\ peer[p] = "idle" /\ written[p] = <<>> /\ wire[p] = <<>> /\ thread[p] = "none"
        /\ stream[p] = <<>> /\ result[p] = {} /\ log[p] = <<>>
    BY DEF Init
  <1>2. Len(<<>>) = 0
    OBVIOUS
  <1>3. Ahead(p, 0) /\ Reported(p, 0, 0)
    BY <1>1, <1>2, NothingReported DEF Ahead, Queued
  <1>4. MaxWritten[p] \in Nat
    BY BoundAssumption
  <1> QED BY <1>1, <1>2, <1>3, <1>4 DEF OrderOf, NumbersOf, StartOf

\* A step that is not about the reports of q.
LEMMA OrderKept ==
    ASSUME NEW q \in Peers, OrderOf(q), allowed' = allowed,
           peer'[q] = peer[q], written'[q] = written[q], wire'[q] = wire[q],
           stream'[q] = stream[q], result'[q] = result[q],
           MessagesOf(ReportsOf(log'[q])) = MessagesOf(ReportsOf(log[q]))
    PROVE  OrderOf(q)'
  <1>1. Wanted' = Wanted
    BY DEF Wanted
  <1>2. ASSUME NEW k, NEW c, Reported(q, k, c) PROVE Reported(q, k, c)'
    BY <1>1, <1>2 DEF Reported
  <1>3. ASSUME NEW k, Ahead(q, k) PROVE Ahead(q, k)'
    BY <1>3 DEF Ahead
  <1>4. PICK k \in 0 .. Len(written[q]) :
          /\ peer[q] \notin {"reset", "lost"} => Ahead(q, k)
          /\ \E c \in 0 .. k : Reported(q, k, c)
    BY DEF OrderOf
  <1>5. /\ peer'[q] \notin {"reset", "lost"} => Ahead(q, k)'
        /\ \E c \in 0 .. k : Reported(q, k, c)'
    BY <1>2, <1>3, <1>4
  <1>6. peer'[q] \in {"reset", "lost"} => wire'[q] = <<>>
    BY DEF OrderOf
  <1> QED BY <1>5, <1>6 DEF OrderOf
LEMMA NumbersKept ==
    ASSUME NEW q \in Peers, NumbersOf(q), written'[q] = written[q]
    PROVE  NumbersOf(q)'
  BY DEF NumbersOf

\* The connections that a step is not about.
LEMMA OthersOrder ==
    ASSUME NEW q \in Peers, OrderOf(q), NumbersOf(q), StartOf(q),
           allowed' = allowed, main' # "parse",
           peer'[q] = peer[q], written'[q] = written[q], wire'[q] = wire[q],
           stream'[q] = stream[q], result'[q] = result[q], log'[q] = log[q]
    PROVE  (OrderOf(q) /\ NumbersOf(q) /\ StartOf(q))'
  BY OrderKept, NumbersKept DEF StartOf

LEMMA OrderMain ==
    ASSUME InvOrder, MainStep \/ ServingFails \/ Interrupt \/ Exit
    PROVE  InvOrder'
  <1> SUFFICES ASSUME NEW q \in Peers PROVE (OrderOf(q) /\ NumbersOf(q) /\ StartOf(q))'
    BY DEF InvOrder
  <1>0. OrderOf(q) /\ NumbersOf(q) /\ StartOf(q)
    BY DEF InvOrder
  <1>1. ASSUME NEW args \in CommandLines, Main(args)
        PROVE  (OrderOf(q) /\ NumbersOf(q) /\ StartOf(q))'
    <2>1. main = "parse" /\ main' # "parse" /\ UNCHANGED <<theirs, ours>>
      BY <1>1 DEF Main
    <2>2. peer[q] = "idle" /\ written[q] = <<>> /\ log[q] = <<>> /\ result[q] = {}
      BY <1>0, <2>1 DEF StartOf
    <2>3. Ahead(q, 0)
      <3>1. PICK k \in 0 .. Len(written[q]) : peer[q] \notin {"reset", "lost"} => Ahead(q, k)
        BY <1>0 DEF OrderOf
      <3>2. Len(<<>>) = 0
        OBVIOUS
      <3>3. k = 0
        BY <2>2, <3>1, <3>2
      <3> QED BY <2>2, <3>1, <3>3
    <2>4. Ahead(q, 0)'
      BY <2>1, <2>3 DEF Ahead, theirs, ours
    <2>5. Reported(q, 0, 0)'
      <3>1. Selections(<<>>, Wanted')[0] = <<>> /\ Behind(<<>>, 0, 0 - 0) = {}
        BY SelectEmpty, BehindNone DEF Select
      <3> QED BY <2>1, <2>2, <3>1, HandedEmpty DEF Reported, theirs, ours
    <2>6. OrderOf(q)'
      <3>1. Len(<<>>) = 0 /\ written'[q] = <<>> /\ peer'[q] = "idle"
        BY <2>1, <2>2 DEF theirs
      <3> QED BY <2>4, <2>5, <3>1 DEF OrderOf
    <2> QED BY <1>0, <2>1, <2>6, NumbersKept DEF StartOf, theirs
  <1>2. CASE (\E p \in Peers : Accept(p)) \/ StartThread \/ ServingFails \/ Interrupt \/ Exit
    <2>1. main' # "parse" /\ UNCHANGED <<config, theirs, stream, result, log>>
      BY <1>2 DEF Accept, StartThread, ServingFails, Interrupt, Exit, ours
    <2> QED BY <1>0, <2>1, OthersOrder DEF config, theirs
  <1> QED BY <1>1, <1>2 DEF MainStep

\* What a peer writes comes behind what is reported.
LEMMA OrderPeer ==
    ASSUME InvTypes, InvOrder, NEW p \in Peers, PeerStep(p)
    PROVE  InvOrder'
  <1>0. \A q \in Peers : OrderOf(q) /\ NumbersOf(q) /\ StartOf(q)
    BY DEF InvOrder
  <1>1. /\ UNCHANGED <<main, config, ours>> /\ peer[p] \in {"idle", "open"}
        /\ peer[p] = "idle" => main # "parse"
    BY DEF PeerStep, PeerConnects, PeerCloses, PeerBreaks, PeerWrites, PeerStopsShort
  <1>2. main # "parse"
    BY <1>0, <1>1 DEF StartOf
  <1>3. ASSUME NEW q \in Peers, q # p PROVE (OrderOf(q) /\ NumbersOf(q) /\ StartOf(q))'
    <2>1. peer'[q] = peer[q] /\ written'[q] = written[q] /\ wire'[q] = wire[q]
      BY <1>3 DEF PeerStep, PeerConnects, PeerCloses, PeerBreaks, PeerWrites, PeerStopsShort,
                  theirs, InvTypes
    <2> QED BY <1>0, <1>1, <1>2, <2>1, OthersOrder DEF config, ours
  <1>4. written[p] \in Seq(Messages) /\ Len(written[p]) \in Nat
    BY LenProperties DEF InvTypes
  <1>5. \/ written'[p] = written[p]
        \/ \E m \in Messages : /\ written'[p] = Append(written[p], m)
                               /\ m.no = Len(written[p]) + 1 /\ Len(written[p]) < MaxWritten[p]
    <2>1. ASSUME NEW w \in Writes[p], PeerWrites(p, w)
          PROVE  \E m \in Messages : /\ written'[p] = Append(written[p], m)
                                     /\ m.no = Len(written[p]) + 1 /\ Len(written[p]) < MaxWritten[p]
      <3> DEFINE m == Message(p, w)
      <3>1. m \in Messages
        BY MessageTypes
      <3>2. m.no = Len(written[p]) + 1
        BY DEF Message
      <3> HIDE DEF m
      <3>3. written'[p] = Append(written[p], m) /\ Len(written[p]) < MaxWritten[p]
        BY <2>1 DEF PeerWrites, InvTypes, m
      <3> QED BY <3>1, <3>2, <3>3
    <2>2. CASE PeerConnects(p) \/ PeerCloses(p) \/ PeerBreaks(p) \/ \E w \in Writes[p] : PeerStopsShort(p, w)
      BY <2>2 DEF PeerConnects, PeerCloses, PeerBreaks, PeerStopsShort
    <2> QED BY <2>1, <2>2 DEF PeerStep
  <1>6. NumbersOf(p)'
    <2>1. CASE written'[p] = written[p]
      BY <1>0, <2>1, NumbersKept
    <2>2. ASSUME NEW m \in Messages, written'[p] = Append(written[p], m),
                 m.no = Len(written[p]) + 1, Len(written[p]) < MaxWritten[p]
          PROVE  NumbersOf(p)'
      <3>1. /\ Len(Append(written[p], m)) = Len(written[p]) + 1
            /\ Append(written[p], m)[Len(written[p]) + 1] = m
            /\ \A i \in 1 .. Len(written[p]) : Append(written[p], m)[i] = written[p][i]
        BY <1>4, AppendProperties
      <3>2. MaxWritten[p] \in Nat
        BY BoundAssumption
      <3>3. \A j \in 1 .. Len(written[p]) + 1 : Append(written[p], m)[j].no = j
        BY <1>0, <1>4, <2>2, <3>1 DEF NumbersOf
      <3> QED BY <1>4, <2>2, <3>1, <3>2, <3>3 DEF NumbersOf
    <2> QED BY <1>5, <2>1, <2>2
  <1>7. PICK k \in 0 .. Len(written[p]) : Ahead(p, k) /\ \E c \in 0 .. k : Reported(p, k, c)
    BY <1>0, <1>1 DEF OrderOf
  <1>8. PICK c \in 0 .. k : Reported(p, k, c)
    BY <1>7
  <1>9. Wanted' = Wanted /\ UNCHANGED <<stream, result, log>>
    BY <1>1 DEF Wanted, config, ours
  <1>10. CASE PeerBreaks(p)
    <2>1. peer'[p] \in {"reset", "lost"} /\ wire'[p] = <<>> /\ written' = written
      BY <1>10 DEF PeerBreaks, InvTypes
    <2>2. Reported(p, k, c)'
      BY <1>8, <1>9, <2>1 DEF Reported
    <2>3. OrderOf(p)'
      BY <2>1, <2>2 DEF OrderOf
    <2> QED BY <1>1, <1>2, <1>3, <1>6, <2>3 DEF InvOrder, StartOf
  <1>11. CASE ~PeerBreaks(p)
    <2>1. /\ Ahead(p, k)' /\ k \in 0 .. Len(written'[p])
          /\ \A j \in 1 .. k : written'[p][j] = written[p][j]
      BY <1>7, <1>11, AheadPeer
    <2>2. Selections(written'[p], Wanted)[c] = Selections(written[p], Wanted)[c]
      <3>1. c \in 0 .. Len(written[p])
        BY <1>4
      <3>2. ASSUME NEW m \in Messages
            PROVE  Selections(Append(written[p], m), Wanted)[c] = Selections(written[p], Wanted)[c]
        BY <1>4, <3>1, SelectionsAppend
      <3> QED BY <1>5, <3>2
    <2>3. Behind(written'[p], c, k - c) = Behind(written[p], c, k - c)
      <3>1. \A i \in 1 .. k - c : c + i \in 1 .. k
        BY <1>4
      <3> QED BY <2>1, <3>1 DEF Behind
    <2>4. Reported(p, k, c)'
      BY <1>8, <1>9, <2>2, <2>3 DEF Reported
    <2>5. peer'[p] \notin {"reset", "lost"}
      BY <1>1, <1>11 DEF PeerStep, PeerConnects, PeerCloses, PeerWrites, PeerStopsShort, InvTypes
    <2>6. OrderOf(p)'
      BY <2>1, <2>4, <2>5 DEF OrderOf
    <2> QED BY <1>1, <1>2, <1>3, <1>6, <2>6 DEF InvOrder, StartOf
  <1> QED BY <1>10, <1>11
\* recv() and feed() put the next messages into the result, which was empty.
LEMMA OrderRecv ==
    ASSUME InvTypes, NEW p \in Peers, OrderOf(p), result[p] = {},
           NEW n \in 1 .. MaxChunk, Recv(p, n)
    PROVE  OrderOf(p)'
  <1>1. UNCHANGED <<config, peer, written, log>> /\ n <= Len(wire[p])
    BY DEF Recv
  <1>2. n \in Nat \ {0}
    BY BoundAssumption
  <1>3. peer[p] \notin {"reset", "lost"}
    <2>1. ~(n <= Len(<<>>))
      BY <1>2
    <2> QED BY <1>1, <2>1 DEF OrderOf
  <1>4. PICK k \in 0 .. Len(written[p]) : Ahead(p, k) /\ \E c \in 0 .. k : Reported(p, k, c)
    BY <1>3 DEF OrderOf
  <1>5. PICK c \in 0 .. k : Reported(p, k, c)
    BY <1>4
  <1>6. PICK h \in 0 .. Len(written[p]) - k :
          Ahead(p, k + h)' /\ result'[p] = Behind(written[p], k, h)
    BY <1>4, AheadRecv
  <1>7. Len(written[p]) \in Nat
    BY LenProperties DEF InvTypes
  <1>8. k + h \in 0 .. Len(written[p]) /\ c \in 0 .. k + h
    BY <1>7
  <1>9. Wanted' = Wanted
    BY <1>1 DEF Wanted, config
  <1>10. /\ \A x : x \in Behind(written[p], c, k - c) <=> \E j \in c + 1 .. k : written[p][j] = x
         /\ \A x : x \in Behind(written[p], c, (k + h) - c)
                     <=> \E j \in c + 1 .. k + h : written[p][j] = x
         /\ \A x : x \in Behind(written[p], k, (k + h) - k)
                     <=> \E j \in k + 1 .. k + h : written[p][j] = x
    <2>1. k \in Nat /\ k + h \in Nat /\ c \in 0 .. k /\ c \in 0 .. k + h /\ k \in 0 .. k + h
      BY <1>7
    <2>3. \A x : x \in Behind(written[p], c, k - c) <=> \E j \in c + 1 .. k : written[p][j] = x
      <3>1. k \in Nat /\ c \in 0 .. k
        BY <2>1
      <3> QED BY ONLY <3>1, BehindIs
    <2> DEFINE l == k + h
    <2>2. l \in Nat /\ c \in 0 .. l /\ k \in 0 .. l
      BY <2>1
    <2> HIDE DEF l
    <2>4. \A x : x \in Behind(written[p], c, l - c) <=> \E j \in c + 1 .. l : written[p][j] = x
      BY <2>2, BehindIs
    <2>5. \A x : x \in Behind(written[p], k, l - k) <=> \E j \in k + 1 .. l : written[p][j] = x
      BY <2>2, BehindIs
    <2> QED BY <2>3, <2>4, <2>5 DEF l
  <1>11. Behind(written[p], k, h) \cap Wanted = Behind(written[p], c, (k + h) - c) \cap Wanted
    <2>1. \A j \in c + 1 .. k : written[p][j] \notin Wanted
      BY <1>5, <1>10 DEF Reported
    <2>2. (k + h) - k = h
      BY <1>7
    <2>3. \A j : j \in c + 1 .. k + h <=> j \in c + 1 .. k \/ j \in k + 1 .. k + h
      BY <1>7
    <2> QED BY <1>10, <2>1, <2>2, <2>3
  <1>12. Reported(p, k + h, c)'
    BY <1>1, <1>5, <1>6, <1>9, <1>11 DEF Reported
  <1> QED BY <1>1, <1>3, <1>6, <1>8, <1>12 DEF OrderOf

LEMMA WantedIsReport ==
    ASSUME NEW m \in Messages
    PROVE  m \in Wanted <=> LoggedAs(m) = "report"
  BY DEF Wanted, LoggedAs

\* The j-th message is m, the next report behind the first c, and what is left of
\* the result are the reports behind it.
NextIs(p, k, c, m, j) ==
    /\ written[p][j] = m
    /\ \A i \in c + 1 .. j - 1 : written[p][i] \notin Wanted
    /\ (result[p] \ {m}) \cap Wanted = Behind(written[p], j, k - j) \cap Wanted

\* The report logged next is the next one that the peer wrote: those between have
\* a smaller number and would have come before it.
LEMMA NextReport ==
    ASSUME InvTypes, NEW p \in Peers, NumbersOf(p),
           NEW k \in 0 .. Len(written[p]), NEW c \in 0 .. k, Reported(p, k, c),
           NEW m \in result[p] \cap Wanted, IsNext(m, result[p])
    PROVE  \E j \in c + 1 .. k : NextIs(p, k, c, m, j)
  <1>0. Len(written[p]) \in Nat /\ written[p] \in Seq(Messages)
    BY LenProperties DEF InvTypes
  <1>1. result[p] \cap Wanted = Behind(written[p], c, k - c) \cap Wanted
    BY DEF Reported
  <1>2. \A x : x \in Behind(written[p], c, k - c) <=> \E j \in c + 1 .. k : written[p][j] = x
    <2>1. k \in Nat /\ c \in 0 .. k
      BY <1>0
    <2> QED BY ONLY <2>1, BehindIs
  <1>3. PICK j \in c + 1 .. k : written[p][j] = m
    BY <1>1, <1>2
  <1>4. \A i \in c + 1 .. k : written[p][i].no = i /\ written[p][i] \in Messages
    <2>1. \A i \in c + 1 .. k : i \in 1 .. Len(written[p])
      BY <1>0
    <2> QED BY <1>0, <2>1, ElementOfSeq DEF NumbersOf
  <1>5. ASSUME NEW i \in c + 1 .. j - 1 PROVE written[p][i] \notin Wanted
    <2> SUFFICES ASSUME written[p][i] \in Wanted PROVE FALSE
      OBVIOUS
    <2>1. i \in c + 1 .. k /\ i < j
      BY <1>0
    <2>2. written[p][i] \in result[p] \ {m}
      BY <1>1, <1>2, <1>3, <1>4, <2>1
    <2>3. Before(m, written[p][i])
      BY <2>2 DEF IsNext
    <2>4. LoggedAs(m) = "report" /\ LoggedAs(written[p][i]) = "report"
      BY <1>3, <1>4, <2>1, WantedIsReport
    <2>5. m.no < written[p][i].no
      BY <2>3, <2>4 DEF Before, Rank
    <2> QED BY <1>3, <1>4, <2>1, <2>5
  <1>6. \A x : x \in Behind(written[p], j, k - j) <=> \E i \in j + 1 .. k : written[p][i] = x
    <2>1. k \in Nat /\ j \in 0 .. k
      BY <1>0
    <2> QED BY <2>1, BehindIs
  <1>7. ASSUME NEW x \in (result[p] \ {m}) \cap Wanted PROVE x \in Behind(written[p], j, k - j)
    <2>1. PICK i \in c + 1 .. k : written[p][i] = x
      BY <1>1, <1>2
    <2>2. i # j /\ ~(i \in c + 1 .. j - 1)
      BY <1>3, <1>5, <2>1
    <2>3. i \in j + 1 .. k
      BY <1>0, <2>2
    <2> QED BY <1>6, <2>1, <2>3
  <1>8. ASSUME NEW x \in Behind(written[p], j, k - j) \cap Wanted PROVE x \in result[p] \ {m}
    <2>1. PICK i \in j + 1 .. k : written[p][i] = x
      BY <1>6
    <2>2. i \in c + 1 .. k /\ i # j
      BY <1>0
    <2>3. x # m
      BY <1>3, <1>4, <2>1, <2>2
    <2> QED BY <1>1, <1>2, <2>1, <2>2, <2>3
  <1>9. (result[p] \ {m}) \cap Wanted = Behind(written[p], j, k - j) \cap Wanted
    BY <1>7, <1>8
  <1> QED BY <1>3, <1>5, <1>9 DEF NextIs
\* Between c and j nothing is selected, but j is.
LEMMA NextSelected ==
    ASSUME NEW seq \in Seq(Messages), NEW k \in 0 .. Len(seq), NEW c \in 0 .. k,
           NEW j \in c + 1 .. k, seq[j] \in Wanted,
           \A i \in c + 1 .. j - 1 : seq[i] \notin Wanted
    PROVE  Selections(seq, Wanted)[j] = Append(Selections(seq, Wanted)[c], seq[j])
  <1>0. Len(seq) \in Nat
    BY LenProperties
  <1>1. j \in 1 .. Len(seq)
    BY <1>0
  <1>2. Selections(seq, Wanted)[j - 1] = Selections(seq, Wanted)[c]
    <2> DEFINE last == j - 1
    <2>1. /\ c \in 0 .. Len(seq) /\ last \in c .. Len(seq)
          /\ \A i \in c + 1 .. last : seq[i] \notin Wanted
      BY <1>0
    <2> HIDE DEF last
    <2>2. Selections(seq, Wanted)[last] = Selections(seq, Wanted)[c]
      BY <2>1, SelectionsSkip
    <2> QED BY <2>2 DEF last
  <1>3. Selections(seq, Wanted)[j] =
          IF seq[j] \in Wanted THEN Append(Selections(seq, Wanted)[j - 1], seq[j])
          ELSE Selections(seq, Wanted)[j - 1]
    BY <1>1, SelectionsNext
  <1> QED BY <1>2, <1>3

LEMMA OrderLog ==
    ASSUME InvTypes, NEW p \in Peers, OrderOf(p), NumbersOf(p), LogLine(p)
    PROVE  OrderOf(p)'
  <1>1. /\ NamesIn(fields) \subseteq AVAILABLE_FIELDS /\ result[p] \subseteq Messages
        /\ log[p] \in Seq(AllLines) /\ written[p] \in Seq(Messages) /\ Len(written[p]) \in Nat
    BY LenProperties DEF InvTypes
  <1>2. PICK m \in result[p] :
          /\ IsNext(m, result[p])
          /\ log' = [log EXCEPT ![p] = Append(log[p], Line(LoggedAs(m), m))]
          /\ result' = [result EXCEPT ![p] = result[p] \ {m}]
    BY <1>1 DEF LogLine
  <1> DEFINE line == Line(LoggedAs(m), m)
  <1>3. line \in AllLines /\ line.of = m /\ (line.as = "report" <=> m \in Wanted)
    BY <1>1, LoggedAsTypes, WantedIsReport DEF Line, AllLines
  <1>4. log'[p] = Append(log[p], line) /\ result'[p] = result[p] \ {m}
    BY <1>2 DEF InvTypes
  <1> HIDE DEF line
  <1>5. /\ UNCHANGED <<peer, written, wire, stream>> /\ Wanted' = Wanted
    BY DEF LogLine, theirs, config, Wanted
  <1>6. PICK k \in 0 .. Len(written[p]) :
          /\ peer[p] \notin {"reset", "lost"} => Ahead(p, k)
          /\ \E c \in 0 .. k : Reported(p, k, c)
    BY DEF OrderOf
  <1>7. PICK c \in 0 .. k : Reported(p, k, c)
    BY <1>6
  <1>8. \E d \in 0 .. k : Reported(p, k, d)'
    <2>1. CASE m \in Wanted
      <3>1. PICK j \in c + 1 .. k : NextIs(p, k, c, m, j)
        BY <1>2, <1>7, <2>1, NextReport
      <3>2. j \in 0 .. k
        BY <1>1
      <3>4. Selections(written[p], Wanted)[j] = Append(Selections(written[p], Wanted)[c], m)
        <4>1. written[p][j] = m /\ written[p][j] \in Wanted
          BY <2>1, <3>1 DEF NextIs
        <4>2. /\ written[p] \in Seq(Messages) /\ k \in 0 .. Len(written[p]) /\ c \in 0 .. k
              /\ j \in c + 1 .. k /\ \A i \in c + 1 .. j - 1 : written[p][i] \notin Wanted
          BY <1>1, <3>1 DEF NextIs
        <4>3. Selections(written[p], Wanted)[j] = Append(Selections(written[p], Wanted)[c], written[p][j])
          BY ONLY <4>1, <4>2, NextSelected
        <4> QED BY <4>1, <4>3
      <3>5. MessagesOf(ReportsOf(log'[p])) = Append(MessagesOf(ReportsOf(log[p])), m)
        BY <1>1, <1>3, <1>4, <2>1, HandedAppend
      <3>6. Reported(p, k, j)'
        BY <1>4, <1>5, <1>7, <3>1, <3>4, <3>5 DEF Reported, NextIs
      <3> QED BY <3>2, <3>6
    <2>2. CASE m \notin Wanted
      <3>1. MessagesOf(ReportsOf(log'[p])) = MessagesOf(ReportsOf(log[p]))
        BY <1>1, <1>3, <1>4, <2>2, HandedAppend
      <3>2. result'[p] \cap Wanted = result[p] \cap Wanted
        BY <1>4, <2>2
      <3>3. Reported(p, k, c)'
        BY <1>5, <1>7, <3>1, <3>2 DEF Reported
      <3> QED BY <3>3
    <2> QED BY <2>1, <2>2
  <1>9. peer[p] \notin {"reset", "lost"} => Ahead(p, k)'
    BY <1>5, <1>6 DEF Ahead
  <1>10. peer[p] \in {"reset", "lost"} => wire[p] = <<>>
    BY DEF OrderOf
  <1> QED BY <1>5, <1>6, <1>8, <1>9, <1>10 DEF OrderOf

LEMMA OrderThread ==
    ASSUME Inv, InvTypes, InvMessages, InvOrder, NEW p \in Peers, ThreadStep(p)
    PROVE  InvOrder'
  <1>0. \A q \in Peers : OrderOf(q) /\ NumbersOf(q) /\ StartOf(q)
    BY DEF InvOrder
  <1>1. UNCHANGED <<main, config, peer, written>> /\ thread[p] # "none"
    BY DEF ThreadStep, Recv, LogLine, NextRecv, RecvEnds, Finally, theirs
  <1>2. main # "parse"
    BY <1>0, <1>1 DEF StartOf
  <1>3. ASSUME NEW q \in Peers, q # p PROVE (OrderOf(q) /\ NumbersOf(q) /\ StartOf(q))'
    <2>1. /\ wire'[q] = wire[q] /\ stream'[q] = stream[q]
          /\ result'[q] = result[q] /\ log'[q] = log[q]
      <3>1. ASSUME NEW n \in 1 .. MaxChunk, Recv(p, n)
            PROVE  wire'[q] = wire[q] /\ stream'[q] = stream[q] /\ result'[q] = result[q] /\ log' = log
        BY <1>3, <3>1 DEF Recv, Kept, InvTypes
      <3>2. CASE LogLine(p)
        BY <1>3, <3>2 DEF LogLine, theirs, InvTypes
      <3>3. CASE NextRecv(p) \/ RecvEnds(p) \/ Finally(p)
        BY <1>3, <3>3 DEF NextRecv, RecvEnds, Finally, theirs, InvTypes
      <3> QED BY <3>1, <3>2, <3>3 DEF ThreadStep
    <2> QED BY <1>0, <1>1, <1>2, <2>1, OthersOrder DEF config
  <1>4. ASSUME NEW n \in 1 .. MaxChunk, Recv(p, n) PROVE OrderOf(p)'
    <2>1. result[p] = {}
      BY <1>4 DEF Recv, InvMessages, StageOf
    <2> QED BY <1>0, <1>4, <2>1, OrderRecv
  <1>5. ASSUME LogLine(p) PROVE OrderOf(p)'
    BY <1>0, <1>5, OrderLog
  <1>6. ASSUME NextRecv(p) \/ RecvEnds(p) PROVE OrderOf(p)'
    BY <1>0, <1>1, <1>6, OrderKept DEF NextRecv, RecvEnds, theirs, config
  <1>7. ASSUME Finally(p) PROVE OrderOf(p)'
    <2>1. log'[p] = log[p] \o LastLines(p) /\ log[p] \in Seq(AllLines)
      BY <1>7 DEF Finally, InvTypes
    <2>2. MessagesOf(ReportsOf(log'[p])) = MessagesOf(ReportsOf(log[p]))
      BY <2>1, HandedLast
    <2> QED BY <1>0, <1>1, <1>7, <2>2, OrderKept DEF Finally, theirs, config
  <1>8. OrderOf(p)'
    BY <1>4, <1>5, <1>6, <1>7 DEF ThreadStep
  <1>9. NumbersOf(p)' /\ StartOf(p)'
    BY <1>0, <1>1, <1>2, NumbersKept DEF StartOf
  <1> QED BY <1>3, <1>8, <1>9 DEF InvOrder
LEMMA OrderStep == Inv /\ InvTypes /\ InvMessages /\ InvOrder /\ [Next]_vars => InvOrder'
  <1> SUFFICES ASSUME Inv, InvTypes, InvMessages, InvOrder, [Next]_vars PROVE InvOrder'
    OBVIOUS
  <1>1. CASE UNCHANGED vars
    <2>1. ASSUME NEW q \in Peers PROVE (OrderOf(q) /\ NumbersOf(q) /\ StartOf(q))'
      <3>1. OrderOf(q) /\ NumbersOf(q) /\ StartOf(q)
        BY DEF InvOrder
      <3>2. UNCHANGED <<main, config, theirs, ours>>
        BY <1>1 DEF vars
      <3>3. OrderOf(q)' /\ NumbersOf(q)'
        BY <3>1, <3>2, OrderKept, NumbersKept DEF config, theirs, ours
      <3> QED BY <3>1, <3>2, <3>3 DEF StartOf, theirs, ours
    <2> QED BY <2>1 DEF InvOrder
  <1>2. CASE \E p \in Peers : PeerStep(p) \/ ThreadStep(p)
    BY <1>2, OrderPeer, OrderThread
  <1> QED BY <1>1, <1>2, OrderMain DEF Next

LEMMA StreamWrites ==
    ASSUME InvTypes, InvOrder, NEW p \in Peers, NEW w \in Writes[p], PeerWrites(p, w)
    PROVE  [ReportStream(p)!Next]_(ReportStream(p)!vars)
  <1> DEFINE m == Message(p, w)
  <1>1. /\ m \in Messages /\ m.from = p /\ m.kind = w.kind /\ m.reader = w.reader
        /\ m.no = Len(written[p]) + 1
    BY MessageTypes DEF Message
  <1>2. /\ written'[p] = Append(written[p], m) /\ UNCHANGED <<config, ours>>
        /\ Len(written[p]) < MaxWritten[p]
    BY DEF PeerWrites, InvTypes
  <1>3. written[p] \in Seq(Messages) /\ Len(written[p]) \in Nat /\ MaxWritten[p] \in Nat
    BY BoundAssumption, LenProperties DEF InvTypes
  <1> HIDE DEF m
  <1>4. WrittenReports(p)' = IF m \in Wanted THEN Append(WrittenReports(p), m) ELSE WrittenReports(p)
    <2>1. written'[p] \in Seq(Messages)
      BY <1>1, <1>2, <1>3, AppendProperties
    <2>2. WrittenReports(p) = Select(written[p], Wanted)
      BY <1>3, WrittenSelected DEF WrittenReports, Wanted
    <2>3. WrittenReports(p)' = Select(written'[p], Wanted')
      BY <2>1, WrittenSelected DEF WrittenReports, Wanted
    <2>4. Wanted' = Wanted
      BY <1>2 DEF Wanted, config
    <2>5. Select(Append(written[p], m), Wanted) =
            IF m \in Wanted THEN Append(Select(written[p], Wanted), m) ELSE Select(written[p], Wanted)
      <3>1. ASSUME NEW seq \in Seq(Messages), NEW e \in Messages
            PROVE  Select(Append(seq, e), Wanted) =
                     IF e \in Wanted THEN Append(Select(seq, Wanted), e) ELSE Select(seq, Wanted)
        BY SelectAppend
      <3> QED BY <1>1, <1>3, <3>1
    <2> QED BY <1>2, <2>2, <2>3, <2>4, <2>5
  <1>5. UNCHANGED MessagesOf(ReportsOf(log[p]))
    BY <1>2 DEF ours
  <1>6. CASE m \in Wanted
    <2>1. m \in [from : {p}, kind : {"frame"}, reader : {x.reader : x \in Writes[p]},
                 no : 1 .. MaxWritten[p]]
      BY <1>1, <1>2, <1>3, <1>6 DEF Wanted, Messages
    <2>2. ReportStream(p)!Write(m)
      BY <1>4, <1>5, <1>6 DEF ReportStream!Write
    <2> QED BY <2>1, <2>2 DEF ReportStream!Next
  <1>7. CASE m \notin Wanted
    BY <1>4, <1>5, <1>7 DEF ReportStream!vars
  <1> QED BY <1>6, <1>7
LEMMA StreamHandsOver ==
    ASSUME InvTypes, InvOrder, NEW p \in Peers, LogLine(p)
    PROVE  [ReportStream(p)!Next]_(ReportStream(p)!vars)
  <1>1. /\ NamesIn(fields) \subseteq AVAILABLE_FIELDS /\ result[p] \subseteq Messages
        /\ log[p] \in Seq(AllLines) /\ written[p] \in Seq(Messages) /\ Len(written[p]) \in Nat
    BY LenProperties DEF InvTypes
  <1>2. PICK m \in result[p] :
          /\ IsNext(m, result[p])
          /\ log' = [log EXCEPT ![p] = Append(log[p], Line(LoggedAs(m), m))]
    BY <1>1 DEF LogLine
  <1> DEFINE line == Line(LoggedAs(m), m)
  <1>3. line \in AllLines /\ line.of = m /\ (line.as = "report" <=> m \in Wanted)
    BY <1>1, LoggedAsTypes, WantedIsReport DEF Line, AllLines
  <1>4. log'[p] = Append(log[p], line)
    BY <1>2 DEF InvTypes
  <1> HIDE DEF line
  <1>5. UNCHANGED WrittenReports(p)
    BY DEF LogLine, theirs, config, WrittenReports
  <1>6. MessagesOf(ReportsOf(log'[p])) =
          IF m \in Wanted THEN Append(MessagesOf(ReportsOf(log[p])), m)
          ELSE MessagesOf(ReportsOf(log[p]))
    BY <1>1, <1>3, <1>4, HandedAppend
  <1>7. CASE m \in Wanted
    <2> DEFINE handed == MessagesOf(ReportsOf(log[p]))
               all == WrittenReports(p)
    <2>0. OrderOf(p) /\ NumbersOf(p)
      BY DEF InvOrder
    <2>1. PICK k \in 0 .. Len(written[p]) : \E c \in 0 .. k : Reported(p, k, c)
      BY <2>0 DEF OrderOf
    <2>2. PICK c \in 0 .. k : Reported(p, k, c)
      BY <2>1
    <2>3. PICK j \in c + 1 .. k : NextIs(p, k, c, m, j)
      BY <1>2, <1>7, <2>0, <2>2, NextReport
    <2>4. all = Select(written[p], Wanted)
      BY <1>1, WrittenSelected DEF WrittenReports, Wanted
    <2>5. handed = Selections(written[p], Wanted)[c]
      BY <2>2 DEF Reported
    <2>6. Selections(written[p], Wanted)[j] = Append(handed, m)
      <3>1. written[p][j] = m /\ written[p][j] \in Wanted
        BY <1>7, <2>3 DEF NextIs
      <3>2. /\ written[p] \in Seq(Messages) /\ k \in 0 .. Len(written[p]) /\ c \in 0 .. k
            /\ j \in c + 1 .. k /\ \A i \in c + 1 .. j - 1 : written[p][i] \notin Wanted
        BY <1>1, <2>3 DEF NextIs
      <3>3. Selections(written[p], Wanted)[j] = Append(Selections(written[p], Wanted)[c], written[p][j])
        BY ONLY <3>1, <3>2, NextSelected
      <3> QED BY <2>5, <3>1, <3>3
    <2>7. Begins(Selections(written[p], Wanted)[j], all)
      <3>1. j \in 0 .. Len(written[p])
        BY <1>1
      <3> QED BY <1>1, <2>4, <3>1, SelectionsBegin
    <2>8. handed \in Seq(Messages) /\ m \in Messages
      BY <1>1, <1>3, HandedAppend
    <2>9. all \in Seq(Messages)
      <3>1. all \in Seq(Messages \cap Wanted)
        BY <1>1, <2>4, SelectType
      <3>2. Messages \cap Wanted \subseteq Messages
        OBVIOUS
      <3> HIDE DEF all
      <3> QED BY <3>1, <3>2
    <2> HIDE DEF handed, all
    <2>10. Len(handed) < Len(all) /\ all[Len(handed) + 1] = m
      <3>1. /\ Len(Append(handed, m)) = Len(handed) + 1 /\ Len(handed) \in Nat /\ Len(all) \in Nat
            /\ Append(handed, m)[Len(handed) + 1] = m
        BY <2>8, <2>9, AppendProperties, LenProperties
      <3> QED BY <2>6, <2>7, <3>1 DEF Begins
    <2>11. ReportStream(p)!HandOver
      BY <1>5, <1>6, <1>7, <2>10 DEF ReportStream!HandOver, handed, all
    <2> QED BY <2>11 DEF ReportStream!Next
  <1>8. CASE m \notin Wanted
    BY <1>5, <1>6, <1>8 DEF ReportStream!vars
  <1> QED BY <1>7, <1>8

LEMMA StreamStep ==
    ASSUME InvTypes, InvOrder, [Next]_vars, NEW p \in Peers
    PROVE  UNCHANGED <<written, log>> \/ [ReportStream(p)!Next]_(ReportStream(p)!vars)
  <1>1. CASE UNCHANGED vars
    BY <1>1 DEF vars, theirs, ours
  <1>2. CASE MainStep \/ ServingFails \/ Interrupt \/ Exit
    BY <1>2 DEF MainStep, Main, Accept, StartThread, ServingFails, Interrupt, Exit, theirs, ours
  <1>3. ASSUME NEW q \in Peers, PeerStep(q) \/ ThreadStep(q),
               ~(\E w \in Writes[p] : q = p /\ PeerWrites(p, w)), ~(q = p /\ LogLine(p))
        PROVE  [ReportStream(p)!Next]_(ReportStream(p)!vars)
    <2>1. written'[p] = written[p] /\ UNCHANGED config
      BY <1>3 DEF PeerStep, PeerConnects, PeerCloses, PeerBreaks, PeerWrites, PeerStopsShort,
                  ThreadStep, Recv, LogLine, NextRecv, RecvEnds, Finally, theirs, InvTypes
    <2>2. MessagesOf(ReportsOf(log'[p])) = MessagesOf(ReportsOf(log[p]))
      <3>1. CASE q = p /\ Finally(p)
        <4>1. log'[p] = log[p] \o LastLines(p) /\ log[p] \in Seq(AllLines)
          BY <3>1 DEF Finally, InvTypes
        <4> QED BY <4>1, HandedLast
      <3>2. CASE ~(q = p /\ Finally(p))
        <4>1. log'[p] = log[p]
          BY <1>3, <3>2 DEF PeerStep, PeerConnects, PeerCloses, PeerBreaks, PeerWrites, PeerStopsShort,
                  ThreadStep, Recv, LogLine, NextRecv, RecvEnds, Finally, ours, InvTypes
        <4> QED BY <4>1
      <3> QED BY <3>1, <3>2
    <2>3. WrittenReports(p)' = WrittenReports(p)
      BY <2>1 DEF WrittenReports, config
    <2> QED BY <2>2, <2>3 DEF ReportStream!vars
  <1> QED BY <1>1, <1>2, <1>3, StreamWrites, StreamHandsOver DEF Next

\* The reports logged about a connection are those its peer wrote for the readers
\* asked for, once each and in the order written, whatever is written on it, however
\* it is cut and whatever the other connections do.
THEOREM ReportsInOrder == Spec => ReportsAreStreams
  <1>1. Init => \A p \in Peers : ReportStream(p)!Init
    <2> SUFFICES ASSUME Init, NEW p \in Peers PROVE ReportStream(p)!Init
      OBVIOUS
    <2>1. written[p] = <<>> /\ log[p] = <<>>
      BY DEF Init
    <2>2. WrittenReports(p) = <<>>
      BY <2>1, SelectEmpty DEF WrittenReports
    <2> QED BY <2>1, <2>2, HandedEmpty DEF ReportStream!Init
  <1>2. InvTypes /\ InvOrder /\ [Next]_vars =>
          [\A p \in Peers : [ReportStream(p)!Next]_(ReportStream(p)!vars)]_<<written, log>>
    BY StreamStep
  <1>3. Spec => [](InvTypes /\ InvOrder)
    BY InitInv, NextInv, TypesInit, TypesStep, MessagesInit, MessagesStep, OrderInit, OrderStep,
       PTL DEF Spec
  <1> QED BY <1>1, <1>2, <1>3, PTL DEF Spec, ReportsAreStreams
=============================================================================
