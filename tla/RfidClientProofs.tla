-------------------------- MODULE RfidClientProofs --------------------------
(***************************************************************************)
(* Proofs about RfidClient for any readers, addresses and rates, any       *)
(* chunks and any number of calls, connections and pushed messages.        *)
(*                                                                         *)
(* InvType says what the parts of the state are, of which connection       *)
(* everything in flight or held is, and how much of it can be held.        *)
(* InvAnswer is the protocol: on an undisturbed connection there is never  *)
(* more than one answer on its way, and it answers the call under way.     *)
(***************************************************************************)
EXTENDS RfidClient, SequenceTheorems, TLAPS

-----------------------------------------------------------------------------
(* Types.                                                                  *)

LineRates == {bps[b] : b \in Rates}

\* Commands as they are sent.
Sent ==
    {c \in [op : Methods, adr : Addresses \cup {Broadcast},
            arg : {"none"} \cup Addresses \cup Rates, id : 1 .. MaxCalls] :
       /\ c.op = "set_address" => c.arg \in Addresses
       /\ c.op = "set_baud_rate" => c.arg \in Rates}

Items == [req : Sent, todo : SUBSET Readers, answered : BOOLEAN]

FrameCommands == {Command(op) : op \in AllMethods} \cup {"0", "TAG_REPORT"}

\* The messages of the present connection.
Frames ==
    [kind : {"frame"}, command : FrameCommands, status : {"ok", "failed", "illegal", "short"},
     reader : Addresses, answers : 0 .. MaxCalls, connection : {connections}]

Received ==
    Frames \cup [kind : {"heartbeat", "garbled"}, answers : 0 .. MaxCalls,
                 connection : {connections}]

Units == [of : Received, half : {1, 2}]

Outcomes == {"returned", "TimeoutError", "ValueError", "ConnectionError", "RuntimeError"}

InvControl ==
    /\ socket \in {"closed", "open"} /\ peerUp \in BOOLEAN /\ clean \in BOOLEAN
    /\ call = NoCall \/ call \in Sent
    /\ outcome = NoOutcome \/ outcome.kind \in Outcomes
    /\ calls \in 0 .. MaxCalls /\ connections \in 0 .. MaxConnections
    /\ pushed \in 0 .. MaxUnsolicited

InvReaders ==
    /\ address \in [Readers -> Addresses]
    /\ rate \in [Readers -> LineRates] /\ lineRate \in LineRates
    /\ toReader \in Seq(Items)

\* What is in flight or held is of the present connection, and not much is held.
InvFlow ==
    /\ buffer \in Seq(Units) /\ toClient \in Seq(Units) /\ responses \in Seq(Frames)
    /\ Len(buffer) <= 1 /\ 2 * Len(responses) <= MaxChunk + 1
    /\ socket = "closed" =>
         /\ ~peerUp /\ buffer = <<>> /\ toClient = <<>> /\ responses = <<>>

InvType == InvControl /\ InvReaders /\ InvFlow

LEMMA InitType == Init => InvType
  <1> SUFFICES ASSUME Init PROVE InvType
    OBVIOUS
  <1>1. /\ <<>> \in Seq(Items) /\ <<>> \in Seq(Units) /\ <<>> \in Seq(Frames)
        /\ Len(<<>>) = 0
    BY EmptySeq
  <1>3. MaxChunk \in Nat /\ MaxCalls \in Nat /\ MaxConnections \in Nat /\ MaxUnsolicited \in Nat
    BY BoundAssumption
  <1>4. lineRate \in LineRates /\ rate \in [Readers -> LineRates]
    BY DEF Init, LineRates
  <1>5. address \in [Readers -> Addresses]
    BY DEF Init
  <1>6. /\ socket = "closed" /\ peerUp = FALSE /\ clean = TRUE /\ call = NoCall
        /\ outcome = NoOutcome /\ toReader = <<>> /\ toClient = <<>>
        /\ buffer = <<>> /\ responses = <<>>
        /\ calls = 0 /\ connections = 0 /\ pushed = 0
    BY DEF Init
  <1>7. /\ socket \in {"closed", "open"}
        /\ calls \in 0 .. MaxCalls /\ connections \in 0 .. MaxConnections
        /\ pushed \in 0 .. MaxUnsolicited
    BY <1>3, <1>6
  <1>10. peerUp \in BOOLEAN /\ clean \in BOOLEAN
    BY <1>6
  <1>8. Len(buffer) <= 1 /\ 2 * Len(responses) <= MaxChunk + 1
    BY <1>1, <1>3, <1>6
  <1>9. toReader \in Seq(Items) /\ buffer \in Seq(Units) /\ toClient \in Seq(Units)
        /\ responses \in Seq(Frames)
    BY <1>1, <1>6
  <1> HIDE DEF Items, Units, Frames
  <1> QED BY <1>4, <1>5, <1>6, <1>7, <1>8, <1>9, <1>10 DEF InvType, InvControl, InvReaders, InvFlow

-----------------------------------------------------------------------------
(* Sequences of units.                                                     *)

\* A part of a sequence is a sequence over the same set.
LEMMA Part ==
    ASSUME NEW S, NEW s \in Seq(S), NEW a \in Nat, NEW b \in Nat, a <= b, b <= Len(s)
    PROVE  /\ SubSeq(s, a + 1, b) \in Seq(S)
           /\ Len(SubSeq(s, a + 1, b)) = b - a
           /\ \A i \in 1 .. b - a : SubSeq(s, a + 1, b)[i] = s[a + i]
  <1>1. \A i \in a + 1 .. b : s[i] \in S
    BY LenProperties, ElementOfSeq
  <1>2. a + 1 \in Int /\ b \in Int
    OBVIOUS
  <1> QED BY <1>1, <1>2, SubSeqProperties

LEMMA PartIs ==
    ASSUME NEW S, NEW s \in Seq(S), NEW a \in Nat, NEW b \in Nat, a <= b, b <= Len(s),
           NEW t \in Seq(S), Len(t) = b - a, \A i \in 1 .. b - a : t[i] = s[a + i]
    PROVE  SubSeq(s, a + 1, b) = t
  <1> DEFINE p == SubSeq(s, a + 1, b)
  <1>1. p \in Seq(S) /\ Len(p) = b - a /\ \A i \in 1 .. b - a : p[i] = s[a + i]
    BY Part
  <1> HIDE DEF p
  <1>2. p = t
    BY <1>1, SeqEqual
  <1> QED BY <1>2 DEF p

LEMMA TailOf ==
    ASSUME NEW S, NEW s \in Seq(S), NEW n \in Nat, n <= Len(s)
    PROVE  /\ SubSeq(s, 1, n) \in Seq(S) /\ Len(SubSeq(s, 1, n)) = n
           /\ SubSeq(s, n + 1, Len(s)) \in Seq(S)
           /\ Len(SubSeq(s, n + 1, Len(s))) = Len(s) - n
  <1>1. Len(s) \in Nat /\ 0 \in Nat
    BY LenProperties
  <1>2. SubSeq(s, 0 + 1, n) \in Seq(S) /\ Len(SubSeq(s, 0 + 1, n)) = n - 0
    BY <1>1, Part
  <1>3. /\ SubSeq(s, n + 1, Len(s)) \in Seq(S)
        /\ Len(SubSeq(s, n + 1, Len(s))) = Len(s) - n
    BY <1>1, Part
  <1> QED BY <1>2, <1>3

LEMMA Pairs ==
    ASSUME NEW n \in Nat
    PROVE  /\ n \div 2 \in Nat /\ 2 * (n \div 2) <= n /\ n <= 2 * (n \div 2) + 1
           /\ \A i \in 1 .. n \div 2 : 2 * i - 1 \in 1 .. n /\ 2 * i \in 1 .. n
  OBVIOUS

\* What feed() makes of units: the messages of the present connection and at
\* most one unit that is kept.
LEMMA Fed ==
    ASSUME NEW units \in Seq(Units)
    PROVE  /\ Remainder(units) \in Seq(Units) /\ Len(Remainder(units)) <= 1
           /\ Len(units) \in Nat
           /\ WholeMessages(units) \in Seq(Received)
           /\ Len(WholeMessages(units)) = Len(units) \div 2
           /\ \A i \in 1 .. Len(units) \div 2 : WholeMessages(units)[i] = units[2 * i - 1].of
  <1> DEFINE h == Len(units) \div 2
  <1>1. Len(units) \in Nat
    BY LenProperties
  <1>2. /\ h \in Nat /\ 2 * h <= Len(units) /\ Len(units) <= 2 * h + 1
        /\ \A i \in 1 .. h : 2 * i - 1 \in 1 .. Len(units)
    BY <1>1, Pairs
  <1>3. Remainder(units) \in Seq(Units) /\ Len(Remainder(units)) = Len(units) - 2 * h
    <2> DEFINE n == 2 * h
    <2>1. n \in Nat /\ n <= Len(units)
      BY <1>2
    <2>2. Remainder(units) = SubSeq(units, n + 1, Len(units))
      BY DEF Remainder
    <2> HIDE DEF n
    <2>3. Remainder(units) \in Seq(Units) /\ Len(Remainder(units)) = Len(units) - n
      BY <2>1, <2>2, TailOf
    <2> QED BY <2>3 DEF n
  <1>4. ASSUME NEW i \in 1 .. h PROVE units[2 * i - 1].of \in Received
    <2>1. 2 * i - 1 \in 1 .. Len(units)
      BY <1>2
    <2>2. units[2 * i - 1] \in Units
      BY <2>1, ElementOfSeq
    <2> QED BY <2>2 DEF Units
  <1>5. WholeMessages(units) = [i \in 1 .. h |-> units[2 * i - 1].of]
    BY DEF WholeMessages
  <1>6. WholeMessages(units) \in [1 .. h -> Received]
    BY <1>4, <1>5
  <1> HIDE DEF h
  <1>7. WholeMessages(units) \in Seq(Received) /\ Len(WholeMessages(units)) = h
    BY <1>2, <1>6, SeqDef
  <1> QED BY <1>1, <1>2, <1>3, <1>5, <1>7 DEF h

\* Messages without error and without heartbeat are frames.
LEMMA FedFrames ==
    ASSUME NEW units \in Seq(Units), ~HasErrors(units), ~HasHeartbeats(units)
    PROVE  WholeMessages(units) \in Seq(Frames)
  <1> DEFINE h == Len(units) \div 2
  <1>1. h \in Nat /\ Len(units) \in Nat
    BY Fed, Pairs
  <1>2. ASSUME NEW i \in 1 .. h PROVE units[2 * i - 1].of \in Frames
    <2>1. 2 * i - 1 \in 1 .. Len(units)
      BY <1>1, Pairs
    <2>2. units[2 * i - 1] \in Units
      BY <2>1, ElementOfSeq
    <2>3. units[2 * i - 1].of \in Received
      BY <2>2 DEF Units
    <2>4. units[2 * i - 1].of.kind \notin {"garbled", "heartbeat"}
      BY DEF HasErrors, HasHeartbeats
    <2> QED BY <2>3, <2>4 DEF Received
  <1>3. WholeMessages(units) = [i \in 1 .. h |-> units[2 * i - 1].of]
    BY DEF WholeMessages
  <1>4. WholeMessages(units) \in [1 .. h -> Frames]
    BY <1>2, <1>3
  <1> HIDE DEF h
  <1> QED BY <1>1, <1>4, SeqDef
-----------------------------------------------------------------------------
(* The type invariant is kept.                                             *)

LEMMA Bounds == MaxChunk \in Nat \ {0} /\ MaxCalls \in Nat /\ MaxConnections \in Nat
                  /\ MaxUnsolicited \in Nat
  BY BoundAssumption

LEMMA Empty ==
    /\ <<>> \in Seq(Items) /\ <<>> \in Seq(Units) /\ <<>> \in Seq(Frames)
    /\ <<>> \in Seq(Received) /\ Len(<<>>) = 0
  BY EmptySeq

\* The messages of a connection are the same as long as it lasts.
LEMMA SameConnection ==
    ASSUME connections' = connections
    PROVE  Frames' = Frames /\ Received' = Received /\ Units' = Units
  BY DEF Frames, Received, Units

LEMMA EmptyPrimed == <<>> \in Seq(Units)' /\ <<>> \in Seq(Frames)'
  BY EmptySeq

LEMMA RequestIsSent ==
    ASSUME NEW req \in Requests, calls \in 0 .. MaxCalls, calls < MaxCalls
    PROVE  WithId(req) \in Sent /\ WithId(req) # NoCall
  <1>1. calls + 1 \in 1 .. MaxCalls
    BY Bounds
  <1>2. /\ req.op \in Methods /\ req.adr \in Addresses \cup {Broadcast}
        /\ req.arg \in {"none"} \cup Addresses \cup Rates
        /\ req.op = "set_address" => req.arg \in Addresses
        /\ req.op = "set_baud_rate" => req.arg \in Rates
    BY DEF Requests
  <1>3. req.op # "none"
    BY <1>2, MethodsAssumption DEF AllMethods
  <1>4. WithId(req) \in Sent
    BY <1>1, <1>2 DEF WithId, Sent
  <1>5. WithId(req).op # NoCall.op
    BY <1>3 DEF WithId, NoCall
  <1> QED BY <1>4, <1>5

LEMMA RaisedKind ==
    ASSUME NEW req,
           NEW exception \in {"TimeoutError", "ValueError", "ConnectionError", "RuntimeError"}
    PROVE  Raised(req, exception).kind \in Outcomes \ {"returned"}
  BY DEF Raised, Outcomes

LEMMA FailType ==
    ASSUME NEW exception \in {"TimeoutError", "ConnectionError"}, Fail(exception)
    PROVE  /\ clean' = FALSE /\ call' = NoCall
           /\ outcome'.kind \in Outcomes \ {"returned"}
  BY RaisedKind DEF Fail

LEMMA ConnectType == InvType /\ Connect => InvType'
  <1> SUFFICES ASSUME InvType, Connect PROVE InvType'
    OBVIOUS
  <1>1. connections' \in 0 .. MaxConnections /\ pushed' \in 0 .. MaxUnsolicited
    BY Bounds DEF InvType, InvControl, Connect
  <1>2. InvControl'
    BY <1>1 DEF InvType, InvControl, Connect
  <1>3. InvReaders'
    BY DEF InvType, InvReaders, Connect, reader
  <1>4. buffer' = <<>> /\ toClient' = <<>> /\ responses' = <<>> /\ socket' = "open"
    BY DEF InvType, InvFlow, Connect
  <1>5. InvFlow'
    BY <1>4, Empty, EmptyPrimed, Bounds DEF InvFlow
  <1> QED BY <1>2, <1>3, <1>5 DEF InvType

\* The commands that are left when a connection ends are the first of them.
LEMMA LostCommands ==
    ASSUME InvType, SomeCommandsLost
    PROVE  /\ toReader' \in Seq(Items)
           /\ \A i \in 1 .. Len(toReader') :
                i \in 1 .. Len(toReader) /\ toReader'[i] = toReader[i]
  <1>1. PICK n \in 0 .. Len(toReader) : toReader' = SubSeq(toReader, 1, n)
    BY DEF SomeCommandsLost
  <1>2. toReader \in Seq(Items) /\ Len(toReader) \in Nat /\ 0 \in Nat /\ n \in Nat
    BY LenProperties DEF InvType, InvReaders
  <1>3. /\ SubSeq(toReader, 0 + 1, n) \in Seq(Items)
        /\ Len(SubSeq(toReader, 0 + 1, n)) = n - 0
        /\ \A i \in 1 .. n - 0 : SubSeq(toReader, 0 + 1, n)[i] = toReader[0 + i]
    <2> HIDE DEF Items
    <2> QED BY <1>2, Part
  <1>4. toReader' \in Seq(Items) /\ Len(toReader') = n
    BY <1>1, <1>2, <1>3
  <1> QED BY <1>1, <1>2, <1>3, <1>4

LEMMA CloseType == InvType /\ Close => InvType'
  <1> SUFFICES ASSUME InvType, Close PROVE InvType'
    OBVIOUS
  <1>2. InvControl'
    BY DEF InvType, InvControl, Close
  <1>3. InvReaders'
    BY LostCommands DEF InvType, InvReaders, Close, reader
  <1>4. /\ buffer' = <<>> /\ toClient' = <<>> /\ responses' = <<>>
        /\ ~peerUp'
    BY DEF Close, StreamWhenClosed, ResponsesWhenClosed
  <1>5. InvFlow'
    BY <1>4, Empty, EmptyPrimed, Bounds DEF InvFlow
  <1> QED BY <1>2, <1>3, <1>5 DEF InvType

LEMMA CallType ==
    ASSUME InvType, NEW req \in Requests, CallUnconnected(req) \/ Send(req) \/ SendFails(req)
    PROVE  InvType'
  <1>1. /\ calls < MaxCalls /\ calls' = calls + 1 /\ connections' = connections
        /\ pushed' = pushed /\ socket' = socket /\ peerUp' = peerUp
        /\ buffer' = buffer /\ responses' = responses /\ toClient' = toClient
        /\ address' = address /\ rate' = rate /\ lineRate' = lineRate
    BY DEF CallUnconnected, Send, SendFails, peer, reader
  <1>2. calls \in 0 .. MaxCalls /\ calls' \in 0 .. MaxCalls
    BY <1>1, Bounds DEF InvType, InvControl
  <1>3. Frames' = Frames /\ Units' = Units
    BY <1>1, SameConnection
  <1>4. CASE CallUnconnected(req) \/ SendFails(req)
    <2>1. call' = call /\ toReader' = toReader /\ clean' \in {clean, FALSE}
      BY <1>4 DEF CallUnconnected, SendFails, peer
    <2>2. outcome'.kind \in Outcomes
      BY <1>4, RaisedKind DEF CallUnconnected, SendFails
    <2>3. InvControl'
      BY <1>1, <1>2, <2>1, <2>2 DEF InvType, InvControl
    <2>4. InvReaders' /\ InvFlow'
      BY <1>1, <1>3, <2>1 DEF InvType, InvReaders, InvFlow
    <2> QED BY <2>3, <2>4 DEF InvType
  <1>5. CASE Send(req)
    <2>1. call' = WithId(req) /\ outcome' = NoOutcome /\ clean' = clean /\ socket = "open"
      BY <1>5 DEF Send
    <2>2. WithId(req) \in Sent
      BY <1>1, <1>2, RequestIsSent
    <2>3. InvControl'
      BY <1>1, <1>2, <2>1, <2>2 DEF InvType, InvControl
    <2>4. [req |-> WithId(req), todo |-> Hearers(req.adr), answered |-> FALSE] \in Items
      BY <2>2 DEF Items, Hearers
    <2>5. toReader' \in Seq(Items)
      BY <1>5, <2>4, AppendProperties DEF Send, InvType, InvReaders
    <2>6. InvReaders'
      BY <1>1, <2>5 DEF InvType, InvReaders
    <2>7. InvFlow'
      BY <1>1, <1>3, <2>1 DEF InvType, InvFlow
    <2> QED BY <2>3, <2>6, <2>7 DEF InvType
  <1> QED BY <1>4, <1>5

\* One recv(): what it takes from the wire and what feed() makes of it.
LEMMA ReceiveUnits ==
    ASSUME InvType, NEW n \in 1 .. MaxChunk, Receive(n)
    PROVE  LET units == buffer \o SubSeq(toClient, 1, n)
           IN  /\ units \in Seq(Units) /\ Len(units) = Len(buffer) + n
               /\ toClient' \in Seq(Units) /\ buffer' = Remainder(units)
               /\ socket = "open" /\ call # NoCall /\ responses = <<>>
  <1>1. n \in Nat /\ n <= Len(toClient) /\ toClient' = SubSeq(toClient, n + 1, Len(toClient))
    BY Bounds DEF Receive
  <1>2. buffer \in Seq(Units) /\ toClient \in Seq(Units)
    BY DEF InvType, InvFlow
  <1>3. SubSeq(toClient, 1, n) \in Seq(Units) /\ Len(SubSeq(toClient, 1, n)) = n
    BY <1>1, <1>2, TailOf
  <1>4. toClient' \in Seq(Units)
    BY <1>1, <1>2, TailOf
  <1>5. /\ buffer \o SubSeq(toClient, 1, n) \in Seq(Units)
        /\ Len(buffer \o SubSeq(toClient, 1, n)) = Len(buffer) + n
    BY <1>2, <1>3, ConcatProperties
  <1>6. socket = "open"
    <2>1. toClient # <<>>
      BY <1>1, Empty
    <2> QED BY <2>1 DEF InvType, InvFlow, InvControl
  <1>7. call # NoCall /\ responses = <<>> /\ buffer' = Remainder(buffer \o SubSeq(toClient, 1, n))
    BY DEF Receive, Waiting
  <1> QED BY <1>4, <1>5, <1>6, <1>7

LEMMA ReceiveType ==
    ASSUME InvType, NEW n \in 1 .. MaxChunk, Receive(n)
    PROVE  InvType'
  <1> DEFINE units == buffer \o SubSeq(toClient, 1, n)
  <1>1. /\ units \in Seq(Units) /\ Len(units) = Len(buffer) + n
        /\ toClient' \in Seq(Units) /\ buffer' = Remainder(units)
        /\ socket = "open" /\ responses = <<>>
    BY ReceiveUnits
  <1>2. /\ socket' = socket /\ peerUp' = peerUp /\ toReader' = toReader /\ address' = address
        /\ rate' = rate /\ lineRate' = lineRate /\ calls' = calls
        /\ connections' = connections /\ pushed' = pushed
    BY DEF Receive, reader
  <1>3. \/ Fail("ConnectionError") /\ responses' = responses
        \/ /\ ~HasErrors(units) /\ ~HasHeartbeats(units)
           /\ responses' = responses \o WholeMessages(units)
           /\ call' = call /\ outcome' = outcome /\ clean' = clean
    BY DEF Receive
  <1>4. Len(buffer) <= 1 /\ Len(buffer) \in Nat /\ Len(units) \in Nat
    BY <1>1, LenProperties DEF InvType, InvFlow
  <1> HIDE DEF units
  <1>5. responses' \in Seq(Frames) /\ 2 * Len(responses') <= MaxChunk + 1
    <2>1. CASE responses' = responses
      BY <1>1, <2>1, Empty, Bounds
    <2>2. CASE responses' = responses \o WholeMessages(units) /\ ~HasErrors(units)
                 /\ ~HasHeartbeats(units)
      <3>1. WholeMessages(units) \in Seq(Frames)
        BY <1>1, <2>2, FedFrames
      <3>2. responses' = WholeMessages(units)
        BY <1>1, <2>2, <3>1, ConcatEmptySeq
      <3>3. Len(WholeMessages(units)) = Len(units) \div 2
        BY <1>1, Fed
      <3>4. 2 * (Len(units) \div 2) <= Len(units)
        BY <1>4, Pairs
      <3>5. n <= MaxChunk /\ n \in Nat /\ MaxChunk \in Nat
        BY Bounds
      <3>6. Len(units) <= MaxChunk + 1
        BY <1>1, <1>4, <3>5
      <3>7. Len(units) \div 2 \in Nat
        BY <1>4, Pairs
      <3> QED BY <1>4, <3>1, <3>2, <3>3, <3>4, <3>5, <3>6, <3>7
    <2> QED BY <1>3, <2>1, <2>2
  <1>6. Remainder(units) \in Seq(Units) /\ Len(Remainder(units)) <= 1
    BY <1>1, Fed
  <1>7. Frames' = Frames /\ Units' = Units
    BY <1>2, SameConnection
  <1>8. InvFlow'
    BY <1>1, <1>2, <1>5, <1>6, <1>7 DEF InvFlow
  <1>9. InvControl'
    <2>1. CASE Fail("ConnectionError")
      BY <1>2, <2>1, FailType DEF InvType, InvControl
    <2>2. CASE call' = call /\ outcome' = outcome /\ clean' = clean
      BY <1>2, <2>2 DEF InvType, InvControl
    <2> QED BY <1>3, <2>1, <2>2
  <1>10. InvReaders'
    BY <1>2 DEF InvType, InvReaders
  <1> QED BY <1>8, <1>9, <1>10 DEF InvType

LEMMA FailingCallType ==
    ASSUME InvType, ReceiveEnd \/ Timeout
    PROVE  InvType'
  <1>1. /\ socket' = socket /\ peerUp' = peerUp /\ toReader' = toReader /\ address' = address
        /\ rate' = rate /\ lineRate' = lineRate /\ calls' = calls
        /\ connections' = connections /\ pushed' = pushed /\ buffer' = buffer
        /\ responses' = responses /\ toClient' = toClient
    BY DEF ReceiveEnd, Timeout, peer, reader
  <1>2. Fail("ConnectionError") \/ Fail("TimeoutError")
    BY DEF ReceiveEnd, Timeout
  <1>3. Frames' = Frames /\ Units' = Units
    BY <1>1, SameConnection
  <1>4. InvControl'
    BY <1>1, <1>2, FailType DEF InvType, InvControl
  <1>5. InvReaders' /\ InvFlow'
    BY <1>1, <1>3 DEF InvType, InvReaders, InvFlow
  <1> QED BY <1>4, <1>5 DEF InvType

LEMMA TakeResponseType == InvType /\ TakeResponse => InvType'
  <1> SUFFICES ASSUME InvType, TakeResponse PROVE InvType'
    OBVIOUS
  <1>1. /\ socket' = socket /\ peerUp' = peerUp /\ toReader' = toReader /\ address' = address
        /\ rate' = rate /\ lineRate' = lineRate /\ calls' = calls
        /\ connections' = connections /\ pushed' = pushed /\ buffer' = buffer
        /\ responses # <<>> /\ responses' = Tail(responses) /\ toClient' = toClient
    BY DEF TakeResponse, peer, reader, Popped
  <1>2. \/ Fail("ConnectionError")
        \/ /\ call' = NoCall /\ clean' = clean
           /\ outcome' \in {Returned(call, Head(responses)), Raised(call, "ValueError"),
                             Raised(call, "RuntimeError")}
    BY DEF TakeResponse
  <1>3. Frames' = Frames /\ Units' = Units
    BY <1>1, SameConnection
  <1>4. Returned(call, Head(responses)).kind = "returned"
    BY DEF Returned
  <1>5. Raised(call, "RuntimeError").kind \in Outcomes /\ Raised(call, "ValueError").kind \in Outcomes
    BY RaisedKind
  <1>6. InvControl'
    <2>1. CASE Fail("ConnectionError")
      BY <1>1, <2>1, FailType DEF InvType, InvControl
    <2>2. CASE /\ call' = NoCall /\ clean' = clean
               /\ outcome' \in {Returned(call, Head(responses)), Raised(call, "ValueError"),
                                 Raised(call, "RuntimeError")}
      <3>1. outcome'.kind \in Outcomes
        BY <1>4, <1>5, <2>2 DEF Outcomes
      <3> QED BY <1>1, <2>2, <3>1 DEF InvType, InvControl
    <2> QED BY <1>2, <2>1, <2>2
  <1>7. InvReaders'
    BY <1>1 DEF InvType, InvReaders
  <1>8. InvFlow'
    <2>1. responses \in Seq(Frames)
      BY DEF InvType, InvFlow
    <2>2. /\ Tail(responses) \in Seq(Frames) /\ Len(Tail(responses)) = Len(responses) - 1
          /\ Len(responses) \in Nat
      BY <1>1, <2>1, HeadTailProperties, LenProperties
    <2>3. 2 * Len(responses') <= MaxChunk + 1
      BY <1>1, <2>2, Bounds DEF InvType, InvFlow
    <2>4. socket # "closed"
      BY <1>1 DEF InvType, InvFlow
    <2> QED BY <1>1, <1>3, <2>2, <2>3, <2>4 DEF InvType, InvFlow
  <1> QED BY <1>6, <1>7, <1>8 DEF InvType

\* The rate the manual gives for the code of a member is the member's own.
LEMMA RatesAgree == \A b \in DOMAIN ReaderBaudRate : ManualRate(ReaderBaudRate[b]) = bps[b]
  BY DEF ReaderBaudRate, ManualRate, bps

LEMMA HeadItem ==
    ASSUME InvType, toReader # <<>>
    PROVE  /\ Head(toReader) \in Items /\ Head(toReader) = toReader[1]
           /\ Tail(toReader) \in Seq(Items) /\ Len(toReader) \in Nat \ {0}
           /\ Len(Tail(toReader)) = Len(toReader) - 1
           /\ \A i \in 1 .. Len(Tail(toReader)) : Tail(toReader)[i] = toReader[i + 1]
  <1>1. toReader \in Seq(Items)
    BY DEF InvType, InvReaders
  <1> QED BY <1>1, HeadTailProperties, EmptySeq

LEMMA RequeueItems ==
    ASSUME InvType, toReader # <<>>, NEW item \in Items
    PROVE  /\ Requeue(item) \in Seq(Items)
           /\ \/ Requeue(item) = Tail(toReader)
              \/ /\ Len(Requeue(item)) = Len(toReader) /\ Requeue(item)[1] = item
                 /\ \A i \in 2 .. Len(toReader) : Requeue(item)[i] = toReader[i]
  <1>1. /\ Tail(toReader) \in Seq(Items) /\ Len(toReader) \in Nat \ {0}
        /\ Len(Tail(toReader)) = Len(toReader) - 1
        /\ \A i \in 1 .. Len(Tail(toReader)) : Tail(toReader)[i] = toReader[i + 1]
    BY HeadItem
  <1>2. <<item>> \in Seq(Items) /\ Len(<<item>>) = 1 /\ <<item>>[1] = item
    OBVIOUS
  <1>3. /\ <<item>> \o Tail(toReader) \in Seq(Items)
        /\ Len(<<item>> \o Tail(toReader)) = 1 + Len(Tail(toReader))
        /\ \A i \in 1 .. 1 + Len(Tail(toReader)) :
             (<<item>> \o Tail(toReader))[i] = IF i <= 1 THEN <<item>>[i] ELSE Tail(toReader)[i - 1]
    BY <1>1, <1>2, ConcatProperties
  <1> DEFINE all == <<item>> \o Tail(toReader)
  <1>4. /\ all \in Seq(Items) /\ Len(all) = Len(toReader) /\ all[1] = item
        /\ \A i \in 2 .. Len(toReader) : all[i] = toReader[i]
    <2>1. Len(all) = Len(toReader) /\ all[1] = item /\ all \in Seq(Items)
      BY <1>1, <1>2, <1>3
    <2>2. ASSUME NEW i \in 2 .. Len(toReader) PROVE all[i] = toReader[i]
      <3>1. i - 1 \in 1 .. Len(Tail(toReader)) /\ ~(i <= 1) /\ i \in 1 .. 1 + Len(Tail(toReader))
        BY <1>1
      <3>2. all[i] = Tail(toReader)[i - 1]
        BY <1>3, <3>1
      <3>3. Tail(toReader)[i - 1] = toReader[(i - 1) + 1]
        BY <1>1, <3>1
      <3>4. (i - 1) + 1 = i
        BY <1>1
      <3> QED BY <3>2, <3>3, <3>4
    <2> QED BY <2>1, <2>2
  <1>5. Requeue(item) = Tail(toReader) \/ Requeue(item) = all
    BY DEF Requeue
  <1> HIDE DEF all
  <1> QED BY <1>1, <1>4, <1>5

LEMMA ItemParts ==
    ASSUME NEW item \in Items, NEW r \in Readers
    PROVE  /\ item.req \in Sent /\ item.todo \subseteq Readers /\ item.answered \in BOOLEAN
           /\ Answered(item, r) \in Items /\ Passed(item, r) \in Items
           /\ Answered(item, r).answered = TRUE /\ Passed(item, r).answered = item.answered
           /\ Answered(item, r).req = item.req /\ Passed(item, r).req = item.req
           /\ Answered(item, r).todo = item.todo \ {r} /\ Passed(item, r).todo = item.todo \ {r}
  BY DEF Items, Answered, Passed

LEMMA SettingsType ==
    ASSUME InvType, NEW r \in Readers, NEW c \in Sent,
           NEW settings \in {Settings(r), CarriedOut(c, r)}
    PROVE  settings[1] \in Addresses /\ settings[2] \in LineRates
  <1>1. address[r] \in Addresses /\ rate[r] \in LineRates
    BY DEF InvType, InvReaders
  <1>2. Settings(r)[1] \in Addresses /\ Settings(r)[2] \in LineRates
    BY <1>1 DEF Settings
  <1>3. CASE c.op = "set_address"
    <2>1. CarriedOut(c, r) = <<c.arg, rate[r]>> /\ c.arg \in Addresses
      BY <1>3 DEF CarriedOut, Sent
    <2> QED BY <1>1, <1>2, <2>1
  <1>4. CASE c.op = "set_baud_rate"
    <2>1. CarriedOut(c, r) = <<address[r], ManualRate(ReaderBaudRate[c.arg])>> /\ c.arg \in Rates
      BY <1>4 DEF CarriedOut, Sent
    <2>2. ManualRate(ReaderBaudRate[c.arg]) \in LineRates
      BY <2>1, RatesAgree, RatesAssumption DEF LineRates
    <2> QED BY <1>1, <1>2, <2>1, <2>2
  <1>5. CASE c.op \notin {"set_address", "set_baud_rate"}
    <2>1. CarriedOut(c, r) = Settings(r)
      BY <1>5 DEF CarriedOut
    <2> QED BY <1>2, <2>1
  <1> QED BY <1>3, <1>4, <1>5

LEMMA AnswerType ==
    ASSUME InvType, NEW r \in Readers, NEW c \in Sent, NEW answer \in Answers(c, r)
    PROVE  answer \in Received /\ answer.answers = c.id /\ answer.kind \in {"frame", "garbled"}
  <1>1. /\ c.op \in AllMethods /\ c.id \in 1 .. MaxCalls /\ address[r] \in Addresses
        /\ c.id \in 0 .. MaxCalls
    BY MethodsAssumption, Bounds DEF Sent, InvType, InvReaders
  <1>2. Command(c.op) \in FrameCommands /\ "0" \in FrameCommands
    BY <1>1 DEF FrameCommands
  <1>3. CASE answer = Garbled(c.id)
    BY <1>1, <1>3 DEF Garbled, Received
  <1>4. CASE answer = Frame("0", "illegal", address[r], c.id)
    BY <1>1, <1>2, <1>4 DEF Frame, Received, Frames
  <1>5. CASE \E status \in {"ok", "failed", "short"} :
               answer = Frame(Command(c.op), status, address[r], c.id)
    BY <1>1, <1>2, <1>5 DEF Frame, Received, Frames
  <1> QED BY <1>3, <1>4, <1>5 DEF Answers

LEMMA HalvesType ==
    ASSUME NEW message \in Received
    PROVE  /\ Halves(message) \in Seq(Units) /\ Len(Halves(message)) = 2
           /\ Halves(message)[1] = [of |-> message, half |-> 1]
           /\ Halves(message)[2] = [of |-> message, half |-> 2]
  <1>1. [of |-> message, half |-> 1] \in Units /\ [of |-> message, half |-> 2] \in Units
    BY DEF Units
  <1> HIDE DEF Units
  <1> QED BY <1>1 DEF Halves

LEMMA ReaderAnswersType ==
    ASSUME InvType, NEW r \in Readers, ReaderAnswers(r)
    PROVE  InvType'
  <1> DEFINE item == Head(toReader)
  <1>1. toReader # <<>>
    BY DEF ReaderAnswers
  <1>2. item \in Items /\ item.req \in Sent /\ item.answered \in BOOLEAN
    BY <1>1, HeadItem, ItemParts
  <1>3. /\ socket' = socket /\ buffer' = buffer /\ responses' = responses /\ call' = call
        /\ outcome' = outcome /\ peerUp' = peerUp /\ calls' = calls
        /\ connections' = connections /\ pushed' = pushed
        /\ toReader' = Requeue(Answered(item, r)) /\ clean' = (clean /\ ~item.answered)
    BY DEF ReaderAnswers, client
  <1>4. PICK answer \in Answers(item.req, r) :
          toClient' = IF peerUp THEN toClient \o Halves(answer) ELSE toClient
    BY DEF ReaderAnswers
  <1>5. PICK settings \in {Settings(r), CarriedOut(item.req, r)} : ReaderBecomes(r, settings)
    BY DEF ReaderAnswers
  <1>6. settings[1] \in Addresses /\ settings[2] \in LineRates
    BY <1>2, SettingsType
  <1>7. toReader' \in Seq(Items)
    BY <1>1, <1>2, <1>3, RequeueItems, ItemParts
  <1>8. InvReaders'
    BY <1>5, <1>6, <1>7 DEF InvType, InvReaders, ReaderBecomes
  <1>9. toClient' \in Seq(Units)
    <2>1. Halves(answer) \in Seq(Units) /\ toClient \in Seq(Units)
      BY <1>2, AnswerType, HalvesType DEF InvType, InvFlow
    <2> QED BY <1>4, <2>1, ConcatProperties
  <1>10. Frames' = Frames /\ Units' = Units
    BY <1>3, SameConnection
  <1>11. InvFlow'
    BY <1>3, <1>4, <1>9, <1>10 DEF InvType, InvFlow
  <1>12. clean' \in BOOLEAN
    BY <1>3
  <1>13. InvControl'
    BY <1>3, <1>12 DEF InvType, InvControl
  <1> QED BY <1>8, <1>11, <1>13 DEF InvType

LEMMA ReaderSilentType ==
    ASSUME InvType, (\E r \in Readers : ReaderSilent(r)) \/ NobodyHears
    PROVE  InvType'
  <1>1. /\ toReader # <<>> /\ socket' = socket /\ buffer' = buffer /\ responses' = responses
        /\ call' = call /\ outcome' = outcome /\ peerUp' = peerUp /\ calls' = calls
        /\ connections' = connections /\ pushed' = pushed /\ clean' = clean
        /\ toClient' = toClient
    BY DEF ReaderSilent, NobodyHears, client
  <1>2. Head(toReader) \in Items /\ Head(toReader).req \in Sent
        /\ Tail(toReader) \in Seq(Items)
    BY <1>1, HeadItem, ItemParts DEF Items
  <1>3. InvReaders'
    <2>1. ASSUME NEW r \in Readers, ReaderSilent(r) PROVE InvReaders'
      <3>1. PICK settings \in {Settings(r), CarriedOut(Head(toReader).req, r)} :
              ReaderBecomes(r, settings)
        BY <2>1 DEF ReaderSilent
      <3>2. settings[1] \in Addresses /\ settings[2] \in LineRates
        BY <1>2, SettingsType
      <3>3. toReader' \in Seq(Items)
        BY <1>1, <1>2, <2>1, RequeueItems, ItemParts DEF ReaderSilent
      <3> QED BY <3>1, <3>2, <3>3 DEF InvType, InvReaders, ReaderBecomes
    <2>2. CASE NobodyHears
      BY <1>2, <2>2 DEF NobodyHears, reader, InvType, InvReaders
    <2> QED BY <2>1, <2>2
  <1>4. Frames' = Frames /\ Units' = Units
    BY <1>1, SameConnection
  <1>5. InvFlow'
    BY <1>1, <1>2, <1>4 DEF InvType, InvFlow
  <1>6. InvControl'
    BY <1>1 DEF InvType, InvControl
  <1> QED BY <1>3, <1>5, <1>6 DEF InvType

LEMMA PushType == InvType /\ Push => InvType'
  <1> SUFFICES ASSUME InvType, Push PROVE InvType'
    OBVIOUS
  <1>1. /\ peerUp /\ pushed < MaxUnsolicited /\ pushed' = pushed + 1 /\ clean' = FALSE
        /\ socket' = socket /\ buffer' = buffer /\ responses' = responses
        /\ call' = call /\ outcome' = outcome /\ peerUp' = peerUp /\ calls' = calls
        /\ connections' = connections /\ toReader' = toReader
        /\ address' = address /\ rate' = rate /\ lineRate' = lineRate
    BY DEF Push, client, reader
  <1>2a. PICK r \in Readers :
          \E message \in {Heartbeat, Frame("TAG_REPORT", "ok", address[r], 0)} :
            toClient' = toClient \o Halves(message)
    BY DEF Push
  <1>2. PICK message \in {Heartbeat, Frame("TAG_REPORT", "ok", address[r], 0)} :
          toClient' = toClient \o Halves(message)
    BY <1>2a
  <1>3. message \in Received
    <2>1. 0 \in 0 .. MaxCalls /\ address[r] \in Addresses
      BY Bounds DEF InvType, InvReaders
    <2>2. Heartbeat \in Received
      BY <2>1 DEF Heartbeat, Received
    <2>3. Frame("TAG_REPORT", "ok", address[r], 0) \in Received
      BY <2>1 DEF Frame, Received, Frames, FrameCommands
    <2> QED BY <2>2, <2>3
  <1>4. toClient' \in Seq(Units)
    BY <1>2, <1>3, HalvesType, ConcatProperties DEF InvType, InvFlow
  <1>5. Frames' = Frames /\ Units' = Units
    BY <1>1, SameConnection
  <1>6. InvFlow'
    BY <1>1, <1>4, <1>5 DEF InvType, InvFlow
  <1>7. pushed' \in 0 .. MaxUnsolicited
    BY <1>1, Bounds DEF InvType, InvControl
  <1>8. InvControl'
    BY <1>1, <1>7 DEF InvType, InvControl
  <1>9. InvReaders'
    BY <1>1 DEF InvType, InvReaders
  <1> QED BY <1>6, <1>8, <1>9 DEF InvType

LEMMA PeerGoesType ==
    ASSUME InvType, PeerCloses \/ ModuleRestarts
    PROVE  InvType'
  <1>1. /\ peerUp' = FALSE /\ SomeCommandsLost /\ clean' = clean /\ pushed' = pushed
        /\ socket' = socket /\ buffer' = buffer /\ responses' = responses
        /\ call' = call /\ outcome' = outcome /\ calls' = calls
        /\ connections' = connections /\ address' = address /\ rate' = rate
        /\ PeerGoes
    BY DEF PeerCloses, ModuleRestarts, PeerGoes, client, reader
  <1>2. PICK n \in 0 .. Len(toClient) : toClient' = SubSeq(toClient, 1, n)
    BY <1>1 DEF PeerGoes
  <1>3. toClient \in Seq(Units) /\ Len(toClient) \in Nat
    BY LenProperties DEF InvType, InvFlow
  <1>4. toClient' \in Seq(Units)
    BY <1>2, <1>3, TailOf
  <1>5. socket # "closed"
    BY <1>1 DEF PeerGoes, InvType, InvFlow
  <1>6. Frames' = Frames /\ Units' = Units
    BY <1>1, SameConnection
  <1>7. InvFlow'
    BY <1>1, <1>4, <1>5, <1>6 DEF InvType, InvFlow
  <1>8. InvControl'
    BY <1>1 DEF InvType, InvControl
  <1>9. lineRate' \in LineRates
    BY DEF PeerCloses, ModuleRestarts, reader, InvType, InvReaders, LineRates
  <1>10. InvReaders'
    BY <1>1, <1>9, LostCommands DEF InvType, InvReaders
  <1> QED BY <1>7, <1>8, <1>10 DEF InvType

LEMMA StutterType == InvType /\ UNCHANGED vars => InvType'
  <1> SUFFICES ASSUME InvType, UNCHANGED vars PROVE InvType'
    OBVIOUS
  <1>1. UNCHANGED <<socket, buffer, responses, call, outcome, peerUp, toReader, toClient,
                    address, rate, lineRate, calls, connections, pushed, clean>>
    BY DEF vars, client, peer, reader
  <1>2. Frames' = Frames /\ Units' = Units
    BY <1>1, SameConnection
  <1>3. InvControl' /\ InvReaders'
    BY <1>1 DEF InvType, InvControl, InvReaders
  <1>4. InvFlow'
    BY <1>1, <1>2 DEF InvType, InvFlow
  <1> QED BY <1>3, <1>4 DEF InvType

LEMMA NextType == InvType /\ [Next]_vars => InvType'
  BY ConnectType, CloseType, CallType, ReceiveType, FailingCallType, TakeResponseType,
     ReaderAnswersType, ReaderSilentType, PushType, PeerGoesType, StutterType
     DEF Next, StartCall, CallStep, ReaderStep

LEMMA Types == Spec => []InvType
  BY InitType, NextType, PTL DEF Spec

LEMMA TypeImplies == InvType => TypeOK
  <1> SUFFICES ASSUME InvType PROVE TypeOK
    OBVIOUS
  <1>1. call = NoCall \/ (call.op \in Methods /\ call.id \in 1 .. MaxCalls)
    BY DEF InvType, InvControl, Sent
  <1>2. ASSUME NEW unit \in InSeq(toClient) \cup InSeq(buffer) PROVE unit.half \in {1, 2}
    <2>1. unit \in Units
      BY ElementOfSeq DEF InvType, InvFlow, InSeq
    <2> QED BY <2>1 DEF Units
  <1>3. ASSUME NEW frame \in InSeq(responses) PROVE frame.kind = "frame"
    <2>1. frame \in Frames
      BY ElementOfSeq DEF InvType, InvFlow, InSeq
    <2> QED BY <2>1 DEF Frames
  <1>4. ASSUME NEW item \in InSeq(toReader) PROVE item.todo \subseteq Readers
    <2>1. item \in Items
      BY ElementOfSeq DEF InvType, InvReaders, InSeq
    <2> QED BY <2>1 DEF Items
  <1>5. /\ address \in [Readers -> Addresses]
        /\ {lineRate} \cup {rate[r] : r \in Readers} \subseteq {bps[b] : b \in Rates}
    BY DEF InvType, InvReaders, LineRates
  <1>6. /\ socket \in {"closed", "open"} /\ peerUp \in BOOLEAN /\ clean \in BOOLEAN
        /\ outcome = NoOutcome \/ outcome.kind \in {"returned", "TimeoutError", "ValueError",
                                                      "ConnectionError", "RuntimeError"}
        /\ calls \in 0 .. MaxCalls /\ connections \in 0 .. MaxConnections
        /\ pushed \in 0 .. MaxUnsolicited
    BY DEF InvType, InvControl, Outcomes
  <1> QED BY <1>1, <1>2, <1>3, <1>4, <1>5, <1>6 DEF TypeOK

\* What connect(), close(), the methods and their answers leave has its type.
THEOREM ClientTypes == Spec => []TypeOK
  BY Types, TypeImplies, PTL

\* close() leaves nothing behind: the client holds only what its present
\* connection has brought.
THEOREM ConnectionsAreSeparate == Spec => []NothingOutlivesConnection
  <1>1. InvType => NothingOutlivesConnection
    <2> SUFFICES ASSUME InvType PROVE NothingOutlivesConnection
      OBVIOUS
    <2>1. ASSUME NEW m \in Messages(buffer) PROVE m.connection = connections
      <3>1. PICK i \in 1 .. Len(buffer) : m = buffer[i].of
        BY DEF Messages
      <3>2. buffer[i] \in Units
        BY ElementOfSeq DEF InvType, InvFlow
      <3>3. m \in Received
        BY <3>1, <3>2 DEF Units
      <3> QED BY <3>3 DEF Received, Frames
    <2>2. ASSUME NEW m \in InSeq(responses) PROVE m.connection = connections
      <3>1. m \in Frames
        BY ElementOfSeq DEF InvType, InvFlow, InSeq
      <3> QED BY <3>1 DEF Frames
    <2>3. socket = "closed" => buffer = <<>> /\ responses = <<>>
      BY DEF InvType, InvFlow
    <2> QED BY <2>1, <2>2, <2>3 DEF NothingOutlivesConnection
  <1> QED BY <1>1, Types, PTL

\* _responses and the stream hold no more than one recv() can bring.
THEOREM LittleIsHeld == Spec => []OneChunkHeld
  <1>1. InvType => OneChunkHeld
    BY DEF InvType, InvFlow, OneChunkHeld
  <1> QED BY <1>1, Types, PTL

-----------------------------------------------------------------------------
(* The protocol.                                                           *)

NothingHere == buffer = <<>> /\ toClient = <<>> /\ responses = <<>>

AllAnswered == \A i \in 1 .. Len(toReader) : toReader[i].answered

\* Only the command of the call under way can be without an answer, and it is
\* the last.
OthersAnswered ==
    \A i \in 1 .. Len(toReader) :
      toReader[i].answered \/ (i = Len(toReader) /\ toReader[i].req = call)

\* Where the answer of a call can be, and how far its halves have come; the
\* second is lost if the peer goes.
Here(answer) ==
    LET first  == <<Halves(answer)[1]>>
        second == <<Halves(answer)[2]>>
    IN  \/ responses = <<answer>> /\ buffer = <<>> /\ toClient = <<>>
        \/ /\ responses = <<>>
           /\ \/ buffer = <<>>  /\ toClient \in {Halves(answer), first}
              \/ buffer = first /\ toClient \in {second, <<>>}

\* Some reader is as a call was to make it or found it, and no command that is
\* still on its way to it can change that.
Effective(op, arg, adr) ==
    \E r \in Readers :
      /\ op = "set_address" => address[r] = arg
      /\ op = "discover_address" => address[r] = adr
      /\ op = "set_baud_rate" => rate[r] = bps[arg]
      /\ \A i \in 1 .. Len(toReader) : r \notin toReader[i].todo

InvAnswer ==
    clean =>
      \/ call = NoCall /\ NothingHere /\ AllAnswered
      \/ call # NoCall /\ NothingHere /\ OthersAnswered
      \/ /\ call # NoCall /\ AllAnswered
         /\ \E answer \in Received :
              /\ answer.answers = call.id /\ Here(answer)
              /\ answer.kind = "frame" /\ answer.status = "ok" =>
                   Effective(call.op, call.arg, answer.reader)

InvEffect ==
    call = NoCall /\ outcome.kind = "returned" /\ outcome.undisturbed /\ outcome.id = calls =>
      Effective(outcome.op, outcome.arg, outcome.frame.reader)

InvProtocol == InvAnswer /\ InvEffect /\ AnswerIsOwn

LEMMA InitProtocol == Init => InvProtocol
  <1> SUFFICES ASSUME Init PROVE InvProtocol
    OBVIOUS
  <1>1. call = NoCall /\ NothingHere /\ toReader = <<>> /\ outcome = NoOutcome
    BY DEF Init, NothingHere
  <1>2. AllAnswered
    BY <1>1, Empty DEF AllAnswered
  <1> QED BY <1>1, <1>2 DEF InvProtocol, InvAnswer, InvEffect, AnswerIsOwn, NoOutcome

\* A step that changes nothing about the readers that no command is on its way to,
\* and sends none their way.
LeavesAlone ==
    \A r \in Readers :
      (\A i \in 1 .. Len(toReader) : r \notin toReader[i].todo) =>
        /\ address'[r] = address[r] /\ rate'[r] = rate[r]
        /\ \A i \in 1 .. Len(toReader') : r \notin toReader'[i].todo

LEMMA SameQueue ==
    ASSUME address' = address, rate' = rate,
           \/ toReader' = toReader
           \/ InvType /\ SomeCommandsLost
    PROVE  LeavesAlone
  <1>1. \A i \in 1 .. Len(toReader') : i \in 1 .. Len(toReader) /\ toReader'[i] = toReader[i]
    BY LostCommands
  <1> QED BY <1>1 DEF LeavesAlone

LEMMA OutcomeEffect ==
    ASSUME InvEffect, outcome' = outcome, call' = call, calls' = calls, LeavesAlone
    PROVE  InvEffect'
  <1> SUFFICES ASSUME call = NoCall, outcome.kind = "returned", outcome.undisturbed,
                      outcome.id = calls
               PROVE  Effective(outcome.op, outcome.arg, outcome.frame.reader)'
    BY DEF InvEffect
  <1>1. PICK r \in Readers :
          /\ outcome.op = "set_address" => address[r] = outcome.arg
          /\ outcome.op = "discover_address" => address[r] = outcome.frame.reader
          /\ outcome.op = "set_baud_rate" => rate[r] = bps[outcome.arg]
          /\ \A i \in 1 .. Len(toReader) : r \notin toReader[i].todo
    BY DEF InvEffect, Effective
  <1>2. /\ address'[r] = address[r] /\ rate'[r] = rate[r]
        /\ \A i \in 1 .. Len(toReader') : r \notin toReader'[i].todo
    BY <1>1 DEF LeavesAlone
  <1> QED BY <1>1, <1>2 DEF Effective

LEMMA CallEffect ==
    ASSUME NEW adr, Effective(call.op, call.arg, adr), call' = call, LeavesAlone
    PROVE  Effective(call.op, call.arg, adr)'
  <1>1. PICK r \in Readers :
          /\ call.op = "set_address" => address[r] = call.arg
          /\ call.op = "discover_address" => address[r] = adr
          /\ call.op = "set_baud_rate" => rate[r] = bps[call.arg]
          /\ \A i \in 1 .. Len(toReader) : r \notin toReader[i].todo
    BY DEF Effective
  <1>2. /\ address'[r] = address[r] /\ rate'[r] = rate[r]
        /\ \A i \in 1 .. Len(toReader') : r \notin toReader'[i].todo
    BY <1>1 DEF LeavesAlone
  <1> QED BY <1>1, <1>2 DEF Effective

\* InvEffect asks for nothing once the latest call has raised or another is
\* under way.
LEMMA NothingReturned ==
    ASSUME outcome'.kind # "returned"
    PROVE  InvEffect' /\ AnswerIsOwn'
  BY DEF InvEffect, AnswerIsOwn

LEMMA OutcomeOwn ==
    ASSUME AnswerIsOwn, outcome' = outcome
    PROVE  AnswerIsOwn'
  BY DEF AnswerIsOwn

LEMMA ConnectProtocol == InvType /\ InvProtocol /\ Connect => InvProtocol'
  <1> SUFFICES ASSUME InvType, InvProtocol, Connect PROVE InvProtocol'
    OBVIOUS
  <1>1. /\ call' = call /\ call = NoCall /\ outcome' = outcome /\ calls' = calls
        /\ toReader' = toReader /\ address' = address /\ rate' = rate
        /\ toClient' = toClient /\ buffer' = buffer /\ responses' = responses
        /\ socket = "closed" /\ clean' = (toReader = <<>>)
    BY DEF Connect, reader
  <1>2. NothingHere
    BY <1>1 DEF InvType, InvFlow, NothingHere
  <1>3. ASSUME clean' PROVE call' = NoCall /\ NothingHere' /\ AllAnswered'
    <2>1. call' = NoCall /\ NothingHere'
      BY <1>1, <1>2 DEF NothingHere
    <2>2. toReader' = <<>>
      BY <1>1, <1>3
    <2> QED BY <2>1, <2>2, Empty DEF AllAnswered
  <1>4. InvAnswer'
    BY <1>3 DEF InvAnswer
  <1>5. InvEffect' /\ AnswerIsOwn'
    BY <1>1, SameQueue, OutcomeEffect, OutcomeOwn DEF InvProtocol
  <1> QED BY <1>4, <1>5 DEF InvProtocol

LEMMA CloseProtocol == InvType /\ InvProtocol /\ Close => InvProtocol'
  <1> SUFFICES ASSUME InvType, InvProtocol, Close PROVE InvProtocol'
    OBVIOUS
  <1>1. /\ call' = call /\ call = NoCall /\ outcome' = outcome /\ calls' = calls
        /\ SomeCommandsLost /\ address' = address /\ rate' = rate /\ clean' = clean
        /\ toClient' = <<>> /\ buffer' = <<>> /\ responses' = <<>>
    BY DEF Close, reader, StreamWhenClosed, ResponsesWhenClosed
  <1>2. clean' => call' = NoCall /\ NothingHere' /\ AllAnswered'
    <2>1. clean => AllAnswered
      BY <1>1 DEF InvProtocol, InvAnswer
    <2>2. AllAnswered => AllAnswered'
      BY <1>1, LostCommands DEF AllAnswered
    <2> QED BY <1>1, <2>1, <2>2 DEF NothingHere
  <1>3. InvAnswer'
    BY <1>2 DEF InvAnswer
  <1>4. InvEffect' /\ AnswerIsOwn'
    BY <1>1, SameQueue, OutcomeEffect, OutcomeOwn DEF InvProtocol
  <1> QED BY <1>3, <1>4 DEF InvProtocol

LEMMA CallProtocol ==
    ASSUME InvType, InvProtocol, NEW req \in Requests,
           CallUnconnected(req) \/ Send(req) \/ SendFails(req)
    PROVE  InvProtocol'
  <1>1. CASE CallUnconnected(req)
    <2>1. /\ UNCHANGED <<toReader, toClient, buffer, responses, call, clean>> /\ call = NoCall
      BY <1>1 DEF CallUnconnected, peer
    <2>2. clean => NothingHere /\ AllAnswered
      BY <2>1 DEF InvProtocol, InvAnswer
    <2>3. clean' => call' = NoCall /\ NothingHere' /\ AllAnswered'
      BY <2>1, <2>2 DEF NothingHere, AllAnswered
    <2>4. outcome'.kind # "returned"
      BY <1>1, RaisedKind DEF CallUnconnected
    <2> QED BY <2>3, <2>4, NothingReturned DEF InvProtocol, InvAnswer
  <1>2. CASE SendFails(req)
    <2>1. clean' = FALSE
      BY <1>2 DEF SendFails
    <2>2. outcome'.kind # "returned"
      BY <1>2, RaisedKind DEF SendFails
    <2> QED BY <2>1, <2>2, NothingReturned DEF InvProtocol, InvAnswer
  <1>3. CASE Send(req)
    <2> DEFINE item == [req |-> WithId(req), todo |-> Hearers(req.adr), answered |-> FALSE]
    <2>1. /\ UNCHANGED <<toClient, buffer, responses, clean>> /\ call = NoCall
          /\ call' = WithId(req) /\ toReader' \in {toReader, Append(toReader, item)}
          /\ outcome' = NoOutcome /\ calls < MaxCalls
      BY <1>3 DEF Send
    <2>2. outcome'.kind # "returned"
      BY <2>1 DEF NoOutcome
    <2>3. call' # NoCall /\ WithId(req) \in Sent
      BY <2>1, RequestIsSent DEF InvType, InvControl
    <2>4. ASSUME clean PROVE NothingHere' /\ OthersAnswered'
      <3>1. NothingHere /\ AllAnswered
        BY <2>1, <2>4 DEF InvProtocol, InvAnswer
      <3>2. NothingHere'
        BY <2>1, <3>1 DEF NothingHere
      <3>3. CASE toReader' = toReader
        BY <3>1, <3>2, <3>3 DEF AllAnswered, OthersAnswered
      <3>4. CASE toReader' = Append(toReader, item)
        <4>1. toReader \in Seq(Items) /\ item \in Items
          BY <2>3 DEF InvType, InvReaders, Items, Hearers
        <4>2. /\ Len(toReader') = Len(toReader) + 1 /\ Len(toReader) \in Nat
              /\ \A i \in 1 .. Len(toReader) : toReader'[i] = toReader[i]
              /\ toReader'[Len(toReader) + 1] = item
          BY <3>4, <4>1, AppendProperties, LenProperties
        <4>3. item.req = call'
          BY <2>1
        <4> HIDE DEF item
        <4> QED BY <3>1, <3>2, <4>2, <4>3 DEF AllAnswered, OthersAnswered
      <3> QED BY <2>1, <3>2, <3>3, <3>4
    <2>5. clean' = clean
      BY <2>1
    <2> QED BY <2>2, <2>3, <2>4, <2>5, NothingReturned DEF InvProtocol, InvAnswer
  <1> QED BY <1>1, <1>2, <1>3

LEMMA FailProtocol ==
    ASSUME NEW exception \in {"TimeoutError", "ConnectionError"}, Fail(exception)
    PROVE  InvProtocol'
  BY FailType, NothingReturned DEF InvProtocol, InvAnswer

LEMMA TakeResponseProtocol == InvType /\ InvProtocol /\ TakeResponse => InvProtocol'
  <1> SUFFICES ASSUME InvType, InvProtocol, TakeResponse PROVE InvProtocol'
    OBVIOUS
  <1> DEFINE frame == Head(responses)
  <1>1. /\ UNCHANGED <<toClient, buffer, toReader, address, rate, calls>>
        /\ call # NoCall /\ responses # <<>> /\ responses' = Tail(responses)
    BY DEF TakeResponse, peer, reader, Popped
  <1>2. \/ Fail("ConnectionError")
        \/ /\ call' = NoCall /\ clean' = clean
           /\ IF IsOk(frame)
                THEN outcome' = Returned(call, frame)
                ELSE outcome' \in {Raised(call, "ValueError"), Raised(call, "RuntimeError")}
    BY DEF TakeResponse
  <1>3. CASE /\ call' = NoCall /\ clean' = clean
             /\ IF IsOk(frame)
                  THEN outcome' = Returned(call, frame)
                  ELSE outcome' \in {Raised(call, "ValueError"), Raised(call, "RuntimeError")}
    <2>1. ASSUME clean
          PROVE  /\ NothingHere' /\ AllAnswered' /\ frame.answers = call.id
                 /\ frame.kind = "frame"
                 /\ frame.status = "ok" => Effective(call.op, call.arg, frame.reader)
      <3>1. PICK answer \in Received :
              /\ AllAnswered /\ answer.answers = call.id /\ Here(answer)
              /\ answer.kind = "frame" /\ answer.status = "ok" =>
                   Effective(call.op, call.arg, answer.reader)
        BY <1>1, <2>1 DEF InvProtocol, InvAnswer, NothingHere
      <3>2. responses = <<answer>> /\ buffer = <<>> /\ toClient = <<>>
        BY <1>1, <3>1 DEF Here
      <3>3. frame = answer /\ responses' = <<>>
        BY <1>1, <3>2
      <3>4. frame.kind = "frame"
        <4>1. frame \in Frames
          BY <1>1, HeadTailProperties DEF InvType, InvFlow
        <4> QED BY <4>1 DEF Frames
      <3>5. NothingHere' /\ AllAnswered'
        BY <1>1, <3>1, <3>2, <3>3 DEF NothingHere, AllAnswered
      <3> QED BY <3>1, <3>3, <3>4, <3>5
    <2>2. InvAnswer'
      BY <1>3, <2>1 DEF InvAnswer
    <2>3. CASE ~IsOk(frame)
      <3>1. outcome'.kind # "returned"
        BY <1>3, <2>3, RaisedKind
      <3> QED BY <2>2, <3>1, NothingReturned DEF InvProtocol
    <2>4. CASE IsOk(frame)
      <3>1. /\ outcome'.id = call.id /\ outcome'.op = call.op /\ outcome'.arg = call.arg
            /\ outcome'.frame = frame /\ outcome'.undisturbed = clean
        BY <1>3, <2>4 DEF Returned
      <3>2. AnswerIsOwn'
        BY <2>1, <3>1 DEF AnswerIsOwn
      <3>3. ASSUME clean
            PROVE  Effective(outcome.op, outcome.arg, outcome.frame.reader)'
        <4>1. Effective(call.op, call.arg, frame.reader)
          BY <2>1, <2>4, <3>3 DEF IsOk
        <4> HIDE DEF frame
        <4> QED BY <1>1, <3>1, <4>1 DEF Effective
      <3>4. InvEffect'
        BY <3>1, <3>3 DEF InvEffect
      <3> QED BY <2>2, <3>2, <3>4 DEF InvProtocol
    <2> QED BY <2>3, <2>4
  <1> QED BY <1>2, <1>3, FailProtocol

\* The ways in which recv() can cut two units, and what feed() makes of them.
LEMMA Cuts ==
    ASSUME NEW u \in Units, NEW v \in Units
    PROVE  /\ <<>> \o SubSeq(<<u, v>>, 1, 1) = <<u>> /\ SubSeq(<<u, v>>, 2, 2) = <<v>>
           /\ <<>> \o SubSeq(<<u, v>>, 1, 2) = <<u, v>> /\ SubSeq(<<u, v>>, 3, 2) = <<>>
           /\ <<>> \o SubSeq(<<u>>, 1, 1) = <<u>> /\ SubSeq(<<u>>, 2, 1) = <<>>
           /\ <<v>> \o SubSeq(<<u>>, 1, 1) = <<v, u>>
           /\ Remainder(<<u>>) = <<u>> /\ Remainder(<<u, v>>) = <<>>
           /\ WholeMessages(<<u>>) = <<>> /\ WholeMessages(<<u, v>>) = <<u.of>>
  <1>1. Len(<<u>>) = 1 /\ Len(<<u, v>>) = 2 /\ 1 \div 2 = 0 /\ 2 \div 2 = 1
    OBVIOUS
  <1>2. Remainder(<<u>>) = SubSeq(<<u>>, 1, 1) /\ Remainder(<<u, v>>) = SubSeq(<<u, v>>, 3, 2)
    BY <1>1 DEF Remainder
  <1>3. /\ WholeMessages(<<u>>) = [i \in 1 .. 0 |-> <<u>>[2 * i - 1].of]
        /\ WholeMessages(<<u, v>>) = [i \in 1 .. 1 |-> <<u, v>>[2 * i - 1].of]
    BY <1>1 DEF WholeMessages
  <1>4. [i \in 1 .. 0 |-> <<u>>[2 * i - 1].of] = <<>>
    <2> DEFINE w == [i \in 1 .. 0 |-> <<u>>[2 * i - 1].of]
    <2>1. w \in [1 .. 0 -> Received]
      OBVIOUS
    <2> HIDE DEF w
    <2>2. w \in Seq(Received) /\ Len(w) = 0
      BY <2>1, SeqDef
    <2>3. w = <<>>
      BY <2>2, Empty
    <2> QED BY <2>3 DEF w
  <1>5. [i \in 1 .. 1 |-> <<u, v>>[2 * i - 1].of] = <<u.of>>
    <2> DEFINE w == [i \in 1 .. 1 |-> <<u, v>>[2 * i - 1].of]
    <2>1. u.of \in Received /\ 2 * 1 - 1 = 1 /\ <<u, v>>[1] = u
      BY DEF Units
    <2>2. w[1] = u.of
      BY <2>1
    <2>2a. w \in [1 .. 1 -> Received]
      <3>1. \A i \in 1 .. 1 : <<u, v>>[2 * i - 1].of = u.of
        BY <2>1
      <3> QED BY <2>1, <3>1
    <2> HIDE DEF w
    <2>3. w \in Seq(Received) /\ Len(w) = 1
      <3>1. w \in Seq(Received)
        BY <2>2a, SeqDef, 1 \in Nat
      <3>2. DOMAIN w = 1 .. 1 /\ DOMAIN w = 1 .. Len(w) /\ Len(w) \in Nat
        BY <2>2a, <3>1, LenProperties
      <3> QED BY <3>1, <3>2
    <2>4. <<u.of>> \in Seq(Received) /\ Len(<<u.of>>) = 1 /\ <<u.of>>[1] = u.of
      BY <2>1
    <2>5. w = <<u.of>>
      BY <2>2, <2>3, <2>4, SeqEqual
    <2> QED BY <2>5 DEF w
  <1>6. /\ <<>> \in Seq(Units) /\ <<u>> \in Seq(Units) /\ <<v>> \in Seq(Units)
        /\ <<u, v>> \in Seq(Units) /\ <<v, u>> \in Seq(Units)
        /\ <<u>>[1] = u /\ <<v>>[1] = v /\ <<u, v>>[1] = u /\ <<u, v>>[2] = v
        /\ Len(<<u>>) = 1 /\ Len(<<v>>) = 1 /\ Len(<<u, v>>) = 2 /\ Len(<<v, u>>) = 2
        /\ <<v, u>>[1] = v /\ <<v, u>>[2] = u
    OBVIOUS
  <1>7. SubSeq(<<u, v>>, 1, 1) = <<u>>
    <2>1. \A i \in 1 .. 1 - 0 : <<u>>[i] = <<u, v>>[0 + i]
      BY <1>6
    <2>2. SubSeq(<<u, v>>, 0 + 1, 1) = <<u>>
      BY <1>6, <2>1, PartIs, 0 \in Nat, 1 \in Nat, 0 <= 1, 1 <= 2, 1 - 0 = 1
    <2> QED BY <2>2, 0 + 1 = 1
  <1>8. SubSeq(<<u, v>>, 2, 2) = <<v>>
    <2>1. \A i \in 1 .. 2 - 1 : <<v>>[i] = <<u, v>>[1 + i]
      BY <1>6
    <2>2. Len(<<v>>) = 2 - 1 /\ 2 <= Len(<<u, v>>) /\ 1 <= 2
      BY <1>6
    <2>3. SubSeq(<<u, v>>, 1 + 1, 2) = <<v>>
      <3> HIDE DEF Units
      <3> QED BY <1>6, <2>1, <2>2, PartIs, 1 \in Nat, 2 \in Nat
    <2> QED BY <2>3, 1 + 1 = 2
  <1>9. SubSeq(<<u, v>>, 1, 2) = <<u, v>> /\ SubSeq(<<u>>, 1, 1) = <<u>>
    BY <1>6, SubSeqFull
  <1>10. SubSeq(<<u, v>>, 3, 2) = <<>> /\ SubSeq(<<u>>, 2, 1) = <<>>
    BY SubSeqEmpty
  <1>11. <<>> \o <<u>> = <<u>> /\ <<>> \o <<u, v>> = <<u, v>>
    BY <1>6, ConcatEmptySeq
  <1>12. <<v>> \o <<u>> = <<v, u>>
    <2>1. /\ <<v>> \o <<u>> \in Seq(Units) /\ Len(<<v>> \o <<u>>) = 2
          /\ (<<v>> \o <<u>>)[1] = v /\ (<<v>> \o <<u>>)[2] = u
      BY <1>6, ConcatProperties
    <2>2. \A i \in 1 .. Len(<<v, u>>) : (<<v>> \o <<u>>)[i] = <<v, u>>[i]
      BY <1>6, <2>1
    <2> HIDE DEF Units
    <2> QED BY <1>6, <2>1, <2>2, SeqEqual
  <1> QED BY <1>2, <1>3, <1>4, <1>5, <1>7, <1>8, <1>9, <1>10, <1>11, <1>12

LEMMA ReceiveProtocol ==
    ASSUME InvType, InvProtocol, NEW n \in 1 .. MaxChunk, Receive(n)
    PROVE  InvProtocol'
  <1> DEFINE units == buffer \o SubSeq(toClient, 1, n)
  <1>1. /\ n \in Nat \ {0} /\ n <= Len(toClient) /\ call # NoCall
        /\ toClient' = SubSeq(toClient, n + 1, Len(toClient)) /\ buffer' = Remainder(units)
        /\ UNCHANGED <<toReader, address, rate, calls>> /\ connections' = connections
        /\ responses = <<>>
    BY Bounds DEF Receive, reader, Waiting
  <1>2. \/ Fail("ConnectionError")
        \/ /\ responses' = responses \o WholeMessages(units)
           /\ UNCHANGED <<call, outcome, clean>>
    BY DEF Receive
  <1>3. CASE /\ responses' = responses \o WholeMessages(units)
             /\ UNCHANGED <<call, outcome, clean>>
    <2>1. ASSUME clean
          PROVE  /\ AllAnswered'
                 /\ \E answer \in Received' :
                      /\ answer.answers = call'.id /\ Here(answer)'
                      /\ answer.kind = "frame" /\ answer.status = "ok" =>
                           Effective(call.op, call.arg, answer.reader)'
      <3>1. toClient # <<>>
        BY <1>1, Empty
      <3>2. PICK answer \in Received :
              /\ AllAnswered /\ answer.answers = call.id /\ Here(answer)
              /\ answer.kind = "frame" /\ answer.status = "ok" =>
                   Effective(call.op, call.arg, answer.reader)
        BY <1>1, <2>1, <3>1 DEF InvProtocol, InvAnswer, NothingHere
      <3> DEFINE u == [of |-> answer, half |-> 1]
                 v == [of |-> answer, half |-> 2]
      <3>3. Halves(answer) = <<u, v>> /\ Halves(answer)[1] = u /\ Halves(answer)[2] = v
        BY DEF Halves
      <3>4. u \in Units /\ v \in Units /\ u.of = answer
        BY DEF Units
      <3>5. Len(<<u>>) = 1 /\ Len(<<v>>) = 1 /\ Len(<<u, v>>) = 2
        OBVIOUS
      <3> HIDE DEF u, v
      <3>6. \/ buffer = <<>> /\ toClient \in {<<u, v>>, <<u>>}
            \/ buffer = <<u>> /\ toClient = <<v>>
        BY <3>1, <3>2, <3>3 DEF Here
      <3>7. <<>> \o <<>> = <<>> /\ <<>> \o <<answer>> = <<answer>>
        <4>1. <<>> \in Seq(Received) /\ <<answer>> \in Seq(Received)
          BY Empty
        <4> QED BY <4>1, ConcatEmptySeq
      <3>8. /\ <<>> \o SubSeq(<<u, v>>, 1, 1) = <<u>> /\ SubSeq(<<u, v>>, 2, 2) = <<v>>
             /\ <<>> \o SubSeq(<<u, v>>, 1, 2) = <<u, v>> /\ SubSeq(<<u, v>>, 3, 2) = <<>>
             /\ <<>> \o SubSeq(<<u>>, 1, 1) = <<u>> /\ SubSeq(<<u>>, 2, 1) = <<>>
             /\ <<u>> \o SubSeq(<<v>>, 1, 1) = <<u, v>> /\ SubSeq(<<v>>, 2, 1) = <<>>
             /\ Remainder(<<u>>) = <<u>> /\ Remainder(<<u, v>>) = <<>>
             /\ WholeMessages(<<u>>) = <<>> /\ WholeMessages(<<u, v>>) = <<answer>>
        BY <3>4, Cuts
      <3>9. Here(answer)'
        <4>1. CASE buffer = <<>> /\ toClient = <<u, v>>
          <5>1. n = 1 \/ n = 2
            BY <1>1, <3>5, <4>1
          <5>2. CASE n = 1
            <6>1. buffer' = <<u>> /\ toClient' = <<v>> /\ responses' = <<>>
              <7>1. units = <<u>> /\ n + 1 = 2 /\ Len(toClient) = 2
                BY <3>5, <3>8, <4>1, <5>2
              <7> HIDE DEF units
              <7> QED BY <1>1, <1>3, <3>7, <3>8, <4>1, <7>1
            <6> QED BY <3>3, <6>1 DEF Here, Halves
          <5>3. CASE n = 2
            <6>1. buffer' = <<>> /\ toClient' = <<>> /\ responses' = <<answer>>
              <7>1. units = <<u, v>> /\ n + 1 = 3 /\ Len(toClient) = 2
                BY <3>5, <3>8, <4>1, <5>3
              <7> HIDE DEF units
              <7> QED BY <1>1, <1>3, <3>7, <3>8, <4>1, <7>1
            <6> QED BY <6>1 DEF Here
          <5> QED BY <5>1, <5>2, <5>3
        <4>2. CASE buffer = <<>> /\ toClient = <<u>>
          <5>1. n = 1
            BY <1>1, <3>5, <4>2
          <5>2. buffer' = <<u>> /\ toClient' = <<>> /\ responses' = <<>>
            <6>1. units = <<u>> /\ n + 1 = 2 /\ Len(toClient) = 1
              BY <3>5, <3>8, <4>2, <5>1
            <6> HIDE DEF units
            <6> QED BY <1>1, <1>3, <3>7, <3>8, <4>2, <6>1
          <5> QED BY <3>3, <5>2 DEF Here, Halves
        <4>3. CASE buffer = <<u>> /\ toClient = <<v>>
          <5>1. n = 1
            BY <1>1, <3>5, <4>3
          <5>2. buffer' = <<>> /\ toClient' = <<>> /\ responses' = <<answer>>
            <6>1. units = <<u, v>> /\ n + 1 = 2 /\ Len(toClient) = 1
              BY <3>5, <3>8, <4>3, <5>1
            <6> HIDE DEF units
            <6> QED BY <1>1, <1>3, <3>7, <3>8, <4>3, <6>1
          <5> QED BY <5>2 DEF Here
        <4> QED BY <3>6, <4>1, <4>2, <4>3
      <3>10. AllAnswered'
        BY <1>1, <3>2 DEF AllAnswered
      <3>11. answer \in Received' /\ answer.answers = call'.id
        BY <1>1, <1>3, <3>2, SameConnection
      <3>12. answer.kind = "frame" /\ answer.status = "ok" =>
               Effective(call.op, call.arg, answer.reader)'
        BY <1>1, <1>3, <3>2, SameQueue, CallEffect
      <3> QED BY <3>9, <3>10, <3>11, <3>12
    <2>2. call' # NoCall
      BY <1>1, <1>3
    <2>3. InvAnswer'
      BY <1>3, <2>1, <2>2 DEF InvAnswer
    <2>4. InvEffect' /\ AnswerIsOwn'
      BY <1>3, <2>2, OutcomeOwn DEF InvEffect, InvProtocol
    <2> QED BY <2>3, <2>4 DEF InvProtocol
  <1> QED BY <1>2, <1>3, FailProtocol

\* The commands that are left when the first one is passed on or done with.
Shrinks(queue) ==
    \A j \in 1 .. Len(queue) : \E i \in 1 .. Len(toReader) :
      /\ j = Len(queue) => i = Len(toReader)
      /\ j # Len(queue) => i # Len(toReader)
      /\ queue[j].req = toReader[i].req
      /\ queue[j].todo \subseteq toReader[i].todo
      /\ toReader[i].answered => queue[j].answered

LEMMA TailShrinks ==
    ASSUME InvType, toReader # <<>>
    PROVE  Shrinks(Tail(toReader))
  <1>1. /\ Len(Tail(toReader)) = Len(toReader) - 1 /\ Len(toReader) \in Nat \ {0}
        /\ \A i \in 1 .. Len(Tail(toReader)) : Tail(toReader)[i] = toReader[i + 1]
    BY HeadItem
  <1> SUFFICES ASSUME NEW j \in 1 .. Len(Tail(toReader))
               PROVE  /\ j + 1 \in 1 .. Len(toReader)
                      /\ j = Len(Tail(toReader)) <=> j + 1 = Len(toReader)
                      /\ Tail(toReader)[j] = toReader[j + 1]
    BY DEF Shrinks
  <1> QED BY <1>1

LEMMA RequeueShrinks ==
    ASSUME InvType, toReader # <<>>, NEW item \in Items, item.req = Head(toReader).req,
           item.todo \subseteq Head(toReader).todo, Head(toReader).answered => item.answered
    PROVE  Shrinks(Requeue(item))
  <1>1. CASE Requeue(item) = Tail(toReader)
    BY <1>1, TailShrinks
  <1>2. CASE /\ Len(Requeue(item)) = Len(toReader) /\ Requeue(item)[1] = item
             /\ \A i \in 2 .. Len(toReader) : Requeue(item)[i] = toReader[i]
    <2>1. Head(toReader) = toReader[1] /\ Len(toReader) \in Nat \ {0}
      BY HeadItem
    <2>2. ASSUME NEW j \in 1 .. Len(toReader)
          PROVE  /\ Requeue(item)[j].req = toReader[j].req
                 /\ Requeue(item)[j].todo \subseteq toReader[j].todo
                 /\ toReader[j].answered => Requeue(item)[j].answered
      <3>1. CASE j = 1
        BY <1>2, <2>1, <3>1
      <3>2. CASE j # 1
        <4>1. j \in 2 .. Len(toReader)
          BY <2>1, <3>2
        <4> QED BY <1>2, <4>1
      <3> QED BY <3>1, <3>2
    <2> QED BY <1>2, <2>2 DEF Shrinks
  <1> QED BY <1>1, <1>2, RequeueItems

\* A step of reader q on the first command, which has reached it.
LEMMA QueueStep ==
    ASSUME InvType, Shrinks(toReader'),
           \/ address' = address /\ rate' = rate
           \/ /\ toReader # <<>>
              /\ \E q \in Head(toReader).todo :
                   \A r \in Readers \ {q} : address'[r] = address[r] /\ rate'[r] = rate[r]
    PROVE  /\ LeavesAlone
           /\ AllAnswered => AllAnswered'
           /\ OthersAnswered /\ call' = call => OthersAnswered'
  <1>1. AllAnswered => AllAnswered'
    BY DEF AllAnswered, Shrinks
  <1>2. OthersAnswered /\ call' = call => OthersAnswered'
    BY DEF OthersAnswered, Shrinks
  <1>3. ASSUME NEW r \in Readers, \A i \in 1 .. Len(toReader) : r \notin toReader[i].todo
        PROVE  /\ address'[r] = address[r] /\ rate'[r] = rate[r]
               /\ \A i \in 1 .. Len(toReader') : r \notin toReader'[i].todo
    <2>1. \A i \in 1 .. Len(toReader') : r \notin toReader'[i].todo
      BY <1>3 DEF Shrinks
    <2>2. CASE address' = address /\ rate' = rate
      BY <2>1, <2>2
    <2>3. CASE /\ toReader # <<>>
               /\ \E q \in Head(toReader).todo :
                    \A p \in Readers \ {q} : address'[p] = address[p] /\ rate'[p] = rate[p]
      <3>1. Head(toReader) = toReader[1] /\ 1 \in 1 .. Len(toReader)
        BY <2>3, HeadItem
      <3>2. r \notin Head(toReader).todo
        BY <1>3, <3>1
      <3> QED BY <2>1, <2>3, <3>2
    <2> QED BY <2>2, <2>3
  <1>4. LeavesAlone
    BY <1>3 DEF LeavesAlone
  <1> QED BY <1>1, <1>2, <1>4

\* A step that changes nothing for the client and nothing of the effect of a call.
LEMMA StillInFlight ==
    ASSUME InvProtocol, connections' = connections,
           UNCHANGED <<buffer, responses, toClient, call, outcome, calls, clean>>,
           LeavesAlone, AllAnswered => AllAnswered', OthersAnswered => OthersAnswered'
    PROVE  InvProtocol'
  <1>1. InvEffect' /\ AnswerIsOwn'
    BY OutcomeEffect, OutcomeOwn DEF InvProtocol
  <1>2. ASSUME NEW answer \in Received, Here(answer) PROVE Here(answer)'
    BY <1>2 DEF Here, Halves
  <1>3. ASSUME NEW answer \in Received, Effective(call.op, call.arg, answer.reader)
        PROVE  Effective(call.op, call.arg, answer.reader)'
    BY <1>3, CallEffect
  <1>4. NothingHere => NothingHere'
    BY DEF NothingHere
  <1>5. Received' = Received
    BY SameConnection
  <1>6. CASE ~clean
    BY <1>6, <1>1 DEF InvProtocol, InvAnswer
  <1>7. CASE NothingHere /\ ((call = NoCall /\ AllAnswered) \/ (call # NoCall /\ OthersAnswered))
    BY <1>1, <1>4, <1>7 DEF InvProtocol, InvAnswer
  <1>8. CASE /\ call # NoCall /\ AllAnswered
             /\ \E answer \in Received :
                  /\ answer.answers = call.id /\ Here(answer)
                  /\ answer.kind = "frame" /\ answer.status = "ok" =>
                       Effective(call.op, call.arg, answer.reader)
    <2>1. PICK answer \in Received :
            /\ answer.answers = call.id /\ Here(answer)
            /\ answer.kind = "frame" /\ answer.status = "ok" =>
                 Effective(call.op, call.arg, answer.reader)
      BY <1>8
    <2>2. /\ answer \in Received' /\ answer.answers = call'.id /\ Here(answer)'
          /\ answer.kind = "frame" /\ answer.status = "ok" =>
               Effective(call.op, call.arg, answer.reader)'
      BY <1>2, <1>3, <1>5, <2>1
    <2>3. InvAnswer'
      BY <1>8, <2>2 DEF InvAnswer
    <2> QED BY <1>1, <2>3 DEF InvProtocol
  <1>9. \/ ~clean
        \/ NothingHere /\ ((call = NoCall /\ AllAnswered) \/ (call # NoCall /\ OthersAnswered))
        \/ /\ call # NoCall /\ AllAnswered
           /\ \E answer \in Received :
                /\ answer.answers = call.id /\ Here(answer)
                /\ answer.kind = "frame" /\ answer.status = "ok" =>
                     Effective(call.op, call.arg, answer.reader)
    <2>1. InvAnswer
      BY DEF InvProtocol
    <2> QED BY <2>1 DEF InvAnswer
  <1> QED BY <1>6, <1>7, <1>8, <1>9

\* A step of the readers that brings no answer.
LEMMA SilentProtocol ==
    ASSUME InvType, InvProtocol, (\E r \in Readers : ReaderSilent(r)) \/ NobodyHears
    PROVE  InvProtocol'
  <1>1. /\ toReader # <<>> /\ UNCHANGED <<buffer, responses, toClient, call, outcome, calls, clean>>
        /\ connections' = connections
    BY DEF ReaderSilent, NobodyHears, client
  <1>2. Head(toReader) \in Items
    BY <1>1, HeadItem
  <1>3. /\ Shrinks(toReader')
        /\ \/ address' = address /\ rate' = rate
           \/ \E q \in Head(toReader).todo :
                \A r \in Readers \ {q} : address'[r] = address[r] /\ rate'[r] = rate[r]
    <2>1. ASSUME NEW q \in Readers, ReaderSilent(q)
          PROVE  /\ Shrinks(toReader') /\ q \in Head(toReader).todo
                 /\ \A r \in Readers \ {q} : address'[r] = address[r] /\ rate'[r] = rate[r]
      <3>1. toReader' = Requeue(Passed(Head(toReader), q)) /\ q \in Head(toReader).todo
        BY <2>1 DEF ReaderSilent
      <3>2. Shrinks(toReader')
        <4> DEFINE item == Passed(Head(toReader), q)
        <4>1. /\ item \in Items /\ item.req = Head(toReader).req
              /\ item.todo = Head(toReader).todo \ {q}
              /\ item.answered = Head(toReader).answered
          BY <1>2, ItemParts
        <4>2. item.todo \subseteq Head(toReader).todo
          BY <4>1
        <4>3. Head(toReader).answered => item.answered
          BY <4>1
        <4> HIDE DEF item
        <4>4. Shrinks(Requeue(item))
          BY <1>1, <4>1, <4>2, <4>3, RequeueShrinks
        <4> QED BY <3>1, <4>4 DEF item
      <3>3. \E settings : ReaderBecomes(q, settings)
        BY <2>1 DEF ReaderSilent
      <3>4. \A r \in Readers \ {q} : address'[r] = address[r] /\ rate'[r] = rate[r]
        BY <3>3 DEF ReaderBecomes, InvType, InvReaders
      <3> QED BY <3>1, <3>2, <3>4
    <2>2. CASE NobodyHears
      BY <1>1, <2>2, TailShrinks DEF NobodyHears, reader
    <2> QED BY <2>1, <2>2
  <1>4. /\ LeavesAlone
        /\ AllAnswered => AllAnswered'
        /\ OthersAnswered /\ call' = call => OthersAnswered'
    BY <1>1, <1>3, QueueStep
  <1>5. LeavesAlone
    BY <1>4
  <1>6. AllAnswered => AllAnswered'
    BY <1>4
  <1>7. OthersAnswered => OthersAnswered'
    BY <1>1, <1>4
  <1> QED BY <1>1, <1>5, <1>6, <1>7, StillInFlight

\* The answer of a reader: on an undisturbed connection it answers the call
\* under way, and nothing else is on its way.  If the peer has gone, it is lost.
LEMMA AnswerProtocol ==
    ASSUME InvType, InvProtocol, NEW q \in Readers, ReaderAnswers(q)
    PROVE  InvProtocol'
  <1> DEFINE item == Head(toReader)
             left == Answered(item, q)
  <1>1. /\ toReader # <<>> /\ q \in item.todo /\ toReader' = Requeue(left)
        /\ clean' = (clean /\ ~item.answered)
        /\ UNCHANGED <<buffer, responses, call, outcome, calls>> /\ connections' = connections
    BY DEF ReaderAnswers, client
  <1>2. item \in Items /\ item = toReader[1] /\ Len(toReader) \in Nat \ {0}
    BY <1>1, HeadItem
  <1>3. /\ item.req \in Sent /\ left \in Items /\ left.answered = TRUE
        /\ left.req = item.req /\ left.todo = item.todo \ {q}
    BY <1>2, ItemParts
  <1>4. PICK answer \in Answers(item.req, q) :
          /\ toClient' = IF peerUp THEN toClient \o Halves(answer) ELSE toClient
          /\ \E settings \in {Settings(q), CarriedOut(item.req, q)} :
               /\ answer.kind = "frame" /\ answer.status = "ok" =>
                    settings = CarriedOut(item.req, q)
               /\ ReaderBecomes(q, settings)
    BY DEF ReaderAnswers
  <1>5. PICK settings \in {Settings(q), CarriedOut(item.req, q)} :
          /\ answer.kind = "frame" /\ answer.status = "ok" => settings = CarriedOut(item.req, q)
          /\ ReaderBecomes(q, settings)
    BY <1>4
  <1>6. \A r \in Readers \ {q} : address'[r] = address[r] /\ rate'[r] = rate[r]
    BY <1>5 DEF ReaderBecomes, InvType, InvReaders
  <1>7. Shrinks(toReader')
    BY <1>1, <1>2, <1>3, RequeueShrinks
  <1>8. LeavesAlone
    BY <1>1, <1>6, <1>7, QueueStep
  <1>9. InvEffect' /\ AnswerIsOwn'
    BY <1>1, <1>8, OutcomeEffect, OutcomeOwn DEF InvProtocol
  <1>10. ASSUME clean'
         PROVE  /\ call' # NoCall /\ AllAnswered'
                /\ \/ NothingHere'
                   \/ \E a \in Received' :
                        /\ a.answers = call'.id /\ Here(a)'
                        /\ a.kind = "frame" /\ a.status = "ok" =>
                             Effective(call.op, call.arg, a.reader)'
    <2>1. clean /\ ~item.answered
      BY <1>1, <1>10
    <2>2. ~AllAnswered
      BY <1>2, <2>1 DEF AllAnswered
    <2>3. call # NoCall /\ NothingHere /\ OthersAnswered
      BY <2>1, <2>2 DEF InvProtocol, InvAnswer
    <2>4. Len(toReader) = 1 /\ item.req = call
      <3>1. 1 \in 1 .. Len(toReader) /\ ~toReader[1].answered
        BY <1>2, <2>1
      <3>2. toReader[1].answered \/ (1 = Len(toReader) /\ toReader[1].req = call)
        BY <2>3, <3>1 DEF OthersAnswered
      <3> QED BY <1>2, <3>1, <3>2
    <2>5. \A i \in 1 .. Len(toReader') : toReader'[i] = left
      <3>1. CASE toReader' = Tail(toReader)
        BY <1>1, <2>4, <3>1, HeadItem
      <3>2. CASE Len(toReader') = Len(toReader) /\ toReader'[1] = left
        BY <2>4, <3>2
      <3> QED BY <1>1, <1>3, <3>1, <3>2, RequeueItems
    <2>6. AllAnswered'
      BY <1>3, <2>5 DEF AllAnswered
    <2>7. answer \in Received /\ answer.answers = call.id
      BY <1>3, <2>4, AnswerType
    <2>7a. CASE ~peerUp
      <3>1. NothingHere'
        BY <1>1, <1>4, <2>3, <2>7a DEF NothingHere
      <3> QED BY <1>1, <2>3, <2>6, <3>1
    <2>7b. CASE peerUp
      <3>8. toClient' = Halves(answer)
        <4>1. toClient = <<>> /\ Halves(answer) \in Seq(Units)
          BY <2>3, <2>7, HalvesType DEF NothingHere
        <4> QED BY <1>4, <2>7b, <4>1, ConcatEmptySeq
      <3>9. Here(answer)'
        BY <1>1, <2>3, <3>8 DEF Here, NothingHere, Halves
      <3>10. ASSUME answer.kind = "frame", answer.status = "ok"
             PROVE  Effective(call.op, call.arg, answer.reader)'
        <4>1. settings = CarriedOut(call, q) /\ call \in Sent
          BY <1>3, <1>5, <2>4, <3>10
        <4>2. address'[q] = settings[1] /\ rate'[q] = settings[2]
          BY <1>5 DEF ReaderBecomes, InvType, InvReaders
        <4>3. call.op = "set_address" => address'[q] = call.arg
          BY <4>1, <4>2 DEF CarriedOut
        <4>4. call.op = "set_baud_rate" => rate'[q] = bps[call.arg]
          <5>1. call.op = "set_baud_rate" => call.arg \in DOMAIN ReaderBaudRate
            BY <4>1, RatesAssumption DEF Sent
          <5> QED BY <4>1, <4>2, <5>1, RatesAgree DEF CarriedOut
        <4>5. call.op = "discover_address" => address'[q] = answer.reader
          <5>1. CarriedOut(call, q) = Settings(q) \/ call.op # "discover_address"
            BY DEF CarriedOut
          <5>2. answer.reader = address[q]
            BY <3>10 DEF Answers, Frame, Garbled
          <5> QED BY <4>1, <4>2, <5>1, <5>2 DEF Settings
        <4>6. \A i \in 1 .. Len(toReader') : q \notin toReader'[i].todo
          BY <1>3, <2>5
        <4> QED BY <1>1, <4>3, <4>4, <4>5, <4>6 DEF Effective
      <3> QED BY <1>1, <2>3, <2>6, <2>7, <3>9, <3>10, SameConnection
    <2> QED BY <2>7a, <2>7b
  <1>11. InvAnswer'
    BY <1>1, <1>10 DEF InvAnswer, AllAnswered, OthersAnswered
  <1> QED BY <1>9, <1>11 DEF InvProtocol

LEMMA PushProtocol == InvProtocol /\ Push => InvProtocol'
  <1> SUFFICES ASSUME InvProtocol, Push PROVE InvProtocol'
    OBVIOUS
  <1>1. /\ clean' = FALSE
        /\ UNCHANGED <<call, outcome, calls, toReader, address, rate>>
    BY DEF Push, client, reader
  <1>2. InvEffect' /\ AnswerIsOwn'
    BY <1>1, SameQueue, OutcomeEffect, OutcomeOwn DEF InvProtocol
  <1> QED BY <1>1, <1>2 DEF InvProtocol, InvAnswer

\* What can be left of two units when the end of them is lost.
LEMMA Beginnings ==
    ASSUME NEW u \in Units, NEW v \in Units
    PROVE  /\ SubSeq(<<u, v>>, 1, 0) = <<>> /\ SubSeq(<<u, v>>, 1, 1) = <<u>>
           /\ SubSeq(<<u, v>>, 1, 2) = <<u, v>>
           /\ SubSeq(<<u>>, 1, 0) = <<>> /\ SubSeq(<<u>>, 1, 1) = <<u>>
           /\ SubSeq(<<>>, 1, 0) = <<>>
  <1>1. /\ <<u>> \in Seq(Units) /\ <<u, v>> \in Seq(Units)
        /\ <<u>>[1] = u /\ <<u, v>>[1] = u /\ Len(<<u>>) = 1 /\ Len(<<u, v>>) = 2
    OBVIOUS
  <1>2. SubSeq(<<u, v>>, 1, 1) = <<u>>
    <2>1. \A i \in 1 .. 1 - 0 : <<u>>[i] = <<u, v>>[0 + i]
      BY <1>1
    <2>2. SubSeq(<<u, v>>, 0 + 1, 1) = <<u>>
      BY <1>1, <2>1, PartIs, 0 \in Nat, 1 \in Nat, 0 <= 1, 1 <= 2, 1 - 0 = 1
    <2> QED BY <2>2, 0 + 1 = 1
  <1>3. SubSeq(<<u, v>>, 1, 2) = <<u, v>> /\ SubSeq(<<u>>, 1, 1) = <<u>>
    BY <1>1, SubSeqFull
  <1>4. /\ SubSeq(<<u, v>>, 1, 0) = <<>> /\ SubSeq(<<u>>, 1, 0) = <<>>
        /\ SubSeq(<<>>, 1, 0) = <<>>
    BY SubSeqEmpty
  <1> QED BY <1>2, <1>3, <1>4

\* The connection ends at the module: what was on its way is whole, cut or
\* gone, and of the commands the first ones are left.
LEMMA PeerGoesProtocol ==
    ASSUME InvType, InvProtocol, PeerCloses \/ ModuleRestarts
    PROVE  InvProtocol'
  <1>1. /\ SomeCommandsLost /\ address' = address /\ rate' = rate
        /\ UNCHANGED <<buffer, responses, call, outcome, calls, clean>>
        /\ connections' = connections
    BY DEF PeerCloses, ModuleRestarts, PeerGoes, client, reader
  <1>2. PICK n \in 0 .. Len(toClient) : toClient' = SubSeq(toClient, 1, n)
    BY DEF PeerCloses, ModuleRestarts, PeerGoes
  <1>3. LeavesAlone
    BY <1>1, SameQueue
  <1>4. InvEffect' /\ AnswerIsOwn'
    BY <1>1, <1>3, OutcomeEffect, OutcomeOwn DEF InvProtocol
  <1>5. (AllAnswered => AllAnswered') /\ (OthersAnswered => OthersAnswered')
    BY <1>1, LostCommands DEF AllAnswered, OthersAnswered
  <1>6. NothingHere => NothingHere'
    <2> SUFFICES ASSUME NothingHere PROVE NothingHere'
      OBVIOUS
    <2>1. n = 0
      BY <1>2, Empty DEF NothingHere
    <2>2. toClient' = <<>>
      BY <1>2, <2>1, SubSeqEmpty DEF NothingHere
    <2> QED BY <1>1, <2>2 DEF NothingHere
  <1>7. ASSUME NEW answer \in Received, Here(answer)
        PROVE  NothingHere' \/ Here(answer)'
    <2> DEFINE u == [of |-> answer, half |-> 1]
               v == [of |-> answer, half |-> 2]
    <2>1. Halves(answer) = <<u, v>> /\ Halves(answer)[1] = u /\ Halves(answer)[2] = v
      BY DEF Halves
    <2>2. u \in Units /\ v \in Units
      BY DEF Units
    <2>3. Len(<<u>>) = 1 /\ Len(<<v>>) = 1 /\ Len(<<u, v>>) = 2 /\ Len(<<>>) = 0
      BY Empty
    <2>4. (Halves(answer) = <<u, v>> /\ Halves(answer)[1] = u /\ Halves(answer)[2] = v)'
      BY DEF Halves
    <2> HIDE DEF u, v
    <2>5. \/ responses = <<answer>> /\ buffer = <<>> /\ toClient = <<>>
          \/ responses = <<>> /\ buffer = <<>> /\ toClient \in {<<u, v>>, <<u>>}
          \/ responses = <<>> /\ buffer = <<u>> /\ toClient \in {<<v>>, <<>>}
      BY <1>7, <2>1 DEF Here
    <2>6. CASE responses = <<answer>> /\ buffer = <<>> /\ toClient = <<>>
      <3>1. toClient' = <<>>
        BY <1>2, <2>3, <2>6, SubSeqEmpty
      <3> QED BY <1>1, <2>6, <3>1 DEF Here
    <2>7. CASE responses = <<>> /\ buffer = <<>> /\ toClient \in {<<u, v>>, <<u>>}
      <3>1. toClient' \in {<<>>, <<u>>, <<u, v>>}
        <4>1. CASE toClient = <<u, v>>
          <5>1. n = 0 \/ n = 1 \/ n = 2
            BY <1>2, <2>3, <4>1
          <5> QED BY <1>2, <2>2, <4>1, <5>1, Beginnings
        <4>2. CASE toClient = <<u>>
          <5>1. n = 0 \/ n = 1
            BY <1>2, <2>3, <4>2
          <5> QED BY <1>2, <2>2, <4>2, <5>1, Beginnings
        <4> QED BY <2>7, <4>1, <4>2
      <3> QED BY <1>1, <2>4, <2>7, <3>1 DEF Here, NothingHere
    <2>8. CASE responses = <<>> /\ buffer = <<u>> /\ toClient \in {<<v>>, <<>>}
      <3>1. toClient' \in {<<>>, <<v>>}
        <4>1. CASE toClient = <<v>>
          <5>1. n = 0 \/ n = 1
            BY <1>2, <2>3, <4>1
          <5> QED BY <1>2, <2>2, <4>1, <5>1, Beginnings
        <4>2. CASE toClient = <<>>
          <5>1. n = 0
            BY <1>2, <2>3, <4>2
          <5> QED BY <1>2, <2>2, <4>2, <5>1, Beginnings
        <4> QED BY <2>8, <4>1, <4>2
      <3> QED BY <1>1, <2>4, <2>8, <3>1 DEF Here
    <2> QED BY <2>5, <2>6, <2>7, <2>8
  <1>8. InvAnswer'
    <2> SUFFICES ASSUME clean
                 PROVE  \/ call' = NoCall /\ NothingHere' /\ AllAnswered'
                        \/ call' # NoCall /\ NothingHere' /\ OthersAnswered'
                        \/ /\ call' # NoCall /\ AllAnswered'
                           /\ \E answer \in Received' :
                                /\ answer.answers = call'.id /\ Here(answer)'
                                /\ answer.kind = "frame" /\ answer.status = "ok" =>
                                     Effective(call.op, call.arg, answer.reader)'
      BY <1>1 DEF InvAnswer
    <2>1. CASE NothingHere
      <3>1. NothingHere'
        BY <1>6, <2>1
      <3>2. \/ call = NoCall /\ AllAnswered
            \/ call # NoCall /\ (OthersAnswered \/ AllAnswered)
        BY DEF InvProtocol, InvAnswer
      <3>3. AllAnswered => OthersAnswered
        BY DEF AllAnswered, OthersAnswered
      <3> QED BY <1>1, <1>5, <3>1, <3>2, <3>3
    <2>2. CASE ~NothingHere
      <3>1. PICK answer \in Received :
              /\ call # NoCall /\ AllAnswered /\ answer.answers = call.id /\ Here(answer)
              /\ answer.kind = "frame" /\ answer.status = "ok" =>
                   Effective(call.op, call.arg, answer.reader)
        BY <2>2 DEF InvProtocol, InvAnswer
      <3>2. /\ answer \in Received' /\ answer.answers = call'.id
            /\ answer.kind = "frame" /\ answer.status = "ok" =>
                 Effective(call.op, call.arg, answer.reader)'
        BY <1>1, <1>3, <3>1, CallEffect, SameConnection
      <3>3. NothingHere' \/ Here(answer)'
        BY <1>7, <3>1
      <3>4. AllAnswered' /\ OthersAnswered'
        BY <1>5, <3>1 DEF AllAnswered, OthersAnswered
      <3>5. NothingHere' => call' # NoCall /\ NothingHere' /\ OthersAnswered'
        BY <1>1, <3>1, <3>4
      <3> QED BY <1>1, <3>1, <3>2, <3>3, <3>4, <3>5
    <2> QED BY <2>1, <2>2
  <1> QED BY <1>4, <1>8 DEF InvProtocol

LEMMA StutterProtocol == InvProtocol /\ UNCHANGED vars => InvProtocol'
  <1> SUFFICES ASSUME InvProtocol, UNCHANGED vars PROVE InvProtocol'
    OBVIOUS
  <1>1. /\ UNCHANGED <<buffer, responses, toClient, call, outcome, calls, clean>>
        /\ connections' = connections
        /\ toReader' = toReader /\ address' = address /\ rate' = rate
    BY DEF vars, client, peer, reader
  <1>2. LeavesAlone
    BY <1>1, SameQueue
  <1>3. AllAnswered => AllAnswered'
    BY <1>1 DEF AllAnswered
  <1>4. OthersAnswered => OthersAnswered'
    BY <1>1 DEF OthersAnswered
  <1> QED BY <1>1, <1>2, <1>3, <1>4, StillInFlight

LEMMA NextProtocol == InvType /\ InvProtocol /\ [Next]_vars => InvProtocol'
  <1> SUFFICES ASSUME InvType, InvProtocol, [Next]_vars PROVE InvProtocol'
    OBVIOUS
  <1>1. CASE Connect \/ Close
    BY <1>1, ConnectProtocol, CloseProtocol
  <1>2. CASE StartCall
    BY <1>2, CallProtocol DEF StartCall
  <1>3. CASE CallStep
    <2>1. CASE ReceiveEnd
      BY <2>1, FailProtocol DEF ReceiveEnd
    <2>2. CASE Timeout
      BY <2>2, FailProtocol DEF Timeout
    <2> QED BY <1>3, <2>1, <2>2, ReceiveProtocol, TakeResponseProtocol DEF CallStep
  <1>4. CASE ReaderStep
    BY <1>4, SilentProtocol, AnswerProtocol DEF ReaderStep
  <1>5. CASE Push
    BY <1>5, PushProtocol
  <1>6. CASE PeerCloses \/ ModuleRestarts
    BY <1>6, PeerGoesProtocol
  <1>7. CASE UNCHANGED vars
    BY <1>7, StutterProtocol
  <1> QED BY <1>1, <1>2, <1>3, <1>4, <1>5, <1>6, <1>7 DEF Next

LEMMA Protocol == Spec => [](InvType /\ InvProtocol)
  BY InitType, NextType, InitProtocol, NextProtocol, PTL DEF Spec

\* A method of the client never returns the answer to another call while nothing
\* has disturbed its connection (AnswerIsOwn says what can), whoever else is on the
\* serial line, however TCP cuts what they write, and whatever becomes of the
\* commands sent on earlier connections.
THEOREM AnswersAreOwn == Spec => []AnswerIsOwn
  <1>1. InvProtocol => AnswerIsOwn
    BY DEF InvProtocol
  <1> QED BY <1>1, Protocol, PTL

\* Between two calls on an undisturbed connection nothing is left over that the
\* next one could take for its answer, and no reader still has an answer to
\* give, not even to a command of an earlier connection.
THEOREM QuietWhenIdle == Spec => []QuietBetweenCalls
  <1>1. InvProtocol => QuietBetweenCalls
    <2> SUFFICES ASSUME InvProtocol, call = NoCall, clean
                 PROVE  /\ NothingHere
                        /\ \A item \in InSeq(toReader) : item.answered
      BY DEF QuietBetweenCalls, NothingHere
    <2>1. NothingHere /\ AllAnswered
      BY DEF InvProtocol, InvAnswer
    <2> QED BY <2>1 DEF AllAnswered, InSeq
  <1> QED BY <1>1, Protocol, PTL

\* A reader does have the address or the rate that a call on an undisturbed
\* connection has returned from giving it or asking it for.
THEOREM WhatIsReportedHolds == Spec => []AddressIsCurrent
  <1>1. InvProtocol => AddressIsCurrent
    <2> SUFFICES ASSUME InvProtocol, call = NoCall, outcome.kind = "returned",
                        outcome.undisturbed, outcome.id = calls
                 PROVE  \E r \in Readers :
                          /\ outcome.op = "set_address" => address[r] = outcome.arg
                          /\ outcome.op = "discover_address" => address[r] = outcome.frame.reader
                          /\ outcome.op = "set_baud_rate" => rate[r] = bps[outcome.arg]
      BY DEF AddressIsCurrent
    <2>1. Effective(outcome.op, outcome.arg, outcome.frame.reader)
      BY DEF InvProtocol, InvEffect
    <2> QED BY <2>1 DEF Effective
  <1> QED BY <1>1, Protocol, PTL

=============================================================================
