----------------------------- MODULE RfidClient -----------------------------
(***************************************************************************)
(* The one-command-at-a-time TCP client (client.py) and the readers at the *)
(* other end of its connection.                                            *)
(*                                                                         *)
(* StreamBuffer shows how bytes become messages, so a message here is a    *)
(* record; TCP still cuts the stream anywhere, so a message travels as two *)
(* units, its first and its second half, and `buffer' is what the          *)
(* StreamBuffer of the client holds.  A frame carries, as history, the     *)
(* call it answers and the connection it was written on: neither is on the *)
(* wire, and no guard of the client reads them.                            *)
(*                                                                         *)
(* Between module and readers is a serial line, with a rate at either end: *)
(* a reader hears only what is sent at its own.  The line knows nothing of *)
(* connections: a command already sent is carried out, or lost, whatever   *)
(* becomes of the connection it came on, and its answer goes to the one    *)
(* that is open by then.  All setters share the body of _run(); set_power  *)
(* stands for those whose effect no later answer depends on.               *)
(***************************************************************************)
EXTENDS Integers, Sequences, FiniteSets

CONSTANTS Methods,       \* the methods the caller uses
          Readers,       \* the readers on the serial line of this connection
          Addresses,     \* the addresses a reader may have
          Broadcast,     \* 0xFF, which every reader answers
          Rates,         \* the members of ReaderBaudRate in use
          MaxChunk,      \* the most units one recv returns
          MaxCalls,      \* bound on the calls of the client's methods
          MaxConnections,\* bound on its connections
          MaxUnsolicited \* bound on the messages a reader pushes unasked

ASSUME AddressAssumption == Broadcast \notin Addresses /\ Addresses # {}

ASSUME BoundAssumption ==
    /\ MaxChunk \in Nat \ {0}
    /\ MaxCalls \in Nat /\ MaxConnections \in Nat /\ MaxUnsolicited \in Nat

VARIABLES
    socket,     \* _socket: "closed" or "open"
    buffer,     \* the unparsed units in _stream
    responses,  \* _responses
    call,       \* the method call under way, or NoCall
    outcome,    \* how the latest call ended
    peerUp,     \* the other end of the connection is open
    toReader,   \* commands sent, on any connection, and not yet dealt with
    toClient,   \* units written by the peer and not yet received
    address,    \* the address each reader has
    rate,       \* the rate each reader speaks
    lineRate,   \* the rate of the module's serial side
    calls,      \* history: calls started
    connections,\* history: connections made
    pushed,     \* history: messages pushed unasked on this connection
    clean       \* history: nothing disturbed this connection (see below)

client == <<socket, buffer, responses, call, outcome>>
reader == <<address, rate, lineRate>>
peer   == <<peerUp, toReader, toClient, reader>>
vars   == <<client, peer, calls, connections, pushed, clean>>

NoCall == [op |-> "none"]

NoOutcome == [kind |-> "none"]

AllMethods == {"get_reader_info", "discover_address", "set_address", "set_power",
               "set_baud_rate"}

ASSUME MethodsAssumption == Methods \subseteq AllMethods

\* The code of each rate, which the reader looks up in its manual (external).
ReaderBaudRate == [BAUD_9600 |-> 0, BAUD_19200 |-> 1, BAUD_38400 |-> 2,
                   BAUD_57600 |-> 5, BAUD_115200 |-> 6]

bps == [BAUD_9600 |-> 9600, BAUD_19200 |-> 19200, BAUD_38400 |-> 38400,
        BAUD_57600 |-> 57600, BAUD_115200 |-> 115200]

ManualRate(code) ==
    CASE code = 0 -> 9600 [] code = 1 -> 19200 [] code = 2 -> 38400
      [] code = 5 -> 57600 [] code = 6 -> 115200

ASSUME RatesAssumption == Rates \subseteq DOMAIN ReaderBaudRate /\ Rates # {}

\* The calls: the address they are sent to and, of a setter, what it sets.
Requests ==
    [op : Methods \cap {"get_reader_info", "set_power"},
     adr : Addresses \cup {Broadcast}, arg : {"none"}]
      \cup [op : Methods \cap {"set_address"},
            adr : Addresses \cup {Broadcast}, arg : Addresses]
      \cup [op : Methods \cap {"set_baud_rate"}, adr : Addresses \cup {Broadcast}, arg : Rates]
      \cup [op : Methods \cap {"discover_address"}, adr : {Broadcast}, arg : {"none"}]

Command(op) ==
    CASE op \in {"get_reader_info", "discover_address"} -> "GET_READER_INFO"
      [] op = "set_address"   -> "SET_ADDRESS"
      [] op = "set_power"     -> "SET_POWER"
      [] op = "set_baud_rate" -> "SET_BAUD_RATE"

\* The messages a peer writes.  command "0" with status "illegal" is how a
\* reader refuses a command it does not know or whose checksum is wrong.
Frame(command, status, adr, answers) ==
    [kind |-> "frame", command |-> command, status |-> status, reader |-> adr,
     answers |-> answers, connection |-> connections]

Heartbeat == [kind |-> "heartbeat", answers |-> 0, connection |-> connections]

Garbled(answers) == [kind |-> "garbled", answers |-> answers, connection |-> connections]

Halves(message) == <<[of |-> message, half |-> 1], [of |-> message, half |-> 2]>>

Init ==
    /\ socket = "closed" /\ buffer = <<>> /\ responses = <<>>
    /\ call = NoCall /\ outcome = NoOutcome
    /\ peerUp = FALSE /\ toReader = <<>> /\ toClient = <<>>
    /\ address \in [Readers -> Addresses]
    /\ \E b \in Rates : lineRate = bps[b] /\ rate = [r \in Readers |-> bps[b]]
    /\ calls = 0 /\ connections = 0 /\ pushed = 0 /\ clean = TRUE
-----------------------------------------------------------------------------
(* connect() and close().                                                  *)

\* connect() on an open client returns at once, so it changes nothing even if
\* the peer has gone.  A command of an earlier connection that is still to be
\* dealt with disturbs the new one from the start.
Connect ==
    /\ call = NoCall
    /\ socket = "closed"
    /\ connections < MaxConnections
    /\ socket' = "open" /\ connections' = connections + 1
    /\ peerUp' = TRUE /\ pushed' = 0 /\ clean' = (toReader = <<>>)
    /\ UNCHANGED <<buffer, responses, call, outcome, toReader, toClient, reader, calls>>

\* Faults for the two: close() forgets one of its resets.
StreamWhenClosed_Kept == buffer

StreamWhenClosed == <<>>

ResponsesWhenClosed_Kept == responses

ResponsesWhenClosed == <<>>

\* When a connection ends, the last of the commands on their way to the readers
\* may be lost with it; the others are still dealt with.
SomeCommandsLost ==
    \E n \in 0 .. Len(toReader) : toReader' = SubSeq(toReader, 1, n)

\* What is on its way to the client is never received.
Close ==
    /\ call = NoCall
    /\ socket' = "closed"
    /\ buffer' = StreamWhenClosed
    /\ responses' = ResponsesWhenClosed
    /\ peerUp' = FALSE /\ toClient' = <<>>
    /\ SomeCommandsLost
    /\ UNCHANGED <<call, outcome, reader, calls, connections, pushed, clean>>
-----------------------------------------------------------------------------
(* _send_command() and _run().                                             *)

\* discover_address() turns a TimeoutError into a ConnectionError.
Raised(req, exception) ==
    [kind |-> IF req.op = "discover_address" /\ exception = "TimeoutError"
                THEN "ConnectionError" ELSE exception,
     op |-> req.op, arg |-> req.arg, id |-> req.id]

Returned(req, frame) ==
    [kind |-> "returned", op |-> req.op, arg |-> req.arg, id |-> req.id,
     frame |-> frame, undisturbed |-> clean]

WithId(req) ==
    [op |-> req.op, adr |-> req.adr, arg |-> req.arg, id |-> calls + 1]

\* The call ends with an exception other than RuntimeError.  The socket stays
\* open and nothing is reset: the answer may still come.
Fail(exception) ==
    /\ outcome' = Raised(call, exception)
    /\ call' = NoCall
    /\ clean' = FALSE

CallUnconnected(req) ==
    /\ call = NoCall /\ socket = "closed" /\ calls < MaxCalls
    /\ calls' = calls + 1
    /\ outcome' = Raised(WithId(req), "ConnectionError")
    /\ UNCHANGED <<socket, buffer, responses, call, peer, connections, pushed, clean>>

\* The readers that hear a command: the ones addressed that speak the rate.
Hearers(adr) ==
    {r \in Readers : adr \in {address[r], Broadcast} /\ rate[r] = lineRate}

\* sendall(): what is sent to a peer that has gone is lost unnoticed.
Send(req) ==
    /\ call = NoCall /\ socket = "open" /\ calls < MaxCalls
    /\ calls' = calls + 1
    /\ call' = WithId(req)
    /\ toReader' = IF peerUp
                     THEN Append(toReader, [req |-> WithId(req), todo |-> Hearers(req.adr),
                                            answered |-> FALSE])
                     ELSE toReader
    /\ outcome' = NoOutcome
    /\ UNCHANGED <<socket, buffer, responses, peerUp, toClient, reader, connections,
                   pushed, clean>>

\* sendall() notices that the peer has gone.
SendFails(req) ==
    /\ call = NoCall /\ socket = "open" /\ calls < MaxCalls /\ ~peerUp
    /\ calls' = calls + 1
    /\ outcome' = Raised(WithId(req), "ConnectionError")
    /\ clean' = FALSE
    /\ UNCHANGED <<socket, buffer, responses, call, peer, connections, pushed>>

\* Fault for Waiting: recv() before looking at what is there already.
Waiting_Always == call # NoCall

Waiting == call # NoCall /\ responses = <<>>

\* feed() at the level of halves: whole messages come out, a first half stays.
\* Halves that do not belong together are a checksum error to the parser.
WholeMessages(units) == [i \in 1 .. Len(units) \div 2 |-> units[2 * i - 1].of]

Remainder(units) == SubSeq(units, 2 * (Len(units) \div 2) + 1, Len(units))

HasErrors(units) ==
    \E i \in 1 .. Len(units) \div 2 :
      \/ units[2 * i - 1].of.kind = "garbled"
      \/ units[2 * i - 1].of # units[2 * i].of
      \/ units[2 * i - 1].half # 1

\* Fault for HasHeartbeats: a heartbeat is taken for a response.
HasHeartbeats_Ignored(units) == FALSE

HasHeartbeats(units) ==
    \E i \in 1 .. Len(units) \div 2 : units[2 * i - 1].of.kind = "heartbeat"

\* recv() and feed(): an error or a heartbeat ends the call and the frames
\* parsed along with it are lost.
Receive(n) ==
    LET units == buffer \o SubSeq(toClient, 1, n)
    IN  /\ Waiting
        /\ n <= Len(toClient)
        /\ toClient' = SubSeq(toClient, n + 1, Len(toClient))
        /\ buffer' = Remainder(units)
        /\ IF HasErrors(units) \/ HasHeartbeats(units)
             THEN Fail("ConnectionError") /\ UNCHANGED responses
             ELSE /\ responses' = responses \o WholeMessages(units)
                  /\ UNCHANGED <<call, outcome, clean>>
        /\ UNCHANGED <<socket, peerUp, toReader, reader, calls, connections, pushed>>

\* recv() returns no bytes: the peer has closed.
ReceiveEnd ==
    /\ Waiting
    /\ ~peerUp /\ toClient = <<>>
    /\ Fail("ConnectionError")
    /\ UNCHANGED <<socket, buffer, responses, peer, calls, connections, pushed>>

\* Fault for Timeout: the timeout is swallowed and recv() called again.
Timeout_Retries == Waiting /\ UNCHANGED vars

\* recv() times out; what is in flight has not arrived yet.
Timeout ==
    /\ Waiting
    /\ Fail("TimeoutError")
    /\ UNCHANGED <<socket, buffer, responses, peer, calls, connections, pushed>>

\* The first response is taken for the answer if its command fits.
Matches(frame) ==
    \/ frame.command = Command(call.op)
    \/ frame.command = "0" /\ frame.status = "illegal"

\* Fault for IsOk: the status is not looked at.
IsOk_Always(frame) == TRUE

\* A "short" answer has the status of success and too little data.
IsOk(frame) == frame.status = "ok"

\* ReaderInfo.from_bytes() refuses too little data; no setter looks at any.
Unreadable(frame) ==
    frame.status = "short" /\ Command(call.op) = "GET_READER_INFO"

\* Fault for Popped: the response is looked at but not removed.
Popped_Peeked == responses

Popped == Tail(responses)

TakeResponse ==
    LET frame == Head(responses)
    IN  /\ call # NoCall
        /\ responses # <<>>
        /\ responses' = Popped
        /\ IF ~Matches(frame)
             THEN Fail("ConnectionError")
             ELSE /\ outcome' = IF IsOk(frame) THEN Returned(call, frame)
                                ELSE IF Unreadable(frame) THEN Raised(call, "ValueError")
                                ELSE Raised(call, "RuntimeError")
                  /\ call' = NoCall
                  /\ UNCHANGED clean
        /\ UNCHANGED <<socket, buffer, peer, calls, connections, pushed>>
-----------------------------------------------------------------------------
(* The readers and the module in front of them.                            *)

\* What a reader does with a command: carry it out, refuse it, carry it out
\* with the answer garbled on the serial line or lost, or never hear it.  Only
\* an answer that owes data can have too little.
Answers(command, r) ==
    { Frame(Command(command.op), "ok", address[r], command.id),
      Frame(Command(command.op), "failed", address[r], command.id),
      Frame("0", "illegal", address[r], command.id),
      Garbled(command.id) }
      \cup (IF Command(command.op) = "GET_READER_INFO"
              THEN {Frame("GET_READER_INFO", "short", address[r], command.id)} ELSE {})

Answered(item, r) == [item EXCEPT !.todo = @ \ {r}, !.answered = TRUE]

Passed(item, r) == [item EXCEPT !.todo = @ \ {r}]

\* The head command is dealt with once every reader that hears it is through.
Requeue(item) ==
    IF item.todo = {} THEN Tail(toReader) ELSE <<item>> \o Tail(toReader)

\* The reader as it is, and as the command leaves it.
Settings(r) == <<address[r], rate[r]>>

CarriedOut(command, r) ==
    CASE command.op = "set_address"   -> <<command.arg, rate[r]>>
      [] command.op = "set_baud_rate" -> <<address[r], ManualRate(ReaderBaudRate[command.arg])>>
      [] OTHER                        -> Settings(r)

ReaderBecomes(r, settings) ==
    /\ address' = [address EXCEPT ![r] = settings[1]]
    /\ rate' = [rate EXCEPT ![r] = settings[2]]
    /\ UNCHANGED lineRate

\* The answer comes at the rate the command came at; only then does a new rate
\* take effect.  The module passes it on to the connection that is open, if
\* there is one, be it that of the command or a later one.  A second answer to
\* one command (a broadcast) disturbs the connection.
ReaderAnswers(r) ==
    /\ toReader # <<>> /\ r \in Head(toReader).todo
    /\ LET item == Head(toReader)
       IN  \E answer \in Answers(item.req, r) :
             /\ toClient' = IF peerUp THEN toClient \o Halves(answer) ELSE toClient
             /\ toReader' = Requeue(Answered(item, r))
             /\ \E settings \in {Settings(r), CarriedOut(item.req, r)} :
                  /\ answer.kind = "frame" =>
                       (answer.status = "ok" => settings = CarriedOut(item.req, r))
                         /\ (answer.status # "ok" => settings = Settings(r))
                  /\ ReaderBecomes(r, settings)
             /\ clean' = (clean /\ ~item.answered)
    /\ UNCHANGED <<client, peerUp, calls, connections, pushed>>

ReaderSilent(r) ==
    /\ toReader # <<>> /\ r \in Head(toReader).todo
    /\ toReader' = Requeue(Passed(Head(toReader), r))
    /\ \E settings \in {Settings(r), CarriedOut(Head(toReader).req, r)} :
         ReaderBecomes(r, settings)
    /\ UNCHANGED <<client, peerUp, toClient, calls, connections, pushed, clean>>

\* No reader has the address, or none speaks the rate.
NobodyHears ==
    /\ toReader # <<>> /\ Head(toReader).todo = {}
    /\ toReader' = Tail(toReader)
    /\ UNCHANGED <<client, peerUp, toClient, reader, calls, connections, pushed, clean>>

\* A heartbeat of the module, or a tag report of a reader in scan mode.
Push ==
    /\ peerUp /\ pushed < MaxUnsolicited
    /\ pushed' = pushed + 1
    /\ \E r \in Readers :
         \E message \in {Heartbeat} \cup (IF rate[r] = lineRate
                                       THEN {Frame("TAG_REPORT", "ok", address[r], 0)} ELSE {}) :
           toClient' = toClient \o Halves(message)
    /\ clean' = FALSE
    /\ UNCHANGED <<client, peerUp, toReader, reader, calls, connections>>

\* The connection ends at the module, by a close or a reset: any part of what
\* is on its way to the client may be lost.  (What the client has not received
\* of an answer then, the next connection does not bring either.)
PeerGoes ==
    /\ peerUp
    /\ peerUp' = FALSE /\ SomeCommandsLost
    /\ \E n \in 0 .. Len(toClient) : toClient' = SubSeq(toClient, 1, n)
    /\ UNCHANGED <<client, calls, connections, pushed, clean>>

PeerCloses == PeerGoes /\ UNCHANGED reader

\* Its rate is configured (HwVxDevice.save_config()) and the module restarts.
ModuleRestarts ==
    /\ PeerGoes
    /\ \E b \in Rates : lineRate' = bps[b]
    /\ UNCHANGED <<address, rate>>
-----------------------------------------------------------------------------
StartCall == \E req \in Requests : CallUnconnected(req) \/ Send(req) \/ SendFails(req)

CallStep ==
    \/ \E n \in 1 .. MaxChunk : Receive(n)
    \/ ReceiveEnd
    \/ Timeout
    \/ TakeResponse

ReaderStep ==
    \/ \E r \in Readers : ReaderAnswers(r) \/ ReaderSilent(r)
    \/ NobodyHears

Next == Connect \/ Close \/ StartCall \/ CallStep \/ ReaderStep \/ Push \/ PeerCloses \/ ModuleRestarts

Spec == Init /\ [][Next]_vars

\* A call under way is a running thread whose recv() has a timeout.
FairSpec == Spec /\ WF_vars(CallStep)
-----------------------------------------------------------------------------
(* Properties.                                                             *)

Messages(units) == {units[i].of : i \in 1 .. Len(units)}

InSeq(seq) == {seq[i] : i \in 1 .. Len(seq)}

TypeOK ==
    /\ socket \in {"closed", "open"}
    /\ call = NoCall \/ (call.op \in Methods /\ call.id \in 1 .. MaxCalls)
    /\ outcome = NoOutcome \/ outcome.kind \in {"returned", "TimeoutError", "ValueError",
                                                 "ConnectionError", "RuntimeError"}
    /\ address \in [Readers -> Addresses]
    /\ {lineRate} \cup {rate[r] : r \in Readers} \subseteq {bps[b] : b \in Rates}
    /\ \A unit \in InSeq(toClient) \cup InSeq(buffer) : unit.half \in {1, 2}
    /\ \A frame \in InSeq(responses) : frame.kind = "frame"
    /\ \A item \in InSeq(toReader) : item.todo \subseteq Readers
    /\ calls \in 0 .. MaxCalls /\ connections \in 0 .. MaxConnections
    /\ pushed \in 0 .. MaxUnsolicited /\ peerUp \in BOOLEAN /\ clean \in BOOLEAN

\* Nothing received on a connection survives it: after close(), by way of
\* `with' or of an exception handler, the client on its next connection holds
\* and returns only what that connection brought.
NothingOutlivesConnection ==
    /\ \A m \in Messages(buffer) \cup InSeq(responses) : m.connection = connections
    /\ socket = "closed" => buffer = <<>> /\ responses = <<>>

\* The answer a call returns is the answer to that call, as long as nothing
\* has disturbed the connection: at connect() no command sent before was still
\* to be dealt with by the readers, no earlier call on it raised a TimeoutError
\* or a ConnectionError, nothing was pushed, and no two readers answered one
\* broadcast.
AnswerIsOwn ==
    outcome.kind = "returned" /\ outcome.undisturbed =>
      outcome.frame.answers = outcome.id

\* Between calls an undisturbed connection (as above) is quiet: nothing that came
\* is left over to be taken for the answer of the next call, and no reader has
\* an answer to give, on whichever connection the command was sent.
QuietBetweenCalls ==
    call = NoCall /\ clean =>
      /\ buffer = <<>> /\ responses = <<>> /\ toClient = <<>>
      /\ \A item \in InSeq(toReader) : item.answered

\* What a call that changes or asks for an address or a rate returns is so: on an
\* undisturbed connection, once it has returned and until the next call, some
\* reader does have it.  So a caller who gives the module the rate that
\* set_baud_rate() has returned from is heard again, and one who does so after
\* an exception may not be.
AddressIsCurrent ==
    call = NoCall /\ outcome.kind = "returned" /\ outcome.undisturbed /\ outcome.id = calls =>
      /\ outcome.op = "set_address" => \E r \in Readers : address[r] = outcome.arg
      /\ outcome.op = "discover_address" => \E r \in Readers : address[r] = outcome.frame.reader
      /\ outcome.op = "set_baud_rate" => \E r \in Readers : rate[r] = bps[outcome.arg]

\* _responses is filled only when it is empty, so it never holds more than the
\* messages of one chunk, and the stream never more than a part of a message.
OneChunkHeld ==
    /\ 2 * Len(responses) <= MaxChunk + 1
    /\ Len(buffer) <= 1

\* Every call ends: with an answer, an exception or, at the latest, a timeout.
EveryCallEnds == call # NoCall ~> call = NoCall

\* What the README says of the client: the response it waits for and returns
\* is the matching one.
ReturnsMatchingResponse ==
    outcome.kind = "returned" => outcome.frame.answers = outcome.id
=============================================================================
