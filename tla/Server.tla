------------------------------- MODULE Server -------------------------------
(***************************************************************************)
(* The TCP receiver of autonomous tag reports (server.py): main() takes    *)
(* the command line, start_server() accepts connections and gives each a   *)
(* daemon thread that runs handle_client() with a StreamBuffer of its own. *)
(*                                                                         *)
(* As in RfidClient a message travels as two units, so that recv() can cut *)
(* it.  A log line is a message and what it is logged as, or one of the    *)
(* lines that end a connection; its order against the lines of other       *)
(* connections, which nothing determines, is left out.                     *)
(***************************************************************************)
EXTENDS Integers, Sequences, Selection

CONSTANTS Peers,       \* the modules, each with one connection
          CommandLines,\* the arguments the server may be started with
          Writes,      \* what each peer writes: kinds of message and readers
          MaxWritten,  \* bound on the messages written on each connection
          MaxChunk     \* the most units one recv returns

Byte == 0 .. 255

AVAILABLE_FIELDS == {"tag", "reader", "cmd", "status", "peer"}

Kinds == {"frame", "heartbeat", "garbled"}

\* readers is what int(item, 16) makes of the items of --allowed-readers, an
\* item that is no number standing for one out of range; Byte if it is not given.
CommandLinesOK ==
    \A args \in CommandLines :
      args.port \in Int /\ args.readers \subseteq Int /\ args.fields \in Seq(STRING)

ASSUME CommandLinesAssumption == CommandLinesOK

ASSUME WritesAssumption ==
    \A p \in Peers : Writes[p] \subseteq [kind : Kinds, reader : Byte]

ASSUME BoundAssumption ==
    MaxWritten \in [Peers -> Nat] /\ MaxChunk \in Nat \ {0}

VARIABLES
    main,     \* the main thread: "parse", "accept", "start", "stopped", "failed" or
              \* "exited"
    allowed,  \* allowed_readers
    fields,   \* the fields to log
    accepted, \* the connection start_server() has in hand, or Nobody
    peer,     \* each peer: "idle", "open", or how its side ended: "closed", "short"
              \* (closed in the middle of a message), "reset" or "lost"
    written,  \* history: the messages each peer has written
    wire,     \* its units written and not yet received
    socket,   \* our end of its connection: "none", "open" or "closed"
    thread,   \* its thread: "none", "recv", "log", "finally" or "ended"
    stream,   \* the unparsed units in its StreamBuffer
    result,   \* the messages of the current chunk that are still to be logged
    log       \* the lines logged about it

config == <<allowed, fields>>
theirs == <<peer, written, wire>>
ours   == <<socket, thread, stream, result, log>>
vars   == <<main, config, accepted, theirs, ours>>

Nobody == "nobody"

ASSUME NobodyAssumption == Nobody \notin Peers

Message(p, w) ==
    [from |-> p, kind |-> w.kind, reader |-> w.reader, no |-> Len(written[p]) + 1]

Units(message) == <<[of |-> message, half |-> 1], [of |-> message, half |-> 2]>>

Alive == main # "exited"

Init ==
    /\ main = "parse" /\ allowed = Byte /\ fields = <<>> /\ accepted = Nobody
    /\ peer = [p \in Peers |-> "idle"]
    /\ written = [p \in Peers |-> <<>>] /\ wire = [p \in Peers |-> <<>>]
    /\ socket = [p \in Peers |-> "none"] /\ thread = [p \in Peers |-> "none"]
    /\ stream = [p \in Peers |-> <<>>] /\ result = [p \in Peers |-> {}]
    /\ log = [p \in Peers |-> <<>>]
-----------------------------------------------------------------------------
(* The peers.  What they do once the process has gone is left out.         *)

\* A peer can connect, and write, before accept() returns its connection.
PeerConnects(p) ==
    /\ peer[p] = "idle" /\ main \in {"accept", "start"}
    /\ peer' = [peer EXCEPT ![p] = "open"]
    /\ UNCHANGED <<main, config, accepted, written, wire, ours>>

PeerWrites(p, w) ==
    /\ Alive /\ peer[p] = "open" /\ Len(written[p]) < MaxWritten[p]
    /\ written' = [written EXCEPT ![p] = Append(@, Message(p, w))]
    /\ wire' = [wire EXCEPT ![p] = @ \o Units(Message(p, w))]
    /\ UNCHANGED <<main, config, accepted, peer, ours>>

PeerCloses(p) ==
    /\ Alive /\ peer[p] = "open"
    /\ peer' = [peer EXCEPT ![p] = "closed"]
    /\ UNCHANGED <<main, config, accepted, written, wire, ours>>

\* It closes in the middle of a message.
PeerStopsShort(p, w) ==
    /\ Alive /\ peer[p] = "open" /\ Len(written[p]) < MaxWritten[p]
    /\ wire' = [wire EXCEPT ![p] = Append(@, Units(Message(p, w))[1])]
    /\ peer' = [peer EXCEPT ![p] = "short"]
    /\ UNCHANGED <<main, config, accepted, written, ours>>

\* It resets the connection, or the network gives it up (no ConnectionResetError
\* but another OSError); what was not yet received is lost either way.
PeerBreaks(p) ==
    /\ Alive /\ peer[p] = "open"
    /\ \E how \in {"reset", "lost"} : peer' = [peer EXCEPT ![p] = how]
    /\ wire' = [wire EXCEPT ![p] = <<>>]
    /\ UNCHANGED <<main, config, accepted, written, ours>>
-----------------------------------------------------------------------------
(* main() and start_server() in the main thread.                           *)

Names(args) == SelectSeq(args.fields, LAMBDA name : name # "")

NamesIn(names) == {names[i] : i \in 1 .. Len(names)}

\* Fault for FieldsKnown: any name will do.
FieldsKnown_Always(args) == TRUE

FieldsKnown(args) == NamesIn(Names(args)) \subseteq AVAILABLE_FIELDS

Ports == 1 .. 65535

Accepts(args) ==
    /\ args.port \in Ports
    /\ args.readers \subseteq Byte
    /\ FieldsKnown(args)

\* parser.error() exits; bind() and listen() may raise an OSError.
Main(args) ==
    /\ main = "parse"
    /\ \/ /\ Accepts(args)
          /\ main' \in {"accept", "failed"}
          /\ allowed' = args.readers
          /\ fields' = Names(args)
       \/ /\ ~Accepts(args)
          /\ main' = "exited"
          /\ UNCHANGED config
    /\ UNCHANGED <<accepted, theirs, ours>>

Accept(p) ==
    /\ main = "accept"
    /\ peer[p] # "idle" /\ socket[p] = "none"
    /\ socket' = [socket EXCEPT ![p] = "open"]
    /\ accepted' = p /\ main' = "start"
    /\ UNCHANGED <<config, theirs, thread, stream, result, log>>

\* Fault for StartThread: handle_client() is called in the main thread, which
\* accepts again when it has returned.
StartThread_Calls ==
    /\ main = "start"
    /\ \/ /\ thread[accepted] = "none"
          /\ thread' = [thread EXCEPT ![accepted] = "recv"]
          /\ UNCHANGED <<main, accepted>>
       \/ /\ thread[accepted] = "ended"
          /\ main' = "accept" /\ accepted' = Nobody
          /\ UNCHANGED thread
    /\ UNCHANGED <<config, theirs, socket, stream, result, log>>

StartThread ==
    /\ main = "start"
    /\ thread' = [thread EXCEPT ![accepted] = "recv"]
    /\ main' = "accept" /\ accepted' = Nobody
    /\ UNCHANGED <<config, theirs, socket, stream, result, log>>

\* Fault for DropAccepted: the connection in hand outlives the accept loop.
DropAccepted_KeepsIt == UNCHANGED <<accepted, socket>>

\* start_server() returns or raises.  It does not close the socket in hand: that
\* goes with its last reference, the frame of start_server() or, of an exception,
\* the traceback, which the end of the process lets go.
DropAccepted ==
    /\ accepted' = Nobody
    /\ socket' = [p \in Peers |-> IF p = accepted THEN "closed" ELSE socket[p]]

\* accept() or Thread.start() raises, the process being out of descriptors or
\* threads: neither OSError nor RuntimeError is caught in start_server().
ServingFails ==
    /\ main \in {"accept", "start"}
    /\ main' = "failed" /\ DropAccepted
    /\ UNCHANGED <<config, theirs, thread, stream, result, log>>

\* Ctrl-C reaches the main thread in accept() or with a connection in hand.
Interrupt ==
    /\ main \in {"accept", "start"}
    /\ main' = "stopped" /\ DropAccepted
    /\ UNCHANGED <<config, theirs, thread, stream, result, log>>

\* The interpreter exits and kills the daemon threads wherever they are.
Exit ==
    /\ main \in {"stopped", "failed"}
    /\ main' = "exited"
    /\ UNCHANGED <<config, accepted, theirs, ours>>
-----------------------------------------------------------------------------
(* handle_client() in the thread of peer p.                                *)

Nothing == [from |-> Nobody, kind |-> "garbled", reader |-> 0, no |-> 0]

WholeMessages(units) ==
    {IF units[2 * i - 1].of = units[2 * i].of THEN units[2 * i].of ELSE Nothing :
       i \in 1 .. Len(units) \div 2}

Remainder(units) == SubSeq(units, 2 * (Len(units) \div 2) + 1, Len(units))

Line(as, message) == [as |-> as, of |-> message]

\* What a message is logged as, depending on the list that feed() puts it in.
LoggedAs(message) ==
    IF message.kind = "frame" /\ message.reader \in allowed THEN "report"
    ELSE IF message.kind = "heartbeat" THEN "heartbeat"
    ELSE "error"

Rank == [report |-> 1, heartbeat |-> 2, error |-> 3]

\* The three loops over the result of one feed(): frames, heartbeats, errors, each
\* in the order in which they came.
Before(m, n) ==
    LET rank(message) == Rank[LoggedAs(message)]
    IN  rank(m) < rank(n) \/ (rank(m) = rank(n) /\ m.no < n.no)

IsNext(m, messages) == m \in messages /\ \A n \in messages \ {m} : Before(m, n)

\* Fault for Kept: one StreamBuffer for all connections.
Kept_Shared(p, units) == [q \in Peers |-> Remainder(units)]

Kept(p, units) == [stream EXCEPT ![p] = Remainder(units)]

Recv(p, n) ==
    LET units == stream[p] \o SubSeq(wire[p], 1, n)
    IN  /\ Alive /\ thread[p] = "recv" /\ n <= Len(wire[p])
        /\ wire' = [wire EXCEPT ![p] = SubSeq(@, n + 1, Len(@))]
        /\ stream' = Kept(p, units)
        /\ result' = [result EXCEPT ![p] = WholeMessages(units)]
        /\ thread' = [thread EXCEPT ![p] = "log"]
        /\ UNCHANGED <<main, config, accepted, peer, written, socket, log>>

\* A report is logged by the values of its fields; for a field without one the
\* KeyError ends the thread.  A line is a call of the logger: those of heartbeats
\* are at DEBUG, which main() shows with --debug.
LogLine(p) ==
    /\ Alive /\ thread[p] = "log"
    /\ \E m \in result[p] :
         /\ IsNext(m, result[p])
         /\ IF LoggedAs(m) = "report" /\ ~(NamesIn(fields) \subseteq AVAILABLE_FIELDS)
              THEN /\ thread' = [thread EXCEPT ![p] = "finally"]
                   /\ UNCHANGED <<result, log>>
              ELSE /\ log' = [log EXCEPT ![p] = Append(@, Line(LoggedAs(m), m))]
                   /\ result' = [result EXCEPT ![p] = @ \ {m}]
                   /\ UNCHANGED thread
    /\ UNCHANGED <<main, config, accepted, theirs, socket, stream>>

NextRecv(p) ==
    /\ Alive /\ thread[p] = "log" /\ result[p] = {}
    /\ thread' = [thread EXCEPT ![p] = "recv"]
    /\ UNCHANGED <<main, config, accepted, theirs, socket, stream, result, log>>

\* Fault for AfterLoop: another exception than ConnectionResetError skips what
\* follows the loop, because it does not stand in a finally.
AfterLoop_NotFinally(p) == IF peer[p] = "lost" THEN "ended" ELSE "finally"

AfterLoop(p) == "finally"

\* recv() returns no bytes or raises; either way the finally clause runs.
RecvEnds(p) ==
    /\ Alive /\ thread[p] = "recv" /\ wire[p] = <<>>
    /\ peer[p] \in {"closed", "short", "reset", "lost"}
    /\ thread' = [thread EXCEPT ![p] = AfterLoop(p)]
    /\ UNCHANGED <<main, config, accepted, theirs, socket, stream, result, log>>

PendingLine == Line("pending", Nothing)

ClosedLine == Line("closed", Nothing)

LastLines(p) ==
    IF stream[p] # <<>> THEN <<PendingLine, ClosedLine>> ELSE <<ClosedLine>>

Finally(p) ==
    /\ Alive /\ thread[p] = "finally"
    /\ socket' = [socket EXCEPT ![p] = "closed"]
    /\ log' = [log EXCEPT ![p] = @ \o LastLines(p)]
    /\ thread' = [thread EXCEPT ![p] = "ended"]
    /\ UNCHANGED <<main, config, accepted, theirs, stream, result>>
-----------------------------------------------------------------------------
PeerStep(p) ==
    \/ PeerConnects(p) \/ PeerCloses(p) \/ PeerBreaks(p)
    \/ \E w \in Writes[p] : PeerWrites(p, w) \/ PeerStopsShort(p, w)

MainStep ==
    \/ \E args \in CommandLines : Main(args)
    \/ \E p \in Peers : Accept(p)
    \/ StartThread

ThreadStep(p) ==
    \/ \E n \in 1 .. MaxChunk : Recv(p, n)
    \/ LogLine(p) \/ NextRecv(p) \/ RecvEnds(p) \/ Finally(p)

Next ==
    \/ MainStep \/ ServingFails \/ Interrupt \/ Exit
    \/ \E p \in Peers : PeerStep(p) \/ ThreadStep(p)

Spec == Init /\ [][Next]_vars

\* The scheduler runs every thread; no peer has to do anything.
FairSpec == Spec /\ WF_vars(MainStep) /\ \A p \in Peers : WF_vars(ThreadStep(p))
-----------------------------------------------------------------------------
(* Properties.                                                             *)

Running == {p \in Peers : thread[p] \notin {"none", "ended"}}

InSeq(seq) == {seq[i] : i \in 1 .. Len(seq)}

TypeOK ==
    /\ main \in {"parse", "accept", "start", "stopped", "failed", "exited"}
    /\ allowed \subseteq Byte /\ NamesIn(fields) \subseteq AVAILABLE_FIELDS
    /\ main = "start" <=> accepted # Nobody
    /\ accepted \in Peers \cup {Nobody}
    /\ peer \in [Peers -> {"idle", "open", "closed", "short", "reset", "lost"}]
    /\ socket \in [Peers -> {"none", "open", "closed"}]
    /\ thread \in [Peers -> {"none", "recv", "log", "finally", "ended"}]
    /\ \A p \in Peers :
         /\ \A m \in InSeq(written[p]) : m.from = p /\ m.kind \in Kinds /\ m.reader \in Byte
         /\ \A unit \in InSeq(wire[p]) \cup InSeq(stream[p]) : unit.half \in {1, 2}
         /\ \A line \in InSeq(log[p]) :
              line.as \in {"report", "heartbeat", "error", "pending", "closed"}

\* No connection is leaked: as long as the process lives, an open socket is
\* in the hands of the main thread or of a thread that will close it, however
\* its peer ended the connection.
SocketsOwned ==
    Alive => \A p \in Peers : socket[p] = "open" => p = accepted \/ p \in Running

\* By the time the thread of an orderly connection has ended, every message
\* written on it has its line, and a message cut short shows as bytes pending.
NothingUnlogged ==
    \A p \in Peers : thread[p] = "ended" /\ peer[p] \in {"closed", "short"} =>
      /\ InSeq(written[p]) \subseteq {line.of : line \in InSeq(log[p])}
      /\ peer[p] = "short" <=> PendingLine \in InSeq(log[p])

\* The reports logged about a connection are the reports of its own peer from
\* the readers asked for, each once and in the order written, whatever the other
\* threads are doing.
ReportsOf(lines) == Select(lines, {line \in InSeq(lines) : line.as = "report"})

MessagesOf(lines) == [i \in 1 .. Len(lines) |-> lines[i].of]

WrittenReports(p) ==
    Select(written[p], {m \in InSeq(written[p]) : m.kind = "frame" /\ m.reader \in allowed})

ReportStream(p) ==
    INSTANCE MessageStream
      WITH Messages <- [from : {p}, kind : {"frame"}, reader : {w.reader : w \in Writes[p]},
                        no : 1 .. MaxWritten[p]],
           written  <- WrittenReports(p),
           handed   <- MessagesOf(ReportsOf(log[p]))

ReportsAreStreams ==
    /\ \A p \in Peers : ReportStream(p)!Init
    /\ [][\A p \in Peers : [ReportStream(p)!Next]_(ReportStream(p)!vars)]_<<written, log>>

\* A report is logged in the end, whatever the other peers do or omit, unless
\* its connection breaks or the server stops accepting.
EveryReportLogged ==
    \A p \in Peers : \A k \in 1 .. MaxWritten[p] :
      Len(WrittenReports(p)) >= k ~>
        \/ Len(ReportsOf(log[p])) >= k
        \/ peer[p] \in {"reset", "lost"}
        \/ main \in {"stopped", "failed", "exited"}
=============================================================================
