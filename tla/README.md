# Verification of uhfreader18

TLA+ models of the Python library `uhfreader18` (`src/src/uhfreader18/`), the
TLC runs that check them on small instances and TLAPS proofs, for every value of
the constants, about every component that keeps state.  `PROJECT.json` maps every
definition to the lines it models.
Paths below are relative to `src/src/uhfreader18/`.

## The system

A UHFReader18 RFID reader sits on a serial line behind an HW-VX TCP/IP module.
The library talks to both:

```
 caller ── RfidClient ──TCP──┐                        ┌── serial ── reader(s)
           StreamBuffer      ├── HW-VX module ────────┘
 log ───── server threads ───┘        │
           StreamBuffer each          │ UDP 65535
 caller ── HwVxDevice ── HwVxNetworking
```

| Component | State | Operations | Hard part | Correct means |
|---|---|---|---|---|
| `stream.py` StreamBuffer | bytes not yet parsed | `feed`, `reset` | TCP chunks end anywhere; `0x56` begins a heartbeat and is also a length; resynchronisation after garbage | every message once, whole, in order, not late; bounded memory; nothing depends on the chunks |
| `builder.py`, `frame.py`, `checksum.py` | none | build, validate, `crc16` | byte order, length limits | a frame is accepted exactly when it was built, and none that was damaged on its way |
| `client.py` RfidClient | socket, StreamBuffer, queue of responses | `connect`, `close`, one method per command | timeouts, late answers, pushed reports and heartbeats, several readers answering a broadcast, a peer that goes | a call returns the answer to that call, and ends; a new connection starts clean |
| `client.py`, `constants.py` settings | (in the reader) | eleven setters, two reports | split bit fields, limits, two decoders | what is set reads back, what is read back may be set |
| `server.py` | one thread, socket and StreamBuffer per connection | accept, receive, log, clean up | threads, exceptions other than the one caught, exit | nothing mixed, lost unseen or leaked |
| `hwvx/transport.py` HwVxNetworking | UDP socket with its queue of replies | `send`, `receive`, `request`, `request_single`, `search` | loss, delay, a retry answered twice | a value read belongs to the setting asked for |
| `hwvx/device.py` HwVxDevice | MAC address, one transport | `connect`, `get_config`, `save_config`, `change_network`, `set_dhcp`, `reboot` | unacknowledged writes, an address that changes under the conversation | written once and for all despite a loss; booted after writing |
| `hwvx/config.py` DeviceConfig | a record of 22 typed fields | `from_wire`, `to_wire`, `validate` | strings to types and back, values Python does not type-check | what is sent is understood; what is read is what the module holds; nothing fails or defaults in silence |

RfidClient and each server thread own their StreamBuffer; nothing else is
shared between threads.  RfidClient and HwVxDevice are used by one thread at a
time, their only concurrency is with the network and the device.

## The modules

| Module | Models | Needs |
|---|---|---|
| `Crc16` | `checksum.py` on 16-bit integers | |
| `Frames` | builders and `validate_frame` on sequences of bytes | `Crc16` |
| `MessageStream` | the abstract promise: what is written is handed over whole, once, in order, until the connection is dropped | |
| `Selection` | the elements of a sequence that are in a set, in their order | |
| `StreamBuffer` | `stream.py` between a peer, TCP and its caller | `Frames`, `Selection`, instance of `MessageStream` |
| `SelectionProofs` | what `Select` returns, and the induction that every proof about a recursive function uses | `Selection` |
| `StreamBufferProofs` | theorems about `StreamBuffer` and about the checksum of `Crc16` | `MCStreamBuffer`, for its captured frame |
| `RfidClientProofs`, `ReaderSettingsProofs`, `ServerProofs`, `DeviceConfigProofs`, `HwVxProofs` | theorems about the module each is named for | |
| `HwVxWriteProofs` | theorems about the methods of `HwVx` that write | `HwVxProofs` |
| `RfidClient` | `RfidClient` and the readers at the other end | |
| `ReaderSettings` | setters, packing, reports | |
| `Server` | `main`, `start_server` and `handle_client` | `Selection`, instance of `MessageStream` per connection |
| `HwVx` | `HwVxDevice` on `HwVxNetworking` and the modules on the LAN | `Selection` |
| `DeviceConfig` | the record between the module's strings and its user | |
| `MC*` | values for the constants of TLC's runs | |

**StreamBuffer** works on the real bytes.  Between two calls of `feed` the
program is `idle`; `Feed(n)` is the arrival of the next n bytes, and then each
turn of the `while` loop is an action named after its branch (`TakeHeartbeat`,
`DiscardByte`, `RejectFrame`, `RejectReader`, `AcceptFrame`) until `Return`.
`stream`, `sent`, `taken` and `garbled` are history.  `Garble` writes bytes that
are no message.  A message is what delimits itself (`SelfDelimiting`): a
heartbeat, any frame with a right length byte (the checksum and the address may
be wrong), a stray byte below 5.  One frame is excluded: the 87-byte frame whose
first six bytes are those of the heartbeat, which the code takes for one.

**RfidClient** takes from StreamBuffer that whole messages come out, so that a
message is a record in two halves, and a chunk still ends anywhere between
halves.  A call is `Send`, any number of `Receive`, and an end: `TakeResponse`,
`Timeout`, `ReceiveEnd`, or the error branches of `Receive`.  The
readers (external) carry out a command or not, and answer, refuse, garble
their answer, answer with too little data (a ValueError in `ReaderInfo.from_bytes`) or
stay silent.  What is known of a reader is its address and the
rate it speaks; it hears a command when that is the rate of the module's serial
side, and a new rate takes effect after the answer.  `ModuleRestarts` gives the
module another rate and ends the connection.  The serial line knows nothing of
connections: when one ends, by `Close`, by the peer or by a restart, the commands
already sent stay on their way (the last of them may be lost), are carried out in
their order, and their answers go to the connection that is open by then, which may be a
later one.  What the client has not received when a connection ends is
lost with it: TCP does not carry it over.  A command is dealt with, and no longer in `toReader`, when
its answer has gone out as a whole.  `clean` is history: when the connection was made no command of an earlier one
was still to be dealt with, no earlier call on it ended in a TimeoutError or ConnectionError, nothing was pushed unasked, no two readers answered one broadcast.

**ReaderSettings** leaves the connection out: a setter either rejects its
arguments, sending nothing, or the reader stores its bytes.  Enum members are
names, flags are integers, frequencies are in kHz.

**Server** has the main thread (`Main` for the command line, `Accept`,
`StartThread`, `ServingFails`, `Interrupt`, `Exit`) and per peer a thread whose pc
is `recv`, `log`, `finally` or `ended`.  A peer ends by closing, closing in the
middle of a message, a reset or another network error.  A field without a value is a
KeyError in `LogLine`, as in the code; that `main` lets no such field through is
part of what the run shows.  Daemon threads stop in any state when the process exits.  A logged line is a call of the
logger: heartbeats are logged at DEBUG, so their lines are shown only with `--debug`.  When a
thread cannot be started, nothing in `start_server` closes the accepted socket: it goes
with its last reference (`DropAccepted`), which CPython's counting sees to.

**HwVx** turns each method into the script of the transport calls it makes and
runs it step by step against modules that do what `docs/hwvx_module/HWVX.md`
says (external): X is echoed, W selects, L logs in, G and S need a login, E
reboots and forgets both.  The caller makes one device after another (`New`,
`Close`), each for the old address, the new one or the broadcast, with the MAC
address or without, and calls any method on it, on a closed one too.  A datagram
sent by unicast reaches the target only where the target listens.  Replies queue
in the socket of the device; `request` takes whatever is first.  Datagrams are
lost or delayed, the replies of several modules to one broadcast come in any
order and each may be lost, and foreign ones come, with text or with bytes that
are not ASCII; commands arrive in the order they were sent, and one is answered
twice only when it was sent twice.  A `Sleep` after a reboot command waits for nothing but its fixed time: the datagrams may
still be on their way when it ends, and the module may still reboot.  The second socket is only
drained; a datagram there that is not ASCII raises as one at the main socket does.
`standing`, `astray` and `hasty` are history: whether
`connect` has returned or a call has raised on this device, whether a call
that writes was cut short or sent its second pass elsewhere, and whether a sleep of
the latest call was over too early.

**DeviceConfig** has the strings of the module and the record of a caller.  A
string is what it looks like (a numeral, an address, a word ...) and what it says, a
Python value its type and its content, so that `_parse`, `_dump` and `isinstance`
are what they are in the code, `bool` as an `int` included.  Meanwhile something else may put a
string in the module (`Quirk`).

## What the runs show

All runs must end without error unless marked *violation*.

| Run | Question | Instance |
|---|---|---|
| `StreamClean` | are messages handed over whole, once, in order, in the right list, in the end? Is damage found? Is it the abstract stream? | seven messages (good and foreign frames, two damaged ones, a frame for reader 0x56 carrying 0x56, a stray byte, a heartbeat), up to three on a connection, chunks of 1, 2, 3, 5, 6, 7 and 12 bytes, resets |
| `StreamNoise` | is the buffer the unparsed part, and do the cuts depend on the bytes alone, with noise? | two messages and two pieces of noise: half a frame, half a heartbeat, lengths too large and too small |
| `StreamLong` | the 87-byte frame with length byte 0x56, the 256-byte frame, the most that is held | chunks of 6, 81 and 256 bytes |
| `ClientSafety` | whose answer does a call return, what outlives a connection, what is left over, does every call end? | one reader, two addresses and the broadcast, two calls, two connections (a command of the first may be answered on the second), one pushed message |
| `ClientBroadcast` | whose answer does a call return, and does what it reports hold, with two readers on the line and rates that change? | two interchangeable readers, two rates, one connection |
| `ClientReadme` *violation* | is the response a call waits for the matching one, as the README says? | two calls of one method |
| `Server` | is everything logged, however the connection ends; do threads stay apart; are sockets closed; does a silent peer block another? | five command lines, one of them good; one peer with two reports, one with a message of any kind |
| `Settings` | does a setting read back as set, whatever else is set? | two setters, arguments on both sides of every limit |
| `HwVx` | is what `get_config` returns of one module and in its place, does a save survive a loss and the change of address, is the module rebooted after every write, is everybody whom a search reached either listed or left unread, does every call end? | two modules, three settings, any two calls on one or two devices, one datagram lost or foreign, the address changing at once |
| `HwVxStaleTarget` *violation* | does `set_dhcp` do what it says, in the place the README puts it? | connect, `change_network`, `set_dhcp`, nothing lost, the code's own 5 and 3 retries |
| `Config` | does what was saved read back, is what is refused named, is what is read faithful, is what nobody touched kept? | a field of every kind, values and strings on both sides of every rule, two changes by caller or others |
| `ConfigBool` *violation* | does a value of the wrong type fail in `validate`, as its comment says? | two fields, a bool |

`StreamClean` includes the frame captured from a real reader (docs and tests
quote it) and the same with two neighbouring bits inverted: a checksum that builder
and parser merely agree on would pass everything else.  A third copy has three bits
inverted far from each other, the other kind of damage that `DamageDetected` speaks of:
no two frames that `feed` accepts differ within 16 bits in a row, or in an odd
number of bits.

`ClientReadme`: the first call times out, its answer arrives, the second call of
the same command returns it.  The client never resets the connection on a
timeout, so from there on each call returns the answer to the one before.  The
remedy that the model supports is to close after an exception, to wait until the readers
have nothing more to do of what was sent, and only then to connect again:
`NothingOutlivesConnection` holds of what the client keeps, and `AnswerIsOwn` and
`QuietBetweenCalls` start anew.  To close and connect again at once is not enough, because the
late answer may come on the new connection.

`HwVxStaleTarget`: the transport's target is fixed when the device is made.
`change_network` moves the module, and `set_dhcp` after it, as in the README's
quick start, sends L, S and E to where the module was, waits for no answer and
returns.  `RebootedAfterWriting` and `SavedDespiteOneLoss` say what does hold.

`SavedDespiteOneLoss` excepts a sleep that was too short (`hasty`): a second pass that comes
while the module still reboots is not heard, and then nothing makes up for what the first
one has lost.  The half second is the code's choice, and no document says how long a module
takes.  `RebootedAfterWriting` needs no such exception.

`SearchListsAll` does not say that a search finds every module.  A datagram
without an A ends the search, as `test_stops_on_non_a_reply` (`src/tests/test_hwvx_transport.py`)
wants it, and the replies behind it stay in the socket; the docstring of
`_collect_search_results` and `docs/hwvx_module/HWVX.md` ("collect all") promise more for that case.

`ConfigBool`: `isinstance(True, int)` holds, so `cfg.port_number = True` passes
`validate`, and `_dump` writes "True", which is no numeral to `from_wire`.  The
other properties of `DeviceConfig` except fields that hold a bool.

### Bounds

Every bound is a CONSTANT: `MaxSent`, `MaxNoise` (messages and noise per
connection), `MaxCalls`, `MaxConnections`, `MaxUnsolicited`, `MaxWritten`,
`MaxChanges`, `MaxDevices`, `MaxOps`, `MaxFaults`, and the sizes `MaxChunk` and
`ChunkSizes`.

- Three messages allow one that is complete, one that is cut and one behind it;
  the chunk sizes meet every boundary of a 6-byte heartbeat and 6- and 7-byte frames.
  The proofs remove the bound.
- A client mix-up needs one call that leaves something behind and one that finds
  it; a second connection shows what close() clears.
- Two peers are enough for two threads to disturb one another, since each thread
  touches only the state of its own connection.
- Two setters show any interference of one setting with another.
- In `HwVx` one lost datagram is what two passes can make up for; with two, the
  same setting can be lost in both.  Two calls are one that leaves something behind
  and one that finds it, on the same device or on the next.  2 retries in place of 5 and 3, and 2
  results in place of 255, keep the run small: the retries differ only in how often a reply may
  come twice, and with two modules the limit of a search is met.
- `ClientBroadcast` receives at most two units at a time, which is one whole message or two
  halves; `ClientSafety` receives more.
- In `Config` two changes are one by the caller and one by something else, or two in
  fields that interfere; the conversions of one field do not depend on another.

### Fairness

- `StreamBuffer`: `feed` is called with what has arrived, and its loop runs on
  (it is a function without waits).
- `RfidClient`: a call under way runs on.  Its `recv` has the timeout given to
  `create_connection`, so the step is enabled also when nothing comes.
- `Server`: the scheduler runs the main thread and each thread that can go on.
  No peer has to do anything, and accepting may stop for good (Ctrl-C, an error).
- `HwVx`: the caller's thread runs on (`receive` has a timeout of one second, a sleep has
  an end).  Nothing is asked of the network or of the modules.

Deadlock is checked in the stream, client and `Config` runs.  The server stops on
Ctrl-C, and in the settings and HW-VX runs the caller stops after its last call.

## What is proved

Each theorem holds for every value of the constants that satisfies the ASSUMEs of
the module, which TLC evaluates in every run.

| Module | Theorem | Says |
|---|---|---|
| `StreamBufferProofs` | `BufferTypes` | `TypeOK` |
| | `BufferWindow` | `TypeOK` and `BufferIsUnparsedPart` |
| | `ChunksDoNotMatter` | `ChunkIndependence` |
| | `HeldBytes` | `HeldBytesBounded` |
| | `MessagesReassembled` | `Reassembly` |
| | `NoMessageHeldBack` | `NothingHeldBack` |
| | `VerdictsAreRight` | `RightVerdict` |
| | `DamageIsDetected` | `DamageDetected` |
| | `CapturedFrameIsAccepted` | `CapturedFrameAccepted`, if 0 is in `AllowedReaders` |
| | `BufferImplementsStream` | with `Noise = {}`, `Spec => ImplementsMessageStream` |
| `RfidClientProofs` | `ClientTypes` | `TypeOK` |
| | `ConnectionsAreSeparate` | `NothingOutlivesConnection` |
| | `LittleIsHeld` | `OneChunkHeld` |
| | `AnswersAreOwn` | `AnswerIsOwn` |
| | `QuietWhenIdle` | `QuietBetweenCalls` |
| | `WhatIsReportedHolds` | `AddressIsCurrent` |
| `ReaderSettingsProofs` | `SettingsFitTheirBytes` | `TypeOK` |
| | `SettingsReadBack` | `ReadsBackAsSet` |
| | `ReportsAreAccepted` | `ReadBackIsAccepted` |
| | `RegionHasChannels` | `RegionIsInterval` |
| `ServerProofs` | `NoSocketLeaks` | `SocketsOwned` |
| | `ServerTypes` | `TypeOK` |
| | `ServerLogsAll` | `NothingUnlogged` |
| | `ReportsInOrder` | `Spec => ReportsAreStreams`, the refinement of `MessageStream` |
| `DeviceConfigProofs` | `WhatIsSavedReadsBack` | `SavedReadsBack` |
| | `RejectionsAreComplete` | `BadFieldsNamed` |
| | `NothingDefaultsInSilence` | `ReadsAreFaithful` |
| | `SaveLeavesTheRestAlone` | `UntouchedKept` |
| `HwVxProofs` | `TypeCorrect` | `TypeOK` |
| | `ReadsCorrect` | `ReadsAreOwn` |
| | `SearchesListAll` | `SearchListsAll` |
| `HwVxWriteProofs` | `Rebooted` | `RebootedAfterWriting` |
| | `StoredDespiteOneLoss` | `SavedDespiteOneLoss` |

### Recursion

The induction theorems of the library take an operator, which no installed prover
can instantiate.  `SetInduction` is the same principle about a *set* of numbers
(it follows from the least element), and `Iterate` makes of it that a recursive
function exists and is what its definition says.  On these two rest the lemmas on
`Select` (`SelectAppend`, `SelectSame`, `SelectPlaces`: the selection is the
elements of the set at ascending places) and those on `crc16` (`RegistersType`:
after every byte the register is a 16-bit word).

### The stream buffer

The argument has four layers, each an inductive invariant relative to the one
before it.

1. `InvWindow` (types, and buffer = stream from `Consumed` to `rcv`).  Lemma
   `TurnCutsPiece` then says that a turn of the loop, whichever branch, cuts
   exactly `PieceLength` bytes as read off the buffer, and `PieceIsLocal` and
   `PieceStable` that these are the `PieceLength` bytes as read off the whole stream
   and stay so when the stream grows.  This is the heart: the decision needs no byte
   that has not arrived.  It is where the wait for six bytes after 0x56 is used.
2. `InvTiles`: the pieces taken tile the stream from its start.
3. `InvIdle`: between calls the loop is waiting, which bounds what is held.
4. `InvSent` and `InvBoundary`: the messages tile the stream too, and every piece
   taken so far is the message of the same number.  `Reassembly` alone is not
   inductive: that the next piece is the next message needs that both tilings have
   come to the same offset.

The refinement maps `written` and `handed` to the bytes of `sent` and `taken`;
`StepRefines` takes each action to `Write`, `HandOver`, `Drop` or a stutter.

`RightVerdict` is about what a piece is taken for.  A checksum is a word, so that
its two bytes in little-endian order are bytes and give it back, and a frame is
accepted by `validate_frame` exactly when it is what the builder makes of its
fields (`BuiltFrame`, `Verdict`).  `InvVerdict` says so of everything
taken, and that the frames in the result are the last ones taken as such
(`LastFrames`): without it nothing relates the frames `feed` returns to the pieces
cut in earlier turns.

### The checksum

`DamageDetected` is about frames of any length, and what the polynomial is decides
it.  The code computes on numbers, the argument is one about vectors of 16 bits,
and there are four steps between them.

1. Every word is the `Number` of a vector, exclusive-or is the sum of the vectors
   modulo 2 (`XorIsXorBits`), and `ShiftBit` shifts the vector and adds the polynomial
   when a set bit has left it (`ShiftBitIsShifted`).
2. To add a byte and to shift eight times is to feed the eight bits of the byte one
   by one, the lowest first (`Fed`, `AddByteFeeds`).  So `crc16` is the last of
   a sequence of registers, one for each bit (`Run`, `RunIsCrc`), and a frame with its own
   checksum behind it, low byte first, ends with the register at zero
   (`FrameLeavesZero`): here the order of the two bytes is used.
3. Feeding is linear (`FedLinear`).  The registers of two frames therefore differ by
   what feeding the differing bits alone into a register of zero gives, and for two
   accepted frames this difference is zero at both ends (`FramesDiffer`).
4. Neither kind of damage allows that.  The first differing bit sets the top bit of the
   difference, and a set bit moves down one place with each bit that is fed: for the
   next 15 bits it is above the lowest place, where alone another differing bit could
   cancel it, and a set bit that leaves at the bottom by itself brings the top bit
   of the polynomial in (`BurstLeavesDifference`).  And the polynomial with
   its leading term has an even number of terms, so that the parity of the register is
   the parity of the bits fed (`FedParity`, `OddLeavesDifference`).

`DamageIsDetected` then follows from `VerdictsAreRight`, by which what is accepted is a
built frame.  `CapturedFrameIsAccepted` is a computation: sixteen bytes, eight shifts
each, every register on the way named (`CapturedRegisters`); that the damaged
copy is rejected is an instance of the lemma about bursts (`DamageShows`).  Its assumption is
that the owner of the buffer lets in reader 0, which sent the frame; no other
restriction is put on the messages, the noise or the chunks.

### The client

`InvType` carries the types together with what the two connection properties
say: every message that the client holds is of the present connection, and there
is none when it is closed.  On it rest two invariants.

- `InvAnswer`: while `clean` holds, there is in all of the reader, the wire, the
  stream and the queue at most one answer, it answers the call under way, and
  between calls there is none.  A new connection has it because `clean` begins with
  no command of an earlier one outstanding.  `AnswerIsOwn` alone says nothing of where the answer
  was before it was returned; the invariant follows it from the command on.
- `InvEffect`: what a call has reported to hold (an address, a rate) some reader
  has, and no command still on its way can change it.

### The reader's settings

Every setter accepts exactly what fits its bytes (`InvSettings`, which
makes `TypeOK` inductive), each report decodes to the settings it was made of (`InfoDecoded`,
`WorkDecoded`), each decoder inverts its encoder on what the setter accepts
(`RegionReadsBack` and the like: the split of the band over two bytes, the masks),
and no setter touches the bytes of another (`SendStores`, `SendKeeps`).
`FactoryAssumption` asks that the reader comes with settings the setters could have made.

### The server

`SocketsOwned` needs to know who holds a socket at every moment of the hand-over
from the accept loop to the thread: `InvHands` says that a connection the main
thread holds has no thread yet, `InvOwned` that every other open socket has a
thread that has not passed its `finally`.

`NothingUnlogged` speaks of the end only.  `InvMessages` follows the messages there:
`FlowOf` says that up to some `k` they are logged or in the result of the present
`feed`, and that the units of all later ones are queued (`Queued`) in the StreamBuffer
and the network, one after the other, with at most half a message behind them.
`StageOf` says what each stage of a thread means: a result is left only while
it logs, and from `finally` on the network holds nothing more.  Lemma `RecvCuts`
does the arithmetic of a `recv` that cuts anywhere.  That no field raises a KeyError
is part of `InvTypes`, which `main` establishes before it serves.

`ReportsAreStreams` holds also where `NothingUnlogged` says nothing, on a
connection that breaks, and is about order: `feed` returns reports in three lists
and the thread logs from a set.  `InvOrder` has two cursors, c and k with c <= k, on
what the peer wrote: the log has the reports among the first c messages, those of
the messages from c + 1 to k are in the result still, later ones have not
been cut.  `NumbersOf` (messages are numbered as written) makes the next report logged
the first one after c (`NextReport`), which is the next of the abstract stream.  `StartOf`
is needed since `main` decides which reports are wanted: no connection exists before.

### The configuration record

One lemma per kind of field says that dumping and parsing return the value when
`validate` lets it through, and that parsing says what the string says.  `InvRead`
then relates the record to the strings it was read from, field by field.  The rest is
case analysis on the actions.

### The HW-VX module

`Typed` carries the types of everything under way: steps of a script, datagrams,
replies.  `Scripted` adds what the rest of a script can be: some suffix of the script
of its method (`Fitting`), with each SET followed by a reboot command (`Shaped`).

- `Reading`, for `ReadsAreOwn`, consists of parts that rest on one another.  `Follows` says how far the
  script of a call is: `get_config` has still to ask for the settings it has no value
  of.  `Lined` is about the two queues together: while setting g is asked for, what
  tells g comes last among the replies and the requests, and before it only what tells g - 1
  (`InLine`); while no `get_config` is under way, nothing that tells the first setting
  is there or will come (`Fresh`).  That no other reply passes for one to the first request
  is in the tables: lemma `Asked`, from `Rows`, says that the GET checks differ from one
  another and that the first one is no SET check, although others are.  `Origin` says
  from which device a datagram on its way is, and `OnTarget` that on the device that
  broadcasts the module connected to is the only one selected, or a W that selects it
  arrives before any request for a setting.  `ReadSoFar` and `ReadAll` are then about values: the replies
  that tell g carry what is stored, and when the call is over no SET is on its way that
  would change it.
- `Found`, for `SearchListsAll`.  `InSearch` counts the X's sent and those that have arrived;
  `Accounted` says of the results and the unread replies together that they name
  the modules reached by the X's that have arrived, each once.  Two X's reach no module
  twice: the target listens at one of two addresses (`SentToType`).  `Untouched` is needed
  for the start: before the first call all modules run, at their old address.
- `Rebooting`, for `RebootedAfterWriting`.  `Lossless` stands for its hypotheses.
  Under it a SET command that is on its way is followed, on the way or in the script,
  by a reboot command which the same module hears (`SetsFollowed`), and so is the
  effect of one that has arrived (`RebootAhead`).  No sleep is assumed to be long enough.  The hard case is the address
  that changes with a SET: what follows by unicast is then not heard, and
  the reboot command meant is that of the second pass, by broadcast, which
  needs its own W to be heard: it is in the script still (`Second`, `Rescue`), or, since the
  second pass may start before the first has arrived, on its way already (`Rescued`).
- `Saving` and `Saved`, for `SavedDespiteOneLoss`.  `Layout` gives the 2n + 8 steps of the
  two passes, and `PassAt` what each of them sends.  `InPass(a, b)` says that the datagrams of
  the steps after a up to b are on their way, in order, and that what came before
  has had its effect (`Progress`: running, logged in, selected, stored).  In the first pass it holds
  while nothing is lost, in the second one if something was.  Both are about calls that are not `hasty`:
  then the first pass is through, and the module runs, before the second starts.  `AddressLast` is why the
  first pass reaches its end although the address may change: the address comes last
  in `_SET_ORDER`.

### Only model-checked

- Liveness, and the fairness under it, everywhere: out of the prover's reach.

## Not modelled

- Log wording and set-up, the texts of argument errors, display names, re-exports,
  `hex_readable`: formatting.
- The fields of a `SearchResult` other than the MAC address, with their tolerant
  parsing (`_port_or_zero`): nothing later depends on them.
- Bits of ModeState and WiegandFormat that have no name, for which no behaviour of
  the reader is documented.
- Reordered and duplicated datagrams: between two hosts of one LAN segment, which the
  broadcasts need, they are not to be expected.
- Two callers that configure one module at the same time; two threads that share one
  RfidClient, which it does not support.
- How likely damage of an even number of bits, spread over more than 16, is to pass
  the checksum: about one in 65536, which is a probability and no property.

## Plan

Done: every component that keeps state is modelled, every invariant that a run
checks is proved, and so is each refinement.  What is left is liveness,
which TLC checks and the prover cannot state.
