-------------------------------- MODULE HwVx --------------------------------
(***************************************************************************)
(* Configuring an HW-VX module over UDP: HwVxDevice (hwvx/device.py) on    *)
(* top of HwVxNetworking (hwvx/transport.py), whose searches the caller    *)
(* also uses directly.                                                     *)
(*                                                                         *)
(* A method is a script, the sequence of its calls of the transport, run   *)
(* one step at a time against a network that loses datagrams and delivers  *)
(* as late as it likes, and against modules that do what the protocol      *)
(* document says (external).  A setting is "old" or "new", the address of  *)
(* the module being one of them: a device is made with the one or the      *)
(* other, sends to it for as long as it is open, and has a socket of its   *)
(* own.                                                                    *)
(***************************************************************************)
EXTENDS Integers, Sequences, FiniteSets, SequencesExt, Selection

CONSTANTS Modules,      \* the MAC addresses of the modules on the LAN
          Target,       \* the one at the addresses "old" and "new"
          Fields,       \* the settings of the instance, of those in _SETTINGS
          Methods,      \* the methods the caller uses
          Devices,      \* the arguments HwVxDevice is made with
          AtOnce,       \* a new address takes effect before the reboot
          Retries, ConnectRetries,       \* 5 and 3 in the code
          MaxResults,   \* 255 in the code
          StrayKinds,   \* what else arrives: "text" without an A, "binary"
          MaxDevices, MaxOps, MaxFaults  \* bounds: devices made, calls, and
                                         \* datagrams lost and stray

NoMac == "no mac"

\* The address a device sends to, or "all" with broadcast=True, and its MAC.
AllDevices == [target : {"old", "new", "all"}, mac : Modules \cup {NoMac}]

\* Name, GET check and SET check of each setting, in the order of _SETTINGS.
\* set_dhcp() has its own check and nothing sets the MAC address.
AllSettings == <<
    <<"username", "01", "12">>, <<"device_name", "02", "13">>, <<"mac_address", "03", "">>,
    <<"ip_address", "04", "25">>, <<"port_number", "05", "15">>, <<"protocol", "06", "14">>,
    <<"work_mode", "07", "16">>, <<"connection_mode", "08", "1D">>,
    <<"connection_timeout", "09", "1E">>, <<"rts", "0A", "17">>, <<"dtr_mode", "0B", "18">>,
    <<"baud_rate", "0C", "19">>, <<"parity", "0D", "1A">>, <<"data_bits", "0E", "1B">>,
    <<"reconnect", "0F", "1C">>, <<"max_length", "10", "1F">>, <<"max_delay", "11", "20">>,
    <<"remote_ip", "12", "21">>, <<"remote_port", "13", "22">>, <<"gateway_ip", "14", "23">>,
    <<"subnet_mask", "15", "24">>, <<"dhcp", "16", "28">> >>

AllSetOrder == <<
    "username", "device_name", "protocol", "port_number", "work_mode", "rts", "dtr_mode",
    "baud_rate", "parity", "data_bits", "reconnect", "connection_mode",
    "connection_timeout", "max_length", "max_delay", "remote_ip", "remote_port",
    "gateway_ip", "subnet_mask", "ip_address" >>

AllMethods == {"search", "search_targets", "connect", "get_config", "save_config",
               "change_network", "set_dhcp", "reboot"}

ASSUME ConstantsAssumption ==
    /\ IsFiniteSet(Modules) /\ Target \in Modules /\ NoMac \notin Modules
    /\ Fields \subseteq {row[1] : row \in ToSet(AllSettings)}
    /\ "username" \in Fields /\ Fields # {"username"}
    /\ Methods \subseteq AllMethods
    /\ Devices \subseteq AllDevices /\ AtOnce \in BOOLEAN
    /\ {Retries, ConnectRetries, MaxResults} \subseteq Nat \ {0}
    /\ StrayKinds \subseteq {"text", "binary"}
    /\ {MaxDevices, MaxOps, MaxFaults} \subseteq Nat

Settings == Select(AllSettings, {row \in ToSet(AllSettings) : row[1] \in Fields})

\* Fault for SetOrder: the address is set first.
SetOrder_AddressFirst == Select(<<"ip_address">> \o Front(AllSetOrder), Fields)

SetOrder == Select(AllSetOrder, Fields)

Row(field) == CHOOSE row \in ToSet(AllSettings) : row[1] = field

GetCheck(field) == Row(field)[2]

SetCheck(field) == Row(field)[3]

VARIABLES
    device,     \* the HwVxDevice in use: its target and self.mac
    isOpen,     \* its socket is open
    op,         \* the method call under way, or "none"
    script,     \* what it has still to do
    via,        \* the socket it sends by: "main", or "fallback" for the second pass
    waiting,    \* it is in receive()
    attempts,   \* how often request() has sent its command
    found,      \* the MAC addresses of _collect_search_results()
    got,        \* the values get_config() has read, in the order asked for
    outcome,    \* how the latest call ended
    inbox,      \* replies that have arrived at the main socket and were not read
    toModules,  \* datagrams on their way to the modules
    settings,   \* what each module has stored
    address,    \* the address the target listens at
    up, selected, loggedIn,  \* the modules that run, are selected, are logged in to
    dirty,      \* the target has been written to since it last booted
    devices, ops, lost, strays,  \* history: devices made, calls, datagrams lost, strays
    standing,   \* history: "new", "connected" once connect() has returned on this
                \* device, "raised" when one of its calls has raised
    astray,     \* history: a call that writes has raised, or sent its second pass
                \* to another module than the one it is for
    aimed,      \* history: the latest call found its target running, with nothing under way
    hasty       \* history: a sleep of the latest call was over before all it had sent had
                \* arrived and the target was running again

own     == <<device, isOpen>>
control == <<op, script, via, waiting, attempts, hasty>>
results == <<found, got>>
ended   == <<outcome, standing, astray>>
host    == <<own, control, results, ended>>
modules == <<settings, address, up, selected, loggedIn, dirty>>
calls   == <<devices, ops, aimed>>
faults  == <<lost, strays>>
vars    == <<host, inbox, toModules, modules, calls, faults>>

NoOutcome == [op |-> "none", kind |-> "none"]

Init ==
    /\ device = [target |-> "all", mac |-> NoMac] /\ isOpen = FALSE
    /\ op = "none" /\ script = <<>> /\ via = "main" /\ waiting = FALSE /\ attempts = 0
    /\ found = <<>> /\ got = <<>> /\ outcome = NoOutcome
    /\ inbox = <<>> /\ toModules = <<>>
    /\ settings = [m \in Modules |-> [f \in Fields |-> "old"]]
    /\ address = "old" /\ up = Modules /\ selected = {} /\ loggedIn = {} /\ dirty = FALSE
    /\ devices = 0 /\ ops = 0 /\ lost = 0 /\ strays = 0 /\ standing = "new"
    /\ astray = FALSE /\ aimed = FALSE /\ hasty = FALSE
-----------------------------------------------------------------------------
(* The life of a device.                                                   *)

\* HwVxDevice(): a socket of its own, which no reply to an earlier one reaches.
New(d) ==
    /\ op = "none" /\ ~isOpen /\ devices < MaxDevices
    /\ device' = d /\ isOpen' = TRUE /\ devices' = devices + 1
    /\ inbox' = <<>> /\ found' = <<>> /\ got' = <<>>
    /\ outcome' = NoOutcome /\ standing' = "new"
    /\ UNCHANGED <<control, astray, toModules, modules, ops, aimed, faults>>

Close ==
    /\ op = "none" /\ isOpen
    /\ isOpen' = FALSE
    /\ UNCHANGED <<device, control, results, ended, inbox, toModules, modules, calls, faults>>
-----------------------------------------------------------------------------
(* The methods as scripts.                                                 *)

Cmd(c) == [c |-> c, field |-> "", value |-> ""]

Get(field) == [c |-> "G", field |-> field, value |-> ""]

Set(field) == [c |-> "S", field |-> field, value |-> "new"]

Step(do, cmd, retries, to) == [do |-> do, cmd |-> cmd, retries |-> retries, to |-> to]

Send(cmd) == Step("send", cmd, 0, "target")

\* sendto() with an address of the caller's.
SendTo(cmd, to) == Step("send", cmd, 0, to)

Request(cmd, retries) == Step("request", cmd, retries, "target")

Do(do) == Step(do, Cmd(""), 0, "")

Sends(order) == [i \in 1 .. Len(order) |-> Send(Set(order[i]))]

Chosen(order) == Select(order, Fields)

search == <<Send(Cmd("X")), Do("collect")>>

search_targets == <<SendTo(Cmd("X"), "old"), SendTo(Cmd("X"), "new"), Do("collect")>>

connect ==
    (IF device.mac = NoMac THEN search ELSE <<>>)
      \o <<Request(Cmd("W"), ConnectRetries), Request(Cmd("L"), ConnectRetries)>>

get_config == [i \in 1 .. Len(Settings) |-> Request(Get(Settings[i][1]), Retries)]

send_config_pass == <<Send(Cmd("L"))>> \o Sends(SetOrder) \o <<Send(Cmd("E")), Do("sleep")>>

\* Fault for SecondPass: nothing makes up for a loss.
SecondPass_None(pass) == <<>>

\* The broadcast pass, unless the first one was a broadcast.
SecondPass(pass) ==
    IF device.target = "all" THEN <<>> ELSE <<Do("fallback")>> \o pass

save_config == send_config_pass \o SecondPass(<<Send(Cmd("W"))>> \o send_config_pass)

push_network(opener) ==
    <<Send(Cmd(opener)), Send(Cmd("L")), Do("drain")>>
      \o Sends(Chosen(<<"gateway_ip", "subnet_mask", "ip_address">>))
      \o <<Do("drain"), Send(Cmd("E")), Do("sleep")>>

change_network == push_network("X") \o SecondPass(push_network("W"))

set_dhcp == <<Send(Cmd("L"))>> \o Sends(Chosen(<<"dhcp">>)) \o <<Send(Cmd("E"))>>

reboot == <<Send(Cmd("E"))>>

Script(method) ==
    CASE method = "search"         -> search
      [] method = "search_targets" -> search_targets
      [] method = "connect"        -> connect
      [] method = "get_config"     -> get_config
      [] method = "save_config"    -> save_config
      [] method = "change_network" -> change_network
      [] method = "set_dhcp"       -> set_dhcp
      [] method = "reboot"         -> reboot

Call(method) ==
    /\ op = "none" /\ isOpen /\ ops < MaxOps
    /\ op' = method /\ script' = Script(method) /\ ops' = ops + 1
    /\ found' = <<>> /\ got' = <<>>
    /\ aimed' = (toModules = <<>> /\ up = Modules /\ device.target = address)
    /\ hasty' = FALSE
    /\ UNCHANGED <<own, via, waiting, attempts, ended, inbox, toModules, modules, devices,
                   faults>>

\* Every method starts with a datagram, which a closed socket refuses.
CallClosed(method) ==
    /\ op = "none" /\ ~isOpen /\ ops < MaxOps
    /\ outcome' = [op |-> method, kind |-> "OSError"] /\ ops' = ops + 1
    /\ UNCHANGED <<own, control, results, standing, astray, inbox, toModules, modules, devices,
                   aimed, faults>>

Writers == {"save_config", "change_network", "set_dhcp"}

\* A call whose second pass does not select the module its first one is sent to.
Elsewhere ==
    /\ op \in {"save_config", "change_network"}
    /\ device.target # "all" /\ device.mac # Target

Finish(kind) ==
    /\ outcome' = [op |-> op, kind |-> kind]
    /\ standing' = IF kind # "returned" THEN "raised"
                   ELSE IF op = "connect" /\ standing = "new" THEN "connected"
                   ELSE standing
    /\ astray' = (astray \/ (op \in Writers /\ kind # "returned") \/ Elsewhere)
    /\ op' = "none" /\ script' = <<>> /\ via' = "main"
    /\ waiting' = FALSE /\ attempts' = 0 /\ UNCHANGED hasty

Advance ==
    /\ script' = Tail(script) /\ waiting' = FALSE /\ attempts' = 0
    /\ hasty' = (hasty \/ (Head(script).do = "sleep" /\ (toModules # <<>> \/ Target \notin up)))
    /\ UNCHANGED <<op, via, ended>>

AtStep(do) == op # "none" /\ script # <<>> /\ Head(script).do = do

Return ==
    /\ op # "none" /\ script = <<>>
    /\ Finish("returned")
    /\ UNCHANGED <<own, results, inbox, toModules, modules, calls, faults>>
-----------------------------------------------------------------------------
(* The transport.                                                          *)

Datagram ==
    [cmd |-> Head(script).cmd, mac |-> device.mac,
     from |-> IF via = "main" THEN devices ELSE 0,
     to |-> IF via = "fallback" THEN "all"
            ELSE IF Head(script).to = "target" THEN device.target ELSE Head(script).to]

DoSend ==
    /\ AtStep("send")
    /\ toModules' = Append(toModules, Datagram)
    /\ Advance
    /\ UNCHANGED <<own, results, inbox, modules, calls, faults>>

\* Fault for Tries: one send more than retries says.
Tries_OffByOne == Head(script).retries + 1

Tries == Head(script).retries

\* Fault for Counted: the loop does not count.
Counted_Not == attempts

Counted == attempts + 1

\* The loop of request(): send, or give up.
RequestSends ==
    /\ AtStep("request") /\ ~waiting
    /\ IF attempts < Tries
         THEN /\ toModules' = Append(toModules, Datagram)
              /\ waiting' = TRUE /\ attempts' = Counted
              /\ UNCHANGED <<op, script, via, hasty, ended>>
         ELSE Finish("TimeoutError") /\ UNCHANGED toModules
    /\ UNCHANGED <<own, results, inbox, modules, calls, faults>>

NoReply ==
    /\ AtStep("request") /\ waiting /\ inbox = <<>>
    /\ waiting' = FALSE
    /\ UNCHANGED <<own, op, script, via, attempts, hasty, results, ended, inbox, toModules,
                   modules, calls, faults>>

\* Fault for Fits: request_single() looks at the value only.
Fits_AnyCheck(cmd, reply) == reply.kind = "value"

\* The check of request_single(); for request() any A-reply will do.
Fits(cmd, reply) == cmd.c = "G" => reply.kind = "value" /\ reply.check = GetCheck(cmd.field)

\* A reply is the next datagram in the socket, whatever it answers.  One that
\* does not start with A is skipped; one that is not ASCII raises a
\* UnicodeDecodeError, which is a ValueError.
Reply ==
    LET reply == Head(inbox)
        cmd   == Head(script).cmd
    IN  /\ AtStep("request") /\ waiting /\ inbox # <<>>
        /\ inbox' = Tail(inbox)
        /\ IF reply.kind = "text"
             THEN waiting' = FALSE
                  /\ UNCHANGED <<op, script, via, attempts, hasty, ended, got>>
           ELSE IF reply.kind = "binary" \/ ~Fits(cmd, reply)
             THEN Finish("ValueError") /\ UNCHANGED got
           ELSE /\ Advance
                /\ got' = IF cmd.c = "G" THEN Append(got, [of |-> reply.of, value |-> reply.value])
                          ELSE got
        /\ UNCHANGED <<own, found, toModules, modules, calls, faults>>

\* Fault for Listed: a result replaces the one before it.
Listed_Last(mac) == <<mac>>

Listed(mac) == Append(found, mac)

IsReply(reply) == reply.kind \notin {"text", "binary"}

\* _collect_search_results() takes every A-reply for a module, also one that
\* names none.
Collect ==
    /\ AtStep("collect") /\ Len(found) < MaxResults
    /\ inbox # <<>> /\ IsReply(Head(inbox))
    /\ found' = Listed(IF Head(inbox).kind = "echo" THEN Head(inbox).value ELSE NoMac)
    /\ inbox' = Tail(inbox)
    /\ UNCHANGED <<own, control, got, ended, toModules, modules, calls, faults>>

\* A timeout, a datagram without A or the 255th result ends it; connect() takes
\* the first module.
CollectEnds ==
    /\ AtStep("collect")
    /\ \/ /\ Len(found) = MaxResults \/ inbox = <<>>
          /\ UNCHANGED inbox
       \/ /\ Len(found) < MaxResults
          /\ inbox # <<>> /\ ~IsReply(Head(inbox))
          /\ inbox' = Tail(inbox)
    /\ IF inbox' # inbox /\ Head(inbox).kind = "binary"
         THEN Finish("ValueError") /\ UNCHANGED device
       ELSE IF op # "connect"
         THEN Advance /\ UNCHANGED device
       ELSE IF found = <<>>
         THEN Finish("ConnectionError") /\ UNCHANGED device
         ELSE Advance /\ device' = [device EXCEPT !.mac = found[1]]
    /\ UNCHANGED <<isOpen, results, toModules, modules, calls, faults>>

\* receive() with its result ignored.  What arrives at the second socket is only
\* ever read this way, so nothing is kept of it but a datagram that is not ASCII.
Drain ==
    /\ AtStep("drain")
    /\ \/ /\ via = "main" /\ inbox # <<>>
          /\ inbox' = Tail(inbox)
          /\ IF Head(inbox).kind = "binary" THEN Finish("ValueError") ELSE Advance
       \/ /\ via = "main" => inbox = <<>>
          /\ Advance /\ UNCHANGED inbox
       \/ /\ via = "fallback" /\ "binary" \in StrayKinds
          /\ Finish("ValueError") /\ UNCHANGED inbox
    /\ UNCHANGED <<own, results, toModules, modules, calls, faults>>

\* The sleep after a reboot command has a fixed length, whether or not that is
\* long enough for the module to have received everything and to run again.
Sleep ==
    /\ AtStep("sleep")
    /\ Advance
    /\ UNCHANGED <<own, results, inbox, toModules, modules, calls, faults>>

Fallback ==
    /\ AtStep("fallback")
    /\ via' = "fallback" /\ script' = Tail(script)
    /\ UNCHANGED <<own, op, waiting, attempts, hasty, results, ended, inbox, toModules, modules,
                   calls, faults>>
-----------------------------------------------------------------------------
(* The network and the modules (external).                                 *)

Hearers(d) == {m \in up : d.to = "all" \/ (m = Target /\ address = d.to)}

\* Whom a command other than X and W is for: the module it is sent to, or the
\* one that was selected.
Concerned(d) == {m \in Hearers(d) : d.to # "all" \/ m \in selected}

Echo(m) == [kind |-> "echo", value |-> m, check |-> ""]

Ack == [kind |-> "ack", value |-> "", check |-> ""]

\* As history the reply to G and S carries what it is about.
Value(m, field, v, check) ==
    [kind |-> "value", value |-> v, check |-> check, of |-> <<m, field>>]

\* Replies, one of each module in their domain, reach the socket they answer, if
\* it is still there, in any order; each may be lost.
Answer(d, replies) ==
    IF d.from # devices THEN UNCHANGED <<inbox, lost>>
    ELSE \E through \in SUBSET DOMAIN replies : \E order \in SetToSeqs(through) :
           /\ inbox' = inbox \o [i \in 1 .. Len(order) |-> replies[order[i]]]
           /\ lost' = lost + Cardinality(DOMAIN replies \ through)
           /\ lost' + strays <= MaxFaults

Arrives(c) == toModules # <<>> /\ Head(toModules).cmd.c = c

Handled ==
    /\ toModules' = Tail(toModules)
    /\ UNCHANGED <<host, calls, strays>>

EchoArrives ==
    /\ Arrives("X") /\ Handled
    /\ Answer(Head(toModules), [m \in Hearers(Head(toModules)) |-> Echo(m)])
    /\ UNCHANGED modules

SelectArrives ==
    LET d == Head(toModules)
    IN  /\ Arrives("W") /\ Handled
        /\ selected' = (selected \ Hearers(d)) \cup (Hearers(d) \cap {d.mac})
        /\ Answer(d, [m \in Hearers(d) \cap {d.mac} |-> Ack])
        /\ UNCHANGED <<settings, address, up, loggedIn, dirty>>

LoginArrives ==
    LET d == Head(toModules)
    IN  /\ Arrives("L") /\ Handled
        /\ loggedIn' = loggedIn \cup Concerned(d)
        /\ Answer(d, [m \in Concerned(d) |-> Ack])
        /\ UNCHANGED <<settings, address, up, selected, dirty>>

Obeys(d) == Concerned(d) \cap loggedIn

Values(d, check, stored) ==
    [m \in Obeys(d) |-> Value(m, d.cmd.field, stored[m][d.cmd.field], check)]

GetArrives ==
    LET d == Head(toModules)
    IN  /\ Arrives("G") /\ Handled
        /\ Answer(d, Values(d, GetCheck(d.cmd.field), settings))
        /\ UNCHANGED modules

SetArrives ==
    LET d == Head(toModules)
    IN  /\ Arrives("S") /\ Handled
        /\ settings' = [m \in Modules |->
                          IF m \in Obeys(d) THEN [settings[m] EXCEPT ![d.cmd.field] = d.cmd.value]
                          ELSE settings[m]]
        /\ address' = IF AtOnce /\ d.cmd.field = "ip_address" /\ Target \in Obeys(d)
                        THEN d.cmd.value ELSE address
        /\ dirty' = (dirty \/ Target \in Obeys(d))
        /\ Answer(d, Values(d, SetCheck(d.cmd.field), settings'))
        /\ UNCHANGED <<up, selected, loggedIn>>

RebootArrives ==
    LET d == Head(toModules)
    IN  /\ Arrives("E") /\ Handled
        /\ up' = up \ Concerned(d)
        /\ selected' = selected \ Concerned(d) /\ loggedIn' = loggedIn \ Concerned(d)
        /\ UNCHANGED <<settings, address, dirty, inbox, lost>>

Boots(m) ==
    /\ m \notin up
    /\ up' = up \cup {m}
    /\ dirty' = (dirty /\ m # Target)
    /\ address' = IF m = Target /\ "ip_address" \in Fields THEN settings[m].ip_address
                  ELSE address
    /\ UNCHANGED <<host, inbox, toModules, settings, selected, loggedIn, calls, faults>>

Lose ==
    /\ toModules # <<>> /\ lost + strays < MaxFaults
    /\ toModules' = Tail(toModules) /\ lost' = lost + 1
    /\ UNCHANGED <<host, inbox, modules, calls, strays>>

\* Something else on the LAN sends a datagram to our port, while or before
\* receive() waits there.
Stray(kind) ==
    /\ waiting \/ AtStep("collect") \/ AtStep("drain")
    /\ lost + strays < MaxFaults
    /\ strays' = strays + 1
    /\ inbox' = Append(inbox, [kind |-> kind, value |-> "", check |-> ""])
    /\ UNCHANGED <<host, toModules, modules, calls, lost>>
-----------------------------------------------------------------------------
HostStep ==
    \/ Return \/ DoSend \/ RequestSends \/ NoReply \/ Reply
    \/ Collect \/ CollectEnds \/ Drain \/ Sleep \/ Fallback

Delivery ==
    \/ EchoArrives \/ SelectArrives \/ LoginArrives \/ GetArrives
    \/ SetArrives \/ RebootArrives

Next ==
    \/ \E d \in Devices : New(d)
    \/ Close
    \/ \E method \in Methods : Call(method) \/ CallClosed(method)
    \/ HostStep
    \/ Delivery
    \/ \E m \in Modules : Boots(m)
    \/ Lose
    \/ \E kind \in StrayKinds : Stray(kind)

Spec == Init /\ [][Next]_vars

\* The caller's thread runs on: every receive() has a timeout and every sleep an
\* end.  No datagram has to arrive and no module to come back.
FairSpec == Spec /\ WF_vars(HostStep)
-----------------------------------------------------------------------------
(* Properties.                                                             *)

TypeOK ==
    /\ device \in AllDevices /\ isOpen \in BOOLEAN
    /\ op \in Methods \cup {"none"} /\ (op = "none" => script = <<>> /\ ~waiting)
    /\ via \in {"main", "fallback"} /\ waiting \in BOOLEAN
    /\ attempts \in 0 .. Max({Retries, ConnectRetries})
    /\ Len(found) <= MaxResults
    /\ outcome.kind \in {"none", "returned", "TimeoutError", "ValueError", "ConnectionError",
                         "OSError"}
    /\ settings \in [Modules -> [Fields -> {"old", "new"}]] /\ address \in {"old", "new"}
    /\ up \subseteq Modules /\ selected \subseteq Modules /\ loggedIn \subseteq Modules
    /\ lost + strays \in 0 .. MaxFaults /\ ops \in 0 .. MaxOps /\ devices \in 0 .. MaxDevices

Returned(method) == op = "none" /\ outcome = [op |-> method, kind |-> "returned"]

\* Nothing is under way any more: what was sent has arrived or is lost.
Quiet == op = "none" /\ toModules = <<>> /\ up = Modules

\* A configuration that get_config() returns has every setting in its place and
\* is that of the module, late, lost and duplicate replies or not, and whatever
\* was written before: replies to the SET commands wait in the same socket, some
\* with the check of a GET.  By broadcast the module is the one connect() took,
\* unless its W is lost while an earlier device's is still selected.  Not so on a
\* device one of whose calls has raised: what that call left unread may be read
\* now.
ReadsAreOwn ==
    /\ Quiet /\ Returned("get_config") /\ standing # "raised"
    /\ device.target = "all" => standing = "connected" /\ (devices = 1 \/ lost = 0)
    =>
    /\ Len(got) = Len(Settings)
    /\ \A i \in 1 .. Len(got) :
         LET field == Settings[i][1]
             m     == IF device.target = "all" THEN device.mac ELSE Target
         IN  got[i] = [of |-> <<m, field>>, value |-> settings[m][field]]

\* A save_config() in its two passes, unicast and broadcast, stores every
\* setting although one datagram may be lost, and although the module may take
\* its new address before the first pass is over, if at its start the module is
\* where the device looks for it, and if its sleeps of half a second are long
\* enough: when one is over, everything has arrived and the module runs again.
\* (A second pass that comes while the module still reboots is not heard.)
SavedDespiteOneLoss ==
    Quiet /\ Returned("save_config") /\ aimed /\ ~hasty /\ device.mac = Target /\ lost <= 1 =>
      \A i \in 1 .. Len(SetOrder) : settings[Target][SetOrder[i]] = "new"

\* When nothing is lost the module never runs on with settings written after its
\* last reboot, whatever was called on whichever device, unless a datagram that
\* is not ASCII made a call that writes stop half-way, or the device has not been
\* told the MAC address of the module at its address, so that its second pass
\* cannot reach it at a new one.
RebootedAfterWriting == Quiet /\ lost = 0 /\ ~astray => ~dirty

\* What a first search returns are the modules it reached, each once; those that
\* it did not wait for, or that came after something else, are in the socket,
\* where the next request takes them for its reply.
SearchListsAll ==
    Quiet /\ isOpen /\ ops = 1 /\ lost = 0
          /\ (Returned("search") \/ Returned("search_targets")) =>
      LET left == {i \in 1 .. Len(inbox) : IsReply(inbox[i])}
      IN  /\ IsInjective(found)
          /\ \A i, j \in left : inbox[i].value = inbox[j].value => i = j
          /\ \A i \in left : inbox[i].value \notin ToSet(found)
          /\ ToSet(found) \cup {inbox[i].value : i \in left} =
               IF outcome.op = "search_targets" THEN {Target}
               ELSE IF device.target = "all" THEN Modules
               ELSE IF device.target = address THEN {Target} ELSE {}

\* Every call ends: time and again none is under way.
EveryCallReturns == []<>(op = "none")

\* What set_dhcp() says of itself, and the quick start of the README relies on
\* after a change_network(): it enables DHCP and reboots the module.
DhcpTakesEffect ==
    Quiet /\ Returned("set_dhcp") /\ lost = 0 => settings[Target].dhcp = "new"
=============================================================================
