----------------------------- MODULE HwVxProofs -----------------------------
(***************************************************************************)
(* What is proved of the HW-VX configuration, for every set of modules,    *)
(* settings and devices, and every number of calls and lost datagrams: its *)
(* types, what get_config() returns and what a first search lists.         *)
(***************************************************************************)
EXTENDS HwVx, SelectionProofs, FiniteSetTheorems

(* The tables and the scripts.                                             *)

Commands ==
    [c : {"", "X", "W", "L", "E"}, field : {""}, value : {""}]
      \cup [c : {"G"}, field : Fields, value : {""}]
      \cup [c : {"S"}, field : Fields, value : {"new"}]

Steps ==
    [do : {"send"}, cmd : Commands, retries : {0}, to : {"target", "old", "new"}]
      \cup [do : {"request"}, cmd : {cmd \in Commands : cmd.c # "S"},
            retries : {Retries, ConnectRetries}, to : {"target"}]
      \cup [do : {"collect", "drain", "sleep", "fallback"}, cmd : Commands, retries : {0},
            to : {""}]

LEMMA CommandTypes ==
    /\ \A c \in {"", "X", "W", "L", "E"} : Cmd(c) \in Commands
    /\ \A field \in Fields : Get(field) \in Commands /\ Set(field) \in Commands
  BY DEF Commands, Cmd, Get, Set

LEMMA StepTypes ==
    /\ \A cmd \in Commands :
         /\ Send(cmd) \in Steps /\ SendTo(cmd, "old") \in Steps /\ SendTo(cmd, "new") \in Steps
         /\ cmd.c # "S" =>
              Request(cmd, Retries) \in Steps /\ Request(cmd, ConnectRetries) \in Steps
    /\ \A do \in {"collect", "drain", "sleep", "fallback"} : Do(do) \in Steps
  BY CommandTypes DEF Steps, Send, SendTo, Request, Do, Step

LEMMA StepFields ==
    ASSUME NEW step \in Steps
    PROVE  /\ step.cmd \in Commands /\ step.retries \in {0, Retries, ConnectRetries}
           /\ step.do \in {"send", "request"} => step.to \in {"target", "old", "new"}
  BY DEF Steps

LEMMA CommandFields ==
    ASSUME NEW cmd \in Commands
    PROVE  /\ cmd.c \in {"G", "S"} => cmd.field \in Fields
           /\ cmd.c = "S" => cmd.value = "new"
  BY DEF Commands

LEMMA TablesType ==
    /\ Len(AllSettings) = 22 /\ AllSettings \in Seq(ToSet(AllSettings))
    /\ Len(AllSetOrder) = 20 /\ AllSetOrder \in Seq(ToSet(AllSetOrder))
  <1>1. AllSettings = [i \in 1 .. 22 |-> AllSettings[i]] /\ Len(AllSettings) = 22
    BY DEF AllSettings
  <1>2. AllSetOrder = [i \in 1 .. 20 |-> AllSetOrder[i]] /\ Len(AllSetOrder) = 20
    BY DEF AllSetOrder
  <1> QED BY <1>1, <1>2 DEF ToSet

LEMMA SettingsType == Settings \in Seq(ToSet(AllSettings)) /\
                      \A i \in 1 .. Len(Settings) : Settings[i][1] \in Fields
  <1> DEFINE Rows == ToSet(AllSettings)
             Kept == {row \in Rows : row[1] \in Fields}
  <1>1. AllSettings \in Seq(Rows)
    BY TablesType
  <1> HIDE DEF Rows
  <1>2. Settings \in Seq(Rows \cap Kept)
    BY <1>1, SelectType DEF Settings, Rows
  <1>3. Settings \in Seq(Rows)
    BY <1>2
  <1>4. \A i \in 1 .. Len(Settings) : Settings[i] \in Kept
    BY <1>2
  <1> HIDE DEF Kept
  <1>5. \A row \in Kept : row[1] \in Fields
    BY DEF Kept
  <1> QED BY <1>3, <1>4, <1>5 DEF Rows

LEMMA ChosenType ==
    ASSUME NEW S, NEW order \in Seq(S)
    PROVE  Chosen(order) \in Seq(Fields)
  <1>1. Chosen(order) \in Seq(S \cap Fields)
    BY SelectType DEF Chosen
  <1> QED BY <1>1

LEMMA SetOrderType == SetOrder \in Seq(Fields)
  <1>2. SetOrder \in Seq(ToSet(AllSetOrder) \cap Fields)
    BY TablesType, SelectType DEF SetOrder
  <1> QED BY <1>2

\* What the scripts are made of, but for that of get_config().
Blocks(K) ==
    /\ \A c \in {"X", "W", "L", "E"} : Send(Cmd(c)) \in K /\ Request(Cmd(c), ConnectRetries) \in K
    /\ SendTo(Cmd("X"), "old") \in K /\ SendTo(Cmd("X"), "new") \in K
    /\ \A field \in Fields : Send(Set(field)) \in K
    /\ \A do \in {"collect", "drain", "sleep"} : Do(do) \in K

LEMMA SendsOf ==
    ASSUME NEW K, Blocks(K), NEW order \in Seq(Fields)
    PROVE  Sends(order) \in Seq(K)
  <1>1. ASSUME NEW i \in 1 .. Len(order) PROVE Send(Set(order[i])) \in K
    <2>1. order[i] \in Fields
      OBVIOUS
    <2> QED BY <2>1 DEF Blocks
  <1>2. Len(order) \in Nat
    OBVIOUS
  <1> QED BY <1>1, <1>2 DEF Sends

LEMMA ScriptOf ==
    ASSUME NEW K, Blocks(K), NEW method \in AllMethods \ {"get_config"},
           \/ Do("fallback") \in K
           \/ method \notin {"save_config", "change_network"} \/ device.target = "all"
    PROVE  Script(method) \in Seq(K)
  <1>0. /\ \A c \in {"X", "W", "L", "E"} :
              Send(Cmd(c)) \in K /\ Request(Cmd(c), ConnectRetries) \in K
        /\ SendTo(Cmd("X"), "old") \in K /\ SendTo(Cmd("X"), "new") \in K
        /\ \A do \in {"collect", "drain", "sleep"} : Do(do) \in K
    BY DEF Blocks
  <1>1. search \in Seq(K) /\ search_targets \in Seq(K) /\ reboot \in Seq(K)
    BY <1>0 DEF search, search_targets, reboot
  <1>2. connect \in Seq(K)
    BY <1>0, <1>1 DEF connect
  <1>3. ASSUME method \in {"save_config", "change_network"}, NEW pass \in Seq(K)
        PROVE  SecondPass(pass) \in Seq(K)
    BY <1>3 DEF SecondPass
  <1>4. method = "save_config" => save_config \in Seq(K)
    <2>1. Sends(SetOrder) \in Seq(K)
      BY SetOrderType, SendsOf
    <2> DEFINE second == <<Send(Cmd("W"))>> \o send_config_pass
    <2>2. send_config_pass \in Seq(K) /\ second \in Seq(K)
      BY <1>0, <2>1 DEF send_config_pass
    <2>3. save_config = send_config_pass \o SecondPass(second)
      BY DEF save_config
    <2> HIDE DEF second
    <2> QED BY <1>3, <2>2, <2>3
  <1>5. method = "change_network" => change_network \in Seq(K)
    <2> DEFINE order == Chosen(<<"gateway_ip", "subnet_mask", "ip_address">>)
    <2>1. order \in Seq(Fields)
      <3>1. <<"gateway_ip", "subnet_mask", "ip_address">>
              \in Seq({"gateway_ip", "subnet_mask", "ip_address"})
        OBVIOUS
      <3> QED BY <3>1, ChosenType
    <2>2. Sends(order) \in Seq(K)
      BY <2>1, SendsOf
    <2>3. \A c \in {"X", "W"} : push_network(c) \in Seq(K)
      BY <1>0, <2>2 DEF push_network
    <2> QED BY <1>3, <2>3 DEF change_network
  <1>6. set_dhcp \in Seq(K)
    <2>1. Chosen(<<"dhcp">>) \in Seq(Fields)
      <3>1. <<"dhcp">> \in Seq({"dhcp"})
        OBVIOUS
      <3> QED BY <3>1, ChosenType
    <2>2. Sends(Chosen(<<"dhcp">>)) \in Seq(K)
      BY <2>1, SendsOf
    <2> QED BY <1>0, <2>2 DEF set_dhcp
  <1> QED BY <1>1, <1>2, <1>4, <1>5, <1>6 DEF Script, AllMethods

\* Methods other than get_config() ask for no setting, and send nothing but an X to
\* any address but the target's.
Silent ==
    {step \in Steps : step.cmd.c # "G" /\ (step.to \in {"old", "new"} => step.cmd.c = "X")}

Straight == {step \in Silent : step.do # "fallback"}

LEMMA SilentBlocks == Blocks(Straight) /\ Do("fallback") \in Silent /\ Straight \subseteq Silent
  <1>1. \A c \in {"", "X", "W", "L", "E"} : Cmd(c) \in Commands /\ Cmd(c).c = c
    BY CommandTypes DEF Cmd
  <1>2. \A field \in Fields : Set(field) \in Commands /\ Set(field).c = "S"
    BY CommandTypes DEF Set
  <1>3. \A c \in {"X", "W", "L", "E"} :
          Send(Cmd(c)) \in Straight /\ Request(Cmd(c), ConnectRetries) \in Straight
    BY <1>1, StepTypes DEF Straight, Silent, Send, Request, Step
  <1>4. SendTo(Cmd("X"), "old") \in Straight /\ SendTo(Cmd("X"), "new") \in Straight
    BY <1>1, StepTypes DEF Straight, Silent, SendTo, Step
  <1>5. \A field \in Fields : Send(Set(field)) \in Straight
    BY <1>2, StepTypes DEF Straight, Silent, Send, Step
  <1>6. \A do \in {"collect", "drain", "sleep", "fallback"} :
          Do(do) \in Silent /\ Do(do).do = do
    BY <1>1, StepTypes DEF Silent, Do, Step
  <1> QED BY <1>3, <1>4, <1>5, <1>6 DEF Blocks, Straight

LEMMA ScriptSilent ==
    ASSUME NEW method \in AllMethods \ {"get_config"}
    PROVE  /\ Script(method) \in Seq(Silent)
           /\ method \notin {"save_config", "change_network"} \/ device.target = "all" =>
                Script(method) \in Seq(Straight)
  <1>1. Blocks(Silent)
    BY SilentBlocks DEF Blocks
  <1> QED BY <1>1, SilentBlocks, ScriptOf

LEMMA ScriptType ==
    ASSUME NEW method \in AllMethods
    PROVE  Script(method) \in Seq(Steps)
  <1>1. CASE method # "get_config"
    <2>1. Script(method) \in Seq(Silent) /\ Silent \subseteq Steps
      BY <1>1, ScriptSilent DEF Silent
    <2> QED BY <2>1
  <1>2. CASE method = "get_config"
    <2>1. \A i \in 1 .. Len(Settings) : Request(Get(Settings[i][1]), Retries) \in Steps
      <3>1. \A field : Get(field).c # "S"
        BY DEF Get
      <3> QED BY <3>1, SettingsType, CommandTypes, StepTypes
    <2>2. Len(Settings) \in Nat
      BY SettingsType
    <2>3. get_config \in Seq(Steps)
      BY <2>1, <2>2 DEF get_config
    <2> QED BY <1>2, <2>3 DEF Script
  <1> QED BY <1>1, <1>2
-----------------------------------------------------------------------------
(* The types of the state.                                                 *)

Datagrams ==
    [cmd : Commands, mac : Modules \cup {NoMac}, from : 0 .. MaxDevices,
     to : {"old", "new", "all"}]

Checks == {GetCheck(field) : field \in Fields} \cup {SetCheck(field) : field \in Fields}

ValueReplies ==
    [kind : {"value"}, value : {"old", "new"}, check : Checks, of : Modules \X Fields]

Arrivals ==
    [kind : {"echo"}, value : Modules, check : {""}]
      \cup [kind : {"ack", "text", "binary"}, value : {""}, check : {""}]
      \cup ValueReplies

Readings == [of : Modules \X Fields, value : {"old", "new"}]

Outcomes == {"none", "returned", "TimeoutError", "ValueError", "ConnectionError", "OSError"}

TypedOwn == device \in AllDevices /\ isOpen \in BOOLEAN

TypedControl ==
    /\ op \in Methods \cup {"none"} /\ (op = "none" => script = <<>> /\ ~waiting)
    /\ script \in Seq(Steps) /\ via \in {"main", "fallback"} /\ waiting \in BOOLEAN
    /\ attempts \in 0 .. Max({Retries, ConnectRetries})

TypedResults ==
    /\ found \in Seq(Modules \cup {NoMac}) /\ Len(found) <= MaxResults
    /\ got \in Seq(Readings)

TypedEnded ==
    /\ outcome.kind \in Outcomes
    /\ standing \in {"new", "connected", "raised"} /\ astray \in BOOLEAN

TypedNet ==
    /\ toModules \in Seq(Datagrams) /\ inbox \in Seq(Arrivals)
    /\ lost \in Nat /\ strays \in Nat /\ lost + strays <= MaxFaults

TypedModules ==
    /\ settings \in [Modules -> [Fields -> {"old", "new"}]] /\ address \in {"old", "new"}
    /\ up \subseteq Modules /\ selected \subseteq Modules /\ loggedIn \subseteq Modules
    /\ dirty \in BOOLEAN

TypedCalls == devices \in 0 .. MaxDevices /\ ops \in 0 .. MaxOps /\ aimed \in BOOLEAN

Typed ==
    /\ TypedOwn /\ TypedControl /\ TypedResults /\ TypedEnded
    /\ TypedNet /\ TypedModules /\ TypedCalls

LEMMA TypedIsTypeOK ==
    ASSUME Typed
    PROVE  TypeOK
  <1>1. lost + strays \in 0 .. MaxFaults
    BY ConstantsAssumption DEF Typed, TypedNet
  <1> QED BY <1>1 DEF Typed, TypedOwn, TypedControl, TypedResults, TypedEnded, TypedModules,
                      TypedCalls, TypeOK, Outcomes

LEMMA Arrived ==
    ASSUME NEW reply \in Arrivals
    PROVE  /\ reply.kind = "echo" => reply.value \in Modules
           /\ reply.kind = "value" => reply \in ValueReplies
           /\ reply.kind \in {"echo", "ack", "text", "binary", "value"}
  BY DEF Arrivals, ValueReplies

LEMMA Sent ==
    ASSUME Typed, script # <<>>, Head(script).do \in {"send", "request"}
    PROVE  /\ Datagram \in Datagrams /\ Head(script) \in Steps
           /\ Datagram.cmd = Head(script).cmd /\ Datagram.mac = device.mac
           /\ Datagram.from = IF via = "main" THEN devices ELSE 0
  <1>1. Head(script) \in Steps
    BY DEF Typed, TypedControl
  <1>2. /\ Head(script).cmd \in Commands
        /\ Head(script).to \in {"target", "old", "new"}
    BY <1>1, StepFields
  <1>3. /\ device.mac \in Modules \cup {NoMac} /\ device.target \in {"old", "new", "all"}
        /\ devices \in 0 .. MaxDevices /\ 0 \in 0 .. MaxDevices
    BY ConstantsAssumption DEF Typed, TypedOwn, TypedCalls, AllDevices
  <1> QED BY <1>1, <1>2, <1>3 DEF Datagram, Datagrams

\* What arrives of replies, each of one module: through says of which.
Through(d, replies, tail, order) ==
    /\ Len(tail) \in Nat /\ order \in [1 .. Len(tail) -> DOMAIN replies]
    /\ \A i, j \in 1 .. Len(tail) : i # j => order[i] # order[j]
    /\ \A i \in 1 .. Len(tail) : tail[i] = replies[order[i]]
    /\ d.from # devices => Len(tail) = 0
    /\ lost' = lost /\ d.from = devices =>
         \A m \in DOMAIN replies : \E i \in 1 .. Len(tail) : order[i] = m

LEMMA AnswerIs ==
    ASSUME Typed, UNCHANGED strays, NEW d, NEW replies, DOMAIN replies \subseteq Modules,
           \A m \in DOMAIN replies : replies[m] \in Arrivals, Answer(d, replies)
    PROVE  /\ lost' \in Nat /\ lost <= lost' /\ lost' + strays <= MaxFaults
           /\ \E tail \in Seq(Arrivals) :
                inbox' = inbox \o tail /\ \E order : Through(d, replies, tail, order)
  <1>0. lost \in Nat /\ strays \in Nat /\ lost + strays <= MaxFaults /\ MaxFaults \in Nat
        /\ inbox \in Seq(Arrivals)
    BY ConstantsAssumption DEF Typed, TypedNet
  <1>1. CASE d.from # devices
    <2>1. UNCHANGED <<inbox, lost>>
      BY <1>1 DEF Answer
    <2> DEFINE tail == <<>>
    <2>2. inbox \o tail = inbox /\ tail \in Seq(Arrivals) /\ Len(tail) = 0
      BY <1>0
    <2>3. Through(d, replies, tail, tail)
      BY <1>1, <2>2 DEF Through
    <2> HIDE DEF tail
    <2>4. inbox' = inbox \o tail /\ lost' = lost
      BY <2>1, <2>2
    <2>5. lost' \in Nat /\ lost <= lost' /\ lost' + strays <= MaxFaults
      BY <1>0, <2>4
    <2> QED BY <2>2, <2>3, <2>4, <2>5
  <1>2. CASE d.from = devices
    <2>1. PICK through \in SUBSET DOMAIN replies : \E order \in SetToSeqs(through) :
             /\ inbox' = inbox \o [i \in 1 .. Len(order) |-> replies[order[i]]]
             /\ lost' = lost + Cardinality(DOMAIN replies \ through)
             /\ lost' + strays <= MaxFaults
      BY <1>2 DEF Answer
    <2>2. PICK order \in SetToSeqs(through) :
             /\ inbox' = inbox \o [i \in 1 .. Len(order) |-> replies[order[i]]]
             /\ lost' = lost + Cardinality(DOMAIN replies \ through)
             /\ lost' + strays <= MaxFaults
      BY <2>1
    <2> DEFINE n == Cardinality(through)
               missed == DOMAIN replies \ through
               tail == [i \in 1 .. n |-> replies[order[i]]]
    <2>3. IsFiniteSet(through) /\ IsFiniteSet(missed)
      <3>1. IsFiniteSet(Modules) /\ through \subseteq Modules /\ missed \subseteq Modules
        BY ConstantsAssumption
      <3> QED BY <3>1, FS_Subset
    <2>4. n \in Nat /\ Cardinality(missed) \in Nat /\ (Cardinality(missed) = 0 => missed = {})
      BY <2>3, FS_CardinalityType, FS_EmptySet
    <2>5. /\ order \in [1 .. n -> through]
          /\ \A i, j \in 1 .. n : i # j => order[i] # order[j]
      BY DEF SetToSeqs, IsInjective
    <2>6. Len(order) = n
      BY <2>4, <2>5
    <2>7. \A m \in through : \E i \in 1 .. n : order[i] = m
      <3>1. order \in Injection(1 .. n, through)
        BY <2>5 DEF Injection, IsInjective
      <3>2. IsFiniteSet(1 .. n) /\ Cardinality(1 .. n) = n
        <4>1. 1 \in Int /\ n \in Int /\ (IF 1 > n THEN 0 ELSE n - 1 + 1) = n
          BY <2>4
        <4> HIDE DEF n
        <4> QED BY <4>1, FS_Interval
      <3>3. order \in Surjection(1 .. n, through)
        BY <2>3, <3>1, <3>2, FS_Injection
      <3> QED BY <3>3 DEF Surjection
    <2> HIDE DEF n, missed
    <2>8. tail \in Seq(Arrivals) /\ Len(tail) = n
      BY <2>4, <2>5
    <2>9. Through(d, replies, tail, order)
      <3>1. lost' = lost => missed = {}
        BY <1>0, <2>2, <2>4 DEF missed
      <3>2. missed = {} => through = DOMAIN replies
        BY DEF missed
      <3>3. \A i \in 1 .. n : tail[i] = replies[order[i]]
        OBVIOUS
      <3> HIDE DEF tail
      <3> QED BY <1>2, <2>4, <2>5, <2>7, <2>8, <3>1, <3>2, <3>3 DEF Through
    <2> HIDE DEF tail
    <2>10. inbox' = inbox \o tail
      BY <2>2, <2>6 DEF tail
    <2>11. lost' \in Nat /\ lost <= lost' /\ lost' + strays <= MaxFaults
      BY <1>0, <2>2, <2>4 DEF missed
    <2> QED BY <2>8, <2>9, <2>10, <2>11
  <1> QED BY <1>1, <1>2

LEMMA ChecksType ==
    ASSUME NEW field \in Fields
    PROVE  GetCheck(field) \in Checks /\ SetCheck(field) \in Checks
  BY DEF Checks

LEMMA MostTries ==
    /\ Max({Retries, ConnectRetries}) \in Nat
    /\ \A retries \in {0, Retries, ConnectRetries} : retries <= Max({Retries, ConnectRetries})
  <1>1. Retries \in Nat /\ ConnectRetries \in Nat
    BY ConstantsAssumption
  <1>2. \E x \in {Retries, ConnectRetries} : \A y \in {Retries, ConnectRetries} : x >= y
    BY <1>1
  <1>3. /\ Max({Retries, ConnectRetries}) \in {Retries, ConnectRetries}
        /\ \A y \in {Retries, ConnectRetries} : Max({Retries, ConnectRetries}) >= y
    BY <1>2 DEF Max
  <1> QED BY <1>1, <1>3

LEMMA TypedInit ==
    ASSUME Init
    PROVE  Typed
  <1>1. TypedOwn
    BY DEF Init, TypedOwn, AllDevices
  <1>2. TypedControl
    <2>1. attempts \in 0 .. Max({Retries, ConnectRetries})
      BY MostTries DEF Init
    <2>2. /\ op = "none" /\ script = <<>> /\ waiting = FALSE /\ via = "main"
          /\ <<>> \in Seq(Steps)
      BY DEF Init
    <2> QED BY <2>1, <2>2 DEF TypedControl
  <1>3. TypedResults
    <2>1. MaxResults \in Nat /\ Len(<<>>) = 0
      BY ConstantsAssumption
    <2> QED BY <2>1 DEF Init, TypedResults
  <1>4. TypedEnded
    BY DEF Init, TypedEnded, NoOutcome, Outcomes
  <1>5. TypedNet
    BY ConstantsAssumption DEF Init, TypedNet
  <1>6. TypedModules
    BY DEF Init, TypedModules
  <1>7. TypedCalls
    <2>1. MaxDevices \in Nat /\ MaxOps \in Nat
      BY ConstantsAssumption
    <2>2. devices = 0 /\ ops = 0 /\ aimed \in BOOLEAN
      BY DEF Init
    <2>3. devices \in 0 .. MaxDevices /\ ops \in 0 .. MaxOps
      BY <2>1, <2>2
    <2> QED BY <2>2, <2>3 DEF TypedCalls
  <1> QED BY <1>1, <1>2, <1>3, <1>4, <1>5, <1>6, <1>7 DEF Typed

\* What an action leaves alone keeps its type.
LEMMA TypedKept ==
    ASSUME Typed
    PROVE  /\ UNCHANGED own => TypedOwn'
           /\ UNCHANGED control => TypedControl'
           /\ UNCHANGED results => TypedResults'
           /\ UNCHANGED ended => TypedEnded'
           /\ UNCHANGED <<inbox, toModules, faults>> => TypedNet'
           /\ UNCHANGED modules => TypedModules'
           /\ UNCHANGED calls => TypedCalls'
           /\ UNCHANGED host => UNCHANGED <<own, control, results, ended>>
  <1>1. UNCHANGED own => TypedOwn'
    BY DEF Typed, TypedOwn, own
  <1>2. UNCHANGED control => TypedControl'
    BY DEF Typed, TypedControl, control
  <1>3. UNCHANGED results => TypedResults'
    BY DEF Typed, TypedResults, results
  <1>4. UNCHANGED ended => TypedEnded'
    BY DEF Typed, TypedEnded, ended
  <1>5. UNCHANGED <<inbox, toModules, faults>> => TypedNet'
    BY DEF Typed, TypedNet, faults
  <1>6. UNCHANGED modules => TypedModules'
    BY DEF Typed, TypedModules, modules
  <1>7. UNCHANGED calls => TypedCalls'
    BY DEF Typed, TypedCalls, calls
  <1>8. UNCHANGED host => UNCHANGED <<own, control, results, ended>>
    BY DEF host
  <1> QED BY <1>1, <1>2, <1>3, <1>4, <1>5, <1>6, <1>7, <1>8

LEMMA TypedFinish ==
    ASSUME Typed, NEW kind \in Outcomes, Finish(kind)
    PROVE  TypedControl' /\ TypedEnded'
  <1>1. TypedControl'
    <2>1. attempts' \in 0 .. Max({Retries, ConnectRetries})
      BY MostTries DEF Finish
    <2>2. /\ op' = "none" /\ script' = <<>> /\ waiting' = FALSE /\ via' = "main"
          /\ <<>> \in Seq(Steps)
      BY DEF Finish
    <2> QED BY <2>1, <2>2 DEF TypedControl
  <1>2. TypedEnded'
    BY DEF Finish, Typed, TypedEnded, Elsewhere
  <1> QED BY <1>1, <1>2

LEMMA TypedAdvance ==
    ASSUME Typed, script # <<>>, Advance
    PROVE  TypedControl' /\ TypedEnded'
  <1>1. TypedControl'
    <2>1. attempts' \in 0 .. Max({Retries, ConnectRetries})
      BY MostTries DEF Advance
    <2>2. Tail(script) \in Seq(Steps) /\ op # "none"
      BY DEF Typed, TypedControl
    <2> QED BY <2>1, <2>2 DEF Advance, Typed, TypedControl
  <1>2. TypedEnded'
    BY TypedKept DEF Advance
  <1> QED BY <1>1, <1>2

\* Answers of the modules.
LEMMA TypedAnswer ==
    ASSUME Typed, UNCHANGED strays, NEW d, NEW replies, DOMAIN replies \subseteq Modules,
           \A m \in DOMAIN replies : replies[m] \in Arrivals, Answer(d, replies),
           toModules' \in Seq(Datagrams)
    PROVE  TypedNet'
  <1>1. PICK tail \in Seq(Arrivals) : inbox' = inbox \o tail
    BY AnswerIs
  <1>2. inbox' \in Seq(Arrivals)
    BY <1>1 DEF Typed, TypedNet
  <1>3. lost' \in Nat /\ lost' + strays <= MaxFaults
    BY AnswerIs
  <1> QED BY <1>2, <1>3 DEF Typed, TypedNet

LEMMA TypedHandled ==
    ASSUME Typed, toModules # <<>>, Handled
    PROVE  /\ TypedOwn' /\ TypedControl' /\ TypedResults' /\ TypedEnded' /\ TypedCalls'
           /\ toModules' \in Seq(Datagrams) /\ Head(toModules) \in Datagrams
           /\ UNCHANGED strays
  BY TypedKept DEF Handled, Typed, TypedNet

LEMMA Audience ==
    ASSUME Typed, NEW d
    PROVE  /\ Hearers(d) \subseteq up /\ Concerned(d) \subseteq Hearers(d)
           /\ Obeys(d) \subseteq Concerned(d) /\ Hearers(d) \subseteq Modules
  BY DEF Hearers, Concerned, Obeys, Typed, TypedModules

LEMMA ReplyTypes ==
    /\ \A m \in Modules : Echo(m) \in Arrivals
    /\ Ack \in Arrivals
    /\ \A m \in Modules, field \in Fields, v \in {"old", "new"}, check \in Checks :
         Value(m, field, v, check) \in Arrivals
  <1>1. \A m \in Modules : Echo(m) \in Arrivals
    BY DEF Echo, Arrivals
  <1>2. Ack \in Arrivals
    BY DEF Ack, Arrivals
  <1>3. ASSUME NEW m \in Modules, NEW field \in Fields, NEW v \in {"old", "new"},
               NEW check \in Checks
        PROVE  Value(m, field, v, check) \in Arrivals
    BY DEF Value, ValueReplies, Arrivals
  <1> QED BY <1>1, <1>2, <1>3

LEMMA ValuesTypes ==
    ASSUME Typed, NEW d \in Datagrams, d.cmd.c \in {"G", "S"}, NEW check \in Checks,
           NEW stored \in [Modules -> [Fields -> {"old", "new"}]]
    PROVE  /\ DOMAIN Values(d, check, stored) \subseteq Modules
           /\ \A m \in DOMAIN Values(d, check, stored) : Values(d, check, stored)[m] \in Arrivals
  <1>1. d.cmd.field \in Fields
    BY CommandFields DEF Datagrams
  <1>2. Obeys(d) \subseteq Modules
    BY Audience
  <1>3. \A m \in Obeys(d) : Value(m, d.cmd.field, stored[m][d.cmd.field], check) \in Arrivals
    BY <1>1, <1>2, ReplyTypes
  <1> QED BY <1>2, <1>3 DEF Values

LEMMA TypedDelivery ==
    ASSUME Typed, Delivery
    PROVE  Typed'
  <1> DEFINE d == Head(toModules)
  <1>1. toModules # <<>> /\ Handled
    BY DEF Delivery, EchoArrives, SelectArrives, LoginArrives, GetArrives, SetArrives,
           RebootArrives, Arrives
  <1>2. /\ TypedOwn' /\ TypedControl' /\ TypedResults' /\ TypedEnded' /\ TypedCalls'
        /\ toModules' \in Seq(Datagrams) /\ d \in Datagrams /\ UNCHANGED strays
    BY <1>1, TypedHandled
  <1>3. Hearers(d) \subseteq Modules /\ Concerned(d) \subseteq Modules /\ Obeys(d) \subseteq Modules
    BY Audience
  <1>4. d.cmd \in Commands
    BY <1>2 DEF Datagrams
  <1> HIDE DEF d
  <1>5. CASE EchoArrives
    <2>1. Answer(d, [m \in Hearers(d) |-> Echo(m)]) /\ UNCHANGED modules
      BY <1>5 DEF EchoArrives, d
    <2>2. TypedNet'
      BY <1>2, <1>3, <2>1, ReplyTypes, TypedAnswer
    <2> QED BY <1>2, <2>1, <2>2, TypedKept DEF Typed
  <1>6. CASE SelectArrives
    <2>1. /\ Answer(d, [m \in Hearers(d) \cap {d.mac} |-> Ack])
          /\ selected' = (selected \ Hearers(d)) \cup (Hearers(d) \cap {d.mac})
          /\ UNCHANGED <<settings, address, up, loggedIn, dirty>>
      BY <1>6 DEF SelectArrives, d
    <2>2. TypedNet'
      BY <1>2, <1>3, <2>1, ReplyTypes, TypedAnswer
    <2>3. TypedModules'
      BY <1>3, <2>1 DEF Typed, TypedModules
    <2> QED BY <1>2, <2>2, <2>3 DEF Typed
  <1>7. CASE LoginArrives
    <2>1. /\ Answer(d, [m \in Concerned(d) |-> Ack])
          /\ loggedIn' = loggedIn \cup Concerned(d)
          /\ UNCHANGED <<settings, address, up, selected, dirty>>
      BY <1>7 DEF LoginArrives, d
    <2>2. TypedNet'
      BY <1>2, <1>3, <2>1, ReplyTypes, TypedAnswer
    <2>3. TypedModules'
      BY <1>3, <2>1 DEF Typed, TypedModules
    <2> QED BY <1>2, <2>2, <2>3 DEF Typed
  <1>8. CASE GetArrives
    <2>1. /\ Answer(d, Values(d, GetCheck(d.cmd.field), settings))
          /\ UNCHANGED modules /\ d.cmd.c = "G"
      BY <1>8 DEF GetArrives, Arrives, d
    <2>2. d.cmd.field \in Fields /\ GetCheck(d.cmd.field) \in Checks
      BY <1>4, <2>1, CommandFields, ChecksType
    <2>3. settings \in [Modules -> [Fields -> {"old", "new"}]]
      BY DEF Typed, TypedModules
    <2>4. TypedNet'
      BY <1>2, <2>1, <2>2, <2>3, ValuesTypes, TypedAnswer
    <2> QED BY <1>2, <2>1, <2>4, TypedKept DEF Typed
  <1>9. CASE SetArrives
    <2>1. /\ Answer(d, Values(d, SetCheck(d.cmd.field), settings'))
          /\ settings' = [m \in Modules |->
                          IF m \in Obeys(d) THEN [settings[m] EXCEPT ![d.cmd.field] = d.cmd.value]
                          ELSE settings[m]]
          /\ address' = IF AtOnce /\ d.cmd.field = "ip_address" /\ Target \in Obeys(d)
                        THEN d.cmd.value ELSE address
          /\ dirty' = (dirty \/ Target \in Obeys(d))
          /\ UNCHANGED <<up, selected, loggedIn>> /\ d.cmd.c = "S"
      BY <1>9 DEF SetArrives, Arrives, d
    <2>2. /\ d.cmd.field \in Fields /\ SetCheck(d.cmd.field) \in Checks
          /\ d.cmd.value = "new"
      BY <1>4, <2>1, CommandFields, ChecksType
    <2>3. settings' \in [Modules -> [Fields -> {"old", "new"}]]
      BY <2>1, <2>2 DEF Typed, TypedModules
    <2>4. TypedNet'
      BY <1>2, <2>1, <2>2, <2>3, ValuesTypes, TypedAnswer
    <2>5. TypedModules'
      BY <2>1, <2>2, <2>3 DEF Typed, TypedModules
    <2> QED BY <1>2, <2>4, <2>5 DEF Typed
  <1>10. CASE RebootArrives
    <2>1. /\ up' = up \ Concerned(d)
          /\ selected' = selected \ Concerned(d) /\ loggedIn' = loggedIn \ Concerned(d)
          /\ UNCHANGED <<settings, address, dirty, inbox, lost>>
      BY <1>10 DEF RebootArrives, d
    <2>2. TypedNet' /\ TypedModules'
      BY <1>2, <2>1 DEF Typed, TypedNet, TypedModules
    <2> QED BY <1>2, <2>2 DEF Typed
  <1> QED BY <1>5, <1>6, <1>7, <1>8, <1>9, <1>10 DEF Delivery

\* What the modules answer to d, with the settings stored as it leaves them.
RepliesTo(d, stored) ==
    CASE d.cmd.c = "X" -> [m \in Hearers(d) |-> Echo(m)]
      [] d.cmd.c = "W" -> [m \in Hearers(d) \cap {d.mac} |-> Ack]
      [] d.cmd.c = "L" -> [m \in Concerned(d) |-> Ack]
      [] d.cmd.c = "G" -> Values(d, GetCheck(d.cmd.field), stored)
      [] d.cmd.c = "S" -> Values(d, SetCheck(d.cmd.field), stored)
      [] OTHER         -> <<>>

LEMMA DeliveryAnswers ==
    ASSUME Typed, Delivery, NEW d, d = Head(toModules)
    PROVE  /\ toModules # <<>> /\ toModules' = Tail(toModules) /\ d \in Datagrams
           /\ UNCHANGED <<host, calls, strays>>
           /\ lost' \in Nat /\ lost <= lost'
           /\ DOMAIN RepliesTo(d, settings') \subseteq Hearers(d)
           /\ \A m \in DOMAIN RepliesTo(d, settings') : RepliesTo(d, settings')[m] \in Arrivals
           /\ \E tail \in Seq(Arrivals) :
                /\ inbox' = inbox \o tail
                /\ \E order : Through(d, RepliesTo(d, settings'), tail, order)
  <1>1. toModules # <<>> /\ Handled
    BY DEF Delivery, EchoArrives, SelectArrives, LoginArrives, GetArrives, SetArrives,
           RebootArrives, Arrives
  <1>2. /\ toModules' = Tail(toModules) /\ d \in Datagrams /\ UNCHANGED <<host, calls, strays>>
    BY <1>1, TypedHandled DEF Handled
  <1>3. /\ Hearers(d) \subseteq Modules /\ Concerned(d) \subseteq Hearers(d)
        /\ Obeys(d) \subseteq Concerned(d)
    BY Audience
  <1>4. d.cmd \in Commands
    BY <1>2 DEF Datagrams
  <1>5. Typed'
    BY TypedDelivery
  <1>6. ASSUME NEW replies, replies = RepliesTo(d, settings'), DOMAIN replies \subseteq Hearers(d),
               \A m \in DOMAIN replies : replies[m] \in Arrivals, Answer(d, replies)
        PROVE  /\ lost' \in Nat /\ lost <= lost'
               /\ DOMAIN RepliesTo(d, settings') \subseteq Hearers(d)
               /\ \A m \in DOMAIN RepliesTo(d, settings') : RepliesTo(d, settings')[m] \in Arrivals
               /\ \E tail \in Seq(Arrivals) :
                    /\ inbox' = inbox \o tail
                    /\ \E order : Through(d, RepliesTo(d, settings'), tail, order)
    <2>1. DOMAIN replies \subseteq Modules /\ UNCHANGED strays
      BY <1>2, <1>3, <1>6
    <2>2. /\ lost' \in Nat /\ lost <= lost'
          /\ \E tail \in Seq(Arrivals) :
               inbox' = inbox \o tail /\ \E order : Through(d, replies, tail, order)
      BY <1>6, <2>1, AnswerIs
    <2> QED BY <1>6, <2>2
  <1>7. CASE EchoArrives
    <2> DEFINE replies == [m \in Hearers(d) |-> Echo(m)]
    <2>1. Answer(d, replies) /\ d.cmd.c = "X"
      BY <1>7 DEF EchoArrives, Arrives
    <2>2. replies = RepliesTo(d, settings')
      BY <2>1 DEF RepliesTo
    <2>3. DOMAIN replies \subseteq Hearers(d) /\ \A m \in DOMAIN replies : replies[m] \in Arrivals
      BY <1>3, ReplyTypes
    <2> HIDE DEF replies
    <2> QED BY <1>1, <1>2, <1>6, <2>1, <2>2, <2>3
  <1>8. CASE SelectArrives
    <2> DEFINE replies == [m \in Hearers(d) \cap {d.mac} |-> Ack]
    <2>1. Answer(d, replies) /\ d.cmd.c = "W"
      BY <1>8 DEF SelectArrives, Arrives
    <2>2. replies = RepliesTo(d, settings')
      BY <2>1 DEF RepliesTo
    <2>3. DOMAIN replies \subseteq Hearers(d) /\ \A m \in DOMAIN replies : replies[m] \in Arrivals
      BY <1>3, ReplyTypes
    <2> HIDE DEF replies
    <2> QED BY <1>1, <1>2, <1>6, <2>1, <2>2, <2>3
  <1>9. CASE LoginArrives
    <2> DEFINE replies == [m \in Concerned(d) |-> Ack]
    <2>1. Answer(d, replies) /\ d.cmd.c = "L"
      BY <1>9 DEF LoginArrives, Arrives
    <2>2. replies = RepliesTo(d, settings')
      BY <2>1 DEF RepliesTo
    <2>3. DOMAIN replies \subseteq Hearers(d) /\ \A m \in DOMAIN replies : replies[m] \in Arrivals
      BY <1>3, ReplyTypes
    <2> HIDE DEF replies
    <2> QED BY <1>1, <1>2, <1>6, <2>1, <2>2, <2>3
  <1>10. CASE GetArrives \/ SetArrives
    <2>1. PICK check : /\ check = IF d.cmd.c = "G" THEN GetCheck(d.cmd.field)
                                  ELSE SetCheck(d.cmd.field)
      OBVIOUS
    <2> DEFINE replies == Values(d, check, settings')
    <2>2. Answer(d, replies) /\ d.cmd.c \in {"G", "S"}
      BY <1>10, <2>1 DEF GetArrives, SetArrives, Arrives, modules
    <2>3. replies = RepliesTo(d, settings')
      BY <2>1, <2>2 DEF RepliesTo
    <2>4. check \in Checks /\ settings' \in [Modules -> [Fields -> {"old", "new"}]]
      BY <1>4, <1>5, <2>1, <2>2, CommandFields, ChecksType DEF Typed, TypedModules
    <2>5. DOMAIN replies \subseteq Hearers(d)
      BY <1>3 DEF Values
    <2>6. \A m \in DOMAIN replies : replies[m] \in Arrivals
      BY <1>2, <2>2, <2>4, ValuesTypes
    <2> HIDE DEF replies
    <2> QED BY <1>1, <1>2, <1>6, <2>2, <2>3, <2>5, <2>6
  <1>11. CASE RebootArrives
    <2> DEFINE none == <<>>
    <2>1. UNCHANGED <<inbox, lost>> /\ d.cmd.c = "E"
      BY <1>11 DEF RebootArrives, Arrives
    <2>2. RepliesTo(d, settings') = none /\ DOMAIN none = {}
      BY <2>1 DEF RepliesTo
    <2>3. inbox \o none = inbox /\ none \in Seq(Arrivals) /\ Len(none) = 0
      BY DEF Typed, TypedNet
    <2>4. Through(d, none, none, none)
      BY <2>2, <2>3 DEF Through
    <2>5. lost' \in Nat /\ lost <= lost'
      BY <2>1 DEF Typed, TypedNet
    <2> HIDE DEF none
    <2> QED BY <1>1, <1>2, <2>1, <2>2, <2>3, <2>4, <2>5
  <1> QED BY <1>7, <1>8, <1>9, <1>10, <1>11 DEF Delivery

LEMMA TypedReply ==
    ASSUME Typed, Reply
    PROVE  Typed'
  <1> DEFINE reply == Head(inbox)
             cmd   == Head(script).cmd
  <1>1. /\ script # <<>> /\ Head(script).do = "request" /\ inbox # <<>> /\ inbox' = Tail(inbox)
        /\ UNCHANGED <<own, found, toModules, modules, calls, faults>>
    BY DEF Reply, AtStep
  <1>2. reply \in Arrivals /\ cmd \in Commands /\ Head(script).do # "none"
    BY <1>1, StepFields DEF Typed, TypedNet, TypedControl
  <1>3. TypedOwn' /\ TypedModules' /\ TypedCalls'
    BY <1>1, TypedKept
  <1>4. TypedNet'
    BY <1>1 DEF Typed, TypedNet, faults
  <1>5. CASE UNCHANGED got /\ \E kind \in {"ValueError"} : Finish(kind)
    <2>1. TypedControl' /\ TypedEnded'
      BY <1>5, TypedFinish DEF Outcomes
    <2> QED BY <1>1, <1>3, <1>4, <1>5, <2>1, TypedKept DEF Typed, results
  <1>6. CASE reply.kind = "text" /\ waiting' = FALSE
             /\ UNCHANGED <<op, script, via, attempts, ended, got>>
    <2>1. TypedControl' /\ TypedEnded'
      BY <1>6, TypedKept DEF Typed, TypedControl
    <2> QED BY <1>1, <1>3, <1>4, <1>6, <2>1, TypedKept DEF Typed, results
  <1>7. CASE /\ reply.kind # "text" /\ reply.kind # "binary" /\ Fits(cmd, reply) /\ Advance
             /\ got' = IF cmd.c = "G" THEN Append(got, [of |-> reply.of, value |-> reply.value])
                       ELSE got
    <2>1. TypedControl' /\ TypedEnded'
      BY <1>1, <1>7, TypedAdvance
    <2>2. cmd.c = "G" => reply \in ValueReplies
      BY <1>2, <1>7, Arrived DEF Fits
    <2>3. cmd.c = "G" => [of |-> reply.of, value |-> reply.value] \in Readings
      BY <2>2 DEF ValueReplies, Readings
    <2>4. TypedResults'
      BY <1>1, <1>7, <2>3 DEF Typed, TypedResults
    <2> QED BY <1>3, <1>4, <2>1, <2>4 DEF Typed
  <1> QED BY <1>5, <1>6, <1>7 DEF Reply

LEMMA TypedCollect ==
    ASSUME Typed, Collect
    PROVE  Typed'
  <1> DEFINE mac == IF Head(inbox).kind = "echo" THEN Head(inbox).value ELSE NoMac
  <1>1. /\ Len(found) < MaxResults /\ inbox # <<>>
        /\ found' = Append(found, mac) /\ inbox' = Tail(inbox)
        /\ UNCHANGED <<own, control, got, ended, toModules, modules, calls, faults>>
    BY DEF Collect, Listed
  <1>2. Head(inbox) \in Arrivals
    BY <1>1 DEF Typed, TypedNet
  <1>3. mac \in Modules \cup {NoMac}
    BY <1>2, Arrived
  <1> HIDE DEF mac
  <1>4. TypedResults'
    <2>1. MaxResults \in Nat
      BY ConstantsAssumption
    <2> QED BY <1>1, <1>3, <2>1 DEF Typed, TypedResults
  <1>5. TypedNet'
    BY <1>1 DEF Typed, TypedNet, faults
  <1> QED BY <1>1, <1>4, <1>5, TypedKept DEF Typed

LEMMA TypedCollectEnds ==
    ASSUME Typed, CollectEnds
    PROVE  Typed'
  <1>1. script # <<>> /\ UNCHANGED <<isOpen, results, toModules, modules, calls, faults>>
    BY DEF CollectEnds, AtStep
  <1>2. inbox' \in Seq(Arrivals)
    <2>1. inbox' = inbox \/ (inbox # <<>> /\ inbox' = Tail(inbox))
      BY DEF CollectEnds
    <2> QED BY <2>1 DEF Typed, TypedNet
  <1>3. TypedNet'
    BY <1>1, <1>2 DEF Typed, TypedNet, faults
  <1>4. TypedControl' /\ TypedEnded'
    <2>1. Advance \/ \E kind \in {"ValueError", "ConnectionError"} : Finish(kind)
      BY DEF CollectEnds
    <2> QED BY <1>1, <2>1, TypedAdvance, TypedFinish DEF Outcomes
  <1>5. TypedOwn'
    <2>1. UNCHANGED device \/ (found # <<>> /\ device' = [device EXCEPT !.mac = found[1]])
      BY DEF CollectEnds
    <2>2. found # <<>> => found[1] \in Modules \cup {NoMac}
      BY DEF Typed, TypedResults
    <2> QED BY <1>1, <2>1, <2>2 DEF Typed, TypedOwn, AllDevices
  <1> QED BY <1>1, <1>3, <1>4, <1>5, TypedKept DEF Typed

LEMMA TypedHostStep ==
    ASSUME Typed, HostStep
    PROVE  Typed'
  <1>1. CASE Return
    <2>1. TypedControl' /\ TypedEnded'
      BY <1>1, TypedFinish DEF Return, Outcomes
    <2> QED BY <1>1, <2>1, TypedKept DEF Return, Typed
  <1>2. CASE DoSend
    <2>1. /\ script # <<>> /\ Head(script).do = "send" /\ Advance
          /\ toModules' = Append(toModules, Datagram)
          /\ UNCHANGED <<own, results, inbox, modules, calls, faults>>
      BY <1>2 DEF DoSend, AtStep
    <2>2. TypedNet'
      BY <2>1, Sent DEF Typed, TypedNet, faults
    <2> QED BY <2>1, <2>2, TypedAdvance, TypedKept DEF Typed
  <1>3. CASE RequestSends
    <2>1. /\ script # <<>> /\ Head(script).do = "request" /\ op # "none"
          /\ UNCHANGED <<own, results, inbox, modules, calls, faults>>
      BY <1>3 DEF RequestSends, AtStep
    <2>2. CASE /\ attempts < Tries /\ toModules' = Append(toModules, Datagram)
               /\ waiting' = TRUE /\ attempts' = attempts + 1
               /\ UNCHANGED <<op, script, via, ended>>
      <3>1. TypedNet'
        BY <2>1, <2>2, Sent DEF Typed, TypedNet, faults
      <3>2. Tries \in {0, Retries, ConnectRetries} /\ Tries \in Nat
        BY <2>1, Sent, StepFields, ConstantsAssumption DEF Tries
      <3>3. attempts' \in 0 .. Max({Retries, ConnectRetries})
        BY <2>2, <3>2, MostTries DEF Typed, TypedControl
      <3>4. TypedControl' /\ TypedEnded'
        BY <2>1, <2>2, <3>3, TypedKept DEF Typed, TypedControl
      <3> QED BY <2>1, <3>1, <3>4, TypedKept DEF Typed
    <2>3. CASE Finish("TimeoutError") /\ UNCHANGED toModules
      <3>1. TypedControl' /\ TypedEnded'
        BY <2>3, TypedFinish DEF Outcomes
      <3> QED BY <2>1, <2>3, <3>1, TypedKept DEF Typed
    <2> QED BY <1>3, <2>2, <2>3 DEF RequestSends, Counted
  <1>4. CASE NoReply
    <2>1. /\ UNCHANGED <<own, op, script, via, attempts, results, ended, inbox, toModules,
                         modules, calls, faults>>
          /\ waiting' = FALSE
      BY <1>4 DEF NoReply
    <2>2. TypedControl'
      BY <2>1 DEF Typed, TypedControl
    <2> QED BY <2>1, <2>2, TypedKept DEF Typed
  <1>5. CASE Drain
    <2>1. script # <<>> /\ UNCHANGED <<own, results, toModules, modules, calls, faults>>
      BY <1>5 DEF Drain, AtStep
    <2>2. inbox' \in Seq(Arrivals)
      <3>1. inbox' = inbox \/ (inbox # <<>> /\ inbox' = Tail(inbox))
        BY <1>5 DEF Drain
      <3> QED BY <3>1 DEF Typed, TypedNet
    <2>3. TypedNet'
      BY <2>1, <2>2 DEF Typed, TypedNet, faults
    <2>4. TypedControl' /\ TypedEnded'
      <3>1. Advance \/ \E kind \in {"ValueError"} : Finish(kind)
        BY <1>5 DEF Drain
      <3> QED BY <2>1, <3>1, TypedAdvance, TypedFinish DEF Outcomes
    <2> QED BY <2>1, <2>3, <2>4, TypedKept DEF Typed
  <1>6. CASE Sleep
    <2>1. /\ script # <<>> /\ Advance
          /\ UNCHANGED <<own, results, inbox, toModules, modules, calls, faults>>
      BY <1>6 DEF Sleep, AtStep
    <2> QED BY <2>1, TypedAdvance, TypedKept DEF Typed
  <1>7. CASE Fallback
    <2>1. /\ op # "none" /\ script # <<>> /\ via' = "fallback" /\ script' = Tail(script)
          /\ UNCHANGED <<own, op, waiting, attempts, results, ended, inbox, toModules, modules,
                         calls, faults>>
      BY <1>7 DEF Fallback, AtStep
    <2>2. TypedControl'
      BY <2>1 DEF Typed, TypedControl
    <2> QED BY <2>1, <2>2, TypedKept DEF Typed
  <1> QED BY <1>1, <1>2, <1>3, <1>4, <1>5, <1>6, <1>7, TypedReply, TypedCollect, TypedCollectEnds
          DEF HostStep

LEMMA TypedStep ==
    ASSUME Typed, Next
    PROVE  Typed'
  <1>1. ASSUME NEW d \in Devices, New(d) PROVE Typed'
    <2>1. /\ devices < MaxDevices /\ device' = d /\ isOpen' = TRUE /\ devices' = devices + 1
          /\ inbox' = <<>> /\ found' = <<>> /\ got' = <<>>
          /\ outcome' = NoOutcome /\ standing' = "new"
          /\ UNCHANGED <<control, astray, toModules, modules, ops, aimed, faults>>
      BY <1>1 DEF New
    <2>2. TypedOwn'
      BY <2>1, ConstantsAssumption DEF TypedOwn
    <2>3. TypedResults'
      <3>1. MaxResults \in Nat /\ Len(<<>>) = 0
        BY ConstantsAssumption
      <3> QED BY <2>1, <3>1 DEF TypedResults
    <2>4. TypedEnded'
      BY <2>1 DEF Typed, TypedEnded, NoOutcome, Outcomes
    <2>5. TypedNet'
      BY <2>1 DEF Typed, TypedNet, faults
    <2>6. TypedCalls'
      <3>1. MaxDevices \in Nat
        BY ConstantsAssumption
      <3>2. devices' \in 0 .. MaxDevices
        BY <2>1, <3>1 DEF Typed, TypedCalls
      <3> QED BY <2>1, <3>2 DEF Typed, TypedCalls
    <2> QED BY <2>1, <2>2, <2>3, <2>4, <2>5, <2>6, TypedKept DEF Typed
  <1>2. CASE Close
    <2>1. /\ isOpen' = FALSE
          /\ UNCHANGED <<device, control, results, ended, inbox, toModules, modules, calls, faults>>
      BY <1>2 DEF Close
    <2>2. TypedOwn'
      BY <2>1 DEF Typed, TypedOwn
    <2> QED BY <2>1, <2>2, TypedKept DEF Typed
  <1>3. ASSUME NEW method \in Methods, Call(method) PROVE Typed'
    <2>1. /\ ops < MaxOps /\ op' = method /\ script' = Script(method) /\ ops' = ops + 1
          /\ found' = <<>> /\ got' = <<>>
          /\ aimed' \in BOOLEAN
          /\ UNCHANGED <<own, via, waiting, attempts, ended, inbox, toModules, modules, devices,
                         faults>>
      BY <1>3 DEF Call
    <2>2. method \in AllMethods /\ method # "none"
      BY ConstantsAssumption DEF AllMethods
    <2>3. TypedControl'
      BY <2>1, <2>2, ScriptType DEF Typed, TypedControl
    <2>4. TypedResults'
      <3>1. MaxResults \in Nat /\ Len(<<>>) = 0
        BY ConstantsAssumption
      <3> QED BY <2>1, <3>1 DEF TypedResults
    <2>5. TypedCalls'
      <3>1. MaxOps \in Nat
        BY ConstantsAssumption
      <3>2. ops' \in 0 .. MaxOps
        BY <2>1, <3>1 DEF Typed, TypedCalls
      <3> QED BY <2>1, <3>2 DEF Typed, TypedCalls
    <2> QED BY <2>1, <2>3, <2>4, <2>5, TypedKept DEF Typed
  <1>4. ASSUME NEW method \in Methods, CallClosed(method) PROVE Typed'
    <2>1. /\ ops < MaxOps /\ outcome'.kind = "OSError" /\ ops' = ops + 1
          /\ UNCHANGED <<own, control, results, standing, astray, inbox, toModules, modules,
                         devices, aimed, faults>>
      BY <1>4 DEF CallClosed
    <2>2. TypedEnded'
      BY <2>1 DEF Typed, TypedEnded, Outcomes
    <2>3. TypedCalls'
      <3>1. MaxOps \in Nat
        BY ConstantsAssumption
      <3>2. ops' \in 0 .. MaxOps
        BY <2>1, <3>1 DEF Typed, TypedCalls
      <3> QED BY <2>1, <3>2 DEF Typed, TypedCalls
    <2> QED BY <2>1, <2>2, <2>3, TypedKept DEF Typed
  <1>5. ASSUME NEW m \in Modules, Boots(m) PROVE Typed'
    <2>1. /\ up' = up \cup {m} /\ dirty' = (dirty /\ m # Target)
          /\ address' = IF m = Target /\ "ip_address" \in Fields THEN settings[m].ip_address
                        ELSE address
          /\ UNCHANGED <<host, inbox, toModules, settings, selected, loggedIn, calls, faults>>
      BY <1>5 DEF Boots
    <2>2. TypedModules'
      BY <2>1 DEF Typed, TypedModules
    <2> QED BY <2>1, <2>2, TypedKept DEF Typed
  <1>6. CASE Lose
    <2>1. /\ toModules # <<>> /\ lost + strays < MaxFaults
          /\ toModules' = Tail(toModules) /\ lost' = lost + 1
          /\ UNCHANGED <<host, inbox, modules, calls, strays>>
      BY <1>6 DEF Lose
    <2>2. TypedNet'
      <3>1. MaxFaults \in Nat
        BY ConstantsAssumption
      <3>2. toModules' \in Seq(Datagrams)
        BY <2>1 DEF Typed, TypedNet
      <3>3. lost' \in Nat /\ lost' + strays' <= MaxFaults /\ strays' \in Nat
        BY <2>1, <3>1 DEF Typed, TypedNet
      <3> QED BY <2>1, <3>2, <3>3 DEF Typed, TypedNet
    <2> QED BY <2>1, <2>2, TypedKept DEF Typed
  <1>7. ASSUME NEW kind \in StrayKinds, Stray(kind) PROVE Typed'
    <2> DEFINE stray == [kind |-> kind, value |-> "", check |-> ""]
    <2>1. /\ lost + strays < MaxFaults /\ strays' = strays + 1
          /\ inbox' = Append(inbox, stray)
          /\ UNCHANGED <<host, toModules, modules, calls, lost>>
      BY <1>7 DEF Stray
    <2>2. stray \in Arrivals
      BY ConstantsAssumption DEF Arrivals
    <2> HIDE DEF stray
    <2>3. TypedNet'
      <3>1. MaxFaults \in Nat
        BY ConstantsAssumption
      <3>2. inbox' \in Seq(Arrivals)
        BY <2>1, <2>2 DEF Typed, TypedNet
      <3>3. strays' \in Nat /\ lost' + strays' <= MaxFaults /\ lost' \in Nat
        BY <2>1, <3>1 DEF Typed, TypedNet
      <3> QED BY <2>1, <3>2, <3>3 DEF Typed, TypedNet
    <2> QED BY <2>1, <2>3, TypedKept DEF Typed
  <1> QED BY <1>1, <1>2, <1>3, <1>4, <1>5, <1>6, <1>7, TypedHostStep, TypedDelivery DEF Next

LEMMA TypedStutter ==
    ASSUME Typed, UNCHANGED vars
    PROVE  Typed'
  BY TypedKept DEF vars, host, Typed

THEOREM AlwaysTyped == Spec => []Typed
  <1>1. Typed /\ [Next]_vars => Typed'
    BY TypedStep, TypedStutter
  <1> QED BY TypedInit, <1>1, PTL DEF Spec

\* Every variable of the HW-VX configuration keeps its type: no request is sent
\* more often than its retries allow, no search returns more results than it
\* may, and every call ends in one of the ways HwVxDevice lets it.
THEOREM TypeCorrect == Spec => []TypeOK
  BY AlwaysTyped, TypedIsTypeOK, PTL
-----------------------------------------------------------------------------
(* What the steps of the host do to the script and to the network.         *)

Waits == UNCHANGED <<op, script, via, ended, toModules>>

Ends ==
    /\ \/ script = <<>> /\ Finish("returned")
       \/ /\ script # <<>> /\ Head(script).do \in {"request", "collect", "drain"}
          /\ \E kind \in Outcomes \ {"returned"} : Finish(kind)
    /\ UNCHANGED toModules

Passes ==
    /\ script # <<>> /\ Head(script).do \in {"request", "collect", "drain", "sleep"}
    /\ Head(script).do = "sleep" /\ ~hasty' => ~hasty /\ toModules = <<>> /\ Target \in up
    /\ Advance /\ UNCHANGED toModules

PutsOut ==
    /\ script # <<>> /\ Head(script).do = "send"
    /\ Advance /\ toModules' = Append(toModules, Datagram)

Asks ==
    /\ script # <<>> /\ Head(script).do = "request"
    /\ UNCHANGED <<op, script, via, ended>> /\ toModules' = Append(toModules, Datagram)

FallsBack ==
    /\ script # <<>> /\ Head(script).do = "fallback"
    /\ via' = "fallback" /\ script' = Tail(script) /\ UNCHANGED <<op, ended, toModules>>

HostMove == Waits \/ Ends \/ Passes \/ PutsOut \/ Asks \/ FallsBack

LeavesModules ==
    /\ UNCHANGED <<modules, calls, faults>>
    /\ device'.target = device.target /\ (op # "connect" => device' = device)

LEMMA HostMoves ==
    ASSUME Typed, HostStep
    PROVE  op # "none" /\ HostMove /\ LeavesModules
  <1>1. CASE Return
    BY <1>1 DEF Return, HostMove, Ends, LeavesModules, own
  <1>2. CASE DoSend
    BY <1>2 DEF DoSend, AtStep, HostMove, PutsOut, LeavesModules, own
  <1>3. CASE RequestSends
    <2>1. /\ script # <<>> /\ Head(script).do = "request" /\ op # "none"
          /\ UNCHANGED <<own, modules, calls, faults>>
      BY <1>3 DEF RequestSends, AtStep
    <2>2. Asks \/ Ends
      BY <1>3, <2>1 DEF RequestSends, Asks, Ends, Outcomes
    <2> QED BY <2>1, <2>2 DEF HostMove, LeavesModules, own
  <1>4. CASE NoReply
    BY <1>4 DEF NoReply, AtStep, HostMove, Waits, LeavesModules, own
  <1>5. CASE Reply
    <2>1. /\ script # <<>> /\ Head(script).do = "request" /\ op # "none"
          /\ UNCHANGED <<own, toModules, modules, calls, faults>>
      BY <1>5 DEF Reply, AtStep
    <2>2. \/ Finish("ValueError") \/ Advance \/ UNCHANGED <<op, script, via, ended>>
      BY <1>5 DEF Reply
    <2>3. Waits \/ Ends \/ Passes
      BY <2>1, <2>2 DEF Waits, Ends, Passes, Outcomes
    <2> QED BY <2>1, <2>3 DEF HostMove, LeavesModules, own
  <1>6. CASE Collect
    BY <1>6 DEF Collect, AtStep, HostMove, Waits, LeavesModules, own, control
  <1>7. CASE CollectEnds
    <2>1. /\ script # <<>> /\ Head(script).do = "collect" /\ op # "none"
          /\ UNCHANGED <<toModules, modules, calls, faults>>
      BY <1>7 DEF CollectEnds, AtStep
    <2>2. Finish("ValueError") \/ Advance \/ Finish("ConnectionError")
      BY <1>7 DEF CollectEnds
    <2>3. device'.target = device.target /\ (op # "connect" => device' = device)
      BY <1>7 DEF CollectEnds, Typed, TypedOwn, AllDevices
    <2>4. Ends \/ Passes
      BY <2>1, <2>2 DEF Ends, Passes, Outcomes
    <2> QED BY <2>1, <2>3, <2>4 DEF HostMove, LeavesModules
  <1>8. CASE Drain
    <2>1. /\ script # <<>> /\ Head(script).do = "drain" /\ op # "none"
          /\ UNCHANGED <<own, toModules, modules, calls, faults>>
      BY <1>8 DEF Drain, AtStep
    <2>2. Finish("ValueError") \/ Advance
      BY <1>8 DEF Drain
    <2>3. Ends \/ Passes
      BY <2>1, <2>2 DEF Ends, Passes, Outcomes
    <2> QED BY <2>1, <2>3 DEF HostMove, LeavesModules, own
  <1>9. CASE Sleep
    <2>1. /\ script # <<>> /\ Head(script).do = "sleep" /\ op # "none"
          /\ UNCHANGED <<own, toModules, modules, calls, faults>>
          /\ Advance
      BY <1>9 DEF Sleep, AtStep
    <2>2. ~hasty' => ~hasty /\ toModules = <<>> /\ Target \in up
      BY <2>1 DEF Advance
    <2> QED BY <2>1, <2>2 DEF HostMove, Passes, LeavesModules, own
  <1>10. CASE Fallback
    BY <1>10 DEF Fallback, AtStep, HostMove, FallsBack, LeavesModules, own
  <1> QED BY <1>1, <1>2, <1>3, <1>4, <1>5, <1>6, <1>7, <1>8, <1>9, <1>10 DEF HostStep
-----------------------------------------------------------------------------
(* The table of settings, whose checks tell replies apart.                 *)

Unset == ""

LEMMA Rows ==
    /\ AllSettings[1] = <<"username", "01", "12">>
    /\ AllSettings[2] = <<"device_name", "02", "13">>
    /\ AllSettings[3] = <<"mac_address", "03", Unset>>
    /\ AllSettings[4] = <<"ip_address", "04", "25">>
    /\ AllSettings[5] = <<"port_number", "05", "15">>
    /\ AllSettings[6] = <<"protocol", "06", "14">>
    /\ AllSettings[7] = <<"work_mode", "07", "16">>
    /\ AllSettings[8] = <<"connection_mode", "08", "1D">>
    /\ AllSettings[9] = <<"connection_timeout", "09", "1E">>
    /\ AllSettings[10] = <<"rts", "0A", "17">>
    /\ AllSettings[11] = <<"dtr_mode", "0B", "18">>
    /\ AllSettings[12] = <<"baud_rate", "0C", "19">>
    /\ AllSettings[13] = <<"parity", "0D", "1A">>
    /\ AllSettings[14] = <<"data_bits", "0E", "1B">>
    /\ AllSettings[15] = <<"reconnect", "0F", "1C">>
    /\ AllSettings[16] = <<"max_length", "10", "1F">>
    /\ AllSettings[17] = <<"max_delay", "11", "20">>
    /\ AllSettings[18] = <<"remote_ip", "12", "21">>
    /\ AllSettings[19] = <<"remote_port", "13", "22">>
    /\ AllSettings[20] = <<"gateway_ip", "14", "23">>
    /\ AllSettings[21] = <<"subnet_mask", "15", "24">>
    /\ AllSettings[22] = <<"dhcp", "16", "28">>
  BY DEF AllSettings, Unset

LEMMA RowsDiffer ==
    ASSUME NEW i \in 1 .. 22, NEW j \in 1 .. 22
    PROVE  /\ AllSettings[i][1] = AllSettings[j][1] => i = j
           /\ AllSettings[i][2] = AllSettings[j][2] => i = j
           /\ AllSettings[i][3] # "01"
  <1>1. AllSettings[i][1] = AllSettings[j][1] => i = j
    BY Rows
  <1>2. AllSettings[i][2] = AllSettings[j][2] => i = j
    BY Rows
  <1>3. Unset # "01"
    BY DEF Unset
  <1>4. AllSettings[i][3] # "01"
    BY <1>3, Rows
  <1> QED BY <1>1, <1>2, <1>4

LEMMA RowIs ==
    ASSUME NEW i \in 1 .. 22
    PROVE  Row(AllSettings[i][1]) = AllSettings[i]
  <1> DEFINE row == Row(AllSettings[i][1])
  <1>1. ToSet(AllSettings) = {AllSettings[j] : j \in 1 .. 22}
    BY TablesType DEF ToSet
  <1>2. AllSettings[i] \in ToSet(AllSettings)
    BY <1>1
  <1>3. row \in ToSet(AllSettings) /\ row[1] = AllSettings[i][1]
    BY <1>2 DEF Row
  <1> HIDE DEF row
  <1>4. PICK j \in 1 .. 22 : row = AllSettings[j]
    BY <1>1, <1>3
  <1> QED BY <1>3, <1>4, RowsDiffer DEF row

\* The field that is asked for in place k, of so many.
Ask(k) == Settings[k][1]

Count == Len(Settings)

LEMMA Asked ==
    /\ Count \in Nat /\ Count >= 2
    /\ \A i, j \in 1 .. Count :
         /\ Ask(i) \in Fields
         /\ Ask(i) = Ask(j) => i = j
    /\ \A field \in Fields :
         /\ SetCheck(field) # GetCheck(Ask(1))
         /\ \A i \in 1 .. Count : GetCheck(field) = GetCheck(Ask(i)) => field = Ask(i)
  <1> DEFINE Keep == {row \in ToSet(AllSettings) : row[1] \in Fields}
  <1>1. AllSettings \in Seq(ToSet(AllSettings)) /\ Len(AllSettings) = 22
    BY TablesType
  <1>2. PICK p : Places(p, Settings, AllSettings, Keep, 22)
    BY <1>1, SelectPlaces DEF Settings
  <1>3. \A i \in 1 .. 22 : AllSettings[i] \in Keep <=> AllSettings[i][1] \in Fields
    BY <1>1 DEF ToSet
  <1> HIDE DEF Keep
  <1>4. Count \in Nat /\ Count = Len(Settings) /\ \A i \in 1 .. Count : Ask(i) \in Fields
    BY SettingsType DEF Count, Ask
  <1>5. \A i \in 1 .. Count :
          /\ p[i] \in 1 .. 22
          /\ Ask(i) = AllSettings[p[i]][1] /\ GetCheck(Ask(i)) = AllSettings[p[i]][2]
    <2> SUFFICES ASSUME NEW i \in 1 .. Count
                 PROVE  /\ p[i] \in 1 .. 22
                        /\ Ask(i) = AllSettings[p[i]][1] /\ GetCheck(Ask(i)) = AllSettings[p[i]][2]
      OBVIOUS
    <2>1. p[i] \in 1 .. 22 /\ Settings[i] = AllSettings[p[i]]
      BY <1>2, <1>4 DEF Places
    <2> QED BY <2>1, RowIs DEF Ask, GetCheck
  <1>6. \A i, j \in 1 .. Count : i < j => p[i] < p[j]
    BY <1>2, <1>4 DEF Places
  <1>7. ASSUME NEW i \in 1 .. Count, NEW j \in 1 .. Count, p[i] = p[j] PROVE i = j
    <2>1. i < j \/ j < i \/ i = j
      BY <1>4
    <2>2. p[i] \in 1 .. 22 /\ p[j] \in 1 .. 22
      BY <1>5
    <2>3. ~(p[i] < p[j]) /\ ~(p[j] < p[i])
      BY <1>7, <2>2
    <2> QED BY <1>6, <2>1, <2>3
  <1>8. ASSUME NEW i \in 1 .. Count, NEW j \in 1 .. Count, Ask(i) = Ask(j) PROVE i = j
    <2>1. p[i] \in 1 .. 22 /\ p[j] \in 1 .. 22
      BY <1>5
    <2>2. AllSettings[p[i]][1] = AllSettings[p[j]][1] => p[i] = p[j]
      BY <2>1, RowsDiffer
    <2> QED BY <1>5, <1>7, <1>8, <2>2
  <1>9. AllSettings[1][1] = "username" /\ AllSettings[1][2] = "01"
    BY Rows
  <1>10. 1 \in 1 .. Count /\ p[1] = 1
    <2>1. PICK i \in 1 .. Count : p[i] = 1
      BY <1>2, <1>3, <1>4, <1>9, ConstantsAssumption DEF Places
    <2>2. i # 1 => 1 \in 1 .. Count /\ 1 < i
      BY <1>4
    <2>3. ~(p[1] < p[i]) \/ i = 1
      BY <1>5, <2>1, <2>2
    <2> QED BY <1>6, <2>1, <2>2, <2>3
  <1>11. ASSUME NEW field \in Fields PROVE \E k \in 1 .. 22 : AllSettings[k][1] = field
    <2>1. PICK row \in ToSet(AllSettings) : row[1] = field
      BY ConstantsAssumption
    <2>2. PICK k \in 1 .. 22 : AllSettings[k] = row
      BY <1>1 DEF ToSet
    <2> QED BY <2>1, <2>2
  <1>12. Count >= 2
    <2>1. PICK field \in Fields : field # "username"
      BY ConstantsAssumption
    <2>2. PICK k \in 1 .. 22 : AllSettings[k][1] = field
      BY <1>11
    <2>3. PICK i \in 1 .. Count : p[i] = k
      BY <1>2, <1>3, <1>4, <2>2 DEF Places
    <2>4. i # 1
      BY <1>9, <1>10, <2>1, <2>2, <2>3
    <2> QED BY <1>4, <2>4
  <1>13. ASSUME NEW field \in Fields
         PROVE  /\ SetCheck(field) # GetCheck(Ask(1))
                /\ \A i \in 1 .. Count : GetCheck(field) = GetCheck(Ask(i)) => field = Ask(i)
    <2>1. PICK k \in 1 .. 22 : AllSettings[k][1] = field
      BY <1>11
    <2>2. SetCheck(field) = AllSettings[k][3] /\ GetCheck(field) = AllSettings[k][2]
      BY <2>1, RowIs DEF SetCheck, GetCheck
    <2>3. ASSUME NEW i \in 1 .. Count, GetCheck(field) = GetCheck(Ask(i)) PROVE field = Ask(i)
      <3>1. p[i] \in 1 .. 22 /\ AllSettings[k][2] = AllSettings[p[i]][2]
        BY <1>5, <2>2, <2>3
      <3>2. k = p[i]
        BY <3>1, RowsDiffer
      <3> QED BY <1>5, <2>1, <3>2
    <2> QED BY <1>5, <1>9, <1>10, <2>2, <2>3, RowsDiffer
  <1> QED BY <1>4, <1>8, <1>12, <1>13
-----------------------------------------------------------------------------
(* The requests on their way and the replies that have arrived, in a line. *)

Tells(reply, k) == reply.kind = "value" /\ reply.check = GetCheck(Ask(k))

\* d is a request for setting k by the device that is the latest.
AskedFor(d, k, latest) == d.from = latest /\ d.cmd = Get(Ask(k))

\* No reply says anything of the setting that is asked for first, and none will.
Fresh(replies, queue, latest) ==
    /\ \A i \in 1 .. Len(replies) : ~Tells(replies[i], 1)
    /\ \A i \in 1 .. Len(queue) : ~AskedFor(queue[i], 1, latest)

\* While setting g is asked for, what tells it comes last, and before it only
\* what tells the setting asked for before g; of the first one, g = 1, anything
\* may come before it.
InLine(g, replies, queue, latest) ==
    /\ g <= Count =>
         /\ \A i, j \in 1 .. Len(replies) :
              i < j /\ Tells(replies[i], g) => Tells(replies[j], g) \/ ~IsReply(replies[j])
         /\ \A i \in 1 .. Len(replies) : Tells(replies[i], g) =>
              \A j \in 1 .. Len(queue) : AskedFor(queue[j], g, latest)
         /\ \A i, j \in 1 .. Len(queue) :
              i < j /\ AskedFor(queue[i], g, latest) => AskedFor(queue[j], g, latest)
    /\ g >= 2 =>
         /\ \A i \in 1 .. Len(replies) :
              \/ ~IsReply(replies[i]) \/ Tells(replies[i], g - 1)
              \/ g <= Count /\ Tells(replies[i], g)
         /\ \A i \in 1 .. Len(queue) :
              AskedFor(queue[i], g - 1, latest) \/ (g <= Count /\ AskedFor(queue[i], g, latest))

\* What d, the datagram that arrives, can be answered with.
AnswerTo(d, reply, latest) ==
    /\ IsReply(reply) /\ d.from = latest
    /\ d.cmd.c = "G" => reply.kind = "value" /\ reply.check = GetCheck(d.cmd.field)
    /\ d.cmd.c # "G" /\ reply.kind = "value" =>
         d.cmd.c = "S" /\ reply.check = SetCheck(d.cmd.field)

LEMMA GetFields == \A field : Get(field).c = "G" /\ Get(field).field = field
  BY DEF Get

LEMMA Told ==
    ASSUME NEW d \in Datagrams, NEW reply, NEW latest, AnswerTo(d, reply, latest),
           NEW k \in 1 .. Count
    PROVE  /\ AskedFor(d, k, latest) => Tells(reply, k)
           /\ Tells(reply, k) /\ (k = 1 \/ d.cmd.c = "G") => AskedFor(d, k, latest)
  <1>1. d.cmd \in Commands
    BY DEF Datagrams
  <1>2. AskedFor(d, k, latest) => d.cmd.c = "G" /\ d.cmd.field = Ask(k)
    BY GetFields DEF AskedFor
  <1>3. AskedFor(d, k, latest) => Tells(reply, k)
    BY <1>2 DEF AnswerTo, Tells
  <1>4. ASSUME Tells(reply, k), d.cmd.c = "G" PROVE AskedFor(d, k, latest)
    <2>1. d.cmd.field \in Fields /\ GetCheck(d.cmd.field) = GetCheck(Ask(k)) /\ d.from = latest
      BY <1>1, <1>4, CommandFields DEF AnswerTo, Tells
    <2>2. d.cmd.field = Ask(k)
      BY <2>1, Asked
    <2>3. d.cmd = Get(d.cmd.field)
      BY <1>1, <1>4 DEF Commands, Get
    <2> QED BY <2>1, <2>2, <2>3 DEF AskedFor
  <1>5. ASSUME Tells(reply, k), k = 1, d.cmd.c # "G" PROVE FALSE
    <2>1. d.cmd.c = "S" /\ SetCheck(d.cmd.field) = GetCheck(Ask(1))
      BY <1>5 DEF AnswerTo, Tells
    <2> QED BY <1>1, <2>1, CommandFields, Asked
  <1> QED BY <1>3, <1>4, <1>5

LEMMA TailOf ==
    ASSUME NEW S, NEW s \in Seq(S), s # <<>>
    PROVE  /\ Tail(s) \in Seq(S) /\ Head(s) = s[1] /\ s[1] \in S /\ Len(s) \in Nat \ {0}
           /\ Len(Tail(s)) = Len(s) - 1
           /\ \A i \in 1 .. Len(Tail(s)) : i + 1 \in 1 .. Len(s) /\ Tail(s)[i] = s[i + 1]
  OBVIOUS

LEMMA AppendOf ==
    ASSUME NEW S, NEW s \in Seq(S), NEW e \in S
    PROVE  /\ Append(s, e) \in Seq(S) /\ Len(Append(s, e)) = Len(s) + 1 /\ Len(s) \in Nat
           /\ \A i \in 1 .. Len(s) : Append(s, e)[i] = s[i]
           /\ Append(s, e)[Len(s) + 1] = e
           /\ \A i \in 1 .. Len(Append(s, e)) : i \in 1 .. Len(s) \/ i = Len(s) + 1
  OBVIOUS

LEMMA InLineRead ==
    ASSUME NEW g \in 1 .. Count + 1, NEW replies \in Seq(Arrivals), replies # <<>>,
           NEW queue, NEW latest, InLine(g, replies, queue, latest)
    PROVE  InLine(g, Tail(replies), queue, latest)
  <1>1. /\ \A i \in 1 .. Len(Tail(replies)) :
              i + 1 \in 1 .. Len(replies) /\ Tail(replies)[i] = replies[i + 1]
        /\ \A i, j \in 1 .. Len(Tail(replies)) : i < j => i + 1 < j + 1
    BY TailOf
  <1> QED BY <1>1 DEF InLine

LEMMA InLineLost ==
    ASSUME NEW g \in 1 .. Count + 1, NEW replies, NEW queue \in Seq(Datagrams), queue # <<>>,
           NEW latest, InLine(g, replies, queue, latest)
    PROVE  InLine(g, replies, Tail(queue), latest)
  <1>1. /\ \A i \in 1 .. Len(Tail(queue)) :
              i + 1 \in 1 .. Len(queue) /\ Tail(queue)[i] = queue[i + 1]
        /\ \A i, j \in 1 .. Len(Tail(queue)) : i < j => i + 1 < j + 1
    BY TailOf
  <1> QED BY <1>1 DEF InLine

LEMMA InLineStray ==
    ASSUME NEW g \in 1 .. Count + 1, NEW replies \in Seq(Arrivals), NEW stray \in Arrivals,
           ~IsReply(stray), NEW queue, NEW latest, InLine(g, replies, queue, latest)
    PROVE  InLine(g, Append(replies, stray), queue, latest)
  <1> DEFINE after == Append(replies, stray)
             n == Len(replies)
  <1>1. /\ n \in Nat /\ Len(after) = n + 1 /\ \A i \in 1 .. n : after[i] = replies[i]
        /\ after[n + 1] = stray /\ \A i \in 1 .. Len(after) : i \in 1 .. n \/ i = n + 1
    BY AppendOf
  <1> HIDE DEF after
  <1>2. \A k : ~Tells(stray, k)
    BY DEF Tells, IsReply
  <1>3. \A i, j \in 1 .. Len(after) : i < j => i \in 1 .. n
    BY <1>1
  <1>4. InLine(g, after, queue, latest)
    BY <1>1, <1>2, <1>3 DEF InLine
  <1> QED BY <1>4 DEF after

LEMMA InLineAsk ==
    ASSUME NEW g \in 1 .. Count, NEW replies, NEW queue \in Seq(Datagrams), NEW d \in Datagrams,
           NEW latest, AskedFor(d, g, latest), InLine(g, replies, queue, latest)
    PROVE  InLine(g, replies, Append(queue, d), latest)
  <1> DEFINE after == Append(queue, d)
             n == Len(queue)
  <1>1. /\ n \in Nat /\ Len(after) = n + 1 /\ \A i \in 1 .. n : after[i] = queue[i]
        /\ after[n + 1] = d /\ \A i \in 1 .. Len(after) : i \in 1 .. n \/ i = n + 1
    BY AppendOf
  <1> HIDE DEF after
  <1>2. g <= Count /\ \A i, j \in 1 .. Len(after) : i < j => i \in 1 .. n
    BY <1>1, Asked
  <1>3. InLine(g, replies, after, latest)
    BY <1>1, <1>2 DEF InLine
  <1> QED BY <1>3 DEF after

\* Setting g has been read, the next one will be asked for.
LEMMA InLineNext ==
    ASSUME NEW g \in 1 .. Count, NEW replies \in Seq(Arrivals), replies # <<>>,
           Tells(Head(replies), g), NEW queue, NEW latest, InLine(g, replies, queue, latest)
    PROVE  InLine(g + 1, Tail(replies), queue, latest)
  <1> DEFINE rest == Tail(replies)
  <1>1. /\ Head(replies) = replies[1] /\ 1 \in 1 .. Len(replies)
        /\ \A i \in 1 .. Len(rest) : i + 1 \in 1 .. Len(replies) /\ 1 < i + 1
                                     /\ rest[i] = replies[i + 1]
    BY TailOf
  <1> HIDE DEF rest
  <1>2. g \in Nat /\ g >= 1 /\ g <= Count /\ (g + 1) - 1 = g /\ Count \in Nat
    BY Asked
  <1>3. \A i \in 1 .. Len(rest) : ~IsReply(rest[i]) \/ Tells(rest[i], g)
    BY <1>1, <1>2 DEF InLine
  <1>4. \A j \in 1 .. Len(queue) : AskedFor(queue[j], g, latest)
    BY <1>1, <1>2 DEF InLine
  <1>5. ASSUME g + 1 <= Count PROVE Ask(g + 1) # Ask(g) /\ GetCheck(Ask(g + 1)) # GetCheck(Ask(g))
    <2>1. g + 1 \in 1 .. Count /\ g + 1 # g
      BY <1>2, <1>5
    <2> QED BY <2>1, Asked
  <1>6. ASSUME g + 1 <= Count PROVE \A reply : Tells(reply, g) => ~Tells(reply, g + 1)
    BY <1>5, <1>6 DEF Tells
  <1>7. \A reply, k : Tells(reply, k) => IsReply(reply)
    BY DEF Tells, IsReply
  <1>8. ASSUME g + 1 <= Count PROVE \A i \in 1 .. Len(queue) : ~AskedFor(queue[i], g + 1, latest)
    BY <1>4, <1>5, <1>8, GetFields DEF AskedFor
  <1>9. ASSUME g + 1 <= Count PROVE \A i \in 1 .. Len(rest) : ~Tells(rest[i], g + 1)
    BY <1>3, <1>6, <1>7, <1>9
  <1>10. InLine(g + 1, rest, queue, latest)
    BY <1>2, <1>3, <1>4, <1>8, <1>9 DEF InLine
  <1> QED BY <1>10 DEF rest

\* The last setting is not the first one.
LEMMA InLineEnd ==
    ASSUME NEW replies, NEW queue, NEW latest, InLine(Count + 1, replies, queue, latest)
    PROVE  /\ Fresh(replies, queue, latest)
           /\ \A i \in 1 .. Len(queue) : queue[i].cmd.c = "G"
  <1>1. /\ Count \in 1 .. Count /\ 1 \in 1 .. Count /\ Count # 1 /\ Count + 1 >= 2
        /\ ~(Count + 1 <= Count) /\ (Count + 1) - 1 = Count
    BY Asked
  <1>2. Ask(Count) # Ask(1) /\ GetCheck(Ask(Count)) # GetCheck(Ask(1))
    BY <1>1, Asked
  <1>3. \A reply : Tells(reply, Count) \/ ~IsReply(reply) => ~Tells(reply, 1)
    BY <1>2 DEF Tells, IsReply
  <1>4. \A d : AskedFor(d, Count, latest) => ~AskedFor(d, 1, latest) /\ d.cmd.c = "G"
    BY <1>2, GetFields DEF AskedFor
  <1> QED BY <1>1, <1>3, <1>4 DEF InLine, Fresh

LEMMA InLineStart ==
    ASSUME NEW replies, NEW queue, NEW latest, Fresh(replies, queue, latest)
    PROVE  InLine(1, replies, queue, latest)
  BY DEF Fresh, InLine

LEMMA InLineArrives ==
    ASSUME NEW g \in 1 .. Count + 1, NEW replies \in Seq(Arrivals), NEW tail \in Seq(Arrivals),
           NEW queue \in Seq(Datagrams), queue # <<>>, NEW latest,
           InLine(g, replies, queue, latest),
           \A i \in 1 .. Len(tail) : AnswerTo(Head(queue), tail[i], latest)
    PROVE  InLine(g, replies \o tail, Tail(queue), latest)
  <1> DEFINE after == replies \o tail
             rest == Tail(queue)
             d == Head(queue)
             n == Len(replies)
  <1>1. /\ n \in Nat /\ Len(tail) \in Nat /\ \A i \in 1 .. n : after[i] = replies[i]
        /\ \A i \in 1 .. Len(after) :
             i \in 1 .. n \/ (i - n \in 1 .. Len(tail) /\ i \notin 1 .. n /\ after[i] = tail[i - n])
    OBVIOUS
  <1>2. /\ d = queue[1] /\ 1 \in 1 .. Len(queue) /\ d \in Datagrams
        /\ \A i \in 1 .. Len(rest) :
             i + 1 \in 1 .. Len(queue) /\ 1 < i + 1 /\ rest[i] = queue[i + 1]
        /\ \A i, j \in 1 .. Len(rest) : i < j => i + 1 < j + 1
    BY TailOf
  <1>3. \A i \in 1 .. Len(tail) : AnswerTo(d, tail[i], latest)
    OBVIOUS
  <1> HIDE DEF after, rest, d
  <1>4. g \in Nat /\ Count \in Nat /\ (g <= Count => g \in 1 .. Count)
        /\ (g >= 2 => g - 1 \in 1 .. Count) /\ (g < 2 => g = 1)
    BY Asked
  <1>5. g >= 2 => d.cmd.c = "G"
    BY <1>2, GetFields DEF InLine, AskedFor
  <1>6. ASSUME NEW i \in 1 .. Len(tail), g <= Count
        PROVE  Tells(tail[i], g) <=> AskedFor(d, g, latest)
    BY <1>2, <1>3, <1>4, <1>5, <1>6, Told
  <1>7. ASSUME NEW i \in 1 .. Len(tail), g >= 2
        PROVE  Tells(tail[i], g - 1) \/ (g <= Count /\ Tells(tail[i], g))
    <2>1. AskedFor(d, g - 1, latest) \/ (g <= Count /\ AskedFor(d, g, latest))
      BY <1>2, <1>7 DEF InLine
    <2> QED BY <1>2, <1>3, <1>4, <1>6, <1>7, <2>1, Told
  <1>8. ASSUME g <= Count, NEW i \in 1 .. Len(after), NEW j \in 1 .. Len(after), i < j,
               Tells(after[i], g)
        PROVE  Tells(after[j], g) \/ ~IsReply(after[j])
    <2>1. CASE i \in 1 .. n /\ j \in 1 .. n
      BY <1>1, <1>8, <2>1 DEF InLine
    <2>2. CASE i \in 1 .. n /\ j \notin 1 .. n
      <3>1. AskedFor(d, g, latest)
        BY <1>1, <1>2, <1>8, <2>2 DEF InLine
      <3> QED BY <1>1, <1>6, <1>8, <2>2, <3>1
    <2>3. CASE i \notin 1 .. n
      <3>1. j \notin 1 .. n
        BY <1>1, <1>8, <2>3
      <3> QED BY <1>1, <1>6, <1>8, <2>3, <3>1
    <2> QED BY <2>1, <2>2, <2>3
  <1>9. ASSUME g <= Count, NEW i \in 1 .. Len(after), NEW j \in 1 .. Len(rest), Tells(after[i], g)
        PROVE  AskedFor(rest[j], g, latest)
    <2>1. CASE i \in 1 .. n
      BY <1>1, <1>2, <1>9, <2>1 DEF InLine
    <2>2. CASE i \notin 1 .. n
      <3>1. AskedFor(d, g, latest)
        BY <1>1, <1>6, <1>9, <2>2
      <3> QED BY <1>2, <1>9, <3>1 DEF InLine
    <2> QED BY <2>1, <2>2
  <1>10. ASSUME g >= 2, NEW i \in 1 .. Len(after)
         PROVE  ~IsReply(after[i]) \/ Tells(after[i], g - 1) \/ (g <= Count /\ Tells(after[i], g))
    BY <1>1, <1>7, <1>10 DEF InLine
  <1>11. InLine(g, after, rest, latest)
    BY <1>2, <1>8, <1>9, <1>10 DEF InLine
  <1> QED BY <1>11 DEF after, rest

\* The same of what holds when no setting is asked for.
LEMMA FreshKept ==
    ASSUME NEW replies \in Seq(Arrivals), NEW queue \in Seq(Datagrams), NEW latest,
           Fresh(replies, queue, latest)
    PROVE  /\ replies # <<>> => Fresh(Tail(replies), queue, latest)
           /\ queue # <<>> => Fresh(replies, Tail(queue), latest)
           /\ \A d \in Datagrams : d.cmd.c # "G" => Fresh(replies, Append(queue, d), latest)
           /\ \A stray \in Arrivals : ~IsReply(stray) =>
                Fresh(Append(replies, stray), queue, latest)
  <1>1. replies # <<>> => \A i \in 1 .. Len(Tail(replies)) :
          i + 1 \in 1 .. Len(replies) /\ Tail(replies)[i] = replies[i + 1]
    BY TailOf
  <1>2. queue # <<>> => \A i \in 1 .. Len(Tail(queue)) :
          i + 1 \in 1 .. Len(queue) /\ Tail(queue)[i] = queue[i + 1]
    BY TailOf
  <1>3. ASSUME NEW d \in Datagrams, d.cmd.c # "G" PROVE Fresh(replies, Append(queue, d), latest)
    <2>1. ~AskedFor(d, 1, latest)
      BY <1>3, GetFields DEF AskedFor
    <2> QED BY <2>1, AppendOf DEF Fresh
  <1>4. ASSUME NEW stray \in Arrivals, ~IsReply(stray)
        PROVE  Fresh(Append(replies, stray), queue, latest)
    <2>1. ~Tells(stray, 1)
      BY <1>4 DEF Tells, IsReply
    <2> QED BY <2>1, AppendOf DEF Fresh
  <1> QED BY <1>1, <1>2, <1>3, <1>4 DEF Fresh

LEMMA FreshArrives ==
    ASSUME NEW replies \in Seq(Arrivals), NEW tail \in Seq(Arrivals),
           NEW queue \in Seq(Datagrams), queue # <<>>, NEW latest,
           Fresh(replies, queue, latest),
           \A i \in 1 .. Len(tail) : AnswerTo(Head(queue), tail[i], latest)
    PROVE  Fresh(replies \o tail, Tail(queue), latest)
  <1>1. Head(queue) \in Datagrams /\ Head(queue) = queue[1] /\ 1 \in 1 .. Len(queue)
    BY TailOf
  <1>2. \A i \in 1 .. Len(tail) : ~Tells(tail[i], 1)
    <2>1. 1 \in 1 .. Count
      BY Asked
    <2> QED BY <1>1, <2>1, Told DEF Fresh
  <1>3. \A i \in 1 .. Len(replies \o tail) :
          \/ i \in 1 .. Len(replies) /\ (replies \o tail)[i] = replies[i]
          \/ i - Len(replies) \in 1 .. Len(tail) /\ (replies \o tail)[i] = tail[i - Len(replies)]
    OBVIOUS
  <1>4. Fresh(replies, Tail(queue), latest)
    BY FreshKept
  <1> QED BY <1>2, <1>3, <1>4 DEF Fresh
-----------------------------------------------------------------------------
(* How far the script of a call is.                                        *)

Connecting ==
    <<Send(Cmd("X")), Do("collect"), Request(Cmd("W"), ConnectRetries),
      Request(Cmd("L"), ConnectRetries)>>

TwoPassMethods == {"save_config", "change_network"}

\* get_config() has still to ask for the settings it has no value of, in order;
\* connect() is at its search only if it has no MAC address.
Follows ==
    /\ op = "get_config" =>
         /\ Len(got) <= Count /\ Len(script) = Count - Len(got)
         /\ \A j \in 1 .. Len(script) : script[j] = Request(Get(Ask(Len(got) + j)), Retries)
    /\ op = "connect" =>
         /\ Len(script) <= 4
         /\ \A j \in 1 .. Len(script) : script[j] = Connecting[4 - Len(script) + j]
         /\ Len(script) >= 3 => device.mac = NoMac
    /\ op # "get_config" => script \in Seq(Silent)
    /\ op # "get_config" /\ (op \notin TwoPassMethods \/ device.target = "all") =>
         script \in Seq(Straight)
    /\ via = "fallback" => op \in TwoPassMethods /\ device.target # "all"
    /\ waiting => attempts > 0
    /\ op = "none" => attempts = 0

LEMMA RequestFields ==
    \A cmd, retries :
      /\ Request(cmd, retries).do = "request" /\ Request(cmd, retries).cmd = cmd
      /\ Request(cmd, retries).retries = retries /\ Request(cmd, retries).to = "target"
  BY DEF Request, Step

LEMMA ConcatOf ==
    ASSUME NEW S, NEW s \in Seq(S), NEW t \in Seq(S)
    PROVE  /\ s \o t \in Seq(S) /\ Len(s \o t) = Len(s) + Len(t)
           /\ \A i \in 1 .. Len(s) : (s \o t)[i] = s[i]
           /\ \A i \in 1 .. Len(t) : (s \o t)[Len(s) + i] = t[i]
           /\ Len(s) \in Nat /\ Len(t) \in Nat
  OBVIOUS

LEMMA Joined ==
    ASSUME NEW a, NEW b, NEW c, NEW d
    PROVE  <<a, b>> \o <<c, d>> = <<a, b, c, d>>
  <1> DEFINE s == <<a, b>>
             t == <<c, d>>
             r == s \o t
             S == {a, b, c, d}
  <1>1. s \in Seq(S) /\ t \in Seq(S)
    OBVIOUS
  <1>2. Len(s) = 2 /\ Len(t) = 2 /\ s[1] = a /\ s[2] = b /\ t[1] = c /\ t[2] = d
    OBVIOUS
  <1> HIDE DEF s, t, S
  <1>3. /\ r \in Seq(S) /\ Len(r) = Len(s) + Len(t)
        /\ \A i \in 1 .. Len(s) : r[i] = s[i]
        /\ \A i \in 1 .. Len(t) : r[Len(s) + i] = t[i]
    BY <1>1, ConcatOf
  <1> HIDE DEF r
  <1>4. r \in Seq(S) /\ Len(r) = 4 /\ r[1] = a /\ r[2] = b /\ r[2 + 1] = c /\ r[2 + 2] = d
    BY <1>2, <1>3
  <1>5. r = <<a, b, c, d>>
    BY <1>4
  <1> QED BY <1>5 DEF r, s, t

LEMMA ConnectingFields ==
    /\ Len(Connecting) = 4
    /\ Connecting[1].do = "send" /\ Connecting[1].cmd.c = "X"
    /\ Connecting[2].do = "collect"
    /\ Connecting[3].do = "request" /\ Connecting[3].cmd.c = "W"
    /\ Connecting[4].do = "request" /\ Connecting[4].cmd.c = "L"
  <1>1. \A c : Cmd(c).c = c
    BY DEF Cmd
  <1>2. \A cmd : Send(cmd).do = "send" /\ Send(cmd).cmd = cmd
    BY DEF Send, Step
  <1>3. Do("collect").do = "collect"
    BY DEF Do, Step
  <1>4. /\ Len(Connecting) = 4
        /\ Connecting[1] = Send(Cmd("X")) /\ Connecting[2] = Do("collect")
        /\ Connecting[3] = Request(Cmd("W"), ConnectRetries)
        /\ Connecting[4] = Request(Cmd("L"), ConnectRetries)
    BY DEF Connecting
  <1> HIDE DEF Connecting
  <1> QED BY <1>1, <1>2, <1>3, <1>4, RequestFields

\* The steps of the host once more, with what they do to the device, to the replies and
\* to the count of the sends.
Idles == Waits /\ attempts' = attempts /\ (waiting' => waiting)

Repeats == Asks /\ attempts' > 0

Proceeds == Passes /\ (Head(script).do = "request" => waiting)

Switches == FallsBack /\ UNCHANGED <<waiting, attempts>>

FindsDevice == op = "connect" /\ script # <<>> /\ Head(script).do = "collect" /\ Proceeds

HostDoes ==
    /\ UNCHANGED <<isOpen, modules, calls, faults>> /\ device'.target = device.target
    /\ inbox' = inbox \/ (inbox # <<>> /\ inbox' = Tail(inbox))
    /\ \/ UNCHANGED device /\ (Idles \/ Repeats \/ Ends \/ Proceeds \/ PutsOut \/ Switches)
       \/ FindsDevice

LEMMA HostDoesSo ==
    ASSUME Typed, HostStep
    PROVE  HostDoes
  <1>1. CASE Return
    BY <1>1 DEF Return, HostDoes, Ends, own
  <1>2. CASE DoSend
    BY <1>2 DEF DoSend, AtStep, HostDoes, PutsOut, own
  <1>3. CASE RequestSends
    <2>1. /\ script # <<>> /\ Head(script).do = "request"
          /\ UNCHANGED <<own, inbox, modules, calls, faults>>
      BY <1>3 DEF RequestSends, AtStep
    <2>2. attempts \in Nat
      BY MostTries DEF Typed, TypedControl
    <2>3. Repeats \/ Ends
      BY <1>3, <2>1, <2>2 DEF RequestSends, Counted, Repeats, Asks, Ends, Outcomes
    <2> QED BY <2>1, <2>3 DEF HostDoes, own
  <1>4. CASE NoReply
    BY <1>4 DEF NoReply, AtStep, HostDoes, Idles, Waits, own
  <1>5. CASE Reply
    <2>1. /\ script # <<>> /\ Head(script).do = "request" /\ waiting
          /\ inbox # <<>> /\ inbox' = Tail(inbox)
          /\ UNCHANGED <<own, toModules, modules, calls, faults>>
      BY <1>5 DEF Reply, AtStep
    <2>2. \/ Finish("ValueError") \/ Advance
          \/ waiting' = FALSE /\ UNCHANGED <<op, script, via, attempts, ended>>
      BY <1>5 DEF Reply
    <2>3. Idles \/ Ends \/ Proceeds
      BY <2>1, <2>2 DEF Idles, Waits, Ends, Proceeds, Passes, Outcomes
    <2> QED BY <2>1, <2>3 DEF HostDoes, own
  <1>6. CASE Collect
    BY <1>6 DEF Collect, AtStep, HostDoes, Idles, Waits, own, control
  <1>7. CASE CollectEnds
    <2>1. /\ script # <<>> /\ Head(script).do = "collect"
          /\ UNCHANGED <<isOpen, toModules, modules, calls, faults>>
          /\ inbox' = inbox \/ (inbox # <<>> /\ inbox' = Tail(inbox))
      BY <1>7 DEF CollectEnds, AtStep
    <2>2. \/ UNCHANGED device /\ (Finish("ValueError") \/ Advance \/ Finish("ConnectionError"))
          \/ op = "connect" /\ Advance
      BY <1>7 DEF CollectEnds
    <2>3. device'.target = device.target
      BY <1>7 DEF CollectEnds, Typed, TypedOwn, AllDevices
    <2>4. (UNCHANGED device /\ (Ends \/ Proceeds)) \/ FindsDevice
      BY <2>1, <2>2 DEF Ends, Passes, Proceeds, FindsDevice, Outcomes
    <2> QED BY <2>1, <2>3, <2>4 DEF HostDoes
  <1>8. CASE Drain
    <2>1. /\ script # <<>> /\ Head(script).do = "drain"
          /\ UNCHANGED <<own, toModules, modules, calls, faults>>
          /\ inbox' = inbox \/ (inbox # <<>> /\ inbox' = Tail(inbox))
      BY <1>8 DEF Drain, AtStep
    <2>2. Finish("ValueError") \/ Advance
      BY <1>8 DEF Drain
    <2>3. Ends \/ Proceeds
      BY <2>1, <2>2 DEF Ends, Passes, Proceeds, Outcomes
    <2> QED BY <2>1, <2>3 DEF HostDoes, own
  <1>9. CASE Sleep
    <2>1. /\ script # <<>> /\ Head(script).do = "sleep"
          /\ UNCHANGED <<own, inbox, toModules, modules, calls, faults>>
          /\ Advance
      BY <1>9 DEF Sleep, AtStep
    <2>2. ~hasty' => ~hasty /\ toModules = <<>> /\ Target \in up
      BY <2>1 DEF Advance
    <2> QED BY <2>1, <2>2 DEF HostDoes, Proceeds, Passes, own
  <1>10. CASE Fallback
    BY <1>10 DEF Fallback, AtStep, HostDoes, Switches, FallsBack, own
  <1> QED BY <1>1, <1>2, <1>3, <1>4, <1>5, <1>6, <1>7, <1>8, <1>9, <1>10 DEF HostStep

\* What a step of get_config() does while setting g is asked for.
Returns == script = <<>> /\ Finish("returned") /\ UNCHANGED <<got, inbox, toModules>>

Breaks ==
    /\ (\E kind \in {"TimeoutError", "ValueError"} : Finish(kind))
    /\ UNCHANGED <<got, toModules>>

Queries(g) ==
    /\ g <= Count /\ Repeats /\ UNCHANGED <<got, inbox>>
    /\ Datagram \in Datagrams /\ AskedFor(Datagram, g, devices)
    /\ Datagram.mac = device.mac /\ Datagram.to = device.target

Reads(g) ==
    /\ g <= Count /\ inbox # <<>> /\ Tells(Head(inbox), g)
    /\ inbox' = Tail(inbox)
    /\ got' = Append(got, [of |-> Head(inbox).of, value |-> Head(inbox).value])
    /\ Advance /\ UNCHANGED toModules

LEMMA GetConfigDoes ==
    ASSUME Typed, Follows, op = "get_config", HostStep
    PROVE  \/ Returns \/ Breaks \/ Queries(Len(got) + 1)
           \/ (Idles /\ UNCHANGED got) \/ Reads(Len(got) + 1)
  <1> DEFINE g == Len(got) + 1
  <1>0. Len(got) \in Nat /\ Count \in Nat /\ Len(script) \in Nat /\ attempts \in Nat
    BY Asked, MostTries DEF Typed, TypedResults, TypedControl
  <1>1. ASSUME script # <<>>
        PROVE  /\ g \in 1 .. Count /\ Head(script).do = "request"
               /\ Head(script).cmd = Get(Ask(g)) /\ Head(script).to = "target"
               /\ Head(script).cmd.c = "G" /\ Head(script).cmd.field = Ask(g)
    <2>1. Head(script) = script[1] /\ 1 \in 1 .. Len(script)
      BY <1>1, TailOf DEF Typed, TypedControl
    <2>2. g \in 1 .. Count
      BY <1>0, <2>1 DEF Follows
    <2> QED BY <2>1, <2>2, RequestFields, GetFields DEF Follows
  <1>2. via = "main" /\ op # "connect"
    BY DEF Follows, TwoPassMethods, Typed, TypedControl
  <1>3. ASSUME NEW do, do # "request" PROVE ~AtStep(do)
    BY <1>1, <1>3 DEF AtStep
  <1>4. CASE Return
    BY <1>4 DEF Return, Returns, results
  <1>5. CASE RequestSends
    <2>1. /\ script # <<>> /\ UNCHANGED <<results, inbox>>
          /\ \/ /\ toModules' = Append(toModules, Datagram) /\ attempts' = attempts + 1
                /\ UNCHANGED <<op, script, via, ended>>
             \/ Finish("TimeoutError") /\ UNCHANGED toModules
      BY <1>5 DEF RequestSends, AtStep, Counted
    <2>2. AskedFor(Datagram, g, devices) /\ Datagram \in Datagrams
      BY <1>1, <1>2, <2>1, Sent DEF AskedFor
    <2>3. Datagram.mac = device.mac /\ Datagram.to = device.target
      BY <1>1, <1>2, <2>1, Sent DEF Datagram
    <2> HIDE DEF g
    <2>4. CASE Finish("TimeoutError") /\ UNCHANGED toModules
      BY <2>1, <2>4 DEF Breaks, results
    <2>5. CASE /\ toModules' = Append(toModules, Datagram) /\ attempts' = attempts + 1
               /\ UNCHANGED <<op, script, via, ended>>
      <3>1. Repeats
        BY <1>0, <1>1, <2>1, <2>5 DEF Repeats, Asks
      <3>2. g <= Count
        BY <1>0, <1>1, <2>1
      <3> QED BY <2>1, <2>2, <2>3, <3>1, <3>2 DEF Queries, results, g
    <2> QED BY <2>1, <2>4, <2>5
  <1>6. CASE NoReply
    BY <1>6 DEF NoReply, Idles, Waits, results
  <1>7. CASE Reply
    <2>1. /\ script # <<>> /\ inbox # <<>> /\ inbox' = Tail(inbox) /\ UNCHANGED toModules
      BY <1>7 DEF Reply, AtStep
    <2>2. CASE Head(inbox).kind = "text"
      BY <1>7, <2>1, <2>2 DEF Reply, Idles, Waits
    <2>3. CASE Head(inbox).kind = "binary" \/ ~Fits(Head(script).cmd, Head(inbox))
      BY <1>7, <2>1, <2>3 DEF Reply, Breaks, Idles, Waits
    <2>4. CASE /\ Head(inbox).kind # "text" /\ Head(inbox).kind # "binary"
               /\ Fits(Head(script).cmd, Head(inbox))
      <3>1. /\ Advance
            /\ got' = Append(got, [of |-> Head(inbox).of, value |-> Head(inbox).value])
        BY <1>1, <1>7, <2>1, <2>4 DEF Reply
      <3>2. Tells(Head(inbox), g)
        BY <1>1, <2>1, <2>4 DEF Fits, Tells
      <3>3. g <= Count
        BY <1>0, <1>1, <2>1
      <3> QED BY <2>1, <3>1, <3>2, <3>3 DEF Reads
    <2> QED BY <2>2, <2>3, <2>4
  <1> QED BY <1>3, <1>4, <1>5, <1>6, <1>7
          DEF HostStep, DoSend, Collect, CollectEnds, Drain, Sleep, Fallback

LEMMA FollowsFinish ==
    ASSUME NEW kind, Finish(kind)
    PROVE  Follows'
  <1>1. /\ op' = "none" /\ script' = <<>> /\ via' = "main" /\ waiting' = FALSE /\ attempts' = 0
        /\ <<>> \in Seq(Silent) /\ <<>> \in Seq(Straight)
    BY DEF Finish
  <1> QED BY <1>1 DEF Follows, TwoPassMethods

LEMMA FollowsTail ==
    ASSUME Typed, Follows, op # "get_config", script # <<>>, Advance,
           device'.target = device.target,
           UNCHANGED device \/ Head(script).do = "collect"
    PROVE  Follows'
  <1>1. /\ script' = Tail(script) /\ ~waiting' /\ attempts' = 0 /\ UNCHANGED <<op, via>>
    BY DEF Advance
  <1>2. /\ script \in Seq(Steps) /\ Len(script) \in Nat \ {0} /\ Len(script') = Len(script) - 1
        /\ Head(script) = script[1]
        /\ \A i \in 1 .. Len(script') : i + 1 \in 1 .. Len(script) /\ script'[i] = script[i + 1]
    BY <1>1, TailOf DEF Typed, TypedControl
  <1>3. ASSUME op = "connect"
        PROVE  /\ Len(script') <= 4
               /\ \A j \in 1 .. Len(script') : script'[j] = Connecting[4 - Len(script') + j]
               /\ Len(script') >= 3 => device'.mac = NoMac
    <2>1. /\ Len(script) <= 4
          /\ \A j \in 1 .. Len(script) : script[j] = Connecting[4 - Len(script) + j]
          /\ Len(script) >= 3 => device.mac = NoMac
      BY <1>3 DEF Follows
    <2>2. \A j \in 1 .. Len(script') : script'[j] = Connecting[4 - Len(script') + j]
      <3> SUFFICES ASSUME NEW j \in 1 .. Len(script')
                   PROVE  script'[j] = Connecting[4 - Len(script') + j]
        OBVIOUS
      <3>1. 4 - Len(script) + (j + 1) = 4 - Len(script') + j
        BY <1>2
      <3> QED BY <1>2, <2>1, <3>1
    <2>3. ASSUME Len(script') >= 3 PROVE UNCHANGED device
      <3>1. Len(script) = 4 /\ 1 \in 1 .. Len(script)
        BY <1>2, <2>1, <2>3
      <3>2. script[1] = Connecting[1]
        BY <2>1, <3>1
      <3> QED BY <1>2, <3>2, ConnectingFields
    <2> QED BY <1>2, <2>1, <2>2, <2>3
  <1>4. script' \in Seq(Silent)
    BY <1>1, TailOf DEF Follows
  <1>5. op \notin TwoPassMethods \/ device.target = "all" => script' \in Seq(Straight)
    BY <1>1, TailOf DEF Follows
  <1> QED BY <1>1, <1>3, <1>4, <1>5 DEF Follows

LEMMA FollowsHost ==
    ASSUME Typed, Follows, HostStep
    PROVE  Follows'
  <1>0. HostDoes /\ op # "none"
    BY HostDoesSo, HostMoves
  <1>1. CASE op = "get_config"
    <2>0. /\ Len(got) \in Nat /\ Count \in Nat /\ op # "connect" /\ "get_config" # "none"
          /\ device' = device
      BY <1>0, <1>1, Asked DEF Typed, TypedResults, HostDoes, FindsDevice
    <2>1. CASE Returns
      BY <2>1, FollowsFinish DEF Returns
    <2>2. CASE Breaks
      BY <2>2, FollowsFinish DEF Breaks
    <2>3. CASE Queries(Len(got) + 1) \/ (Idles /\ UNCHANGED got)
      <3>1. /\ UNCHANGED <<op, script, via, got>>
            /\ (attempts' = attempts /\ (waiting' => waiting)) \/ attempts' > 0
        BY <2>3 DEF Queries, Repeats, Asks, Idles, Waits
      <3> QED BY <1>1, <2>0, <3>1 DEF Follows
    <2>4. CASE Reads(Len(got) + 1)
      <3>1. /\ Advance /\ Len(got) + 1 <= Count
            /\ \E reading : got' = Append(got, reading)
        BY <2>4 DEF Reads
      <3>2. Len(got') = Len(got) + 1
        <4>1. PICK reading : got' = Append(got, reading)
          BY <3>1
        <4>2. got \in Seq(Readings \cup {reading})
          BY DEF Typed, TypedResults
        <4> QED BY <4>1, <4>2, AppendOf
      <3>3. /\ script' = Tail(script) /\ ~waiting' /\ UNCHANGED <<op, via>>
        BY <3>1 DEF Advance
      <3>4. /\ Len(script) = Count - Len(got)
            /\ \A j \in 1 .. Len(script) : script[j] = Request(Get(Ask(Len(got) + j)), Retries)
        BY <1>1 DEF Follows
      <3>5. script # <<>>
        BY <2>0, <3>1, <3>4
      <3>6. /\ Len(script') = Len(script) - 1 /\ Len(script) \in Nat
            /\ \A i \in 1 .. Len(script') :
                 i + 1 \in 1 .. Len(script) /\ script'[i] = script[i + 1]
        BY <3>3, <3>5, TailOf DEF Typed, TypedControl
      <3>7. ASSUME NEW j \in 1 .. Len(script')
            PROVE  script'[j] = Request(Get(Ask(Len(got') + j)), Retries)
        <4>1. Len(got) + (j + 1) = Len(got') + j
          BY <2>0, <3>2
        <4> QED BY <3>4, <3>6, <4>1
      <3>8. Len(got') <= Count /\ Len(script') = Count - Len(got')
        BY <2>0, <3>1, <3>2, <3>4, <3>6
      <3> QED BY <1>1, <2>0, <3>3, <3>7, <3>8 DEF Follows
    <2> QED BY <1>1, <2>1, <2>2, <2>3, <2>4, GetConfigDoes
  <1>2. CASE op # "get_config"
    <2>1. CASE Ends
      BY <2>1, FollowsFinish DEF Ends
    <2>2. CASE UNCHANGED device /\ (Idles \/ Repeats)
      <3>1. /\ UNCHANGED <<op, script, via, device>>
            /\ (attempts' = attempts /\ (waiting' => waiting)) \/ attempts' > 0
        BY <2>2 DEF Repeats, Asks, Idles, Waits
      <3> QED BY <1>0, <1>2, <3>1 DEF Follows
    <2>3. CASE FindsDevice \/ (UNCHANGED device /\ (Proceeds \/ PutsOut))
      <3>1. /\ script # <<>> /\ Advance /\ device'.target = device.target
            /\ UNCHANGED device \/ Head(script).do = "collect"
        BY <1>0, <2>3 DEF FindsDevice, Proceeds, Passes, PutsOut, HostDoes
      <3> QED BY <1>2, <3>1, FollowsTail
    <2>4. CASE UNCHANGED device /\ Switches
      <3>1. /\ script # <<>> /\ Head(script).do = "fallback" /\ script' = Tail(script)
            /\ via' = "fallback" /\ UNCHANGED <<device, op, waiting, attempts>>
        BY <2>4 DEF Switches, FallsBack
      <3>2. script \notin Seq(Straight)
        BY <3>1, TailOf DEF Straight
      <3>3. op \in TwoPassMethods /\ device.target # "all"
        BY <1>2, <3>2 DEF Follows
      <3>4. script' \in Seq(Silent)
        BY <1>2, <3>1, TailOf DEF Follows
      <3> QED BY <3>1, <3>3, <3>4 DEF Follows, TwoPassMethods
    <2> QED BY <1>0, <2>1, <2>2, <2>3, <2>4 DEF HostDoes
  <1> QED BY <1>1, <1>2

LEMMA ConnectIs ==
    /\ device.mac = NoMac => connect = Connecting
    /\ device.mac # NoMac =>
         Len(connect) = 2 /\ connect[1] = Connecting[3] /\ connect[2] = Connecting[4]
  <1> DEFINE last == <<Request(Cmd("W"), ConnectRetries), Request(Cmd("L"), ConnectRetries)>>
  <1>1. CASE device.mac = NoMac
    <2>1. connect = search \o last
      BY <1>1 DEF connect
    <2>2. connect = Connecting
      BY <2>1, Joined DEF search, Connecting
    <2> QED BY <1>1, <2>2
  <1>2. CASE device.mac # NoMac
    <2>1. connect = last
      BY <1>2 DEF connect
    <2>2. Len(connect) = 2 /\ connect[1] = Connecting[3] /\ connect[2] = Connecting[4]
      BY <2>1 DEF Connecting
    <2> QED BY <1>2, <2>2
  <1> QED BY <1>1, <1>2

LEMMA FollowsCall ==
    ASSUME Typed, Follows, NEW method \in Methods, Call(method)
    PROVE  Follows'
  <1>1. /\ op = "none" /\ op' = method /\ script' = Script(method) /\ got' = <<>>
        /\ UNCHANGED <<device, via, waiting, attempts>>
    BY DEF Call, own
  <1>2. method \in AllMethods /\ method # "none"
    BY ConstantsAssumption DEF AllMethods
  <1>3. attempts = 0 /\ ~waiting /\ via = "main"
    BY <1>1 DEF Follows, Typed, TypedControl, TwoPassMethods
  <1>4. CASE method = "get_config"
    <2>1. script' = [i \in 1 .. Count |-> Request(Get(Ask(i)), Retries)]
      BY <1>1, <1>4 DEF Script, get_config, Ask, Count
    <2>2. /\ Len(got') = 0 /\ Count \in Nat /\ \A j \in 1 .. Count : 0 + j = j
          /\ Len(script') = Count
      BY <1>1, <2>1, Asked
    <2> QED BY <1>1, <1>3, <1>4, <2>1, <2>2 DEF Follows
  <1>5. CASE method # "get_config"
    <2>1. /\ script' \in Seq(Silent)
          /\ method \notin TwoPassMethods \/ device.target = "all" => script' \in Seq(Straight)
      BY <1>1, <1>2, <1>5, ScriptSilent DEF TwoPassMethods
    <2>2. ASSUME method = "connect"
          PROVE  /\ Len(script') <= 4
                 /\ \A j \in 1 .. Len(script') : script'[j] = Connecting[4 - Len(script') + j]
                 /\ Len(script') >= 3 => device.mac = NoMac
      <3>1. CASE device.mac = NoMac
        <4>1. script' = Connecting
          BY <1>1, <2>2, <3>1, ConnectIs DEF Script
        <4>2. \A j \in 1 .. 4 : 4 - 4 + j = j
          OBVIOUS
        <4> QED BY <3>1, <4>1, <4>2, ConnectingFields
      <3>2. CASE device.mac # NoMac
        <4>1. script' = connect
          BY <1>1, <2>2 DEF Script
        <4>2. Len(script') = 2 /\ script'[1] = Connecting[3] /\ script'[2] = Connecting[4]
          BY <3>2, <4>1, ConnectIs
        <4> QED BY <4>2
      <3> QED BY <3>1, <3>2
    <2> QED BY <1>1, <1>2, <1>3, <1>5, <2>1, <2>2 DEF Follows, TwoPassMethods
  <1> QED BY <1>4, <1>5

LEMMA FollowsKept ==
    ASSUME Follows, UNCHANGED <<device, op, script, via, waiting, attempts, got>>
    PROVE  Follows'
  BY DEF Follows

LEMMA FollowsStep ==
    ASSUME Typed, Follows, Next
    PROVE  Follows'
  <1>1. ASSUME NEW d \in Devices, New(d) PROVE Follows'
    <2>1. op = "none" /\ UNCHANGED control
      BY <1>1 DEF New
    <2>2. script = <<>> /\ ~waiting /\ attempts = 0 /\ via = "main"
      BY <2>1 DEF Typed, TypedControl, Follows, TwoPassMethods
    <2>3. <<>> \in Seq(Silent) /\ <<>> \in Seq(Straight)
      OBVIOUS
    <2> QED BY <2>1, <2>2, <2>3 DEF Follows, control, TwoPassMethods
  <1>2. CASE Close
    BY <1>2, FollowsKept DEF Close, control, results
  <1>3. ASSUME NEW method \in Methods, Call(method) PROVE Follows'
    BY <1>3, FollowsCall
  <1>4. ASSUME NEW method \in Methods, CallClosed(method) PROVE Follows'
    BY <1>4, FollowsKept DEF CallClosed, own, control, results
  <1>5. CASE \/ Delivery \/ Lose
             \/ \E m \in Modules : Boots(m)
             \/ \E kind \in StrayKinds : Stray(kind)
    <2>1. UNCHANGED host
      BY <1>5 DEF Delivery, EchoArrives, SelectArrives, LoginArrives, GetArrives, SetArrives,
                  RebootArrives, Handled, Lose, Boots, Stray
    <2> QED BY <2>1, FollowsKept DEF host, own, control, results
  <1> QED BY <1>1, <1>2, <1>3, <1>4, <1>5, FollowsHost DEF Next
-----------------------------------------------------------------------------
(* What comes of a datagram that arrives.                                  *)

\* d has arrived, and tail is what gets through of the answers.
Answered(d, tail) ==
    /\ toModules # <<>> /\ d = Head(toModules) /\ d \in Datagrams
    /\ toModules' = Tail(toModules)
    /\ tail \in Seq(Arrivals) /\ inbox' = inbox \o tail
    /\ \A i \in 1 .. Len(tail) :
         /\ AnswerTo(d, tail[i], devices)
         /\ d.cmd.c = "G" =>
              \E m \in Obeys(d) : /\ tail[i].of = <<m, d.cmd.field>>
                                  /\ tail[i].value = settings'[m][d.cmd.field]
    /\ UNCHANGED <<host, calls, strays>> /\ lost' \in Nat /\ lost <= lost'
    /\ d.cmd.c # "S" => settings' = settings
    /\ IF d.cmd.c = "W"
         THEN /\ selected' = (selected \ Hearers(d)) \cup (Hearers(d) \cap {d.mac})
              /\ up' = up
       ELSE selected' \subseteq selected /\ (selected \subseteq up => selected' \subseteq up')

LEMMA StrayArrives ==
    ASSUME NEW kind \in StrayKinds, Stray(kind)
    PROVE  \E stray \in Arrivals : ~IsReply(stray) /\ inbox' = Append(inbox, stray)
  <1>1. PICK stray : stray = [kind |-> kind, value |-> Unset, check |-> Unset]
    OBVIOUS
  <1>2. inbox' = Append(inbox, stray)
    BY <1>1 DEF Stray, Unset
  <1>3. stray \in [kind : {"text", "binary"}, value : {Unset}, check : {Unset}]
    BY <1>1, ConstantsAssumption
  <1>4. ~IsReply(stray)
    BY <1>3 DEF IsReply
  <1>5. stray \in Arrivals
    BY <1>3 DEF Arrivals, Unset
  <1> QED BY <1>2, <1>4, <1>5

LEMMA AnswerFields ==
    /\ \A m : Echo(m).kind = "echo"
    /\ Ack.kind = "ack"
    /\ \A m, field, v, check :
         /\ Value(m, field, v, check).kind = "value" /\ Value(m, field, v, check).check = check
         /\ Value(m, field, v, check).value = v /\ Value(m, field, v, check).of = <<m, field>>
  <1>1. \A m : Echo(m).kind = "echo"
    BY DEF Echo
  <1>2. Ack.kind = "ack"
    BY DEF Ack
  <1>3. \A m, field, v, check :
         /\ Value(m, field, v, check).kind = "value" /\ Value(m, field, v, check).check = check
         /\ Value(m, field, v, check).value = v /\ Value(m, field, v, check).of = <<m, field>>
    BY DEF Value
  <1> QED BY <1>1, <1>2, <1>3

LEMMA DeliveryIs ==
    ASSUME Typed, Delivery
    PROVE  \E d, tail : Answered(d, tail)
  <1>1. PICK d : d = Head(toModules)
    OBVIOUS
  <1>2. /\ toModules # <<>> /\ toModules' = Tail(toModules) /\ d \in Datagrams
        /\ UNCHANGED <<host, calls, strays>> /\ lost' \in Nat /\ lost <= lost'
    BY <1>1, DeliveryAnswers
  <1>3. PICK tail \in Seq(Arrivals) :
             /\ inbox' = inbox \o tail
             /\ \E order : Through(d, RepliesTo(d, settings'), tail, order)
    BY <1>1, DeliveryAnswers
  <1>4. PICK order : Through(d, RepliesTo(d, settings'), tail, order)
    BY <1>3
  <1>5. d.cmd.c # "S" => settings' = settings
    BY <1>1 DEF Delivery, EchoArrives, SelectArrives, LoginArrives, GetArrives, SetArrives,
                RebootArrives, Arrives, modules
  <1>6. IF d.cmd.c = "W"
         THEN /\ selected' = (selected \ Hearers(d)) \cup (Hearers(d) \cap {d.mac})
              /\ up' = up
        ELSE selected' \subseteq selected /\ (selected \subseteq up => selected' \subseteq up')
    <2>1. CASE EchoArrives \/ LoginArrives \/ GetArrives \/ SetArrives
      <3>1. d.cmd.c # "W" /\ UNCHANGED <<selected, up>>
        BY <1>1, <2>1 DEF EchoArrives, LoginArrives, GetArrives, SetArrives, Arrives, modules
      <3> QED BY <3>1
    <2>2. CASE SelectArrives
      BY <1>1, <2>2 DEF SelectArrives, Arrives
    <2>3. CASE RebootArrives
      <3>1. /\ d.cmd.c # "W" /\ selected' = selected \ Concerned(d) /\ up' = up \ Concerned(d)
        BY <1>1, <2>3 DEF RebootArrives, Arrives
      <3> QED BY <3>1
    <2> QED BY <2>1, <2>2, <2>3 DEF Delivery
  <1>7. ASSUME NEW i \in 1 .. Len(tail)
        PROVE  /\ AnswerTo(d, tail[i], devices)
               /\ d.cmd.c = "G" =>
                    \E m \in Obeys(d) : /\ tail[i].of = <<m, d.cmd.field>>
                                        /\ tail[i].value = settings'[m][d.cmd.field]
    <2>1. d.from = devices
      BY <1>4 DEF Through
    <2>2. PICK m \in DOMAIN RepliesTo(d, settings') : tail[i] = RepliesTo(d, settings')[m]
      BY <1>4 DEF Through
    <2>3. CASE d.cmd.c = "X"
      BY <2>1, <2>2, <2>3, AnswerFields DEF RepliesTo, AnswerTo, IsReply
    <2>4. CASE d.cmd.c = "W"
      BY <2>1, <2>2, <2>4, AnswerFields DEF RepliesTo, AnswerTo, IsReply
    <2>5. CASE d.cmd.c = "L"
      BY <2>1, <2>2, <2>5, AnswerFields DEF RepliesTo, AnswerTo, IsReply
    <2>6. CASE d.cmd.c = "G"
      <3>1. RepliesTo(d, settings') = Values(d, GetCheck(d.cmd.field), settings')
        BY <2>6 DEF RepliesTo
      <3>2. /\ m \in Obeys(d)
            /\ tail[i] = Value(m, d.cmd.field, settings'[m][d.cmd.field], GetCheck(d.cmd.field))
        BY <2>2, <3>1 DEF Values
      <3> QED BY <2>1, <2>6, <3>2, AnswerFields DEF AnswerTo, IsReply
    <2>7. CASE d.cmd.c = "S"
      <3>1. RepliesTo(d, settings') = Values(d, SetCheck(d.cmd.field), settings')
        BY <2>7 DEF RepliesTo
      <3>2. /\ m \in Obeys(d)
            /\ tail[i] = Value(m, d.cmd.field, settings'[m][d.cmd.field], SetCheck(d.cmd.field))
        BY <2>2, <3>1 DEF Values
      <3> QED BY <2>1, <2>7, <3>2, AnswerFields DEF AnswerTo, IsReply
    <2>8. CASE d.cmd.c \notin {"X", "W", "L", "G", "S"}
      <3>1. RepliesTo(d, settings') = <<>>
        BY <2>8 DEF RepliesTo
      <3> QED BY <2>2, <3>1
    <2> QED BY <2>3, <2>4, <2>5, <2>6, <2>7, <2>8
  <1>8. Answered(d, tail)
    BY <1>1, <1>2, <1>3, <1>5, <1>6, <1>7 DEF Answered
  <1> QED BY <1>8
-----------------------------------------------------------------------------
(* Whose the datagrams on their way are, and whom they select.             *)

\* What is on its way is from this device, which has told it its MAC address and its
\* target, or from an earlier one or from its second socket; by broadcast this device
\* has no second socket, and what is from it is behind what is not.  On the first
\* device no other module than its own has been selected.
Origin ==
    /\ devices = 0 => toModules = <<>> /\ selected = {} /\ op = "none" /\ ~isOpen
    /\ \A i \in 1 .. Len(toModules) :
         /\ toModules[i].from <= devices
         /\ toModules[i].from = devices =>
              /\ toModules[i].mac \in {NoMac, device.mac}
              /\ toModules[i].cmd.c # "X" => toModules[i].to = device.target
    /\ device.target = "all" =>
         \A i, j \in 1 .. Len(toModules) :
           i < j /\ toModules[i].from = devices => toModules[j].from = devices
    /\ selected \subseteq up
    /\ devices <= 1 =>
         /\ selected \subseteq {device.mac}
         /\ \A i \in 1 .. Len(toModules) : toModules[i].mac \in {NoMac, device.mac}

\* d is a datagram that a step of the host puts on its way.
Posts(d) ==
    /\ UNCHANGED device /\ d \in Datagrams /\ toModules' = Append(toModules, d)
    /\ d.mac = device.mac /\ d.from <= devices /\ (via = "main" => d.from = devices)
    /\ d.from = devices /\ d.cmd.c # "X" => d.to = device.target
    /\ op # "get_config" => d.cmd.c # "G"

LEMMA HostPosts ==
    ASSUME Typed, Follows, devices # 0, HostStep
    PROVE  \/ UNCHANGED toModules /\ ~(Repeats \/ PutsOut)
           \/ Posts(Datagram) /\ (Repeats \/ PutsOut) /\ Datagram.cmd = Head(script).cmd
                /\ script # <<>>
  <1>0. HostDoes /\ toModules \in Seq(Datagrams) /\ devices \in Nat
    BY HostDoesSo DEF Typed, TypedNet, TypedCalls
  <1>1. CASE UNCHANGED toModules
    <2>1. \A d \in Datagrams : Append(toModules, d) # toModules
      <3> SUFFICES ASSUME NEW d \in Datagrams, Append(toModules, d) = toModules PROVE FALSE
        OBVIOUS
      <3>1. Len(Append(toModules, d)) = Len(toModules) + 1 /\ Len(toModules) \in Nat
        BY <1>0, AppendOf
      <3> QED BY <3>1
    <2>2. Repeats \/ PutsOut => Datagram \in Datagrams /\ toModules' = Append(toModules, Datagram)
      BY Sent DEF Repeats, Asks, PutsOut
    <2> QED BY <1>1, <2>1, <2>2
  <1>2. CASE ~UNCHANGED toModules
    <2>1. UNCHANGED device /\ (Repeats \/ PutsOut)
      BY <1>0, <1>2 DEF HostDoes, Idles, Waits, Ends, Proceeds, Passes, Switches, FallsBack,
                        FindsDevice
    <2>2. /\ script # <<>> /\ Head(script).do \in {"send", "request"}
          /\ toModules' = Append(toModules, Datagram)
      BY <2>1 DEF Repeats, Asks, PutsOut
    <2>3. /\ Datagram \in Datagrams /\ Head(script) \in Steps
          /\ Datagram.cmd = Head(script).cmd /\ Datagram.mac = device.mac
          /\ Datagram.from = IF via = "main" THEN devices ELSE 0
      BY <2>2, Sent
    <2>4. Datagram.from <= devices /\ (Datagram.from = devices => via = "main")
      BY <1>0, <2>3
    <2>5. /\ Head(script).cmd.c # "X" => Head(script).to = "target"
          /\ op # "get_config" => Head(script).cmd.c # "G"
      <3>1. CASE op = "get_config"
        <4>1. /\ Len(got) \in Nat /\ Count \in Nat
              /\ Head(script) = script[1] /\ 1 \in 1 .. Len(script)
          BY <2>2, TailOf, Asked DEF Typed, TypedControl, TypedResults
        <4> QED BY <3>1, <4>1, RequestFields DEF Follows
      <3>2. CASE op # "get_config"
        <4>1. Head(script) \in Silent
          BY <2>2, <3>2, TailOf DEF Follows
        <4>2. Head(script).to \in {"target", "old", "new"}
          BY <2>2, <2>3, StepFields
        <4> QED BY <4>1, <4>2 DEF Silent
      <3> QED BY <3>1, <3>2
    <2>6. Datagram.from = devices /\ Datagram.cmd.c # "X" => Datagram.to = device.target
      <3>1. ASSUME via = "main", Head(script).to = "target" PROVE Datagram.to = device.target
        BY <3>1 DEF Datagram
      <3> QED BY <2>3, <2>4, <2>5, <3>1
    <2> QED BY <2>1, <2>2, <2>3, <2>4, <2>5, <2>6 DEF Posts
  <1> QED BY <1>1, <1>2

\* connect() finds its device when it has none.
LEMMA FoundFirst ==
    ASSUME Typed, Follows, FindsDevice
    PROVE  device.mac = NoMac /\ Len(script) = 3 /\ UNCHANGED toModules
  <1>1. /\ op = "connect" /\ script # <<>> /\ Head(script).do = "collect" /\ UNCHANGED toModules
    BY DEF FindsDevice, Proceeds, Passes
  <1>2. Head(script) = script[1] /\ Len(script) \in Nat \ {0} /\ 1 \in 1 .. Len(script)
    BY <1>1, TailOf DEF Typed, TypedControl
  <1>3. Len(script) <= 4 /\ script[1] = Connecting[4 - Len(script) + 1]
        /\ (Len(script) >= 3 => device.mac = NoMac)
    BY <1>1, <1>2 DEF Follows
  <1>4. Len(script) \in {1, 2, 3, 4}
    <2>1. \A n \in Nat \ {0} : n <= 4 => n \in {1, 2, 3, 4}
      OBVIOUS
    <2> QED BY <1>2, <1>3, <2>1
  <1>5. Len(script) = 3
    <2>1. Len(script) = 1 => script[1] = Connecting[4]
      BY <1>3
    <2>2. Len(script) = 2 => script[1] = Connecting[3]
      BY <1>3
    <2>3. Len(script) = 4 => script[1] = Connecting[1]
      BY <1>3
    <2> QED BY <1>1, <1>2, <1>4, <2>1, <2>2, <2>3, ConnectingFields
  <1> QED BY <1>1, <1>3, <1>5

LEMMA OriginHost ==
    ASSUME Typed, Follows, Origin, HostStep
    PROVE  Origin'
  <1>0. /\ HostDoes /\ op # "none" /\ toModules \in Seq(Datagrams) /\ devices \in Nat
        /\ selected \subseteq Modules /\ via \in {"main", "fallback"}
    BY HostDoesSo, HostMoves DEF Typed, TypedNet, TypedCalls, TypedModules, TypedControl
  <1>1. devices # 0 /\ UNCHANGED <<selected, up, devices, isOpen>> /\ device'.target = device.target
    BY <1>0 DEF Origin, HostDoes, modules, calls
  <1>2. CASE FindsDevice
    <2>1. device.mac = NoMac /\ UNCHANGED toModules
      BY <1>2, FoundFirst
    <2>2. NoMac \notin selected
      BY <1>0, ConstantsAssumption
    <2> QED BY <1>1, <2>1, <2>2 DEF Origin
  <1>3. CASE UNCHANGED <<device, toModules>>
    BY <1>1, <1>3 DEF Origin
  <1>4. CASE Posts(Datagram)
    <2> DEFINE n == Len(toModules)
    <2>1. PICK d : d = Datagram
      OBVIOUS
    <2>2. /\ UNCHANGED device /\ d \in Datagrams /\ toModules' = Append(toModules, d)
          /\ d.mac = device.mac /\ d.from <= devices /\ (via = "main" => d.from = devices)
          /\ d.from = devices /\ d.cmd.c # "X" => d.to = device.target
      BY <1>4, <2>1 DEF Posts
    <2>3. /\ n \in Nat /\ Len(toModules') = n + 1 /\ toModules'[n + 1] = d
          /\ \A i \in 1 .. n : toModules'[i] = toModules[i]
          /\ \A i \in 1 .. Len(toModules') : i \in 1 .. n \/ i = n + 1
      BY <1>0, <2>2, AppendOf
    <2>4. \A i \in 1 .. Len(toModules') :
            /\ toModules'[i].from <= devices
            /\ toModules'[i].from = devices =>
                 /\ toModules'[i].mac \in {NoMac, device.mac}
                 /\ toModules'[i].cmd.c # "X" => toModules'[i].to = device.target
      BY <2>2, <2>3 DEF Origin
    <2>5. ASSUME device.target = "all", NEW i \in 1 .. Len(toModules'),
                 NEW j \in 1 .. Len(toModules'), i < j, toModules'[i].from = devices
          PROVE  toModules'[j].from = devices
      <3>1. via = "main"
        BY <1>0, <2>5 DEF Follows
      <3>2. i \in 1 .. n
        BY <2>3, <2>5
      <3> QED BY <2>2, <2>3, <2>5, <3>1, <3>2 DEF Origin
    <2>6. devices <= 1 => \A i \in 1 .. Len(toModules') : toModules'[i].mac \in {NoMac, device.mac}
      BY <2>2, <2>3 DEF Origin
    <2> QED BY <1>1, <2>2, <2>4, <2>5, <2>6 DEF Origin
  <1>5. UNCHANGED device \/ FindsDevice
    BY <1>0 DEF HostDoes
  <1> QED BY <1>1, <1>2, <1>3, <1>4, <1>5, HostPosts

\* The oldest datagram has arrived or is lost.
LEMMA OriginTail ==
    ASSUME Typed, Origin, toModules # <<>>, toModules' = Tail(toModules),
           UNCHANGED <<device, isOpen, op, devices>>, selected' \subseteq up',
           devices <= 1 => selected' \subseteq {device.mac}
    PROVE  Origin'
  <1>1. toModules \in Seq(Datagrams) /\ devices # 0
    BY DEF Typed, TypedNet, Origin
  <1>2. /\ \A i \in 1 .. Len(toModules') :
              i + 1 \in 1 .. Len(toModules) /\ toModules'[i] = toModules[i + 1]
        /\ \A i, j \in 1 .. Len(toModules') : i < j => i + 1 < j + 1
    BY <1>1, TailOf
  <1>3. \A i \in 1 .. Len(toModules') :
          /\ toModules'[i].from <= devices
          /\ toModules'[i].from = devices =>
               /\ toModules'[i].mac \in {NoMac, device.mac}
               /\ toModules'[i].cmd.c # "X" => toModules'[i].to = device.target
          /\ devices <= 1 => toModules'[i].mac \in {NoMac, device.mac}
    BY <1>2 DEF Origin
  <1>4. device.target = "all" =>
          \A i, j \in 1 .. Len(toModules') :
            i < j /\ toModules'[i].from = devices => toModules'[j].from = devices
    BY <1>2 DEF Origin
  <1> QED BY <1>1, <1>3, <1>4 DEF Origin

LEMMA OriginStep ==
    ASSUME Typed, Follows, Origin, Next
    PROVE  Origin'
  <1>0. /\ toModules \in Seq(Datagrams) /\ devices \in Nat /\ up \subseteq Modules
        /\ NoMac \notin Modules /\ Len(toModules) \in Nat
    BY ConstantsAssumption DEF Typed, TypedNet, TypedCalls, TypedModules
  <1>1. ASSUME NEW d \in Devices, New(d) PROVE Origin'
    <2>1. devices' = devices + 1 /\ device' = d /\ UNCHANGED <<toModules, selected, up>>
      BY <1>1 DEF New, modules
    <2>2. \A i \in 1 .. Len(toModules) :
            toModules[i].from <= devices' /\ toModules[i].from # devices'
      <3> SUFFICES ASSUME NEW i \in 1 .. Len(toModules)
                   PROVE  toModules[i].from <= devices' /\ toModules[i].from # devices'
        OBVIOUS
      <3>1. toModules[i] \in Datagrams
        BY <1>0
      <3>2. toModules[i].from \in Int /\ toModules[i].from <= devices
        BY <3>1, ConstantsAssumption DEF Datagrams, Origin
      <3> QED BY <1>0, <2>1, <3>2
    <2>3. devices' # 0 /\ (devices' <= 1 => toModules = <<>> /\ selected = {})
      BY <1>0, <2>1 DEF Origin
    <2> QED BY <2>1, <2>2, <2>3 DEF Origin
  <1>2. CASE Close
    BY <1>2 DEF Close, control, modules, calls, Origin
  <1>3. ASSUME NEW method \in Methods, Call(method) \/ CallClosed(method) PROVE Origin'
    <2>1. /\ UNCHANGED <<device, isOpen, toModules, devices, selected, up>>
          /\ op' = op \/ isOpen
      BY <1>3 DEF Call, CallClosed, own, control, modules
    <2> QED BY <2>1 DEF Origin
  <1>4. CASE Delivery
    <2>1. PICK d, tail : Answered(d, tail)
      BY <1>4, DeliveryIs
    <2>2. /\ toModules # <<>> /\ d = toModules[1] /\ 1 \in 1 .. Len(toModules)
          /\ toModules' = Tail(toModules) /\ UNCHANGED <<device, isOpen, op, devices>>
      BY <1>0, <2>1, TailOf DEF Answered, host, own, control, calls
    <2>3. Hearers(d) \subseteq up
      BY Audience
    <2>4. selected' \subseteq up'
      BY <2>1, <2>3 DEF Answered, Origin
    <2>5. ASSUME devices <= 1 PROVE selected' \subseteq {device.mac}
      <3>1. selected \subseteq {device.mac} /\ d.mac \in {NoMac, device.mac}
        BY <2>2, <2>5 DEF Origin
      <3> QED BY <1>0, <2>1, <2>3, <3>1 DEF Answered
    <2> QED BY <2>2, <2>4, <2>5, OriginTail
  <1>5. ASSUME NEW m \in Modules, Boots(m) PROVE Origin'
    BY <1>5 DEF Boots, host, own, control, calls, Origin
  <1>6. CASE Lose
    <2>1. /\ toModules # <<>> /\ toModules' = Tail(toModules)
          /\ UNCHANGED <<device, isOpen, op, devices, selected, up>>
      BY <1>6 DEF Lose, host, own, control, calls, modules
    <2> QED BY <2>1, OriginTail DEF Origin
  <1>7. ASSUME NEW kind \in StrayKinds, Stray(kind) PROVE Origin'
    BY <1>7 DEF Stray, host, own, control, calls, modules, Origin
  <1> QED BY <1>1, <1>2, <1>3, <1>4, <1>5, <1>6, <1>7, OriginHost DEF Next
-----------------------------------------------------------------------------
(* What is asked for and answered stays in line.                           *)

Lined ==
    standing # "raised" =>
      IF op = "get_config" THEN InLine(Len(got) + 1, inbox, toModules, devices)
      ELSE Fresh(inbox, toModules, devices)

LEMMA EndsWell ==
    ASSUME NEW kind, Finish(kind), standing' # "raised"
    PROVE  kind = "returned" /\ standing # "raised"
  BY DEF Finish

LEMMA LinedHost ==
    ASSUME Typed, Follows, Origin, Lined, HostStep, standing' # "raised"
    PROVE  Lined'
  <1>0. /\ HostDoes /\ HostMove /\ op # "none" /\ UNCHANGED devices
        /\ inbox \in Seq(Arrivals) /\ toModules \in Seq(Datagrams)
        /\ Len(got) \in Nat /\ Count \in Nat /\ "get_config" # "none"
    BY HostDoesSo, HostMoves, Asked DEF Typed, TypedNet, TypedResults, HostDoes, calls
  <1>1. CASE op = "get_config"
    <2> DEFINE g == Len(got) + 1
    <2>1. CASE Returns
      <3>1. /\ op' = "none" /\ UNCHANGED <<inbox, toModules>> /\ script = <<>>
            /\ standing # "raised"
        BY <2>1, EndsWell DEF Returns, Finish
      <3>2. Len(got) + 1 = Count + 1
        BY <1>0, <1>1, <3>1 DEF Follows
      <3>3. Fresh(inbox, toModules, devices)
        BY <1>1, <3>1, <3>2, InLineEnd DEF Lined
      <3> QED BY <1>0, <3>1, <3>3 DEF Lined
    <2>2. CASE Breaks
      BY <2>2, EndsWell DEF Breaks
    <2>3. CASE Queries(g) \/ (Idles /\ UNCHANGED got) \/ Reads(g)
      <3>1. /\ UNCHANGED <<op, standing>> /\ InLine(g, inbox, toModules, devices)
            /\ g \in 1 .. Count + 1
        <4>1. UNCHANGED <<op, ended>>
          BY <2>3 DEF Queries, Reads, Repeats, Asks, Idles, Waits, Advance
        <4> QED BY <1>0, <1>1, <4>1 DEF ended, Lined, Follows
      <3>2. CASE Queries(g)
        <4>1. PICK d : d = Datagram
          OBVIOUS
        <4>2. /\ g \in 1 .. Count /\ d \in Datagrams /\ AskedFor(d, g, devices)
              /\ toModules' = Append(toModules, d) /\ UNCHANGED <<got, inbox>>
          BY <1>0, <3>1, <3>2, <4>1 DEF Queries, Repeats, Asks
        <4>3. InLine(g, inbox, Append(toModules, d), devices)
          BY <1>0, <3>1, <4>2, InLineAsk
        <4> QED BY <1>0, <1>1, <3>1, <4>2, <4>3 DEF Lined
      <3>3. CASE Idles /\ UNCHANGED got
        <4>1. UNCHANGED toModules /\ InLine(g, inbox', toModules, devices)
          BY <1>0, <3>1, <3>3, InLineRead DEF HostDoes, Idles, Waits
        <4> QED BY <1>0, <1>1, <3>1, <3>3, <4>1 DEF Lined
      <3>4. CASE Reads(g)
        <4>1. /\ g <= Count /\ inbox # <<>> /\ Tells(Head(inbox), g)
              /\ inbox' = Tail(inbox) /\ UNCHANGED toModules
              /\ \E reading : got' = Append(got, reading)
          BY <3>4 DEF Reads
        <4>2. g \in 1 .. Count
          BY <1>0, <4>1
        <4>3. InLine(g + 1, inbox', toModules, devices)
          BY <1>0, <3>1, <4>1, <4>2, InLineNext
        <4>4. Len(got') = g
          <5>1. PICK reading : got' = Append(got, reading)
            BY <4>1
          <5>2. got \in Seq(Readings \cup {reading})
            BY DEF Typed, TypedResults
          <5> QED BY <5>1, <5>2, AppendOf
        <4> QED BY <1>0, <1>1, <3>1, <4>1, <4>3, <4>4 DEF Lined
      <3> QED BY <2>3, <3>2, <3>3, <3>4
    <2> QED BY <1>1, <2>1, <2>2, <2>3, GetConfigDoes
  <1>2. CASE op # "get_config"
    <2>1. op' # "get_config" /\ standing # "raised"
      BY <1>0, <1>2, EndsWell DEF HostMove, Waits, Ends, Passes, PutsOut, Asks, FallsBack, Advance,
                        Finish, ended
    <2>2. Fresh(inbox, toModules, devices)
      BY <1>2, <2>1 DEF Lined
    <2>3. /\ inbox' \in Seq(Arrivals) /\ Fresh(inbox', toModules, devices)
      <3>1. inbox' = inbox \/ (inbox # <<>> /\ inbox' = Tail(inbox))
        BY <1>0 DEF HostDoes
      <3>2. CASE inbox' = inbox
        BY <1>0, <2>2, <3>2
      <3>3. CASE inbox # <<>> /\ inbox' = Tail(inbox)
        <4>1. Tail(inbox) \in Seq(Arrivals)
          BY <1>0, <3>3, TailOf
        <4>2. Fresh(Tail(inbox), toModules, devices)
          BY <1>0, <2>2, <3>3, FreshKept
        <4> QED BY <3>3, <4>1, <4>2
      <3> QED BY <3>1, <3>2, <3>3
    <2>4. devices # 0
      BY <1>0 DEF Origin
    <2>5. CASE UNCHANGED toModules
      BY <1>0, <2>1, <2>3, <2>5 DEF Lined
    <2>6. CASE Posts(Datagram)
      <3>1. PICK d : d = Datagram
        OBVIOUS
      <3>2. d \in Datagrams /\ d.cmd.c # "G" /\ toModules' = Append(toModules, d)
        BY <1>2, <2>6, <3>1 DEF Posts
      <3>3. Fresh(inbox', Append(toModules, d), devices)
        BY <1>0, <2>3, <3>2, FreshKept
      <3> QED BY <1>0, <2>1, <3>2, <3>3 DEF Lined
    <2> QED BY <2>4, <2>5, <2>6, HostPosts
  <1> QED BY <1>1, <1>2

LEMMA LinedStep ==
    ASSUME Typed, Follows, Origin, Lined, Next
    PROVE  Lined'
  <1> SUFFICES ASSUME standing' # "raised" PROVE Lined'
    BY DEF Lined
  <1>0. /\ toModules \in Seq(Datagrams) /\ inbox \in Seq(Arrivals) /\ devices \in Nat
        /\ Len(toModules) \in Nat /\ Len(got) \in Nat /\ Count \in Nat
    BY Asked DEF Typed, TypedNet, TypedCalls, TypedResults
  <1>1. ASSUME NEW d \in Devices, New(d) PROVE Lined'
    <2>1. /\ devices' = devices + 1 /\ UNCHANGED <<toModules, op>> /\ inbox' = <<>>
          /\ op = "none"
      BY <1>1 DEF New, control
    <2>2. \A i \in 1 .. Len(toModules) : toModules[i].from # devices'
      <3> SUFFICES ASSUME NEW i \in 1 .. Len(toModules) PROVE toModules[i].from # devices'
        OBVIOUS
      <3>1. toModules[i] \in Datagrams
        BY <1>0
      <3>2. toModules[i].from \in Int /\ toModules[i].from <= devices
        BY <3>1, ConstantsAssumption DEF Datagrams, Origin
      <3> QED BY <1>0, <2>1, <3>2
    <2>3. Fresh(inbox', toModules', devices')
      <3>1. Len(<<>>) = 0
        OBVIOUS
      <3> QED BY <2>1, <2>2, <3>1 DEF Fresh, AskedFor
    <2> QED BY <2>1, <2>3 DEF Lined
  <1>2. ASSUME UNCHANGED <<standing, op, got, inbox, toModules, devices>> PROVE Lined'
    BY <1>2 DEF Lined
  <1>3. ASSUME NEW method \in Methods, Call(method) PROVE Lined'
    <2>1. /\ op = "none" /\ op' = method /\ got' = <<>>
          /\ UNCHANGED <<standing, inbox, toModules, devices>>
      BY <1>3 DEF Call, ended
    <2>2. Fresh(inbox, toModules, devices)
      BY <2>1 DEF Lined
    <2>3. Len(got') + 1 = 1
      BY <2>1
    <2> QED BY <2>1, <2>2, <2>3, InLineStart DEF Lined
  <1>4. ASSUME UNCHANGED <<standing, op, got, devices>>,
               InLine(Len(got) + 1, inbox, toModules, devices) /\ op = "get_config" =>
                 InLine(Len(got) + 1, inbox', toModules', devices),
               Fresh(inbox, toModules, devices) => Fresh(inbox', toModules', devices)
        PROVE  Lined'
    BY <1>4 DEF Lined
  <1>5. op = "get_config" => Len(got) + 1 \in 1 .. Count + 1
    BY <1>0 DEF Follows
  <1>6. CASE Delivery
    <2>1. PICK d, tail : Answered(d, tail)
      BY <1>6, DeliveryIs
    <2>2. /\ toModules # <<>> /\ d = Head(toModules) /\ toModules' = Tail(toModules)
          /\ tail \in Seq(Arrivals) /\ inbox' = inbox \o tail
          /\ \A i \in 1 .. Len(tail) : AnswerTo(Head(toModules), tail[i], devices)
          /\ UNCHANGED <<standing, op, got, devices>>
      BY <2>1 DEF Answered, host, control, results, ended, calls
    <2>3. ASSUME op = "get_config", InLine(Len(got) + 1, inbox, toModules, devices)
          PROVE  InLine(Len(got) + 1, inbox \o tail, Tail(toModules), devices)
      BY <1>0, <1>5, <2>2, <2>3, InLineArrives
    <2>4. ASSUME Fresh(inbox, toModules, devices)
          PROVE  Fresh(inbox \o tail, Tail(toModules), devices)
      BY <1>0, <2>2, <2>4, FreshArrives
    <2> QED BY <1>4, <2>2, <2>3, <2>4
  <1>7. CASE Lose
    <2>1. /\ toModules # <<>> /\ toModules' = Tail(toModules)
          /\ UNCHANGED <<standing, op, got, devices, inbox>>
      BY <1>7 DEF Lose, host, control, results, ended, calls
    <2> QED BY <1>0, <1>4, <1>5, <2>1, InLineLost, FreshKept
  <1>8. ASSUME NEW kind \in StrayKinds, Stray(kind) PROVE Lined'
    <2>1. PICK stray \in Arrivals : ~IsReply(stray) /\ inbox' = Append(inbox, stray)
      BY <1>8, StrayArrives
    <2>2. UNCHANGED <<standing, op, got, devices, toModules>>
      BY <1>8 DEF Stray, host, control, results, ended, calls
    <2> QED BY <1>0, <1>4, <1>5, <2>1, <2>2, InLineStray, FreshKept
  <1>9. CASE Close
    BY <1>2, <1>9 DEF Close, control, results, ended, calls
  <1>10. ASSUME NEW method \in Methods, CallClosed(method) PROVE Lined'
    BY <1>2, <1>10 DEF CallClosed, control, results
  <1>11. ASSUME NEW m \in Modules, Boots(m) PROVE Lined'
    BY <1>2, <1>11 DEF Boots, host, control, results, ended, calls
  <1> QED BY <1>1, <1>3, <1>6, <1>7, <1>8, <1>9, <1>10, <1>11, LinedHost DEF Next
-----------------------------------------------------------------------------
(* By broadcast, the module that was connected to is the selected one.     *)

\* connect() has sent its W, or is past it.
Sought == op = "connect" /\ (Len(script) < 2 \/ (Len(script) = 2 /\ attempts > 0))

\* No other module is selected, and no W on its way selects one.
OnlyOurs ==
    /\ selected \subseteq {device.mac}
    /\ \A i \in 1 .. Len(toModules) :
         toModules[i].cmd.c = "W" => toModules[i].mac \in {NoMac, device.mac}

\* A W of this device is on its way, before any request for a setting.
OursFirst ==
    \E p \in 1 .. Len(toModules) :
      /\ toModules[p].from = devices /\ toModules[p].cmd.c = "W"
      /\ \A i \in 1 .. p - 1 : ~AskedFor(toModules[i], 1, devices)

OnTarget ==
    /\ device.target = "all" /\ lost = 0 /\ standing # "raised"
    /\ standing = "connected" \/ Sought
    => OnlyOurs \/ OursFirst

LEMMA OnTargetHost ==
    ASSUME Typed, Follows, Origin, Lined, OnTarget, HostStep
    PROVE  OnTarget'
  <1> SUFFICES ASSUME device'.target = "all", lost' = 0, standing' # "raised",
                      standing' = "connected" \/ Sought'
               PROVE  (OnlyOurs \/ OursFirst)'
    BY DEF OnTarget
  <1>0. /\ HostDoes /\ HostMove /\ op # "none" /\ toModules \in Seq(Datagrams)
        /\ Len(toModules) \in Nat /\ Len(script) \in Nat /\ attempts \in Nat
        /\ selected \subseteq Modules /\ NoMac \notin Modules
        /\ via \in {"main", "fallback"}
    BY HostDoesSo, HostMoves, ConstantsAssumption, MostTries
       DEF Typed, TypedNet, TypedModules, TypedControl
  <1>1. /\ UNCHANGED <<selected, up, devices, lost>> /\ device.target = "all" /\ lost = 0
        /\ devices # 0
    BY <1>0 DEF HostDoes, modules, calls, faults, Origin
  <1>2. standing # "raised" /\ (standing' = "connected" => standing = "connected" \/ Sought)
    <2>1. CASE UNCHANGED ended
      BY <2>1 DEF ended
    <2>2. CASE Ends
      <3>1. PICK kind : Finish(kind) /\ (kind = "returned" => script = <<>>)
        BY <2>2 DEF Ends
      <3>2. kind = "returned" /\ standing # "raised"
        BY <3>1, EndsWell
      <3>3. script = <<>> => Len(script) < 2
        OBVIOUS
      <3> QED BY <3>1, <3>2, <3>3 DEF Finish, Sought
    <2> QED BY <1>0, <2>1, <2>2 DEF HostMove, Waits, Passes, PutsOut, Asks, FallsBack, Advance
  <1>3. CASE standing = "connected" \/ Sought
    <2>1. OnlyOurs \/ OursFirst
      BY <1>1, <1>2, <1>3 DEF OnTarget
    <2>2. CASE FindsDevice
      <3>1. device.mac = NoMac /\ UNCHANGED toModules
        BY <2>2, FoundFirst
      <3>2. NoMac \notin selected
        BY <1>0
      <3> QED BY <1>1, <2>1, <3>1, <3>2 DEF OnlyOurs, OursFirst
    <2>3. CASE UNCHANGED <<device, toModules>>
      BY <1>1, <2>1, <2>3 DEF OnlyOurs, OursFirst
    <2>4. CASE Posts(Datagram)
      <3> DEFINE n == Len(toModules)
      <3>1. PICK d : d = Datagram
        OBVIOUS
      <3>2. /\ UNCHANGED device /\ d \in Datagrams /\ toModules' = Append(toModules, d)
            /\ d.mac = device.mac
        BY <2>4, <3>1 DEF Posts
      <3>3. /\ n \in Nat /\ Len(toModules') = n + 1 /\ toModules'[n + 1] = d
            /\ \A i \in 1 .. n : toModules'[i] = toModules[i]
            /\ \A i \in 1 .. Len(toModules') : i \in 1 .. n \/ i = n + 1
        BY <1>0, <3>2, AppendOf
      <3>4. OnlyOurs => OnlyOurs'
        BY <1>1, <3>2, <3>3 DEF OnlyOurs
      <3>5. ASSUME OursFirst PROVE OursFirst'
        <4>1. PICK p \in 1 .. n :
                /\ toModules[p].from = devices /\ toModules[p].cmd.c = "W"
                /\ \A i \in 1 .. p - 1 : ~AskedFor(toModules[i], 1, devices)
          BY <3>5 DEF OursFirst
        <4>2. p \in 1 .. Len(toModules') /\ \A i \in 1 .. p - 1 : i \in 1 .. n
          BY <3>3
        <4> QED BY <1>1, <3>3, <4>1, <4>2 DEF OursFirst
      <3> QED BY <2>1, <3>4, <3>5
    <2> QED BY <1>0, <1>1, <2>2, <2>3, <2>4, HostPosts DEF HostDoes
  <1>4. CASE ~(standing = "connected" \/ Sought)
    <2>1. Sought' /\ ~Sought /\ op' = "connect" /\ op = "connect"
      BY <1>0, <1>2, <1>4 DEF Sought, HostMove, Waits, Ends, Passes, PutsOut, Asks, FallsBack,
                              Advance, Finish
    <2>2. CASE Repeats
      <3>1. /\ UNCHANGED script /\ script # <<>> /\ attempts' > 0
        BY <2>2 DEF Repeats, Asks
      <3>2. Len(script) = 2 /\ Head(script) = script[1] /\ 1 \in 1 .. Len(script)
        BY <1>0, <2>1, <3>1, TailOf DEF Sought, Typed, TypedControl
      <3>3. Head(script).cmd.c = "W"
        <4>1. script[1] = Connecting[4 - 2 + 1]
          BY <2>1, <3>2 DEF Follows
        <4>2. 4 - 2 + 1 = 3
          OBVIOUS
        <4> QED BY <3>2, <4>1, <4>2, ConnectingFields
      <3>4. PICK d : d = Datagram
        OBVIOUS
      <3>5. /\ d \in Datagrams /\ toModules' = Append(toModules, d) /\ d.from = devices
            /\ d.cmd.c = "W"
        <4>1. Posts(d) /\ d.cmd = Head(script).cmd
          BY <1>1, <2>2, <3>4, HostPosts
        <4>2. via = "main"
          BY <1>0, <1>1 DEF Follows
        <4> QED BY <3>3, <4>1, <4>2 DEF Posts
      <3>6. \A i \in 1 .. Len(toModules) : ~AskedFor(toModules[i], 1, devices)
        BY <1>2, <2>1 DEF Lined, Fresh
      <3> DEFINE n == Len(toModules)
      <3>7. /\ n \in Nat /\ Len(toModules') = n + 1 /\ toModules'[n + 1] = d
            /\ \A i \in 1 .. n : toModules'[i] = toModules[i]
            /\ n + 1 \in 1 .. Len(toModules') /\ \A i \in 1 .. (n + 1) - 1 : i \in 1 .. n
        BY <1>0, <3>5, AppendOf
      <3>8. OursFirst'
        BY <1>1, <3>5, <3>6, <3>7 DEF OursFirst
      <3> QED BY <3>8
    <2>3. CASE Idles
      BY <1>0, <2>1, <2>3 DEF Idles, Waits, Sought
    <2>4. CASE Proceeds \/ PutsOut
      <3>1. /\ script # <<>> /\ script' = Tail(script) /\ attempts' = 0
            /\ Head(script).do = "request" => waiting
        BY <2>4 DEF Proceeds, Passes, PutsOut, Advance
      <3>2. /\ Len(script') = Len(script) - 1 /\ Head(script) = script[1]
            /\ 1 \in 1 .. Len(script)
        BY <3>1, TailOf DEF Typed, TypedControl
      <3>3. Len(script) = 2
        BY <1>0, <2>1, <3>1, <3>2 DEF Sought
      <3>4. Head(script).do = "request"
        <4>1. script[1] = Connecting[4 - 2 + 1]
          BY <2>1, <3>2, <3>3 DEF Follows
        <4>2. 4 - 2 + 1 = 3
          OBVIOUS
        <4> QED BY <3>2, <4>1, <4>2, ConnectingFields
      <3>5. attempts > 0
        BY <3>1, <3>4 DEF Follows
      <3> QED BY <2>1, <3>3, <3>5 DEF Sought
    <2>5. CASE FindsDevice
      <3>1. Len(script) = 3 /\ script # <<>> /\ script' = Tail(script) /\ attempts' = 0
        BY <2>5, FoundFirst DEF FindsDevice, Proceeds, Passes, Advance
      <3>2. Len(script') = 2
        BY <3>1, TailOf DEF Typed, TypedControl
      <3>3. ~(attempts' > 0)
        BY <3>1
      <3> QED BY <2>1, <3>2, <3>3 DEF Sought
    <2>6. CASE Ends
      BY <2>1, <2>6 DEF Ends, Finish
    <2>7. CASE Switches
      <3>1. script # <<>> /\ Head(script).do = "fallback"
        BY <2>7 DEF Switches, FallsBack
      <3>2. script \in Seq(Straight)
        BY <2>1 DEF Follows, TwoPassMethods
      <3>3. Head(script) \in Straight
        BY <3>1, <3>2, TailOf
      <3> QED BY <3>1, <3>3 DEF Straight
    <2> QED BY <1>0, <2>2, <2>3, <2>4, <2>5, <2>6, <2>7 DEF HostDoes
  <1> QED BY <1>3, <1>4

LEMMA OnTargetDelivery ==
    ASSUME Typed, Origin, Delivery, device.target = "all", OnlyOurs \/ OursFirst
    PROVE  (OnlyOurs \/ OursFirst)'
  <1>0. /\ toModules \in Seq(Datagrams) /\ up \subseteq Modules /\ NoMac \notin Modules
        /\ Len(toModules) \in Nat
    BY ConstantsAssumption DEF Typed, TypedNet, TypedModules
  <1>1. PICK d, tail : Answered(d, tail)
    BY DeliveryIs
  <1>2. /\ toModules # <<>> /\ d = toModules[1] /\ 1 \in 1 .. Len(toModules)
        /\ Len(toModules') = Len(toModules) - 1
        /\ \A i \in 1 .. Len(toModules') :
             i + 1 \in 1 .. Len(toModules) /\ 1 < i + 1 /\ toModules'[i] = toModules[i + 1]
        /\ UNCHANGED <<device, devices>>
    BY <1>0, <1>1, TailOf DEF Answered, host, own, calls
  <1>3. Hearers(d) \subseteq up
    BY Audience
  <1>4. CASE OnlyOurs
    <2>1. d.cmd.c = "W" => d.mac \in {NoMac, device.mac}
      BY <1>2, <1>4 DEF OnlyOurs
    <2>2. selected' \subseteq {device.mac}
      BY <1>0, <1>1, <1>3, <1>4, <2>1 DEF Answered, OnlyOurs
    <2> QED BY <1>2, <1>4, <2>2 DEF OnlyOurs
  <1>5. CASE OursFirst
    <2>1. PICK p \in 1 .. Len(toModules) :
            /\ toModules[p].from = devices /\ toModules[p].cmd.c = "W"
            /\ \A i \in 1 .. p - 1 : ~AskedFor(toModules[i], 1, devices)
      BY <1>5 DEF OursFirst
    <2>2. CASE p = 1
      <3>1. d.mac \in {NoMac, device.mac} /\ d.to = "all" /\ d.cmd.c = "W"
        BY <1>2, <2>1, <2>2 DEF Origin
      <3>2. Hearers(d) = up
        BY <3>1 DEF Hearers
      <3>3. selected' \subseteq {device.mac}
        BY <1>0, <1>1, <3>1, <3>2 DEF Answered, Origin
      <3>4. \A i \in 1 .. Len(toModules') : toModules'[i].mac \in {NoMac, device.mac}
        <4> SUFFICES ASSUME NEW i \in 1 .. Len(toModules')
                     PROVE  toModules'[i].mac \in {NoMac, device.mac}
          OBVIOUS
        <4>1. toModules[1].from = devices
          BY <2>1, <2>2
        <4>2. toModules[i + 1].from = devices
          BY <1>2, <4>1 DEF Origin
        <4> QED BY <1>2, <4>2 DEF Origin
      <3> QED BY <1>2, <3>3, <3>4 DEF OnlyOurs
    <2>3. CASE p # 1
      <3>1. /\ p - 1 \in 1 .. Len(toModules') /\ (p - 1) + 1 = p
            /\ \A i \in 1 .. (p - 1) - 1 : i \in 1 .. Len(toModules') /\ i + 1 \in 1 .. p - 1
        BY <1>0, <1>2, <2>3
      <3> QED BY <1>2, <2>1, <3>1 DEF OursFirst
    <2> QED BY <2>2, <2>3
  <1> QED BY <1>4, <1>5

LEMMA OnTargetStep ==
    ASSUME Typed, Follows, Origin, Lined, OnTarget, Next
    PROVE  OnTarget'
  <1>0. attempts \in Nat /\ lost \in Nat
    BY MostTries DEF Typed, TypedControl, TypedNet
  <1>1. ASSUME NEW d \in Devices, New(d) PROVE OnTarget'
    BY <1>1 DEF New, control, OnTarget, Sought
  <1>2. ASSUME UNCHANGED <<device, op, script, attempts, standing, selected, toModules, devices,
                           lost>>
        PROVE  OnTarget'
    BY <1>2 DEF OnTarget, Sought, OnlyOurs, OursFirst
  <1>3. ASSUME NEW method \in Methods, Call(method) PROVE OnTarget'
    <2>1. /\ op' = method /\ script' = Script(method) /\ attempts' = 0
          /\ UNCHANGED <<device, standing, selected, toModules, devices, lost>>
      BY <1>3 DEF Call, own, ended, modules, faults, Follows
    <2>2. ~Sought'
      <3>1. ASSUME method = "connect" PROVE ~(Len(script') < 2)
        <4>1. script' = connect
          BY <2>1, <3>1 DEF Script
        <4>2. Len(connect) = 4 \/ Len(connect) = 2
          BY ConnectIs, ConnectingFields
        <4> QED BY <4>1, <4>2
      <3>2. ~(attempts' > 0)
        BY <2>1
      <3> QED BY <2>1, <3>1, <3>2 DEF Sought
    <2> QED BY <2>1, <2>2 DEF OnTarget, OnlyOurs, OursFirst
  <1>4. CASE Delivery
    <2>1. PICK d, tail : Answered(d, tail)
      BY <1>4, DeliveryIs
    <2>2. /\ UNCHANGED <<device, op, script, attempts, standing, devices>>
          /\ lost' \in Nat /\ lost <= lost'
      BY <2>1 DEF Answered, host, own, control, ended, calls
    <2>3. lost' = 0 => lost = 0
      BY <1>0, <2>2
    <2> QED BY <1>4, <2>2, <2>3, OnTargetDelivery DEF OnTarget, Sought
  <1>5. CASE Lose
    <2>1. lost' # 0
      BY <1>0, <1>5 DEF Lose
    <2> QED BY <2>1 DEF OnTarget
  <1>6. CASE Close
    BY <1>2, <1>6 DEF Close, control, ended, modules, calls, faults
  <1>7. ASSUME NEW method \in Methods, CallClosed(method) PROVE OnTarget'
    BY <1>2, <1>7 DEF CallClosed, own, control, modules, faults
  <1>8. ASSUME NEW m \in Modules, Boots(m) PROVE OnTarget'
    BY <1>2, <1>8 DEF Boots, host, own, control, ended, calls, faults
  <1>9. ASSUME NEW kind \in StrayKinds, Stray(kind) PROVE OnTarget'
    BY <1>2, <1>9 DEF Stray, host, own, control, ended, modules, calls
  <1> QED BY <1>1, <1>3, <1>4, <1>5, <1>6, <1>7, <1>8, <1>9, OnTargetHost DEF Next
-----------------------------------------------------------------------------
(* What has been read is what the module has stored.                       *)

\* The device has done nothing that spoils its readings.
Meant ==
    /\ standing # "raised"
    /\ device.target = "all" => standing = "connected" /\ (devices = 1 \/ lost = 0)

Module == IF device.target = "all" THEN device.mac ELSE Target

RightReading(k) == [of |-> <<Module, Ask(k)>>, value |-> settings[Module][Ask(k)]]

ReadSoFar ==
    op = "get_config" /\ Meant =>
      /\ \A i \in 1 .. Len(got) : got[i] = RightReading(i)
      /\ Len(got) < Count =>
           \A i \in 1 .. Len(inbox) : Tells(inbox[i], Len(got) + 1) =>
             [of |-> inbox[i].of, value |-> inbox[i].value] = RightReading(Len(got) + 1)

ReadAll ==
    Returned("get_config") /\ Meant =>
      /\ Len(got) = Count
      /\ \A i \in 1 .. Len(got) : got[i] = RightReading(i)
      /\ \A i \in 1 .. Len(toModules) : toModules[i].cmd.c # "S"

LEMMA TellsOne ==
    ASSUME NEW g \in 1 .. Count, g + 1 \in 1 .. Count, NEW reply, Tells(reply, g)
    PROVE  ~Tells(reply, g + 1)
  <1>1. GetCheck(Ask(g)) # GetCheck(Ask(g + 1))
    <2>1. g + 1 # g
      BY Asked
    <2> QED BY <2>1, Asked
  <1> QED BY <1>1 DEF Tells

LEMMA ReadHost ==
    ASSUME Typed, Follows, Origin, Lined, ReadSoFar, HostStep
    PROVE  ReadSoFar' /\ ReadAll'
  <1>0. /\ HostDoes /\ HostMove /\ op # "none" /\ UNCHANGED <<settings, devices, lost>>
        /\ inbox \in Seq(Arrivals) /\ got \in Seq(Readings)
        /\ Len(got) \in Nat /\ Count \in Nat /\ Len(inbox) \in Nat /\ "get_config" # "none"
    BY HostDoesSo, HostMoves, Asked
       DEF Typed, TypedNet, TypedResults, HostDoes, calls, modules, faults
  <1>1. CASE op = "get_config"
    <2> DEFINE g == Len(got) + 1
    <2>0. UNCHANGED device
      BY <1>0, <1>1 DEF HostDoes, FindsDevice
    <2>1. \A k : RightReading(k)' = RightReading(k)
      BY <1>0, <2>0 DEF RightReading, Module
    <2>2. CASE Returns
      <3>1. /\ op' = "none" /\ UNCHANGED <<got, inbox, toModules>> /\ script = <<>>
        BY <2>2 DEF Returns, Finish
      <3>2. Meant' => Meant
        BY <1>0, <1>1, <2>0, <2>2 DEF Returns, Finish, Meant
      <3>3. Len(got) = Count
        BY <1>0, <1>1, <3>1 DEF Follows
      <3>4. Meant => \A i \in 1 .. Len(toModules) : toModules[i].cmd.c = "G"
        BY <1>1, <3>3, InLineEnd DEF Lined, Meant
      <3> QED BY <1>0, <1>1, <2>1, <3>1, <3>2, <3>3, <3>4 DEF ReadSoFar, ReadAll
    <2>3. CASE Breaks
      BY <2>3 DEF Breaks, Finish, Meant, ReadSoFar, ReadAll
    <2>4. CASE Queries(g) \/ (Idles /\ UNCHANGED got)
      <3>1. UNCHANGED <<op, standing, got>>
        BY <2>4 DEF Queries, Repeats, Asks, Idles, Waits, ended
      <3>2. Meant' => Meant
        BY <1>0, <2>0, <3>1 DEF Meant
      <3>3. \A i \in 1 .. Len(inbox') : \E j \in 1 .. Len(inbox) : inbox'[i] = inbox[j]
        BY <1>0, TailOf DEF HostDoes
      <3>4. ~Returned("get_config")'
        BY <1>0, <1>1, <3>1 DEF Returned
      <3> QED BY <1>0, <1>1, <2>1, <3>1, <3>2, <3>3, <3>4 DEF ReadSoFar, ReadAll
    <2>5. CASE Reads(g)
      <3>1. /\ g \in 1 .. Count /\ inbox # <<>> /\ Tells(Head(inbox), g)
            /\ inbox' = Tail(inbox) /\ Advance
            /\ got' = Append(got, [of |-> Head(inbox).of, value |-> Head(inbox).value])
        BY <1>0, <2>5 DEF Reads
      <3>2. UNCHANGED <<op, standing>>
        BY <3>1 DEF Advance, ended
      <3>3. ~Returned("get_config")'
        BY <1>0, <1>1, <3>2 DEF Returned
      <3>4. Meant' => Meant
        BY <1>0, <2>0, <3>2 DEF Meant
      <3>5. /\ Head(inbox) = inbox[1] /\ 1 \in 1 .. Len(inbox)
            /\ \A i \in 1 .. Len(inbox') :
                 i + 1 \in 1 .. Len(inbox) /\ 1 < i + 1 /\ inbox'[i] = inbox[i + 1]
        BY <1>0, <3>1, TailOf
      <3>6. PICK reading : reading = [of |-> Head(inbox).of, value |-> Head(inbox).value]
        OBVIOUS
      <3>7. /\ Len(got') = g /\ got'[g] = reading
            /\ \A i \in 1 .. Len(got) : got'[i] = got[i]
            /\ \A i \in 1 .. g : i \in 1 .. Len(got) \/ i = g
        <4>1. got \in Seq(Readings \cup {reading}) /\ got' = Append(got, reading)
          BY <1>0, <3>1, <3>6
        <4> QED BY <1>0, <4>1, AppendOf
      <3>8. ASSUME Meant PROVE \A i \in 1 .. Len(got') : got'[i] = RightReading(i)
        <4>1. Len(got) < Count
          BY <1>0, <3>1
        <4>2. reading = RightReading(g)
          BY <1>1, <3>1, <3>5, <3>6, <3>8, <4>1 DEF ReadSoFar
        <4> QED BY <1>1, <3>7, <3>8, <4>2 DEF ReadSoFar
      <3>9. ASSUME Meant, Len(got') < Count, NEW i \in 1 .. Len(inbox')
            PROVE  ~Tells(inbox'[i], g + 1)
        <4>1. InLine(g, inbox, toModules, devices)
          BY <1>1, <3>9 DEF Lined, Meant
        <4>2. Tells(inbox'[i], g) \/ ~IsReply(inbox'[i])
          BY <3>1, <3>5, <4>1, Asked DEF InLine
        <4>3. g + 1 \in 1 .. Count
          BY <1>0, <3>7, <3>9
        <4>4. CASE Tells(inbox'[i], g)
          BY <3>1, <4>3, <4>4, TellsOne
        <4>5. CASE ~IsReply(inbox'[i])
          BY <4>5 DEF IsReply, Tells
        <4> QED BY <4>2, <4>4, <4>5
      <3> QED BY <2>1, <3>3, <3>4, <3>7, <3>8, <3>9 DEF ReadSoFar, ReadAll
    <2> QED BY <1>1, <2>2, <2>3, <2>4, <2>5, GetConfigDoes
  <1>2. CASE op # "get_config"
    <2>1. op' # "get_config"
      BY <1>0, <1>2 DEF HostMove, Waits, Ends, Passes, PutsOut, Asks, FallsBack, Advance, Finish
    <2>2. ~Returned("get_config")'
      <3>1. CASE op' = op
        BY <1>0, <3>1 DEF Returned
      <3>2. CASE op' # op
        <4>1. outcome'.op = op
          BY <1>0, <3>2 DEF HostMove, Waits, Ends, Passes, PutsOut, Asks, FallsBack, Advance, Finish
        <4> QED BY <1>2, <4>1 DEF Returned
      <3> QED BY <3>1, <3>2
    <2> QED BY <2>1, <2>2 DEF ReadSoFar, ReadAll
  <1> QED BY <1>1, <1>2

\* Setting g is answered by the module that is meant.
LEMMA AnsweredRightly ==
    ASSUME Typed, Origin, OnTarget, Meant, NEW g \in 1 .. Count,
           InLine(g, inbox, toModules, devices),
           NEW d, NEW tail, Answered(d, tail), NEW i \in 1 .. Len(tail), Tells(tail[i], g)
    PROVE  /\ d.cmd.c = "G" /\ settings' = settings
           /\ [of |-> tail[i].of, value |-> tail[i].value] = RightReading(g)
  <1>0. toModules \in Seq(Datagrams) /\ devices \in Nat /\ Len(toModules) \in Nat
    BY DEF Typed, TypedNet, TypedCalls
  <1>1. /\ toModules # <<>> /\ d = toModules[1] /\ 1 \in 1 .. Len(toModules)
        /\ d \in Datagrams /\ AnswerTo(d, tail[i], devices)
    BY <1>0, TailOf DEF Answered
  <1>2. g >= 2 => d.cmd.c = "G"
    BY <1>1, GetFields DEF InLine, AskedFor
  <1>3. AskedFor(d, g, devices)
    <2>1. g = 1 \/ d.cmd.c = "G"
      BY <1>2, Asked
    <2> QED BY <1>1, <2>1, Told
  <1>4. d.cmd.c = "G" /\ d.cmd.field = Ask(g) /\ d.from = devices
    BY <1>3, GetFields DEF AskedFor
  <1>5. settings' = settings
    BY <1>4 DEF Answered
  <1>6. PICK m \in Obeys(d) : /\ tail[i].of = <<m, Ask(g)>>
                              /\ tail[i].value = settings[m][Ask(g)]
    BY <1>4, <1>5 DEF Answered
  <1>7. d.to = device.target
    BY <1>1, <1>4 DEF Origin
  <1>8. m = Module
    <2>1. CASE device.target # "all"
      BY <1>6, <1>7, <2>1 DEF Obeys, Concerned, Hearers, Module
    <2>2. CASE device.target = "all"
      <3>1. m \in selected
        BY <1>6, <1>7, <2>2 DEF Obeys, Concerned
      <3>2. CASE devices = 1
        BY <2>2, <3>1, <3>2 DEF Origin, Module
      <3>3. CASE devices # 1
        <4>1. OnlyOurs \/ OursFirst
          BY <2>2, <3>3 DEF Meant, OnTarget
        <4>2. ~OursFirst
          <5> SUFFICES ASSUME NEW p \in 1 .. Len(toModules), toModules[p].cmd.c = "W",
                              \A j \in 1 .. p - 1 : ~AskedFor(toModules[j], 1, devices)
                       PROVE  FALSE
            BY DEF OursFirst
          <5>1. ~(g >= 2)
            BY GetFields DEF InLine, AskedFor
          <5>2. g = 1 /\ (p = 1 \/ 1 \in 1 .. p - 1)
            BY <1>0, <5>1, Asked
          <5>3. p = 1
            BY <1>1, <1>3, <5>2
          <5> QED BY <1>1, <1>4, <5>3
        <4> QED BY <2>2, <3>1, <4>1, <4>2 DEF OnlyOurs, Module
      <3> QED BY <3>2, <3>3
    <2> QED BY <2>1, <2>2
  <1> QED BY <1>4, <1>5, <1>6, <1>8 DEF RightReading

LEMMA ReadDelivery ==
    ASSUME Typed, Follows, Origin, Lined, OnTarget, ReadSoFar, ReadAll, Delivery
    PROVE  ReadSoFar' /\ ReadAll'
  <1>1. PICK d, tail : Answered(d, tail)
    BY DeliveryIs
  <1>0. /\ toModules \in Seq(Datagrams) /\ inbox \in Seq(Arrivals) /\ lost \in Nat
        /\ Len(got) \in Nat /\ Count \in Nat /\ tail \in Seq(Arrivals)
    BY <1>1, Asked DEF Typed, TypedNet, TypedResults, Answered
  <1>2. /\ UNCHANGED <<device, op, got, standing, outcome, devices>>
        /\ lost' \in Nat /\ lost <= lost' /\ inbox' = inbox \o tail
        /\ toModules' = Tail(toModules) /\ toModules # <<>>
        /\ (d.cmd.c # "S" => settings' = settings)
    BY <1>1 DEF Answered, host, own, control, results, ended, calls
  <1>3. Meant' => Meant
    <2>1. lost' = 0 => lost = 0
      BY <1>0, <1>2
    <2> QED BY <1>2, <2>1 DEF Meant
  <1>4. /\ d = toModules[1] /\ 1 \in 1 .. Len(toModules)
        /\ \A i \in 1 .. Len(toModules') :
             i + 1 \in 1 .. Len(toModules) /\ toModules'[i] = toModules[i + 1]
    BY <1>0, <1>1, <1>2, TailOf DEF Answered
  <1>5. ASSUME settings' = settings PROVE \A k : RightReading(k)' = RightReading(k)
    BY <1>2, <1>5 DEF RightReading, Module
  <1>6. ASSUME op = "get_config", Meant, Meant' PROVE ReadSoFar'
    <2> DEFINE g == Len(got) + 1
    <2>1. InLine(g, inbox, toModules, devices) /\ g \in 1 .. Count + 1
      BY <1>0, <1>6 DEF Lined, Meant, Follows
    <2>2. g >= 2 => settings' = settings
      <3>1. g >= 2 => d.cmd.c = "G"
        BY <1>4, <2>1, GetFields DEF InLine, AskedFor
      <3> QED BY <1>2, <3>1
    <2>3. \A i \in 1 .. Len(got) : got[i] = RightReading(i)'
      <3> SUFFICES ASSUME NEW i \in 1 .. Len(got) PROVE got[i] = RightReading(i)'
        OBVIOUS
      <3>1. g >= 2
        BY <1>0
      <3>2. RightReading(i)' = RightReading(i)
        BY <1>5, <2>2, <3>1
      <3> QED BY <1>6, <3>2 DEF ReadSoFar
    <2>4. ASSUME Len(got) < Count, NEW i \in 1 .. Len(inbox'), Tells(inbox'[i], g)
          PROVE  [of |-> inbox'[i].of, value |-> inbox'[i].value] = RightReading(g)'
      <3>1. g \in 1 .. Count
        BY <1>0, <2>4
      <3>2. \/ i \in 1 .. Len(inbox) /\ inbox'[i] = inbox[i]
            \/ i - Len(inbox) \in 1 .. Len(tail) /\ inbox'[i] = tail[i - Len(inbox)]
        BY <1>0, <1>2, <2>4
      <3>3. CASE i \in 1 .. Len(inbox) /\ inbox'[i] = inbox[i]
        <4>1. AskedFor(d, g, devices)
          BY <1>4, <2>1, <2>4, <3>1, <3>3 DEF InLine
        <4>2. settings' = settings
          BY <1>2, <4>1, GetFields DEF AskedFor
        <4>3. RightReading(g)' = RightReading(g)
          BY <1>2, <4>2 DEF RightReading, Module
        <4> QED BY <1>6, <2>4, <3>3, <4>3 DEF ReadSoFar
      <3>4. CASE i - Len(inbox) \in 1 .. Len(tail) /\ inbox'[i] = tail[i - Len(inbox)]
        <4>1. PICK j : j = i - Len(inbox)
          OBVIOUS
        <4>2. j \in 1 .. Len(tail) /\ inbox'[i] = tail[j] /\ Tells(tail[j], g)
          BY <2>4, <3>4, <4>1
        <4>3. /\ settings' = settings
              /\ [of |-> tail[j].of, value |-> tail[j].value] = RightReading(g)
          BY <1>1, <1>6, <2>1, <3>1, <4>2, AnsweredRightly
        <4>4. RightReading(g)' = RightReading(g)
          BY <1>2, <4>3 DEF RightReading, Module
        <4> QED BY <4>2, <4>3, <4>4
      <3> QED BY <3>2, <3>3, <3>4
    <2> QED BY <1>2, <2>3, <2>4 DEF ReadSoFar
  <1>7. ReadSoFar'
    BY <1>2, <1>3, <1>6 DEF ReadSoFar
  <1>8. ReadAll'
    <2> SUFFICES ASSUME Returned("get_config")', Meant' PROVE ReadAll'
      BY DEF ReadAll
    <2>1. Returned("get_config") /\ Meant
      BY <1>2, <1>3 DEF Returned
    <2>2. /\ Len(got) = Count
          /\ \A i \in 1 .. Len(got) : got[i] = RightReading(i)
          /\ \A i \in 1 .. Len(toModules) : toModules[i].cmd.c # "S"
      BY <2>1 DEF ReadAll
    <2>3. settings' = settings
      BY <1>2, <1>4, <2>2
    <2>4. \A k : RightReading(k)' = RightReading(k)
      BY <1>5, <2>3
    <2>5. \A i \in 1 .. Len(toModules') : toModules'[i].cmd.c # "S"
      BY <1>4, <2>2
    <2> QED BY <1>2, <2>2, <2>4, <2>5 DEF ReadAll
  <1> QED BY <1>7, <1>8

LEMMA ReadStep ==
    ASSUME Typed, Follows, Origin, Lined, OnTarget, ReadSoFar, ReadAll, Next
    PROVE  ReadSoFar' /\ ReadAll'
  <1>0. /\ toModules \in Seq(Datagrams) /\ inbox \in Seq(Arrivals) /\ lost \in Nat
        /\ Len(got) \in Nat /\ Count \in Nat
    BY Asked DEF Typed, TypedNet, TypedResults
  <1>1. ASSUME NEW d \in Devices, New(d) PROVE ReadSoFar' /\ ReadAll'
    <2>1. op' = "none" /\ outcome'.op = "none"
      BY <1>1 DEF New, control, NoOutcome
    <2> QED BY <2>1 DEF ReadSoFar, ReadAll, Returned
  <1>2. ASSUME UNCHANGED <<device, op, got, outcome, standing, devices, lost, settings, inbox,
                           toModules>>
        PROVE  ReadSoFar' /\ ReadAll'
    BY <1>2 DEF ReadSoFar, ReadAll, Meant, RightReading, Module, Returned
  <1>3. ASSUME NEW method \in Methods, Call(method) PROVE ReadSoFar' /\ ReadAll'
    <2>1. /\ op = "none" /\ op' = method /\ got' = <<>>
          /\ UNCHANGED <<inbox, standing, devices, toModules>>
      BY <1>3 DEF Call, ended
    <2>2. method # "none"
      BY ConstantsAssumption DEF AllMethods
    <2>3. ReadAll'
      BY <2>1, <2>2 DEF ReadAll, Returned
    <2>4. standing # "raised" => \A i \in 1 .. Len(inbox) : ~Tells(inbox[i], 1)
      BY <2>1 DEF Lined, Fresh
    <2>5. Len(got') = 0 /\ Len(got') + 1 = 1
      BY <2>1
    <2>6. ReadSoFar'
      BY <2>1, <2>4, <2>5 DEF ReadSoFar, Meant
    <2> QED BY <2>3, <2>6
  <1>4. CASE Lose
    <2>1. /\ toModules # <<>> /\ toModules' = Tail(toModules) /\ lost' = lost + 1
          /\ UNCHANGED <<device, op, got, outcome, standing, devices, settings, inbox>>
      BY <1>4 DEF Lose, host, own, control, results, ended, calls, modules
    <2>2. Meant' => Meant
      BY <1>0, <2>1 DEF Meant
    <2>3. \A i \in 1 .. Len(toModules') :
             i + 1 \in 1 .. Len(toModules) /\ toModules'[i] = toModules[i + 1]
      BY <1>0, <2>1, TailOf
    <2>4. \A k : RightReading(k)' = RightReading(k)
      BY <2>1 DEF RightReading, Module
    <2>5. ReadSoFar'
      BY <2>1, <2>2, <2>4 DEF ReadSoFar
    <2>6. ReadAll'
      BY <2>1, <2>2, <2>3, <2>4 DEF ReadAll, Returned
    <2> QED BY <2>5, <2>6
  <1>5. ASSUME NEW kind \in StrayKinds, Stray(kind) PROVE ReadSoFar' /\ ReadAll'
    <2>1. PICK stray \in Arrivals : ~IsReply(stray) /\ inbox' = Append(inbox, stray)
      BY <1>5, StrayArrives
    <2>2. inbox' = Append(inbox, stray)
      BY <2>1
    <2>3. UNCHANGED <<device, op, got, outcome, standing, devices, lost, settings, toModules>>
      BY <1>5 DEF Stray, host, own, control, results, ended, calls, modules
    <2>4. stray.kind # "value"
      BY <2>1 DEF IsReply
    <2>5. /\ inbox \in Seq(Arrivals \cup {stray})
          /\ \A i \in 1 .. Len(inbox) : inbox'[i] = inbox[i]
          /\ \A i \in 1 .. Len(inbox') : i \in 1 .. Len(inbox) \/ inbox'[i] = stray
      BY <1>0, <2>2, AppendOf
    <2>6. \A k : RightReading(k)' = RightReading(k)
      BY <2>3 DEF RightReading, Module
    <2>7. (Meant' <=> Meant) /\ (Returned("get_config")' <=> Returned("get_config"))
      BY <2>3 DEF Meant, Returned
    <2>8. ReadSoFar'
      BY <2>3, <2>4, <2>5, <2>6, <2>7 DEF ReadSoFar, Tells
    <2>9. ReadAll'
      BY <2>3, <2>6, <2>7 DEF ReadAll
    <2> QED BY <2>8, <2>9
  <1>6. CASE Close
    BY <1>2, <1>6 DEF Close, control, results, ended, modules, calls, faults
  <1>7. ASSUME NEW method \in Methods, CallClosed(method) PROVE ReadSoFar' /\ ReadAll'
    <2>1. /\ op = "none" /\ UNCHANGED op /\ outcome'.kind = "OSError"
      BY <1>7 DEF CallClosed, control
    <2> QED BY <2>1 DEF ReadSoFar, ReadAll, Returned
  <1>8. ASSUME NEW m \in Modules, Boots(m) PROVE ReadSoFar' /\ ReadAll'
    BY <1>2, <1>8 DEF Boots, host, own, control, results, ended, calls, faults
  <1> QED BY <1>1, <1>3, <1>4, <1>5, <1>6, <1>7, <1>8, ReadHost, ReadDelivery DEF Next

\* The inductive invariant of the readings.
Reading ==
    Typed /\ Follows /\ Origin /\ Lined /\ OnTarget /\ ReadSoFar /\ ReadAll

LEMMA ReadingInit ==
    ASSUME Init
    PROVE  Reading
  <1>0. Typed
    BY TypedInit
  <1>1. Follows
    <2>1. /\ op = "none" /\ script = <<>> /\ via = "main" /\ waiting = FALSE /\ attempts = 0
          /\ <<>> \in Seq(Silent) /\ <<>> \in Seq(Straight)
      BY DEF Init
    <2> QED BY <2>1 DEF Follows
  <1>2. toModules = <<>> /\ inbox = <<>> /\ Len(<<>>) = 0
    BY DEF Init
  <1>3. Origin
    BY <1>2 DEF Init, Origin
  <1>4. Lined
    BY <1>2 DEF Init, Lined, Fresh
  <1>5. OnTarget
    BY DEF Init, OnTarget, Sought
  <1>6. ReadSoFar /\ ReadAll
    BY DEF Init, ReadSoFar, ReadAll, Returned, NoOutcome
  <1> QED BY <1>0, <1>1, <1>3, <1>4, <1>5, <1>6 DEF Reading

LEMMA ReadingStep ==
    ASSUME Reading, [Next]_vars
    PROVE  Reading'
  <1>1. CASE Next
    BY <1>1, TypedStep, FollowsStep, OriginStep, LinedStep, OnTargetStep, ReadStep DEF Reading
  <1>2. CASE UNCHANGED vars
    <2>1. /\ UNCHANGED <<device, isOpen, op, script, via, waiting, attempts, got, outcome,
                          standing>>
          /\ UNCHANGED <<inbox, toModules, settings, up, selected, devices, lost>>
      BY <1>2 DEF vars, host, own, control, results, ended, modules, calls, faults
    <2>2. Typed' /\ Follows'
      BY <1>2, <2>1, TypedStutter, FollowsKept DEF Reading
    <2>3. Origin' /\ Lined' /\ OnTarget'
      BY <2>1 DEF Reading, Origin, Lined, OnTarget, Sought, OnlyOurs, OursFirst
    <2>4. ReadSoFar' /\ ReadAll'
      BY <2>1 DEF Reading, ReadSoFar, ReadAll, Meant, RightReading, Module, Returned
    <2> QED BY <2>2, <2>3, <2>4 DEF Reading
  <1> QED BY <1>1, <1>2

LEMMA ReadingIsReadsAreOwn ==
    ASSUME Reading
    PROVE  ReadsAreOwn
  <1> SUFFICES ASSUME Returned("get_config"), Meant
               PROVE  /\ Len(got) = Len(Settings)
                      /\ \A i \in 1 .. Len(got) :
                           got[i] = [of    |-> <<Module, Settings[i][1]>>,
                                     value |-> settings[Module][Settings[i][1]]]
    BY DEF ReadsAreOwn, Meant, Module
  <1> QED BY DEF Reading, ReadAll, RightReading, Ask, Count

\* What get_config() returns is what the module it is meant for has stored, each
\* setting in its place, for every number of calls, devices and modules, whatever is
\* lost and whatever else arrives: a reply that passes the check of request_single()
\* answers a request for that very setting, since anything else that an earlier call
\* left unread makes the first request of get_config() raise.  Except on a device one
\* of whose calls has raised, and by broadcast only once connected, and on the first
\* device or when nothing is lost.
THEOREM ReadsCorrect == Spec => []ReadsAreOwn
  <1>1. Spec => []Reading
    BY ReadingInit, ReadingStep, PTL DEF Spec
  <1> QED BY <1>1, ReadingIsReadsAreOwn, PTL
-----------------------------------------------------------------------------
(* What a first search lists.                                              *)

\* What is listed and what has arrived and was not read name everyone, each once.
Accounted(listed, replies, everyone) ==
    /\ \A i, j \in 1 .. Len(listed) : i # j => listed[i] # listed[j]
    /\ \A i \in 1 .. Len(listed) : listed[i] \in everyone
    /\ \A i \in 1 .. Len(replies) : IsReply(replies[i]) =>
         /\ replies[i].kind = "echo" /\ replies[i].value \in everyone
         /\ \A j \in 1 .. Len(listed) : listed[j] # replies[i].value
    /\ \A i, j \in 1 .. Len(replies) :
         i # j /\ IsReply(replies[i]) /\ IsReply(replies[j]) => replies[i].value # replies[j].value
    /\ \A m \in everyone :
         \/ \E i \in 1 .. Len(listed) : listed[i] = m
         \/ \E i \in 1 .. Len(replies) : IsReply(replies[i]) /\ replies[i].value = m

LEMMA AccountedTail ==
    ASSUME NEW replies \in Seq(Arrivals), replies # <<>>, NEW everyone, NEW S,
           NEW listed \in Seq(S),
           Accounted(listed, replies, everyone)
    PROVE  /\ ~IsReply(Head(replies)) => Accounted(listed, Tail(replies), everyone)
           /\ IsReply(Head(replies)) =>
                /\ Head(replies).kind = "echo"
                /\ Accounted(Append(listed, Head(replies).value), Tail(replies), everyone)
  <1> DEFINE rest == Tail(replies)
             n == Len(listed)
  <1>1. /\ Head(replies) = replies[1] /\ 1 \in 1 .. Len(replies) /\ Len(replies) \in Nat
        /\ \A i \in 1 .. Len(rest) :
             i + 1 \in 1 .. Len(replies) /\ i + 1 # 1 /\ rest[i] = replies[i + 1]
        /\ \A i, j \in 1 .. Len(rest) : i # j => i + 1 # j + 1
        /\ \A i \in 1 .. Len(replies) :
             i = 1 \/ (i - 1 \in 1 .. Len(rest) /\ rest[i - 1] = replies[i])
    <2>1. /\ rest \in Seq(Arrivals) /\ Head(replies) = replies[1] /\ Len(replies) \in Nat \ {0}
          /\ Len(rest) = Len(replies) - 1
          /\ \A i \in 1 .. Len(rest) : i + 1 \in 1 .. Len(replies) /\ rest[i] = replies[i + 1]
      BY TailOf
    <2> HIDE DEF rest
    <2>2. \A i \in 1 .. Len(replies) : i = 1 \/ (i - 1 \in 1 .. Len(rest) /\ (i - 1) + 1 = i)
      BY <2>1
    <2>3. \A i \in 1 .. Len(rest) : i + 1 # 1
      BY <2>1
    <2>4. \A i, j \in 1 .. Len(rest) : i # j => i + 1 # j + 1
      BY <2>1
    <2> QED BY <2>1, <2>2, <2>3, <2>4
  <1> HIDE DEF rest
  <1>4. /\ \A i \in 1 .. Len(replies) : IsReply(replies[i]) =>
             /\ replies[i].kind = "echo" /\ replies[i].value \in everyone
             /\ \A j \in 1 .. n : listed[j] # replies[i].value
        /\ \A i, j \in 1 .. Len(replies) :
             i # j /\ IsReply(replies[i]) /\ IsReply(replies[j]) =>
               replies[i].value # replies[j].value
    BY DEF Accounted
  <1>5. \A i \in 1 .. Len(rest) : IsReply(rest[i]) =>
          /\ rest[i].kind = "echo" /\ rest[i].value \in everyone
          /\ \A j \in 1 .. n : listed[j] # rest[i].value
    BY <1>1, <1>4
  <1>6. ASSUME NEW i \in 1 .. Len(rest), NEW j \in 1 .. Len(rest), i # j,
               IsReply(rest[i]), IsReply(rest[j])
        PROVE  rest[i].value # rest[j].value
    <2>1. /\ i + 1 \in 1 .. Len(replies) /\ j + 1 \in 1 .. Len(replies) /\ i + 1 # j + 1
          /\ rest[i] = replies[i + 1] /\ rest[j] = replies[j + 1]
      BY <1>1, <1>6
    <2> QED BY <1>4, <1>6, <2>1
  <1>2. ASSUME ~IsReply(replies[1]) PROVE Accounted(listed, rest, everyone)
    <2>1. \A m \in everyone :
            \/ \E i \in 1 .. n : listed[i] = m
            \/ \E i \in 1 .. Len(rest) : IsReply(rest[i]) /\ rest[i].value = m
      <3> SUFFICES ASSUME NEW m \in everyone, NEW i \in 1 .. Len(replies),
                          IsReply(replies[i]), replies[i].value = m
                   PROVE  \E k \in 1 .. Len(rest) : IsReply(rest[k]) /\ rest[k].value = m
        BY DEF Accounted
      <3> QED BY <1>1, <1>2
    <2> QED BY <1>5, <1>6, <2>1 DEF Accounted
  <1>3. ASSUME IsReply(replies[1])
        PROVE  /\ replies[1].kind = "echo"
               /\ Accounted(Append(listed, replies[1].value), rest, everyone)
    <2> DEFINE after == Append(listed, replies[1].value)
    <2>1. PICK mac : mac = replies[1].value
      OBVIOUS
    <2>2. /\ replies[1].kind = "echo" /\ mac \in everyone
          /\ \A j \in 1 .. n : listed[j] # mac
      BY <1>1, <1>3, <2>1 DEF Accounted
    <2>3. /\ n \in Nat /\ Len(after) = n + 1 /\ \A i \in 1 .. n : after[i] = listed[i]
          /\ after[n + 1] = mac /\ n + 1 \in 1 .. Len(after)
          /\ \A i \in 1 .. Len(after) : i \in 1 .. n \/ i = n + 1
          /\ \A i \in 1 .. n : i \in 1 .. Len(after)
      <3>1. listed \in Seq(S \cup {mac}) /\ after = Append(listed, mac)
        BY <2>1
      <3> HIDE DEF after
      <3> QED BY <3>1, AppendOf
    <2> HIDE DEF after, n
    <2>4. \A i, j \in 1 .. Len(after) : i # j => after[i] # after[j]
      <3> SUFFICES ASSUME NEW i \in 1 .. Len(after), NEW j \in 1 .. Len(after), i # j
                   PROVE  after[i] # after[j]
        OBVIOUS
      <3> QED BY <2>2, <2>3 DEF Accounted, n
    <2>5. \A i \in 1 .. Len(after) : after[i] \in everyone
      BY <2>2, <2>3 DEF Accounted, n
    <2>6. \A i \in 1 .. Len(rest) : IsReply(rest[i]) =>
             /\ rest[i].kind = "echo" /\ rest[i].value \in everyone
             /\ \A j \in 1 .. Len(after) : after[j] # rest[i].value
      <3> SUFFICES ASSUME NEW i \in 1 .. Len(rest), IsReply(rest[i])
                   PROVE  /\ rest[i].kind = "echo" /\ rest[i].value \in everyone
                          /\ \A j \in 1 .. Len(after) : after[j] # rest[i].value
        OBVIOUS
      <3>1. /\ rest[i].kind = "echo" /\ rest[i].value \in everyone
            /\ \A j \in 1 .. n : listed[j] # rest[i].value
        BY <1>5
      <3>2. mac # rest[i].value
        <4>1. i + 1 \in 1 .. Len(replies) /\ i + 1 # 1 /\ rest[i] = replies[i + 1]
          BY <1>1
        <4> QED BY <1>1, <1>3, <1>4, <2>1, <4>1
      <3> QED BY <2>3, <3>1, <3>2
    <2>7. \A i, j \in 1 .. Len(rest) :
             i # j /\ IsReply(rest[i]) /\ IsReply(rest[j]) => rest[i].value # rest[j].value
      BY <1>6
    <2>8. \A m \in everyone :
             \/ \E i \in 1 .. Len(after) : after[i] = m
             \/ \E i \in 1 .. Len(rest) : IsReply(rest[i]) /\ rest[i].value = m
      <3> SUFFICES ASSUME NEW m \in everyone
                   PROVE  \/ \E i \in 1 .. Len(after) : after[i] = m
                          \/ \E i \in 1 .. Len(rest) : IsReply(rest[i]) /\ rest[i].value = m
        OBVIOUS
      <3>1. CASE \E i \in 1 .. n : listed[i] = m
        BY <2>3, <3>1
      <3>2. CASE \E i \in 1 .. Len(replies) : IsReply(replies[i]) /\ replies[i].value = m
        BY <1>1, <2>1, <2>3, <3>2
      <3> QED BY <3>1, <3>2 DEF Accounted, n
    <2>9. Accounted(after, rest, everyone)
      BY <2>4, <2>5, <2>6, <2>7, <2>8 DEF Accounted
    <2> QED BY <2>2, <2>9 DEF after
  <1> QED BY <1>1, <1>2, <1>3 DEF rest

LEMMA AccountedStray ==
    ASSUME NEW replies \in Seq(Arrivals), NEW stray \in Arrivals, ~IsReply(stray),
           NEW listed, NEW everyone, Accounted(listed, replies, everyone)
    PROVE  Accounted(listed, Append(replies, stray), everyone)
  <1> DEFINE after == Append(replies, stray)
             n == Len(replies)
  <1>1. /\ n \in Nat /\ Len(after) = n + 1 /\ \A i \in 1 .. n : after[i] = replies[i]
        /\ \A i \in 1 .. n : i \in 1 .. Len(after)
        /\ \A i \in 1 .. Len(after) : i \in 1 .. n \/ after[i] = stray
    BY AppendOf
  <1> HIDE DEF after
  <1>2. Accounted(listed, after, everyone)
    BY <1>1 DEF Accounted
  <1> QED BY <1>2 DEF after

\* The modules that have been waited for answer, each once.
LEMMA AccountedEchoes ==
    ASSUME NEW replies \in Seq(Arrivals), NEW tail \in Seq(Arrivals), NEW listed,
           NEW everyone, NEW more, \A m \in more : m \notin everyone,
           NEW order \in [1 .. Len(tail) -> more],
           \A i, j \in 1 .. Len(tail) : i # j => order[i] # order[j],
           \A i \in 1 .. Len(tail) : tail[i] = Echo(order[i]),
           \A m \in more : \E i \in 1 .. Len(tail) : order[i] = m,
           Accounted(listed, replies, everyone)
    PROVE  Accounted(listed, replies \o tail, everyone \cup more)
  <1> DEFINE after == replies \o tail
             n == Len(replies)
  <1>1. /\ n \in Nat /\ Len(tail) \in Nat /\ Len(after) = n + Len(tail)
        /\ \A i \in 1 .. n : after[i] = replies[i] /\ i \in 1 .. Len(after)
        /\ \A i \in 1 .. Len(tail) : after[n + i] = tail[i] /\ n + i \in 1 .. Len(after)
        /\ \A i \in 1 .. Len(after) :
             i \in 1 .. n \/ (i - n \in 1 .. Len(tail) /\ after[i] = tail[i - n])
    OBVIOUS
  <1> HIDE DEF after
  <1>2. \A i \in 1 .. Len(tail) :
          IsReply(tail[i]) /\ tail[i].kind = "echo" /\ tail[i].value = order[i] /\ order[i] \in more
    <2>1. \A m : Echo(m).kind = "echo" /\ Echo(m).value = m
      BY DEF Echo
    <2> QED BY <2>1 DEF IsReply
  <1>3. \A i \in 1 .. Len(after) : i \notin 1 .. n =>
          /\ i - n \in 1 .. Len(tail) /\ after[i].kind = "echo" /\ after[i].value = order[i - n]
          /\ order[i - n] \in more
    BY <1>1, <1>2
  <1>4. \A i, j \in 1 .. Len(after) : i # j => i - n # j - n
    BY <1>1
  <1>5. \A i, j \in 1 .. Len(after) :
          i # j /\ IsReply(after[i]) /\ IsReply(after[j]) => after[i].value # after[j].value
    <2> SUFFICES ASSUME NEW i \in 1 .. Len(after), NEW j \in 1 .. Len(after), i # j,
                        IsReply(after[i]), IsReply(after[j])
                 PROVE  after[i].value # after[j].value
      OBVIOUS
    <2>1. CASE i \in 1 .. n /\ j \in 1 .. n
      BY <1>1, <2>1 DEF Accounted
    <2>2. CASE i \in 1 .. n /\ j \notin 1 .. n
      <3>1. after[i].value \in everyone /\ after[j].value \in more
        BY <1>1, <1>3, <2>2 DEF Accounted
      <3> QED BY <3>1
    <2>3. CASE i \notin 1 .. n /\ j \in 1 .. n
      <3>1. after[j].value \in everyone /\ after[i].value \in more
        BY <1>1, <1>3, <2>3 DEF Accounted
      <3> QED BY <3>1
    <2>4. CASE i \notin 1 .. n /\ j \notin 1 .. n
      BY <1>3, <1>4, <2>4
    <2> QED BY <2>1, <2>2, <2>3, <2>4
  <1>6. \A i \in 1 .. Len(after) : IsReply(after[i]) =>
          /\ after[i].kind = "echo" /\ after[i].value \in everyone \cup more
          /\ \A j \in 1 .. Len(listed) : listed[j] # after[i].value
    <2> SUFFICES ASSUME NEW i \in 1 .. Len(after), IsReply(after[i])
                 PROVE  /\ after[i].kind = "echo" /\ after[i].value \in everyone \cup more
                        /\ \A j \in 1 .. Len(listed) : listed[j] # after[i].value
      OBVIOUS
    <2>1. CASE i \in 1 .. n
      <3>1. after[i] = replies[i] /\ IsReply(replies[i])
        BY <1>1, <2>1
      <3> QED BY <2>1, <3>1 DEF Accounted
    <2>2. CASE i \notin 1 .. n
      <3>1. \A j \in 1 .. Len(listed) : listed[j] \in everyone
        BY DEF Accounted
      <3> QED BY <1>3, <2>2, <3>1
    <2> QED BY <2>1, <2>2
  <1>7. \A m \in everyone \cup more :
          \/ \E i \in 1 .. Len(listed) : listed[i] = m
          \/ \E i \in 1 .. Len(after) : IsReply(after[i]) /\ after[i].value = m
    <2> SUFFICES ASSUME NEW m \in everyone \cup more
                 PROVE  \/ \E i \in 1 .. Len(listed) : listed[i] = m
                        \/ \E i \in 1 .. Len(after) : IsReply(after[i]) /\ after[i].value = m
      OBVIOUS
    <2>1. CASE m \in everyone
      BY <1>1, <2>1 DEF Accounted
    <2>2. CASE m \in more
      <3>1. PICK i \in 1 .. Len(tail) : order[i] = m
        BY <2>2
      <3> QED BY <1>1, <1>2, <3>1
    <2> QED BY <2>1, <2>2
  <1>8. Accounted(listed, after, everyone \cup more)
    BY <1>5, <1>6, <1>7 DEF Accounted
  <1> QED BY <1>8 DEF after

\* Before the first call there is nothing to be heard, and every module runs.
Untouched ==
    ops = 0 =>
      /\ op = "none" /\ toModules = <<>> /\ inbox = <<>> /\ up = Modules /\ address = "old"

LEMMA UntouchedStep ==
    ASSUME Typed, Untouched, Next
    PROVE  Untouched'
  <1>0. ops \in Nat
    BY DEF Typed, TypedCalls
  <1>1. ASSUME NEW d \in Devices, New(d) PROVE Untouched'
    BY <1>1 DEF New, control, modules, Untouched
  <1>2. CASE Close
    BY <1>2 DEF Close, control, modules, calls, Untouched
  <1>3. ASSUME NEW method \in Methods, Call(method) \/ CallClosed(method) PROVE Untouched'
    <2>1. ops' # 0
      BY <1>0, <1>3 DEF Call, CallClosed
    <2> QED BY <2>1 DEF Untouched
  <1>4. ASSUME ops # 0, UNCHANGED ops PROVE Untouched'
    BY <1>4 DEF Untouched
  <1>5. CASE HostStep
    <2>1. op # "none" /\ UNCHANGED ops
      BY <1>5, HostMoves DEF LeavesModules, calls
    <2> QED BY <1>4, <2>1 DEF Untouched
  <1>6. CASE Delivery
    <2>1. toModules # <<>> /\ UNCHANGED ops
      BY <1>6, DeliveryAnswers DEF calls
    <2> QED BY <1>4, <2>1 DEF Untouched
  <1>7. ASSUME NEW m \in Modules, Boots(m) PROVE Untouched'
    <2>1. up # Modules /\ UNCHANGED ops
      BY <1>7 DEF Boots, calls
    <2> QED BY <1>4, <2>1 DEF Untouched
  <1>8. CASE Lose
    <2>1. toModules # <<>> /\ UNCHANGED ops
      BY <1>8 DEF Lose, calls
    <2> QED BY <1>4, <2>1 DEF Untouched
  <1>9. ASSUME NEW kind \in StrayKinds, Stray(kind) PROVE Untouched'
    <2>1. op # "none" /\ UNCHANGED ops
      BY <1>9 DEF Stray, AtStep, calls, Typed, TypedControl
    <2> QED BY <1>4, <2>1 DEF Untouched
  <1> QED BY <1>1, <1>2, <1>3, <1>5, <1>6, <1>7, <1>8, <1>9 DEF Next

Searches == {"search", "search_targets"}

Method == IF op = "none" THEN outcome.op ELSE op

\* The first call is a search, which is under way or has returned, and nothing is lost.
Searching ==
    /\ ops = 1 /\ lost = 0 /\ Method \in Searches
    /\ op = "none" => outcome.kind = "returned"

\* Where its X's are sent to, and whom they reach.
SentTo(method) == IF method = "search_targets" THEN <<"old", "new">> ELSE <<device.target>>

Reached(to) == {m \in Modules : to = "all" \/ (to = "old" /\ m = Target)}

Upto(tos, n) == {m \in Modules : \E i \in 1 .. n : m \in Reached(tos[i])}

\* So many X's have been sent, so many have arrived, and those they have reached are
\* listed or have answered.
InSearch(tos, sent, arrived) ==
    /\ sent \in 0 .. Len(tos) /\ arrived \in 0 .. sent
    /\ Len(script) \in {Len(tos) - sent, Len(tos) - sent + 1}
    /\ \A j \in 1 .. Len(script) :
         IF j <= Len(tos) - sent
           THEN /\ script[j].do = "send" /\ script[j].cmd.c = "X"
                /\ tos[sent + j] = IF script[j].to = "target" THEN device.target
                                   ELSE script[j].to
         ELSE script[j].do = "collect"
    /\ Len(toModules) = sent - arrived
    /\ \A i \in 1 .. Len(toModules) :
         /\ toModules[i].cmd.c = "X" /\ toModules[i].from = devices
         /\ toModules[i].to = tos[arrived + i]
    /\ Accounted(found, inbox, Upto(tos, arrived))
    /\ up = Modules /\ address = "old"

FirstSearch ==
    Searching => \E sent, arrived : InSearch(SentTo(Method), sent, arrived)

LEMMA SentToType ==
    ASSUME Typed, NEW method, NEW tos, tos = SentTo(method)
    PROVE  /\ Len(tos) \in Nat
           /\ Upto(tos, 0) = {}
           /\ \A n \in 0 .. Len(tos) - 1 :
                /\ Upto(tos, n + 1) = Upto(tos, n) \cup Reached(tos[n + 1])
                /\ \A m \in Reached(tos[n + 1]) : m \notin Upto(tos, n)
  <1>1. Upto(tos, 0) = {}
    BY DEF Upto
  <1>2. \/ Len(tos) = 1
        \/ Len(tos) = 2 /\ tos[1] = "old" /\ tos[2] = "new"
    BY DEF SentTo
  <1>3. ASSUME NEW n \in 0 .. Len(tos) - 1
        PROVE  /\ Upto(tos, n + 1) = Upto(tos, n) \cup Reached(tos[n + 1])
               /\ \A m \in Reached(tos[n + 1]) : m \notin Upto(tos, n)
    <2>1. n \in Nat /\ \A i : i \in 1 .. n + 1 <=> i \in 1 .. n \/ i = n + 1
      BY <1>2
    <2>2. Reached(tos[n + 1]) \subseteq Modules
      BY DEF Reached
    <2>3. Upto(tos, n + 1) = Upto(tos, n) \cup Reached(tos[n + 1])
      BY <2>1, <2>2 DEF Upto
    <2>4. \A m \in Reached(tos[n + 1]) : m \notin Upto(tos, n)
      <3>1. CASE n = 0
        BY <1>1, <3>1
      <3>2. CASE n # 0
        <4>0. n = 1 /\ n + 1 = 2 /\ Len(tos) # 1
          BY <1>2, <3>2
        <4>1. tos[n + 1] = "new"
          BY <1>2, <4>0
        <4>2. Reached("new") = {}
          BY DEF Reached
        <4> QED BY <4>1, <4>2
      <3> QED BY <3>1, <3>2
    <2> QED BY <2>3, <2>4
  <1> QED BY <1>1, <1>2, <1>3

\* A search sends its X's, and collects then.
LEMMA SearchScript ==
    ASSUME NEW method \in Searches, NEW tos, tos = SentTo(method),
           NEW steps, steps = Script(method)
    PROVE  /\ Len(steps) = Len(tos) + 1 /\ Len(tos) \in {1, 2}
           /\ \A j \in 1 .. Len(steps) :
                IF j <= Len(tos)
                  THEN /\ steps[j].do = "send" /\ steps[j].cmd.c = "X"
                       /\ tos[j] = IF steps[j].to = "target" THEN device.target ELSE steps[j].to
                ELSE steps[j].do = "collect"
  <1>1. Cmd("X").c = "X"
    BY DEF Cmd
  <1>2. \A cmd, to : /\ Send(cmd).do = "send" /\ Send(cmd).cmd = cmd /\ Send(cmd).to = "target"
                     /\ SendTo(cmd, to).do = "send" /\ SendTo(cmd, to).cmd = cmd
                     /\ SendTo(cmd, to).to = to
    BY DEF Send, SendTo, Step
  <1>3. Do("collect").do = "collect"
    BY DEF Do, Step
  <1>4. CASE method = "search"
    <2>1. Len(tos) = 1 /\ tos[1] = device.target
      BY <1>4 DEF SentTo
    <2>2. Len(steps) = 2 /\ steps[1] = Send(Cmd("X")) /\ steps[2] = Do("collect")
      BY <1>4 DEF Script, search
    <2>3. \A j \in 1 .. 2 : j = 1 \/ (j = 2 /\ ~(j <= 1))
      OBVIOUS
    <2> QED BY <1>1, <1>2, <1>3, <2>1, <2>2, <2>3
  <1>5. CASE method = "search_targets"
    <2>1. Len(tos) = 2 /\ tos[1] = "old" /\ tos[2] = "new"
      BY <1>5 DEF SentTo
    <2>2. /\ Len(steps) = 3 /\ steps[1] = SendTo(Cmd("X"), "old")
          /\ steps[2] = SendTo(Cmd("X"), "new") /\ steps[3] = Do("collect")
      BY <1>5 DEF Script, search_targets
    <2>3. \A j \in 1 .. 3 : j = 1 \/ j = 2 \/ (j = 3 /\ ~(j <= 2))
      OBVIOUS
    <2> QED BY <1>1, <1>2, <1>3, <2>1, <2>2, <2>3
  <1> QED BY <1>4, <1>5 DEF Searches

LEMMA SearchCall ==
    ASSUME Typed, Untouched, NEW method \in Methods, Call(method)
    PROVE  FirstSearch'
  <1> SUFFICES ASSUME Searching' PROVE \E sent, arrived : InSearch(SentTo(Method), sent, arrived)'
    BY DEF FirstSearch
  <1>1. /\ op' = method /\ script' = Script(method) /\ ops' = ops + 1 /\ found' = <<>>
        /\ UNCHANGED <<device, toModules, inbox, up, address>>
    BY DEF Call, own, modules
  <1>2. ops = 0 /\ method # "none"
    BY <1>1, ConstantsAssumption DEF Searching, Typed, TypedCalls, AllMethods
  <1>3. toModules = <<>> /\ inbox = <<>> /\ up = Modules /\ address = "old"
    BY <1>2 DEF Untouched
  <1>4. method \in Searches /\ Method' = method
    BY <1>1, <1>2 DEF Searching, Method
  <1>5. PICK tos : tos = SentTo(method)
    OBVIOUS
  <1>6. SentTo(Method)' = tos
    BY <1>1, <1>4, <1>5 DEF SentTo
  <1>7. PICK steps : steps = Script(method)
    OBVIOUS
  <1>8. /\ Len(steps) = Len(tos) + 1 /\ Len(tos) \in {1, 2}
        /\ \A j \in 1 .. Len(steps) :
             IF j <= Len(tos)
               THEN /\ steps[j].do = "send" /\ steps[j].cmd.c = "X"
                    /\ tos[j] = IF steps[j].to = "target" THEN device.target ELSE steps[j].to
             ELSE steps[j].do = "collect"
    BY <1>4, <1>5, <1>7, SearchScript
  <1>9. Accounted(found', inbox', Upto(tos, 0))
    <2>1. Upto(tos, 0) = {} /\ Len(<<>>) = 0
      BY DEF Upto
    <2> QED BY <1>1, <1>3, <2>1 DEF Accounted
  <1>10. Len(tos) - 0 = Len(tos) /\ \A j \in 1 .. Len(steps) : 0 + j = j
    BY <1>8
  <1>11. Len(toModules') = 0 /\ 0 - 0 = 0 /\ 0 \in 0 .. Len(tos) /\ 0 \in 0 .. 0
    BY <1>1, <1>3, <1>8
  <1>12. InSearch(tos, 0, 0)'
    BY <1>1, <1>3, <1>7, <1>8, <1>9, <1>10, <1>11 DEF InSearch
  <1> QED BY <1>6, <1>12

LEMMA SearchHost ==
    ASSUME Typed, Follows, FirstSearch, HostStep
    PROVE  FirstSearch'
  <1> SUFFICES ASSUME Searching' PROVE \E sent, arrived : InSearch(SentTo(Method), sent, arrived)'
    BY DEF FirstSearch
  <1>0. /\ HostDoes /\ HostMove /\ op # "none" /\ UNCHANGED <<up, address, devices, ops, lost>>
        /\ script \in Seq(Steps) /\ toModules \in Seq(Datagrams) /\ inbox \in Seq(Arrivals)
        /\ found \in Seq(Modules \cup {NoMac}) /\ devices \in Nat
    BY HostDoesSo, HostMoves
       DEF HostDoes, modules, calls, faults, Typed, TypedControl, TypedNet, TypedResults, TypedCalls
  <1>1. Method' = op /\ op \in Searches
    <2>1. op' = op \/ (op' = "none" /\ outcome'.op = op)
      BY <1>0 DEF HostMove, Waits, Ends, Passes, PutsOut, Asks, FallsBack, Advance, Finish
    <2> QED BY <1>0, <2>1 DEF Searching, Method
  <1>2. Searching /\ Method = op
    BY <1>0, <1>1 DEF Searching, Method
  <1>3. PICK tos : tos = SentTo(op)
    OBVIOUS
  <1>4. PICK sent, arrived : InSearch(tos, sent, arrived)
    BY <1>2, <1>3 DEF FirstSearch
  <1>5. device' = device /\ SentTo(Method)' = tos
    <2>1. device' = device
      BY <1>0, <1>1 DEF HostDoes, FindsDevice, Searches
    <2> QED BY <1>1, <1>3, <2>1 DEF SentTo
  <1>6. /\ Len(tos) \in Nat /\ sent \in 0 .. Len(tos) /\ arrived \in 0 .. sent
        /\ Len(script) \in {Len(tos) - sent, Len(tos) - sent + 1}
        /\ Len(toModules) = sent - arrived /\ up = Modules /\ address = "old"
        /\ Accounted(found, inbox, Upto(tos, arrived))
    BY <1>3, <1>4, SentToType DEF InSearch
  <1>7. ASSUME script # <<>>
        PROVE  IF 1 <= Len(tos) - sent
                 THEN /\ Head(script).do = "send" /\ Head(script).cmd.c = "X"
                      /\ tos[sent + 1] = IF Head(script).to = "target" THEN device.target
                                         ELSE Head(script).to
               ELSE Head(script).do = "collect"
    <2>1. Head(script) = script[1] /\ 1 \in 1 .. Len(script)
      BY <1>0, <1>7, TailOf
    <2> QED BY <1>4, <2>1 DEF InSearch
  <1>8. ASSUME script # <<>> PROVE Head(script).do \in {"send", "collect"}
    BY <1>7, <1>8
  <1>9. CASE Return
    <2>1. /\ script = <<>> /\ script' = <<>> /\ UNCHANGED <<toModules, found, inbox>>
      BY <1>9 DEF Return, Finish, results
    <2>2. InSearch(tos, sent, arrived)'
      BY <1>0, <1>4, <1>5, <2>1 DEF InSearch
    <2> QED BY <1>5, <2>2
  <1>10. CASE DoSend
    <2>1. /\ script # <<>> /\ Head(script).do = "send" /\ script' = Tail(script)
          /\ toModules' = Append(toModules, Datagram) /\ UNCHANGED <<found, inbox>>
      BY <1>10 DEF DoSend, AtStep, Advance, results
    <2>2. PICK d : d = Datagram
      OBVIOUS
    <2>3. /\ 1 <= Len(tos) - sent /\ Head(script).cmd.c = "X"
          /\ tos[sent + 1] = IF Head(script).to = "target" THEN device.target ELSE Head(script).to
      BY <1>7, <2>1
    <2>4. /\ d \in Datagrams /\ d.cmd.c = "X" /\ d.from = devices /\ d.to = tos[sent + 1]
      <3>1. via = "main"
        BY <1>0, <1>1 DEF Follows, Searches, TwoPassMethods, Typed, TypedControl
      <3>2. Datagram \in Datagrams /\ Datagram.cmd = Head(script).cmd /\ Datagram.from = devices
        BY <2>1, <3>1, Sent
      <3>3. Datagram.to = tos[sent + 1]
        BY <2>3, <3>1 DEF Datagram
      <3> QED BY <2>2, <2>3, <3>2, <3>3
    <2> DEFINE n == Len(toModules)
    <2>5. /\ n \in Nat /\ Len(toModules') = n + 1 /\ toModules'[n + 1] = d
          /\ \A i \in 1 .. n : toModules'[i] = toModules[i]
          /\ \A i \in 1 .. Len(toModules') : i \in 1 .. n \/ i = n + 1
      <3>1. toModules' = Append(toModules, d)
        BY <2>1, <2>2
      <3> QED BY <1>0, <2>4, <3>1, AppendOf
    <2>6. arrived + (n + 1) = sent + 1 /\ n + 1 = (sent + 1) - arrived
      BY <1>6
    <2>7. \A i \in 1 .. Len(toModules') :
            /\ toModules'[i].cmd.c = "X" /\ toModules'[i].from = devices
            /\ toModules'[i].to = tos[arrived + i]
      <3> SUFFICES ASSUME NEW i \in 1 .. Len(toModules')
                   PROVE  /\ toModules'[i].cmd.c = "X" /\ toModules'[i].from = devices
                          /\ toModules'[i].to = tos[arrived + i]
        OBVIOUS
      <3>1. CASE i \in 1 .. n
        BY <1>4, <2>5, <3>1 DEF InSearch
      <3>2. CASE i = n + 1
        <4>1. tos[arrived + i] = tos[sent + 1]
          BY <2>6, <3>2
        <4> QED BY <2>4, <2>5, <3>2, <4>1
      <3> QED BY <2>5, <3>1, <3>2
    <2>8. /\ Len(script') = Len(script) - 1 /\ Len(script) \in Nat
          /\ \A i \in 1 .. Len(script') : i + 1 \in 1 .. Len(script) /\ script'[i] = script[i + 1]
      BY <1>0, <2>1, TailOf
    <2>9. Len(script') \in {Len(tos) - (sent + 1), Len(tos) - (sent + 1) + 1}
      BY <1>6, <2>8
    <2>10. \A j \in 1 .. Len(script') :
             IF j <= Len(tos) - (sent + 1)
               THEN /\ script'[j].do = "send" /\ script'[j].cmd.c = "X"
                    /\ tos[(sent + 1) + j] = IF script'[j].to = "target" THEN device.target
                                             ELSE script'[j].to
             ELSE script'[j].do = "collect"
      <3> SUFFICES ASSUME NEW j \in 1 .. Len(script')
                   PROVE  IF j <= Len(tos) - (sent + 1)
                            THEN /\ script'[j].do = "send" /\ script'[j].cmd.c = "X"
                                 /\ tos[(sent + 1) + j] =
                                      IF script'[j].to = "target" THEN device.target
                                      ELSE script'[j].to
                          ELSE script'[j].do = "collect"
        OBVIOUS
      <3>1. j + 1 \in 1 .. Len(script) /\ script'[j] = script[j + 1]
        BY <2>8
      <3>2. /\ (sent + 1) + j = sent + (j + 1)
            /\ j <= Len(tos) - (sent + 1) <=> j + 1 <= Len(tos) - sent
        BY <1>6, <2>8
      <3> QED BY <1>4, <3>1, <3>2 DEF InSearch
    <2>11. sent + 1 \in 0 .. Len(tos) /\ arrived \in 0 .. sent + 1
      BY <1>6, <2>3
    <2>12. InSearch(tos, sent + 1, arrived)'
      BY <1>0, <1>5, <1>6, <2>1, <2>5, <2>6, <2>7, <2>9, <2>10, <2>11 DEF InSearch
    <2> QED BY <1>5, <2>12
  <1>11. CASE Collect
    <2>1. /\ inbox # <<>> /\ IsReply(Head(inbox)) /\ inbox' = Tail(inbox)
          /\ found' = Append(found, IF Head(inbox).kind = "echo" THEN Head(inbox).value ELSE NoMac)
          /\ UNCHANGED <<script, toModules>>
      BY <1>11 DEF Collect, Listed, control
    <2>2. Head(inbox).kind = "echo" /\ Accounted(found', inbox', Upto(tos, arrived))
      <3>1. /\ Head(inbox).kind = "echo"
            /\ Accounted(Append(found, Head(inbox).value), Tail(inbox), Upto(tos, arrived))
        BY <1>0, <1>6, <2>1, AccountedTail
      <3> QED BY <2>1, <3>1
    <2>3. InSearch(tos, sent, arrived)'
      BY <1>0, <1>4, <1>5, <2>1, <2>2 DEF InSearch
    <2> QED BY <1>5, <2>3
  <1>12. CASE CollectEnds
    <2>1. /\ script # <<>> /\ Head(script).do = "collect" /\ UNCHANGED <<toModules, found>>
      BY <1>12 DEF CollectEnds, AtStep, results
    <2>2. /\ inbox' = inbox \/ (inbox # <<>> /\ ~IsReply(Head(inbox)) /\ inbox' = Tail(inbox))
          /\ Advance \/ Finish("ValueError")
      BY <1>1, <1>12 DEF CollectEnds, Searches
    <2>3. Advance
      BY <2>2 DEF Finish, Searching
    <2>4. ~(1 <= Len(tos) - sent)
      BY <1>7, <2>1
    <2>5. sent = Len(tos) /\ Len(script) = 1 /\ Len(script') = 0
      <3>1. Len(script) \in Nat \ {0} /\ Len(script') = Len(script) - 1
        BY <1>0, <2>1, <2>3, TailOf DEF Advance
      <3> QED BY <1>6, <2>4, <3>1
    <2>6. Accounted(found', inbox', Upto(tos, arrived))
      <3>1. CASE inbox' = inbox
        BY <1>6, <2>1, <3>1
      <3>2. CASE inbox # <<>> /\ ~IsReply(Head(inbox)) /\ inbox' = Tail(inbox)
        <4>1. Accounted(found, Tail(inbox), Upto(tos, arrived))
          BY <1>0, <1>6, <3>2, AccountedTail
        <4> QED BY <2>1, <3>2, <4>1
      <3> QED BY <2>2, <3>1, <3>2
    <2>7. Len(script') = Len(tos) - sent
      BY <1>6, <2>5
    <2>8. InSearch(tos, sent, arrived)'
      BY <1>0, <1>4, <1>5, <2>1, <2>5, <2>6, <2>7 DEF InSearch
    <2> QED BY <1>5, <2>8
  <1> QED BY <1>8, <1>9, <1>10, <1>11, <1>12
          DEF HostStep, RequestSends, NoReply, Reply, Drain, Sleep, Fallback, AtStep

LEMMA SearchDelivery ==
    ASSUME Typed, FirstSearch, Delivery
    PROVE  FirstSearch'
  <1> SUFFICES ASSUME Searching' PROVE \E sent, arrived : InSearch(SentTo(Method), sent, arrived)'
    BY DEF FirstSearch
  <1>1. PICK d : d = Head(toModules)
    OBVIOUS
  <1>2. /\ toModules # <<>> /\ toModules' = Tail(toModules) /\ d \in Datagrams
        /\ UNCHANGED <<host, calls, strays>> /\ lost' \in Nat /\ lost <= lost'
        /\ \E tail \in Seq(Arrivals) :
             /\ inbox' = inbox \o tail
             /\ \E order : Through(d, RepliesTo(d, settings'), tail, order)
    BY <1>1, DeliveryAnswers
  <1>3. /\ UNCHANGED <<device, op, script, found, outcome, devices, ops>>
        /\ toModules \in Seq(Datagrams) /\ inbox \in Seq(Arrivals)
        /\ found \in Seq(Modules \cup {NoMac}) /\ lost \in Nat
    BY <1>2 DEF host, own, control, results, ended, calls, Typed, TypedNet, TypedResults
  <1>4. lost = 0 /\ lost' = 0 /\ Searching /\ Method' = Method
    BY <1>2, <1>3 DEF Searching, Method
  <1>5. PICK tos : tos = SentTo(Method)
    OBVIOUS
  <1>6. PICK sent, arrived : InSearch(tos, sent, arrived)
    BY <1>4, <1>5 DEF FirstSearch
  <1>7. SentTo(Method)' = tos
    BY <1>3, <1>4, <1>5 DEF SentTo
  <1>8. /\ Len(tos) \in Nat /\ sent \in 0 .. Len(tos) /\ arrived \in 0 .. sent
        /\ Len(toModules) = sent - arrived /\ up = Modules /\ address = "old"
        /\ Accounted(found, inbox, Upto(tos, arrived))
    BY <1>5, <1>6, SentToType DEF InSearch
  <1>9. /\ d = toModules[1] /\ Len(toModules) \in Nat \ {0} /\ 1 \in 1 .. Len(toModules)
        /\ Len(toModules') = Len(toModules) - 1
        /\ \A i \in 1 .. Len(toModules') :
             i + 1 \in 1 .. Len(toModules) /\ toModules'[i] = toModules[i + 1]
    BY <1>1, <1>2, <1>3, TailOf
  <1>10. d.cmd.c = "X" /\ d.from = devices /\ d.to = tos[arrived + 1]
    BY <1>6, <1>9 DEF InSearch
  <1>11. UNCHANGED modules
    <2>1. Arrives("X") /\ ~Arrives("W") /\ ~Arrives("L") /\ ~Arrives("G") /\ ~Arrives("S")
          /\ ~Arrives("E")
      BY <1>1, <1>2, <1>10 DEF Arrives
    <2> QED BY <2>1 DEF Delivery, EchoArrives, SelectArrives, LoginArrives, GetArrives, SetArrives,
                        RebootArrives
  <1>12. Hearers(d) = Reached(tos[arrived + 1])
    <2>1. d.to \in {"old", "new", "all"}
      BY <1>2 DEF Datagrams
    <2> QED BY <1>8, <1>10, <2>1 DEF Hearers, Reached
  <1>13. PICK tail \in Seq(Arrivals) :
           /\ inbox' = inbox \o tail
           /\ \E order : Through(d, [m \in Hearers(d) |-> Echo(m)], tail, order)
    BY <1>2, <1>10 DEF RepliesTo
  <1>20. PICK order : Through(d, [m \in Hearers(d) |-> Echo(m)], tail, order)
    BY <1>13
  <1>14. /\ order \in [1 .. Len(tail) -> Hearers(d)]
         /\ \A i, j \in 1 .. Len(tail) : i # j => order[i] # order[j]
         /\ \A i \in 1 .. Len(tail) : tail[i] = Echo(order[i])
         /\ \A m \in Hearers(d) : \E i \in 1 .. Len(tail) : order[i] = m
    BY <1>4, <1>10, <1>20 DEF Through
  <1>15. arrived \in 0 .. Len(tos) - 1 /\ arrived + 1 \in 0 .. sent
         /\ Len(toModules') = sent - (arrived + 1)
    BY <1>8, <1>9
  <1>16. /\ Upto(tos, arrived + 1) = Upto(tos, arrived) \cup Hearers(d)
         /\ \A m \in Hearers(d) : m \notin Upto(tos, arrived)
    BY <1>5, <1>12, <1>15, SentToType
  <1>17. Accounted(found, inbox \o tail, Upto(tos, arrived) \cup Hearers(d))
    BY <1>3, <1>8, <1>14, <1>16, AccountedEchoes
  <1>18. \A i \in 1 .. Len(toModules') :
           /\ toModules'[i].cmd.c = "X" /\ toModules'[i].from = devices
           /\ toModules'[i].to = tos[(arrived + 1) + i]
    <2> SUFFICES ASSUME NEW i \in 1 .. Len(toModules')
                 PROVE  /\ toModules'[i].cmd.c = "X" /\ toModules'[i].from = devices
                        /\ toModules'[i].to = tos[(arrived + 1) + i]
      OBVIOUS
    <2>1. i + 1 \in 1 .. Len(toModules) /\ toModules'[i] = toModules[i + 1]
      BY <1>9
    <2>2. (arrived + 1) + i = arrived + (i + 1)
      BY <1>8, <1>9
    <2> QED BY <1>6, <2>1, <2>2 DEF InSearch
  <1>19. InSearch(tos, sent, arrived + 1)'
    <2>1. Accounted(found', inbox', Upto(tos, arrived + 1))
      BY <1>3, <1>13, <1>16, <1>17
    <2> QED BY <1>3, <1>6, <1>11, <1>15, <1>18, <2>1 DEF InSearch, modules
  <1> QED BY <1>7, <1>19

LEMMA SearchStep ==
    ASSUME Typed, Follows, Untouched, FirstSearch, Next
    PROVE  FirstSearch'
  <1>0. /\ inbox \in Seq(Arrivals) /\ toModules \in Seq(Datagrams)
        /\ lost \in Nat /\ strays \in Nat
    BY DEF Typed, TypedNet
  <1>1. ASSUME NEW d \in Devices, New(d) PROVE FirstSearch'
    <2>1. op' = "none" /\ outcome'.op = "none"
      BY <1>1 DEF New, control, NoOutcome
    <2> QED BY <2>1 DEF FirstSearch, Searching, Method, Searches
  <1>2. CASE Close
    <2>1. UNCHANGED <<device, op, script, found, outcome, inbox, toModules, up, address, devices,
                      ops, lost>>
      BY <1>2 DEF Close, control, results, ended, modules, calls, faults
    <2> QED BY <2>1 DEF FirstSearch, Searching, Method, InSearch, SentTo
  <1>3. ASSUME NEW method \in Methods, Call(method) PROVE FirstSearch'
    BY <1>3, SearchCall
  <1>4. ASSUME NEW method \in Methods, CallClosed(method) PROVE FirstSearch'
    <2>1. op' = "none" /\ outcome'.kind = "OSError"
      BY <1>4 DEF CallClosed, control
    <2> QED BY <2>1 DEF FirstSearch, Searching
  <1>5. CASE HostStep
    BY <1>5, SearchHost
  <1>6. CASE Delivery
    BY <1>6, SearchDelivery
  <1>7. ASSUME NEW m \in Modules, Boots(m) PROVE FirstSearch'
    <2>1. up # Modules /\ UNCHANGED <<op, outcome, ops, lost, device>>
      BY <1>7 DEF Boots, host, own, control, ended, calls, faults
    <2>2. ~Searching
      BY <2>1 DEF FirstSearch, InSearch
    <2> QED BY <2>1, <2>2 DEF FirstSearch, Searching, Method
  <1>8. CASE Lose
    <2>1. lost' # 0
      BY <1>0, <1>8 DEF Lose
    <2> QED BY <2>1 DEF FirstSearch, Searching
  <1>9. ASSUME NEW kind \in StrayKinds, Stray(kind) PROVE FirstSearch'
    <2>1. UNCHANGED <<device, op, script, found, outcome, toModules, up, address, devices, ops,
                      lost>>
      <3>1. UNCHANGED <<host, toModules, modules, calls, lost>>
        BY <1>9 DEF Stray
      <3> QED BY <3>1 DEF host, own, control, results, ended, modules, calls
    <2>2. PICK stray \in Arrivals : ~IsReply(stray) /\ inbox' = Append(inbox, stray)
      BY <1>9, StrayArrives
    <2>3. \A everyone : Accounted(found, inbox, everyone) => Accounted(found', inbox', everyone)
      BY <1>0, <2>1, <2>2, AccountedStray
    <2>4. (Searching' <=> Searching) /\ SentTo(Method)' = SentTo(Method)
      BY <2>1 DEF Searching, Method, SentTo
    <2>5. \A tos, sent, arrived : InSearch(tos, sent, arrived) => InSearch(tos, sent, arrived)'
      BY <2>1, <2>3 DEF InSearch
    <2> QED BY <2>4, <2>5 DEF FirstSearch
  <1> QED BY <1>1, <1>2, <1>3, <1>4, <1>5, <1>6, <1>7, <1>8, <1>9 DEF Next

Found == Typed /\ Follows /\ Untouched /\ FirstSearch

LEMMA FoundInit ==
    ASSUME Init
    PROVE  Found
  <1>1. Typed /\ Follows
    BY ReadingInit DEF Reading
  <1>2. Untouched /\ FirstSearch
    BY DEF Init, Untouched, FirstSearch, Searching
  <1> QED BY <1>1, <1>2 DEF Found

LEMMA FoundStep ==
    ASSUME Found, [Next]_vars
    PROVE  Found'
  <1>1. CASE Next
    BY <1>1, TypedStep, FollowsStep, UntouchedStep, SearchStep DEF Found
  <1>2. CASE UNCHANGED vars
    <2>1. /\ UNCHANGED <<device, op, script, via, waiting, attempts, found, got, outcome>>
          /\ UNCHANGED <<inbox, toModules, up, address, devices, ops, lost>>
      BY <1>2 DEF vars, host, own, control, results, ended, modules, calls, faults
    <2>2. Typed' /\ Follows'
      BY <1>2, <2>1, TypedStutter, FollowsKept DEF Found
    <2>3. Untouched'
      BY <2>1 DEF Found, Untouched
    <2>4. FirstSearch'
      BY <2>1 DEF Found, FirstSearch, Searching, Method, InSearch, SentTo
    <2> QED BY <2>2, <2>3, <2>4 DEF Found
  <1> QED BY <1>1, <1>2

LEMMA FoundIsSearchListsAll ==
    ASSUME Found
    PROVE  SearchListsAll
  <1> DEFINE left == {i \in 1 .. Len(inbox) : IsReply(inbox[i])}
             all  == IF outcome.op = "search_targets" THEN {Target}
                     ELSE IF device.target = "all" THEN Modules
                     ELSE IF device.target = address THEN {Target} ELSE {}
  <1> SUFFICES ASSUME Quiet, ops = 1, lost = 0, Returned("search") \/ Returned("search_targets")
               PROVE  /\ IsInjective(found)
                      /\ \A i, j \in left : inbox[i].value = inbox[j].value => i = j
                      /\ \A i \in left : inbox[i].value \notin ToSet(found)
                      /\ ToSet(found) \cup {inbox[i].value : i \in left} = all
    BY DEF SearchListsAll
  <1>1. op = "none" /\ toModules = <<>> /\ script = <<>> /\ found \in Seq(Modules \cup {NoMac})
    BY DEF Quiet, Found, Typed, TypedControl, TypedResults
  <1>2. outcome.kind = "returned" /\ outcome.op \in Searches
    BY DEF Returned, Searches
  <1>3. Searching /\ Method = outcome.op
    BY <1>1, <1>2 DEF Searching, Method
  <1>4. PICK tos : tos = SentTo(outcome.op)
    OBVIOUS
  <1>5. PICK sent, arrived : InSearch(tos, sent, arrived)
    BY <1>3, <1>4 DEF Found, FirstSearch
  <1>6. Len(tos) \in Nat
    BY <1>4, SentToType DEF Found
  <1>7. Len(script) = 0 /\ Len(toModules) = 0
    BY <1>1
  <1>8. arrived = Len(tos)
    BY <1>5, <1>6, <1>7 DEF InSearch
  <1>9. Accounted(found, inbox, Upto(tos, Len(tos))) /\ address = "old"
    BY <1>5, <1>8 DEF InSearch
  <1>10. Upto(tos, Len(tos)) = all
    <2>1. CASE outcome.op = "search_targets"
      <3>1. Len(tos) = 2 /\ tos[1] = "old" /\ tos[2] = "new"
        BY <1>4, <2>1 DEF SentTo
      <3>2. Reached("old") = {Target} /\ Reached("new") = {}
        BY ConstantsAssumption DEF Reached
      <3>3. 1 \in 1 .. 2 /\ \A i \in 1 .. 2 : i = 1 \/ i = 2
        OBVIOUS
      <3>4. \A m \in Modules : (\E i \in 1 .. Len(tos) : m \in Reached(tos[i])) <=> m = Target
        BY <3>1, <3>2, <3>3
      <3> QED BY <2>1, <3>4, ConstantsAssumption DEF Upto
    <2>2. CASE outcome.op # "search_targets"
      <3>1. Len(tos) = 1 /\ tos[1] = device.target
        BY <1>4, <2>2 DEF SentTo
      <3>2. \A i : i \in 1 .. Len(tos) <=> i = 1
        BY <3>1
      <3>3. Upto(tos, Len(tos)) = Reached(device.target)
        BY <3>1, <3>2 DEF Upto, Reached
      <3>4. device.target \in {"old", "new", "all"}
        BY DEF Found, Typed, TypedOwn, AllDevices
      <3> QED BY <1>9, <2>2, <3>3, <3>4, ConstantsAssumption DEF Reached
    <2> QED BY <2>1, <2>2
  <1>11. ToSet(found) = {found[i] : i \in 1 .. Len(found)}
    BY <1>1 DEF ToSet
  <1>12. IsInjective(found)
    BY <1>1, <1>9 DEF Accounted, IsInjective
  <1> HIDE DEF all
  <1>13. Accounted(found, inbox, all)
    BY <1>9, <1>10
  <1>14. /\ \A i, j \in left : inbox[i].value = inbox[j].value => i = j
         /\ \A i \in left : inbox[i].value \notin ToSet(found)
    BY <1>11, <1>13 DEF Accounted
  <1>15. ToSet(found) \cup {inbox[i].value : i \in left} = all
    BY <1>11, <1>13 DEF Accounted
  <1> QED BY <1>12, <1>14, <1>15

\* When nothing is lost, the first search on the LAN, broadcast, at one address or at
\* two of them, lists each module it reaches once, or leaves its reply unread in the
\* socket, once: for any number of modules, of other datagrams and of results that
\* _collect_search_results() takes.
THEOREM SearchesListAll == Spec => []SearchListsAll
  <1>1. Spec => []Found
    BY FoundInit, FoundStep, PTL DEF Spec
  <1> QED BY <1>1, FoundIsSearchListsAll, PTL
=============================================================================
