---------------------------- MODULE DeviceConfig ----------------------------
(***************************************************************************)
(* The configuration record of an HW-VX module (hwvx/config.py) between    *)
(* the strings the module stores and the caller who reads the record,      *)
(* assigns to its fields and saves it: HwVxDevice.get_config() ends in     *)
(* from_wire(), save_config() starts with to_wire().  How the strings      *)
(* travel is the subject of HwVx; here every datagram arrives.             *)
(*                                                                         *)
(* A text is a pair: what it looks like and what it says, as in            *)
(* <<"numeral", 5>>, <<"dotted", "a">> (an IPv4 address), <<"loose", 5>>   *)
(* (a string that int() takes for 5 and str() never writes, as "+5") or    *)
(* <<"word", "x">>.  A Python value is its type and its content; the       *)
(* content of a str is a text.                                             *)
(***************************************************************************)
EXTENDS Integers

CONSTANTS Fields,      \* the fields of the instance, of those of the class
          Words,       \* the free texts
          Addresses,   \* the IPv4 addresses
          Quirks,      \* texts that something else may store in the module
          Assigned,    \* values the caller may assign to any field
          MaxChanges   \* bound on what caller and others change

Kinds == [
    username |-> "str", device_name |-> "str", mac_address |-> "str",
    ip_address |-> "IPv4Address", port_number |-> "int", protocol |-> "NetProtocol",
    work_mode |-> "NetWorkMode", remote_ip |-> "IPv4Address", remote_port |-> "int",
    gateway_ip |-> "IPv4Address", subnet_mask |-> "IPv4Address", dhcp |-> "Toggle",
    baud_rate |-> "BaudRate", parity |-> "Parity", data_bits |-> "DataBits",
    dtr_mode |-> "Toggle", rts |-> "Toggle", connection_mode |-> "Toggle",
    connection_timeout |-> "int", reconnect |-> "int", max_length |-> "int",
    max_delay |-> "int"]

ASSUME FieldsAssumption == Fields \subseteq DOMAIN Kinds

\* The members of the enums of hwvx/constants.py.
Enums == [NetProtocol |-> 0 .. 1, NetWorkMode |-> 0 .. 1, BaudRate |-> 0 .. 7,
          Parity |-> 0 .. 4, DataBits |-> 0 .. 1, Toggle |-> 0 .. 1]

Ports == {"port_number", "remote_port"}

Counters == {"connection_timeout", "reconnect", "max_length", "max_delay"}

\* What the config pass of save_config() does not send.
NotSaved == {"mac_address", "dhcp"}

Value(type, content) == [type |-> type, content |-> content]

Unrepresentable == Value("none", 0)

ASSUME TextAssumption ==
    /\ {"", "True", "False"} \subseteq Words
    /\ {"0.0.0.0", "255.255.255.0"} \subseteq Addresses

\* What the strings of the module and the values of a caller are.
Texts == ({"numeral", "loose"} \X Int) \cup ({"dotted"} \X Addresses) \cup ({"word"} \X Words)

Values ==
    [type : {"int"}, content : Int] \cup [type : {"bool"}, content : 0 .. 1]
      \cup [type : {"str"}, content : Texts] \cup [type : {"IPv4Address"}, content : Addresses]
      \cup UNION {[type : {enum}, content : Enums[enum]] : enum \in DOMAIN Enums}

ASSUME ChangesAssumption == Quirks \subseteq Texts /\ Assigned \subseteq Values

DefaultContent(field) ==
    IF field = "subnet_mask" THEN "255.255.255.0"
    ELSE IF Kinds[field] = "IPv4Address" THEN "0.0.0.0"
    ELSE IF Kinds[field] = "str" THEN <<"word", "">>
    ELSE IF field \in {"protocol", "data_bits"} THEN 1
    ELSE IF field = "baud_rate" THEN 3 ELSE 0

Default(field) == Value(Kinds[field], DefaultContent(field))
-----------------------------------------------------------------------------
(* One string, one value.                                                  *)

IsInteger(text) == text[1] \in {"numeral", "loose"}

\* _parse(): Unrepresentable stands for its ValueError.
Parse(kind, text) ==
    CASE kind = "str" -> Value("str", text)
      [] kind = "IPv4Address" /\ text[1] = "dotted" -> Value(kind, text[2])
      [] kind = "int" /\ IsInteger(text) -> Value(kind, text[2])
      [] kind \in DOMAIN Enums /\ IsInteger(text) /\ text[2] \in Enums[kind] ->
           Value(kind, text[2])
      [] OTHER -> Unrepresentable

\* Fault for Dump: str() of an enum member, which is its name.
Dump_Name(value) ==
    CASE value.type = "str" -> value.content
      [] value.type = "IPv4Address" -> <<"dotted", value.content>>
      [] value.type = "int" -> <<"numeral", value.content>>
      [] OTHER -> <<"word", "name">>

\* _dump(): the number of a member, and str() of anything else.
Dump(value) ==
    CASE value.type = "str" -> value.content
      [] value.type = "IPv4Address" -> <<"dotted", value.content>>
      [] value.type \in {"int"} \cup DOMAIN Enums -> <<"numeral", value.content>>
      [] value.type = "bool" -> <<"word", IF value.content = 1 THEN "True" ELSE "False">>

\* isinstance(): a bool and a member of an IntEnum are ints as well.
IsInstance(value, kind) ==
    \/ value.type = kind
    \/ kind = "int" /\ value.type \in {"bool"} \cup DOMAIN Enums

Framed(text) == text \notin {<<"word", "with pipe">>, <<"word", "accented">>}
-----------------------------------------------------------------------------
(* The record.                                                             *)

VARIABLES stored,   \* the texts in the module
          cfg,      \* the record the caller holds: <<>>, or <<field |-> value>>
          outcome,  \* of the latest call: the fields it was about, and of those the
            \* ones its ValueError names
          own,      \* history: the fields in which the caller or something else
                    \* has changed the record or the module since it was read
          changes   \* history: how often

vars == <<stored, cfg, outcome, own, changes>>

Outcome(kind, of, named) == [kind |-> kind, of |-> of, named |-> named]

Quiet == Outcome("none", {}, {})

Init ==
    /\ stored = [f \in Fields |-> Dump(IF f \in Ports THEN Value("int", 2077) ELSE Default(f))]
    /\ cfg = <<>> /\ outcome = Quiet /\ own = {} /\ changes = 0

\* DeviceConfig().
New ==
    /\ cfg' = <<[f \in Fields |-> Default(f)]>>
    /\ outcome' = Quiet /\ own' = Fields
    /\ UNCHANGED <<stored, changes>>

\* Fault for Unparsed: a string that cannot be parsed is passed over.
Unparsed_PassedOver(present) == {}

Unparsed(present) == {f \in present : Parse(Kinds[f], stored[f]) = Unrepresentable}

\* from_wire() with the strings of `present', which for get_config() is all of
\* them.  Fields that are not there take their defaults.
from_wire(present) ==
    LET read(f) == IF f \in present THEN Parse(Kinds[f], stored[f]) ELSE Default(f)
        bad     == Unparsed(present)
    IN  /\ IF bad = {}
             THEN /\ cfg' = <<[f \in Fields |-> read(f)]>> /\ own' = Fields \ present
                  /\ outcome' = Outcome("read", present, {})
             ELSE outcome' = Outcome("unreadable", present, bad) /\ UNCHANGED <<cfg, own>>
        /\ UNCHANGED <<stored, changes>>

\* A string that breaks the framing of the reply does not reach from_wire().
get_config ==
    IF \A f \in Fields : Framed(stored[f]) THEN from_wire(Fields)
    ELSE outcome' = Outcome("unreadable", {}, {}) /\ UNCHANGED <<stored, cfg, own, changes>>

\* Fault for Range: the lower limit of a port is forgotten.
Range_NoLowerLimit(field) == IF field \in Ports THEN 0 .. 65535 ELSE Nat

Range(field) == IF field \in Ports THEN 1 .. 65535 ELSE Nat

\* Fault for Problems: a field of the wrong type is skipped in silence.
Problems_SkipsType(field, value) ==
    (IF value.type = "str" /\ ~Framed(value.content) THEN {"framing"} ELSE {})
      \cup (IF /\ field \in Ports \cup Counters /\ IsInstance(value, "int")
                /\ value.content \notin Range(field)
             THEN {"range"} ELSE {})

\* The complaints of validate() about one field.
Problems(field, value) ==
    (IF ~IsInstance(value, Kinds[field]) THEN {"type"}
     ELSE IF value.type = "str" /\ ~Framed(value.content) THEN {"framing"} ELSE {})
      \cup (IF /\ field \in Ports \cup Counters /\ IsInstance(value, "int")
                /\ value.content \notin Range(field)
             THEN {"range"} ELSE {})

\* to_wire(), and the config pass that sends what it returns.
save_config ==
    /\ cfg # <<>>
    /\ LET bad == {f \in Fields : Problems(f, cfg[1][f]) # {}}
       IN  IF bad = {}
             THEN /\ stored' = [f \in Fields |-> IF f \in NotSaved THEN stored[f]
                                                 ELSE Dump(cfg[1][f])]
                  /\ outcome' = Outcome("saved", Fields, {})
             ELSE outcome' = Outcome("rejected", Fields, bad) /\ UNCHANGED stored
    /\ UNCHANGED <<cfg, own, changes>>

Change(f) ==
    /\ changes < MaxChanges /\ changes' = changes + 1
    /\ own' = own \cup {f} /\ outcome' = Quiet

Assign(f, value) ==
    /\ cfg # <<>> /\ Change(f)
    /\ cfg' = <<[cfg[1] EXCEPT ![f] = value]>>
    /\ UNCHANGED stored

\* Another program, or the firmware, puts a text in the module.
Quirk(f, text) ==
    /\ Change(f)
    /\ stored' = [stored EXCEPT ![f] = text]
    /\ UNCHANGED cfg

Next ==
    \/ New \/ get_config \/ save_config
    \/ \E f \in Fields : from_wire(Fields \ {f})
    \/ \E f \in Fields, value \in Assigned : Assign(f, value)
    \/ \E f \in Fields, text \in Quirks : Quirk(f, text)

Spec == Init /\ [][Next]_vars
-----------------------------------------------------------------------------
(* Properties.                                                             *)

\* What the documentation allows in a field (docs/hwvx_module/HWVX.md,
\* DeviceConfig), said of the text and of the value.
LegalText(f, text) ==
    CASE Kinds[f] = "str"         -> Framed(text)
      [] Kinds[f] = "IPv4Address" -> text[1] = "dotted"
      [] f \in Ports              -> text[1] = "numeral" /\ text[2] \in 1 .. 65535
      [] f \in Counters           -> text[1] = "numeral" /\ text[2] >= 0
      [] OTHER                    -> text[1] = "numeral" /\ text[2] \in Enums[Kinds[f]]

Booleans == {f \in Fields : cfg # <<>> /\ cfg[1][f].type = "bool"}

\* A saved configuration is stored in the documented form and reads back with
\* the same values, whatever the caller assigned before, as long as it was not a
\* bool: validate() lets nothing through that the module or from_wire() would
\* not understand.
SavedReadsBack ==
    outcome.kind = "saved" =>
      \A f \in Fields \ (NotSaved \cup Booleans) :
        /\ LegalText(f, stored[f])
        /\ Parse(Kinds[f], stored[f]).content = cfg[1][f].content

\* A record is rejected for the fields whose text would be illegal and for no
\* other, and the error names them all.
BadFieldsNamed ==
    outcome.kind = "rejected" =>
      \A f \in Fields \ Booleans :
        f \notin outcome.named <=> /\ IsInstance(cfg[1][f], Kinds[f])
                                  /\ LegalText(f, Dump(cfg[1][f]))

\* No quirk of the module becomes a default in silence: a record that was read
\* holds what every string said, and otherwise the error names every string
\* that says nothing.
ReadsAreFaithful ==
    /\ outcome.kind = "read" =>
         \A f \in Fields \ own :
           IF Kinds[f] = "str" THEN cfg[1][f].content = stored[f]
           ELSE stored[f][1] # "word" /\ cfg[1][f].content = stored[f][2]
    /\ outcome.kind = "unreadable" =>
         outcome.named = {f \in outcome.of : Parse(Kinds[f], stored[f]) = Unrepresentable}

\* Read, change, save: the settings the caller did not touch, and nothing else
\* has touched meanwhile, mean what they meant before.
UntouchedKept ==
    [][outcome'.kind = "saved" =>
         \A f \in Fields \ own :
           Parse(Kinds[f], stored'[f]) = Parse(Kinds[f], stored[f])]_vars

\* What the comment in validate() says: a value of the wrong type fails there
\* instead of corrupting the wire.
FailsLoud ==
    outcome.kind = "saved" =>
      \A f \in Fields \ NotSaved : Parse(Kinds[f], stored[f]) # Unrepresentable
=============================================================================
