------------------------- MODULE DeviceConfigProofs -------------------------
(***************************************************************************)
(* Proofs about DeviceConfig for any part of the 22 fields, any strings in *)
(* the module and any values a caller may assign.                          *)
(*                                                                         *)
(* The facts about one string and one value (_parse, _dump, validate) are  *)
(* lemmas, one for each kind of field where the kinds differ.  The facts   *)
(* about saving hold in the step that saves and are kept, because every    *)
(* later step of record or module changes the outcome; that an untouched   *)
(* field survives a save needs an invariant, InvRead: what the caller did  *)
(* not touch says what the module's string says.                           *)
(***************************************************************************)
EXTENDS DeviceConfig, TLAPS

IntFields == Ports \cup Counters

-----------------------------------------------------------------------------
(* Kinds, strings and values.                                              *)

LEMMA KindOfField ==
    ASSUME NEW f \in Fields
    PROVE  /\ Kinds[f] \in {"str", "IPv4Address", "int"} \cup DOMAIN Enums
           /\ Kinds[f] = "int" <=> f \in IntFields
  <1>1. f \in DOMAIN Kinds
    BY FieldsAssumption
  <1> QED BY <1>1 DEF Kinds, Enums, IntFields, Ports, Counters

LEMMA EnumNames ==
    /\ DOMAIN Enums = {"NetProtocol", "NetWorkMode", "BaudRate", "Parity", "DataBits", "Toggle"}
    /\ \A enum \in DOMAIN Enums : Enums[enum] \subseteq Nat
  BY DEF Enums

\* The cases of a value: its type says what its content is.
LEMMA ValueCases ==
    ASSUME NEW v \in Values
    PROVE  /\ v = Value(v.type, v.content)
           /\ \/ v.type \in {"int"} /\ v.content \in Int
              \/ v.type = "bool" /\ v.content \in 0 .. 1
              \/ v.type = "str" /\ v.content \in Texts
              \/ v.type = "IPv4Address" /\ v.content \in Addresses
              \/ v.type \in DOMAIN Enums /\ v.content \in Enums[v.type]
  BY DEF Values, Value

LEMMA MakeValue ==
    /\ \A n \in Int : Value("int", n) \in Values
    /\ \A t \in Texts : Value("str", t) \in Values
    /\ \A a \in Addresses : Value("IPv4Address", a) \in Values
    /\ \A enum \in DOMAIN Enums : \A n \in Enums[enum] : Value(enum, n) \in Values
    /\ Unrepresentable \notin Values
  BY EnumNames DEF Values, Value, Unrepresentable

LEMMA TextCases ==
    ASSUME NEW t \in Texts
    PROVE  /\ t = <<t[1], t[2]>>
           /\ \/ t[1] \in {"numeral", "loose"} /\ t[2] \in Int
              \/ t[1] = "dotted" /\ t[2] \in Addresses
              \/ t[1] = "word" /\ t[2] \in Words
  BY DEF Texts

LEMMA DefaultIsValue ==
    ASSUME NEW f \in Fields
    PROVE  Default(f) \in Values
  <1>1. f \in DOMAIN Kinds
    BY FieldsAssumption
  <1>2. <<"word", "">> \in Texts
    BY TextAssumption DEF Texts
  <1>3. CASE Kinds[f] = "str"
    <2>1. f # "subnet_mask"
      BY <1>3 DEF Kinds
    <2> QED BY <1>2, <1>3, <2>1, MakeValue DEF Default, DefaultContent
  <1>4. CASE Kinds[f] = "IPv4Address"
    BY <1>4, TextAssumption, MakeValue DEF Default, DefaultContent
  <1>5. CASE Kinds[f] = "int"
    <2>1. f # "subnet_mask"
      BY <1>5 DEF Kinds
    <2> QED BY <1>5, <2>1, MakeValue DEF Default, DefaultContent
  <1>6. CASE Kinds[f] \in DOMAIN Enums
    <2>1. f # "subnet_mask" /\ Kinds[f] \notin {"str", "IPv4Address"}
      BY <1>6, EnumNames DEF Kinds
    <2>2. /\ f \in {"protocol", "data_bits"} => Kinds[f] \in {"NetProtocol", "DataBits"}
          /\ f = "baud_rate" => Kinds[f] = "BaudRate"
      BY DEF Kinds
    <2>3. \A enum \in DOMAIN Enums :
            /\ 0 \in Enums[enum] /\ 1 \in Enums[enum]
            /\ enum = "BaudRate" => 3 \in Enums[enum]
      BY DEF Enums
    <2>4. DefaultContent(f) \in Enums[Kinds[f]]
      BY <1>6, <2>1, <2>2, <2>3 DEF DefaultContent
    <2> QED BY <1>6, <2>4, MakeValue DEF Default
  <1> QED BY <1>3, <1>4, <1>5, <1>6, KindOfField

\* _dump() writes a text for every value a caller may assign.
LEMMA DumpIsText ==
    ASSUME NEW v \in Values
    PROVE  Dump(v) \in Texts
  <1>1. CASE v.type = "int"
    BY <1>1, ValueCases, EnumNames DEF Dump, Texts
  <1>2. CASE v.type = "bool"
    BY <1>2, ValueCases, EnumNames, TextAssumption DEF Dump, Texts
  <1>3. CASE v.type = "str"
    BY <1>3, ValueCases, EnumNames DEF Dump, Texts
  <1>4. CASE v.type = "IPv4Address"
    BY <1>4, ValueCases, EnumNames DEF Dump, Texts
  <1>5. CASE v.type \in DOMAIN Enums
    BY <1>5, ValueCases, EnumNames DEF Dump, Texts
  <1> QED BY <1>1, <1>2, <1>3, <1>4, <1>5, ValueCases

\* What _parse() makes of a text is Unrepresentable or a value of the kind asked for.
LEMMA ParseIsValue ==
    ASSUME NEW f \in Fields, NEW t \in Texts, Parse(Kinds[f], t) # Unrepresentable
    PROVE  Parse(Kinds[f], t) \in Values /\ Parse(Kinds[f], t).type = Kinds[f]
  <1> DEFINE kind == Kinds[f]
  <1>1. CASE kind = "str"
    BY <1>1, MakeValue, EnumNames DEF Parse, Value
  <1>2. CASE kind = "IPv4Address"
    BY <1>2, MakeValue, TextCases, EnumNames DEF Parse, Value
  <1>3. CASE kind = "int"
    BY <1>3, MakeValue, TextCases, EnumNames DEF Parse, Value, IsInteger
  <1>4. CASE kind \in DOMAIN Enums
    BY <1>4, MakeValue, TextCases, EnumNames DEF Parse, Value, IsInteger
  <1> QED BY <1>1, <1>2, <1>3, <1>4, KindOfField

\* What _parse() accepts it takes over: the text, the address or the number.
LEMMA ParseContent ==
    ASSUME NEW f \in Fields, NEW t \in Texts, Parse(Kinds[f], t) # Unrepresentable
    PROVE  IF Kinds[f] = "str" THEN Parse(Kinds[f], t).content = t
           ELSE t[1] # "word" /\ Parse(Kinds[f], t).content = t[2]
  <1> DEFINE kind == Kinds[f]
  <1>1. CASE kind = "str"
    BY <1>1, EnumNames DEF Parse, Value
  <1>2. CASE kind = "IPv4Address"
    BY <1>2, EnumNames DEF Parse, Value
  <1>3. CASE kind = "int"
    BY <1>3, EnumNames DEF Parse, Value, IsInteger
  <1>4. CASE kind \in DOMAIN Enums
    BY <1>4, EnumNames DEF Parse, Value, IsInteger
  <1> QED BY <1>1, <1>2, <1>3, <1>4, KindOfField

\* What _dump() writes of a value that isinstance() lets through, _parse() reads
\* as a value of the same content; except a bool.
LEMMA DumpReadsBack ==
    ASSUME NEW f \in Fields, NEW v \in Values, v.type # "bool", IsInstance(v, Kinds[f])
    PROVE  Parse(Kinds[f], Dump(v)) = Value(Kinds[f], v.content)
  <1> DEFINE kind == Kinds[f]
  <1>1. CASE kind = "str"
    BY <1>1, ValueCases, EnumNames DEF Parse, Dump, Value, IsInstance
  <1>2. CASE kind = "IPv4Address"
    BY <1>2, ValueCases, EnumNames DEF Parse, Dump, Value, IsInstance
  <1>3. CASE kind = "int"
    BY <1>3, ValueCases, EnumNames DEF Parse, Dump, Value, IsInstance, IsInteger
  <1>4. CASE kind \in DOMAIN Enums
    BY <1>4, ValueCases, EnumNames DEF Parse, Dump, Value, IsInstance, IsInteger
  <1> QED BY <1>1, <1>2, <1>3, <1>4, KindOfField

LEMMA ProblemsCases ==
    ASSUME NEW f, NEW v
    PROVE  Problems(f, v) = {} <=>
             /\ IsInstance(v, Kinds[f])
             /\ v.type = "str" => Framed(v.content)
             /\ f \in IntFields /\ IsInstance(v, "int") => v.content \in Range(f)
  BY DEF Problems, IntFields

\* What the documentation allows, by kind.
LEMMA LegalStr ==
    ASSUME NEW f, NEW t, Kinds[f] = "str", f \notin IntFields
    PROVE  LegalText(f, t) <=> Framed(t)
  <1>1. f \notin Ports /\ f \notin Counters
    BY DEF IntFields
  <1> QED BY <1>1, SMT DEF LegalText

LEMMA LegalAddress ==
    ASSUME NEW f, NEW t, Kinds[f] = "IPv4Address", f \notin IntFields
    PROVE  LegalText(f, t) <=> t[1] = "dotted"
  <1>1. f \notin Ports /\ f \notin Counters
    BY DEF IntFields
  <1> QED BY <1>1, SMT DEF LegalText

LEMMA LegalPort ==
    ASSUME NEW f, NEW t, Kinds[f] = "int", f \in Ports, f \notin Counters
    PROVE  LegalText(f, t) <=> t[1] = "numeral" /\ t[2] \in Range(f)
  BY SMT DEF LegalText, Range

LEMMA LegalCounter ==
    ASSUME NEW f, NEW t, Kinds[f] = "int", f \in Counters, f \notin Ports
    PROVE  LegalText(f, t) <=> t[1] = "numeral" /\ t[2] >= 0
  BY SMT DEF LegalText

LEMMA LegalMember ==
    ASSUME NEW f, NEW t, Kinds[f] \notin {"str", "IPv4Address"}, f \notin IntFields
    PROVE  LegalText(f, t) <=> t[1] = "numeral" /\ t[2] \in Enums[Kinds[f]]
  <1>1. f \notin Ports /\ f \notin Counters
    BY DEF IntFields
  <1> QED BY <1>1, SMT DEF LegalText

LEMMA DumpCases ==
    ASSUME NEW v \in Values
    PROVE  /\ v.type = "str" => Dump(v) = v.content
           /\ v.type = "IPv4Address" => Dump(v) = <<"dotted", v.content>>
           /\ v.type \in {"int"} \cup DOMAIN Enums => Dump(v) = <<"numeral", v.content>>
  BY EnumNames DEF Dump

\* validate() complains of exactly the values whose text would be illegal;
\* except a bool.
LEMMA ProblemsAreIllegal ==
    ASSUME NEW f \in Fields, NEW v \in Values, v.type # "bool"
    PROVE  Problems(f, v) = {} <=> IsInstance(v, Kinds[f]) /\ LegalText(f, Dump(v))
  <1> DEFINE kind == Kinds[f]
             t    == Dump(v)
  <1>1. kind = "int" <=> f \in IntFields
    BY KindOfField
  <1>2. Problems(f, v) = {} <=>
          /\ IsInstance(v, kind)
          /\ v.type = "str" => Framed(v.content)
          /\ f \in IntFields /\ IsInstance(v, "int") => v.content \in Range(f)
    BY ProblemsCases
  <1>3. CASE ~IsInstance(v, kind)
    BY <1>2, <1>3
  <1>4. CASE kind = "str" /\ IsInstance(v, kind)
    <2>1. v.type = "str" /\ t = v.content
      BY <1>4, DumpCases DEF IsInstance
    <2>2. f \notin IntFields
      BY <1>1, <1>4
    <2>3. LegalText(f, t) <=> Framed(t)
      BY <1>4, <2>2, LegalStr
    <2> QED BY <1>2, <1>4, <2>1, <2>2, <2>3
  <1>5. CASE kind = "IPv4Address" /\ IsInstance(v, kind)
    <2>1. v.type = "IPv4Address" /\ t[1] = "dotted"
      BY <1>5, DumpCases DEF IsInstance
    <2>2. f \notin IntFields
      BY <1>1, <1>5
    <2>3. LegalText(f, t)
      BY <1>5, <2>1, <2>2, LegalAddress
    <2> QED BY <1>2, <1>5, <2>1, <2>2, <2>3
  <1>6. CASE kind = "int" /\ IsInstance(v, kind)
    <2>1. v.type \in {"int"} \cup DOMAIN Enums /\ v.type # "str"
      BY <1>6, EnumNames DEF IsInstance
    <2>2. v.content \in Int
      BY <2>1, ValueCases, EnumNames
    <2>3. t[1] = "numeral" /\ t[2] = v.content
      BY <2>1, DumpCases
    <2>4. f \in IntFields
      BY <1>1, <1>6
    <2>5. Problems(f, v) = {} <=> v.content \in Range(f)
      BY <1>2, <1>6, <2>1, <2>4
    <2>6. CASE f \in Ports
      <3>1. f \notin Counters
        BY <2>6 DEF Ports, Counters
      <3>2. LegalText(f, t) <=> t[1] = "numeral" /\ t[2] \in Range(f)
        BY <1>6, <2>6, <3>1, LegalPort
      <3> QED BY <1>6, <2>3, <2>5, <3>2
    <2>7. CASE f \in Counters
      <3>1. f \notin Ports
        BY <2>7 DEF Ports, Counters
      <3>2. LegalText(f, t) <=> t[1] = "numeral" /\ t[2] >= 0
        BY <1>6, <2>7, <3>1, LegalCounter
      <3>3. v.content \in Range(f) <=> v.content >= 0
        BY <2>2, <3>1 DEF Range
      <3> QED BY <1>6, <2>3, <2>5, <3>2, <3>3
    <2> QED BY <2>4, <2>6, <2>7 DEF IntFields
  <1>7. CASE kind \in DOMAIN Enums /\ IsInstance(v, kind)
    <2>1. kind \notin {"int", "str", "IPv4Address"}
      BY <1>7, EnumNames
    <2>2. v.type = kind
      BY <1>7, <2>1 DEF IsInstance
    <2>3. v.content \in Enums[kind]
      BY <1>7, <2>1, <2>2, ValueCases, EnumNames
    <2>4. t[1] = "numeral" /\ t[2] = v.content
      BY <1>7, <2>2, DumpCases
    <2>5. f \notin IntFields
      BY <1>1, <2>1
    <2>6. LegalText(f, t) <=> t[1] = "numeral" /\ t[2] \in Enums[kind]
      BY <2>1, <2>5, LegalMember
    <2> QED BY <1>2, <1>7, <2>1, <2>2, <2>3, <2>4, <2>5, <2>6
  <1> QED BY <1>3, <1>4, <1>5, <1>6, <1>7, KindOfField
-----------------------------------------------------------------------------
(* The state.                                                              *)

TypeInv ==
    /\ stored \in [Fields -> Texts]
    /\ cfg = <<>> \/ \E record \in [Fields -> Values] : cfg = <<record>>

LEMMA InitType == Init => TypeInv
  <1> SUFFICES ASSUME Init PROVE TypeInv
    OBVIOUS
  <1>1. ASSUME NEW f \in Fields
        PROVE  Dump(IF f \in Ports THEN Value("int", 2077) ELSE Default(f)) \in Texts
    <2>1. (IF f \in Ports THEN Value("int", 2077) ELSE Default(f)) \in Values
      BY MakeValue, DefaultIsValue
    <2> QED BY <2>1, DumpIsText
  <1> QED BY <1>1 DEF Init, TypeInv

LEMMA RecordOf ==
    ASSUME TypeInv, cfg # <<>>
    PROVE  cfg[1] \in [Fields -> Values] /\ cfg = <<cfg[1]>>
  BY DEF TypeInv

\* from_wire() of some of the strings, in the step that ends in a record.
LEMMA ReadRecord ==
    ASSUME TypeInv, NEW present \in SUBSET Fields, from_wire(present), Unparsed(present) = {}
    PROVE  /\ \E record \in [Fields -> Values] : cfg' = <<record>>
           /\ \A f \in present : cfg'[1][f] = Parse(Kinds[f], stored[f])
           /\ \A f \in present : Parse(Kinds[f], stored[f]) # Unrepresentable
           /\ own' = Fields \ present /\ outcome' = Outcome("read", present, {})
           /\ stored' = stored
  <1> DEFINE read(f) == IF f \in present THEN Parse(Kinds[f], stored[f]) ELSE Default(f)
             record  == [f \in Fields |-> read(f)]
  <1>1. /\ cfg' = <<record>> /\ own' = Fields \ present
        /\ outcome' = Outcome("read", present, {}) /\ stored' = stored
    BY DEF from_wire
  <1>2. \A f \in present : Parse(Kinds[f], stored[f]) # Unrepresentable
    BY DEF Unparsed
  <1>3. ASSUME NEW f \in Fields PROVE read(f) \in Values
    <2>1. stored[f] \in Texts
      BY DEF TypeInv
    <2>2. CASE f \in present
      BY <1>2, <2>1, <2>2, ParseIsValue
    <2>3. CASE f \notin present
      BY <2>3, DefaultIsValue
    <2> QED BY <2>2, <2>3
  <1>4. record \in [Fields -> Values]
    BY <1>3
  <1>5. \A f \in present : record[f] = Parse(Kinds[f], stored[f])
    OBVIOUS
  <1> HIDE DEF record
  <1> QED BY <1>1, <1>2, <1>4, <1>5

\* save_config(), when validate() does not complain.
LEMMA SavedRecord ==
    ASSUME TypeInv, save_config, outcome'.kind = "saved"
    PROVE  /\ cfg # <<>> /\ cfg' = cfg /\ own' = own
           /\ \A f \in Fields : Problems(f, cfg[1][f]) = {}
           /\ stored' = [f \in Fields |-> IF f \in NotSaved THEN stored[f] ELSE Dump(cfg[1][f])]
  <1> DEFINE bad == {f \in Fields : Problems(f, cfg[1][f]) # {}}
  <1>1. cfg # <<>> /\ cfg' = cfg /\ own' = own
    BY DEF save_config
  <1>2. bad # {} => outcome' = Outcome("rejected", Fields, bad)
    BY DEF save_config
  <1>3. bad = {} =>
          stored' = [f \in Fields |-> IF f \in NotSaved THEN stored[f] ELSE Dump(cfg[1][f])]
    BY DEF save_config
  <1>4. bad = {}
    BY <1>2 DEF Outcome
  <1> QED BY <1>1, <1>3, <1>4

LEMMA OutcomeOfSave ==
    ASSUME save_config
    PROVE  outcome'.kind \in {"saved", "rejected"}
  <1> DEFINE bad == {f \in Fields : Problems(f, cfg[1][f]) # {}}
  <1>1. outcome' = Outcome("saved", Fields, {}) \/ outcome' = Outcome("rejected", Fields, bad)
    BY DEF save_config
  <1> HIDE DEF bad
  <1> QED BY <1>1 DEF Outcome

LEMMA Unsaved ==
    ASSUME save_config, outcome'.kind # "saved"
    PROVE  stored' = stored
  <1> DEFINE bad == {f \in Fields : Problems(f, cfg[1][f]) # {}}
  <1>1. bad = {} => outcome' = Outcome("saved", Fields, {})
    BY DEF save_config
  <1>2. bad # {} => stored' = stored
    BY DEF save_config
  <1> QED BY <1>1, <1>2 DEF Outcome

\* Nothing but save_config() saves; nothing but from_wire() reads.
LEMMA OutcomeOfOthers ==
    ASSUME \/ New \/ (get_config /\ ~from_wire(Fields))
           \/ \E f \in Fields, value \in Assigned : Assign(f, value)
           \/ \E f \in Fields, text \in Quirks : Quirk(f, text)
    PROVE  outcome' \in {Quiet, Outcome("unreadable", {}, {})}
  BY DEF New, get_config, Assign, Quirk, Change

LEMMA NextType == TypeInv /\ [Next]_vars => TypeInv'
  <1> SUFFICES ASSUME TypeInv, [Next]_vars PROVE TypeInv'
    OBVIOUS
  <1>1. CASE New
    <2>1. [f \in Fields |-> Default(f)] \in [Fields -> Values]
      BY DefaultIsValue
    <2> QED BY <1>1, <2>1 DEF New, TypeInv
  <1>2. ASSUME NEW present \in SUBSET Fields, from_wire(present) PROVE TypeInv'
    <2>1. CASE Unparsed(present) = {}
      <3>1. (\E record \in [Fields -> Values] : cfg' = <<record>>) /\ stored' = stored
        BY <1>2, <2>1, ReadRecord
      <3> QED BY <3>1 DEF TypeInv
    <2>2. CASE Unparsed(present) # {}
      BY <1>2, <2>2 DEF from_wire, TypeInv
    <2> QED BY <2>1, <2>2
  <1>3. CASE get_config
    BY <1>2, <1>3 DEF get_config, TypeInv
  <1>4. CASE save_config
    <2>1. cfg' = cfg /\ cfg[1] \in [Fields -> Values]
      BY <1>4, RecordOf DEF save_config
    <2>2. \A f \in Fields : Dump(cfg[1][f]) \in Texts
      BY <2>1, DumpIsText
    <2>3. [f \in Fields |-> IF f \in NotSaved THEN stored[f] ELSE Dump(cfg[1][f])]
            \in [Fields -> Texts]
      BY <2>2 DEF TypeInv
    <2>4. stored' \in [Fields -> Texts]
      BY <1>4, <2>3 DEF save_config, TypeInv
    <2> QED BY <2>1, <2>4 DEF TypeInv
  <1>5. ASSUME NEW f \in Fields, NEW value \in Assigned, Assign(f, value) PROVE TypeInv'
    <2>1. cfg' = <<[cfg[1] EXCEPT ![f] = value]>> /\ stored' = stored /\ cfg # <<>>
      BY <1>5 DEF Assign
    <2>2. value \in Values
      BY ChangesAssumption
    <2>3. [cfg[1] EXCEPT ![f] = value] \in [Fields -> Values]
      BY <2>1, <2>2, RecordOf
    <2> QED BY <2>1, <2>3 DEF TypeInv
  <1>6. ASSUME NEW f \in Fields, NEW text \in Quirks, Quirk(f, text) PROVE TypeInv'
    BY <1>6, ChangesAssumption DEF Quirk, TypeInv
  <1>7. CASE UNCHANGED vars
    BY <1>7 DEF vars, TypeInv
  <1>8. ASSUME NEW f \in Fields, from_wire(Fields \ {f}) PROVE TypeInv'
    BY <1>2, <1>8
  <1> QED BY <1>1, <1>3, <1>4, <1>5, <1>6, <1>7, <1>8 DEF Next

\* Records and strings have the types of Python and of the protocol.
THEOREM Types == Spec => []TypeInv
  BY InitType, NextType, PTL DEF Spec
-----------------------------------------------------------------------------
(* Saving and reading.                                                     *)

\* What the caller did not touch says what the module's string says.
InvRead ==
    cfg # <<>> => \A f \in Fields \ own : Parse(Kinds[f], stored[f]) = cfg[1][f]

\* The outcome of a step that is not a stutter belongs to the record and the
\* strings that it leaves behind.
LEMMA StepOutcome ==
    ASSUME TypeInv, [Next]_vars
    PROVE  \/ UNCHANGED vars
           \/ save_config
           \/ \E present \in SUBSET Fields : from_wire(present)
           \/ outcome' \in {Quiet, Outcome("unreadable", {}, {})}
  <1>1. CASE get_config /\ from_wire(Fields)
    BY <1>1
  <1>2. ASSUME NEW f \in Fields, from_wire(Fields \ {f})
        PROVE  \E present \in SUBSET Fields : from_wire(present)
    BY <1>2
  <1> QED BY <1>1, <1>2, OutcomeOfOthers DEF Next

\* What the state functions of the properties are in the next state.
LEMMA Primes ==
    ASSUME NEW f
    PROVE  /\ LegalText(f, stored[f])' <=> LegalText(f, stored'[f])
           /\ Parse(Kinds[f], stored[f])' = Parse(Kinds[f], stored'[f])
           /\ (Parse(Kinds[f], stored[f]).content)' = Parse(Kinds[f], stored'[f]).content
           /\ LegalText(f, Dump(cfg[1][f]))' <=> LegalText(f, Dump(cfg'[1][f]))
           /\ IsInstance(cfg[1][f], Kinds[f])' <=> IsInstance(cfg'[1][f], Kinds[f])
  <1>1. LegalText(f, stored[f])' <=> LegalText(f, stored'[f])
    BY DEF LegalText, Framed
  <1>2. /\ Parse(Kinds[f], stored[f])' = Parse(Kinds[f], stored'[f])
        /\ (Parse(Kinds[f], stored[f]).content)' = Parse(Kinds[f], stored'[f]).content
    BY DEF Parse, Value, Unrepresentable, IsInteger
  <1>3. LegalText(f, Dump(cfg[1][f]))' <=> LegalText(f, Dump(cfg'[1][f]))
    BY DEF LegalText, Framed, Dump
  <1>4. IsInstance(cfg[1][f], Kinds[f])' <=> IsInstance(cfg'[1][f], Kinds[f])
    BY DEF IsInstance
  <1> QED BY <1>1, <1>2, <1>3, <1>4

LEMMA SaveStores ==
    ASSUME TypeInv, save_config
    PROVE  SavedReadsBack'
  <1> SUFFICES ASSUME outcome'.kind = "saved",
                      NEW f \in Fields \ (NotSaved \cup Booleans')
               PROVE  (/\ LegalText(f, stored[f])
                       /\ Parse(Kinds[f], stored[f]).content = cfg[1][f].content)'
    BY DEF SavedReadsBack
  <1> DEFINE v == cfg[1][f]
  <1>1. /\ cfg # <<>> /\ cfg' = cfg
        /\ Problems(f, v) = {} /\ stored'[f] = Dump(v)
    BY SavedRecord
  <1>2. v \in Values
    BY <1>1, RecordOf
  <1>3. v.type # "bool"
    BY <1>1 DEF Booleans
  <1>4. IsInstance(v, Kinds[f]) /\ LegalText(f, Dump(v))
    BY <1>1, <1>2, <1>3, ProblemsAreIllegal
  <1>5. Parse(Kinds[f], Dump(v)).content = v.content
    <2>1. Parse(Kinds[f], Dump(v)) = Value(Kinds[f], v.content)
      BY <1>2, <1>3, <1>4, DumpReadsBack
    <2> QED BY <2>1 DEF Value
  <1>6. LegalText(f, stored'[f]) /\ Parse(Kinds[f], stored'[f]).content = cfg'[1][f].content
    BY <1>1, <1>4, <1>5
  <1> QED BY <1>6, Primes

LEMMA RejectionNames ==
    ASSUME TypeInv, save_config
    PROVE  BadFieldsNamed'
  <1> DEFINE bad == {f \in Fields : Problems(f, cfg[1][f]) # {}}
  <1> SUFFICES ASSUME outcome'.kind = "rejected", NEW f \in Fields \ Booleans'
               PROVE  (f \notin outcome.named <=> /\ IsInstance(cfg[1][f], Kinds[f])
                                                 /\ LegalText(f, Dump(cfg[1][f])))'
    BY DEF BadFieldsNamed
  <1>1. cfg # <<>> /\ cfg' = cfg
    BY DEF save_config
  <1>2. bad = {} => outcome' = Outcome("saved", Fields, {})
    BY DEF save_config
  <1>3. bad # {} => outcome' = Outcome("rejected", Fields, bad)
    BY DEF save_config
  <1>4. outcome'.named = bad
    BY <1>2, <1>3 DEF Outcome
  <1>5. cfg[1][f] \in Values
    BY <1>1, RecordOf
  <1>6. cfg[1][f].type # "bool"
    BY <1>1 DEF Booleans
  <1>7. f \notin bad <=> IsInstance(cfg[1][f], Kinds[f]) /\ LegalText(f, Dump(cfg[1][f]))
    BY <1>5, <1>6, ProblemsAreIllegal
  <1> HIDE DEF bad
  <1> QED BY <1>1, <1>4, <1>7, Primes

LEMMA ReadIsFaithful ==
    ASSUME TypeInv, NEW present \in SUBSET Fields, from_wire(present)
    PROVE  ReadsAreFaithful'
  <1>1. CASE Unparsed(present) = {}
    <2>1. /\ outcome' = Outcome("read", present, {}) /\ own' = Fields \ present
          /\ stored' = stored
          /\ \A f \in present : /\ cfg'[1][f] = Parse(Kinds[f], stored[f])
                               /\ Parse(Kinds[f], stored[f]) # Unrepresentable
      BY <1>1, ReadRecord
    <2>2. outcome'.kind = "read"
      BY <2>1 DEF Outcome
    <2>3. ASSUME NEW f \in Fields \ own'
          PROVE  IF Kinds[f] = "str" THEN cfg'[1][f].content = stored'[f]
                 ELSE stored'[f][1] # "word" /\ cfg'[1][f].content = stored'[f][2]
      <3>1. f \in present /\ stored[f] \in Texts
        BY <2>1 DEF TypeInv
      <3> QED BY <2>1, <3>1, ParseContent
    <2> QED BY <2>2, <2>3 DEF ReadsAreFaithful
  <1>2. CASE Unparsed(present) # {}
    <2>1. outcome' = Outcome("unreadable", present, Unparsed(present)) /\ stored' = stored
      BY <1>2 DEF from_wire
    <2> QED BY <2>1 DEF ReadsAreFaithful, Outcome, Unparsed, Parse, IsInteger
  <1> QED BY <1>1, <1>2

LEMMA QuietKeeps ==
    ASSUME outcome' \in {Quiet, Outcome("unreadable", {}, {})}
    PROVE  SavedReadsBack' /\ BadFieldsNamed' /\ ReadsAreFaithful'
  BY DEF SavedReadsBack, BadFieldsNamed, ReadsAreFaithful, Quiet, Outcome

LEMMA StutterKeeps ==
    ASSUME UNCHANGED vars, SavedReadsBack, BadFieldsNamed, ReadsAreFaithful
    PROVE  SavedReadsBack' /\ BadFieldsNamed' /\ ReadsAreFaithful'
  <1>1. stored' = stored /\ cfg' = cfg /\ outcome' = outcome /\ own' = own /\ Booleans' = Booleans
    BY DEF vars, Booleans
  <1>2. SavedReadsBack'
    BY <1>1, Primes DEF SavedReadsBack
  <1>3. BadFieldsNamed'
    BY <1>1, Primes DEF BadFieldsNamed
  <1>4. ReadsAreFaithful'
    BY <1>1, Primes DEF ReadsAreFaithful
  <1> QED BY <1>2, <1>3, <1>4

LEMMA SafetyStep ==
    ASSUME TypeInv, [Next]_vars, SavedReadsBack, BadFieldsNamed, ReadsAreFaithful
    PROVE  SavedReadsBack' /\ BadFieldsNamed' /\ ReadsAreFaithful'
  <1>1. CASE save_config
    <2>1. outcome'.kind \notin {"read", "unreadable"}
      BY <1>1, OutcomeOfSave
    <2>2. ReadsAreFaithful'
      BY <2>1 DEF ReadsAreFaithful
    <2> QED BY <1>1, <2>2, SaveStores, RejectionNames
  <1>2. ASSUME NEW present \in SUBSET Fields, from_wire(present)
        PROVE  SavedReadsBack' /\ BadFieldsNamed' /\ ReadsAreFaithful'
    <2>1. outcome'.kind \notin {"saved", "rejected"}
      BY <1>2 DEF from_wire, Outcome
    <2>2. SavedReadsBack' /\ BadFieldsNamed'
      BY <2>1 DEF SavedReadsBack, BadFieldsNamed
    <2> QED BY <1>2, <2>2, ReadIsFaithful
  <1> QED BY <1>1, <1>2, StepOutcome, QuietKeeps, StutterKeeps

LEMMA SafetyInit == Init => SavedReadsBack /\ BadFieldsNamed /\ ReadsAreFaithful
  BY DEF Init, SavedReadsBack, BadFieldsNamed, ReadsAreFaithful, Quiet, Outcome

\* What save_config() stored is in the documented form and says what the caller
\* set, unless that was a bool.
THEOREM WhatIsSavedReadsBack == Spec => []SavedReadsBack
  <1>1. TypeInv /\ SavedReadsBack /\ BadFieldsNamed /\ ReadsAreFaithful /\ [Next]_vars
          => (SavedReadsBack /\ BadFieldsNamed /\ ReadsAreFaithful)'
    BY SafetyStep
  <1> QED BY <1>1, SafetyInit, Types, PTL DEF Spec

\* The ValueError of validate() names every field whose text would be illegal and
\* no other, unless it holds a bool.
THEOREM RejectionsAreComplete == Spec => []BadFieldsNamed
  <1>1. TypeInv /\ SavedReadsBack /\ BadFieldsNamed /\ ReadsAreFaithful /\ [Next]_vars
          => (SavedReadsBack /\ BadFieldsNamed /\ ReadsAreFaithful)'
    BY SafetyStep
  <1> QED BY <1>1, SafetyInit, Types, PTL DEF Spec

\* from_wire() takes over what every string says, or names every string that says
\* nothing.
THEOREM NothingDefaultsInSilence == Spec => []ReadsAreFaithful
  <1>1. TypeInv /\ SavedReadsBack /\ BadFieldsNamed /\ ReadsAreFaithful /\ [Next]_vars
          => (SavedReadsBack /\ BadFieldsNamed /\ ReadsAreFaithful)'
    BY SafetyStep
  <1> QED BY <1>1, SafetyInit, Types, PTL DEF Spec
-----------------------------------------------------------------------------
(* Read, change, save.                                                     *)

LEMMA InitRead == Init => InvRead
  BY DEF Init, InvRead

\* A value that was read is written so that it is read as the same value.
LEMMA ReadWriteRead ==
    ASSUME NEW f \in Fields, NEW t \in Texts, Parse(Kinds[f], t) # Unrepresentable
    PROVE  Parse(Kinds[f], Dump(Parse(Kinds[f], t))) = Parse(Kinds[f], t)
  <1> DEFINE v == Parse(Kinds[f], t)
  <1>1. v \in Values /\ v.type = Kinds[f]
    BY ParseIsValue
  <1>2. v.type # "bool"
    BY <1>1, KindOfField, EnumNames
  <1>3. v = Value(Kinds[f], v.content)
    BY <1>1, ValueCases
  <1>4. IsInstance(v, Kinds[f])
    BY <1>1 DEF IsInstance
  <1> HIDE DEF v
  <1>5. Parse(Kinds[f], Dump(v)) = v
    BY <1>1, <1>2, <1>3, <1>4, DumpReadsBack
  <1> QED BY <1>5 DEF v

LEMMA SaveKeeps ==
    ASSUME TypeInv, InvRead, save_config, outcome'.kind = "saved", NEW f \in Fields \ own
    PROVE  Parse(Kinds[f], stored'[f]) = Parse(Kinds[f], stored[f])
  <1>1. /\ cfg # <<>>
        /\ stored'[f] = IF f \in NotSaved THEN stored[f] ELSE Dump(cfg[1][f])
    BY SavedRecord
  <1>2. Parse(Kinds[f], stored[f]) = cfg[1][f] /\ cfg[1][f] \in Values /\ stored[f] \in Texts
    BY <1>1, RecordOf DEF InvRead, TypeInv
  <1>3. Parse(Kinds[f], stored[f]) # Unrepresentable
    BY <1>2, MakeValue
  <1>4. Parse(Kinds[f], Dump(cfg[1][f])) = Parse(Kinds[f], stored[f])
    BY <1>2, <1>3, ReadWriteRead
  <1> QED BY <1>1, <1>4

LEMMA NextRead == TypeInv /\ InvRead /\ [Next]_vars => InvRead'
  <1> SUFFICES ASSUME TypeInv, InvRead, [Next]_vars, cfg' # <<>>, NEW f \in Fields \ own'
               PROVE  (Parse(Kinds[f], stored[f]) = cfg[1][f])'
    BY DEF InvRead
  <1> SUFFICES Parse(Kinds[f], stored'[f]) = cfg'[1][f]
    BY Primes
  <1>1. CASE New
    BY <1>1 DEF New
  <1>2. ASSUME NEW present \in SUBSET Fields, from_wire(present)
        PROVE  Parse(Kinds[f], stored'[f]) = cfg'[1][f]
    <2>1. CASE Unparsed(present) = {}
      BY <1>2, <2>1, ReadRecord
    <2>2. CASE Unparsed(present) # {}
      BY <1>2, <2>2 DEF from_wire, InvRead
    <2> QED BY <2>1, <2>2
  <1>3. CASE get_config
    BY <1>2, <1>3 DEF get_config, InvRead
  <1>4. CASE save_config
    <2>1. cfg # <<>> /\ cfg' = cfg /\ own' = own
      BY <1>4 DEF save_config
    <2>2. Parse(Kinds[f], stored[f]) = cfg[1][f]
      BY <2>1 DEF InvRead
    <2>3. CASE outcome'.kind = "saved"
      BY <1>4, <2>1, <2>2, <2>3, SaveKeeps
    <2>4. CASE outcome'.kind # "saved"
      <3>1. stored' = stored
        BY <1>4, <2>4, Unsaved
      <3> QED BY <2>1, <2>2, <3>1
    <2> QED BY <2>3, <2>4
  <1>5. ASSUME NEW g \in Fields, NEW value \in Assigned, Assign(g, value)
        PROVE  Parse(Kinds[f], stored'[f]) = cfg'[1][f]
    <2>1. /\ cfg # <<>> /\ cfg' = <<[cfg[1] EXCEPT ![g] = value]>>
          /\ stored' = stored /\ own' = own \cup {g}
      BY <1>5 DEF Assign, Change
    <2>2. f # g /\ Parse(Kinds[f], stored[f]) = cfg[1][f]
      BY <2>1 DEF InvRead
    <2>3. cfg'[1][f] = cfg[1][f]
      BY <2>1, <2>2, RecordOf
    <2> QED BY <2>1, <2>2, <2>3
  <1>6. ASSUME NEW g \in Fields, NEW text \in Quirks, Quirk(g, text)
        PROVE  Parse(Kinds[f], stored'[f]) = cfg'[1][f]
    <2>1. stored' = [stored EXCEPT ![g] = text] /\ cfg' = cfg /\ own' = own \cup {g}
      BY <1>6 DEF Quirk, Change
    <2>2. f # g /\ Parse(Kinds[f], stored[f]) = cfg[1][f]
      BY <2>1 DEF InvRead
    <2>3. stored'[f] = stored[f]
      BY <2>1, <2>2 DEF TypeInv
    <2> QED BY <2>1, <2>2, <2>3
  <1>7. CASE UNCHANGED vars
    BY <1>7 DEF vars, InvRead
  <1>8. ASSUME NEW g \in Fields, from_wire(Fields \ {g})
        PROVE  Parse(Kinds[f], stored'[f]) = cfg'[1][f]
    BY <1>2, <1>8
  <1> QED BY <1>1, <1>3, <1>4, <1>5, <1>6, <1>7, <1>8 DEF Next

LEMMA StepKeeps ==
    ASSUME TypeInv, InvRead, [Next]_vars, outcome'.kind = "saved", NEW f \in Fields \ own
    PROVE  Parse(Kinds[f], stored'[f]) = Parse(Kinds[f], stored[f])
  <1>1. CASE save_config
    BY <1>1, SaveKeeps
  <1>2. CASE UNCHANGED vars
    BY <1>2 DEF vars
  <1>3. ASSUME NEW present \in SUBSET Fields, from_wire(present) PROVE FALSE
    BY <1>3 DEF from_wire, Outcome
  <1>4. outcome' \notin {Quiet, Outcome("unreadable", {}, {})}
    BY DEF Quiet, Outcome
  <1> QED BY <1>1, <1>2, <1>3, <1>4, StepOutcome

\* A save that follows a read leaves alone what neither the caller nor anything
\* else has changed in between.
THEOREM SaveLeavesTheRestAlone == Spec => UntouchedKept
  <1>1. TypeInv /\ InvRead /\ [Next]_vars =>
          [outcome'.kind = "saved" =>
             \A f \in Fields \ own :
               Parse(Kinds[f], stored'[f]) = Parse(Kinds[f], stored[f])]_vars
    BY StepKeeps
  <1> QED BY <1>1, InitRead, NextRead, Types, PTL DEF Spec, UntouchedKept
=============================================================================
