--------------------------- MODULE MCDeviceConfig ---------------------------
(***************************************************************************)
(* Texts and values on both sides of every rule of DeviceConfig.           *)
(***************************************************************************)
EXTENDS DeviceConfig

MCWords == {"", "x", "True", "False", "with pipe", "accented"}

MCAddresses == {"0.0.0.0", "255.255.255.0", "a"}

MCQuirks == {<<"numeral", n>> : n \in {-1, 0, 3, 8, 70000}}
              \cup {<<"loose", 4>>, <<"dotted", "a">>, <<"word", "x">>, <<"word", "with pipe">>}

MCAssigned ==
    {Value("int", n) : n \in {-1, 0, 7, 65535, 65536}}
      \cup {Value("str", <<"word", w>>) : w \in {"x", "with pipe", "accented"}}
      \cup {Value("str", <<"numeral", 7>>), Value("IPv4Address", "a"),
            Value("BaudRate", 7), Value("Toggle", 1), Value("bool", 1)}
=============================================================================
