-------------------------- MODULE MCReaderSettings --------------------------
(***************************************************************************)
(* Arguments on both sides of every limit of the setters, and the settings *)
(* a reader comes with.                                                    *)
(***************************************************************************)
EXTENDS ReaderSettings

CONSTANT AnInt   \* a bare integer where an Enum is due

MCProbes ==
    [number |-> {-1, 0, 2, 3, 8, 9, 30, 31, 100, 101, 255, 256},
     index  |-> {-1, 0, 19, 20, 31, 49, 62, 63},
     byte   |-> {-1, 0, 1, 255, 256},
     plain  |-> {7, 255, 256},
     words  |-> {0, 1, 4, 5, 32, 33},
     state  |-> {2, 19, AnInt},
     memory |-> {"PASSWORD", "EAS_ALARM", AnInt}]

Default ==
    [SET_REGION |-> <<49, 128>>,
     SET_POWER |-> <<30>>, SET_SCAN_TIME |-> <<10>>,
     SET_WIEGAND |-> <<0, 30, 10, 15>>, SET_WORK_MODE |-> <<0, 2, 1, 0, 1, 0>>,
     SET_EAS_ACCURACY |-> <<8>>, SYRIS_RESPONSE_OFFSET |-> <<0>>,
     TRIGGER_OFFSET |-> <<0>>, SET_BAUD_RATE |-> <<5>>,
     ACOUSTO_OPTIC_CONTROL |-> <<0, 0, 0>>]

Known == {Default}
=============================================================================
