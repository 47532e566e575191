------------------------------- MODULE MCHwVx -------------------------------
(***************************************************************************)
(* The devices a caller makes.                                             *)
(***************************************************************************)
EXTENDS HwVx

Dev(target, mac) == [target |-> target, mac |-> mac]

\* One found by broadcast, one whose MAC address is known, and one made anew
\* with the address the module has been given.
MCDevices == {Dev("all", NoMac), Dev("old", Target), Dev("new", NoMac)}

\* The one of the README's quick start.
OneDevice == {Dev("old", NoMac)}
=============================================================================
