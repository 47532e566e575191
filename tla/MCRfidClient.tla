---------------------------- MODULE MCRfidClient ----------------------------
(***************************************************************************)
(* Small instances of the client: the readers are interchangeable.         *)
(***************************************************************************)
EXTENDS RfidClient, TLC

ReaderSymmetry == Permutations(Readers)
=============================================================================
