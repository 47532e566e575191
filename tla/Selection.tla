----------------------------- MODULE Selection -----------------------------
(***************************************************************************)
(* The elements of a sequence that are in a set, in their order, as a      *)
(* recursive function: the prover has no definition of SelectSeq.          *)
(***************************************************************************)
EXTENDS Integers, Sequences

\* Of each n, the selection from the first n elements.
Selections(seq, Keep) ==
    LET of[n \in 0 .. Len(seq)] ==
          IF n = 0 THEN <<>>
          ELSE IF seq[n] \in Keep THEN Append(of[n - 1], seq[n])
          ELSE of[n - 1]
    IN  of

Select(seq, Keep) == Selections(seq, Keep)[Len(seq)]
=============================================================================
