------------------------------- MODULE Vectors -------------------------------
(***************************************************************************)
(* Vectors (src/vector.c) as sequences: what more than one module uses.    *)
(***************************************************************************)
EXTENDS Integers, SequencesExt

\* vector_copy_if: the items that are in S, in their order.
CopyIf(seq, S) ==
  LET copy[i \in 0 .. Len(seq)] ==
        IF i = 0 THEN <<>>
        ELSE IF seq[i] \in S THEN Append(copy[i - 1], seq[i]) ELSE copy[i - 1]
  IN  copy[Len(seq)]
==============================================================================
