----------------------------- MODULE Selections -----------------------------
(***************************************************************************)
(* The elements of a sequence at chosen positions, in their order: what a  *)
(* filter keeps of an array, or a WHERE of rows that are read in order.    *)
(***************************************************************************)
EXTENDS Naturals, Sequences

Select(s, chosen) ==
  LET upTo[n \in 0 .. Len(s)] ==
        IF n = 0 THEN <<>>
        ELSE IF n \in chosen THEN Append(upTo[n - 1], s[n])
        ELSE upTo[n - 1]
  IN  upTo[Len(s)]
=============================================================================
