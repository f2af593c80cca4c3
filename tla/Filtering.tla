----------------------------- MODULE Filtering ------------------------------
(***************************************************************************)
(* The elements of a sequence that are in a set.  As SelectSeq, by a       *)
(* recursive function, which the proofs can reason about.                  *)
(***************************************************************************)
EXTENDS Integers, Sequences

\* KeptOf(s, S)[i]: what is kept of the first i elements of s.
KeptOf(s, S) ==
  LET k[i \in 0 .. Len(s)] ==
        IF i = 0 THEN <<>>
        ELSE IF s[i] \in S THEN Append(k[i - 1], s[i]) ELSE k[i - 1]
  IN  k

Keep(s, S) == KeptOf(s, S)[Len(s)]
=============================================================================
