-------------------------------- MODULE Lists ---------------------------------
(***************************************************************************)
(* What a loop over a slice that appends some of its elements leaves.      *)
(***************************************************************************)
EXTENDS Integers, SequencesExt

(* The elements of s that are in S, in their order. *)
Only(s, S) ==
  LET upTo[i \in 0..Len(s)] ==
        IF i = 0 THEN <<>> ELSE IF s[i] \in S THEN Append(upTo[i - 1], s[i]) ELSE upTo[i - 1]
  IN  upTo[Len(s)]
=============================================================================
