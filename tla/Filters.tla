------------------------------- MODULE Filters -------------------------------
(* What a loop leaves of a list when it takes out what does not belong, as a *)
(* fold: the provers know nothing of SelectSeq.                              *)
EXTENDS SequencesExt

(* The elements of s that are in S, in their order. *)
Sifted(s, S) == FoldLeft(LAMBDA t, x : IF x \in S THEN Append(t, x) ELSE t, <<>>, s)
=============================================================================
