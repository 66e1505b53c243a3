-------------------------------- MODULE Lists ---------------------------------
(* What a loop over a list keeps of it.                                         *)
EXTENDS Integers, SequencesExt

\* The elements of s at the positions in I, in their order.
Keep(s, I) == FlattenSeq([i \in DOMAIN s |-> IF i \in I THEN <<s[i]>> ELSE <<>>])
===============================================================================
