---------------------------- MODULE MCAtomicWrite ----------------------------
(* Instances of AtomicWrite for TLC.                                       *)
EXTENDS AtomicWrite, TLC

CONSTANTS w1, w2, q1, a, b, f1, f2, f3

Sym == Permutations({w1, w2}) \cup Permutations({a, b}) \cup Permutations({f1, f2, f3})
=============================================================================
