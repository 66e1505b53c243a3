---------------------------- MODULE MCCbmSession ----------------------------
(* Instances of CbmSession for TLC.                                        *)
EXTENDS CbmSession, TLC

CONSTANTS c1, c2, c3, d1, d2

Sym == Permutations({c1, c2, c3})
=============================================================================
