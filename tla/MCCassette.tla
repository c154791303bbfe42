------------------------------ MODULE MCCassette ------------------------------
(***************************************************************************)
(* Cassette with two keys, three requests and three sessions.              *)
(***************************************************************************)
EXTENDS Cassette, TLC

CONSTANTS k1, k2
MCKeys == {k1, k2}
Symmetric == Permutations(MCKeys)
=============================================================================
