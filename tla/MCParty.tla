------------------------------- MODULE MCParty -------------------------------
(* Four players, and parties of three at most, for TLC. *)
EXTENDS Party, TLC

CONSTANTS c1, c2, c3, c4

Four == {c1, c2, c3, c4}
Three == {c1, c2, c3}
Symmetry == Permutations(Four)
=============================================================================
