------------------------------- MODULE MCWordexp -------------------------------
(* Wordexp with room for four vectors and areas, one reserved slot and     *)
(* calls of up to two words.                                               *)
EXTENDS Wordexp, TLC

CONSTANTS v1, v2, v3, v4, s1, s2, s3, s4

MCVectors == {v1, v2, v3, v4}
MCAreas == {s1, s2, s3, s4}
Symmetry == Permutations(MCVectors) \union Permutations(MCAreas)
================================================================================
