---------------------------- MODULE MCShadowPair ----------------------------
(* Three ids, which differ in nothing, in caches of up to 4. *)
EXTENDS ShadowPair, TLC

CONSTANTS x, y, z

MCIds    == {x, y, z}
MCSizes  == {-1, 2}
Symmetry == Permutations(MCIds)
=============================================================================
