--------------------------- MODULE MCDefinitions ----------------------------
(* Two files that may bear the same title. *)
EXTENDS Definitions, TLC

CONSTANTS A, B, i1, i2

MCFiles == {1, 2}
MCTitles == {A, B}
MCIds == {i1, i2}
Symmetric == Permutations(MCTitles) \cup Permutations(MCIds)
=============================================================================
