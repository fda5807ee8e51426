------------------------------- MODULE MCVars -------------------------------
(* Three instances, two values. *)
EXTENDS Vars, TLC

CONSTANTS i1, i2, i3, v1, v2

MCIds == {i1, i2, i3}
TwoIds == {i1, i2}
MCValues == {v1, v2}
Symmetric == Permutations(MCIds) \cup Permutations(MCValues)
=============================================================================
