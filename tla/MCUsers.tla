------------------------------- MODULE MCUsers ------------------------------
(* Three accounts, two addresses; two requests and two refreshes at a time. *)
EXTENDS Users, TLC

CONSTANTS x, y, z, e1, e2, r1, r2, g1, g2

MCIds == {x, y, z}
MCEmails == {e1, e2}
Two == {r1, r2}
TwoRefreshes == {g1, g2}
Symmetric == Permutations(MCIds) \cup Permutations(MCEmails) \cup Permutations(Two)
                \cup Permutations(TwoRefreshes)
=============================================================================
