--------------------------- MODULE MCRateLimiter ----------------------------
(* Two logins at a time; two attempts in three units, five of lockout. *)
EXTENDS RateLimiter, TLC

CONSTANTS l1, l2

TwoLogins == {l1, l2}
Symmetric == Permutations(TwoLogins)
=============================================================================
