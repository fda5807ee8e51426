-------------------------- MODULE MCNotifications ---------------------------
(* Two users, who are interchangeable. *)
EXTENDS Notifications, TLC

CONSTANTS u1, u2

MCUsers == {u1, u2}
Symmetric == Permutations(MCUsers)
=============================================================================
