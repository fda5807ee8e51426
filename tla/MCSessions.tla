----------------------------- MODULE MCSessions -----------------------------
(* An administrator and a writer at first, one account that can be set up, and *)
(* two browsers.                                                               *)
EXTENDS Sessions, TLC

CONSTANTS anna, will, nina, b1, b2

Accounts == (anna :> "admin" @@ will :> "writer" @@ nina :> "absent")
Symmetric == Permutations(Browsers)
=============================================================================
