------------------------------- MODULE MCMail -------------------------------
(* Two saves, two mails. *)
EXTENDS Mail, TLC

CONSTANTS s1, s2, k1, k2

Symmetric == Permutations(Savers) \cup Permutations(Mails)

\* Bound: the clock stands still once saves have overlapped.  SavedIsLive and
\* MailedByCurrent say nothing from then on, and no save touches the cache.
ClockStops == overlapped => now = 0
=============================================================================
