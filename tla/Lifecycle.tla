----------------------------- MODULE Lifecycle ------------------------------
(***************************************************************************)
(* What a workflow instance promises to the people who work on it, without *)
(* saying how: steps wait, open, and are finished or dropped for good;     *)
(* they finish one by one; a step opens only after all the steps it comes  *)
(* after; and the instance is closed with its last step.  Module Instance  *)
(* implements it.                                                          *)
(***************************************************************************)
CONSTANTS
    Steps,
    Names     \* what a step may be said to come after, Steps and more

VARIABLES
    after,    \* after[s]: the names that s comes after, never changed
    phase,    \* phase[s]: where s is in its life
    closed    \* no step is left

vars == <<after, phase, closed>>

Phases == {"waiting", "open", "finished", "dropped"}
Over == {"finished", "dropped"}

\* Everything s comes after is over in the assignment ph of phases.
MayOpen(ph, s) == \A n \in after[s] : n \in Steps /\ ph[n] \in Over

Init ==
    /\ after \in [Steps -> SUBSET Names]
    /\ phase \in [Steps -> {"waiting", "open"}]
    /\ \A s \in Steps : phase[s] = "open" => after[s] = {}
    /\ closed = FALSE

\* Step s finishes; waiting steps are dropped with it, others open.
Finish(s) ==
    /\ phase[s] = "open"
    /\ phase' \in [Steps -> Phases]
    /\ phase'[s] = "finished"
    /\ \A t \in Steps \ {s} :
          \/ phase'[t] = phase[t]
          \/ phase[t] = "waiting" /\ phase'[t] = "dropped"
          \/ phase[t] = "waiting" /\ phase'[t] = "open" /\ MayOpen(phase', t)
    /\ closed' = (\A t \in Steps : phase'[t] \in Over)
    /\ UNCHANGED after

\* The time of waiting steps has come.
Open ==
    /\ phase' \in [Steps -> Phases]
    /\ \A t \in Steps :
          \/ phase'[t] = phase[t]
          \/ phase[t] = "waiting" /\ phase'[t] = "open" /\ MayOpen(phase, t)
    /\ UNCHANGED <<after, closed>>

Next == Open \/ \E s \in Steps : Finish(s)

Spec == Init /\ [][Next]_vars
=============================================================================
