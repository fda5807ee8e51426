------------------------------ MODULE MCStore -------------------------------
(***************************************************************************)
(* Two instances of two definitions of two steps: a gate with a deadline   *)
(* before a scheduled step, and an ask for a gate.                         *)
(***************************************************************************)
EXTENDS Store, TLC

CONSTANTS a, b, id1, id2

MCSteps == {a, b}
MCItems == {}
MCIds == {id1, id2}

Plain ==
    [needs |-> [s \in MCSteps |-> {}],
     ask |-> [s \in MCSteps |-> <<>>],
     gate |-> [s \in MCSteps |-> FALSE],
     ends |-> [s \in MCSteps |-> FALSE],
     schedule |-> [s \in MCSteps |-> NoTime],
     due |-> [s \in MCSteps |-> NoTime],
     items |-> [s \in MCSteps |-> {}],
     required |-> [s \in MCSteps |-> {}],
     notify |-> [s \in MCSteps |-> TRUE],
     assign |-> [s \in MCSteps |-> FALSE]]

\* Gate a is scheduled and has a deadline; b comes after it, a day later.
GateFirst == [Plain EXCEPT !.gate[a] = TRUE, !.due[a] = 0, !.needs[b] = {a},
                           !.schedule[b] = 1]

\* a asks for gate b, which ends its path.
AskFirst == [Plain EXCEPT !.ask[a] = <<b>>, !.gate[b] = TRUE, !.ends[b] = TRUE]

MCWorkflows == {GateFirst, AskFirst}
MCNotes == {"properties", "position"}
Symmetric == Permutations(MCIds)
=============================================================================
