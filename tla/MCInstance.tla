----------------------------- MODULE MCInstance -----------------------------
(***************************************************************************)
(* Small definitions for TLC, each with one way of depending on each other *)
(* that the shipped workflows use: a schedule in an AND-join, an ask with  *)
(* and without needs on its targets, a gate with routing and a deadline.   *)
(***************************************************************************)
EXTENDS Instance, TLC

CONSTANTS a, b, c, d, i1

MCSteps == {a, b, c, d}
MCItems == {i1}

\* A definition without any directive.
Plain ==
    [needs |-> [s \in MCSteps |-> {}],
     ask |-> [s \in MCSteps |-> <<>>],
     gate |-> [s \in MCSteps |-> FALSE],
     ends |-> [s \in MCSteps |-> FALSE],
     schedule |-> [s \in MCSteps |-> NoTime],
     due |-> [s \in MCSteps |-> NoTime],
     items |-> [s \in MCSteps |-> {}],
     required |-> [s \in MCSteps |-> {}],
     notify |-> [s \in MCSteps |-> TRUE],
     assign |-> [s \in MCSteps |-> FALSE]]

\* a, then b and (after a day) c, joined in d; a has a required item.
Join ==
    [Plain EXCEPT
       !.needs = (a :> {} @@ b :> {a} @@ c :> {a} @@ d :> {b, c}),
       !.schedule[c] = 1, !.schedule[a] = 0, !.due[b] = 1,
       !.items[a] = {i1}, !.required[a] = {i1},
       !.assign[b] = TRUE, !.ends[d] = TRUE]

\* a asks for b or c, which need nothing; d waits for both of them.
Split ==
    [Plain EXCEPT !.ask[a] = <<b, c>>, !.needs[d] = {b, c},
                  !.items[a] = {i1}, !.required[a] = {i1}, !.due[c] = 0]

\* a asks for b or c, which need a; c starts after two days and ends its path.
SplitNeeds ==
    [Plain EXCEPT !.ask[a] = <<b, c>>,
                  !.needs = (a :> {} @@ b :> {a} @@ c :> {a} @@ d :> {b}),
                  !.schedule[c] = 2, !.ends[c] = TRUE,
                  !.assign = [s \in MCSteps |-> TRUE]]

\* a, then gate b routes to c or d before its deadline.
Approval ==
    [Plain EXCEPT !.ask[b] = <<c, d>>, !.gate[b] = TRUE, !.due[b] = 1,
                  !.needs[b] = {a}, !.needs[c] = {b}, !.ends[d] = TRUE]

\* Two parallel gates, one of them scheduled, joined in c; d on its own.
SignOff ==
    [Plain EXCEPT !.gate[a] = TRUE, !.gate[b] = TRUE, !.schedule[b] = 2,
                  !.due[a] = 2, !.needs[c] = {a, b},
                  !.notify[b] = FALSE, !.assign[b] = TRUE]

\* A step that needs one nobody defined, and one that offers it.
Misspelt ==
    [Plain EXCEPT !.needs[b] = {NoStep}, !.ask[a] = <<c, NoStep>>,
                  !.needs[d] = {c}]

\* The chosen target of one ask is skipped by the other, and the reverse.
Shared ==
    [Plain EXCEPT !.ask[a] = <<b, c>>, !.ask[d] = <<c, b>>]

\* b is a target of a and asks in its turn for c.
Nested == [Plain EXCEPT !.ask[a] = <<b, d>>, !.ask[b] = <<c>>]

\* Target b needs d and not the ask.
Early == [Plain EXCEPT !.ask[a] = <<b, c>>, !.needs[b] = {d}]

Shipped == {Join, Split, SplitNeeds, Approval, SignOff}
Unusual == {Misspelt, Shared, Nested, Early}
MCWorkflows == Shipped \cup Unusual

\* For the run on one definition.
NestedOnly == {Nested}
=============================================================================
