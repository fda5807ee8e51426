\* An ask that another ask skips.
SPECIFICATION Spec
CONSTANTS
    a = a
    b = b
    c = c
    d = d
    i1 = i1
    NoStep = NoStep
    Steps <- MCSteps
    Items <- MCItems
    Workflows <- NestedOnly
    MaxTime = 3
INVARIANT
    NeverDeadEnd
