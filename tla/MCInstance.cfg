\* Every workflow; safety, the life cycle, liveness.
SPECIFICATION FairSpec
CONSTANTS
    a = a
    b = b
    c = c
    d = d
    i1 = i1
    NoStep = NoStep
    Steps <- MCSteps
    Items <- MCItems
    Workflows <- MCWorkflows
    MaxTime = 3
INVARIANTS
    TypeOK
    NeedsMet
    RoutedBeforeBegun
    DoneIffAllTerminal
    CompletedOnce
    NotifiedOnce
    NoneLeftBehind
    XorSplit
    NeverStuck
PROPERTIES
    NotBeforeSchedule
    ImplementsLifecycle
    ScheduledStepStarts
    OverdueStepNotified
