\* Two instances through crashes and failed saves: safety, and liveness of the ticker.
SPECIFICATION FairSpec
CONSTANTS
    a = a
    b = b
    id1 = id1
    id2 = id2
    NoStep = NoStep
    Steps <- MCSteps
    Items <- MCItems
    Ids <- MCIds
    Workflows <- MCWorkflows
    Notes <- MCNotes
    MaxTime = 1
    MaxFaults = 1
    MaxCrashes = 1
INVARIANTS
    AckedIsDurable
    RedeemedOnce
    DeletedIsFinal
    LinksLead
PROPERTY
    ScheduleSurvivesCrash
