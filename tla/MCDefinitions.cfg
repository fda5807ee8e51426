\* Two edits, a file that cannot be read; it stops when nobody edits.
SPECIFICATION FairSpec
CONSTANTS
    A = A
    B = B
    i1 = i1
    i2 = i2
    NoWorkflow = NoWorkflow
    Files <- MCFiles
    Titles <- MCTitles
    Ids <- MCIds
    MaxEdits = 2
    MaxFaults = 1
INVARIANTS
    SuffixesInOrder
    ChangeNotLost
PROPERTY
    HotReloaded
CHECK_DEADLOCK FALSE
