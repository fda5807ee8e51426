\* Reloads, failed saves and a crash; it stops when all instances are made.
SPECIFICATION VarsSpec
CONSTANTS
    i1 = i1
    i2 = i2
    i3 = i3
    v1 = v1
    v2 = v2
    Placeholder = Placeholder
    InstanceIds <- MCIds
    Values <- MCValues
    MaxReloads = 1
    MaxFailedSaves = 1
    MaxCrashes = 1
SYMMETRY Symmetric
INVARIANT
    NoPlaceholderLeft
CHECK_DEADLOCK FALSE
