\* Two instances of one definition.
SPECIFICATION VarsSpec
CONSTANTS
    i1 = i1
    i2 = i2
    i3 = i3
    v1 = v1
    v2 = v2
    Placeholder = Placeholder
    InstanceIds <- TwoIds
    Values <- MCValues
    MaxReloads = 0
    MaxFailedSaves = 0
    MaxCrashes = 0
INVARIANT
    SubstitutedThroughout
CHECK_DEADLOCK FALSE
