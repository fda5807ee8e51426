\* Two users, two notifications, faults, resets and crashes.
SPECIFICATION Spec
CONSTANTS
    u1 = u1
    u2 = u2
    Users <- MCUsers
    MaxPosts = 2
    MaxFaults = 1
    MaxResets = 1
    MaxCrashes = 1
SYMMETRY Symmetric
INVARIANTS
    CountIsExact
PROPERTY
    KeptInOrder
