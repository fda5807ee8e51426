\* Two logins at a time, over several windows and a lockout.
SPECIFICATION LimiterSpec
CONSTANTS
    l1 = l1
    l2 = l2
    Logins <- TwoLogins
    Max = 2
    Window = 3
    Lockout = 5
    MaxTime = 12
    MaxTries = 8
SYMMETRY Symmetric
INVARIANTS
    TwiceInWindow
    LockoutServed
    CleanupUnnoticed
