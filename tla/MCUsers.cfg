\* Two requests at a time, failed saves and a crash.  It may stop: when no
\* active account is left, nobody can make a request.
SPECIFICATION Spec
CONSTANTS
    x = x
    y = y
    z = z
    e1 = e1
    e2 = e2
    r1 = r1
    r2 = r2
    g1 = g1
    g2 = g2
    Ids <- MCIds
    Emails <- MCEmails
    Requests <- Two
    Refreshers <- TwoRefreshes
    MaxFaults = 1
    MaxCrashes = 1
SYMMETRY Symmetric
INVARIANTS
    EmailsAgree
    GoneForGood
    AdminRemains
    AdminsGetCopies
CHECK_DEADLOCK FALSE
