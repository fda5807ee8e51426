\* Two saves and two mails, a fault and a restart; calls take up to three units.
SPECIFICATION Spec
CONSTANTS
    s1 = s1
    s2 = s2
    k1 = k1
    k2 = k2
    Savers = {s1, s2}
    Mails = {k1, k2}
    MaxSaves = 2
    MaxTime = 3
    MaxFaults = 1
    MaxRestarts = 1
    TokenCached = 1
SYMMETRY Symmetric
CONSTRAINT ClockStops
INVARIANTS
    SavedIsLive
    MailedByCurrent
    TokenIsFresh
