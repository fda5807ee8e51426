SPECIFICATION Spec
CONSTANTS
    anna = anna
    will = will
    nina = nina
    b1 = b1
    b2 = b2
    Ids = {anna, will, nina}
    FirstUsers <- Accounts
    Browsers = {b1, b2}
    MaxSecrets = 3
    MaxEdits = 1
    MaxFaults = 1
    MaxRestarts = 2
SYMMETRY Symmetric
INVARIANTS
    InGoodStanding
    ResetEndsSessions
PROPERTY SessionsLast
CHECK_DEADLOCK FALSE
