\* Documents of up to seven lines; a document ends refused, cyclic or accepted.
SPECIFICATION LanguageSpec
CONSTANTS
    a = a
    b = b
    c = c
    t = t
    NoName = NoName
    StepNames <- MCNames
    Lines <- MCLines
    MaxLines = 7
SYMMETRY Symmetric
INVARIANTS
    ParsedAsWritten
    CyclesFound
    AcceptedFinishes
CHECK_DEADLOCK FALSE
