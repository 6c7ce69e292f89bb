\* Two phrases through the smallest pipes, which can choke; the reasoner may end.
CONSTANTS
    NPhrases = 2
    MaxLines = 2
    InCap = 1
    OutCap = 1
    MayEnd = TRUE
SPECIFICATION Spec
INVARIANTS ReplTypeOK InStep
PROPERTY ImplementsCalls
CHECK_DEADLOCK FALSE
