\* A reasoner that need not say anything.
CONSTANTS
    NPhrases = 1
    MaxLines = 1
    InCap = 1
    OutCap = 2
    MayEnd = FALSE
SPECIFICATION DriverSpec
PROPERTY StartupBounded
CHECK_DEADLOCK FALSE
