\* The shipped scenario files as they are.
CONSTANTS
    Files <- BareFiles
    Prints <- MCPrints
    Strict = FALSE
    DefaultJobs = 2
SPECIFICATION GateSpec
INVARIANT RulesPickedUp
CHECK_DEADLOCK FALSE
