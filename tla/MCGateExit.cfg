\* The exit code of the tester.
CONSTANTS
    Files <- GateFiles
    Prints <- MCPrints
    Strict = FALSE
    DefaultJobs = 2
SPECIFICATION GateSpec
INVARIANT ConsistentMeansHeld
CHECK_DEADLOCK FALSE
