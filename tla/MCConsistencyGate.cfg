\* One scenario file through gate, tester and reasoner.
CONSTANTS
    Files <- GateFiles
    Prints <- MCPrints
    Strict = FALSE
    DefaultJobs = 2
SPECIFICATION GateSpec
INVARIANTS UnitTypeOK VerdictsSound NothingOverlooked TotalVouches IdleRemovalsKill ConsistentIsThrough SelfTestsTell
PROPERTY GateEnds
CHECK_DEADLOCK FALSE
