\* Up to four tests on no, one or two jobs; a reasoner may die.
CONSTANTS
    NTests = 4
    Jobs = {0, 1, 2}
    ReplMayDie = TRUE
SPECIFICATION FairSpec
INVARIANTS PoolInv AtMostNJobs OutputsComplete
PROPERTY PoolEnds
CHECK_DEADLOCK FALSE
