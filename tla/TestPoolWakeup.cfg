\* More tests than jobs: the wake-up that never comes.
CONSTANTS
    NTests = 2
    Jobs = {1}
    ReplMayDie = FALSE
SPECIFICATION Spec
INVARIANT SleeperHasWaker
CHECK_DEADLOCK FALSE
