SPECIFICATION FairSpec
CONSTANTS
    N = 4
    W = 3
    Skipped <- MCSkipped
INVARIANTS TypeOK ClaimedOnce StoreExclusive PhaseBComplete
PROPERTIES ImplementsMap PhaseAEnds
CHECK_DEADLOCK FALSE
