SPECIFICATION Spec
CONSTANTS
    a = a
    b = b
    HistoryBound = 4
    CallIds <- MCCallIds
    Histories <- MCHistories
INVARIANTS ResponsesPaired IdsUnique
CHECK_DEADLOCK FALSE
