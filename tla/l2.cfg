SPECIFICATION Spec
CONSTANTS
    Thread <- MCThread
    Object <- MCObject
    Node <- MCNode
    Token <- MCToken
    Accesses <- MCAccesses
    Sessions <- MCSessions
    Contracts <- MCContracts
    Statics <- MCStatics
INVARIANTS OrdReachExact EvidenceMonotone CalibrationExact RecallSafe
CHECK_DEADLOCK FALSE
