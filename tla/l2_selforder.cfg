SPECIFICATION Spec
CONSTANTS
    Thread <- MCThread
    Object <- MCObject
    Node <- MCNode
    Token <- MCToken
    Accesses <- MCAccesses
    Sessions <- MCSessions
    Contracts <- MCContracts
    Statics <- MCStatics
INVARIANT DischargeHasEvidence
CHECK_DEADLOCK FALSE
