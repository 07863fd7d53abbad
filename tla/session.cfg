SPECIFICATION FairSpec
CONSTANTS
    o1 = o1
    o2 = o2
    oX = oX
    Seeded = {o1, o2}
    OtherIds = {oX}
    HighRisk = {o1, o2}
    Consequential = {o1}
    ExploreHard = 1
    ReportHardCap = 3
    MaxRetries = 2
    RepairRounds = 2
CHECK_DEADLOCK FALSE
INVARIANTS SilentOnlyAfterRepair ConsequentialNotWaived ReadsBounded
PROPERTIES SessionEnds
