SPECIFICATION FairSpec
CONSTANTS
    a = a
    b = b
    c = c
    EdgeBound = 3
    Cap = 2
    Node <- MCNode
    Graphs <- MCGraphs
CHECK_DEADLOCK FALSE
INVARIANTS TypeOK AnswerExact YesIsSound QueueByDepth
PROPERTIES SearchEnds
