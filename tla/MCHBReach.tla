------------------------------ MODULE MCHBReach ------------------------------
(* All graphs of at most EdgeBound edges over three nodes, with one edge     *)
(* kind of each class.                                                      *)
EXTENDS HBReach, FiniteSetsExt
CONSTANTS a, b, c, EdgeBound

MCNode == {a, b, c}

MCEdge == {e \in [src : MCNode, dst : MCNode,
                  kind : {"PROGRAM_ORDER", "LOCK_RELEASE_ACQUIRE", "RCU_SYNC"}]
              : e.src # e.dst}

MCGraphs == UNION {kSubset(k, MCEdge) : k \in 0 .. EdgeBound}
=============================================================================
