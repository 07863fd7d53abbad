------------------------------- MODULE HBReach -------------------------------
(***************************************************************************)
(* HBGraph::hbReachable (src/CCPG/HBGraph.cpp): the breadth-first search   *)
(* every happens-before question of the checkers goes through.  A search   *)
(* state is a CCPG node with a flag saying whether the path so far crossed *)
(* an edge that counts as synchronization under the policy.                *)
(*                                                                         *)
(* The loop pops a state, then looks at the out-edges of its node one by   *)
(* one; the order of the edge vector is left open.  The graph and the      *)
(* query are arbitrary and fixed.                                          *)
(***************************************************************************)
EXTENDS Integers, Sequences

CONSTANTS
    Node,        \* CCPG nodes
    Graphs,      \* the happens-before graphs to search: sets of edges
    Cap          \* the depth cap (max_depth or HB_MAX_DEPTH)

\* HBEdgeKind, by the way isSyncEdge treats them.
ControlKinds == {"PROGRAM_ORDER", "CALL_RETURN"}
StructuralKinds == {"LOCK_RELEASE_ACQUIRE", "FORK_TO_ENTRY", "JOIN_FROM_EXIT"}
ProtocolKinds == {"RCU_SYNC", "COMPLETION", "LIFECYCLE_FLAG"}
Kinds == ControlKinds \cup StructuralKinds \cup ProtocolKinds

Policies == {"AllMechanisms", "StructuralOnly"}

Edge == [src : Node, dst : Node, kind : Kinds]

ASSUME ReachAssumption ==
    /\ Graphs \subseteq SUBSET Edge
    /\ Cap \in Nat

VARIABLES
    edges,       \* outEdges_
    n1, n2,      \* the query
    requireSync, \* requireSyncEdge
    policy,      \* policy
    queue,       \* q and qSync: <<node, depth, sawSync>>
    visited,     \* visNoSync and visSync: <<node, sawSync>>
    cur,         \* the popped entry
    todo,        \* its out-edges not looked at yet
    result       \* "running", TRUE/FALSE as "yes"/"no"

vars == <<edges, n1, n2, requireSync, policy, queue, visited, cur, todo, result>>

query == <<edges, n1, n2, requireSync, policy>>

IsSyncEdge(k, p) ==
    \/ k \in StructuralKinds
    \/ k \in ProtocolKinds /\ p = "AllMechanisms"

\* The search state an edge leads to.
After(sync, e, p) == <<e.dst, sync \/ IsSyncEdge(e.kind, p)>>

Init ==
    /\ edges \in Graphs
    /\ n1 \in Node /\ n2 \in Node
    /\ requireSync \in BOOLEAN /\ policy \in Policies
    /\ queue = <<<<n1, 0, FALSE>>>>
    /\ visited = {<<n1, FALSE>>}
    /\ cur = <<n1, 0, FALSE>>
    /\ todo = {}
    /\ result = "running"

\* The early return for a node and itself.
SameNode ==
    /\ result = "running" /\ n1 = n2
    /\ result' = IF requireSync THEN "no" ELSE "yes"
    /\ UNCHANGED <<query, queue, visited, cur, todo>>

Searching == result = "running" /\ n1 # n2

\* Mutant: the depth cap is one edge too generous.
PopDeep ==
    /\ Searching /\ todo = {} /\ queue # <<>>
    /\ cur' = Head(queue)
    /\ queue' = Tail(queue)
    /\ todo' = IF Head(queue)[2] > Cap THEN {}
               ELSE {e \in edges : e.src = Head(queue)[1]}
    /\ UNCHANGED <<query, visited, result>>

\* Mutant: the entry is only removed once its edges are looked at.
PopLate ==
    /\ Searching /\ todo = {} /\ queue # <<>>
    /\ cur' = Head(queue)
    /\ queue' = IF Head(queue)[2] >= Cap THEN queue ELSE Tail(queue)
    /\ todo' = IF Head(queue)[2] >= Cap THEN {}
               ELSE {e \in edges : e.src = Head(queue)[1]}
    /\ UNCHANGED <<query, visited, result>>

\* Take the next entry; past the depth cap its edges are not looked at.
Pop ==
    /\ Searching /\ todo = {} /\ queue # <<>>
    /\ cur' = Head(queue)
    /\ queue' = Tail(queue)
    /\ todo' = IF Head(queue)[2] >= Cap THEN {}
               ELSE {e \in edges : e.src = Head(queue)[1]}
    /\ UNCHANGED <<query, visited, result>>

\* Mutant: n2 is accepted without the required synchronization.
TakeEdgeNoSync ==
    /\ Searching
    /\ \E e \in todo :
          LET next == After(cur[3], e, policy)
          IN  /\ todo' = todo \ {e}
              /\ IF next[1] = n2
                 THEN /\ result' = "yes"
                      /\ UNCHANGED <<queue, visited>>
                 ELSE /\ visited' = visited \cup {next}
                      /\ queue' = IF next \in visited THEN queue
                                  ELSE Append(queue, <<next[1], cur[2] + 1, next[2]>>)
                      /\ UNCHANGED result
    /\ UNCHANGED <<query, cur>>

\* Mutant: a stack instead of a queue.
TakeEdgeFront ==
    /\ Searching
    /\ \E e \in todo :
          LET next == After(cur[3], e, policy)
          IN  /\ todo' = todo \ {e}
              /\ IF next[1] = n2 /\ (requireSync => next[2])
                 THEN /\ result' = "yes"
                      /\ UNCHANGED <<queue, visited>>
                 ELSE /\ visited' = visited \cup {next}
                      /\ queue' = IF next \in visited THEN queue
                                  ELSE <<<<next[1], cur[2] + 1, next[2]>>>> \o queue
                      /\ UNCHANGED result
    /\ UNCHANGED <<query, cur>>

\* One out-edge: n2 found, state already seen, or state queued.
TakeEdge ==
    /\ Searching
    /\ \E e \in todo :
          LET next == After(cur[3], e, policy)
          IN  /\ todo' = todo \ {e}
              /\ IF next[1] = n2 /\ (requireSync => next[2])
                 THEN /\ result' = "yes"
                      /\ UNCHANGED <<queue, visited>>
                 ELSE /\ visited' = visited \cup {next}
                      /\ queue' = IF next \in visited THEN queue
                                  ELSE Append(queue, <<next[1], cur[2] + 1, next[2]>>)
                      /\ UNCHANGED result
    /\ UNCHANGED <<query, cur>>

\* Nothing left.
Exhausted ==
    /\ Searching /\ todo = {} /\ queue = <<>>
    /\ result' = "no"
    /\ UNCHANGED <<query, queue, visited, cur, todo>>

Next == SameNode \/ Pop \/ TakeEdge \/ Exhausted

Spec == Init /\ [][Next]_vars
FairSpec == Spec /\ WF_vars(Next)

-----------------------------------------------------------------------------
(* Reference definitions.                                                  *)

SearchState == Node \X BOOLEAN

\* The states that paths of at most k edges lead to.
Within[k \in Nat] ==
    IF k = 0 THEN {<<n1, FALSE>>}
    ELSE Within[k-1] \cup
         UNION {{After(s[2], e, policy) : e \in {f \in edges : f.src = s[1]}}
                   : s \in Within[k-1]}

Accepted(s) == s[1] = n2 /\ (requireSync => s[2])

\* A set of states that contains the start and is closed under edges.
Closed(S) ==
    /\ <<n1, FALSE>> \in S
    /\ \A s \in S, e \in edges : e.src = s[1] => After(s[2], e, policy) \in S

\* A state that some path, of any length, leads to.
Reachable(s) == \A S \in SUBSET SearchState : Closed(S) => s \in S

-----------------------------------------------------------------------------
(* Properties.                                                             *)

\* Type invariant of the search: no entry lies deeper than the cap
\* (HBGraph.cpp:646).
TypeOK ==
    /\ edges \subseteq Edge
    /\ n1 \in Node /\ n2 \in Node
    /\ requireSync \in BOOLEAN /\ policy \in Policies
    /\ queue \in Seq(Node \X Nat \X BOOLEAN)
    /\ \A k \in DOMAIN queue : queue[k][2] <= Cap
    /\ visited \subseteq SearchState
    /\ cur \in Node \X Nat \X BOOLEAN
    /\ todo \subseteq edges
    /\ result \in {"running", "yes", "no"}

\* The answer is exact for every graph, edge order and policy: yes if and only
\* if a path of at most Cap edges leads to n2, across a synchronization edge
\* when one is required (for distinct nodes).
AnswerExact ==
    (result # "running" /\ n1 # n2) =>
        ((result = "yes") = (\E s \in Within[Cap] : Accepted(s)))

\* A "yes" is never wrong, whatever the cap: some path of the graph shows it.
YesIsSound ==
    (result = "yes" /\ n1 # n2) =>
        \E s \in SearchState : Accepted(s) /\ Reachable(s)

\* An entry that waits deeper in the queue is never nearer to n1: what lets
\* one visit per state respect the depth cap.
QueueByDepth ==
    \A j, k \in DOMAIN queue : j < k => queue[j][2] <= queue[k][2]

\* The search ends.
SearchEnds == <>(result # "running")
=============================================================================
