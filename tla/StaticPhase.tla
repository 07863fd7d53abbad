---------------------------- MODULE StaticPhase ----------------------------
(***************************************************************************)
(* The static phase: CCPG::build makes the thread tree, matches the joins  *)
(* and runs the lock-set analysis (src/CCPG/CCPG.cpp:770); HBGraph::build  *)
(* (src/CCPG/HBGraph.cpp) then makes the happens-before graph out of the   *)
(* control flow, the locks and the threads.                                *)
(***************************************************************************)
EXTENDS LockSet, ThreadTree

CONSTANTS Systems,    \* the analysed programs: a tree and a graph that fit
          RCUCap      \* HB_RCU_MAX_EDGES

VARIABLE hb           \* outEdges_ once they are built: {} before

allVars == <<vars, treeVars, hb>>

(* Beside the fields LockSet uses, a graph has: body, the nodes of the     *)
(* functions that a thread running f goes through; calls and forks, its    *)
(* CALL and HB edges; joinNode; ret, the RETURN nodes; waits, the pairs of *)
(* a signal and a wait on the same completion; rcu, the pairs of a read    *)
(* unlock and a synchronize of the same family and instance; regs, the     *)
(* pairs of a registration call and a function it publishes; firstOf, the  *)
(* first ORDER successor of a function's entry, or the entry.  ORDER edges *)
(* stay in a function, and a body is made of whole functions.              *)
ASSUME SystemAssumption ==
  \A s \in Systems :
    /\ s.prog \in Programs /\ s.tree \in Trees
    /\ s.prog.body \in [Function -> SUBSET Node]
    /\ \A f \in Function, n \in Node : \A d \in s.prog.succ[n] :
         n \in s.prog.body[f] <=> d \in s.prog.body[f]

Body(t) == prog.body[thr[t].main]

StaticInit ==
  /\ \E s \in Systems : prog = s.prog /\ tree = s.tree
  /\ Init /\ TreeInit
  /\ hb = {}

----------------------------------------------------------------------------
(* buildLockEdges: locks come in any order; one joins the first class      *)
(* whose first member may be the same lock.                                *)
Locks == {a \in Addr : acq[a] # None}

(* The classes after the first k locks *)
ClassesAfter(order) ==
  LET cls[k \in 0..Len(order)] ==
        IF k = 0 THEN <<>>
        ELSE LET prev == cls[k - 1]
                 fits == {i \in DOMAIN prev : LockAlias(acq[prev[i][1]], acq[order[k]])}
             IN IF fits = {} THEN Append(prev, <<order[k]>>)
                ELSE [prev EXCEPT ![Min(fits)] = Append(@, order[k])]
  IN cls

Classes(order) == ClassesAfter(order)[Len(order)]

(* findThread: the first thread, in the order of the set, with the node *)
ThreadOf(n, threads) ==
  LET has == {i \in DOMAIN threads : n \in Body(threads[i])} IN
  IF has = {} THEN 0 ELSE threads[Min(has)]

(* r and a are in one class *)
SameClass(r, a, order) ==
  \E i \in DOMAIN Classes(order) : {r, a} \subseteq ToSet(Classes(order)[i])

\* Mutant: threads that never run at the same time are linked too
LockEdgeAnyThreads(r, a, threads) ==
  /\ r # a /\ rel[r] # None
  /\ ThreadOf(rel[r], threads) # 0 /\ ThreadOf(acq[a], threads) # 0
  /\ ThreadOf(rel[r], threads) # ThreadOf(acq[a], threads)

LockEdge(r, a, threads) ==
  LET tr == ThreadOf(rel[r], threads)
      ta == ThreadOf(acq[a], threads)
  IN /\ r # a /\ rel[r] # None
     /\ tr # 0 /\ ta # 0 /\ tr # ta
     /\ MayThreadsRunConcurrently(tr, ta)

LockEdges(order, threads) ==
  {<<rel[p[1]], acq[p[2]], "lock">> : p \in
     {q \in Locks \X Locks :
        SameClass(q[1], q[2], order) /\ LockEdge(q[1], q[2], threads)}}

ProgramOrder ==
  (UNION {{<<n, d, "order">> : d \in prog.succ[n]} : n \in Node})
  \cup {<<e[1], e[2], "call">> : e \in prog.calls}
  \cup {<<e[1], e[2], "fork">> : e \in prog.forks}

(* from the RETURN nodes of a thread to what follows its join *)
JoinEdges ==
  UNION {{<<x, d, "join">> : x \in Body(t) \cap prog.ret,
                             d \in prog.succ[prog.joinNode[joinOf[t]]]} :
           t \in {u \in live : joinOf[u] # NoSite}}

CompletionEdges ==
  UNION {{<<w[1], d, "completion">> : d \in prog.succ[w[2]]} : w \in prog.waits}

(* from the registration of a callback to the first node of its thread *)
LifecycleEdges ==
  {<<g[1], prog.firstOf[g[2]], "lifecycle">> :
     g \in {h \in prog.regs : \E t \in live : thr[t].main = h[2]}}

(* an unlock in a reader thread, before a synchronize in another thread *)
RCUEdge(t, u, s, threads) ==
  LET tw == ThreadOf(s, threads) IN
  /\ <<u, s>> \in prog.rcu
  /\ u \in Body(t) /\ t # tw
  /\ tw # 0 => MayThreadsRunConcurrently(tw, t)

RCUCandidates(threads) ==
  {e \in live \X Node \X Node : RCUEdge(e[1], e[2], e[3], threads)}

(* HBGraph::build.  RCU edges beyond the cap are left out without notice.  *)
BuildHB ==
  /\ phase = "ready" /\ Done /\ hb = {}
  /\ \E order \in SetToSeqs(Locks), threads \in SetToSeqs(live) :
     \E kept \in SUBSET RCUCandidates(threads) :
       /\ Cardinality(kept) = Min({RCUCap, Cardinality(RCUCandidates(threads))})
       /\ hb' = ProgramOrder \cup LockEdges(order, threads) \cup JoinEdges
                \cup CompletionEdges \cup LifecycleEdges
                \cup {<<e[2], e[3], "rcu">> : e \in kept}
  /\ UNCHANGED <<vars, treeVars>>

StaticNext ==
  \/ TreeNext /\ UNCHANGED <<vars, hb>>
  \/ phase = "ready" /\ Next /\ ~Done /\ UNCHANGED <<treeVars, hb>>
  \/ BuildHB
  \/ hb # {} /\ UNCHANGED allVars

(* One thread runs the whole phase. *)
StaticSpec == StaticInit /\ [][StaticNext]_allVars /\ WF_allVars(StaticNext)

----------------------------------------------------------------------------
Concurrent(m, n) ==
  \E t, u \in live : /\ t # u /\ m \in Body(t) /\ n \in Body(u)
                     /\ MayThreadsRunConcurrently(t, u)

\* whichever threads findThread takes for m and n
AlwaysConcurrent(m, n) ==
  /\ Concurrent(m, n)
  /\ \A t, u \in live : m \in Body(t) /\ n \in Body(u) =>
                         t # u /\ MayThreadsRunConcurrently(t, u)

\* r and a may be the same lock as c
BothLike(c, r, a) == \A l \in {r, a} \ {c} : LockAlias(acq[c], acq[l])

\* r and a may be the same lock, and no third lock tells them apart
Inseparable(r, a) ==
  /\ LockAlias(acq[r], acq[a]) /\ LockAlias(acq[a], acq[r])
  /\ \A c \in Locks \ {r, a} : LockAlias(acq[c], acq[r]) <=> LockAlias(acq[c], acq[a])

(* What the order in which locks and threads come out of their hash sets   *)
(* can and cannot do to the lock edges (HBGraph.cpp:121-169).  Whatever it *)
(* is, an edge is from a recorded release to an acquisition of another     *)
(* Lock object in a concurrent thread, and both may be the lock of one     *)
(* that heads a class.  And an edge is there in every order if no third    *)
(* lock tells the two apart and every thread that has the release runs at  *)
(* the same time as every thread that has the acquisition.  May-alias      *)
(* answers are not transitive, and an operand without a call instruction   *)
(* is not even its own alias, so that the rest is up to the order.         *)
LockEdgesBounded ==
  hb # {} =>
    /\ \A m, n \in Node :
         <<m, n, "lock">> \in hb =>
           \E r, a \in Locks : /\ r # a /\ rel[r] = m /\ acq[a] = n
                              /\ \E c \in Locks : BothLike(c, r, a)
                              /\ Concurrent(m, n)
    /\ \A r, a \in Locks :
         /\ r # a /\ rel[r] # None
         /\ Inseparable(r, a) /\ AlwaysConcurrent(rel[r], acq[a])
         => <<rel[r], acq[a], "lock">> \in hb

(* No context is lost without cause by the three ways createThread drops a *)
(* fork site (ThreadCreationTree.cpp:84-105, 225-294): what a thread       *)
(* starts is run by some thread, unless a fork on the same source line has *)
(* its thread already, which may run another function, or the cap was hit  *)
(* and the site was left in the queue.                                     *)
ForksCovered ==
  phase = "ready" =>
    \A t \in live : \A s \in tree.forks[thr[t].main] :
      tree.target[s] # NoSite =>
        \/ \E u \in live : thr[u].main = tree.target[s]
        \/ \E u \in live : thr[u].fork # NoSite /\ tree.loc[thr[u].fork] = tree.loc[s]
        \/ taken = ForkCap /\ \E i \in DOMAIN queue : queue[i].fork = s

Root(t) == CHOOSE r \in DOMAIN thr :
             thr[r].parent = 0 /\ (r = t \/ IsDescendant(t, r))

Ancestors(t) == {u \in live : u = t \/ IsDescendant(t, u)}

Ordered(t, u) ==
  \E a \in Ancestors(t) \ Ancestors(u), b \in Ancestors(u) \ Ancestors(t) :
    /\ thr[a].parent = thr[b].parent
    /\ \/ JoinedBefore(a, b, thr[a].parent)
       \/ JoinedBefore(b, a, thr[a].parent)

(* Two threads of one root are called ordered exactly when they are at the *)
(* same depth and two of their ancestors are siblings of which one is      *)
(* joined before the other is forked.  At different depths the climb meets *)
(* an ancestor and answers concurrent.  The caches, keyed by the unordered *)
(* pair, return what was asked for: which of two threads comes first makes *)
(* no difference, nor does it for siblings that are asked for directly     *)
(* (ThreadCreationTree.cpp:834-908, 963-996).  Of other threads only the   *)
(* first one's parent counts there, and the first to ask decides.          *)
OrderedByJoin ==
  phase = "ready" =>
    /\ \A t, u \in live :
         t # u /\ Root(t) = Root(u) =>
           (~MayThreadsRunConcurrently(t, u) <=>
              /\ Cardinality(Ancestors(t)) = Cardinality(Ancestors(u))
              /\ t \notin Ancestors(u) /\ u \notin Ancestors(t)
              /\ Ordered(t, u))
    /\ \A t, u \in live :
         Parent(t) = Parent(u) => (MayHappenInParallel(t, u) <=> MayHappenInParallel(u, t))

(* The static phase ends, also when threads fork each other in a cycle. *)
StaticEnds == <>(hb # {})

(* ThreadCreationTree.cpp:124 "Main thread is now kept for analysis to     *)
(* detect races between main and worker threads": an object that a thread  *)
(* and a thread it started access is looked at for that pair               *)
(* (AgentManager.cpp:669-672).                                             *)
AncestorPairsKept ==
  phase = "ready" =>
    \A t, u \in live :
      IsDescendant(u, t) => <<t, u>> \in CandidatePairs({t, u})
=============================================================================
