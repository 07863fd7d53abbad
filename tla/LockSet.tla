------------------------------ MODULE LockSet ------------------------------
(***************************************************************************)
(* LSAnalysis (src/CCPG/LSAnalysis.cpp): the lock set of every node of the *)
(* concurrent code property graph, by one traversal of each function.      *)
(*                                                                         *)
(* The traversal is not a fixpoint iteration.  Every node is visited once, *)
(* a node that waits to be visited takes the set of the predecessor that   *)
(* was visited last, and a set merged into a visited node goes no further. *)
(* The order is that of the nodes' addresses (the work list is a std::set  *)
(* of pointers): every order of visits is the order of some addresses, so  *)
(* the model visits any waiting node.                                      *)
(*                                                                         *)
(* A lock is a Lock object, named by its address.  A lock set is a vector  *)
(* of distinct locks, modelled as a function from the locks in it to       *)
(* increasing keys that give their order.  ORDER edges stay inside a       *)
(* function, so the set visited, which the code empties for each function, *)
(* is kept for all of them.                                                *)
(***************************************************************************)
EXTENDS Integers, FiniteSets, FiniteSetsExt

CONSTANTS Node,      \* nodes of the graph
          Operand,   \* first arguments of the lock calls
          Addr,      \* addresses of Lock objects
          None,      \* null pointer
          Programs   \* the programs the analysis is run on

ASSUME AddrAssumption == Addr \subseteq Nat /\ IsFiniteSet(Addr)

ASSUME NoneAssumption == None \notin Node

(* A program: the function entries, ORDER successors, source line and      *)
(* thread-API type of each node, the only lock operation of the function a *)
(* node calls (acquirePotential, releasePotential), the operands of lock   *)
(* operations and the may-alias relation on them, which need not be        *)
(* reflexive, symmetric or transitive.  An entry has no predecessor.       *)
ASSUME ProgramAssumption ==
  \A p \in Programs :
    /\ p.entry \subseteq Node
    /\ p.succ \in [Node -> SUBSET Node]
    /\ p.loc \in [Node -> Nat]
    /\ p.type \in [Node -> {"acquire", "release", "other"}]
    /\ p.via \in [Node -> Node \cup {None}]
    /\ p.operand \in [Node -> Operand]
    /\ p.alias \subseteq Operand \X Operand
    /\ \A n \in Node : p.succ[n] \cap p.entry = {}

VARIABLES prog,      \* the program
          todo,      \* entries of the functions not yet traversed
          work,      \* worklist
          visited,   \* visited
          ls,        \* nodeLockSets
          acq, rel   \* the ACQUIRE and RELEASE nodes of each Lock object

vars == <<prog, todo, work, visited, ls, acq, rel>>

EmptySet == [a \in {} |-> 0]

Held(n) == DOMAIN ls[n]

TypeOK ==
  /\ prog \in Programs
  /\ todo \subseteq prog.entry
  /\ work \subseteq Node /\ visited \subseteq Node
  /\ DOMAIN ls = Node
  /\ \A n \in Node : Held(n) \subseteq Addr
  /\ acq \in [Addr -> Node \cup {None}]
  /\ rel \in [Addr -> Node \cup {None}]

Init ==
  /\ prog \in Programs
  /\ todo = prog.entry
  /\ work = {} /\ visited = {}
  /\ ls = [n \in Node |-> EmptySet]
  /\ acq = [a \in Addr |-> None]
  /\ rel = [a \in Addr |-> None]

----------------------------------------------------------------------------
(* isLockAlias of two lock operations *)
LockAlias(m, n) == <<prog.operand[m], prog.operand[n]>> \in prog.alias

\* Mutant: one Lock object for all acquisitions of an operand
AcquiredShared(s, m) ==
  {[held |-> [b \in DOMAIN s.held \cup {a} |-> IF b = a THEN a ELSE s.held[b]],
    acq  |-> [s.acq EXCEPT ![a] = m],
    rel  |-> s.rel] :
      a \in {b \in Addr : s.acq[b] = None \/ prog.operand[s.acq[b]] = prog.operand[m]}}

(* The outcomes of one lock operation m on the locks s.held: a release     *)
(* takes out the last lock of the vector that may be m's and that no       *)
(* release, on whatever path, has taken out before.                        *)
Acquired(s, m) ==
  {[held |-> [b \in DOMAIN s.held \cup {a} |->
                IF b = a THEN 1 + Max({0} \cup {s.held[c] : c \in DOMAIN s.held})
                         ELSE s.held[b]],
    acq  |-> [s.acq EXCEPT ![a] = m],
    rel  |-> s.rel] : a \in {b \in Addr : s.acq[b] = None}}

\* Mutant: the operand of the release is not looked at
ReleasableAny(s, m) == {a \in DOMAIN s.held : s.rel[a] = None}

\* Mutant: only the innermost lock is looked at
ReleasableInnermost(s, m) ==
  {a \in DOMAIN s.held : /\ s.rel[a] = None /\ LockAlias(s.acq[a], m)
                         /\ \A b \in DOMAIN s.held : s.held[b] <= s.held[a]}

Releasable(s, m) ==
  {a \in DOMAIN s.held : s.rel[a] = None /\ LockAlias(s.acq[a], m)}

Released(s, m) ==
  {[held |-> [b \in DOMAIN s.held \ {a} |-> s.held[b]],
    acq  |-> s.acq,
    rel  |-> [s.rel EXCEPT ![a] = m]] :
      a \in {b \in Releasable(s, m) :
               \A c \in Releasable(s, m) : s.held[c] <= s.held[b]}}

Outcomes(s, m) ==
  IF m = None THEN {s}
  ELSE IF prog.type[m] = "acquire" THEN Acquired(s, m)
  ELSE IF prog.type[m] = "release" /\ Releasable(s, m) # {} THEN Released(s, m)
  ELSE {s}

(* std::sort by address and std::unique of the concatenated vectors *)
Merged(held1, held2) == [a \in DOMAIN held1 \cup DOMAIN held2 |-> a]

----------------------------------------------------------------------------
StartFunction(f) ==
  /\ work = {}
  /\ f \in todo
  /\ todo' = todo \ {f}
  /\ work' = {f}
  /\ ls' = [ls EXCEPT ![f] = EmptySet]
  /\ UNCHANGED <<prog, visited, acq, rel>>

(* A node that is its own successor merges its set with itself, which      *)
(* sorts it: the successors before it in the out edges (early) take the    *)
(* set as the operations leave it, those after it take the sorted one.     *)
(* The vector is inserted into itself there, which C++ leaves undefined;   *)
(* libstdc++ appends a copy, and std::unique takes it away again.          *)
Visit(n) ==
  /\ n \in work
  /\ visited' = visited \cup {n}
  /\ work' = (work \ {n}) \cup (prog.succ[n] \ visited')
  /\ \E s1 \in Outcomes([held |-> ls[n], acq |-> acq, rel |-> rel], n) :
     \E s2 \in Outcomes(s1, prog.via[n]), early \in SUBSET (prog.succ[n] \ {n}) :
       LET own == IF n \in prog.succ[n] THEN Merged(s2.held, s2.held) ELSE s2.held
           passed(d) == IF d \in early THEN s2.held ELSE own
       IN /\ ls' = [d \in Node |->
                      IF d = n THEN own
                      ELSE IF d \notin prog.succ[n] THEN ls[d]
                      ELSE IF d \notin visited THEN passed(d)
                      ELSE Merged(ls[d], passed(d))]
          /\ acq' = s2.acq
          /\ rel' = s2.rel
  /\ UNCHANGED <<prog, todo>>

Done == work = {} /\ todo = {}

Next == \/ \E f \in todo : StartFunction(f)
        \/ \E n \in work : Visit(n)
        \/ Done /\ UNCHANGED vars

(* build() runs on one thread until it returns. *)
Spec == Init /\ [][Next]_vars /\ WF_vars(Next)

----------------------------------------------------------------------------
\* Mutant: locks of the callers are forgotten
CtxLockSetAtNode(n, sites) == Held(n)

(* The queries, once build() has returned.  A context is the list of call  *)
(* sites that lead to a node; only the set of them matters to              *)
(* isProtectedBySameLock and getLockSet.                                   *)
CtxLockSet(n, sites) == UNION {Held(m) : m \in {n} \cup sites}

(* getNodesByLoc: all the nodes on the source line of n *)
AtLine(n) == {m \in Node : prog.loc[m] = prog.loc[n]}

(* getLockSet of a line, in the same context *)
LineLockSet(n, sites) == UNION {CtxLockSet(m, sites) : m \in AtLine(n)}

SameLock(set1, set2) ==
  \E l1 \in set1, l2 \in set2 : LockAlias(acq[l1], acq[l2])

(* *getNodesByLoc(loc).begin(), for two lines: a node of each, the same    *)
(* one if the lines are                                                    *)
FirstNodes(n1, n2) ==
  {q \in AtLine(n1) \X AtLine(n2) : prog.loc[n1] = prog.loc[n2] => q[1] = q[2]}

(* What a detector asks about two lines: the answer is that for whichever  *)
(* nodes q the lines give.                                                 *)
IsProtectedBySameLock(q, sites1, sites2) ==
  SameLock(CtxLockSet(q[1], sites1), CtxLockSet(q[2], sites2))

----------------------------------------------------------------------------
(* What holding a lock means, independently of the traversal: K is a set   *)
(* of nodes such that an operand x is locked whenever control reaches a    *)
(* node of K.  A release of anything that may be x ends it.                *)
KeptBy(x, held, m) ==
  \/ /\ m # None /\ prog.type[m] = "acquire"
     /\ prog.operand[m] = x
  \/ /\ held
     /\ ~(m # None /\ prog.type[m] = "release" /\ <<x, prog.operand[m]>> \in prog.alias)

HeldAfter(x, K, n) == KeptBy(x, KeptBy(x, n \in K, n), prog.via[n])

AlwaysHeld(x, K) ==
  /\ K \cap prog.entry = {}
  /\ \A n \in Node : \A d \in prog.succ[n] : d \in K => HeldAfter(x, K, n)

Has(n, x) == \E a \in Held(n) : acq[a] # None /\ prog.operand[acq[a]] = x

(* A lock that is held on every path to a node is in the set the analysis  *)
(* has for it, whatever the order of the visits and the addresses: no      *)
(* access that is always protected is taken for an unprotected one,        *)
(* although sets are overwritten at joins (LSAnalysis.cpp:75-85).          *)
NoHeldLockMissed ==
  \A x \in Operand : \A K \in SUBSET Node :
    AlwaysHeld(x, K) =>
      /\ \A n \in visited : HeldAfter(x, K, n) => Has(n, x)
      /\ \A n \in work : n \in K => Has(n, x)

(* Two accesses that always hold locks that may be the same share a lock  *)
(* for the verifier, whether it asks for the nodes or for their lines, and *)
(* also when the lock is held by a call site of the context.  A detector,  *)
(* which asks for any node of the line (LSAnalysis.cpp:124), is told so    *)
(* when all the nodes of the line hold the lock, or a call site does; when *)
(* only the node it means holds it, it may be told otherwise.              *)
SurelyHeld(x) ==
  {n \in visited : \E K \in SUBSET Node : AlwaysHeld(x, K) /\ HeldAfter(x, K, n)}

AlwaysProtectedFound ==
  Done =>
    \A x, y \in Operand :
      <<x, y>> \in prog.alias =>
        LET sure1 == SurelyHeld(x)
            sure2 == SurelyHeld(y)
        IN \A n1 \in sure1, n2 \in sure2 :
             /\ SameLock(CtxLockSet(n1, {}), CtxLockSet(n2, {}))
             /\ SameLock(LineLockSet(n1, {}), LineLockSet(n2, {}))
             /\ AtLine(n1) \subseteq sure1 /\ AtLine(n2) \subseteq sure2 =>
                  \A k \in FirstNodes(n1, n2) : IsProtectedBySameLock(k, {}, {})
             /\ \A f \in prog.entry :
                  /\ SameLock(CtxLockSet(f, {n1}), CtxLockSet(n2, {}))
                  /\ AtLine(n2) \subseteq sure2 =>
                       \A k \in FirstNodes(f, n2) : IsProtectedBySameLock(k, {n1}, {})
                  /\ \A k \in FirstNodes(f, f) : IsProtectedBySameLock(k, {n1}, {n2})

(* An unlock of what is locked whenever control reaches it is recorded as  *)
(* the release of a lock it may unlock, or such a lock, whose one recorded *)
(* release is on another path, stays in the set (LSAnalysis.cpp:35-45,     *)
(* 58-68): no unlock is passed over while a lock it may unlock is open.    *)
\* x is locked at the operation m of u, u itself or the one it calls
LockedAt(x, K, u, m) ==
  /\ prog.type[m] = "release" /\ <<x, prog.operand[m]>> \in prog.alias
  /\ \/ m = u /\ u \in K
     \/ m = prog.via[u] /\ KeptBy(x, u \in K, u)

UnlockRecorded ==
  \A x \in Operand : \A K \in SUBSET Node :
    AlwaysHeld(x, K) =>
      \A u \in visited : \A m \in {u, prog.via[u]} \ {None} :
        LockedAt(x, K, u, m) =>
          \E a \in Addr :
            /\ acq[a] # None
            /\ LockAlias(acq[a], m)
            /\ (rel[a] = m \/ (rel[a] # None /\ a \in Held(u)))

(* A lock is only in the sets of nodes that an acquisition of it reaches:  *)
(* any set of nodes closed under ORDER edges that contains the sites       *)
(* acquiring a lock contains every node whose set has the lock.  Overwrites*)
(* and merges never carry a lock against the control flow.                 *)
HeldOnlyDownstream ==
  \A C \in SUBSET Node :
    (\A n \in C : prog.succ[n] \subseteq C) =>
      \A n \in visited \cup work : \A a \in Held(n) :
        (\A m \in Node : acq[a] \in {m, prog.via[m]} => m \in C) => n \in C

(* build() returns with every node that an entry reaches visited: nothing  *)
(* that is put in the work list is forgotten (LSAnalysis.cpp:21-88).       *)
ReachedIsVisited ==
  Done => /\ prog.entry \subseteq visited
          /\ \A n \in visited : prog.succ[n] \subseteq visited

(* The work list drains, also on loops: every node is visited once.        *)
BuildEnds == <>Done
=============================================================================
