----------------------------- MODULE ThreadTree -----------------------------
(***************************************************************************)
(* ThreadCreationTree (src/CCPG/ThreadCreationTree.cpp): the abstract      *)
(* threads of the analysed program, found by following fork sites from the *)
(* entry functions; the join site of each thread; and the two relations    *)
(* "may happen in parallel" that every later phase asks for.               *)
(*                                                                         *)
(* Threads are numbered in the order of their creation (the code's ids are *)
(* one less).  FORK nodes, functions, threads and joins are kept in sets   *)
(* of pointers, so the order in which they come is any order.              *)
(***************************************************************************)
EXTENDS Integers, Sequences, FiniteSets, SequencesExt

CONSTANTS Function, ForkSite, JoinSite,
          NoSite,     \* null pointer
          ForkCap,    \* fork sites looked at: 100 in the code
          Trees       \* the programs

(* A program: entry functions; the FORK nodes of the functions a function  *)
(* reaches by calls; the function a fork starts (NoSite when it cannot be  *)
(* resolved) and its file and line; isThreadAlias and the match score of a *)
(* fork and a join; which join reaches which fork inside a thread that     *)
(* runs a function; manual entry mode, and the entries whose name is in    *)
(* the manual list; entries that have incompatible phases or no data in    *)
(* common; reentrant entries.                                              *)
(* Functions and fork sites are in the analysed files: finitely many.      *)
ASSUME TreeAssumption ==
  /\ IsFiniteSet(Function) /\ IsFiniteSet(ForkSite)
  /\ NoSite \notin Function \cup ForkSite
  /\ \A tr \in Trees :
       /\ tr.entries \subseteq Function
       /\ tr.forks \in [Function -> SUBSET ForkSite]
       /\ tr.target \in [ForkSite -> Function \cup {NoSite}]
       /\ tr.manual \in BOOLEAN /\ tr.matched \subseteq Function

VARIABLES tree,
          phase,      \* "entries", "forks", "joins", "ready"
          thr,        \* threads in the order of creation
          queue,      \* forkQueue
          taken,      \* i: elements taken from forkQueue
          live,       \* ids of the threads in the set threads
          joinsLeft,  \* joins handleJoins has not matched yet
          joinOf      \* join node of each thread

treeVars == <<tree, phase, thr, queue, taken, live, joinsLeft, joinOf>>

Entries == tree.entries
KernelMode == Cardinality(Entries) > 1 \/ tree.manual

TreeInit ==
  /\ tree \in Trees
  /\ phase = "entries"
  /\ thr = <<>> /\ queue = <<>> /\ taken = 0
  /\ live = {} /\ joinsLeft = JoinSite /\ joinOf = <<>>

----------------------------------------------------------------------------
Mains == {thr[t].main : t \in DOMAIN thr}

(* FORK nodes of a new thread, put in the queue in some order *)
Pushed(f, id) ==
  {[i \in DOMAIN s |-> [fork |-> s[i], parent |-> id]] : s \in SetToSeqs(tree.forks[f])}

Created(f, fork, parent) ==
  /\ thr' = Append(thr, [main |-> f, fork |-> fork, parent |-> parent])
  /\ live' = live \cup {Len(thr) + 1}
  /\ joinOf' = Append(joinOf, NoSite)

AddEntry(f) ==
  /\ phase = "entries"
  /\ f \in Entries \ Mains
  /\ Created(f, NoSite, 0)
  /\ \E new \in Pushed(f, Len(thr) + 1) : queue' = queue \o new
  /\ phase' = IF Entries \subseteq Mains \cup {f} THEN "forks" ELSE "entries"
  /\ UNCHANGED <<tree, taken, joinsLeft>>

(* createThread gives nothing for a fork site or a fork location that has  *)
(* a thread, an entry it cannot resolve, and a function that has a thread. *)
IsNew(fork) ==
  /\ \A t \in live : thr[t].fork # NoSite => tree.loc[thr[t].fork] # tree.loc[fork]
  /\ tree.target[fork] \notin Mains \cup {NoSite}

\* Mutant: forks of a forked thread are not put in the queue
TakeForkShallow ==
  /\ phase = "forks" /\ queue # <<>> /\ taken < ForkCap
  /\ taken' = taken + 1
  /\ queue' = Tail(queue)
  /\ IF IsNew(Head(queue).fork)
     THEN Created(tree.target[Head(queue).fork], Head(queue).fork, Head(queue).parent)
     ELSE UNCHANGED <<thr, live, joinOf>>
  /\ UNCHANGED <<tree, phase, joinsLeft>>

\* Mutant: a fork site without a new thread is put back, uncounted
TakeForkAgain ==
  /\ phase = "forks" /\ queue # <<>> /\ taken < ForkCap
  /\ LET todo == Head(queue) IN
       IF IsNew(todo.fork)
       THEN /\ taken' = taken + 1
            /\ Created(tree.target[todo.fork], todo.fork, todo.parent)
            /\ \E new \in Pushed(tree.target[todo.fork], Len(thr) + 1) :
                 queue' = Tail(queue) \o new
       ELSE queue' = Append(Tail(queue), todo) /\ UNCHANGED <<thr, live, joinOf, taken>>
  /\ UNCHANGED <<tree, phase, joinsLeft>>

TakeFork ==
  /\ phase = "forks" /\ queue # <<>> /\ taken < ForkCap
  /\ taken' = taken + 1
  /\ LET todo == Head(queue) IN
       IF IsNew(todo.fork)
       THEN /\ Created(tree.target[todo.fork], todo.fork, todo.parent)
            /\ \E new \in Pushed(tree.target[todo.fork], Len(thr) + 1) :
                 queue' = Tail(queue) \o new
       ELSE queue' = Tail(queue) /\ UNCHANGED <<thr, live, joinOf>>
  /\ UNCHANGED <<tree, phase, joinsLeft>>

(* A program with one entry keeps only threads that fork or were forked. *)
Childless(t) == \A u \in DOMAIN thr : thr[u].parent # t

EndForks ==
  /\ phase = "forks" /\ (queue = <<>> \/ taken = ForkCap)
  /\ live' = IF KernelMode THEN live
             ELSE {t \in live : thr[t].parent # 0 \/ ~Childless(t)}
  /\ phase' = "joins"
  /\ UNCHANGED <<tree, thr, queue, taken, joinsLeft, joinOf>>

----------------------------------------------------------------------------
(* handleJoins: each join goes to the best scored thread it may join,      *)
(* unless that has one; then a thread without one takes any that fits.     *)
Joinable(j) ==
  {t \in live : thr[t].fork # NoSite /\ <<thr[t].fork, j>> \in tree.alias}

MatchJoin(j) ==
  /\ phase = "joins" /\ j \in joinsLeft
  /\ joinsLeft' = joinsLeft \ {j}
  /\ \/ Joinable(j) = {} /\ UNCHANGED joinOf
     \/ \E best \in Joinable(j) :
          /\ \A t \in Joinable(j) :
               tree.score[<<thr[t].fork, j>>] <= tree.score[<<thr[best].fork, j>>]
          /\ joinOf' = IF joinOf[best] = NoSite THEN [joinOf EXCEPT ![best] = j]
                       ELSE joinOf
  /\ UNCHANGED <<tree, phase, thr, queue, taken, live>>

EndJoins ==
  /\ phase = "joins" /\ joinsLeft = {}
  /\ joinOf' \in {m \in [DOMAIN thr -> JoinSite \cup {NoSite}] :
       \A t \in DOMAIN thr :
         LET fits == {j \in JoinSite : t \in Joinable(j)} IN
         IF joinOf[t] # NoSite \/ fits = {} THEN m[t] = joinOf[t] ELSE m[t] \in fits}
  /\ phase' = "ready"
  /\ UNCHANGED <<tree, thr, queue, taken, live, joinsLeft>>

TreeNext == \/ \E f \in Function : AddEntry(f)
            \/ TakeFork
            \/ EndForks
            \/ \E j \in JoinSite : MatchJoin(j)
            \/ EndJoins

----------------------------------------------------------------------------
(* The relations.  The parent of a thread without one is 0. *)
Parent(t) == thr[t].parent

(* What isDescendant passes on its way up from t *)
Above[t \in DOMAIN thr] ==
  IF Parent(t) = 0 THEN {} ELSE {Parent(t)} \cup Above[Parent(t)]

IsDescendant(t, u) == u \in Above[t]

(* isReachable(join of t, fork of u) in the parent of the first argument.  *)
(* A root's "fork node" is its function node, which no join reaches.       *)
JoinedBefore(t, u, parent) ==
  /\ joinOf[t] # NoSite
  /\ <<joinOf[t], thr[u].fork>> \in tree.reach[thr[parent].main]

(* Two kernel entries are taken to be concurrent when the analyst asked    *)
(* for both, and otherwise unless a filter tells them apart.               *)
RootsConcurrent(t, u) ==
  LET mains == {thr[t].main, thr[u].main} IN
  (tree.manual /\ mains \subseteq tree.matched) \/ mains \notin tree.apart

\* Mutant: only one of two siblings' joins is looked at
MayHappenInParallelOneWay(t, u) ==
  IF Parent(t) = 0
  THEN KernelMode /\ Parent(u) = 0 /\ RootsConcurrent(t, u)
  ELSE ~JoinedBefore(t, u, Parent(t))

(* mayHappenInParallel: the assertion that t and u are siblings is not in  *)
(* the default (Release) build.  The answer is cached under the unordered  *)
(* pair: what u and t get is the answer to whoever asked first.            *)
MayHappenInParallel(t, u) ==
  LET parent == Parent(t)
      kernel == KernelMode /\ Parent(t) = 0 /\ Parent(u) = 0
  IN IF parent = 0
     THEN kernel /\ RootsConcurrent(t, u)
     ELSE ~JoinedBefore(t, u, parent) /\ ~JoinedBefore(u, t, parent)

IsReentrant(t) == Parent(t) = 0 /\ (tree.manual \/ thr[t].main \in tree.reentrant)

(* Cousins are answered like their parents. *)
MayRun[t \in DOMAIN thr] ==
  [u \in DOMAIN thr |->
     IF t = u THEN IsReentrant(t)
     ELSE IF IsDescendant(t, u) \/ IsDescendant(u, t) THEN TRUE
     ELSE IF Parent(t) = Parent(u) THEN MayHappenInParallel(t, u)
     ELSE Parent(t) # 0 /\ Parent(u) # 0 /\ MayRun[Parent(t)][Parent(u)]]

MayThreadsRunConcurrently(t, u) == MayRun[t][u]

(* The pairs of threads composeVerdict and budgetContractThreads look at   *)
(* for an object that the threads of acc access (AgentManager.cpp:645,     *)
(* 1765): ids in ascending order, gated by mayHappenInParallel.            *)
CandidatePairs(acc) ==
  {p \in acc \X acc : p[1] < p[2] /\ MayHappenInParallel(p[1], p[2])}
=============================================================================
