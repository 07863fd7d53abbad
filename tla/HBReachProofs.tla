---------------------------- MODULE HBReachProofs ----------------------------
(***************************************************************************)
(* Proofs about hbReachable, for every graph, query, policy and depth cap: *)
(* a positive answer is witnessed by a path, the queue is ordered by       *)
(* depth, the answer is exact, and the search of a finite graph is finite. *)
(*                                                                         *)
(* Soundness needs that every entry, waiting or popped, is a state some    *)
(* path leads to (Witnessed); the order of the queue needs that waiting    *)
(* entries are at most one edge deeper than the popped one (Banded).       *)
(* Exactness needs that an entry's depth is its distance (ExactDepth), and *)
(* that no state nearer than the popped one is unseen (Layer).             *)
(***************************************************************************)
EXTENDS HBReach, FiniteSetTheorems, WellFoundedInduction, TLAPS

\* Every entry of the search is the end of a path from n1.
Witnessed ==
    /\ Reachable(<<cur[1], cur[3]>>)
    /\ \A k \in DOMAIN queue : Reachable(<<queue[k][1], queue[k][3]>>)

\* The edges under way leave the popped node.
EdgesOfCur == \A e \in todo : e.src = cur[1]

\* The depths of the waiting entries are the popped one's or one more.
Banded ==
    \A k \in DOMAIN queue : cur[2] <= queue[k][2] /\ queue[k][2] <= cur[2] + 1

\* Edges are looked at below the cap only.
UnderCap == todo # {} => cur[2] < Cap

SearchInv ==
    /\ UnderCap
    /\ TypeOK /\ EdgesOfCur /\ Witnessed /\ YesIsSound
    /\ Banded /\ QueueByDepth

-----------------------------------------------------------------------------

\* A queue of one entry.
LEMMA OneEntry ==
    ASSUME NEW S, NEW x \in S
    PROVE  <<x>> \in Seq(S) /\ \A k \in DOMAIN <<x>> : k = 1 /\ <<x>>[k] = x
OBVIOUS

\* A queue with one entry more.
LEMMA OneMore ==
    ASSUME NEW S, NEW q \in Seq(S), NEW x \in S
    PROVE  /\ Append(q, x) \in Seq(S) /\ Len(q) \in Nat
           /\ DOMAIN q = 1 .. Len(q) /\ DOMAIN Append(q, x) = 1 .. Len(q) + 1
           /\ \A k \in 1 .. Len(q) : Append(q, x)[k] = q[k] /\ q[k] \in S
           /\ Append(q, x)[Len(q) + 1] = x
OBVIOUS

\* A queue with one entry less.
LEMMA OneLess ==
    ASSUME NEW S, NEW q \in Seq(S), q # <<>>
    PROVE  /\ Head(q) = q[1] /\ Len(q) \in Nat \ {0}
           /\ DOMAIN q = 1 .. Len(q) /\ DOMAIN Tail(q) = 1 .. Len(q) - 1
           /\ \A k \in 1 .. Len(q) - 1 : Tail(q)[k] = q[k + 1]
OBVIOUS

\* The start of the search is reachable.
LEMMA StartReachable == Reachable(<<n1, FALSE>>)
BY DEF Reachable, Closed

\* An edge out of a reachable state leads to a reachable state.
LEMMA ReachableStep ==
    ASSUME NEW x, NEW b, Reachable(<<x, b>>), NEW e \in edges, e.src = x
    PROVE  Reachable(After(b, e, policy))
<1> SUFFICES ASSUME NEW S \in SUBSET SearchState, Closed(S)
             PROVE  After(b, e, policy) \in S
  BY DEF Reachable
<1>1. <<x, b>> \in S
  BY DEF Reachable
<1> QED
  BY <1>1 DEF Closed

\* An edge leads to a search state.
LEMMA AfterType ==
    ASSUME NEW b \in BOOLEAN, NEW e \in Edge, NEW p
    PROVE  /\ After(b, e, p) \in SearchState
           /\ After(b, e, p) = <<After(b, e, p)[1], After(b, e, p)[2]>>
BY DEF After, SearchState, Edge, IsSyncEdge

\* The search starts in the invariant.
LEMMA InitSearchInv == Init => SearchInv
<1> SUFFICES ASSUME Init PROVE SearchInv
  OBVIOUS
<1> USE ReachAssumption DEF Init
<1>1. TypeOK
  <2>1. <<n1, 0, FALSE>> \in Node \X Nat \X BOOLEAN /\ edges \subseteq Edge
    OBVIOUS
  <2>2. queue \in Seq(Node \X Nat \X BOOLEAN)
    BY <2>1, OneEntry, Zenon
  <2>3. visited \subseteq SearchState /\ todo \subseteq edges
    <3>1. <<n1, FALSE>> \in SearchState
      BY DEF SearchState
    <3> QED
      BY <3>1, Zenon
  <2>4. cur \in Node \X Nat \X BOOLEAN
    BY <2>1
  <2>5. \A k \in DOMAIN queue : queue[k][2] <= Cap
    <3>1. \A k \in DOMAIN queue : queue[k] = <<n1, 0, FALSE>>
      BY <2>1, OneEntry, Zenon
    <3> QED BY <3>1
  <2> QED
    BY <2>1, <2>2, <2>3, <2>4, <2>5, Zenon DEF TypeOK
<1>2. EdgesOfCur
  BY DEF EdgesOfCur
<1>3. Witnessed
  <2>1. cur[1] = n1 /\ cur[3] = FALSE /\ \A k \in DOMAIN queue : queue[k] = cur
    <3>1. cur[1] = n1 /\ cur[3] = FALSE
      OBVIOUS
    <3>2. \A k \in DOMAIN queue : queue[k] = cur
      BY OneEntry, Zenon
    <3> QED
      BY <3>1, <3>2
  <2> QED
    BY <2>1, StartReachable DEF Witnessed
<1>4. YesIsSound
  BY DEF YesIsSound
<1>5. Banded /\ QueueByDepth
  BY DEF Banded, QueueByDepth
<1> QED
  BY <1>1, <1>2, <1>3, <1>4, <1>5 DEF SearchInv, UnderCap

\* Steps that change only the result.
LEMMA AnswerSearchInv ==
    ASSUME SearchInv, UNCHANGED <<edges, n1, n2, requireSync, policy>>,
           UNCHANGED <<queue, visited, cur, todo>>,
           result' \in {"running", "yes", "no"},
           (result' = "yes" /\ n1 # n2) => result = "yes"
    PROVE  SearchInv'
<1>1. TypeOK' /\ EdgesOfCur' /\ Banded' /\ QueueByDepth' /\ UnderCap'
  BY DEF SearchInv, TypeOK, EdgesOfCur, Banded, QueueByDepth, UnderCap
<1>2. Witnessed'
  BY DEF SearchInv, Witnessed, Reachable, Closed
<1>3. YesIsSound'
  BY DEF SearchInv, YesIsSound, Accepted, Reachable, Closed
<1> QED
  BY <1>1, <1>2, <1>3 DEF SearchInv

\* Popping: the head is the least deep entry, so the band moves with it.
LEMMA PopSearchInv == SearchInv /\ Pop => SearchInv'
<1> SUFFICES ASSUME SearchInv, Pop PROVE SearchInv'
  OBVIOUS
<1> USE DEF Pop, query
<1>1. /\ queue \in Seq(Node \X Nat \X BOOLEAN) /\ queue # <<>>
      /\ cur \in Node \X Nat \X BOOLEAN
      /\ Head(queue) = queue[1] /\ 1 \in DOMAIN queue
      /\ queue[1] \in Node \X Nat \X BOOLEAN
      /\ \A k \in DOMAIN Tail(queue) : k + 1 \in DOMAIN queue /\ Tail(queue)[k] = queue[k + 1]
      /\ Tail(queue) \in Seq(Node \X Nat \X BOOLEAN)
  BY DEF SearchInv, TypeOK
<1>2. TypeOK'
  BY <1>1 DEF SearchInv, TypeOK
<1>3. EdgesOfCur'
  BY <1>1 DEF EdgesOfCur
<1>4. Witnessed'
  <2>1. \A s : (Reachable(s))' = Reachable(s)
    BY DEF Reachable, Closed
  <2> QED
    BY <1>1, <2>1 DEF SearchInv, Witnessed
<1>5. YesIsSound'
  BY DEF SearchInv, YesIsSound, Accepted, Reachable, Closed
<1>6. Banded' /\ QueueByDepth'
  <2>1. \A k \in DOMAIN queue : queue[k][2] \in Nat
    BY <1>1
  <2>2. Banded'
    BY <1>1, <2>1 DEF SearchInv, Banded, QueueByDepth
  <2>3. QueueByDepth'
    BY <1>1 DEF SearchInv, QueueByDepth
  <2> QED
    BY <2>2, <2>3
<1>7. UnderCap'
  BY <1>1, ReachAssumption DEF UnderCap
<1> QED
  BY <1>2, <1>3, <1>4, <1>5, <1>6, <1>7 DEF SearchInv

\* Looking at an edge: what it leads to is reachable, and is queued one edge
\* deeper than the popped entry, behind everything else.
LEMMA EdgeSearchInv == SearchInv /\ TakeEdge => SearchInv'
<1> SUFFICES ASSUME SearchInv, TakeEdge PROVE SearchInv'
  OBVIOUS
<1> DEFINE next(e) == After(cur[3], e, policy)
           entry(e) == <<next(e)[1], cur[2] + 1, next(e)[2]>>
<1>1. PICK e \in todo :
         /\ todo' = todo \ {e}
         /\ IF next(e)[1] = n2 /\ (requireSync => next(e)[2])
            THEN result' = "yes" /\ UNCHANGED <<queue, visited>>
            ELSE /\ visited' = visited \cup {next(e)}
                 /\ queue' = (IF next(e) \in visited THEN queue ELSE Append(queue, entry(e)))
                 /\ UNCHANGED result
  BY DEF TakeEdge
<1>2. UNCHANGED <<edges, n1, n2, requireSync, policy, cur>>
  BY DEF TakeEdge, query
<1>3. /\ e \in edges /\ e \in Edge /\ e.src = cur[1]
      /\ queue \in Seq(Node \X Nat \X BOOLEAN)
      /\ cur \in Node \X Nat \X BOOLEAN
  BY DEF SearchInv, TypeOK, EdgesOfCur
<1>4. /\ next(e) \in SearchState /\ next(e) = <<next(e)[1], next(e)[2]>>
      /\ Reachable(next(e))
      /\ entry(e) \in Node \X Nat \X BOOLEAN
  <2>1. next(e) \in SearchState /\ next(e) = <<next(e)[1], next(e)[2]>>
    BY <1>3, AfterType
  <2>2. Reachable(next(e))
    BY <1>3, ReachableStep DEF SearchInv, Witnessed
  <2> QED
    BY <1>3, <2>1, <2>2 DEF SearchState
<1> HIDE DEF next
<1>5. \A s : (Reachable(s))' = Reachable(s)
  BY <1>2 DEF Reachable, Closed
<1>6. queue' = queue \/ queue' = Append(queue, entry(e))
  BY <1>1
<1>7. TypeOK'
  <2>1. queue' \in Seq(Node \X Nat \X BOOLEAN)
    <3>1. /\ queue \in Seq(Node \X Nat \X BOOLEAN)
          /\ entry(e) \in Node \X Nat \X BOOLEAN
      BY <1>3, <1>4
    <3> HIDE DEF entry
    <3>2. Append(queue, entry(e)) \in Seq(Node \X Nat \X BOOLEAN)
      BY <3>1, OneMore, Zenon
    <3> QED
      BY <1>6, <3>1, <3>2
  <2>2. visited' \subseteq SearchState
    BY <1>1, <1>4 DEF SearchInv, TypeOK
  <2>3. todo' \subseteq edges /\ result' \in {"running", "yes", "no"}
    BY <1>1 DEF SearchInv, TypeOK
  <2>4. \A k \in DOMAIN queue' : queue'[k][2] <= Cap
    <3>1. CASE queue' = queue
      BY <3>1 DEF SearchInv, TypeOK
    <3>2. CASE queue' = Append(queue, entry(e))
      <4>1. /\ DOMAIN queue' = 1 .. Len(queue) + 1 /\ DOMAIN queue = 1 .. Len(queue)
            /\ \A k \in 1 .. Len(queue) : queue'[k] = queue[k]
            /\ queue'[Len(queue) + 1] = entry(e) /\ Len(queue) \in Nat
        BY <1>3, <1>4, <3>2
      <4>2. entry(e)[2] = cur[2] + 1 /\ cur[2] \in Nat /\ cur[2] < Cap
        BY <1>3 DEF SearchInv, UnderCap
      <4>3. entry(e)[2] <= Cap
        BY <4>2, ReachAssumption
      <4>4. \A k \in 1 .. Len(queue) : queue[k][2] <= Cap
        BY <4>1 DEF SearchInv, TypeOK
      <4> HIDE DEF entry
      <4>5. \A k \in 1 .. Len(queue) + 1 : k \in 1 .. Len(queue) \/ k = Len(queue) + 1
        BY <4>1
      <4> QED
        BY <4>1, <4>3, <4>4, <4>5
    <3> QED
      BY <1>6, <3>1, <3>2
  <2> QED
    BY <1>2, <2>1, <2>2, <2>3, <2>4 DEF SearchInv, TypeOK
<1>8. EdgesOfCur'
  BY <1>1, <1>2 DEF SearchInv, EdgesOfCur
<1>9. Witnessed'
  <2>1. CASE queue' = queue
    BY <1>2, <1>5, <2>1 DEF SearchInv, Witnessed
  <2>2. CASE queue' = Append(queue, entry(e))
    <3>1. <<entry(e)[1], entry(e)[3]>> = next(e)
      BY <1>4
    <3>2. /\ DOMAIN queue' = 1 .. Len(queue) + 1 /\ DOMAIN queue = 1 .. Len(queue)
          /\ \A k \in 1 .. Len(queue) : queue'[k] = queue[k]
          /\ queue'[Len(queue) + 1] = entry(e) /\ Len(queue) \in Nat
      BY <1>3, <1>4, <2>2
    <3> HIDE DEF entry
    <3> QED
      BY <1>2, <1>4, <1>5, <3>1, <3>2 DEF SearchInv, Witnessed
  <2> QED
    BY <1>6, <2>1, <2>2
<1>10. YesIsSound'
  <2>1. CASE next(e)[1] = n2 /\ (requireSync => next(e)[2])
    BY <1>2, <1>4, <1>5, <2>1 DEF YesIsSound, Accepted
  <2>2. CASE ~(next(e)[1] = n2 /\ (requireSync => next(e)[2]))
    BY <1>1, <1>2, <1>5, <2>2 DEF SearchInv, YesIsSound, Accepted
  <2> QED
    BY <2>1, <2>2
<1>11. Banded' /\ QueueByDepth'
  <2>1. CASE queue' = queue
    BY <1>2, <2>1 DEF SearchInv, Banded, QueueByDepth
  <2>2. CASE queue' = Append(queue, entry(e))
    <3>1. /\ DOMAIN queue' = 1 .. Len(queue) + 1 /\ DOMAIN queue = 1 .. Len(queue)
          /\ Len(queue) \in Nat /\ cur[2] \in Nat
          /\ \A k \in 1 .. Len(queue) : queue'[k] = queue[k] /\ queue[k][2] \in Nat
          /\ queue'[Len(queue) + 1][2] = cur[2] + 1
      BY <1>3, <1>4, <2>2
    <3>2. Banded'
      BY <1>2, <3>1 DEF SearchInv, Banded
    <3>3. QueueByDepth'
      BY <3>1 DEF SearchInv, Banded, QueueByDepth
    <3> QED
      BY <3>2, <3>3
  <2> QED
    BY <1>6, <2>1, <2>2
<1>12. UnderCap'
  BY <1>1, <1>2 DEF SearchInv, UnderCap
<1> QED
  BY <1>7, <1>8, <1>9, <1>10, <1>11, <1>12 DEF SearchInv

\* Every step of the search preserves the invariant.
LEMMA NextSearchInv == SearchInv /\ [Next]_vars => SearchInv'
<1> SUFFICES ASSUME SearchInv, [Next]_vars PROVE SearchInv'
  OBVIOUS
<1>1. CASE SameNode
  BY <1>1, AnswerSearchInv DEF SameNode, query
<1>2. CASE Pop
  BY <1>2, PopSearchInv
<1>3. CASE TakeEdge
  BY <1>3, EdgeSearchInv
<1>4. CASE Exhausted
  BY <1>4, AnswerSearchInv DEF Exhausted, query
<1>5. CASE UNCHANGED vars
  BY <1>5, AnswerSearchInv DEF vars, SearchInv, TypeOK
<1> QED
  BY <1>1, <1>2, <1>3, <1>4, <1>5 DEF Next

\* The invariant holds throughout a call of hbReachable.
THEOREM SearchInvariant == Spec => []SearchInv
BY InitSearchInv, NextSearchInv, PTL DEF Spec

\* hbReachable keeps the types of its state.
THEOREM SearchTypeOK == Spec => []TypeOK
<1>1. SearchInv => TypeOK
  BY DEF SearchInv
<1> QED
  BY <1>1, SearchInvariant, PTL

\* hbReachable never orders two nodes without a path, across a synchronization
\* edge of the policy when one is required, on any graph and under any cap.
THEOREM SearchSound == Spec => []YesIsSound
<1>1. SearchInv => YesIsSound
  BY DEF SearchInv
<1> QED
  BY <1>1, SearchInvariant, PTL

\* The queue of hbReachable is ordered by depth.
THEOREM SearchByDepth == Spec => []QueueByDepth
<1>1. SearchInv => QueueByDepth
  BY DEF SearchInv
<1> QED
  BY <1>1, SearchInvariant, PTL
-----------------------------------------------------------------------------
(* Natural numbers: the least element, induction and recursion over sets.  *)

\* A set of natural numbers has a least element.
LEMMA Smallest ==
  ASSUME NEW T, T \subseteq Nat, T # {}
  PROVE  \E x \in T : \A y \in T : x <= y
<1>1. IsWellFoundedOn(OpToRel(<, Nat), Nat)
  BY NatLessThanWellFounded
<1>2. PICK x \in T : \A y \in T : ~ (<<y, x>> \in OpToRel(<, Nat))
  BY <1>1, WFMin
<1>3. \A y \in T : ~(y < x)
  BY <1>2 DEF OpToRel
<1> QED BY <1>3

\* A set with 0 and the successors of its members is all of Nat.
LEMMA Induction ==
  ASSUME NEW T, 0 \in T, \A n \in Nat : n \in T => n + 1 \in T
  PROVE  \A n \in Nat : n \in T
<1> SUFFICES ASSUME Nat \ T # {} PROVE FALSE
  OBVIOUS
<1>1. PICK x \in Nat \ T : \A y \in Nat \ T : x <= y
  BY Smallest
<1>2. x # 0 /\ x - 1 \in Nat
  BY <1>1
<1>3. x - 1 \in T
  BY <1>1, <1>2
<1> QED BY <1>1, <1>2, <1>3

\* A function is given by its value at 0 and the step from each value.
LEMMA Recursion ==
  ASSUME NEW S, NEW b \in S, NEW g \in [S -> S]
  PROVE  \E f \in [Nat -> S] : f[0] = b /\ \A n \in Nat : f[n + 1] = g[f[n]]
<1> DEFINE Approx(n, h) == /\ h \in [0 .. n -> S] /\ h[0] = b
                           /\ \A i \in 0 .. n - 1 : h[i + 1] = g[h[i]]
           T == {n \in Nat : \E h : Approx(n, h)}
           f == [n \in Nat |-> (CHOOSE h : Approx(n, h))[n]]
<1>1. 0 \in T
  <2>1. Approx(0, [k \in 0 .. 0 |-> b])
    OBVIOUS
  <2> QED BY <2>1
<1>2. ASSUME NEW n \in Nat, n \in T PROVE n + 1 \in T
  <2>1. PICK h : Approx(n, h)
    BY <1>2
  <2> DEFINE e == [k \in 0 .. n + 1 |-> IF k = n + 1 THEN g[h[n]] ELSE h[k]]
  <2>2. Approx(n + 1, e)
    <3>1. h[n] \in S /\ g[h[n]] \in S
      BY <2>1
    <3>2. e \in [0 .. n + 1 -> S]
      BY <2>1, <3>1
    <3>3. ASSUME NEW k \in 0 .. (n + 1) - 1 PROVE e[k + 1] = g[e[k]]
      BY <2>1
    <3> QED BY <2>1, <3>2, <3>3
  <2> HIDE DEF e
  <2> QED BY <2>2
<1>3. \A n \in Nat : \E h : Approx(n, h)
  <2> HIDE DEF Approx
  <2>1. \A n \in Nat : n \in T
    BY <1>1, <1>2, Induction
  <2> QED BY <2>1
<1>4. ASSUME NEW n \in Nat, NEW h, NEW m \in Nat, NEW e, Approx(n, h), Approx(m, e), n <= m
      PROVE  h[n] = e[n]
  <2> DEFINE U == {k \in Nat : k <= n => h[k] = e[k]}
  <2>1. 0 \in U
    BY <1>4
  <2>2. ASSUME NEW k \in Nat, k \in U PROVE k + 1 \in U
    BY <1>4, <2>2
  <2>3. \A k \in Nat : k \in U
    <3> HIDE DEF U
    <3> QED BY <2>1, <2>2, Induction
  <2> QED BY <2>3
<1>5. ASSUME NEW n \in Nat PROVE Approx(n, CHOOSE h : Approx(n, h))
  <2> HIDE DEF Approx
  <2> QED BY <1>3
<1> DEFINE c(n) == CHOOSE h : Approx(n, h)
<1>6. \A n \in Nat : Approx(n, c(n)) /\ f[n] = c(n)[n]
  BY <1>5
<1> HIDE DEF c, f
<1>7. f \in [Nat -> S]
  <2>1. \A n \in Nat : f[n] \in S
    BY <1>6
  <2>2. f = [n \in Nat |-> f[n]]
    BY DEF f
  <2> QED BY <2>1, <2>2
<1>8. f[0] = b
  BY <1>6
<1>9. ASSUME NEW n \in Nat PROVE f[n + 1] = g[f[n]]
  <2>1. Approx(n + 1, c(n + 1)) /\ Approx(n, c(n)) /\ f[n] = c(n)[n] /\ f[n + 1] = c(n + 1)[n + 1]
    BY <1>6
  <2>2. c(n)[n] = c(n + 1)[n]
    <3> HIDE DEF Approx
    <3> QED BY <2>1, <1>4
  <2> QED BY <2>1, <2>2
<1> QED BY <1>7, <1>8, <1>9

-----------------------------------------------------------------------------
(* Distances.                                                              *)

\* The states one edge from those in X.
Further(X) ==
    UNION {{After(s[2], e, policy) : e \in {f \in edges : f.src = s[1]}} : s \in X}

\* Within is what its recursive definition says.
LEMMA WithinDef ==
    ASSUME edges \subseteq Edge, n1 \in Node
    PROVE  /\ Within \in [Nat -> SUBSET SearchState]
           /\ Within[0] = {<<n1, FALSE>>}
           /\ \A k \in Nat : Within[k + 1] = Within[k] \cup Further(Within[k])
<1> DEFINE S == SUBSET SearchState
           b == {<<n1, FALSE>>}
           g == [X \in S |-> X \cup Further(X)]
           W(f) == [k \in Nat |-> IF k = 0 THEN {<<n1, FALSE>>}
                                  ELSE f[k-1] \cup Further(f[k-1])]
<1>1. b \in S
  <2>1. <<n1, FALSE>> \in SearchState
    BY DEF SearchState
  <2> QED
    BY <2>1, Zenon
<1>2. g \in [S -> S]
  <2>1. ASSUME NEW X \in S PROVE X \cup Further(X) \in S
    <3>1. ASSUME NEW s \in X, NEW e \in edges
          PROVE  After(s[2], e, policy) \in SearchState
      BY <2>1, AfterType DEF SearchState
    <3> QED
      BY <3>1 DEF Further
  <2> QED
    BY <2>1
<1>3. PICK f \in [Nat -> S] : f[0] = b /\ \A n \in Nat : f[n + 1] = g[f[n]]
  <2> HIDE DEF S, b, g
  <2> QED
    BY <1>1, <1>2, Recursion
<1>4. \A n \in Nat : f[n + 1] = f[n] \cup Further(f[n])
  BY <1>3
<1> HIDE DEF g
<1>5. f = W(f)
  <2>1. ASSUME NEW k \in Nat
        PROVE  f[k] = IF k = 0 THEN {<<n1, FALSE>>} ELSE f[k-1] \cup Further(f[k-1])
    <3>1. CASE k = 0
      BY <1>3, <3>1
    <3>2. CASE k # 0
      <4>1. k - 1 \in Nat /\ (k - 1) + 1 = k
        BY <3>2
      <4> QED
        BY <1>4, <3>2, <4>1
    <3> QED
      BY <3>1, <3>2
  <2> QED
    BY <1>3, <2>1
<1>6. Within = CHOOSE h : h = W(h)
  BY DEF Within, Further
<1>7. Within = W(Within)
  <2> HIDE DEF W
  <2> QED
    BY <1>5, <1>6
<1>8. /\ Within[0] = {<<n1, FALSE>>}
      /\ \A k \in Nat : Within[k + 1] = Within[k] \cup Further(Within[k])
  <2>1. Within[0] = {<<n1, FALSE>>}
    BY <1>7
  <2>2. ASSUME NEW k \in Nat
        PROVE  Within[k + 1] = Within[k] \cup Further(Within[k])
    <3>1. k + 1 \in Nat /\ k + 1 # 0 /\ (k + 1) - 1 = k
      OBVIOUS
    <3> QED
      BY <1>7, <3>1
  <2> QED
    BY <2>1, <2>2
<1>9. \A k \in Nat : Within[k] \in S
  <2> DEFINE T == {k \in Nat : Within[k] \in S}
  <2>1. 0 \in T
    BY <1>1, <1>8
  <2>2. ASSUME NEW k \in Nat, k \in T PROVE k + 1 \in T
    <3>1. g[Within[k]] \in S /\ g[Within[k]] = Within[k + 1]
      BY <1>2, <1>8, <2>2 DEF g
    <3> QED
      BY <3>1
  <2>3. \A k \in Nat : k \in T
    <3> HIDE DEF T
    <3> QED
      BY <2>1, <2>2, Induction
  <2> QED
    BY <2>3
<1>10. Within \in [Nat -> S]
  <2>1. Within = [k \in Nat |-> Within[k]]
    BY <1>7
  <2> QED
    BY <1>9, <2>1
<1> QED
  BY <1>8, <1>10

\* What is within a distance is within every greater one.
LEMMA WithinMonotone ==
    ASSUME edges \subseteq Edge, n1 \in Node, NEW j \in Nat, NEW k \in Nat, j <= k
    PROVE  Within[j] \subseteq Within[k]
<1> DEFINE T == {d \in Nat : Within[j] \subseteq Within[j + d]}
<1>1. 0 \in T
  OBVIOUS
<1>2. ASSUME NEW d \in Nat, d \in T PROVE d + 1 \in T
  <2>1. Within[(j + d) + 1] = Within[j + d] \cup Further(Within[j + d])
    <3>1. j + d \in Nat
      OBVIOUS
    <3> QED
      BY <3>1, WithinDef
  <2>2. (j + d) + 1 = j + (d + 1)
    OBVIOUS
  <2> QED
    BY <1>2, <2>1, <2>2
<1>3. \A d \in Nat : d \in T
  <2> HIDE DEF T
  <2> QED
    BY <1>1, <1>2, Induction
<1>4. k - j \in Nat /\ j + (k - j) = k
  OBVIOUS
<1> QED
  BY <1>3, <1>4

\* An edge leads at most one further.
LEMMA WithinStep ==
    ASSUME edges \subseteq Edge, n1 \in Node, NEW k \in Nat,
           NEW s \in Within[k], NEW e \in edges, e.src = s[1]
    PROVE  After(s[2], e, policy) \in Within[k + 1]
<1>1. After(s[2], e, policy) \in Further(Within[k])
  BY DEF Further
<1> QED
  BY <1>1, WithinDef
-----------------------------------------------------------------------------
(* The invariant that makes the answer exact.                              *)

\* d is the distance of state s from the start.
Distance(s, d) == s \in Within[d] /\ \A j \in 0 .. d - 1 : s \notin Within[j]

StateOf(x) == <<x[1], x[3]>>

\* Entries carry their distance, which the cap bounds, and have been seen.
ExactDepth ==
    /\ Distance(StateOf(cur), cur[2]) /\ cur[2] <= Cap
    /\ StateOf(cur) \in visited
    /\ \A k \in DOMAIN queue :
          /\ Distance(StateOf(queue[k]), queue[k][2]) /\ queue[k][2] <= Cap
          /\ StateOf(queue[k]) \in visited

\* The states as near as the popped one have all been seen.
Layer == Within[cur[2]] \subseteq visited

\* A state whose edges were all looked at, or never will be.
Settled(s) ==
    \/ \A e \in edges : e.src = s[1] => After(s[2], e, policy) \in visited
    \/ \A j \in 0 .. Cap - 1 : s \notin Within[j]

Waiting(s) == \E k \in DOMAIN queue : StateOf(queue[k]) = s

\* A seen state is settled, waits, or is the popped one with edges left.
Progress ==
    \A s \in visited :
        \/ Settled(s) \/ Waiting(s)
        \/ /\ s = StateOf(cur)
           /\ \A e \in edges \ todo : e.src = s[1] => After(s[2], e, policy) \in visited

CoverInv ==
    /\ SearchInv
    /\ AnswerExact
    /\ n1 # n2 /\ result = "running" =>
          /\ ExactDepth /\ Layer /\ UnderCap /\ Progress
          /\ \A s \in visited : ~Accepted(s)

\* The distances are those of the graph and the query, which do not change.
LEMMA SameDistances ==
    ASSUME UNCHANGED query
    PROVE  /\ Within' = Within
           /\ \A s, d : Distance(s, d)' = Distance(s, d)
           /\ \A s : Accepted(s)' = Accepted(s)
<1>1. Within' = Within
  BY DEF query, Within
<1>2. \A s, d : Distance(s, d)' = Distance(s, d)
  BY <1>1 DEF Distance
<1>3. \A s : Accepted(s)' = Accepted(s)
  BY DEF query, Accepted
<1> QED
  BY <1>1, <1>2, <1>3

\* The start is at distance 0.
LEMMA InitCover == Init => CoverInv
<1> SUFFICES ASSUME Init PROVE CoverInv
  OBVIOUS
<1>1. SearchInv
  BY InitSearchInv
<1>2. /\ n1 \in Node /\ edges \subseteq Edge /\ Cap \in Nat
      /\ visited = {<<n1, FALSE>>} /\ cur = <<n1, 0, FALSE>> /\ todo = {}
      /\ queue = <<cur>> /\ result = "running"
  BY ReachAssumption DEF Init
<1>3. Within[0] = {<<n1, FALSE>>}
  BY <1>2, WithinDef
<1>4. /\ StateOf(cur) = <<n1, FALSE>> /\ cur[2] = 0
      /\ 1 \in DOMAIN queue /\ \A k \in DOMAIN queue : queue[k] = cur
  <2>1. StateOf(cur) = <<n1, FALSE>> /\ cur[2] = 0
    BY <1>2 DEF StateOf
  <2>2. 1 \in DOMAIN queue
    BY <1>2
  <2>3. \A k \in DOMAIN queue : queue[k] = cur
    BY <1>2, OneEntry, Zenon
  <2> QED
    BY <2>1, <2>2, <2>3
<1>5. ExactDepth
  <2>1. Distance(StateOf(cur), cur[2])
    <3>1. \A j \in 0 .. 0 - 1 : FALSE
      OBVIOUS
    <3>2. <<n1, FALSE>> \in Within[0]
      BY <1>3
    <3> QED
      <4>1. Distance(<<n1, FALSE>>, 0)
        BY <3>1, <3>2 DEF Distance
      <4>2. StateOf(cur) = <<n1, FALSE>> /\ cur[2] = 0
        BY <1>4
      <4> HIDE DEF Distance
      <4> QED
        BY <4>1, <4>2, Zenon
  <2>2. StateOf(cur) \in visited /\ cur[2] <= Cap
    <3>1. StateOf(cur) \in visited
      BY <1>2, <1>4, Zenon
    <3>2. cur[2] <= Cap
      BY <1>2, <1>4
    <3> QED
      BY <3>1, <3>2
  <2>3. \A k \in DOMAIN queue : /\ Distance(StateOf(queue[k]), queue[k][2])
                                /\ queue[k][2] <= Cap /\ StateOf(queue[k]) \in visited
    <3> HIDE DEF Distance
    <3> QED
      BY <1>4, <2>1, <2>2
  <2> HIDE DEF Distance
  <2> QED
    BY <2>1, <2>2, <2>3 DEF ExactDepth
<1>6. Layer /\ UnderCap
  BY <1>2, <1>3, <1>4 DEF Layer, UnderCap
<1>7. Progress
  BY <1>2, <1>4 DEF Progress, Waiting
<1>8. AnswerExact /\ (n1 # n2 => \A s \in visited : ~Accepted(s))
  BY <1>2 DEF AnswerExact, Accepted
<1> QED
  BY <1>1, <1>5, <1>6, <1>7, <1>8 DEF CoverInv

\* What the proofs of the steps start from.
LEMMA CoverFacts ==
    ASSUME CoverInv, Searching
    PROVE  /\ ExactDepth /\ Layer /\ UnderCap /\ Progress
           /\ \A s \in visited : ~Accepted(s)
           /\ SearchInv /\ edges \subseteq Edge /\ n1 \in Node /\ Cap \in Nat
           /\ cur \in Node \X Nat \X BOOLEAN /\ cur[2] \in Nat
           /\ queue \in Seq(Node \X Nat \X BOOLEAN)
           /\ \A k \in DOMAIN queue : queue[k][2] \in Nat
BY ReachAssumption DEF CoverInv, SearchInv, TypeOK, Searching

\* When the first entry at the next distance is popped, all nearer states are
\* settled, so everything at that distance has been seen.
LEMMA PopCover == ASSUME CoverInv, Pop PROVE CoverInv'
<1>1. Searching /\ todo = {} /\ queue # <<>> /\ UNCHANGED <<query, visited, result>>
      /\ cur' = Head(queue) /\ queue' = Tail(queue)
      /\ todo' = IF Head(queue)[2] >= Cap THEN {} ELSE {e \in edges : e.src = Head(queue)[1]}
  BY DEF Pop
<1>2. /\ ExactDepth /\ Layer /\ UnderCap /\ Progress
      /\ \A s \in visited : ~Accepted(s)
      /\ SearchInv /\ edges \subseteq Edge /\ n1 \in Node /\ Cap \in Nat
      /\ cur \in Node \X Nat \X BOOLEAN /\ cur[2] \in Nat
      /\ queue \in Seq(Node \X Nat \X BOOLEAN)
      /\ \A k \in DOMAIN queue : queue[k][2] \in Nat
  BY <1>1, CoverFacts
<1>3. /\ cur' = queue[1] /\ 1 \in DOMAIN queue
      /\ \A k \in DOMAIN queue' : k + 1 \in DOMAIN queue /\ queue'[k] = queue[k + 1]
      /\ \A k \in DOMAIN queue \ {1} : k - 1 \in DOMAIN queue' /\ queue'[k - 1] = queue[k]
  <2>1. queue \in Seq(Node \X Nat \X BOOLEAN) /\ queue # <<>>
    BY <1>1, <1>2
  <2>2. /\ Head(queue) = queue[1] /\ Len(queue) \in Nat \ {0}
        /\ DOMAIN queue = 1 .. Len(queue) /\ DOMAIN Tail(queue) = 1 .. Len(queue) - 1
        /\ \A k \in 1 .. Len(queue) - 1 : Tail(queue)[k] = queue[k + 1]
    BY <2>1, OneLess
  <2>3. cur' = queue[1] /\ queue' = Tail(queue)
    BY <1>1, <2>2
  <2>4. 1 \in DOMAIN queue
    BY <2>2
  <2>5. \A k \in DOMAIN Tail(queue) : k + 1 \in DOMAIN queue /\ Tail(queue)[k] = queue[k + 1]
    BY <2>2
  <2>6. ASSUME NEW k \in DOMAIN queue \ {1}
        PROVE  k - 1 \in DOMAIN Tail(queue) /\ Tail(queue)[k - 1] = queue[k]
    <3>1. k - 1 \in 1 .. Len(queue) - 1 /\ (k - 1) + 1 = k
      BY <2>2
    <3> QED BY <2>2, <3>1
  <2> QED
    BY <2>3, <2>4, <2>5, <2>6
<1>4. SearchInv'
  BY <1>2, PopSearchInv
<1>5. /\ Within' = Within /\ \A s, d : Distance(s, d)' = Distance(s, d)
      /\ \A s : Accepted(s)' = Accepted(s)
  BY <1>1, SameDistances
<1>6. UNCHANGED <<edges, n1, n2, policy>>
  BY <1>1 DEF query
<1>7. ExactDepth'
  <2>1. \A x : StateOf(x)' = StateOf(x)
    BY DEF StateOf
  <2>2. \A k \in DOMAIN queue : /\ Distance(StateOf(queue[k]), queue[k][2])
                                /\ queue[k][2] <= Cap /\ StateOf(queue[k]) \in visited
    BY <1>2 DEF ExactDepth
  <2>3. Distance(StateOf(queue[1]), queue[1][2]) /\ queue[1][2] <= Cap /\ StateOf(queue[1]) \in visited
    BY <1>3, <2>2
  <2>4. visited' = visited
    BY <1>1
  <2> HIDE DEF Distance
  <2> QED
    BY <1>3, <1>5, <2>2, <2>3, <2>4 DEF ExactDepth, StateOf
<1>8. Layer'
  <2>1. cur'[2] = cur[2] \/ cur'[2] = cur[2] + 1
    BY <1>2, <1>3 DEF SearchInv, Banded
  <2>2. CASE cur'[2] = cur[2]
    BY <1>1, <1>2, <1>5, <2>2 DEF Layer
  <2>3. CASE cur'[2] = cur[2] + 1
    <3>1. ASSUME NEW s \in Within[cur[2]], NEW e \in edges, e.src = s[1]
          PROVE  After(s[2], e, policy) \in visited
      <4>1. s \in visited
        BY <1>2 DEF Layer
      <4>2. ~Waiting(s)
        <5> SUFFICES ASSUME NEW k \in DOMAIN queue, StateOf(queue[k]) = s PROVE FALSE
          BY DEF Waiting
        <5>1. Distance(s, queue[k][2])
          BY <1>2 DEF ExactDepth
        <5>2. queue[1][2] <= queue[k][2]
          <6>1. k = 1 \/ 1 < k
            BY <1>2
          <6> QED
            BY <1>2, <1>3, <6>1 DEF SearchInv, QueueByDepth
        <5>3. cur[2] \in 0 .. queue[k][2] - 1
          BY <1>2, <1>3, <2>3, <5>2
        <5> QED
          BY <5>1, <5>3 DEF Distance
      <4>3. ~(\A j \in 0 .. Cap - 1 : s \notin Within[j])
        <5>1. queue[1][2] <= Cap
          BY <1>2, <1>3 DEF ExactDepth
        <5>2. cur[2] \in 0 .. Cap - 1
          BY <1>2, <1>3, <2>3, <5>1
        <5> QED
          BY <5>2
      <4>4. edges \ todo = edges
        BY <1>1
      <4> QED
        BY <1>2, <3>1, <4>1, <4>2, <4>3, <4>4 DEF Progress, Settled
    <3>2. Further(Within[cur[2]]) \subseteq visited
      BY <3>1 DEF Further
    <3>3. Within[cur[2] + 1] = Within[cur[2]] \cup Further(Within[cur[2]])
      BY <1>2, WithinDef
    <3> QED
      BY <1>1, <1>2, <1>5, <2>3, <3>2, <3>3 DEF Layer
  <2> QED
    BY <2>1, <2>2, <2>3
<1>9. UnderCap'
  BY <1>1, <1>2, <1>3 DEF UnderCap
<1>10. Progress'
  <2> SUFFICES ASSUME NEW s \in visited
               PROVE  \/ Settled(s)' \/ Waiting(s)'
                      \/ /\ s = StateOf(cur')
                         /\ \A e \in edges \ todo' : e.src = s[1] =>
                              After(s[2], e, policy) \in visited
    BY <1>1, <1>6 DEF Progress, StateOf, After, IsSyncEdge
  <2>1. Settled(s)' = Settled(s)
    BY <1>1, <1>5, <1>6 DEF Settled, After, IsSyncEdge
  <2>2. CASE Settled(s)
    BY <2>1, <2>2
  <2>3. CASE Waiting(s)
    <3>1. PICK k \in DOMAIN queue : StateOf(queue[k]) = s
      BY <2>3 DEF Waiting
    <3>2. CASE k # 1
      <4>1. k - 1 \in DOMAIN queue' /\ queue'[k - 1] = queue[k]
        BY <1>3, <3>2
      <4> QED
        BY <3>1, <4>1 DEF Waiting, StateOf
    <3>3. CASE k = 1 /\ queue[1][2] >= Cap
      <4>1. Distance(s, queue[1][2])
        BY <1>2, <3>1, <3>3 DEF ExactDepth
      <4>2. \A j \in 0 .. Cap - 1 : j \in 0 .. queue[1][2] - 1
        BY <1>2, <1>3, <3>3
      <4> QED
        BY <2>1, <4>1, <4>2 DEF Settled, Distance
    <3>4. CASE k = 1 /\ ~(queue[1][2] >= Cap)
      <4>1. todo' = {e \in edges : e.src = queue[1][1]}
        BY <1>1, <1>3, <3>4
      <4>2. s = StateOf(cur') /\ s[1] = queue[1][1]
        BY <1>3, <3>1, <3>4 DEF StateOf
      <4> QED
        BY <4>1, <4>2
    <3> QED
      BY <3>2, <3>3, <3>4
  <2>4. CASE s = StateOf(cur) /\ \A e \in edges \ todo : e.src = s[1] =>
                                   After(s[2], e, policy) \in visited
    BY <1>1, <2>1, <2>4 DEF Settled
  <2> QED
    BY <1>2, <2>2, <2>3, <2>4 DEF Progress
<1>11. AnswerExact' /\ \A s \in visited' : ~Accepted(s)'
  BY <1>1, <1>2, <1>5 DEF AnswerExact, Searching
<1> QED
  BY <1>4, <1>7, <1>8, <1>9, <1>10, <1>11 DEF CoverInv
\* A new state is one edge further than the popped one: everything as near as
\* that has been seen.
LEMMA EdgeCover == ASSUME CoverInv, TakeEdge PROVE CoverInv'
<1> DEFINE next(e) == After(cur[3], e, policy)
           entry(e) == <<next(e)[1], cur[2] + 1, next(e)[2]>>
<1>1. PICK e \in todo :
         /\ todo' = todo \ {e}
         /\ IF next(e)[1] = n2 /\ (requireSync => next(e)[2])
            THEN result' = "yes" /\ UNCHANGED <<queue, visited>>
            ELSE /\ visited' = visited \cup {next(e)}
                 /\ queue' = (IF next(e) \in visited THEN queue ELSE Append(queue, entry(e)))
                 /\ UNCHANGED result
  BY DEF TakeEdge
<1>2. Searching /\ UNCHANGED query /\ UNCHANGED cur
  BY DEF TakeEdge
<1>3. /\ ExactDepth /\ Layer /\ UnderCap /\ Progress
      /\ \A s \in visited : ~Accepted(s)
      /\ SearchInv /\ edges \subseteq Edge /\ n1 \in Node /\ Cap \in Nat
      /\ cur \in Node \X Nat \X BOOLEAN /\ cur[2] \in Nat
      /\ queue \in Seq(Node \X Nat \X BOOLEAN)
      /\ \A k \in DOMAIN queue : queue[k][2] \in Nat
  BY <1>2, CoverFacts
<1>4. SearchInv'
  BY <1>3, EdgeSearchInv
<1>5. /\ Within' = Within /\ \A s, d : Distance(s, d)' = Distance(s, d)
      /\ \A s : Accepted(s)' = Accepted(s)
  BY <1>2, SameDistances
<1>6. UNCHANGED <<edges, n1, n2, policy, requireSync>>
  BY <1>2 DEF query
<1>7. /\ e \in edges /\ e \in Edge /\ e.src = cur[1] /\ cur[2] < Cap
      /\ StateOf(cur) \in Within[cur[2]] /\ StateOf(cur) = <<cur[1], cur[3]>>
  BY <1>3 DEF SearchInv, TypeOK, EdgesOfCur, UnderCap, ExactDepth, Distance, StateOf
<1>8. /\ next(e) \in SearchState /\ next(e) = <<next(e)[1], next(e)[2]>>
      /\ next(e) \in Within[cur[2] + 1]
  <2>1. next(e) \in SearchState /\ next(e) = <<next(e)[1], next(e)[2]>>
    BY <1>3, <1>7, AfterType
  <2>2. StateOf(cur)[1] = cur[1] /\ StateOf(cur)[2] = cur[3]
    BY <1>7
  <2>3. After(StateOf(cur)[2], e, policy) \in Within[cur[2] + 1]
    BY <1>3, <1>7, <2>2, WithinStep
  <2> QED
    BY <2>1, <2>2, <2>3
<1>9. CASE next(e)[1] = n2 /\ (requireSync => next(e)[2])
  <2>1. Accepted(next(e))
    BY <1>9 DEF Accepted
  <2>2. next(e) \in Within[Cap]
    <3>1. cur[2] + 1 \in Nat /\ cur[2] + 1 <= Cap
      BY <1>3, <1>7
    <3> QED
      BY <1>3, <1>8, <3>1, WithinMonotone
  <2>3. result' = "yes"
    BY <1>1, <1>9
  <2>4. AnswerExact'
    <3> HIDE DEF next
    <3> QED
      BY <1>5, <2>1, <2>2, <2>3 DEF AnswerExact
  <2> QED
    BY <1>4, <2>3, <2>4 DEF CoverInv
<1>10. CASE ~(next(e)[1] = n2 /\ (requireSync => next(e)[2]))
  <2>1. /\ visited' = visited \cup {next(e)} /\ result' = result
        /\ queue' = IF next(e) \in visited THEN queue ELSE Append(queue, entry(e))
    BY <1>1, <1>10
  <2>2. ~Accepted(next(e))
    BY <1>10 DEF Accepted
  <2>3. ASSUME next(e) \notin visited
        PROVE  Distance(next(e), cur[2] + 1)
    <3>1. ASSUME NEW j \in 0 .. (cur[2] + 1) - 1 PROVE next(e) \notin Within[j]
      <4>1. j \in Nat /\ j <= cur[2]
        BY <1>3
      <4> QED
        BY <1>3, <2>3, <4>1, WithinMonotone DEF Layer
    <3> QED
      BY <1>8, <3>1 DEF Distance
  <2>4. /\ StateOf(entry(e)) = next(e) /\ entry(e)[2] = cur[2] + 1
        /\ entry(e) \in Node \X Nat \X BOOLEAN
    BY <1>3, <1>8 DEF StateOf, SearchState
  <2> HIDE DEF next, entry
  <2>5. \/ queue' = queue /\ next(e) \in visited
        \/ /\ next(e) \notin visited /\ Len(queue) \in Nat
           /\ DOMAIN queue' = 1 .. Len(queue) + 1 /\ DOMAIN queue = 1 .. Len(queue)
           /\ \A k \in 1 .. Len(queue) : queue'[k] = queue[k]
           /\ queue'[Len(queue) + 1] = entry(e)
    BY <1>3, <2>1, <2>4, OneMore
  <2>6. ExactDepth'
    <3>1. \A k \in DOMAIN queue : /\ Distance(StateOf(queue[k]), queue[k][2])
                                  /\ queue[k][2] <= Cap /\ StateOf(queue[k]) \in visited
      BY <1>3 DEF ExactDepth
    <3>2. /\ Distance(StateOf(cur), cur[2]) /\ cur[2] <= Cap /\ StateOf(cur) \in visited
      BY <1>3 DEF ExactDepth
    <3>3. cur[2] + 1 <= Cap
      BY <1>3, <1>7
    <3>4. \A k \in DOMAIN queue' : /\ Distance(StateOf(queue'[k]), queue'[k][2])
                                   /\ queue'[k][2] <= Cap /\ StateOf(queue'[k]) \in visited'
      <4> HIDE DEF Distance
      <4>1. CASE queue' = queue /\ next(e) \in visited
        BY <2>1, <3>1, <4>1
      <4>2. CASE /\ next(e) \notin visited /\ Len(queue) \in Nat
                 /\ DOMAIN queue' = 1 .. Len(queue) + 1 /\ DOMAIN queue = 1 .. Len(queue)
                 /\ \A k \in 1 .. Len(queue) : queue'[k] = queue[k]
                 /\ queue'[Len(queue) + 1] = entry(e)
        <5>1. /\ Distance(StateOf(entry(e)), entry(e)[2]) /\ entry(e)[2] <= Cap
              /\ StateOf(entry(e)) \in visited'
          BY <2>1, <2>3, <2>4, <3>3, <4>2
        <5>2. ASSUME NEW k \in 1 .. Len(queue)
              PROVE  /\ Distance(StateOf(queue'[k]), queue'[k][2])
                     /\ queue'[k][2] <= Cap /\ StateOf(queue'[k]) \in visited'
          BY <2>1, <3>1, <4>2
        <5>3. \A k \in DOMAIN queue' : k = Len(queue) + 1 \/ k \in 1 .. Len(queue)
          BY <4>2
        <5> QED
          BY <4>2, <5>1, <5>2, <5>3
      <4> QED
        BY <2>5, <4>1, <4>2
    <3> HIDE DEF Distance
    <3> QED
      BY <1>2, <1>5, <2>1, <3>2, <3>4 DEF ExactDepth, StateOf
  <2>7. Layer' /\ UnderCap'
    BY <1>1, <1>2, <1>3, <1>5, <1>7, <2>1 DEF Layer, UnderCap
  <2>8. Progress'
    <3> SUFFICES ASSUME NEW s \in visited'
                 PROVE  \/ Settled(s)' \/ Waiting(s)'
                        \/ /\ s = StateOf(cur)
                           /\ \A d \in edges \ todo' : d.src = s[1] =>
                                After(s[2], d, policy) \in visited'
      BY <1>2, <1>6 DEF Progress, StateOf, After, IsSyncEdge
    <3>1. Settled(s) => Settled(s)'
      BY <1>5, <1>6, <2>1 DEF Settled, After, IsSyncEdge
    <3>2. Waiting(s) => Waiting(s)'
      BY <2>5 DEF Waiting, StateOf
    <3>3. CASE s = next(e) /\ s \notin visited
      <4>1. Len(queue) + 1 \in DOMAIN queue' /\ queue'[Len(queue) + 1] = entry(e)
        BY <2>5, <3>3
      <4> QED
        BY <2>4, <3>3, <4>1 DEF Waiting, StateOf
    <3>4. CASE s \in visited /\ s = StateOf(cur)
               /\ \A d \in edges \ todo : d.src = s[1] => After(s[2], d, policy) \in visited
      <4>1. s[2] = cur[3]
        BY <3>4 DEF StateOf
      <4>2. After(s[2], e, policy) \in visited'
        BY <2>1, <4>1 DEF next
      <4> QED
        BY <1>1, <2>1, <3>4, <4>2
    <3> QED
      BY <1>3, <2>1, <3>1, <3>2, <3>3, <3>4 DEF Progress
  <2>9. AnswerExact' /\ \A s \in visited' : ~Accepted(s)'
    <3> HIDE DEF Accepted
    <3>1. \A s \in visited' : ~Accepted(s)
      BY <1>3, <2>1, <2>2
    <3>2. result' = "running"
      BY <1>2, <2>1 DEF Searching
    <3> QED
      BY <1>5, <3>1, <3>2 DEF AnswerExact
  <2> QED
    BY <1>4, <2>6, <2>7, <2>8, <2>9 DEF CoverInv
<1> QED
  BY <1>9, <1>10

\* With nothing left every state within the cap has been seen.
LEMMA ExhaustedCover == ASSUME CoverInv, Exhausted PROVE CoverInv'
<1>1. /\ Searching /\ todo = {} /\ queue = <<>> /\ result' = "no"
      /\ UNCHANGED <<query, queue, visited, cur, todo>>
  BY DEF Exhausted
<1>2. /\ ExactDepth /\ Layer /\ UnderCap /\ Progress
      /\ \A s \in visited : ~Accepted(s)
      /\ SearchInv /\ edges \subseteq Edge /\ n1 \in Node /\ Cap \in Nat
      /\ cur \in Node \X Nat \X BOOLEAN /\ cur[2] \in Nat
  BY <1>1, CoverFacts
<1>3. SearchInv'
  BY <1>1, <1>2, AnswerSearchInv DEF query
<1>4. \A s \in visited : Settled(s)
  BY <1>1, <1>2 DEF Progress, Waiting, Settled
<1>5. Within[Cap] \subseteq visited
  <2> DEFINE T == {k \in Nat : k <= Cap => Within[k] \subseteq visited}
  <2>1. 0 \in T
    <3>1. Within[0] \subseteq Within[cur[2]]
      BY <1>2, WithinMonotone
    <3> QED
      BY <1>2, <3>1 DEF Layer
  <2>2. ASSUME NEW k \in Nat, k \in T PROVE k + 1 \in T
    <3> SUFFICES ASSUME k + 1 <= Cap PROVE Within[k + 1] \subseteq visited
      OBVIOUS
    <3>1. Within[k] \subseteq visited /\ k \in 0 .. Cap - 1
      BY <1>2, <2>2
    <3>2. Further(Within[k]) \subseteq visited
      BY <1>4, <3>1 DEF Further, Settled
    <3> QED
      BY <1>2, <3>1, <3>2, WithinDef
  <2>3. \A k \in Nat : k \in T
    <3> HIDE DEF T
    <3> QED
      BY <2>1, <2>2, Induction
  <2> QED
    BY <1>2, <2>3
<1>6. Within' = Within /\ \A s : Accepted(s)' = Accepted(s)
  BY <1>1, SameDistances
<1>7. AnswerExact'
  <2> HIDE DEF Accepted
  <2> QED
    BY <1>1, <1>2, <1>5, <1>6 DEF AnswerExact
<1> QED
  BY <1>1, <1>3, <1>7 DEF CoverInv

\* Every step keeps the answer exact.
LEMMA NextCover == CoverInv /\ [Next]_vars => CoverInv'
<1> SUFFICES ASSUME CoverInv, [Next]_vars PROVE CoverInv'
  OBVIOUS
<1>1. CASE SameNode
  <2>1. SearchInv'
    BY <1>1, NextSearchInv DEF CoverInv, Next
  <2>2. n1' = n2' /\ result' # "running"
    BY <1>1 DEF SameNode, query
  <2> QED
    BY <2>1, <2>2 DEF CoverInv, AnswerExact
<1>2. CASE Pop
  BY <1>2, PopCover
<1>3. CASE TakeEdge
  BY <1>3, EdgeCover
<1>4. CASE Exhausted
  BY <1>4, ExhaustedCover
<1>5. CASE UNCHANGED vars
  <2>1. SearchInv'
    BY <1>5, NextSearchInv DEF CoverInv
  <2>2. UNCHANGED query /\ UNCHANGED <<edges, n1, n2, policy, queue, visited, cur, todo, result>>
    BY <1>5 DEF vars, query
  <2>3. /\ Within' = Within /\ \A s, d : Distance(s, d)' = Distance(s, d)
        /\ \A s : Accepted(s)' = Accepted(s)
    BY <2>2, SameDistances
  <2>4. AnswerExact'
    BY <2>2, <2>3 DEF CoverInv, AnswerExact
  <2>5. \A s : Settled(s)' = Settled(s) /\ Waiting(s)' = Waiting(s) /\ StateOf(s)' = StateOf(s)
    BY <2>2, <2>3 DEF Settled, Waiting, StateOf, After, IsSyncEdge
  <2>6. /\ ExactDepth' = ExactDepth /\ Layer' = Layer /\ UnderCap' = UnderCap
    BY <2>2, <2>3, <2>5 DEF ExactDepth, Layer, UnderCap, StateOf
  <2>7. Progress => Progress'
    BY <2>2, <2>5 DEF Progress, StateOf, After, IsSyncEdge
  <2>8. (\A s \in visited : ~Accepted(s)) => \A s \in visited' : ~Accepted(s)'
    BY <2>2, <2>3
  <2> QED
    BY <2>1, <2>2, <2>4, <2>6, <2>7, <2>8 DEF CoverInv
<1> QED
  BY <1>1, <1>2, <1>3, <1>4, <1>5 DEF Next

\* hbReachable answers yes exactly if a path within the depth cap leads to n2,
\* across a synchronization edge of the policy when one is required: one visit
\* per state and no order among the edges loses a path.
THEOREM SearchExact == Spec => []AnswerExact
<1>1. CoverInv => AnswerExact
  BY DEF CoverInv
<1> QED
  BY <1>1, InitCover, NextCover, PTL DEF Spec

-----------------------------------------------------------------------------
(* The search of a finite graph is finite.  What is left of it, in the     *)
(* order of weight: search states not seen, entries waiting, edges of the  *)
(* popped node, and the answer.                                            *)

FiniteGraphs == IsFiniteSet(Node) /\ \A g \in Graphs : IsFiniteSet(g)

Unseen == Cardinality(SearchState \ visited)
EdgesLeft == Cardinality(todo)
Open == IF result = "running" THEN 1 ELSE 0

Nearer ==
    \/ Unseen' < Unseen
    \/ Unseen' = Unseen /\ Len(queue') < Len(queue)
    \/ Unseen' = Unseen /\ queue' = queue /\ EdgesLeft' < EdgesLeft
    \/ Unseen' = Unseen /\ queue' = queue /\ EdgesLeft' = EdgesLeft /\ Open' < Open

LeftInv == SearchInv /\ IsFiniteSet(edges)

\* There are finitely many search states.
LEMMA StatesFinite == ASSUME FiniteGraphs PROVE IsFiniteSet(SearchState)
<1>1. IsFiniteSet({TRUE}) /\ IsFiniteSet({TRUE} \cup {FALSE})
  BY FS_Singleton, FS_AddElement
<1>2. BOOLEAN = {TRUE} \cup {FALSE}
  OBVIOUS
<1>3. IsFiniteSet(BOOLEAN)
  BY <1>1, <1>2
<1> QED
  BY <1>3, FS_Product DEF FiniteGraphs, SearchState

\* What is left is measured in natural numbers.
LEMMA LeftIsNat ==
    ASSUME FiniteGraphs, LeftInv
    PROVE  /\ Unseen \in Nat /\ Len(queue) \in Nat /\ EdgesLeft \in Nat /\ Open \in Nat
           /\ IsFiniteSet(SearchState \ visited) /\ IsFiniteSet(todo)
<1>1. IsFiniteSet(SearchState \ visited)
  BY StatesFinite, FS_Difference
<1>2. IsFiniteSet(todo)
  BY FS_Subset DEF LeftInv, SearchInv, TypeOK
<1>3. Unseen \in Nat /\ EdgesLeft \in Nat
  BY <1>1, <1>2, FS_CardinalityType DEF Unseen, EdgesLeft
<1>4. Len(queue) \in Nat
  BY DEF LeftInv, SearchInv, TypeOK
<1> QED
  BY <1>1, <1>2, <1>3, <1>4 DEF Open

\* Looking at an edge uses it up or meets a new state.
LEMMA EdgeNearer == ASSUME FiniteGraphs, LeftInv, TakeEdge PROVE Nearer
<1>1. PICK e \in todo :
         /\ todo' = todo \ {e}
         /\ \/ queue' = queue /\ visited' = visited
            \/ queue' = queue /\ visited' = visited \cup {After(cur[3], e, policy)}
                              /\ After(cur[3], e, policy) \in visited
            \/ visited' = visited \cup {After(cur[3], e, policy)}
               /\ After(cur[3], e, policy) \notin visited
  BY DEF TakeEdge
<1>2. EdgesLeft' < EdgesLeft
  <2>1. Cardinality(todo \ {e}) = Cardinality(todo) - 1 /\ Cardinality(todo) \in Nat
    BY LeftIsNat, FS_RemoveElement DEF EdgesLeft
  <2> QED
    BY <1>1, <2>1 DEF EdgesLeft
<1>3. CASE visited' = visited /\ queue' = queue
  BY <1>2, <1>3 DEF Nearer, Unseen
<1>4. CASE visited' = visited \cup {After(cur[3], e, policy)}
           /\ After(cur[3], e, policy) \notin visited
  <2> DEFINE next == After(cur[3], e, policy)
  <2>1. next \in SearchState
    <3>1. e \in Edge /\ cur[3] \in BOOLEAN
      BY DEF LeftInv, SearchInv, TypeOK
    <3> QED
      BY <3>1, AfterType
  <2> HIDE DEF next
  <2>2. /\ SearchState \ visited' = (SearchState \ visited) \ {next}
        /\ next \in SearchState \ visited
    BY <1>4, <2>1 DEF next
  <2>3. Cardinality((SearchState \ visited) \ {next}) = Unseen - 1 /\ Unseen \in Nat
    BY <2>2, LeftIsNat, FS_RemoveElement DEF Unseen
  <2>4. Unseen' < Unseen
    BY <2>2, <2>3 DEF Unseen
  <2> QED
    BY <2>4 DEF Nearer
<1> QED
  BY <1>1, <1>3, <1>4

\* The search of a finite graph ends (HBGraph.cpp:617-661), whatever its
\* cycles and however deep the cap: every step makes four natural numbers
\* smaller in their lexicographic order.  SearchEnds needs only that the
\* thread runs besides.
THEOREM SearchRunsOut ==
    ASSUME FiniteGraphs
    PROVE  Spec => /\ [](/\ Unseen \in Nat /\ Len(queue) \in Nat
                         /\ EdgesLeft \in Nat /\ Open \in Nat)
                   /\ [][Nearer]_vars
<1>1. Init => IsFiniteSet(edges)
  BY DEF Init, FiniteGraphs
<1>2. IsFiniteSet(edges) /\ [Next]_vars => IsFiniteSet(edges)'
  BY DEF Next, SameNode, Pop, TakeEdge, Exhausted, query, vars
<1>3. Spec => []LeftInv
  BY <1>1, <1>2, SearchInvariant, PTL DEF Spec, LeftInv
<1>4. LeftInv => /\ Unseen \in Nat /\ Len(queue) \in Nat
                 /\ EdgesLeft \in Nat /\ Open \in Nat
  BY LeftIsNat
<1>5. LeftInv /\ [Next]_vars => [Nearer]_vars
  <2> SUFFICES ASSUME LeftInv, Next PROVE Nearer
    OBVIOUS
  <2>1. CASE SameNode \/ Exhausted
    <3>1. UNCHANGED <<queue, visited, todo>> /\ result = "running" /\ result' \in {"yes", "no"}
      BY <2>1 DEF SameNode, Exhausted, Searching
    <3>2. Open = 1 /\ Open' = 0
      BY <3>1 DEF Open
    <3>3. Unseen' = Unseen /\ EdgesLeft' = EdgesLeft
      BY <3>1 DEF Unseen, EdgesLeft
    <3> QED
      BY <3>1, <3>2, <3>3 DEF Nearer
  <2>2. CASE Pop
    <3>1. visited' = visited /\ queue' = Tail(queue) /\ queue # <<>>
      BY <2>2 DEF Pop
    <3>2. Len(Tail(queue)) < Len(queue)
      BY <3>1 DEF LeftInv, SearchInv, TypeOK
    <3> QED
      BY <3>1, <3>2 DEF Nearer, Unseen
  <2>3. CASE TakeEdge
    BY <2>3, EdgeNearer
  <2> QED
    BY <2>1, <2>2, <2>3 DEF Next
<1> QED
  BY <1>3, <1>4, <1>5, PTL DEF Spec
=============================================================================
