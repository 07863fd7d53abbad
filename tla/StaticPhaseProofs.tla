--------------------------- MODULE StaticPhaseProofs ---------------------------
(***************************************************************************)
(* Proofs about the static phase, for every program, number of locks and   *)
(* order of the sets: what the lock-set traversal may not lose and may not *)
(* invent; which threads the tree has and which it calls concurrent; and   *)
(* that the phase is finite.                                               *)
(***************************************************************************)
EXTENDS StaticPhase, FiniteSetTheorems, WellFoundedInduction, TLAPS

(* A nonempty set of numbers has a least one, and induction.               *)
LEMMA Smallest ==
  ASSUME NEW S, S \subseteq Nat, S # {}
  PROVE  \E x \in S : \A y \in S : x <= y
<1>1. IsWellFoundedOn(OpToRel(<, Nat), Nat)
  BY NatLessThanWellFounded
<1>2. PICK x \in S : \A y \in S : ~ (<<y, x>> \in OpToRel(<, Nat))
  BY <1>1, WFMin
<1>3. \A y \in S : ~(y < x)
  BY <1>2 DEF OpToRel
<1> QED BY <1>3

LEMMA FunctionIsSeq ==
  ASSUME NEW Q, NEW m \in Nat, NEW s \in [1 .. m -> Q]
  PROVE  s \in Seq(Q)
OBVIOUS

LEMMA Induction ==
  ASSUME NEW S, 0 \in S, \A n \in Nat : n \in S => n + 1 \in S
  PROVE  \A n \in Nat : n \in S
<1> SUFFICES ASSUME Nat \ S # {} PROVE FALSE
  OBVIOUS
<1>1. PICK x \in Nat \ S : \A y \in Nat \ S : x <= y
  BY Smallest
<1>2. x # 0 /\ x - 1 \in Nat /\ (x - 1) + 1 = x
  BY <1>1
<1>3. x - 1 \in S
  BY <1>1, <1>2
<1> QED BY <1>1, <1>2, <1>3

----------------------------------------------------------------------------
(* One lock operation, on a state s of a lock set and the locks' nodes. *)

StateOK(s) ==
  /\ DOMAIN s.held \subseteq Addr
  /\ s.acq \in [Addr -> Node \cup {None}]
  /\ s.rel \in [Addr -> Node \cup {None}]

(* held has a lock acquired on the operand x *)
HasIn(held, ac, x) == \E a \in DOMAIN held : ac[a] # None /\ prog.operand[ac[a]] = x

(* every lock of held has an ACQUIRE node *)
Sited(held, ac) == \A a \in DOMAIN held : ac[a] # None

(* the locks that have an ACQUIRE node keep it *)
Extends(ac1, ac2) == \A a \in Addr : ac1[a] # None => ac2[a] = ac1[a]

(* m is the recorded release of a lock it may unlock, or one that it may   *)
(* unlock has been released elsewhere and is still held.                   *)
RecordedIn(m, held, ac, re) ==
  \E a \in Addr : /\ ac[a] # None
                  /\ LockAlias(ac[a], m)
                  /\ (re[a] = m \/ (re[a] # None /\ a \in DOMAIN held))

(* What m makes of s: acquired locks keep their node and released ones     *)
(* their release and their place in the set, every lock held is an old one *)
(* or m's, a lock on x that m does not release is there, and an unlock of  *)
(* a lock on x is recorded.                                                *)
Effect(s, m, t) ==
  /\ StateOK(t)
  /\ Extends(s.acq, t.acq)
  /\ Extends(s.rel, t.rel)
  /\ \A a \in DOMAIN s.held : s.rel[a] # None => a \in DOMAIN t.held
  /\ \A x : /\ m # None /\ prog.type[m] = "release"
           /\ <<x, prog.operand[m]>> \in prog.alias /\ HasIn(s.held, s.acq, x)
           => RecordedIn(m, t.held, t.acq, t.rel)
  /\ Sited(t.held, t.acq)
  /\ \A a \in DOMAIN t.held :
       \/ a \in DOMAIN s.held /\ t.acq[a] = s.acq[a]
       \/ m # None /\ t.acq[a] = m
  /\ \A x : KeptBy(x, HasIn(s.held, s.acq, x), m) => HasIn(t.held, t.acq, x)

(* That is so whatever the outcome of the operation                        *)
(* (LSAnalysis.cpp:23-70).                                                 *)
LEMMA OneOutcome ==
  ASSUME prog \in Programs, NEW m \in Node \cup {None},
         NEW s, StateOK(s), Sited(s.held, s.acq), NEW t \in Outcomes(s, m)
  PROVE  Effect(s, m, t)
<1>0. prog.operand \in [Node -> Operand]
  BY ProgramAssumption
<1>1. CASE /\ t = s /\ (m # None => prog.type[m] # "acquire")
           /\ m # None /\ prog.type[m] = "release" => Releasable(s, m) = {}
  <2>1. \A x : KeptBy(x, HasIn(s.held, s.acq, x), m) => HasIn(s.held, s.acq, x)
    BY <1>1 DEF KeptBy
  <2>2. ASSUME NEW x, m # None, prog.type[m] = "release",
               <<x, prog.operand[m]>> \in prog.alias, HasIn(s.held, s.acq, x)
        PROVE  RecordedIn(m, t.held, t.acq, t.rel)
    <3>1. PICK a \in DOMAIN s.held : s.acq[a] # None /\ prog.operand[s.acq[a]] = x
      BY <2>2 DEF HasIn
    <3>2. a \in Addr /\ LockAlias(s.acq[a], m)
      BY <2>2, <3>1 DEF StateOK, LockAlias
    <3>3. s.rel[a] # None
      BY <1>1, <2>2, <3>1, <3>2 DEF Releasable
    <3> QED
      BY <1>1, <3>1, <3>2, <3>3 DEF RecordedIn
  <2> QED
    BY <1>1, <2>1, <2>2 DEF Effect, Extends, StateOK, Sited
<1>2. CASE m # None /\ prog.type[m] = "acquire"
  <2>1. m \in Node
    BY <1>2
  <2>2. PICK a \in Addr :
          /\ s.acq[a] = None
          /\ t = [held |-> [b \in DOMAIN s.held \cup {a} |->
                              IF b = a THEN 1 + Max({0} \cup {s.held[c] : c \in DOMAIN s.held})
                              ELSE s.held[b]],
                  acq  |-> [s.acq EXCEPT ![a] = m],
                  rel  |-> s.rel]
    BY <1>2 DEF Outcomes, Acquired
  <2>3. /\ DOMAIN t.held = DOMAIN s.held \cup {a}
        /\ t.acq = [s.acq EXCEPT ![a] = m]
        /\ t.rel = s.rel
    BY <2>2
  <2>4. StateOK(t)
    BY <2>1, <2>3 DEF StateOK
  <2>5. /\ t.acq[a] = m
        /\ \A b \in Addr \ {a} : t.acq[b] = s.acq[b]
    BY <2>3 DEF StateOK
  <2>6. a \notin DOMAIN s.held
    BY <2>2 DEF Sited
  <2>7. \A b \in DOMAIN s.held : b \in Addr \ {a} /\ t.acq[b] = s.acq[b]
    BY <2>5, <2>6 DEF StateOK
  <2>8. Extends(s.acq, t.acq)
    BY <2>2, <2>5 DEF Extends
  <2>9. Sited(t.held, t.acq)
    BY <1>2, <2>3, <2>5, <2>7 DEF Sited
  <2>10. ASSUME NEW x, KeptBy(x, HasIn(s.held, s.acq, x), m)
         PROVE  HasIn(t.held, t.acq, x)
    <3>1. CASE prog.operand[m] = x
      BY <1>2, <2>3, <2>5, <3>1 DEF HasIn
    <3>2. CASE HasIn(s.held, s.acq, x)
      BY <2>3, <2>7, <3>2 DEF HasIn
    <3> QED
      BY <2>10, <3>1, <3>2 DEF KeptBy
  <2> QED
    <3>1. Extends(s.rel, t.rel)
      BY <2>3 DEF Extends
    <3> QED
      BY <1>2, <2>3, <2>4, <2>5, <2>7, <2>8, <2>9, <2>10, <3>1 DEF Effect
<1>3. CASE m # None /\ prog.type[m] = "release" /\ t \in Released(s, m)
  <2>1. m \in Node
    BY <1>3
  <2>2. PICK a \in Releasable(s, m) :
          t = [held |-> [b \in DOMAIN s.held \ {a} |-> s.held[b]],
               acq  |-> s.acq,
               rel  |-> [s.rel EXCEPT ![a] = m]]
    BY <1>3 DEF Released
  <2>3. /\ DOMAIN t.held = DOMAIN s.held \ {a}
        /\ t.acq = s.acq
        /\ t.rel = [s.rel EXCEPT ![a] = m]
    BY <2>2
  <2>4. StateOK(t)
    BY <2>1, <2>3 DEF StateOK
  <2>5. <<prog.operand[s.acq[a]], prog.operand[m]>> \in prog.alias
    BY <2>2 DEF Releasable, LockAlias
  <2>6. ASSUME NEW x, KeptBy(x, HasIn(s.held, s.acq, x), m)
        PROVE  HasIn(t.held, t.acq, x)
    <3>1. HasIn(s.held, s.acq, x) /\ <<x, prog.operand[m]>> \notin prog.alias
      BY <1>3, <2>6 DEF KeptBy
    <3>2. PICK b \in DOMAIN s.held : s.acq[b] # None /\ prog.operand[s.acq[b]] = x
      BY <3>1 DEF HasIn
    <3>3. b # a
      BY <2>5, <3>1, <3>2
    <3> QED
      BY <2>3, <3>2, <3>3 DEF HasIn
  <2>7. /\ a \in DOMAIN s.held /\ a \in Addr /\ s.rel[a] = None
        /\ s.acq[a] # None /\ LockAlias(s.acq[a], m)
    BY <2>2 DEF Releasable, StateOK, Sited
  <2>8. t.rel[a] = m /\ \A b \in Addr \ {a} : t.rel[b] = s.rel[b]
    BY <2>3, <2>7 DEF StateOK
  <2>9. Extends(s.rel, t.rel)
    BY <2>7, <2>8 DEF Extends
  <2>10. \A b \in DOMAIN s.held : s.rel[b] # None => b \in DOMAIN t.held
    BY <2>3, <2>7
  <2>11. RecordedIn(m, t.held, t.acq, t.rel)
    BY <2>3, <2>7, <2>8 DEF RecordedIn
  <2> QED
    BY <2>3, <2>4, <2>6, <2>9, <2>10, <2>11 DEF Effect, Extends, Sited
<1> QED
  BY <1>1, <1>2, <1>3 DEF Outcomes

----------------------------------------------------------------------------
(* TypeOK, with what a Visit needs of it: held locks have a node, and the  *)
(* functions not yet traversed have not been reached, because an entry is  *)
(* nobody's successor.                                                     *)
LockSetInv ==
  /\ TypeOK
  /\ \A n \in Node : Sited(ls[n], acq)
  /\ todo \cap (visited \cup work) = {}

(* What a Visit does, without the detail of the lock operations: acquired  *)
(* and released locks keep their node, the node has held2 afterwards,      *)
(* which has the locks that both of its operations leave, each of its      *)
(* successors has held2, and what it had when it was visited, and what its *)
(* operations unlock is recorded.                                          *)
VisitEffect(n, held2) ==
  /\ acq' \in [Addr -> Node \cup {None}] /\ rel' \in [Addr -> Node \cup {None}]
  /\ DOMAIN held2 \subseteq Addr /\ Sited(held2, acq')
  /\ Extends(acq, acq') /\ Extends(rel, rel')
  /\ \A a \in Held(n) : rel[a] # None => a \in DOMAIN held2
  /\ DOMAIN ls' = Node
  /\ DOMAIN ls'[n] = DOMAIN held2
  /\ \A d \in Node \ ({n} \cup prog.succ[n]) : ls'[d] = ls[d]
  /\ \A d \in prog.succ[n] \ visited' : DOMAIN ls'[d] = DOMAIN held2
  /\ \A d \in (prog.succ[n] \cap visited) \ {n} :
       DOMAIN ls'[d] = DOMAIN ls[d] \cup DOMAIN held2
  /\ \A a \in DOMAIN held2 :
       \/ a \in Held(n) /\ acq'[a] = acq[a]
       \/ acq'[a] = n
       \/ prog.via[n] # None /\ acq'[a] = prog.via[n]
  /\ \A x : KeptBy(x, KeptBy(x, HasIn(ls[n], acq, x), n), prog.via[n])
             => HasIn(held2, acq', x)
  /\ \A x : /\ prog.type[n] = "release"
           /\ <<x, prog.operand[n]>> \in prog.alias /\ HasIn(ls[n], acq, x)
           => RecordedIn(n, held2, acq', rel')
  /\ \A x : /\ prog.via[n] # None /\ prog.type[prog.via[n]] = "release"
           /\ <<x, prog.operand[prog.via[n]]>> \in prog.alias
           /\ KeptBy(x, HasIn(ls[n], acq, x), n)
           => RecordedIn(prog.via[n], held2, acq', rel')

LEMMA ProgramFacts ==
  ASSUME LockSetInv
  PROVE  /\ prog \in Programs
         /\ prog.entry \subseteq Node
         /\ prog.succ \in [Node -> SUBSET Node]
         /\ prog.via \in [Node -> Node \cup {None}]
         /\ \A n \in Node : prog.succ[n] \cap prog.entry = {}
BY ProgramAssumption DEF LockSetInv, TypeOK

LEMMA VisitSound ==
  ASSUME LockSetInv, NEW n \in work, Visit(n)
  PROVE  \E held2 : VisitEffect(n, held2)
<1>1. n \in Node /\ prog \in Programs /\ prog.via[n] \in Node \cup {None} /\ n # None
  BY ProgramFacts, NoneAssumption DEF LockSetInv, TypeOK
<1> DEFINE s0 == [held |-> ls[n], acq |-> acq, rel |-> rel]
<1>2. PICK s1 \in Outcomes(s0, n) :
        \E s2 \in Outcomes(s1, prog.via[n]), early \in SUBSET (prog.succ[n] \ {n}) :
          LET own == IF n \in prog.succ[n] THEN Merged(s2.held, s2.held) ELSE s2.held
              passed(d) == IF d \in early THEN s2.held ELSE own
          IN /\ ls' = [d \in Node |->
                         IF d = n THEN own
                         ELSE IF d \notin prog.succ[n] THEN ls[d]
                         ELSE IF d \notin visited THEN passed(d)
                         ELSE Merged(ls[d], passed(d))]
             /\ acq' = s2.acq
             /\ rel' = s2.rel
  BY DEF Visit
<1>3. PICK s2 \in Outcomes(s1, prog.via[n]), early \in SUBSET (prog.succ[n] \ {n}) :
          LET own == IF n \in prog.succ[n] THEN Merged(s2.held, s2.held) ELSE s2.held
              passed(d) == IF d \in early THEN s2.held ELSE own
          IN /\ ls' = [d \in Node |->
                         IF d = n THEN own
                         ELSE IF d \notin prog.succ[n] THEN ls[d]
                         ELSE IF d \notin visited THEN passed(d)
                         ELSE Merged(ls[d], passed(d))]
             /\ acq' = s2.acq
             /\ rel' = s2.rel
  BY <1>2
<1> DEFINE own == IF n \in prog.succ[n] THEN Merged(s2.held, s2.held) ELSE s2.held
           passed(d) == IF d \in early THEN s2.held ELSE own
<1>a. DOMAIN own = DOMAIN s2.held /\ \A d : DOMAIN passed(d) = DOMAIN s2.held
  BY DEF Merged
<1>b. /\ ls' = [d \in Node |->
                  IF d = n THEN own
                  ELSE IF d \notin prog.succ[n] THEN ls[d]
                  ELSE IF d \notin visited THEN passed(d)
                  ELSE Merged(ls[d], passed(d))]
      /\ acq' = s2.acq
      /\ rel' = s2.rel
  BY <1>3
<1> HIDE DEF own, passed
<1>4. StateOK(s0) /\ Sited(s0.held, s0.acq)
  BY <1>1 DEF LockSetInv, TypeOK, StateOK, Held
<1> HIDE DEF s0
<1>5. Effect(s0, n, s1)
  BY <1>1, <1>4, OneOutcome
<1>6. Effect(s1, prog.via[n], s2)
  BY <1>1, <1>5, OneOutcome DEF Effect
<1>7. Extends(s0.acq, s2.acq)
  BY <1>5, <1>6 DEF Effect, Extends, StateOK
<1>8. \A a \in DOMAIN s2.held :
        \/ a \in DOMAIN s0.held /\ s2.acq[a] = s0.acq[a]
        \/ s2.acq[a] = n
        \/ prog.via[n] # None /\ s2.acq[a] = prog.via[n]
  BY <1>5, <1>6 DEF Effect
<1>9. \A x : KeptBy(x, KeptBy(x, HasIn(s0.held, s0.acq, x), n), prog.via[n])
             => HasIn(s2.held, s2.acq, x)
  BY <1>5, <1>6 DEF Effect, KeptBy
<1>10. s0.held = ls[n] /\ s0.acq = acq /\ s0.rel = rel
  BY DEF s0
<1>11. /\ ls'[n] = own
       /\ DOMAIN ls' = Node
       /\ \A d \in Node \ ({n} \cup prog.succ[n]) : ls'[d] = ls[d]
  BY <1>1, <1>b
<1>12. \A d \in prog.succ[n] \ visited' : ls'[d] = passed(d)
  BY <1>1, <1>b, ProgramFacts DEF Visit
<1>13. \A d \in (prog.succ[n] \cap visited) \ {n} : ls'[d] = Merged(ls[d], passed(d))
  BY <1>1, <1>b, ProgramFacts
<1>14. \A d \in (prog.succ[n] \cap visited) \ {n} :
         DOMAIN ls'[d] = DOMAIN ls[d] \cup DOMAIN s2.held
  <2>1. \A h1, h2 : DOMAIN Merged(h1, h2) = DOMAIN h1 \cup DOMAIN h2
    BY DEF Merged
  <2> TAKE d \in (prog.succ[n] \cap visited) \ {n}
  <2>2. DOMAIN ls'[d] = DOMAIN ls[d] \cup DOMAIN passed(d)
    BY <1>13, <2>1
  <2> QED
    BY <1>a, <2>2
<1>15. Extends(s0.rel, s2.rel)
  BY <1>5, <1>6 DEF Effect, Extends, StateOK
<1>16. \A a \in DOMAIN s0.held : s0.rel[a] # None => a \in DOMAIN s2.held
  BY <1>4, <1>5, <1>6 DEF Effect, Extends, StateOK
<1>17. \A x : /\ prog.type[n] = "release"
             /\ <<x, prog.operand[n]>> \in prog.alias /\ HasIn(s0.held, s0.acq, x)
             => RecordedIn(n, s2.held, s2.acq, s2.rel)
  <2> SUFFICES ASSUME RecordedIn(n, s1.held, s1.acq, s1.rel)
               PROVE  RecordedIn(n, s2.held, s2.acq, s2.rel)
    BY <1>1, <1>5 DEF Effect
  <2>1. PICK a \in Addr : /\ s1.acq[a] # None
                         /\ LockAlias(s1.acq[a], n)
                         /\ (s1.rel[a] = n \/ (s1.rel[a] # None /\ a \in DOMAIN s1.held))
    BY DEF RecordedIn
  <2>2. s1.rel[a] # None
    BY <1>1, <2>1
  <2>3. Extends(s1.acq, s2.acq) /\ Extends(s1.rel, s2.rel)
    BY <1>6 DEF Effect
  <2>4. s2.acq[a] = s1.acq[a] /\ s2.rel[a] = s1.rel[a]
    BY <2>1, <2>2, <2>3 DEF Extends
  <2>5. a \in DOMAIN s1.held => a \in DOMAIN s2.held
    BY <1>6, <2>2 DEF Effect
  <2>6. s2.acq[a] # None /\ LockAlias(s2.acq[a], n)
    BY <2>1, <2>4
  <2>7. \/ s2.rel[a] = n
        \/ (s2.rel[a] # None /\ a \in DOMAIN s2.held)
    BY <2>1, <2>2, <2>4, <2>5
  <2> QED
    BY <2>6, <2>7 DEF RecordedIn
<1>18. \A x : /\ prog.via[n] # None /\ prog.type[prog.via[n]] = "release"
             /\ <<x, prog.operand[prog.via[n]]>> \in prog.alias
             /\ KeptBy(x, HasIn(s0.held, s0.acq, x), n)
             => RecordedIn(prog.via[n], s2.held, s2.acq, s2.rel)
  BY <1>5, <1>6 DEF Effect
<1>19. DOMAIN ls'[n] = DOMAIN s2.held
  BY <1>a, <1>11
<1>20. \A d \in prog.succ[n] \ visited' : DOMAIN ls'[d] = DOMAIN s2.held
  BY <1>a, <1>12
<1>21. s2.acq = acq' /\ s2.rel = rel'
  BY <1>b
<1>22. /\ acq' \in [Addr -> Node \cup {None}] /\ rel' \in [Addr -> Node \cup {None}]
       /\ DOMAIN s2.held \subseteq Addr /\ Sited(s2.held, acq')
  BY <1>6, <1>21 DEF Effect, StateOK
<1>23. VisitEffect(n, s2.held)
  BY <1>7, <1>8, <1>9, <1>10, <1>11, <1>14, <1>15, <1>16, <1>17, <1>18, <1>19, <1>20,
     <1>21, <1>22
     DEF VisitEffect, Held
<1> QED
  BY <1>23

LEMMA InvInit == Init => LockSetInv
BY ProgramAssumption, NoneAssumption
   DEF Init, LockSetInv, TypeOK, Held, Sited, EmptySet

LEMMA InvNext == LockSetInv /\ [Next]_vars => LockSetInv'
<1> SUFFICES ASSUME LockSetInv, [Next]_vars PROVE LockSetInv'
  OBVIOUS
<1>1. ASSUME NEW f \in todo, StartFunction(f) PROVE LockSetInv'
  <2>1. ls' = [ls EXCEPT ![f] = EmptySet] /\ DOMAIN ls = Node /\ f \in Node
    BY <1>1, ProgramFacts DEF StartFunction, LockSetInv, TypeOK
  <2>2. \A n \in Node : DOMAIN ls'[n] \subseteq DOMAIN ls[n]
    BY <2>1 DEF EmptySet
  <2>3. TypeOK'
    BY <1>1, <2>1, <2>2 DEF StartFunction, LockSetInv, TypeOK, Held
  <2>4. (\A n \in Node : Sited(ls[n], acq))'
    BY <1>1, <2>2 DEF StartFunction, LockSetInv, Sited
  <2>5. todo' \cap (visited' \cup work') = {}
    BY <1>1 DEF StartFunction, LockSetInv
  <2> QED
    BY <2>3, <2>4, <2>5 DEF LockSetInv
<1>2. ASSUME NEW n \in work, Visit(n) PROVE LockSetInv'
  <2>1. PICK held2 : VisitEffect(n, held2)
    BY <1>2, VisitSound
  <2>2. n \in Node /\ prog' = prog /\ todo' = todo /\ visited' = visited \cup {n}
    BY <1>2 DEF Visit, LockSetInv, TypeOK
  <2>3. work' = (work \ {n}) \cup (prog.succ[n] \ visited') /\ prog.succ[n] \subseteq Node
    BY <1>2, <2>2, ProgramFacts DEF Visit
  <2>4. \A d \in Node : DOMAIN ls'[d] \subseteq DOMAIN ls[d] \cup DOMAIN held2
    <3> TAKE d \in Node
    <3>1. CASE d = n
      BY <2>1, <3>1 DEF VisitEffect
    <3>2. CASE d # n /\ d \in prog.succ[n]
      BY <2>1, <2>2, <3>2 DEF VisitEffect
    <3>3. CASE d # n /\ d \notin prog.succ[n]
      BY <2>1, <3>3 DEF VisitEffect
    <3> QED
      BY <3>1, <3>2, <3>3
  <2>5. TypeOK'
    BY <2>1, <2>2, <2>3, <2>4 DEF VisitEffect, LockSetInv, TypeOK, Held
  <2>6. (\A d \in Node : Sited(ls[d], acq))'
    BY <2>1, <2>4 DEF VisitEffect, LockSetInv, TypeOK, Held, Sited, Extends
  <2>7. todo \cap prog.succ[n] = {}
    BY <2>2, ProgramFacts DEF LockSetInv, TypeOK
  <2>8. todo' \cap (visited' \cup work') = {}
    BY <1>2, <2>2, <2>3, <2>7 DEF LockSetInv
  <2> QED
    BY <2>5, <2>6, <2>8 DEF LockSetInv
<1>3. CASE UNCHANGED vars
  BY <1>3 DEF vars, LockSetInv, TypeOK, Held, Sited
<1> QED
  BY <1>1, <1>2, <1>3 DEF Next

(* The static phase takes only steps of the lock-set analysis, and leaves  *)
(* its state alone otherwise.                                              *)
LEMMA InPhase == StaticSpec => Init /\ [][Next]_vars
<1>1. StaticInit => Init
  BY DEF StaticInit
<1>2. [StaticNext]_allVars => [Next]_vars
  BY DEF StaticNext, BuildHB, allVars, vars
<1> QED
  BY <1>1, <1>2, PTL DEF StaticSpec

(* The state of the analysis has its type for every program and any number *)
(* of locks (LSAnalysis.cpp:10-92).                                        *)
THEOREM TypeCorrect == StaticSpec => []TypeOK
<1>1. LockSetInv => TypeOK
  BY DEF LockSetInv
<1> QED
  BY InvInit, InvNext, <1>1, InPhase, PTL

----------------------------------------------------------------------------
(* Every entry is waiting, visited or still to be started, and what a      *)
(* visited node leads to has been put in the work list.                    *)
Reaching ==
  /\ prog.entry \subseteq todo \cup work \cup visited
  /\ \A n \in visited : prog.succ[n] \subseteq visited \cup work

(* When build() returns it has visited all that an entry reaches, for      *)
(* every program (LSAnalysis.cpp:21-88).                                   *)
THEOREM NothingForgotten == StaticSpec => []ReachedIsVisited
<1>1. Init => Reaching
  BY DEF Init, Reaching
<1>2. Reaching /\ [Next]_vars => Reaching'
  <2> SUFFICES ASSUME Reaching, [Next]_vars PROVE Reaching'
    OBVIOUS
  <2>1. ASSUME NEW f \in todo, StartFunction(f) PROVE Reaching'
    BY <2>1 DEF StartFunction, Reaching
  <2>2. ASSUME NEW n \in work, Visit(n) PROVE Reaching'
    BY <2>2 DEF Visit, Reaching
  <2>3. CASE UNCHANGED vars
    BY <2>3 DEF vars, Reaching
  <2> QED
    BY <2>1, <2>2, <2>3 DEF Next
<1>3. Reaching => ReachedIsVisited
  BY DEF Reaching, ReachedIsVisited, Done
<1> QED
  BY <1>1, <1>2, <1>3, InPhase, PTL

----------------------------------------------------------------------------
LEMMA HasStays ==
  ASSUME LockSetInv, NEW n \in work, NEW held2, VisitEffect(n, held2), Visit(n),
         NEW d \in Node, d \in visited \/ d \notin prog.succ[n], d # n,
         NEW x, Has(d, x)
  PROVE  Has(d, x)'
<1>1. PICK a \in Held(d) : acq[a] # None /\ prog.operand[acq[a]] = x
  BY DEF Has
<1>2. a \in Addr
  BY DEF LockSetInv, TypeOK
<1>3. acq'[a] = acq[a] /\ prog' = prog
  BY <1>1, <1>2 DEF VisitEffect, Extends, Visit
<1>4. a \in Held(d)'
  BY <1>1 DEF VisitEffect, Held
<1> QED
  BY <1>1, <1>3, <1>4 DEF Has

(* The two parts of NoHeldLockMissed for one operand x, and one set of     *)
(* nodes K at which it is always held.                                     *)
NotMissed(x, K) ==
  AlwaysHeld(x, K) =>
    /\ \A n \in visited : HeldAfter(x, K, n) => Has(n, x)
    /\ \A n \in work : n \in K => Has(n, x)

LEMMA NotMissedNext ==
  ASSUME LockSetInv, [Next]_vars, NEW x, NEW K, NotMissed(x, K)
  PROVE  NotMissed(x, K)'
<1> SUFFICES ASSUME AlwaysHeld(x, K)'
             PROVE  /\ \A n \in visited' : HeldAfter(x, K, n)' => Has(n, x)'
                    /\ \A n \in work' : n \in K => Has(n, x)'
  BY DEF NotMissed
<1>0. prog' = prog
  BY DEF Next, StartFunction, Visit, vars
<1>1. AlwaysHeld(x, K) /\ \A n : HeldAfter(x, K, n)' <=> HeldAfter(x, K, n)
  BY <1>0 DEF AlwaysHeld, HeldAfter, KeptBy
<1>2. /\ \A n \in visited : HeldAfter(x, K, n) => Has(n, x)
      /\ \A n \in work : n \in K => Has(n, x)
  BY <1>1 DEF NotMissed
<1>3. ASSUME NEW f \in todo, StartFunction(f)
      PROVE  /\ \A n \in visited' : HeldAfter(x, K, n)' => Has(n, x)'
             /\ \A n \in work' : n \in K => Has(n, x)'
  <2>1. f \notin visited /\ f \notin K /\ f \in Node
    BY <1>1, ProgramFacts DEF AlwaysHeld, LockSetInv, TypeOK
  <2>2. \A n \in visited : Has(n, x) => Has(n, x)'
    BY <1>0, <1>3, <2>1 DEF StartFunction, LockSetInv, TypeOK, Has, Held
  <2> QED
    BY <1>1, <1>2, <1>3, <2>1, <2>2 DEF StartFunction
<1>4. ASSUME NEW n \in work, Visit(n)
      PROVE  /\ \A d \in visited' : HeldAfter(x, K, d)' => Has(d, x)'
             /\ \A d \in work' : d \in K => Has(d, x)'
  <2>1. PICK held2 : VisitEffect(n, held2)
    BY <1>4, VisitSound
  <2>2. /\ n \in Node /\ visited \subseteq Node /\ work \subseteq Node
        /\ visited' = visited \cup {n}
        /\ work' = (work \ {n}) \cup (prog.succ[n] \ visited')
    BY <1>4 DEF Visit, LockSetInv, TypeOK
  <2>3. HeldAfter(x, K, n) => HasIn(held2, acq', x)
    <3>1. n \in K => HasIn(ls[n], acq, x)
      BY <1>2 DEF Has, HasIn, Held
    <3> QED
      BY <2>1, <3>1 DEF VisitEffect, HeldAfter, KeptBy
  <2>4. \A d : HasIn(held2, acq', x) /\ DOMAIN held2 \subseteq DOMAIN ls'[d] => Has(d, x)'
    BY <1>0 DEF HasIn, Has, Held
  <2>5. ASSUME NEW d \in visited', HeldAfter(x, K, d) PROVE Has(d, x)'
    <3>1. CASE d = n
      BY <2>1, <2>3, <2>4, <2>5, <3>1 DEF VisitEffect
    <3>2. CASE d # n
      BY <1>2, <1>4, <2>1, <2>2, <2>5, <3>2, HasStays
    <3> QED
      BY <3>1, <3>2
  <2>6. ASSUME NEW d \in work', d \in K PROVE Has(d, x)'
    <3>1. CASE d \in prog.succ[n]
      <4>1. HeldAfter(x, K, n)
        BY <1>1, <2>2, <2>6, <3>1 DEF AlwaysHeld
      <4>2. DOMAIN held2 \subseteq DOMAIN ls'[d]
        BY <2>1, <2>2, <3>1 DEF VisitEffect
      <4> QED
        BY <2>3, <2>4, <4>1, <4>2
    <3>2. CASE d \notin prog.succ[n]
      <4>1. d \in work /\ d # n
        BY <2>2, <2>6, <3>2
      <4> QED
        BY <1>2, <1>4, <2>1, <2>2, <2>6, <3>2, <4>1, HasStays
    <3> QED
      BY <3>1, <3>2
  <2> QED
    BY <1>1, <2>5, <2>6
<1>5. CASE UNCHANGED vars
  BY <1>1, <1>2, <1>5 DEF vars, Has, Held
<1> QED
  BY <1>3, <1>4, <1>5 DEF Next

(* A lock held on every path to a node is in the node's lock set, for      *)
(* every program, whatever the order of the visits and the addresses of    *)
(* the locks (LSAnalysis.cpp:10-92).                                       *)
THEOREM HeldLocksFound == StaticSpec => []NoHeldLockMissed
<1> DEFINE Inv == LockSetInv /\ \A x \in Operand : \A K \in SUBSET Node : NotMissed(x, K)
<1>1. Init => Inv
  BY InvInit DEF Init, NotMissed
<1>2. Inv /\ [Next]_vars => Inv'
  BY InvNext, NotMissedNext
<1>3. Inv => NoHeldLockMissed
  BY DEF NoHeldLockMissed, NotMissed
<1> QED
  BY <1>1, <1>2, <1>3, InPhase, PTL

----------------------------------------------------------------------------
(* The unlocks of x, one set of nodes K at which it is always held.        *)
Unlocked(x, K) ==
  AlwaysHeld(x, K) =>
    \A u \in visited : \A m \in {u, prog.via[u]} \ {None} :
      LockedAt(x, K, u, m) => RecordedIn(m, ls[u], acq, rel)

LEMMA UnlockedNext ==
  ASSUME LockSetInv, [Next]_vars, NEW x, NEW K, NotMissed(x, K), Unlocked(x, K)
  PROVE  Unlocked(x, K)'
<1> SUFFICES ASSUME AlwaysHeld(x, K)', NEW u \in visited', NEW m \in {u, prog.via[u]'} \ {None},
                    LockedAt(x, K, u, m)'
             PROVE  RecordedIn(m, ls[u], acq, rel)'
  BY DEF Unlocked
<1>0. prog' = prog
  BY DEF Next, StartFunction, Visit, vars
<1>1. AlwaysHeld(x, K) /\ LockedAt(x, K, u, m) /\ m \in {u, prog.via[u]} \ {None}
  BY <1>0 DEF AlwaysHeld, HeldAfter, KeptBy, LockedAt
<1>2. u \in visited => RecordedIn(m, ls[u], acq, rel)
  BY <1>1 DEF Unlocked
<1>3. ASSUME NEW f \in todo, StartFunction(f) PROVE RecordedIn(m, ls[u], acq, rel)'
  <2>1. u \in visited /\ u # f /\ u \in Node /\ f \in Node
    BY <1>3, ProgramFacts DEF StartFunction, LockSetInv, TypeOK
  <2>2. ls'[u] = ls[u] /\ acq' = acq /\ rel' = rel
    BY <1>3, <2>1 DEF StartFunction, LockSetInv, TypeOK
  <2> QED
    BY <1>0, <1>2, <2>1, <2>2 DEF RecordedIn, LockAlias
<1>4. ASSUME NEW n \in work, Visit(n) PROVE RecordedIn(m, ls[u], acq, rel)'
  <2>1. PICK held2 : VisitEffect(n, held2)
    BY <1>4, VisitSound
  <2>2. n \in Node /\ visited \subseteq Node /\ visited' = visited \cup {n}
    BY <1>4 DEF Visit, LockSetInv, TypeOK
  <2>3. CASE u = n
    <3>1. n \in K => HasIn(ls[n], acq, x)
      BY <1>1 DEF NotMissed, Has, HasIn, Held
    <3>2. RecordedIn(m, held2, acq', rel')
      <4>1. CASE m = n /\ n \in K
        BY <1>1, <2>1, <2>3, <3>1, <4>1 DEF VisitEffect, LockedAt
      <4>2. CASE m = prog.via[n] /\ KeptBy(x, n \in K, n)
        <5>1. KeptBy(x, HasIn(ls[n], acq, x), n)
          BY <3>1, <4>2 DEF KeptBy
        <5>2. m # None /\ prog.type[m] = "release" /\ <<x, prog.operand[m]>> \in prog.alias
          BY <1>1 DEF LockedAt
        <5> QED
          BY <2>1, <4>2, <5>1, <5>2 DEF VisitEffect
      <4> QED
        BY <1>1, <2>3, <4>1, <4>2 DEF LockedAt
    <3>3. DOMAIN ls'[u] = DOMAIN held2
      BY <2>1, <2>3 DEF VisitEffect
    <3> QED
      BY <1>0, <3>2, <3>3 DEF RecordedIn, LockAlias
  <2>4. CASE u # n
    <3>1. u \in visited /\ u \in Node
      BY <2>2, <2>4
    <3>2. PICK a \in Addr : /\ acq[a] # None
                           /\ LockAlias(acq[a], m)
                           /\ (rel[a] = m \/ (rel[a] # None /\ a \in DOMAIN ls[u]))
      BY <1>2, <3>1 DEF RecordedIn
    <3>e. Extends(acq, acq') /\ Extends(rel, rel')
      BY <2>1 DEF VisitEffect
    <3>3. acq'[a] = acq[a] /\ (rel[a] # None => rel'[a] = rel[a])
      BY <3>2, <3>e DEF Extends
    <3>4. DOMAIN ls[u] \subseteq DOMAIN ls'[u]
      BY <2>1, <2>2, <2>4, <3>1 DEF VisitEffect
    <3>5. acq'[a] # None /\ LockAlias(acq[a], m)'
      BY <1>0, <3>2, <3>3 DEF LockAlias
    <3>6. \/ rel'[a] = m
          \/ (rel'[a] # None /\ a \in DOMAIN ls'[u])
      BY <1>1, <3>2, <3>3, <3>4
    <3> QED
      BY <3>2, <3>5, <3>6 DEF RecordedIn
  <2> QED
    BY <2>3, <2>4
<1>5. CASE UNCHANGED vars
  BY <1>2, <1>5 DEF vars, RecordedIn, LockAlias
<1> QED
  BY <1>3, <1>4, <1>5 DEF Next

(* An unlock of what is locked on every path to it is recorded, or a lock  *)
(* it may unlock has its release on another path and stays in the set, for *)
(* every program and order of visits (LSAnalysis.cpp:35-45, 58-68).        *)
THEOREM UnlocksRecorded == StaticSpec => []UnlockRecorded
<1> DEFINE Inv == /\ LockSetInv
                  /\ \A x \in Operand : \A K \in SUBSET Node : NotMissed(x, K) /\ Unlocked(x, K)
<1>1. Init => Inv
  BY InvInit DEF Init, NotMissed, Unlocked
<1>2. Inv /\ [Next]_vars => Inv'
  BY InvNext, NotMissedNext, UnlockedNext
<1>3. Inv => UnlockRecorded
  BY DEF UnlockRecorded, Unlocked, RecordedIn, Held
<1> QED
  BY <1>1, <1>2, <1>3, InPhase, PTL

----------------------------------------------------------------------------
(* The queries: two accesses that always hold locks that may be the same   *)
(* share one for the verifier; a detector, which is given any node of each *)
(* line, is told so when all of them hold the lock or a call site does,    *)
(* for every program and layout of its lines (LSAnalysis.cpp:118-149,      *)
(* 207-268).                                                               *)
THEOREM AlwaysProtected == StaticSpec => []AlwaysProtectedFound
<1> DEFINE Holds(set, x) == \E a \in set : prog.operand[acq[a]] = x
<1>1. ASSUME TypeOK, NoHeldLockMissed, NEW x \in Operand, NEW y \in Operand,
             <<x, y>> \in prog.alias,
             NEW n1 \in SurelyHeld(x), NEW n2 \in SurelyHeld(y)
      PROVE  /\ SameLock(CtxLockSet(n1, {}), CtxLockSet(n2, {}))
             /\ SameLock(LineLockSet(n1, {}), LineLockSet(n2, {}))
             /\ AtLine(n1) \subseteq SurelyHeld(x) /\ AtLine(n2) \subseteq SurelyHeld(y) =>
                  \A k \in FirstNodes(n1, n2) : IsProtectedBySameLock(k, {}, {})
             /\ \A f \in prog.entry :
                  /\ SameLock(CtxLockSet(f, {n1}), CtxLockSet(n2, {}))
                  /\ AtLine(n2) \subseteq SurelyHeld(y) =>
                       \A k \in FirstNodes(f, n2) : IsProtectedBySameLock(k, {n1}, {})
                  /\ \A k \in FirstNodes(f, f) : IsProtectedBySameLock(k, {n1}, {n2})
  <2>1. \A z \in Operand : \A n \in SurelyHeld(z) : Has(n, z)
    BY <1>1 DEF NoHeldLockMissed, SurelyHeld
  <2>2. \A z \in Operand : \A n \in SurelyHeld(z) : Holds(Held(n), z)
    BY <2>1 DEF Has
  <2>3. ASSUME NEW set1, NEW set2, Holds(set1, x), Holds(set2, y)
        PROVE  SameLock(set1, set2)
    BY <1>1, <2>3 DEF SameLock, LockAlias
  <2>4. \A n, sites, m, z : m \in {n} \cup sites /\ Holds(Held(m), z)
                            => Holds(CtxLockSet(n, sites), z)
    BY DEF CtxLockSet
  <2>5. n1 \in AtLine(n1) /\ n2 \in AtLine(n2)
    BY <1>1 DEF TypeOK, AtLine, SurelyHeld
  <2> HIDE DEF Holds
  <2>6. \A n, z : n \in AtLine(n) /\ Holds(CtxLockSet(n, {}), z) => Holds(LineLockSet(n, {}), z)
    <3> SUFFICES ASSUME NEW n, NEW z, n \in AtLine(n), Holds(CtxLockSet(n, {}), z)
                 PROVE  Holds(LineLockSet(n, {}), z)
      OBVIOUS
    <3>1. CtxLockSet(n, {}) \subseteq LineLockSet(n, {})
      BY DEF LineLockSet
    <3> QED
      BY <3>1 DEF Holds
  <2>7. Holds(Held(n1), x) /\ Holds(Held(n2), y)
    BY <2>2
  <2>8. \A l1, l2 : \A k \in FirstNodes(l1, l2) : k[1] \in AtLine(l1) /\ k[2] \in AtLine(l2)
    BY DEF FirstNodes
  <2>9. Holds(CtxLockSet(n1, {}), x) /\ Holds(CtxLockSet(n2, {}), y)
    BY <2>4, <2>7
  <2>10. \A f : Holds(CtxLockSet(f, {n1}), x) /\ Holds(CtxLockSet(f, {n2}), y)
    BY <2>4, <2>7
  <2>11. SameLock(CtxLockSet(n1, {}), CtxLockSet(n2, {}))
    BY <2>3, <2>9
  <2>12. SameLock(LineLockSet(n1, {}), LineLockSet(n2, {}))
    BY <2>3, <2>5, <2>6, <2>9
  <2>13. ASSUME AtLine(n1) \subseteq SurelyHeld(x), AtLine(n2) \subseteq SurelyHeld(y),
                NEW k \in FirstNodes(n1, n2)
         PROVE  IsProtectedBySameLock(k, {}, {})
    <3>1. Holds(Held(k[1]), x) /\ Holds(Held(k[2]), y)
      BY <2>2, <2>8, <2>13
    <3>2. Holds(CtxLockSet(k[1], {}), x) /\ Holds(CtxLockSet(k[2], {}), y)
      BY <2>4, <3>1
    <3> QED
      BY <2>3, <3>2 DEF IsProtectedBySameLock
  <2>14. ASSUME NEW f, AtLine(n2) \subseteq SurelyHeld(y), NEW k \in FirstNodes(f, n2)
         PROVE  IsProtectedBySameLock(k, {n1}, {})
    <3>1. Holds(Held(k[2]), y)
      BY <2>2, <2>8, <2>14
    <3>2. Holds(CtxLockSet(k[2], {}), y)
      BY <2>4, <3>1
    <3> QED
      BY <2>3, <2>10, <3>2 DEF IsProtectedBySameLock
  <2>15. \A k : IsProtectedBySameLock(k, {n1}, {n2})
    BY <2>3, <2>10 DEF IsProtectedBySameLock
  <2>16. \A f : SameLock(CtxLockSet(f, {n1}), CtxLockSet(n2, {}))
    BY <2>3, <2>9, <2>10
  <2> QED
    BY <2>11, <2>12, <2>13, <2>14, <2>15, <2>16
<1>2. TypeOK /\ NoHeldLockMissed => AlwaysProtectedFound
  BY <1>1 DEF AlwaysProtectedFound
<1> QED
  BY TypeCorrect, HeldLocksFound, <1>2, PTL

----------------------------------------------------------------------------
(* the nodes at which a lock operation of n may be recorded are in C *)
SitesIn(C, a) == \A m \in Node : acq[a] \in {m, prog.via[m]} => m \in C

Closed(C) == \A n \in C : prog.succ[n] \subseteq C

(* HeldOnlyDownstream for one set of nodes *)
Downstream(C) ==
  Closed(C) => \A n \in visited \cup work : \A a \in Held(n) : SitesIn(C, a) => n \in C

LEMMA DownstreamNext ==
  ASSUME LockSetInv, [Next]_vars, NEW C \in SUBSET Node, Downstream(C)
  PROVE  Downstream(C)'
<1> SUFFICES ASSUME Closed(C)', NEW d \in (visited \cup work)', NEW a \in Held(d)',
                    SitesIn(C, a)'
             PROVE  d \in C
  BY DEF Downstream
<1>1. prog' = prog /\ Closed(C)
  BY DEF Next, StartFunction, Visit, vars, Closed
<1>2. ASSUME NEW n, n \in visited \cup work, a \in Held(n), acq'[a] = acq[a]
      PROVE  n \in C
  BY <1>1, <1>2 DEF SitesIn, Downstream
<1>3. ASSUME NEW f \in todo, StartFunction(f) PROVE d \in C
  <2>1. f \in Node /\ DOMAIN ls = Node /\ ls' = [ls EXCEPT ![f] = EmptySet]
    BY <1>3, ProgramFacts DEF StartFunction, LockSetInv, TypeOK
  <2>2. d # f
    BY <2>1 DEF Held, EmptySet
  <2>3. d \in visited \cup work /\ a \in Held(d) /\ acq' = acq
    BY <1>3, <2>1, <2>2 DEF StartFunction, Held
  <2> QED
    BY <1>2, <2>3
<1>4. ASSUME NEW n \in work, Visit(n) PROVE d \in C
  <2>1. PICK held2 : VisitEffect(n, held2)
    BY <1>4, VisitSound
  <2>2. /\ n \in Node /\ visited \subseteq Node /\ work \subseteq Node
        /\ visited' = visited \cup {n}
        /\ work' = (work \ {n}) \cup (prog.succ[n] \ visited')
        /\ prog.succ[n] \subseteq Node
    BY <1>4, ProgramFacts DEF Visit, LockSetInv, TypeOK
  <2>3. \A b \in Addr : (\E k \in Node : b \in Held(k)) => acq'[b] = acq[b]
    BY <2>1 DEF VisitEffect, Extends, LockSetInv, Sited, Held
  <2>4. a \in DOMAIN held2 => n \in C
    <3>1. CASE a \in Held(n) /\ acq'[a] = acq[a]
      BY <1>2, <3>1
    <3>2. CASE acq'[a] \in {n, prog.via[n]}
      BY <1>1, <2>2, <3>2 DEF SitesIn
    <3> QED
      BY <2>1, <3>1, <3>2 DEF VisitEffect
  <2>5. ASSUME d \in visited \cup work, a \in Held(d) PROVE d \in C
    <3>1. a \in Addr /\ d \in Node
      BY <2>2, <2>5 DEF LockSetInv, TypeOK
    <3> QED
      BY <1>2, <2>3, <2>5, <3>1
  <2>6. CASE d = n
    BY <2>1, <2>4, <2>6 DEF VisitEffect, Held
  <2>7. CASE d # n /\ d \in prog.succ[n]
    <3>1. n \in C => d \in C
      BY <1>1, <2>7 DEF Closed
    <3>2. CASE d \in visited
      BY <2>1, <2>4, <2>5, <2>7, <3>1, <3>2 DEF VisitEffect, Held
    <3>3. CASE d \notin visited
      BY <2>1, <2>2, <2>4, <2>7, <3>1, <3>3 DEF VisitEffect, Held
    <3> QED
      BY <3>2, <3>3
  <2>8. CASE d # n /\ d \notin prog.succ[n]
    <3>1. d \in visited \cup work
      BY <2>2, <2>8
    <3>2. a \in Held(d)
      BY <2>1, <2>2, <2>8, <3>1 DEF VisitEffect, Held
    <3> QED
      BY <2>5, <3>1, <3>2
  <2> QED
    BY <2>6, <2>7, <2>8
<1>5. CASE UNCHANGED vars
  BY <1>2, <1>5 DEF vars, Held
<1> QED
  BY <1>3, <1>4, <1>5 DEF Next

(* No node outside what its acquisitions reach has a lock in its set, for  *)
(* every program and order of visits (LSAnalysis.cpp:72-88).               *)
THEOREM OnlyDownstream == StaticSpec => []HeldOnlyDownstream
<1> DEFINE Inv == LockSetInv /\ \A C \in SUBSET Node : Downstream(C)
<1>1. Init => Inv
  BY InvInit DEF Init, Downstream
<1>2. Inv /\ [Next]_vars => Inv'
  BY InvNext, DownstreamNext
<1>3. Inv => HeldOnlyDownstream
  BY DEF HeldOnlyDownstream, Downstream, Closed, SitesIn
<1> QED
  BY <1>1, <1>2, <1>3, InPhase, PTL


----------------------------------------------------------------------------
(* The thread tree.                                                        *)

ThreadRecord == [main : Function, fork : ForkSite \cup {NoSite}, parent : Nat]

(* A thread is created after its parent, by a fork of the parent's main    *)
(* function if it has one, and no two threads run the same function.       *)
Grown ==
  /\ thr \in Seq(ThreadRecord)
  /\ \A t \in DOMAIN thr :
       /\ thr[t].parent < t
       /\ thr[t].parent = 0 => thr[t].main \in tree.entries
       /\ thr[t].fork # NoSite => thr[t].main = tree.target[thr[t].fork]
       /\ thr[t].fork # NoSite => thr[t].parent # 0
  /\ \A t, u \in DOMAIN thr : thr[t].main = thr[u].main => t = u

Waiting(s) == \E i \in DOMAIN queue : queue[i].fork = s

(* A fork on the line of s has its thread. *)
Located(s) ==
  \E u \in DOMAIN thr : /\ thr[u].fork # NoSite
                        /\ tree.loc[thr[u].fork] = tree.loc[s]

(* A fork of a thread's main function starts nothing, has its thread,      *)
(* shares its line with one that has, or waits in the queue.               *)
Covered ==
  \A t \in DOMAIN thr : \A s \in tree.forks[thr[t].main] :
    \/ tree.target[s] \in Mains \cup {NoSite}
    \/ Located(s)
    \/ Waiting(s)

Surviving == IF KernelMode THEN DOMAIN thr
             ELSE {t \in DOMAIN thr : thr[t].parent # 0 \/ ~Childless(t)}

TreeInv ==
  /\ \E s \in Systems : prog = s.prog /\ tree = s.tree
  /\ phase \in {"entries", "forks", "joins", "ready"}
  /\ Grown /\ Covered
  /\ queue \in Seq([fork : ForkSite, parent : Nat])
  /\ \A i \in DOMAIN queue : queue[i].parent \in DOMAIN thr
  /\ phase \in {"joins", "ready"} => (queue = <<>> \/ taken = ForkCap)
  /\ live = IF phase \in {"entries", "forks"} THEN DOMAIN thr ELSE Surviving

LEMMA TreeFacts ==
  ASSUME TreeInv
  PROVE  /\ tree.entries \subseteq Function
         /\ tree.forks \in [Function -> SUBSET ForkSite]
         /\ tree.target \in [ForkSite -> Function \cup {NoSite}]
         /\ tree.manual \in BOOLEAN
         /\ NoSite \notin Function \cup ForkSite
BY SystemAssumption, TreeAssumption DEF TreeInv

(* Forks put in the queue in some order: all of them, and only they.       *)
LEMMA PushedAll ==
  ASSUME TreeInv, NEW f \in Function, NEW id \in Nat, NEW new \in Pushed(f, id)
  PROVE  /\ new \in Seq([fork : ForkSite, parent : {id}])
         /\ \A s \in tree.forks[f] : \E i \in DOMAIN new : new[i].fork = s
<1> DEFINE S == tree.forks[f]
           D == 1 .. Cardinality(S)
<1>1. S \subseteq ForkSite /\ IsFiniteSet(S) /\ Cardinality(S) \in Nat
  BY TreeFacts, TreeAssumption, FS_Subset, FS_CardinalityType
<1>2. PICK s \in SetToSeqs(S) : new = [i \in DOMAIN s |-> [fork |-> s[i], parent |-> id]]
  BY DEF Pushed
<1>3. s \in [D -> S] /\ \A i, j \in D : i # j => s[i] # s[j]
  BY <1>2 DEF SetToSeqs
<1> HIDE DEF S
<1>4. s \in Surjection(D, S)
  <2>1. s \in Injection(D, S)
    BY <1>3 DEF Injection, IsInjective
  <2>2. IsFiniteSet(D) /\ Cardinality(D) = Cardinality(S)
    BY <1>1, FS_Interval
  <2> QED BY <1>1, <2>1, <2>2, FS_Injection
<1>5. DOMAIN s = D /\ DOMAIN new = D
  BY <1>2, <1>3
<1>6. new \in [D -> [fork : ForkSite, parent : {id}]]
  BY <1>1, <1>2, <1>3, <1>5
<1>7. \A x \in S : \E i \in D : s[i] = x
  BY <1>4 DEF Surjection
<1>8. \A i \in D : new[i].fork = s[i]
  BY <1>2, <1>5
<1>9. new \in Seq([fork : ForkSite, parent : {id}])
  <2> DEFINE n == Cardinality(S)
             R == [fork : ForkSite, parent : {id}]
  <2>1. n \in Nat /\ new \in [1 .. n -> R]
    BY <1>1, <1>6
  <2> HIDE DEF n, R
  <2>2. new \in Seq(R)
    BY <2>1
  <2> QED BY <2>2 DEF R
<1> QED
  BY <1>5, <1>7, <1>8, <1>9 DEF S
(***************************************************************************)
(* Every action of the tree keeps TreeInv.                                 *)

LEMMA TreeStart == StaticInit => TreeInv
<1> SUFFICES ASSUME StaticInit PROVE TreeInv
  OBVIOUS
<1>1. thr = <<>> /\ queue = <<>> /\ live = {} /\ phase = "entries"
  BY DEF StaticInit, TreeInit
<1>2. \E s \in Systems : prog = s.prog /\ tree = s.tree
  BY DEF StaticInit
<1>3. Grown /\ Covered
  BY <1>1 DEF Grown, Covered
<1> QED
  BY <1>1, <1>2, <1>3 DEF TreeInv

(* A new thread, whose forks come behind what is left of the queue.        *)
LEMMA CreatedKeeps ==
  ASSUME TreeInv, phase \in {"entries", "forks"},
         NEW f \in Function \ Mains, NEW fork \in ForkSite \cup {NoSite},
         NEW parent \in {0} \cup DOMAIN thr, Created(f, fork, parent),
         parent = 0 => f \in tree.entries,
         fork # NoSite => f = tree.target[fork],
         fork # NoSite => parent # 0,
         NEW rest \in Seq([fork : ForkSite, parent : Nat]),
         NEW new \in Pushed(f, Len(thr) + 1), queue' = rest \o new,
         \A i \in DOMAIN rest : rest[i].parent \in DOMAIN thr,
         \A i \in DOMAIN queue : queue[i].fork = fork \/ \E j \in DOMAIN rest : rest[j].fork = queue[i].fork,
         phase' \in {"entries", "forks"},
         tree' = tree, prog' = prog
  PROVE  TreeInv'
<1> DEFINE n == Len(thr)
           th == [main |-> f, fork |-> fork, parent |-> parent]
           Q == [fork : ForkSite, parent : Nat]
<1>1. thr \in Seq(ThreadRecord) /\ n \in Nat /\ DOMAIN thr = 1 .. n /\ live = 1 .. n
  BY DEF TreeInv, Grown
<1>2. th \in ThreadRecord
  BY <1>1 DEF ThreadRecord
<1>3. /\ thr' \in Seq(ThreadRecord) /\ DOMAIN thr' = 1 .. n + 1
      /\ thr'[n + 1] = th /\ \A t \in 1 .. n : thr'[t] = thr[t]
  <2>1. thr' = Append(thr, th)
    BY DEF Created
  <2> HIDE DEF th
  <2> QED
    BY <1>1, <1>2, <2>1
<1>4. live' = DOMAIN thr'
  BY <1>1, <1>3 DEF Created
<1>5. /\ new \in Seq([fork : ForkSite, parent : {n + 1}])
      /\ \A s \in tree.forks[f] : \E i \in DOMAIN new : new[i].fork = s
  <2>1. f \in Function /\ n + 1 \in Nat /\ new \in Pushed(f, n + 1)
    BY <1>1
  <2> HIDE DEF n
  <2> QED BY <2>1, PushedAll
<1>6. /\ new \in Seq(Q) /\ \A i \in DOMAIN new : new[i].parent = n + 1
      /\ \A i \in DOMAIN new : new[i] \in [fork : ForkSite, parent : {n + 1}]
  <2>1. \A i \in DOMAIN new : new[i] \in [fork : ForkSite, parent : {n + 1}]
    <3> DEFINE R == [fork : ForkSite, parent : {n + 1}]
    <3>1. new \in Seq(R)
      BY <1>5
    <3> HIDE DEF R
    <3>2. \A i \in DOMAIN new : new[i] \in R
      BY <3>1
    <3> QED BY <3>2 DEF R
  <2>2. \A i \in DOMAIN new : new[i] \in Q
    BY <1>1, <2>1
  <2>3. Len(new) \in Nat /\ new \in [1 .. Len(new) -> Q]
    <3> DEFINE R == [fork : ForkSite, parent : {n + 1}]
    <3>1. new \in Seq(R)
      BY <1>5
    <3> HIDE DEF Q, R
    <3> QED BY <2>2, <3>1
  <2>4. new \in Seq(Q)
    <3> DEFINE m == Len(new)
    <3>1. m \in Nat /\ new \in [1 .. m -> Q]
      BY <2>3
    <3> HIDE DEF Q, m
    <3> QED BY <3>1, FunctionIsSeq
  <2> QED BY <2>1, <2>4
<1>7. /\ queue' \in Seq(Q) /\ DOMAIN queue' = 1 .. Len(rest) + Len(new)
      /\ \A i \in DOMAIN rest : i \in DOMAIN queue' /\ queue'[i] = rest[i]
      /\ \A i \in DOMAIN new :
           Len(rest) + i \in DOMAIN queue' /\ queue'[Len(rest) + i] = new[i]
      /\ \A i \in DOMAIN queue' : i \in DOMAIN rest \/ i - Len(rest) \in DOMAIN new
  <2> HIDE DEF Q
  <2>1. rest \in Seq(Q)
    BY DEF Q
  <2>2. Len(rest) \in Nat /\ Len(new) \in Nat /\ DOMAIN rest = 1 .. Len(rest) /\ DOMAIN new = 1 .. Len(new)
    BY <1>6, <2>1
  <2>3. queue' = rest \o new
    OBVIOUS
  <2>4. Len(queue') = Len(rest) + Len(new) /\ queue' \in Seq(Q)
    BY <1>6, <2>1, <2>3
  <2>5. \A i \in 1 .. Len(rest) : queue'[i] = rest[i]
    BY <1>6, <2>1, <2>2, <2>3
  <2>6. \A i \in 1 .. Len(new) : queue'[Len(rest) + i] = new[i]
    BY <1>6, <2>1, <2>2, <2>3
  <2> QED BY <2>2, <2>4, <2>5, <2>6
<1> HIDE DEF Q
<1>8. \A i \in DOMAIN queue' : queue'[i].parent \in DOMAIN thr'
  <2> TAKE i \in DOMAIN queue'
  <2>1. CASE i \in DOMAIN rest
    BY <1>1, <1>3, <1>7, <2>1
  <2>2. CASE i - Len(rest) \in DOMAIN new
    <3>1. Len(rest) + (i - Len(rest)) = i
      BY <1>7
    <3>2. queue'[i] = new[i - Len(rest)]
      BY <1>7, <2>2, <3>1
    <3> QED BY <1>1, <1>3, <1>6, <2>2, <3>2
  <2> QED BY <1>7, <2>1, <2>2
<1>9. Grown'
  <2>1. \A t \in 1 .. n : thr[t].main \in Mains /\ thr[t].main # f
    BY <1>1 DEF Mains
  <2>2. ASSUME NEW t \in DOMAIN thr'
        PROVE  /\ thr'[t].parent < t
               /\ thr'[t].parent = 0 => thr'[t].main \in tree'.entries
               /\ thr'[t].fork # NoSite => thr'[t].main = tree'.target[thr'[t].fork]
               /\ thr'[t].fork # NoSite => thr'[t].parent # 0
    <3>1. CASE t = n + 1
      BY <1>1, <1>3, <3>1
    <3>2. CASE t \in 1 .. n
      BY <1>1, <1>3, <3>2 DEF TreeInv, Grown
    <3> QED BY <1>1, <1>3, <3>1, <3>2
  <2>3. ASSUME NEW t \in DOMAIN thr', NEW u \in DOMAIN thr', thr'[t].main = thr'[u].main
        PROVE  t = u
    <3>1. CASE t \in 1 .. n /\ u \in 1 .. n
      BY <1>1, <1>3, <2>3, <3>1 DEF TreeInv, Grown
    <3>2. CASE t = n + 1 /\ u \in 1 .. n
      BY <1>3, <2>1, <2>3, <3>2
    <3>3. CASE t \in 1 .. n /\ u = n + 1
      BY <1>3, <2>1, <2>3, <3>3
    <3> QED BY <1>1, <1>3, <3>1, <3>2, <3>3
  <2> QED BY <1>3, <2>2, <2>3 DEF Grown
<1>10. Covered'
  <2> SUFFICES ASSUME NEW t \in DOMAIN thr', NEW s \in tree'.forks[thr'[t].main]
               PROVE  tree'.target[s] \in Mains' \cup {NoSite} \/ Located(s)' \/ Waiting(s)'
    BY DEF Covered
  <2>1. Mains' = Mains \cup {f}
    <3>1. Mains' = {thr'[k].main : k \in 1 .. n + 1} /\ Mains = {thr[k].main : k \in 1 .. n}
      BY <1>1, <1>3 DEF Mains
    <3>2. thr'[n + 1].main = f /\ \A k \in 1 .. n + 1 : k \in 1 .. n \/ k = n + 1
      BY <1>1, <1>3
    <3>3. n + 1 \in 1 .. n + 1 /\ 1 .. n \subseteq 1 .. n + 1
      BY <1>1
    <3>4. ASSUME NEW x \in Mains' PROVE x \in Mains \cup {f}
      <4>1. PICK k \in 1 .. n + 1 : x = thr'[k].main
        BY <3>1
      <4>2. CASE k = n + 1
        BY <3>2, <4>1, <4>2
      <4>3. CASE k \in 1 .. n
        BY <1>3, <3>1, <4>1, <4>3
      <4> QED BY <3>2, <4>2, <4>3
    <3>5. Mains \subseteq Mains'
      BY <1>3, <3>1, <3>3
    <3>6. f \in Mains'
      BY <3>1, <3>2, <3>3
    <3> QED BY <3>4, <3>5, <3>6
  <2>2. CASE t = n + 1
    <3>1. PICK i \in DOMAIN new : new[i].fork = s
      BY <1>3, <1>5, <2>2
    <3> QED BY <1>7, <3>1 DEF Waiting
  <2>3. CASE t \in 1 .. n
    <3>1. s \in tree.forks[thr[t].main]
      BY <1>3, <2>3
    <3>2. tree.target[s] \in Mains \cup {NoSite} \/ Located(s) \/ Waiting(s)
      BY <1>1, <2>3, <3>1 DEF TreeInv, Covered
    <3>4. CASE Located(s)
      <4>1. PICK u \in DOMAIN thr : thr[u].fork # NoSite /\ tree.loc[thr[u].fork] = tree.loc[s]
        BY <3>4 DEF Located
      <4>2. u \in DOMAIN thr' /\ thr'[u] = thr[u]
        BY <1>1, <1>3
      <4> QED BY <4>1, <4>2 DEF Located
    <3>3. CASE Waiting(s)
      <4>1. PICK i \in DOMAIN queue : queue[i].fork = s
        BY <3>3 DEF Waiting
      <4>2. CASE s = fork
        <5>1. s \in ForkSite
          <6>1. thr[t].main \in Function
            <7>1. thr[t] \in ThreadRecord
              BY <1>1, <2>3
            <7> QED BY <7>1 DEF ThreadRecord
          <6> QED BY <3>1, <6>1, TreeFacts
        <5> QED BY <2>1, <4>2, <5>1, TreeFacts
      <4>3. CASE s # fork
        <5>1. PICK j \in DOMAIN rest : rest[j].fork = s
          BY <4>1, <4>3
        <5> QED BY <1>7, <5>1 DEF Waiting
      <4> QED BY <4>2, <4>3
    <3> QED BY <2>1, <3>2, <3>3, <3>4
  <2> QED BY <1>1, <1>3, <2>2, <2>3
<1> QED
  BY <1>4, <1>7, <1>8, <1>9, <1>10 DEF TreeInv, Q
LEMMA AddEntryKeeps ==
  ASSUME TreeInv, NEW f \in Function, AddEntry(f), prog' = prog PROVE TreeInv'
<1> DEFINE Q == [fork : ForkSite, parent : Nat]
<1>1. PICK new \in Pushed(f, Len(thr) + 1) : queue' = queue \o new
  BY DEF AddEntry
<1>2. f \in Function \ Mains /\ f \in tree.entries /\ Created(f, NoSite, 0)
  BY DEF AddEntry, Entries
<1>3. phase \in {"entries", "forks"} /\ phase' \in {"entries", "forks"} /\ tree' = tree
  BY DEF AddEntry
<1>4. queue \in Seq(Q) /\ \A i \in DOMAIN queue : queue[i].parent \in DOMAIN thr
  BY DEF TreeInv
<1>5. \A i \in DOMAIN queue : \E j \in DOMAIN queue : queue[j].fork = queue[i].fork
  OBVIOUS
<1> QED
  BY <1>1, <1>2, <1>3, <1>4, <1>5, CreatedKeeps

(* An empty head of what follows is left out by Tail.                      *)
LEMMA TailFacts ==
  ASSUME NEW Q, NEW q \in Seq(Q), q # <<>>
  PROVE  /\ Tail(q) \in Seq(Q) /\ Head(q) \in Q /\ Head(q) = q[1]
         /\ \A i \in DOMAIN Tail(q) : i + 1 \in DOMAIN q /\ Tail(q)[i] = q[i + 1]
         /\ \A i \in DOMAIN q : i = 1 \/ (i - 1 \in DOMAIN Tail(q) /\ Tail(q)[i - 1] = q[i])
         /\ 1 \in DOMAIN q
<1>1. Len(q) \in Nat /\ Len(q) > 0 /\ DOMAIN q = 1 .. Len(q)
  OBVIOUS
<1>2. Tail(q) \in Seq(Q) /\ Len(Tail(q)) = Len(q) - 1 /\ Head(q) = q[1] /\ q[1] \in Q
  OBVIOUS
<1>3. DOMAIN Tail(q) = 1 .. Len(q) - 1
  BY <1>1, <1>2
<1>4. \A i \in 1 .. Len(q) - 1 : Tail(q)[i] = q[i + 1]
  BY <1>1
<1>5. \A i \in 2 .. Len(q) : Tail(q)[i - 1] = q[i]
  <2> TAKE i \in 2 .. Len(q)
  <2>1. i - 1 \in 1 .. Len(q) - 1 /\ (i - 1) + 1 = i
    BY <1>1
  <2> QED BY <1>4, <2>1
<1>6. \A i \in DOMAIN q : i = 1 \/ (i \in 2 .. Len(q) /\ i - 1 \in 1 .. Len(q) - 1)
  BY <1>1
<1>7. 1 \in DOMAIN q /\ \A i \in 1 .. Len(q) - 1 : i + 1 \in DOMAIN q
  BY <1>1
<1> QED
  BY <1>2, <1>3, <1>4, <1>5, <1>6, <1>7

LEMMA TakeForkKeeps == ASSUME TreeInv, TakeFork, prog' = prog PROVE TreeInv'
<1> DEFINE Q == [fork : ForkSite, parent : Nat]
           q == Tail(queue)
           s == Head(queue).fork
           p == Head(queue).parent
<1>1. /\ phase \in {"entries", "forks"} /\ phase' \in {"entries", "forks"}
      /\ tree' = tree /\ phase = "forks"
  BY DEF TakeFork
<1>2. queue \in Seq(Q) /\ queue # <<>> /\ \A i \in DOMAIN queue : queue[i].parent \in DOMAIN thr
  BY DEF TreeInv, TakeFork
<1>3. /\ q \in Seq(Q) /\ Head(queue) \in Q /\ Head(queue) = queue[1] /\ 1 \in DOMAIN queue
      /\ \A i \in DOMAIN q : i + 1 \in DOMAIN queue /\ q[i] = queue[i + 1]
      /\ \A i \in DOMAIN queue : i = 1 \/ (i - 1 \in DOMAIN q /\ q[i - 1] = queue[i])
  <2> HIDE DEF Q
  <2> QED BY <1>2, TailFacts
<1>4. s \in ForkSite /\ p \in DOMAIN thr
  BY <1>2, <1>3
<1>5. \A i \in DOMAIN q : q[i].parent \in DOMAIN thr
  BY <1>2, <1>3
<1>6. \A i \in DOMAIN queue : queue[i].fork = s \/ \E j \in DOMAIN q : q[j].fork = queue[i].fork
  BY <1>3
<1>7. DOMAIN thr \subseteq Nat \ {0}
  <2>1. thr \in Seq(ThreadRecord)
    BY DEF TreeInv, Grown
  <2> QED BY <2>1
<1>8. CASE IsNew(s)
  <2> DEFINE f == tree.target[s]
  <2>1. f \in Function \ Mains /\ s # NoSite
    BY <1>4, <1>8, TreeFacts DEF IsNew
  <2>2. PICK new \in Pushed(f, Len(thr) + 1) : queue' = q \o new
    BY <1>8 DEF TakeFork
  <2>3. Created(f, s, p)
    BY <1>8 DEF TakeFork
  <2>4. s \in ForkSite \cup {NoSite} /\ p \in {0} \cup DOMAIN thr /\ p # 0
    BY <1>4, <1>7
  <2>5. (p = 0 => f \in tree.entries) /\ (s # NoSite => f = tree.target[s]) /\ (s # NoSite => p # 0)
    BY <2>4
  <2>6. q \in Seq(Q)
    BY <1>3
  <2>7. tree' = tree /\ phase \in {"entries", "forks"} /\ phase' \in {"entries", "forks"}
    BY <1>1
  <2> HIDE DEF q, s, p, f
  <2> QED
    BY <1>5, <1>6, <2>6, <2>7, <2>1, <2>2, <2>3, <2>4, <2>5, CreatedKeeps, ZenonT(60)
<1>9. CASE ~IsNew(s)
  <2>1. queue' = q /\ thr' = thr /\ live' = live
    BY <1>9 DEF TakeFork
  <2>2. Grown' /\ Mains' = Mains
    BY <1>1, <2>1 DEF TreeInv, Grown, Mains
  <2>3. tree.target[s] \in Mains \cup {NoSite} \/ Located(s)
    <3>1. live = DOMAIN thr
      BY <1>1 DEF TreeInv
    <3> QED BY <1>9, <3>1 DEF IsNew, Located
  <2>4. Covered'
    <3> SUFFICES ASSUME NEW t \in DOMAIN thr', NEW x \in tree'.forks[thr'[t].main]
                 PROVE  tree'.target[x] \in Mains' \cup {NoSite} \/ Located(x)' \/ Waiting(x)'
      BY DEF Covered
    <3>1. t \in DOMAIN thr /\ x \in tree.forks[thr[t].main]
      BY <1>1, <2>1
    <3>2. tree.target[x] \in Mains \cup {NoSite} \/ Located(x) \/ Waiting(x)
      BY <3>1 DEF TreeInv, Covered
    <3>4. ASSUME NEW y PROVE Located(y)' <=> Located(y)
      BY <1>1, <2>1 DEF Located
    <3>3. CASE Waiting(x)
      <4>1. PICK i \in DOMAIN queue : queue[i].fork = x
        BY <3>3 DEF Waiting
      <4>2. CASE x = s
        BY <1>1, <2>2, <2>3, <3>1, <3>4, <4>2
      <4>3. CASE x # s
        <5>1. PICK j \in DOMAIN q : q[j].fork = x
          BY <1>6, <4>1, <4>3
        <5> HIDE DEF q
        <5> QED BY <2>1, <5>1 DEF Waiting
      <4> QED BY <4>2, <4>3
    <3> QED BY <1>1, <2>2, <3>2, <3>3, <3>4
  <2> HIDE DEF q
  <2> QED
    BY <1>1, <1>3, <1>5, <2>1, <2>2, <2>4 DEF TreeInv
<1> QED
  BY <1>8, <1>9

(* What does not touch the threads and the queue.                          *)
LEMMA OthersKeep ==
  ASSUME TreeInv, UNCHANGED <<tree, prog, thr, queue>>,
         phase' \in {"entries", "forks", "joins", "ready"},
         phase' \in {"joins", "ready"} => (queue = <<>> \/ taken' = ForkCap),
         live' = IF phase' \in {"entries", "forks"} THEN DOMAIN thr ELSE Surviving
  PROVE  TreeInv'
<1>1. Grown' /\ Mains' = Mains
  BY DEF TreeInv, Grown, Mains
<1>2. Surviving' = Surviving
  BY DEF Surviving, KernelMode, Entries, Childless
<1>3. Covered'
  BY <1>1 DEF TreeInv, Covered, Located, Waiting
<1> QED
  BY <1>1, <1>2, <1>3 DEF TreeInv

LEMMA TreeStep == TreeInv /\ [StaticNext]_allVars => TreeInv'
<1> SUFFICES ASSUME TreeInv, [StaticNext]_allVars PROVE TreeInv'
  OBVIOUS
<1>1. ASSUME NEW f \in Function, AddEntry(f), UNCHANGED <<vars, hb>> PROVE TreeInv'
  BY <1>1, AddEntryKeeps DEF vars
<1>2. CASE TakeFork /\ UNCHANGED <<vars, hb>>
  BY <1>2, TakeForkKeeps DEF vars
<1>3. CASE EndForks /\ UNCHANGED <<vars, hb>>
  <2>1. live = DOMAIN thr
    BY <1>3 DEF EndForks, TreeInv
  <2>2. live' = Surviving
    BY <1>3, <2>1 DEF EndForks, Surviving
  <2> QED BY <1>3, <2>2, OthersKeep DEF EndForks, vars
<1>4. ASSUME NEW j \in JoinSite, MatchJoin(j), UNCHANGED <<vars, hb>> PROVE TreeInv'
  BY <1>4, OthersKeep DEF MatchJoin, vars, TreeInv
<1>5. CASE EndJoins /\ UNCHANGED <<vars, hb>>
  BY <1>5, OthersKeep DEF EndJoins, vars, TreeInv
<1>6. CASE Next /\ UNCHANGED <<treeVars, hb>>
  <2>1. prog' = prog
    BY <1>6 DEF Next, StartFunction, Visit, vars
  <2> QED BY <1>6, <2>1, OthersKeep DEF treeVars, TreeInv
<1>7. CASE UNCHANGED <<vars, treeVars>>
  BY <1>7, OthersKeep DEF treeVars, vars, TreeInv
<1> QED
  BY <1>1, <1>2, <1>3, <1>4, <1>5, <1>6, <1>7
     DEF StaticNext, TreeNext, BuildHB, allVars, vars, treeVars
LEMMA TreeAlways == StaticSpec => []TreeInv
BY TreeStart, TreeStep, PTL DEF StaticSpec

(* A thread that is not a root has a parent among the threads.             *)
LEMMA ThreadFacts ==
  ASSUME TreeInv
  PROVE  /\ DOMAIN thr = 1 .. Len(thr) /\ Len(thr) \in Nat
         /\ \A t \in DOMAIN thr :
              /\ t \in Nat /\ t # 0
              /\ Parent(t) \in Nat /\ Parent(t) < t
              /\ Parent(t) # 0 => Parent(t) \in DOMAIN thr
              /\ thr[t].main \in Function
              /\ thr[t].fork \in ForkSite \cup {NoSite}
<1>1. thr \in Seq(ThreadRecord) /\ \A t \in DOMAIN thr : thr[t].parent < t
  BY DEF TreeInv, Grown
<1>2. DOMAIN thr = 1 .. Len(thr) /\ Len(thr) \in Nat
  BY <1>1
<1>3. ASSUME NEW t \in DOMAIN thr
      PROVE  /\ thr[t].parent \in Nat /\ thr[t].main \in Function
             /\ thr[t].fork \in ForkSite \cup {NoSite}
  <2>1. thr[t] \in ThreadRecord
    BY <1>1
  <2> QED BY <2>1 DEF ThreadRecord
<1>4. \A t \in DOMAIN thr : t \in Nat /\ t # 0
  BY <1>2
<1>5. \A t \in DOMAIN thr : Parent(t) \in Nat /\ Parent(t) < t
  BY <1>1, <1>3 DEF Parent
<1>6. \A t \in DOMAIN thr : Parent(t) # 0 => Parent(t) \in DOMAIN thr
  BY <1>2, <1>4, <1>5
<1> QED BY <1>2, <1>3, <1>4, <1>5, <1>6

(* Without kernel mode there is one root at most.                          *)
LEMMA OneRoot ==
  ASSUME TreeInv, ~KernelMode, NEW t \in DOMAIN thr, NEW u \in DOMAIN thr,
         Parent(t) = 0, Parent(u) = 0
  PROVE  t = u
<1> DEFINE E == tree.entries
           p == thr[t].main
           q == thr[u].main
<1>1. p \in E /\ q \in E /\ (p = q => t = u)
  BY DEF TreeInv, Grown, Parent
<1>2. IsFiniteSet(E) /\ Cardinality(E) \in Nat /\ ~(Cardinality(E) > 1)
  BY TreeFacts, TreeAssumption, FS_Subset, FS_CardinalityType DEF KernelMode, Entries
<1>3. SUFFICES ASSUME p # q PROVE FALSE
  BY <1>1
<1> HIDE DEF E, p, q
<1>4. IsFiniteSet({p}) /\ Cardinality({p}) = 1
  BY FS_Singleton
<1>5. Cardinality({p} \cup {q}) = 2
  BY <1>3, <1>4, FS_AddElement
<1>6. Cardinality({p} \cup {q}) <= Cardinality(E)
  BY <1>1, <1>2, FS_Subset
<1> QED BY <1>2, <1>5, <1>6

(* What a thread starts is run by a thread that is kept, whatever the      *)
(* order of the forks, also when they form cycles, unless a fork on the    *)
(* same line came first or the cap left the site in the queue              *)
(* (ThreadCreationTree.cpp:84-105, 225-294).                               *)
THEOREM ForksAreCovered == StaticSpec => []ForksCovered
<1>1. TreeInv => ForksCovered
  <2> SUFFICES ASSUME TreeInv, phase = "ready",
                      NEW t \in live, NEW s \in tree.forks[thr[t].main],
                      tree.target[s] # NoSite
               PROVE  \/ \E u \in live : thr[u].main = tree.target[s]
                      \/ \E u \in live : thr[u].fork # NoSite /\ tree.loc[thr[u].fork] = tree.loc[s]
                      \/ taken = ForkCap /\ \E i \in DOMAIN queue : queue[i].fork = s
    BY DEF ForksCovered
  <2>1. live = Surviving /\ t \in DOMAIN thr
    BY DEF TreeInv, Surviving
  <2>2. tree.target[s] \in Mains \/ Located(s) \/ Waiting(s)
    BY <2>1 DEF TreeInv, Covered
  <2>a. CASE Waiting(s)
    <3>1. PICK i \in DOMAIN queue : queue[i].fork = s
      BY <2>a DEF Waiting
    <3>2. queue # <<>>
      BY <3>1
    <3> QED BY <3>1, <3>2 DEF TreeInv
  <2>b. CASE Located(s)
    <3>1. PICK u \in DOMAIN thr : thr[u].fork # NoSite /\ tree.loc[thr[u].fork] = tree.loc[s]
      BY <2>b DEF Located
    <3>2. thr[u].parent # 0
      BY <3>1 DEF TreeInv, Grown
    <3>3. u \in live
      BY <2>1, <3>1, <3>2 DEF Surviving
    <3> QED BY <3>1, <3>3
  <2>c. SUFFICES ASSUME tree.target[s] \in Mains
                 PROVE  \E u \in live : thr[u].main = tree.target[s]
    BY <2>2, <2>a, <2>b
  <2>3. PICK u \in DOMAIN thr : thr[u].main = tree.target[s]
    BY <2>c DEF Mains
  <2>4. SUFFICES ASSUME u \notin live PROVE FALSE
    BY <2>3
  <2>5. ~KernelMode /\ Parent(u) = 0 /\ Childless(u)
    BY <2>1, <2>4 DEF Surviving, Parent
  <2> DEFINE S == {c \in DOMAIN thr : Parent(c) # 0}
  <2>6. S \subseteq Nat /\ S # {}
    <3>1. Parent(t) # 0 \/ ~Childless(t)
      BY <2>1, <2>5 DEF Surviving, Parent
    <3>2. ASSUME ~Childless(t) PROVE S # {}
      <4>1. PICK c \in DOMAIN thr : Parent(c) = t
        BY <3>2 DEF Childless, Parent
      <4> QED BY <2>1, <4>1, ThreadFacts
    <3> QED BY <2>1, <3>1, <3>2, ThreadFacts
  <2>7. PICK c \in S : \A d \in S : c <= d
    <3> HIDE DEF S
    <3> QED BY <2>6, Smallest
  <2>8. Parent(c) \in DOMAIN thr /\ Parent(Parent(c)) = 0
    <3>1. Parent(c) \in DOMAIN thr /\ Parent(c) \in Nat /\ c \in Nat /\ Parent(c) < c
      BY <2>7, ThreadFacts
    <3> QED BY <2>7, <3>1
  <2>9. Parent(c) = u
    BY <2>5, <2>8, OneRoot
  <2> QED
    BY <2>5, <2>7, <2>9 DEF Childless, Parent
<1> QED
  BY <1>1, TreeAlways, PTL
----------------------------------------------------------------------------
(* The two relations: they are defined by recursion towards the root.      *)

(* P gives the parent of each number up to N; base is what the recursion   *)
(* gives for a root and F what it makes of the value for the parent.       *)
Equation(N, P, V, base, F) ==
  /\ N \in Nat
  /\ P \in [1 .. N -> Nat] /\ \A n \in 1 .. N : P[n] < n
  /\ base \in [1 .. N -> V] /\ F \in [(1 .. N) \X V -> V]

Solves(g, N, P, V, base, F) ==
  /\ g \in [1 .. N -> V]
  /\ \A n \in 1 .. N : g[n] = IF P[n] = 0 THEN base[n] ELSE F[<<n, g[P[n]]>>]

LEMMA ParentRecursion ==
  ASSUME NEW N, NEW P, NEW V, NEW base, NEW F, Equation(N, P, V, base, F)
  PROVE  \E g : Solves(g, N, P, V, base, F)
<1>0. /\ N \in Nat
      /\ P \in [1 .. N -> Nat] /\ \A n \in 1 .. N : P[n] < n
      /\ base \in [1 .. N -> V] /\ F \in [(1 .. N) \X V -> V]
  BY DEF Equation
<1> DEFINE Val(n, g) == IF P[n] = 0 THEN base[n] ELSE F[<<n, g[P[n]]>>]
           Upto(k, g) == g \in [1 .. k -> V] /\ \A n \in 1 .. k : g[n] = Val(n, g)
           S == {k \in Nat : k <= N => \E g : Upto(k, g)}
<1>1. 0 \in S
  <2>1. Upto(0, [n \in 1 .. 0 |-> base[n]])
    OBVIOUS
  <2> HIDE DEF Upto
  <2> QED BY <2>1
<1>2. ASSUME NEW k \in Nat, k \in S PROVE k + 1 \in S
  <2> SUFFICES ASSUME k + 1 <= N PROVE \E g : Upto(k + 1, g)
    <3> HIDE DEF Upto
    <3> QED OBVIOUS
  <2>1. PICK g : Upto(k, g)
    <3>1. k <= N
      BY <1>0
    <3> HIDE DEF Upto
    <3> QED BY <1>2, <3>1
  <2> DEFINE h == [n \in 1 .. k + 1 |-> IF n = k + 1 THEN Val(k + 1, g) ELSE g[n]]
  <2>2. ASSUME NEW n \in 1 .. k + 1, P[n] # 0 PROVE P[n] \in 1 .. k /\ n \in 1 .. N
    BY <1>0, <2>2
  <2>3. Val(k + 1, g) \in V
    <3>1. k + 1 \in 1 .. N /\ k + 1 \in 1 .. k + 1
      BY <1>0
    <3>2. CASE P[k + 1] = 0
      BY <1>0, <3>1, <3>2
    <3>3. CASE P[k + 1] # 0
      <4>1. g[P[k + 1]] \in V
        BY <2>1, <2>2, <3>1, <3>3
      <4> QED BY <1>0, <3>1, <3>3, <4>1
    <3> QED BY <3>2, <3>3
  <2>4. h \in [1 .. k + 1 -> V]
    <3> HIDE DEF Val
    <3>1. \A n \in 1 .. k + 1 : n = k + 1 \/ n \in 1 .. k
      OBVIOUS
    <3>2. \A n \in 1 .. k : g[n] \in V
      BY <2>1
    <3> QED BY <2>3, <3>1, <3>2
  <2>5. ASSUME NEW n \in 1 .. k + 1 PROVE h[n] = Val(n, h)
    <3>1. h[n] = Val(n, g)
      <4> HIDE DEF Val
      <4>1. CASE n = k + 1
        BY <4>1
      <4>2. CASE n # k + 1
        BY <2>1, <4>2
      <4> QED BY <4>1, <4>2
    <3>2. P[n] # 0 => h[P[n]] = g[P[n]]
      <4> SUFFICES ASSUME P[n] # 0 PROVE h[P[n]] = g[P[n]]
        OBVIOUS
      <4>1. P[n] \in 1 .. k + 1 /\ P[n] # k + 1
        BY <2>2
      <4> HIDE DEF Val
      <4> QED BY <4>1
    <3> HIDE DEF h
    <3> QED BY <3>1, <3>2
  <2>6. Upto(k + 1, h)
    <3> HIDE DEF h, Val
    <3> QED BY <2>4, <2>5
  <2> HIDE DEF Upto
  <2> QED BY <2>6
<1>3. \A n \in Nat : n \in S
  <2> HIDE DEF S
  <2> QED BY <1>1, <1>2, Induction
<1>4. PICK g : Upto(N, g)
  <2> HIDE DEF Upto
  <2> QED BY <1>0, <1>3
<1> QED BY <1>4 DEF Solves

LEMMA AboveIs ==
  ASSUME TreeInv
  PROVE  \A t \in DOMAIN thr :
           /\ Above[t] = IF Parent(t) = 0 THEN {} ELSE {Parent(t)} \cup Above[Parent(t)]
           /\ Above[t] \subseteq DOMAIN thr
<1> DEFINE N == Len(thr)
           P == [t \in 1 .. N |-> Parent(t)]
           V == SUBSET (1 .. N)
           base == [t \in 1 .. N |-> {}]
           F == [p \in (1 .. N) \X V |-> {x \in 1 .. N : x = P[p[1]]} \cup p[2]]
           W(g) == [t \in DOMAIN thr |->
                      IF Parent(t) = 0 THEN {} ELSE {Parent(t)} \cup g[Parent(t)]]
<1>1. N \in Nat /\ DOMAIN thr = 1 .. N
  BY ThreadFacts
<1>2. P \in [1 .. N -> Nat] /\ \A t \in 1 .. N : P[t] < t
  BY <1>1, ThreadFacts
<1>3. base \in [1 .. N -> V] /\ F \in [(1 .. N) \X V -> V]
  OBVIOUS
<1>4. PICK e : Solves(e, N, P, V, base, F)
  <2>1. Equation(N, P, V, base, F)
    BY <1>1, <1>2, <1>3 DEF Equation
  <2> HIDE DEF N, P, V, base, F
  <2> QED BY <2>1, ParentRecursion
<1>4a. /\ e \in [1 .. N -> V]
       /\ \A t \in 1 .. N : e[t] = IF P[t] = 0 THEN base[t] ELSE F[<<t, e[P[t]]>>]
  <2> HIDE DEF N, P, V, base, F
  <2> QED BY <1>4 DEF Solves
<1>5. ASSUME NEW t \in 1 .. N
      PROVE  e[t] = IF Parent(t) = 0 THEN {} ELSE {Parent(t)} \cup e[Parent(t)]
  <2>1. CASE Parent(t) = 0
    BY <1>4a, <2>1
  <2>2. CASE Parent(t) # 0
    <3>1. Parent(t) \in 1 .. N
      BY <1>1, <2>2, ThreadFacts
    <3>2. P[t] = Parent(t) /\ e[Parent(t)] \in V
      BY <1>4a, <3>1
    <3>3. e[t] = F[<<t, e[Parent(t)]>>]
      BY <1>4a, <2>2, <3>2
    <3>4. F[<<t, e[Parent(t)]>>] = {x \in 1 .. N : x = P[t]} \cup e[Parent(t)]
      BY <3>2
    <3> QED BY <2>2, <3>1, <3>2, <3>3, <3>4
  <2> QED BY <2>1, <2>2
<1>6. e = W(e)
  BY <1>1, <1>4a, <1>5
<1>7. Above = CHOOSE g : g = W(g)
  BY DEF Above
<1>8. Above = W(Above)
  <2> HIDE DEF W
  <2> QED BY <1>6, <1>7
<1>9. \A t \in DOMAIN thr :
        Above[t] = IF Parent(t) = 0 THEN {} ELSE {Parent(t)} \cup Above[Parent(t)]
  <2>1. \A t \in DOMAIN thr :
          W(Above)[t] = IF Parent(t) = 0 THEN {} ELSE {Parent(t)} \cup Above[Parent(t)]
    OBVIOUS
  <2> HIDE DEF W
  <2> QED BY <1>8, <2>1
<1> DEFINE Bad == {t \in DOMAIN thr : ~(Above[t] \subseteq DOMAIN thr)}
<1>10. Bad = {}
  <2> SUFFICES ASSUME Bad # {} PROVE FALSE
    OBVIOUS
  <2>1. Bad \subseteq Nat
    BY ThreadFacts
  <2>2. PICK t \in Bad : \A u \in Bad : t <= u
    <3> HIDE DEF Bad
    <3> QED BY <2>1, Smallest
  <2>3. Parent(t) # 0
    BY <1>9, <2>2
  <2>4. Parent(t) \in DOMAIN thr /\ ~(t <= Parent(t))
    BY <2>2, <2>3, ThreadFacts
  <2>5. Above[Parent(t)] \subseteq DOMAIN thr
    BY <2>2, <2>4
  <2> QED BY <1>9, <2>2, <2>3, <2>4, <2>5
<1> QED BY <1>9, <1>10

(* What MayRun says of two threads whose answer does not come from their   *)
(* parents.                                                                *)
Here(t, u) ==
  IF t = u THEN IsReentrant(t)
  ELSE IF IsDescendant(t, u) \/ IsDescendant(u, t) THEN TRUE
  ELSE IF Parent(t) = Parent(u) THEN MayHappenInParallel(t, u)
  ELSE FALSE

Settled(t, u) ==
  \/ t = u \/ IsDescendant(t, u) \/ IsDescendant(u, t)
  \/ Parent(t) = Parent(u) \/ Parent(t) = 0 \/ Parent(u) = 0

LEMMA HereBoolean == \A t, u : Here(t, u) \in BOOLEAN
<1>1. \A t : IsReentrant(t) \in BOOLEAN
  BY DEF IsReentrant
<1>2. \A t, u : MayHappenInParallel(t, u) \in BOOLEAN
  <2>1. \A t, u : (Parent(t) = 0) => MayHappenInParallel(t, u) \in BOOLEAN
    BY DEF MayHappenInParallel
  <2>2. \A t, u : (Parent(t) # 0) => MayHappenInParallel(t, u) \in BOOLEAN
    BY DEF MayHappenInParallel
  <2> QED BY <2>1, <2>2
<1> QED BY <1>1, <1>2 DEF Here

LEMMA MayRunIs ==
  ASSUME TreeInv, NEW t \in DOMAIN thr, NEW u \in DOMAIN thr
  PROVE  MayRun[t][u] = IF Settled(t, u) THEN Here(t, u) ELSE MayRun[Parent(t)][Parent(u)]
<1> DEFINE N == Len(thr)
           P == [v \in 1 .. N |-> Parent(v)]
           V == [1 .. N -> BOOLEAN]
           base == [v \in 1 .. N |-> [w \in 1 .. N |-> Here(v, w)]]
           F == [p \in (1 .. N) \X V |->
                   [w \in 1 .. N |-> IF Settled(p[1], w) THEN Here(p[1], w)
                                     ELSE p[2][Parent(w)]]]
           B(g, v, w) ==
             IF v = w THEN IsReentrant(v)
             ELSE IF IsDescendant(v, w) \/ IsDescendant(w, v) THEN TRUE
             ELSE IF Parent(v) = Parent(w) THEN MayHappenInParallel(v, w)
             ELSE Parent(v) # 0 /\ Parent(w) # 0 /\ g[Parent(v)][Parent(w)]
           W(g) == [v \in DOMAIN thr |-> [w \in DOMAIN thr |-> B(g, v, w)]]
<1>1. N \in Nat /\ DOMAIN thr = 1 .. N
  BY ThreadFacts
<1>2. P \in [1 .. N -> Nat] /\ \A v \in 1 .. N : P[v] < v
  BY <1>1, ThreadFacts
<1>3. base \in [1 .. N -> V]
  BY HereBoolean
<1>4. F \in [(1 .. N) \X V -> V]
  <2>1. ASSUME NEW p \in (1 .. N) \X V, NEW w \in 1 .. N
        PROVE  (IF Settled(p[1], w) THEN Here(p[1], w) ELSE p[2][Parent(w)]) \in BOOLEAN
    <3>1. CASE Settled(p[1], w)
      BY <3>1, HereBoolean
    <3>2. CASE ~Settled(p[1], w)
      <4>1. Parent(w) \in 1 .. N
        BY <1>1, <3>2, ThreadFacts DEF Settled
      <4>2. p[2] \in [1 .. N -> BOOLEAN]
        OBVIOUS
      <4> QED BY <3>2, <4>1, <4>2
    <3> QED BY <3>1, <3>2
  <2> QED BY <2>1
<1>5. PICK e : Solves(e, N, P, V, base, F)
  <2>1. Equation(N, P, V, base, F)
    BY <1>1, <1>2, <1>3, <1>4 DEF Equation
  <2> HIDE DEF N, P, V, base, F
  <2> QED BY <2>1, ParentRecursion
<1>6. /\ e \in [1 .. N -> V]
      /\ \A v \in 1 .. N : e[v] = IF P[v] = 0 THEN base[v] ELSE F[<<v, e[P[v]]>>]
  <2> HIDE DEF N, P, V, base, F
  <2> QED BY <1>5 DEF Solves
<1>7. ASSUME NEW v \in 1 .. N, NEW w \in 1 .. N PROVE e[v][w] = B(e, v, w)
  <2>1. CASE Parent(v) = 0
    <3>1. e[v] = base[v]
      BY <1>6, <2>1
    <3>2. e[v][w] = Here(v, w)
      BY <3>1
    <3> QED BY <2>1, <3>2 DEF Here
  <2>2. CASE Parent(v) # 0
    <3>1. Parent(v) \in 1 .. N
      BY <1>1, <2>2, ThreadFacts
    <3>2. P[v] = Parent(v) /\ e[Parent(v)] \in V
      BY <1>6, <3>1
    <3>3. e[v] = F[<<v, e[Parent(v)]>>]
      BY <1>6, <2>2, <3>2
    <3>4. e[v][w] = IF Settled(v, w) THEN Here(v, w) ELSE e[Parent(v)][Parent(w)]
      BY <3>2, <3>3
    <3>5. CASE Settled(v, w)
      BY <2>2, <3>4, <3>5 DEF Settled, Here
    <3>6. CASE ~Settled(v, w)
      <4>1. Parent(w) \in 1 .. N
        BY <1>1, <3>6, ThreadFacts DEF Settled
      <4>2. e[Parent(v)][Parent(w)] \in BOOLEAN
        BY <3>2, <4>1
      <4> QED BY <2>2, <3>4, <3>6, <4>2 DEF Settled
    <3> QED BY <3>5, <3>6
  <2> QED BY <2>1, <2>2
<1>8. e = W(e)
  <2>1. e = [v \in 1 .. N |-> [w \in 1 .. N |-> e[v][w]]]
    BY <1>6
  <2>2. [v \in 1 .. N |-> [w \in 1 .. N |-> e[v][w]]]
          = [v \in 1 .. N |-> [w \in 1 .. N |-> B(e, v, w)]]
    <3> HIDE DEF B
    <3> QED BY <1>7
  <2> HIDE DEF B
  <2> QED BY <1>1, <2>1, <2>2
<1>9. MayRun = CHOOSE g : g = W(g)
  BY DEF MayRun
<1>10. MayRun = W(MayRun)
  <2> HIDE DEF W
  <2> QED BY <1>8, <1>9
<1>11. MayRun[t][u] = B(MayRun, t, u)
  <2>1. W(MayRun)[t][u] = B(MayRun, t, u)
    <3> HIDE DEF B
    <3> QED OBVIOUS
  <2> HIDE DEF W, B
  <2> QED BY <1>10, <2>1
<1> QED
  <2>1. CASE Settled(t, u)
    BY <1>11, <2>1 DEF Settled, Here
  <2>2. CASE ~Settled(t, u)
    <3>1. Parent(t) \in 1 .. N /\ Parent(u) \in 1 .. N
      BY <1>1, <2>2, ThreadFacts DEF Settled
    <3>2. MayRun[Parent(t)][Parent(u)] \in BOOLEAN
      <4>1. MayRun[Parent(t)][Parent(u)] = B(MayRun, Parent(t), Parent(u))
        <5>1. W(MayRun)[Parent(t)][Parent(u)] = B(MayRun, Parent(t), Parent(u))
          <6> HIDE DEF B
          <6> QED BY <1>1, <3>1
        <5> HIDE DEF W, B
        <5> QED BY <1>10, <5>1
      <4> QED BY <4>1, HereBoolean DEF Here
    <3> QED BY <1>11, <2>2, <3>2 DEF Settled
  <2> QED BY <2>1, <2>2

----------------------------------------------------------------------------
(* A thread with those above it.                                           *)
Line(t) == {t} \cup Above[t]

LEMMA LineIs ==
  ASSUME TreeInv, NEW t \in DOMAIN thr
  PROVE  /\ Above[t] = IF Parent(t) = 0 THEN {} ELSE Line(Parent(t))
         /\ Line(t) \subseteq DOMAIN thr
BY AboveIs DEF Line

(* Those above a thread are older, have a child and have their own line    *)
(* in that of the thread; there is one root among them.                    *)
LineOK(t) ==
  /\ \A a \in Above[t] : a < t /\ ~Childless(a) /\ Line(a) \subseteq Above[t]
  /\ \E r \in Line(t) : Parent(r) = 0 /\ \A q \in Line(t) : Parent(q) = 0 => q = r

LEMMA LinesOK == ASSUME TreeInv PROVE \A t \in DOMAIN thr : LineOK(t)
<1> DEFINE Bad == {t \in DOMAIN thr : ~LineOK(t)}
<1> SUFFICES ASSUME Bad # {} PROVE FALSE
  OBVIOUS
<1>1. Bad \subseteq Nat
  BY ThreadFacts
<1>2. PICK t \in Bad : \A u \in Bad : t <= u
  <2> HIDE DEF Bad
  <2> QED BY <1>1, Smallest
<1>3. t \in DOMAIN thr /\ ~LineOK(t)
  OBVIOUS
<1>4. CASE Parent(t) = 0
  <2>1. Above[t] = {} /\ Line(t) = {t}
    BY <1>3, <1>4, LineIs DEF Line
  <2> QED BY <1>3, <1>4, <2>1 DEF LineOK
<1>5. CASE Parent(t) # 0
  <2> DEFINE p == Parent(t)
  <2>1. p \in DOMAIN thr /\ p \in Nat /\ t \in Nat /\ p < t
    BY <1>3, <1>5, ThreadFacts
  <2>2. LineOK(p)
    BY <1>2, <2>1
  <2>3. Above[t] = Line(p) /\ Line(t) = {t} \cup Line(p)
    BY <1>3, <1>5, LineIs DEF Line
  <2>4. ~Childless(p)
    BY <1>3 DEF Childless, Parent
  <2>5. ASSUME NEW a \in Above[t] PROVE a < t /\ ~Childless(a) /\ Line(a) \subseteq Above[t]
    <3>1. CASE a = p
      BY <2>1, <2>3, <2>4, <3>1
    <3>2. CASE a \in Above[p]
      <4>1. a < p /\ ~Childless(a) /\ Line(a) \subseteq Above[p]
        BY <2>2, <3>2 DEF LineOK
      <4>2. a \in Nat
        BY <2>1, <3>2, AboveIs, ThreadFacts
      <4> QED BY <2>1, <2>3, <4>1, <4>2 DEF Line
    <3> QED BY <2>3, <3>1, <3>2 DEF Line
  <2>6. \E r \in Line(t) : Parent(r) = 0 /\ \A q \in Line(t) : Parent(q) = 0 => q = r
    <3> HIDE DEF p
    <3> QED BY <1>5, <2>2, <2>3 DEF LineOK
  <2> QED BY <1>3, <2>5, <2>6 DEF LineOK
<1> QED BY <1>4, <1>5

(* A kept thread is kept with all above it.                                *)
LEMMA KeptLine == ASSUME TreeInv, NEW t \in live PROVE Ancestors(t) = Line(t) /\ t \in DOMAIN thr
<1>1. t \in DOMAIN thr
  BY DEF TreeInv, Surviving
<1>2. \A a \in Above[t] : a \in live
  BY <1>1, LinesOK, AboveIs DEF LineOK, TreeInv, Surviving
<1> QED BY <1>1, <1>2 DEF Ancestors, Line, IsDescendant

LEMMA RootIs ==
  ASSUME TreeInv, NEW t \in DOMAIN thr
  PROVE  /\ Root(t) \in Line(t) /\ Parent(Root(t)) = 0
         /\ \A q \in Line(t) : Parent(q) = 0 => q = Root(t)
<1>1. PICK r \in Line(t) : Parent(r) = 0 /\ \A q \in Line(t) : Parent(q) = 0 => q = r
  BY LinesOK DEF LineOK
<1>2. Line(t) \subseteq DOMAIN thr
  BY LineIs
<1>3. r \in DOMAIN thr /\ thr[r].parent = 0 /\ (r = t \/ IsDescendant(t, r))
  BY <1>1, <1>2 DEF Parent, IsDescendant, Line
<1>4. /\ Root(t) \in DOMAIN thr /\ thr[Root(t)].parent = 0
      /\ Root(t) = t \/ IsDescendant(t, Root(t))
  BY <1>3 DEF Root
<1>5. Root(t) \in Line(t) /\ Parent(Root(t)) = 0
  BY <1>4 DEF Parent, IsDescendant, Line
<1> QED BY <1>1, <1>5

LEMMA RootOfParent ==
  ASSUME TreeInv, NEW t \in DOMAIN thr, Parent(t) # 0
  PROVE  Root(Parent(t)) = Root(t)
<1>1. Parent(t) \in DOMAIN thr /\ Line(t) = {t} \cup Line(Parent(t))
  BY ThreadFacts, LineIs DEF Line
<1> QED BY <1>1, RootIs

Depth(t) == Cardinality(Line(t))

LEMMA DepthIs ==
  ASSUME TreeInv, NEW t \in DOMAIN thr
  PROVE  /\ Depth(t) \in Nat
         /\ Parent(t) # 0 => Depth(t) = Depth(Parent(t)) + 1
         /\ \A a \in Above[t] : Depth(a) < Depth(t)
<1>1. Above[t] \subseteq DOMAIN thr /\ IsFiniteSet(DOMAIN thr)
  <2>1. DOMAIN thr = 1..Len(thr) /\ Len(thr) \in Int /\ 1 \in Int
    BY DEF TreeInv
  <2>2. IsFiniteSet(1..Len(thr))
    BY <2>1, FS_Interval
  <2> QED BY <2>1, <2>2, AboveIs
<1>2. IsFiniteSet(Above[t]) /\ Cardinality(Above[t]) \in Nat
  BY <1>1, FS_Subset, FS_CardinalityType
<1>3. t \notin Above[t]
  BY LinesOK, ThreadFacts DEF LineOK
<1>4. Depth(t) = Cardinality(Above[t]) + 1
  <2>1. Line(t) = Above[t] \cup {t}
    BY DEF Line
  <2> QED BY <1>2, <1>3, <2>1, FS_AddElement DEF Depth
<1>5. Parent(t) # 0 => Depth(t) = Depth(Parent(t)) + 1
  BY <1>4, LineIs DEF Depth
<1>6. ASSUME NEW a \in Above[t] PROVE Depth(a) < Depth(t)
  <2>1. Line(a) \subseteq Above[t]
    BY LinesOK DEF LineOK
  <2>2. Cardinality(Line(a)) <= Cardinality(Above[t]) /\ Cardinality(Line(a)) \in Nat
    BY <1>2, <2>1, FS_Subset, FS_CardinalityType
  <2> QED BY <1>2, <1>4, <2>2 DEF Depth
<1> QED BY <1>2, <1>4, <1>5, <1>6

(* Two of the threads above t and u are siblings of which one is joined    *)
(* before the other is forked.                                             *)
Apart(t, u) ==
  \E a \in Line(t) \ Line(u), b \in Line(u) \ Line(t) :
    /\ Parent(a) = Parent(b)
    /\ JoinedBefore(a, b, Parent(a)) \/ JoinedBefore(b, a, Parent(a))

JoinsApart(t, u) ==
  Depth(t) = Depth(u) /\ t \notin Line(u) /\ u \notin Line(t) /\ Apart(t, u)

LEMMA SiblingsApart ==
  ASSUME TreeInv, NEW t \in DOMAIN thr, NEW u \in DOMAIN thr,
         t \notin Line(u), u \notin Line(t), Parent(t) = Parent(u), Parent(t) # 0
  PROVE  ~MayRun[t][u] <=> JoinsApart(t, u)
<1>1. t # u /\ ~IsDescendant(t, u) /\ ~IsDescendant(u, t)
  BY DEF Line, IsDescendant
<1>2. MayRun[t][u] = MayHappenInParallel(t, u)
  BY <1>1, MayRunIs DEF Settled, Here
<1>3. MayHappenInParallel(t, u)
        = (~JoinedBefore(t, u, Parent(t)) /\ ~JoinedBefore(u, t, Parent(t)))
  BY DEF MayHappenInParallel
<1>4. Depth(t) = Depth(u)
  BY DepthIs
<1>5. Line(t) = {t} \cup Line(Parent(t)) /\ Line(u) = {u} \cup Line(Parent(t))
  BY LineIs DEF Line
<1>6. Line(t) \ Line(u) = {t} /\ Line(u) \ Line(t) = {u}
  BY <1>5
<1> QED BY <1>2, <1>3, <1>4, <1>6 DEF JoinsApart, Apart

LEMMA LineClosed ==
  ASSUME TreeInv, NEW t \in DOMAIN thr, NEW x \in Line(t), Parent(x) # 0
  PROVE  Parent(x) \in Line(t)
<1>1. x \in DOMAIN thr
  BY LineIs
<1>2. Parent(x) \in Above[x]
  BY <1>1, LineIs DEF Line
<1>3. CASE x = t
  BY <1>2, <1>3 DEF Line
<1>4. CASE x \in Above[t]
  <2>1. Line(x) \subseteq Above[t]
    BY <1>4, LinesOK DEF LineOK
  <2> QED BY <1>2, <2>1 DEF Line
<1> QED BY <1>3, <1>4 DEF Line

LEMMA CousinsApart ==
  ASSUME TreeInv, NEW t \in DOMAIN thr, NEW u \in DOMAIN thr,
         t \notin Line(u), u \notin Line(t), Parent(t) # Parent(u),
         Parent(t) # 0, Parent(u) # 0
  PROVE  JoinsApart(t, u) <=> JoinsApart(Parent(t), Parent(u))
<1> DEFINE p == Parent(t)
           q == Parent(u)
<1>1. /\ p \in DOMAIN thr /\ q \in DOMAIN thr
      /\ Line(t) = {t} \cup Line(p) /\ Above[t] = Line(p)
      /\ Line(u) = {u} \cup Line(q) /\ Above[u] = Line(q)
  BY ThreadFacts, LineIs DEF Line
<1>2. Depth(t) = Depth(p) + 1 /\ Depth(u) = Depth(q) + 1
      /\ Depth(p) \in Nat /\ Depth(q) \in Nat
  BY <1>1, DepthIs
<1>3. ASSUME JoinsApart(p, q) PROVE JoinsApart(t, u)
  <2>1. Apart(t, u)
    BY <1>1, <1>3 DEF JoinsApart, Apart
  <2> QED BY <1>2, <1>3, <2>1 DEF JoinsApart
<1>4. ASSUME JoinsApart(t, u) PROVE JoinsApart(p, q)
  <2>1. Depth(p) = Depth(q)
    BY <1>2, <1>4 DEF JoinsApart
  <2>2. p \notin Line(q) /\ q \notin Line(p)
    <3>1. \A a \in Above[q] : Depth(a) < Depth(q)
      BY <1>1, DepthIs
    <3>2. \A a \in Above[p] : Depth(a) < Depth(p)
      BY <1>1, DepthIs
    <3> QED BY <1>2, <2>1, <3>1, <3>2 DEF Line
  <2>3. PICK a \in Line(t) \ Line(u), b \in Line(u) \ Line(t) :
          /\ Parent(a) = Parent(b)
          /\ JoinedBefore(a, b, Parent(a)) \/ JoinedBefore(b, a, Parent(a))
    BY <1>4 DEF JoinsApart, Apart
  <2>4. \A x \in Line(p) : Parent(x) # 0 => Parent(x) \in Line(p)
    BY <1>1, LineClosed
  <2>5. \A x \in Line(q) : Parent(x) # 0 => Parent(x) \in Line(q)
    BY <1>1, LineClosed
  <2>6. a # t /\ b # u
    BY <1>1, <2>2, <2>3, <2>4, <2>5
  <2>7. a \in Line(p) \ Line(q) /\ b \in Line(q) \ Line(p)
    BY <1>1, <2>3, <2>6
  <2>8. Apart(p, q)
    BY <2>3, <2>7 DEF Apart
  <2> QED BY <2>1, <2>2, <2>8 DEF JoinsApart
<1> QED BY <1>3, <1>4

LEMMA OrderIsApart ==
  ASSUME TreeInv
  PROVE  \A t, u \in DOMAIN thr :
           t # u /\ Root(t) = Root(u) => (~MayRun[t][u] <=> JoinsApart(t, u))
<1> DEFINE Good(t) == \A u \in DOMAIN thr :
             t # u /\ Root(t) = Root(u) => (~MayRun[t][u] <=> JoinsApart(t, u))
           Bad == {t \in DOMAIN thr : ~Good(t)}
<1> SUFFICES ASSUME Bad # {} PROVE FALSE
  OBVIOUS
<1>1. PICK t \in Bad : \A u \in Bad : t <= u
  <2>1. Bad \subseteq Nat
    BY ThreadFacts
  <2> HIDE DEF Bad
  <2> QED BY <2>1, Smallest
<1>2. PICK u \in DOMAIN thr :
        t # u /\ Root(t) = Root(u) /\ ~(~MayRun[t][u] <=> JoinsApart(t, u))
  OBVIOUS
<1>3. t \in DOMAIN thr
  OBVIOUS
<1>4. t \notin Line(u) /\ u \notin Line(t)
  <2> SUFFICES ASSUME t \in Line(u) \/ u \in Line(t) PROVE FALSE
    OBVIOUS
  <2>1. IsDescendant(t, u) \/ IsDescendant(u, t)
    BY <1>2 DEF Line, IsDescendant
  <2>2. MayRun[t][u]
    BY <1>2, <1>3, <2>1, MayRunIs DEF Settled, Here
  <2> QED BY <1>2, <2>2 DEF JoinsApart
<1>5. Parent(t) # 0 /\ Parent(u) # 0
  <2>1. t \in Line(t) /\ u \in Line(u)
    BY DEF Line
  <2>2. Root(t) \in Line(t) /\ Root(u) \in Line(u)
    BY <1>2, <1>3, RootIs
  <2>3. Parent(t) = 0 => t = Root(t)
    BY <1>3, <2>1, RootIs
  <2>4. Parent(u) = 0 => u = Root(u)
    BY <1>2, <2>1, RootIs
  <2> QED BY <1>2, <1>4, <2>2, <2>3, <2>4
<1>6. Parent(t) # Parent(u)
  BY <1>2, <1>3, <1>4, <1>5, SiblingsApart
<1> DEFINE p == Parent(t)
           q == Parent(u)
<1>7. p \in DOMAIN thr /\ q \in DOMAIN thr /\ p < t /\ p \in Nat /\ t \in Nat
  BY <1>2, <1>3, <1>5, ThreadFacts
<1>8. Root(p) = Root(q)
  BY <1>2, <1>3, <1>5, RootOfParent
<1>9. Good(p)
  <2>1. p \notin Bad
    BY <1>1, <1>7
  <2> HIDE DEF Good, p
  <2> QED BY <1>7, <2>1
<1>10. ~MayRun[p][q] <=> JoinsApart(p, q)
  BY <1>6, <1>7, <1>8, <1>9
<1>11. MayRun[t][u] = MayRun[p][q]
  <2>1. ~Settled(t, u)
    BY <1>2, <1>4, <1>5, <1>6 DEF Settled, Line, IsDescendant
  <2> QED BY <1>2, <1>3, <2>1, MayRunIs
<1>12. JoinsApart(t, u) <=> JoinsApart(p, q)
  BY <1>2, <1>3, <1>4, <1>5, <1>6, CousinsApart
<1> QED BY <1>2, <1>10, <1>11, <1>12

(* OrderedByJoin, for every program: by the induction on t of OrderIsApart *)
(* (ThreadCreationTree.cpp:834-908, 963-996).                              *)
THEOREM OrderIsByJoin == StaticSpec => []OrderedByJoin
<1> DEFINE Exact(t, u) ==
             /\ Cardinality(Ancestors(t)) = Cardinality(Ancestors(u))
             /\ t \notin Ancestors(u) /\ u \notin Ancestors(t)
             /\ Ordered(t, u)
<1>1. ASSUME TreeInv, NEW t \in live, NEW u \in live, t # u, Root(t) = Root(u)
      PROVE  ~MayThreadsRunConcurrently(t, u) <=> Exact(t, u)
  <2>1. /\ t \in DOMAIN thr /\ u \in DOMAIN thr
        /\ Ancestors(t) = Line(t) /\ Ancestors(u) = Line(u)
    BY <1>1, KeptLine
  <2>2. Ordered(t, u) <=> Apart(t, u)
    BY <2>1 DEF Ordered, Apart, Parent
  <2>3. ~MayRun[t][u] <=> JoinsApart(t, u)
    BY <1>1, <2>1, OrderIsApart
  <2> QED BY <2>1, <2>2, <2>3 DEF JoinsApart, Depth, MayThreadsRunConcurrently
<1>2. ASSUME NEW t, NEW u, Parent(t) = Parent(u)
      PROVE  MayHappenInParallel(t, u) <=> MayHappenInParallel(u, t)
  <2>1. RootsConcurrent(t, u) <=> RootsConcurrent(u, t)
    <3>1. {thr[t].main, thr[u].main} = {thr[u].main, thr[t].main}
      OBVIOUS
    <3> QED BY <3>1 DEF RootsConcurrent
  <2>2. CASE Parent(t) = 0
    BY <1>2, <2>1, <2>2 DEF MayHappenInParallel
  <2>3. CASE Parent(t) # 0
    BY <1>2, <2>3 DEF MayHappenInParallel
  <2> QED BY <2>2, <2>3
<1>3. TreeInv => OrderedByJoin
  BY <1>1, <1>2 DEF OrderedByJoin
<1> QED BY <1>3, TreeAlways, PTL

----------------------------------------------------------------------------
(* The lock edges of the happens-before graph.                             *)

(* A set in some order: all of it.                                         *)
LEMMA SeqOfSet ==
  ASSUME NEW S, IsFiniteSet(S), NEW s \in SetToSeqs(S)
  PROVE  /\ Len(s) \in Nat /\ DOMAIN s = 1 .. Len(s) /\ s \in [1 .. Len(s) -> S]
         /\ \A x \in S : \E i \in 1 .. Len(s) : s[i] = x
         /\ \A i, j \in 1 .. Len(s) : i # j => s[i] # s[j]
<1> DEFINE n == Cardinality(S)
           D == 1 .. n
<1>1. n \in Nat /\ 1 \in Int /\ n \in Int
  BY FS_CardinalityType
<1>2. s \in [D -> S] /\ \A i, j \in D : i # j => s[i] # s[j]
  BY DEF SetToSeqs
<1>3. s \in Injection(D, S)
  <2> HIDE DEF D
  <2> QED BY <1>2 DEF Injection, IsInjective
<1>4. IsFiniteSet(D) /\ Cardinality(D) = n
  <2> HIDE DEF n
  <2> QED BY <1>1, FS_Interval
<1>5. s \in Surjection(D, S)
  <2> HIDE DEF D
  <2> QED BY <1>3, <1>4, FS_Injection
<1>6. Len(s) = n /\ DOMAIN s = D
  <2> HIDE DEF n
  <2>1. s \in Seq(S)
    BY <1>1, <1>2, FunctionIsSeq
  <2>2. DOMAIN s = 1 .. Len(s) /\ Len(s) \in Nat
    BY <2>1
  <2>3. DOMAIN s = 1 .. n
    BY <1>2
  <2> DEFINE l == Len(s)
  <2>4. l \in Nat /\ \A i \in Nat : (1 <= i /\ i <= l) <=> (1 <= i /\ i <= n)
    <3>1. l \in Nat /\ 1 .. l = 1 .. n
      BY <2>2, <2>3
    <3> HIDE DEF l
    <3> QED BY <1>1, <3>1
  <2>5. l = n
    <3> HIDE DEF l
    <3>1. (1 <= l <=> (1 <= l /\ l <= n)) /\ ((1 <= n /\ n <= l) <=> 1 <= n)
      BY <1>1, <2>4
    <3> QED BY <1>1, <2>4, <3>1
  <2> QED BY <2>3, <2>5
<1>7. \A x \in S : \E i \in D : s[i] = x
  <2> HIDE DEF D
  <2> QED BY <1>5 DEF Surjection
<1> QED BY <1>1, <1>2, <1>6, <1>7

LEMMA MinIn ==
  ASSUME NEW S, S \subseteq Nat, S # {}
  PROVE  Min(S) \in S /\ \A x \in S : Min(S) <= x
BY Smallest DEF Min

(* One lock put in its class                                               *)
Fits(prev, a) == {i \in DOMAIN prev : LockAlias(acq[prev[i][1]], acq[a])}

Placed(prev, a) ==
  IF Fits(prev, a) = {} THEN Append(prev, <<a>>)
  ELSE [prev EXCEPT ![Min(Fits(prev, a))] = Append(@, a)]

(* a class of its own, or one more in class k                              *)
NewClass(prev, a) ==
  /\ Fits(prev, a) = {}
  /\ DOMAIN Placed(prev, a) = 1 .. Len(prev) + 1
  /\ \A i \in 1 .. Len(prev) : Placed(prev, a)[i] = prev[i]
  /\ Placed(prev, a)[Len(prev) + 1] = <<a>>

OneMore(prev, a, k) ==
  /\ DOMAIN Placed(prev, a) = DOMAIN prev
  /\ \A i \in DOMAIN prev \ {k} : Placed(prev, a)[i] = prev[i]
  /\ Placed(prev, a)[k] = Append(prev[k], a)

LEMMA PlacedIs ==
  ASSUME NEW S, NEW prev \in Seq(Seq(S)), NEW a \in S
  PROVE  /\ Placed(prev, a) \in Seq(Seq(S))
         /\ Fits(prev, a) = {} => NewClass(prev, a)
         /\ Fits(prev, a) # {} =>
              \E k \in Fits(prev, a) :
                OneMore(prev, a, k) /\ \A i \in Fits(prev, a) : k <= i
<1> DEFINE Q == Seq(S)
<1>1. <<a>> \in Q
  OBVIOUS
<1>2. CASE Fits(prev, a) = {}
  <2>1. Placed(prev, a) = Append(prev, <<a>>)
    BY <1>2 DEF Placed
  <2> HIDE DEF Q
  <2>2. prev \in Seq(Q)
    BY DEF Q
  <2>3. /\ Append(prev, <<a>>) \in Seq(Q)
        /\ DOMAIN Append(prev, <<a>>) = 1 .. Len(prev) + 1
        /\ \A i \in 1 .. Len(prev) : Append(prev, <<a>>)[i] = prev[i]
        /\ Append(prev, <<a>>)[Len(prev) + 1] = <<a>>
    BY <1>1, <2>2
  <2> QED BY <1>2, <2>1, <2>3 DEF Q, NewClass
<1>3. CASE Fits(prev, a) # {}
  <2> DEFINE k == Min(Fits(prev, a))
  <2>1. /\ k \in Fits(prev, a) /\ Fits(prev, a) \subseteq DOMAIN prev
        /\ \A i \in Fits(prev, a) : k <= i
    <3>1. Fits(prev, a) \subseteq DOMAIN prev
      BY DEF Fits
    <3>2. DOMAIN prev \subseteq Nat
      <4> HIDE DEF Q
      <4>1. prev \in Seq(Q)
        BY DEF Q
      <4> QED BY <4>1
    <3> QED BY <1>3, <3>1, <3>2, MinIn
  <2> HIDE DEF k
  <2>2. Placed(prev, a) = [prev EXCEPT ![k] = Append(prev[k], a)]
    BY <1>3 DEF Placed, k
  <2>3. Append(prev[k], a) \in Q
    <3>1. prev[k] \in Q
      <4> HIDE DEF Q
      <4>1. prev \in Seq(Q)
        BY DEF Q
      <4> QED BY <2>1, <4>1
    <3> QED BY <3>1
  <2> DEFINE new == Append(prev[k], a)
  <2> HIDE DEF Q, new
  <2>4. prev \in Seq(Q) /\ new \in Q /\ Placed(prev, a) = [prev EXCEPT ![k] = new]
    BY <2>2, <2>3 DEF Q, new
  <2>5. Placed(prev, a) \in Seq(Q)
    BY <2>1, <2>4
  <2>6. /\ DOMAIN Placed(prev, a) = DOMAIN prev
        /\ \A i \in DOMAIN prev \ {k} : Placed(prev, a)[i] = prev[i]
        /\ Placed(prev, a)[k] = new
    BY <2>1, <2>4
  <2> QED BY <1>3, <2>1, <2>5, <2>6 DEF Q, new, OneMore
<1> QED BY <1>2, <1>3

(* What the recursion of buildLockEdges passes                             *)
LEMMA ClassesAre ==
  ASSUME NEW S, NEW order, Len(order) \in Nat, order \in [1 .. Len(order) -> S]
  PROVE  /\ ClassesAfter(order)[0] = <<>>
         /\ \A k \in 1 .. Len(order) :
              ClassesAfter(order)[k] = Placed(ClassesAfter(order)[k - 1], order[k])
         /\ \A k \in 0 .. Len(order) : ClassesAfter(order)[k] \in Seq(Seq(S))
<1> DEFINE N == Len(order)
           V == Seq(Seq(S))
           P == [k \in 1 .. N |-> k - 1]
           base == [k \in 1 .. N |-> Placed(<<>>, order[k])]
           F == [p \in (1 .. N) \X V |-> Placed(p[2], order[p[1]])]
           W(g) == [k \in 0 .. N |-> IF k = 0 THEN <<>> ELSE Placed(g[k - 1], order[k])]
<1> HIDE DEF V
<1>1. <<>> \in V
  <2>1. \A Q : <<>> \in Seq(Q)
    OBVIOUS
  <2> QED BY <2>1 DEF V
<1>2. \A v \in V, k \in 1 .. N : Placed(v, order[k]) \in V
  BY PlacedIs DEF V
<1>3. Equation(N, P, V, base, F)
  <2>1. P \in [1 .. N -> Nat] /\ \A k \in 1 .. N : P[k] < k
    OBVIOUS
  <2>2. base \in [1 .. N -> V]
    BY <1>1, <1>2
  <2>3. F \in [(1 .. N) \X V -> V]
    BY <1>2
  <2> HIDE DEF P, base, F
  <2> QED BY <2>1, <2>2, <2>3 DEF Equation
<1>4. PICK e : Solves(e, N, P, V, base, F)
  <2> HIDE DEF N, P, base, F
  <2> QED BY <1>3, ParentRecursion
<1>5. /\ e \in [1 .. N -> V]
      /\ \A k \in 1 .. N : e[k] = IF P[k] = 0 THEN base[k] ELSE F[<<k, e[P[k]]>>]
  <2> HIDE DEF N, P, base, F
  <2> QED BY <1>4 DEF Solves
<1> DEFINE c == [k \in 0 .. N |-> IF k = 0 THEN <<>> ELSE e[k]]
<1>6. ASSUME NEW k \in 1 .. N PROVE c[k] = Placed(c[k - 1], order[k])
  <2>1. P[k] = k - 1 /\ c[k] = e[k]
    OBVIOUS
  <2>2. CASE k - 1 = 0
    <3>1. e[k] = base[k] /\ base[k] = Placed(<<>>, order[k])
      BY <1>5, <2>1, <2>2
    <3>2. c[k - 1] = <<>>
      BY <2>2
    <3> HIDE DEF base, c, P
    <3> QED BY <2>1, <3>1, <3>2
  <2>3. CASE k - 1 # 0
    <3>1. k - 1 \in 1 .. N /\ k - 1 \in 0 .. N
      BY <2>3
    <3>2. e[k - 1] \in V /\ c[k - 1] = e[k - 1]
      BY <1>5, <2>3, <3>1
    <3>3. e[k] = F[<<k, e[k - 1]>>]
      BY <1>5, <2>1, <2>3
    <3>4. F[<<k, e[k - 1]>>] = Placed(e[k - 1], order[k])
      BY <3>2
    <3> HIDE DEF F, c, P
    <3> QED BY <2>1, <3>2, <3>3, <3>4
  <2> QED BY <2>2, <2>3
<1>7. c = W(c)
  <2>1. \A k \in 0 .. N : c[k] = IF k = 0 THEN <<>> ELSE Placed(c[k - 1], order[k])
    <3>1. c[0] = <<>>
      OBVIOUS
    <3>2. \A k \in 0 .. N : k = 0 \/ k \in 1 .. N
      OBVIOUS
    <3> HIDE DEF c
    <3> QED BY <1>6, <3>1, <3>2
  <2>2. c = [k \in 0 .. N |-> c[k]]
    OBVIOUS
  <2> HIDE DEF c
  <2> QED BY <2>1, <2>2
<1> DEFINE C == ClassesAfter(order)
<1>8. C = CHOOSE g : g = W(g)
  BY DEF ClassesAfter, Placed, Fits
<1>9. C = W(C)
  <2> HIDE DEF W, C
  <2> QED BY <1>7, <1>8
<1>10. \A k \in 0 .. N : C[k] = IF k = 0 THEN <<>> ELSE Placed(C[k - 1], order[k])
  <2>1. \A k \in 0 .. N : W(C)[k] = IF k = 0 THEN <<>> ELSE Placed(C[k - 1], order[k])
    <3> HIDE DEF C
    <3> QED OBVIOUS
  <2> HIDE DEF W, C
  <2> QED BY <1>9, <2>1
<1> HIDE DEF C
<1>11. /\ C[0] = <<>>
       /\ \A k \in 1 .. N : C[k] = Placed(C[k - 1], order[k])
  BY <1>10
<1> DEFINE S0 == {k \in Nat : k <= N => C[k] \in V}
<1>12. \A k \in Nat : k \in S0
  <2>1. 0 \in S0
    BY <1>1, <1>11
  <2>2. ASSUME NEW k \in Nat, k \in S0 PROVE k + 1 \in S0
    <3> SUFFICES ASSUME k + 1 <= N PROVE C[k + 1] \in V
      OBVIOUS
    <3>1. k + 1 \in 1 .. N /\ (k + 1) - 1 = k /\ C[k] \in V
      BY <2>2
    <3> QED BY <1>2, <1>11, <3>1
  <2> HIDE DEF S0
  <2> QED BY <2>1, <2>2, Induction
<1>13. \A k \in 0 .. N : C[k] \in V
  BY <1>12
<1> QED BY <1>11, <1>13 DEF C, V

(* A and B may be the same lock.                                           *)
Alike(a, b) == LockAlias(acq[a], acq[b])

(* x is in class i.                                                        *)
InClass(c, i, x) == \E j \in DOMAIN c[i] : c[i][j] = x

(* The classes of the locks in done, of which each is in one class: a lock *)
(* heads its class or may be the lock that does, and may not be the lock   *)
(* that heads an earlier one.                                              *)
ClassInv(c, done) ==
  /\ c \in Seq(Seq(Locks))
  /\ \A i \in DOMAIN c : c[i] # <<>>
  /\ \A i \in DOMAIN c : \A j \in DOMAIN c[i] :
       c[i][j] = c[i][1] \/ Alike(c[i][1], c[i][j])
  /\ \A i, k \in DOMAIN c : \A j \in DOMAIN c[i] : k < i => ~Alike(c[k][1], c[i][j])
  /\ \A i, k \in DOMAIN c : \A x : InClass(c, i, x) /\ InClass(c, k, x) => i = k
  /\ \A x : x \in done <=> \E i \in DOMAIN c : InClass(c, i, x)

LEMMA HeadFacts ==
  ASSUME NEW S, NEW s \in Seq(S), NEW a \in S
  PROVE  /\ s # <<>> => 1 \in DOMAIN s /\ s[1] \in S
         /\ DOMAIN s \subseteq DOMAIN Append(s, a)
         /\ \A j \in DOMAIN s : s[j] \in S /\ Append(s, a)[j] = s[j]
         /\ \A j \in DOMAIN Append(s, a) : j \in DOMAIN s \/ Append(s, a)[j] = a
         /\ \E j \in DOMAIN Append(s, a) : Append(s, a)[j] = a
<1>1. /\ Len(s) \in Nat /\ DOMAIN s = 1 .. Len(s)
      /\ DOMAIN Append(s, a) = 1 .. Len(s) + 1
      /\ Append(s, a)[Len(s) + 1] = a
      /\ \A j \in 1 .. Len(s) : s[j] \in S /\ Append(s, a)[j] = s[j]
  OBVIOUS
<1>2. s # <<>> => Len(s) # 0
  OBVIOUS
<1> QED BY <1>1, <1>2

LEMMA PlacedKeeps ==
  ASSUME NEW c, NEW done, ClassInv(c, done), NEW a \in Locks, a \notin done
  PROVE  ClassInv(Placed(c, a), done \cup {a})
<1> DEFINE d == Placed(c, a)
<1>1. c \in Seq(Seq(Locks))
  BY DEF ClassInv
<1>2. /\ \A i \in DOMAIN c : c[i] \in Seq(Locks)
      /\ DOMAIN c = 1 .. Len(c) /\ Len(c) \in Nat
  <2> DEFINE Q == Seq(Locks)
  <2> HIDE DEF Q
  <2>1. c \in Seq(Q)
    BY <1>1 DEF Q
  <2>2. \A i \in DOMAIN c : c[i] \in Q
    BY <2>1
  <2> QED BY <2>1, <2>2 DEF Q
<1>3. \A i \in DOMAIN c : 1 \in DOMAIN c[i] /\ c[i][1] \in Locks
  BY <1>2, HeadFacts DEF ClassInv
<1>4. d \in Seq(Seq(Locks))
  BY <1>1, PlacedIs
<1>5. \A i \in DOMAIN c : ~InClass(c, i, a)
  BY DEF ClassInv
<1>6. /\ \A i \in DOMAIN c : \A j \in DOMAIN c[i] :
           c[i][j] = c[i][1] \/ Alike(c[i][1], c[i][j])
      /\ \A i, k \in DOMAIN c : \A j \in DOMAIN c[i] : k < i => ~Alike(c[k][1], c[i][j])
      /\ \A i, k \in DOMAIN c : \A x : InClass(c, i, x) /\ InClass(c, k, x) => i = k
      /\ \A x : x \in done <=> \E i \in DOMAIN c : InClass(c, i, x)
  BY DEF ClassInv
<1> HIDE DEF d
<1>7. CASE Fits(c, a) = {}
  <2> DEFINE n == Len(c) + 1
  <2>1. NewClass(c, a)
    BY <1>1, <1>7, PlacedIs
  <2>2. /\ DOMAIN d = DOMAIN c \cup {n} /\ n \notin DOMAIN c
        /\ \A i \in DOMAIN c : d[i] = c[i] /\ i < n /\ i \in Nat
        /\ d[n] = <<a>> /\ n \in Nat
    BY <1>2, <2>1 DEF NewClass, d
  <2> HIDE DEF n
  <2>3. d[n] # <<>> /\ d[n][1] = a /\ DOMAIN d[n] = {1}
    BY <2>2
  <2>4. \A i \in DOMAIN c : ~Alike(c[i][1], a)
    BY <1>7 DEF Fits, Alike
  <2>5. \A x : /\ InClass(d, n, x) <=> x = a
              /\ \A i \in DOMAIN c : InClass(d, i, x) <=> InClass(c, i, x)
    BY <2>2, <2>3 DEF InClass
  <2>6. \A i \in DOMAIN d : d[i] # <<>>
    BY <2>2, <2>3 DEF ClassInv
  <2>7. \A i \in DOMAIN d : \A j \in DOMAIN d[i] :
          d[i][j] = d[i][1] \/ Alike(d[i][1], d[i][j])
    BY <1>6, <2>2, <2>3
  <2>8. ASSUME NEW i \in DOMAIN d, NEW k \in DOMAIN d, NEW j \in DOMAIN d[i], k < i
        PROVE  ~Alike(d[k][1], d[i][j])
    <3>1. CASE i \in DOMAIN c
      <4>1. k # n
        BY <2>2, <2>8, <3>1
      <4>2. k \in DOMAIN c /\ d[k] = c[k] /\ d[i] = c[i]
        BY <2>2, <3>1, <4>1
      <4> QED BY <1>6, <2>8, <3>1, <4>2
    <3>2. CASE i = n
      <4>1. k # n
        BY <2>2, <2>8, <3>2
      <4>2. k \in DOMAIN c /\ d[k] = c[k]
        BY <2>2, <4>1
      <4> QED BY <2>3, <2>4, <2>8, <3>2, <4>2
    <3> QED BY <2>2, <3>1, <3>2
  <2>9. ASSUME NEW i \in DOMAIN d, NEW k \in DOMAIN d, NEW x, InClass(d, i, x), InClass(d, k, x)
        PROVE  i = k
    <3>1. CASE x = a
      <4>1. i = n
        BY <1>5, <2>2, <2>5, <2>9, <3>1
      <4>2. k = n
        BY <1>5, <2>2, <2>5, <2>9, <3>1
      <4> QED BY <4>1, <4>2
    <3>2. CASE x # a
      <4>1. i \in DOMAIN c /\ InClass(c, i, x)
        BY <2>2, <2>5, <2>9, <3>2
      <4>2. k \in DOMAIN c /\ InClass(c, k, x)
        BY <2>2, <2>5, <2>9, <3>2
      <4> QED BY <1>6, <4>1, <4>2
    <3> QED BY <3>1, <3>2
  <2>10. \A x : x \in done \cup {a} <=> \E i \in DOMAIN d : InClass(d, i, x)
    BY <1>6, <2>2, <2>5
  <2> QED BY <1>4, <2>6, <2>7, <2>8, <2>9, <2>10 DEF ClassInv, d
<1>8. CASE Fits(c, a) # {}
  <2>1. PICK k \in Fits(c, a) : OneMore(c, a, k) /\ \A i \in Fits(c, a) : k <= i
    BY <1>1, <1>8, PlacedIs
  <2>2. /\ DOMAIN d = DOMAIN c
        /\ \A i \in DOMAIN c \ {k} : d[i] = c[i]
        /\ d[k] = Append(c[k], a)
    BY <2>1 DEF OneMore, d
  <2>3. k \in DOMAIN c /\ Alike(c[k][1], a)
    BY DEF Fits, Alike
  <2>4. \A i \in DOMAIN c : i < k => ~Alike(c[i][1], a)
    <3>1. \A i \in DOMAIN c : i \in Nat
      BY <1>2
    <3>2. \A i \in DOMAIN c : Alike(c[i][1], a) => i \in Fits(c, a)
      BY DEF Fits, Alike
    <3> QED BY <2>1, <2>3, <3>1, <3>2
  <2>5. /\ DOMAIN c[k] \subseteq DOMAIN d[k]
        /\ \A j \in DOMAIN c[k] : d[k][j] = c[k][j]
        /\ \A j \in DOMAIN d[k] : j \in DOMAIN c[k] \/ d[k][j] = a
        /\ \E j \in DOMAIN d[k] : d[k][j] = a
    BY <1>2, <2>2, <2>3, HeadFacts
  <2>6. \A i \in DOMAIN c : d[i][1] = c[i][1] /\ 1 \in DOMAIN d[i]
    BY <1>3, <2>2, <2>3, <2>5
  <2>7. \A i \in DOMAIN d : d[i] # <<>>
    <3>1. \A s : 1 \in DOMAIN s => s # <<>>
      OBVIOUS
    <3> QED BY <2>2, <2>6, <3>1
  <2>8. \A i \in DOMAIN c : \A j \in DOMAIN d[i] :
          (j \in DOMAIN c[i] /\ d[i][j] = c[i][j]) \/ (i = k /\ d[i][j] = a)
    BY <2>2, <2>5
  <2>9. ASSUME NEW i \in DOMAIN d, NEW j \in DOMAIN d[i]
        PROVE  d[i][j] = d[i][1] \/ Alike(d[i][1], d[i][j])
    BY <1>6, <2>2, <2>3, <2>6, <2>8
  <2>10. ASSUME NEW i \in DOMAIN d, NEW l \in DOMAIN d, NEW j \in DOMAIN d[i], l < i
         PROVE  ~Alike(d[l][1], d[i][j])
    <3>1. d[l][1] = c[l][1] /\ i \in DOMAIN c /\ l \in DOMAIN c
      BY <2>2, <2>6
    <3>2. CASE j \in DOMAIN c[i] /\ d[i][j] = c[i][j]
      BY <1>6, <2>10, <3>1, <3>2
    <3>3. CASE i = k /\ d[i][j] = a
      BY <2>4, <2>10, <3>1, <3>3
    <3> QED BY <2>8, <3>1, <3>2, <3>3
  <2>11. \A i \in DOMAIN c : \A x : InClass(d, i, x) <=> InClass(c, i, x) \/ (i = k /\ x = a)
    <3> SUFFICES ASSUME NEW i \in DOMAIN c, NEW x
                 PROVE  InClass(d, i, x) <=> InClass(c, i, x) \/ (i = k /\ x = a)
      OBVIOUS
    <3>1. InClass(d, i, x) => InClass(c, i, x) \/ (i = k /\ x = a)
      BY <2>8 DEF InClass
    <3>2. InClass(c, i, x) => InClass(d, i, x)
      BY <2>2, <2>5 DEF InClass
    <3>3. i = k /\ x = a => InClass(d, i, x)
      BY <2>5 DEF InClass
    <3> QED BY <3>1, <3>2, <3>3
  <2>12. \A i, l \in DOMAIN d : \A x : InClass(d, i, x) /\ InClass(d, l, x) => i = l
    BY <1>5, <1>6, <2>2, <2>11
  <2>13. \A x : x \in done \cup {a} <=> \E i \in DOMAIN d : InClass(d, i, x)
    BY <1>6, <2>2, <2>3, <2>11
  <2> QED BY <1>4, <2>7, <2>9, <2>10, <2>12, <2>13 DEF ClassInv, d
<1> QED BY <1>7, <1>8

LEMMA LocksFinite ==
  ASSUME LockSetInv
  PROVE  IsFiniteSet(Locks) /\ Locks \subseteq Addr /\ \A a \in Locks : acq[a] \in Node
<1>1. Locks \subseteq Addr /\ \A a \in Locks : acq[a] \in Node
  BY DEF LockSetInv, TypeOK, Locks
<1> QED BY <1>1, AddrAssumption, FS_Subset

(* Whatever the order in which the locks come out of their set, two locks  *)
(* of one class may be the lock at its head, and two that no third lock    *)
(* tells apart are in one class.                                           *)
LEMMA SameClassIs ==
  ASSUME LockSetInv, NEW order \in SetToSeqs(Locks)
  PROVE  \A r, a \in Locks :
           /\ SameClass(r, a, order) => \E c \in Locks : BothLike(c, r, a)
           /\ Inseparable(r, a) => SameClass(r, a, order)
<1> DEFINE N == Len(order)
           C == ClassesAfter(order)
           Before(k) == {order[j] : j \in 1 .. k}
           S == {k \in Nat : k <= N => ClassInv(C[k], Before(k))}
<1>1. /\ N \in Nat /\ order \in [1 .. N -> Locks]
      /\ \A x \in Locks : \E i \in 1 .. N : order[i] = x
      /\ \A i, j \in 1 .. N : i # j => order[i] # order[j]
  BY LocksFinite, SeqOfSet
<1>2. /\ C[0] = <<>>
      /\ \A k \in 1 .. N : C[k] = Placed(C[k - 1], order[k])
      /\ \A k \in 0 .. N : C[k] \in Seq(Seq(Locks))
  BY <1>1, ClassesAre
<1> HIDE DEF C, N
<1>3. 0 \in S
  <2>1. Before(0) = {} /\ DOMAIN C[0] = {} /\ C[0] \in Seq(Seq(Locks))
    BY <1>1, <1>2
  <2> QED BY <2>1 DEF ClassInv
<1>4. ASSUME NEW k \in Nat, k \in S PROVE k + 1 \in S
  <2> SUFFICES ASSUME k + 1 <= N PROVE ClassInv(C[k + 1], Before(k + 1))
    OBVIOUS
  <2>1. k + 1 \in 1 .. N /\ (k + 1) - 1 = k /\ k <= N
    BY <1>1
  <2>2. ClassInv(C[k], Before(k)) /\ order[k + 1] \in Locks
    BY <1>1, <1>4, <2>1
  <2>3. C[k + 1] = Placed(C[k], order[k + 1])
    BY <1>2, <2>1
  <2>4. Before(k + 1) = Before(k) \cup {order[k + 1]}
    <3>1. 1 .. k + 1 = 1 .. k \cup {k + 1}
      OBVIOUS
    <3> QED BY <3>1
  <2>5. order[k + 1] \notin Before(k)
    <3>1. \A j \in 1 .. k : j \in 1 .. N /\ j # k + 1
      BY <1>1, <1>4, <2>1
    <3> QED BY <1>1, <2>1, <3>1
  <2> HIDE DEF Before
  <2> QED BY <2>2, <2>3, <2>4, <2>5, PlacedKeeps
<1>5. \A k \in Nat : k \in S
  <2> HIDE DEF S
  <2> QED BY <1>3, <1>4, Induction
<1> DEFINE c == C[N]
<1>6. ClassInv(c, Locks)
  <2>1. N \in S /\ Before(N) = Locks
    BY <1>1, <1>5
  <2> HIDE DEF Before
  <2> QED BY <1>1, <2>1
<1>7. Classes(order) = c
  BY DEF Classes, C, N
<1> HIDE DEF c
<1>8. \A i \in DOMAIN c : 1 \in DOMAIN c[i] /\ c[i][1] \in Locks
  <2> DEFINE Q == Seq(Locks)
  <2>1. \A i \in DOMAIN c : c[i] \in Q /\ c[i] # <<>>
    <3> HIDE DEF Q
    <3>1. c \in Seq(Q)
      BY <1>6 DEF ClassInv, Q
    <3> QED BY <1>6, <3>1 DEF ClassInv
  <2> QED BY <2>1, HeadFacts
<1>9. \A i \in DOMAIN c : i \in Nat
  <2> DEFINE Q == Seq(Locks)
  <2> HIDE DEF Q
  <2>1. c \in Seq(Q)
    BY <1>6 DEF ClassInv, Q
  <2> QED BY <2>1
<1>10. \A r, a \in Locks :
         SameClass(r, a, order) <=> \E i \in DOMAIN c : InClass(c, i, r) /\ InClass(c, i, a)
  BY <1>7 DEF SameClass, ToSet, InClass
<1>11. \A i \in DOMAIN c : \A x : InClass(c, i, x) => x = c[i][1] \/ Alike(c[i][1], x)
  BY <1>6 DEF ClassInv, InClass
<1>12. ASSUME NEW r \in Locks, NEW a \in Locks, SameClass(r, a, order)
       PROVE  \E h \in Locks : BothLike(h, r, a)
  <2>1. PICK i \in DOMAIN c : InClass(c, i, r) /\ InClass(c, i, a)
    BY <1>10, <1>12
  <2>2. c[i][1] \in Locks
    BY <1>8
  <2>3. \A l \in {r, a} \ {c[i][1]} : Alike(c[i][1], l)
    BY <1>11, <2>1
  <2> QED BY <2>2, <2>3 DEF BothLike, Alike
<1>13. ASSUME NEW i \in DOMAIN c, NEW k \in DOMAIN c, i < k,
              NEW x \in Locks, NEW y \in Locks, InClass(c, i, x), InClass(c, k, y),
              Inseparable(x, y) \/ Inseparable(y, x)
       PROVE  FALSE
  <2> DEFINE h == c[i][1]
  <2>1. h \in Locks /\ InClass(c, i, h)
    BY <1>8 DEF InClass
  <2>2. ~Alike(h, y)
    BY <1>6, <1>13 DEF ClassInv, InClass
  <2>3. h # y
    <3>1. \A z : InClass(c, i, z) /\ InClass(c, k, z) => i = k
      BY <1>6 DEF ClassInv
    <3> QED BY <1>9, <1>13, <2>1, <3>1
  <2>4. h # x
    BY <1>13, <2>2 DEF Inseparable, Alike
  <2>5. Alike(h, x)
    BY <1>11, <1>13, <2>4
  <2>6. h \in Locks \ {x, y} => (Alike(h, x) <=> Alike(h, y))
    BY <1>13 DEF Inseparable, Alike
  <2> QED BY <2>1, <2>2, <2>3, <2>4, <2>5, <2>6
<1>14. ASSUME NEW r \in Locks, NEW a \in Locks, Inseparable(r, a) PROVE SameClass(r, a, order)
  <2>1. PICK i \in DOMAIN c : InClass(c, i, r)
    BY <1>6 DEF ClassInv
  <2>2. PICK k \in DOMAIN c : InClass(c, k, a)
    BY <1>6 DEF ClassInv
  <2>3. i = k
    BY <1>9, <1>13, <1>14, <2>1, <2>2
  <2> QED BY <1>10, <2>1, <2>2, <2>3
<1> QED BY <1>12, <1>14

(* findThread finds a thread of the node, if one has it.                   *)
LEMMA ThreadOfIs ==
  ASSUME TreeInv, NEW threads \in SetToSeqs(live), NEW n
  PROVE  /\ ThreadOf(n, threads) # 0 =>
              ThreadOf(n, threads) \in live /\ n \in Body(ThreadOf(n, threads))
         /\ (\E t \in live : n \in Body(t)) => ThreadOf(n, threads) # 0
<1> DEFINE has == {i \in DOMAIN threads : n \in Body(threads[i])}
<1>1. live \subseteq DOMAIN thr /\ IsFiniteSet(live)
  <2>1. live \subseteq DOMAIN thr
    BY DEF TreeInv, Surviving
  <2>2. DOMAIN thr = 1 .. Len(thr) /\ Len(thr) \in Int /\ 1 \in Int
    BY ThreadFacts
  <2>3. IsFiniteSet(1 .. Len(thr))
    BY <2>2, FS_Interval
  <2> QED BY <2>1, <2>2, <2>3, FS_Subset
<1>2. /\ DOMAIN threads \subseteq Nat
      /\ \A i \in DOMAIN threads : threads[i] \in live
      /\ \A t \in live : \E i \in DOMAIN threads : threads[i] = t
  <2>1. /\ Len(threads) \in Nat /\ DOMAIN threads = 1 .. Len(threads)
        /\ threads \in [1 .. Len(threads) -> live]
        /\ \A x \in live : \E i \in 1 .. Len(threads) : threads[i] = x
    BY <1>1, SeqOfSet
  <2> QED BY <2>1
<1>3. 0 \notin live
  BY <1>1, ThreadFacts
<1>4. CASE has = {}
  <2>1. ThreadOf(n, threads) = 0
    BY <1>4 DEF ThreadOf
  <2>2. ~ \E t \in live : n \in Body(t)
    BY <1>2, <1>4
  <2> QED BY <2>1, <2>2
<1>5. CASE has # {}
  <2>1. Min(has) \in has
    BY <1>2, <1>5, MinIn
  <2>2. ThreadOf(n, threads) = threads[Min(has)]
    BY <1>5 DEF ThreadOf
  <2> QED BY <1>2, <1>3, <2>1, <2>2
<1> QED BY <1>4, <1>5

LEMMA LockEdgeIs ==
  ASSUME TreeInv, NEW threads \in SetToSeqs(live), NEW r, NEW a, r # a, rel[r] # None
  PROVE  /\ LockEdge(r, a, threads) => Concurrent(rel[r], acq[a])
         /\ AlwaysConcurrent(rel[r], acq[a]) => LockEdge(r, a, threads)
<1> DEFINE tr == ThreadOf(rel[r], threads)
           ta == ThreadOf(acq[a], threads)
<1>1. /\ tr # 0 => tr \in live /\ rel[r] \in Body(tr)
      /\ (\E t \in live : rel[r] \in Body(t)) => tr # 0
      /\ ta # 0 => ta \in live /\ acq[a] \in Body(ta)
      /\ (\E t \in live : acq[a] \in Body(t)) => ta # 0
  BY ThreadOfIs
<1> HIDE DEF tr, ta
<1>2. LockEdge(r, a, threads) <=>
        /\ r # a /\ rel[r] # None
        /\ tr # 0 /\ ta # 0 /\ tr # ta
        /\ MayThreadsRunConcurrently(tr, ta)
  BY DEF LockEdge, tr, ta
<1>3. ASSUME LockEdge(r, a, threads) PROVE Concurrent(rel[r], acq[a])
  BY <1>1, <1>2, <1>3 DEF Concurrent
<1>4. ASSUME AlwaysConcurrent(rel[r], acq[a]) PROVE LockEdge(r, a, threads)
  <2>1. /\ \E t \in live : rel[r] \in Body(t)
        /\ \E u \in live : acq[a] \in Body(u)
    BY <1>4 DEF AlwaysConcurrent, Concurrent
  <2>2. tr # ta /\ MayThreadsRunConcurrently(tr, ta)
    BY <1>1, <1>4, <2>1 DEF AlwaysConcurrent
  <2> QED BY <1>1, <1>2, <2>1, <2>2
<1> QED BY <1>3, <1>4

(* The graph that is built has the lock edges of buildLockEdges, and is    *)
(* built when the other two parts are done.                                *)
Built ==
  hb # {} =>
    /\ phase = "ready" /\ Done
    /\ \E order \in SetToSeqs(Locks), threads \in SetToSeqs(live) :
         \A m, n : <<m, n, "lock">> \in hb <=> <<m, n, "lock">> \in LockEdges(order, threads)

LEMMA MayRunStays == ASSUME UNCHANGED treeVars PROVE MayRun' = MayRun
<1>1. Above' = Above
  BY DEF treeVars, Above, Parent
<1> QED
  BY <1>1 DEF treeVars, MayRun, Parent, IsReentrant, IsDescendant, MayHappenInParallel,
              RootsConcurrent, KernelMode, Entries, JoinedBefore

LEMMA LockEdgesStay ==
  ASSUME UNCHANGED <<vars, treeVars>>, NEW order, NEW threads
  PROVE  LockEdges(order, threads)' = LockEdges(order, threads)
<1>1. MayRun' = MayRun /\ Locks' = Locks
  BY MayRunStays DEF vars, Locks
<1>2. ClassesAfter(order)' = ClassesAfter(order)
  BY DEF vars, ClassesAfter, LockAlias
<1>3. \A r, a : SameClass(r, a, order)' = SameClass(r, a, order)
  BY <1>2 DEF SameClass, Classes
<1>4. \A n : ThreadOf(n, threads)' = ThreadOf(n, threads)
  BY DEF vars, treeVars, ThreadOf, Body
<1>5. \A r, a : LockEdge(r, a, threads)' = LockEdge(r, a, threads)
  BY <1>1, <1>4 DEF vars, LockEdge, MayThreadsRunConcurrently
<1> QED
  BY <1>1, <1>3, <1>5 DEF vars, LockEdges

LEMMA BuiltStays == ASSUME Built, UNCHANGED allVars PROVE Built'
<1>1. UNCHANGED <<vars, treeVars>> /\ hb' = hb
  BY DEF allVars
<1>2. /\ Locks' = Locks /\ live' = live /\ phase' = phase /\ Done' = Done
  BY <1>1 DEF vars, treeVars, Locks, Done
<1>3. \A order, threads : LockEdges(order, threads)' = LockEdges(order, threads)
  BY <1>1, LockEdgesStay
<1> QED BY <1>1, <1>2, <1>3 DEF Built

LEMMA BuiltNext == Built /\ [StaticNext]_allVars => Built'
<1> SUFFICES ASSUME Built, [StaticNext]_allVars PROVE Built'
  OBVIOUS
<1>1. CASE TreeNext /\ UNCHANGED <<vars, hb>>
  <2>1. phase # "ready"
    BY <1>1 DEF TreeNext, AddEntry, TakeFork, EndForks, MatchJoin, EndJoins
  <2> QED BY <1>1, <2>1 DEF Built
<1>2. CASE Next /\ ~Done /\ UNCHANGED <<treeVars, hb>>
  BY <1>2 DEF Built
<1>3. CASE BuildHB
  <2>1. PICK order \in SetToSeqs(Locks), threads \in SetToSeqs(live) :
          \E kept \in SUBSET RCUCandidates(threads) :
             hb' = ProgramOrder \cup LockEdges(order, threads) \cup JoinEdges
                   \cup CompletionEdges \cup LifecycleEdges
                   \cup {<<e[2], e[3], "rcu">> : e \in kept}
    BY <1>3 DEF BuildHB
  <2>2. /\ \A m, n : <<m, n, "lock">> \notin ProgramOrder
        /\ \A m, n : <<m, n, "lock">> \notin JoinEdges
        /\ \A m, n : <<m, n, "lock">> \notin CompletionEdges
        /\ \A m, n : <<m, n, "lock">> \notin LifecycleEdges
    <3>1. \A m, n : <<m, n, "lock">> \notin ProgramOrder
      <4> DEFINE A == UNION {{<<n, d, "order">> : d \in prog.succ[n]} : n \in Node}
                 B == {<<e[1], e[2], "call">> : e \in prog.calls}
                 C == {<<e[1], e[2], "fork">> : e \in prog.forks}
      <4>1. \A m, n : <<m, n, "lock">> \notin A
        OBVIOUS
      <4>2. \A m, n : <<m, n, "lock">> \notin B
        OBVIOUS
      <4>3. \A m, n : <<m, n, "lock">> \notin C
        OBVIOUS
      <4>4. ProgramOrder = A \cup B \cup C
        BY DEF ProgramOrder
      <4> HIDE DEF A, B, C
      <4> QED BY <4>1, <4>2, <4>3, <4>4
    <3>2. \A m, n : <<m, n, "lock">> \notin JoinEdges
      BY DEF JoinEdges
    <3>3. \A m, n : <<m, n, "lock">> \notin CompletionEdges
      BY DEF CompletionEdges
    <3>4. \A m, n : <<m, n, "lock">> \notin LifecycleEdges
      BY DEF LifecycleEdges
    <3> QED BY <3>1, <3>2, <3>3, <3>4
  <2>3. \A m, n : <<m, n, "lock">> \in hb' <=> <<m, n, "lock">> \in LockEdges(order, threads)
    BY <2>1, <2>2
  <2>4. UNCHANGED <<vars, treeVars>> /\ phase = "ready" /\ Done
    BY <1>3 DEF BuildHB
  <2>5. Locks' = Locks /\ live' = live /\ phase' = "ready" /\ Done'
    BY <2>4 DEF vars, treeVars, Locks, Done
  <2>6. \A m, n : <<m, n, "lock">> \in hb' <=> <<m, n, "lock">> \in LockEdges(order, threads)'
    BY <2>3, <2>4, LockEdgesStay
  <2> QED BY <2>5, <2>6 DEF Built
<1>4. CASE UNCHANGED allVars
  BY <1>4, BuiltStays
<1> QED BY <1>1, <1>2, <1>3, <1>4 DEF StaticNext

LEMMA BuiltAlways == StaticSpec => [](TreeInv /\ LockSetInv /\ Built)
<1>1. StaticInit => Built
  BY DEF StaticInit, Built
<1>2. StaticSpec => []Built
  BY <1>1, BuiltNext, PTL DEF StaticSpec
<1>3. StaticSpec => []LockSetInv
  BY InvInit, InvNext, InPhase, PTL
<1> QED BY <1>2, <1>3, TreeAlways, PTL

LEMMA EdgeIs ==
  ASSUME NEW order, NEW threads, NEW m, NEW n
  PROVE  <<m, n, "lock">> \in LockEdges(order, threads) <=>
           \E r, a \in Locks : /\ SameClass(r, a, order) /\ LockEdge(r, a, threads)
                              /\ rel[r] = m /\ acq[a] = n
<1>1. ASSUME NEW r \in Locks, NEW a \in Locks,
             SameClass(r, a, order), LockEdge(r, a, threads), rel[r] = m, acq[a] = n
      PROVE  <<m, n, "lock">> \in LockEdges(order, threads)
  <2> DEFINE p == <<r, a>>
  <2>1. p \in Locks \X Locks /\ p[1] = r /\ p[2] = a
    OBVIOUS
  <2>2. p \in {q \in Locks \X Locks :
                 SameClass(q[1], q[2], order) /\ LockEdge(q[1], q[2], threads)}
    BY <1>1, <2>1
  <2> HIDE DEF p
  <2> QED BY <1>1, <2>1, <2>2 DEF LockEdges
<1>2. ASSUME <<m, n, "lock">> \in LockEdges(order, threads)
      PROVE  \E r, a \in Locks : /\ SameClass(r, a, order) /\ LockEdge(r, a, threads)
                                /\ rel[r] = m /\ acq[a] = n
  BY <1>2 DEF LockEdges
<1> QED BY <1>1, <1>2

(* For every program, alias relation and threads that share code, and all  *)
(* orders of the sets: every lock edge has a lock that heads a class for   *)
(* both its ends and concurrent threads, and an edge between locks that no *)
(* third one tells apart is there whichever threads their nodes are        *)
(* counted to (HBGraph.cpp:121-169).                                       *)
THEOREM LockEdgesAreBounded == StaticSpec => []LockEdgesBounded
<1>1. ASSUME TreeInv, LockSetInv, Built, hb # {} PROVE LockEdgesBounded
  <2>1. PICK order \in SetToSeqs(Locks), threads \in SetToSeqs(live) :
          \A m, n : <<m, n, "lock">> \in hb <=> <<m, n, "lock">> \in LockEdges(order, threads)
    BY <1>1 DEF Built
  <2>2. ASSUME NEW m \in Node, NEW n \in Node, <<m, n, "lock">> \in hb
        PROVE  \E r, a \in Locks : /\ r # a /\ rel[r] = m /\ acq[a] = n
                                  /\ \E c \in Locks : BothLike(c, r, a)
                                  /\ Concurrent(m, n)
    <3>1. PICK r \in Locks, a \in Locks :
            /\ SameClass(r, a, order) /\ LockEdge(r, a, threads)
            /\ rel[r] = m /\ acq[a] = n
      BY <2>1, <2>2, EdgeIs
    <3>2. r # a /\ rel[r] # None
      BY <3>1 DEF LockEdge
    <3>3. Concurrent(m, n)
      BY <1>1, <3>1, <3>2, LockEdgeIs
    <3>4. \E c \in Locks : BothLike(c, r, a)
      BY <1>1, <3>1, SameClassIs
    <3> QED BY <3>1, <3>2, <3>3, <3>4
  <2>3. ASSUME NEW r \in Locks, NEW a \in Locks, r # a, rel[r] # None,
               Inseparable(r, a), AlwaysConcurrent(rel[r], acq[a])
        PROVE  <<rel[r], acq[a], "lock">> \in hb
    <3>1. SameClass(r, a, order)
      BY <1>1, <2>3, SameClassIs
    <3>2. LockEdge(r, a, threads)
      BY <1>1, <2>3, LockEdgeIs
    <3> QED BY <2>1, <3>1, <3>2, EdgeIs
  <2> QED BY <2>2, <2>3 DEF LockEdgesBounded
<1>2. TreeInv /\ LockSetInv /\ Built => LockEdgesBounded
  BY <1>1 DEF LockEdgesBounded
<1> QED BY <1>2, BuiltAlways, PTL

----------------------------------------------------------------------------
(* The static phase is finite.  What is left of it, in the order of        *)
(* weight: the phases of the tree; what the phase has still to look at;    *)
(* functions to traverse, nodes not visited and nodes waiting; the graph.  *)
FiniteProgram == IsFiniteSet(Node) /\ IsFiniteSet(JoinSite) /\ ForkCap \in Nat

PhasesLeft == CASE phase = "entries" -> 3
                [] phase = "forks"   -> 2
                [] phase = "joins"   -> 1
                [] OTHER             -> 0

TreeLeft == CASE phase = "entries" -> Cardinality(Entries \ Mains)
              [] phase = "forks"   -> ForkCap - taken
              [] phase = "joins"   -> Cardinality(joinsLeft)
              [] OTHER             -> 0

FunctionsLeft == Cardinality(todo)
NodesLeft     == Cardinality(Node \ visited)
WorkLeft      == Cardinality(work)
GraphLeft     == IF hb = {} THEN 1 ELSE 0

TreeShrinks ==
  \/ PhasesLeft' < PhasesLeft
  \/ PhasesLeft' = PhasesLeft /\ TreeLeft' < TreeLeft

LocksShrink ==
  \/ FunctionsLeft' < FunctionsLeft
  \/ FunctionsLeft' = FunctionsLeft /\ NodesLeft' < NodesLeft
  \/ FunctionsLeft' = FunctionsLeft /\ NodesLeft' = NodesLeft /\ WorkLeft' < WorkLeft
  \/ /\ FunctionsLeft' = FunctionsLeft /\ NodesLeft' = NodesLeft /\ WorkLeft' = WorkLeft
     /\ GraphLeft' < GraphLeft

PhaseShrinks ==
  \/ TreeShrinks
  \/ PhasesLeft' = PhasesLeft /\ TreeLeft' = TreeLeft /\ LocksShrink

(* A node waits only until it is visited, and no more than the cap of fork *)
(* sites is taken.                                                         *)
Bounded ==
  /\ work \cap visited = {}
  /\ taken \in 0 .. ForkCap
  /\ joinsLeft \subseteq JoinSite

RunInv == TreeInv /\ LockSetInv /\ Bounded

AllLeft == /\ PhasesLeft \in Nat /\ TreeLeft \in Nat
           /\ FunctionsLeft \in Nat /\ NodesLeft \in Nat /\ WorkLeft \in Nat
           /\ GraphLeft \in Nat

LEMMA BoundedNext ==
  ASSUME FiniteProgram, LockSetInv, Bounded, [StaticNext]_allVars
  PROVE  Bounded'
<1>1. CASE TreeNext /\ UNCHANGED <<vars, hb>>
  <2>1. work' = work /\ visited' = visited
    BY <1>1 DEF vars
  <2>2. /\ taken' = taken \/ (taken < ForkCap /\ taken' = taken + 1)
        /\ joinsLeft' \subseteq joinsLeft
    BY <1>1 DEF TreeNext, AddEntry, TakeFork, EndForks, MatchJoin, EndJoins
  <2> QED BY <2>1, <2>2 DEF Bounded, FiniteProgram
<1>2. CASE Next /\ UNCHANGED <<treeVars, hb>>
  <2>1. taken' = taken /\ joinsLeft' = joinsLeft
    BY <1>2 DEF treeVars
  <2>2. ASSUME NEW f \in todo, StartFunction(f) PROVE work' \cap visited' = {}
    BY <2>2 DEF StartFunction, LockSetInv
  <2>3. ASSUME NEW n \in work, Visit(n) PROVE work' \cap visited' = {}
    BY <2>3 DEF Visit, Bounded
  <2>4. work' \cap visited' = {}
    BY <1>2, <2>2, <2>3 DEF Next, vars, Bounded
  <2> QED BY <2>1, <2>4 DEF Bounded
<1>3. CASE UNCHANGED <<vars, treeVars>>
  BY <1>3 DEF vars, treeVars, Bounded
<1> QED BY <1>1, <1>2, <1>3 DEF StaticNext, BuildHB, allVars

LEMMA LeftFinite ==
  ASSUME FiniteProgram, RunInv
  PROVE  /\ IsFiniteSet(Entries \ Mains) /\ IsFiniteSet(joinsLeft)
         /\ IsFiniteSet(todo) /\ IsFiniteSet(Node \ visited) /\ IsFiniteSet(work)
<1>1. Entries \ Mains \subseteq Function
  BY TreeFacts DEF RunInv, Entries
<1>2. todo \subseteq Node /\ work \subseteq Node /\ joinsLeft \subseteq JoinSite
  BY ProgramFacts DEF RunInv, LockSetInv, TypeOK, Bounded
<1> QED BY <1>1, <1>2, TreeAssumption, FS_Subset DEF FiniteProgram

LEMMA LeftNat == ASSUME FiniteProgram, RunInv PROVE AllLeft
<1>1. /\ Cardinality(Entries \ Mains) \in Nat /\ Cardinality(joinsLeft) \in Nat
      /\ FunctionsLeft \in Nat /\ NodesLeft \in Nat /\ WorkLeft \in Nat
  BY LeftFinite, FS_CardinalityType DEF FunctionsLeft, NodesLeft, WorkLeft
<1>2. ForkCap - taken \in Nat
  BY DEF RunInv, Bounded, FiniteProgram
<1>3. PhasesLeft \in Nat /\ TreeLeft \in Nat /\ GraphLeft \in Nat
  BY <1>1, <1>2 DEF PhasesLeft, TreeLeft, GraphLeft
<1> QED BY <1>1, <1>3 DEF AllLeft

(* A step of the tree: an entry, a fork site, a join, or the next phase.   *)
LEMMA TreeCloser == ASSUME FiniteProgram, RunInv, TreeNext PROVE TreeShrinks
<1>1. ASSUME NEW f \in Function, AddEntry(f) PROVE TreeShrinks
  <2>1. /\ phase = "entries" /\ f \in Entries \ Mains
        /\ phase' \in {"entries", "forks"} /\ tree' = tree
        /\ thr' = Append(thr, [main |-> f, fork |-> NoSite, parent |-> 0])
    BY <1>1 DEF AddEntry, Created
  <2>2. Mains' = Mains \cup {f}
    <3>1. thr \in Seq(ThreadRecord)
      BY DEF RunInv, TreeInv, Grown
    <3> DEFINE r == [main |-> f, fork |-> NoSite, parent |-> 0]
    <3>2. r.main = f
      OBVIOUS
    <3> HIDE DEF r
    <3>3. /\ Len(thr) \in Nat /\ DOMAIN thr = 1 .. Len(thr)
          /\ DOMAIN Append(thr, r) = 1 .. Len(thr) + 1
          /\ \A k \in 1 .. Len(thr) : Append(thr, r)[k] = thr[k]
          /\ Append(thr, r)[Len(thr) + 1] = r
      BY <3>1
    <3>4. thr' = Append(thr, r)
      BY <2>1 DEF r
    <3>5. \A m : m \in Mains' <=> m \in Mains \cup {f}
      BY <3>2, <3>3, <3>4 DEF Mains
    <3> QED BY <3>5
  <2>3. CASE phase' = "forks"
    BY <2>1, <2>3 DEF TreeShrinks, PhasesLeft
  <2>4. CASE phase' = "entries"
    <3>1. (Entries \ Mains)' = (Entries \ Mains) \ {f}
      BY <2>1, <2>2 DEF Entries
    <3>2. /\ Cardinality((Entries \ Mains) \ {f}) = Cardinality(Entries \ Mains) - 1
          /\ Cardinality(Entries \ Mains) \in Nat
      BY <2>1, LeftFinite, FS_RemoveElement, FS_CardinalityType
    <3>3. TreeLeft = Cardinality(Entries \ Mains) /\ TreeLeft' = Cardinality((Entries \ Mains)')
      BY <2>1, <2>4 DEF TreeLeft
    <3>4. TreeLeft' < TreeLeft
      BY <3>1, <3>2, <3>3
    <3>5. PhasesLeft' = PhasesLeft
      BY <2>1, <2>4 DEF PhasesLeft
    <3> QED BY <3>4, <3>5 DEF TreeShrinks
  <2> QED BY <2>1, <2>3, <2>4
<1>2. CASE TakeFork
  <2>1. phase = "forks" /\ phase' = "forks" /\ taken' = taken + 1 /\ taken < ForkCap
    BY <1>2 DEF TakeFork
  <2>2. taken \in Int /\ ForkCap \in Int
    BY DEF RunInv, Bounded, FiniteProgram
  <2>3. TreeLeft = ForkCap - taken /\ TreeLeft' = ForkCap - taken'
    BY <2>1 DEF TreeLeft
  <2>4. TreeLeft' < TreeLeft
    BY <2>1, <2>2, <2>3
  <2> QED BY <2>1, <2>4 DEF TreeShrinks, PhasesLeft
<1>3. CASE EndForks
  BY <1>3 DEF EndForks, TreeShrinks, PhasesLeft
<1>4. ASSUME NEW j \in JoinSite, MatchJoin(j) PROVE TreeShrinks
  <2>1. phase = "joins" /\ phase' = "joins" /\ j \in joinsLeft /\ joinsLeft' = joinsLeft \ {j}
    BY <1>4 DEF MatchJoin
  <2>2. /\ Cardinality(joinsLeft \ {j}) = Cardinality(joinsLeft) - 1
        /\ Cardinality(joinsLeft) \in Nat
    BY <2>1, LeftFinite, FS_RemoveElement, FS_CardinalityType
  <2>3. TreeLeft = Cardinality(joinsLeft) /\ TreeLeft' = Cardinality(joinsLeft')
    BY <2>1 DEF TreeLeft
  <2>4. TreeLeft' < TreeLeft
    BY <2>1, <2>2, <2>3
  <2> QED BY <2>1, <2>4 DEF TreeShrinks, PhasesLeft
<1>5. CASE EndJoins
  BY <1>5 DEF EndJoins, TreeShrinks, PhasesLeft
<1> QED BY <1>1, <1>2, <1>3, <1>4, <1>5 DEF TreeNext

(* A step of the traversal: a function begins, a new node is visited.      *)
LEMMA LocksCloser ==
  ASSUME FiniteProgram, RunInv, Next, ~Done
  PROVE  LocksShrink
<1>1. ASSUME NEW f \in todo, StartFunction(f) PROVE LocksShrink
  <2>1. todo' = todo \ {f}
    BY <1>1 DEF StartFunction
  <2>2. Cardinality(todo \ {f}) = Cardinality(todo) - 1 /\ Cardinality(todo) \in Nat
    BY LeftFinite, FS_RemoveElement, FS_CardinalityType
  <2> QED BY <2>1, <2>2 DEF LocksShrink, FunctionsLeft
<1>2. ASSUME NEW n \in work, Visit(n) PROVE LocksShrink
  <2>1. todo' = todo /\ visited' = visited \cup {n}
    BY <1>2 DEF Visit
  <2>2. n \in Node \ visited
    BY DEF RunInv, LockSetInv, TypeOK, Bounded
  <2>3. Node \ visited' = (Node \ visited) \ {n}
    BY <2>1
  <2>4. /\ Cardinality((Node \ visited) \ {n}) = Cardinality(Node \ visited) - 1
        /\ Cardinality(Node \ visited) \in Nat
    BY <2>2, LeftFinite, FS_RemoveElement, FS_CardinalityType
  <2>5. NodesLeft = Cardinality(Node \ visited) /\ NodesLeft' = Cardinality((Node \ visited) \ {n})
    BY <2>3 DEF NodesLeft
  <2>6. NodesLeft' < NodesLeft
    BY <2>4, <2>5
  <2>7. FunctionsLeft' = FunctionsLeft
    BY <2>1 DEF FunctionsLeft
  <2> QED BY <2>6, <2>7 DEF LocksShrink
<1> QED BY <1>1, <1>2 DEF Next

(* The static phase ends for every finite program, whatever cycles its     *)
(* forks, calls and control flow have (ThreadCreationTree.cpp:84-105,      *)
(* LSAnalysis.cpp:10-99): each of its steps makes natural numbers smaller  *)
(* in their lexicographic order.                                           *)
THEOREM StaticRunsOut ==
  ASSUME FiniteProgram
  PROVE  StaticSpec => []AllLeft /\ [][PhaseShrinks]_allVars
<1>1. StaticInit => Bounded
  BY DEF StaticInit, Init, TreeInit, Bounded, FiniteProgram
<1>2. StaticSpec => []RunInv
  <2>1. LockSetInv /\ Bounded /\ [StaticNext]_allVars => Bounded'
    BY BoundedNext
  <2>2. StaticSpec => []Bounded
    BY <1>1, <2>1, BuiltAlways, PTL DEF StaticSpec
  <2> QED BY <2>2, BuiltAlways, PTL DEF RunInv
<1>3. RunInv => AllLeft
  BY LeftNat
<1>4. RunInv /\ [StaticNext]_allVars => [PhaseShrinks]_allVars
  <2> SUFFICES ASSUME RunInv, StaticNext, allVars' # allVars PROVE PhaseShrinks
    OBVIOUS
  <2>1. CASE TreeNext /\ UNCHANGED <<vars, hb>>
    BY <2>1, TreeCloser DEF PhaseShrinks
  <2>2. ASSUME UNCHANGED treeVars
        PROVE  PhasesLeft' = PhasesLeft /\ TreeLeft' = TreeLeft
    BY <2>2 DEF treeVars, PhasesLeft, TreeLeft, Entries, Mains
  <2>3. CASE Next /\ ~Done /\ UNCHANGED <<treeVars, hb>>
    BY <2>2, <2>3, LocksCloser DEF PhaseShrinks
  <2>4. CASE BuildHB
    <3>1. UNCHANGED <<vars, treeVars>> /\ hb = {}
      BY <2>4 DEF BuildHB
    <3>2. hb' # {}
      BY <3>1 DEF allVars
    <3>3. GraphLeft' < GraphLeft
      BY <3>1, <3>2 DEF GraphLeft
    <3>4. /\ FunctionsLeft' = FunctionsLeft /\ NodesLeft' = NodesLeft
          /\ WorkLeft' = WorkLeft
      BY <3>1 DEF vars, FunctionsLeft, NodesLeft, WorkLeft
    <3> QED BY <2>2, <3>1, <3>3, <3>4 DEF PhaseShrinks, LocksShrink
  <2> QED BY <2>1, <2>3, <2>4 DEF StaticNext
<1> QED BY <1>2, <1>3, <1>4, PTL DEF StaticSpec
=============================================================================
