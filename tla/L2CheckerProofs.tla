--------------------------- MODULE L2CheckerProofs ---------------------------
(***************************************************************************)
(* Proofs about the requirement checker, for every program, contracts and  *)
(* sessions: the calibration removes exactly what was last rejected, and   *)
(* the merge at the end loses no bug.                                      *)
(***************************************************************************)
EXTENDS L2Checker, FiniteSetTheorems, WellFoundedInduction, TLAPS

CandidatesOf(n) == CheckRequirements(Sessions[n])

\* The review is about the candidates of the session the loop is at.
UnderReview ==
    phase = "review" =>
        /\ session <= Len(Sessions)
        /\ cands = CandidatesOf(session)
        /\ keep \in [DOMAIN cands -> BOOLEAN]
        /\ \A p \in DOMAIN cands : keep[p] = (<<session, p>> \notin judged["reject"])

\* Nothing of a later session has been judged.
NotYetJudged ==
    /\ phase = "check" => \A n \in Nat : n >= session => \A p : <<n, p>> \notin judged["reject"]
    /\ phase = "review" => \A n \in Nat : n > session => \A p : <<n, p>> \notin judged["reject"]

\* A hypothesis is the candidate of its session and place.
FromCandidates ==
    \A x \in composed :
        /\ x = [cand |-> x.cand, session |-> x.session, place |-> x.place]
        /\ x.session \in 1 .. session - 1
        /\ x.place \in DOMAIN CandidatesOf(x.session)
        /\ x.cand = CandidatesOf(x.session)[x.place]

CheckerInv ==
    /\ contracts \in Contracts
    /\ session \in 1 .. Len(Sessions) + 1
    /\ judged \in [{"keep", "reject"} -> SUBSET (judged["keep"] \cup judged["reject"])]
    /\ UnderReview /\ NotYetJudged /\ FromCandidates
    /\ CalibrationExact /\ RecallSafe

-----------------------------------------------------------------------------

\* A set of natural numbers has a least element.
LEMMA Smallest ==
  ASSUME NEW T, T \subseteq Nat, T # {}
  PROVE  \E x \in T : \A y \in T : x <= y
<1>1. IsWellFoundedOn(OpToRel(<, Nat), Nat)
  BY NatLessThanWellFounded
<1>2. PICK x \in T : \A y \in T : ~ (<<y, x>> \in OpToRel(<, Nat))
  BY <1>1, WFMin
<1>3. \A y \in T : ~(y < x)
  BY <1>2 DEF OpToRel
<1> QED BY <1>3

\* The candidates of a session depend on the contracts and the graph only.
LEMMA SameCandidates ==
    ASSUME UNCHANGED <<contracts, static>>
    PROVE  \A n : CandidatesOf(n)' = CandidatesOf(n)
<1>1. \A gs, x, y : OrdReach(gs, x, y)' = OrdReach(gs, x, y)
  <2>1. \A x, y : CfReach(x, y)' = CfReach(x, y) /\ StaticSyncOrder(x, y)' = StaticSyncOrder(x, y)
    BY DEF CfReach, StaticSyncOrder
  <2>2. \A gs, x : Targets(gs, x)' = Targets(gs, x)
    BY <2>1 DEF Targets
  <2>3. \A gs : [x \in Node |-> Targets(gs, x)]' = [x \in Node |-> Targets(gs, x)]
    BY <2>2
  <2>4. \A gs, x, y : GuarReach(gs, x, y)' = GuarReach(gs, x, y)
    BY <2>1, <2>2, <2>3 DEF GuarReach
  <2> QED
    BY <2>1, <2>4 DEF OrdReach
<1>2. \A r, gs, O, p : PairDischarged(r, gs, O, p)' = PairDischarged(r, gs, O, p)
  <2>1. \A gs, O, a, b : Mediated(gs, O, a, b)' = Mediated(gs, O, a, b)
    BY <1>1 DEF Mediated
  <2>2. \A gs, O, region, c : KeptOutside(gs, O, region, c)' = KeptOutside(gs, O, region, c)
    BY <1>1 DEF KeptOutside
  <2> QED
    BY <1>1, <2>1, <2>2 DEF PairDischarged
<1>3. \A r, gs, O, ts, t : OpenPairs(r, gs, O, ts, t)' = OpenPairs(r, gs, O, ts, t)
  BY <1>2 DEF OpenPairs
<1>4. \A r, gs, O, ts, t : CandidateOf(r, gs, O, ts, t)' = CandidateOf(r, gs, O, ts, t)
  BY <1>3 DEF CandidateOf
<1>5. \A s, t, r, gs : Open(s, t, r, gs)' = Open(s, t, r, gs)
  BY <1>3 DEF Open
<1>6. \A p : ReqAt(p)' = ReqAt(p)
  BY DEF ReqAt
<1>7. \A s : Places(s)' = Places(s)
  BY DEF Places
<1>8. \A s : CheckRequirements(s)' = CheckRequirements(s)
  BY <1>4, <1>5, <1>6, <1>7 DEF CheckRequirements
<1> QED
  BY <1>8 DEF CandidatesOf
-----------------------------------------------------------------------------
(* The merge.                                                              *)

\* An object with an access at a node is there to be chosen.
LEMMA FirstObject ==
    ASSUME NEW n, ObjectsOf(n) # {}
    PROVE  NodeToObj(n) \in ObjectsOf(n) /\ NodeToObj(n) \in Nat
<1>1. ObjectsOf(n) \subseteq Nat
  BY L2Assumption DEF ObjectsOf
<1>2. \E o \in ObjectsOf(n) : \A p \in ObjectsOf(n) : o <= p
  BY <1>1, Smallest
<1> QED
  BY <1>1, <1>2 DEF NodeToObj

\* The object in the key of a hypothesis is one of its objects.
LEMMA PrimaryIsOwn ==
    ASSUME NEW h, AnyObj(h)
    PROVE  PrimaryObj(h) \in ObjectsAt(h)
<1>1. CASE Anchor(h) # 0
  <2>1. Anchor(h) \in {h.a, h.b} /\ ObjectsOf(Anchor(h)) # {}
    <3>1. \A n : ObjectsOf(n) = {} => Rank(n) = -1
      BY DEF Rank, NodeToKind
    <3>2. \A n : Rank(n) \in {2, 1, -1}
      BY DEF Rank
    <3>3. PICK n \in {h.a, h.b} : Anchor(h) = n /\ ~(Rank(n) < 0)
      BY <1>1, <3>2 DEF Anchor
    <3> QED
      BY <3>1, <3>3
  <2> QED
    BY <1>1, <2>1, FirstObject DEF PrimaryObj, ObjectsAt
<1>2. CASE Anchor(h) = 0
  <2> DEFINE objs == {NodeToObj(n) : n \in {m \in {h.a, h.b} : ObjectsOf(m) # {}}}
  <2>1. objs # {} /\ objs \subseteq Nat /\ objs \subseteq ObjectsAt(h)
    BY FirstObject DEF AnyObj, ObjectsAt
  <2>2. \E o \in objs : \A p \in objs : o <= p
    <3> HIDE DEF objs
    <3> QED
      BY <2>1, Smallest
  <2>3. PrimaryObj(h) = CHOOSE o \in objs : \A p \in objs : o <= p
    BY <1>2 DEF PrimaryObj
  <2>4. PrimaryObj(h) \in objs
    <3> HIDE DEF objs
    <3> QED
      BY <2>2, <2>3
  <2> QED
    BY <2>1, <2>4
<1> QED
  BY <1>1, <1>2

\* Hypotheses with one key are of one hazard class and have a node or the
\* object of one in common.
LEMMA OneGroupOneBug ==
    ASSUME NEW g, NEW h, NEW level, CanonicalKey(g, level) = CanonicalKey(h, level)
    PROVE  /\ HazardClass(g) = HazardClass(h)
           /\ \/ {g.a, g.b} \cap {h.a, h.b} # {}
              \/ ObjectsAt(g) \cap ObjectsAt(h) # {}
<1> DEFINE nset(x) == <<HazardClass(x), "nset", IF x.a <= x.b THEN x.a ELSE x.b,
                        IF x.a <= x.b THEN x.b ELSE x.a>>
<1>1. \A x : \/ CanonicalKey(x, level) = nset(x)
             \/ /\ AnyObj(x)
                /\ \E y : CanonicalKey(x, level) = <<HazardClass(x), "obj", PrimaryObj(x), y>>
  BY DEF CanonicalKey
<1>2. \A x : /\ CanonicalKey(x, level)[1] = HazardClass(x)
             /\ \/ CanonicalKey(x, level)[2] = "nset" /\ CanonicalKey(x, level) = nset(x)
                \/ /\ CanonicalKey(x, level)[2] = "obj" /\ AnyObj(x)
                   /\ CanonicalKey(x, level)[3] = PrimaryObj(x)
  BY <1>1
<1>3. HazardClass(g) = HazardClass(h)
  BY <1>2
<1>4. CASE CanonicalKey(g, level)[2] = "nset"
  <2>1. nset(g) = nset(h)
    BY <1>2, <1>4
  <2>2. nset(g)[3] \in {g.a, g.b} /\ nset(h)[3] \in {h.a, h.b}
    OBVIOUS
  <2> QED
    BY <1>3, <2>1, <2>2
<1>5. CASE CanonicalKey(g, level)[2] = "obj"
  <2>1. AnyObj(g) /\ AnyObj(h) /\ PrimaryObj(g) = PrimaryObj(h)
    BY <1>2, <1>5
  <2> QED
    BY <1>3, <2>1, PrimaryIsOwn
<1> QED
  BY <1>2, <1>4, <1>5
\* Candidates are found by thread and position.
LEMMA PlaceType ==
    ASSUME contracts \in Contracts, NEW s, NEW p \in DOMAIN CheckRequirements(s)
    PROVE  p = <<p[1], p[2]>> /\ p[1] \in Nat /\ p[2] \in Nat
<1>1. p \in Places(s)
  BY DEF CheckRequirements
<1>2. PICK t \in s.threads \cap DOMAIN contracts : p \in {t} \X DOMAIN contracts[t].reqs
  BY <1>1 DEF Places
<1>3. t \in Nat /\ contracts[t] \in Contract
  BY <1>2, L2Assumption
<1>4. contracts[t].reqs \in Seq(NodeReq)
  BY <1>3 DEF Contract
<1>5. DOMAIN contracts[t].reqs \subseteq Nat
  BY <1>4
<1> QED
  BY <1>2, <1>3, <1>5

\* What FromCandidates says of one hypothesis.
LEMMA HypothesisType ==
    ASSUME contracts \in Contracts, session \in 1 .. Len(Sessions) + 1,
           FromCandidates, NEW x \in composed
    PROVE  /\ x = [cand |-> x.cand, session |-> x.session, place |-> x.place]
           /\ x.session \in Nat /\ x.cand = CandidatesOf(x.session)[x.place]
           /\ x.place = <<x.place[1], x.place[2]>>
           /\ x.place[1] \in Nat /\ x.place[2] \in Nat
<1>1. x.session \in 1 .. session - 1 /\ x.place \in DOMAIN CandidatesOf(x.session)
  BY DEF FromCandidates
<1>2. x.session \in Nat
  BY <1>1
<1>3. x.place = <<x.place[1], x.place[2]>> /\ x.place[1] \in Nat /\ x.place[2] \in Nat
  BY <1>1, PlaceType DEF CandidatesOf
<1> QED
  BY <1>2, <1>3 DEF FromCandidates

\* A merge keeps one of each group, at least as severe as any of it.
LEMMA Represented ==
    ASSUME contracts \in Contracts, session \in 1 .. Len(Sessions) + 1,
           FromCandidates, NEW level, NEW x \in composed
    PROVE  \E z \in Representatives(composed, level) :
              SameGroup(z, x, level) /\ Severity(z.cand) >= Severity(x.cand)
<1> DEFINE G == {y \in composed : SameGroup(x, y, level)}
<1>1. x \in G
  BY DEF SameGroup
<1>2. \A h : Severity(h) \in {1, 2}
  BY DEF Severity
<1>3. PICK m \in {1, 2} : /\ \E y \in G : Severity(y.cand) = m
                          /\ \A y \in G : Severity(y.cand) <= m
  <2>1. CASE \E y \in G : Severity(y.cand) = 2
    <3>1. \A y \in G : Severity(y.cand) <= 2
      BY <1>2
    <3> QED
      BY <2>1, <3>1
  <2>2. CASE ~\E y \in G : Severity(y.cand) = 2
    <3>1. \A y \in G : Severity(y.cand) = 1
      BY <1>2, <2>2
    <3> QED
      BY <1>1, <3>1
  <2> QED
    BY <2>1, <2>2
<1> DEFINE B == {y \in G : Severity(y.cand) = m}
           S == {y.session : y \in B}
<1>4. \A y \in composed :
         /\ y = [cand |-> y.cand, session |-> y.session, place |-> y.place]
         /\ y.session \in Nat /\ y.cand = CandidatesOf(y.session)[y.place]
         /\ y.place = <<y.place[1], y.place[2]>>
         /\ y.place[1] \in Nat /\ y.place[2] \in Nat
  BY HypothesisType
<1>5. S # {} /\ S \subseteq Nat
  BY <1>3, <1>4
<1>6. PICK n \in S : \A k \in S : n <= k
  <2> HIDE DEF S
  <2> QED
    BY <1>5, Smallest
<1> DEFINE Ts == {y.place[1] : y \in {v \in B : v.session = n}}
<1>7. Ts # {} /\ Ts \subseteq Nat
  BY <1>4, <1>6
<1>8. PICK t \in Ts : \A k \in Ts : t <= k
  <2> HIDE DEF Ts
  <2> QED
    BY <1>7, Smallest
<1> DEFINE Ps == {y.place[2] : y \in {v \in B : v.session = n /\ v.place[1] = t}}
<1>9. Ps # {} /\ Ps \subseteq Nat
  BY <1>4, <1>8
<1>10. PICK p \in Ps : \A k \in Ps : p <= k
  <2> HIDE DEF Ps
  <2> QED
    BY <1>9, Smallest
<1>11. PICK z \in B : z.session = n /\ z.place[1] = t /\ z.place[2] = p
  BY <1>10
<1>12. ASSUME NEW y \in composed \ {z}, SameGroup(z, y, level)
       PROVE  \/ Severity(y.cand) < Severity(z.cand)
              \/ Severity(y.cand) = Severity(z.cand) /\ Before(z, y)
  <2>1. y \in G
    BY <1>11, <1>12 DEF SameGroup
  <2>2. Severity(y.cand) <= m /\ Severity(y.cand) \in {1, 2} /\ Severity(z.cand) = m
    BY <1>2, <1>3, <1>11, <2>1
  <2>3. CASE Severity(y.cand) = m
    <3>1. y \in B /\ n <= y.session
      BY <1>6, <2>1, <2>3
    <3>2. CASE y.session # n
      BY <1>4, <1>6, <1>5, <1>11, <2>2, <2>3, <3>1, <3>2 DEF Before
    <3>3. CASE y.session = n
      <4>1. t <= y.place[1]
        BY <1>8, <3>1, <3>3
      <4>2. CASE y.place[1] # t
        BY <1>4, <1>11, <2>2, <2>3, <3>3, <4>1, <4>2 DEF Before
      <4>3. CASE y.place[1] = t
        <5>1. p <= y.place[2]
          BY <1>10, <3>1, <3>3, <4>3
        <5>2. y.place[2] # p
          <6> SUFFICES ASSUME y.place[2] = p PROVE FALSE
            OBVIOUS
          <6>1. y.place = z.place /\ y.session = z.session
            BY <1>4, <1>11, <3>3, <4>3
          <6> QED
            BY <1>4, <1>11, <6>1
        <5> QED
          BY <1>4, <1>11, <2>2, <2>3, <3>3, <4>3, <5>1, <5>2 DEF Before
      <4> QED
        BY <4>2, <4>3
    <3> QED
      BY <3>2, <3>3
  <2> QED
    BY <2>2, <2>3
<1>13. z \in Representatives(composed, level)
  BY <1>11, <1>12 DEF Representatives
<1>14. SameGroup(z, x, level) /\ Severity(z.cand) >= Severity(x.cand)
  BY <1>1, <1>2, <1>3, <1>11 DEF SameGroup
<1> QED
  BY <1>13, <1>14
-----------------------------------------------------------------------------
(* The steps.                                                              *)

LEMMA CheckerInit == Init => CheckerInv
<1> SUFFICES ASSUME Init PROVE CheckerInv
  OBVIOUS
<1>1. /\ contracts \in Contracts /\ session = 1 /\ phase = "check" /\ composed = {}
      /\ judged["reject"] = {} /\ judged["keep"] = {}
      /\ judged \in [{"keep", "reject"} -> SUBSET (judged["keep"] \cup judged["reject"])]
  BY DEF Init
<1>2. session \in 1 .. Len(Sessions) + 1
  <2>1. Len(Sessions) \in Nat
    BY L2Assumption
  <2> QED
    BY <1>1, <2>1
<1>3. UnderReview /\ NotYetJudged /\ FromCandidates
  BY <1>1 DEF UnderReview, NotYetJudged, FromCandidates
<1>4. CalibrationExact /\ RecallSafe
  BY <1>1 DEF CalibrationExact, RecallSafe
<1> QED
  BY <1>1, <1>2, <1>3, <1>4 DEF CheckerInv

\* A session is left with the hypotheses of the candidates that its reviewer
\* did not reject.
LEMMA ComposeKeeps ==
    ASSUME CheckerInv, UNCHANGED <<contracts, static, judged>>,
           session <= Len(Sessions), NEW ks, Compose(CandidatesOf(session), ks),
           \A p \in DOMAIN CandidatesOf(session) :
              ks[p] = (<<session, p>> \notin judged["reject"])
    PROVE  /\ contracts' \in Contracts /\ session' \in 1 .. Len(Sessions)' + 1
           /\ FromCandidates' /\ CalibrationExact'
<1>1. session' = session + 1 /\ session \in Nat /\ Len(Sessions) \in Nat
  BY L2Assumption DEF Compose, CheckerInv
<1>2. /\ \A n : CandidatesOf(n)' = CandidatesOf(n)
      /\ \A n : CheckRequirements(Sessions[n])' = CheckRequirements(Sessions[n])
  BY SameCandidates DEF CandidatesOf
<1> DEFINE new == {[cand |-> CandidatesOf(session)[p], session |-> session, place |-> p] :
                     p \in {q \in DOMAIN CandidatesOf(session) : ks[q]}}
<1>3. composed' = composed \cup new
  BY DEF Compose, Hypotheses
<1>4. session' \in 1 .. Len(Sessions)' + 1
  BY <1>1 DEF CheckerInv
<1>5. FromCandidates'
  <2> SUFFICES ASSUME NEW x \in composed'
               PROVE  /\ x = [cand |-> x.cand, session |-> x.session, place |-> x.place]
                      /\ x.session \in 1 .. session' - 1
                      /\ x.place \in DOMAIN CandidatesOf(x.session)
                      /\ x.cand = CandidatesOf(x.session)[x.place]
    BY <1>2 DEF FromCandidates
  <2>1. CASE x \in composed
    <3>1. x.session \in 1 .. session - 1
      BY <2>1 DEF CheckerInv, FromCandidates
    <3>2. x.session \in 1 .. session' - 1
      BY <1>1, <3>1
    <3> QED
      BY <2>1, <3>2 DEF CheckerInv, FromCandidates
  <2>2. CASE x \in new
    <3>1. PICK p \in DOMAIN CandidatesOf(session) :
             x = [cand |-> CandidatesOf(session)[p], session |-> session, place |-> p]
      BY <2>2
    <3>2. session \in 1 .. session' - 1
      BY <1>1 DEF CheckerInv
    <3> QED
      BY <3>1, <3>2
  <2> QED
    BY <1>3, <2>1, <2>2
<1>6. CalibrationExact'
  <2> SUFFICES ASSUME NEW n \in 1 .. session' - 1
               PROVE  {h.place : h \in {x \in composed' : x.session = n}}
                        = {p \in DOMAIN CandidatesOf(n) : <<n, p>> \notin judged["reject"]}
    BY <1>2 DEF CalibrationExact, CandidatesOf
  <2>1. CASE n = session
    <3>1. {x \in composed' : x.session = n} = new
      <4>1. \A x \in composed : x.session # n
        BY <1>1, <2>1 DEF CheckerInv, FromCandidates
      <4> QED
        BY <1>3, <2>1, <4>1
    <3>2. {h.place : h \in new} = {q \in DOMAIN CandidatesOf(session) : ks[q]}
      <4> DEFINE D == {q \in DOMAIN CandidatesOf(session) : ks[q]}
                 made(p) == [cand |-> CandidatesOf(session)[p], session |-> session, place |-> p]
      <4>1. \A p : made(p).place = p
        OBVIOUS
      <4>2. new = {made(p) : p \in D}
        OBVIOUS
      <4> HIDE DEF D, made, new
      <4>3. {h.place : h \in new} = D
        BY <4>1, <4>2
      <4> QED
        BY <4>3 DEF D
    <3>3. {q \in DOMAIN CandidatesOf(session) : ks[q]}
            = {p \in DOMAIN CandidatesOf(session) : <<session, p>> \notin judged["reject"]}
      OBVIOUS
    <3> QED
      BY <2>1, <3>1, <3>2, <3>3
  <2>2. CASE n # session
    <3>1. n \in 1 .. session - 1
      BY <1>1, <2>2
    <3>2. {x \in composed' : x.session = n} = {x \in composed : x.session = n}
      BY <1>3, <2>2
    <3> QED
      BY <3>1, <3>2 DEF CheckerInv, CalibrationExact, CandidatesOf
  <2> QED
    BY <2>1, <2>2
<1> QED
  BY <1>4, <1>5, <1>6 DEF CheckerInv

LEMMA CheckKeeps == ASSUME CheckerInv, Check PROVE CheckerInv'
<1>1. /\ phase = "check" /\ session <= Len(Sessions)
      /\ UNCHANGED <<contracts, static, judged>>
      /\ cands' = CandidatesOf(session) /\ keep' = AllKept(CandidatesOf(session))
      /\ IF DOMAIN CandidatesOf(session) = {} \/ skipC
         THEN /\ Compose(CandidatesOf(session), AllKept(CandidatesOf(session)))
              /\ phase' = phase
         ELSE phase' = "review" /\ UNCHANGED <<composed, session>>
  BY DEF Check, CandidatesOf
<1>2. /\ \A n : CandidatesOf(n)' = CandidatesOf(n)
      /\ \A n : CheckRequirements(Sessions[n])' = CheckRequirements(Sessions[n])
  BY <1>1, SameCandidates DEF CandidatesOf
<1>3. session \in Nat /\ \A p : <<session, p>> \notin judged["reject"]
  BY <1>1 DEF CheckerInv, NotYetJudged
<1>4. \A p \in DOMAIN CandidatesOf(session) : AllKept(CandidatesOf(session))[p] = TRUE
  BY DEF AllKept
<1>5. judged' \in [{"keep", "reject"} -> SUBSET (judged["keep"] \cup judged["reject"])']
  BY <1>1 DEF CheckerInv
<1>6. CASE DOMAIN CandidatesOf(session) = {} \/ skipC
  <2>1. \A p \in DOMAIN CandidatesOf(session) :
           AllKept(CandidatesOf(session))[p] = (<<session, p>> \notin judged["reject"])
    BY <1>3, <1>4
  <2>2. /\ contracts' \in Contracts /\ session' \in 1 .. Len(Sessions)' + 1
        /\ FromCandidates' /\ CalibrationExact'
    BY <1>1, <1>6, <2>1, ComposeKeeps
  <2>3. session' = session + 1 /\ phase' = "check"
    BY <1>1, <1>6 DEF Compose
  <2>4. UnderReview' /\ RecallSafe'
    BY <2>3 DEF UnderReview, RecallSafe
  <2>5. NotYetJudged'
    BY <1>1, <1>3, <2>3 DEF CheckerInv, NotYetJudged
  <2> QED
    BY <1>5, <2>2, <2>4, <2>5 DEF CheckerInv
<1>7. CASE ~(DOMAIN CandidatesOf(session) = {} \/ skipC)
  <2>1. phase' = "review" /\ UNCHANGED <<composed, session>>
    BY <1>1, <1>7
  <2>2. contracts' \in Contracts /\ session' \in 1 .. Len(Sessions)' + 1
    BY <1>1, <2>1 DEF CheckerInv
  <2>3. UnderReview'
    <3>1. keep' \in [DOMAIN cands' -> BOOLEAN]
      BY <1>1 DEF AllKept
    <3>2. ASSUME NEW p \in DOMAIN cands'
          PROVE  keep'[p] = (<<session, p>> \notin judged["reject"])
      <4>1. keep'[p] = TRUE
        BY <1>1, <1>4
      <4> QED
        BY <1>3, <4>1
    <3>3. cands' = CheckRequirements(Sessions[session])'
      BY <1>1, <1>2, <2>1 DEF CandidatesOf
    <3>4. CheckRequirements(Sessions[session])' = CandidatesOf(session)'
      BY DEF CandidatesOf
    <3> QED
      BY <1>1, <2>1, <3>1, <3>2, <3>3, <3>4 DEF UnderReview
  <2>4. NotYetJudged' /\ RecallSafe'
    BY <1>1, <1>3, <2>1 DEF CheckerInv, NotYetJudged, RecallSafe
  <2>5. FromCandidates' /\ CalibrationExact'
    BY <1>1, <1>2, <2>1 DEF CheckerInv, FromCandidates, CalibrationExact
  <2> QED
    BY <1>5, <2>2, <2>3, <2>4, <2>5 DEF CheckerInv
<1> QED
  BY <1>6, <1>7

\* The last verdict counts, for the session under review only.
LEMMA JudgeKeeps == ASSUME CheckerInv, Judge PROVE CheckerInv'
<1>1. /\ phase = "review" /\ UNCHANGED <<contracts, static, session, phase, cands, composed, report>>
      /\ session \in Nat
  BY DEF Judge, CheckerInv
<1>2. PICK id \in DOMAIN cands, verdict \in {"keep", "reject"} :
         /\ keep' = [keep EXCEPT ![id] = (verdict # "reject")]
         /\ judged' = [v \in {"keep", "reject"} |->
                          IF v = verdict THEN judged[v] \cup {<<session, id>>}
                          ELSE judged[v] \ {<<session, id>>}]
  BY DEF Judge
<1>3. /\ \A n : CandidatesOf(n)' = CandidatesOf(n)
      /\ \A n : CheckRequirements(Sessions[n])' = CheckRequirements(Sessions[n])
  BY <1>1, SameCandidates DEF CandidatesOf
<1>4. judged'["reject"] = IF verdict = "reject" THEN judged["reject"] \cup {<<session, id>>}
                          ELSE judged["reject"] \ {<<session, id>>}
  BY <1>2
<1>5. judged' \in [{"keep", "reject"} -> SUBSET (judged'["keep"] \cup judged'["reject"])]
  BY <1>2
<1>6. \A n, p : n # session \/ p # id =>
         (<<n, p>> \in judged'["reject"] <=> <<n, p>> \in judged["reject"])
  BY <1>4
<1>7. <<session, id>> \in judged'["reject"] <=> verdict = "reject"
  BY <1>4
<1>8. UnderReview'
  <2>1. /\ session <= Len(Sessions) /\ cands = CandidatesOf(session)
        /\ keep \in [DOMAIN cands -> BOOLEAN]
        /\ \A p \in DOMAIN cands : keep[p] = (<<session, p>> \notin judged["reject"])
    BY <1>1 DEF CheckerInv, UnderReview
  <2>2. keep' \in [DOMAIN cands -> BOOLEAN]
    BY <1>2, <2>1
  <2>3. ASSUME NEW p \in DOMAIN cands
        PROVE  keep'[p] = (<<session, p>> \notin judged'["reject"])
    <3>1. CASE p = id
      BY <1>2, <1>7, <2>1, <3>1
    <3>2. CASE p # id
      <4>1. keep'[p] = keep[p]
        BY <1>2, <2>1, <3>2
      <4> QED
        BY <1>6, <2>1, <3>2, <4>1
    <3> QED
      BY <3>1, <3>2
  <2> QED
    BY <1>1, <1>3, <2>1, <2>2, <2>3 DEF UnderReview
<1>9. NotYetJudged'
  <2>1. \A n \in Nat : n > session => \A p : <<n, p>> \notin judged'["reject"]
    BY <1>1, <1>6 DEF CheckerInv, NotYetJudged
  <2> QED
    BY <1>1, <2>1 DEF NotYetJudged
<1>10. FromCandidates' /\ RecallSafe'
  BY <1>1, <1>3 DEF CheckerInv, FromCandidates, RecallSafe
<1>11. CalibrationExact'
  <2>1. \A n \in 1 .. session - 1 : \A p :
           <<n, p>> \in judged'["reject"] <=> <<n, p>> \in judged["reject"]
    <3>1. \A n \in 1 .. session - 1 : n # session
      BY <1>1
    <3> QED
      BY <1>6, <3>1
  <2> QED
    BY <1>1, <1>3, <2>1 DEF CheckerInv, CalibrationExact
<1> QED
  BY <1>1, <1>5, <1>8, <1>9, <1>10, <1>11 DEF CheckerInv

LEMMA EndReviewKeeps == ASSUME CheckerInv, EndReview PROVE CheckerInv'
<1>1. /\ phase = "review" /\ phase' = "check" /\ Compose(cands, keep)
      /\ UNCHANGED <<contracts, static, judged>>
  BY DEF EndReview
<1>2. /\ session <= Len(Sessions) /\ cands = CandidatesOf(session)
      /\ \A p \in DOMAIN cands : keep[p] = (<<session, p>> \notin judged["reject"])
  BY <1>1 DEF CheckerInv, UnderReview
<1>3. /\ contracts' \in Contracts /\ session' \in 1 .. Len(Sessions)' + 1
      /\ FromCandidates' /\ CalibrationExact'
  BY <1>1, <1>2, ComposeKeeps
<1>4. session' = session + 1 /\ session \in Nat
  BY <1>1 DEF Compose, CheckerInv
<1>5. UnderReview' /\ RecallSafe'
  BY <1>1 DEF UnderReview, RecallSafe
<1>6. NotYetJudged'
  BY <1>1, <1>4 DEF CheckerInv, NotYetJudged
<1>7. judged' \in [{"keep", "reject"} -> SUBSET (judged["keep"] \cup judged["reject"])']
  BY <1>1 DEF CheckerInv
<1> QED
  BY <1>3, <1>5, <1>6, <1>7 DEF CheckerInv

\* What is left of the result represents everything that was composed.
LEMMA FinishKeeps == ASSUME CheckerInv, Finish PROVE CheckerInv'
<1>1. /\ phase = "check" /\ phase' = "finished"
      /\ UNCHANGED <<contracts, static, session, composed, judged>>
  BY DEF Finish
<1>2. /\ \A n : CandidatesOf(n)' = CandidatesOf(n)
      /\ \A n : CheckRequirements(Sessions[n])' = CheckRequirements(Sessions[n])
  BY <1>1, SameCandidates DEF CandidatesOf
<1>3. RecallSafe'
  <2> SUFFICES ASSUME NEW x \in composed
               PROVE  \E y \in report' :
                         /\ HazardClass(y.cand) = HazardClass(x.cand)
                         /\ Severity(y.cand) >= Severity(x.cand)
                         /\ \/ {y.cand.a, y.cand.b} \cap {x.cand.a, x.cand.b} # {}
                            \/ ObjectsAt(y.cand) \cap ObjectsAt(x.cand) # {}
    <3>1. \A h : HazardClass(h)' = HazardClass(h)
      BY Zenon DEF HazardClass
    <3>2. \A h : Severity(h)' = Severity(h)
      BY DEF Severity
    <3>3. \A h : ObjectsAt(h)' = ObjectsAt(h)
      <4>1. \A o, n : AccessesAt(o, n)' = AccessesAt(o, n)
        OBVIOUS
      <4>2. \A n : ObjectsOf(n)' = ObjectsOf(n)
        BY <4>1 DEF ObjectsOf
      <4> QED
        BY <4>2 DEF ObjectsAt
    <3> QED
      BY <1>1, <3>1, <3>2, <3>3 DEF RecallSafe
  <2>1. CASE report' = composed
    <3>1. Severity(x.cand) >= Severity(x.cand)
      BY DEF Severity
    <3> QED
      BY <2>1, <3>1
  <2>2. CASE \E level \in Levels : report' = Representatives(composed, level)
    <3>1. PICK level \in Levels : report' = Representatives(composed, level)
      BY <2>2
    <3>2. PICK y \in report' : SameGroup(y, x, level) /\ Severity(y.cand) >= Severity(x.cand)
      BY <3>1, Represented DEF CheckerInv
    <3>3. CanonicalKey(y.cand, level) = CanonicalKey(x.cand, level)
      BY <3>2 DEF SameGroup
    <3> QED
      BY <3>2, <3>3, OneGroupOneBug
  <2> QED
    BY <2>1, <2>2 DEF Finish
<1>4. FromCandidates' /\ CalibrationExact'
  BY <1>1, <1>2 DEF CheckerInv, FromCandidates, CalibrationExact
<1>5. UnderReview' /\ NotYetJudged'
  BY <1>1 DEF UnderReview, NotYetJudged
<1>6. /\ contracts' \in Contracts /\ session' \in 1 .. Len(Sessions)' + 1
      /\ judged' \in [{"keep", "reject"} -> SUBSET (judged["keep"] \cup judged["reject"])']
  BY <1>1 DEF CheckerInv
<1> QED
  BY <1>3, <1>4, <1>5, <1>6 DEF CheckerInv

\* An exception ends the analysis; nothing is said of its result.
LEMMA ThrowKeeps == ASSUME CheckerInv, ReviewThrows PROVE CheckerInv'
<1>1. /\ phase' = "dead"
      /\ UNCHANGED <<contracts, static, session, composed, judged>>
  BY DEF ReviewThrows
<1>2. /\ \A n : CandidatesOf(n)' = CandidatesOf(n)
      /\ \A n : CheckRequirements(Sessions[n])' = CheckRequirements(Sessions[n])
  BY <1>1, SameCandidates DEF CandidatesOf
<1>3. FromCandidates' /\ CalibrationExact'
  BY <1>1, <1>2 DEF CheckerInv, FromCandidates, CalibrationExact
<1>4. UnderReview' /\ NotYetJudged' /\ RecallSafe'
  BY <1>1 DEF UnderReview, NotYetJudged, RecallSafe
<1>5. /\ contracts' \in Contracts /\ session' \in 1 .. Len(Sessions)' + 1
      /\ judged' \in [{"keep", "reject"} -> SUBSET (judged["keep"] \cup judged["reject"])']
  BY <1>1 DEF CheckerInv
<1> QED
  BY <1>3, <1>4, <1>5 DEF CheckerInv

LEMMA CheckerStep == CheckerInv /\ [Next]_vars => CheckerInv'
<1> SUFFICES ASSUME CheckerInv, [Next]_vars PROVE CheckerInv'
  OBVIOUS
<1>1. CASE UNCHANGED vars
  <2>1. UNCHANGED <<contracts, static, session, phase, cands, keep, composed, report, judged>>
    BY <1>1 DEF vars
  <2>2. /\ \A n : CandidatesOf(n)' = CandidatesOf(n)
        /\ \A n : CheckRequirements(Sessions[n])' = CheckRequirements(Sessions[n])
    BY <2>1, SameCandidates DEF CandidatesOf
  <2>3. FromCandidates' /\ CalibrationExact' /\ UnderReview'
    BY <2>1, <2>2 DEF CheckerInv, FromCandidates, CalibrationExact, UnderReview
  <2>4. NotYetJudged' /\ RecallSafe'
    BY <2>1 DEF CheckerInv, NotYetJudged, RecallSafe
  <2> QED
    BY <2>1, <2>3, <2>4 DEF CheckerInv
<1>2. CASE Check
  BY <1>2, CheckKeeps
<1>3. CASE Judge
  BY <1>3, JudgeKeeps
<1>4. CASE EndReview
  BY <1>4, EndReviewKeeps
<1>5. CASE ReviewThrows
  BY <1>5, ThrowKeeps
<1>6. CASE Finish
  BY <1>6, FinishKeeps
<1> QED
  BY <1>1, <1>2, <1>3, <1>4, <1>5, <1>6 DEF Next

LEMMA CheckerInvariant == Spec => []CheckerInv
BY CheckerInit, CheckerStep, PTL DEF Spec

\* The hypotheses of a session are the candidates whose last verdict in that
\* session was no rejection: fail-open, and no verdict reaches another session.
THEOREM CheckerCalibration == Spec => []CalibrationExact
<1>1. CheckerInv => CalibrationExact
  BY DEF CheckerInv
<1> QED
  BY <1>1, CheckerInvariant, PTL

\* Whatever the level of the merge, each composed hypothesis is reported or
\* represented by one of its hazard class that is at least as severe and has a
\* node or an object in common with it.
THEOREM CheckerRecall == Spec => []RecallSafe
<1>1. CheckerInv => RecallSafe
  BY DEF CheckerInv
<1> QED
  BY <1>1, CheckerInvariant, PTL
-----------------------------------------------------------------------------
(* The work list of ordReach.                                              *)

\* What the code is given does not change.
Given == contracts \in Contracts /\ static \in Statics

\* Whether S has the target of each guarantee edge that control flow reaches
\* from x, and the least set that has all those of the node and of its members.
HasTargets(gs, x, S) == Targets(gs, x) \subseteq S

Closed(gs, from, S) == \A x \in {from} \cup S : HasTargets(gs, x, S)

Visited(gs, from) == {n \in Node : \A S \in SUBSET Node : Closed(gs, from, S) => n \in S}

\* A function on the natural numbers is given by its first value and its step.
LEMMA RecursionOnNat ==
    ASSUME NEW S, NEW a \in S, NEW g \in [S -> S]
    PROVE  \E f \in [Nat -> S] : f[0] = a /\ \A k \in Nat : f[k + 1] = g[f[k]]
<1> DEFINE Upto(n) == {f \in [0 .. n -> S] :
                          f[0] = a /\ \A k \in 0 .. n - 1 : f[k + 1] = g[f[k]]}
<1>1. ASSUME NEW n \in Nat PROVE Upto(n) # {}
  <2> DEFINE T == {m \in Nat : Upto(m) = {}}
  <2> SUFFICES ASSUME T # {} PROVE FALSE
    OBVIOUS
  <2>1. PICK m \in T : \A y \in T : m <= y
    <3> HIDE DEF Upto
    <3>1. T \subseteq Nat
      OBVIOUS
    <3> HIDE DEF T
    <3> QED
      BY <3>1, Smallest
  <2>2. CASE m = 0
    <3>1. [k \in 0 .. 0 |-> a] \in Upto(0)
      OBVIOUS
    <3> QED
      BY <2>1, <2>2, <3>1
  <2>3. CASE m # 0
    <3>1. m - 1 \in Nat /\ m \in Nat /\ ~(m <= m - 1)
      BY <2>1, <2>3
    <3>2. Upto(m - 1) # {}
      <4> HIDE DEF Upto
      <4> QED
        BY <2>1, <3>1
    <3>3. PICK f \in Upto(m - 1) : TRUE
      BY <3>2
    <3> DEFINE d == [k \in 0 .. m |-> IF k = m THEN g[f[m - 1]] ELSE f[k]]
    <3>4. f \in [0 .. m - 1 -> S] /\ f[0] = a
      BY <3>3
    <3>5. \A k \in 0 .. m - 2 : f[k + 1] = g[f[k]]
      BY <3>1, <3>3
    <3>6. d \in [0 .. m -> S] /\ d[0] = a
      BY <2>3, <3>1, <3>4
    <3>7. ASSUME NEW k \in 0 .. m - 1 PROVE d[k + 1] = g[d[k]]
      <4>1. CASE k = m - 1
        BY <3>1, <4>1
      <4>2. CASE k # m - 1
        <5>1. k \in 0 .. m - 2 /\ k + 1 \in 0 .. m /\ k + 1 # m /\ k \in 0 .. m /\ k # m
          BY <3>1, <4>2
        <5> QED
          BY <3>5, <5>1
      <4> QED
        BY <4>1, <4>2
    <3> HIDE DEF d
    <3>8. d \in Upto(m)
      BY <3>6, <3>7
    <3> QED
      BY <2>1, <3>8
  <2> QED
    BY <2>2, <2>3
<1>2. ASSUME NEW m \in Nat, NEW n \in Nat, m <= n, NEW f \in Upto(m), NEW h \in Upto(n)
      PROVE  \A k \in 0 .. m : f[k] = h[k]
  <2> DEFINE T == {k \in 0 .. m : f[k] # h[k]}
  <2> SUFFICES ASSUME T # {} PROVE FALSE
    OBVIOUS
  <2>1. PICK k \in T : \A y \in T : k <= y
    <3>1. T \subseteq Nat
      OBVIOUS
    <3> HIDE DEF T
    <3> QED
      BY <3>1, Smallest
  <2>2. f[0] = h[0]
    OBVIOUS
  <2>3. k # 0
    BY <2>1, <2>2
  <2>4. k - 1 \in 0 .. m - 1 /\ k - 1 \in 0 .. n - 1 /\ k - 1 \in 0 .. m /\ ~(k <= k - 1)
        /\ (k - 1) + 1 = k
    BY <1>2, <2>1, <2>3
  <2>5. f[k - 1] = h[k - 1]
    BY <2>1, <2>4
  <2>6. f[(k - 1) + 1] = g[f[k - 1]] /\ h[(k - 1) + 1] = g[h[k - 1]]
    BY <2>4
  <2> QED
    BY <2>1, <2>4, <2>5, <2>6
<1> DEFINE best == [n \in Nat |-> CHOOSE f \in Upto(n) : TRUE]
           F == [n \in Nat |-> best[n][n]]
<1>3. ASSUME NEW n \in Nat PROVE best[n] \in Upto(n)
  <2> HIDE DEF Upto
  <2> QED
    BY <1>1
<1> HIDE DEF best
<1>4. F \in [Nat -> S]
  <2> SUFFICES ASSUME NEW n \in Nat PROVE best[n][n] \in S
    OBVIOUS
  <2>1. best[n] \in [0 .. n -> S] /\ n \in 0 .. n
    BY <1>3
  <2> QED
    BY <2>1
<1>5. F[0] = a
  <2>1. best[0] \in Upto(0)
    BY <1>3
  <2> QED
    BY <2>1
<1>6. ASSUME NEW k \in Nat PROVE F[k + 1] = g[F[k]]
  <2>1. k + 1 \in Nat /\ k <= k + 1 /\ k \in 0 .. k /\ k \in 0 .. (k + 1) - 1
    OBVIOUS
  <2>2. best[k] \in Upto(k) /\ best[k + 1] \in Upto(k + 1)
    BY <1>3, <2>1
  <2>3. best[k][k] = best[k + 1][k]
    <3> HIDE DEF Upto
    <3> QED
      BY <1>2, <2>1, <2>2
  <2>4. best[k + 1][k + 1] = g[best[k + 1][k]]
    BY <2>1, <2>2
  <2> QED
    BY <2>1, <2>3, <2>4
<1> QED
  BY <1>4, <1>5, <1>6

\* A finite set as a sequence.
LEMMA AsSequence ==
    ASSUME NEW S, IsFiniteSet(S)
    PROVE  /\ SetToSeq(S) \in Seq(S) /\ Len(SetToSeq(S)) = Cardinality(S)
           /\ \A x \in S : \E k \in 1 .. Cardinality(S) : SetToSeq(S)[k] = x
           /\ Cardinality(S) \in Nat
<1>1. Cardinality(S) \in Nat /\ ExistsBijection(1 .. Cardinality(S), S)
  BY FS_CardinalityType
<1>2. \E f \in [1 .. Cardinality(S) -> S] : IsInjective(f)
  BY <1>1 DEF ExistsBijection, Bijection, Injection
<1>3. SetToSeq(S) \in [1 .. Cardinality(S) -> S] /\ IsInjective(SetToSeq(S))
  BY <1>2 DEF SetToSeq
<1> DEFINE q == SetToSeq(S)
<1>4. q \in Injection(1 .. Cardinality(S), S)
  BY <1>3 DEF Injection
<1>5. Cardinality(1 .. Cardinality(S)) = Cardinality(S)
  BY <1>1, FS_Interval
<1> HIDE DEF q
<1>6. q \in Surjection(1 .. Cardinality(S), S)
  BY <1>4, <1>5, FS_Injection
<1>7. q \in [1 .. Cardinality(S) -> S]
  BY <1>4 DEF Injection
<1>8. q \in Seq(S) /\ Len(q) = Cardinality(S)
  BY <1>1, <1>7
<1> QED
  BY <1>1, <1>6, <1>8 DEF Surjection, q

\* What the list is after the first pass and after one more pop.
Begin(start) == Push([visited |-> {}, work |-> <<>>], start)

Pop(w, hops) ==
    IF w.work = <<>> THEN w ELSE Push([w EXCEPT !.work = Front(@)], hops[Last(w.work)])

Lists(T) == [visited : SUBSET T, work : Seq(T)]

\* The popped node, and what is left.
LEMMA Popped ==
    ASSUME NEW T, NEW q \in Seq(T), q # <<>>
    PROVE  /\ Last(q) \in T /\ Front(q) \in Seq(T) /\ Len(Front(q)) = Len(q) - 1
           /\ Len(q) \in Nat \ {0} /\ Last(q) = q[Len(q)]
           /\ \A i \in 1 .. Len(q) - 1 : Front(q)[i] = q[i]
BY DEF Last, Front

LEMMA PushKeeps ==
    ASSUME NEW T, IsFiniteSet(T), NEW w \in Lists(T), NEW targets \in SUBSET T
    PROVE  /\ Push(w, targets) \in Lists(T)
           /\ Push(w, targets).visited = w.visited \cup targets
           /\ Push(w, targets).work = w.work \o SetToSeq(targets \ w.visited)
<1>1. IsFiniteSet(targets \ w.visited) /\ targets \ w.visited \subseteq T
  BY FS_Subset
<1>2. SetToSeq(targets \ w.visited) \in Seq(targets \ w.visited)
  BY <1>1, AsSequence
<1>3. SetToSeq(targets \ w.visited) \in Seq(T)
  BY <1>1, <1>2
<1>4. w.visited \in SUBSET T /\ w.work \in Seq(T)
  BY DEF Lists
<1> QED
  BY <1>3, <1>4 DEF Push, Lists

LEMMA PopKeeps ==
    ASSUME NEW T, IsFiniteSet(T), NEW w \in Lists(T), NEW hops, \A x \in T : hops[x] \subseteq T
    PROVE  Pop(w, hops) \in Lists(T)
<1>1. CASE w.work = <<>>
  BY <1>1 DEF Pop
<1>2. CASE w.work # <<>>
  <2>1. w.work \in Seq(T) /\ w.visited \in SUBSET T
        /\ w = [visited |-> w.visited, work |-> w.work]
    BY DEF Lists
  <2>2. Last(w.work) \in T /\ Front(w.work) \in Seq(T)
    BY <1>2, <2>1, Popped
  <2>3. [w EXCEPT !.work = Front(@)] \in Lists(T)
    BY <2>1, <2>2 DEF Lists
  <2>4. hops[Last(w.work)] \in SUBSET T
    BY <2>2
  <2> QED
    BY <1>2, <2>3, <2>4, PushKeeps DEF Pop
<1> QED
  BY <1>1, <1>2

\* The loop is what its first value and its step say.
LEMMA LoopIs ==
    ASSUME NEW T, IsFiniteSet(T), NEW start \in SUBSET T, NEW hops,
           \A x \in T : hops[x] \subseteq T
    PROVE  /\ WorkList(start, hops)[0] = Begin(start)
           /\ \A k \in Nat : /\ WorkList(start, hops)[k] \in Lists(T)
                             /\ WorkList(start, hops)[k + 1] = Pop(WorkList(start, hops)[k], hops)
<1> DEFINE R(f) == [k \in Nat |-> IF k = 0 THEN Begin(start) ELSE Pop(f[k - 1], hops)]
           g == [w \in Lists(T) |-> Pop(w, hops)]
<1>1. Begin(start) \in Lists(T)
  <2>1. [visited |-> {}, work |-> <<>>] \in Lists(T)
    BY DEF Lists
  <2> QED
    BY <2>1, PushKeeps DEF Begin
<1>2. g \in [Lists(T) -> Lists(T)]
  BY PopKeeps
<1>3. \E f \in [Nat -> Lists(T)] : f[0] = Begin(start) /\ \A k \in Nat : f[k + 1] = g[f[k]]
  <2> DEFINE S == Lists(T)
             a == Begin(start)
  <2>1. a \in S /\ g \in [S -> S]
    BY <1>1, <1>2
  <2> HIDE DEF g, S, a
  <2>2. \E f \in [Nat -> S] : f[0] = a /\ \A k \in Nat : f[k + 1] = g[f[k]]
    BY <2>1, RecursionOnNat
  <2> QED
    BY <2>2 DEF S, a
<1>4. PICK f \in [Nat -> Lists(T)] : f[0] = Begin(start) /\ \A k \in Nat : f[k + 1] = g[f[k]]
  BY <1>3
<1>5. \A k \in Nat : f[k + 1] = Pop(f[k], hops)
  BY <1>4
<1>6. f = R(f)
  <2>1. \A k \in Nat : f[k] = IF k = 0 THEN Begin(start) ELSE Pop(f[k - 1], hops)
    <3> SUFFICES ASSUME NEW k \in Nat, k # 0 PROVE f[k] = Pop(f[k - 1], hops)
      BY <1>4
    <3>1. k - 1 \in Nat /\ (k - 1) + 1 = k
      OBVIOUS
    <3> QED
      BY <1>5, <3>1
  <2>2. f = [k \in Nat |-> f[k]]
    BY <1>4
  <2> QED
    BY <2>1, <2>2
<1>7. WorkList(start, hops) = CHOOSE h : h = R(h)
  BY DEF WorkList, Begin, Pop
<1> DEFINE W == WorkList(start, hops)
<1>8. W = R(W)
  <2> HIDE DEF R
  <2> QED
    BY <1>6, <1>7
<1>9. W[0] = Begin(start) /\ \A k \in Nat : W[k + 1] = Pop(W[k], hops)
  <2>1. \A k \in Nat : W[k] = IF k = 0 THEN Begin(start) ELSE Pop(W[k - 1], hops)
    <3> HIDE DEF W
    <3> QED
      BY <1>8
  <2>2. ASSUME NEW k \in Nat PROVE W[k + 1] = Pop(W[k], hops)
    <3>1. k + 1 \in Nat /\ k + 1 # 0 /\ (k + 1) - 1 = k
      OBVIOUS
    <3> HIDE DEF W
    <3> QED
      BY <2>1, <3>1
  <2> QED
    BY <2>1, <2>2
<1>10. ASSUME NEW k \in Nat PROVE W[k] \in Lists(T)
  <2> DEFINE N == {j \in Nat : W[j] \notin Lists(T)}
  <2> SUFFICES ASSUME N # {} PROVE FALSE
    OBVIOUS
  <2>1. PICK j \in N : \A y \in N : j <= y
    <3>1. N \subseteq Nat
      OBVIOUS
    <3> HIDE DEF N
    <3> QED
      BY <3>1, Smallest
  <2> HIDE DEF W
  <2>2. j # 0
    BY <1>1, <1>9, <2>1
  <2>3. j - 1 \in Nat /\ (j - 1) + 1 = j /\ ~(j <= j - 1)
    BY <2>1, <2>2
  <2>4. W[j - 1] \in Lists(T)
    BY <2>1, <2>3
  <2>5. W[j] \in Lists(T)
    BY <1>9, <2>3, <2>4, PopKeeps
  <2> QED
    BY <2>1, <2>5
<1> QED
  BY <1>9, <1>10

\* What holds after k pops: the list holds the visited nodes that were not popped,
\* and a popped one has its targets visited.
Listed(w, x) == \E i \in 1 .. Len(w.work) : w.work[i] = x

PoppedBefore(loop, k, x) == \E j \in 0 .. k - 1 : loop[j].work # <<>> /\ Last(loop[j].work) = x

LoopInv(loop, hops, start, T, k) ==
    /\ start \subseteq loop[k].visited
    /\ \A x \in loop[k].visited :
          Listed(loop[k], x) \/ (hops[x] \subseteq loop[k].visited /\ PoppedBefore(loop, k, x))
    /\ \A i \in 1 .. Len(loop[k].work) : loop[k].work[i] \in loop[k].visited
    /\ \A C \in SUBSET T : (start \subseteq C /\ \A x \in C : hops[x] \subseteq C)
                              => loop[k].visited \subseteq C
    /\ loop[k].work # <<>> => Cardinality(loop[k].visited) = k + Len(loop[k].work)

\* What a push on a list does.
LEMMA Pushed ==
    ASSUME NEW T, IsFiniteSet(T), NEW w \in Lists(T), NEW targets \in SUBSET T
    PROVE  LET new == Push(w, targets) IN
           /\ new.visited = w.visited \cup targets
           /\ \A x : Listed(new, x) <=> (Listed(w, x) \/ x \in targets \ w.visited)
           /\ Cardinality(new.visited) - Len(new.work) = Cardinality(w.visited) - Len(w.work)
           /\ Len(new.work) \in Nat /\ Cardinality(new.visited) \in Nat
           /\ Len(w.work) \in Nat /\ Cardinality(w.visited) \in Nat
<1>0. /\ Push(w, targets) \in Lists(T)
      /\ Push(w, targets).visited = w.visited \cup targets
      /\ Push(w, targets).work = w.work \o SetToSeq(targets \ w.visited)
  BY PushKeeps
<1> DEFINE new == Push(w, targets)
           D == targets \ w.visited
           q == SetToSeq(D)
<1>1. new.visited = w.visited \cup targets /\ new.work = w.work \o q /\ new \in Lists(T)
  BY <1>0
<1>2. IsFiniteSet(D) /\ D \subseteq T /\ IsFiniteSet(w.visited) /\ IsFiniteSet(targets)
  BY FS_Subset DEF Lists
<1>3. /\ q \in Seq(D) /\ Len(q) = Cardinality(D) /\ Cardinality(D) \in Nat
      /\ \A x \in D : \E k \in 1 .. Cardinality(D) : q[k] = x
  <2> HIDE DEF D
  <2> QED
    BY <1>2, AsSequence
<1>4. w.work \in Seq(T) /\ q \in Seq(T)
  BY <1>2, <1>3 DEF Lists
<1>5. Cardinality(w.visited) \in Nat
  BY <1>2, FS_CardinalityType
<1>6. Cardinality(new.visited) = Cardinality(w.visited) + Cardinality(D)
  <2>1. new.visited = w.visited \cup D /\ w.visited \cap D = {}
    BY <1>1
  <2>2. Cardinality(w.visited \cup D) =
          Cardinality(w.visited) + Cardinality(D) - Cardinality(w.visited \cap D)
    <3> HIDE DEF D
    <3> QED
      BY <1>2, FS_Union
  <2>3. Cardinality(w.visited \cap D) = 0
    <3>1. Cardinality({}) = 0
      BY FS_EmptySet
    <3> HIDE DEF D
    <3> QED
      BY <2>1, <3>1
  <2>4. Cardinality(new.visited) = Cardinality(w.visited \cup D)
    <3> HIDE DEF D, new
    <3> QED
      BY <2>1
  <2> HIDE DEF D, new
  <2> QED
    BY <1>3, <1>5, <2>2, <2>3, <2>4
<1> HIDE DEF q, new
<1>7. Len(new.work) = Len(w.work) + Len(q) /\ Len(w.work) \in Nat /\ Len(q) \in Nat
  BY <1>1, <1>4
<1>8. \A i \in 1 .. Len(new.work) :
         new.work[i] = IF i <= Len(w.work) THEN w.work[i] ELSE q[i - Len(w.work)]
  BY <1>1, <1>4
<1>9. ASSUME NEW x, Listed(new, x) PROVE Listed(w, x) \/ x \in D
  <2>1. PICK i \in 1 .. Len(new.work) : new.work[i] = x
    BY <1>9 DEF Listed
  <2>2. CASE i <= Len(w.work)
    <3>1. i \in 1 .. Len(w.work) /\ w.work[i] = x
      BY <1>7, <1>8, <2>1, <2>2
    <3> QED
      BY <3>1 DEF Listed
  <2>3. CASE ~(i <= Len(w.work))
    <3>1. i - Len(w.work) \in 1 .. Len(q) /\ q[i - Len(w.work)] = x
      BY <1>7, <1>8, <2>1, <2>3
    <3> HIDE DEF D
    <3> QED
      BY <1>3, <3>1
  <2> QED
    BY <2>2, <2>3
<1>10. ASSUME NEW x, Listed(w, x) PROVE Listed(new, x)
  <2>1. PICK i \in 1 .. Len(w.work) : w.work[i] = x
    BY <1>10 DEF Listed
  <2>2. i \in 1 .. Len(new.work) /\ new.work[i] = x
    BY <1>7, <1>8, <2>1
  <2> QED
    BY <2>2 DEF Listed
<1>11. ASSUME NEW x \in D PROVE Listed(new, x)
  <2> HIDE DEF D
  <2>1. PICK k \in 1 .. Cardinality(D) : q[k] = x
    BY <1>3
  <2>2. k + Len(w.work) \in 1 .. Len(new.work) /\ ~(k + Len(w.work) <= Len(w.work))
        /\ (k + Len(w.work)) - Len(w.work) = k
    BY <1>3, <1>7, <2>1
  <2>3. new.work[k + Len(w.work)] = x
    BY <1>8, <2>1, <2>2
  <2> QED
    BY <2>2, <2>3 DEF Listed
<1>12. Cardinality(new.visited) - Len(new.work) = Cardinality(w.visited) - Len(w.work)
  <2> HIDE DEF D
  <2> QED
    BY <1>3, <1>5, <1>6, <1>7
<1>13. Len(new.work) \in Nat /\ Cardinality(new.visited) \in Nat
  <2> HIDE DEF D
  <2> QED
    BY <1>3, <1>5, <1>6, <1>7
<1>14. \A x : Listed(new, x) <=> (Listed(w, x) \/ x \in D)
  BY <1>9, <1>10, <1>11
<1> QED
  BY <1>1, <1>5, <1>7, <1>12, <1>13, <1>14 DEF new

LEMMA LoopHolds ==
    ASSUME NEW T, IsFiniteSet(T), NEW start \in SUBSET T, NEW hops,
           \A x \in T : hops[x] \subseteq T, NEW n \in Nat
    PROVE  LoopInv(WorkList(start, hops), hops, start, T, n)
<1> DEFINE W == WorkList(start, hops)
<1>1. /\ W[0] = Begin(start)
      /\ \A k \in Nat : W[k] \in Lists(T) /\ W[k + 1] = Pop(W[k], hops)
  BY LoopIs
<1> HIDE DEF W
<1>2. LoopInv(W, hops, start, T, 0)
  <2> DEFINE w == [visited |-> {}, work |-> <<>>]
             none == Push(w, start)
  <2>1. w \in Lists(T)
    BY DEF Lists
  <2>2. /\ none.visited = w.visited \cup start
        /\ \A x : Listed(none, x) <=> (Listed(w, x) \/ x \in start \ w.visited)
        /\ Cardinality(none.visited) - Len(none.work) = Cardinality(w.visited) - Len(w.work)
        /\ Len(none.work) \in Nat /\ Cardinality(none.visited) \in Nat
    <3> HIDE DEF w
    <3> QED
      BY <2>1, Pushed
  <2>3. w.visited = {} /\ w.work = <<>> /\ Len(w.work) = 0 /\ Cardinality(w.visited) = 0
    <3>1. Cardinality({}) = 0
      BY FS_EmptySet
    <3> QED
      BY <3>1
  <2>4. W[0] = none
    BY <1>1 DEF Begin
  <2> HIDE DEF w, none
  <2>5. \A x : ~Listed(w, x)
    BY <2>3 DEF Listed
  <2>6. W[0].visited = start /\ \A x : Listed(W[0], x) <=> x \in start
    BY <2>2, <2>3, <2>4, <2>5
  <2>7. Cardinality(W[0].visited) = 0 + Len(W[0].work)
    <3>1. /\ Cardinality(none.visited) - Len(none.work) = 0 - 0
          /\ Len(none.work) \in Nat /\ Cardinality(none.visited) \in Nat
      BY Zenon, <2>2, <2>3
    <3> DEFINE c == Cardinality(none.visited)
               l == Len(none.work)
    <3> HIDE DEF c, l
    <3>2. c = 0 + l
      BY <3>1 DEF c, l
    <3> QED
      BY Zenon, <2>4, <3>2 DEF c, l
  <2>8. \A i \in 1 .. Len(W[0].work) : W[0].work[i] \in W[0].visited
    BY <2>6 DEF Listed
  <2> QED
    BY <2>6, <2>7, <2>8 DEF LoopInv
<1>3. ASSUME NEW k \in Nat, LoopInv(W, hops, start, T, k)
      PROVE  LoopInv(W, hops, start, T, k + 1)
  <2> DEFINE w == W[k]
             v == W[k + 1]
  <2>1. w \in Lists(T) /\ v = Pop(w, hops)
    BY <1>1
  <2>2. \A x : PoppedBefore(W, k, x) => PoppedBefore(W, k + 1, x)
    BY DEF PoppedBefore
  <2>3. CASE w.work = <<>>
    <3>1. v = w
      BY <2>1, <2>3 DEF Pop
    <3> QED
      BY <1>3, <2>2, <2>3, <3>1 DEF LoopInv
  <2>4. CASE w.work # <<>>
    <3> DEFINE x0 == Last(w.work)
               u == [w EXCEPT !.work = Front(@)]
               hs == hops[x0]
    <3>1. w.work \in Seq(T) /\ w.visited \in SUBSET T
          /\ w = [visited |-> w.visited, work |-> w.work]
      BY <2>1 DEF Lists
    <3>2. /\ x0 \in T /\ Front(w.work) \in Seq(T) /\ Len(Front(w.work)) = Len(w.work) - 1
          /\ Len(w.work) \in Nat \ {0} /\ x0 = w.work[Len(w.work)]
          /\ \A i \in 1 .. Len(w.work) - 1 : Front(w.work)[i] = w.work[i]
      <4> HIDE DEF w
      <4> QED
        BY <2>4, <3>1, Popped
    <3>3. u \in Lists(T) /\ u.visited = w.visited /\ u.work = Front(w.work)
      BY <3>1, <3>2 DEF Lists
    <3>4. hs \in SUBSET T
      BY <3>2
    <3>5. v = Push(u, hs)
      BY <2>1, <2>4 DEF Pop
    <3>6. /\ v.visited = u.visited \cup hs
          /\ \A x : Listed(v, x) <=> (Listed(u, x) \/ x \in hs \ u.visited)
          /\ Cardinality(v.visited) - Len(v.work) = Cardinality(u.visited) - Len(u.work)
          /\ Len(v.work) \in Nat /\ Cardinality(v.visited) \in Nat
      <4> HIDE DEF u, hs, v, w
      <4> QED
        BY <3>3, <3>4, <3>5, Pushed
    <3> HIDE DEF u, hs
    <3>7. \A x : Listed(w, x) => Listed(u, x) \/ x = x0
      <4> SUFFICES ASSUME NEW x, Listed(w, x), x # x0 PROVE Listed(u, x)
        OBVIOUS
      <4>1. PICK i \in 1 .. Len(w.work) : w.work[i] = x
        BY DEF Listed
      <4>2. i \in 1 .. Len(u.work) /\ u.work[i] = x
        BY <3>2, <3>3, <4>1
      <4> QED
        BY <4>2 DEF Listed
    <3>8. \A x : Listed(u, x) => x \in w.visited
      <4> SUFFICES ASSUME NEW x, Listed(u, x) PROVE x \in w.visited
        OBVIOUS
      <4>1. PICK i \in 1 .. Len(u.work) : u.work[i] = x
        BY DEF Listed
      <4>2. i \in 1 .. Len(w.work) /\ w.work[i] = x
        BY <3>2, <3>3, <4>1
      <4> QED
        BY <1>3, <4>2 DEF LoopInv
    <3>9. x0 \in w.visited
      <4>1. Len(w.work) \in 1 .. Len(w.work)
        BY <3>2
      <4> QED
        BY <1>3, <3>2, <4>1 DEF LoopInv
    <3>10. PoppedBefore(W, k + 1, x0)
      <4>1. k \in 0 .. (k + 1) - 1
        OBVIOUS
      <4> QED
        BY <2>4, <4>1 DEF PoppedBefore
    <3>11. v.visited = w.visited \cup hs
      BY <3>3, <3>6
    <3>12. start \subseteq v.visited
      BY <1>3, <3>11 DEF LoopInv
    <3>13. \A i \in 1 .. Len(v.work) : v.work[i] \in v.visited
      <4> SUFFICES ASSUME NEW i \in 1 .. Len(v.work) PROVE v.work[i] \in v.visited
        OBVIOUS
      <4>1. Listed(v, v.work[i])
        BY DEF Listed
      <4> HIDE DEF v
      <4> QED
        BY <3>3, <3>6, <3>8, <3>11, <4>1
    <3>14. ASSUME NEW C \in SUBSET T, start \subseteq C, \A x \in C : hops[x] \subseteq C
           PROVE  v.visited \subseteq C
      <4>1. w.visited \subseteq C
        BY <1>3, <3>14 DEF LoopInv
      <4> QED
        BY <3>9, <3>11, <3>14, <4>1 DEF hs
    <3>15. Cardinality(v.visited) = (k + 1) + Len(v.work)
      <4>1. Cardinality(w.visited) = k + Len(w.work)
        BY <1>3, <2>4 DEF LoopInv
      <4>2. Cardinality(u.visited) = k + Len(w.work) /\ Len(u.work) = Len(w.work) - 1
        BY <3>2, <3>3, <4>1
      <4>3. /\ Cardinality(v.visited) - Len(v.work) = (k + Len(w.work)) - (Len(w.work) - 1)
            /\ Len(v.work) \in Nat /\ Cardinality(v.visited) \in Nat /\ Len(w.work) \in Nat
        BY Zenon, <3>6, <3>2, <4>2
      <4> DEFINE c == Cardinality(v.visited)
                 l == Len(v.work)
                 m == Len(w.work)
      <4>4. c - l = (k + m) - (m - 1) /\ l \in Nat /\ c \in Nat /\ m \in Nat
        BY <4>3
      <4> HIDE DEF c, l, m
      <4>5. c = (k + 1) + l
        BY <4>4
      <4> QED
        BY Zenon, <4>5 DEF c, l
    <3>16. ASSUME NEW x \in v.visited
           PROVE  Listed(v, x) \/ (hops[x] \subseteq v.visited /\ PoppedBefore(W, k + 1, x))
      <4>1. CASE x = x0
        BY <3>10, <3>11, <4>1 DEF hs
      <4>2. CASE x # x0 /\ x \in w.visited
        <5>1. Listed(w, x) \/ (hops[x] \subseteq w.visited /\ PoppedBefore(W, k, x))
          BY <1>3, <4>2 DEF LoopInv
        <5>2. CASE Listed(w, x)
          BY <3>6, <3>7, <4>2, <5>2
        <5>3. CASE hops[x] \subseteq w.visited /\ PoppedBefore(W, k, x)
          BY <2>2, <3>11, <5>3
        <5> QED
          BY <5>1, <5>2, <5>3
      <4>3. CASE x \notin w.visited
        <5>1. x \in hs \ u.visited
          BY <3>3, <3>11, <3>16, <4>3
        <5> QED
          BY <3>6, <5>1
      <4> QED
        BY <4>1, <4>2, <4>3
    <3> QED
      BY <3>12, <3>13, <3>14, <3>15, <3>16 DEF LoopInv
  <2> QED
    BY <2>3, <2>4
<1>4. \A m \in Nat : LoopInv(W, hops, start, T, m)
  <2> DEFINE N == {m \in Nat : ~LoopInv(W, hops, start, T, m)}
  <2> SUFFICES ASSUME N # {} PROVE FALSE
    OBVIOUS
  <2>1. PICK m \in N : \A y \in N : m <= y
    <3>1. N \subseteq Nat
      OBVIOUS
    <3> HIDE DEF N
    <3> QED
      BY <3>1, Smallest
  <2>2. m # 0
    BY <1>2, <2>1
  <2>3. m - 1 \in Nat /\ (m - 1) + 1 = m /\ ~(m <= m - 1)
    BY <2>1, <2>2
  <2>4. LoopInv(W, hops, start, T, m - 1)
    BY <2>1, <2>3
  <2>5. LoopInv(W, hops, start, T, (m - 1) + 1)
    BY <1>3, <2>3, <2>4
  <2> QED
    BY <2>1, <2>3, <2>5
<1> QED
  BY <1>4 DEF W

\* The image of a finite set.
LEMMA FiniteImage ==
    ASSUME NEW S, IsFiniteSet(S), NEW f, DOMAIN f = S
    PROVE  /\ IsFiniteSet({f[x] : x \in S})
           /\ Cardinality({f[x] : x \in S}) <= Cardinality(S)
<1> DEFINE T == {f[x] : x \in S}
           g == [x \in S |-> f[x]]
<1>1. g \in Surjection(S, T)
  BY DEF Surjection
<1> HIDE DEF T, g
<1>2. IsFiniteSet(T) /\ Cardinality(T) <= Cardinality(S)
  BY <1>1, FS_Surjection
<1> QED
  BY <1>2 DEF T

\* The loop answers yes exactly when control flow reaches the node from one of
\* the least set that is closed under the guarantee edges.
LEMMA GuarReachIs ==
    ASSUME NEW gs, GuarEdges(gs) \subseteq Node \X Node, IsFiniteSet(GuarEdges(gs)),
           NEW from, NEW to
    PROVE  GuarReach(gs, from, to) <=> \E x \in Visited(gs, from) : CfReach(x, to)
<1> DEFINE E == GuarEdges(gs)
           T == {e[2] : e \in E}
           start == Targets(gs, from)
           hops == [x \in Node |-> Targets(gs, x)]
           W == WorkList(start, hops)
           V == Visited(gs, from)
           K == Cardinality(E)
<1>1. IsFiniteSet(T) /\ Cardinality(T) <= K /\ T \subseteq Node
  <2> DEFINE f == [e \in E |-> e[2]]
  <2>1. DOMAIN f = E /\ {f[e] : e \in E} = T
    OBVIOUS
  <2>2. IsFiniteSet({f[e] : e \in E}) /\ Cardinality({f[e] : e \in E}) <= Cardinality(E)
    <3>1. IsFiniteSet(E) /\ DOMAIN f = E
      BY <2>1
    <3> HIDE DEF f, E
    <3> QED
      BY <3>1, FiniteImage
  <2>3. T \subseteq Node
    OBVIOUS
  <2> HIDE DEF f, E, T
  <2> QED
    BY <2>1, <2>2, <2>3
<1>2. K \in Nat /\ Cardinality(T) \in Nat
  BY <1>1, FS_CardinalityType
<1>3. \A x : Targets(gs, x) \subseteq T
  BY DEF Targets
<1>4. start \in SUBSET T /\ \A x \in T : hops[x] \subseteq T /\ hops[x] = Targets(gs, x)
  BY <1>1, <1>3
<1>5. \A k \in Nat : W[k] \in Lists(T) /\ W[k + 1] = Pop(W[k], hops)
  <2> HIDE DEF T, hops, start
  <2> QED
    BY <1>1, <1>4, LoopIs
<1>6. \A k \in Nat : LoopInv(W, hops, start, T, k)
  <2> HIDE DEF T, hops, start
  <2> QED
    BY <1>1, <1>4, LoopHolds
<1> HIDE DEF W
<1>7. V \subseteq T
  <2>1. Closed(gs, from, T) /\ T \in SUBSET Node
    BY <1>1, <1>3 DEF Closed, HasTargets
  <2> QED
    BY <2>1 DEF Visited
<1>8. start \subseteq V /\ \A x \in V : hops[x] \subseteq V
  <2>1. \A x \in {from} \cup V : Targets(gs, x) \subseteq V
    <3> SUFFICES ASSUME NEW x \in {from} \cup V, NEW y \in Targets(gs, x),
                        NEW S \in SUBSET Node, Closed(gs, from, S)
                 PROVE  y \in Node /\ y \in S
      <4>1. \A x \in {from} \cup V : \A y \in Targets(gs, x) : y \in Node
        BY <1>1, <1>3
      <4> QED
        BY <4>1 DEF Visited
    <3>1. x \in {from} \cup S
      BY DEF Visited
    <3> QED
      BY <1>1, <1>3, <3>1 DEF Closed, HasTargets
  <2>2. \A x \in V : hops[x] = Targets(gs, x)
    BY <1>4, <1>7
  <2> HIDE DEF V, hops
  <2> QED
    BY <2>1, <2>2
<1>9. \A k \in Nat : W[k].visited \subseteq V
  <2> SUFFICES ASSUME NEW k \in Nat PROVE W[k].visited \subseteq V
    OBVIOUS
  <2>1. V \in SUBSET T
    BY <1>7
  <2>2. LoopInv(W, hops, start, T, k)
    BY <1>6
  <2> HIDE DEF V, T, hops, start
  <2> QED
    BY <1>8, <2>1, <2>2 DEF LoopInv
<1>10. ASSUME GuarReach(gs, from, to) PROVE \E x \in V : CfReach(x, to)
  <2>1. PICK k \in 0 .. K : W[k].work # <<>> /\ CfReach(Last(W[k].work), to)
    BY <1>10 DEF GuarReach, W
  <2>2. k \in Nat
    BY <1>2, <2>1
  <2>3. W[k].work \in Seq(T)
    BY <1>5, <2>2 DEF Lists
  <2> DEFINE w == W[k]
  <2>4. Len(w.work) \in 1 .. Len(w.work) /\ Last(w.work) = w.work[Len(w.work)]
    <3> HIDE DEF T, w
    <3>1. w.work # <<>> /\ w.work \in Seq(T)
      BY <2>1, <2>3 DEF w
    <3>2. Len(w.work) \in Nat \ {0} /\ Last(w.work) = w.work[Len(w.work)]
      BY <3>1, Popped
    <3> QED
      BY <3>2
  <2>5. Last(w.work) \in w.visited
    <3>1. LoopInv(W, hops, start, T, k)
      BY <1>6, <2>2
    <3> HIDE DEF T, hops, start
    <3> QED
      BY <2>4, <3>1 DEF LoopInv
  <2> QED
    BY <1>9, <2>1, <2>2, <2>5
<1>11. ASSUME NEW x \in V, CfReach(x, to) PROVE GuarReach(gs, from, to)
  <2> DEFINE w == W[K]
  <2>1. w \in Lists(T) /\ LoopInv(W, hops, start, T, K)
    BY <1>2, <1>5, <1>6
  <2>2. w.work \in Seq(T) /\ w.visited \in SUBSET T
    BY <2>1 DEF Lists
  <2>3. Cardinality(w.visited) <= Cardinality(T)
    <3> HIDE DEF T, w
    <3> QED
      BY <1>1, <2>2, FS_Subset
  <2>4. w.work = <<>>
    <3> SUFFICES ASSUME w.work # <<>> PROVE FALSE
      OBVIOUS
    <3>1. Cardinality(w.visited) = K + Len(w.work)
      BY <2>1 DEF LoopInv
    <3>2. Len(w.work) \in Nat \ {0}
      <4> HIDE DEF T, w
      <4> QED
        BY <2>2, Popped
    <3> DEFINE l == Len(w.work)
               c == Cardinality(w.visited)
               t == Cardinality(T)
    <3>3. c = K + l /\ l \in Nat \ {0} /\ c <= t /\ t <= K /\ K \in Nat /\ t \in Nat
      BY <1>1, <1>2, <2>3, <3>1, <3>2
    <3> HIDE DEF l, c, t, K
    <3> QED
      BY <3>3
  <2>5. \A y : ~Listed(w, y)
    BY <2>4 DEF Listed
  <2>6. \A y \in w.visited : hops[y] \subseteq w.visited /\ PoppedBefore(W, K, y)
    <3> HIDE DEF T, hops, start, K
    <3> QED
      BY <2>1, <2>5 DEF LoopInv
  <2>7. Closed(gs, from, w.visited)
    <3>1. start \subseteq w.visited
      <4> HIDE DEF T, hops, start, K
      <4> QED
        BY <2>1 DEF LoopInv
    <3>2. \A y \in w.visited : hops[y] = Targets(gs, y)
      BY <1>4, <2>2
    <3> HIDE DEF w, hops
    <3> QED
      BY <2>6, <3>1, <3>2 DEF Closed, HasTargets
  <2>8. x \in w.visited
    <3>1. w.visited \in SUBSET Node
      BY <1>1, <2>2
    <3> HIDE DEF w
    <3> QED
      BY <2>7, <3>1 DEF Visited
  <2>9. PICK j \in 0 .. K - 1 : W[j].work # <<>> /\ Last(W[j].work) = x
    <3>1. PoppedBefore(W, K, x)
      BY <2>6, <2>8
    <3> HIDE DEF K
    <3> QED
      BY <3>1 DEF PoppedBefore
  <2>10. j \in 0 .. K
    BY <1>2, <2>9
  <2> QED
    BY <1>11, <2>9, <2>10 DEF GuarReach, W
<1> QED
  BY <1>10, <1>11

\* The guarantees of all contracts: finitely many edges between nodes.
LEMMA EdgesType ==
    ASSUME Given
    PROVE  GuarEdges(AllGuars) \subseteq Node \X Node /\ IsFiniteSet(GuarEdges(AllGuars))
<1>1. /\ IsFiniteSet(DOMAIN contracts)
      /\ \A t \in DOMAIN contracts : contracts[t] \in Contract /\ IsFiniteSet(contracts[t].guars)
  BY L2Assumption DEF Given
<1>2. AllGuars = UNION {contracts[t].guars : t \in DOMAIN contracts}
  BY DEF AllGuars, Guars
<1>3. AllGuars \subseteq NodeGuar
  BY <1>1, <1>2 DEF Contract
<1>4. IsFiniteSet(AllGuars)
  <2> DEFINE f == [t \in DOMAIN contracts |-> contracts[t].guars]
  <2>1. IsFiniteSet({f[t] : t \in DOMAIN contracts})
    <3>1. DOMAIN f = DOMAIN contracts
      OBVIOUS
    <3> HIDE DEF f
    <3> QED
      BY <1>1, <3>1, FiniteImage
  <2>2. IsFiniteSet(UNION {f[t] : t \in DOMAIN contracts})
    <3>1. \A T \in {f[t] : t \in DOMAIN contracts} : IsFiniteSet(T)
      BY <1>1
    <3> HIDE DEF f
    <3> QED
      BY <2>1, <3>1, FS_UNION
  <2>3. UNION {f[t] : t \in DOMAIN contracts} = AllGuars
    BY <1>2
  <2> QED
    BY <2>2, <2>3
<1> DEFINE hs == {h \in AllGuars : h.form \in {"Order", "Wait"}}
           pairs == [g \in hs |-> Elems(g.a) \X Elems(g.b)]
<1>5. IsFiniteSet(hs)
  BY <1>4, FS_Subset
<1>6. \A g \in hs : Elems(g.a) \subseteq Node /\ Elems(g.b) \subseteq Node
  <2> SUFFICES ASSUME NEW g \in hs PROVE Elems(g.a) \subseteq Node /\ Elems(g.b) \subseteq Node
    OBVIOUS
  <2>1. g.a \in Seq(Node) /\ g.b \in Seq(Node)
    BY <1>3 DEF NodeGuar
  <2> QED
    BY <2>1 DEF Elems
<1>7. \A q \in Seq(Node) : IsFiniteSet(Elems(q))
  <2> SUFFICES ASSUME NEW q \in Seq(Node) PROVE IsFiniteSet(Elems(q))
    OBVIOUS
  <2>1. DOMAIN q = 1 .. Len(q) /\ Len(q) \in Nat
    OBVIOUS
  <2>2. IsFiniteSet(DOMAIN q)
    BY <2>1, FS_Interval
  <2> QED
    BY <2>2, FiniteImage DEF Elems
<1>8. \A g \in hs : IsFiniteSet(pairs[g])
  <2> SUFFICES ASSUME NEW g \in hs PROVE IsFiniteSet(pairs[g])
    OBVIOUS
  <2>1. g.a \in Seq(Node) /\ g.b \in Seq(Node)
    BY <1>3 DEF NodeGuar
  <2>2. IsFiniteSet(Elems(g.a)) /\ IsFiniteSet(Elems(g.b))
    BY <1>7, <2>1
  <2> QED
    BY <2>2, FS_Product
<1>9. GuarEdges(AllGuars) = UNION {pairs[g] : g \in hs}
  BY DEF GuarEdges
<1>10. DOMAIN pairs = hs
  OBVIOUS
<1>11. IsFiniteSet(UNION {pairs[g] : g \in hs})
  <2> HIDE DEF hs, pairs
  <2>1. IsFiniteSet({pairs[g] : g \in hs})
    BY <1>5, <1>10, FiniteImage
  <2>2. \A T \in {pairs[g] : g \in hs} : IsFiniteSet(T)
    BY <1>8
  <2> QED
    BY <2>1, <2>2, FS_UNION
<1>12. GuarEdges(AllGuars) \subseteq Node \X Node
  BY <1>6 DEF GuarEdges
<1> QED
  BY <1>9, <1>11, <1>12

LEMMA SomeEdgesType ==
    ASSUME Given, NEW gs \in SUBSET AllGuars
    PROVE  GuarEdges(gs) \subseteq Node \X Node /\ IsFiniteSet(GuarEdges(gs))
<1>1. GuarEdges(gs) \subseteq GuarEdges(AllGuars)
  BY DEF GuarEdges
<1> QED
  BY <1>1, EdgesType, FS_Subset

-----------------------------------------------------------------------------
(* Evidence.                                                               *)

LEMMA GivenInvariant == Spec => []Given
<1>1. Init => Given
  BY DEF Init, Given
<1>2. Given /\ [Next]_vars => Given'
  BY DEF Given, Next, vars, Check, Judge, EndReview, ReviewThrows, Finish
<1> QED
  BY <1>1, <1>2, PTL DEF Spec

\* Fewer guarantees, fewer nodes under a token.
LEMMA UnderMonotone ==
    ASSUME NEW gs, NEW hs \in SUBSET gs, NEW form, NEW modes, NEW tok
    PROVE  Under(hs, form, modes, tok) \subseteq Under(gs, form, modes, tok)
BY DEF Under

\* Fewer guarantees, fewer orders.
LEMMA OrderMonotone ==
    ASSUME Given, NEW gs \in SUBSET AllGuars, NEW hs \in SUBSET gs,
           NEW a, NEW b, OrdReach(hs, a, b)
    PROVE  OrdReach(gs, a, b)
<1>1. GuarEdges(hs) \subseteq GuarEdges(gs)
  BY DEF GuarEdges
<1>2. \A x, S : HasTargets(gs, x, S) => HasTargets(hs, x, S)
  BY <1>1 DEF HasTargets, Targets
<1>3. Visited(hs, a) \subseteq Visited(gs, a)
  BY <1>2 DEF Visited, Closed
<1>4. /\ GuarReach(gs, a, b) <=> \E x \in Visited(gs, a) : CfReach(x, b)
      /\ GuarReach(hs, a, b) <=> \E x \in Visited(hs, a) : CfReach(x, b)
  <2>1. hs \in SUBSET AllGuars
    OBVIOUS
  <2> QED
    BY <2>1, SomeEdgesType, GuarReachIs
<1> QED
  BY <1>3, <1>4 DEF OrdReach

\* What some guarantees discharge, more of them discharge.
LEMMA DischargeMonotone ==
    ASSUME Given, NEW gs \in SUBSET AllGuars, NEW hs \in SUBSET gs,
           NEW r \in NodeReq, NEW O, NEW p,
           PairDischarged(r, hs, O, p)
    PROVE  PairDischarged(r, gs, O, p)
<1>1. \A tok : /\ Exclusive(hs, tok) \subseteq Exclusive(gs, tok)
               /\ Shared(hs, tok) \subseteq Shared(gs, tok)
  BY UnderMonotone DEF Exclusive, Shared
<1>2. \A a, b : CommonExclusion(hs, a, b) => CommonExclusion(gs, a, b)
  BY <1>1 DEF CommonExclusion
<1>3. \A a, b : AtomicCompatible(hs, a, b) => AtomicCompatible(gs, a, b)
  <2>1. \A tok : Under(hs, "AtomicOp", {"shared", "exclusive"}, tok)
                    \subseteq Under(gs, "AtomicOp", {"shared", "exclusive"}, tok)
    BY UnderMonotone
  <2> QED
    BY <2>1 DEF AtomicCompatible
<1>4. \A a, b : OrdReach(hs, a, b) => OrdReach(gs, a, b)
  BY OrderMonotone
<1>5. r.form \in {"MustPrecede", "MustBeMediated", "MustBeAtomic"}
  BY DEF NodeReq
<1>6. CASE r.form = "MustPrecede"
  BY <1>4, <1>6 DEF PairDischarged
<1>7. CASE r.form = "MustBeMediated"
  <2>1. Mediated(hs, O, p[1], p[2])
    BY <1>7 DEF PairDischarged
  <2>2. Mediated(gs, O, p[1], p[2])
    BY <1>2, <1>3, <1>4, <2>1 DEF Mediated
  <2> QED
    BY <1>7, <2>2 DEF PairDischarged
<1>8. CASE r.form = "MustBeAtomic"
  <2>1. KeptOutside(hs, O, r.a, p[2])
    BY <1>8 DEF PairDischarged
  <2>2. KeptOutside(gs, O, r.a, p[2])
    BY <1>2, <1>3, <1>4, <2>1 DEF KeptOutside
  <2> QED
    BY <1>8, <2>2 DEF PairDischarged
<1> QED
  BY <1>5, <1>6, <1>7, <1>8

LEMMA FewerGuaranteesMoreOpen == Given => EvidenceMonotone
<1> SUFFICES ASSUME Given, NEW s, NEW t \in s.threads \cap DOMAIN contracts,
                    NEW r \in Elems(contracts[t].reqs),
                    NEW g \in Guars(contracts, s.threads),
                    Open(s, t, r, Guars(contracts, s.threads))
             PROVE  Open(s, t, r, Guars(contracts, s.threads) \ {g})
  BY DEF EvidenceMonotone
<1> DEFINE gs == Guars(contracts, s.threads)
<1>1. r \in NodeReq
  <2>1. contracts[t] \in Contract
    BY L2Assumption DEF Given
  <2>2. contracts[t].reqs \in Seq(NodeReq)
    BY <2>1 DEF Contract
  <2> QED
    BY <2>2 DEF Elems
<1>2. OpenPairs(r, gs, ObjectIn(s, r), s.threads, t) # {}
  BY DEF Open
<1>3. OpenPairs(r, gs, ObjectIn(s, r), s.threads, t)
        \subseteq OpenPairs(r, gs \ {g}, ObjectIn(s, r), s.threads, t)
  <2> HIDE DEF gs
  <2>1. \A p : PairDischarged(r, gs \ {g}, ObjectIn(s, r), p)
                  => PairDischarged(r, gs, ObjectIn(s, r), p)
    <3>1. gs \in SUBSET AllGuars /\ gs \ {g} \in SUBSET gs
      BY DEF gs, AllGuars, Guars
    <3> QED
      BY <1>1, <3>1, DischargeMonotone
  <2> QED
    BY <2>1 DEF OpenPairs
<1> QED
  BY <1>2, <1>3 DEF Open

\* Evidence only ever discharges: no guarantee of any contract makes the checker
\* report a requirement that it would not report without it.
THEOREM CheckerMonotone == Spec => []EvidenceMonotone
BY GivenInvariant, FewerGuaranteesMoreOpen, PTL
-----------------------------------------------------------------------------
(* Chains of guarantees.  c[1 .. n] is a chain from a node to x.           *)

Links(c, n) == \A k \in 1 .. n - 1 : CfReach(c[k][2], c[k + 1][1])

Chain(edges, from, x, n, c) ==
    /\ n \in Nat \ {0} /\ c \in [1 .. n -> edges]
    /\ CfReach(from, c[1][1]) /\ c[n][2] = x
    /\ Links(c, n)

\* A longer chain visits an edge twice, and the part between can be left out.
LEMMA CutChain ==
    ASSUME NEW edges, NEW from, NEW x, NEW n, NEW c, Chain(edges, from, x, n, c),
           NEW i \in 1 .. n, NEW j \in 1 .. n, i < j, c[i] = c[j]
    PROVE  \E d : Chain(edges, from, x, n - (j - i), d)
<1> DEFINE m == n - (j - i)
           d == [k \in 1 .. m |-> IF k <= i THEN c[k] ELSE c[k + (j - i)]]
<1>1. n \in Nat /\ c \in [1 .. n -> edges]
  BY DEF Chain
<1>2. m \in Nat \ {0} /\ i <= m /\ m < n
  BY <1>1
<1>3. d \in [1 .. m -> edges]
  <2>1. \A k \in 1 .. m : k \in 1 .. n /\ (~(k <= i) => k + (j - i) \in 1 .. n)
    BY <1>1
  <2> QED
    BY <1>1, <2>1
<1>4. CfReach(from, d[1][1])
  <2>1. 1 \in 1 .. m /\ 1 <= i
    BY <1>1, <1>2
  <2> QED
    BY <2>1 DEF Chain
<1>5. d[m][2] = x
  <2>1. m \in 1 .. m
    BY <1>2
  <2>2. CASE m <= i
    <3>1. m = i /\ j = n
      BY <1>1, <1>2, <2>2
    <3> QED
      BY <2>1, <2>2, <3>1 DEF Chain
  <2>3. CASE ~(m <= i)
    <3>1. m + (j - i) = n
      BY <1>1
    <3> QED
      BY <2>1, <2>3, <3>1 DEF Chain
  <2> QED
    BY <2>2, <2>3
<1>6. ASSUME NEW k \in 1 .. m - 1 PROVE CfReach(d[k][2], d[k + 1][1])
  <2>1. k \in 1 .. m /\ k + 1 \in 1 .. m
    BY <1>2
  <2>2. CASE k + 1 <= i
    <3>1. k \in 1 .. n - 1 /\ k <= i
      BY <1>1, <1>2, <2>2
    <3> QED
      BY <2>1, <2>2, <3>1 DEF Chain, Links
  <2>3. CASE k = i
    <3>1. d[k] = c[j] /\ ~(k + 1 <= i) /\ (k + 1) + (j - i) = j + 1 /\ j \in 1 .. n - 1
      BY <1>1, <2>1, <2>3
    <3>2. d[k + 1] = c[j + 1]
      BY <2>1, <3>1
    <3> QED
      BY <3>1, <3>2 DEF Chain, Links
  <2>4. CASE k > i
    <3>1. /\ ~(k <= i) /\ ~(k + 1 <= i) /\ (k + 1) + (j - i) = (k + (j - i)) + 1
          /\ k + (j - i) \in 1 .. n - 1
      BY <1>1, <2>1, <2>4
    <3>2. d[k] = c[k + (j - i)] /\ d[k + 1] = c[(k + (j - i)) + 1]
      BY <2>1, <3>1
    <3> QED
      BY <3>1, <3>2 DEF Chain, Links
  <2> QED
    BY <2>1, <2>2, <2>3, <2>4
<1> HIDE DEF d
<1>7. Chain(edges, from, x, m, d)
  BY <1>2, <1>3, <1>4, <1>5, <1>6 DEF Chain, Links
<1> QED
  BY <1>7

\* So what has a chain has one that is no longer than the set of edges.
LEMMA ShortChain ==
    ASSUME NEW edges, IsFiniteSet(edges), NEW from, NEW x, NEW l, NEW b,
           Chain(edges, from, x, l, b)
    PROVE  \E n \in 0 .. Cardinality(edges) : \E c : Chain(edges, from, x, n, c)
<1> DEFINE T == {n \in Nat : \E c : Chain(edges, from, x, n, c)}
<1>1. T \subseteq Nat /\ T # {}
  BY DEF Chain
<1>2. PICK n \in T : \A k \in T : n <= k
  <2> HIDE DEF T
  <2> QED
    BY <1>1, Smallest
<1>3. PICK c : Chain(edges, from, x, n, c)
  BY <1>2
<1>4. n \in Nat /\ c \in [1 .. n -> edges]
  BY <1>3 DEF Chain
<1>5. ASSUME NEW i \in 1 .. n, NEW j \in 1 .. n, i < j PROVE c[i] # c[j]
  <2> SUFFICES ASSUME c[i] = c[j] PROVE FALSE
    OBVIOUS
  <2>1. \E d : Chain(edges, from, x, n - (j - i), d)
    BY <1>3, <1>5, CutChain
  <2>2. n - (j - i) \in Nat /\ n - (j - i) < n
    BY <1>4, <1>5
  <2> QED
    BY <1>2, <1>4, <2>1, <2>2
<1>6. \A i, j \in 1 .. n : c[i] = c[j] => i = j
  BY <1>4, <1>5
<1>7. c \in Injection(1 .. n, edges)
  BY <1>4, <1>6 DEF Injection, IsInjective
<1>8. Cardinality(1 .. n) <= Cardinality(edges)
  BY <1>7, FS_Injection
<1>9. Cardinality(1 .. n) = n
  BY <1>4, FS_Interval
<1>10. Cardinality(edges) \in Nat
  BY FS_CardinalityType
<1>11. n \in 0 .. Cardinality(edges)
  BY <1>4, <1>8, <1>9, <1>10
<1> QED
  BY <1>3, <1>11
\* A chain of members of a set that is closed under guarantee edges.
LEMMA ChainStays ==
    ASSUME NEW gs, NEW from, NEW x, NEW n, NEW c, Chain(GuarEdges(gs), from, x, n, c),
           NEW S, Closed(gs, from, S)
    PROVE  x \in S
<1>1. n \in Nat \ {0} /\ c \in [1 .. n -> GuarEdges(gs)]
  BY DEF Chain
<1> SUFFICES ASSUME \E k \in 1 .. n : c[k][2] \notin S PROVE FALSE
  BY <1>1 DEF Chain
<1> DEFINE T == {k \in 1 .. n : c[k][2] \notin S}
<1>2. T # {} /\ T \subseteq Nat
  BY <1>1
<1>3. PICK k \in T : \A j \in T : k <= j
  <2> HIDE DEF T
  <2> QED
    BY <1>2, Smallest
<1>4. c[k] \in GuarEdges(gs) /\ k \in 1 .. n
  BY <1>1
<1>5. CASE k = 1
  <2>1. CfReach(from, c[k][1])
    BY <1>5 DEF Chain
  <2> QED
    BY <1>4, <2>1 DEF Closed, HasTargets, Targets
<1>6. CASE k # 1
  <2>1. k - 1 \in 1 .. n - 1 /\ k - 1 \in 1 .. n /\ (k - 1) + 1 = k /\ ~(k <= k - 1)
    BY <1>1, <1>4, <1>6
  <2>2. c[k - 1][2] \in S
    BY <1>3, <2>1
  <2>3. CfReach(c[k - 1][2], c[k][1])
    BY <2>1 DEF Chain, Links
  <2> QED
    BY <1>4, <2>2, <2>3 DEF Closed, HasTargets, Targets
<1> QED
  BY <1>5, <1>6

\* What the work list finds is what chains of guarantees lead to.
LEMMA VisitedByChains ==
    ASSUME NEW gs, GuarEdges(gs) \subseteq Node \X Node, NEW from, NEW x
    PROVE  x \in Visited(gs, from) <=>
              \E n \in Nat : \E c : Chain(GuarEdges(gs), from, x, n, c)
<1> DEFINE E == GuarEdges(gs)
           R == {y \in Node : \E n \in Nat : \E c : Chain(E, from, y, n, c)}
<1>1. ASSUME NEW y \in {from} \cup R, NEW e \in E, CfReach(y, e[1])
      PROVE  e[2] \in R
  <2>1. e[2] \in Node
    BY <1>1
  <2>2. CASE y = from
    <3> DEFINE d == [k \in 1 .. 1 |-> e]
    <3>1. d \in [1 .. 1 -> E] /\ d[1] = e
      OBVIOUS
    <3>2. Links(d, 1)
      BY DEF Links
    <3> HIDE DEF d, E
    <3>3. Chain(E, from, e[2], 1, d)
      BY <1>1, <2>2, <3>1, <3>2 DEF Chain
    <3> QED
      BY <2>1, <3>3
  <2>3. CASE y \in R
    <3>0. PICK n \in Nat : \E c : Chain(E, from, y, n, c)
      BY <2>3
    <3>1. PICK c : Chain(E, from, y, n, c)
      BY <3>0
    <3> DEFINE d == [k \in 1 .. n + 1 |-> IF k = n + 1 THEN e ELSE c[k]]
    <3>2. n \in Nat \ {0} /\ c \in [1 .. n -> E] /\ c[n][2] = y
      BY <3>0, <3>1 DEF Chain
    <3>3. d \in [1 .. n + 1 -> E] /\ d[n + 1] = e /\ \A k \in 1 .. n : d[k] = c[k]
      BY <3>2
    <3> HIDE DEF d, E
    <3>4. CfReach(from, d[1][1])
      <4>1. 1 \in 1 .. n
        BY <3>2
      <4> QED
        BY <3>1, <3>3, <4>1 DEF Chain
    <3>5. ASSUME NEW k \in 1 .. (n + 1) - 1 PROVE CfReach(d[k][2], d[k + 1][1])
      <4>1. k \in 1 .. n
        BY <3>2
      <4>2. CASE k = n
        BY <1>1, <3>2, <3>3, <4>1, <4>2
      <4>3. CASE k # n
        <5>1. k \in 1 .. n - 1 /\ k + 1 \in 1 .. n
          BY <3>2, <4>1, <4>3
        <5> QED
          BY <3>1, <3>3, <4>1, <5>1 DEF Chain, Links
      <4> QED
        BY <4>2, <4>3
    <3>6. Chain(E, from, e[2], n + 1, d)
      BY <3>2, <3>3, <3>4, <3>5 DEF Chain, Links
    <3>7. n + 1 \in Nat
      BY <3>2
    <3> QED
      BY <2>1, <3>6, <3>7
  <2> QED
    BY <1>1, <2>2, <2>3
<1>2. Visited(gs, from) \subseteq R
  <2>1. R \in SUBSET Node
    OBVIOUS
  <2>2. Closed(gs, from, R)
    BY <1>1 DEF Closed, HasTargets, Targets
  <2> HIDE DEF R
  <2> QED
    BY <2>1, <2>2 DEF Visited
<1>3. ASSUME NEW n \in Nat, NEW c, Chain(E, from, x, n, c)
      PROVE  x \in Visited(gs, from)
  <2>1. x \in Node
    <3>1. n \in 1 .. n /\ c \in [1 .. n -> E] /\ c[n][2] = x
      BY <1>3 DEF Chain
    <3>2. c[n] \in Node \X Node
      BY <3>1
    <3> QED
      BY <3>1, <3>2
  <2>2. \A S \in SUBSET Node : Closed(gs, from, S) => x \in S
    BY <1>3, ChainStays
  <2> QED
    BY <2>1, <2>2 DEF Visited
<1> QED
  BY <1>2, <1>3

\* The two forms of a chain.
LEMMA WitnessIsChain ==
    ASSUME NEW gs, IsFiniteSet(GuarEdges(gs)), NEW a, NEW b
    PROVE  OrderWitness(gs, a, b) <=>
              \E x : /\ CfReach(x, b)
                     /\ \E n \in Nat : \E c : Chain(GuarEdges(gs), a, x, n, c)
<1> DEFINE E == GuarEdges(gs)
<1>1. Cardinality(E) \in Nat
  BY FS_CardinalityType
<1>2. ASSUME OrderWitness(gs, a, b)
      PROVE  \E x : CfReach(x, b) /\ \E n \in Nat : \E c : Chain(E, a, x, n, c)
  <2>1. PICK ch \in BoundedSeq(E, Cardinality(E)) :
           /\ ch # <<>>
           /\ CfReach(a, Head(ch)[1]) /\ CfReach(Last(ch)[2], b)
           /\ \A k \in 1 .. Len(ch) - 1 : CfReach(ch[k][2], ch[k+1][1])
    BY <1>2 DEF OrderWitness
  <2>2. PICK m \in 0 .. Cardinality(E) : ch \in [1 .. m -> E]
    BY DEF BoundedSeq, SeqOf
  <2> HIDE DEF E
  <2>3. m \in Nat
    BY <1>1
  <2>4. ch \in Seq(E) /\ Len(ch) = m
    BY <2>2, <2>3
  <2>5. m # 0 /\ Head(ch) = ch[1] /\ Last(ch) = ch[m]
    BY <2>1, <2>4 DEF Last
  <2>6. Chain(E, a, ch[m][2], m, ch)
    BY <2>1, <2>2, <2>3, <2>4, <2>5 DEF Chain, Links
  <2> QED
    BY <2>1, <2>3, <2>5, <2>6
<1>3. ASSUME NEW x, CfReach(x, b), NEW l \in Nat, NEW d, Chain(E, a, x, l, d)
      PROVE  OrderWitness(gs, a, b)
  <2>0. PICK n \in 0 .. Cardinality(E) : \E c : Chain(E, a, x, n, c)
    <3> HIDE DEF E
    <3>1. IsFiniteSet(E)
      BY DEF E
    <3> QED
      BY <1>3, <3>1, ShortChain
  <2>1. PICK c : Chain(E, a, x, n, c)
    BY <2>0
  <2>2. n \in Nat \ {0} /\ c \in [1 .. n -> E]
    BY <2>0, <2>1 DEF Chain
  <2>3. c \in BoundedSeq(E, Cardinality(E))
    BY <2>0, <2>1, <2>2 DEF BoundedSeq, SeqOf
  <2>4. c \in Seq(E) /\ Len(c) = n
    <3> HIDE DEF E
    <3> QED
      BY <2>2
  <2>5. c # <<>> /\ Head(c) = c[1] /\ Last(c) = c[n]
    <3> HIDE DEF E
    <3> QED
      BY <2>2, <2>4 DEF Last
  <2> QED
    BY <1>3, <2>1, <2>3, <2>4, <2>5 DEF OrderWitness, Chain, Links
<1> QED
  BY <1>2, <1>3

LEMMA OrderIsChain == Given => OrdReachExact
<1> SUFFICES ASSUME Given, NEW a \in Node, NEW b \in Node, a # b
             PROVE  OrdReach(AllGuars, a, b) =
                       (StaticSyncOrder(a, b) \/ OrderWitness(AllGuars, a, b))
  BY DEF OrdReachExact
<1> DEFINE E == GuarEdges(AllGuars)
<1>1. E \subseteq Node \X Node /\ IsFiniteSet(E)
  BY EdgesType
<1>2. OrderWitness(AllGuars, a, b) <=>
         \E x : CfReach(x, b) /\ \E n \in Nat : \E c : Chain(E, a, x, n, c)
  BY <1>1, WitnessIsChain
<1>3. \A x : x \in Visited(AllGuars, a) <=> \E n \in Nat : \E c : Chain(E, a, x, n, c)
  BY <1>1, VisitedByChains
<1>4. OrderWitness(AllGuars, a, b) <=> \E x \in Visited(AllGuars, a) : CfReach(x, b)
  <2> HIDE DEF E
  <2> QED
    BY <1>2, <1>3
<1>5. GuarReach(AllGuars, a, b) <=> \E x \in Visited(AllGuars, a) : CfReach(x, b)
  BY <1>1, GuarReachIs
<1>6. GuarReach(AllGuars, a, b) <=> OrderWitness(AllGuars, a, b)
  <2> HIDE DEF E
  <2> QED
    BY <1>4, <1>5
<1> QED
  BY <1>6 DEF OrdReach, StaticSyncOrder

\* ordReach answers yes exactly for a synchronized static order or a chain of
\* guarantees linked by control flow, however long the chain.
THEOREM CheckerOrder == Spec => []OrdReachExact
BY GivenInvariant, OrderIsChain, PTL
=============================================================================
