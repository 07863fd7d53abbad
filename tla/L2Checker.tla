------------------------------ MODULE L2Checker ------------------------------
(***************************************************************************)
(* Phase B and C of the requirement-driven pipeline (AgentManager.cpp,     *)
(* namespace l2 and the LACE_CONTRACT_L2 part of runAnalysisContractMode): *)
(* per session, compose the evidence of the thread-set's contracts, report *)
(* the requirements it does not discharge, let the Calibrator reject some  *)
(* and, after the last session, merge near-duplicates.                     *)
(*                                                                         *)
(* The contracts are what Phase A returned, in any combination.  The       *)
(* happens-before graph is known by its answers (module HBReach).          *)
(***************************************************************************)
EXTENDS Integers, FiniteSets, Sequences, SequencesExt

CONSTANTS
    Thread, Object, Node, Token,   \* ids (Object: indices of shared_objects)
    Accesses,    \* per object: its accesses, in surface order
    Sessions,    \* the thread-sets and objects of buildBudgetedSessions
    Contracts,   \* the contractsByTid maps Phase A may have returned
    Statics      \* the answers of the happens-before graph: [cf, sync]

NoLock == "nolock"

\* query::ThreadAccess; lock is NoLock unless is_lock_protected.
Access == [node : Node, tid : Thread, type : {"Read", "Write", "Free"},
           lock : Token \cup {NoLock}]

\* NodeReq and NodeGuar (obj is 0 for a requirement without object).
NodeReq == [form : {"MustPrecede", "MustBeMediated", "MustBeAtomic"},
            obj : Object \cup {0}, a : Seq(Node), b : Seq(Node)]

NodeGuar == [form : {"Order", "Wait", "Exclude", "AtomicOp"}, a : Seq(Node),
             b : Seq(Node), token : Token, mode : {"shared", "exclusive"}]

Contract == [reqs : Seq(NodeReq), guars : SUBSET NodeGuar]

ASSUME L2Assumption ==
    /\ Thread \subseteq Nat /\ Node \subseteq Nat /\ Object \subseteq Nat \ {0}
    /\ Accesses \in [Object -> Seq(Access)]
    /\ Sessions \in Seq([threads : SUBSET Thread, objs : SUBSET Object])
    /\ \A c \in Contracts :
          /\ c \in [DOMAIN c -> Contract]
          /\ DOMAIN c \subseteq Thread /\ IsFiniteSet(DOMAIN c)
          /\ \A t \in DOMAIN c : IsFiniteSet(c[t].guars)
    /\ \A st \in Statics : st.cf \cup st.sync \subseteq Node \X Node

VARIABLES
    contracts,   \* contractsByTid
    static,      \* the answers of hbReachable
    skipC,       \* skipPhaseCEnabled()
    session,     \* the session the loop is at
    phase,       \* "check", "review", "finished" or "dead"
    cands,       \* cands of the current session
    keep,        \* keep_ of the Calibrator
    composed,    \* composedL2: hypotheses with their session and place
    report,      \* confirmedHypotheses_
    judged       \* history: <<session, candidate>> of the judged, by verdict

vars == <<contracts, static, skipC, session, phase, cands, keep, composed,
          report, judged>>

-----------------------------------------------------------------------------
(* Evidence                                                                *)

Elems(s) == {s[k] : k \in DOMAIN s}

\* buildEvidence: the guarantees of the thread-set, by form.
Guars(cs, ts) == UNION {cs[t].guars : t \in ts \cap DOMAIN cs}

GuarEdges(gs) ==
    UNION {Elems(g.a) \X Elems(g.b) : g \in {h \in gs : h.form \in {"Order", "Wait"}}}

\* The nodes guarantees put under a token.
Under(gs, form, modes, tok) ==
    UNION {Elems(g.a) : g \in {h \in gs : /\ h.form = form
                                          /\ h.token = tok
                                          /\ h.mode \in modes}}

Exclusive(gs, tok) == Under(gs, "Exclude", {"exclusive"}, tok)
Shared(gs, tok)    == Under(gs, "Exclude", {"shared"}, tok)

CfReach(from, to) == from = to \/ <<from, to>> \in static.cf

StaticSyncOrder(from, to) == <<from, to>> \in static.sync

\* The targets of the guarantee edges that control flow reaches from x.
Targets(gs, x) == {e[2] : e \in {d \in GuarEdges(gs) : CfReach(x, d[1])}}

\* Mutant: the pass over the edges of a popped node pushes nothing.
PushFirst(w, targets) ==
    IF w.visited = {}
    THEN [visited |-> targets, work |-> SetToSeq(targets)]
    ELSE w

\* One pass over guarEdges: the targets that were not visited go on top.
Push(w, targets) ==
    [visited |-> w.visited \cup targets,
     work    |-> w.work \o SetToSeq(targets \ w.visited)]

\* The loop of ordReach: visited and the stack work after k pops.  start are
\* the targets of the first node, hops those of any other.
WorkList(start, hops) ==
    LET loop[k \in Nat] ==
            IF k = 0
            THEN Push([visited |-> {}, work |-> <<>>], start)
            ELSE LET w == loop[k - 1]
                 IN  IF w.work = <<>> THEN w
                     ELSE Push([w EXCEPT !.work = Front(@)], hops[Last(w.work)])
    IN  loop

\* Whether the loop returns true, at the first pop of a node from which control
\* flow reaches `to`.  A node is pushed once, so the pops are bounded.
GuarReach(gs, from, to) ==
    LET loop == WorkList(Targets(gs, from), [x \in Node |-> Targets(gs, x)])
    IN  \E k \in 0 .. Cardinality(GuarEdges(gs)) :
            loop[k].work # <<>> /\ CfReach(Last(loop[k].work), to)

\* Mutant: the static order is only asked when there is no guarantee.
OrdReachEither(gs, from, to) ==
    \/ from = to
    \/ GuarEdges(gs) = {} /\ StaticSyncOrder(from, to)
    \/ GuarReach(gs, from, to)

OrdReach(gs, from, to) ==
    \/ from = to
    \/ StaticSyncOrder(from, to)
    \/ GuarReach(gs, from, to)

\* Both under one token, at least one of them exclusively.
CommonExclusion(gs, a, b) ==
    \E tok \in Token :
        \/ a \in Exclusive(gs, tok) /\ b \in Exclusive(gs, tok) \cup Shared(gs, tok)
        \/ a \in Shared(gs, tok) /\ b \in Exclusive(gs, tok)

AtomicCompatible(gs, a, b) ==
    \E tok \in Token :
        {a, b} \subseteq Under(gs, "AtomicOp", {"shared", "exclusive"}, tok)

-----------------------------------------------------------------------------
(* Surface facts: O is 0 where the code's pointer is null.                 *)

AccessesAt(O, n) ==
    IF O = 0 THEN <<>> ELSE SelectSeq(Accesses[O], LAMBDA acc : acc.node = n)

\* The first access at the node tells the type.
AccTypeOfNode(O, n) ==
    IF AccessesAt(O, n) = <<>> THEN "" ELSE Head(AccessesAt(O, n)).type

\* The last one tells the lock.
SameLockCovers(O, a, b) ==
    /\ AccessesAt(O, a) # <<>> /\ AccessesAt(O, b) # <<>>
    /\ Last(AccessesAt(O, a)).lock = Last(AccessesAt(O, b)).lock
    /\ Last(AccessesAt(O, a)).lock # NoLock

\* Writes and frees of the object by other threads of the set.
Conflicts(O, ts, tid) ==
    IF O = 0 THEN <<>>
    ELSE LET Hostile(acc) == /\ acc.tid \in ts \ {tid}
                             /\ acc.type \in {"Write", "Free"}
             hits == SelectSeq(Accesses[O], Hostile)
         IN  [k \in DOMAIN hits |-> hits[k].node]

-----------------------------------------------------------------------------
(* checkRequirements                                                       *)

Mediated(gs, O, a, b) ==
    \/ OrdReach(gs, a, b) \/ OrdReach(gs, b, a)
    \/ CommonExclusion(gs, a, b) \/ AtomicCompatible(gs, a, b)
    \/ SameLockCovers(O, a, b)

\* Kept out of the atomic region: ordered before or after it, or coordinated
\* with one of its nodes.
KeptOutside(gs, O, region, c) ==
    \/ OrdReach(gs, c, region[1]) \/ OrdReach(gs, Last(region), c)
    \/ \E s \in Elems(region) : \/ CommonExclusion(gs, s, c)
                                \/ AtomicCompatible(gs, s, c)
                                \/ SameLockCovers(O, s, c)

\* The pairs a requirement is about, in the order they are looked at.
Pairs(r, O, ts, tid) ==
    LET la == IF r.form = "MustBeAtomic" THEN (IF r.a = <<>> THEN <<>> ELSE <<r.a[1]>>)
              ELSE r.a
        lb == IF r.form = "MustBeAtomic" THEN Conflicts(O, ts, tid) ELSE r.b
    IN  [k \in 1 .. Len(la) * Len(lb) |->
           <<la[((k - 1) \div Len(lb)) + 1], lb[((k - 1) % Len(lb)) + 1]>>]

PairDischarged(r, gs, O, p) ==
    CASE r.form = "MustPrecede"    -> OrdReach(gs, p[1], p[2])
      [] r.form = "MustBeMediated" -> Mediated(gs, O, p[1], p[2])
      [] r.form = "MustBeAtomic"   -> KeptOutside(gs, O, r.a, p[2])

\* The candidate (L2Candidate) for a pair.
Candidate(r, O, tid, p) ==
    [form |-> r.form, obj |-> r.obj, tid |-> tid, a |-> p[1], b |-> p[2],
     lifetime |-> \/ AccTypeOfNode(O, p[2]) = "Free"
                  \/ r.form = "MustBeMediated" /\ AccTypeOfNode(O, p[1]) = "Free"]

\* Positions of the pairs of a requirement that the evidence does not discharge.
OpenPairs(r, gs, O, ts, tid) ==
    LET pairs == Pairs(r, O, ts, tid)
    IN  {k \in DOMAIN pairs : ~PairDischarged(r, gs, O, pairs[k])}

\* At most one candidate per requirement: the first pair not discharged.
CandidateOf(r, gs, O, ts, tid) ==
    Candidate(r, O, tid, Pairs(r, O, ts, tid)[Min(OpenPairs(r, gs, O, ts, tid))])

\* The object of a requirement, if it is among those of the session.
ObjectIn(s, r) == IF r.obj \in s.objs THEN r.obj ELSE 0

\* The requirements of a session: <<thread, position in its contract>>.
Places(s) ==
    UNION {{t} \X DOMAIN contracts[t].reqs : t \in s.threads \cap DOMAIN contracts}

ReqAt(p) == contracts[p[1]].reqs[p[2]]

\* Whether requirement r of thread t is reported by session s on evidence gs.
Open(s, t, r, gs) == OpenPairs(r, gs, ObjectIn(s, r), s.threads, t) # {}

\* The candidates of a session.  The vector has them in the order of their
\* places: by thread, then by position.
CheckRequirements(s) ==
    LET gs == Guars(contracts, s.threads)
    IN  [p \in {q \in Places(s) : Open(s, q[1], ReqAt(q), gs)} |->
           CandidateOf(ReqAt(p), gs, ObjectIn(s, ReqAt(p)), s.threads, p[1])]

-----------------------------------------------------------------------------
(* dedupHypotheses                                                         *)

Levels == {"Exact", "Anchor", "ObjectClass"}

\* hazardClass of the category toHypothesis gives.
HazardClass(h) ==
    CASE h.lifetime                               -> "lifetime"
      [] ~h.lifetime /\ h.form = "MustPrecede"    -> "other"
      [] OTHER                                    -> "atomicity"

Severity(h) == IF h.lifetime THEN 2 ELSE 1

\* nodeToObj and nodeToKind: the first object with an access at the node.
ObjectsOf(n) == {o \in Object : AccessesAt(o, n) # <<>>}
NodeToObj(n) == CHOOSE o \in ObjectsOf(n) : \A p \in ObjectsOf(n) : o <= p
NodeToKind(n) == IF ObjectsOf(n) = {} THEN "" ELSE AccTypeOfNode(NodeToObj(n), n)

Rank(n) == CASE NodeToKind(n) = "Free"  -> 2
             [] NodeToKind(n) = "Write" -> 1
             [] OTHER                   -> -1

\* The mutating node, a before b; 0 when there is none.
Anchor(h) == IF Rank(h.a) < 0 /\ Rank(h.b) < 0 THEN 0
             ELSE IF Rank(h.b) > Rank(h.a) THEN h.b ELSE h.a

PrimaryObj(h) ==
    IF Anchor(h) # 0 THEN NodeToObj(Anchor(h))
    ELSE LET objs == {NodeToObj(n) : n \in {m \in {h.a, h.b} : ObjectsOf(m) # {}}}
         IN  CHOOSE o \in objs : \A p \in objs : o <= p

AnyObj(h) == \E n \in {h.a, h.b} : ObjectsOf(n) # {}

\* Mutant: the hazard class is left out of the object key.
CanonicalKeyNoClass(h, level) ==
    CASE level = "ObjectClass" /\ AnyObj(h) -> <<"", "obj", PrimaryObj(h), 0>>
      [] OTHER -> <<HazardClass(h), "nset",
                    IF h.a <= h.b THEN h.a ELSE h.b, IF h.a <= h.b THEN h.b ELSE h.a>>

CanonicalKey(h, level) ==
    CASE level = "ObjectClass" /\ AnyObj(h) -> <<HazardClass(h), "obj", PrimaryObj(h), 0>>
      [] level = "Anchor" /\ AnyObj(h) /\ Anchor(h) # 0 ->
             <<HazardClass(h), "obj", PrimaryObj(h), Anchor(h)>>
      [] OTHER -> <<HazardClass(h), "nset",
                    IF h.a <= h.b THEN h.a ELSE h.b, IF h.a <= h.b THEN h.b ELSE h.a>>

\* The order of composedL2.
Before(x, y) == \/ x.session < y.session
                \/ /\ x.session = y.session
                   /\ \/ x.place[1] < y.place[1]
                      \/ x.place[1] = y.place[1] /\ x.place[2] < y.place[2]

SameGroup(x, y, level) == CanonicalKey(x.cand, level) = CanonicalKey(y.cand, level)

\* What a merge keeps of hs: in each group the first of the most severe (every
\* hypothesis here has two nodes).
Representatives(hs, level) ==
    {x \in hs :
        \A y \in hs \ {x} :
            SameGroup(x, y, level) =>
                \/ Severity(y.cand) < Severity(x.cand)
                \/ Severity(y.cand) = Severity(x.cand) /\ Before(x, y)}

-----------------------------------------------------------------------------
(* The session loop                                                        *)

Init ==
    /\ contracts \in Contracts /\ static \in Statics /\ skipC \in BOOLEAN
    /\ session = 1 /\ phase = "check"
    /\ cands = <<>> /\ keep = <<>>
    /\ composed = {} /\ report = {}
    /\ judged = [keep |-> {}, reject |-> {}]

\* The hypotheses made of the kept candidates, with the places they have.
Hypotheses(cs, ks) ==
    {[cand |-> cs[p], session |-> session, place |-> p] : p \in {q \in DOMAIN cs : ks[q]}}

\* The kept candidates become hypotheses; on to the next session.
Compose(cs, ks) ==
    /\ composed' = composed \cup Hypotheses(cs, ks)
    /\ session' = session + 1

AllKept(cs) == [p \in DOMAIN cs |-> TRUE]

\* Phase B on one session; without candidates or Phase C the loop goes on.
Check ==
    /\ phase = "check" /\ session <= Len(Sessions)
    /\ LET cs == CheckRequirements(Sessions[session])
       IN  /\ cands' = cs
           /\ keep' = AllKept(cs)
           /\ IF DOMAIN cs = {} \/ skipC
              THEN Compose(cs, AllKept(cs)) /\ UNCHANGED phase
              ELSE phase' = "review" /\ UNCHANGED <<composed, session>>
    /\ UNCHANGED <<contracts, static, skipC, report, judged>>

\* Mutant: a rejection is final.
JudgeOnce ==
    /\ phase = "review"
    /\ \E id \in DOMAIN cands, verdict \in {"keep", "reject"} :
          /\ keep' = [keep EXCEPT ![id] = keep[id] /\ (verdict # "reject")]
          /\ judged' = [v \in {"keep", "reject"} |->
                          IF v = verdict THEN judged[v] \cup {<<session, id>>}
                          ELSE judged[v] \ {<<session, id>>}]
    /\ UNCHANGED <<contracts, static, skipC, session, phase, cands, composed, report>>

\* The judge tool of the Calibrator: anything but "reject" keeps.
Judge ==
    /\ phase = "review"
    /\ \E id \in DOMAIN cands, verdict \in {"keep", "reject"} :
          /\ keep' = [keep EXCEPT ![id] = (verdict # "reject")]
          /\ judged' = [v \in {"keep", "reject"} |->
                          IF v = verdict THEN judged[v] \cup {<<session, id>>}
                          ELSE judged[v] \ {<<session, id>>}]
    /\ UNCHANGED <<contracts, static, skipC, session, phase, cands, composed, report>>

\* send_message returns, whether or not every candidate was judged.
EndReview ==
    /\ phase = "review"
    /\ Compose(cands, keep)
    /\ phase' = "check"
    /\ UNCHANGED <<contracts, static, skipC, cands, keep, report, judged>>

\* chat() or a tool throws: nothing between here and main() catches it.
ReviewThrows ==
    /\ phase = "review"
    /\ phase' = "dead"
    /\ UNCHANGED <<contracts, static, skipC, session, cands, keep, composed,
                   report, judged>>

\* After the last session: merge (at the level of LACE_DEDUP_LEVEL, unless
\* LACE_NO_DEDUP) and store the result.
Finish ==
    /\ phase = "check" /\ session > Len(Sessions)
    /\ phase' = "finished"
    /\ \/ report' = composed
       \/ \E level \in Levels : report' = Representatives(composed, level)
    /\ UNCHANGED <<contracts, static, skipC, session, cands, keep, composed, judged>>

Next == Check \/ Judge \/ EndReview \/ ReviewThrows \/ Finish

Spec == Init /\ [][Next]_vars

-----------------------------------------------------------------------------
(* Properties.                                                             *)

Hypothesis == [form : {"MustPrecede", "MustBeMediated", "MustBeAtomic"},
               obj : Object \cup {0}, tid : Thread, a : Node, b : Node,
               lifetime : BOOLEAN]

\* Type invariant of the checker.
TypeOK ==
    /\ contracts \in Contracts /\ static \in Statics /\ skipC \in BOOLEAN
    /\ session \in 1 .. Len(Sessions) + 1
    /\ phase \in {"check", "review", "finished", "dead"}
    /\ \A p \in DOMAIN cands : p \in Thread \X Nat /\ cands[p] \in Hypothesis
    /\ keep \in [DOMAIN cands -> BOOLEAN]
    /\ composed \subseteq [cand : Hypothesis, session : 1 .. session, place : Thread \X Nat]
    /\ report \subseteq composed

\* Reference for ordReach: a chain of guarantee edges that control flow links
\* from one node to the other.
OrderWitness(gs, from, to) ==
    LET edges == GuarEdges(gs)
    IN  \E ch \in BoundedSeq(edges, Cardinality(edges)) :
           /\ ch # <<>>
           /\ CfReach(from, Head(ch)[1]) /\ CfReach(Last(ch)[2], to)
           /\ \A k \in 1 .. Len(ch) - 1 : CfReach(ch[k][2], ch[k+1][1])

AllGuars == Guars(contracts, DOMAIN contracts)

\* The contracts and the graph do not change: what is said about them is
\* checked before the first session.
AtStart == phase = "check" /\ session = 1

\* ordReach finds an order between two nodes if and only if there is a
\* synchronized static one or a chain of recovered guarantees.
OrdReachExact ==
    AtStart =>
        \A a, b \in Node :
            a # b => (OrdReach(AllGuars, a, b) =
                         (StaticSyncOrder(a, b) \/ OrderWitness(AllGuars, a, b)))

\* Evidence only ever discharges: a requirement reported with every guarantee
\* of the thread-set is reported without any one of them, too.
EvidenceMonotone ==
    AtStart =>
        \A s \in Elems(Sessions) : \A t \in s.threads \cap DOMAIN contracts :
            LET gs == Guars(contracts, s.threads)
            IN  \A r \in Elems(contracts[t].reqs), g \in gs :
                    Open(s, t, r, gs) => Open(s, t, r, gs \ {g})

\* "the output is always a subset of the input", "an un-judged candidate stays
\* kept": when the loop is past a session, its candidates are composed exactly
\* if their last verdict in that session was no rejection.
CalibrationExact ==
    \A n \in 1 .. session - 1 :
        {h.place : h \in {x \in composed : x.session = n}}
            = {p \in DOMAIN CheckRequirements(Sessions[n]) :
                  <<n, p>> \notin judged["reject"]}

\* The objects of a hypothesis.
ObjectsAt(h) == UNION {ObjectsOf(n) : n \in {h.a, h.b}}

\* "the represented bug is kept, so recall is unchanged": whatever the level, a
\* composed hypothesis is reported or represented by one of its hazard class,
\* at least as severe, that shares a node or the object of one with it.
RecallSafe ==
    phase = "finished" =>
        \A x \in composed : \E y \in report :
            LET h == x.cand
                g == y.cand
            IN  /\ HazardClass(g) = HazardClass(h)
                /\ Severity(g) >= Severity(h)
                /\ \/ {g.a, g.b} \cap {h.a, h.b} # {}
                   \/ ObjectsAt(g) \cap ObjectsAt(h) # {}

\* "it never returns true without a sync edge or a guarantee hop": past a
\* session, a race requirement it did not report has evidence for each pair.
DischargeHasEvidence ==
    \A n \in 1 .. session - 1 :
        LET s  == Sessions[n]
            gs == Guars(contracts, s.threads)
        IN  \A t \in s.threads \cap DOMAIN contracts : \A r \in Elems(contracts[t].reqs) :
                (r.form = "MustBeMediated" /\ ~Open(s, t, r, gs)) =>
                    \A a \in Elems(r.a), b \in Elems(r.b) :
                        \/ StaticSyncOrder(a, b) \/ StaticSyncOrder(b, a)
                        \/ OrderWitness(gs, a, b) \/ OrderWitness(gs, b, a)
                        \/ CommonExclusion(gs, a, b) \/ AtomicCompatible(gs, a, b)
                        \/ SameLockCovers(ObjectIn(s, r), a, b)
=============================================================================
