--------------------------- MODULE MCStaticPhase ---------------------------
(* Three families of programs: one function with up to three lock          *)
(* operations on five shapes of control flow, with a line of its own for    *)
(* each node or two nodes on one line; two threads with lock operations,   *)
(* forked or entries of a kernel module, with and without a helper they    *)
(* share, under alias answers that are precise, all-may, not transitive or *)
(* not reflexive; and forests of up to four threads with every choice of   *)
(* fork targets.                                                           *)
EXTENDS StaticPhase

CONSTANTS x, y, z, m, f, g, h, s1, s2, s3, j1, j2

MCNode == 1..6
MCOps == 3

Diamond == [entry |-> {1}, body |-> 1..5, started |-> {}, succ |-> <<{2, 3}, {4}, {4}, {5}, {}, {}>>]
EarlyReturn == [entry |-> {1}, body |-> 1..5, started |-> {}, succ |-> <<{2}, {3, 4}, {}, {5}, {}, {}>>]
Loop == [entry |-> {1}, body |-> 1..5, started |-> {}, succ |-> <<{2}, {3, 5}, {4}, {2}, {}, {}>>]
SelfLoop == [entry |-> {1}, body |-> 1..5, started |-> {}, succ |-> <<{2}, {3}, {3, 4}, {5}, {}, {}>>]
\* 5 is the only lock operation of the function of 4, called by 2 or 3
Wrapper == [entry |-> {1, 4}, body |-> 1..5, started |-> {}, succ |-> <<{2}, {3}, {}, {5}, {}, {}>>]
TwoLines == [entry |-> {1, 4}, body |-> 1..3, started |-> 4..6, succ |-> <<{2}, {3}, {}, {5}, {6}, {}>>]
\* the first thread calls the function of the second
Shared == [TwoLines EXCEPT !.body = 1..6]

\* what a node does: an operation on an operand
Deed == {<<"other", x>>} \cup ({"acquire", "release"} \X {x, y})

\* x is the operand used first
Deeds(nodes, ops) ==
  {[n \in MCNode |-> IF n \in nodes THEN d[n] ELSE <<"other", x>>] : d \in
     {e \in [nodes -> Deed] :
        LET used == {n \in nodes : e[n][1] # "other"} IN
        /\ Cardinality(used) \in 1..ops
        /\ Cardinality({n \in used : e[n][1] = "acquire"}) <= 2
        /\ e[Min(used)][2] = x}}

NoVia == [n \in MCNode |-> None]
Precise == {<<x, x>>, <<y, y>>}
May == {x, y} \X {x, y}
Chain == ({x, y} \X {x, y}) \cup ({y, z} \X {y, z})
\* the operation on y has no call instruction
NotReflexive == {<<x, x>>}

Graph(graph, d, via, alias) ==
  [entry |-> graph.entry, succ |-> graph.succ, via |-> via, alias |-> alias,
   type |-> [n \in MCNode |-> d[n][1]], operand |-> [n \in MCNode |-> d[n][2]],
   body |-> (m :> graph.body) @@ (f :> {}) @@ (g :> graph.started) @@ (h :> {}),
   loc |-> [n \in MCNode |-> n],
   firstOf |-> (m :> 2) @@ (f :> 4) @@ (g :> 5) @@ (h :> 4),
   calls |-> {<<n, 4>> : n \in {k \in MCNode : via[k] # None}}, forks |-> {},
   joinNode |-> (j1 :> 2) @@ (j2 :> 2), ret |-> {6},
   waits |-> {}, rcu |-> {}, regs |-> {}]

OneEntry ==
  [entries |-> {m}, forks |-> [e \in {m, f, g, h} |-> {}],
   target |-> [s \in {s1, s2, s3} |-> NoSite], loc |-> [s \in {s1, s2, s3} |-> s],
   alias |-> {}, score |-> [p \in {s1, s2, s3} \X {j1, j2} |-> 0],
   reach |-> [e \in {m, f, g, h} |-> {}],
   manual |-> FALSE, matched |-> {}, apart |-> {}, reentrant |-> {}]

Kernel == [OneEntry EXCEPT !.entries = {m, g}]
Forked == [OneEntry EXCEPT !.forks[m] = {s1}, !.target[s1] = g,
                           !.alias = {<<s1, j1>>}]
Manual == [Kernel EXCEPT !.manual = TRUE, !.matched = {m, g}, !.apart = {{m, g}}]

\* node n on the line of k
OnLine(prg, n, k) == [prg EXCEPT !.loc[n] = k]

LockSystems ==
  {[tree |-> OneEntry, prog |-> Graph(c, d, NoVia, a)] :
     c \in {Diamond, EarlyReturn, Loop, SelfLoop},
     d \in Deeds(2..5, MCOps), a \in {Precise}}
  \cup {[tree |-> OneEntry, prog |-> OnLine(Graph(Diamond, d, NoVia, a), 4, 3)] :
          d \in Deeds(2..5, MCOps), a \in {May, NotReflexive}}
  \cup {[tree |-> OneEntry, prog |-> Graph(Wrapper, d, [NoVia EXCEPT ![2] = 5], Precise)] :
          d \in {e \in Deeds({2, 3, 5}, MCOps) :
                  /\ e[5][1] # "other"
                  /\ e[5][1] = "acquire" => \A n \in 1..4 : e[n][1] # "acquire"}}
  \cup {[tree |-> OneEntry,
          prog |-> Graph(Wrapper, d, [NoVia EXCEPT ![2] = 5, ![3] = 5], Precise)] :
          d \in {e \in Deeds({2, 3, 5}, MCOps) : e[5][1] = "release"}}

\* each of three operands is locked once, the first one is also unlocked
ThreeLocks ==
  {(1 :> <<"other", x>>) @@ (2 :> <<"acquire", o[1]>>) @@ (3 :> <<"release", o[1]>>)
    @@ (4 :> <<"other", x>>) @@ (5 :> <<"acquire", o[2]>>) @@ (6 :> <<"acquire", o[3]>>) :
      o \in {q \in {x, y, z} \X {x, y, z} \X {x, y, z} : Cardinality({q[1], q[2], q[3]}) = 3}}

\* two locks and an unlock
Contended ==
  {d \in Deeds({2, 3, 5, 6}, 3) : /\ Cardinality({n \in MCNode : d[n][1] = "acquire"}) = 2
                                 /\ \E n \in MCNode : d[n][1] = "release"}

ThreadSystems ==
  {[tree |-> t, prog |-> Graph(TwoLines, d, NoVia, Precise)] :
     t \in {Kernel, [Kernel EXCEPT !.apart = {{m, g}}], Forked},
     d \in Deeds({2, 3, 5, 6}, 4)}
  \cup {[tree |-> t, prog |-> Graph(TwoLines, d, NoVia, Precise)] :
          t \in {Manual, [Manual EXCEPT !.matched = {m}]}, d \in Deeds({2, 5}, 2)}
  \cup {[tree |-> Kernel, prog |-> Graph(c, d, NoVia, a)] :
          c \in {TwoLines, Shared}, d \in Contended, a \in {May, NotReflexive}}
  \cup {[tree |-> Kernel, prog |-> Graph(c, d, NoVia, Chain)] :
          c \in {TwoLines, Shared}, d \in ThreeLocks}

Idle == Graph(TwoLines, [n \in MCNode |-> <<"other", x>>], NoVia, Precise)

Forest(targets, alias, before, same) ==
  [OneEntry EXCEPT !.forks = (m :> {s1, s2}) @@ (f :> {s3}) @@ (g :> {s2}) @@ (h :> {}),
                   !.target = targets, !.alias = alias, !.reach[m] = before,
                   !.score[<<s1, j1>>] = 3, !.score[<<s2, j1>>] = 2,
                   !.loc[s2] = IF same THEN s1 ELSE s2]

ForestSystems ==
  {[tree |-> [t EXCEPT !.entries = e],
    prog |-> [Idle EXCEPT !.entry = {1},
                          !.body = (m :> 1..3) @@ (f :> 4..6) @@ (g :> 4..6) @@ (h :> {}),
                          !.waits = {<<5, 2>>}, !.rcu = {<<5, 2>>, <<6, 2>>},
                          !.regs = {<<2, g>>}]] :
     t \in {Forest(tg, al, be, same) :
              tg \in {e \in [{s1, s2, s3} -> {m, f, g, h, NoSite}] :
                       e[s1] \in {f, g} /\ e[s2] # m /\ e[s3] # NoSite},
              al \in {{<<s1, j1>>, <<s2, j2>>}, {s1, s2} \X {j1, j2}},
              be \in {{}, {<<j1, s2>>}, {<<j2, s1>>}},
              same \in BOOLEAN},
     e \in {{m}, {m, f}}}

MCSystems == LockSystems \cup ThreadSystems \cup ForestSystems

MCPrograms == {s.prog : s \in MCSystems}
MCTrees == {s.tree : s \in MCSystems}
=============================================================================
