----------------------------- MODULE MCL2Checker -----------------------------
(* An instance of L2Checker: two threads, four nodes and two objects in two *)
(* chunks of one thread-set; every subset of a pool of guarantees.          *)
EXTENDS L2Checker

MCThread == 1 .. 2
MCObject == 1 .. 2
MCNode == 1 .. 4
MCToken == {"L"}

Acc(n, t, ty, l) == [node |-> n, tid |-> t, type |-> ty, lock |-> l]

MCAccesses ==
    <<<<Acc(1, 1, "Write", "L"), Acc(2, 2, "Write", "L"), Acc(3, 2, "Free", NoLock)>>,
      <<Acc(4, 1, "Read", NoLock), Acc(2, 2, "Read", NoLock)>>>>

MCSessions == <<[threads |-> {1, 2}, objs |-> {1}],
                [threads |-> {1, 2}, objs |-> {2}]>>

Req(f, o, a, b) == [form |-> f, obj |-> o, a |-> a, b |-> b]

\* A race, the order of a use and a free, and a region around two accesses
\* with a race of one node between two instances of its thread.
ReqLists ==
    {<<Req("MustBeMediated", 1, <<1>>, <<2, 3>>)>>,
     <<Req("MustPrecede", 1, <<4, 1>>, <<3>>), Req("MustBeMediated", 2, <<4>>, <<2>>)>>,
     <<Req("MustBeAtomic", 1, <<1, 4>>, <<>>), Req("MustBeMediated", 2, <<4>>, <<4>>)>>}

Guar(f, a, b, m) == [form |-> f, a |-> a, b |-> b, token |-> "L", mode |-> m]

Pool1 == {Guar("Order", <<1>>, <<2>>, "exclusive"),
          Guar("Exclude", <<1, 4>>, <<>>, "exclusive")}

Pool2 == {Guar("Wait", <<3>>, <<4>>, "exclusive"),
          Guar("Exclude", <<2>>, <<>>, "shared"),
          Guar("AtomicOp", <<1, 2>>, <<>>, "exclusive")}

\* Both threads returned a contract, or only the first one.
MCContracts ==
    {<<[reqs |-> r, guars |-> g], [reqs |-> <<Req("MustBeMediated", 1, <<2>>, <<1>>)>>, guars |-> h]>>
        : r \in ReqLists, g \in SUBSET Pool1, h \in SUBSET Pool2}
    \cup {<<[reqs |-> r, guars |-> g]>> : r \in ReqLists, g \in SUBSET Pool1}

\* No static order, program order only, and a lock hand-over from 1 to 2, with
\* node 4 before the one or on another branch.
MCStatics ==
    {[cf |-> {}, sync |-> {}],
     [cf |-> {<<2, 3>>, <<1, 2>>, <<1, 3>>}, sync |-> {<<1, 2>>, <<1, 3>>}],
     [cf |-> {<<4, 1>>, <<2, 3>>}, sync |-> {}],
     [cf |-> {<<4, 1>>, <<2, 3>>, <<1, 2>>, <<4, 2>>, <<1, 3>>, <<4, 3>>},
      sync |-> {<<1, 2>>, <<4, 2>>, <<1, 3>>, <<4, 3>>}]}
=============================================================================
