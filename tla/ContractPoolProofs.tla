------------------------- MODULE ContractPoolProofs -------------------------
(***************************************************************************)
(* Proofs about the Phase A worker pool, for every number of threads,      *)
(* workers and skipped positions.                                          *)
(*                                                                         *)
(* The safety properties are not inductive one by one: that Phase B finds  *)
(* every thread settled needs to know that a claimed position is settled   *)
(* or still held by its claimer (Accounted), that workers only leave once  *)
(* the counter is past the end (ExitAtEnd), and that the futures obtained  *)
(* so far belong to workers that left (GotExited).                         *)
(***************************************************************************)
EXTENDS ContractPool, TLAPS

-----------------------------------------------------------------------------
(* The inductive invariant.                                                *)

\* A worker exists exactly if its future was made, and the main thread leaves
\* the launch loop only when all are.
LaunchedExist ==
    /\ \A w \in Workers : (pc[w] = "none") = (w > launched)
    /\ main \in {"get", "phaseB"} => launched = NumWorkers

\* Positions from the counter on are untouched.
UnclaimedOpen == \A t \in Items : t >= nextTid => settled[t] = "open"

\* A claimed position is settled or held.
Accounted ==
    \A t \in Items : (t < nextTid /\ settled[t] = "open") =>
        \E w \in Workers : Holding(w) /\ idx[w] = t

\* What a worker holds was claimed.
HeldClaimed == \A w \in Workers : Holding(w) => idx[w] < nextTid

\* The map holds exactly the contracts.
MapExact == contracts = {t \in Items : settled[t] = "contract"}

\* The futures obtained belong to workers that left.
GotExited ==
    /\ \A w \in Workers : w <= got => pc[w] = "exit"
    /\ main = "phaseB" => got = NumWorkers

\* A worker leaves only when the counter is past the end.
ExitAtEnd == \A w \in Workers : pc[w] = "exit" => nextTid >= N

IInv ==
    /\ TypeOK /\ ClaimedOnce /\ StoreExclusive
    /\ LaunchedExist /\ UnclaimedOpen /\ Accounted /\ HeldClaimed
    /\ MapExact /\ GotExited /\ ExitAtEnd

-----------------------------------------------------------------------------

\* There is a worker whenever there is a position to settle.
LEMMA WorkersExist ==
    /\ NumWorkers \in Nat
    /\ N > 0 => NumWorkers > 0
    /\ NoOne \notin Workers
BY PoolAssumption DEF NumWorkers, Workers, NoOne

\* The pool starts in a state that satisfies the invariant.
LEMMA InitIInv == Init => IInv
<1> SUFFICES ASSUME Init PROVE IInv
  OBVIOUS
<1> USE PoolAssumption, WorkersExist DEF Init
<1>1. TypeOK
  BY DEF TypeOK, Items, Workers
<1>2. ClaimedOnce /\ StoreExclusive /\ HeldClaimed
  BY DEF ClaimedOnce, StoreExclusive, HeldClaimed, Holding, Workers
<1>3. LaunchedExist
  BY DEF LaunchedExist, Workers
<1>4. UnclaimedOpen /\ Accounted /\ MapExact
  BY DEF UnclaimedOpen, Accounted, MapExact, Items
<1>5. GotExited /\ ExitAtEnd
  BY DEF GotExited, ExitAtEnd, Workers
<1> QED
  BY <1>1, <1>2, <1>3, <1>4, <1>5 DEF IInv

\* Type correctness is preserved by every step that starts in the invariant:
\* a position is only settled by a worker that holds it.
LEMMA NextTypeOK == IInv /\ [Next]_vars => TypeOK'
<1> SUFFICES ASSUME IInv, [Next]_vars PROVE TypeOK'
  OBVIOUS
<1> USE PoolAssumption, WorkersExist
<1>1. CASE Launch
  BY <1>1 DEF Launch, IInv, TypeOK, Workers
<1>2. CASE Launched \/ LaunchFails \/ Get \/ Join \/ Unwound
  BY <1>2 DEF Launched, LaunchFails, Get, Join, Unwound, Raise, IInv, TypeOK
<1>3. ASSUME NEW w \in Workers, Claim(w) PROVE TypeOK'
  BY <1>3 DEF Claim, Goto, IInv, TypeOK
<1>4. ASSUME NEW w \in Workers, Skip(w) \/ Generate(w) PROVE TypeOK'
  <2>1. idx[w] \in Items
    BY <1>4 DEF Skip, Generate, IInv, ClaimedOnce, Holding
  <2> QED
    BY <1>4, <2>1 DEF Skip, Generate, Goto, Settle, IInv, TypeOK
<1>5. ASSUME NEW w \in Workers, Lock(w) PROVE TypeOK'
  BY <1>5 DEF Lock, Goto, IInv, TypeOK
<1>6. ASSUME NEW w \in Workers, Store(w) PROVE TypeOK'
  <2>1. idx[w] \in Items
    BY <1>6 DEF Store, IInv, ClaimedOnce, Holding
  <2> QED
    BY <1>6, <2>1 DEF Store, Goto, Settle, IInv, TypeOK
<1>7. CASE UNCHANGED vars
  BY <1>7 DEF vars, IInv, TypeOK
<1> QED
  BY <1>1, <1>2, <1>3, <1>4, <1>5, <1>6, <1>7 DEF Next, Main, Worker

\* The steps of the main thread preserve the rest of the invariant.
LEMMA MainIInv == IInv /\ TypeOK' /\ Main => IInv'
<1> SUFFICES ASSUME IInv, TypeOK', Main PROVE IInv'
  OBVIOUS
<1> USE PoolAssumption, WorkersExist
<1>1. CASE Launch
  <2> USE <1>1 DEF Launch, IInv, TypeOK
  <2>1. /\ launched + 1 \in Workers /\ pc[launched + 1] = "none"
        /\ \A w \in Workers : pc'[w] = IF w = launched + 1 THEN "claim" ELSE pc[w]
    BY DEF LaunchedExist, Workers
  <2>2. \A w \in Workers : (Holding(w))' = Holding(w)
    BY <2>1 DEF Holding
  <2>3. ClaimedOnce' /\ HeldClaimed'
    BY <2>2 DEF ClaimedOnce, HeldClaimed
  <2>4. StoreExclusive'
    BY <2>1 DEF StoreExclusive
  <2>5. LaunchedExist'
    BY <2>1 DEF LaunchedExist, Workers
  <2>6. Accounted'
    BY <2>2 DEF Accounted
  <2>7. UnclaimedOpen' /\ MapExact'
    BY DEF UnclaimedOpen, MapExact
  <2>8. GotExited' /\ ExitAtEnd'
    BY <2>1 DEF GotExited, ExitAtEnd
  <2> QED
    BY <2>3, <2>4, <2>5, <2>6, <2>7, <2>8
<1>2. CASE Launched \/ LaunchFails \/ Get \/ Join \/ Unwound
  <2> USE <1>2 DEF Launched, LaunchFails, Get, Join, Unwound, Raise
  <2>1. UNCHANGED <<launched, nextTid, pc, idx, mu, contracts, settled>>
    OBVIOUS
  <2>2. ClaimedOnce' /\ HeldClaimed' /\ StoreExclusive' /\ Accounted'
    BY <2>1 DEF IInv, ClaimedOnce, HeldClaimed, StoreExclusive, Accounted, Holding
  <2>3. UnclaimedOpen' /\ MapExact' /\ ExitAtEnd'
    BY <2>1 DEF IInv, UnclaimedOpen, MapExact, ExitAtEnd
  <2>4. LaunchedExist'
    BY <2>1 DEF IInv, LaunchedExist
  <2>5. GotExited'
    BY <2>1 DEF IInv, TypeOK, GotExited, Workers
  <2> QED
    BY <2>2, <2>3, <2>4, <2>5 DEF IInv
<1> QED
  BY <1>1, <1>2 DEF Main

\* What every step of a worker leaves alone: the main thread and the other
\* workers; the worker itself has been launched and has not left.
LEMMA WorkerFrame ==
    ASSUME IInv, NEW w \in Workers, Worker(w)
    PROVE  /\ UNCHANGED <<main, launched, got>>
           /\ pc[w] \in {"claim", "work", "lock", "store"}
           /\ pc'[w] # "none"
           /\ \A v \in Workers \ {w} : /\ pc'[v] = pc[v] /\ idx'[v] = idx[v]
                                       /\ (Holding(v))' = Holding(v)
           /\ LaunchedExist' /\ GotExited'
<1> USE DEF IInv, TypeOK
<1>1. /\ UNCHANGED <<main, launched, got>>
      /\ pc[w] \in {"claim", "work", "lock", "store"}
      /\ pc'[w] # "none"
      /\ \A v \in Workers \ {w} : pc'[v] = pc[v] /\ idx'[v] = idx[v]
  BY DEF Worker, Claim, Skip, Generate, Lock, Store, Goto
<1>2. \A v \in Workers \ {w} : (Holding(v))' = Holding(v)
  BY <1>1 DEF Holding
<1>3. LaunchedExist'
  BY <1>1 DEF LaunchedExist
<1>4. GotExited'
  BY <1>1 DEF GotExited
<1> QED
  BY <1>1, <1>2, <1>3, <1>4

\* Claiming: the position is the counter's old value, so nobody holds it, and
\* beyond the end the worker leaves.
LEMMA ClaimIInv ==
    ASSUME IInv, TypeOK', NEW w \in Workers, Claim(w)
    PROVE  IInv'
<1> USE PoolAssumption
<1>1. Worker(w)
  BY DEF Worker
<1>2. /\ ~Holding(w) /\ pc'[w] = (IF nextTid >= N THEN "exit" ELSE "work")
      /\ idx'[w] = nextTid /\ nextTid' = nextTid + 1 /\ nextTid \in Nat
      /\ UNCHANGED <<mu, contracts, settled>>
  BY DEF Claim, Goto, IInv, TypeOK, Holding
<1>3. (Holding(w))' = (nextTid < N)
  BY <1>2 DEF Holding
<1>4. ClaimedOnce'
  <2>1. nextTid < N => nextTid \in Items /\ settled[nextTid] = "open"
    BY <1>2 DEF IInv, UnclaimedOpen, Items
  <2>2. \A v \in Workers \ {w} : (Holding(v))' => idx'[v] < nextTid
    BY <1>1, WorkerFrame DEF IInv, HeldClaimed
  <2> QED
    BY <1>1, <1>2, <1>3, <2>1, <2>2, WorkerFrame
       DEF IInv, ClaimedOnce, TypeOK, Holding
<1>5. HeldClaimed'
  BY <1>1, <1>2, WorkerFrame DEF IInv, HeldClaimed, TypeOK
<1>6. StoreExclusive'
  BY <1>1, <1>2, WorkerFrame DEF IInv, StoreExclusive
<1>7. UnclaimedOpen' /\ MapExact'
  BY <1>2 DEF IInv, UnclaimedOpen, MapExact, Items
<1>8. Accounted'
  <2> SUFFICES ASSUME NEW t \in Items, t < nextTid + 1, settled[t] = "open"
               PROVE  \E v \in Workers : (Holding(v))' /\ idx'[v] = t
    BY <1>2 DEF Accounted
  <2>1. CASE t = nextTid
    BY <1>2, <1>3, <2>1 DEF Items, Holding
  <2>2. CASE t # nextTid
    <3>1. t < nextTid
      BY <1>2, <2>2 DEF Items
    <3>2. PICK v \in Workers : Holding(v) /\ idx[v] = t
      BY <3>1 DEF IInv, Accounted
    <3> QED
      BY <1>1, <1>2, <3>2, WorkerFrame
  <2> QED
    BY <2>1, <2>2
<1>9. ExitAtEnd'
  BY <1>1, <1>2, WorkerFrame DEF IInv, ExitAtEnd
<1> QED
  BY <1>1, <1>4, <1>5, <1>6, <1>7, <1>8, <1>9, WorkerFrame DEF IInv

\* Working on a position without settling it: a session that succeeds or
\* throws, and taking the mutex.
LEMMA HoldIInv ==
    ASSUME IInv, TypeOK', NEW w \in Workers, Worker(w),
           Holding(w), (Holding(w))', pc'[w] = "store" => mu = NoOne /\ mu' = w,
           pc'[w] # "store" => mu' = mu, pc[w] # "store",
           UNCHANGED <<nextTid, idx, contracts, settled>>
    PROVE  IInv'
<1>1. \A v \in Workers : (Holding(v))' = Holding(v)
  BY WorkerFrame DEF Holding
<1>2. ClaimedOnce' /\ HeldClaimed' /\ Accounted'
  BY <1>1 DEF IInv, ClaimedOnce, HeldClaimed, Accounted
<1>3. StoreExclusive'
  BY WorkerFrame, WorkersExist DEF IInv, StoreExclusive
<1>4. UnclaimedOpen' /\ MapExact'
  BY DEF IInv, UnclaimedOpen, MapExact
<1>5. ExitAtEnd'
  BY WorkerFrame DEF IInv, ExitAtEnd, Holding
<1> QED
  BY <1>2, <1>3, <1>4, <1>5, WorkerFrame DEF IInv

\* Settling the position a worker holds.
LEMMA SettleIInv ==
    ASSUME IInv, TypeOK', NEW w \in Workers, Worker(w),
           NEW how \in {"skipped", "nullopt", "contract"}, Settle(w, how),
           Holding(w), pc'[w] = "claim",
           contracts' = IF how = "contract" THEN contracts \cup {idx[w]} ELSE contracts,
           mu' = IF pc[w] = "store" THEN NoOne ELSE mu,
           UNCHANGED <<nextTid, idx>>
    PROVE  IInv'
<1> USE PoolAssumption
<1>1. /\ idx[w] \in Items /\ settled[idx[w]] = "open" /\ idx[w] < nextTid
      /\ \A v \in Workers \ {w} : Holding(v) => idx[v] # idx[w]
  BY DEF IInv, ClaimedOnce, HeldClaimed
<1>2. \A t \in Items : settled'[t] = IF t = idx[w] THEN how ELSE settled[t]
  BY <1>1 DEF Settle, IInv, TypeOK
<1>3. ~(Holding(w))'
  BY DEF Holding
<1>4. ClaimedOnce'
  BY <1>1, <1>2, <1>3, WorkerFrame DEF IInv, ClaimedOnce
<1>5. HeldClaimed'
  BY <1>3, WorkerFrame DEF IInv, HeldClaimed
<1>6. StoreExclusive'
  BY WorkerFrame, WorkersExist DEF IInv, StoreExclusive
<1>7. UnclaimedOpen'
  BY <1>1, <1>2 DEF IInv, UnclaimedOpen, TypeOK, Items
<1>8. MapExact'
  BY <1>1, <1>2 DEF IInv, MapExact
<1>9. Accounted'
  <2> SUFFICES ASSUME NEW t \in Items, t < nextTid, settled'[t] = "open"
               PROVE  \E v \in Workers : (Holding(v))' /\ idx'[v] = t
    BY DEF Accounted
  <2>1. t # idx[w] /\ settled[t] = "open"
    BY <1>2
  <2>2. PICK v \in Workers : Holding(v) /\ idx[v] = t
    BY <2>1 DEF IInv, Accounted
  <2> QED
    BY <2>1, <2>2, WorkerFrame
<1>10. ExitAtEnd'
  BY WorkerFrame DEF IInv, ExitAtEnd
<1> QED
  BY <1>4, <1>5, <1>6, <1>7, <1>8, <1>9, <1>10, WorkerFrame DEF IInv

\* The steps of a worker preserve the invariant.
LEMMA WorkerIInv ==
    ASSUME IInv, TypeOK', NEW w \in Workers, Worker(w)
    PROVE  IInv'
<1>1. CASE Claim(w)
  BY <1>1, ClaimIInv
<1>2. CASE Skip(w)
  BY <1>2, SettleIInv DEF Skip, Goto, Holding, IInv, TypeOK
<1>3. CASE Generate(w)
  <2>1. CASE Goto(w, "claim") /\ Settle(w, "nullopt")
    BY <1>3, <2>1, SettleIInv DEF Generate, Goto, Holding, IInv, TypeOK
  <2>2. CASE (Goto(w, "lock") \/ Goto(w, "thrown")) /\ UNCHANGED settled
    BY <1>3, <2>2, HoldIInv DEF Generate, Goto, Holding, IInv, TypeOK
  <2> QED
    BY <1>3, <2>1, <2>2 DEF Generate
<1>4. CASE Lock(w)
  BY <1>4, HoldIInv DEF Lock, Goto, Holding, IInv, TypeOK
<1>5. CASE Store(w)
  BY <1>5, SettleIInv DEF Store, Goto, Holding, IInv, TypeOK
<1> QED
  BY <1>1, <1>2, <1>3, <1>4, <1>5 DEF Worker

\* Every step preserves the invariant.
LEMMA NextIInv == IInv /\ [Next]_vars => IInv'
<1> SUFFICES ASSUME IInv, [Next]_vars PROVE IInv'
  OBVIOUS
<1>1. TypeOK'
  BY NextTypeOK
<1>2. CASE Main
  BY <1>1, <1>2, MainIInv
<1>3. ASSUME NEW w \in Workers, Worker(w) PROVE IInv'
  BY <1>1, <1>3, WorkerIInv
<1>4. CASE UNCHANGED vars
  BY <1>4 DEF vars, IInv, TypeOK, ClaimedOnce, StoreExclusive, LaunchedExist,
              UnclaimedOpen, Accounted, HeldClaimed, MapExact, GotExited,
              ExitAtEnd, Holding
<1> QED
  BY <1>2, <1>3, <1>4 DEF Next

\* The invariant holds throughout.
THEOREM PoolInvariant == Spec => []IInv
BY InitIInv, NextIInv, PTL DEF Spec

-----------------------------------------------------------------------------
(* What the invariant gives.                                               *)

\* In Phase B every future was obtained, so every worker left, so the counter
\* is past the end and nobody holds a position: all of them are settled.
LEMMA JoinedComplete ==
    ASSUME IInv, got = NumWorkers
    PROVE  /\ \A w \in Workers : pc[w] = "exit"
           /\ \A t \in Items : settled[t] # "open"
<1> USE PoolAssumption, WorkersExist
<1>1. \A w \in Workers : pc[w] = "exit"
  BY DEF IInv, GotExited, Workers
<1>2. ASSUME NEW t \in Items PROVE settled[t] # "open"
  <2>1. 1 \in Workers
    BY <1>2 DEF Items, Workers
  <2>2. nextTid >= N
    BY <1>1, <2>1 DEF IInv, ExitAtEnd
  <2>3. t < nextTid
    BY <1>2, <2>2 DEF IInv, TypeOK, Items
  <2> QED
    BY <1>1, <1>2, <2>3 DEF IInv, Accounted, Holding
<1> QED
  BY <1>1, <1>2

\* The pool's state keeps its type, for every N, W and Skipped.
THEOREM PoolTypeOK == Spec => []TypeOK
<1>1. IInv => TypeOK
  BY DEF IInv
<1> QED
  BY <1>1, PoolInvariant, PTL

\* No thread is processed by two workers or twice (the atomic counter).
THEOREM PoolClaimedOnce == Spec => []ClaimedOnce
<1>1. IInv => ClaimedOnce
  BY DEF IInv
<1> QED
  BY <1>1, PoolInvariant, PTL

\* contractsByTid is only written while contractsMu is held.
THEOREM PoolStoreExclusive == Spec => []StoreExclusive
<1>1. IInv => StoreExclusive
  BY DEF IInv
<1> QED
  BY <1>1, PoolInvariant, PTL

\* Phase B sees every thread settled and exactly the contracts produced, and
\* no worker runs once the main thread has left the block of its locals.
THEOREM PoolPhaseBComplete == Spec => []PhaseBComplete
<1>1. IInv => PhaseBComplete
  BY JoinedComplete DEF IInv, PhaseBComplete, GotExited, MapExact
<1> QED
  BY <1>1, PoolInvariant, PTL

-----------------------------------------------------------------------------
(* The pool implements ParallelMap.                                        *)

\* A worker that settles its position takes a Settle step of the map.
LEMMA SettleMaps ==
    ASSUME IInv, NEW w \in Workers, Alive, Worker(w), Holding(w),
           NEW how \in {"skipped", "nullopt", "contract"}, Settle(w, how)
    PROVE  Map!Next
<1>1. idx[w] \in Items /\ settled[idx[w]] = "open"
  BY DEF IInv, ClaimedOnce
<1>2. main # "phaseB" /\ main # "dead" /\ main' = main
  BY JoinedComplete, WorkerFrame DEF IInv, GotExited, Holding, Alive
<1>3. Map!Settle(idx[w])
  BY <1>1, <1>2 DEF Map!Settle, Map!Settled, Settle, MapState
<1> QED
  BY <1>1, <1>3 DEF Map!Next

\* Every step of the pool is a step of the map or leaves it alone.
LEMMA StepMaps ==
    ASSUME IInv, [Next]_vars
    PROVE  [Map!Next]_<<settled, MapState>>
<1>1. CASE Launch \/ Launched
  BY <1>1 DEF Launch, Launched, MapState
<1>2. CASE LaunchFails \/ Get
  <2>1. /\ settled' = settled /\ main \in {"launch", "get"}
        /\ main' = main \/ main' \in {"unwind", "dead"}
    BY <1>2 DEF LaunchFails, Get, Raise
  <2> QED
    BY <2>1 DEF Map!Next, Map!Abort, MapState
<1>3. CASE Join
  BY <1>3, JoinedComplete DEF Join, Map!Next, Map!Join, MapState
<1>4. CASE Unwound
  BY <1>4 DEF Unwound, Map!Next, Map!Abort, MapState
<1>5. ASSUME NEW w \in Workers, Worker(w) PROVE [Map!Next]_<<settled, MapState>>
  <2>1. CASE Skip(w)
    BY <1>5, <2>1, SettleMaps DEF Skip, Holding
  <2>2. CASE Generate(w)
    BY <1>5, <2>2, SettleMaps DEF Generate, Holding, MapState
  <2>3. CASE Store(w)
    BY <1>5, <2>3, SettleMaps DEF Store, Holding
  <2>4. CASE Claim(w) \/ Lock(w)
    BY <2>4 DEF Claim, Lock, MapState
  <2> QED
    BY <1>5, <2>1, <2>2, <2>3, <2>4 DEF Worker
<1>6. CASE UNCHANGED vars
  BY <1>6 DEF vars, MapState
<1> QED
  BY <1>1, <1>2, <1>3, <1>4, <1>5, <1>6 DEF Next, Main

\* Phase A is a parallel map: it settles open threads one at a time and joins
\* only when all are settled, or aborts.
THEOREM PoolImplementsMap == Spec => ImplementsMap
<1>1. Init => Map!Init
  BY DEF Init, Map!Init, MapState
<1>2. IInv /\ [Next]_vars => [Map!Next]_<<settled, MapState>>
  BY StepMaps
<1> QED
  BY <1>1, <1>2, PoolInvariant, PTL DEF Spec, ImplementsMap, Map!Spec

-----------------------------------------------------------------------------
(* The workers' loops are finite.                                          *)

\* What a worker may still do: four steps for each position nobody has
\* claimed, and the rest of its own round.
Unclaimed == IF nextTid < N THEN N - nextTid ELSE 0

RoundLeft(w) == CASE pc[w] = "work"  -> 4
                  [] pc[w] = "lock"  -> 3
                  [] pc[w] = "store" -> 2
                  [] pc[w] = "claim" -> 1
                  [] OTHER           -> 0

WorkLeft(w) == 4 * Unclaimed + RoundLeft(w)

\* Every step of a started worker leaves it less to do, and no other step
\* leaves it more.
WorkShrinks ==
    \A w \in Workers : pc[w] # "none" =>
        \/ WorkLeft(w)' < WorkLeft(w)
        \/ pc'[w] = pc[w] /\ WorkLeft(w)' <= WorkLeft(w)

LEMMA WorkTypes ==
    ASSUME TypeOK
    PROVE  /\ Unclaimed \in 0 .. N
           /\ \A w \in Workers : RoundLeft(w) \in 0 .. 4 /\ WorkLeft(w) \in 0 .. 4 * N + 4
<1>1. nextTid \in Nat /\ N \in Nat
  BY PoolAssumption DEF TypeOK
<1>2. Unclaimed \in 0 .. N
  BY <1>1 DEF Unclaimed
<1>3. ASSUME NEW w \in Workers PROVE RoundLeft(w) \in 0 .. 4
  BY DEF RoundLeft
<1> QED
  BY <1>1, <1>2, <1>3 DEF WorkLeft

\* The main thread claims nothing and moves no worker that was started.
LEMMA MainShrinks == ASSUME IInv, Main PROVE WorkShrinks
<1> SUFFICES ASSUME NEW w \in Workers, pc[w] # "none"
             PROVE  pc'[w] = pc[w] /\ WorkLeft(w)' <= WorkLeft(w)
  BY DEF WorkShrinks
<1>1. pc = [u \in Workers |-> pc[u]] /\ launched \in Nat /\ w <= launched /\ WorkLeft(w) \in Nat
  BY PoolAssumption, WorkTypes DEF IInv, TypeOK, LaunchedExist, Workers
<1>2. pc'[w] = pc[w] /\ nextTid' = nextTid
  <2>1. CASE Launch
    BY <1>1, <2>1 DEF Launch, Workers
  <2>2. CASE Launched \/ LaunchFails \/ Get \/ Join \/ Unwound
    BY <2>2 DEF Launched, LaunchFails, Get, Join, Unwound
  <2> QED
    BY <2>1, <2>2 DEF Main
<1>3. WorkLeft(w)' = WorkLeft(w)
  BY <1>2 DEF WorkLeft, RoundLeft, Unclaimed
<1> QED
  BY <1>1, <1>2, <1>3

LEMMA WorkerShrinks ==
    ASSUME IInv, NEW v \in Workers, Worker(v)
    PROVE  WorkShrinks
<1>1. /\ pc = [u \in Workers |-> pc[u]] /\ nextTid \in Nat /\ N \in Nat
      /\ Unclaimed \in Nat
  BY PoolAssumption, WorkTypes DEF IInv, TypeOK
<1>2. /\ \A w \in Workers : w # v => pc'[w] = pc[w]
      /\ nextTid' = nextTid \/ nextTid' = nextTid + 1
  BY <1>1 DEF Worker, Claim, Skip, Generate, Lock, Store, Goto
<1>3. Unclaimed' <= Unclaimed /\ Unclaimed' \in Nat
  BY <1>1, <1>2 DEF Unclaimed
<1>4. WorkLeft(v)' < WorkLeft(v)
  <2>1. CASE Claim(v) /\ nextTid >= N
    <3>1. pc[v] = "claim" /\ pc'[v] = "exit" /\ Unclaimed' = Unclaimed
      BY <1>1, <2>1 DEF Claim, Goto, Unclaimed
    <3> QED
      BY <1>1, <3>1 DEF WorkLeft, RoundLeft
  <2>2. CASE Claim(v) /\ ~(nextTid >= N)
    <3>1. pc[v] = "claim" /\ pc'[v] = "work" /\ Unclaimed' + 1 = Unclaimed
      BY <1>1, <2>2 DEF Claim, Goto, Unclaimed
    <3> QED
      BY <1>1, <1>3, <3>1 DEF WorkLeft, RoundLeft
  <2>3. CASE Skip(v) \/ Generate(v) \/ Lock(v) \/ Store(v)
    <3>1. /\ \/ pc[v] = "work" /\ pc'[v] \in {"claim", "lock", "thrown"}
             \/ pc[v] = "lock" /\ pc'[v] = "store"
             \/ pc[v] = "store" /\ pc'[v] = "claim"
          /\ nextTid' = nextTid
      BY <1>1, <2>3 DEF Skip, Generate, Lock, Store, Goto
    <3>2. Unclaimed' = Unclaimed
      BY <3>1 DEF Unclaimed
    <3> QED
      BY <1>1, <3>1, <3>2 DEF WorkLeft, RoundLeft
  <2> QED
    BY <2>1, <2>2, <2>3 DEF Worker
<1>5. ASSUME NEW w \in Workers, w # v PROVE pc'[w] = pc[w] /\ WorkLeft(w)' <= WorkLeft(w)
  <2>1. pc'[w] = pc[w] /\ RoundLeft(w)' = RoundLeft(w)
    BY <1>2, <1>5 DEF RoundLeft
  <2>2. RoundLeft(w) \in Nat
    BY WorkTypes DEF IInv
  <2> QED
    BY <1>1, <1>3, <2>1, <2>2 DEF WorkLeft
<1> QED
  BY <1>4, <1>5 DEF WorkShrinks

\* However the workers interleave, each takes at most 4 * N + 4 steps before
\* it leaves its loop (AgentManager.cpp:2100-2151): what PhaseAEnds needs
\* besides fair scheduling and sessions that end.
THEOREM PoolRunsOut ==
    Spec => /\ [](\A w \in Workers : WorkLeft(w) \in 0 .. 4 * N + 4)
            /\ [][WorkShrinks]_vars
<1>1. IInv => \A w \in Workers : WorkLeft(w) \in 0 .. 4 * N + 4
  BY WorkTypes DEF IInv
<1>2. IInv /\ [Next]_vars => [WorkShrinks]_vars
  BY MainShrinks, WorkerShrinks DEF Next
<1> QED
  BY <1>1, <1>2, PoolInvariant, PTL DEF Spec
=============================================================================
