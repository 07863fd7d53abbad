---------------------------- MODULE ContractPool ----------------------------
(***************************************************************************)
(* Phase A of the static-composition pipeline: the std::async workers that *)
(* generate the per-thread contracts (AgentManager.cpp,                    *)
(* runAnalysisContractMode).  Workers claim positions of tidsVec with one  *)
(* atomic counter, run a ContractSession each, and put the result into the *)
(* shared map under contractsMu; the main thread launches the workers and  *)
(* then gets their futures in order.                                       *)
(*                                                                         *)
(* An exception that leaves a session ends its worker and is rethrown by   *)
(* f.get().  Nothing above runAnalysisContractMode catches it, so the      *)
(* program terminates; whether the stack is unwound first (which waits for *)
(* the remaining futures) is up to the implementation, and both happen.    *)
(***************************************************************************)
EXTENDS Integers, FiniteSets

CONSTANTS
    N,          \* tidsVec.size()
    W,          \* contractParallelism()
    Skipped     \* positions whose thread is unknown or touches no object

ASSUME PoolAssumption ==
    /\ N \in Nat
    /\ W \in Nat \ {0}
    /\ Skipped \subseteq 0 .. N - 1

Items == 0 .. N - 1

\* workers: never more than there are threads to process.
NumWorkers == IF W < N THEN W ELSE N

Workers == 1 .. NumWorkers

NoOne == 0

VARIABLES
    main,         \* where the main thread is
    launched,     \* futures.size()
    got,          \* futures already obtained
    nextTid,      \* nextTid
    pc,           \* per worker: where its loop is
    idx,          \* per worker: idx
    mu,           \* holder of contractsMu
    contracts,    \* contractsByTid, by position
    settled       \* per position, history: how it was settled

vars == <<main, launched, got, nextTid, pc, idx, mu, contracts, settled>>

Init ==
    /\ main = "launch" /\ launched = 0 /\ got = 0
    /\ nextTid = 0
    /\ pc = [w \in Workers |-> "none"]
    /\ idx = [w \in Workers |-> 0]
    /\ mu = NoOne
    /\ contracts = {}
    /\ settled = [t \in Items |-> "open"]

\* The process is gone once main terminates it.
Alive == main # "dead"

-----------------------------------------------------------------------------
(* The main thread.                                                        *)

Launch ==
    /\ main = "launch" /\ launched < NumWorkers
    /\ launched' = launched + 1
    /\ pc' = [pc EXCEPT ![launched + 1] = "claim"]
    /\ UNCHANGED <<main, got, nextTid, idx, mu, contracts, settled>>

\* All launched: go on to the futures.
Launched ==
    /\ main = "launch" /\ launched = NumWorkers
    /\ main' = "get"
    /\ UNCHANGED <<launched, got, nextTid, pc, idx, mu, contracts, settled>>

\* An exception reaches the main thread: terminate now, or unwind first.
Raise == main' \in {"unwind", "dead"}

\* std::async cannot start a thread.
LaunchFails ==
    /\ main = "launch" /\ launched < NumWorkers
    /\ Raise
    /\ UNCHANGED <<launched, got, nextTid, pc, idx, mu, contracts, settled>>

\* Mutant: the futures are not waited for.
GetNoWait ==
    /\ main = "get" /\ got < NumWorkers
    /\ got' = got + 1
    /\ UNCHANGED <<main, launched, nextTid, pc, idx, mu, contracts, settled>>

\* f.get() on the next future: blocks until its worker ended, rethrows.
Get ==
    /\ main = "get" /\ got < NumWorkers
    /\ \/ /\ pc[got + 1] = "exit"
          /\ got' = got + 1
          /\ UNCHANGED main
       \/ /\ pc[got + 1] = "thrown"
          /\ Raise
          /\ UNCHANGED got
    /\ UNCHANGED <<launched, nextTid, pc, idx, mu, contracts, settled>>

\* All obtained: Phase B starts.
Join ==
    /\ main = "get" /\ got = NumWorkers
    /\ main' = "phaseB"
    /\ UNCHANGED <<launched, got, nextTid, pc, idx, mu, contracts, settled>>

\* Unwinding: the destructors of the futures block until the workers end.
Unwound ==
    /\ main = "unwind"
    /\ \A w \in 1 .. launched : pc[w] \in {"exit", "thrown"}
    /\ main' = "dead"
    /\ UNCHANGED <<launched, got, nextTid, pc, idx, mu, contracts, settled>>

-----------------------------------------------------------------------------
(* The workers.                                                            *)

Goto(w, to) == pc' = [pc EXCEPT ![w] = to]

Settle(w, how) == settled' = [settled EXCEPT ![idx[w]] = how]

\* Mutant: the end of the list is checked one too late.
ClaimPastEnd(w) ==
    /\ Alive /\ pc[w] = "claim"
    /\ idx' = [idx EXCEPT ![w] = nextTid]
    /\ nextTid' = nextTid + 1
    /\ Goto(w, IF nextTid > N THEN "exit" ELSE "work")
    /\ UNCHANGED <<main, launched, got, mu, contracts, settled>>

\* Mutant: the counter is not advanced past a claim that is still running.
ClaimTwice(w) ==
    /\ Alive /\ pc[w] = "claim"
    /\ idx' = [idx EXCEPT ![w] = nextTid]
    /\ nextTid' = idx[w] + 1
    /\ Goto(w, IF nextTid >= N THEN "exit" ELSE "work")
    /\ UNCHANGED <<main, launched, got, mu, contracts, settled>>

\* nextTid.fetch_add(1)
Claim(w) ==
    /\ Alive /\ pc[w] = "claim"
    /\ idx' = [idx EXCEPT ![w] = nextTid]
    /\ nextTid' = nextTid + 1
    /\ Goto(w, IF nextTid >= N THEN "exit" ELSE "work")
    /\ UNCHANGED <<main, launched, got, mu, contracts, settled>>

\* No such thread, or no object touched: continue.
Skip(w) ==
    /\ Alive /\ pc[w] = "work"
    /\ idx[w] \in Skipped
    /\ Settle(w, "skipped")
    /\ Goto(w, "claim")
    /\ UNCHANGED <<main, launched, got, nextTid, idx, mu, contracts>>

\* generateContractForThread returns a contract, nullopt or throws.
Generate(w) ==
    /\ Alive /\ pc[w] = "work"
    /\ idx[w] \notin Skipped
    /\ \/ Goto(w, "lock") /\ UNCHANGED settled
       \/ Goto(w, "claim") /\ Settle(w, "nullopt")
       \/ Goto(w, "thrown") /\ UNCHANGED settled
    /\ UNCHANGED <<main, launched, got, nextTid, idx, mu, contracts>>

\* Mutant: the mutex does not exclude.
LockFree(w) ==
    /\ Alive /\ pc[w] = "lock"
    /\ mu' = w
    /\ Goto(w, "store")
    /\ UNCHANGED <<main, launched, got, nextTid, idx, contracts, settled>>

\* lock_guard on contractsMu
Lock(w) ==
    /\ Alive /\ pc[w] = "lock"
    /\ mu = NoOne
    /\ mu' = w
    /\ Goto(w, "store")
    /\ UNCHANGED <<main, launched, got, nextTid, idx, contracts, settled>>

\* Mutant: contractsMu is not released.
StoreKeepsLock(w) ==
    /\ Alive /\ pc[w] = "store"
    /\ contracts' = contracts \cup {idx[w]}
    /\ Settle(w, "contract")
    /\ Goto(w, "claim")
    /\ UNCHANGED <<main, launched, got, nextTid, idx, mu>>

\* contractsByTid.emplace, and unlock
Store(w) ==
    /\ Alive /\ pc[w] = "store"
    /\ contracts' = contracts \cup {idx[w]}
    /\ mu' = NoOne
    /\ Settle(w, "contract")
    /\ Goto(w, "claim")
    /\ UNCHANGED <<main, launched, got, nextTid, idx>>

Worker(w) == Claim(w) \/ Skip(w) \/ Generate(w) \/ Lock(w) \/ Store(w)

Main == Launch \/ Launched \/ LaunchFails \/ Get \/ Join \/ Unwound

Next == Main \/ \E w \in Workers : Worker(w)

Spec == Init /\ [][Next]_vars

\* Every thread is scheduled, and a session ends (ContractSession).
FairSpec == Spec /\ WF_vars(Main) /\ \A w \in Workers : WF_vars(Worker(w))

-----------------------------------------------------------------------------
(* Properties.                                                             *)

\* Type invariant of the pool.
TypeOK ==
    /\ main \in {"launch", "get", "phaseB", "unwind", "dead"}
    /\ launched \in 0 .. NumWorkers /\ got \in 0 .. NumWorkers
    /\ nextTid \in Nat
    /\ pc \in [Workers -> {"none", "claim", "work", "lock", "store", "exit", "thrown"}]
    /\ idx \in [Workers -> Nat]
    /\ mu \in Workers \cup {NoOne}
    /\ contracts \subseteq Items
    /\ settled \in [Items -> {"open", "skipped", "nullopt", "contract"}]

Holding(w) == pc[w] \in {"work", "lock", "store", "thrown"}

\* No thread's contract is generated by two workers, or again after it was
\* settled: the claims of the atomic counter are disjoint.
ClaimedOnce ==
    \A w \in Workers : Holding(w) =>
        /\ idx[w] \in Items /\ settled[idx[w]] = "open"
        /\ \A v \in Workers \ {w} : Holding(v) => idx[v] # idx[w]

\* contractsByTid is only written inside contractsMu.
StoreExclusive == \A w \in Workers : pc[w] = "store" => mu = w

\* Phase B sees every thread settled and a contract for exactly those whose
\* session produced one; and no worker still runs, because the workers refer to
\* main's locals (counter, mutexes, map, surface) and main has left their block.
PhaseBComplete ==
    main = "phaseB" =>
        /\ \A t \in Items : settled[t] # "open"
        /\ contracts = {t \in Items : settled[t] = "contract"}
        /\ \A w \in Workers : pc[w] = "exit"

\* Phase A ends: in Phase B, or with the program.
PhaseAEnds == <>(main \in {"phaseB", "dead"})

\* What Phase A looks like to Phase B.
MapState == CASE main = "phaseB" -> "joined"
              [] main = "dead"   -> "aborted"
              [] OTHER           -> "running"

\* The pool implements ParallelMap.
Map == INSTANCE ParallelMap WITH result <- settled, state <- MapState

\* Every step of the pool settles at most one open thread, joins when all are
\* settled, or aborts.
ImplementsMap == Map!Spec
=============================================================================
