# Verification of Lace

TLA+ models, TLC runs and TLAPS proofs for Lace, the LLM-assisted detector of
concurrency bugs in this repository. Lace builds a happens-before graph of a
program, lets LLM agents recover a concurrency contract per thread, checks the
contracts against each other statically and lets another agent calibrate the
candidates. The core logic is in `src/src/LLMUtil`, `src/src/CCPG` and
`src/src/Query`; the benchmark programs and vendored libraries are not part of it.

## 1. Inventory

| Component | State it keeps | Operations | What is hard, and what makes it correct |
|---|---|---|---|
| `Conversation` (base class of all agents) | message history, pins, turn counter | `send_message` with its tool loop, `prune_history` by count or by tokens, pins, `reset` | pruning happens between any two tool responses; no tool response may lose its request, pins and the latest message stay, budgets are met, calls return |
| Tool-call sanitizer (OpenAI handler) | open calls, id counter, rewritten list | one pass over the history | histories are not well formed after pruning and failures; the request that is sent must be |
| `LLMClient::chat` | request file, attempt counter, shared token statistics | write, `curl` with retries, clean up, count, parse | concurrent callers; every failure path must clean up; an answer is neither lost nor invented |
| `ContractGeneratorAgent` | contract under construction, read, report and retry counters | a session per thread, tool handlers, coverage repair | the LLM calls tools in any order; budgets must end the session; waivers must not hide consequential uses |
| Phase A worker pool (`runAnalysisContractMode`) | atomic claim counter, contract map with mutex, futures | claim, generate, store, join | interleavings, exceptions in workers, Phase B starting too early |
| `HBGraph` queries | BFS queue and visited states | `hbReachable` | depth cap and synchronization flag interact with the visited sets |
| L2 checker, `Calibrator`, deduplication | evidence, candidates, verdicts, hypotheses | `buildEvidence`, `checkRequirements`, `review`, `dedupHypotheses` | evidence must only discharge; verdicts must not leak between sessions; merging must keep a representative |
| Lock sets (`LSAnalysis`) | work list, visited nodes, a vector of locks per node, `Lock` objects | one traversal per function, acquire, release, merge at joins | the work list is ordered by addresses and nothing is visited twice: no lock that is certainly held may be missing, none may appear where it was never taken |
| Thread tree (`ThreadCreationTree`) | threads, queue of fork sites, joins, two caches | `buildFromEntry`, `createThread`, join matching, `mayThreadsRunConcurrently` | cyclic forks, ambiguous joins, caches keyed by unordered pairs; no started function may be left without a thread |
| HBGraph construction | typed edges | lock, fork, join, completion, RCU and lifecycle passes | classes of locks and "the" thread of a node come out of hash sets, alias answers are no equivalence, and a `Lock` keeps one release: an edge must still join two locks that may be one, in concurrent threads |
| Clause composition (`composeVerdict`), budgets, `HypothesisVerifier`, other agents | clauses, object scores, verdicts | composition, selection, verification | not modelled, see sections 2 and 7 |
| CPG generation, PhASAR adapter, surface extraction, command line | files, IR | I/O and pattern matching around external tools | not modelled: no state that TLC could explore |

How they interact: the main thread runs the static phase: `CCPG::build`
(`CCPG.cpp:770`) makes the thread tree (`ThreadTree`), matches the joins and
computes the lock sets (`LockSet`), and `HBGraph::build` makes edges out of both
(`StaticPhase`). It then starts the worker
pool (`ContractPool`); each worker runs one session per thread
(`ContractSession`), which is a `Conversation`; a conversation calls
`LLMClient::chat` (`LLMChat`), whose handler first repairs the history
(`ToolCallSanitizer`). After the pool has joined, the session loop (`L2Checker`)
asks `hbReachable` (`HBReach`) for static order and its calibrator is a
`Conversation` again. The modules meet at these calls: the LLM is free in
`Conversation` and `ContractSession`, `chat` returns or throws there because
`LLMChat` shows that it does, a session returns or throws in `ContractPool`
because `ContractSession` shows that it ends.

The hazards, with their lines and properties, are listed in `PROJECT.json`.

## 2. Plan

Done, in this order: Conversation, sanitizer, contract session, chat, worker
pool with its abstract specification, happens-before search, L2 checker; lock
sets, thread tree and the construction of the happens-before graph, composed as
the static phase; proofs about every module, of every safety invariant that a
passing run checks (one with a restriction, section 5).

Next:

1. `Budgets`: the surface, thread and session budgets (every session within its
   caps, no forced object lost), and `Composition`: `composeVerdict` with the
   interleaving agent.
2. The queries of the thread tree that work on nodes and call strings
   (`mayExecuteConcurrently`, `canPrecede`), and `HBReach` run on the graph that
   `StaticPhase` builds.
3. `HypothesisVerifier` and the agents with state of their own (verification,
   triage, detection, `StatefulBugDetector`).
4. Proofs: the type invariant of `L2Checker`; the new modules.

## 3. Modules

- `Conversation`: `history` is `history_` without texts (role, call ids, pin,
  estimated tokens); `opts` is the configuration an agent sets once. `pc` is the
  position in `send_message`; `prune_history` is a subroutine (`cont` says where
  to continue), its token loop one action per iteration (`SkipPinned`,
  `SkipPinnedSpan`, `DropSpan`, `GuardOrphans`). `Reply`, `ChatThrows`,
  `ExecuteTool`, `ToolThrows` are the LLM's and the tools' outcomes.
- `ToolCallSanitizer`: one action per case of the loop of
  `sanitize_messages_for_tool_calls`.
- `ContractSession`: `phase` and `sending` locate
  `generateContractForThread`; one action per tool handler; both contract modes
  and coverage on or off are initial choices, as they are environment variables
  in the code. A call of a tool the agent does not have only flips a bit: the
  code counts nothing, so that such calls can go on for ever, and the bit lets a
  behaviour show it.
- `LLMChat`: workers that run `chat` concurrently over one directory of request
  files and one statistics object; the increment under the mutex is split into
  read and write so that a missing lock would show.
- `ContractPool`: the main thread (`launch`, `get`, `phaseB`, `unwind`, `dead`)
  and the workers' loop. An exception that reaches the main thread is caught
  nowhere, so whether the stack is unwound is the implementation's choice; both
  are modelled. `ParallelMap` is what it promises to Phase B.
- `HBReach`: the loop of `hbReachable`, one edge per step, edge order open.
- `L2Checker`: evidence and discharge as operators over arbitrary contracts and
  an arbitrary static order; the session loop, the calibrator and the final
  merge as actions. A candidate is named by its thread and the place of its
  requirement in the contract, a composed hypothesis by its session and that:
  the vectors of the code are sets ordered by place (`Before`), from which the
  merge takes the first as the code does. The work list of `ordReach` is a
  recursive function on its own steps (`WorkList`): `Targets` are the guarantees
  that apply at the popped node, `Push` adds the ones not yet seen.
  `L2Assumption` says that contracts are
  finite, as vectors are.
- `LockSet`: `LSAnalysis::build` and the traversal of a function. `Visit` is one
  iteration of the work-list loop with the propagation to all successors, a node
  that is its own successor included; `Outcomes` is what one lock operation does to a
  lock set, used twice because a node may also call a function whose only lock
  operation is applied (`acquirePotential`, `releasePotential`). A `Lock` object
  keeps one acquisition and one release (`acq`, `rel`); a lock set is a function
  from locks to keys that give the order of the vector, which after a merge is
  the order of addresses. The address of a new `Lock` is free. The queries are
  those of the code: `CtxLockSet` for a node, `LineLockSet` for a source line
  (all its nodes), and `IsProtectedBySameLock` for two lines, which looks at the
  first node that a hash set gives for a line (`FirstNodes`, any of them).
- `ThreadTree`: `phase` is `entries`, `forks` (the work list of `build`), `joins`
  (`handleJoins`, candidates by score) or `ready`; `taken` is the iteration count
  with its cap. `Above` is the way `isDescendant` climbs and `MayRun` the
  recursion of `mayThreadsRunConcurrently`, both as recursive functions. The
  program is an input: `TreeAssumption` says that functions and fork sites are
  finitely many (they are nodes of parsed files) and that a null pointer is
  neither. The queries `MayThreadsRunConcurrently` and `CandidatePairs` are
  operators. The caches are keyed by unordered pairs and keep the answer to
  whoever asked first, so what matters is whether the two orders of a pair agree:
  `OrderedByJoin` says for which pairs they do. `RootsConcurrent` is the answer
  for two entries, with the manual matches of both names.
- `StaticPhase`: extends both modules and runs them over one program, one after
  the other, then `BuildHB`, the passes of `HBGraph::build` in one step, whose
  only nondeterminism is the order in which the code's hash sets give out locks,
  threads and RCU pairs. `SystemAssumption`: the tree and the graph are of one
  program, and the body of a thread is closed under ORDER edges in both
  directions, since it is made of whole functions
  (`ThreadCreationTree.cpp:362`) and ORDER edges stay inside one.
- `ContractPoolProofs`, `HBReachProofs`, `StaticPhaseProofs`,
  `ContractSessionProofs`, `LLMChatProofs`, `ToolCallSanitizerProofs`,
  `ConversationProofs`, `L2CheckerProofs`: theorems. `MC*`: instances.

Definitions whose comment begins with "Mutant" are the faulty variants that the
properties are tested with; no specification uses them.

## 4. Runs

| Run | Shows | Bounds |
|---|---|---|
| `conv` | For each kind of configuration (count window 3; budget 5 with pins anywhere; budget 5 with compactor; budget 5 with turn cap 3): `NoOrphanTool`, `TotalExact` (the `size_t` total never wraps), `BudgetMet`, `PinnedKept`, `LatestKept`, `CallReturns` | two `send_message` between resets, two calls per reply: enough for several rounds to be dropped, skipped and compacted in one pruning |
| `conv_window_orphan` | violation, section 6 | three calls per reply against a window of three |
| `sanitizer` | every history is repaired: `ResponsesPaired`, `IdsUnique` | the system prompt and all sequences of up to four messages over two ids: orphans, repeats, missing and empty ids all occur |
| `session` | `SilentOnlyAfterRepair`, `ConsequentialNotWaived`, `ReadsBounded`, `SessionEnds` in both modes | two seeded objects and one invented id; budgets 1, 3, 2, 2 in place of the code's larger ones, all distinct in effect |
| `session_lastretry` | violation, section 6 | one object |
| `chat` | `RequestFileOwned`, `NoTempLeft`, `StatsExact`, `AnswerIsLast`, `ChatReturns` | two workers, two chats each, two retries, three names |
| `pool` | `ClaimedOnce`, `StoreExclusive`, `PhaseBComplete`, `ImplementsMap`, `PhaseAEnds` | four threads, three workers, so that workers claim repeatedly and one may find nothing |
| `hbreach` | `AnswerExact` against a path definition, `YesIsSound`, `QueueByDepth`, `SearchEnds` | all graphs of up to three edges on three nodes with one edge kind per class, cap 2: longer paths than the cap and cycles exist |
| `l2` | `OrdReachExact` against chains of guarantees, `EvidenceMonotone`, `CalibrationExact`, `RecallSafe` | 108 combinations of contracts, four static orders, two sessions over two objects, with and without Phase C |
| `l2_selforder` | violation, section 6 | the same |
| `static` | `NoHeldLockMissed` (a lock held on every path to a node is in its set, while a release did not take it), `AlwaysProtectedFound` (for the queries by node, by line and by the first node of a line), `HeldOnlyDownstream`, `UnlockRecorded` (no unlock is passed over while a lock it may unlock is open), `LockEdgesBounded` (what the hash orders can and cannot do to the lock edges), `ForksCovered` (a fork is lost to its line or to the cap, and to nothing else), `OrderedByJoin`, `StaticEnds` | three families, some 2800 programs and 161 thousand states: one function with up to three lock operations on five shapes of control flow (diamond, early return, loop, a node that follows itself, called wrappers), with nodes of their own lines and two on one line; two threads with up to four lock operations, as kernel entries, entries declared apart, manual entries, or parent and child, with bodies apart and with a helper both run, and three operands under alias answers that are precise, all-may, not transitive or not reflexive; forests of up to four threads over three fork sites with cycles, two forks on a line, ambiguous joins and a second root. Three `Lock` addresses, so a bigger one may be older; fork cap 4, which cycles reach; RCU cap 1 with two candidates |
| `static_ancestor` | violation, section 6 | the same |

Deadlock is checked in `conv` and `static`; the other systems end, so their cfgs
turn the check off. The type invariants of `Conversation`, `LLMChat`,
`ContractSession`, `LockSet` and `ToolCallSanitizer` are proved and therefore in
no run, that of `L2Checker` is there for readers.

Fairness. `conv`: a thread inside `send_message` keeps running (the LLM and the
tools return or throw). `session`, `chat`, `hbreach`, `static`: the one thread that runs
the code keeps running. `pool`: the main thread and each worker are scheduled
(weak fairness each; the operating system's scheduler gives that), and a session
ends. `PhaseAEnds` needs no more, since `lock_guard` is released by the step
that stores.

## 5. Proofs

TLAPS proves for every value of the constants, from `PoolAssumption` (at least
one worker allowed; skipped positions are positions) and `ReachAssumption`
(graphs are sets of edges, the cap is a natural number):

- `PoolTypeOK`, `PoolClaimedOnce`, `PoolStoreExclusive`, `PoolPhaseBComplete`
  and `PoolImplementsMap`: the pool implements
  `ParallelMap`. The inductive invariant `IInv` adds to the properties: workers
  exist exactly if launched (`LaunchedExist`); positions from the counter on are
  untouched (`UnclaimedOpen`); a claimed position is settled or held
  (`Accounted`) and what is held was claimed (`HeldClaimed`); the map holds
  exactly the contracts (`MapExact`); obtained futures belong to workers that
  left (`GotExited`), and those leave only past the end (`ExitAtEnd`). Phase B
  then finds everything settled: all futures are obtained, so all workers left,
  so the counter is past the end and nobody holds a position, so `Accounted`
  leaves no open one. One lemma per kind of worker step: claiming, holding,
  settling.
- `SearchTypeOK`, `SearchSound`, `SearchByDepth`: `hbReachable` never claims an
  order that no path shows, and its queue is ordered by depth. The invariant
  `SearchInv` says that every entry, waiting or popped, is reachable
  (`Witnessed`), that edges under way leave the popped node (`EdgesOfCur`), and
  that waiting entries are at most one edge deeper than the popped one
  (`Banded`). That no entry lies beyond the cap, part of the type invariant,
  needs that edges are looked at below it only (`UnderCap`). Reachability is defined by closed sets, so no induction over paths
  is needed.

- `SearchExact`: the search answers yes exactly when the reference definition,
  by recursion on the number of edges, finds a path within the cap. The other
  direction than `SearchSound` needs `CoverInv`: every entry carries the exact
  distance of its state (`ExactDepth`), a visited state whose distance is below
  the current depth waits no more and has all its neighbours visited
  (`Progress`), so that when the queue is empty every state within the cap has
  been seen. The recursion of the reference is unfolded by the lemmas `Recursion`
  and `WithinDef`, and the induction over distances is `Smallest`: a set of
  numbers with a bad one has a least bad one.
- `TypeCorrect`, `NothingForgotten`, `HeldLocksFound`, `AlwaysProtected`,
  `OnlyDownstream` about the lock sets, from `AddrAssumption`, `NoneAssumption`
  and `ProgramAssumption`, for every control-flow graph, as theorems of the
  static phase (`InPhase`: its steps are steps of `LockSet` or leave it alone).
  `LockSetInv` has the parts that the order of visits cannot disturb: held locks
  have an acquisition, and a function not yet traversed is not reached.
  `NotMissed` says that what is always held is handed to each successor;
  `Downstream` that what is held was acquired upstream, with reachability by
  closed sets. `VisitEffect` states once what `Visit` does to the sets, and the
  proofs of the parts cite it. So the single traversal, which is not a fixpoint
  iteration, is right about locks that are held on all paths, whatever the
  addresses; it is not about the others (section 6).
  `AlwaysProtected` carries this to the queries. The ones by node and by line
  find a lock that two accesses always hold. The one the detectors use,
  `isProtectedBySameLock` of two lines, finds it if all nodes of the line hold
  it or a call site does (`SurelyHeld`), and nothing more can be said of it.
- `UnlocksRecorded`: an unlock of an operand that is held whenever control
  reaches it finds a lock to unlock, or that lock has its one release already,
  on another path, and stays in the set. `Unlocked` is the invariant, kept by
  `UnlockedNext`: what `HeldLocksFound` has in the set is open or was released
  elsewhere. Branches, loops and wrappers are all allowed.
- `ForksAreCovered` and `OrderIsByJoin` about the thread tree, from
  `TreeAssumption` and `SystemAssumption`, for forests of any size and depth.
  `TreeInv`: a thread is younger than its parent and runs the function its fork
  starts, no two threads run one function (`Grown`), and a fork of a thread's
  function has its thread, starts nothing, shares its source line with a fork
  that has a thread (`Located`), or waits in the queue (`Covered`). When the
  queue is done it is empty or the cap was hit, which leaves the three ways a
  fork is lost. That the threads a program with one entry loses (`EndForks`) are
  not needed is `OneRoot`; a forked thread is never among them. `OrderIsByJoin`
  is about the recursion of `mayThreadsRunConcurrently`: `ParentRecursion` shows
  that a definition by recursion towards the root has a solution, `AboveIs` and
  `MayRunIs` are the equations of the two functions, and the theorem is an
  induction on the older thread, with a lemma for siblings (`SiblingsApart`) and
  one for cousins, who are ordered exactly if their parents are
  (`CousinsApart`). Its second part, the symmetry of `mayHappenInParallel` for
  siblings, is what makes the cache harmless there.
- `LockEdgesAreBounded`: for any alias answers and bodies, and any order of the
  hash sets. `ClassInv`, kept by `PlacedKeeps`: a lock heads its class or may be
  the lock that does, no lock may be the head of an earlier class, and each lock
  is in one. So two locks of a class may both be its head (`BothLike`), and two
  locks that no third one tells apart (`Inseparable`) are in one class whatever
  the order, since a head between them would have taken both (`SameClassIs`).
  The thread found for a node has the node (`ThreadOfIs`); when all threads that
  have two nodes are concurrent it does not matter which are found. `Built` says
  that the graph has the edges of some order and is made after the rest is done.
  Nothing closer holds: may-alias answers are not transitive, `isLockAlias` of an
  operation without a call instruction is false even with itself
  (`AliasChecker.cpp:88`), and threads share helpers.
- `CheckerCalibration`, `CheckerRecall`, `CheckerMonotone`, `CheckerOrder` about
  `L2Checker`, from `L2Assumption`, for all contracts, sessions and static
  orders. `CheckerInv`: what is composed came from the candidates of its session
  (`FromCandidates`), what is not judged is still under review. For the merge,
  `Represented` follows a dropped hypothesis to the first of its group and that
  to the one reported in its place. `CheckerMonotone` needs that discharge only
  grows with the guarantees (`OrderMonotone`, `DischargeMonotone`).
  `CheckerOrder`: when the work list of `ordReach` is through it has visited the
  least set that the guarantees close (`LoopHolds`, `GuarReachIs`), which is what
  chains of edges reach (`VisitedByChains`), and a chain that visits a node twice
  can be cut (`CutChain`), so a least one is no longer than the set of edges
  (`ShortChain`), which is the bound the reference definition uses.
- `SessionTypeOK`, `SessionReadsBounded`, `SessionConsequential`,
  `SessionSilent` about `ContractSession`. `SessionInv` adds that a
  conversation under way belongs to the phase that opened it (`SendingPhase`),
  that reads charged never exceed what the phase grants (`ReadsLeft`), and that
  a waiver is recorded only for objects without a consequential use, or after
  the repair has had its chance (`WaiversHarmless`).
- `ChatTypeOK`, `ChatFileOwned`, `ChatNoTempLeft`, `ChatAnswerIsLast`,
  `ChatStatsExact` about `LLMChat`, for every number of workers, chats and retries. The invariant
  counts attempts (`AttemptsLeft`), says that a report exists only after the
  loop (`NoReportInside`, `LoopLeft`) and that a name left behind by a `popen`
  failure is never used again (`LeakedUnused`), without which `chat` could
  remove another worker's file. `ChatStatsExact` counts answers by the size of a
  set: at most one worker is between reading and writing the statistics, and
  what it read is current (`StatsLocked`); the number of workers is finite
  (`ChatAssumption`).
- `SanitizerTypeOK`, `SanitizerPaired`, `SanitizerUnique` about
  `ToolCallSanitizer`, from `SanitizerAssumption`, for histories of any length.
  The properties are about the finished request; while it is built, calls are
  open. `Sound(msgs, open, counter)` therefore says what holds in between: the
  responses so far answer calls of the request before them, the calls without a
  response are exactly the open ones and belong to the last request, and every
  id was given out below the counter. `AnswersKeep` (responses to open calls)
  and `MessageKeeps` (any other message, once no call is open) are the two ways
  the result grows; `flush_pending` establishes what `MessageKeeps` needs.
- `BudgetNoOrphan`, `BudgetLatestKept`, `BudgetPinnedKept`, `BudgetTotalExact`,
  `BudgetIsMet` about `Conversation`
  with a token budget, from `ConversationAssumption`, for any costs, ids and
  configuration. `NoOrphanTool` alone is not inductive: the loop must be at no
  response when the compactor puts its note there (`CleanCut`), the second
  message must be no response, or dropping from the front would strand it
  (`Formed`), and the history must end inside a round while its calls are
  answered (`OpenRound`). The effects of `SkipTools`, `SpanEnd`, `Erase` and
  `Compact` are lemmas. `GuardIdle` shows that the guard after the token loop
  (`GuardOrphans`) never finds anything to remove. `BudgetNoOrphan` excludes
  agents that both compact and pin messages at arbitrary positions
  (`Separate`): a note placed at a pinned request would come between it and its
  responses; no agent of the repository has both.

  `WindowNoOrphan`: in count mode the statement holds when a reply holds fewer
  tool calls than the window holds messages (`Windowed`), and it is false from
  then on (`conv_window_orphan`), so the bound is sharp. The window is cut at a
  position computed from the length alone, so the proof has to know where the
  last request is: while calls are being answered, it is followed by the
  responses given so far and nothing else (`OpenCalls`), and the cut, which keeps
  at least as many messages as the round can have, stays in front of it
  (`CutKeeps`). `ConversationTypeOK` holds in both modes without a restriction.

  `BudgetTotalExact`: the running total is the sum over the history, and the
  subtractions never go below zero; `BudgetIsMet`: the loop stops within the
  budget or has passed over nothing but rounds that may not be dropped.

- `SendRunsOut`, `SessionRunsOut`, `ChatRunsOut`, `PoolRunsOut`, `SearchRunsOut`
  and `StaticRunsOut`: the safety half of termination, one for each liveness
  property. Each names natural numbers that every step of the call, session,
  worker or search makes smaller, in lexicographic order where there are several,
  and that the steps of other workers leave alone. No answer of the LLM, no error
  and no interleaving keeps one of them going for ever, with the two exceptions
  below, so all that the liveness properties need besides is that threads are
  scheduled. `SendRunsOut` assumes a turn cap (`Capped`), as without one
  `send_message` asks as long as the LLM wants tools. In `SessionRunsOut` a call
  of an unknown tool uses nothing up: the contract agent has no turn cap and
  counts only the tools it knows, and `SessionEnds` excepts exactly the sessions
  in which the LLM calls unknown tools for ever (nothing bounds them in the
  model either). `SearchRunsOut` and
  `StaticRunsOut` assume a finite graph and a finite program, of any shape.

Induction over data is done without an induction theorem: `Smallest` takes the
least counterexample among natural numbers (from the well-foundedness of their
order, in the library), `Induction` restates it for a set, and the recursion
lemmas (`Recursion`, `ParentRecursion`, `ClassesAre`) build the function that
solves a recursive definition, so that its equation can be used.

Only model-checked: liveness (`CallReturns`, `SessionEnds`, `ChatReturns`,
`PhaseAEnds`, `SearchEnds`, `StaticEnds`), which is outside the prover's reach;
what they need besides fairness is proved (the `RunsOut` theorems). `NoOrphanTool` for
an agent that both compacts and pins (`Separate`) is neither proved nor checked.
The type invariant of `L2Checker` is not proved: the type of what `SelectSeq`
returns needs an induction over its definition.

## 6. Findings and observations

Runs that expect a violation:

- `conv_window_orphan`: in count mode a reply with as many tool calls as the
  window holds loses its request while responses are still to come; the later
  ones become orphans, against the comment in `Conversation.h:138`. The
  sanitizer removes them before they are sent, so their results are lost.
- `session_lastretry`: validity is tested at the top of the retry loop only, so
  a contract completed by the last retry is discarded and reported as
  "Failed to generate a valid contract" (`ContractGeneratorAgent.cpp:735`).
- `l2_selforder`: `ordReach(n, n)` is true without evidence, so a race of a node
  with itself in two instances of one thread is always discharged, against
  `AgentManager.cpp:1049`.

- `static_ancestor`: `composeVerdict` and `budgetContractThreads` gate every pair
  of threads by `mayHappenInParallel` (`AgentManager.cpp:671`, `1778`), which is
  written for siblings. In the default Release build its assertion is gone and it
  answers no for an entry thread and a thread it forks, so the pair is dropped,
  although "Main thread is now kept for analysis to detect races between main and
  worker threads" (`ThreadCreationTree.cpp:124`) and `mayThreadsRunConcurrently`
  calls the two concurrent.

Behaviour the models reproduce and no property forbids:

- lock sets are may-sets at joins: a lock taken on one branch is in the set
  after the join, and a lock released on one branch is kept by the other, since
  vectors are united (`LSAnalysis.cpp:43`), while `HypothesisVerifier.cpp:388`
  reads them as "locks that always hold"; which nodes after the join have which
  set depends on the addresses of the nodes;
- each `Lock` keeps one release, so after an early return the second unlock of
  the same lock is recorded nowhere and releases an outer lock if the operands
  may alias; accesses on the path of the second unlock are called protected by
  the lock sets and get no lock edge. `UnlockRecorded` and `LockEdgesBounded`
  state what survives, and no property says that a protected pair is ordered;
- `isProtectedBySameLock` of two source lines takes `getNodesByLoc(loc).begin()`
  (`LSAnalysis.cpp:124`), an arbitrary node when a line has several. The comments
  at `LSAnalysis.cpp:211`, `LSAnalysis.h:65` and `HypothesisVerifier.cpp:488`
  describe held locks lost that way; `getLockSet` was changed for it, this query,
  which `LLMDataRaceDetector.cpp:112` and two other detectors call, was not.
  `AlwaysProtectedFound` has the condition under which its answer is safe;
- two forks on one source line that start different functions give one thread
  (`ThreadCreationTree.cpp:229`), the second alternative of `ForksCovered`;
- `mayHappenInParallel` of threads that are no siblings looks at the first
  one's parent only, and the cache keeps the answer for both orders
  (`ThreadCreationTree.cpp:836`), so what `composeVerdict` gets for such a pair
  may depend on which phase asked first;
- `isDeadLock` and `hasLockOrderConflict` (`LSAnalysis.cpp:169`, `276`; nothing
  calls them) report two threads with the same order of two locks and miss the
  reversed order;
- lock edges go from every release to every acquisition of the class, in both
  directions between two threads, so `ordReach` discharges a requirement for
  either order of a protected pair;
- a node in the bodies of several threads counts as the first one's
  (`findThread`), and which is first is up to a hash set; an edge is certain only
  if all threads that have the two nodes are concurrent (`AlwaysConcurrent`);
- a wrapper that locks has a `CALL` edge and no edge back, and a thread without
  a `RETURN` node gets no join edge, so searches stop there;
- two threads at different depths of the tree are always called concurrent, and
  the root of one tree and a child of another never
  (`ThreadCreationTree.cpp:987`);
- RCU edges beyond `HB_RCU_MAX_EDGES` (`HBGraph.cpp:361`) and fork sites beyond
  100 (`ThreadCreationTree.cpp:88`) are left out without notice;
- a negative `LACE_SESSION_CAP` becomes a huge `size_t` (`AgentManager.cpp:1716`);

- report tools are capped (`ContractGeneratorAgent.cpp:850`) although the comment
  at 804 says they never are, and the cap spans main pass and repair;
- `hasOrderContent()` counts a clause whose relations were all dropped, so a
  contract without content can pass the validity test;
- when the last attempts of `chat` fail in transport, the error document of an
  earlier attempt is reported (`LLMClient.cpp:703`);
- a `popen` failure leaves the request file behind (`leaked` in `LLMChat`);
- `StructuralOnly` decides which edges set the synchronization flag, not which
  edges are followed (`HBGraph.cpp:652`);
- a requirement whose object is in another chunk of the thread set is checked
  without its surface locks (`AgentManager.cpp:1183`);
- an exception during calibration ends the analysis and loses the hypotheses
  composed so far (`ReviewThrows`).

## 7. Not modelled

Prompts, report texts and JSON conversion (no property is about them); parsing,
LLVM and PhASAR (external tools). `classifyPath` and the graph dump of `HBGraph`
only produce text. Of the thread tree, the queries on nodes and call strings.
Of `LSAnalysis`, the queries nothing calls (`isDeadLock` and the printing).
The surface, thread and session budgets (`AgentManager.cpp:1558`-`1829`) are
sorts and cuts over scores, one after the other without interleaving; the
verdict of `composeVerdict` follows the answers of the interleaving agent, an
LLM; `HypothesisVerifier` and the other agents are `Conversation`s whose tools
only read.

Most lines of `src/` are not Lace: the benchmark programs under `src/dataset`
are kernel sources that Lace analyses, and `src/include/nlohmann/json.hpp` is a
vendored library. They are about ninety-six lines in every hundred, and
nothing in them is a part of the system.
