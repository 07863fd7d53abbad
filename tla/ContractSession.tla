--------------------------- MODULE ContractSession ---------------------------
(***************************************************************************)
(* One run of ContractGeneratorAgent::generateContractForThread: the LLM   *)
(* session that builds the concurrency contract of one thread, with its    *)
(* read and report budgets, the retry loop for empty contracts and the     *)
(* coverage repair (src/LLMUtil/ContractGeneratorAgent.cpp).               *)
(*                                                                         *)
(* The LLM is free: during a send_message it may call any tool with any    *)
(* arguments, answer in text, and chat() or a tool may throw.  One action  *)
(* per tool handler of execute_tool / execute_l2_tool; prompts are left    *)
(* out.  What Conversation does with the messages is module Conversation.  *)
(***************************************************************************)
EXTENDS Integers, FiniteSets

CONSTANTS
    Seeded,         \* seededObjectIds_: the objects shown to the LLM
    OtherIds,       \* object ids the LLM may invent
    HighRisk,       \* isHighRiskObject
    Consequential,  \* hasObviousLocalConsequence for this thread
    ExploreHard,    \* exploreHard_
    ReportHardCap,  \* reportHardCap()
    MaxRetries,     \* MAX_RETRIES
    RepairRounds    \* kCoverageRepairRounds

ASSUME SessionAssumption ==
    /\ HighRisk \subseteq Seeded /\ Consequential \subseteq Seeded
    /\ ExploreHard \in Nat /\ ReportHardCap \in Nat
    /\ MaxRetries \in Nat /\ RepairRounds \in Nat

VARIABLES
    l2Mode,     \* LACE_CONTRACT_L2
    coverage,   \* coverageEnabled()
    phase,      \* "start", "main", "repair", or how the call ended
    sending,    \* a send_message is under way
    contract,   \* the ConcurrencyContract the tools write to
    explore,    \* explore_calls_
    reports,    \* reportRounds_
    retries,    \* retries
    round,      \* round of repairContractCoverage
    unknown     \* changes with each call of an unknown tool (counted nowhere)

vars == <<l2Mode, coverage, phase, sending, contract, explore, reports, retries, round, unknown>>

Ids == Seeded \cup OtherIds

\* OrderClause: the objects it refers to, whether an assume or a guarantee of
\* the closed vocabulary is left in it, and its noOrderNeeded flag.
Clause == [ids : SUBSET Ids, order : BOOLEAN, noOrder : BOOLEAN]

ReqForms == {"MustPrecede", "MustBeAtomic", "MustBeMediated"}
GuarForms == {"Order", "Exclude", "AtomicOp", "Wait"}

Contract == [role : BOOLEAN, clauses : SUBSET Clause, ordering : BOOLEAN,
             reqs : SUBSET ReqForms, guars : SUBSET GuarForms,
             noObligation : SUBSET Ids]

EmptyContract == [role |-> FALSE, clauses |-> {}, ordering |-> FALSE,
                  reqs |-> {}, guars |-> {}, noObligation |-> {}]

HasOrderContent(c) == c.clauses # {} \/ c.ordering

HasL2Content(c) == c.reqs # {} \/ c.guars # {} \/ c.noObligation # {}

\* The validity test of the retry loop.
Valid(c) == c.role \/ HasOrderContent(c) \/ (l2Mode /\ HasL2Content(c))

AddressesObject(c, o) ==
    \E cl \in c.clauses : o \in cl.ids /\ (cl.order \/ cl.noOrder)

\* The high-risk objects repairContractCoverage asks about.
Missing(c) == {o \in HighRisk : ~AddressesObject(c, o)}

Ended == phase \in {"contract", "nullopt", "missing", "thrown"}

-----------------------------------------------------------------------------
(* generateContractForThread                                               *)

Init ==
    /\ l2Mode \in BOOLEAN /\ coverage \in BOOLEAN
    /\ phase = "start" /\ sending = FALSE
    /\ contract = EmptyContract
    /\ explore = 0 /\ reports = 0 /\ retries = 0 /\ round = 0
    /\ unknown = FALSE

Idle(p) == phase = p /\ ~sending

\* Counters reset; nullopt when the thread or its main function is missing,
\* otherwise the first send_message starts.
Start ==
    /\ Idle("start")
    /\ \/ phase' = "missing" /\ UNCHANGED sending
       \/ phase' = "main" /\ sending' = TRUE
    /\ UNCHANGED <<contract, explore, reports, retries, round, unknown>>

\* Mutant: retries are not counted.
RetryUncounted ==
    /\ Idle("main") /\ ~Valid(contract)
    /\ sending' = TRUE
    /\ UNCHANGED <<phase, contract, explore, reports, retries, round, unknown>>

\* Top of the retry loop on an empty contract: ask again, or give up.
Retry ==
    /\ Idle("main")
    /\ IF retries < MaxRetries
       THEN /\ ~Valid(contract)
            /\ sending' = TRUE
            /\ retries' = retries + 1
            /\ UNCHANGED phase
       ELSE /\ phase' = "nullopt"
            /\ UNCHANGED <<sending, retries>>
    /\ UNCHANGED <<contract, explore, reports, round, unknown>>

\* The retry loop leaves with a valid contract: return it, after the coverage
\* repair when that is enabled.
Accept ==
    /\ Idle("main")
    /\ retries < MaxRetries /\ Valid(contract)
    /\ IF ~l2Mode /\ Seeded # {} /\ coverage
       THEN phase' = "repair" /\ explore' = 0
       ELSE phase' = "contract" /\ UNCHANGED explore
    /\ UNCHANGED <<sending, contract, reports, retries, round, unknown>>

\* Mutant: the repair stops at the first object that is addressed.
RepairAny ==
    /\ Idle("repair")
    /\ IF round < RepairRounds /\ Missing(contract) = HighRisk
       THEN /\ sending' = TRUE
            /\ round' = round + 1
            /\ UNCHANGED phase
       ELSE /\ phase' = "contract"
            /\ UNCHANGED <<sending, round>>
    /\ UNCHANGED <<contract, explore, reports, retries, unknown>>

\* One round of repairContractCoverage: stop when nothing is missing.
Repair ==
    /\ Idle("repair")
    /\ IF round < RepairRounds /\ Missing(contract) # {}
       THEN /\ sending' = TRUE
            /\ round' = round + 1
            /\ UNCHANGED phase
       ELSE /\ phase' = "contract"
            /\ UNCHANGED <<sending, round>>
    /\ UNCHANGED <<contract, explore, reports, retries, unknown>>

-----------------------------------------------------------------------------
(* Inside send_message: what the LLM may do, and the tool handlers.        *)

\* Mutant: the hard budget is not enforced.
ReadToolUncapped ==
    /\ sending
    /\ explore' = explore + 1
    /\ UNCHANGED <<phase, sending, contract, reports, retries, round, unknown>>

\* A shared read tool: counted, and past the hard budget it finishes.
ReadTool ==
    /\ sending
    /\ explore' = explore + 1
    /\ sending' = (explore + 1 <= ExploreHard)
    /\ UNCHANGED <<phase, contract, reports, retries, round, unknown>>

\* The cap that every report tool counts against: past it, "finish".
Reporting(c) ==
    /\ sending
    /\ reports' = reports + 1
    /\ IF reports + 1 > ReportHardCap
       THEN sending' = FALSE /\ UNCHANGED contract
       ELSE contract' = c /\ UNCHANGED sending
    /\ UNCHANGED <<phase, explore, retries, round, unknown>>

\* confirm_role_and_summary (the role may be the empty string)
ConfirmRole ==
    \E named \in BOOLEAN : Reporting([contract EXCEPT !.role = named])

\* Mutant: a waiver is taken although the use is consequential.
WithClauseWaived(ids, order, benign) ==
    LET unbound == Seeded # {} /\ (ids = {} \/ ~(ids \subseteq Seeded))
        clause  == [ids |-> ids, order |-> order, noOrder |-> benign /\ ~order]
    IN  IF unbound THEN contract
        ELSE [contract EXCEPT !.clauses = @ \cup {clause}]

\* report_clause: the contract after the handler's checks.
WithClause(ids, order, benign) ==
    LET noOrder  == benign /\ ~order
        unbound  == Seeded # {} /\ (ids = {} \/ ~(ids \subseteq Seeded))
        rejected == noOrder /\ ids \cap Consequential # {}
        clause   == [ids |-> ids, order |-> order, noOrder |-> noOrder]
    IN  IF unbound \/ rejected
        THEN contract
        ELSE [contract EXCEPT !.clauses = @ \cup {clause}]

ReportClause ==
    /\ ~l2Mode
    /\ \E ids \in SUBSET Ids, order, benign \in BOOLEAN :
          Reporting(WithClause(ids, order, benign))

\* report_ordering (an empty detail is refused)
ReportOrdering ==
    /\ ~l2Mode
    /\ \E empty \in BOOLEAN :
          Reporting(IF empty THEN contract ELSE [contract EXCEPT !.ordering = TRUE])

\* add_requirement: needs valid nodes on the sides its form has.
AddRequirement ==
    /\ l2Mode
    /\ \E form \in ReqForms, a, b \in BOOLEAN :
          Reporting(IF a /\ (form # "MustBeAtomic" => b)
                    THEN [contract EXCEPT !.reqs = @ \cup {form}] ELSE contract)

\* add_guarantee: needs valid nodes, a target or a token, by form.
AddGuarantee ==
    /\ l2Mode
    /\ \E form \in GuarForms, a, b, token \in BOOLEAN :
          Reporting(IF /\ a
                       /\ form \in {"Order", "Wait"} => b
                       /\ form \in {"Exclude", "AtomicOp"} => token
                    THEN [contract EXCEPT !.guars = @ \cup {form}] ELSE contract)

\* declare_no_obligation
DeclareNoObligation ==
    /\ l2Mode
    /\ \E o \in Ids :
          Reporting([contract EXCEPT !.noObligation = @ \cup {o}])

\* A tool the agent does not have: an error reply.  Nothing counts it, so the
\* LLM may go on for ever.
UnknownTool ==
    /\ sending
    /\ unknown' = ~unknown
    /\ UNCHANGED <<phase, sending, contract, explore, reports, retries, round>>

\* finalize_contract, or a reply without tool calls: send_message returns.
EndSend ==
    /\ sending
    /\ sending' = FALSE
    /\ UNCHANGED <<phase, contract, explore, reports, retries, round, unknown>>

\* chat() fails for good, or a tool throws on malformed arguments.
Throw ==
    /\ sending
    /\ phase' = "thrown" /\ sending' = FALSE
    /\ UNCHANGED <<contract, explore, reports, retries, round, unknown>>

Report ==
    \/ ConfirmRole \/ ReportClause \/ ReportOrdering
    \/ AddRequirement \/ AddGuarantee \/ DeclareNoObligation

Step ==
    \/ Start \/ Retry \/ Accept \/ Repair
    \/ ReadTool \/ Report \/ UnknownTool \/ EndSend \/ Throw

Next == Step /\ UNCHANGED <<l2Mode, coverage>>

Spec == Init /\ [][Next]_vars

\* The thread that runs the session keeps running, and chat() returns.
FairSpec == Spec /\ WF_vars(Next)

-----------------------------------------------------------------------------
(* Properties.                                                             *)

\* Type invariant of the session.
TypeOK ==
    /\ l2Mode \in BOOLEAN /\ coverage \in BOOLEAN
    /\ phase \in {"start", "main", "repair", "contract", "nullopt", "missing",
                 "thrown"}
    /\ sending \in BOOLEAN
    /\ contract \in Contract
    /\ explore \in Nat /\ reports \in Nat
    /\ retries \in 0 .. MaxRetries /\ round \in 0 .. RepairRounds
    /\ unknown \in BOOLEAN

\* A returned contract that is silent on a high-risk object has used up every
\* repair round on it (coverage-enabled seeded sessions).
SilentOnlyAfterRepair ==
    (phase = "contract" /\ ~l2Mode /\ coverage /\ Missing(contract) # {}) =>
        round = RepairRounds

\* An object whose use this thread's own snippet shows to be consequential is
\* never accounted for by a no-order-needed declaration alone.
ConsequentialNotWaived ==
    \A o \in Consequential : AddressesObject(contract, o) =>
        \E cl \in contract.clauses : o \in cl.ids /\ cl.order

\* Reads stay within one hard budget for the main pass and its retries and
\* one for the repair; every further send_message costs at most one read.
ReadsBounded == explore <= ExploreHard + 1 + retries + round

\* send_message has no turn cap: every call of a known tool spends a bounded
\* budget, so a session goes on for ever only if the LLM calls unknown tools
\* for ever.
SessionEnds == <>Ended \/ []<><<UnknownTool>>_vars

\* What the comment on the retry loop and its error message promise: nullopt
\* for an existing thread means that no valid contract was produced.
NulloptMeansInvalid == phase = "nullopt" => ~Valid(contract)
=============================================================================
