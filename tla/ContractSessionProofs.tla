----------------------- MODULE ContractSessionProofs -----------------------
(***************************************************************************)
(* Proofs about the contract session: its type, its read budget, what a    *)
(* returned contract may be silent on and what it may waive, for all       *)
(* objects, caps and retry counts.                                         *)
(***************************************************************************)
EXTENDS ContractSession, TLAPS

(* A send_message only runs in the main pass or in the repair, and nothing *)
(* has been read before the first one.                                     *)
SendingPhase ==
  /\ sending => phase \in {"main", "repair"}
  /\ phase = "start" => explore = 0

(* While a message is under way one more read is affordable. *)
ReadsLeft ==
  /\ explore <= ExploreHard + 1 + retries + round
  /\ sending => explore <= ExploreHard + retries + round

(* No clause that waives the order names an object with a consequential use. *)
WaiversHarmless ==
  \A cl \in contract.clauses :
    cl.noOrder /\ ~cl.order => cl.ids \cap Consequential = {}

(* TypeOK in two parts: the flags, and the rest. *)
Flags == l2Mode \in BOOLEAN /\ coverage \in BOOLEAN /\ sending \in BOOLEAN

Ranges ==
  /\ phase \in {"start", "main", "repair", "contract", "nullopt", "missing", "thrown"}
  /\ contract \in Contract
  /\ explore \in Nat /\ reports \in Nat
  /\ retries \in 0 .. MaxRetries /\ round \in 0 .. RepairRounds
  /\ unknown \in BOOLEAN

SessionInv == Ranges /\ SendingPhase /\ ReadsLeft /\ WaiversHarmless /\ SilentOnlyAfterRepair

----------------------------------------------------------------------------
(* What the report tools make of the contract. *)

LEMMA ClauseKept ==
  ASSUME contract \in Contract, WaiversHarmless, NEW ids \in SUBSET Ids,
         NEW order \in BOOLEAN, NEW benign \in BOOLEAN
  PROVE  LET c == WithClause(ids, order, benign) IN
         /\ c \in Contract
         /\ \A cl \in c.clauses : cl.noOrder /\ ~cl.order => cl.ids \cap Consequential = {}
<1> DEFINE clause == [ids |-> ids, order |-> order, noOrder |-> benign /\ ~order]
<1> DEFINE extended == [contract EXCEPT !.clauses = @ \cup {clause}]
<1>1. contract \in Contract
  OBVIOUS
<1>2. clause \in Clause
  BY DEF Clause
<1>3. extended \in Contract /\ extended.clauses = contract.clauses \cup {clause}
  BY <1>1, <1>2 DEF Contract
<1>4. CASE WithClause(ids, order, benign) = contract
  BY <1>1, <1>4 DEF WaiversHarmless
<1>5. CASE /\ WithClause(ids, order, benign) = extended
           /\ ~(clause.noOrder /\ ids \cap Consequential # {})
  BY <1>3, <1>5 DEF WaiversHarmless
<1> QED
  BY <1>4, <1>5 DEF WithClause

(* A handler that replaces the contract by c under the report cap. *)
LEMMA ReportingKeeps ==
  ASSUME SessionInv, UNCHANGED <<l2Mode, coverage>>, NEW c \in Contract, Reporting(c),
         \A cl \in c.clauses : cl.noOrder /\ ~cl.order => cl.ids \cap Consequential = {}
  PROVE  SessionInv'
<1>1. Ranges'
  <2>1. contract' = contract \/ contract' = c
    BY DEF Reporting
  <2>2. reports' = reports + 1 /\ UNCHANGED <<phase, explore, retries, round, unknown>>
    BY DEF Reporting
  <2>3. Ranges
    BY DEF SessionInv
  <2>4. contract' \in Contract
    BY <2>1, <2>3 DEF Ranges
  <2>5. reports' \in Nat
    BY <2>2, <2>3 DEF Ranges
  <2> QED
    BY <2>2, <2>3, <2>4, <2>5 DEF Ranges
<1>2. SendingPhase' /\ ReadsLeft'
  BY DEF SessionInv, SendingPhase, ReadsLeft, Reporting
<1>3. WaiversHarmless'
  BY DEF SessionInv, WaiversHarmless, Reporting
<1>4. SilentOnlyAfterRepair'
  BY DEF SessionInv, SendingPhase, SilentOnlyAfterRepair, Reporting
<1> QED
  BY <1>1, <1>2, <1>3, <1>4 DEF SessionInv

LEMMA ReportKeeps ==
  ASSUME SessionInv, UNCHANGED <<l2Mode, coverage>>, Report
  PROVE  SessionInv'
<1> DEFINE Good(c) ==
      /\ c \in Contract
      /\ \A cl \in c.clauses : cl.noOrder /\ ~cl.order => cl.ids \cap Consequential = {}
<1>0. Good(contract) /\ contract \in Contract
  BY DEF SessionInv, Ranges, WaiversHarmless
<1>1. ASSUME ConfirmRole PROVE \E c : Good(c) /\ Reporting(c)
  <2>1. PICK named \in BOOLEAN : Reporting([contract EXCEPT !.role = named])
    BY <1>1 DEF ConfirmRole
  <2>2. Good([contract EXCEPT !.role = named])
    BY <1>0 DEF Contract
  <2> QED
    BY <2>1, <2>2
<1>2. ASSUME ReportClause PROVE \E c : Good(c) /\ Reporting(c)
  <2>1. PICK ids \in SUBSET Ids, order \in BOOLEAN, benign \in BOOLEAN :
          Reporting(WithClause(ids, order, benign))
    BY <1>2 DEF ReportClause
  <2>2. Good(WithClause(ids, order, benign))
    BY ClauseKept DEF SessionInv, Ranges
  <2> QED
    BY <2>1, <2>2
<1>3. ASSUME ReportOrdering PROVE \E c : Good(c) /\ Reporting(c)
  <2>1. \/ Reporting(contract)
        \/ Reporting([contract EXCEPT !.ordering = TRUE])
    BY <1>3 DEF ReportOrdering
  <2>2. Good([contract EXCEPT !.ordering = TRUE])
    BY <1>0 DEF Contract
  <2> QED
    BY <1>0, <2>1, <2>2
<1>4. ASSUME AddRequirement PROVE \E c : Good(c) /\ Reporting(c)
  <2>1. \E form \in ReqForms : \/ Reporting(contract)
                               \/ Reporting([contract EXCEPT !.reqs = @ \cup {form}])
    BY <1>4 DEF AddRequirement
  <2>2. \A form \in ReqForms : Good([contract EXCEPT !.reqs = @ \cup {form}])
    BY <1>0 DEF Contract
  <2> QED
    BY <1>0, <2>1, <2>2
<1>5. ASSUME AddGuarantee PROVE \E c : Good(c) /\ Reporting(c)
  <2>1. \E form \in GuarForms : \/ Reporting(contract)
                                \/ Reporting([contract EXCEPT !.guars = @ \cup {form}])
    BY <1>5 DEF AddGuarantee
  <2>2. \A form \in GuarForms : Good([contract EXCEPT !.guars = @ \cup {form}])
    BY <1>0 DEF Contract
  <2> QED
    BY <1>0, <2>1, <2>2
<1>6. ASSUME DeclareNoObligation PROVE \E c : Good(c) /\ Reporting(c)
  <2>1. PICK o \in Ids : Reporting([contract EXCEPT !.noObligation = @ \cup {o}])
    BY <1>6 DEF DeclareNoObligation
  <2>2. Good([contract EXCEPT !.noObligation = @ \cup {o}])
    BY <1>0 DEF Contract
  <2> QED
    BY <2>1, <2>2
<1>7. PICK c : Good(c) /\ Reporting(c)
  BY <1>1, <1>2, <1>3, <1>4, <1>5, <1>6 DEF Report
<1> QED
  BY <1>7, ReportingKeeps

----------------------------------------------------------------------------
LEMMA SessionInit == Init => SessionInv
<1> SUFFICES ASSUME Init PROVE SessionInv
  OBVIOUS
<1>1. unknown \in BOOLEAN
  BY Zenon DEF Init
<1>2. /\ phase = "start" /\ ~sending /\ contract = EmptyContract
      /\ explore = 0 /\ reports = 0 /\ retries = 0 /\ round = 0
  BY DEF Init
<1>3. MaxRetries \in Nat /\ RepairRounds \in Nat /\ ExploreHard \in Nat
  BY SessionAssumption
<1>4. EmptyContract \in Contract
  BY DEF Contract, EmptyContract
<1>5. Ranges
  BY <1>1, <1>2, <1>3, <1>4 DEF Ranges
<1> QED
  BY <1>2, <1>3, <1>5
     DEF SessionInv, SendingPhase, ReadsLeft, WaiversHarmless,
         SilentOnlyAfterRepair, EmptyContract

LEMMA SessionNext == SessionInv /\ [Next]_vars => SessionInv'
<1> SUFFICES ASSUME SessionInv, [Next]_vars PROVE SessionInv'
  OBVIOUS
<1> USE SessionAssumption DEF SessionInv
<1>1. CASE Report /\ UNCHANGED <<l2Mode, coverage>>
  BY <1>1, ReportKeeps
<1>2. CASE Start /\ UNCHANGED <<l2Mode, coverage>>
  BY <1>2 DEF Start, Idle, Ranges, SendingPhase, ReadsLeft, WaiversHarmless,
              SilentOnlyAfterRepair
<1>3. CASE Retry /\ UNCHANGED <<l2Mode, coverage>>
  BY <1>3 DEF Retry, Idle, Ranges, SendingPhase, ReadsLeft, WaiversHarmless,
              SilentOnlyAfterRepair
<1>4. CASE Accept /\ UNCHANGED <<l2Mode, coverage>>
  <2>1. Ranges' /\ SendingPhase' /\ ReadsLeft' /\ WaiversHarmless'
    BY <1>4 DEF Accept, Idle, Ranges, SendingPhase, ReadsLeft, WaiversHarmless
  <2>2. SilentOnlyAfterRepair'
    BY <1>4 DEF Accept, SilentOnlyAfterRepair, Missing
  <2> QED
    BY <2>1, <2>2
<1>5. CASE Repair /\ UNCHANGED <<l2Mode, coverage>>
  <2>1. Ranges' /\ SendingPhase' /\ ReadsLeft' /\ WaiversHarmless'
    BY <1>5 DEF Repair, Idle, Ranges, SendingPhase, ReadsLeft, WaiversHarmless
  <2>2. SilentOnlyAfterRepair'
    BY <1>5 DEF Repair, Idle, Ranges, SilentOnlyAfterRepair, Missing, AddressesObject
  <2> QED
    BY <2>1, <2>2
<1>6. CASE ReadTool /\ UNCHANGED <<l2Mode, coverage>>
  <2>1. /\ sending /\ explore' = explore + 1
        /\ UNCHANGED <<l2Mode, coverage, phase, contract, reports, retries, round, unknown>>
    BY <1>6 DEF ReadTool
  <2>2. sending' => explore + 1 <= ExploreHard
    BY Zenon, <1>6 DEF ReadTool
  <2>3. Ranges'
    BY <2>1 DEF Ranges
  <2>4. SendingPhase'
    BY <2>1 DEF SendingPhase
  <2>5. ReadsLeft'
    BY <2>1, <2>2 DEF ReadsLeft, Ranges
  <2>6. WaiversHarmless' /\ SilentOnlyAfterRepair'
    BY <2>1 DEF WaiversHarmless, SilentOnlyAfterRepair
  <2> QED
    BY <2>3, <2>4, <2>5, <2>6
<1>7. CASE (UnknownTool \/ EndSend \/ Throw) /\ UNCHANGED <<l2Mode, coverage>>
  BY <1>7 DEF UnknownTool, EndSend, Throw, Ranges, SendingPhase, ReadsLeft,
              WaiversHarmless, SilentOnlyAfterRepair
<1>8. CASE UNCHANGED vars
  BY <1>8 DEF vars, Ranges, SendingPhase, ReadsLeft, WaiversHarmless,
              SilentOnlyAfterRepair, Missing, AddressesObject
<1> QED
  BY <1>1, <1>2, <1>3, <1>4, <1>5, <1>6, <1>7, <1>8 DEF Next, Step

LEMMA FlagsNext == ASSUME Flags, [Next]_vars PROVE Flags'
<1>1. l2Mode' = l2Mode /\ coverage' = coverage
  BY Zenon DEF Next, vars
<1>2. sending' = sending \/ sending' \in BOOLEAN
  <2>1. CASE Report
    BY Zenon, <2>1 DEF Report, ConfirmRole, ReportClause, ReportOrdering, AddRequirement,
                       AddGuarantee, DeclareNoObligation, Reporting
  <2>2. CASE Start \/ Retry \/ Accept \/ Repair
    BY Zenon, <2>2 DEF Start, Retry, Accept, Repair
  <2>3. CASE ReadTool
    <3>1. sending' = (explore + 1 <= ExploreHard)
      BY Zenon, <2>3 DEF ReadTool
    <3> QED
      BY <3>1
  <2>4. CASE UnknownTool \/ EndSend \/ Throw \/ UNCHANGED vars
    BY Zenon, <2>4 DEF UnknownTool, EndSend, Throw, vars
  <2> QED
    BY Zenon, <2>1, <2>2, <2>3, <2>4 DEF Next, Step
<1> QED
  BY Zenon, <1>1, <1>2 DEF Flags

LEMMA SessionAlways == Spec => []SessionInv
BY SessionInit, SessionNext, PTL DEF Spec

----------------------------------------------------------------------------
(* The session's state keeps its type for every cap and object set         *)
(* (ContractGeneratorAgent.cpp:640-790).                                   *)
THEOREM SessionTypeOK == Spec => []TypeOK
<1>1. Init => Flags
  BY DEF Init, Flags
<1>2. Flags /\ [Next]_vars => Flags'
  BY FlagsNext
<1>3. SessionInv /\ Flags => TypeOK
  BY Zenon DEF SessionInv, Ranges, Flags, TypeOK
<1> QED
  BY SessionAlways, <1>1, <1>2, <1>3, PTL DEF Spec

(* The reads of a session stay within its budget: one hard budget and a    *)
(* read for each further message (ContractGeneratorAgent.cpp:802-825).     *)
THEOREM SessionReadsBounded == Spec => []ReadsBounded
<1>1. SessionInv => ReadsBounded
  BY DEF SessionInv, ReadsLeft, ReadsBounded
<1> QED
  BY SessionAlways, <1>1, PTL

(* No sequence of clauses accounts for a consequential use by waivers      *)
(* alone (ContractGeneratorAgent.cpp:915-960).                             *)
THEOREM SessionConsequential == Spec => []ConsequentialNotWaived
<1>1. SessionInv => ConsequentialNotWaived
  <2> SUFFICES ASSUME SessionInv, NEW o \in Consequential,
                      NEW cl \in contract.clauses, o \in cl.ids, cl.order \/ cl.noOrder
               PROVE  cl.order
    BY DEF ConsequentialNotWaived, AddressesObject
  <2> QED
    BY DEF SessionInv, WaiversHarmless
<1> QED
  BY SessionAlways, <1>1, PTL

(* A returned contract that is silent on a high-risk object has used every *)
(* repair round (ContractGeneratorAgent.cpp:739-790).                      *)
THEOREM SessionSilent == Spec => []SilentOnlyAfterRepair
<1>1. SessionInv => SilentOnlyAfterRepair
  BY DEF SessionInv
<1> QED
  BY SessionAlways, <1>1, PTL

----------------------------------------------------------------------------
(* What a session does is finite: every step uses up something, except a   *)
(* call of a tool that does not exist, which nothing counts.  A retry or a *)
(* repair round pays for the message it sends, a tool call for itself or,  *)
(* past its cap, with the end of the message; the reset of the reads before*)
(* the repair is paid for by the change of phase.                          *)

ReadsToGo   == IF explore <= ExploreHard THEN ExploreHard + 1 - explore ELSE 0
ReportsToGo == IF reports <= ReportHardCap THEN ReportHardCap + 1 - reports ELSE 0

Sends == IF sending THEN 1 ELSE 0

PhasesToGo == CASE phase = "start"  -> ExploreHard + 5
                [] phase = "main"   -> ExploreHard + 3
                [] phase = "repair" -> 1
                [] OTHER            -> 0

Remaining ==
  PhasesToGo + 2 * (MaxRetries - retries) + 2 * (RepairRounds - round)
    + Sends + ReadsToGo + ReportsToGo

LEMMA RemainingIsNat == ASSUME SessionInv PROVE Remaining \in Nat
<1>1. /\ explore \in Nat /\ reports \in Nat /\ ExploreHard \in Nat /\ ReportHardCap \in Nat
      /\ retries \in 0 .. MaxRetries /\ round \in 0 .. RepairRounds
      /\ MaxRetries \in Nat /\ RepairRounds \in Nat
  BY SessionAssumption DEF SessionInv, Ranges
<1>2. ReadsToGo \in Nat /\ ReportsToGo \in Nat /\ PhasesToGo \in Nat /\ Sends \in Nat
  BY <1>1 DEF ReadsToGo, ReportsToGo, PhasesToGo, Sends
<1> QED
  BY <1>1, <1>2 DEF Remaining

\* A step uses up the budget, or is a call of an unknown tool.
UsesUp ==
  \/ Remaining' < Remaining
  \/ UnknownTool /\ Remaining' = Remaining

LEMMA RemainingFalls == ASSUME SessionInv, Step PROVE UsesUp
<1>1. /\ explore \in Nat /\ reports \in Nat /\ ExploreHard \in Nat /\ ReportHardCap \in Nat
      /\ retries \in 0 .. MaxRetries /\ round \in 0 .. RepairRounds
      /\ MaxRetries \in Nat /\ RepairRounds \in Nat
      /\ sending => phase \in {"main", "repair"}
  BY SessionAssumption DEF SessionInv, Ranges, SendingPhase
<1>2. ReadsToGo \in 0 .. ExploreHard + 1 /\ ReportsToGo \in Nat /\ PhasesToGo \in Nat
  BY <1>1 DEF ReadsToGo, ReportsToGo, PhasesToGo
<1>3. CASE Start
  BY <1>1, <1>2, <1>3
     DEF Start, Idle, Remaining, PhasesToGo, Sends, ReadsToGo, ReportsToGo, UsesUp
<1>4. CASE Retry
  BY <1>1, <1>2, <1>4
     DEF Retry, Idle, Remaining, PhasesToGo, Sends, ReadsToGo, ReportsToGo, UsesUp
<1>5. CASE Accept
  BY <1>1, <1>2, <1>5
     DEF Accept, Idle, Remaining, PhasesToGo, Sends, ReadsToGo, ReportsToGo, UsesUp
<1>6. CASE Repair
  <2>1. phase = "repair" /\ ~sending /\ UNCHANGED <<explore, reports, retries, unknown>>
    BY <1>6 DEF Repair, Idle
  <2>2. CASE phase' = phase /\ sending' /\ round' = round + 1
    BY <1>1, <1>2, <2>1, <2>2 DEF Remaining, PhasesToGo, Sends, ReadsToGo, ReportsToGo, UsesUp
  <2>3. CASE phase' = "contract" /\ ~sending' /\ round' = round
    BY <1>1, <1>2, <2>1, <2>3 DEF Remaining, PhasesToGo, Sends, ReadsToGo, ReportsToGo, UsesUp
  <2>4. \/ phase' = phase /\ sending' /\ round' = round + 1
        \/ phase' = "contract" /\ ~sending' /\ round' = round
    BY <1>6 DEF Repair, Idle
  <2> QED
    BY <2>2, <2>3, <2>4
<1>7. CASE ReadTool
  <2>1. /\ sending /\ explore' = explore + 1
        /\ UNCHANGED <<phase, reports, retries, round, unknown>>
        /\ sending' <=> explore + 1 <= ExploreHard
    BY <1>7 DEF ReadTool
  <2>2. CASE sending' /\ explore + 1 <= ExploreHard
    BY <1>1, <1>2, <2>1, <2>2 DEF Remaining, PhasesToGo, Sends, ReadsToGo, ReportsToGo, UsesUp
  <2>3. CASE ~sending'
    BY <1>1, <1>2, <2>1, <2>3 DEF Remaining, PhasesToGo, Sends, ReadsToGo, ReportsToGo, UsesUp
  <2> QED
    BY <2>1, <2>2, <2>3
<1>8. CASE Report
  <2>1. \E c : Reporting(c)
    BY <1>8 DEF Report, ConfirmRole, ReportClause, ReportOrdering, AddRequirement,
                AddGuarantee, DeclareNoObligation
  <2>2. PICK c : Reporting(c)
    BY <2>1
  <2>3. /\ sending /\ reports' = reports + 1
        /\ UNCHANGED <<phase, explore, retries, round, unknown>>
    BY <2>2 DEF Reporting
  <2>4. CASE reports + 1 > ReportHardCap /\ ~sending'
    BY <1>1, <1>2, <2>3, <2>4 DEF Remaining, PhasesToGo, Sends, ReadsToGo, ReportsToGo, UsesUp
  <2>5. CASE ~(reports + 1 > ReportHardCap) /\ sending'
    BY <1>1, <1>2, <2>3, <2>5 DEF Remaining, PhasesToGo, Sends, ReadsToGo, ReportsToGo, UsesUp
  <2> QED
    BY <2>2, <2>4, <2>5 DEF Reporting
<1>9. CASE UnknownTool
  <2>1. UNCHANGED <<phase, sending, explore, reports, retries, round>>
    BY <1>9 DEF UnknownTool
  <2> QED
    BY <1>9, <2>1 DEF Remaining, PhasesToGo, Sends, ReadsToGo, ReportsToGo, UsesUp
<1>10. CASE EndSend
  BY <1>1, <1>2, <1>10 DEF EndSend, Remaining, PhasesToGo, Sends, ReadsToGo, ReportsToGo, UsesUp
<1>11. CASE Throw
  BY <1>1, <1>2, <1>11 DEF Throw, Remaining, PhasesToGo, Sends, ReadsToGo, ReportsToGo, UsesUp
<1> QED
  BY <1>3, <1>4, <1>5, <1>6, <1>7, <1>8, <1>9, <1>10, <1>11 DEF Step

(* Whatever tools the LLM calls and in whatever order, a session runs out  *)
(* (ContractGeneratorAgent.cpp:640-860): its budgets add up to a natural   *)
(* number that every step makes smaller, except that a call of an unknown  *)
(* tool leaves it as it is, since the code has no cap on those.            *)
THEOREM SessionRunsOut ==
  Spec => /\ [](Remaining \in Nat)
          /\ [][UsesUp]_vars
<1>1. SessionInv => Remaining \in Nat
  BY RemainingIsNat
<1>2. SessionInv /\ [Next]_vars => [UsesUp]_vars
  BY RemainingFalls DEF Next
<1> QED
  BY SessionAlways, <1>1, <1>2, PTL DEF Spec
=============================================================================
