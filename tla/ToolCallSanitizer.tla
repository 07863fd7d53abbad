-------------------------- MODULE ToolCallSanitizer --------------------------
(***************************************************************************)
(* sanitize_messages_for_tool_calls (src/LLMUtil/LLMClient.cpp): the       *)
(* repair every OpenAI-style request goes through before it is sent.  It   *)
(* reads the history once and writes a repaired copy:                      *)
(*   - every tool call gets a fresh id, and the response that matches its  *)
(*     old id is rewritten to the new one;                                 *)
(*   - a response that matches no open call is dropped;                    *)
(*   - an open call that gets no response before the next message of       *)
(*     another role (or the end) is answered by a placeholder.             *)
(*                                                                         *)
(* One action per case of the loop body.  `messages' is any history at     *)
(* all: Conversation's pruning may leave orphans, and an LLM may use one   *)
(* id for several calls.                                                   *)
(***************************************************************************)
EXTENDS Integers, Sequences, SequencesExt

CONSTANTS
    CallIds,      \* ids as the LLM chose them
    Histories     \* the histories to repair

\* A message of the history: its role, the ids of the calls it requests
\* (ASSISTANT) and the id it answers (TOOL; <<>> when tool_call_id is unset).
InMessage == [role : {"SYSTEM", "USER", "ASSISTANT", "TOOL"},
              ids  : Seq(CallIds),
              cid  : Seq(CallIds)]

ASSUME SanitizerAssumption == Histories \subseteq Seq(InMessage)

VARIABLES
    messages,     \* the argument, never changed
    next,         \* position of msg_in
    result,       \* result
    pending,      \* pending_renames: <<original id, fresh id>> pairs
    callCounter,  \* call_counter, the number in the next "lacecall_<N>"
    done          \* the function has returned

vars == <<messages, next, result, pending, callCounter, done>>

\* A message of the repaired copy; ids are numbers N of "lacecall_<N>".
OutMessage == [role : {"SYSTEM", "USER", "ASSISTANT", "TOOL"},
               ids  : Seq(Nat),
               cid  : Seq(Nat)]

Response(fresh) == [role |-> "TOOL", ids |-> <<>>, cid |-> <<fresh>>]

\* flush_pending: a placeholder for every call that is still open.
Placeholders == [k \in 1 .. Len(pending) |-> Response(pending[k][2])]

Init ==
    /\ messages \in Histories
    /\ next = 1
    /\ result = <<>> /\ pending = <<>>
    /\ callCounter = 0
    /\ done = FALSE

AtRole(r) == ~done /\ next <= Len(messages) /\ messages[next].role = r

\* Positions of pending_renames whose original id is the one msg_in answers.
Matches ==
    {k \in DOMAIN pending : messages[next].cid = <<pending[k][1]>>}

\* case TOOL without a matching open call: dropped.
DropOrphan ==
    /\ AtRole("TOOL")
    /\ Matches = {}
    /\ next' = next + 1
    /\ UNCHANGED <<messages, result, pending, callCounter, done>>

\* Mutant: an answered call stays open.
MatchToolStaysOpen ==
    /\ AtRole("TOOL")
    /\ \E k \in Matches :
          /\ \A j \in Matches : k <= j
          /\ result' = Append(result, Response(pending[k][2]))
    /\ next' = next + 1
    /\ UNCHANGED <<messages, pending, callCounter, done>>

\* case TOOL: answers the first open call with its id.
MatchTool ==
    /\ AtRole("TOOL")
    /\ \E k \in Matches :
          /\ \A j \in Matches : k <= j
          /\ result' = Append(result, Response(pending[k][2]))
          /\ pending' = RemoveAt(pending, k)
    /\ next' = next + 1
    /\ UNCHANGED <<messages, callCounter, done>>

\* case ASSISTANT: answers what is open, then opens the new calls.
TakeAssistant ==
    /\ AtRole("ASSISTANT")
    /\ LET old   == messages[next].ids
           fresh == [k \in 1 .. Len(old) |-> callCounter + k - 1]
       IN  /\ result' = Append(result \o Placeholders,
                               [role |-> "ASSISTANT", ids |-> fresh, cid |-> <<>>])
           /\ pending' = [k \in 1 .. Len(old) |-> <<old[k], fresh[k]>>]
           /\ callCounter' = callCounter + Len(old)
    /\ next' = next + 1
    /\ UNCHANGED <<messages, done>>

\* Mutant: a USER or SYSTEM message does not close what is open.
TakeOtherNoFlush ==
    /\ \E r \in {"USER", "SYSTEM"} :
          AtRole(r) /\ result' = Append(result, [role |-> r, ids |-> <<>>, cid |-> <<>>])
    /\ next' = next + 1
    /\ UNCHANGED <<messages, pending, callCounter, done>>

\* case USER, SYSTEM: answers what is open.
TakeOther ==
    /\ \E r \in {"USER", "SYSTEM"} :
          /\ AtRole(r)
          /\ result' = Append(result \o Placeholders,
                              [role |-> r, ids |-> <<>>, cid |-> <<>>])
    /\ pending' = <<>>
    /\ next' = next + 1
    /\ UNCHANGED <<messages, callCounter, done>>

\* End of history: answers what is open and returns.
Finish ==
    /\ ~done /\ next > Len(messages)
    /\ result' = result \o Placeholders
    /\ pending' = <<>>
    /\ done' = TRUE
    /\ UNCHANGED <<messages, next, callCounter>>

Next == DropOrphan \/ MatchTool \/ TakeAssistant \/ TakeOther \/ Finish

Spec == Init /\ [][Next]_vars

-----------------------------------------------------------------------------
(* Properties.                                                             *)

\* Type invariant of the repair loop.
TypeOK ==
    /\ messages \in Seq(InMessage)
    /\ next \in 1 .. Len(messages) + 1
    /\ result \in Seq(OutMessage)
    /\ pending \in Seq(CallIds \X Nat)
    /\ callCounter \in Nat
    /\ done \in BOOLEAN

\* Position k of the result holds a response inside the run of responses
\* that directly follows position j.
InRun(j, k) ==
    /\ j < k
    /\ \A m \in j + 1 .. k : result[m].role = "TOOL"

\* (a): every TOOL of the request that is sent answers a call of the ASSISTANT
\* message its run of responses follows, and once the function returns every
\* call has a response in the run that follows it.
ResponsesPaired ==
    /\ \A k \in DOMAIN result :
          result[k].role = "TOOL" =>
              \E j \in DOMAIN result :
                  /\ InRun(j, k)
                  /\ \E n \in DOMAIN result[j].ids :
                        result[k].cid = <<result[j].ids[n]>>
    /\ done =>
          \A j \in DOMAIN result : \A n \in DOMAIN result[j].ids :
              \E k \in DOMAIN result :
                  InRun(j, k) /\ result[k].cid = <<result[j].ids[n]>>

\* (b): no id is used for two calls, and no call is answered twice.
IdsUnique ==
    /\ \A j, k \in DOMAIN result :
          \A m \in DOMAIN result[j].ids, n \in DOMAIN result[k].ids :
              result[j].ids[m] = result[k].ids[n] => j = k /\ m = n
    /\ \A j, k \in DOMAIN result :
          /\ result[j].role = "TOOL"
          /\ result[j].cid = result[k].cid
          => j = k
=============================================================================
