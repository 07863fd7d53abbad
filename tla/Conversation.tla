---------------------------- MODULE Conversation ----------------------------
(***************************************************************************)
(* One LLM conversation of Lace: class llm_client::Conversation            *)
(* (include/LLMUtil/Conversation.h, src/LLMUtil/Conversation.cpp), the     *)
(* base class of every agent.                                              *)
(*                                                                         *)
(* The state is the message history and the control point of send_message. *)
(* prune_history is called from four places; it is a subroutine here: the  *)
(* caller records where to continue in `cont' and nothing else is enabled  *)
(* until the subroutine returns.  The loop of prune_history_by_tokens is   *)
(* one action per iteration, so that its loop invariant can be stated.     *)
(*                                                                         *)
(* A message keeps its role, the ids of the tool calls it carries          *)
(* (ASSISTANT) or answers (TOOL), its pin and its estimated tokens; texts  *)
(* are left out.  The LLM's reply, the result of a tool and the exceptions *)
(* either may raise are nondeterministic.                                  *)
(***************************************************************************)
EXTENDS Integers, Sequences, SequencesExt

CONSTANTS
    Agents,       \* how the agents configure their Conversation
    CallIds,      \* ids the LLM gives to its tool calls (it may repeat one)
    TextCosts,    \* estimated tokens of a user message or a reply
    ToolCosts,    \* estimated tokens of a tool response
    SysCost,      \* estimated tokens of the system prompt
    NoteCost,     \* estimated tokens of a compaction note
    CallBound,    \* bound: tool calls in one reply
    TurnBound,    \* bound: turns with tool calls, for agents without a turn cap
    SendBound     \* bound: calls of send_message between two resets

\* The members an agent sets once, before it sends anything:
\* max_history_messages_, max_tokens_ (0: no token budget), max_turns_ (0: no
\* turn cap), compactor_ installed or not; and whether the agent calls
\* pin_message_at().
Options == [maxHistory : Nat \ {0}, maxTokens : Nat, maxTurns : Nat,
            compacting : BOOLEAN, pinsAnywhere : BOOLEAN]

ASSUME ConversationAssumption ==
    /\ Agents \subseteq Options
    /\ TextCosts \subseteq Nat \ {0} /\ ToolCosts \subseteq Nat \ {0}
    /\ SysCost \in Nat \ {0}
    /\ NoteCost \in Nat \ {0}
    /\ CallBound \in Nat
    /\ TurnBound \in Nat
    /\ SendBound \in Nat

VARIABLES
    opts,         \* the configuration of this Conversation
    history,      \* history_
    pinNext,      \* pin_next_user_
    pc,           \* where send_message is
    cont,         \* where to continue once prune_history returns
    todo,         \* tool calls of the current reply not yet executed
    turn,         \* turn
    i,            \* i of prune_history_by_tokens
    total,        \* total of prune_history_by_tokens
    sends         \* calls of send_message since the last reset (bound)

vars == <<opts, history, pinNext, pc, cont, todo, turn, i, total, sends>>

Role == {"SYSTEM", "USER", "ASSISTANT", "TOOL"}

\* ChatMessage, without its text.
Message == [role   : Role,
            ids    : Seq(CallIds),
            cid    : Seq(CallIds),
            pinned : BOOLEAN,
            cost   : Nat \ {0}]

SystemMessage == [role |-> "SYSTEM", ids |-> <<>>, cid |-> <<>>,
                  pinned |-> FALSE, cost |-> SysCost]

UserMessage(p, c) == [role |-> "USER", ids |-> <<>>, cid |-> <<>>,
                      pinned |-> p, cost |-> c]

AssistantMessage(calls, c) == [role |-> "ASSISTANT", ids |-> calls,
                               cid |-> <<>>, pinned |-> FALSE, cost |-> c]

ToolMessage(id, c) == [role |-> "TOOL", ids |-> <<>>, cid |-> <<id>>,
                       pinned |-> FALSE, cost |-> c]

IsTool(m) == m.role = "TOOL"

\* An ASSISTANT message that carries tool calls.
IsRequest(m) == m.role = "ASSISTANT" /\ m.ids # <<>>

-----------------------------------------------------------------------------
(* Pruning.                                                                *)

\* h without the messages at positions first .. last - 1.
Erase(h, first, last) ==
    [k \in 1 .. Len(h) - (last - first) |->
        IF k < first THEN h[k] ELSE h[k + (last - first)]]

\* The first position from k on that is past the end of h or not a TOOL.
SkipTools(h, k) ==
    CHOOSE e \in k .. Len(h) + 1 :
        /\ \A j \in k .. e - 1 : IsTool(h[j])
        /\ e <= Len(h) => ~IsTool(h[e])

\* As SkipTools, but stopping at a pinned message as well.
SkipLooseTools(h, k) ==
    CHOOSE e \in k .. Len(h) + 1 :
        /\ \A j \in k .. e - 1 : IsTool(h[j]) /\ ~h[j].pinned
        /\ e <= Len(h) => ~(IsTool(h[e]) /\ ~h[e].pinned)

\* Index of the first message that is not the system prompt.
StartIdx(h) == IF h[1].role = "SYSTEM" THEN 2 ELSE 1

\* prune_history_by_count: drop the oldest messages beyond the window, then
\* the TOOL messages that would become the first ones.
PruneByCount(h) ==
    LET start  == StartIdx(h)
        excess == Len(h) - opts.maxHistory
        clamp  == Len(h) - (start - 1)
        drop   == IF excess > clamp THEN clamp ELSE excess
    IN  IF excess <= 0 THEN h ELSE Erase(h, start, SkipTools(h, start + drop))

\* Mutant: a request is dropped without its responses.
SpanEndAlone(h, k) == k + 1

\* End of the round that starts at k: the request with its TOOL responses,
\* or the single message.
SpanEnd(h, k) == IF IsRequest(h[k]) THEN SkipTools(h, k + 1) ELSE k + 1

\* Sum of estimate_tokens over the messages of h.
TotalCost(h) ==
    LET sum[k \in 0 .. Len(h)] == IF k = 0 THEN 0 ELSE sum[k - 1] + h[k].cost
    IN  sum[Len(h)]

Note == UserMessage(FALSE, NoteCost)

\* h with the messages at positions first .. last - 1 replaced by the note.
Compact(h, first, last) ==
    [k \in 1 .. Len(h) - (last - first) + 1 |->
        IF k < first THEN h[k]
        ELSE IF k = first THEN Note
        ELSE h[k + (last - first) - 1]]

\* Every call site pushes first and then calls prune_history().
CallPrune(after) == pc' = "prune" /\ cont' = after

\* prune_history(): the count window, or the entry of the token pruning.
Prune ==
    /\ pc = "prune"
    /\ IF opts.maxTokens = 0
       THEN /\ history' = PruneByCount(history)
            /\ pc' = cont
            /\ UNCHANGED <<i, total>>
       ELSE /\ total' = TotalCost(history)
            /\ i' = StartIdx(history)
            /\ pc' = IF TotalCost(history) <= opts.maxTokens THEN cont ELSE "loop"
            /\ UNCHANGED history
    /\ UNCHANGED <<pinNext, cont, todo, turn, sends>>

\* Mutant: the loop stops at the first pinned message.
LoopEndsAtPin ==
    \/ total <= opts.maxTokens
    \/ i + 1 > Len(history)
    \/ history[i].pinned
    \/ SpanEnd(history, i) > Len(history)

\* Mutant: the round that holds the most recent message is not spared.
LoopEndsLate ==
    \/ total <= opts.maxTokens
    \/ i > Len(history)

\* The loop of prune_history_by_tokens ends: within budget, only the most
\* recent message left, or the round at i would swallow it.
LoopEnds ==
    \/ total <= opts.maxTokens
    \/ i + 1 > Len(history)
    \/ ~history[i].pinned /\ SpanEnd(history, i) > Len(history)

\* One iteration over a pinned message: step over it.
SkipPinned ==
    /\ pc = "loop" /\ ~LoopEnds
    /\ history[i].pinned
    /\ i' = i + 1
    /\ UNCHANGED <<history, pinNext, pc, cont, todo, turn, total, sends>>

\* One iteration over a round that holds a pinned message: step over it.
SkipPinnedSpan ==
    LET e == SpanEnd(history, i)
    IN  /\ pc = "loop" /\ ~LoopEnds
        /\ ~history[i].pinned
        /\ \E k \in i .. e - 1 : history[k].pinned
        /\ i' = e
        /\ UNCHANGED <<history, pinNext, pc, cont, todo, turn, total, sends>>

\* Mutant: only the first message of the round is subtracted.
DropSpanCost ==
    LET e == SpanEnd(history, i)
    IN  /\ pc = "loop" /\ ~LoopEnds
        /\ \A k \in i .. e - 1 : ~history[k].pinned
        /\ IF opts.compacting
           THEN history' = Compact(history, i, e) /\ i' = i + 1
           ELSE history' = Erase(history, i, e) /\ UNCHANGED i
        /\ total' = total - history[i].cost
        /\ UNCHANGED <<pinNext, pc, cont, todo, turn, sends>>

\* Mutant: pins inside the round are not looked for.
DropSpanPinned ==
    LET e    == SpanEnd(history, i)
        cost == TotalCost(SubSeq(history, i, e - 1))
    IN  /\ pc = "loop" /\ ~LoopEnds
        /\ IF opts.compacting
           THEN /\ history' = Compact(history, i, e)
                /\ total' = total - cost + NoteCost
                /\ i' = i + 1
           ELSE /\ history' = Erase(history, i, e)
                /\ total' = total - cost
                /\ UNCHANGED i
        /\ UNCHANGED <<pinNext, pc, cont, todo, turn, sends>>

\* One iteration over a round nothing pins: erase or compact it.
DropSpan ==
    LET e    == SpanEnd(history, i)
        cost == TotalCost(SubSeq(history, i, e - 1))
    IN  /\ pc = "loop" /\ ~LoopEnds
        /\ \A k \in i .. e - 1 : ~history[k].pinned
        /\ IF opts.compacting
           THEN /\ history' = Compact(history, i, e)
                /\ total' = total - cost + NoteCost
                /\ i' = i + 1
           ELSE /\ history' = Erase(history, i, e)
                /\ total' = total - cost
                /\ UNCHANGED i
        /\ UNCHANGED <<pinNext, pc, cont, todo, turn, sends>>

\* Orphan guard at the end of prune_history_by_tokens, and return.
GuardOrphans ==
    LET s == StartIdx(history)
    IN  /\ pc = "loop" /\ LoopEnds
        /\ history' = Erase(history, s, SkipLooseTools(history, s))
        /\ pc' = cont
        /\ UNCHANGED <<pinNext, cont, todo, turn, i, total, sends>>

-----------------------------------------------------------------------------
(* The public operations, and the steps of send_message.                   *)

\* history_ with the system prompt inserted or rewritten at the front.
WithSystem(h) ==
    IF h = <<>> \/ h[1].role # "SYSTEM"
    THEN <<SystemMessage>> \o h
    ELSE [h EXCEPT ![1].cost = SysCost]

Init ==
    /\ opts \in Agents
    /\ history = <<>> /\ pinNext = FALSE
    /\ pc = "idle" /\ cont = "idle"
    /\ todo = <<>> /\ turn = 0
    /\ i = 1 /\ total = 0 /\ sends = 0

\* reset()
Reset ==
    /\ pc = "idle" /\ history # <<>>
    /\ history' = <<>>
    /\ sends' = 0
    /\ UNCHANGED <<pinNext, pc, cont, todo, turn, i, total>>

\* set_system_prompt()
SetSystemPrompt ==
    /\ pc = "idle"
    /\ history' = WithSystem(history)
    /\ CallPrune("idle")
    /\ UNCHANGED <<pinNext, todo, turn, i, total, sends>>

\* pin_next_user_message()
PinNextUserMessage ==
    /\ pc = "idle"
    /\ pinNext' = TRUE
    /\ UNCHANGED <<history, pc, cont, todo, turn, i, total, sends>>

\* pin_message_at()
PinMessageAt ==
    /\ pc = "idle" /\ opts.pinsAnywhere
    /\ \E k \in DOMAIN history :
          history' = [history EXCEPT ![k].pinned = TRUE]
    /\ UNCHANGED <<pinNext, pc, cont, todo, turn, i, total, sends>>

\* send_message() up to its loop
SendMessage ==
    /\ pc = "idle" /\ sends < SendBound
    /\ \E c \in TextCosts :
          history' = Append(WithSystem(history), UserMessage(pinNext, c))
    /\ pinNext' = FALSE
    /\ turn' = 0
    /\ sends' = sends + 1
    /\ todo' = <<>>
    /\ CallPrune("turn")
    /\ UNCHANGED <<i, total>>

\* Top of the loop: the turn cap returns, otherwise the LLM is asked.
TurnCap ==
    /\ pc = "turn"
    /\ opts.maxTurns > 0 /\ turn >= opts.maxTurns
    /\ pc' = "idle"
    /\ UNCHANGED <<history, pinNext, cont, todo, turn, i, total, sends>>

\* Mutant: the turn is not counted.
AskLLMUncounted ==
    /\ pc = "turn"
    /\ ~(opts.maxTurns > 0 /\ turn >= opts.maxTurns)
    /\ pc' = "chat"
    /\ UNCHANGED <<history, pinNext, cont, todo, turn, i, total, sends>>

AskLLM ==
    /\ pc = "turn"
    /\ ~(opts.maxTurns > 0 /\ turn >= opts.maxTurns)
    /\ turn' = turn + 1
    /\ pc' = "chat"
    /\ UNCHANGED <<history, pinNext, cont, todo, i, total, sends>>

\* chat() returns a reply with or without tool calls.
Reply ==
    /\ pc = "chat"
    /\ \E calls \in BoundedSeq(CallIds, CallBound), c \in TextCosts :
          /\ (opts.maxTurns = 0 /\ turn > TurnBound) => calls = <<>>
          /\ history' = Append(history, AssistantMessage(calls, c))
          /\ todo' = calls
          /\ CallPrune(IF calls = <<>> THEN "idle" ELSE "tools")
    /\ UNCHANGED <<pinNext, turn, i, total, sends>>

\* chat() throws: the exception leaves send_message.
ChatThrows ==
    /\ pc = "chat"
    /\ pc' = "idle"
    /\ UNCHANGED <<history, pinNext, cont, todo, turn, i, total, sends>>

\* execute_tool() returns: push the response, prune, stop on "finish".
ExecuteTool ==
    /\ pc = "tools" /\ todo # <<>>
    /\ \E c \in ToolCosts, finish \in BOOLEAN :
          /\ history' = Append(history, ToolMessage(Head(todo), c))
          /\ todo' = IF finish THEN <<>> ELSE Tail(todo)
          /\ CallPrune(IF finish THEN "idle" ELSE "tools")
    /\ UNCHANGED <<pinNext, turn, i, total, sends>>

\* execute_tool() throws: the exception leaves send_message.
ToolThrows ==
    /\ pc = "tools" /\ todo # <<>>
    /\ todo' = <<>>
    /\ pc' = "idle"
    /\ UNCHANGED <<history, pinNext, cont, turn, i, total, sends>>

\* Every call answered: loop back to the LLM.
ToolsDone ==
    /\ pc = "tools" /\ todo = <<>>
    /\ pc' = "turn"
    /\ UNCHANGED <<history, pinNext, cont, todo, turn, i, total, sends>>

\* What an agent's code does with its Conversation between two calls.
Agent ==
    \/ Reset \/ SetSystemPrompt
    \/ PinNextUserMessage \/ PinMessageAt \/ SendMessage

PruneStep == Prune \/ SkipPinned \/ SkipPinnedSpan \/ DropSpan \/ GuardOrphans

\* What runs inside a call.
Inside ==
    \/ PruneStep
    \/ TurnCap \/ AskLLM \/ Reply \/ ChatThrows
    \/ ExecuteTool \/ ToolThrows \/ ToolsDone

Next == (Agent \/ Inside) /\ UNCHANGED opts

Spec == Init /\ [][Next]_vars

\* A call that can take a step takes it: the thread that made the call runs.
FairSpec == Spec /\ WF_vars(Inside /\ UNCHANGED opts)

-----------------------------------------------------------------------------
(* Properties.                                                             *)

PCs == {"idle", "prune", "loop", "turn", "chat", "tools"}

\* Type invariant of the conversation's state.
TypeOK ==
    /\ opts \in Agents
    /\ history \in Seq(Message)
    /\ pinNext \in BOOLEAN
    /\ pc \in PCs
    /\ cont \in {"idle", "turn", "tools"}
    /\ todo \in Seq(CallIds)
    /\ turn \in Nat
    /\ i \in Nat \ {0}
    /\ total \in Int
    /\ sends \in Nat

\* A TOOL message directly follows the request it answers or another
\* response: what the orphan guards of both pruning modes are there for.
NoOrphanTool ==
    \A k \in DOMAIN history :
        IsTool(history[k]) =>
            k > 1 /\ (IsTool(history[k-1]) \/ IsRequest(history[k-1]))

\* Token budget: the `total' that the pruning loop maintains by subtraction
\* (a size_t) is the cost of the messages that are left, so it cannot wrap.
TotalExact == pc = "loop" => total = TotalCost(history)

\* Token budget: a request to the LLM is within budget, or everything but
\* the system prompt and the most recent round is pinned, a compaction note
\* or part of a round that holds a pinned message.
BudgetMet ==
    (pc = "chat" /\ opts.maxTokens > 0 /\ TotalCost(history) > opts.maxTokens) =>
        \A k \in 2 .. Len(history) :
            \/ history[k].pinned
            \/ history[k] = Note
            \/ \A j \in k + 1 .. Len(history) : IsTool(history[j])
            \/ /\ IsTool(history[k]) \/ IsRequest(history[k])
               /\ \E j \in 2 .. Len(history) :
                     /\ history[j].pinned
                     /\ \A n \in (k .. j) \cup (j .. k) :
                           IsTool(history[n]) \/ IsRequest(history[n])

\* Token budget: no step but reset() loses a pinned message.
PinnedKept ==
    [][(opts.maxTokens > 0 /\ history' # <<>>) =>
         \A k \in DOMAIN history :
            history[k].pinned =>
                \E j \in DOMAIN history' : j <= k /\ history'[j] = history[k]]_vars

\* Token budget: pruning never drops the most recent message, the one the
\* next request to the LLM is about.
LatestKept ==
    [][(opts.maxTokens > 0 /\ PruneStep) =>
          history'[Len(history')] = history[Len(history)]]_vars

\* With a turn cap every call of send_message or set_system_prompt returns,
\* however long the LLM keeps asking for tools.
CallReturns == (pc # "idle" /\ opts.maxTurns > 0) ~> (pc = "idle")
=============================================================================
