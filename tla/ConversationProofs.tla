-------------------------- MODULE ConversationProofs --------------------------
(***************************************************************************)
(* Proofs about Conversation, for every configuration, any ids and any     *)
(* costs: the type of the state; with a token budget, that pruning leaves  *)
(* no tool response without its request, loses no pinned message, keeps    *)
(* the latest one, knows its total and meets the budget where it can; in   *)
(* count mode, that a window larger than any round leaves none either; and *)
(* that a call of send_message with a turn cap is finite.                  *)
(***************************************************************************)
EXTENDS Conversation, SequenceTheorems, WellFoundedInduction, TLAPS

InRound(m) == IsTool(m) \/ IsRequest(m)

(* The system prompt comes first and no response follows it. *)
Formed(h) ==
  /\ h \in Seq(Message)
  /\ h # <<>> => h[1].role = "SYSTEM" /\ h[1].cost = SysCost
  /\ Len(h) >= 2 => ~IsTool(h[2])

(* NoOrphanTool of any history *)
Unbroken(h) ==
  \A k \in DOMAIN h : IsTool(h[k]) => k > 1 /\ InRound(h[k-1])

UserPins(h) == \A k \in DOMAIN h : h[k].pinned => h[k].role = "USER"

(* A compactor that meets a round with pinned messages may put its note    *)
(* between a request and its responses; no agent has both.                 *)
Separate == opts.compacting => ~opts.pinsAnywhere

TypesOK ==
  /\ opts \in Agents /\ pinNext \in BOOLEAN
  /\ pc \in PCs /\ cont \in {"idle", "turn", "tools"}
  /\ todo \in Seq(CallIds) /\ i \in Nat

(* While calls are answered the history ends inside their round. *)
OpenRound ==
  pc = "tools" \/ (pc \in {"prune", "loop"} /\ cont = "tools") =>
    InRound(history[Len(history)])

(* The loop is at a message or past the last one ... *)
AtMessage == pc = "loop" => i \in 2 .. Len(history) + 1

(* ... and a compactor's loop is at no response. *)
CleanCut ==
  pc = "loop" /\ opts.compacting /\ i <= Len(history) => ~IsTool(history[i])

BudgetInv ==
  /\ TypesOK
  /\ Formed(history)
  /\ pc # "idle" => history # <<>>
  /\ OpenRound /\ AtMessage
  /\ ~opts.pinsAnywhere => UserPins(history)
  /\ Separate => Unbroken(history) /\ CleanCut

Budgeted == opts.maxTokens > 0

ConvInv == Budgeted => BudgetInv

----------------------------------------------------------------------------
(* Operators of the module.                                                *)

LEMMA Smallest ==
  ASSUME NEW T, T \subseteq Nat, T # {}
  PROVE  \E x \in T : \A y \in T : x <= y
<1>1. IsWellFoundedOn(OpToRel(<, Nat), Nat)
  BY NatLessThanWellFounded
<1>2. PICK x \in T : \A y \in T : ~ (<<y, x>> \in OpToRel(<, Nat))
  BY <1>1, WFMin
<1>3. \A y \in T : ~(y < x)
  BY <1>2 DEF OpToRel
<1> QED BY <1>3

(* SkipTools stops at the first message that is no response. *)
LEMMA SkipToolsEffect ==
  ASSUME NEW h \in Seq(Message), NEW k \in 1 .. Len(h) + 1
  PROVE  /\ SkipTools(h, k) \in k .. Len(h) + 1
         /\ \A j \in k .. SkipTools(h, k) - 1 : IsTool(h[j])
         /\ SkipTools(h, k) <= Len(h) => ~IsTool(h[SkipTools(h, k)])
<1> DEFINE T == {n \in k .. Len(h) + 1 : n <= Len(h) => ~IsTool(h[n])}
<1>1. Len(h) \in Nat /\ k \in Nat
  OBVIOUS
<1>2. T \subseteq Nat /\ Len(h) + 1 \in T
  BY <1>1
<1>3. PICK e \in T : \A y \in T : e <= y
  BY <1>2, Smallest
<1>4. \A j \in k .. e - 1 : IsTool(h[j])
  <2> SUFFICES ASSUME NEW j \in k .. e - 1, ~IsTool(h[j]) PROVE FALSE
    OBVIOUS
  <2>1. j \in T
    BY <1>1
  <2> QED BY <1>1, <1>3, <2>1
<1>5. \E n \in k .. Len(h) + 1 : /\ \A j \in k .. n - 1 : IsTool(h[j])
                                 /\ n <= Len(h) => ~IsTool(h[n])
  BY <1>3, <1>4
<1> QED BY <1>5 DEF SkipTools

(* A round is not empty, and only its first message may be no response. *)
LEMMA SpanEndEffect ==
  ASSUME NEW h \in Seq(Message), NEW k \in 1 .. Len(h)
  PROVE  /\ SpanEnd(h, k) \in k + 1 .. Len(h) + 1
         /\ \A j \in k + 1 .. SpanEnd(h, k) - 1 : IsTool(h[j])
         /\ ~IsRequest(h[k]) => SpanEnd(h, k) = k + 1
         /\ IsRequest(h[k]) /\ SpanEnd(h, k) <= Len(h) => ~IsTool(h[SpanEnd(h, k)])
<1>1. Len(h) \in Nat /\ k \in Nat /\ k + 1 \in 1 .. Len(h) + 1
  OBVIOUS
<1>2. CASE IsRequest(h[k])
  BY <1>1, <1>2, SkipToolsEffect DEF SpanEnd
<1>3. CASE ~IsRequest(h[k])
  BY <1>1, <1>3 DEF SpanEnd
<1> QED BY <1>2, <1>3

LEMMA EraseEffect ==
  ASSUME NEW h \in Seq(Message), NEW first \in 1 .. Len(h) + 1,
         NEW last \in first .. Len(h) + 1
  PROVE  /\ Erase(h, first, last) \in Seq(Message)
         /\ Len(Erase(h, first, last)) = Len(h) - (last - first)
         /\ \A k \in 1 .. Len(h) - (last - first) :
              Erase(h, first, last)[k] = IF k < first THEN h[k] ELSE h[k + (last - first)]
<1> DEFINE n == Len(h) - (last - first)
           g == [k \in 1 .. n |-> IF k < first THEN h[k] ELSE h[k + (last - first)]]
<1>1. Len(h) \in Nat /\ first \in Nat /\ last \in Nat /\ n \in Nat
  OBVIOUS
<1>2. ASSUME NEW k \in 1 .. n
      PROVE  (IF k < first THEN h[k] ELSE h[k + (last - first)]) \in Message
  <2>1. CASE k < first
    BY <2>1, <1>1
  <2>2. CASE ~(k < first)
    <3>1. k + (last - first) \in 1 .. Len(h)
      BY <2>2, <1>1
    <3> QED BY <2>2, <3>1
  <2> QED BY <2>1, <2>2
<1>3. Erase(h, first, last) = g
  BY DEF Erase
<1> HIDE DEF n
<1>4. g \in Seq(Message) /\ Len(g) = n /\ \A k \in 1 .. n :
        g[k] = IF k < first THEN h[k] ELSE h[k + (last - first)]
  BY <1>1, <1>2
<1> QED BY <1>3, <1>4 DEF n

LEMMA NoteType == Note \in Message /\ ~Note.pinned /\ ~IsTool(Note) /\ Note.role = "USER"
BY ConversationAssumption, EmptySeq
   DEF Note, UserMessage, Message, Role, IsTool

LEMMA CompactEffect ==
  ASSUME NEW h \in Seq(Message), NEW first \in 1 .. Len(h),
         NEW last \in first + 1 .. Len(h) + 1
  PROVE  /\ Compact(h, first, last) \in Seq(Message)
         /\ Len(Compact(h, first, last)) = Len(h) - (last - first) + 1
         /\ \A k \in 1 .. Len(h) - (last - first) + 1 :
              Compact(h, first, last)[k] =
                IF k < first THEN h[k]
                ELSE IF k = first THEN Note
                ELSE h[k + (last - first) - 1]
<1> DEFINE n == Len(h) - (last - first) + 1
           F(k) == IF k < first THEN h[k]
                   ELSE IF k = first THEN Note
                   ELSE h[k + (last - first) - 1]
           g == [k \in 1 .. n |-> F(k)]
<1>1. Len(h) \in Nat /\ first \in Nat /\ last \in Nat /\ n \in Nat
  OBVIOUS
<1>2. ASSUME NEW k \in 1 .. n PROVE F(k) \in Message
  <2>1. CASE k < first
    BY <2>1, <1>1
  <2>2. CASE k = first
    BY <2>2, NoteType
  <2>3. CASE k > first
    <3>1. k + (last - first) - 1 \in 1 .. Len(h) /\ ~(k < first) /\ k # first
      BY <2>3, <1>1
    <3> QED BY <3>1
  <2> QED BY <2>1, <2>2, <2>3, <1>1
<1>3. Compact(h, first, last) = g
  BY DEF Compact
<1> HIDE DEF n, F
<1>4. g \in Seq(Message) /\ Len(g) = n /\ \A k \in 1 .. n : g[k] = F(k)
  BY <1>1, <1>2
<1> QED BY <1>3, <1>4 DEF n, F

LEMMA MessageTypes ==
  /\ SystemMessage \in Message /\ ~IsTool(SystemMessage) /\ ~SystemMessage.pinned
  /\ \A p \in BOOLEAN, c \in TextCosts :
       /\ UserMessage(p, c) \in Message /\ ~IsTool(UserMessage(p, c))
       /\ UserMessage(p, c).role = "USER"
  /\ \A calls \in Seq(CallIds), c \in TextCosts :
       /\ AssistantMessage(calls, c) \in Message /\ ~IsTool(AssistantMessage(calls, c))
       /\ ~AssistantMessage(calls, c).pinned
       /\ calls # <<>> => IsRequest(AssistantMessage(calls, c))
  /\ \A id \in CallIds, c \in ToolCosts :
       /\ ToolMessage(id, c) \in Message /\ IsTool(ToolMessage(id, c))
       /\ ~ToolMessage(id, c).pinned
<1>1. /\ SysCost \in Nat \ {0}
      /\ \A c \in TextCosts \cup ToolCosts : c \in Nat \ {0}
      /\ <<>> \in Seq(CallIds)
      /\ \A id \in CallIds : <<id>> \in Seq(CallIds)
  BY ConversationAssumption, EmptySeq
<1>2. SystemMessage \in Message /\ ~IsTool(SystemMessage) /\ ~SystemMessage.pinned
  BY <1>1 DEF SystemMessage, Message, Role, IsTool
<1>3. ASSUME NEW p \in BOOLEAN, NEW c \in TextCosts
      PROVE  /\ UserMessage(p, c) \in Message /\ ~IsTool(UserMessage(p, c))
             /\ UserMessage(p, c).role = "USER"
  BY <1>1 DEF UserMessage, Message, Role, IsTool
<1>4. ASSUME NEW calls \in Seq(CallIds), NEW c \in TextCosts
      PROVE  /\ AssistantMessage(calls, c) \in Message
             /\ ~IsTool(AssistantMessage(calls, c))
             /\ ~AssistantMessage(calls, c).pinned
             /\ calls # <<>> => IsRequest(AssistantMessage(calls, c))
  BY <1>1 DEF AssistantMessage, Message, Role, IsTool, IsRequest
<1>5. ASSUME NEW id \in CallIds, NEW c \in ToolCosts
      PROVE  /\ ToolMessage(id, c) \in Message /\ IsTool(ToolMessage(id, c))
             /\ ~ToolMessage(id, c).pinned
  BY <1>1 DEF ToolMessage, Message, Role, IsTool
<1> QED BY <1>2, <1>3, <1>4, <1>5

(* A message that is a response only inside a round keeps the form. *)
LEMMA AppendKeeps ==
  ASSUME NEW h, Formed(h), h # <<>>, NEW m \in Message,
         IsTool(m) => InRound(h[Len(h)])
  PROVE  /\ Formed(Append(h, m))
         /\ Append(h, m) # <<>>
         /\ Append(h, m)[Len(Append(h, m))] = m
         /\ Unbroken(h) => Unbroken(Append(h, m))
         /\ UserPins(h) /\ (m.pinned => m.role = "USER") => UserPins(Append(h, m))
         /\ \A k \in DOMAIN h : k \in DOMAIN Append(h, m) /\ Append(h, m)[k] = h[k]
<1> DEFINE g == Append(h, m)
<1>1. /\ h \in Seq(Message) /\ Len(h) \in Nat /\ Len(h) >= 1 /\ DOMAIN h = 1 .. Len(h)
      /\ h[1].role = "SYSTEM" /\ h[1].cost = SysCost
      /\ Len(h) >= 2 => ~IsTool(h[2])
  BY EmptySeq DEF Formed
<1>2. /\ g \in Seq(Message) /\ Len(g) = Len(h) + 1 /\ DOMAIN g = 1 .. Len(h) + 1
      /\ g[Len(h) + 1] = m
      /\ \A k \in 1 .. Len(h) : g[k] = h[k]
  BY <1>1
<1> HIDE DEF g
<1>3. ~InRound(h[1])
  BY <1>1 DEF InRound, IsTool, IsRequest
<1>4. g[1] = h[1]
  BY <1>1, <1>2
<1>5. Len(g) >= 2 => ~IsTool(g[2])
  <2>1. CASE Len(h) = 1
    BY <2>1, <1>2, <1>3
  <2>2. CASE Len(h) >= 2
    BY <2>2, <1>1, <1>2
  <2> QED BY <2>1, <2>2, <1>1
<1>6. Formed(g)
  BY <1>1, <1>2, <1>4, <1>5 DEF Formed
<1>7. ASSUME Unbroken(h) PROVE Unbroken(g)
  <2> SUFFICES ASSUME NEW k \in DOMAIN g, IsTool(g[k]) PROVE k > 1 /\ InRound(g[k-1])
    BY DEF Unbroken
  <2>1. CASE k \in 1 .. Len(h)
    <3>1. k > 1 /\ InRound(h[k-1]) /\ k - 1 \in 1 .. Len(h)
      BY <2>1, <1>1, <1>2, <1>7 DEF Unbroken
    <3> QED BY <3>1, <1>2
  <2>2. CASE k = Len(h) + 1
    BY <2>2, <1>1, <1>2
  <2> QED BY <2>1, <2>2, <1>1, <1>2
<1>8. ASSUME UserPins(h), m.pinned => m.role = "USER" PROVE UserPins(g)
  BY <1>1, <1>2, <1>8 DEF UserPins
<1> QED BY <1>1, <1>2, <1>6, <1>7, <1>8 DEF g

(* The system prompt is written once: a second time it changes nothing. *)
LEMMA WithSystemKeeps ==
  ASSUME NEW h, Formed(h)
  PROVE  /\ Formed(WithSystem(h)) /\ WithSystem(h) # <<>>
         /\ h # <<>> => WithSystem(h) = h
         /\ Unbroken(h) => Unbroken(WithSystem(h))
         /\ UserPins(h) => UserPins(WithSystem(h))
<1>1. CASE h = <<>>
  <2>1. WithSystem(h) = <<SystemMessage>>
    BY <1>1 DEF WithSystem
  <2>2. /\ <<SystemMessage>> \in Seq(Message) /\ Len(<<SystemMessage>>) = 1
        /\ <<SystemMessage>>[1] = SystemMessage /\ DOMAIN <<SystemMessage>> = {1}
        /\ <<SystemMessage>> # <<>>
    BY MessageTypes
  <2>3. SystemMessage.role = "SYSTEM" /\ SystemMessage.cost = SysCost
    BY DEF SystemMessage
  <2>4. ~IsTool(SystemMessage) /\ ~SystemMessage.pinned
    BY MessageTypes
  <2> DEFINE g == <<SystemMessage>>
  <2> HIDE DEF g
  <2>5. /\ g \in Seq(Message) /\ Len(g) = 1 /\ g[1] = SystemMessage
        /\ DOMAIN g = {1} /\ g # <<>>
    BY <2>2 DEF g
  <2>6. Formed(g)
    BY <2>3, <2>5 DEF Formed
  <2>7. Unbroken(g) /\ UserPins(g)
    BY <2>4, <2>5 DEF Unbroken, UserPins
  <2> QED BY <1>1, <2>1, <2>5, <2>6, <2>7 DEF g
<1>2. CASE h # <<>>
  <2>1. /\ h \in Seq(Message) /\ 1 \in DOMAIN h /\ h[1] \in Message
        /\ h[1].role = "SYSTEM" /\ h[1].cost = SysCost
    BY <1>2, EmptySeq DEF Formed
  <2>2. [h[1] EXCEPT !.cost = SysCost] = h[1]
    BY <2>1 DEF Message
  <2>3. WithSystem(h) = [h EXCEPT ![1] = [h[1] EXCEPT !.cost = SysCost]]
    BY <1>2, <2>1 DEF WithSystem
  <2>4. WithSystem(h) = h
    BY <2>1, <2>2, <2>3
  <2> QED BY <1>2, <2>4
<1> QED BY <1>1, <1>2

(* A pin changes no role, no calls and no cost.                            *)
LEMMA PinKeeps ==
  ASSUME Formed(history), PinMessageAt
  PROVE  /\ Formed(history')
         /\ Unbroken(history) => Unbroken(history')
<1>1. PICK k \in DOMAIN history : history' = [history EXCEPT ![k].pinned = TRUE]
  BY DEF PinMessageAt
<1>2. history \in Seq(Message) /\ history[k] \in Message
  BY DEF Formed
<1> DEFINE m == [history[k] EXCEPT !.pinned = TRUE]
<1>3. /\ m \in Message /\ m.role = history[k].role /\ m.ids = history[k].ids
      /\ m.cost = history[k].cost
  BY <1>2 DEF Message
<1>4. history' = [history EXCEPT ![k] = m]
  BY <1>1
<1> HIDE DEF m
<1>5. /\ history' \in Seq(Message) /\ Len(history') = Len(history)
      /\ DOMAIN history' = DOMAIN history
      /\ \A n \in DOMAIN history : history'[n] = IF n = k THEN m ELSE history[n]
  BY <1>2, <1>3, <1>4
<1>6. \A n \in DOMAIN history : /\ history'[n].role = history[n].role
                                /\ history'[n].ids = history[n].ids
                                /\ history'[n].cost = history[n].cost
  BY <1>3, <1>5
<1>7. \A n \in DOMAIN history : /\ IsTool(history'[n]) <=> IsTool(history[n])
                                /\ IsRequest(history'[n]) <=> IsRequest(history[n])
  BY <1>6 DEF IsTool, IsRequest
<1>8. 1 \in DOMAIN history /\ (Len(history) >= 2 => 2 \in DOMAIN history)
  BY <1>2
<1>9. Formed(history')
  BY <1>5, <1>6, <1>7, <1>8 DEF Formed
<1>10. ASSUME Unbroken(history) PROVE Unbroken(history')
  <2> SUFFICES ASSUME NEW n \in DOMAIN history', IsTool(history'[n])
               PROVE  n > 1 /\ InRound(history'[n-1])
    BY DEF Unbroken
  <2>1. n > 1 /\ InRound(history[n-1])
    BY <1>5, <1>7, <1>10 DEF Unbroken
  <2>2. n - 1 \in DOMAIN history
    BY <1>2, <1>5, <2>1
  <2> QED BY <1>7, <2>1, <2>2 DEF InRound
<1> QED BY <1>9, <1>10

----------------------------------------------------------------------------
LEMMA QuietKeeps ==
  ASSUME BudgetInv, opts' = opts, history' = history, TypesOK',
         pc' # "idle" => history # <<>>, OpenRound', AtMessage', CleanCut'
  PROVE  BudgetInv'
BY DEF BudgetInv, Separate

LEMMA AgentKeeps == ASSUME BudgetInv, opts' = opts, Agent PROVE BudgetInv'
<1>1. TypesOK /\ Formed(history)
  BY DEF BudgetInv
<1>2. CASE Reset
  <2>1. /\ history' = <<>> /\ pc' = "idle" /\ TypesOK'
    BY <1>1, <1>2 DEF Reset, TypesOK
  <2>2. Formed(history')
    BY <2>1, EmptySeq DEF Formed
  <2>3. Unbroken(history') /\ UserPins(history')
    BY <2>1 DEF Unbroken, UserPins
  <2> QED BY <2>1, <2>2, <2>3 DEF BudgetInv, OpenRound, AtMessage, CleanCut
<1>3. CASE SetSystemPrompt
  <2>1. /\ history' = WithSystem(history) /\ pc' = "prune" /\ cont' = "idle" /\ TypesOK'
    BY <1>1, <1>3 DEF SetSystemPrompt, CallPrune, TypesOK, PCs
  <2>2. /\ Formed(history') /\ history' # <<>>
        /\ Unbroken(history) => Unbroken(history')
        /\ UserPins(history) => UserPins(history')
    BY <1>1, <2>1, WithSystemKeeps
  <2> QED BY <2>1, <2>2 DEF BudgetInv, OpenRound, AtMessage, CleanCut, Separate
<1>4. CASE PinNextUserMessage
  <2>1. TypesOK'
    BY <1>1, <1>4 DEF PinNextUserMessage, TypesOK
  <2> QED BY <1>4, <2>1 DEF PinNextUserMessage, BudgetInv, OpenRound, AtMessage, CleanCut,
             Separate
<1>5. CASE PinMessageAt
  <2>1. /\ pc' = "idle" /\ opts.pinsAnywhere /\ TypesOK'
    BY <1>1, <1>5 DEF PinMessageAt, TypesOK
  <2>2. Formed(history') /\ (Unbroken(history) => Unbroken(history'))
    BY <1>1, <1>5, PinKeeps
  <2> QED BY <2>1, <2>2 DEF BudgetInv, OpenRound, AtMessage, CleanCut, Separate
<1>6. CASE SendMessage
  <2>1. /\ pc' = "prune" /\ cont' = "turn" /\ TypesOK'
    BY <1>1, <1>6, EmptySeq DEF SendMessage, CallPrune, TypesOK, PCs
  <2>2. PICK c \in TextCosts :
          history' = Append(WithSystem(history), UserMessage(pinNext, c))
    BY <1>6 DEF SendMessage
  <2> DEFINE h == WithSystem(history)
             m == UserMessage(pinNext, c)
  <2>3. m \in Message /\ ~IsTool(m) /\ m.role = "USER"
    BY <1>1, MessageTypes DEF TypesOK
  <2>4. /\ Formed(h) /\ h # <<>>
        /\ Unbroken(history) => Unbroken(h)
        /\ UserPins(history) => UserPins(h)
    BY <1>1, WithSystemKeeps
  <2>5. history' = Append(h, m)
    BY <2>2
  <2> HIDE DEF h, m
  <2>6. /\ Formed(history') /\ history' # <<>>
        /\ Unbroken(h) => Unbroken(history')
        /\ UserPins(h) => UserPins(history')
    BY <2>3, <2>4, <2>5, AppendKeeps
  <2> QED BY <2>1, <2>4, <2>6 DEF BudgetInv, OpenRound, AtMessage, CleanCut, Separate
<1> QED BY <1>2, <1>3, <1>4, <1>5, <1>6 DEF Agent

(* The steps of send_message between two prunings *)
Talk == TurnCap \/ AskLLM \/ Reply \/ ChatThrows \/ ExecuteTool \/ ToolThrows \/ ToolsDone

LEMMA TalkKeeps == ASSUME BudgetInv, opts' = opts, Talk PROVE BudgetInv'
<1>1. TypesOK /\ Formed(history)
  BY DEF BudgetInv
<1>2. CASE TurnCap \/ AskLLM \/ ChatThrows
  <2>1. /\ history' = history /\ pc' \in {"idle", "chat"} /\ TypesOK' /\ pc # "idle"
    BY <1>1, <1>2 DEF TurnCap, AskLLM, ChatThrows, TypesOK, PCs
  <2> QED BY <2>1, QuietKeeps DEF BudgetInv, OpenRound, AtMessage, CleanCut
<1>3. CASE ToolThrows \/ ToolsDone
  <2>1. /\ history' = history /\ pc' \in {"idle", "turn"} /\ TypesOK' /\ pc # "idle"
    BY <1>1, <1>3, EmptySeq DEF ToolThrows, ToolsDone, TypesOK, PCs
  <2> QED BY <2>1, QuietKeeps DEF BudgetInv, OpenRound, AtMessage, CleanCut
<1>4. CASE Reply
  <2>0. PICK calls \in BoundedSeq(CallIds, CallBound), c \in TextCosts :
          /\ history' = Append(history, AssistantMessage(calls, c))
          /\ todo' = calls
          /\ CallPrune(IF calls = <<>> THEN "idle" ELSE "tools")
    BY <1>4 DEF Reply
  <2>1. calls \in Seq(CallIds)
    <3>1. PICK n \in 0 .. CallBound : calls \in [1 .. n -> CallIds]
      BY DEF BoundedSeq, SeqOf
    <3> QED BY <3>1, ConversationAssumption
  <2> DEFINE m == AssistantMessage(calls, c)
  <2>2. /\ pc' = "prune" /\ cont' = IF calls = <<>> THEN "idle" ELSE "tools"
        /\ TypesOK' /\ history # <<>>
    BY <1>1, <1>4, <2>0, <2>1 DEF Reply, CallPrune, TypesOK, PCs, BudgetInv
  <2>3. m \in Message /\ ~IsTool(m) /\ ~m.pinned /\ (calls # <<>> => IsRequest(m))
    BY <2>1, MessageTypes
  <2>4. history' = Append(history, m)
    BY <2>0
  <2> HIDE DEF m
  <2>5. /\ Formed(history') /\ history' # <<>> /\ history'[Len(history')] = m
        /\ Unbroken(history) => Unbroken(history')
        /\ UserPins(history) => UserPins(history')
    BY <1>1, <2>2, <2>3, <2>4, AppendKeeps
  <2>6. OpenRound'
    BY <2>2, <2>3, <2>5 DEF OpenRound, InRound
  <2> QED BY <2>2, <2>5, <2>6 DEF BudgetInv, AtMessage, CleanCut, Separate
<1>5. CASE ExecuteTool
  <2>0. PICK c \in ToolCosts, finish \in BOOLEAN :
          /\ history' = Append(history, ToolMessage(Head(todo), c))
          /\ todo' = IF finish THEN <<>> ELSE Tail(todo)
          /\ CallPrune(IF finish THEN "idle" ELSE "tools")
    BY <1>5 DEF ExecuteTool
  <2>1. /\ pc = "tools" /\ Head(todo) \in CallIds
        /\ Tail(todo) \in Seq(CallIds) /\ <<>> \in Seq(CallIds)
    BY <1>1, <1>5, HeadTailProperties, EmptySeq DEF ExecuteTool, TypesOK
  <2>a. PICK id \in CallIds : id = Head(todo)
    BY <2>1
  <2> DEFINE m == ToolMessage(id, c)
  <2>2. /\ pc' = "prune" /\ cont' \in {"idle", "tools"}
        /\ todo' \in Seq(CallIds)
    BY <2>0, <2>1 DEF CallPrune
  <2>3. TypesOK' /\ history # <<>>
    BY <1>1, <1>5, <2>1, <2>2 DEF ExecuteTool, TypesOK, PCs, BudgetInv
  <2>4. m \in Message /\ IsTool(m) /\ ~m.pinned
    <3>1. /\ ToolMessage(id, c) \in Message /\ IsTool(ToolMessage(id, c))
          /\ ~ToolMessage(id, c).pinned
      BY MessageTypes
    <3> QED BY <3>1
  <2>5. InRound(history[Len(history)])
    <3>1. OpenRound
      BY DEF BudgetInv
    <3> QED BY <2>1, <3>1 DEF OpenRound
  <2>6. history' = Append(history, m)
    BY <2>0, <2>a
  <2> HIDE DEF m
  <2>7. /\ Formed(history') /\ history' # <<>> /\ history'[Len(history')] = m
        /\ Unbroken(history) => Unbroken(history')
        /\ UserPins(history) => UserPins(history')
    BY <1>1, <2>3, <2>4, <2>5, <2>6, AppendKeeps
  <2>8. OpenRound'
    BY <2>2, <2>4, <2>7 DEF OpenRound, InRound
  <2> QED BY <2>2, <2>3, <2>7, <2>8 DEF BudgetInv, AtMessage, CleanCut, Separate
<1> QED BY <1>2, <1>3, <1>4, <1>5 DEF Talk

----------------------------------------------------------------------------
(* What the loop leaves a round as: the rounds before and after it meet.   *)
LEMMA LoopFacts ==
  ASSUME BudgetInv, pc = "loop", ~LoopEnds
  PROVE  /\ history \in Seq(Message) /\ Len(history) \in Nat
         /\ DOMAIN history = 1 .. Len(history)
         /\ i \in 2 .. Len(history) - 1
         /\ ~history[i].pinned =>
              /\ SpanEnd(history, i) \in i + 1 .. Len(history)
              /\ \A j \in i + 1 .. SpanEnd(history, i) - 1 : IsTool(history[j])
              /\ ~IsRequest(history[i]) => SpanEnd(history, i) = i + 1
              /\ IsRequest(history[i]) => ~IsTool(history[SpanEnd(history, i)])
<1>1. /\ history \in Seq(Message) /\ Len(history) \in Nat
      /\ DOMAIN history = 1 .. Len(history) /\ i \in 2 .. Len(history) + 1
  BY DEF BudgetInv, Formed, AtMessage
<1>2. /\ i \in 2 .. Len(history) - 1
      /\ ~history[i].pinned => ~(SpanEnd(history, i) > Len(history))
  BY <1>1 DEF LoopEnds
<1>3. i \in 1 .. Len(history)
  BY <1>1, <1>2
<1>4. /\ SpanEnd(history, i) \in i + 1 .. Len(history) + 1
      /\ \A j \in i + 1 .. SpanEnd(history, i) - 1 : IsTool(history[j])
      /\ ~IsRequest(history[i]) => SpanEnd(history, i) = i + 1
      /\ IsRequest(history[i]) /\ SpanEnd(history, i) <= Len(history) =>
           ~IsTool(history[SpanEnd(history, i)])
  BY <1>1, <1>3, SpanEndEffect
<1>5. ASSUME ~history[i].pinned PROVE SpanEnd(history, i) \in i + 1 .. Len(history)
  BY <1>1, <1>2, <1>4, <1>5
<1> QED BY <1>1, <1>2, <1>4, <1>5

(* In an unbroken history what follows a message that requests nothing and *)
(* answers nothing is no response.                                         *)
LEMMA AfterRound ==
  ASSUME NEW h \in Seq(Message), Unbroken(h), NEW k \in 1 .. Len(h) - 1,
         ~InRound(h[k])
  PROVE  ~IsTool(h[k + 1])
<1>1. k + 1 \in DOMAIN h /\ (k + 1) - 1 = k
  OBVIOUS
<1> QED BY <1>1 DEF Unbroken

(* The guard finds nothing to remove. *)
LEMMA GuardIdle ==
  ASSUME NEW h, Formed(h), h # <<>>
  PROVE  Erase(h, StartIdx(h), SkipLooseTools(h, StartIdx(h))) = h
<1>1. /\ h \in Seq(Message) /\ Len(h) \in Nat /\ Len(h) >= 1 /\ h[1].role = "SYSTEM"
      /\ Len(h) >= 2 => ~IsTool(h[2])
  BY EmptySeq DEF Formed
<1>2. StartIdx(h) = 2
  BY <1>1 DEF StartIdx
<1> DEFINE P(e) == /\ \A j \in 2 .. e - 1 : IsTool(h[j]) /\ ~h[j].pinned
                   /\ e <= Len(h) => ~(IsTool(h[e]) /\ ~h[e].pinned)
<1>3. 2 \in 2 .. Len(h) + 1 /\ P(2)
  BY <1>1
<1>4. SkipLooseTools(h, 2) = CHOOSE e \in 2 .. Len(h) + 1 : P(e)
  BY DEF SkipLooseTools
<1>5. SkipLooseTools(h, 2) \in 2 .. Len(h) + 1 /\ P(SkipLooseTools(h, 2))
  BY <1>3, <1>4
<1>6. SkipLooseTools(h, 2) = 2
  <2> SUFFICES ASSUME SkipLooseTools(h, 2) > 2 PROVE FALSE
    BY <1>5
  <2>1. 2 \in 2 .. SkipLooseTools(h, 2) - 1 /\ Len(h) >= 2
    BY <1>1, <1>5
  <2> QED BY <1>1, <1>5, <2>1
<1>7. /\ Erase(h, 2, 2) \in Seq(Message) /\ Len(Erase(h, 2, 2)) = Len(h)
      /\ \A k \in 1 .. Len(h) : Erase(h, 2, 2)[k] = h[k]
  <2>1. 2 \in 1 .. Len(h) + 1 /\ 2 \in 2 .. Len(h) + 1 /\ 2 - 2 = 0
    BY <1>1
  <2>2. /\ Erase(h, 2, 2) \in Seq(Message) /\ Len(Erase(h, 2, 2)) = Len(h) - (2 - 2)
        /\ \A k \in 1 .. Len(h) - (2 - 2) :
             Erase(h, 2, 2)[k] = IF k < 2 THEN h[k] ELSE h[k + (2 - 2)]
    BY <1>1, <2>1, EraseEffect
  <2> QED BY <1>1, <2>1, <2>2
<1>8. Erase(h, 2, 2) = h
  BY <1>1, <1>7, SeqEqual
<1> QED BY <1>2, <1>6, <1>8

(* Dropping a round: what is before it stays, what is after it moves up,   *)
(* and no response loses its round.                                        *)
LEMMA EraseRound ==
  ASSUME BudgetInv, pc = "loop", ~LoopEnds, ~history[i].pinned, ~opts.compacting,
         NEW g, g = Erase(history, i, SpanEnd(history, i))
  PROVE  /\ Formed(g) /\ g # <<>> /\ Len(g) >= i
         /\ g[Len(g)] = history[Len(history)]
         /\ Unbroken(g)
         /\ UserPins(history) => UserPins(g)
<1> DEFINE e == SpanEnd(history, i)
           d == e - i
<1>0. Unbroken(history) /\ Formed(history)
  BY DEF BudgetInv, Separate
<1>1. /\ history \in Seq(Message) /\ Len(history) \in Nat
      /\ DOMAIN history = 1 .. Len(history)
      /\ i \in 2 .. Len(history) - 1 /\ e \in i + 1 .. Len(history)
      /\ ~IsRequest(history[i]) => e = i + 1
      /\ IsRequest(history[i]) => ~IsTool(history[e])
  BY LoopFacts
<1>2. /\ g \in Seq(Message) /\ Len(g) = Len(history) - (e - i)
      /\ \A k \in 1 .. Len(history) - (e - i) :
           g[k] = IF k < i THEN history[k] ELSE history[k + (e - i)]
  <2>1. i \in 1 .. Len(history) + 1 /\ e \in i .. Len(history) + 1
    BY <1>1
  <2> HIDE DEF e
  <2> QED BY <1>1, <2>1, EraseEffect DEF e
<1> HIDE DEF e
<1>3. d \in Nat /\ d >= 1 /\ i + d = e
  BY <1>1
<1>4. /\ Len(g) \in Nat /\ Len(g) >= i /\ DOMAIN g = 1 .. Len(g) /\ g # <<>>
      /\ Len(g) + d = Len(history)
      /\ \A k \in 1 .. i - 1 : k \in DOMAIN history /\ g[k] = history[k]
      /\ \A k \in i .. Len(g) : k + d \in DOMAIN history /\ g[k] = history[k + d]
  <2>1. Len(g) \in Nat /\ Len(g) >= i /\ Len(g) + d = Len(history)
    BY <1>1, <1>2, <1>3
  <2>2. DOMAIN g = 1 .. Len(g) /\ g # <<>>
    BY <1>1, <1>2, <2>1
  <2>3. ASSUME NEW k \in 1 .. i - 1 PROVE k \in DOMAIN history /\ g[k] = history[k]
    <3>1. k \in DOMAIN history /\ k \in 1 .. Len(history) - (e - i) /\ k < i
      BY <1>1, <1>2, <2>1
    <3> QED BY <3>1, <1>2
  <2>4. \A k \in i .. Len(g) : k + d \in DOMAIN history /\ g[k] = history[k + d]
    BY <1>1, <1>2, <1>3, <2>1
  <2> QED BY <2>1, <2>2, <2>3, <2>4
<1> HIDE DEF d
<1>5. ASSUME IsTool(g[i]) PROVE i > 2 /\ InRound(g[i-1])
  <2>1. IsTool(history[e])
    BY <1>1, <1>3, <1>4, <1>5
  <2>2. e = i + 1 /\ ~IsRequest(history[i])
    BY <1>1, <2>1
  <2>3. IsTool(history[i])
    BY <1>0, <1>1, <2>1, <2>2, AfterRound DEF InRound
  <2>4. i # 2
    BY <1>0, <1>1, <2>3 DEF Formed
  <2>5. InRound(history[i-1])
    BY <1>0, <1>1, <2>3 DEF Unbroken
  <2> QED BY <1>1, <1>4, <2>4, <2>5
<1>6. Unbroken(g)
  <2> SUFFICES ASSUME NEW k \in DOMAIN g, IsTool(g[k]) PROVE k > 1 /\ InRound(g[k-1])
    BY DEF Unbroken
  <2>1. CASE k < i
    <3>1. k \in 1 .. i - 1 /\ k - 1 \in Int
      BY <2>1, <1>1, <1>4
    <3>2. k > 1 /\ InRound(history[k-1])
      BY <3>1, <1>0, <1>4 DEF Unbroken
    <3>3. k - 1 \in 1 .. i - 1
      BY <3>1, <3>2, <1>1
    <3> QED BY <3>2, <3>3, <1>4
  <2>2. CASE k = i
    BY <2>2, <1>1, <1>5
  <2>3. CASE k > i
    <3>1. k \in i .. Len(g) /\ k - 1 \in i .. Len(g) /\ (k - 1) + d = (k + d) - 1 /\ k > 1
      BY <2>3, <1>1, <1>3, <1>4
    <3>2. IsTool(history[k + d]) /\ k + d \in DOMAIN history
      BY <3>1, <1>4
    <3>3. InRound(history[(k + d) - 1])
      BY <3>2, <1>0 DEF Unbroken
    <3>4. g[k-1] = history[(k + d) - 1]
      BY <3>1, <1>4
    <3> QED BY <3>1, <3>3, <3>4
  <2> QED BY <2>1, <2>2, <2>3, <1>1, <1>4
<1>7. ASSUME UserPins(history) PROVE UserPins(g)
  <2> SUFFICES ASSUME NEW k \in DOMAIN g, g[k].pinned PROVE g[k].role = "USER"
    BY DEF UserPins
  <2>0. k \in 1 .. i - 1 \/ k \in i .. Len(g)
    BY <1>1, <1>4
  <2>1. \E n \in DOMAIN history : g[k] = history[n]
    BY <1>4, <2>0
  <2> QED BY <2>1, <1>7 DEF UserPins
<1>8. g[Len(g)] = history[Len(history)]
  <2>1. Len(g) \in i .. Len(g)
    BY <1>1, <1>4
  <2> QED BY <2>1, <1>4
<1>9. Formed(g)
  <2>1. 1 \in 1 .. i - 1
    BY <1>1
  <2>2. g[1] = history[1] /\ history # <<>>
    BY <2>1, <1>1, <1>4
  <2>3. ASSUME Len(g) >= 2, IsTool(g[2]) PROVE FALSE
    <3>1. i # 2
      BY <2>3, <1>5
    <3>2. 2 \in 1 .. i - 1 /\ Len(history) >= 2
      BY <3>1, <1>1
    <3> QED BY <2>3, <3>2, <1>0, <1>4 DEF Formed
  <2> QED BY <2>2, <2>3, <1>0, <1>2 DEF Formed
<1> QED BY <1>4, <1>6, <1>7, <1>8, <1>9

(* Replacing a round by a note: the same, if the round starts with no      *)
(* response (Separate).                                                    *)
LEMMA CompactRound ==
  ASSUME BudgetInv, pc = "loop", ~LoopEnds, ~history[i].pinned, opts.compacting,
         NEW g, g = Compact(history, i, SpanEnd(history, i))
  PROVE  /\ Formed(g) /\ g # <<>> /\ i + 1 <= Len(g)
         /\ g[Len(g)] = history[Len(history)]
         /\ g[i + 1] = history[SpanEnd(history, i)]
         /\ Separate => Unbroken(g) /\ ~IsTool(g[i + 1])
         /\ UserPins(history) => UserPins(g)
<1> DEFINE e == SpanEnd(history, i)
           d == e - i - 1
<1>0. Formed(history) /\ (Separate => Unbroken(history) /\ CleanCut)
  BY DEF BudgetInv
<1>1. /\ history \in Seq(Message) /\ Len(history) \in Nat
      /\ DOMAIN history = 1 .. Len(history)
      /\ i \in 2 .. Len(history) - 1 /\ e \in i + 1 .. Len(history)
      /\ ~IsRequest(history[i]) => e = i + 1
      /\ IsRequest(history[i]) => ~IsTool(history[e])
  BY LoopFacts
<1>2. /\ g \in Seq(Message) /\ Len(g) = Len(history) - (e - i) + 1
      /\ \A k \in 1 .. Len(history) - (e - i) + 1 :
           g[k] = IF k < i THEN history[k]
                  ELSE IF k = i THEN Note
                  ELSE history[k + (e - i) - 1]
  <2>1. i \in 1 .. Len(history) /\ e \in i + 1 .. Len(history) + 1
    BY <1>1
  <2> HIDE DEF e
  <2> QED BY <1>1, <2>1, CompactEffect DEF e
<1> HIDE DEF e
<1>3. d \in Nat /\ i + d + 1 = e
  BY <1>1
<1>4. /\ Len(g) \in Nat /\ Len(g) >= i + 1 /\ DOMAIN g = 1 .. Len(g) /\ g # <<>>
      /\ Len(g) + d = Len(history)
      /\ \A k \in 1 .. i - 1 : k \in DOMAIN history /\ g[k] = history[k]
      /\ g[i] = Note
      /\ \A k \in i + 1 .. Len(g) : k + d \in DOMAIN history /\ g[k] = history[k + d]
  <2>0. Len(g) = Len(history) - (e - i) + 1 /\ e \in Nat /\ i \in Nat /\ e <= Len(history)
    BY <1>1, <1>2
  <2>a. Len(g) >= i + 1 /\ Len(g) + d = Len(history)
    BY <2>0, <1>1
  <2>1. Len(g) \in Nat /\ Len(g) >= i + 1 /\ Len(g) + d = Len(history)
    BY <2>a, <1>2
  <2>2. DOMAIN g = 1 .. Len(g) /\ g # <<>>
    BY <1>1, <1>2, <2>1
  <2>3. ASSUME NEW k \in 1 .. i - 1 PROVE k \in DOMAIN history /\ g[k] = history[k]
    <3>1. k \in DOMAIN history /\ k \in 1 .. Len(history) - (e - i) + 1 /\ k < i
      BY <1>1, <1>2, <2>1
    <3> QED BY <3>1, <1>2
  <2>4. ASSUME NEW k \in i + 1 .. Len(g)
        PROVE  k + d \in DOMAIN history /\ g[k] = history[k + d]
    <3>1. /\ k + d \in DOMAIN history /\ k \in 1 .. Len(history) - (e - i) + 1
          /\ ~(k < i) /\ k # i /\ k + (e - i) - 1 = k + d
      BY <1>1, <1>2, <1>3, <2>1
    <3> QED BY <3>1, <1>2
  <2>5. g[i] = Note
    BY <1>1, <1>2, <2>1
  <2> QED BY <2>1, <2>2, <2>3, <2>4, <2>5
<1> HIDE DEF d
<1>5. g[Len(g)] = history[Len(history)] /\ g[i + 1] = history[e]
  <2>1. Len(g) \in i + 1 .. Len(g) /\ i + 1 \in i + 1 .. Len(g) /\ (i + 1) + d = e
    BY <1>1, <1>3, <1>4
  <2> QED BY <2>1, <1>4
<1>6. ASSUME Separate PROVE ~IsTool(g[i + 1])
  <2>1. CASE IsRequest(history[i])
    BY <2>1, <1>1, <1>5
  <2>2. CASE ~IsRequest(history[i])
    <3>1. ~IsTool(history[i])
      BY <1>0, <1>1, <1>6 DEF CleanCut
    <3>2. e = i + 1 /\ ~IsTool(history[i + 1])
      BY <2>2, <3>1, <1>0, <1>1, <1>6, AfterRound DEF InRound
    <3> QED BY <3>2, <1>5
  <2> QED BY <2>1, <2>2
<1>7. ASSUME Separate PROVE Unbroken(g)
  <2> SUFFICES ASSUME NEW k \in DOMAIN g, IsTool(g[k]) PROVE k > 1 /\ InRound(g[k-1])
    BY DEF Unbroken
  <2>1. CASE k < i
    <3>1. k \in 1 .. i - 1 /\ k - 1 \in Int
      BY <2>1, <1>1, <1>4
    <3>2. k > 1 /\ InRound(history[k-1])
      BY <3>1, <1>0, <1>4, <1>7 DEF Unbroken
    <3>3. k - 1 \in 1 .. i - 1
      BY <3>1, <3>2, <1>1
    <3> QED BY <3>2, <3>3, <1>4
  <2>2. k # i /\ k # i + 1
    BY <1>4, <1>6, <1>7, NoteType
  <2>3. CASE k > i + 1
    <3>1. /\ k \in i + 1 .. Len(g) /\ k - 1 \in i + 1 .. Len(g)
          /\ (k - 1) + d = (k + d) - 1 /\ k > 1
      BY <2>3, <1>1, <1>3, <1>4
    <3>2. IsTool(history[k + d]) /\ k + d \in DOMAIN history
      BY <3>1, <1>4
    <3>3. InRound(history[(k + d) - 1])
      BY <3>2, <1>0, <1>7 DEF Unbroken
    <3>4. g[k-1] = history[(k + d) - 1]
      BY <3>1, <1>4
    <3> QED BY <3>1, <3>3, <3>4
  <2> QED BY <2>1, <2>2, <2>3, <1>1, <1>4
<1>8. ASSUME UserPins(history) PROVE UserPins(g)
  <2> SUFFICES ASSUME NEW k \in DOMAIN g, g[k].pinned PROVE g[k].role = "USER"
    BY DEF UserPins
  <2>0. k \in 1 .. i - 1 \/ k = i \/ k \in i + 1 .. Len(g)
    BY <1>1, <1>4
  <2>1. CASE k = i
    BY <2>1, <1>4, NoteType
  <2>2. CASE k # i
    <3>1. \E n \in DOMAIN history : g[k] = history[n]
      BY <1>4, <2>0, <2>2
    <3> QED BY <3>1, <1>8 DEF UserPins
  <2> QED BY <2>1, <2>2
<1>9. Formed(g)
  <2>1. 1 \in 1 .. i - 1
    BY <1>1
  <2>2. g[1] = history[1] /\ history # <<>>
    BY <2>1, <1>1, <1>4
  <2>3. ~IsTool(g[2])
    <3>1. CASE i = 2
      BY <3>1, <1>4, NoteType
    <3>2. CASE i # 2
      <4>1. 2 \in 1 .. i - 1 /\ Len(history) >= 2
        BY <3>2, <1>1
      <4> QED BY <4>1, <1>0, <1>4 DEF Formed
    <3> QED BY <3>1, <3>2
  <2> QED BY <2>2, <2>3, <1>0, <1>2 DEF Formed
<1>10. g[i + 1] = history[SpanEnd(history, i)]
  BY <1>5 DEF e
<1> QED BY <1>1, <1>4, <1>5, <1>6, <1>7, <1>8, <1>9, <1>10

----------------------------------------------------------------------------
LEMMA PruneKeeps ==
  ASSUME BudgetInv, Budgeted, opts' = opts, PruneStep
  PROVE  BudgetInv'
<1>1. TypesOK /\ Formed(history)
  BY DEF BudgetInv
<1>2. CASE Prune
  <2>1. /\ pc = "prune" /\ history' = history /\ i' = StartIdx(history)
        /\ pc' \in {cont, "loop"} /\ cont' = cont /\ todo' = todo /\ pinNext' = pinNext
    BY <1>2 DEF Prune, Budgeted
  <2>2. history # <<>>
    BY <2>1 DEF BudgetInv
  <2>3. /\ history \in Seq(Message) /\ Len(history) \in Nat /\ Len(history) >= 1
        /\ history[1].role = "SYSTEM" /\ (Len(history) >= 2 => ~IsTool(history[2]))
    BY <1>1, <2>2, EmptySeq DEF Formed
  <2>4. i' = 2
    BY <2>1, <2>3 DEF StartIdx
  <2>5. TypesOK'
    BY <1>1, <2>1, <2>4 DEF TypesOK, PCs
  <2>6. OpenRound'
    BY <1>1, <2>1 DEF BudgetInv, OpenRound, TypesOK
  <2>7. AtMessage' /\ CleanCut'
    BY <2>1, <2>3, <2>4 DEF AtMessage, CleanCut
  <2> QED BY <2>1, <2>2, <2>5, <2>6, <2>7, QuietKeeps
<1>3. CASE SkipPinned
  <2>1. /\ pc = "loop" /\ ~LoopEnds /\ history[i].pinned /\ i' = i + 1
        /\ UNCHANGED <<history, pinNext, pc, cont, todo>>
    BY <1>3 DEF SkipPinned
  <2>2. /\ history \in Seq(Message) /\ Len(history) \in Nat
        /\ DOMAIN history = 1 .. Len(history) /\ i \in 2 .. Len(history) - 1
    BY <2>1, LoopFacts
  <2>3. TypesOK' /\ AtMessage' /\ OpenRound' /\ history # <<>>
    BY <1>1, <2>1, <2>2 DEF TypesOK, AtMessage, OpenRound, BudgetInv
  <2>4. ASSUME Separate PROVE CleanCut'
    <3> SUFFICES ASSUME opts.compacting PROVE ~IsTool(history[i + 1])
      BY <2>1 DEF CleanCut
    <3>1. UserPins(history) /\ Unbroken(history)
      BY <2>4 DEF BudgetInv, Separate
    <3>2. i \in DOMAIN history /\ history[i].role = "USER"
      BY <2>1, <2>2, <3>1 DEF UserPins
    <3>3. ~InRound(history[i])
      BY <3>2 DEF InRound, IsTool, IsRequest
    <3>4. i \in 1 .. Len(history) - 1
      BY <2>2
    <3> QED BY <2>2, <3>1, <3>3, <3>4, AfterRound
  <2> QED BY <2>1, <2>3, <2>4 DEF BudgetInv, Separate
<1>4. CASE SkipPinnedSpan
  <2>1. /\ pc = "loop" /\ ~LoopEnds /\ ~history[i].pinned
        /\ i' = SpanEnd(history, i)
        /\ \E k \in i .. SpanEnd(history, i) - 1 : history[k].pinned
        /\ UNCHANGED <<history, pinNext, pc, cont, todo>>
    BY <1>4 DEF SkipPinnedSpan
  <2>2. /\ history \in Seq(Message) /\ Len(history) \in Nat
        /\ DOMAIN history = 1 .. Len(history) /\ i \in 2 .. Len(history) - 1
        /\ SpanEnd(history, i) \in i + 1 .. Len(history)
        /\ ~IsRequest(history[i]) => SpanEnd(history, i) = i + 1
        /\ IsRequest(history[i]) => ~IsTool(history[SpanEnd(history, i)])
    BY <2>1, LoopFacts
  <2>3. TypesOK' /\ AtMessage' /\ OpenRound' /\ history # <<>>
    BY <1>1, <2>1, <2>2 DEF TypesOK, AtMessage, OpenRound, BudgetInv
  <2>4. IsRequest(history[i])
    <3> SUFFICES ASSUME ~IsRequest(history[i]) PROVE FALSE
      OBVIOUS
    <3>1. i .. SpanEnd(history, i) - 1 = {i}
      BY <2>2
    <3> QED BY <2>1, <3>1
  <2>5. CleanCut'
    BY <2>1, <2>2, <2>4 DEF CleanCut
  <2> QED BY <2>1, <2>3, <2>5 DEF BudgetInv, Separate
<1>5. CASE DropSpan
  <2>1. /\ pc = "loop" /\ ~LoopEnds /\ UNCHANGED <<pinNext, pc, cont, todo>>
        /\ \A k \in i .. SpanEnd(history, i) - 1 : ~history[k].pinned
    BY <1>5 DEF DropSpan
  <2>2. i \in 2 .. Len(history) - 1 /\ Len(history) \in Nat
    BY <2>1, LoopFacts
  <2>3. ~history[i].pinned
    <3>1. /\ history \in Seq(Message) /\ i \in 1 .. Len(history)
      BY <1>1, <2>2 DEF Formed
    <3>2. SpanEnd(history, i) \in i + 1 .. Len(history) + 1
      BY <3>1, SpanEndEffect
    <3>3. i \in i .. SpanEnd(history, i) - 1
      BY <2>2, <3>2
    <3> QED BY <2>1, <3>3
  <2>4. CASE opts.compacting
    <3>1. history' = Compact(history, i, SpanEnd(history, i)) /\ i' = i + 1
      BY <1>5, <2>4 DEF DropSpan
    <3>2. /\ Formed(history') /\ history' # <<>> /\ i + 1 <= Len(history')
          /\ history'[Len(history')] = history[Len(history)]
          /\ Separate => Unbroken(history') /\ ~IsTool(history'[i + 1])
          /\ UserPins(history) => UserPins(history')
      BY <2>1, <2>3, <2>4, <3>1, CompactRound
    <3>3. Len(history') \in Nat
      BY <3>2 DEF Formed
    <3>4. TypesOK' /\ AtMessage' /\ OpenRound'
      BY <1>1, <2>1, <2>2, <3>1, <3>2, <3>3
         DEF TypesOK, AtMessage, OpenRound, BudgetInv
    <3>5. Separate => CleanCut'
      BY <3>1, <3>2 DEF CleanCut
    <3> QED BY <3>2, <3>4, <3>5 DEF BudgetInv, Separate
  <2>5. CASE ~opts.compacting
    <3>1. history' = Erase(history, i, SpanEnd(history, i)) /\ i' = i
      BY <1>5, <2>5 DEF DropSpan
    <3>2. /\ Formed(history') /\ history' # <<>> /\ Len(history') >= i
          /\ history'[Len(history')] = history[Len(history)]
          /\ Unbroken(history')
          /\ UserPins(history) => UserPins(history')
      BY <2>1, <2>3, <2>5, <3>1, EraseRound
    <3>3. Len(history') \in Nat
      BY <3>2 DEF Formed
    <3>4. TypesOK' /\ AtMessage' /\ OpenRound'
      BY <1>1, <2>1, <2>2, <3>1, <3>2, <3>3
         DEF TypesOK, AtMessage, OpenRound, BudgetInv
    <3>5. CleanCut'
      BY <2>5 DEF CleanCut
    <3> QED BY <3>2, <3>4, <3>5 DEF BudgetInv, Separate
  <2> QED BY <2>4, <2>5
<1>6. CASE GuardOrphans
  <2>1. /\ pc = "loop" /\ pc' = cont /\ UNCHANGED <<pinNext, cont, todo, i>>
        /\ history' = Erase(history, StartIdx(history),
                            SkipLooseTools(history, StartIdx(history)))
    BY <1>6 DEF GuardOrphans
  <2>2. history # <<>>
    BY <2>1 DEF BudgetInv
  <2>3. history' = history
    BY <1>1, <2>1, <2>2, GuardIdle
  <2>4. TypesOK' /\ OpenRound' /\ AtMessage' /\ CleanCut'
    BY <1>1, <2>1, <2>3 DEF TypesOK, PCs, OpenRound, AtMessage, CleanCut, BudgetInv
  <2> QED BY <2>2, <2>3, <2>4, QuietKeeps
<1> QED BY <1>2, <1>3, <1>4, <1>5, <1>6 DEF PruneStep

LEMMA ConvInit == Init => ConvInv
<1> SUFFICES ASSUME Init PROVE BudgetInv
  BY DEF ConvInv
<1>1. TypesOK
  BY EmptySeq DEF Init, TypesOK, PCs
<1>2. Formed(history) /\ Unbroken(history) /\ UserPins(history)
  BY EmptySeq DEF Init, Formed, Unbroken, UserPins
<1> QED BY <1>1, <1>2 DEF Init, BudgetInv, OpenRound, AtMessage, CleanCut

LEMMA ConvStep == ConvInv /\ [Next]_vars => ConvInv'
<1> SUFFICES ASSUME ConvInv, [Next]_vars, Budgeted' PROVE BudgetInv'
  BY DEF ConvInv
<1>1. opts' = opts
  BY DEF Next, vars
<1>2. Budgeted /\ BudgetInv
  BY <1>1 DEF Budgeted, ConvInv
<1>3. CASE UNCHANGED vars
  BY <1>2, <1>3 DEF vars, BudgetInv, TypesOK, OpenRound, AtMessage, CleanCut, Separate
<1>4. CASE Agent
  BY <1>1, <1>2, <1>4, AgentKeeps
<1>5. CASE PruneStep
  BY <1>1, <1>2, <1>5, PruneKeeps
<1>6. CASE Talk
  BY <1>1, <1>2, <1>6, TalkKeeps
<1> QED BY <1>3, <1>4, <1>5, <1>6 DEF Next, Inside, Talk

LEMMA ConvInvariant == Spec => []ConvInv
BY ConvInit, ConvStep, PTL DEF Spec

----------------------------------------------------------------------------
(* In a Conversation with a token budget every response follows its        *)
(* request or another response, whatever is pruned and whenever, as long   *)
(* as no agent both compacts and pins messages other than its prompts.     *)
THEOREM BudgetNoOrphan == Spec => [](Budgeted /\ Separate => NoOrphanTool)
<1>1. ConvInv => (Budgeted /\ Separate => NoOrphanTool)
  BY DEF ConvInv, BudgetInv, Unbroken, NoOrphanTool, InRound
<1> QED BY <1>1, ConvInvariant, PTL

(* Pruning to a token budget never drops the most recent message.          *)
THEOREM BudgetLatestKept == Spec => LatestKept
<1>1. ASSUME ConvInv, [Next]_vars, Budgeted, PruneStep
      PROVE  history'[Len(history')] = history[Len(history)]
  <2>1. BudgetInv
    BY <1>1 DEF ConvInv
  <2>2. CASE Prune
    BY <1>1, <2>2 DEF Prune, Budgeted
  <2>3. CASE SkipPinned \/ SkipPinnedSpan
    BY <2>3 DEF SkipPinned, SkipPinnedSpan
  <2>4. CASE GuardOrphans
    <3>1. /\ Formed(history) /\ history # <<>>
          /\ history' = Erase(history, StartIdx(history),
                              SkipLooseTools(history, StartIdx(history)))
      BY <2>1, <2>4 DEF GuardOrphans, BudgetInv
    <3> QED BY <3>1, GuardIdle
  <2>5. CASE DropSpan
    <3>1. /\ pc = "loop" /\ ~LoopEnds
          /\ \A k \in i .. SpanEnd(history, i) - 1 : ~history[k].pinned
      BY <2>5 DEF DropSpan
    <3>2. history \in Seq(Message) /\ i \in 2 .. Len(history) - 1 /\ Len(history) \in Nat
      BY <2>1, <3>1, LoopFacts
    <3>3. i \in 1 .. Len(history)
      BY <3>2
    <3>4. SpanEnd(history, i) \in i + 1 .. Len(history) + 1
      BY <3>2, <3>3, SpanEndEffect
    <3>5. i \in i .. SpanEnd(history, i) - 1
      BY <3>2, <3>4
    <3>6. ~history[i].pinned
      BY <3>1, <3>5
    <3>7. CASE opts.compacting
      <4>1. history' = Compact(history, i, SpanEnd(history, i))
        BY <2>5, <3>7 DEF DropSpan
      <4> QED BY <2>1, <3>1, <3>6, <3>7, <4>1, CompactRound
    <3>8. CASE ~opts.compacting
      <4>1. history' = Erase(history, i, SpanEnd(history, i))
        BY <2>5, <3>8 DEF DropSpan
      <4> QED BY <2>1, <3>1, <3>6, <3>8, <4>1, EraseRound
    <3> QED BY <3>7, <3>8
  <2> QED BY <1>1, <2>2, <2>3, <2>4, <2>5 DEF PruneStep
<1>2. ConvInv /\ [Next]_vars =>
        [opts.maxTokens > 0 /\ PruneStep =>
           history'[Len(history')] = history[Len(history)]]_vars
  BY <1>1 DEF Budgeted
<1> QED BY <1>2, ConvInvariant, PTL DEF Spec, LatestKept

Survive(h, g) ==
  \A k \in DOMAIN h : h[k].pinned => \E j \in DOMAIN g : j <= k /\ g[j] = h[k]

LEMMA SurviveUnchanged == ASSUME NEW h \in Seq(Message) PROVE Survive(h, h)
<1>1. \A k \in DOMAIN h : k <= k
  OBVIOUS
<1> QED BY <1>1 DEF Survive

LEMMA SurviveAppend ==
  ASSUME NEW h \in Seq(Message), NEW m \in Message
  PROVE  Survive(h, Append(h, m))
<1>1. \A k \in DOMAIN h : k \in DOMAIN Append(h, m) /\ Append(h, m)[k] = h[k] /\ k <= k
  OBVIOUS
<1> QED BY <1>1 DEF Survive

(* A round without pins is dropped or replaced: pinned messages only move  *)
(* up.                                                                     *)
LEMMA SurviveDrop ==
  ASSUME BudgetInv, DropSpan
  PROVE  Survive(history, history')
<1> DEFINE e == SpanEnd(history, i)
<1>1. /\ pc = "loop" /\ ~LoopEnds
      /\ \A k \in i .. e - 1 : ~history[k].pinned
  BY DEF DropSpan
<1>2. /\ history \in Seq(Message) /\ Len(history) \in Nat
      /\ DOMAIN history = 1 .. Len(history) /\ i \in 2 .. Len(history) - 1
  BY <1>1, LoopFacts
<1>3. i \in 1 .. Len(history)
  BY <1>2
<1>4. e \in i + 1 .. Len(history) + 1
  BY <1>2, <1>3, SpanEndEffect
<1>5. ASSUME NEW k \in DOMAIN history, history[k].pinned
      PROVE  k \in 1 .. i - 1 \/ k \in e .. Len(history)
  <2> HIDE DEF e
  <2>1. ~(k \in i .. e - 1)
    BY <1>1, <1>5
  <2> QED BY <2>1, <1>2, <1>4
<1>6. CASE opts.compacting
  <2>1. history' = Compact(history, i, e)
    BY <1>6 DEF DropSpan
  <2> HIDE DEF e
  <2>2. /\ history' \in Seq(Message) /\ Len(history') = Len(history) - (e - i) + 1
        /\ \A k \in 1 .. Len(history) - (e - i) + 1 :
             history'[k] = IF k < i THEN history[k]
                           ELSE IF k = i THEN Note ELSE history[k + (e - i) - 1]
    BY <1>2, <1>3, <1>4, <2>1, CompactEffect
  <2>3. DOMAIN history' = 1 .. Len(history) - (e - i) + 1
    BY <2>2
  <2>4. ASSUME NEW k \in 1 .. i - 1
        PROVE  k \in DOMAIN history' /\ k <= k /\ history'[k] = history[k]
    <3>1. k \in 1 .. Len(history) - (e - i) + 1 /\ k < i
      BY <1>2, <1>4
    <3> QED BY <3>1, <2>2, <2>3
  <2>5. ASSUME NEW k \in e .. Len(history)
        PROVE  \E j \in DOMAIN history' : j <= k /\ history'[j] = history[k]
    <3> DEFINE j == k - (e - i) + 1
    <3>1. /\ j \in 1 .. Len(history) - (e - i) + 1 /\ ~(j < i) /\ j # i
          /\ j + (e - i) - 1 = k /\ j <= k
      BY <1>2, <1>4
    <3> HIDE DEF j
    <3> QED BY <3>1, <2>2, <2>3
  <2> QED BY <1>5, <2>4, <2>5 DEF Survive
<1>7. CASE ~opts.compacting
  <2>1. history' = Erase(history, i, e)
    BY <1>7 DEF DropSpan
  <2> HIDE DEF e
  <2>0. i \in 1 .. Len(history) + 1 /\ e \in i .. Len(history) + 1
    BY <1>2, <1>4
  <2>2. /\ history' \in Seq(Message) /\ Len(history') = Len(history) - (e - i)
        /\ \A k \in 1 .. Len(history) - (e - i) :
             history'[k] = IF k < i THEN history[k] ELSE history[k + (e - i)]
    BY <1>2, <2>0, <2>1, EraseEffect
  <2>3. DOMAIN history' = 1 .. Len(history) - (e - i)
    BY <2>2
  <2>4. ASSUME NEW k \in 1 .. i - 1
        PROVE  k \in DOMAIN history' /\ k <= k /\ history'[k] = history[k]
    <3>1. k \in 1 .. Len(history) - (e - i) /\ k < i
      BY <1>2, <1>4
    <3> QED BY <3>1, <2>2, <2>3
  <2>5. ASSUME NEW k \in e .. Len(history)
        PROVE  \E j \in DOMAIN history' : j <= k /\ history'[j] = history[k]
    <3> DEFINE j == k - (e - i)
    <3>1. /\ j \in 1 .. Len(history) - (e - i) /\ ~(j < i)
          /\ j + (e - i) = k /\ j <= k
      BY <1>2, <1>4
    <3> HIDE DEF j
    <3> QED BY <3>1, <2>2, <2>3
  <2> QED BY <1>5, <2>4, <2>5 DEF Survive
<1> QED BY <1>6, <1>7

LEMMA SurvivePrune ==
  ASSUME BudgetInv, Budgeted, PruneStep
  PROVE  Survive(history, history')
<1>1. history \in Seq(Message)
  BY DEF BudgetInv, Formed
<1>2. CASE Prune \/ SkipPinned \/ SkipPinnedSpan
  <2>1. history' = history
    BY <1>2 DEF Prune, SkipPinned, SkipPinnedSpan, Budgeted
  <2> QED BY <1>1, <2>1, SurviveUnchanged
<1>3. CASE GuardOrphans
  <2>1. /\ Formed(history) /\ history # <<>>
        /\ history' = Erase(history, StartIdx(history),
                            SkipLooseTools(history, StartIdx(history)))
    BY <1>3 DEF GuardOrphans, BudgetInv
  <2>2. history' = history
    BY <2>1, GuardIdle
  <2> QED BY <1>1, <2>2, SurviveUnchanged
<1>4. CASE DropSpan
  BY <1>4, SurviveDrop
<1> QED BY <1>2, <1>3, <1>4 DEF PruneStep

LEMMA SurviveTalk ==
  ASSUME BudgetInv, Talk
  PROVE  Survive(history, history')
<1>1. history \in Seq(Message) /\ TypesOK
  BY DEF BudgetInv, Formed
<1>2. CASE TurnCap \/ AskLLM \/ ChatThrows \/ ToolThrows \/ ToolsDone
  <2>1. history' = history
    BY <1>2 DEF TurnCap, AskLLM, ChatThrows, ToolThrows, ToolsDone
  <2> QED BY <1>1, <2>1, SurviveUnchanged
<1>3. CASE Reply
  <2>1. PICK calls \in BoundedSeq(CallIds, CallBound), c \in TextCosts :
          history' = Append(history, AssistantMessage(calls, c))
    BY <1>3 DEF Reply
  <2>2. PICK n \in 0 .. CallBound : calls \in [1 .. n -> CallIds]
    BY DEF BoundedSeq, SeqOf
  <2>3. calls \in Seq(CallIds)
    BY <2>2, ConversationAssumption
  <2>4. AssistantMessage(calls, c) \in Message
    BY <2>3, MessageTypes
  <2> QED BY <1>1, <2>1, <2>4, SurviveAppend
<1>4. CASE ExecuteTool
  <2>1. PICK c \in ToolCosts : history' = Append(history, ToolMessage(Head(todo), c))
    BY <1>4 DEF ExecuteTool
  <2>2. Head(todo) \in CallIds
    BY <1>1, <1>4, HeadTailProperties DEF ExecuteTool, TypesOK
  <2>3. PICK id \in CallIds : id = Head(todo)
    BY <2>2
  <2>4. ToolMessage(id, c) \in Message
    BY MessageTypes
  <2> QED BY <1>1, <2>1, <2>3, <2>4, SurviveAppend
<1> QED BY <1>2, <1>3, <1>4 DEF Talk

LEMMA SurviveAgent ==
  ASSUME BudgetInv, Agent, history' # <<>>
  PROVE  Survive(history, history')
<1>1. Formed(history) /\ history \in Seq(Message) /\ TypesOK
  BY DEF BudgetInv, Formed
<1>2. Survive(history, WithSystem(history))
  <2>1. CASE history = <<>>
    BY <2>1 DEF Survive
  <2>2. CASE history # <<>>
    BY <2>2, <1>1, WithSystemKeeps, SurviveUnchanged
  <2> QED BY <2>1, <2>2
<1>3. CASE Reset
  BY <1>3 DEF Reset
<1>4. CASE SetSystemPrompt
  BY <1>2, <1>4 DEF SetSystemPrompt
<1>5. CASE PinNextUserMessage
  BY <1>1, <1>5, SurviveUnchanged DEF PinNextUserMessage
<1>6. CASE PinMessageAt
  <2>1. PICK n \in DOMAIN history : history' = [history EXCEPT ![n].pinned = TRUE]
    BY <1>6 DEF PinMessageAt
  <2>2. ASSUME NEW k \in DOMAIN history, history[k].pinned
        PROVE  k \in DOMAIN history' /\ history'[k] = history[k] /\ k <= k
    <3> DEFINE m == history[k]
    <3>1. m \in Message /\ k \in Nat /\ m.pinned
      BY <1>1, <2>2
    <3>0. m.pinned = TRUE
      <4> HIDE DEF m
      <4> QED BY <3>1 DEF Message
    <3>2. [m EXCEPT !.pinned = TRUE] = m
      <4> HIDE DEF m
      <4> QED BY <3>1, <3>0 DEF Message
    <3>3. history' = [history EXCEPT ![n] = [history[n] EXCEPT !.pinned = TRUE]]
      BY <2>1
    <3>4. history'[k] = IF k = n THEN [m EXCEPT !.pinned = TRUE] ELSE m
      BY <3>3
    <3> QED BY <3>1, <3>2, <3>3, <3>4
  <2> QED BY <2>2 DEF Survive
<1>7. CASE SendMessage
  <2>1. PICK c \in TextCosts :
          history' = Append(WithSystem(history), UserMessage(pinNext, c))
    BY <1>7 DEF SendMessage
  <2>2. UserMessage(pinNext, c) \in Message
    BY <1>1, MessageTypes DEF TypesOK
  <2>3. WithSystem(history) \in Seq(Message)
    BY <1>1, WithSystemKeeps DEF Formed
  <2>4. Survive(WithSystem(history), history')
    BY <2>1, <2>2, <2>3, SurviveAppend
  <2>5. CASE history = <<>>
    BY <2>5 DEF Survive
  <2>6. CASE history # <<>>
    BY <2>4, <2>6, <1>1, WithSystemKeeps
  <2> QED BY <2>5, <2>6
<1> QED BY <1>3, <1>4, <1>5, <1>6, <1>7 DEF Agent

(* In a Conversation with a token budget a pinned message stays, unchanged *)
(* and never further back, until reset().                                  *)
THEOREM BudgetPinnedKept == Spec => PinnedKept
<1>1. ASSUME ConvInv, [Next]_vars, Budgeted, history' # <<>>
      PROVE  Survive(history, history')
  <2>1. BudgetInv /\ history \in Seq(Message)
    BY <1>1 DEF ConvInv, BudgetInv, Formed
  <2>2. CASE UNCHANGED vars
    BY <2>1, <2>2, SurviveUnchanged DEF vars
  <2>3. CASE Agent
    BY <1>1, <2>1, <2>3, SurviveAgent
  <2>4. CASE PruneStep
    BY <1>1, <2>1, <2>4, SurvivePrune
  <2>5. CASE Talk
    BY <2>1, <2>5, SurviveTalk
  <2> QED BY <1>1, <2>2, <2>3, <2>4, <2>5 DEF Next, Inside, Talk
<1>2. ConvInv /\ [Next]_vars =>
        [opts.maxTokens > 0 /\ history' # <<>> =>
           \A k \in DOMAIN history :
             history[k].pinned =>
               \E j \in DOMAIN history' : j <= k /\ history'[j] = history[k]]_vars
  BY <1>1 DEF Budgeted, Survive
<1> QED BY <1>2, ConvInvariant, PTL DEF Spec, PinnedKept
----------------------------------------------------------------------------
(* The cost of a history.                                                  *)

(* A set with 0 and the successors of its members is all of Nat.           *)
LEMMA Induction ==
  ASSUME NEW T, 0 \in T, \A n \in Nat : n \in T => n + 1 \in T
  PROVE  \A n \in Nat : n \in T
<1> SUFFICES ASSUME Nat \ T # {} PROVE FALSE
  OBVIOUS
<1>1. PICK x \in Nat \ T : \A y \in Nat \ T : x <= y
  BY Smallest
<1>2. x # 0 /\ x - 1 \in Nat
  BY <1>1
<1>3. x - 1 \in T
  BY <1>1, <1>2
<1> QED BY <1>1, <1>2, <1>3

(* f[k] is the cost of the first k messages.                               *)
Sums(h, f) == f[0] = 0 /\ \A k \in 1 .. Len(h) : f[k] = f[k - 1] + h[k].cost

LEMMA SumsExist ==
  ASSUME NEW h \in Seq(Message)
  PROVE  \E f : Sums(h, f) /\ f \in [0 .. Len(h) -> Nat]
<1> DEFINE Upto(n, f) == /\ f \in [0 .. n -> Nat] /\ f[0] = 0
                         /\ \A k \in 1 .. n : f[k] = f[k - 1] + h[k].cost
           T == {n \in Nat : n <= Len(h) => \E f : Upto(n, f)}
<1>0. Len(h) \in Nat /\ \A k \in 1 .. Len(h) : h[k].cost \in Nat
  <2>1. \A m \in Message : m.cost \in Nat
    BY DEF Message
  <2>2. \A k \in 1 .. Len(h) : h[k] \in Message
    OBVIOUS
  <2> QED BY <2>1, <2>2
<1>1. 0 \in T
  <2>1. Upto(0, [k \in 0 .. 0 |-> 0])
    OBVIOUS
  <2> QED BY <2>1
<1>2. ASSUME NEW n \in Nat, n \in T PROVE n + 1 \in T
  <2> SUFFICES ASSUME n + 1 <= Len(h) PROVE \E f : Upto(n + 1, f)
    <3> HIDE DEF Upto
    <3> QED OBVIOUS
  <2>1. PICK f : Upto(n, f)
    <3> HIDE DEF Upto
    <3> QED BY <1>0, <1>2
  <2> DEFINE g == [k \in 0 .. n + 1 |-> IF k = n + 1 THEN f[n] + h[n + 1].cost ELSE f[k]]
  <2>2. f[n] \in Nat /\ h[n + 1].cost \in Nat
    BY <1>0, <2>1
  <2>3. g \in [0 .. n + 1 -> Nat]
    BY <2>1, <2>2
  <2>4. ASSUME NEW k \in 1 .. n + 1 PROVE g[k] = g[k - 1] + h[k].cost
    <3>1. CASE k = n + 1
      BY <3>1
    <3>2. CASE k # n + 1
      <4>1. k \in 1 .. n /\ k \in 0 .. n + 1 /\ k - 1 \in 0 .. n + 1 /\ k - 1 # n + 1
        BY <3>2
      <4>2. g[k] = f[k] /\ g[k - 1] = f[k - 1]
        BY <3>2, <4>1
      <4> QED BY <2>1, <4>1, <4>2
    <3> QED BY <3>1, <3>2
  <2>5. g[0] = 0
    BY <2>1
  <2> HIDE DEF g
  <2>6. Upto(n + 1, g)
    BY <2>3, <2>4, <2>5
  <2> QED BY <2>6
<1>3. \A n \in Nat : n \in T
  <2> HIDE DEF T
  <2> QED BY <1>1, <1>2, Induction
<1>4. PICK f : Upto(Len(h), f)
  <2> HIDE DEF Upto
  <2> QED BY <1>0, <1>3
<1> QED BY <1>4 DEF Sums

(* There is only one such function, and TotalCost is its last value.       *)
LEMMA SumsEqual ==
  ASSUME NEW h \in Seq(Message), NEW f, NEW g, Sums(h, f), Sums(h, g)
  PROVE  \A k \in 0 .. Len(h) : f[k] = g[k]
<1> DEFINE T == {k \in Nat : k <= Len(h) => f[k] = g[k]}
<1>1. 0 \in T
  BY DEF Sums
<1>2. ASSUME NEW n \in Nat, n \in T PROVE n + 1 \in T
  <2> SUFFICES ASSUME n + 1 <= Len(h) PROVE f[n + 1] = g[n + 1]
    OBVIOUS
  <2>1. f[n] = g[n] /\ n + 1 \in 1 .. Len(h) /\ (n + 1) - 1 = n
    BY <1>2
  <2> QED BY <2>1 DEF Sums
<1>3. \A n \in Nat : n \in T
  <2> HIDE DEF T
  <2> QED BY <1>1, <1>2, Induction
<1> QED BY <1>3

LEMMA TotalCostIs ==
  ASSUME NEW h \in Seq(Message), NEW f, Sums(h, f)
  PROVE  TotalCost(h) = f[Len(h)] /\ TotalCost(h) \in Nat
<1> DEFINE W(g) == [k \in 0 .. Len(h) |-> IF k = 0 THEN 0 ELSE g[k - 1] + h[k].cost]
           c == CHOOSE g : g = W(g)
<1>0. Len(h) \in Nat
  OBVIOUS
<1>1. PICK e : Sums(h, e) /\ e \in [0 .. Len(h) -> Nat]
  BY SumsExist
<1>2. e = W(e)
  <2>1. \A k \in 0 .. Len(h) : e[k] = IF k = 0 THEN 0 ELSE e[k - 1] + h[k].cost
    BY <1>0, <1>1 DEF Sums
  <2> QED BY <1>1, <2>1
<1>3. c = W(c)
  <2> HIDE DEF W
  <2> QED BY <1>2
<1>4. TotalCost(h) = c[Len(h)]
  BY DEF TotalCost
<1> HIDE DEF c
<1>5. Sums(h, c)
  <2>1. \A k \in 0 .. Len(h) : W(c)[k] = IF k = 0 THEN 0 ELSE c[k - 1] + h[k].cost
    OBVIOUS
  <2> HIDE DEF W
  <2>2. \A k \in 0 .. Len(h) : c[k] = IF k = 0 THEN 0 ELSE c[k - 1] + h[k].cost
    BY <1>3, <2>1
  <2> QED BY <1>0, <2>2 DEF Sums
<1>6. c[Len(h)] = f[Len(h)] /\ c[Len(h)] = e[Len(h)]
  BY <1>0, <1>1, <1>5, SumsEqual
<1> QED BY <1>0, <1>1, <1>4, <1>6

(* What a round takes away with it, and what a compaction gives back.      *)
LEMMA CostWithout ==
  ASSUME NEW h \in Seq(Message), NEW first \in 1 .. Len(h), NEW last \in first + 1 .. Len(h) + 1
  PROVE  /\ TotalCost(Erase(h, first, last))
              = TotalCost(h) - TotalCost(SubSeq(h, first, last - 1))
         /\ TotalCost(Compact(h, first, last))
              = TotalCost(h) - TotalCost(SubSeq(h, first, last - 1)) + NoteCost
<1> DEFINE n == Len(h)
           d == last - first
           e == Erase(h, first, last)
           q == SubSeq(h, first, last - 1)
           p == Compact(h, first, last)
<1>1. /\ n \in Nat /\ first \in Nat /\ last \in Nat /\ d \in Nat /\ d >= 1
      /\ first + d = last /\ first >= 1 /\ last <= n + 1
  OBVIOUS
<1>2. PICK f : Sums(h, f) /\ f \in [0 .. n -> Nat]
  BY SumsExist
<1>3. /\ e \in Seq(Message) /\ Len(e) = n - d
      /\ \A k \in 1 .. n - d : e[k] = IF k < first THEN h[k] ELSE h[k + d]
  BY EraseEffect
<1>4. /\ q \in Seq(Message) /\ Len(q) = d /\ \A k \in 1 .. d : q[k] = h[first + k - 1]
  <2>1. \A k \in first .. last - 1 : h[k] \in Message
    OBVIOUS
  <2>2. first \in Int /\ last - 1 \in Int /\ first <= last - 1 /\ (last - 1) - first + 1 = d
    BY <1>1
  <2> QED BY <2>1, <2>2, SubSeqProperties
<1>5. /\ p \in Seq(Message) /\ Len(p) = n - d + 1
      /\ \A k \in 1 .. n - d + 1 :
           p[k] = IF k < first THEN h[k] ELSE IF k = first THEN Note ELSE h[k + d - 1]
  BY CompactEffect
<1> DEFINE c == f[last - 1] - f[first - 1]
           fq == [k \in 0 .. d |-> f[first - 1 + k] - f[first - 1]]
           fe == [k \in 0 .. n - d |-> IF k < first THEN f[k] ELSE f[k + d] - c]
           fp == [k \in 0 .. n - d + 1 |-> IF k < first THEN f[k]
                                           ELSE f[k + d - 1] - c + NoteCost]
<1>6. \A k \in 1 .. n : f[k] = f[k - 1] + h[k].cost
  BY <1>2 DEF Sums
<1>7. f[0] = 0 /\ c \in Int /\ \A k \in 0 .. n : f[k] \in Nat
  <2>1. last - 1 \in 0 .. n /\ first - 1 \in 0 .. n
    BY <1>1
  <2>2. \A k \in 0 .. n : f[k] \in Nat
    BY <1>2
  <2>3. f[last - 1] \in Nat /\ f[first - 1] \in Nat
    BY <2>1, <2>2
  <2> QED BY <1>2, <2>2, <2>3 DEF Sums
<1>8. \A k \in 1 .. n : h[k].cost \in Nat
  <2>1. \A m \in Message : m.cost \in Nat
    BY DEF Message
  <2>2. \A k \in 1 .. n : h[k] \in Message
    OBVIOUS
  <2> QED BY <2>1, <2>2
<1>9. Note.cost = NoteCost /\ NoteCost \in Nat
  BY ConversationAssumption DEF Note, UserMessage
<1> HIDE DEF e, q, p, n, d
<1>10. Sums(q, fq)
  <2>1. fq[0] = 0
    BY <1>1, <1>7
  <2>2. ASSUME NEW k \in 1 .. d PROVE fq[k] = fq[k - 1] + q[k].cost
    <3>1. first - 1 + k \in 1 .. n /\ first - 1 + k - 1 \in 0 .. n /\ first - 1 \in 0 .. n
      BY <1>1
    <3>2. f[first - 1 + k] = f[first - 1 + k - 1] + h[first - 1 + k].cost
      BY <1>6, <3>1
    <3>3. q[k] = h[first - 1 + k]
      <4>1. first + k - 1 = first - 1 + k
        BY <1>1
      <4> QED BY <1>4, <4>1
    <3>4. fq[k] = f[first - 1 + k] - f[first - 1] /\ fq[k - 1] = f[first - 1 + k - 1] - f[first - 1]
      <4>1. k \in 0 .. d /\ k - 1 \in 0 .. d /\ first - 1 + (k - 1) = first - 1 + k - 1
        BY <1>1
      <4> QED BY <4>1
    <3>5. f[first - 1 + k - 1] \in Nat /\ f[first - 1] \in Nat /\ h[first - 1 + k].cost \in Nat
      BY <1>7, <1>8, <3>1
    <3> HIDE DEF fq
    <3> QED BY <3>2, <3>3, <3>4, <3>5
  <2> QED BY <1>4, <2>1, <2>2 DEF Sums
<1>11. Sums(e, fe)
  <2>1. fe[0] = 0
    BY <1>1, <1>7
  <2>2. ASSUME NEW k \in 1 .. n - d PROVE fe[k] = fe[k - 1] + e[k].cost
    <3>1. k \in 1 .. n /\ k \in 0 .. n - d /\ k - 1 \in 0 .. n - d
      BY <1>1
    <3>2. CASE k < first
      <4>1. fe[k] = f[k] /\ fe[k - 1] = f[k - 1] /\ e[k] = h[k]
        BY <1>1, <1>3, <3>1, <3>2
      <4> QED BY <1>6, <3>1, <4>1
    <3>3. CASE k = first
      <4>1. fe[k] = f[k + d] - c /\ fe[k - 1] = f[first - 1] /\ e[k] = h[k + d]
        BY <1>1, <1>3, <3>1, <3>3
      <4>2. k + d = last /\ k + d \in 1 .. n /\ last - 1 \in 0 .. n
        BY <1>1, <3>3
      <4>3. f[last] = f[last - 1] + h[last].cost
        BY <1>6, <4>2
      <4>4. f[first - 1] \in Nat /\ f[last - 1] \in Nat
        BY <1>1, <1>7, <4>2
      <4> QED BY <1>8, <4>1, <4>2, <4>3, <4>4
    <3>4. CASE k > first
      <4>1. fe[k] = f[k + d] - c /\ fe[k - 1] = f[k + d - 1] - c /\ e[k] = h[k + d]
        <5>1. ~(k < first) /\ ~(k - 1 < first) /\ (k - 1) + d = k + d - 1
          BY <1>1, <3>4
        <5> QED BY <1>3, <3>1, <5>1
      <4>2. k + d \in 1 .. n /\ k + d - 1 \in 0 .. n
        BY <1>1
      <4>3. f[k + d] = f[k + d - 1] + h[k + d].cost
        <5>1. (k + d) - 1 = k + d - 1
          BY <1>1
        <5> QED BY <1>6, <4>2, <5>1
      <4>4. f[k + d - 1] \in Nat /\ h[k + d].cost \in Nat
        BY <1>7, <1>8, <4>2
      <4> HIDE DEF fe, c
      <4> QED BY <1>7, <4>1, <4>3, <4>4
    <3> QED BY <1>1, <3>2, <3>3, <3>4
  <2> QED BY <1>3, <2>1, <2>2 DEF Sums
<1>12. Sums(p, fp)
  <2>1. fp[0] = 0
    BY <1>1, <1>7
  <2>2. ASSUME NEW k \in 1 .. n - d + 1 PROVE fp[k] = fp[k - 1] + p[k].cost
    <3>1. k \in 1 .. n /\ k \in 0 .. n - d + 1 /\ k - 1 \in 0 .. n - d + 1
      BY <1>1
    <3>2. CASE k < first
      <4>1. fp[k] = f[k] /\ fp[k - 1] = f[k - 1] /\ p[k] = h[k]
        BY <1>1, <1>5, <3>1, <3>2
      <4> QED BY <1>6, <3>1, <4>1
    <3>3. CASE k = first
      <4>1. fp[k] = f[last - 1] - c + NoteCost /\ fp[k - 1] = f[first - 1] /\ p[k] = Note
        BY <1>1, <1>5, <3>1, <3>3
      <4>2. f[first - 1] \in Nat /\ f[last - 1] \in Nat
        BY <1>1, <1>7
      <4> QED BY <1>9, <4>1, <4>2
    <3>4. CASE k > first
      <4>1. /\ fp[k] = f[k + d - 1] - c + NoteCost
            /\ fp[k - 1] = f[k + d - 2] - c + NoteCost /\ p[k] = h[k + d - 1]
        <5>1. ~(k < first) /\ ~(k - 1 < first) /\ k # first /\ (k - 1) + d - 1 = k + d - 2
          BY <1>1, <3>4
        <5> QED BY <1>5, <3>1, <5>1
      <4>2. k + d - 1 \in 1 .. n /\ k + d - 2 \in 0 .. n /\ (k + d - 1) - 1 = k + d - 2
        BY <1>1, <3>4
      <4>3. f[k + d - 1] = f[k + d - 2] + h[k + d - 1].cost
        BY <1>6, <4>2
      <4>4. f[k + d - 2] \in Nat /\ h[k + d - 1].cost \in Nat
        BY <1>7, <1>8, <4>2
      <4> DEFINE A == f[k + d - 2]
                 B == h[k + d - 1].cost
      <4>5. fp[k] = (A + B) - c + NoteCost /\ fp[k - 1] = A - c + NoteCost /\ p[k].cost = B
        <5> HIDE DEF fp, c
        <5> QED BY <4>1, <4>3
      <4>6. A \in Nat /\ B \in Nat /\ c \in Int /\ NoteCost \in Nat
        <5> HIDE DEF c
        <5> QED BY <1>7, <1>9, <4>4
      <4> HIDE DEF fp, c, A, B
      <4> QED BY <4>5, <4>6
    <3> QED BY <1>1, <3>2, <3>3, <3>4
  <2> QED BY <1>5, <2>1, <2>2 DEF Sums
<1>13. /\ fq[d] = c
       /\ fe[n - d] = f[n] - c
       /\ fp[n - d + 1] = f[n] - c + NoteCost
  <2>1. fq[d] = c
    BY <1>1
  <2>2. fe[n - d] = f[n] - c
    <3>1. CASE n - d < first
      <4>1. n - d = first - 1 /\ n = last - 1 /\ fe[n - d] = f[n - d]
        BY <1>1, <3>1
      <4> QED BY <1>1, <1>7, <4>1
    <3>2. CASE ~(n - d < first)
      BY <1>1, <3>2
    <3> QED BY <3>1, <3>2
  <2>3. fp[n - d + 1] = f[n] - c + NoteCost
    <3>1. ~(n - d + 1 < first) /\ n - d + 1 \in 0 .. n - d + 1 /\ (n - d + 1) + d - 1 = n
      BY <1>1
    <3> QED BY <3>1
  <2> QED BY <2>1, <2>2, <2>3
<1> HIDE DEF fq, fe, fp, c
<1>14. TotalCost(h) = f[n] /\ TotalCost(q) = c /\ TotalCost(e) = f[n] - c
       /\ TotalCost(p) = f[n] - c + NoteCost
  <2>1. Len(h) = n
    BY DEF n
  <2> QED BY <1>2, <1>3, <1>4, <1>5, <1>10, <1>11, <1>12, <1>13, <2>1, TotalCostIs
<1> QED BY <1>14 DEF e, q, p

----------------------------------------------------------------------------
(* The token budget.                                                       *)

(* Message k is in a round with a pinned message before position m.        *)
PinnedRound(h, k, m) ==
  /\ InRound(h[k])
  /\ \E j \in 2 .. m - 1 : /\ h[j].pinned
                           /\ \A n \in (k .. j) \cup (j .. k) : InRound(h[n])

(* Why the loop has spared what is before position m.                      *)
Passed(h, m) ==
  \A k \in 2 .. m - 1 : h[k].pinned \/ h[k] = Note \/ PinnedRound(h, k, m)

(* BudgetMet of any history.                                               *)
Met(h) ==
  TotalCost(h) > opts.maxTokens =>
    \A k \in 2 .. Len(h) :
      \/ h[k].pinned
      \/ h[k] = Note
      \/ \A j \in k + 1 .. Len(h) : IsTool(h[j])
      \/ PinnedRound(h, k, Len(h) + 1)

(* The loop knows the total and has a reason for all it has passed; what   *)
(* it leaves stays until the next message.                                 *)
TotalInv ==
  /\ opts \in Agents /\ cont # "loop"
  /\ pc = "loop" => Budgeted
  /\ TotalExact
  /\ Budgeted => /\ pc = "loop" => Passed(history, i)
                 /\ pc \in {"turn", "chat", "tools"} => Met(history)

LEMMA PassedKept ==
  ASSUME NEW h, NEW g, NEW m \in Nat, Passed(h, m), \A k \in 2 .. m - 1 : g[k] = h[k]
  PROVE  Passed(g, m)
<1> SUFFICES ASSUME NEW k \in 2 .. m - 1, PinnedRound(h, k, m) PROVE PinnedRound(g, k, m)
  BY DEF Passed
<1>1. PICK j \in 2 .. m - 1 : /\ h[j].pinned
                              /\ \A n \in (k .. j) \cup (j .. k) : InRound(h[n])
  BY DEF PinnedRound
<1>2. \A n \in (k .. j) \cup (j .. k) : n \in 2 .. m - 1
  OBVIOUS
<1> QED BY <1>1, <1>2 DEF PinnedRound

(* A longer prefix may only have more reasons.                             *)
LEMMA PinnedRoundGrows ==
  ASSUME NEW h, NEW k, NEW m \in Nat, NEW l \in Nat, m <= l, PinnedRound(h, k, m)
  PROVE  PinnedRound(h, k, l)
<1>1. \A j \in 2 .. m - 1 : j \in 2 .. l - 1
  OBVIOUS
<1> QED BY <1>1 DEF PinnedRound

(* The loop goes on.                                                       *)
LEMMA TotalSkip ==
  ASSUME ConvInv, TotalInv, opts' = opts, SkipPinned \/ SkipPinnedSpan
  PROVE  TotalInv'
<1>1. /\ pc = "loop" /\ ~LoopEnds /\ Budgeted /\ BudgetInv
      /\ history' = history /\ total' = total /\ pc' = "loop"
  BY DEF SkipPinned, SkipPinnedSpan, TotalInv, ConvInv
<1>2. /\ i \in 2 .. Len(history) - 1 /\ Len(history) \in Nat
      /\ ~history[i].pinned =>
           /\ SpanEnd(history, i) \in i + 1 .. Len(history)
           /\ \A j \in i + 1 .. SpanEnd(history, i) - 1 : IsTool(history[j])
           /\ ~IsRequest(history[i]) => SpanEnd(history, i) = i + 1
  BY <1>1, LoopFacts
<1>3. Passed(history, i)
  BY <1>1 DEF TotalInv
<1>4. Passed(history, i')
  <2> SUFFICES ASSUME NEW k \in 2 .. i' - 1
               PROVE  history[k].pinned \/ history[k] = Note \/ PinnedRound(history, k, i')
    BY DEF Passed
  <2>1. i' \in Nat /\ i <= i'
    BY <1>2 DEF SkipPinned, SkipPinnedSpan
  <2>2. CASE k \in 2 .. i - 1
    BY <1>2, <1>3, <2>1, <2>2, PinnedRoundGrows DEF Passed
  <2>3. CASE k \notin 2 .. i - 1 /\ SkipPinned
    BY <1>2, <2>3 DEF SkipPinned
  <2>4. CASE k \notin 2 .. i - 1 /\ SkipPinnedSpan
    <3> DEFINE e == SpanEnd(history, i)
    <3>1. ~history[i].pinned /\ i' = e /\ e \in i + 1 .. Len(history)
      BY <1>2, <2>4 DEF SkipPinnedSpan
    <3>2. PICK j \in i .. e - 1 : history[j].pinned
      BY <2>4 DEF SkipPinnedSpan
    <3>3. \A n \in i + 1 .. e - 1 : IsTool(history[n])
      BY <1>2, <3>1
    <3>4. IsRequest(history[i])
      <4> SUFFICES ASSUME ~IsRequest(history[i]) PROVE FALSE
        OBVIOUS
      <4>1. e = i + 1
        BY <1>2, <3>1
      <4> HIDE DEF e
      <4>2. j = i
        BY <1>2, <3>2, <4>1
      <4> QED BY <3>1, <3>2, <4>2
    <3> HIDE DEF e
    <3>5. \A n \in i .. e - 1 : InRound(history[n])
      BY <1>2, <3>1, <3>3, <3>4 DEF InRound
    <3>6. k \in i .. e - 1 /\ j \in 2 .. e - 1
      BY <1>2, <2>4, <3>1, <3>2
    <3>7. \A n \in (k .. j) \cup (j .. k) : n \in i .. e - 1
      BY <1>2, <3>1, <3>2, <3>6
    <3> QED BY <3>1, <3>2, <3>5, <3>6, <3>7 DEF PinnedRound
  <2> QED BY <2>2, <2>3, <2>4
<1> QED BY <1>1, <1>4 DEF SkipPinned, SkipPinnedSpan, TotalInv, TotalExact, Budgeted

(* The cost of a round is known exactly, whatever replaces it.             *)
LEMMA TotalDrop ==
  ASSUME ConvInv, TotalInv, opts' = opts, DropSpan
  PROVE  TotalInv'
<1> DEFINE e == SpanEnd(history, i)
           cost == TotalCost(SubSeq(history, i, e - 1))
<1>1. /\ pc = "loop" /\ ~LoopEnds /\ Budgeted /\ BudgetInv /\ pc' = pc
      /\ \A k \in i .. e - 1 : ~history[k].pinned
      /\ IF opts.compacting
         THEN /\ history' = Compact(history, i, e)
              /\ total' = total - cost + NoteCost
              /\ i' = i + 1
         ELSE /\ history' = Erase(history, i, e)
              /\ total' = total - cost
              /\ i' = i
  BY DEF DropSpan, TotalInv, ConvInv
<1>2. /\ history \in Seq(Message) /\ i \in 2 .. Len(history) - 1 /\ Len(history) \in Nat
      /\ i \in 1 .. Len(history) /\ e \in i + 1 .. Len(history) + 1
  <2>1. /\ history \in Seq(Message) /\ i \in 2 .. Len(history) - 1 /\ Len(history) \in Nat
    BY <1>1, LoopFacts
  <2>2. i \in 1 .. Len(history)
    BY <2>1
  <2> QED BY <2>1, <2>2, SpanEndEffect
<1>3. Passed(history, i) /\ total = TotalCost(history)
  BY <1>1 DEF TotalInv, TotalExact
<1> HIDE DEF e
<1>4. /\ TotalCost(Erase(history, i, e)) = TotalCost(history) - cost
      /\ TotalCost(Compact(history, i, e)) = TotalCost(history) - cost + NoteCost
  BY <1>2, CostWithout
<1>5. CASE opts.compacting
  <2>1. history' = Compact(history, i, e) /\ i' = i + 1 /\ total' = total - cost + NoteCost
    BY <1>1, <1>5
  <2>2. \A k \in 1 .. Len(history) - (e - i) + 1 :
           history'[k] = IF k < i THEN history[k] ELSE IF k = i THEN Note
                         ELSE history[k + (e - i) - 1]
    BY <1>2, <2>1, CompactEffect
  <2>3. \A k \in 2 .. i - 1 : history'[k] = history[k]
    BY <1>2, <2>2
  <2>4. history'[i] = Note
    BY <1>2, <2>2
  <2>5. Passed(history', i)
    BY <1>2, <1>3, <2>3, PassedKept
  <2>6. ASSUME NEW k \in 2 .. i' - 1
        PROVE  history'[k].pinned \/ history'[k] = Note \/ PinnedRound(history', k, i')
    <3>1. CASE k = i
      BY <2>4, <3>1
    <3>2. CASE k # i
      <4>1. k \in 2 .. i - 1
        BY <1>2, <2>1, <3>2
      <4>2. i \in Nat /\ i' \in Nat /\ i <= i'
        BY <1>2, <2>1
      <4> QED BY <2>5, <4>1, <4>2, PinnedRoundGrows DEF Passed
    <3> QED BY <3>1, <3>2
  <2>7. Passed(history, i)'
    BY <2>6 DEF Passed, PinnedRound, InRound, IsTool, IsRequest, Note, UserMessage
  <2>8. total' = TotalCost(history')
    BY <1>3, <1>4, <2>1
  <2> QED BY <1>1, <2>7, <2>8 DEF DropSpan, TotalInv, TotalExact, Budgeted
<1>6. CASE ~opts.compacting
  <2>1. history' = Erase(history, i, e) /\ i' = i /\ total' = total - cost
    BY <1>1, <1>6
  <2>2. \A k \in 1 .. Len(history) - (e - i) :
           history'[k] = IF k < i THEN history[k] ELSE history[k + (e - i)]
    <3>1. i \in 1 .. Len(history) + 1 /\ e \in i .. Len(history) + 1
      BY <1>2
    <3> QED BY <1>2, <2>1, <3>1, EraseEffect
  <2>3. \A k \in 2 .. i - 1 : history'[k] = history[k]
    BY <1>2, <2>2
  <2>4. Passed(history', i)
    BY <1>2, <1>3, <2>3, PassedKept
  <2>5. Passed(history, i)'
    BY <2>1, <2>4 DEF Passed, PinnedRound, InRound, IsTool, IsRequest, Note, UserMessage
  <2>6. total' = TotalCost(history')
    BY <1>3, <1>4, <2>1
  <2> QED BY <1>1, <2>5, <2>6 DEF DropSpan, TotalInv, TotalExact, Budgeted
<1> QED BY <1>5, <1>6

(* The loop ends within budget or at the last round.                       *)
LEMMA TotalGuard ==
  ASSUME ConvInv, TotalInv, opts' = opts, GuardOrphans
  PROVE  TotalInv'
<1>1. /\ pc = "loop" /\ LoopEnds /\ Budgeted /\ BudgetInv /\ history # <<>>
      /\ pc' = cont /\ pc' \in {"idle", "turn", "tools"}
      /\ history' = Erase(history, StartIdx(history),
                          SkipLooseTools(history, StartIdx(history)))
  BY DEF GuardOrphans, TotalInv, ConvInv, BudgetInv, TypesOK
<1>2. history' = history
  BY <1>1, GuardIdle DEF BudgetInv
<1>3. /\ history \in Seq(Message) /\ Len(history) \in Nat /\ i \in 2 .. Len(history) + 1
  BY <1>1 DEF BudgetInv, Formed, AtMessage
<1>4. Passed(history, i) /\ total = TotalCost(history)
  BY <1>1 DEF TotalInv, TotalExact
<1>5. opts.maxTokens \in Nat
  BY ConversationAssumption DEF TotalInv, Options
<1>6. Met(history)
  <2> SUFFICES ASSUME TotalCost(history) > opts.maxTokens, NEW k \in 2 .. Len(history)
               PROVE  \/ history[k].pinned
                      \/ history[k] = Note
                      \/ \A j \in k + 1 .. Len(history) : IsTool(history[j])
                      \/ PinnedRound(history, k, Len(history) + 1)
    BY DEF Met
  <2>1. CASE k \in 2 .. i - 1
    <3>1. i \in Nat /\ Len(history) + 1 \in Nat /\ i <= Len(history) + 1
      BY <1>3
    <3> QED BY <1>4, <2>1, <3>1, PinnedRoundGrows DEF Passed
  <2>2. CASE k \notin 2 .. i - 1
    <3>1. k \in i .. Len(history) /\ i \in 1 .. Len(history)
      BY <1>3, <2>2
    <3>2. ~(total <= opts.maxTokens)
      <4>1. TotalCost(history) \in Nat
        <5>1. PICK f : Sums(history, f)
          BY <1>3, SumsExist
        <5> QED BY <1>3, <5>1, TotalCostIs
      <4> QED BY <1>4, <1>5, <4>1
    <3>3. i + 1 > Len(history) \/ SpanEnd(history, i) > Len(history)
      BY <1>1, <3>2 DEF LoopEnds
    <3>4. CASE i + 1 > Len(history)
      <4>1. k + 1 > Len(history)
        BY <1>3, <3>1, <3>4
      <4> QED BY <1>3, <4>1
    <3>5. CASE SpanEnd(history, i) > Len(history)
      <4>1. \A j \in i + 1 .. SpanEnd(history, i) - 1 : IsTool(history[j])
        BY <1>3, <3>1, SpanEndEffect
      <4>2. SpanEnd(history, i) = Len(history) + 1
        <5>1. SpanEnd(history, i) \in i + 1 .. Len(history) + 1
          BY <1>3, <3>1, SpanEndEffect
        <5> QED BY <1>3, <3>5, <5>1
      <4>3. \A j \in k + 1 .. Len(history) : j \in i + 1 .. SpanEnd(history, i) - 1
        BY <1>3, <3>1, <4>2
      <4> QED BY <4>1, <4>3
    <3> QED BY <3>3, <3>4, <3>5
  <2> QED BY <2>1, <2>2
<1>7. Met(history)'
  BY <1>2, <1>6 DEF Met, PinnedRound, InRound, IsTool, IsRequest, Note, UserMessage
<1> QED BY <1>1, <1>7 DEF GuardOrphans, TotalInv, TotalExact, Budgeted

(* The loop is entered with the total just summed up.                      *)
LEMMA TotalPrune ==
  ASSUME ConvInv, TotalInv, opts' = opts, Prune
  PROVE  TotalInv'
<1>1. opts.maxTokens \in Nat /\ pc = "prune"
  BY ConversationAssumption DEF TotalInv, Options, Prune
<1>2. CASE opts.maxTokens = 0
  <2>1. ~Budgeted /\ ~Budgeted'
    BY <1>2 DEF Budgeted
  <2>2. pc' # "loop"
    <3>1. pc' = cont
      BY <1>2 DEF Prune
    <3> QED BY <3>1 DEF TotalInv
  <2> QED BY <2>1, <2>2 DEF Prune, TotalInv, TotalExact
<1>3. CASE opts.maxTokens # 0
  <2>1. Budgeted /\ BudgetInv
    BY <1>1, <1>3 DEF Budgeted, ConvInv
  <2>2. /\ total' = TotalCost(history) /\ i' = StartIdx(history) /\ history' = history
        /\ pc' = IF TotalCost(history) <= opts.maxTokens THEN cont ELSE "loop"
    BY <1>3 DEF Prune
  <2>3. StartIdx(history) = 2
    BY <1>1, <2>1 DEF BudgetInv, Formed, StartIdx
  <2>4. Passed(history, i)'
    BY <2>2, <2>3 DEF Passed
  <2>5. cont # "loop"
    BY <2>1 DEF BudgetInv, TypesOK
  <2>6. ASSUME pc' # "loop" PROVE Met(history)'
    <3>1. TotalCost(history) <= opts.maxTokens
      BY <2>2, <2>6
    <3>2. TotalCost(history) \in Nat
      <4>1. history \in Seq(Message)
        BY <2>1 DEF BudgetInv, Formed
      <4>2. PICK f : Sums(history, f)
        BY <4>1, SumsExist
      <4> QED BY <4>1, <4>2, TotalCostIs
    <3>3. ~(TotalCost(history') > opts'.maxTokens)
      BY <1>1, <2>2, <3>1, <3>2
    <3> QED BY <3>3 DEF Met
  <2>7. TotalExact'
    BY <2>2 DEF TotalExact
  <2> QED BY <2>1, <2>4, <2>6, <2>7 DEF Prune, TotalInv, Budgeted
<1> QED BY <1>2, <1>3

LEMMA TotalStep == ConvInv /\ TotalInv /\ [Next]_vars => TotalInv'
<1> SUFFICES ASSUME ConvInv, TotalInv, [Next]_vars PROVE TotalInv'
  OBVIOUS
<1>1. opts' = opts
  BY DEF Next, vars
<1>0. cont' # "loop"
  <2>1. cont' = cont \/ cont' \in {"idle", "turn", "tools"}
    BY DEF Next, vars, Agent, Inside, PruneStep, Prune, SkipPinned, SkipPinnedSpan, DropSpan,
           GuardOrphans, TurnCap, AskLLM, Reply, ChatThrows, ExecuteTool, ToolThrows, ToolsDone,
           Reset, SetSystemPrompt, PinNextUserMessage, PinMessageAt, SendMessage, CallPrune
  <2> QED BY <2>1 DEF TotalInv
<1>2. CASE UNCHANGED vars
  <2>1. pc' = pc /\ history' = history /\ i' = i /\ total' = total
    BY <1>2 DEF vars
  <2>2. TotalExact'
    BY <2>1 DEF TotalInv, TotalExact
  <2>3. Passed(history, i)' <=> Passed(history, i)
    BY <2>1 DEF Passed, PinnedRound, InRound, IsTool, IsRequest, Note, UserMessage
  <2>4. Met(history)' <=> Met(history)
    BY <1>1, <2>1 DEF Met, PinnedRound, InRound, IsTool, IsRequest, Note, UserMessage
  <2> QED BY <1>0, <1>1, <2>1, <2>2, <2>3, <2>4 DEF TotalInv, Budgeted
<1>3. ASSUME history' = history, pc' \notin {"loop"},
             pc' \in {"turn", "chat", "tools"} => pc \in {"turn", "chat", "tools"}
      PROVE  TotalInv'
  <2>1. Met(history)' <=> Met(history)
    BY <1>1, <1>3 DEF Met, PinnedRound, InRound, IsTool, IsRequest, Note, UserMessage
  <2> QED BY <1>0, <1>1, <1>3, <2>1 DEF TotalInv, TotalExact, Budgeted
<1>4. ASSUME pc' \notin {"loop", "turn", "chat", "tools"} PROVE TotalInv'
  BY <1>0, <1>1, <1>4 DEF TotalInv, TotalExact, Budgeted
<1>5. CASE Agent
  <2>1. pc' \in {"idle", "prune"}
    BY <1>5 DEF Agent, Reset, SetSystemPrompt, PinNextUserMessage, PinMessageAt, SendMessage,
                CallPrune
  <2> QED BY <1>4, <2>1
<1>6. CASE TurnCap \/ AskLLM \/ ChatThrows \/ ToolThrows \/ ToolsDone
  <2>1. /\ history' = history /\ pc' \in {"idle", "chat", "turn"}
        /\ pc \in {"turn", "chat", "tools"}
    BY <1>6 DEF TurnCap, AskLLM, ChatThrows, ToolThrows, ToolsDone
  <2> QED BY <1>3, <2>1
<1>7. CASE Reply \/ ExecuteTool
  <2>1. pc' = "prune"
    BY <1>7 DEF Reply, ExecuteTool, CallPrune
  <2> QED BY <1>4, <2>1
<1> QED
  BY <1>1, <1>2, <1>5, <1>6, <1>7, TotalPrune, TotalSkip, TotalDrop, TotalGuard
     DEF Next, Inside, PruneStep

LEMMA TotalAlways == Spec => []TotalInv
<1>1. Init => TotalInv
  BY DEF Init, TotalInv, TotalExact
<1> QED BY <1>1, TotalStep, ConvInvariant, PTL DEF Spec

(* The `total' of the pruning loop, kept by subtraction, is always the cost *)
(* of the messages left: a natural number, so the size_t cannot wrap.       *)
THEOREM BudgetTotalExact == Spec => []TotalExact
<1>1. TotalInv => TotalExact
  BY DEF TotalInv
<1> QED BY <1>1, TotalAlways, PTL

(* When the LLM is asked the history is within budget, or nothing that may *)
(* be dropped is left: for every budget and whatever is pinned.            *)
THEOREM BudgetIsMet == Spec => []BudgetMet
<1>1. ASSUME TotalInv PROVE BudgetMet
  <2> SUFFICES ASSUME pc = "chat", opts.maxTokens > 0, TotalCost(history) > opts.maxTokens,
                      NEW k \in 2 .. Len(history)
               PROVE  \/ history[k].pinned
                      \/ history[k] = Note
                      \/ \A j \in k + 1 .. Len(history) : IsTool(history[j])
                      \/ /\ IsTool(history[k]) \/ IsRequest(history[k])
                         /\ \E j \in 2 .. Len(history) :
                               /\ history[j].pinned
                               /\ \A n \in (k .. j) \cup (j .. k) :
                                     IsTool(history[n]) \/ IsRequest(history[n])
    BY DEF BudgetMet
  <2>1. \/ history[k].pinned
        \/ history[k] = Note
        \/ \A j \in k + 1 .. Len(history) : IsTool(history[j])
        \/ PinnedRound(history, k, Len(history) + 1)
    BY <1>1 DEF TotalInv, Met, Budgeted
  <2>2. (Len(history) + 1) - 1 = Len(history)
    OBVIOUS
  <2> QED BY <2>1, <2>2 DEF PinnedRound, InRound
<1>2. TotalInv => BudgetMet
  BY <1>1
<1> QED BY <1>2, TotalAlways, PTL

----------------------------------------------------------------------------
(* The count window.  A round loses its request only after its last        *)
(* response, when a reply holds fewer calls than the window messages.      *)

Windowed == opts.maxTokens = 0 /\ CallBound < opts.maxHistory

(* Calls of a reply wait for their responses. *)
Pending == todo # <<>> /\ (pc = "tools" \/ (pc = "prune" /\ cont = "tools"))

(* The history ends in the round of the waiting calls, and the round will  *)
(* hold no more responses than a reply holds calls.                        *)
OpenCalls ==
  Pending => \E p \in 2 .. Len(history) :
               /\ IsRequest(history[p])
               /\ \A k \in p + 1 .. Len(history) : IsTool(history[k])
               /\ (Len(history) - p) + Len(todo) <= CallBound

CountInv ==
  /\ TypesOK
  /\ Formed(history) /\ Unbroken(history)
  /\ pc # "idle" => history # <<>>
  /\ pc # "loop"
  /\ OpenCalls

WindowInv == Windowed => CountInv

(* What is cut off by the window ends before a message that is no          *)
(* response, and not behind one that is well inside the window.            *)
LEMMA CountEffect ==
  ASSUME opts \in Agents, NEW h \in Seq(Message), h # <<>>, h[1].role = "SYSTEM"
  PROVE  \/ PruneByCount(h) = h
         \/ \E e \in 2 .. Len(h) + 1 :
              /\ PruneByCount(h) = Erase(h, 2, e)
              /\ e <= Len(h) => ~IsTool(h[e])
              /\ \A p \in 2 .. Len(h) :
                   ~IsTool(h[p]) /\ Len(h) - p <= opts.maxHistory - 2 => e <= p
<1>1. Len(h) \in Nat /\ Len(h) >= 1 /\ opts.maxHistory \in Nat \ {0}
  BY EmptySeq, ConversationAssumption DEF Options
<1>2. StartIdx(h) = 2
  BY DEF StartIdx
<1> DEFINE excess == Len(h) - opts.maxHistory
<1>3. CASE excess <= 0
  BY <1>1, <1>3 DEF PruneByCount
<1>4. CASE ~(excess <= 0)
  <2> DEFINE e == SkipTools(h, 2 + excess)
  <2>1. PruneByCount(h) = Erase(h, 2, e)
    <3>1. ~(excess > Len(h) - (2 - 1))
      BY <1>1
    <3> QED BY <1>2, <1>4, <3>1 DEF PruneByCount
  <2>2. 2 + excess \in 1 .. Len(h) + 1 /\ excess \in Nat
    BY <1>1, <1>4
  <2>3. /\ e \in 2 + excess .. Len(h) + 1
        /\ \A j \in 2 + excess .. e - 1 : IsTool(h[j])
        /\ e <= Len(h) => ~IsTool(h[e])
    BY <2>2, SkipToolsEffect
  <2> HIDE DEF e
  <2>4. ASSUME NEW p \in 2 .. Len(h), ~IsTool(h[p]), Len(h) - p <= opts.maxHistory - 2
        PROVE  e <= p
    <3>1. 2 + excess <= p
      BY <1>1, <2>4
    <3>2. ~(p \in 2 + excess .. e - 1)
      BY <2>3, <2>4
    <3> QED BY <1>1, <2>2, <2>3, <3>1, <3>2
  <2>5. e \in 2 .. Len(h) + 1
    BY <1>1, <2>2, <2>3
  <2> QED BY <2>1, <2>3, <2>4, <2>5
<1> QED BY <1>3, <1>4

(* Dropping messages after the system prompt, up to one that is no         *)
(* response, strands no response.                                          *)
LEMMA CutKeeps ==
  ASSUME NEW h, Formed(h), h # <<>>, Unbroken(h), NEW e \in 2 .. Len(h) + 1,
         e <= Len(h) => ~IsTool(h[e])
  PROVE  /\ Formed(Erase(h, 2, e)) /\ Unbroken(Erase(h, 2, e)) /\ Erase(h, 2, e) # <<>>
         /\ Len(Erase(h, 2, e)) = Len(h) - (e - 2)
         /\ \A k \in 2 .. Len(h) - (e - 2) : Erase(h, 2, e)[k] = h[k + (e - 2)]
<1> DEFINE g == Erase(h, 2, e)
<1>1. /\ h \in Seq(Message) /\ Len(h) \in Nat /\ Len(h) >= 1
      /\ DOMAIN h = 1 .. Len(h) /\ h[1].role = "SYSTEM" /\ h[1].cost = SysCost
  BY EmptySeq DEF Formed
<1>2. 2 \in 1 .. Len(h) + 1 /\ e \in Nat /\ e >= 2 /\ e <= Len(h) + 1
  BY <1>1
<1>3. /\ g \in Seq(Message) /\ Len(g) = Len(h) - (e - 2)
      /\ \A k \in 1 .. Len(h) - (e - 2) : g[k] = IF k < 2 THEN h[k] ELSE h[k + (e - 2)]
  BY <1>1, <1>2, EraseEffect
<1> HIDE DEF g
<1>4. Len(g) >= 1 /\ g[1] = h[1] /\ DOMAIN g = 1 .. Len(g)
  BY <1>1, <1>2, <1>3
<1>5. \A k \in 2 .. Len(g) : g[k] = h[k + (e - 2)]
  BY <1>1, <1>2, <1>3
<1>6. Len(g) >= 2 => ~IsTool(g[2])
  BY <1>1, <1>2, <1>3, <1>5
<1>7. g # <<>>
  BY <1>4, EmptySeq
<1>8. Unbroken(g)
  <2> SUFFICES ASSUME NEW k \in DOMAIN g, IsTool(g[k])
               PROVE  k > 1 /\ InRound(g[k-1])
    BY DEF Unbroken
  <2>1. k # 1
    BY <1>1, <1>4 DEF IsTool
  <2>2. k \in 3 .. Len(g) /\ k - 1 \in 2 .. Len(g)
    BY <1>1, <1>2, <1>3, <1>4, <1>6, <2>1
  <2>3. g[k] = h[k + (e - 2)] /\ g[k-1] = h[(k + (e - 2)) - 1]
    <3>1. (k - 1) + (e - 2) = (k + (e - 2)) - 1
      BY <1>2, <2>2
    <3>2. k \in 2 .. Len(g)
      BY <2>2
    <3> QED BY <1>5, <2>2, <3>1, <3>2
  <2>4. k + (e - 2) \in DOMAIN h
    BY <1>1, <1>2, <1>3, <2>2
  <2>5. InRound(h[(k + (e - 2)) - 1])
    BY <2>3, <2>4 DEF Unbroken
  <2> QED BY <2>2, <2>3, <2>5
<1>9. Formed(g)
  BY <1>1, <1>3, <1>4, <1>6, <1>7 DEF Formed
<1> QED BY <1>3, <1>5, <1>7, <1>8, <1>9 DEF g

LEMMA WindowPrune ==
  ASSUME CountInv, Windowed, opts' = opts, PruneStep
  PROVE  CountInv'
<1>1. /\ TypesOK /\ Formed(history) /\ Unbroken(history) /\ pc # "loop" /\ OpenCalls
      /\ pc = "prune" => history # <<>>
  BY DEF CountInv
<1>2. Prune
  BY <1>1 DEF PruneStep, SkipPinned, SkipPinnedSpan, DropSpan, GuardOrphans
<1>3. /\ pc = "prune" /\ history' = PruneByCount(history) /\ pc' = cont
      /\ UNCHANGED <<i, pinNext, cont, todo>>
  BY <1>2 DEF Prune, Windowed
<1>4. TypesOK' /\ pc' # "loop"
  BY <1>1, <1>3 DEF TypesOK, PCs
<1>5. history # <<>> /\ history \in Seq(Message) /\ history[1].role = "SYSTEM"
  BY <1>1, <1>3 DEF Formed
<1>6. Pending' => Pending
  BY <1>1, <1>3 DEF Pending, TypesOK
<1>7. CASE history' = history
  BY <1>1, <1>3, <1>4, <1>5, <1>6, <1>7 DEF CountInv, OpenCalls
<1>8. CASE \E e \in 2 .. Len(history) + 1 :
              /\ history' = Erase(history, 2, e)
              /\ e <= Len(history) => ~IsTool(history[e])
              /\ \A p \in 2 .. Len(history) :
                   ~IsTool(history[p]) /\ Len(history) - p <= opts.maxHistory - 2 => e <= p
  <2>1. PICK e \in 2 .. Len(history) + 1 :
              /\ history' = Erase(history, 2, e)
              /\ e <= Len(history) => ~IsTool(history[e])
              /\ \A p \in 2 .. Len(history) :
                   ~IsTool(history[p]) /\ Len(history) - p <= opts.maxHistory - 2 => e <= p
    BY <1>8
  <2>2. /\ Formed(history') /\ Unbroken(history') /\ history' # <<>>
        /\ Len(history') = Len(history) - (e - 2)
        /\ \A k \in 2 .. Len(history) - (e - 2) : history'[k] = history[k + (e - 2)]
    BY <1>1, <1>5, <2>1, CutKeeps
  <2>3. OpenCalls'
    <3> SUFFICES ASSUME Pending'
                 PROVE  \E p \in 2 .. Len(history') :
                           /\ IsRequest(history'[p])
                           /\ \A k \in p + 1 .. Len(history') : IsTool(history'[k])
                           /\ (Len(history') - p) + Len(todo') <= CallBound
      BY DEF OpenCalls
    <3>1. PICK p \in 2 .. Len(history) :
                 /\ IsRequest(history[p])
                 /\ \A k \in p + 1 .. Len(history) : IsTool(history[k])
                 /\ (Len(history) - p) + Len(todo) <= CallBound
      BY <1>1, <1>6 DEF OpenCalls
    <3>2. Len(todo) \in Nat /\ Len(todo) >= 1 /\ Len(history) \in Nat
      BY <1>1, <1>5, <1>6, EmptySeq DEF Pending, TypesOK
    <3>3. opts.maxHistory \in Nat /\ CallBound \in Nat /\ CallBound < opts.maxHistory
      BY <1>1, ConversationAssumption DEF Windowed, TypesOK, Options
    <3>4. ~IsTool(history[p])
      BY <3>1 DEF IsRequest, IsTool
    <3>5. Len(history) - p <= opts.maxHistory - 2
      BY <3>1, <3>2, <3>3
    <3>6. e <= p
      BY <2>1, <3>4, <3>5
    <3> DEFINE q == p - (e - 2)
    <3>7. q \in 2 .. Len(history') /\ q + (e - 2) = p
      BY <2>2, <3>2, <3>6
    <3>8. history'[q] = history[p]
      BY <2>2, <3>2, <3>7
    <3>9. ASSUME NEW k \in q + 1 .. Len(history') PROVE IsTool(history'[k])
      <4>1. k \in 2 .. Len(history) - (e - 2) /\ k + (e - 2) \in p + 1 .. Len(history)
        BY <2>2, <3>2, <3>7
      <4> QED BY <2>2, <3>1, <4>1
    <3>10. (Len(history') - q) + Len(todo') = (Len(history) - p) + Len(todo)
      BY <1>3, <2>2, <3>2, <3>7
    <3> QED BY <3>1, <3>7, <3>8, <3>9, <3>10
  <2> QED BY <1>4, <2>2, <2>3 DEF CountInv
<1> QED BY <1>1, <1>3, <1>5, <1>7, <1>8, CountEffect DEF TypesOK

LEMMA WindowAgent == ASSUME CountInv, opts' = opts, Agent PROVE CountInv'
<1>1. TypesOK /\ Formed(history) /\ Unbroken(history)
  BY DEF CountInv
<1>2. CASE Reset
  <2>1. /\ history' = <<>> /\ pc' = "idle" /\ TypesOK'
    BY <1>1, <1>2 DEF Reset, TypesOK
  <2>2. Formed(history') /\ Unbroken(history')
    BY <2>1, EmptySeq DEF Formed, Unbroken
  <2> QED BY <2>1, <2>2 DEF CountInv, OpenCalls, Pending
<1>3. CASE SetSystemPrompt
  <2>1. /\ history' = WithSystem(history) /\ pc' = "prune" /\ cont' = "idle" /\ TypesOK'
    BY <1>1, <1>3 DEF SetSystemPrompt, CallPrune, TypesOK, PCs
  <2>2. Formed(history') /\ Unbroken(history') /\ history' # <<>>
    BY <1>1, <2>1, WithSystemKeeps
  <2> QED BY <2>1, <2>2 DEF CountInv, OpenCalls, Pending
<1>4. CASE PinNextUserMessage
  <2>1. TypesOK' /\ pc' = "idle" /\ history' = history
    BY <1>1, <1>4 DEF PinNextUserMessage, TypesOK
  <2> QED BY <1>1, <2>1 DEF CountInv, OpenCalls, Pending
<1>5. CASE PinMessageAt
  <2>1. /\ pc' = "idle" /\ TypesOK'
    BY <1>1, <1>5 DEF PinMessageAt, TypesOK
  <2>2. Formed(history') /\ Unbroken(history')
    BY <1>1, <1>5, PinKeeps
  <2> QED BY <2>1, <2>2 DEF CountInv, OpenCalls, Pending
<1>6. CASE SendMessage
  <2>1. /\ pc' = "prune" /\ cont' = "turn" /\ TypesOK'
    BY <1>1, <1>6, EmptySeq DEF SendMessage, CallPrune, TypesOK, PCs
  <2>2. PICK c \in TextCosts :
          history' = Append(WithSystem(history), UserMessage(pinNext, c))
    BY <1>6 DEF SendMessage
  <2> DEFINE h == WithSystem(history)
             m == UserMessage(pinNext, c)
  <2>3. m \in Message /\ ~IsTool(m)
    BY <1>1, MessageTypes DEF TypesOK
  <2>4. Formed(h) /\ Unbroken(h) /\ h # <<>>
    BY <1>1, WithSystemKeeps
  <2>5. history' = Append(h, m)
    BY <2>2
  <2> HIDE DEF h, m
  <2>6. Formed(history') /\ Unbroken(history') /\ history' # <<>>
    BY <2>3, <2>4, <2>5, AppendKeeps
  <2> QED BY <2>1, <2>6 DEF CountInv, OpenCalls, Pending
<1> QED BY <1>2, <1>3, <1>4, <1>5, <1>6 DEF Agent

LEMMA WindowTalk == ASSUME CountInv, opts' = opts, Talk PROVE CountInv'
<1>1. TypesOK /\ Formed(history) /\ Unbroken(history) /\ OpenCalls
  BY DEF CountInv
<1>2. CASE TurnCap \/ AskLLM \/ ChatThrows \/ ToolThrows \/ ToolsDone
  <2>1. /\ history' = history /\ pc' \in {"idle", "chat", "turn"} /\ TypesOK' /\ pc # "idle"
    BY <1>1, <1>2, EmptySeq
       DEF TurnCap, AskLLM, ChatThrows, ToolThrows, ToolsDone, TypesOK, PCs
  <2> QED BY <1>1, <2>1 DEF CountInv, OpenCalls, Pending
<1>3. CASE Reply
  <2>0. PICK calls \in BoundedSeq(CallIds, CallBound), c \in TextCosts :
          /\ history' = Append(history, AssistantMessage(calls, c))
          /\ todo' = calls
          /\ CallPrune(IF calls = <<>> THEN "idle" ELSE "tools")
    BY <1>3 DEF Reply
  <2>1. calls \in Seq(CallIds) /\ Len(calls) \in Nat /\ Len(calls) <= CallBound
    <3>1. PICK n \in 0 .. CallBound : calls \in [1 .. n -> CallIds]
      BY <2>0 DEF BoundedSeq, SeqOf
    <3> QED BY <3>1, ConversationAssumption
  <2> DEFINE m == AssistantMessage(calls, c)
  <2>2. /\ pc' = "prune" /\ cont' = IF calls = <<>> THEN "idle" ELSE "tools"
        /\ TypesOK' /\ history # <<>>
    BY <1>1, <1>3, <2>0, <2>1 DEF Reply, CallPrune, TypesOK, PCs, CountInv
  <2>3. m \in Message /\ ~IsTool(m) /\ (calls # <<>> => IsRequest(m))
    BY <2>1, MessageTypes
  <2>4. history' = Append(history, m)
    BY <2>0
  <2> HIDE DEF m
  <2>5. /\ Formed(history') /\ Unbroken(history') /\ history' # <<>>
        /\ history'[Len(history')] = m
    BY <1>1, <2>2, <2>3, <2>4, AppendKeeps
  <2>6. Len(history') \in Nat /\ Len(history') >= 2
    <3>1. history \in Seq(Message) /\ Len(history) \in Nat /\ Len(history) >= 1
      BY <1>1, <2>2, EmptySeq DEF Formed
    <3> QED BY <2>3, <2>4, <3>1
  <2>7. OpenCalls'
    <3> SUFFICES ASSUME Pending'
                 PROVE  \E p \in 2 .. Len(history') :
                           /\ IsRequest(history'[p])
                           /\ \A k \in p + 1 .. Len(history') : IsTool(history'[k])
                           /\ (Len(history') - p) + Len(todo') <= CallBound
      BY DEF OpenCalls
    <3>1. IsRequest(history'[Len(history')])
      BY <2>0, <2>3, <2>5 DEF Pending
    <3>2. (Len(history') - Len(history')) + Len(todo') <= CallBound
      BY <2>0, <2>1, <2>6
    <3>3. Len(history') \in 2 .. Len(history')
      BY <2>6
    <3>4. Len(history') + 1 .. Len(history') = {}
      BY <2>6
    <3> QED BY <3>1, <3>2, <3>3, <3>4
  <2> QED BY <2>2, <2>5, <2>7 DEF CountInv
<1>4. CASE ExecuteTool
  <2>0. PICK c \in ToolCosts, finish \in BOOLEAN :
          /\ history' = Append(history, ToolMessage(Head(todo), c))
          /\ todo' = IF finish THEN <<>> ELSE Tail(todo)
          /\ CallPrune(IF finish THEN "idle" ELSE "tools")
    BY <1>4 DEF ExecuteTool
  <2>1. /\ pc = "tools" /\ todo # <<>> /\ Head(todo) \in CallIds
        /\ Tail(todo) \in Seq(CallIds) /\ Len(Tail(todo)) = Len(todo) - 1
        /\ Len(todo) \in Nat /\ <<>> \in Seq(CallIds)
    BY <1>1, <1>4, HeadTailProperties, EmptySeq DEF ExecuteTool, TypesOK
  <2>a. PICK id \in CallIds : id = Head(todo)
    BY <2>1
  <2> DEFINE m == ToolMessage(id, c)
  <2>2. /\ pc' = "prune" /\ cont' \in {"idle", "tools"}
        /\ todo' \in Seq(CallIds) /\ TypesOK' /\ history # <<>>
    BY <1>1, <1>4, <2>0, <2>1 DEF ExecuteTool, CallPrune, TypesOK, PCs, CountInv
  <2>3. m \in Message /\ IsTool(m)
    BY MessageTypes
  <2>4. history \in Seq(Message) /\ Len(history) \in Nat
    BY <1>1 DEF Formed
  <2>5. PICK p \in 2 .. Len(history) :
               /\ IsRequest(history[p])
               /\ \A k \in p + 1 .. Len(history) : IsTool(history[k])
               /\ (Len(history) - p) + Len(todo) <= CallBound
    <3>1. Pending
      BY <2>1 DEF Pending
    <3> QED BY <1>1, <3>1 DEF OpenCalls
  <2>6. InRound(history[Len(history)])
    <3>1. CASE p = Len(history)
      BY <2>5, <3>1 DEF InRound
    <3>2. CASE p # Len(history)
      <4>1. Len(history) \in p + 1 .. Len(history)
        BY <2>4, <3>2
      <4> QED BY <2>5, <4>1 DEF InRound
    <3> QED BY <3>1, <3>2
  <2>7. history' = Append(history, m)
    BY <2>0, <2>a
  <2> HIDE DEF m
  <2>8. /\ Formed(history') /\ Unbroken(history') /\ history' # <<>>
        /\ history'[Len(history')] = m
        /\ \A k \in DOMAIN history : history'[k] = history[k]
    BY <1>1, <2>2, <2>3, <2>6, <2>7, AppendKeeps
  <2>9. Len(history') = Len(history) + 1 /\ DOMAIN history = 1 .. Len(history)
    BY <2>3, <2>4, <2>7
  <2>10. OpenCalls'
    <3> SUFFICES ASSUME Pending'
                 PROVE  \E q \in 2 .. Len(history') :
                           /\ IsRequest(history'[q])
                           /\ \A k \in q + 1 .. Len(history') : IsTool(history'[k])
                           /\ (Len(history') - q) + Len(todo') <= CallBound
      BY DEF OpenCalls
    <3>1. todo' = Tail(todo)
      BY <2>0 DEF Pending
    <3>2. p \in 2 .. Len(history') /\ IsRequest(history'[p])
      BY <2>4, <2>5, <2>8, <2>9
    <3>3. ASSUME NEW k \in p + 1 .. Len(history') PROVE IsTool(history'[k])
      <4>1. CASE k = Len(history')
        BY <2>3, <2>8, <4>1
      <4>2. CASE k # Len(history')
        <5>1. k \in p + 1 .. Len(history) /\ k \in DOMAIN history
          BY <2>4, <2>9, <4>2
        <5> QED BY <2>5, <2>8, <5>1
      <4> QED BY <4>1, <4>2
    <3>4. (Len(history') - p) + Len(todo') <= CallBound
      BY <2>1, <2>4, <2>5, <2>9, <3>1, ConversationAssumption
    <3> QED BY <3>2, <3>3, <3>4
  <2> QED BY <2>2, <2>8, <2>10 DEF CountInv
<1> QED BY <1>2, <1>3, <1>4 DEF Talk

LEMMA WindowStep == WindowInv /\ [Next]_vars => WindowInv'
<1> SUFFICES ASSUME WindowInv, [Next]_vars, Windowed' PROVE CountInv'
  BY DEF WindowInv
<1>1. opts' = opts
  BY DEF Next, vars
<1>2. Windowed /\ CountInv
  BY <1>1 DEF Windowed, WindowInv
<1>3. CASE UNCHANGED vars
  BY <1>2, <1>3 DEF vars, CountInv, TypesOK, OpenCalls, Pending
<1>4. CASE Agent
  BY <1>1, <1>2, <1>4, WindowAgent
<1>5. CASE PruneStep
  BY <1>1, <1>2, <1>5, WindowPrune
<1>6. CASE Talk
  BY <1>1, <1>2, <1>6, WindowTalk
<1> QED BY <1>3, <1>4, <1>5, <1>6 DEF Next, Inside, Talk

(* In count mode every response follows its request or another response,   *)
(* however long the conversation, if a reply never holds as many tool      *)
(* calls as max_history_messages_; with as many it may not                 *)
(* (conv_window_orphan), so the bound is sharp.                            *)
THEOREM WindowNoOrphan == Spec => [](Windowed => NoOrphanTool)
<1>1. Init => WindowInv
  <2> SUFFICES ASSUME Init PROVE CountInv
    BY DEF WindowInv
  <2>1. TypesOK
    BY EmptySeq DEF Init, TypesOK, PCs
  <2>2. Formed(history) /\ Unbroken(history)
    BY EmptySeq DEF Init, Formed, Unbroken
  <2> QED BY <2>1, <2>2 DEF Init, CountInv, OpenCalls, Pending
<1>2. WindowInv => (Windowed => NoOrphanTool)
  BY DEF WindowInv, CountInv, Unbroken, NoOrphanTool, InRound
<1> QED BY <1>1, <1>2, WindowStep, PTL DEF Spec

----------------------------------------------------------------------------
(* Types, in every configuration.                                          *)

LEMMA CountTypes ==
  ASSUME opts \in Agents, NEW h \in Seq(Message)
  PROVE  PruneByCount(h) \in Seq(Message)
<1>1. Len(h) \in Nat /\ opts.maxHistory \in Nat \ {0}
  BY ConversationAssumption DEF Options
<1>2. PICK s \in {1, 2} : s = StartIdx(h)
  BY DEF StartIdx
<1> DEFINE excess == Len(h) - opts.maxHistory
           clamp  == Len(h) - (s - 1)
           drop   == IF excess > clamp THEN clamp ELSE excess
           e      == SkipTools(h, s + drop)
<1>3. CASE excess <= 0
  BY <1>1, <1>3 DEF PruneByCount
<1>4. CASE ~(excess <= 0)
  <2>1. drop \in Nat /\ s + drop \in 1 .. Len(h) + 1 /\ s \in 1 .. Len(h) + 1
    BY <1>1, <1>4
  <2>2. PruneByCount(h) = Erase(h, s, e)
    BY <1>2, <1>4 DEF PruneByCount
  <2> HIDE DEF drop
  <2>3. e \in s + drop .. Len(h) + 1
    BY <2>1, SkipToolsEffect
  <2> HIDE DEF e
  <2>4. e \in s .. Len(h) + 1
    BY <1>1, <2>1, <2>3
  <2> QED BY <2>1, <2>2, <2>4, EraseEffect
<1> QED BY <1>3, <1>4

LEMMA CostTypes == ASSUME NEW h \in Seq(Message) PROVE TotalCost(h) \in Nat
BY SumsExist, TotalCostIs

LEMMA WithSystemTypes ==
  ASSUME NEW h \in Seq(Message)
  PROVE  WithSystem(h) \in Seq(Message)
<1>1. SystemMessage \in Message
  BY MessageTypes
<1>2. CASE h = <<>> \/ h[1].role # "SYSTEM"
  BY <1>1, <1>2 DEF WithSystem
<1>3. CASE ~(h = <<>> \/ h[1].role # "SYSTEM")
  <2>1. 1 \in DOMAIN h /\ h[1] \in Message
    BY <1>3, EmptySeq
  <2> DEFINE m == [h[1] EXCEPT !.cost = SysCost]
  <2>2. m \in Message
    BY <2>1, ConversationAssumption DEF Message
  <2>3. WithSystem(h) = [h EXCEPT ![1] = m]
    BY <1>3, <2>1 DEF WithSystem
  <2> HIDE DEF m
  <2> QED BY <2>1, <2>2, <2>3
<1> QED BY <1>2, <1>3

LEMMA TypeStep ==
  ASSUME TypeOK, ConvInv, TotalInv, ConvInv', TotalInv', [Next]_vars
  PROVE  TypeOK'
<1>1. opts' = opts /\ history \in Seq(Message)
  BY DEF Next, vars, TypeOK
<1>2. ASSUME Budgeted PROVE history' \in Seq(Message) /\ i' \in Nat
  BY <1>1, <1>2 DEF ConvInv, Budgeted, BudgetInv, Formed, TypesOK
<1>3. CASE UNCHANGED vars
  BY <1>3 DEF vars, TypeOK
<1>4. CASE Agent
  <2>1. history' \in Seq(Message)
    <3>1. CASE Reset
      BY <3>1, EmptySeq DEF Reset
    <3>2. CASE SetSystemPrompt
      BY <1>1, <3>2, WithSystemTypes DEF SetSystemPrompt
    <3>3. CASE PinNextUserMessage
      BY <1>1, <3>3 DEF PinNextUserMessage
    <3>4. CASE PinMessageAt
      <4>1. PICK k \in DOMAIN history : history' = [history EXCEPT ![k].pinned = TRUE]
        BY <3>4 DEF PinMessageAt
      <4> DEFINE m == [history[k] EXCEPT !.pinned = TRUE]
      <4>2. history[k] \in Message
        BY <1>1
      <4>3. m \in Message
        BY <4>2 DEF Message
      <4>4. history' = [history EXCEPT ![k] = m]
        BY <4>1
      <4> HIDE DEF m
      <4> QED BY <1>1, <4>3, <4>4
    <3>5. CASE SendMessage
      <4>1. PICK c \in TextCosts :
              history' = Append(WithSystem(history), UserMessage(pinNext, c))
        BY <3>5 DEF SendMessage
      <4> DEFINE h == WithSystem(history)
                 m == UserMessage(pinNext, c)
      <4>2. m \in Message
        BY MessageTypes DEF TypeOK
      <4>3. h \in Seq(Message)
        BY <1>1, WithSystemTypes
      <4>4. history' = Append(h, m)
        BY <4>1
      <4> HIDE DEF h, m
      <4> QED BY <4>2, <4>3, <4>4
    <3> QED BY <1>4, <3>1, <3>2, <3>3, <3>4, <3>5 DEF Agent
  <2>2. /\ pinNext' \in BOOLEAN /\ pc' \in PCs /\ cont' \in {"idle", "turn", "tools"}
        /\ UNCHANGED <<i, total>>
    BY <1>4 DEF Agent, Reset, SetSystemPrompt, PinNextUserMessage, PinMessageAt,
                SendMessage, CallPrune, TypeOK, PCs
  <2>3. todo' \in Seq(CallIds) /\ turn' \in Nat /\ sends' \in Nat
    <3>1. todo \in Seq(CallIds) /\ turn \in Nat /\ sends \in Nat /\ <<>> \in Seq(CallIds)
      BY EmptySeq DEF TypeOK
    <3>2. /\ todo' = todo \/ todo' = <<>>
          /\ turn' = turn \/ turn' = 0
          /\ sends' = sends \/ sends' = 0 \/ sends' = sends + 1
      BY <1>4 DEF Agent, Reset, SetSystemPrompt, PinNextUserMessage, PinMessageAt, SendMessage
    <3>3. todo' \in Seq(CallIds)
      BY <3>1, <3>2
    <3>4. turn' \in Nat /\ sends' \in Nat
      BY <3>1, <3>2
    <3> QED BY <3>3, <3>4
  <2> QED BY <1>1, <2>1, <2>2, <2>3 DEF TypeOK
<1>5. CASE Talk
  <2>1. CASE TurnCap \/ AskLLM \/ ChatThrows \/ ToolThrows \/ ToolsDone
    <3>1. /\ UNCHANGED <<history, pinNext, cont, i, total, sends>>
          /\ pc' \in {"idle", "chat", "turn"}
          /\ todo' = todo \/ todo' = <<>>
          /\ turn' = turn \/ turn' = turn + 1
      BY <2>1 DEF TurnCap, AskLLM, ChatThrows, ToolThrows, ToolsDone
    <3>2. <<>> \in Seq(CallIds)
      BY EmptySeq
    <3>3. todo' \in Seq(CallIds)
      BY <3>1, <3>2 DEF TypeOK
    <3>4. turn' \in Nat
      BY <3>1 DEF TypeOK
    <3> QED BY <1>1, <3>1, <3>3, <3>4 DEF TypeOK, PCs
  <2>2. CASE Reply
    <3>1. PICK calls \in BoundedSeq(CallIds, CallBound), c \in TextCosts :
            /\ history' = Append(history, AssistantMessage(calls, c))
            /\ todo' = calls
            /\ CallPrune(IF calls = <<>> THEN "idle" ELSE "tools")
      BY <2>2 DEF Reply
    <3>2. calls \in Seq(CallIds)
      <4>1. PICK n \in 0 .. CallBound : calls \in [1 .. n -> CallIds]
        BY <3>1 DEF BoundedSeq, SeqOf
      <4> QED BY <4>1, ConversationAssumption
    <3>3. AssistantMessage(calls, c) \in Message
      BY <3>2, MessageTypes
    <3>4. history' \in Seq(Message)
      BY <1>1, <3>1, <3>3
    <3> QED BY <1>1, <2>2, <3>1, <3>2, <3>4 DEF Reply, CallPrune, TypeOK, PCs
  <2>3. CASE ExecuteTool
    <3>1. PICK c \in ToolCosts, finish \in BOOLEAN :
            /\ history' = Append(history, ToolMessage(Head(todo), c))
            /\ todo' = IF finish THEN <<>> ELSE Tail(todo)
            /\ CallPrune(IF finish THEN "idle" ELSE "tools")
      BY <2>3 DEF ExecuteTool
    <3>2. Head(todo) \in CallIds /\ Tail(todo) \in Seq(CallIds) /\ <<>> \in Seq(CallIds)
      BY <2>3, HeadTailProperties, EmptySeq DEF ExecuteTool, TypeOK
    <3>3. ToolMessage(Head(todo), c) \in Message
      BY <3>2, MessageTypes
    <3>4. history' \in Seq(Message) /\ todo' \in Seq(CallIds)
      BY <1>1, <3>1, <3>2, <3>3
    <3> QED BY <1>1, <2>3, <3>1, <3>4 DEF ExecuteTool, CallPrune, TypeOK, PCs
  <2> QED BY <1>5, <2>1, <2>2, <2>3 DEF Talk
<1>6. CASE Prune
  <2>1. /\ pc' \in PCs /\ cont' \in {"idle", "turn", "tools"}
        /\ UNCHANGED <<pinNext, todo, turn, sends>>
    BY <1>6 DEF Prune, TypeOK, PCs
  <2>2. CASE opts.maxTokens = 0
    <3>1. history' \in Seq(Message) /\ UNCHANGED <<i, total>>
      BY <1>1, <1>6, <2>2, CountTypes DEF Prune, TypeOK
    <3> QED BY <1>1, <2>1, <3>1 DEF TypeOK
  <2>3. CASE opts.maxTokens # 0
    <3>1. history' = history /\ total' = TotalCost(history) /\ i' = StartIdx(history)
      BY <1>6, <2>3 DEF Prune
    <3>2. total' \in Int /\ i' \in Nat \ {0}
      BY <1>1, <3>1, CostTypes DEF StartIdx
    <3> QED BY <1>1, <2>1, <3>1, <3>2 DEF TypeOK
  <2> QED BY <2>2, <2>3
<1>7. CASE SkipPinned \/ SkipPinnedSpan \/ DropSpan
  <2>1. /\ pc = "loop" /\ ~LoopEnds
        /\ UNCHANGED <<pinNext, pc, cont, todo, turn, sends>>
    BY <1>7 DEF SkipPinned, SkipPinnedSpan, DropSpan
  <2>2. Budgeted /\ BudgetInv /\ BudgetInv'
    BY <1>1, <2>1 DEF TotalInv, ConvInv, Budgeted
  <2>3. history' \in Seq(Message) /\ total' \in Int
    <3>1. history' \in Seq(Message)
      BY <1>2, <2>2
    <3>2. total' = TotalCost(history')
      BY <2>1 DEF TotalInv, TotalExact
    <3> QED BY <3>1, <3>2, CostTypes
  <2>4. i' \in Nat \ {0}
    <3>1. AtMessage'
      BY <2>2 DEF BudgetInv
    <3>2. i' \in 2 .. Len(history') + 1
      BY <2>1, <3>1 DEF AtMessage
    <3> QED BY <2>3, <3>2
  <2> QED BY <1>1, <2>1, <2>3, <2>4 DEF TypeOK
<1>8. CASE GuardOrphans
  <2>1. /\ pc = "loop" /\ pc' = cont /\ UNCHANGED <<pinNext, cont, todo, turn, i, total, sends>>
    BY <1>8 DEF GuardOrphans
  <2>2. history' \in Seq(Message)
    BY <1>2, <2>1 DEF TotalInv
  <2> QED BY <1>1, <2>1, <2>2 DEF TypeOK, PCs
<1> QED BY <1>3, <1>4, <1>5, <1>6, <1>7, <1>8 DEF Next, Inside, Talk, PruneStep

(* The state keeps its type in every configuration; in particular the       *)
(* pruning of either mode returns a history.                                *)
THEOREM ConversationTypeOK == Spec => []TypeOK
<1>1. Init => TypeOK
  <2>1. <<>> \in Seq(Message) /\ <<>> \in Seq(CallIds)
    BY EmptySeq
  <2>2. Init => history \in Seq(Message) /\ todo \in Seq(CallIds)
    BY <2>1 DEF Init
  <2>3. Init => turn \in Nat /\ i \in Nat \ {0} /\ total \in Int /\ sends \in Nat
    BY DEF Init
  <2> QED BY <2>2, <2>3 DEF Init, TypeOK, PCs
<1> QED BY <1>1, TypeStep, ConvInvariant, TotalAlways, PTL DEF Spec

----------------------------------------------------------------------------
(* A call of send_message is finite.  What is left of it, in the order of  *)
(* weight: the turns, what the current turn still does, and the messages   *)
(* the pruning has still to pass.                                          *)

Capped == opts.maxTurns > 0

TurnsLeft == opts.maxTurns - turn

Position(at) == CASE at = "turn"  -> 1
                  [] at = "tools" -> 2 + 2 * Len(todo)
                  [] at = "chat"  -> 4 + 2 * CallBound
                  [] OTHER        -> 0

Talking == IF pc \in {"prune", "loop"} THEN Position(cont) + 1 ELSE Position(pc)

Scanning == CASE pc = "prune" -> Len(history) + 2
              [] pc = "loop"  -> (Len(history) + 1) - i
              [] OTHER        -> 0

Closer ==
  \/ TurnsLeft' < TurnsLeft
  \/ TurnsLeft' = TurnsLeft /\ Talking' < Talking
  \/ TurnsLeft' = TurnsLeft /\ Talking' = Talking /\ Scanning' < Scanning

TurnInv == Capped => TurnsLeft \in Nat

CallInv == TypeOK /\ ConvInv /\ TotalInv /\ TurnInv

LEMMA TurnStep == TypeOK /\ TurnInv /\ [Next]_vars => TurnInv'
<1> SUFFICES ASSUME TypeOK, TurnInv, [Next]_vars, Capped' PROVE TurnsLeft' \in Nat
  BY DEF TurnInv
<1>a. opts' = opts
  BY DEF Next, vars
<1>b. Capped
  BY <1>a DEF Capped
<1>c. opts \in Agents /\ turn \in Nat
  BY DEF TypeOK
<1>d. opts.maxTurns \in Nat
  BY <1>c, ConversationAssumption DEF Options
<1>e. TurnsLeft \in Nat
  BY <1>b DEF TurnInv
<1>1. /\ opts' = opts /\ Capped /\ TurnsLeft \in Nat
      /\ turn \in Nat /\ opts.maxTurns \in Nat
  BY <1>a, <1>b, <1>c, <1>d, <1>e
<1>2. CASE AskLLM
  BY <1>1, <1>2 DEF AskLLM, TurnsLeft, Capped
<1>3. CASE SendMessage
  BY <1>1, <1>3 DEF SendMessage, TurnsLeft
<1>4. CASE ~AskLLM /\ ~SendMessage
  <2>1. turn' = turn
    BY <1>4 DEF Next, vars, Agent, Inside, PruneStep, Reset, SetSystemPrompt,
       PinNextUserMessage, PinMessageAt, Prune, SkipPinned, SkipPinnedSpan, DropSpan,
       GuardOrphans, TurnCap, Reply, ChatThrows, ExecuteTool, ToolThrows, ToolsDone
  <2> QED BY <1>1, <2>1 DEF TurnsLeft
<1> QED BY <1>2, <1>3, <1>4

LEMMA CallTypes ==
  ASSUME CallInv, Capped
  PROVE  /\ TurnsLeft \in Nat /\ Talking \in Nat /\ Scanning \in Nat
         /\ \A at \in {"idle", "turn", "tools", "chat"} : Position(at) \in Nat
<1>1. /\ history \in Seq(Message) /\ Len(history) \in Nat /\ Len(todo) \in Nat
      /\ pc \in PCs /\ cont \in {"idle", "turn", "tools"} /\ i \in Nat /\ CallBound \in Nat
  BY ConversationAssumption DEF CallInv, TypeOK
<1>2. TurnsLeft \in Nat
  BY DEF CallInv, TurnInv
<1>3. \A at \in {"idle", "turn", "tools", "chat"} : Position(at) \in Nat
  BY <1>1 DEF Position
<1>4. Talking \in Nat
  BY <1>1, <1>3 DEF Talking, PCs
<1>5. pc = "loop" => i <= Len(history) + 1
  BY <1>1 DEF CallInv, TotalInv, ConvInv, BudgetInv, AtMessage
<1>6. Scanning \in Nat
  BY <1>1, <1>5 DEF Scanning
<1> QED BY <1>2, <1>3, <1>4, <1>6

LEMMA PruneCloser == ASSUME CallInv, Capped, opts' = opts, PruneStep PROVE Closer
<1>1. /\ history \in Seq(Message) /\ Len(history) \in Nat /\ i \in Nat
      /\ cont \in {"idle", "turn", "tools"} /\ Position(cont) \in Nat
      /\ opts \in Agents
  BY CallTypes DEF CallInv, TypeOK
<1>2. TurnsLeft' = TurnsLeft /\ Position(cont)' = Position(cont) /\ cont' = cont
  BY DEF PruneStep, Prune, SkipPinned, SkipPinnedSpan, DropSpan, GuardOrphans,
         TurnsLeft, Position
<1>3. CASE pc \in {"prune", "loop"} /\ pc' = cont
  <2>1. Talking = Position(cont) + 1 /\ Talking' = Position(cont)
    BY <1>1, <1>2, <1>3 DEF Talking
  <2> QED BY <1>1, <1>2, <2>1 DEF Closer
<1>4. CASE Prune
  <2>1. pc = "prune" /\ (pc' = cont \/ (pc' = "loop" /\ history' = history /\ i' \in {1, 2}))
    BY <1>1, <1>4 DEF Prune, StartIdx
  <2>2. CASE pc' = "loop" /\ history' = history /\ i' \in {1, 2}
    <3>1. Talking' = Talking
      BY <1>2, <2>1, <2>2 DEF Talking
    <3>2. Scanning' < Scanning
      BY <1>1, <2>1, <2>2 DEF Scanning
    <3> QED BY <1>2, <3>1, <3>2 DEF Closer
  <2> QED BY <1>3, <2>1, <2>2
<1>5. CASE GuardOrphans
  BY <1>3, <1>5 DEF GuardOrphans
<1>6. CASE SkipPinned \/ SkipPinnedSpan \/ DropSpan
  <2>1. /\ pc = "loop" /\ pc' = "loop" /\ ~LoopEnds
    BY <1>6 DEF SkipPinned, SkipPinnedSpan, DropSpan
  <2>2. BudgetInv
    BY <2>1 DEF CallInv, TotalInv, ConvInv
  <2>3. /\ i \in 2 .. Len(history) - 1
        /\ ~history[i].pinned => SpanEnd(history, i) \in i + 1 .. Len(history)
    BY <2>1, <2>2, LoopFacts
  <2>4. Talking' = Talking
    BY <1>2, <2>1 DEF Talking
  <2>5. Len(history') - i' < Len(history) - i /\ Len(history') \in Nat /\ i' \in Nat
    <3>1. CASE SkipPinned
      BY <1>1, <3>1 DEF SkipPinned
    <3>2. CASE SkipPinnedSpan
      BY <1>1, <2>3, <3>2 DEF SkipPinnedSpan
    <3>3. CASE DropSpan
      <4> DEFINE e == SpanEnd(history, i)
      <4>1. ~history[i].pinned /\ i \in 1 .. Len(history)
        <5>1. SpanEnd(history, i) \in i + 1 .. Len(history) + 1 /\ i \in 1 .. Len(history)
          BY <1>1, <2>3, SpanEndEffect
        <5>2. i \in i .. SpanEnd(history, i) - 1
          BY <1>1, <5>1
        <5> QED BY <3>3, <5>1, <5>2 DEF DropSpan
      <4>2. e \in i + 1 .. Len(history)
        BY <2>3, <4>1
      <4>3. CASE opts.compacting
        <5>1. history' = Compact(history, i, e) /\ i' = i + 1
          BY <3>3, <4>3 DEF DropSpan
        <5> HIDE DEF e
        <5>2. e \in i + 1 .. Len(history) + 1
          BY <1>1, <4>2
        <5>3. Len(history') = Len(history) - (e - i) + 1
          BY <1>1, <4>1, <5>1, <5>2, CompactEffect
        <5> QED BY <1>1, <4>1, <4>2, <5>1, <5>3
      <4>4. CASE ~opts.compacting
        <5>1. history' = Erase(history, i, e) /\ i' = i
          BY <3>3, <4>4 DEF DropSpan
        <5> HIDE DEF e
        <5>2. e \in i .. Len(history) + 1 /\ i \in 1 .. Len(history) + 1
          BY <1>1, <4>1, <4>2
        <5>3. Len(history') = Len(history) - (e - i)
          BY <1>1, <5>1, <5>2, EraseEffect
        <5> QED BY <1>1, <4>1, <4>2, <5>1, <5>3
      <4> QED BY <4>3, <4>4
    <3> QED BY <1>6, <3>1, <3>2, <3>3
  <2>6. Scanning' < Scanning
    BY <1>1, <2>1, <2>5 DEF Scanning
  <2> QED BY <1>2, <2>4, <2>6 DEF Closer
<1> QED BY <1>4, <1>5, <1>6 DEF PruneStep

LEMMA TalkCloser == ASSUME CallInv, Capped, opts' = opts, Talk PROVE Closer
<1>1. /\ todo \in Seq(CallIds) /\ Len(todo) \in Nat /\ turn \in Nat
      /\ CallBound \in Nat /\ opts.maxTurns \in Nat /\ opts.maxTurns > 0
  BY ConversationAssumption DEF CallInv, TypeOK, Options, Capped
<1>2. CASE TurnCap \/ ToolsDone \/ ChatThrows \/ ToolThrows
  <2>1. TurnsLeft' = TurnsLeft
    BY <1>2 DEF TurnCap, ToolsDone, ChatThrows, ToolThrows, TurnsLeft
  <2>2. \/ pc = "turn" /\ pc' = "idle"
        \/ pc = "tools" /\ pc' \in {"turn", "idle"}
        \/ pc = "chat" /\ pc' = "idle"
    BY <1>2 DEF TurnCap, ToolsDone, ChatThrows, ToolThrows
  <2>3. Talking' < Talking
    BY <1>1, <2>2 DEF Talking, Position
  <2> QED BY <2>1, <2>3 DEF Closer
<1>3. CASE AskLLM
  BY <1>1, <1>3 DEF AskLLM, TurnsLeft, Closer
<1>4. CASE Reply
  <2>1. PICK calls \in BoundedSeq(CallIds, CallBound) :
          todo' = calls /\ CallPrune(IF calls = <<>> THEN "idle" ELSE "tools")
    BY <1>4 DEF Reply
  <2>2. Len(calls) \in Nat /\ Len(calls) <= CallBound
    <3>1. PICK n \in 0 .. CallBound : calls \in [1 .. n -> CallIds]
      BY <2>1 DEF BoundedSeq, SeqOf
    <3> QED BY <1>1, <3>1
  <2>3. pc = "chat" /\ pc' = "prune" /\ cont' \in {"idle", "tools"} /\ Len(todo') = Len(calls)
    BY <1>4, <2>1 DEF Reply, CallPrune
  <2>4. Talking = 4 + 2 * CallBound /\ Talking' <= 3 + 2 * Len(calls)
    BY <2>2, <2>3 DEF Talking, Position
  <2>5. TurnsLeft' = TurnsLeft
    BY <1>4 DEF Reply, TurnsLeft
  <2>6. Talking' < Talking
    <3>1. Talking' \in Int
      BY <2>2, <2>3 DEF Talking, Position
    <3> QED BY <1>1, <2>2, <2>4, <3>1
  <2> QED BY <2>5, <2>6 DEF Closer
<1>5. CASE ExecuteTool
  <2>1. /\ pc = "tools" /\ todo # <<>>
        /\ \E finish \in BOOLEAN :
             /\ todo' = IF finish THEN <<>> ELSE Tail(todo)
             /\ CallPrune(IF finish THEN "idle" ELSE "tools")
    BY <1>5 DEF ExecuteTool
  <2>2. Len(Tail(todo)) = Len(todo) - 1 /\ Len(todo) >= 1
    BY <1>1, <2>1, HeadTailProperties, EmptySeq
  <2>3. /\ pc' = "prune"
        /\ \/ cont' = "idle"
           \/ cont' = "tools" /\ Len(todo') = Len(todo) - 1
    BY <2>1, <2>2 DEF CallPrune
  <2>4. Talking' < Talking
    BY <1>1, <2>1, <2>2, <2>3 DEF Talking, Position
  <2>5. TurnsLeft' = TurnsLeft
    BY <1>5 DEF ExecuteTool, TurnsLeft
  <2> QED BY <2>4, <2>5 DEF Closer
<1> QED BY <1>2, <1>3, <1>4, <1>5 DEF Talk

(* With a turn cap a call of send_message comes to an end, whatever the     *)
(* LLM asks for and however much there is to prune (Conversation.cpp:65-132,*)
(* Conversation.h:154-220): each of its steps makes three natural numbers   *)
(* smaller in their lexicographic order.  CallReturns needs a thread that   *)
(* keeps running besides.                                                   *)
THEOREM SendRunsOut ==
  Spec => /\ [](Capped => TurnsLeft \in Nat /\ Talking \in Nat /\ Scanning \in Nat)
          /\ [][Capped /\ pc # "idle" => Closer]_vars
<1>1. Init => TurnInv
  BY ConversationAssumption DEF Init, TurnInv, TurnsLeft, Options
<1>2. Spec => []CallInv
  <2>1. Spec => []TurnInv
    BY <1>1, TurnStep, ConversationTypeOK, PTL DEF Spec
  <2> QED BY <2>1, ConversationTypeOK, ConvInvariant, TotalAlways, PTL DEF CallInv
<1>3. CallInv => (Capped => TurnsLeft \in Nat /\ Talking \in Nat /\ Scanning \in Nat)
  BY CallTypes
<1>4. CallInv /\ [Next]_vars => [Capped /\ pc # "idle" => Closer]_vars
  <2> SUFFICES ASSUME CallInv, Next, Capped, pc # "idle" PROVE Closer
    OBVIOUS
  <2>1. opts' = opts /\ ~Agent
    BY DEF Next, Agent, Reset, SetSystemPrompt, PinNextUserMessage, PinMessageAt, SendMessage
  <2> QED BY <2>1, PruneCloser, TalkCloser DEF Next, Inside, Talk
<1> QED BY <1>2, <1>3, <1>4, PTL DEF Spec
=============================================================================
