------------------------ MODULE MCToolCallSanitizer ------------------------
(* The system prompt and every sequence of at most HistoryBound messages     *)
(* over two call ids after it, protocol-conforming or not.                   *)
EXTENDS ToolCallSanitizer

CONSTANTS a, b, HistoryBound

MCCallIds == {a, b}

SystemPrompt == [role |-> "SYSTEM", ids |-> <<>>, cid |-> <<>>]

Plain == [role |-> "USER", ids |-> <<>>, cid |-> <<>>]

MCMessages ==
    {Plain}
    \cup {[role |-> "ASSISTANT", ids |-> s, cid |-> <<>>]
             : s \in {<<>>, <<a>>, <<a, b>>, <<a, a>>}}
    \cup {[role |-> "TOOL", ids |-> <<>>, cid |-> c] : c \in {<<>>, <<a>>, <<b>>}}

MCHistories == {<<SystemPrompt>> \o h : h \in BoundedSeq(MCMessages, HistoryBound)}
=============================================================================
