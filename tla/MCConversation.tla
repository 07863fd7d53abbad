--------------------------- MODULE MCConversation ---------------------------
(* Instances of Conversation: the four ways the agents configure it, scaled  *)
(* down so that pruning happens within two calls of send_message.            *)
EXTENDS Conversation

CONSTANT c1

MCCallIds == {c1}
MCTextCosts == {2}
MCToolCosts == {1, 3}

Configured(history_, tokens, turns, compact, pins) ==
    [maxHistory |-> history_, maxTokens |-> tokens, maxTurns |-> turns,
     compacting |-> compact, pinsAnywhere |-> pins]

\* Count window only; token budget with pins anywhere; token budget with a
\* compactor; token budget with a turn cap.
MCAgents == {Configured(3, 0, 0, FALSE, FALSE),
             Configured(9, 5, 0, FALSE, TRUE),
             Configured(9, 5, 0, TRUE, FALSE),
             Configured(9, 5, 3, FALSE, FALSE)}

MCWindowAgents == {Configured(3, 0, 0, FALSE, FALSE)}
=============================================================================
