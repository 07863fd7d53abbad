----------------------------- MODULE ParallelMap -----------------------------
(***************************************************************************)
(* What Phase A of the static-composition pipeline promises to Phase B:    *)
(* every selected thread is settled once, and Phase B starts only when     *)
(* all of them are settled - or the analysis is aborted.                   *)
(***************************************************************************)
CONSTANTS Items

VARIABLES result, state

Settled == {"skipped", "nullopt", "contract"}

Init ==
    /\ result = [t \in Items |-> "open"]
    /\ state = "running"

Settle(t) ==
    /\ state = "running" /\ result[t] = "open"
    /\ \E r \in Settled : result' = [result EXCEPT ![t] = r]
    /\ UNCHANGED state

Join ==
    /\ state = "running"
    /\ \A t \in Items : result[t] # "open"
    /\ state' = "joined"
    /\ UNCHANGED result

Abort ==
    /\ state = "running"
    /\ state' = "aborted"
    /\ UNCHANGED result

Next == (\E t \in Items : Settle(t)) \/ Join \/ Abort

Spec == Init /\ [][Next]_<<result, state>>
=============================================================================
