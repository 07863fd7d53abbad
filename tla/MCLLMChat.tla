------------------------------ MODULE MCLLMChat ------------------------------
(* Two workers that chat at the same time.  Temporal properties are checked  *)
(* in the same run, so no symmetry is used.                                  *)
EXTENDS LLMChat
CONSTANTS w1, w2, f1, f2, f3
=============================================================================
