--------------------------- MODULE MCContractPool ---------------------------
(* Instances of ContractPool: more threads than workers, one of them        *)
(* skipped, and more workers than threads.                                  *)
EXTENDS ContractPool
MCSkipped == {1}
=============================================================================
