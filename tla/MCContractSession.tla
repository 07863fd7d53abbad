-------------------------- MODULE MCContractSession --------------------------
(* Instances of ContractSession with two objects; the budgets are scaled    *)
(* down, keeping read budget, report cap, retries and repair rounds apart.  *)
EXTENDS ContractSession
CONSTANTS o1, o2, oX
=============================================================================
