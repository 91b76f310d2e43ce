------------------------ MODULE MCContractReadiness ------------------------
(* The preparation of one draft contract, checked by TLC.                  *)
EXTENDS ContractReadiness, TLC

=============================================================================
