----------------------------- MODULE MCPayments -----------------------------
(* Payments with four requests: two parts of the fee that exceed it together, *)
(* a bank transaction claimed for two units, and a key used again for another *)
(* obligation. *)
EXTENDS Payments

CONSTANTS k1, k2, b1

FourRequests == 1 .. 4

AskFour ==
    <<[ob |-> "rs_fee",    amount |-> 1, key |-> k1,   bank |-> NoId],
      [ob |-> "rs_fee",    amount |-> 2, key |-> k2,   bank |-> b1],
      [ob |-> "other",     amount |-> 1, key |-> NoId, bank |-> b1],
      [ob |-> "sbk_first", amount |-> 2, key |-> k1,   bank |-> NoId]>>
=============================================================================
