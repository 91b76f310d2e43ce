---------------------------- MODULE MCUnitSales ----------------------------
(* UnitSales with interchangeable buyers. *)
EXTENDS UnitReports, TLC

BuyerSwap == Permutations(Parties)
=============================================================================
