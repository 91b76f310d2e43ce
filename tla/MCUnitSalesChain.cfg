SPECIFICATION Spec
CONSTANTS
  Parties = {p1}
  NoParty = nobody
  MaxHolds = 2
  MaxCases = 1
  MaxContracts = 3
  MaxTime = 1
  MaxWait = 1
  ReservationTerm = 1
INVARIANTS
  PurchaseKeepsUnitSold
  OneOpenContractInOrder
  SignedRsKeepsReservation
  ShownSaleIsTrue
  HoldsNeverOverlap
  ReservationOnlyBySignature
  ReportsExplained
PROPERTY
  ReleaseLeavesNothingBehind
\* The clock and the tables are bounded: a full sale may simply be over.
CHECK_DEADLOCK FALSE
