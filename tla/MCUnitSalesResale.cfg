SPECIFICATION Spec
CONSTANTS
  Parties = {p1, p2}
  NoParty = nobody
  MaxHolds = 2
  MaxCases = 2
  MaxContracts = 2
  MaxTime = 1
  MaxWait = 0
  ReservationTerm = 1
SYMMETRY BuyerSwap
INVARIANTS
  TypeOK
  SignedContractProtectsUnit
  ActiveHoldsOfActiveCase
PROPERTIES
  ClosedCaseIsHistory
  OfferSpec
\* The clock and the tables are bounded: a full sale may simply be over.
CHECK_DEADLOCK FALSE
