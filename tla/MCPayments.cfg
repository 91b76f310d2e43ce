SPECIFICATION Spec
CONSTANTS
  Sessions = {s1, s2}
  Requests <- FourRequests
  Ask <- AskFour
  NoId = NoId
  NoRequest = NoRequest
  k1 = k1
  k2 = k2
  b1 = b1
  Price = 10
  Fee = 2
  MaxTx = 3
INVARIANTS
  NeverOverpaid
  CountedOnce
  AnswerIsOwnPayment
  ReceiptsDecided
  SaleAddsUp
PROPERTIES
  DecisionIsFinal
CHECK_DEADLOCK FALSE
