SPECIFICATION FairSpec
CONSTANTS
  k1 = k1
  k2 = k2
  k3 = k3
  h1 = h1
  h2 = h2
  Keys <- AllKeys
  External <- FinalKeys
  Docx <- NoDocx
  Handlers = {h1}
  NoKey = NoKey
  Foreign = Foreign
  PathLength = 1
  MaxFaults = 1
  MaxEdits = 1
INVARIANTS
  SignedFileIsEvidence
PROPERTIES
  EveryUploadEnds
\* every request may be answered and the contract signed
CHECK_DEADLOCK FALSE
