SPECIFICATION Spec
CONSTANTS
  k1 = k1
  k2 = k2
  k3 = k3
  Keys = {k1, k2}
  External = {k1, k2}
  Docx <- NoDocx
  h1 = h1
  h2 = h2
  Handlers <- TwoHandlers
  NoKey = NoKey
  Foreign = Foreign
  PathLength = 0
  MaxFaults = 1
  MaxEdits = 0
PROPERTIES
  DocHistoricalDownload
\* every request may be answered and the contract signed
CHECK_DEADLOCK FALSE
SYMMETRY AlikeHandlers
