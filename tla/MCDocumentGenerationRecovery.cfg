SPECIFICATION FairSpec
CONSTANTS
  Keys = {k1}
  r1 = r1
  r2 = r2
  Requests = {r1}
  Templates = {t1, t2}
  Externals = {}
  Pdfs = {}
  Kinds = {"rs", "sbk_original"}
  None = None
  MaxVersions = 2
  MaxFacts = 1
  MaxCrashes = 1
INVARIANT TypeOK
PROPERTIES
  EveryGenerationBound
\* the contract may end
CHECK_DEADLOCK FALSE
