SPECIFICATION Spec
CONSTANTS
  Keys = {k1, k2}
  r1 = r1
  r2 = r2
  Requests = {r1, r2}
  Templates = {t1}
  Externals = {x1, x2}
  Pdfs = {x1}
  Kinds = {"rs", "sbk_original"}
  None = None
  MaxVersions = 2
  MaxFacts = 0
  MaxCrashes = 0
INVARIANTS
  OneGenerationAtATime
  BoundOnce
  NothingUnseenReplaced
  ApprovedAsSeen
  AppendicesAsGenerated
\* the contract may end
CHECK_DEADLOCK FALSE
SYMMETRY Alike
