\* Two changes of facts, stage or version, in any order with the preparation.
CONSTANT MaxEdits = 2
SPECIFICATION FairSpec
INVARIANT ReadyIsPrintable
PROPERTY RepairsLeadToReady
\* A contract that is ready, or at a dead end, may stay as it is.
CHECK_DEADLOCK FALSE
