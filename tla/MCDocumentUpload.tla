-------------------------- MODULE MCDocumentUpload --------------------------
(* Two final documents of a contract and an upload by hand; two handlers.    *)
EXTENDS DocumentUpload, TLC

CONSTANTS k1, k2, k3

AllKeys   == {k1, k2, k3}
FinalKeys == {k1, k2}
NoDocx    == {}

CONSTANTS h1, h2
TwoHandlers == {h1, h2}
AlikeHandlers == Permutations(TwoHandlers)
=============================================================================
