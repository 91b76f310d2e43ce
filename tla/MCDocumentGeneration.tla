------------------------ MODULE MCDocumentGeneration ------------------------
(* Small instances of DocumentGeneration. *)
EXTENDS DocumentGeneration, TLC

CONSTANTS r1, r2

Alike == Permutations({r1, r2}) \cup Permutations(Keys)
=============================================================================
