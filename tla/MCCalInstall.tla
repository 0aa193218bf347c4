--------------------------- MODULE MCCalInstall ---------------------------
(* CalInstall for TLC: the sets are model values, and interchangeable. *)
EXTENDS CalInstall, TLC
AlikeSets == Permutations(Values)
=============================================================================
