--------------------------- MODULE MCUsageLedger ---------------------------
(* Small instances of UsageLedger for TLC: requests are alike.               *)
EXTENDS UsageLedger, TLC

Symmetry == Permutations(Requests)

=============================================================================
