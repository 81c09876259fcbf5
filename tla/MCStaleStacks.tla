--------------------------- MODULE MCStaleStacks ---------------------------
(* Small instances of StaleStacks for TLC.                                   *)
EXTENDS StaleStacks, TLC

CONSTANTS r1, r2, p1, p2

OneEach  == (r1 :> p1) @@ (r2 :> p2)
\* Runs are alike, and trade places with their projects.
Symmetry == {(r1 :> r2) @@ (r2 :> r1) @@ (p1 :> p2) @@ (p2 :> p1)}

=============================================================================
