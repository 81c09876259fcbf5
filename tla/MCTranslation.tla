--------------------------- MODULE MCTranslation ---------------------------
(* A small instance of Translation for TLC.                                  *)
EXTENDS Translation

TwoTools == {1, 2}

=============================================================================
