-------------------------- MODULE MCServiceBudget --------------------------
(* Small instances of ServiceBudget for TLC.                                 *)
EXTENDS ServiceBudget

Mixed == {<<FALSE, TRUE, TRUE, TRUE>>}

=============================================================================
