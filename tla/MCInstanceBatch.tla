-------------------------- MODULE MCInstanceBatch --------------------------
(* Small instances of InstanceBatch for TLC.                                 *)
EXTENDS InstanceBatch

=============================================================================
