---------------------------- MODULE MCExecBroker ----------------------------
(* A small instance of ExecBroker for TLC.                                   *)
EXTENDS ExecBroker

=============================================================================
