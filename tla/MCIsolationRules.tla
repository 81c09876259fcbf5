-------------------------- MODULE MCIsolationRules --------------------------
(* Small instances of IsolationRules for TLC.                                *)
EXTENDS IsolationRules, TLC

ProxyAndDind == <<"proxy", "dind">>
Broker       == <<"swe-exec-broker">>
Symmetry     == Permutations(Runs)

=============================================================================
