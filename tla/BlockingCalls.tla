---------------------------- MODULE BlockingCalls ----------------------------
(***************************************************************************)
(* What the suspended-call protocol promises its two users, without queues,*)
(* handlers or sessions.  To the miner a service call is an ordinary       *)
(* blocking call: rounds happen one at a time and each returns once, with  *)
(* the answers to its own calls or with an error.  To the account that pays*)
(* for the services: a round is executed at most once, in the order asked, *)
(* and only while the turn is still going on.                              *)
(***************************************************************************)
EXTENDS Integers, Sequences

CONSTANT Turns

VARIABLES
    asked,      \* how many rounds the miner of a turn has asked for
    executed,   \* the rounds that have been executed, in order
    outcomes,   \* what the rounds returned to the miner, in order
    over        \* turns that have been answered, or have failed

vars == <<asked, executed, outcomes, over>>

Init ==
    /\ asked = [t \in Turns |-> 0]
    /\ executed = [t \in Turns |-> <<>>]
    /\ outcomes = [t \in Turns |-> <<>>]
    /\ over = {}

\* A round may be asked for when the one before has returned.
Ask(t) ==
    /\ Len(outcomes[t]) = asked[t]
    /\ asked' = [asked EXCEPT ![t] = @ + 1]
    /\ UNCHANGED <<executed, outcomes, over>>

\* Rounds may be skipped but never repeated.
Execute(t) ==
    /\ t \notin over
    /\ \E k \in 1 .. asked[t] :
          /\ \A i \in DOMAIN executed[t] : executed[t][i] < k
          /\ executed' = [executed EXCEPT ![t] = Append(@, k)]
    /\ UNCHANGED <<asked, outcomes, over>>

Executed(t, k) == \E i \in DOMAIN executed[t] : executed[t][i] = k

Return(t) ==
    /\ Len(outcomes[t]) < asked[t]
    /\ \E o \in {[round |-> asked[t], kind |-> "answered", from |-> asked[t]],
                 [round |-> asked[t], kind |-> "timeout", from |-> 0]}
               \cup {[round |-> asked[t], kind |-> "invalid", from |-> k] : k \in 1 .. asked[t] - 1} :
          /\ o.from # 0 => Executed(t, o.from)
          /\ outcomes' = [outcomes EXCEPT ![t] = Append(@, o)]
    /\ UNCHANGED <<asked, executed, over>>

End(t) ==
    /\ t \notin over
    /\ over' = over \cup {t}
    /\ UNCHANGED <<asked, executed, outcomes>>

Next == \E t \in Turns : Ask(t) \/ Execute(t) \/ Return(t) \/ End(t)

Spec == Init /\ [][Next]_vars

=============================================================================
