--------------------------- MODULE MCPromptGuard ---------------------------
(* Small instances of PromptGuard for TLC.                                   *)
EXTENDS PromptGuard

Roles == {"system", "user", "other"}

\* All lists of up to n messages with the roles of the agent; messages are
\* named by their places, so that no two of a list are equal.
Lists(n, name) ==
    UNION {{[i \in 1 .. k |-> [role |-> roles[i], name |-> name[i]]] :
               roles \in [1 .. k -> Roles]} : k \in 0 .. n}

SentNames     == <<"a", "b", "c", "d", "e">>
ReturnedNames == <<"p", "q", "r", "s">>

Sent     == Lists(5, SentNames)
Returned == Lists(4, ReturnedNames)
All      == [role : Roles, name : ToSet(SentNames) \cup ToSet(ReturnedNames)]

=============================================================================
