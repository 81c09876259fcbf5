---------------------------- MODULE PromptGuard ----------------------------
(***************************************************************************)
(* What the proxy keeps from the compressor, and what the compression      *)
(* service makes of what the compressor returns: system prompts and the    *)
(* first user prompt are taken out of a request, it is compressed, and     *)
(* they are put back (_strip_protected_prompts, _invoke_compressor,        *)
(* _restore_protected_prompts).  The compressor may return anything, and   *)
(* it is given the payload's own list, which it may edit in place.         *)
(*                                                                         *)
(* A message is its role and a name; "system" stands for both protected    *)
(* roles and "other" for every role, or lack of one, that is neither that  *)
(* nor "user".  A payload has a list of messages, or none at all, and a    *)
(* system field, or none.  Each pass of a loop is a step.                  *)
(***************************************************************************)
EXTENDS Integers, Sequences, SequencesExt, FiniteSetsExt

CONSTANTS
    Messages,   \* a message has a role
    Requests,   \* message lists the agent may send
    Compressed  \* message lists the compressor may return, or make of its own

ASSUME MessagesAssumption ==
    /\ \A msg \in Messages : msg.role \in {"system", "user", "other"}
    /\ Requests \cup Compressed \subseteq Seq(Messages)

NoSystem == "none"
Payload(msgs, field) == [present |-> TRUE, messages |-> msgs, system |-> field]
NoMessages(field) == [present |-> FALSE, messages |-> <<>>, system |-> field]

VARIABLES
    mutate,     \* COMPRESSION_MUTATE_REQUEST
    edited,     \* whether the compressor has edited the list it was given
    stage,      \* "strip", "compress", "sift", "insert", "restored", "failed"
    request,    \* the payload the agent sent
    protected,  \* protected["messages"]: index, from 0, and message
    system,     \* protected["system"]
    stripped,   \* what goes to the compression service
    answer,     \* what comes from it
    restored,   \* what goes upstream
    list,       \* remaining_messages, then restored_messages
    next        \* the element a loop is at

vars == <<mutate, edited, stage, request, protected, system, stripped, answer, restored, list, next>>

-----------------------------------------------------------------------------
\* Mutant: the index is one too high.
HeldHigh(i, msg) == [index |-> i, message |-> msg]

Held(i, msg) == [index |-> i - 1, message |-> msg]

\* Of the user's messages only the first is protected.
TaskHeld == \E k \in DOMAIN protected : protected[k].message.role = "user"
IsProtected(msg) == msg.role = "system" \/ (msg.role = "user" /\ ~TaskHeld)

\* Mutant: injected system messages stay.
InjectedNone(msg) == FALSE

\* The compressor's own system messages go.
Injected(msg) == msg.role = "system"

\* Mutant: a kept message goes to the end.
PlaceAtEnd(msgs, index) == Len(msgs) + 1

\* list.insert(min(index, len(list)), message)
Place(msgs, index) == Min({index, Len(msgs)}) + 1

-----------------------------------------------------------------------------
Init ==
    /\ mutate \in BOOLEAN /\ edited = FALSE
    /\ stage = "strip"
    /\ request \in UNION {{Payload(msgs, field) : msgs \in Requests} \cup {NoMessages(field)} :
                             field \in {NoSystem, "agent's"}}
    /\ protected = <<>> /\ system = NoSystem
    /\ stripped = request /\ answer = request /\ restored = request
    /\ list = <<>> /\ next = 1

\* The first loop: a message is held back, or remains.
HoldBack ==
    /\ stage = "strip" /\ next <= Len(request.messages)
    /\ LET msg == request.messages[next]
       IN  IF IsProtected(msg)
           THEN protected' = Append(protected, Held(next, msg)) /\ UNCHANGED list
           ELSE list' = Append(list, msg) /\ UNCHANGED protected
    /\ next' = next + 1
    /\ UNCHANGED <<mutate, edited, stage, request, system, stripped, answer, restored>>

Strip ==
    /\ stage = "strip" /\ next > Len(request.messages)
    /\ stage' = "compress"
    /\ stripped' = [request EXCEPT !.messages = list, !.system = NoSystem]
    /\ system' = request.system
    /\ UNCHANGED <<mutate, edited, request, protected, answer, restored, list, next>>

\* What the base miner returns: the messages it was given, none as an empty list.
BaseMiner == stripped.messages

\* What becomes of a payload, as it is when the compressor has returned: a list, or
\* the list of a dict, replaces its messages; a dict without one replaces all of it;
\* anything else, nothing, and so it is with mutation off or without a compressor.
Taken(p) ==
    \/ mutate /\ \E msgs \in Compressed \cup {BaseMiner} : answer' = Payload(msgs, p.system)
    \/ mutate /\ \E field \in {NoSystem, "miner's"} : answer' = NoMessages(field)
    \/ answer' = p

\* A payload without a list lends the compressor none: it is given an empty one.
Compress ==
    /\ stage = "compress"
    /\ stage' = "sift"
    /\ \E msgs \in (IF stripped.present THEN Compressed ELSE {}) \cup {stripped.messages} :
          /\ edited' = (msgs # stripped.messages)
          /\ Taken([stripped EXCEPT !.messages = msgs])
    /\ list' = <<>> /\ next' = 1
    /\ UNCHANGED <<mutate, request, protected, system, stripped, restored>>

\* The compressor raises: 500 from the service, and from the proxy.
CompressFails ==
    /\ stage = "compress"
    /\ stage' = "failed"
    /\ UNCHANGED <<mutate, edited, request, protected, system, stripped, answer, restored, list, next>>

\* The second loop goes over the answer, the third over what is protected.
Sift ==
    /\ stage = "sift" /\ next <= Len(answer.messages)
    /\ LET msg == answer.messages[next]
       IN  list' = IF Injected(msg) THEN list ELSE Append(list, msg)
    /\ next' = next + 1
    /\ UNCHANGED <<mutate, edited, stage, request, protected, system, stripped, answer, restored>>

Sifted ==
    /\ stage = "sift" /\ next > Len(answer.messages)
    /\ stage' = "insert" /\ next' = 1
    /\ UNCHANGED <<mutate, edited, request, protected, system, stripped, answer, restored, list>>

PutBack ==
    /\ stage = "insert" /\ next <= Len(protected)
    /\ list' = InsertAt(list, Place(list, protected[next].index), protected[next].message)
    /\ next' = next + 1
    /\ UNCHANGED <<mutate, edited, stage, request, protected, system, stripped, answer, restored>>

\* An empty list is written only where something was protected.
Restore ==
    /\ stage = "insert" /\ next > Len(protected)
    /\ stage' = "restored"
    /\ LET written == IF list # <<>> \/ protected # <<>> THEN Payload(list, answer.system) ELSE answer
       IN  restored' = [written EXCEPT !.system = IF system # NoSystem THEN system ELSE @]
    /\ UNCHANGED <<mutate, edited, request, protected, system, stripped, answer, list, next>>

Next ==
    \/ HoldBack \/ Strip \/ Compress \/ CompressFails \/ Sift \/ Sifted \/ PutBack \/ Restore
    \/ stage \in {"restored", "failed"} /\ UNCHANGED vars

Spec == Init /\ [][Next]_vars

-----------------------------------------------------------------------------
FirstUser(msgs) == {i \in DOMAIN msgs : /\ msgs[i].role = "user"
                                        /\ \A j \in 1 .. i - 1 : msgs[j].role # "user"}

Protected(msgs) == {i \in DOMAIN msgs : msgs[i].role = "system"} \cup FirstUser(msgs)

\* A stripped request that comes back as it went leaves no trace: what goes
\* upstream is what the agent sent, message for message.  With mutation off that
\* is so whatever the compressor returns, unless it edits the list it is given:
\* that list goes upstream, mutation or not.
UnchangedIsUnchanged ==
    stage = "restored" /\ (answer = stripped \/ (~mutate /\ ~edited)) => restored = request

\* Where the protected message at a place ends up among n: at the same place, or
\* as near to it as the protected ones behind it leave room.
Seat(msgs, i, n) == Min({i, n - Cardinality({j \in Protected(msgs) : j > i})})

\* Whatever comes back, the protected messages go upstream in their order and as
\* near to their places as can be, and, where there are any, the system prompts
\* among them are the only ones.  A system field is the agent's where it sent one;
\* where it sent none, one can only come with a dict without messages that a
\* compressor returned, mutation on.
ProtectedSurvive ==
    stage = "restored" =>
        LET sent == request.messages
            msgs == restored.messages
            SeatOf(i) == Seat(sent, i, Len(msgs))
        IN  /\ Protected(sent) # {} =>
                  /\ \A i \in Protected(sent) : /\ SeatOf(i) \in DOMAIN msgs
                                                /\ msgs[SeatOf(i)] = sent[i]
                  /\ \A k \in DOMAIN msgs : msgs[k].role = "system" =>
                        \E i \in Protected(sent) : k = SeatOf(i)
            /\ request.system # NoSystem => restored.system = request.system
            /\ request.system = NoSystem /\ restored.system # NoSystem => mutate /\ ~answer.present

\* A trajectory that opens with its system prompts and the task still does:
\* the compressor can put nothing before or between them.
OpeningKept ==
    stage = "restored" =>
        \A n \in DOMAIN request.messages :
            (1 .. n) \subseteq Protected(request.messages) =>
                SubSeq(restored.messages, 1, n) = SubSeq(request.messages, 1, n)

=============================================================================
