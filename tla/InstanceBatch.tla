--------------------------- MODULE InstanceBatch ---------------------------
(***************************************************************************)
(* A batch of instances, from the thread pool that runs them to the rows   *)
(* of output.jsonl: run_harness_batch, execute_runtime_contexts around it, *)
(* the end of run_infer's main, and of run_harness_instance what a batch   *)
(* sees of it: a compose stack that is there or is made, a proxy in it     *)
(* whose token totals live as long as the stack, and a finally block that  *)
(* reads them from its log and may take the stack down.                    *)
(***************************************************************************)
EXTENDS Integers, Sequences, FiniteSets, SequencesExt, FiniteSetsExt

CONSTANTS
    N,              \* instances of the plan
    MaxConcurrency  \* the most that is asked for

ASSUME BatchAssumption == N \in Nat \ {0} /\ MaxConcurrency \in Nat \ {0}

VARIABLES
    shared,     \* SOMA_COPILOT_SHARED_PROXY
    keep,       \* SOMA_COPILOT_KEEP_STACK, or "unset"
    teardown,   \* SOMA_COPILOT_SHARED_PROXY_TEARDOWN
    concurrency,
    phase,      \* "run", "drain", "down", "write", "exit", "killed"
    stage,      \* of an instance: "waiting", "up", "returned", "raised"
    seen,       \* instances whose results the loop has taken, in that order
    failed,     \* the batch has raised
    up,         \* stacks that are up
    totals,     \* of the proxy of each stack
    spent,      \* what the agent of each instance has cost
    charge,     \* token_usage of its result
    rows        \* output.jsonl

options == <<shared, keep, teardown, concurrency>>
vars == <<options, phase, stage, seen, failed, up, totals, spent, charge, rows>>

Instances == 1 .. N
Is(s) == {i \in Instances : stage[i] = s}

-----------------------------------------------------------------------------
\* Mutant: stacks are numbered one too high.
StackHigh(i) == IF shared THEN 0 ELSE i + 1

\* One compose project for all, or one for each.
Stack(i) == IF shared THEN 0 ELSE i

\* Mutant: a shared stack is used by as many at a time as asked for.
WorkersAsAsked == Min({concurrency, N})

\* A shared stack makes the batch serial.
Workers == IF shared THEN 1 ELSE Min({concurrency, N})

\* The environment has precedence over what the batch sets.
KeepStack == IF keep # "unset" THEN keep = "true" ELSE shared

Init ==
    /\ shared \in BOOLEAN /\ keep \in {"unset", "true", "false"} /\ teardown \in BOOLEAN
    /\ concurrency \in 1 .. MaxConcurrency
    /\ phase = "run"
    /\ stage = [i \in Instances |-> "waiting"]
    /\ seen = <<>> /\ failed = FALSE
    /\ up = {}
    /\ totals = [s \in 0 .. N |-> 0]
    /\ spent = [i \in Instances |-> 0] /\ charge = [i \in Instances |-> 0]
    /\ rows = <<>>

\* A free worker takes the next instance; serially, not after one that raised.
\* Compose makes the stack if it is not there, unless something before it raises.
Start(i) ==
    /\ phase \in {"run", "drain"}
    /\ i \in Is("waiting") /\ \A j \in Is("waiting") : i <= j
    /\ Cardinality(Is("up")) < Workers
    /\ Workers = 1 => Is("raised") = {}
    /\ \/ stage' = [stage EXCEPT ![i] = "up"] /\ up' = up \cup {Stack(i)}
       \/ stage' = [stage EXCEPT ![i] = "raised"] /\ UNCHANGED up
    /\ UNCHANGED <<options, phase, seen, failed, totals, spent, charge, rows>>

\* The agent uses the model, through the stack's proxy.
Work(i) ==
    /\ phase # "killed"
    /\ stage[i] = "up" /\ spent[i] = 0
    /\ spent' = [spent EXCEPT ![i] = 1]
    /\ totals' = [totals EXCEPT ![Stack(i)] = @ + 1]
    /\ UNCHANGED <<options, phase, stage, seen, failed, up, charge, rows>>

\* compose down, taken to succeed: the proxy's totals go with it.
Down(s) == up' = up \ {s} /\ totals' = [totals EXCEPT ![s] = 0]

\* finally: the totals are read from the proxy's log, then the stack goes.
End(i) ==
    /\ phase # "killed" /\ stage[i] = "up"
    /\ stage' = [stage EXCEPT ![i] = "returned"]
    /\ charge' = [charge EXCEPT ![i] = totals[Stack(i)]]
    /\ IF KeepStack THEN UNCHANGED <<up, totals>> ELSE Down(Stack(i))
    /\ UNCHANGED <<options, phase, seen, failed, spent, rows>>

\* The run raises, or its finally block does, which then leaves the stack.
Raise(i) ==
    /\ phase # "killed" /\ stage[i] = "up"
    /\ stage' = [stage EXCEPT ![i] = "raised"]
    /\ \/ UNCHANGED <<up, totals>>
       \/ ~KeepStack /\ Down(Stack(i))
    /\ UNCHANGED <<options, phase, seen, failed, spent, charge, rows>>

\* The loop takes the results as they come; the first exception ends it.
Take(i) ==
    /\ phase = "run" /\ i \notin ToSet(seen)
    /\ \/ stage[i] = "returned" /\ seen' = Append(seen, i) /\ UNCHANGED <<phase, failed>>
       \/ stage[i] = "raised" /\ failed' = TRUE /\ phase' = "drain" /\ UNCHANGED seen
    /\ UNCHANGED <<options, stage, up, totals, spent, charge, rows>>

\* Mutant: the pool is left without waiting for its threads.
LeavePoolAtOnce ==
    /\ phase = "drain" \/ (phase = "run" /\ ToSet(seen) = Instances)
    /\ phase' = "down"
    /\ UNCHANGED <<options, stage, seen, failed, up, totals, spent, charge, rows>>

\* Mutant: what is queued is waited for, though nobody will run it.
LeavePoolEmpty ==
    /\ phase = "drain" \/ (phase = "run" /\ ToSet(seen) = Instances)
    /\ Is("up") = {} /\ Is("waiting") = {}
    /\ phase' = "down"
    /\ UNCHANGED <<options, stage, seen, failed, up, totals, spent, charge, rows>>

\* The pool is left when its threads are through, all that is queued included.
LeavePool ==
    /\ phase = "drain" \/ (phase = "run" /\ ToSet(seen) = Instances)
    /\ Is("up") = {} /\ (Workers = 1 \/ Is("waiting") = {})
    /\ phase' = "down"
    /\ UNCHANGED <<options, stage, seen, failed, up, totals, spent, charge, rows>>

\* finally: the shared stack goes, whatever happened.
TearDown ==
    /\ phase = "down"
    /\ phase' = "write"
    /\ IF shared /\ teardown THEN Down(0) ELSE UNCHANGED <<up, totals>>
    /\ UNCHANGED <<options, stage, seen, failed, spent, charge, rows>>

RowOf(i, result, tokens) == [instance |-> i, result |-> result, tokens |-> tokens]

\* Mutant: results are in the order they came.
RowAsTaken(k) ==
    IF failed THEN RowOf(k, "runtime-error", 0) ELSE RowOf(seen[k], "returned", charge[seen[k]])

\* An exception of the batch makes an error of every row.
Row(k) == IF failed THEN RowOf(k, "runtime-error", 0) ELSE RowOf(k, "returned", charge[k])

Write ==
    /\ phase = "write"
    /\ rows' = Append(rows, Row(Len(rows) + 1))
    /\ phase' = IF Len(rows) + 1 = N THEN "exit" ELSE "write"
    /\ UNCHANGED <<options, stage, seen, failed, up, totals, spent, charge>>

Kill ==
    /\ phase \notin {"exit", "killed"}
    /\ phase' = "killed"
    /\ UNCHANGED <<options, stage, seen, failed, up, totals, spent, charge, rows>>

Next ==
    \/ \E i \in Instances : Start(i) \/ Work(i) \/ End(i) \/ Raise(i) \/ Take(i)
    \/ LeavePool \/ TearDown \/ Write \/ Kill
    \/ phase \in {"exit", "killed"} /\ UNCHANGED vars

\* The threads and the main thread go on, and an agent is through in the end: its
\* timeout is an option, so that is an assumption.  Nothing is assumed of Kill.
Fairness ==
    /\ \A i \in Instances : WF_vars(Start(i)) /\ WF_vars(End(i) \/ Raise(i)) /\ WF_vars(Take(i))
    /\ WF_vars(LeavePool) /\ WF_vars(TearDown) /\ WF_vars(Write)

Spec == Init /\ [][Next]_vars /\ Fairness

-----------------------------------------------------------------------------
\* Every variable has its type.
TypeOK ==
    /\ {shared, teardown, failed} \subseteq BOOLEAN
    /\ phase \in {"run", "drain", "down", "write", "exit", "killed"}
    /\ stage \in [Instances -> {"waiting", "up", "returned", "raised"}]
    /\ up \subseteq 0 .. N
    /\ totals \in [0 .. N -> 0 .. N] /\ spent \in [Instances -> 0 .. 1]
    /\ charge \in [Instances -> 0 .. N]
    /\ Len(seen) <= N /\ Len(rows) <= N

\* output.jsonl has the instances in the plan's order, in whatever order they
\* ended, each with its own result; and none is said to have completed that has
\* not, whichever of them fail.
RowsFollowPlan ==
    \A k \in DOMAIN rows :
        /\ rows[k].instance = k
        /\ rows[k].result = "returned" => stage[k] = "returned" /\ rows[k].tokens = charge[k]

\* When a batch is over, for good or ill, none of its instances still works: not
\* while the shared stack is taken down, and not behind the rows' back.
QuietWhenOver == phase \in {"down", "write", "exit"} => Is("up") = {}

Sum(is) == Cardinality({i \in is : spent[i] = 1})

\* What is charged is the instance's own where it has its stack for itself, and
\* with a kept shared stack the sum up to it: no cost is lost between them.
ChargesAddUp ==
    \A i \in Is("returned") :
        charge[i] = IF shared /\ KeepStack THEN Sum(1 .. i) ELSE spent[i]

\* Every batch comes to its end, unless it is killed.
BatchEnds == <>(phase \in {"exit", "killed"})

=============================================================================
