------------------------- MODULE CompressorSessions -------------------------
(***************************************************************************)
(* The suspended-call protocol `soma-compressor-services/1`: a miner that  *)
(* compresses one agent turn calls a service, its call is parked in the    *)
(* compression service, travels to the proxy as a `pending` answer, is     *)
(* executed there, and its result comes back with /transform/resume.       *)
(*                                                                         *)
(* Three kinds of process take the steps: the miner's threads, the HTTP    *)
(* handlers of the compression service (services.py, main.py) and the one  *)
(* event loop of the proxy (proxy.py).  Their steps interleave freely; the *)
(* handler's deliver() is not atomic with respect to the miner, so each of *)
(* its reads and writes is an action.                                      *)
(*                                                                         *)
(* A round of calls is named by its number within the session; what a call *)
(* asks and what the service answers is abstracted away.                   *)
(***************************************************************************)
EXTENDS Integers, Sequences, FiniteSets

CONSTANTS
    Turns,          \* agent turns; a turn has at most one session, so it names it
    Helpers,        \* threads the miner's code may start besides the calling one
    Main,           \* the thread that runs the compressor function
    NoTurn,         \* _COMPRESSOR_EXEC_LOCK is free
    NoThread,       \* a session's Services._lock is free
    MaxRounds,      \* JEV_OFFER["max_rounds"]
    MaxAsks,        \* bound of the model: rounds the miner of each turn asks for
    Offered         \* turns whose /transform carries an offer the miner can take

ASSUME NoTurnAssumption == NoTurn \notin Turns
ASSUME NoThreadAssumption == Main \notin Helpers /\ NoThread \notin Helpers \cup {Main}
ASSUME BoundsAssumption == MaxRounds \in Nat /\ MaxAsks \in [Turns -> Nat] /\ Offered \subseteq Turns

Threads == Helpers \cup {Main}

VARIABLES
    turn,       \* the proxy's loop in _transform_payload_via_compression_service
    answer,     \* the last HTTP answer the proxy read for the turn
    held,       \* round of the last `pending` answer handed out
    rounds,     \* _ServiceBudget.rounds
    executed,   \* rounds _run_service_round has executed, in order
    handler,    \* where the HTTP handler working for the turn is
    store,      \* SessionStore._sessions
    lock,       \* holder of _COMPRESSOR_EXEC_LOCK
    thread,     \* where each thread of the miner is
    svcLock,    \* holder of the session's Services._lock
    asked,      \* Session.round
    pending,    \* Session._pending_ids, 0 for the empty set
    events,     \* Session._events
    results,    \* Session._results
    outcomes,   \* what each round trip returned to the miner, in order
    expired     \* some wait of the session has raised queue.Empty

proxyVars   == <<turn, answer, held, rounds, executed>>
minerVars   == <<thread, svcLock, asked, outcomes, expired>>
vars == <<turn, answer, held, rounds, executed, handler, store, lock, thread,
          svcLock, asked, pending, events, results, outcomes, expired>>

-----------------------------------------------------------------------------
\* Mutant: the ids start anew with every round.
CallIdsRestart(k) == 1

\* The set of ids of the k-th round's calls.  _next_id is never reset, so rounds
\* of one session have disjoint sets and the round number can stand for the set.
CallIds(k) == k

\* Mutant: None for the empty set of ids.
NoIdsNone == -1
NoIds == 0

Pending(k) == [kind |-> "pending", round |-> k]
Final(kind) == [kind |-> kind, round |-> 0]

Results(k) == [ids |-> CallIds(k), from |-> k]

Outcome(k, kind, from) == [round |-> k, kind |-> kind, from |-> from]

\* by_id.get(cid) finds an answer only among results that carry the round's ids.
OutcomeOf(k, res) ==
    IF res.ids = CallIds(k) THEN Outcome(k, "answered", res.from)
                            ELSE Outcome(k, "invalid", res.from)

Active(t) == turn[t] \in {"posted", "round", "resume"}
Over(t)   == turn[t] \in {"done", "failed"}

Init ==
    /\ turn     = [t \in Turns |-> "idle"]
    /\ answer   = [t \in Turns |-> "none"]
    /\ held     = [t \in Turns |-> 0]
    /\ rounds   = [t \in Turns |-> 0]
    /\ executed = [t \in Turns |-> <<>>]
    /\ handler  = [t \in Turns |-> "none"]
    /\ store    = {}
    /\ lock     = NoTurn
    /\ thread   = [t \in Turns |-> [w \in Threads |-> "out"]]
    /\ svcLock  = [t \in Turns |-> NoThread]
    /\ asked    = [t \in Turns |-> 0]
    /\ pending  = [t \in Turns |-> NoIds]
    /\ events   = [t \in Turns |-> <<>>]
    /\ results  = [t \in Turns |-> <<>>]
    /\ outcomes = [t \in Turns |-> <<>>]
    /\ expired  = [t \in Turns |-> FALSE]

Move(t, w, from, to) ==
    /\ thread[t][w] = from
    /\ thread' = [thread EXCEPT ![t][w] = to]

-----------------------------------------------------------------------------
(* The proxy.  proxy_passthrough is a coroutine that blocks in urlopen, so   *)
(* no second turn enters the compression service while one is in it.         *)

\* POST /transform.  With an offer the handler registers a session (which also
\* evicts sessions older than SESSION_TTL_S, here: any subset of the others),
\* starts the miner's thread and waits; without one it runs the miner itself.
StartTurn(t) ==
    /\ turn[t] = "idle"
    /\ \A u \in Turns : ~Active(u)
    /\ turn' = [turn EXCEPT ![t] = "posted"]
    /\ Move(t, Main, "out", "lockwait")
    /\ IF t \in Offered
       THEN /\ handler' = [handler EXCEPT ![t] = "wait"]
            /\ \E evicted \in SUBSET store : store' = (store \ evicted) \cup {t}
       ELSE /\ handler' = [handler EXCEPT ![t] = "plain"]
            /\ UNCHANGED store
    /\ UNCHANGED <<answer, held, rounds, executed, lock, svcLock, asked, pending,
                   events, results, outcomes, expired>>

\* _run_service_round: every call of the round gets a result.
RunRound(t) ==
    /\ turn[t] = "round"
    /\ rounds[t] < 2 * MaxRounds
    /\ rounds' = [rounds EXCEPT ![t] = @ + 1]
    /\ executed' = [executed EXCEPT ![t] = Append(@, held[t])]
    /\ turn' = [turn EXCEPT ![t] = "resume"]
    /\ UNCHANGED <<answer, held, handler, store, lock, pending, events, results, minerVars>>

\* The loop raises: the budget is twice used up or the deadline is 5 s past
\* (time is not modelled, so the deadline may pass at any round).
AbandonRound(t) ==
    /\ turn[t] = "round"
    /\ turn' = [turn EXCEPT ![t] = "failed"]
    /\ UNCHANGED <<answer, held, rounds, executed, handler, store, lock, pending,
                   events, results, minerVars>>

\* POST /transform/resume reaches the service: SessionStore.get, else 404.
Resume(t) ==
    /\ turn[t] = "resume"
    /\ IF t \in store
       THEN /\ turn' = [turn EXCEPT ![t] = "posted"]
            /\ handler' = [handler EXCEPT ![t] = "check"]
            /\ UNCHANGED answer
       ELSE /\ turn' = [turn EXCEPT ![t] = "failed"]
            /\ answer' = [answer EXCEPT ![t] = "404"]
            /\ UNCHANGED handler
    /\ UNCHANGED <<held, rounds, executed, store, lock, pending, events, results, minerVars>>

\* Mutant: the first request has no timeout.
GiveUpOnResume(t) ==
    /\ turn[t] = "resume"
    /\ turn' = [turn EXCEPT ![t] = "failed"]
    /\ UNCHANGED <<answer, held, rounds, executed, handler, store, lock, pending,
                   events, results, minerVars>>

\* urlopen times out, or the connection fails before or after the service has
\* read the request.  The handler, if there is one, is not told.
GiveUp(t) ==
    /\ turn[t] \in {"posted", "resume"}
    /\ turn' = [turn EXCEPT ![t] = "failed"]
    /\ UNCHANGED <<answer, held, rounds, executed, handler, store, lock, pending,
                   events, results, minerVars>>

-----------------------------------------------------------------------------
(* The HTTP handler of the compression service.                              *)

\* What the proxy makes of an answer; one that comes after it gave up is lost.
Reply(t, code, next) ==
    /\ handler' = [handler EXCEPT ![t] = "none"]
    /\ IF turn[t] = "posted"
       THEN /\ turn' = [turn EXCEPT ![t] = next]
            /\ answer' = [answer EXCEPT ![t] = code]
       ELSE UNCHANGED <<turn, answer>>

\* deliver(): the results must answer exactly the calls of the last round ...
AcceptResults(t) ==
    /\ handler[t] = "check"
    /\ pending[t] = CallIds(held[t])
    /\ handler' = [handler EXCEPT ![t] = "clear"]
    /\ UNCHANGED <<proxyVars, store, lock, pending, events, results, minerVars>>

\* ... else ValueError, answered with 400.
RejectResults(t) ==
    /\ handler[t] = "check"
    /\ pending[t] # CallIds(held[t])
    /\ Reply(t, "400", "failed")
    /\ UNCHANGED <<held, rounds, executed, store, lock, pending, events, results, minerVars>>

\* deliver(): self._pending_ids = set()
ClearPending(t) ==
    /\ handler[t] = "clear"
    /\ pending' = [pending EXCEPT ![t] = NoIds]
    /\ handler' = [handler EXCEPT ![t] = "put"]
    /\ UNCHANGED <<proxyVars, store, lock, events, results, minerVars>>

\* deliver(): self._results.put(results); then _session_answer waits.
PutResults(t) ==
    /\ handler[t] = "put"
    /\ results' = [results EXCEPT ![t] = Append(@, Results(held[t]))]
    /\ handler' = [handler EXCEPT ![t] = "wait"]
    /\ UNCHANGED <<proxyVars, store, lock, pending, events, minerVars>>

\* Mutant: a `pending` answer ends the session like any other.
AnswerPendingDrops(t) ==
    /\ handler[t] = "wait"
    /\ events[t] # <<>>
    /\ Head(events[t]).kind = "pending"
    /\ events' = [events EXCEPT ![t] = Tail(@)]
    /\ held' = [held EXCEPT ![t] = Head(events[t]).round]
    /\ store' = store \ {t}
    /\ Reply(t, "pending", "round")
    /\ UNCHANGED <<rounds, executed, lock, pending, results, minerVars>>

\* _session_answer: a `pending` event is the answer; any other one ends the
\* session, with the compressed payload or with HTTP 500.
AnswerPending(t) ==
    /\ handler[t] = "wait"
    /\ events[t] # <<>>
    /\ Head(events[t]).kind = "pending"
    /\ events' = [events EXCEPT ![t] = Tail(@)]
    /\ held' = [held EXCEPT ![t] = Head(events[t]).round]
    /\ Reply(t, "pending", "round")
    /\ UNCHANGED <<rounds, executed, store, lock, pending, results, minerVars>>

AnswerFinal(t) ==
    /\ handler[t] = "wait"
    /\ events[t] # <<>>
    /\ Head(events[t]).kind \in {"done", "error"}
    /\ events' = [events EXCEPT ![t] = Tail(@)]
    /\ store' = store \ {t}
    /\ IF Head(events[t]).kind = "done" THEN Reply(t, "payload", "done")
                                        ELSE Reply(t, "500", "failed")
    /\ UNCHANGED <<held, rounds, executed, lock, pending, results, minerVars>>

-----------------------------------------------------------------------------
(* The miner's threads.                                                      *)

\* _invoke_compressor_logged runs one compressor at a time.
EnterCompressor(t) ==
    /\ lock = NoTurn
    /\ Move(t, Main, "lockwait", "run")
    /\ lock' = t
    /\ UNCHANGED <<proxyVars, handler, store, svcLock, asked, pending, events,
                   results, outcomes, expired>>

\* The compressor function returns or raises, and the lock is released.
LeaveCompressor(t) ==
    /\ \E how \in {"returned", "raised"} : Move(t, Main, "run", how)
    /\ lock' = NoTurn
    /\ UNCHANGED <<proxyVars, handler, store, svcLock, asked, pending, events,
                   results, outcomes, expired>>

\* work() hands the result, or any exception, to the session; without a session
\* the handler that ran the miner answers with it.
Finish(t, how, kind) ==
    /\ Move(t, Main, how, "ended")
    /\ IF handler[t] = "plain"
       THEN /\ IF kind = "done" THEN Reply(t, "payload", "done") ELSE Reply(t, "500", "failed")
            /\ UNCHANGED events
       ELSE /\ events' = [events EXCEPT ![t] = Append(@, Final(kind))]
            /\ UNCHANGED <<turn, answer, handler>>
    /\ UNCHANGED <<held, rounds, executed, store, lock, svcLock, asked, pending,
                   results, outcomes, expired>>

\* Mutant: work() does not catch what the compressor raises.
FinishTurnReturned(t) == Finish(t, "returned", "done")

FinishTurn(t) == Finish(t, "returned", "done") \/ Finish(t, "raised", "error")

\* The miner's own code: starting a thread, a thread running out, a service call.
Spawn(t, w) ==
    /\ t \in Offered
    /\ w \in Helpers
    /\ thread[t][Main] = "run"
    /\ Move(t, w, "out", "run")
    /\ UNCHANGED <<proxyVars, handler, store, lock, svcLock, asked, pending, events,
                   results, outcomes, expired>>

ThreadEnds(t, w) ==
    /\ w \in Helpers
    /\ Move(t, w, "run", "ended")
    /\ UNCHANGED <<proxyVars, handler, store, lock, svcLock, asked, pending, events,
                   results, outcomes, expired>>

Waiting(t) == {w \in Threads : thread[t][w] = "want"}

CallService(t, w) ==
    /\ t \in Offered
    /\ asked[t] + Cardinality(Waiting(t)) < MaxAsks[t]
    /\ Move(t, w, "run", "want")
    /\ UNCHANGED <<proxyVars, handler, store, lock, svcLock, asked, pending, events,
                   results, outcomes, expired>>

\* Mutant: Services has no lock.
BeginRoundUnlocked(t, w) ==
    /\ Move(t, w, "want", "announce")
    /\ svcLock' = [svcLock EXCEPT ![t] = w]
    /\ asked' = [asked EXCEPT ![t] = @ + 1]
    /\ pending' = [pending EXCEPT ![t] = CallIds(asked[t] + 1)]
    /\ UNCHANGED <<proxyVars, handler, store, lock, events, results, outcomes, expired>>

\* Services._round under its lock, up to the assignment of _pending_ids.
BeginRound(t, w) ==
    /\ svcLock[t] = NoThread
    /\ Move(t, w, "want", "announce")
    /\ svcLock' = [svcLock EXCEPT ![t] = w]
    /\ asked' = [asked EXCEPT ![t] = @ + 1]
    /\ pending' = [pending EXCEPT ![t] = CallIds(asked[t] + 1)]
    /\ UNCHANGED <<proxyVars, handler, store, lock, events, results, outcomes, expired>>

\* self._events.put(("pending", ...)), and the thread parks on _results.
Announce(t, w) ==
    /\ Move(t, w, "announce", "parked")
    /\ events' = [events EXCEPT ![t] = Append(@, Pending(asked[t]))]
    /\ UNCHANGED <<proxyVars, handler, store, lock, svcLock, asked, pending, results,
                   outcomes, expired>>

\* _results.get() returns, the lock is released, each call gets its answer.
TakeResults(t, w) ==
    /\ results[t] # <<>>
    /\ Move(t, w, "parked", "run")
    /\ results' = [results EXCEPT ![t] = Tail(@)]
    /\ outcomes' = [outcomes EXCEPT ![t] = Append(@, OutcomeOf(asked[t], Head(results[t])))]
    /\ svcLock' = [svcLock EXCEPT ![t] = NoThread]
    /\ UNCHANGED <<proxyVars, handler, store, lock, asked, pending, events, expired>>

\* Mutant: _results.get() without a timeout.
WaitExpiresNever(t, w) == FALSE

\* _results.get() raises queue.Empty ...
WaitExpires(t, w) ==
    /\ results[t] = <<>>
    /\ Move(t, w, "parked", "expiring")
    /\ expired' = [expired EXCEPT ![t] = TRUE]
    /\ UNCHANGED <<proxyVars, handler, store, lock, svcLock, asked, pending, events,
                   results, outcomes>>

\* ... and the except branch withdraws the round and returns `timeout` errors.
Withdraw(t, w) ==
    /\ Move(t, w, "expiring", "run")
    /\ pending' = [pending EXCEPT ![t] = NoIds]
    /\ outcomes' = [outcomes EXCEPT ![t] = Append(@, Outcome(asked[t], "timeout", 0))]
    /\ svcLock' = [svcLock EXCEPT ![t] = NoThread]
    /\ UNCHANGED <<proxyVars, handler, store, lock, asked, events, results, expired>>

-----------------------------------------------------------------------------
\* Everything has run its course: all turns are over and nothing waits.
Quiescent ==
    /\ \A t \in Turns : Over(t) /\ handler[t] = "none" /\ thread[t][Main] = "ended"
    /\ \A t \in Turns, w \in Helpers : thread[t][w] \in {"out", "ended"}

Proxy(t) == RunRound(t) \/ AbandonRound(t) \/ Resume(t) \/ GiveUp(t)

Handler(t) ==
    \/ AcceptResults(t) \/ RejectResults(t) \/ ClearPending(t) \/ PutResults(t)
    \/ AnswerPending(t) \/ AnswerFinal(t)

\* What the service's own code does on the miner's threads.
Service(t, w) ==
    BeginRound(t, w) \/ Announce(t, w) \/ TakeResults(t, w) \/ WaitExpires(t, w) \/ Withdraw(t, w)

Runtime(t) == EnterCompressor(t) \/ FinishTurn(t) \/ \E w \in Threads : Service(t, w)

\* What the miner's code does.
Miner(t) ==
    \/ LeaveCompressor(t)
    \/ \E w \in Threads : Spawn(t, w) \/ ThreadEnds(t, w) \/ CallService(t, w)

Next ==
    \/ \E t \in Turns : StartTurn(t) \/ Proxy(t) \/ Handler(t) \/ Runtime(t) \/ Miner(t)
    \/ Quiescent /\ UNCHANGED vars

Spec == Init /\ [][Next]_vars

-----------------------------------------------------------------------------
(* Fairness.  The service's part of a miner thread runs until it blocks, and *)
(* a wait for results ends by itself; so does a handler; the proxy's urlopen *)
(* has a timeout, and its own code always goes on.  That the miner's code    *)
(* comes to an end is assumed nowhere but in HandlersReturn.                 *)

ProxyFairness   == \A t \in Turns : WF_vars(Proxy(t))
HandlerFairness == \A t \in Turns : WF_vars(Handler(t))
RuntimeFairness ==
    /\ \A t \in Turns : WF_vars(EnterCompressor(t)) /\ WF_vars(FinishTurn(t))
    /\ \A t \in Turns, w \in Threads : WF_vars(Service(t, w))
MinerFairness ==
    \A t \in Turns : WF_vars(LeaveCompressor(t)) /\ \A w \in Helpers : WF_vars(ThreadEnds(t, w))

\* The service's own threads always run; what else a property needs, it names.
FairSpec == Spec /\ RuntimeFairness

-----------------------------------------------------------------------------
(* Properties.                                                               *)

ThreadStates == {"out", "lockwait", "run", "want", "announce", "parked", "expiring",
                 "returned", "raised", "ended"}

Event == [kind : {"pending"}, round : Nat] \cup [kind : {"done", "error"}, round : {0}]

\* Every variable has its type.
TypeOK ==
    /\ turn \in [Turns -> {"idle", "posted", "round", "resume", "done", "failed"}]
    /\ answer \in [Turns -> {"none", "pending", "payload", "500", "400", "404"}]
    /\ held \in [Turns -> Nat]
    /\ rounds \in [Turns -> Nat]
    /\ executed \in [Turns -> Seq(Nat)]
    /\ handler \in [Turns -> {"none", "plain", "check", "clear", "put", "wait"}]
    /\ store \subseteq Turns
    /\ lock \in Turns \cup {NoTurn}
    /\ thread \in [Turns -> [Threads -> ThreadStates]]
    /\ svcLock \in [Turns -> Threads \cup {NoThread}]
    /\ asked \in [Turns -> Nat]
    /\ pending \in [Turns -> Nat]
    /\ events \in [Turns -> Seq(Event)]
    /\ results \in [Turns -> Seq([ids : Nat, from : Nat])]
    /\ outcomes \in [Turns -> Seq([round : Nat, kind : {"answered", "invalid", "timeout"}, from : Nat])]
    /\ expired \in [Turns -> BOOLEAN]

\* deliver() refuses the results of a round (400, a failed turn) only in a
\* session where some wait for results has expired: as long as the miner is
\* still waiting, the proxy's answer is the one it waits for.
RejectedOnlyAfterExpiry == \A t \in Turns : answer[t] = "400" => expired[t]

\* A session is there whenever the proxy resumes it: neither the TTL sweep of a
\* later turn nor the end of an earlier exchange takes it away (404).
NeverUnknownSession == \A t \in Turns : answer[t] # "404"

\* A round comes back as invalid_result only where some wait has expired.
InvalidOnlyAfterExpiry ==
    \A t \in Turns : \A i \in DOMAIN outcomes[t] : outcomes[t][i].kind = "invalid" => expired[t]

\* The protocol gives its users blocking calls: one at a time, answered by what
\* was executed for that very round, executed at most once and in order.
Calls == INSTANCE BlockingCalls WITH over <- {t \in Turns : Over(t)}
ImplementsBlockingCalls == Calls!Spec

\* The proxy's loop ends, whatever handlers and miner do (or stop doing).
EveryTurnEnds == ProxyFairness => \A t \in Turns : turn[t] = "posted" ~> Over(t)

\* A service call returns to the miner even if proxy and handlers stand still.
CallsReturn == \A t \in Turns, w \in Threads : thread[t][w] = "want" ~> thread[t][w] = "run"

\* No handler (a slot of the service's thread pool) waits forever, not even one
\* the proxy has turned away from, provided the miner's code comes to an end.
HandlersReturn ==
    HandlerFairness /\ MinerFairness =>
        \A t \in Turns : handler[t] # "none" ~> handler[t] = "none"

-----------------------------------------------------------------------------
(* The inductive invariant behind the first three properties.                *)

Quiet(s) == \A i \in DOMAIN s : s[i].kind # "pending"

\* s announces round k once and no other round.
Announces(s, k) ==
    \E i \in DOMAIN s : /\ s[i] = Pending(k)
                        /\ \A j \in DOMAIN s : s[j].kind = "pending" => j = i

Delivering(t) == handler[t] \in {"check", "clear", "put"}
InProxy(t)    == turn[t] \in {"round", "resume"}

\* A thread is in a round exactly while it holds the lock of the services.
RoundHeld ==
    \A t \in Turns, w \in Threads :
        thread[t][w] \in {"announce", "parked", "expiring"} <=> svcLock[t] = w

\* A request of the proxy has a handler, and a turn the proxy works on has none.
HandlerServes ==
    \A t \in Turns : turn[t] \notin {"posted", "failed"} => handler[t] = "none"

\* A session stays in the store as long as the proxy may resume it.
SessionKept ==
    \A t \in Turns :
        IF t \in Offered
        THEN handler[t] # "plain" /\ (Active(t) => t \in store)
        ELSE handler[t] \in {"none", "plain"} /\ ~InProxy(t)

\* As long as no wait has expired the round a session is in is at one place:
\* announced in the queue, out with a reader of the announcement, on its way
\* through deliver(), or back in the queue of results.
RoundQueued(t) ==
    /\ Announces(events[t], asked[t]) /\ results[t] = <<>>
    /\ ~Delivering(t) /\ ~InProxy(t) /\ pending[t] = CallIds(asked[t])
RoundOut(t) ==
    /\ Quiet(events[t]) /\ results[t] = <<>> /\ held[t] = asked[t]
    /\ handler[t] # "put" => pending[t] = CallIds(asked[t])
RoundBack(t) ==
    /\ Quiet(events[t]) /\ results[t] = <<Results(asked[t])>>
    /\ ~Delivering(t) /\ ~InProxy(t)
NoRound(t) ==
    /\ Quiet(events[t]) /\ results[t] = <<>> /\ ~Delivering(t) /\ ~InProxy(t)

RoundPlaced(t) ==
    \/ svcLock[t] = NoThread /\ NoRound(t)
    \/ /\ svcLock[t] # NoThread
       /\ thread[t][svcLock[t]] = "announce"
       /\ pending[t] = CallIds(asked[t])
       /\ NoRound(t)
    \/ /\ svcLock[t] # NoThread
       /\ thread[t][svcLock[t]] = "parked"
       /\ RoundQueued(t) \/ RoundOut(t) \/ RoundBack(t)

RoundSomewhere == \A t \in Turns : ~expired[t] => RoundPlaced(t)

RoundInv ==
    /\ TypeOK /\ RoundHeld /\ HandlerServes /\ SessionKept /\ RoundSomewhere
    /\ RejectedOnlyAfterExpiry /\ InvalidOnlyAfterExpiry /\ NeverUnknownSession

=============================================================================
