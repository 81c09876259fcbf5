--------------------------- MODULE ServiceBudget ---------------------------
(***************************************************************************)
(* The limits of one agent turn: what the proxy lets a miner spend on      *)
(* services (_ServiceBudget, _run_service_round), the loop around it, and  *)
(* the three clocks that bound the turn.  They start at different moments: *)
(* the session's when /transform arrives, the budget's when the proxy has  *)
(* the first answer, the HTTP timeout's at every request.                  *)
(*                                                                         *)
(* Time passes only while the miner computes, calls wait for a worker or   *)
(* are upstream, or an answer is on its way; the steps of the proxy and of *)
(* the service take none.  The timeout of a request is that of one socket  *)
(* operation: an answer that comes in parts starts it anew with each, so   *)
(* no clock of the proxy bounds what the network takes.  `late` counts it. *)
(*                                                                         *)
(* The miner has one thread here, and one turn is all there is:            *)
(* CompressorSessions has the interleavings, this module has the numbers.  *)
(***************************************************************************)
EXTENDS Integers, Sequences, FiniteSets, FiniteSetsExt

CONSTANTS
    MaxRounds, MaxCalls, MaxCallsPerRound,  \* JEV_OFFER
    Deadline,       \* JEV_OFFER["deadline_ms"]
    Grace,          \* how far past the deadline the proxy's loop goes on
    Margin,         \* WAIT_MARGIN_S
    MinWait,        \* the 0.1 s a parked call waits in any case
    MinCall,        \* the 0.2 s a call is given in any case
    HttpTimeout,    \* of a request to the compression service
    Batches,        \* rounds the miner may ask for: sequences of BOOLEAN,
                    \* TRUE for a call that is well-formed and on offer
    MaxLate,        \* bound of the model: the most there is of `late`
    Horizon         \* bound of the model: the clock stops here

ASSUME LimitsAssumption ==
    /\ {MaxRounds, MaxCalls, MaxCallsPerRound, Deadline, Grace, Margin, MaxLate, Horizon} \subseteq Nat
    /\ {MinWait, MinCall, HttpTimeout} \subseteq Nat \ {0}
    /\ \A b \in Batches : b \in Seq(BOOLEAN) /\ b # <<>>

VARIABLES
    now,        \* the clock; the session was created at 0
    miner,      \* "computing", "parked" in a round, or "ended"
    waitUntil,  \* when the parked miner's wait expires
    asked,      \* Session.round
    pending,    \* the round whose results deliver() accepts, 0 for none
    events,     \* Session._events
    gaveUp,     \* where the proxy was when a wait of the miner expired
    proxy,      \* where the proxy's loop is
    job,        \* the event it works on: a round and its calls
    until,      \* when its current wait (HTTP or upstream) times out,
    patience,   \* if by then no more has come: the request's timeout
    late,       \* how long answers and calls were held up: see Late
    started,    \* _ServiceBudget.started, once there is a budget
    rounds,     \* _ServiceBudget.rounds
    calls,      \* _ServiceBudget.calls
    why         \* why the turn failed

minerVars == <<miner, waitUntil, asked, pending, events, gaveUp>>
proxyVars == <<proxy, job, until, patience, started, rounds, calls, why>>
vars == <<now, late, minerVars, proxyVars>>

None == -1
Round(k, b) == [round |-> k, calls |-> b]
\* Mutant: the end has no value.
MinerDoneBare == Round(None, <<>>)
MinerDone == Round(0, <<>>)
Over == proxy \in {"done", "failed"}

Init ==
    /\ now = 0
    /\ miner = "computing" /\ waitUntil = 0 /\ asked = 0 /\ pending = 0
    /\ events = <<>> /\ gaveUp = "none"
    /\ proxy = "posted" /\ job = MinerDone /\ until = HttpTimeout /\ patience = HttpTimeout
    /\ late = 0 /\ started = None /\ rounds = 0 /\ calls = 0 /\ why = "none"

-----------------------------------------------------------------------------
(* The miner, in a session.                                                  *)

\* Mutant: the wait ends with the deadline.
AskNoMargin(b) ==
    /\ miner = "computing"
    /\ miner' = "parked"
    /\ asked' = asked + 1
    /\ pending' = asked + 1
    /\ events' = Append(events, Round(asked + 1, b))
    /\ waitUntil' = Max({Deadline, now + MinWait})
    /\ UNCHANGED <<now, late, gaveUp, proxyVars>>

\* Services._round and Session._round_trip, up to the wait for the results.
Ask(b) ==
    /\ miner = "computing"
    /\ miner' = "parked"
    /\ asked' = asked + 1
    /\ pending' = asked + 1
    /\ events' = Append(events, Round(asked + 1, b))
    /\ waitUntil' = Max({Deadline + Margin, now + MinWait})
    /\ UNCHANGED <<now, late, gaveUp, proxyVars>>

\* queue.Empty: the round is withdrawn, each of its calls is a `timeout`.
WaitExpires ==
    /\ miner = "parked"
    /\ now >= waitUntil
    /\ miner' = "computing"
    /\ pending' = 0
    /\ gaveUp' = proxy
    /\ UNCHANGED <<now, late, waitUntil, asked, events, proxyVars>>

MinerEnds ==
    /\ miner = "computing"
    /\ miner' = "ended"
    /\ events' = Append(events, MinerDone)
    /\ UNCHANGED <<now, late, waitUntil, asked, pending, gaveUp, proxyVars>>

-----------------------------------------------------------------------------
(* The proxy, in _transform_payload_via_compression_service.                 *)

Fail(reason) == proxy' = "failed" /\ why' = reason

\* The first answer gives the turn its budget.
StartBudget == started' = IF started = None THEN now ELSE started

\* The handler has an event: a round for the loop, or the compressed payload.
Answered ==
    /\ proxy = "posted"
    /\ events # <<>>
    /\ proxy' = IF Head(events) = MinerDone THEN "done" ELSE "round"
    /\ job' = Head(events)
    /\ events' = Tail(events)
    /\ StartBudget
    /\ UNCHANGED <<now, late, miner, waitUntil, asked, pending, gaveUp, until, patience,
                   rounds, calls, why>>

\* A part of an answer comes, of the service's or of a call's.
Trickle ==
    /\ \/ proxy = "posted" /\ events # <<>>
       \/ proxy = "upstream"
    /\ until' = now + patience
    /\ UNCHANGED <<now, late, minerVars, proxy, job, patience, started, rounds, calls, why>>

\* Nothing has come for as long as the socket waits.
HttpTimesOut ==
    /\ proxy = "posted"
    /\ now = until
    /\ Fail("no answer")
    /\ UNCHANGED <<now, late, minerVars, job, until, patience, started, rounds, calls>>

\* Mutant: the loop looks at the rounds only.
SpentRounds == rounds >= 2 * MaxRounds

Spent == rounds >= 2 * MaxRounds \/ now - started > Deadline + Grace

StopAsking ==
    /\ proxy = "round"
    /\ Spent
    /\ Fail("budget")
    /\ UNCHANGED <<now, late, minerVars, job, until, patience, started, rounds, calls>>

\* Mutant: the calls of earlier rounds are forgotten.
RoomOfRound ==
    IF rounds + 1 > MaxRounds \/ Deadline - (now - started) <= MinCall THEN 0
    ELSE Min({MaxCallsPerRound, MaxCalls})

\* The calls of a batch the budget still allows, in the round about to be run:
\* the first good ones, as long as there is room for them.  Malformed calls do
\* not count.
Room ==
    IF rounds + 1 > MaxRounds \/ Deadline - (now - started) <= MinCall THEN 0
    ELSE Min({MaxCallsPerRound, MaxCalls - calls})

Runnable(b) ==
    {i \in DOMAIN b : b[i] /\ Cardinality({j \in DOMAIN b : j <= i /\ b[j]}) <= Room}

\* _run_service_round hands the runnable calls to its pool of workers; all others
\* get an error result.
RunRound ==
    /\ proxy = "round"
    /\ ~Spent
    /\ rounds' = rounds + 1
    /\ LET runnable == Runnable(job.calls)
       IN  /\ calls' = calls + Cardinality(runnable)
           /\ IF runnable = {} THEN proxy' = "resume" /\ job' = [job EXCEPT !.calls = <<>>]
                               ELSE proxy' = "admitted" /\ UNCHANGED job
    /\ UNCHANGED <<now, late, minerVars, until, patience, started, why>>

\* Workers take the calls, and send each with what is left of the deadline by then
\* as its timeout.  They may still be busy with the calls of a turn that failed.
SendCalls ==
    /\ proxy = "admitted"
    /\ proxy' = "upstream"
    /\ patience' = Max({Deadline - (now - started), MinCall})
    /\ until' = now + patience'
    /\ UNCHANGED <<now, late, minerVars, job, started, rounds, calls, why>>

\* An answer, an error or a timeout of every call: a result for each of them.  The
\* timeout comes at `until`, wherever the deadline is.
CallsReturn ==
    /\ proxy = "upstream"
    /\ proxy' = "resume"
    /\ UNCHANGED <<now, late, minerVars, job, until, patience, started, rounds, calls, why>>

\* A response that breaks off: IncompleteRead is neither OSError nor ValueError.
CallBreaksOff ==
    /\ proxy = "upstream"
    /\ Fail("torn response")
    /\ UNCHANGED <<now, late, minerVars, job, until, patience, started, rounds, calls>>

\* /transform/resume: deliver() wakes the miner, or refuses.
Resume ==
    /\ proxy = "resume"
    /\ IF pending = job.round
       THEN /\ pending' = 0
            /\ miner' = "computing"
            /\ proxy' = "posted"
            /\ until' = now + HttpTimeout /\ patience' = HttpTimeout
            /\ UNCHANGED why
       ELSE /\ Fail("rejected")
            /\ UNCHANGED <<pending, miner, until, patience>>
    /\ UNCHANGED <<now, late, waitUntil, asked, events, gaveUp, job, started, rounds, calls>>

-----------------------------------------------------------------------------
\* What happens before the clock goes on.
Urgent ==
    \/ proxy \in {"round", "resume"}
    \/ proxy \in {"posted", "upstream"} /\ now = until
    \/ miner = "parked" /\ now = waitUntil

\* What no limit of the code is about: the miner has put an event and the answer
\* that tells of it is not in yet, calls wait for a worker, or their answers are
\* not in when the deadline is over.
Late ==
    \/ proxy = "posted" /\ events # <<>>
    \/ proxy = "admitted"
    \/ proxy = "upstream" /\ now >= started + Deadline

Tick ==
    /\ ~Urgent
    /\ now < Horizon
    /\ now' = now + 1
    /\ IF Late THEN late < MaxLate /\ late' = late + 1 ELSE UNCHANGED late
    /\ UNCHANGED <<minerVars, proxyVars>>

Proxy == Answered \/ Trickle \/ HttpTimesOut \/ StopAsking \/ RunRound \/ SendCalls
         \/ CallsReturn \/ CallBreaksOff \/ Resume
Miner == (\E b \in Batches : Ask(b)) \/ WaitExpires \/ MinerEnds

\* A turn that is over is not looked at any more.
Next ==
    \/ ~Over /\ (Proxy \/ Miner \/ Tick)
    \/ Over /\ UNCHANGED vars

Spec == Init /\ [][Next]_vars

-----------------------------------------------------------------------------
\* Every variable has its type.
TypeOK ==
    /\ {now, late, waitUntil, until, patience} \subseteq Nat /\ started \in Nat \cup {None}
    /\ miner \in {"computing", "parked", "ended"}
    /\ proxy \in {"posted", "round", "admitted", "upstream", "resume", "done", "failed"}
    /\ gaveUp \in {"none", "posted", "round", "admitted", "upstream", "resume"}
    /\ {asked, pending, rounds, calls} \subseteq Nat
    /\ events \in Seq([round : Nat, calls : Batches \cup {<<>>}])
    /\ job \in [round : Nat, calls : Batches \cup {<<>>}]
    /\ why \in {"none", "no answer", "budget", "torn response", "rejected"}

\* However the miner splits its questions over rounds, a turn costs no more calls
\* than were offered, and a call that is out after the deadline was let out before
\* it: all the time it is over is time workers or the network have kept it.
SpendsNoMore ==
    /\ calls <= MaxCalls
    /\ proxy \in {"admitted", "upstream"} => started <= now /\ now <= started + Deadline + late

\* A miner that asks on and on cannot hold the agent: but for what answers and
\* workers are late, the turn is over within the deadline, the grace and one HTTP
\* timeout before and after.
TurnBounded == ~Over => now <= 2 * HttpTimeout + Deadline + Grace + late

\* What the margin of the miner's wait is for.  If the budget starts within it, and
\* what was late since still fits in, then the results of calls that were run come
\* in time: the wait does not expire while they are out, and they are not refused.
\* (Rounds nothing was run of may be: a miner that asks when its wait is all but
\* over waits the least time only.)
MarginSuffices ==
    started # None /\ started + late < Margin =>
        gaveUp \notin {"admitted", "upstream"} /\ (why = "rejected" => job.calls = <<>>)

=============================================================================
