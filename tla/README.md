# SOMA benchmark: models, checks and proofs

This directory holds TLA+ models of the SOMA benchmark (`src/src`): a harness that
runs coding agents on benchmark instances in Docker stacks, with a *miner's*
context compressor between the agent and its language model.  The modules are
translated from the Python source; paths below are relative to `src/src`, and
`PROJECT.json` maps every definition to its lines.

## 1. The system

```
 agent container ──HTTP──> proxy ──/transform──> compression service ── miner code
   │ swe-exec               │  <──pending─────────     (sessions, threads)
   v                        │  ──/transform/resume──>
 exec broker ─> nested      ├──> Jev (paid service, on the miner's behalf)
   docker daemon (dind)     └──> upstream model
        ^
 run_harness_instance (one per benchmark instance): compose up, iptables rules,
 seeding, agent, patch capture and evaluation, compose down;  sweeps of what
 killed runs left behind;  all runs of a host share its docker and its iptables
```

| Component | Source | State it keeps | What it does |
|---|---|---|---|
| Compressor sessions | `compression_service/app/services.py`, `main.py` | session store, per session two queues and the pending ids, the execution lock, the miner's threads | parks a miner's service call as a `pending` answer and wakes it on `/transform/resume` |
| Transform loop and budget | `compression_service/app/proxy.py` 529-711 | `_ServiceBudget`: start, rounds, calls | executes rounds of calls within an offer, gives up late turns |
| Prompt guard | `proxy.py` 440-494, `main.py` 151-250 | the protected messages of a request | keeps system prompts and the task from the compressor; takes its result, or not |
| Relay and usage | `proxy.py` 80-435, 1330-1567 | token totals, per stream a buffer and a tally | relays and translates answers, books what they cost |
| Translation | `proxy.py` 850-1330 | none of its own; the agent keeps the conversation | Anthropic requests to OpenAI's, answers back |
| Compressor | `base_miner.py` | none | default compressor |
| Harness run | `soma_bench/benchmark/backends/harness_base.py` | stack, workspace volume, run directory, rules | one instance from compose up to the result |
| Isolation rules | `harness_base.py` 1538-1733 | the host's iptables chain, the run's list of rules | fences the compression service off from proxy, daemon and broker |
| Stale sweep | `harness_base.py` 325-501 | what docker lists | tears down stacks of killed runs, by age |
| Batch, rows | `harness_base.py` 2880-3020, `execution.py`, `run_infer.py` | thread pool, shared stack, `output.jsonl` | runs the instances of a plan and writes what became of them |
| Agents | `backends/copilot`, `backends/claude_code` | none / a streamed process | command lines, environments, output parsing |
| Exec broker | `swe_exec_broker.py`, `swe-exec` | one exec per connection, capped buffers | runs the agent's commands in the nested sandbox |
| OpenClaw | `backends/openclaw.py` | gateways, networks, locks, caches | the older backend: shared gateway, recovery, sweeps |
| CLI, evaluation | `solve.py`, `eval_infer.py`, `__main__.py` | result rows | options, summaries |
| Settings and dataset cache | `runner_settings.py` | disk cache | options, dataset rows |
| Task evaluation | `soma_task_eval.py`, `swerebench_eval.py`, `soma_tasks.py` | container of a task | applies and grades a patch |
| Images | `swebench_dind_prebake.py`, `swebench_images.py`, `registry_auth.py` | registry, docker config | prebakes and pulls images |

**What is hard.**  The session protocol has three clocks and at least three
threads that meet without a common lock.  The proxy blocks in `urlopen`, so a
slow compressor stops every turn behind it, and a parked miner keeps the
execution lock.  A conversation passes through two translations and the agent's
own record of it, and comes back at every turn.  Streams are cut anywhere by the
reads and may end anywhere.  Runs on one host share docker and iptables and see
of each other only names, ages and line numbers, each read some commands before
it is acted on; a run can be killed between any two commands.  The `hazards` of
`PROJECT.json` give each of these with its line; those no property covers say so.

**What makes each component correct.**  Sessions: a service call behaves as a
blocking call (`BlockingCalls`), results meet their round, every party gets away
in the end.  Budget: no more is spent than offered, turns are bounded, clocks
agree.  Guard: what was protected arrives, and nothing else in its role.
Translation: the model sees again what it said, results follow their calls, the
prompt only grows at its end.  Usage: completed answers are booked, each once.
Isolation: the fence stands while miner's code and agent run, and edits touch
nothing else.  Sweep: what is orphaned goes, what is in use stays.  Batch: rows
are the plan's, nothing works on behind them.  Broker: output arrives whole, and
no exit code but the command's own is taken for one.

## 2. Modules

| Module | Models |
|---|---|
| `CompressorSessions` | the protocol: proxy loop, handlers, miner threads, sessions, locks |
| `BlockingCalls` | its abstract specification, implemented by `CompressorSessions` |
| `ServiceBudget` | the same exchange in time, with one thread and one turn: limits and the three clocks |
| `PromptGuard` | strip, compress, take the result, restore, over all short message lists |
| `Translation` | a whole conversation between an Anthropic agent and an OpenAI provider |
| `UsageLedger` | a request from its arrival to the last byte of the answer, and what is booked |
| `IsolationRules` | the chain and the runs that edit it |
| `StaleStacks` | docker resources of runs, and the age based sweep |
| `InstanceBatch` | pool, shared stack, token totals and rows of a batch |
| `ExecBroker` | one command of the agent, from its exec to the answer |
| `...Proofs` | the TLAPS proofs about all of them; `BlockingCalls` has its in `CompressorSessionsProofs`, `PromptGuard` and `Translation` in `RequestPathProofs` |
| `MC...` | the instances TLC checks |

**CompressorSessions.**  One action per step between two points where another
thread can act.  `Session.deliver` is three actions (`AcceptResults` or
`RejectResults`, `ClearPending`, `PutResults`), because the miner's thread can
expire between its lines.  `_round_trip` is `BeginRound` (ids assigned),
`Announce` (the event is put), then `TakeResults`, or `WaitExpires` and
`Withdraw`.  `handler[t]` is where the HTTP handler of the turn is; `turn[t]`
where the proxy's loop is; a proxy that has given up does not tell the handler.
`StartTurn` also evicts any set of other sessions: session ages are not
modelled, so every age is possible.  Only one turn is `Active` at a time, as
`proxy_passthrough` blocks the event loop.  A round's set of call ids is its
number: `_next_id` is never reset, so the sets are disjoint.

**ServiceBudget.**  Integer time.  Steps of proxy and service take no time;
`Tick` waits for whatever is `Urgent`.  The miner's wait counts from the
session's start (0), the budget's deadline from the first answer (`started`),
a request's timeout (`patience`) from the last thing that came of its answer, as
the timeout given to `urlopen` is that of one socket operation: `Trickle` starts it
again, and nothing ends a call at the deadline.  A round that is admitted
(`RunRound`) waits for workers (`SendCalls`) before its calls are out, each with
what is left of the deadline by then but at least `MinCall`.  `late` counts the time
for which the code has no limit (`Late`): while an answer of the service is on its
way, calls wait for workers, or are out past the deadline.  `Batches` are rounds of
well-formed and malformed calls, since only well-formed ones count.

**PromptGuard.**  A message has a role and content nobody looks at.  Each pass of the
three loops is a step: `HoldBack` and then `Strip`, `Sift` and then `Sifted`, `PutBack`
and then `Restore`.  The compressor is replaced by a choice: any list, a dict with or
without messages and a system field, no result, an exception.  Its result is taken only
with mutation on (`_invoke_compressor`); the default compressor's result is one of
these.  It is given the payload's own list and may edit it (`Compress`), so that the
payload `Taken` falls back on is the edited one.  `Seat` is where a protected message is
to be found: at its own place or, in a list that came back shorter, as far behind as
those protected after it leave room.

**Translation.**  Strings are sequences of pieces, so that a stream can cut them. The
agent's history is part of the state: the provider's answer is translated into blocks,
kept by the agent in one of three ways, and translated back at the next request.
Streamed text, reasoning and calls interleave freely and may end at any point.  Each
loop of the code is a function of the number of its passes (`Grouped`, `Lines`,
`OfType`, `Translated`).  JSON is modelled by whose value it is: arguments as the
provider sends them come in two pieces, `Parsed` makes the input of them, which is {}
(nothing) where they are cut short or no object, and `Dumped` writes an input in the
proxy's own JSON, into the events of an answer (`Delta`) as into the next request.
`Read` joins the lists of text and reasoning a whole answer may bring.  `PrefixStable`
says that a request extends the one before it by nothing of the system's, which is what
keeps the prefix of the rendered prompt: a provider's template hoists system messages.
The module names its behaviour `TalkInit`, `TalkNext`, `TalkSpec`, so that one module of
proofs can extend it and `PromptGuard`.

**UsageLedger.**  `loop` is the handler that blocks the event loop; streams go on
only between handlers, reads go on all the time in worker threads.  An event is
two pieces, a keep-alive one; `read(n)` returns `ReadSize` pieces or what is left
at the end, as `http.client` fills the buffer it is asked for.  Whether a request
is translated, and which protocol's usage its answer has, follows from its path
and its marks.

**IsolationRules.**  One list of rules for the chain, with a rule of the administrator
in it.  Listing and deletion are separate commands (`ListRules`, `DeleteLine`), and the
deletion goes by a line number of the chain as it was listed (`listing`,
`LineToDelete`), whatever other runs have done to it since.  How many runs may be on the
host at once, those of a batch's threads or of several processes, is chosen at the start
(`concurrency`).  `inserted` is the local `rules` of the call and `known` what the
caller has received; an exception loses the former.  Whether the host can filter bridged
traffic, and whether the daemon's rule is mandatory, is chosen once, and iptables then
works for every command or for none; addresses may be missing at any call.  The
collection of logs in the finally block may raise, and then leaves the rules to the next
run's purge (the stage `broken`).

**StaleStacks.**  Per project, the time of creation of its containers, networks and
volumes.  Projects may be left over from earlier runs (`LeftOver`), and a run goes on
with what it finds of its own: a project's name is a hash of output directory and run
id, or set by option (`harness_base.py:1166-1183`), so that a repeated run has the same,
and with a shared proxy all of a batch (2966-2980).  `ProjectOf` therefore may give
several runs one project.  A sweep lists kind by kind, judges and tears down project by
project while others go on.  `dockerFails` says which of listings, inspections and
removals may fail; a listing that fails is skipped, a resource that cannot be inspected
has no age and spares its project.  Whether a process has swept recently (the throttle)
is a free choice, and a stack may be kept by option.

**InstanceBatch.**  The pool takes instances in order; the loop over finished
futures (`Take`) ends at the first exception, and leaving the pool waits for its
threads (`LeavePool`), queued instances included unless the batch is serial.  A
proxy's totals live as long as its stack.

**ExecBroker.**  A byte of the output is known by its stream and its place in it, a
byte of a header stands for all of its frame's header.  `Read` takes what has come off
the wire; `Decode` then takes one frame at a time, as the inner loop does, until less
than a frame is left, and `ReadOn` looks at the deadline.  `printed` is what the
command has written: it is not state of the code, and says what the answer should
be.  The capped buffers, the cutting of frames, what becomes of a frame that is cut
off at the end, and the two sources of an end (deadline between reads, silence of
the socket) are the code's.  `Publish` is the daemon's setting of the exit code,
before or after it closes the stream.

## 3. What the runs check

With two workers every run takes two minutes or less.

| Run | Instance | Shows |
|---|---|---|
| `Sessions` | 2 turns, 2 threads, 3 rounds | results are refused, or come back as `invalid_result`, only after some wait has expired; no resume meets an unknown session; the exchange is a sequence of blocking calls |
| `TurnsEnd` | 2 turns, one without an offer, 2 threads, 2 rounds | every turn ends, every service call returns, every handler returns, each under the fairness it names |
| `Budget` | a miner that calls at any time, the code's limits scaled, answers and workers late by 2 units in all | no more calls are let out than offered, and none after the deadline; but for what is late the turn is over in bounded time; as long as the budget's start and what is late fit in the margin, results of calls that were run come before the miner's wait is over |
| `Prompts` | all requests of up to 5 messages, all results and edited lists of up to 4 | unchanged requests stay unchanged; with mutation off a result leaves no trace, unless the list was edited in place; protected messages survive in order, each at its seat, and so does the agent's system field; the opening stays the opening |
| `Conversation` | 2 answers of up to 2 calls, 2 tools, 3 kinds of agent | what the model said comes back as the proxy has read it, reasoning included, and each call with the same input; results stand behind their calls; a broken stream leaves no call unanswered; each request extends the one before it |
| `Usage` | 2 requests of 4 kinds, every setting | what completed answers cost is booked, each once, however reads cut the streams; nothing else is |
| `Fence` | 3 runs, in sequence or 2 at a time, 2 kills, daemon with and without TLS | of any runs: a rule is lost only to another run's purge, somebody else's only to an outdated line number, and a clean exit leaves none; of runs in sequence: the mandatory rule where TLS is off, and no leftovers while the agent works |
| `Sweep` | 2 runs on fresh or left over projects, docker that works or fails, age limit 2 | while listings work, nothing young is taken but what was made since the sweep began, and nothing of the sweep's own project; where docker works nothing that was old enough is left, of whatever kind |
| `Batch` | 4 instances, up to 2 at a time or on a shared stack | rows follow the plan whoever fails; nothing works on when the batch is over; charges add up; every batch ends |
| `Exec` | up to 5 bytes in frames of up to 2, 2 streams, caps of 1 + 1 bytes | output is whole, or its head and tail with the right number dropped; no false success; an answer comes |

Two runs end in a violation.  Each checks one property that a comment or docstring
states and the code does not keep; `findings` quotes them:

| Run | Property | What happens |
|---|---|---|
| `TwoRuns` | `PurgesOnlyLeftovers` | the purge takes the rules of a run at work; so do runs of one batch when they overlap, as they may (`harness_base.py:2999`).  `PurgeTakesLeftovers` proves that it keeps its word for runs that do not |
| `HeldBack` | `NeverSilent` | events and the provider's keep-alives wait in `read` until its buffer is full, and the client, which the code says gives up after 300 s, hears nothing |

Other places where code and text differ, or where the promise is narrower than it
looks, met while modelling; no run is spent on them, as the property next to each
says how far the promise does hold:

* A wait of the miner that expires between the check and the put of `deliver`
  leaves results of a round that is over for the next one
  (`services.py:146-157`; `InvalidOnlyAfterExpiry`, `RejectedOnlyAfterExpiry`).
* A miner that thinks longer than the margin before its first call is timed out
  while the proxy still works for it, since its clock starts with the session and
  the budget's with the first answer (`MarginSuffices`).
* The proxy does not enforce the deadline (`services.py:20`), which "is the real
  limit" (`proxy.py:61`), on calls that are out: their timeout bounds one socket
  operation (`proxy.py:540-541`), is at least 0.2 s (617), and does not count the time
  they wait for a worker.  An answer that trickles holds the turn, and outlasts the
  miner's wait (`SpendsNoMore`, `TurnBounded`, `MarginSuffices`, all of which say "but
  for what is late").
* With mutation off, a compressor that edits the list it is given changes what goes
  upstream all the same (`main.py:162-172,197`; `UnchangedIsUnchanged`).
* A dict without messages that a compressor returns replaces the payload, its system
  field included, and that goes upstream where the agent sent none (`main.py:191-196`,
  `proxy.py:492`; `ProtectedSurvive`).
* Arguments of a call that are valid JSON but no object become {} (`proxy.py:1163`;
  `SaidComesBack`).
* Overlapping purges delete by line numbers that have moved, and may hit any rule
  (`ForeignRulesKept`).
* A failing mandatory rule loses the list of those before it, which stay in the
  chain till the next purge (`CleanExit`, `NoStaleRules`).
* Age alone decides in the sweep, so a run older than the limit is torn down by
  one that starts.  That "a freshly started concurrent run must never be torn down
  mid-flight" (`harness_base.py:399-401`) does not hold of a run that goes on with an
  old project, or shares one, that was judged before it began; nor where a listing
  fails, as what it would have shown is not looked at (389) (`SparesYoung`).
* With a kept shared proxy `token_usage` of an instance is cumulative
  (`ChargesAddUp`), while `README.md` describes it as what the proxy counted for
  the instance; the same README gives `SOMA_COPILOT_SHARED_PROXY` the default
  true, and `harness_base.py:111` false.
* The deadline of an exec does not stop a command that trickles less than a
  buffer at a time within the socket's timeout (`AnswerComes` is for commands
  that stop printing).

`ProtectedSurvive` is about requests in which something was protected: of a request
without any system or user message nothing is written back when the compressor
leaves nothing but system messages (`proxy.py:490`).

**Bounds.**  `MaxAsks`, the rounds a miner asks for: mixing up rounds takes two (expire,
ask, take), a third shows that nothing is left over.  `MaxRounds = 1` lets the proxy's
rounds run out, as it stops at twice that.  A second turn is needed for eviction and for
the execution lock; it asks nothing itself, since sessions share only store and lock.
The first two threads already compete for the session's lock.  Three runs of the harness
let one be killed, one purge and one follow, or two overlap and the third meet what is
left; two at a time are enough for a listing to go out of date.  One unit of time in
`ServiceBudget` is 2.5 s: deadline 8, margin 2, grace 2, HTTP timeout 12 are the code's
20, 5, 5 and 30 s (the 0.1 s a parked call waits and the 0.2 s a call is given at least
are rounded up to 1).  `MaxRounds`, `MaxCalls` and `MaxCallsPerRound` of 2, 3 and 2 can
each be the first to run out, with rounds of one malformed and three good calls.
`MaxLate` = 2 lets an answer outlast the deadline by the whole margin.  `Horizon` stops
the clocks: in `ServiceBudget` it lies beyond the bound that `TurnBounded` states, all
there is of `late` included, so it is never what ends a turn; in `StaleStacks` it is the
age limit: what is left over was made at time 0 and grows old as the clock goes, what
runs make is fresh or comes to the limit in time.  A conversation of two answers
(`MaxTurns`) has a third request, which carries both; two calls (`MaxCalls`) can be out
of order; only the first brings an id, and only its arguments vary between an object,
another value and, in whole answers, what is cut short.  A read of three pieces
(`ReadSize`) cuts events of two in every way; `MaxPauses` is at least `Patience` where
silence is the question (`HeldBack`) and one where keep-alives only have to be in the
way.  Four instances on two workers leave some queued behind one that raises.  In
`ExecBroker` headers of two bytes, payloads up to `MaxPayload` = 2 and reads of three
put a cut in every place of a frame; five bytes (`MaxOutput`) overflow head and tail of
one stream, or come in both, after which the command stops printing; `clock` stands
still just past the deadline.

**Deadlock** is checked except in `TurnsEnd`, whose properties are about systems some
process of which stands still; the same next-state relation is checked for
deadlock by `Sessions`.  Final states stutter explicitly.

**Fairness.**  In `CompressorSessions`, `FairSpec` assumes only `RuntimeFairness`: the
service's code on the miner's threads runs until it blocks, and
`queue.get(timeout=...)` returns.  What more a property needs is its hypothesis.
`ProxyFairness` (for `EveryTurnEnds`): the proxy's code goes on, and a request it
waits for is answered or times out (`urlopen(timeout=...)`), so one of its steps or
`GiveUp` happens.  `HandlerFairness` and `MinerFairness` (for `HandlersReturn`):
handlers run until they block, and the miner's function returns, which is not the
code's to guarantee.  In `InstanceBatch` threads that are free go on, and a run
comes to its end or raises, which is an assumption: an agent's timeout is an option.
In `ExecBroker` the handler goes on and time passes; the command owes no end, the
network no byte, the daemon no exit code.  All are weak.  The other modules state
no fairness: they have only safety to show.

## 4. What is proved

The proof modules are checked by TLAPS and hold for every value of the constants.
Of each module an inductive invariant is stated, shown to hold initially and to be
kept by every action (a lemma for each), and the properties follow from it.  TLC
finds each of them kept on the instances above (of `TalkInv` all but the types, as TLC
does not compare the strings and tuples that pieces of text are).

| Module | Invariant | Theorems about properties of the runs |
|---|---|---|
| `CompressorSessionsProofs` | `RoundInv` | `TypeOK`, `RejectedOnlyAfterExpiry`, `InvalidOnlyAfterExpiry`, `NeverUnknownSession` |
| | `CallsInv` | `ImplementsBlockingCalls` |
| `ServiceBudgetProofs` | `BudgetInv` | `TypeOK`, `SpendsNoMore`, `TurnBounded`, `MarginSuffices` |
| `RequestPathProofs` | `GuardInv` | `UnchangedIsUnchanged`, `ProtectedSurvive`, `OpeningKept` |
| | `TalkInv` | `SaidComesBack`, `ResultsFollowCalls`, `NoCallLeft`, `PrefixStable` |
| `IsolationRulesProofs` | `FenceInv` | `MandatoryFence`, `NoStaleRules`, `PurgesOnlyLeftovers` (of runs in sequence) |
| | `ExitInv` | `TypeOK`, `CleanExit` |
| | `HoldInv`, `ExitInv` | `FencedWhileRunning`, `ForeignRulesKept` |
| `StaleStacksProofs` | `Base`, `SpareInv` | `SparesYoung` |
| | `Base`, `SeesInv` | `TypeOK`, `SweepCollects` |
| `UsageLedgerProofs` | `LedgerInv` | `TypeOK`, `BookedInFull`, `BookedAtMost` |
| `InstanceBatchProofs` | `BatchInv` | `TypeOK`, `RowsFollowPlan`, `QuietWhenOver` |
| | `ChargeInv` | `ChargesAddUp` |
| `ExecBrokerProofs` | `TypeInv` | `TypeOK` |
| | `ExitInv` | `NeverFalseSuccess` |
| | `StreamInv` | `OutputWhole` |

**RoundInv.**  That results are not refused says nothing of where the results are.
Four facts are added.  `RoundHeld`: a thread is inside a round exactly while it
holds the session's lock, so there is at most one round.  `HandlerServes`: a turn the
proxy works on has no handler.  `SessionKept`: an active turn's session is in the
store.  `RoundSomewhere`, the heart: as long as no wait has expired, the open round is
in exactly one place - about to be announced, queued as an event, out with the
proxy or in `deliver`, or back in the results queue - with `pending` and `held`
agreeing with `asked`.

**CallsInv.**  `RoundInv` says nothing of a session one of whose waits has expired,
and there a round may be left behind in either queue.  The refinement has to hold
there, too.  `Returned`: every round asked for has had an outcome, but for the one that
holds the lock.  `InOrder`: the announcements in the queue are of rounds in ascending
order, all later than the one last handed to the proxy.  `Once`: the proxy executes
rounds in ascending order, none twice, and what is delivered or waits among the results
is of a round that was executed.  With it each step maps to a step of
`BlockingCalls` (a call is asked, executed, or returns) or leaves its variables alone,
and `Spec => ImplementsBlockingCalls` follows.

**BudgetInv.**  `Clocks` bounds the calls and says where the clock stands while the
proxy waits for, or is about to do, what: a request that is out began before the
deadline, its grace and what was late, and what trickles of its answer is late, too.
`TurnBounded` follows.  `MarginSuffices` needs more (`InStep`): until the first moment
a wait may expire at, the deadline and the margin, proxy and miner are in step - the
round the proxy is at is the one the miner is parked in (`Serving`), and when the proxy
waits, the miner computes or has put what it takes next (`Waiting`).

**GuardInv.**  Says what each loop has built so far.  While it strips, what is held are
the protected messages up to here, in order, and the list picks the others (`Picks`:
it has the messages at a set of places, in order).  While it sifts, nothing is
missing of an answer that is as it went out.  While it puts back, of any list the
compressor chose: with `n` messages left by it, the `k`-th held message stands at its
place or at `n + k`, whichever comes first (`AtHome`), as every later one goes in
behind it; and of an answer that is as it went out the list picks the free places
and those put back, so that all places are there at the end.  `Seat` says the same of
the result alone, by counting the protected messages behind.  Requests and results
may have any length.

**TalkInv.**  Is about the request the agent would send now (`Request`, the translation
of its history), not only the last one.  `Kept`: that request follows the rules for
results (`Follow`), and each answer that called tools stands in it with all it should
bring back (`Brings`); the history does not end in the model's own words (`Open`), so
that what comes next is not joined to an earlier turn.  `SentSoFar`: the request extends
the last one (`Extends`).  `Replied`: what the agent gets is the translation of the
answer, so a stop reason other than "tool_use" means that no tool is called.  `SoFar`:
the parts of a stream put together are, for text, reasoning and each call, the first
pieces of the provider's answer, in whatever order they came; a stream that ended is the
answer.  An input survives being written and parsed again, in an event and in a request
(`Parsed` of `Dumped`).  The proof goes from the loops up.  Each loop is shown to exist
and to take one step per pass (`Iterates`), by looking at the least pass at which it
would not, as no induction theorem can be cited.  From it follow what a list of messages
of a role is grouped to, whether the agent keeps a turn in one message or in many
(`Laid`), which blocks of a type an answer has (`OfTypeThree`) and that its events
decode to its blocks (`DecodedEvents`).  `RoundAdds` puts it together: whatever the
agent's style, a round adds one message that brings the answer back, its results right
behind it, and at most the user's words (`Round`); and `RoundKeeps`, that such a round
keeps `Follow` and extends the request.  It holds for any number of turns, calls and
tools.

**FenceInv.**  Says, stage by stage, whose rules the chain holds, in which order, and
that everything in front of the line a purge has read is already clean; hence
deletion by number hits the rule that was listed.  It is claimed where `concurrency`
is 1, runs one after another, which `TwoRuns` shows to be needed; `MandatoryFence`
also supposes that the daemon is among the targets, as in the code.

**HoldInv.**  Is claimed of any number of runs at a time: the rules a run holds, in
`inserted` or `known`, are its own, and it holds none before its purge is over.  So no
other run removes them at its end, its own second call purges nothing, and what takes
one from it is another run's `DeleteLine`.  A deletion by a true number takes a rule of
ours; a rule of somebody else goes only if the chain is no longer what was listed.

**ExitInv** (of `IsolationRulesProofs`).  `Ledger`: where no rule is mandatory, each
rule of a run is in the chain no more often than the run knows of it, in `inserted`
and `known` together.  A purge of another run deletes by stale numbers and may take any
line, but adds none; so this holds for any number of runs at a time, and so do
`CleanExit` and the types.

**SpareInv.**  For `SparesYoung`, of a run that sweeps and the project of another, as long
as no listing fails: of each kind that was listed what is there has been seen, or was
made since the sweep began, or something of unknown age has been seen (`Looked`);
what is there of a project that is condemned is old, or was made since (`Doomed`),
and stays so while others make and remove.  Its own project a run neither records nor
condemns (`OwnApart`), whoever else uses it.  Nothing is supposed of `ProjectOf`.

**SeesInv.**  For `SweepCollects`, of a run that sweeps and the project of another: of
each kind that was listed all is seen but what was made since (`SeenAll`); a time seen
that was recent is that of a project in which something recent is left (`SeenFresh`); and
what was judged is to be torn down or fresh (`Judged`).  It needs neither that projects
are their runs' own nor that others stand still.  It needs `MaxAge > 0`
(`TimeAssumption`): with a limit of zero what is made this moment would count as old,
and the code refuses one (`_coerce_positive_int_option`, `harness_base.py:209-214`).

**LedgerInv.**  For each stream (`StreamInv`): the pieces that were read and not yet
scanned are well cut, a text followed by its own line break; every event that has come
in full is covered by the tally, field by field, or still to be scanned; and the
tally exceeds the bill in no field.  Hence a stream that has come in full is tallied in
full when it is booked, and each request is booked by the one step that ends it
(`Booked`).  It holds for any requests, `ReadSize` and `MaxPauses`.

**BatchInv.**  Results are taken of instances that have returned, each once, and of all
unless the batch has raised; rows come after that.  That proxies count no more than
the agents use, and that a sequence without repetitions is no longer than the set of its
elements, bound the types.

**ChargeInv.**  On a shared stack instances take turns in their order (`InTurn`); a kept
one has counted all that was used so far, and one that is torn down with each instance
what the present one has (`SharedTotals`); a stack of its own what its instance has
(`OwnTotals`).  For that a stack not yet up must not have counted anything (`Untouched`).

**ExitInv** (of `ExecBrokerProofs`).  The daemon publishes codes of what has ended, and
before the handler replies there is no reply.

**StreamInv.**  As long as the stream is not broken, what is under way - `buffer` and
then `wire` - is a sequence of whole frames (`Framed`): `Decode` takes only whole ones
off its front.  For each stream the frames under way carry, in order, exactly what is
printed and not yet kept (`Pending`), and what is kept is the head, the tail and the
number of bytes between them of what was taken (`KeptRight`).  When the stream has ended
a buffer that is no whole frame is therefore empty, and the answer shows all
(`ReplyInv`).  It holds for any sizes of headers, frames, reads, head and tail.

Assumptions of the modules, evaluated by TLC: `MessagesAssumption` (a message has a
role, and requests and results are lists of messages), `NoTurnAssumption` and
`NoThreadAssumption` (the two "nobody" values are not turns or threads),
`FenceAssumption` (finitely many runs, targets are known services),
`ProjectOfAssumption`, `TurnsAssumption` (the agent's tools are finitely many and have
an order), `TimeAssumption` (see `SeesInv`), `BrokerAssumption` (sizes, timeout and
number of polls are above zero, as the code's are; caps may be zero), and that other
limits, caps and times are natural numbers.

**Ways of writing that the proofs asked for.**  Sums are cardinalities: an instance
spends one unit or none, and each answer costs the same (`Sum`, `Cost`).  `Merged` takes
the set of usages of a buffer at once; as it takes a maximum the order does not matter.
`ExecBroker` decodes one frame per step, and `PromptGuard` takes one message per step,
where folds over a buffer or a list would have needed induction.  `Translation` has its
folds written as functions of the pass, its events listed by their place, and reads
them by kind and index.  None of them changes what the code can do.

**Only model-checked.**

* Liveness: `EveryTurnEnds`, `CallsReturn`, `HandlersReturn`, `BatchEnds`,
  `AnswerComes`.  Fairness and `ENABLED` are beyond the prover.

## 5. Not modelled, and why

* The wording of calls, answers, prompts and patches; formats, request log, logging.
* Parsing, argument handling, option resolution, file layout, summaries:
  sequential and without state (`manifest.py`, `task_limits.py`, `config.py`,
  `__main__.py`, the agents' command lines, the service's startup).
* Workspace seeding inside the nested daemon, extraction of logs and evaluation of
  patches: docker commands of one thread, each of which raises or does not.
* OpenClaw's gateway recovery and network pool: nearly every branch depends on
  what docker and a gateway outside this repository answer, so a model would be
  mostly about them.
* The agent runner of Claude Code: a loop over the events of the vendor's SDK.
* The dataset cache, written once and read; image prebaking, whose concurrency is
  docker's; one lock around the writing of the registry's configuration.
* Docker, iptables, the registry and the model provider: only what the code
  does with their answers.
* Several hosts, and clocks that jump.

## 6. Plan

What is left, in order of importance:

1. The composition of `InstanceBatch` with `IsolationRules`: the batch's own threads
   as the runs that overlap on the chain, in place of any.
2. The locks of OpenClaw's compression service start, if the backend stays in use.
