--------------------------- MODULE IsolationRules ---------------------------
(***************************************************************************)
(* The iptables rules that fence a run's compression service (the miner's  *)
(* code) off from the proxy, the nested Docker daemon and the exec broker  *)
(* of its stack: _apply_proxy_compression_isolation and the try/finally of *)
(* run_harness_instance around it.  The chain belongs to the host: every   *)
(* run on it, of this process or of another, edits the same list, one      *)
(* iptables command at a time, and a run can be killed between any two.    *)
(*                                                                         *)
(* One chain stands for DOCKER-USER (FORWARD where that does not exist).   *)
(* The two addresses and the comment of a rule are unique to the run and   *)
(* the peer, so a rule is named by them.  iptables either works on the     *)
(* host, for every command, or not at all; docker inspect may miss an      *)
(* address at any call.                                                    *)
(***************************************************************************)
EXTENDS Integers, Sequences, FiniteSets, SequencesExt, FiniteSetsExt

CONSTANTS
    Runs,           \* executions of run_harness_instance
    MaxConcurrency, \* how many of them may be on the host at the same time
    Targets,        \* peers fenced when the stack is up, in order
    BrokerTargets,  \* peers fenced when the exec broker is up
    MaxKills        \* bound of the model: how many runs are SIGKILLed

ASSUME FenceAssumption ==
    /\ IsFiniteSet(Runs) /\ MaxConcurrency \in Nat \ {0} /\ MaxKills \in Nat
    /\ Targets \in Seq({"proxy", "dind"}) /\ BrokerTargets \in Seq({"swe-exec-broker"})

VARIABLES
    requireDind, \* require_dind_isolation: mutual TLS of the daemon is off
    netfilter,  \* the host can filter bridged traffic (_ensure_bridge_netfilter)
    concurrency, \* how many runs are on the host at once: a batch's, or more
    chain,      \* the rules of the chain, first line first
    stage,      \* where a run is
    listing,    \* the lines the purge has read, as long as it has a use for them
    todo,       \* targets the current call has still to fence
    inserted,   \* `rules` of the current call
    known,      \* isolation_rules of the run, what its finally block removes
    killed      \* runs that were killed

host == <<requireDind, netfilter, concurrency>>
vars == <<host, chain, stage, listing, todo, inserted, known, killed>>

\* Mutant: the comment does not name the project.
RuleOfNobody(r, peer) == [owner |-> "soma-iso-", peer |-> peer]
Rule(r, peer) == [owner |-> r, peer |-> peer]
\* A rule of the host's administrator; not one of ours.
Foreign == [owner |-> "host", peer |-> "any"]
IsSoma(rule) == rule # Foreign

Live(r) == stage[r] \notin {"idle", "ended", "broken"} /\ r \notin killed
At(r, s) == stage[r] = s /\ r \notin killed

Init ==
    /\ requireDind \in BOOLEAN /\ netfilter \in BOOLEAN /\ concurrency \in 1 .. MaxConcurrency
    /\ chain = <<Foreign>>
    /\ stage = [r \in Runs |-> "idle"]
    /\ listing = [r \in Runs |-> <<>>]
    /\ todo = [r \in Runs |-> <<>>]
    /\ inserted = [r \in Runs |-> <<>>]
    /\ known = [r \in Runs |-> <<>>]
    /\ killed = {}

Go(r, from, to) == At(r, from) /\ stage' = [stage EXCEPT ![r] = to]

-----------------------------------------------------------------------------
\* The stack is up (or `up` failed and the finally block runs), and the rules
\* are about to be applied.
StartRun(r) ==
    /\ Cardinality({u \in Runs : Live(u)}) < concurrency
    /\ \E to \in {"purge", "finally"} : Go(r, "idle", to)
    /\ UNCHANGED <<host, chain, listing, todo, inserted, known, killed>>

\* No netfilter: nothing is fenced, which is an error where dind must be.
NoNetfilter(r) ==
    /\ ~netfilter
    /\ Go(r, "purge", IF requireDind THEN "finally" ELSE "sandbox")
    /\ UNCHANGED <<host, chain, listing, todo, inserted, known, killed>>

LinesOf(rules) == {i \in DOMAIN rules : IsSoma(rules[i])}
SomaLines == LinesOf(chain)

\* iptables -L shows a rule with a soma-iso- comment ...
ListRules(r) ==
    /\ netfilter
    /\ SomaLines # {}
    /\ Go(r, "purge", "delete")
    /\ listing' = [listing EXCEPT ![r] = chain]
    /\ UNCHANGED <<host, chain, todo, inserted, known, killed>>

\* Mutant: the number is one too high.
LineOfTheNext(rules) == Min(LinesOf(rules)) + 1
\* line_to_delete: the first such line of what was listed.
LineToDelete(rules) == Min(LinesOf(rules))

\* ... which is taken out by its number, whatever is there by then (an error if
\* nothing is) ...
DeleteLine(r) ==
    /\ Go(r, "delete", "purge")
    /\ LET line == LineToDelete(listing[r])
       IN  chain' = IF line \in DOMAIN chain THEN RemoveAt(chain, line) ELSE chain
    /\ listing' = [listing EXCEPT ![r] = <<>>]
    /\ UNCHANGED <<host, todo, inserted, known, killed>>

\* Mutant: `if` for `while`, so one rule is purged at most.
PurgeDoneEarly(r) ==
    /\ netfilter
    /\ Go(r, "purge", "insert")
    /\ todo' = [todo EXCEPT ![r] = Targets]
    /\ UNCHANGED <<host, chain, listing, inserted, known, killed>>

\* ... and so on until no such line is left.
PurgeDone(r) ==
    /\ netfilter
    /\ SomaLines = {}
    /\ Go(r, "purge", "insert")
    /\ todo' = [todo EXCEPT ![r] = Targets]
    /\ UNCHANGED <<host, chain, listing, inserted, known, killed>>

InsertRule(r, at) ==
    /\ At(r, at)
    /\ todo[r] # <<>>
    /\ chain' = <<Rule(r, Head(todo[r]))>> \o chain
    /\ inserted' = [inserted EXCEPT ![r] = Append(@, Rule(r, Head(todo[r])))]
    /\ todo' = [todo EXCEPT ![r] = Tail(@)]
    /\ UNCHANGED <<host, stage, listing, known, killed>>

Mandatory(peer) == requireDind /\ peer = "dind"

\* Mutant: a failure is a warning for every target.
SkipRuleAny(r, at) ==
    /\ At(r, at)
    /\ todo[r] # <<>>
    /\ todo' = [todo EXCEPT ![r] = Tail(@)]
    /\ UNCHANGED <<host, chain, stage, listing, inserted, known, killed>>

\* No address for the peer, or iptables fails: a warning and the next target ...
SkipRule(r, at) ==
    /\ At(r, at)
    /\ todo[r] # <<>>
    /\ ~Mandatory(Head(todo[r]))
    /\ todo' = [todo EXCEPT ![r] = Tail(@)]
    /\ UNCHANGED <<host, chain, stage, listing, inserted, known, killed>>

\* ... but the daemon's rule, where required, raises, and `rules` is lost.
InsertFails(r) ==
    /\ todo[r] # <<>>
    /\ Mandatory(Head(todo[r]))
    /\ Go(r, "insert", "finally")
    /\ todo' = [todo EXCEPT ![r] = <<>>]
    /\ inserted' = [inserted EXCEPT ![r] = <<>>]
    /\ UNCHANGED <<host, chain, listing, known, killed>>

\* Mutant: the second call's rules replace the first call's.
AppliedReplaces(r, from, to) ==
    /\ todo[r] = <<>>
    /\ Go(r, from, to)
    /\ known' = [known EXCEPT ![r] = inserted[r]]
    /\ inserted' = [inserted EXCEPT ![r] = <<>>]
    /\ UNCHANGED <<host, chain, listing, todo, killed>>

\* The call returns its rules to run_harness_instance.
Applied(r, from, to) ==
    /\ todo[r] = <<>>
    /\ Go(r, from, to)
    /\ known' = [known EXCEPT ![r] = @ \o inserted[r]]
    /\ inserted' = [inserted EXCEPT ![r] = <<>>]
    /\ UNCHANGED <<host, chain, listing, todo, killed>>

\* Mutant: the broker's call leaves purge_stale_rules at its default.
StartBrokerPurges(r) ==
    /\ Go(r, "sandbox", "broker")
    /\ chain' = SelectSeq(chain, LAMBDA rule : ~IsSoma(rule))
    /\ todo' = [todo EXCEPT ![r] = IF netfilter THEN BrokerTargets ELSE <<>>]
    /\ UNCHANGED <<host, listing, inserted, known, killed>>

\* Daemon, workspace and sandbox come up, then the broker, which is fenced
\* without a purge; any step of it may raise.
StartBroker(r) ==
    /\ Go(r, "sandbox", "broker")
    /\ todo' = [todo EXCEPT ![r] = IF netfilter THEN BrokerTargets ELSE <<>>]
    /\ UNCHANGED <<host, chain, listing, inserted, known, killed>>

SetupFails(r) ==
    /\ Go(r, "sandbox", "finally")
    /\ UNCHANGED <<host, chain, listing, todo, inserted, known, killed>>

\* The agent is through, in whatever way, and its patch captured and graded.
AgentEnds(r) ==
    /\ Go(r, "agent", "finally")
    /\ UNCHANGED <<host, chain, listing, todo, inserted, known, killed>>

\* finally: the logs are collected first, and a log that cannot be written ends
\* the run there and then, with its rules in force and its stack up.
CollectLogs(r) ==
    /\ \E to \in {"remove", "broken"} : Go(r, "finally", to)
    /\ UNCHANGED <<host, chain, listing, todo, inserted, known, killed>>

\* Then iptables -D of each known rule, by its specification.
RemoveRule(r) ==
    /\ At(r, "remove")
    /\ known[r] # <<>>
    /\ LET lines == {i \in DOMAIN chain : chain[i] = Head(known[r])}
       IN  chain' = IF lines = {} THEN chain ELSE RemoveAt(chain, Min(lines))
    /\ known' = [known EXCEPT ![r] = Tail(@)]
    /\ UNCHANGED <<host, stage, listing, todo, inserted, killed>>

EndRun(r) ==
    /\ known[r] = <<>>
    /\ Go(r, "remove", "ended")
    /\ UNCHANGED <<host, chain, listing, todo, inserted, known, killed>>

\* SIGKILL: no finally block, and what the run knew is lost.
Kill(r) ==
    /\ Live(r)
    /\ Cardinality(killed) < MaxKills
    /\ killed' = killed \cup {r}
    /\ listing' = [listing EXCEPT ![r] = <<>>]
    /\ todo' = [todo EXCEPT ![r] = <<>>]
    /\ inserted' = [inserted EXCEPT ![r] = <<>>]
    /\ known' = [known EXCEPT ![r] = <<>>]
    /\ UNCHANGED <<host, chain, stage>>

Apply(r) ==
    \/ NoNetfilter(r) \/ ListRules(r) \/ DeleteLine(r) \/ PurgeDone(r)
    \/ \E at \in {"insert", "broker"} : InsertRule(r, at) \/ SkipRule(r, at)
    \/ InsertFails(r) \/ Applied(r, "insert", "sandbox") \/ Applied(r, "broker", "agent")

Finished == \A r \in Runs : stage[r] \in {"ended", "broken"} \/ r \in killed

Next ==
    \/ \E r \in Runs : \/ StartRun(r) \/ Apply(r) \/ StartBroker(r) \/ SetupFails(r) \/ AgentEnds(r)
                       \/ CollectLogs(r) \/ RemoveRule(r) \/ EndRun(r) \/ Kill(r)
    \/ Finished /\ UNCHANGED vars

Spec == Init /\ [][Next]_vars

-----------------------------------------------------------------------------
Rules == [owner : Runs, peer : {"proxy", "dind", "swe-exec-broker"}] \cup {Foreign}

\* Every variable has its type.
TypeOK ==
    /\ requireDind \in BOOLEAN /\ netfilter \in BOOLEAN /\ concurrency \in 1 .. MaxConcurrency
    /\ \A i \in DOMAIN chain : chain[i] \in Rules
    /\ stage \in [Runs -> {"idle", "purge", "delete", "insert", "sandbox", "broker", "agent",
                           "finally", "remove", "ended", "broken"}]
    /\ \A r \in Runs : \A i \in DOMAIN listing[r] : listing[r][i] \in Rules
    /\ \A r \in Runs : \A i \in DOMAIN inserted[r] : inserted[r][i] \in Rules
    /\ \A r \in Runs : \A i \in DOMAIN known[r] : known[r][i] \in Rules
    /\ killed \subseteq Runs

\* Until it begins to remove them, a run loses no rule it holds to be in force,
\* not to its own second call and not to the end of another run: only another
\* run's purge can take one out.
FencedWhileRunning ==
    [][\A r \in Runs : stage'[r] # "remove" =>
          \A rule \in ToSet(known'[r] \o inserted'[r]) \ ToSet(chain') :
              \/ rule \in ToSet(known[r] \o inserted[r]) \ ToSet(chain)
              \/ \E other \in Runs \ {r} : DeleteLine(other)]_vars

\* Of runs that follow one another, and without mutual TLS, no agent ever works
\* unless the daemon is fenced.
MandatoryFence ==
    requireDind /\ concurrency = 1 =>
        \A r \in Runs : At(r, "agent") => Rule(r, "dind") \in ToSet(chain)

\* Of runs that follow one another, no rule of an earlier one is in force when an
\* agent works: it would name addresses that Docker may have given to this run's
\* containers.
NoStaleRules ==
    concurrency = 1 =>
        \A r \in Runs : At(r, "agent") /\ known[r] # <<>> =>
            \A i \in SomaLines : chain[i].owner = r

Left(r) == {i \in SomaLines : chain[i].owner = r}

\* "Returns inserted rules ... for later removal": a run whose finally block is
\* not cut short leaves none of its rules behind, as long as no rule is mandatory:
\* neither of the two calls, nor a failure between them, forgets a rule.
CleanExit == ~requireDind => \A r \in Runs : stage[r] = "ended" => Left(r) = {}

\* A rule that is not ours leaves the chain only with a number taken from a
\* listing that no longer was the chain, which takes a second run.
ForeignRulesKept ==
    [][Foreign \notin ToSet(chain') /\ Foreign \in ToSet(chain) =>
          \E r \in Runs : DeleteLine(r) /\ listing[r] # chain]_vars

\* The purge is for leftovers "from crashed/killed previous runs": a rule leaves
\* the chain only when its run is dead or is taking its rules out itself.
PurgesOnlyLeftovers ==
    [][\A rule \in ToSet(chain) \ ToSet(chain') :
          IsSoma(rule) => ~Live(rule.owner) \/ stage[rule.owner] = "remove"]_vars

=============================================================================
