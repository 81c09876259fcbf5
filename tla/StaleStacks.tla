----------------------------- MODULE StaleStacks -----------------------------
(***************************************************************************)
(* The Docker resources of a run, and the sweep that collects those of     *)
(* runs that were killed: the life of run_harness_instance as far as it    *)
(* makes and removes containers, networks and volumes, and                 *)
(* _maybe_cleanup_stale_copilot_docker_resources at the start of it.       *)
(*                                                                         *)
(* A run knows of another one only what Docker tells: which resources bear *)
(* its project's name, and when they were made.  It asks kind by kind,     *)
(* judges, and tears down, while the others go on.                         *)
(***************************************************************************)
EXTENDS Integers, FiniteSets

CONSTANTS
    Runs,           \* executions of run_harness_instance, in any processes
    Projects,       \* compose project names
    ProjectOf,      \* the project of each run: runs may share one, at a time or in turn
    MaxAge,         \* copilot_stale_sidecar_max_age_seconds
    Horizon         \* bound of the model: the clock stops here

ASSUME ProjectOfAssumption == ProjectOf \in [Runs -> Projects]
\* A limit of zero or less is replaced by the default.
ASSUME TimeAssumption == MaxAge \in Nat \ {0} /\ Horizon \in Nat

VARIABLES
    dockerFails, \* the docker commands of a sweep or a teardown that may fail
    now,        \* the clock
    made,       \* when the resources of each kind of a project were made, or None
    stage,      \* where a run is
    begun,      \* when it began
    seen,       \* ages: the times a sweep has seen for each project, or None
    stale,      \* what it has still to tear down
    down        \* the project whose `compose down` has just returned, or None

vars == <<dockerFails, now, made, stage, begun, seen, stale, down>>

None == -1
Kinds == {"container", "network", "volume"}
Commands == {"list", "inspect", "remove"}
Stages == Kinds \cup {"idle", "judge", "teardown", "orphans", "seed", "prepare", "up", "work",
                      "finally", "ended"}
\* Mutant: what is left of a project is found by its containers alone.
NextKindContainers == [container |-> "judge", network |-> "volume", volume |-> "judge"]

NextKind == [container |-> "network", network |-> "volume", volume |-> "judge"]

Exists(p, kind) == made[p][kind] # None
Own(r) == ProjectOf[r]

Go(r, from, to) ==
    /\ stage[r] = from
    /\ stage' = [stage EXCEPT ![r] = to]

\* docker creates what is not there, and leaves alone what is.
Make(p, kind) == made' = [made EXCEPT ![p][kind] = IF Exists(p, kind) THEN @ ELSE now]
Remove(p, kinds) == made' = [made EXCEPT ![p] = [k \in Kinds |-> IF k \in kinds THEN None ELSE @[k]]]

\* What `compose down` and the removals by name take away of a project: what
\* its containers use stays as long as they do.
Removable ==
    IF "remove" \in dockerFails THEN {{}} \cup {{"container"} \cup kinds : kinds \in SUBSET Kinds} ELSE {Kinds}

\* What a run of before has left of a project: all, or no container.
LeftOver == {[k \in Kinds |-> IF k \in kinds THEN 0 ELSE None] :
                kinds \in {Kinds} \cup SUBSET (Kinds \ {"container"})}

Init ==
    /\ dockerFails \in SUBSET Commands
    /\ now = 0
    /\ made \in [Projects -> LeftOver]
    /\ stage = [r \in Runs |-> "idle"]
    /\ begun = [r \in Runs |-> 0]
    /\ seen = [r \in Runs |-> [p \in Projects |-> {}]]
    /\ stale = [r \in Runs |-> {}]
    /\ down = [r \in Runs |-> None]

-----------------------------------------------------------------------------
(* The sweep.                                                                *)

\* A process that has swept within the interval goes on without.
BeginRun(r) ==
    /\ \E to \in {"container", "seed"} : Go(r, "idle", to)
    /\ begun' = [begun EXCEPT ![r] = now]
    /\ UNCHANGED <<dockerFails, now, made, seen, stale, down>>

\* Mutant: the age with its operands swapped, in place of the time.
ListKindAges(r, kind) ==
    /\ Go(r, kind, NextKind[kind])
    /\ seen' = [seen EXCEPT ![r] = [p \in Projects |->
                    IF p = Own(r) \/ ~Exists(p, kind) THEN @[p] ELSE @[p] \cup {made[p][kind] - now}]]
    /\ UNCHANGED <<dockerFails, now, made, begun, stale, down>>

\* docker ps, network ls, volume ls, and an inspect of what they name: the times
\* of everybody else's resources.  A listing that fails shows none, a resource
\* that cannot be inspected has no time.
ListKind(r, kind) ==
    /\ Go(r, kind, NextKind[kind])
    /\ \/ \E unknown \in SUBSET (IF "inspect" \in dockerFails THEN Projects ELSE {}) :
            seen' = [seen EXCEPT ![r] = [p \in Projects |->
                        IF p = Own(r) \/ ~Exists(p, kind) THEN @[p]
                        ELSE @[p] \cup {IF p \in unknown THEN None ELSE made[p][kind]}]]
       \/ "list" \in dockerFails /\ UNCHANGED seen
    /\ UNCHANGED <<dockerFails, now, made, begun, stale, down>>

\* Mutant: a resource of unknown age counts as old.
OldUnlessYoung(c) == c = None \/ now - c >= MaxAge

\* A project is stale once every resource seen of it is known to be old enough.
Old(c) == c # None /\ now - c >= MaxAge

Judge(r) ==
    /\ Go(r, "judge", "teardown")
    /\ stale' = [stale EXCEPT ![r] = {p \in Projects :
                    seen[r][p] # {} /\ \A c \in seen[r][p] : Old(c)}]
    /\ UNCHANGED <<dockerFails, now, made, begun, seen, down>>

ComposeDown(r, p) ==
    /\ Go(r, "teardown", "orphans")
    /\ p \in stale[r]
    /\ \E kinds \in Removable : Remove(p, kinds)
    /\ down' = [down EXCEPT ![r] = p]
    /\ UNCHANGED <<dockerFails, now, begun, seen, stale>>

\* Networks and volumes by name, which docker refuses while a container uses them.
RemoveOrphans(r) ==
    /\ Go(r, "orphans", "teardown")
    /\ IF Exists(down[r], "container") THEN UNCHANGED made
       ELSE \E kinds \in Removable : Remove(down[r], kinds)
    /\ stale' = [stale EXCEPT ![r] = @ \ {down[r]}]
    /\ down' = [down EXCEPT ![r] = None]
    /\ UNCHANGED <<dockerFails, now, begun, seen>>

SweepDone(r) ==
    /\ stale[r] = {}
    /\ Go(r, "teardown", "seed")
    /\ seen' = [seen EXCEPT ![r] = [p \in Projects |-> {}]]
    /\ UNCHANGED <<dockerFails, now, made, begun, stale, down>>

-----------------------------------------------------------------------------
(* The run's own resources.                                                  *)

\* A fresh workspace volume, unless an old container still holds the old one.
SeedVolume(r) ==
    /\ Go(r, "seed", "prepare")
    /\ IF Exists(Own(r), "container") THEN Make(Own(r), "volume")
                                      ELSE made' = [made EXCEPT ![Own(r)]["volume"] = now]
    /\ UNCHANGED <<dockerFails, now, begun, seen, stale, down>>

\* Whatever raises between the volume and the try statement leaves the volume.
PrepareFails(r) ==
    /\ Go(r, "prepare", "ended")
    /\ UNCHANGED <<dockerFails, now, made, begun, seen, stale, down>>

\* compose up: networks, then the containers on them; it may fail at either.
UpNetworks(r) ==
    /\ Go(r, "prepare", "up")
    /\ Make(Own(r), "network")
    /\ UNCHANGED <<dockerFails, now, begun, seen, stale, down>>

UpContainers(r) ==
    /\ Exists(Own(r), "network")
    /\ Go(r, "up", "work")
    /\ Make(Own(r), "container")
    /\ UNCHANGED <<dockerFails, now, begun, seen, stale, down>>

WorkEnds(r) ==
    /\ \E from \in {"up", "work"} : Go(r, from, "finally")
    /\ UNCHANGED <<dockerFails, now, made, begun, seen, stale, down>>

\* finally: compose down, then networks and workspace volume by name, none of
\* whose return codes is looked at; nothing at all if the stack is to be kept.
TearDownOwn(r) ==
    /\ Go(r, "finally", "ended")
    /\ \E kinds \in Removable \cup {{}} : Remove(Own(r), kinds)
    /\ UNCHANGED <<dockerFails, now, begun, seen, stale, down>>

\* SIGKILL: the end of a run at any point, with what it knew.
Kill(r) ==
    /\ \E from \in Stages \ {"idle", "ended"} : Go(r, from, "ended")
    /\ seen' = [seen EXCEPT ![r] = [p \in Projects |-> {}]]
    /\ stale' = [stale EXCEPT ![r] = {}]
    /\ down' = [down EXCEPT ![r] = None]
    /\ UNCHANGED <<dockerFails, now, made, begun>>

Tick ==
    /\ now < Horizon
    /\ now' = now + 1
    /\ UNCHANGED <<dockerFails, made, stage, begun, seen, stale, down>>

Sweep(r) ==
    \/ \E kind \in Kinds : ListKind(r, kind)
    \/ Judge(r) \/ RemoveOrphans(r) \/ SweepDone(r)
    \/ \E p \in Projects : ComposeDown(r, p)

Life(r) ==
    \/ BeginRun(r) \/ SeedVolume(r) \/ PrepareFails(r) \/ UpNetworks(r) \/ UpContainers(r)
    \/ WorkEnds(r) \/ TearDownOwn(r) \/ Kill(r)

Finished == now = Horizon /\ \A r \in Runs : stage[r] = "ended"

Next ==
    \/ \E r \in Runs : Sweep(r) \/ Life(r)
    \/ Tick
    \/ Finished /\ UNCHANGED vars

Spec == Init /\ [][Next]_vars

-----------------------------------------------------------------------------
Times == Nat \cup {None}

\* Every variable has its type.
TypeOK ==
    /\ dockerFails \subseteq Commands /\ now \in Nat
    /\ made \in [Projects -> [Kinds -> Times]]
    /\ stage \in [Runs -> Stages]
    /\ begun \in [Runs -> Nat]
    /\ \A r \in Runs, p \in Projects : seen[r][p] \subseteq Times
    /\ \A r \in Runs : stale[r] \subseteq Projects /\ down[r] \in Projects \cup {None}

\* The run r tears down something of the project p.
TearsDown(r, p) == ComposeDown(r, p) \/ (RemoveOrphans(r) /\ down[r] = p)

\* "A project is only stale once every resource belonging to it is old enough", so
\* far as that can be kept: where no listing fails, a sweep takes away nothing that is
\* young but what was made since the sweep began, and nothing of its own run's project.
SparesYoung ==
    [][\A r \in Runs, p \in Projects : TearsDown(r, p) /\ "list" \notin dockerFails =>
          /\ p # Own(r)
          /\ \A k \in Kinds : Exists(p, k) => now - made[p][k] >= MaxAge \/ made[p][k] >= begun[r]]_vars

\* Where docker does not fail, a sweep leaves nothing behind that was old
\* enough when it began, whichever kinds of resources are left of a project.
SweepCollects ==
    [][\A r \in Runs : dockerFails = {} /\ SweepDone(r) =>
          \A p \in Projects \ {Own(r)} :
              (\E k \in Kinds : Exists(p, k)) =>
                  \E k \in Kinds : Exists(p, k) /\ begun[r] - made[p][k] < MaxAge]_vars

=============================================================================
