-------------------------- MODULE StaleStacksProofs --------------------------
(***************************************************************************)
(* Proofs about StaleStacks, for any runs, projects and age limit, whether *)
(* or not runs share projects or use one that another has left behind.     *)
(***************************************************************************)
EXTENDS StaleStacks, TLAPS

-----------------------------------------------------------------------------
(* The inductive invariant.                                                  *)

Types ==
    /\ dockerFails \in SUBSET Commands
    /\ now \in Nat
    /\ made \in [Projects -> [Kinds -> Times]]
    /\ stage \in [Runs -> Stages]
    /\ begun \in [Runs -> Nat]
    /\ seen \in [Runs -> [Projects -> SUBSET Times]]
    /\ stale \in [Runs -> SUBSET Projects]
    /\ down \in [Runs -> Projects \cup {None}]

Begun == \A r \in Runs : begun[r] <= now

OrphansStale == \A s \in Runs : stage[s] = "orphans" => down[s] \in stale[s]

Base == Types /\ Begun /\ OrphansStale

-----------------------------------------------------------------------------
(* Facts.                                                                    *)

LEMMA OwnInProjects == ASSUME NEW r \in Runs PROVE Own(r) \in Projects
  BY ProjectOfAssumption DEF Own

LEMMA NowIsSome == ASSUME Types PROVE now \in Times /\ now # None
  BY DEF Types, Times, None

\* Something of one project may be gone; or a run has made something of its own.
Removed(p) ==
    /\ made' \in [Projects -> [Kinds -> Times]]
    /\ \A q \in Projects : q # p => made'[q] = made[q]
    /\ \A q \in Projects, k \in Kinds : made'[q][k] \in {made[q][k], None}

Created(p) ==
    /\ made' \in [Projects -> [Kinds -> Times]]
    /\ \A q \in Projects : q # p => made'[q] = made[q]
    /\ \A k \in Kinds : made'[p][k] \in {made[p][k], now} /\ (Exists(p, k) => made'[p][k] # None)

LEMMA RemoveRemoves ==
  ASSUME Types, NEW p \in Projects, NEW kinds \in SUBSET Kinds, Remove(p, kinds) PROVE Removed(p)
<1>1. None \in Times BY DEF Times
<1>2. made' = [made EXCEPT ![p] = [k \in Kinds |-> IF k \in kinds THEN None ELSE made[p][k]]]
  BY DEF Remove
<1>3. [k \in Kinds |-> IF k \in kinds THEN None ELSE made[p][k]] \in [Kinds -> Times]
  BY <1>1 DEF Types
<1>4. made' \in [Projects -> [Kinds -> Times]] BY <1>2, <1>3 DEF Types
<1>5. \A q \in Projects : q # p => made'[q] = made[q] BY <1>2 DEF Types
<1>6. \A k \in Kinds : made'[p][k] = IF k \in kinds THEN None ELSE made[p][k]
  BY <1>2 DEF Types
<1> QED BY <1>4, <1>5, <1>6 DEF Removed

LEMMA MakeCreates ==
  ASSUME Types, NEW p \in Projects, NEW kind \in Kinds,
         Make(p, kind) \/ made' = [made EXCEPT ![p][kind] = now]
  PROVE  Created(p)
<1>1. PICK t \in {made[p][kind], now} :
          made' = [made EXCEPT ![p] = [made[p] EXCEPT ![kind] = t]] /\ (Exists(p, kind) => t # None)
  BY NowIsSome DEF Make, Exists
<1>2. t \in Times BY NowIsSome DEF Types
<1>3. [made[p] EXCEPT ![kind] = t] \in [Kinds -> Times] BY <1>2 DEF Types
<1>4. made' \in [Projects -> [Kinds -> Times]] BY <1>1, <1>3 DEF Types
<1>5. \A q \in Projects : q # p => made'[q] = made[q] BY <1>1 DEF Types
<1>6. \A k \in Kinds : made'[p][k] = IF k = kind THEN t ELSE made[p][k]
  BY <1>1 DEF Types
<1> QED BY <1>1, <1>4, <1>5, <1>6 DEF Created, Exists

LEMMA RemovableKinds == \A kinds \in Removable : kinds \in SUBSET Kinds
  BY DEF Removable, Kinds

-----------------------------------------------------------------------------
(* What holds of any runs: one lemma for each action, or group of them.       *)

LEMMA InitBase == Init => Base
<1> SUFFICES ASSUME Init PROVE Base OBVIOUS
<1>1. Types
  <2>1. made \in [Projects -> [Kinds -> Times]]
    <3>1. LeftOver \subseteq [Kinds -> Times] BY DEF LeftOver, Times
    <3> QED BY <3>1 DEF Init
  <2>2. seen \in [Runs -> [Projects -> SUBSET Times]] BY DEF Init
  <2>3. /\ now \in Nat /\ stage \in [Runs -> Stages] /\ begun \in [Runs -> Nat]
        /\ stale \in [Runs -> SUBSET Projects] /\ down \in [Runs -> Projects \cup {None}]
        /\ dockerFails \in SUBSET Commands
    BY DEF Init, Stages
  <2> QED BY <2>1, <2>2, <2>3 DEF Types
<1>2. Begun /\ OrphansStale BY DEF Init, Begun, OrphansStale
<1> QED BY <1>1, <1>2 DEF Base

\* A run that goes on: it is not idle after that, and others are where they were.
LEMMA GoesOn ==
  ASSUME Types, NEW s \in Runs, NEW from, NEW to \in Stages \ {"idle"}, Go(s, from, to)
  PROVE  /\ stage' \in [Runs -> Stages]
         /\ stage[s] = from /\ stage'[s] = to
         /\ \A r \in Runs : r # s => stage'[r] = stage[r]
         /\ \A r \in Runs : stage[r] # "idle" => stage'[r] # "idle"
BY DEF Types, Go

\* What a step of a run's own life makes or takes away.
LEMMA LifeMoves ==
  ASSUME Types, NEW s \in Runs,
         SeedVolume(s) \/ PrepareFails(s) \/ UpNetworks(s) \/ UpContainers(s) \/ WorkEnds(s)
         \/ TearDownOwn(s)
  PROVE  /\ \E from \in Stages \ {"idle"} :
               \E to \in {"prepare", "up", "work", "finally", "ended"} : Go(s, from, to)
         /\ UNCHANGED <<dockerFails, now, begun, seen, stale, down>>
         /\ \/ UNCHANGED made
            \/ Created(Own(s))
            \/ Removed(Own(s)) /\ TearDownOwn(s)
<1>1. Own(s) \in Projects BY OwnInProjects
<1>2. CASE SeedVolume(s)
  <2>1. Created(Own(s)) BY <1>1, <1>2, MakeCreates DEF SeedVolume, Kinds
  <2> QED BY <1>2, <2>1 DEF SeedVolume, Stages
<1>3. CASE PrepareFails(s) BY <1>3 DEF PrepareFails, Stages
<1>4. CASE UpNetworks(s)
  <2>1. Created(Own(s)) BY <1>1, <1>4, MakeCreates DEF UpNetworks, Kinds
  <2> QED BY <1>4, <2>1 DEF UpNetworks, Stages
<1>5. CASE UpContainers(s)
  <2>1. Created(Own(s)) BY <1>1, <1>5, MakeCreates DEF UpContainers, Kinds
  <2> QED BY <1>5, <2>1 DEF UpContainers, Stages
<1>6. CASE WorkEnds(s)
  <2>1. PICK from \in {"up", "work"} : Go(s, from, "finally") BY <1>6 DEF WorkEnds
  <2> QED BY <1>6, <2>1 DEF WorkEnds, Stages
<1>7. CASE TearDownOwn(s)
  <2>1. PICK kinds \in Removable \cup {{}} : Remove(Own(s), kinds) BY <1>7 DEF TearDownOwn
  <2>2. Removed(Own(s)) BY <1>1, <2>1, RemoveRemoves, RemovableKinds
  <2> QED BY <1>7, <2>2 DEF TearDownOwn, Stages
<1> QED BY <1>2, <1>3, <1>4, <1>5, <1>6, <1>7

\* What a listing adds to what a sweep has seen are the times of what there is.
Adds(s, kind) ==
    /\ seen' \in [Runs -> [Projects -> SUBSET Times]]
    /\ \A r \in Runs, p \in Projects :
          \A c \in seen'[r][p] : c \in seen[r][p] \/ c = None \/ c = made[p][kind]
    /\ \A r \in Runs : r # s => seen'[r] = seen[r]
    /\ seen'[s][Own(s)] \subseteq seen[s][Own(s)]
    /\ "list" \notin dockerFails => \A p \in Projects \ {Own(s)} :
          /\ seen[s][p] \subseteq seen'[s][p]
          /\ Exists(p, kind) => None \in seen'[s][p] \/ made[p][kind] \in seen'[s][p]
    /\ dockerFails = {} => \A p \in Projects :
          seen'[s][p] = seen[s][p] \cup
              (IF p = Own(s) \/ ~Exists(p, kind) THEN {} ELSE {made[p][kind]})

LEMMA ListAdds ==
  ASSUME Types, NEW s \in Runs, NEW kind \in Kinds, ListKind(s, kind) PROVE Adds(s, kind)
<1>1. CASE "list" \in dockerFails /\ UNCHANGED seen BY <1>1, OwnInProjects DEF Types, Adds
<1>2. ASSUME NEW unknown \in SUBSET (IF "inspect" \in dockerFails THEN Projects ELSE {}),
             seen' = [seen EXCEPT ![s] = [p \in Projects |->
                        IF p = Own(s) \/ ~Exists(p, kind) THEN seen[s][p]
                        ELSE seen[s][p] \cup {IF p \in unknown THEN None ELSE made[p][kind]}]]
      PROVE  Adds(s, kind)
  <2> DEFINE f == [p \in Projects |->
                     IF p = Own(s) \/ ~Exists(p, kind) THEN seen[s][p]
                     ELSE seen[s][p] \cup {IF p \in unknown THEN None ELSE made[p][kind]}]
  <2>1. None \in Times BY DEF Times
  <2>2. \A p \in Projects : made[p][kind] \in Times /\ seen[s][p] \in SUBSET Times BY DEF Types
  <2>3. f \in [Projects -> SUBSET Times] BY <2>1, <2>2
  <2>4. \A p \in Projects : \A c \in f[p] : c \in seen[s][p] \/ c = None \/ c = made[p][kind]
    OBVIOUS
  <2>5. ASSUME dockerFails = {}, NEW p \in Projects
        PROVE  f[p] = seen[s][p] \cup
                   (IF p = Own(s) \/ ~Exists(p, kind) THEN {} ELSE {made[p][kind]})
    <3>1. p \notin unknown BY <2>5
    <3> QED BY <3>1
  <2>8. \A p \in Projects \ {Own(s)} :
            /\ seen[s][p] \subseteq f[p]
            /\ Exists(p, kind) => None \in f[p] \/ made[p][kind] \in f[p]
    OBVIOUS
  <2>9. f[Own(s)] = seen[s][Own(s)] BY OwnInProjects
  <2> HIDE DEF f
  <2>6. seen' \in [Runs -> [Projects -> SUBSET Times]] BY <1>2, <2>3 DEF Types, f
  <2>7. \A r \in Runs : seen'[r] = IF r = s THEN f ELSE seen[r] BY <1>2 DEF Types, f
  <2> QED BY <2>4, <2>5, <2>6, <2>7, <2>8, <2>9 DEF Adds
<1> QED BY <1>1, <1>2 DEF ListKind

\* A step that sentences nothing.
LEMMA MoveBase ==
  ASSUME Base, NEW s \in Runs, NEW from, NEW to \in Stages \ {"idle", "orphans"}, Go(s, from, to),
         UNCHANGED <<dockerFails, now, begun, stale, down>>,
         seen' \in [Runs -> [Projects -> SUBSET Times]],
         made' \in [Projects -> [Kinds -> Times]]
  PROVE  Base'
<1> USE DEF Base
<1>1. /\ stage' \in [Runs -> Stages] /\ stage'[s] = to
      /\ \A r \in Runs : r # s => stage'[r] = stage[r]
  BY GoesOn
<1>2. Types' BY <1>1 DEF Types
<1>3. Begun' /\ OrphansStale' BY <1>1 DEF Begun, OrphansStale
<1> QED BY <1>2, <1>3

LEMMA BeginBase == ASSUME Base, NEW s \in Runs, BeginRun(s) PROVE Base'
<1> USE DEF Base
<1>1. PICK to \in {"container", "seed"} : Go(s, "idle", to) BY DEF BeginRun
<1>2. /\ stage' \in [Runs -> Stages] /\ stage'[s] = to
      /\ \A r \in Runs : r # s => stage'[r] = stage[r]
  BY <1>1, GoesOn DEF Stages, Kinds
<1>3. begun' \in [Runs -> Nat] /\ begun'[s] = now /\ \A r \in Runs : r # s => begun'[r] = begun[r]
  BY DEF BeginRun, Types
<1>4. Types' BY <1>2, <1>3 DEF Types, BeginRun
<1>5. Begun' BY <1>3 DEF Begun, Types, BeginRun
<1>6. OrphansStale' BY <1>2 DEF OrphansStale, BeginRun
<1> QED BY <1>4, <1>5, <1>6

LEMMA JudgeBase == ASSUME Base, NEW s \in Runs, Judge(s) PROVE Base'
<1> USE DEF Base
<1>1. /\ stage' \in [Runs -> Stages] /\ stage'[s] = "teardown"
      /\ \A r \in Runs : r # s => stage'[r] = stage[r]
  BY GoesOn DEF Judge, Stages
<1>2. stale' \in [Runs -> SUBSET Projects] /\ \A r \in Runs : r # s => stale'[r] = stale[r]
  BY DEF Judge, Types
<1>3. Types' BY <1>1, <1>2 DEF Types, Judge
<1>4. Begun' BY DEF Begun, Judge
<1>5. OrphansStale' BY <1>1, <1>2 DEF OrphansStale, Judge
<1> QED BY <1>3, <1>4, <1>5

LEMMA DownBase ==
  ASSUME Base, NEW s \in Runs, NEW p \in Projects, ComposeDown(s, p)
  PROVE  /\ Base' /\ Removed(p) /\ p \in stale[s]
         /\ stage[s] = "teardown" /\ stage'[s] = "orphans" /\ down'[s] = p
         /\ \A r \in Runs : r # s => stage'[r] = stage[r]
         /\ \A r \in Runs : r # s => down'[r] = down[r]
<1> USE DEF Base
<1>1. /\ stage' \in [Runs -> Stages] /\ stage'[s] = "orphans" /\ stage[s] = "teardown"
      /\ \A r \in Runs : r # s => stage'[r] = stage[r]
  BY GoesOn DEF ComposeDown, Stages
<1>2. Removed(p) BY RemoveRemoves, RemovableKinds DEF ComposeDown
<1>3. down'[s] = p /\ \A r \in Runs : r # s => down'[r] = down[r] BY DEF ComposeDown, Types
<1>4. Types' BY <1>1, <1>2 DEF Types, ComposeDown, Removed
<1>5. Begun' BY DEF Begun, ComposeDown
<1>6. OrphansStale' BY <1>1, <1>3 DEF OrphansStale, ComposeDown
<1> QED BY <1>1, <1>2, <1>3, <1>4, <1>5, <1>6 DEF ComposeDown

LEMMA OrphansBase ==
  ASSUME Base, NEW s \in Runs, RemoveOrphans(s)
  PROVE  /\ Base' /\ down[s] \in stale[s] /\ down[s] \in Projects
         /\ UNCHANGED made \/ Removed(down[s])
         /\ stage[s] = "orphans" /\ stage'[s] = "teardown"
         /\ \A r \in Runs : r # s => stage'[r] = stage[r]
         /\ stale'[s] = stale[s] \ {down[s]}
         /\ \A r \in Runs : r # s => stale'[r] = stale[r] /\ down'[r] = down[r]
<1> USE DEF Base
<1>1. /\ stage' \in [Runs -> Stages] /\ stage'[s] = "teardown" /\ stage[s] = "orphans"
      /\ \A r \in Runs : r # s => stage'[r] = stage[r]
  BY GoesOn DEF RemoveOrphans, Stages
<1>2. down[s] \in stale[s] /\ down[s] \in Projects BY <1>1 DEF OrphansStale, Types
<1>3. UNCHANGED made \/ Removed(down[s])
  BY <1>2, RemoveRemoves, RemovableKinds DEF RemoveOrphans
<1>4. /\ stale' \in [Runs -> SUBSET Projects] /\ stale'[s] = stale[s] \ {down[s]}
      /\ \A r \in Runs : r # s => stale'[r] = stale[r]
      /\ down' \in [Runs -> Projects \cup {None}] /\ \A r \in Runs : r # s => down'[r] = down[r]
  BY DEF RemoveOrphans, Types
<1>5. Types' BY <1>1, <1>3, <1>4 DEF Types, RemoveOrphans, Removed
<1>6. Begun' BY DEF Begun, RemoveOrphans
<1>7. OrphansStale' BY <1>1, <1>4 DEF OrphansStale
<1> QED BY <1>1, <1>2, <1>3, <1>4, <1>5, <1>6, <1>7

\* A sweep that is done forgets what it saw.
LEMMA DoneForgets ==
  ASSUME Types, NEW s \in Runs, SweepDone(s)
  PROVE  /\ seen' \in [Runs -> [Projects -> SUBSET Times]]
         /\ \A p \in Projects : seen'[s][p] = {}
         /\ \A r \in Runs : r # s => seen'[r] = seen[r]
         /\ stage[s] = "teardown" /\ stage'[s] = "seed"
         /\ \A r \in Runs : r # s => stage'[r] = stage[r]
         /\ \A r \in Runs : stage[r] # "idle" => stage'[r] # "idle"
<1>1. [p \in Projects |-> {}] \in [Projects -> SUBSET Times] OBVIOUS
<1> QED BY <1>1, GoesOn DEF SweepDone, Types, Stages

\* A killed run has ended, and knows nothing.
LEMMA KillBase ==
  ASSUME Base, NEW s \in Runs, Kill(s)
  PROVE  /\ Base' /\ stage'[s] = "ended" /\ \A q \in Projects : seen'[s][q] = {}
         /\ \A r \in Runs : r # s => /\ stage'[r] = stage[r] /\ seen'[r] = seen[r]
                                    /\ stale'[r] = stale[r] /\ down'[r] = down[r]
<1> USE DEF Base
<1>1. PICK from \in Stages \ {"idle", "ended"} : Go(s, from, "ended") BY DEF Kill
<1>2. /\ stage' \in [Runs -> Stages] /\ stage'[s] = "ended"
      /\ \A r \in Runs : r # s => stage'[r] = stage[r]
  BY <1>1, GoesOn DEF Stages
<1>3. [q \in Projects |-> {}] \in [Projects -> SUBSET Times] OBVIOUS
<1>4. /\ seen' \in [Runs -> [Projects -> SUBSET Times]] /\ stale' \in [Runs -> SUBSET Projects]
      /\ down' \in [Runs -> Projects \cup {None}] /\ \A q \in Projects : seen'[s][q] = {}
      /\ \A r \in Runs : r # s => seen'[r] = seen[r] /\ stale'[r] = stale[r] /\ down'[r] = down[r]
  BY <1>3 DEF Kill, Types
<1>5. Types' BY <1>2, <1>4 DEF Types, Kill
<1>6. Begun' /\ OrphansStale' BY <1>2, <1>4 DEF Begun, OrphansStale, Kill
<1> QED BY <1>2, <1>4, <1>5, <1>6

LEMMA BaseStep == ASSUME Base, [Next]_vars PROVE Base'
<1>1. ASSUME NEW s \in Runs, Sweep(s) PROVE Base'
  <2>1. ASSUME NEW kind \in Kinds, ListKind(s, kind) PROVE Base'
    <3>1. NextKind[kind] \in Stages \ {"idle", "orphans"} BY DEF NextKind, Kinds, Stages
    <3>2. seen' \in [Runs -> [Projects -> SUBSET Times]] BY <2>1, ListAdds DEF Base, Adds
    <3> QED BY <2>1, <3>1, <3>2, MoveBase DEF ListKind, Base, Types
  <2>2. CASE SweepDone(s)
    <3>1. seen' \in [Runs -> [Projects -> SUBSET Times]] BY <2>2, DoneForgets DEF Base
    <3> QED BY <2>2, <3>1, MoveBase DEF SweepDone, Base, Types, Stages
  <2> QED BY <1>1, <2>1, <2>2, JudgeBase, DownBase, OrphansBase DEF Sweep
<1>2. ASSUME NEW s \in Runs, Life(s) PROVE Base'
  <2>1. CASE BeginRun(s) BY <2>1, BeginBase
  <2>2. CASE Kill(s) BY <2>2, KillBase
  <2>3. CASE SeedVolume(s) \/ PrepareFails(s) \/ UpNetworks(s) \/ UpContainers(s) \/ WorkEnds(s)
             \/ TearDownOwn(s)
    <3>1. PICK from \in Stages \ {"idle"}, to \in {"prepare", "up", "work", "finally", "ended"} :
              Go(s, from, to)
      BY <2>3, LifeMoves DEF Base
    <3>2. /\ UNCHANGED <<dockerFails, now, begun, seen, stale, down>>
          /\ made' \in [Projects -> [Kinds -> Times]]
      BY <2>3, LifeMoves DEF Base, Types, Created, Removed
    <3>3. to \in Stages \ {"idle", "orphans"} BY DEF Stages
    <3> QED BY <3>1, <3>2, <3>3, MoveBase DEF Base, Types
  <2> QED BY <1>2, <2>1, <2>2, <2>3 DEF Life
<1>3. CASE Tick BY <1>3 DEF Tick, Base, Types, Begun, OrphansStale
<1>4. CASE UNCHANGED vars BY <1>4 DEF vars, Base, Types, Begun, OrphansStale
<1> QED BY <1>1, <1>2, <1>3, <1>4 DEF Next

-----------------------------------------------------------------------------
(* What a sweep sees, where docker does not fail, of any runs and projects.   *)

\* Nothing is left of the project p, or something that run r need not collect.
Fresh(r, p) ==
    \/ \A k \in Kinds : ~Exists(p, k)
    \/ \E k \in Kinds : Exists(p, k) /\ begun[r] - made[p][k] < MaxAge

\* The stages of a run that has listed a kind and not yet judged.
Listed == [container |-> {"network", "volume", "judge"}, network |-> {"volume", "judge"},
           volume |-> {"judge"}]
Sweeping == {"idle", "container", "network", "volume", "judge", "teardown", "orphans"}

\* A time seen that was recent is that of a project that stays fresh.
SeenFresh(r, p) ==
    /\ stage[r] = "idle" => seen[r][p] = {}
    /\ \A c \in seen[r][p] : c # None /\ (begun[r] - c < MaxAge => Fresh(r, p))

\* Of a kind that was listed all is seen but what was made since.
SeenAll(r, p) ==
    \A k \in Kinds : stage[r] \in Listed[k] /\ Exists(p, k) =>
        made[p][k] \in seen[r][p] \/ made[p][k] >= begun[r]

\* What has been judged is to be torn down or fresh; what went down is fresh.
Judged(r, p) ==
    /\ stage[r] \in {"teardown", "orphans"} => p \in stale[r] \/ Fresh(r, p)
    /\ stage[r] = "orphans" /\ down[r] = p => Fresh(r, p)

Sees(r, p) == SeenFresh(r, p) /\ SeenAll(r, p) /\ Judged(r, p)
SeesInv == dockerFails = {} => \A r \in Runs : \A p \in Projects \ {Own(r)} : Sees(r, p)

\* A step takes all of a project away, or none of it.
Cleared(p) == \A k \in Kinds : made'[p][k] = None
Grown(p) == \A k \in Kinds : made'[p][k] \in {made[p][k], now}

\* A run whose sweep does not move in this step.
Still(r) ==
    /\ begun'[r] = begun[r] /\ seen'[r] = seen[r] /\ stale'[r] = stale[r] /\ down'[r] = down[r]
    /\ stage'[r] = stage[r] \/ stage'[r] \notin Sweeping

LEMMA Limit == MaxAge \in Nat /\ MaxAge > 0
  BY TimeAssumption

LEMMA FreshStays ==
  ASSUME Base, NEW r \in Runs, NEW p \in Projects, Cleared(p) \/ Grown(p),
         begun'[r] = begun[r], Fresh(r, p)
  PROVE  Fresh(r, p)'
<1> USE DEF Base
<1>1. now \in Nat /\ begun[r] \in Nat /\ begun[r] <= now BY DEF Types, Begun
<1>2. \A k \in Kinds : made[p][k] \in Nat \cup {None} BY DEF Types, Times
<1>3. CASE Cleared(p) BY <1>3 DEF Cleared, Fresh, Exists
<1>4. CASE Grown(p) /\ \E k \in Kinds : made'[p][k] = now
  BY <1>1, <1>4, Limit, NowIsSome DEF Fresh, Exists
<1>5. CASE \A k \in Kinds : made'[p][k] = made[p][k] BY <1>5 DEF Fresh, Exists
<1> QED BY <1>3, <1>4, <1>5 DEF Grown

LEMMA SeesKept ==
  ASSUME Base, NEW r \in Runs, NEW p \in Projects, Cleared(p) \/ Grown(p), Still(r), Sees(r, p)
  PROVE  Sees(r, p)'
<1> USE DEF Still
<1>1. Fresh(r, p) => Fresh(r, p)' BY FreshStays
<1>2. SeenFresh(r, p)' BY <1>1 DEF Sees, SeenFresh, Sweeping
<1>3. SeenAll(r, p)'
  <2> SUFFICES ASSUME NEW k \in Kinds, stage'[r] \in Listed[k], made'[p][k] # None
               PROVE  made'[p][k] \in seen[r][p] \/ made'[p][k] >= begun[r]
    BY DEF SeenAll, Exists
  <2>1. stage'[r] = stage[r] BY DEF Listed, Sweeping, Kinds
  <2>2. CASE made'[p][k] = now BY <2>2 DEF Base, Begun
  <2>3. CASE made'[p][k] = made[p][k] BY <2>1, <2>3 DEF Sees, SeenAll, Exists
  <2> QED BY <2>2, <2>3 DEF Cleared, Grown
<1>4. Judged(r, p)' BY <1>1 DEF Sees, Judged, Sweeping
<1> QED BY <1>2, <1>3, <1>4 DEF Sees

LEMMA InitSees == Init => SeesInv
BY DEF Init, SeesInv, Sees, SeenFresh, SeenAll, Judged, Listed, Kinds

\* Where docker does not fail, nothing is left half removed.
LEMMA AllOrNothing ==
  ASSUME Base, dockerFails = {}, [Next]_vars, NEW p \in Projects PROVE Cleared(p) \/ Grown(p)
<1> USE DEF Base
<1>1. ASSUME NEW q \in Projects, NEW kinds \in {Kinds, {}}, Remove(q, kinds) PROVE Cleared(p) \/ Grown(p)
  BY <1>1 DEF Remove, Cleared, Grown, Types
<1>2. Removable = {Kinds} BY DEF Removable
<1>3. CASE UNCHANGED made BY <1>3 DEF Grown
<1>4. ASSUME NEW s \in Runs, Created(Own(s)) PROVE Grown(p)
  BY <1>4 DEF Created, Grown
<1>5. ASSUME NEW s \in Runs, Sweep(s) PROVE Cleared(p) \/ Grown(p)
  <2>1. ASSUME NEW q \in Projects, ComposeDown(s, q) PROVE Cleared(p) \/ Grown(p)
    BY <1>1, <1>2, <2>1 DEF ComposeDown
  <2>2. CASE RemoveOrphans(s) BY <1>1, <1>2, <1>3, <2>2, OrphansBase DEF RemoveOrphans
  <2>3. CASE Judge(s) \/ SweepDone(s) \/ \E kind \in Kinds : ListKind(s, kind)
    BY <1>3, <2>3 DEF Judge, SweepDone, ListKind
  <2> QED BY <1>5, <2>1, <2>2, <2>3 DEF Sweep
<1>6. ASSUME NEW s \in Runs, Life(s) PROVE Cleared(p) \/ Grown(p)
  <2>1. CASE TearDownOwn(s) BY <1>1, <1>2, <2>1, OwnInProjects DEF TearDownOwn
  <2>2. CASE BeginRun(s) \/ Kill(s) BY <1>3, <2>2 DEF BeginRun, Kill
  <2>3. CASE SeedVolume(s) \/ PrepareFails(s) \/ UpNetworks(s) \/ UpContainers(s) \/ WorkEnds(s)
    BY <1>3, <1>4, <2>1, <2>3, LifeMoves
  <2> QED BY <1>6, <2>1, <2>2, <2>3 DEF Life
<1>7. CASE Tick \/ UNCHANGED vars BY <1>3, <1>7 DEF Tick, vars
<1> QED BY <1>5, <1>6, <1>7 DEF Next

LEMMA ListSees ==
  ASSUME Base, dockerFails = {}, NEW s \in Runs, NEW kind \in Kinds, ListKind(s, kind),
         NEW p \in Projects \ {Own(s)}, Sees(s, p)
  PROVE  Sees(s, p)'
<1> USE DEF Base
<1>1. stage[s] = kind /\ stage'[s] = NextKind[kind]
  BY GoesOn DEF ListKind, NextKind, Kinds, Stages
<1>2. seen'[s][p] = seen[s][p] \cup (IF Exists(p, kind) THEN {made[p][kind]} ELSE {})
  BY ListAdds DEF Adds
<1>3. UNCHANGED <<made, begun>> BY DEF ListKind
<1>4. Fresh(s, p)' <=> Fresh(s, p) BY <1>3 DEF Fresh, Exists
<1>5. SeenFresh(s, p)'
  <2>1. stage'[s] # "idle" BY <1>1 DEF NextKind, Kinds
  <2>2. Exists(p, kind) => made[p][kind] # None
                           /\ (begun[s] - made[p][kind] < MaxAge => Fresh(s, p))
    BY DEF Exists, Fresh
  <2> QED BY <1>2, <1>3, <1>4, <2>1, <2>2 DEF Sees, SeenFresh
<1>6. SeenAll(s, p)'
  <2> SUFFICES ASSUME NEW k \in Kinds, stage'[s] \in Listed[k], Exists(p, k)
               PROVE  made[p][k] \in seen'[s][p] \/ made[p][k] >= begun[s]
    BY <1>3 DEF SeenAll, Exists
  <2>1. k = kind \/ stage[s] \in Listed[k] BY <1>1 DEF NextKind, Listed, Kinds
  <2>2. CASE k = kind BY <1>2, <2>2
  <2>3. CASE stage[s] \in Listed[k] BY <1>2, <2>3 DEF Sees, SeenAll
  <2> QED BY <2>1, <2>2, <2>3
<1>7. Judged(s, p)'
  <2>1. stage'[s] \notin {"teardown", "orphans"} BY <1>1 DEF NextKind, Kinds
  <2> QED BY <2>1 DEF Judged
<1> QED BY <1>5, <1>6, <1>7 DEF Sees

\* Either something recent was seen, or nothing that was there at the beginning.
LEMMA JudgeSees ==
  ASSUME Base, dockerFails = {}, NEW s \in Runs, Judge(s), NEW p \in Projects \ {Own(s)}, Sees(s, p)
  PROVE  Sees(s, p)'
<1> USE DEF Base
<1>1. stage[s] = "judge" /\ stage'[s] = "teardown" BY GoesOn DEF Judge, Stages
<1>2. UNCHANGED <<made, begun, seen>> BY DEF Judge
<1>3. Fresh(s, p)' <=> Fresh(s, p) BY <1>2 DEF Fresh, Exists
<1>4. SeenFresh(s, p)' BY <1>1, <1>2, <1>3 DEF Sees, SeenFresh
<1>5. SeenAll(s, p)' BY <1>1 DEF SeenAll, Listed, Kinds
<1>6. p \in stale'[s] \/ Fresh(s, p)
  <2>1. p \in stale'[s] <=> (seen[s][p] # {} /\ \A c \in seen[s][p] : Old(c))
    BY DEF Judge, Types
  <2>2. ASSUME NEW c \in seen[s][p], ~Old(c) PROVE Fresh(s, p)
    <3>1. c # None /\ (begun[s] - c < MaxAge => Fresh(s, p)) BY DEF Sees, SeenFresh
    <3>2. c \in Nat /\ now \in Nat /\ begun[s] \in Nat /\ begun[s] <= now
      BY <3>1 DEF Types, Times, Begun
    <3> QED BY <2>2, <3>1, <3>2, Limit DEF Old
  <2>3. CASE seen[s][p] = {}
    <3>1. \A k \in Kinds : Exists(p, k) => made[p][k] >= begun[s]
      BY <1>1, <2>3 DEF Sees, SeenAll, Listed, Kinds
    <3>2. \A k \in Kinds : made[p][k] \in Nat \cup {None} /\ begun[s] \in Nat
      BY DEF Types, Times
    <3> QED BY <3>1, <3>2, Limit DEF Fresh, Exists
  <2> QED BY <2>1, <2>2, <2>3
<1>7. Judged(s, p)' BY <1>1, <1>3, <1>6 DEF Judged
<1> QED BY <1>4, <1>5, <1>7 DEF Sees

LEMMA DownSees ==
  ASSUME Base, dockerFails = {}, NEW s \in Runs, NEW q \in Projects, ComposeDown(s, q),
         NEW p \in Projects \ {Own(s)}, Cleared(p) \/ Grown(p), Sees(s, p)
  PROVE  Sees(s, p)'
<1>1. /\ stage[s] = "teardown" /\ stage'[s] = "orphans" /\ down'[s] = q
      /\ UNCHANGED <<begun, seen, stale>>
  BY DownBase DEF ComposeDown
<1>2. Fresh(s, p) => Fresh(s, p)' BY <1>1, FreshStays
<1>3. q = p => Fresh(s, p)'
  <2>1. Removable = {Kinds} BY DEF Removable
  <2>2. Remove(q, Kinds) BY <2>1 DEF ComposeDown
  <2>3. \A k \in Kinds : made'[q][k] = None BY <2>2 DEF Remove, Base, Types
  <2> QED BY <2>3 DEF Fresh, Exists
<1>4. SeenFresh(s, p)' BY <1>1, <1>2 DEF Sees, SeenFresh
<1>5. SeenAll(s, p)' BY <1>1 DEF SeenAll, Listed, Kinds
<1>6. Judged(s, p)' BY <1>1, <1>2, <1>3 DEF Sees, Judged
<1> QED BY <1>4, <1>5, <1>6 DEF Sees

LEMMA OrphansSees ==
  ASSUME Base, dockerFails = {}, NEW s \in Runs, RemoveOrphans(s),
         NEW p \in Projects \ {Own(s)}, Cleared(p) \/ Grown(p), Sees(s, p)
  PROVE  Sees(s, p)'
<1>1. /\ stage[s] = "orphans" /\ stage'[s] = "teardown" /\ stale'[s] = stale[s] \ {down[s]}
      /\ UNCHANGED <<begun, seen>>
  BY OrphansBase DEF RemoveOrphans
<1>2. Fresh(s, p) => Fresh(s, p)' BY <1>1, FreshStays
<1>3. SeenFresh(s, p)' BY <1>1, <1>2 DEF Sees, SeenFresh
<1>4. SeenAll(s, p)' BY <1>1 DEF SeenAll, Listed, Kinds
<1>5. Judged(s, p)' BY <1>1, <1>2 DEF Sees, Judged
<1> QED BY <1>3, <1>4, <1>5 DEF Sees

\* A run that begins has seen nothing, and one that is done has forgotten all.
LEMMA BlankSees ==
  ASSUME NEW s \in Runs, NEW p \in Projects, seen'[s][p] = {},
         stage'[s] \notin {"network", "volume", "judge", "teardown", "orphans"}
  PROVE  Sees(s, p)'
<1>1. SeenFresh(s, p)' BY DEF SeenFresh
<1>2. SeenAll(s, p)' BY DEF SeenAll, Listed, Kinds
<1>3. Judged(s, p)' BY DEF Judged
<1> QED BY <1>1, <1>2, <1>3 DEF Sees

\* While one run sweeps, all others stay as they are.
LEMMA OthersStill ==
  ASSUME Base, NEW s \in Runs, Sweep(s) \/ BeginRun(s), NEW r \in Runs \ {s} PROVE Still(r)
BY DEF Base, Types, Sweep, BeginRun, ListKind, Judge, ComposeDown, RemoveOrphans, SweepDone,
       Go, Still

LEMMA SeesStep == ASSUME Base, SeesInv, [Next]_vars PROVE SeesInv'
<1>1. dockerFails' = dockerFails
  BY DEF Next, vars, Sweep, Life, Tick, ListKind, Judge, ComposeDown, RemoveOrphans, SweepDone,
         BeginRun, SeedVolume, PrepareFails, UpNetworks, UpContainers, WorkEnds, TearDownOwn, Kill
<1> SUFFICES ASSUME dockerFails = {}, NEW r \in Runs, NEW p \in Projects \ {Own(r)} PROVE Sees(r, p)'
  BY <1>1 DEF SeesInv, Own
<1>2. Sees(r, p) BY DEF SeesInv
<1>3. Cleared(p) \/ Grown(p) BY AllOrNothing
<1>4. CASE Still(r) BY <1>2, <1>3, <1>4, SeesKept
<1>5. ASSUME NEW s \in Runs, Sweep(s) PROVE Sees(r, p)'
  <2>1. CASE r # s BY <1>4, <1>5, <2>1, OthersStill
  <2>2. CASE r = s
    <3>1. CASE SweepDone(s) BY <2>2, <3>1, DoneForgets, BlankSees DEF Base
    <3> QED
      BY <1>2, <1>3, <1>5, <2>2, <3>1, ListSees, JudgeSees, DownSees, OrphansSees DEF Sweep
  <2> QED BY <2>1, <2>2
<1>6. ASSUME NEW s \in Runs, Life(s) PROVE Sees(r, p)'
  <2>1. CASE BeginRun(s)
    <3>1. CASE r # s BY <1>4, <2>1, <3>1, OthersStill
    <3>2. CASE r = s
      <4>1. PICK to \in {"container", "seed"} : Go(s, "idle", to) BY <2>1 DEF BeginRun
      <4>2. stage[s] = "idle" /\ stage'[s] = to BY <4>1, GoesOn DEF Base, Stages, Kinds
      <4>3. seen'[s][p] = {} BY <1>2, <2>1, <3>2, <4>2 DEF Sees, SeenFresh, BeginRun
      <4> QED BY <3>2, <4>2, <4>3, BlankSees
    <3> QED BY <3>1, <3>2
  <2>2. CASE Kill(s)
    <3>1. CASE r # s
      <4>1. begun' = begun BY <2>2 DEF Kill
      <4> QED BY <1>4, <2>2, <3>1, <4>1, KillBase DEF Still
    <3>2. CASE r = s BY <2>2, <3>2, KillBase, BlankSees
    <3> QED BY <3>1, <3>2
  <2>3. CASE SeedVolume(s) \/ PrepareFails(s) \/ UpNetworks(s) \/ UpContainers(s) \/ WorkEnds(s)
             \/ TearDownOwn(s)
    <3>1. PICK from \in Stages \ {"idle"}, to \in {"prepare", "up", "work", "finally", "ended"} :
              Go(s, from, to)
      BY <2>3, LifeMoves DEF Base
    <3>2. UNCHANGED <<begun, seen, stale, down>> BY <2>3, LifeMoves DEF Base
    <3>3. stage'[r] = stage[r] \/ stage'[r] \notin Sweeping
      BY <3>1, GoesOn DEF Base, Stages, Sweeping
    <3> QED BY <1>4, <3>2, <3>3 DEF Still
  <2> QED BY <1>6, <2>1, <2>2, <2>3 DEF Life
<1>7. CASE Tick \/ UNCHANGED vars BY <1>4, <1>7 DEF Tick, vars, Still
<1> QED BY <1>5, <1>6, <1>7 DEF Next

-----------------------------------------------------------------------------
(* What a sweep spares, where its listings do not fail, of any runs.          *)

\* Of a kind that was listed the sweep has seen what it must not overlook, or it was
\* made since, or there is something it knows no age of.
Looked(r, p) ==
    \A k \in Kinds : stage[r] \in Listed[k] /\ Exists(p, k) =>
        None \in seen[r][p] \/ made[p][k] \in seen[r][p] \/ made[p][k] >= begun[r]

\* What is there of a project that is to be torn down is old, or was made since.
Doomed(r, p) ==
    stage[r] \in {"teardown", "orphans"} /\ p \in stale[r] =>
        \A k \in Kinds : Exists(p, k) => now - made[p][k] >= MaxAge \/ made[p][k] >= begun[r]

\* The sweep never looks at the project of its own run.
OwnApart(r) ==
    /\ seen[r][Own(r)] = {}
    /\ stage[r] \in {"teardown", "orphans"} => Own(r) \notin stale[r]

SpareInv ==
    /\ \A r \in Runs : OwnApart(r)
    /\ "list" \notin dockerFails =>
          \A r \in Runs : \A p \in Projects \ {Own(r)} : Looked(r, p) /\ Doomed(r, p)

\* A resource stays, or is made, or goes.
Moved == /\ now' \in Nat /\ now' >= now
         /\ \A p \in Projects, k \in Kinds : made'[p][k] \in {made[p][k], now, None}

LEMMA NextMoves == ASSUME Base, [Next]_vars PROVE Moved /\ dockerFails' = dockerFails
<1> USE DEF Base
<1>1. dockerFails' = dockerFails
  BY DEF Next, vars, Sweep, Life, Tick, ListKind, Judge, ComposeDown, RemoveOrphans, SweepDone,
         BeginRun, SeedVolume, PrepareFails, UpNetworks, UpContainers, WorkEnds, TearDownOwn, Kill
<1>2. ASSUME now' = now, \/ UNCHANGED made
                        \/ \E p \in Projects : Removed(p)
                        \/ \E s \in Runs : Created(Own(s))
      PROVE  Moved
  <2>1. now' \in Nat /\ now' >= now BY <1>2 DEF Types
  <2>2. \A p \in Projects, k \in Kinds : made'[p][k] \in {made[p][k], now, None}
    <3>1. CASE UNCHANGED made BY <3>1
    <3>2. ASSUME NEW q \in Projects, Removed(q)
          PROVE  \A p \in Projects, k \in Kinds : made'[p][k] \in {made[p][k], now, None}
      BY <3>2 DEF Removed
    <3>3. ASSUME NEW s \in Runs, Created(Own(s))
          PROVE  \A p \in Projects, k \in Kinds : made'[p][k] \in {made[p][k], now, None}
      BY <3>3 DEF Created
    <3> QED BY <1>2, <3>1, <3>2, <3>3
  <2> QED BY <2>1, <2>2 DEF Moved
<1>3. ASSUME NEW s \in Runs, Sweep(s) PROVE Moved
  <2>1. ASSUME NEW p \in Projects, ComposeDown(s, p) PROVE Moved
    BY <1>2, <2>1, DownBase DEF ComposeDown
  <2>2. CASE RemoveOrphans(s) BY <1>2, <2>2, OrphansBase DEF RemoveOrphans
  <2>3. CASE Judge(s) \/ SweepDone(s) \/ \E kind \in Kinds : ListKind(s, kind)
    BY <1>2, <2>3 DEF Judge, SweepDone, ListKind
  <2> QED BY <1>3, <2>1, <2>2, <2>3 DEF Sweep
<1>4. ASSUME NEW s \in Runs, Life(s) PROVE Moved
  <2>1. CASE BeginRun(s) \/ Kill(s) BY <1>2, <2>1 DEF BeginRun, Kill
  <2>2. CASE SeedVolume(s) \/ PrepareFails(s) \/ UpNetworks(s) \/ UpContainers(s) \/ WorkEnds(s)
             \/ TearDownOwn(s)
    BY <1>2, <2>2, LifeMoves, OwnInProjects
  <2> QED BY <1>4, <2>1, <2>2 DEF Life
<1>5. CASE Tick \/ UNCHANGED vars BY <1>5 DEF Tick, vars, Moved, Types
<1> QED BY <1>1, <1>3, <1>4, <1>5 DEF Next

LEMMA InitSpare == Init => SpareInv
<1> SUFFICES ASSUME Init PROVE SpareInv OBVIOUS
<1>1. \A r \in Runs : OwnApart(r) BY OwnInProjects DEF Init, OwnApart
<1>2. \A r \in Runs : stage[r] = "idle" BY DEF Init
<1>3. \A r \in Runs, p \in Projects : Looked(r, p) /\ Doomed(r, p)
  BY <1>2 DEF Looked, Doomed, Listed, Kinds
<1> QED BY <1>1, <1>3 DEF SpareInv

\* What is old stays old.
LEMMA StillOld ==
  ASSUME Base, Moved, NEW p \in Projects, NEW k \in Kinds, made[p][k] # None,
         now - made[p][k] >= MaxAge
  PROVE  now' - made[p][k] >= MaxAge
<1>1. made[p][k] \in Nat /\ now \in Nat /\ now' \in Nat /\ now' >= now /\ MaxAge \in Nat
  BY TimeAssumption DEF Base, Types, Times, Moved
<1> QED BY <1>1

\* A run whose sweep does not move.
LEMMA SpareKept ==
  ASSUME Base, Moved, NEW r \in Runs, Still(r), NEW p \in Projects, Looked(r, p), Doomed(r, p)
  PROVE  Looked(r, p)' /\ Doomed(r, p)'
<1> USE DEF Still
<1>1. begun[r] <= now /\ now \in Nat /\ begun[r] \in Nat BY DEF Base, Begun, Types
<1>2. Looked(r, p)'
  <2> SUFFICES ASSUME NEW k \in Kinds, stage'[r] \in Listed[k], made'[p][k] # None
               PROVE  None \in seen[r][p] \/ made'[p][k] \in seen[r][p] \/ made'[p][k] >= begun[r]
    BY DEF Looked, Exists
  <2>1. stage'[r] = stage[r] BY DEF Listed, Sweeping, Kinds
  <2>2. CASE made'[p][k] = now BY <1>1, <2>2
  <2>3. CASE made'[p][k] = made[p][k] BY <2>1, <2>3 DEF Looked, Exists
  <2> QED BY <2>2, <2>3 DEF Moved
<1>3. Doomed(r, p)'
  <2> SUFFICES ASSUME NEW k \in Kinds, stage'[r] \in {"teardown", "orphans"}, p \in stale[r],
                      made'[p][k] # None
               PROVE  now' - made'[p][k] >= MaxAge \/ made'[p][k] >= begun[r]
    BY DEF Doomed, Exists
  <2>1. stage'[r] = stage[r] BY DEF Sweeping
  <2>2. CASE made'[p][k] = now BY <1>1, <2>2
  <2>3. CASE made'[p][k] = made[p][k]
    BY <2>1, <2>3, StillOld DEF Doomed, Exists
  <2> QED BY <2>2, <2>3 DEF Moved
<1> QED BY <1>2, <1>3

LEMMA ListSpares ==
  ASSUME Base, Moved, "list" \notin dockerFails, NEW s \in Runs, NEW kind \in Kinds, ListKind(s, kind),
         NEW p \in Projects \ {Own(s)}, Looked(s, p)
  PROVE  Looked(s, p)' /\ Doomed(s, p)'
<1>1. stage[s] = kind /\ stage'[s] = NextKind[kind]
  BY GoesOn DEF ListKind, NextKind, Kinds, Stages, Base
<1>2. /\ seen[s][p] \subseteq seen'[s][p]
      /\ Exists(p, kind) => None \in seen'[s][p] \/ made[p][kind] \in seen'[s][p]
  BY ListAdds DEF Adds, Base
<1>3. UNCHANGED <<made, begun>> BY DEF ListKind
<1>4. Looked(s, p)'
  <2> SUFFICES ASSUME NEW k \in Kinds, stage'[s] \in Listed[k], Exists(p, k)
               PROVE  None \in seen'[s][p] \/ made[p][k] \in seen'[s][p] \/ made[p][k] >= begun[s]
    BY <1>3 DEF Looked, Exists
  <2>1. k = kind \/ stage[s] \in Listed[k] BY <1>1 DEF NextKind, Listed, Kinds
  <2>2. CASE k = kind BY <1>2, <2>2
  <2>3. CASE stage[s] \in Listed[k] BY <1>2, <2>3 DEF Looked
  <2> QED BY <2>1, <2>2, <2>3
<1>5. Doomed(s, p)' BY <1>1 DEF Doomed, NextKind, Kinds
<1> QED BY <1>4, <1>5

\* What is judged stale has no resource of unknown age, and none seen that is young.
LEMMA JudgeSpares ==
  ASSUME Base, NEW s \in Runs, Judge(s), NEW p \in Projects, Looked(s, p)
  PROVE  Looked(s, p)' /\ Doomed(s, p)'
<1> USE DEF Base
<1>1. stage[s] = "judge" /\ stage'[s] = "teardown" BY GoesOn DEF Judge, Stages
<1>2. UNCHANGED <<now, made, begun, seen>> BY DEF Judge
<1>3. Looked(s, p)' BY <1>1 DEF Looked, Listed, Kinds
<1>4. Doomed(s, p)'
  <2> SUFFICES ASSUME p \in stale'[s], NEW k \in Kinds, Exists(p, k)
               PROVE  now - made[p][k] >= MaxAge \/ made[p][k] >= begun[s]
    BY <1>2 DEF Doomed, Exists
  <2>1. \A c \in seen[s][p] : Old(c) BY DEF Judge, Types
  <2>2. None \notin seen[s][p] BY <2>1 DEF Old
  <2>3. made[p][k] \in seen[s][p] \/ made[p][k] >= begun[s]
    BY <1>1, <2>2 DEF Looked, Listed, Kinds
  <2> QED BY <2>1, <2>3 DEF Old
<1> QED BY <1>3, <1>4

\* The teardown itself leaves less of a project, and less to tear down.
LEMMA TearingSpares ==
  ASSUME Base, Moved, NEW s \in Runs, (\E q \in Projects : ComposeDown(s, q)) \/ RemoveOrphans(s),
         NEW p \in Projects, Doomed(s, p)
  PROVE  Looked(s, p)' /\ Doomed(s, p)'
<1>1. /\ stage[s] \in {"teardown", "orphans"} /\ stage'[s] \in {"teardown", "orphans"}
      /\ stale'[s] \subseteq stale[s] /\ begun'[s] = begun[s]
  BY DownBase, OrphansBase DEF ComposeDown, RemoveOrphans
<1>2. Looked(s, p)' BY <1>1 DEF Looked, Listed, Kinds
<1>3. Doomed(s, p)'
  <2> SUFFICES ASSUME NEW k \in Kinds, p \in stale[s], made'[p][k] # None
               PROVE  now' - made'[p][k] >= MaxAge \/ made'[p][k] >= begun[s]
    BY <1>1 DEF Doomed, Exists
  <2>1. CASE made'[p][k] = now BY <2>1 DEF Base, Begun, Types
  <2>2. CASE made'[p][k] = made[p][k] BY <1>1, <2>2, StillOld DEF Doomed, Exists
  <2> QED BY <2>1, <2>2 DEF Moved
<1> QED BY <1>2, <1>3

LEMMA OutOfSweep ==
  ASSUME NEW s \in Runs, stage'[s] \notin {"network", "volume", "judge", "teardown", "orphans"},
         NEW p \in Projects
  PROVE  Looked(s, p)' /\ Doomed(s, p)'
BY DEF Looked, Doomed, Listed, Kinds

\* A sweep neither lists nor condemns the project it is to keep.
LEMMA OwnStays ==
  ASSUME Base, NEW s \in Runs, Sweep(s) \/ Life(s), OwnApart(s) PROVE OwnApart(s)'
<1> USE DEF Base
<1>1. Own(s) \in Projects BY OwnInProjects
<1>2. ASSUME NEW kind \in Kinds, ListKind(s, kind) PROVE OwnApart(s)'
  <2>1. seen'[s][Own(s)] = {} BY <1>2, ListAdds DEF Adds, OwnApart
  <2>2. stage'[s] = NextKind[kind] BY <1>2, GoesOn DEF ListKind, NextKind, Kinds, Stages
  <2> QED BY <2>1, <2>2 DEF OwnApart, NextKind, Kinds, Own
<1>3. CASE Judge(s)
  <2>1. seen'[s] = seen[s] /\ Own(s) \notin stale'[s] BY <1>1, <1>3 DEF Judge, Types, OwnApart
  <2> QED BY <2>1 DEF OwnApart, Own
<1>4. CASE (\E p \in Projects : ComposeDown(s, p)) \/ RemoveOrphans(s)
  <2>1. stage[s] \in {"teardown", "orphans"} /\ stale'[s] \subseteq stale[s] /\ seen'[s] = seen[s]
    BY <1>4, DownBase, OrphansBase DEF ComposeDown, RemoveOrphans
  <2> QED BY <2>1 DEF OwnApart, Own
<1>5. CASE SweepDone(s) BY <1>1, <1>5, DoneForgets DEF OwnApart, Own
<1>6. CASE Life(s)
  <2>1. CASE BeginRun(s)
    <3>1. PICK to \in {"container", "seed"} : Go(s, "idle", to) BY <2>1 DEF BeginRun
    <3>2. stage'[s] = to BY <3>1, GoesOn DEF Stages, Kinds
    <3> QED BY <2>1, <3>2 DEF BeginRun, OwnApart, Own
  <2>2. CASE Kill(s) BY <1>1, <2>2, KillBase DEF OwnApart, Own
  <2>3. CASE SeedVolume(s) \/ PrepareFails(s) \/ UpNetworks(s) \/ UpContainers(s) \/ WorkEnds(s)
             \/ TearDownOwn(s)
    <3>1. PICK from \in Stages \ {"idle"}, to \in {"prepare", "up", "work", "finally", "ended"} :
              Go(s, from, to)
      BY <2>3, LifeMoves
    <3>2. stage'[s] = to /\ seen' = seen BY <2>3, <3>1, LifeMoves, GoesOn DEF Stages
    <3> QED BY <3>2 DEF OwnApart, Own
  <2> QED BY <1>6, <2>1, <2>2, <2>3 DEF Life
<1> QED BY <1>2, <1>3, <1>4, <1>5, <1>6 DEF Sweep

LEMMA SpareStep == ASSUME Base, SpareInv, [Next]_vars PROVE SpareInv'
<1>1. Moved /\ dockerFails' = dockerFails BY NextMoves
<1>2. ASSUME NEW s \in Runs, Sweep(s) \/ Life(s), NEW r \in Runs \ {s} PROVE Still(r)
  <2>1. CASE Sweep(s) \/ BeginRun(s) BY <1>2, <2>1, OthersStill
  <2>2. CASE Kill(s)
    <3>1. begun' = begun BY <2>2 DEF Kill
    <3> QED BY <2>2, <3>1, KillBase DEF Still
  <2>3. CASE SeedVolume(s) \/ PrepareFails(s) \/ UpNetworks(s) \/ UpContainers(s) \/ WorkEnds(s)
             \/ TearDownOwn(s)
    BY <1>2, <2>3, LifeMoves, GoesOn DEF Base, Still, Stages
  <2> QED BY <1>2, <2>1, <2>2, <2>3 DEF Life
<1>3. ASSUME NEW r \in Runs PROVE OwnApart(r)'
  <2>1. OwnApart(r) BY DEF SpareInv
  <2>2. ASSUME Still(r) PROVE OwnApart(r)' BY <2>1, <2>2 DEF Still, OwnApart, Own, Sweeping
  <2>3. ASSUME NEW s \in Runs, Sweep(s) \/ Life(s) PROVE OwnApart(r)'
    BY <1>2, <2>1, <2>2, <2>3, OwnStays
  <2>4. CASE Tick \/ UNCHANGED vars BY <2>2, <2>4 DEF Tick, vars, Still
  <2> QED BY <2>3, <2>4 DEF Next
<1>4. ASSUME "list" \notin dockerFails, NEW r \in Runs, NEW p \in Projects \ {Own(r)}
      PROVE  Looked(r, p)' /\ Doomed(r, p)'
  <2>1. Looked(r, p) /\ Doomed(r, p) BY <1>4 DEF SpareInv
  <2>2. ASSUME Still(r) PROVE Looked(r, p)' /\ Doomed(r, p)' BY <1>1, <2>1, <2>2, SpareKept
  <2>3. ASSUME NEW s \in Runs, s # r, Sweep(s) \/ Life(s) PROVE Looked(r, p)' /\ Doomed(r, p)'
    BY <1>2, <2>2, <2>3
  <2>4. CASE Sweep(r)
    <3>1. CASE SweepDone(r)
      <4>1. stage'[r] = "seed" BY <3>1, DoneForgets DEF Base
      <4> QED BY <4>1, OutOfSweep
    <3>2. ASSUME NEW kind \in Kinds, ListKind(r, kind) PROVE Looked(r, p)' /\ Doomed(r, p)'
      BY <1>1, <1>4, <2>1, <3>2, ListSpares
    <3>3. CASE Judge(r) BY <2>1, <3>3, JudgeSpares
    <3>4. CASE (\E q \in Projects : ComposeDown(r, q)) \/ RemoveOrphans(r)
      BY <1>1, <2>1, <3>4, TearingSpares
    <3> QED BY <2>4, <3>1, <3>2, <3>3, <3>4 DEF Sweep
  <2>5. CASE Life(r)
    <3>1. CASE BeginRun(r)
      <4>1. PICK to \in {"container", "seed"} : Go(r, "idle", to) BY <3>1 DEF BeginRun
      <4>2. stage'[r] = to BY <4>1, GoesOn DEF Base, Stages, Kinds
      <4> QED BY <4>2, OutOfSweep
    <3>2. CASE Kill(r) BY <3>2, KillBase, OutOfSweep
    <3>3. CASE SeedVolume(r) \/ PrepareFails(r) \/ UpNetworks(r) \/ UpContainers(r) \/ WorkEnds(r)
               \/ TearDownOwn(r)
      <4>1. PICK from \in Stages \ {"idle"}, to \in {"prepare", "up", "work", "finally", "ended"} :
                Go(r, from, to)
        BY <3>3, LifeMoves DEF Base
      <4>2. stage'[r] = to BY <4>1, GoesOn DEF Base, Stages
      <4> QED BY <4>2, OutOfSweep
    <3> QED BY <2>5, <3>1, <3>2, <3>3 DEF Life
  <2>6. CASE Tick \/ UNCHANGED vars BY <2>2, <2>6 DEF Tick, vars, Still
  <2> QED BY <2>3, <2>4, <2>5, <2>6 DEF Next
<1> QED BY <1>1, <1>3, <1>4 DEF SpareInv, Own

-----------------------------------------------------------------------------
(* Theorems.                                                                 *)

\* What holds of any runs.
THEOREM BaseInvariance == Spec => []Base
<1>1. ASSUME Base, [Next]_vars PROVE Base' BY <1>1, BaseStep
<1> QED BY <1>1, InitBase, PTL DEF Spec

\* Every variable has its type, also where runs share projects.
THEOREM SweepTypes == Spec => []TypeOK
<1>1. ASSUME Base PROVE TypeOK
  <2>1. \A r \in Runs, p \in Projects : seen[r][p] \subseteq Times
    BY <1>1 DEF Base, Types
  <2>2. \A r \in Runs : stale[r] \subseteq Projects /\ down[r] \in Projects \cup {None}
    BY <1>1 DEF Base, Types
  <2> QED BY <1>1, <2>1, <2>2 DEF Base, Types, TypeOK, Stages, Kinds
<1> QED BY <1>1, BaseInvariance, PTL

\* Where docker does not fail, a sweep that is done has left no project of which
\* everything was old when it began, whatever was made and removed meanwhile and
\* whether or not runs share projects.
THEOREM SweepLeavesNothingOld == Spec => SweepCollects
<1>1. ASSUME Base, SeesInv, [Next]_vars PROVE SeesInv' BY <1>1, SeesStep
<1>2. ASSUME SeesInv, NEW r \in Runs, dockerFails = {}, SweepDone(r), NEW p \in Projects \ {Own(r)},
             \E k \in Kinds : Exists(p, k)
      PROVE  \E k \in Kinds : Exists(p, k) /\ begun[r] - made[p][k] < MaxAge
  <2>1. Judged(r, p) BY <1>2 DEF SeesInv, Sees
  <2>2. Fresh(r, p) BY <1>2, <2>1 DEF SweepDone, Go, Judged
  <2> QED BY <1>2, <2>2 DEF Fresh
<1>3. ASSUME SeesInv
      PROVE  [\A r \in Runs : dockerFails = {} /\ SweepDone(r) =>
                \A p \in Projects \ {Own(r)} :
                    (\E k \in Kinds : Exists(p, k)) =>
                        \E k \in Kinds : Exists(p, k) /\ begun[r] - made[p][k] < MaxAge]_vars
  BY <1>2, <1>3
<1> QED BY <1>1, <1>3, InitSees, BaseInvariance, PTL DEF Spec, SweepCollects

\* What a sweep has looked at and condemned, of any runs and projects.
THEOREM SpareInvariance == Spec => []SpareInv
<1>1. ASSUME Base, SpareInv, [Next]_vars PROVE SpareInv' BY <1>1, SpareStep
<1> QED BY <1>1, InitSpare, BaseInvariance, PTL DEF Spec

\* Where no listing fails, whatever else does, a sweep takes away nothing that is young
\* but what was made since the sweep began, and nothing of its own run's project:
\* whether runs share projects, or one goes on with what another has left behind.
THEOREM YoungSpared == Spec => SparesYoung
<1>1. ASSUME Base, SpareInv, "list" \notin dockerFails, NEW r \in Runs, NEW p \in Projects,
             TearsDown(r, p)
      PROVE  /\ p # Own(r)
             /\ \A k \in Kinds : Exists(p, k) =>
                   now - made[p][k] >= MaxAge \/ made[p][k] >= begun[r]
  <2>1. p \in stale[r] /\ stage[r] \in {"teardown", "orphans"}
    BY <1>1, DownBase, OrphansBase DEF TearsDown
  <2>2. p # Own(r) BY <1>1, <2>1 DEF SpareInv, OwnApart
  <2>3. Doomed(r, p) BY <1>1, <2>2 DEF SpareInv
  <2> QED BY <2>1, <2>2, <2>3 DEF Doomed
<1>2. ASSUME Base, SpareInv
      PROVE  [\A r \in Runs, p \in Projects : TearsDown(r, p) /\ "list" \notin dockerFails =>
                 /\ p # Own(r)
                 /\ \A k \in Kinds : Exists(p, k) =>
                       now - made[p][k] >= MaxAge \/ made[p][k] >= begun[r]]_vars
  BY <1>1, <1>2
<1> QED BY <1>2, SpareInvariance, BaseInvariance, PTL DEF Spec, SparesYoung

=============================================================================
