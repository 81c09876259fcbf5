------------------------- MODULE InstanceBatchProofs -------------------------
(***************************************************************************)
(* Proofs about InstanceBatch, for any number of instances and workers.    *)
(***************************************************************************)
EXTENDS InstanceBatch, FiniteSetTheorems, TLAPS

-----------------------------------------------------------------------------
(* The inductive invariant.                                                  *)

Phases == {"run", "drain", "down", "write", "exit", "killed"}
Stages == {"waiting", "up", "returned", "raised"}
Rows == [instance : Instances, result : {"returned", "runtime-error"}, tokens : Nat]
Spenders == {i \in Instances : spent[i] = 1}

Types ==
    /\ shared \in BOOLEAN /\ teardown \in BOOLEAN /\ failed \in BOOLEAN
    /\ phase \in Phases
    /\ stage \in [Instances -> Stages]
    /\ seen \in Seq(Instances)
    /\ up \subseteq 0 .. N
    /\ totals \in [0 .. N -> Nat] /\ spent \in [Instances -> {0, 1}]
    /\ charge \in [Instances -> 0 .. N]
    /\ rows \in Seq(Rows)

\* A proxy has counted no more than all agents have used.
TotalsBounded == \A s \in 0 .. N : totals[s] <= Cardinality(Spenders)

\* Results are taken of instances that have returned, each once, and of all of
\* them unless the batch has raised.
Taken ==
    /\ \A i \in ToSet(seen) : stage[i] = "returned"
    /\ \A j, k \in DOMAIN seen : seen[j] = seen[k] => j = k
    /\ phase = "drain" => failed
    /\ phase \in {"down", "write", "exit"} => failed \/ ToSet(seen) = Instances

\* Rows are written after the batch, one for each instance.
Written ==
    /\ phase \in {"run", "drain", "down"} => rows = <<>>
    /\ phase = "write" => Len(rows) < N
    /\ Len(rows) <= N

BatchInv ==
    /\ Types /\ TotalsBounded /\ Taken /\ Written
    /\ RowsFollowPlan /\ QuietWhenOver

-----------------------------------------------------------------------------
(* Facts.                                                                    *)

LEMMA SetOfAppend ==
  ASSUME NEW S, NEW s \in Seq(S), NEW x \in S
  PROVE  ToSet(Append(s, x)) = ToSet(s) \cup {x}
<1>1. ToSet(Append(s, x)) \subseteq ToSet(s) \cup {x} BY DEF ToSet
<1>2. ToSet(s) \subseteq ToSet(Append(s, x)) BY DEF ToSet
<1>3. Append(s, x)[Len(s) + 1] = x /\ Len(s) + 1 \in DOMAIN Append(s, x) OBVIOUS
<1> QED BY <1>1, <1>2, <1>3 DEF ToSet

LEMMA Numbers == N \in Nat /\ N >= 1 /\ Instances \subseteq 1 .. N /\ 1 .. N \subseteq Instances
  BY BatchAssumption DEF Instances

\* All agents together use the model no more often than there are instances.
LEMMA SpendersBounded ==
  ASSUME NEW T \in SUBSET Instances
  PROVE  IsFiniteSet(T) /\ Cardinality(T) \in 0 .. N
<1>1. IsFiniteSet(1 .. N) /\ Cardinality(1 .. N) = N BY Numbers, FS_Interval
<1>2. T \in SUBSET (1 .. N) BY Numbers
<1>3. IsFiniteSet(T) /\ Cardinality(T) <= N BY <1>1, <1>2, FS_Subset
<1>4. Cardinality(T) \in Nat BY <1>3, FS_CardinalityType
<1> QED BY <1>3, <1>4, Numbers

\* A sequence without repetitions is no longer than the set of its elements.
LEMMA NoLonger ==
  ASSUME NEW s \in Seq(Instances), \A j, k \in DOMAIN s : s[j] = s[k] => j = k
  PROVE  Len(s) <= N
<1> SUFFICES ASSUME Len(s) > N PROVE FALSE BY Numbers
<1> DEFINE n == Len(s)
<1>1. n \in Int /\ s \in [1 .. n -> Instances] /\ n > N /\ DOMAIN s = 1 .. n OBVIOUS
<1> HIDE DEF n
<1>2. IsFiniteSet(1 .. n) /\ Cardinality(1 .. n) = n
  <2>1. Cardinality(1 .. n) = IF 1 > n THEN 0 ELSE n - 1 + 1 BY <1>1, FS_Interval
  <2> QED BY <1>1, <2>1, FS_Interval, Numbers
<1>3. IsFiniteSet(Instances) /\ Cardinality(Instances) \in 0 .. N BY SpendersBounded
<1>4. Cardinality(Instances) < Cardinality(1 .. n) BY <1>1, <1>2, <1>3, Numbers
<1>5. \E j, k \in 1 .. n : j # k /\ s[j] = s[k] BY <1>1, <1>2, <1>3, <1>4, FS_PigeonHole
<1> QED BY <1>1, <1>5

LEMMA StackInRange ==
  ASSUME NEW i \in Instances, shared \in BOOLEAN
  PROVE  Stack(i) \in 0 .. N
BY Numbers DEF Stack

-----------------------------------------------------------------------------
(* One lemma for the initial state and one for each action.                  *)

LEMMA InitBatch == Init => BatchInv
<1> SUFFICES ASSUME Init PROVE BatchInv OBVIOUS
<1>1. Types
  <2>1. /\ shared \in BOOLEAN /\ teardown \in BOOLEAN /\ failed \in BOOLEAN
        /\ phase \in Phases /\ up \subseteq 0 .. N
    BY DEF Init, Phases
  <2>2. stage \in [Instances -> Stages] BY DEF Init, Stages
  <2>3. seen \in Seq(Instances) /\ rows \in Seq(Rows) BY DEF Init
  <2>4. totals \in [0 .. N -> Nat] /\ spent \in [Instances -> {0, 1}] BY DEF Init
  <2>5. charge \in [Instances -> 0 .. N] BY Numbers DEF Init
  <2> QED BY <2>1, <2>2, <2>3, <2>4, <2>5 DEF Types
<1>2. TotalsBounded
  <2>1. Cardinality(Spenders) \in 0 .. N BY SpendersBounded DEF Spenders
  <2> QED BY <2>1, Numbers DEF TotalsBounded, Init
<1>3. Taken BY DEF Taken, ToSet, Init
<1>4. Written BY Numbers DEF Written, Init
<1>5. RowsFollowPlan /\ QuietWhenOver BY DEF RowsFollowPlan, QuietWhenOver, Init
<1> QED BY <1>1, <1>2, <1>3, <1>4, <1>5 DEF BatchInv

LEMMA StartBatch ==
  ASSUME BatchInv, NEW i \in Instances, Start(i) PROVE BatchInv'
<1> USE DEF BatchInv, options
<1>1. Types' BY StackInRange DEF Types, Start, Is, Stages
<1>2. TotalsBounded' BY DEF TotalsBounded, Start, Spenders
<1>3. Taken'
  <2>1. stage[i] = "waiting" /\ i \notin ToSet(seen) BY DEF Taken, Start, Is
  <2>2. ToSet(seen) \subseteq Instances BY DEF Types, ToSet
  <2>3. \A j \in ToSet(seen) : stage'[j] = "returned"
    BY <2>1, <2>2 DEF Types, Taken, Start
  <2> QED BY <2>3 DEF Taken, Start
<1>4. Written' /\ RowsFollowPlan' /\ QuietWhenOver'
  BY DEF Written, RowsFollowPlan, QuietWhenOver, Start
<1> QED BY <1>1, <1>2, <1>3, <1>4

LEMMA WorkBatch ==
  ASSUME BatchInv, NEW i \in Instances, Work(i) PROVE BatchInv'
<1> USE DEF BatchInv, options
<1>1. Types' BY StackInRange DEF Types, Work
<1>2. TotalsBounded'
  <2>1. i \notin Spenders /\ Spenders' = Spenders \cup {i}
    BY DEF Types, Work, Spenders
  <2>2. IsFiniteSet(Spenders) /\ Cardinality(Spenders) \in 0 .. N
    BY SpendersBounded DEF Spenders
  <2>3. Cardinality(Spenders') = Cardinality(Spenders) + 1
    BY <2>1, <2>2, FS_AddElement
  <2>4. ASSUME NEW s \in 0 .. N PROVE totals'[s] <= totals[s] + 1 /\ totals[s] \in Nat
    BY DEF Types, Work
  <2>5. \A s \in 0 .. N : totals[s] <= Cardinality(Spenders) BY DEF TotalsBounded
  <2>6. totals' \in [0 .. N -> Nat] BY <1>1 DEF Types
  <2>7. ASSUME NEW s \in 0 .. N PROVE totals'[s] <= Cardinality(Spenders')
    BY <2>2, <2>3, <2>4, <2>5, <2>6, Numbers, SMTT(30)
  <2> QED BY <2>7 DEF TotalsBounded
<1>3. Taken' BY DEF Taken, Work
<1>4. Written' /\ RowsFollowPlan' /\ QuietWhenOver'
  BY DEF Written, RowsFollowPlan, QuietWhenOver, Work, Is
<1> QED BY <1>1, <1>2, <1>3, <1>4

\* A stack that goes takes nothing along but its totals.
LEMMA DownBatch ==
  ASSUME Types, TotalsBounded, NEW s \in 0 .. N, Down(s), UNCHANGED <<shared, spent>>
  PROVE  /\ up' \subseteq up /\ up' \subseteq 0 .. N
         /\ totals' \in [0 .. N -> Nat]
         /\ TotalsBounded'
<1>1. Cardinality(Spenders) \in 0 .. N BY SpendersBounded DEF Spenders
<1>2. up' \subseteq up /\ up' \subseteq 0 .. N BY DEF Types, Down
<1>3. totals' \in [0 .. N -> Nat] BY DEF Types, Down
<1>4. ASSUME NEW t \in 0 .. N PROVE totals'[t] <= Cardinality(Spenders)
  BY <1>1, Numbers DEF Types, TotalsBounded, Down
<1>5. TotalsBounded' BY <1>4 DEF TotalsBounded, Spenders
<1> QED BY <1>2, <1>3, <1>5

\* An instance that is through neither touches the results taken nor the rows.
LEMMA ThroughBatch ==
  ASSUME BatchInv, NEW i \in Instances, stage[i] = "up", phase # "killed",
         NEW r \in {"returned", "raised"}, stage' = [stage EXCEPT ![i] = r],
         UNCHANGED <<options, phase, seen, failed, spent, rows>>,
         charge' \in [Instances -> 0 .. N], \A j \in Instances : j # i => charge'[j] = charge[j],
         \/ UNCHANGED <<up, totals>>
         \/ Down(Stack(i))
  PROVE  BatchInv'
<1> USE DEF BatchInv, options
<1>1. phase \in {"run", "drain"} /\ rows = <<>>
  BY DEF QuietWhenOver, Types, Phases, Is, Written
<1>2. up' \subseteq up /\ up' \subseteq 0 .. N /\ totals' \in [0 .. N -> Nat]
      /\ TotalsBounded'
  <2>1. CASE UNCHANGED <<up, totals>> BY <2>1 DEF Types, TotalsBounded, Spenders
  <2>2. CASE Down(Stack(i))
    <3>1. Stack(i) \in 0 .. N BY StackInRange DEF Types
    <3> QED BY <2>2, <3>1, DownBatch
  <2> QED BY <2>1, <2>2
<1>3. Types' BY <1>2 DEF Types, Stages
<1>4. Taken' BY <1>1 DEF Types, Taken
<1>5. Written' BY DEF Written
<1>6. RowsFollowPlan' BY <1>1 DEF RowsFollowPlan
<1>7. QuietWhenOver' BY <1>1 DEF QuietWhenOver
<1> QED BY <1>2, <1>3, <1>4, <1>5, <1>6, <1>7

LEMMA EndBatch ==
  ASSUME BatchInv, NEW i \in Instances, End(i) PROVE BatchInv'
<1>1. totals[Stack(i)] \in 0 .. N
  <2>1. Cardinality(Spenders) \in 0 .. N BY SpendersBounded DEF Spenders
  <2>2. Stack(i) \in 0 .. N BY StackInRange DEF BatchInv, Types
  <2> QED BY <2>1, <2>2, Numbers DEF BatchInv, Types, TotalsBounded
<1>2. charge' \in [Instances -> 0 .. N] /\ \A j \in Instances : j # i => charge'[j] = charge[j]
  BY <1>1 DEF BatchInv, Types, End
<1>3. UNCHANGED <<up, totals>> \/ Down(Stack(i)) BY DEF End
<1> QED BY <1>2, <1>3, ThroughBatch DEF End

LEMMA RaiseBatch ==
  ASSUME BatchInv, NEW i \in Instances, Raise(i) PROVE BatchInv'
<1>1. charge' \in [Instances -> 0 .. N] /\ \A j \in Instances : j # i => charge'[j] = charge[j]
  BY DEF BatchInv, Types, Raise
<1>2. UNCHANGED <<up, totals>> \/ Down(Stack(i)) BY DEF Raise
<1> QED BY <1>1, <1>2, ThroughBatch DEF Raise

LEMMA TakeBatch ==
  ASSUME BatchInv, NEW i \in Instances, Take(i) PROVE BatchInv'
<1> USE DEF BatchInv, options
<1>1. Types'
  <2>1. seen' \in Seq(Instances)
    <3>1. seen' = Append(seen, i) \/ seen' = seen BY DEF Take
    <3>2. seen \in Seq(Instances) BY DEF Types
    <3> QED BY <3>1, <3>2
  <2>2. failed' \in BOOLEAN /\ phase' \in Phases BY DEF Types, Take, Phases
  <2> QED BY <2>1, <2>2 DEF Types, Take
<1>2. TotalsBounded' BY DEF TotalsBounded, Take, Spenders
<1>3. Taken'
  <2>1. CASE stage[i] = "returned" /\ seen' = Append(seen, i) /\ UNCHANGED <<phase, failed>>
    <3>1. ToSet(seen') = ToSet(seen) \cup {i} BY <2>1, SetOfAppend DEF Types
    <3>2. \A j \in ToSet(seen') : stage'[j] = "returned" BY <2>1, <3>1 DEF Taken, Take
    <3>3. ASSUME NEW j \in DOMAIN seen', NEW k \in DOMAIN seen', seen'[j] = seen'[k]
          PROVE  j = k
      <4>1. \A m \in DOMAIN seen : seen[m] # i BY DEF Take, ToSet
      <4> QED BY <2>1, <3>3, <4>1, SMTT(30) DEF Types, Taken
    <3> QED BY <2>1, <3>2, <3>3 DEF Taken, Take
  <2>2. CASE stage[i] = "raised" /\ failed' = TRUE /\ phase' = "drain" /\ UNCHANGED seen
    BY <2>2 DEF Taken, Take
  <2> QED BY <2>1, <2>2 DEF Take
<1>4. Written' /\ RowsFollowPlan' BY DEF Written, RowsFollowPlan, Take
<1>5. QuietWhenOver' BY DEF QuietWhenOver, Take
<1> QED BY <1>1, <1>2, <1>3, <1>4, <1>5

LEMMA LeavePoolBatch ==
  ASSUME BatchInv, LeavePool PROVE BatchInv'
<1> USE DEF BatchInv, options
<1>1. Types' BY DEF Types, LeavePool, Phases
<1>2. TotalsBounded' BY DEF TotalsBounded, LeavePool, Spenders
<1>3. Taken' /\ Written' /\ RowsFollowPlan' BY DEF Taken, Written, RowsFollowPlan, LeavePool
<1>4. QuietWhenOver' BY DEF QuietWhenOver, LeavePool, Is
<1> QED BY <1>1, <1>2, <1>3, <1>4

LEMMA TearDownBatch ==
  ASSUME BatchInv, TearDown PROVE BatchInv'
<1> USE DEF BatchInv, options
<1>1. 0 \in 0 .. N BY Numbers
<1>2. up' \subseteq up /\ up' \subseteq 0 .. N /\ totals' \in [0 .. N -> Nat]
      /\ TotalsBounded'
  <2>1. CASE Down(0) BY <2>1, <1>1, DownBatch DEF TearDown
  <2>2. CASE UNCHANGED <<up, totals>>
    BY <2>2 DEF TearDown, Types, TotalsBounded, Spenders
  <2> QED BY <2>1, <2>2 DEF TearDown
<1>3. Types' BY <1>2 DEF Types, TearDown, Phases
<1>4. Taken' /\ RowsFollowPlan' /\ QuietWhenOver'
  BY DEF Taken, RowsFollowPlan, QuietWhenOver, TearDown, Is
<1>5. Written' BY Numbers DEF Written, TearDown
<1> QED BY <1>2, <1>3, <1>4, <1>5

LEMMA WriteBatch ==
  ASSUME BatchInv, Write PROVE BatchInv'
<1> USE DEF BatchInv, options
<1> DEFINE k == Len(rows) + 1
<1>1. rows \in Seq(Rows) /\ phase = "write" /\ k \in Instances /\ k <= N
  BY Numbers DEF Types, Write, Written
<1>2. Row(k) \in Rows /\ Row(k).instance = k
      /\ (Row(k).result = "returned" => stage[k] = "returned" /\ Row(k).tokens = charge[k])
  <2>1. CASE failed BY <2>1, <1>1 DEF Row, RowOf, Rows
  <2>2. CASE ~failed
    <3>1. stage[k] = "returned" BY <2>2, <1>1 DEF Taken
    <3>2. charge[k] \in Nat BY <1>1, Numbers DEF Types
    <3> QED BY <2>2, <3>1, <3>2, <1>1 DEF Row, RowOf, Rows
  <2> QED BY <2>1, <2>2
<1>3. rows' = Append(rows, Row(k)) /\ rows' \in Seq(Rows) /\ Len(rows') = k
      /\ \A j \in DOMAIN rows : rows'[j] = rows[j]
  BY <1>1, <1>2 DEF Write
<1>4. rows'[k] = Row(k) /\ \A j \in DOMAIN rows' : j \in DOMAIN rows \/ j = k
  BY <1>1, <1>3
<1>5. phase' \in {"write", "exit"} /\ (phase' = "write" => k # N) BY DEF Write
<1> HIDE DEF k
<1>6. Types' BY <1>3, <1>5 DEF Types, Write, Phases
<1>7. TotalsBounded' BY DEF TotalsBounded, Write, Spenders
<1>8. Taken' BY <1>1, <1>5 DEF Taken, Write
<1>9. Written' BY <1>1, <1>3, <1>5, Numbers DEF Written
<1>10. RowsFollowPlan' BY <1>2, <1>3, <1>4 DEF RowsFollowPlan, Write
<1>11. QuietWhenOver'
  BY <1>1, <1>5 DEF QuietWhenOver, Write, Is
<1> QED BY <1>6, <1>7, <1>8, <1>9, <1>10, <1>11

LEMMA KillBatch ==
  ASSUME BatchInv, Kill \/ UNCHANGED vars PROVE BatchInv'
<1> USE DEF BatchInv, options, vars
<1>1. Types' BY DEF Types, Kill, Phases
<1>2. TotalsBounded' BY DEF TotalsBounded, Kill, Spenders
<1>3. Taken' /\ Written' /\ RowsFollowPlan' BY DEF Taken, Written, RowsFollowPlan, Kill
<1>4. QuietWhenOver' BY DEF QuietWhenOver, Kill, Is
<1> QED BY <1>1, <1>2, <1>3, <1>4

-----------------------------------------------------------------------------
(* What is charged adds up.                                                  *)

\* An instance that waits has cost nothing, nor has its stack counted anything.
Untouched == \A i \in Is("waiting") : spent[i] = 0 /\ (~shared => totals[i] = 0)

\* A stack of its own counts for its instance alone.
OwnTotals == ~shared => \A i \in Is("up") : totals[i] = spent[i]

\* With a shared stack the instances come one after the other: all before the one
\* that is up have returned, all after it wait.
InTurn ==
    shared => \A i, j \in Instances :
        /\ stage[i] \in {"waiting", "up"} /\ i < j => stage[j] = "waiting"
        /\ stage[i] = "up" /\ j < i => stage[j] = "returned"

\* While the batch runs, a kept shared stack has counted all that was used, and
\* one that goes with each instance what the present one has.
SharedTotals ==
    shared /\ phase \in {"run", "drain"} =>
        IF KeepStack THEN totals[0] = Sum(Instances)
        ELSE /\ \A i \in Is("up") : totals[0] = spent[i]
             /\ Is("up") \cup Is("raised") = {} => totals[0] = 0

ChargeInv == Untouched /\ OwnTotals /\ InTurn /\ SharedTotals /\ ChargesAddUp

\* Only what the instances themselves have spent counts.
LEMMA SumOfSame ==
  ASSUME NEW is, NEW js, \A i : i \in is /\ spent'[i] = 1 <=> i \in js /\ spent[i] = 1
  PROVE  Sum(is)' = Sum(js)
<1>1. {i \in is : spent'[i] = 1} = {i \in js : spent[i] = 1} OBVIOUS
<1> QED BY <1>1 DEF Sum

LEMMA InitCharge == Init => ChargeInv
<1> SUFFICES ASSUME Init PROVE ChargeInv OBVIOUS
<1>1. \A i \in Instances : stage[i] = "waiting" /\ spent[i] = 0 /\ totals[i] = 0 /\ totals[0] = 0
  BY Numbers DEF Init
<1>2. Sum(Instances) = 0
  <2>1. {i \in Instances : spent[i] = 1} = {} BY <1>1
  <2> QED BY <2>1, FS_EmptySet DEF Sum
<1>3. Untouched /\ OwnTotals /\ InTurn /\ ChargesAddUp
  BY <1>1 DEF Untouched, OwnTotals, InTurn, ChargesAddUp, Is
<1>4. totals[0] = 0 BY Numbers DEF Init
<1>5. SharedTotals BY <1>1, <1>2, <1>4 DEF SharedTotals, Is
<1> QED BY <1>3, <1>5 DEF ChargeInv

LEMMA StartCharge ==
  ASSUME BatchInv, ChargeInv, NEW i \in Instances, Start(i) PROVE ChargeInv'
<1> USE DEF ChargeInv, options
<1>1. /\ stage \in [Instances -> Stages] /\ stage[i] = "waiting" /\ phase \in {"run", "drain"}
      /\ \A j \in Instances : stage[j] = "waiting" => i <= j
      /\ shared \in BOOLEAN
      /\ stage'[i] \in {"up", "raised"} /\ \A j \in Instances : j # i => stage'[j] = stage[j]
      /\ UNCHANGED <<shared, keep, phase, totals, spent, charge>>
  BY DEF BatchInv, Types, Start, Is
<1>2. shared => \A j \in Instances : stage[j] \in {"waiting", "returned"}
  <2>1. SUFFICES ASSUME shared PROVE Is("up") = {} /\ Is("raised") = {}
    BY <1>1 DEF Is, Stages
  <2>2. Workers = 1 BY <2>1 DEF Workers
  <2>3. IsFiniteSet(Is("up")) /\ Cardinality(Is("up")) \in Nat BY SpendersBounded DEF Is
  <2>4. Cardinality(Is("up")) = 0 BY <2>2, <2>3 DEF Start
  <2> QED BY <2>2, <2>3, <2>4, FS_EmptySet DEF Start
<1>3. Untouched' /\ OwnTotals' /\ ChargesAddUp'
  BY <1>1 DEF Untouched, OwnTotals, ChargesAddUp, Is, KeepStack, Sum
<1>4. InTurn' BY <1>1, <1>2, Numbers DEF InTurn
<1>5. SharedTotals'
  <2>1. SUFFICES ASSUME shared PROVE SharedTotals' BY <1>1 DEF SharedTotals
  <2>2. Is("up") \cup Is("raised") = {} /\ spent[i] = 0
    BY <1>1, <1>2, <2>1 DEF Is, Untouched
  <2>3. \A j \in Instances : stage'[j] = "up" => j = i BY <1>1, <1>2, <2>1
  <2>4. i \in Is("up")' \cup Is("raised")' BY <1>1 DEF Is
  <2>5. (Sum(Instances) = totals[0])' <=> Sum(Instances) = totals[0] BY <1>1 DEF Sum
  <2>6. KeepStack' <=> KeepStack BY <1>1 DEF KeepStack
  <2>7. CASE KeepStack BY <1>1, <2>1, <2>5, <2>6, <2>7 DEF SharedTotals
  <2>8. CASE ~KeepStack
    <3>1. totals[0] = 0 BY <1>1, <2>1, <2>2, <2>8 DEF SharedTotals
    <3>2. \A j \in Is("up")' : totals'[0] = spent'[j] BY <1>1, <2>2, <2>3, <3>1 DEF Is
    <3> QED BY <2>4, <2>6, <2>8, <3>2 DEF SharedTotals
  <2> QED BY <2>7, <2>8
<1> QED BY <1>3, <1>4, <1>5

\* While an instance is up the pool has not been left.
LEMMA UpWhileRunning ==
  ASSUME BatchInv, NEW i \in Instances, stage[i] = "up", phase # "killed"
  PROVE  phase \in {"run", "drain"}
BY DEF BatchInv, QuietWhenOver, Types, Phases, Is

\* One instance at most is up on a shared stack.
LEMMA OneUp ==
  ASSUME InTurn, shared, NEW i \in Instances, stage[i] = "up"
  PROVE  \A j \in Instances : stage[j] = "up" => j = i
BY Numbers DEF InTurn

LEMMA WorkCharge ==
  ASSUME BatchInv, ChargeInv, NEW i \in Instances, Work(i) PROVE ChargeInv'
<1> USE DEF ChargeInv, options
<1>1. /\ stage \in [Instances -> Stages] /\ stage[i] = "up" /\ phase \in {"run", "drain"}
      /\ shared \in BOOLEAN
      /\ totals \in [0 .. N -> Nat] /\ Stack(i) \in 0 .. N
      /\ totals' = [totals EXCEPT ![Stack(i)] = @ + 1]
      /\ spent \in [Instances -> {0, 1}] /\ spent[i] = 0 /\ spent' = [spent EXCEPT ![i] = 1]
      /\ UNCHANGED <<shared, keep, phase, stage, charge>>
  BY UpWhileRunning, StackInRange DEF BatchInv, Types, Work
<1>2. \A j \in Instances : j \in 0 .. N BY Numbers
<1>3. Untouched' BY <1>1, <1>2, Numbers DEF Untouched, Is, Stack
<1>4. OwnTotals' BY <1>1, <1>2, Numbers DEF OwnTotals, Is, Stack
<1>5. InTurn' BY <1>1 DEF InTurn
<1>6. shared => \A j \in Instances : stage[j] = "up" => j = i BY <1>1, OneUp
<1>7. SharedTotals'
  <2>1. SUFFICES ASSUME shared PROVE SharedTotals' BY <1>1 DEF SharedTotals
  <2>2. totals'[0] = totals[0] + 1 /\ KeepStack' = KeepStack
    BY <1>1, <2>1, Numbers DEF Stack, KeepStack
  <2>3. CASE KeepStack
    <3> DEFINE A == {j \in Instances : spent[j] = 1}
    <3>1. IsFiniteSet(A) /\ Cardinality(A) \in Nat BY SpendersBounded
    <3>2. i \notin A /\ {j \in Instances : spent'[j] = 1} = A \cup {i} BY <1>1
    <3>3. Cardinality(A \cup {i}) = Cardinality(A) + 1 BY <3>1, <3>2, FS_AddElement
    <3>4. Sum(Instances)' = Sum(Instances) + 1 BY <3>2, <3>3 DEF Sum, Instances
    <3> QED BY <1>1, <2>1, <2>2, <2>3, <3>4 DEF SharedTotals
  <2>4. CASE ~KeepStack
    <3>1. totals[0] = 0 BY <1>1, <2>1, <2>4 DEF SharedTotals, Is
    <3>2. \A j \in Is("up")' : totals'[0] = spent'[j]
      BY <1>1, <1>6, <2>1, <2>2, <3>1 DEF Is
    <3>3. i \in Is("up")' BY <1>1 DEF Is
    <3> QED BY <2>2, <2>4, <3>2, <3>3 DEF SharedTotals
  <2> QED BY <2>3, <2>4
<1>8. ChargesAddUp'
  <2>1. SUFFICES ASSUME NEW j \in Instances, stage[j] = "returned"
                 PROVE  charge[j] = IF shared /\ KeepStack THEN Sum(1 .. j)' ELSE spent'[j]
    BY <1>1 DEF ChargesAddUp, Is, KeepStack
  <2>2. j # i /\ spent'[j] = spent[j] BY <1>1, <2>1
  <2>3. charge[j] = IF shared /\ KeepStack THEN Sum(1 .. j) ELSE spent[j]
    BY <2>1 DEF ChargesAddUp, Is
  <2>4. ASSUME shared PROVE Sum(1 .. j)' = Sum(1 .. j)
    <3>1. j < i BY <1>1, <2>1, <2>2, <2>4, Numbers DEF InTurn
    <3>2. \A k \in 1 .. j : k \in Instances /\ spent'[k] = spent[k]
      BY <1>1, <3>1, Numbers
    <3> QED BY <3>2, SumOfSame
  <2> QED BY <2>2, <2>3, <2>4
<1> QED BY <1>3, <1>4, <1>5, <1>7, <1>8

LEMMA EndCharge ==
  ASSUME BatchInv, ChargeInv, NEW i \in Instances, End(i) PROVE ChargeInv'
<1> USE DEF ChargeInv, options
<1>1. /\ stage \in [Instances -> Stages] /\ stage[i] = "up" /\ phase \in {"run", "drain"}
      /\ shared \in BOOLEAN
      /\ totals \in [0 .. N -> Nat] /\ Stack(i) \in 0 .. N
      /\ spent \in [Instances -> {0, 1}]
      /\ charge \in [Instances -> 0 .. N]
      /\ charge' = [charge EXCEPT ![i] = totals[Stack(i)]]
      /\ stage'[i] = "returned" /\ \A j \in Instances : j # i => stage'[j] = stage[j]
      /\ totals' = IF KeepStack THEN totals ELSE [totals EXCEPT ![Stack(i)] = 0]
      /\ UNCHANGED <<shared, keep, phase, spent>>
  BY UpWhileRunning, StackInRange DEF BatchInv, Types, End, Down
<1>2. KeepStack' = KeepStack BY <1>1 DEF KeepStack
<1>3. Untouched' /\ OwnTotals'
  <2>1. ASSUME NEW j \in Instances, j # i, ~shared PROVE totals'[j] = totals[j]
    BY <1>1, <2>1, Numbers DEF Stack
  <2> QED BY <1>1, <2>1 DEF Untouched, OwnTotals, Is
<1>4. InTurn'
  <2>1. ASSUME shared, NEW j \in Instances, NEW k \in Instances, stage'[j] \in {"waiting", "up"}
        PROVE  /\ j < k => stage'[k] = "waiting"
               /\ stage'[j] = "up" /\ k < j => stage'[k] = "returned"
    <3>1. j # i /\ stage'[j] = stage[j] BY <1>1, <2>1
    <3>2. CASE k # i BY <1>1, <2>1, <3>1, <3>2 DEF InTurn
    <3>3. CASE k = i BY <1>1, <2>1, <3>1, <3>3 DEF InTurn
    <3> QED BY <3>2, <3>3
  <2> QED BY <1>1, <2>1 DEF InTurn
<1>5. SharedTotals'
  <2>1. SUFFICES ASSUME shared PROVE SharedTotals' BY <1>1 DEF SharedTotals
  <2>2. CASE KeepStack
    <3>1. (totals[0] = Sum(Instances))' BY <1>1, <2>1, <2>2 DEF SharedTotals, Sum
    <3> QED BY <1>2, <2>2, <3>1 DEF SharedTotals
  <2>3. CASE ~KeepStack
    <3>1. totals'[0] = 0 BY <1>1, <2>1, <2>3, Numbers DEF Stack
    <3>2. \A j \in Instances : stage[j] = "up" => j = i BY <1>1, <2>1, OneUp
    <3>3. \A j \in Instances : stage'[j] # "up" BY <1>1, <3>2
    <3> QED BY <1>2, <2>3, <3>1, <3>3 DEF SharedTotals, Is
  <2> QED BY <2>2, <2>3
<1>6. ChargesAddUp'
  <2>1. SUFFICES ASSUME NEW j \in Instances, stage'[j] = "returned"
                 PROVE  charge'[j] = IF shared /\ KeepStack THEN Sum(1 .. j)' ELSE spent[j]
    BY <1>1, <1>2 DEF ChargesAddUp, Is
  <2>2. Sum(1 .. j)' = Sum(1 .. j) BY <1>1 DEF Sum
  <2>3. CASE j # i BY <1>1, <2>1, <2>2, <2>3 DEF ChargesAddUp, Is
  <2>4. CASE j = i
    <3>1. charge'[i] = totals[Stack(i)] BY <1>1
    <3>2. CASE ~shared BY <1>1, <2>4, <3>1, <3>2 DEF OwnTotals, Is, Stack
    <3>3. CASE shared /\ ~KeepStack BY <1>1, <2>4, <3>1, <3>3 DEF SharedTotals, Is, Stack
    <3>4. CASE shared /\ KeepStack
      <4>1. totals[Stack(i)] = Sum(Instances) BY <1>1, <3>4 DEF SharedTotals, Stack
      <4>2. \A k \in Instances : i < k => spent[k] = 0
        BY <1>1, <3>4 DEF InTurn, Untouched, Is
      <4>3. {k \in Instances : spent[k] = 1} = {k \in 1 .. i : spent[k] = 1}
        <5>1. \A k \in Instances : i < k \/ k \in 1 .. i BY Numbers
        <5>2. \A k \in 1 .. i : k \in Instances BY Numbers
        <5> QED BY <4>2, <5>1, <5>2
      <4> QED BY <2>2, <2>4, <3>1, <3>4, <4>1, <4>3 DEF Sum
    <3> QED BY <3>2, <3>3, <3>4
  <2> QED BY <2>3, <2>4
<1> QED BY <1>3, <1>4, <1>5, <1>6

LEMMA RaiseCharge ==
  ASSUME BatchInv, ChargeInv, NEW i \in Instances, Raise(i) PROVE ChargeInv'
<1> USE DEF ChargeInv, options
<1>1. /\ stage \in [Instances -> Stages] /\ stage[i] = "up" /\ phase \in {"run", "drain"}
      /\ shared \in BOOLEAN
      /\ totals \in [0 .. N -> Nat] /\ Stack(i) \in 0 .. N
      /\ stage'[i] = "raised" /\ \A j \in Instances : j # i => stage'[j] = stage[j]
      /\ totals' = totals \/ (~KeepStack /\ totals' = [totals EXCEPT ![Stack(i)] = 0])
      /\ UNCHANGED <<shared, keep, phase, spent, charge>>
  BY UpWhileRunning, StackInRange DEF BatchInv, Types, Raise, Down
<1>2. KeepStack' = KeepStack BY <1>1 DEF KeepStack
<1>3. Untouched' /\ OwnTotals' BY <1>1, Numbers DEF Untouched, OwnTotals, Is, Stack
<1>4. InTurn' BY <1>1, Numbers DEF InTurn
<1>5. SharedTotals'
  <2>1. SUFFICES ASSUME shared PROVE SharedTotals' BY <1>1 DEF SharedTotals
  <2>2. CASE KeepStack
    <3>1. (totals[0] = Sum(Instances))' BY <1>1, <2>1, <2>2 DEF SharedTotals, Sum
    <3> QED BY <1>2, <2>2, <3>1 DEF SharedTotals
  <2>3. CASE ~KeepStack
    <3>1. \A j \in Instances : stage[j] = "up" => j = i BY <1>1, <2>1, OneUp
    <3>2. i \in Is("raised")' /\ \A j \in Instances : stage'[j] # "up" BY <1>1, <3>1 DEF Is
    <3> QED BY <1>2, <2>3, <3>2 DEF SharedTotals, Is
  <2> QED BY <2>2, <2>3
<1>6. ChargesAddUp' BY <1>1, <1>2 DEF ChargesAddUp, Is, Sum
<1> QED BY <1>3, <1>4, <1>5, <1>6

\* The shared stack is taken down when no instance is up that would be charged.
LEMMA TearDownCharge ==
  ASSUME BatchInv, ChargeInv, TearDown PROVE ChargeInv'
<1> USE DEF ChargeInv, options
<1>1. /\ phase' = "write" /\ shared \in BOOLEAN /\ (~shared => totals' = totals)
      /\ UNCHANGED <<shared, keep, stage, spent, charge>>
  BY DEF BatchInv, Types, TearDown
<1>2. Untouched' /\ OwnTotals' /\ InTurn' /\ SharedTotals'
  BY <1>1 DEF Untouched, OwnTotals, InTurn, SharedTotals, Is
<1>3. ChargesAddUp' BY <1>1 DEF ChargesAddUp, Is, KeepStack, Sum
<1> QED BY <1>2, <1>3

\* Taking results, leaving the pool, writing rows and dying change no totals.
LEMMA OtherCharge ==
  ASSUME ChargeInv, UNCHANGED <<options, stage, totals, spent, charge>>,
         phase' \in {"run", "drain"} => phase \in {"run", "drain"}
  PROVE  ChargeInv'
BY DEF ChargeInv, options, Untouched, OwnTotals, InTurn, SharedTotals, ChargesAddUp,
       Is, KeepStack, Sum

-----------------------------------------------------------------------------
(* Theorems.                                                                 *)

\* The invariant holds of every batch, whatever its size, its options, the order
\* in which its instances end and the one that raises.
THEOREM BatchInvariance == Spec => []BatchInv
<1>1. ASSUME BatchInv, [Next]_vars PROVE BatchInv'
  <2>1. CASE \E i \in Instances : Start(i) \/ Work(i) \/ End(i) \/ Raise(i) \/ Take(i)
    BY <1>1, <2>1, StartBatch, WorkBatch, EndBatch, RaiseBatch, TakeBatch
  <2>2. CASE LeavePool BY <1>1, <2>2, LeavePoolBatch
  <2>3. CASE TearDown BY <1>1, <2>3, TearDownBatch
  <2>4. CASE Write BY <1>1, <2>4, WriteBatch
  <2>5. CASE Kill \/ UNCHANGED vars BY <1>1, <2>5, KillBatch
  <2> QED BY <1>1, <2>1, <2>2, <2>3, <2>4, <2>5 DEF Next
<1> QED BY <1>1, InitBatch, PTL DEF Spec

\* Every variable has its type: results are taken once each, and a proxy counts
\* no more than its instances use.
THEOREM BatchTypes == Spec => []TypeOK
<1>1. ASSUME BatchInv PROVE TypeOK
  <2> USE <1>1 DEF BatchInv
  <2>1. Len(seen) <= N BY NoLonger DEF Types, Taken
  <2>2. totals \in [0 .. N -> 0 .. N]
    <3>1. Cardinality(Spenders) \in 0 .. N BY SpendersBounded DEF Spenders
    <3>2. \A s \in 0 .. N : totals[s] \in 0 .. N
      BY <3>1, Numbers DEF Types, TotalsBounded
    <3> QED BY <3>2 DEF Types
  <2>3. spent \in [Instances -> 0 .. 1] BY DEF Types
  <2> QED BY <2>1, <2>2, <2>3 DEF Types, TypeOK, Phases, Stages, Written
<1> QED BY <1>1, BatchInvariance, PTL

\* The rows written are those of the plan, in its order.
THEOREM RowsAsPlanned == Spec => []RowsFollowPlan
<1>1. BatchInv => RowsFollowPlan BY DEF BatchInv
<1> QED BY <1>1, BatchInvariance, PTL

\* No instance works when the batch is over.
THEOREM NothingWorksAfter == Spec => []QuietWhenOver
<1>1. BatchInv => QuietWhenOver BY DEF BatchInv
<1> QED BY <1>1, BatchInvariance, PTL

\* What is charged adds up: an instance is charged what it used, or, with a kept
\* shared stack, what all up to it did.
THEOREM ChargesAlwaysAddUp == Spec => []ChargesAddUp
<1>1. ASSUME BatchInv, ChargeInv, [Next]_vars PROVE ChargeInv'
  <2>1. CASE \E i \in Instances : Start(i) \/ Work(i) \/ End(i) \/ Raise(i)
    BY <1>1, <2>1, StartCharge, WorkCharge, EndCharge, RaiseCharge
  <2>2. CASE \E i \in Instances : Take(i) BY <1>1, <2>2, OtherCharge DEF Take
  <2>3. CASE LeavePool BY <1>1, <2>3, OtherCharge DEF LeavePool
  <2>4. CASE TearDown BY <1>1, <2>4, TearDownCharge
  <2>5. CASE Write \/ Kill \/ UNCHANGED vars BY <1>1, <2>5, OtherCharge DEF Write, Kill, vars
  <2> QED BY <1>1, <2>1, <2>2, <2>3, <2>4, <2>5 DEF Next
<1>2. ChargeInv => ChargesAddUp BY DEF ChargeInv
<1> QED BY <1>1, <1>2, InitCharge, BatchInvariance, PTL DEF Spec

=============================================================================
