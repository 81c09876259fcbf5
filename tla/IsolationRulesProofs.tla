------------------------ MODULE IsolationRulesProofs ------------------------
(***************************************************************************)
(* Proofs about IsolationRules, for any runs, targets and failures, and    *)
(* for runs that overlap: whose rules are in the chain is settled only     *)
(* where runs follow one another, and where they overlap what is proved is *)
(* which steps can take a rule away.  (TwoRuns shows such a step.)         *)
(***************************************************************************)
EXTENDS IsolationRules, FiniteSetTheorems, SequenceTheorems, WellFoundedInduction, TLAPS

-----------------------------------------------------------------------------
(* Elements of sequences.                                                    *)

\* Two lists in a row, as a list of its own.
LEMMA Concat ==
  ASSUME NEW S, NEW s \in Seq(S), NEW t \in Seq(S), NEW u, u = s \o t
  PROVE  /\ u \in Seq(S) /\ Len(u) = Len(s) + Len(t)
         /\ \A k \in 1 .. Len(s) : u[k] = s[k]
         /\ \A k \in 1 .. Len(t) : u[Len(s) + k] = t[k]
OBVIOUS

LEMMA SetOfNone ==
  /\ ToSet(<<>>) = {}
  /\ \A S : \A s \in Seq(S) : ToSet(s) = {} => s = <<>>
<1>1. ASSUME NEW S, NEW s \in Seq(S), s # <<>> PROVE s[1] \in ToSet(s)
  <2>1. 1 \in DOMAIN s BY <1>1
  <2> QED BY <2>1 DEF ToSet
<1> QED BY <1>1 DEF ToSet

LEMMA SetOfConcat ==
  ASSUME NEW S, NEW s \in Seq(S), NEW t \in Seq(S)
  PROVE  s \o t \in Seq(S) /\ ToSet(s \o t) = ToSet(s) \cup ToSet(t)
<1>1. s \o t \in Seq(S) OBVIOUS
<1>2. ASSUME NEW k \in DOMAIN (s \o t) PROVE (s \o t)[k] \in ToSet(s) \cup ToSet(t)
  <2>1. k \in 1 .. Len(s) \/ k - Len(s) \in 1 .. Len(t) OBVIOUS
  <2>2. CASE k \in 1 .. Len(s) BY <2>2 DEF ToSet
  <2>3. CASE k - Len(s) \in 1 .. Len(t)
    <3>1. (s \o t)[k] = t[k - Len(s)] BY <2>3
    <3> QED BY <2>3, <3>1 DEF ToSet
  <2> QED BY <2>1, <2>2, <2>3
<1>3. ASSUME NEW i \in 1 .. Len(s) PROVE s[i] \in ToSet(s \o t)
  <2>1. i \in DOMAIN (s \o t) /\ (s \o t)[i] = s[i] OBVIOUS
  <2> QED BY <2>1 DEF ToSet
<1>4. ASSUME NEW i \in 1 .. Len(t) PROVE t[i] \in ToSet(s \o t)
  <2>1. Len(s) + i \in DOMAIN (s \o t) /\ (s \o t)[Len(s) + i] = t[i] OBVIOUS
  <2> QED BY <2>1 DEF ToSet
<1>5. ToSet(s \o t) \subseteq ToSet(s) \cup ToSet(t) BY <1>2 DEF ToSet
<1>6. ToSet(s) \subseteq ToSet(s \o t)
  <2>1. DOMAIN s = 1 .. Len(s) OBVIOUS
  <2> SUFFICES ASSUME NEW i \in 1 .. Len(s) PROVE s[i] \in ToSet(s \o t) BY <2>1 DEF ToSet
  <2> QED BY <1>3
<1>7. ToSet(t) \subseteq ToSet(s \o t)
  <2>1. DOMAIN t = 1 .. Len(t) OBVIOUS
  <2> SUFFICES ASSUME NEW i \in 1 .. Len(t) PROVE t[i] \in ToSet(s \o t) BY <2>1 DEF ToSet
  <2> QED BY <1>4
<1> QED BY ONLY <1>1, <1>5, <1>6, <1>7

LEMMA SetOfAppend ==
  ASSUME NEW S, NEW s \in Seq(S), NEW x \in S
  PROVE  Append(s, x) \in Seq(S) /\ ToSet(Append(s, x)) = ToSet(s) \cup {x}
<1>1. Append(s, x) \in Seq(S) OBVIOUS
<1>2. ToSet(Append(s, x)) \subseteq ToSet(s) \cup {x} BY DEF ToSet
<1>3. ToSet(s) \subseteq ToSet(Append(s, x)) BY DEF ToSet
<1>4. Append(s, x)[Len(s) + 1] = x /\ Len(s) + 1 \in DOMAIN Append(s, x) OBVIOUS
<1> QED BY <1>1, <1>2, <1>3, <1>4 DEF ToSet

LEMMA SetOfPrepend ==
  ASSUME NEW S, NEW s \in Seq(S), NEW x \in S
  PROVE  <<x>> \o s \in Seq(S) /\ ToSet(<<x>> \o s) = ToSet(s) \cup {x}
<1> DEFINE one == <<x>>
<1>1. one \in Seq(S) /\ ToSet(one) = {x} BY DEF ToSet
<1> HIDE DEF one
<1>2. one \o s \in Seq(S) /\ ToSet(one \o s) = ToSet(one) \cup ToSet(s) BY <1>1, SetOfConcat
<1> QED BY <1>1, <1>2 DEF one

LEMMA SetOfTail ==
  ASSUME NEW S, NEW s \in Seq(S), s # <<>>
  PROVE  /\ Tail(s) \in Seq(S) /\ Head(s) \in S
         /\ ToSet(s) = {Head(s)} \cup ToSet(Tail(s))
<1>1. Tail(s) \in Seq(S) /\ Head(s) \in S /\ Len(s) >= 1 OBVIOUS
<1>2. ToSet(Tail(s)) \subseteq ToSet(s) BY DEF ToSet
<1>3. Head(s) \in ToSet(s) BY <1>1 DEF ToSet
<1>4. ASSUME NEW i \in 1 .. Len(s) PROVE s[i] \in {Head(s)} \cup ToSet(Tail(s))
  <2>1. CASE i = 1 BY <2>1
  <2>2. CASE i # 1
    <3>1. i - 1 \in DOMAIN Tail(s) /\ Tail(s)[i - 1] = s[i] BY <2>2
    <3> QED BY <3>1 DEF ToSet
  <2> QED BY <2>1, <2>2
<1> QED BY <1>1, <1>2, <1>3, <1>4 DEF ToSet

\* What is removed at a place is what is there, and nothing else goes.
LEMMA SetOfRemoveAt ==
  ASSUME NEW S, NEW s \in Seq(S), NEW i \in DOMAIN s
  PROVE  /\ RemoveAt(s, i) \in Seq(S)
         /\ ToSet(RemoveAt(s, i)) \subseteq ToSet(s)
         /\ ToSet(s) \subseteq ToSet(RemoveAt(s, i)) \cup {s[i]}
<1> DEFINE a == SubSeq(s, 1, i - 1)
           b == SubSeq(s, i + 1, Len(s))
<1>1. i \in 1 .. Len(s) OBVIOUS
<1>2. a \in Seq(S) /\ Len(a) = i - 1 /\ \A k \in 1 .. i - 1 : a[k] = s[k] BY <1>1
<1>3. b \in Seq(S) /\ Len(b) = Len(s) - i /\ \A k \in 1 .. Len(s) - i : b[k] = s[i + k] BY <1>1
<1>4. RemoveAt(s, i) = a \o b BY DEF RemoveAt
<1> HIDE DEF a, b
<1>5. RemoveAt(s, i) \in Seq(S) /\ ToSet(RemoveAt(s, i)) = ToSet(a) \cup ToSet(b)
  BY <1>2, <1>3, <1>4, SetOfConcat
<1>6. ToSet(a) \subseteq ToSet(s) BY <1>1, <1>2 DEF ToSet
<1>7. ToSet(b) \subseteq ToSet(s) BY <1>1, <1>3 DEF ToSet
<1>8. ASSUME NEW k \in 1 .. Len(s), k # i PROVE s[k] \in ToSet(a) \cup ToSet(b)
  <2>1. CASE k < i BY <1>1, <1>2, <2>1 DEF ToSet
  <2>2. CASE k > i
    <3>1. k - i \in 1 .. Len(s) - i /\ s[i + (k - i)] = s[k] BY <1>1, <2>2
    <3>2. b[k - i] = s[k] /\ k - i \in DOMAIN b BY <1>3, <3>1
    <3> QED BY <3>2 DEF ToSet
  <2> QED BY <1>1, <1>8, <2>1, <2>2
<1>9. ToSet(s) \subseteq ToSet(a) \cup ToSet(b) \cup {s[i]}
  <2> SUFFICES ASSUME NEW k \in 1 .. Len(s) PROVE s[k] \in ToSet(a) \cup ToSet(b) \cup {s[i]}
    BY DEF ToSet
  <2> QED BY <1>8
<1> QED BY <1>5, <1>6, <1>7, <1>9

\* A set of natural numbers has a least element.
LEMMA LeastLine ==
  ASSUME NEW L, L \subseteq Nat, L # {}
  PROVE  Min(L) \in L
<1> DEFINE R == OpToRel(<, Nat)
<1>1. IsWellFoundedOn(R, Nat) BY NatLessThanWellFounded
<1> HIDE DEF R
<1>2. PICK u \in L : \A w \in L : ~(<<w, u>> \in R) BY <1>1, WFMin
<1>3. \A w \in L : ~(w < u) BY <1>2 DEF R, OpToRel
<1>4. \A w \in L : u <= w BY <1>3
<1> QED BY <1>4 DEF Min

-----------------------------------------------------------------------------
(* The inductive invariant.                                                  *)

Peers  == {"proxy", "dind", "swe-exec-broker"}
Stages == {"idle", "purge", "delete", "insert", "sandbox", "broker", "agent",
           "finally", "remove", "ended", "broken"}
Before == {"idle", "purge", "delete"}
Fenced == {"insert", "sandbox", "broker", "agent"}
Own(r) == [owner : {r}, peer : Peers]

Types ==
    /\ requireDind \in BOOLEAN /\ netfilter \in BOOLEAN /\ concurrency \in 1 .. MaxConcurrency
    /\ chain \in Seq(Rules)
    /\ stage \in [Runs -> Stages]
    /\ listing \in [Runs -> Seq(Rules)]
    /\ todo \in [Runs -> Seq(Peers)]
    /\ inserted \in [Runs -> Seq(Rules)]
    /\ known \in [Runs -> Seq(Rules)]
    /\ killed \subseteq Runs

\* One run is at work at a time.
Alone == \A u, v \in Runs : Live(u) /\ Live(v) => u = v

\* From the end of the purge to that of the agent the run's rules stand, they are
\* the only ones of ours, and the daemon's is there or still to come.
Standing(r) ==
    /\ ToSet(known[r]) \subseteq ToSet(chain) /\ ToSet(inserted[r]) \subseteq ToSet(chain)
    /\ netfilter => \A rule \in ToSet(chain) : IsSoma(rule) => rule.owner = r
    /\ requireDind /\ "dind" \in ToSet(Targets) =>
          \/ Rule(r, "dind") \in ToSet(chain)
          \/ stage[r] = "insert" /\ "dind" \in ToSet(todo[r])

RunInv(r) ==
    /\ ToSet(known[r]) \subseteq Own(r) /\ ToSet(inserted[r]) \subseteq Own(r)
    /\ stage[r] \in Before =>
          /\ inserted[r] = <<>> /\ known[r] = <<>>
          /\ \A rule \in ToSet(chain) : IsSoma(rule) => rule.owner # r
    /\ ~netfilter => /\ stage[r] \notin {"delete", "insert"} /\ todo[r] = <<>>
                     /\ inserted[r] = <<>> /\ known[r] = <<>>
    /\ At(r, "delete") => listing[r] = chain /\ SomaLines # {}
    /\ r \notin killed /\ stage[r] \in Fenced => Standing(r)

FenceInv == Types /\ Alone /\ Foreign \in ToSet(chain) /\ \A r \in Runs : RunInv(r)

-----------------------------------------------------------------------------
(* A step of a run leaves what is said of the others alone.                  *)

Moves(r) ==
    /\ \A u \in Runs : Live(u) => u = r
    /\ \A u \in Runs \ {r} : /\ stage'[u] = stage[u] /\ todo'[u] = todo[u]
                              /\ inserted'[u] = inserted[u] /\ known'[u] = known[u]
    /\ UNCHANGED host
    /\ killed \subseteq killed'
    /\ \A rule \in ToSet(chain') : rule \in ToSet(chain) \/ rule.owner = r

LEMMA OthersKeep ==
  ASSUME FenceInv, NEW r \in Runs, Moves(r), Types', Foreign \in ToSet(chain'), RunInv(r)'
  PROVE  FenceInv'
<1>1. ASSUME NEW u \in Runs \ {r} PROVE ~Live(u) /\ ~Live(u)' /\ RunInv(u)'
  <2>1. ~Live(u) /\ stage'[u] = stage[u] /\ (u \in killed => u \in killed')
    BY DEF Moves
  <2>2. ~Live(u)' BY <2>1 DEF Live
  <2>3. ~At(u, "delete")' /\ ~(u \notin killed' /\ stage'[u] \in Fenced)
    BY <2>2 DEF Live, At, Fenced
  <2>4. \A rule \in ToSet(chain') : rule \in ToSet(chain) \/ rule.owner # u
    BY DEF Moves
  <2>5. RunInv(u) BY DEF FenceInv
  <2> QED BY <2>1, <2>2, <2>3, <2>4, <2>5 DEF RunInv, Moves, host, IsSoma, Own
<1>2. Alone' BY <1>1 DEF Alone
<1> QED BY <1>1, <1>2 DEF FenceInv

\* What a step with an unchanged chain, of a run at work, need show.
LEMMA Acting ==
  ASSUME FenceInv, NEW r \in Runs, NEW s, At(r, s), s \notin {"idle", "ended", "broken"}
  PROVE  /\ Live(r) /\ r \notin killed /\ RunInv(r) /\ Types
         /\ \A u \in Runs : Live(u) => u = r
  BY DEF FenceInv, Alone, Live, At

LEMMA InitFence == Init => FenceInv
<1> SUFFICES ASSUME Init PROVE FenceInv OBVIOUS
<1> USE DEF Init
<1>1. chain = <<Foreign>> /\ chain \in Seq(Rules) /\ ToSet(chain) = {Foreign}
  BY DEF Rules, ToSet
<1>2. Types BY <1>1 DEF Types, Stages
<1>3. Alone BY DEF Alone, Live
<1>4. ASSUME NEW r \in Runs PROVE RunInv(r)
  BY <1>1 DEF RunInv, IsSoma, At, Fenced, ToSet
<1> QED BY <1>1, <1>2, <1>3, <1>4 DEF FenceInv

\* A run starts when there is no other.
LEMMA StartKeeps ==
  ASSUME concurrency = 1, FenceInv, NEW r \in Runs, StartRun(r)
  PROVE  FenceInv'
<1>1. Types /\ RunInv(r) /\ Foreign \in ToSet(chain) BY DEF FenceInv
<1>2. \A u \in Runs : ~Live(u)
  <2> DEFINE L == {u \in Runs : Live(u)}
  <2>1. IsFiniteSet(L) BY FenceAssumption, FS_Subset
  <2>2. Cardinality(L) \in Nat /\ Cardinality(L) < 1 BY <2>1, FS_CardinalityType DEF StartRun
  <2>3. Cardinality(L) = 0 BY <2>2
  <2>4. L = {} BY <2>1, <2>3, FS_EmptySet
  <2> QED BY <2>4
<1>3. PICK to \in {"purge", "finally"} : Go(r, "idle", to) BY DEF StartRun
<1>4. Types' BY <1>1, <1>3 DEF StartRun, Go, At, Types, Stages, host
<1>5. Moves(r) BY <1>1, <1>2, <1>3 DEF Moves, StartRun, Go, Types
<1>6. RunInv(r)' BY <1>1, <1>3 DEF RunInv, Types, StartRun, Go, At, Before, Fenced, host
<1> QED BY <1>1, <1>4, <1>5, <1>6, OthersKeep DEF StartRun

\* Steps that change a stage and nothing else.
LEMMA StageKeeps ==
  ASSUME FenceInv, NEW r \in Runs, NEW from \in Stages \ {"idle", "ended", "broken"},
         NEW to \in Stages \ {"delete", "insert"}, Go(r, from, to),
         to \in Before => from \in Before,
         to \in Fenced => \/ from \in Fenced \ {"insert"}
                          \/ from = "purge" /\ ~netfilter /\ ~requireDind,
         UNCHANGED <<host, chain, listing, todo, inserted, known, killed>>
  PROVE  FenceInv'
<1>1. /\ r \notin killed /\ RunInv(r) /\ Types /\ stage[r] = from
      /\ \A u \in Runs : Live(u) => u = r
  BY Acting DEF Go, At
<1>2. Types' BY <1>1 DEF Types, Go, host
<1>3. Moves(r) BY <1>1 DEF Moves, Go, Types
<1>4. stage'[r] = to BY <1>1 DEF Go, Types
<1>5. RunInv(r)'
  <2>1. CASE to \notin Fenced BY <1>1, <1>4, <2>1 DEF RunInv, At, host, Before
  <2>2. CASE to \in Fenced /\ from \in Fenced \ {"insert"}
    <3>1. Standing(r) BY <1>1, <2>2 DEF RunInv
    <3>2. Standing(r)' BY <1>1, <2>2, <3>1 DEF Standing, host
    <3> QED BY <1>1, <1>4, <2>2, <3>2 DEF RunInv, At, host, Before, Fenced
  <2>3. CASE to \in Fenced /\ from = "purge" /\ ~netfilter /\ ~requireDind
    <3>1. inserted[r] = <<>> /\ known[r] = <<>> BY <1>1, <2>3 DEF RunInv
    <3>2. Standing(r)' BY <1>1, <2>3, <3>1 DEF Standing, host, ToSet
    <3> QED BY <1>1, <1>4, <2>3, <3>2 DEF RunInv, At, host, Before, Fenced
  <2> QED BY <2>1, <2>2, <2>3
<1>6. Foreign \in ToSet(chain') BY DEF FenceInv
<1> QED BY <1>2, <1>3, <1>5, <1>6, OthersKeep

-----------------------------------------------------------------------------
(* The purge.                                                                *)

LEMMA ListKeeps ==
  ASSUME FenceInv, NEW r \in Runs, ListRules(r)
  PROVE  FenceInv'
<1>1. /\ r \notin killed /\ RunInv(r) /\ Types /\ stage[r] = "purge"
      /\ \A u \in Runs : Live(u) => u = r
  BY Acting DEF ListRules, Go, At
<1>4. stage'[r] = "delete" /\ listing'[r] = chain BY <1>1 DEF ListRules, Go, Types
<1>5. Types' BY <1>1 DEF Types, ListRules, Go, host, Stages
<1>6. Moves(r) BY <1>1 DEF Moves, ListRules, Go, Types
<1>7. RunInv(r)' BY <1>1, <1>4
                 DEF RunInv, ListRules, host, Before, Fenced, At, IsSoma, SomaLines, LinesOf
<1> QED BY <1>5, <1>6, <1>7, OthersKeep DEF ListRules, FenceInv

\* The number read from a listing that has a rule of ours is that of such a rule.
LEMMA NextLine ==
  ASSUME NEW rules \in Seq(Rules), LinesOf(rules) # {}
  PROVE  LineToDelete(rules) \in DOMAIN rules /\ IsSoma(rules[LineToDelete(rules)])
<1>1. LinesOf(rules) \subseteq Nat BY DEF LinesOf
<1>2. Min(LinesOf(rules)) \in LinesOf(rules) BY <1>1, LeastLine
<1> QED BY <1>2 DEF LinesOf, LineToDelete

\* The line that goes is a rule of ours, and no run at work has one.
LEMMA DeleteKeeps ==
  ASSUME FenceInv, NEW r \in Runs, DeleteLine(r)
  PROVE  /\ FenceInv'
         /\ \A rule \in ToSet(chain) \ ToSet(chain') : IsSoma(rule) => ~Live(rule.owner)
<1>1. /\ r \notin killed /\ RunInv(r) /\ Types /\ stage[r] = "delete"
      /\ \A u \in Runs : Live(u) => u = r
  BY Acting DEF DeleteLine, Go, At
<1> DEFINE line == LineToDelete(listing[r])
<1>2. line \in DOMAIN chain /\ IsSoma(chain[line])
  <2>1. listing[r] = chain /\ LinesOf(chain) # {} /\ chain \in Seq(Rules)
    BY <1>1 DEF RunInv, At, SomaLines, Types
  <2> QED BY <2>1, NextLine
<1>3. chain' = RemoveAt(chain, line) BY <1>2 DEF DeleteLine
<1> HIDE DEF line
<1>4. /\ chain' \in Seq(Rules) /\ ToSet(chain') \subseteq ToSet(chain)
      /\ ToSet(chain) \subseteq ToSet(chain') \cup {chain[line]}
  BY <1>1, <1>2, <1>3, SetOfRemoveAt DEF Types
<1>5. stage'[r] = "purge" BY <1>1 DEF DeleteLine, Go, Types
<1>6. Types' BY <1>1, <1>4 DEF Types, DeleteLine, Go, host, Stages
<1>7. Moves(r) BY <1>1, <1>4 DEF Moves, DeleteLine, Go, Types
<1>8. RunInv(r)' BY <1>1, <1>4, <1>5 DEF RunInv, DeleteLine, host, Before, Fenced, At, IsSoma
<1>9. Foreign \in ToSet(chain') BY <1>2, <1>4 DEF FenceInv, IsSoma
<1>10. chain[line].owner # r /\ chain[line] \in Rules
  BY <1>1, <1>2 DEF RunInv, Before, ToSet, Types
<1>11. ~Live(chain[line].owner)
  <2>1. chain[line].owner \in Runs BY <1>2, <1>10 DEF Rules, IsSoma
  <2> QED BY <1>1, <1>10, <2>1
<1> QED BY <1>4, <1>6, <1>7, <1>8, <1>9, <1>11, OthersKeep

LEMMA PurgeDoneKeeps ==
  ASSUME FenceInv, NEW r \in Runs, PurgeDone(r)
  PROVE  FenceInv'
<1>1. /\ r \notin killed /\ RunInv(r) /\ Types /\ stage[r] = "purge"
      /\ \A u \in Runs : Live(u) => u = r
  BY Acting DEF PurgeDone, Go, At
<1>2. stage'[r] = "insert" /\ todo'[r] = Targets BY <1>1 DEF PurgeDone, Go, Types
<1>3. Targets \in Seq(Peers)
  <2>1. Targets \in Seq({"proxy", "dind"}) BY FenceAssumption
  <2> QED BY <2>1 DEF Peers
<1>4. Types' BY <1>1, <1>3 DEF Types, PurgeDone, Go, host, Stages
<1>5. Moves(r) BY <1>1 DEF Moves, PurgeDone, Go, Types
<1>6. \A rule \in ToSet(chain) : ~IsSoma(rule) BY DEF PurgeDone, SomaLines, LinesOf, ToSet
<1>7. inserted[r] = <<>> /\ known[r] = <<>> BY <1>1 DEF RunInv, Before
<1>8. Standing(r)' BY <1>2, <1>6, <1>7 DEF Standing, PurgeDone, host, IsSoma, ToSet
<1>9. RunInv(r)' BY <1>1, <1>2, <1>8 DEF RunInv, PurgeDone, host, Before, Fenced, At
<1> QED BY <1>4, <1>5, <1>9, OthersKeep DEF PurgeDone, FenceInv

-----------------------------------------------------------------------------
(* The insertion.                                                            *)

LEMMA InsertKeeps ==
  ASSUME FenceInv, NEW r \in Runs, NEW at \in {"insert", "broker"}, InsertRule(r, at)
  PROVE  FenceInv' /\ ToSet(chain) \subseteq ToSet(chain')
<1>1. /\ r \notin killed /\ RunInv(r) /\ Types /\ stage[r] = at
      /\ \A u \in Runs : Live(u) => u = r
  BY Acting DEF InsertRule, At
<1> DEFINE rule == Rule(r, Head(todo[r]))
<1>2. /\ Tail(todo[r]) \in Seq(Peers) /\ Head(todo[r]) \in Peers
      /\ ToSet(todo[r]) = {Head(todo[r])} \cup ToSet(Tail(todo[r]))
  BY <1>1, SetOfTail DEF InsertRule, Types
<1>3. rule \in Own(r) /\ rule \in Rules /\ rule.owner = r
  BY <1>2 DEF Rule, Own, Rules, Peers
<1>4. chain' = <<rule>> \o chain /\ inserted'[r] = Append(inserted[r], rule)
  BY <1>1 DEF InsertRule, Types
<1> HIDE DEF rule
<1>5. chain' \in Seq(Rules) /\ ToSet(chain') = ToSet(chain) \cup {rule}
  BY <1>1, <1>3, <1>4, SetOfPrepend DEF Types
<1>6. inserted'[r] \in Seq(Rules) /\ ToSet(inserted'[r]) = ToSet(inserted[r]) \cup {rule}
  BY <1>1, <1>3, <1>4, SetOfAppend DEF Types
<1>7. Types' BY <1>1, <1>2, <1>5, <1>6 DEF Types, InsertRule, host
<1>8. Moves(r) BY <1>1, <1>3, <1>5 DEF Moves, InsertRule, Types
<1>9. stage'[r] = at /\ known'[r] = known[r] /\ todo'[r] = Tail(todo[r])
  BY <1>1 DEF InsertRule, Types
<1>10. Standing(r) BY <1>1 DEF RunInv, Fenced
<1>11. Standing(r)'
  <2>1. /\ ToSet(known'[r]) \subseteq ToSet(chain') /\ ToSet(inserted'[r]) \subseteq ToSet(chain')
        /\ netfilter => \A q \in ToSet(chain') : IsSoma(q) => q.owner = r
    BY <1>3, <1>5, <1>6, <1>9, <1>10 DEF Standing
  <2>2. requireDind /\ "dind" \in ToSet(Targets) =>
          \/ Rule(r, "dind") \in ToSet(chain')
          \/ stage'[r] = "insert" /\ "dind" \in ToSet(todo'[r])
    <3>1. Rule(r, Head(todo[r])) \in ToSet(chain') BY <1>5 DEF rule
    <3> QED BY <1>1, <1>2, <1>5, <1>9, <1>10, <3>1 DEF Standing
  <2> QED BY <2>1, <2>2 DEF Standing, InsertRule, host, IsSoma
<1>12. netfilter /\ r \notin killed' BY <1>1 DEF RunInv, InsertRule
<1>13. RunInv(r)' BY <1>1, <1>3, <1>6, <1>9, <1>11, <1>12
                  DEF RunInv, InsertRule, host, Before, Fenced, At
<1>14. Foreign \in ToSet(chain') BY <1>5 DEF FenceInv
<1> QED BY <1>5, <1>7, <1>8, <1>13, <1>14, OthersKeep

LEMMA SkipKeeps ==
  ASSUME FenceInv, NEW r \in Runs, NEW at \in {"insert", "broker"}, SkipRule(r, at)
  PROVE  FenceInv'
<1>1. /\ r \notin killed /\ RunInv(r) /\ Types /\ stage[r] = at
      /\ \A u \in Runs : Live(u) => u = r
  BY Acting DEF SkipRule, At
<1>2. /\ Tail(todo[r]) \in Seq(Peers) /\ Head(todo[r]) \in Peers
      /\ ToSet(todo[r]) = {Head(todo[r])} \cup ToSet(Tail(todo[r]))
  BY <1>1, SetOfTail DEF SkipRule, Types
<1>3. Types' BY <1>1, <1>2 DEF Types, SkipRule, host
<1>4. Moves(r) BY <1>1 DEF Moves, SkipRule, Types
<1>5. todo'[r] = Tail(todo[r]) BY <1>1 DEF SkipRule, Types
<1>6. Standing(r) BY <1>1 DEF RunInv, Fenced
<1>7. requireDind => Head(todo[r]) # "dind" BY DEF SkipRule, Mandatory
<1>8. Standing(r)' BY <1>2, <1>5, <1>6, <1>7 DEF Standing, SkipRule, host
<1>9. netfilter BY <1>1 DEF RunInv, SkipRule
<1>10. RunInv(r)' BY <1>1, <1>8, <1>9 DEF RunInv, SkipRule, host, Before, Fenced, At
<1> QED BY <1>3, <1>4, <1>10, OthersKeep DEF SkipRule, FenceInv

\* `rules` is lost, but the run goes to its finally block.
LEMMA InsertFailsKeeps ==
  ASSUME FenceInv, NEW r \in Runs, InsertFails(r)
  PROVE  FenceInv'
<1>1. /\ r \notin killed /\ RunInv(r) /\ Types /\ stage[r] = "insert"
      /\ \A u \in Runs : Live(u) => u = r
  BY Acting DEF InsertFails, Go, At
<1>2. stage'[r] = "finally" /\ todo'[r] = <<>> /\ inserted'[r] = <<>> /\ known'[r] = known[r]
  BY <1>1 DEF InsertFails, Go, Types
<1>3. Types' BY <1>1 DEF Types, InsertFails, Go, host, Stages
<1>4. Moves(r) BY <1>1 DEF Moves, InsertFails, Go, Types
<1>5. RunInv(r)' BY <1>1, <1>2 DEF RunInv, InsertFails, host, Before, Fenced, At, ToSet
<1> QED BY <1>3, <1>4, <1>5, OthersKeep DEF InsertFails, FenceInv

LEMMA AppliedKeeps ==
  ASSUME FenceInv, NEW r \in Runs, NEW from \in {"insert", "broker"}, NEW to \in {"sandbox", "agent"},
         Applied(r, from, to)
  PROVE  FenceInv'
<1>1. /\ r \notin killed /\ RunInv(r) /\ Types /\ stage[r] = from
      /\ \A u \in Runs : Live(u) => u = r
  BY Acting DEF Applied, Go, At
<1>2. stage'[r] = to /\ inserted'[r] = <<>> /\ known'[r] = known[r] \o inserted[r] /\ todo[r] = <<>>
  BY <1>1 DEF Applied, Go, Types
<1>3. known'[r] \in Seq(Rules) /\ ToSet(known'[r]) = ToSet(known[r]) \cup ToSet(inserted[r])
  BY <1>1, <1>2, SetOfConcat DEF Types
<1>4. Types' BY <1>1, <1>3 DEF Types, Applied, Go, host, Stages
<1>5. Moves(r) BY <1>1 DEF Moves, Applied, Go, Types
<1>6. Standing(r) BY <1>1 DEF RunInv, Fenced
<1>7. Standing(r)'
  <2>1. ToSet(todo[r]) = {} /\ ToSet(inserted'[r]) = {} BY <1>2 DEF ToSet
  <2> QED BY <1>3, <1>6, <2>1 DEF Standing, Applied, host
<1>8. ~netfilter => known'[r] = <<>> BY <1>1, <1>2 DEF RunInv
<1>9. RunInv(r)' BY <1>1, <1>2, <1>3, <1>7, <1>8 DEF RunInv, Applied, host, Before, Fenced, At, ToSet
<1> QED BY <1>4, <1>5, <1>9, OthersKeep DEF Applied, FenceInv

LEMMA StartBrokerKeeps ==
  ASSUME FenceInv, NEW r \in Runs, StartBroker(r)
  PROVE  FenceInv'
<1>1. /\ r \notin killed /\ RunInv(r) /\ Types /\ stage[r] = "sandbox"
      /\ \A u \in Runs : Live(u) => u = r
  BY Acting DEF StartBroker, Go, At
<1>2. stage'[r] = "broker" /\ (~netfilter => todo'[r] = <<>>) BY <1>1 DEF StartBroker, Go, Types
<1>3. BrokerTargets \in Seq(Peers)
  <2>1. BrokerTargets \in Seq({"swe-exec-broker"}) BY FenceAssumption
  <2> QED BY <2>1 DEF Peers
<1>4. Types' BY <1>1, <1>3 DEF Types, StartBroker, Go, host, Stages
<1>5. Moves(r) BY <1>1 DEF Moves, StartBroker, Go, Types
<1>6. Standing(r) BY <1>1 DEF RunInv, Fenced
<1>7. Standing(r)' BY <1>1, <1>6 DEF Standing, StartBroker, host
<1>8. RunInv(r)' BY <1>1, <1>2, <1>7 DEF RunInv, StartBroker, host, Before, Fenced, At
<1> QED BY <1>4, <1>5, <1>8, OthersKeep DEF StartBroker, FenceInv

-----------------------------------------------------------------------------
(* The end of a run.                                                         *)

LEMMA RemoveKeeps ==
  ASSUME FenceInv, NEW r \in Runs, RemoveRule(r)
  PROVE  /\ FenceInv'
         /\ \A rule \in ToSet(chain) \ ToSet(chain') : IsSoma(rule) => stage[rule.owner] = "remove"
<1>1. /\ r \notin killed /\ RunInv(r) /\ Types /\ stage[r] = "remove"
      /\ \A u \in Runs : Live(u) => u = r
  BY Acting DEF RemoveRule, At
<1> DEFINE lines == {i \in DOMAIN chain : chain[i] = Head(known[r])}
<1>2. /\ Tail(known[r]) \in Seq(Rules) /\ ToSet(known[r]) = {Head(known[r])} \cup ToSet(Tail(known[r]))
  BY <1>1, SetOfTail DEF RemoveRule, Types
<1>3. Head(known[r]) \in Own(r) BY <1>1, <1>2 DEF RunInv
<1>4. Head(known[r]) # Foreign /\ Head(known[r]).owner = r BY <1>3 DEF Own, Foreign, Peers
<1>5. /\ chain' \in Seq(Rules) /\ ToSet(chain') \subseteq ToSet(chain)
      /\ ToSet(chain) \subseteq ToSet(chain') \cup {Head(known[r])}
  <2>1. CASE lines = {} BY <1>1, <2>1 DEF RemoveRule, Types
  <2>2. CASE lines # {}
    <3>1. lines \subseteq Nat BY <1>1 DEF Types
    <3>2. Min(lines) \in lines BY <2>2, <3>1, LeastLine
    <3>3. chain' = RemoveAt(chain, Min(lines)) BY <2>2 DEF RemoveRule
    <3>4. Min(lines) \in DOMAIN chain /\ chain[Min(lines)] = Head(known[r]) BY <3>2
    <3> HIDE DEF lines
    <3> QED BY <1>1, <3>3, <3>4, SetOfRemoveAt DEF Types
  <2> QED BY <2>1, <2>2
<1>6. Types' BY <1>1, <1>2, <1>5 DEF Types, RemoveRule, host
<1>7. Moves(r) BY <1>1, <1>5 DEF Moves, RemoveRule, Types
<1>8. known'[r] = Tail(known[r]) /\ stage'[r] = "remove" /\ netfilter
  BY <1>1 DEF RemoveRule, Types, RunInv
<1>9. RunInv(r)' BY <1>1, <1>2, <1>8 DEF RunInv, RemoveRule, host, Before, Fenced, At
<1>10. Foreign \in ToSet(chain') BY <1>4, <1>5 DEF FenceInv
<1> QED BY <1>1, <1>4, <1>5, <1>6, <1>7, <1>9, <1>10, OthersKeep

LEMMA KillKeeps ==
  ASSUME FenceInv, NEW r \in Runs, Kill(r)
  PROVE  FenceInv'
<1>1. RunInv(r) /\ Types /\ Live(r) /\ \A u \in Runs : Live(u) => u = r
  BY DEF FenceInv, Kill, Alone
<1>2. Types' BY <1>1 DEF Types, Kill, host
<1>3. Moves(r) BY <1>1 DEF Moves, Kill, Types
<1>4. inserted'[r] = <<>> /\ known'[r] = <<>> /\ todo'[r] = <<>> BY <1>1 DEF Kill, Types
<1>5. r \in killed' /\ chain' = chain /\ stage' = stage /\ UNCHANGED host BY DEF Kill
<1>6. RunInv(r)' BY <1>1, <1>4, <1>5 DEF RunInv, host, At, ToSet
<1> QED BY <1>2, <1>3, <1>5, <1>6, OthersKeep DEF FenceInv

LEMMA NoNetfilterKeeps ==
  ASSUME FenceInv, NEW r \in Runs, NoNetfilter(r)
  PROVE  FenceInv'
<1>1. requireDind \in BOOLEAN BY DEF FenceInv, Types
<1>2. CASE requireDind
  BY <1>2, StageKeeps DEF NoNetfilter, Stages, Before, Fenced
<1>3. CASE ~requireDind
  BY <1>3, StageKeeps DEF NoNetfilter, Stages, Before, Fenced
<1> QED BY <1>2, <1>3

LEMMA PlainKeeps ==
  ASSUME FenceInv, NEW r \in Runs, SetupFails(r) \/ AgentEnds(r) \/ CollectLogs(r) \/ EndRun(r)
  PROVE  FenceInv'
<1>1. CASE SetupFails(r) BY <1>1, StageKeeps DEF SetupFails, Stages, Before, Fenced
<1>2. CASE AgentEnds(r) BY <1>2, StageKeeps DEF AgentEnds, Stages, Before, Fenced
<1>3. CASE CollectLogs(r)
  <2>1. PICK to \in {"remove", "broken"} : Go(r, "finally", to) BY <1>3 DEF CollectLogs
  <2> QED BY <1>3, <2>1, StageKeeps DEF CollectLogs, Stages, Before, Fenced
<1>4. CASE EndRun(r) BY <1>4, StageKeeps DEF EndRun, Stages, Before, Fenced
<1> QED BY <1>1, <1>2, <1>3, <1>4

-----------------------------------------------------------------------------
(* How often a rule is in a list.                                            *)

Times(s, x) == Cardinality({i \in DOMAIN s : s[i] = x})

LEMMA TimesCounts ==
  ASSUME NEW S, NEW s \in Seq(S), NEW x
  PROVE  /\ IsFiniteSet({i \in DOMAIN s : s[i] = x}) /\ Times(s, x) \in Nat
         /\ Times(s, x) = 0 => \A i \in DOMAIN s : s[i] # x
<1> DEFINE A == {i \in DOMAIN s : s[i] = x}
<1>1. A \subseteq 1 .. Len(s) /\ IsFiniteSet(1 .. Len(s)) BY FS_Interval
<1>2. IsFiniteSet(A) BY <1>1, FS_Subset
<1>3. Cardinality(A) \in Nat /\ (Cardinality(A) = 0 => A = {})
  BY <1>2, FS_CardinalityType, FS_EmptySet
<1> QED BY <1>2, <1>3 DEF Times

\* Of two lists in a row, how often in each.
LEMMA TimesConcat ==
  ASSUME NEW S, NEW s \in Seq(S), NEW t \in Seq(S), NEW x
  PROVE  Times(s \o t, x) = Times(s, x) + Times(t, x)
<1> DEFINE A == {i \in DOMAIN s : s[i] = x}
           B == {i \in DOMAIN t : t[i] = x}
           C == {i \in DOMAIN (s \o t) : (s \o t)[i] = x}
           D == {i \in C : i > Len(s)}
           f == [i \in B |-> Len(s) + i]
<1>1. /\ Len(s) \in Nat /\ DOMAIN s = 1 .. Len(s) /\ Len(t) \in Nat /\ DOMAIN t = 1 .. Len(t)
      /\ DOMAIN (s \o t) = 1 .. Len(s) + Len(t)
      /\ \A i \in 1 .. Len(s) : (s \o t)[i] = s[i]
      /\ \A i \in 1 .. Len(t) : (s \o t)[Len(s) + i] = t[i]
  OBVIOUS
<1>2. IsFiniteSet(A) /\ IsFiniteSet(B) /\ Cardinality(A) \in Nat /\ Cardinality(B) \in Nat
  BY TimesCounts DEF Times
<1>3. C = A \cup D /\ A \cap D = {} BY <1>1
<1>4. f \in Bijection(B, D)
  <2>1. \A i \in B : f[i] \in D BY <1>1
  <2>2. \A i, j \in B : f[i] = f[j] => i = j BY <1>1
  <2>3. ASSUME NEW k \in D PROVE \E i \in B : f[i] = k
    <3>1. k \in 1 .. Len(s) + Len(t) /\ k > Len(s) BY <1>1
    <3>2. k - Len(s) \in 1 .. Len(t) /\ Len(s) + (k - Len(s)) = k BY <1>1, <3>1
    <3>3. k - Len(s) \in B BY <1>1, <3>2
    <3> QED BY <3>2, <3>3
  <2> HIDE DEF B, D
  <2>4. f \in [B -> D] BY <2>1
  <2>5. f \in Injection(B, D) BY <2>2, <2>4 DEF Injection, IsInjective
  <2>6. f \in Surjection(B, D) BY <2>3, <2>4 DEF Surjection
  <2> QED BY <2>5, <2>6 DEF Bijection
<1> HIDE DEF A, B, C, D, f
<1>5. IsFiniteSet(D) /\ Cardinality(D) = Cardinality(B)
  BY <1>2, <1>4, FS_Bijection DEF ExistsBijection
<1>6. Cardinality(C) = Cardinality(A) + Cardinality(D)
  <2>1. Cardinality(A \cup D) = Cardinality(A) + Cardinality(D) - Cardinality(A \cap D)
    BY <1>2, <1>5, FS_Union
  <2>2. Cardinality(A \cap D) = 0 BY <1>3, FS_EmptySet
  <2>3. Cardinality(C) = Cardinality(A \cup D) BY <1>3
  <2> QED BY <1>2, <1>5, <2>1, <2>2, <2>3
<1> QED BY <1>5, <1>6 DEF A, B, C, Times

LEMMA TimesOne == \A x, y : Times(<<x>>, y) = IF x = y THEN 1 ELSE 0
<1> SUFFICES ASSUME NEW x, NEW y PROVE Times(<<x>>, y) = IF x = y THEN 1 ELSE 0 OBVIOUS
<1>1. {i \in DOMAIN <<x>> : <<x>>[i] = y} = IF x = y THEN {1} ELSE {} OBVIOUS
<1> QED BY <1>1, FS_EmptySet, FS_Singleton DEF Times

LEMMA TimesPrepend ==
  ASSUME NEW S, NEW s \in Seq(S), NEW x \in S, NEW y
  PROVE  Times(<<x>> \o s, y) = Times(s, y) + (IF x = y THEN 1 ELSE 0)
<1> DEFINE one == <<x>>
<1>1. one \in Seq(S) /\ Times(one, y) = IF x = y THEN 1 ELSE 0 BY TimesOne
<1> HIDE DEF one
<1>2. Times(one \o s, y) = Times(one, y) + Times(s, y) BY <1>1, TimesConcat
<1>3. Times(s, y) \in Nat BY TimesCounts
<1> QED BY <1>1, <1>2, <1>3 DEF one

LEMMA TimesAppend ==
  ASSUME NEW S, NEW s \in Seq(S), NEW x \in S, NEW y
  PROVE  Times(Append(s, x), y) = Times(s, y) + (IF x = y THEN 1 ELSE 0)
<1> DEFINE one == <<x>>
<1>1. one \in Seq(S) /\ Times(one, y) = IF x = y THEN 1 ELSE 0 BY TimesOne
<1>2. Append(s, x) = s \o one BY AppendIsConcat
<1> HIDE DEF one
<1>3. Times(s \o one, y) = Times(s, y) + Times(one, y) BY <1>1, TimesConcat
<1> QED BY <1>1, <1>2, <1>3

LEMMA TimesTail ==
  ASSUME NEW S, NEW s \in Seq(S), s # <<>>, NEW y
  PROVE  Times(s, y) = Times(Tail(s), y) + (IF Head(s) = y THEN 1 ELSE 0)
<1> DEFINE one == <<Head(s)>>
           t == Tail(s)
           u == one \o t
<1>1. /\ Head(s) \in S /\ t \in Seq(S) /\ Len(t) = Len(s) - 1 /\ Head(s) = s[1] /\ Len(s) \in Nat
      /\ \A k \in 1 .. Len(t) : t[k] = s[k + 1]
      /\ one \in Seq(S) /\ Len(one) = 1 /\ one[1] = Head(s)
  OBVIOUS
<1> HIDE DEF one, t
<1>2. /\ u \in Seq(S) /\ Len(u) = Len(one) + Len(t)
      /\ \A k \in 1 .. Len(one) : u[k] = one[k]
      /\ \A k \in 1 .. Len(t) : u[Len(one) + k] = t[k]
  <2>1. u = one \o t /\ one \in Seq(S) /\ t \in Seq(S) BY <1>1
  <2> HIDE DEF u
  <2> QED BY <2>1, Concat
<1> HIDE DEF u
<1>3. Len(u) = Len(s) /\ \A k \in 1 .. Len(s) : u[k] = s[k]
  <2>1. Len(one) + Len(t) = Len(s) BY <1>1
  <2> SUFFICES ASSUME NEW k \in 1 .. Len(s) PROVE u[k] = s[k] BY <1>2, <2>1
  <2>2. CASE k = 1 BY <1>1, <1>2, <2>1, <2>2
  <2>3. CASE k # 1
    <3>1. k - 1 \in 1 .. Len(t) /\ (k - 1) + 1 = k /\ Len(one) + (k - 1) = k BY <1>1, <2>3
    <3>2. u[k] = t[k - 1] BY <1>2, <3>1
    <3>3. t[k - 1] = s[(k - 1) + 1] BY <1>1, <3>1
    <3> QED BY <3>1, <3>2, <3>3
  <2> QED BY <2>2, <2>3
<1>4. s = u BY <1>2, <1>3, SeqEqual
<1>5. Times(<<Head(s)>> \o t, y) = Times(t, y) + (IF Head(s) = y THEN 1 ELSE 0)
  BY <1>1, TimesPrepend
<1> QED BY <1>4, <1>5 DEF u, one, t

\* What is removed at a place is there once less, and all else as often as before.
LEMMA TimesRemoveAt ==
  ASSUME NEW S, NEW s \in Seq(S), NEW i \in DOMAIN s, NEW y
  PROVE  Times(s, y) = Times(RemoveAt(s, i), y) + (IF s[i] = y THEN 1 ELSE 0)
<1> DEFINE a == SubSeq(s, 1, i - 1)
           b == SubSeq(s, i + 1, Len(s))
           one == <<s[i]>>
<1>1. i \in 1 .. Len(s) /\ a \in Seq(S) /\ b \in Seq(S) /\ one \in Seq(S)
      /\ Len(a) = i - 1 /\ Len(b) = Len(s) - i /\ Len(one) = 1
      /\ (\A k \in 1 .. i - 1 : a[k] = s[k]) /\ (\A k \in 1 .. Len(s) - i : b[k] = s[i + k])
      /\ one[1] = s[i]
  OBVIOUS
<1>2. RemoveAt(s, i) = a \o b BY DEF RemoveAt
<1>3. Times(one, y) = IF s[i] = y THEN 1 ELSE 0 BY TimesOne
<1> HIDE DEF a, b, one
<1>4. s = (a \o one) \o b
  <2> DEFINE c == a \o one
             t == c \o b
  <2>1. /\ c \in Seq(S) /\ Len(c) = Len(a) + Len(one)
        /\ \A k \in 1 .. Len(a) : c[k] = a[k]
        /\ \A k \in 1 .. Len(one) : c[Len(a) + k] = one[k]
    <3>1. c = a \o one /\ a \in Seq(S) /\ one \in Seq(S) BY <1>1
    <3> HIDE DEF c
    <3> QED BY <3>1, Concat
  <2> HIDE DEF c
  <2>2. /\ t \in Seq(S) /\ Len(t) = Len(c) + Len(b)
        /\ \A k \in 1 .. Len(c) : t[k] = c[k]
        /\ \A k \in 1 .. Len(b) : t[Len(c) + k] = b[k]
    <3>1. t = c \o b /\ c \in Seq(S) /\ b \in Seq(S) BY <1>1, <2>1
    <3> HIDE DEF t
    <3> QED BY <3>1, Concat
  <2> HIDE DEF t
  <2>3. Len(s) \in Nat /\ i \in Nat /\ i <= Len(s) /\ Len(c) = i /\ Len(t) = Len(s)
    <3>1. Len(s) \in Nat /\ i \in 1 .. Len(s) BY <1>1
    <3>2. i \in Nat /\ i <= Len(s) BY ONLY <3>1
    <3>3. Len(c) = (i - 1) + 1 /\ Len(t) = Len(c) + (Len(s) - i) BY <1>1, <2>1, <2>2
    <3> QED BY ONLY <3>1, <3>2, <3>3
  <2>4. ASSUME NEW k \in 1 .. Len(s) PROVE t[k] = s[k]
    <3>1. CASE k < i
      <4>1. k \in 1 .. i - 1 /\ k \in 1 .. Len(a) /\ k \in 1 .. Len(c) BY <1>1, <2>3, <3>1
      <4> QED BY <1>1, <2>1, <2>2, <4>1
    <3>2. CASE k = i
      <4>1. 1 \in 1 .. Len(one) /\ Len(a) + 1 = k /\ k \in 1 .. Len(c) BY <1>1, <2>3, <3>2
      <4>2. c[k] = one[1] BY <2>1, <4>1
      <4> QED BY <1>1, <2>2, <3>2, <4>1, <4>2
    <3>3. CASE k > i
      <4>1. k - i \in 1 .. Len(s) - i /\ i + (k - i) = k BY <2>3, <3>3
      <4>2. t[k] = b[k - i] BY <1>1, <2>2, <2>3, <4>1
      <4> QED BY <1>1, <4>1, <4>2
    <3> QED BY <2>3, <3>1, <3>2, <3>3
  <2>5. t = s BY <2>2, <2>3, <2>4, SeqEqual
  <2> QED BY <2>5 DEF t, c
<1>5. a \o one \in Seq(S) BY <1>1
<1>6. Times(s, y) = Times(a, y) + Times(one, y) + Times(b, y)
  <2>1. Times((a \o one) \o b, y) = Times(a \o one, y) + Times(b, y)
    <3> DEFINE c == a \o one
    <3>1. c \in Seq(S) BY <1>5
    <3> HIDE DEF c
    <3>2. Times(c \o b, y) = Times(c, y) + Times(b, y) BY <1>1, <3>1, TimesConcat
    <3> QED BY <3>2 DEF c
  <2>2. Times(a \o one, y) = Times(a, y) + Times(one, y) BY <1>1, TimesConcat
  <2> QED BY <1>4, <2>1, <2>2
<1>7. Times(a \o b, y) = Times(a, y) + Times(b, y) BY <1>1, TimesConcat
<1>8. Times(a, y) \in Nat /\ Times(b, y) \in Nat BY <1>1, TimesCounts
<1> QED BY <1>2, <1>3, <1>6, <1>7, <1>8

-----------------------------------------------------------------------------
(* The exit of a run, however many runs overlap with it.                     *)

\* A rule of the run is in the chain no more often than the run knows of it.
Ledger(r) ==
    \A peer \in Peers :
        Times(chain, Rule(r, peer))
            <= Times(known[r], Rule(r, peer)) + Times(inserted[r], Rule(r, peer))

ExitInv ==
    /\ Types
    /\ \A r \in Runs : /\ inserted[r] # <<>> => stage[r] \in {"insert", "broker"}
                       /\ stage[r] = "ended" => known[r] = <<>> /\ r \notin killed
    /\ ~requireDind => \A r \in Runs \ killed : Ledger(r)

\* A step of another run takes rules of this one out of the chain at most.
LEMMA LedgerStays ==
  ASSUME Types, Types', NEW r \in Runs, Ledger(r), UNCHANGED <<known[r], inserted[r]>>,
         \A peer \in Peers : Times(chain', Rule(r, peer)) <= Times(chain, Rule(r, peer))
  PROVE  Ledger(r)'
<1> SUFFICES ASSUME NEW peer \in Peers
             PROVE  Times(chain', Rule(r, peer))
                        <= Times(known'[r], Rule(r, peer)) + Times(inserted'[r], Rule(r, peer))
  BY DEF Ledger, Rule
<1> DEFINE x == Rule(r, peer)
<1>1. /\ Times(chain, x) \in Nat /\ Times(chain', x) \in Nat
      /\ Times(known[r], x) \in Nat /\ Times(inserted[r], x) \in Nat
  <2>1. chain \in Seq(Rules) /\ chain' \in Seq(Rules) /\ known[r] \in Seq(Rules)
        /\ inserted[r] \in Seq(Rules)
    BY DEF Types
  <2> QED BY <2>1, TimesCounts
<1>2. Times(chain, x) <= Times(known[r], x) + Times(inserted[r], x) BY DEF Ledger
<1>3. Times(chain', x) <= Times(chain, x) OBVIOUS
<1> HIDE DEF x
<1>4. Times(chain', x) <= Times(known[r], x) + Times(inserted[r], x) BY <1>1, <1>2, <1>3
<1> QED BY <1>4 DEF x

LEMMA InitExit == Init => ExitInv
<1> SUFFICES ASSUME Init PROVE ExitInv OBVIOUS
<1>1. Types BY InitFence DEF FenceInv
<1>2. ASSUME NEW r \in Runs PROVE Ledger(r)
  <2> SUFFICES ASSUME NEW peer \in Peers PROVE Times(chain, Rule(r, peer))
                   <= Times(known[r], Rule(r, peer)) + Times(inserted[r], Rule(r, peer))
    BY DEF Ledger
  <2>1. chain = <<Foreign>> /\ Foreign # Rule(r, peer) BY DEF Init, Foreign, Rule, Peers
  <2>2. Times(chain, Rule(r, peer)) = 0 BY <2>1, TimesOne
  <2>3. known[r] = <<>> /\ inserted[r] = <<>> BY DEF Init
  <2>4. Times(known[r], Rule(r, peer)) \in Nat /\ Times(inserted[r], Rule(r, peer)) \in Nat
    BY <2>3, TimesCounts, <1>1 DEF Types
  <2> QED BY <2>2, <2>4
<1> QED BY <1>1, <1>2 DEF ExitInv, Init

\* Steps that neither insert a rule nor change what a run knows.
LEMMA PlainExit ==
  ASSUME ExitInv, NEW r \in Runs,
         \/ StartRun(r) \/ NoNetfilter(r) \/ ListRules(r) \/ DeleteLine(r) \/ PurgeDone(r)
         \/ StartBroker(r) \/ SetupFails(r) \/ AgentEnds(r) \/ CollectLogs(r) \/ EndRun(r)
         \/ \E at \in {"insert", "broker"} : SkipRule(r, at)
  PROVE  ExitInv'
<1>1. Types BY DEF ExitInv
<1>2. UNCHANGED <<host, inserted, known>>
  BY DEF StartRun, NoNetfilter, ListRules, DeleteLine, PurgeDone, StartBroker, SetupFails,
         AgentEnds, CollectLogs, EndRun, SkipRule
<1>3. /\ chain' \in Seq(Rules)
      /\ \A x : Times(chain', x) <= Times(chain, x)
  <2>1. \A x : Times(chain, x) \in Nat BY <1>1, TimesCounts DEF Types
  <2>2. CASE UNCHANGED chain BY <1>1, <2>1, <2>2 DEF Types
  <2> DEFINE line == LineToDelete(listing[r])
  <2>3. CASE line \in DOMAIN chain /\ chain' = RemoveAt(chain, line)
    <3> HIDE DEF line
    <3>1. chain \in Seq(Rules) BY <1>1 DEF Types
    <3>2. chain' \in Seq(Rules) BY <2>3, <3>1, SetOfRemoveAt
    <3>3. ASSUME NEW x PROVE Times(chain', x) <= Times(chain, x)
      <4>1. Times(chain, x) = Times(chain', x) + (IF chain[line] = x THEN 1 ELSE 0)
        BY <2>3, <3>1, TimesRemoveAt
      <4>2. Times(chain', x) \in Nat BY <3>2, TimesCounts
      <4> QED BY <4>1, <4>2
    <3> QED BY <3>2, <3>3
  <2> QED BY <2>2, <2>3
      DEF StartRun, NoNetfilter, ListRules, DeleteLine, PurgeDone, StartBroker, SetupFails,
          AgentEnds, CollectLogs, EndRun, SkipRule
<1>4. stage' \in [Runs -> Stages] /\ \A q \in Runs \ {r} : stage'[q] = stage[q]
  BY <1>1 DEF Types, Stages, Go, StartRun, NoNetfilter, ListRules, DeleteLine, PurgeDone,
              StartBroker, SetupFails, AgentEnds, CollectLogs, EndRun, SkipRule
<1>5. todo' \in [Runs -> Seq(Peers)]
  <2>1. Targets \in Seq(Peers) /\ BrokerTargets \in Seq(Peers) /\ <<>> \in Seq(Peers)
    <3>1. Targets \in Seq({"proxy", "dind"}) /\ BrokerTargets \in Seq({"swe-exec-broker"})
      BY FenceAssumption
    <3> QED BY <3>1 DEF Peers
  <2>2. CASE todo' = todo BY <1>1, <2>2 DEF Types
  <2>3. CASE PurgeDone(r) \/ StartBroker(r)
    BY <1>1, <2>1, <2>3 DEF Types, PurgeDone, StartBroker
  <2>4. CASE \E at \in {"insert", "broker"} : SkipRule(r, at)
    <3>1. Tail(todo[r]) \in Seq(Peers) BY <1>1, <2>4, SetOfTail DEF Types, SkipRule
    <3> QED BY <1>1, <2>4, <3>1 DEF Types, SkipRule
  <2> QED BY <2>2, <2>3, <2>4
      DEF StartRun, NoNetfilter, ListRules, DeleteLine, SetupFails, AgentEnds, CollectLogs,
          EndRun
<1>6. listing' \in [Runs -> Seq(Rules)]
  <2>1. chain \in Seq(Rules) /\ <<>> \in Seq(Rules) /\ listing \in [Runs -> Seq(Rules)]
    BY <1>1 DEF Types
  <2>2. \/ UNCHANGED listing \/ listing' = [listing EXCEPT ![r] = chain]
        \/ listing' = [listing EXCEPT ![r] = <<>>]
    BY DEF StartRun, NoNetfilter, ListRules, DeleteLine, PurgeDone, StartBroker, SetupFails,
           AgentEnds, CollectLogs, EndRun, SkipRule
  <2> QED BY <2>1, <2>2
<1>7. UNCHANGED killed
  BY DEF StartRun, NoNetfilter, ListRules, DeleteLine, PurgeDone, StartBroker, SetupFails,
         AgentEnds, CollectLogs, EndRun, SkipRule
<1>8. Types' BY <1>1, <1>2, <1>3, <1>4, <1>5, <1>6, <1>7 DEF Types, host
<1>9. /\ inserted[r] # <<>> => stage'[r] \in {"insert", "broker"}
      /\ stage'[r] = "ended" => known[r] = <<>> /\ r \notin killed
  <2>1. inserted[r] # <<>> => stage[r] \in {"insert", "broker"} BY DEF ExitInv
  <2>2. stage[r] = "ended" => known[r] = <<>> /\ r \notin killed BY DEF ExitInv
  <2>3. CASE stage'[r] = stage[r] BY <2>1, <2>2, <2>3
  <2>4. CASE stage[r] \notin {"insert", "broker"} /\ (stage'[r] = "ended" => known[r] = <<>> /\ r \notin killed)
    BY <2>1, <2>4
  <2> QED BY <1>1, <2>3, <2>4
      DEF Types, Go, At, StartRun, NoNetfilter, ListRules, DeleteLine, PurgeDone, StartBroker,
          SetupFails, AgentEnds, CollectLogs, EndRun, SkipRule
<1>10. ASSUME NEW q \in Runs
       PROVE  /\ inserted'[q] # <<>> => stage'[q] \in {"insert", "broker"}
              /\ stage'[q] = "ended" => known'[q] = <<>> /\ q \notin killed'
  BY <1>2, <1>4, <1>7, <1>9 DEF ExitInv
<1>11. ASSUME ~requireDind, NEW q \in Runs \ killed PROVE Ledger(q)'
  BY <1>1, <1>2, <1>3, <1>8, <1>11, LedgerStays DEF ExitInv
<1> QED BY <1>2, <1>7, <1>8, <1>10, <1>11 DEF ExitInv, host

\* What a killed run has left, it no longer knows of, and it never ends.
LEMMA KillExit ==
  ASSUME ExitInv, NEW r \in Runs, Kill(r) PROVE ExitInv'
<1>1. Types /\ Live(r) BY DEF ExitInv, Kill
<1>2. /\ killed' = killed \cup {r} /\ UNCHANGED <<host, chain, stage>>
      /\ inserted' = [inserted EXCEPT ![r] = <<>>] /\ known' = [known EXCEPT ![r] = <<>>]
      /\ todo' = [todo EXCEPT ![r] = <<>>] /\ listing' = [listing EXCEPT ![r] = <<>>]
  BY DEF Kill
<1>3. Types' BY <1>1, <1>2 DEF Types, host
<1>4. stage[r] # "ended" BY <1>1 DEF Live
<1>5. ASSUME NEW q \in Runs
      PROVE  /\ inserted'[q] # <<>> => stage'[q] \in {"insert", "broker"}
             /\ stage'[q] = "ended" => known'[q] = <<>> /\ q \notin killed'
  BY <1>1, <1>2, <1>4 DEF ExitInv, Types
<1>6. ASSUME ~requireDind, NEW q \in Runs \ killed' PROVE Ledger(q)'
  <2>1. q # r /\ q \notin killed BY <1>2
  <2>2. Ledger(q) BY <1>6, <2>1 DEF ExitInv
  <2>3. UNCHANGED <<chain, known[q], inserted[q]>> BY <1>1, <1>2, <2>1 DEF Types
  <2> QED BY <2>2, <2>3 DEF Ledger, Rule
<1> QED BY <1>2, <1>3, <1>5, <1>6 DEF ExitInv, host

LEMMA InsertExit ==
  ASSUME ExitInv, NEW r \in Runs, NEW at \in {"insert", "broker"}, InsertRule(r, at)
  PROVE  ExitInv'
<1> DEFINE rule == Rule(r, Head(todo[r]))
<1>1. Types /\ stage[r] = at BY DEF ExitInv, InsertRule, At
<1>2. Tail(todo[r]) \in Seq(Peers) /\ Head(todo[r]) \in Peers
  BY <1>1, SetOfTail DEF InsertRule, Types
<1>3. rule \in Rules /\ rule.owner = r BY <1>2 DEF Rule, Rules, Peers
<1>4. /\ chain' = <<rule>> \o chain /\ inserted' = [inserted EXCEPT ![r] = Append(@, rule)]
      /\ todo' = [todo EXCEPT ![r] = Tail(@)]
      /\ UNCHANGED <<requireDind, netfilter, concurrency, stage, listing, known, killed>>
  BY DEF InsertRule, host
<1> HIDE DEF rule
<1>5. /\ chain \in Seq(Rules) /\ inserted[r] \in Seq(Rules) /\ known[r] \in Seq(Rules)
      /\ chain' \in Seq(Rules) /\ inserted'[r] = Append(inserted[r], rule)
      /\ Append(inserted[r], rule) \in Seq(Rules)
  BY <1>1, <1>3, <1>4, SetOfPrepend, SetOfAppend DEF Types
<1>6. Types' BY <1>1, <1>2, <1>4, <1>5 DEF Types
<1>7. ASSUME ~requireDind, NEW q \in Runs \ killed PROVE Ledger(q)'
  <2>1. Ledger(q) BY <1>7 DEF ExitInv
  <2>2. CASE q # r
    <3>1. \A peer \in Peers : Rule(q, peer) # rule BY <1>3, <2>2 DEF Rule
    <3>2. ASSUME NEW peer \in Peers
          PROVE  Times(chain', Rule(q, peer)) <= Times(chain, Rule(q, peer))
      <4>1. Times(chain', Rule(q, peer)) = Times(chain, Rule(q, peer)) + 0
        BY <1>3, <1>4, <1>5, <3>1, TimesPrepend
      <4>2. Times(chain, Rule(q, peer)) \in Nat BY <1>5, TimesCounts
      <4> QED BY <4>1, <4>2
    <3>3. UNCHANGED <<known[q], inserted[q]>> BY <1>1, <1>4, <2>2 DEF Types
    <3> QED BY <1>1, <1>6, <2>1, <3>2, <3>3, LedgerStays
  <2>3. CASE q = r
    <3> SUFFICES ASSUME NEW peer \in Peers
                 PROVE  Times(chain', Rule(r, peer))
                            <= Times(known'[r], Rule(r, peer)) + Times(inserted'[r], Rule(r, peer))
      BY <2>3 DEF Ledger, Rule
    <3> DEFINE x == Rule(r, peer)
               more == IF rule = x THEN 1 ELSE 0
    <3>1. Times(chain, x) <= Times(known[r], x) + Times(inserted[r], x) BY <2>1, <2>3 DEF Ledger
    <3> HIDE DEF x
    <3>2. Times(chain', x) = Times(chain, x) + more BY <1>3, <1>4, <1>5, TimesPrepend
    <3>3. Times(inserted'[r], x) = Times(inserted[r], x) + more
      <4> DEFINE old == inserted[r]
      <4>1. old \in Seq(Rules) /\ inserted'[r] = Append(old, rule) BY <1>5
      <4> HIDE DEF old
      <4>2. Times(Append(old, rule), x) = Times(old, x) + (IF rule = x THEN 1 ELSE 0)
        BY <1>3, <4>1, TimesAppend
      <4> QED BY <4>1, <4>2 DEF old
    <3>4. Times(chain, x) \in Nat /\ Times(known[r], x) \in Nat /\ Times(inserted[r], x) \in Nat
          /\ more \in Nat
      BY <1>5, TimesCounts
    <3> HIDE DEF more
    <3>5. Times(chain', x) <= Times(known[r], x) + Times(inserted'[r], x)
      BY <3>1, <3>2, <3>3, <3>4
    <3> QED BY <1>4, <3>5 DEF x
  <2> QED BY <2>2, <2>3
<1>8. ASSUME NEW q \in Runs
      PROVE  /\ inserted'[q] # <<>> => stage'[q] \in {"insert", "broker"}
             /\ stage'[q] = "ended" => known'[q] = <<>> /\ q \notin killed'
  BY <1>1, <1>4 DEF ExitInv, Types
<1> QED BY <1>4, <1>6, <1>7, <1>8 DEF ExitInv

\* The rules of a call pass to the run, none is lost between the two.
LEMMA AppliedExit ==
  ASSUME ExitInv, NEW r \in Runs, NEW from \in {"insert", "broker"},
         NEW to \in {"sandbox", "agent"}, Applied(r, from, to)
  PROVE  ExitInv'
<1>1. Types BY DEF ExitInv
<1>2. /\ known' = [known EXCEPT ![r] = @ \o inserted[r]]
      /\ inserted' = [inserted EXCEPT ![r] = <<>>]
      /\ stage' = [stage EXCEPT ![r] = to]
      /\ UNCHANGED <<requireDind, netfilter, concurrency, chain, listing, todo, killed>>
  BY DEF Applied, Go, host
<1>3. /\ chain \in Seq(Rules) /\ known[r] \in Seq(Rules) /\ inserted[r] \in Seq(Rules)
      /\ known[r] \o inserted[r] \in Seq(Rules)
      /\ known'[r] = known[r] \o inserted[r] /\ inserted'[r] = <<>> /\ stage'[r] = to
  BY <1>1, <1>2, SetOfConcat DEF Types
<1>4. Types'
  <2>1. to \in Stages /\ <<>> \in Seq(Rules) BY DEF Stages
  <2> QED BY <1>1, <1>2, <1>3, <2>1 DEF Types
<1>5. ASSUME ~requireDind, NEW q \in Runs \ killed PROVE Ledger(q)'
  <2>1. Ledger(q) BY <1>5 DEF ExitInv
  <2>2. CASE q # r
    <3>1. UNCHANGED <<known[q], inserted[q]>> BY <1>1, <1>2, <2>2 DEF Types
    <3> QED BY <1>2, <2>1, <3>1 DEF Ledger, Rule
  <2>3. CASE q = r
    <3> SUFFICES ASSUME NEW peer \in Peers
                 PROVE  Times(chain', Rule(r, peer))
                            <= Times(known'[r], Rule(r, peer)) + Times(inserted'[r], Rule(r, peer))
      BY <2>3 DEF Ledger, Rule
    <3> DEFINE x == Rule(r, peer)
    <3>1. Times(chain, x) <= Times(known[r], x) + Times(inserted[r], x) BY <2>1, <2>3 DEF Ledger
    <3> HIDE DEF x
    <3>2. Times(known'[r], x) = Times(known[r], x) + Times(inserted[r], x)
      BY <1>3, TimesConcat
    <3>3. Times(chain, x) \in Nat /\ Times(known'[r], x) \in Nat /\ Times(inserted'[r], x) \in Nat
      <4>1. known'[r] \in Seq(Rules) /\ inserted'[r] \in Seq(Rules) BY <1>3
      <4> QED BY <1>3, <4>1, TimesCounts
    <3>4. Times(chain', x) <= Times(known'[r], x) + Times(inserted'[r], x)
      BY <1>2, <3>1, <3>2, <3>3
    <3> QED BY <3>4 DEF x
  <2> QED BY <2>2, <2>3
<1>6. ASSUME NEW q \in Runs
      PROVE  /\ inserted'[q] # <<>> => stage'[q] \in {"insert", "broker"}
             /\ stage'[q] = "ended" => known'[q] = <<>> /\ q \notin killed'
  BY <1>1, <1>2 DEF ExitInv, Types
<1> QED BY <1>2, <1>4, <1>5, <1>6 DEF ExitInv

\* Rules are lost here, of a run that must fence the daemon.
LEMMA FailsExit ==
  ASSUME ExitInv, NEW r \in Runs, InsertFails(r) PROVE ExitInv'
<1>1. Types BY DEF ExitInv
<1>2. /\ requireDind /\ stage' = [stage EXCEPT ![r] = "finally"]
      /\ todo' = [todo EXCEPT ![r] = <<>>] /\ inserted' = [inserted EXCEPT ![r] = <<>>]
      /\ UNCHANGED <<requireDind, netfilter, concurrency, chain, listing, known, killed>>
  BY DEF InsertFails, Mandatory, Go, host
<1>3. Types' BY <1>1, <1>2 DEF Types, Stages
<1>4. ASSUME NEW q \in Runs
      PROVE  /\ inserted'[q] # <<>> => stage'[q] \in {"insert", "broker"}
             /\ stage'[q] = "ended" => known'[q] = <<>> /\ q \notin killed'
  BY <1>1, <1>2 DEF ExitInv, Types
<1> QED BY <1>2, <1>3, <1>4 DEF ExitInv

\* A rule that is taken off the run's list is taken out of the chain, if it is there.
LEMMA RemoveExit ==
  ASSUME ExitInv, NEW r \in Runs, RemoveRule(r) PROVE ExitInv'
<1> DEFINE rule == Head(known[r])
           lines == {i \in DOMAIN chain : chain[i] = rule}
<1>1. Types /\ stage[r] = "remove" BY DEF ExitInv, RemoveRule, At
<1>2. /\ chain \in Seq(Rules) /\ known[r] \in Seq(Rules) /\ known[r] # <<>>
      /\ Tail(known[r]) \in Seq(Rules) /\ inserted[r] \in Seq(Rules)
  BY <1>1, SetOfTail DEF Types, RemoveRule
<1>3. /\ known' = [known EXCEPT ![r] = Tail(@)]
      /\ chain' = (IF lines = {} THEN chain ELSE RemoveAt(chain, Min(lines)))
      /\ UNCHANGED <<requireDind, netfilter, concurrency, stage, listing, todo, inserted, killed>>
  BY DEF RemoveRule, host
<1>4. lines # {} => Min(lines) \in DOMAIN chain /\ chain[Min(lines)] = rule
  <2>1. lines \subseteq Nat BY <1>2
  <2> QED BY <2>1, LeastLine
<1>5. lines = {} => Times(chain, rule) = 0 BY FS_EmptySet DEF Times
<1> HIDE DEF rule, lines
<1>6. /\ chain' \in Seq(Rules)
      /\ \A x : /\ Times(chain', x) <= Times(chain, x)
                /\ x = rule => \/ Times(chain', x) = 0
                               \/ Times(chain, x) = Times(chain', x) + 1
  <2>1. CASE lines = {}
    <3>1. \A x : Times(chain, x) \in Nat BY <1>2, TimesCounts
    <3> QED BY <1>2, <1>3, <1>5, <2>1, <3>1
  <2>2. CASE lines # {}
    <3>1. chain' = RemoveAt(chain, Min(lines)) BY <1>3, <2>2
    <3>2. chain' \in Seq(Rules) BY <1>2, <1>4, <2>2, <3>1, SetOfRemoveAt
    <3>3. ASSUME NEW x
          PROVE  Times(chain, x) = Times(chain', x) + (IF rule = x THEN 1 ELSE 0)
                 /\ Times(chain', x) \in Nat
      <4>1. Times(chain', x) \in Nat BY <3>2, TimesCounts
      <4> DEFINE n == Min(lines)
      <4>2. n \in DOMAIN chain /\ chain[n] = rule /\ chain' = RemoveAt(chain, n)
        BY <1>4, <2>2, <3>1
      <4> HIDE DEF n
      <4>3. Times(chain, x) = Times(RemoveAt(chain, n), x) + (IF chain[n] = x THEN 1 ELSE 0)
        BY <1>2, <4>2, TimesRemoveAt
      <4> QED BY <4>1, <4>2, <4>3
    <3>4. ASSUME NEW x
          PROVE  /\ Times(chain', x) <= Times(chain, x)
                 /\ x = rule => Times(chain, x) = Times(chain', x) + 1
      BY <3>3
    <3> QED BY <3>2, <3>4
  <2> QED BY <2>1, <2>2
<1>7. Types' BY <1>1, <1>2, <1>3, <1>6 DEF Types
<1>8. ASSUME ~requireDind, NEW q \in Runs \ killed PROVE Ledger(q)'
  <2>1. Ledger(q) BY <1>8 DEF ExitInv
  <2>2. CASE q # r
    <3>1. UNCHANGED <<known[q], inserted[q]>> BY <1>1, <1>3, <2>2 DEF Types
    <3> QED BY <1>1, <1>6, <1>7, <2>1, <3>1, LedgerStays
  <2>3. CASE q = r
    <3> SUFFICES ASSUME NEW peer \in Peers
                 PROVE  Times(chain', Rule(r, peer))
                            <= Times(known'[r], Rule(r, peer)) + Times(inserted'[r], Rule(r, peer))
      BY <2>3 DEF Ledger, Rule
    <3> DEFINE x == Rule(r, peer)
    <3>1. Times(chain, x) <= Times(known[r], x) + Times(inserted[r], x) BY <2>1, <2>3 DEF Ledger
    <3> HIDE DEF x
    <3>2. known'[r] = Tail(known[r]) /\ inserted'[r] = inserted[r] BY <1>1, <1>3 DEF Types
    <3>3. Times(known[r], x) = Times(known'[r], x) + (IF rule = x THEN 1 ELSE 0)
      BY <1>2, <3>2, TimesTail DEF rule
    <3>4. /\ Times(chain, x) \in Nat /\ Times(chain', x) \in Nat
          /\ Times(known'[r], x) \in Nat /\ Times(inserted[r], x) \in Nat
      BY <1>2, <1>6, <3>2, TimesCounts
    <3>5. Times(chain', x) <= Times(known'[r], x) + Times(inserted'[r], x)
      BY <1>6, <3>1, <3>2, <3>3, <3>4
    <3> QED BY <3>5 DEF x
  <2> QED BY <2>2, <2>3
<1>9. ASSUME NEW q \in Runs
      PROVE  /\ inserted'[q] # <<>> => stage'[q] \in {"insert", "broker"}
             /\ stage'[q] = "ended" => known'[q] = <<>> /\ q \notin killed'
  BY <1>1, <1>3 DEF ExitInv, Types
<1> QED BY <1>3, <1>7, <1>8, <1>9 DEF ExitInv

LEMMA StepExit == ASSUME ExitInv, [Next]_vars PROVE ExitInv'
<1>1. CASE UNCHANGED vars BY <1>1 DEF vars, host, ExitInv, Types, Ledger, Rule
<1>2. ASSUME NEW r \in Runs,
             \/ StartRun(r) \/ Apply(r) \/ StartBroker(r) \/ SetupFails(r) \/ AgentEnds(r)
             \/ CollectLogs(r) \/ RemoveRule(r) \/ EndRun(r) \/ Kill(r)
      PROVE  ExitInv'
  <2>1. CASE \/ StartRun(r) \/ StartBroker(r) \/ SetupFails(r) \/ AgentEnds(r)
             \/ CollectLogs(r) \/ EndRun(r)
    BY <2>1, PlainExit
  <2>2. CASE RemoveRule(r) BY <2>2, RemoveExit
  <2>3. CASE Apply(r)
    <3>1. CASE NoNetfilter(r) \/ ListRules(r) \/ DeleteLine(r) \/ PurgeDone(r) BY <3>1, PlainExit
    <3>2. ASSUME NEW at \in {"insert", "broker"}, InsertRule(r, at) PROVE ExitInv'
      BY <3>2, InsertExit
    <3>3. ASSUME NEW at \in {"insert", "broker"}, SkipRule(r, at) PROVE ExitInv'
      BY <3>3, PlainExit
    <3>4. CASE InsertFails(r) BY <3>4, FailsExit
    <3>5. CASE Applied(r, "insert", "sandbox") \/ Applied(r, "broker", "agent")
      BY <3>5, AppliedExit
    <3> QED BY <2>3, <3>1, <3>2, <3>3, <3>4, <3>5 DEF Apply
  <2>4. CASE Kill(r) BY <2>4, KillExit
  <2> QED BY <1>2, <2>1, <2>2, <2>3, <2>4
<1> QED BY <1>1, <1>2 DEF Next

-----------------------------------------------------------------------------
(* What a run holds to be in force, however many runs overlap with it.       *)

HoldInv ==
    /\ Types
    /\ \A r \in Runs :
        /\ ToSet(known[r]) \subseteq Own(r) /\ ToSet(inserted[r]) \subseteq Own(r)
        /\ stage[r] \in Before => known[r] = <<>> /\ inserted[r] = <<>>
        /\ At(r, "delete") => LinesOf(listing[r]) # {}

\* The rules a run holds to be in force.
Held(r) == ToSet(known[r]) \cup ToSet(inserted[r])

\* One step, of run r, does no more to what the others hold than its purge may.
Harmless(r) ==
    /\ \A q \in Runs : stage'[q] # "remove" =>
          \A rule \in Held(q)' \ ToSet(chain') :
              \/ rule \in Held(q) \ ToSet(chain)
              \/ \E other \in Runs \ {q} : DeleteLine(other)
    /\ Foreign \notin ToSet(chain') => \/ Foreign \notin ToSet(chain)
                                        \/ (DeleteLine(r) /\ listing[r] # chain)

LEMMA InitHold == Init => HoldInv
<1> SUFFICES ASSUME Init PROVE HoldInv OBVIOUS
<1>1. Types BY InitFence DEF FenceInv
<1> QED BY <1>1 DEF Init, HoldInv, At, ToSet

\* Steps that leave the chain alone, and what is held but for dropping it.
LEMMA QuietHold ==
  ASSUME HoldInv, ExitInv', NEW r \in Runs, UNCHANGED chain,
         \A q \in Runs \ {r} : /\ stage'[q] = stage[q] /\ listing'[q] = listing[q]
                                /\ known'[q] = known[q] /\ inserted'[q] = inserted[q],
         killed \subseteq killed',
         Held(r)' \subseteq Held(r),
         stage'[r] \in Before => Held(r)' = {},
         At(r, "delete")' => LinesOf(listing'[r]) # {}
  PROVE  HoldInv' /\ Harmless(r)
<1>1. Types' BY DEF ExitInv
<1>2. ASSUME NEW q \in Runs PROVE Held(q)' \subseteq Held(q) BY DEF Held
<1>3. ASSUME NEW q \in Runs
      PROVE  /\ Held(q)' \subseteq Own(q)
             /\ stage'[q] \in Before => known'[q] = <<>> /\ inserted'[q] = <<>>
             /\ At(q, "delete")' => LinesOf(listing'[q]) # {}
  <2>1. Held(q)' \subseteq Own(q) BY <1>2 DEF Held, HoldInv
  <2>2. CASE q # r BY <2>1, <2>2 DEF HoldInv, At
  <2>3. CASE q = r
    <3>1. ASSUME Held(q)' = {} PROVE known'[q] = <<>> /\ inserted'[q] = <<>>
      <4>1. known'[q] \in Seq(Rules) /\ inserted'[q] \in Seq(Rules) BY <1>1 DEF Types
      <4>2. ToSet(known'[q]) = {} /\ ToSet(inserted'[q]) = {} BY <3>1 DEF Held
      <4> QED BY <4>1, <4>2, SetOfNone
    <3> QED BY <2>1, <2>3, <3>1
  <2> QED BY <2>2, <2>3
<1>4. HoldInv' BY <1>1, <1>3 DEF HoldInv, Held, Own
<1>5. Harmless(r) BY <1>2 DEF Harmless
<1> QED BY <1>4, <1>5

LEMMA PlainHold ==
  ASSUME HoldInv, ExitInv', NEW r \in Runs,
         \/ StartRun(r) \/ NoNetfilter(r) \/ ListRules(r) \/ PurgeDone(r) \/ InsertFails(r)
         \/ StartBroker(r) \/ SetupFails(r) \/ AgentEnds(r) \/ CollectLogs(r) \/ EndRun(r)
         \/ Kill(r) \/ \E at \in {"insert", "broker"} : SkipRule(r, at)
  PROVE  HoldInv' /\ Harmless(r)
<1> USE DEF StartRun, NoNetfilter, ListRules, PurgeDone, InsertFails, StartBroker, SetupFails,
            AgentEnds, CollectLogs, EndRun, Kill, SkipRule
<1>1. Types BY DEF HoldInv
<1>2. UNCHANGED chain /\ killed \subseteq killed' OBVIOUS
<1>3. \A q \in Runs \ {r} : stage'[q] = stage[q] BY <1>1 DEF Types, Go
<1>4. \A q \in Runs \ {r} : listing'[q] = listing[q] BY <1>1 DEF Types
<1>5. \A q \in Runs \ {r} : known'[q] = known[q] /\ inserted'[q] = inserted[q]
  BY <1>1 DEF Types
<1>6. Held(r)' \subseteq Held(r)
  <2>1. known'[r] \in {known[r], <<>>} /\ inserted'[r] \in {inserted[r], <<>>}
    BY <1>1 DEF Types
  <2> QED BY <2>1 DEF Held, ToSet
<1>7. stage'[r] \in Before => Held(r)' = {}
  <2>1. stage'[r] \in Before => stage[r] \in Before
    BY <1>1 DEF Types, Go, At, Before
  <2>2. stage[r] \in Before => Held(r) = {} BY DEF HoldInv, Held, ToSet
  <2> QED BY <1>6, <2>1, <2>2
<1>8. At(r, "delete")' => LinesOf(listing'[r]) # {}
  <2>1. CASE ListRules(r)
    <3>1. listing'[r] = chain BY <1>1, <2>1 DEF Types
    <3> QED BY <2>1, <3>1 DEF SomaLines
  <2>2. CASE Kill(r) BY <2>2 DEF At
  <2>3. CASE ~ListRules(r) /\ ~Kill(r)
    <3>1. ~At(r, "delete")' \/ (At(r, "delete") /\ listing'[r] = listing[r])
      BY <1>1, <2>3 DEF Types, Go, At
    <3> QED BY <3>1 DEF HoldInv
  <2> QED BY <2>1, <2>2, <2>3
<1> HIDE DEF StartRun, NoNetfilter, ListRules, PurgeDone, InsertFails, StartBroker, SetupFails,
             AgentEnds, CollectLogs, EndRun, Kill, SkipRule
<1> QED BY <1>2, <1>3, <1>4, <1>5, <1>6, <1>7, <1>8, QuietHold

LEMMA AppliedHold ==
  ASSUME HoldInv, ExitInv', NEW r \in Runs, NEW from \in {"insert", "broker"},
         NEW to \in {"sandbox", "agent"}, Applied(r, from, to)
  PROVE  HoldInv' /\ Harmless(r)
<1>1. Types BY DEF HoldInv
<1>2. /\ known'[r] = known[r] \o inserted[r] /\ inserted'[r] = <<>> /\ stage'[r] = to
      /\ UNCHANGED <<chain, killed, listing>>
      /\ \A q \in Runs \ {r} : /\ stage'[q] = stage[q] /\ known'[q] = known[q]
                                /\ inserted'[q] = inserted[q]
  BY <1>1 DEF Applied, Go, Types
<1>3. ToSet(known'[r]) = ToSet(known[r]) \cup ToSet(inserted[r])
  BY <1>1, <1>2, SetOfConcat DEF Types
<1>4. Held(r)' = Held(r) BY <1>2, <1>3, SetOfNone DEF Held
<1>5. stage'[r] \notin Before /\ ~At(r, "delete")' BY <1>2 DEF Before, At
<1> QED BY <1>2, <1>4, <1>5, QuietHold

\* What a run inserts is its own, and is in the chain.
LEMMA InsertHold ==
  ASSUME HoldInv, ExitInv', NEW r \in Runs, NEW at \in {"insert", "broker"}, InsertRule(r, at)
  PROVE  HoldInv' /\ Harmless(r)
<1> DEFINE rule == Rule(r, Head(todo[r]))
<1>1. Types /\ Types' /\ stage[r] = at BY DEF HoldInv, ExitInv, InsertRule, At
<1>2. rule \in Own(r) /\ rule \in Rules
  <2>1. Head(todo[r]) \in Peers BY <1>1, SetOfTail DEF InsertRule, Types
  <2> QED BY <2>1 DEF Rule, Own, Rules, Peers
<1>3. /\ chain' = <<rule>> \o chain /\ inserted'[r] = Append(inserted[r], rule)
      /\ UNCHANGED <<stage, listing, known, killed>>
      /\ \A q \in Runs \ {r} : inserted'[q] = inserted[q]
  BY <1>1 DEF InsertRule, Types
<1> HIDE DEF rule
<1>4. /\ ToSet(chain') = ToSet(chain) \cup {rule}
      /\ ToSet(inserted'[r]) = ToSet(inserted[r]) \cup {rule}
  BY <1>1, <1>2, <1>3, SetOfPrepend, SetOfAppend DEF Types
<1>5. stage[r] \notin Before BY <1>1 DEF Before
<1>6. HoldInv'
  <2> SUFFICES ASSUME NEW q \in Runs
               PROVE  /\ ToSet(known'[q]) \subseteq Own(q) /\ ToSet(inserted'[q]) \subseteq Own(q)
                      /\ stage'[q] \in Before => known'[q] = <<>> /\ inserted'[q] = <<>>
                      /\ At(q, "delete")' => LinesOf(listing'[q]) # {}
    BY <1>1 DEF HoldInv, Own
  <2>1. CASE q # r BY <1>3, <2>1 DEF HoldInv, At
  <2>2. CASE q = r
    <3>1. ToSet(inserted'[r]) \subseteq Own(r) BY <1>2, <1>4 DEF HoldInv
    <3> QED BY <1>3, <1>5, <2>2, <3>1 DEF HoldInv, At
  <2> QED BY <2>1, <2>2
<1>7. ASSUME NEW q \in Runs, NEW x \in Held(q)' \ ToSet(chain')
      PROVE  x \in Held(q) \ ToSet(chain)
  BY <1>3, <1>4 DEF Held
<1>8. Foreign \notin ToSet(chain') => Foreign \notin ToSet(chain) BY <1>4
<1> QED BY <1>6, <1>7, <1>8 DEF Harmless

\* The end of a run takes out its own rules and no other.
LEMMA RemoveHold ==
  ASSUME HoldInv, ExitInv', NEW r \in Runs, RemoveRule(r)
  PROVE  HoldInv' /\ Harmless(r)
<1> DEFINE lines == {i \in DOMAIN chain : chain[i] = Head(known[r])}
<1>1. Types /\ Types' /\ stage[r] = "remove" BY DEF HoldInv, ExitInv, RemoveRule, At
<1>2. /\ known'[r] = Tail(known[r]) /\ UNCHANGED <<stage, listing, inserted, killed>>
      /\ \A q \in Runs \ {r} : known'[q] = known[q]
  BY <1>1 DEF RemoveRule, Types
<1>3. ToSet(known[r]) = {Head(known[r])} \cup ToSet(Tail(known[r]))
  BY <1>1, SetOfTail DEF RemoveRule, Types
<1>4. Head(known[r]) \in Own(r) BY <1>3 DEF HoldInv
<1>5. ToSet(chain) \subseteq ToSet(chain') \cup {Head(known[r])}
  <2>1. CASE lines = {} BY <2>1 DEF RemoveRule
  <2>2. CASE lines # {}
    <3>1. lines \subseteq Nat BY <1>1 DEF Types
    <3>2. Min(lines) \in lines BY <2>2, <3>1, LeastLine
    <3>3. chain' = RemoveAt(chain, Min(lines)) BY <2>2 DEF RemoveRule
    <3>4. Min(lines) \in DOMAIN chain /\ chain[Min(lines)] = Head(known[r]) BY <3>2
    <3> HIDE DEF lines
    <3> QED BY <1>1, <3>3, <3>4, SetOfRemoveAt DEF Types
  <2> QED BY <2>1, <2>2
<1>6. HoldInv'
  <2> SUFFICES ASSUME NEW q \in Runs
               PROVE  /\ ToSet(known'[q]) \subseteq Own(q) /\ ToSet(inserted'[q]) \subseteq Own(q)
                      /\ stage'[q] \in Before => known'[q] = <<>> /\ inserted'[q] = <<>>
                      /\ At(q, "delete")' => LinesOf(listing'[q]) # {}
    BY <1>1 DEF HoldInv, Own
  <2>1. CASE q # r BY <1>2, <2>1 DEF HoldInv, At
  <2>2. CASE q = r
    <3>1. ToSet(known'[r]) \subseteq Own(r) BY <1>2, <1>3 DEF HoldInv
    <3> QED BY <1>1, <1>2, <2>2, <3>1 DEF HoldInv, At, Before
  <2> QED BY <2>1, <2>2
<1>7. ASSUME NEW q \in Runs, stage'[q] # "remove", NEW x \in Held(q)' \ ToSet(chain')
      PROVE  x \in Held(q) \ ToSet(chain)
  <2>1. q # r BY <1>1, <1>2, <1>7
  <2>2. Held(q)' = Held(q) BY <1>2, <2>1 DEF Held
  <2>3. x.owner = q BY <2>2 DEF HoldInv, Held, Own
  <2>4. x # Head(known[r]) BY <1>4, <2>1, <2>3 DEF Own
  <2> QED BY <1>5, <2>2, <2>4
<1>8. Foreign \notin ToSet(chain') => Foreign \notin ToSet(chain)
  <2>1. Foreign # Head(known[r]) BY <1>4 DEF Own, Foreign, Peers
  <2> QED BY <1>5, <2>1
<1> QED BY <1>6, <1>7, <1>8 DEF Harmless

\* The purge may take out rules of another run, but none of its own run's, and the
\* rule of somebody else only by a number that is out of date.
LEMMA DeleteHold ==
  ASSUME HoldInv, ExitInv', NEW r \in Runs, DeleteLine(r)
  PROVE  HoldInv' /\ Harmless(r)
<1>1. Types /\ Types' /\ stage[r] = "delete" /\ At(r, "delete")
  BY DEF HoldInv, ExitInv, DeleteLine, Go, At
<1>2. /\ stage'[r] = "purge" /\ UNCHANGED <<known, inserted, killed>>
      /\ \A q \in Runs \ {r} : stage'[q] = stage[q] /\ listing'[q] = listing[q]
  BY <1>1 DEF DeleteLine, Go, Types
<1>3. known[r] = <<>> /\ inserted[r] = <<>> /\ LinesOf(listing[r]) # {}
  BY <1>1 DEF HoldInv, Before
<1>4. HoldInv'
  <2> SUFFICES ASSUME NEW q \in Runs
               PROVE  /\ ToSet(known'[q]) \subseteq Own(q) /\ ToSet(inserted'[q]) \subseteq Own(q)
                      /\ stage'[q] \in Before => known'[q] = <<>> /\ inserted'[q] = <<>>
                      /\ At(q, "delete")' => LinesOf(listing'[q]) # {}
    BY <1>1 DEF HoldInv, Own
  <2>1. CASE q # r BY <1>2, <2>1 DEF HoldInv, At
  <2>2. CASE q = r BY <1>2, <1>3, <2>2 DEF HoldInv, At
  <2> QED BY <2>1, <2>2
<1>5. Held(r)' = {} BY <1>2, <1>3 DEF Held, ToSet
<1>6. CASE listing[r] # chain BY <1>4, <1>5, <1>6 DEF Harmless
<1>7. CASE listing[r] = chain
  <2> DEFINE line == LineToDelete(chain)
  <2>1. line \in DOMAIN chain /\ IsSoma(chain[line])
    BY <1>1, <1>3, <1>7, NextLine DEF Types
  <2>2. chain' = RemoveAt(chain, line) BY <1>7, <2>1 DEF DeleteLine
  <2> HIDE DEF line
  <2>3. ToSet(chain) \subseteq ToSet(chain') \cup {chain[line]}
    BY <1>1, <2>1, <2>2, SetOfRemoveAt DEF Types
  <2>4. Foreign \notin ToSet(chain') => Foreign \notin ToSet(chain) BY <2>1, <2>3 DEF IsSoma
  <2> QED BY <1>4, <1>5, <2>4 DEF Harmless
<1> QED BY <1>6, <1>7

LEMMA StepHold ==
  ASSUME HoldInv, ExitInv', [Next]_vars
  PROVE  HoldInv' /\ (UNCHANGED vars \/ \E r \in Runs : Harmless(r))
<1>1. CASE UNCHANGED vars BY <1>1 DEF vars, host, HoldInv, Types, At, Own
<1>2. ASSUME NEW r \in Runs,
             \/ StartRun(r) \/ Apply(r) \/ StartBroker(r) \/ SetupFails(r) \/ AgentEnds(r)
             \/ CollectLogs(r) \/ RemoveRule(r) \/ EndRun(r) \/ Kill(r)
      PROVE  HoldInv' /\ Harmless(r)
  <2>1. CASE \/ StartRun(r) \/ StartBroker(r) \/ SetupFails(r) \/ AgentEnds(r)
             \/ CollectLogs(r) \/ EndRun(r) \/ Kill(r)
    BY <2>1, PlainHold
  <2>2. CASE RemoveRule(r) BY <2>2, RemoveHold
  <2>3. CASE Apply(r)
    <3>1. CASE NoNetfilter(r) \/ ListRules(r) \/ PurgeDone(r) \/ InsertFails(r)
      BY <3>1, PlainHold
    <3>2. CASE DeleteLine(r) BY <3>2, DeleteHold
    <3>3. ASSUME NEW at \in {"insert", "broker"}, InsertRule(r, at) PROVE HoldInv' /\ Harmless(r)
      BY <3>3, InsertHold
    <3>4. ASSUME NEW at \in {"insert", "broker"}, SkipRule(r, at) PROVE HoldInv' /\ Harmless(r)
      BY <3>4, PlainHold
    <3>5. CASE Applied(r, "insert", "sandbox") \/ Applied(r, "broker", "agent")
      BY <3>5, AppliedHold
    <3> QED BY <2>3, <3>1, <3>2, <3>3, <3>4, <3>5 DEF Apply
  <2> QED BY <1>2, <2>1, <2>2, <2>3
<1> QED BY <1>1, <1>2 DEF Next

-----------------------------------------------------------------------------
(* Theorems.                                                                 *)

\* What leaves the chain in a step: rules of dead runs, or of the run that removes them.
PurgeRight ==
    \A rule \in ToSet(chain) \ ToSet(chain') :
        IsSoma(rule) => ~Live(rule.owner) \/ stage[rule.owner] = "remove"

LEMMA StepFence ==
  ASSUME concurrency = 1, FenceInv, [Next]_vars
  PROVE  FenceInv' /\ PurgeRight
<1>0. UNCHANGED chain => PurgeRight BY DEF PurgeRight
<1>1. CASE UNCHANGED vars
  <2>1. FenceInv'
    <3>1. UNCHANGED <<host, chain, stage, listing, todo, inserted, known, killed>> /\ SomaLines' = SomaLines
      BY <1>1 DEF vars, SomaLines, LinesOf, IsSoma
    <3>2. Types' /\ Alone' /\ Foreign \in ToSet(chain') BY <3>1 DEF host, FenceInv, Types, Alone, Live
    <3>3. ASSUME NEW r \in Runs PROVE RunInv(r)'
      BY <3>1 DEF host, FenceInv, RunInv, Standing, At, IsSoma, Own, Rule
    <3> QED BY <3>2, <3>3 DEF FenceInv
  <2> QED BY <1>0, <1>1, <2>1 DEF vars
<1>2. ASSUME NEW r \in Runs,
             \/ StartRun(r) \/ Apply(r) \/ StartBroker(r) \/ SetupFails(r) \/ AgentEnds(r)
             \/ CollectLogs(r) \/ RemoveRule(r) \/ EndRun(r) \/ Kill(r)
      PROVE  FenceInv' /\ PurgeRight
  <2>1. CASE StartRun(r) BY <1>0, <2>1, StartKeeps DEF StartRun
  <2>2. CASE StartBroker(r) BY <1>0, <2>2, StartBrokerKeeps DEF StartBroker
  <2>3. CASE SetupFails(r) \/ AgentEnds(r) \/ CollectLogs(r) \/ EndRun(r)
    BY <1>0, <2>3, PlainKeeps DEF SetupFails, AgentEnds, CollectLogs, EndRun
  <2>4. CASE RemoveRule(r) BY <2>4, RemoveKeeps DEF PurgeRight
  <2>5. CASE Kill(r) BY <1>0, <2>5, KillKeeps DEF Kill
  <2>6. CASE Apply(r)
    <3>1. CASE NoNetfilter(r) BY <1>0, <3>1, NoNetfilterKeeps DEF NoNetfilter
    <3>2. CASE ListRules(r) BY <1>0, <3>2, ListKeeps DEF ListRules
    <3>3. CASE DeleteLine(r) BY <3>3, DeleteKeeps DEF PurgeRight
    <3>4. CASE PurgeDone(r) BY <1>0, <3>4, PurgeDoneKeeps DEF PurgeDone
    <3>5. ASSUME NEW at \in {"insert", "broker"}, InsertRule(r, at) PROVE FenceInv' /\ PurgeRight
      BY <3>5, InsertKeeps DEF PurgeRight
    <3>6. ASSUME NEW at \in {"insert", "broker"}, SkipRule(r, at) PROVE FenceInv' /\ PurgeRight
      BY <1>0, <3>6, SkipKeeps DEF SkipRule
    <3>7. CASE InsertFails(r) BY <1>0, <3>7, InsertFailsKeeps DEF InsertFails
    <3>8. CASE Applied(r, "insert", "sandbox") BY <1>0, <3>8, AppliedKeeps DEF Applied
    <3>9. CASE Applied(r, "broker", "agent") BY <1>0, <3>9, AppliedKeeps DEF Applied
    <3> QED BY <2>6, <3>1, <3>2, <3>3, <3>4, <3>5, <3>6, <3>7, <3>8, <3>9 DEF Apply
  <2> QED BY <1>2, <2>1, <2>2, <2>3, <2>4, <2>5, <2>6
<1> QED BY <1>1, <1>2 DEF Next

\* How many runs there are at a time is settled before the first.
LEMMA Settled == ASSUME [Next]_vars PROVE concurrency' = concurrency
<1> USE DEF host
<1>1. CASE UNCHANGED vars BY <1>1 DEF vars
<1>2. ASSUME NEW r \in Runs, Apply(r) PROVE concurrency' = concurrency
  BY <1>2 DEF Apply, NoNetfilter, ListRules, DeleteLine, PurgeDone, InsertRule, SkipRule,
              InsertFails, Applied
<1>3. ASSUME NEW r \in Runs,
             \/ StartRun(r) \/ StartBroker(r) \/ SetupFails(r) \/ AgentEnds(r)
             \/ CollectLogs(r) \/ RemoveRule(r) \/ EndRun(r) \/ Kill(r)
      PROVE  concurrency' = concurrency
  BY <1>3 DEF StartRun, StartBroker, SetupFails, AgentEnds, CollectLogs, RemoveRule, EndRun, Kill
<1> QED BY <1>1, <1>2, <1>3 DEF Next

\* Of runs that follow one another: whose rules are in the chain at each stage.
THEOREM FenceInvariance == Spec => [](concurrency = 1 => FenceInv)
<1>1. Init => (concurrency = 1 => FenceInv) BY InitFence
<1>2. (concurrency = 1 => FenceInv) /\ [Next]_vars => (concurrency = 1 => FenceInv)'
  BY StepFence, Settled
<1> QED BY <1>1, <1>2, PTL DEF Spec

\* However many runs overlap, none has more rules in the chain than it knows of, unless
\* a mandatory rule fails: of what a call inserts, nothing is lost on its way to the
\* finally block (_apply_proxy_compression_isolation, run_harness_instance).
THEOREM ExitInvariance == Spec => []ExitInv
<1>1. ExitInv /\ [Next]_vars => ExitInv' BY StepExit
<1> QED BY InitExit, <1>1, PTL DEF Spec

\* Every variable of the isolation model keeps its type.
THEOREM FenceTypes == Spec => []TypeOK
<1>1. ExitInv => TypeOK BY DEF ExitInv, Types, TypeOK, Stages
<1> QED BY ExitInvariance, <1>1, PTL

\* A run whose finally block is not cut short leaves none of its rules behind, however
\* many runs overlap with it, whichever of them are killed and whatever they purge,
\* unless a mandatory rule may fail.
THEOREM NothingLeftBehind == Spec => []CleanExit
<1>1. ASSUME ExitInv PROVE CleanExit
  <2> SUFFICES ASSUME ~requireDind, NEW r \in Runs, stage[r] = "ended", NEW i \in Left(r)
               PROVE  FALSE
    BY DEF CleanExit
  <2>1. /\ Types /\ r \notin killed /\ Ledger(r) /\ known[r] = <<>> /\ inserted[r] = <<>>
    BY <1>1 DEF ExitInv
  <2>2. i \in DOMAIN chain /\ chain[i] \in Rules /\ chain[i] # Foreign /\ chain[i].owner = r
    BY <2>1 DEF Left, SomaLines, LinesOf, IsSoma, Types
  <2>3. PICK peer \in Peers : chain[i] = Rule(r, peer) BY <2>2 DEF Rules, Rule, Peers
  <2>4. Times(known[r], Rule(r, peer)) = 0 /\ Times(inserted[r], Rule(r, peer)) = 0
    BY <2>1, FS_EmptySet DEF Times
  <2>5. chain \in Seq(Rules) BY <2>1 DEF Types
  <2>6. Times(chain, Rule(r, peer)) \in Nat /\ Times(chain, Rule(r, peer)) <= 0
    <3> DEFINE x == Rule(r, peer)
    <3>1. Times(chain, x) <= Times(known[r], x) + Times(inserted[r], x) BY <2>1 DEF Ledger
    <3> HIDE DEF x
    <3>2. Times(chain, x) \in Nat BY <2>5, TimesCounts
    <3>3. Times(known[r], x) = 0 /\ Times(inserted[r], x) = 0 BY <2>4 DEF x
    <3>4. Times(chain, x) <= 0 BY <3>1, <3>2, <3>3
    <3> QED BY <3>2, <3>4 DEF x
  <2>7. Times(chain, Rule(r, peer)) = 0 BY <2>6
  <2> QED BY <2>2, <2>3, <2>5, <2>7, TimesCounts
<1> QED BY ExitInvariance, <1>1, PTL

\* What a run holds is its own, and its purge is over before it holds anything.
THEOREM HoldInvariance == Spec => []HoldInv
<1>1. HoldInv /\ ExitInv' /\ [Next]_vars => HoldInv' BY StepHold
<1> QED BY InitHold, ExitInvariance, <1>1, PTL DEF Spec

\* However many runs overlap, and wherever they fail or are killed: until a run begins
\* to remove its rules it loses none but to the purge of another run.  Its own second
\* call, for the broker, purges nothing, and no run removes the rule of another at its end.
THEOREM FenceStands == Spec => FencedWhileRunning
<1> DEFINE Stands ==
      \A r \in Runs : stage'[r] # "remove" =>
          \A rule \in ToSet(known'[r] \o inserted'[r]) \ ToSet(chain') :
              \/ rule \in ToSet(known[r] \o inserted[r]) \ ToSet(chain)
              \/ \E other \in Runs \ {r} : DeleteLine(other)
<1>1. ASSUME HoldInv, ExitInv', [Next]_vars PROVE Stands \/ UNCHANGED vars
  <2>1. CASE UNCHANGED vars BY <2>1
  <2>2. ASSUME NEW s \in Runs, Harmless(s) PROVE Stands
    <3>1. ASSUME NEW r \in Runs
          PROVE  /\ ToSet(known[r] \o inserted[r]) = Held(r)
                 /\ ToSet(known'[r] \o inserted'[r]) = Held(r)'
      <4>1. /\ known[r] \in Seq(Rules) /\ inserted[r] \in Seq(Rules)
            /\ known'[r] \in Seq(Rules) /\ inserted'[r] \in Seq(Rules)
        BY <1>1 DEF HoldInv, ExitInv, Types, Rules
      <4> QED BY <4>1, SetOfConcat DEF Held
    <3> QED BY <2>2, <3>1 DEF Harmless
  <2> HIDE DEF Stands
  <2> QED BY <1>1, <2>1, <2>2, StepHold
<1>2. HoldInv /\ ExitInv' /\ [Next]_vars => [Stands]_vars BY <1>1
<1> QED BY HoldInvariance, ExitInvariance, <1>2, PTL DEF Spec, FencedWhileRunning

\* Of runs that follow one another, and without mutual TLS, no agent ever works unless
\* the daemon, which is among the targets, is fenced.
THEOREM DaemonFenced ==
  ASSUME "dind" \in ToSet(Targets)
  PROVE  Spec => []MandatoryFence
<1>1. (concurrency = 1 => FenceInv) => MandatoryFence
  BY DEF FenceInv, RunInv, Fenced, At, Standing, MandatoryFence
<1> QED BY FenceInvariance, <1>1, PTL

\* Of runs that follow one another, no rule of an earlier one, killed or broken, is in
\* force when an agent works.
THEOREM LeftoversGone == Spec => []NoStaleRules
<1>1. (concurrency = 1 => FenceInv) => NoStaleRules
  BY DEF FenceInv, RunInv, Fenced, At, Standing, NoStaleRules, SomaLines, LinesOf, ToSet
<1> QED BY FenceInvariance, <1>1, PTL

\* However many runs overlap, a rule of somebody else is only ever removed by a number
\* read from a listing that had gone out of date, never by one that was true.
THEOREM OthersRulesStay == Spec => ForeignRulesKept
<1> DEFINE Kept == Foreign \notin ToSet(chain') /\ Foreign \in ToSet(chain) =>
                     \E r \in Runs : DeleteLine(r) /\ listing[r] # chain
<1>1. ASSUME HoldInv, ExitInv', [Next]_vars PROVE Kept \/ UNCHANGED vars
  BY <1>1, StepHold DEF Harmless
<1>2. HoldInv /\ ExitInv' /\ [Next]_vars => [Foreign \notin ToSet(chain') /\ Foreign \in ToSet(chain)
          => \E r \in Runs : DeleteLine(r) /\ listing[r] # chain]_vars
  BY <1>1
<1> QED BY HoldInvariance, ExitInvariance, <1>2, PTL DEF Spec, ForeignRulesKept

\* Where no two runs are on the host at a time, rules leave the chain only when their run
\* is dead or takes them out.
THEOREM PurgeTakesLeftovers ==
  ASSUME MaxConcurrency = 1
  PROVE  Spec => PurgesOnlyLeftovers
<1>1. ExitInv => concurrency = 1 BY DEF ExitInv, Types
<1>2. ExitInv /\ (concurrency = 1 => FenceInv) /\ [Next]_vars => [PurgeRight]_vars
  BY <1>1, StepFence
<1>3. [PurgeRight]_vars => [\A rule \in ToSet(chain) \ ToSet(chain') :
          IsSoma(rule) => ~Live(rule.owner) \/ stage[rule.owner] = "remove"]_vars
  BY DEF PurgeRight
<1> QED BY FenceInvariance, ExitInvariance, <1>2, <1>3, PTL DEF Spec, PurgesOnlyLeftovers

=============================================================================
