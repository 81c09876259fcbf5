------------------------- MODULE RequestPathProofs -------------------------
(***************************************************************************)
(* Proofs about the two components a request of the agent passes through   *)
(* in the proxy.  PromptGuard, for requests and answers of any length: what*)
(* the three loops have built at each pass.  Translation, for conversations*)
(* of any length: what each loop of the translation computes, what a round *)
(* of tool calls adds to a request, and that a conversation is made of     *)
(* such rounds.                                                            *)
(***************************************************************************)
EXTENDS PromptGuard, Translation, FunctionTheorems, FiniteSetTheorems, SequenceTheorems,
        WellFoundedInduction, TLAPS

-----------------------------------------------------------------------------
(* Sequences and bounds.                                                     *)

Least(a, b) == IF a <= b THEN a ELSE b

LEMMA MinOfTwo == ASSUME NEW a \in Int, NEW b \in Int PROVE Min({a, b}) = Least(a, b)
<1>1. Least(a, b) \in {a, b} /\ \A y \in {a, b} : Least(a, b) <= y BY DEF Least
<1>2. Min({a, b}) \in {a, b} /\ \A y \in {a, b} : Min({a, b}) <= y BY <1>1 DEF Min
<1> QED BY <1>2 DEF Least

\* What InsertAt makes of a list.
LEMMA Inserted ==
  ASSUME NEW S, NEW s \in Seq(S), NEW q \in 1 .. Len(s) + 1, NEW e \in S,
         NEW u, u = InsertAt(s, q, e)
  PROVE  /\ u \in Seq(S) /\ Len(u) = Len(s) + 1 /\ u[q] = e
         /\ \A p \in 1 .. Len(s) : p < q => u[p] = s[p]
         /\ \A p \in 1 .. Len(s) : p >= q => u[p + 1] = s[p]
<1> DEFINE a == SubSeq(s, 1, q - 1)
           b == SubSeq(s, q, Len(s))
           one == <<e>>
           c == a \o one
<1>1. a \in Seq(S) /\ Len(a) = q - 1 /\ \A k \in 1 .. Len(a) : a[k] = s[k] OBVIOUS
<1>2. b \in Seq(S) /\ Len(b) = Len(s) - q + 1 /\ \A k \in 1 .. Len(b) : b[k] = s[q + k - 1]
  <2>1. /\ b \in Seq(S) /\ Len(b) = IF q <= Len(s) THEN Len(s) - q + 1 ELSE 0
        /\ \A k \in 1 .. Len(s) - q + 1 : b[k] = s[q + k - 1]
    <3>1. q \in Int /\ Len(s) \in Int /\ \A i \in q .. Len(s) : s[i] \in S OBVIOUS
    <3> QED BY <3>1, SubSeqProperties
  <2>2. Len(s) \in Nat /\ q \in Nat /\ (q <= Len(s) \/ Len(s) - q + 1 = 0) OBVIOUS
  <2> HIDE DEF b
  <2>3. Len(b) = Len(s) - q + 1 BY ONLY <2>1, <2>2
  <2> QED BY <2>1, <2>3
<1>3. one \in Seq(S) /\ Len(one) = 1 /\ one[1] = e OBVIOUS
<1> HIDE DEF a, b, one
<1>4. /\ c \in Seq(S) /\ Len(c) = q /\ c[q] = e /\ \A k \in 1 .. q - 1 : c[k] = s[k]
  <2>1. c \in Seq(S) /\ Len(c) = Len(a) + Len(one)
        /\ \A i \in 1 .. Len(a) + Len(one) : c[i] = IF i <= Len(a) THEN a[i] ELSE one[i - Len(a)]
    BY <1>1, <1>3, ConcatProperties
  <2> HIDE DEF c
  <2> QED BY <1>1, <1>3, <2>1
<1>5. u = c \o b BY DEF InsertAt, a, b, one
<1> HIDE DEF c
<1>6. /\ u \in Seq(S) /\ Len(u) = Len(c) + Len(b)
      /\ \A i \in 1 .. Len(c) + Len(b) : u[i] = IF i <= Len(c) THEN c[i] ELSE b[i - Len(c)]
  <2>1. /\ c \o b \in Seq(S) /\ Len(c \o b) = Len(c) + Len(b)
        /\ \A i \in 1 .. Len(c) + Len(b) : (c \o b)[i] = IF i <= Len(c) THEN c[i] ELSE b[i - Len(c)]
    BY <1>2, <1>4, ConcatProperties
  <2> QED BY <1>5, <2>1
<1>7. Len(u) = Len(s) + 1 /\ u[q] = e BY <1>2, <1>4, <1>6
<1>8. ASSUME NEW p \in 1 .. Len(s), p < q PROVE u[p] = s[p] BY <1>2, <1>4, <1>6, <1>8
<1>9. ASSUME NEW p \in 1 .. Len(s), p >= q PROVE u[p + 1] = s[p]
  <2>1. p + 1 - q \in 1 .. Len(b) /\ q + (p + 1 - q) - 1 = p BY <1>2, <1>9
  <2>2. u[p + 1] = b[p + 1 - q] BY <1>2, <1>4, <1>6, <2>1
  <2> QED BY <1>2, <2>1, <2>2
<1> QED BY <1>6, <1>7, <1>8, <1>9

\* A set of numbers has a smallest one.
LEMMA Smallest ==
  ASSUME NEW U \in SUBSET Nat, U # {}
  PROVE  \E u \in U : \A w \in U : u <= w
<1> DEFINE R == OpToRel(<, Nat)
<1>1. IsWellFoundedOn(R, Nat) BY NatLessThanWellFounded
<1> HIDE DEF R
<1>2. PICK u \in U : \A w \in U : ~(<<w, u>> \in R) BY <1>1, WFMin
<1>3. \A w \in U : ~(w < u) BY <1>2 DEF R, OpToRel
<1> QED BY <1>2, <1>3

-----------------------------------------------------------------------------
(* Ascending numbers.                                                        *)

Ascends(f, n) == f \in [1 .. n -> Nat \ {0}] /\ \A j, k \in 1 .. n : j < k => f[j] < f[k]

LEMMA AtLeast ==
  ASSUME NEW n \in Nat, NEW f, Ascends(f, n), NEW k \in 1 .. n
  PROVE  f[k] >= k
<1> SUFFICES ASSUME f[k] < k PROVE FALSE BY DEF Ascends
<1> DEFINE U == {i \in 1 .. n : f[i] < i}
<1>1. PICK i \in U : \A w \in U : i <= w
  <2>1. U \in SUBSET Nat /\ U # {} OBVIOUS
  <2> QED BY <2>1, Smallest
<1>2. i > 1 BY DEF Ascends
<1>3. i - 1 \in 1 .. n /\ f[i - 1] < f[i] /\ f[i - 1] \in Nat /\ f[i] \in Nat BY <1>2 DEF Ascends
<1>4. i - 1 \in U BY <1>1, <1>2, <1>3
<1> QED BY <1>1, <1>4

HasAll(f, n, q) == \A i \in 1 .. q : \E k \in 1 .. n : f[k] = i

\* If the numbers up to q are among them, they are the first ones.
LEMMA FirstOnes ==
  ASSUME NEW n \in Nat, NEW f, Ascends(f, n), NEW q \in Nat, HasAll(f, n, q)
  PROVE  q <= n /\ \A i \in 1 .. q : f[i] = i
<1> DEFINE U == {i \in 1 .. q : ~(i <= n /\ f[i] = i)}
<1>1. U = {}
  <2> SUFFICES ASSUME U # {} PROVE FALSE OBVIOUS
  <2>1. PICK i \in U : \A w \in U : i <= w
    <3>1. U \in SUBSET Nat OBVIOUS
    <3> QED BY <3>1, Smallest
  <2>2. PICK k \in 1 .. n : f[k] = i BY DEF HasAll
  <2>3. k <= i BY <2>2, AtLeast
  <2>4. k # i BY <2>1, <2>2
  <2>5. k \in 1 .. q /\ k \notin U BY <2>1, <2>3, <2>4
  <2>6. f[k] = k BY <2>5
  <2> QED BY <2>2, <2>4, <2>6
<1> QED BY <1>1

-----------------------------------------------------------------------------
(* Choices of messages.                                                      *)

\* A list has the messages of another at a set of places, in order; f says where.
Embeds(l, f, g, S) ==
    /\ Ascends(f, Len(l))
    /\ \A p \in 1 .. Len(l) : f[p] \in S /\ l[p] = g[f[p]]
    /\ \A i \in S : \E p \in 1 .. Len(l) : f[p] = i

Picks(l, g, S) == \E f : Embeds(l, f, g, S)

LEMMA PicksNone == ASSUME NEW g PROVE Picks(<<>>, g, {})
<1> DEFINE f == [p \in 1 .. 0 |-> 1]
<1>1. Embeds(<<>>, f, g, {}) BY DEF Embeds, Ascends
<1> QED BY <1>1 DEF Picks

\* One more, at a place behind the others.
LEMMA PicksNext ==
  ASSUME NEW M, NEW g \in Seq(M), NEW l \in Seq(M), NEW S, Picks(l, g, S),
         NEW n \in 1 .. Len(g), \A i \in S : i < n
  PROVE  Picks(Append(l, g[n]), g, S \cup {n})
<1> DEFINE u == Append(l, g[n])
           m == Len(l)
<1>1. PICK f : Embeds(l, f, g, S) BY DEF Picks
<1> DEFINE h == [p \in 1 .. m + 1 |-> IF p <= m THEN f[p] ELSE n]
<1>2. Len(u) = m + 1 /\ u[m + 1] = g[n] /\ \A p \in 1 .. m : u[p] = l[p] OBVIOUS
<1>3. m \in Nat OBVIOUS
<1> HIDE DEF u, m
<1>4. h[m + 1] = n /\ \A p \in 1 .. m : h[p] = f[p] BY <1>3
<1>5. f \in [1 .. m -> Nat \ {0}] /\ \A p \in 1 .. m : f[p] \in S BY <1>1 DEF Embeds, Ascends, m
<1>6. h \in [1 .. m + 1 -> Nat \ {0}] BY <1>3, <1>5
<1> HIDE DEF h
<1>7. Ascends(h, m + 1)
  <2> SUFFICES ASSUME NEW j \in 1 .. m + 1, NEW k \in 1 .. m + 1, j < k PROVE h[j] < h[k]
    BY <1>6 DEF Ascends
  <2>1. j \in 1 .. m BY <1>3
  <2>2. CASE k = m + 1 BY <1>4, <1>5, <2>1, <2>2
  <2>3. CASE k # m + 1
    <3>1. k \in 1 .. m BY <1>3, <2>3
    <3>2. f[j] < f[k] BY <1>1, <2>1, <3>1 DEF Embeds, Ascends, m
    <3> QED BY <1>4, <2>1, <3>1, <3>2
  <2> QED BY <2>2, <2>3
<1>8. ASSUME NEW p \in 1 .. m + 1 PROVE h[p] \in S \cup {n} /\ u[p] = g[h[p]]
  <2>1. CASE p = m + 1 BY <1>2, <1>4, <2>1
  <2>2. CASE p # m + 1
    <3>1. p \in 1 .. m BY <1>3, <2>2
    <3>2. f[p] \in S /\ l[p] = g[f[p]] BY <1>1, <3>1 DEF Embeds, m
    <3> QED BY <1>2, <1>4, <3>1, <3>2
  <2> QED BY <2>1, <2>2
<1>9. ASSUME NEW i \in S \cup {n} PROVE \E p \in 1 .. m + 1 : h[p] = i
  <2>1. CASE i = n BY <1>3, <1>4, <2>1
  <2>2. CASE i \in S
    <3>1. PICK p \in 1 .. m : f[p] = i BY <1>1, <2>2 DEF Embeds, m
    <3> QED BY <1>3, <1>4, <3>1
  <2> QED BY <2>1, <2>2
<1>10. Embeds(u, h, g, S \cup {n}) BY <1>2, <1>7, <1>8, <1>9 DEF Embeds
<1> QED BY <1>10 DEF Picks, u

\* One that was missing, at its own place, when all before it are there.
LEMMA PicksMissing ==
  ASSUME NEW M, NEW g \in Seq(M), NEW l \in Seq(M), NEW S, Picks(l, g, S),
         NEW q \in 1 .. Len(g), q \notin S, (1 .. q - 1) \subseteq S
  PROVE  q <= Len(l) + 1 /\ Picks(InsertAt(l, q, g[q]), g, S \cup {q})
<1> DEFINE u == InsertAt(l, q, g[q])
           m == Len(l)
<1>1. PICK f : Embeds(l, f, g, S) BY DEF Picks
<1>2. m \in Nat OBVIOUS
<1>3. /\ f \in [1 .. m -> Nat \ {0}] /\ \A p \in 1 .. m : f[p] \in S /\ f[p] # q /\ l[p] = g[f[p]]
      /\ Ascends(f, m) /\ \A i \in S : \E p \in 1 .. m : f[p] = i
  BY <1>1 DEF Embeds, Ascends
<1>4. q - 1 <= m /\ \A i \in 1 .. q - 1 : f[i] = i
  <2> DEFINE r == q - 1
  <2>1. r \in Nat /\ HasAll(f, m, r) BY <1>3 DEF HasAll
  <2>2. Ascends(f, m) BY <1>3
  <2> HIDE DEF m, r
  <2>3. r <= m /\ \A i \in 1 .. r : f[i] = i BY ONLY <1>2, <2>2, <2>1, FirstOnes
  <2> QED BY <2>3 DEF r
<1>5. /\ Len(u) = m + 1 /\ u[q] = g[q]
      /\ \A p \in 1 .. m : p < q => u[p] = l[p]
      /\ \A p \in 1 .. m : p >= q => u[p + 1] = l[p]
  <2>1. q \in 1 .. Len(l) + 1 /\ g[q] \in M BY <1>4
  <2> HIDE DEF u
  <2>2. u = InsertAt(l, q, g[q]) BY DEF u
  <2> QED BY <2>1, <2>2, Inserted
<1> HIDE DEF u, m
<1>6. ASSUME NEW p \in 1 .. m, p >= q PROVE f[p] > q
  <2>1. CASE q = 1
    <3>1. f[p] \in Nat \ {0} /\ f[p] # 1 BY <1>3, <2>1
    <3> QED BY <2>1, <3>1
  <2>2. CASE q # 1
    <3>1. q - 1 \in 1 .. m /\ q - 1 < p BY <1>4, <2>2, <1>2, <1>6
    <3>2. f[q - 1] < f[p] /\ f[q - 1] = q - 1 BY <1>3, <1>4, <3>1, <2>2 DEF Ascends
    <3>3. f[p] \in Nat /\ f[p] # q BY <1>3
    <3> QED BY <3>2, <3>3
  <2> QED BY <2>1, <2>2
<1> DEFINE h == [p \in 1 .. m + 1 |-> IF p < q THEN f[p] ELSE IF p = q THEN q ELSE f[p - 1]]
<1>7. /\ \A p \in 1 .. m : p < q => h[p] = f[p]
      /\ h[q] = q /\ q \in 1 .. m + 1
      /\ \A p \in 1 .. m : p >= q => h[p + 1] = f[p]
  <2>1. q \in 1 .. m + 1 BY <1>2, <1>4
  <2>2. h[q] = q BY <2>1
  <2>3. ASSUME NEW p \in 1 .. m, p < q PROVE h[p] = f[p] BY <1>2, <2>3
  <2>4. ASSUME NEW p \in 1 .. m, p >= q PROVE h[p + 1] = f[p]
    <3>1. p + 1 \in 1 .. m + 1 /\ ~(p + 1 < q) /\ p + 1 # q /\ (p + 1) - 1 = p BY <1>2, <2>4
    <3> QED BY <3>1
  <2> QED BY <2>1, <2>2, <2>3, <2>4
<1>8. h \in [1 .. m + 1 -> Nat \ {0}]
  <2> SUFFICES ASSUME NEW p \in 1 .. m + 1
               PROVE  (IF p < q THEN f[p] ELSE IF p = q THEN q ELSE f[p - 1]) \in Nat \ {0}
    OBVIOUS
  <2>1. CASE p < q
    <3>1. p \in 1 .. m BY <1>2, <1>4, <2>1
    <3> QED BY <1>3, <2>1, <3>1
  <2>2. CASE p = q BY <2>2
  <2>3. CASE p > q
    <3>1. p - 1 \in 1 .. m BY <1>2, <2>3
    <3> QED BY <1>3, <2>3, <3>1, SMTT(30)
  <2> QED BY <2>1, <2>2, <2>3
<1> HIDE DEF h
\* Each place of the new list is one of the old, or the new one.
<1>9. ASSUME NEW p \in 1 .. m + 1
      PROVE  \/ p < q /\ p \in 1 .. m
             \/ p = q
             \/ p > q /\ p - 1 \in 1 .. m /\ p - 1 >= q /\ (p - 1) + 1 = p
  BY <1>2, <1>4
<1>10. Ascends(h, m + 1)
  <2> SUFFICES ASSUME NEW j \in 1 .. m + 1, NEW k \in 1 .. m + 1, j < k PROVE h[j] < h[k]
    BY <1>8 DEF Ascends
  <2>1. CASE k < q
    <3>1. j < q /\ j \in 1 .. m /\ k \in 1 .. m BY <1>2, <1>4, <2>1
    <3>2. f[j] < f[k] BY <1>3, <3>1 DEF Ascends
    <3> QED BY <1>7, <2>1, <3>1, <3>2
  <2>2. CASE k = q
    <3>1. j \in 1 .. q - 1 /\ j \in 1 .. m BY <1>2, <1>4, <2>2
    <3>2. f[j] = j BY <1>4, <3>1
    <3> QED BY <1>7, <2>2, <3>1, <3>2
  <2>3. CASE k > q
    <3>1. k - 1 \in 1 .. m /\ k - 1 >= q /\ (k - 1) + 1 = k BY <1>2, <2>3
    <3>2. h[k] = f[k - 1] /\ f[k - 1] > q
      <4>1. h[(k - 1) + 1] = f[k - 1] BY <1>7, <3>1
      <4>2. f[k - 1] > q BY <1>6, <3>1
      <4> QED BY <3>1, <4>1, <4>2
    <3>3. CASE j < q
      <4>1. j \in 1 .. m /\ j \in 1 .. q - 1 BY <1>2, <1>4, <3>3
      <4>2. h[j] = j BY <1>4, <1>7, <3>3, <4>1
      <4>3. f[k - 1] \in Nat BY <1>3, <3>1
      <4> QED BY <3>2, <3>3, <4>2, <4>3
    <3>4. CASE j = q BY <1>7, <3>2, <3>4, <3>1, <1>3
    <3>5. CASE j > q
      <4>1. j - 1 \in 1 .. m /\ j - 1 >= q /\ (j - 1) + 1 = j BY <1>2, <3>5
      <4>2. h[(j - 1) + 1] = f[j - 1] BY <1>7, <4>1
      <4>3. h[j] = f[j - 1] BY <4>1, <4>2
      <4>4. f[j - 1] < f[k - 1] BY <1>3, <3>1, <4>1 DEF Ascends
      <4> QED BY <3>2, <4>3, <4>4
    <3> QED BY <3>3, <3>4, <3>5
  <2> QED BY <2>1, <2>2, <2>3
<1>11. ASSUME NEW p \in 1 .. m + 1 PROVE h[p] \in S \cup {q} /\ u[p] = g[h[p]]
  <2>1. CASE p < q /\ p \in 1 .. m BY <1>3, <1>5, <1>7, <2>1
  <2>2. CASE p = q BY <1>5, <1>7, <2>2
  <2>3. CASE p > q /\ p - 1 \in 1 .. m /\ p - 1 >= q /\ (p - 1) + 1 = p
    <3>1. h[(p - 1) + 1] = f[p - 1] /\ u[(p - 1) + 1] = l[p - 1] BY <1>5, <1>7, <2>3
    <3>2. h[p] = f[p - 1] /\ u[p] = l[p - 1] BY <2>3, <3>1
    <3> QED BY <1>3, <2>3, <3>2
  <2> QED BY <1>9, <2>1, <2>2, <2>3
<1>12. ASSUME NEW i \in S \cup {q} PROVE \E p \in 1 .. m + 1 : h[p] = i
  <2>1. CASE i = q BY <1>7, <2>1
  <2>2. CASE i \in S
    <3>1. PICK p \in 1 .. m : f[p] = i BY <1>3, <2>2
    <3>2. CASE p < q BY <1>2, <1>7, <3>1, <3>2
    <3>3. CASE p >= q
      <4>1. p + 1 \in 1 .. m + 1 BY <1>2
      <4> QED BY <1>7, <3>1, <3>3, <4>1
    <3> QED BY <3>2, <3>3
  <2> QED BY <2>1, <2>2
<1>13. Embeds(u, h, g, S \cup {q}) BY <1>5, <1>10, <1>11, <1>12 DEF Embeds
<1>14. q <= m + 1 BY <1>7
<1> QED BY <1>13, <1>14 DEF Picks, u, m

\* All there is.
LEMMA PicksAll ==
  ASSUME NEW M, NEW g \in Seq(M), NEW l \in Seq(M), Picks(l, g, 1 .. Len(g))
  PROVE  l = g
<1>1. PICK f : Embeds(l, f, g, 1 .. Len(g)) BY DEF Picks
<1> DEFINE m == Len(l)
           n == Len(g)
<1>2. m \in Nat /\ n \in Nat /\ Ascends(f, m) BY <1>1 DEF Embeds
<1>3. n <= m /\ \A i \in 1 .. n : f[i] = i
  <2>1. HasAll(f, m, n) BY <1>1 DEF Embeds, HasAll
  <2> HIDE DEF m, n
  <2>2. m \in Nat /\ n \in Nat /\ Ascends(f, m) BY <1>2
  <2> QED BY ONLY <2>1, <2>2, FirstOnes
<1>4. m <= n
  <2>1. CASE m = 0 BY <1>2, <2>1
  <2>2. CASE m # 0
    <3>1. m \in 1 .. m BY <1>2, <2>2
    <3>2. f[m] <= n BY <1>1, <3>1 DEF Embeds
    <3> HIDE DEF m
    <3>3. f[m] >= m BY <1>2, <3>1, AtLeast
    <3>4. f[m] \in Nat BY <1>2, <3>1 DEF Ascends
    <3> QED BY <1>2, <3>2, <3>3, <3>4
  <2> QED BY <2>1, <2>2
<1>5. ASSUME NEW i \in 1 .. n PROVE l[i] = g[i]
  <2>1. i \in 1 .. m /\ f[i] = i BY <1>2, <1>3
  <2> QED BY <1>1, <2>1 DEF Embeds
<1> QED BY <1>2, <1>3, <1>4, <1>5, SeqEqual

-----------------------------------------------------------------------------
(* The inductive invariant.                                                  *)

SystemFields == {NoSystem, "agent's", "miner's"}
Payloads == [present : BOOLEAN, messages : Seq(Messages), system : SystemFields]
HeldMessages == [index : Nat, message : Messages]

Types ==
    /\ mutate \in BOOLEAN /\ edited \in BOOLEAN
    /\ stage \in {"strip", "compress", "sift", "insert", "restored", "failed"}
    /\ request \in Payloads /\ stripped \in Payloads /\ answer \in Payloads /\ restored \in Payloads
    /\ protected \in Seq(HeldMessages)
    /\ system \in SystemFields
    /\ list \in Seq(Messages) /\ next \in Nat \ {0}
    /\ request.messages # <<>> => request.present

\* The places, from 1, of what is held.
Places(held) == [k \in 1 .. Len(held) |-> held[k].index + 1]

\* What is held is what there is to protect in the first n messages, in order.
HeldUpTo(held, g, n) ==
    /\ Ascends(Places(held), Len(held))
    /\ \A k \in 1 .. Len(held) :
          /\ Places(held)[k] \in Protected(g) /\ Places(held)[k] <= n
          /\ held[k].message = g[Places(held)[k]]
    /\ \A i \in Protected(g) : i <= n => \E k \in 1 .. Len(held) : Places(held)[k] = i

Sent == request.messages
Free(g, n) == (1 .. n) \ Protected(g)

StripInv ==
    stage = "strip" =>
        /\ next <= Len(Sent) + 1
        /\ HeldUpTo(protected, Sent, next - 1) /\ Picks(list, Sent, Free(Sent, next - 1))

AfterStrip ==
    stage # "strip" =>
        /\ HeldUpTo(protected, Sent, Len(Sent)) /\ system = request.system
        /\ Picks(stripped.messages, Sent, Free(Sent, Len(Sent)))
        /\ stripped.present = request.present /\ stripped.system = NoSystem
        /\ stage \in {"sift", "insert", "restored"} =>
              /\ ~mutate /\ ~edited => answer = stripped
              /\ answer.system # NoSystem => mutate /\ ~answer.present

\* Nothing is sifted out of what comes back as it went.
SiftInv ==
    stage = "sift" =>
        /\ next <= Len(answer.messages) + 1
        /\ \A p \in 1 .. Len(list) : list[p].role # "system"
        /\ answer = stripped => /\ Len(list) = next - 1
                                /\ \A p \in 1 .. Len(list) : list[p] = answer.messages[p]

\* Where the k-th protected message is put behind n others that came back.
Home(held, k, n) == Least(Places(held)[k], n + k)

AtHome(l, held, m) ==
    LET n == Len(l) - m
    IN  /\ m <= Len(held) /\ m <= Len(l)
        /\ \A k \in 1 .. m : /\ Home(held, k, n) \in 1 .. Len(l)
                             /\ l[Home(held, k, n)] = held[k].message
        /\ \A p \in 1 .. Len(l) : l[p].role = "system" => \E k \in 1 .. m : p = Home(held, k, n)

InsertInv ==
    stage \in {"insert", "restored"} =>
        /\ AtHome(list, protected, next - 1)
        /\ answer = stripped =>
              Picks(list, Sent, Free(Sent, Len(Sent)) \cup {Places(protected)[k] : k \in 1 .. next - 1})

Written == IF list # <<>> \/ protected # <<>> THEN Payload(list, answer.system) ELSE answer

RestoredInv ==
    stage = "restored" =>
        /\ next = Len(protected) + 1
        /\ restored = [Written EXCEPT !.system = IF system # NoSystem THEN system ELSE @]

GuardInv == Types /\ StripInv /\ AfterStrip /\ SiftInv /\ InsertInv /\ RestoredInv

-----------------------------------------------------------------------------
(* Steps.                                                                    *)

LEMMA PayloadIs ==
  ASSUME NEW l \in Seq(Messages), NEW f \in SystemFields
  PROVE  /\ Payload(l, f) \in Payloads /\ NoMessages(f) \in Payloads
         /\ Payload(l, f).messages = l /\ Payload(l, f).system = f /\ Payload(l, f).present = TRUE
         /\ NoMessages(f).messages = <<>> /\ NoMessages(f).system = f
BY DEF Payload, NoMessages, Payloads

LEMMA InitGuard == Init => GuardInv
<1> SUFFICES ASSUME Init PROVE GuardInv OBVIOUS
<1>1. Types
  <2>1. request \in Payloads /\ (request.messages # <<>> => request.present)
    <3>1. \A msgs \in Requests : msgs \in Seq(Messages) BY MessagesAssumption
    <3>2. NoSystem \in SystemFields /\ "agent's" \in SystemFields BY DEF SystemFields
    <3>3. PICK field \in {NoSystem, "agent's"} :
             request \in {Payload(msgs, field) : msgs \in Requests} \cup {NoMessages(field)}
      BY DEF Init
    <3>4. field \in SystemFields BY <3>2, <3>3
    <3>5. ASSUME NEW msgs \in Requests, request = Payload(msgs, field)
          PROVE  request \in Payloads /\ request.present
      BY <3>1, <3>4, <3>5, PayloadIs
    <3>6. ASSUME request = NoMessages(field) PROVE request \in Payloads /\ request.messages = <<>>
      <4>1. <<>> \in Seq(Messages) OBVIOUS
      <4> QED BY <3>4, <3>6, <4>1, PayloadIs
    <3> QED BY <3>3, <3>5, <3>6
  <2>2. NoSystem \in SystemFields BY DEF SystemFields
  <2>3. edited \in BOOLEAN /\ mutate \in BOOLEAN BY Zenon DEF Init
  <2>4. /\ stage = "strip" /\ stripped = request /\ answer = request /\ restored = request
        /\ protected = <<>> /\ system = NoSystem /\ list = <<>> /\ next = 1
    BY DEF Init
  <2> QED BY <2>1, <2>2, <2>3, <2>4 DEF Types
<1>2. Sent \in Seq(Messages) BY <1>1 DEF Types, Payloads, Sent
<1>3. HeldUpTo(<<>>, Sent, 0)
  <2>1. \A i \in Protected(Sent) : i \in Nat /\ i >= 1 BY <1>2 DEF Protected, FirstUser
  <2>2. Places(<<>>) \in [1 .. 0 -> Nat \ {0}] BY DEF Places
  <2>3. Ascends(Places(<<>>), 0) BY <2>2 DEF Ascends
  <2>4. Len(<<>>) = 0 OBVIOUS
  <2> QED BY <2>1, <2>3, <2>4 DEF HeldUpTo
<1>4. Free(Sent, 0) = {} BY DEF Free
<1>5. Picks(<<>>, Sent, {}) BY PicksNone
<1>6. next = 1 /\ next - 1 = 0 /\ protected = <<>> /\ list = <<>> /\ Len(Sent) \in Nat
  BY <1>2 DEF Init
<1>7. StripInv
  <2>1. HeldUpTo(protected, Sent, next - 1) BY <1>3, <1>6
  <2>2. Picks(list, Sent, Free(Sent, next - 1)) BY <1>4, <1>5, <1>6
  <2> QED BY <1>6, <2>1, <2>2 DEF StripInv
<1> QED BY <1>1, <1>7 DEF GuardInv, AfterStrip, SiftInv, InsertInv, RestoredInv, Init

\* The first user message is protected, and no other one is.
LEMMA ProtectedIs ==
  ASSUME GuardInv, stage = "strip", next <= Len(Sent)
  PROVE  IsProtected(Sent[next]) <=> next \in Protected(Sent)
<1> DEFINE n == next - 1
<1>1. /\ Sent \in Seq(Messages) /\ DOMAIN Sent = 1 .. Len(Sent) /\ Len(Sent) \in Nat
      /\ next \in 1 .. Len(Sent) /\ n \in Nat
      /\ protected \in Seq(HeldMessages) /\ DOMAIN protected = 1 .. Len(protected)
  BY DEF GuardInv, Types, Payloads, Sent
<1>2. HeldUpTo(protected, Sent, n) BY DEF GuardInv, StripInv
<1>3. ASSUME TaskHeld PROVE \E j \in 1 .. n : Sent[j].role = "user"
  <2>1. PICK k \in 1 .. Len(protected) : protected[k].message.role = "user"
    BY <1>1, <1>3 DEF TaskHeld
  <2> DEFINE j == Places(protected)[k]
  <2>2. j \in Protected(Sent) /\ j <= n /\ Sent[j].role = "user" BY <1>2, <2>1 DEF HeldUpTo
  <2>3. j \in 1 .. n BY <1>1, <2>2 DEF Protected, FirstUser
  <2> QED BY <2>2, <2>3
<1>4. ASSUME NEW j \in 1 .. n, Sent[j].role = "user" PROVE TaskHeld
  <2> DEFINE U == {i \in 1 .. n : Sent[i].role = "user"}
  <2>1. PICK i \in U : \A w \in U : i <= w
    <3>1. U \in SUBSET Nat /\ U # {} BY <1>4
    <3> QED BY <3>1, Smallest
  <2>2. i \in FirstUser(Sent)
    <3>1. i \in DOMAIN Sent /\ Sent[i].role = "user" BY <1>1
    <3>2. ASSUME NEW w \in 1 .. i - 1, Sent[w].role = "user" PROVE FALSE
      <4>1. w \in 1 .. n /\ w < i BY <1>1
      <4>2. w \in U BY <3>2, <4>1
      <4> QED BY <2>1, <4>1, <4>2
    <3> QED BY <3>1, <3>2 DEF FirstUser
  <2>3. PICK k \in 1 .. Len(protected) : Places(protected)[k] = i
    BY <1>2, <2>2 DEF HeldUpTo, Protected
  <2>4. protected[k].message = Sent[i] BY <1>2, <2>3 DEF HeldUpTo
  <2> QED BY <1>1, <2>1, <2>3, <2>4 DEF TaskHeld
<1>5. next \in FirstUser(Sent) <=> Sent[next].role = "user" /\ ~TaskHeld
  <2>1. next \in FirstUser(Sent) <=>
           Sent[next].role = "user" /\ \A j \in 1 .. n : Sent[j].role # "user"
    BY <1>1 DEF FirstUser
  <2> QED BY <1>3, <1>4, <2>1
<1>6. next \in Protected(Sent) <=> Sent[next].role = "system" \/ next \in FirstUser(Sent)
  BY <1>1 DEF Protected
<1> QED BY <1>5, <1>6 DEF IsProtected

\* One more is held.
LEMMA HeldNext ==
  ASSUME NEW held \in Seq(HeldMessages), NEW g \in Seq(Messages), NEW n \in 1 .. Len(g),
         HeldUpTo(held, g, n - 1), n \in Protected(g)
  PROVE  /\ Append(held, Held(n, g[n])) \in Seq(HeldMessages)
         /\ HeldUpTo(Append(held, Held(n, g[n])), g, n)
<1> DEFINE u == Append(held, Held(n, g[n]))
           m == Len(held)
<1>1. Held(n, g[n]) \in HeldMessages /\ Held(n, g[n]).index = n - 1 /\ Held(n, g[n]).message = g[n]
  BY DEF Held, HeldMessages
<1>2. /\ u \in Seq(HeldMessages) /\ Len(u) = m + 1 /\ u[m + 1] = Held(n, g[n])
      /\ \A k \in 1 .. m : u[k] = held[k]
  BY <1>1
<1>3. m \in Nat OBVIOUS
<1> HIDE DEF u, m
<1>4. /\ Places(u)[m + 1] = n /\ \A k \in 1 .. m : Places(u)[k] = Places(held)[k]
      /\ Places(u) \in [1 .. m + 1 -> Nat \ {0}]
  <2>1. Places(u)[m + 1] = n BY <1>1, <1>2, <1>3 DEF Places
  <2>2. ASSUME NEW k \in 1 .. m PROVE Places(u)[k] = Places(held)[k]
    BY <1>2, <1>3 DEF Places, m
  <2>3. ASSUME NEW k \in 1 .. m + 1 PROVE u[k].index + 1 \in Nat \ {0}
    <3>1. u[k] \in HeldMessages BY <1>2
    <3> QED BY <3>1 DEF HeldMessages
  <2>4. Places(u) \in [1 .. m + 1 -> Nat \ {0}] BY <1>2, <2>3 DEF Places
  <2> QED BY <2>1, <2>2, <2>4
<1>5. /\ Ascends(Places(held), m)
      /\ \A k \in 1 .. m : /\ Places(held)[k] \in Protected(g) /\ Places(held)[k] <= n - 1
                           /\ held[k].message = g[Places(held)[k]]
      /\ \A i \in Protected(g) : i <= n - 1 => \E k \in 1 .. m : Places(held)[k] = i
  BY DEF HeldUpTo, m
<1>6. Ascends(Places(u), m + 1)
  <2> SUFFICES ASSUME NEW j \in 1 .. m + 1, NEW k \in 1 .. m + 1, j < k
               PROVE  Places(u)[j] < Places(u)[k]
    BY <1>4 DEF Ascends
  <2>1. j \in 1 .. m BY <1>3
  <2>2. CASE k = m + 1
    <3>1. Places(held)[j] <= n - 1 /\ Places(held)[j] \in Nat BY <1>5, <2>1 DEF Ascends
    <3> QED BY <1>4, <2>1, <2>2, <3>1
  <2>3. CASE k # m + 1
    <3>1. k \in 1 .. m BY <1>3, <2>3
    <3>2. Places(held)[j] < Places(held)[k] BY <1>5, <2>1, <3>1 DEF Ascends
    <3> QED BY <1>4, <2>1, <3>1, <3>2
  <2> QED BY <2>2, <2>3
<1>7. ASSUME NEW k \in 1 .. m + 1
      PROVE  Places(u)[k] \in Protected(g) /\ Places(u)[k] <= n /\ u[k].message = g[Places(u)[k]]
  <2>1. CASE k = m + 1 BY <1>1, <1>2, <1>4, <2>1
  <2>2. CASE k # m + 1
    <3>1. k \in 1 .. m BY <1>3, <2>2
    <3>2. Places(held)[k] \in Nat BY <1>5, <3>1 DEF Ascends
    <3> QED BY <1>2, <1>4, <1>5, <3>1, <3>2
  <2> QED BY <2>1, <2>2
<1>8. ASSUME NEW i \in Protected(g), i <= n PROVE \E k \in 1 .. m + 1 : Places(u)[k] = i
  <2>1. CASE i = n BY <1>3, <1>4, <2>1
  <2>2. CASE i # n
    <3>1. i \in Nat BY DEF Protected, FirstUser
    <3>2. i <= n - 1 BY <1>8, <2>2, <3>1
    <3>3. PICK k \in 1 .. m : Places(held)[k] = i BY <1>5, <3>2
    <3> QED BY <1>3, <1>4, <3>3
  <2> QED BY <2>1, <2>2
<1>9. HeldUpTo(u, g, n) BY <1>2, <1>6, <1>7, <1>8 DEF HeldUpTo
<1> QED BY <1>2, <1>9 DEF u

LEMMA HoldBackStep == ASSUME GuardInv, HoldBack PROVE GuardInv'
<1> DEFINE msg == Sent[next]
<1>1. /\ stage = "strip" /\ stage' = "strip" /\ next <= Len(Sent) /\ next' = next + 1
      /\ Sent' = Sent /\ next' - 1 = next
      /\ UNCHANGED <<mutate, edited, request, system, stripped, answer, restored>>
  BY DEF HoldBack, Sent, GuardInv, Types
<1>2. /\ Sent \in Seq(Messages) /\ next \in 1 .. Len(Sent) /\ Len(Sent) \in Nat
      /\ protected \in Seq(HeldMessages) /\ list \in Seq(Messages) /\ msg \in Messages
  BY <1>1 DEF GuardInv, Types, Payloads, Sent
<1>3. HeldUpTo(protected, Sent, next - 1) /\ Picks(list, Sent, Free(Sent, next - 1))
  BY <1>1 DEF GuardInv, StripInv
<1>4. CASE next \in Protected(Sent)
  <2>1. protected' = Append(protected, Held(next, msg)) /\ list' = list
    BY <1>1, <1>4, ProtectedIs DEF HoldBack, Sent
  <2>2. protected' \in Seq(HeldMessages) /\ HeldUpTo(protected', Sent, next)
    BY <1>2, <1>3, <1>4, <2>1, HeldNext
  <2>3. Free(Sent, next - 1) = Free(Sent, next)
    <3>1. 1 .. next = (1 .. next - 1) \cup {next} BY <1>2
    <3> QED BY <1>4, <3>1 DEF Free
  <2>4. StripInv' BY <1>1, <1>2, <1>3, <2>1, <2>2, <2>3 DEF StripInv
  <2>5. Types' BY <1>1, <1>2, <2>1, <2>2 DEF GuardInv, Types
  <2> QED BY <1>1, <2>4, <2>5 DEF GuardInv, AfterStrip, SiftInv, InsertInv, RestoredInv
<1>5. CASE next \notin Protected(Sent)
  <2>1. list' = Append(list, msg) /\ protected' = protected
    BY <1>1, <1>5, ProtectedIs DEF HoldBack, Sent
  <2>2. \A i \in Free(Sent, next - 1) : i < next BY <1>2 DEF Free
  <2>3. Picks(list', Sent, Free(Sent, next - 1) \cup {next}) BY <1>2, <1>3, <2>1, <2>2, PicksNext
  <2>4. Free(Sent, next) = Free(Sent, next - 1) \cup {next}
    <3>1. 1 .. next = (1 .. next - 1) \cup {next} BY <1>2
    <3> QED BY <1>5, <3>1 DEF Free
  <2>5. HeldUpTo(protected, Sent, next)
    <3>1. \A i \in Protected(Sent) : i \in Nat /\ i # next BY <1>2, <1>5 DEF Protected, FirstUser
    <3>2. \A i \in Protected(Sent) : i <= next => i <= next - 1 BY <1>2, <3>1
    <3>3. \A k \in 1 .. Len(protected) : Places(protected)[k] <= next - 1 /\ Places(protected)[k] \in Nat
      BY <1>3 DEF HeldUpTo, Ascends
    <3>4. \A k \in 1 .. Len(protected) : Places(protected)[k] <= next BY <1>2, <3>3
    <3> QED BY <1>3, <3>2, <3>4 DEF HeldUpTo
  <2>6. StripInv'
    <3>1. Picks(list', Sent, Free(Sent, next)) BY <2>3, <2>4
    <3>2. HeldUpTo(protected', Sent, next) BY <2>1, <2>5
    <3> QED BY <1>1, <1>2, <3>1, <3>2 DEF StripInv
  <2>7. Types' BY <1>1, <1>2, <2>1 DEF GuardInv, Types
  <2> QED BY <1>1, <2>6, <2>7 DEF GuardInv, AfterStrip, SiftInv, InsertInv, RestoredInv
<1> QED BY <1>4, <1>5

LEMMA StripStep == ASSUME GuardInv, Strip PROVE GuardInv'
<1>1. /\ stage = "strip" /\ stage' = "compress" /\ next > Len(Sent) /\ Sent' = Sent
      /\ stripped' = [request EXCEPT !.messages = list, !.system = NoSystem]
      /\ system' = request.system
      /\ UNCHANGED <<mutate, edited, request, protected, answer, restored, list, next>>
  BY DEF Strip, Sent
<1>2. /\ request \in Payloads /\ list \in Seq(Messages) /\ next \in Nat /\ Len(Sent) \in Nat
  BY DEF GuardInv, Types, Payloads, Sent
<1>3. next - 1 = Len(Sent) BY <1>1, <1>2 DEF GuardInv, StripInv
<1>4. HeldUpTo(protected, Sent, Len(Sent)) /\ Picks(list, Sent, Free(Sent, Len(Sent)))
  BY <1>1, <1>3 DEF GuardInv, StripInv
<1>5. /\ stripped' \in Payloads /\ stripped'.messages = list /\ stripped'.present = request.present
      /\ stripped'.system = NoSystem
  BY <1>1, <1>2 DEF Payloads, SystemFields
<1>6. Types' BY <1>1, <1>2, <1>5 DEF GuardInv, Types, Payloads
<1>7. AfterStrip' BY <1>1, <1>4, <1>5 DEF AfterStrip
<1> QED BY <1>1, <1>6, <1>7 DEF GuardInv, StripInv, SiftInv, InsertInv, RestoredInv

LEMMA CompressStep == ASSUME GuardInv, Compress PROVE GuardInv'
<1>1. /\ stage = "compress" /\ stage' = "sift" /\ list' = <<>> /\ next' = 1
      /\ UNCHANGED <<mutate, request, protected, system, stripped, restored>> /\ Sent' = Sent
  BY DEF Compress, Sent
<1>2. stripped \in Payloads /\ mutate \in BOOLEAN /\ stripped.system = NoSystem
  BY <1>1 DEF GuardInv, Types, AfterStrip
<1>3. PICK left \in (IF stripped.present THEN Compressed ELSE {}) \cup {stripped.messages} :
         edited' = (left # stripped.messages) /\ Taken([stripped EXCEPT !.messages = left])
  BY DEF Compress
<1> DEFINE lent == [stripped EXCEPT !.messages = left]
<1>4. left \in Seq(Messages) /\ \A msgs \in Compressed \cup {BaseMiner} : msgs \in Seq(Messages)
  BY <1>2, MessagesAssumption DEF BaseMiner, Payloads
<1>5. /\ lent \in Payloads /\ lent.system = NoSystem
      /\ left = stripped.messages => lent = stripped
  BY <1>2, <1>4 DEF Payloads
<1>6. edited' \in BOOLEAN /\ (~edited' => lent = stripped) BY <1>3, <1>5
<1> HIDE DEF lent
<1>7. /\ answer' \in Payloads
      /\ ~mutate => answer' = lent
      /\ answer'.system # NoSystem => mutate /\ ~answer'.present
  <2>1. lent.system \in SystemFields /\ NoSystem \in SystemFields /\ "miner's" \in SystemFields
    BY <1>5 DEF Payloads, SystemFields
  <2>2. Taken(lent) BY <1>3 DEF lent
  <2>3. CASE mutate /\ \E msgs \in Compressed \cup {BaseMiner} : answer' = Payload(msgs, lent.system)
    <3>1. PICK msgs \in Compressed \cup {BaseMiner} : answer' = Payload(msgs, lent.system)
      BY <2>3
    <3>2. msgs \in Seq(Messages) BY <1>4
    <3> QED BY <1>5, <2>1, <2>3, <3>1, <3>2, PayloadIs
  <2>4. CASE mutate /\ \E field \in {NoSystem, "miner's"} : answer' = NoMessages(field)
    <3>1. PICK field \in SystemFields : answer' = NoMessages(field) BY <2>1, <2>4
    <3>2. <<>> \in Seq(Messages) OBVIOUS
    <3>3. answer' \in Payloads BY <3>1, <3>2, PayloadIs
    <3>4. ~answer'.present BY <3>1 DEF NoMessages
    <3> QED BY <2>4, <3>3, <3>4
  <2>5. CASE answer' = lent BY <1>5, <2>5
  <2> QED BY <2>2, <2>3, <2>4, <2>5 DEF Taken
<1>8. answer' \in [present : BOOLEAN, messages : Seq(Messages), system : SystemFields]
      /\ Len(answer'.messages) \in Nat
  BY <1>7 DEF Payloads
<1>9. Types' BY <1>1, <1>6, <1>7 DEF GuardInv, Types
<1>10. AfterStrip' BY <1>1, <1>6, <1>7 DEF GuardInv, AfterStrip
<1>11. SiftInv' BY <1>1, <1>8 DEF SiftInv
<1> QED BY <1>1, <1>9, <1>10, <1>11 DEF GuardInv, StripInv, InsertInv, RestoredInv

LEMMA CompressFailsStep == ASSUME GuardInv, CompressFails PROVE GuardInv'
<1>1. /\ stage = "compress" /\ stage' = "failed" /\ Sent' = Sent
      /\ UNCHANGED <<mutate, edited, request, protected, system, stripped, answer, restored, list, next>>
  BY DEF CompressFails, Sent
<1> QED BY <1>1 DEF GuardInv, Types, StripInv, AfterStrip, SiftInv, InsertInv, RestoredInv

LEMMA SiftStep == ASSUME GuardInv, Sift PROVE GuardInv'
<1> DEFINE msg == answer.messages[next]
<1>1. /\ stage = "sift" /\ stage' = "sift" /\ next <= Len(answer.messages) /\ next' = next + 1
      /\ list' = (IF Injected(msg) THEN list ELSE Append(list, msg)) /\ Sent' = Sent
      /\ UNCHANGED <<mutate, edited, request, protected, system, stripped, answer, restored>>
  BY DEF Sift, Sent
<1>2. /\ answer.messages \in Seq(Messages) /\ Len(answer.messages) \in Nat
      /\ next \in 1 .. Len(answer.messages) /\ msg \in Messages
      /\ list \in Seq(Messages) /\ Len(list) \in Nat /\ next' - 1 = next
  BY <1>1 DEF GuardInv, Types, Payloads
<1>3. list' \in Seq(Messages) BY <1>1, <1>2
<1>4. \A p \in 1 .. Len(list) : list[p].role # "system" BY <1>1 DEF GuardInv, SiftInv
<1>5. \A p \in 1 .. Len(list') : list'[p].role # "system"
  <2>1. CASE Injected(msg) BY <1>1, <1>4, <2>1
  <2>2. CASE ~Injected(msg)
    <3>1. list' = Append(list, msg) /\ msg.role # "system" BY <1>1, <2>2 DEF Injected
    <3>2. Len(list') = Len(list) + 1 /\ list'[Len(list) + 1] = msg
          /\ \A p \in 1 .. Len(list) : list'[p] = list[p]
      BY <1>2, <3>1
    <3>3. \A p \in 1 .. Len(list) + 1 : p = Len(list) + 1 \/ p \in 1 .. Len(list) BY <1>2
    <3> QED BY <1>4, <3>1, <3>2, <3>3
  <2> QED BY <2>1, <2>2
<1>6. ASSUME answer = stripped
      PROVE  Len(list') = next /\ \A p \in 1 .. Len(list') : list'[p] = answer.messages[p]
  <2>1. PICK f : Embeds(answer.messages, f, Sent, Free(Sent, Len(Sent)))
    BY <1>1, <1>6 DEF GuardInv, AfterStrip, Picks
  <2>2. f[next] \in Free(Sent, Len(Sent)) /\ msg = Sent[f[next]] BY <1>2, <2>1 DEF Embeds
  <2>3. Sent \in Seq(Messages) BY DEF GuardInv, Types, Payloads, Sent
  <2>4. f[next] \in DOMAIN Sent /\ f[next] \notin Protected(Sent) BY <2>2, <2>3 DEF Free
  <2>5. msg.role # "system" BY <2>2, <2>4 DEF Protected
  <2>6. list' = Append(list, msg) BY <1>1, <2>5 DEF Injected
  <2>7. Len(list') = Len(list) + 1 /\ list'[Len(list) + 1] = msg
        /\ \A p \in 1 .. Len(list) : list'[p] = list[p]
    BY <1>2, <2>6
  <2>8. Len(list) = next - 1 /\ \A p \in 1 .. Len(list) : list[p] = answer.messages[p]
    BY <1>1, <1>6 DEF GuardInv, SiftInv
  <2>9. Len(list) + 1 = next BY <1>2, <2>8
  <2>10. \A p \in 1 .. next : p = next \/ p \in 1 .. Len(list) BY <1>2, <2>9
  <2> QED BY <2>7, <2>8, <2>9, <2>10
<1>7. SiftInv' BY <1>1, <1>2, <1>5, <1>6 DEF SiftInv
<1>8. Types' BY <1>1, <1>2, <1>3 DEF GuardInv, Types
<1> QED BY <1>1, <1>7, <1>8 DEF GuardInv, StripInv, AfterStrip, InsertInv, RestoredInv

LEMMA SiftedStep == ASSUME GuardInv, Sifted PROVE GuardInv'
<1>1. /\ stage = "sift" /\ stage' = "insert" /\ next > Len(answer.messages) /\ next' = 1
      /\ Sent' = Sent /\ next' - 1 = 0
      /\ UNCHANGED <<mutate, edited, request, protected, system, stripped, answer, restored, list>>
  BY DEF Sifted, Sent
<1>2. /\ answer.messages \in Seq(Messages) /\ list \in Seq(Messages) /\ next \in Nat
      /\ protected \in Seq(HeldMessages)
  BY DEF GuardInv, Types, Payloads
<1>3. AtHome(list, protected, 0)
  <2>1. \A p \in 1 .. Len(list) : list[p].role # "system" BY <1>1 DEF GuardInv, SiftInv
  <2>2. 0 <= Len(protected) /\ 0 <= Len(list) /\ 1 .. 0 = {} BY <1>2
  <2> QED BY <2>1, <2>2 DEF AtHome
<1>4. ASSUME answer = stripped
      PROVE  Picks(list, Sent, Free(Sent, Len(Sent)) \cup {Places(protected)[k] : k \in 1 .. 0})
  <2>1. list = answer.messages
    <3>1. next <= Len(answer.messages) + 1 /\ Len(list) = next - 1
          /\ \A p \in 1 .. Len(list) : list[p] = answer.messages[p]
      BY <1>1, <1>4 DEF GuardInv, SiftInv
    <3>2. Len(list) = Len(answer.messages) BY <1>1, <1>2, <3>1
    <3> QED BY <1>2, <3>1, <3>2, SeqEqual
  <2>2. Picks(list, Sent, Free(Sent, Len(Sent))) BY <1>1, <1>4, <2>1 DEF GuardInv, AfterStrip
  <2>3. {Places(protected)[k] : k \in 1 .. 0} = {} OBVIOUS
  <2>4. Free(Sent, Len(Sent)) \cup {} = Free(Sent, Len(Sent)) OBVIOUS
  <2> QED BY <2>2, <2>3, <2>4
<1>5. InsertInv' BY <1>1, <1>3, <1>4 DEF InsertInv
<1>6. Types' BY <1>1 DEF GuardInv, Types
<1> QED BY <1>1, <1>5, <1>6 DEF GuardInv, StripInv, AfterStrip, SiftInv, RestoredInv

\* The places of what is held.
LEMMA PlacesAre ==
  ASSUME NEW held \in Seq(HeldMessages), NEW g \in Seq(Messages), HeldUpTo(held, g, Len(g)),
         NEW k \in 1 .. Len(held)
  PROVE  /\ Places(held)[k] \in Protected(g) /\ Places(held)[k] \in 1 .. Len(g)
         /\ Places(held)[k] = held[k].index + 1 /\ held[k].index \in Nat
         /\ held[k].message = g[Places(held)[k]] /\ held[k].message \in Messages
         /\ \A j \in 1 .. Len(held) : /\ j < k <=> Places(held)[j] < Places(held)[k]
                                      /\ Places(held)[j] = Places(held)[k] => j = k
<1>1. held[k] \in HeldMessages OBVIOUS
<1>2. Places(held)[k] = held[k].index + 1 BY DEF Places
<1>3. Places(held)[k] \in Protected(g) /\ held[k].message = g[Places(held)[k]] BY DEF HeldUpTo
<1>4. Places(held)[k] \in 1 .. Len(g) BY <1>3 DEF Protected, FirstUser
<1>5. ASSUME NEW j \in 1 .. Len(held)
      PROVE  /\ j < k <=> Places(held)[j] < Places(held)[k]
             /\ Places(held)[j] = Places(held)[k] => j = k
  <2>1. Ascends(Places(held), Len(held)) BY DEF HeldUpTo
  <2>2. Places(held)[j] \in Nat /\ Places(held)[k] \in Nat BY <2>1 DEF Ascends
  <2>3. j < k => Places(held)[j] < Places(held)[k] BY <2>1 DEF Ascends
  <2>4. k < j => Places(held)[k] < Places(held)[j] BY <2>1 DEF Ascends
  <2> QED BY <2>2, <2>3, <2>4
<1> QED BY <1>1, <1>2, <1>3, <1>4, <1>5 DEF HeldMessages

\* One more is put back.
LEMMA AtHomeNext ==
  ASSUME NEW held \in Seq(HeldMessages), NEW g \in Seq(Messages), HeldUpTo(held, g, Len(g)),
         NEW l \in Seq(Messages), NEW k \in 1 .. Len(held), AtHome(l, held, k - 1),
         NEW q, q = Place(l, held[k].index), NEW u, u = InsertAt(l, q, held[k].message)
  PROVE  /\ q = Least(Places(held)[k], Len(l) + 1) /\ u \in Seq(Messages)
         /\ AtHome(u, held, k)
<1> DEFINE m == Len(l)
           n == m - (k - 1)
           h == Places(held)[k]
<1>1. /\ h \in Nat /\ h >= 1 /\ held[k].index \in Int /\ h = held[k].index + 1
      /\ held[k].message \in Messages /\ Len(held) \in Nat
  BY PlacesAre
<1>2. m \in Nat /\ n \in Nat /\ k \in Nat /\ k >= 1 /\ m = n + k - 1 /\ m + 1 - k = n BY DEF AtHome
<1>3. q = Least(h, m + 1) /\ q = Home(held, k, n) /\ q \in 1 .. m + 1
  <2>1. q = Least(held[k].index, m) + 1
    <3>1. q = Min({held[k].index, m}) + 1 BY DEF Place
    <3>2. held[k].index \in Int /\ m \in Int BY <1>1, <1>2
    <3> HIDE DEF m
    <3>3. Min({held[k].index, m}) = Least(held[k].index, m) BY ONLY <3>2, MinOfTwo
    <3> QED BY ONLY <3>1, <3>3
  <2>2. n + k = m + 1 BY <1>2
  <2> HIDE DEF h, m, n
  <2>3. q = Least(h, m + 1) BY <1>1, <1>2, <2>1 DEF Least
  <2>4. q \in 1 .. m + 1 BY <1>1, <1>2, <2>3 DEF Least
  <2> QED BY <2>2, <2>3, <2>4 DEF Home, h
<1>4. /\ u \in Seq(Messages) /\ Len(u) = m + 1 /\ u[q] = held[k].message
      /\ \A p \in 1 .. m : p < q => u[p] = l[p]
      /\ \A p \in 1 .. m : p >= q => u[p + 1] = l[p]
  <2> DEFINE e == held[k].message
  <2>1. /\ q \in 1 .. Len(l) + 1 /\ e \in Messages /\ l \in Seq(Messages)
        /\ u = InsertAt(l, q, e)
    BY <1>1, <1>3
  <2> DEFINE S == Messages
  <2> HIDE DEF e, S, h, n, m
  <2>3. q \in 1 .. Len(l) + 1 /\ e \in S /\ l \in Seq(S) /\ u = InsertAt(l, q, e) BY <2>1 DEF S
  <2>2. /\ u \in Seq(S) /\ Len(u) = Len(l) + 1 /\ u[q] = e
        /\ \A p \in 1 .. Len(l) : p < q => u[p] = l[p]
        /\ \A p \in 1 .. Len(l) : p >= q => u[p + 1] = l[p]
    BY ONLY <2>3, Inserted, SMTT(30)
  <2> QED BY <2>2 DEF e, S, m
<1>5. /\ \A j \in 1 .. k - 1 : Home(held, j, n) \in 1 .. m /\ l[Home(held, j, n)] = held[j].message
      /\ \A p \in 1 .. m : l[p].role = "system" => \E j \in 1 .. k - 1 : p = Home(held, j, n)
  BY DEF AtHome
<1>6. ASSUME NEW j \in 1 .. k - 1 PROVE Home(held, j, n) < q
  <2>1. j \in 1 .. Len(held) /\ j < k BY <1>1
  <2> DEFINE i == Places(held)[j]
  <2>2. i \in Nat /\ i < h BY <2>1, PlacesAre
  <2>3. Home(held, j, n) = Least(i, n + j) /\ q = Least(h, n + k) BY <1>3 DEF Home
  <2>4. n \in Nat /\ h \in Nat /\ j \in Nat /\ k \in Nat /\ j < k BY <1>1, <1>2, <2>1
  <2> HIDE DEF i, h, n
  <2>5. n + j < n + k BY ONLY <2>4
  <2>6. n + j \in Nat /\ n + k \in Nat BY ONLY <2>4
  <2> QED BY ONLY <2>2, <2>3, <2>4, <2>5, <2>6 DEF Least
<1>7. ASSUME NEW j \in 1 .. k
      PROVE  Home(held, j, n) \in 1 .. m + 1 /\ u[Home(held, j, n)] = held[j].message
  <2>1. CASE j = k BY <1>3, <1>4, <2>1
  <2>2. CASE j # k
    <3>1. j \in 1 .. k - 1 BY <1>2, <2>2
    <3>2. Home(held, j, n) \in 1 .. m /\ Home(held, j, n) < q BY <1>5, <1>6, <3>1
    <3>3. Home(held, j, n) \in 1 .. m + 1 BY <1>2, <3>2
    <3> QED BY <1>4, <1>5, <3>1, <3>2, <3>3
  <2> QED BY <2>1, <2>2
<1>8. ASSUME NEW p \in 1 .. m + 1, u[p].role = "system"
      PROVE  \E j \in 1 .. k : p = Home(held, j, n)
  <2>1. CASE p = q BY <1>2, <1>3, <2>1
  <2>2. CASE p < q
    <3>1. p \in 1 .. m BY <1>2, <1>3, <2>2
    <3>2. l[p].role = "system" BY <1>4, <1>8, <2>2, <3>1
    <3>3. PICK j \in 1 .. k - 1 : p = Home(held, j, n) BY <1>5, <3>1, <3>2
    <3> QED BY <1>2, <3>3
  <2>3. CASE p > q
    <3>1. p - 1 \in 1 .. m /\ p - 1 >= q /\ (p - 1) + 1 = p BY <1>2, <1>3, <2>3
    <3>2. u[(p - 1) + 1] = l[p - 1] BY <1>4, <3>1
    <3>3. l[p - 1].role = "system" BY <1>8, <3>1, <3>2
    <3>4. PICK j \in 1 .. k - 1 : p - 1 = Home(held, j, n) BY <1>5, <3>1, <3>3
    <3>5. p - 1 < q BY <1>6, <3>4
    <3> QED BY <1>3, <3>1, <3>5
  <2> QED BY <1>3, <2>1, <2>2, <2>3
<1>9. AtHome(u, held, k)
  <2>1. Len(u) - k = n /\ k <= Len(held) /\ k <= Len(u)
    <3>1. Len(held) \in Nat /\ k <= Len(held) BY <1>1
    <3>2. Len(u) = m + 1 /\ m \in Nat /\ n \in Nat /\ k \in Nat /\ m + 1 - k = n BY <1>2, <1>4
    <3> HIDE DEF n, m
    <3> QED BY ONLY <3>1, <3>2
  <2> HIDE DEF n, m
  <2> QED BY <1>4, <1>7, <1>8, <2>1 DEF AtHome
<1> QED BY <1>3, <1>4, <1>9

LEMMA PutBackStep == ASSUME GuardInv, PutBack PROVE GuardInv'
<1> DEFINE h == Places(protected)[next]
           q == Place(list, protected[next].index)
<1>1. /\ stage = "insert" /\ stage' = "insert" /\ next <= Len(protected) /\ next' = next + 1
      /\ list' = InsertAt(list, q, protected[next].message) /\ Sent' = Sent
      /\ UNCHANGED <<mutate, edited, request, protected, system, stripped, answer, restored>>
  BY DEF PutBack, Sent
<1>2. /\ Sent \in Seq(Messages) /\ list \in Seq(Messages) /\ protected \in Seq(HeldMessages)
      /\ Len(protected) \in Nat /\ next \in 1 .. Len(protected) /\ next' - 1 = next
      /\ HeldUpTo(protected, Sent, Len(Sent)) /\ AtHome(list, protected, next - 1)
  BY <1>1 DEF GuardInv, Types, Payloads, Sent, AfterStrip, InsertInv
<1>3. q = Least(h, Len(list) + 1) /\ list' \in Seq(Messages) /\ AtHome(list', protected, next)
  <2> HIDE DEF q
  <2>1. q = Place(list, protected[next].index) BY DEF q
  <2> QED BY <1>1, <1>2, <2>1, AtHomeNext
<1>4. ASSUME answer = stripped
      PROVE  Picks(list', Sent, Free(Sent, Len(Sent)) \cup {Places(protected)[k] : k \in 1 .. next})
  <2> DEFINE F == Free(Sent, Len(Sent))
             S == F \cup {Places(protected)[k] : k \in 1 .. next - 1}
  <2>1. Picks(list, Sent, S) BY <1>1, <1>4 DEF GuardInv, InsertInv
  <2>2. h \in 1 .. Len(Sent) /\ h \in Protected(Sent) /\ protected[next].message = Sent[h]
    BY <1>2, PlacesAre
  <2>3. h \notin S
    <3>1. h \notin F BY <2>2 DEF Free
    <3>2. ASSUME NEW k \in 1 .. next - 1, Places(protected)[k] = h PROVE FALSE
      <4>1. k \in 1 .. Len(protected) /\ k # next BY <1>2
      <4> QED BY <1>2, <3>2, <4>1, PlacesAre
    <3> QED BY <3>1, <3>2
  <2>4. ASSUME NEW i \in 1 .. h - 1 PROVE i \in S
    <3>1. i \in 1 .. Len(Sent) /\ i < h BY <1>2, <2>2
    <3>2. CASE i \notin Protected(Sent) BY <3>1, <3>2 DEF Free
    <3>3. CASE i \in Protected(Sent)
      <4>1. PICK k \in 1 .. Len(protected) : Places(protected)[k] = i
        BY <1>2, <3>1, <3>3 DEF HeldUpTo
      <4>2. k < next BY <1>2, <3>1, <4>1, PlacesAre
      <4>3. k \in 1 .. next - 1 BY <1>2, <4>2
      <4> QED BY <4>1, <4>3
    <3> QED BY <3>2, <3>3
  <2> HIDE DEF S, h, q
  <2>5. h <= Len(list) + 1 /\ Picks(InsertAt(list, h, Sent[h]), Sent, S \cup {h})
    <3>1. (1 .. h - 1) \subseteq S BY <2>4
    <3> QED BY <1>2, <2>1, <2>2, <2>3, <3>1, PicksMissing
  <2>6. q = h BY <1>3, <2>2, <2>5 DEF Least
  <2>7. S \cup {h} = F \cup {Places(protected)[k] : k \in 1 .. next}
    <3>1. \A k \in 1 .. next : k = next \/ k \in 1 .. next - 1 BY <1>2
    <3>2. next \in 1 .. next /\ \A k \in 1 .. next - 1 : k \in 1 .. next BY <1>2
    <3>3. {Places(protected)[k] : k \in 1 .. next}
             = {Places(protected)[k] : k \in 1 .. next - 1} \cup {Places(protected)[next]}
      BY <3>1, <3>2
    <3> QED BY <3>3 DEF S, h
  <2> QED BY <1>1, <2>2, <2>5, <2>6, <2>7
<1>5. InsertInv' BY <1>1, <1>2, <1>3, <1>4 DEF InsertInv
<1>6. Types' BY <1>1, <1>2, <1>3 DEF GuardInv, Types
<1> QED BY <1>1, <1>5, <1>6 DEF GuardInv, StripInv, AfterStrip, SiftInv, RestoredInv

LEMMA RestoreStep == ASSUME GuardInv, Restore PROVE GuardInv'
<1>1. /\ stage = "insert" /\ stage' = "restored" /\ next > Len(protected) /\ Sent' = Sent
      /\ restored' = [Written EXCEPT !.system = IF system # NoSystem THEN system ELSE @]
      /\ UNCHANGED <<mutate, edited, request, protected, system, stripped, answer, list, next>>
  BY DEF Restore, Sent, Written
<1>2. /\ answer \in Payloads /\ system \in SystemFields /\ list \in Seq(Messages)
      /\ protected \in Seq(HeldMessages) /\ next \in Nat /\ AtHome(list, protected, next - 1)
  BY <1>1 DEF GuardInv, Types, InsertInv
<1>3. Written \in Payloads
  <2>1. answer.system \in SystemFields BY <1>2 DEF Payloads
  <2> QED BY <1>2, <2>1, PayloadIs DEF Written
<1>4. restored' \in Payloads BY <1>1, <1>2, <1>3 DEF Payloads
<1>5. next = Len(protected) + 1 BY <1>1, <1>2 DEF AtHome
<1>6. RestoredInv' BY <1>1, <1>5 DEF RestoredInv, Written
<1>7. Types' BY <1>1, <1>4 DEF GuardInv, Types
<1> QED BY <1>1, <1>6, <1>7 DEF GuardInv, StripInv, AfterStrip, SiftInv, InsertInv

LEMMA GuardStep == ASSUME GuardInv, [Next]_vars PROVE GuardInv'
<1>1. CASE UNCHANGED vars
  BY <1>1 DEF vars, GuardInv, Types, StripInv, AfterStrip, SiftInv, InsertInv, RestoredInv, Sent,
              Written
<1> QED BY <1>1, HoldBackStep, StripStep, CompressStep, CompressFailsStep, SiftStep, SiftedStep,
           PutBackStep, RestoreStep DEF Next

\* What the three loops have built, at every step: everything below follows from
\* it.
THEOREM GuardInvariance == Spec => []GuardInv
BY InitGuard, GuardStep, PTL DEF Spec

-----------------------------------------------------------------------------
(* What goes upstream.                                                       *)

\* The list that goes upstream holds the protected messages at their seats.
LEMMA AllHome ==
  ASSUME GuardInv, stage = "restored"
  PROVE  /\ Sent \in Seq(Messages) /\ list \in Seq(Messages) /\ protected \in Seq(HeldMessages)
         /\ HeldUpTo(protected, Sent, Len(Sent)) /\ AtHome(list, protected, Len(protected))
         /\ answer = stripped => list = Sent
         /\ Protected(Sent) # {} => protected # <<>> /\ restored.messages = list
         /\ protected # <<>> => Protected(Sent) # {}
<1>1. /\ Sent \in Seq(Messages) /\ list \in Seq(Messages) /\ protected \in Seq(HeldMessages)
      /\ Len(protected) \in Nat /\ Len(Sent) \in Nat
      /\ HeldUpTo(protected, Sent, Len(Sent)) /\ next - 1 = Len(protected)
  BY DEF GuardInv, Types, Payloads, Sent, AfterStrip, RestoredInv
<1>2. AtHome(list, protected, Len(protected)) BY <1>1 DEF GuardInv, InsertInv
<1>3. ASSUME answer = stripped PROVE list = Sent
  <2> DEFINE S == Free(Sent, Len(Sent)) \cup {Places(protected)[k] : k \in 1 .. Len(protected)}
  <2>1. Picks(list, Sent, S) BY <1>1, <1>3 DEF GuardInv, InsertInv
  <2>2. ASSUME NEW i \in 1 .. Len(Sent) PROVE i \in S
    <3>1. CASE i \notin Protected(Sent) BY <3>1 DEF Free
    <3>2. CASE i \in Protected(Sent)
      <4>1. PICK k \in 1 .. Len(protected) : Places(protected)[k] = i BY <1>1, <3>2 DEF HeldUpTo
      <4> QED BY <4>1
    <3> QED BY <3>1, <3>2
  <2>3. \A k \in 1 .. Len(protected) : Places(protected)[k] \in 1 .. Len(Sent) BY <1>1, PlacesAre
  <2>4. S = 1 .. Len(Sent) BY <2>2, <2>3 DEF Free
  <2> HIDE DEF S
  <2>5. Picks(list, Sent, 1 .. Len(Sent)) BY <2>1, <2>4
  <2> QED BY <1>1, <2>5, PicksAll
<1>4. ASSUME NEW i \in Protected(Sent) PROVE protected # <<>> /\ restored.messages = list
  <2>1. i \in 1 .. Len(Sent) BY <1>1 DEF Protected, FirstUser
  <2>2. PICK k \in 1 .. Len(protected) : Places(protected)[k] = i BY <1>1, <2>1 DEF HeldUpTo
  <2>3. protected # <<>> BY <1>1, <2>2
  <2>4. restored.messages = list BY <2>3 DEF GuardInv, RestoredInv, Written, Payload
  <2> QED BY <2>3, <2>4
<1>5. ASSUME protected # <<>> PROVE Protected(Sent) # {}
  <2>1. 1 \in 1 .. Len(protected) BY <1>1, <1>5, EmptySeq
  <2> QED BY <1>1, <2>1, PlacesAre
<1> QED BY <1>1, <1>2, <1>3, <1>4, <1>5

LEMMA UnchangedHolds == ASSUME GuardInv PROVE UnchangedIsUnchanged
<1> SUFFICES ASSUME stage = "restored", answer = stripped \/ (~mutate /\ ~edited)
             PROVE  restored = request
  BY DEF UnchangedIsUnchanged
<1>1. /\ request \in Payloads /\ stripped \in Payloads /\ restored \in Payloads
      /\ request.messages # <<>> => request.present
  BY DEF GuardInv, Types
<1>2. /\ answer = stripped /\ system = request.system
      /\ stripped.present = request.present /\ stripped.system = NoSystem
      /\ Picks(stripped.messages, Sent, Free(Sent, Len(Sent)))
  BY DEF GuardInv, AfterStrip
<1>3. list = Sent /\ Sent \in Seq(Messages) /\ (protected # <<>> => Protected(Sent) # {})
  BY <1>2, AllHome
<1>4. restored = [Written EXCEPT !.system = IF system # NoSystem THEN system ELSE @]
  BY DEF GuardInv, RestoredInv
<1>5. Written.present = request.present /\ Written.messages = Sent /\ Written.system = NoSystem
      /\ Written \in Payloads
  <2>1. CASE Sent # <<>>
    <3>1. Written = Payload(Sent, NoSystem) BY <1>2, <1>3, <2>1 DEF Written
    <3>2. NoSystem \in SystemFields BY DEF SystemFields
    <3>3. Payload(Sent, NoSystem) \in Payloads BY <1>3, <3>2, PayloadIs
    <3>4. request.present = TRUE BY <1>1, <2>1 DEF Sent, Payloads
    <3> QED BY <3>1, <3>3, <3>4 DEF Payload
  <2>2. CASE Sent = <<>>
    <3>1. Len(Sent) = 0 /\ DOMAIN Sent = {} BY <2>2
    <3>2. Protected(Sent) = {} BY <3>1 DEF Protected, FirstUser
    <3>3. Written = stripped BY <1>2, <1>3, <2>2, <3>2 DEF Written
    <3>4. Free(Sent, Len(Sent)) = 1 .. Len(Sent) BY <3>2 DEF Free
    <3>5. stripped.messages \in Seq(Messages) BY <1>1 DEF Payloads
    <3>6. stripped.messages = Sent BY <1>2, <1>3, <3>4, <3>5, PicksAll
    <3> QED BY <1>1, <1>2, <3>3, <3>6
  <2> QED BY <2>1, <2>2
<1>6. /\ restored.present = request.present /\ restored.messages = request.messages
      /\ restored.system = request.system
  <2> HIDE DEF Written
  <2>1. /\ restored.present = Written.present /\ restored.messages = Written.messages
        /\ restored.system = IF system # NoSystem THEN system ELSE Written.system
    BY <1>4, <1>5 DEF Payloads
  <2> QED BY <1>2, <1>5, <2>1 DEF Sent
<1> QED BY <1>1, <1>6 DEF Payloads

\* A stripped request that comes back as it went leaves no trace in what goes
\* upstream, nor does any result with mutation off of a compressor that does not
\* edit its argument (_strip_protected_prompts, _invoke_compressor,
\* _restore_protected_prompts).
THEOREM UnchangedComesThrough == Spec => []UnchangedIsUnchanged
BY GuardInvariance, UnchangedHolds, PTL

\* Behind a held message are those held after it.
LEMMA Behind ==
  ASSUME NEW held \in Seq(HeldMessages), NEW g \in Seq(Messages), HeldUpTo(held, g, Len(g)),
         NEW k \in 1 .. Len(held)
  PROVE  Cardinality({j \in Protected(g) : j > Places(held)[k]}) = Len(held) - k
<1> DEFINE n == Len(held)
           I == k + 1 .. n
           B == {j \in Protected(g) : j > Places(held)[k]}
           f == [m \in I |-> Places(held)[m]]
<1>1. n \in Nat /\ k \in Nat /\ k <= n /\ \A m \in I : m \in 1 .. n /\ k < m OBVIOUS
<1> HIDE DEF I
<1>2. ASSUME NEW m \in I PROVE Places(held)[m] \in B
  <2>1. m \in 1 .. Len(held) /\ k < m BY <1>1
  <2> QED BY <2>1, PlacesAre
<1>3. ASSUME NEW a \in I, NEW b \in I, Places(held)[a] = Places(held)[b] PROVE a = b
  BY <1>1, <1>3, PlacesAre
<1>4. ASSUME NEW j \in B PROVE \E m \in I : Places(held)[m] = j
  <2>1. j \in Protected(g) /\ j > Places(held)[k] OBVIOUS
  <2>2. j \in 1 .. Len(g) BY <2>1 DEF Protected, FirstUser
  <2>3. PICK m \in 1 .. Len(held) : Places(held)[m] = j BY <2>1, <2>2 DEF HeldUpTo
  <2>4. k < m BY <2>1, <2>3, <2>2, PlacesAre
  <2> QED BY <1>1, <2>3, <2>4 DEF I
<1> HIDE DEF B
<1>5. f \in Bijection(I, B)
  <2>1. f \in [I -> B] BY <1>2
  <2>2. \A a, b \in I : f[a] = f[b] => a = b BY <1>3
  <2>3. \A j \in B : \E m \in I : f[m] = j BY <1>4
  <2> QED BY <2>1, <2>2, <2>3, Fun_IsBij
<1>6. IsFiniteSet(I) /\ Cardinality(I) = n - k
  <2>1. k + 1 \in Int /\ n \in Int BY <1>1
  <2>2. IsFiniteSet(I) /\ Cardinality(I) = IF k + 1 > n THEN 0 ELSE n - (k + 1) + 1
    BY <2>1, FS_Interval DEF I
  <2> HIDE DEF n
  <2> QED BY <1>1, <2>2
<1>7. ExistsBijection(I, B) BY <1>5 DEF ExistsBijection
<1>8. Cardinality(B) = Cardinality(I) BY <1>6, <1>7, FS_Bijection
<1> QED BY <1>6, <1>8 DEF B

\* So a protected message's seat is where it was put.
LEMMA SeatIsHome ==
  ASSUME NEW held \in Seq(HeldMessages), NEW g \in Seq(Messages), HeldUpTo(held, g, Len(g)),
         NEW k \in 1 .. Len(held), NEW n \in Nat
  PROVE  Seat(g, Places(held)[k], n) = Home(held, k, n - Len(held))
<1> DEFINE i == Places(held)[k]
           c == Cardinality({j \in Protected(g) : j > i})
           m == Len(held)
<1>1. c = m - k /\ m \in Nat BY Behind
<1>2. i \in Int BY PlacesAre
<1>3. Seat(g, i, n) = Min({i, n - c}) BY DEF Seat
<1> HIDE DEF i, c, m
<1>4. n - c \in Int /\ n - c = (n - m) + k
  <2>1. k \in Int OBVIOUS
  <2> QED BY ONLY <1>1, <2>1, n \in Nat
<1>5. Seat(g, i, n) = Least(i, (n - m) + k) BY <1>2, <1>3, <1>4, MinOfTwo
<1> QED BY <1>5 DEF Home, i, m

LEMMA SurviveHolds == ASSUME GuardInv PROVE ProtectedSurvive
<1> SUFFICES ASSUME stage = "restored" PROVE ProtectedSurvive BY DEF ProtectedSurvive
<1> DEFINE n == Len(restored.messages)
           SeatOf(i) == Seat(Sent, i, n)
<1>1. ASSUME Protected(Sent) # {}
      PROVE  /\ \A i \in Protected(Sent) : /\ SeatOf(i) \in DOMAIN restored.messages
                                           /\ restored.messages[SeatOf(i)] = Sent[i]
             /\ \A p \in DOMAIN restored.messages : restored.messages[p].role = "system" =>
                   \E i \in Protected(Sent) : p = SeatOf(i)
  <2>1. /\ Sent \in Seq(Messages) /\ list \in Seq(Messages) /\ protected \in Seq(HeldMessages)
        /\ HeldUpTo(protected, Sent, Len(Sent)) /\ AtHome(list, protected, Len(protected))
        /\ restored.messages = list /\ n = Len(list) /\ n \in Nat
    BY <1>1, AllHome
  <2> HIDE DEF n
  <2>2. DOMAIN restored.messages = 1 .. Len(list) BY <2>1
  <2>3. ASSUME NEW k \in 1 .. Len(protected)
        PROVE  SeatOf(Places(protected)[k]) = Home(protected, k, n - Len(protected))
    BY <2>1, SeatIsHome
  <2>4. /\ \A k \in 1 .. Len(protected) :
              /\ Home(protected, k, n - Len(protected)) \in 1 .. Len(list)
              /\ list[Home(protected, k, n - Len(protected))] = protected[k].message
        /\ \A p \in 1 .. Len(list) : list[p].role = "system" =>
              \E k \in 1 .. Len(protected) : p = Home(protected, k, n - Len(protected))
    BY <2>1 DEF AtHome
  <2> HIDE DEF SeatOf
  <2>5. ASSUME NEW i \in Protected(Sent)
        PROVE  SeatOf(i) \in DOMAIN restored.messages /\ restored.messages[SeatOf(i)] = Sent[i]
    <3>1. i \in 1 .. Len(Sent) BY <2>1 DEF Protected, FirstUser
    <3>2. PICK k \in 1 .. Len(protected) : Places(protected)[k] = i BY <2>1, <3>1 DEF HeldUpTo
    <3>3. protected[k].message = Sent[i] BY <2>1, <3>2, PlacesAre
    <3>4. SeatOf(i) = Home(protected, k, n - Len(protected)) BY <2>3, <3>2
    <3> QED BY <2>1, <2>2, <2>4, <3>3, <3>4
  <2>6. ASSUME NEW p \in DOMAIN restored.messages, restored.messages[p].role = "system"
        PROVE  \E i \in Protected(Sent) : p = SeatOf(i)
    <3>1. PICK k \in 1 .. Len(protected) : p = Home(protected, k, n - Len(protected))
      BY <2>1, <2>2, <2>4, <2>6
    <3>2. Places(protected)[k] \in Protected(Sent) BY <2>1, PlacesAre
    <3> QED BY <2>3, <3>1, <3>2
  <2> QED BY <2>5, <2>6
<1>2. /\ request.system # NoSystem => restored.system = request.system
      /\ request.system = NoSystem /\ restored.system # NoSystem => mutate /\ ~answer.present
  <2>1. /\ system = request.system /\ answer \in Payloads /\ list \in Seq(Messages)
        /\ answer.system # NoSystem => mutate /\ ~answer.present
    BY DEF GuardInv, Types, AfterStrip
  <2>2. Written \in Payloads
    <3>1. answer.system \in SystemFields BY <2>1 DEF Payloads
    <3> QED BY <2>1, <3>1, PayloadIs DEF Written
  <2>3. restored = [Written EXCEPT !.system = IF system # NoSystem THEN system ELSE @]
    BY DEF GuardInv, RestoredInv
  <2>4. Written.system = answer.system BY DEF Written, Payload
  <2> HIDE DEF Written
  <2>5. restored.system = IF system # NoSystem THEN system ELSE Written.system
    BY <2>2, <2>3 DEF Payloads
  <2> QED BY <2>1, <2>4, <2>5
<1> QED BY <1>1, <1>2 DEF ProtectedSurvive, Sent

\* Whatever a compressor returns, the protected messages go upstream at their
\* seats, beside them no other system message does, and the agent's system field
\* does (_restore_protected_prompts).
THEOREM ProtectedComesBack == Spec => []ProtectedSurvive
BY GuardInvariance, SurviveHolds, PTL

LEMMA OpeningHolds == ASSUME GuardInv PROVE OpeningKept
<1> SUFFICES ASSUME stage = "restored", NEW n \in DOMAIN Sent, (1 .. n) \subseteq Protected(Sent)
             PROVE  SubSeq(restored.messages, 1, n) = SubSeq(Sent, 1, n)
  BY DEF OpeningKept, Sent
<1>1. Sent \in Seq(Messages) BY AllHome
<1>2. n \in 1 .. Len(Sent) /\ n \in Nat /\ Protected(Sent) # {} BY <1>1
<1>3. /\ list \in Seq(Messages) /\ protected \in Seq(HeldMessages) /\ restored.messages = list
      /\ HeldUpTo(protected, Sent, Len(Sent)) /\ AtHome(list, protected, Len(protected))
      /\ Len(list) \in Nat /\ Len(protected) \in Nat
  BY <1>2, AllHome
<1> DEFINE m == Len(protected)
           d == Len(list) - m
           f == Places(protected)
<1>4. n <= m /\ \A i \in 1 .. n : f[i] = i
  <2>1. Ascends(f, m) BY <1>3 DEF HeldUpTo
  <2>2. HasAll(f, m, n)
    <3>1. ASSUME NEW i \in 1 .. n PROVE \E k \in 1 .. m : f[k] = i
      <4>1. i \in Protected(Sent) /\ i <= Len(Sent) BY <1>2
      <4> QED BY <1>3, <4>1 DEF HeldUpTo
    <3> QED BY <3>1 DEF HasAll
  <2>3. m \in Nat BY <1>3
  <2> HIDE DEF f, m
  <2> QED BY ONLY <1>2, <2>1, <2>2, <2>3, FirstOnes
<1>5. d \in Nat /\ n <= Len(list)
  <2>1. m <= Len(list) BY <1>3 DEF AtHome
  <2> QED BY <1>2, <1>3, <1>4, <2>1
<1>6. ASSUME NEW i \in 1 .. n PROVE list[i] = Sent[i]
  <2>1. i \in 1 .. m BY <1>2, <1>3, <1>4
  <2>2. f[i] = i /\ i \in Nat BY <1>4
  <2> HIDE DEF d
  <2>3. Home(protected, i, d) = i BY <1>5, <2>2 DEF Home, Least
  <2>4. list[Home(protected, i, d)] = protected[i].message BY <1>3, <2>1 DEF AtHome, d
  <2>5. protected[i].message = Sent[f[i]] BY <1>3, <2>1 DEF HeldUpTo
  <2> QED BY <2>2, <2>3, <2>4, <2>5
<1> DEFINE a == SubSeq(list, 1, n)
           b == SubSeq(Sent, 1, n)
<1>7. a \in Seq(Messages) /\ Len(a) = n /\ \A i \in 1 .. n : a[i] = list[i] BY <1>2, <1>3, <1>5
<1>8. b \in Seq(Messages) /\ Len(b) = n /\ \A i \in 1 .. n : b[i] = Sent[i] BY <1>1, <1>2
<1> HIDE DEF a, b
<1>9. a = b BY <1>6, <1>7, <1>8, SeqEqual
<1> QED BY <1>3, <1>9 DEF a, b

\* A trajectory's opening goes upstream as the agent sent it.
THEOREM OpeningStays == Spec => []OpeningKept
BY GuardInvariance, OpeningHolds, PTL

-----------------------------------------------------------------------------
(* Loops.  A loop over a list is a function of the number of passes: what it *)
(* starts with, and a step that makes of a result and the number of the pass *)
(* the next result.  There is one such function and no other.                *)

Iterates(g, S, base, step, n) ==
    /\ g \in [0 .. n -> S] /\ g[0] = base
    /\ \A i \in 1 .. n : g[i] = step[<<g[i - 1], i>>]

LEMMA LoopRuns ==
  ASSUME NEW S, NEW base \in S, NEW N \in Nat, NEW step \in [S \X (1 .. N) -> S]
  PROVE  \E g : Iterates(g, S, base, step, N)
<1> DEFINE U == {n \in 0 .. N : ~ \E g : Iterates(g, S, base, step, n)}
<1> SUFFICES ASSUME U # {} PROVE FALSE OBVIOUS
<1>1. PICK n \in U : \A w \in U : n <= w
  <2>1. U \in SUBSET Nat OBVIOUS
  <2> QED BY <2>1, Smallest
<1>2. n # 0
  <2> DEFINE z == [i \in 0 .. 0 |-> base]
  <2>1. Iterates(z, S, base, step, 0) BY DEF Iterates
  <2> QED BY <2>1
<1>3. n - 1 \in 0 .. N /\ n - 1 \notin U BY <1>1, <1>2
<1>4. PICK g : Iterates(g, S, base, step, n - 1) BY <1>3
<1> DEFINE h == [i \in 0 .. n |-> IF i = n THEN step[<<g[n - 1], n>>] ELSE g[i]]
<1>5. Iterates(h, S, base, step, n)
  <2>1. g \in [0 .. n - 1 -> S] /\ n \in 1 .. N BY <1>2, <1>4 DEF Iterates
  <2>2. <<g[n - 1], n>> \in S \X (1 .. N) BY <2>1
  <2>3. step[<<g[n - 1], n>>] \in S BY <2>2
  <2>4. h \in [0 .. n -> S] BY <2>1, <2>3
  <2>5. h[0] = base BY <1>2, <1>4 DEF Iterates
  <2>6. ASSUME NEW i \in 1 .. n PROVE h[i] = step[<<h[i - 1], i>>]
    <3>1. h[i - 1] = g[i - 1] OBVIOUS
    <3>2. CASE i = n BY <2>4, <3>1, <3>2
    <3>3. CASE i # n
      <4>1. i \in 1 .. n - 1 BY <3>3
      <4>2. g[i] = step[<<g[i - 1], i>>] BY <1>4, <4>1 DEF Iterates
      <4>3. h[i] = g[i] BY <3>3
      <4> QED BY <3>1, <4>2, <4>3
    <3> QED BY <3>2, <3>3
  <2> QED BY <2>4, <2>5, <2>6 DEF Iterates
<1> QED BY <1>1, <1>5

Keeps(f, S, base, step, n) ==
    f[0] = base /\ \A i \in 1 .. n : f[i - 1] \in S => f[i] = step[<<f[i - 1], i>>]

\* What steps as the loop does is what the loop computes, up to any pass.
LEMMA LoopsAgree ==
  ASSUME NEW S, NEW base, NEW step, NEW N \in Nat, NEW g, Iterates(g, S, base, step, N),
         NEW M \in Nat, M <= N, NEW f, Keeps(f, S, base, step, M)
  PROVE  \A i \in 0 .. M : f[i] = g[i]
<1> DEFINE U == {i \in 0 .. M : f[i] # g[i]}
<1> SUFFICES ASSUME U # {} PROVE FALSE OBVIOUS
<1>1. PICK i \in U : \A w \in U : i <= w
  <2>1. U \in SUBSET Nat OBVIOUS
  <2> QED BY <2>1, Smallest
<1>2. i # 0 BY DEF Iterates, Keeps
<1>3. i \in 1 .. M /\ i - 1 \in 0 .. M /\ i - 1 \notin U BY <1>1, <1>2
<1>4. f[i - 1] = g[i - 1] BY <1>3
<1>5. g[i - 1] \in S BY <1>3 DEF Iterates
<1>6. f[i] = step[<<g[i - 1], i>>] BY <1>3, <1>4, <1>5 DEF Keeps
<1>7. g[i] = step[<<g[i - 1], i>>] BY <1>3 DEF Iterates
<1> QED BY <1>6, <1>7

Agree(f, g, n) == \A i \in 0 .. n : f[i] = g[i]

LEMMA LoopIs ==
  ASSUME NEW S, NEW base, NEW step, NEW N \in Nat, NEW g, Iterates(g, S, base, step, N),
         NEW f, Keeps(f, S, base, step, N)
  PROVE  Agree(f, g, N)
<1>1. N <= N OBVIOUS
<1>2. \A i \in 0 .. N : f[i] = g[i] BY <1>1, LoopsAgree
<1> QED BY <1>2 DEF Agree

-----------------------------------------------------------------------------
(* What the pieces of a request are.                                         *)

Marks == {"prompt", "task", "newline", "note", "reminder", "result", "reasoning", "text1", "text2",
          "object1", "object2", "other1", "other2", "value", "id", "fresh"}
Pieces == Marks \cup {Json} \cup (Nat \X Marks) \cup (Nat \X Nat \X Marks)
Strings == Seq(Pieces)
Ids == {NoId} \cup (Nat \X Nat \X Marks)
Blocks == [type : {"text", "thinking", "tool_use", "tool_result"}, text : Strings, id : Ids]
Groups == [role : {"user", "assistant", "system"}, blocks : Seq(Blocks)]
Calls == [id : Ids, args : Strings]
OpenAIs == [role : {"system", "user", "assistant", "tool"},
            text : Strings, reasoning : Strings, calls : Seq(Calls), id : Ids]

LEMMA NoneIs == <<>> \in Strings /\ NoId \in Ids
BY DEF Strings, Ids

-----------------------------------------------------------------------------
(* OfType.                                                                   *)

OfTypeStep(blocks, type) ==
    [x \in Seq(Blocks) \X (1 .. Len(blocks)) |->
      IF blocks[x[2]].type = type THEN Append(x[1], blocks[x[2]]) ELSE x[1]]

LEMMA OfTypeLoop ==
  ASSUME NEW blocks \in Seq(Blocks), NEW type
  PROVE  \E g : /\ Iterates(g, Seq(Blocks), <<>>, OfTypeStep(blocks, type), Len(blocks))
                /\ OfType(blocks, type) = g[Len(blocks)]
<1> DEFINE N == Len(blocks)
           step == OfTypeStep(blocks, type)
           f == CHOOSE h : h = [n \in 0 .. Len(blocks) |->
                  IF n = 0 THEN <<>>
                  ELSE IF blocks[n].type = type THEN Append(h[n - 1], blocks[n]) ELSE h[n - 1]]
<1>1. N \in Nat /\ <<>> \in Seq(Blocks) OBVIOUS
<1>2. ASSUME NEW n \in 1 .. N, NEW x \in Seq(Blocks)
      PROVE (IF blocks[n].type = type THEN Append(x, blocks[n]) ELSE x) \in Seq(Blocks) BY <1>2
<1>3. step \in [Seq(Blocks) \X (1 .. N) -> Seq(Blocks)]
      /\ \A n \in 1 .. N, x \in Seq(Blocks) : step[<<x, n>>] =
           IF blocks[n].type = type THEN Append(x, blocks[n]) ELSE x
  BY <1>2 DEF OfTypeStep
<1>4. PICK g : Iterates(g, Seq(Blocks), <<>>, step, N)
  <2> HIDE DEF step, N
  <2> QED BY <1>1, <1>3, LoopRuns
<1>5. OfType(blocks, type) = f[N] BY DEF OfType
<1>6. g = [n \in 0 .. N |-> IF n = 0 THEN <<>>
        ELSE IF blocks[n].type = type THEN Append(g[n - 1], blocks[n]) ELSE g[n - 1]]
  <2> HIDE DEF step, N
  <2>1. g \in [0 .. N -> Seq(Blocks)] BY <1>4 DEF Iterates
  <2>2. ASSUME NEW n \in 0 .. N
        PROVE  g[n] = IF n = 0 THEN <<>> ELSE
          IF blocks[n].type = type THEN Append(g[n - 1], blocks[n]) ELSE g[n - 1]
    <3>1. CASE n = 0 BY <1>4, <3>1 DEF Iterates
    <3>2. CASE n # 0
      <4>1. n \in 1 .. N /\ g[n - 1] \in Seq(Blocks) BY <1>1, <2>1, <3>2
      <4>2. g[n] = step[<<g[n - 1], n>>] BY <1>4, <4>1 DEF Iterates
      <4> QED BY <1>3, <3>2, <4>1, <4>2
    <3> QED BY <3>1, <3>2
  <2> QED BY <2>1, <2>2
<1>7. f = [n \in 0 .. N |-> IF n = 0 THEN <<>>
        ELSE IF blocks[n].type = type THEN Append(f[n - 1], blocks[n]) ELSE f[n - 1]]
  BY <1>6
<1> HIDE DEF f, step, N
<1>8. f[0] = <<>>
  <2>1. 0 \in 0 .. N BY <1>1
  <2> QED BY <1>7, <2>1
<1>9. \A n \in 0 .. N : f[n] = g[n]
  <2>1. ASSUME NEW n \in 1 .. N, f[n - 1] \in Seq(Blocks) PROVE f[n] = step[<<f[n - 1], n>>]
    <3>1. n \in 0 .. N /\ n # 0 BY <1>1
    <3>2. f[n] = IF blocks[n].type = type THEN Append(f[n - 1], blocks[n]) ELSE f[n - 1] BY <1>7, <3>1
    <3> QED BY <1>3, <2>1, <3>2
  <2>2. Keeps(f, Seq(Blocks), <<>>, step, N) BY <1>8, <2>1 DEF Keeps
  <2>5. Agree(f, g, N) BY <1>1, <1>4, <2>2, LoopIs
  <2> QED BY <2>5 DEF Agree
<1>10. OfType(blocks, type) = g[N] BY <1>1, <1>5, <1>9
<1> QED BY <1>4, <1>10 DEF N, step

LEMMA OfTypeNext ==
  ASSUME NEW blocks \in Seq(Blocks), NEW type, NEW e \in Blocks
  PROVE  /\ OfType(blocks, type) \in Seq(Blocks)
         /\ OfType(Append(blocks, e), type) =
              IF e.type = type THEN Append(OfType(blocks, type), e) ELSE OfType(blocks, type)
<1> DEFINE N == Len(blocks)
           more == Append(blocks, e)
           step == OfTypeStep(blocks, type)
           step2 == OfTypeStep(more, type)
<1>1. N \in Nat /\ more \in Seq(Blocks) /\ Len(more) = N + 1 /\ more[N + 1] = e
      /\ \A n \in 1 .. N : more[n] = blocks[n]
  OBVIOUS
<1>2. PICK g : Iterates(g, Seq(Blocks), <<>>, step, N) /\ OfType(blocks, type) = g[N] BY OfTypeLoop
<1> HIDE DEF more
<1>3. PICK h : Iterates(h, Seq(Blocks), <<>>, step2, N + 1) /\ OfType(more, type) = h[N + 1]
  BY <1>1, OfTypeLoop
<1>4. ASSUME NEW n \in 1 .. N + 1, NEW x \in Seq(Blocks)
      PROVE step2[<<x, n>>] = IF more[n].type = type THEN Append(x, more[n]) ELSE x
  BY <1>1, <1>4 DEF OfTypeStep
<1>5. ASSUME NEW n \in 1 .. N, NEW x \in Seq(Blocks)
      PROVE step[<<x, n>>] = IF blocks[n].type = type THEN Append(x, blocks[n]) ELSE x
  BY <1>5 DEF OfTypeStep
<1> HIDE DEF N, step, step2
<1>6. h \in [0 .. N + 1 -> Seq(Blocks)] /\ g \in [0 .. N -> Seq(Blocks)] BY <1>2, <1>3 DEF Iterates
<1>7. h[N] = g[N]
  <2>1. ASSUME NEW n \in 1 .. N PROVE h[n] = step[<<h[n - 1], n>>]
    <3>1. n \in 1 .. N + 1 /\ h[n - 1] \in Seq(Blocks) BY <1>1, <1>6
    <3>2. h[n] = step2[<<h[n - 1], n>>] BY <1>3, <3>1 DEF Iterates
    <3>3. step2[<<h[n - 1], n>>] = step[<<h[n - 1], n>>] BY <1>1, <1>4, <1>5, <3>1
    <3> QED BY <3>2, <3>3
  <2>2. Keeps(h, Seq(Blocks), <<>>, step, N) BY <1>3, <2>1 DEF Iterates, Keeps
  <2>3. \A n \in 0 .. N : h[n] = g[n]
    <3>1. Agree(h, g, N) BY <1>1, <1>2, <2>2, LoopIs
    <3> QED BY <3>1 DEF Agree
  <2> QED BY <1>1, <2>3
<1>8. h[N + 1] = step2[<<h[N], N + 1>>]
  <2>1. N + 1 \in 1 .. N + 1 /\ (N + 1) - 1 = N BY <1>1
  <2> QED BY <1>3, <2>1 DEF Iterates
<1>9. N + 1 \in 1 .. N + 1 /\ g[N] \in Seq(Blocks) BY <1>1, <1>6
<1>10. OfType(blocks, type) \in Seq(Blocks) BY <1>2, <1>9
<1>11. h[N + 1] = IF e.type = type THEN Append(OfType(blocks, type), e) ELSE OfType(blocks, type)
  BY <1>1, <1>2, <1>4, <1>7, <1>8, <1>9
<1> QED BY <1>3, <1>10, <1>11 DEF more

-----------------------------------------------------------------------------
(* Lists, one element longer at a time.                                      *)

LEMMA Associates ==
  ASSUME NEW S, NEW x \in Seq(S), NEW y \in Seq(S), NEW z \in Seq(S)
  PROVE  x \o (y \o z) = (x \o y) \o z
BY ConcatAssociative, SMTT(30)

LEMMA PrefixNext ==
  ASSUME NEW S, NEW a \in Seq(S), NEW s \in Seq(S), NEW n \in 1 .. Len(s)
  PROVE  /\ SubSeq(s, 1, n - 1) \in Seq(S) /\ a \o SubSeq(s, 1, n - 1) \in Seq(S)
         /\ SubSeq(s, 1, n) = Append(SubSeq(s, 1, n - 1), s[n])
         /\ a \o SubSeq(s, 1, n) = Append(a \o SubSeq(s, 1, n - 1), s[n])
<1> DEFINE p == SubSeq(s, 1, n - 1)
           e == <<s[n]>>
<1>1. p \in Seq(S) /\ e \in Seq(S) /\ s[n] \in S OBVIOUS
<1>2. SubSeq(s, 1, n) = p \o e
  <2>1. Len(s) \in Nat /\ 1 \in 1 .. Len(s) /\ n \in 1 .. Len(s) OBVIOUS
  <2>2. SubSeq(s, 1, n) = SubSeq(s, 1, n - 1) \o <<s[n]>> BY <2>1, SubSeqRecursiveSecond
  <2> QED BY <2>2
<1> HIDE DEF p, e
<1>3. a \o (p \o e) = (a \o p) \o e BY <1>1, Associates, SMTT(30)
<1>4. a \o p \in Seq(S) BY <1>1
<1>5. \A q \in Seq(S) : q \o e = Append(q, s[n])
  <2> SUFFICES ASSUME NEW q \in Seq(S) PROVE q \o e = Append(q, s[n]) OBVIOUS
  <2>1. q \o <<s[n]>> = Append(q, s[n]) BY <1>1
  <2> QED BY <2>1 DEF e
<1> QED BY <1>1, <1>2, <1>3, <1>4, <1>5 DEF p

LEMMA PrefixEnds ==
  ASSUME NEW S, NEW a \in Seq(S), NEW s \in Seq(S)
  PROVE  a \o SubSeq(s, 1, 0) = a /\ SubSeq(s, 1, Len(s)) = s
<1>1. SubSeq(s, 1, 0) = <<>> BY SubSeqEmpty
<1>2. a \o <<>> = a BY ConcatEmptySeq
<1> QED BY <1>1, <1>2, SubSeqFull

-----------------------------------------------------------------------------
(* What OfType finds.                                                        *)

LEMMA OfTypeEmpty == ASSUME NEW type PROVE OfType(<<>>, type) = <<>>
<1>1. <<>> \in Seq(Blocks) /\ Len(<<>>) = 0 OBVIOUS
<1>2. PICK g : /\ Iterates(g, Seq(Blocks), <<>>, OfTypeStep(<<>>, type), Len(<<>>))
               /\ OfType(<<>>, type) = g[Len(<<>>)]
  BY <1>1, OfTypeLoop
<1> QED BY <1>1, <1>2 DEF Iterates

LEMMA OfTypeType == ASSUME NEW a \in Seq(Blocks), NEW type PROVE OfType(a, type) \in Seq(Blocks)
<1> DEFINE b == [type |-> "text", text |-> <<>>, id |-> NoId]
<1>1. b \in Blocks BY NoneIs DEF Blocks
<1> QED BY <1>1, OfTypeNext

LEMMA OfTypeAll ==
  ASSUME NEW a \in Seq(Blocks), NEW s \in Seq(Blocks), NEW type,
         \A i \in 1 .. Len(s) : s[i].type = type
  PROVE  OfType(a \o s, type) = OfType(a, type) \o s
<1> DEFINE Up(n) == a \o SubSeq(s, 1, n)
           Had(n) == OfType(a, type) \o SubSeq(s, 1, n)
           U == {n \in 0 .. Len(s) : OfType(Up(n), type) # Had(n)}
<1>1. OfType(a, type) \in Seq(Blocks) BY OfTypeType
<1>2. ASSUME NEW n \in 1 .. Len(s)
      PROVE  Up(n - 1) \in Seq(Blocks) /\ Up(n) = Append(Up(n - 1), s[n])
  BY PrefixNext
<1>3. ASSUME NEW n \in 1 .. Len(s) PROVE s[n] \in Blocks /\ s[n].type = type OBVIOUS
<1>4. ASSUME NEW n \in 1 .. Len(s) PROVE Had(n) = Append(Had(n - 1), s[n]) BY <1>1, PrefixNext, SMTT(30)
<1>5. Up(0) = a /\ Up(Len(s)) = a \o s BY PrefixEnds
<1>6. Had(0) = OfType(a, type) /\ Had(Len(s)) = OfType(a, type) \o s BY <1>1, PrefixEnds
<1> HIDE DEF Up, Had
<1>7. U = {}
  <2> SUFFICES ASSUME U # {} PROVE FALSE OBVIOUS
  <2>1. PICK n \in U : \A w \in U : n <= w
    <3>1. U \in SUBSET Nat OBVIOUS
    <3> QED BY <3>1, Smallest
  <2>2. n # 0 BY <1>5, <1>6
  <2>3. n \in 1 .. Len(s) /\ n - 1 \in 0 .. Len(s) /\ n - 1 \notin U BY <2>1, <2>2
  <2>4. OfType(Up(n - 1), type) = Had(n - 1) BY <2>3
  <2>5. OfType(Up(n), type) # Had(n) OBVIOUS
  <2> HIDE DEF U
  <2>6. Up(n - 1) \in Seq(Blocks) /\ Up(n) = Append(Up(n - 1), s[n]) BY <1>2, <2>3
  <2>7. s[n] \in Blocks /\ s[n].type = type BY <1>3, <2>3
  <2>8. OfType(Append(Up(n - 1), s[n]), type) = Append(OfType(Up(n - 1), type), s[n])
    BY <2>6, <2>7, OfTypeNext
  <2> QED BY <1>4, <2>3, <2>4, <2>5, <2>6, <2>8
<1>8. Len(s) \in 0 .. Len(s) OBVIOUS
<1> QED BY <1>5, <1>6, <1>7, <1>8

LEMMA OfTypeNone ==
  ASSUME NEW a \in Seq(Blocks), NEW s \in Seq(Blocks), NEW type,
         \A i \in 1 .. Len(s) : s[i].type # type
  PROVE  OfType(a \o s, type) = OfType(a, type)
<1> DEFINE Up(n) == a \o SubSeq(s, 1, n)
           Had(n) == OfType(a, type)
           U == {n \in 0 .. Len(s) : OfType(Up(n), type) # Had(n)}
<1>1. OfType(a, type) \in Seq(Blocks) BY OfTypeType
<1>2. ASSUME NEW n \in 1 .. Len(s)
      PROVE  Up(n - 1) \in Seq(Blocks) /\ Up(n) = Append(Up(n - 1), s[n])
  BY PrefixNext, SMTT(30)
<1>3. ASSUME NEW n \in 1 .. Len(s) PROVE s[n] \in Blocks /\ s[n].type # type OBVIOUS
<1>4. ASSUME NEW n \in 1 .. Len(s) PROVE Had(n) = Had(n - 1) OBVIOUS
<1>5. Up(0) = a /\ Up(Len(s)) = a \o s BY PrefixEnds
<1>6. Had(0) = OfType(a, type) /\ Had(Len(s)) = OfType(a, type) BY <1>1, PrefixEnds
<1> HIDE DEF Up, Had
<1>7. U = {}
  <2> SUFFICES ASSUME U # {} PROVE FALSE OBVIOUS
  <2>1. PICK n \in U : \A w \in U : n <= w
    <3>1. U \in SUBSET Nat OBVIOUS
    <3> QED BY <3>1, Smallest
  <2>2. n # 0 BY <1>5, <1>6
  <2>3. n \in 1 .. Len(s) /\ n - 1 \in 0 .. Len(s) /\ n - 1 \notin U BY <2>1, <2>2
  <2>4. OfType(Up(n - 1), type) = Had(n - 1) BY <2>3
  <2>5. OfType(Up(n), type) # Had(n) OBVIOUS
  <2> HIDE DEF U
  <2>6. Up(n - 1) \in Seq(Blocks) /\ Up(n) = Append(Up(n - 1), s[n]) BY <1>2, <2>3
  <2>7. s[n] \in Blocks /\ s[n].type # type BY <1>3, <2>3
  <2>8. OfType(Append(Up(n - 1), s[n]), type) = OfType(Up(n - 1), type)
    BY <2>6, <2>7, OfTypeNext
  <2> QED BY <1>4, <2>3, <2>4, <2>5, <2>6, <2>8
<1>8. Len(s) \in 0 .. Len(s) OBVIOUS
<1> QED BY <1>5, <1>6, <1>7, <1>8

\* The text of what is found.
LEMMA TextsOfType ==
  ASSUME NEW a \in Seq(Blocks), NEW type PROVE TextsOf(a, type) \in Seq(Strings)
<1> DEFINE found == OfType(a, type)
<1>1. found \in Seq(Blocks) BY OfTypeType
<1>2. TextsOf(a, type) = [i \in 1 .. Len(found) |-> found[i].text] BY <1>1 DEF TextsOf
<1> HIDE DEF found
<1>3. ASSUME NEW i \in 1 .. Len(found) PROVE found[i].text \in Strings
  <2>1. found[i] \in Blocks BY <1>1
  <2> QED BY <2>1 DEF Blocks
<1> QED BY <1>1, <1>2, <1>3

-----------------------------------------------------------------------------
(* Grouped.                                                                  *)

LEMMA JoinedType ==
  ASSUME NEW groups \in Seq(Groups), NEW m \in Groups
  PROVE  Joined(groups, m) \in Seq(Groups)
<1>1. CASE ~(groups # <<>> /\ Last(groups).role = m.role) BY <1>1 DEF Joined
<1>2. CASE groups # <<>> /\ Last(groups).role = m.role
  <2> DEFINE n == Len(groups)
             g == [groups[n] EXCEPT !.blocks = @ \o m.blocks]
  <2>1. n \in 1 .. Len(groups) BY <1>2
  <2>2. groups[n] \in Groups BY <2>1
  <2>3. groups[n].blocks \in Seq(Blocks) /\ m.blocks \in Seq(Blocks) BY <2>2 DEF Groups
  <2>4. groups[n].blocks \o m.blocks \in Seq(Blocks) BY <2>3
  <2>5. g \in Groups BY <2>2, <2>4 DEF Groups
  <2>6. Joined(groups, m) = [groups EXCEPT ![n] = g] BY <1>2 DEF Joined
  <2> HIDE DEF n, g
  <2> QED BY <2>1, <2>5, <2>6, ExceptSeq
<1> QED BY <1>1, <1>2

GroupedStep(messages) ==
    [x \in Seq(Groups) \X (1 .. Len(messages)) |-> Joined(x[1], messages[x[2]])]

LEMMA GroupedLoop ==
  ASSUME NEW messages \in Seq(Groups)
  PROVE  \E g : /\ Iterates(g, Seq(Groups), <<>>, GroupedStep(messages), Len(messages))
                /\ Grouped(messages) = g[Len(messages)]
<1> DEFINE N == Len(messages)
           step == GroupedStep(messages)
           f == CHOOSE h : h = [n \in 0 .. Len(messages) |->
                  IF n = 0 THEN <<>> ELSE Joined(h[n - 1], messages[n])]
<1>1. N \in Nat /\ <<>> \in Seq(Groups) OBVIOUS
<1>2. ASSUME NEW n \in 1 .. N, NEW x \in Seq(Groups)
      PROVE (Joined(x, messages[n])) \in Seq(Groups) BY <1>2, JoinedType
<1>3. step \in [Seq(Groups) \X (1 .. N) -> Seq(Groups)]
      /\ \A n \in 1 .. N, x \in Seq(Groups) : step[<<x, n>>] = Joined(x, messages[n])
  BY <1>2 DEF GroupedStep
<1>4. PICK g : Iterates(g, Seq(Groups), <<>>, step, N)
  <2> HIDE DEF step, N
  <2> QED BY <1>1, <1>3, LoopRuns
<1>5. Grouped(messages) = f[N] BY DEF Grouped
<1>6. g = [n \in 0 .. N |-> IF n = 0 THEN <<>> ELSE Joined(g[n - 1], messages[n])]
  <2> HIDE DEF step, N
  <2>1. g \in [0 .. N -> Seq(Groups)] BY <1>4 DEF Iterates
  <2>2. ASSUME NEW n \in 0 .. N
        PROVE  g[n] = IF n = 0 THEN <<>> ELSE Joined(g[n - 1], messages[n])
    <3>1. CASE n = 0 BY <1>4, <3>1 DEF Iterates
    <3>2. CASE n # 0
      <4>1. n \in 1 .. N /\ g[n - 1] \in Seq(Groups) BY <1>1, <2>1, <3>2
      <4>2. g[n] = step[<<g[n - 1], n>>] BY <1>4, <4>1 DEF Iterates
      <4> QED BY <1>3, <3>2, <4>1, <4>2
    <3> QED BY <3>1, <3>2
  <2> QED BY <2>1, <2>2
<1>7. f = [n \in 0 .. N |-> IF n = 0 THEN <<>> ELSE Joined(f[n - 1], messages[n])] BY <1>6
<1> HIDE DEF f, step, N
<1>8. f[0] = <<>>
  <2>1. 0 \in 0 .. N BY <1>1
  <2> QED BY <1>7, <2>1
<1>9. \A n \in 0 .. N : f[n] = g[n]
  <2>1. ASSUME NEW n \in 1 .. N, f[n - 1] \in Seq(Groups) PROVE f[n] = step[<<f[n - 1], n>>]
    <3>1. n \in 0 .. N /\ n # 0 BY <1>1
    <3>2. f[n] = Joined(f[n - 1], messages[n]) BY <1>7, <3>1
    <3> QED BY <1>3, <2>1, <3>2
  <2>2. Keeps(f, Seq(Groups), <<>>, step, N) BY <1>8, <2>1 DEF Keeps
  <2>5. Agree(f, g, N) BY <1>1, <1>4, <2>2, LoopIs
  <2> QED BY <2>5 DEF Agree
<1>10. Grouped(messages) = g[N] BY <1>1, <1>5, <1>9
<1> QED BY <1>4, <1>10 DEF N, step

LEMMA GroupedNext ==
  ASSUME NEW messages \in Seq(Groups), NEW e \in Groups
  PROVE  /\ Grouped(messages) \in Seq(Groups)
         /\ Grouped(Append(messages, e)) = Joined(Grouped(messages), e)
<1> DEFINE N == Len(messages)
           more == Append(messages, e)
           step == GroupedStep(messages)
           step2 == GroupedStep(more)
<1>1. N \in Nat /\ more \in Seq(Groups) /\ Len(more) = N + 1 /\ more[N + 1] = e
      /\ \A n \in 1 .. N : more[n] = messages[n]
  OBVIOUS
<1>2. PICK g : Iterates(g, Seq(Groups), <<>>, step, N) /\ Grouped(messages) = g[N] BY GroupedLoop
<1> HIDE DEF more
<1>3. PICK h : Iterates(h, Seq(Groups), <<>>, step2, N + 1) /\ Grouped(more) = h[N + 1]
  BY <1>1, GroupedLoop
<1>4. ASSUME NEW n \in 1 .. N + 1, NEW x \in Seq(Groups) PROVE step2[<<x, n>>] = Joined(x, more[n])
  BY <1>1, <1>4 DEF GroupedStep
<1>5. ASSUME NEW n \in 1 .. N, NEW x \in Seq(Groups) PROVE step[<<x, n>>] = Joined(x, messages[n])
  BY <1>5 DEF GroupedStep
<1> HIDE DEF N, step, step2
<1>6. h \in [0 .. N + 1 -> Seq(Groups)] /\ g \in [0 .. N -> Seq(Groups)] BY <1>2, <1>3 DEF Iterates
<1>7. h[N] = g[N]
  <2>1. ASSUME NEW n \in 1 .. N PROVE h[n] = step[<<h[n - 1], n>>]
    <3>1. n \in 1 .. N + 1 /\ h[n - 1] \in Seq(Groups) BY <1>1, <1>6
    <3>2. h[n] = step2[<<h[n - 1], n>>] BY <1>3, <3>1 DEF Iterates
    <3>3. step2[<<h[n - 1], n>>] = step[<<h[n - 1], n>>] BY <1>1, <1>4, <1>5, <3>1
    <3> QED BY <3>2, <3>3
  <2>2. Keeps(h, Seq(Groups), <<>>, step, N) BY <1>3, <2>1 DEF Iterates, Keeps
  <2>3. \A n \in 0 .. N : h[n] = g[n]
    <3>1. Agree(h, g, N) BY <1>1, <1>2, <2>2, LoopIs
    <3> QED BY <3>1 DEF Agree
  <2> QED BY <1>1, <2>3
<1>8. h[N + 1] = step2[<<h[N], N + 1>>]
  <2>1. N + 1 \in 1 .. N + 1 /\ (N + 1) - 1 = N BY <1>1
  <2> QED BY <1>3, <2>1 DEF Iterates
<1>9. N + 1 \in 1 .. N + 1 /\ g[N] \in Seq(Groups) BY <1>1, <1>6
<1>10. Grouped(messages) \in Seq(Groups) BY <1>2, <1>9
<1>11. h[N + 1] = Joined(Grouped(messages), e) BY <1>1, <1>2, <1>4, <1>7, <1>8, <1>9
<1> QED BY <1>3, <1>10, <1>11 DEF more

Group(r, b) == [role |-> r, blocks |-> b]

LEMMA GroupType ==
  ASSUME NEW r \in {"user", "assistant", "system"}, NEW b \in Seq(Blocks)
  PROVE  Group(r, b) \in Groups
BY DEF Group, Groups

LEMMA GroupedType == ASSUME NEW h \in Seq(Groups) PROVE Grouped(h) \in Seq(Groups)
<1>1. <<>> \in Seq(Blocks) OBVIOUS
<1>2. Group("user", <<>>) \in Groups BY <1>1, GroupType
<1> QED BY <1>2, GroupedNext

LEMMA JoinedSame ==
  ASSUME NEW gs \in Seq(Groups), NEW r \in {"user", "assistant", "system"},
         NEW b \in Seq(Blocks), NEW c \in Seq(Blocks)
  PROVE  Joined(Append(gs, Group(r, b)), Group(r, c)) = Append(gs, Group(r, b \o c))
<1> DEFINE s == Append(gs, Group(r, b))
           n == Len(gs) + 1
<1>1. Group(r, b) \in Groups /\ Group(r, b \o c) \in Groups
  <2>1. b \o c \in Seq(Blocks) OBVIOUS
  <2> QED BY <2>1, GroupType
<1>2. n \in 1 .. n /\ n \in Nat
      /\ s \in Seq(Groups) /\ Len(s) = n /\ s[n] = Group(r, b) /\ \A i \in 1 .. Len(gs) : s[i] = gs[i]
  BY <1>1
<1>3. s # <<>> /\ Last(s).role = r /\ Group(r, c).role = r /\ Group(r, c).blocks = c
  BY <1>2 DEF Last, Group
<1> DEFINE t == [s EXCEPT ![n] = Group(r, b \o c)]
           u == Append(gs, Group(r, b \o c))
<1>4. Joined(s, Group(r, c)) = t
  <2> HIDE DEF s
  <2>1. [Group(r, b) EXCEPT !.blocks = @ \o c] = Group(r, b \o c)
    <3> DEFINE d == b \o c
               g == [role |-> r, blocks |-> b]
    <3>1. g.blocks = b OBVIOUS
    <3> HIDE DEF d
    <3>2. [g EXCEPT !.blocks = d] = [role |-> r, blocks |-> d] OBVIOUS
    <3> HIDE DEF g
    <3>3. [g EXCEPT !.blocks = @ \o c] = [g EXCEPT !.blocks = d] BY <3>1 DEF d
    <3> QED BY <3>2, <3>3 DEF Group, g, d
  <2> QED BY <1>2, <1>3, <2>1 DEF Joined
<1>5. u \in Seq(Groups) /\ Len(u) = n /\ u[n] = Group(r, b \o c) /\ \A i \in 1 .. Len(gs) : u[i] = gs[i]
  BY <1>1
<1>6. t \in Seq(Groups) /\ Len(t) = n /\ t[n] = Group(r, b \o c)
      /\ \A i \in 1 .. Len(gs) : t[i] = gs[i]
  <2> HIDE DEF s, n
  <2>1. n \in 1 .. Len(s) BY <1>2
  <2>2. /\ t \in Seq(Groups) /\ Len(t) = Len(s)
        /\ \A j \in 1 .. Len(s) : t[j] = IF j = n THEN Group(r, b \o c) ELSE s[j]
    BY <1>1, <1>2, <2>1, ExceptSeq
  <2> HIDE DEF t
  <2>3. \A i \in 1 .. Len(gs) : i \in 1 .. Len(s) /\ i # n BY <1>2 DEF n
  <2> QED BY <1>2, <2>1, <2>2, <2>3
<1>7. t = u
  <2> HIDE DEF t, u
  <2>1. ASSUME NEW i \in 1 .. n PROVE t[i] = u[i]
    <3>1. i = n \/ i \in 1 .. Len(gs) OBVIOUS
    <3> QED BY <1>5, <1>6, <3>1
  <2> QED BY <1>5, <1>6, <2>1, SeqEqual
<1> QED BY <1>4, <1>7

\* ProviderMessages of one block each, of a role that the last one has not, become one.
LEMMA RunOfBlocks ==
  ASSUME NEW h \in Seq(Groups), NEW r \in {"user", "assistant", "system"},
         NEW b \in Seq(Blocks), b # <<>>,
         Grouped(h) # <<>> => Last(Grouped(h)).role # r,
         NEW run, run = [i \in 1 .. Len(b) |-> Group(r, <<b[i]>>)]
  PROVE  run \in Seq(Groups) /\ Grouped(h \o run) = Append(Grouped(h), Group(r, b))
<1> DEFINE Up(n) == h \o SubSeq(run, 1, n)
           Had(n) == Append(Grouped(h), Group(r, SubSeq(b, 1, n)))
           U == {n \in 1 .. Len(b) : Grouped(Up(n)) # Had(n)}
<1>1. ASSUME NEW n \in 1 .. Len(b) PROVE run[n] = Group(r, <<b[n]>>) /\ run[n] \in Groups
  <2>1. <<b[n]>> \in Seq(Blocks) BY <1>1
  <2>2. Group(r, <<b[n]>>) \in Groups BY <2>1, GroupType
  <2> QED BY <1>1, <2>2
<1>2. run \in Seq(Groups) /\ Len(run) = Len(b) BY <1>1
<1>3. ASSUME NEW n \in 1 .. Len(b)
      PROVE  Up(n - 1) \in Seq(Groups) /\ Up(n) = Append(Up(n - 1), run[n])
  <2>1. n \in 1 .. Len(run) BY <1>2, <1>3
  <2> QED BY <1>2, <2>1, PrefixNext, SMTT(30)
<1>4. ASSUME NEW n \in 1 .. Len(b)
      PROVE  SubSeq(b, 1, n - 1) \in Seq(Blocks) /\ SubSeq(b, 1, n) = SubSeq(b, 1, n - 1) \o <<b[n]>>
             /\ <<b[n]>> \in Seq(Blocks)
  <2>1. SubSeq(b, 1, n - 1) \in Seq(Blocks) /\ SubSeq(b, 1, n) = Append(SubSeq(b, 1, n - 1), b[n])
    <3>1. <<>> \in Seq(Blocks) OBVIOUS
    <3> QED BY <3>1, PrefixNext
  <2>2. b[n] \in Blocks OBVIOUS
  <2>3. \A q \in Seq(Blocks) : q \o <<b[n]>> = Append(q, b[n]) BY <2>2
  <2> QED BY <2>1, <2>2, <2>3
<1>5. Up(0) = h /\ Up(Len(b)) = h \o run BY <1>2, PrefixEnds
<1>6. SubSeq(b, 1, 0) = <<>> /\ SubSeq(b, 1, Len(b)) = b
  <2>1. SubSeq(b, 1, 0) = <<>> BY SubSeqEmpty
  <2> QED BY <2>1, SubSeqFull
<1>7. Grouped(h) \in Seq(Groups) BY GroupedType
<1> HIDE DEF Up
<1>8. U = {}
  <2> SUFFICES ASSUME U # {} PROVE FALSE OBVIOUS
  <2>1. PICK n \in U : \A w \in U : n <= w
    <3>1. U \in SUBSET Nat OBVIOUS
    <3> QED BY <3>1, Smallest
  <2>2. n \in 1 .. Len(b) /\ Grouped(Up(n)) # Had(n) OBVIOUS
  <2>3. n > 1 => Grouped(Up(n - 1)) = Had(n - 1)
    <3>1. n > 1 => n - 1 \in 1 .. Len(b) /\ n - 1 \notin U BY <2>1, <2>2
    <3> QED BY <3>1
  <2> HIDE DEF U
  <2>4. Grouped(Up(n)) = Joined(Grouped(Up(n - 1)), run[n]) BY <1>1, <1>3, <2>2, GroupedNext
  <2>5. run[n] = Group(r, <<b[n]>>) BY <1>1, <2>2
  <2>6. CASE n = 1
    <3>1. Grouped(Up(n - 1)) = Grouped(h) BY <1>5, <2>6
    <3>2. Joined(Grouped(h), run[n]) = Append(Grouped(h), run[n])
      <4>1. run[n].role = r BY <2>5 DEF Group
      <4> QED BY <4>1 DEF Joined
    <3>3. SubSeq(b, 1, 1) = <<b[1]>>
      <4>1. SubSeq(b, 1, n) = SubSeq(b, 1, n - 1) \o <<b[n]>> /\ <<b[n]>> \in Seq(Blocks)
        BY <1>4, <2>2
      <4>2. n - 1 = 0 BY <2>6
      <4>3. SubSeq(b, 1, 1) = <<>> \o <<b[1]>> /\ <<b[1]>> \in Seq(Blocks) BY <1>6, <2>6, <4>1, <4>2
      <4> QED BY <4>3, ConcatEmptySeq
    <3> QED BY <2>2, <2>4, <2>5, <2>6, <3>1, <3>2, <3>3
  <2>7. CASE n > 1
    <3>1. Joined(Had(n - 1), Group(r, <<b[n]>>)) =
            Append(Grouped(h), Group(r, SubSeq(b, 1, n - 1) \o <<b[n]>>))
      BY <1>4, <1>7, <2>2, JoinedSame, ZenonT(60)
    <3> QED BY <1>4, <2>2, <2>3, <2>4, <2>5, <2>7, <3>1
  <2> QED BY <2>2, <2>6, <2>7
<1>9. Len(b) \in 1 .. Len(b) BY EmptySeq
<1>10. Grouped(h \o run) = Had(Len(b)) BY <1>5, <1>8, <1>9
<1> QED BY <1>2, <1>6, <1>10

-----------------------------------------------------------------------------
(* Lines.                                                                    *)

LinesStep(strings) ==
    [x \in Strings \X (1 .. Len(strings)) |-> IF x[2] = 1 THEN strings[1]
      ELSE x[1] \o <<"newline">> \o strings[x[2]]]

LEMMA LinesLoop ==
  ASSUME NEW strings \in Seq(Strings)
  PROVE  \E g : /\ Iterates(g, Strings, <<>>, LinesStep(strings), Len(strings))
                /\ Lines(strings) = g[Len(strings)]
<1> DEFINE N == Len(strings)
           step == LinesStep(strings)
           f == CHOOSE h : h = [n \in 0 .. Len(strings) |->
                  IF n = 0 THEN <<>> ELSE IF n = 1 THEN strings[1]
                    ELSE h[n - 1] \o <<"newline">> \o strings[n]]
<1>1. N \in Nat /\ <<>> \in Strings BY DEF Strings
<1>2. ASSUME NEW n \in 1 .. N, NEW x \in Strings
      PROVE  (IF n = 1 THEN strings[1] ELSE x \o <<"newline">> \o strings[n]) \in Strings
  <2>1. strings[n] \in Strings BY <1>2
  <2>2. <<"newline">> \in Seq(Pieces) BY DEF Pieces, Marks
  <2>3. x \in Seq(Pieces) /\ strings[n] \in Seq(Pieces) BY <2>1 DEF Strings
  <2>4. x \o <<"newline">> \o strings[n] \in Seq(Pieces) BY <2>2, <2>3
  <2> QED BY <2>1, <2>4 DEF Strings
<1>3. step \in [Strings \X (1 .. N) -> Strings]
      /\ \A n \in 1 .. N, x \in Strings : step[<<x, n>>] = IF n = 1 THEN strings[1]
           ELSE x \o <<"newline">> \o strings[n]
  BY <1>2 DEF LinesStep
<1>4. PICK g : Iterates(g, Strings, <<>>, step, N)
  <2> HIDE DEF step, N
  <2> QED BY <1>1, <1>3, LoopRuns
<1>5. Lines(strings) = f[N] BY DEF Lines
<1>6. g = [n \in 0 .. N |-> IF n = 0 THEN <<>> ELSE IF n = 1 THEN strings[1]
        ELSE g[n - 1] \o <<"newline">> \o strings[n]]
  <2> HIDE DEF step, N
  <2>1. g \in [0 .. N -> Strings] BY <1>4 DEF Iterates
  <2>2. ASSUME NEW n \in 0 .. N
        PROVE  g[n] = IF n = 0 THEN <<>> ELSE IF n = 1 THEN strings[1]
          ELSE g[n - 1] \o <<"newline">> \o strings[n]
    <3>1. CASE n = 0 BY <1>4, <3>1 DEF Iterates
    <3>2. CASE n # 0
      <4>1. n \in 1 .. N /\ g[n - 1] \in Strings BY <1>1, <2>1, <3>2
      <4>2. g[n] = step[<<g[n - 1], n>>] BY <1>4, <4>1 DEF Iterates
      <4> QED BY <1>3, <3>2, <4>1, <4>2
    <3> QED BY <3>1, <3>2
  <2> QED BY <2>1, <2>2
<1>7. f = [n \in 0 .. N |-> IF n = 0 THEN <<>> ELSE IF n = 1 THEN strings[1]
        ELSE f[n - 1] \o <<"newline">> \o strings[n]]
  BY <1>6
<1> HIDE DEF f, step, N
<1>8. f[0] = <<>>
  <2>1. 0 \in 0 .. N BY <1>1
  <2> QED BY <1>7, <2>1
<1>9. \A n \in 0 .. N : f[n] = g[n]
  <2>1. ASSUME NEW n \in 1 .. N, f[n - 1] \in Strings PROVE f[n] = step[<<f[n - 1], n>>]
    <3>1. n \in 0 .. N /\ n # 0 BY <1>1
    <3>2. f[n] = IF n = 1 THEN strings[1] ELSE f[n - 1] \o <<"newline">> \o strings[n] BY <1>7, <3>1
    <3> QED BY <1>3, <2>1, <3>2
  <2>2. Keeps(f, Strings, <<>>, step, N) BY <1>8, <2>1 DEF Keeps
  <2>5. Agree(f, g, N) BY <1>1, <1>4, <2>2, LoopIs
  <2> QED BY <2>5 DEF Agree
<1>10. Lines(strings) = g[N] BY <1>1, <1>5, <1>9
<1> QED BY <1>4, <1>10 DEF N, step

LEMMA LinesType == ASSUME NEW strings \in Seq(Strings) PROVE Lines(strings) \in Strings
<1>1. PICK g : /\ Iterates(g, Strings, <<>>, LinesStep(strings), Len(strings))
               /\ Lines(strings) = g[Len(strings)]
  BY LinesLoop
<1>2. Len(strings) \in 0 .. Len(strings) OBVIOUS
<1> QED BY <1>1, <1>2 DEF Iterates

LEMMA LinesNone == Lines(<<>>) = <<>>
<1>1. <<>> \in Seq(Strings) /\ Len(<<>>) = 0 OBVIOUS
<1>2. PICK g : /\ Iterates(g, Strings, <<>>, LinesStep(<<>>), Len(<<>>))
               /\ Lines(<<>>) = g[Len(<<>>)]
  BY <1>1, LinesLoop
<1> QED BY <1>1, <1>2 DEF Iterates

LEMMA LinesOne == ASSUME NEW x \in Strings PROVE Lines(<<x>>) = x
<1> DEFINE one == <<x>>
<1>1. one \in Seq(Strings) /\ Len(one) = 1 /\ one[1] = x OBVIOUS
<1> HIDE DEF one
<1>2. PICK g : Iterates(g, Strings, <<>>, LinesStep(one), Len(one)) /\ Lines(one) = g[Len(one)]
  BY <1>1, LinesLoop
<1>3. Len(one) \in 1 .. Len(one) /\ Len(one) - 1 = 0 /\ 1 \in 1 .. Len(one) BY <1>1
<1>4. g[1] = LinesStep(one)[<<g[0], 1>>] BY <1>1, <1>2, <1>3 DEF Iterates
<1>5. g[0] = <<>> /\ <<>> \in Strings BY <1>2, NoneIs DEF Iterates
<1>6. LinesStep(one)[<<<<>>, 1>>] = one[1] BY <1>3, <1>5 DEF LinesStep
<1> QED BY <1>1, <1>2, <1>4, <1>5, <1>6 DEF one

-----------------------------------------------------------------------------
(* Converted.                                                                *)

LEMMA OpenAIType ==
  ASSUME NEW role \in {"system", "user", "assistant", "tool"}, NEW text \in Strings,
         NEW reasoning \in Strings, NEW calls \in Seq(Calls), NEW id \in Ids
  PROVE  OpenAI(role, text, reasoning, calls, id) \in OpenAIs
BY DEF OpenAI, OpenAIs

LEMMA NoCalls == <<>> \in Seq(Calls)
OBVIOUS

LEMMA NoneOrOne ==
  ASSUME NEW S, NEW m \in S, NEW s \in {<<>>, <<m>>}
  PROVE  s \in Seq(S) /\ \A i \in 1 .. Len(s) : s[i] = m
<1>1. CASE s = <<>>
  <2>1. <<>> \in Seq(S) /\ Len(<<>>) = 0 OBVIOUS
  <2> QED BY <1>1, <2>1
<1>2. CASE s = <<m>>
  <2>1. <<m>> \in Seq(S) /\ Len(<<m>>) = 1 /\ <<m>>[1] = m OBVIOUS
  <2> QED BY <1>2, <2>1
<1> QED BY <1>1, <1>2

CallsOf(found) == [i \in DOMAIN found |-> [id |-> found[i].id, args |-> Dumped(found[i].text)]]

\* What the proxy writes of an input, and what is read of it.
LEMMA DumpedIs ==
  ASSUME NEW input \in Strings
  PROVE  Dumped(input) \in Strings /\ Parsed(Dumped(input)) = input
<1> DEFINE json == Dumped(input)
<1>1. Json \in Pieces BY DEF Pieces
<1>2. <<Json>> \in Seq(Pieces) /\ input \in Seq(Pieces) BY <1>1 DEF Strings
<1>3. json \in Seq(Pieces) /\ json # <<>> /\ json[1] = Json /\ Tail(json) = input
  <2> DEFINE q == Json
  <2>1. q \in Pieces /\ input \in Seq(Pieces) /\ json = <<q>> \o input BY <1>1, <1>2 DEF Dumped
  <2> HIDE DEF q, json
  <2>2. json \in Seq(Pieces) /\ Len(json) = 1 + Len(input) /\ json[1] = q BY <2>1
  <2>3. \A i \in 1 .. Len(input) : json[i + 1] = input[i] BY <2>1
  <2>4. Tail(json) \in Seq(Pieces) /\ Len(Tail(json)) = Len(input)
        /\ \A i \in 1 .. Len(input) : Tail(json)[i] = input[i]
    BY <2>1, <2>2, <2>3
  <2>5. Tail(json) = input BY <2>1, <2>4
  <2> QED BY <2>2, <2>5, <2>1 DEF q
<1> HIDE DEF json
<1>4. Parsed(json) = input BY <1>3 DEF Parsed
<1> QED BY <1>3, <1>4 DEF json, Strings

LEMMA CallsType ==
  ASSUME NEW found \in Seq(Blocks)
  PROVE  CallsOf(found) \in Seq(Calls) /\ Len(CallsOf(found)) = Len(found)
<1> DEFINE Of(i) == [id |-> found[i].id, args |-> Dumped(found[i].text)]
<1>1. ASSUME NEW i \in 1 .. Len(found) PROVE Of(i) \in Calls
  <2>1. found[i] \in Blocks OBVIOUS
  <2>2. found[i].text \in Strings /\ found[i].id \in Ids BY <2>1 DEF Blocks
  <2>3. Dumped(found[i].text) \in Strings BY <2>2, DumpedIs
  <2> QED BY <2>2, <2>3 DEF Calls
<1>2. CallsOf(found) = [i \in 1 .. Len(found) |-> Of(i)] BY DEF CallsOf
<1> HIDE DEF Of
<1> QED BY <1>1, <1>2

LEMMA AssistantType ==
  ASSUME NEW blocks \in Seq(Blocks), NEW carried
  PROVE  AssistantMessages(blocks, carried) \in Seq(OpenAIs)
<1> DEFINE reasoning == IF carried THEN Lines(TextsOf(blocks, "thinking")) ELSE <<>>
           m == OpenAI("assistant", Lines(TextsOf(blocks, "text")), reasoning,
                       CallsOf(OfType(blocks, "tool_use")), NoId)
<1>1. Lines(TextsOf(blocks, "text")) \in Strings /\ Lines(TextsOf(blocks, "thinking")) \in Strings
  BY TextsOfType, LinesType
<1>2. reasoning \in Strings BY <1>1, NoneIs
<1>3. CallsOf(OfType(blocks, "tool_use")) \in Seq(Calls) BY OfTypeType, CallsType
<1> HIDE DEF reasoning
<1>4. m \in OpenAIs BY <1>1, <1>2, <1>3, NoneIs, OpenAIType
<1> HIDE DEF m
<1>5. AssistantMessages(blocks, carried) \in {<<>>, <<m>>}
  BY DEF AssistantMessages, CallsOf, m, reasoning
<1> QED BY <1>4, <1>5, NoneOrOne, ZenonT(60)

LEMMA TextMessagesAre ==
  ASSUME NEW blocks \in Seq(Blocks)
  PROVE  /\ TextMessages(blocks) \in Seq(OpenAIs)
         /\ \A i \in 1 .. Len(TextMessages(blocks)) :
               TextMessages(blocks)[i].role = "user" /\ TextMessages(blocks)[i].calls = <<>>
<1> DEFINE m == OpenAI("user", Lines(TextsOf(blocks, "text")), <<>>, <<>>, NoId)
<1>1. Lines(TextsOf(blocks, "text")) \in Strings BY TextsOfType, LinesType
<1>2. m \in OpenAIs BY <1>1, NoneIs, NoCalls, OpenAIType
<1>3. m.role = "user" /\ m.calls = <<>> BY DEF OpenAI
<1> HIDE DEF m
<1>4. TextMessages(blocks) \in {<<>>, <<m>>} BY DEF TextMessages, m
<1>5. TextMessages(blocks) \in Seq(OpenAIs) /\ \A i \in 1 .. Len(TextMessages(blocks)) : TextMessages(blocks)[i] = m
  BY <1>2, <1>4, NoneOrOne, ZenonT(60)
<1> QED BY <1>3, <1>5

LEMMA ToolMessagesAre ==
  ASSUME NEW blocks \in Seq(Blocks)
  PROVE  /\ ToolMessages(blocks) \in Seq(OpenAIs)
         /\ Len(ToolMessages(blocks)) = Len(OfType(blocks, "tool_result"))
         /\ \A i \in 1 .. Len(ToolMessages(blocks)) :
               /\ ToolMessages(blocks)[i].role = "tool" /\ ToolMessages(blocks)[i].calls = <<>>
               /\ ToolMessages(blocks)[i].id = OfType(blocks, "tool_result")[i].id
<1> DEFINE found == OfType(blocks, "tool_result")
           Of(i) == OpenAI("tool", found[i].text, <<>>, <<>>, found[i].id)
<1>1. found \in Seq(Blocks) BY OfTypeType
<1>2. ToolMessages(blocks) = [i \in 1 .. Len(found) |-> Of(i)] BY <1>1 DEF ToolMessages
<1> HIDE DEF found
<1>3. ASSUME NEW i \in 1 .. Len(found)
      PROVE  Of(i) \in OpenAIs /\ Of(i).role = "tool" /\ Of(i).calls = <<>> /\ Of(i).id = found[i].id
  <2>1. found[i] \in Blocks BY <1>1
  <2>2. found[i].text \in Strings /\ found[i].id \in Ids BY <2>1 DEF Blocks
  <2>3. Of(i) \in OpenAIs BY <2>2, NoneIs, NoCalls, OpenAIType
  <2> QED BY <2>3 DEF OpenAI
<1> HIDE DEF Of
<1> QED BY <1>1, <1>2, <1>3 DEF found

LEMMA ConvertedType ==
  ASSUME NEW m \in Groups, NEW carried
  PROVE  Converted(m, carried) \in Seq(OpenAIs)
<1>1. m.blocks \in Seq(Blocks) /\ m.role \in {"user", "assistant", "system"} BY DEF Groups
<1>2. AssistantMessages(m.blocks, carried) \in Seq(OpenAIs) BY <1>1, AssistantType
<1>3. TextMessages(m.blocks) \in Seq(OpenAIs) /\ ToolMessages(m.blocks) \in Seq(OpenAIs)
  BY <1>1, TextMessagesAre, ToolMessagesAre
<1>4. UserMessages(m.blocks) \in Seq(OpenAIs) BY <1>3 DEF UserMessages
<1> QED BY <1>1, <1>2, <1>3, <1>4 DEF Converted, Notes

LEMMA SystemPromptType == SystemPrompt \in OpenAIs /\ <<SystemPrompt>> \in Seq(OpenAIs)
<1>1. <<"prompt">> \in Strings BY DEF Strings, Pieces, Marks
<1>2. SystemPrompt \in OpenAIs BY <1>1, NoneIs, NoCalls, OpenAIType DEF SystemPrompt
<1> QED BY <1>2

TranslatedStep(groups, carried) ==
    [x \in Seq(OpenAIs) \X (1 .. Len(groups)) |-> x[1] \o Converted(groups[x[2]], carried)]

LEMMA TranslatedLoop ==
  ASSUME NEW groups \in Seq(Groups), NEW carried
  PROVE  \E g : /\ Iterates(g, Seq(OpenAIs), <<SystemPrompt>>, TranslatedStep(groups, carried), Len(groups))
                /\ Translated(groups, carried) = g[Len(groups)]
<1> DEFINE N == Len(groups)
           step == TranslatedStep(groups, carried)
           f == CHOOSE h : h = [n \in 0 .. Len(groups) |->
                  IF n = 0 THEN <<SystemPrompt>> ELSE h[n - 1] \o Converted(groups[n], carried)]
<1>1. N \in Nat /\ <<SystemPrompt>> \in Seq(OpenAIs) BY SystemPromptType
<1>2. ASSUME NEW n \in 1 .. N, NEW x \in Seq(OpenAIs)
      PROVE (x \o Converted(groups[n], carried)) \in Seq(OpenAIs) BY <1>2, ConvertedType
<1>3. step \in [Seq(OpenAIs) \X (1 .. N) -> Seq(OpenAIs)]
      /\ \A n \in 1 .. N, x \in Seq(OpenAIs) : step[<<x, n>>] = x \o Converted(groups[n], carried)
  BY <1>2 DEF TranslatedStep
<1>4. PICK g : Iterates(g, Seq(OpenAIs), <<SystemPrompt>>, step, N)
  <2> HIDE DEF step, N
  <2> QED BY <1>1, <1>3, LoopRuns
<1>5. Translated(groups, carried) = f[N] BY DEF Translated
<1>6. g = [n \in 0 .. N |-> IF n = 0 THEN <<SystemPrompt>> ELSE g[n - 1] \o Converted(groups[n], carried)]
  <2> HIDE DEF step, N
  <2>1. g \in [0 .. N -> Seq(OpenAIs)] BY <1>4 DEF Iterates
  <2>2. ASSUME NEW n \in 0 .. N
        PROVE  g[n] = IF n = 0 THEN <<SystemPrompt>> ELSE g[n - 1] \o Converted(groups[n], carried)
    <3>1. CASE n = 0 BY <1>4, <3>1 DEF Iterates
    <3>2. CASE n # 0
      <4>1. n \in 1 .. N /\ g[n - 1] \in Seq(OpenAIs) BY <1>1, <2>1, <3>2
      <4>2. g[n] = step[<<g[n - 1], n>>] BY <1>4, <4>1 DEF Iterates
      <4> QED BY <1>3, <3>2, <4>1, <4>2
    <3> QED BY <3>1, <3>2
  <2> QED BY <2>1, <2>2
<1>7. f = [n \in 0 .. N |-> IF n = 0 THEN <<SystemPrompt>>
        ELSE f[n - 1] \o Converted(groups[n], carried)]
  BY <1>6
<1> HIDE DEF f, step, N
<1>8. f[0] = <<SystemPrompt>>
  <2>1. 0 \in 0 .. N BY <1>1
  <2> QED BY <1>7, <2>1
<1>9. \A n \in 0 .. N : f[n] = g[n]
  <2>1. ASSUME NEW n \in 1 .. N, f[n - 1] \in Seq(OpenAIs) PROVE f[n] = step[<<f[n - 1], n>>]
    <3>1. n \in 0 .. N /\ n # 0 BY <1>1
    <3>2. f[n] = f[n - 1] \o Converted(groups[n], carried) BY <1>7, <3>1
    <3> QED BY <1>3, <2>1, <3>2
  <2> DEFINE base == <<SystemPrompt>>
             S == Seq(OpenAIs)
  <2>2. Keeps(f, S, base, step, N) BY <1>8, <2>1 DEF Keeps
  <2>3. Iterates(g, S, base, step, N) BY <1>4
  <2>4. N \in Nat BY <1>1
  <2> HIDE DEF base, S
  <2>5. Agree(f, g, N) BY ONLY <2>2, <2>3, <2>4, LoopIs
  <2> QED BY <2>5 DEF Agree
<1>10. Translated(groups, carried) = g[N] BY <1>1, <1>5, <1>9
<1> QED BY <1>4, <1>10 DEF N, step

LEMMA TranslatedNext ==
  ASSUME NEW groups \in Seq(Groups), NEW carried, NEW e \in Groups
  PROVE  /\ Translated(groups, carried) \in Seq(OpenAIs)
         /\ Translated(Append(groups, e), carried) = Translated(groups, carried) \o Converted(e, carried)
<1> DEFINE N == Len(groups)
           more == Append(groups, e)
           base == <<SystemPrompt>>
           step == TranslatedStep(groups, carried)
           step2 == TranslatedStep(more, carried)
<1>1. N \in Nat /\ more \in Seq(Groups) /\ Len(more) = N + 1 /\ more[N + 1] = e
      /\ \A n \in 1 .. N : more[n] = groups[n]
  OBVIOUS
<1>2. PICK g : Iterates(g, Seq(OpenAIs), base, step, N) /\ Translated(groups, carried) = g[N]
  BY TranslatedLoop
<1> HIDE DEF more
<1>3. PICK h : Iterates(h, Seq(OpenAIs), base, step2, N + 1) /\ Translated(more, carried) = h[N + 1]
  BY <1>1, TranslatedLoop
<1>4. ASSUME NEW n \in 1 .. N + 1, NEW x \in Seq(OpenAIs)
      PROVE step2[<<x, n>>] = x \o Converted(more[n], carried)
  BY <1>1, <1>4 DEF TranslatedStep
<1>5. ASSUME NEW n \in 1 .. N, NEW x \in Seq(OpenAIs)
      PROVE step[<<x, n>>] = x \o Converted(groups[n], carried)
  BY <1>5 DEF TranslatedStep
<1> HIDE DEF N, base, step, step2
<1>6. h \in [0 .. N + 1 -> Seq(OpenAIs)] /\ g \in [0 .. N -> Seq(OpenAIs)] BY <1>2, <1>3 DEF Iterates
<1>7. h[N] = g[N]
  <2>1. ASSUME NEW n \in 1 .. N PROVE h[n] = step[<<h[n - 1], n>>]
    <3>1. n \in 1 .. N + 1 /\ h[n - 1] \in Seq(OpenAIs) BY <1>1, <1>6
    <3>2. h[n] = step2[<<h[n - 1], n>>] BY <1>3, <3>1 DEF Iterates
    <3>3. step2[<<h[n - 1], n>>] = h[n - 1] \o Converted(more[n], carried) BY <1>4, <3>1
    <3>4. step[<<h[n - 1], n>>] = h[n - 1] \o Converted(groups[n], carried) BY <1>5, <3>1
    <3>5. more[n] = groups[n] BY <1>1
    <3> QED BY <3>2, <3>3, <3>4, <3>5
  <2>2. Keeps(h, Seq(OpenAIs), base, step, N) BY <1>3, <2>1 DEF Iterates, Keeps
  <2>3. \A n \in 0 .. N : h[n] = g[n]
    <3>1. Agree(h, g, N) BY <1>1, <1>2, <2>2, LoopIs
    <3> QED BY <3>1 DEF Agree
  <2> QED BY <1>1, <2>3
<1>8. h[N + 1] = step2[<<h[N], N + 1>>]
  <2>1. N + 1 \in 1 .. N + 1 /\ (N + 1) - 1 = N BY <1>1
  <2> QED BY <1>3, <2>1 DEF Iterates
<1>9. N + 1 \in 1 .. N + 1 /\ g[N] \in Seq(OpenAIs) BY <1>1, <1>6
<1>10. Translated(groups, carried) \in Seq(OpenAIs) BY <1>2, <1>9
<1>11. h[N + 1] = Translated(groups, carried) \o Converted(e, carried) BY <1>1, <1>2, <1>4, <1>7, <1>8, <1>9
<1> QED BY <1>3, <1>10, <1>11 DEF more

-----------------------------------------------------------------------------
(* A turn: the blocks of an answer, and the message they are sent back as.   *)

ProviderMessages == [reasoning : Strings, text : Strings, calls : Seq(Calls)]

Thinking(m) == IF carry /\ m.reasoning # <<>> THEN <<Block("thinking", m.reasoning, NoId)>> ELSE <<>>
Saying(m) == IF m.text # <<>> THEN <<Text(m.text)>> ELSE <<>>
Calling(m, t) == [i \in DOMAIN m.calls |->
                    Block("tool_use", Parsed(m.calls[i].args), IdOf(m.calls[i], t, i))]

LEMMA BlockType ==
  ASSUME NEW type \in {"text", "thinking", "tool_use", "tool_result"}, NEW text \in Strings, NEW id \in Ids
  PROVE  Block(type, text, id) \in Blocks
BY DEF Block, Blocks

LEMMA ParsedType == ASSUME NEW args \in Strings PROVE Parsed(args) \in Strings
<1>1. args \in Seq(Pieces) BY DEF Strings
<1>2. CASE args # <<>> /\ args[1] = Json
  <2>1. Tail(args) \in Seq(Pieces) BY <1>1, <1>2
  <2> QED BY <1>2, <2>1 DEF Parsed, Strings
<1>3. CASE ~(args # <<>> /\ args[1] = Json) /\ args[1] \in Nat \X Nat \X {"object1"}
  <2>1. <<args[1][1], args[1][2], "value">> \in Nat \X Nat \X Marks BY <1>3 DEF Marks
  <2>2. <<args[1][1], args[1][2], "value">> \in Pieces BY <2>1 DEF Pieces
  <2>3. <<<<args[1][1], args[1][2], "value">>>> \in Strings BY <2>2 DEF Strings
  <2> QED BY <1>3, <2>3, NoneIs DEF Parsed
<1>4. CASE ~(args # <<>> /\ args[1] = Json) /\ args[1] \notin Nat \X Nat \X {"object1"}
  BY <1>4, NoneIs DEF Parsed
<1> QED BY <1>2, <1>3, <1>4

LEMMA IdOfType ==
  ASSUME NEW call \in Calls, NEW t \in Nat, NEW i \in Nat
  PROVE  IdOf(call, t, i) \in Ids
<1>1. "fresh" \in Marks BY DEF Marks
<1>2. <<t, i, "fresh">> \in Nat \X Nat \X Marks BY <1>1
<1>3. call.id \in Ids BY DEF Calls
<1> QED BY <1>2, <1>3 DEF IdOf, Ids

LEMMA CallingIs ==
  ASSUME NEW m \in ProviderMessages, NEW t \in Nat
  PROVE  /\ Calling(m, t) \in Seq(Blocks) /\ Len(Calling(m, t)) = Len(m.calls)
         /\ \A i \in 1 .. Len(m.calls) :
               /\ Calling(m, t)[i].type = "tool_use"
               /\ Calling(m, t)[i].text = Parsed(m.calls[i].args)
<1> DEFINE Of(i) == Block("tool_use", Parsed(m.calls[i].args), IdOf(m.calls[i], t, i))
<1>1. m.calls \in Seq(Calls) BY DEF ProviderMessages
<1>2. ASSUME NEW i \in 1 .. Len(m.calls)
      PROVE  Of(i) \in Blocks /\ Of(i).type = "tool_use" /\ Of(i).text = Parsed(m.calls[i].args)
  <2>1. m.calls[i] \in Calls /\ i \in Nat BY <1>1
  <2>2. m.calls[i].args \in Strings BY <2>1 DEF Calls
  <2>3. Parsed(m.calls[i].args) \in Strings /\ IdOf(m.calls[i], t, i) \in Ids
    BY <2>1, <2>2, ParsedType, IdOfType
  <2>4. Of(i) \in Blocks BY <2>3, BlockType
  <2> QED BY <2>4 DEF Block
<1>3. Calling(m, t) = [i \in 1 .. Len(m.calls) |-> Of(i)] BY <1>1 DEF Calling
<1> HIDE DEF Of
<1> QED BY <1>1, <1>2, <1>3

LEMMA ThinkingIs ==
  ASSUME NEW m \in ProviderMessages
  PROVE  /\ Thinking(m) \in Seq(Blocks)
         /\ Thinking(m) = <<>> \/ Thinking(m) = <<Block("thinking", m.reasoning, NoId)>>
         /\ \A i \in 1 .. Len(Thinking(m)) : Thinking(m)[i].type = "thinking"
<1> DEFINE b == Block("thinking", m.reasoning, NoId)
<1>1. m.reasoning \in Strings BY DEF ProviderMessages
<1>2. b \in Blocks BY <1>1, NoneIs, BlockType
<1>3. b.type = "thinking" BY DEF Block
<1> HIDE DEF b
<1>4. Thinking(m) \in {<<>>, <<b>>} BY DEF Thinking, b
<1>5. Thinking(m) \in Seq(Blocks) /\ \A i \in 1 .. Len(Thinking(m)) : Thinking(m)[i] = b
  BY <1>2, <1>4, NoneOrOne
<1> QED BY <1>3, <1>4, <1>5 DEF b

LEMMA SayingIs ==
  ASSUME NEW m \in ProviderMessages
  PROVE  /\ Saying(m) \in Seq(Blocks)
         /\ Saying(m) = <<>> \/ Saying(m) = <<Text(m.text)>>
         /\ \A i \in 1 .. Len(Saying(m)) : Saying(m)[i].type = "text"
<1> DEFINE b == Text(m.text)
<1>1. m.text \in Strings BY DEF ProviderMessages
<1>2. b \in Blocks BY <1>1, NoneIs, BlockType DEF Text
<1>3. b.type = "text" BY DEF Block, Text
<1> HIDE DEF b
<1>4. Saying(m) \in {<<>>, <<b>>} BY DEF Saying, b
<1>5. Saying(m) \in Seq(Blocks) /\ \A i \in 1 .. Len(Saying(m)) : Saying(m)[i] = b
  BY <1>2, <1>4, NoneOrOne
<1> QED BY <1>3, <1>4, <1>5 DEF b

\* Blocks of one type out of three lists that have one type each.
LEMMA OfTypeThree ==
  ASSUME NEW x \in Seq(Blocks), NEW y \in Seq(Blocks), NEW z \in Seq(Blocks),
         \A i \in 1 .. Len(x) : x[i].type = "thinking",
         \A i \in 1 .. Len(y) : y[i].type = "text",
         \A i \in 1 .. Len(z) : z[i].type = "tool_use"
  PROVE  /\ OfType(x \o y \o z, "thinking") = x
         /\ OfType(x \o y \o z, "text") = y
         /\ OfType(x \o y \o z, "tool_use") = z
<1> DEFINE w == x \o y
<1>1. w \in Seq(Blocks) OBVIOUS
<1>2. <<>> \in Seq(Blocks) /\ <<>> \o x = x /\ <<>> \o y = y /\ <<>> \o z = z
  <2>1. <<>> \in Seq(Blocks) OBVIOUS
  <2> QED BY <2>1, ConcatEmptySeq
<1>3. \A type : \A s \in Seq(Blocks) : s = x => OfType(s, type) = OfType(<<>> \o x, type) BY <1>2
<1>4. "thinking" # "text" /\ "thinking" # "tool_use" /\ "text" # "tool_use" OBVIOUS
<1>5. OfType(x, "thinking") = x
  <2>1. OfType(<<>> \o x, "thinking") = OfType(<<>>, "thinking") \o x BY <1>2, OfTypeAll
  <2> QED BY <1>2, <2>1, OfTypeEmpty
<1>6. OfType(x, "text") = <<>> /\ OfType(x, "tool_use") = <<>>
  <2>1. \A i \in 1 .. Len(x) : x[i].type # "text" /\ x[i].type # "tool_use" BY <1>4
  <2>2. OfType(<<>> \o x, "text") = OfType(<<>>, "text") BY <1>2, <2>1, OfTypeNone
  <2>3. OfType(<<>> \o x, "tool_use") = OfType(<<>>, "tool_use") BY <1>2, <2>1, OfTypeNone
  <2> QED BY <1>2, <2>2, <2>3, OfTypeEmpty
<1>7. OfType(w, "thinking") = x /\ OfType(w, "tool_use") = <<>>
  <2>1. \A i \in 1 .. Len(y) : y[i].type # "thinking" /\ y[i].type # "tool_use" BY <1>4
  <2>2. OfType(w, "thinking") = OfType(x, "thinking") BY <2>1, OfTypeNone
  <2>3. OfType(w, "tool_use") = OfType(x, "tool_use") BY <2>1, OfTypeNone
  <2> QED BY <1>5, <1>6, <2>2, <2>3
<1>8. OfType(w, "text") = y
  <2>1. OfType(w, "text") = OfType(x, "text") \o y BY OfTypeAll
  <2> QED BY <1>2, <1>6, <2>1
<1> HIDE DEF w
<1>9. OfType(w \o z, "thinking") = x /\ OfType(w \o z, "text") = y
  <2>1. \A i \in 1 .. Len(z) : z[i].type # "thinking" /\ z[i].type # "text" BY <1>4
  <2>2. OfType(w \o z, "thinking") = OfType(w, "thinking") BY <1>1, <2>1, OfTypeNone
  <2>3. OfType(w \o z, "text") = OfType(w, "text") BY <1>1, <2>1, OfTypeNone
  <2> QED BY <1>7, <1>8, <2>2, <2>3
<1>10. OfType(w \o z, "tool_use") = z
  <2>1. OfType(w \o z, "tool_use") = OfType(w, "tool_use") \o z BY <1>1, OfTypeAll
  <2> QED BY <1>2, <1>7, <2>1
<1> QED BY <1>9, <1>10 DEF w

\* The text of no block, or of one, on one line.
LEMMA OneText ==
  ASSUME NEW b \in Seq(Blocks), NEW type, NEW text \in Strings, NEW id,
         \/ OfType(b, type) = <<>> /\ text = <<>>
         \/ OfType(b, type) = <<Block(type, text, id)>>
  PROVE  Lines(TextsOf(b, type)) = text
<1>1. CASE OfType(b, type) = <<>> /\ text = <<>>
  <2>1. TextsOf(b, type) = <<>> BY <1>1 DEF TextsOf
  <2> QED BY <1>1, <2>1, LinesNone
<1>2. CASE OfType(b, type) = <<Block(type, text, id)>>
  <2> DEFINE e == Block(type, text, id)
  <2>1. e.text = text BY DEF Block
  <2> HIDE DEF e
  <2>2. [i \in DOMAIN <<e>> |-> <<e>>[i].text] = <<text>> BY <2>1
  <2>3. TextsOf(b, type) = <<text>> BY <1>2, <2>2 DEF TextsOf, e
  <2> QED BY <2>3, LinesOne
<1> QED BY <1>1, <1>2

\* All that ToBlocks makes of an answer.
LEMMA BlocksAre ==
  ASSUME NEW m \in ProviderMessages, NEW t \in Nat
  PROVE  /\ ToBlocks(m, t) \in Seq(Blocks) /\ ToBlocks(m, t) # <<>>
         /\ OfType(ToBlocks(m, t), "tool_use") = Calling(m, t)
         /\ Lines(TextsOf(ToBlocks(m, t), "text")) = m.text
         /\ carry => Lines(TextsOf(ToBlocks(m, t), "thinking")) = m.reasoning
<1> DEFINE x == Thinking(m)
           y == Saying(m)
           z == Calling(m, t)
           b == x \o y \o z
           B == ToBlocks(m, t)
           none == Text(<<>>)
<1>1. x \in Seq(Blocks) /\ y \in Seq(Blocks) /\ z \in Seq(Blocks)
      /\ (\A i \in 1 .. Len(x) : x[i].type = "thinking")
      /\ (\A i \in 1 .. Len(y) : y[i].type = "text")
      /\ (\A i \in 1 .. Len(z) : z[i].type = "tool_use")
  BY ThinkingIs, SayingIs, CallingIs
<1>2. m.text \in Strings /\ m.reasoning \in Strings BY DEF ProviderMessages
<1>3. B = IF b = <<>> THEN <<none>> ELSE b BY DEF ToBlocks, Thinking, Saying, Calling
<1>4. x = <<>> \/ x = <<Block("thinking", m.reasoning, NoId)>> BY ThinkingIs
<1>5. y = <<>> \/ y = <<Block("text", m.text, NoId)>> BY SayingIs DEF Text
<1>6. /\ carry /\ x = <<>> => m.reasoning = <<>>
      /\ y = <<>> => m.text = <<>>
  BY DEF Thinking, Saying
<1>7. none \in Blocks /\ none = Block("text", <<>>, NoId) /\ none.type = "text"
  BY NoneIs, BlockType DEF Text, Block
<1> HIDE DEF x, y, z, none
<1>8. b \in Seq(Blocks) BY <1>1
<1>9. OfType(b, "thinking") = x /\ OfType(b, "text") = y /\ OfType(b, "tool_use") = z
  BY <1>1, OfTypeThree
<1> HIDE DEF b, B
<1>10. CASE b = <<>>
  <2>1. x = <<>> /\ y = <<>> /\ z = <<>> BY <1>9, <1>10, OfTypeEmpty
  <2>2. B = <<none>> BY <1>3, <1>10
  <2>3. <<none>> \in Seq(Blocks) /\ Len(<<none>>) = 1 /\ <<none>>[1] = none /\ <<none>> # <<>>
    BY <1>7
  <2>4. <<>> \in Seq(Blocks) /\ <<>> \o <<none>> = <<none>> BY <2>3, ConcatEmptySeq
  <2> DEFINE one == <<none>>
  <2>a. one \in Seq(Blocks) /\ \A i \in 1 .. Len(one) : one[i].type = "text"
    BY <1>7, <2>3
  <2>b. \A i \in 1 .. Len(one) : one[i].type # "tool_use" /\ one[i].type # "thinking" BY <2>a
  <2> HIDE DEF one
  <2>5. OfType(<<>> \o one, "text") = OfType(<<>>, "text") \o one
    BY <2>a, <2>4, OfTypeAll
  <2>6. OfType(<<>> \o one, "tool_use") = OfType(<<>>, "tool_use")
    BY <2>a, <2>b, <2>4, OfTypeNone
  <2>7. OfType(<<>> \o one, "thinking") = OfType(<<>>, "thinking")
    BY <2>a, <2>b, <2>4, OfTypeNone
  <2>8. OfType(B, "text") = <<none>> /\ OfType(B, "tool_use") = <<>> /\ OfType(B, "thinking") = <<>>
    BY <2>2, <2>4, <2>5, <2>6, <2>7, OfTypeEmpty DEF one
  <2>9. B \in Seq(Blocks) /\ B # <<>> BY <2>2, <2>3
  <2>10. Lines(TextsOf(B, "text")) = <<>> BY <1>7, <2>8, <2>9, NoneIs, OneText
  <2>11. Lines(TextsOf(B, "thinking")) = <<>> BY <2>8, <2>9, NoneIs, OneText
  <2> QED BY <1>6, <2>1, <2>8, <2>9, <2>10, <2>11 DEF B, z
<1>11. CASE b # <<>>
  <2>1. B = b BY <1>3, <1>11
  <2>2. Lines(TextsOf(b, "text")) = m.text
    <3>1. \/ OfType(b, "text") = <<>> /\ m.text = <<>>
          \/ OfType(b, "text") = <<Block("text", m.text, NoId)>>
      BY <1>5, <1>6, <1>9
    <3> QED BY <1>2, <1>8, <3>1, OneText
  <2>3. carry => Lines(TextsOf(b, "thinking")) = m.reasoning
    <3> SUFFICES ASSUME carry PROVE Lines(TextsOf(b, "thinking")) = m.reasoning OBVIOUS
    <3>1. \/ OfType(b, "thinking") = <<>> /\ m.reasoning = <<>>
          \/ OfType(b, "thinking") = <<Block("thinking", m.reasoning, NoId)>>
      BY <1>4, <1>6, <1>9
    <3> QED BY <1>2, <1>8, <3>1, OneText
  <2> QED BY <1>8, <1>9, <1>11, <2>1, <2>2, <2>3 DEF B, z
<1> QED BY <1>10, <1>11

\* What a message has to bring to bring back an answer.
Brings(o, m) ==
    /\ o.role = "assistant" /\ o.text = m.text
    /\ o.reasoning = IF carry THEN m.reasoning ELSE <<>>
    /\ Len(o.calls) = Len(m.calls)
    /\ \A j \in 1 .. Len(m.calls) : o.calls[j].args = Dumped(Parsed(m.calls[j].args))

\* The blocks of an answer with calls become one message, which brings it back.
LEMMA AnswerIsOneMessage ==
  ASSUME NEW m \in ProviderMessages, NEW t \in Nat, m.calls # <<>>
  PROVE  \E o \in OpenAIs :
            /\ AssistantMessages(ToBlocks(m, t), carry) = <<o>>
            /\ o.calls = CallsOf(Calling(m, t)) /\ Brings(o, m)
<1> DEFINE B == ToBlocks(m, t)
           z == Calling(m, t)
           o == OpenAI("assistant", m.text, IF carry THEN m.reasoning ELSE <<>>, CallsOf(z), NoId)
<1>1. B \in Seq(Blocks) /\ OfType(B, "tool_use") = z /\ Lines(TextsOf(B, "text")) = m.text
      /\ (carry => Lines(TextsOf(B, "thinking")) = m.reasoning)
  BY BlocksAre
<1>2. z \in Seq(Blocks) /\ Len(z) = Len(m.calls) /\ m.calls \in Seq(Calls)
      /\ \A i \in 1 .. Len(m.calls) : z[i].text = Parsed(m.calls[i].args)
  BY CallingIs DEF ProviderMessages
<1>3. m.text \in Strings /\ m.reasoning \in Strings BY DEF ProviderMessages
<1> HIDE DEF B, z
<1>4. z # <<>> BY <1>2
<1>5. AssistantMessages(B, carry) = <<o>>
  <2>1. AssistantMessages(B, carry) =
          <<OpenAI("assistant", Lines(TextsOf(B, "text")),
                   IF carry THEN Lines(TextsOf(B, "thinking")) ELSE <<>>,
                   CallsOf(OfType(B, "tool_use")), NoId)>>
    BY <1>1, <1>4 DEF AssistantMessages, CallsOf
  <2>2. (IF carry THEN Lines(TextsOf(B, "thinking")) ELSE <<>>) = (IF carry THEN m.reasoning ELSE <<>>)
    BY <1>1
  <2> QED BY <1>1, <2>1, <2>2
<1>6. CallsOf(z) \in Seq(Calls) /\ Len(CallsOf(z)) = Len(z) BY <1>2, CallsType
<1>7. (IF carry THEN m.reasoning ELSE <<>>) \in Strings BY <1>3, NoneIs
<1>8. o \in OpenAIs BY <1>3, <1>6, <1>7, NoneIs, OpenAIType
<1>9. o.calls = CallsOf(z) /\ o.role = "assistant" /\ o.text = m.text
      /\ o.reasoning = IF carry THEN m.reasoning ELSE <<>>
  BY DEF OpenAI
<1> HIDE DEF o
<1>10. \A j \in 1 .. Len(m.calls) : CallsOf(z)[j].args = Dumped(Parsed(m.calls[j].args))
  <2> SUFFICES ASSUME NEW j \in 1 .. Len(m.calls)
               PROVE  CallsOf(z)[j].args = Dumped(Parsed(m.calls[j].args))
    OBVIOUS
  <2>1. j \in DOMAIN z BY <1>2
  <2>2. CallsOf(z)[j].args = Dumped(z[j].text) BY <2>1 DEF CallsOf
  <2> QED BY <1>2, <2>2
<1>11. Brings(o, m) BY <1>2, <1>6, <1>9, <1>10 DEF Brings
<1> QED BY <1>5, <1>8, <1>9, <1>11 DEF B, z

-----------------------------------------------------------------------------
(* The events of a reply.                                                    *)

LEMMA Thirds ==
  \A i \in Nat : (3 * i) \div 3 = i /\ (3 * i + 1) \div 3 = i /\ (3 * i + 2) \div 3 = i
OBVIOUS

\* A block that starts empty grows to itself.
LEMMA GrownIs ==
  ASSUME NEW block \in Blocks
  PROVE  Grown(Emptied(block), Delta(block)) = block
<1>1. PICK ty, tx, id : block = [type |-> ty, text |-> tx, id |-> id] BY DEF Blocks
<1>2. tx \in Strings /\ tx \in Seq(Pieces)
  <2>1. block.text = tx BY <1>1
  <2> QED BY <2>1 DEF Blocks, Strings
<1>3. Emptied(block) = [type |-> ty, text |-> <<>>, id |-> id] BY <1>1 DEF Emptied
<1>4. \A x \in Strings : <<>> \o x = x
  <2> SUFFICES ASSUME NEW x \in Strings PROVE <<>> \o x = x OBVIOUS
  <2>1. x \in Seq(Pieces) BY DEF Strings
  <2> QED BY <2>1, ConcatEmptySeq
<1>5. CASE ty = "tool_use"
  <2> DEFINE json == Dumped(tx)
  <2>1. json \in Strings /\ Parsed(json) = tx BY <1>2, DumpedIs
  <2>2. <<>> \o json = json BY <1>4, <2>1
  <2> HIDE DEF json
  <2>3. Delta(block) = [type |-> ty, text |-> json, id |-> id] BY <1>1, <1>5 DEF Delta, json
  <2>4. Grown(Emptied(block), Delta(block)) = [type |-> ty, text |-> Parsed(<<>> \o json), id |-> id]
    BY <1>3, <1>5, <2>3 DEF Grown
  <2> QED BY <1>1, <2>1, <2>2, <2>4
<1>6. CASE ty # "tool_use"
  <2>1. Delta(block) = block BY <1>1, <1>6 DEF Delta
  <2> DEFINE start == [type |-> ty, text |-> <<>>, id |-> id]
             text == start.text \o block.text
  <2>2. start.type = ty /\ start.text = <<>> /\ block.text = tx BY <1>1
  <2>3. text = tx BY <1>2, <1>4, <2>2
  <2>4. Grown(start, block) = [start EXCEPT !.text = IF start.type = "tool_use" THEN Parsed(text) ELSE text]
    BY DEF Grown
  <2> HIDE DEF text
  <2>5. [start EXCEPT !.text = tx] = [type |-> ty, text |-> tx, id |-> id] OBVIOUS
  <2> HIDE DEF start
  <2>6. Grown(start, block) = block BY <1>1, <1>6, <2>2, <2>3, <2>4, <2>5
  <2> QED BY <1>3, <2>1, <2>6 DEF start
<1> QED BY <1>5, <1>6

\* What the events of blocks are decoded to: the blocks.
LEMMA DecodedEvents ==
  ASSUME NEW b \in Seq(Blocks)
  PROVE  Decoded(Events(b)) = b
<1> DEFINE N == Len(b)
           ev == Events(b)
           Start(i) == Event("start", i, Emptied(b[i]))
           Brought(i) == Event("delta", i, Delta(b[i]))
           Stop(i) == Event("stop", i, b[i])
           BlockOf(kind, i) == (CHOOSE e \in ToSet(ev) : e.kind = kind /\ e.index = i).block
<1>1. N \in Nat /\ b \in [1 .. N -> Blocks] OBVIOUS
<1>2. ASSUME NEW i \in 1 .. N
      PROVE  /\ {3 * i - 2, 3 * i - 1, 3 * i} \subseteq DOMAIN ev
             /\ ev[3 * i - 2] = Start(i) /\ ev[3 * i - 1] = Brought(i) /\ ev[3 * i] = Stop(i)
  <2>1. {3 * i - 2, 3 * i - 1, 3 * i} \subseteq 1 .. 3 * N /\ DOMAIN ev = 1 .. 3 * N
    BY <1>1 DEF Events
  <2>2. ((3 * i - 2) + 2) \div 3 = i /\ ((3 * i - 1) + 2) \div 3 = i /\ (3 * i + 2) \div 3 = i
    <3>1. (3 * i - 2) + 2 = 3 * i /\ (3 * i - 1) + 2 = 3 * i + 1 /\ i \in Nat OBVIOUS
    <3> QED BY <3>1, Thirds
  <2>3. 3 * i - 2 # 3 * i - 1 /\ 3 * i - 2 # 3 * i /\ 3 * i - 1 # 3 * i OBVIOUS
  <2>4. ev[3 * i - 2] = Start(i)
    <3> DEFINE k == 3 * i - 2
    <3>1. k \in 1 .. 3 * N /\ (k + 2) \div 3 = i /\ k = 3 * i - 2 BY <2>1, <2>2
    <3> HIDE DEF k
    <3>2. ev[k] = Start(i) BY <3>1, SMTT(30) DEF Events
    <3> QED BY <3>2 DEF k
  <2>5. ev[3 * i - 1] = Brought(i) BY <2>1, <2>2, <2>3 DEF Events
  <2>6. ev[3 * i] = Stop(i) BY <2>1, <2>2, <2>3 DEF Events
  <2> QED BY <2>1, <2>4, <2>5, <2>6
<1>3. ASSUME NEW k \in DOMAIN ev
      PROVE  \E i \in 1 .. N : ev[k] \in {Start(i), Brought(i), Stop(i)}
  <2>1. k \in 1 .. 3 * N BY DEF Events
  <2>2. PICK i \in 1 .. N : k \in {3 * i - 2, 3 * i - 1, 3 * i}
    <3>1. /\ (k + 2) \div 3 \in 1 .. N
          /\ k \in {3 * ((k + 2) \div 3) - 2, 3 * ((k + 2) \div 3) - 1, 3 * ((k + 2) \div 3)}
      BY <1>1, <2>1
    <3> QED BY <3>1
  <2> QED BY <1>2, <2>2
<1>4. ASSUME NEW e \in ToSet(ev)
      PROVE  \E i \in 1 .. N : e \in {Start(i), Brought(i), Stop(i)}
  BY <1>3, <1>4 DEF ToSet
<1>5. ASSUME NEW i \in 1 .. N
      PROVE  Start(i) \in ToSet(ev) /\ Brought(i) \in ToSet(ev)
  BY <1>2 DEF ToSet
<1>6. ASSUME NEW i
      PROVE  /\ Start(i).kind = "start" /\ Brought(i).kind = "delta" /\ Stop(i).kind = "stop"
             /\ Start(i).index = i /\ Brought(i).index = i /\ Stop(i).index = i
             /\ Start(i).block = Emptied(b[i]) /\ Brought(i).block = Delta(b[i])
  BY DEF Event
<1> HIDE DEF ev, N, Start, Brought, Stop
<1>7. {e.index : e \in ToSet(ev)} = 1 .. N
  <2>1. ASSUME NEW e \in ToSet(ev) PROVE e.index \in 1 .. N
    <3>1. PICK i \in 1 .. N : e \in {Start(i), Brought(i), Stop(i)} BY <1>4
    <3>2. Start(i).index = i /\ Brought(i).index = i /\ Stop(i).index = i BY <1>6
    <3> QED BY <3>1, <3>2
  <2>2. \A i \in 1 .. N : \E e \in ToSet(ev) : e.index = i BY <1>5, <1>6
  <2> QED BY <2>1, <2>2
<1>8. ASSUME NEW i \in 1 .. N
      PROVE  BlockOf("start", i) = Emptied(b[i]) /\ BlockOf("delta", i) = Delta(b[i])
  <2>1. "start" # "delta" /\ "start" # "stop" /\ "delta" # "stop" OBVIOUS
  <2>2. ASSUME NEW e \in ToSet(ev), e.kind = "start", e.index = i PROVE e = Start(i)
    <3>1. PICK j \in 1 .. N : e \in {Start(j), Brought(j), Stop(j)} BY <1>4
    <3>2. Start(j).kind = "start" /\ Brought(j).kind = "delta" /\ Stop(j).kind = "stop" BY <1>6
    <3>3. Start(j).index = j /\ Brought(j).index = j /\ Stop(j).index = j BY <1>6
    <3>4. e = Start(j) BY <2>1, <2>2, <3>1, <3>2
    <3> QED BY <2>2, <3>3, <3>4
  <2>3. ASSUME NEW e \in ToSet(ev), e.kind = "delta", e.index = i PROVE e = Brought(i)
    <3>1. PICK j \in 1 .. N : e \in {Start(j), Brought(j), Stop(j)} BY <1>4
    <3>2. Start(j).kind = "start" /\ Brought(j).kind = "delta" /\ Stop(j).kind = "stop" BY <1>6
    <3>3. Start(j).index = j /\ Brought(j).index = j /\ Stop(j).index = j BY <1>6
    <3>4. e = Brought(j) BY <2>1, <2>3, <3>1, <3>2
    <3> QED BY <2>3, <3>3, <3>4
  <2>4. (CHOOSE e \in ToSet(ev) : e.kind = "start" /\ e.index = i) = Start(i)
    BY <1>5, <1>6, <2>2
  <2>5. (CHOOSE e \in ToSet(ev) : e.kind = "delta" /\ e.index = i) = Brought(i)
    BY <1>5, <1>6, <2>3
  <2> QED BY <1>6, <2>4, <2>5, ZenonT(60)
<1>9. Decoded(ev) = [i \in {e.index : e \in ToSet(ev)} |-> Grown(BlockOf("start", i), BlockOf("delta", i))]
  BY DEF Decoded
<1> HIDE DEF BlockOf
<1>10. ASSUME NEW i \in 1 .. N PROVE Grown(BlockOf("start", i), BlockOf("delta", i)) = b[i]
  <2>1. b[i] \in Blocks BY <1>1
  <2> QED BY <1>8, <2>1, GrownIs
<1>11. Decoded(ev) = [i \in 1 .. N |-> b[i]] BY <1>7, <1>9, <1>10
<1> QED BY <1>1, <1>11 DEF ev

-----------------------------------------------------------------------------
(* A round: what the conversation grows by when the agent goes on.           *)

\* ProviderMessages of one role behind one of another become one, whether they are one
\* or one for each block.
LEMMA Laid ==
  ASSUME NEW h \in Seq(Groups), NEW r \in {"user", "assistant", "system"},
         NEW b \in Seq(Blocks), b # <<>>,
         Grouped(h) # <<>> => Last(Grouped(h)).role # r,
         NEW run, \/ run = <<Group(r, b)>>
                  \/ run = [i \in 1 .. Len(b) |-> Group(r, <<b[i]>>)]
  PROVE  /\ h \o run \in Seq(Groups)
         /\ Grouped(h \o run) = Append(Grouped(h), Group(r, b))
         /\ Grouped(h \o run) # <<>> /\ Last(Grouped(h \o run)).role = r
<1> DEFINE gs == Grouped(h)
           m == Group(r, b)
<1>1. gs \in Seq(Groups) /\ m \in Groups BY GroupedType, GroupType
<1>2. m.role = r BY DEF Group
<1> HIDE DEF gs, m
<1>3. Append(gs, m) # <<>> /\ Last(Append(gs, m)) = m
  <2> DEFINE u == Append(gs, m)
  <2>1. Len(u) = Len(gs) + 1 /\ u[Len(gs) + 1] = m /\ Len(gs) \in Nat BY <1>1
  <2> HIDE DEF u
  <2>2. u # <<>> BY <2>1
  <2>3. u[Len(u)] = m BY <2>1
  <2> QED BY <2>2, <2>3 DEF u, Last
<1>4. CASE run = <<m>>
  <2>1. h \o <<m>> = Append(h, m) BY <1>1
  <2>2. Append(h, m) \in Seq(Groups) BY <1>1
  <2>3. Grouped(Append(h, m)) = Joined(gs, m) BY <1>1, GroupedNext DEF gs
  <2>4. Joined(gs, m) = Append(gs, m) BY <1>2 DEF Joined, gs
  <2> QED BY <1>2, <1>3, <1>4, <2>1, <2>2, <2>3, <2>4 DEF gs, m
<1>5. CASE run = [i \in 1 .. Len(b) |-> Group(r, <<b[i]>>)]
  <2>1. run \in Seq(Groups) /\ Grouped(h \o run) = Append(gs, m) BY <1>5, RunOfBlocks, ZenonT(60) DEF gs, m
  <2>2. h \o run \in Seq(Groups) BY <2>1
  <2> QED BY <1>2, <1>3, <2>1, <2>2 DEF gs, m
<1> QED BY <1>4, <1>5 DEF m

\* The results of calls answer each of them and nothing else.
Answering(found, calls) ==
    /\ \A i \in 1 .. Len(found) : \E c \in 1 .. Len(calls) : found[i].id = calls[c].id
    /\ \A c \in 1 .. Len(calls) : \E i \in 1 .. Len(found) : found[i].id = calls[c].id

LEMMA ResultsAre ==
  ASSUME NEW B \in Seq(Blocks), NEW calls, calls = OfType(B, "tool_use"), calls # <<>>, style \in Styles
  PROVE  \E F \in Seq(Blocks) :
            /\ F # <<>> /\ Answering(OfType(F, "tool_result"), calls)
            /\ \/ Results(B) = <<Group("user", F)>>
               \/ Results(B) = [i \in 1 .. Len(F) |-> Group("user", <<F[i]>>)]
<1> DEFINE Of(i) == Block("tool_result", <<"result">>, calls[i].id)
           found == [i \in DOMAIN calls |-> Of(i)]
           rem == Text(<<"reminder">>)
<1>1. calls \in Seq(Blocks) BY OfTypeType
<1>2. <<"result">> \in Strings /\ <<"reminder">> \in Strings BY DEF Strings, Pieces, Marks
<1>3. ASSUME NEW i \in 1 .. Len(calls)
      PROVE  Of(i) \in Blocks /\ Of(i).type = "tool_result" /\ Of(i).id = calls[i].id
  <2>1. calls[i] \in Blocks BY <1>1
  <2>2. calls[i].id \in Ids BY <2>1 DEF Blocks
  <2>3. Of(i) \in Blocks BY <1>2, <2>2, BlockType
  <2> QED BY <2>3 DEF Block
<1>4. rem \in Blocks /\ rem.type = "text" BY <1>2, NoneIs, BlockType DEF Text, Block
<1> HIDE DEF Of, rem
<1>5. /\ found \in Seq(Blocks) /\ Len(found) = Len(calls) /\ found # <<>>
      /\ \A i \in 1 .. Len(calls) : found[i].type = "tool_result" /\ found[i].id = calls[i].id
  BY <1>1, <1>3
<1>6. Results(B) = CASE style = "together" -> <<Group("user", found)>>
                     [] style = "behind_text" -> <<Group("user", <<rem>> \o found)>>
                     [] style = "one_by_one" ->
                          [i \in DOMAIN found |-> Group("user", <<Reverse(found)[i]>>)]
  BY DEF Results, Group, Of, rem
<1> HIDE DEF found
<1>7. <<>> \in Seq(Blocks) /\ \A s \in Seq(Blocks) : <<>> \o s = s
  <2>1. <<>> \in Seq(Blocks) OBVIOUS
  <2> QED BY <2>1, ConcatEmptySeq
<1>8. ASSUME NEW s \in Seq(Blocks), \A i \in 1 .. Len(s) : s[i].type = "tool_result"
      PROVE  OfType(s, "tool_result") = s
  <2>1. OfType(<<>> \o s, "tool_result") = OfType(<<>>, "tool_result") \o s BY <1>7, <1>8, OfTypeAll
  <2> QED BY <1>7, <2>1, OfTypeEmpty
<1>9. Answering(found, calls) BY <1>5 DEF Answering
<1>10. OfType(found, "tool_result") = found BY <1>5, <1>8
<1>11. CASE style = "together" BY <1>5, <1>6, <1>9, <1>10, <1>11
<1>12. CASE style = "behind_text"
  <2> DEFINE one == <<rem>>
             F == one \o found
  <2>1. one \in Seq(Blocks) /\ Len(one) = 1 /\ \A i \in 1 .. Len(one) : one[i].type # "tool_result" BY <1>4
  <2> HIDE DEF one
  <2>2. OfType(<<>> \o one, "tool_result") = OfType(<<>>, "tool_result") BY <1>7, <2>1, OfTypeNone
  <2>3. OfType(one, "tool_result") = <<>> BY <1>7, <2>1, <2>2, OfTypeEmpty
  <2>4. OfType(F, "tool_result") = OfType(one, "tool_result") \o found BY <1>5, <2>1, OfTypeAll
  <2>5. OfType(F, "tool_result") = found BY <1>5, <1>7, <2>3, <2>4
  <2>6. F \in Seq(Blocks) /\ F # <<>>
    <3>1. F \in Seq(Blocks) /\ Len(F) = Len(one) + Len(found) BY <1>5, <2>1, ConcatProperties
    <3> HIDE DEF F
    <3>2. Len(found) \in Nat /\ Len(F) # 0 BY <1>5, <2>1, <3>1
    <3> QED BY <3>1, <3>2
  <2>7. Results(B) = <<Group("user", F)>> BY <1>6, <1>12 DEF one
  <2> QED BY <1>9, <2>5, <2>6, <2>7
<1>13. CASE style = "one_by_one"
  <2> DEFINE F == Reverse(found)
             n == Len(found)
  <2>1. n \in Nat /\ \A i \in 1 .. n : n - i + 1 \in 1 .. n /\ n - (n - i + 1) + 1 = i BY <1>5
  <2>2. F = [i \in 1 .. n |-> found[n - i + 1]] BY DEF Reverse
  <2> HIDE DEF F
  <2>3. F \in Seq(Blocks) /\ Len(F) = n /\ F # <<>> /\ \A i \in 1 .. n : F[i] = found[n - i + 1]
    BY <1>5, <2>1, <2>2
  <2>4. \A i \in 1 .. Len(F) : F[i].type = "tool_result" BY <1>5, <2>1, <2>3
  <2>5. OfType(F, "tool_result") = F BY <1>8, <2>3, <2>4
  <2>6. Answering(F, calls)
    <3>1. \A i \in 1 .. Len(F) : \E c \in 1 .. Len(calls) : F[i].id = calls[c].id
      BY <1>5, <2>1, <2>3
    <3>2. ASSUME NEW c \in 1 .. Len(calls) PROVE \E i \in 1 .. Len(F) : F[i].id = calls[c].id
      <4>1. n - c + 1 \in 1 .. n /\ n - (n - c + 1) + 1 = c BY <1>5, <2>1
      <4>2. F[n - c + 1] = found[c] BY <2>3, <4>1
      <4> QED BY <1>5, <2>3, <4>1, <4>2
    <3> QED BY <3>1, <3>2 DEF Answering
  <2>7. Results(B) = [i \in 1 .. Len(F) |-> Group("user", <<F[i]>>)]
    <3>1. DOMAIN found = 1 .. n BY <1>5
    <3> QED BY <1>6, <1>13, <2>3, <3>1 DEF F
  <2> QED BY <2>3, <2>5, <2>6, <2>7
<1> QED BY <1>11, <1>12, <1>13 DEF Styles

\* One message more for Translated.
LEMMA Converts ==
  ASSUME NEW gs \in Seq(Groups), NEW b \in Seq(Blocks)
  PROVE  /\ Translated(gs, carry) \in Seq(OpenAIs)
         /\ Translated(Append(gs, Group("assistant", b)), carry) =
              Translated(gs, carry) \o AssistantMessages(b, carry)
         /\ Translated(Append(gs, Group("user", b)), carry) = Translated(gs, carry) \o UserMessages(b)
         /\ Translated(Append(gs, Group("system", b)), carry) = Translated(gs, carry) \o Notes(b)
<1>1. ASSUME NEW r \in {"user", "assistant", "system"}
      PROVE  /\ Translated(gs, carry) \in Seq(OpenAIs)
             /\ Translated(Append(gs, Group(r, b)), carry) =
                   Translated(gs, carry) \o Converted(Group(r, b), carry)
  <2>1. Group(r, b) \in Groups BY GroupType
  <2> QED BY <2>1, TranslatedNext
<1>2. /\ Converted(Group("assistant", b), carry) = AssistantMessages(b, carry)
      /\ Converted(Group("user", b), carry) = UserMessages(b)
      /\ Converted(Group("system", b), carry) = Notes(b)
  BY DEF Converted, Group
<1> QED BY <1>1, <1>2

\* What a round adds to the request: a message that brings the answer back, the
\* results of its calls right behind it, and then at most the user's.
Plain(s, role) == \A i \in 1 .. Len(s) : s[i].role = role /\ s[i].calls = <<>>

Round(more, was, m) ==
    \E o \in OpenAIs, tools \in Seq(OpenAIs), users \in Seq(OpenAIs) :
        /\ more = was \o <<o>> \o tools \o users
        /\ Brings(o, m) /\ Answering(tools, o.calls)
        /\ Plain(tools, "tool") /\ Plain(users, "user")

Continued(h, B, notes) == h \o Recorded(B) \o Results(B) \o notes

Open(h) == h \in Seq(Groups) /\ Grouped(h) # <<>> /\ Last(Grouped(h)).role # "assistant"

LEMMA PlainBoth ==
  ASSUME NEW x \in Seq(OpenAIs), NEW y \in Seq(OpenAIs), NEW role, Plain(x, role), Plain(y, role)
  PROVE  x \o y \in Seq(OpenAIs) /\ Plain(x \o y, role)
<1> DEFINE z == x \o y
<1>1. /\ z \in Seq(OpenAIs) /\ Len(z) = Len(x) + Len(y)
      /\ \A i \in 1 .. Len(x) + Len(y) : z[i] = IF i <= Len(x) THEN x[i] ELSE y[i - Len(x)]
  BY ConcatProperties
<1> HIDE DEF z
<1>2. Len(x) \in Nat /\ Len(y) \in Nat OBVIOUS
<1>3. ASSUME NEW i \in 1 .. Len(z) PROVE z[i].role = role /\ z[i].calls = <<>>
  <2>1. CASE i <= Len(x)
    <3>1. i \in 1 .. Len(x) /\ z[i] = x[i] BY <1>1, <1>2, <2>1
    <3> QED BY <3>1 DEF Plain
  <2>2. CASE i > Len(x)
    <3>1. i - Len(x) \in 1 .. Len(y) /\ z[i] = y[i - Len(x)] BY <1>1, <1>2, <2>2
    <3> QED BY <3>1 DEF Plain
  <2> QED BY <1>2, <2>1, <2>2
<1> QED BY <1>1, <1>3 DEF Plain, z

LEMMA AnsweringToo ==
  ASSUME NEW found, NEW calls, Answering(found, calls),
         NEW tools, Len(tools) = Len(found), \A i \in 1 .. Len(tools) : tools[i].id = found[i].id,
         NEW asked, Len(asked) = Len(calls), \A c \in 1 .. Len(asked) : asked[c].id = calls[c].id
  PROVE  Answering(tools, asked)
BY DEF Answering

LEMMA RoundAdds ==
  ASSUME NEW h, Open(h), NEW m \in ProviderMessages, NEW t \in Nat, m.calls # <<>>, style \in Styles,
         NEW notes \in {<<>>, <<Note>>},
         NEW more, more = Continued(h, ToBlocks(m, t), notes)
  PROVE  Open(more) /\ Round(ToOpenAI(more, carry), ToOpenAI(h, carry), m)
<1> DEFINE B == ToBlocks(m, t)
           calls == Calling(m, t)
           gs == Grouped(h)
           h1 == h \o Recorded(B)
           h2 == h1 \o Results(B)
           note == <<Text(<<"note">>)>>
<1>1. B \in Seq(Blocks) /\ B # <<>> /\ OfType(B, "tool_use") = calls BY BlocksAre
<1> HIDE DEF B
<1>2. calls \in Seq(Blocks) /\ calls # <<>>
  <2>1. calls \in Seq(Blocks) /\ Len(calls) = Len(m.calls) BY CallingIs
  <2>2. m.calls \in Seq(Calls) BY DEF ProviderMessages
  <2> HIDE DEF calls
  <2> QED BY <2>1, <2>2
<1>3. PICK o \in OpenAIs : AssistantMessages(B, carry) = <<o>> /\ o.calls = CallsOf(calls) /\ Brings(o, m)
  BY AnswerIsOneMessage DEF B
<1>4. PICK F \in Seq(Blocks) :
        /\ F # <<>> /\ Answering(OfType(F, "tool_result"), calls)
        /\ \/ Results(B) = <<Group("user", F)>>
           \/ Results(B) = [i \in 1 .. Len(F) |-> Group("user", <<F[i]>>)]
  BY <1>1, <1>2, ResultsAre
<1>5. note \in Seq(Blocks) /\ note # <<>>
  <2>1. <<"note">> \in Strings BY DEF Strings, Pieces, Marks
  <2>2. Text(<<"note">>) \in Blocks BY <2>1, NoneIs, BlockType DEF Text
  <2> QED BY <2>2
<1>6. gs \in Seq(Groups) BY GroupedType DEF Open
<1>7. <<Note>> = <<Group("system", note)>> BY DEF Note, Group
<1> DEFINE tools == ToolMessages(F)
           said1 == TextMessages(F)
           said2 == TextMessages(note)
           was == ToOpenAI(h, carry)
<1>8. tools \in Seq(OpenAIs) /\ said1 \in Seq(OpenAIs) /\ said2 \in Seq(OpenAIs)
      /\ Plain(tools, "tool") /\ Plain(said1, "user") /\ Plain(said2, "user")
  BY <1>5, ToolMessagesAre, TextMessagesAre DEF Plain
<1>9. Answering(tools, o.calls)
  <2> DEFINE found == OfType(F, "tool_result")
  <2>1. Len(tools) = Len(found) /\ \A i \in 1 .. Len(tools) : tools[i].id = found[i].id
    BY ToolMessagesAre
  <2>2. Len(o.calls) = Len(calls) BY <1>2, <1>3, CallsType
  <2>3. \A c \in 1 .. Len(calls) : o.calls[c].id = calls[c].id
    <3> SUFFICES ASSUME NEW c \in 1 .. Len(calls) PROVE CallsOf(calls)[c].id = calls[c].id BY <1>3
    <3>1. c \in DOMAIN calls BY <1>2
    <3> QED BY <3>1 DEF CallsOf
  <2>4. Answering(found, calls) BY <1>4
  <2>5. \A c \in 1 .. Len(o.calls) : o.calls[c].id = calls[c].id BY <2>2, <2>3
  <2> HIDE DEF tools, found, calls
  <2> QED BY <2>1, <2>2, <2>4, <2>5, AnsweringToo
<1> HIDE DEF note
<1>10. /\ h1 \in Seq(Groups) /\ Grouped(h1) = Append(gs, Group("assistant", B))
       /\ Grouped(h1) # <<>> /\ Last(Grouped(h1)).role = "assistant"
  <2> DEFINE run == Recorded(B)
  <2>1. \/ run = <<Group("assistant", B)>>
        \/ run = [i \in 1 .. Len(B) |-> Group("assistant", <<B[i]>>)]
    <3>1. DOMAIN B = 1 .. Len(B) BY <1>1
    <3> QED BY <3>1 DEF Recorded, Group
  <2> HIDE DEF run
  <2> QED BY <1>1, <2>1, Laid DEF Open, run
<1>11. /\ h2 \in Seq(Groups) /\ Grouped(h2) = Append(Grouped(h1), Group("user", F))
       /\ Grouped(h2) # <<>> /\ Last(Grouped(h2)).role = "user"
  <2> DEFINE run == Results(B)
  <2>1. \/ run = <<Group("user", F)>>
        \/ run = [i \in 1 .. Len(F) |-> Group("user", <<F[i]>>)]
    BY <1>4
  <2>2. F # <<>> /\ Last(Grouped(h1)).role # "user" /\ h1 \in Seq(Groups) BY <1>4, <1>10
  <2> HIDE DEF run, h1, h2, gs, calls, tools, said1, said2, was
  <2>3. /\ h1 \o run \in Seq(Groups) /\ Grouped(h1 \o run) = Append(Grouped(h1), Group("user", F))
        /\ Grouped(h1 \o run) # <<>> /\ Last(Grouped(h1 \o run)).role = "user"
    BY ONLY F \in Seq(Blocks), <2>1, <2>2, Laid
  <2> QED BY <2>3 DEF run, h2
<1>12. <<o>> \in Seq(OpenAIs) /\ was \in Seq(OpenAIs)
       /\ ToOpenAI(h2, carry) = (was \o <<o>>) \o (tools \o said1)
  <2>1. was = Translated(gs, carry) BY DEF ToOpenAI
  <2> HIDE DEF was, tools, said1, h1, h2
  <2>2. Grouped(h1) \in Seq(Groups) /\ Translated(gs, carry) \in Seq(OpenAIs)
        /\ Translated(Grouped(h1), carry) = Translated(gs, carry) \o AssistantMessages(B, carry)
    <3>1. Grouped(h1) \in Seq(Groups) BY <1>10, GroupedType
    <3>2. Grouped(h1) = Append(gs, Group("assistant", B)) BY <1>10
    <3> HIDE DEF gs
    <3> QED BY <1>1, <1>6, <3>1, <3>2, Converts
  <2>3. Translated(Grouped(h2), carry) = Translated(Grouped(h1), carry) \o UserMessages(F)
    <3>1. Grouped(h2) = Append(Grouped(h1), Group("user", F)) BY <1>11
    <3> QED BY <2>2, <3>1, Converts
  <2>4. UserMessages(F) = tools \o said1 BY DEF UserMessages, tools, said1
  <2>5. <<o>> \in Seq(OpenAIs) OBVIOUS
  <2> QED BY <1>3, <2>1, <2>2, <2>3, <2>4, <2>5 DEF ToOpenAI
<1>13. CASE notes = <<>>
  <2>1. more = h2 BY <1>11, <1>13, ConcatEmptySeq DEF Continued, B
  <2>2. (was \o <<o>>) \o (tools \o said1) = was \o <<o>> \o tools \o said1
    <3> DEFINE x == was \o <<o>>
    <3>1. x \in Seq(OpenAIs) BY <1>12
    <3> HIDE DEF was, tools, said1, x
    <3>2. \A p, q, r \in Seq(OpenAIs) : p \o (q \o r) = p \o q \o r BY Associates
    <3>3. x \o (tools \o said1) = x \o tools \o said1 BY <1>8, <3>1, <3>2
    <3> QED BY <3>3 DEF x
  <2> HIDE DEF was, tools, said1, h2
  <2>3. ToOpenAI(more, carry) = was \o <<o>> \o tools \o said1 BY <1>12, <2>1, <2>2
  <2>4. Round(ToOpenAI(more, carry), was, m) BY <1>3, <1>8, <1>9, <2>3 DEF Round
  <2> QED BY <1>11, <2>1, <2>4 DEF Open, was
<1>14. CASE notes = <<Note>>
  <2>1. more = h2 \o <<Group("system", note)>> BY <1>7, <1>14 DEF Continued, B
  <2> HIDE DEF was, tools, said1, said2, h1, h2
  <2>2. /\ more \in Seq(Groups) /\ Grouped(more) = Append(Grouped(h2), Group("system", note))
        /\ Grouped(more) # <<>> /\ Last(Grouped(more)).role = "system"
    <3> DEFINE run == <<Group("system", note)>>
    <3>1. \/ run = <<Group("system", note)>>
          \/ run = [i \in 1 .. Len(note) |-> Group("system", <<note[i]>>)]
      OBVIOUS
    <3> HIDE DEF run
    <3>2. Last(Grouped(h2)).role # "system" /\ h2 \in Seq(Groups) BY <1>11
    <3>3. h2 \o run \in Seq(Groups) /\ Grouped(h2 \o run) = Append(Grouped(h2), Group("system", note))
          /\ Grouped(h2 \o run) # <<>> /\ Last(Grouped(h2 \o run)).role = "system"
      BY <1>5, <3>1, <3>2, Laid
    <3> QED BY <2>1, <3>3 DEF run
  <2>3. Grouped(h2) \in Seq(Groups) BY <1>11, GroupedType
  <2>4. ToOpenAI(more, carry) = ToOpenAI(h2, carry) \o said2
    <3>1. Translated(Append(Grouped(h2), Group("system", note)), carry) =
            Translated(Grouped(h2), carry) \o Notes(note)
      BY <1>5, <2>3, Converts
    <3> QED BY <2>2, <3>1 DEF ToOpenAI, Notes, said2
  <2> DEFINE users == said1 \o said2
  <2>5. ((was \o <<o>>) \o (tools \o said1)) \o said2 = was \o <<o>> \o tools \o users
    <3> DEFINE x == was \o <<o>>
    <3>1. x \in Seq(OpenAIs) BY <1>12
    <3> HIDE DEF x
    <3>2. \A p, q, r \in Seq(OpenAIs) : p \o (q \o r) = p \o q \o r BY Associates
    <3>3. x \o (tools \o said1) = x \o tools \o said1 BY <1>8, <3>1, <3>2
    <3> DEFINE y == x \o tools
    <3>4. y \in Seq(OpenAIs) BY <1>8, <3>1
    <3> HIDE DEF y
    <3>5. y \o (said1 \o said2) = y \o said1 \o said2 BY <1>8, <3>2, <3>4
    <3> QED BY <3>3, <3>5 DEF x, y
  <2>6. users \in Seq(OpenAIs) /\ Plain(users, "user") BY <1>8, PlainBoth
  <2> HIDE DEF users
  <2>7. ToOpenAI(more, carry) = was \o <<o>> \o tools \o users BY <1>12, <2>4, <2>5
  <2>8. Round(ToOpenAI(more, carry), was, m) BY <1>3, <1>8, <1>9, <2>6, <2>7 DEF Round
  <2> QED BY <2>2, <2>8 DEF Open, was
<1> QED BY <1>13, <1>14

-----------------------------------------------------------------------------
(* What a round keeps of a request.                                          *)

\* ResultsFollowCalls of any list of messages.
Follow(s) ==
    /\ \A i \in DOMAIN s : s[i].role = "tool" =>
          \E a \in 1 .. i - 1 :
              /\ \E c \in ToSet(s[a].calls) : c.id = s[i].id
              /\ \A j \in a + 1 .. i : s[j].role = "tool"
    /\ \A a \in DOMAIN s : \A c \in ToSet(s[a].calls) :
          \E i \in a + 1 .. Len(s) : s[i].role = "tool" /\ s[i].id = c.id

Extends(s, t) ==
    /\ s \in Seq(OpenAIs) /\ t \in Seq(OpenAIs) /\ IsPrefix(s, t)
    /\ \A i \in 1 .. Len(t) : t[i].role = "system" => i <= Len(s)

\* The parts of what a round makes.
LEMMA RoundParts ==
  ASSUME NEW s \in Seq(OpenAIs), NEW o \in OpenAIs, NEW x \in Seq(OpenAIs), NEW y \in Seq(OpenAIs),
         NEW u, u = s \o <<o>> \o x \o y
  PROVE  /\ u \in Seq(OpenAIs) /\ Len(u) = Len(s) + 1 + Len(x) + Len(y)
         /\ \A i \in 1 .. Len(s) : u[i] = s[i]
         /\ u[Len(s) + 1] = o
         /\ \A i \in 1 .. Len(x) : u[Len(s) + 1 + i] = x[i]
         /\ \A i \in 1 .. Len(y) : u[Len(s) + 1 + Len(x) + i] = y[i]
<1> DEFINE one == <<o>>
           v == s \o one
           w == v \o x
<1>1. one \in Seq(OpenAIs) /\ Len(one) = 1 /\ one[1] = o OBVIOUS
<1>2. u = w \o y OBVIOUS
<1> HIDE DEF one, w
<1>3. /\ v \in Seq(OpenAIs) /\ Len(v) = Len(s) + Len(one)
      /\ \A i \in 1 .. Len(s) + Len(one) : v[i] = IF i <= Len(s) THEN s[i] ELSE one[i - Len(s)]
  BY <1>1, ConcatProperties
<1> HIDE DEF v
<1>4. /\ w \in Seq(OpenAIs) /\ Len(w) = Len(v) + Len(x)
      /\ \A i \in 1 .. Len(v) + Len(x) : w[i] = IF i <= Len(v) THEN v[i] ELSE x[i - Len(v)]
  <2>1. v \in Seq(OpenAIs) BY <1>3
  <2> QED BY <2>1, ConcatProperties DEF w
<1>5. /\ u \in Seq(OpenAIs) /\ Len(u) = Len(w) + Len(y)
      /\ \A i \in 1 .. Len(w) + Len(y) : u[i] = IF i <= Len(w) THEN w[i] ELSE y[i - Len(w)]
  <2>1. /\ w \o y \in Seq(OpenAIs) /\ Len(w \o y) = Len(w) + Len(y)
        /\ \A i \in 1 .. Len(w) + Len(y) : (w \o y)[i] = IF i <= Len(w) THEN w[i] ELSE y[i - Len(w)]
    <3>1. w \in Seq(OpenAIs) BY <1>4
    <3> QED BY <3>1, ConcatProperties
  <2> QED BY <1>2, <2>1
<1>6. Len(s) \in Nat /\ Len(x) \in Nat /\ Len(y) \in Nat OBVIOUS
<1>7. Len(v) = Len(s) + 1 /\ Len(w) = Len(s) + 1 + Len(x) BY <1>1, <1>3, <1>4, <1>6
<1>8. ASSUME NEW i \in 1 .. Len(s) PROVE u[i] = s[i]
  <2>1. i <= Len(w) /\ i <= Len(v) /\ i \in 1 .. Len(w) + Len(y) BY <1>6, <1>7
  <2> QED BY <1>1, <1>3, <1>4, <1>5, <1>6, <1>7, <2>1
<1>9. u[Len(s) + 1] = o
  <2> DEFINE i == Len(s) + 1
  <2>1. i <= Len(w) /\ i <= Len(v) /\ i \in 1 .. Len(w) + Len(y) /\ i > Len(s) /\ i - Len(s) = 1 BY <1>6, <1>7
  <2> HIDE DEF i
  <2>2. u[i] = w[i] BY <1>5, <2>1
  <2>3. w[i] = v[i] BY <1>4, <1>6, <1>7, <2>1
  <2>4. v[i] = one[1] BY <1>1, <1>3, <1>6, <1>7, <2>1
  <2> QED BY <1>1, <2>2, <2>3, <2>4 DEF i
<1>10. ASSUME NEW k \in 1 .. Len(x) PROVE u[Len(s) + 1 + k] = x[k]
  <2> DEFINE i == Len(s) + 1 + k
  <2>1. i <= Len(w) /\ i > Len(v) /\ i \in 1 .. Len(w) + Len(y) /\ i - Len(v) = k BY <1>6, <1>7
  <2> HIDE DEF i
  <2>2. u[i] = w[i] BY <1>5, <2>1
  <2>3. w[i] = x[k] BY <1>4, <1>6, <1>7, <2>1
  <2> QED BY <2>2, <2>3 DEF i
<1>11. ASSUME NEW k \in 1 .. Len(y) PROVE u[Len(s) + 1 + Len(x) + k] = y[k]
  <2> DEFINE i == Len(s) + 1 + Len(x) + k
  <2>1. i > Len(w) /\ i \in 1 .. Len(w) + Len(y) /\ i - Len(w) = k BY <1>6, <1>7
  <2> HIDE DEF i
  <2>2. u[i] = y[k] BY <1>5, <2>1
  <2> QED BY <2>2 DEF i
<1> QED BY <1>1, <1>3, <1>4, <1>5, <1>6, <1>7, <1>8, <1>9, <1>10, <1>11

LEMMA RoundKeeps ==
  ASSUME NEW was \in Seq(OpenAIs), NEW more, NEW m, Round(more, was, m), Follow(was)
  PROVE  /\ more \in Seq(OpenAIs) /\ Follow(more) /\ Extends(was, more)
         /\ \E i \in 1 .. Len(more) : Brings(more[i], m)
         /\ \A i \in 1 .. Len(was) : i \in 1 .. Len(more) /\ more[i] = was[i]
<1>1. PICK o \in OpenAIs, x \in Seq(OpenAIs), y \in Seq(OpenAIs) :
        /\ more = was \o <<o>> \o x \o y
        /\ Brings(o, m) /\ Answering(x, o.calls) /\ Plain(x, "tool") /\ Plain(y, "user")
  BY DEF Round
<1> DEFINE n == Len(was)
           k == Len(x)
           l == Len(y)
<1>2. /\ more \in Seq(OpenAIs) /\ Len(more) = n + 1 + k + l
      /\ \A i \in 1 .. n : more[i] = was[i]
      /\ more[n + 1] = o
      /\ \A i \in 1 .. k : more[n + 1 + i] = x[i]
      /\ \A i \in 1 .. l : more[n + 1 + k + i] = y[i]
  BY <1>1, RoundParts
<1>3. n \in Nat /\ k \in Nat /\ l \in Nat /\ DOMAIN was = 1 .. n /\ DOMAIN more = 1 .. Len(more) BY <1>2
<1>4. o.role = "assistant" /\ o.calls \in Seq(Calls) /\ DOMAIN o.calls = 1 .. Len(o.calls)
  <2>1. o.calls \in Seq(Calls) BY DEF OpenAIs
  <2> QED BY <1>1, <2>1 DEF Brings
<1> HIDE DEF n, k, l
\* where each message of it stands
<1>5. ASSUME NEW i \in 1 .. Len(more)
      PROVE  \/ i \in 1 .. n
             \/ i = n + 1
             \/ \E p \in 1 .. k : i = n + 1 + p
             \/ \E p \in 1 .. l : i = n + 1 + k + p
  <2>1. CASE i <= n BY <1>3, <2>1
  <2>2. CASE i = n + 1 BY <2>2
  <2>3. CASE i > n + 1 /\ i <= n + 1 + k
    <3>1. i - (n + 1) \in 1 .. k /\ i = n + 1 + (i - (n + 1)) BY <1>3, <2>3
    <3> QED BY <3>1
  <2>4. CASE i > n + 1 + k
    <3>1. i - (n + 1 + k) \in 1 .. l /\ i = n + 1 + k + (i - (n + 1 + k))
      <4>1. Len(more) = n + 1 + k + l BY <1>2
      <4> HIDE DEF n, k, l
      <4> QED BY <1>3, <2>4, <4>1
    <3> QED BY <3>1
  <2> QED BY <1>3, <2>1, <2>2, <2>3, <2>4
<1>6. /\ \A p \in 1 .. k : more[n + 1 + p].role = "tool" /\ more[n + 1 + p].calls = <<>>
                           /\ more[n + 1 + p].id = x[p].id
      /\ \A p \in 1 .. l : more[n + 1 + k + p].role = "user" /\ more[n + 1 + k + p].calls = <<>>
  BY <1>1, <1>2, ZenonT(60) DEF Plain, k, l
<1>7. /\ \A p \in 1 .. k : \E c \in 1 .. Len(o.calls) : x[p].id = o.calls[c].id
      /\ \A c \in 1 .. Len(o.calls) : \E p \in 1 .. k : x[p].id = o.calls[c].id
  BY <1>1 DEF Answering, k
<1>8. ASSUME NEW i \in 1 .. Len(more), more[i].role = "tool"
      PROVE  \E a \in 1 .. i - 1 :
                /\ \E c \in ToSet(more[a].calls) : c.id = more[i].id
                /\ \A j \in a + 1 .. i : more[j].role = "tool"
  <2>1. CASE i \in 1 .. n
    <3>1. more[i] = was[i] BY <1>2, <2>1
    <3>2. PICK a \in 1 .. i - 1 :
            /\ \E c \in ToSet(was[a].calls) : c.id = was[i].id
            /\ \A j \in a + 1 .. i : was[j].role = "tool"
      BY <1>3, <1>8, <2>1, <3>1 DEF Follow
    <3>3. more[a] = was[a] /\ \A j \in a + 1 .. i : more[j] = was[j]
      <4>1. a \in 1 .. n /\ \A j \in a + 1 .. i : j \in 1 .. n BY <1>3, <2>1
      <4> QED BY <1>2, <4>1
    <3> QED BY <3>1, <3>2, <3>3
  <2>2. CASE i = n + 1 BY <1>2, <1>4, <1>8, <2>2
  <2>3. CASE \E p \in 1 .. k : i = n + 1 + p
    <3>1. PICK p \in 1 .. k : i = n + 1 + p BY <2>3
    <3>2. PICK c \in 1 .. Len(o.calls) : x[p].id = o.calls[c].id BY <1>7
    <3>3. o.calls[c] \in ToSet(o.calls) BY <1>4 DEF ToSet
    <3>4. n + 1 \in 1 .. i - 1 BY <1>3, <3>1
    <3>5. ASSUME NEW j \in (n + 1) + 1 .. i PROVE more[j].role = "tool"
      <4>1. j - (n + 1) \in 1 .. k /\ j = n + 1 + (j - (n + 1)) BY <1>3, <3>1
      <4> QED BY <1>6, <4>1
    <3>6. \E e \in ToSet(more[n + 1].calls) : e.id = more[i].id BY <1>2, <1>6, <3>1, <3>2, <3>3
    <3> QED BY <3>4, <3>5, <3>6
  <2>4. CASE \E p \in 1 .. l : i = n + 1 + k + p BY <1>6, <1>8, <2>4
  <2> QED BY <1>5, <2>1, <2>2, <2>3, <2>4
<1>9. ASSUME NEW a \in 1 .. Len(more), NEW c \in ToSet(more[a].calls)
      PROVE  \E i \in a + 1 .. Len(more) : more[i].role = "tool" /\ more[i].id = c.id
  <2>1. more[a].calls # <<>> BY DEF ToSet
  <2>2. CASE a \in 1 .. n
    <3>1. more[a] = was[a] BY <1>2, <2>2
    <3>2. PICK i \in a + 1 .. n : was[i].role = "tool" /\ was[i].id = c.id
      BY <1>3, <1>9, <2>2, <3>1 DEF Follow, n
    <3>3. i \in 1 .. n /\ i \in a + 1 .. Len(more) BY <1>2, <1>3, <2>2
    <3>4. more[i] = was[i] BY <1>2, <3>3
    <3> QED BY <3>2, <3>3, <3>4
  <2>3. CASE a = n + 1
    <3>1. more[a] = o BY <1>2, <2>3
    <3>2. PICK e \in 1 .. Len(o.calls) : c = o.calls[e] BY <1>4, <1>9, <3>1 DEF ToSet
    <3>3. PICK p \in 1 .. k : x[p].id = o.calls[e].id BY <1>7
    <3>4. n + 1 + p \in a + 1 .. Len(more) BY <1>2, <1>3, <2>3
    <3> QED BY <1>6, <3>2, <3>3, <3>4
  <2>4. CASE \E p \in 1 .. k : a = n + 1 + p BY <1>6, <2>1, <2>4
  <2>5. CASE \E p \in 1 .. l : a = n + 1 + k + p BY <1>6, <2>1, <2>5
  <2> QED BY <1>5, <2>2, <2>3, <2>4, <2>5
<1>10. Follow(more) BY <1>3, <1>8, <1>9 DEF Follow
<1>11. IsPrefix(was, more)
  <2>1. n <= Len(more) BY <1>2, <1>3
  <2>2. SubSeq(was, 1, n) = [i \in 1 .. n |-> was[i]] BY DEF n
  <2>3. SubSeq(more, 1, n) = [i \in 1 .. n |-> more[i]] BY <1>2, <1>3, <2>1
  <2>4. SubSeq(was, 1, n) = SubSeq(more, 1, n) BY <1>2, <2>2, <2>3
  <2> QED BY <2>1, <2>4 DEF IsPrefix, n
<1>12. \A i \in 1 .. Len(more) : more[i].role = "system" => i <= n
  <2> SUFFICES ASSUME NEW i \in 1 .. Len(more), more[i].role = "system" PROVE i \in 1 .. n BY <1>3
  <2>1. "system" # "tool" /\ "system" # "user" /\ "system" # "assistant" OBVIOUS
  <2> QED BY <1>2, <1>4, <1>5, <1>6, <2>1
<1>13. Extends(was, more) BY <1>2, <1>11, <1>12 DEF Extends, n
<1>14. n + 1 \in 1 .. Len(more) /\ Brings(more[n + 1], m) BY <1>1, <1>2, <1>3
<1>15. \A i \in 1 .. n : i \in 1 .. Len(more) /\ more[i] = was[i] BY <1>2, <1>3
<1> QED BY <1>2, <1>10, <1>13, <1>14, <1>15 DEF n

-----------------------------------------------------------------------------
(* Ascending.                                                                *)

InOrder(s) == \A i, j \in DOMAIN s : i < j => s[i] < s[j]

\* A list of the members of a set, each once, has all of them.
LEMMA ListsAll ==
  ASSUME NEW S, IsFiniteSet(S), NEW s \in SetToSeqs(S)
  PROVE  /\ Cardinality(S) \in Nat /\ s \in [1 .. Cardinality(S) -> S]
         /\ \A e \in S : \E i \in 1 .. Cardinality(S) : s[i] = e
         /\ ToSet(s) = S
<1> DEFINE n == Cardinality(S)
<1>1. n \in Nat BY FS_CardinalityType
<1>2. s \in [1 .. n -> S] /\ \A i, j \in 1 .. n : i # j => s[i] # s[j] BY DEF SetToSeqs
<1>3. ASSUME NEW e \in S, \A i \in 1 .. n : s[i] # e PROVE FALSE
  <2> DEFINE R == S \ {e}
  <2>1. IsFiniteSet(R) /\ Cardinality(R) = n - 1 BY FS_RemoveElement
  <2>2. s \in [1 .. n -> R] BY <1>2, <1>3
  <2>3. IsFiniteSet(1 .. n) /\ Cardinality(1 .. n) = n
    <3>1. 1 \in Int /\ n \in Int BY <1>1
    <3>2. IsFiniteSet(1 .. n) /\ Cardinality(1 .. n) = IF 1 > n THEN 0 ELSE n - 1 + 1 BY <3>1, FS_Interval
    <3> QED BY <1>1, <3>2
  <2> HIDE DEF n, R
  <2>4. Cardinality(R) < Cardinality(1 .. n) BY <1>1, <2>1, <2>3
  <2>5. \E i, j \in 1 .. n : i # j /\ s[i] = s[j] BY <2>1, <2>2, <2>3, <2>4, FS_PigeonHole
  <2> QED BY <1>2, <2>5
<1>4. ToSet(s) = S BY <1>2, <1>3 DEF ToSet
<1> QED BY <1>1, <1>2, <1>3, <1>4

LEMMA InOrderExists ==
  ASSUME NEW D \in SUBSET Nat, IsFiniteSet(D)
  PROVE  \E s \in SetToSeqs(D) : InOrder(s)
<1> DEFINE Bad(E) == E \in SUBSET Nat /\ IsFiniteSet(E) /\ ~ \E s \in SetToSeqs(E) : InOrder(s)
           U == {n \in Nat : \E E \in SUBSET Nat : Bad(E) /\ Cardinality(E) = n}
<1> SUFFICES ASSUME Bad(D) PROVE FALSE OBVIOUS
<1>1. Cardinality(D) \in U BY FS_CardinalityType
<1>2. PICK n \in U : \A w \in U : n <= w
  <2>1. U \in SUBSET Nat /\ U # {} BY <1>1
  <2> QED BY <2>1, Smallest
<1>3. PICK E \in SUBSET Nat : Bad(E) /\ Cardinality(E) = n OBVIOUS
<1>4. n \in Nat OBVIOUS
<1>5. CASE E = {}
  <2> DEFINE z == [i \in 1 .. Cardinality(E) |-> 0]
  <2>1. Cardinality(E) = 0 BY <1>5, FS_EmptySet
  <2>2. z \in SetToSeqs(E) BY <2>1 DEF SetToSeqs
  <2>3. InOrder(z) BY <2>1 DEF InOrder
  <2> QED BY <1>3, <2>2, <2>3
<1>6. CASE E # {}
  <2>1. PICK d \in E : \A w \in E : d <= w BY <1>6, Smallest
  <2> DEFINE R == E \ {d}
  <2>2. IsFiniteSet(R) /\ Cardinality(R) = n - 1 /\ R \in SUBSET Nat /\ Cardinality(R) \in Nat
    BY <1>3, FS_RemoveElement, FS_CardinalityType
  <2>3. ~ Bad(R)
    <3>1. n - 1 \notin U BY <1>2, <1>4
    <3> HIDE DEF Bad, R
    <3> QED BY <2>2, <3>1
  <2>4. PICK s \in SetToSeqs(R) : InOrder(s) BY <2>2, <2>3
  <2>5. n >= 1 BY <2>2
  <2>6. /\ s \in [1 .. n - 1 -> R] /\ DOMAIN s = 1 .. n - 1
        /\ \A i, j \in 1 .. n - 1 : i < j => s[i] < s[j]
    <3>1. s \in [1 .. n - 1 -> R] BY <2>2 DEF SetToSeqs
    <3>2. DOMAIN s = 1 .. n - 1 BY <3>1
    <3> QED BY <2>4, <3>1, <3>2 DEF InOrder
  <2> DEFINE z == [i \in 1 .. n |-> IF i = 1 THEN d ELSE s[i - 1]]
  <2>7. z[1] = d /\ \A i \in 2 .. n : z[i] = s[i - 1] /\ s[i - 1] \in R BY <1>4, <2>5, <2>6
  <2>8. z \in [1 .. n -> E] BY <1>4, <2>6
  <2> HIDE DEF z
  <2>9. ASSUME NEW i \in 1 .. n, NEW j \in 1 .. n, i < j PROVE z[i] < z[j]
    <3>1. j \in 2 .. n /\ j - 1 \in 1 .. n - 1 BY <1>4, <2>9
    <3>2. z[j] = s[j - 1] /\ s[j - 1] \in R BY <2>7, <3>1
    <3>3. CASE i = 1
      <4>1. z[j] \in E /\ z[j] # d /\ z[j] \in Nat /\ d \in Nat BY <3>2
      <4> QED BY <2>1, <2>7, <3>3, <4>1
    <3>4. CASE i # 1
      <4>1. i \in 2 .. n /\ i - 1 \in 1 .. n - 1 /\ i - 1 < j - 1 BY <1>4, <2>9, <3>4
      <4>2. z[i] = s[i - 1] BY <2>7, <4>1
      <4> QED BY <2>6, <3>1, <3>2, <4>1, <4>2
    <3> QED BY <3>3, <3>4
  <2>10. DOMAIN z = 1 .. n BY <2>8
  <2>11. InOrder(z) BY <2>9, <2>10 DEF InOrder
  <2>12. ASSUME NEW i \in 1 .. n, NEW j \in 1 .. n, i # j PROVE z[i] # z[j]
    <3>1. z[i] \in Nat /\ z[j] \in Nat BY <2>8
    <3>2. i < j \/ j < i
      <4> HIDE DEF U
      <4> QED BY <1>4, <2>12
    <3> QED BY <2>9, <3>1, <3>2
  <2>13. z \in SetToSeqs(E) BY <1>3, <2>8, <2>12 DEF SetToSeqs
  <2> QED BY <1>3, <2>11, <2>13
<1> QED BY <1>5, <1>6

LEMMA AscendingIs ==
  ASSUME NEW D \in SUBSET Nat, IsFiniteSet(D)
  PROVE  Ascending(D) \in SetToSeqs(D) /\ InOrder(Ascending(D))
<1>1. \E s \in SetToSeqs(D) : InOrder(s) BY InOrderExists
<1> QED BY <1>1 DEF Ascending, InOrder

\* The numbers up to n in order.
LEMMA AscendingUpTo ==
  ASSUME NEW n \in Nat
  PROVE  DOMAIN Ascending(1 .. n) = 1 .. n /\ \A i \in 1 .. n : Ascending(1 .. n)[i] = i
<1> DEFINE D == 1 .. n
           s == Ascending(D)
<1>1. IsFiniteSet(D) /\ Cardinality(D) = n
  <2>1. 1 \in Int /\ n \in Int OBVIOUS
  <2>2. IsFiniteSet(1 .. n) /\ Cardinality(1 .. n) = IF 1 > n THEN 0 ELSE n - 1 + 1 BY <2>1, FS_Interval
  <2> QED BY <2>2
<1>2. D \in SUBSET Nat OBVIOUS
<1>3. s \in SetToSeqs(D) /\ InOrder(s) BY <1>1, <1>2, AscendingIs
<1> HIDE DEF s
<1>4. s \in [1 .. n -> D] /\ \A e \in D : \E i \in 1 .. n : s[i] = e BY <1>1, <1>3, ListsAll, SMTT(30)
<1>5. Ascends(s, n)
  <2>1. s \in [1 .. n -> Nat \ {0}] BY <1>4
  <2> QED BY <1>3, <2>1 DEF Ascends, InOrder
<1>6. HasAll(s, n, n) BY <1>4 DEF HasAll
<1>7. \A i \in 1 .. n : s[i] = i BY <1>5, <1>6, FirstOnes
<1> QED BY <1>4, <1>7 DEF s

LEMMA SameTools ==
  ASSUME NEW tools \in SetToSeqs(Tools) PROVE SortedTools(tools) = Ascending(Tools)
<1>1. IsFiniteSet(Tools) BY TurnsAssumption
<1>2. ToSet(tools) = Tools BY <1>1, ListsAll
<1> QED BY <1>2 DEF SortedTools

-----------------------------------------------------------------------------
(* A streamed answer.                                                        *)

LEMMA AssembledType ==
  ASSUME NEW r \in Strings, NEW x \in Strings, NEW n \in Nat, NEW slots,
         DOMAIN slots \subseteq 1 .. n, \A i \in DOMAIN slots : slots[i] \in Calls
  PROVE  Assembled(Answer(r, x, slots)) \in ProviderMessages
<1> DEFINE D == DOMAIN slots
           order == Ascending(D)
           calls == [k \in DOMAIN order |-> slots[order[k]]]
<1>1. D \in SUBSET Nat /\ IsFiniteSet(D)
  <2>1. 1 \in Int /\ n \in Int OBVIOUS
  <2>2. IsFiniteSet(1 .. n) BY <2>1, FS_Interval
  <2> QED BY <2>2, FS_Subset
<1>2. order \in SetToSeqs(D) BY <1>1, AscendingIs
<1> HIDE DEF order, D
<1>3. order \in [1 .. Cardinality(D) -> D] /\ Cardinality(D) \in Nat BY <1>1, <1>2, ListsAll
<1>4. calls \in Seq(Calls)
  <2>1. calls = [k \in 1 .. Cardinality(D) |-> slots[order[k]]] BY <1>3
  <2>2. \A k \in 1 .. Cardinality(D) : slots[order[k]] \in Calls BY <1>3 DEF D
  <2> QED BY <1>3, <2>1, <2>2
<1>5. Assembled(Answer(r, x, slots)) = Answer(r, x, calls) BY DEF Assembled, Answer, order, D
<1> HIDE DEF calls
<1> QED BY <1>4, <1>5 DEF Answer, ProviderMessages

LEMMA AssembledWhole ==
  ASSUME NEW m \in ProviderMessages, NEW slots, DOMAIN slots = 1 .. Len(m.calls),
         \A i \in 1 .. Len(m.calls) : slots[i] = m.calls[i]
  PROVE  Assembled(Answer(m.reasoning, m.text, slots)) = m
<1> DEFINE n == Len(m.calls)
           order == Ascending(1 .. n)
           calls == [k \in DOMAIN order |-> slots[order[k]]]
<1>1. m.calls \in Seq(Calls) /\ n \in Nat BY DEF ProviderMessages
<1>2. DOMAIN order = 1 .. n /\ \A i \in 1 .. n : order[i] = i BY <1>1, AscendingUpTo
<1>3. Assembled(Answer(m.reasoning, m.text, slots)) = Answer(m.reasoning, m.text, calls)
  BY DEF Assembled, Answer
<1> HIDE DEF order
<1>4. calls = m.calls
  <2>1. calls = [k \in 1 .. n |-> m.calls[k]] BY <1>2
  <2> QED BY <1>1, <2>1
<1> HIDE DEF calls
<1>5. m = Answer(m.reasoning, m.text, m.calls) BY DEF ProviderMessages, Answer
<1> QED BY <1>3, <1>4, <1>5

LEMMA AnswerIs ==
  ASSUME NEW r, NEW x, NEW s, NEW v
  PROVE  /\ Answer(r, x, s).reasoning = r /\ Answer(r, x, s).text = x /\ Answer(r, x, s).calls = s
         /\ [Answer(r, x, s) EXCEPT !.reasoning = v] = Answer(v, x, s)
         /\ [Answer(r, x, s) EXCEPT !.text = v] = Answer(r, v, s)
         /\ [Answer(r, x, s) EXCEPT !.calls = v] = Answer(r, x, v)
BY DEF Answer

LEMMA TakeOne ==
  ASSUME NEW S, NEW s \in Seq(S), NEW k \in 0 .. Len(s), k < Len(s)
  PROVE  /\ SubSeq(s, 1, k + 1) = Append(SubSeq(s, 1, k), s[k + 1])
         /\ SubSeq(s, 1, k + 1) = SubSeq(s, 1, k) \o <<s[k + 1]>>
<1>1. 1 \in 1 .. Len(s) /\ k + 1 \in 1 .. Len(s) /\ (k + 1) - 1 = k /\ s[k + 1] \in S OBVIOUS
<1>2. SubSeq(s, 1, k + 1) = SubSeq(s, 1, (k + 1) - 1) \o <<s[k + 1]>> BY <1>1, SubSeqRecursiveSecond
<1>3. SubSeq(s, 1, k + 1) = Append(SubSeq(s, 1, (k + 1) - 1), s[k + 1])
  <2>1. <<>> \in Seq(S) OBVIOUS
  <2> QED BY <1>1, <2>1, PrefixNext
<1> QED BY <1>1, <1>2, <1>3

\* What has been put together of m when the provider has given g of it.
Slots(m, c) == [i \in {j \in 1 .. Len(m.calls) : c[j] > 0} |->
                  [id |-> m.calls[i].id, args |-> SubSeq(m.calls[i].args, 1, c[i])]]

Counts(m) == [reasoning : 0 .. Len(m.reasoning), text : 0 .. Len(m.text),
              calls : [1 .. Len(m.calls) -> 0 .. 2]]

SoFar(m, g, p) ==
    /\ m \in ProviderMessages /\ g \in Counts(m)
    /\ \A i \in 1 .. Len(m.calls) : Len(m.calls[i].args) = 2
    /\ p = Answer(SubSeq(m.reasoning, 1, g.reasoning), SubSeq(m.text, 1, g.text), Slots(m, g.calls))

LEMMA MessageParts ==
  ASSUME NEW m \in ProviderMessages
  PROVE  m.reasoning \in Seq(Pieces) /\ m.text \in Seq(Pieces) /\ m.calls \in Seq(Calls)
BY DEF ProviderMessages, Strings

LEMMA CallParts ==
  ASSUME NEW m \in ProviderMessages, NEW i \in 1 .. Len(m.calls)
  PROVE  m.calls[i].id \in Ids /\ m.calls[i].args \in Seq(Pieces)
<1>1. m.calls[i] \in Calls BY MessageParts
<1> QED BY <1>1 DEF Calls, Strings

\* What a stream that broke off has brought is an answer all the same.
LEMMA SoFarType ==
  ASSUME NEW m, NEW g, NEW p, SoFar(m, g, p) PROVE Assembled(p) \in ProviderMessages
<1> DEFINE r == SubSeq(m.reasoning, 1, g.reasoning)
           x == SubSeq(m.text, 1, g.text)
           s == Slots(m, g.calls)
<1>1. m \in ProviderMessages /\ g \in Counts(m) /\ p = Answer(r, x, s) BY DEF SoFar
<1>2. m.reasoning \in Seq(Pieces) /\ m.text \in Seq(Pieces) /\ m.calls \in Seq(Calls) BY <1>1, MessageParts
<1>3. g.reasoning \in 0 .. Len(m.reasoning) /\ g.text \in 0 .. Len(m.text)
      /\ g.calls \in [1 .. Len(m.calls) -> 0 .. 2]
  BY <1>1 DEF Counts
<1>4. r \in Strings /\ x \in Strings BY <1>2, <1>3 DEF Strings
<1>5. DOMAIN s \subseteq 1 .. Len(m.calls) /\ Len(m.calls) \in Nat BY <1>2 DEF Slots
<1>6. ASSUME NEW i \in DOMAIN s PROVE s[i] \in Calls
  <2>1. i \in 1 .. Len(m.calls) /\ g.calls[i] > 0 BY <1>6 DEF Slots
  <2>2. m.calls[i].id \in Ids /\ m.calls[i].args \in Seq(Pieces) BY <1>1, <2>1, CallParts
  <2>3. g.calls[i] \in 0 .. 2 BY <1>3, <2>1
  <2>4. Len(m.calls[i].args) = 2 BY <2>1 DEF SoFar
  <2>5. SubSeq(m.calls[i].args, 1, g.calls[i]) \in Strings BY <2>2, <2>3, <2>4 DEF Strings
  <2>6. s[i] = [id |-> m.calls[i].id, args |-> SubSeq(m.calls[i].args, 1, g.calls[i])] BY <1>6 DEF Slots
  <2> QED BY <2>2, <2>5, <2>6 DEF Calls
<1> HIDE DEF r, x, s
<1> QED BY <1>1, <1>4, <1>5, <1>6, AssembledType

\* At its end the whole answer is there.
LEMMA SoFarWhole ==
  ASSUME NEW m, NEW g, NEW p, SoFar(m, g, p),
         g.text = Len(m.text), g.reasoning = Len(m.reasoning),
         \A i \in DOMAIN m.calls : g.calls[i] = Len(m.calls[i].args)
  PROVE  Assembled(p) = m
<1> DEFINE s == Slots(m, g.calls)
<1>1. m \in ProviderMessages BY DEF SoFar
<1>2. m.reasoning \in Seq(Pieces) /\ m.text \in Seq(Pieces) /\ m.calls \in Seq(Calls) BY <1>1, MessageParts
<1>3. SubSeq(m.reasoning, 1, g.reasoning) = m.reasoning /\ SubSeq(m.text, 1, g.text) = m.text
  BY <1>2, SubSeqFull
<1>4. p = Answer(m.reasoning, m.text, s) BY <1>3 DEF SoFar
<1>5. \A i \in 1 .. Len(m.calls) : g.calls[i] = 2 /\ Len(m.calls[i].args) = 2
  <2>1. DOMAIN m.calls = 1 .. Len(m.calls) BY <1>2
  <2>2. \A i \in 1 .. Len(m.calls) : Len(m.calls[i].args) = 2 BY DEF SoFar
  <2> QED BY <2>1, <2>2
<1>6. DOMAIN s = 1 .. Len(m.calls)
  <2>1. {j \in 1 .. Len(m.calls) : g.calls[j] > 0} = 1 .. Len(m.calls) BY <1>5
  <2> QED BY <2>1 DEF Slots
<1>7. ASSUME NEW i \in 1 .. Len(m.calls) PROVE s[i] = m.calls[i]
  <2>1. m.calls[i] \in Calls /\ m.calls[i].args \in Seq(Pieces) BY <1>1, <1>2, CallParts
  <2>2. SubSeq(m.calls[i].args, 1, g.calls[i]) = m.calls[i].args BY <1>5, <2>1, SubSeqFull
  <2>3. s[i] = [id |-> m.calls[i].id, args |-> m.calls[i].args] BY <1>6, <2>2 DEF Slots
  <2>4. m.calls[i] = [id |-> m.calls[i].id, args |-> m.calls[i].args] BY <2>1 DEF Calls
  <2> QED BY <2>3, <2>4
<1> HIDE DEF s
<1> QED BY <1>1, <1>4, <1>6, <1>7, AssembledWhole

LEMMA SoFarText ==
  ASSUME NEW m, NEW g, NEW p, SoFar(m, g, p), g.text < Len(m.text)
  PROVE  SoFar(m, [g EXCEPT !.text = @ + 1], [p EXCEPT !.text = Append(@, m.text[g.text + 1])])
<1>1. m \in ProviderMessages /\ g \in Counts(m) /\ \A i \in 1 .. Len(m.calls) : Len(m.calls[i].args) = 2
  BY DEF SoFar
<1>2. m.text \in Seq(Pieces) BY <1>1, MessageParts
<1>3. g.text \in 0 .. Len(m.text) BY <1>1 DEF Counts
<1> DEFINE n == g.text + 1
           h == [g EXCEPT !.text = @ + 1]
           r == SubSeq(m.reasoning, 1, g.reasoning)
           x == SubSeq(m.text, 1, g.text)
           s == Slots(m, g.calls)
           new == Append(p.text, m.text[n])
<1>4. n \in 1 .. Len(m.text) BY <1>2, <1>3
<1>5. SubSeq(m.text, 1, n) = Append(SubSeq(m.text, 1, g.text), m.text[n]) BY <1>2, <1>3, TakeOne
<1>6. h \in Counts(m) /\ h.text = n /\ h.reasoning = g.reasoning /\ h.calls = g.calls
  BY <1>1, <1>2, <1>4, SMTT(30) DEF Counts
<1>7. p = Answer(r, x, s) BY DEF SoFar
<1>8. new = SubSeq(m.text, 1, n)
  <2>1. p.text = x BY <1>7 DEF Answer
  <2> QED BY <1>5, <2>1
<1> HIDE DEF h, n, new
<1>9. [p EXCEPT !.text = new] = Answer(r, new, s)
  <2> HIDE DEF r, x, s
  <2> QED BY <1>7, AnswerIs
<1>10. SoFar(m, h, [p EXCEPT !.text = new]) BY <1>1, <1>6, <1>8, <1>9 DEF SoFar
<1> QED BY <1>10 DEF h, n, new

LEMMA SoFarReasoning ==
  ASSUME NEW m, NEW g, NEW p, SoFar(m, g, p), g.reasoning < Len(m.reasoning)
  PROVE  SoFar(m, [g EXCEPT !.reasoning = @ + 1],
               [p EXCEPT !.reasoning = Append(@, m.reasoning[g.reasoning + 1])])
<1>1. m \in ProviderMessages /\ g \in Counts(m) /\ \A i \in 1 .. Len(m.calls) : Len(m.calls[i].args) = 2
  BY DEF SoFar
<1>2. m.reasoning \in Seq(Pieces) BY <1>1, MessageParts
<1>3. g.reasoning \in 0 .. Len(m.reasoning) BY <1>1 DEF Counts
<1> DEFINE n == g.reasoning + 1
           h == [g EXCEPT !.reasoning = @ + 1]
           r == SubSeq(m.reasoning, 1, g.reasoning)
           x == SubSeq(m.text, 1, g.text)
           s == Slots(m, g.calls)
           new == Append(p.reasoning, m.reasoning[n])
<1>4. n \in 1 .. Len(m.reasoning) BY <1>2, <1>3
<1>5. SubSeq(m.reasoning, 1, n) = Append(SubSeq(m.reasoning, 1, g.reasoning), m.reasoning[n])
  BY <1>2, <1>3, TakeOne
<1>6. h \in Counts(m) /\ h.reasoning = n /\ h.text = g.text /\ h.calls = g.calls
  BY <1>1, <1>2, <1>4, SMTT(30) DEF Counts
<1>7. p = Answer(r, x, s) BY DEF SoFar
<1>8. new = SubSeq(m.reasoning, 1, n)
  <2>1. p.reasoning = r BY <1>7 DEF Answer
  <2> QED BY <1>5, <2>1
<1> HIDE DEF h, n, new
<1>9. [p EXCEPT !.reasoning = new] = Answer(new, x, s)
  <2> HIDE DEF r, x, s
  <2> QED BY <1>7, AnswerIs
<1>10. SoFar(m, h, [p EXCEPT !.reasoning = new]) BY <1>1, <1>6, <1>8, <1>9 DEF SoFar
<1> QED BY <1>10 DEF h, n, new

LEMMA SoFarCall ==
  ASSUME NEW m, NEW g, NEW p, SoFar(m, g, p), NEW i \in DOMAIN m.calls,
         g.calls[i] < Len(m.calls[i].args)
  PROVE  SoFar(m, [g EXCEPT !.calls[i] = @ + 1],
               [p EXCEPT !.calls = WithFragment(@, i, IF g.calls[i] = 0 THEN m.calls[i].id ELSE NoId,
                                                <<m.calls[i].args[g.calls[i] + 1]>>)])
<1> DEFINE c == g.calls
           n == c[i] + 1
           d == [c EXCEPT ![i] = n]
           h == [g EXCEPT !.calls[i] = @ + 1]
           args == m.calls[i].args
           id == IF c[i] = 0 THEN m.calls[i].id ELSE NoId
           old == Slots(m, c)
           new == WithFragment(old, i, id, <<args[n]>>)
<1>1. m \in ProviderMessages /\ g \in Counts(m) BY DEF SoFar
<1>2. m.calls \in Seq(Calls) /\ i \in 1 .. Len(m.calls) BY <1>1, MessageParts
<1>3. args \in Seq(Pieces) /\ Len(args) = 2 BY <1>1, <1>2, CallParts DEF SoFar
<1>4. c \in [1 .. Len(m.calls) -> 0 .. 2] BY <1>1 DEF Counts
<1>5. c[i] \in 0 .. 1 /\ n \in 1 .. 2 /\ n - 1 = c[i] BY <1>2, <1>3, <1>4
<1>6. d \in [1 .. Len(m.calls) -> 0 .. 2] /\ d[i] = n /\ \A j \in 1 .. Len(m.calls) : j # i => d[j] = c[j]
  BY <1>2, <1>4, <1>5
<1>7. h = [g EXCEPT !.calls = d] BY DEF h
<1>8. h \in Counts(m) /\ h.calls = d /\ h.text = g.text /\ h.reasoning = g.reasoning
  <2> HIDE DEF d, h
  <2> QED BY <1>1, <1>6, <1>7 DEF Counts
<1>9. SubSeq(args, 1, n) = SubSeq(args, 1, c[i]) \o <<args[n]>>
  <2>1. 1 \in 1 .. Len(args) /\ n \in 1 .. Len(args) BY <1>3, <1>5
  <2>2. SubSeq(args, 1, n) = SubSeq(args, 1, n - 1) \o <<args[n]>> BY <1>3, <2>1, SubSeqRecursiveSecond
  <2> QED BY <1>5, <2>2
<1>10. c[i] = 0 => SubSeq(args, 1, c[i]) = <<>> BY SubSeqEmpty
<1> DEFINE slot == [id |-> m.calls[i].id, args |-> SubSeq(args, 1, n)]
           was == IF i \in DOMAIN old THEN old[i] ELSE [id |-> NoId, args |-> <<>>]
<1>11. DOMAIN old = {j \in 1 .. Len(m.calls) : c[j] > 0}
       /\ \A j \in DOMAIN old : old[j] = [id |-> m.calls[j].id, args |-> SubSeq(m.calls[j].args, 1, c[j])]
  BY DEF Slots
<1>12. was.args = SubSeq(args, 1, c[i]) /\ was.id = IF c[i] = 0 THEN NoId ELSE m.calls[i].id
  <2>1. CASE c[i] = 0
    <3>1. i \notin DOMAIN old BY <1>11, <2>1
    <3> HIDE DEF old
    <3> QED BY <1>10, <2>1, <3>1
  <2>2. CASE c[i] # 0
    <3>1. i \in DOMAIN old BY <1>2, <1>5, <1>11, <2>2
    <3> HIDE DEF old
    <3>2. old[i] = [id |-> m.calls[i].id, args |-> SubSeq(args, 1, c[i])] BY <1>11, <3>1
    <3>3. was = old[i] BY <3>1
    <3> HIDE DEF was, c
    <3>4. was.args = SubSeq(args, 1, c[i]) /\ was.id = m.calls[i].id
      <4>1. was = [id |-> m.calls[i].id, args |-> SubSeq(args, 1, c[i])] BY <3>2, <3>3
      <4> HIDE DEF args
      <4> QED BY <4>1
    <3> QED BY <2>2, <3>4
  <2> QED BY <2>1, <2>2
<1>13. new = [j \in DOMAIN old \cup {i} |->
                IF j # i THEN old[j]
                ELSE [id |-> IF id # NoId THEN id ELSE was.id, args |-> was.args \o <<args[n]>>]]
  BY DEF WithFragment
<1>14. (IF id # NoId THEN id ELSE was.id) = m.calls[i].id BY <1>12
<1>15. was.args \o <<args[n]>> = SubSeq(args, 1, n) BY <1>9, <1>12
<1> HIDE DEF old, id, was, new, d, n, args, c
<1>16. new = [j \in DOMAIN old \cup {i} |-> IF j # i THEN old[j] ELSE slot] BY <1>13, <1>14, <1>15
<1>17. DOMAIN old \cup {i} = {j \in 1 .. Len(m.calls) : d[j] > 0} BY <1>2, <1>5, <1>6, <1>11
<1>18. ASSUME NEW j \in DOMAIN old \cup {i}
       PROVE  (IF j # i THEN old[j] ELSE slot) =
         [id |-> m.calls[j].id, args |-> SubSeq(m.calls[j].args, 1, d[j])]
  <2>1. CASE j = i BY <1>6, <2>1 DEF args
  <2>2. CASE j # i BY <1>6, <1>11, <2>2
  <2> QED BY <2>1, <2>2
<1>19. new = Slots(m, d) BY <1>16, <1>17, <1>18 DEF Slots
<1>20. p = Answer(SubSeq(m.reasoning, 1, g.reasoning), SubSeq(m.text, 1, g.text), old)
       /\ \A k \in 1 .. Len(m.calls) : Len(m.calls[k].args) = 2
  BY DEF SoFar, old, c
<1>21. [p EXCEPT !.calls = new] =
         Answer(SubSeq(m.reasoning, 1, g.reasoning), SubSeq(m.text, 1, g.text), new) /\ p.calls = old
  <2> DEFINE r == SubSeq(m.reasoning, 1, g.reasoning)
             x == SubSeq(m.text, 1, g.text)
  <2> HIDE DEF r, x
  <2>1. p = Answer(r, x, old) BY <1>20 DEF r, x
  <2>2. p.calls = old /\ [p EXCEPT !.calls = new] = Answer(r, x, new) BY <2>1, AnswerIs
  <2> QED BY <2>2 DEF r, x
<1> HIDE DEF h
<1>22. SoFar(m, h, [p EXCEPT !.calls = new])
  BY <1>1, <1>8, <1>19, <1>20, <1>21 DEF SoFar
<1>23. [p EXCEPT !.calls = WithFragment(@, i, id, <<args[n]>>)] = [p EXCEPT !.calls = new]
  BY <1>21 DEF new
<1> QED BY <1>22, <1>23 DEF h, id, args, n, c

-----------------------------------------------------------------------------
(* The conversation.                                                         *)

Request == ToOpenAI(history, carry)

TalkTypes ==
    /\ style \in Styles /\ turn \in Nat
    /\ phase \in {"ask", "upstream", "stream", "answered", "over"}
    /\ message \in ProviderMessages /\ said \in Seq(ProviderMessages)

Replied == phase = "answered" => \E finish \in DOMAIN Finish : reply = Reply(message, turn, finish)

Kept ==
    /\ Open(history) /\ Follow(Request)
    /\ \A k \in 1 .. Len(said) : \E i \in 1 .. Len(Request) : Brings(Request[i], said[k])

SentSoFar ==
    /\ phase # "ask" => sent = Request
    /\ Follow(sent)
    /\ sent # <<>> => Extends(sent, Request) /\ sentTools = Ascending(Tools)

TalkInv ==
    /\ TalkTypes /\ Replied /\ Kept /\ SentSoFar /\ NoCallLeft
    /\ phase = "stream" => SoFar(message, given, parts)

LEMMA RequestType == ASSUME NEW h, Open(h) PROVE ToOpenAI(h, carry) \in Seq(OpenAIs)
<1>1. <<>> \in Seq(Blocks) OBVIOUS
<1>2. Grouped(h) \in Seq(Groups) BY GroupedType DEF Open
<1>3. Translated(Grouped(h), carry) \in Seq(OpenAIs) BY <1>1, <1>2, Converts
<1> QED BY <1>3 DEF ToOpenAI

LEMMA ExtendsItself == ASSUME NEW s \in Seq(OpenAIs) PROVE Extends(s, s)
<1>1. IsPrefix(s, s) BY DEF IsPrefix
<1> QED BY <1>1 DEF Extends

LEMMA NoPartsType == NoParts \in ProviderMessages
<1>1. <<>> \in Seq(Calls) OBVIOUS
<1> QED BY <1>1, NoneIs DEF NoParts, Answer, ProviderMessages

LEMMA GroupedNone == Grouped(<<>>) = <<>>
<1>1. <<>> \in Seq(Groups) /\ Len(<<>>) = 0 OBVIOUS
<1>2. PICK g : /\ Iterates(g, Seq(Groups), <<>>, GroupedStep(<<>>), Len(<<>>))
               /\ Grouped(<<>>) = g[Len(<<>>)]
  BY <1>1, GroupedLoop
<1> QED BY <1>1, <1>2 DEF Iterates

LEMMA TranslatedNone == Translated(<<>>, carry) = <<SystemPrompt>>
<1> DEFINE base == <<SystemPrompt>>
<1>1. <<>> \in Seq(Groups) /\ Len(<<>>) = 0 OBVIOUS
<1>2. PICK g : /\ Iterates(g, Seq(OpenAIs), base, TranslatedStep(<<>>, carry), Len(<<>>))
               /\ Translated(<<>>, carry) = g[Len(<<>>)]
  BY <1>1, TranslatedLoop
<1> HIDE DEF base
<1>3. g[0] = base BY <1>2 DEF Iterates
<1> QED BY <1>1, <1>2, <1>3 DEF base

LEMMA FirstRequest ==
  ASSUME TalkInit PROVE Open(history) /\ Follow(Request)
<1> DEFINE b == <<Text(<<"task">>)>>
           run == <<Group("user", b)>>
<1>1. b \in Seq(Blocks) /\ b # <<>> /\ \A i \in 1 .. Len(b) : b[i].type # "tool_result"
  <2>1. <<"task">> \in Strings BY DEF Strings, Pieces, Marks
  <2>2. Text(<<"task">>) \in Blocks /\ Text(<<"task">>).type = "text"
    BY <2>1, NoneIs, BlockType DEF Text, Block
  <2> HIDE DEF Text
  <2> QED BY <2>2
<1>2. history = run BY DEF TalkInit, Group
<1> HIDE DEF b
<1>3. <<>> \in Seq(Groups) /\ <<>> \in Seq(Blocks) /\ run \in Seq(Groups)
  <2>1. Group("user", b) \in Groups BY <1>1, GroupType
  <2> QED BY <2>1
<1>4. <<>> \o run = run /\ <<>> \o b = b
  <2>1. <<>> \o run = run BY <1>3, ConcatEmptySeq
  <2>2. <<>> \o b = b BY <1>1, <1>3, ConcatEmptySeq
  <2> QED BY <2>1, <2>2
<1>5. /\ <<>> \o run \in Seq(Groups) /\ Grouped(<<>> \o run) = Append(Grouped(<<>>), Group("user", b))
      /\ Grouped(<<>> \o run) # <<>> /\ Last(Grouped(<<>> \o run)).role = "user"
  <2>1. \/ run = <<Group("user", b)>>
        \/ run = [i \in 1 .. Len(b) |-> Group("user", <<b[i]>>)]
    OBVIOUS
  <2> DEFINE none == <<>>
  <2>2. none \in Seq(Groups) /\ Grouped(none) = none /\ (none # <<>> => Last(none).role # "user")
    BY <1>3, GroupedNone
  <2> HIDE DEF run, none
  <2>3. /\ none \o run \in Seq(Groups) /\ Grouped(none \o run) = Append(Grouped(none), Group("user", b))
        /\ Grouped(none \o run) # <<>> /\ Last(Grouped(none \o run)).role = "user"
    BY <1>1, <1>3, <2>1, <2>2, Laid
  <2> QED BY <2>3 DEF none
<1>6. Open(history) BY <1>2, <1>4, <1>5 DEF Open
<1> DEFINE said0 == TextMessages(b)
           s == <<SystemPrompt>> \o said0
<1>7. Request = s
  <2>1. Request = Translated(Append(<<>>, Group("user", b)), carry)
    BY <1>2, <1>4, <1>5, GroupedNone DEF Request, ToOpenAI
  <2>2. Request = <<SystemPrompt>> \o UserMessages(b) BY <1>1, <1>3, <2>1, Converts, TranslatedNone
  <2>3. OfType(<<>> \o b, "tool_result") = OfType(<<>>, "tool_result") BY <1>1, <1>3, OfTypeNone
  <2>4. OfType(b, "tool_result") = <<>> BY <1>4, <2>3, OfTypeEmpty
  <2>5. ToolMessages(b) = <<>> BY <2>4 DEF ToolMessages
  <2>6. said0 \in Seq(OpenAIs) BY <1>1, TextMessagesAre
  <2>7. UserMessages(b) = said0
    <3> HIDE DEF said0
    <3>1. <<>> \o said0 = said0 BY <2>6, ConcatEmptySeq
    <3> QED BY <2>5, <3>1 DEF UserMessages, said0
  <2> QED BY <2>2, <2>7
<1>8. said0 \in Seq(OpenAIs) /\ \A i \in 1 .. Len(said0) : said0[i].role = "user" /\ said0[i].calls = <<>>
  BY <1>1, TextMessagesAre
<1> HIDE DEF said0
<1>9. SystemPrompt.role = "system" /\ SystemPrompt.calls = <<>> BY DEF SystemPrompt, OpenAI
<1>10. DOMAIN s = 1 .. Len(s) /\ \A i \in 1 .. Len(s) : s[i].role # "tool" /\ s[i].calls = <<>>
  <2> DEFINE one == <<SystemPrompt>>
  <2>1. one \in Seq(OpenAIs) /\ Len(one) = 1 /\ one[1] = SystemPrompt BY SystemPromptType
  <2> HIDE DEF one
  <2>2. /\ one \o said0 \in Seq(OpenAIs) /\ Len(one \o said0) = Len(one) + Len(said0)
        /\ \A i \in 1 .. Len(one) + Len(said0) : (one \o said0)[i] =
             IF i <= Len(one) THEN one[i] ELSE said0[i - Len(one)]
    BY <1>8, <2>1, ConcatProperties
  <2>3. s = one \o said0 BY DEF one
  <2> HIDE DEF s
  <2>4. s \in Seq(OpenAIs) /\ Len(s) = 1 + Len(said0) /\ Len(said0) \in Nat BY <1>8, <2>1, <2>2, <2>3
  <2>5. ASSUME NEW i \in 1 .. Len(s) PROVE s[i].role # "tool" /\ s[i].calls = <<>>
    <3>1. CASE i = 1
      <4>1. s[i] = SystemPrompt BY <2>1, <2>2, <2>3, <2>4, <3>1
      <4> QED BY <1>9, <4>1
    <3>2. CASE i # 1
      <4>1. i - 1 \in 1 .. Len(said0) /\ s[i] = said0[i - 1] BY <2>1, <2>2, <2>3, <2>4, <3>2
      <4> QED BY <1>8, <4>1
    <3> QED BY <3>1, <3>2
  <2> QED BY <2>4, <2>5
<1> HIDE DEF s
<1>11. Follow(s) BY <1>10 DEF Follow, ToSet
<1> QED BY <1>6, <1>7, <1>11

LEMMA TalkStarts == TalkInit => TalkInv
<1> SUFFICES ASSUME TalkInit PROVE TalkInv OBVIOUS
<1>1. Open(history) /\ Follow(Request) BY FirstRequest
<1>2. TalkTypes
  <2>1. <<>> \in Seq(ProviderMessages) OBVIOUS
  <2> QED BY <2>1, NoPartsType DEF TalkInit, TalkTypes
<1>3. Follow(<<>>) BY DEF Follow
<1>4. SentSoFar BY <1>3 DEF SentSoFar, TalkInit
<1>5. Kept BY <1>1 DEF Kept, TalkInit
<1> QED BY <1>2, <1>4, <1>5 DEF TalkInv, Replied, NoCallLeft, TalkInit

LEMMA KeptStays == ASSUME Kept, UNCHANGED <<carry, history, said>> PROVE Kept' /\ Request' = Request
BY DEF Kept, Request, Brings

LEMMA SentStays ==
  ASSUME SentSoFar, UNCHANGED <<carry, history, sent, sentTools>>, phase' # "ask", phase # "ask"
  PROVE  SentSoFar'
<1>1. Request' = Request BY DEF Request
<1> QED BY <1>1 DEF SentSoFar

LEMMA SendRequestStep == ASSUME TalkInv, SendRequest PROVE TalkInv'
<1>1. Kept' /\ Request' = Request BY KeptStays DEF TalkInv, SendRequest
<1>2. Request \in Seq(OpenAIs) BY RequestType DEF TalkInv, Kept, Request
<1>3. sentTools' = Ascending(Tools) BY SameTools DEF SendRequest
<1>4. sent' = Request /\ phase' = "upstream" BY DEF SendRequest, Request
<1>5. SentSoFar' BY <1>1, <1>2, <1>3, <1>4, ExtendsItself DEF SentSoFar, TalkInv, Kept
<1>6. TalkTypes' BY DEF TalkInv, TalkTypes, SendRequest
<1> QED BY <1>1, <1>4, <1>5, <1>6 DEF TalkInv, NoCallLeft, Replied

\* What the provider says is an answer.
LEMMA ArgumentsAre ==
  ASSUME NEW t \in Nat, NEW i \in Nat
  PROVE  /\ {Object(t, i), Other(t, i), CutShort(t, i)} \subseteq Seq(Pieces)
         /\ Len(Object(t, i)) = 2 /\ Len(Other(t, i)) = 2
<1>1. /\ <<t, i, "object1">> \in Pieces /\ <<t, i, "object2">> \in Pieces
      /\ <<t, i, "other1">> \in Pieces /\ <<t, i, "other2">> \in Pieces
  BY DEF Pieces, Marks
<1>2. Object(t, i) \in Seq(Pieces) /\ Len(Object(t, i)) = 2 BY <1>1 DEF Object
<1>3. Other(t, i) \in Seq(Pieces) /\ Len(Other(t, i)) = 2 BY <1>1 DEF Other
<1>4. CutShort(t, i) \in Seq(Pieces) BY <1>1 DEF CutShort
<1> QED BY <1>2, <1>3, <1>4

LEMMA CalledIs ==
  ASSUME NEW t \in Nat, NEW n \in Nat, NEW first \in Seq(Pieces)
  PROVE  /\ Called(t, n, first) \in Seq(Calls) /\ Len(Called(t, n, first)) = n
         /\ \A i \in 1 .. n : Called(t, n, first)[i].args = IF i = 1 THEN first ELSE Object(t, i)
<1> DEFINE Call(i) == [id |-> IF i = 1 THEN <<t, i, "id">> ELSE NoId,
                       args |-> IF i = 1 THEN first ELSE Object(t, i)]
<1>1. ASSUME NEW i \in 1 .. n
      PROVE  Call(i) \in Calls /\ Call(i).args = IF i = 1 THEN first ELSE Object(t, i)
  <2>1. <<t, i, "id">> \in Nat \X Nat \X Marks BY DEF Marks
  <2>2. (IF i = 1 THEN <<t, i, "id">> ELSE NoId) \in Ids BY <2>1 DEF Ids
  <2>3. Object(t, i) \in Seq(Pieces) BY ArgumentsAre
  <2> QED BY <2>2, <2>3 DEF Calls, Strings
<1>2. Called(t, n, first) = [i \in 1 .. n |-> Call(i)] BY DEF Called
<1> HIDE DEF Call
<1> QED BY <1>1, <1>2

LEMMA SayingsAre ==
  ASSUME NEW t \in Nat
  PROVE  Reasoning(t) \in Strings /\ Said(t) \in Strings
<1>1. <<t, "reasoning">> \in Pieces /\ <<t, "text1">> \in Pieces /\ <<t, "text2">> \in Pieces
  BY DEF Pieces, Marks
<1>2. <<<<t, "reasoning">>>> \in Seq(Pieces) BY <1>1
<1>3. <<<<t, "text1">>, <<t, "text2">>>> \in Seq(Pieces) BY <1>1
<1> QED BY <1>2, <1>3 DEF Reasoning, Said, Strings

LEMMA AnswersAre ==
  ASSUME NEW t \in Nat, NEW m \in Answers(t)
  PROVE  m \in ProviderMessages /\ \A i \in 1 .. Len(m.calls) : Len(m.calls[i].args) = 2
<1>1. PICK n \in 0 .. MaxCalls, first \in {Object(t, 1), Other(t, 1)},
           r \in {<<>>, Reasoning(t)}, x \in {<<>>, Said(t)} : m = Answer(r, x, Called(t, n, first))
  BY DEF Answers
<1>2. n \in Nat BY TurnsAssumption
<1>3. r \in Strings /\ x \in Strings BY <1>1, NoneIs, SayingsAre
<1>4. first \in Seq(Pieces) /\ Len(first) = 2
  <2>1. 1 \in Nat OBVIOUS
  <2>2. Object(t, 1) \in Seq(Pieces) /\ Other(t, 1) \in Seq(Pieces)
        /\ Len(Object(t, 1)) = 2 /\ Len(Other(t, 1)) = 2
    BY <2>1, ArgumentsAre, ZenonT(30)
  <2>3. first = Object(t, 1) \/ first = Other(t, 1) OBVIOUS
  <2> QED BY ONLY <2>2, <2>3
<1> DEFINE calls == Called(t, n, first)
<1>5. calls \in Seq(Calls) /\ Len(calls) = n
      /\ \A i \in 1 .. n : calls[i].args = IF i = 1 THEN first ELSE Object(t, i)
  BY ONLY <1>2, <1>4, CalledIs, t \in Nat
<1> HIDE DEF calls
<1>6. m = Answer(r, x, calls) BY <1>1 DEF calls
<1>7. m.calls = calls /\ m \in ProviderMessages BY <1>3, <1>5, <1>6 DEF Answer, ProviderMessages
<1>8. ASSUME NEW i \in 1 .. n PROVE Len(calls[i].args) = 2
  <2>1. Len(Object(t, i)) = 2 BY ArgumentsAre
  <2> QED BY <1>4, <1>5, <2>1
<1> QED BY <1>5, <1>7, <1>8

LEMMA WholeAnswersAre ==
  ASSUME NEW t \in Nat, NEW m \in WholeAnswers(t)
  PROVE  Read(m) \in ProviderMessages
<1>1. PICK n \in 0 .. MaxCalls, first \in {Object(t, 1), Other(t, 1), CutShort(t, 1)},
           r \in {<<>>, <<Reasoning(t)>>, <<Reasoning(t), Said(t)>>},
           x \in {<<>>, <<Said(t)>>, <<Said(t), Said(t)>>} : m = Answer(r, x, Called(t, n, first))
  BY DEF WholeAnswers
<1>2. n \in Nat BY TurnsAssumption
<1>3. r \in Seq(Strings) /\ x \in Seq(Strings)
  <2> DEFINE a == Reasoning(t)
             b == Said(t)
  <2>1. a \in Strings /\ b \in Strings BY SayingsAre
  <2>2. r \in {<<>>, <<a>>, <<a, b>>} /\ x \in {<<>>, <<b>>, <<b, b>>} OBVIOUS
  <2> HIDE DEF a, b
  <2>3. <<>> \in Seq(Strings) /\ <<a>> \in Seq(Strings) /\ <<b>> \in Seq(Strings)
        /\ <<a, b>> \in Seq(Strings) /\ <<b, b>> \in Seq(Strings)
    BY <2>1
  <2> QED BY <2>2, <2>3
<1>4. Lines(r) \in Strings /\ Lines(x) \in Strings BY <1>3, LinesType
<1>5. first \in Seq(Pieces) BY <1>1, ArgumentsAre
<1> DEFINE calls == Called(t, n, first)
<1>6. calls \in Seq(Calls) BY <1>2, <1>5, CalledIs
<1> HIDE DEF calls
<1>7. m = Answer(r, x, calls) BY <1>1 DEF calls
<1>8. Read(m) = Answer(Lines(r), Lines(x), calls) BY <1>7 DEF Read, Answer
<1> QED BY <1>4, <1>6, <1>8 DEF Answer, ProviderMessages

LEMMA AnswerWholeStep == ASSUME TalkInv, AnswerWhole PROVE TalkInv'
<1>1. Kept' BY KeptStays DEF TalkInv, AnswerWhole
<1>2. SentSoFar' BY SentStays DEF TalkInv, AnswerWhole
<1>3. PICK w \in WholeAnswers(turn + 1), finish \in DOMAIN Finish :
        message' = Read(w) /\ reply' = Reply(Read(w), turn + 1, finish)
  BY DEF AnswerWhole
<1>4. turn + 1 \in Nat BY DEF TalkInv, TalkTypes
<1> DEFINE m == Read(w)
<1>5. m \in ProviderMessages BY <1>3, <1>4, WholeAnswersAre
<1> HIDE DEF m
<1>6. TalkTypes' BY <1>3, <1>4, <1>5 DEF TalkInv, TalkTypes, AnswerWhole, m
<1>7. Reply(message, turn, finish)' = Reply(m, turn + 1, finish)
  BY <1>3 DEF Reply, ToBlocks, AnswerWhole, m
<1>8. Replied' BY <1>3, <1>7 DEF Replied, m
<1> QED BY <1>1, <1>2, <1>6, <1>8 DEF TalkInv, NoCallLeft, AnswerWhole

LEMMA StreamBeginsStep == ASSUME TalkInv, StreamBegins PROVE TalkInv'
<1>1. Kept' BY KeptStays DEF TalkInv, StreamBegins
<1>2. SentSoFar' BY SentStays DEF TalkInv, StreamBegins
<1>3. PICK m \in Answers(turn + 1) :
        message' = m /\ given' = Answer(0, 0, [i \in DOMAIN m.calls |-> 0])
  BY DEF StreamBegins
<1>4. turn + 1 \in Nat BY DEF TalkInv, TalkTypes
<1>5. m \in ProviderMessages /\ \A i \in 1 .. Len(m.calls) : Len(m.calls[i].args) = 2
  BY <1>3, <1>4, AnswersAre
<1>6. TalkTypes' BY <1>3, <1>4, <1>5 DEF TalkInv, TalkTypes, StreamBegins
<1>7. SoFar(m, given', NoParts)
  <2> DEFINE c == [i \in 1 .. Len(m.calls) |-> 0]
  <2>1. m.reasoning \in Seq(Pieces) /\ m.text \in Seq(Pieces) /\ m.calls \in Seq(Calls) BY <1>5, MessageParts
  <2>2. given' = Answer(0, 0, c) BY <1>3, <2>1
  <2>3. c \in [1 .. Len(m.calls) -> 0 .. 2] /\ \A i \in 1 .. Len(m.calls) : c[i] = 0 OBVIOUS
  <2> HIDE DEF c
  <2>4. given'.reasoning = 0 /\ given'.text = 0 /\ given'.calls = c BY <2>2 DEF Answer
  <2>5. given' \in Counts(m) BY <2>1, <2>2, <2>3 DEF Counts, Answer
  <2>6. SubSeq(m.reasoning, 1, 0) = <<>> /\ SubSeq(m.text, 1, 0) = <<>> BY SubSeqEmpty
  <2>7. Slots(m, c) = <<>>
    <3>1. {j \in 1 .. Len(m.calls) : c[j] > 0} = {} BY <2>3
    <3> QED BY <3>1 DEF Slots
  <2> QED BY <1>5, <2>4, <2>5, <2>6, <2>7 DEF SoFar, NoParts
<1> QED BY <1>1, <1>2, <1>3, <1>6, <1>7 DEF TalkInv, Replied, NoCallLeft, StreamBegins

LEMMA StreamTextStep == ASSUME TalkInv, StreamText PROVE TalkInv'
<1>1. Kept' BY KeptStays DEF TalkInv, StreamText
<1>2. SentSoFar' BY SentStays DEF TalkInv, StreamText
<1>3. TalkTypes' BY DEF TalkInv, TalkTypes, StreamText
<1>4. SoFar(message, given, parts) /\ given.text < Len(message.text) BY DEF TalkInv, StreamText
<1>5. SoFar(message, given', parts') BY <1>4, SoFarText DEF StreamText
<1> QED BY <1>1, <1>2, <1>3, <1>5 DEF TalkInv, Replied, NoCallLeft, StreamText

LEMMA StreamReasoningStep == ASSUME TalkInv, StreamReasoning PROVE TalkInv'
<1>1. Kept' BY KeptStays DEF TalkInv, StreamReasoning
<1>2. SentSoFar' BY SentStays DEF TalkInv, StreamReasoning
<1>3. TalkTypes' BY DEF TalkInv, TalkTypes, StreamReasoning
<1>4. SoFar(message, given, parts) /\ given.reasoning < Len(message.reasoning) BY DEF TalkInv, StreamReasoning
<1>5. SoFar(message, given', parts') BY <1>4, SoFarReasoning DEF StreamReasoning
<1> QED BY <1>1, <1>2, <1>3, <1>5 DEF TalkInv, Replied, NoCallLeft, StreamReasoning

LEMMA StreamCallStep ==
  ASSUME TalkInv, NEW i \in DOMAIN message.calls, StreamCall(i) PROVE TalkInv'
<1>1. Kept' BY KeptStays DEF TalkInv, StreamCall
<1>2. SentSoFar' BY SentStays DEF TalkInv, StreamCall
<1>3. TalkTypes' BY DEF TalkInv, TalkTypes, StreamCall
<1>4. SoFar(message, given, parts) /\ given.calls[i] < Len(message.calls[i].args) BY DEF TalkInv, StreamCall
<1>5. SoFar(message, given', parts') BY <1>4, SoFarCall DEF StreamCall
<1> QED BY <1>1, <1>2, <1>3, <1>5 DEF TalkInv, Replied, NoCallLeft, StreamCall

LEMMA StreamEndsStep == ASSUME TalkInv, StreamEnds PROVE TalkInv'
<1> DEFINE m == Assembled(parts)
<1>1. Kept' BY KeptStays DEF TalkInv, StreamEnds
<1>2. SentSoFar' BY SentStays DEF TalkInv, StreamEnds
<1>3. SoFar(message, given, parts) BY DEF TalkInv, StreamEnds
<1>4. m \in ProviderMessages BY <1>3, SoFarType
<1>5. Streamed => m = message BY <1>3, SoFarWhole DEF Streamed
<1>6. message' = m BY <1>5 DEF StreamEnds
<1> HIDE DEF m
<1>7. turn \in Nat BY DEF TalkInv, TalkTypes
<1>8. PICK finish \in DOMAIN Finish :
        reply' = [Reply(m, turn, finish) EXCEPT !.blocks = Decoded(Events(@))]
  <2>1. "none" \in DOMAIN Finish BY DEF Finish
  <2> QED BY <2>1 DEF StreamEnds, m
<1>9. reply' = Reply(m, turn, finish)
  <2> DEFINE B == ToBlocks(m, turn)
             stop == StopReason(B, finish)
  <2>1. B \in Seq(Blocks) BY <1>4, <1>7, BlocksAre
  <2>2. Decoded(Events(B)) = B BY <2>1, DecodedEvents
  <2>3. Reply(m, turn, finish) = [blocks |-> B, stop |-> stop] BY DEF Reply
  <2> HIDE DEF B, stop
  <2> QED BY <1>8, <2>2, <2>3
<1>10. Reply(message, turn, finish)' = Reply(m, turn, finish)
  BY <1>6 DEF Reply, ToBlocks, StreamEnds
<1>11. Replied' BY <1>9, <1>10 DEF Replied
<1>12. TalkTypes' BY <1>4, <1>6 DEF TalkInv, TalkTypes, StreamEnds
<1> QED BY <1>1, <1>2, <1>11, <1>12 DEF TalkInv, NoCallLeft, StreamEnds

LEMMA ContinueStep == ASSUME TalkInv, Continue PROVE TalkInv'
<1>1. PICK finish \in DOMAIN Finish : reply = Reply(message, turn, finish)
  BY DEF TalkInv, Replied, Continue
<1>2. turn \in Nat /\ message \in ProviderMessages /\ style \in Styles /\ said \in Seq(ProviderMessages)
  BY DEF TalkInv, TalkTypes
<1>3. reply.blocks = ToBlocks(message, turn) BY <1>1 DEF Reply
<1>4. message.calls # <<>>
  <2>1. Calling(message, turn) # <<>> BY <1>2, <1>3, BlocksAre DEF Continue
  <2> QED BY <2>1 DEF Calling
<1>5. PICK notes \in {<<>>, <<Note>>} : history' = Continued(history, ToBlocks(message, turn), notes)
  BY <1>3 DEF Continue, Continued
<1>6. Open(history) /\ Follow(Request) /\ Request \in Seq(OpenAIs) /\ sent = Request
      /\ \A k \in 1 .. Len(said) : \E i \in 1 .. Len(Request) : Brings(Request[i], said[k])
  BY RequestType DEF TalkInv, Kept, SentSoFar, Continue, Request
<1> DEFINE more == ToOpenAI(history', carry)
<1>7. Open(history') /\ Round(more, Request, message)
  BY <1>2, <1>4, <1>5, <1>6, RoundAdds DEF Request
<1>8. more = Request' BY DEF Request, Continue
<1> HIDE DEF more
<1>9. /\ more \in Seq(OpenAIs) /\ Follow(more) /\ Extends(Request, more)
      /\ \E i \in 1 .. Len(more) : Brings(more[i], message)
      /\ \A i \in 1 .. Len(Request) : i \in 1 .. Len(more) /\ more[i] = Request[i]
  BY <1>6, <1>7, RoundKeeps
<1>10. Kept'
  <2>1. said' = Append(said, message) /\ carry' = carry BY DEF Continue
  <2>2. Len(said') = Len(said) + 1 /\ said'[Len(said) + 1] = message
        /\ \A k \in 1 .. Len(said) : said'[k] = said[k]
    BY <1>2, <2>1
  <2>3. ASSUME NEW k \in 1 .. Len(said') PROVE \E i \in 1 .. Len(more) : Brings(more[i], said'[k])
    <3>1. CASE k = Len(said) + 1 BY <1>9, <2>2, <3>1
    <3>2. CASE k # Len(said) + 1
      <4>1. k \in 1 .. Len(said) /\ said'[k] = said[k] BY <1>2, <2>2, <3>2
      <4>2. PICK i \in 1 .. Len(Request) : Brings(Request[i], said[k]) BY <1>6, <4>1
      <4> QED BY <1>9, <4>1, <4>2
    <3> QED BY <3>1, <3>2
  <2> QED BY <1>7, <1>8, <1>9, <2>1, <2>3, ZenonT(60) DEF Kept, Brings
<1>11. SentSoFar'
  <2>1. sent' = Request /\ sentTools' = sentTools /\ phase' = "ask" BY <1>6 DEF Continue
  <2> QED BY <1>6, <1>8, <1>9, <2>1 DEF SentSoFar, TalkInv
<1>12. TalkTypes'
  <2>1. said' \in Seq(ProviderMessages) BY <1>2 DEF Continue
  <2> QED BY <2>1, NoPartsType DEF TalkInv, TalkTypes, Continue
<1> QED BY <1>10, <1>11, <1>12 DEF TalkInv, Replied, NoCallLeft, Continue

LEMMA AgentStopsStep == ASSUME TalkInv, AgentStops PROVE TalkInv'
<1>1. Kept' BY KeptStays DEF TalkInv, AgentStops
<1>2. SentSoFar' BY SentStays DEF TalkInv, AgentStops
<1>3. TalkTypes' BY DEF TalkInv, TalkTypes, AgentStops
<1>4. OfType(reply.blocks, "tool_use") = <<>>
  <2>1. PICK finish \in DOMAIN Finish : reply = Reply(message, turn, finish)
    BY DEF TalkInv, Replied, AgentStops
  <2>2. reply.stop = StopReason(reply.blocks, finish) BY <2>1 DEF Reply
  <2>3. reply.stop # "tool_use" => OfType(reply.blocks, "tool_use") = <<>> BY <2>2 DEF StopReason
  <2> QED BY <2>3 DEF AgentStops
<1>5. NoCallLeft' BY <1>4 DEF NoCallLeft, AgentStops
<1> QED BY <1>1, <1>2, <1>3, <1>5 DEF TalkInv, Replied, AgentStops

LEMMA TalkStep == ASSUME TalkInv, [TalkNext]_talk PROVE TalkInv'
<1>1. CASE SendRequest BY <1>1, SendRequestStep
<1>2. CASE AnswerWhole BY <1>2, AnswerWholeStep
<1>3. CASE StreamBegins BY <1>3, StreamBeginsStep
<1>4. CASE StreamText BY <1>4, StreamTextStep
<1>5. CASE StreamReasoning BY <1>5, StreamReasoningStep
<1>6. CASE \E i \in DOMAIN message.calls : StreamCall(i) BY <1>6, StreamCallStep
<1>7. CASE StreamEnds BY <1>7, StreamEndsStep
<1>8. CASE Continue BY <1>8, ContinueStep
<1>9. CASE AgentStops BY <1>9, AgentStopsStep
<1>10. CASE UNCHANGED talk
  <2>1. Kept' BY <1>10, KeptStays DEF TalkInv, talk
  <2>2. Request' = Request BY <1>10 DEF talk, Request
  <2>3. SentSoFar' BY <1>10, <2>2 DEF TalkInv, SentSoFar, talk
  <2>4. Replied' BY <1>10 DEF TalkInv, Replied, Reply, ToBlocks, talk
  <2> QED BY <1>10, <2>1, <2>3, <2>4 DEF TalkInv, TalkTypes, NoCallLeft, talk
<1> QED BY <1>1, <1>2, <1>3, <1>4, <1>5, <1>6, <1>7, <1>8, <1>9, <1>10 DEF TalkNext

\* The agent's next request follows the rules, brings back every answer and extends
\* the last one, and what it gets is the translation of the answer, throughout a
\* conversation (_anthropic_request_to_openai, _openai_response_to_anthropic).
THEOREM TalkInvariance == TalkSpec => []TalkInv
<1> QED BY TalkStarts, TalkStep, PTL DEF TalkSpec

\* What the provider said in a turn that called tools comes back to it with the next
\* request, in whatever order the stream brought it and whatever shape the agent
\* keeps it in: its text and its reasoning as the proxy has read them, and of each
\* call the same input, {} where the arguments were no object (_assemble_openai_stream, _anthropic_content_blocks,
\* _anthropic_sse_events, _group_same_role, _assistant_message).
THEOREM SaidIsBrought == TalkSpec => []SaidComesBack
<1>1. TalkInv => SaidComesBack
  <2> SUFFICES ASSUME TalkInv, phase = "upstream" PROVE SaidComesBack BY DEF SaidComesBack
  <2>1. sent = Request /\ Request \in Seq(OpenAIs) /\ said \in Seq(ProviderMessages)
    BY RequestType DEF TalkInv, TalkTypes, SentSoFar, Kept, Request
  <2> SUFFICES ASSUME NEW k \in DOMAIN said
               PROVE  \E i \in DOMAIN sent :
                        /\ sent[i].role = "assistant" /\ sent[i].text = said[k].text
                        /\ sent[i].reasoning = IF carry THEN said[k].reasoning ELSE <<>>
                        /\ Len(sent[i].calls) = Len(said[k].calls)
                        /\ \A j \in DOMAIN said[k].calls :
                              sent[i].calls[j].args = Dumped(Parsed(said[k].calls[j].args))
    BY DEF SaidComesBack
  <2>2. PICK i \in 1 .. Len(sent) : Brings(sent[i], said[k]) BY <2>1 DEF TalkInv, Kept
  <2>3. said[k] \in ProviderMessages /\ i \in DOMAIN sent BY <2>1
  <2>4. DOMAIN said[k].calls = 1 .. Len(said[k].calls) BY <2>3, MessageParts
  <2> QED BY <2>2, <2>3, <2>4 DEF Brings
<1> QED BY <1>1, TalkInvariance, PTL

\* Every tool result of a request stands behind the message that called for it,
\* among nothing but results, and every call has one (_user_messages, _group_same_role).
THEOREM ResultsFollow == TalkSpec => []ResultsFollowCalls
<1>1. TalkInv => ResultsFollowCalls BY DEF TalkInv, SentSoFar, Follow, ResultsFollowCalls
<1> QED BY <1>1, TalkInvariance, PTL

\* The agent never ends its loop on an answer that calls a tool
\* (_openai_response_to_anthropic).
THEOREM NothingUnanswered == TalkSpec => []NoCallLeft
<1>1. TalkInv => NoCallLeft BY DEF TalkInv
<1> QED BY <1>1, TalkInvariance, PTL

\* A request only adds to the one before it, behind its end and with no system
\* message, and its tools come in the same order (_anthropic_request_to_openai,
\* _openai_tools).
THEOREM OnlyGrows == TalkSpec => PrefixStable
<1>1. ASSUME TalkInv, [TalkNext]_talk
      PROVE  [\/ sent = <<>>
              \/ /\ sentTools' = sentTools
                 /\ IsPrefix(sent, sent')
                 /\ \A i \in DOMAIN sent' : sent'[i].role = "system" => i \in DOMAIN sent
             ]_<<sent, sentTools>>
  <2>1. CASE SendRequest /\ sent # <<>>
    <3>1. sent' = Request /\ sentTools' = Ascending(Tools) BY <2>1, SameTools DEF SendRequest, Request
    <3>2. Extends(sent, sent') /\ sentTools' = sentTools BY <1>1, <2>1, <3>1 DEF TalkInv, SentSoFar
    <3>3. sent \in Seq(OpenAIs) /\ sent' \in Seq(OpenAIs) BY <3>2 DEF Extends
    <3>4. ASSUME NEW i \in DOMAIN sent', sent'[i].role = "system" PROVE i \in DOMAIN sent
      BY <3>2, <3>3, <3>4 DEF Extends
    <3> QED BY <3>2, <3>4 DEF Extends
  <2>2. CASE ~SendRequest
    <3>1. UNCHANGED <<sent, sentTools>>
      BY <1>1, <2>2 DEF TalkNext, talk, AnswerWhole, StreamBegins, StreamText, StreamReasoning, StreamCall,
                        StreamEnds, Continue, AgentStops
    <3> QED BY <3>1
  <2> QED BY <2>1, <2>2
<1> QED BY <1>1, TalkInvariance, PTL DEF TalkSpec, PrefixStable

=============================================================================
