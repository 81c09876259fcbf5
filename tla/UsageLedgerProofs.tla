-------------------------- MODULE UsageLedgerProofs --------------------------
(***************************************************************************)
(* Proofs about UsageLedger, for any requests, size of a read and number   *)
(* of keep-alives.                                                         *)
(***************************************************************************)
EXTENDS UsageLedger, FiniteSetTheorems, SequenceTheorems, WellFoundedInduction, TLAPS

-----------------------------------------------------------------------------
(* The inductive invariant.                                                  *)

Fields == {"in", "cached", "out"}
AnyPiece == [event : Nat, last : BOOLEAN]
Stages == {"new", "sent", "stream", "yielded", "emitted", "done", "error", "broken"}
Streaming == {"stream", "yielded", "emitted"}

Types ==
    /\ setting \in [compress : BOOLEAN, translate : BOOLEAN]
    /\ request \in [Requests -> Kinds]
    /\ stage \in [Requests -> Stages]
    /\ loop = {r \in Requests : stage[r] = "sent"}
    /\ sent \in [Requests -> Nat] /\ pauses \in [Requests -> Nat]
    /\ closed \in [Requests -> BOOLEAN]
    /\ held \in [Requests -> Seq(AnyPiece)] /\ pending \in [Requests -> Seq(AnyPiece)]
    /\ tally \in [Requests -> Counts] /\ silence \in [Requests -> Nat]
    /\ totals \in Counts

\* One handler at most blocks the loop.
OneHandler == loop = {} \/ \E r \in Requests : loop = {r}

\* What has come and was not scanned.
Unscanned(r) == pending[r] \o held[r]

\* The break of an event follows on its text, and nothing else does.
WellCut(b) ==
    /\ \A i \in DOMAIN b : ~b[i].last => b[i].event # 0
    /\ \A i \in DOMAIN b : b[i].last /\ b[i].event # 0 =>
          i > 1 /\ b[i - 1] = Piece(b[i].event, FALSE)
    /\ \A i \in DOMAIN b : i > 1 /\ ~b[i - 1].last => b[i] = Piece(b[i - 1].event, TRUE)

Within(b, n) == \A i \in DOMAIN b : b[i].event <= n

\* After an odd number of pieces an event is open, after an even one none is.
Ends(b, n) ==
    IF n % 2 = 1 THEN b # <<>> /\ b[Len(b)] = Piece(n \div 2 + 1, FALSE)
                 ELSE b = <<>> \/ b[Len(b)].last

\* The tally has the counts of an event.
Covers(t, u) == u = None \/ \A f \in Fields : t[f] >= FieldsOf(u)[f]

\* Every event that has come in full is tallied or still to be scanned.
Accounted(r) ==
    \A e \in 1 .. (sent[r] \div 2) :
        \/ Covers(tally[r], Events(r)[e])
        \/ \E i \in DOMAIN Unscanned(r) : Unscanned(r)[i] = Piece(e, TRUE)

AtMostBill(t) == \A f \in Fields : t[f] <= Bill[f]

StreamInv(r) ==
    /\ sent[r] <= Pieces(r) /\ pauses[r] <= MaxPauses /\ silence[r] <= pauses[r]
    /\ Len(held[r]) <= ReadSize /\ Len(pending[r]) <= 1
    /\ WellCut(Unscanned(r)) /\ Within(Unscanned(r), Len(Events(r))) /\ Ends(Unscanned(r), sent[r])
    /\ Accounted(r) /\ AtMostBill(tally[r])
    /\ stage[r] \in Streaming => request[r].path # "count_tokens"

Streams == \A r \in Requests : StreamInv(r)

Booked == IsFiniteSet(Done) /\ BookedInFull /\ BookedAtMost

LedgerInv == Types /\ OneHandler /\ Streams /\ Booked

-----------------------------------------------------------------------------
(* Facts about counts.                                                       *)

\* A set of numbers up to n has its greatest element as Max.
LEMMA MaxOfUpTo ==
  ASSUME NEW n \in Nat, NEW S \in SUBSET (0 .. n), S # {}
  PROVE  Max(S) \in S /\ \A y \in S : y <= Max(S)
<1> DEFINE U == {u \in Nat : \A y \in S : y <= u}
<1>1. n \in U OBVIOUS
<1>2. PICK u \in U : \A w \in U : u <= w
  <2> DEFINE R == OpToRel(<, Nat)
  <2>1. U \subseteq Nat /\ U # {} BY <1>1
  <2> HIDE DEF U
  <2>2. IsWellFoundedOn(R, Nat) BY NatLessThanWellFounded
  <2> HIDE DEF R
  <2>3. PICK u \in U : \A w \in U : ~(<<w, u>> \in R) BY <2>1, <2>2, WFMin
  <2>4. \A w \in U : ~(w < u) BY <2>1, <2>3 DEF R, OpToRel
  <2> QED BY <2>1, <2>4
<1>3. u \in S
  <2> SUFFICES ASSUME u \notin S PROVE FALSE OBVIOUS
  <2>1. PICK y \in S : TRUE OBVIOUS
  <2>2. \A z \in S : z <= u - 1 OBVIOUS
  <2>3. u - 1 \in U BY <2>1, <2>2
  <2> QED BY <1>2, <2>3
<1>4. \E x \in S : \A y \in S : x >= y BY <1>3
<1>5. Max(S) \in S /\ \A y \in S : Max(S) >= y BY <1>4 DEF Max
<1> QED BY <1>5

LEMMA CountsAreFunctions ==
  /\ Counts = [Fields -> Nat]
  /\ \A t \in Counts : DOMAIN t = Fields
  /\ Zero \in Counts /\ \A f \in Fields : Zero[f] = 0
<1>1. ASSUME NEW t \in Counts PROVE t \in [Fields -> Nat] BY DEF Counts, Fields
<1>2. ASSUME NEW t \in [Fields -> Nat] PROVE t \in Counts BY DEF Counts, Fields
<1>3. Counts = [Fields -> Nat] BY <1>1, <1>2
<1>4. Zero \in Counts /\ \A f \in Fields : Zero[f] = 0 BY DEF Counts, Fields, Zero
<1> QED BY <1>3, <1>4

LEMMA BillCounts ==
  /\ Bill \in Counts /\ DOMAIN Bill = Fields
  /\ Bill["in"] = 4 /\ Bill["cached"] = 2 /\ Bill["out"] = 3
BY DEF Bill, Anthropic, Counts, Fields

LEMMA PlusCounts ==
  ASSUME NEW t \in Counts, NEW u \in Counts
  PROVE  Plus(t, u) \in Counts /\ \A f \in Fields : Plus(t, u)[f] = t[f] + u[f]
BY CountsAreFunctions DEF Plus

LEMMA FieldsOfAnthropic ==
  ASSUME NEW in \in Nat, NEW cached \in Nat, NEW out \in Nat
  PROVE  /\ FieldsOf(Anthropic(in, cached, out)) = Anthropic(in, cached, out)
         /\ Anthropic(in, cached, out) # None
BY DEF FieldsOf, Anthropic, None

\* What a completion says in OpenAI's terms is what it costs.
LEMMA FieldsOfOpenAI == FieldsOf(OpenAI(6, 2, 3)) = Bill /\ OpenAI(6, 2, 3) # None
<1>1. Max({4, 0}) = 4
  <2>1. {4, 0} \in SUBSET (0 .. 4) /\ 4 \in {4, 0} OBVIOUS
  <2>2. Max({4, 0}) \in {4, 0} /\ 4 <= Max({4, 0}) BY <2>1, MaxOfUpTo
  <2> QED BY <2>2
<1>2. "in" \notin DOMAIN OpenAI(6, 2, 3) /\ OpenAI(6, 2, 3) # None BY DEF OpenAI, None
<1>3. OpenAI(6, 2, 3).prompt - OpenAI(6, 2, 3).cached = 4 /\ OpenAI(6, 2, 3).cached = 2
      /\ OpenAI(6, 2, 3).out = 3
  BY DEF OpenAI
<1> QED BY <1>1, <1>2, <1>3 DEF FieldsOf, Bill

\* No event counts more than the bill, and of each count one event has it all.
LEMMA EventsSayBill ==
  ASSUME NEW r \in Requests
  PROVE  /\ Len(Events(r)) \in 1 .. 4 /\ DOMAIN Events(r) = 1 .. Len(Events(r))
         /\ \A e \in DOMAIN Events(r) : Events(r)[e] # None =>
               FieldsOf(Events(r)[e]) \in Counts /\ AtMostBill(FieldsOf(Events(r)[e]))
         /\ \A f \in Fields : \E e \in DOMAIN Events(r) :
               Events(r)[e] # None /\ FieldsOf(Events(r)[e])[f] = Bill[f]
<1>1. CASE Address(r) = "completions"
  <2>1. Events(r) = <<None, OpenAI(6, 2, 3)>> BY <1>1 DEF Events, Usage
  <2>2. Bill \in Counts /\ AtMostBill(Bill) BY BillCounts DEF AtMostBill, Fields
  <2> QED BY <2>1, <2>2, FieldsOfOpenAI
<1>2. CASE Address(r) # "completions"
  <2>1. Events(r) = <<Anthropic(4, 2, 1), None, Anthropic(0, 0, 2), Anthropic(4, 0, 3)>>
    BY <1>2 DEF Events
  <2>2. ASSUME NEW in \in 0 .. 4, NEW cached \in 0 .. 2, NEW out \in 0 .. 3
        PROVE  /\ FieldsOf(Anthropic(in, cached, out)) = Anthropic(in, cached, out)
               /\ Anthropic(in, cached, out) # None
               /\ Anthropic(in, cached, out) \in Counts /\ AtMostBill(Anthropic(in, cached, out))
    BY FieldsOfAnthropic, BillCounts DEF Anthropic, Counts, AtMostBill, Fields
  <2>3. /\ Anthropic(4, 2, 1)["in"] = 4 /\ Anthropic(4, 2, 1)["cached"] = 2
        /\ Anthropic(4, 0, 3)["out"] = 3
    BY DEF Anthropic
  <2>4. \A f \in Fields : \E e \in {1, 4} :
            Events(r)[e] # None /\ FieldsOf(Events(r)[e])[f] = Bill[f]
    BY <2>1, <2>2, <2>3, BillCounts DEF Fields
  <2> QED BY <2>1, <2>2, <2>4
<1> QED BY <1>1, <1>2

\* Merging keeps the maximum of each count.
LEMMA MergedKeepsMax ==
  ASSUME NEW t \in Counts, AtMostBill(t), NEW us,
         \A u \in us : FieldsOf(u) \in Counts /\ AtMostBill(FieldsOf(u))
  PROVE  /\ Merged(t, us) \in Counts /\ AtMostBill(Merged(t, us))
         /\ \A f \in Fields : Merged(t, us)[f] >= t[f]
         /\ \A u \in us : Covers(Merged(t, us), u)
<1> DEFINE S(f) == {t[f]} \cup {FieldsOf(u)[f] : u \in us}
<1>1. ASSUME NEW f \in Fields
      PROVE  Max(S(f)) \in Nat /\ Max(S(f)) <= Bill[f] /\ \A y \in S(f) : y <= Max(S(f))
  <2>1. Bill[f] \in Nat BY BillCounts DEF Fields
  <2>2. S(f) \in SUBSET (0 .. Bill[f]) /\ S(f) # {}
    BY <2>1, CountsAreFunctions DEF AtMostBill
  <2> HIDE DEF S
  <2>3. Max(S(f)) \in S(f) /\ \A y \in S(f) : y <= Max(S(f)) BY <2>1, <2>2, MaxOfUpTo
  <2> QED BY <2>1, <2>2, <2>3
<1>2. Merged(t, us) = [f \in Fields |-> Max(S(f))] BY CountsAreFunctions DEF Merged
<1>3. \A f \in Fields : t[f] \in S(f) /\ \A u \in us : FieldsOf(u)[f] \in S(f) OBVIOUS
<1> HIDE DEF S
<1>4. Merged(t, us) \in Counts BY <1>1, <1>2, CountsAreFunctions
<1>5. ASSUME NEW f \in Fields, NEW y \in S(f), y \in Nat PROVE Merged(t, us)[f] >= y
  BY <1>1, <1>2, <1>5
<1>6. \A f \in Fields : Merged(t, us)[f] >= t[f] BY <1>3, <1>5, CountsAreFunctions
<1>7. \A u \in us : Covers(Merged(t, us), u) BY <1>3, <1>5, CountsAreFunctions DEF Covers
<1>8. AtMostBill(Merged(t, us)) BY <1>1, <1>2 DEF AtMostBill
<1> QED BY <1>4, <1>6, <1>7, <1>8

-----------------------------------------------------------------------------
(* Facts about buffers.                                                      *)

\* How an event is cut in two.
LEMMA Halves ==
  ASSUME NEW n \in Nat
  PROVE  /\ n \div 2 \in Nat
         /\ n % 2 = 1 => (n + 1) % 2 = 0 /\ (n + 1) \div 2 = n \div 2 + 1
         /\ n % 2 # 1 => n % 2 = 0 /\ (n + 1) % 2 = 1 /\ (n + 1) \div 2 = n \div 2
OBVIOUS

\* What may come after what.
Follows(b, x) ==
    IF x.last /\ x.event # 0 THEN b # <<>> /\ b[Len(b)] = Piece(x.event, FALSE)
    ELSE /\ b = <<>> \/ b[Len(b)].last
         /\ ~x.last => x.event # 0

LEMMA AppendCut ==
  ASSUME NEW b \in Seq(AnyPiece), WellCut(b), NEW x \in AnyPiece, Follows(b, x)
  PROVE  WellCut(Append(b, x))
<1> DEFINE c == Append(b, x)
<1>1. /\ c \in Seq(AnyPiece) /\ Len(c) = Len(b) + 1 /\ c[Len(c)] = x
      /\ \A i \in DOMAIN b : c[i] = b[i]
      /\ \A i \in DOMAIN c : i \in DOMAIN b \/ i = Len(c)
      /\ Len(b) \in Nat /\ DOMAIN b = 1 .. Len(b) /\ DOMAIN c = 1 .. Len(c)
  OBVIOUS
<1>2. b = <<>> <=> Len(b) = 0 OBVIOUS
<1> HIDE DEF c
<1>3. \A i \in DOMAIN c : ~c[i].last => c[i].event # 0
  BY <1>1 DEF WellCut, Follows
<1>4. ASSUME NEW i \in DOMAIN c, c[i].last, c[i].event # 0
      PROVE  i > 1 /\ c[i - 1] = Piece(c[i].event, FALSE)
  <2>1. CASE i \in DOMAIN b
    <3>1. i > 1 /\ b[i - 1] = Piece(b[i].event, FALSE) BY <1>1, <1>4, <2>1 DEF WellCut
    <3>2. i - 1 \in DOMAIN b BY <1>1, <2>1, <3>1
    <3> QED BY <1>1, <2>1, <3>1, <3>2
  <2>2. CASE i = Len(c)
    <3>1. b # <<>> /\ b[Len(b)] = Piece(x.event, FALSE) BY <1>1, <1>4, <2>2 DEF Follows
    <3>2. i - 1 = Len(b) /\ Len(b) \in DOMAIN b BY <1>1, <1>2, <2>2, <3>1
    <3>3. c[i] = x /\ c[i - 1] = b[Len(b)] BY <1>1, <2>2, <3>2
    <3> QED BY <3>1, <3>2, <3>3, <1>1
  <2> QED BY <1>1, <2>1, <2>2
<1>5. ASSUME NEW i \in DOMAIN c, i > 1, ~c[i - 1].last
      PROVE  c[i] = Piece(c[i - 1].event, TRUE)
  <2>1. i - 1 \in DOMAIN b /\ c[i - 1] = b[i - 1] BY <1>1, <1>5
  <2>2. CASE i \in DOMAIN b BY <1>1, <1>5, <2>1, <2>2 DEF WellCut
  <2>3. CASE i = Len(c)
    <3>1. b # <<>> /\ i - 1 = Len(b) /\ ~b[Len(b)].last BY <1>1, <1>2, <1>5, <2>1, <2>3
    <3>2. x.last /\ b[Len(b)] = Piece(x.event, FALSE) BY <3>1 DEF Follows
    <3>3. x = Piece(x.event, TRUE) BY <3>2 DEF Piece, AnyPiece
    <3>4. c[i] = x /\ c[i - 1] = Piece(x.event, FALSE) BY <1>1, <2>1, <2>3, <3>1, <3>2
    <3> QED BY <3>3, <3>4 DEF Piece
  <2> QED BY <1>1, <2>2, <2>3
<1>6. WellCut(c) BY <1>3, <1>4, <1>5 DEF WellCut
<1> QED BY <1>6 DEF c

\* The next piece of an event fits what has come before.
LEMMA NextPiece ==
  ASSUME NEW b \in Seq(AnyPiece), NEW n \in Nat, Ends(b, n),
         NEW x, x = Piece(n \div 2 + 1, n % 2 = 1)
  PROVE  /\ x \in AnyPiece /\ x.event = n \div 2 + 1
         /\ Follows(b, x) /\ Ends(Append(b, x), n + 1)
<1>1. n \div 2 \in Nat /\ n \div 2 + 1 \in Nat /\ n \div 2 + 1 # 0 BY Halves
<1> DEFINE k == n \div 2 + 1
<1>2. k \in Nat /\ k # 0 BY <1>1
<1>3. CASE n % 2 = 1
  <2>1. x = Piece(k, TRUE) BY <1>3
  <2>2. b # <<>> /\ b[Len(b)] = Piece(k, FALSE) BY <1>3 DEF Ends
  <2>3. (n + 1) % 2 # 1 BY <1>3, Halves
  <2> HIDE DEF k
  <2>4. x \in AnyPiece /\ x.event = k /\ x.last BY <1>2, <2>1 DEF Piece, AnyPiece
  <2>5. x.event # 0 /\ b[Len(b)] = Piece(x.event, FALSE) BY <1>2, <2>2, <2>4
  <2>6. Follows(b, x) BY <2>2, <2>4, <2>5 DEF Follows
  <2>7. Append(b, x)[Len(Append(b, x))] = x BY <2>4
  <2>8. Ends(Append(b, x), n + 1) BY <2>3, <2>4, <2>7 DEF Ends
  <2> QED BY <2>4, <2>6, <2>8 DEF k
<1>4. CASE n % 2 # 1
  <2>1. x = Piece(k, FALSE) BY <1>4
  <2>2. b = <<>> \/ b[Len(b)].last BY <1>4 DEF Ends
  <2>3. (n + 1) % 2 = 1 /\ (n + 1) \div 2 + 1 = k BY <1>4, Halves
  <2> HIDE DEF k
  <2>4. x \in AnyPiece /\ x.event = k /\ ~x.last BY <1>2, <2>1 DEF Piece, AnyPiece
  <2>5. Follows(b, x) BY <1>2, <2>2, <2>4 DEF Follows
  <2>6. Append(b, x)[Len(Append(b, x))] = x /\ Append(b, x) # <<>> BY <2>4
  <2>7. Ends(Append(b, x), n + 1) BY <2>1, <2>3, <2>6 DEF Ends
  <2> QED BY <2>4, <2>5, <2>7 DEF k
<1> QED BY <1>3, <1>4

\* So does a line break between events, which leaves none open.
LEMMA BreakFits ==
  ASSUME NEW b \in Seq(AnyPiece), NEW n \in Nat, Ends(b, n), n % 2 = 0
  PROVE  /\ KeepAlive \in AnyPiece /\ KeepAlive.event = 0
         /\ Follows(b, KeepAlive) /\ Ends(Append(b, KeepAlive), n)
<1> DEFINE x == KeepAlive
<1>1. x \in AnyPiece /\ x.event = 0 /\ x.last BY DEF KeepAlive, Piece, AnyPiece
<1> HIDE DEF x
<1>2. n % 2 # 1 OBVIOUS
<1>3. b = <<>> \/ b[Len(b)].last BY <1>2 DEF Ends
<1>4. Follows(b, x) BY <1>1, <1>3 DEF Follows
<1>5. Append(b, x)[Len(Append(b, x))] = x BY <1>1
<1>6. Ends(Append(b, x), n) BY <1>1, <1>2, <1>5 DEF Ends
<1> QED BY <1>1, <1>4, <1>6 DEF x

\* A scan leaves at most the text of an event whose break has yet to come.
LEMMA RestOf ==
  ASSUME NEW b \in Seq(AnyPiece), WellCut(b)
  PROVE  Rest(b) = IF b # <<>> /\ ~b[Len(b)].last THEN <<b[Len(b)]>> ELSE <<>>
<1> DEFINE S == {0} \cup {i \in DOMAIN b : b[i].last}
           L == LastBreak(b)
<1>1. Len(b) \in Nat /\ DOMAIN b = 1 .. Len(b) /\ (b = <<>> <=> Len(b) = 0) OBVIOUS
<1>2. S \in SUBSET (0 .. Len(b)) /\ S # {} BY <1>1
<1>3. L \in S /\ \A y \in S : y <= L
  <2> HIDE DEF S
  <2>1. Max(S) \in S /\ \A y \in S : y <= Max(S) BY <1>1, <1>2, MaxOfUpTo
  <2> QED BY <2>1 DEF LastBreak, S
<1>4. /\ L \in 0 .. Len(b) /\ (L # 0 => b[L].last)
      /\ \A i \in DOMAIN b : b[i].last => i <= L
  BY <1>1, <1>3
<1>5. Rest(b) = SubSeq(b, L + 1, Len(b)) BY DEF Rest
<1> HIDE DEF S, L
<1> DEFINE n == Len(b)
<1>8. n \in Nat /\ L \in Nat /\ L <= n BY <1>1, <1>4
<1>6. CASE b = <<>> \/ b[Len(b)].last
  <2>1. L = n
    <3>1. CASE b = <<>> BY <1>1, <1>8, <3>1
    <3>2. CASE b # <<>> /\ b[n].last
      <4>1. n <= L BY <1>1, <1>4, <3>2
      <4> HIDE DEF n
      <4> QED BY <1>8, <4>1
    <3> QED BY <1>6, <3>1, <3>2
  <2>2. SubSeq(b, Len(b) + 1, Len(b)) = <<>> BY <1>1
  <2> QED BY <1>5, <1>6, <2>1, <2>2
<1>7. CASE b # <<>> /\ ~b[Len(b)].last
  <2>1. L < Len(b) BY <1>1, <1>4, <1>7
  <2>2. ~(L + 2 <= Len(b))
    <3> SUFFICES ASSUME L + 2 <= Len(b) PROVE FALSE OBVIOUS
    <3>1. L + 1 \in DOMAIN b /\ L + 2 \in DOMAIN b BY <1>1, <1>4
    <3>2. ~b[L + 1].last /\ ~b[L + 2].last BY <1>1, <1>4, <3>1
    <3>3. b[L + 2] = Piece(b[L + 1].event, TRUE)
      <4>1. (L + 2) - 1 = L + 1 /\ L + 2 > 1 BY <1>1, <1>4
      <4> QED BY <3>1, <3>2, <4>1 DEF WellCut
    <3> QED BY <3>2, <3>3 DEF Piece
  <2>3. L + 1 = n
    <3>1. L < n /\ ~(L + 2 <= n) BY <2>1, <2>2
    <3> HIDE DEF n
    <3> QED BY <1>8, <3>1
  <2>4. SubSeq(b, n, n) = <<b[n]>>
    <3> DEFINE s == SubSeq(b, n, n)
               t == <<b[n]>>
    <3>1. n \in 1 .. n BY <1>1, <1>7, <1>8
    <3>2. Len(s) = 1 /\ s[1] = b[n] /\ s \in Seq(AnyPiece) BY <3>1
    <3>3. Len(t) = 1 /\ t[1] = b[n] /\ t \in Seq(AnyPiece) BY <3>1
    <3> HIDE DEF s, t
    <3>4. Len(s) = Len(t) /\ \A i \in 1 .. Len(s) : s[i] = t[i] BY <3>2, <3>3
    <3>5. s = t BY <3>2, <3>3, <3>4, SeqEqual
    <3> QED BY <3>5 DEF s, t
  <2> QED BY <1>5, <1>7, <2>3, <2>4
<1> QED BY <1>6, <1>7

\* A scan parses the events whose break has come, and no others.
LEMMA ParsedOf ==
  ASSUME NEW b \in Seq(AnyPiece), WellCut(b), NEW n \in Nat, Within(b, n)
  PROVE  /\ Parsed(b) \subseteq 1 .. n
         /\ \A i \in DOMAIN b : b[i].last /\ b[i].event # 0 => b[i].event \in Parsed(b)
<1>1. ASSUME NEW e \in Parsed(b) PROVE e \in 1 .. n
  <2>1. PICK j \in 2 .. Len(b) :
            b[j].last /\ b[j - 1] = Piece(b[j].event, FALSE) /\ e = b[j].event
    BY <1>1 DEF Parsed
  <2>2. j \in DOMAIN b /\ j - 1 \in DOMAIN b /\ b[j] \in AnyPiece OBVIOUS
  <2>3. ~b[j - 1].last /\ b[j - 1].event = e BY <2>1 DEF Piece
  <2>4. e # 0 BY <2>2, <2>3 DEF WellCut
  <2>5. e \in Nat /\ e <= n BY <2>1, <2>2 DEF AnyPiece, Within
  <2> QED BY <2>4, <2>5
<1>2. ASSUME NEW i \in DOMAIN b, b[i].last, b[i].event # 0 PROVE b[i].event \in Parsed(b)
  <2>1. i > 1 /\ b[i - 1] = Piece(b[i].event, FALSE) BY <1>2 DEF WellCut
  <2>2. i \in 2 .. Len(b) BY <2>1
  <2> QED BY <1>2, <2>1, <2>2 DEF Parsed
<1> QED BY <1>1, <1>2

-----------------------------------------------------------------------------
(* One lemma for the initial state and one for each action, or group of them. *)

LEMMA Reads == ReadSize \in Nat /\ ReadSize >= 1 /\ MaxPauses \in Nat
  BY LedgerAssumption

LEMMA UnscannedSeq ==
  ASSUME Types, NEW r \in Requests PROVE Unscanned(r) \in Seq(AnyPiece)
BY DEF Types, Unscanned

\* What is received comes after what was not scanned.
LEMMA Receives ==
  ASSUME NEW p \in Seq(AnyPiece), NEW h \in Seq(AnyPiece), NEW x \in AnyPiece
  PROVE  p \o Append(h, x) = Append(p \o h, x)
<1>1. Append(h, x) = h \o <<x>> /\ Append(p \o h, x) = (p \o h) \o <<x>>
  BY AppendIsConcat
<1>2. <<x>> \in Seq(AnyPiece) OBVIOUS
<1> QED BY <1>1, <1>2, ConcatAssociative

LEMMA InitLedger == Init => Types /\ OneHandler /\ Streams /\ Booked
<1> SUFFICES ASSUME Init PROVE Types /\ OneHandler /\ Streams /\ Booked OBVIOUS
<1>1. Types
  <2>1. stage \in [Requests -> Stages] /\ loop = {r \in Requests : stage[r] = "sent"}
    BY DEF Init, Stages
  <2>2. /\ sent \in [Requests -> Nat] /\ pauses \in [Requests -> Nat]
        /\ closed \in [Requests -> BOOLEAN] /\ silence \in [Requests -> Nat]
        /\ held \in [Requests -> Seq(AnyPiece)] /\ pending \in [Requests -> Seq(AnyPiece)]
    BY DEF Init
  <2>3. tally \in [Requests -> Counts] /\ totals \in Counts BY CountsAreFunctions DEF Init
  <2>4. setting \in [compress : BOOLEAN, translate : BOOLEAN] /\ request \in [Requests -> Kinds]
    BY DEF Init
  <2> QED BY <2>1, <2>2, <2>3, <2>4 DEF Types
<1>2. OneHandler BY DEF Init, OneHandler
<1>3. ASSUME NEW r \in Requests PROVE StreamInv(r)
  <2>1. /\ sent[r] = 0 /\ pauses[r] = 0 /\ silence[r] = 0 /\ held[r] = <<>> /\ pending[r] = <<>>
        /\ tally[r] = Zero /\ stage[r] = "new"
    BY <1>3 DEF Init
  <2>2. Unscanned(r) = <<>> BY <2>1 DEF Unscanned
  <2>3. WellCut(<<>>) /\ Within(<<>>, Len(Events(r))) /\ Ends(<<>>, 0)
    BY DEF WellCut, Within, Ends
  <2>4. AtMostBill(Zero) BY CountsAreFunctions, BillCounts DEF AtMostBill, Fields
  <2>5. Accounted(r)
    <3>1. 1 .. (sent[r] \div 2) = {} BY <2>1
    <3> QED BY <3>1 DEF Accounted
  <2>6. sent[r] <= Pieces(r) /\ pauses[r] <= MaxPauses /\ Len(held[r]) <= ReadSize
        /\ Len(pending[r]) <= 1
    BY <2>1, Reads, EventsSayBill DEF Pieces
  <2> QED BY <2>1, <2>2, <2>3, <2>4, <2>5, <2>6 DEF StreamInv, Streaming
<1>4. Booked
  <2>1. Done = {} BY DEF Init, Done
  <2>2. Billed(Done) = {} /\ Billed(Done \ Torn) = {} BY <2>1 DEF Billed
  <2>3. Cost(Done) = [f \in DOMAIN Bill |-> Bill[f] * 0]
        /\ Cost(Done \ Torn) = [f \in DOMAIN Bill |-> Bill[f] * 0]
    BY <2>2, FS_EmptySet DEF Cost
  <2>4. totals = Zero /\ DOMAIN totals = Fields BY CountsAreFunctions DEF Init
  <2>5. \A f \in Fields : Cost(Done)[f] = 0 /\ Cost(Done \ Torn)[f] = 0
    BY <2>3, BillCounts DEF Fields
  <2>6. BookedInFull /\ BookedAtMost
    BY <2>4, <2>5, CountsAreFunctions DEF BookedInFull, BookedAtMost
  <2> QED BY <2>1, <2>6, FS_EmptySet DEF Booked
<1> QED BY <1>1, <1>2, <1>3, <1>4 DEF Streams

\* A stream that stays as it is keeps its invariant, whether or not it is silent.
LEMMA StreamStays ==
  ASSUME NEW r \in Requests, StreamInv(r), silence[r] \in Nat, pauses[r] \in Nat,
         UNCHANGED <<setting, request, sent[r], pauses[r], held[r], pending[r], tally[r]>>,
         silence'[r] \in {0, silence[r]},
         stage'[r] \in Streaming => request[r].path # "count_tokens"
  PROVE  StreamInv(r)'
<1>1. Events(r)' = Events(r) BY DEF Events, Address, Translated, Usage
<1>2. Unscanned(r)' = Unscanned(r) BY DEF Unscanned
<1>3. Accounted(r)' BY <1>1, <1>2 DEF StreamInv, Accounted
<1> QED BY <1>1, <1>2, <1>3 DEF StreamInv, Pieces

\* One more piece that fits.
LEMMA StreamReceives ==
  ASSUME Types, NEW r \in Requests, StreamInv(r), NEW x \in AnyPiece,
         Follows(Unscanned(r), x), x.event <= Len(Events(r)), Len(held[r]) < ReadSize,
         held' = [held EXCEPT ![r] = Append(@, x)],
         UNCHANGED <<setting, request, stage, pending, tally>>,
         sent'[r] \in Nat, sent'[r] <= Pieces(r), pauses'[r] <= MaxPauses,
         silence'[r] <= pauses'[r],
         Ends(Append(Unscanned(r), x), sent'[r]),
         \A e \in 1 .. (sent'[r] \div 2) : e \in 1 .. (sent[r] \div 2) \/ x = Piece(e, TRUE)
  PROVE  StreamInv(r)'
<1> DEFINE b == Unscanned(r)
<1>1. Events(r)' = Events(r) BY DEF Events, Address, Translated, Usage
<1>2. b \in Seq(AnyPiece) BY UnscannedSeq
<1>3. Unscanned(r)' = Append(b, x)
  <2>1. held'[r] = Append(held[r], x) /\ held[r] \in Seq(AnyPiece) /\ pending[r] \in Seq(AnyPiece)
    BY DEF Types
  <2> QED BY <2>1, Receives, ZenonT(60) DEF Unscanned
<1> HIDE DEF b
<1>4. WellCut(b) /\ Within(b, Len(Events(r))) /\ Follows(b, x) BY DEF StreamInv, b
<1>5. WellCut(Append(b, x)) BY <1>2, <1>4, AppendCut
<1>6. /\ \A i \in DOMAIN b : i \in DOMAIN Append(b, x) /\ Append(b, x)[i] = b[i]
      /\ Len(b) + 1 \in DOMAIN Append(b, x) /\ Append(b, x)[Len(b) + 1] = x
      /\ \A i \in DOMAIN Append(b, x) : i \in DOMAIN b \/ i = Len(b) + 1
  BY <1>2
<1>7. Within(Append(b, x), Len(Events(r))) BY <1>4, <1>6 DEF Within
<1>8. Accounted(r)'
  <2> SUFFICES ASSUME NEW e \in 1 .. (sent'[r] \div 2)
               PROVE  \/ Covers(tally[r], Events(r)[e])
                      \/ \E i \in DOMAIN Append(b, x) : Append(b, x)[i] = Piece(e, TRUE)
    BY <1>1, <1>3 DEF Accounted
  <2>1. CASE x = Piece(e, TRUE) BY <1>6, <2>1
  <2>2. CASE e \in 1 .. (sent[r] \div 2)
    BY <1>6, <2>2 DEF StreamInv, Accounted, b
  <2> QED BY <2>1, <2>2
<1>9. Len(held'[r]) <= ReadSize
  <2>1. held'[r] = Append(held[r], x) /\ held[r] \in Seq(AnyPiece) BY DEF Types
  <2> QED BY <2>1, Reads
<1>10. Ends(Unscanned(r)', sent'[r]) BY <1>3 DEF b
<1> QED
  BY <1>1, <1>3, <1>5, <1>7, <1>8, <1>9, <1>10 DEF StreamInv, Pieces

\* A scan tallies what it drops.
LEMMA StreamScans ==
  ASSUME Types, NEW r \in Requests, StreamInv(r), Scan(r),
         UNCHANGED <<setting, request, sent, pauses>>,
         silence'[r] \in {0, silence[r]},
         stage'[r] \in Streaming => stage[r] \in Streaming
  PROVE  /\ StreamInv(r)'
         /\ pending' \in [Requests -> Seq(AnyPiece)] /\ held' \in [Requests -> Seq(AnyPiece)]
         /\ tally' \in [Requests -> Counts]
         /\ \A q \in Requests : q # r => UNCHANGED <<pending[q], held[q], tally[q]>>
<1> DEFINE b == Unscanned(r)
           n == Len(Events(r))
           us == UsagesIn(r, b)
<1>1. Events(r)' = Events(r) BY DEF Events, Address, Translated, Usage
<1>2. b \in Seq(AnyPiece) BY UnscannedSeq
<1>3. /\ tally' = [tally EXCEPT ![r] = Merged(tally[r], us)]
      /\ pending' = [pending EXCEPT ![r] = Rest(b)]
      /\ held' = [held EXCEPT ![r] = <<>>]
  BY DEF Scan, Tallied, Unscanned
<1>4. WellCut(b) /\ Within(b, n) /\ Ends(b, sent[r]) BY DEF StreamInv
<1>5. n \in 1 .. 4 /\ DOMAIN Events(r) = 1 .. n BY EventsSayBill
<1> HIDE DEF b, n
<1>6. /\ Parsed(b) \subseteq 1 .. n
      /\ \A i \in DOMAIN b : b[i].last /\ b[i].event # 0 => b[i].event \in Parsed(b)
  BY <1>2, <1>4, <1>5, ParsedOf
<1>7. \A u \in us : FieldsOf(u) \in Counts /\ AtMostBill(FieldsOf(u))
  BY <1>5, <1>6, EventsSayBill DEF UsagesIn
<1>8. tally[r] \in Counts /\ AtMostBill(tally[r]) BY DEF Types, StreamInv
<1>9. \A e \in Parsed(b) : Events(r)[e] = None \/ Events(r)[e] \in us BY DEF UsagesIn
<1> HIDE DEF us
<1>10. /\ tally'[r] \in Counts /\ AtMostBill(tally'[r])
       /\ \A f \in Fields : tally'[r][f] >= tally[r][f]
       /\ \A u \in us : Covers(tally'[r], u)
  <2>1. tally'[r] = Merged(tally[r], us) BY <1>3 DEF Types
  <2> QED BY <1>7, <1>8, <2>1, MergedKeepsMax
<1>11. Rest(b) = IF b # <<>> /\ ~b[Len(b)].last THEN <<b[Len(b)]>> ELSE <<>>
  BY <1>2, <1>4, RestOf
<1>12. /\ Rest(b) \in Seq(AnyPiece) /\ Len(Rest(b)) <= 1
       /\ \A i \in DOMAIN Rest(b) : i = 1 /\ Rest(b)[i] = b[Len(b)] /\ Len(b) \in DOMAIN b
                                    /\ ~Rest(b)[i].last
       /\ Rest(b) # <<>> => Len(Rest(b)) = 1
       /\ Rest(b) = <<>> <=> b = <<>> \/ b[Len(b)].last
  <2>1. CASE b # <<>> /\ ~b[Len(b)].last
    <3>1. Len(b) \in DOMAIN b /\ b[Len(b)] \in AnyPiece BY <1>2, <2>1
    <3> QED BY <1>11, <2>1, <3>1
  <2>2. CASE b = <<>> \/ b[Len(b)].last BY <1>11, <2>2
  <2> QED BY <2>1, <2>2
<1>13. Unscanned(r)' = Rest(b)
  <2>1. pending'[r] = Rest(b) /\ held'[r] = <<>> BY <1>3 DEF Types
  <2>2. Rest(b) \o <<>> = Rest(b) BY <1>12
  <2> QED BY <2>1, <2>2 DEF Unscanned
<1>14. WellCut(Rest(b))
  <2>1. \A i \in DOMAIN Rest(b) : i = 1 /\ ~Rest(b)[i].last /\ Rest(b)[i].event # 0
    BY <1>4, <1>12 DEF WellCut
  <2> DEFINE c == Rest(b)
  <2>2. \A i \in DOMAIN c : i = 1 /\ ~c[i].last /\ c[i].event # 0 BY <2>1
  <2> HIDE DEF c
  <2>3. \A i \in DOMAIN c : ~c[i].last => c[i].event # 0 BY <2>2
  <2>4. \A i \in DOMAIN c : c[i].last /\ c[i].event # 0 =>
            i > 1 /\ c[i - 1] = Piece(c[i].event, FALSE)
    BY <2>2
  <2>5. \A i \in DOMAIN c : i > 1 /\ ~c[i - 1].last => c[i] = Piece(c[i - 1].event, TRUE)
    BY <2>2
  <2>6. WellCut(c) BY <2>3, <2>4, <2>5 DEF WellCut
  <2> QED BY <2>6 DEF c
<1>15. Within(Rest(b), n) BY <1>4, <1>12 DEF Within
<1>16. Ends(Rest(b), sent[r]) BY <1>4, <1>12 DEF Ends, Piece
<1>17. Accounted(r)'
  <2> SUFFICES ASSUME NEW e \in 1 .. (sent[r] \div 2) PROVE Covers(tally'[r], Events(r)[e])
    BY <1>1 DEF Accounted
  <2>1. CASE Covers(tally[r], Events(r)[e])
    <3>1. CASE Events(r)[e] = None BY <3>1 DEF Covers
    <3>2. CASE Events(r)[e] # None
      <4>1. e \in DOMAIN Events(r)
        <5>1. sent[r] \in Nat /\ sent[r] <= 2 * n BY DEF Types, StreamInv, Pieces, n
        <5>2. sent[r] \div 2 <= n BY <1>5, <5>1
        <5> QED BY <1>5, <5>1, <5>2, Halves
      <4>2. FieldsOf(Events(r)[e]) \in Counts BY <3>2, <4>1, EventsSayBill
      <4>3. \A f \in Fields : tally'[r][f] \in Nat /\ tally[r][f] \in Nat
                              /\ FieldsOf(Events(r)[e])[f] \in Nat
        BY <1>8, <1>10, <4>2, CountsAreFunctions
      <4> QED BY <1>10, <2>1, <3>2, <4>3 DEF Covers
    <3> QED BY <3>1, <3>2
  <2>2. ASSUME NEW i \in DOMAIN b, b[i] = Piece(e, TRUE) PROVE Covers(tally'[r], Events(r)[e])
    <3>1. b[i].last /\ b[i].event = e /\ e # 0 BY <2>2 DEF Piece
    <3>2. e \in Parsed(b) BY <1>6, <3>1
    <3> QED BY <1>9, <1>10, <3>2 DEF Covers
  <2> QED BY <2>1, <2>2 DEF StreamInv, Accounted, b
<1>18. silence'[r] <= pauses[r] /\ Len(held'[r]) <= ReadSize /\ Len(pending'[r]) <= 1
  BY <1>3, <1>12, Reads DEF StreamInv, Types
<1>19. StreamInv(r)'
  BY <1>1, <1>10, <1>13, <1>14, <1>15, <1>16, <1>17, <1>18 DEF StreamInv, Pieces, n
<1> QED BY <1>3, <1>10, <1>12, <1>19 DEF Types

\* The request r moves on; a handler takes or gives back the loop.
LEMMA Moves ==
  ASSUME Types, OneHandler, NEW r \in Requests, NEW from, NEW to \in Stages, from # to,
         Go(r, from, to),
         loop' = IF to = "sent" THEN {r} ELSE IF from = "sent" THEN {} ELSE loop,
         to = "sent" => loop = {}
  PROVE  /\ stage' \in [Requests -> Stages] /\ stage[r] = from /\ stage'[r] = to
         /\ \A q \in Requests : q # r => stage'[q] = stage[q]
         /\ loop' = {q \in Requests : stage'[q] = "sent"}
         /\ OneHandler'
<1>1. /\ stage' \in [Requests -> Stages] /\ stage[r] = from /\ stage'[r] = to
      /\ \A q \in Requests : q # r => stage'[q] = stage[q]
  BY DEF Types, Go
<1>2. from = "sent" => loop = {r} BY <1>1 DEF Types, OneHandler
<1>3. loop' = {q \in Requests : stage'[q] = "sent"} BY <1>1, <1>2 DEF Types
<1>4. OneHandler' BY DEF OneHandler
<1> QED BY <1>1, <1>3, <1>4

-----------------------------------------------------------------------------
(* What is booked.                                                           *)

LEMMA BillTimes ==
  ASSUME NEW k \in Nat, NEW f \in Fields
  PROVE  /\ Bill[f] \in Nat /\ Bill[f] * k \in Nat
         /\ Bill[f] * (k + 1) = Bill[f] * k + Bill[f]
<1>1. CASE f = "in" BY <1>1, BillCounts
<1>2. CASE f = "cached" BY <1>2, BillCounts
<1>3. CASE f = "out" BY <1>3, BillCounts
<1> QED BY <1>1, <1>2, <1>3 DEF Fields

\* What some of the completed answers cost.
LEMMA CostOf ==
  ASSUME IsFiniteSet(Done), NEW S \in SUBSET Done
  PROVE  /\ IsFiniteSet(Billed(S)) /\ Cardinality(Billed(S)) \in Nat
         /\ \A f \in Fields : Cost(S)[f] = Bill[f] * Cardinality(Billed(S))
<1>1. Billed(S) \in SUBSET Done BY DEF Billed
<1>2. IsFiniteSet(Billed(S)) BY <1>1, FS_Subset
<1> QED BY <1>2, FS_CardinalityType, BillCounts DEF Cost

LEMMA TotalsBetween ==
  ASSUME Types
  PROVE  /\ BookedInFull <=> \A f \in Fields : totals[f] >= Cost(Done \ Torn)[f]
         /\ BookedAtMost <=> \A f \in Fields : totals[f] <= Cost(Done)[f]
BY CountsAreFunctions DEF Types, BookedInFull, BookedAtMost

LEMMA NothingBooked ==
  ASSUME Booked, UNCHANGED <<request, totals>>, Done' = Done, (Done \ Torn)' = Done \ Torn
  PROVE  Booked'
BY DEF Booked, BookedInFull, BookedAtMost, Cost, Billed

\* An answer that is through is booked, in full unless its stream was cut short.
LEMMA AnswerBooked ==
  ASSUME Types, Types', Booked, NEW r \in Requests, stage[r] # "done",
         stage'[r] = "done", \A q \in Requests : q # r => stage'[q] = stage[q],
         UNCHANGED <<setting, request, closed, sent>>,
         NEW c \in Counts, totals' = Plus(totals, c), AtMostBill(c),
         request[r].path # "count_tokens",
         r \notin Torn => \A f \in Fields : c[f] = Bill[f]
  PROVE  Booked'
<1> DEFINE E == Done \ Torn
<1>1. Done' = Done \cup {r} /\ r \notin Done BY DEF Done
<1>2. Torn' = Torn BY DEF Torn, Pieces, Events, Address, Translated, Usage
<1>3. E' = IF r \in Torn THEN E ELSE E \cup {r} BY <1>1, <1>2
<1>4. IsFiniteSet(Done) BY DEF Booked
<1>5. IsFiniteSet(Done') BY <1>1, <1>4, FS_AddElement
<1>6. /\ Billed(Done)' = Billed(Done) \cup {r} /\ r \notin Billed(Done)
      /\ Billed(E)' = (IF r \in Torn THEN Billed(E) ELSE Billed(E) \cup {r}) /\ r \notin Billed(E)
  BY <1>1, <1>3 DEF Billed
<1>7. /\ IsFiniteSet(Billed(Done)) /\ Cardinality(Billed(Done)) \in Nat
      /\ IsFiniteSet(Billed(E)) /\ Cardinality(Billed(E)) \in Nat
      /\ \A f \in Fields : /\ Cost(Done)[f] = Bill[f] * Cardinality(Billed(Done))
                           /\ Cost(E)[f] = Bill[f] * Cardinality(Billed(E))
  BY <1>4, CostOf
<1>8. /\ Cardinality(Billed(Done)') = Cardinality(Billed(Done)) + 1
      /\ Cardinality(Billed(E)') = IF r \in Torn THEN Cardinality(Billed(E))
                                                 ELSE Cardinality(Billed(E)) + 1
  <2>1. Cardinality(Billed(Done) \cup {r}) = Cardinality(Billed(Done)) + 1
    BY <1>6, <1>7, FS_AddElement
  <2>2. Cardinality(Billed(E) \cup {r}) = Cardinality(Billed(E)) + 1
    BY <1>6, <1>7, FS_AddElement
  <2> QED BY <1>6, <2>1, <2>2
<1>9. \A f \in Fields : /\ Cost(Done)'[f] = Bill[f] * Cardinality(Billed(Done)')
                        /\ Cost(E)'[f] = Bill[f] * Cardinality(Billed(E)')
  BY BillCounts DEF Cost
<1>10. \A f \in Fields : /\ totals'[f] = totals[f] + c[f] /\ totals[f] \in Nat /\ c[f] \in Nat
                         /\ totals[f] >= Cost(E)[f] /\ totals[f] <= Cost(Done)[f]
                         /\ c[f] <= Bill[f]
  <2>1. \A f \in Fields : totals'[f] = totals[f] + c[f] /\ totals[f] \in Nat /\ c[f] \in Nat
    <3>1. totals \in Counts BY DEF Types
    <3>2. \A t \in Counts : \A f \in Fields : t[f] \in Nat BY CountsAreFunctions
    <3>3. \A f \in Fields : Plus(totals, c)[f] = totals[f] + c[f] BY <3>1, PlusCounts
    <3> QED BY <3>1, <3>2, <3>3
  <2>2. \A f \in Fields : totals[f] >= Cost(E)[f] /\ totals[f] <= Cost(Done)[f]
    BY TotalsBetween DEF Booked
  <2> QED BY <2>1, <2>2 DEF AtMostBill
<1> HIDE DEF E
<1>11. ASSUME NEW f \in Fields PROVE totals'[f] >= Cost(E)'[f] /\ totals'[f] <= Cost(Done)'[f]
  <2> DEFINE k == Cardinality(Billed(Done))
             m == Cardinality(Billed(E))
  <2>1. /\ k \in Nat /\ m \in Nat
        /\ Cost(Done)[f] = Bill[f] * k /\ Cost(E)[f] = Bill[f] * m
        /\ Cost(Done)'[f] = Bill[f] * (k + 1)
        /\ Cost(E)'[f] = IF r \in Torn THEN Bill[f] * m ELSE Bill[f] * (m + 1)
    BY <1>7, <1>8, <1>9
  <2> HIDE DEF k, m
  <2>2. /\ Bill[f] * (k + 1) = Bill[f] * k + Bill[f] /\ Bill[f] * (m + 1) = Bill[f] * m + Bill[f]
        /\ Bill[f] * k \in Nat /\ Bill[f] * m \in Nat /\ Bill[f] \in Nat
    BY <2>1, BillTimes
  <2>3. totals'[f] <= Cost(Done)'[f] BY <1>10, <2>1, <2>2
  <2>4. totals'[f] >= Cost(E)'[f] BY <1>10, <2>1, <2>2
  <2> QED BY <2>3, <2>4
<1>12. BookedInFull' <=> \A f \in Fields : totals'[f] >= Cost(E)'[f]
  BY CountsAreFunctions DEF Types, BookedInFull, E
<1>13. BookedAtMost' <=> \A f \in Fields : totals'[f] <= Cost(Done)'[f]
  BY CountsAreFunctions DEF Types, BookedAtMost
<1> QED BY <1>5, <1>11, <1>12, <1>13 DEF Booked

\* A token count is through at no cost.
LEMMA CountNotBooked ==
  ASSUME Booked, NEW r \in Requests, stage'[r] = "done",
         \A q \in Requests : q # r => stage'[q] = stage[q],
         UNCHANGED <<setting, request, closed, sent, totals>>,
         request[r].path = "count_tokens", stage[r] # "done"
  PROVE  Booked'
<1>1. Done' = Done \cup {r} BY DEF Done
<1>2. Torn' = Torn BY DEF Torn, Pieces, Events, Address, Translated, Usage
<1>3. Billed(Done)' = Billed(Done) /\ Billed(Done \ Torn)' = Billed(Done \ Torn)
  BY <1>1, <1>2 DEF Billed
<1>4. Cost(Done)' = Cost(Done) /\ Cost(Done \ Torn)' = Cost(Done \ Torn)
  BY <1>3 DEF Cost
<1>5. IsFiniteSet(Done)' BY <1>1, FS_AddElement DEF Booked
<1> QED BY <1>4, <1>5 DEF Booked, BookedInFull, BookedAtMost

-----------------------------------------------------------------------------
(* One lemma for each action, or group of them.                              *)

\* A request that moves between stages neither completed before nor now.
LEMMA NotThrough ==
  ASSUME Booked, NEW r \in Requests, stage[r] # "done", stage'[r] # "done",
         \A q \in Requests : q # r => stage'[q] = stage[q],
         UNCHANGED <<setting, request, totals>>,
         \A q \in Requests : q # r => sent'[q] = sent[q] /\ closed'[q] = closed[q]
  PROVE  Booked'
<1>1. Done' = Done /\ r \notin Done BY DEF Done
<1>2. \A q \in Requests : q # r => (q \in Torn' <=> q \in Torn)
  BY DEF Torn, Pieces, Events, Address, Translated, Usage
<1>3. (Done \ Torn)' = Done \ Torn BY <1>1, <1>2 DEF Done
<1> QED BY <1>1, <1>3, NothingBooked

\* Streams of others stay as they are while one request moves.
LEMMA OthersStay ==
  ASSUME Types, Streams, NEW r \in Requests,
         UNCHANGED <<setting, request>>,
         \A q \in Requests : q # r =>
             /\ UNCHANGED <<sent[q], pauses[q], held[q], pending[q], tally[q], silence[q]>>
             /\ stage'[q] = stage[q]
  PROVE  \A q \in Requests : q # r => StreamInv(q)'
<1> SUFFICES ASSUME NEW q \in Requests, q # r PROVE StreamInv(q)' OBVIOUS
<1>1. StreamInv(q) /\ silence[q] \in Nat /\ pauses[q] \in Nat BY DEF Streams, Types
<1>2. stage'[q] \in Streaming => request[q].path # "count_tokens" BY <1>1 DEF StreamInv
<1> QED BY <1>1, <1>2, StreamStays

LEMMA HandlerStep ==
  ASSUME LedgerInv, NEW r \in Requests, Handle(r) \/ Fails(r) \/ AnswerStream(r)
  PROVE  LedgerInv'
<1> USE DEF LedgerInv
<1>1. PICK from \in Stages, to \in Stages :
          /\ from # to /\ from # "done" /\ to # "done" /\ Go(r, from, to)
          /\ loop' = (IF to = "sent" THEN {r} ELSE IF from = "sent" THEN {} ELSE loop)
          /\ to = "sent" => loop = {}
          /\ to \in Streaming => Address(r) # "count_tokens"
  BY DEF Handle, Fails, AnswerStream, Stages, Streaming
<1>2. UNCHANGED <<setting, request, sent, pauses, closed, held, pending, tally, silence, totals>>
  BY DEF Handle, Fails, AnswerStream, stream
<1>3. /\ stage' \in [Requests -> Stages] /\ stage[r] = from /\ stage'[r] = to
      /\ \A q \in Requests : q # r => stage'[q] = stage[q]
      /\ loop' = {q \in Requests : stage'[q] = "sent"} /\ OneHandler'
  BY <1>1, Moves
<1>4. Types' BY <1>2, <1>3 DEF Types
<1>5. Streams'
  <2>1. \A q \in Requests : q # r => StreamInv(q)' BY <1>2, <1>3, OthersStay
  <2>2. StreamInv(r)'
    <3>1. StreamInv(r) /\ silence[r] \in Nat /\ pauses[r] \in Nat BY DEF Streams, Types
    <3>2. Address(r) # "count_tokens" => request[r].path # "count_tokens"
      BY DEF Address, Translated, IsAnthropicMessagesRequest
    <3>3. stage'[r] \in Streaming => request[r].path # "count_tokens" BY <1>1, <1>3, <3>2
    <3> QED BY <1>2, <3>1, <3>3, StreamStays
  <2> QED BY <2>1, <2>2 DEF Streams
<1>6. Booked' BY <1>1, <1>2, <1>3, NotThrough
<1> QED BY <1>3, <1>4, <1>5, <1>6

\* What a usage in a JSON answer says is the bill, in either protocol.
LEMMA UsageSaysBill == ASSUME NEW r \in Requests PROVE FieldsOf(Usage(r)) = Bill
<1>1. FieldsOf(Bill) = Bill BY FieldsOfAnthropic DEF Bill
<1> QED BY <1>1, FieldsOfOpenAI DEF Usage

LEMMA WholeStep == ASSUME LedgerInv, NEW r \in Requests, AnswerWhole(r) PROVE LedgerInv'
<1> USE DEF LedgerInv
<1>1. UNCHANGED <<setting, request, sent, pauses, closed, held, pending, tally, silence>>
  BY DEF AnswerWhole, stream
<1>2. /\ stage' \in [Requests -> Stages] /\ stage[r] = "sent" /\ stage'[r] = "done"
      /\ \A q \in Requests : q # r => stage'[q] = stage[q]
      /\ loop' = {q \in Requests : stage'[q] = "sent"} /\ OneHandler'
  BY Moves DEF AnswerWhole, Stages
<1>3. totals' = IF Address(r) = "count_tokens" THEN totals ELSE Plus(totals, Bill)
  BY UsageSaysBill DEF AnswerWhole
<1>4. totals' \in Counts BY <1>3, PlusCounts, BillCounts DEF Types
<1>5. Types' BY <1>1, <1>2, <1>4 DEF Types
<1>6. Streams'
  <2>1. \A q \in Requests : q # r => StreamInv(q)' BY <1>1, <1>2, OthersStay
  <2>2. StreamInv(r)'
    <3>1. StreamInv(r) /\ silence[r] \in Nat /\ pauses[r] \in Nat BY DEF Streams, Types
    <3>2. stage'[r] \notin Streaming BY <1>2 DEF Streaming
    <3> QED BY <1>1, <3>1, <3>2, StreamStays
  <2> QED BY <2>1, <2>2 DEF Streams
<1>7. Booked'
  <2>1. CASE Address(r) = "count_tokens"
    <3>1. request[r].path = "count_tokens" BY <2>1 DEF Address
    <3> QED BY <1>1, <1>2, <1>3, <2>1, <3>1, CountNotBooked
  <2>2. CASE Address(r) # "count_tokens"
    <3>1. request[r].path # "count_tokens"
      BY <2>2 DEF Address, Translated, IsAnthropicMessagesRequest
    <3>2. Bill \in Counts /\ AtMostBill(Bill) BY BillCounts DEF AtMostBill, Fields
    <3> QED BY <1>1, <1>2, <1>3, <1>5, <2>2, <3>1, <3>2, AnswerBooked
  <2> QED BY <2>1, <2>2
<1> QED BY <1>2, <1>5, <1>6, <1>7

\* A piece of an event: its text opens it, its break closes it.
LEMMA SendStep == ASSUME LedgerInv, NEW r \in Requests, Send(r) PROVE LedgerInv'
<1> USE DEF LedgerInv
<1> DEFINE n == sent[r]
           x == Piece(n \div 2 + 1, n % 2 = 1)
           b == Unscanned(r)
<1>1. /\ UNCHANGED <<setting, request, stage, loop, pauses, closed, pending, tally, silence, totals>>
      /\ sent' = [sent EXCEPT ![r] = n + 1] /\ held' = [held EXCEPT ![r] = Append(@, x)]
      /\ stage[r] = "stream" /\ Len(held[r]) < ReadSize /\ n < Pieces(r)
  BY DEF Send, Reading
<1>2. n \in Nat /\ held[r] \in Seq(AnyPiece) /\ StreamInv(r) BY DEF Types, Streams
<1>3. b \in Seq(AnyPiece) /\ Ends(b, n) BY <1>2, UnscannedSeq DEF StreamInv
<1>4. /\ x \in AnyPiece /\ x.event = n \div 2 + 1
      /\ Follows(b, x) /\ Ends(Append(b, x), n + 1)
  <2> HIDE DEF b
  <2> QED BY <1>2, <1>3, NextPiece
<1>5. Types'
  <2>1. sent' \in [Requests -> Nat] BY <1>1, <1>2 DEF Types
  <2>2. held' \in [Requests -> Seq(AnyPiece)]
    <3>1. Append(held[r], x) \in Seq(AnyPiece) BY <1>2, <1>4
    <3> QED BY <1>1, <3>1 DEF Types
  <2> QED BY <1>1, <2>1, <2>2 DEF Types
<1>6. x.event <= Len(Events(r))
  <2>1. n < 2 * Len(Events(r)) /\ Len(Events(r)) \in 1 .. 4 BY <1>1, EventsSayBill DEF Pieces
  <2>2. n \div 2 + 1 <= Len(Events(r)) BY <1>2, <2>1
  <2> QED BY <1>4, <2>2
<1>7. \A e \in 1 .. ((n + 1) \div 2) : e \in 1 .. (n \div 2) \/ x = Piece(e, TRUE)
  <2>1. CASE n % 2 = 1
    <3>1. (n + 1) \div 2 = n \div 2 + 1 /\ n \div 2 \in Nat BY <1>2, <2>1, Halves
    <3>2. x = Piece(n \div 2 + 1, TRUE) BY <2>1
    <3>3. \A e \in 1 .. (n \div 2 + 1) : e \in 1 .. (n \div 2) \/ e = n \div 2 + 1 BY <3>1
    <3> QED BY <3>1, <3>2, <3>3
  <2>2. CASE n % 2 # 1 BY <1>2, <2>2, Halves
  <2> QED BY <2>1, <2>2
<1>8. sent'[r] = n + 1 /\ n + 1 <= Pieces(r)
  <2>1. Pieces(r) \in Nat BY EventsSayBill DEF Pieces
  <2> QED BY <1>1, <1>2, <2>1 DEF Types
<1>9. StreamInv(r)'
  <2>1. pauses'[r] <= MaxPauses /\ silence'[r] <= pauses'[r] BY <1>1, <1>2 DEF StreamInv
  <2> HIDE DEF x, b
  <2>2. Follows(Unscanned(r), x) /\ Ends(Append(Unscanned(r), x), sent'[r])
    BY <1>4, <1>8 DEF b
  <2>3. \A e \in 1 .. (sent'[r] \div 2) : e \in 1 .. (sent[r] \div 2) \/ x = Piece(e, TRUE)
    BY <1>7, <1>8
  <2> HIDE DEF n
  <2>4. sent'[r] \in Nat /\ sent'[r] <= Pieces(r) BY <1>2, <1>8
  <2> QED BY <1>1, <1>2, <1>4, <1>6, <2>1, <2>2, <2>3, <2>4, StreamReceives
<1>10. Streams'
  <2>1. \A q \in Requests : q # r =>
            UNCHANGED <<sent[q], pauses[q], held[q], pending[q], tally[q], silence[q]>>
    BY <1>1 DEF Types
  <2> QED BY <1>1, <1>9, <2>1, OthersStay DEF Streams
<1>11. OneHandler' BY <1>1 DEF OneHandler
<1>12. Booked'
  <2>1. stage[r] # "done" /\ \A q \in Requests : q # r => sent'[q] = sent[q] BY <1>1 DEF Types
  <2> QED BY <1>1, <2>1, NotThrough
<1> QED BY <1>5, <1>10, <1>11, <1>12

LEMMA PauseStep == ASSUME LedgerInv, NEW r \in Requests, Pause(r) PROVE LedgerInv'
<1> USE DEF LedgerInv
<1> DEFINE b == Unscanned(r)
<1>1. /\ UNCHANGED <<setting, request, stage, loop, sent, closed, pending, tally, totals>>
      /\ held' = [held EXCEPT ![r] = Append(@, KeepAlive)]
      /\ pauses' = [pauses EXCEPT ![r] = @ + 1] /\ silence' = [silence EXCEPT ![r] = @ + 1]
      /\ stage[r] = "stream" /\ Len(held[r]) < ReadSize /\ pauses[r] < MaxPauses
      /\ sent[r] % 2 = 0
  BY DEF Pause, Reading
<1>2. /\ held[r] \in Seq(AnyPiece) /\ StreamInv(r)
      /\ sent[r] \in Nat /\ pauses[r] \in Nat /\ silence[r] \in Nat
  BY DEF Types, Streams
<1>3. b \in Seq(AnyPiece) /\ Ends(b, sent[r]) BY <1>2, UnscannedSeq DEF StreamInv
<1>4. /\ KeepAlive \in AnyPiece /\ KeepAlive.event = 0
      /\ Follows(b, KeepAlive) /\ Ends(Append(b, KeepAlive), sent[r])
  <2> HIDE DEF b
  <2> QED BY <1>1, <1>2, <1>3, BreakFits
<1>5. Types'
  <2>1. Append(held[r], KeepAlive) \in Seq(AnyPiece) BY <1>2, <1>4
  <2>2. held' \in [Requests -> Seq(AnyPiece)] BY <1>1, <2>1 DEF Types
  <2>3. pauses' \in [Requests -> Nat] /\ silence' \in [Requests -> Nat] BY <1>1, <1>2 DEF Types
  <2> QED BY <1>1, <2>2, <2>3 DEF Types
<1>6. StreamInv(r)'
  <2>1. pauses'[r] = pauses[r] + 1 /\ silence'[r] = silence[r] + 1 /\ sent'[r] = sent[r]
    BY <1>1 DEF Types
  <2>2. pauses'[r] <= MaxPauses /\ silence'[r] <= pauses'[r]
    BY <1>1, <1>2, <2>1, Reads, SMTT(30) DEF StreamInv
  <2>3. KeepAlive.event <= Len(Events(r)) BY <1>4, EventsSayBill
  <2>4. sent'[r] \in Nat /\ sent'[r] <= Pieces(r) BY <1>2, <2>1 DEF StreamInv
  <2> QED BY <1>1, <1>2, <1>4, <2>1, <2>2, <2>3, <2>4, StreamReceives
<1>7. Streams'
  <2>1. \A q \in Requests : q # r =>
            UNCHANGED <<sent[q], pauses[q], held[q], pending[q], tally[q], silence[q]>>
    BY <1>1 DEF Types
  <2> QED BY <1>1, <1>6, <2>1, OthersStay DEF Streams
<1>8. OneHandler' BY <1>1 DEF OneHandler
<1>9. Booked' BY <1>1, NotThrough
<1> QED BY <1>5, <1>7, <1>8, <1>9

LEMMA CloseStep == ASSUME LedgerInv, NEW r \in Requests, Close(r) PROVE LedgerInv'
<1> USE DEF LedgerInv
<1>1. /\ UNCHANGED <<setting, request, stage, loop, sent, pauses, held, pending, tally, silence,
                     totals>>
      /\ closed' = [closed EXCEPT ![r] = TRUE] /\ stage[r] = "stream"
  BY DEF Close, Reading
<1>2. Types' BY <1>1 DEF Types
<1>3. Streams'
  <2> SUFFICES ASSUME NEW q \in Requests PROVE StreamInv(q)' BY DEF Streams
  <2>1. StreamInv(q) /\ silence[q] \in Nat /\ pauses[q] \in Nat BY DEF Streams, Types
  <2>2. stage'[q] \in Streaming => request[q].path # "count_tokens" BY <1>1, <2>1 DEF StreamInv
  <2> QED BY <1>1, <2>1, <2>2, StreamStays
<1>4. OneHandler' BY <1>1 DEF OneHandler
<1>5. Booked'
  <2>1. \A q \in Requests : q # r => closed'[q] = closed[q] BY <1>1 DEF Types
  <2> QED BY <1>1, <2>1, NotThrough
<1> QED BY <1>2, <1>3, <1>4, <1>5

\* A stream that breaks off, or whose client is given what there is.
LEMMA MovesOnStep ==
  ASSUME LedgerInv, NEW r \in Requests, Breaks(r) \/ Relay(r) \/ Emit(r) PROVE LedgerInv'
<1> USE DEF LedgerInv
<1>1. PICK from \in Streaming, to \in {"yielded", "emitted", "broken"} :
          from # to /\ Go(r, from, to)
  BY DEF Breaks, Relay, Emit, Streaming
<1>2. /\ UNCHANGED <<setting, request, loop, sent, pauses, closed, held, pending, tally, totals>>
      /\ silence' = silence \/ silence' = [silence EXCEPT ![r] = 0]
  BY DEF Breaks, Relay, Emit, stream
<1>3. from # "sent" /\ from # "done" /\ to # "sent" /\ to # "done" /\ to \in Stages
  BY DEF Streaming, Stages
<1>4. /\ stage' \in [Requests -> Stages] /\ stage[r] = from /\ stage'[r] = to
      /\ \A q \in Requests : q # r => stage'[q] = stage[q]
      /\ loop' = {q \in Requests : stage'[q] = "sent"} /\ OneHandler'
  BY <1>1, <1>2, <1>3, Moves
<1>5. /\ silence' \in [Requests -> Nat] /\ silence'[r] \in {0, silence[r]}
      /\ \A q \in Requests : q # r => silence'[q] = silence[q]
  <2>1. CASE silence' = silence BY <2>1 DEF Types
  <2>2. CASE silence' = [silence EXCEPT ![r] = 0] BY <2>2 DEF Types
  <2> QED BY <1>2, <2>1, <2>2
<1>6. Types' BY <1>2, <1>4, <1>5 DEF Types
<1>7. Streams'
  <2>1. \A q \in Requests : q # r => StreamInv(q)' BY <1>2, <1>4, <1>5, OthersStay
  <2>2. StreamInv(r) /\ silence[r] \in Nat /\ pauses[r] \in Nat BY DEF Streams, Types
  <2>3. request[r].path # "count_tokens" BY <1>4, <2>2 DEF StreamInv
  <2>4. StreamInv(r)' BY <1>2, <1>5, <2>2, <2>3, StreamStays
  <2> QED BY <2>1, <2>4 DEF Streams
<1>8. Booked' BY <1>2, <1>3, <1>4, NotThrough
<1> QED BY <1>4, <1>6, <1>7, <1>8

LEMMA ScanStep ==
  ASSUME LedgerInv, NEW r \in Requests, Resume(r) \/ Keep(r) PROVE LedgerInv'
<1> USE DEF LedgerInv
<1>1. /\ Scan(r) /\ UNCHANGED <<setting, request, loop, sent, pauses, closed, totals>>
      /\ silence' = silence \/ \E s \in {0, silence[r]} : silence' = [silence EXCEPT ![r] = s]
  BY DEF Resume, Keep
<1>2. /\ stage' \in [Requests -> Stages] /\ stage[r] \in Streaming /\ stage'[r] = "stream"
      /\ \A q \in Requests : q # r => stage'[q] = stage[q]
      /\ loop' = {q \in Requests : stage'[q] = "sent"} /\ OneHandler'
  <2>1. CASE Resume(r)
    <3>1. Go(r, "yielded", "stream") /\ loop' = loop BY <2>1 DEF Resume
    <3> QED BY <3>1, Moves DEF Stages, Streaming
  <2>2. CASE Keep(r) BY <2>2 DEF Keep, Types, OneHandler, Streaming
  <2> QED BY <2>1, <2>2
<1>3. /\ silence' \in [Requests -> Nat] /\ silence'[r] \in {0, silence[r]}
      /\ \A q \in Requests : q # r => silence'[q] = silence[q]
  BY <1>1 DEF Types
<1>4. StreamInv(r) BY DEF Streams
<1>5. /\ StreamInv(r)'
      /\ pending' \in [Requests -> Seq(AnyPiece)] /\ held' \in [Requests -> Seq(AnyPiece)]
      /\ tally' \in [Requests -> Counts]
      /\ \A q \in Requests : q # r => UNCHANGED <<pending[q], held[q], tally[q]>>
  BY <1>1, <1>2, <1>3, <1>4, StreamScans
<1>6. Types' BY <1>1, <1>2, <1>3, <1>5 DEF Types
<1>7. Streams'
  <2>1. \A q \in Requests : q # r => StreamInv(q)' BY <1>1, <1>2, <1>3, <1>5, OthersStay
  <2> QED BY <1>5, <2>1 DEF Streams
<1>8. Booked'
  <2>1. stage[r] # "done" /\ stage'[r] # "done" BY <1>2 DEF Streaming
  <2> QED BY <1>1, <1>2, <2>1, NotThrough
<1> QED BY <1>2, <1>6, <1>7, <1>8

\* A stream that came in full is tallied in full at its end.
LEMMA AllTallied ==
  ASSUME Types, NEW r \in Requests, StreamInv(r), held[r] = <<>>, sent[r] = Pieces(r)
  PROVE  \A f \in Fields : tally[r][f] = Bill[f]
<1> DEFINE n == Len(Events(r))
           b == Unscanned(r)
<1>1. n \in 1 .. 4 /\ DOMAIN Events(r) = 1 .. n BY EventsSayBill
<1>2. b = pending[r] /\ b \in Seq(AnyPiece) /\ Len(b) <= 1
  <2>1. pending[r] \in Seq(AnyPiece) /\ Len(pending[r]) <= 1 BY DEF Types, StreamInv
  <2> QED BY <2>1 DEF Unscanned
<1>3. sent[r] \div 2 = n
  <2>1. sent[r] = 2 * n BY DEF Pieces
  <2> HIDE DEF n
  <2> QED BY <1>1, <2>1
<1>4. ASSUME NEW e \in 1 .. n PROVE Covers(tally[r], Events(r)[e])
  <2> SUFFICES ASSUME NEW i \in DOMAIN b, b[i] = Piece(e, TRUE) PROVE FALSE
    BY <1>3 DEF StreamInv, Accounted
  <2>1. b[i].last /\ b[i].event # 0 BY DEF Piece
  <2>2. i > 1 BY <2>1 DEF StreamInv, WellCut
  <2> QED BY <1>2, <2>2
<1>5. \A f \in Fields : tally[r][f] \in Nat /\ Bill[f] \in Nat /\ tally[r][f] <= Bill[f]
  <2>1. tally[r] \in Counts /\ AtMostBill(tally[r]) BY DEF Types, StreamInv
  <2> QED BY <2>1, CountsAreFunctions, BillCounts DEF AtMostBill
<1>6. ASSUME NEW f \in Fields PROVE tally[r][f] >= Bill[f]
  <2>1. PICK e \in DOMAIN Events(r) :
            Events(r)[e] # None /\ FieldsOf(Events(r)[e])[f] = Bill[f]
    BY EventsSayBill
  <2>2. Covers(tally[r], Events(r)[e]) BY <1>1, <1>4, <2>1
  <2> QED BY <2>1, <2>2 DEF Covers
<1> QED BY <1>5, <1>6

LEMMA BookStep == ASSUME LedgerInv, NEW r \in Requests, Book(r) PROVE LedgerInv'
<1> USE DEF LedgerInv
<1>1. /\ UNCHANGED <<setting, request, loop, sent, pauses, closed, held, pending, tally, silence>>
      /\ totals' = Plus(totals, tally[r]) /\ held[r] = <<>> /\ closed[r]
  BY DEF Book, AtEnd, stream
<1>2. /\ stage' \in [Requests -> Stages] /\ stage[r] \in Streaming /\ stage'[r] = "done"
      /\ \A q \in Requests : q # r => stage'[q] = stage[q]
      /\ loop' = {q \in Requests : stage'[q] = "sent"} /\ OneHandler'
  <2>1. PICK from \in {"emitted", "stream"} : Go(r, from, "done") BY DEF Book
  <2>2. from # "sent" /\ from # "done" /\ "done" \in Stages /\ from \in Streaming
    BY DEF Stages, Streaming
  <2> QED BY <1>1, <2>1, <2>2, Moves
<1>3. StreamInv(r) /\ silence[r] \in Nat /\ pauses[r] \in Nat /\ tally[r] \in Counts
  BY DEF Streams, Types
<1>4. totals' \in Counts BY <1>1, <1>3, PlusCounts DEF Types
<1>5. Types' BY <1>1, <1>2, <1>4 DEF Types
<1>6. Streams'
  <2>1. \A q \in Requests : q # r => StreamInv(q)' BY <1>1, <1>2, OthersStay
  <2>2. stage'[r] \notin Streaming BY <1>2 DEF Streaming
  <2>3. StreamInv(r)' BY <1>1, <1>3, <2>2, StreamStays
  <2> QED BY <2>1, <2>3 DEF Streams
<1>7. r \notin Torn => \A f \in Fields : tally[r][f] = Bill[f]
  <2>1. Pieces(r) \in Nat /\ sent[r] \in Nat /\ sent[r] <= Pieces(r)
    BY <1>3, EventsSayBill DEF Pieces, Types, StreamInv
  <2>2. r \notin Torn => sent[r] = Pieces(r) BY <1>1, <2>1 DEF Torn
  <2> QED BY <1>1, <1>3, <2>2, AllTallied
<1>8. request[r].path # "count_tokens" /\ AtMostBill(tally[r]) BY <1>2, <1>3 DEF StreamInv
<1>9. stage[r] # "done" BY <1>2 DEF Streaming
<1>10. Booked' BY <1>1, <1>2, <1>3, <1>5, <1>7, <1>8, <1>9, AnswerBooked
<1> QED BY <1>2, <1>5, <1>6, <1>10

-----------------------------------------------------------------------------
(* The theorems.                                                             *)

\* The invariant holds in every state: what a stream has sent and was not tallied is
\* still in its buffer, cut as it was sent, and the totals lie between what the answers
\* that came in full cost and what all that are through do (_relay_event_stream,
\* _translate_event_stream, _accumulate_token_usage).
THEOREM LedgerInvariance == Spec => []LedgerInv
<1>1. Init => LedgerInv BY InitLedger DEF LedgerInv
<1>2. LedgerInv /\ [Next]_vars => LedgerInv'
  <2> SUFFICES ASSUME LedgerInv, [Next]_vars PROVE LedgerInv' OBVIOUS
  <2>1. CASE UNCHANGED vars
    <3>1. UNCHANGED <<setting, request, stage, loop, sent, pauses, closed, held, pending, tally,
                      silence, totals>>
      BY <2>1 DEF vars, stream
    <3>2. Types' /\ OneHandler' BY <3>1 DEF LedgerInv, Types, OneHandler
    <3>3. Streams'
      <4> SUFFICES ASSUME NEW q \in Requests PROVE StreamInv(q)' BY DEF Streams
      <4>1. StreamInv(q) /\ silence[q] \in Nat /\ pauses[q] \in Nat
        BY DEF LedgerInv, Streams, Types
      <4>2. stage'[q] \in Streaming => request[q].path # "count_tokens"
        BY <3>1, <4>1 DEF StreamInv
      <4> QED BY <3>1, <4>1, <4>2, StreamStays
    <3>4. Done' = Done /\ (Done \ Torn)' = Done \ Torn
      BY <3>1 DEF Done, Torn, Pieces, Events, Address, Translated, Usage
    <3>5. Booked' BY <3>1, <3>4, NothingBooked DEF LedgerInv
    <3> QED BY <3>2, <3>3, <3>5 DEF LedgerInv
  <2>2. ASSUME NEW r \in Requests, Handle(r) \/ Fails(r) \/ AnswerStream(r) PROVE LedgerInv'
    BY <2>2, HandlerStep
  <2>3. ASSUME NEW r \in Requests, AnswerWhole(r) PROVE LedgerInv' BY <2>3, WholeStep
  <2>4. ASSUME NEW r \in Requests, Send(r) PROVE LedgerInv' BY <2>4, SendStep
  <2>5. ASSUME NEW r \in Requests, Pause(r) PROVE LedgerInv' BY <2>5, PauseStep
  <2>6. ASSUME NEW r \in Requests, Close(r) PROVE LedgerInv' BY <2>6, CloseStep
  <2>7. ASSUME NEW r \in Requests, Breaks(r) \/ Relay(r) \/ Emit(r) PROVE LedgerInv'
    BY <2>7, MovesOnStep
  <2>8. ASSUME NEW r \in Requests, Resume(r) \/ Keep(r) PROVE LedgerInv' BY <2>8, ScanStep
  <2>9. ASSUME NEW r \in Requests, Book(r) PROVE LedgerInv' BY <2>9, BookStep
  <2> QED BY <2>1, <2>2, <2>3, <2>4, <2>5, <2>6, <2>7, <2>8, <2>9 DEF Next
<1> QED BY <1>1, <1>2, PTL DEF Spec

\* Every variable has its type, and one handler at most blocks the event loop
\* (proxy_passthrough), whatever the requests do.
THEOREM LedgerTypes == Spec => []TypeOK
<1>1. ASSUME LedgerInv PROVE TypeOK
  <2> USE <1>1 DEF LedgerInv
  <2>1. stage \in [Requests -> Over \cup {"new", "sent", "stream", "yielded", "emitted"}]
    <3>1. Stages = Over \cup {"new", "sent", "stream", "yielded", "emitted"} BY DEF Stages, Over
    <3> QED BY <3>1 DEF Types
  <2>2. Cardinality(loop) <= 1
    <3>1. CASE loop = {} BY <3>1, FS_EmptySet
    <3>2. ASSUME NEW r \in Requests, loop = {r} PROVE Cardinality(loop) <= 1
      <4>1. Cardinality({r}) = 1 BY FS_Singleton
      <4> QED BY <3>2, <4>1
    <3> QED BY <3>1, <3>2 DEF OneHandler
  <2>3. ASSUME NEW r \in Requests
        PROVE  /\ sent[r] \in 0 .. Pieces(r) /\ pauses[r] \in 0 .. MaxPauses /\ closed[r] \in BOOLEAN
               /\ Len(held[r]) <= ReadSize /\ Len(pending[r]) <= 1
               /\ tally[r] \in Counts /\ silence[r] \in 0 .. MaxPauses
    <3>1. /\ sent[r] \in Nat /\ pauses[r] \in Nat /\ silence[r] \in Nat /\ closed[r] \in BOOLEAN
          /\ tally[r] \in Counts /\ StreamInv(r)
      BY DEF Types, Streams
    <3>2. Pieces(r) \in Nat BY EventsSayBill DEF Pieces
    <3> QED BY <3>1, <3>2, Reads DEF StreamInv
  <2> QED BY <2>1, <2>2, <2>3 DEF Types, TypeOK
<1> QED BY <1>1, LedgerInvariance, PTL

\* What is answered in full is booked in full, for any requests at once, in either
\* protocol, whichever way the answer takes, however the reads cut its stream and
\* whatever keep-alives it has (_scan_sse_chunk_for_usage, _accumulate_token_usage).
THEOREM AnswersBookedInFull == Spec => []BookedInFull
<1>1. LedgerInv => BookedInFull BY DEF LedgerInv, Booked
<1> QED BY <1>1, LedgerInvariance, PTL

\* No more is booked than what the completed answers cost: no count that a stream
\* repeats is added twice, and a token count, an error or a stream that broke off
\* adds nothing (_accumulate_token_usage).
THEOREM NothingElseBooked == Spec => []BookedAtMost
<1>1. LedgerInv => BookedAtMost BY DEF LedgerInv, Booked
<1> QED BY <1>1, LedgerInvariance, PTL

=============================================================================
