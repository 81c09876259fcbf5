------------------------- MODULE ServiceBudgetProofs -------------------------
(***************************************************************************)
(* Proofs about ServiceBudget, for every offer, every timeout and every    *)
(* set of rounds a miner may ask for.                                      *)
(***************************************************************************)
EXTENDS ServiceBudget, FiniteSetTheorems, WellFoundedInduction, TLAPS

-----------------------------------------------------------------------------
(* The least and the greatest of two numbers.                                *)

LEMMA MinOfTwo ==
  ASSUME NEW a \in Int, NEW b \in Int
  PROVE  Min({a, b}) \in {a, b} /\ Min({a, b}) <= a /\ Min({a, b}) <= b
<1>1. \E x \in {a, b} : \A y \in {a, b} : x <= y OBVIOUS
<1>2. Min({a, b}) \in {a, b} /\ \A y \in {a, b} : Min({a, b}) <= y BY <1>1 DEF Min
<1> QED BY <1>2

LEMMA MaxOfTwo ==
  ASSUME NEW a \in Int, NEW b \in Int
  PROVE  Max({a, b}) \in {a, b} /\ Max({a, b}) >= a /\ Max({a, b}) >= b
<1>1. \E x \in {a, b} : \A y \in {a, b} : x >= y OBVIOUS
<1>2. Max({a, b}) \in {a, b} /\ \A y \in {a, b} : Max({a, b}) >= y BY <1>1 DEF Max
<1> QED BY <1>2

-----------------------------------------------------------------------------
(* What a round may cost.                                                    *)

LEMMA Limits ==
  /\ MaxRounds \in Nat /\ MaxCalls \in Nat /\ MaxCallsPerRound \in Nat
  /\ Deadline \in Nat /\ Grace \in Nat /\ Margin \in Nat /\ Horizon \in Nat
  /\ MinWait \in Nat \ {0} /\ MinCall \in Nat \ {0} /\ HttpTimeout \in Nat \ {0}
  BY LimitsAssumption

LEMMA RoomBounds ==
  ASSUME TypeOK, calls <= MaxCalls, started # None
  PROVE  Room \in Nat /\ calls + Room <= MaxCalls /\ (Room # 0 => now - started < Deadline)
<1>0. /\ calls \in Nat /\ rounds \in Nat /\ now \in Nat /\ started \in Nat
      /\ MaxCalls \in Nat /\ MaxCallsPerRound \in Nat
  BY Limits DEF TypeOK
<1> USE <1>0, Limits
<1>1. CASE rounds + 1 > MaxRounds \/ Deadline - (now - started) <= MinCall
  <2>1. Room = 0 BY <1>1 DEF Room
  <2> QED BY <2>1
<1>2. CASE ~(rounds + 1 > MaxRounds \/ Deadline - (now - started) <= MinCall)
  <2>1. Room = Min({MaxCallsPerRound, MaxCalls - calls}) BY <1>2 DEF Room
  <2>2. MaxCallsPerRound \in Int /\ MaxCalls - calls \in Int OBVIOUS
  <2>3. Room \in {MaxCallsPerRound, MaxCalls - calls} /\ Room <= MaxCalls - calls
    BY <2>1, <2>2, MinOfTwo
  <2> QED BY <1>2, <2>3
<1> QED BY <1>1, <1>2

\* A set of positive numbers up to n has a greatest element.
LEMMA HasGreatest ==
  ASSUME NEW n \in Nat, NEW S \in SUBSET (1 .. n), S # {}
  PROVE  \E x \in S : \A y \in S : y <= x
<1> DEFINE U == {u \in Nat : \A y \in S : y <= u}
<1>1. n \in U OBVIOUS
<1>2. PICK u \in U : \A w \in U : u <= w
  <2> DEFINE R == OpToRel(<, Nat)
  <2>1. U \subseteq Nat /\ U # {} BY <1>1
  <2> HIDE DEF U
  <2>2. IsWellFoundedOn(R, Nat) BY NatLessThanWellFounded
  <2> HIDE DEF R
  <2>3. PICK u \in U : \A w \in U : ~(<<w, u>> \in R) BY <2>1, <2>2, WFMin
  <2>4. \A w \in U : ~(w < u) BY <2>1, <2>3 DEF R, OpToRel
  <2> QED BY <2>1, <2>4
<1>3. u \in S
  <2> SUFFICES ASSUME u \notin S PROVE FALSE OBVIOUS
  <2>1. \A y \in S : y <= u - 1 OBVIOUS
  <2>2. u # 0
    <3>1. PICK y \in S : TRUE OBVIOUS
    <3> QED BY <3>1, <2>1
  <2>3. u - 1 \in U BY <2>1, <2>2
  <2> QED BY <1>2, <2>3
<1> QED BY <1>2, <1>3

\* The calls of a round that are run are no more than there is room for.
LEMMA RunnableBound ==
  ASSUME NEW b \in Seq(BOOLEAN), Room \in Nat
  PROVE  /\ Cardinality(Runnable(b)) \in 0 .. Room
         /\ Runnable(b) # {} => Room # 0
<1> DEFINE Upto(i) == {j \in DOMAIN b : j <= i /\ b[j]}
<1>1. DOMAIN b = 1 .. Len(b) /\ Len(b) \in Nat OBVIOUS
<1>2. IsFiniteSet(DOMAIN b) BY <1>1, FS_Interval
<1>3. \A T \in SUBSET DOMAIN b : IsFiniteSet(T) /\ Cardinality(T) \in Nat
  BY <1>2, FS_Subset, FS_CardinalityType
<1>4. CASE Runnable(b) = {}
  BY <1>4, FS_EmptySet
<1>5. CASE Runnable(b) # {}
  <2>1. Runnable(b) \in SUBSET (1 .. Len(b)) BY <1>1 DEF Runnable
  <2>2. PICK x \in Runnable(b) : \A y \in Runnable(b) : y <= x BY <1>1, <1>5, <2>1, HasGreatest
  <2>3. Cardinality(Upto(x)) <= Room /\ x \in Upto(x) BY <1>1, <2>1, <2>2 DEF Runnable
  <2>4. Runnable(b) \in SUBSET Upto(x) BY <2>2 DEF Runnable
  <2>5. Upto(x) \in SUBSET DOMAIN b OBVIOUS
  <2>6. IsFiniteSet(Upto(x)) /\ Cardinality(Upto(x)) \in Nat BY <1>3, <2>5
  <2>7. Cardinality(Upto(x)) # 0 BY <2>3, <2>6, FS_EmptySet
  <2> HIDE DEF Upto
  <2>8. Cardinality(Runnable(b)) <= Cardinality(Upto(x)) BY <2>4, <2>6, FS_Subset
  <2>9. Cardinality(Runnable(b)) \in Nat BY <1>1, <1>3, <2>1
  <2> QED BY <2>3, <2>6, <2>7, <2>8, <2>9
<1> QED BY <1>4, <1>5

-----------------------------------------------------------------------------
(* The inductive invariant.                                                  *)

\* The longest a turn may take, but for what is late.
Bound == 2 * HttpTimeout + Deadline + Grace

\* When the request that is out was sent at the latest, and when the socket has
\* waited long enough for it.
Reach == IF started = None THEN HttpTimeout ELSE Bound

\* Where the clock stands while the proxy waits for, or is about to do, what.
Clocks ==
    /\ calls <= MaxCalls
    /\ started # None => started <= HttpTimeout + late /\ started <= now
    /\ proxy \in {"round", "admitted", "upstream", "resume"} => started # None
    /\ proxy = "posted" =>
          now <= until /\ now <= Reach + late /\ (events = <<>> => until <= Reach + late)
    /\ proxy = "round" => now <= Bound + late
    /\ proxy = "upstream" => now <= until
    /\ proxy \in {"admitted", "upstream"} => now <= started + Deadline + late
    /\ proxy = "resume" /\ job.calls # <<>> => now <= started + Deadline + late
    /\ proxy \in {"admitted", "upstream", "resume"} =>
          now <= HttpTimeout + Deadline + Grace + late

\* The round the proxy is at is the one the miner is parked in.
Serving ==
    /\ miner = "parked" /\ events = <<>> /\ pending = job.round
    /\ Deadline + Margin <= waitUntil

\* With no proxy at work the miner computes, or has put what the proxy takes next.
Waiting ==
    \/ miner = "computing" /\ events = <<>>
    \/ miner = "ended" /\ events = <<MinerDone>>
    \/ /\ miner = "parked" /\ Deadline + Margin <= waitUntil
       /\ pending # 0 /\ \E b \in Batches : events = <<Round(pending, b)>>

\* Until the first moment a wait may expire at, proxy and miner are in step, and
\* calls that are out come back before it.
InStep ==
    now < Deadline + Margin =>
        /\ proxy = "posted" => Waiting
        /\ proxy \in {"round", "admitted", "upstream", "resume"} => Serving

Served ==
    /\ InStep
    /\ why = "rejected" => proxy = "failed"
    /\ started = None => gaveUp \in {"none", "posted"}
    /\ MarginSuffices

BudgetInv == TypeOK /\ Clocks /\ Served

-----------------------------------------------------------------------------
(* Types.                                                                    *)

Job == [round : Nat, calls : Batches \cup {<<>>}]

LEMMA HeadTail ==
  ASSUME NEW S, NEW s \in Seq(S), s # <<>>
  PROVE  Head(s) \in S /\ Tail(s) \in Seq(S)
  OBVIOUS

LEMMA TypeFacts ==
  ASSUME TypeOK
  PROVE  /\ now \in Nat /\ late \in Nat /\ waitUntil \in Nat /\ until \in Nat /\ patience \in Nat
         /\ asked \in Nat /\ pending \in Nat /\ rounds \in Nat /\ calls \in Nat
         /\ started \in Nat \/ started = None
         /\ events \in Seq(Job) /\ job \in Job
         /\ events # <<>> => Head(events) \in Job /\ Tail(events) \in Seq(Job)
<1>1. /\ now \in Nat /\ late \in Nat /\ waitUntil \in Nat /\ until \in Nat /\ patience \in Nat
      /\ asked \in Nat /\ pending \in Nat /\ rounds \in Nat /\ calls \in Nat
      /\ started \in Nat \/ started = None
  BY DEF TypeOK
<1>2. events \in Seq(Job) /\ job \in Job BY DEF TypeOK, Job
<1> QED BY <1>1, <1>2, HeadTail

LEMMA JobCalls == ASSUME TypeOK PROVE job.calls \in Seq(BOOLEAN)
<1>1. job.calls \in Batches \cup {<<>>} BY TypeFacts DEF Job
<1>2. \A b \in Batches : b \in Seq(BOOLEAN) BY LimitsAssumption
<1>3. <<>> \in Seq(BOOLEAN) OBVIOUS
<1> QED BY <1>1, <1>2, <1>3, Zenon

LEMMA InitInv == Init => BudgetInv
<1> SUFFICES ASSUME Init PROVE BudgetInv OBVIOUS
<1> USE Limits DEF Init
<1>1. TypeOK BY DEF TypeOK, MinerDone, Round, None
<1>2. Clocks BY DEF Clocks, None, Reach
<1>3. Served BY DEF Served, InStep, Waiting, MarginSuffices, None
<1> QED BY <1>1, <1>2, <1>3 DEF BudgetInv

\* What the miner does keeps the types.
LEMMA MinerType == ASSUME TypeOK, ~Over, Miner PROVE TypeOK'
<1>0. /\ Deadline + Margin \in Nat /\ now + MinWait \in Nat BY Limits, TypeFacts
<1>1. ASSUME NEW b \in Batches, Ask(b) PROVE TypeOK'
  <2>0. Max({Deadline + Margin, now + MinWait}) \in {Deadline + Margin, now + MinWait}
    BY <1>0, MaxOfTwo
  <2>1. waitUntil' \in Nat BY <1>0, <1>1, <2>0 DEF Ask
  <2>2. Round(asked + 1, b) \in Job BY TypeFacts DEF Round, Job
  <2>3. events' \in Seq(Job) BY <1>1, <2>2, TypeFacts DEF Ask
  <2>4. asked' \in Nat /\ pending' \in Nat BY <1>1, TypeFacts DEF Ask
  <2> QED BY <1>1, <2>1, <2>3, <2>4 DEF Ask, TypeOK, Job, proxyVars
<1>2. CASE WaitExpires
  <2>1. gaveUp' \in {"none", "posted", "round", "admitted", "upstream", "resume"}
    BY <1>2 DEF WaitExpires, TypeOK, Over
  <2>2. pending' \in Nat BY <1>2 DEF WaitExpires
  <2> QED BY <1>2, <2>1, <2>2 DEF WaitExpires, TypeOK, proxyVars
<1>3. CASE MinerEnds
  <2>0. MinerDone \in Job BY DEF MinerDone, Round, Job
  <2>1. events' \in Seq(Job) BY <1>3, <2>0, TypeFacts DEF MinerEnds
  <2> QED BY <1>3, <2>1 DEF MinerEnds, TypeOK, Job, proxyVars
<1> QED BY <1>1, <1>2, <1>3 DEF Miner

\* What a call is given is at least MinCall, and what is left of the deadline.
LEMMA Given ==
  ASSUME TypeOK, Clocks, SendCalls
  PROVE  patience' \in Nat /\ until' \in Nat /\ now <= until'
<1>0. now \in Nat /\ started \in Nat /\ Deadline \in Nat /\ MinCall \in Nat
  BY TypeFacts, Limits DEF SendCalls, Clocks
<1> DEFINE a == Deadline - (now - started)
<1>1. a \in Int BY <1>0
<1>2. patience' = Max({a, MinCall}) BY DEF SendCalls
<1> HIDE DEF a
<1>3. patience' \in {a, MinCall} /\ patience' >= MinCall BY <1>0, <1>1, <1>2, MaxOfTwo
<1>4. patience' \in Nat BY <1>0, <1>1, <1>3
<1> DEFINE p == patience'
<1>5. p \in Nat /\ until' = now + p BY <1>4 DEF SendCalls
<1> HIDE DEF p
<1>6. until' \in Nat /\ now <= until' BY <1>0, <1>5
<1> QED BY <1>4, <1>6

\* What the proxy does keeps the types.
LEMMA ProxyType == ASSUME TypeOK, Clocks, Proxy PROVE TypeOK'
<1>1. CASE Answered
  <2>1. Head(events) \in Job /\ Tail(events) \in Seq(Job) BY <1>1, TypeFacts DEF Answered
  <2>2. started' \in Nat \cup {None} BY <1>1 DEF Answered, StartBudget, TypeOK
  <2>3. proxy' \in {"done", "round"} BY <1>1 DEF Answered
  <2> QED BY <1>1, <2>1, <2>2, <2>3 DEF Answered, TypeOK, Job
<1>2. CASE HttpTimesOut BY <1>2 DEF HttpTimesOut, Fail, TypeOK, minerVars
<1>3. CASE StopAsking BY <1>3 DEF StopAsking, Fail, TypeOK, minerVars
<1>4. CASE RunRound
  <2>1. job.calls \in Seq(BOOLEAN) /\ job.round \in Nat
    BY JobCalls, TypeFacts DEF Job
  <2>2. started # None /\ started \in Nat BY <1>4, TypeFacts DEF RunRound, Clocks
  <2>3. Room \in Nat BY <2>2, RoomBounds DEF Clocks
  <2>4. Cardinality(Runnable(job.calls)) \in Nat BY <2>1, <2>3, RunnableBound
  <2>5. calls' \in Nat /\ rounds' \in Nat BY <1>4, <2>4, TypeFacts DEF RunRound
  <2>6. job' \in Job BY <1>4, TypeFacts DEF RunRound, Job
  <2>7. proxy' \in {"resume", "admitted"} BY <1>4 DEF RunRound
  <2> QED BY <1>4, <2>5, <2>6, <2>7 DEF RunRound, TypeOK, Job, minerVars
<1>5. CASE CallsReturn BY <1>5 DEF CallsReturn, TypeOK, minerVars
<1>6. CASE CallBreaksOff BY <1>6 DEF CallBreaksOff, Fail, TypeOK, minerVars
<1>7. CASE Resume
  <2>1. until' \in Nat /\ patience' \in Nat
    <3>1. \/ until' = until /\ patience' = patience
          \/ until' = now + HttpTimeout /\ patience' = HttpTimeout
      BY ONLY <1>7 DEF Resume
    <3>2. until \in Nat /\ patience \in Nat /\ now \in Nat BY TypeFacts
    <3> QED BY ONLY <3>1, <3>2, Limits
  <2>2. pending' \in Nat BY <1>7, TypeFacts DEF Resume
  <2> QED BY <1>7, <2>1, <2>2 DEF Resume, Fail, TypeOK
<1>8. CASE SendCalls
  <2>1. patience' \in Nat /\ until' \in Nat BY <1>8, Given
  <2> QED BY <1>8, <2>1 DEF SendCalls, TypeOK, minerVars
<1>9. CASE Trickle
  <2>1. until' \in Nat BY <1>9, TypeFacts DEF Trickle
  <2> QED BY <1>9, <2>1 DEF Trickle, TypeOK, minerVars
<1> QED BY <1>1, <1>2, <1>3, <1>4, <1>5, <1>6, <1>7, <1>8, <1>9 DEF Proxy

LEMMA TickType == ASSUME TypeOK, Tick PROVE TypeOK'
<1>1. now' \in Nat /\ late' \in Nat BY TypeFacts DEF Tick
<1> QED BY <1>1, ZenonT(60) DEF Tick, TypeOK, minerVars, proxyVars

-----------------------------------------------------------------------------
(* Clocks.                                                                   *)

\* The miner does not move the clock; what it puts only takes a case away.
LEMMA MinerClocks == ASSUME TypeOK, Clocks, Miner PROVE Clocks'
<1>1. UNCHANGED <<now, late, proxyVars>> /\ (events' = <<>> => events = <<>>)
  <2>1. events \in Seq(Job) BY TypeFacts
  <2>2. \A e : Append(events, e) # <<>> BY <2>1
  <2> QED BY <2>2 DEF Miner, Ask, WaitExpires, MinerEnds
<1> QED BY <1>1 DEF Clocks, Reach, proxyVars

\* Time goes on only in a request, with calls on their way to workers or upstream,
\* and not past the end of a wait of the socket.
LEMMA TickClocks == ASSUME TypeOK, Clocks, ~Over, Tick PROVE Clocks'
<1>0. /\ now \in Nat /\ until \in Nat /\ late \in Nat /\ (started \in Nat \/ started = None)
      /\ Reach \in Nat
  BY TypeFacts, Limits DEF Reach, Bound
<1>1. /\ now' = now + 1 /\ UNCHANGED <<minerVars, proxyVars>>
      /\ late' = IF Late THEN late + 1 ELSE late
  BY DEF Tick
<1>2. proxy \in {"posted", "admitted", "upstream"} /\ (proxy # "admitted" => now # until)
  BY DEF Tick, Urgent, Over, TypeOK
<1> DEFINE l == late'
<1>3. l \in Nat /\ l >= late /\ (Late => l = late + 1) BY <1>0, <1>1
<1> HIDE DEF l
<1>a. /\ calls <= MaxCalls
      /\ started # None => started <= HttpTimeout + l /\ started <= now + 1
  <2>1. calls <= MaxCalls /\ (started # None => started <= HttpTimeout + late /\ started <= now)
    BY DEF Clocks
  <2> QED BY ONLY <1>0, <1>3, <2>1, Limits DEF None
<1>4. CASE proxy = "posted"
  <2>1. now + 1 <= until BY <1>0, <1>2, <1>4 DEF Clocks
  <2>2. now + 1 <= Reach + l
    <3>1. CASE events = <<>>
      <4>1. until <= Reach + late BY <1>4, <3>1 DEF Clocks
      <4> QED BY ONLY <1>0, <1>3, <2>1, <4>1
    <3>2. CASE events # <<>>
      <4>1. l = late + 1 BY <1>3, <1>4, <3>2 DEF Late
      <4> QED BY <1>0, <1>4, <4>1 DEF Clocks
    <3> QED BY <3>1, <3>2
  <2>3. UNCHANGED <<started, events, until, proxy, calls, job>> /\ Reach' = Reach
    BY <1>1 DEF minerVars, proxyVars, Reach
  <2>4. events = <<>> => until <= Reach + l
    <3> SUFFICES ASSUME events = <<>> PROVE until <= Reach + l OBVIOUS
    <3>1. until <= Reach + late BY <1>4 DEF Clocks
    <3> QED BY ONLY <1>0, <1>3, <3>1
  <2> QED BY <1>1, <1>4, <1>a, <2>1, <2>2, <2>3, <2>4 DEF Clocks, l
<1>5. CASE proxy \in {"admitted", "upstream"}
  <2>0. started \in Nat /\ started <= HttpTimeout + late BY <1>0, <1>5 DEF Clocks
  <2>1. now + 1 <= started + Deadline + l
    <3>1. CASE Late
      <4>1. l = late + 1 BY <1>3, <3>1
      <4> QED BY <1>0, <1>5, <2>0, <4>1, Limits DEF Clocks
    <3>2. CASE ~Late
      <4>1. now < started + Deadline BY <1>0, <1>5, <2>0, <3>2, Limits DEF Late
      <4> QED BY ONLY <1>0, <1>3, <2>0, <4>1, Limits
    <3> QED BY <3>1, <3>2
  <2>2. now + 1 <= HttpTimeout + Deadline + Grace + l
    <3>1. CASE Late
      <4>1. l = late + 1 BY <1>3, <3>1
      <4> QED BY <1>0, <1>5, <4>1, Limits DEF Clocks
    <3>2. CASE ~Late
      <4>1. now < started + Deadline BY <1>0, <1>5, <2>0, <3>2, Limits DEF Late
      <4> QED BY ONLY <1>0, <1>3, <2>0, <4>1, Limits
    <3> QED BY <3>1, <3>2
  <2>3. proxy = "upstream" => now + 1 <= until BY <1>0, <1>2 DEF Clocks
  <2>4. UNCHANGED <<started, events, until, proxy, calls, job>> BY <1>1 DEF minerVars, proxyVars
  <2> QED BY <1>1, <1>5, <1>a, <2>0, <2>1, <2>2, <2>3, <2>4 DEF Clocks, l
<1> QED BY <1>2, <1>4, <1>5

LEMMA ProxyClocks == ASSUME TypeOK, Clocks, Proxy PROVE Clocks'
<1>0. /\ now \in Nat /\ late \in Nat /\ until \in Nat /\ patience \in Nat
      /\ calls \in Nat /\ rounds \in Nat /\ (started \in Nat \/ started = None)
  BY TypeFacts
<1> USE <1>0, Limits
<1>1. CASE Answered
  <2>0. proxy = "posted" BY <1>1 DEF Answered
  <2>1. now <= Reach + late BY <2>0 DEF Clocks
  <2>2. started' = (IF started = None THEN now ELSE started) BY <1>1 DEF Answered, StartBudget
  <2>3. started' <= HttpTimeout + late /\ started' <= now /\ started' # None
    <3>1. CASE started = None BY ONLY <1>0, Limits, <2>1, <2>2, <3>1 DEF None, Reach
    <3>2. CASE started # None BY <2>2, <3>2 DEF Clocks
    <3> QED BY <3>1, <3>2
  <2>4. now <= Bound + late BY <2>1 DEF Reach, Bound
  <2> QED BY <1>1, <2>3, <2>4 DEF Answered, Clocks
<1>2. CASE HttpTimesOut BY <1>2 DEF HttpTimesOut, Fail, Clocks, minerVars
<1>3. CASE StopAsking BY <1>3 DEF StopAsking, Fail, Clocks, minerVars
<1>4. CASE RunRound
  <2>1. job.calls \in Seq(BOOLEAN) BY JobCalls
  <2>2. started \in Nat /\ started <= now /\ started <= HttpTimeout + late /\ started # None
    BY <1>4 DEF RunRound, Clocks
  <2>3. Room \in Nat /\ calls + Room <= MaxCalls /\ (Room # 0 => now - started < Deadline)
    BY <2>2, RoomBounds DEF Clocks
  <2> DEFINE c == Cardinality(Runnable(job.calls))
  <2>4. c \in 0 .. Room /\ (Runnable(job.calls) # {} => Room # 0)
    BY <2>1, <2>3, RunnableBound
  <2>5. calls' <= MaxCalls
    <3>1. calls' = calls + c BY <1>4 DEF RunRound
    <3> HIDE DEF c
    <3> QED BY <2>3, <2>4, <3>1
  <2>6. now - started <= Deadline + Grace
    <3>1. ~(now - started > Deadline + Grace) BY ONLY <1>4 DEF RunRound, Spent
    <3> QED BY ONLY <1>0, Limits, <2>2, <3>1
  <2>7. now' = now /\ late' = late /\ started' = started BY <1>4 DEF RunRound, minerVars
  <2>8. \/ proxy' = "resume" /\ job'.calls = <<>>
        \/ proxy' = "admitted" /\ now - started < Deadline
    <3>1. job \in Job BY TypeFacts
    <3> QED BY <1>4, <2>3, <2>4, <3>1 DEF RunRound, Job
  <2>9. now <= HttpTimeout + Deadline + Grace + late BY <2>2, <2>6
  <2>10. proxy' = "admitted" => now <= started + Deadline + late BY <2>2, <2>8
  <2> QED BY <2>2, <2>5, <2>7, <2>8, <2>9, <2>10 DEF Clocks
<1>5. CASE CallsReturn BY <1>5 DEF CallsReturn, Clocks, minerVars
<1>6. CASE CallBreaksOff BY <1>6 DEF CallBreaksOff, Fail, Clocks, minerVars
<1>7. CASE Resume
  <2>1. started \in Nat /\ now <= HttpTimeout + Deadline + Grace + late
    BY <1>7 DEF Resume, Clocks
  <2>2. now + HttpTimeout <= Bound + late BY <2>1 DEF Bound
  <2>3. Reach = Bound /\ Reach' = Bound BY <1>7, <2>1 DEF Resume, Reach, None
  <2>4. \/ proxy' = "posted" /\ until' = now + HttpTimeout
        \/ proxy' = "failed"
    BY <1>7 DEF Resume, Fail
  <2>5. now' = now /\ late' = late /\ calls' = calls /\ started' = started BY <1>7 DEF Resume
  <2>6. /\ calls <= MaxCalls /\ started # None
        /\ started <= HttpTimeout + late /\ started <= now
    BY <1>7 DEF Clocks, Resume
  <2>7. now <= Bound + late BY <2>1 DEF Bound
  <2>8. CASE proxy' = "posted" /\ until' = now + HttpTimeout
    <3>1. now <= until' /\ until' <= Reach' + late BY <2>2, <2>3, <2>8
    <3> QED BY <2>3, <2>5, <2>6, <2>7, <2>8, <3>1 DEF Clocks
  <2>9. CASE proxy' = "failed" BY <2>5, <2>6, <2>9 DEF Clocks
  <2> QED BY <2>4, <2>8, <2>9
<1>8. CASE SendCalls
  <2>1. now <= until' BY <1>8, Given
  <2> QED BY <1>8, <2>1 DEF SendCalls, Clocks, minerVars
<1>9. CASE Trickle
  <2>1. now <= until' BY <1>9 DEF Trickle
  <2>2. Reach' = Reach BY <1>9 DEF Trickle, Reach
  <2> QED BY <1>9, <2>1, <2>2 DEF Trickle, Clocks, minerVars
<1> QED BY <1>1, <1>2, <1>3, <1>4, <1>5, <1>6, <1>7, <1>8, <1>9 DEF Proxy

-----------------------------------------------------------------------------
(* The miner's wait.                                                         *)

\* A wait that is on outlasts deadline and margin, whenever it began.
LEMMA MinerServed == ASSUME TypeOK, Clocks, Served, ~Over, Miner PROVE Served'
<1>0. /\ Deadline + Margin \in Nat /\ now + MinWait \in Nat /\ now \in Nat /\ waitUntil \in Nat
      /\ late \in Nat /\ (started \in Nat \/ started = None)
  BY Limits, TypeFacts
<1>1. UNCHANGED <<now, late, proxyVars>> BY DEF Miner, Ask, WaitExpires, MinerEnds
<1>2. UNCHANGED <<now, late, proxy, job, started, why>> BY <1>1 DEF proxyVars
<1>3. proxy \in {"posted", "round", "admitted", "upstream", "resume"} BY DEF TypeOK, Over
<1>4. InStep /\ MarginSuffices /\ (why = "rejected" => proxy = "failed") BY DEF Served
<1>5. ASSUME NEW b \in Batches, Ask(b) PROVE Served'
  <2>0. gaveUp' = gaveUp /\ miner = "computing" BY <1>5 DEF Ask
  <2>1. MarginSuffices' BY <1>2, <1>4, <2>0 DEF MarginSuffices
  <2> SUFFICES ASSUME now < Deadline + Margin PROVE proxy = "posted" /\ Waiting'
    BY <1>2, <1>3, <1>4, <2>0, <2>1 DEF Served, InStep
  <2>2. proxy = "posted" /\ events = <<>> BY <1>3, <1>4, <2>0 DEF InStep, Serving, Waiting
  <2> DEFINE a == Deadline + Margin
             c == now + MinWait
  <2>a. a \in Int /\ c \in Int BY <1>0
  <2>b. waitUntil' = Max({a, c}) BY <1>5 DEF Ask
  <2> HIDE DEF a, c
  <2>c. waitUntil' >= a /\ waitUntil' \in {a, c} BY <2>a, <2>b, MaxOfTwo
  <2> USE DEF a, c
  <2>3. Deadline + Margin <= waitUntil' BY <1>0, <2>c
  <2>4. pending' = asked + 1 /\ pending' # 0 BY <1>5, TypeFacts DEF Ask
  <2>5. events' = <<Round(pending', b)>> BY <1>5, <2>2, <2>4 DEF Ask
  <2>6. Waiting' BY <1>5, <2>3, <2>4, <2>5 DEF Waiting, Ask
  <2> QED BY <2>2, <2>6
<1>6. CASE WaitExpires
  <2>1. miner = "parked" /\ now >= waitUntil /\ gaveUp' = proxy BY <1>6 DEF WaitExpires
  <2>2. ~(now < Deadline + Margin) BY <1>0, <1>3, <1>4, <2>1 DEF InStep, Serving, Waiting
  <2>3. InStep' BY <1>2, <2>2 DEF InStep
  <2>4. MarginSuffices'
    <3> SUFFICES ASSUME started # None, started + late < Margin
                 PROVE  proxy \notin {"admitted", "upstream"} /\ (why = "rejected" => job.calls = <<>>)
      BY <1>2, <2>1 DEF MarginSuffices
    <3>1. proxy \in {"admitted", "upstream"} => now <= started + Deadline + late BY DEF Clocks
    <3>2. why # "rejected" BY <1>3, <1>4
    <3> QED BY <1>0, <2>2, <3>1, <3>2, Limits
  <2>5. started = None => gaveUp' \in {"none", "posted"} BY <1>3, <2>1 DEF Clocks
  <2> QED BY <1>2, <1>4, <2>3, <2>4, <2>5 DEF Served
<1>7. CASE MinerEnds
  <2>1. gaveUp' = gaveUp /\ miner = "computing" BY <1>7 DEF MinerEnds
  <2>2. MarginSuffices' BY <1>2, <1>4, <2>1 DEF MarginSuffices
  <2> SUFFICES ASSUME now < Deadline + Margin PROVE proxy = "posted" /\ Waiting'
    BY <1>2, <1>3, <1>4, <2>1, <2>2 DEF Served, InStep
  <2>3. proxy = "posted" /\ events = <<>> BY <1>3, <1>4, <2>1 DEF InStep, Serving, Waiting
  <2> QED BY <1>7, <2>3 DEF MinerEnds, Waiting
<1> QED BY <1>5, <1>6, <1>7 DEF Miner

LEMMA TickServed == ASSUME TypeOK, Served, Tick PROVE Served'
<1>0. now \in Nat /\ late \in Nat /\ (started \in Nat \/ started = None) BY TypeFacts
<1>1. now' = now + 1 /\ late' >= late /\ UNCHANGED <<minerVars, proxyVars>> BY <1>0 DEF Tick
<1>2. late' \in Nat BY <1>0 DEF Tick
<1>3. UNCHANGED <<miner, waitUntil, asked, pending, events, gaveUp, proxy, job, started, why>>
  BY <1>1 DEF minerVars, proxyVars
<1>4. InStep'
  <2> SUFFICES ASSUME now + 1 < Deadline + Margin PROVE InStep' BY <1>1 DEF InStep
  <2>1. now < Deadline + Margin BY <1>0, Limits
  <2>2. Waiting' = Waiting /\ Serving' = Serving BY <1>3 DEF Waiting, Serving
  <2> QED BY <1>3, <2>1, <2>2 DEF InStep, Served
<1>5. MarginSuffices'
  <2> SUFFICES ASSUME started # None, started + late' < Margin PROVE MarginSuffices'
    BY <1>3 DEF MarginSuffices
  <2>1. started + late < Margin BY <1>0, <1>1, <1>2, Limits
  <2> QED BY <1>3, <2>1 DEF MarginSuffices, Served
<1> QED BY <1>3, <1>4, <1>5 DEF Served

LEMMA ProxyServed == ASSUME TypeOK, Clocks, Served, Proxy PROVE Served'
<1>0. /\ now \in Nat /\ late \in Nat /\ (started \in Nat \/ started = None)
      /\ now' = now /\ late' = late /\ gaveUp' = gaveUp
  BY TypeFacts DEF Proxy, Answered, Trickle, HttpTimesOut, StopAsking, RunRound, SendCalls,
                   CallsReturn, CallBreaksOff, Resume, Fail, minerVars
<1>1. /\ InStep /\ MarginSuffices /\ (why = "rejected" => proxy = "failed")
      /\ started = None => gaveUp \in {"none", "posted"}
  BY DEF Served
<1>2. CASE Answered
  <2>0. /\ proxy = "posted" /\ events # <<>> /\ events' = Tail(events) /\ job' = Head(events)
        /\ why' = why
    BY <1>2 DEF Answered
  <2>1. MarginSuffices'
    <3> SUFFICES ASSUME started' # None, started' + late < Margin
                 PROVE  gaveUp \notin {"admitted", "upstream"} /\ why # "rejected"
      BY <1>0, <2>0 DEF MarginSuffices
    <3>1. CASE started = None
      <4>1. started' = now BY <1>2, <3>1 DEF Answered, StartBudget
      <4> QED BY <1>0, <1>1, <2>0, <3>1, <4>1 DEF Clocks, Served
    <3>2. CASE started # None
      <4>1. started' = started BY <1>2, <3>2 DEF Answered, StartBudget
      <4> QED BY <1>1, <2>0, <3>2, <4>1 DEF MarginSuffices
    <3> QED BY <3>1, <3>2
  <2> SUFFICES ASSUME now < Deadline + Margin
               PROVE  proxy' = "done" \/ (proxy' = "round" /\ Serving')
    BY <1>0, <1>1, <1>2, <2>0, <2>1 DEF Served, InStep, Answered, StartBudget
  <2>2. Waiting BY <1>1, <2>0 DEF InStep
  <2>3. CASE miner = "ended" /\ events = <<MinerDone>>
    BY <2>0, <1>2, <2>3 DEF Answered
  <2>4. ASSUME miner = "parked", pending # 0, NEW b \in Batches, events = <<Round(pending, b)>>,
               Deadline + Margin <= waitUntil
        PROVE  proxy' = "round" /\ Serving'
    <3>1. job' = Round(pending, b) /\ events' = <<>> BY <2>0, <2>4
    <3>2. job'.round = pending /\ job' # MinerDone BY <2>4, <3>1 DEF Round, MinerDone
    <3>3. proxy' = "round" BY <1>2, <2>0, <3>2 DEF Answered
    <3>4. Serving' BY <1>2, <2>4, <3>1, <3>2 DEF Serving, Answered
    <3> QED BY <3>3, <3>4
  <2> QED BY <2>0, <2>2, <2>3, <2>4 DEF Waiting
<1>3. CASE Trickle
  BY <1>1, <1>3 DEF Trickle, Served, InStep, Waiting, Serving, MarginSuffices, minerVars
<1>4. CASE HttpTimesOut
  BY <1>1, <1>4 DEF HttpTimesOut, Fail, Served, InStep, MarginSuffices, minerVars
<1>5. CASE StopAsking
  BY <1>1, <1>5 DEF StopAsking, Fail, Served, InStep, MarginSuffices, minerVars
<1>6. CASE RunRound
  <2>0. proxy = "round" /\ why' = why /\ why # "rejected" /\ started' = started
    BY <1>1, <1>6 DEF RunRound
  <2>1. MarginSuffices' BY <1>0, <1>1, <2>0 DEF MarginSuffices
  <2>2. job'.round = job.round BY <1>6, TypeFacts DEF RunRound, Job
  <2>3. proxy' \in {"resume", "admitted"} BY <1>6 DEF RunRound
  <2>4. Serving => Serving' BY <1>6, <2>2 DEF RunRound, Serving, minerVars
  <2> QED BY <1>0, <1>1, <2>0, <2>1, <2>3, <2>4 DEF Served, InStep
<1>7. CASE SendCalls
  <2>1. Serving => Serving' BY <1>7 DEF SendCalls, Serving, minerVars
  <2> QED BY <1>1, <1>7, <2>1 DEF SendCalls, Served, InStep, MarginSuffices, minerVars
<1>8. CASE CallsReturn
  <2>1. Serving => Serving' BY <1>8 DEF CallsReturn, Serving, minerVars
  <2> QED BY <1>1, <1>8, <2>1 DEF CallsReturn, Served, InStep, MarginSuffices, minerVars
<1>9. CASE CallBreaksOff
  BY <1>1, <1>9 DEF CallBreaksOff, Fail, Served, InStep, MarginSuffices, minerVars
<1>10. CASE Resume
  <2>0. proxy = "resume" /\ job' = job /\ started' = started /\ why # "rejected"
    BY <1>1, <1>10 DEF Resume
  <2>1. CASE pending = job.round
    <3>1. proxy' = "posted" /\ why' = why /\ miner' = "computing" /\ events' = events
      BY <1>10, <2>1 DEF Resume
    <3>2. MarginSuffices' BY <1>0, <1>1, <2>0, <3>1 DEF MarginSuffices
    <3>3. now < Deadline + Margin => Waiting'
      BY <1>1, <2>0, <3>1 DEF InStep, Serving, Waiting
    <3> QED BY <1>0, <1>1, <2>0, <3>1, <3>2, <3>3 DEF Served, InStep
  <2>2. CASE pending # job.round
    <3>1. proxy' = "failed" /\ why' = "rejected" BY <1>10, <2>2 DEF Resume, Fail
    <3>2. ~(now < Deadline + Margin) BY <1>1, <2>0, <2>2 DEF InStep, Serving
    <3>3. MarginSuffices'
      <4> SUFFICES ASSUME started # None, started + late < Margin
                   PROVE  gaveUp \notin {"admitted", "upstream"} /\ job.calls = <<>>
        BY <1>0, <2>0 DEF MarginSuffices
      <4>1. job.calls # <<>> => now <= started + Deadline + late BY <2>0 DEF Clocks
      <4> QED BY <1>0, <1>1, <3>2, <4>1, Limits DEF MarginSuffices
    <3> QED BY <1>0, <1>1, <2>0, <3>1, <3>3 DEF Served, InStep
  <2> QED BY <2>1, <2>2
<1> QED BY <1>2, <1>3, <1>4, <1>5, <1>6, <1>7, <1>8, <1>9, <1>10 DEF Proxy

-----------------------------------------------------------------------------
(* Theorems.                                                                 *)

LEMMA StepInv == ASSUME BudgetInv, [Next]_vars PROVE BudgetInv'
<1> USE DEF BudgetInv
<1>1. CASE ~Over /\ Proxy BY <1>1, ProxyType, ProxyClocks, ProxyServed
<1>2. CASE ~Over /\ Miner BY <1>2, MinerType, MinerClocks, MinerServed
<1>3. CASE ~Over /\ Tick BY <1>3, TickType, TickClocks, TickServed
<1>4. CASE UNCHANGED vars
  <2>1. UNCHANGED <<now, late, minerVars, proxyVars>> BY <1>4 DEF vars
  <2>2. TypeOK' BY <2>1, ZenonT(60) DEF TypeOK, minerVars, proxyVars
  <2>3. Clocks' BY <2>1 DEF Clocks, Reach, minerVars, proxyVars
  <2>4. Served'
    BY <2>1 DEF Served, InStep, Serving, Waiting, MarginSuffices, minerVars, proxyVars
  <2> QED BY <2>2, <2>3, <2>4
<1> QED BY <1>1, <1>2, <1>3, <1>4 DEF Next

\* The clocks of the budget, of the requests and of the miner's wait stand to one
\* another as BudgetInv says, whatever comes late or in parts (proxy.py
\* _ServiceBudget and _execute_jev_call, services.py _round_trip).
THEOREM BudgetInvariance == Spec => []BudgetInv
<1>1. BudgetInv /\ [Next]_vars => BudgetInv' BY StepInv
<1> QED BY InitInv, <1>1, PTL DEF Spec

\* Every variable of the budget model keeps its type.
THEOREM BudgetTypes == Spec => []TypeOK
<1>1. BudgetInv => TypeOK BY DEF BudgetInv
<1> QED BY BudgetInvariance, <1>1, PTL

\* A miner never spends more than was offered, and lets no call out after the
\* deadline: what is out then is late (_run_service_round).
THEOREM SpendingBounded == Spec => []SpendsNoMore
<1>1. BudgetInv => SpendsNoMore
  BY TypeFacts, Limits DEF BudgetInv, Clocks, SpendsNoMore, None
<1> QED BY BudgetInvariance, <1>1, PTL

\* A turn is over within two HTTP timeouts, the deadline and the grace, and what
\* workers and the network are late (_transform_payload_via_compression_service).
THEOREM TurnsBounded == Spec => []TurnBounded
<1>1. ASSUME BudgetInv PROVE TurnBounded
  <2> SUFFICES ASSUME ~Over PROVE now <= Bound + late BY TypeFacts, <1>1, Limits DEF TurnBounded, Bound, BudgetInv
  <2>1. proxy \in {"posted", "round", "admitted", "upstream", "resume"}
    BY <1>1 DEF BudgetInv, TypeOK, Over
  <2>2. now \in Nat /\ late \in Nat BY <1>1, TypeFacts DEF BudgetInv
  <2>3. /\ proxy \in {"admitted", "upstream", "resume"} =>
              now <= HttpTimeout + Deadline + Grace + late
        /\ proxy = "posted" => now <= Reach + late
        /\ proxy = "round" => now <= Bound + late
    BY <1>1 DEF BudgetInv, Clocks
  <2>4. Reach \in Nat /\ Reach <= Bound /\ HttpTimeout + Deadline + Grace <= Bound
    BY Limits DEF Reach, Bound
  <2> QED BY <2>1, <2>2, <2>3, <2>4, Limits DEF Bound
<1> QED BY BudgetInvariance, <1>1, PTL

\* Results of calls that were run come in time where the budget starts within the
\* margin less what is late (services.py WAIT_MARGIN_S).
THEOREM MarginIsEnough == Spec => []MarginSuffices
<1>1. BudgetInv => MarginSuffices BY DEF BudgetInv, Served
<1> QED BY BudgetInvariance, <1>1, PTL

=============================================================================
