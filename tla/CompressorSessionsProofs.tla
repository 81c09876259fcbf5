---------------------- MODULE CompressorSessionsProofs ----------------------
(***************************************************************************)
(* Proofs about CompressorSessions, for every set of turns and threads and *)
(* every bound: its invariants, and that it implements BlockingCalls.      *)
(***************************************************************************)
EXTENDS CompressorSessions, TLAPS

-----------------------------------------------------------------------------
(* Type correctness.                                                         *)

LEMMA ExceptType ==
  ASSUME NEW S, NEW f \in [Turns -> S], NEW t \in Turns, NEW v \in S
  PROVE  [f EXCEPT ![t] = v] \in [Turns -> S]
  OBVIOUS

LEMMA HeadTail ==
  ASSUME NEW S, NEW s \in Seq(S), s # <<>>
  PROVE  Head(s) \in S /\ Tail(s) \in Seq(S)
  OBVIOUS

LEMMA InitType == Init => TypeOK
  BY NoTurnAssumption, NoThreadAssumption DEF Init, TypeOK, NoIds, ThreadStates, Threads

\* The steps of the proxy keep the types.
LEMMA ProxyType ==
  ASSUME TypeOK, NEW t \in Turns, StartTurn(t) \/ Proxy(t)
  PROVE  TypeOK'
<1> USE DEF TypeOK
<1>1. CASE StartTurn(t)
  <2> USE <1>1 DEF StartTurn, Move
  <2>1. Main \in Threads BY DEF Threads
  <2>2. thread' \in [Turns -> [Threads -> ThreadStates]] BY <2>1 DEF ThreadStates
  <2>3. store' \subseteq Turns OBVIOUS
  <2>4. handler' \in [Turns -> {"none", "plain", "check", "clear", "put", "wait"}] OBVIOUS
  <2> QED BY <2>2, <2>3, <2>4
<1>2. CASE RunRound(t)
  <2>1. executed' \in [Turns -> Seq(Nat)] BY <1>2 DEF RunRound
  <2>2. rounds' \in [Turns -> Nat]
    <3>1. rounds[t] + 1 \in Nat BY SMTT(30)
    <3> QED BY <1>2, <3>1, ExceptType DEF RunRound
  <2>3. turn' \in [Turns -> {"idle", "posted", "round", "resume", "done", "failed"}]
    BY <1>2 DEF RunRound
  <2> QED BY <1>2, <2>1, <2>2, <2>3 DEF RunRound, minerVars
<1>3. CASE AbandonRound(t) BY <1>3 DEF AbandonRound, minerVars
<1>4. CASE Resume(t) BY <1>4, ZenonT(60) DEF Resume, minerVars
<1>5. CASE GiveUp(t) BY <1>5 DEF GiveUp, minerVars
<1> QED BY <1>1, <1>2, <1>3, <1>4, <1>5 DEF Proxy

LEMMA HandlerType ==
  ASSUME TypeOK, NEW t \in Turns, Handler(t)
  PROVE  TypeOK'
<1> USE DEF TypeOK
<1>1. CASE AcceptResults(t) BY <1>1 DEF AcceptResults, proxyVars, minerVars
<1>2. CASE RejectResults(t) BY <1>2 DEF RejectResults, Reply, minerVars
<1>3. CASE ClearPending(t) BY <1>3 DEF ClearPending, proxyVars, minerVars, NoIds
<1>4. CASE PutResults(t)
  <2>1. Results(held[t]) \in [ids : Nat, from : Nat] BY DEF Results, CallIds
  <2>2. results' \in [Turns -> Seq([ids : Nat, from : Nat])] BY <1>4, <2>1 DEF PutResults
  <2> QED BY <1>4, <2>2 DEF PutResults, proxyVars, minerVars
<1>5. CASE AnswerPending(t)
  <2>1. events' \in [Turns -> Seq(Event)] BY <1>5 DEF AnswerPending
  <2>2. Head(events[t]) \in Event BY <1>5 DEF AnswerPending
  <2>3. held' \in [Turns -> Nat] BY <1>5, <2>2 DEF AnswerPending, Event
  <2> QED BY <1>5, <2>1, <2>3, ZenonT(60) DEF AnswerPending, Reply, minerVars
<1>6. CASE AnswerFinal(t)
  <2>1. events' \in [Turns -> Seq(Event)] BY <1>6 DEF AnswerFinal
  <2> QED BY <1>6, <2>1, ZenonT(60) DEF AnswerFinal, Reply, minerVars
<1> QED BY <1>1, <1>2, <1>3, <1>4, <1>5, <1>6 DEF Handler

LEMMA MoveType ==
  ASSUME TypeOK, NEW t \in Turns, NEW w \in Threads, NEW from, NEW to \in ThreadStates,
         Move(t, w, from, to)
  PROVE  thread' \in [Turns -> [Threads -> ThreadStates]]
  BY DEF TypeOK, Move

LEMMA MinerType ==
  ASSUME TypeOK, NEW t \in Turns, Miner(t)
  PROVE  TypeOK'
<1> USE DEF TypeOK, proxyVars
<1>0. Main \in Threads BY DEF Threads
<1>1. CASE LeaveCompressor(t)
  <2>1. thread' \in [Turns -> [Threads -> ThreadStates]]
    BY <1>0, <1>1, MoveType, SMTT(30) DEF LeaveCompressor, ThreadStates
  <2> QED BY <1>1, <2>1 DEF LeaveCompressor
<1>2. ASSUME NEW w \in Threads, Spawn(t, w) \/ ThreadEnds(t, w) \/ CallService(t, w)
      PROVE  TypeOK'
  <2>1. thread' \in [Turns -> [Threads -> ThreadStates]]
    BY <1>2, MoveType DEF Spawn, ThreadEnds, CallService, ThreadStates
  <2> QED BY <1>2, <2>1 DEF Spawn, ThreadEnds, CallService
<1> QED BY <1>1, <1>2 DEF Miner

LEMMA RuntimeType ==
  ASSUME TypeOK, NEW t \in Turns, Runtime(t)
  PROVE  TypeOK'
<1> USE DEF TypeOK, proxyVars
<1>0. Main \in Threads BY DEF Threads
<1>1. CASE EnterCompressor(t)
  <2>1. thread' \in [Turns -> [Threads -> ThreadStates]]
    BY <1>0, <1>1, MoveType DEF EnterCompressor, ThreadStates
  <2> QED BY <1>1, <2>1 DEF EnterCompressor
<1>2. ASSUME NEW how, NEW kind \in {"done", "error"}, Finish(t, how, kind)
      PROVE  TypeOK'
  <2>1. thread' \in [Turns -> [Threads -> ThreadStates]]
    BY <1>0, <1>2, MoveType DEF Finish, ThreadStates
  <2>2. Final(kind) \in Event BY DEF Final, Event
  <2>3. events' \in [Turns -> Seq(Event)]
    <3>1. Append(events[t], Final(kind)) \in Seq(Event) BY <2>2
    <3> QED BY <1>2, <3>1 DEF Finish
  <2> QED BY <1>2, <2>1, <2>3, ZenonT(60) DEF Finish, Reply
<1>3. ASSUME NEW w \in Threads, BeginRound(t, w)
      PROVE  TypeOK'
  <2>1. thread' \in [Turns -> [Threads -> ThreadStates]]
    BY <1>3, MoveType DEF BeginRound, ThreadStates
  <2>0. asked[t] + 1 \in Nat BY SMTT(30)
  <2>2. asked' \in [Turns -> Nat] BY <1>3, <2>0, ExceptType DEF BeginRound
  <2>3. pending' \in [Turns -> Nat] BY <1>3, <2>0, ExceptType DEF BeginRound, CallIds
  <2> QED BY <1>3, <2>1, <2>2, <2>3 DEF BeginRound
<1>4. ASSUME NEW w \in Threads, Announce(t, w)
      PROVE  TypeOK'
  <2>1. thread' \in [Turns -> [Threads -> ThreadStates]]
    BY <1>4, MoveType DEF Announce, ThreadStates
  <2>2. Pending(asked[t]) \in Event BY DEF Pending, Event
  <2>3. events' \in [Turns -> Seq(Event)] BY <1>4, <2>2 DEF Announce
  <2> QED BY <1>4, <2>1, <2>3 DEF Announce
<1>5. ASSUME NEW w \in Threads, TakeResults(t, w)
      PROVE  TypeOK'
  <2>1. thread' \in [Turns -> [Threads -> ThreadStates]]
    BY <1>5, MoveType DEF TakeResults, ThreadStates
  <2>2. Head(results[t]) \in [ids : Nat, from : Nat] BY <1>5, HeadTail DEF TakeResults
  <2>3. OutcomeOf(asked[t], Head(results[t]))
            \in [round : Nat, kind : {"answered", "invalid", "timeout"}, from : Nat]
    BY <2>2 DEF OutcomeOf, Outcome
  <2>4. results' \in [Turns -> Seq([ids : Nat, from : Nat])] BY <1>5 DEF TakeResults
  <2>5. outcomes' \in [Turns -> Seq([round : Nat, kind : {"answered", "invalid", "timeout"}, from : Nat])]
    BY <1>5, <2>3 DEF TakeResults
  <2> QED BY <1>5, <2>1, <2>4, <2>5 DEF TakeResults
<1>6. ASSUME NEW w \in Threads, WaitExpires(t, w)
      PROVE  TypeOK'
  <2>1. thread' \in [Turns -> [Threads -> ThreadStates]]
    BY <1>6, MoveType DEF WaitExpires, ThreadStates
  <2> QED BY <1>6, <2>1 DEF WaitExpires
<1>7. ASSUME NEW w \in Threads, Withdraw(t, w)
      PROVE  TypeOK'
  <2>1. thread' \in [Turns -> [Threads -> ThreadStates]]
    BY <1>7, MoveType DEF Withdraw, ThreadStates
  <2>2. Outcome(asked[t], "timeout", 0)
            \in [round : Nat, kind : {"answered", "invalid", "timeout"}, from : Nat]
    BY DEF Outcome
  <2>3. outcomes' \in [Turns -> Seq([round : Nat, kind : {"answered", "invalid", "timeout"}, from : Nat])]
    BY <1>7, <2>2 DEF Withdraw
  <2> QED BY <1>7, <2>1, <2>3 DEF Withdraw, NoIds
<1> QED BY <1>1, <1>2, <1>3, <1>4, <1>5, <1>6, <1>7 DEF Runtime, Service, FinishTurn

LEMMA StepType == TypeOK /\ [Next]_vars => TypeOK'
<1> SUFFICES ASSUME TypeOK, [Next]_vars PROVE TypeOK'
  OBVIOUS
<1>1. CASE UNCHANGED vars BY <1>1 DEF vars, TypeOK
<1>2. CASE Next BY <1>2, <1>1, ProxyType, HandlerType, RuntimeType, MinerType DEF Next
<1> QED BY <1>1, <1>2

\* Every variable keeps its type in every reachable state.
THEOREM TypeCorrectness == Spec => []TypeOK
  BY InitType, StepType, PTL DEF Spec

-----------------------------------------------------------------------------
(* Queues of events.                                                         *)

LEMMA QuietAppend ==
  ASSUME NEW s \in Seq(Event), NEW kind \in {"done", "error"}, Quiet(s)
  PROVE  Quiet(Append(s, Final(kind)))
  BY DEF Quiet, Final

LEMMA AnnouncesAppend ==
  ASSUME NEW s \in Seq(Event), NEW k \in Nat, NEW kind \in {"done", "error"}, Announces(s, k)
  PROVE  Announces(Append(s, Final(kind)), k)
  BY DEF Announces, Final, Pending

LEMMA AppendAnnounces ==
  ASSUME NEW s \in Seq(Event), NEW k \in Nat, Quiet(s)
  PROVE  Announces(Append(s, Pending(k)), k)
  BY DEF Quiet, Announces, Pending

LEMMA QuietTail ==
  ASSUME NEW s \in Seq(Event), s # <<>>, Quiet(s)
  PROVE  Head(s).kind # "pending" /\ Quiet(Tail(s))
  BY DEF Quiet

LEMMA HeadAnnounced ==
  ASSUME NEW s \in Seq(Event), NEW k \in Nat, s # <<>>, Announces(s, k), Head(s).kind = "pending"
  PROVE  Head(s) = Pending(k) /\ Quiet(Tail(s))
<1>1. PICK i \in DOMAIN s : s[i] = Pending(k) /\ \A j \in DOMAIN s : s[j].kind = "pending" => j = i
  BY DEF Announces
<1>2. i = 1 BY <1>1
<1>3. Head(s) = Pending(k) BY <1>1, <1>2
<1>4. \A j \in DOMAIN Tail(s) : Tail(s)[j] = s[j + 1] /\ j + 1 \in DOMAIN s /\ j + 1 # 1
  OBVIOUS
<1>5. Quiet(Tail(s)) BY <1>1, <1>2, <1>4 DEF Quiet
<1> QED BY <1>3, <1>5

LEMMA TailAnnounces ==
  ASSUME NEW s \in Seq(Event), NEW k \in Nat, s # <<>>, Announces(s, k), Head(s).kind # "pending"
  PROVE  Announces(Tail(s), k)
<1>1. PICK i \in DOMAIN s : s[i] = Pending(k) /\ \A j \in DOMAIN s : s[j].kind = "pending" => j = i
  BY DEF Announces
<1>2. i # 1 BY <1>1 DEF Pending
<1>3. \A j \in DOMAIN Tail(s) : Tail(s)[j] = s[j + 1] /\ j + 1 \in DOMAIN s
  OBVIOUS
<1>4. i - 1 \in DOMAIN Tail(s) /\ Tail(s)[i - 1] = s[i] BY <1>2
<1>5. \A j \in DOMAIN Tail(s) : Tail(s)[j].kind = "pending" => j = i - 1
  BY <1>1, <1>3
<1> QED BY <1>1, <1>4, <1>5 DEF Announces

-----------------------------------------------------------------------------
(* Who holds the lock of a session's services.                               *)

LEMMA MoveThread ==
  ASSUME TypeOK, NEW t \in Turns, NEW w \in Threads, NEW from, NEW to, Move(t, w, from, to)
  PROVE  /\ thread[t][w] = from
         /\ thread'[t][w] = to
         /\ \A u \in Turns, v \in Threads : u # t \/ v # w => thread'[u][v] = thread[u][v]
  BY DEF TypeOK, Move

\* A move between states outside a round leaves RoundHeld as it is.
LEMMA MoveOutside ==
  ASSUME TypeOK, RoundHeld, NEW t \in Turns, NEW w \in Threads, NEW from, NEW to,
         Move(t, w, from, to), UNCHANGED svcLock,
         from \in {"announce", "parked", "expiring"} <=> to \in {"announce", "parked", "expiring"}
  PROVE  RoundHeld'
<1>1. ASSUME NEW u \in Turns, NEW v \in Threads
      PROVE  thread'[u][v] \in {"announce", "parked", "expiring"}
               <=> thread[u][v] \in {"announce", "parked", "expiring"}
  BY MoveThread
<1> QED BY <1>1 DEF RoundHeld

LEMMA HeldStep == TypeOK /\ RoundHeld /\ [Next]_vars => RoundHeld'
<1> SUFFICES ASSUME TypeOK, RoundHeld, [Next]_vars PROVE RoundHeld'
  OBVIOUS
<1>0. Main \in Threads BY DEF Threads
<1>1. CASE UNCHANGED vars BY <1>1 DEF vars, RoundHeld
<1>2. ASSUME NEW t \in Turns, StartTurn(t) PROVE RoundHeld'
  BY <1>0, <1>2, MoveOutside DEF StartTurn
<1>3. ASSUME NEW t \in Turns, Proxy(t) PROVE RoundHeld'
  BY <1>3 DEF Proxy, RunRound, AbandonRound, Resume, GiveUp, minerVars, RoundHeld
<1>4. ASSUME NEW t \in Turns, Handler(t) PROVE RoundHeld'
  BY <1>4 DEF Handler, AcceptResults, RejectResults, ClearPending, PutResults, AnswerPending,
              AnswerFinal, minerVars, RoundHeld
<1>5. ASSUME NEW t \in Turns, Miner(t) PROVE RoundHeld'
  BY <1>0, <1>5, MoveOutside DEF Miner, LeaveCompressor, Spawn, ThreadEnds, CallService
<1>6. ASSUME NEW t \in Turns, EnterCompressor(t) \/ FinishTurn(t) PROVE RoundHeld'
  BY <1>0, <1>6, MoveOutside DEF EnterCompressor, FinishTurn, Finish
<1>7. ASSUME NEW t \in Turns, NEW w \in Threads, Announce(t, w) \/ WaitExpires(t, w)
      PROVE  RoundHeld'
  BY <1>7, MoveOutside DEF Announce, WaitExpires
<1>8. ASSUME NEW t \in Turns, NEW w \in Threads, BeginRound(t, w)
      PROVE  RoundHeld'
  <2>1. Move(t, w, "want", "announce") /\ svcLock[t] = NoThread /\ svcLock' = [svcLock EXCEPT ![t] = w]
    BY <1>8 DEF BeginRound
  <2>2. \A v \in Threads : thread[t][v] \notin {"announce", "parked", "expiring"}
    BY <2>1, NoThreadAssumption DEF RoundHeld, Threads
  <2>m. /\ thread'[t][w] = "announce"
        /\ \A u \in Turns, v \in Threads : u # t \/ v # w => thread'[u][v] = thread[u][v]
    BY <2>1, MoveThread
  <2>s. svcLock'[t] = w /\ \A u \in Turns : u # t => svcLock'[u] = svcLock[u]
    BY <2>1 DEF TypeOK
  <2>3. ASSUME NEW u \in Turns, NEW v \in Threads
        PROVE  thread'[u][v] \in {"announce", "parked", "expiring"} <=> svcLock'[u] = v
    <3>1. CASE u = t /\ v = w BY <2>m, <2>s, <3>1
    <3>2. CASE u = t /\ v # w BY <2>m, <2>s, <2>2, <3>2
    <3>3. CASE u # t BY <2>m, <2>s, <3>3 DEF RoundHeld
    <3> QED BY <3>1, <3>2, <3>3
  <2> QED BY <2>3 DEF RoundHeld
<1>9. ASSUME NEW t \in Turns, NEW w \in Threads, TakeResults(t, w) \/ Withdraw(t, w)
      PROVE  RoundHeld'
  <2>1. PICK from \in {"parked", "expiring"} : Move(t, w, from, "run")
    BY <1>9 DEF TakeResults, Withdraw
  <2>2. svcLock' = [svcLock EXCEPT ![t] = NoThread]
    BY <1>9 DEF TakeResults, Withdraw
  <2>3. svcLock[t] = w BY <2>1 DEF Move, RoundHeld
  <2>m. /\ thread'[t][w] = "run"
        /\ \A u \in Turns, v \in Threads : u # t \/ v # w => thread'[u][v] = thread[u][v]
    BY <2>1, MoveThread
  <2>s. svcLock'[t] = NoThread /\ \A u \in Turns : u # t => svcLock'[u] = svcLock[u]
    BY <2>2 DEF TypeOK
  <2>4. ASSUME NEW u \in Turns, NEW v \in Threads
        PROVE  thread'[u][v] \in {"announce", "parked", "expiring"} <=> svcLock'[u] = v
    <3>0. v # NoThread BY NoThreadAssumption DEF Threads
    <3>1. CASE u = t /\ v = w BY <2>m, <2>s, <3>0, <3>1
    <3>2. CASE u = t /\ v # w
      <4>1. thread[t][v] \notin {"announce", "parked", "expiring"} BY <2>3, <3>2 DEF RoundHeld
      <4> QED BY <2>m, <2>s, <3>0, <3>2, <4>1
    <3>3. CASE u # t BY <2>m, <2>s, <3>3 DEF RoundHeld
    <3> QED BY <3>1, <3>2, <3>3
  <2> QED BY <2>4 DEF RoundHeld
<1> QED BY <1>1, <1>2, <1>3, <1>4, <1>5, <1>6, <1>7, <1>8, <1>9 DEF Next, Runtime, Service

-----------------------------------------------------------------------------
(* Turns, handlers and the store of sessions.                                *)

\* A reply ends the handler, and moves the turn only if the proxy still waits.
LEMMA ReplyEffect ==
  ASSUME TypeOK, NEW t \in Turns, NEW code, NEW next, Reply(t, code, next)
  PROVE  /\ handler'[t] = "none"
         /\ turn'[t] = IF turn[t] = "posted" THEN next ELSE turn[t]
         /\ answer'[t] = IF turn[t] = "posted" THEN code ELSE answer[t]
         /\ \A u \in Turns : u # t => /\ handler'[u] = handler[u] /\ turn'[u] = turn[u]
                                      /\ answer'[u] = answer[u]
  BY DEF TypeOK, Reply

LEMMA ServesStep ==
  TypeOK /\ HandlerServes /\ SessionKept /\ [Next]_vars => HandlerServes' /\ SessionKept'
<1> SUFFICES ASSUME TypeOK, HandlerServes, SessionKept, [Next]_vars
             PROVE  HandlerServes' /\ SessionKept'
  OBVIOUS
<1> USE DEF HandlerServes, SessionKept, Active, InProxy
<1>1. CASE UNCHANGED vars BY <1>1 DEF vars
<1>2. ASSUME NEW t \in Turns, StartTurn(t) PROVE HandlerServes' /\ SessionKept'
  <2>1. /\ turn'[t] = "posted" /\ handler'[t] = (IF t \in Offered THEN "wait" ELSE "plain")
        /\ \A u \in Turns : u # t => turn'[u] = turn[u] /\ handler'[u] = handler[u]
    BY <1>2 DEF StartTurn, TypeOK
  <2>2. t \in Offered => t \in store' BY <1>2 DEF StartTurn
  <2>3. \A u \in Turns : ~Active(u) BY <1>2 DEF StartTurn
  <2> QED BY <2>1, <2>2, <2>3
<1>3. ASSUME NEW t \in Turns, Proxy(t) PROVE HandlerServes' /\ SessionKept'
  BY <1>3, ZenonT(60) DEF Proxy, RunRound, AbandonRound, Resume, GiveUp, TypeOK
<1>4. ASSUME NEW t \in Turns, AcceptResults(t) \/ ClearPending(t) \/ PutResults(t)
      PROVE HandlerServes' /\ SessionKept'
  <2>1. handler[t] \in {"check", "clear", "put"} /\ UNCHANGED <<turn, store>>
    BY <1>4 DEF AcceptResults, ClearPending, PutResults, proxyVars
  <2>2. /\ handler'[t] \in {"clear", "put", "wait"}
        /\ \A u \in Turns : u # t => handler'[u] = handler[u]
    BY <1>4 DEF AcceptResults, ClearPending, PutResults, TypeOK
  <2> QED BY <2>1, <2>2
<1>5. ASSUME NEW t \in Turns, RejectResults(t) PROVE HandlerServes' /\ SessionKept'
  <2>1. Reply(t, "400", "failed") /\ UNCHANGED store /\ handler[t] = "check"
    BY <1>5 DEF RejectResults
  <2> QED BY <2>1, ReplyEffect
<1>6. ASSUME NEW t \in Turns, AnswerPending(t) PROVE HandlerServes' /\ SessionKept'
  <2>1. Reply(t, "pending", "round") /\ UNCHANGED store /\ handler[t] = "wait"
    BY <1>6 DEF AnswerPending
  <2> QED BY <2>1, ReplyEffect
<1>7. ASSUME NEW t \in Turns, AnswerFinal(t) PROVE HandlerServes' /\ SessionKept'
  <2>1. Reply(t, "payload", "done") \/ Reply(t, "500", "failed")
    BY <1>7 DEF AnswerFinal
  <2>2. store' = store \ {t} /\ handler[t] = "wait"
    BY <1>7 DEF AnswerFinal
  <2>3. turn'[t] \in {"done", "failed"} BY <2>1, <2>2, ReplyEffect
  <2> QED BY <2>1, <2>2, <2>3, ReplyEffect
<1>8. ASSUME NEW t \in Turns, EnterCompressor(t) \/ Miner(t) PROVE HandlerServes' /\ SessionKept'
  BY <1>8 DEF EnterCompressor, Miner, LeaveCompressor, Spawn, ThreadEnds, CallService, proxyVars
<1>9. ASSUME NEW t \in Turns, NEW how, NEW kind, Finish(t, how, kind)
      PROVE  HandlerServes' /\ SessionKept'
  <2>1. CASE handler[t] = "plain"
    <3>1. Reply(t, "payload", "done") \/ Reply(t, "500", "failed")
      BY <1>9, <2>1 DEF Finish
    <3>2. UNCHANGED store BY <1>9 DEF Finish
    <3> QED BY <2>1, <3>1, <3>2, ReplyEffect
  <2>2. CASE handler[t] # "plain" BY <1>9, <2>2 DEF Finish
  <2> QED BY <2>1, <2>2
<1>10. ASSUME NEW t \in Turns, NEW w \in Threads, Service(t, w) PROVE HandlerServes' /\ SessionKept'
  BY <1>10 DEF Service, BeginRound, Announce, TakeResults, WaitExpires, Withdraw, proxyVars
<1> QED
  BY <1>1, <1>2, <1>3, <1>4, <1>5, <1>6, <1>7, <1>8, <1>9, <1>10
  DEF Next, Handler, Runtime, FinishTurn

-----------------------------------------------------------------------------
(* Where the round of a session is.                                          *)

\* A turn is placed as before when nothing its place depends on has changed.
LEMMA PlacedFrame ==
  ASSUME NEW u \in Turns, RoundPlaced(u),
         turn'[u] = turn[u], handler'[u] = handler[u], held'[u] = held[u],
         svcLock'[u] = svcLock[u], thread'[u][svcLock[u]] = thread[u][svcLock[u]],
         asked'[u] = asked[u], pending'[u] = pending[u], events'[u] = events[u],
         results'[u] = results[u]
  PROVE  RoundPlaced(u)'
  BY DEF RoundPlaced, NoRound, RoundQueued, RoundOut, RoundBack, Delivering, InProxy

\* Handler and turn may change as long as no delivery starts and the turn does
\* not come to the proxy.
LEMMA PlacedQuietly ==
  ASSUME NEW u \in Turns, RoundPlaced(u),
         ~Delivering(u)', ~InProxy(u)' \/ (InProxy(u) /\ handler'[u] = handler[u]),
         handler[u] # "put",
         held'[u] = held[u], svcLock'[u] = svcLock[u],
         thread'[u][svcLock[u]] = thread[u][svcLock[u]],
         asked'[u] = asked[u], pending'[u] = pending[u], events'[u] = events[u],
         results'[u] = results[u]
  PROVE  RoundPlaced(u)'
  BY DEF RoundPlaced, NoRound, RoundQueued, RoundOut, RoundBack, Delivering, InProxy

LEMMA ProxyPlaces ==
  ASSUME TypeOK, RoundHeld, HandlerServes, NEW t \in Turns, StartTurn(t) \/ Proxy(t),
         NEW u \in Turns, RoundPlaced(u)
  PROVE  RoundPlaced(u)'
<1>0. Main \in Threads BY DEF Threads
<1>1. CASE StartTurn(t)
  <2>1. /\ turn[t] = "idle" /\ turn' = [turn EXCEPT ![t] = "posted"] /\ Move(t, Main, "out", "lockwait")
        /\ handler' = [handler EXCEPT ![t] = IF t \in Offered THEN "wait" ELSE "plain"]
        /\ UNCHANGED <<held, svcLock, asked, pending, events, results>>
    BY <1>1 DEF StartTurn
  <2>2. svcLock[u] # Main \/ u # t
    BY <1>0, <2>1 DEF RoundHeld, Move
  <2>3. thread'[u][svcLock[u]] = thread[u][svcLock[u]]
    BY <1>0, <2>1, <2>2 DEF TypeOK, Move
  <2>4. CASE u = t
    <3>1. handler[u] = "none" BY <2>1, <2>4 DEF HandlerServes
    <3>2. ~Delivering(u)' /\ ~InProxy(u)' BY <2>1, <2>4 DEF Delivering, InProxy, TypeOK
    <3> QED BY <2>1, <2>3, <3>1, <3>2, PlacedQuietly
  <2>5. CASE u # t BY <2>1, <2>3, <2>5, PlacedFrame DEF TypeOK
  <2> QED BY <2>4, <2>5
<1>2. CASE RunRound(t)
  <2>1. turn[t] = "round" /\ turn' = [turn EXCEPT ![t] = "resume"]
        /\ UNCHANGED <<handler, held, svcLock, thread, asked, pending, events, results>>
    BY <1>2 DEF RunRound, minerVars
  <2>2. handler[t] = "none" BY <2>1 DEF HandlerServes
  <2>3. CASE u = t BY <2>1, <2>2, <2>3, PlacedQuietly DEF Delivering, InProxy, TypeOK
  <2>4. CASE u # t BY <2>1, <2>4, PlacedFrame DEF TypeOK
  <2> QED BY <2>3, <2>4
<1>3. CASE AbandonRound(t) \/ GiveUp(t)
  <2>1. turn' = [turn EXCEPT ![t] = "failed"]
        /\ UNCHANGED <<handler, held, svcLock, thread, asked, pending, events, results>>
    BY <1>3 DEF AbandonRound, GiveUp, minerVars
  <2>2. CASE u = t
    <3>1. turn'[u] = "failed" BY <2>1, <2>2 DEF TypeOK
    <3> QED BY <2>1, <3>1 DEF RoundPlaced, NoRound, RoundQueued, RoundOut, RoundBack, Delivering, InProxy
  <2>3. CASE u # t BY <2>1, <2>3, PlacedFrame DEF TypeOK
  <2> QED BY <2>2, <2>3
<1>4. CASE Resume(t)
  <2>1. /\ turn[t] = "resume"
        /\ turn' = [turn EXCEPT ![t] = IF t \in store THEN "posted" ELSE "failed"]
        /\ handler' = IF t \in store THEN [handler EXCEPT ![t] = "check"] ELSE handler
        /\ UNCHANGED <<held, svcLock, thread, asked, pending, events, results>>
    BY <1>4 DEF Resume, minerVars
  <2>2. CASE u = t
    <3>1. /\ handler[u] = "none" /\ handler'[u] \in {"none", "check"}
          /\ turn'[u] \in {"posted", "failed"}
      BY <2>1, <2>2 DEF TypeOK, HandlerServes
    <3>2. InProxy(u) BY <2>1, <2>2 DEF InProxy
    <3> QED BY <2>1, <3>1, <3>2
            DEF RoundPlaced, NoRound, RoundQueued, RoundOut, RoundBack
  <2>3. CASE u # t BY <2>1, <2>3, PlacedFrame DEF TypeOK
  <2> QED BY <2>2, <2>3
<1> QED BY <1>1, <1>2, <1>3, <1>4 DEF Proxy

LEMMA HandlerPlaces ==
  ASSUME TypeOK, HandlerServes, NEW t \in Turns, Handler(t), NEW u \in Turns, RoundPlaced(u)
  PROVE  RoundPlaced(u)'
<1>1. CASE u # t
  <2>1. /\ turn'[u] = turn[u] /\ handler'[u] = handler[u] /\ held'[u] = held[u]
        /\ pending'[u] = pending[u] /\ events'[u] = events[u] /\ results'[u] = results[u]
        /\ UNCHANGED <<svcLock, thread, asked>>
    BY <1>1, ReplyEffect, ZenonT(60) DEF Handler, AcceptResults, RejectResults, ClearPending, PutResults,
        AnswerPending, AnswerFinal, proxyVars, minerVars, TypeOK
  <2> QED BY <2>1, PlacedFrame
<1>2. CASE u = t
  <2>0. handler[u] # "none" => ~InProxy(u) BY DEF HandlerServes, InProxy
  <2>1. CASE AcceptResults(u)
    <3>1. handler[u] = "check" /\ handler'[u] = "clear"
          /\ UNCHANGED <<turn, held, svcLock, thread, asked, pending, events, results>>
      BY <2>1 DEF AcceptResults, proxyVars, minerVars, TypeOK
    <3> QED BY <3>1 DEF RoundPlaced, NoRound, RoundQueued, RoundOut, RoundBack, Delivering
  <2>2. CASE RejectResults(u)
    <3>1. handler[u] = "check" /\ pending[u] # CallIds(held[u])
      BY <2>2 DEF RejectResults
    <3> QED BY <3>1 DEF RoundPlaced, NoRound, RoundQueued, RoundOut, RoundBack, Delivering
  <2>3. CASE ClearPending(u)
    <3>1. handler[u] = "clear" /\ handler'[u] = "put"
          /\ UNCHANGED <<turn, held, svcLock, thread, asked, events, results>>
      BY <2>3 DEF ClearPending, proxyVars, minerVars, TypeOK
    <3> QED BY <3>1 DEF RoundPlaced, NoRound, RoundQueued, RoundOut, RoundBack, Delivering
  <2>4. CASE PutResults(u)
    <3>1. /\ handler[u] = "put" /\ handler'[u] = "wait"
          /\ results'[u] = Append(results[u], Results(held[u]))
          /\ UNCHANGED <<turn, held, svcLock, thread, asked, pending, events>>
      BY <2>4 DEF PutResults, proxyVars, minerVars, TypeOK
    <3>2. /\ svcLock[u] # NoThread /\ thread[u][svcLock[u]] = "parked" /\ RoundOut(u)
      BY <3>1 DEF RoundPlaced, NoRound, RoundQueued, RoundBack, Delivering
    <3>3. results'[u] = <<Results(asked[u])>>
      BY <3>1, <3>2 DEF RoundOut
    <3>4. RoundBack(u)'
      BY <2>0, <3>1, <3>2, <3>3 DEF RoundBack, RoundOut, Delivering, InProxy
    <3> QED BY <3>1, <3>2, <3>4 DEF RoundPlaced
  <2>5. CASE AnswerPending(u)
    <3>1. /\ handler[u] = "wait" /\ events[u] # <<>> /\ Head(events[u]).kind = "pending"
          /\ events'[u] = Tail(events[u]) /\ held'[u] = Head(events[u]).round
          /\ handler'[u] = "none"
          /\ UNCHANGED <<svcLock, thread, asked, pending, results>>
      BY <2>5 DEF AnswerPending, Reply, minerVars, TypeOK
    <3>2. events[u] \in Seq(Event) /\ asked[u] \in Nat BY DEF TypeOK
    <3>3. ~Quiet(events[u]) BY <3>1, <3>2, QuietTail
    <3>4. svcLock[u] # NoThread /\ thread[u][svcLock[u]] = "parked" /\ RoundQueued(u)
      BY <3>3 DEF RoundPlaced, NoRound, RoundOut, RoundBack
    <3>5. Head(events[u]) = Pending(asked[u]) /\ Quiet(Tail(events[u]))
      BY <3>1, <3>2, <3>4, HeadAnnounced DEF RoundQueued
    <3>6. RoundOut(u)' BY <3>1, <3>4, <3>5 DEF RoundOut, RoundQueued, Pending
    <3> QED BY <3>1, <3>4, <3>6 DEF RoundPlaced
  <2>6. CASE AnswerFinal(u)
    <3>1. /\ handler[u] = "wait" /\ events[u] # <<>> /\ Head(events[u]).kind \in {"done", "error"}
          /\ events'[u] = Tail(events[u])
          /\ UNCHANGED <<held, svcLock, thread, asked, pending, results>>
      BY <2>6 DEF AnswerFinal, minerVars, TypeOK
    <3>2. events[u] \in Seq(Event) /\ asked[u] \in Nat BY DEF TypeOK
    <3>3. /\ Quiet(events[u]) => Quiet(events'[u])
          /\ Announces(events[u], asked[u]) => Announces(events'[u], asked[u])
      BY <3>1, <3>2, QuietTail, TailAnnounces
    <3>4. Reply(u, "payload", "done") \/ Reply(u, "500", "failed") BY <2>6 DEF AnswerFinal
    <3>5. handler'[u] = "none" /\ turn'[u] \in {turn[u], "done", "failed"}
      BY <3>4, ReplyEffect
    <3>6. ~Delivering(u)' /\ ~InProxy(u)'
      BY <2>0, <3>1, <3>5 DEF Delivering, InProxy
    <3> QED BY <3>1, <3>3, <3>6 DEF RoundPlaced, NoRound, RoundQueued, RoundOut, RoundBack
  <2> QED BY <1>2, <2>1, <2>2, <2>3, <2>4, <2>5, <2>6 DEF Handler
<1> QED BY <1>1, <1>2

\* A thread outside a round is not the one that holds the services' lock.
LEMMA MoveElsewhere ==
  ASSUME TypeOK, RoundHeld, NEW t \in Turns, NEW w \in Threads, NEW from, NEW to,
         Move(t, w, from, to), from \notin {"announce", "parked", "expiring"}, NEW u \in Turns
  PROVE  thread'[u][svcLock[u]] = thread[u][svcLock[u]]
<1>1. svcLock[t] # w BY DEF Move, RoundHeld
<1> QED BY <1>1, SMTT(30) DEF TypeOK, Move

LEMMA MinerPlaces ==
  ASSUME TypeOK, RoundHeld, NEW t \in Turns, Miner(t) \/ EnterCompressor(t),
         NEW u \in Turns, RoundPlaced(u)
  PROVE  RoundPlaced(u)'
<1>0. Main \in Threads BY DEF Threads
<1>1. UNCHANGED <<turn, handler, held, svcLock, asked, pending, events, results>>
  BY DEF Miner, EnterCompressor, LeaveCompressor, Spawn, ThreadEnds, CallService, proxyVars
<1>2. PICK w \in Threads, from \in {"lockwait", "run", "out"}, to \in ThreadStates : Move(t, w, from, to)
  BY <1>0 DEF Miner, EnterCompressor, LeaveCompressor, Spawn, ThreadEnds, CallService, ThreadStates
<1>3. thread'[u][svcLock[u]] = thread[u][svcLock[u]] BY <1>2, MoveElsewhere
<1> QED BY <1>1, <1>3, PlacedFrame

LEMMA FinishPlaces ==
  ASSUME TypeOK, RoundHeld, HandlerServes, NEW t \in Turns,
         NEW how \in {"returned", "raised"}, NEW kind \in {"done", "error"}, Finish(t, how, kind),
         NEW u \in Turns, RoundPlaced(u)
  PROVE  RoundPlaced(u)'
<1>0. Main \in Threads BY DEF Threads
<1>1. UNCHANGED <<held, svcLock, asked, pending, results>> BY DEF Finish
<1>2. thread'[u][svcLock[u]] = thread[u][svcLock[u]]
  BY <1>0, MoveElsewhere DEF Finish
<1>3. CASE u # t
  <2>1. turn'[u] = turn[u] /\ handler'[u] = handler[u] /\ events'[u] = events[u]
    BY <1>3, ReplyEffect, ZenonT(60) DEF Finish, TypeOK
  <2> QED BY <1>1, <1>2, <2>1, PlacedFrame
<1>4. CASE u = t /\ handler[t] = "plain"
  <2>1. Reply(t, "payload", "done") \/ Reply(t, "500", "failed") BY <1>4 DEF Finish
  <2>2. UNCHANGED events BY <1>4 DEF Finish
  <2>3. turn[t] \in {"posted", "failed"} BY <1>4 DEF HandlerServes
  <2>4. ~Delivering(u)' /\ ~InProxy(u)'
    BY <1>4, <2>1, <2>3, ReplyEffect DEF Delivering, InProxy
  <2> QED BY <1>1, <1>2, <1>4, <2>2, <2>4, PlacedQuietly
<1>5. CASE u = t /\ handler[t] # "plain"
  <2>1. UNCHANGED <<turn, handler>> /\ events'[t] = Append(events[t], Final(kind))
    BY <1>5 DEF Finish, TypeOK
  <2>2. events[t] \in Seq(Event) /\ asked[t] \in Nat BY DEF TypeOK
  <2>3. /\ Quiet(events[t]) => Quiet(events'[t])
        /\ Announces(events[t], asked[t]) => Announces(events'[t], asked[t])
    BY <2>1, <2>2, QuietAppend, AnnouncesAppend
  <2> QED BY <1>1, <1>2, <1>5, <2>1, <2>3
          DEF RoundPlaced, NoRound, RoundQueued, RoundOut, RoundBack, Delivering, InProxy
<1> QED BY <1>3, <1>4, <1>5

LEMMA ServicePlaces ==
  ASSUME TypeOK, RoundHeld, NEW t \in Turns, NEW w \in Threads, Service(t, w),
         NEW u \in Turns, ~expired'[u], RoundPlaced(u)
  PROVE  RoundPlaced(u)'
<1>0. UNCHANGED <<turn, handler, held>>
  BY DEF Service, BeginRound, Announce, TakeResults, WaitExpires, Withdraw, proxyVars
<1>n. w # NoThread BY NoThreadAssumption DEF Threads
<1>1. CASE u # t
  <2>1. /\ svcLock'[u] = svcLock[u] /\ thread'[u] = thread[u] /\ asked'[u] = asked[u]
        /\ pending'[u] = pending[u] /\ events'[u] = events[u] /\ results'[u] = results[u]
    BY <1>1, SMTT(30) DEF Service, BeginRound, Announce, TakeResults, WaitExpires, Withdraw, Move, TypeOK
  <2> QED BY <1>0, <2>1, PlacedFrame
<1>2. CASE u = t
  <2>1. CASE BeginRound(u, w)
    <3>1. /\ svcLock[u] = NoThread /\ svcLock'[u] = w /\ asked'[u] = asked[u] + 1
          /\ pending'[u] = CallIds(asked[u] + 1) /\ UNCHANGED <<events, results>>
      BY <2>1 DEF BeginRound, TypeOK
    <3>2. thread'[u][w] = "announce" BY <2>1, MoveThread DEF BeginRound
    <3>3. NoRound(u) BY <3>1, <1>n DEF RoundPlaced
    <3>4. NoRound(u)' BY <1>0, <3>1, <3>3 DEF NoRound, Delivering, InProxy
    <3> QED BY <3>1, <3>2, <3>4, <1>n DEF RoundPlaced
  <2>2. CASE Announce(u, w)
    <3>1. /\ events'[u] = Append(events[u], Pending(asked[u]))
          /\ UNCHANGED <<svcLock, asked, pending, results>>
      BY <2>2 DEF Announce, TypeOK
    <3>2. thread[u][w] = "announce" /\ thread'[u][w] = "parked"
      BY <2>2, MoveThread DEF Announce
    <3>3. svcLock[u] = w BY <3>2 DEF RoundHeld
    <3>4. NoRound(u) /\ pending[u] = CallIds(asked[u])
      BY <1>n, <3>2, <3>3 DEF RoundPlaced
    <3>5. Announces(events'[u], asked[u])
      <4>1. events[u] \in Seq(Event) /\ asked[u] \in Nat BY DEF TypeOK
      <4> QED BY <3>1, <3>4, <4>1, AppendAnnounces DEF NoRound
    <3>6. RoundQueued(u)'
      BY <1>0, <3>1, <3>4, <3>5 DEF RoundQueued, NoRound, Delivering, InProxy
    <3> QED BY <1>n, <3>1, <3>2, <3>3, <3>6 DEF RoundPlaced
  <2>3. CASE TakeResults(u, w)
    <3>1. /\ results[u] # <<>> /\ results'[u] = Tail(results[u]) /\ svcLock'[u] = NoThread
          /\ thread[u][w] = "parked" /\ UNCHANGED <<asked, pending, events>>
      BY <2>3 DEF TakeResults, Move, TypeOK
    <3>2. svcLock[u] = w BY <3>1 DEF RoundHeld
    <3>3. RoundBack(u) BY <1>n, <3>1, <3>2 DEF RoundPlaced, RoundQueued, RoundOut
    <3>4. results'[u] = <<>> BY <3>1, <3>3 DEF RoundBack
    <3>5. NoRound(u)' BY <1>0, <3>1, <3>3, <3>4 DEF NoRound, RoundBack, Delivering, InProxy
    <3> QED BY <3>1, <3>5 DEF RoundPlaced
  <2>4. ~WaitExpires(u, w) BY DEF WaitExpires, TypeOK
  <2>5. ~Withdraw(u, w)
    <3>1. SUFFICES ASSUME thread[u][w] = "expiring" PROVE FALSE
      BY DEF Withdraw, Move
    <3>2. svcLock[u] = w BY <3>1 DEF RoundHeld
    <3> QED BY <1>n, <3>1, <3>2 DEF RoundPlaced
  <2> QED BY <1>2, <2>1, <2>2, <2>3, <2>4, <2>5 DEF Service
<1> QED BY <1>1, <1>2

LEMMA ExpiredStays ==
  ASSUME TypeOK, [Next]_vars, NEW u \in Turns, expired[u]
  PROVE  expired'[u]
<1>1. UNCHANGED expired \/ \E t \in Turns, w \in Threads : WaitExpires(t, w)
  BY ZenonT(60) DEF vars, Next, StartTurn, Proxy, RunRound, AbandonRound, Resume, GiveUp, Handler,
         AcceptResults, RejectResults, ClearPending, PutResults, AnswerPending, AnswerFinal,
         Runtime, EnterCompressor, FinishTurn, Finish, Service, BeginRound, Announce,
         TakeResults, Withdraw, Miner, LeaveCompressor, Spawn, ThreadEnds, CallService,
         proxyVars, minerVars
<1> QED BY <1>1 DEF WaitExpires, TypeOK

LEMMA SomewhereStep ==
  TypeOK /\ RoundHeld /\ HandlerServes /\ RoundSomewhere /\ [Next]_vars => RoundSomewhere'
<1> SUFFICES ASSUME TypeOK, RoundHeld, HandlerServes, RoundSomewhere, [Next]_vars,
                    NEW u \in Turns, ~expired'[u]
             PROVE  RoundPlaced(u)'
  BY DEF RoundSomewhere
<1>1. RoundPlaced(u) BY ExpiredStays DEF RoundSomewhere, TypeOK
<1>2. CASE UNCHANGED vars BY <1>1, <1>2, PlacedFrame DEF vars
<1>3. CASE Next
  BY <1>1, <1>2, <1>3, ProxyPlaces, HandlerPlaces, MinerPlaces, FinishPlaces, ServicePlaces
  DEF Next, Runtime, FinishTurn
<1> QED BY <1>2, <1>3

-----------------------------------------------------------------------------
(* The three properties.                                                     *)

\* The proxy is refused only by deliver() and by the store.
LEMMA AnswerStep ==
  ASSUME TypeOK, [Next]_vars, NEW u \in Turns
  PROVE  \/ answer'[u] \in {answer[u], "pending", "payload", "500"}
         \/ RejectResults(u)
         \/ Resume(u) /\ u \notin store
<1>1. CASE UNCHANGED answer BY <1>1
<1>2. ASSUME NEW t \in Turns, AnswerPending(t) \/ AnswerFinal(t) \/ FinishTurn(t)
      PROVE  answer'[u] \in {answer[u], "pending", "payload", "500"}
  <2>1. \/ UNCHANGED answer
        \/ Reply(t, "pending", "round") \/ Reply(t, "payload", "done") \/ Reply(t, "500", "failed")
    BY <1>2 DEF AnswerPending, AnswerFinal, FinishTurn, Finish
  <2> QED BY <2>1, ReplyEffect
<1>3. ASSUME NEW t \in Turns, RejectResults(t)
      PROVE  answer'[u] = answer[u] \/ RejectResults(u)
  BY <1>3, ReplyEffect DEF RejectResults
<1>4. ASSUME NEW t \in Turns, Resume(t)
      PROVE  answer'[u] = answer[u] \/ (Resume(u) /\ u \notin store)
  BY <1>4 DEF Resume, TypeOK
<1>5. \/ UNCHANGED answer
      \/ \E t \in Turns : \/ AnswerPending(t) \/ AnswerFinal(t) \/ FinishTurn(t)
                          \/ RejectResults(t) \/ Resume(t)
  BY DEF vars, Next, StartTurn, Proxy, RunRound, AbandonRound, GiveUp, Handler, AcceptResults,
         ClearPending, PutResults, Runtime, EnterCompressor, Service, BeginRound, Announce,
         TakeResults, WaitExpires, Withdraw, Miner, LeaveCompressor, Spawn, ThreadEnds,
         CallService, proxyVars
<1> QED BY <1>1, <1>2, <1>3, <1>4, <1>5

LEMMA RefusalStep == RoundInv /\ [Next]_vars => RejectedOnlyAfterExpiry' /\ NeverUnknownSession'
<1> SUFFICES ASSUME RoundInv, [Next]_vars, NEW u \in Turns
             PROVE  (answer'[u] = "400" => expired'[u]) /\ answer'[u] # "404"
  BY DEF RejectedOnlyAfterExpiry, NeverUnknownSession
<1> USE DEF RoundInv
<1>1. CASE answer'[u] \in {answer[u], "pending", "payload", "500"}
  BY <1>1, ExpiredStays DEF RejectedOnlyAfterExpiry, NeverUnknownSession
<1>2. CASE RejectResults(u)
  <2>1. handler[u] = "check" /\ pending[u] # CallIds(held[u]) /\ UNCHANGED expired
    BY <1>2 DEF RejectResults, minerVars
  <2>2. ~RoundPlaced(u)
    BY <2>1 DEF RoundPlaced, NoRound, RoundQueued, RoundOut, RoundBack, Delivering
  <2>3. expired'[u] BY <2>1, <2>2 DEF RoundSomewhere, TypeOK
  <2>4. answer'[u] # "404" BY <1>2, ReplyEffect DEF RejectResults, NeverUnknownSession
  <2> QED BY <2>3, <2>4
<1>3. ~(Resume(u) /\ u \notin store)
  BY DEF Resume, SessionKept, Active, InProxy
<1> QED BY <1>1, <1>2, <1>3, AnswerStep

LEMMA InvalidStep == RoundInv /\ [Next]_vars => InvalidOnlyAfterExpiry'
<1> SUFFICES ASSUME RoundInv, [Next]_vars, NEW u \in Turns,
                    NEW i \in DOMAIN outcomes'[u], outcomes'[u][i].kind = "invalid",
                    ~expired'[u]
             PROVE  FALSE
  BY DEF InvalidOnlyAfterExpiry, RoundInv, TypeOK
<1> USE DEF RoundInv
<1>0. ~expired[u] BY ExpiredStays DEF TypeOK
<1>1. CASE outcomes'[u] = outcomes[u]
  BY <1>0, <1>1 DEF InvalidOnlyAfterExpiry
<1>2. ASSUME NEW o, o.kind # "invalid", outcomes'[u] = Append(outcomes[u], o)
      PROVE  FALSE
  <2>1. \A j \in DOMAIN outcomes[u] : outcomes[u][j].kind # "invalid"
    BY <1>0 DEF InvalidOnlyAfterExpiry
  <2>2. outcomes[u] \in Seq([round : Nat, kind : {"answered", "invalid", "timeout"}, from : Nat])
    BY DEF TypeOK
  <2> QED BY <1>2, <2>1, <2>2
<1>3. ASSUME NEW w \in Threads, TakeResults(u, w)
      PROVE  FALSE
  <2>1. /\ results[u] # <<>> /\ thread[u][w] = "parked"
        /\ outcomes'[u] = Append(outcomes[u], OutcomeOf(asked[u], Head(results[u])))
    BY <1>3 DEF TakeResults, Move, TypeOK
  <2>2. svcLock[u] = w /\ w # NoThread BY <2>1, NoThreadAssumption DEF RoundHeld, Threads
  <2>3. results[u] = <<Results(asked[u])>>
    BY <1>0, <2>1, <2>2 DEF RoundSomewhere, RoundPlaced, RoundQueued, RoundOut, RoundBack
  <2>4. Head(results[u]).ids = CallIds(asked[u]) BY <2>3 DEF Results
  <2>5. OutcomeOf(asked[u], Head(results[u])).kind # "invalid"
    BY <2>4 DEF OutcomeOf, Outcome
  <2> QED BY <1>2, <2>1, <2>5
<1>4. ASSUME NEW w \in Threads, Withdraw(u, w)
      PROVE  FALSE
  <2>1. outcomes'[u] = Append(outcomes[u], Outcome(asked[u], "timeout", 0))
    BY <1>4 DEF Withdraw, TypeOK
  <2> QED BY <1>2, <2>1 DEF Outcome
<1>5. \/ outcomes'[u] = outcomes[u]
      \/ \E w \in Threads : TakeResults(u, w) \/ Withdraw(u, w)
  <2>1. \/ UNCHANGED outcomes
        \/ \E t \in Turns, w \in Threads : TakeResults(t, w) \/ Withdraw(t, w)
    BY ZenonT(60) DEF vars, Next, StartTurn, Proxy, RunRound, AbandonRound, Resume, GiveUp, Handler,
           AcceptResults, RejectResults, ClearPending, PutResults, AnswerPending, AnswerFinal,
           Runtime, EnterCompressor, FinishTurn, Finish, Service, BeginRound, Announce,
           WaitExpires, Miner, LeaveCompressor, Spawn, ThreadEnds, CallService,
           proxyVars, minerVars
  <2>2. ASSUME NEW t \in Turns, NEW w \in Threads, TakeResults(t, w) \/ Withdraw(t, w), t # u
        PROVE  outcomes'[u] = outcomes[u]
    BY <2>2, SMTT(30) DEF TakeResults, Withdraw, TypeOK
  <2> QED BY <2>1, <2>2
<1> QED BY <1>1, <1>3, <1>4, <1>5

LEMMA InitRound == Init => RoundInv
<1> SUFFICES ASSUME Init PROVE RoundInv
  OBVIOUS
<1>1. TypeOK BY InitType
<1>2. RoundHeld BY NoThreadAssumption DEF Init, RoundHeld, Threads
<1>3. HandlerServes /\ SessionKept
  BY DEF Init, HandlerServes, SessionKept, Active, InProxy
<1>4. RoundSomewhere
  BY DEF Init, RoundSomewhere, RoundPlaced, NoRound, Quiet, Delivering, InProxy
<1>5. RejectedOnlyAfterExpiry /\ InvalidOnlyAfterExpiry /\ NeverUnknownSession
  BY DEF Init, RejectedOnlyAfterExpiry, InvalidOnlyAfterExpiry, NeverUnknownSession
<1> QED BY <1>1, <1>2, <1>3, <1>4, <1>5 DEF RoundInv

THEOREM RoundInvariance == Spec => []RoundInv
<1>1. RoundInv /\ [Next]_vars => RoundInv'
  BY StepType, HeldStep, ServesStep, SomewhereStep, RefusalStep, InvalidStep DEF RoundInv
<1> QED BY <1>1, InitRound, PTL DEF Spec

\* The proxy's results are refused (400) only in a session one of whose waits
\* has expired.
THEOREM RejectionNeedsExpiry == Spec => []RejectedOnlyAfterExpiry
<1>1. RoundInv => RejectedOnlyAfterExpiry BY DEF RoundInv
<1> QED BY <1>1, RoundInvariance, PTL

\* A round comes back with nothing for its calls only after such an expiry.
THEOREM InvalidNeedsExpiry == Spec => []InvalidOnlyAfterExpiry
<1>1. RoundInv => InvalidOnlyAfterExpiry BY DEF RoundInv
<1> QED BY <1>1, RoundInvariance, PTL

\* The proxy never resumes a session the service has forgotten (404).
THEOREM SessionsOutliveTurns == Spec => []NeverUnknownSession
<1>1. RoundInv => NeverUnknownSession BY DEF RoundInv
<1> QED BY <1>1, RoundInvariance, PTL

-----------------------------------------------------------------------------
(* The refinement: where in a session the number of a round may be, also     *)
(* when waits expire and announcements and results are left in the queues;   *)
(* every step is then a step of BlockingCalls or none.                       *)

\* The last round that is, or has been, in the queue of events.
Announced(t) ==
    IF svcLock[t] # NoThread /\ thread[t][svcLock[t]] = "announce" THEN asked[t] - 1 ELSE asked[t]

\* Every round asked for has returned, but for the one that holds the lock.
Returned(t) == Len(outcomes[t]) = IF svcLock[t] = NoThread THEN asked[t] ELSE asked[t] - 1

\* Announcements wait in the order they were made, all later than the one last
\* handed to the proxy; a round nobody waits for any more is among them.
InOrder(t) ==
    /\ held[t] <= Announced(t)
    /\ \A i \in DOMAIN events[t] : events[t][i].kind = "pending" =>
          /\ held[t] < events[t][i].round /\ events[t][i].round <= Announced(t)
          /\ \A j \in DOMAIN events[t] : i < j /\ events[t][j].kind = "pending" =>
                events[t][i].round < events[t][j].round

HasRun(t, k) == \E i \in DOMAIN executed[t] : executed[t][i] = k

\* The proxy executes no round twice or out of order, and what it delivers is of
\* a round that it has executed, be it one that was given up.
Once(t) ==
    /\ \A i, j \in DOMAIN executed[t] : i < j => executed[t][i] < executed[t][j]
    /\ \A i \in DOMAIN executed[t] : 1 <= executed[t][i] /\ executed[t][i] <= held[t]
    /\ turn[t] = "round" => 1 <= held[t] /\ \A i \in DOMAIN executed[t] : executed[t][i] < held[t]
    /\ turn[t] = "resume" \/ Delivering(t) => HasRun(t, held[t])
    /\ \A i \in DOMAIN results[t] :
          results[t][i].ids = results[t][i].from /\ HasRun(t, results[t][i].from)

CallsOf(t) == Returned(t) /\ InOrder(t) /\ Once(t)
CallsInv == \A t \in Turns : CallsOf(t)

-----------------------------------------------------------------------------
(* Steps and what they leave alone.                                          *)

Step(t) == StartTurn(t) \/ Proxy(t) \/ Handler(t) \/ Runtime(t) \/ Miner(t)

\* A step of one turn touches nothing of another's session.
LEMMA OthersUntouched ==
  ASSUME TypeOK, NEW t \in Turns, Step(t), NEW u \in Turns, u # t
  PROVE  /\ turn'[u] = turn[u] /\ handler'[u] = handler[u] /\ held'[u] = held[u]
         /\ executed'[u] = executed[u] /\ thread'[u] = thread[u] /\ svcLock'[u] = svcLock[u]
         /\ asked'[u] = asked[u] /\ events'[u] = events[u] /\ results'[u] = results[u]
         /\ outcomes'[u] = outcomes[u]
<1> USE DEF TypeOK, Move
<1>1. CASE StartTurn(t) BY <1>1 DEF StartTurn
<1>2. CASE Proxy(t) BY <1>2, SMTT(30) DEF Proxy, RunRound, AbandonRound, Resume, GiveUp, minerVars
<1>3. CASE Handler(t)
  BY <1>3, ReplyEffect, ZenonT(60) DEF Handler, AcceptResults, RejectResults, ClearPending, PutResults,
     AnswerPending, AnswerFinal, proxyVars, minerVars
<1>4. CASE EnterCompressor(t) BY <1>4 DEF EnterCompressor, proxyVars
<1>5. ASSUME NEW how, NEW kind, Finish(t, how, kind)
      PROVE  /\ turn'[u] = turn[u] /\ handler'[u] = handler[u] /\ held'[u] = held[u]
             /\ executed'[u] = executed[u] /\ thread'[u] = thread[u] /\ svcLock'[u] = svcLock[u]
             /\ asked'[u] = asked[u] /\ events'[u] = events[u] /\ results'[u] = results[u]
             /\ outcomes'[u] = outcomes[u]
  <2>1. CASE handler[t] = "plain" BY <1>5, <2>1, ReplyEffect DEF Finish
  <2>2. CASE handler[t] # "plain" BY <1>5, <2>2 DEF Finish
  <2> QED BY <2>1, <2>2
<1>6. ASSUME NEW w \in Threads, Service(t, w)
      PROVE  /\ turn'[u] = turn[u] /\ handler'[u] = handler[u] /\ held'[u] = held[u]
             /\ executed'[u] = executed[u] /\ thread'[u] = thread[u] /\ svcLock'[u] = svcLock[u]
             /\ asked'[u] = asked[u] /\ events'[u] = events[u] /\ results'[u] = results[u]
             /\ outcomes'[u] = outcomes[u]
  BY <1>6, SMTT(30) DEF Service, BeginRound, Announce, TakeResults, WaitExpires, Withdraw, proxyVars
<1>7. CASE Miner(t)
  BY <1>7, SMTT(30) DEF Miner, LeaveCompressor, Spawn, ThreadEnds, CallService, proxyVars
<1> QED BY <1>1, <1>2, <1>3, <1>4, <1>5, <1>6, <1>7 DEF Step, Runtime, FinishTurn

\* What counts is kept by a step that moves a turn or a handler on, but neither
\* brings the turn to the proxy nor starts a delivery.
LEMMA CallsKept ==
  ASSUME NEW u \in Turns, CallsOf(u),
         turn'[u] \in {"round", "resume"} => turn'[u] = turn[u],
         Delivering(u)' => Delivering(u),
         held'[u] = held[u], executed'[u] = executed[u], svcLock'[u] = svcLock[u],
         thread'[u][svcLock[u]] = thread[u][svcLock[u]], asked'[u] = asked[u],
         events'[u] = events[u], results'[u] = results[u], outcomes'[u] = outcomes[u]
  PROVE  CallsOf(u)'
<1>1. Returned(u)' BY DEF CallsOf, Returned
<1>2. InOrder(u)' BY DEF CallsOf, InOrder, Announced
<1>3. Once(u)' BY DEF CallsOf, Once, HasRun
<1> QED BY <1>1, <1>2, <1>3 DEF CallsOf

-----------------------------------------------------------------------------
(* One lemma for each group of actions.                                      *)

LEMMA StartCalls ==
  ASSUME TypeOK, RoundHeld, NEW t \in Turns, StartTurn(t), CallsOf(t)
  PROVE  CallsOf(t)'
<1>1. Main \in Threads BY DEF Threads
<1>2. thread'[t][svcLock[t]] = thread[t][svcLock[t]]
  BY <1>1, MoveElsewhere DEF StartTurn
<1>3. turn'[t] = "posted" /\ handler'[t] \in {"wait", "plain"} BY DEF StartTurn, TypeOK
<1>4. UNCHANGED <<held, executed, svcLock, asked, events, results, outcomes>> BY DEF StartTurn
<1> QED BY <1>2, <1>3, <1>4, CallsKept DEF Delivering

LEMMA ProxyCalls ==
  ASSUME TypeOK, HandlerServes, NEW t \in Turns, Proxy(t), CallsOf(t)
  PROVE  CallsOf(t)'
<1>1. UNCHANGED <<held, svcLock, thread, asked, events, results, outcomes>>
  BY DEF Proxy, RunRound, AbandonRound, Resume, GiveUp, minerVars
<1>2. CASE AbandonRound(t) \/ GiveUp(t)
  <2>1. turn'[t] = "failed" /\ UNCHANGED <<handler, executed>>
    BY <1>2 DEF AbandonRound, GiveUp, TypeOK
  <2> QED BY <1>1, <2>1, CallsKept DEF Delivering
<1>3. CASE RunRound(t)
  <2>1. /\ turn[t] = "round" /\ turn'[t] = "resume" /\ UNCHANGED handler
        /\ executed'[t] = Append(executed[t], held[t])
    BY <1>3 DEF RunRound, TypeOK
  <2>2. executed[t] \in Seq(Nat) /\ held[t] \in Nat BY DEF TypeOK
  <2>3. 1 <= held[t] /\ \A i \in DOMAIN executed[t] : executed[t][i] < held[t]
    BY <2>1 DEF CallsOf, Once
  <2>4. \A i, j \in DOMAIN executed'[t] : i < j => executed'[t][i] < executed'[t][j]
    BY <2>1, <2>2, <2>3 DEF CallsOf, Once
  <2>5. \A i \in DOMAIN executed'[t] : 1 <= executed'[t][i] /\ executed'[t][i] <= held[t]
    BY <2>1, <2>2, <2>3 DEF CallsOf, Once
  <2>6. HasRun(t, held[t])' BY <1>1, <2>1, <2>2 DEF HasRun
  <2>7. ASSUME NEW k, HasRun(t, k) PROVE HasRun(t, k)'
    <3>1. PICK i \in DOMAIN executed[t] : executed[t][i] = k BY <2>7 DEF HasRun
    <3>2. i \in DOMAIN executed'[t] /\ executed'[t][i] = k BY <2>1, <2>2, <3>1
    <3> QED BY <3>2 DEF HasRun
  <2>8. Once(t)'
    BY <1>1, <2>1, <2>4, <2>5, <2>6, <2>7 DEF CallsOf, Once
  <2> QED BY <1>1, <2>8 DEF CallsOf, Returned, InOrder, Announced
<1>4. CASE Resume(t)
  <2>1. /\ turn[t] = "resume" /\ turn'[t] \in {"posted", "failed"} /\ UNCHANGED executed
    BY <1>4 DEF Resume, TypeOK
  <2>2. HasRun(t, held[t]) BY <2>1 DEF CallsOf, Once
  <2>3. Once(t)' BY <1>1, <2>1, <2>2 DEF CallsOf, Once, HasRun
  <2> QED BY <1>1, <2>3 DEF CallsOf, Returned, InOrder, Announced
<1> QED BY <1>2, <1>3, <1>4 DEF Proxy

LEMMA TailElements ==
  ASSUME NEW S, NEW s \in Seq(S), s # <<>>
  PROVE  \A i \in DOMAIN Tail(s) : Tail(s)[i] = s[i + 1] /\ i + 1 \in DOMAIN s
  OBVIOUS

\* A queue that has lost its head is in order as before.
LEMMA TailInOrder ==
  ASSUME TypeOK, NEW t \in Turns, InOrder(t), events[t] # <<>>, events'[t] = Tail(events[t]),
         UNCHANGED <<svcLock, thread, asked>>,
         \/ held'[t] = held[t]
         \/ Head(events[t]).kind = "pending" /\ held'[t] = Head(events[t]).round
  PROVE  InOrder(t)'
<1>1. events[t] \in Seq(Event) /\ Len(events[t]) >= 1 /\ held[t] \in Nat BY DEF TypeOK
<1>2. \A i \in DOMAIN Tail(events[t]) : Tail(events[t])[i] = events[t][i + 1] /\ i + 1 \in DOMAIN events[t]
  BY <1>1, TailElements
<1>3. 1 \in DOMAIN events[t] /\ Head(events[t]) = events[t][1] BY <1>1
<1>4. Announced(t)' = Announced(t) BY DEF Announced
<1>5. held'[t] <= Announced(t) BY <1>3 DEF InOrder
<1>6. ASSUME NEW i \in DOMAIN Tail(events[t]), Tail(events[t])[i].kind = "pending"
      PROVE  /\ held'[t] < Tail(events[t])[i].round /\ Tail(events[t])[i].round <= Announced(t)
             /\ \A j \in DOMAIN Tail(events[t]) : i < j /\ Tail(events[t])[j].kind = "pending" =>
                   Tail(events[t])[i].round < Tail(events[t])[j].round
  <2>1. i + 1 \in DOMAIN events[t] /\ events[t][i + 1].kind = "pending" /\ 1 < i + 1
    BY <1>1, <1>2, <1>6
  <2>2. held'[t] < events[t][i + 1].round BY <1>3, <2>1 DEF InOrder
  <2>3. events[t][i + 1].round <= Announced(t) BY <2>1 DEF InOrder
  <2>4. ASSUME NEW j \in DOMAIN Tail(events[t]), i < j, Tail(events[t])[j].kind = "pending"
        PROVE  events[t][i + 1].round < events[t][j + 1].round
    <3>1. j + 1 \in DOMAIN events[t] /\ events[t][j + 1].kind = "pending" /\ i + 1 < j + 1
      BY <1>1, <1>2, <2>4
    <3> QED BY <2>1, <3>1 DEF InOrder
  <2> QED BY <1>2, <2>2, <2>3, <2>4
<1> QED BY <1>4, <1>5, <1>6 DEF InOrder

LEMMA HandlerCalls ==
  ASSUME TypeOK, HandlerServes, NEW t \in Turns, Handler(t), CallsOf(t)
  PROVE  CallsOf(t)'
<1>1. UNCHANGED <<executed, svcLock, thread, asked, outcomes>>
  BY DEF Handler, AcceptResults, RejectResults, ClearPending, PutResults, AnswerPending,
         AnswerFinal, proxyVars, minerVars
<1>2. turn[t] \in {"posted", "failed"}
  BY DEF Handler, AcceptResults, RejectResults, ClearPending, PutResults, AnswerPending,
         AnswerFinal, HandlerServes
<1>3. CASE AcceptResults(t) \/ ClearPending(t)
  <2>1. Delivering(t) /\ UNCHANGED <<turn, held, events, results>>
    BY <1>3 DEF AcceptResults, ClearPending, Delivering, proxyVars
  <2> QED BY <1>1, <2>1, CallsKept
<1>4. CASE RejectResults(t)
  <2>1. Reply(t, "400", "failed") /\ UNCHANGED <<held, events, results>>
    BY <1>4 DEF RejectResults
  <2>2. handler'[t] = "none" /\ turn'[t] = "failed" BY <1>2, <2>1, ReplyEffect
  <2> QED BY <1>1, <2>1, <2>2, CallsKept DEF Delivering
<1>5. CASE PutResults(t)
  <2>1. /\ handler[t] = "put" /\ handler'[t] = "wait" /\ UNCHANGED <<turn, held, events>>
        /\ results'[t] = Append(results[t], Results(held[t]))
    BY <1>5 DEF PutResults, proxyVars, TypeOK
  <2>2. HasRun(t, held[t]) BY <2>1 DEF CallsOf, Once, Delivering
  <2>3. results[t] \in Seq([ids : Nat, from : Nat]) BY DEF TypeOK
  <2>4. Results(held[t]).ids = held[t] /\ Results(held[t]).from = held[t] BY DEF Results, CallIds
  <2>5. ASSUME NEW i \in DOMAIN results'[t]
        PROVE  results'[t][i].ids = results'[t][i].from /\ HasRun(t, results'[t][i].from)
    BY <2>1, <2>2, <2>3, <2>4 DEF CallsOf, Once
  <2>6. Once(t)' BY <1>1, <1>2, <2>1, <2>5 DEF CallsOf, Once, HasRun, Delivering
  <2> QED BY <1>1, <2>1, <2>6 DEF CallsOf, Returned, InOrder, Announced
<1>6. CASE AnswerPending(t)
  <2>1. /\ events[t] # <<>> /\ Head(events[t]).kind = "pending" /\ UNCHANGED results
        /\ events'[t] = Tail(events[t]) /\ held'[t] = Head(events[t]).round
        /\ Reply(t, "pending", "round")
    BY <1>6 DEF AnswerPending, TypeOK
  <2>2. handler'[t] = "none" /\ turn'[t] \in {"round", "failed"} BY <1>2, <2>1, ReplyEffect
  <2>3. InOrder(t)' BY <1>1, <2>1, TailInOrder DEF CallsOf
  <2>4. held[t] < held'[t]
    <3>1. events[t] \in Seq(Event) BY DEF TypeOK
    <3>2. 1 \in DOMAIN events[t] /\ Head(events[t]) = events[t][1] BY <2>1, <3>1
    <3> QED BY <2>1, <3>2 DEF CallsOf, InOrder
  <2>5. held[t] \in Nat /\ held'[t] \in Nat /\ executed[t] \in Seq(Nat)
    <3>1. Head(events[t]) \in Event BY <2>1, HeadTail DEF TypeOK
    <3> QED BY <2>1, <3>1 DEF TypeOK, Event
  <2>6. \A i \in DOMAIN executed[t] : executed[t][i] < held'[t]
    BY <2>4, <2>5 DEF CallsOf, Once
  <2>7. Once(t)'
    BY <1>1, <2>1, <2>2, <2>4, <2>5, <2>6 DEF CallsOf, Once, HasRun, Delivering
  <2> QED BY <1>1, <2>3, <2>7 DEF CallsOf, Returned
<1>7. CASE AnswerFinal(t)
  <2>1. /\ events[t] # <<>> /\ events'[t] = Tail(events[t]) /\ UNCHANGED <<held, results>>
        /\ Reply(t, "payload", "done") \/ Reply(t, "500", "failed")
    BY <1>7 DEF AnswerFinal, TypeOK
  <2>2. handler'[t] = "none" /\ turn'[t] \in {"done", "failed"} BY <1>2, <2>1, ReplyEffect
  <2>3. InOrder(t)' BY <1>1, <2>1, TailInOrder DEF CallsOf
  <2>4. Once(t)' BY <1>1, <2>1, <2>2 DEF CallsOf, Once, HasRun, Delivering
  <2> QED BY <1>1, <2>3, <2>4 DEF CallsOf, Returned
<1> QED BY <1>3, <1>4, <1>5, <1>6, <1>7 DEF Handler

LEMMA FinishCalls ==
  ASSUME TypeOK, RoundHeld, HandlerServes, NEW t \in Turns, NEW how \in {"returned", "raised"},
         NEW kind \in {"done", "error"}, Finish(t, how, kind), CallsOf(t)
  PROVE  CallsOf(t)'
<1>0. Main \in Threads BY DEF Threads
<1>1. UNCHANGED <<held, executed, svcLock, asked, results, outcomes>> BY DEF Finish
<1>2. thread'[t][svcLock[t]] = thread[t][svcLock[t]] BY <1>0, MoveElsewhere DEF Finish
<1>3. CASE handler[t] = "plain"
  <2>1. UNCHANGED events /\ (Reply(t, "payload", "done") \/ Reply(t, "500", "failed"))
    BY <1>3 DEF Finish
  <2>2. turn[t] \in {"posted", "failed"} BY <1>3 DEF HandlerServes
  <2>3. handler'[t] = "none" /\ turn'[t] \in {"done", "failed"} BY <2>1, <2>2, ReplyEffect
  <2> QED BY <1>1, <1>2, <2>1, <2>3, CallsKept DEF Delivering
<1>4. CASE handler[t] # "plain"
  <2>1. UNCHANGED <<turn, handler>> /\ events'[t] = Append(events[t], Final(kind))
    BY <1>4 DEF Finish, TypeOK
  <2>2. events[t] \in Seq(Event) /\ Final(kind).kind # "pending" BY DEF TypeOK, Final
  <2>3. \A i \in DOMAIN events'[t] : events'[t][i].kind = "pending" =>
           i \in DOMAIN events[t] /\ events'[t][i] = events[t][i]
    BY <2>1, <2>2
  <2>4. Announced(t)' = Announced(t) BY <1>1, <1>2 DEF Announced
  <2>5. InOrder(t)' BY <1>1, <2>3, <2>4 DEF CallsOf, InOrder
  <2>6. Once(t)' BY <1>1, <2>1 DEF CallsOf, Once, HasRun, Delivering
  <2> QED BY <1>1, <2>5, <2>6 DEF CallsOf, Returned
<1> QED BY <1>3, <1>4

\* The miner and the service start and end threads beside the one in a round.
LEMMA MinerCalls ==
  ASSUME TypeOK, RoundHeld, NEW t \in Turns, Miner(t) \/ EnterCompressor(t), CallsOf(t)
  PROVE  CallsOf(t)'
<1>0. Main \in Threads BY DEF Threads
<1>1. UNCHANGED <<turn, handler, held, executed, svcLock, asked, events, results, outcomes>>
  BY DEF Miner, EnterCompressor, LeaveCompressor, Spawn, ThreadEnds, CallService, proxyVars
<1>2. PICK w \in Threads, from \in {"lockwait", "run", "out"}, to \in ThreadStates : Move(t, w, from, to)
  BY <1>0 DEF Miner, EnterCompressor, LeaveCompressor, Spawn, ThreadEnds, CallService, ThreadStates
<1>3. thread'[t][svcLock[t]] = thread[t][svcLock[t]] BY <1>2, MoveElsewhere
<1> QED BY <1>1, <1>3, CallsKept DEF Delivering

\* A call that begins finds the lock free, one in a round holds it.
LEMMA Holding ==
  ASSUME TypeOK, RoundHeld, NEW t \in Turns, NEW w \in Threads, Service(t, w)
  PROVE  /\ w # NoThread
         /\ BeginRound(t, w) \/ svcLock[t] = w
<1>1. w # NoThread BY NoThreadAssumption DEF Threads
<1>2. CASE BeginRound(t, w) BY <1>1, <1>2
<1>3. CASE ~BeginRound(t, w)
  <2>1. thread[t][w] \in {"announce", "parked", "expiring"}
    BY <1>3 DEF Service, Announce, TakeResults, WaitExpires, Withdraw, Move
  <2> QED BY <1>1, <2>1 DEF RoundHeld
<1> QED BY <1>2, <1>3

LEMMA BeginCalls ==
  ASSUME TypeOK, NEW t \in Turns, NEW w \in Threads, w # NoThread, BeginRound(t, w), CallsOf(t)
  PROVE  CallsOf(t)'
<1>1. /\ svcLock[t] = NoThread /\ svcLock'[t] = w /\ asked'[t] = asked[t] + 1
      /\ UNCHANGED <<turn, handler, held, executed, events, results, outcomes>>
  BY DEF BeginRound, proxyVars, TypeOK
<1>2. thread'[t][w] = "announce" BY MoveThread DEF BeginRound
<1>3. asked[t] \in Nat BY DEF TypeOK
<1>4. Announced(t)' = Announced(t) BY <1>1, <1>2, <1>3 DEF Announced
<1>5. Returned(t)' BY <1>1, <1>3 DEF CallsOf, Returned
<1>6. InOrder(t)' BY <1>1, <1>4 DEF CallsOf, InOrder
<1>7. Once(t)' BY <1>1 DEF CallsOf, Once, HasRun, Delivering
<1> QED BY <1>5, <1>6, <1>7 DEF CallsOf

LEMMA AnnounceCalls ==
  ASSUME TypeOK, NEW t \in Turns, NEW w \in Threads, svcLock[t] = w, w # NoThread,
         Announce(t, w), CallsOf(t)
  PROVE  CallsOf(t)'
<1>1. /\ events'[t] = Append(events[t], Pending(asked[t]))
      /\ UNCHANGED <<turn, handler, held, executed, svcLock, asked, results, outcomes>>
  BY DEF Announce, proxyVars, TypeOK
<1>2. thread[t][w] = "announce" /\ thread'[t][w] = "parked" BY MoveThread DEF Announce
<1>3. asked[t] \in Nat /\ held[t] \in Nat /\ events[t] \in Seq(Event) BY DEF TypeOK
<1>4. Announced(t) = asked[t] - 1 /\ Announced(t)' = asked[t] BY <1>1, <1>2 DEF Announced
<1>5. Pending(asked[t]).round = asked[t] BY DEF Pending
<1>6. \A i \in DOMAIN events[t] : events[t][i].round \in Int BY <1>3 DEF Event
<1>7. /\ DOMAIN events'[t] = DOMAIN events[t] \cup {Len(events[t]) + 1}
      /\ \A i \in DOMAIN events[t] : events'[t][i] = events[t][i] /\ i < Len(events[t]) + 1
      /\ events'[t][Len(events[t]) + 1] = Pending(asked[t])
  BY <1>1, <1>3
<1>8. InOrder(t)'
  <2>1. held[t] < asked[t] BY <1>3, <1>4 DEF CallsOf, InOrder
  <2>2. ASSUME NEW i \in DOMAIN events[t], events[t][i].kind = "pending"
        PROVE  held[t] < events[t][i].round /\ events[t][i].round < asked[t]
    BY <1>3, <1>4, <1>6, <2>2 DEF CallsOf, InOrder
  <2>3. ASSUME NEW i \in DOMAIN events[t], NEW j \in DOMAIN events[t], i < j,
               events[t][i].kind = "pending", events[t][j].kind = "pending"
        PROVE  events[t][i].round < events[t][j].round
    BY <2>3 DEF CallsOf, InOrder
  <2>4. ASSUME NEW i \in DOMAIN events'[t], events'[t][i].kind = "pending"
        PROVE  held[t] < events'[t][i].round /\ events'[t][i].round <= asked[t]
    BY <1>3, <1>5, <1>6, <1>7, <2>1, <2>2, <2>4
  <2>5. ASSUME NEW i \in DOMAIN events'[t], NEW j \in DOMAIN events'[t], i < j,
               events'[t][i].kind = "pending", events'[t][j].kind = "pending"
        PROVE  events'[t][i].round < events'[t][j].round
    <3>1. i \in DOMAIN events[t] BY <1>3, <1>7, <2>5
    <3>2. CASE j \in DOMAIN events[t] BY <1>7, <2>3, <2>5, <3>1, <3>2
    <3>3. CASE j = Len(events[t]) + 1 BY <1>5, <1>7, <2>2, <2>5, <3>1, <3>3
    <3> QED BY <1>7, <3>2, <3>3
  <2>6. held'[t] <= Announced(t)' BY <1>1, <1>3, <1>4, <2>1
  <2> QED BY <1>1, <1>4, <2>4, <2>5, <2>6 DEF InOrder
<1>9. Once(t)' BY <1>1 DEF CallsOf, Once, HasRun, Delivering
<1> QED BY <1>1, <1>8, <1>9 DEF CallsOf, Returned

LEMMA TakeCalls ==
  ASSUME TypeOK, NEW t \in Turns, NEW w \in Threads, svcLock[t] = w, w # NoThread,
         TakeResults(t, w), CallsOf(t)
  PROVE  CallsOf(t)'
<1>1. /\ results[t] # <<>> /\ results'[t] = Tail(results[t]) /\ svcLock'[t] = NoThread
      /\ outcomes'[t] = Append(outcomes[t], OutcomeOf(asked[t], Head(results[t])))
      /\ thread[t][w] = "parked"
      /\ UNCHANGED <<turn, handler, held, executed, asked, events>>
  BY DEF TakeResults, proxyVars, Move, TypeOK
<1>2. /\ asked[t] \in Nat /\ results[t] \in Seq([ids : Nat, from : Nat])
      /\ outcomes[t] \in Seq([round : Nat, kind : {"answered", "invalid", "timeout"}, from : Nat])
  BY DEF TypeOK
<1>3. Announced(t)' = Announced(t) BY <1>1 DEF Announced
<1>4. Returned(t)'
  <2>1. Len(outcomes'[t]) = Len(outcomes[t]) + 1 BY <1>1, <1>2
  <2>2. Len(outcomes[t]) = asked[t] - 1 BY DEF CallsOf, Returned
  <2> QED BY <1>1, <1>2, <2>1, <2>2 DEF Returned
<1>5. InOrder(t)' BY <1>1, <1>3 DEF CallsOf, InOrder
<1>6. \A i \in DOMAIN Tail(results[t]) :
         Tail(results[t])[i] = results[t][i + 1] /\ i + 1 \in DOMAIN results[t]
  BY <1>1, <1>2, TailElements
<1>7. Once(t)' BY <1>1, <1>6 DEF CallsOf, Once, HasRun, Delivering
<1> QED BY <1>4, <1>5, <1>7 DEF CallsOf

LEMMA ExpireCalls ==
  ASSUME TypeOK, NEW t \in Turns, NEW w \in Threads, svcLock[t] = w, w # NoThread,
         WaitExpires(t, w) \/ Withdraw(t, w), CallsOf(t)
  PROVE  CallsOf(t)'
<1>1. UNCHANGED <<turn, handler, held, executed, asked, events, results>>
  BY DEF WaitExpires, Withdraw, proxyVars
<1>2. thread[t][w] # "announce" /\ thread'[t][w] # "announce"
  BY MoveThread DEF WaitExpires, Withdraw
<1>3. CASE WaitExpires(t, w)
  <2>1. UNCHANGED <<svcLock, outcomes>> BY <1>3 DEF WaitExpires
  <2>2. Announced(t)' = Announced(t) BY <1>1, <1>2, <2>1 DEF Announced
  <2> QED BY <1>1, <2>1, <2>2 DEF CallsOf, Returned, InOrder, Once, HasRun, Delivering
<1>4. CASE Withdraw(t, w)
  <2>1. /\ svcLock'[t] = NoThread
        /\ outcomes'[t] = Append(outcomes[t], Outcome(asked[t], "timeout", 0))
    BY <1>4 DEF Withdraw, TypeOK
  <2>2. Announced(t)' = Announced(t) BY <1>1, <1>2, <2>1 DEF Announced
  <2>3. Len(outcomes'[t]) = Len(outcomes[t]) + 1 /\ asked[t] \in Nat BY <2>1 DEF TypeOK
  <2>4. Len(outcomes[t]) = asked[t] - 1 BY DEF CallsOf, Returned
  <2>5. Len(outcomes'[t]) = asked[t] BY <2>3, <2>4
  <2> QED BY <1>1, <2>1, <2>2, <2>5 DEF CallsOf, Returned, InOrder, Once, HasRun, Delivering
<1> QED BY <1>3, <1>4

-----------------------------------------------------------------------------
(* The invariant of the calls.                                               *)

LEMMA InitCalls == Init => CallsInv
<1> SUFFICES ASSUME Init, NEW t \in Turns PROVE CallsOf(t) BY DEF CallsInv
<1>1. Returned(t) BY DEF Init, Returned
<1>2. InOrder(t) BY NoThreadAssumption DEF Init, InOrder, Announced
<1>3. Once(t) BY DEF Init, Once, HasRun, Delivering
<1> QED BY <1>1, <1>2, <1>3 DEF CallsOf

LEMMA StepCalls == RoundInv /\ CallsInv /\ [Next]_vars => CallsInv'
<1> SUFFICES ASSUME TypeOK, RoundHeld, HandlerServes, CallsInv, [Next]_vars, NEW u \in Turns
             PROVE  CallsOf(u)'
  BY DEF RoundInv, CallsInv
<1>1. CallsOf(u) BY DEF CallsInv
<1>2. CASE UNCHANGED vars BY <1>1, <1>2, CallsKept DEF vars, Delivering
<1>3. ASSUME NEW t \in Turns, Step(t), u # t PROVE CallsOf(u)'
  BY <1>1, <1>3, OthersUntouched, CallsKept DEF Delivering
<1>4. CASE Step(u)
  <2>1. CASE StartTurn(u) \/ Proxy(u) \/ Handler(u)
    BY <1>1, <2>1, StartCalls, ProxyCalls, HandlerCalls
  <2>2. CASE Miner(u) \/ EnterCompressor(u) BY <1>1, <2>2, MinerCalls
  <2>3. CASE FinishTurn(u) BY <1>1, <2>3, FinishCalls DEF FinishTurn
  <2>4. ASSUME NEW w \in Threads, Service(u, w) PROVE CallsOf(u)'
    <3>1. w # NoThread /\ (BeginRound(u, w) \/ svcLock[u] = w) BY <2>4, Holding
    <3> QED BY <1>1, <2>4, <3>1, BeginCalls, AnnounceCalls, TakeCalls, ExpireCalls DEF Service
  <2> QED BY <1>4, <2>1, <2>2, <2>3, <2>4 DEF Step, Runtime
<1> QED BY <1>2, <1>3, <1>4 DEF Next, Step

\* The rounds of a session, their announcements, executions and results are in
\* the order and the number that the protocol needs, expired or not.
THEOREM CallsInvariance == Spec => []CallsInv
  BY InitCalls, StepCalls, RoundInvariance, PTL DEF Spec

-----------------------------------------------------------------------------
(* The refinement, step by step.                                             *)

OverTurns == {t \in Turns : Over(t)}

\* A turn that is over stays as it is.
LEMMA OverStays ==
  ASSUME TypeOK, HandlerServes, NEW t \in Turns, Step(t), Over(t)
  PROVE  turn'[t] = turn[t]
<1> USE DEF Over
<1>1. CASE StartTurn(t) BY <1>1 DEF StartTurn
<1>2. CASE Proxy(t) BY <1>2 DEF Proxy, RunRound, AbandonRound, Resume, GiveUp
<1>3. CASE Handler(t)
  BY <1>3, ReplyEffect DEF Handler, AcceptResults, RejectResults, ClearPending, PutResults,
     AnswerPending, AnswerFinal, proxyVars
<1>4. CASE EnterCompressor(t) \/ Miner(t)
  BY <1>4 DEF EnterCompressor, Miner, LeaveCompressor, Spawn, ThreadEnds, CallService, proxyVars
<1>5. ASSUME NEW how, NEW kind, Finish(t, how, kind) PROVE turn'[t] = turn[t]
  BY <1>5, ReplyEffect DEF Finish
<1>6. ASSUME NEW w \in Threads, Service(t, w) PROVE turn'[t] = turn[t]
  BY <1>6 DEF Service, BeginRound, Announce, TakeResults, WaitExpires, Withdraw, proxyVars
<1> QED BY <1>1, <1>2, <1>3, <1>4, <1>5, <1>6 DEF Step, Runtime, FinishTurn

\* Any step that asks, executes and returns nothing ends a turn or is not seen.
LEMMA UnseenStep ==
  ASSUME TypeOK, HandlerServes, NEW t \in Turns, Step(t), UNCHANGED <<asked, executed, outcomes>>
  PROVE  [Calls!Next]_(Calls!vars)
<1>1. \A u \in Turns : u # t => turn'[u] = turn[u] BY OthersUntouched
<1>2. Over(t) => turn'[t] = turn[t] BY OverStays
<1>3. CASE Over(t) \/ ~Over(t)'
  <2>1. OverTurns' = OverTurns BY <1>1, <1>2, <1>3 DEF OverTurns, Over
  <2> QED BY <2>1 DEF OverTurns, Calls!vars
<1>4. CASE ~Over(t) /\ Over(t)'
  <2>1. OverTurns' = OverTurns \cup {t} /\ t \notin OverTurns
    BY <1>1, <1>4 DEF OverTurns, Over
  <2>2. Calls!End(t) BY <2>1 DEF OverTurns, Calls!End
  <2> QED BY <2>2 DEF Calls!Next
<1> QED BY <1>3, <1>4

\* The turns that are over are the same as before.
LEMMA OverSame == ASSUME UNCHANGED turn PROVE OverTurns' = OverTurns
  BY DEF OverTurns, Over

\* BeginRound is the moment a call is asked for.
LEMMA AskStep ==
  ASSUME TypeOK, CallsInv, NEW t \in Turns, NEW w \in Threads, BeginRound(t, w)
  PROVE  Calls!Ask(t)
<1>1. svcLock[t] = NoThread /\ asked' = [asked EXCEPT ![t] = @ + 1]
      /\ UNCHANGED <<turn, executed, outcomes>>
  BY DEF BeginRound, proxyVars
<1>2. Len(outcomes[t]) = asked[t] BY <1>1 DEF CallsInv, CallsOf, Returned
<1>3. OverTurns' = OverTurns BY <1>1, OverSame
<1> QED BY <1>1, <1>2, <1>3 DEF Calls!Ask, OverTurns

\* The proxy executes a round while its turn goes on, later than all before it.
LEMMA ExecuteStep ==
  ASSUME TypeOK, CallsInv, NEW t \in Turns, RunRound(t)
  PROVE  Calls!Execute(t)
<1>1. /\ turn[t] = "round" /\ turn' = [turn EXCEPT ![t] = "resume"]
      /\ executed' = [executed EXCEPT ![t] = Append(@, held[t])]
      /\ UNCHANGED <<asked, outcomes>>
  BY DEF RunRound, minerVars
<1>2. t \notin OverTurns /\ OverTurns' = OverTurns BY <1>1 DEF OverTurns, Over, TypeOK
<1>3. asked[t] \in Nat /\ held[t] \in Nat BY DEF TypeOK
<1>4. held[t] \in 1 .. asked[t] BY <1>1, <1>3 DEF CallsInv, CallsOf, Once, InOrder, Announced
<1>5. \A i \in DOMAIN executed[t] : executed[t][i] < held[t]
  BY <1>1 DEF CallsInv, CallsOf, Once
<1> QED BY <1>1, <1>2, <1>4, <1>5 DEF Calls!Execute, OverTurns

\* A round returns with its own answers, or with an error.
LEMMA ReturnStep ==
  ASSUME TypeOK, RoundHeld, CallsInv, NEW t \in Turns, NEW w \in Threads,
         TakeResults(t, w) \/ Withdraw(t, w)
  PROVE  Calls!Return(t)
<1>0. svcLock[t] = w /\ w # NoThread
  <2>1. Service(t, w) /\ ~BeginRound(t, w)
    BY DEF Service, BeginRound, TakeResults, Withdraw, Move
  <2> QED BY <2>1, Holding
<1>1. UNCHANGED <<asked, executed, turn>> BY DEF TakeResults, Withdraw, proxyVars
<1>2. OverTurns' = OverTurns BY <1>1, OverSame
<1>3. asked[t] \in Nat /\ Len(outcomes[t]) < asked[t]
  BY <1>0 DEF CallsInv, CallsOf, Returned, TypeOK
<1>4. CASE Withdraw(t, w)
  <2>1. outcomes' = [outcomes EXCEPT ![t] = Append(@, Outcome(asked[t], "timeout", 0))]
    BY <1>4 DEF Withdraw
  <2> QED BY <1>1, <1>2, <1>3, <2>1 DEF Calls!Return, Outcome, OverTurns
<1>5. CASE TakeResults(t, w)
  <2> DEFINE res == Head(results[t])
  <2>1. /\ results[t] # <<>>
        /\ outcomes' = [outcomes EXCEPT ![t] = Append(@, OutcomeOf(asked[t], res))]
    BY <1>5 DEF TakeResults
  <2>2. results[t] \in Seq([ids : Nat, from : Nat]) BY DEF TypeOK
  <2>3. res = results[t][1] /\ 1 \in DOMAIN results[t] BY <2>1, <2>2
  <2>4. res.ids = res.from /\ HasRun(t, res.from)
    BY <2>3 DEF CallsInv, CallsOf, Once
  <2> HIDE DEF res
  <2>5. PICK i \in DOMAIN executed[t] : executed[t][i] = res.from BY <2>4 DEF HasRun
  <2>6. held[t] <= asked[t] /\ held[t] \in Nat
    BY <1>3 DEF CallsInv, CallsOf, InOrder, Announced, TypeOK
  <2>7. res.from \in 1 .. asked[t]
    <3>1. executed[t] \in Seq(Nat) BY DEF TypeOK
    <3> QED BY <1>3, <2>5, <2>6, <3>1 DEF CallsInv, CallsOf, Once
  <2>8. Calls!Executed(t, res.from) BY <2>5 DEF Calls!Executed
  <2>9. CASE res.from = asked[t]
    <3>1. OutcomeOf(asked[t], res) = [round |-> asked[t], kind |-> "answered", from |-> asked[t]]
      BY <2>4, <2>9 DEF OutcomeOf, Outcome, CallIds
    <3> QED BY <1>1, <1>2, <1>3, <2>1, <2>8, <2>9, <3>1 DEF Calls!Return, OverTurns
  <2>10. CASE res.from # asked[t]
    <3>1. OutcomeOf(asked[t], res) = [round |-> asked[t], kind |-> "invalid", from |-> res.from]
      BY <2>4, <2>10 DEF OutcomeOf, Outcome, CallIds
    <3>2. res.from \in 1 .. asked[t] - 1 BY <1>3, <2>7, <2>10
    <3> QED BY <1>1, <1>2, <1>3, <2>1, <2>8, <3>1, <3>2 DEF Calls!Return, OverTurns
  <2> QED BY <2>9, <2>10
<1> QED BY <1>4, <1>5

LEMMA RefinementStep ==
  RoundInv /\ CallsInv /\ [Next]_vars => [Calls!Next]_(Calls!vars)
<1> SUFFICES ASSUME TypeOK, RoundHeld, HandlerServes, CallsInv, [Next]_vars
             PROVE  [Calls!Next]_(Calls!vars)
  BY DEF RoundInv
<1>1. CASE UNCHANGED vars
  <2>1. OverTurns' = OverTurns BY <1>1, OverSame DEF vars
  <2> QED BY <1>1, <2>1 DEF vars, Calls!vars, OverTurns
<1>2. ASSUME NEW t \in Turns, Step(t) PROVE [Calls!Next]_(Calls!vars)
  <2>1. CASE RunRound(t) BY <2>1, ExecuteStep DEF Calls!Next
  <2>2. ASSUME NEW w \in Threads, Service(t, w) PROVE [Calls!Next]_(Calls!vars)
    <3>1. CASE BeginRound(t, w) BY <3>1, AskStep DEF Calls!Next
    <3>2. CASE TakeResults(t, w) \/ Withdraw(t, w) BY <3>2, ReturnStep DEF Calls!Next
    <3>3. CASE Announce(t, w) \/ WaitExpires(t, w)
      <4>1. UNCHANGED <<asked, executed, outcomes>>
        BY <3>3 DEF Announce, WaitExpires, proxyVars
      <4> QED BY <1>2, <4>1, UnseenStep
    <3> QED BY <2>2, <3>1, <3>2, <3>3 DEF Service
  <2>3. CASE UNCHANGED <<asked, executed, outcomes>> BY <1>2, <2>3, UnseenStep
  <2>4. ~RunRound(t) /\ ~(\E w \in Threads : Service(t, w)) => UNCHANGED <<asked, executed, outcomes>>
    BY <1>2 DEF Step, StartTurn, Proxy, AbandonRound, Resume, GiveUp, Handler, AcceptResults,
       RejectResults, ClearPending, PutResults, AnswerPending, AnswerFinal, Runtime,
       EnterCompressor, FinishTurn, Finish, Miner, LeaveCompressor, Spawn, ThreadEnds,
       CallService, proxyVars, minerVars
  <2> QED BY <2>1, <2>2, <2>3, <2>4
<1> QED BY <1>1, <1>2 DEF Next, Step

\* The suspended-call protocol gives its users blocking calls: whatever handlers,
\* threads and timeouts do, a round is executed at most once, in order and while
\* its turn goes on, and returns once, with its own answers or with an error.
THEOREM CallsAreBlocking == Spec => ImplementsBlockingCalls
<1>1. Init => Calls!Init BY DEF Init, Calls!Init, Over
<1>2. RoundInv /\ CallsInv /\ [Next]_vars => [Calls!Next]_(Calls!vars) BY RefinementStep
<1> QED
  BY <1>1, <1>2, RoundInvariance, CallsInvariance, PTL DEF Spec, ImplementsBlockingCalls, Calls!Spec

=============================================================================
