-------------------------- MODULE ExecBrokerProofs --------------------------
(***************************************************************************)
(* Proofs about ExecBroker, for any sizes, caps, deadlines and attempts.   *)
(***************************************************************************)
EXTENDS ExecBroker, SequenceTheorems, TLAPS

-----------------------------------------------------------------------------
(* Sequences and bounds.                                                     *)

LEMMA MinOfTwo == ASSUME NEW a \in Int, NEW b \in Int PROVE Min({a, b}) = IF a <= b THEN a ELSE b
<1> DEFINE m == IF a <= b THEN a ELSE b
<1>1. m \in {a, b} /\ \A y \in {a, b} : m <= y OBVIOUS
<1>2. Min({a, b}) \in {a, b} /\ \A y \in {a, b} : Min({a, b}) <= y BY <1>1 DEF Min
<1> QED BY <1>2

LEMMA MaxOfTwo == ASSUME NEW a \in Int, NEW b \in Int PROVE Max({a, b}) = IF a >= b THEN a ELSE b
<1> DEFINE m == IF a >= b THEN a ELSE b
<1>1. m \in {a, b} /\ \A y \in {a, b} : m >= y OBVIOUS
<1>2. Max({a, b}) \in {a, b} /\ \A y \in {a, b} : Max({a, b}) >= y BY <1>1 DEF Max
<1> QED BY <1>2

\* Two sequences in a row, as one of its own.
LEMMA Concat ==
  ASSUME NEW S, NEW s \in Seq(S), NEW t \in Seq(S), NEW u, u = s \o t
  PROVE  /\ u \in Seq(S) /\ Len(u) = Len(s) + Len(t)
         /\ \A k \in 1 .. Len(s) : u[k] = s[k]
         /\ \A k \in 1 .. Len(t) : u[Len(s) + k] = t[k]
OBVIOUS

\* What is left of a sequence, from m to n.
LEMMA Slice ==
  ASSUME NEW S, NEW s \in Seq(S), NEW m \in Nat, NEW n \in Nat, m >= 1, n <= Len(s),
         NEW u, u = SubSeq(s, m, n)
  PROVE  /\ u \in Seq(S) /\ Len(u) = (IF m <= n + 1 THEN n - m + 1 ELSE 0)
         /\ \A k \in 1 .. Len(u) : u[k] = s[m + k - 1]
<1>1. CASE m <= n + 1
  <2>1. Len(u) = n - m + 1 /\ \A k \in 1 .. Len(u) : u[k] = s[m + k - 1] BY <1>1
  <2>2. \A k \in 1 .. Len(u) : m + k - 1 \in 1 .. Len(s) BY <1>1, <2>1
  <2> QED BY <1>1, <2>1, <2>2
<1>2. CASE m > n + 1
  <2>1. u = <<>> BY <1>2
  <2> QED BY <1>2, <2>1
<1> QED BY <1>1, <1>2

\* What is cut in two is whole.
LEMMA Split ==
  ASSUME NEW S, NEW s \in Seq(S), NEW n \in 0 .. Len(s)
  PROVE  SubSeq(s, 1, n) \o SubSeq(s, n + 1, Len(s)) = s
<1> DEFINE a == SubSeq(s, 1, n)
           b == SubSeq(s, n + 1, Len(s))
           c == a \o b
<1>1. a \in Seq(S) /\ Len(a) = n /\ \A k \in 1 .. Len(a) : a[k] = s[k] BY Slice
<1>2. b \in Seq(S) /\ Len(b) = Len(s) - n /\ \A k \in 1 .. Len(b) : b[k] = s[n + k]
  <2>1. /\ b \in Seq(S) /\ Len(b) = (IF n + 1 <= Len(s) + 1 THEN Len(s) - (n + 1) + 1 ELSE 0)
        /\ \A k \in 1 .. Len(b) : b[k] = s[(n + 1) + k - 1]
    BY Slice
  <2> HIDE DEF b
  <2> QED BY <2>1
<1> HIDE DEF a, b
<1>3. /\ c \in Seq(S) /\ Len(c) = Len(s)
      /\ \A k \in 1 .. Len(a) : c[k] = a[k]
      /\ \A k \in 1 .. Len(b) : c[Len(a) + k] = b[k]
  BY <1>1, <1>2, Concat
<1> HIDE DEF c
<1>4. ASSUME NEW i \in 1 .. Len(s) PROVE c[i] = s[i]
  <2>1. CASE i <= n BY <1>1, <1>3, <2>1
  <2>2. CASE i > n
    <3>1. i - n \in 1 .. Len(b) /\ n + (i - n) = i BY <1>2, <2>2
    <3>2. c[n + (i - n)] = b[i - n] BY <1>1, <1>3, <3>1
    <3>3. b[i - n] = s[n + (i - n)] BY <1>2, <3>1
    <3> QED BY <3>1, <3>2, <3>3
  <2> QED BY <2>1, <2>2
<1>5. c = s BY <1>3, <1>4
<1> QED BY <1>5 DEF a, b, c

-----------------------------------------------------------------------------
(* The capped buffer.                                                        *)

Buffers == {b \in [head : Seq(Bytes), tail : Seq(Bytes), dropped : Nat] :
                Len(b.head) <= HeadCap /\ Len(b.tail) <= TailCap}

\* How many bytes a buffer was given.
Taken(b) == Len(b.head) + b.dropped + Len(b.tail)

LEMMA Constants ==
  /\ HeaderSize \in Nat /\ HeaderSize >= 1 /\ ReadSize \in Nat /\ ReadSize >= 1
  /\ Timeout \in Nat /\ Timeout >= 1 /\ PollAttempts \in Nat /\ PollAttempts >= 1
  /\ HeadCap \in Nat /\ TailCap \in Nat /\ MaxOutput \in Nat /\ MaxPayload \in Nat
BY BrokerAssumption

\* n of the bytes fill the head, and e are pushed out of the tail.
Fills(b, bytes, c, n, e) ==
    /\ c \in [head : Seq(Bytes), tail : Seq(Bytes), dropped : Nat]
    /\ n = (IF HeadCap - Len(b.head) <= Len(bytes) THEN HeadCap - Len(b.head) ELSE Len(bytes))
    /\ Len(c.head) = Len(b.head) + n
    /\ \A k \in 1 .. Len(b.head) : c.head[k] = b.head[k]
    /\ \A k \in 1 .. n : c.head[Len(b.head) + k] = bytes[k]
    /\ e = (IF Len(b.tail) + Len(bytes) - n > TailCap
            THEN Len(b.tail) + Len(bytes) - n - TailCap ELSE 0)
    /\ Len(c.tail) = Len(b.tail) + Len(bytes) - n - e
    /\ \A k \in 1 .. Len(c.tail) :
          c.tail[k] = IF e + k <= Len(b.tail) THEN b.tail[e + k]
                      ELSE bytes[n + (e + k - Len(b.tail))]
    /\ c.dropped = b.dropped + e

LEMMA AppendedIs ==
  ASSUME NEW b \in Buffers, NEW bytes \in Seq(Bytes), NEW c, c = Appended(b, bytes)
  PROVE  \E n \in 0 .. Len(bytes), e \in Nat : Fills(b, bytes, c, n, e)
<1>1. b.head \in Seq(Bytes) /\ b.tail \in Seq(Bytes) /\ b.dropped \in Nat
      /\ Len(b.head) \in Nat /\ Len(b.head) <= HeadCap /\ Len(b.tail) \in Nat
      /\ Len(b.tail) <= TailCap
  BY DEF Buffers
<1> DEFINE n == Min({HeadCap - Len(b.head), Len(bytes)})
           first == SubSeq(bytes, 1, n)
           more == SubSeq(bytes, n + 1, Len(bytes))
           head == b.head \o first
           tail == b.tail \o more
           e == Max({Len(tail) - TailCap, 0})
           left == SubSeq(tail, e + 1, Len(tail))
<1>2. /\ n = (IF HeadCap - Len(b.head) <= Len(bytes) THEN HeadCap - Len(b.head) ELSE Len(bytes))
      /\ n \in 0 .. Len(bytes)
  <2>1. HeadCap - Len(b.head) \in Int /\ HeadCap - Len(b.head) >= 0 /\ Len(bytes) \in Nat
    BY <1>1, Constants
  <2>2. n = (IF HeadCap - Len(b.head) <= Len(bytes) THEN HeadCap - Len(b.head) ELSE Len(bytes))
    BY <2>1, MinOfTwo
  <2> QED BY <2>1, <2>2
<1> HIDE DEF n
<1>3. first \in Seq(Bytes) /\ Len(first) = n /\ \A k \in 1 .. Len(first) : first[k] = bytes[k]
  <2>1. /\ first \in Seq(Bytes) /\ Len(first) = (IF 1 <= n + 1 THEN n - 1 + 1 ELSE 0)
        /\ \A k \in 1 .. Len(first) : first[k] = bytes[1 + k - 1]
    BY <1>2, Slice
  <2> HIDE DEF first
  <2> QED BY <1>2, <2>1
<1>4. /\ more \in Seq(Bytes) /\ Len(more) = Len(bytes) - n
      /\ \A k \in 1 .. Len(more) : more[k] = bytes[n + k]
  <2>1. /\ more \in Seq(Bytes)
        /\ Len(more) = (IF n + 1 <= Len(bytes) + 1 THEN Len(bytes) - (n + 1) + 1 ELSE 0)
        /\ \A k \in 1 .. Len(more) : more[k] = bytes[(n + 1) + k - 1]
    <3>1. n + 1 \in Nat /\ n + 1 >= 1 /\ Len(bytes) \in Nat /\ Len(bytes) <= Len(bytes) BY <1>2
    <3> QED BY <3>1, Slice
  <2> HIDE DEF more
  <2>2. Len(more) = Len(bytes) - n BY <1>2, <2>1
  <2>3. \A k \in 1 .. Len(more) : (n + 1) + k - 1 = n + k BY <1>2, <2>2
  <2> QED BY <2>1, <2>2, <2>3
<1> HIDE DEF first, more
<1>5. /\ head \in Seq(Bytes) /\ Len(head) = Len(b.head) + n
      /\ \A k \in 1 .. Len(b.head) : head[k] = b.head[k]
      /\ \A k \in 1 .. n : head[Len(b.head) + k] = bytes[k]
  <2>1. head = b.head \o first /\ b.head \in Seq(Bytes) /\ first \in Seq(Bytes) BY <1>1, <1>3
  <2> HIDE DEF head
  <2>2. /\ head \in Seq(Bytes) /\ Len(head) = Len(b.head) + Len(first)
        /\ \A k \in 1 .. Len(b.head) : head[k] = b.head[k]
        /\ \A k \in 1 .. Len(first) : head[Len(b.head) + k] = first[k]
    BY ONLY <2>1, Concat
  <2> QED BY <1>3, <2>2
<1>6. /\ tail \in Seq(Bytes) /\ Len(tail) = Len(b.tail) + Len(bytes) - n
      /\ \A k \in 1 .. Len(b.tail) : tail[k] = b.tail[k]
      /\ \A k \in 1 .. Len(more) : tail[Len(b.tail) + k] = more[k]
  <2>1. tail = b.tail \o more /\ b.tail \in Seq(Bytes) /\ more \in Seq(Bytes) BY <1>1, <1>4
  <2> HIDE DEF tail
  <2>2. /\ tail \in Seq(Bytes) /\ Len(tail) = Len(b.tail) + Len(more)
        /\ \A k \in 1 .. Len(b.tail) : tail[k] = b.tail[k]
        /\ \A k \in 1 .. Len(more) : tail[Len(b.tail) + k] = more[k]
    BY ONLY <2>1, Concat
  <2>3. Len(tail) = Len(b.tail) + (Len(bytes) - n) BY <1>4, <2>2
  <2> QED BY <1>1, <1>2, <2>2, <2>3
<1> HIDE DEF head, tail
<1>7. /\ e = (IF Len(b.tail) + Len(bytes) - n > TailCap
              THEN Len(b.tail) + Len(bytes) - n - TailCap ELSE 0)
      /\ e \in Nat /\ e <= Len(tail)
  <2>1. Len(tail) - TailCap \in Int /\ 0 \in Int BY <1>6, Constants
  <2>2. e = (IF Len(tail) - TailCap >= 0 THEN Len(tail) - TailCap ELSE 0) BY <2>1, MaxOfTwo
  <2> HIDE DEF e
  <2>3. Len(tail) \in Nat /\ Len(tail) = Len(b.tail) + Len(bytes) - n BY <1>6
  <2>4. e = (IF Len(tail) > TailCap THEN Len(tail) - TailCap ELSE 0) BY <2>2, <2>3, Constants
  <2>5. e \in Nat /\ e <= Len(tail) BY <2>3, <2>4, Constants
  <2>6. /\ Len(b.tail) \in Nat /\ Len(bytes) \in Nat /\ n \in Nat
        /\ Len(b.tail) + Len(bytes) - n = Len(tail)
    BY <1>1, <1>2, <2>3
  <2>7. e = (IF (Len(b.tail) + Len(bytes)) - n > TailCap
             THEN ((Len(b.tail) + Len(bytes)) - n) - TailCap ELSE 0)
    BY ONLY <2>3, <2>4, <2>6, Constants
  <2> QED BY <2>5, <2>6, <2>7, Constants
<1> HIDE DEF e
<1>8. /\ left \in Seq(Bytes) /\ Len(left) = Len(tail) - e
      /\ \A k \in 1 .. Len(left) : left[k] = tail[e + k]
  <2>1. /\ left \in Seq(Bytes)
        /\ Len(left) = (IF e + 1 <= Len(tail) + 1 THEN Len(tail) - (e + 1) + 1 ELSE 0)
        /\ \A k \in 1 .. Len(left) : left[k] = tail[(e + 1) + k - 1]
    <3>1. e + 1 \in Nat /\ e + 1 >= 1 /\ Len(tail) \in Nat /\ Len(tail) <= Len(tail) BY <1>6, <1>7
    <3>2. tail \in Seq(Bytes) /\ left = SubSeq(tail, e + 1, Len(tail)) BY <1>6
    <3> HIDE DEF left
    <3> QED BY ONLY <3>1, <3>2, Slice
  <2> HIDE DEF left
  <2>2. Len(left) = Len(tail) - e BY <1>6, <1>7, <2>1
  <2>3. \A k \in 1 .. Len(left) : (e + 1) + k - 1 = e + k BY <1>7, <2>2
  <2> QED BY <2>1, <2>2, <2>3
<1> HIDE DEF left
<1>9. ASSUME NEW k \in 1 .. Len(left)
      PROVE  left[k] = IF e + k <= Len(b.tail) THEN b.tail[e + k]
                       ELSE bytes[n + (e + k - Len(b.tail))]
  <2>1. left[k] = tail[e + k] BY <1>8
  <2>2. CASE e + k <= Len(b.tail)
    <3>1. e + k \in 1 .. Len(b.tail) BY <1>1, <1>7, <2>2
    <3> QED BY <1>6, <2>1, <2>2, <3>1
  <2>3. CASE ~(e + k <= Len(b.tail))
    <3>1. e + k - Len(b.tail) \in 1 .. Len(more) /\ Len(b.tail) + (e + k - Len(b.tail)) = e + k
      <4>1. /\ Len(tail) \in Nat /\ Len(left) = Len(tail) - e /\ Len(b.tail) \in Nat
            /\ Len(tail) = Len(b.tail) + Len(more)
        BY <1>1, <1>2, <1>4, <1>6, <1>8
      <4>2. e \in Nat /\ k \in 1 .. (Len(tail) - e) BY <1>7, <4>1
      <4>3. Len(more) \in Nat BY <1>4
      <4> QED BY <2>3, <4>1, <4>2, <4>3
    <3>2. tail[e + k] = more[e + k - Len(b.tail)] BY <1>6, <3>1
    <3> QED BY <1>4, <2>1, <2>3, <3>1, <3>2
  <2> QED BY <2>2, <2>3
<1>10. c = [head |-> head, tail |-> left, dropped |-> b.dropped + e]
  BY DEF Appended, n, first, more, head, tail, e, left
<1>11. c.head = head /\ c.tail = left /\ c.dropped = b.dropped + e BY <1>10
<1>12. c \in [head : Seq(Bytes), tail : Seq(Bytes), dropped : Nat]
  BY <1>1, <1>5, <1>7, <1>8, <1>10
<1>13. Len(left) = Len(b.tail) + Len(bytes) - n - e
  <2> DEFINE x == Len(left)
             l == Len(b.tail)
             m == Len(bytes)
             k == Len(tail)
  <2>1. x = k - e /\ k = l + m - n BY <1>6, <1>8
  <2>2. k \in Nat /\ l \in Nat /\ m \in Nat /\ n \in Nat /\ e \in Nat BY <1>1, <1>2, <1>6, <1>7
  <2> HIDE DEF x, l, m, k
  <2>3. x = l + m - n - e BY ONLY <2>1, <2>2
  <2> QED BY <2>3 DEF x, l, m
<1>14. Fills(b, bytes, c, n, e) BY <1>2, <1>5, <1>7, <1>9, <1>11, <1>12, <1>13 DEF Fills
<1> QED BY <1>2, <1>7, <1>14

\* A buffer stays one, and takes what it is given.
LEMMA AppendedIsBuffer ==
  ASSUME NEW b \in Buffers, NEW bytes \in Seq(Bytes)
  PROVE  Appended(b, bytes) \in Buffers /\ Taken(Appended(b, bytes)) = Taken(b) + Len(bytes)
<1> DEFINE c == Appended(b, bytes)
<1> SUFFICES c \in Buffers /\ Taken(c) = Taken(b) + Len(bytes) OBVIOUS
<1>1. PICK n \in 0 .. Len(bytes), e \in Nat : Fills(b, bytes, c, n, e) BY AppendedIs
<1> HIDE DEF c
<1>2. Len(b.head) \in Nat /\ Len(b.tail) \in Nat /\ b.dropped \in Nat /\ Len(bytes) \in Nat
      /\ Len(b.head) <= HeadCap /\ Len(b.tail) <= TailCap
  BY DEF Buffers
<1>3. c \in [head : Seq(Bytes), tail : Seq(Bytes), dropped : Nat] BY <1>1 DEF Fills
<1>4. Len(c.head) = Len(b.head) + n /\ n <= HeadCap - Len(b.head)
  <2>1. /\ n = (IF HeadCap - Len(b.head) <= Len(bytes) THEN HeadCap - Len(b.head) ELSE Len(bytes))
        /\ Len(c.head) = Len(b.head) + n
    BY <1>1 DEF Fills
  <2>2. HeadCap - Len(b.head) \in Int /\ n \in Int BY <1>2, Constants
  <2> QED BY <1>2, <2>1, <2>2
<1>5. /\ Len(c.tail) = Len(b.tail) + Len(bytes) - n - e
      /\ e = (IF Len(b.tail) + Len(bytes) - n > TailCap
              THEN Len(b.tail) + Len(bytes) - n - TailCap ELSE 0)
  BY <1>1 DEF Fills
<1>6. Len(c.tail) <= TailCap BY <1>2, <1>5, Constants
<1>7. c.dropped = b.dropped + e BY <1>1 DEF Fills
<1>8. Taken(c) = Taken(b) + Len(bytes)
  <2> DEFINE x == Taken(c)
             h == Len(b.head)
             l == Len(b.tail)
             d == b.dropped
             m == Len(bytes)
  <2>1. x = (h + n) + (d + e) + (l + m - n - e) BY <1>4, <1>5, <1>7 DEF Taken
  <2>2. h \in Nat /\ l \in Nat /\ d \in Nat /\ m \in Nat /\ n \in Nat /\ e \in Nat BY <1>2
  <2> HIDE DEF x, h, l, d, m
  <2>3. x = (h + d + l) + m BY ONLY <2>1, <2>2
  <2> QED BY ONLY <2>3 DEF Taken, x, h, l, d, m
<1>9. Len(c.head) <= HeadCap BY <1>2, <1>4, Constants
<1> QED BY <1>3, <1>6, <1>8, <1>9 DEF Buffers

-----------------------------------------------------------------------------
(* Types.                                                                    *)

Controls ==
    /\ handler \in {"create", "read", "decode", "poll", "replied"}
    /\ process \in {"none", "running", "ended"} /\ code \in Codes
    /\ {published, open, broken} \subseteq BOOLEAN
    /\ clock \in 0 .. Timeout + 1 /\ quiet \in 0 .. Timeout /\ polls \in 0 .. PollAttempts
    /\ reply.kind \in {"none", "result", "timeout", "failed"}
    /\ reply.exit \in Codes \cup {TimeoutCode, UnknownCode}
    /\ handler # "replied" => reply.kind = "none"

\* A read is asked for when no whole frame is left.
Contents ==
    /\ printed \in [Streams -> 0 .. MaxOutput]
    /\ wire \in Seq(Bytes) /\ buffer \in Seq(Bytes)
    /\ Len(buffer) < HeaderSize + MaxPayload + (IF handler = "decode" THEN ReadSize ELSE 0)
    /\ handler \in {"create", "read"} => ~Whole(buffer)
    /\ kept \in [Streams -> Buffers]

TypeInv == Controls /\ Contents

LEMMA TypeInvTypes == TypeInv => TypeOK
<1> SUFFICES ASSUME TypeInv PROVE TypeOK OBVIOUS
<1>1. ASSUME NEW s \in Streams
      PROVE  Len(kept[s].head) <= HeadCap /\ Len(kept[s].tail) <= TailCap /\ kept[s].dropped \in Nat
  BY DEF TypeInv, Contents, Buffers
<1>2. ASSUME NEW q \in Seq(Bytes) PROVE ToSet(q) \subseteq Bytes BY DEF ToSet
<1>3. ToSet(wire) \cup ToSet(buffer) \subseteq Bytes BY <1>2 DEF TypeInv, Contents
<1> QED BY <1>1, <1>3 DEF TypeInv, Controls, Contents, TypeOK

\* A failure replies, and not with a result.
LEMMA Answered ==
  ASSUME NEW kind, NEW exit, Answer(kind, exit)
  PROVE  handler' = "replied" /\ reply'.exit = exit /\ reply'.kind = kind
BY DEF Answer, NoReply

LEMMA Failed ==
  ASSUME Failure
  PROVE  /\ handler' = "replied" /\ reply'.kind \in {"timeout", "failed"}
         /\ reply'.exit \in {TimeoutCode, UnknownCode}
<1>1. CASE Answer("timeout", TimeoutCode) BY <1>1, Answered
<1>2. CASE Answer("failed", UnknownCode) BY <1>2, Answered
<1> QED BY <1>1, <1>2 DEF Failure

LEMMA Resulted ==
  ASSUME NEW exit, Result(exit)
  PROVE  /\ handler' = "replied" /\ reply'.exit = exit /\ reply'.kind = "result"
         /\ reply'.dropped = kept["stdout"].dropped + kept["stderr"].dropped
         /\ \A s \in Streams : reply'.body[s] = kept[s].head \o kept[s].tail
BY DEF Result

\* Every way to change the controls.
LEMMA ControlsKept ==
  ASSUME Controls, [Next]_vars
  PROVE  Controls'
<1> USE DEF Controls
<1>1. CASE Start BY <1>1, Constants DEF Start
<1>2. CASE StartFails BY <1>2, Failed DEF StartFails, time
<1>3. CASE Read BY <1>3 DEF Read, daemon, time
<1>4. CASE Decode BY <1>4 DEF Decode, daemon, time
<1>5. CASE ReadOn
  <2>1. UNCHANGED <<daemon, time, polls>> BY <1>5 DEF ReadOn
  <2>2. CASE Answer("timeout", TimeoutCode) BY <2>1, <2>2, Answered DEF daemon, time
  <2>3. CASE handler' = "read" /\ UNCHANGED reply BY <1>5, <2>1, <2>3 DEF ReadOn, daemon, time
  <2> QED BY <1>5, <2>2, <2>3 DEF ReadOn
<1>6. CASE ReadEnd BY <1>6 DEF ReadEnd, daemon, time
<1>7. CASE ReadTimesOut BY <1>7, Answered DEF ReadTimesOut, daemon, time
<1>8. CASE Reset BY <1>8, Answered DEF Reset, daemon, time
<1>9. CASE Poll
  <2>1. UNCHANGED <<daemon, time>> /\ handler = "poll" BY <1>9 DEF Poll
  <2>2. CASE Result(UnknownCode) /\ UNCHANGED polls BY <2>1, <2>2, Resulted DEF daemon, time
  <2>3. CASE published /\ Result(code) /\ UNCHANGED polls BY <2>1, <2>3, Resulted DEF daemon, time
  <2>4. CASE polls # PollAttempts /\ polls' = polls + 1 /\ UNCHANGED <<handler, reply>>
    BY <2>1, <2>4, Constants DEF daemon, time
  <2>5. CASE Failure /\ UNCHANGED polls BY <2>1, <2>5, Failed DEF daemon, time
  <2> QED BY <1>9, <2>2, <2>3, <2>4, <2>5 DEF Poll
<1>10. CASE Write BY <1>10, Constants DEF Write
<1>11. CASE End BY <1>11 DEF End, time
<1>12. CASE CloseStream BY <1>12 DEF CloseStream, time
<1>13. CASE Publish BY <1>13 DEF Publish, time
<1>14. CASE Break BY <1>14 DEF Break, time
<1>15. CASE Tick
  <2>1. Min({clock + 1, Timeout + 1}) \in 0 .. Timeout + 1 BY Constants, MinOfTwo
  <2> QED BY <1>15, <2>1, Constants DEF Tick, daemon
<1>16. CASE UNCHANGED vars BY <1>16 DEF vars
<1> QED BY <1>1, <1>2, <1>3, <1>4, <1>5, <1>6, <1>7, <1>8, <1>9, <1>10, <1>11, <1>12, <1>13,
           <1>14, <1>15, <1>16 DEF Next, Handler, Reading, Daemon

LEMMA FrameIs ==
  ASSUME NEW s \in Streams, NEW from \in Nat, NEW n \in 1 .. MaxPayload, from + n <= MaxOutput,
         NEW f, f = Frame(s, from, n)
  PROVE  /\ f \in Seq(Bytes) /\ Len(f) = HeaderSize + n
         /\ \A k \in 1 .. HeaderSize : f[k] = Header(s, n)
         /\ \A k \in 1 .. n : f[HeaderSize + k] = Data(s, from + k)
<1>1. HeaderSize + n \in Nat BY Constants
<1>2. Header(s, n) \in Bytes BY Constants DEF Header, Bytes
<1>3. ASSUME NEW k \in 1 .. n PROVE Data(s, from + k) \in Bytes BY Constants DEF Data, Bytes
<1> DEFINE g(k) == IF k <= HeaderSize THEN Header(s, n) ELSE Data(s, from + k - HeaderSize)
<1>4. f = [k \in 1 .. HeaderSize + n |-> g(k)] BY DEF Frame
<1>5. ASSUME NEW k \in 1 .. HeaderSize + n PROVE g(k) \in Bytes
  <2>1. CASE k <= HeaderSize BY <1>2, <2>1
  <2>2. CASE ~(k <= HeaderSize)
    <3>1. k - HeaderSize \in 1 .. n /\ from + k - HeaderSize = from + (k - HeaderSize)
      BY <2>2, Constants
    <3> QED BY <1>3, <2>2, <3>1
  <2> QED BY <2>1, <2>2
<1>6. f \in Seq(Bytes) /\ Len(f) = HeaderSize + n
  <2> HIDE DEF g
  <2> QED BY <1>1, <1>4, <1>5
<1>7. \A k \in 1 .. HeaderSize : f[k] = Header(s, n) BY <1>4, Constants
<1>8. ASSUME NEW k \in 1 .. n PROVE f[HeaderSize + k] = Data(s, from + k)
  <2>1. HeaderSize + k \in 1 .. HeaderSize + n /\ ~(HeaderSize + k <= HeaderSize)
        /\ from + (HeaderSize + k) - HeaderSize = from + k
    BY Constants
  <2> QED BY <1>4, <2>1
<1> QED BY <1>6, <1>7, <1>8

LEMMA FirstByte ==
  ASSUME NEW q \in Seq(Bytes), Len(q) >= 1
  PROVE  q[1].stream \in Streams /\ q[1].size \in 0 .. MaxPayload
<1>1. q[1] \in Bytes OBVIOUS
<1> QED BY <1>1 DEF Bytes

\* What a whole frame is cut into.
LEMMA Cut ==
  ASSUME NEW q \in Seq(Bytes), Whole(q)
  PROVE  /\ Payload(q) \in Seq(Bytes) /\ Len(Payload(q)) = q[1].size
         /\ \A k \in 1 .. q[1].size : Payload(q)[k] = q[HeaderSize + k]
         /\ Rest(q) \in Seq(Bytes) /\ Len(Rest(q)) = Len(q) - (HeaderSize + q[1].size)
         /\ \A k \in 1 .. Len(Rest(q)) : Rest(q)[k] = q[(HeaderSize + q[1].size) + k]
<1>1. Len(q) \in Nat /\ Len(q) >= HeaderSize /\ Len(q) >= HeaderSize + q[1].size BY DEF Whole
<1>2. q[1].size \in 0 .. MaxPayload BY <1>1, FirstByte, Constants
<1> DEFINE n == q[1].size
           a == Payload(q)
           b == Rest(q)
<1>3. a = SubSeq(q, HeaderSize + 1, HeaderSize + n) /\ b = SubSeq(q, HeaderSize + n + 1, Len(q))
  BY DEF Payload, Rest
<1>4. n \in Nat BY <1>2, Constants
<1> HIDE DEF n, a, b
<1>5. /\ a \in Seq(Bytes)
      /\ Len(a) = (IF HeaderSize + 1 <= (HeaderSize + n) + 1 THEN (HeaderSize + n) - (HeaderSize + 1) + 1 ELSE 0)
      /\ \A k \in 1 .. Len(a) : a[k] = q[(HeaderSize + 1) + k - 1]
  <2>1. HeaderSize + 1 \in Nat /\ HeaderSize + 1 >= 1 /\ HeaderSize + n \in Nat /\ HeaderSize + n <= Len(q)
    BY <1>1, <1>4, Constants DEF n
  <2> QED BY <1>3, <2>1, Slice
<1>6. Len(a) = n BY <1>4, <1>5, Constants
<1>7. \A k \in 1 .. n : (HeaderSize + 1) + k - 1 = HeaderSize + k BY <1>4, Constants
<1>8. \A k \in 1 .. n : a[k] = q[HeaderSize + k] BY <1>5, <1>6, <1>7
<1>9. /\ b \in Seq(Bytes)
      /\ Len(b) = (IF (HeaderSize + n) + 1 <= Len(q) + 1 THEN Len(q) - ((HeaderSize + n) + 1) + 1 ELSE 0)
      /\ \A k \in 1 .. Len(b) : b[k] = q[((HeaderSize + n) + 1) + k - 1]
  <2>1. (HeaderSize + n) + 1 \in Nat /\ (HeaderSize + n) + 1 >= 1 /\ Len(q) \in Nat /\ Len(q) <= Len(q)
    BY <1>1, <1>4, Constants
  <2>2. b = SubSeq(q, (HeaderSize + n) + 1, Len(q)) BY <1>3
  <2> QED BY <2>1, <2>2, Slice
<1>10. HeaderSize + n <= Len(q) BY <1>1 DEF n
<1>11. Len(b) = Len(q) - (HeaderSize + n) BY <1>1, <1>4, <1>9, <1>10, Constants
<1>12. \A k \in 1 .. Len(b) : ((HeaderSize + n) + 1) + k - 1 = (HeaderSize + n) + k
  BY <1>1, <1>4, <1>11, Constants
<1>13. \A k \in 1 .. Len(b) : b[k] = q[(HeaderSize + n) + k] BY <1>9, <1>12
<1> QED BY <1>5, <1>6, <1>8, <1>9, <1>11, <1>13 DEF n, a, b

\* A whole frame is there when there are enough bytes.
LEMMA EnoughIsWhole ==
  ASSUME NEW q \in Seq(Bytes), ~Whole(q)
  PROVE  Len(q) < HeaderSize + MaxPayload
<1>1. CASE Len(q) < HeaderSize BY <1>1, Constants
<1>2. CASE Len(q) >= HeaderSize
  <2>1. q[1].size \in 0 .. MaxPayload BY <1>2, FirstByte, Constants
  <2>2. Len(q) \in Nat OBVIOUS
  <2> QED BY <1>2, <2>1, <2>2, Constants DEF Whole
<1> QED BY <1>1, <1>2, Constants

\* One read moves bytes from the wire to the buffer.
LEMMA ReadMoves ==
  ASSUME wire \in Seq(Bytes), buffer \in Seq(Bytes), Read
  PROVE  /\ wire' \in Seq(Bytes) /\ buffer' \in Seq(Bytes)
         /\ Len(buffer') <= Len(buffer) + ReadSize
         /\ buffer' \o wire' = buffer \o wire
<1> DEFINE n == Min({ReadSize, Len(wire)})
           a == SubSeq(wire, 1, n)
           b == SubSeq(wire, n + 1, Len(wire))
<1>1. n \in 0 .. Len(wire) /\ n <= ReadSize
  <2>1. Len(wire) \in Nat /\ n = (IF ReadSize <= Len(wire) THEN ReadSize ELSE Len(wire))
    BY Constants, MinOfTwo
  <2> HIDE DEF n
  <2> QED BY <2>1, Constants
<1>2. buffer' = buffer \o a /\ wire' = b BY DEF Read
<1> HIDE DEF n
<1>3. a \in Seq(Bytes) /\ b \in Seq(Bytes) /\ Len(a) = n
  <2>1. n + 1 \in Nat /\ n + 1 >= 1 /\ Len(wire) \in Nat /\ Len(wire) <= Len(wire) BY <1>1
  <2>2. b \in Seq(Bytes) BY <2>1, Slice
  <2>3. a \in Seq(Bytes) /\ Len(a) = (IF 1 <= n + 1 THEN n - 1 + 1 ELSE 0) BY <1>1, Slice
  <2> HIDE DEF a, b
  <2> QED BY <1>1, <2>2, <2>3
<1>4. a \o b = wire BY <1>1, Split
<1> HIDE DEF a, b
<1>5. Len(buffer') = Len(buffer) + n /\ buffer' \in Seq(Bytes)
  <2>1. buffer \in Seq(Bytes) /\ a \in Seq(Bytes) /\ buffer' = buffer \o a BY <1>2, <1>3
  <2>2. Len(buffer') = Len(buffer) + Len(a) /\ buffer' \in Seq(Bytes) BY ONLY <2>1, Concat
  <2> QED BY <1>3, <2>2
<1>6. buffer' \o wire' = buffer \o wire
  <2>1. buffer \in Seq(Bytes) /\ a \in Seq(Bytes) /\ b \in Seq(Bytes) BY <1>3
  <2>2. (buffer \o a) \o b = buffer \o (a \o b) BY ONLY <2>1, ConcatAssociative
  <2> QED BY <1>2, <1>4, <2>2
<1>7. Len(buffer) \in Nat OBVIOUS
<1> QED BY <1>1, <1>2, <1>3, <1>5, <1>6, <1>7, Constants

LEMMA RestIsKept ==
  ASSUME Contents
  PROVE  WithRest(buffer) \in [Streams -> Buffers]
<1> DEFINE m == IF Len(buffer) < HeaderSize /\ \A s \in Streams : kept[s] = Empty
                THEN 1 ELSE HeaderSize + 1
           bytes == SubSeq(buffer, m, Len(buffer))
<1>1. buffer \in Seq(Bytes) /\ kept \in [Streams -> Buffers] /\ "stdout" \in Streams
  BY DEF Contents, Streams
<1>2. m \in Nat /\ m >= 1 /\ Len(buffer) \in Nat /\ Len(buffer) <= Len(buffer) BY <1>1, Constants
<1>3. WithRest(buffer) = [kept EXCEPT !["stdout"] = Appended(kept["stdout"], bytes)]
  BY DEF WithRest
<1> HIDE DEF m
<1>4. bytes \in Seq(Bytes) BY <1>1, <1>2, Slice
<1> HIDE DEF bytes
<1>5. Appended(kept["stdout"], bytes) \in Buffers BY <1>1, <1>4, AppendedIsBuffer
<1> QED BY <1>1, <1>3, <1>5

\* Every way to change the contents.
LEMMA ContentsKept ==
  ASSUME TypeInv, [Next]_vars
  PROVE  Contents'
<1>1. CASE Start
  <2>1. UNCHANGED <<printed, wire, buffer, kept>> /\ handler = "create" /\ handler' = "read"
    BY <1>1 DEF Start, reader
  <2> QED BY <2>1 DEF TypeInv, Contents, Whole, Bytes, Buffers
<1>2. ASSUME UNCHANGED <<printed, reader>>, handler' \notin {"create", "read"}, handler # "decode"
      PROVE  Contents'
  <2>1. Len(buffer) \in Nat /\ Len(buffer) < HeaderSize + MaxPayload + 0
    BY <1>2, Constants DEF TypeInv, Contents
  <2>2. (Len(buffer) < HeaderSize + MaxPayload + (IF handler = "decode" THEN ReadSize ELSE 0))'
    BY <1>2, <2>1, Constants DEF reader
  <2> QED BY <1>2, <2>2 DEF TypeInv, Contents, reader, Bytes, Buffers
<1>3. CASE StartFails BY <1>2, <1>3, Failed DEF StartFails
<1>4. CASE Read
  <2>1. /\ wire' \in Seq(Bytes) /\ buffer' \in Seq(Bytes)
        /\ Len(buffer') <= Len(buffer) + ReadSize
    BY <1>4, ReadMoves DEF TypeInv, Contents
  <2>2. UNCHANGED <<printed, kept>> /\ handler = "read" /\ handler' = "decode"
    BY <1>4 DEF Read, daemon
  <2>3. Len(buffer) \in Nat /\ Len(buffer) < HeaderSize + MaxPayload /\ Len(buffer') \in Nat
    BY <2>1, <2>2, Constants DEF TypeInv, Contents
  <2>4. Len(buffer') < HeaderSize + MaxPayload + ReadSize BY <2>1, <2>3, Constants
  <2> QED BY <2>1, <2>2, <2>4 DEF TypeInv, Contents, Bytes, Buffers
<1>5. CASE Decode
  <2>1. /\ Payload(buffer) \in Seq(Bytes) /\ Rest(buffer) \in Seq(Bytes)
        /\ Len(Rest(buffer)) = Len(buffer) - (HeaderSize + buffer[1].size)
    BY <1>5, Cut DEF Decode, TypeInv, Contents
  <2>2. /\ UNCHANGED <<printed, wire, handler>> /\ handler = "decode" /\ buffer' = Rest(buffer)
        /\ kept' = [kept EXCEPT ![buffer[1].stream] = Appended(kept[buffer[1].stream], Payload(buffer))]
    BY <1>5 DEF Decode, daemon
  <2>3. Len(buffer) >= 1 /\ Len(buffer) \in Nat BY <1>5, Constants DEF Decode, Whole, TypeInv, Contents
  <2>4. buffer[1].stream \in Streams /\ buffer[1].size \in 0 .. MaxPayload
    BY <2>3, FirstByte DEF TypeInv, Contents
  <2>5. kept' \in [Streams -> Buffers] BY <2>1, <2>2, <2>4, AppendedIsBuffer DEF TypeInv, Contents
  <2>6. Len(buffer') <= Len(buffer) /\ Len(buffer') \in Nat
    <3>1. Len(buffer') = Len(buffer) - (HeaderSize + buffer[1].size) BY ONLY <2>1, <2>2
    <3>2. Len(buffer') \in Nat BY ONLY <2>1, <2>2
    <3> QED BY ONLY <2>3, <2>4, <3>1, <3>2, Constants
  <2>7. Len(buffer') < HeaderSize + MaxPayload + ReadSize
    BY <2>2, <2>3, <2>6, Constants DEF TypeInv, Contents
  <2> QED BY <2>1, <2>2, <2>5, <2>7 DEF TypeInv, Contents, Bytes, Buffers
<1>6. CASE ReadOn
  <2>1. UNCHANGED <<printed, wire, buffer, kept>> /\ ~Whole(buffer) /\ handler' # "decode"
    BY <1>6, Answered DEF ReadOn, daemon, reader
  <2>2. Len(buffer) < HeaderSize + MaxPayload BY <2>1, EnoughIsWhole DEF TypeInv, Contents
  <2>3. Len(buffer') = Len(buffer) /\ Len(buffer) \in Nat BY <2>1 DEF TypeInv, Contents
  <2>4. (Len(buffer) < HeaderSize + MaxPayload + (IF handler = "decode" THEN ReadSize ELSE 0))'
    BY <2>1, <2>2, <2>3, Constants
  <2>5. ~Whole(buffer)' BY <2>1 DEF Whole
  <2> QED BY <2>1, <2>4, <2>5 DEF TypeInv, Contents, Bytes, Buffers
<1>7. CASE ReadEnd
  <2>1. /\ UNCHANGED <<printed, wire>> /\ handler' = "poll" /\ buffer' = <<>>
        /\ kept' = WithRest(buffer)
    BY <1>7 DEF ReadEnd, daemon
  <2>2. kept' \in [Streams -> Buffers] BY <2>1, RestIsKept DEF TypeInv
  <2>3. buffer' \in Seq(Bytes) /\ Len(buffer') = 0 BY <2>1
  <2>4. (Len(buffer) < HeaderSize + MaxPayload + (IF handler = "decode" THEN ReadSize ELSE 0))'
    BY <2>1, <2>3, Constants
  <2> QED BY <2>1, <2>2, <2>3, <2>4 DEF TypeInv, Contents, Bytes, Buffers
<1>8. CASE ReadTimesOut \/ Reset
  BY <1>2, <1>8, Answered DEF ReadTimesOut, Reset, daemon
<1>9. CASE Poll
  <2>1. UNCHANGED <<printed, reader>> /\ handler = "poll" BY <1>9 DEF Poll, daemon
  <2>2. handler' \in {"poll", "replied"} BY <1>9, Failed, Resulted DEF Poll
  <2> QED BY <1>2, <2>1, <2>2
<1>10. CASE Write
  <2>1. PICK s \in Streams, n \in 1 .. MaxPayload :
            /\ printed["stdout"] + printed["stderr"] + n <= MaxOutput
            /\ wire' = wire \o Frame(s, printed[s], n)
            /\ printed' = [printed EXCEPT ![s] = printed[s] + n]
    BY <1>10 DEF Write
  <2>2. printed["stdout"] \in Nat /\ printed["stderr"] \in Nat /\ printed[s] \in Nat
    BY DEF TypeInv, Contents, Streams
  <2>3. printed[s] + n <= MaxOutput BY <2>1, <2>2, Constants DEF Streams
  <2>4. Frame(s, printed[s], n) \in Seq(Bytes) BY <2>2, <2>3, FrameIs
  <2>5. wire' \in Seq(Bytes) BY <2>1, <2>4 DEF TypeInv, Contents
  <2>6. printed' \in [Streams -> 0 .. MaxOutput]
    BY <2>1, <2>2, <2>3, Constants DEF TypeInv, Contents
  <2>7. UNCHANGED <<handler, buffer, kept>> BY <1>10 DEF Write
  <2> QED BY <2>5, <2>6, <2>7 DEF TypeInv, Contents, Bytes, Buffers, Whole
<1>11. ASSUME UNCHANGED <<printed, reader, handler>> PROVE Contents'
  BY <1>11 DEF TypeInv, Contents, reader, Bytes, Buffers, Whole
<1>12. CASE End \/ CloseStream \/ Publish \/ Tick
  BY <1>11, <1>12 DEF End, CloseStream, Publish, Tick, daemon
<1>13. CASE Break
  <2>1. PICK n \in 0 .. Len(wire) : wire' = SubSeq(wire, 1, n) BY <1>13 DEF Break
  <2>2. wire' \in Seq(Bytes) BY <2>1, Slice DEF TypeInv, Contents
  <2>3. UNCHANGED <<handler, printed, buffer, kept>> BY <1>13 DEF Break
  <2> QED BY <2>2, <2>3 DEF TypeInv, Contents, Bytes, Buffers, Whole
<1>14. CASE UNCHANGED vars BY <1>11, <1>14 DEF vars, reader
<1> QED BY <1>1, <1>3, <1>4, <1>5, <1>6, <1>7, <1>8, <1>9, <1>10, <1>12, <1>13, <1>14
        DEF Next, Handler, Reading, Daemon

LEMMA InitTypes == Init => TypeInv
<1> SUFFICES ASSUME Init PROVE TypeInv OBVIOUS
<1>1. Empty \in Buffers
  <2>1. <<>> \in Seq(Bytes) /\ Len(<<>>) = 0 OBVIOUS
  <2> QED BY <2>1, Constants DEF Empty, Buffers
<1>2. buffer = <<>> /\ Len(buffer) = 0 /\ wire = <<>> /\ handler = "create" BY DEF Init
<1>3. Contents
  <2>1. ~Whole(buffer) BY <1>2, Constants DEF Whole
  <2>2. kept \in [Streams -> Buffers] BY <1>1 DEF Init
  <2>3. printed \in [Streams -> 0 .. MaxOutput] BY Constants DEF Init
  <2> QED BY <1>2, <2>1, <2>2, <2>3, Constants DEF Contents
<1>4. reply.kind = "none" /\ reply.exit = UnknownCode BY DEF Init, NoReply
<1>5. /\ handler \in {"create", "read", "decode", "poll", "replied"}
      /\ process \in {"none", "running", "ended"} /\ code \in Codes
      /\ {published, open, broken} \subseteq BOOLEAN
  BY DEF Init, Codes
<1>6. clock \in 0 .. Timeout + 1 /\ quiet \in 0 .. Timeout /\ polls \in 0 .. PollAttempts
  BY Constants DEF Init
<1>7. Controls BY <1>4, <1>5, <1>6 DEF Controls
<1> QED BY <1>3, <1>7 DEF TypeInv

LEMMA TypeInvariance == Spec => []TypeInv
<1>1. ASSUME TypeInv, [Next]_vars PROVE TypeInv'
  BY <1>1, ControlsKept, ContentsKept DEF TypeInv
<1> QED BY <1>1, InitTypes, PTL DEF Spec

-----------------------------------------------------------------------------
(* The exit code.                                                            *)

\* Nothing runs before it is created, the daemon publishes the code of what has
\* ended, and there is no reply before the handler replies.
ExitInv ==
    /\ handler = "create" => process = "none"
    /\ published => process = "ended"
    /\ handler # "replied" => reply.exit = UnknownCode
    /\ code \in Codes
    /\ NeverFalseSuccess

LEMMA NotCodes == {TimeoutCode, UnknownCode} \cap Codes = {}
  BY DEF TimeoutCode, UnknownCode, Codes

\* A failure says nothing of the code.
LEMMA FailureExit ==
  ASSUME ExitInv, handler' = "replied", reply'.exit \notin Codes,
         UNCHANGED <<code, published>>, published => process' = "ended"
  PROVE  ExitInv'
<1>1. handler' # "create" BY SMT
<1>2. (published => process = "ended")' BY DEF ExitInv
<1>3. (code \in Codes)' BY DEF ExitInv, Codes
<1>4. NeverFalseSuccess' BY DEF NeverFalseSuccess, Codes
<1> QED BY <1>1, <1>2, <1>3, <1>4 DEF ExitInv

LEMMA InitExit == Init => ExitInv
<1> SUFFICES ASSUME Init PROVE ExitInv OBVIOUS
<1>1. reply.exit = UnknownCode /\ reply.exit \notin Codes BY NotCodes DEF Init, NoReply
<1>2. process = "none" /\ ~published /\ code \in Codes BY DEF Init, Codes
<1> QED BY <1>1, <1>2 DEF ExitInv, NeverFalseSuccess

LEMMA StartExit == ASSUME ExitInv, Start \/ StartFails PROVE ExitInv'
<1>1. CASE Start
  <2>1. reply.exit = UnknownCode /\ published = published' /\ ~published
    BY <1>1 DEF Start, ExitInv
  <2> QED BY <1>1, <2>1, NotCodes DEF Start, ExitInv, NeverFalseSuccess
<1>2. CASE StartFails
  <2>1. handler' = "replied" /\ reply'.exit \notin Codes BY <1>2, Failed, NotCodes DEF StartFails
  <2>2. ~published BY <1>2 DEF StartFails, ExitInv
  <2> QED BY <1>2, <2>1, <2>2, FailureExit DEF StartFails
<1> QED BY <1>1, <1>2

LEMMA DaemonExit == ASSUME ExitInv, Daemon PROVE ExitInv'
<1>1. CASE Write \/ CloseStream \/ Break
  BY <1>1 DEF Write, CloseStream, Break, ExitInv, NeverFalseSuccess
<1>2. CASE End
  <2>1. reply.exit \notin Codes BY <1>2 DEF End, ExitInv, NeverFalseSuccess
  <2> QED BY <1>2, <2>1 DEF End, ExitInv, NeverFalseSuccess
<1>3. CASE Publish BY <1>3 DEF Publish, ExitInv, NeverFalseSuccess
<1> QED BY <1>1, <1>2, <1>3 DEF Daemon

LEMMA ReadExit == ASSUME ExitInv, Reading \/ Reset PROVE ExitInv'
<1>1. UNCHANGED <<process, code, published>>
  BY DEF Reading, Read, Decode, ReadOn, ReadEnd, ReadTimesOut, Reset, daemon
<1>2. CASE handler' = "replied" /\ reply'.exit \notin Codes
  BY <1>1, <1>2, FailureExit DEF ExitInv
<1>3. CASE /\ handler \in {"read", "decode"} /\ handler' \in {"read", "decode", "poll"}
           /\ reply' = reply
  BY <1>1, <1>3 DEF ExitInv, NeverFalseSuccess
<1>4. CASE Read \/ Decode \/ ReadEnd BY <1>3, <1>4 DEF Read, Decode, ReadEnd
<1>5. CASE ReadOn
  <2>1. CASE Answer("timeout", TimeoutCode) BY <1>2, <2>1, Answered, NotCodes
  <2>2. CASE handler' = "read" /\ UNCHANGED reply BY <1>3, <1>5, <2>2 DEF ReadOn
  <2> QED BY <1>5, <2>1, <2>2 DEF ReadOn
<1>6. CASE ReadTimesOut BY <1>2, <1>6, Answered, NotCodes DEF ReadTimesOut
<1>7. CASE Reset BY <1>2, <1>7, Answered, NotCodes DEF Reset
<1> QED BY <1>4, <1>5, <1>6, <1>7 DEF Reading

LEMMA PollExit == ASSUME ExitInv, Poll PROVE ExitInv'
<1>1. UNCHANGED <<process, code, published>> /\ handler = "poll" BY DEF Poll, daemon
<1>2. CASE Result(UnknownCode)
  BY <1>1, <1>2, Resulted, NotCodes, FailureExit DEF ExitInv
<1>3. CASE published /\ Result(code)
  <2>1. handler' = "replied" /\ reply'.exit = code BY <1>3, Resulted
  <2> QED BY <1>1, <1>3, <2>1 DEF ExitInv, NeverFalseSuccess
<1>4. CASE UNCHANGED <<handler, reply>> BY <1>1, <1>4 DEF ExitInv, NeverFalseSuccess
<1>5. CASE Failure BY <1>1, <1>5, Failed, NotCodes, FailureExit DEF ExitInv
<1> QED BY <1>2, <1>3, <1>4, <1>5 DEF Poll

-----------------------------------------------------------------------------
(* The bytes under way are frames.                                           *)

\* A frame begins at b: a header, and as many bytes of the stream, in order, as
\* it says.
FrameAt(p, b) ==
    /\ p[b].size >= 1 /\ b + (HeaderSize + p[b].size) <= Len(p) + 1
    /\ \A k \in 1 .. HeaderSize : p[b + k - 1] = Header(p[b].stream, p[b].size)
    /\ \A k \in 1 .. p[b].size :
          p[b + HeaderSize + k - 1] = Data(p[b].stream, p[b + HeaderSize].at + k - 1)

\* One frame after another, beginning or ending at the places in B.
Framed(p, B) ==
    /\ B \subseteq 1 .. Len(p) + 1 /\ 1 \in B /\ Len(p) + 1 \in B
    /\ \A b \in B : b <= Len(p) => FrameAt(p, b) /\ b + (HeaderSize + p[b].size) \in B

\* In p are, each once and in order, the bytes of each stream that have been
\* written, w, and not been taken, d.
Pending(p, d, w) ==
    /\ \A i \in 1 .. Len(p) : p[i].size = 0 =>
          d[p[i].stream] < p[i].at /\ p[i].at <= w[p[i].stream]
    /\ \A i, j \in 1 .. Len(p) :
          i < j /\ p[i].size = 0 /\ p[j].size = 0 /\ p[i].stream = p[j].stream => p[i].at < p[j].at
    /\ \A s \in Streams : \A k \in d[s] + 1 .. w[s] : \E i \in 1 .. Len(p) : p[i] = Data(s, k)

\* A byte of data is known by its stream and place.
LEMMA ByteIs ==
  ASSUME NEW p \in Seq(Bytes), NEW i \in 1 .. Len(p)
  PROVE  /\ p[i].stream \in Streams /\ p[i].size \in Nat /\ p[i].at \in Nat
         /\ p[i].size = 0 => p[i] = Data(p[i].stream, p[i].at)
<1>1. p[i] \in Bytes OBVIOUS
<1> QED BY <1>1, Constants DEF Bytes, Data

LEMMA FieldsAre ==
  ASSUME NEW s, NEW n
  PROVE  /\ Header(s, n).stream = s /\ Header(s, n).size = n
         /\ Data(s, n).stream = s /\ Data(s, n).size = 0 /\ Data(s, n).at = n
BY DEF Header, Data

\* What is written comes after what is under way.
LEMMA WrittenFramed ==
  ASSUME NEW p \in Seq(Bytes), NEW B, Framed(p, B), NEW s \in Streams, NEW from \in Nat,
         NEW n \in 1 .. MaxPayload, from + n <= MaxOutput, NEW q, q = p \o Frame(s, from, n)
  PROVE  Framed(q, B \cup {Len(p) + 1 + (HeaderSize + n)})
<1> DEFINE f == Frame(s, from, n)
           h == HeaderSize + n
           e == Len(p) + 1 + h
<1>1. /\ f \in Seq(Bytes) /\ Len(f) = h
      /\ \A k \in 1 .. HeaderSize : f[k] = Header(s, n)
      /\ \A k \in 1 .. n : f[HeaderSize + k] = Data(s, from + k)
  BY FrameIs
<1> HIDE DEF f
<1>2. /\ q \in Seq(Bytes) /\ Len(q) = Len(p) + h
      /\ \A k \in 1 .. Len(p) : q[k] = p[k]
      /\ \A k \in 1 .. h : q[Len(p) + k] = f[k]
  <2>1. q = p \o f /\ p \in Seq(Bytes) /\ f \in Seq(Bytes) BY <1>1 DEF f
  <2>2. /\ q \in Seq(Bytes) /\ Len(q) = Len(p) + Len(f)
        /\ \A k \in 1 .. Len(p) : q[k] = p[k]
        /\ \A k \in 1 .. Len(f) : q[Len(p) + k] = f[k]
    BY ONLY <2>1, Concat
  <2> QED BY <1>1, <2>2
<1>3. Len(p) \in Nat /\ n \in Nat /\ n >= 1 /\ h \in Nat BY Constants
<1>4. B \cup {e} \subseteq 1 .. Len(q) + 1 /\ 1 \in B \cup {e} /\ Len(q) + 1 \in B \cup {e}
  <2>1. B \subseteq 1 .. Len(p) + 1 /\ 1 \in B BY DEF Framed
  <2>2. Len(q) + 1 = e /\ Len(q) \in Nat /\ Len(p) <= Len(q) BY <1>2, <1>3
  <2>3. 1 .. Len(p) + 1 \subseteq 1 .. Len(q) + 1 BY <1>3, <2>2
  <2>4. e \in 1 .. Len(q) + 1 BY <2>2
  <2> QED BY <2>1, <2>2, <2>3, <2>4
<1>5. ASSUME NEW b \in B, b <= Len(p) PROVE FrameAt(q, b) /\ b + (HeaderSize + q[b].size) \in B
  <2>1. FrameAt(p, b) /\ b + (HeaderSize + p[b].size) \in B /\ b \in Nat /\ b >= 1
    BY <1>3, <1>5 DEF Framed
  <2>2. q[b] = p[b] /\ p[b].size \in Nat BY <1>2, <1>3, <1>5, <2>1, ByteIs
  <2> DEFINE m == p[b].size
  <2>3. m >= 1 /\ b + (HeaderSize + m) <= Len(p) + 1 /\ m \in Nat BY <2>1, <2>2 DEF FrameAt
  <2> HIDE DEF m
  <2>4. \A k \in 1 .. HeaderSize + m : b + k - 1 \in 1 .. Len(p) BY <1>3, <2>1, <2>3, Constants
  <2>5. \A k \in 1 .. HeaderSize + m : q[b + k - 1] = p[b + k - 1] BY <1>2, <2>4
  <2>6. ASSUME NEW k \in 1 .. HeaderSize PROVE q[b + k - 1] = p[b + k - 1]
    <3>1. k \in 1 .. HeaderSize + m BY <2>3, Constants
    <3> QED BY <2>5, <3>1
  <2>7. ASSUME NEW k \in 1 .. m PROVE q[b + HeaderSize + k - 1] = p[b + HeaderSize + k - 1]
    <3>1. HeaderSize + k \in 1 .. HeaderSize + m /\ b + (HeaderSize + k) - 1 = b + HeaderSize + k - 1
      BY <2>1, <2>3, Constants
    <3> QED BY <2>5, <3>1
  <2>8. q[b + HeaderSize] = p[b + HeaderSize]
    <3>1. 1 \in 1 .. m /\ b + HeaderSize + 1 - 1 = b + HeaderSize BY <2>1, <2>3, Constants
    <3> QED BY <2>7, <3>1
  <2>9. b + (HeaderSize + m) <= Len(q) + 1
    <3>1. Len(q) \in Nat /\ Len(p) <= Len(q) BY <1>2, <1>3
    <3> QED BY ONLY <1>3, <2>1, <2>3, <3>1, Constants
  <2> QED BY <2>1, <2>2, <2>6, <2>7, <2>8, <2>9 DEF FrameAt, m
<1>6. FrameAt(q, Len(p) + 1) /\ Len(p) + 1 + (HeaderSize + q[Len(p) + 1].size) = e
  <2>1. q[Len(p) + 1] = Header(s, n)
    <3>1. 1 \in 1 .. h /\ 1 \in 1 .. HeaderSize BY <1>3, Constants
    <3> QED BY <1>1, <1>2, <3>1
  <2>2. q[Len(p) + 1].stream = s /\ q[Len(p) + 1].size = n BY <2>1, FieldsAre
  <2>3. ASSUME NEW k \in 1 .. HeaderSize PROVE q[Len(p) + 1 + k - 1] = Header(s, n)
    <3>1. k \in 1 .. h /\ Len(p) + 1 + k - 1 = Len(p) + k BY <1>3, Constants
    <3> QED BY <1>1, <1>2, <3>1
  <2>4. ASSUME NEW k \in 1 .. n PROVE q[Len(p) + 1 + HeaderSize + k - 1] = Data(s, from + k)
    <3>1. /\ HeaderSize + k \in 1 .. h
          /\ Len(p) + 1 + HeaderSize + k - 1 = Len(p) + (HeaderSize + k)
      BY <1>3, Constants
    <3> QED BY <1>1, <1>2, <3>1
  <2>5. q[Len(p) + 1 + HeaderSize].at = from + 1
    <3>1. 1 \in 1 .. n /\ Len(p) + 1 + HeaderSize + 1 - 1 = Len(p) + 1 + HeaderSize
      BY <1>3, Constants
    <3>2. q[Len(p) + 1 + HeaderSize] = Data(s, from + 1) BY <2>4, <3>1
    <3> QED BY <3>2, FieldsAre
  <2>6. ASSUME NEW k \in 1 .. n
        PROVE  q[Len(p) + 1 + HeaderSize + k - 1] = Data(s, q[Len(p) + 1 + HeaderSize].at + k - 1)
    <3>1. from + k = (from + 1) + k - 1 BY <1>3
    <3> QED BY <2>4, <2>5, <3>1
  <2>7. Len(p) + 1 + (HeaderSize + n) <= Len(q) + 1 BY <1>2, <1>3
  <2> DEFINE b == Len(p) + 1
  <2>8. /\ q[b].size >= 1 /\ b + (HeaderSize + q[b].size) <= Len(q) + 1
        /\ \A k \in 1 .. HeaderSize : q[b + k - 1] = Header(q[b].stream, q[b].size)
        /\ \A k \in 1 .. q[b].size :
              q[b + HeaderSize + k - 1] = Data(q[b].stream, q[b + HeaderSize].at + k - 1)
    BY <1>3, <2>2, <2>3, <2>6, <2>7
  <2> HIDE DEF b
  <2>9. FrameAt(q, b) BY <2>8 DEF FrameAt
  <2> QED BY <2>2, <2>9 DEF b
<1>7. ASSUME NEW b \in B \cup {e}, b <= Len(q)
      PROVE  FrameAt(q, b) /\ b + (HeaderSize + q[b].size) \in B \cup {e}
  <2>1. b \in B /\ b \in 1 .. Len(p) + 1 BY <1>2, <1>3, <1>7 DEF Framed
  <2>2. CASE b <= Len(p) BY <1>5, <2>1, <2>2
  <2>3. CASE b = Len(p) + 1 BY <1>6, <2>3
  <2>4. b <= Len(p) \/ b = Len(p) + 1 BY <1>3, <2>1
  <2> QED BY <2>2, <2>3, <2>4
<1> QED BY <1>4, <1>7 DEF Framed

\* The rest after the first frame.
LEMMA RestFramed ==
  ASSUME NEW p \in Seq(Bytes), NEW B, Framed(p, B), Len(p) >= 1,
         NEW h, h = HeaderSize + p[1].size, NEW q \in Seq(Bytes), Len(q) = Len(p) - h,
         \A k \in 1 .. Len(q) : q[k] = p[h + k]
  PROVE  Framed(q, {b \in 1 .. Len(q) + 1 : h + b \in B})
<1> DEFINE C == {b \in 1 .. Len(q) + 1 : h + b \in B}
<1>1. Len(p) \in Nat /\ Len(q) \in Nat /\ p[1].size \in Nat BY ByteIs
<1>2. h \in Nat /\ h >= 1 /\ 1 + h \in B /\ 1 + h <= Len(p) + 1
  <2>1. FrameAt(p, 1) /\ 1 + (HeaderSize + p[1].size) \in B BY <1>1 DEF Framed
  <2>2. 1 + (HeaderSize + p[1].size) <= Len(p) + 1 BY <2>1 DEF FrameAt
  <2>3. h = HeaderSize + p[1].size OBVIOUS
  <2>4. h \in Nat /\ h >= 1 BY ONLY <1>1, <2>3, Constants
  <2> QED BY ONLY <2>1, <2>2, <2>3, <2>4
<1>3. C \subseteq 1 .. Len(q) + 1 /\ 1 \in C /\ Len(q) + 1 \in C
  <2>1. h + 1 = 1 + h /\ h + (Len(q) + 1) = Len(p) + 1
    <3>1. Len(q) = Len(p) - h OBVIOUS
    <3> QED BY ONLY <1>1, <1>2, <3>1
  <2>2. h + 1 \in B /\ h + (Len(q) + 1) \in B BY <1>2, <2>1 DEF Framed
  <2>3. 1 \in 1 .. Len(q) + 1 /\ Len(q) + 1 \in 1 .. Len(q) + 1 BY <1>1
  <2> QED BY <2>2, <2>3
<1>4. ASSUME NEW b \in C, b <= Len(q) PROVE FrameAt(q, b) /\ b + (HeaderSize + q[b].size) \in C
  <2>1. b \in Nat /\ b >= 1 /\ b \in 1 .. Len(q) /\ h + b \in B /\ h + b <= Len(p) /\ q[b] = p[h + b]
    <3>1. b \in 1 .. Len(q) + 1 /\ h + b \in B BY <1>4
    <3>2. b \in Nat /\ b >= 1 /\ b \in 1 .. Len(q) BY ONLY <1>1, <1>4, <3>1
    <3>3. q[b] = p[h + b] /\ Len(q) = Len(p) - h BY <3>2
    <3>4. h + b <= Len(p) BY ONLY <1>1, <1>2, <3>2, <3>3
    <3> QED BY <3>1, <3>2, <3>3, <3>4
  <2>2. FrameAt(p, h + b) /\ h + b + (HeaderSize + p[h + b].size) \in B BY <2>1 DEF Framed
  <2> DEFINE m == q[b].size
  <2>3. m \in Nat /\ m >= 1 /\ h + b + (HeaderSize + m) <= Len(p) + 1
    BY <2>1, <2>2, ByteIs DEF FrameAt
  <2>4. /\ \A k \in 1 .. HeaderSize : p[h + b + k - 1] = Header(q[b].stream, m)
        /\ \A k \in 1 .. m :
              p[h + b + HeaderSize + k - 1] = Data(q[b].stream, p[h + b + HeaderSize].at + k - 1)
    BY <2>1, <2>2 DEF FrameAt
  <2> HIDE DEF m
  <2>5. b + (HeaderSize + m) <= Len(q) + 1
    <3>1. Len(q) = Len(p) - h OBVIOUS
    <3> QED BY ONLY <1>1, <1>2, <2>1, <2>3, <3>1, Constants
  <2>6. ASSUME NEW k \in 1 .. HeaderSize + m PROVE q[b + k - 1] = p[h + b + k - 1]
    <3>1. b + k - 1 \in 1 .. Len(q) /\ h + (b + k - 1) = h + b + k - 1
      <4>1. b \in Nat /\ b >= 1 /\ h \in Nat /\ Len(q) \in Nat /\ k \in 1 .. HeaderSize + m
        BY <1>1, <1>2, <2>1
      <4> QED BY ONLY <2>3, <2>5, <4>1, Constants
    <3> QED BY <3>1
  <2>7. ASSUME NEW k \in 1 .. HeaderSize PROVE q[b + k - 1] = Header(q[b].stream, m)
    <3>1. k \in 1 .. HeaderSize + m BY <2>3, Constants
    <3> QED BY <2>4, <2>6, <3>1
  <2>8. ASSUME NEW k \in 1 .. m PROVE q[b + HeaderSize + k - 1] = p[h + b + HeaderSize + k - 1]
    <3>1. /\ HeaderSize + k \in 1 .. HeaderSize + m
          /\ b + (HeaderSize + k) - 1 = b + HeaderSize + k - 1
          /\ h + b + (HeaderSize + k) - 1 = h + b + HeaderSize + k - 1
      <4>1. b \in Nat /\ h \in Nat /\ k \in 1 .. m BY <1>2, <2>1
      <4> QED BY ONLY <2>3, <4>1, Constants
    <3> QED BY <2>6, <3>1
  <2>9. q[b + HeaderSize] = p[h + b + HeaderSize]
    <3>1. /\ 1 \in 1 .. m /\ b + HeaderSize + 1 - 1 = b + HeaderSize
          /\ h + b + HeaderSize + 1 - 1 = h + b + HeaderSize
      <4>1. b \in Nat /\ h \in Nat BY <1>2, <2>1
      <4> QED BY ONLY <2>3, <4>1, Constants
    <3> QED BY <2>8, <3>1
  <2>10. FrameAt(q, b) BY <2>3, <2>4, <2>5, <2>7, <2>8, <2>9 DEF FrameAt, m
  <2>11. b + (HeaderSize + m) \in C
    <3>1. h + (b + (HeaderSize + m)) = h + b + (HeaderSize + m) BY <1>2, <2>1, <2>3, Constants
    <3>2. b + (HeaderSize + m) \in 1 .. Len(q) + 1 BY <1>1, <2>1, <2>3, <2>5, Constants
    <3>3. h + b + (HeaderSize + m) \in B BY <2>1, <2>2 DEF m
    <3> QED BY <3>1, <3>2, <3>3
  <2> QED BY <2>10, <2>11 DEF m
<1> HIDE DEF C
<1>5. Framed(q, C) BY <1>3, <1>4 DEF Framed
<1> QED BY <1>5 DEF C

LEMMA WrittenPending ==
  ASSUME NEW p \in Seq(Bytes), NEW d \in [Streams -> Nat], NEW w \in [Streams -> Nat],
         Pending(p, d, w), NEW s \in Streams, NEW n \in 1 .. MaxPayload, w[s] + n <= MaxOutput,
         d[s] <= w[s], NEW q, q = p \o Frame(s, w[s], n)
  PROVE  Pending(q, d, [w EXCEPT ![s] = w[s] + n])
<1> DEFINE f == Frame(s, w[s], n)
           h == HeaderSize + n
           v == [w EXCEPT ![s] = w[s] + n]
<1>1. /\ f \in Seq(Bytes) /\ Len(f) = h
      /\ \A k \in 1 .. HeaderSize : f[k] = Header(s, n)
      /\ \A k \in 1 .. n : f[HeaderSize + k] = Data(s, w[s] + k)
  BY FrameIs
<1> HIDE DEF f
<1>2. /\ q \in Seq(Bytes) /\ Len(q) = Len(p) + h
      /\ \A k \in 1 .. Len(p) : q[k] = p[k]
      /\ \A k \in 1 .. h : q[Len(p) + k] = f[k]
  <2>1. q = p \o f /\ p \in Seq(Bytes) /\ f \in Seq(Bytes) BY <1>1 DEF f
  <2>2. /\ q \in Seq(Bytes) /\ Len(q) = Len(p) + Len(f)
        /\ \A k \in 1 .. Len(p) : q[k] = p[k]
        /\ \A k \in 1 .. Len(f) : q[Len(p) + k] = f[k]
    BY ONLY <2>1, Concat
  <2> QED BY <1>1, <2>2
<1>3. Len(p) \in Nat /\ n \in Nat /\ n >= 1 /\ h \in Nat BY Constants
<1>4. v \in [Streams -> Nat] /\ v[s] = w[s] + n /\ \A t \in Streams : t # s => v[t] = w[t] BY <1>3
<1> HIDE DEF v
<1>5. \A t \in Streams : w[t] <= v[t] /\ w[t] \in Nat /\ v[t] \in Nat /\ d[t] \in Nat BY <1>3, <1>4
<1>6. ASSUME NEW k \in 1 .. n
      PROVE  Len(p) + (HeaderSize + k) \in 1 .. Len(q) /\ q[Len(p) + (HeaderSize + k)] = Data(s, w[s] + k)
  <2>1. HeaderSize + k \in 1 .. h BY Constants
  <2>2. Len(p) + (HeaderSize + k) \in 1 .. Len(p) + h BY ONLY <1>3, <2>1
  <2> QED BY <1>1, <1>2, <2>1, <2>2
<1>7. ASSUME NEW i \in 1 .. Len(q), q[i].size = 0
      PROVE  \/ i \in 1 .. Len(p) /\ q[i] = p[i]
             \/ \E k \in 1 .. n : i = Len(p) + (HeaderSize + k) /\ q[i] = Data(s, w[s] + k)
  <2>1. CASE i <= Len(p) BY <1>2, <2>1
  <2>2. CASE i > Len(p) /\ i <= Len(p) + HeaderSize
    <3>1. i - Len(p) \in 1 .. HeaderSize /\ i - Len(p) \in 1 .. h /\ Len(p) + (i - Len(p)) = i
      BY <1>3, <2>2, Constants
    <3>2. q[i] = Header(s, n) BY <1>1, <1>2, <3>1
    <3> QED BY <1>3, <1>7, <3>2, FieldsAre
  <2>3. CASE i > Len(p) + HeaderSize
    <3> DEFINE k == i - Len(p) - HeaderSize
    <3>1. i <= Len(p) + h /\ i \in Nat BY <1>2, <1>3
    <3>2. k \in 1 .. n /\ i = Len(p) + (HeaderSize + k) BY <1>3, <2>3, <3>1, Constants
    <3> HIDE DEF k
    <3> QED BY <1>6, <3>2
  <2> QED BY <1>3, <2>1, <2>2, <2>3, Constants
<1>8. ASSUME NEW i \in 1 .. Len(q), q[i].size = 0
      PROVE  d[q[i].stream] < q[i].at /\ q[i].at <= v[q[i].stream]
  <2>1. CASE i \in 1 .. Len(p) /\ q[i] = p[i]
    <3>1. d[p[i].stream] < p[i].at /\ p[i].at <= w[p[i].stream] BY <1>8, <2>1 DEF Pending
    <3>2. p[i].stream \in Streams /\ p[i].at \in Nat BY <2>1, ByteIs
    <3> QED BY <1>5, <2>1, <3>1, <3>2, SMTT(30)
  <2>2. CASE \E k \in 1 .. n : i = Len(p) + (HeaderSize + k) /\ q[i] = Data(s, w[s] + k)
    <3>1. PICK k \in 1 .. n : q[i] = Data(s, w[s] + k) BY <2>2
    <3>2. q[i].stream = s /\ q[i].at = w[s] + k BY <3>1, FieldsAre
    <3> QED BY <1>4, <1>5, <3>2
  <2> QED BY <1>7, <1>8, <2>1, <2>2
<1>9. ASSUME NEW i \in 1 .. Len(q), NEW j \in 1 .. Len(q), i < j,
             q[i].size = 0, q[j].size = 0, q[i].stream = q[j].stream
      PROVE  q[i].at < q[j].at
  <2>1. CASE \E k \in 1 .. n : j = Len(p) + (HeaderSize + k) /\ q[j] = Data(s, w[s] + k)
    <3>1. PICK k \in 1 .. n : j = Len(p) + (HeaderSize + k) /\ q[j] = Data(s, w[s] + k) BY <2>1
    <3>2. q[j].stream = s /\ q[j].at = w[s] + k BY <3>1, FieldsAre
    <3>3. CASE i \in 1 .. Len(p) /\ q[i] = p[i]
      <4>1. p[i].at <= w[s] /\ p[i].at \in Nat BY <1>9, <3>2, <3>3, ByteIs DEF Pending
      <4> QED BY <1>5, <3>2, <3>3, <4>1
    <3>4. CASE \E l \in 1 .. n : i = Len(p) + (HeaderSize + l) /\ q[i] = Data(s, w[s] + l)
      <4>1. PICK l \in 1 .. n : i = Len(p) + (HeaderSize + l) /\ q[i] = Data(s, w[s] + l) BY <3>4
      <4>2. q[i].at = w[s] + l BY <4>1, FieldsAre
      <4>3. l < k BY ONLY <1>3, <1>9, <3>1, <4>1, Constants
      <4> QED BY <1>5, <3>2, <4>2, <4>3
    <3> QED BY <1>7, <1>9, <3>3, <3>4
  <2>2. CASE j \in 1 .. Len(p) /\ q[j] = p[j]
    <3>1. i \in 1 .. Len(p) /\ q[i] = p[i] BY <1>2, <1>3, <1>9, <2>2
    <3> QED BY <1>9, <2>2, <3>1 DEF Pending
  <2> QED BY <1>7, <1>9, <2>1, <2>2
<1>10. ASSUME NEW t \in Streams, NEW k \in d[t] + 1 .. v[t]
       PROVE  \E i \in 1 .. Len(q) : q[i] = Data(t, k)
  <2>1. CASE k <= w[t]
    <3>1. k \in d[t] + 1 .. w[t] BY <1>5, <2>1
    <3>2. PICK i \in 1 .. Len(p) : p[i] = Data(t, k) BY <3>1 DEF Pending
    <3>3. i \in 1 .. Len(q) /\ q[i] = p[i] BY <1>2, <1>3
    <3> QED BY <3>2, <3>3
  <2>2. CASE k > w[t]
    <3>1. t = s BY <1>4, <1>5, <2>2
    <3>2. k - w[s] \in 1 .. n /\ w[s] + (k - w[s]) = k BY <1>4, <1>5, <2>2, <3>1
    <3> QED BY <1>6, <3>1, <3>2
  <2> QED BY <1>5, <2>1, <2>2
<1>11. Pending(q, d, v) BY <1>8, <1>9, <1>10 DEF Pending
<1> QED BY <1>11 DEF v

\* The first frame, of m bytes of s, holds the next bytes of its stream.
FirstIs(p, d, w, s, m) ==
    /\ s \in Streams /\ m \in Nat /\ m >= 1 /\ HeaderSize + m <= Len(p)
    /\ \A k \in 1 .. HeaderSize : p[k].size = m
    /\ \A k \in 1 .. m : p[HeaderSize + k] = Data(s, d[s] + k)
    /\ d[s] + m <= w[s]

LEMMA FirstFrame ==
  ASSUME NEW p \in Seq(Bytes), NEW B, Framed(p, B), Len(p) >= 1,
         NEW d \in [Streams -> Nat], NEW w \in [Streams -> Nat], Pending(p, d, w),
         NEW s, s = p[1].stream, NEW m, m = p[1].size
  PROVE  FirstIs(p, d, w, s, m)
<1>1. Len(p) \in Nat /\ s \in Streams /\ m \in Nat /\ d[s] \in Nat /\ w[s] \in Nat BY ByteIs
<1>2. FrameAt(p, 1) BY <1>1 DEF Framed
<1>3. m >= 1 /\ 1 + (HeaderSize + m) <= Len(p) + 1 BY <1>2 DEF FrameAt
<1>4. HeaderSize + m <= Len(p) BY ONLY <1>1, <1>3, Constants
<1>5. ASSUME NEW k \in 1 .. HeaderSize PROVE p[k].size = m
  <2>1. p[1 + k - 1] = Header(s, m) /\ 1 + k - 1 = k BY <1>2, Constants DEF FrameAt
  <2> QED BY <2>1, FieldsAre
<1> DEFINE a == p[1 + HeaderSize].at
<1>6. ASSUME NEW k \in 1 .. m PROVE p[HeaderSize + k] = Data(s, a + k - 1)
  <2>1. p[1 + HeaderSize + k - 1] = Data(s, a + k - 1) BY <1>2 DEF FrameAt
  <2>2. 1 + HeaderSize + k - 1 = HeaderSize + k BY <1>1, Constants
  <2> QED BY <2>1, <2>2
<1>7. 1 + HeaderSize \in 1 .. Len(p) /\ a \in Nat /\ p[1 + HeaderSize] = Data(s, a)
  <2>1. 1 + HeaderSize \in 1 .. Len(p) BY ONLY <1>1, <1>3, <1>4, Constants
  <2>2. a \in Nat BY <2>1, ByteIs
  <2>3. 1 \in 1 .. m /\ HeaderSize + 1 = 1 + HeaderSize /\ a + 1 - 1 = a
    BY <1>1, <1>3, <2>2, Constants
  <2> QED BY <1>6, <2>1, <2>2, <2>3
<1>8. d[s] < a /\ a <= w[s] BY <1>7, FieldsAre DEF Pending
<1> HIDE DEF a
<1>9. a = d[s] + 1
  <2>1. d[s] + 1 \in d[s] + 1 .. w[s] BY <1>1, <1>7, <1>8
  <2>2. PICK i \in 1 .. Len(p) : p[i] = Data(s, d[s] + 1) BY <1>1, <2>1 DEF Pending
  <2>3. p[i].size = 0 /\ p[i].stream = s /\ p[i].at = d[s] + 1 BY <2>2, FieldsAre
  <2>4. ~(i \in 1 .. HeaderSize) BY <1>3, <1>5, <2>3
  <2>5. CASE i = 1 + HeaderSize BY <1>7, <2>3, <2>5, FieldsAre
  <2>6. CASE i > 1 + HeaderSize
    <3>1. a < p[i].at BY <1>7, <2>3, <2>6, FieldsAre DEF Pending
    <3> QED BY <1>1, <1>7, <1>8, <2>3, <3>1
  <2> QED BY <2>4, <2>5, <2>6, Constants
<1>10. ASSUME NEW k \in 1 .. m PROVE p[HeaderSize + k] = Data(s, d[s] + k)
  <2>1. k \in Nat BY <1>1
  <2>2. a + k - 1 = d[s] + k BY ONLY <1>1, <1>9, <2>1
  <2> QED BY <1>6, <2>2
<1>11. d[s] + m <= w[s]
  <2>1. p[HeaderSize + m] = Data(s, d[s] + m) BY <1>1, <1>3, <1>10
  <2>2. HeaderSize + m \in 1 .. Len(p) BY ONLY <1>1, <1>3, <1>4, Constants
  <2> DEFINE i == HeaderSize + m
  <2>3. p[i].size = 0 /\ p[i].stream = s /\ p[i].at = d[s] + m BY <2>1, FieldsAre
  <2>4. i \in 1 .. Len(p) BY <2>2
  <2> HIDE DEF i
  <2>5. p[i].at <= w[p[i].stream] BY <2>3, <2>4 DEF Pending
  <2> QED BY <2>3, <2>5
<1> QED BY <1>1, <1>3, <1>4, <1>5, <1>10, <1>11 DEF FirstIs

\* When it is taken, the rest is pending.
FirstTaken(p, B, d, w, s, m, q) ==
    /\ p \in Seq(Bytes) /\ Framed(p, B) /\ Len(p) >= 1
    /\ d \in [Streams -> Nat] /\ w \in [Streams -> Nat] /\ Pending(p, d, w)
    /\ s = p[1].stream /\ m = p[1].size
    /\ q \in Seq(Bytes) /\ Len(q) = Len(p) - (HeaderSize + m)
    /\ \A k \in 1 .. Len(q) : q[k] = p[(HeaderSize + m) + k]

LEMMA RestPending ==
  ASSUME NEW p, NEW B, NEW d, NEW w, NEW s, NEW m, NEW q, FirstTaken(p, B, d, w, s, m, q)
  PROVE  Pending(q, [d EXCEPT ![s] = d[s] + m], w)
<1>0. /\ p \in Seq(Bytes) /\ Framed(p, B) /\ Len(p) >= 1
      /\ d \in [Streams -> Nat] /\ w \in [Streams -> Nat] /\ Pending(p, d, w)
      /\ s = p[1].stream /\ m = p[1].size
      /\ q \in Seq(Bytes) /\ Len(q) = Len(p) - (HeaderSize + m)
      /\ \A k \in 1 .. Len(q) : q[k] = p[(HeaderSize + m) + k]
  BY DEF FirstTaken
<1> USE <1>0
<1> DEFINE h == HeaderSize + m
           c == [d EXCEPT ![s] = d[s] + m]
<1>1. /\ s \in Streams /\ m \in Nat /\ m >= 1 /\ h <= Len(p)
      /\ \A k \in 1 .. HeaderSize : p[k].size = m
      /\ \A k \in 1 .. m : p[HeaderSize + k] = Data(s, d[s] + k)
      /\ d[s] + m <= w[s]
  <2>1. FirstIs(p, d, w, s, m) BY FirstFrame
  <2> QED BY <2>1 DEF FirstIs
<1>2. c \in [Streams -> Nat] /\ c[s] = d[s] + m /\ \A t \in Streams : t # s => c[t] = d[t] BY <1>1
<1>3. h \in Nat /\ h >= 1 /\ Len(p) \in Nat /\ Len(q) \in Nat
  <2>1. Len(p) \in Nat /\ Len(q) \in Nat OBVIOUS
  <2> QED BY ONLY <1>1, <2>1, Constants
<1>4. /\ p[h] = Data(s, d[s] + m) /\ h \in 1 .. Len(p)
      /\ p[h].size = 0 /\ p[h].stream = s /\ p[h].at = d[s] + m
  <2>1. m \in 1 .. m BY <1>1
  <2>2. p[h] = Data(s, d[s] + m) BY <1>1, <2>1
  <2>3. h \in 1 .. Len(p) BY ONLY <1>1, <1>3
  <2> QED BY <2>2, <2>3, FieldsAre
<1>5. Len(q) = Len(p) - h /\ \A k \in 1 .. Len(q) : q[k] = p[h + k] OBVIOUS
<1> HIDE DEF h, c
<1>6. \A k \in 1 .. Len(q) : h + k \in 1 .. Len(p) /\ q[k] = p[h + k]
  <2>1. \A k \in 1 .. Len(q) : h + k \in 1 .. Len(p) BY ONLY <1>3, <1>5
  <2> QED BY <1>5, <2>1
<1>7. ASSUME NEW i \in 1 .. Len(q), q[i].size = 0
      PROVE  c[q[i].stream] < q[i].at /\ q[i].at <= w[q[i].stream]
  <2>1. h + i \in 1 .. Len(p) /\ q[i] = p[h + i] /\ q[i].stream \in Streams BY <1>6, ByteIs
  <2>2. d[q[i].stream] < q[i].at /\ q[i].at <= w[q[i].stream] BY <1>7, <2>1 DEF Pending
  <2>3. CASE q[i].stream # s BY <1>2, <2>1, <2>2, <2>3
  <2>4. CASE q[i].stream = s
    <3>1. h < h + i BY <1>3
    <3>2. p[h + i].size = 0 /\ p[h + i].stream = p[h].stream BY <1>4, <1>7, <2>1, <2>4
    <3>3. p[h].at < p[h + i].at BY <1>4, <2>1, <3>1, <3>2 DEF Pending
    <3>4. d[s] + m < q[i].at BY <1>4, <2>1, <3>3
    <3> QED BY <1>2, <2>2, <2>4, <3>4
  <2> QED BY <2>3, <2>4
<1>8. ASSUME NEW i \in 1 .. Len(q), NEW j \in 1 .. Len(q), i < j,
             q[i].size = 0, q[j].size = 0, q[i].stream = q[j].stream
      PROVE  q[i].at < q[j].at
  <2>1. h + i < h + j BY <1>3, <1>8
  <2>2. /\ h + i \in 1 .. Len(p) /\ h + j \in 1 .. Len(p)
        /\ q[i] = p[h + i] /\ q[j] = p[h + j]
    BY <1>6
  <2>3. p[h + i].at < p[h + j].at BY <1>8, <2>1, <2>2 DEF Pending
  <2> QED BY <2>2, <2>3
<1>9. ASSUME NEW t \in Streams, NEW k \in c[t] + 1 .. w[t]
      PROVE  \E i \in 1 .. Len(q) : q[i] = Data(t, k)
  <2>1. d[t] \in Nat /\ c[t] \in Nat /\ w[t] \in Nat /\ d[t] <= c[t]
    <3>1. d[t] \in Nat /\ c[t] \in Nat /\ w[t] \in Nat BY <1>2
    <3>2. d[t] <= c[t]
      <4>1. CASE t = s BY <1>1, <1>2, <3>1, <4>1
      <4>2. CASE t # s BY <1>2, <3>1, <4>2
      <4> QED BY <4>1, <4>2
    <3> QED BY <3>1, <3>2
  <2>2. k \in d[t] + 1 .. w[t] BY <2>1
  <2>3. PICK i \in 1 .. Len(p) : p[i] = Data(t, k) BY <2>2 DEF Pending
  <2>4. p[i].size = 0 BY <2>3, FieldsAre
  <2>5. i > h
    <3>1. SUFFICES ASSUME i <= h PROVE FALSE BY <1>3
    <3>2. ~(i <= HeaderSize)
      <4>1. SUFFICES ASSUME i <= HeaderSize PROVE FALSE OBVIOUS
      <4>2. i \in 1 .. HeaderSize BY <4>1, Constants
      <4>3. p[i].size = m BY <1>1, <4>2
      <4> QED BY <1>1, <2>4, <4>3
    <3>3. i - HeaderSize \in 1 .. m /\ HeaderSize + (i - HeaderSize) = i
      <4>1. i \in Nat /\ i <= HeaderSize + m BY <1>3, <3>1 DEF h
      <4> QED BY ONLY <1>1, <3>2, <4>1, Constants
    <3>4. Data(t, k) = Data(s, d[s] + (i - HeaderSize)) BY <1>1, <2>3, <3>3
    <3>5. t = s /\ k = d[s] + (i - HeaderSize) BY <3>4 DEF Data
    <3>6. k <= c[t]
      <4>1. c[t] = d[s] + m /\ d[s] \in Nat BY <1>2, <2>1, <3>5
      <4> QED BY ONLY <1>1, <3>3, <3>5, <4>1
    <3> QED BY <2>1, <3>6
  <2>6. i - h \in 1 .. Len(q) /\ h + (i - h) = i BY ONLY <1>3, <1>5, <2>5
  <2>7. q[i - h] = Data(t, k) BY <1>6, <2>3, <2>6
  <2> QED BY <2>6, <2>7
<1>10. Pending(q, c, w) BY <1>7, <1>8, <1>9 DEF Pending
<1> QED BY <1>10 DEF c

-----------------------------------------------------------------------------
(* What is kept of a stream.                                                 *)

\* A buffer holds the beginning of what it was given and, once its head is full,
\* the end.
KeptRight(s, b) ==
    /\ \A k \in 1 .. Len(b.head) : b.head[k] = Data(s, k)
    /\ \A k \in 1 .. Len(b.tail) : b.tail[k] = Data(s, Len(b.head) + b.dropped + k)
    /\ Len(b.head) < HeadCap => b.dropped = 0 /\ Len(b.tail) = 0
    /\ b.dropped > 0 => Len(b.tail) = TailCap

LEMMA BufferIs ==
  ASSUME NEW b \in Buffers
  PROVE  /\ b.head \in Seq(Bytes) /\ b.tail \in Seq(Bytes) /\ b.dropped \in Nat
         /\ Len(b.head) \in Nat /\ Len(b.tail) \in Nat /\ Taken(b) \in Nat
         /\ Len(b.head) <= HeadCap /\ Len(b.tail) <= TailCap
<1>1. b.head \in Seq(Bytes) /\ b.tail \in Seq(Bytes) /\ b.dropped \in Nat
      /\ Len(b.head) <= HeadCap /\ Len(b.tail) <= TailCap
  BY DEF Buffers
<1>2. Len(b.head) \in Nat /\ Len(b.tail) \in Nat BY <1>1
<1> QED BY <1>1, <1>2 DEF Taken

\* Given what comes next in the stream, it still does.
LEMMA AppendedRight ==
  ASSUME NEW s, NEW b \in Buffers, KeptRight(s, b), NEW bytes \in Seq(Bytes),
         \A k \in 1 .. Len(bytes) : bytes[k] = Data(s, Taken(b) + k)
  PROVE  KeptRight(s, Appended(b, bytes))
<1> DEFINE c == Appended(b, bytes)
<1>1. PICK n \in 0 .. Len(bytes), e \in Nat : Fills(b, bytes, c, n, e)
  <2>1. c = Appended(b, bytes) OBVIOUS
  <2> HIDE DEF c
  <2> QED BY <2>1, AppendedIs
<1> HIDE DEF c
<1> DEFINE h == Len(b.head)
           t == Len(b.tail)
           d == b.dropped
           l == Len(bytes)
<1>2. /\ h \in Nat /\ t \in Nat /\ d \in Nat /\ l \in Nat
      /\ h <= HeadCap /\ t <= TailCap /\ n \in Nat /\ n <= l /\ e \in Nat
  BY BufferIs
<1>3. /\ n = (IF HeadCap - h <= l THEN HeadCap - h ELSE l)
      /\ e = (IF t + l - n > TailCap THEN t + l - n - TailCap ELSE 0)
  BY <1>1 DEF Fills
<1>4. Len(c.head) = h + n /\ Len(c.tail) = t + l - n - e /\ c.dropped = d + e
  BY <1>1 DEF Fills
<1>5. /\ \A k \in 1 .. h : c.head[k] = b.head[k]
      /\ \A k \in 1 .. n : c.head[h + k] = bytes[k]
      /\ \A k \in 1 .. t + l - n - e :
            c.tail[k] = IF e + k <= t THEN b.tail[e + k] ELSE bytes[n + (e + k - t)]
  BY <1>1, <1>4 DEF Fills
<1>6. /\ \A k \in 1 .. h : b.head[k] = Data(s, k)
      /\ \A k \in 1 .. t : b.tail[k] = Data(s, h + d + k)
      /\ h < HeadCap => d = 0 /\ t = 0
      /\ d > 0 => t = TailCap
  BY DEF KeptRight
<1>7. \A k \in 1 .. l : bytes[k] = Data(s, h + d + t + k) BY DEF Taken
<1> HIDE DEF h, t, d, l
<1>8. /\ n > 0 => d = 0 /\ t = 0
      /\ h + n < HeadCap => d + e = 0 /\ t + l - n - e = 0
      /\ d + e > 0 => t + l - n - e = TailCap
  <2>1. (h < HeadCap => d = 0 /\ t = 0) /\ (d > 0 => t = TailCap) BY <1>6
  <2>2. n > 0 => h < HeadCap BY ONLY <1>2, <1>3, Constants
  <2>3. ASSUME h + n < HeadCap PROVE d + e = 0 /\ t + l - n - e = 0
    <3>1. n = l /\ h < HeadCap BY ONLY <1>2, <1>3, <2>3, Constants
    <3>2. d = 0 /\ t = 0 BY <2>1, <3>1
    <3>3. e = 0 BY ONLY <1>2, <1>3, <3>1, <3>2, Constants
    <3> QED BY ONLY <1>2, <3>1, <3>2, <3>3
  <2>4. ASSUME d + e > 0 PROVE t + l - n - e = TailCap
    <3>1. CASE e > 0 BY ONLY <1>2, <1>3, <3>1, Constants
    <3>2. CASE e = 0
      <4>1. t = TailCap BY <1>2, <2>1, <2>4, <3>2
      <4> QED BY ONLY <1>2, <1>3, <3>2, <4>1, Constants
    <3> QED BY <1>2, <3>1, <3>2
  <2> QED BY <2>1, <2>2, <2>3, <2>4
<1>9. ASSUME NEW k \in 1 .. h + n PROVE c.head[k] = Data(s, k)
  <2>1. CASE k <= h
    <3>1. k \in 1 .. h BY <1>2, <2>1
    <3> QED BY <1>5, <1>6, <3>1
  <2>2. CASE k > h
    <3> DEFINE j == k - h
    <3>1. j \in 1 .. n /\ h + j = k /\ j \in Nat BY <1>2, <2>2
    <3> HIDE DEF j
    <3>2. h + d + t + j = k /\ j \in 1 .. l BY ONLY <1>2, <1>8, <3>1
    <3> QED BY <1>5, <1>7, <3>1, <3>2
  <2> QED BY <1>2, <2>1, <2>2
<1>10. ASSUME NEW k \in 1 .. t + l - n - e
       PROVE  c.tail[k] = Data(s, (h + n) + (d + e) + k)
  <2>1. k \in Nat /\ k >= 1 /\ e + k <= t + l - n BY <1>2
  <2>2. CASE e + k <= t
    <3>1. e + k \in 1 .. t BY <1>2, <2>1, <2>2
    <3>2. n = 0 BY <1>2, <1>8, <3>1
    <3>3. h + d + (e + k) = (h + n) + (d + e) + k BY ONLY <1>2, <2>1, <3>2
    <3>4. b.tail[e + k] = Data(s, h + d + (e + k)) BY <1>6, <3>1
    <3> QED BY <1>5, <2>2, <3>3, <3>4
  <2>3. CASE ~(e + k <= t)
    <3> DEFINE j == n + (e + k - t)
    <3>1. j \in 1 .. l /\ h + d + t + j = (h + n) + (d + e) + k BY ONLY <1>2, <2>1, <2>3
    <3>2. c.tail[k] = bytes[j] BY <1>5, <2>3
    <3> HIDE DEF j
    <3> QED BY <1>7, <3>1, <3>2
  <2> QED BY <2>2, <2>3
<1>11. KeptRight(s, c) BY <1>4, <1>8, <1>9, <1>10 DEF KeptRight
<1> QED BY <1>11 DEF c

\* The agent gets all of it, or the two ends.
LEMMA ShownRight ==
  ASSUME NEW s \in Streams, NEW b \in Buffers, KeptRight(s, b), NEW w \in Nat, Taken(b) = w,
         NEW all, all = [k \in 1 .. w |-> Data(s, k)], \A k \in 1 .. w : Data(s, k) \in Bytes
  PROVE  /\ b.head \o b.tail = Shown(all)
         /\ Len(all) = Len(b.head \o b.tail) + b.dropped
<1> DEFINE h == Len(b.head)
           l == Len(b.tail)
           d == b.dropped
           c == b.head \o b.tail
<1>1. /\ h \in Nat /\ l \in Nat /\ d \in Nat /\ w \in Nat /\ w = h + d + l
      /\ h <= HeadCap /\ l <= TailCap
  BY BufferIs DEF Taken
<1>2. (h < HeadCap => d = 0 /\ l = 0) /\ (d > 0 => l = TailCap) BY DEF KeptRight
<1>3. all \in Seq(Bytes) /\ Len(all) = w /\ \A k \in 1 .. w : all[k] = Data(s, k)
  <2> DEFINE g(k) == Data(s, k)
  <2>1. all = [k \in 1 .. w |-> g(k)] /\ \A k \in 1 .. w : g(k) \in Bytes OBVIOUS
  <2> HIDE DEF g
  <2>2. all \in Seq(Bytes) /\ Len(all) = w /\ \A k \in 1 .. w : all[k] = g(k) BY <2>1
  <2> QED BY <2>2 DEF g
<1>4. /\ c \in Seq(Bytes) /\ Len(c) = h + l
      /\ \A k \in 1 .. h : c[k] = b.head[k]
      /\ \A k \in 1 .. l : c[h + k] = b.tail[k]
  <2> DEFINE x == b.head
             y == b.tail
  <2>1. c = x \o y /\ x \in Seq(Bytes) /\ y \in Seq(Bytes) BY BufferIs
  <2> HIDE DEF c, x, y
  <2>2. /\ c \in Seq(Bytes) /\ Len(c) = Len(x) + Len(y)
        /\ \A k \in 1 .. Len(x) : c[k] = x[k]
        /\ \A k \in 1 .. Len(y) : c[Len(x) + k] = y[k]
    BY <2>1, Concat
  <2> QED BY <2>2 DEF x, y
<1>5. /\ \A k \in 1 .. h : c[k] = Data(s, k)
      /\ \A k \in 1 .. l : c[h + k] = Data(s, h + d + k)
  <2>1. /\ \A k \in 1 .. h : b.head[k] = Data(s, k)
        /\ \A k \in 1 .. l : b.tail[k] = Data(s, h + d + k)
    BY DEF KeptRight
  <2> HIDE DEF c, h, l, d
  <2> QED BY <1>4, <2>1
<1> SUFFICES c = Shown(all) /\ Len(all) = Len(c) + d OBVIOUS
<1> HIDE DEF h, l, d, c
<1>6. CASE d = 0
  <2>1. Len(c) = w /\ w <= HeadCap + TailCap BY <1>1, <1>4, <1>6, Constants
  <2>2. ASSUME NEW k \in 1 .. w PROVE c[k] = all[k]
    <3>1. CASE k <= h BY <1>1, <1>3, <1>5, <3>1
    <3>2. CASE k > h
      <4>1. k - h \in 1 .. l /\ h + (k - h) = k
            /\ h + d + (k - h) = k
        BY <1>1, <1>6, <3>2
      <4> QED BY <1>3, <1>5, <4>1
    <3> QED BY <1>1, <3>1, <3>2
  <2>3. c = all BY ONLY <1>3, <1>4, <2>1, <2>2
  <2>4. Shown(all) = all BY <1>3, <2>1 DEF Shown
  <2> QED BY <1>3, <1>6, <2>1, <2>3, <2>4
<1>7. CASE d > 0
  <2>1. l = TailCap /\ h = HeadCap
    <3>1. l = TailCap /\ ~(h < HeadCap) BY <1>2, <1>7
    <3> QED BY <1>1, <3>1, Constants
  <2>2. w > HeadCap + TailCap /\ HeadCap \in Nat /\ TailCap \in Nat
    BY ONLY <1>1, <1>7, <2>1, Constants
  <2> DEFINE x == SubSeq(all, 1, HeadCap)
             y == SubSeq(all, w - TailCap + 1, w)
             z == x \o y
  <2>3. Shown(all) = z BY <1>3, <2>2 DEF Shown
  <2>4. x \in Seq(Bytes) /\ Len(x) = HeadCap /\ \A k \in 1 .. HeadCap : x[k] = Data(s, k)
    <3>1. /\ x \in Seq(Bytes) /\ Len(x) = (IF 1 <= HeadCap + 1 THEN HeadCap - 1 + 1 ELSE 0)
          /\ \A k \in 1 .. Len(x) : x[k] = all[1 + k - 1]
      <4>1. HeadCap <= Len(all) BY <1>3, <2>2
      <4> QED BY <1>3, <2>2, <4>1, Slice
    <3> HIDE DEF x
    <3>2. Len(x) = HeadCap BY <2>2, <3>1
    <3>3. ASSUME NEW k \in 1 .. HeadCap PROVE x[k] = Data(s, k)
      <4>1. 1 + k - 1 = k /\ k \in 1 .. w BY <2>2
      <4> QED BY <1>3, <3>1, <3>2, <4>1
    <3> QED BY <3>1, <3>2, <3>3
  <2>5. /\ y \in Seq(Bytes) /\ Len(y) = TailCap
        /\ \A k \in 1 .. TailCap : y[k] = Data(s, w - TailCap + k)
    <3> DEFINE m == w - TailCap + 1
    <3>1. m \in Nat /\ m >= 1 /\ m <= w + 1 /\ w <= Len(all) /\ w - m + 1 = TailCap BY <1>3, <2>2
    <3>2. y = SubSeq(all, m, w) OBVIOUS
    <3> HIDE DEF m, y
    <3>3. /\ y \in Seq(Bytes) /\ Len(y) = (IF m <= w + 1 THEN w - m + 1 ELSE 0)
          /\ \A k \in 1 .. Len(y) : y[k] = all[m + k - 1]
      BY <1>3, <3>1, <3>2, Slice
    <3>4. Len(y) = TailCap BY <3>1, <3>3
    <3>5. ASSUME NEW k \in 1 .. TailCap PROVE y[k] = Data(s, w - TailCap + k)
      <4>1. m + k - 1 = w - TailCap + k /\ m + k - 1 \in 1 .. w BY <2>2, <3>1 DEF m
      <4> QED BY <1>3, <3>3, <3>4, <4>1
    <3> QED BY <3>3, <3>4, <3>5
  <2> HIDE DEF x, y
  <2>6. /\ z \in Seq(Bytes) /\ Len(z) = HeadCap + TailCap
        /\ \A k \in 1 .. HeadCap : z[k] = x[k]
        /\ \A k \in 1 .. TailCap : z[HeadCap + k] = y[k]
    <3>1. z = x \o y /\ x \in Seq(Bytes) /\ y \in Seq(Bytes) BY <2>4, <2>5
    <3> HIDE DEF z
    <3>2. /\ z \in Seq(Bytes) /\ Len(z) = Len(x) + Len(y)
          /\ \A k \in 1 .. Len(x) : z[k] = x[k]
          /\ \A k \in 1 .. Len(y) : z[Len(x) + k] = y[k]
      BY ONLY <3>1, Concat
    <3> QED BY <2>4, <2>5, <3>2
  <2> HIDE DEF z
  <2>7. Len(c) = HeadCap + TailCap BY <1>4, <2>1
  <2>8. ASSUME NEW k \in 1 .. HeadCap + TailCap PROVE c[k] = z[k]
    <3>1. CASE k <= HeadCap
      <4>1. k \in 1 .. HeadCap /\ k \in 1 .. h BY <2>1, <2>2, <3>1
      <4> QED BY <1>5, <2>4, <2>6, <4>1
    <3>2. CASE k > HeadCap
      <4> DEFINE j == k - HeadCap
      <4>1. j \in 1 .. TailCap /\ HeadCap + j = k BY <2>2, <3>2
      <4> HIDE DEF j
      <4>2. c[HeadCap + j] = Data(s, HeadCap + d + j) BY <1>5, <2>1, <4>1
      <4>3. z[HeadCap + j] = Data(s, w - TailCap + j) BY <2>5, <2>6, <4>1
      <4>4. HeadCap + d + j = w - TailCap + j BY ONLY <1>1, <2>1, <2>2, <4>1
      <4> QED BY <4>1, <4>2, <4>3, <4>4
    <3> QED BY <2>2, <3>1, <3>2
  <2>9. c = z BY ONLY <1>4, <2>6, <2>7, <2>8
  <2>10. Len(all) = Len(c) + d BY ONLY <1>1, <1>3, <2>1, <2>7, Constants
  <2> QED BY <2>3, <2>9, <2>10
<1> QED BY <1>1, <1>6, <1>7

-----------------------------------------------------------------------------
(* The output.                                                               *)

Coming == buffer \o wire
Given == [s \in Streams |-> Taken(kept[s])]
AllGiven == ~open /\ Given = printed

KeptInv == \A s \in Streams : KeptRight(s, kept[s]) /\ Given[s] <= printed[s]

WireInv ==
    handler \in {"create", "read", "decode"} =>
        Pending(Coming, Given, printed) /\ \E B : Framed(Coming, B)

ReplyInv ==
    /\ handler = "poll" => AllGiven
    /\ reply.kind = "result" =>
          /\ AllGiven
          /\ \A s \in Streams : reply.body[s] = kept[s].head \o kept[s].tail
          /\ reply.dropped = kept["stdout"].dropped + kept["stderr"].dropped

\* While the stream has not broken off: what was kept is right, what is under way
\* are the frames of what was not yet kept, and nothing is left out of a reply.
StreamInv == ~broken => KeptInv /\ WireInv /\ ReplyInv

LEMMA Numbers ==
  ASSUME Contents
  PROVE  /\ Given \in [Streams -> Nat] /\ printed \in [Streams -> Nat]
         /\ \A s \in Streams : Given[s] = Taken(kept[s])
         /\ Coming \in Seq(Bytes) /\ wire \in Seq(Bytes) /\ buffer \in Seq(Bytes)
         /\ Len(Coming) = Len(buffer) + Len(wire)
         /\ \A k \in 1 .. Len(buffer) : Coming[k] = buffer[k]
         /\ \A k \in 1 .. Len(wire) : Coming[Len(buffer) + k] = wire[k]
<1>1. \A s \in Streams : kept[s] \in Buffers BY DEF Contents
<1>2. \A s \in Streams : Taken(kept[s]) \in Nat BY <1>1, BufferIs
<1>3. Given \in [Streams -> Nat] /\ \A s \in Streams : Given[s] = Taken(kept[s]) BY <1>2 DEF Given
<1>4. printed \in [Streams -> Nat] BY Constants DEF Contents
<1>5. wire \in Seq(Bytes) /\ buffer \in Seq(Bytes) BY DEF Contents
<1>6. Coming = buffer \o wire BY DEF Coming
<1>7. /\ Coming \in Seq(Bytes) /\ Len(Coming) = Len(buffer) + Len(wire)
      /\ \A k \in 1 .. Len(buffer) : Coming[k] = buffer[k]
      /\ \A k \in 1 .. Len(wire) : Coming[Len(buffer) + k] = wire[k]
  BY <1>5, <1>6, Concat
<1> QED BY <1>3, <1>4, <1>5, <1>7

LEMMA InitStream == Init => StreamInv
<1> SUFFICES ASSUME Init PROVE StreamInv OBVIOUS
<1>1. Coming = <<>> /\ Len(Coming) = 0 BY DEF Init, Coming
<1>2. \A s \in Streams : kept[s] = Empty /\ printed[s] = 0 BY DEF Init
<1>3. Taken(Empty) = 0 /\ \A s \in Streams : KeptRight(s, Empty)
  <2>1. Empty.head = <<>> /\ Empty.tail = <<>> /\ Empty.dropped = 0 /\ Len(Empty.head) = 0
        /\ Len(Empty.tail) = 0
    BY DEF Empty
  <2> QED BY <2>1 DEF Taken, KeptRight
<1>4. \A s \in Streams : Given[s] = 0 BY <1>2, <1>3 DEF Given
<1>5. KeptInv BY <1>2, <1>3, <1>4 DEF KeptInv
<1>6. Framed(Coming, {1}) BY <1>1 DEF Framed
<1>7. Pending(Coming, Given, printed) BY <1>1, <1>2, <1>4 DEF Pending
<1>8. ReplyInv BY DEF Init, NoReply, ReplyInv
<1> QED BY <1>5, <1>6, <1>7, <1>8 DEF StreamInv, WireInv

\* A step that leaves the bytes and the buffers alone, and makes no result.
LEMMA QuietStream ==
  ASSUME StreamInv, UNCHANGED <<printed, reader>>, broken = broken',
         (open' => open) \/ (handler # "poll" /\ reply.kind # "result"),
         \/ handler' = handler \/ handler' = "replied"
         \/ handler \in {"create", "read", "decode"} /\ handler' # "poll",
         reply' = reply \/ reply'.kind # "result"
  PROVE  StreamInv'
<1> SUFFICES ASSUME ~broken PROVE (KeptInv /\ WireInv /\ ReplyInv)' BY DEF StreamInv
<1>1. KeptInv /\ WireInv /\ ReplyInv BY DEF StreamInv
<1>2. Given' = Given /\ Coming' = Coming BY DEF reader, Given, Coming
<1>3. KeptInv' BY <1>1, <1>2 DEF KeptInv, reader
<1>4. WireInv'
  <2>1. handler' \in {"create", "read", "decode"} => handler \in {"create", "read", "decode"}
    OBVIOUS
  <2> QED BY <1>1, <1>2, <2>1 DEF WireInv
<1>5. ReplyInv'
  <2>1. AllGiven /\ (open' => open) => AllGiven' BY <1>2 DEF AllGiven
  <2> QED BY <1>1, <2>1 DEF ReplyInv, reader
<1> QED BY <1>3, <1>4, <1>5

LEMMA WriteStream == ASSUME TypeInv, StreamInv, Write PROVE StreamInv'
<1> SUFFICES ASSUME ~broken PROVE (KeptInv /\ WireInv /\ ReplyInv)' BY DEF StreamInv, Write
<1>1. KeptInv /\ WireInv /\ ReplyInv BY DEF StreamInv
<1>2. PICK s \in Streams, n \in 1 .. MaxPayload :
          /\ printed["stdout"] + printed["stderr"] + n <= MaxOutput
          /\ wire' = wire \o Frame(s, printed[s], n)
          /\ printed' = [printed EXCEPT ![s] = printed[s] + n]
  BY DEF Write
<1>3. UNCHANGED <<handler, open, buffer, kept, reply>> /\ open BY DEF Write
<1>4. /\ Given \in [Streams -> Nat] /\ printed \in [Streams -> Nat]
      /\ Coming \in Seq(Bytes) /\ wire \in Seq(Bytes) /\ buffer \in Seq(Bytes)
  BY Numbers DEF TypeInv
<1>5. printed[s] + n <= MaxOutput /\ printed[s] \in Nat
  <2>1. printed["stdout"] \in Nat /\ printed["stderr"] \in Nat /\ s \in {"stdout", "stderr"}
    BY <1>4 DEF Streams
  <2> QED BY <1>2, <2>1, Constants
<1>6. Given' = Given /\ Given[s] <= printed[s] BY <1>1, <1>3 DEF KeptInv, Given
<1>7. Coming' = Coming \o Frame(s, printed[s], n)
  <2> DEFINE f == Frame(s, printed[s], n)
  <2>1. f \in Seq(Bytes) BY <1>5, FrameIs
  <2> HIDE DEF f
  <2>2. (buffer \o wire) \o f = buffer \o (wire \o f)
    <3>1. buffer \in Seq(Bytes) /\ wire \in Seq(Bytes) BY <1>4
    <3> QED BY ONLY <2>1, <3>1, ConcatAssociative, SMTT(30)
  <2> QED BY <1>2, <1>3, <2>2 DEF Coming, f
<1>8. KeptInv'
  <2>1. ASSUME NEW t \in Streams
        PROVE  printed[t] <= printed'[t] /\ printed[t] \in Nat /\ printed'[t] \in Nat
    <3>1. printed[t] \in Nat BY <1>4
    <3>2. printed'[t] = IF t = s THEN printed[s] + n ELSE printed[t] BY <1>2, <1>4
    <3>3. n \in Nat OBVIOUS
    <3> QED BY ONLY <3>1, <3>2, <3>3
  <2>2. \A t \in Streams : Given[t] \in Nat BY <1>4
  <2> QED BY <1>1, <1>3, <1>6, <2>1, <2>2 DEF KeptInv
<1>9. WireInv'
  <2> SUFFICES ASSUME handler \in {"create", "read", "decode"}
               PROVE  Pending(Coming', Given, printed') /\ \E B : Framed(Coming', B)
    BY <1>3, <1>6 DEF WireInv
  <2>1. Pending(Coming, Given, printed) /\ \E B : Framed(Coming, B) BY <1>1 DEF WireInv
  <2>2. PICK B : Framed(Coming, B) BY <2>1
  <2>3. Framed(Coming', B \cup {Len(Coming) + 1 + (HeaderSize + n)})
    BY <1>4, <1>5, <1>7, <2>2, WrittenFramed
  <2>4. Pending(Coming', Given, [printed EXCEPT ![s] = printed[s] + n])
    BY <1>4, <1>5, <1>6, <1>7, <2>1, WrittenPending
  <2> QED BY <1>2, <2>3, <2>4
<1>10. ReplyInv' BY <1>1, <1>3 DEF ReplyInv, AllGiven
<1> QED BY <1>8, <1>9, <1>10

LEMMA ReadStream == ASSUME TypeInv, StreamInv, Read PROVE StreamInv'
<1> SUFFICES ASSUME ~broken PROVE (KeptInv /\ WireInv /\ ReplyInv)' BY DEF StreamInv, Read, daemon
<1>1. KeptInv /\ WireInv /\ ReplyInv BY DEF StreamInv
<1>2. UNCHANGED <<open, printed, kept, reply>> /\ handler = "read" /\ handler' = "decode"
  BY DEF Read, daemon
<1>3. Coming' = Coming BY ReadMoves DEF TypeInv, Contents, Coming
<1>4. Given' = Given BY <1>2 DEF Given
<1>5. WireInv' BY <1>1, <1>2, <1>3, <1>4 DEF WireInv
<1>6. KeptInv' /\ ReplyInv' BY <1>1, <1>2, <1>4 DEF KeptInv, ReplyInv, AllGiven
<1> QED BY <1>5, <1>6

LEMMA DecodeStream == ASSUME TypeInv, StreamInv, Decode PROVE StreamInv'
<1> SUFFICES ASSUME ~broken PROVE (KeptInv /\ WireInv /\ ReplyInv)' BY DEF StreamInv, Decode, daemon
<1>1. KeptInv /\ WireInv /\ ReplyInv BY DEF StreamInv
<1>2. /\ UNCHANGED <<handler, open, printed, wire, reply>> /\ handler = "decode" /\ Whole(buffer)
      /\ kept' = [kept EXCEPT ![buffer[1].stream] =
                     Appended(kept[buffer[1].stream], Payload(buffer))]
      /\ buffer' = Rest(buffer)
  BY DEF Decode, daemon
<1> DEFINE s == buffer[1].stream
           m == buffer[1].size
           c == Appended(kept[s], Payload(buffer))
           p == Coming
           q == Coming'
<1>3. /\ Given \in [Streams -> Nat] /\ printed \in [Streams -> Nat]
      /\ \A t \in Streams : Given[t] = Taken(kept[t])
      /\ p \in Seq(Bytes) /\ wire \in Seq(Bytes) /\ buffer \in Seq(Bytes)
      /\ Len(p) = Len(buffer) + Len(wire)
      /\ \A k \in 1 .. Len(buffer) : p[k] = buffer[k]
      /\ \A k \in 1 .. Len(wire) : p[Len(buffer) + k] = wire[k]
  BY Numbers DEF TypeInv
<1>4. Len(buffer) \in Nat /\ Len(wire) \in Nat /\ Len(buffer) >= 1 /\ Len(p) >= 1
      /\ Len(buffer) >= HeaderSize + m
  <2>1. Len(buffer) \in Nat /\ Len(wire) \in Nat BY <1>3
  <2>2. Len(buffer) >= HeaderSize /\ Len(buffer) >= HeaderSize + m BY <1>2 DEF Whole
  <2> QED BY <1>3, <2>1, <2>2, Constants
<1>5. p[1] = buffer[1] BY <1>3, <1>4
<1>6. Pending(p, Given, printed) /\ \E B : Framed(p, B) BY <1>1, <1>2 DEF WireInv
<1>7. PICK B : Framed(p, B) BY <1>6
<1>8. s = p[1].stream /\ m = p[1].size BY <1>5
<1> HIDE DEF p, q, s, m
<1>9. FirstIs(p, Given, printed, s, m) BY <1>3, <1>4, <1>6, <1>7, <1>8, FirstFrame
<1>10. /\ s \in Streams /\ m \in Nat /\ m >= 1 /\ Given[s] + m <= printed[s]
       /\ \A k \in 1 .. m : p[HeaderSize + k] = Data(s, Given[s] + k)
  BY <1>9 DEF FirstIs
<1>11. /\ Payload(buffer) \in Seq(Bytes) /\ Len(Payload(buffer)) = m
       /\ \A k \in 1 .. m : Payload(buffer)[k] = buffer[HeaderSize + k]
       /\ buffer' \in Seq(Bytes) /\ Len(buffer') = Len(buffer) - (HeaderSize + m)
       /\ \A k \in 1 .. Len(buffer') : buffer'[k] = buffer[(HeaderSize + m) + k]
  BY <1>2, <1>3, Cut DEF m
<1>12. /\ q \in Seq(Bytes) /\ Len(q) = Len(buffer') + Len(wire)
       /\ \A k \in 1 .. Len(buffer') : q[k] = buffer'[k]
       /\ \A k \in 1 .. Len(wire) : q[Len(buffer') + k] = wire[k]
  <2>1. q = buffer' \o wire /\ buffer' \in Seq(Bytes) /\ wire \in Seq(Bytes)
    BY <1>2, <1>3, <1>11 DEF q, Coming
  <2> QED BY ONLY <2>1, Concat
<1>13. /\ Len(q) = Len(p) - (HeaderSize + m)
       /\ \A k \in 1 .. Len(q) : q[k] = p[(HeaderSize + m) + k]
  <2> DEFINE h == HeaderSize + m
  <2>1. h \in Nat /\ Len(buffer') = Len(buffer) - h /\ h <= Len(buffer) BY <1>4, <1>10, <1>11, Constants
  <2>2. \A k \in 1 .. Len(buffer') : buffer'[k] = buffer[h + k] BY <1>11
  <2> HIDE DEF h
  <2>3. Len(q) = Len(p) - h /\ Len(q) \in Nat /\ Len(buffer') \in Nat BY <1>3, <1>4, <1>12, <2>1
  <2>4. ASSUME NEW k \in 1 .. Len(q) PROVE q[k] = p[h + k]
    <3>1. CASE k <= Len(buffer')
      <4>1. k \in 1 .. Len(buffer') /\ h + k \in 1 .. Len(buffer) BY ONLY <1>4, <2>1, <2>3, <2>4, <3>1
      <4> QED BY <1>3, <1>12, <2>2, <4>1
    <3>2. CASE k > Len(buffer')
      <4> DEFINE j == k - Len(buffer')
      <4>1. j \in 1 .. Len(wire) /\ Len(buffer') + j = k /\ Len(buffer) + j = h + k
        BY <1>4, <1>12, <2>1, <2>3, <3>2
      <4> HIDE DEF j
      <4>2. q[k] = wire[j] BY <1>12, <4>1
      <4>3. p[h + k] = wire[j] BY <1>3, <4>1
      <4> QED BY <4>2, <4>3
    <3> QED BY <2>3, <3>1, <3>2
  <2> QED BY <2>3, <2>4 DEF h
<1>14. \E C : Framed(q, C)
  <2>1. Framed(q, {b \in 1 .. Len(q) + 1 : (HeaderSize + m) + b \in B})
    BY <1>3, <1>4, <1>7, <1>8, <1>12, <1>13, RestFramed
  <2> QED BY <2>1
<1>15. Pending(q, [Given EXCEPT ![s] = Given[s] + m], printed)
  <2>1. FirstTaken(p, B, Given, printed, s, m, q)
    BY <1>3, <1>4, <1>6, <1>7, <1>8, <1>12, <1>13 DEF FirstTaken
  <2> QED BY ONLY <2>1, RestPending
<1>16. c \in Buffers /\ Taken(c) = Given[s] + m /\ KeptRight(s, c)
  <2>1. kept[s] \in Buffers /\ KeptRight(s, kept[s]) /\ Given[s] = Taken(kept[s])
    BY <1>1, <1>3, <1>10 DEF TypeInv, Contents, KeptInv
  <2>2. \A k \in 1 .. m : HeaderSize + k \in 1 .. Len(buffer) BY ONLY <1>4, <1>10, Constants
  <2>3. ASSUME NEW k \in 1 .. m PROVE Payload(buffer)[k] = Data(s, Taken(kept[s]) + k)
    <3>1. p[HeaderSize + k] = buffer[HeaderSize + k] BY <1>3, <2>2
    <3> QED BY <1>10, <1>11, <2>1, <3>1
  <2>4. c \in Buffers /\ Taken(c) = Taken(kept[s]) + m BY <1>11, <2>1, AppendedIsBuffer
  <2>5. KeptRight(s, c) BY <1>11, <2>1, <2>3, AppendedRight
  <2> QED BY <2>1, <2>4, <2>5
<1>17. kept' = [kept EXCEPT ![s] = c] BY <1>2 DEF s
<1> HIDE DEF c
<1>18. kept'[s] = c /\ \A t \in Streams : t # s => kept'[t] = kept[t]
  BY <1>10, <1>17 DEF TypeInv, Contents
<1>19. Given' = [Given EXCEPT ![s] = Given[s] + m]
  <2>1. \A t \in Streams : Given'[t] = Taken(kept'[t]) BY DEF Given
  <2>2. Given' = [t \in Streams |-> Taken(kept'[t])] BY DEF Given
  <2>3. \A t \in Streams : Taken(kept'[t]) = [Given EXCEPT ![s] = Given[s] + m][t]
    BY <1>3, <1>10, <1>16, <1>18
  <2> QED BY <1>3, <2>2, <2>3
<1>20. KeptInv'
  <2>1. ASSUME NEW t \in Streams PROVE KeptRight(t, kept'[t]) /\ Given'[t] <= printed[t]
    <3>1. CASE t = s BY <1>3, <1>10, <1>16, <1>18, <1>19, <3>1
    <3>2. CASE t # s BY <1>1, <1>3, <1>18, <1>19, <3>2 DEF KeptInv
    <3> QED BY <3>1, <3>2
  <2> QED BY <1>2, <2>1 DEF KeptInv
<1>21. WireInv' BY <1>2, <1>14, <1>15, <1>19 DEF WireInv, q
<1>22. ReplyInv'
  <2>1. reply.kind = "none" BY <1>2 DEF TypeInv, Controls
  <2> QED BY <1>2, <2>1 DEF ReplyInv
<1> QED BY <1>20, <1>21, <1>22

\* At the end of a stream that was not broken off nothing is left.
LEMMA EndStream == ASSUME TypeInv, StreamInv, ReadEnd PROVE StreamInv'
<1> SUFFICES ASSUME ~broken PROVE (KeptInv /\ WireInv /\ ReplyInv)' BY DEF StreamInv, ReadEnd, daemon
<1>1. KeptInv /\ WireInv /\ ReplyInv BY DEF StreamInv
<1>2. /\ UNCHANGED <<open, printed, wire, reply>> /\ handler = "read" /\ handler' = "poll"
      /\ kept' = WithRest(buffer) /\ ReadReturns /\ wire = <<>>
  BY DEF ReadEnd, daemon
<1>3. ~open
  <2>1. Len(wire) = 0 BY <1>2
  <2> QED BY <1>2, <2>1, Constants DEF ReadReturns
<1>4. /\ Given \in [Streams -> Nat] /\ printed \in [Streams -> Nat]
      /\ Coming \in Seq(Bytes) /\ buffer \in Seq(Bytes) /\ Coming = buffer
      /\ \A s \in Streams : Given[s] = Taken(kept[s])
  <2>1. buffer \o <<>> = buffer BY DEF TypeInv, Contents
  <2> QED BY <1>2, <2>1, Numbers DEF TypeInv, Coming
<1>5. Pending(buffer, Given, printed) /\ \E B : Framed(buffer, B) BY <1>1, <1>2, <1>4 DEF WireInv
<1>6. PICK B : Framed(buffer, B) BY <1>5
<1>7. buffer = <<>>
  <2> SUFFICES ASSUME Len(buffer) >= 1 PROVE FALSE BY <1>4
  <2>1. FirstIs(buffer, Given, printed, buffer[1].stream, buffer[1].size)
    BY <1>4, <1>5, <1>6, FirstFrame
  <2>2. HeaderSize + buffer[1].size <= Len(buffer) /\ buffer[1].size \in Nat /\ Len(buffer) \in Nat
    BY <1>4, <2>1 DEF FirstIs
  <2>3. Whole(buffer) BY <2>2, Constants DEF Whole
  <2> QED BY <1>2, <2>3 DEF TypeInv, Contents
<1>8. \A s \in Streams : Given[s] = printed[s]
  <2> SUFFICES ASSUME NEW s \in Streams PROVE Given[s] = printed[s] OBVIOUS
  <2>1. Given[s] \in Nat /\ printed[s] \in Nat /\ Given[s] <= printed[s] BY <1>1, <1>4 DEF KeptInv
  <2>2. Len(buffer) = 0 BY <1>7
  <2>3. ASSUME NEW k \in Given[s] + 1 .. printed[s] PROVE FALSE BY <1>5, <2>2 DEF Pending
  <2> QED BY <2>1, <2>3
<1> DEFINE bytes == SubSeq(buffer, IF Len(buffer) < HeaderSize /\ \A s \in Streams : kept[s] = Empty
                                   THEN 1 ELSE HeaderSize + 1, Len(buffer))
           c == Appended(kept["stdout"], bytes)
<1>9. bytes = <<>> /\ bytes \in Seq(Bytes) /\ Len(bytes) = 0
  <2>1. Len(buffer) = 0 BY <1>7
  <2>2. bytes = SubSeq(buffer, 1, 0) \/ bytes = SubSeq(buffer, HeaderSize + 1, 0) BY <2>1
  <2>3. SubSeq(buffer, 1, 0) = <<>> /\ SubSeq(buffer, HeaderSize + 1, 0) = <<>>
    BY <1>4, Constants
  <2> HIDE DEF bytes
  <2>4. bytes = <<>> BY <2>2, <2>3
  <2> QED BY <2>4
<1>10. kept' = [kept EXCEPT !["stdout"] = c] BY <1>2 DEF WithRest
<1> HIDE DEF bytes
<1>11. c \in Buffers /\ Taken(c) = Given["stdout"] /\ KeptRight("stdout", c)
  <2>1. "stdout" \in Streams BY DEF Streams
  <2>2. kept["stdout"] \in Buffers /\ KeptRight("stdout", kept["stdout"])
        /\ Given["stdout"] = Taken(kept["stdout"]) /\ Given["stdout"] \in Nat
    BY <1>1, <1>4, <2>1 DEF TypeInv, Contents, KeptInv
  <2>3. c \in Buffers /\ Taken(c) = Taken(kept["stdout"]) + 0 BY <1>9, <2>2, AppendedIsBuffer
  <2>4. \A k \in 1 .. Len(bytes) : bytes[k] = Data("stdout", Taken(kept["stdout"]) + k) BY <1>9
  <2>5. KeptRight("stdout", c) BY <1>9, <2>2, <2>4, AppendedRight
  <2> QED BY <2>2, <2>3, <2>5
<1> HIDE DEF c
<1>12. ASSUME NEW s \in Streams PROVE KeptRight(s, kept'[s]) /\ Given'[s] = Given[s]
  <2>1. Given'[s] = Taken(kept'[s]) BY DEF Given
  <2>2. CASE s = "stdout" BY <1>10, <1>11, <2>1, <2>2 DEF TypeInv, Contents
  <2>3. CASE s # "stdout"
    <3>1. kept'[s] = kept[s] BY <1>10, <2>3 DEF TypeInv, Contents
    <3> QED BY <1>1, <1>4, <2>1, <3>1 DEF KeptInv
  <2> QED BY <2>2, <2>3
<1>13. KeptInv' BY <1>1, <1>2, <1>12 DEF KeptInv
<1>14. WireInv' BY <1>2 DEF WireInv
<1>15. Given' = printed'
  <2>1. Given' = [s \in Streams |-> Taken(kept'[s])] /\ \A s \in Streams : Given'[s] = Taken(kept'[s])
    BY DEF Given
  <2>2. \A s \in Streams : Given'[s] = printed[s] BY <1>8, <1>12
  <2> QED BY <1>2, <1>4, <2>1, <2>2
<1>16. ReplyInv'
  <2>1. reply'.kind = "none" BY <1>2 DEF TypeInv, Controls
  <2>2. AllGiven' BY <1>2, <1>3, <1>15 DEF AllGiven
  <2> QED BY <2>1, <2>2 DEF ReplyInv
<1> QED BY <1>13, <1>14, <1>16

LEMMA PollStream == ASSUME StreamInv, Poll PROVE StreamInv'
<1>1. UNCHANGED <<printed, reader, broken, open>> /\ handler = "poll" BY DEF Poll, daemon
<1>2. CASE (handler' = handler /\ reply' = reply) \/ (handler' = "replied" /\ reply'.kind # "result")
  <2>1. open' => open BY <1>1, Zenon
  <2> QED BY <1>1, <1>2, <2>1, QuietStream
<1>3. ASSUME NEW exit, Result(exit) PROVE StreamInv'
  <2> SUFFICES ASSUME ~broken PROVE (KeptInv /\ WireInv /\ ReplyInv)' BY <1>1 DEF StreamInv
  <2>1. KeptInv /\ AllGiven BY <1>1 DEF StreamInv, ReplyInv
  <2>2. Given' = Given /\ UNCHANGED kept BY <1>1 DEF Given, reader
  <2>3. KeptInv' /\ AllGiven' BY <1>1, <2>1, <2>2 DEF KeptInv, AllGiven
  <2>4. /\ handler' = "replied"
        /\ reply'.dropped = kept["stdout"].dropped + kept["stderr"].dropped
        /\ \A s \in Streams : reply'.body[s] = kept[s].head \o kept[s].tail
    BY <1>3, Resulted
  <2> QED BY <2>2, <2>3, <2>4 DEF WireInv, ReplyInv
<1>4. CASE UNCHANGED <<handler, reply>> BY <1>2, <1>4
<1>5. CASE Failure BY <1>2, <1>5, Failed
<1> QED BY <1>3, <1>4, <1>5 DEF Poll

LEMMA StreamStep == ASSUME TypeInv, StreamInv, [Next]_vars PROVE StreamInv'
<1>1. CASE Start
  <2>1. UNCHANGED <<printed, reader, broken, reply>> /\ handler = "create" /\ handler' = "read"
    BY <1>1 DEF Start
  <2>2. reply.kind = "none" BY <2>1 DEF TypeInv, Controls
  <2> QED BY <2>1, <2>2, QuietStream
<1>2. CASE StartFails BY <1>2, Failed, QuietStream DEF StartFails
<1>3. CASE ReadOn
  <2>1. UNCHANGED <<daemon, reader>> /\ handler = "decode" BY <1>3 DEF ReadOn
  <2>2. (handler' = "read" /\ reply' = reply) \/ (handler' = "replied" /\ reply'.kind = "timeout")
    BY <1>3, Answered DEF ReadOn
  <2> QED BY <2>1, <2>2, QuietStream DEF daemon
<1>4. CASE ReadTimesOut \/ Reset
  <2>1. UNCHANGED <<daemon, reader>> BY <1>4 DEF ReadTimesOut, Reset
  <2>2. handler' = "replied" /\ reply'.kind \in {"timeout", "failed"}
    BY <1>4, Answered DEF ReadTimesOut, Reset
  <2> QED BY <2>1, <2>2, QuietStream DEF daemon
<1>5. CASE End \/ Publish \/ Tick
  <2>1. UNCHANGED <<printed, reader, broken, open, handler, reply>>
    BY <1>5 DEF End, Publish, Tick, daemon
  <2>2. open' => open BY <2>1, Zenon
  <2> QED BY <2>1, <2>2, QuietStream
<1>6. CASE CloseStream
  <2>1. ~open' BY <1>6 DEF CloseStream
  <2> QED BY <1>6, <2>1, QuietStream DEF CloseStream
<1>7. CASE Break BY <1>7 DEF Break, StreamInv
<1>8. CASE UNCHANGED vars
  <2>1. UNCHANGED <<printed, reader, broken, open, handler, reply>> BY <1>8 DEF vars, reader
  <2>2. open' => open BY <2>1, Zenon
  <2> QED BY <2>1, <2>2, QuietStream
<1> QED BY <1>1, <1>2, <1>3, <1>4, <1>5, <1>6, <1>7, <1>8, WriteStream, ReadStream, DecodeStream,
           EndStream, PollStream
        DEF Next, Handler, Reading, Daemon

LEMMA StreamIsWhole == ASSUME TypeInv, StreamInv PROVE OutputWhole
<1> SUFFICES ASSUME reply.kind = "result", ~broken
             PROVE  /\ \A s \in Streams : reply.body[s] = Shown(Printed(s))
                    /\ reply.dropped = Len(Printed("stdout")) + Len(Printed("stderr"))
                                       - Len(reply.body["stdout"]) - Len(reply.body["stderr"])
  BY DEF OutputWhole
<1>1. KeptInv /\ ReplyInv BY DEF StreamInv
<1>2. /\ \A s \in Streams : Given[s] = printed[s] /\ reply.body[s] = kept[s].head \o kept[s].tail
      /\ reply.dropped = kept["stdout"].dropped + kept["stderr"].dropped
  BY <1>1 DEF ReplyInv, AllGiven
<1>3. ASSUME NEW s \in Streams
      PROVE  /\ reply.body[s] = Shown(Printed(s))
             /\ Len(Printed(s)) = Len(reply.body[s]) + kept[s].dropped
             /\ Len(reply.body[s]) \in Nat /\ kept[s].dropped \in Nat
  <2>1. kept[s] \in Buffers /\ KeptRight(s, kept[s]) BY <1>1 DEF TypeInv, Contents, KeptInv
  <2>2. Taken(kept[s]) = printed[s] /\ printed[s] \in Nat /\ printed[s] <= MaxOutput
    <3>1. Given[s] = Taken(kept[s]) BY Numbers DEF TypeInv
    <3>2. printed[s] \in 0 .. MaxOutput BY DEF TypeInv, Contents
    <3>3. printed[s] \in Nat /\ printed[s] <= MaxOutput BY <3>2, Constants
    <3> QED BY <1>2, <3>1, <3>3
  <2>3. \A k \in 1 .. printed[s] : Data(s, k) \in Bytes BY <2>2, Constants DEF Data, Bytes
  <2>4. Printed(s) = [k \in 1 .. printed[s] |-> Data(s, k)] BY DEF Printed
  <2>5. /\ kept[s].head \o kept[s].tail = Shown(Printed(s))
        /\ Len(Printed(s)) = Len(kept[s].head \o kept[s].tail) + kept[s].dropped
    <3> DEFINE w == printed[s]
               all == Printed(s)
               b == kept[s]
    <3>1. /\ b \in Buffers /\ KeptRight(s, b) /\ w \in Nat /\ Taken(b) = w
          /\ all = [k \in 1 .. w |-> Data(s, k)] /\ \A k \in 1 .. w : Data(s, k) \in Bytes
      BY <2>1, <2>2, <2>3, <2>4
    <3> HIDE DEF w, all, b
    <3>2. b.head \o b.tail = Shown(all) /\ Len(all) = Len(b.head \o b.tail) + b.dropped
      BY ONLY <3>1, s \in Streams, ShownRight
    <3> QED BY <3>2 DEF all, b
  <2>6. kept[s].head \o kept[s].tail \in Seq(Bytes) /\ kept[s].dropped \in Nat BY <2>1, BufferIs
  <2> DEFINE x == kept[s].head \o kept[s].tail
  <2>7. Len(x) \in Nat
    <3>1. x \in Seq(Bytes) BY <2>6
    <3> HIDE DEF x
    <3> QED BY <3>1
  <2> QED BY <1>2, <2>5, <2>6, <2>7
<1>4. "stdout" \in Streams /\ "stderr" \in Streams BY DEF Streams
<1>5. reply.dropped = Len(Printed("stdout")) + Len(Printed("stderr"))
                      - Len(reply.body["stdout"]) - Len(reply.body["stderr"])
  <2>1. /\ Len(Printed("stdout")) = Len(reply.body["stdout"]) + kept["stdout"].dropped
        /\ Len(Printed("stderr")) = Len(reply.body["stderr"]) + kept["stderr"].dropped
        /\ Len(reply.body["stdout"]) \in Nat /\ kept["stdout"].dropped \in Nat
        /\ Len(reply.body["stderr"]) \in Nat /\ kept["stderr"].dropped \in Nat
    BY <1>3, <1>4
  <2>2. reply.dropped = kept["stdout"].dropped + kept["stderr"].dropped BY <1>2
  <2> DEFINE a == Len(reply.body["stdout"])
             b == Len(reply.body["stderr"])
             m == kept["stdout"].dropped
             n == kept["stderr"].dropped
             x == Len(Printed("stdout"))
             y == Len(Printed("stderr"))
             z == reply.dropped
  <2>3. /\ a \in Nat /\ b \in Nat /\ m \in Nat /\ n \in Nat
        /\ x = a + m /\ y = b + n /\ z = m + n
    BY <2>1, <2>2
  <2> HIDE DEF a, b, m, n, x, y, z
  <2>4. z = x + y - a - b BY ONLY <2>3
  <2> QED BY <2>4 DEF a, b, x, y, z
<1> QED BY <1>3, <1>5

-----------------------------------------------------------------------------
(* Theorems.                                                                 *)

\* Every variable has its type; what is kept is capped, and what waits to be
\* decoded is less than a frame, and a read.
THEOREM ExecTypes == Spec => []TypeOK
<1> QED BY TypeInvariance, TypeInvTypes, PTL

\* An exit code of the command's own is the one it ended with: whatever the
\* network, the daemon and the deadline do.
THEOREM NoFalseSuccess == Spec => []NeverFalseSuccess
<1>1. ASSUME ExitInv, [Next]_vars PROVE ExitInv'
  <2>1. CASE Handler BY <1>1, <2>1, StartExit, ReadExit, PollExit DEF Handler
  <2>2. CASE Daemon BY <1>1, <2>2, DaemonExit
  <2>3. CASE Tick BY <1>1, <2>3 DEF Tick, daemon, ExitInv, NeverFalseSuccess
  <2>4. CASE UNCHANGED vars BY <1>1, <2>4 DEF vars, ExitInv, NeverFalseSuccess
  <2> QED BY <1>1, <2>1, <2>2, <2>3, <2>4 DEF Next
<1>2. ExitInv => NeverFalseSuccess BY DEF ExitInv
<1> QED BY <1>1, <1>2, InitExit, PTL DEF Spec

\* However the frames are cut by the reads, and whatever the sizes of the reads
\* and of the caps, a result has all of each stream or its two ends and the number
\* of bytes between them, unless the stream broke off.
THEOREM NothingLost == Spec => []OutputWhole
<1>1. Init => StreamInv BY InitStream
<1>2. TypeInv /\ StreamInv /\ [Next]_vars => StreamInv' BY StreamStep
<1>3. TypeInv /\ StreamInv => OutputWhole BY StreamIsWhole
<1> QED BY <1>1, <1>2, <1>3, TypeInvariance, PTL DEF Spec

=============================================================================
