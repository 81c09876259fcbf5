----------------------------- MODULE ExecBroker -----------------------------
(***************************************************************************)
(* One command of the agent in the sandbox: swe-exec posts it to the       *)
(* broker, whose handler creates and starts an exec at the sandbox's       *)
(* daemon, reads the exec's stream to its end (_read_exec_output), asks    *)
(* for the exit code (_wait_for_exit_code) and answers (do_POST).          *)
(*                                                                         *)
(* Handlers of other commands share nothing with this one.  A byte of the  *)
(* output is known by its stream and its place in it.  The exec is created *)
(* without a tty, so what comes is framed: a frame is a header, each byte  *)
(* of which stands for all of it, and its payload.  A read returns         *)
(* ReadSize bytes, or what is left at the end: http.client fills the       *)
(* buffer it is asked for.                                                 *)
(***************************************************************************)
EXTENDS Integers, Sequences, SequencesExt, FiniteSetsExt

CONSTANTS
    HeaderSize, ReadSize, HeadCap, TailCap, \* 8, READ_CHUNK_BYTES, OUTPUT_HEAD_BYTES, ..._TAIL_BYTES
    Timeout,        \* of the command, in ticks: its deadline and that of its sockets
    PollAttempts,   \* EXIT_STATE_POLL_ATTEMPTS
    MaxOutput, MaxPayload   \* bounds of the model: bytes printed, and in one frame

ASSUME BrokerAssumption ==
    /\ {HeaderSize, ReadSize, Timeout, PollAttempts} \subseteq Nat \ {0}
    /\ {HeadCap, TailCap, MaxOutput, MaxPayload} \subseteq Nat

VARIABLES
    handler,    \* "create", "read", "decode", "poll", "replied"
    process,    \* "none", "running", "ended"
    code,       \* its exit code, once it has ended
    published,  \* the daemon says so
    printed,    \* how many bytes it has written to each stream
    open,       \* its output stream
    broken,     \* the stream broke off
    wire,       \* bytes that came and are not yet returned by read
    buffer,     \* bytes read and not yet decoded
    kept,       \* the capped buffer of each stream
    clock,      \* since the start, up to just past the deadline
    quiet,      \* since the last byte
    polls,      \* of the exit code
    reply

vars == <<handler, process, code, published, printed, open, broken, wire, buffer, kept,
          clock, quiet, polls, reply>>
daemon == <<process, code, published, printed, open, broken>>
reader == <<wire, buffer, kept>>
time   == <<clock, quiet>>

-----------------------------------------------------------------------------
Streams == {"stdout", "stderr"}
Codes == {0, 1}
TimeoutCode == 124
UnknownCode == 125
NoReply == [kind |-> "none", exit |-> UnknownCode, dropped |-> 0, body |-> [s \in Streams |-> <<>>]]

Empty == [head |-> <<>>, tail |-> <<>>, dropped |-> 0]

\* Mutant: the tail keeps everything.
AppendedUncapped(b, bytes) ==
    LET n == Min({HeadCap - Len(b.head), Len(bytes)})
    IN  [b EXCEPT !.head = @ \o SubSeq(bytes, 1, n), !.tail = @ \o SubSeq(bytes, n + 1, Len(bytes))]

\* The head is filled first, then the tail, which loses what is oldest.
Appended(b, bytes) ==
    LET n == Min({HeadCap - Len(b.head), Len(bytes)})
        tail == b.tail \o SubSeq(bytes, n + 1, Len(bytes))
        excess == Max({Len(tail) - TailCap, 0})
    IN  [head |-> b.head \o SubSeq(bytes, 1, n), tail |-> SubSeq(tail, excess + 1, Len(tail)),
         dropped |-> b.dropped + excess]

Header(s, n) == [stream |-> s, size |-> n, at |-> 0]
Data(s, k) == [stream |-> s, size |-> 0, at |-> k]

\* The frame of n bytes of a stream that come after a number of others.
Frame(s, from, n) ==
    [k \in 1 .. HeaderSize + n |-> IF k <= HeaderSize THEN Header(s, n)
                                   ELSE Data(s, from + k - HeaderSize)]

\* A frame is decoded when all of it is there.
Whole(bytes) == Len(bytes) >= HeaderSize /\ Len(bytes) >= HeaderSize + bytes[1].size

\* Mutant: what was read along with the frame is cleared.
RestCleared(bytes) == SubSeq(bytes, 1, 0)

Payload(bytes) == SubSeq(bytes, HeaderSize + 1, HeaderSize + bytes[1].size)
Rest(bytes) == SubSeq(bytes, HeaderSize + bytes[1].size + 1, Len(bytes))

\* What is left of a frame at the end of the stream goes to stdout, without its
\* header; what is shorter than the first header of all goes there as it is.
WithRest(bytes) ==
    LET unframed == Len(bytes) < HeaderSize /\ \A s \in Streams : kept[s] = Empty
    IN  [kept EXCEPT !["stdout"] =
            Appended(@, SubSeq(bytes, IF unframed THEN 1 ELSE HeaderSize + 1, Len(bytes)))]

-----------------------------------------------------------------------------
Init ==
    /\ handler = "create" /\ process = "none" /\ code = 0 /\ published = FALSE
    /\ printed = [s \in Streams |-> 0] /\ open = FALSE /\ broken = FALSE
    /\ wire = <<>> /\ buffer = <<>> /\ kept = [s \in Streams |-> Empty]
    /\ clock = 0 /\ quiet = 0 /\ polls = 0
    /\ reply = NoReply

Answer(kind, exit) ==
    /\ handler' = "replied"
    /\ reply' = [NoReply EXCEPT !.kind = kind, !.exit = exit]

\* A timeout is 124, a transport failure 125, anything else a 500 that says 125.
Failure == Answer("timeout", TimeoutCode) \/ Answer("failed", UnknownCode)

Start ==
    /\ handler = "create" /\ handler' = "read"
    /\ process' = "running" /\ open' = TRUE
    /\ clock' \in 0 .. Timeout
    /\ UNCHANGED <<code, published, printed, broken, reader, quiet, polls, reply>>

\* Creating or starting fails; a start whose answer is lost has taken place.
StartFails ==
    /\ handler = "create" /\ Failure
    /\ process' \in {"none", "running"}
    /\ UNCHANGED <<code, published, printed, open, broken, reader, time, polls>>

\* The command, or what it has left in the background, writes.
Write ==
    /\ open
    /\ \E s \in Streams, n \in 1 .. MaxPayload :
          /\ printed["stdout"] + printed["stderr"] + n <= MaxOutput
          /\ wire' = wire \o Frame(s, printed[s], n)
          /\ printed' = [printed EXCEPT ![s] = @ + n]
    /\ quiet' = 0
    /\ UNCHANGED <<handler, process, code, published, open, broken, buffer, kept, clock, polls, reply>>

End ==
    /\ process = "running"
    /\ process' = "ended"
    /\ code' \in Codes
    /\ UNCHANGED <<handler, published, printed, open, broken, reader, time, polls, reply>>

\* The daemon closes the stream and publishes the exit code, in either order.
CloseStream ==
    /\ process = "ended" /\ open
    /\ open' = FALSE
    /\ UNCHANGED <<handler, process, code, published, printed, broken, reader, time, polls, reply>>

Publish ==
    /\ process = "ended" /\ ~published
    /\ published' = TRUE
    /\ UNCHANGED <<handler, process, code, printed, open, broken, reader, time, polls, reply>>

\* The connection goes down anywhere in the bytes under way, which a read takes
\* for the end.
Break ==
    /\ open /\ handler \in {"read", "decode"}
    /\ open' = FALSE /\ broken' = TRUE
    /\ \E n \in 0 .. Len(wire) : wire' = SubSeq(wire, 1, n)
    /\ UNCHANGED <<handler, process, code, published, printed, buffer, kept, time, polls, reply>>

ReadReturns == Len(wire) >= ReadSize \/ ~open

Read ==
    /\ handler = "read" /\ ReadReturns /\ wire # <<>>
    /\ handler' = "decode"
    /\ LET n == Min({ReadSize, Len(wire)})
       IN  buffer' = buffer \o SubSeq(wire, 1, n) /\ wire' = SubSeq(wire, n + 1, Len(wire))
    /\ UNCHANGED <<daemon, kept, time, polls, reply>>

\* One frame after another goes to its stream ...
Decode ==
    /\ handler = "decode" /\ Whole(buffer)
    /\ kept' = [kept EXCEPT ![buffer[1].stream] = Appended(@, Payload(buffer))]
    /\ buffer' = Rest(buffer)
    /\ UNCHANGED <<handler, daemon, wire, time, polls, reply>>

\* ... and before the next read the deadline is looked at.
ReadOn ==
    /\ handler = "decode" /\ ~Whole(buffer)
    /\ IF clock > Timeout THEN Answer("timeout", TimeoutCode)
       ELSE handler' = "read" /\ UNCHANGED reply
    /\ UNCHANGED <<daemon, reader, time, polls>>

ReadEnd ==
    /\ handler = "read" /\ ReadReturns /\ wire = <<>>
    /\ handler' = "poll"
    /\ kept' = WithRest(buffer)
    /\ buffer' = <<>>
    /\ UNCHANGED <<daemon, wire, time, polls, reply>>

\* Mutant: sockets have no timeout.
ReadTimesOutNever ==
    /\ handler = "read" /\ quiet = Timeout /\ ~ReadReturns /\ clock < 0
    /\ Answer("timeout", TimeoutCode)
    /\ UNCHANGED <<daemon, reader, time, polls>>

\* The socket has been silent for too long.
ReadTimesOut ==
    /\ handler = "read" /\ quiet = Timeout /\ ~ReadReturns
    /\ Answer("timeout", TimeoutCode)
    /\ UNCHANGED <<daemon, reader, time, polls>>

Reset ==
    /\ handler = "read"
    /\ Answer("failed", UnknownCode)
    /\ UNCHANGED <<daemon, reader, time, polls>>

Result(exit) ==
    /\ handler' = "replied"
    /\ reply' = [kind |-> "result", exit |-> exit,
                 dropped |-> kept["stdout"].dropped + kept["stderr"].dropped,
                 body |-> [s \in Streams |-> kept[s].head \o kept[s].tail]]

\* Mutant: the code is taken as it comes, zero for none.
PollAnyway ==
    /\ handler = "poll"
    /\ Result(code)
    /\ UNCHANGED <<daemon, reader, time, polls>>

\* An exec that runs has no code yet, and one that is not said to have ended in
\* a number of attempts has none that is known.
Poll ==
    /\ handler = "poll"
    /\ IF polls = PollAttempts THEN Result(UnknownCode) /\ UNCHANGED polls
       ELSE \/ published /\ Result(code) /\ UNCHANGED polls
            \/ ~published /\ polls' = polls + 1 /\ UNCHANGED <<handler, reply>>
            \/ Failure /\ UNCHANGED polls
    /\ UNCHANGED <<daemon, reader, time>>

\* Time passes while the handler waits for bytes.
Tick ==
    /\ handler = "read" /\ ~ReadReturns /\ quiet < Timeout
    /\ clock' = Min({clock + 1, Timeout + 1})
    /\ quiet' = quiet + 1
    /\ UNCHANGED <<handler, daemon, reader, polls, reply>>

Reading == Read \/ Decode \/ ReadOn \/ ReadEnd \/ ReadTimesOut
Handler == Start \/ StartFails \/ Reading \/ Reset \/ Poll
Daemon == Write \/ End \/ CloseStream \/ Publish \/ Break

Next == Handler \/ Daemon \/ Tick \/ (handler = "replied" /\ UNCHANGED vars)

\* The handler goes on and time passes; neither the command nor the network owes
\* anything.
Fairness ==
    /\ WF_vars(Start \/ StartFails) /\ WF_vars(Reading)
    /\ WF_vars(Poll) /\ WF_vars(Tick)

Spec == Init /\ [][Next]_vars /\ Fairness

-----------------------------------------------------------------------------
Bytes == [stream : Streams, size : 0 .. MaxPayload, at : 0 .. MaxOutput]

\* Every variable has its type; what is kept is capped, and what waits to be
\* decoded is less than a frame, and a read.
TypeOK ==
    /\ handler \in {"create", "read", "decode", "poll", "replied"}
    /\ process \in {"none", "running", "ended"} /\ code \in Codes
    /\ {published, open, broken} \subseteq BOOLEAN
    /\ printed \in [Streams -> 0 .. MaxOutput]
    /\ ToSet(wire) \cup ToSet(buffer) \subseteq Bytes
    /\ Len(buffer) < HeaderSize + MaxPayload + (IF handler = "decode" THEN ReadSize ELSE 0)
    /\ \A s \in Streams : /\ Len(kept[s].head) <= HeadCap /\ Len(kept[s].tail) <= TailCap
                           /\ kept[s].dropped \in Nat
    /\ clock \in 0 .. Timeout + 1 /\ quiet \in 0 .. Timeout /\ polls \in 0 .. PollAttempts
    /\ reply.kind \in {"none", "result", "timeout", "failed"}
    /\ reply.exit \in Codes \cup {TimeoutCode, UnknownCode}

\* An exit code of the command's own is the one it ended with: neither a command
\* that runs on nor one that was lost sight of is taken for a success.
NeverFalseSuccess == reply.exit \in Codes => process = "ended" /\ reply.exit = code

Printed(s) == [k \in 1 .. printed[s] |-> Data(s, k)]

Shown(bytes) ==
    IF Len(bytes) <= HeadCap + TailCap THEN bytes
    ELSE SubSeq(bytes, 1, HeadCap) \o SubSeq(bytes, Len(bytes) - TailCap + 1, Len(bytes))

\* However frames are cut by the reads, the agent gets all of each stream, or its
\* head and tail and the number of bytes between them, unless the stream broke off.
OutputWhole ==
    reply.kind = "result" /\ ~broken =>
        /\ \A s \in Streams : reply.body[s] = Shown(Printed(s))
        /\ reply.dropped = Len(Printed("stdout")) + Len(Printed("stderr"))
                           - Len(reply.body["stdout"]) - Len(reply.body["stderr"])

\* A command that stops printing is answered, be it that it never ends.
AnswerComes == <>(handler = "replied")

=============================================================================
