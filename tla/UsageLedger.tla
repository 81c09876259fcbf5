---------------------------- MODULE UsageLedger ----------------------------
(***************************************************************************)
(* What the proxy does with a request from its arrival to the last byte of *)
(* the answer, and what it books for it: proxy_passthrough, which blocks   *)
(* the event loop until the provider answers, _relay_event_stream and      *)
(* _translate_event_stream, of which any number run between handlers, and  *)
(* _accumulate_token_usage, which all of them end in.                      *)
(*                                                                         *)
(* A stream is a sequence of pieces: an event comes in two, with the line  *)
(* break in the second, a keep-alive in one.  A read returns ReadSize      *)
(* pieces, or what is left at the end: http.client fills the buffer it is  *)
(* asked for.  Cache writes are booked like cache reads and left out.      *)
(***************************************************************************)
EXTENDS Integers, Sequences, FiniteSets, SequencesExt, FiniteSetsExt

CONSTANTS
    Requests,   \* requests of the agent
    ReadSize,   \* SSE_RELAY_CHUNK_BYTES, in pieces
    MaxPauses,  \* bound of the model: keep-alives of a stream
    Patience    \* of a client, in keep-alives: 300 s of silence

ASSUME LedgerAssumption == ReadSize \in Nat \ {0} /\ MaxPauses \in Nat /\ Patience \in Nat \ {0}

VARIABLES
    setting,    \* compression and translation on or off
    request,    \* what each request is
    stage,      \* where its handler, then its stream, is
    loop,       \* the handler that blocks the event loop
    sent,       \* pieces of events the provider has sent
    pauses,     \* keep-alives it has sent
    closed,     \* it sends no more
    held,       \* pieces that came and are not yet returned by read
    pending,    \* pieces read and not yet scanned
    tally,      \* usage of the response so far
    silence,    \* keep-alives since the client last got anything
    totals      \* _token_totals

stream == <<sent, pauses, closed, held, pending, tally, silence>>
vars == <<setting, request, stage, loop, stream, totals>>

-----------------------------------------------------------------------------
(* Requests.                                                                 *)

\* An Anthropic body is marked by system, its tools or its blocks, or has no mark.
Kinds == {[path |-> "messages", marked |-> TRUE], [path |-> "messages", marked |-> FALSE],
          [path |-> "count_tokens", marked |-> TRUE], [path |-> "completions", marked |-> FALSE]}

IsAnthropicMessagesRequest(kind) == kind.path \notin {"completions", "count_tokens"} /\ kind.marked

Translated(r) == setting.compress /\ setting.translate /\ IsAnthropicMessagesRequest(request[r])

\* A translated request is sent to chat/completions, and answered by it.
Address(r) == IF Translated(r) THEN "completions" ELSE request[r].path

-----------------------------------------------------------------------------
(* Usage.                                                                    *)

Zero == [in |-> 0, cached |-> 0, out |-> 0]
Anthropic(in, cached, out) == [in |-> in, cached |-> cached, out |-> out]
OpenAI(prompt, cached, out) == [prompt |-> prompt, cached |-> cached, out |-> out]
None == <<>>

\* What a completion costs, how either protocol says so in a JSON answer, and
\* how a stream does: events repeat counts, and counts of output grow.
Bill == Anthropic(4, 2, 3)
Usage(r) == IF Address(r) = "completions" THEN OpenAI(6, 2, 3) ELSE Bill
Events(r) ==
    IF Address(r) = "completions" THEN <<None, Usage(r)>>
    ELSE <<Anthropic(4, 2, 1), None, Anthropic(0, 0, 2), Anthropic(4, 0, 3)>>

\* OpenAI's prompt includes what was cached.
FieldsOf(u) ==
    IF "in" \in DOMAIN u THEN u ELSE Anthropic(Max({u.prompt - u.cached, 0}), u.cached, u.out)

Plus(t, u) == [f \in DOMAIN t |-> t[f] + u[f]]
\* Mutant: what each read brings is added.
MergedBySum(t, us) == [f \in DOMAIN t |-> t[f] + Max({0} \cup {FieldsOf(u)[f] : u \in us})]

\* Counts repeat and grow, so the maximum is kept, whatever the order.
Merged(t, us) == [f \in DOMAIN t |-> Max({t[f]} \cup {FieldsOf(u)[f] : u \in us})]

Piece(i, last) == [event |-> i, last |-> last]
KeepAlive == Piece(0, TRUE)
Pieces(r) == 2 * Len(Events(r))

\* The lines of a buffer end with its last line break; an event is parsed when
\* both its pieces are there.
LastBreak(buffer) == Max({0} \cup {i \in DOMAIN buffer : buffer[i].last})
\* Mutant: what is scanned stays in the buffer.
RestAll(buffer) == buffer

Rest(buffer) == SubSeq(buffer, LastBreak(buffer) + 1, Len(buffer))
Parsed(buffer) ==
    {buffer[i].event : i \in {j \in 2 .. Len(buffer) :
        buffer[j].last /\ buffer[j - 1] = Piece(buffer[j].event, FALSE)}}

UsagesIn(r, buffer) == {Events(r)[e] : e \in {i \in Parsed(buffer) : Events(r)[i] # None}}
Tallied(r, buffer) == Merged(tally[r], UsagesIn(r, buffer))

\* Mutant: what a read leaves of a line is dropped.
ScanAlone(r) ==
    /\ tally' = [tally EXCEPT ![r] = Tallied(r, held[r])]
    /\ pending' = [pending EXCEPT ![r] = Rest(held[r])]
    /\ held' = [held EXCEPT ![r] = <<>>]

\* A read is appended to what the one before it left.  (A translated stream keeps
\* its last usage, not the maximum; it has but one.)
Scan(r) ==
    LET buffer == pending[r] \o held[r]
    IN  /\ tally' = [tally EXCEPT ![r] = Tallied(r, buffer)]
        /\ pending' = [pending EXCEPT ![r] = Rest(buffer)]
        /\ held' = [held EXCEPT ![r] = <<>>]

-----------------------------------------------------------------------------
Init ==
    /\ setting \in [compress : BOOLEAN, translate : BOOLEAN]
    /\ request \in [Requests -> Kinds]
    /\ stage = [r \in Requests |-> "new"]
    /\ loop = {}
    /\ sent = [r \in Requests |-> 0] /\ pauses = [r \in Requests |-> 0]
    /\ closed = [r \in Requests |-> FALSE]
    /\ held = [r \in Requests |-> <<>>] /\ pending = [r \in Requests |-> <<>>]
    /\ tally = [r \in Requests |-> Zero]
    /\ silence = [r \in Requests |-> 0]
    /\ totals = Zero

Go(r, from, to) == stage[r] = from /\ stage' = [stage EXCEPT ![r] = to]

\* The handler runs from here to the provider's answer without giving way.
Handle(r) ==
    /\ loop = {}
    /\ Go(r, "new", "sent")
    /\ loop' = {r}
    /\ UNCHANGED <<setting, request, stream, totals>>

\* The compressor or the provider fails: an error answer, and nothing is booked.
Fails(r) ==
    /\ Go(r, "sent", "error")
    /\ loop' = {}
    /\ UNCHANGED <<setting, request, stream, totals>>

\* A JSON answer is read, booked and, if need be, translated on the spot; that
\* to a token count brings no usage.
AnswerWhole(r) ==
    /\ Go(r, "sent", "done")
    /\ loop' = {}
    /\ totals' = IF Address(r) = "count_tokens" THEN totals ELSE Plus(totals, FieldsOf(Usage(r)))
    /\ UNCHANGED <<setting, request, stream>>

AnswerStream(r) ==
    /\ Address(r) # "count_tokens"
    /\ Go(r, "sent", "stream")
    /\ loop' = {}
    /\ UNCHANGED <<setting, request, stream, totals>>

-----------------------------------------------------------------------------
(* Streams.  A worker thread reads; all else needs the event loop.           *)

Reading(r) == stage[r] = "stream" /\ ~closed[r] /\ Len(held[r]) < ReadSize

Send(r) ==
    /\ Reading(r) /\ sent[r] < Pieces(r)
    /\ sent' = [sent EXCEPT ![r] = @ + 1]
    /\ held' = [held EXCEPT ![r] = Append(@, Piece(sent[r] \div 2 + 1, sent[r] % 2 = 1))]
    /\ UNCHANGED <<setting, request, stage, loop, pauses, closed, pending, tally, silence, totals>>

\* The model thinks, and the provider keeps the connection alive.
Pause(r) ==
    /\ Reading(r) /\ sent[r] % 2 = 0 /\ pauses[r] < MaxPauses
    /\ pauses' = [pauses EXCEPT ![r] = @ + 1]
    /\ held' = [held EXCEPT ![r] = Append(@, KeepAlive)]
    /\ silence' = [silence EXCEPT ![r] = @ + 1]
    /\ UNCHANGED <<setting, request, stage, loop, sent, closed, pending, tally, totals>>

\* The end of the stream, also before its time.
Close(r) ==
    /\ Reading(r)
    /\ closed' = [closed EXCEPT ![r] = TRUE]
    /\ UNCHANGED <<setting, request, stage, loop, sent, pauses, held, pending, tally, silence, totals>>

\* read raises, or the client hangs up, be it at a yield or during a read.
Breaks(r) ==
    /\ \E from \in {"stream", "yielded", "emitted"} : Go(r, from, "broken")
    /\ UNCHANGED <<setting, request, loop, stream, totals>>

HasRead(r) == loop = {} /\ held[r] # <<>> /\ (Len(held[r]) = ReadSize \/ closed[r])
AtEnd(r) == loop = {} /\ held[r] = <<>> /\ closed[r]

\* A relay yields what it has read, and scans it when it is asked for more ...
Relay(r) ==
    /\ ~Translated(r) /\ HasRead(r)
    /\ Go(r, "stream", "yielded")
    /\ silence' = [silence EXCEPT ![r] = 0]
    /\ UNCHANGED <<setting, request, loop, sent, pauses, closed, held, pending, tally, totals>>

Resume(r) ==
    /\ loop = {}
    /\ Go(r, "yielded", "stream")
    /\ Scan(r)
    /\ UNCHANGED <<setting, request, loop, sent, pauses, closed, silence, totals>>

\* ... a translation keeps it, and pings the client after a read if it is time ...
Keep(r) ==
    /\ Translated(r) /\ stage[r] = "stream" /\ HasRead(r)
    /\ Scan(r)
    /\ \E s \in {0, silence[r]} : silence' = [silence EXCEPT ![r] = s]
    /\ UNCHANGED <<setting, request, stage, loop, sent, pauses, closed, totals>>

\* ... and yields everything at the end.
Emit(r) ==
    /\ Translated(r) /\ AtEnd(r)
    /\ Go(r, "stream", "emitted")
    /\ silence' = [silence EXCEPT ![r] = 0]
    /\ UNCHANGED <<setting, request, loop, sent, pauses, closed, held, pending, tally, totals>>

\* Only a response that is through is booked.
Book(r) ==
    /\ AtEnd(r)
    /\ Go(r, IF Translated(r) THEN "emitted" ELSE "stream", "done")
    /\ totals' = Plus(totals, tally[r])
    /\ UNCHANGED <<setting, request, loop, stream>>

Over == {"done", "error", "broken"}

Next ==
    \/ \E r \in Requests :
          \/ Handle(r) \/ Fails(r) \/ AnswerWhole(r) \/ AnswerStream(r)
          \/ Send(r) \/ Pause(r) \/ Close(r) \/ Breaks(r)
          \/ Relay(r) \/ Resume(r) \/ Keep(r) \/ Emit(r) \/ Book(r)
    \/ (\A r \in Requests : stage[r] \in Over) /\ UNCHANGED vars

Spec == Init /\ [][Next]_vars

-----------------------------------------------------------------------------
Counts == [in : Nat, cached : Nat, out : Nat]

\* Every variable has its type, and one handler at most blocks the loop.
TypeOK ==
    /\ setting \in [compress : BOOLEAN, translate : BOOLEAN]
    /\ request \in [Requests -> Kinds]
    /\ stage \in [Requests -> Over \cup {"new", "sent", "stream", "yielded", "emitted"}]
    /\ loop = {r \in Requests : stage[r] = "sent"} /\ Cardinality(loop) <= 1
    /\ \A r \in Requests :
          /\ sent[r] \in 0 .. Pieces(r) /\ pauses[r] \in 0 .. MaxPauses /\ closed[r] \in BOOLEAN
          /\ Len(held[r]) <= ReadSize /\ Len(pending[r]) <= 1
          /\ tally[r] \in Counts /\ silence[r] \in 0 .. MaxPauses
    /\ totals \in Counts

Billed(rs) == {r \in rs : request[r].path # "count_tokens"}
Cost(rs) == [f \in DOMAIN Bill |-> Bill[f] * Cardinality(Billed(rs))]
Done == {r \in Requests : stage[r] = "done"}
Torn == {r \in Requests : closed[r] /\ sent[r] < Pieces(r)}

\* What is answered in full is booked in full: whichever way the answer takes, in
\* whatever protocol it is, however the reads cut it and whatever its keep-alives.
BookedInFull == \A f \in DOMAIN totals : totals[f] >= Cost(Done \ Torn)[f]

\* Nothing is booked but what completed answers cost, each once: nothing for a
\* token count, for a count that a stream repeats, or for an answer that broke off;
\* a stream that ends before its time is booked in part at most.
BookedAtMost == \A f \in DOMAIN totals : totals[f] <= Cost(Done)[f]

\* "Forward an SSE body to the client as it arrives", for a client gives up a
\* response that is silent for too long: no client waits through all that the
\* provider sends to keep it.
NeverSilent == \A r \in Requests : stage[r] = "stream" => silence[r] < Patience

=============================================================================
