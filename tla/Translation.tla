---------------------------- MODULE Translation ----------------------------
(***************************************************************************)
(* An agent that speaks Anthropic's protocol and a provider that speaks    *)
(* OpenAI's: the proxy turns each request of the conversation into an      *)
(* OpenAI one (_anthropic_request_to_openai), folds a streamed answer back *)
(* into one message (_assemble_openai_stream) and turns that into content  *)
(* blocks and events (_openai_response_to_anthropic,                       *)
(* _anthropic_sse_events), which the agent sends back with every later     *)
(* request.                                                                *)
(*                                                                         *)
(* A string is a sequence of pieces, which is what a stream may cut it     *)
(* into.  A block or message has a field for everything any kind of it     *)
(* carries.  Agent and provider are what the proxy has to expect of them.  *)
(***************************************************************************)
EXTENDS Integers, Sequences, FiniteSets, SequencesExt

CONSTANTS
    MaxTurns,   \* bound of the model: answers of the provider
    MaxCalls,   \* bound of the model: tool calls in one answer
    Tools       \* names of the agent's tools: numbers, for their order

ASSUME TurnsAssumption == MaxTurns \in Nat /\ MaxCalls \in Nat /\ Tools \subseteq Nat /\ IsFiniteSet(Tools)

VARIABLES
    carry,      \* PROXY_OPENAI_CARRY_REASONING
    style,      \* how the agent keeps a turn
    history,    \* the agent's messages
    sent,       \* the messages of the last translated request
    sentTools,  \* its tools
    phase,      \* "ask", "upstream", "stream", "answered", "over"
    turn,       \* answers so far
    message,    \* the provider's answer
    given,      \* how much of it the provider has streamed
    parts,      \* what the proxy has put together of it
    reply,      \* the Anthropic answer: blocks and stop reason
    said        \* answers the agent works on, each with all it should bring back

talk == <<carry, style, history, sent, sentTools, phase, turn, message, given, parts, reply, said>>

-----------------------------------------------------------------------------
NoId == <<>>
Block(type, text, id) == [type |-> type, text |-> text, id |-> id]
Text(s) == Block("text", s, NoId)

\* Joined by line breaks.
Lines(strings) ==
    LET joined[n \in 0 .. Len(strings)] ==
            IF n = 0 THEN <<>>
            ELSE IF n = 1 THEN strings[1] ELSE joined[n - 1] \o <<"newline">> \o strings[n]
    IN  joined[Len(strings)]

\* Arguments are JSON text, and input the value of it.  Of a value the model keeps
\* whose it is: {} is nothing, and what the proxy writes of an input is not what
\* it has read.
Json == <<"json">>
Dumped(input) == <<Json>> \o input

\* Anything else than an object, JSON or not, becomes {}.
Parsed(args) ==
    IF args # <<>> /\ args[1] = Json THEN Tail(args)
    ELSE IF Len(args) = 2 /\ args[1] \in Nat \X Nat \X {"object1"}
         THEN <<<<args[1][1], args[1][2], "value">>>>
         ELSE <<>>

OfType(blocks, type) ==
    LET found[n \in 0 .. Len(blocks)] ==
            IF n = 0 THEN <<>>
            ELSE IF blocks[n].type = type THEN Append(found[n - 1], blocks[n]) ELSE found[n - 1]
    IN  found[Len(blocks)]
TextsOf(blocks, type) == [i \in DOMAIN OfType(blocks, type) |-> OfType(blocks, type)[i].text]

OpenAI(role, text, reasoning, calls, id) ==
    [role |-> role, text |-> text, reasoning |-> reasoning, calls |-> calls, id |-> id]

(* The request.                                                              *)

\* Consecutive messages of a role become one.
Joined(groups, m) ==
    IF groups # <<>> /\ Last(groups).role = m.role
    THEN [groups EXCEPT ![Len(groups)].blocks = @ \o m.blocks]
    ELSE Append(groups, m)

Grouped(messages) ==
    LET grouped[n \in 0 .. Len(messages)] ==
            IF n = 0 THEN <<>> ELSE Joined(grouped[n - 1], messages[n])
    IN  grouped[Len(messages)]

\* Mutant: thinking is discarded.
AssistantWithoutThinking(blocks, carried) ==
    LET calls == OfType(blocks, "tool_use")
        texts == TextsOf(blocks, "text")
    IN  IF texts = <<>> /\ calls = <<>> THEN <<>>
        ELSE <<OpenAI("assistant", Lines(texts), <<>>,
                      [i \in DOMAIN calls |-> [id |-> calls[i].id, args |-> Dumped(calls[i].text)]], NoId)>>

\* One message with reasoning and calls; one with neither text nor calls has no
\* legal form and is dropped.
AssistantMessages(blocks, carried) ==
    LET calls == OfType(blocks, "tool_use")
        texts == TextsOf(blocks, "text")
    IN  IF texts = <<>> /\ calls = <<>> THEN <<>>
        ELSE <<OpenAI("assistant", Lines(texts),
                      IF carried THEN Lines(TextsOf(blocks, "thinking")) ELSE <<>>,
                      [i \in DOMAIN calls |-> [id |-> calls[i].id, args |-> Dumped(calls[i].text)]], NoId)>>

ToolMessages(blocks) ==
    LET found == OfType(blocks, "tool_result")
    IN  [i \in DOMAIN found |-> OpenAI("tool", found[i].text, <<>>, <<>>, found[i].id)]

TextMessages(blocks) ==
    LET texts == TextsOf(blocks, "text")
    IN  IF texts = <<>> THEN <<>> ELSE <<OpenAI("user", Lines(texts), <<>>, <<>>, NoId)>>

\* Mutant: text comes before the results.
UserMessagesTextFirst(blocks) == TextMessages(blocks) \o ToolMessages(blocks)

\* Tool results first, each a message of its own, then what the user says.
UserMessages(blocks) == ToolMessages(blocks) \o TextMessages(blocks)

\* Mutant: a note keeps its role.
NotesAsSystem(blocks) ==
    <<OpenAI("system", Lines(TextsOf(blocks, "text")), <<>>, <<>>, NoId)>>

\* A system note in mid-conversation is sent as the user's.
Notes(blocks) == TextMessages(blocks)

SystemPrompt == OpenAI("system", <<"prompt">>, <<>>, <<>>, NoId)

Converted(m, carried) ==
    CASE m.role = "assistant" -> AssistantMessages(m.blocks, carried)
      [] m.role = "user" -> UserMessages(m.blocks)
      [] m.role = "system" -> Notes(m.blocks)

Translated(groups, carried) ==
    LET messages[n \in 0 .. Len(groups)] ==
            IF n = 0 THEN <<SystemPrompt>> ELSE messages[n - 1] \o Converted(groups[n], carried)
    IN  messages[Len(groups)]

ToOpenAI(messages, carried) == Translated(Grouped(messages), carried)

Ascending(set) ==
    CHOOSE order \in SetToSeqs(set) : \A i, j \in DOMAIN order : i < j => order[i] < order[j]

SortedTools(tools) == Ascending(ToSet(tools))

-----------------------------------------------------------------------------
(* The answer.                                                               *)

Answer(reasoning, text, calls) == [reasoning |-> reasoning, text |-> text, calls |-> calls]
NoParts == Answer(<<>>, <<>>, <<>>)

\* A fragment of the call with index i: its id comes once, its arguments in pieces.
WithFragment(slots, i, id, args) ==
    LET old == IF i \in DOMAIN slots THEN slots[i] ELSE [id |-> NoId, args |-> <<>>]
    IN  [j \in DOMAIN slots \cup {i} |->
            IF j # i THEN slots[j]
            ELSE [id |-> IF id # NoId THEN id ELSE old.id, args |-> old.args \o args]]

\* The calls whose fragments have come, by index.
Assembled(p) ==
    LET order == Ascending(DOMAIN p.calls)
    IN  Answer(p.reasoning, p.text, [k \in DOMAIN order |-> p.calls[order[k]]])

\* A call without an id gets a fresh one.
IdOf(call, t, i) == IF call.id = NoId THEN <<t, i, "fresh">> ELSE call.id

\* A whole answer may bring lists, of reasoning and of text.
Read(m) == Answer(Lines(m.reasoning), Lines(m.text), m.calls)

\* Thinking, text, calls; never nothing.
ToBlocks(m, t) ==
    LET blocks ==
            (IF carry /\ m.reasoning # <<>> THEN <<Block("thinking", m.reasoning, NoId)>> ELSE <<>>)
            \o (IF m.text # <<>> THEN <<Text(m.text)>> ELSE <<>>)
            \o [i \in DOMAIN m.calls |->
                    Block("tool_use", Parsed(m.calls[i].args), IdOf(m.calls[i], t, i))]
    IN  IF blocks = <<>> THEN <<Text(<<>>)>> ELSE blocks

Finish == [stop |-> "end_turn", tool_calls |-> "tool_use", length |-> "max_tokens",
           none |-> "end_turn"]

\* Mutant: the stop reason is what the provider says.
StopReasonGiven(blocks, finish) == Finish[finish]

\* A turn with a tool call is "tool_use" whatever the provider calls it.
StopReason(blocks, finish) ==
    IF OfType(blocks, "tool_use") # <<>> THEN "tool_use" ELSE Finish[finish]

Reply(m, t, finish) ==
    LET blocks == ToBlocks(m, t) IN [blocks |-> blocks, stop |-> StopReason(blocks, finish)]

NoReply == [blocks |-> <<>>, stop |-> "none"]

Emptied(block) == [block EXCEPT !.text = <<>>]
Event(kind, i, block) == [kind |-> kind, index |-> i, block |-> block]

Delta(block) == IF block.type = "tool_use" THEN [block EXCEPT !.text = Dumped(@)] ELSE block

\* A block as events: it starts empty, and one delta brings the whole of it.
Events(blocks) ==
    [k \in 1 .. 3 * Len(blocks) |->
        LET i == (k + 2) \div 3
        IN  CASE k = 3 * i - 2 -> Event("start", i, Emptied(blocks[i]))
              [] k = 3 * i - 1 -> Event("delta", i, Delta(blocks[i]))
              [] k = 3 * i -> Event("stop", i, blocks[i])]

\* What a client makes of them: what starts grows by what its deltas bring, which
\* for an input is its JSON text.
Grown(start, delta) ==
    LET text == start.text \o delta.text
    IN  [start EXCEPT !.text = IF start.type = "tool_use" THEN Parsed(text) ELSE text]

Decoded(events) ==
    LET BlockOf(kind, i) == (CHOOSE e \in ToSet(events) : e.kind = kind /\ e.index = i).block
    IN  [i \in {e.index : e \in ToSet(events)} |->
            Grown(BlockOf("start", i), BlockOf("delta", i))]

-----------------------------------------------------------------------------
Styles == {"together", "behind_text", "one_by_one"}

TalkInit ==
    /\ carry \in BOOLEAN /\ style \in Styles
    /\ history = <<[role |-> "user", blocks |-> <<Text(<<"task">>)>>]>>
    /\ sent = <<>> /\ sentTools = <<>>
    /\ phase = "ask" /\ turn = 0
    /\ message = NoParts /\ given = NoParts /\ parts = NoParts
    /\ reply = NoReply
    /\ said = <<>>

\* The agent sends all it has, with its tools in any order.
SendRequest ==
    /\ phase = "ask"
    /\ phase' = "upstream"
    /\ sent' = ToOpenAI(history, carry)
    /\ \E tools \in SetToSeqs(Tools) : sentTools' = SortedTools(tools)
    /\ UNCHANGED <<carry, style, history, turn, message, given, parts, reply, said>>

\* What a call may bring: an object, another JSON value, and in a whole answer also
\* what is cut short.
Object(t, i) == <<<<t, i, "object1">>, <<t, i, "object2">>>>
Other(t, i) == <<<<t, i, "other1">>, <<t, i, "other2">>>>
CutShort(t, i) == <<<<t, i, "object1">>>>

\* Only the first call brings an id, and only its arguments vary.
Called(t, n, first) ==
    [i \in 1 .. n |-> [id |-> IF i = 1 THEN <<t, i, "id">> ELSE NoId,
                       args |-> IF i = 1 THEN first ELSE Object(t, i)]]

Reasoning(t) == <<<<t, "reasoning">>>>
Said(t) == <<<<t, "text1">>, <<t, "text2">>>>

\* What the provider may answer in turn t, in a stream and as a whole.
Answers(t) ==
    {Answer(r, x, Called(t, n, first)) : n \in 0 .. MaxCalls,
        first \in {Object(t, 1), Other(t, 1)}, r \in {<<>>, Reasoning(t)}, x \in {<<>>, Said(t)}}

WholeAnswers(t) ==
    {Answer(r, x, Called(t, n, first)) : n \in 0 .. MaxCalls,
        first \in {Object(t, 1), Other(t, 1), CutShort(t, 1)},
        r \in {<<>>, <<Reasoning(t)>>, <<Reasoning(t), Said(t)>>}, x \in {<<>>, <<Said(t)>>, <<Said(t), Said(t)>>}}

\* A JSON answer is translated at once ...
AnswerWhole ==
    /\ phase = "upstream" /\ turn < MaxTurns
    /\ \E m \in WholeAnswers(turn + 1), finish \in DOMAIN Finish :
          /\ message' = Read(m)
          /\ reply' = Reply(Read(m), turn + 1, finish)
    /\ phase' = "answered"
    /\ turn' = turn + 1
    /\ parts' = NoParts /\ given' = NoParts
    /\ UNCHANGED <<carry, style, history, sent, sentTools, said>>

\* ... a stream is read to its end first.
StreamBegins ==
    /\ phase = "upstream" /\ turn < MaxTurns
    /\ \E m \in Answers(turn + 1) :
          /\ message' = m
          /\ given' = Answer(0, 0, [i \in DOMAIN m.calls |-> 0])
    /\ phase' = "stream"
    /\ turn' = turn + 1
    /\ parts' = NoParts
    /\ UNCHANGED <<carry, style, history, sent, sentTools, reply, said>>

\* The next piece of one part of the answer; the parts come in any order.
StreamText ==
    /\ phase = "stream" /\ given.text < Len(message.text)
    /\ given' = [given EXCEPT !.text = @ + 1]
    /\ parts' = [parts EXCEPT !.text = Append(@, message.text[given.text + 1])]
    /\ UNCHANGED <<carry, style, history, sent, sentTools, phase, turn, message, reply, said>>

StreamReasoning ==
    /\ phase = "stream" /\ given.reasoning < Len(message.reasoning)
    /\ given' = [given EXCEPT !.reasoning = @ + 1]
    /\ parts' = [parts EXCEPT !.reasoning = Append(@, message.reasoning[given.reasoning + 1])]
    /\ UNCHANGED <<carry, style, history, sent, sentTools, phase, turn, message, reply, said>>

StreamCall(i) ==
    /\ phase = "stream" /\ given.calls[i] < Len(message.calls[i].args)
    /\ given' = [given EXCEPT !.calls[i] = @ + 1]
    /\ parts' = [parts EXCEPT !.calls =
                    WithFragment(@, i, IF given.calls[i] = 0 THEN message.calls[i].id ELSE NoId,
                                 <<message.calls[i].args[given.calls[i] + 1]>>)]
    /\ UNCHANGED <<carry, style, history, sent, sentTools, phase, turn, message, reply, said>>

Streamed ==
    /\ given.text = Len(message.text) /\ given.reasoning = Len(message.reasoning)
    /\ \A i \in DOMAIN message.calls : given.calls[i] = Len(message.calls[i].args)

\* The end of the stream, which may come early and then has no finish reason.
StreamEnds ==
    /\ phase = "stream"
    /\ \E finish \in IF Streamed THEN DOMAIN Finish ELSE {"none"} :
          LET r == Reply(Assembled(parts), turn, finish)
          IN  reply' = [r EXCEPT !.blocks = Decoded(Events(@))]
    /\ message' = IF Streamed THEN message ELSE Assembled(parts)
    /\ phase' = "answered"
    /\ given' = NoParts /\ parts' = NoParts
    /\ UNCHANGED <<carry, style, history, sent, sentTools, turn, said>>

\* The agent keeps a turn as one message, or as one for each block ...
Recorded(blocks) ==
    IF style = "one_by_one"
    THEN [i \in DOMAIN blocks |-> [role |-> "assistant", blocks |-> <<blocks[i]>>]]
    ELSE <<[role |-> "assistant", blocks |-> blocks]>>

\* ... and the results of its calls in one message, behind a text, or one by one
\* as the tools finish.
Results(blocks) ==
    LET calls == OfType(blocks, "tool_use")
        found == [i \in DOMAIN calls |-> Block("tool_result", <<"result">>, calls[i].id)]
    IN  CASE style = "together" -> <<[role |-> "user", blocks |-> found]>>
          [] style = "behind_text" ->
                <<[role |-> "user", blocks |-> <<Text(<<"reminder">>)>> \o found]>>
          [] style = "one_by_one" ->
                [i \in DOMAIN found |-> [role |-> "user", blocks |-> <<Reverse(found)[i]>>]]

Note == [role |-> "system", blocks |-> <<Text(<<"note">>)>>]

\* The agent runs the tools and goes on; it may append a note of its own.
Continue ==
    /\ phase = "answered" /\ reply.stop = "tool_use"
    /\ OfType(reply.blocks, "tool_use") # <<>>
    /\ \E notes \in {<<>>, <<Note>>} :
          history' = history \o Recorded(reply.blocks) \o Results(reply.blocks) \o notes
    /\ said' = Append(said, message)
    /\ phase' = "ask"
    /\ message' = NoParts /\ reply' = NoReply
    /\ UNCHANGED <<carry, style, sent, sentTools, turn, given, parts>>

\* Any other stop reason ends its loop.
AgentStops ==
    /\ phase = "answered"
    /\ reply.stop # "tool_use" \/ OfType(reply.blocks, "tool_use") = <<>>
    /\ phase' = "over"
    /\ UNCHANGED <<carry, style, history, sent, sentTools, turn, message, given, parts, reply, said>>

Finished == phase = "over" \/ (phase = "upstream" /\ turn = MaxTurns)

TalkNext ==
    \/ SendRequest \/ AnswerWhole \/ StreamBegins \/ StreamText \/ StreamReasoning
    \/ \E i \in DOMAIN message.calls : StreamCall(i)
    \/ StreamEnds \/ Continue \/ AgentStops
    \/ Finished /\ UNCHANGED talk

TalkSpec == TalkInit /\ [][TalkNext]_talk

-----------------------------------------------------------------------------
\* What the provider said in a turn that called tools comes back to it with the next
\* request, however it was streamed and whatever shape the agent keeps it in: text
\* and, which it insists on, reasoning as the proxy has read them (lists joined by
\* line breaks), and of each call the same input in the proxy's own JSON, {} where
\* the arguments were no object.
SaidComesBack ==
    phase = "upstream" =>
        \A k \in DOMAIN said : \E i \in DOMAIN sent :
            /\ sent[i].role = "assistant"
            /\ sent[i].text = said[k].text
            /\ sent[i].reasoning = IF carry THEN said[k].reasoning ELSE <<>>
            /\ Len(sent[i].calls) = Len(said[k].calls)
            /\ \A j \in DOMAIN said[k].calls :
                  sent[i].calls[j].args = Dumped(Parsed(said[k].calls[j].args))

\* Every result stands right behind the message that called for it, among
\* nothing but other results, and every call has one.
ResultsFollowCalls ==
    /\ \A i \in DOMAIN sent : sent[i].role = "tool" =>
          \E a \in 1 .. i - 1 :
              /\ \E c \in ToSet(sent[a].calls) : c.id = sent[i].id
              /\ \A j \in a + 1 .. i : sent[j].role = "tool"
    /\ \A a \in DOMAIN sent : \A c \in ToSet(sent[a].calls) :
          \E i \in a + 1 .. Len(sent) : sent[i].role = "tool" /\ sent[i].id = c.id

\* A conversation only grows at its end, from the tools on, or the prompt cache is
\* lost; what it grows by is not the system's, since a provider's template puts
\* system messages in front of all others.
PrefixStable ==
    [][sent = <<>> \/ /\ sentTools' = sentTools
                      /\ IsPrefix(sent, sent')
                      /\ \A i \in DOMAIN sent' : sent'[i].role = "system" => i \in DOMAIN sent
      ]_<<sent, sentTools>>

\* The agent, which goes by the stop reason alone, never stops with a tool call
\* unanswered, not even after a stream that broke off.
NoCallLeft == phase = "over" => OfType(reply.blocks, "tool_use") = <<>>

=============================================================================
