---------------------------- MODULE Conversation ----------------------------
(***************************************************************************)
(* A conversation of several turns with one server: the client keeps the   *)
(* messages, sends all of them with every request and appends what it is   *)
(* answered; the server keeps nothing.  What the model is shown in a turn  *)
(* is thus what the server made of its own earlier answers, through the    *)
(* parser of answers, the response, the client, the conversion and the     *)
(* chat template.                                                          *)
(*                                                                         *)
(* The client keeps its messages in the form of both protocols, of which   *)
(* it speaks one.  A turn of the client is a sequence of blocks.           *)
(*                                                                         *)
(* A definition named D_Error is D with that error in it: no part of the   *)
(* specification, but what its properties are tried against.               *)
(***************************************************************************)
EXTENDS RequestChecks

CONSTANTS
  Clients,     \* how a client speaks: protocol, headers, fields, systems
  Engines,     \* what a server may have loaded
  Turns,       \* what a client may ask
  Raws(_, _),  \* what the model may answer, with thinking and with tools
  MaxTurns     \* bound on the requests of a conversation

VARIABLES
  client,
  engine,
  history,     \* the client's messages, in the form of either protocol
  asked,       \* the turns of the client
  phase,       \* of the request: idle, asked, accepted, answered, refused, failed
  request,     \* the GenerationRequest of an accepted request
  raw,         \* what the model answered last
  shown,       \* the prompt it answered to
  failure      \* why a request was refused, or failed

vars == <<client, engine, history, asked, phase, request, raw, shown, failure>>

NoRequest ==
  [messages |-> <<>>, tools |-> {}, tool_choice |-> "auto", thinking |-> FALSE,
   max_tokens |-> 0]

-----------------------------------------------------------------------------
(* The client: its messages in the two protocols.                          *)

OpenAiMessage(role, content) ==
  [role |-> role, content |-> content, reasoning_content |-> Absent,
   tool_calls |-> Absent, tool_call_id |-> Absent]

OpenAiSystems(systems) ==
  [i \in DOMAIN systems |->
     OpenAiMessage(IF i = 1 THEN "system" ELSE "developer", <<TextBlock(systems[i])>>)]

AnthropicSystem(systems) ==
  IF systems = <<>> THEN Absent ELSE [i \in DOMAIN systems |-> TextBlock(systems[i])]

\* A result is a message of its own, and so is what stands between results.
OpenAiTurn(turn) ==
  LET result(i) == turn[i].type = "tool_result"
      begins(i) == ~result(i) /\ (i = 1 \/ result(i - 1))
      last(i)   == Max({k \in i .. Len(turn) : \A j \in i .. k : ~result(j)})
      message(i) ==
        IF result(i) THEN <<[OpenAiMessage("tool", <<TextBlock(turn[i].text)>>)
                               EXCEPT !.tool_call_id = turn[i].tool_use_id]>>
        ELSE IF begins(i) THEN <<OpenAiMessage("user", SubSeq(turn, i, last(i)))>>
        ELSE <<>>
  IN  FlattenSeq([i \in DOMAIN turn |-> message(i)])

AnthropicTurn(turn) == <<[role |-> "user", content |-> turn]>>

Init ==
  /\ client \in Clients
  /\ engine \in Engines
  /\ history = [openai |-> OpenAiSystems(client.systems), anthropic |-> <<>>]
  /\ asked = <<>>
  /\ phase = "idle"
  /\ request = NoRequest
  /\ raw = <<>>
  /\ shown = <<>>
  /\ failure = Fine

Ask(turn) ==
  /\ phase = "idle"
  /\ Len(asked) < MaxTurns
  /\ asked' = Append(asked, turn)
  /\ history' = [openai    |-> history.openai \o OpenAiTurn(turn),
                 anthropic |-> history.anthropic \o AnthropicTurn(turn)]
  /\ phase' = "asked"
  /\ UNCHANGED <<client, engine, request, raw, shown, failure>>

-----------------------------------------------------------------------------
(* The handler, up to the scheduler.                                       *)

\* The body of the request.
Body ==
  [messages |-> history[client.protocol], system |-> AnthropicSystem(client.systems)]
  @@ client.fields

Verdict ==
  LET headers == HeadersFailure(client.protocol, client.headers)
  IN  IF headers # Fine THEN headers
      ELSE ConversionFailure(engine, client.protocol, Body)

Convert ==
  /\ phase = "asked"
  /\ Verdict = Fine
  /\ request' = GenerationRequest(client.protocol, Body)
  /\ phase' = "accepted"
  /\ UNCHANGED <<client, engine, history, asked, raw, shown, failure>>

Reject ==
  /\ phase = "asked"
  /\ Verdict # Fine
  /\ failure' = Verdict
  /\ phase' = "refused"
  /\ UNCHANGED <<client, engine, history, asked, request, raw, shown>>

-----------------------------------------------------------------------------
(* The engine.                                                             *)

\* What generate_native and the fixture check before they generate.
GenerationFailure ==
  LET checks == EstimateFailure(engine, request)
  IN  IF checks # Fine THEN checks
      ELSE IF Estimate(engine, request) + request.max_tokens > engine.context_tokens
      THEN Failure("BadRequest", "max_tokens")
      ELSE IF engine.execution = "native" /\ ~SpansMatch(request)
      THEN Failure("Internal", "none") ELSE Fine

\* truncate_to_estimated_tokens
Truncated(text) ==
  IF text_tokens(text) <= request.max_tokens THEN text
  ELSE SubSeq(text, 1, 4 * request.max_tokens)

Answers ==
  IF engine.execution = "native" THEN Raws(request.thinking, request.tools # {})
  ELSE {Truncated(engine.response)}

Generate ==
  /\ phase = "accepted"
  /\ GenerationFailure = Fine
  /\ raw' \in Answers
  /\ shown' = IF engine.execution = "native" THEN render_prompt(request) ELSE <<>>
  /\ phase' = "answered"
  /\ UNCHANGED <<client, engine, history, asked, request, failure>>

\* A kernel may fail at any time.
DeviceFailures ==
  IF engine.execution = "native" THEN {Failure("Internal", "device")} ELSE {}

FailToGenerate ==
  /\ phase = "accepted"
  /\ failure' \in IF GenerationFailure = Fine THEN DeviceFailures ELSE {GenerationFailure}
  /\ phase' = "failed"
  /\ UNCHANGED <<client, engine, history, asked, request, raw, shown>>

\* finish_generation, and the response the client appends to its messages.
Respond ==
  LET generation == parse_model_output(raw, request.thinking, request.tools # {})
      reply == [openai    |-> OpenAiAssistantMessage(generation),
                anthropic |-> [role |-> "assistant",
                               content |-> anthropic_content_blocks(generation)]]
  IN  /\ phase = "answered"
      /\ history' = [protocol \in DOMAIN history |-> Append(history[protocol], reply[protocol])]
      /\ phase' = "idle"
      /\ request' = NoRequest
      /\ UNCHANGED <<client, engine, asked, raw, shown, failure>>

Next ==
  \/ \E turn \in Turns : Ask(turn)
  \/ Convert \/ Reject \/ Generate \/ FailToGenerate \/ Respond

Spec == Init /\ [][Next]_vars

-----------------------------------------------------------------------------
(* Properties.                                                             *)

TypeOK ==
  /\ client \in Clients
  /\ engine \in Engines
  /\ asked \in BoundedSeq(Turns, MaxTurns)
  /\ phase \in {"idle", "asked", "accepted", "answered", "refused", "failed"}
  /\ phase \in {"refused", "failed"} <=> failure # Fine
  /\ phase \in {"refused", "failed"} => Status(failure) \in {400, 401, 503, 500}
  /\ DOMAIN request = DOMAIN NoRequest
  /\ phase \in {"accepted", "answered"} => request.max_tokens \in 1 .. MaxOutput

Prompted == phase = "accepted" /\ engine.execution = "native"

(* The prompt of a turn begins with the whole prompt of the turn before:   *)
(* only then does the prefix cache (lookup_prefix) find the conversation   *)
(* again.  This depends on the response, the conversion of what the client *)
(* sends back, and the template's header of an assistant turn.             *)
NextPromptExtends == Prompted => IsPrefix(shown, render_prompt(request))

\* Without layout and the marks around reasoning.
Words(text) == SelectSeq(text, LAMBDA c : c \notin {Newline, "<", "think>", "/think>"})

(* What the model said in the turn before - its reasoning, its text and    *)
(* its tool calls, in that order - follows it in the next prompt: nothing  *)
(* is lost or repeated by parsing, answering, sending back, converting and *)
(* rendering.                                                              *)
AnswersRemembered ==
  Prompted /\ shown # <<>> =>
    IsPrefix(Words(shown \o raw) \o <<"im_end">>, Words(render_prompt(request)))

(* The same conversation means the same prompt in both protocols, however  *)
(* its blocks are arranged into messages there.  (Anthropic has a single   *)
(* system prompt.)                                                         *)
ProtocolsAgree ==
  LET messages == [openai |-> convert_openai_messages(history.openai),
                   anthropic |-> AnthropicMessages(AnthropicSystem(client.systems),
                                                   history.anthropic)]
      prompt(protocol) == render_prompt([request EXCEPT !.messages = messages[protocol]])
  IN  Prompted /\ Len(client.systems) <= 1 => prompt("openai") = prompt("anthropic")

(* A request that was accepted is not refused by the engine afterwards:    *)
(* the estimate of the handler is what generation finds, and only the      *)
(* device can still fail it.                                               *)
AcceptedIsServed == phase = "failed" => failure.parameter = "device"

Flawless(turn) ==
  \A i \in DOMAIN turn :
    /\ turn[i].type \in {"text", "image", "tool_result"}
    /\ BlockFailure(turn[i]) = Fine
    /\ turn[i].type = "image" => engine.vision /\ ~TooLong(turn[i].image)

\* An answer of neither text nor calls, which an OpenAI response leaves without content.
Speechless(message) ==
  message.role = "assistant" /\ message.content = Absent /\ message.tool_calls = Absent

(* A client whose conversation was accepted once can go on with it until   *)
(* the context is full: what the server answers may be sent back to it.    *)
(* All but one answer: an OpenAI client that sends one without content     *)
(* back is refused for it, always, and its conversation is over.           *)
ConversationContinues ==
  LET over == client.protocol = "openai" /\ \E m \in Range(history.openai) : Speechless(m)
  IN  /\ phase = "refused" /\ Len(asked) > 1 /\ Flawless(Last(asked)) =>
           failure.parameter = IF over THEN "content" ELSE "max_tokens"
      /\ phase \in {"accepted", "failed"} => ~over

(* Positions grow along the prompt: every token is behind all those before *)
(* it, in time, row and column, except for the cells of one image among    *)
(* themselves.                                                             *)
PositionsIncrease ==
  LET prompt    == render_prompt(request)
      positions == multimodal_positions(request)
  IN  Prompted =>
        /\ Len(positions) = Len(prompt)
        /\ \A j \in DOMAIN prompt : \A i \in 1 .. j - 1 :
             {prompt[i], prompt[j]} # {ImagePad} =>
               Max(Range(positions[i])) < Min(Range(positions[j]))

(* Every system prompt the client gave reaches the model.                  *)
EverySystemPromptHeard ==
  LET heard(text) == \E i \in DOMAIN shown : IsPrefix(text, From(shown, i))
  IN  phase = "answered" /\ engine.execution = "native" =>
        \A text \in Range(client.systems) : heard(text)

=============================================================================
