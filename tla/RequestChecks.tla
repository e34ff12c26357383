--------------------------- MODULE RequestChecks ---------------------------
(***************************************************************************)
(* From an HTTP request to a generation request (src/api.rs): the key, the *)
(* checks of both protocols in the order in which they are made, the       *)
(* conversion, and the engine's estimate of the prompt.                    *)
(*                                                                         *)
(* A request is a record of what the JSON holds, Absent for what it leaves *)
(* out.  Temperature and top_p are in tenths.  A tool has a kind, a name   *)
(* and a schema; a name that is no valid tool name is "".                  *)
(*                                                                         *)
(* A definition named D_Error is D with that error in it: no part of the   *)
(* specification, but what its properties are tried against.               *)
(***************************************************************************)
EXTENDS Messages

CONSTANTS
  Model,        \* the descriptor's id
  ApiKey,       \* ServerConfig.api_key, or Absent
  MaxOutput     \* ServerConfig.max_output_tokens

-----------------------------------------------------------------------------
(* authorize: each protocol looks at its own header first.                 *)

Candidate(protocol, headers) ==
  LET first  == IF protocol = "openai" THEN headers.bearer ELSE headers.x_api_key
      second == IF protocol = "openai" THEN headers.x_api_key ELSE headers.bearer
  IN  IF first # Absent THEN first ELSE second

authorize(protocol, headers) ==
  IF ApiKey \in {Absent, Candidate(protocol, headers)} THEN Fine
  ELSE Failure("Authentication", "none")

HeadersFailure(protocol, headers) ==
  FirstFailure(<<authorize(protocol, headers),
                 Refuse(protocol = "anthropic" /\ ~headers.anthropic_version, "none")>>)

-----------------------------------------------------------------------------
(* Fields.                                                                 *)

\* What the JSON of a request must have: Anthropic's, its max_tokens.
JsonFailure(protocol, r) ==
  Refuse(protocol = "anthropic" /\ r.max_tokens = Absent, "none")

ensure_model(r) == Refuse(r.model # Model, "model")

\* resolve_max_tokens
MaxTokens(r) ==
  IF r.max_tokens # Absent THEN r.max_tokens
  ELSE IF r.max_completion_tokens # Absent THEN r.max_completion_tokens ELSE MaxOutput

\* Anthropic has no max_completion_tokens.
TwoBudgets(protocol, r) ==
  protocol = "openai" /\ r.max_tokens # Absent /\ r.max_completion_tokens # Absent

resolve_max_tokens_AllowsZero(protocol, r) ==
  Refuse(TwoBudgets(protocol, r) \/ MaxTokens(r) > MaxOutput, "max_tokens")

resolve_max_tokens(protocol, r) ==
  Refuse(TwoBudgets(protocol, r) \/ MaxTokens(r) \notin 1 .. MaxOutput, "max_tokens")

validate_sampling(r) ==
  FirstFailure(<<Refuse(r.temperature # Absent /\ r.temperature \notin 0 .. 20, "temperature"),
                 Refuse(r.top_p # Absent /\ r.top_p \notin 1 .. 10, "top_p")>>)

\* convert_openai_tools, convert_anthropic_tools: a tool of Anthropic has no kind.
ToolsFailure(protocol, r) ==
  LET tools == OrEmpty(r.tools)
  IN  FirstFailure([i \in DOMAIN tools |-> FirstFailure(<<
        Refuse(protocol = "openai" /\ tools[i].kind # "function", "type"),
        Refuse(tools[i].name = "", "name"),
        Refuse(tools[i].schema # "object", "parameters"),
        Refuse(\E j \in 1 .. i - 1 : tools[j].name = tools[i].name, "name")>>)])

Declared(r) == {t.name : t \in Range(OrEmpty(r.tools))}

\* The labels a protocol has for a choice: Anthropic has none for "none".
ChoiceTypes(protocol) ==
  {"auto", "required", "specific"} \cup IF protocol = "openai" THEN {"none"} ELSE {}

\* parse_openai_tool_choice, parse_anthropic_tool_choice
ChoiceFailure(protocol, r) ==
  IF r.tool_choice = Absent THEN Fine
  ELSE FirstFailure(<<
    Refuse(r.tool_choice.type \notin ChoiceTypes(protocol), "tool_choice"),
    Refuse(r.tool_choice.type = "specific" /\ r.tool_choice.name \notin Declared(r),
           "tool_choice"),
    Refuse(r.tool_choice.type # "none" /\ Declared(r) = {}, "tool_choice")>>)

ToolChoice(r) == IF r.tool_choice = Absent THEN "auto" ELSE r.tool_choice.type

\* The tools the prompt declares.
OfferedTools(r) ==
  CASE ToolChoice(r) = "none" -> {}
    [] ToolChoice(r) = "specific" -> {r.tool_choice.name}
    [] OTHER -> Declared(r)

parse_anthropic_thinking(r) ==
  IF r.thinking = Absent THEN Fine
  ELSE Refuse(\/ r.thinking.type \notin {"enabled", "disabled"}
              \/ r.thinking.type = "enabled"
                 /\ r.thinking.budget \notin 1 .. MaxTokens(r), "thinking")

Thinking(protocol, r) ==
  protocol = "anthropic" /\ r.thinking # Absent /\ r.thinking.type = "enabled"

validate_stop_sequences(r) ==
  Refuse(Len(r.stop) > 4 \/ \E i \in DOMAIN r.stop : r.stop[i] = <<>>, "stop")

-----------------------------------------------------------------------------
(* The engine's side: its descriptor, and what it says of a request.       *)
(* `engine` has execution, context_tokens and vision.                      *)

\* A text is one word.
text_tokens(text) == Max({Min({1, Len(text)}), (Len(text) + 3) \div 4})

\* FixtureEngine::estimate_prompt_tokens; a tool costs its name and its schema.
FixtureEstimate(generation) ==
  LET part_tokens(part) == IF IsImage(part) THEN 256 ELSE text_tokens(part.text)
      message_tokens(m) == 4 + FoldLeft(LAMBDA n, part : n + part_tokens(part), 0, m.content)
  IN  FoldLeft(LAMBDA n, m : n + message_tokens(m), 0, generation.messages)
      + 2 * Cardinality(generation.tools) + (IF generation.thinking THEN 8 ELSE 0) + 2

\* prepare_images
ImagesFailure(engine, generation) ==
  LET images == Images(generation.messages)
  IN  IF images = <<>> THEN Fine
      ELSE IF ~engine.vision THEN Failure("Unavailable", "none")
      ELSE Refuse(\E i \in DOMAIN images : TooLong(images[i]), "none")

EstimateFailure(engine, generation) ==
  IF engine.execution = "native" THEN ImagesFailure(engine, generation) ELSE Fine

\* estimate_prompt_tokens
Estimate(engine, generation) ==
  IF engine.execution = "native" THEN Len(render_prompt(generation))
  ELSE FixtureEstimate(generation)

ensure_context_fits_InputOnly(engine, generation) ==
  IF EstimateFailure(engine, generation) # Fine THEN EstimateFailure(engine, generation)
  ELSE Refuse(Estimate(engine, generation) > engine.context_tokens, "max_tokens")

ensure_context_fits(engine, generation) ==
  IF EstimateFailure(engine, generation) # Fine THEN EstimateFailure(engine, generation)
  ELSE Refuse(Estimate(engine, generation) + generation.max_tokens > engine.context_tokens,
              "max_tokens")

-----------------------------------------------------------------------------
(* The conversions.                                                        *)

FieldsFailure(protocol, r) ==
  FirstFailure(<<
    ensure_model(r),
    Refuse(protocol = "openai" /\ r.n \notin {Absent, 1}, "n"),
    resolve_max_tokens(protocol, r),
    validate_sampling(r),
    ToolsFailure(protocol, r),
    ChoiceFailure(protocol, r),
    IF protocol = "anthropic" THEN parse_anthropic_thinking(r) ELSE Fine>>)

MessagesFailure(protocol, r) ==
  IF protocol = "openai" THEN OpenAiMessagesFailure(r.messages)
  ELSE AnthropicMessagesFailure(r.system, r.messages)

PromptMessages(protocol, r) ==
  IF protocol = "openai" THEN convert_openai_messages(r.messages)
  ELSE AnthropicMessages(r.system, r.messages)

GenerationRequest(protocol, r) ==
  [messages    |-> PromptMessages(protocol, r),
   tools       |-> OfferedTools(r),
   tool_choice |-> ToolChoice(r),
   thinking    |-> Thinking(protocol, r),
   max_tokens  |-> MaxTokens(r)]

\* Json, convert_openai_request, convert_anthropic_request: Fine for a request that
\* becomes GenerationRequest(protocol, r).
ConversionFailure(engine, protocol, r) ==
  LET early == FirstFailure(<<JsonFailure(protocol, r), FieldsFailure(protocol, r),
                              MessagesFailure(protocol, r), validate_stop_sequences(r)>>)
  IN  IF early # Fine THEN early
      ELSE ensure_context_fits(engine, GenerationRequest(protocol, r))

-----------------------------------------------------------------------------
(* How a failure is told.                                                  *)

Status(failure) ==
  CASE failure.kind = "BadRequest"     -> 400
    [] failure.kind = "Authentication" -> 401
    [] failure.kind = "Busy"           -> 429
    [] failure.kind = "Unavailable"    -> 503
    [] failure.kind = "Internal"       -> 500

=============================================================================
