------------------------------ MODULE Messages ------------------------------
(***************************************************************************)
(* Messages of the two protocols (src/api.rs): what the server makes of    *)
(* the messages of a request, and what it answers with.                    *)
(*                                                                         *)
(* OpenAI: a message has a role, a content of blocks (a plain string is a  *)
(* single text block), reasoning_content, tool_calls and tool_call_id.     *)
(* Anthropic: a message has a role and a content of blocks.  What is left  *)
(* out of the JSON is Absent.  Both become messages of PromptText, in      *)
(* which a tool call is only counted.                                      *)
(*                                                                         *)
(* A definition named D_Error is D with that error in it: no part of the   *)
(* specification, but what its properties are tried against.               *)
(***************************************************************************)
EXTENDS PromptText

CONSTANT Absent    \* Option::None

OrEmpty(optional) == IF optional = Absent THEN <<>> ELSE optional

-----------------------------------------------------------------------------
(* Failures: the kind of an ApiFailure and the parameter it names.         *)

Fine == [kind |-> "None", parameter |-> "none"]

Failure(kind, parameter) == [kind |-> kind, parameter |-> parameter]

Refuse(condition, parameter) ==
  IF condition THEN Failure("BadRequest", parameter) ELSE Fine

\* What `?` does to a sequence of checks.
FirstFailure(failures) ==
  LET failing == {i \in DOMAIN failures : failures[i] # Fine}
  IN  IF failing = {} THEN Fine ELSE failures[Min(failing)]

-----------------------------------------------------------------------------
(* Blocks.                                                                 *)

EmptyBlock ==
  [type |-> "text", text |-> Absent, image |-> Absent, call |-> Absent, tool_use_id |-> Absent]

TextBlock(text)      == [EmptyBlock EXCEPT !.text = text]
ImageBlock(image)    == [EmptyBlock EXCEPT !.type = "image", !.image = image]
ThinkingBlock(text)  == [EmptyBlock EXCEPT !.type = "thinking", !.text = text]
ToolUseBlock(call)   == [EmptyBlock EXCEPT !.type = "tool_use", !.call = call]
ToolResultBlock(text) ==
  [EmptyBlock EXCEPT !.type = "tool_result", !.text = text, !.tool_use_id = "call"]

Call == [kind |-> "function", name |-> "valid", arguments |-> "object"]

\* What can be wrong with an image in the JSON, and with one to be fetched.
DataFaults == {"malformed", "media_type", "base64", "size", "undecodable"}
UrlFaults  == {"malformed", "scheme", "local", "unreachable", "status", "size", "undecodable"}

load_openai_image(image) ==
  Refuse(image.faults \cap (IF image.form = "url" THEN UrlFaults ELSE DataFaults) # {}, "image")

-----------------------------------------------------------------------------
(* OpenAI.                                                                 *)

PartFailure(part, allow_images) ==
  CASE part.type = "text" -> Refuse(part.text = Absent, "text")
    [] part.type = "image" /\ allow_images ->
         IF part.image = Absent THEN Failure("BadRequest", "image_url")
         ELSE load_openai_image(part.image)
    [] OTHER -> Failure("BadRequest", "type")

convert_openai_tool_calls(calls) ==
  FirstFailure([i \in DOMAIN calls |->
    FirstFailure(<<Refuse(calls[i].kind \notin {Absent, "function"}, "type"),
                   Refuse(calls[i].name # "valid", "function.name"),
                   Refuse(calls[i].arguments # "object", "function.arguments")>>)])

OpenAiRole(message) == IF message.role = "developer" THEN "system" ELSE message.role

OpenAiMessageFailure(messages, i) ==
  LET message == messages[i]
      role    == OpenAiRole(message)
      late    == \E j \in 1 .. i - 1 : OpenAiRole(messages[j]) # "system"
      content == OrEmpty(message.content)
  IN  FirstFailure(<<
        Refuse(role \notin {"system", "user", "assistant", "tool"}, "role"),
        Refuse(role = "system" /\ late, "role"),
        Refuse(role = "tool" /\ message.tool_call_id = Absent, "tool_call_id"),
        FirstFailure([k \in DOMAIN content |-> PartFailure(content[k], role = "user")]),
        Refuse(message.content = Absent
               /\ ~(role = "assistant" /\ message.tool_calls # Absent), "content"),
        convert_openai_tool_calls(OrEmpty(message.tool_calls))>>)

OpenAiMessagesFailure(messages) ==
  FirstFailure(<<
    Refuse(messages = <<>>, "messages"),
    FirstFailure([i \in DOMAIN messages |-> OpenAiMessageFailure(messages, i)]),
    Refuse(\A i \in DOMAIN messages : messages[i].role # "user", "messages")>>)

Part(block) ==
  IF block.type = "image" THEN [type |-> "image", image |-> block.image]
                          ELSE [type |-> "text", text |-> block.text]

Parts(blocks) == [i \in DOMAIN blocks |-> Part(blocks[i])]

convert_openai_messages(messages) ==
  [i \in DOMAIN messages |->
     [role      |-> OpenAiRole(messages[i]),
      content   |-> Parts(OrEmpty(messages[i].content)),
      reasoning |-> OrEmpty(messages[i].reasoning_content),
      calls     |-> Len(OrEmpty(messages[i].tool_calls))]]

-----------------------------------------------------------------------------
(* Anthropic.                                                              *)

BlockFailure(block) ==
  CASE block.type \in {"text", "thinking"} -> Refuse(block.text = Absent, block.type)
    [] block.type = "image" ->
         IF block.image = Absent THEN Failure("BadRequest", "source")
         ELSE load_openai_image(block.image)
    [] block.type = "tool_use" ->
         FirstFailure(<<Refuse(block.call.name # "valid", "name"),
                        Refuse(block.call.arguments # "object", "input")>>)
    [] block.type = "tool_result" ->
         FirstFailure(<<Refuse(block.tool_use_id = Absent, "tool_use_id"),
                        Refuse(block.image # Absent, "content")>>)
    [] OTHER -> Failure("BadRequest", "type")

\* Blocks a role may not send.
Forbidden(role) ==
  IF role = "user" THEN {"tool_use", "thinking"} ELSE {"tool_result"}

AnthropicMessageFailure(message) ==
  LET content == message.content
  IN  IF message.role \notin {"user", "assistant"} THEN Failure("BadRequest", "role")
      ELSE FirstFailure(<<
             FirstFailure([k \in DOMAIN content |-> BlockFailure(content[k])]),
             Refuse(\E k \in DOMAIN content : content[k].type \in Forbidden(message.role),
                    "content")>>)

OfType(blocks, types) == SelectSeq(blocks, LAMBDA block : block.type \in types)

Said(role, content) == [role |-> role, content |-> content, reasoning |-> <<>>, calls |-> 0]

Flush(role, parts) == IF parts = <<>> THEN <<>> ELSE <<Said(role, parts)>>

\* Results of tools become messages of their own, with what was said before
\* them in front.
AnthropicUser_Regroups(content) ==
  LET results == OfType(content, {"tool_result"})
  IN  Flush("user", Parts(OfType(content, {"text", "image"})))
      \o [i \in DOMAIN results |-> Said("tool", <<[type |-> "text", text |-> OrEmpty(results[i].text)]>>)]

AnthropicUser(content) ==
  LET step(taken, block) ==
        IF block.type = "tool_result"
        THEN [done |-> taken.done \o Flush("user", taken.parts)
                       \o <<Said("tool", <<[type |-> "text", text |-> OrEmpty(block.text)]>>)>>,
              parts |-> <<>>]
        ELSE [taken EXCEPT !.parts = Append(@, Part(block))]
      taken == FoldLeft(step, [done |-> <<>>, parts |-> <<>>], content)
  IN  taken.done \o Flush("user", taken.parts)

AnthropicAssistant(content) ==
  LET thinking == OfType(content, {"thinking"})
      joined[i \in 0 .. Len(thinking)] ==
        IF i = 0 THEN <<>>
        ELSE joined[i - 1] \o (IF i > 1 THEN <<Newline>> ELSE <<>>) \o thinking[i].text
  IN  <<[role      |-> "assistant",
         content   |-> Parts(OfType(content, {"text", "image"})),
         reasoning |-> joined[Len(thinking)],
         calls     |-> Len(OfType(content, {"tool_use"}))]>>

convert_anthropic_messages(messages) ==
  FlattenSeq([i \in DOMAIN messages |->
    IF messages[i].role = "user" THEN AnthropicUser(messages[i].content)
                                 ELSE AnthropicAssistant(messages[i].content)])

\* The system prompt and the messages.
SystemFailure(system) ==
  FirstFailure([i \in DOMAIN OrEmpty(system) |->
    IF system[i].type = "text" THEN Refuse(system[i].text = Absent, "system")
    ELSE Failure("BadRequest", "system")])

AnthropicMessages(system, messages) ==
  (IF system = Absent THEN <<>> ELSE <<Said("system", Parts(system))>>)
  \o convert_anthropic_messages(messages)

AnthropicMessagesFailure(system, messages) ==
  LET failures == <<
        SystemFailure(system),
        Refuse(messages = <<>>, "messages"),
        FirstFailure([i \in DOMAIN messages |-> AnthropicMessageFailure(messages[i])])>>
      silent == \A m \in Range(AnthropicMessages(system, messages)) : m.role # "user"
  IN  IF FirstFailure(failures) # Fine THEN FirstFailure(failures)
      ELSE Refuse(silent, "messages")

-----------------------------------------------------------------------------
(* Answers.  A generation has its text, its reasoning (empty for None) and *)
(* its number of tool calls, to which assign_tool_call_ids gives ids.      *)

OrAbsent(sequence) == IF sequence = <<>> THEN Absent ELSE sequence

CallsOf_Quoted(generation) ==
  [i \in 1 .. generation.calls |-> [Call EXCEPT !.arguments = "string"]]

CallsOf(generation) == [i \in 1 .. generation.calls |-> Call]

OpenAiAssistantMessage(generation) ==
  [role |-> "assistant",
   content |-> IF generation.text = <<>> THEN Absent ELSE <<TextBlock(generation.text)>>,
   reasoning_content |-> OrAbsent(generation.reasoning),
   tool_calls |-> OrAbsent(CallsOf(generation)),
   tool_call_id |-> Absent]

anthropic_content_blocks_NoThinking(generation) ==
  LET calls  == CallsOf(generation)
      blocks == (IF generation.text = <<>> THEN <<>> ELSE <<TextBlock(generation.text)>>)
                \o [i \in DOMAIN calls |-> ToolUseBlock(calls[i])]
  IN  IF blocks = <<>> THEN <<TextBlock(<<>>)>> ELSE blocks

anthropic_content_blocks(generation) ==
  LET calls  == CallsOf(generation)
      blocks == (IF generation.reasoning = <<>> THEN <<>>
                 ELSE <<ThinkingBlock(generation.reasoning)>>)
                \o (IF generation.text = <<>> THEN <<>> ELSE <<TextBlock(generation.text)>>)
                \o [i \in DOMAIN calls |-> ToolUseBlock(calls[i])]
  IN  IF blocks = <<>> THEN <<TextBlock(<<>>)>> ELSE blocks

=============================================================================
