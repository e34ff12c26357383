----------------------------- MODULE PromptText -----------------------------
(***************************************************************************)
(* The prompt of a request (src/native.rs, render_prompt and what follows  *)
(* it): the chat template, the spans of image placeholders and the         *)
(* positions of the tokens.                                                *)
(*                                                                         *)
(* A prompt is a sequence of letters, one token each; the marks of the     *)
(* model's protocol are those of OutputParser, so that an answer can be    *)
(* put back into the next prompt.  Texts never spell a mark of the         *)
(* template.  An image is its size in pixels; its visual features are the  *)
(* cells of its grid.                                                      *)
(*                                                                         *)
(* A definition named D_Error is D with that error in it: no part of the   *)
(* specification, but what its properties are tried against.               *)
(***************************************************************************)
EXTENDS OutputParser

CONSTANTS
  MinCells,     \* min_pixels of smart_resize in grid cells: 64 in the code
  MaxCells,     \* max_pixels of smart_resize in grid cells: 256 in the code
  CellSize,     \* pixels on the side of a cell: patch size times merge size
  MaxAspect     \* 200 in the code

ASSUME PromptTextAssumption ==
  /\ {MinCells, MaxCells, CellSize, MaxAspect} \subseteq Nat \ {0}
  /\ MinCells <= MaxCells

VisionStart == "vision_start"
ImagePad    == "image_pad"
VisionEnd   == "vision_end"

Start(role) == <<"im_start", role, Newline>>
End         == <<"im_end", Newline>>

-----------------------------------------------------------------------------
(* Images.                                                                 *)

TooLong(image) ==
  Max({image.height, image.width}) > MaxAspect * Min({image.height, image.width})

Rounded(pixels) == Max({1, (pixels + CellSize \div 2) \div CellSize})

\* The square roots of the code, as the integers around them.
FloorRoot(n, d) == Max({1} \cup {k \in 1 .. MaxCells * MaxAspect : k * k * d <= n})
CeilRoot(n, d)  == Min({k \in 1 .. MaxAspect * MinCells + 1 : k * k * d >= n})

\* smart_resize, in cells: rounded, unless that is too large or too small.
Rows(image) ==
  LET h == image.height
      w == image.width
      cells == Rounded(h) * Rounded(w)
  IN  IF cells > MaxCells THEN FloorRoot(MaxCells * h, w)
      ELSE IF cells < MinCells THEN CeilRoot(MinCells * h, w) ELSE Rounded(h)

Columns(image) == Rows([height |-> image.width, width |-> image.height])

output_token_count(image) == Rows(image) * Columns(image)

-----------------------------------------------------------------------------
(* The chat template.  A message has a role, its content (texts and        *)
(* images), its reasoning (empty for None) and its number of tool calls.   *)

IsImage(part) == part.type = "image"

Images(messages) ==
  LET of(m) == [i \in DOMAIN SelectSeq(m.content, IsImage) |-> SelectSeq(m.content, IsImage)[i].image]
  IN  FlattenSeq([i \in DOMAIN messages |-> of(messages[i])])

Pads(image) == [i \in 1 .. output_token_count(image) |-> ImagePad]

render_prompt_content(content) ==
  LET rendered(part) == IF IsImage(part)
                        THEN <<VisionStart>> \o Pads(part.image) \o <<VisionEnd>>
                        ELSE part.text
  IN  FlattenSeq([i \in DOMAIN content |-> rendered(content[i])])

render_tool_call == <<Newline>> \o OPEN_TOOL \o <<Newline, Function, Newline>> \o CLOSE_TOOL

Calls(count) == FlattenSeq([i \in 1 .. count |-> render_tool_call])

FirstIsSystem(request) == Head(request.messages).role = "system"

\* The turn that declares the tools takes the system message in.
Tools(request) ==
  LET content == Trim(render_prompt_content(Head(request.messages).content))
  IN  IF request.tools = {} THEN <<>>
      ELSE Start("system") \o <<"tools", request.tool_choice>>
           \o (IF FirstIsSystem(request) /\ content # <<>>
               THEN <<Newline, Newline>> \o content ELSE <<>>)
           \o End

Skipped(request, message) ==
  message.role = "system" /\ FirstIsSystem(request) /\ request.tools # {}

Assistant_NoThink(message) ==
  Start("assistant") \o render_prompt_content(message.content) \o Calls(message.calls) \o End

Assistant(message) ==
  Start("assistant") \o OPEN_THINK \o Trim(message.reasoning)
  \o <<Newline>> \o CLOSE_THINK \o <<Newline, Newline>>
  \o render_prompt_content(message.content) \o Calls(message.calls) \o End

\* Results of tools that follow one another share a turn of the user.
ToolResult(messages, i) ==
  LET tool(j) == j \in DOMAIN messages /\ messages[j].role = "tool"
  IN  (IF tool(i - 1) THEN <<>> ELSE <<"im_start", "user">>)
      \o <<Newline, "tool_response">> \o render_prompt_content(messages[i].content)
      \o <<"/tool_response">> \o (IF tool(i + 1) THEN <<>> ELSE End)

Rendered(request, i) ==
  LET message == request.messages[i]
  IN  CASE Skipped(request, message) -> <<>>
        [] message.role = "assistant" -> Assistant(message)
        [] message.role = "tool" -> ToolResult(request.messages, i)
        [] OTHER -> Start(message.role) \o render_prompt_content(message.content) \o End

GenerationPrompt(thinking) ==
  Start("assistant") \o OPEN_THINK
  \o (IF thinking THEN <<>> ELSE <<Newline>> \o CLOSE_THINK \o <<Newline, Newline>>)

render_prompt(request) ==
  Tools(request)
  \o FlattenSeq([i \in DOMAIN request.messages |-> Rendered(request, i)])
  \o GenerationPrompt(request.thinking)

-----------------------------------------------------------------------------
(* Positions: a triple of time, row and column, equal for a text.          *)

TextPosition(offset) == <<offset, offset, offset>>

NextTextPosition_NoGap(offset, image) == offset + Max({Rows(image), Columns(image)})

\* Behind the image, past its longer side.
NextTextPosition(offset, image) == offset + 1 + Max({Rows(image), Columns(image)})

Cells(offset, image) ==
  [i \in 1 .. output_token_count(image) |->
     <<offset + 1, offset + 1 + ((i - 1) \div Columns(image)),
       offset + 1 + ((i - 1) % Columns(image))>>]

RECURSIVE PositionsFrom(_, _, _)
PositionsFrom(prompt, images, offset) ==
  LET starts == {i \in DOMAIN prompt : prompt[i] = VisionStart}
      text(n) == [i \in 1 .. n |-> TextPosition(offset + i - 1)]
      at     == Min(starts)
      image  == Head(images)
      next   == NextTextPosition(offset + at - 1, image)
  IN  IF starts = {} THEN text(Len(prompt))
      ELSE text(at) \o Cells(offset + at - 1, image) \o <<TextPosition(next)>>
           \o PositionsFrom(From(prompt, at + output_token_count(image) + 2),
                            Tail(images), next + 1)

multimodal_positions(request) ==
  PositionsFrom(render_prompt(request), Images(request.messages), 0)

\* Every image of the request has its span in the prompt, and as many
\* placeholders as it has features.
SpansMatch(request) ==
  LET prompt == render_prompt(request)
      images == Images(request.messages)
      spans  == SelectSeq(prompt, LAMBDA c : c = VisionStart)
      pads   == SelectSeq(prompt, LAMBDA c : c = ImagePad)
  IN  /\ Len(spans) = Len(images)
      /\ Len(pads) = Len(FlattenSeq([i \in DOMAIN images |-> Pads(images[i])]))

=============================================================================
