--------------------------- MODULE StreamResponse ---------------------------
(***************************************************************************)
(* The server-sent events of one streamed answer (src/api.rs):             *)
(* openai_live_stream and anthropic_live_stream, which read the events of  *)
(* the generation from their channel, run the raw text through a           *)
(* StreamingOutputParser and frame what comes out.                         *)
(*                                                                         *)
(* An event is its kind, the block it belongs to and the kind of block;    *)
(* texts are collected beside the events, and deltas that follow one       *)
(* another in a block are one event.                                       *)
(*                                                                         *)
(* A definition named D_Error is D with that error in it: no part of the   *)
(* specification, but what its properties are tried against.               *)
(***************************************************************************)
EXTENDS OutputParser, Integers

CONSTANTS
  Answers,    \* raw texts the model may answer with
  Protocols,  \* subset of {"openai", "anthropic"}
  Pieces      \* the lengths a RawToken event may have

ASSUME StreamAssumption ==
  /\ \A answer \in Answers : answer \in Seq(Range(answer))
  /\ Protocols \subseteq {"openai", "anthropic"}
  /\ Pieces \subseteq Nat \ {0}

VARIABLES
  protocol, thinking, tools,
  raw,             \* the whole answer of the model
  arrived,         \* how much of it came in RawToken events
  output,          \* the StreamingOutputParser
  started,         \* message_start was sent
  current_block,   \* the open content block: index and kind, or NoBlock
  next_index,
  sent,            \* the events
  reasoning, text, \* the deltas so far
  end              \* how the stream ended: "open", "finished", "failed"

vars == <<protocol, thinking, tools, raw, arrived, output, started,
          current_block, next_index, sent, reasoning, text, end>>

request == <<protocol, thinking, tools, raw>>

NoBlock == [index |-> -1, kind |-> "none"]

Event(name)        == [name |-> name, block |-> NoBlock]
BlockEvent(name, b) == [name |-> name, block |-> b]

Send(events, event) ==
  IF events # <<>> /\ Last(events) = event THEN events ELSE Append(events, event)

Init ==
  /\ protocol \in Protocols
  /\ thinking \in IF protocol = "anthropic" THEN BOOLEAN ELSE {FALSE}
  /\ tools \in BOOLEAN
  /\ raw \in Answers
  /\ arrived = 0
  /\ output = NewParser(thinking, tools)
  /\ started = FALSE
  /\ current_block = NoBlock
  /\ next_index = 0
  /\ sent = IF protocol = "openai" THEN <<Event("role")>> ELSE <<>>
  /\ reasoning = <<>> /\ text = <<>>
  /\ end = "open"

-----------------------------------------------------------------------------
(* Framing.  What is threaded through is what has been sent, the open      *)
(* block and the next index.                                               *)

Framing == [sent |-> sent, block |-> current_block, next |-> next_index]

finish_anthropic_block_NoStop(f) == [f EXCEPT !.block = NoBlock]

finish_anthropic_block(f) ==
  LET signature == IF f.block.kind = "Reasoning"
                   THEN Send(f.sent, BlockEvent("signature", f.block)) ELSE f.sent
  IN  IF f.block = NoBlock THEN f
      ELSE [f EXCEPT !.sent = Send(signature, BlockEvent("content_block_stop", f.block)),
                     !.block = NoBlock]

\* The block for a delta of this kind: the open one, or else a new one.
OpenBlock(f, kind) ==
  LET closed == finish_anthropic_block(f)
      block  == [index |-> f.next, kind |-> kind]
  IN  IF f.block.kind = kind THEN f
      ELSE [sent |-> Send(closed.sent, BlockEvent("content_block_start", block)),
            block |-> block, next |-> f.next + 1]

append_anthropic_delta(f, delta) ==
  LET g == OpenBlock(f, delta.kind)
  IN  [g EXCEPT !.sent = Send(@, BlockEvent("content_block_delta", g.block))]

openai_delta_chunk(f, delta) ==
  [f EXCEPT !.sent = Send(@, Event(IF delta.kind = "Text" THEN "content" ELSE "reasoning"))]

ensure_anthropic_started(f) ==
  IF started \/ protocol = "openai" THEN f
  ELSE [f EXCEPT !.sent = Send(@, Event("message_start"))]

Deltas(f, deltas) ==
  LET framed[n \in 0 .. Len(deltas)] ==
        IF n = 0 THEN f
        ELSE IF protocol = "openai" THEN openai_delta_chunk(framed[n - 1], deltas[n])
        ELSE append_anthropic_delta(framed[n - 1], deltas[n])
  IN  framed[Len(deltas)]

TextOf(kind, deltas) ==
  FlattenSeq([i \in DOMAIN deltas |-> IF deltas[i].kind = kind THEN deltas[i].text ELSE <<>>])

Frame(f) ==
  /\ sent' = f.sent
  /\ current_block' = f.block
  /\ next_index' = f.next
  /\ started' = (protocol = "anthropic")

-----------------------------------------------------------------------------
(* The events of the generation.                                           *)

Started ==
  /\ end = "open"
  /\ arrived = 0
  /\ Frame(ensure_anthropic_started(Framing))
  /\ UNCHANGED <<request, arrived, output, reasoning, text, end>>

RawToken(length) ==
  LET parsed == push_raw(output, SubSeq(raw, arrived + 1, arrived + length))
  IN  /\ end = "open"
      /\ arrived + length <= Len(raw)
      /\ arrived' = arrived + length
      /\ output' = [parsed EXCEPT !.deltas = <<>>]
      /\ Frame(Deltas(ensure_anthropic_started(Framing), parsed.deltas))
      /\ reasoning' = reasoning \o TextOf("Reasoning", parsed.deltas)
      /\ text' = text \o TextOf("Text", parsed.deltas)
      /\ UNCHANGED <<request, end>>

Generation == parse_model_output(raw, thinking, tools)

\* A delta for what there is.
Delta(kind, content) == IF content = <<>> THEN <<>> ELSE <<[kind |-> kind, text |-> content]>>

generation_deltas == Delta("Reasoning", Generation.reasoning) \o Delta("Text", Generation.text)

\* One tool_use block, or one chunk, per call of the parsed answer.
ToolEvents(first) ==
  LET names == IF protocol = "openai" THEN <<"tool_calls">>
               ELSE <<"content_block_start", "content_block_delta", "content_block_stop">>
      n     == Len(names)
  IN  [k \in 1 .. n * Generation.calls |->
         BlockEvent(names[((k - 1) % n) + 1],
                    [index |-> first + ((k - 1) \div n), kind |-> "tool_use"])]

Ending(usage) ==
  IF protocol = "anthropic" THEN <<Event("message_delta"), Event("message_stop")>>
  ELSE IF usage THEN <<Event("finish"), Event("usage"), Event("done")>>
  ELSE <<Event("finish"), Event("done")>>

\* Everything arrived in RawToken events, or nothing did (an engine that
\* only knows the trait's default generate_stream).
Finished(usage) ==
  LET parsed == finish(output)
      deltas == (IF arrived = 0 THEN generation_deltas ELSE <<>>) \o parsed.deltas
      framed == finish_anthropic_block(Deltas(ensure_anthropic_started(Framing), deltas))
      first  == IF protocol = "openai" THEN 0 ELSE framed.next
  IN  /\ end = "open"
      /\ arrived \in {0, Len(raw)}
      /\ end' = "finished"
      /\ output' = [parsed EXCEPT !.deltas = <<>>]
      /\ Frame([framed EXCEPT !.sent = @ \o ToolEvents(first) \o Ending(usage),
                              !.next = @ + IF protocol = "openai" THEN 0
                                           ELSE Generation.calls])
      /\ reasoning' = reasoning \o TextOf("Reasoning", deltas)
      /\ text' = text \o TextOf("Text", deltas)
      /\ UNCHANGED <<request, arrived>>

Failed_Silently ==
  LET closed == finish_anthropic_block(ensure_anthropic_started(Framing))
  IN  /\ end = "open"
      /\ end' = "failed"
      /\ Frame([closed EXCEPT !.sent = @ \o Ending(FALSE)])
      /\ UNCHANGED <<request, arrived, output, reasoning, text>>

\* An error event of the generation, or the end of its channel.
Failed ==
  LET closed == finish_anthropic_block(ensure_anthropic_started(Framing))
  IN  /\ end = "open"
      /\ end' = "failed"
      /\ Frame([closed EXCEPT !.sent = @ \o
                  IF protocol = "openai" THEN <<Event("error"), Event("done")>>
                  ELSE <<Event("error")>>])
      /\ UNCHANGED <<request, arrived, output, reasoning, text>>

Next ==
  \/ Started
  \/ \E length \in Pieces : RawToken(length)
  \/ \E usage \in BOOLEAN : Finished(usage)
  \/ Failed

Spec == Init /\ [][Next]_vars

-----------------------------------------------------------------------------
(* Properties.                                                             *)

(* What may follow an event in a stream of either protocol.                *)
Follows(event) ==
  LET b    == event.block
      Blocks(i) == {BlockEvent("content_block_start", [index |-> i, kind |-> k]) :
                      k \in {"Reasoning", "Text", "tool_use"}}
      Calls(i) == {BlockEvent("tool_calls", [index |-> i, kind |-> "tool_use"])}
      Chunks   == {Event("reasoning"), Event("content")}
  IN  CASE event.name = "message_start" ->
             Blocks(0) \cup {Event("message_delta"), Event("error")}
        [] event.name = "content_block_start" -> {BlockEvent("content_block_delta", b)}
        [] event.name = "content_block_delta" ->
             IF b.kind = "Reasoning" THEN {BlockEvent("signature", b)}
             ELSE {BlockEvent("content_block_stop", b)}
        [] event.name = "signature" -> {BlockEvent("content_block_stop", b)}
        [] event.name = "content_block_stop" ->
             Blocks(b.index + 1) \cup {Event("message_delta"), Event("error")}
        [] event.name = "message_delta" -> {Event("message_stop")}
        [] event.name \in {"role", "reasoning", "content"} ->
             Chunks \cup Calls(0) \cup {Event("finish"), Event("error")}
        [] event.name = "tool_calls" -> Calls(b.index + 1) \cup {Event("finish")}
        [] event.name = "finish" -> {Event("usage"), Event("done")}
        [] event.name = "usage" -> {Event("done")}
        [] event.name = "error" -> {Event("done")}
        [] OTHER -> {}

(* Whatever the answer, its pieces and the moment of a failure, the client *)
(* sees a well-formed stream: blocks never overlap, are numbered without a *)
(* gap, closed before the next one and before the end, a thinking block    *)
(* carries its signature, and nothing follows the terminal event.          *)
WellFramed ==
  /\ sent # <<>> => sent[1] = Event(IF protocol = "openai" THEN "role" ELSE "message_start")
  /\ \A i \in 1 .. Len(sent) - 1 : sent[i + 1] \in Follows(sent[i])
  /\ end # "open" =>
       Last(sent) \in IF protocol = "openai" THEN {Event("done")}
                      ELSE {Event("message_stop"), Event("error")}

(* A failure is never taken for a complete answer, nor the reverse.        *)
Honest ==
  end # "open" =>
    (end = "failed" <=> \E i \in DOMAIN sent : sent[i] = Event("error"))

(* Only text that may still become a marker is held back; everything else  *)
(* is delivered with the piece that completes it.                          *)
NothingWithheld ==
  /\ output.deltas = <<>>
  /\ CASE output.mode = "Text" -> IsStrictPrefix(output.pending, OPEN_TOOL)
       [] output.mode = "Reasoning" ->
            \/ output.initial_reasoning /\ IsStrictPrefix(output.pending, OPEN_THINK)
            \/ IsStrictPrefix(output.pending, CLOSE_THINK)
       [] output.mode = "Tool" -> Occurrences(CLOSE_TOOL, output.pending) = {}

(* However the answer was cut into pieces, the client receives what the    *)
(* parser makes of it in one piece.                                        *)
PiecesDoNotMatter ==
  end = "finished" /\ arrived > 0 =>
    LET whole  == push_raw(NewParser(thinking, tools), raw)
        deltas == whole.deltas \o finish(whole).deltas
    IN  reasoning = TextOf("Reasoning", deltas) /\ text = TextOf("Text", deltas)

(* The model kept to the protocol of its chat template: no answer is cut   *)
(* off inside of a tool call and every call it makes is well formed; if it *)
(* opens its reasoning with a tag, it does so once and a newline follows.  *)
KeptToProtocol ==
  /\ tools => Occurrences(OPEN_TOOL, Generation.text) = {}
  /\ thinking => \/ Occurrences(BARE_THINK, raw) = {}
                 \/ IsPrefix(OPEN_THINK, raw) /\ Occurrences(BARE_THINK, raw) = {1}

(* An answer in the model's protocol, streamed in whatever pieces, is the  *)
(* answer a client gets without streaming, up to white space at its ends.  *)
StreamedAsAnswered ==
  end = "finished" /\ KeptToProtocol =>
    /\ Trim(text) = Trim(Generation.text)
    /\ Trim(reasoning) = Generation.reasoning

(* The README: the markup of tool calls never reaches a client as text,    *)
(* whether it was parsed into a call or not, streaming or not.             *)
MarkupHidden ==
  end = "finished" /\ tools =>
    /\ Occurrences(OPEN_TOOL, text) = {}
    /\ Occurrences(OPEN_TOOL, Generation.text) = {}

=============================================================================
