--------------------------- MODULE MCConversation ---------------------------
(***************************************************************************)
(* Conversation with small texts and images, and with one thing wrong at   *)
(* a time.                                                                 *)
(***************************************************************************)
EXTENDS Conversation

Key    == "key"
NoKey  == [bearer |-> Absent, x_api_key |-> Absent, anthropic_version |-> TRUE]
Bearer == [NoKey EXCEPT !.bearer = Key]

ATool == [kind |-> "function", name |-> "t", schema |-> "object"]
Other == [ATool EXCEPT !.name = "u"]

Fields ==
  [model |-> "m", n |-> Absent, max_tokens |-> 4, max_completion_tokens |-> Absent,
   temperature |-> Absent, top_p |-> Absent, tools |-> Absent, tool_choice |-> Absent,
   thinking |-> Absent, stop |-> <<>>]

WithTools == [Fields EXCEPT !.tools = <<ATool, Other>>]
Choose(type) == [WithTools EXCEPT !.tool_choice = [type |-> type, name |-> "t"]]
Think(type, budget) == [Fields EXCEPT !.thinking = [type |-> type, budget |-> budget]]

GoodFields ==
  {Fields, [Fields EXCEPT !.max_tokens = Absent], WithTools, Think("enabled", 4),
   [WithTools EXCEPT !.thinking = [type |-> "enabled", budget |-> 1]]}
  \cup {Choose(type) : type \in {"none", "specific", "required"}}

BadFields ==
  {[Fields EXCEPT !.model = "x"], [Fields EXCEPT !.n = 2], [Fields EXCEPT !.max_tokens = 0],
   [Fields EXCEPT !.max_tokens = 9], [Fields EXCEPT !.max_completion_tokens = 4],
   [Fields EXCEPT !.temperature = 21], [Fields EXCEPT !.top_p = 0],
   [WithTools EXCEPT !.tools[1].kind = "x"], [WithTools EXCEPT !.tools[1].name = ""],
   [WithTools EXCEPT !.tools[2].schema = "x"], [WithTools EXCEPT !.tools[2].name = "t"],
   [Choose("specific") EXCEPT !.tool_choice.name = "x"],
   [Choose("required") EXCEPT !.tools = Absent], Choose("x"),
   Think("enabled", 0), Think("enabled", 5), Think("x", 1),
   [Fields EXCEPT !.stop = <<<<>>>>], [Fields EXCEPT !.stop = [i \in 1 .. 5 |-> <<"s">>]]}

Client(protocol, headers, fields, systems) ==
  [protocol |-> protocol, headers |-> headers, fields |-> fields, systems |-> systems]

Protocols == {"openai", "anthropic"}

TwoSystems == <<<<"S">>, <<"D">>>>

AnyClient ==
  {Client(p, Bearer, f, s) : p \in Protocols, f \in GoodFields, s \in {<<>>, <<<<"S">>>>, TwoSystems}}
  \cup {Client(p, Bearer, f, <<>>) : p \in Protocols, f \in BadFields}
  \cup {Client(p, NoKey, Fields, <<>>) : p \in Protocols}
  \cup {Client("anthropic", [Bearer EXCEPT !.anthropic_version = FALSE], Fields, <<>>),
        Client("anthropic", [Bearer EXCEPT !.x_api_key = "x"], Fields, <<>>)}

SystemClient == {Client("openai", Bearer, WithTools, TwoSystems)}

Native == [execution |-> "native", context_tokens |-> 90, vision |-> TRUE, response |-> <<>>]

AnyEngine ==
  {Native, [Native EXCEPT !.vision = FALSE],
   [Native EXCEPT !.execution = "fixture", !.context_tokens = 300,
                  !.response = [i \in 1 .. 20 |-> "f"]]}

NativeOnly == {Native}

Hello == TextBlock(<<"h">>)
Image(height, width) ==
  ImageBlock([form |-> "url", faults |-> {}, height |-> height, width |-> width])

GoodTurns ==
  {<<Hello>>, <<Hello, Image(8, 12)>>, <<Image(2, 2), Hello, Image(40, 16)>>,
   <<ToolResultBlock(<<"r">>), ToolResultBlock(<<"q">>)>>,
   <<ToolResultBlock(<<"r">>), Hello>>, <<Hello, ToolResultBlock(<<"r">>), Hello>>}

BadTurns ==
  {<<>>, <<TextBlock(Absent)>>, <<ImageBlock(Absent)>>, <<Image(4, 40)>>,
   <<[Image(8, 8) EXCEPT !.image.faults = {"undecodable"}]>>,
   <<[ToolResultBlock(<<"r">>) EXCEPT !.tool_use_id = Absent]>>,
   <<ThinkingBlock(<<"t">>)>>}

AnyTurn == GoodTurns \cup BadTurns

\* Answers in the model's protocol: reasoning, a text and calls, of which any may be missing.
Answered(thinking, tools) ==
  LET thoughts == IF thinking THEN {CLOSE_THINK, <<"p", Newline>> \o CLOSE_THINK \o <<Newline, Newline>>}
                  ELSE {<<>>}
      texts    == {<<>>, <<"a">>} \cup IF tools THEN {<<Newline>> \o Calls(2), <<"a">> \o Calls(1)} ELSE {}
      whole    == {t \o s : t \in thoughts, s \in texts}
  IN  whole \cup IF thinking THEN {<<>>, <<"p">>} ELSE {}

=============================================================================
