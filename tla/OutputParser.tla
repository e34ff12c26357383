---------------------------- MODULE OutputParser ----------------------------
(***************************************************************************)
(* The two parsers of the model's textual protocol (src/api.rs):           *)
(* parse_model_output, which takes a finished answer apart, and            *)
(* StreamingOutputParser, which does it while the answer arrives in pieces *)
(* of any length.                                                          *)
(*                                                                         *)
(* A text is a sequence of letters.  A marker is two or three letters      *)
(* long, the first of which all markers share, so that a piece may end     *)
(* inside of one.  The body of a tool call is well formed if it contains   *)
(* the letter Function, which stands for a whole <function=...> element    *)
(* that names a tool of the request.                                       *)
(*                                                                         *)
(* A definition named D_Error is D with that error in it: no part of the   *)
(* specification, but what its properties are tried against.               *)
(***************************************************************************)
EXTENDS Naturals, Sequences, SequencesExt, FiniteSetsExt

Newline  == "nl"
Function == "function"

BARE_THINK  == <<"<", "think>">>
OPEN_THINK  == BARE_THINK \o <<Newline>>
CLOSE_THINK == <<"<", "/think>">>
OPEN_TOOL   == <<"<", "tool_call>">>
CLOSE_TOOL  == <<"<", "/tool_call>">>

-----------------------------------------------------------------------------
(* Texts.                                                                  *)

From(text, i) == SubSeq(text, i, Len(text))

Occurrences(marker, text) == {i \in DOMAIN text : IsPrefix(marker, From(text, i))}

\* str::find, 0 for None.
Find(marker, text) ==
  IF Occurrences(marker, text) = {} THEN 0 ELSE Min(Occurrences(marker, text))

\* str::strip_prefix, if it applies.
Strip(prefix, text) == IF IsPrefix(prefix, text) THEN From(text, Len(prefix) + 1) ELSE text

\* str::trim
Trim(text) ==
  LET solid == {i \in DOMAIN text : text[i] # Newline}
  IN  IF solid = {} THEN <<>> ELSE SubSeq(text, Min(solid), Max(solid))

-----------------------------------------------------------------------------
(* parse_model_output.                                                     *)

split_reasoning(raw) ==
  LET body  == Strip(BARE_THINK, Strip(OPEN_THINK, raw))
      end   == Find(CLOSE_THINK, body)
      after == From(body, end + Len(CLOSE_THINK))
  IN  IF end = 0
      THEN [reasoning |-> Trim(body), answer |-> <<>>]
      ELSE [reasoning |-> Trim(SubSeq(body, 1, end - 1)),
            answer |-> Strip(<<Newline>>, Strip(<<Newline>>, after))]

WellFormed(body) == Contains(body, Function)

\* A turn of the loop.  At a call without an end the loop is left before
\* `remaining` has moved.
NextCall(s) ==
  LET start == Find(OPEN_TOOL, s.remaining)
      size  == Find(CLOSE_TOOL, From(s.remaining, start + Len(OPEN_TOOL)))
      body  == SubSeq(s.remaining, start + Len(OPEN_TOOL), start + Len(OPEN_TOOL) + size - 2)
      last  == start + Len(OPEN_TOOL) + size + Len(CLOSE_TOOL) - 2
  IN  IF s.left \/ start = 0 THEN s
      ELSE IF size = 0 THEN [s EXCEPT !.text = @ \o s.remaining, !.left = TRUE]
      ELSE IF WellFormed(body)
      THEN [s EXCEPT !.text = @ \o SubSeq(s.remaining, 1, start - 1), !.calls = @ + 1,
                     !.remaining = From(@, last + 1)]
      ELSE [s EXCEPT !.text = @ \o SubSeq(s.remaining, 1, last),
                     !.remaining = From(@, last + 1)]

\* The text outside of well-formed calls, and how many of those there are.
\* There are fewer turns than letters; what remains is appended, of a call
\* without an end once more.
ToolCalls(answer) ==
  LET turn[n \in 0 .. Len(answer)] ==
        IF n = 0 THEN [text |-> <<>>, calls |-> 0, remaining |-> answer, left |-> FALSE]
                 ELSE NextCall(turn[n - 1])
      end == turn[Len(answer)]
  IN  [text |-> end.text \o end.remaining, calls |-> end.calls]

parse_tool_calls(answer, tools) ==
  IF tools
  THEN [text |-> Trim(ToolCalls(answer).text), calls |-> ToolCalls(answer).calls]
  ELSE [text |-> answer, calls |-> 0]

parse_model_output(raw, thinking, tools) ==
  LET parts == IF thinking THEN split_reasoning(raw)
                           ELSE [reasoning |-> <<>>, answer |-> raw]
      calls == parse_tool_calls(parts.answer, tools)
  IN  [reasoning |-> parts.reasoning, text |-> calls.text, calls |-> calls.calls]

-----------------------------------------------------------------------------
(* StreamingOutputParser; `deltas` are those of the call in progress.      *)

NewParser(thinking, tools) ==
  [mode |-> IF thinking THEN "Reasoning" ELSE "Text", tools |-> tools,
   pending |-> <<>>, initial_reasoning |-> thinking, trim_answer_newlines |-> 0,
   deltas |-> <<>>]

marker_suffix_len_Zero(text, marker) == 0

\* The longest beginning of the marker the pending text ends with.
marker_suffix_len(text, marker) ==
  Max({0} \cup {n \in 1 .. Len(marker) - 1 : IsSuffix(SubSeq(marker, 1, n), text)})

Emit(p, kind, count) ==
  IF count = 0 THEN p
  ELSE [p EXCEPT !.pending = From(@, count + 1),
                 !.deltas = Append(@, [kind |-> kind, text |-> SubSeq(p.pending, 1, count)])]

EmitBefore_Waits(p, kind, marker, finished) ==
  LET at == Find(marker, p.pending)
  IN  Emit(p, kind, IF at > 0 THEN at - 1 ELSE IF finished THEN Len(p.pending) ELSE 0)

\* What comes before the marker, or all that cannot be a part of one.
EmitBefore(p, kind, marker, finished) ==
  LET at   == Find(marker, p.pending)
      hold == IF finished THEN 0 ELSE marker_suffix_len(p.pending, marker)
  IN  Emit(p, kind, IF at > 0 THEN at - 1 ELSE Len(p.pending) - hold)

Reasoning(p, finished) ==
  IF p.initial_reasoning /\ IsPrefix(OPEN_THINK, p.pending)
  THEN [p EXCEPT !.pending = From(@, Len(OPEN_THINK) + 1), !.initial_reasoning = FALSE]
  ELSE IF p.initial_reasoning /\ ~finished /\ IsPrefix(p.pending, OPEN_THINK)
  THEN p
  ELSE IF IsPrefix(CLOSE_THINK, p.pending)
  THEN [p EXCEPT !.pending = From(@, Len(CLOSE_THINK) + 1), !.initial_reasoning = FALSE,
                 !.mode = "Text", !.trim_answer_newlines = 2]
  ELSE EmitBefore([p EXCEPT !.initial_reasoning = FALSE], "Reasoning", CLOSE_THINK, finished)

\* The newlines at the front that are still to be trimmed.
Trimmed(p) ==
  LET count == Max({n \in 0 .. Min({p.trim_answer_newlines, Len(p.pending)}) :
                      \A i \in 1 .. n : p.pending[i] = Newline})
  IN  [p EXCEPT !.pending = From(@, count + 1), !.trim_answer_newlines = @ - count]

Text(p, finished) ==
  LET q == Trimmed(p)
      r == [q EXCEPT !.trim_answer_newlines = 0]
  IN  IF q.trim_answer_newlines > 0 /\ q.pending = <<>> THEN q
      ELSE IF ~p.tools THEN Emit(r, "Text", Len(r.pending))
      ELSE IF IsPrefix(OPEN_TOOL, r.pending)
      THEN [r EXCEPT !.pending = From(@, Len(OPEN_TOOL) + 1), !.mode = "Tool"]
      ELSE EmitBefore(r, "Text", OPEN_TOOL, finished)

Tool_Resumes(p, finished) ==
  LET end == Find(CLOSE_TOOL, p.pending)
  IN  IF end > 0
      THEN [p EXCEPT !.pending = From(@, end), !.mode = "Text"]
      ELSE IF finished THEN [p EXCEPT !.pending = <<>>] ELSE p

Tool(p, finished) ==
  LET end == Find(CLOSE_TOOL, p.pending)
  IN  IF end > 0
      THEN [p EXCEPT !.pending = From(@, end + Len(CLOSE_TOOL)), !.mode = "Text"]
      ELSE IF finished THEN [p EXCEPT !.pending = <<>>] ELSE p

Turn(p, finished) ==
  CASE p.mode = "Reasoning" -> Reasoning(p, finished)
    [] p.mode = "Text"      -> Text(p, finished)
    [] p.mode = "Tool"      -> Tool(p, finished)

\* Turns after which the loop is over: each of them takes letters, and with
\* them perhaps sets the newlines to trim, or resets one of the two fields.
TurnsOf(p) == 2 * Len(p.pending) + 3

\* The loop of drain: it ends with the turn that changes nothing.
Loop(p, finished) ==
  LET turn[n \in 0 .. TurnsOf(p)] ==
        IF n = 0 THEN p ELSE Turn(turn[n - 1], finished)
  IN  turn[TurnsOf(p)]

push_raw(p, raw) == Loop([p EXCEPT !.pending = @ \o raw, !.deltas = <<>>], FALSE)

finish(p) == Loop([p EXCEPT !.deltas = <<>>], TRUE)

=============================================================================
