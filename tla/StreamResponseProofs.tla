------------------------ MODULE StreamResponseProofs ------------------------
(***************************************************************************)
(* Proofs about StreamResponse, for every set of answers the model may     *)
(* give and every length of the pieces they arrive in: the events a client *)
(* receives are framed as its protocol asks, a failure is told from an     *)
(* answer, nothing is held back that could not become a marker, how the    *)
(* answer was cut into pieces makes no difference, and an answer in the    *)
(* model's protocol is what parse_model_output makes of it.                *)
(*                                                                         *)
(* The parser is followed turn by turn.  Its loop is a recursive function  *)
(* of as many turns as it can need at most; that it is over by then is     *)
(* shown with a weight that every turn but the last makes smaller.  That   *)
(* pieces make no difference is shown of one turn: taken before more of    *)
(* the text has come, it leaves the parser where a turn of the longer text *)
(* leads, or one turn short of that.                                       *)
(*                                                                         *)
(* What the two parsers agree on is shown of one turn too: beside what it  *)
(* has said, a parser is still to say what parse_model_output would make   *)
(* of the text it holds, and no turn changes the two taken together.       *)
(***************************************************************************)
EXTENDS StreamResponse, SequenceLemmas

-----------------------------------------------------------------------------
(* Texts and the markers in them.                                          *)

Markup == {"<", "think>", "/think>", "tool_call>", "/tool_call>", Newline}

Spoken == UNION {Range(answer) : answer \in Answers}

(* What texts are made of. *)
Letter == Spoken \cup Markup

Texts == Seq(Letter)

(* The letters of the markers. *)
LEMMA Letters ==
  /\ "<" \in Letter /\ "think>" \in Letter /\ "/think>" \in Letter
  /\ "tool_call>" \in Letter /\ "/tool_call>" \in Letter /\ Newline \in Letter
<1>1. Markup \subseteq Letter
  BY DEF Letter
<1> QED
  BY <1>1 DEF Markup

LEMMA PairSeq ==
  ASSUME NEW S, NEW x \in S, NEW y \in S
  PROVE  <<x, y>> \in Seq(S) /\ Len(<<x, y>>) = 2
OBVIOUS

LEMMA Markers ==
  /\ BARE_THINK \in Texts /\ Len(BARE_THINK) = 2
  /\ OPEN_THINK \in Texts /\ Len(OPEN_THINK) = 3
  /\ CLOSE_THINK \in Texts /\ Len(CLOSE_THINK) = 2
  /\ OPEN_TOOL \in Texts /\ Len(OPEN_TOOL) = 2
  /\ CLOSE_TOOL \in Texts /\ Len(CLOSE_TOOL) = 2
<1>1. BARE_THINK \in Texts /\ Len(BARE_THINK) = 2
  BY Zenon, Letters, PairSeq DEF Texts, BARE_THINK
<1>2. <<Newline>> \in Texts /\ Len(<<Newline>>) = 1
  BY Zenon, Letters, SingletonSeq DEF Texts
<1>3. OPEN_THINK \in Texts /\ Len(OPEN_THINK) = 3
  <2> DEFINE nl == <<Newline>>
  <2>1. nl \in Seq(Letter) /\ Len(nl) = 1 /\ BARE_THINK \in Seq(Letter) /\ Len(BARE_THINK) = 2
    BY <1>1, <1>2 DEF Texts
  <2> HIDE DEF nl
  <2>2. BARE_THINK \o nl \in Seq(Letter) /\ Len(BARE_THINK \o nl) = Len(BARE_THINK) + Len(nl)
    BY <2>1, ConcatProperties
  <2> QED BY <2>1, <2>2 DEF OPEN_THINK, Texts, nl
<1>4. CLOSE_THINK \in Texts /\ Len(CLOSE_THINK) = 2
  BY Zenon, Letters, PairSeq DEF Texts, CLOSE_THINK
<1>5. OPEN_TOOL \in Texts /\ Len(OPEN_TOOL) = 2
  BY Zenon, Letters, PairSeq DEF Texts, OPEN_TOOL
<1>6. CLOSE_TOOL \in Texts /\ Len(CLOSE_TOOL) = 2
  BY Zenon, Letters, PairSeq DEF Texts, CLOSE_TOOL
<1> QED
  BY <1>1, <1>3, <1>4, <1>5, <1>6

(* The rest of a text. *)
LEMMA FromTyped ==
  ASSUME NEW t \in Texts, NEW i \in Nat, 1 <= i, i <= Len(t) + 1
  PROVE  /\ From(t, i) \in Texts
         /\ Len(From(t, i)) = Len(t) - i + 1
         /\ \A j \in 1 .. Len(t) - i + 1 : From(t, i)[j] = t[i + j - 1]
<1>1. i \in 1 .. Len(t) + 1
  BY DEF Texts
<1> QED
  BY <1>1, BehindOf DEF From, Texts

(* Answers of the model are texts. *)
LEMMA AnswersAreTexts ==
  Answers \subseteq Texts
<1> SUFFICES ASSUME NEW a \in Answers PROVE a \in Texts
  OBVIOUS
<1>1. a \in Seq(Range(a))
  BY StreamAssumption
<1>2. Range(a) \subseteq Letter
  BY DEF Letter, Spoken
<1> QED
  BY <1>1, <1>2 DEF Texts

(* A part of a text. *)
LEMMA PartTyped ==
  ASSUME NEW t \in Texts, NEW i \in Nat, NEW j \in Int, 1 <= i, j <= Len(t)
  PROVE  SubSeq(t, i, j) \in Texts
<1>1. \A k \in i .. j : t[k] \in Letter
  BY ElementOfSeq DEF Texts
<1> QED
  BY <1>1, SubSeqProperties DEF Texts

(* Where a marker is found, the whole of it is in the text. *)
LEMMA Found ==
  ASSUME NEW t \in Texts, NEW marker \in Texts, Len(marker) > 0
  PROVE  /\ Find(marker, t) \in 0 .. Len(t)
         /\ Find(marker, t) > 0 => /\ Find(marker, t) \in Occurrences(marker, t)
                                      /\ Find(marker, t) + Len(marker) - 1 <= Len(t)
         /\ Find(marker, t) = 0 <=> Occurrences(marker, t) = {}
<1>1. Occurrences(marker, t) \in SUBSET (1 .. Len(t))
  BY DEF Occurrences, Texts
<1>2. ASSUME Occurrences(marker, t) # {}
      PROVE  Find(marker, t) \in Occurrences(marker, t)
  <2>1. Occurrences(marker, t) \in SUBSET Nat
    BY <1>1
  <2> QED
    BY <1>2, <2>1, MinOfNaturals DEF Find
<1>3. ASSUME NEW i \in Occurrences(marker, t)
      PROVE  i \in 1 .. Len(t) /\ i + Len(marker) - 1 <= Len(t)
  <2>1. i \in 1 .. Len(t) /\ IsPrefix(marker, From(t, i))
    BY DEF Occurrences, Texts
  <2>2. Len(t) \in Nat /\ Len(marker) \in Nat
    BY DEF Texts
  <2>3. i \in Nat /\ 1 <= i /\ i <= Len(t) + 1
    BY <2>1, <2>2
  <2>4. Len(From(t, i)) = Len(t) - i + 1
    BY <2>3, FromTyped
  <2> QED
    BY <2>1, <2>2, <2>4 DEF IsPrefix
<1>4. Find(marker, t) = 0 <=> Occurrences(marker, t) = {}
  BY <1>2, <1>3 DEF Find
<1> QED
  BY <1>2, <1>3, <1>4 DEF Find, Texts

(* strip_prefix *)
LEMMA Stripped ==
  ASSUME NEW t \in Texts, NEW prefix \in Texts
  PROVE  Strip(prefix, t) \in Texts
<1>1. CASE IsPrefix(prefix, t)
  <2>1. Len(prefix) <= Len(t) /\ Len(prefix) \in Nat /\ Len(t) \in Nat
    BY <1>1 DEF IsPrefix, Texts
  <2> QED
    BY <1>1, <2>1, FromTyped DEF Strip
<1>2. CASE ~IsPrefix(prefix, t)
  BY <1>2 DEF Strip
<1> QED
  BY <1>1, <1>2

(* trim *)
LEMMA TrimTyped ==
  ASSUME NEW t \in Texts
  PROVE  Trim(t) \in Texts
<1> DEFINE solid == {i \in DOMAIN t : t[i] # Newline}
<1>1. CASE solid = {}
  BY <1>1 DEF Trim, Texts
<1>2. CASE solid # {}
  <2>1. solid \in SUBSET Nat /\ Len(t) \in Nat /\ \A i \in solid : i <= Len(t) /\ 1 <= i
    BY DEF Texts
  <2>2. Min(solid) \in solid
    <3> HIDE DEF solid
    <3> QED BY <1>2, <2>1, MinOfNaturals
  <2>3. Max(solid) \in solid
    <3> HIDE DEF solid
    <3> QED BY <1>2, <2>1, MaxOfNaturals
  <2>4. Trim(t) = SubSeq(t, Min(solid), Max(solid))
    BY <1>2 DEF Trim
  <2>5. Min(solid) \in Nat /\ Max(solid) \in Int /\ 1 <= Min(solid) /\ Max(solid) <= Len(t)
    <3> HIDE DEF solid
    <3> PICK lo, hi : lo = Min(solid) /\ hi = Max(solid) OBVIOUS
    <3>1. lo \in solid /\ hi \in solid BY <2>2, <2>3
    <3> QED BY <2>1, <3>1
  <2> HIDE DEF solid
  <2> QED BY <2>4, <2>5, PartTyped
<1> QED
  BY <1>1, <1>2

-----------------------------------------------------------------------------
(* parse_model_output: every part of an answer is a text, its calls a number. *)

Calls == [text : Texts, calls : Nat, remaining : Texts, left : BOOLEAN]

(* A turn of the loop of parse_tool_calls. *)
LEMMA NextCallTyped ==
  ASSUME NEW s \in Calls
  PROVE  NextCall(s) \in Calls
<1> DEFINE start == Find(OPEN_TOOL, s.remaining)
           behind == From(s.remaining, start + Len(OPEN_TOOL))
           size  == Find(CLOSE_TOOL, behind)
           body  == SubSeq(s.remaining, start + Len(OPEN_TOOL), start + Len(OPEN_TOOL) + size - 2)
           last  == start + Len(OPEN_TOOL) + size + Len(CLOSE_TOOL) - 2
<1>1. /\ s.text \in Texts /\ s.calls \in Nat /\ s.remaining \in Texts /\ s.left \in BOOLEAN
      /\ Len(s.remaining) \in Nat
  BY DEF Calls, Texts
<1>2. /\ start \in 0 .. Len(s.remaining)
      /\ start > 0 => start + 1 <= Len(s.remaining)
  <2>1. OPEN_TOOL \in Texts /\ Len(OPEN_TOOL) = 2 /\ Len(OPEN_TOOL) > 0
    BY Markers
  <2> HIDE DEF start
  <2>2. start = Find(OPEN_TOOL, s.remaining) BY DEF start
  <2>3. /\ Find(OPEN_TOOL, s.remaining) \in 0 .. Len(s.remaining)
        /\ Find(OPEN_TOOL, s.remaining) > 0 =>
             Find(OPEN_TOOL, s.remaining) + Len(OPEN_TOOL) - 1 <= Len(s.remaining)
    BY <1>1, <2>1, Found
  <2> QED BY <1>1, <2>1, <2>2, <2>3
<1>3. CASE s.left \/ start = 0
  BY <1>3 DEF NextCall
<1>4. CASE ~(s.left \/ start = 0)
  <2>1. start \in Nat /\ start > 0 /\ start + Len(OPEN_TOOL) = start + 2
    BY <1>2, <1>4, Markers
  <2>2. behind \in Texts /\ Len(behind) = Len(s.remaining) - start - 1
    BY <1>1, <1>2, <2>1, FromTyped
  <2>3. /\ size \in 0 .. Len(behind)
        /\ size > 0 => size + 1 <= Len(behind)
    <3> HIDE DEF behind
    <3>1. CLOSE_TOOL \in Texts /\ Len(CLOSE_TOOL) = 2 /\ Len(CLOSE_TOOL) > 0
      BY Markers
    <3>2. /\ Find(CLOSE_TOOL, behind) \in 0 .. Len(behind)
          /\ Find(CLOSE_TOOL, behind) > 0 =>
               Find(CLOSE_TOOL, behind) + Len(CLOSE_TOOL) - 1 <= Len(behind)
      BY <2>2, <3>1, Found
    <3>3. Len(behind) \in Nat BY <2>2 DEF Texts
    <3> HIDE DEF size
    <3>4. size = Find(CLOSE_TOOL, behind) BY DEF size
    <3> QED BY <3>1, <3>2, <3>3, <3>4
  <2>4. CASE size = 0
    <3>1. NextCall(s) = [s EXCEPT !.text = @ \o s.remaining, !.left = TRUE]
      BY <1>4, <2>4 DEF NextCall
    <3>2. s.text \o s.remaining \in Texts
      BY <1>1, ConcatProperties DEF Texts
    <3> QED
      BY <3>1, <3>2 DEF Calls
  <2>5. CASE size # 0
    <3>1. last \in Nat /\ last <= Len(s.remaining) /\ 1 <= last + 1 /\ last = start + size + 2
      <4> HIDE DEF behind, size, start
      <4> QED BY <1>1, <2>1, <2>2, <2>3, <2>5, Markers
    <3>2. From(s.remaining, last + 1) \in Texts
      <4> HIDE DEF last
      <4> QED BY <1>1, <3>1, FromTyped
    <3>3. /\ SubSeq(s.remaining, 1, start - 1) \in Texts
          /\ SubSeq(s.remaining, 1, last) \in Texts
      <4> HIDE DEF last, start
      <4>1. start - 1 <= Len(s.remaining) /\ start - 1 \in Int
        BY <1>1, <1>2, <2>1
      <4> QED BY <1>1, <3>1, <4>1, PartTyped
    <3>4. /\ s.text \o SubSeq(s.remaining, 1, start - 1) \in Texts
          /\ s.text \o SubSeq(s.remaining, 1, last) \in Texts
      <4> HIDE DEF last, start
      <4> QED BY <1>1, <3>3, ConcatProperties DEF Texts
    <3>5. NextCall(s) =
            IF WellFormed(body)
            THEN [s EXCEPT !.text = @ \o SubSeq(s.remaining, 1, start - 1), !.calls = @ + 1,
                           !.remaining = From(@, last + 1)]
            ELSE [s EXCEPT !.text = @ \o SubSeq(s.remaining, 1, last),
                           !.remaining = From(@, last + 1)]
      BY <1>4, <2>5 DEF NextCall
    <3> HIDE DEF last, start, body
    <3>6. s.calls + 1 \in Nat BY <1>1
    <3>7. CASE WellFormed(body)
      BY <1>1, <3>2, <3>4, <3>5, <3>6, <3>7 DEF Calls
    <3>8. CASE ~WellFormed(body)
      BY <1>1, <3>2, <3>4, <3>5, <3>8 DEF Calls
    <3> QED
      BY <3>7, <3>8
  <2> QED
    BY <2>4, <2>5
<1> QED
  BY <1>3, <1>4

(* All of its turns. *)
LEMMA ToolCallsTyped ==
  ASSUME NEW answer \in Texts
  PROVE  ToolCalls(answer).text \in Texts /\ ToolCalls(answer).calls \in Nat
<1> DEFINE N == Len(answer)
           x == [text |-> <<>>, calls |-> 0, remaining |-> answer, left |-> FALSE]
           step == [n \in 1 .. N |-> [s \in Calls |-> NextCall(s)]]
           IsTurn(f) == f = [n \in 0 .. N |-> IF n = 0 THEN x ELSE NextCall(f[n - 1])]
           turn == CHOOSE f : IsTurn(f)
<1>1. N \in Nat /\ x \in Calls
  BY DEF Texts, Calls
<1>2. step \in [1 .. N -> [Calls -> Calls]]
  BY NextCallTyped
<1>3. PICK f \in [0 .. N -> Calls] : Iterates(f, x, step, N)
  <2> HIDE DEF N, x, step
  <2> QED BY <1>1, <1>2, IterationExists
<1>4. IsTurn(f)
  <2>1. ASSUME NEW n \in 0 .. N PROVE f[n] = IF n = 0 THEN x ELSE NextCall(f[n - 1])
    <3>1. CASE n = 0
      BY <1>3, <3>1 DEF Iterates
    <3>2. CASE n # 0
      <4>1. n \in 1 .. N /\ n - 1 \in 0 .. N
        BY <1>1, <3>2
      <4>2. f[n] = step[n][f[n - 1]] /\ f[n - 1] \in Calls
        BY <1>3, <4>1 DEF Iterates
      <4> QED BY <4>1, <4>2, <3>2
    <3> QED BY <3>1, <3>2
  <2> HIDE DEF N, x, step
  <2> QED BY <2>1, <1>3
<1>5. IsTurn(turn)
  <2> HIDE DEF IsTurn
  <2> QED BY <1>4
<1>6. turn = [n \in 0 .. N |-> IF n = 0 THEN x ELSE NextCall(turn[n - 1])]
  <2> HIDE DEF turn
  <2> QED BY <1>5
<1>7. turn[N] \in Calls
  <2> HIDE DEF turn, x, N
  <2> DEFINE P == {n \in 0 .. N : turn[n] \in Calls}
  <2>1. 0 \in 0 .. N /\ turn[0] = x
    BY <1>1, <1>6
  <2>2. 0 \in P
    BY <1>1, <2>1
  <2>3. ASSUME NEW n \in 1 .. N, n - 1 \in P PROVE n \in P
    <3>1. n \in 0 .. N /\ n # 0 BY <1>1
    <3>2. turn[n] = NextCall(turn[n - 1])
      BY <1>6, <3>1
    <3> QED BY <2>3, <3>1, <3>2, NextCallTyped
  <2>4. \A n \in 0 .. N : n \in P
    <3> HIDE DEF P
    <3> QED BY <1>1, <2>2, <2>3, UpTo
  <2>5. N \in 0 .. N BY <1>1
  <2> QED BY <2>4, <2>5
<1>8. ToolCalls(answer) = [text |-> turn[N].text \o turn[N].remaining, calls |-> turn[N].calls]
  BY DEF ToolCalls
<1> HIDE DEF turn, N
<1>9. turn[N].text \in Texts /\ turn[N].remaining \in Texts /\ turn[N].calls \in Nat
  BY <1>7 DEF Calls
<1> QED
  BY <1>8, <1>9, ConcatProperties DEF Texts

(* The answer a client gets without streaming. *)
LEMMA GenerationTyped ==
  ASSUME NEW r \in Texts, NEW th \in BOOLEAN, NEW to \in BOOLEAN
  PROVE  /\ parse_model_output(r, th, to).reasoning \in Texts
         /\ parse_model_output(r, th, to).text \in Texts
         /\ parse_model_output(r, th, to).calls \in Nat
<1> DEFINE body == Strip(BARE_THINK, Strip(OPEN_THINK, r))
           at == Find(CLOSE_THINK, body)
           after == From(body, at + Len(CLOSE_THINK))
           parts == IF th THEN split_reasoning(r) ELSE [reasoning |-> <<>>, answer |-> r]
<1>1. body \in Texts /\ Len(body) \in Nat
  <2>1. Strip(OPEN_THINK, r) \in Texts
    BY Markers, Stripped
  <2>2. body \in Texts
    BY <2>1, Markers, Stripped
  <2> QED BY <2>2 DEF Texts
<1>2. split_reasoning(r) =
        IF at = 0 THEN [reasoning |-> Trim(body), answer |-> <<>>]
        ELSE [reasoning |-> Trim(SubSeq(body, 1, at - 1)),
              answer |-> Strip(<<Newline>>, Strip(<<Newline>>, after))]
  BY DEF split_reasoning
<1> HIDE DEF body
<1>3. at \in 0 .. Len(body) /\ (at > 0 => at + 1 <= Len(body))
  <2>1. CLOSE_THINK \in Texts /\ Len(CLOSE_THINK) = 2 /\ Len(CLOSE_THINK) > 0
    BY Markers
  <2>2. /\ Find(CLOSE_THINK, body) \in 0 .. Len(body)
        /\ Find(CLOSE_THINK, body) > 0 =>
             Find(CLOSE_THINK, body) + Len(CLOSE_THINK) - 1 <= Len(body)
    BY <1>1, <2>1, Found
  <2> PICK a : a = at OBVIOUS
  <2> QED BY <1>1, <2>1, <2>2
<1> HIDE DEF at
<1>4. parts.reasoning \in Texts /\ parts.answer \in Texts
  <2>1. CASE ~th
    BY <2>1 DEF Texts
  <2>2. CASE th /\ at = 0
    <3>1. Trim(body) \in Texts BY <1>1, TrimTyped
    <3> QED BY <1>2, <2>2, <3>1 DEF Texts
  <2>3. CASE th /\ at # 0
    <3>1. SubSeq(body, 1, at - 1) \in Texts
      <4> PICK j : j = at - 1 OBVIOUS
      <4>1. j \in Int /\ j <= Len(body) BY <1>1, <1>3
      <4>2. SubSeq(body, 1, j) \in Texts BY <1>1, <4>1, PartTyped
      <4> QED BY <4>2
    <3>2. Trim(SubSeq(body, 1, at - 1)) \in Texts
      BY <3>1, TrimTyped
    <3>3. after \in Texts
      <4> PICK i : i = at + Len(CLOSE_THINK) OBVIOUS
      <4>1. i \in Nat /\ 1 <= i /\ i <= Len(body) + 1
        BY <1>1, <1>3, <2>3, Markers
      <4>2. From(body, i) \in Texts BY <1>1, <4>1, FromTyped
      <4> QED BY <4>2
    <3>4. <<Newline>> \in Texts
      BY Letters, SingletonSeq DEF Texts
    <3> HIDE DEF after
    <3> DEFINE nl == <<Newline>>
    <3> HIDE DEF nl
    <3>5. Strip(nl, after) \in Texts
      BY <3>3, <3>4, Stripped DEF nl
    <3>6. Strip(nl, Strip(nl, after)) \in Texts
      BY <3>4, <3>5, Stripped DEF nl
    <3> QED BY <1>2, <2>3, <3>2, <3>6 DEF nl
  <2> QED BY <2>1, <2>2, <2>3
<1> HIDE DEF parts
<1>5. /\ parse_tool_calls(parts.answer, to).text \in Texts
      /\ parse_tool_calls(parts.answer, to).calls \in Nat
  <2>1. CASE to
    <3>1. ToolCalls(parts.answer).text \in Texts /\ ToolCalls(parts.answer).calls \in Nat
      BY <1>4, ToolCallsTyped
    <3>2. Trim(ToolCalls(parts.answer).text) \in Texts
      BY <3>1, TrimTyped
    <3> QED BY <2>1, <3>1, <3>2 DEF parse_tool_calls
  <2>2. CASE ~to
    BY <1>4, <2>2 DEF parse_tool_calls
  <2> QED BY <2>1, <2>2
<1>6. parse_model_output(r, th, to) =
        [reasoning |-> parts.reasoning,
         text |-> parse_tool_calls(parts.answer, to).text,
         calls |-> parse_tool_calls(parts.answer, to).calls]
  BY DEF parse_model_output, parts
<1> QED
  BY <1>4, <1>5, <1>6

-----------------------------------------------------------------------------
(* StreamingOutputParser.                                                  *)

Kinds == {"Reasoning", "Text"}

DeltaSet == [kind : Kinds, text : Texts]

Parsers == [mode : {"Reasoning", "Text", "Tool"}, tools : BOOLEAN, pending : Texts,
            initial_reasoning : BOOLEAN, trim_answer_newlines : Nat, deltas : Seq(DeltaSet)]

LEMMA ParserFields ==
  ASSUME NEW p \in Parsers
  PROVE  /\ p.mode \in {"Reasoning", "Text", "Tool"} /\ p.tools \in BOOLEAN
         /\ p.pending \in Texts /\ Len(p.pending) \in Nat
         /\ p.initial_reasoning \in BOOLEAN /\ p.trim_answer_newlines \in Nat
         /\ p.deltas \in Seq(DeltaSet)
BY DEF Parsers, Texts

(* Text is emitted: it is gone from what is pending. *)
LEMMA EmitTyped ==
  ASSUME NEW p \in Parsers, NEW kind \in Kinds, NEW count \in 0 .. Len(p.pending)
  PROVE  /\ Emit(p, kind, count) \in Parsers
         /\ Emit(p, kind, count).mode = p.mode /\ Emit(p, kind, count).tools = p.tools
         /\ Len(Emit(p, kind, count).pending) = Len(p.pending) - count
         /\ Emit(p, kind, count).initial_reasoning = p.initial_reasoning
         /\ Emit(p, kind, count).trim_answer_newlines = p.trim_answer_newlines
         /\ Emit(p, kind, count) = p => count = 0
<1>0. count \in Nat /\ p.pending \in Texts /\ p.deltas \in Seq(DeltaSet) /\ Len(p.pending) \in Nat
  BY ParserFields
<1>1. CASE count = 0
  BY <1>0, <1>1 DEF Emit
<1>2. CASE count # 0
  <2> DEFINE rest == From(p.pending, count + 1)
             part == SubSeq(p.pending, 1, count)
             d == [kind |-> kind, text |-> part]
             more == Append(p.deltas, d)
             q == [p EXCEPT !.pending = rest, !.deltas = more]
  <2>1. rest \in Texts /\ Len(rest) = Len(p.pending) - count
    <3> PICK t, i : t = p.pending /\ i = count + 1 OBVIOUS
    <3>1. t \in Texts /\ i \in Nat /\ 1 <= i /\ i <= Len(t) + 1
      BY <1>0
    <3>2. From(t, i) \in Texts /\ Len(From(t, i)) = Len(t) - i + 1
      BY <3>1, FromTyped
    <3> QED BY <1>0, <3>2
  <2>2. d \in DeltaSet
    <3>1. part \in Texts
      BY <1>0, PartTyped
    <3> HIDE DEF part
    <3> QED BY <3>1 DEF DeltaSet
  <2>3. more \in Seq(DeltaSet)
    <3> HIDE DEF d
    <3> QED BY <1>0, <2>2, AppendProperties
  <2>4. Emit(p, kind, count) = q
    BY <1>2 DEF Emit
  <2> HIDE DEF rest, more
  <2>5. q \in Parsers
    BY <2>1, <2>3 DEF Parsers
  <2>6. q.pending = rest /\ q.mode = p.mode /\ q.tools = p.tools
        /\ q.initial_reasoning = p.initial_reasoning
        /\ q.trim_answer_newlines = p.trim_answer_newlines
    BY DEF Parsers
  <2> HIDE DEF q
  <2> QED
    BY <1>0, <1>2, <2>1, <2>4, <2>5, <2>6
<1> QED
  BY <1>1, <1>2

(* What may still become a marker is a beginning of it, and at most all of  *)
(* the text.                                                              *)
LEMMA SuffixLength ==
  ASSUME NEW t \in Texts, NEW marker \in Texts, Len(marker) > 0
  PROVE  /\ marker_suffix_len(t, marker) \in 0 .. Len(t)
         /\ marker_suffix_len(t, marker) = Len(t) => IsStrictPrefix(t, marker)
<1> DEFINE ends == {n \in 1 .. Len(marker) - 1 : IsSuffix(SubSeq(marker, 1, n), t)}
           lengths == {0} \cup ends
<1>1. Len(t) \in Nat /\ Len(marker) \in Nat
  BY DEF Texts
<1>2. lengths \in SUBSET Nat /\ lengths # {} /\ \A n \in lengths : n <= Len(marker)
  BY <1>1
<1>3. Max(lengths) \in lengths
  <2> HIDE DEF lengths
  <2> QED BY <1>1, <1>2, MaxOfNaturals
<1>4. ASSUME NEW s \in Texts
      PROVE  /\ Reverse(s) \in Texts /\ Len(Reverse(s)) = Len(s)
             /\ \A i \in 1 .. Len(s) : Reverse(s)[i] = s[Len(s) - i + 1]
  <2>1. Len(s) \in Nat /\ \A i \in 1 .. Len(s) : s[i] \in Letter
    BY ElementOfSeq DEF Texts
  <2>2. \A i \in 1 .. Len(s) : (Len(s) - i) + 1 \in 1 .. Len(s)
    BY <2>1
  <2>3. Reverse(s) = [i \in 1 .. Len(s) |-> s[(Len(s) - i) + 1]]
    BY DEF Reverse
  <2>4. Reverse(s) \in [1 .. Len(s) -> Letter]
    BY <2>1, <2>2, <2>3
  <2> QED BY <2>1, <2>3, <2>4 DEF Texts
<1>5. ASSUME NEW n \in ends
      PROVE  /\ n <= Len(t)
             /\ n = Len(t) => t = SubSeq(marker, 1, n)
  <2> DEFINE part == SubSeq(marker, 1, n)
  <2>1. n \in 1 .. Len(marker) - 1 /\ IsSuffix(part, t) /\ n \in 0 .. Len(marker)
    BY <1>1
  <2>2. part \in Texts /\ Len(part) = n
    BY <2>1, BeginningOf DEF Texts
  <2> HIDE DEF part
  <2>3. IsPrefix(Reverse(part), Reverse(t))
    BY <2>1 DEF IsSuffix
  <2>4. /\ Reverse(part) \in Seq(Letter) /\ Reverse(t) \in Seq(Letter)
        /\ Len(Reverse(part)) = n /\ Len(Reverse(t)) = Len(t)
    BY <1>4, <2>2 DEF Texts
  <2>5. n <= Len(t) /\ \A i \in 1 .. n : Reverse(part)[i] = Reverse(t)[i]
    BY <2>3, <2>4, PrefixRows
  <2>6. ASSUME n = Len(t) PROVE t = part
    <3>1. ASSUME NEW i \in 1 .. n PROVE t[i] = part[i]
      <4> PICK j : j = n - i + 1 OBVIOUS
      <4>1. j \in 1 .. n /\ n - j + 1 = i
        BY <2>1
      <4>2. Reverse(part)[j] = Reverse(t)[j]
        BY <2>5, <4>1
      <4>3. Reverse(part)[j] = part[n - j + 1]
        BY <1>4, <2>2, <4>1
      <4>4. Reverse(t)[j] = t[n - j + 1]
        BY <1>4, <2>6, <4>1
      <4> QED BY <4>1, <4>2, <4>3, <4>4
    <3> QED BY <2>2, <2>6, <3>1, SeqEqual DEF Texts
  <2> QED BY <2>5, <2>6 DEF part
<1>6. marker_suffix_len(t, marker) = Max(lengths)
  BY DEF marker_suffix_len
<1>7. Max(lengths) \in 0 .. Len(t)
  <2> HIDE DEF ends
  <2> PICK m : m = Max(lengths) OBVIOUS
  <2>1. m = 0 \/ m \in ends
    BY <1>3
  <2>2. m \in Nat BY <1>2, <1>3
  <2> QED BY <1>1, <1>5, <2>1, <2>2
<1>8. ASSUME Max(lengths) = Len(t) PROVE IsStrictPrefix(t, marker)
  <2>1. CASE Len(t) = 0
    <3>1. t = <<>> BY <2>1 DEF Texts
    <3>2. IsPrefix(<<>>, marker) BY EmptyPrefix DEF Texts
    <3>3. t # marker BY <1>1, <2>1
    <3> QED BY <3>1, <3>2, <3>3 DEF IsStrictPrefix
  <2>2. CASE Len(t) # 0
    <3> PICK n : n = Len(t) OBVIOUS
    <3>1. n \in ends
      BY <1>3, <1>8, <2>2
    <3>2. t = SubSeq(marker, 1, n)
      <4> HIDE DEF ends
      <4> QED BY <1>5, <3>1
    <3>3. n \in 0 .. Len(marker) /\ n < Len(marker)
      BY <1>1, <3>1
    <3>4. /\ SubSeq(marker, 1, n) \in Seq(Letter) /\ Len(SubSeq(marker, 1, n)) = n
          /\ \A i \in 1 .. n : SubSeq(marker, 1, n)[i] = marker[i]
      BY <3>3, BeginningOf DEF Texts
    <3>5. IsPrefix(t, marker)
      <4>1. Len(t) <= Len(marker) /\ \A i \in 1 .. Len(t) : t[i] = marker[i]
        BY <3>2, <3>3, <3>4
      <4> QED BY <4>1, PrefixRows DEF Texts
    <3> QED BY <1>1, <3>3, <3>5 DEF IsStrictPrefix
  <2> QED BY <2>1, <2>2
<1> QED
  BY <1>6, <1>7, <1>8

(* Nothing but what may still become a marker is left in the parser. *)
Settled(p) ==
  CASE p.mode = "Text" -> IsStrictPrefix(p.pending, OPEN_TOOL)
    [] p.mode = "Reasoning" ->
         \/ p.initial_reasoning /\ IsStrictPrefix(p.pending, OPEN_THINK)
         \/ IsStrictPrefix(p.pending, CLOSE_THINK)
    [] p.mode = "Tool" -> Occurrences(CLOSE_TOOL, p.pending) = {}

(* What every turn of the loop that is not the last one makes smaller. *)
Weight(p) == 2 * Len(p.pending) + (IF p.trim_answer_newlines > 0 THEN 1 ELSE 0)
                                + (IF p.initial_reasoning THEN 1 ELSE 0)

(* A turn takes something away, or else the loop is over. *)
Advances(p, q) ==
  /\ q \in Parsers
  /\ q # p => Weight(q) < Weight(p)
  /\ q = p => Settled(p)

(* Nothing may still become any marker. *)
LEMMA EmptyIsStrictPrefix ==
  ASSUME NEW t \in Texts, Len(t) = 0, NEW marker \in Texts, Len(marker) > 0
  PROVE  IsStrictPrefix(t, marker)
<1>1. t = <<>>
  BY DEF Texts
<1>2. IsPrefix(<<>>, marker)
  BY EmptyPrefix DEF Texts
<1> QED
  BY <1>1, <1>2 DEF IsStrictPrefix

(* Either text is emitted, or all that is pending may become the marker. *)
LEMMA EmitBeforeAdvances ==
  ASSUME NEW p \in Parsers, NEW kind \in Kinds, NEW marker \in Texts, Len(marker) > 0,
         NEW finished \in BOOLEAN, NEW q, q = EmitBefore(p, kind, marker, finished)
  PROVE  /\ q \in Parsers
         /\ q.mode = p.mode /\ q.tools = p.tools
         /\ q.initial_reasoning = p.initial_reasoning
         /\ q.trim_answer_newlines = p.trim_answer_newlines
         /\ q # p => Len(q.pending) < Len(p.pending)
         /\ q = p /\ ~IsPrefix(marker, p.pending) => IsStrictPrefix(p.pending, marker)
<1> DEFINE at == Find(marker, p.pending)
           hold == IF finished THEN 0 ELSE marker_suffix_len(p.pending, marker)
           count == IF at > 0 THEN at - 1 ELSE Len(p.pending) - hold
<1>1. p.pending \in Texts /\ Len(p.pending) \in Nat
  BY ParserFields
<1>2. at \in 0 .. Len(p.pending) /\ (at > 0 => at \in Occurrences(marker, p.pending))
  BY <1>1, Found
<1>3. marker_suffix_len(p.pending, marker) \in 0 .. Len(p.pending)
  BY <1>1, SuffixLength
<1>3a. hold \in 0 .. Len(p.pending)
  BY <1>1, <1>3
<1>4. count \in 0 .. Len(p.pending)
  <2> HIDE DEF at, hold
  <2> QED BY <1>1, <1>2, <1>3a
<1>5. q = Emit(p, kind, count)
  BY DEF EmitBefore
<1>6. /\ q \in Parsers
      /\ q.mode = p.mode /\ q.tools = p.tools
      /\ Len(q.pending) = Len(p.pending) - count
      /\ q.initial_reasoning = p.initial_reasoning
      /\ q.trim_answer_newlines = p.trim_answer_newlines
      /\ q = p => count = 0
  <2> HIDE DEF count
  <2> DEFINE e == Emit(p, kind, count)
  <2>1. /\ e \in Parsers
        /\ e.mode = p.mode /\ e.tools = p.tools
        /\ Len(e.pending) = Len(p.pending) - count
        /\ e.initial_reasoning = p.initial_reasoning
        /\ e.trim_answer_newlines = p.trim_answer_newlines
        /\ e = p => count = 0
    BY <1>4, EmitTyped
  <2>2. q = e
    BY <1>5
  <2> HIDE DEF e
  <2> QED BY <2>1, <2>2
<1>7. ASSUME q # p PROVE Len(q.pending) < Len(p.pending)
  <2> HIDE DEF count
  <2>1. count # 0 BY <1>5, <1>7 DEF Emit
  <2> QED BY <1>1, <1>4, <1>6, <2>1
<1>8. ASSUME q = p, ~IsPrefix(marker, p.pending) PROVE IsStrictPrefix(p.pending, marker)
  <2>1. count = 0 BY <1>6, <1>8
  <2>2. CASE at > 0
    <3>1. at = 1
      <4> HIDE DEF at, hold
      <4> QED BY <2>1, <2>2, <1>2, <1>1
    <3>2. IsPrefix(marker, From(p.pending, 1))
      <4> HIDE DEF at
      <4> QED BY <3>1, <1>2 DEF Occurrences
    <3>3. From(p.pending, 1) = p.pending
      BY <1>1, SubSeqFull DEF From, Texts
    <3> QED BY <1>8, <3>2, <3>3
  <2>3. CASE ~(at > 0)
    <3>1. Len(p.pending) = hold
      <4> HIDE DEF at, hold
      <4> QED BY <1>1, <1>3a, <2>1, <2>3
    <3>2. CASE finished
      <4>1. Len(p.pending) = 0 BY <3>1, <3>2
      <4> QED BY <1>1, <4>1, EmptyIsStrictPrefix
    <3>3. CASE ~finished
      BY <3>1, <3>3, <1>1, SuffixLength
    <3> QED BY <3>2, <3>3
  <2> QED BY <2>2, <2>3
<1> QED
  BY <1>6, <1>7, <1>8

(* Newlines are trimmed, or there is nothing to trim. *)
LEMMA TrimmedTyped ==
  ASSUME NEW p \in Parsers, NEW q, q = Trimmed(p)
  PROVE  /\ q \in Parsers
         /\ q.mode = p.mode /\ q.tools = p.tools
         /\ q.initial_reasoning = p.initial_reasoning
         /\ q.trim_answer_newlines <= p.trim_answer_newlines
         /\ q # p => Len(q.pending) < Len(p.pending)
<1> DEFINE most == Min({p.trim_answer_newlines, Len(p.pending)})
           counts == {n \in 0 .. most : \A i \in 1 .. n : p.pending[i] = Newline}
           count == Max(counts)
<1>1. p.pending \in Texts /\ Len(p.pending) \in Nat /\ p.trim_answer_newlines \in Nat
  BY ParserFields
<1>2. most \in Nat /\ most <= Len(p.pending) /\ most <= p.trim_answer_newlines
  <2> PICK a, b : a = p.trim_answer_newlines /\ b = Len(p.pending) OBVIOUS
  <2>1. Min({a, b}) = IF a <= b THEN a ELSE b
    BY <1>1, MinOfTwo
  <2> QED BY <1>1, <2>1
<1>3. count \in 0 .. most
  <2> HIDE DEF most
  <2>1. counts \in SUBSET Nat /\ 0 \in counts /\ \A n \in counts : n <= most
    BY <1>2
  <2>2. Max(counts) \in counts
    <3> HIDE DEF counts
    <3> QED BY <1>2, <2>1, MaxOfNaturals
  <2> QED BY <2>2
<1>4. q = [p EXCEPT !.pending = From(p.pending, count + 1),
                    !.trim_answer_newlines = p.trim_answer_newlines - count]
  BY DEF Trimmed
<1> HIDE DEF count, most
<1> DEFINE rest == From(p.pending, count + 1)
           trim == p.trim_answer_newlines - count
<1>5. rest \in Texts /\ Len(rest) = Len(p.pending) - count
  <2> PICK t, i : t = p.pending /\ i = count + 1 OBVIOUS
  <2>1. t \in Texts /\ i \in Nat /\ 1 <= i /\ i <= Len(t) + 1
    BY <1>1, <1>2, <1>3
  <2>2. From(t, i) \in Texts /\ Len(From(t, i)) = Len(t) - i + 1
    BY <2>1, FromTyped
  <2> QED BY <1>1, <1>3, <2>2
<1>6. trim \in Nat /\ trim <= p.trim_answer_newlines
  BY <1>1, <1>2, <1>3
<1>7. count = 0 => rest = p.pending /\ trim = p.trim_answer_newlines
  BY <1>1, SubSeqFull DEF From, Texts
<1> HIDE DEF rest, trim
<1>8. q = [p EXCEPT !.pending = rest, !.trim_answer_newlines = trim]
  BY <1>4 DEF rest, trim
<1>9. /\ q \in Parsers /\ q.mode = p.mode /\ q.tools = p.tools
      /\ q.initial_reasoning = p.initial_reasoning /\ q.pending = rest
      /\ q.trim_answer_newlines = trim
  BY <1>5, <1>6, <1>8 DEF Parsers
<1>10. ASSUME q # p PROVE count # 0
  <2> SUFFICES ASSUME count = 0 PROVE q = p
    BY <1>10
  <2>1. rest = p.pending /\ trim = p.trim_answer_newlines BY <1>7
  <2> QED BY <2>1, <1>8 DEF Parsers
<1> QED
  BY <1>1, <1>2, <1>3, <1>5, <1>6, <1>9, <1>10

LEMMA WeightOf ==
  ASSUME NEW p \in Parsers
  PROVE  \E a, b \in {0, 1} :
           /\ Weight(p) = 2 * Len(p.pending) + a + b
           /\ a = 1 <=> p.trim_answer_newlines > 0
           /\ b = 1 <=> p.initial_reasoning
<1> DEFINE a == IF p.trim_answer_newlines > 0 THEN 1 ELSE 0
           b == IF p.initial_reasoning THEN 1 ELSE 0
<1>1. Weight(p) = 2 * Len(p.pending) + a + b
  BY DEF Weight
<1>2. a \in {0, 1} /\ b \in {0, 1} /\ (a = 1 <=> p.trim_answer_newlines > 0)
      /\ (b = 1 <=> p.initial_reasoning)
  OBVIOUS
<1> HIDE DEF a, b
<1> QED
  BY <1>1, <1>2

LEMMA WeightBounded ==
  ASSUME NEW p \in Parsers
  PROVE  Weight(p) \in Nat /\ Weight(p) <= 2 * Len(p.pending) + 2
BY WeightOf, ParserFields

LEMMA Lighter ==
  ASSUME NEW p \in Parsers, NEW q \in Parsers,
         \/ Len(q.pending) < Len(p.pending) /\ (q.initial_reasoning => p.initial_reasoning)
         \/ /\ Len(q.pending) = Len(p.pending)
            /\ q.trim_answer_newlines = p.trim_answer_newlines
            /\ p.initial_reasoning /\ ~q.initial_reasoning
         \/ /\ Len(q.pending) = Len(p.pending)
            /\ q.initial_reasoning = p.initial_reasoning
            /\ p.trim_answer_newlines > 0 /\ q.trim_answer_newlines = 0
  PROVE  Weight(q) < Weight(p)
<1>1. PICK a, b \in {0, 1} :
           /\ Weight(p) = 2 * Len(p.pending) + a + b
           /\ a = 1 <=> p.trim_answer_newlines > 0
           /\ b = 1 <=> p.initial_reasoning
  BY WeightOf
<1>2. PICK c, d \in {0, 1} :
           /\ Weight(q) = 2 * Len(q.pending) + c + d
           /\ c = 1 <=> q.trim_answer_newlines > 0
           /\ d = 1 <=> q.initial_reasoning
  BY WeightOf
<1>3. /\ Len(p.pending) \in Nat /\ Len(q.pending) \in Nat
      /\ q.trim_answer_newlines \in Nat
  BY ParserFields
<1>4. CASE Len(q.pending) < Len(p.pending) /\ (q.initial_reasoning => p.initial_reasoning)
  <2>1. d = 1 => b = 1
    BY <1>1, <1>2, <1>4
  <2>2. d <= b
    BY <2>1
  <2> QED BY <1>1, <1>2, <1>3, <1>4, <2>2
<1>5. CASE /\ Len(q.pending) = Len(p.pending)
           /\ q.trim_answer_newlines = p.trim_answer_newlines
           /\ p.initial_reasoning /\ ~q.initial_reasoning
  <2>1. b = 1 /\ d = 0 /\ a = c
    BY <1>1, <1>2, <1>5
  <2> QED BY <1>1, <1>2, <1>3, <1>5, <2>1
<1>6. CASE /\ Len(q.pending) = Len(p.pending)
           /\ q.initial_reasoning = p.initial_reasoning
           /\ p.trim_answer_newlines > 0 /\ q.trim_answer_newlines = 0
  <2>1. a = 1 /\ c = 0 /\ b = d
    BY <1>1, <1>2, <1>6
  <2> QED BY <1>1, <1>2, <1>3, <1>6, <2>1
<1> QED
  BY <1>4, <1>5, <1>6

(* What a marker takes off the front of the pending text. *)
LEMMA MarkerTaken ==
  ASSUME NEW t \in Texts, NEW marker \in Texts, IsPrefix(marker, t)
  PROVE  /\ From(t, Len(marker) + 1) \in Texts
         /\ Len(From(t, Len(marker) + 1)) = Len(t) - Len(marker)
         /\ Len(marker) <= Len(t)
<1>1. Len(marker) \in Nat /\ Len(t) \in Nat /\ Len(marker) <= Len(t)
  BY DEF IsPrefix, Texts
<1> PICK i : i = Len(marker) + 1 OBVIOUS
<1>2. i \in Nat /\ 1 <= i /\ i <= Len(t) + 1
  BY <1>1
<1>3. From(t, i) \in Texts /\ Len(From(t, i)) = Len(t) - i + 1
  BY <1>2, FromTyped
<1> QED
  BY <1>1, <1>3

(* The three modes of the parser. *)
LEMMA ReasoningAdvances ==
  ASSUME NEW p \in Parsers, p.mode = "Reasoning", NEW finished \in BOOLEAN
  PROVE  Advances(p, Reasoning(p, finished))
<1> DEFINE q == Reasoning(p, finished)
<1>0. /\ p.pending \in Texts /\ Len(p.pending) \in Nat /\ p.initial_reasoning \in BOOLEAN
      /\ p.trim_answer_newlines \in Nat
  BY ParserFields
<1>1. CASE p.initial_reasoning /\ IsPrefix(OPEN_THINK, p.pending)
  <2> DEFINE rest == From(p.pending, Len(OPEN_THINK) + 1)
  <2>1. rest \in Texts /\ Len(rest) = Len(p.pending) - 3
    <3>1. OPEN_THINK \in Texts /\ Len(OPEN_THINK) = 3
      BY Markers
    <3>2. rest \in Texts /\ Len(rest) = Len(p.pending) - Len(OPEN_THINK)
      BY Zenon, <1>0, <1>1, <3>1, MarkerTaken
    <3> QED BY <3>1, <3>2
  <2> HIDE DEF rest
  <2>2. q = [p EXCEPT !.pending = rest, !.initial_reasoning = FALSE]
    BY <1>1 DEF Reasoning, rest
  <2> HIDE DEF q
  <2>3. q \in Parsers /\ q.pending = rest /\ q.trim_answer_newlines = p.trim_answer_newlines
        /\ q.initial_reasoning = FALSE
    BY <2>1, <2>2 DEF Parsers
  <2>4. q # p
    BY <1>0, <2>1, <2>3
  <2>5. Weight(q) < Weight(p)
    BY <1>0, <1>1, <2>1, <2>3, Lighter
  <2> QED BY <2>3, <2>4, <2>5 DEF Advances, q
<1>2. CASE /\ ~(p.initial_reasoning /\ IsPrefix(OPEN_THINK, p.pending))
           /\ p.initial_reasoning /\ ~finished /\ IsPrefix(p.pending, OPEN_THINK)
  <2>1. q = p
    BY <1>2 DEF Reasoning
  <2>2. IsPrefix(OPEN_THINK, OPEN_THINK)
    BY Markers DEF IsPrefix, Texts
  <2>3. IsStrictPrefix(p.pending, OPEN_THINK)
    BY <1>2, <2>2 DEF IsStrictPrefix
  <2>4. Settled(p)
    BY <1>2, <2>3 DEF Settled
  <2> QED BY <2>1, <2>4 DEF Advances
<1>3. CASE /\ ~(p.initial_reasoning /\ IsPrefix(OPEN_THINK, p.pending))
           /\ ~(p.initial_reasoning /\ ~finished /\ IsPrefix(p.pending, OPEN_THINK))
           /\ IsPrefix(CLOSE_THINK, p.pending)
  <2> DEFINE rest == From(p.pending, Len(CLOSE_THINK) + 1)
  <2>1. rest \in Texts /\ Len(rest) = Len(p.pending) - 2
    <3>1. CLOSE_THINK \in Texts /\ Len(CLOSE_THINK) = 2
      BY Markers
    <3>2. rest \in Texts /\ Len(rest) = Len(p.pending) - Len(CLOSE_THINK)
      BY Zenon, <1>0, <1>3, <3>1, MarkerTaken
    <3> QED BY <3>1, <3>2
  <2> HIDE DEF rest
  <2>2. q = [p EXCEPT !.pending = rest, !.initial_reasoning = FALSE,
                      !.mode = "Text", !.trim_answer_newlines = 2]
    BY <1>3 DEF Reasoning, rest
  <2> HIDE DEF q
  <2>3. q \in Parsers /\ q.pending = rest /\ q.trim_answer_newlines = 2
        /\ q.initial_reasoning = FALSE
    BY <2>1, <2>2 DEF Parsers
  <2>4. q # p
    BY <1>0, <2>1, <2>3
  <2>5. Weight(q) < Weight(p)
    BY <1>0, <2>1, <2>3, Lighter
  <2> QED BY <2>3, <2>4, <2>5 DEF Advances, q
<1>4. CASE /\ ~(p.initial_reasoning /\ IsPrefix(OPEN_THINK, p.pending))
           /\ ~(p.initial_reasoning /\ ~finished /\ IsPrefix(p.pending, OPEN_THINK))
           /\ ~IsPrefix(CLOSE_THINK, p.pending)
  <2> DEFINE r == [p EXCEPT !.initial_reasoning = FALSE]
  <2>1. r \in Parsers /\ r.mode = p.mode /\ r.pending = p.pending
        /\ r.trim_answer_newlines = p.trim_answer_newlines /\ r.initial_reasoning = FALSE
    BY DEF Parsers
  <2>2. q = EmitBefore(r, "Reasoning", CLOSE_THINK, finished)
    BY <1>4 DEF Reasoning
  <2>3. (p.initial_reasoning = FALSE) => r = p
    BY DEF Parsers
  <2> HIDE DEF r, q
  <2>4. /\ q \in Parsers /\ q.mode = p.mode
        /\ q.initial_reasoning = FALSE
        /\ q.trim_answer_newlines = p.trim_answer_newlines
        /\ q # r => Len(q.pending) < Len(p.pending)
        /\ q = r => IsStrictPrefix(p.pending, CLOSE_THINK)
    <3>1. CLOSE_THINK \in Texts /\ Len(CLOSE_THINK) > 0 /\ "Reasoning" \in Kinds
      BY Markers DEF Kinds
    <3>2. /\ q \in Parsers /\ q.mode = r.mode
          /\ q.initial_reasoning = r.initial_reasoning
          /\ q.trim_answer_newlines = r.trim_answer_newlines
          /\ q # r => Len(q.pending) < Len(r.pending)
          /\ q = r /\ ~IsPrefix(CLOSE_THINK, r.pending) => IsStrictPrefix(r.pending, CLOSE_THINK)
      BY <2>1, <2>2, <3>1, EmitBeforeAdvances
    <3> QED BY <1>4, <2>1, <3>2
  <2>5. Len(q.pending) \in Nat
    BY <2>4, ParserFields
  <2>6. ASSUME q # p PROVE Weight(q) < Weight(p)
    <3>1. CASE q # r
      BY <1>0, <2>4, <2>5, <3>1, Lighter
    <3>2. CASE q = r
      <4>1. p.initial_reasoning
        BY <1>0, <2>3, <2>6, <3>2
      <4> QED BY <1>0, <2>1, <3>2, <4>1, Lighter
    <3> QED BY <3>1, <3>2
  <2>7. ASSUME q = p PROVE Settled(p)
    <3>1. r = p
      BY <2>3, <2>4, <2>7
    <3>2. IsStrictPrefix(p.pending, CLOSE_THINK)
      BY <2>4, <2>7, <3>1
    <3> QED BY <3>2 DEF Settled
  <2> QED BY <2>4, <2>6, <2>7 DEF Advances, q
<1> QED
  BY <1>1, <1>2, <1>3, <1>4

LEMMA TextAdvances ==
  ASSUME NEW p \in Parsers, p.mode = "Text", NEW finished \in BOOLEAN
  PROVE  Advances(p, Text(p, finished))
<1> DEFINE z == Text(p, finished)
           q == Trimmed(p)
           r == [q EXCEPT !.trim_answer_newlines = 0]
<1>0. /\ p.pending \in Texts /\ Len(p.pending) \in Nat /\ p.initial_reasoning \in BOOLEAN
      /\ p.trim_answer_newlines \in Nat
  BY ParserFields
<1>1. /\ q \in Parsers
      /\ q.mode = p.mode /\ q.tools = p.tools
      /\ q.initial_reasoning = p.initial_reasoning
      /\ q.trim_answer_newlines <= p.trim_answer_newlines
      /\ q # p => Len(q.pending) < Len(p.pending)
  BY TrimmedTyped
<1>2. z = IF q.trim_answer_newlines > 0 /\ q.pending = <<>> THEN q
          ELSE IF ~p.tools THEN Emit(r, "Text", Len(r.pending))
          ELSE IF IsPrefix(OPEN_TOOL, r.pending)
          THEN [r EXCEPT !.pending = From(@, Len(OPEN_TOOL) + 1), !.mode = "Tool"]
          ELSE EmitBefore(r, "Text", OPEN_TOOL, finished)
  BY DEF Text
<1> HIDE DEF q, z
<1>3. q.pending \in Texts /\ Len(q.pending) \in Nat /\ q.trim_answer_newlines \in Nat
  BY <1>1, ParserFields
<1>4. /\ r \in Parsers /\ r.mode = "Text" /\ r.tools = p.tools /\ r.pending = q.pending
      /\ r.initial_reasoning = p.initial_reasoning /\ r.trim_answer_newlines = 0
      /\ q.trim_answer_newlines = 0 => r = q
  BY <1>1 DEF Parsers
<1> HIDE DEF r
<1>5. Len(r.pending) <= Len(p.pending)
  BY <1>0, <1>1, <1>3, <1>4
(* What comes out of `r` without getting shorter is `r`. *)
<1>6. ASSUME /\ z \in Parsers /\ z.initial_reasoning = p.initial_reasoning
             /\ z.trim_answer_newlines = 0
             /\ z # r => Len(z.pending) < Len(r.pending)
             /\ z = r => IsStrictPrefix(r.pending, OPEN_TOOL)
      PROVE  Advances(p, z)
  <2>1. Len(z.pending) \in Nat
    BY <1>6, ParserFields
  <2>2. ASSUME z # p PROVE Weight(z) < Weight(p)
    <3>1. CASE Len(z.pending) < Len(p.pending)
      BY <1>0, <1>6, <2>1, <3>1, Lighter
    <3>2. CASE ~(Len(z.pending) < Len(p.pending))
      <4>1. z = r /\ q = p
        BY <1>0, <1>1, <1>3, <1>4, <1>5, <1>6, <2>1, <3>2
      <4>2. p.trim_answer_newlines # 0
        BY <1>4, <2>2, <4>1
      <4> QED BY <1>0, <1>4, <1>6, <4>1, <4>2, Lighter
    <3> QED BY <3>1, <3>2
  <2>3. ASSUME z = p PROVE Settled(p)
    <3>1. z = r
      BY <1>0, <1>5, <1>6, <2>1, <2>3, <1>3, <1>4
    <3>2. IsStrictPrefix(p.pending, OPEN_TOOL)
      BY <1>6, <2>3, <3>1
    <3> QED BY <3>2 DEF Settled
  <2> QED BY <1>6, <2>2, <2>3 DEF Advances
<1>7. CASE q.trim_answer_newlines > 0 /\ q.pending = <<>>
  <2>1. z = q
    BY <1>2, <1>7
  <2>2. ASSUME q # p PROVE Weight(q) < Weight(p)
    BY <1>0, <1>1, <1>3, <2>2, Lighter
  <2>3. ASSUME q = p PROVE Settled(p)
    <3>1. Len(p.pending) = 0 /\ OPEN_TOOL \in Texts /\ Len(OPEN_TOOL) > 0
      BY <1>7, <2>3, Markers
    <3>2. IsStrictPrefix(p.pending, OPEN_TOOL)
      BY <1>0, <3>1, EmptyIsStrictPrefix
    <3> QED BY <3>2 DEF Settled
  <2> QED BY <1>1, <2>1, <2>2, <2>3 DEF Advances, z
<1>8. CASE ~(q.trim_answer_newlines > 0 /\ q.pending = <<>>) /\ ~p.tools
  <2> DEFINE n == Len(r.pending)
             e == Emit(r, "Text", n)
  <2>1. z = e
    BY <1>2, <1>8
  <2>2. n \in Nat /\ n \in 0 .. n /\ n = Len(r.pending) /\ "Text" \in Kinds
    BY <1>3, <1>4 DEF Kinds
  <2> HIDE DEF n
  <2>3. /\ e \in Parsers
        /\ Len(e.pending) = Len(r.pending) - n
        /\ e.initial_reasoning = r.initial_reasoning
        /\ e.trim_answer_newlines = r.trim_answer_newlines
    BY Zenon, <1>4, <2>2, EmitTyped
  <2>4. n = 0 => e = r
    BY DEF Emit
  <2>5. n = 0 => IsStrictPrefix(r.pending, OPEN_TOOL)
    <3>1. OPEN_TOOL \in Texts /\ Len(OPEN_TOOL) > 0 BY Markers
    <3> QED BY <1>3, <1>4, <2>2, <3>1, EmptyIsStrictPrefix
  <2> HIDE DEF e
  <2>6. e # r => Len(e.pending) < Len(r.pending)
    BY <2>2, <2>3, <2>4
  <2>7. e = r => n = 0
    BY <2>2, <2>3
  <2> QED
    BY <1>4, <1>6, <2>1, <2>3, <2>5, <2>6, <2>7 DEF z
<1>9. CASE /\ ~(q.trim_answer_newlines > 0 /\ q.pending = <<>>) /\ p.tools
           /\ IsPrefix(OPEN_TOOL, r.pending)
  <2> DEFINE rest == From(r.pending, Len(OPEN_TOOL) + 1)
  <2>1. rest \in Texts /\ Len(rest) = Len(r.pending) - 2
    <3> PICK t : t = r.pending OBVIOUS
    <3>1. t \in Texts /\ OPEN_TOOL \in Texts /\ Len(OPEN_TOOL) = 2 /\ IsPrefix(OPEN_TOOL, t)
      BY <1>3, <1>4, <1>9, Markers
    <3>2. /\ From(t, Len(OPEN_TOOL) + 1) \in Texts
          /\ Len(From(t, Len(OPEN_TOOL) + 1)) = Len(t) - Len(OPEN_TOOL)
      BY <3>1, MarkerTaken
    <3> QED BY <3>1, <3>2
  <2> HIDE DEF rest
  <2>2. z = [r EXCEPT !.pending = rest, !.mode = "Tool"]
    BY <1>2, <1>9 DEF rest
  <2>3. z \in Parsers /\ z.pending = rest /\ z.trim_answer_newlines = 0
        /\ z.initial_reasoning = p.initial_reasoning
    BY <1>4, <2>1, <2>2 DEF Parsers
  <2>4. Len(z.pending) < Len(r.pending) /\ Len(z.pending) \in Nat
    BY <1>3, <1>4, <2>1, <2>3 DEF Texts
  <2>5. z # r
    BY <1>3, <1>4, <2>4
  <2> QED BY <1>6, <2>3, <2>4, <2>5 DEF z
<1>10. CASE /\ ~(q.trim_answer_newlines > 0 /\ q.pending = <<>>) /\ p.tools
            /\ ~IsPrefix(OPEN_TOOL, r.pending)
  <2>1. z = EmitBefore(r, "Text", OPEN_TOOL, finished)
    BY <1>2, <1>10
  <2>2. OPEN_TOOL \in Texts /\ Len(OPEN_TOOL) > 0 /\ "Text" \in Kinds
    BY Markers DEF Kinds
  <2>3. /\ z \in Parsers
        /\ z.initial_reasoning = r.initial_reasoning
        /\ z.trim_answer_newlines = r.trim_answer_newlines
        /\ z # r => Len(z.pending) < Len(r.pending)
        /\ z = r /\ ~IsPrefix(OPEN_TOOL, r.pending) => IsStrictPrefix(r.pending, OPEN_TOOL)
    BY <1>4, <2>1, <2>2, EmitBeforeAdvances
  <2> QED BY <1>4, <1>6, <1>10, <2>3 DEF z
<1>11. p.tools \in BOOLEAN
  BY ParserFields
<1> QED
  BY <1>7, <1>8, <1>9, <1>10, <1>11 DEF z

LEMMA ToolAdvances ==
  ASSUME NEW p \in Parsers, p.mode = "Tool", NEW finished \in BOOLEAN
  PROVE  Advances(p, Tool(p, finished))
<1> DEFINE q == Tool(p, finished)
           at == Find(CLOSE_TOOL, p.pending)
<1>0. /\ p.pending \in Texts /\ Len(p.pending) \in Nat /\ p.initial_reasoning \in BOOLEAN
      /\ p.trim_answer_newlines \in Nat
  BY ParserFields
<1>1. /\ at \in 0 .. Len(p.pending)
      /\ at > 0 => at + 1 <= Len(p.pending)
      /\ at = 0 => Occurrences(CLOSE_TOOL, p.pending) = {}
  <2>1. CLOSE_TOOL \in Texts /\ Len(CLOSE_TOOL) = 2 /\ Len(CLOSE_TOOL) > 0
    BY Markers
  <2>2. /\ Find(CLOSE_TOOL, p.pending) \in 0 .. Len(p.pending)
        /\ Find(CLOSE_TOOL, p.pending) > 0 =>
             Find(CLOSE_TOOL, p.pending) + Len(CLOSE_TOOL) - 1 <= Len(p.pending)
        /\ Find(CLOSE_TOOL, p.pending) = 0 <=> Occurrences(CLOSE_TOOL, p.pending) = {}
    BY <1>0, <2>1, Found
  <2> PICK a : a = at OBVIOUS
  <2> QED BY <1>0, <2>1, <2>2
<1>2. CASE at > 0
  <2> DEFINE rest == From(p.pending, at + Len(CLOSE_TOOL))
  <2>1. rest \in Texts /\ Len(rest) < Len(p.pending) /\ Len(rest) \in Nat
    <3> PICK t, i : t = p.pending /\ i = at + Len(CLOSE_TOOL) OBVIOUS
    <3>1. t \in Texts /\ i \in Nat /\ 2 <= i /\ 1 <= i /\ i <= Len(t) + 1
      <4> HIDE DEF at
      <4> QED BY <1>0, <1>1, <1>2, Markers
    <3>2. From(t, i) \in Texts /\ Len(From(t, i)) = Len(t) - i + 1
      BY <3>1, FromTyped
    <3> QED BY <1>0, <3>1, <3>2
  <2>2. q = [p EXCEPT !.pending = rest, !.mode = "Text"]
    BY <1>2 DEF Tool
  <2> HIDE DEF rest, q
  <2>3. q \in Parsers /\ q.pending = rest /\ q.trim_answer_newlines = p.trim_answer_newlines
        /\ q.initial_reasoning = p.initial_reasoning
    BY <2>1, <2>2 DEF Parsers
  <2>4. q # p
    BY <1>0, <2>1, <2>3
  <2>5. Weight(q) < Weight(p)
    BY <1>0, <2>1, <2>3, Lighter
  <2> QED BY <2>3, <2>4, <2>5 DEF Advances, q
<1>3. CASE at = 0 /\ finished
  <2>1. q = [p EXCEPT !.pending = <<>>]
    BY <1>3 DEF Tool
  <2> DEFINE none == <<>>
  <2>2. none \in Texts /\ Len(none) = 0
    BY DEF Texts
  <2> HIDE DEF none
  <2>2a. q = [p EXCEPT !.pending = none]
    BY <2>1 DEF none
  <2> HIDE DEF q
  <2>3. q \in Parsers /\ q.pending = none /\ q.trim_answer_newlines = p.trim_answer_newlines
        /\ q.initial_reasoning = p.initial_reasoning
    BY <2>2, <2>2a DEF Parsers
  <2>4. ASSUME q # p PROVE Len(p.pending) # 0
    <3>1. Len(p.pending) = 0 => p.pending = none BY <1>0 DEF Texts, none
    <3>2. p.pending = none => q = p BY <2>2a DEF Parsers
    <3> QED BY <2>4, <3>1, <3>2
  <2>5. q # p => Weight(q) < Weight(p)
    BY <1>0, <2>2, <2>3, <2>4, Lighter
  <2>6. Settled(p)
    BY <1>1, <1>3 DEF Settled
  <2> QED BY <2>3, <2>5, <2>6 DEF Advances, q
<1>4. CASE at = 0 /\ ~finished
  <2>1. q = p
    BY <1>4 DEF Tool
  <2>2. Settled(p)
    BY <1>1, <1>4 DEF Settled
  <2> QED BY <2>1, <2>2 DEF Advances
<1> QED
  BY <1>0, <1>1, <1>2, <1>3, <1>4

(* A turn in any mode. *)
LEMMA TurnAdvances ==
  ASSUME NEW p \in Parsers, NEW finished \in BOOLEAN
  PROVE  Advances(p, Turn(p, finished))
<1>1. p.mode \in {"Reasoning", "Text", "Tool"}
  BY ParserFields
<1>2. CASE p.mode = "Reasoning"
  <2>1. Turn(p, finished) = Reasoning(p, finished) BY <1>2 DEF Turn
  <2> QED BY <1>2, <2>1, ReasoningAdvances
<1>3. CASE p.mode = "Text"
  <2>1. Turn(p, finished) = Text(p, finished) BY <1>3 DEF Turn
  <2> QED BY <1>3, <2>1, TextAdvances
<1>4. CASE p.mode = "Tool"
  <2>1. Turn(p, finished) = Tool(p, finished) BY <1>4 DEF Turn
  <2> QED BY <1>4, <2>1, ToolAdvances
<1> QED
  BY <1>1, <1>2, <1>3, <1>4

(* The loop of drain is over after that many turns. *)
LEMMA LoopSettles ==
  ASSUME NEW p \in Parsers, NEW finished \in BOOLEAN
  PROVE  Loop(p, finished) \in Parsers /\ Settled(Loop(p, finished))
<1> DEFINE N == TurnsOf(p)
           step == [n \in 1 .. N |-> [q \in Parsers |-> Turn(q, finished)]]
           IsTurn(f) == f = [n \in 0 .. N |-> IF n = 0 THEN p ELSE Turn(f[n - 1], finished)]
           turn == CHOOSE f : IsTurn(f)
<1>1. N \in Nat /\ N = 2 * Len(p.pending) + 3 /\ Len(p.pending) \in Nat
  BY ParserFields DEF TurnsOf
<1>2. \A q \in Parsers : Turn(q, finished) \in Parsers
  BY TurnAdvances DEF Advances
<1>3. step \in [1 .. N -> [Parsers -> Parsers]]
  BY <1>2
<1>4. PICK f \in [0 .. N -> Parsers] : Iterates(f, p, step, N)
  <2> HIDE DEF N, step
  <2> QED BY <1>1, <1>3, IterationExists
<1>5. IsTurn(f)
  <2>1. ASSUME NEW n \in 0 .. N PROVE f[n] = IF n = 0 THEN p ELSE Turn(f[n - 1], finished)
    <3>1. CASE n = 0
      BY <1>4, <3>1 DEF Iterates
    <3>2. CASE n # 0
      <4>1. n \in 1 .. N /\ n - 1 \in 0 .. N
        BY <1>1, <3>2
      <4>2. f[n] = step[n][f[n - 1]] /\ f[n - 1] \in Parsers
        BY <1>4, <4>1 DEF Iterates
      <4> QED BY <4>1, <4>2, <3>2
    <3> QED BY <3>1, <3>2
  <2> HIDE DEF N, step
  <2> QED BY <2>1, <1>4
<1>6. turn = [n \in 0 .. N |-> IF n = 0 THEN p ELSE Turn(turn[n - 1], finished)]
  <2>1. IsTurn(turn)
    <3> HIDE DEF IsTurn
    <3> QED BY <1>5
  <2> HIDE DEF turn
  <2> QED BY <2>1
<1> HIDE DEF turn, N
<1> DEFINE Over(q) == Turn(q, finished) = q
           P == {n \in 0 .. N : /\ turn[n] \in Parsers
                                /\ Over(turn[n]) \/ Weight(turn[n]) + n <= Weight(p)}
<1>7. 0 \in P
  <2>1. 0 \in 0 .. N /\ turn[0] = p
    BY <1>1, <1>6
  <2> QED BY <2>1, WeightBounded
<1>8. ASSUME NEW n \in 1 .. N, n - 1 \in P PROVE n \in P
  <2> DEFINE q == turn[n - 1]
             r == turn[n]
  <2>1. n \in 0 .. N /\ n # 0 /\ n \in Nat
    BY <1>1
  <2>2. r = Turn(q, finished)
    BY <1>6, <2>1
  <2>3. q \in Parsers /\ (Over(q) \/ Weight(q) + (n - 1) <= Weight(p))
    BY <1>8
  <2> HIDE DEF q, r
  <2>4. Advances(q, r)
    BY <2>2, <2>3, TurnAdvances
  <2>5. r \in Parsers
    BY <2>4 DEF Advances
  <2>6. Over(r) \/ Weight(r) + n <= Weight(p)
    <3>1. CASE Over(q)
      <4>1. r = q
        BY <2>2, <3>1
      <4> QED BY <3>1, <4>1
    <3>2. CASE ~Over(q)
      <4>1. r # q
        BY <2>2, <3>2
      <4>2. Weight(r) < Weight(q) /\ Weight(q) + (n - 1) <= Weight(p)
        BY <2>3, <2>4, <3>2, <4>1 DEF Advances
      <4>3. Weight(r) \in Nat /\ Weight(q) \in Nat /\ Weight(p) \in Nat
        BY <2>3, <2>5, WeightBounded
      <4> QED BY <2>1, <4>2, <4>3
    <3> QED BY <3>1, <3>2
  <2> QED BY <2>1, <2>5, <2>6 DEF r
<1>9. N \in P
  <2>1. \A n \in 0 .. N : n \in P
    <3> HIDE DEF P
    <3> QED BY <1>1, <1>7, <1>8, UpTo
  <2>2. N \in 0 .. N
    BY <1>1
  <2> QED BY <2>1, <2>2
<1> DEFINE last == turn[N]
<1>10. last \in Parsers /\ (Over(last) \/ Weight(last) + N <= Weight(p))
  BY <1>9
<1>11. Loop(p, finished) = last
  BY DEF Loop, turn, N
<1> HIDE DEF last
<1>12. Over(last)
  <2>1. Weight(last) \in Nat /\ Weight(p) \in Nat /\ Weight(p) <= 2 * Len(p.pending) + 2
    BY <1>10, WeightBounded
  <2> QED BY <1>1, <1>10, <2>1
<1>13. Settled(last)
  <2>1. Advances(last, Turn(last, finished))
    BY <1>10, TurnAdvances
  <2> QED BY <1>12, <2>1 DEF Advances
<1> QED
  BY <1>10, <1>11, <1>13

LEMMA NoDeltas ==
  ASSUME NEW p \in Parsers, NEW t \in Texts, NEW q,
         q = [p EXCEPT !.pending = t, !.deltas = <<>>]
  PROVE  /\ q \in Parsers /\ q.deltas = <<>> /\ q.mode = p.mode /\ q.pending = t
         /\ q.initial_reasoning = p.initial_reasoning
<1> DEFINE none == <<>>
<1>1. none \in Seq(DeltaSet)
  OBVIOUS
<1> HIDE DEF none
<1>2. q = [p EXCEPT !.pending = t, !.deltas = none]
  BY DEF none
<1>3. /\ q \in Parsers /\ q.deltas = none /\ q.mode = p.mode /\ q.pending = t
      /\ q.initial_reasoning = p.initial_reasoning
  BY <1>1, <1>2 DEF Parsers
<1> QED
  BY <1>3 DEF none

LEMMA DeltasOnly ==
  ASSUME NEW p \in Parsers
  PROVE  [p EXCEPT !.deltas = <<>>] = [p EXCEPT !.pending = p.pending, !.deltas = <<>>]
BY DEF Parsers

LEMMA PushSettles ==
  ASSUME NEW p \in Parsers, NEW t \in Texts
  PROVE  push_raw(p, t) \in Parsers /\ Settled(push_raw(p, t))
<1> DEFINE longer == p.pending \o t
           q == [p EXCEPT !.pending = longer, !.deltas = <<>>]
<1>1. longer \in Texts
  BY ParserFields, ConcatProperties DEF Texts
<1> HIDE DEF longer
<1>2. q \in Parsers
  BY Zenon, <1>1, NoDeltas
<1>3. push_raw(p, t) = Loop(q, FALSE)
  BY DEF push_raw, longer
<1> HIDE DEF q
<1> QED
  BY <1>2, <1>3, LoopSettles

LEMMA FinishSettles ==
  ASSUME NEW p \in Parsers
  PROVE  finish(p) \in Parsers /\ Settled(finish(p))
<1> DEFINE q == [p EXCEPT !.deltas = <<>>]
<1>1. q \in Parsers
  BY Zenon, ParserFields, NoDeltas, DeltasOnly
<1>2. finish(p) = Loop(q, TRUE)
  BY DEF finish
<1> HIDE DEF q
<1> QED
  BY <1>1, <1>2, LoopSettles

(* The deltas are taken out of a parser. *)
LEMMA DeltasTaken ==
  ASSUME NEW p \in Parsers, Settled(p), NEW q, q = [p EXCEPT !.deltas = <<>>]
  PROVE  q \in Parsers /\ q.deltas = <<>> /\ Settled(q)
<1>1. q \in Parsers /\ q.deltas = <<>> /\ q.mode = p.mode /\ q.pending = p.pending
      /\ q.initial_reasoning = p.initial_reasoning
  <2> DEFINE none == <<>>
  <2>1. none \in Seq(DeltaSet)
    OBVIOUS
  <2> HIDE DEF none
  <2>2. q = [p EXCEPT !.deltas = none]
    BY DEF none
  <2>3. /\ q \in Parsers /\ q.deltas = none /\ q.mode = p.mode /\ q.pending = p.pending
        /\ q.initial_reasoning = p.initial_reasoning
    BY <2>1, <2>2 DEF Parsers
  <2> QED BY <2>3 DEF none
<1>2. Settled(q)
  BY <1>1 DEF Settled
<1> QED
  BY <1>1, <1>2

(* The parser a stream starts with. *)
LEMMA NewParserSettled ==
  ASSUME NEW th \in BOOLEAN, NEW to \in BOOLEAN
  PROVE  /\ NewParser(th, to) \in Parsers /\ NewParser(th, to).deltas = <<>>
         /\ Settled(NewParser(th, to))
<1> DEFINE p == NewParser(th, to)
<1>1. p \in Parsers
  BY DEF NewParser, Parsers, Texts
<1>2. p.mode \in {"Text", "Reasoning"} /\ p.pending = <<>> /\ p.deltas = <<>>
  BY DEF NewParser
<1>3. Len(p.pending) = 0 /\ p.pending \in Texts
  BY <1>2 DEF Texts
<1> HIDE DEF p
<1>4. IsStrictPrefix(p.pending, OPEN_TOOL) /\ IsStrictPrefix(p.pending, CLOSE_THINK)
  <2>1. OPEN_TOOL \in Texts /\ Len(OPEN_TOOL) > 0 /\ CLOSE_THINK \in Texts /\ Len(CLOSE_THINK) > 0
    BY Markers
  <2> QED BY <1>3, <2>1, EmptyIsStrictPrefix
<1>5. Settled(p)
  BY <1>2, <1>4 DEF Settled
<1> QED
  BY <1>1, <1>2, <1>5 DEF p

-----------------------------------------------------------------------------
(* Where a marker may begin: the letters of the text from `i` on are those  *)
(* of the marker, as far as both go.                                        *)

Starts(marker, t, i) ==
  \A j \in 1 .. Len(marker) : i + j - 1 <= Len(t) => t[i + j - 1] = marker[j]

(* How much of a text is emitted that is still to go on. *)
Emitted(marker, t) ==
  IF Find(marker, t) > 0 THEN Find(marker, t) - 1
                         ELSE Len(t) - marker_suffix_len(t, marker)

(* Two texts, one behind the other. *)
LEMMA ConcatText ==
  ASSUME NEW t \in Texts, NEW b \in Texts
  PROVE  /\ t \o b \in Texts /\ Len(t \o b) = Len(t) + Len(b)
         /\ \A i \in 1 .. Len(t) : (t \o b)[i] = t[i]
         /\ \A i \in 1 .. Len(b) : (t \o b)[Len(t) + i] = b[i]
<1>1. /\ t \in Seq(Letter) /\ b \in Seq(Letter) /\ Len(t) \in Nat /\ Len(b) \in Nat
  BY DEF Texts
<1>2. /\ t \o b \in Seq(Letter) /\ Len(t \o b) = Len(t) + Len(b)
      /\ \A i \in 1 .. Len(t) + Len(b) : (t \o b)[i] = IF i <= Len(t) THEN t[i] ELSE b[i - Len(t)]
  BY <1>1, ConcatProperties
<1>3. ASSUME NEW i \in 1 .. Len(b) PROVE (t \o b)[Len(t) + i] = b[i]
  <2>1. Len(t) + i \in 1 .. Len(t) + Len(b) /\ ~(Len(t) + i <= Len(t)) /\ Len(t) + i - Len(t) = i
    BY <1>1
  <2> QED BY <1>2, <2>1
<1>4. ASSUME NEW i \in 1 .. Len(t) PROVE (t \o b)[i] = t[i]
  BY <1>1, <1>2
<1> QED
  BY <1>2, <1>3, <1>4 DEF Texts

(* str::starts_with, in letters. *)
LEMMA PrefixText ==
  ASSUME NEW s \in Texts, NEW t \in Texts
  PROVE  IsPrefix(s, t) <=> Len(s) <= Len(t) /\ \A i \in 1 .. Len(s) : s[i] = t[i]
BY PrefixRows DEF Texts

(* Texts of the same letters. *)
LEMMA Equal ==
  ASSUME NEW s \in Texts, NEW t \in Texts, Len(s) = Len(t),
         \A i \in 1 .. Len(s) : s[i] = t[i]
  PROVE  s = t
BY SeqEqual DEF Texts

(* A marker is at `i` if it may begin there and is not cut off. *)
LEMMA OccursAt ==
  ASSUME NEW marker \in Texts, Len(marker) > 0, NEW t \in Texts, NEW i \in 1 .. Len(t)
  PROVE  i \in Occurrences(marker, t) <=>
           Starts(marker, t, i) /\ i + Len(marker) - 1 <= Len(t)
<1>1. Len(t) \in Nat /\ Len(marker) \in Nat /\ i \in Nat /\ 1 <= i /\ i <= Len(t) + 1
      /\ DOMAIN t = 1 .. Len(t)
  BY DEF Texts
<1> DEFINE rest == From(t, i)
<1>2. rest \in Texts /\ Len(rest) = Len(t) - i + 1
      /\ \A j \in 1 .. Len(t) - i + 1 : rest[j] = t[i + j - 1]
  BY <1>1, FromTyped
<1>3. i \in Occurrences(marker, t) <=> IsPrefix(marker, rest)
  BY <1>1 DEF Occurrences
<1> HIDE DEF rest
<1>4. IsPrefix(marker, rest) <=>
        Len(marker) <= Len(rest) /\ \A j \in 1 .. Len(marker) : marker[j] = rest[j]
  BY <1>2, PrefixText
<1>5. ASSUME i + Len(marker) - 1 <= Len(t)
      PROVE  \A j \in 1 .. Len(marker) :
               /\ j \in 1 .. Len(t) - i + 1 /\ i + j - 1 <= Len(t)
               /\ rest[j] = t[i + j - 1]
  <2> TAKE j \in 1 .. Len(marker)
  <2>1. j \in 1 .. Len(t) - i + 1 /\ i + j - 1 <= Len(t)
    BY <1>1, <1>5
  <2> QED BY <1>2, <2>1
<1>6. Len(marker) <= Len(rest) <=> i + Len(marker) - 1 <= Len(t)
  BY <1>1, <1>2
<1>7. ASSUME i \in Occurrences(marker, t)
      PROVE  Starts(marker, t, i) /\ i + Len(marker) - 1 <= Len(t)
  BY <1>3, <1>4, <1>5, <1>6, <1>7 DEF Starts
<1>8. ASSUME Starts(marker, t, i), i + Len(marker) - 1 <= Len(t)
      PROVE  i \in Occurrences(marker, t)
  BY <1>3, <1>4, <1>5, <1>6, <1>8 DEF Starts
<1> QED
  BY <1>7, <1>8

(* str::ends_with, in letters. *)
LEMMA SuffixText ==
  ASSUME NEW s \in Texts, NEW t \in Texts
  PROVE  IsSuffix(s, t) <=>
           Len(s) <= Len(t) /\ \A i \in 1 .. Len(s) : s[i] = t[Len(t) - Len(s) + i]
<1>1. ASSUME NEW u \in Texts
      PROVE  /\ Reverse(u) \in Texts /\ Len(Reverse(u)) = Len(u)
             /\ \A i \in 1 .. Len(u) : Reverse(u)[i] = u[Len(u) - i + 1]
  <2>1. Len(u) \in Nat /\ \A i \in 1 .. Len(u) : u[i] \in Letter
    BY ElementOfSeq DEF Texts
  <2>2. \A i \in 1 .. Len(u) : (Len(u) - i) + 1 \in 1 .. Len(u)
    BY <2>1
  <2>3. Reverse(u) = [i \in 1 .. Len(u) |-> u[(Len(u) - i) + 1]]
    BY DEF Reverse
  <2>4. Reverse(u) \in [1 .. Len(u) -> Letter]
    BY <2>1, <2>2, <2>3
  <2> QED BY <2>1, <2>3, <2>4 DEF Texts
<1>2. Len(s) \in Nat /\ Len(t) \in Nat
  BY DEF Texts
<1>3. IsSuffix(s, t) <=>
        Len(s) <= Len(t) /\ \A i \in 1 .. Len(s) : Reverse(s)[i] = Reverse(t)[i]
  <2> PICK a, b : a = Reverse(s) /\ b = Reverse(t) OBVIOUS
  <2>1. a \in Texts /\ b \in Texts /\ Len(a) = Len(s) /\ Len(b) = Len(t)
    BY <1>1
  <2>2. IsPrefix(a, b) <=> Len(a) <= Len(b) /\ \A i \in 1 .. Len(a) : a[i] = b[i]
    BY <2>1, PrefixText
  <2>3. IsSuffix(s, t) <=> IsPrefix(a, b)
    BY DEF IsSuffix
  <2> QED BY <2>1, <2>2, <2>3
<1>4. ASSUME Len(s) <= Len(t), NEW i \in 1 .. Len(s)
      PROVE  /\ Len(s) - i + 1 \in 1 .. Len(s)
             /\ Reverse(s)[i] = s[Len(s) - i + 1]
             /\ Reverse(t)[i] = t[Len(t) - i + 1]
             /\ Len(t) - Len(s) + (Len(s) - i + 1) = Len(t) - i + 1
  <2>1. i \in 1 .. Len(t)
    BY <1>2, <1>4
  <2> QED BY <1>1, <1>2, <2>1
<1>5. ASSUME IsSuffix(s, t), NEW i \in 1 .. Len(s)
      PROVE  s[i] = t[Len(t) - Len(s) + i]
  <2> PICK j : j = Len(s) - i + 1 OBVIOUS
  <2>1. j \in 1 .. Len(s) /\ Len(s) - j + 1 = i /\ Len(t) - j + 1 = Len(t) - Len(s) + i
    BY <1>2
  <2>2. Len(s) <= Len(t) /\ Reverse(s)[j] = Reverse(t)[j]
    BY <1>3, <1>5, <2>1
  <2> QED BY <1>4, <2>1, <2>2
<1>6. ASSUME Len(s) <= Len(t), \A i \in 1 .. Len(s) : s[i] = t[Len(t) - Len(s) + i]
      PROVE  IsSuffix(s, t)
  <2>1. ASSUME NEW i \in 1 .. Len(s) PROVE Reverse(s)[i] = Reverse(t)[i]
    <3> PICK j : j = Len(s) - i + 1 OBVIOUS
    <3>1. j \in 1 .. Len(s) /\ Len(t) - Len(s) + j = Len(t) - i + 1
      BY <1>2
    <3>2. s[j] = t[Len(t) - Len(s) + j]
      BY <1>6, <3>1
    <3> QED BY <1>4, <1>6, <3>1, <3>2
  <2> QED BY <1>3, <1>6, <2>1
<1> QED
  BY <1>3, <1>5, <1>6

(* The marker may begin where its first `n` letters are the last of the text. *)
LEMMA EndsWith ==
  ASSUME NEW marker \in Texts, NEW t \in Texts, NEW n \in 1 .. Len(marker) - 1
  PROVE  IsSuffix(SubSeq(marker, 1, n), t) <=> n <= Len(t) /\ Starts(marker, t, Len(t) - n + 1)
<1> DEFINE part == SubSeq(marker, 1, n)
<1>1. Len(marker) \in Nat /\ Len(t) \in Nat /\ n \in 0 .. Len(marker)
  BY DEF Texts
<1>2. part \in Texts /\ Len(part) = n /\ \A i \in 1 .. n : part[i] = marker[i]
  BY <1>1, BeginningOf DEF Texts
<1> HIDE DEF part
<1>3. IsSuffix(part, t) <=> n <= Len(t) /\ \A i \in 1 .. n : part[i] = t[Len(t) - n + i]
  BY <1>2, SuffixText
<1>4. \A j \in 1 .. Len(marker) :
        /\ Len(t) - n + 1 + j - 1 = Len(t) - n + j
        /\ Len(t) - n + 1 + j - 1 <= Len(t) <=> j \in 1 .. n
  BY <1>1
<1>5. \A j \in 1 .. n : j \in 1 .. Len(marker)
  BY <1>1
<1>6. Starts(marker, t, Len(t) - n + 1) <=> \A i \in 1 .. n : marker[i] = t[Len(t) - n + i]
  BY <1>4, <1>5 DEF Starts
<1> QED
  BY <1>2, <1>3, <1>6 DEF part

(* All that is in front of the first place where the marker may begin is   *)
(* emitted.                                                                *)
LEMMA EmittedInFront ==
  ASSUME NEW marker \in Texts, Len(marker) > 0, NEW t \in Texts
  PROVE  /\ Emitted(marker, t) \in 0 .. Len(t)
         /\ Starts(marker, t, Emitted(marker, t) + 1)
         /\ \A i \in 1 .. Emitted(marker, t) : ~Starts(marker, t, i)
<1>1. Len(t) \in Nat /\ Len(marker) \in Nat /\ DOMAIN t = 1 .. Len(t)
  BY DEF Texts
<1>2. CASE Find(marker, t) > 0
  <2> DEFINE at == Find(marker, t)
  <2>1. Occurrences(marker, t) \in SUBSET Nat /\ Occurrences(marker, t) # {}
        /\ Occurrences(marker, t) \subseteq 1 .. Len(t)
    BY <1>1, <1>2 DEF Occurrences, Find
  <2>2. at = Min(Occurrences(marker, t))
    BY <2>1 DEF Find
  <2>3. at \in Occurrences(marker, t) /\ \A i \in Occurrences(marker, t) : at <= i
    BY <2>1, <2>2, MinOfNaturals
  <2>4. at \in 1 .. Len(t)
    BY <2>1, <2>3
  <2>5. Emitted(marker, t) = at - 1
    BY <1>2 DEF Emitted
  <2> HIDE DEF at
  <2>6. Starts(marker, t, at) /\ at + Len(marker) - 1 <= Len(t)
    BY <2>3, <2>4, OccursAt
  <2>7. ASSUME NEW i \in 1 .. at - 1, Starts(marker, t, i) PROVE FALSE
    <3>1. i \in 1 .. Len(t) /\ i + Len(marker) - 1 <= Len(t) /\ ~(at <= i)
      BY <1>1, <2>4, <2>6
    <3>2. i \in Occurrences(marker, t)
      BY <2>7, <3>1, OccursAt
    <3> QED BY <2>3, <3>1, <3>2
  <2>8. at - 1 + 1 = at /\ at - 1 \in 0 .. Len(t)
    BY <1>1, <2>4
  <2> QED BY <2>5, <2>6, <2>7, <2>8
<1>3. CASE ~(Find(marker, t) > 0)
  <2> DEFINE ends == {n \in 1 .. Len(marker) - 1 : IsSuffix(SubSeq(marker, 1, n), t)}
             lengths == {0} \cup ends
             hold == marker_suffix_len(t, marker)
  <2>1. Occurrences(marker, t) = {}
    BY <1>1, <1>3, Found
  <2>2. hold = Max(lengths) /\ hold \in 0 .. Len(t)
    BY SuffixLength DEF marker_suffix_len
  <2>3. hold \in lengths /\ \A n \in lengths : n <= hold
    <3>1. lengths \in SUBSET Nat /\ lengths # {} /\ \A n \in lengths : n <= Len(marker)
      BY <1>1
    <3> HIDE DEF lengths, hold
    <3> QED BY <1>1, <2>2, <3>1, MaxOfNaturals
  <2>4. Emitted(marker, t) = Len(t) - hold
    BY <1>3 DEF Emitted
  <2> HIDE DEF hold
  <2>5. Starts(marker, t, Len(t) - hold + 1)
    <3>1. CASE hold = 0
      <4>1. \A j \in 1 .. Len(marker) : ~(Len(t) - hold + 1 + j - 1 <= Len(t))
        BY <1>1, <3>1
      <4> QED BY <4>1 DEF Starts
    <3>2. CASE hold # 0
      <4>1. hold \in 1 .. Len(marker) - 1 /\ IsSuffix(SubSeq(marker, 1, hold), t)
        BY <2>3, <3>2
      <4> QED BY <4>1, EndsWith
    <3> QED BY <3>1, <3>2
  <2>6. ASSUME NEW i \in 1 .. Len(t) - hold, Starts(marker, t, i) PROVE FALSE
    <3> PICK n : n = Len(t) - i + 1 OBVIOUS
    <3>1. i \in 1 .. Len(t) /\ Len(t) - n + 1 = i /\ n > hold /\ n <= Len(t) /\ n \in 1 .. Len(t)
      BY <1>1, <2>2
    <3>2. ~(i + Len(marker) - 1 <= Len(t))
      BY <2>1, <2>6, <3>1, OccursAt
    <3>3. n \in 1 .. Len(marker) - 1
      BY <1>1, <3>1, <3>2
    <3>4. IsSuffix(SubSeq(marker, 1, n), t)
      BY <2>6, <3>1, <3>3, EndsWith
    <3>5. n \in lengths
      BY <3>3, <3>4
    <3> HIDE DEF lengths
    <3> QED BY <1>1, <2>2, <2>3, <3>1, <3>5
  <2>7. Len(t) - hold \in 0 .. Len(t)
    BY <1>1, <2>2
  <2> QED BY <2>4, <2>5, <2>6, <2>7
<1> QED
  BY <1>2, <1>3

(* What is emitted is known from where the marker may begin. *)
LEMMA EmittedIs ==
  ASSUME NEW marker \in Texts, Len(marker) > 0, NEW t \in Texts, NEW n \in Nat,
         n <= Len(t), Starts(marker, t, n + 1), \A i \in 1 .. n : ~Starts(marker, t, i)
  PROVE  Emitted(marker, t) = n
<1> PICK e : e = Emitted(marker, t) OBVIOUS
<1>1. /\ e \in 0 .. Len(t) /\ Starts(marker, t, e + 1)
      /\ \A i \in 1 .. e : ~Starts(marker, t, i)
  BY EmittedInFront
<1>2. Len(t) \in Nat
  BY DEF Texts
<1>3. ~(n + 1 <= e)
  <2>1. n + 1 <= e => n + 1 \in 1 .. e
    BY <1>1, <1>2
  <2> QED BY <1>1, <2>1
<1>4. ~(e + 1 <= n)
  <2>1. e + 1 <= n => e + 1 \in 1 .. n
    BY <1>1, <1>2
  <2> QED BY <1>1, <2>1
<1> QED
  BY <1>1, <1>2, <1>3, <1>4

(* What is no beginning of a marker does not become one. *)
LEMMA StartsLonger ==
  ASSUME NEW marker \in Texts, NEW t \in Texts, NEW b \in Texts,
         NEW i \in Nat, 1 <= i, Starts(marker, t \o b, i)
  PROVE  Starts(marker, t, i)
<1>1. Len(t) \in Nat /\ Len(b) \in Nat /\ Len(marker) \in Nat
  BY DEF Texts
<1>2. /\ Len(t \o b) = Len(t) + Len(b)
      /\ \A k \in 1 .. Len(t) : (t \o b)[k] = t[k]
  BY ConcatText
<1>3. ASSUME NEW j \in 1 .. Len(marker), i + j - 1 <= Len(t)
      PROVE  t[i + j - 1] = marker[j]
  <2>1. i + j - 1 \in 1 .. Len(t) /\ i + j - 1 <= Len(t) + Len(b)
    BY <1>1, <1>3
  <2>2. (t \o b)[i + j - 1] = marker[j]
    BY <1>2, <2>1 DEF Starts
  <2> QED BY <1>2, <2>1, <2>2
<1> QED
  BY <1>3 DEF Starts

(* Where a marker may begin in the rest of a text. *)
LEMMA StartsShifted ==
  ASSUME NEW marker \in Texts, NEW t \in Texts, NEW n \in Nat, n <= Len(t),
         NEW i \in Nat, 1 <= i
  PROVE  Starts(marker, From(t, n + 1), i) <=> Starts(marker, t, n + i)
<1> DEFINE rest == From(t, n + 1)
<1>1. Len(t) \in Nat /\ Len(marker) \in Nat
  BY DEF Texts
<1>2. /\ Len(rest) = Len(t) - n
      /\ \A k \in 1 .. Len(t) - n : rest[k] = t[n + k]
  <2> PICK m : m = n + 1 OBVIOUS
  <2>1. m \in Nat /\ 1 <= m /\ m <= Len(t) + 1 /\ Len(t) - m + 1 = Len(t) - n
        /\ \A k \in 1 .. Len(t) - n : m + k - 1 = n + k
    BY <1>1
  <2>2. /\ Len(From(t, m)) = Len(t) - m + 1
        /\ \A k \in 1 .. Len(t) - m + 1 : From(t, m)[k] = t[m + k - 1]
    BY Zenon, <2>1, FromTyped
  <2> QED BY Zenon, <2>1, <2>2
<1> HIDE DEF rest
<1>3. ASSUME NEW j \in 1 .. Len(marker)
      PROVE  /\ i + j - 1 <= Len(rest) <=> n + i + j - 1 <= Len(t)
             /\ i + j - 1 <= Len(rest) => rest[i + j - 1] = t[n + i + j - 1]
  <2>1. i + j - 1 <= Len(rest) <=> n + i + j - 1 <= Len(t)
    BY <1>1, <1>2
  <2>2. ASSUME i + j - 1 <= Len(rest) PROVE rest[i + j - 1] = t[n + i + j - 1]
    <3> PICK k : k = i + j - 1 OBVIOUS
    <3>1. k \in 1 .. Len(t) - n /\ n + k = n + i + j - 1
      BY <1>1, <1>2, <2>2
    <3> QED BY <1>2, <3>1
  <2> QED BY <2>1, <2>2
<1>4. Starts(marker, rest, i) <=> Starts(marker, t, n + i)
  BY <1>3 DEF Starts
<1> QED
  BY <1>4 DEF rest

(* More of the text never takes back what was emitted. *)
LEMMA EmittedLonger ==
  ASSUME NEW marker \in Texts, Len(marker) > 0, NEW t \in Texts, NEW b \in Texts
  PROVE  /\ Emitted(marker, t) <= Emitted(marker, t \o b)
         /\ Emitted(marker, t \o b) \in 0 .. Len(t \o b)
         /\ Emitted(marker, t) \in 0 .. Len(t)
<1> PICK u, e, f : u = t \o b /\ e = Emitted(marker, t) /\ f = Emitted(marker, u) OBVIOUS
<1>1. /\ u \in Texts /\ Len(u) = Len(t) + Len(b) /\ Len(t) \in Nat /\ Len(b) \in Nat
  BY ConcatText DEF Texts
<1>2. e \in 0 .. Len(t) /\ \A i \in 1 .. e : ~Starts(marker, t, i)
  BY EmittedInFront
<1>3. f \in 0 .. Len(u) /\ Starts(marker, u, f + 1)
  BY <1>1, EmittedInFront
<1>4. Starts(marker, t, f + 1)
  <2> PICK i : i = f + 1 OBVIOUS
  <2>1. i \in Nat /\ 1 <= i
    BY <1>1, <1>3
  <2>2. Starts(marker, t \o b, i)
    BY <1>3
  <2> QED BY <2>1, <2>2, StartsLonger
<1>5. f + 1 <= e => f + 1 \in 1 .. e
  BY <1>1, <1>2, <1>3
<1> QED
  BY <1>1, <1>2, <1>3, <1>4, <1>5

(* What is emitted of the rest of a text. *)
LEMMA EmittedShifted ==
  ASSUME NEW marker \in Texts, Len(marker) > 0, NEW t \in Texts,
         NEW n \in 0 .. Emitted(marker, t)
  PROVE  Emitted(marker, From(t, n + 1)) = Emitted(marker, t) - n
<1> PICK e, s : e = Emitted(marker, t) /\ s = From(t, n + 1) OBVIOUS
<1>1. /\ e \in 0 .. Len(t) /\ Starts(marker, t, e + 1) /\ Len(t) \in Nat
      /\ \A i \in 1 .. e : ~Starts(marker, t, i)
  BY EmittedInFront DEF Texts
<1>2. n \in Nat /\ n <= e /\ n <= Len(t) /\ e - n \in Nat
  BY <1>1
<1>3. s \in Texts /\ Len(s) = Len(t) - n
  <2> PICK m : m = n + 1 OBVIOUS
  <2>1. m \in Nat /\ 1 <= m /\ m <= Len(t) + 1
    BY <1>1, <1>2
  <2>2. From(t, m) \in Texts /\ Len(From(t, m)) = Len(t) - m + 1
    BY <2>1, FromTyped
  <2> QED BY <1>1, <1>2, <2>2
<1>4. ASSUME NEW i \in Nat, 1 <= i PROVE Starts(marker, s, i) <=> Starts(marker, t, n + i)
  BY <1>2, <1>4, StartsShifted
<1>5. Starts(marker, s, e - n + 1)
  <2>1. e - n + 1 \in Nat /\ 1 <= e - n + 1 /\ n + (e - n + 1) = e + 1
    BY <1>1, <1>2
  <2> QED BY <1>1, <1>4, <2>1
<1>6. ASSUME NEW i \in 1 .. e - n PROVE ~Starts(marker, s, i)
  <2>1. i \in Nat /\ 1 <= i /\ n + i \in 1 .. e
    BY <1>1, <1>2
  <2> QED BY <1>1, <1>4, <2>1
<1>7. e - n <= Len(s)
  BY <1>1, <1>2, <1>3
<1> QED
  BY <1>2, <1>3, <1>5, <1>6, <1>7, EmittedIs

(* A marker at the front, or a text that may become one. *)
LEMMA StartsInFront ==
  ASSUME NEW marker \in Texts, NEW t \in Texts
  PROVE  Starts(marker, t, 1) <=> IsPrefix(marker, t) \/ IsPrefix(t, marker)
<1>1. Len(t) \in Nat /\ Len(marker) \in Nat
  BY DEF Texts
<1>2. Starts(marker, t, 1) <=> \A j \in 1 .. Len(marker) : j <= Len(t) => t[j] = marker[j]
  BY <1>1 DEF Starts
<1>3. /\ IsPrefix(marker, t) <=> Len(marker) <= Len(t) /\ \A i \in 1 .. Len(marker) : marker[i] = t[i]
      /\ IsPrefix(t, marker) <=> Len(t) <= Len(marker) /\ \A i \in 1 .. Len(t) : t[i] = marker[i]
  BY PrefixText
<1>4. CASE Len(marker) <= Len(t)
  <2>1. Starts(marker, t, 1) <=> IsPrefix(marker, t)
    BY <1>1, <1>2, <1>3, <1>4
  <2>2. IsPrefix(t, marker) => Starts(marker, t, 1)
    BY <1>1, <1>2, <1>3
  <2> QED BY <2>1, <2>2
<1>5. CASE Len(t) <= Len(marker)
  <2>1. Starts(marker, t, 1) <=> IsPrefix(t, marker)
    BY <1>1, <1>2, <1>3, <1>5
  <2>2. IsPrefix(marker, t) => Starts(marker, t, 1)
    BY <1>1, <1>2, <1>3
  <2> QED BY <2>1, <2>2
<1> QED
  BY <1>1, <1>4, <1>5

(* Nothing is emitted in front of a marker, or of what may become one. *)
LEMMA EmittedNothing ==
  ASSUME NEW marker \in Texts, Len(marker) > 0, NEW t \in Texts
  PROVE  Emitted(marker, t) = 0 <=> IsPrefix(marker, t) \/ IsPrefix(t, marker)
<1> PICK e : e = Emitted(marker, t) OBVIOUS
<1>1. /\ e \in 0 .. Len(t) /\ Starts(marker, t, e + 1) /\ Len(t) \in Nat
      /\ \A i \in 1 .. e : ~Starts(marker, t, i)
  BY EmittedInFront DEF Texts
<1>2. e = 0 => Starts(marker, t, 1)
  BY <1>1
<1>3. e # 0 => 1 \in 1 .. e
  BY <1>1
<1>4. e = 0 <=> Starts(marker, t, 1)
  BY <1>1, <1>2, <1>3
<1> QED
  BY <1>4, StartsInFront

(* A marker that was found is found at the same place in a longer text. *)
LEMMA FoundInLonger ==
  ASSUME NEW marker \in Texts, Len(marker) > 0, NEW t \in Texts, NEW b \in Texts,
         Find(marker, t) > 0
  PROVE  Find(marker, t \o b) = Find(marker, t)
<1> PICK u, at : u = t \o b /\ at = Find(marker, t) OBVIOUS
<1>1. /\ u \in Texts /\ Len(u) = Len(t) + Len(b) /\ Len(t) \in Nat /\ Len(b) \in Nat
      /\ Len(marker) \in Nat
      /\ \A i \in 1 .. Len(t) : u[i] = t[i]
  BY ConcatText DEF Texts
<1>2. /\ at \in 1 .. Len(t) /\ at \in Occurrences(marker, t)
      /\ at + Len(marker) - 1 <= Len(t)
  BY <1>1, Found
<1>3. \A i \in 1 .. at - 1 : ~Starts(marker, t, i)
  <2>1. Emitted(marker, t) = at - 1
    BY DEF Emitted
  <2> QED BY <2>1, EmittedInFront
<1>4. at \in Occurrences(marker, u)
  <2>1. Starts(marker, t, at)
    BY <1>2, OccursAt
  <2>2. ASSUME NEW j \in 1 .. Len(marker), at + j - 1 <= Len(u)
        PROVE  u[at + j - 1] = marker[j]
    <3>1. at + j - 1 \in 1 .. Len(t) /\ at + j - 1 <= Len(t)
      BY <1>1, <1>2
    <3> QED BY <1>1, <2>1, <3>1 DEF Starts
  <2>3. Starts(marker, u, at)
    BY <2>2 DEF Starts
  <2>4. at \in 1 .. Len(u) /\ at + Len(marker) - 1 <= Len(u)
    BY <1>1, <1>2
  <2> QED BY <1>1, <2>3, <2>4, OccursAt
<1>5. Occurrences(marker, u) \in SUBSET Nat /\ Occurrences(marker, u) \subseteq 1 .. Len(u)
  BY <1>1 DEF Occurrences, Texts
<1> PICK f : f = Find(marker, u) OBVIOUS
<1>6. f \in Occurrences(marker, u) /\ f <= at /\ f \in 1 .. Len(u)
  <2>1. f = Min(Occurrences(marker, u))
    BY <1>4 DEF Find
  <2> QED BY <1>4, <1>5, <2>1, MinOfNaturals
<1>7. Starts(marker, u, f)
  BY <1>1, <1>6, OccursAt
<1>8. Starts(marker, t, f)
  <2>1. f \in Nat /\ 1 <= f /\ Starts(marker, t \o b, f)
    BY <1>6, <1>7
  <2> QED BY <2>1, StartsLonger
<1>9. ~(f \in 1 .. at - 1)
  BY <1>3, <1>8
<1> QED
  BY <1>1, <1>2, <1>6, <1>9

-----------------------------------------------------------------------------
(* The text the deltas of a kind carry.                                     *)

(* The text of every delta, or none. *)
LEMMA TextsOf ==
  ASSUME NEW kind \in Kinds, NEW deltas \in Seq(DeltaSet)
  PROVE  [i \in DOMAIN deltas |-> IF deltas[i].kind = kind THEN deltas[i].text ELSE <<>>]
           \in Seq(Texts)
<1> DEFINE none == <<>>
<1>1. none \in Texts
  BY DEF Texts
<1> HIDE DEF none
<1>2. ASSUME NEW i \in DOMAIN deltas
      PROVE  (IF deltas[i].kind = kind THEN deltas[i].text ELSE none) \in Texts
  <2>1. deltas[i] \in DeltaSet
    BY ElementOfSeq
  <2> QED BY <1>1, <2>1 DEF DeltaSet
<1>3. [i \in DOMAIN deltas |-> IF deltas[i].kind = kind THEN deltas[i].text ELSE none]
        \in Seq(Texts)
  <2>1. DOMAIN deltas = 1 .. Len(deltas) /\ Len(deltas) \in Nat
    OBVIOUS
  <2>2. [i \in DOMAIN deltas |-> IF deltas[i].kind = kind THEN deltas[i].text ELSE none]
          \in [1 .. Len(deltas) -> Texts]
    BY <1>2, <2>1
  <2> QED BY <2>1, <2>2, SeqDef
<1> QED
  BY <1>3 DEF none

(* Deltas behind deltas. *)
LEMMA TextOfConcat ==
  ASSUME NEW kind \in Kinds, NEW d \in Seq(DeltaSet), NEW e \in Seq(DeltaSet)
  PROVE  /\ TextOf(kind, d \o e) = TextOf(kind, d) \o TextOf(kind, e)
         /\ TextOf(kind, d) \in Texts /\ TextOf(kind, e) \in Texts
<1>0. ASSUME NEW x \in Seq(Texts), NEW y \in Seq(Texts), Len(x) = Len(y),
             \A i \in 1 .. Len(x) : x[i] = y[i]
      PROVE  x = y
  BY <1>0, SeqEqual
<1> DEFINE all == d \o e
           f(s) == [i \in DOMAIN s |-> IF s[i].kind = kind THEN s[i].text ELSE <<>>]
<1>1. /\ all \in Seq(DeltaSet) /\ Len(all) = Len(d) + Len(e)
      /\ Len(d) \in Nat /\ Len(e) \in Nat
      /\ \A i \in 1 .. Len(d) + Len(e) : all[i] = IF i <= Len(d) THEN d[i] ELSE e[i - Len(d)]
  BY ConcatProperties
<1> HIDE DEF all
<1>2. f(all) \in Seq(Texts) /\ f(d) \in Seq(Texts) /\ f(e) \in Seq(Texts)
  BY <1>1, TextsOf
<1>3. Len(f(all)) = Len(all) /\ Len(f(d)) = Len(d) /\ Len(f(e)) = Len(e)
  BY <1>1
<1>4. f(all) = f(d) \o f(e)
  <2> PICK a, b, c : a = f(d) /\ b = f(e) /\ c = f(all) OBVIOUS
  <2>1. /\ a \in Seq(Texts) /\ b \in Seq(Texts) /\ c \in Seq(Texts)
        /\ Len(c) = Len(a) + Len(b) /\ Len(a) = Len(d) /\ Len(b) = Len(e)
    BY <1>1, <1>2, <1>3
  <2>2. /\ a \o b \in Seq(Texts) /\ Len(a \o b) = Len(a) + Len(b)
        /\ \A i \in 1 .. Len(a) + Len(b) : (a \o b)[i] = IF i <= Len(a) THEN a[i] ELSE b[i - Len(a)]
    BY <2>1, ConcatProperties
  <2>3. ASSUME NEW i \in 1 .. Len(c) PROVE c[i] = (a \o b)[i]
    <3>0. i \in DOMAIN all /\ i \in 1 .. Len(d) + Len(e)
      BY <1>1, <2>1
    <3>1. CASE i <= Len(d)
      <4>1. i \in DOMAIN d
        BY <1>1, <3>1
      <4>2. c[i] = a[i]
        BY <1>1, <3>0, <3>1, <4>1
      <4> QED BY <2>1, <2>2, <3>1, <4>2
    <3>2. CASE ~(i <= Len(d))
      <4>1. i - Len(d) \in DOMAIN e
        BY <1>1, <3>0, <3>2
      <4>2. c[i] = b[i - Len(d)]
        BY <1>1, <3>0, <3>2, <4>1
      <4> QED BY <2>1, <2>2, <3>2, <4>2
    <3> QED BY <3>1, <3>2
  <2>4. c = a \o b
    <3> PICK z : z = a \o b OBVIOUS
    <3>1. z \in Seq(Texts) /\ Len(z) = Len(c) /\ \A i \in 1 .. Len(c) : c[i] = z[i]
      BY Zenon, <2>1, <2>2, <2>3
    <3>2. c = z
      <4>1. c \in Seq(Texts) /\ z \in Seq(Texts) /\ Len(c) = Len(z)
        BY <2>1, <3>1
      <4> QED BY <1>0, <3>1, <4>1
    <3> QED BY <3>2
  <2> QED BY <2>4
<1>5. TextOf(kind, all) = FlattenSeq(f(all)) /\ TextOf(kind, d) = FlattenSeq(f(d))
      /\ TextOf(kind, e) = FlattenSeq(f(e))
  BY DEF TextOf
<1> QED
  <2> PICK a, b : a = f(d) /\ b = f(e) OBVIOUS
  <2> HIDE DEF f
  <2>1. a \in Seq(Seq(Letter)) /\ b \in Seq(Seq(Letter))
    BY <1>2 DEF Texts
  <2>2. FlattenSeq(a \o b) = FlattenSeq(a) \o FlattenSeq(b)
        /\ FlattenSeq(a) \in Seq(Letter) /\ FlattenSeq(b) \in Seq(Letter)
    BY <2>1, FlattenConcat
  <2> QED BY <1>4, <1>5, <2>2 DEF all, Texts

(* No deltas, no text. *)
LEMMA TextOfNothing ==
  ASSUME NEW kind \in Kinds
  PROVE  TextOf(kind, <<>>) = <<>>
<1> DEFINE f == [i \in DOMAIN <<>> |-> IF <<>>[i].kind = kind THEN <<>>[i].text ELSE <<>>]
<1>1. f = <<>>
  OBVIOUS
<1>2. FlattenSeq(<<>>) = <<>>
  BY DEF FlattenSeq
<1> QED
  BY <1>1, <1>2 DEF TextOf

(* One delta. *)
LEMMA TextOfOne ==
  ASSUME NEW kind \in Kinds, NEW d \in DeltaSet
  PROVE  TextOf(kind, <<d>>) = IF d.kind = kind THEN d.text ELSE <<>>
<1> DEFINE x == IF d.kind = kind THEN d.text ELSE <<>>
           f == [i \in DOMAIN <<d>> |-> IF <<d>>[i].kind = kind THEN <<d>>[i].text ELSE <<>>]
<1>1. x \in Seq(Letter)
  BY DEF DeltaSet, Texts
<1>2. f = <<x>>
  OBVIOUS
<1>3. TextOf(kind, <<d>>) = FlattenSeq(f)
  BY DEF TextOf
<1> HIDE DEF x, f
<1>4. FlattenSeq(<<x>>) = x
  BY <1>1, FlattenOne
<1> QED
  BY <1>2, <1>3, <1>4 DEF x

-----------------------------------------------------------------------------
(* Two parsers that differ in what they have said at most.                  *)

Modes == {"Reasoning", "Text", "Tool"}

Ahead(p, q, said) ==
  /\ p.mode = q.mode /\ p.tools = q.tools /\ p.pending = q.pending
  /\ p.initial_reasoning = q.initial_reasoning
  /\ p.trim_answer_newlines = q.trim_answer_newlines
  /\ \A kind \in Kinds : TextOf(kind, p.deltas) = said[kind] \o TextOf(kind, q.deltas)

Saids == [Kinds -> Texts]

(* How much is emitted when a marker is looked for. *)
Before(marker, t, finished) ==
  IF Find(marker, t) > 0 THEN Find(marker, t) - 1
  ELSE Len(t) - IF finished THEN 0 ELSE marker_suffix_len(t, marker)

(* A parser with some of its fields changed. *)
LEMMA Changed ==
  ASSUME NEW p \in Parsers, NEW t \in Texts, NEW m \in Modes, NEW i \in BOOLEAN,
         NEW n \in Nat,
         NEW q, q = [p EXCEPT !.pending = t, !.initial_reasoning = i, !.mode = m,
                              !.trim_answer_newlines = n]
  PROVE  /\ q \in Parsers /\ q.pending = t /\ q.initial_reasoning = i /\ q.mode = m
         /\ q.trim_answer_newlines = n /\ q.tools = p.tools /\ q.deltas = p.deltas
BY DEF Parsers, Modes

EmitsBefore(p, kind, marker, finished) ==
  /\ EmitBefore(p, kind, marker, finished) = Emit(p, kind, Before(marker, p.pending, finished))
  /\ Before(marker, p.pending, finished) \in 0 .. Len(p.pending)
  /\ ~finished => Before(marker, p.pending, finished) = Emitted(marker, p.pending)

(* EmitBefore is Emit, of what is in front of the marker. *)
LEMMA EmitBeforeIs ==
  ASSUME NEW p \in Parsers, NEW kind \in Kinds, NEW marker \in Texts, Len(marker) > 0,
         NEW finished \in BOOLEAN
  PROVE  EmitsBefore(p, kind, marker, finished)
<1> PICK t : t = p.pending OBVIOUS
<1>1. t \in Texts /\ Len(t) \in Nat
  BY ParserFields
<1>2. marker_suffix_len(t, marker) \in 0 .. Len(t) /\ Find(marker, t) \in 0 .. Len(t)
  BY <1>1, SuffixLength, Found
<1>3. Before(marker, t, finished) \in 0 .. Len(t)
  BY <1>1, <1>2 DEF Before
<1>4. ~finished => Before(marker, t, finished) = Emitted(marker, t)
  BY <1>1, <1>2 DEF Before, Emitted
<1>5. EmitBefore(p, kind, marker, finished) = Emit(p, kind, Before(marker, t, finished))
  BY <1>1, <1>2 DEF EmitBefore, Before
<1> QED
  BY <1>3, <1>4, <1>5 DEF EmitsBefore

(* What is emitted. *)
Emits(p, kind, count, q) ==
  /\ q.mode = p.mode /\ q.tools = p.tools
  /\ q.initial_reasoning = p.initial_reasoning
  /\ q.trim_answer_newlines = p.trim_answer_newlines
  /\ q.pending = From(p.pending, count + 1)
  /\ TextOf(kind, q.deltas) = TextOf(kind, p.deltas) \o SubSeq(p.pending, 1, count)
  /\ \A k \in Kinds : k # kind => TextOf(k, q.deltas) = TextOf(k, p.deltas)

(* What is emitted has been said. *)
LEMMA EmitSays ==
  ASSUME NEW p \in Parsers, NEW kind \in Kinds, NEW count \in 0 .. Len(p.pending)
  PROVE  /\ Emit(p, kind, count) \in Parsers
         /\ Emits(p, kind, count, Emit(p, kind, count))
<1> PICK q : q = Emit(p, kind, count) OBVIOUS
<1>1. /\ q \in Parsers /\ q.mode = p.mode /\ q.tools = p.tools
      /\ q.initial_reasoning = p.initial_reasoning
      /\ q.trim_answer_newlines = p.trim_answer_newlines
  BY EmitTyped
<1>2. p.pending \in Texts /\ Len(p.pending) \in Nat /\ p.deltas \in Seq(DeltaSet) /\ count \in Nat
  BY ParserFields
<1> PICK t, ds : t = p.pending /\ ds = p.deltas OBVIOUS
<1>3. TextOf(kind, ds) \in Texts
  BY <1>2, TextOfConcat
<1>4. CASE count = 0
  <2>1. q = p
    BY <1>4 DEF Emit
  <2>2. From(t, 1) = t /\ SubSeq(t, 1, 0) = <<>>
    BY <1>2, SubSeqFull, SubSeqEmpty DEF From, Texts
  <2>3. TextOf(kind, ds) \o <<>> = TextOf(kind, ds)
    BY <1>3, ConcatEmptySeq DEF Texts
  <2>4. q.pending = From(p.pending, count + 1)
    BY <1>4, <2>1, <2>2
  <2>5. TextOf(kind, q.deltas) = TextOf(kind, p.deltas) \o SubSeq(p.pending, 1, count)
    BY <1>4, <2>1, <2>2, <2>3
  <2> QED BY <1>1, <2>1, <2>4, <2>5 DEF Emits
<1>5. CASE count # 0
  <2> DEFINE part == SubSeq(t, 1, count)
             rest == From(t, count + 1)
             d == [kind |-> kind, text |-> part]
             more == Append(ds, d)
  <2>1. d \in DeltaSet /\ d.kind = kind /\ d.text = part
    <3>1. part \in Texts
      BY <1>2, PartTyped
    <3> HIDE DEF part
    <3> QED BY <3>1 DEF DeltaSet
  <2>2. q = [p EXCEPT !.pending = rest, !.deltas = more]
    BY <1>5 DEF Emit
  <2> HIDE DEF rest, part, d, more
  <2>3. q.pending = rest /\ q.deltas = more
    BY <2>2 DEF Parsers
  <2>4. more = ds \o <<d>> /\ <<d>> \in Seq(DeltaSet)
    BY <1>2, <2>1 DEF more
  <2>5. ASSUME NEW k \in Kinds
        PROVE  TextOf(k, more) = TextOf(k, ds) \o (IF k = kind THEN part ELSE <<>>)
    <3> PICK one : one = <<d>> OBVIOUS
    <3>1. one \in Seq(DeltaSet) /\ ds \in Seq(DeltaSet)
      BY <1>2, <2>4
    <3>2. TextOf(k, ds \o one) = TextOf(k, ds) \o TextOf(k, one)
      BY <3>1, TextOfConcat
    <3>3. TextOf(k, one) = IF d.kind = k THEN d.text ELSE <<>>
      BY <2>1, TextOfOne
    <3> QED BY <2>1, <2>4, <3>2, <3>3
  <2>6. ASSUME NEW k \in Kinds, k # kind PROVE TextOf(k, q.deltas) = TextOf(k, p.deltas)
    <3>1. TextOf(k, ds) \in Texts
      BY <1>2, TextOfConcat
    <3>2. TextOf(k, ds) \o <<>> = TextOf(k, ds)
      BY <3>1, ConcatEmptySeq DEF Texts
    <3>3. TextOf(k, more) = TextOf(k, ds) \o <<>>
      BY <2>5, <2>6
    <3> QED BY <2>3, <3>2, <3>3
  <2>7. TextOf(kind, q.deltas) = TextOf(kind, p.deltas) \o part
    BY <2>3, <2>5
  <2> QED BY <1>1, <2>3, <2>6, <2>7 DEF Emits, rest, part
<1> QED
  BY <1>2, <1>4, <1>5

(* Emitting the same, a parser stays ahead. *)
LEMMA EmitAhead ==
  ASSUME NEW p \in Parsers, NEW q \in Parsers, NEW said \in Saids, Ahead(p, q, said),
         NEW kind \in Kinds, NEW count \in 0 .. Len(p.pending)
  PROVE  Ahead(Emit(p, kind, count), Emit(q, kind, count), said)
<1>0. ASSUME NEW a \in Seq(Letter), NEW b \in Seq(Letter), NEW c \in Seq(Letter)
      PROVE  (a \o b) \o c = a \o (b \o c)
  <2>1. Reassociates(a, b, c)
    BY Associative
  <2> QED BY <2>1 DEF Reassociates
<1> PICK x : x = Emit(p, kind, count) OBVIOUS
<1> PICK y : y = Emit(q, kind, count) OBVIOUS
<1> DEFINE part == SubSeq(p.pending, 1, count)
<1>1. p.pending = q.pending /\ p.pending \in Texts /\ Len(p.pending) \in Nat /\ count \in 0 .. Len(q.pending)
      /\ p.deltas \in Seq(DeltaSet) /\ q.deltas \in Seq(DeltaSet) /\ part \in Texts
  <2>1. p.pending \in Texts /\ Len(p.pending) \in Nat /\ p.deltas \in Seq(DeltaSet) /\ q.deltas \in Seq(DeltaSet)
    BY ParserFields
  <2>2. part \in Texts
    BY <2>1, PartTyped
  <2> QED BY <2>1, <2>2 DEF Ahead
<1>2. /\ x.mode = p.mode /\ x.tools = p.tools
      /\ x.initial_reasoning = p.initial_reasoning
      /\ x.trim_answer_newlines = p.trim_answer_newlines
      /\ x.pending = From(p.pending, count + 1)
      /\ TextOf(kind, x.deltas) = TextOf(kind, p.deltas) \o part
      /\ \A k \in Kinds : k # kind => TextOf(k, x.deltas) = TextOf(k, p.deltas)
  <2>1. Emits(p, kind, count, x)
    BY EmitSays
  <2> QED BY <2>1 DEF Emits
<1>3. /\ y.mode = q.mode /\ y.tools = q.tools
      /\ y.initial_reasoning = q.initial_reasoning
      /\ y.trim_answer_newlines = q.trim_answer_newlines
      /\ y.pending = From(q.pending, count + 1)
      /\ TextOf(kind, y.deltas) = TextOf(kind, q.deltas) \o part
      /\ \A k \in Kinds : k # kind => TextOf(k, y.deltas) = TextOf(k, q.deltas)
  <2>1. Emits(q, kind, count, y)
    BY <1>1, EmitSays
  <2> QED BY <1>1, <2>1 DEF Emits
<1>4. (said[kind] \o TextOf(kind, q.deltas)) \o part = said[kind] \o (TextOf(kind, q.deltas) \o part)
  <2>1. said[kind] \in Texts /\ TextOf(kind, q.deltas) \in Texts
    BY <1>1, TextOfConcat DEF Saids
  <2> PICK a, b, c : a = said[kind] /\ b = TextOf(kind, q.deltas) /\ c = part OBVIOUS
  <2>2. a \in Seq(Letter) /\ b \in Seq(Letter) /\ c \in Seq(Letter)
    BY <1>1, <2>1 DEF Texts
  <2>3. (a \o b) \o c = a \o (b \o c)
    BY ONLY Zenon, <1>0, <2>2
  <2> QED BY <2>3
<1> HIDE DEF part
<1>5. \A k \in Kinds : TextOf(k, x.deltas) = said[k] \o TextOf(k, y.deltas)
  BY <1>2, <1>3, <1>4 DEF Ahead
<1>6. Ahead(x, y, said)
  BY <1>1, <1>2, <1>3, <1>5 DEF Ahead
<1> QED
  BY <1>6

(* How many newlines are trimmed. *)
Newlines(t, n) ==
  Max({c \in 0 .. Min({n, Len(t)}) : \A i \in 1 .. c : t[i] = Newline})

Stops(t, n, c) == c = n \/ c = Len(t) \/ t[c + 1] # Newline

(* The newlines at the front. *)
LEMMA NewlinesOf ==
  ASSUME NEW t \in Texts, NEW n \in Nat, NEW c, c = Newlines(t, n)
  PROVE  /\ c \in 0 .. Len(t) /\ c <= n
         /\ \A i \in 1 .. c : t[i] = Newline
         /\ Stops(t, n, c)
<1> DEFINE most == Min({n, Len(t)})
           counts == {m \in 0 .. most : \A i \in 1 .. m : t[i] = Newline}
<1>1. Len(t) \in Nat
  BY DEF Texts
<1>2. most = IF n <= Len(t) THEN n ELSE Len(t)
  <2> PICK b : b = Len(t) OBVIOUS
  <2>1. Min({n, b}) = IF n <= b THEN n ELSE b
    BY <1>1, MinOfTwo
  <2> QED BY <1>1, <2>1
<1>3. c = Max(counts)
  BY DEF Newlines
<1> HIDE DEF most
<1>4. most \in Nat /\ most <= n /\ most <= Len(t) /\ (most = n \/ most = Len(t))
  BY <1>1, <1>2
<1>5. c \in counts /\ \A m \in counts : m <= c
  <2>1. counts \in SUBSET Nat /\ 0 \in counts /\ \A m \in counts : m <= most
    BY <1>4
  <2> HIDE DEF counts
  <2> QED BY <1>3, <1>4, <2>1, MaxOfNaturals
<1>6. ASSUME c # n, c # Len(t), t[c + 1] = Newline PROVE FALSE
  <2>1. c + 1 \in 0 .. most
    BY <1>1, <1>4, <1>5, <1>6
  <2>2. ASSUME NEW i \in 1 .. c + 1 PROVE t[i] = Newline
    <3>1. i \in 1 .. c \/ i = c + 1
      BY <1>4, <1>5
    <3> QED BY <1>5, <1>6, <3>1
  <2>3. c + 1 \in counts
    BY <2>1, <2>2
  <2> QED BY <1>4, <1>5, <2>3
<1> QED
  BY <1>1, <1>4, <1>5, <1>6 DEF Stops

(* When they are known to be the newlines at the front. *)
LEMMA NewlinesAre ==
  ASSUME NEW t \in Texts, NEW n \in Nat, NEW c \in 0 .. Len(t), c <= n,
         \A i \in 1 .. c : t[i] = Newline, Stops(t, n, c)
  PROVE  Newlines(t, n) = c
<1> PICK d : d = Newlines(t, n) OBVIOUS
<1>1. /\ d \in 0 .. Len(t) /\ d <= n
      /\ \A i \in 1 .. d : t[i] = Newline
      /\ Stops(t, n, d)
  BY NewlinesOf
<1>2. Len(t) \in Nat
  BY DEF Texts
<1>3. ~(c < d)
  <2>1. c < d => c + 1 \in 1 .. d
    BY <1>1, <1>2
  <2> QED BY <1>1, <1>2, <2>1 DEF Stops
<1>4. ~(d < c)
  <2>1. d < c => d + 1 \in 1 .. c
    BY <1>1, <1>2
  <2> QED BY <1>1, <1>2, <2>1 DEF Stops
<1> QED
  BY <1>1, <1>2, <1>3, <1>4

(* What Trimmed leaves. *)
Trims(p, q) ==
  /\ q.mode = p.mode /\ q.tools = p.tools
  /\ q.initial_reasoning = p.initial_reasoning
  /\ q.trim_answer_newlines = p.trim_answer_newlines - Newlines(p.pending, p.trim_answer_newlines)
  /\ q.pending = From(p.pending, Newlines(p.pending, p.trim_answer_newlines) + 1)
  /\ q.deltas = p.deltas

(* Trimmed takes the newlines at the front. *)
LEMMA TrimmedIs ==
  ASSUME NEW p \in Parsers
  PROVE  Trimmed(p) \in Parsers /\ Trims(p, Trimmed(p))
<1> PICK q : q = Trimmed(p) OBVIOUS
<1>1. q \in Parsers
  BY TrimmedTyped
<1> DEFINE c == Newlines(p.pending, p.trim_answer_newlines)
           rest == From(p.pending, c + 1)
           trim == p.trim_answer_newlines - c
<1>2. q = [p EXCEPT !.pending = rest, !.trim_answer_newlines = trim]
  BY DEF Trimmed, Newlines
<1> HIDE DEF rest, trim
<1>3. /\ q.mode = p.mode /\ q.tools = p.tools
      /\ q.initial_reasoning = p.initial_reasoning
      /\ q.trim_answer_newlines = trim /\ q.pending = rest
      /\ q.deltas = p.deltas
  BY <1>2 DEF Parsers
<1> QED
  BY <1>1, <1>3 DEF Trims, rest, trim

-----------------------------------------------------------------------------
(* Parsers apart in what they said take the same turns.                     *)

(* A turn in reasoning leaves a parser ahead. *)
LEMMA ReasoningAhead ==
  ASSUME NEW p \in Parsers, NEW q \in Parsers, NEW said \in Saids, Ahead(p, q, said),
         NEW finished \in BOOLEAN
  PROVE  Ahead(Reasoning(p, finished), Reasoning(q, finished), said)
<1> PICK t : t = p.pending OBVIOUS
<1>0. t \in Texts /\ q.pending = t /\ q.initial_reasoning = p.initial_reasoning
  BY ParserFields DEF Ahead
<1>1. CASE p.initial_reasoning /\ IsPrefix(OPEN_THINK, t)
  <2> PICK rest : rest = From(t, Len(OPEN_THINK) + 1) OBVIOUS
  <2> PICK x : x = [p EXCEPT !.pending = rest, !.initial_reasoning = FALSE] OBVIOUS
  <2> PICK y : y = [q EXCEPT !.pending = rest, !.initial_reasoning = FALSE] OBVIOUS
  <2>1. Reasoning(p, finished) = x /\ Reasoning(q, finished) = y
    BY <1>0, <1>1 DEF Reasoning
  <2>2. Ahead(x, y, said)
    BY DEF Ahead, Parsers
  <2> QED BY <2>1, <2>2
<1>2. CASE /\ ~(p.initial_reasoning /\ IsPrefix(OPEN_THINK, t))
           /\ p.initial_reasoning /\ ~finished /\ IsPrefix(t, OPEN_THINK)
  <2>1. Reasoning(p, finished) = p /\ Reasoning(q, finished) = q
    BY <1>0, <1>2 DEF Reasoning
  <2> QED BY <2>1
<1>3. CASE /\ ~(p.initial_reasoning /\ IsPrefix(OPEN_THINK, t))
           /\ ~(p.initial_reasoning /\ ~finished /\ IsPrefix(t, OPEN_THINK))
           /\ IsPrefix(CLOSE_THINK, t)
  <2> PICK rest : rest = From(t, Len(CLOSE_THINK) + 1) OBVIOUS
  <2> PICK x : x = [p EXCEPT !.pending = rest, !.initial_reasoning = FALSE,
                             !.mode = "Text", !.trim_answer_newlines = 2] OBVIOUS
  <2> PICK y : y = [q EXCEPT !.pending = rest, !.initial_reasoning = FALSE,
                             !.mode = "Text", !.trim_answer_newlines = 2] OBVIOUS
  <2>1. Reasoning(p, finished) = x /\ Reasoning(q, finished) = y
    BY <1>0, <1>3 DEF Reasoning
  <2>2. Ahead(x, y, said)
    BY DEF Ahead, Parsers
  <2> QED BY <2>1, <2>2
<1>4. CASE /\ ~(p.initial_reasoning /\ IsPrefix(OPEN_THINK, t))
           /\ ~(p.initial_reasoning /\ ~finished /\ IsPrefix(t, OPEN_THINK))
           /\ ~IsPrefix(CLOSE_THINK, t)
  <2> PICK x : x = [p EXCEPT !.initial_reasoning = FALSE] OBVIOUS
  <2> PICK y : y = [q EXCEPT !.initial_reasoning = FALSE] OBVIOUS
  <2>1. /\ Reasoning(p, finished) = EmitBefore(x, "Reasoning", CLOSE_THINK, finished)
        /\ Reasoning(q, finished) = EmitBefore(y, "Reasoning", CLOSE_THINK, finished)
    BY <1>0, <1>4 DEF Reasoning
  <2>2. Ahead(x, y, said) /\ x \in Parsers /\ y \in Parsers /\ x.pending = t /\ y.pending = t
    BY <1>0 DEF Ahead, Parsers
  <2>3. CLOSE_THINK \in Texts /\ Len(CLOSE_THINK) > 0 /\ "Reasoning" \in Kinds
    BY Markers DEF Kinds
  <2> PICK count : count = Before(CLOSE_THINK, t, finished) OBVIOUS
  <2>4. /\ EmitBefore(x, "Reasoning", CLOSE_THINK, finished) = Emit(x, "Reasoning", count)
        /\ EmitBefore(y, "Reasoning", CLOSE_THINK, finished) = Emit(y, "Reasoning", count)
        /\ count \in 0 .. Len(x.pending)
    <3> PICK k, m : k = "Reasoning" /\ m = CLOSE_THINK OBVIOUS
    <3>1. k \in Kinds /\ m \in Texts /\ Len(m) > 0
      BY <2>3
    <3>2. EmitsBefore(x, k, m, finished)
      BY <2>2, <3>1, EmitBeforeIs
    <3>3. EmitsBefore(y, k, m, finished)
      BY <2>2, <3>1, EmitBeforeIs
    <3> QED BY <2>2, <3>2, <3>3 DEF EmitsBefore
  <2>5. Ahead(Emit(x, "Reasoning", count), Emit(y, "Reasoning", count), said)
    BY <2>2, <2>3, <2>4, EmitAhead
  <2> QED BY <2>1, <2>4, <2>5
<1> QED
  BY <1>1, <1>2, <1>3, <1>4

(* So does trimming. *)
LEMMA TrimmedAhead ==
  ASSUME NEW p \in Parsers, NEW q \in Parsers, NEW said \in Saids, Ahead(p, q, said)
  PROVE  Ahead(Trimmed(p), Trimmed(q), said)
<1>1. Trims(p, Trimmed(p)) /\ Trims(q, Trimmed(q))
  BY TrimmedIs
<1> QED
  BY <1>1 DEF Ahead, Trims

TextTurn(p, finished, q, r) ==
  /\ q \in Parsers /\ r \in Parsers
  /\ r.mode = q.mode /\ r.tools = p.tools /\ r.pending = q.pending
  /\ r.initial_reasoning = q.initial_reasoning
  /\ r.trim_answer_newlines = 0 /\ r.deltas = q.deltas
  /\ Text(p, finished) =
       IF q.trim_answer_newlines > 0 /\ q.pending = <<>> THEN q
       ELSE IF ~p.tools THEN Emit(r, "Text", Len(r.pending))
       ELSE IF IsPrefix(OPEN_TOOL, r.pending)
       THEN [r EXCEPT !.pending = From(r.pending, Len(OPEN_TOOL) + 1), !.mode = "Tool"]
       ELSE EmitBefore(r, "Text", OPEN_TOOL, finished)

(* Text in the terms of the trimmed parser. *)
LEMMA TextIs ==
  ASSUME NEW p \in Parsers, NEW finished \in BOOLEAN,
         NEW q, q = Trimmed(p), NEW r, r = [q EXCEPT !.trim_answer_newlines = 0]
  PROVE  TextTurn(p, finished, q, r)
<1> DEFINE a == Trimmed(p)
           b == [a EXCEPT !.trim_answer_newlines = 0]
<1>1. Text(p, finished) =
        IF a.trim_answer_newlines > 0 /\ a.pending = <<>> THEN a
        ELSE IF ~p.tools THEN Emit(b, "Text", Len(b.pending))
        ELSE IF IsPrefix(OPEN_TOOL, b.pending)
        THEN [b EXCEPT !.pending = From(@, Len(OPEN_TOOL) + 1), !.mode = "Tool"]
        ELSE EmitBefore(b, "Text", OPEN_TOOL, finished)
  BY DEF Text
<1>2. q = a /\ r = b
  OBVIOUS
<1> HIDE DEF a, b
<1>3. q \in Parsers /\ q.tools = p.tools
  BY TrimmedIs DEF Trims
<1>4. /\ r \in Parsers
      /\ r.mode = q.mode /\ r.tools = q.tools /\ r.pending = q.pending
      /\ r.initial_reasoning = q.initial_reasoning
      /\ r.trim_answer_newlines = 0 /\ r.deltas = q.deltas
  BY <1>3 DEF Parsers
<1> QED
  BY <1>1, <1>2, <1>3, <1>4 DEF TextTurn

(* A turn in text leaves a parser ahead. *)
LEMMA TextAhead ==
  ASSUME NEW p \in Parsers, NEW q \in Parsers, NEW said \in Saids, Ahead(p, q, said),
         NEW finished \in BOOLEAN
  PROVE  Ahead(Text(p, finished), Text(q, finished), said)
<1> PICK a : a = Trimmed(p) OBVIOUS
<1> PICK b : b = Trimmed(q) OBVIOUS
<1>1. a \in Parsers /\ b \in Parsers /\ Ahead(a, b, said) /\ a.tools = p.tools /\ b.tools = q.tools
      /\ p.tools \in BOOLEAN /\ p.tools = q.tools
  <2>1. Trims(p, a) /\ Trims(q, b) /\ a \in Parsers /\ b \in Parsers
    BY TrimmedIs
  <2>2. Ahead(a, b, said)
    BY TrimmedAhead
  <2>3. p.tools \in BOOLEAN
    BY ParserFields
  <2> QED BY <2>1, <2>2, <2>3 DEF Trims, Ahead
<1> PICK x : x = [a EXCEPT !.trim_answer_newlines = 0] OBVIOUS
<1> PICK y : y = [b EXCEPT !.trim_answer_newlines = 0] OBVIOUS
<1> PICK t : t = a.pending OBVIOUS
<1>2. /\ x \in Parsers /\ y \in Parsers /\ Ahead(x, y, said) /\ x.pending = t /\ y.pending = t
      /\ b.pending = t /\ t \in Texts /\ Len(t) \in Nat
      /\ a.trim_answer_newlines = b.trim_answer_newlines
  <2>1. t \in Texts /\ Len(t) \in Nat
    BY <1>1, ParserFields
  <2>2. x \in Parsers /\ y \in Parsers /\ Ahead(x, y, said) /\ x.pending = t /\ y.pending = t
    BY <1>1 DEF Ahead, Parsers
  <2> QED BY <1>1, <2>1, <2>2 DEF Ahead
<1>3. /\ Text(p, finished) =
           IF a.trim_answer_newlines > 0 /\ t = <<>> THEN a
           ELSE IF ~p.tools THEN Emit(x, "Text", Len(t))
           ELSE IF IsPrefix(OPEN_TOOL, t)
           THEN [x EXCEPT !.pending = From(t, Len(OPEN_TOOL) + 1), !.mode = "Tool"]
           ELSE EmitBefore(x, "Text", OPEN_TOOL, finished)
      /\ Text(q, finished) =
           IF a.trim_answer_newlines > 0 /\ t = <<>> THEN b
           ELSE IF ~p.tools THEN Emit(y, "Text", Len(t))
           ELSE IF IsPrefix(OPEN_TOOL, t)
           THEN [y EXCEPT !.pending = From(t, Len(OPEN_TOOL) + 1), !.mode = "Tool"]
           ELSE EmitBefore(y, "Text", OPEN_TOOL, finished)
  <2>1. TextTurn(p, finished, a, x) /\ TextTurn(q, finished, b, y)
    BY TextIs
  <2> QED BY <1>1, <1>2, <2>1 DEF TextTurn
<1>4. CASE a.trim_answer_newlines > 0 /\ t = <<>>
  BY <1>1, <1>3, <1>4
<1>5. CASE ~(a.trim_answer_newlines > 0 /\ t = <<>>) /\ ~p.tools
  <2>1. Len(t) \in 0 .. Len(x.pending) /\ "Text" \in Kinds
    BY <1>2 DEF Kinds
  <2>2. Ahead(Emit(x, "Text", Len(t)), Emit(y, "Text", Len(t)), said)
    BY <1>2, <2>1, EmitAhead
  <2> QED BY <1>3, <1>5, <2>2
<1>6. CASE ~(a.trim_answer_newlines > 0 /\ t = <<>>) /\ p.tools /\ IsPrefix(OPEN_TOOL, t)
  <2> PICK rest : rest = From(t, Len(OPEN_TOOL) + 1) OBVIOUS
  <2> PICK v : v = [x EXCEPT !.pending = rest, !.mode = "Tool"] OBVIOUS
  <2> PICK w : w = [y EXCEPT !.pending = rest, !.mode = "Tool"] OBVIOUS
  <2>1. Ahead(v, w, said)
    BY <1>2 DEF Ahead, Parsers
  <2> QED BY <1>3, <1>6, <2>1
<1>7. CASE ~(a.trim_answer_newlines > 0 /\ t = <<>>) /\ p.tools /\ ~IsPrefix(OPEN_TOOL, t)
  <2>1. OPEN_TOOL \in Texts /\ Len(OPEN_TOOL) > 0 /\ "Text" \in Kinds
    BY Markers DEF Kinds
  <2> PICK count : count = Before(OPEN_TOOL, t, finished) OBVIOUS
  <2>2. /\ EmitBefore(x, "Text", OPEN_TOOL, finished) = Emit(x, "Text", count)
        /\ EmitBefore(y, "Text", OPEN_TOOL, finished) = Emit(y, "Text", count)
        /\ count \in 0 .. Len(x.pending)
    <3> PICK k, m : k = "Text" /\ m = OPEN_TOOL OBVIOUS
    <3>1. k \in Kinds /\ m \in Texts /\ Len(m) > 0
      BY <2>1
    <3>2. EmitsBefore(x, k, m, finished)
      BY <1>2, <3>1, EmitBeforeIs
    <3>3. EmitsBefore(y, k, m, finished)
      BY <1>2, <3>1, EmitBeforeIs
    <3> QED BY <1>2, <3>2, <3>3 DEF EmitsBefore
  <2>3. Ahead(Emit(x, "Text", count), Emit(y, "Text", count), said)
    BY <1>2, <2>1, <2>2, EmitAhead
  <2> QED BY <1>3, <1>7, <2>2, <2>3
<1> QED
  BY <1>1, <1>4, <1>5, <1>6, <1>7

(* A turn inside of a tool call leaves a parser ahead. *)
LEMMA ToolAhead ==
  ASSUME NEW p \in Parsers, NEW q \in Parsers, NEW said \in Saids, Ahead(p, q, said),
         NEW finished \in BOOLEAN
  PROVE  Ahead(Tool(p, finished), Tool(q, finished), said)
<1> PICK t : t = p.pending OBVIOUS
<1> PICK at : at = Find(CLOSE_TOOL, t) OBVIOUS
<1>0. q.pending = t
  BY DEF Ahead
<1>1. CASE at > 0
  <2> PICK rest : rest = From(t, at + Len(CLOSE_TOOL)) OBVIOUS
  <2> PICK x : x = [p EXCEPT !.pending = rest, !.mode = "Text"] OBVIOUS
  <2> PICK y : y = [q EXCEPT !.pending = rest, !.mode = "Text"] OBVIOUS
  <2>1. Tool(p, finished) = x /\ Tool(q, finished) = y
    BY <1>0, <1>1 DEF Tool
  <2>2. Ahead(x, y, said)
    BY DEF Ahead, Parsers
  <2> QED BY <2>1, <2>2
<1>2. CASE ~(at > 0) /\ finished
  <2> PICK rest : rest = <<>> OBVIOUS
  <2> PICK x : x = [p EXCEPT !.pending = rest] OBVIOUS
  <2> PICK y : y = [q EXCEPT !.pending = rest] OBVIOUS
  <2>1. Tool(p, finished) = x /\ Tool(q, finished) = y
    BY <1>0, <1>2 DEF Tool
  <2>2. Ahead(x, y, said)
    BY DEF Ahead, Parsers
  <2> QED BY <2>1, <2>2
<1>3. CASE ~(at > 0) /\ ~finished
  <2>1. Tool(p, finished) = p /\ Tool(q, finished) = q
    BY <1>0, <1>3 DEF Tool
  <2> QED BY <2>1
<1> QED
  BY <1>1, <1>2, <1>3

(* Every turn leaves a parser ahead. *)
LEMMA TurnAhead ==
  ASSUME NEW p \in Parsers, NEW q \in Parsers, NEW said \in Saids, Ahead(p, q, said),
         NEW finished \in BOOLEAN
  PROVE  Ahead(Turn(p, finished), Turn(q, finished), said)
<1>1. p.mode \in {"Reasoning", "Text", "Tool"} /\ q.mode = p.mode
  BY ParserFields DEF Ahead
<1>2. CASE p.mode = "Reasoning"
  <2>1. Turn(p, finished) = Reasoning(p, finished) /\ Turn(q, finished) = Reasoning(q, finished)
    BY <1>1, <1>2 DEF Turn
  <2> QED BY <2>1, ReasoningAhead
<1>3. CASE p.mode = "Text"
  <2>1. Turn(p, finished) = Text(p, finished) /\ Turn(q, finished) = Text(q, finished)
    BY <1>1, <1>3 DEF Turn
  <2> QED BY <2>1, TextAhead
<1>4. CASE p.mode = "Tool"
  <2>1. Turn(p, finished) = Tool(p, finished) /\ Turn(q, finished) = Tool(q, finished)
    BY <1>1, <1>4 DEF Turn
  <2> QED BY <2>1, ToolAhead
<1> QED
  BY <1>1, <1>2, <1>3, <1>4

-----------------------------------------------------------------------------
(* The loop of drain, turn by turn.                                         *)

Turns(F, p, finished, N) ==
  F[0] = p /\ \A n \in 1 .. N : F[n] = Turn(F[n - 1], finished)

Over(p, finished) == Turn(p, finished) = p

(* The loop is its turns. *)
LEMMA LoopTurns ==
  ASSUME NEW p \in Parsers, NEW finished \in BOOLEAN
  PROVE  /\ TurnsOf(p) \in Nat
         /\ \E F \in [0 .. TurnsOf(p) -> Parsers] :
              /\ Turns(F, p, finished, TurnsOf(p))
              /\ Loop(p, finished) = F[TurnsOf(p)]
              /\ Over(F[TurnsOf(p)], finished)
<1> DEFINE N == TurnsOf(p)
           step == [n \in 1 .. N |-> [q \in Parsers |-> Turn(q, finished)]]
           IsTurn(f) == f = [n \in 0 .. N |-> IF n = 0 THEN p ELSE Turn(f[n - 1], finished)]
           turn == CHOOSE f : IsTurn(f)
<1>1. N \in Nat /\ N = 2 * Len(p.pending) + 3 /\ Len(p.pending) \in Nat
  BY ParserFields DEF TurnsOf
<1>2. \A q \in Parsers : Turn(q, finished) \in Parsers
  BY TurnAdvances DEF Advances
<1>3. step \in [1 .. N -> [Parsers -> Parsers]]
  BY <1>2
<1>4. PICK f \in [0 .. N -> Parsers] : Iterates(f, p, step, N)
  <2> HIDE DEF N, step
  <2> QED BY <1>1, <1>3, IterationExists
<1>5. IsTurn(f)
  <2>1. ASSUME NEW n \in 0 .. N PROVE f[n] = IF n = 0 THEN p ELSE Turn(f[n - 1], finished)
    <3>1. CASE n = 0
      BY <1>4, <3>1 DEF Iterates
    <3>2. CASE n # 0
      <4>1. n \in 1 .. N /\ n - 1 \in 0 .. N
        BY <1>1, <3>2
      <4>2. f[n] = step[n][f[n - 1]] /\ f[n - 1] \in Parsers
        BY <1>4, <4>1 DEF Iterates
      <4> QED BY <4>1, <4>2, <3>2
    <3> QED BY <3>1, <3>2
  <2> HIDE DEF N, step
  <2> QED BY <2>1, <1>4
<1>6. turn = [n \in 0 .. N |-> IF n = 0 THEN p ELSE Turn(turn[n - 1], finished)]
  <2>1. IsTurn(turn)
    <3> HIDE DEF IsTurn
    <3> QED BY <1>5
  <2> HIDE DEF turn
  <2> QED BY <2>1
<1> DEFINE last == turn[N]
<1>11. Loop(p, finished) = last
  BY DEF Loop, turn, N
<1> HIDE DEF turn, N
<1> DEFINE P == {n \in 0 .. N : /\ turn[n] \in Parsers
                                /\ Over(turn[n], finished) \/ Weight(turn[n]) + n <= Weight(p)}
<1>7. 0 \in P
  <2>1. 0 \in 0 .. N /\ turn[0] = p
    BY <1>1, <1>6
  <2> QED BY <2>1, WeightBounded
<1>8. ASSUME NEW n \in 1 .. N, n - 1 \in P PROVE n \in P
  <2> DEFINE q == turn[n - 1]
             r == turn[n]
  <2>1. n \in 0 .. N /\ n # 0 /\ n \in Nat
    BY <1>1
  <2>2. r = Turn(q, finished)
    BY <1>6, <2>1
  <2>3. q \in Parsers /\ (Over(q, finished) \/ Weight(q) + (n - 1) <= Weight(p))
    BY <1>8
  <2> HIDE DEF q, r
  <2>4. Advances(q, r)
    BY <2>2, <2>3, TurnAdvances
  <2>5. r \in Parsers
    BY <2>4 DEF Advances
  <2>6. Over(r, finished) \/ Weight(r) + n <= Weight(p)
    <3>1. CASE Over(q, finished)
      <4>1. r = q
        BY <2>2, <3>1 DEF Over
      <4> QED BY <3>1, <4>1
    <3>2. CASE ~Over(q, finished)
      <4>1. r # q
        BY <2>2, <3>2 DEF Over
      <4>2. Weight(r) < Weight(q) /\ Weight(q) + (n - 1) <= Weight(p)
        BY <2>3, <2>4, <3>2, <4>1 DEF Advances
      <4>3. Weight(r) \in Nat /\ Weight(q) \in Nat /\ Weight(p) \in Nat
        BY <2>3, <2>5, WeightBounded
      <4> QED BY <2>1, <4>2, <4>3
    <3> QED BY <3>1, <3>2
  <2> QED BY <2>1, <2>5, <2>6 DEF r
<1>9. \A n \in 0 .. N : n \in P
  <2> HIDE DEF P
  <2> QED BY <1>1, <1>7, <1>8, UpTo
<1>10. last \in Parsers /\ (Over(last, finished) \/ Weight(last) + N <= Weight(p))
  <2>1. N \in 0 .. N
    BY <1>1
  <2> QED BY <1>9, <2>1
<1>12. Over(last, finished)
  <2> HIDE DEF last
  <2>1. Weight(last) \in Nat /\ Weight(p) \in Nat /\ Weight(p) <= 2 * Len(p.pending) + 2
    BY <1>10, WeightBounded
  <2> QED BY <1>1, <1>10, <2>1
<1>13. turn \in [0 .. N -> Parsers]
  <2> PICK g : g = turn OBVIOUS
  <2>1. g = [n \in 0 .. N |-> g[n]] /\ \A n \in 0 .. N : g[n] \in Parsers
    BY <1>6, <1>9
  <2>2. g \in [0 .. N -> Parsers]
    BY <2>1
  <2> QED BY <2>2
<1>14. Turns(turn, p, finished, N)
  <2>1. ASSUME NEW n \in 1 .. N PROVE turn[n] = Turn(turn[n - 1], finished)
    <3>1. n \in 0 .. N /\ n # 0
      BY <1>1
    <3> QED BY <1>6, <3>1
  <2>2. 0 \in 0 .. N
    BY <1>1
  <2> QED BY <1>6, <2>1, <2>2 DEF Turns
<1> QED
  BY <1>1, <1>11, <1>12, <1>13, <1>14 DEF N

(* However many turns are taken until nothing changes. *)
LEMMA LoopIs ==
  ASSUME NEW p \in Parsers, NEW finished \in BOOLEAN, NEW n \in Nat,
         NEW F \in [0 .. n -> Parsers], Turns(F, p, finished, n), Over(F[n], finished)
  PROVE  Loop(p, finished) = F[n]
<1> PICK N : N = TurnsOf(p) OBVIOUS
<1>1. PICK G \in [0 .. N -> Parsers] :
        /\ Turns(G, p, finished, N)
        /\ Loop(p, finished) = G[N]
        /\ Over(G[N], finished)
  BY LoopTurns
<1>2. N \in Nat
  BY LoopTurns
<1> DEFINE P == {i \in 0 .. n + N :
                   /\ i <= n /\ i <= N => F[i] = G[i]
                   /\ i >= n /\ i <= N => G[i] = F[n]
                   /\ i <= n /\ i >= N => F[i] = G[N]}
<1>3. 0 \in P
  BY <1>1, <1>2 DEF Turns
<1>4. ASSUME NEW i \in 1 .. n + N, i - 1 \in P PROVE i \in P
  <2>0. i \in 0 .. n + N /\ i - 1 \in 0 .. n + N
    BY <1>2
  <2>1. i <= n => F[i] = Turn(F[i - 1], finished)
    <3>1. i <= n => i \in 1 .. n
      BY <1>2
    <3> QED BY <3>1 DEF Turns
  <2>2. i <= N => G[i] = Turn(G[i - 1], finished)
    <3>1. i <= N => i \in 1 .. N
      BY <1>2
    <3> QED BY <1>1, <3>1 DEF Turns
  <2>3. ASSUME i <= n, i <= N PROVE F[i] = G[i]
    BY <1>2, <1>4, <2>0, <2>1, <2>2, <2>3
  <2>4. ASSUME i >= n, i <= N PROVE G[i] = F[n]
    <3>1. CASE i = n
      BY <2>3, <2>4, <3>1
    <3>2. CASE i # n
      <4>1. i - 1 >= n /\ i - 1 <= N
        BY <1>2, <2>4, <3>2
      <4>2. G[i - 1] = F[n]
        BY <1>4, <4>1
      <4> QED BY <2>2, <2>4, <4>2 DEF Over
    <3> QED BY <3>1, <3>2
  <2>5. ASSUME i <= n, i >= N PROVE F[i] = G[N]
    <3>1. CASE i = N
      BY <2>3, <2>5, <3>1
    <3>2. CASE i # N
      <4>1. i - 1 >= N /\ i - 1 <= n
        BY <1>2, <2>5, <3>2
      <4>2. F[i - 1] = G[N]
        BY <1>4, <4>1
      <4> QED BY <1>1, <2>1, <2>5, <4>2 DEF Over
    <3> QED BY <3>1, <3>2
  <2> QED BY <2>0, <2>3, <2>4, <2>5
<1>5. \A i \in 0 .. n + N : i \in P
  <2>1. n + N \in Nat
    BY <1>2
  <2> HIDE DEF P
  <2> QED BY <1>3, <1>4, <2>1, UpTo
<1>6. CASE n <= N
  <2>1. N \in 0 .. n + N /\ N >= n /\ N <= N
    BY <1>2, <1>6
  <2>2. G[N] = F[n]
    BY <1>5, <2>1
  <2> QED BY <1>1, <2>2
<1>7. CASE N <= n
  <2>1. n \in 0 .. n + N /\ n >= N /\ n <= n
    BY <1>2, <1>7
  <2>2. F[n] = G[N]
    BY <1>5, <2>1
  <2> QED BY <1>1, <2>2
<1> QED
  BY <1>2, <1>6, <1>7

(* A turn more in front. *)
LEMMA LoopTurn ==
  ASSUME NEW p \in Parsers, NEW finished \in BOOLEAN
  PROVE  Loop(Turn(p, finished), finished) = Loop(p, finished)
<1> PICK q : q = Turn(p, finished) OBVIOUS
<1>0. q \in Parsers
  BY TurnAdvances DEF Advances
<1> PICK N : N = TurnsOf(q) OBVIOUS
<1>1. PICK G \in [0 .. N -> Parsers] :
        /\ Turns(G, q, finished, N)
        /\ Loop(q, finished) = G[N]
        /\ Over(G[N], finished)
  BY <1>0, LoopTurns
<1>2. N \in Nat
  BY <1>0, LoopTurns
<1> DEFINE M == N + 1
           F == [n \in 0 .. M |-> IF n = 0 THEN p ELSE G[n - 1]]
<1>3. F \in [0 .. M -> Parsers]
  <2>1. \A n \in 0 .. M : n # 0 => n - 1 \in 0 .. N
    BY <1>2
  <2> QED BY <1>1, <2>1
<1>4. ASSUME NEW n \in 1 .. M PROVE F[n] = Turn(F[n - 1], finished)
  <2>0. n \in 0 .. M /\ n # 0 /\ n - 1 \in 0 .. M /\ n - 1 \in 0 .. N
    BY <1>2
  <2>1. CASE n = 1
    <3>1. n - 1 = 0
      BY <2>1
    <3> QED BY <1>1, <2>0, <3>1 DEF Turns
  <2>2. CASE n # 1
    <3>1. n - 1 \in 1 .. N /\ n - 1 # 0
      BY <1>2, <2>2
    <3>2. G[n - 1] = Turn(G[n - 1 - 1], finished)
      BY <1>1, <3>1 DEF Turns
    <3> QED BY <2>0, <3>1, <3>2
  <2> QED BY <2>1, <2>2
<1>5. F[0] = p /\ F[M] = G[N]
  BY <1>2
<1>6. Turns(F, p, finished, M)
  <2> HIDE DEF F, M
  <2> QED BY <1>4, <1>5 DEF Turns
<1>7. M \in Nat
  BY <1>2
<1>8. Loop(p, finished) = F[M]
  <2> HIDE DEF F, M
  <2>1. Over(F[M], finished)
    BY <1>1, <1>5
  <2> QED BY <1>3, <1>6, <1>7, <2>1, LoopIs
<1> QED
  BY <1>1, <1>5, <1>8

(* The loop leaves a parser ahead. *)
LEMMA LoopAhead ==
  ASSUME NEW p \in Parsers, NEW q \in Parsers, NEW said \in Saids, Ahead(p, q, said),
         NEW finished \in BOOLEAN
  PROVE  Ahead(Loop(p, finished), Loop(q, finished), said)
<1> PICK N : N = TurnsOf(p) OBVIOUS
<1>0. N = TurnsOf(q) /\ N \in Nat
  BY LoopTurns DEF TurnsOf, Ahead
<1>1. PICK F \in [0 .. N -> Parsers] : Turns(F, p, finished, N) /\ Loop(p, finished) = F[N]
  BY LoopTurns
<1>2. PICK G \in [0 .. N -> Parsers] : Turns(G, q, finished, N) /\ Loop(q, finished) = G[N]
  BY <1>0, LoopTurns
<1> DEFINE P == {n \in 0 .. N : Ahead(F[n], G[n], said)}
<1>3. 0 \in P
  BY <1>0, <1>1, <1>2 DEF Turns
<1>4. ASSUME NEW n \in 1 .. N, n - 1 \in P PROVE n \in P
  <2>1. n \in 0 .. N /\ n - 1 \in 0 .. N
    BY <1>0
  <2> PICK x, y : x = F[n - 1] /\ y = G[n - 1] OBVIOUS
  <2>2. x \in Parsers /\ y \in Parsers /\ Ahead(x, y, said)
    BY <1>1, <1>2, <1>4, <2>1
  <2>3. Ahead(Turn(x, finished), Turn(y, finished), said)
    BY <2>2, TurnAhead
  <2>4. F[n] = Turn(x, finished) /\ G[n] = Turn(y, finished)
    BY <1>1, <1>2 DEF Turns
  <2> QED BY <2>1, <2>3, <2>4
<1>5. N \in P
  <2>1. \A n \in 0 .. N : n \in P
    <3> HIDE DEF P
    <3> QED BY <1>0, <1>3, <1>4, UpTo
  <2>2. N \in 0 .. N
    BY <1>0
  <2> QED BY <2>1, <2>2
<1> QED
  BY <1>1, <1>2, <1>5

-----------------------------------------------------------------------------
(* More of the text before a turn, or behind it.                            *)

Longer(p, b) == [p EXCEPT !.pending = p.pending \o b]

(* Parsers that are alike have said the same, in deltas cut differently.    *)
Alike(p, q) ==
  /\ p.mode = q.mode /\ p.tools = q.tools /\ p.pending = q.pending
  /\ p.initial_reasoning = q.initial_reasoning
  /\ p.trim_answer_newlines = q.trim_answer_newlines
  /\ \A kind \in Kinds : TextOf(kind, p.deltas) = TextOf(kind, q.deltas)

Silence == [kind \in Kinds |-> <<>>]

(* To be alike is to be ahead by nothing. *)
LEMMA AlikeAhead ==
  ASSUME NEW p \in Parsers, NEW q \in Parsers
  PROVE  Silence \in Saids /\ (Alike(p, q) <=> Ahead(p, q, Silence))
<1>1. Silence \in Saids
  <2> DEFINE none == <<>>
  <2>1. none \in Texts
    BY DEF Texts
  <2>2. Silence = [kind \in Kinds |-> none]
    BY DEF Silence
  <2> HIDE DEF none
  <2> QED BY <2>1, <2>2 DEF Saids
<1>2. ASSUME NEW kind \in Kinds
      PROVE  Silence[kind] \o TextOf(kind, q.deltas) = TextOf(kind, q.deltas)
  <2> PICK x : x = TextOf(kind, q.deltas) OBVIOUS
  <2>1. x \in Seq(Letter)
    <3> PICK d : d = q.deltas OBVIOUS
    <3>1. d \in Seq(DeltaSet)
      BY ParserFields
    <3> QED BY <3>1, TextOfConcat DEF Texts
  <2>2. <<>> \o x = x
    BY <2>1, ConcatEmptySeq
  <2> QED BY <2>2 DEF Silence
<1> QED
  BY <1>1, <1>2 DEF Alike, Ahead

(* Parsers that are alike end the loop alike. *)
LEMMA LoopAlike ==
  ASSUME NEW p \in Parsers, NEW q \in Parsers, Alike(p, q), NEW finished \in BOOLEAN
  PROVE  Alike(Loop(p, finished), Loop(q, finished))
<1>1. Silence \in Saids /\ Ahead(p, q, Silence)
  BY AlikeAhead
<1>2. Ahead(Loop(p, finished), Loop(q, finished), Silence)
  BY <1>1, LoopAhead
<1>3. Loop(p, finished) \in Parsers /\ Loop(q, finished) \in Parsers
  BY LoopSettles
<1> QED
  BY <1>2, <1>3, AlikeAhead

(* Likeness goes on. *)
LEMMA AlikeTransitive ==
  ASSUME NEW p, NEW q, NEW r, Alike(p, q), Alike(q, r)
  PROVE  Alike(p, r)
BY DEF Alike

(* Likeness goes both ways. *)
LEMMA AlikeSymmetric ==
  ASSUME NEW p, NEW q, Alike(p, q)
  PROVE  Alike(q, p)
BY DEF Alike

(* The parser with more text. *)
LEMMA LongerTyped ==
  ASSUME NEW p \in Parsers, NEW b \in Texts
  PROVE  /\ Longer(p, b) \in Parsers /\ Longer(p, b).mode = p.mode
         /\ Longer(p, b).tools = p.tools /\ Longer(p, b).deltas = p.deltas
         /\ Longer(p, b).initial_reasoning = p.initial_reasoning
         /\ Longer(p, b).trim_answer_newlines = p.trim_answer_newlines
         /\ Longer(p, b).pending = p.pending \o b
<1> PICK t : t = p.pending \o b OBVIOUS
<1>1. t \in Texts
  BY ParserFields, ConcatText
<1>2. Longer(p, b) = [p EXCEPT !.pending = t]
  BY DEF Longer
<1> QED
  BY <1>1, <1>2 DEF Parsers

(* Parsers that are alike are so with more text. *)
LEMMA LongerAlike ==
  ASSUME NEW p \in Parsers, NEW q \in Parsers, Alike(p, q), NEW b \in Texts
  PROVE  Alike(Longer(p, b), Longer(q, b))
<1> PICK x, y : x = Longer(p, b) /\ y = Longer(q, b) OBVIOUS
<1>1. /\ x.mode = p.mode /\ x.tools = p.tools /\ x.deltas = p.deltas
      /\ x.initial_reasoning = p.initial_reasoning
      /\ x.trim_answer_newlines = p.trim_answer_newlines
      /\ x.pending = p.pending \o b
  BY LongerTyped
<1>2. /\ y.mode = q.mode /\ y.tools = q.tools /\ y.deltas = q.deltas
      /\ y.initial_reasoning = q.initial_reasoning
      /\ y.trim_answer_newlines = q.trim_answer_newlines
      /\ y.pending = q.pending \o b
  BY LongerTyped
<1>3. Alike(x, y)
  BY <1>1, <1>2 DEF Alike
<1> QED
  BY <1>3

(* What is cut of a longer text. *)
LEMMA CutLonger ==
  ASSUME NEW t \in Texts, NEW b \in Texts, NEW n \in 0 .. Len(t)
  PROVE  /\ From(t \o b, n + 1) = From(t, n + 1) \o b
         /\ SubSeq(t \o b, 1, n) = SubSeq(t, 1, n)
<1> PICK u : u = t \o b OBVIOUS
<1>1. /\ u \in Texts /\ Len(u) = Len(t) + Len(b) /\ Len(t) \in Nat /\ Len(b) \in Nat
      /\ \A i \in 1 .. Len(t) : u[i] = t[i]
      /\ \A i \in 1 .. Len(b) : u[Len(t) + i] = b[i]
  BY ConcatText DEF Texts
<1>2. From(u, n + 1) = From(t, n + 1) \o b
  <2> PICK m : m = n + 1 OBVIOUS
  <2> PICK x : x = From(t, m) OBVIOUS
  <2> PICK y : y = From(u, m) OBVIOUS
  <2> PICK z : z = x \o b OBVIOUS
  <2>1. m \in Nat /\ 1 <= m /\ m <= Len(t) + 1 /\ m <= Len(u) + 1
    BY <1>1
  <2>2. x \in Texts /\ Len(x) = Len(t) - m + 1 /\ \A j \in 1 .. Len(t) - m + 1 : x[j] = t[m + j - 1]
    BY <2>1, FromTyped
  <2>3. y \in Texts /\ Len(y) = Len(u) - m + 1 /\ \A j \in 1 .. Len(u) - m + 1 : y[j] = u[m + j - 1]
    BY Zenon, <1>1, <2>1, FromTyped
  <2>4. /\ z \in Texts /\ Len(z) = Len(x) + Len(b)
        /\ \A i \in 1 .. Len(x) : z[i] = x[i]
        /\ \A i \in 1 .. Len(b) : z[Len(x) + i] = b[i]
    BY <2>2, ConcatText
  <2>5. ASSUME NEW j \in 1 .. Len(y) PROVE y[j] = z[j]
    <3>1. CASE j <= Len(x)
      <4>1. j \in 1 .. Len(x) /\ m + j - 1 \in 1 .. Len(t) /\ j \in 1 .. Len(t) - m + 1
        BY <1>1, <2>1, <2>2, <2>3, <3>1
      <4> QED BY <1>1, <2>2, <2>3, <2>4, <4>1
    <3>2. CASE ~(j <= Len(x))
      <4> PICK i : i = j - Len(x) OBVIOUS
      <4>0. Len(x) = Len(t) - n /\ Len(y) = Len(t) + Len(b) - n /\ j \in 1 .. Len(y) /\ n \in Nat
        BY <1>1, <2>2, <2>3
      <4>1. i \in 1 .. Len(b) /\ m + j - 1 = Len(t) + i /\ j = Len(x) + i /\ j \in 1 .. Len(u) - m + 1
        <5> PICK a, c, e : a = Len(t) /\ c = Len(b) /\ e = Len(x) OBVIOUS
        <5>1. /\ a \in Nat /\ c \in Nat /\ e = a - n /\ j \in 1 .. a + c - n /\ n \in Nat
              /\ i = j - e /\ ~(j <= e) /\ m = n + 1 /\ Len(u) = a + c
          BY <1>1, <3>2, <4>0
        <5>0. j \in Int /\ j <= a + c - n /\ 1 <= j /\ e \in Int /\ i \in Int
          BY <5>1
        <5>2. j = e + i
          BY <5>0, <5>1
        <5>3. m + j - 1 = a + i
          <6>1. m + j - 1 = n + j
            BY <5>0, <5>1
          <6>2. a + i = n + j
            <7>1. e + n = a
              BY <5>0, <5>1
            <7>2. (e + n) + i = n + (e + i)
              BY <5>0, <5>1
            <7> QED BY <5>2, <7>1, <7>2
          <6> QED BY <6>1, <6>2
        <5>4. i \in 1 .. c
          BY <5>0, <5>1
        <5>5. j \in 1 .. a + c - m + 1
          BY <5>0, <5>1
        <5> QED BY <5>1, <5>2, <5>3, <5>4, <5>5
      <4>2. y[j] = u[m + j - 1] /\ u[Len(t) + i] = b[i] /\ z[Len(x) + i] = b[i]
        BY <1>1, <2>3, <2>4, <4>1
      <4> QED BY <4>1, <4>2
    <3> QED BY <3>1, <3>2
  <2>6. Len(y) = Len(z)
    BY <1>1, <2>1, <2>2, <2>3, <2>4
  <2>7. y = z
    BY <2>3, <2>4, <2>5, <2>6, Equal
  <2> QED BY <2>7
<1>3. SubSeq(u, 1, n) = SubSeq(t, 1, n)
  <2> PICK x, y : x = SubSeq(t, 1, n) /\ y = SubSeq(u, 1, n) OBVIOUS
  <2>1. x \in Texts /\ Len(x) = n /\ \A i \in 1 .. n : x[i] = t[i]
    BY BeginningOf DEF Texts
  <2>2. y \in Texts /\ Len(y) = n /\ \A i \in 1 .. n : y[i] = u[i]
    <3>1. n \in 0 .. Len(u)
      BY <1>1
    <3> QED BY <1>1, <3>1, BeginningOf DEF Texts
  <2>3. \A i \in 1 .. n : x[i] = y[i]
    BY <1>1, <2>1, <2>2
  <2>4. y = x
    BY <2>1, <2>2, <2>3, Equal
  <2> QED BY <2>4
<1> QED
  BY <1>2, <1>3

(* A text cut in two places. *)
LEMMA CutInTwo ==
  ASSUME NEW t \in Texts, NEW n \in 0 .. Len(t), NEW m \in 0 .. n
  PROVE  /\ From(t, m + 1) \in Texts /\ n - m \in 0 .. Len(From(t, m + 1))
         /\ From(From(t, m + 1), n - m + 1) = From(t, n + 1)
         /\ SubSeq(t, 1, m) \o SubSeq(From(t, m + 1), 1, n - m) = SubSeq(t, 1, n)
<1>1. Len(t) \in Nat /\ m \in 0 .. Len(t) /\ n \in Nat /\ m \in Nat /\ m <= n
  BY DEF Texts
<1> PICK r : r = From(t, m + 1) OBVIOUS
<1>2. /\ r \in Texts /\ Len(r) = Len(t) - m
      /\ \A j \in 1 .. Len(t) - m : r[j] = t[m + j]
  <2> PICK k : k = m + 1 OBVIOUS
  <2>1. k \in Nat /\ 1 <= k /\ k <= Len(t) + 1 /\ Len(t) - k + 1 = Len(t) - m
        /\ \A j \in 1 .. Len(t) - m : k + j - 1 = m + j
    BY <1>1
  <2>2. /\ From(t, k) \in Texts /\ Len(From(t, k)) = Len(t) - k + 1
        /\ \A j \in 1 .. Len(t) - k + 1 : From(t, k)[j] = t[k + j - 1]
    BY Zenon, <2>1, FromTyped
  <2> QED BY Zenon, <2>1, <2>2
<1> PICK d : d = n - m OBVIOUS
<1>3. d \in 0 .. Len(r) /\ d \in Nat
  BY <1>1, <1>2
<1>4. From(r, d + 1) = From(t, n + 1)
  <2> PICK x, y : x = From(r, d + 1) /\ y = From(t, n + 1) OBVIOUS
  <2>1. /\ x \in Texts /\ Len(x) = Len(r) - d
        /\ \A j \in 1 .. Len(r) - d : x[j] = r[d + j]
    <3> PICK k : k = d + 1 OBVIOUS
    <3>1. k \in Nat /\ 1 <= k /\ k <= Len(r) + 1 /\ Len(r) - k + 1 = Len(r) - d
          /\ \A j \in 1 .. Len(r) - d : k + j - 1 = d + j
      BY <1>1, <1>2, <1>3
    <3>2. /\ From(r, k) \in Texts /\ Len(From(r, k)) = Len(r) - k + 1
          /\ \A j \in 1 .. Len(r) - k + 1 : From(r, k)[j] = r[k + j - 1]
      BY ONLY Zenon, <1>2, <3>1, FromTyped
    <3> QED BY <3>1, <3>2
  <2>2. /\ y \in Texts /\ Len(y) = Len(t) - n
        /\ \A j \in 1 .. Len(t) - n : y[j] = t[n + j]
    <3> PICK k : k = n + 1 OBVIOUS
    <3>1. k \in Nat /\ 1 <= k /\ k <= Len(t) + 1 /\ Len(t) - k + 1 = Len(t) - n
          /\ \A j \in 1 .. Len(t) - n : k + j - 1 = n + j
      BY <1>1
    <3>2. /\ From(t, k) \in Texts /\ Len(From(t, k)) = Len(t) - k + 1
          /\ \A j \in 1 .. Len(t) - k + 1 : From(t, k)[j] = t[k + j - 1]
      BY Zenon, <3>1, FromTyped
    <3> QED BY Zenon, <3>1, <3>2
  <2>3. ASSUME NEW j \in 1 .. Len(x) PROVE x[j] = y[j]
    <3>1. j \in 1 .. Len(r) - d /\ d + j \in 1 .. Len(t) - m /\ m + (d + j) = n + j /\ j \in 1 .. Len(t) - n
      BY <1>1, <1>2, <1>3, <2>1
    <3>2. x[j] = r[d + j] /\ r[d + j] = t[m + (d + j)]
      BY <1>2, <2>1, <3>1
    <3> QED BY <2>2, <3>1, <3>2
  <2>4. Len(x) = Len(y)
    BY <1>1, <1>2, <1>3, <2>1, <2>2
  <2>5. x = y
    BY <2>1, <2>2, <2>3, <2>4, Equal
  <2> QED BY <2>5
<1>5. SubSeq(t, 1, m) \o SubSeq(r, 1, d) = SubSeq(t, 1, n)
  <2> PICK x, y, w : x = SubSeq(t, 1, m) /\ y = SubSeq(r, 1, d) /\ w = SubSeq(t, 1, n) OBVIOUS
  <2> PICK z : z = x \o y OBVIOUS
  <2>1. x \in Texts /\ Len(x) = m /\ \A i \in 1 .. m : x[i] = t[i]
    BY <1>1, BeginningOf DEF Texts
  <2>2. y \in Texts /\ Len(y) = d /\ \A i \in 1 .. d : y[i] = r[i]
    BY <1>2, <1>3, BeginningOf DEF Texts
  <2>3. w \in Texts /\ Len(w) = n /\ \A i \in 1 .. n : w[i] = t[i]
    BY <1>1, BeginningOf DEF Texts
  <2>4. /\ z \in Texts /\ Len(z) = m + d
        /\ \A i \in 1 .. m : z[i] = x[i]
        /\ \A i \in 1 .. d : z[m + i] = y[i]
    BY <2>1, <2>2, ConcatText
  <2>5. ASSUME NEW i \in 1 .. Len(z) PROVE z[i] = w[i]
    <3>0. i \in 1 .. n
      BY <1>1, <2>4
    <3>1. CASE i <= m
      <4>1. i \in 1 .. m
        BY <1>1, <3>0, <3>1
      <4> QED BY <2>1, <2>3, <2>4, <3>0, <4>1
    <3>2. CASE ~(i <= m)
      <4> PICK j : j = i - m OBVIOUS
      <4>1. j \in 1 .. d /\ i = m + j /\ j \in 1 .. Len(t) - m
        BY <1>1, <3>0, <3>2
      <4>2. z[m + j] = y[j] /\ y[j] = r[j] /\ r[j] = t[m + j]
        BY <1>2, <2>2, <2>4, <4>1
      <4>3. w[i] = t[i]
        BY <2>3, <3>0
      <4> QED BY <4>1, <4>2, <4>3
    <3> QED BY <3>1, <3>2
  <2>6. Len(z) = Len(w)
    BY <1>1, <2>3, <2>4
  <2>7. z = w
    BY <2>3, <2>4, <2>5, <2>6, Equal
  <2> QED BY <2>7
<1> QED
  BY <1>2, <1>3, <1>4, <1>5

(* Emitting in two steps what could be emitted in one. *)
LEMMA EmitTwice ==
  ASSUME NEW p \in Parsers, NEW kind \in Kinds, NEW n \in 0 .. Len(p.pending), NEW m \in 0 .. n
  PROVE  /\ n - m \in 0 .. Len(Emit(p, kind, m).pending)
         /\ Alike(Emit(Emit(p, kind, m), kind, n - m), Emit(p, kind, n))
<1>0. ASSUME NEW a \in Texts, NEW b \in Texts, NEW c \in Texts
      PROVE  (a \o b) \o c = a \o (b \o c)
  <2>1. Reassociates(a, b, c)
    BY Associative DEF Texts
  <2> QED BY <2>1 DEF Reassociates
<1> PICK t : t = p.pending OBVIOUS
<1> PICK d : d = n - m OBVIOUS
<1>1. t \in Texts /\ Len(t) \in Nat /\ m \in 0 .. Len(p.pending) /\ n \in 0 .. Len(t)
  BY ParserFields
<1> PICK x : x = Emit(p, kind, m) OBVIOUS
<1> PICK y : y = Emit(x, kind, d) OBVIOUS
<1> PICK z : z = Emit(p, kind, n) OBVIOUS
<1>2. x \in Parsers /\ Emits(p, kind, m, x)
  BY <1>1, EmitSays
<1>3. Emits(p, kind, n, z)
  BY EmitSays
<1>4. /\ d \in 0 .. Len(x.pending)
      /\ x.pending = From(t, m + 1)
      /\ From(x.pending, d + 1) = From(t, n + 1)
      /\ SubSeq(t, 1, m) \o SubSeq(x.pending, 1, d) = SubSeq(t, 1, n)
  <2>1. x.pending = From(t, m + 1)
    BY <1>2 DEF Emits
  <2> QED BY <1>1, <2>1, CutInTwo
<1>5. Emits(x, kind, d, y)
  BY <1>2, <1>4, EmitSays
<1>6. TextOf(kind, y.deltas) = TextOf(kind, z.deltas)
  <2>1. TextOf(kind, p.deltas) \in Texts
    <3> PICK s : s = p.deltas OBVIOUS
    <3>1. s \in Seq(DeltaSet)
      BY ParserFields
    <3> QED BY <3>1, TextOfConcat
  <2>2. SubSeq(t, 1, m) \in Texts
    BY <1>1, PartTyped
  <2>3. SubSeq(x.pending, 1, d) \in Texts
    <3> PICK r : r = x.pending OBVIOUS
    <3>1. r \in Texts /\ d \in 0 .. Len(r) /\ Len(r) \in Nat
      BY <1>2, <1>4, ParserFields
    <3> QED BY <3>1, PartTyped
  <2> DEFINE a == TextOf(kind, p.deltas)
             b == SubSeq(t, 1, m)
             c == SubSeq(x.pending, 1, d)
  <2>4. (a \o b) \o c = a \o (b \o c)
    <3>1. a \in Texts /\ b \in Texts /\ c \in Texts
      BY <2>1, <2>2, <2>3
    <3> HIDE DEF a, b, c
    <3> QED BY Zenon, <1>0, <3>1
  <2>5. TextOf(kind, y.deltas) = (a \o b) \o c
    BY <1>2, <1>5 DEF Emits
  <2>6. TextOf(kind, z.deltas) = a \o (b \o c)
    BY <1>3, <1>4 DEF Emits
  <2> QED BY <2>4, <2>5, <2>6
<1>7. Alike(y, z)
  BY <1>2, <1>3, <1>4, <1>5, <1>6 DEF Emits, Alike
<1> QED
  BY <1>4, <1>7

(* What can be emitted can be emitted of a longer text. *)
LEMMA EmitMore ==
  ASSUME NEW p \in Parsers, NEW kind \in Kinds, NEW n \in 0 .. Len(p.pending), NEW b \in Texts
  PROVE  /\ n \in 0 .. Len(Longer(p, b).pending)
         /\ Alike(Longer(Emit(p, kind, n), b), Emit(Longer(p, b), kind, n))
<1> PICK t, l : t = p.pending /\ l = Longer(p, b) OBVIOUS
<1>1. t \in Texts /\ Len(t) \in Nat
  BY ParserFields
<1>2. /\ l \in Parsers /\ l.mode = p.mode /\ l.tools = p.tools /\ l.deltas = p.deltas
      /\ l.initial_reasoning = p.initial_reasoning
      /\ l.trim_answer_newlines = p.trim_answer_newlines
      /\ l.pending = t \o b
  BY LongerTyped
<1>3. n \in 0 .. Len(l.pending)
  <2>1. Len(t \o b) = Len(t) + Len(b) /\ Len(b) \in Nat
    BY <1>1, ConcatText DEF Texts
  <2> QED BY <1>1, <1>2, <2>1
<1> PICK x : x = Emit(p, kind, n) OBVIOUS
<1> PICK y : y = Emit(l, kind, n) OBVIOUS
<1>4. x \in Parsers /\ Emits(p, kind, n, x)
  BY EmitSays
<1>5. Emits(l, kind, n, y)
  BY <1>2, <1>3, EmitSays
<1> PICK z : z = Longer(x, b) OBVIOUS
<1>6. /\ z.mode = x.mode /\ z.tools = x.tools /\ z.deltas = x.deltas
      /\ z.initial_reasoning = x.initial_reasoning
      /\ z.trim_answer_newlines = x.trim_answer_newlines
      /\ z.pending = x.pending \o b
  BY <1>4, LongerTyped
<1>7. /\ From(l.pending, n + 1) = From(t, n + 1) \o b
      /\ SubSeq(l.pending, 1, n) = SubSeq(t, 1, n)
  <2>1. n \in 0 .. Len(t)
    OBVIOUS
  <2>2. /\ From(t \o b, n + 1) = From(t, n + 1) \o b
        /\ SubSeq(t \o b, 1, n) = SubSeq(t, 1, n)
    BY <1>1, <2>1, CutLonger
  <2> QED BY <1>2, <2>2
<1>8. Alike(z, y)
  BY Zenon, <1>2, <1>4, <1>5, <1>6, <1>7 DEF Emits, Alike
<1> QED
  BY <1>3, <1>8

(* Looking for a marker before more of the text has come, and after it. *)
Catches(x, kind, marker, y) ==
  \/ Alike(x, y)
  \/ ~IsPrefix(marker, x.pending) /\ Alike(EmitBefore(x, kind, marker, FALSE), y)

(* Emitting early, and the rest later, is emitting once. *)
LEMMA EmitLonger ==
  ASSUME NEW p \in Parsers, NEW kind \in Kinds, NEW marker \in Texts, Len(marker) > 0,
         NEW b \in Texts
  PROVE  Catches(Longer(EmitBefore(p, kind, marker, FALSE), b), kind, marker,
                 EmitBefore(Longer(p, b), kind, marker, FALSE))
<1> PICK t, l : t = p.pending /\ l = Longer(p, b) OBVIOUS
<1>1. t \in Texts /\ Len(t) \in Nat
  BY ParserFields
<1>2. l \in Parsers /\ l.pending = t \o b
  BY LongerTyped
<1> PICK m, n : m = Emitted(marker, t) /\ n = Emitted(marker, t \o b) OBVIOUS
<1>3. m <= n /\ n \in 0 .. Len(l.pending) /\ m \in 0 .. Len(t)
  BY <1>1, <1>2, EmittedLonger
<1>4. EmitBefore(p, kind, marker, FALSE) = Emit(p, kind, m)
  <2>1. EmitsBefore(p, kind, marker, FALSE)
    BY EmitBeforeIs
  <2> QED BY <2>1 DEF EmitsBefore
<1>5. EmitBefore(l, kind, marker, FALSE) = Emit(l, kind, n)
  <2>1. EmitsBefore(l, kind, marker, FALSE)
    BY <1>2, EmitBeforeIs
  <2> QED BY <1>2, <2>1 DEF EmitsBefore
<1> PICK x : x = Longer(Emit(p, kind, m), b) OBVIOUS
<1> PICK y : y = Emit(l, kind, m) OBVIOUS
<1>6. m \in 0 .. Len(l.pending) /\ Alike(x, y)
  BY <1>3, EmitMore
<1>7. x \in Parsers /\ y \in Parsers /\ Emits(l, kind, m, y)
  <2>1. Emit(p, kind, m) \in Parsers
    BY <1>3, EmitSays
  <2>2. y \in Parsers /\ Emits(l, kind, m, y)
    BY <1>2, <1>6, EmitSays
  <2> QED BY <2>1, <2>2, LongerTyped
<1>8. CASE m = n
  BY <1>4, <1>5, <1>6, <1>8 DEF Catches
<1>9. CASE m # n
  <2> PICK d : d = n - m OBVIOUS
  <2>1. d > 0 /\ m \in 0 .. n
    BY <1>1, <1>3, <1>9
  <2>2. x.pending = From(l.pending, m + 1) /\ x.pending \in Texts
    BY <1>6, <1>7, ParserFields DEF Alike, Emits
  <2>3. Emitted(marker, x.pending) = d
    <3> PICK u : u = l.pending OBVIOUS
    <3>1. u \in Texts /\ m \in 0 .. Emitted(marker, u) /\ Emitted(marker, u) = n
      BY <1>2, <2>1, ParserFields
    <3> QED BY <2>2, <3>1, EmittedShifted
  <2>4. ~IsPrefix(marker, x.pending)
    <3> PICK u : u = x.pending OBVIOUS
    <3>1. u \in Texts /\ Emitted(marker, u) # 0
      BY <2>1, <2>2, <2>3
    <3> QED BY <3>1, EmittedNothing
  <2>5. EmitBefore(x, kind, marker, FALSE) = Emit(x, kind, d) /\ d \in 0 .. Len(x.pending)
    <3>1. EmitsBefore(x, kind, marker, FALSE)
      BY <1>7, EmitBeforeIs
    <3> QED BY <2>3, <3>1 DEF EmitsBefore
  <2>6. Alike(Emit(x, kind, d), Emit(y, kind, d))
    <3>1. Silence \in Saids /\ Ahead(x, y, Silence)
      BY <1>6, <1>7, AlikeAhead
    <3>2. Ahead(Emit(x, kind, d), Emit(y, kind, d), Silence)
      BY <1>7, <2>5, <3>1, EmitAhead
    <3>3. Emit(x, kind, d) \in Parsers /\ Emit(y, kind, d) \in Parsers
      <4>1. d \in 0 .. Len(y.pending)
        BY <1>6, <2>5 DEF Alike
      <4> QED BY <1>7, <2>5, <4>1, EmitSays
    <3> QED BY <3>2, <3>3, AlikeAhead
  <2>7. Alike(Emit(y, kind, d), Emit(l, kind, n))
    BY <1>2, <1>3, <2>1, EmitTwice
  <2>8. Alike(Emit(x, kind, d), Emit(l, kind, n))
    BY <2>6, <2>7, AlikeTransitive
  <2> QED BY <1>4, <1>5, <2>4, <2>5, <2>8 DEF Catches
<1> QED
  BY <1>8, <1>9

-----------------------------------------------------------------------------
(* A turn before more of the text has come is caught up with after it.      *)

(* `y` is the turn of the longer parser. *)
Meets(p, b, y) ==
  \/ Turn(p, FALSE) = p
  \/ Alike(Longer(Turn(p, FALSE), b), y)
  \/ Alike(Turn(Longer(Turn(p, FALSE), b), FALSE), y)

(* A marker at the front of a text, and of a longer one. *)
LEMMA FrontLonger ==
  ASSUME NEW marker \in Texts, Len(marker) > 0, NEW t \in Texts, NEW b \in Texts
  PROVE  /\ IsPrefix(marker, t) => IsPrefix(marker, t \o b)
         /\ IsPrefix(marker, t \o b) \/ IsPrefix(t \o b, marker) =>
              /\ IsPrefix(marker, t) \/ IsPrefix(t, marker)
              /\ Emitted(marker, t) = 0
<1> PICK u : u = t \o b OBVIOUS
<1>1. /\ u \in Texts /\ Len(u) = Len(t) + Len(b) /\ Len(t) \in Nat /\ Len(b) \in Nat
      /\ \A i \in 1 .. Len(t) : u[i] = t[i]
  BY ConcatText DEF Texts
<1>2. ASSUME IsPrefix(marker, t) PROVE IsPrefix(marker, u)
  <2>1. Len(marker) <= Len(t) /\ \A i \in 1 .. Len(marker) : marker[i] = t[i]
    BY <1>2, PrefixText
  <2>2. Len(marker) <= Len(u) /\ \A i \in 1 .. Len(marker) : marker[i] = u[i]
    <3>1. Len(marker) \in Nat
      BY DEF Texts
    <3> QED BY <1>1, <2>1, <3>1
  <2> QED BY <1>1, <2>2, PrefixText
<1>3. ASSUME IsPrefix(marker, u) \/ IsPrefix(u, marker)
      PROVE  /\ IsPrefix(marker, t) \/ IsPrefix(t, marker)
             /\ Emitted(marker, t) = 0
  <2>1. Emitted(marker, u) = 0
    BY <1>1, <1>3, EmittedNothing
  <2>2. Emitted(marker, t) = 0
    <3>1. Emitted(marker, t) <= Emitted(marker, t \o b) /\ Emitted(marker, t) \in 0 .. Len(t)
      BY EmittedLonger
    <3> QED BY <1>1, <2>1, <3>1
  <2> QED BY <2>2, EmittedNothing
<1> QED
  BY <1>2, <1>3

(* Nothing is emitted in front of what may be a marker. *)
LEMMA EmptyIsThere ==
  ASSUME NEW p \in Parsers, NEW kind \in Kinds, NEW marker \in Texts, Len(marker) > 0,
         Emitted(marker, p.pending) = 0
  PROVE  EmitBefore(p, kind, marker, FALSE) = p
<1>1. EmitsBefore(p, kind, marker, FALSE)
  BY EmitBeforeIs
<1> QED
  BY <1>1 DEF EmitsBefore, Emit

(* All but the pending text and the deltas. *)
SameControl(p, q) ==
  /\ q.mode = p.mode /\ q.tools = p.tools
  /\ q.initial_reasoning = p.initial_reasoning
  /\ q.trim_answer_newlines = p.trim_answer_newlines

(* EmitBefore leaves the state of the parser. *)
LEMMA EmitBeforeTyped ==
  ASSUME NEW p \in Parsers, NEW kind \in Kinds, NEW marker \in Texts, Len(marker) > 0
  PROVE  /\ EmitBefore(p, kind, marker, FALSE) \in Parsers
         /\ SameControl(p, EmitBefore(p, kind, marker, FALSE))
<1> PICK n : n = Before(marker, p.pending, FALSE) OBVIOUS
<1> PICK q : q = EmitBefore(p, kind, marker, FALSE) OBVIOUS
<1>1. n \in 0 .. Len(p.pending) /\ q = Emit(p, kind, n)
  <2>1. EmitsBefore(p, kind, marker, FALSE)
    BY EmitBeforeIs
  <2> QED BY <2>1 DEF EmitsBefore
<1>2. q \in Parsers /\ Emits(p, kind, n, q)
  BY <1>1, EmitSays
<1>3. SameControl(p, q)
  BY <1>2 DEF Emits, SameControl
<1> QED
  BY <1>2, <1>3

(* A turn in reasoning. *)
LEMMA ReasoningMeets ==
  ASSUME NEW p \in Parsers, p.mode = "Reasoning", NEW b \in Texts
  PROVE  Meets(p, b, Turn(Longer(p, b), FALSE))
<1> PICK t, l, u : t = p.pending /\ l = Longer(p, b) /\ u = t \o b OBVIOUS
<1>1. /\ t \in Texts /\ Len(t) \in Nat /\ p.initial_reasoning \in BOOLEAN
      /\ u \in Texts
  <2>1. t \in Texts /\ Len(t) \in Nat /\ p.initial_reasoning \in BOOLEAN
    BY ParserFields
  <2> QED BY <2>1, ConcatText
<1>2. /\ l \in Parsers /\ l.mode = "Reasoning" /\ l.tools = p.tools /\ l.deltas = p.deltas
      /\ l.initial_reasoning = p.initial_reasoning
      /\ l.trim_answer_newlines = p.trim_answer_newlines
      /\ l.pending = u
  BY LongerTyped
<1> PICK v, y : v = Turn(p, FALSE) /\ y = Turn(l, FALSE) OBVIOUS
<1>3. v = Reasoning(p, FALSE) /\ y = Reasoning(l, FALSE)
  BY <1>2 DEF Turn
<1>4. /\ OPEN_THINK \in Texts /\ Len(OPEN_THINK) = 3 /\ Len(OPEN_THINK) > 0
      /\ CLOSE_THINK \in Texts /\ Len(CLOSE_THINK) = 2 /\ Len(CLOSE_THINK) > 0
      /\ "Reasoning" \in Kinds
  BY Markers DEF Kinds
<1>5. /\ IsPrefix(OPEN_THINK, t) => IsPrefix(OPEN_THINK, u)
      /\ IsPrefix(OPEN_THINK, u) \/ IsPrefix(u, OPEN_THINK) =>
           IsPrefix(OPEN_THINK, t) \/ IsPrefix(t, OPEN_THINK)
  BY <1>1, <1>4, FrontLonger
<1>6. /\ IsPrefix(CLOSE_THINK, t) => IsPrefix(CLOSE_THINK, u)
      /\ IsPrefix(CLOSE_THINK, u) => Emitted(CLOSE_THINK, t) = 0
  BY <1>1, <1>4, FrontLonger
<1>7. ASSUME NEW n \in 0 .. Len(t)
      PROVE  From(u, n + 1) = From(t, n + 1) \o b /\ From(t, n + 1) \in Texts
  <2>1. From(u, n + 1) = From(t, n + 1) \o b
    BY Zenon, <1>1, CutLonger
  <2>2. From(t, n + 1) \in Texts
    <3> PICK k : k = n + 1 OBVIOUS
    <3>1. k \in Nat /\ 1 <= k /\ k <= Len(t) + 1
      BY <1>1
    <3>2. From(t, k) \in Texts
      BY <1>1, <3>1, FromTyped
    <3> QED BY <3>2
  <2> QED BY <2>1, <2>2
<1>8. CASE p.initial_reasoning /\ IsPrefix(OPEN_THINK, t)
  <2>1. 3 \in 0 .. Len(t)
    <3>1. Len(OPEN_THINK) <= Len(t)
      BY <1>1, <1>4, <1>8, PrefixText
    <3> QED BY <1>1, <1>4, <3>1
  <2> PICK r, s : r = From(t, Len(OPEN_THINK) + 1) /\ s = From(u, Len(OPEN_THINK) + 1) OBVIOUS
  <2>2. r \in Texts /\ s = r \o b
    BY <1>4, <1>7, <2>1
  <2>3. v = [p EXCEPT !.pending = r, !.initial_reasoning = FALSE]
    BY <1>3, <1>8 DEF Reasoning
  <2>4. y = [l EXCEPT !.pending = s, !.initial_reasoning = FALSE]
    BY <1>2, <1>3, <1>5, <1>8 DEF Reasoning
  <2>5. /\ v \in Parsers /\ v.pending = r /\ v.initial_reasoning = FALSE /\ v.mode = p.mode
        /\ v.trim_answer_newlines = p.trim_answer_newlines /\ v.tools = p.tools
        /\ v.deltas = p.deltas
    BY <2>2, <2>3 DEF Parsers
  <2>6. /\ y.pending = s /\ y.initial_reasoning = FALSE /\ y.mode = l.mode
        /\ y.trim_answer_newlines = l.trim_answer_newlines /\ y.tools = l.tools
        /\ y.deltas = l.deltas
    BY <1>2, <2>4 DEF Parsers
  <2> PICK x : x = Longer(v, b) OBVIOUS
  <2>7. /\ x.mode = v.mode /\ x.tools = v.tools /\ x.deltas = v.deltas
        /\ x.initial_reasoning = v.initial_reasoning
        /\ x.trim_answer_newlines = v.trim_answer_newlines
        /\ x.pending = v.pending \o b
    BY <2>5, LongerTyped
  <2>8. Alike(x, y)
    BY Zenon, <1>2, <2>2, <2>5, <2>6, <2>7 DEF Alike
  <2> QED BY <2>8 DEF Meets
<1>9. CASE ~IsPrefix(OPEN_THINK, t) /\ p.initial_reasoning /\ IsPrefix(t, OPEN_THINK)
  <2>1. v = p
    BY <1>3, <1>9 DEF Reasoning
  <2> QED BY <2>1 DEF Meets
<1>10. CASE /\ ~(p.initial_reasoning /\ (IsPrefix(OPEN_THINK, t) \/ IsPrefix(t, OPEN_THINK)))
            /\ IsPrefix(CLOSE_THINK, t)
  <2>1. 2 \in 0 .. Len(t)
    <3>1. Len(CLOSE_THINK) <= Len(t)
      BY <1>1, <1>4, <1>10, PrefixText
    <3> QED BY <1>1, <1>4, <3>1
  <2> PICK r, s : r = From(t, Len(CLOSE_THINK) + 1) /\ s = From(u, Len(CLOSE_THINK) + 1) OBVIOUS
  <2>2. r \in Texts /\ s = r \o b
    BY <1>4, <1>7, <2>1
  <2>3. v = [p EXCEPT !.pending = r, !.initial_reasoning = FALSE, !.mode = "Text",
                      !.trim_answer_newlines = 2]
    BY <1>3, <1>10 DEF Reasoning
  <2>4. y = [l EXCEPT !.pending = s, !.initial_reasoning = FALSE, !.mode = "Text",
                      !.trim_answer_newlines = 2]
    BY <1>2, <1>3, <1>5, <1>6, <1>10 DEF Reasoning
  <2>5. /\ v \in Parsers /\ v.pending = r /\ v.initial_reasoning = FALSE /\ v.mode = "Text"
        /\ v.trim_answer_newlines = 2 /\ v.tools = p.tools
        /\ v.deltas = p.deltas
    <3>1. v \in Parsers
      BY TurnAdvances DEF Advances
    <3>2. /\ v.pending = r /\ v.initial_reasoning = FALSE /\ v.mode = "Text"
          /\ v.trim_answer_newlines = 2 /\ v.tools = p.tools
          /\ v.deltas = p.deltas
      BY <2>3 DEF Parsers
    <3> QED BY <3>1, <3>2
  <2>6. /\ y.pending = s /\ y.initial_reasoning = FALSE /\ y.mode = "Text"
        /\ y.trim_answer_newlines = 2 /\ y.tools = l.tools
        /\ y.deltas = l.deltas
    BY <1>2, <2>4 DEF Parsers
  <2> PICK x : x = Longer(v, b) OBVIOUS
  <2>7. /\ x.mode = v.mode /\ x.tools = v.tools /\ x.deltas = v.deltas
        /\ x.initial_reasoning = v.initial_reasoning
        /\ x.trim_answer_newlines = v.trim_answer_newlines
        /\ x.pending = v.pending \o b
    BY <2>5, LongerTyped
  <2>8. Alike(x, y)
    BY Zenon, <1>2, <2>2, <2>5, <2>6, <2>7 DEF Alike
  <2> QED BY <2>8 DEF Meets
<1>11. CASE /\ ~(p.initial_reasoning /\ (IsPrefix(OPEN_THINK, t) \/ IsPrefix(t, OPEN_THINK)))
            /\ ~IsPrefix(CLOSE_THINK, t)
  <2> PICK r : r = [p EXCEPT !.initial_reasoning = FALSE] OBVIOUS
  <2> PICK k : k = [l EXCEPT !.initial_reasoning = FALSE] OBVIOUS
  <2>1. v = EmitBefore(r, "Reasoning", CLOSE_THINK, FALSE)
    BY <1>3, <1>11 DEF Reasoning
  <2>2. r \in Parsers /\ r.pending = t /\ r.initial_reasoning = FALSE /\ r.mode = "Reasoning"
    BY DEF Parsers
  <2>3. k = Longer(r, b) /\ k \in Parsers /\ k.pending = u /\ k.mode = "Reasoning"
        /\ k.initial_reasoning = FALSE
    <3>1. k = [r EXCEPT !.pending = u]
      BY <1>1 DEF Longer, Parsers
    <3> QED BY <1>1, <2>2, <3>1 DEF Parsers, Longer
  <2>4. CASE IsPrefix(CLOSE_THINK, u)
    <3>1. v = r
      <4>1. Emitted(CLOSE_THINK, r.pending) = 0
        BY <1>6, <2>2, <2>4
      <4>2. PICK kd, m : kd = "Reasoning" /\ m = CLOSE_THINK OBVIOUS
      <4>3. EmitBefore(r, kd, m, FALSE) = r
        BY <1>4, <2>2, <4>1, <4>2, EmptyIsThere
      <4> QED BY <2>1, <4>2, <4>3
    <3> PICK s : s = From(u, Len(CLOSE_THINK) + 1) OBVIOUS
    <3>2. y = [l EXCEPT !.pending = s, !.initial_reasoning = FALSE, !.mode = "Text",
                        !.trim_answer_newlines = 2]
      BY <1>2, <1>3, <1>5, <1>11, <2>4 DEF Reasoning
    <3>3. Turn(k, FALSE) = [k EXCEPT !.pending = s, !.initial_reasoning = FALSE, !.mode = "Text",
                                     !.trim_answer_newlines = 2]
      <4>1. Turn(k, FALSE) = Reasoning(k, FALSE)
        BY <2>3 DEF Turn
      <4> QED BY <2>3, <2>4, <4>1 DEF Reasoning
    <3> PICK z : z = Turn(k, FALSE) OBVIOUS
    <3>4. Alike(z, y)
      <4>1. k.tools = l.tools /\ k.deltas = l.deltas
        BY <1>2 DEF Parsers
      <4>2. /\ z.pending = s /\ z.initial_reasoning = FALSE /\ z.mode = "Text"
            /\ z.trim_answer_newlines = 2 /\ z.tools = k.tools /\ z.deltas = k.deltas
        BY <2>3, <3>3 DEF Parsers
      <4>3. /\ y.pending = s /\ y.initial_reasoning = FALSE /\ y.mode = "Text"
            /\ y.trim_answer_newlines = 2 /\ y.tools = l.tools /\ y.deltas = l.deltas
        BY <1>2, <3>2 DEF Parsers
      <4> QED BY <4>1, <4>2, <4>3 DEF Alike
    <3> QED BY <2>3, <3>1, <3>4 DEF Meets
  <2>5. CASE ~IsPrefix(CLOSE_THINK, u)
    <3>1. y = EmitBefore(k, "Reasoning", CLOSE_THINK, FALSE)
      BY <1>2, <1>3, <1>5, <1>11, <2>5 DEF Reasoning
    <3> PICK x : x = Longer(v, b) OBVIOUS
    <3>2. Catches(x, "Reasoning", CLOSE_THINK, y)
      <4> PICK kd, m : kd = "Reasoning" /\ m = CLOSE_THINK OBVIOUS
      <4>1. kd \in Kinds /\ m \in Texts /\ Len(m) > 0
        BY <1>4
      <4>2. Catches(Longer(EmitBefore(r, kd, m, FALSE), b), kd, m,
                    EmitBefore(Longer(r, b), kd, m, FALSE))
        BY <2>2, <4>1, EmitLonger
      <4> QED BY <2>1, <2>3, <3>1, <4>2
    <3>3. v \in Parsers /\ v.mode = "Reasoning" /\ v.initial_reasoning = FALSE
      <4> PICK kd, m : kd = "Reasoning" /\ m = CLOSE_THINK OBVIOUS
      <4>1. kd \in Kinds /\ m \in Texts /\ Len(m) > 0
        BY <1>4
      <4>2. v = EmitBefore(r, kd, m, FALSE)
        BY <2>1
      <4>3. v \in Parsers /\ SameControl(r, v)
        BY <2>2, <4>1, <4>2, EmitBeforeTyped
      <4> QED BY <2>2, <4>3 DEF SameControl
    <3>4. x \in Parsers /\ x.mode = "Reasoning" /\ x.initial_reasoning = FALSE
      BY <3>3, LongerTyped
    <3>5. ~IsPrefix(CLOSE_THINK, x.pending) =>
            Turn(x, FALSE) = EmitBefore(x, "Reasoning", CLOSE_THINK, FALSE)
      <4>1. Turn(x, FALSE) = Reasoning(x, FALSE)
        BY <3>4 DEF Turn
      <4>2. [x EXCEPT !.initial_reasoning = FALSE] = x
        BY <3>4 DEF Parsers
      <4> QED BY <3>4, <4>1, <4>2 DEF Reasoning
    <3> QED BY <3>2, <3>5 DEF Catches, Meets
  <2> QED BY <2>4, <2>5
<1> QED
  BY <1>1, <1>8, <1>9, <1>10, <1>11

CutsLonger(t, b, n) == From(t \o b, n + 1) = From(t, n + 1) \o b

(* What is left of a longer text. *)
LEMMA CutBefore ==
  ASSUME NEW t \in Texts, NEW b \in Texts, NEW n \in 0 .. Len(t)
  PROVE  CutsLonger(t, b, n)
BY CutLonger DEF CutsLonger

CutsTwice(t, m, n) == From(From(t, m + 1), n - m + 1) = From(t, n + 1)

(* Cutting twice is cutting once. *)
LEMMA CutAgain ==
  ASSUME NEW t \in Texts, NEW n \in 0 .. Len(t), NEW m \in 0 .. n
  PROVE  CutsTwice(t, m, n)
BY CutInTwo DEF CutsTwice

(* The newlines at the front of a longer text. *)
NewlinesGrow(t, b, n, c, k) ==
  /\ c \in 0 .. Len(t) /\ c <= n
  /\ c = Len(t) => /\ k \in 0 .. Len(b) /\ c + k \in 0 .. Len(t \o b)
                   /\ Newlines(t \o b, n) = c + k
  /\ c # Len(t) \/ c = n => Newlines(t \o b, n) = c

(* More of the text adds newlines only behind nothing but newlines. *)
LEMMA NewlinesLonger ==
  ASSUME NEW t \in Texts, NEW b \in Texts, NEW n \in Nat
  PROVE  NewlinesGrow(t, b, n, Newlines(t, n), Newlines(b, n - Newlines(t, n)))
<1> PICK c : c = Newlines(t, n) OBVIOUS
<1> PICK k : k = Newlines(b, n - c) OBVIOUS
<1> PICK u : u = t \o b OBVIOUS
<1>1. /\ u \in Texts /\ Len(u) = Len(t) + Len(b) /\ Len(t) \in Nat /\ Len(b) \in Nat
      /\ \A i \in 1 .. Len(t) : u[i] = t[i]
      /\ \A i \in 1 .. Len(b) : u[Len(t) + i] = b[i]
  BY ConcatText DEF Texts
<1>2. /\ c \in 0 .. Len(t) /\ c <= n
      /\ \A i \in 1 .. c : t[i] = Newline
      /\ Stops(t, n, c)
  BY NewlinesOf
<1>3. ASSUME c = Len(t)
      PROVE  k \in 0 .. Len(b) /\ c + k \in 0 .. Len(u) /\ Newlines(u, n) = c + k
  <2> PICK m, d : m = n - c /\ d = c + k OBVIOUS
  <2>1. m \in Nat
    BY <1>1, <1>2
  <2>2. /\ k \in 0 .. Len(b) /\ k <= m
        /\ \A i \in 1 .. k : b[i] = Newline
        /\ Stops(b, m, k)
    BY <2>1, NewlinesOf
  <2>3. d \in 0 .. Len(u) /\ d <= n
    BY <1>1, <1>2, <1>3, <2>1, <2>2
  <2>4. ASSUME NEW i \in 1 .. d PROVE u[i] = Newline
    <3>1. CASE i <= c
      BY <1>1, <1>2, <1>3, <3>1
    <3>2. CASE ~(i <= c)
      <4> PICK j : j = i - c OBVIOUS
      <4>1. j \in 1 .. k /\ j \in 1 .. Len(b) /\ i = Len(t) + j
        BY <1>1, <1>2, <1>3, <2>2, <3>2
      <4> QED BY <1>1, <2>2, <4>1
    <3> QED BY <3>1, <3>2
  <2>5. Stops(u, n, d)
    <3>1. CASE k = m
      BY <1>1, <1>2, <2>1, <3>1 DEF Stops
    <3>2. CASE k = Len(b)
      BY <1>1, <1>3, <3>2 DEF Stops
    <3>3. CASE k # Len(b) /\ b[k + 1] # Newline
      <4> PICK j : j = k + 1 OBVIOUS
      <4>1. j \in 1 .. Len(b) /\ d + 1 = Len(t) + j
        BY <1>1, <1>3, <2>2, <3>3
      <4> QED BY <1>1, <3>3, <4>1 DEF Stops
    <3> QED BY <2>2, <3>1, <3>2, <3>3 DEF Stops
  <2>6. Newlines(u, n) = d
    BY <1>1, <2>3, <2>4, <2>5, NewlinesAre
  <2> QED BY <2>2, <2>3, <2>6
<1>4. ASSUME c # Len(t) \/ c = n PROVE Newlines(u, n) = c
  <2>1. c \in 0 .. Len(u) /\ \A i \in 1 .. c : u[i] = Newline
    <3>1. c <= Len(t)
      BY <1>2
    <3> QED BY <1>1, <1>2, <3>1
  <2>2. Stops(u, n, c)
    <3>1. CASE c # n /\ c # Len(t)
      <4>1. t[c + 1] = u[c + 1]
        <5>1. c + 1 \in 1 .. Len(t)
          BY <1>1, <1>2, <3>1
        <5> QED BY <1>1, <5>1
      <4> QED BY <1>2, <3>1, <4>1 DEF Stops
    <3> QED BY <1>4, <3>1 DEF Stops
  <2> QED BY <1>1, <1>2, <2>1, <2>2, NewlinesAre
<1>5. NewlinesGrow(t, b, n, c, k)
  BY <1>2, <1>3, <1>4 DEF NewlinesGrow
<1> QED
  BY <1>5

(* Newlines are trimmed in two steps, or what comes later is not looked at. *)
TrimsLonger(p, b, q) ==
  IF q.trim_answer_newlines > 0 /\ q.pending = <<>>
  THEN Trimmed(Longer(q, b)) = Trimmed(Longer(p, b))
  ELSE Trimmed(Longer(p, b)) = Longer(q, b)

(* A parser is its fields. *)
LEMMA SameParser ==
  ASSUME NEW p \in Parsers, NEW q \in Parsers, p.mode = q.mode, p.tools = q.tools,
         p.pending = q.pending, p.initial_reasoning = q.initial_reasoning,
         p.trim_answer_newlines = q.trim_answer_newlines, p.deltas = q.deltas
  PROVE  p = q
BY DEF Parsers

(* Trimming before more of the text has come, and after it. *)
LEMMA TrimmedLonger ==
  ASSUME NEW p \in Parsers, NEW b \in Texts
  PROVE  TrimsLonger(p, b, Trimmed(p))
<1> PICK t, n, l, u : t = p.pending /\ n = p.trim_answer_newlines /\ l = Longer(p, b) /\ u = t \o b
  OBVIOUS
<1>1. /\ t \in Texts /\ n \in Nat /\ Len(t) \in Nat
      /\ u \in Texts /\ Len(u) = Len(t) + Len(b) /\ Len(b) \in Nat
  <2>1. t \in Texts /\ n \in Nat /\ Len(t) \in Nat
    BY ParserFields
  <2> QED BY <2>1, ConcatText DEF Texts
<1>2. /\ l \in Parsers /\ l.mode = p.mode /\ l.tools = p.tools /\ l.deltas = p.deltas
      /\ l.initial_reasoning = p.initial_reasoning
      /\ l.trim_answer_newlines = n /\ l.pending = u
  BY LongerTyped
<1> PICK c : c = Newlines(t, n) OBVIOUS
<1> PICK k : k = Newlines(b, n - c) OBVIOUS
<1>3. /\ c \in 0 .. Len(t) /\ c <= n
      /\ c = Len(t) => k \in 0 .. Len(b) /\ c + k \in 0 .. Len(u) /\ Newlines(u, n) = c + k
      /\ c # Len(t) \/ c = n => Newlines(u, n) = c
  <2>1. NewlinesGrow(t, b, n, c, k)
    BY <1>1, NewlinesLonger
  <2>2. c \in 0 .. Len(t) /\ c <= n
    BY <2>1 DEF NewlinesGrow
  <2>3. c = Len(t) => k \in 0 .. Len(b) /\ c + k \in 0 .. Len(u) /\ Newlines(u, n) = c + k
    BY <2>1 DEF NewlinesGrow
  <2>4. c # Len(t) \/ c = n => Newlines(u, n) = c
    BY <2>1 DEF NewlinesGrow
  <2> QED BY <2>2, <2>3, <2>4
<1> PICK q : q = Trimmed(p) OBVIOUS
<1> PICK x : x = Longer(q, b) OBVIOUS
<1> PICK y : y = Trimmed(l) OBVIOUS
<1>4. /\ q \in Parsers /\ q.mode = p.mode /\ q.tools = p.tools /\ q.deltas = p.deltas
      /\ q.initial_reasoning = p.initial_reasoning
      /\ q.trim_answer_newlines = n - c /\ q.pending = From(t, c + 1)
  BY TrimmedIs DEF Trims
<1>5. /\ x \in Parsers /\ x.mode = p.mode /\ x.tools = p.tools /\ x.deltas = p.deltas
      /\ x.initial_reasoning = p.initial_reasoning
      /\ x.trim_answer_newlines = n - c /\ x.pending = q.pending \o b
  BY <1>4, LongerTyped
<1>6. x.pending = From(u, c + 1)
  <2>1. From(t \o b, c + 1) = From(t, c + 1) \o b
    <3>1. CutsLonger(t, b, c)
      BY <1>1, <1>3, CutBefore
    <3> QED BY <3>1 DEF CutsLonger
  <2> QED BY <1>4, <1>5, <2>1
<1>7. /\ y \in Parsers /\ y.mode = p.mode /\ y.tools = p.tools /\ y.deltas = p.deltas
      /\ y.initial_reasoning = p.initial_reasoning
      /\ y.trim_answer_newlines = n - Newlines(u, n)
      /\ y.pending = From(u, Newlines(u, n) + 1)
  <2>1. y \in Parsers /\ Trims(l, y)
    BY <1>2, TrimmedIs
  <2> QED BY ONLY Zenon, <1>2, <2>1 DEF Trims
<1>8. Len(q.pending) = Len(t) - c
  <2> PICK i : i = c + 1 OBVIOUS
  <2>1. i \in Nat /\ 1 <= i /\ i <= Len(t) + 1
    BY <1>1, <1>3
  <2>2. Len(From(t, i)) = Len(t) - i + 1
    BY <1>1, <2>1, FromTyped
  <2> QED BY <1>1, <1>3, <1>4, <2>2
<1>9. CASE q.trim_answer_newlines > 0 /\ q.pending = <<>>
  <2>1. c = Len(t)
    BY <1>1, <1>3, <1>8, <1>9
  <2>2. x.pending = b
    <3>1. b \in Seq(Letter)
      BY DEF Texts
    <3> QED BY <1>5, <1>9, <3>1, ConcatEmptySeq
  <2> PICK z : z = Trimmed(x) OBVIOUS
  <2>3. /\ z \in Parsers /\ z.mode = p.mode /\ z.tools = p.tools /\ z.deltas = p.deltas
        /\ z.initial_reasoning = p.initial_reasoning
        /\ z.trim_answer_newlines = (n - c) - k
        /\ z.pending = From(b, k + 1)
    <3>1. Trims(x, z) /\ z \in Parsers
      BY <1>5, TrimmedIs
    <3> QED BY <1>5, <2>2, <3>1 DEF Trims
  <2>4. z.pending = y.pending
    <3> PICK m : m = c + k OBVIOUS
    <3>1. m \in 0 .. Len(u) /\ c \in 0 .. m /\ m - c = k
      BY <1>1, <1>3, <2>1
    <3>2. From(From(u, c + 1), m - c + 1) = From(u, m + 1)
      <4>1. CutsTwice(u, c, m)
        BY <1>1, <3>1, CutAgain
      <4> QED BY <4>1 DEF CutsTwice
    <3> QED BY Zenon, <1>3, <1>6, <1>7, <2>1, <2>2, <2>3, <3>1, <3>2
  <2>5. z.trim_answer_newlines = y.trim_answer_newlines
    <3> PICK d : d = Newlines(u, n) OBVIOUS
    <3>1. /\ d = c + k /\ c \in Nat /\ k \in Nat /\ n \in Nat
          /\ z.trim_answer_newlines = (n - c) - k /\ y.trim_answer_newlines = n - d
      <4>1. d = c + k /\ k \in Nat
        BY <1>1, <1>3, <2>1
      <4>2. c \in Nat /\ n \in Nat
        BY <1>1, <1>3
      <4> QED BY <1>7, <2>3, <4>1, <4>2
    <3> QED BY <3>1
  <2>6. z = y
    BY <1>7, <2>3, <2>4, <2>5, SameParser
  <2> QED BY <1>9, <2>6 DEF TrimsLonger
<1>10. CASE ~(q.trim_answer_newlines > 0 /\ q.pending = <<>>)
  <2>1. c # Len(t) \/ c = n
    <3>1. CASE q.trim_answer_newlines > 0
      <4>1. Len(q.pending) # 0
        <5>1. q.pending \in Seq(Letter)
          BY <1>4, ParserFields DEF Texts
        <5> QED BY <1>10, <3>1, <5>1, EmptySeq
      <4> QED BY <1>1, <1>3, <1>8, <4>1
    <3>2. CASE ~(q.trim_answer_newlines > 0)
      BY <1>1, <1>3, <1>4, <3>2
    <3> QED BY <3>1, <3>2
  <2>2. x.pending = y.pending /\ x.trim_answer_newlines = y.trim_answer_newlines
    BY <1>3, <1>5, <1>6, <1>7, <2>1
  <2>3. x = y
    BY <1>5, <1>7, <2>2, SameParser
  <2> QED BY <1>10, <2>3 DEF TrimsLonger
<1> QED
  BY <1>9, <1>10

(* A turn in text, once no newlines are to be trimmed. *)
TextIsPlain(p, q) ==
  q = IF ~p.tools THEN Emit(p, "Text", Len(p.pending))
      ELSE IF IsPrefix(OPEN_TOOL, p.pending)
      THEN [p EXCEPT !.pending = From(p.pending, Len(OPEN_TOOL) + 1), !.mode = "Tool"]
      ELSE EmitBefore(p, "Text", OPEN_TOOL, FALSE)

(* Without newlines to trim nothing is trimmed. *)
LEMMA NothingToTrim ==
  ASSUME NEW p \in Parsers, p.trim_answer_newlines = 0
  PROVE  Trimmed(p) = p
<1> PICK q, t : q = Trimmed(p) /\ t = p.pending OBVIOUS
<1> PICK c : c = Newlines(t, 0) OBVIOUS
<1>1. t \in Texts /\ Len(t) \in Nat
  BY ParserFields
<1>2. c = 0
  <2>1. c \in 0 .. Len(t) /\ c <= 0
    BY <1>1, NewlinesOf
  <2> QED BY <1>1, <2>1
<1>3. From(t, 1) = t
  BY <1>1 DEF From, Texts
<1>4. q \in Parsers /\ Trims(p, q)
  BY TrimmedIs
<1>5. q.pending = p.pending /\ q.trim_answer_newlines = p.trim_answer_newlines
  BY <1>2, <1>3, <1>4 DEF Trims
<1>6. q = p
  BY <1>4, <1>5, SameParser DEF Trims
<1> QED
  BY <1>6

(* A turn in text without newlines to trim is a plain one. *)
LEMMA PlainText ==
  ASSUME NEW p \in Parsers, p.mode = "Text", p.trim_answer_newlines = 0
  PROVE  TextIsPlain(p, Turn(p, FALSE))
<1>1. Trimmed(p) = p /\ [p EXCEPT !.trim_answer_newlines = 0] = p
  <2>1. [p EXCEPT !.trim_answer_newlines = 0] = p
    BY DEF Parsers
  <2> QED BY <2>1, NothingToTrim
<1>2. TextTurn(p, FALSE, p, p)
  BY <1>1, TextIs
<1>3. Turn(p, FALSE) = Text(p, FALSE)
  BY DEF Turn
<1>4. Text(p, FALSE) =
        IF p.trim_answer_newlines > 0 /\ p.pending = <<>> THEN p
        ELSE IF ~p.tools THEN Emit(p, "Text", Len(p.pending))
        ELSE IF IsPrefix(OPEN_TOOL, p.pending)
        THEN [p EXCEPT !.pending = From(p.pending, Len(OPEN_TOOL) + 1), !.mode = "Tool"]
        ELSE EmitBefore(p, "Text", OPEN_TOOL, FALSE)
  BY <1>2 DEF TextTurn
<1>5. ~(p.trim_answer_newlines > 0 /\ p.pending = <<>>)
  OBVIOUS
<1>6. TextIsPlain(p, Text(p, FALSE))
  BY <1>4, <1>5, Zenon DEF TextIsPlain
<1> QED
  BY <1>3, <1>6

(* Parsers that are alike emit the same. *)
LEMMA EmitAlike ==
  ASSUME NEW p \in Parsers, NEW q \in Parsers, Alike(p, q), NEW kind \in Kinds,
         NEW count \in 0 .. Len(p.pending)
  PROVE  Alike(Emit(p, kind, count), Emit(q, kind, count))
<1>1. Silence \in Saids /\ Ahead(p, q, Silence)
  BY AlikeAhead
<1>2. Ahead(Emit(p, kind, count), Emit(q, kind, count), Silence)
  BY <1>1, EmitAhead
<1>3. Emit(p, kind, count) \in Parsers /\ Emit(q, kind, count) \in Parsers
  <2>1. count \in 0 .. Len(q.pending)
    BY DEF Alike
  <2> QED BY <2>1, EmitSays
<1> QED
  BY <1>2, <1>3, AlikeAhead

(* All of the text is emitted. *)
LEMMA AllLonger ==
  ASSUME NEW p \in Parsers, NEW kind \in Kinds, NEW b \in Texts,
         NEW x, x = Longer(Emit(p, kind, Len(p.pending)), b),
         NEW l, l = Longer(p, b)
  PROVE  Alike(Emit(x, kind, Len(x.pending)), Emit(l, kind, Len(l.pending)))
<1> PICK m, n : m = Len(p.pending) /\ n = Len(l.pending) OBVIOUS
<1>1. l \in Parsers /\ m \in Nat /\ n \in Nat
  BY LongerTyped, ParserFields
<1> PICK y : y = Emit(l, kind, m) OBVIOUS
<1>2. m \in 0 .. n /\ Alike(x, y)
  <2>1. m \in 0 .. Len(p.pending)
    BY <1>1
  <2>2. m \in 0 .. Len(l.pending) /\ Alike(x, y)
    BY <2>1, EmitMore
  <2> QED BY <2>2
<1>3. x \in Parsers
  <2> PICK e : e = Emit(p, kind, m) OBVIOUS
  <2>1. m \in 0 .. Len(p.pending)
    BY <1>1
  <2>2. e \in Parsers
    BY <2>1, EmitSays
  <2> QED BY <2>2, LongerTyped
<1>4. y \in Parsers /\ Len(y.pending) = n - m
  BY <1>1, <1>2, EmitTyped
<1> PICK d : d = n - m OBVIOUS
<1>5. Len(x.pending) = d /\ d \in 0 .. Len(x.pending)
  <2>1. Len(x.pending) = d
    BY <1>2, <1>4 DEF Alike
  <2> QED BY <1>1, <1>2, <2>1
<1>6. Alike(Emit(x, kind, d), Emit(y, kind, d))
  BY <1>2, <1>3, <1>4, <1>5, EmitAlike
<1>7. Alike(Emit(y, kind, d), Emit(l, kind, n))
  <2>1. n \in 0 .. Len(l.pending)
    BY <1>1
  <2> QED BY <1>1, <1>2, <2>1, EmitTwice
<1>8. Alike(Emit(x, kind, d), Emit(l, kind, n))
  BY <1>6, <1>7, AlikeTransitive
<1> QED
  BY <1>5, <1>8

(* Every parser is like itself. *)
LEMMA AlikeReflexive ==
  ASSUME NEW p
  PROVE  Alike(p, p)
BY DEF Alike

(* A turn in text, no newlines to trim. *)
LEMMA PlainTextMeets ==
  ASSUME NEW p \in Parsers, p.mode = "Text", p.trim_answer_newlines = 0, NEW b \in Texts
  PROVE  Meets(p, b, Turn(Longer(p, b), FALSE))
<1> PICK t, l, u : t = p.pending /\ l = Longer(p, b) /\ u = t \o b OBVIOUS
<1>1. t \in Texts /\ Len(t) \in Nat /\ p.tools \in BOOLEAN /\ u \in Texts
  <2>1. t \in Texts /\ Len(t) \in Nat /\ p.tools \in BOOLEAN
    BY ParserFields
  <2> QED BY <2>1, ConcatText
<1>2. /\ l \in Parsers /\ l.mode = "Text" /\ l.tools = p.tools /\ l.deltas = p.deltas
      /\ l.initial_reasoning = p.initial_reasoning
      /\ l.trim_answer_newlines = 0
      /\ l.pending = u
  BY LongerTyped
<1> PICK v, y : v = Turn(p, FALSE) /\ y = Turn(l, FALSE) OBVIOUS
<1> PICK x : x = Longer(v, b) OBVIOUS
<1>3. TextIsPlain(p, v) /\ TextIsPlain(l, y)
  BY <1>2, PlainText
<1>4. OPEN_TOOL \in Texts /\ Len(OPEN_TOOL) = 2 /\ Len(OPEN_TOOL) > 0 /\ "Text" \in Kinds
  BY Markers DEF Kinds
<1>5. CASE ~p.tools
  <2>1. v = Emit(p, "Text", Len(p.pending)) /\ y = Emit(l, "Text", Len(l.pending))
    BY <1>2, <1>3, <1>5 DEF TextIsPlain
  <2>2. v \in Parsers /\ Emits(p, "Text", Len(p.pending), v)
    <3> PICK n, kd : n = Len(p.pending) /\ kd = "Text" OBVIOUS
    <3>1. n \in 0 .. Len(p.pending) /\ kd \in Kinds
      BY <1>1, <1>4
    <3> QED BY <2>1, <3>1, EmitSays
  <2>3. /\ x \in Parsers /\ x.mode = "Text" /\ x.trim_answer_newlines = 0 /\ x.tools = p.tools
    BY <2>2, LongerTyped DEF Emits
  <2>4. Turn(x, FALSE) = Emit(x, "Text", Len(x.pending))
    <3>1. TextIsPlain(x, Turn(x, FALSE))
      BY <2>3, PlainText
    <3> QED BY <1>5, <2>3, <3>1 DEF TextIsPlain
  <2>5. Alike(Emit(x, "Text", Len(x.pending)), Emit(l, "Text", Len(l.pending)))
    BY <1>4, <2>1, AllLonger
  <2> QED BY <2>1, <2>4, <2>5 DEF Meets
<1>6. CASE p.tools /\ IsPrefix(OPEN_TOOL, t)
  <2>1. 2 \in 0 .. Len(t) /\ IsPrefix(OPEN_TOOL, u)
    <3>1. Len(OPEN_TOOL) <= Len(t)
      BY <1>1, <1>4, <1>6, PrefixText
    <3>2. IsPrefix(OPEN_TOOL, u)
      BY <1>1, <1>4, <1>6, FrontLonger
    <3> QED BY <1>1, <1>4, <3>1, <3>2
  <2> PICK r, s : r = From(t, Len(OPEN_TOOL) + 1) /\ s = From(u, Len(OPEN_TOOL) + 1) OBVIOUS
  <2>2. r \in Texts /\ s = r \o b
    <3>1. r \in Texts
      BY <1>1, <1>4, <1>6, MarkerTaken
    <3> PICK n : n = Len(OPEN_TOOL) OBVIOUS
    <3>2. CutsLonger(t, b, n)
      BY <1>1, <1>4, <2>1, CutBefore
    <3> QED BY <3>1, <3>2 DEF CutsLonger
  <2>3. v = [p EXCEPT !.pending = r, !.mode = "Tool"]
    BY <1>3, <1>6 DEF TextIsPlain
  <2>4. y = [l EXCEPT !.pending = s, !.mode = "Tool"]
    BY <1>2, <1>3, <1>6, <2>1 DEF TextIsPlain
  <2>5. /\ v \in Parsers /\ v.pending = r /\ v.mode = "Tool" /\ v.tools = p.tools
        /\ v.initial_reasoning = p.initial_reasoning
        /\ v.trim_answer_newlines = p.trim_answer_newlines /\ v.deltas = p.deltas
    BY <2>2, <2>3 DEF Parsers
  <2>6. /\ y.pending = s /\ y.mode = "Tool" /\ y.tools = l.tools
        /\ y.initial_reasoning = l.initial_reasoning
        /\ y.trim_answer_newlines = l.trim_answer_newlines /\ y.deltas = l.deltas
    BY <1>2, <2>4 DEF Parsers
  <2>7. /\ x.mode = v.mode /\ x.tools = v.tools /\ x.deltas = v.deltas
        /\ x.initial_reasoning = v.initial_reasoning
        /\ x.trim_answer_newlines = v.trim_answer_newlines
        /\ x.pending = v.pending \o b
    BY <2>5, LongerTyped
  <2>8. x.trim_answer_newlines = y.trim_answer_newlines
    <3>1. x.trim_answer_newlines = 0
      BY <2>5, <2>7
    <3>2. y.trim_answer_newlines = 0
      BY <1>2, <2>6
    <3> QED BY <3>1, <3>2
  <2>9. /\ x.mode = y.mode /\ x.tools = y.tools /\ x.deltas = y.deltas
        /\ x.initial_reasoning = y.initial_reasoning
    BY ONLY Zenon, <1>2, <2>5, <2>6, <2>7
  <2>10. x.pending = y.pending
    BY <2>2, <2>5, <2>6, <2>7
  <2>11. Alike(x, y)
    BY <2>8, <2>9, <2>10 DEF Alike
  <2> QED BY <2>11 DEF Meets
<1>7. CASE p.tools /\ ~IsPrefix(OPEN_TOOL, t)
  <2>1. v = EmitBefore(p, "Text", OPEN_TOOL, FALSE)
    BY <1>3, <1>7 DEF TextIsPlain
  <2>2. CASE IsPrefix(OPEN_TOOL, u)
    <3>1. Emitted(OPEN_TOOL, p.pending) = 0
      BY <1>1, <1>4, <2>2, FrontLonger
    <3>2. v = p
      <4> PICK kd, m : kd = "Text" /\ m = OPEN_TOOL OBVIOUS
      <4>1. kd \in Kinds /\ m \in Texts /\ Len(m) > 0 /\ Emitted(m, p.pending) = 0
        BY <1>4, <3>1
      <4>2. EmitBefore(p, kd, m, FALSE) = p
        BY <4>1, EmptyIsThere
      <4> QED BY <2>1, <4>2
    <3> QED BY <3>2 DEF Meets
  <2>3. CASE ~IsPrefix(OPEN_TOOL, u)
    <3> PICK kd, m : kd = "Text" /\ m = OPEN_TOOL OBVIOUS
    <3>1. kd \in Kinds /\ m \in Texts /\ Len(m) > 0
      BY <1>4
    <3>2. y = EmitBefore(l, kd, m, FALSE) /\ v = EmitBefore(p, kd, m, FALSE)
      BY <1>2, <1>3, <1>7, <2>1, <2>3 DEF TextIsPlain
    <3>3. Catches(x, kd, m, y)
      BY <3>1, <3>2, EmitLonger
    <3>4. v \in Parsers /\ SameControl(p, v)
      BY <3>1, <3>2, EmitBeforeTyped
    <3>5. x \in Parsers /\ x.mode = "Text" /\ x.trim_answer_newlines = 0 /\ x.tools = p.tools
      BY <3>4, LongerTyped DEF SameControl
    <3>6. ~IsPrefix(m, x.pending) => Turn(x, FALSE) = EmitBefore(x, kd, m, FALSE)
      <4>1. TextIsPlain(x, Turn(x, FALSE))
        BY <3>5, PlainText
      <4> QED BY <1>7, <3>5, <4>1 DEF TextIsPlain
    <3> QED BY <3>3, <3>6 DEF Catches, Meets
  <2> QED BY <2>2, <2>3
<1> QED
  BY <1>1, <1>5, <1>6, <1>7

(* A turn in text. *)
LEMMA TextMeets ==
  ASSUME NEW p \in Parsers, p.mode = "Text", NEW b \in Texts
  PROVE  Meets(p, b, Turn(Longer(p, b), FALSE))
<1> PICK l : l = Longer(p, b) OBVIOUS
<1> PICK q, s : q = Trimmed(p) /\ s = Trimmed(l) OBVIOUS
<1> PICK r : r = [q EXCEPT !.trim_answer_newlines = 0] OBVIOUS
<1> PICK v, y : v = Turn(p, FALSE) /\ y = Turn(l, FALSE) OBVIOUS
<1>1. l \in Parsers /\ l.mode = "Text" /\ l.tools = p.tools
  BY LongerTyped
<1>2. v = Text(p, FALSE) /\ y = Text(l, FALSE)
  BY <1>1 DEF Turn
<1>3. q \in Parsers /\ q.mode = "Text" /\ q.tools = p.tools
  BY TrimmedIs DEF Trims
<1>4. TrimsLonger(p, b, q)
  BY TrimmedLonger
<1>5. CASE q.trim_answer_newlines > 0 /\ q.pending = <<>>
  <2> PICK x : x = Longer(q, b) OBVIOUS
  <2>1. v = q
    <3>1. TextTurn(p, FALSE, q, r)
      BY TextIs
    <3> QED BY <1>2, <1>5, <3>1 DEF TextTurn
  <2>2. Trimmed(x) = s /\ x.mode = "Text" /\ x.tools = l.tools
    <3>1. Trimmed(x) = s
      BY <1>4, <1>5 DEF TrimsLonger
    <3>2. x.mode = "Text" /\ x.tools = l.tools
      BY <1>1, <1>3, LongerTyped
    <3> QED BY <3>1, <3>2
  <2>3. Turn(x, FALSE) = y
    <3>1. Turn(x, FALSE) = Text(x, FALSE)
      BY <2>2 DEF Turn
    <3> QED BY <1>2, <2>2, <3>1 DEF Text
  <2>4. Alike(Turn(x, FALSE), y)
    BY <2>3, AlikeReflexive
  <2> QED BY <2>1, <2>4 DEF Meets
<1>6. CASE ~(q.trim_answer_newlines > 0 /\ q.pending = <<>>)
  <2> PICK k : k = Longer(r, b) OBVIOUS
  <2>1. /\ r \in Parsers /\ r.mode = "Text" /\ r.tools = p.tools /\ r.pending = q.pending
        /\ r.initial_reasoning = q.initial_reasoning /\ r.trim_answer_newlines = 0
        /\ r.deltas = q.deltas
    BY <1>3 DEF Parsers
  <2>2. /\ k \in Parsers /\ k.mode = "Text" /\ k.tools = p.tools /\ k.deltas = q.deltas
        /\ k.initial_reasoning = q.initial_reasoning /\ k.trim_answer_newlines = 0
        /\ k.pending = q.pending \o b
    <3>1. /\ k \in Parsers /\ k.mode = r.mode /\ k.tools = r.tools /\ k.deltas = r.deltas
          /\ k.initial_reasoning = r.initial_reasoning
          /\ k.trim_answer_newlines = r.trim_answer_newlines
          /\ k.pending = r.pending \o b
      BY <2>1, LongerTyped
    <3> QED BY <2>1, <3>1
  <2>3. v = Turn(r, FALSE)
    <3>1. TextTurn(p, FALSE, q, r)
      BY TextIs
    <3>2. TextIsPlain(r, v)
      BY <1>2, <1>6, <2>1, <3>1 DEF TextTurn, TextIsPlain
    <3>3. TextIsPlain(r, Turn(r, FALSE))
      BY <2>1, PlainText
    <3> QED BY <3>2, <3>3 DEF TextIsPlain
  <2>4. /\ s \in Parsers /\ s.mode = "Text" /\ s.tools = p.tools /\ s.deltas = q.deltas
        /\ s.initial_reasoning = q.initial_reasoning
        /\ s.trim_answer_newlines = q.trim_answer_newlines
        /\ s.pending = q.pending \o b
    <3>1. s = Longer(q, b)
      BY <1>4, <1>6 DEF TrimsLonger
    <3>2. /\ s \in Parsers /\ s.mode = q.mode /\ s.tools = q.tools /\ s.deltas = q.deltas
          /\ s.initial_reasoning = q.initial_reasoning
          /\ s.trim_answer_newlines = q.trim_answer_newlines
          /\ s.pending = q.pending \o b
      <4> PICK j : j = Longer(q, b) OBVIOUS
      <4>1. /\ j \in Parsers /\ j.mode = q.mode /\ j.tools = q.tools /\ j.deltas = q.deltas
            /\ j.initial_reasoning = q.initial_reasoning
            /\ j.trim_answer_newlines = q.trim_answer_newlines
            /\ j.pending = q.pending \o b
        BY <1>3, LongerTyped
      <4> QED BY <3>1, <4>1
    <3> QED BY <1>3, <3>2
  <2>5. [s EXCEPT !.trim_answer_newlines = 0] = k
    <3> PICK j : j = [s EXCEPT !.trim_answer_newlines = 0] OBVIOUS
    <3>1. /\ j \in Parsers /\ j.mode = s.mode /\ j.tools = s.tools /\ j.deltas = s.deltas
          /\ j.initial_reasoning = s.initial_reasoning /\ j.trim_answer_newlines = 0
          /\ j.pending = s.pending
      BY <2>4 DEF Parsers
    <3>2. /\ j.mode = k.mode /\ j.tools = k.tools /\ j.deltas = k.deltas
          /\ j.initial_reasoning = k.initial_reasoning
          /\ j.trim_answer_newlines = k.trim_answer_newlines
          /\ j.pending = k.pending
      BY <2>2, <2>4, <3>1
    <3>3. j = k
      BY <2>2, <3>1, <3>2, SameParser
    <3> QED BY <3>3
  <2>6. ~(s.trim_answer_newlines > 0 /\ s.pending = <<>>)
    <3>1. CASE q.trim_answer_newlines > 0
      <4> PICK t : t = q.pending OBVIOUS
      <4>1. t \in Texts /\ t # <<>>
        BY <1>3, <1>6, <3>1, ParserFields
      <4>2. Len(t) > 0
        BY <4>1, EmptySeq, LenProperties DEF Texts
      <4>3. Len(t \o b) # 0
        <5>1. Len(t \o b) = Len(t) + Len(b) /\ Len(t) \in Nat /\ Len(b) \in Nat
          BY <4>1, ConcatText DEF Texts
        <5> QED BY <4>2, <5>1
      <4>4. t \o b # <<>>
        BY <4>3
      <4> QED BY <2>4, <4>4
    <3>2. CASE ~(q.trim_answer_newlines > 0)
      BY <2>4, <3>2
    <3> QED BY <3>1, <3>2
  <2>7. y = Turn(k, FALSE)
    <3>1. TextTurn(l, FALSE, s, k)
      BY <1>1, <2>5, TextIs
    <3>2. TextIsPlain(k, y)
      BY Zenon, <1>1, <1>2, <2>2, <2>6, <3>1 DEF TextTurn, TextIsPlain
    <3>3. TextIsPlain(k, Turn(k, FALSE))
      BY <2>2, PlainText
    <3> QED BY <3>2, <3>3 DEF TextIsPlain
  <2>8. Meets(r, b, Turn(k, FALSE))
    BY <2>1, PlainTextMeets
  <2>9. CASE Turn(r, FALSE) = r
    <3>1. Turn(Longer(v, b), FALSE) = y
      BY <2>3, <2>7, <2>9
    <3>2. Alike(Turn(Longer(v, b), FALSE), y)
      BY <3>1, AlikeReflexive
    <3> QED BY <3>2 DEF Meets
  <2> QED BY <2>3, <2>7, <2>8, <2>9 DEF Meets
<1> QED
  BY <1>5, <1>6

(* A turn inside of a tool call. *)
LEMMA ToolMeets ==
  ASSUME NEW p \in Parsers, p.mode = "Tool", NEW b \in Texts
  PROVE  Meets(p, b, Turn(Longer(p, b), FALSE))
<1> PICK t, l, u : t = p.pending /\ l = Longer(p, b) /\ u = t \o b OBVIOUS
<1>1. t \in Texts /\ Len(t) \in Nat /\ u \in Texts
  <2>1. t \in Texts /\ Len(t) \in Nat
    BY ParserFields
  <2> QED BY <2>1, ConcatText
<1>2. /\ l \in Parsers /\ l.mode = "Tool" /\ l.tools = p.tools /\ l.deltas = p.deltas
      /\ l.initial_reasoning = p.initial_reasoning
      /\ l.trim_answer_newlines = p.trim_answer_newlines
      /\ l.pending = u
  BY LongerTyped
<1> PICK v, y : v = Turn(p, FALSE) /\ y = Turn(l, FALSE) OBVIOUS
<1>3. v = Tool(p, FALSE) /\ y = Tool(l, FALSE)
  BY <1>2 DEF Turn
<1>4. CLOSE_TOOL \in Texts /\ Len(CLOSE_TOOL) = 2 /\ Len(CLOSE_TOOL) > 0
  BY Markers
<1> PICK at : at = Find(CLOSE_TOOL, t) OBVIOUS
<1>5. at \in 0 .. Len(t) /\ (at > 0 => at + 1 <= Len(t))
  <2>1. at \in 0 .. Len(t) /\ (at > 0 => at + Len(CLOSE_TOOL) - 1 <= Len(t))
    BY <1>1, <1>4, Found
  <2> QED BY <1>1, <1>4, <2>1
<1>6. CASE at > 0
  <2>1. Find(CLOSE_TOOL, u) = at
    BY Zenon, <1>1, <1>4, <1>6, FoundInLonger
  <2> PICK n : n = at + 1 OBVIOUS
  <2> PICK r, s : r = From(t, n + 1) /\ s = From(u, n + 1) OBVIOUS
  <2>2. n \in 0 .. Len(t) /\ at + Len(CLOSE_TOOL) = n + 1
    BY <1>1, <1>4, <1>5, <1>6
  <2>3. r \in Texts /\ s = r \o b
    <3>1. r \in Texts
      <4> PICK i : i = n + 1 OBVIOUS
      <4>1. i \in Nat /\ 1 <= i /\ i <= Len(t) + 1
        BY <1>1, <2>2
      <4> QED BY <1>1, <4>1, FromTyped
    <3>2. CutsLonger(t, b, n)
      BY <1>1, <2>2, CutBefore
    <3> QED BY <3>1, <3>2 DEF CutsLonger
  <2>4. v = [p EXCEPT !.pending = r, !.mode = "Text"]
    BY <1>3, <1>6, <2>2 DEF Tool
  <2>5. y = [l EXCEPT !.pending = s, !.mode = "Text"]
    <3>1. Tool(l, FALSE) = [l EXCEPT !.pending = From(u, at + Len(CLOSE_TOOL)), !.mode = "Text"]
      <4>1. l.pending = u /\ Find(CLOSE_TOOL, l.pending) = at
        BY <1>2, <2>1
      <4> QED BY <1>6, <4>1 DEF Tool
    <3> QED BY <1>3, <2>2, <3>1
  <2>6. /\ v \in Parsers /\ v.pending = r /\ v.mode = "Text" /\ v.tools = p.tools
        /\ v.initial_reasoning = p.initial_reasoning
        /\ v.trim_answer_newlines = p.trim_answer_newlines /\ v.deltas = p.deltas
    BY <2>3, <2>4 DEF Parsers
  <2>7. /\ y.pending = s /\ y.mode = "Text" /\ y.tools = l.tools
        /\ y.initial_reasoning = l.initial_reasoning
        /\ y.trim_answer_newlines = l.trim_answer_newlines /\ y.deltas = l.deltas
    BY <1>2, <2>5 DEF Parsers
  <2> PICK x : x = Longer(v, b) OBVIOUS
  <2>8. /\ x.mode = v.mode /\ x.tools = v.tools /\ x.deltas = v.deltas
        /\ x.initial_reasoning = v.initial_reasoning
        /\ x.trim_answer_newlines = v.trim_answer_newlines
        /\ x.pending = v.pending \o b
    BY <2>6, LongerTyped
  <2>9. /\ x.mode = y.mode /\ x.tools = y.tools /\ x.deltas = y.deltas
        /\ x.initial_reasoning = y.initial_reasoning
        /\ x.trim_answer_newlines = y.trim_answer_newlines
    BY ONLY Zenon, <1>2, <2>6, <2>7, <2>8
  <2>10. x.pending = y.pending
    BY <2>3, <2>6, <2>7, <2>8
  <2>11. Alike(x, y)
    BY <2>9, <2>10 DEF Alike
  <2> QED BY <2>11 DEF Meets
<1>7. CASE ~(at > 0)
  <2>1. v = p
    BY <1>3, <1>7 DEF Tool
  <2> QED BY <2>1 DEF Meets
<1> QED
  BY <1>6, <1>7

(* A turn in any mode. *)
LEMMA TurnMeets ==
  ASSUME NEW p \in Parsers, NEW b \in Texts
  PROVE  Meets(p, b, Turn(Longer(p, b), FALSE))
<1>1. p.mode \in {"Reasoning", "Text", "Tool"}
  BY ParserFields
<1> QED
  BY <1>1, ReasoningMeets, TextMeets, ToolMeets

(* With a turn taken before more of the text comes, the loop ends alike. *)
LEMMA TurnLonger ==
  ASSUME NEW p \in Parsers, NEW b \in Texts
  PROVE  Alike(Loop(Longer(Turn(p, FALSE), b), FALSE), Loop(Longer(p, b), FALSE))
<1> PICK v, l : v = Turn(p, FALSE) /\ l = Longer(p, b) OBVIOUS
<1> PICK x : x = Longer(v, b) OBVIOUS
<1> PICK y, w : y = Turn(l, FALSE) /\ w = Turn(x, FALSE) OBVIOUS
<1>1. v \in Parsers
  BY TurnAdvances DEF Advances
<1>2. x \in Parsers /\ l \in Parsers
  BY <1>1, LongerTyped
<1>3. y \in Parsers /\ w \in Parsers
  BY <1>2, TurnAdvances DEF Advances
<1>4. Meets(p, b, y)
  BY TurnMeets
<1>5. Loop(y, FALSE) = Loop(l, FALSE) /\ Loop(w, FALSE) = Loop(x, FALSE)
  BY <1>2, LoopTurn
<1>6. CASE v = p
  BY <1>6, AlikeReflexive
<1>7. CASE Alike(x, y)
  <2>1. Alike(Loop(x, FALSE), Loop(y, FALSE))
    BY <1>2, <1>3, <1>7, LoopAlike
  <2> QED BY <1>5, <2>1
<1>8. CASE Alike(w, y)
  <2>1. Alike(Loop(w, FALSE), Loop(y, FALSE))
    BY <1>3, <1>8, LoopAlike
  <2> QED BY <1>5, <2>1
<1> QED
  BY <1>4, <1>6, <1>7, <1>8 DEF Meets

(* The loop before more of the text comes, and again after it. *)
EndsAs(p, b, z) == Alike(Loop(Longer(p, b), FALSE), z)

(* The text cut in two ends as the text in one piece. *)
LEMMA LoopLonger ==
  ASSUME NEW p \in Parsers, NEW b \in Texts
  PROVE  Alike(Loop(Longer(Loop(p, FALSE), b), FALSE), Loop(Longer(p, b), FALSE))
<1> PICK N : N = TurnsOf(p) OBVIOUS
<1>1. N \in Nat
  BY LoopTurns
<1>2. PICK F \in [0 .. N -> Parsers] : Turns(F, p, FALSE, N) /\ Loop(p, FALSE) = F[N]
  BY LoopTurns
<1> PICK z : z = Loop(Longer(p, b), FALSE) OBVIOUS
<1> DEFINE P == {n \in 0 .. N : EndsAs(F[n], b, z)}
<1>3. 0 \in P
  <2>1. F[0] = p
    BY <1>2 DEF Turns
  <2>2. EndsAs(F[0], b, z)
    BY <2>1, AlikeReflexive DEF EndsAs
  <2>3. 0 \in 0 .. N
    BY <1>1
  <2> QED BY Zenon, <2>2, <2>3
<1>4. ASSUME NEW n \in 1 .. N, n - 1 \in P PROVE n \in P
  <2>1. n \in 0 .. N /\ n - 1 \in 0 .. N
    BY <1>1
  <2> PICK q, r : q = F[n - 1] /\ r = F[n] OBVIOUS
  <2>2. q \in Parsers /\ EndsAs(q, b, z)
    BY <1>2, <1>4, <2>1
  <2>3. r = Turn(q, FALSE)
    BY <1>2 DEF Turns
  <2>4. Alike(Loop(Longer(r, b), FALSE), Loop(Longer(q, b), FALSE))
    BY <2>2, <2>3, TurnLonger
  <2>5. EndsAs(r, b, z)
    BY <2>2, <2>4, AlikeTransitive DEF EndsAs
  <2> QED BY <2>1, <2>5
<1>5. N \in P
  <2>1. \A n \in 0 .. N : n \in P
    <3> HIDE DEF P
    <3> QED BY <1>1, <1>3, <1>4, UpTo
  <2>2. N \in 0 .. N
    BY <1>1
  <2> QED BY <2>1, <2>2
<1>6. EndsAs(F[N], b, z)
  BY <1>5
<1> QED
  BY <1>2, <1>6 DEF EndsAs

(* push_raw and finish are the loop. *)
LEMMA PushIs ==
  ASSUME NEW p \in Parsers, p.deltas = <<>>, NEW t \in Texts
  PROVE  push_raw(p, t) = Loop(Longer(p, t), FALSE) /\ finish(p) = Loop(p, TRUE)
<1> PICK u, none : u = p.pending \o t /\ none = p.deltas OBVIOUS
<1>1. u \in Texts /\ none = <<>>
  BY ParserFields, ConcatText
<1>2. push_raw(p, t) = Loop([p EXCEPT !.pending = u, !.deltas = none], FALSE)
  BY <1>1 DEF push_raw
<1>3. finish(p) = Loop([p EXCEPT !.deltas = none], TRUE)
  BY <1>1 DEF finish
<1>4. [p EXCEPT !.pending = u, !.deltas = none] = [p EXCEPT !.pending = u]
  BY <1>1 DEF Parsers
<1>5. [p EXCEPT !.deltas = none] = p
  BY DEF Parsers
<1> QED
  BY <1>2, <1>3, <1>4, <1>5 DEF Longer

(* A parser without any text waits. *)
LEMMA NewWaits ==
  ASSUME NEW th \in BOOLEAN, NEW to \in BOOLEAN
  PROVE  Loop(NewParser(th, to), FALSE) = NewParser(th, to)
<1> PICK p : p = NewParser(th, to) OBVIOUS
<1> PICK t : t = p.pending OBVIOUS
<1>1. p \in Parsers
  BY NewParserSettled
<1>2. /\ t = <<>> /\ p.trim_answer_newlines = 0 /\ p.initial_reasoning = th
      /\ p.mode = IF th THEN "Reasoning" ELSE "Text"
  BY DEF NewParser
<1>3. t \in Texts /\ Len(t) = 0
  BY <1>2 DEF Texts
<1>4. ASSUME NEW marker \in Texts, Len(marker) > 0
      PROVE  ~IsPrefix(marker, t) /\ IsPrefix(t, marker) /\ Emitted(marker, t) = 0
  <2>1. Len(marker) \in Nat
    BY DEF Texts
  <2>2. ~IsPrefix(marker, t) /\ IsPrefix(t, marker)
    BY <1>3, <1>4, <2>1, PrefixText
  <2> QED BY <1>3, <1>4, <2>2, EmittedNothing
<1>5. Turn(p, FALSE) = p
  <2>1. CASE th
    <3>1. OPEN_THINK \in Texts /\ Len(OPEN_THINK) > 0
      BY Markers
    <3>2. ~IsPrefix(OPEN_THINK, t) /\ IsPrefix(t, OPEN_THINK)
      BY <1>4, <3>1
    <3>3. Turn(p, FALSE) = Reasoning(p, FALSE)
      BY <1>2, <2>1 DEF Turn
    <3> QED BY <1>2, <2>1, <3>2, <3>3 DEF Reasoning
  <2>2. CASE ~th
    <3> PICK kd, m : kd = "Text" /\ m = OPEN_TOOL OBVIOUS
    <3>1. kd \in Kinds /\ m \in Texts /\ Len(m) > 0
      BY Markers DEF Kinds
    <3>2. ~IsPrefix(m, t) /\ Emitted(m, p.pending) = 0
      BY <1>4, <3>1
    <3>3. EmitBefore(p, kd, m, FALSE) = p
      BY <1>1, <3>1, <3>2, EmptyIsThere
    <3>4. Emit(p, kd, Len(p.pending)) = p
      BY <1>3 DEF Emit
    <3>5. TextIsPlain(p, Turn(p, FALSE))
      BY <1>1, <1>2, <2>2, PlainText
    <3> QED BY <3>2, <3>3, <3>4, <3>5 DEF TextIsPlain
  <2> QED BY <2>1, <2>2
<1>6. Loop(p, FALSE) = p
  <2> DEFINE F == [n \in 0 .. 0 |-> p]
  <2>1. F \in [0 .. 0 -> Parsers] /\ F[0] = p
    BY <1>1
  <2> HIDE DEF F
  <2>2. Turns(F, p, FALSE, 0) /\ Over(F[0], FALSE)
    <3>1. 1 .. 0 = {}
      OBVIOUS
    <3>2. Turns(F, p, FALSE, 0)
      BY <2>1, <3>1 DEF Turns
    <3> QED BY <1>5, <2>1, <3>2 DEF Over
  <2> QED BY <1>1, <2>1, <2>2, LoopIs
<1> QED
  BY <1>6

(* A parser that is ahead stays it with the same text behind both. *)
LEMMA AheadLonger ==
  ASSUME NEW p \in Parsers, NEW q \in Parsers, NEW said \in Saids, Ahead(p, q, said),
         NEW b \in Texts
  PROVE  Ahead(Longer(p, b), Longer(q, b), said)
<1> PICK x, y : x = Longer(p, b) /\ y = Longer(q, b) OBVIOUS
<1>1. /\ x.mode = p.mode /\ x.tools = p.tools /\ x.deltas = p.deltas
      /\ x.initial_reasoning = p.initial_reasoning
      /\ x.trim_answer_newlines = p.trim_answer_newlines
      /\ x.pending = p.pending \o b
  BY LongerTyped
<1>2. /\ y.mode = q.mode /\ y.tools = q.tools /\ y.deltas = q.deltas
      /\ y.initial_reasoning = q.initial_reasoning
      /\ y.trim_answer_newlines = q.trim_answer_newlines
      /\ y.pending = q.pending \o b
  BY LongerTyped
<1>3. Ahead(x, y, said)
  BY <1>1, <1>2 DEF Ahead
<1> QED
  BY <1>3

(* A parser that takes the text in pieces keeps up with one that takes it   *)
(* at once.                                                                 *)
LEMMA PieceKeepsUp ==
  ASSUME NEW p \in Parsers, p.pending = <<>>, NEW t \in Texts, NEW b \in Texts,
         NEW o \in Parsers, NEW said \in Saids,
         Ahead(Loop(Longer(p, t), FALSE), o, said)
  PROVE  Ahead(Loop(Longer(p, t \o b), FALSE), Loop(Longer(o, b), FALSE), said)
<1> PICK l, k : l = Longer(p, t) /\ k = Longer(p, t \o b) OBVIOUS
<1> PICK m : m = Loop(l, FALSE) OBVIOUS
<1>0. t \o b \in Texts
  BY ConcatText
<1>1. l \in Parsers /\ k \in Parsers
  BY <1>0, LongerTyped
<1>2. m \in Parsers
  BY <1>1, LoopSettles
<1>3. Longer(l, b) = k
  <2> PICK u : u = t \o b OBVIOUS
  <2>1. l.pending = t /\ k.pending = u
    <3>1. l.pending = <<>> \o t /\ k.pending = <<>> \o u
      <4>1. l.pending = p.pending \o t
        BY LongerTyped
      <4>2. k = Longer(p, u) /\ u \in Texts
        BY <1>0
      <4>3. k.pending = p.pending \o u
        <5> PICK j : j = Longer(p, u) OBVIOUS
        <5>1. j.pending = p.pending \o u
          BY <4>2, LongerTyped
        <5> QED BY <4>2, <5>1
      <4> QED BY <4>1, <4>3
    <3>2. <<>> \o t = t /\ <<>> \o u = u
      BY <1>0, ConcatEmptySeq DEF Texts
    <3> QED BY <3>1, <3>2
  <2>2. /\ l.mode = p.mode /\ l.tools = p.tools /\ l.deltas = p.deltas
        /\ l.initial_reasoning = p.initial_reasoning
        /\ l.trim_answer_newlines = p.trim_answer_newlines
    BY LongerTyped
  <2>3. /\ k.mode = p.mode /\ k.tools = p.tools /\ k.deltas = p.deltas
        /\ k.initial_reasoning = p.initial_reasoning
        /\ k.trim_answer_newlines = p.trim_answer_newlines
    BY <1>0, LongerTyped
  <2> PICK j : j = Longer(l, b) OBVIOUS
  <2>4. /\ j \in Parsers /\ j.mode = l.mode /\ j.tools = l.tools /\ j.deltas = l.deltas
        /\ j.initial_reasoning = l.initial_reasoning
        /\ j.trim_answer_newlines = l.trim_answer_newlines
        /\ j.pending = l.pending \o b
    BY Zenon, <1>1, LongerTyped
  <2>5. /\ j.mode = k.mode /\ j.tools = k.tools /\ j.deltas = k.deltas
        /\ j.initial_reasoning = k.initial_reasoning
        /\ j.trim_answer_newlines = k.trim_answer_newlines
        /\ j.pending = k.pending
    BY <2>1, <2>2, <2>3, <2>4
  <2>6. j = k
    BY <1>1, <2>4, <2>5, SameParser
  <2> QED BY <2>6
<1> PICK x, y : x = Longer(m, b) /\ y = Longer(o, b) OBVIOUS
<1>4. x \in Parsers /\ y \in Parsers
  BY <1>2, LongerTyped
<1>5. Ahead(x, y, said)
  BY <1>2, AheadLonger
<1>6. Ahead(Loop(x, FALSE), Loop(y, FALSE), said)
  BY <1>4, <1>5, LoopAhead
<1>7. Alike(Loop(x, FALSE), Loop(k, FALSE))
  BY <1>1, <1>3, LoopLonger
<1>8. Ahead(Loop(k, FALSE), Loop(y, FALSE), said)
  BY <1>6, <1>7 DEF Alike, Ahead
<1> QED
  BY <1>8

-----------------------------------------------------------------------------
(* Streams.                                                                *)

Names == {"message_start", "content_block_start", "content_block_delta", "signature",
          "content_block_stop", "message_delta", "message_stop", "role", "reasoning",
          "content", "tool_calls", "finish", "usage", "done", "error"}

BlockKinds == {"none", "Reasoning", "Text", "tool_use"}

Blocks == [index : Int, kind : BlockKinds]

Events == [name : Names, block : Blocks]

Chained(s) == \A i \in 1 .. Len(s) - 1 : s[i + 1] \in Follows(s[i])

Opening(p) == Event(IF p = "openai" THEN "role" ELSE "message_start")

(* A stream that is under way, without an error so far. *)
Going(p, s) ==
  /\ s \in Seq(Events) /\ Len(s) > 0
  /\ s[1] = Opening(p)
  /\ Chained(s)
  /\ \A i \in 1 .. Len(s) : s[i] # Event("error")

(* The last event is the one the open block and the next index tell of. *)
Rests(p, f) ==
  IF p = "openai"
  THEN /\ f.block = NoBlock /\ f.next = 0
       /\ Last(f.sent) \in {Event("role"), Event("reasoning"), Event("content")}
  ELSE IF f.block = NoBlock
  THEN \/ f.next = 0 /\ Last(f.sent) = Event("message_start")
       \/ \E k \in Kinds : Last(f.sent) =
            BlockEvent("content_block_stop", [index |-> f.next - 1, kind |-> k])
  ELSE /\ \E k \in Kinds : f.block = [index |-> f.next - 1, kind |-> k]
       /\ Last(f.sent) = BlockEvent("content_block_delta", f.block)

Framings == [sent : Seq(Events), block : Blocks, next : Nat]

Sound(p, f) == f \in Framings /\ Going(p, f.sent) /\ Rests(p, f)

LEMMA EventTyped ==
  ASSUME NEW n \in Names
  PROVE  Event(n) \in Events /\ Event(n).name = n /\ Event(n).block = NoBlock
BY DEF Event, Events, NoBlock, Blocks, BlockKinds

LEMMA BlockEventTyped ==
  ASSUME NEW n \in Names, NEW b \in Blocks
  PROVE  BlockEvent(n, b) \in Events /\ BlockEvent(n, b).name = n /\ BlockEvent(n, b).block = b
BY DEF BlockEvent, Events

(* What may follow the events a stream is made of. *)
LEMMA AfterStart ==
  ASSUME NEW k \in {"Reasoning", "Text", "tool_use"}
  PROVE  /\ BlockEvent("content_block_start", [index |-> 0, kind |-> k])
              \in Follows(Event("message_start"))
         /\ Event("message_delta") \in Follows(Event("message_start"))
         /\ Event("error") \in Follows(Event("message_start"))
BY DEF Follows, Event

LEMMA AfterBlockStart ==
  ASSUME NEW b \in Blocks
  PROVE  BlockEvent("content_block_delta", b) \in Follows(BlockEvent("content_block_start", b))
BY DEF Follows, BlockEvent

LEMMA AfterBlockDelta ==
  ASSUME NEW b \in Blocks
  PROVE  IF b.kind = "Reasoning"
         THEN BlockEvent("signature", b) \in Follows(BlockEvent("content_block_delta", b))
         ELSE BlockEvent("content_block_stop", b) \in Follows(BlockEvent("content_block_delta", b))
BY DEF Follows, BlockEvent

LEMMA AfterSignature ==
  ASSUME NEW b \in Blocks
  PROVE  BlockEvent("content_block_stop", b) \in Follows(BlockEvent("signature", b))
BY DEF Follows, BlockEvent

LEMMA AfterBlockStop ==
  ASSUME NEW b \in Blocks, NEW k \in {"Reasoning", "Text", "tool_use"}
  PROVE  /\ BlockEvent("content_block_start", [index |-> b.index + 1, kind |-> k])
              \in Follows(BlockEvent("content_block_stop", b))
         /\ Event("message_delta") \in Follows(BlockEvent("content_block_stop", b))
         /\ Event("error") \in Follows(BlockEvent("content_block_stop", b))
BY DEF Follows, BlockEvent

LEMMA AfterMessageDelta ==
  Event("message_stop") \in Follows(Event("message_delta"))
BY DEF Follows, Event

LEMMA AfterChunk ==
  ASSUME NEW n \in {"role", "reasoning", "content"}
  PROVE  /\ Event("reasoning") \in Follows(Event(n)) /\ Event("content") \in Follows(Event(n))
         /\ BlockEvent("tool_calls", [index |-> 0, kind |-> "tool_use"]) \in Follows(Event(n))
         /\ Event("finish") \in Follows(Event(n)) /\ Event("error") \in Follows(Event(n))
BY DEF Follows, Event

LEMMA AfterToolCalls ==
  ASSUME NEW b \in Blocks
  PROVE  /\ BlockEvent("tool_calls", [index |-> b.index + 1, kind |-> "tool_use"])
              \in Follows(BlockEvent("tool_calls", b))
         /\ Event("finish") \in Follows(BlockEvent("tool_calls", b))
BY DEF Follows, BlockEvent

LEMMA AfterFinish ==
  /\ Event("usage") \in Follows(Event("finish")) /\ Event("done") \in Follows(Event("finish"))
  /\ Event("done") \in Follows(Event("usage")) /\ Event("done") \in Follows(Event("error"))
BY DEF Follows, Event

(* The last event. *)
LEMMA LastOf ==
  ASSUME NEW S, NEW s \in Seq(S), Len(s) > 0
  PROVE  Last(s) = s[Len(s)] /\ Last(s) \in S /\ s # <<>>
<1>1. Len(s) \in Nat /\ Len(s) \in 1 .. Len(s)
  OBVIOUS
<1> QED
  BY <1>1, ElementOfSeq DEF Last

(* Two streams one behind the other. *)
LEMMA ChainedBehind ==
  ASSUME NEW s \in Seq(Events), NEW t \in Seq(Events), Chained(s), Chained(t),
         Len(s) > 0, Len(t) > 0, t[1] \in Follows(Last(s))
  PROVE  /\ s \o t \in Seq(Events) /\ Len(s \o t) = Len(s) + Len(t) /\ Len(s \o t) > 0
         /\ Chained(s \o t) /\ (s \o t)[1] = s[1]
         /\ Last(s \o t) = Last(t)
         /\ \A i \in 1 .. Len(s) : (s \o t)[i] = s[i]
         /\ \A i \in 1 .. Len(t) : (s \o t)[Len(s) + i] = t[i]
<1> DEFINE u == s \o t
<1>1. Len(s) \in Nat /\ Len(t) \in Nat
  OBVIOUS
<1>2. /\ u \in Seq(Events) /\ Len(u) = Len(s) + Len(t)
      /\ \A i \in 1 .. Len(s) + Len(t) : u[i] = IF i <= Len(s) THEN s[i] ELSE t[i - Len(s)]
  BY ConcatProperties
<1> HIDE DEF u
<1>3. \A i \in 1 .. Len(s) : u[i] = s[i]
  BY <1>1, <1>2
<1>4. ASSUME NEW i \in 1 .. Len(t) PROVE u[Len(s) + i] = t[i]
  <2>1. Len(s) + i \in 1 .. Len(s) + Len(t) /\ ~(Len(s) + i <= Len(s)) /\ (Len(s) + i) - Len(s) = i
    BY <1>1
  <2> QED BY <1>2, <2>1
<1>5. Last(s) = s[Len(s)] /\ Last(t) = t[Len(t)] /\ Last(u) = u[Len(u)]
  BY <1>1, <1>2, LastOf
<1>6. Chained(u)
  <2> SUFFICES ASSUME NEW i \in 1 .. Len(u) - 1 PROVE u[i + 1] \in Follows(u[i])
    BY DEF Chained
  <2>1. i \in 1 .. Len(s) + Len(t) - 1
    BY <1>2
  <2>2. CASE i < Len(s)
    <3>1. i \in 1 .. Len(s) - 1 /\ i \in 1 .. Len(s) /\ i + 1 \in 1 .. Len(s)
      BY <1>1, <2>2
    <3> QED BY <1>3, <3>1 DEF Chained
  <2>3. CASE i = Len(s)
    <3>1. i \in 1 .. Len(s) /\ 1 \in 1 .. Len(t) /\ i + 1 = Len(s) + 1
      BY <1>1, <2>3
    <3>2. u[i] = Last(s) /\ u[i + 1] = t[1]
      BY <1>3, <1>4, <1>5, <2>3, <3>1
    <3> QED BY <3>2
  <2>4. CASE i > Len(s)
    <3> PICK j : j = i - Len(s) OBVIOUS
    <3>1. j \in 1 .. Len(t) - 1 /\ j \in 1 .. Len(t) /\ j + 1 \in 1 .. Len(t)
          /\ i = Len(s) + j /\ i + 1 = Len(s) + (j + 1)
      BY <1>1, <2>1, <2>4
    <3>2. u[i] = t[j] /\ u[i + 1] = t[j + 1]
      BY <1>4, <3>1
    <3> QED BY <3>1, <3>2 DEF Chained
  <2> QED BY <1>1, <2>2, <2>3, <2>4
<1>7. u[1] = s[1]
  <2>1. 1 \in 1 .. Len(s) BY <1>1
  <2> QED BY <1>3, <2>1
<1>8. Last(u) = Last(t)
  <2>1. Len(t) \in 1 .. Len(t) BY <1>1
  <2> QED BY <1>2, <1>4, <1>5, <2>1
<1> QED
  BY <1>1, <1>2, <1>3, <1>4, <1>6, <1>7, <1>8 DEF u

(* An event that may follow is sent, or repeated. *)
LEMMA SendKeeps ==
  ASSUME NEW p, NEW s, Going(p, s), NEW e \in Events, e # Event("error"),
         e = Last(s) \/ e \in Follows(Last(s))
  PROVE  Going(p, Send(s, e)) /\ Last(Send(s, e)) = e
<1>1. s \in Seq(Events) /\ Len(s) > 0 /\ s # <<>> /\ Last(s) = s[Len(s)] /\ Len(s) \in Nat
  BY LastOf DEF Going
<1>2. CASE Last(s) = e
  BY <1>1, <1>2 DEF Send
<1>3. CASE Last(s) # e
  <2> DEFINE t == <<e>>
             u == s \o t
  <2>1. Send(s, e) = u
    BY <1>1, <1>3, AppendIsConcat DEF Send
  <2>2. t \in Seq(Events) /\ Len(t) = 1 /\ t[1] = e
    OBVIOUS
  <2> HIDE DEF t
  <2>3. Chained(t)
    BY <2>2 DEF Chained
  <2>4. t[1] \in Follows(Last(s)) /\ Chained(s) /\ Len(t) > 0
    BY <1>3, <2>2 DEF Going
  <2>5. /\ u \in Seq(Events) /\ Len(u) = Len(s) + Len(t) /\ Len(u) > 0
        /\ Chained(u) /\ u[1] = s[1]
        /\ Last(u) = Last(t)
        /\ \A i \in 1 .. Len(s) : u[i] = s[i]
        /\ \A i \in 1 .. Len(t) : u[Len(s) + i] = t[i]
    BY <1>1, <2>2, <2>3, <2>4, ChainedBehind
  <2> HIDE DEF u
  <2>6. Last(t) = e
    <3>1. Last(t) = t[Len(t)]
      BY <2>2, <2>4, LastOf
    <3> QED BY <2>2, <3>1
  <2>7. ASSUME NEW i \in 1 .. Len(u) PROVE u[i] # Event("error")
    <3>1. CASE i \in 1 .. Len(s)
      BY <2>5, <3>1 DEF Going
    <3>2. CASE i = Len(s) + 1
      BY <2>2, <2>5, <3>2
    <3> QED BY <1>1, <2>2, <2>5, <3>1, <3>2
  <2>8. u[1] = Opening(p)
    BY <2>5 DEF Going
  <2> QED BY <2>1, <2>5, <2>6, <2>7, <2>8 DEF Going
<1> QED
  BY <1>2, <1>3

LEMMA BlockNames ==
  ASSUME NEW b \in Blocks, b.kind # "none"
  PROVE  b # NoBlock
BY DEF NoBlock

LEMMA NoError ==
  ASSUME NEW n \in Names, n # "error", NEW b \in Blocks
  PROVE  BlockEvent(n, b) # Event("error") /\ Event(n) # Event("error")
BY DEF BlockEvent, Event

LEMMA FramingFields ==
  ASSUME NEW f \in Framings
  PROVE  f.sent \in Seq(Events) /\ f.block \in Blocks /\ f.next \in Nat
BY DEF Framings

(* An open block is the last one that was numbered. *)
LEMMA OpenBlockOf ==
  ASSUME NEW f, Sound("anthropic", f), f.block # NoBlock
  PROVE  /\ f.block \in Blocks /\ f.block.kind \in Kinds /\ f.block.index = f.next - 1
         /\ Last(f.sent) = BlockEvent("content_block_delta", f.block)
<1>1. /\ \E k \in Kinds : f.block = [index |-> f.next - 1, kind |-> k]
      /\ Last(f.sent) = BlockEvent("content_block_delta", f.block)
  BY DEF Sound, Rests
<1> QED
  BY <1>1, FramingFields DEF Sound

(* finish_anthropic_block: the open block is signed, if it is one of reasoning,
   and closed. *)
LEMMA FinishBlockKeeps ==
  ASSUME NEW p, NEW f, Sound(p, f)
  PROVE  /\ Sound(p, finish_anthropic_block(f))
         /\ finish_anthropic_block(f).block = NoBlock
         /\ finish_anthropic_block(f).next = f.next
<1> DEFINE g == finish_anthropic_block(f)
           b == f.block
           signed == IF b.kind = "Reasoning" THEN Send(f.sent, BlockEvent("signature", b)) ELSE f.sent
           stop == BlockEvent("content_block_stop", b)
           stopped == Send(signed, stop)
<1>1. CASE f.block = NoBlock
  BY <1>1 DEF finish_anthropic_block
<1>2. CASE f.block # NoBlock
  <2>1. p # "openai" /\ Sound("anthropic", f)
    BY <1>2 DEF Sound, Rests, Going, Opening
  <2>2. /\ b \in Blocks /\ b.kind \in Kinds /\ b.index = f.next - 1
        /\ Last(f.sent) = BlockEvent("content_block_delta", b)
    BY <1>2, <2>1, OpenBlockOf
  <2>3. g = [f EXCEPT !.sent = stopped, !.block = NoBlock]
    BY <1>2 DEF finish_anthropic_block
  <2>4. f \in Framings /\ Going(p, f.sent)
    BY DEF Sound
  <2> HIDE DEF b
  <2>5. /\ BlockEvent("signature", b) \in Events /\ BlockEvent("signature", b) # Event("error")
        /\ stop \in Events /\ stop # Event("error")
    BY <2>2, BlockEventTyped, NoError DEF Names
  <2>6. Going(p, signed) /\ stop \in Follows(Last(signed))
    <3>1. CASE b.kind = "Reasoning"
      <4>1. signed = Send(f.sent, BlockEvent("signature", b))
        BY <3>1
      <4>2. BlockEvent("signature", b) \in Follows(Last(f.sent))
        BY <2>2, <3>1, AfterBlockDelta
      <4>3. Going(p, signed) /\ Last(signed) = BlockEvent("signature", b)
        BY <2>4, <2>5, <4>1, <4>2, SendKeeps
      <4>4. stop \in Follows(BlockEvent("signature", b))
        BY <2>2, AfterSignature
      <4> QED BY <4>3, <4>4
    <3>2. CASE b.kind # "Reasoning"
      <4>1. signed = f.sent
        BY <3>2
      <4>2. stop \in Follows(Last(f.sent))
        BY <2>2, <3>2, AfterBlockDelta
      <4> QED BY <2>4, <4>1, <4>2
    <3> QED BY <3>1, <3>2
  <2> HIDE DEF signed, stop
  <2>7. Going(p, stopped) /\ Last(stopped) = stop
    BY <2>5, <2>6, SendKeeps
  <2> HIDE DEF stopped
  <2>8. stopped \in Seq(Events) /\ NoBlock \in Blocks
    BY <2>7 DEF Going, NoBlock, Blocks, BlockKinds
  <2> HIDE DEF g
  <2>9. g \in Framings /\ g.sent = stopped /\ g.block = NoBlock /\ g.next = f.next
    BY <2>3, <2>4, <2>8 DEF Framings
  <2>10. b = [index |-> f.next - 1, kind |-> b.kind]
    BY <2>2 DEF Blocks
  <2>11. Rests(p, g)
    BY <2>1, <2>2, <2>7, <2>9, <2>10 DEF Rests, stop
  <2> QED BY <2>7, <2>9, <2>11 DEF Sound, g
<1> QED
  BY <1>1, <1>2

(* append_anthropic_delta: in the open block, or in a new one behind it. *)
LEMMA DeltaKeeps ==
  ASSUME NEW f, Sound("anthropic", f), NEW delta \in DeltaSet
  PROVE  Sound("anthropic", append_anthropic_delta(f, delta))
<1> DEFINE p == "anthropic"
           kind == delta.kind
           g == OpenBlock(f, kind)
           b == g.block
           e == BlockEvent("content_block_delta", b)
           h == append_anthropic_delta(f, delta)
           more == Send(g.sent, e)
<1>0. kind \in Kinds
  BY DEF DeltaSet
<1> HIDE DEF kind
<1>1. /\ g \in Framings /\ Going(p, g.sent)
      /\ b \in Blocks /\ b = [index |-> g.next - 1, kind |-> kind] /\ b # NoBlock
      /\ e = Last(g.sent) \/ e \in Follows(Last(g.sent))
  <2>1. CASE f.block.kind = kind
    <3>1. g = f
      BY <2>1 DEF OpenBlock
    <3> HIDE DEF g
    <3>2. f.block # NoBlock
      BY <1>0, <2>1 DEF NoBlock, Kinds
    <3>3. /\ f.block \in Blocks /\ f.block.kind \in Kinds /\ f.block.index = f.next - 1
          /\ Last(f.sent) = BlockEvent("content_block_delta", f.block)
      BY <3>2, OpenBlockOf
    <3>4. f.block = [index |-> f.next - 1, kind |-> kind]
      BY <2>1, <3>3 DEF Blocks
    <3> QED BY <2>1, <3>1, <3>2, <3>3, <3>4 DEF Sound
  <2>2. CASE f.block.kind # kind
    <3> DEFINE closed == finish_anthropic_block(f)
               block == [index |-> f.next, kind |-> kind]
               start == BlockEvent("content_block_start", block)
               begun == Send(closed.sent, start)
               next == f.next + 1
    <3>1. Sound(p, closed) /\ closed.block = NoBlock /\ closed.next = f.next
      BY FinishBlockKeeps
    <3>2. g = [sent |-> begun, block |-> block, next |-> next]
      BY <2>2 DEF OpenBlock
    <3> HIDE DEF closed, g
    <3>3. f.next \in Nat /\ block \in Blocks /\ block # NoBlock /\ kind \in {"Reasoning", "Text", "tool_use"}
      BY <1>0, FramingFields DEF Sound, Blocks, BlockKinds, Kinds, NoBlock
    <3>4. start \in Events /\ start # Event("error")
      BY <3>3, BlockEventTyped, NoError DEF Names
    <3>5. start \in Follows(Last(closed.sent))
      <4>1. CASE f.next = 0 /\ Last(closed.sent) = Event("message_start")
        BY <3>3, <4>1, AfterStart
      <4>2. CASE \E k \in Kinds : Last(closed.sent) =
                   BlockEvent("content_block_stop", [index |-> f.next - 1, kind |-> k])
        <5> PICK k \in Kinds : Last(closed.sent) =
                   BlockEvent("content_block_stop", [index |-> f.next - 1, kind |-> k])
          BY <4>2
        <5> DEFINE c == [index |-> f.next - 1, kind |-> k]
        <5>1. c \in Blocks /\ c.index + 1 = f.next
          BY <3>3 DEF Blocks, BlockKinds, Kinds
        <5> HIDE DEF c
        <5>2. BlockEvent("content_block_start", [index |-> c.index + 1, kind |-> kind])
                \in Follows(BlockEvent("content_block_stop", c))
          BY <3>3, <5>1, AfterBlockStop
        <5> QED BY <5>1, <5>2 DEF c
      <4> QED BY <3>1, <4>1, <4>2 DEF Sound, Rests
    <3>6. Going(p, begun) /\ Last(begun) = start
      <4>1. Going(p, closed.sent) BY <3>1 DEF Sound
      <4> HIDE DEF start
      <4> QED BY <3>4, <3>5, <4>1, SendKeeps
    <3> HIDE DEF begun
    <3>7. begun \in Seq(Events)
      BY <3>6 DEF Going
    <3>8. next \in Nat /\ next - 1 = f.next
      BY <3>3
    <3> HIDE DEF next, block
    <3>9. g \in Framings /\ g.sent = begun /\ g.block = block /\ g.next = next
      BY <3>2, <3>3, <3>7, <3>8 DEF Framings
    <3>10. e \in Follows(Last(g.sent))
      BY <3>3, <3>6, <3>9, AfterBlockStart
    <3> QED BY <3>3, <3>6, <3>8, <3>9, <3>10 DEF block
  <2> QED BY <2>1, <2>2
<1>2. h = [g EXCEPT !.sent = more]
  BY DEF append_anthropic_delta, kind
<1> HIDE DEF g
<1>3. e \in Events /\ e # Event("error")
  BY <1>1, BlockEventTyped, NoError DEF Names
<1>4. Going(p, more) /\ Last(more) = e
  <2> HIDE DEF e
  <2> QED BY <1>1, <1>3, SendKeeps
<1> HIDE DEF more
<1>5. more \in Seq(Events)
  BY <1>4 DEF Going
<1> HIDE DEF h
<1>6. h \in Framings /\ h.sent = more /\ h.block = b /\ h.next = g.next
  BY <1>1, <1>2, <1>5 DEF Framings
<1>7. Rests(p, h)
  BY <1>0, <1>1, <1>4, <1>6 DEF Rests
<1> QED
  BY <1>4, <1>6, <1>7 DEF Sound, h

(* openai_delta_chunk *)
LEMMA ChunkKeeps ==
  ASSUME NEW f, Sound("openai", f), NEW delta
  PROVE  Sound("openai", openai_delta_chunk(f, delta))
<1> DEFINE p == "openai"
           n == IF delta.kind = "Text" THEN "content" ELSE "reasoning"
           e == Event(n)
           more == Send(f.sent, e)
           h == openai_delta_chunk(f, delta)
<1>1. n \in {"content", "reasoning"}
  OBVIOUS
<1>2. h = [f EXCEPT !.sent = more]
  BY DEF openai_delta_chunk
<1> HIDE DEF n, h
<1>3. /\ f \in Framings /\ Going(p, f.sent) /\ f.block = NoBlock /\ f.next = 0
      /\ Last(f.sent) \in {Event("role"), Event("reasoning"), Event("content")}
  BY DEF Sound, Rests
<1>4. e \in Events /\ e # Event("error")
  <2>1. n \in Names /\ n # "error" /\ NoBlock \in Blocks
    BY <1>1 DEF Names, NoBlock, Blocks, BlockKinds
  <2> QED BY <2>1, EventTyped, NoError
<1>5. e \in Follows(Last(f.sent))
  <2>1. PICK m \in {"role", "reasoning", "content"} : Last(f.sent) = Event(m)
    BY <1>3
  <2>2. Event("reasoning") \in Follows(Event(m)) /\ Event("content") \in Follows(Event(m))
    BY AfterChunk
  <2> QED BY <1>1, <2>1, <2>2
<1>6. Going(p, more) /\ Last(more) = e
  <2> HIDE DEF e
  <2> QED BY <1>3, <1>4, <1>5, SendKeeps
<1> HIDE DEF more
<1>7. more \in Seq(Events)
  BY <1>6 DEF Going
<1>8. h \in Framings /\ h.sent = more /\ h.block = NoBlock /\ h.next = 0
  BY <1>2, <1>3, <1>7 DEF Framings
<1>9. Rests(p, h)
  <2>1. e \in {Event("role"), Event("reasoning"), Event("content")}
    BY <1>1
  <2> QED BY <1>6, <1>8, <2>1 DEF Rests
<1> QED
  BY <1>6, <1>8, <1>9 DEF Sound, h

(* All the deltas of a call. *)
LEMMA DeltasKeep ==
  ASSUME protocol \in {"openai", "anthropic"}, NEW f, Sound(protocol, f),
         NEW deltas \in Seq(DeltaSet)
  PROVE  Sound(protocol, Deltas(f, deltas))
<1> DEFINE N == Len(deltas)
           S == {g \in Framings : Sound(protocol, g)}
           Step(g, n) == IF protocol = "openai" THEN openai_delta_chunk(g, deltas[n])
                         ELSE append_anthropic_delta(g, deltas[n])
           step == [n \in 1 .. N |-> [g \in S |-> Step(g, n)]]
           IsFramed(h) == h = [n \in 0 .. N |->
                                 IF n = 0 THEN f
                                 ELSE IF protocol = "openai"
                                 THEN openai_delta_chunk(h[n - 1], deltas[n])
                                 ELSE append_anthropic_delta(h[n - 1], deltas[n])]
           framed == CHOOSE h : IsFramed(h)
<1>1. N \in Nat /\ f \in S
  BY DEF Sound
<1>2. ASSUME NEW n \in 1 .. N, NEW g \in S PROVE Step(g, n) \in S
  <2>1. deltas[n] \in DeltaSet /\ Sound(protocol, g)
    BY ElementOfSeq
  <2>2. Sound(protocol, Step(g, n))
    <3>1. CASE protocol = "openai"
      <4>1. Sound("openai", openai_delta_chunk(g, deltas[n]))
        BY <2>1, <3>1, ChunkKeeps
      <4> QED BY <3>1, <4>1
    <3>2. CASE protocol = "anthropic"
      <4>1. Sound("anthropic", append_anthropic_delta(g, deltas[n]))
        BY <2>1, <3>2, DeltaKeeps
      <4> QED BY <3>2, <4>1
    <3> QED BY <3>1, <3>2
  <2> HIDE DEF Step
  <2> QED BY <2>2 DEF Sound
<1>3. step \in [1 .. N -> [S -> S]]
  <2> HIDE DEF Step, S, N
  <2> QED BY <1>2
<1>4. PICK h \in [0 .. N -> S] : Iterates(h, f, step, N)
  <2> HIDE DEF N, step, S
  <2> QED BY <1>1, <1>3, IterationExists
<1>5. IsFramed(h)
  <2>1. ASSUME NEW n \in 0 .. N PROVE h[n] = IF n = 0 THEN f ELSE Step(h[n - 1], n)
    <3>1. CASE n = 0
      BY <1>4, <3>1 DEF Iterates
    <3>2. CASE n # 0
      <4>1. n \in 1 .. N /\ n - 1 \in 0 .. N
        BY <1>1, <3>2
      <4> HIDE DEF S, Step
      <4>2. h[n] = step[n][h[n - 1]] /\ h[n - 1] \in S
        BY <1>4, <4>1 DEF Iterates
      <4> QED BY <4>1, <4>2, <3>2
    <3> HIDE DEF Step
    <3> QED BY <3>1, <3>2
  <2> HIDE DEF N, step, S
  <2> QED BY <2>1, <1>4
<1>6. IsFramed(framed)
  <2> HIDE DEF IsFramed
  <2> QED BY <1>5
<1>7. \A n \in 0 .. N : framed[n] = IF n = 0 THEN f ELSE Step(framed[n - 1], n)
  <2> HIDE DEF framed, N
  <2> QED BY <1>6
<1> DEFINE P == {n \in 0 .. N : framed[n] \in S}
<1> HIDE DEF framed, Step, S, N
<1>8. 0 \in P
  <2>1. 0 \in 0 .. N /\ framed[0] = f
    BY <1>1, <1>7
  <2> QED BY <1>1, <2>1
<1>9. ASSUME NEW n \in 1 .. N, n - 1 \in P PROVE n \in P
  <2>1. n \in 0 .. N /\ n # 0
    BY <1>1
  <2>2. framed[n] = Step(framed[n - 1], n)
    BY <1>7, <2>1
  <2> QED BY <1>2, <1>9, <2>1, <2>2
<1>10. \A n \in 0 .. N : n \in P
  <2> HIDE DEF P
  <2> QED BY <1>1, <1>8, <1>9, UpTo
<1>11. framed[N] \in S
  <2>1. N \in 0 .. N BY <1>1
  <2> QED BY <1>10, <2>1
<1>12. Deltas(f, deltas) = framed[N]
  BY DEF Deltas, framed, N
<1> QED
  BY <1>11, <1>12 DEF S

(* The framing of a stream that has not ended: sound once it has started.   *)
Ready ==
  IF started \/ protocol = "openai" THEN Sound(protocol, Framing)
  ELSE sent = <<>> /\ current_block = NoBlock /\ next_index = 0

(* ensure_anthropic_started *)
LEMMA StartKeeps ==
  ASSUME protocol \in {"openai", "anthropic"}, started \in BOOLEAN, Ready
  PROVE  Sound(protocol, ensure_anthropic_started(Framing))
<1>1. CASE started \/ protocol = "openai"
  BY <1>1 DEF ensure_anthropic_started, Ready
<1>2. CASE ~(started \/ protocol = "openai")
  <2> DEFINE e == Event("message_start")
             s == <<e>>
             f == ensure_anthropic_started(Framing)
  <2>1. e \in Events /\ e # Event("error") /\ NoBlock \in Blocks
    BY EventTyped DEF Names, Event, NoBlock, Blocks, BlockKinds
  <2>2. e = Opening(protocol) /\ protocol = "anthropic"
    BY <1>2 DEF Opening
  <2>3. f = [Framing EXCEPT !.sent = s]
    BY <1>2 DEF ensure_anthropic_started, Framing, Ready, Send
  <2>4. f = [sent |-> s, block |-> NoBlock, next |-> 0]
    BY <1>2, <2>3 DEF Framing, Ready
  <2> HIDE DEF e
  <2>5. s \in Seq(Events) /\ Len(s) = 1 /\ s[1] = e
    BY <2>1
  <2> HIDE DEF s, f
  <2>6. Last(s) = e
    <3>1. Len(s) > 0 BY <2>5
    <3>2. Last(s) = s[Len(s)] BY <2>5, <3>1, LastOf
    <3> QED BY <2>5, <3>2
  <2>7. f \in Framings /\ f.sent = s /\ f.block = NoBlock /\ f.next = 0
    BY <2>1, <2>4, <2>5 DEF Framings
  <2>8. Chained(s)
    BY <2>5 DEF Chained
  <2>9. Going(protocol, s)
    BY <2>1, <2>2, <2>5, <2>8 DEF Going
  <2>10. Rests(protocol, f)
    BY <2>2, <2>6, <2>7 DEF Rests, e
  <2> QED BY <2>7, <2>9, <2>10 DEF Sound, f
<1> QED
  BY <1>1, <1>2

-----------------------------------------------------------------------------
(* How a stream ends.                                                       *)

(* Between blocks, the stream may turn to its calls, its end or an error.   *)
LEMMA BetweenBlocks ==
  ASSUME NEW p \in {"openai", "anthropic"}, NEW f, Sound(p, f), f.block = NoBlock
  PROVE  IF p = "openai"
         THEN /\ f.next = 0
              /\ BlockEvent("tool_calls", [index |-> 0, kind |-> "tool_use"]) \in Follows(Last(f.sent))
              /\ Event("finish") \in Follows(Last(f.sent))
              /\ Event("error") \in Follows(Last(f.sent))
         ELSE /\ BlockEvent("content_block_start", [index |-> f.next, kind |-> "tool_use"])
                   \in Follows(Last(f.sent))
              /\ Event("message_delta") \in Follows(Last(f.sent))
              /\ Event("error") \in Follows(Last(f.sent))
<1>1. f.next \in Nat
  BY FramingFields DEF Sound
<1>2. CASE p = "openai"
  <2>1. PICK n \in {"role", "reasoning", "content"} : Last(f.sent) = Event(n)
    BY <1>2 DEF Sound, Rests
  <2>2. f.next = 0
    BY <1>2 DEF Sound, Rests
  <2> QED BY <1>2, <2>1, <2>2, AfterChunk
<1>3. CASE p = "anthropic" /\ f.next = 0 /\ Last(f.sent) = Event("message_start")
  BY <1>3, AfterStart
<1>4. CASE p = "anthropic" /\ \E k \in Kinds : Last(f.sent) =
             BlockEvent("content_block_stop", [index |-> f.next - 1, kind |-> k])
  <2> PICK k \in Kinds : Last(f.sent) =
             BlockEvent("content_block_stop", [index |-> f.next - 1, kind |-> k])
    BY <1>4
  <2> DEFINE c == [index |-> f.next - 1, kind |-> k]
  <2>1. c \in Blocks /\ c.index + 1 = f.next
    BY <1>1 DEF Blocks, BlockKinds, Kinds
  <2> HIDE DEF c
  <2>2. /\ BlockEvent("content_block_start", [index |-> c.index + 1, kind |-> "tool_use"])
             \in Follows(BlockEvent("content_block_stop", c))
        /\ Event("message_delta") \in Follows(BlockEvent("content_block_stop", c))
        /\ Event("error") \in Follows(BlockEvent("content_block_stop", c))
    BY <2>1, AfterBlockStop
  <2>3. Last(f.sent) = BlockEvent("content_block_stop", c)
    BY DEF c
  <2> QED BY <1>4, <2>1, <2>2, <2>3
<1> QED
  BY <1>2, <1>3, <1>4 DEF Sound, Rests

(* One event per call, or three; each of the blocks is complete.            *)
CallEvents(p, calls, first) ==
  LET names == IF p = "openai" THEN <<"tool_calls">>
               ELSE <<"content_block_start", "content_block_delta", "content_block_stop">>
      n     == Len(names)
  IN  [k \in 1 .. n * calls |->
         BlockEvent(names[((k - 1) % n) + 1],
                    [index |-> first + ((k - 1) \div n), kind |-> "tool_use"])]

(* For OpenAI there is one event per call, for Anthropic there are three. *)
LEMMA ChunkEvents ==
  ASSUME NEW calls \in Nat, NEW first \in Nat
  PROVE  CallEvents("openai", calls, first)
           = [k \in 1 .. calls |->
                BlockEvent("tool_calls", [index |-> first + (k - 1), kind |-> "tool_use"])]
<1> DEFINE names == <<"tool_calls">>
<1>1. Len(names) = 1 /\ names[1] = "tool_calls"
  OBVIOUS
<1>2. CallEvents("openai", calls, first)
        = [k \in 1 .. Len(names) * calls |->
             BlockEvent(names[((k - 1) % Len(names)) + 1],
                        [index |-> first + ((k - 1) \div Len(names)), kind |-> "tool_use"])]
  BY DEF CallEvents
<1> HIDE DEF names
<1>3. 1 .. Len(names) * calls = 1 .. calls
  BY <1>1
<1>4. \A k \in 1 .. calls : (k - 1) % Len(names) = 0 /\ (k - 1) \div Len(names) = k - 1
  BY <1>1
<1>5. \A k \in 1 .. calls : names[((k - 1) % Len(names)) + 1] = "tool_calls"
  BY <1>1, <1>4
<1> QED
  BY <1>2, <1>3, <1>4, <1>5

BlockName(k) == IF k % 3 = 0 THEN "content_block_start"
                ELSE IF k % 3 = 1 THEN "content_block_delta" ELSE "content_block_stop"

LEMMA BlockEvents ==
  ASSUME NEW calls \in Nat, NEW first \in Nat
  PROVE  CallEvents("anthropic", calls, first)
           = [k \in 1 .. 3 * calls |->
                BlockEvent(BlockName(k - 1),
                           [index |-> first + ((k - 1) \div 3), kind |-> "tool_use"])]
<1> DEFINE names == <<"content_block_start", "content_block_delta", "content_block_stop">>
<1>1. Len(names) = 3 /\ names[1] = "content_block_start" /\ names[2] = "content_block_delta"
      /\ names[3] = "content_block_stop"
  OBVIOUS
<1>2. CallEvents("anthropic", calls, first)
        = [k \in 1 .. Len(names) * calls |->
             BlockEvent(names[((k - 1) % Len(names)) + 1],
                        [index |-> first + ((k - 1) \div Len(names)), kind |-> "tool_use"])]
  BY DEF CallEvents
<1> HIDE DEF names
<1>3. 1 .. Len(names) * calls = 1 .. 3 * calls
  BY <1>1
<1>4. ASSUME NEW k \in 1 .. 3 * calls
      PROVE names[((k - 1) % 3) + 1] = BlockName(k - 1)
  <2>1. (k - 1) % 3 \in {0, 1, 2}
    OBVIOUS
  <2> QED BY <1>1, <2>1 DEF BlockName
<1>5. CallEvents("anthropic", calls, first)
        = [k \in 1 .. 3 * calls |->
             BlockEvent(names[((k - 1) % 3) + 1],
                        [index |-> first + ((k - 1) \div 3), kind |-> "tool_use"])]
  BY <1>1, <1>2, <1>3
<1> QED
  BY <1>4, <1>5

(* The calls are well framed among themselves. *)
LEMMA CallEventsChained ==
  ASSUME NEW p \in {"openai", "anthropic"}, NEW calls \in Nat, NEW first \in Nat,
         NEW t, t = CallEvents(p, calls, first)
  PROVE  /\ t \in Seq(Events) /\ Len(t) = IF p = "openai" THEN calls ELSE 3 * calls
         /\ Chained(t)
         /\ \A i \in 1 .. Len(t) : t[i] # Event("error")
         /\ Len(t) > 0 =>
              IF p = "openai"
              THEN /\ t[1] = BlockEvent("tool_calls", [index |-> first, kind |-> "tool_use"])
                   /\ Event("finish") \in Follows(Last(t))
              ELSE /\ t[1] = BlockEvent("content_block_start", [index |-> first, kind |-> "tool_use"])
                   /\ Event("message_delta") \in Follows(Last(t))
<1> DEFINE Block(i) == [index |-> i, kind |-> "tool_use"]
<1>1. ASSUME NEW i \in Int
      PROVE  Block(i) \in Blocks /\ Block(i).kind = "tool_use" /\ Block(i).index = i
  BY DEF Blocks, BlockKinds
<1>2. CASE p = "openai"
  <2>1. t = [k \in 1 .. calls |-> BlockEvent("tool_calls", Block(first + (k - 1)))]
    BY <1>2, ChunkEvents
  <2> HIDE DEF Block
  <2>2. ASSUME NEW k \in 1 .. calls
        PROVE  /\ t[k] = BlockEvent("tool_calls", Block(first + (k - 1)))
               /\ t[k] \in Events /\ t[k] # Event("error")
    <3>1. Block(first + (k - 1)) \in Blocks
      BY <1>1
    <3> QED BY <2>1, <3>1, BlockEventTyped, NoError DEF Names
  <2>3. t \in Seq(Events) /\ Len(t) = calls
    <3>1. t \in [1 .. calls -> Events] BY <2>1, <2>2
    <3> QED BY <3>1
  <2>4. ASSUME NEW k \in 1 .. Len(t) - 1 PROVE t[k + 1] \in Follows(t[k])
    <3>1. k \in 1 .. calls /\ k + 1 \in 1 .. calls
      BY <2>3
    <3>2. Block(first + (k - 1)) \in Blocks /\ Block(first + (k - 1)).index + 1 = first + ((k + 1) - 1)
      BY <1>1, <3>1
    <3> PICK c : c = Block(first + (k - 1)) OBVIOUS
    <3>3. BlockEvent("tool_calls", [index |-> c.index + 1, kind |-> "tool_use"])
            \in Follows(BlockEvent("tool_calls", c))
      BY <3>2, AfterToolCalls
    <3>4. [index |-> c.index + 1, kind |-> "tool_use"] = Block(first + ((k + 1) - 1))
      BY <3>2 DEF Block
    <3> QED BY <2>2, <3>1, <3>3, <3>4
  <2>5. ASSUME Len(t) > 0
        PROVE  /\ t[1] = BlockEvent("tool_calls", Block(first))
               /\ Event("finish") \in Follows(Last(t))
    <3>1. 1 \in 1 .. calls /\ calls \in 1 .. calls /\ first + (1 - 1) = first
      BY <2>3, <2>5
    <3>2. Last(t) = t[calls]
      BY <2>3, <2>5, LastOf
    <3>3. t[calls] = BlockEvent("tool_calls", Block(first + (calls - 1)))
      BY <2>2, <3>1
    <3>4. Block(first + (calls - 1)) \in Blocks
      BY <1>1
    <3>5. Event("finish") \in Follows(BlockEvent("tool_calls", Block(first + (calls - 1))))
      BY <3>4, AfterToolCalls
    <3>6. t[1] = BlockEvent("tool_calls", Block(first))
      BY <2>2, <3>1
    <3> QED BY <3>2, <3>3, <3>5, <3>6
  <2> QED BY <1>2, <2>2, <2>3, <2>4, <2>5 DEF Chained, Block
<1>3. CASE p = "anthropic"
  <2>1. t = [k \in 1 .. 3 * calls |->
               BlockEvent(BlockName(k - 1), Block(first + ((k - 1) \div 3)))]
    BY <1>3, BlockEvents
  <2> HIDE DEF Block
  <2>2. ASSUME NEW k \in 1 .. 3 * calls
        PROVE  /\ t[k] = BlockEvent(BlockName(k - 1), Block(first + ((k - 1) \div 3)))
               /\ t[k] \in Events /\ t[k] # Event("error")
               /\ Block(first + ((k - 1) \div 3)) \in Blocks
    <3>1. Block(first + ((k - 1) \div 3)) \in Blocks
      BY <1>1
    <3>2. BlockName(k - 1) \in Names /\ BlockName(k - 1) # "error"
      BY DEF BlockName, Names
    <3> QED BY <2>1, <3>1, <3>2, BlockEventTyped, NoError
  <2>3. t \in Seq(Events) /\ Len(t) = 3 * calls
    <3>1. t \in [1 .. 3 * calls -> Events] BY <2>1, <2>2
    <3>2. 3 * calls \in Nat OBVIOUS
    <3> QED BY <3>1, <3>2
  <2>4. ASSUME NEW k \in 1 .. Len(t) - 1 PROVE t[k + 1] \in Follows(t[k])
    <3>1. k \in 1 .. 3 * calls /\ k + 1 \in 1 .. 3 * calls
      BY <2>3
    <3> PICK c, d : c = Block(first + ((k - 1) \div 3)) /\ d = Block(first + (k \div 3)) OBVIOUS
    <3>2. /\ t[k] = BlockEvent(BlockName(k - 1), c)
          /\ t[k + 1] = BlockEvent(BlockName(k), d)
          /\ c \in Blocks
      BY <2>2, <3>1
    <3>2a. c.kind = "tool_use" /\ c.index = first + ((k - 1) \div 3)
      BY <1>1, <3>1
    <3>3. CASE (k - 1) % 3 = 0
      <4>1. k % 3 = 1 /\ k \div 3 = (k - 1) \div 3
        BY <3>1, <3>3
      <4> QED BY <3>2, <3>3, <4>1, AfterBlockStart DEF BlockName
    <3>4. CASE (k - 1) % 3 = 1
      <4>1. k % 3 = 2 /\ k \div 3 = (k - 1) \div 3
        BY <3>1, <3>4
      <4> QED BY <3>2, <3>2a, <3>4, <4>1, AfterBlockDelta DEF BlockName
    <3>5. CASE (k - 1) % 3 = 2
      <4>1. k % 3 = 0 /\ k \div 3 = ((k - 1) \div 3) + 1
        BY <3>1, <3>5
      <4>2. c.index + 1 = first + (k \div 3)
        BY <3>1, <3>2a, <4>1
      <4>3. BlockEvent("content_block_start", [index |-> c.index + 1, kind |-> "tool_use"])
              \in Follows(BlockEvent("content_block_stop", c))
        BY <3>2, AfterBlockStop
      <4>4. [index |-> c.index + 1, kind |-> "tool_use"] = d
        BY <4>2 DEF Block
      <4> QED BY <3>2, <3>5, <4>1, <4>3, <4>4 DEF BlockName
    <3> QED BY <3>1, <3>3, <3>4, <3>5
  <2>5. ASSUME Len(t) > 0
        PROVE  /\ t[1] = BlockEvent("content_block_start", Block(first))
               /\ Event("message_delta") \in Follows(Last(t))
    <3>0. calls > 0
      BY <2>3, <2>5
    <3>1. 1 \in 1 .. 3 * calls /\ 3 * calls \in 1 .. 3 * calls
      BY <3>0
    <3>2. t[1] = BlockEvent("content_block_start", Block(first))
      <4>1. (1 - 1) % 3 = 0 /\ first + ((1 - 1) \div 3) = first
        OBVIOUS
      <4> QED BY <2>2, <3>1, <4>1 DEF BlockName
    <3>3. Last(t) = t[3 * calls]
      BY <2>3, <2>5, LastOf
    <3> PICK c : c = Block(first + ((3 * calls - 1) \div 3)) OBVIOUS
    <3>4. t[3 * calls] = BlockEvent("content_block_stop", c) /\ c \in Blocks
      <4>1. (3 * calls - 1) % 3 = 2
        BY <3>0
      <4> QED BY <2>2, <3>1, <4>1 DEF BlockName
    <3>5. Event("message_delta") \in Follows(BlockEvent("content_block_stop", c))
      BY <3>4, AfterBlockStop
    <3> QED BY <3>2, <3>3, <3>4, <3>5
  <2> QED BY <1>3, <2>2, <2>3, <2>4, <2>5 DEF Chained, Block
<1> QED
  BY <1>2, <1>3

Terminals(p) == IF p = "openai" THEN {Event("done")} ELSE {Event("message_stop"), Event("error")}

(* A stream that has ended in one of the two ways.                          *)
Concluded(p, s, how) ==
  /\ s \in Seq(Events) /\ Len(s) > 0
  /\ s[1] = Opening(p)
  /\ Chained(s)
  /\ Last(s) \in Terminals(p)
  /\ how = "failed" <=> \E i \in 1 .. Len(s) : s[i] = Event("error")

(* A last piece behind a stream that is under way. *)
LEMMA Concludes ==
  ASSUME NEW p, NEW s, Going(p, s), NEW t \in Seq(Events), Len(t) > 0, Chained(t),
         t[1] \in Follows(Last(s)), Last(t) \in Terminals(p),
         NEW how, how = "failed" <=> \E i \in 1 .. Len(t) : t[i] = Event("error")
  PROVE  Concluded(p, s \o t, how)
<1> DEFINE u == s \o t
<1>1. s \in Seq(Events) /\ Len(s) > 0 /\ Chained(s) /\ Len(s) \in Nat /\ Len(t) \in Nat
  BY DEF Going
<1>2. /\ u \in Seq(Events) /\ Len(u) = Len(s) + Len(t) /\ Len(u) > 0
      /\ Chained(u) /\ u[1] = s[1]
      /\ Last(u) = Last(t)
      /\ \A i \in 1 .. Len(s) : u[i] = s[i]
      /\ \A i \in 1 .. Len(t) : u[Len(s) + i] = t[i]
  BY <1>1, ChainedBehind
<1> HIDE DEF u
<1>3. ASSUME NEW i \in 1 .. Len(u), u[i] = Event("error")
      PROVE  \E j \in 1 .. Len(t) : t[j] = Event("error")
  <2>1. CASE i \in 1 .. Len(s)
    BY <1>2, <1>3, <2>1 DEF Going
  <2>2. CASE i \notin 1 .. Len(s)
    <3> PICK j : j = i - Len(s) OBVIOUS
    <3>1. j \in 1 .. Len(t) /\ i = Len(s) + j
      BY <1>1, <1>2, <2>2
    <3>2. u[Len(s) + j] = t[j]
      BY <1>2, <3>1
    <3> QED BY <1>3, <3>1, <3>2
  <2> QED BY <2>1, <2>2
<1>4. ASSUME NEW j \in 1 .. Len(t), t[j] = Event("error")
      PROVE  \E i \in 1 .. Len(u) : u[i] = Event("error")
  <2>1. Len(s) + j \in 1 .. Len(u) /\ u[Len(s) + j] = t[j]
    BY <1>1, <1>2
  <2> QED BY <1>4, <2>1
<1>5. u[1] = Opening(p)
  BY <1>2 DEF Going
<1> QED
  BY <1>2, <1>3, <1>4, <1>5 DEF Concluded, u

LEMMA TwoEvents ==
  ASSUME NEW e \in Events, NEW d \in Events, d \in Follows(e)
  PROVE  /\ <<e, d>> \in Seq(Events) /\ Len(<<e, d>>) = 2 /\ Chained(<<e, d>>)
         /\ <<e, d>>[1] = e /\ <<e, d>>[2] = d /\ Last(<<e, d>>) = d
<1> DEFINE t == <<e, d>>
<1>1. t \in Seq(Events) /\ Len(t) = 2 /\ t[1] = e /\ t[2] = d
  OBVIOUS
<1> HIDE DEF t
<1>2. Chained(t)
  <2> SUFFICES ASSUME NEW i \in 1 .. Len(t) - 1 PROVE t[i + 1] \in Follows(t[i])
    BY DEF Chained
  <2>1. i = 1 /\ i + 1 = 2
    BY <1>1
  <2> QED BY <1>1, <2>1
<1>3. Last(t) = d
  <2>1. Len(t) > 0 BY <1>1
  <2>2. Last(t) = t[Len(t)] BY <1>1, <2>1, LastOf
  <2> QED BY <1>1, <2>2
<1> QED
  BY <1>1, <1>2, <1>3 DEF t

LEMMA ThreeEvents ==
  ASSUME NEW e \in Events, NEW d \in Events, NEW c \in Events, d \in Follows(e), c \in Follows(d)
  PROVE  /\ <<e, d, c>> \in Seq(Events) /\ Len(<<e, d, c>>) = 3 /\ Chained(<<e, d, c>>)
         /\ <<e, d, c>>[1] = e /\ <<e, d, c>>[2] = d /\ <<e, d, c>>[3] = c
         /\ Last(<<e, d, c>>) = c
<1> DEFINE t == <<e, d, c>>
<1>1. t \in Seq(Events) /\ Len(t) = 3 /\ t[1] = e /\ t[2] = d /\ t[3] = c
  OBVIOUS
<1> HIDE DEF t
<1>2. Chained(t)
  <2> SUFFICES ASSUME NEW i \in 1 .. Len(t) - 1 PROVE t[i + 1] \in Follows(t[i])
    BY DEF Chained
  <2>1. \/ i = 1 /\ i + 1 = 2
        \/ i = 2 /\ i + 1 = 3
    BY <1>1
  <2> QED BY <1>1, <2>1
<1>3. Last(t) = c
  <2>1. Len(t) > 0 BY <1>1
  <2>2. Last(t) = t[Len(t)] BY <1>1, <2>1, LastOf
  <2> QED BY <1>1, <2>2
<1> QED
  BY <1>1, <1>2, <1>3 DEF t

(* The events a complete answer ends with. *)
LEMMA EndingChained ==
  ASSUME protocol \in {"openai", "anthropic"}, NEW usage \in BOOLEAN, NEW t, t = Ending(usage)
  PROVE  /\ t \in Seq(Events) /\ Len(t) > 0 /\ Chained(t) /\ Last(t) \in Terminals(protocol)
         /\ \A i \in 1 .. Len(t) : t[i] # Event("error")
         /\ t[1] = IF protocol = "openai" THEN Event("finish") ELSE Event("message_delta")
<1>1. /\ Event("message_delta") \in Events /\ Event("message_stop") \in Events
      /\ Event("finish") \in Events /\ Event("usage") \in Events /\ Event("done") \in Events
  BY EventTyped DEF Names
<1>2. /\ Event("message_delta") # Event("error") /\ Event("message_stop") # Event("error")
      /\ Event("finish") # Event("error") /\ Event("usage") # Event("error")
      /\ Event("done") # Event("error")
  BY DEF Event
<1> PICK delta, stop, fin, use, done :
      /\ delta = Event("message_delta") /\ stop = Event("message_stop")
      /\ fin = Event("finish") /\ use = Event("usage") /\ done = Event("done")
  OBVIOUS
<1>3. CASE protocol = "anthropic"
  <2>1. t = <<delta, stop>>
    BY <1>3 DEF Ending
  <2>2. stop \in Follows(delta)
    BY AfterMessageDelta
  <2>3. /\ t \in Seq(Events) /\ Len(t) = 2 /\ Chained(t)
        /\ t[1] = delta /\ t[2] = stop /\ Last(t) = stop
    BY <1>1, <2>1, <2>2, TwoEvents
  <2>4. \A i \in 1 .. Len(t) : t[i] # Event("error")
    <3>1. \A i \in 1 .. 2 : i = 1 \/ i = 2 OBVIOUS
    <3> QED BY <1>2, <2>3, <3>1
  <2> QED BY <1>3, <2>3, <2>4 DEF Terminals
<1>4. CASE protocol = "openai" /\ ~usage
  <2>1. t = <<fin, done>>
    BY <1>4 DEF Ending
  <2>2. done \in Follows(fin)
    BY AfterFinish
  <2>3. /\ t \in Seq(Events) /\ Len(t) = 2 /\ Chained(t)
        /\ t[1] = fin /\ t[2] = done /\ Last(t) = done
    BY <1>1, <2>1, <2>2, TwoEvents
  <2>4. \A i \in 1 .. Len(t) : t[i] # Event("error")
    <3>1. \A i \in 1 .. 2 : i = 1 \/ i = 2 OBVIOUS
    <3> QED BY <1>2, <2>3, <3>1
  <2> QED BY <1>4, <2>3, <2>4 DEF Terminals
<1>5. CASE protocol = "openai" /\ usage
  <2>1. t = <<fin, use, done>>
    BY <1>5 DEF Ending
  <2>2. use \in Follows(fin) /\ done \in Follows(use)
    BY AfterFinish
  <2>3. /\ t \in Seq(Events) /\ Len(t) = 3 /\ Chained(t)
        /\ t[1] = fin /\ t[2] = use /\ t[3] = done /\ Last(t) = done
    BY <1>1, <2>1, <2>2, ThreeEvents
  <2>4. \A i \in 1 .. Len(t) : t[i] # Event("error")
    <3>1. \A i \in 1 .. 3 : i = 1 \/ i = 2 \/ i = 3 OBVIOUS
    <3> QED BY <1>2, <2>3, <3>1
  <2>5. Len(t) > 0
    BY <2>3
  <2>6. Last(t) \in Terminals(protocol)
    BY <1>5, <2>3 DEF Terminals
  <2> QED BY <1>5, <2>3, <2>4, <2>5, <2>6
<1> QED
  BY <1>3, <1>4, <1>5

(* The calls of the answer and the end, behind the last block. *)
LEMMA FinishConcludes ==
  ASSUME protocol \in {"openai", "anthropic"}, NEW f, Sound(protocol, f), f.block = NoBlock,
         Generation.calls \in Nat, NEW usage \in BOOLEAN,
         NEW first, first = IF protocol = "openai" THEN 0 ELSE f.next
  PROVE  Concluded(protocol, f.sent \o ToolEvents(first) \o Ending(usage), "finished")
<1> DEFINE s == f.sent
           t == ToolEvents(first)
           e == Ending(usage)
           u == t \o e
<1>1. Going(protocol, s) /\ f.next \in Nat /\ first \in Nat /\ s \in Seq(Events) /\ Len(s) > 0
  BY FramingFields DEF Sound, Going
<1>2. t = CallEvents(protocol, Generation.calls, first)
  BY DEF ToolEvents, CallEvents
<1> HIDE DEF t
<1>3. /\ t \in Seq(Events) /\ Len(t) \in Nat /\ Chained(t)
      /\ \A i \in 1 .. Len(t) : t[i] # Event("error")
      /\ Len(t) > 0 =>
           IF protocol = "openai"
           THEN /\ t[1] = BlockEvent("tool_calls", [index |-> first, kind |-> "tool_use"])
                /\ Event("finish") \in Follows(Last(t))
           ELSE /\ t[1] = BlockEvent("content_block_start", [index |-> first, kind |-> "tool_use"])
                /\ Event("message_delta") \in Follows(Last(t))
  <2> PICK p, c : p = protocol /\ c = Generation.calls OBVIOUS
  <2>1. p \in {"openai", "anthropic"} /\ c \in Nat /\ t = CallEvents(p, c, first)
    BY <1>2
  <2>2. /\ t \in Seq(Events) /\ Chained(t)
        /\ \A i \in 1 .. Len(t) : t[i] # Event("error")
        /\ Len(t) > 0 =>
             IF p = "openai"
             THEN /\ t[1] = BlockEvent("tool_calls", [index |-> first, kind |-> "tool_use"])
                  /\ Event("finish") \in Follows(Last(t))
             ELSE /\ t[1] = BlockEvent("content_block_start", [index |-> first, kind |-> "tool_use"])
                  /\ Event("message_delta") \in Follows(Last(t))
    BY <1>1, <2>1, CallEventsChained
  <2> QED BY <2>2
<1>4. /\ e \in Seq(Events) /\ Len(e) > 0 /\ Chained(e) /\ Last(e) \in Terminals(protocol)
      /\ \A i \in 1 .. Len(e) : e[i] # Event("error")
      /\ e[1] = IF protocol = "openai" THEN Event("finish") ELSE Event("message_delta")
  BY EndingChained
<1> HIDE DEF e
<1>5. IF protocol = "openai"
      THEN /\ f.next = 0
           /\ BlockEvent("tool_calls", [index |-> 0, kind |-> "tool_use"]) \in Follows(Last(s))
           /\ Event("finish") \in Follows(Last(s))
      ELSE /\ BlockEvent("content_block_start", [index |-> f.next, kind |-> "tool_use"])
                \in Follows(Last(s))
           /\ Event("message_delta") \in Follows(Last(s))
  <2> PICK p : p = protocol OBVIOUS
  <2>1. p \in {"openai", "anthropic"} /\ Sound(p, f)
    OBVIOUS
  <2> QED BY <2>1, BetweenBlocks
<1> HIDE DEF s
<1>6. CASE Len(t) = 0
  <2>1. t = <<>>
    BY <1>3, <1>6
  <2>2. s \o t = s
    BY <1>1, <2>1, ConcatEmptySeq
  <2>3. e[1] \in Follows(Last(s))
    BY <1>4, <1>5
  <2>4. Concluded(protocol, s \o e, "finished")
    BY <1>1, <1>4, <2>3, Concludes
  <2> QED BY <2>2, <2>4 DEF s, t, e
<1>7. CASE Len(t) > 0
  <2>1. e[1] \in Follows(Last(t))
    BY <1>3, <1>4, <1>7
  <2>2. /\ u \in Seq(Events) /\ Len(u) = Len(t) + Len(e) /\ Len(u) > 0
        /\ Chained(u) /\ u[1] = t[1]
        /\ Last(u) = Last(e)
        /\ \A i \in 1 .. Len(t) : u[i] = t[i]
        /\ \A i \in 1 .. Len(e) : u[Len(t) + i] = e[i]
    BY <1>3, <1>4, <1>7, <2>1, ChainedBehind
  <2> HIDE DEF u
  <2>3. ASSUME NEW i \in 1 .. Len(u) PROVE u[i] # Event("error")
    <3>1. CASE i \in 1 .. Len(t)
      BY <1>3, <2>2, <3>1
    <3>2. CASE i \notin 1 .. Len(t)
      <4> PICK j : j = i - Len(t) OBVIOUS
      <4>0. Len(e) \in Nat BY <1>4
      <4>1. j \in 1 .. Len(e) /\ i = Len(t) + j
        BY <1>3, <2>2, <3>2, <4>0
      <4>2. u[Len(t) + j] = e[j]
        BY <2>2, <4>1
      <4> QED BY <1>4, <4>1, <4>2
    <3> QED BY <3>1, <3>2
  <2>4. t[1] \in Follows(Last(s))
    BY <1>3, <1>5, <1>7
  <2>5. Concluded(protocol, s \o u, "finished")
    BY <1>1, <1>4, <2>2, <2>3, <2>4, Concludes
  <2>6. s \o u = (s \o t) \o e
    <3>0. s \in Seq(Events) /\ t \in Seq(Events) /\ e \in Seq(Events)
      BY <1>1, <1>3, <1>4
    <3>1. (s \o t) \o e = s \o (t \o e)
      BY <3>0, ConcatAssociative
    <3> QED BY <3>1 DEF u
  <2> QED BY <2>5, <2>6 DEF s, t, e
<1> QED
  BY <1>3, <1>6, <1>7

(* An error and the end, behind the last block. *)
LEMMA FailureConcludes ==
  ASSUME protocol \in {"openai", "anthropic"}, NEW f, Sound(protocol, f), f.block = NoBlock,
         NEW t, t = IF protocol = "openai" THEN <<Event("error"), Event("done")>>
                    ELSE <<Event("error")>>
  PROVE  Concluded(protocol, f.sent \o t, "failed")
<1>1. Event("error") \in Events /\ Event("done") \in Events
  BY EventTyped DEF Names
<1> PICK err, done : err = Event("error") /\ done = Event("done") OBVIOUS
<1>2. /\ t \in Seq(Events) /\ Len(t) > 0 /\ Chained(t) /\ Last(t) \in Terminals(protocol)
      /\ t[1] = Event("error") /\ 1 \in 1 .. Len(t)
  <2>1. CASE protocol = "openai"
    <3>1. t = <<err, done>> /\ done \in Follows(err)
      BY <2>1, AfterFinish
    <3>2. t \in Seq(Events) /\ Len(t) = 2 /\ Chained(t) /\ t[1] = err /\ Last(t) = done
      BY <1>1, <3>1, TwoEvents
    <3> QED BY <2>1, <3>2 DEF Terminals
  <2>2. CASE protocol = "anthropic"
    <3>1. t = <<err>>
      BY <2>2
    <3>2. t \in Seq(Events) /\ Len(t) = 1 /\ t[1] = err
      BY <1>1, <3>1
    <3>3. Len(t) > 0 BY <3>2
    <3>4. Last(t) = t[Len(t)] BY <3>2, <3>3, LastOf
    <3>5. Chained(t) BY <3>2 DEF Chained
    <3> QED BY <2>2, <3>2, <3>3, <3>4, <3>5 DEF Terminals
  <2> QED BY <2>1, <2>2
<1>3. Event("error") \in Follows(Last(f.sent))
  <2> PICK p : p = protocol OBVIOUS
  <2>1. p \in {"openai", "anthropic"} /\ Sound(p, f)
    OBVIOUS
  <2> QED BY <2>1, BetweenBlocks
<1>4. Going(protocol, f.sent)
  BY DEF Sound
<1> HIDE DEF Concluded
<1> QED
  BY <1>2, <1>3, <1>4, Concludes

-----------------------------------------------------------------------------
(* The inductive invariant, and the actions.                               *)

Typed ==
  /\ protocol \in {"openai", "anthropic"}
  /\ thinking \in BOOLEAN /\ tools \in BOOLEAN /\ started \in BOOLEAN
  /\ raw \in Texts /\ arrived \in 0 .. Len(raw)
  /\ output \in Parsers /\ output.deltas = <<>> /\ Settled(output)

Inductive ==
  /\ Typed
  /\ end \in {"open", "finished", "failed"}
  /\ end = "open" => Ready
  /\ end # "open" => Concluded(protocol, sent, end)

LEMMA TypedOutput ==
  ASSUME NEW parsed \in Parsers, Settled(parsed),
         output' = [parsed EXCEPT !.deltas = <<>>]
  PROVE  output' \in Parsers /\ output'.deltas = <<>> /\ Settled(output)'
<1> PICK q : q = output' OBVIOUS
<1>1. q \in Parsers /\ q.deltas = <<>> /\ Settled(q)
  BY DeltasTaken
<1> QED
  BY <1>1 DEF Settled

(* What an action frames is the framing of the next state. *)
LEMMA FrameReady ==
  ASSUME protocol \in {"openai", "anthropic"}, protocol' = protocol,
         NEW f, Sound(protocol, f), Frame(f)
  PROVE  started' \in BOOLEAN /\ Ready'
<1>1. f \in Framings /\ started' = (protocol = "anthropic")
  BY DEF Sound, Frame
<1>2. [sent |-> sent', block |-> current_block', next |-> next_index'] = f
  BY <1>1 DEF Framings, Frame
<1>3. Framing' = f
  BY <1>2 DEF Framing
<1>4. started' \in BOOLEAN /\ (started' \/ protocol' = "openai")
  BY <1>1
<1> QED
  BY <1>3, <1>4 DEF Ready

LEMMA InitInductive ==
  Init => Inductive
<1> SUFFICES ASSUME Init PROVE Inductive
  OBVIOUS
<1>1. protocol \in {"openai", "anthropic"}
  BY StreamAssumption DEF Init
<1>2. thinking \in BOOLEAN /\ tools \in BOOLEAN /\ started \in BOOLEAN /\ started = FALSE
  BY DEF Init
<1>3. raw \in Texts /\ arrived \in 0 .. Len(raw)
  <2>1. raw \in Texts
    BY AnswersAreTexts DEF Init
  <2>2. Len(raw) \in Nat /\ arrived = 0
    BY <2>1 DEF Texts, Init
  <2> QED BY <2>1, <2>2
<1>4. output \in Parsers /\ output.deltas = <<>> /\ Settled(output)
  BY <1>2, NewParserSettled DEF Init
<1>5. Ready
  <2>1. CASE protocol = "anthropic"
    BY <1>2, <2>1 DEF Init, Ready
  <2>2. CASE protocol = "openai"
    <3> DEFINE e == Event("role")
               s == <<e>>
    <3>1. e \in Events /\ e # Event("error") /\ NoBlock \in Blocks
      BY EventTyped DEF Names, Event, NoBlock, Blocks, BlockKinds
    <3>2. sent = s /\ current_block = NoBlock /\ next_index = 0
      BY <2>2 DEF Init
    <3>3. e = Opening(protocol)
      BY <2>2 DEF Opening
    <3> HIDE DEF e
    <3>4. s \in Seq(Events) /\ Len(s) = 1 /\ s[1] = e
      BY <3>1
    <3> HIDE DEF s
    <3>5. Len(s) > 0
      BY <3>4
    <3>6. Last(s) = e
      BY <3>4, <3>5, LastOf
    <3>7. Chained(s)
      BY <3>4 DEF Chained
    <3>8. Framing \in Framings
      BY <3>1, <3>2, <3>4 DEF Framing, Framings
    <3>9. Going(protocol, s)
      BY <3>1, <3>3, <3>4, <3>5, <3>7 DEF Going
    <3>10. Rests(protocol, Framing)
      BY <2>2, <3>2, <3>6 DEF Rests, Framing, e
    <3>11. Framing.sent = s
      BY <3>2 DEF Framing
    <3> QED BY <2>2, <3>8, <3>9, <3>10, <3>11 DEF Sound, Ready
  <2> QED BY <1>1, <2>1, <2>2
<1>6. end = "open"
  BY DEF Init
<1> QED
  BY <1>1, <1>2, <1>3, <1>4, <1>5, <1>6 DEF Inductive, Typed

LEMMA StartedInductive ==
  ASSUME Inductive, Started
  PROVE  Inductive'
<1>1. Typed /\ Ready /\ end = "open" /\ protocol \in {"openai", "anthropic"} /\ started \in BOOLEAN
  BY DEF Inductive, Started, Typed
<1> DEFINE f == ensure_anthropic_started(Framing)
<1>2. Sound(protocol, f)
  BY <1>1, StartKeeps
<1>3. Frame(f) /\ protocol' = protocol /\ thinking' = thinking /\ tools' = tools /\ raw' = raw
      /\ arrived' = arrived /\ output' = output /\ end' = end
  BY DEF Started, request
<1> HIDE DEF f
<1>4. started' \in BOOLEAN /\ Ready'
  BY <1>1, <1>2, <1>3, FrameReady
<1>5. Settled(output)' 
  BY <1>1, <1>3 DEF Typed, Settled
<1>6. Typed'
  BY <1>1, <1>3, <1>4, <1>5 DEF Typed
<1> QED
  BY <1>1, <1>3, <1>4, <1>6 DEF Inductive

LEMMA RawTokenInductive ==
  ASSUME Inductive, NEW length \in Pieces, RawToken(length)
  PROVE  Inductive'
<1> DEFINE piece == SubSeq(raw, arrived + 1, arrived + length)
           parsed == push_raw(output, piece)
           f == Deltas(ensure_anthropic_started(Framing), parsed.deltas)
<1>1. Typed /\ Ready /\ end = "open" /\ protocol \in {"openai", "anthropic"} /\ started \in BOOLEAN
      /\ output \in Parsers /\ raw \in Texts /\ arrived \in 0 .. Len(raw)
  BY DEF Inductive, RawToken, Typed
<1>2. /\ arrived + length <= Len(raw) /\ arrived' = arrived + length
      /\ output' = [parsed EXCEPT !.deltas = <<>>] /\ Frame(f)
      /\ protocol' = protocol /\ thinking' = thinking /\ tools' = tools /\ raw' = raw /\ end' = end
  BY DEF RawToken, request
<1>3. length \in Nat /\ length > 0 /\ Len(raw) \in Nat
  BY <1>1, StreamAssumption DEF Texts
<1>4. piece \in Texts
  <2> PICK i, j : i = arrived + 1 /\ j = arrived + length OBVIOUS
  <2>1. i \in Nat /\ j \in Int /\ 1 <= i /\ j <= Len(raw)
    BY <1>1, <1>2, <1>3
  <2>2. SubSeq(raw, i, j) \in Texts
    BY <1>1, <2>1, PartTyped
  <2> QED BY <2>2
<1> HIDE DEF piece
<1>5. parsed \in Parsers /\ Settled(parsed)
  BY <1>1, <1>4, PushSettles
<1> HIDE DEF parsed
<1>6. Sound(protocol, f)
  <2>1. Sound(protocol, ensure_anthropic_started(Framing))
    BY <1>1, StartKeeps
  <2>2. parsed.deltas \in Seq(DeltaSet)
    BY <1>5, ParserFields
  <2> QED BY <1>1, <2>1, <2>2, DeltasKeep
<1> HIDE DEF f
<1>7. started' \in BOOLEAN /\ Ready'
  BY <1>1, <1>2, <1>6, FrameReady
<1>8. output' \in Parsers /\ output'.deltas = <<>> /\ Settled(output)'
  BY <1>2, <1>5, TypedOutput
<1>9. arrived' \in 0 .. Len(raw')
  BY <1>1, <1>2, <1>3
<1>10. Typed'
  BY <1>1, <1>2, <1>7, <1>8, <1>9 DEF Typed
<1> QED
  BY <1>1, <1>2, <1>7, <1>10 DEF Inductive

LEMMA GenerationDeltas ==
  ASSUME Typed
  PROVE  generation_deltas \in Seq(DeltaSet) /\ Generation.calls \in Nat
<1>1. Generation.reasoning \in Texts /\ Generation.text \in Texts /\ Generation.calls \in Nat
  BY GenerationTyped DEF Typed, Generation
<1>2. ASSUME NEW kind \in Kinds, NEW t \in Texts PROVE Delta(kind, t) \in Seq(DeltaSet)
  <2> PICK d : d = [kind |-> kind, text |-> t] OBVIOUS
  <2>1. d \in DeltaSet
    BY DEF DeltaSet
  <2>2. <<d>> \in Seq(DeltaSet) /\ <<>> \in Seq(DeltaSet)
    BY <2>1
  <2> QED BY <2>2 DEF Delta
<1>3. /\ Delta("Reasoning", Generation.reasoning) \in Seq(DeltaSet)
      /\ Delta("Text", Generation.text) \in Seq(DeltaSet)
  BY <1>1, <1>2 DEF Kinds
<1> QED
  BY <1>1, <1>3, ConcatProperties DEF generation_deltas

LEMMA FinishedInductive ==
  ASSUME Inductive, NEW usage \in BOOLEAN, Finished(usage)
  PROVE  Inductive'
<1> DEFINE parsed == finish(output)
           deltas == (IF arrived = 0 THEN generation_deltas ELSE <<>>) \o parsed.deltas
           f == Deltas(ensure_anthropic_started(Framing), deltas)
           framed == finish_anthropic_block(f)
           first == IF protocol = "openai" THEN 0 ELSE framed.next
           all == framed.sent \o ToolEvents(first) \o Ending(usage)
           past == framed.next + IF protocol = "openai" THEN 0 ELSE Generation.calls
           last == [framed EXCEPT !.sent = all, !.next = past]
<1>1. Typed /\ Ready /\ end = "open" /\ protocol \in {"openai", "anthropic"} /\ started \in BOOLEAN
      /\ output \in Parsers
  BY DEF Inductive, Finished, Typed
<1>2. /\ end' = "finished" /\ output' = [parsed EXCEPT !.deltas = <<>>] /\ Frame(last)
      /\ protocol' = protocol /\ thinking' = thinking /\ tools' = tools /\ raw' = raw
      /\ arrived' = arrived
  BY DEF Finished, request
<1>3. parsed \in Parsers /\ Settled(parsed)
  BY <1>1, FinishSettles
<1> HIDE DEF parsed
<1>4. deltas \in Seq(DeltaSet)
  <2>1. parsed.deltas \in Seq(DeltaSet) /\ generation_deltas \in Seq(DeltaSet)
    BY <1>1, <1>3, ParserFields, GenerationDeltas
  <2> PICK g : g = IF arrived = 0 THEN generation_deltas ELSE <<>> OBVIOUS
  <2>2. g \in Seq(DeltaSet)
    BY <2>1
  <2> QED BY <2>1, <2>2, ConcatProperties
<1> HIDE DEF deltas
<1>5. Sound(protocol, f)
  <2>1. Sound(protocol, ensure_anthropic_started(Framing))
    BY <1>1, StartKeeps
  <2> QED BY <1>1, <1>4, <2>1, DeltasKeep
<1> HIDE DEF f
<1>6. Sound(protocol, framed) /\ framed.block = NoBlock
  BY <1>5, FinishBlockKeeps
<1> HIDE DEF framed
<1>7. Generation.calls \in Nat
  BY <1>1, GenerationDeltas
<1>8. Concluded(protocol, all, "finished")
  BY <1>1, <1>6, <1>7, FinishConcludes
<1>9. last.sent = all
  <2> HIDE DEF all, past
  <2>1. framed \in Framings
    BY <1>6 DEF Sound
  <2> QED BY <2>1 DEF Framings
<1> HIDE DEF last, all
<1>10. sent' = all /\ started' = (protocol = "anthropic")
  BY <1>2, <1>9 DEF Frame
<1>11. output' \in Parsers /\ output'.deltas = <<>> /\ Settled(output)'
  BY <1>2, <1>3, TypedOutput
<1>12. Typed'
  BY <1>1, <1>2, <1>10, <1>11 DEF Typed
<1>13. Concluded(protocol', sent', end')
  BY <1>2, <1>8, <1>10
<1> QED
  BY <1>2, <1>12, <1>13 DEF Inductive

LEMMA FailedInductive ==
  ASSUME Inductive, Failed
  PROVE  Inductive'
<1> DEFINE f == ensure_anthropic_started(Framing)
           closed == finish_anthropic_block(f)
           t == IF protocol = "openai" THEN <<Event("error"), Event("done")>>
                ELSE <<Event("error")>>
           all == closed.sent \o t
           last == [closed EXCEPT !.sent = all]
<1>1. Typed /\ Ready /\ end = "open" /\ protocol \in {"openai", "anthropic"} /\ started \in BOOLEAN
  BY DEF Inductive, Failed, Typed
<1>2. /\ end' = "failed" /\ output' = output /\ Frame(last)
      /\ protocol' = protocol /\ thinking' = thinking /\ tools' = tools /\ raw' = raw
      /\ arrived' = arrived
  BY DEF Failed, request
<1>3. Sound(protocol, f)
  BY <1>1, StartKeeps
<1> HIDE DEF f
<1>4. Sound(protocol, closed) /\ closed.block = NoBlock
  BY <1>3, FinishBlockKeeps
<1> HIDE DEF closed
<1>5. Concluded(protocol, all, "failed")
  BY <1>1, <1>4, FailureConcludes
<1>6. last.sent = all
  <2> HIDE DEF all
  <2>1. closed \in Framings
    BY <1>4 DEF Sound
  <2> QED BY <2>1 DEF Framings
<1> HIDE DEF last, all
<1>7. sent' = all /\ started' = (protocol = "anthropic")
  BY <1>2, <1>6 DEF Frame
<1>8. Settled(output)'
  BY <1>1, <1>2 DEF Typed, Settled
<1>9. Typed'
  BY <1>1, <1>2, <1>7, <1>8 DEF Typed
<1>10. Concluded(protocol', sent', end')
  BY <1>2, <1>5, <1>7
<1> QED
  BY <1>2, <1>9, <1>10 DEF Inductive

(* In every reachable state: the parser holds nothing but what may still    *)
(* become a marker; while the stream is open, its last event is the one the *)
(* open block and the next index tell of; once it has ended, its last event *)
(* is a terminal one of the protocol, and it has an error exactly if it     *)
(* failed.                                                                  *)
THEOREM StreamInductive ==
  Spec => []Inductive
<1>1. Init => Inductive
  BY InitInductive
<1>2. Inductive /\ [Next]_vars => Inductive'
  <2> SUFFICES ASSUME Inductive, [Next]_vars PROVE Inductive'
    OBVIOUS
  <2>1. CASE Started
    BY <2>1, StartedInductive
  <2>2. CASE \E length \in Pieces : RawToken(length)
    BY <2>2, RawTokenInductive
  <2>3. CASE \E usage \in BOOLEAN : Finished(usage)
    BY <2>3, FinishedInductive
  <2>4. CASE Failed
    BY <2>4, FailedInductive
  <2>5. CASE UNCHANGED vars
    <3>1. /\ protocol' = protocol /\ thinking' = thinking /\ tools' = tools /\ raw' = raw
          /\ arrived' = arrived /\ output' = output /\ started' = started
          /\ current_block' = current_block /\ next_index' = next_index /\ sent' = sent
          /\ end' = end
      BY <2>5 DEF vars
    <3>2. Framing' = Framing
      BY <3>1 DEF Framing
    <3>3. Settled(output)' <=> Settled(output)
      BY <3>1 DEF Settled
    <3>4. Typed'
      BY <3>1, <3>3 DEF Typed, Inductive
    <3>5. Ready' <=> Ready
      BY <3>1, <3>2 DEF Ready
    <3>6. Concluded(protocol', sent', end') <=> Concluded(protocol, sent, end)
      BY <3>1
    <3> QED BY <3>1, <3>4, <3>5, <3>6 DEF Inductive
  <2> QED BY <2>1, <2>2, <2>3, <2>4, <2>5 DEF Next
<1> QED
  BY <1>1, <1>2, PTL DEF Spec

(* openai_live_stream and anthropic_live_stream: whatever the answer, its   *)
(* pieces and the moment of a failure, every event may follow the one       *)
(* before it, blocks are numbered without a gap and closed, and the stream  *)
(* ends with the terminal event of its protocol.                            *)
THEOREM StreamsAreWellFramed ==
  Spec => []WellFramed
<1>1. Inductive => WellFramed
  <2> SUFFICES ASSUME Inductive PROVE WellFramed
    OBVIOUS
  <2>1. CASE end = "open" /\ ~(started \/ protocol = "openai")
    <3>1. sent = <<>> /\ 1 .. Len(<<>>) - 1 = {}
      BY <2>1 DEF Inductive, Ready
    <3> QED BY <2>1, <3>1 DEF WellFramed
  <2>2. CASE end = "open" /\ (started \/ protocol = "openai")
    <3>1. Going(protocol, sent)
      BY <2>2 DEF Inductive, Ready, Sound, Framing
    <3> QED BY <2>2, <3>1 DEF WellFramed, Going, Chained, Opening
  <2>3. CASE end # "open"
    <3>1. Concluded(protocol, sent, end)
      BY <2>3 DEF Inductive
    <3> QED BY <3>1 DEF WellFramed, Concluded, Chained, Opening, Terminals
  <2> QED BY <2>1, <2>2, <2>3
<1> QED
  BY <1>1, StreamInductive, PTL

(* A stream has an error event exactly if the generation failed.            *)
THEOREM StreamsAreHonest ==
  Spec => []Honest
<1>1. Inductive => Honest
  <2> SUFFICES ASSUME Inductive, end # "open"
               PROVE  end = "failed" <=> \E i \in DOMAIN sent : sent[i] = Event("error")
    BY DEF Honest
  <2>1. Concluded(protocol, sent, end)
    BY DEF Inductive
  <2>2. DOMAIN sent = 1 .. Len(sent)
    BY <2>1 DEF Concluded
  <2> QED BY <2>1, <2>2 DEF Concluded
<1> QED
  BY <1>1, StreamInductive, PTL

(* StreamingOutputParser: what is held back after a piece is the beginning  *)
(* of a marker, or the inside of a tool call; the loop of drain is over     *)
(* when it has taken the turns a recursive function of it takes.            *)
THEOREM DeliversAtOnce ==
  Spec => []NothingWithheld
<1>1. Inductive => NothingWithheld
  BY DEF Inductive, Typed, Settled, NothingWithheld
<1> QED
  BY <1>1, StreamInductive, PTL

-----------------------------------------------------------------------------
(* Pieces.                                                                 *)

Heard == SubSeq(raw, 1, arrived)

(* The parser, had what was heard so far come in one piece. *)
Whole == Loop(Longer(NewParser(thinking, tools), Heard), FALSE)

Said == [kind \in Kinds |-> IF kind = "Reasoning" THEN reasoning ELSE text]

KeptUp ==
  /\ reasoning \in Texts /\ text \in Texts
  /\ end = "open" => Ahead(Whole, output, Said)
  /\ PiecesDoNotMatter

(* What was said are texts. *)
LEMMA SaidTyped ==
  ASSUME KeptUp
  PROVE  Said \in Saids /\ Said["Reasoning"] = reasoning /\ Said["Text"] = text
BY DEF KeptUp, Said, Saids, Kinds

(* What was heard is a text. *)
LEMMA HeardTyped ==
  ASSUME Typed
  PROVE  /\ Heard \in Texts /\ NewParser(thinking, tools) \in Parsers
         /\ NewParser(thinking, tools).deltas = <<>> /\ NewParser(thinking, tools).pending = <<>>
<1>1. Heard \in Texts
  <2> PICK i, j : i = 1 /\ j = arrived OBVIOUS
  <2>1. raw \in Texts /\ i \in Nat /\ j \in Int /\ 1 <= i /\ j <= Len(raw)
    BY DEF Typed, Texts
  <2> QED BY <2>1, PartTyped DEF Heard
<1>2. /\ NewParser(thinking, tools) \in Parsers
      /\ NewParser(thinking, tools).deltas = <<>>
  BY NewParserSettled DEF Typed
<1> QED
  BY <1>1, <1>2 DEF NewParser

(* Without deltas nothing is said. *)
LEMMA EmptySaid ==
  ASSUME NEW kind \in Kinds, NEW said \in Saids
  PROVE  said[kind] \o TextOf(kind, <<>>) = said[kind]
<1>1. said[kind] \in Seq(Letter)
  BY DEF Saids, Texts
<1>2. said[kind] \o <<>> = said[kind]
  BY <1>1, ConcatEmptySeq
<1> QED
  BY <1>2, TextOfNothing

(* The stream before its first piece. *)
LEMMA InitKeepsUp ==
  Init => KeptUp
<1> SUFFICES ASSUME Init PROVE KeptUp
  OBVIOUS
<1>1. Typed
  BY InitInductive DEF Inductive
<1> PICK p : p = NewParser(thinking, tools) OBVIOUS
<1> DEFINE none == <<>>
<1>2. none \in Texts
  BY DEF Texts
<1>3. reasoning = none /\ text = none /\ output = p /\ end = "open" /\ arrived = 0
  BY DEF Init
<1>4. p \in Parsers /\ p.deltas = none /\ p.pending = none
  BY <1>1, HeardTyped
<1>5. Heard = none
  BY <1>3 DEF Heard
<1>6. Longer(p, none) = p
  <2>1. none \o none = none
    BY <1>2, ConcatEmptySeq DEF Texts
  <2> PICK j : j = Longer(p, none) OBVIOUS
  <2> HIDE DEF none
  <2>2. /\ j \in Parsers /\ j.mode = p.mode /\ j.tools = p.tools /\ j.deltas = p.deltas
        /\ j.initial_reasoning = p.initial_reasoning
        /\ j.trim_answer_newlines = p.trim_answer_newlines
        /\ j.pending = p.pending \o none
    BY <1>2, <1>4, LongerTyped
  <2>3. j.pending = p.pending
    BY <1>4, <2>1, <2>2
  <2>4. j = p
    BY <1>4, <2>2, <2>3, SameParser
  <2> QED BY <2>4
<1>7. Whole = p
  <2>1. Loop(p, FALSE) = p
    BY <1>1, NewWaits DEF Typed
  <2> QED BY <1>5, <1>6, <2>1 DEF Whole
<1>8. Ahead(p, p, Said)
  <2>1. ASSUME NEW kind \in Kinds
        PROVE  TextOf(kind, p.deltas) = Said[kind] \o TextOf(kind, p.deltas)
    <3>1. Said[kind] = none
      BY <1>3 DEF Said
    <3>2. TextOf(kind, p.deltas) = none
      BY <1>4, TextOfNothing
    <3>3. none \o none = none
      BY <1>2, ConcatEmptySeq DEF Texts
    <3> QED BY <3>1, <3>2, <3>3
  <2> HIDE DEF none
  <2> QED BY <2>1 DEF Ahead
<1>9. PiecesDoNotMatter
  BY <1>3 DEF PiecesDoNotMatter
<1> QED
  BY <1>2, <1>3, <1>7, <1>8, <1>9 DEF KeptUp

(* A text cut in two and joined. *)
LEMMA PartsJoined ==
  ASSUME NEW t \in Texts, NEW j \in 0 .. Len(t), NEW a \in 0 .. j
  PROVE  SubSeq(t, 1, a) \o SubSeq(t, a + 1, j) = SubSeq(t, 1, j)
<1> PICK x, y, z : x = SubSeq(t, 1, a) /\ y = SubSeq(t, a + 1, j) /\ z = SubSeq(t, 1, j)
  OBVIOUS
<1>1. Len(t) \in Nat /\ a \in Nat /\ j \in Nat /\ a <= j /\ j <= Len(t)
  BY DEF Texts
<1>2. x \in Texts /\ Len(x) = a /\ \A i \in 1 .. a : x[i] = t[i]
  BY <1>1, BeginningOf DEF Texts
<1>3. z \in Texts /\ Len(z) = j /\ \A i \in 1 .. j : z[i] = t[i]
  BY <1>1, BeginningOf DEF Texts
<1>4. y \in Texts /\ Len(y) = j - a /\ \A i \in 1 .. j - a : y[i] = t[a + i]
  <2>1. /\ y \in Seq(Letter) /\ Len(y) = IF a + 1 <= j THEN j - (a + 1) + 1 ELSE 0
        /\ \A i \in 1 .. j - (a + 1) + 1 : y[i] = t[a + 1 + i - 1]
    BY <1>1, SubSeqProperties DEF Texts
  <2> QED BY <1>1, <2>1 DEF Texts
<1> PICK u : u = x \o y OBVIOUS
<1>5. /\ u \in Texts /\ Len(u) = a + (j - a)
      /\ \A i \in 1 .. a : u[i] = x[i]
      /\ \A i \in 1 .. j - a : u[a + i] = y[i]
  BY <1>2, <1>4, ConcatText
<1>6. ASSUME NEW i \in 1 .. j PROVE u[i] = z[i]
  <2>1. CASE i <= a
    BY <1>1, <1>2, <1>3, <1>5, <2>1
  <2>2. CASE ~(i <= a)
    <3> PICK k : k = i - a OBVIOUS
    <3>1. k \in 1 .. j - a /\ i = a + k
      BY <1>1, <2>2
    <3>2. u[a + k] = y[k] /\ y[k] = t[a + k]
      BY <1>4, <1>5, <3>1
    <3>3. z[i] = t[i]
      BY <1>3
    <3> QED BY <3>1, <3>2, <3>3
  <2> QED BY <2>1, <2>2
<1>7. Len(u) = j
  BY <1>1, <1>5
<1> QED
  BY <1>3, <1>5, <1>6, <1>7, Equal

(* A piece arrives. *)
LEMMA RawTokenKeepsUp ==
  ASSUME Inductive, KeptUp, NEW length \in Pieces, RawToken(length)
  PROVE  KeptUp'
<1> PICK piece : piece = SubSeq(raw, arrived + 1, arrived + length) OBVIOUS
<1> PICK parsed : parsed = push_raw(output, piece) OBVIOUS
<1> PICK p : p = NewParser(thinking, tools) OBVIOUS
<1>1. Typed /\ end = "open" /\ output \in Parsers /\ output.deltas = <<>>
      /\ raw \in Texts /\ Len(raw) \in Nat /\ arrived \in 0 .. Len(raw)
      /\ reasoning \in Texts /\ text \in Texts
  BY DEF Inductive, RawToken, Typed, Texts, KeptUp
<1>2. /\ arrived + length <= Len(raw) /\ arrived' = arrived + length
      /\ output' = [parsed EXCEPT !.deltas = <<>>]
      /\ reasoning' = reasoning \o TextOf("Reasoning", parsed.deltas)
      /\ text' = text \o TextOf("Text", parsed.deltas)
      /\ thinking' = thinking /\ tools' = tools /\ raw' = raw /\ end' = end
  BY DEF RawToken, request
<1>3. length \in Nat /\ length > 0
  BY StreamAssumption
<1>4. Heard \in Texts /\ p \in Parsers /\ p.deltas = <<>> /\ p.pending = <<>>
  BY <1>1, HeardTyped
<1>5. piece \in Texts /\ Heard' = Heard \o piece
  <2> PICK a, i, j : a = arrived /\ i = arrived + 1 /\ j = arrived + length OBVIOUS
  <2>1. i \in Nat /\ 1 <= i /\ j \in Nat /\ j <= Len(raw) /\ a \in 0 .. j /\ a \in Nat
        /\ i = a + 1
    BY <1>1, <1>2, <1>3
  <2>2. SubSeq(raw, i, j) \in Texts
    BY <1>1, <2>1, PartTyped
  <2>3. SubSeq(raw, 1, a) \o SubSeq(raw, i, j) = SubSeq(raw, 1, j)
    <3>1. j \in 0 .. Len(raw)
      BY <2>1
    <3> QED BY <1>1, <2>1, <3>1, PartsJoined
  <2>4. Heard' = SubSeq(raw, 1, j)
    BY <1>2 DEF Heard
  <2> QED BY <2>2, <2>3, <2>4 DEF Heard
<1>6. parsed = Loop(Longer(output, piece), FALSE) /\ parsed \in Parsers
  <2>1. parsed = Loop(Longer(output, piece), FALSE)
    BY <1>1, <1>5, PushIs
  <2>2. parsed \in Parsers
    BY <1>1, <1>5, PushSettles
  <2> QED BY <2>1, <2>2
<1>7. Said \in Saids /\ Ahead(Loop(Longer(p, Heard), FALSE), output, Said)
  <2>1. Said \in Saids
    BY SaidTyped
  <2> QED BY <1>1, <2>1 DEF KeptUp, Whole
<1> PICK w : w = Loop(Longer(p, Heard \o piece), FALSE) OBVIOUS
<1>8. Ahead(w, parsed, Said)
  <2> PICK h, o, s : h = Heard /\ o = output /\ s = Said OBVIOUS
  <2>1. Ahead(Loop(Longer(p, h \o piece), FALSE), Loop(Longer(o, piece), FALSE), s)
    BY <1>1, <1>4, <1>5, <1>7, PieceKeepsUp
  <2> QED BY <1>6, <2>1
<1>9. Whole' = w
  BY <1>2, <1>5 DEF Whole
<1>10. /\ TextOf("Reasoning", parsed.deltas) \in Texts /\ TextOf("Text", parsed.deltas) \in Texts
       /\ reasoning' \in Texts /\ text' \in Texts
  <2> PICK d, x, y : /\ d = parsed.deltas
                     /\ x = TextOf("Reasoning", d) /\ y = TextOf("Text", d)
    OBVIOUS
  <2>1. d \in Seq(DeltaSet) /\ "Reasoning" \in Kinds /\ "Text" \in Kinds
    BY <1>6, ParserFields DEF Kinds
  <2>2. x \in Texts /\ y \in Texts
    BY <2>1, TextOfConcat
  <2>3. reasoning \o x \in Texts /\ text \o y \in Texts
    BY <1>1, <2>2, ConcatText
  <2> QED BY <1>2, <2>2, <2>3
<1>11. ASSUME NEW kind \in Kinds
       PROVE  Said'[kind] = Said[kind] \o TextOf(kind, parsed.deltas)
  <2>1. CASE kind = "Reasoning"
    BY <1>2, <2>1 DEF Said, Kinds
  <2>2. CASE kind = "Text"
    BY <1>2, <2>2 DEF Said, Kinds
  <2> QED BY <2>1, <2>2 DEF Kinds
<1>12. Said' \in Saids
  BY <1>10 DEF Said, Saids
<1>13. Ahead(w, output', Said')
  <2> PICK q : q = output' OBVIOUS
  <2> PICK s : s = Said' OBVIOUS
  <2>1. /\ q.mode = parsed.mode /\ q.tools = parsed.tools /\ q.pending = parsed.pending
        /\ q.initial_reasoning = parsed.initial_reasoning
        /\ q.trim_answer_newlines = parsed.trim_answer_newlines /\ q.deltas = <<>>
    BY <1>2, <1>6 DEF Parsers
  <2>2. ASSUME NEW kind \in Kinds
        PROVE  TextOf(kind, w.deltas) = s[kind] \o TextOf(kind, q.deltas)
    <3>1. TextOf(kind, w.deltas) = s[kind]
      BY <1>8, <1>11 DEF Ahead
    <3>2. s[kind] \o TextOf(kind, <<>>) = s[kind]
      BY <1>12, EmptySaid
    <3> QED BY <2>1, <3>1, <3>2
  <2>3. Ahead(w, q, s)
    BY <1>8, <2>1, <2>2 DEF Ahead
  <2> QED BY <2>3
<1>14. PiecesDoNotMatter'
  BY <1>1, <1>2 DEF PiecesDoNotMatter
<1> QED
  BY <1>9, <1>10, <1>13, <1>14 DEF KeptUp

(* The stream ends with what is still held back. *)
LEMMA FinishedKeepsUp ==
  ASSUME Inductive, KeptUp, NEW usage \in BOOLEAN, Finished(usage)
  PROVE  KeptUp'
<1> PICK parsed : parsed = finish(output) OBVIOUS
<1> PICK deltas : deltas = (IF arrived = 0 THEN generation_deltas ELSE <<>>) \o parsed.deltas
  OBVIOUS
<1> PICK p : p = NewParser(thinking, tools) OBVIOUS
<1>1. Typed /\ end = "open" /\ output \in Parsers /\ output.deltas = <<>>
      /\ raw \in Texts /\ Len(raw) \in Nat /\ arrived \in 0 .. Len(raw)
      /\ reasoning \in Texts /\ text \in Texts
  BY DEF Inductive, Finished, Typed, Texts, KeptUp
<1>2. /\ arrived \in {0, Len(raw)} /\ arrived' = arrived
      /\ reasoning' = reasoning \o TextOf("Reasoning", deltas)
      /\ text' = text \o TextOf("Text", deltas)
      /\ thinking' = thinking /\ tools' = tools /\ raw' = raw /\ end' = "finished"
  BY DEF Finished, request
<1>3. Heard \in Texts /\ p \in Parsers /\ p.deltas = <<>> /\ p.pending = <<>>
  BY <1>1, HeardTyped
<1>4. parsed \in Parsers /\ parsed.deltas \in Seq(DeltaSet)
  <2>1. parsed \in Parsers
    BY <1>1, FinishSettles
  <2> QED BY <2>1, ParserFields
<1>5. deltas \in Seq(DeltaSet)
  <2> DEFINE none == <<>>
  <2>1. none \in Seq(DeltaSet)
    OBVIOUS
  <2> PICK g : g = IF arrived = 0 THEN generation_deltas ELSE none OBVIOUS
  <2>2. g \in Seq(DeltaSet)
    BY <1>1, <2>1, GenerationDeltas
  <2>3. g \o parsed.deltas \in Seq(DeltaSet)
    BY <1>4, <2>2, ConcatProperties
  <2> QED BY <2>3
<1>6. reasoning' \in Texts /\ text' \in Texts
  <2> PICK x, y : x = TextOf("Reasoning", deltas) /\ y = TextOf("Text", deltas)
    OBVIOUS
  <2>1. "Reasoning" \in Kinds /\ "Text" \in Kinds
    BY DEF Kinds
  <2>2. x \in Texts /\ y \in Texts
    BY <1>5, <2>1, TextOfConcat
  <2>3. reasoning \o x \in Texts /\ text \o y \in Texts
    BY <1>1, <2>2, ConcatText
  <2> QED BY <1>2, <2>3
<1>7. PiecesDoNotMatter'
  <2>1. CASE arrived = 0
    BY <1>2, <2>1 DEF PiecesDoNotMatter
  <2>2. CASE arrived # 0
    <3>1. arrived = Len(raw) /\ Heard = raw
      BY <1>1, <1>2, <2>2 DEF Heard, Texts
    <3> PICK m : m = push_raw(p, raw) OBVIOUS
    <3>2. m = Whole /\ m \in Parsers
      <4>1. m = Loop(Longer(p, raw), FALSE)
        BY <1>1, <1>3, PushIs
      <4>2. m \in Parsers
        BY <1>1, <1>3, PushSettles
      <4> QED BY <3>1, <4>1, <4>2 DEF Whole
    <3>3. Ahead(m, output, Said)
      BY <1>1, <3>2 DEF KeptUp
    <3>4. finish(m) = parsed
      <4> PICK q : q = [m EXCEPT !.deltas = output.deltas] OBVIOUS
      <4>1. output.deltas \in Seq(DeltaSet)
        BY <1>1, ParserFields
      <4>2. /\ q \in Parsers /\ q.mode = m.mode /\ q.tools = m.tools
            /\ q.pending = m.pending /\ q.initial_reasoning = m.initial_reasoning
            /\ q.trim_answer_newlines = m.trim_answer_newlines /\ q.deltas = output.deltas
        BY <3>2, <4>1 DEF Parsers
      <4>3. q = output
        <5>1. /\ q.mode = output.mode /\ q.tools = output.tools
              /\ q.pending = output.pending /\ q.initial_reasoning = output.initial_reasoning
              /\ q.trim_answer_newlines = output.trim_answer_newlines
          BY <3>3, <4>2 DEF Ahead
        <5> QED BY <1>1, <4>2, <5>1, SameParser
      <4>4. finish(m) = Loop(q, TRUE)
        BY <1>1 DEF finish
      <4>5. parsed = Loop(output, TRUE)
        BY <1>1, PushIs, <1>3
      <4> QED BY <4>3, <4>4, <4>5
    <3>5. deltas = parsed.deltas
      <4>1. <<>> \o parsed.deltas = parsed.deltas
        BY <1>4, ConcatEmptySeq
      <4> QED BY <2>2, <4>1
    <3>6. ASSUME NEW kind \in Kinds
          PROVE  TextOf(kind, m.deltas \o parsed.deltas) = Said[kind] \o TextOf(kind, deltas)
      <4> PICK d, e : d = m.deltas /\ e = parsed.deltas OBVIOUS
      <4>1. d \in Seq(DeltaSet) /\ e \in Seq(DeltaSet)
        BY <1>4, <3>2, ParserFields
      <4>2. TextOf(kind, d \o e) = TextOf(kind, d) \o TextOf(kind, e)
        BY <4>1, TextOfConcat
      <4>3. TextOf(kind, d) = Said[kind]
        <5>1. TextOf(kind, d) = Said[kind] \o TextOf(kind, output.deltas)
          BY <3>3 DEF Ahead
        <5>2. Said[kind] \o TextOf(kind, <<>>) = Said[kind]
          BY SaidTyped, EmptySaid
        <5> QED BY <1>1, <5>1, <5>2
      <4> QED BY <3>5, <4>2, <4>3
    <3> PICK all : all = m.deltas \o finish(m).deltas OBVIOUS
    <3>7. reasoning' = TextOf("Reasoning", all) /\ text' = TextOf("Text", all)
      <4>1. Said["Reasoning"] = reasoning /\ Said["Text"] = text
            /\ "Reasoning" \in Kinds /\ "Text" \in Kinds
        BY SaidTyped DEF Kinds
      <4> QED BY <1>2, <3>4, <3>6, <4>1
    <3>8. push_raw(NewParser(thinking', tools'), raw') = m
      BY <1>2
    <3> QED BY <3>7, <3>8 DEF PiecesDoNotMatter
  <2> QED BY <2>1, <2>2
<1> QED
  BY <1>2, <1>6, <1>7 DEF KeptUp

(* What is no text of the answer changes nothing. *)
LEMMA OthersKeepUp ==
  ASSUME KeptUp, UNCHANGED <<thinking, tools, raw, arrived, output, reasoning, text>>,
         end' = end \/ end' = "failed"
  PROVE  KeptUp'
<1>1. Whole' = Whole /\ Said' = Said
  BY DEF Whole, Heard, Said
<1>2. (end' = "open" => Ahead(Whole, output, Said)')
  BY <1>1 DEF KeptUp, Ahead
<1>3. PiecesDoNotMatter'
  BY DEF KeptUp, PiecesDoNotMatter
<1> QED
  BY <1>2, <1>3 DEF KeptUp

(* push_raw and finish: what is received of a finished answer is what the   *)
(* parser makes of the raw text in one piece, whatever the pieces it came  *)
(* in, where they were cut, and the newlines, markers and parts of markers *)
(* at the cuts.                                                             *)
THEOREM PiecesAreIrrelevant ==
  Spec => []PiecesDoNotMatter
<1>1. Init => KeptUp
  BY InitKeepsUp
<1>2. Inductive /\ KeptUp /\ [Next]_vars => KeptUp'
  <2> SUFFICES ASSUME Inductive, KeptUp, [Next]_vars PROVE KeptUp'
    OBVIOUS
  <2>1. CASE Started
    BY <2>1, OthersKeepUp DEF Started, request
  <2>2. CASE \E length \in Pieces : RawToken(length)
    BY <2>2, RawTokenKeepsUp
  <2>3. CASE \E usage \in BOOLEAN : Finished(usage)
    BY <2>3, FinishedKeepsUp
  <2>4. CASE Failed
    BY <2>4, OthersKeepUp DEF Failed, request
  <2>5. CASE UNCHANGED vars
    BY <2>5, OthersKeepUp DEF vars
  <2> QED BY <2>1, <2>2, <2>3, <2>4, <2>5 DEF Next
<1>3. KeptUp => PiecesDoNotMatter
  BY DEF KeptUp
<1> QED
  BY StreamInductive, <1>1, <1>2, <1>3, PTL DEF Spec

-----------------------------------------------------------------------------
(* What is in front of a marker and behind it.                             *)

InFront(marker, t) == IF Find(marker, t) = 0 THEN t ELSE SubSeq(t, 1, Find(marker, t) - 1)

Behind(marker, t) ==
  IF Find(marker, t) = 0 THEN <<>> ELSE From(t, Find(marker, t) + Len(marker))

(* Nothing of the marker is among the first letters. *)
Clear(marker, t, n) == Find(marker, t) = 0 \/ n < Find(marker, t)

(* Both are texts. *)
LEMMA PartedTyped ==
  ASSUME NEW marker \in Texts, Len(marker) > 0, NEW t \in Texts
  PROVE  /\ InFront(marker, t) \in Texts /\ Behind(marker, t) \in Texts
         /\ Len(InFront(marker, t)) <= Len(t)
         /\ Find(marker, t) > 0 => /\ Len(InFront(marker, t)) = Find(marker, t) - 1
                                   /\ Len(Behind(marker, t)) = Len(t) - Find(marker, t) - Len(marker) + 1
<1> PICK at, m : at = Find(marker, t) /\ m = Len(marker) OBVIOUS
<1>1. at \in 0 .. Len(t) /\ m \in Nat /\ m > 0 /\ Len(t) \in Nat /\ (at > 0 => at + m - 1 <= Len(t))
  BY Found DEF Texts
<1>2. CASE at = 0
  <2>1. InFront(marker, t) = t /\ Behind(marker, t) = <<>>
    BY <1>2 DEF InFront, Behind
  <2>2. <<>> \in Texts
    BY DEF Texts
  <2> QED BY <1>1, <1>2, <2>1, <2>2
<1>3. CASE at # 0
  <2> PICK i, j : i = at - 1 /\ j = at + m OBVIOUS
  <2>1. i \in 0 .. Len(t) /\ j \in Nat /\ 1 <= j /\ j <= Len(t) + 1 /\ Len(t) - j + 1 = Len(t) - at - m + 1
    BY <1>1, <1>3
  <2>2. SubSeq(t, 1, i) \in Texts /\ Len(SubSeq(t, 1, i)) = i
    BY <2>1, BeginningOf DEF Texts
  <2>3. From(t, j) \in Texts /\ Len(From(t, j)) = Len(t) - j + 1
    BY <2>1, FromTyped
  <2>4. InFront(marker, t) = SubSeq(t, 1, i) /\ Behind(marker, t) = From(t, j)
    BY <1>3 DEF InFront, Behind
  <2> QED BY <1>1, <1>3, <2>1, <2>2, <2>3, <2>4
<1> QED
  BY <1>2, <1>3

(* Of an empty text nothing is in front of a marker nor behind. *)
LEMMA PartedNothing ==
  ASSUME NEW marker \in Texts, Len(marker) > 0
  PROVE  Find(marker, <<>>) = 0 /\ InFront(marker, <<>>) = <<>> /\ Behind(marker, <<>>) = <<>>
<1> PICK t : t = <<>> OBVIOUS
<1>1. t \in Texts /\ Len(t) = 0
  BY DEF Texts
<1>2. Find(marker, t) \in 0 .. Len(t)
  BY <1>1, Found
<1>3. Find(marker, t) = 0
  BY <1>1, <1>2
<1> QED
  BY <1>3 DEF InFront, Behind

(* The place where a marker is found. *)
LEMMA FoundAt ==
  ASSUME NEW marker \in Texts, Len(marker) > 0, NEW t \in Texts, NEW i \in Occurrences(marker, t),
         \A j \in Occurrences(marker, t) : i <= j
  PROVE  Find(marker, t) = i
<1>1. Occurrences(marker, t) \in SUBSET (1 .. Len(t)) /\ Len(t) \in Nat
  BY DEF Occurrences, Texts
<1>2. Find(marker, t) = Min(Occurrences(marker, t))
  BY DEF Find
<1>3. Occurrences(marker, t) \in SUBSET Nat
  BY <1>1
<1>4. /\ Min(Occurrences(marker, t)) \in Occurrences(marker, t)
      /\ \A y \in Occurrences(marker, t) : Min(Occurrences(marker, t)) <= y
  BY <1>3, MinOfNaturals
<1> QED
  BY <1>1, <1>2, <1>4

(* No marker begins before the first one. *)
LEMMA FoundFirst ==
  ASSUME NEW marker \in Texts, Len(marker) > 0, NEW t \in Texts, NEW j \in Occurrences(marker, t)
  PROVE  Find(marker, t) > 0 /\ Find(marker, t) <= j /\ j \in 1 .. Len(t)
<1>1. Occurrences(marker, t) \in SUBSET (1 .. Len(t)) /\ Len(t) \in Nat
  BY DEF Occurrences, Texts
<1>2. Find(marker, t) = Min(Occurrences(marker, t))
  BY DEF Find
<1>3. Occurrences(marker, t) \in SUBSET Nat
  BY <1>1
<1>4. /\ Min(Occurrences(marker, t)) \in Occurrences(marker, t)
      /\ \A y \in Occurrences(marker, t) : Min(Occurrences(marker, t)) <= y
  BY <1>3, MinOfNaturals
<1> QED
  BY <1>1, <1>2, <1>4

(* Letters taken from the front move a marker behind them. *)
LEMMA OccursShifted ==
  ASSUME NEW marker \in Texts, Len(marker) > 0, NEW t \in Texts, NEW n \in 0 .. Len(t),
         NEW i \in 1 .. Len(t) - n
  PROVE  i \in Occurrences(marker, From(t, n + 1)) <=> n + i \in Occurrences(marker, t)
<1> PICK s, k : s = From(t, n + 1) /\ k = n + i OBVIOUS
<1>1. Len(t) \in Nat /\ n \in Nat /\ n <= Len(t) /\ i \in Nat /\ 1 <= i /\ Len(marker) \in Nat
      /\ k \in 1 .. Len(t)
  BY DEF Texts
<1>2. s \in Texts /\ Len(s) = Len(t) - n
  <2> PICK m : m = n + 1 OBVIOUS
  <2>1. m \in Nat /\ 1 <= m /\ m <= Len(t) + 1 /\ Len(t) - m + 1 = Len(t) - n
    BY <1>1
  <2>2. From(t, m) \in Texts /\ Len(From(t, m)) = Len(t) - m + 1
    BY Zenon, <2>1, FromTyped
  <2> QED BY Zenon, <2>1, <2>2
<1>3. Starts(marker, s, i) <=> Starts(marker, t, k)
  BY <1>1, StartsShifted
<1>4. i \in Occurrences(marker, s) <=> Starts(marker, s, i) /\ i + Len(marker) - 1 <= Len(s)
  BY <1>1, <1>2, OccursAt
<1>5. k \in Occurrences(marker, t) <=> Starts(marker, t, k) /\ k + Len(marker) - 1 <= Len(t)
  BY <1>1, OccursAt
<1> QED
  BY <1>1, <1>2, <1>3, <1>4, <1>5

(* Taken from the front of a text, letters without the marker are missing in *)
(* front of it and nowhere else.                                            *)
Takes(marker, t, n, s) ==
  /\ s \in Texts
  /\ Find(marker, s) = IF Find(marker, t) = 0 THEN 0 ELSE Find(marker, t) - n
  /\ InFront(marker, t) = SubSeq(t, 1, n) \o InFront(marker, s)
  /\ Behind(marker, s) = Behind(marker, t)

(* Letters in front of a marker can be taken from a text. *)
LEMMA PartedShifted ==
  ASSUME NEW marker \in Texts, Len(marker) > 0, NEW t \in Texts, NEW n \in 0 .. Len(t),
         Clear(marker, t, n)
  PROVE  Takes(marker, t, n, From(t, n + 1))
<1> PICK s, at, m : s = From(t, n + 1) /\ at = Find(marker, t) /\ m = Len(marker) OBVIOUS
<1>1. Len(t) \in Nat /\ n \in Nat /\ m \in Nat /\ m > 0 /\ at \in 0 .. Len(t)
      /\ (at > 0 => at \in Occurrences(marker, t) /\ at + m - 1 <= Len(t))
      /\ (at = 0 <=> Occurrences(marker, t) = {})
  BY Found DEF Texts
<1>2. s \in Texts /\ Len(s) = Len(t) - n
  <2> PICK k : k = n + 1 OBVIOUS
  <2>1. k \in Nat /\ 1 <= k /\ k <= Len(t) + 1 /\ Len(t) - k + 1 = Len(t) - n
    BY <1>1
  <2>2. From(t, k) \in Texts /\ Len(From(t, k)) = Len(t) - k + 1
    BY Zenon, <2>1, FromTyped
  <2> QED BY Zenon, <2>1, <2>2
<1>3. ASSUME NEW i \in 1 .. Len(t) - n
      PROVE  i \in Occurrences(marker, s) <=> n + i \in Occurrences(marker, t)
  BY OccursShifted
<1>4. Occurrences(marker, s) \in SUBSET (1 .. Len(t) - n)
  BY <1>2 DEF Occurrences, Texts
<1>5. CASE at = 0
  <2>1. Find(marker, s) = 0
    <3>1. Occurrences(marker, s) = {}
      BY <1>1, <1>3, <1>4, <1>5
    <3> QED BY <1>2, <3>1, Found
  <2>2. InFront(marker, s) = s /\ Behind(marker, s) = <<>> /\ InFront(marker, t) = t
        /\ Behind(marker, t) = <<>>
    BY <1>5, <2>1 DEF InFront, Behind
  <2>3. SubSeq(t, 1, n) \o s = t
    <3>1. SubSeq(t, 1, n) \o SubSeq(t, n + 1, Len(t)) = SubSeq(t, 1, Len(t))
      <4> PICK j : j = Len(t) OBVIOUS
      <4>1. j \in 0 .. Len(t) /\ n \in 0 .. j
        BY <1>1
      <4> QED BY <4>1, PartsJoined
    <3>2. SubSeq(t, 1, Len(t)) = t
      BY SubSeqFull DEF Texts
    <3> QED BY Zenon, <3>1, <3>2 DEF From
  <2> QED BY <1>2, <1>5, <2>1, <2>2, <2>3 DEF Takes
<1>6. CASE at # 0
  <2>1. n < at
    BY <1>6 DEF Clear
  <2> PICK b : b = at - n OBVIOUS
  <2>2. b \in 1 .. Len(t) - n /\ n + b = at
    BY <1>1, <1>6, <2>1
  <2>a. /\ at \in Nat /\ b \in Nat /\ n \in Nat /\ b > 0 /\ n < at /\ n + b = at
        /\ Len(t) \in Nat /\ at <= Len(t) /\ Len(s) = Len(t) - n
    BY <1>1, <1>2, <1>6, <2>1, <2>2
  <2>3. Find(marker, s) = b
    <3>1. b \in Occurrences(marker, s)
      BY <1>1, <1>3, <1>6, <2>2
    <3>2. ASSUME NEW j \in Occurrences(marker, s) PROVE b <= j
      <4>1. j \in 1 .. Len(t) - n
        BY <1>4
      <4>2. n + j \in Occurrences(marker, t)
        BY <1>3, <4>1
      <4>3. at <= n + j
        BY <4>2, FoundFirst
      <4> QED BY <1>1, <2>2, <4>1, <4>3
    <3> QED BY <1>2, <3>1, <3>2, FoundAt
  <2>4. InFront(marker, t) = SubSeq(t, 1, n) \o InFront(marker, s)
    <3>1. SubSeq(s, 1, b - 1) = SubSeq(t, n + 1, at - 1)
      <4>0. PICK x, y : x = SubSeq(s, 1, b - 1) /\ y = SubSeq(t, n + 1, at - 1) OBVIOUS
      <4>1. b - 1 \in 0 .. Len(s) /\ at - 1 = n + (b - 1) /\ b - 1 \in Nat /\ b - 1 <= Len(t) - n
        BY ONLY <2>a
      <4>2. x \in Texts /\ Len(x) = b - 1 /\ \A i \in 1 .. b - 1 : x[i] = s[i]
        <5> PICK j : j = b - 1 OBVIOUS
        <5>1. /\ SubSeq(s, 1, j) \in Texts /\ Len(SubSeq(s, 1, j)) = j
              /\ \A i \in 1 .. j : SubSeq(s, 1, j)[i] = s[i]
          BY Zenon, <1>2, <4>1, BeginningOf DEF Texts
        <5> QED BY <4>0, <5>1
      <4>3. y \in Texts /\ Len(y) = b - 1 /\ \A i \in 1 .. b - 1 : y[i] = t[n + i]
        <5>0. PICK lo, hi : lo = n + 1 /\ hi = at - 1 OBVIOUS
        <5>1. lo \in Nat /\ hi \in Nat /\ 1 <= lo /\ hi <= Len(t) /\ hi - lo + 1 = b - 1 /\ lo <= hi + 1
              /\ \A i \in 1 .. b - 1 : lo + i - 1 = n + i
          BY ONLY <5>0, <2>a
        <5>2. ASSUME NEW i \in lo .. hi PROVE t[i] \in Letter
          <6>1. i \in 1 .. Len(t)
            BY ONLY <5>1, <2>a, i \in lo .. hi
          <6> QED BY <6>1, ElementOfSeq DEF Texts
        <5>3. SubSeq(t, lo, hi) \in Texts
          BY <5>1, PartTyped
        <5>4. /\ Len(SubSeq(t, lo, hi)) = IF lo <= hi THEN hi - lo + 1 ELSE 0
              /\ \A i \in 1 .. hi - lo + 1 : SubSeq(t, lo, hi)[i] = t[lo + i - 1]
          BY <5>1, <5>2, SubSeqProperties DEF Texts
        <5>5. Len(SubSeq(t, lo, hi)) = b - 1
          BY <5>1, <5>4
        <5>6. \A i \in 1 .. b - 1 : SubSeq(t, lo, hi)[i] = t[n + i]
          BY <5>1, <5>4
        <5> QED BY <4>0, <5>0, <5>3, <5>5, <5>6
      <4>4. ASSUME NEW i \in 1 .. b - 1 PROVE s[i] = t[n + i]
        <5> PICK k : k = n + 1 OBVIOUS
        <5>1. k \in Nat /\ 1 <= k /\ k <= Len(t) + 1 /\ i \in 1 .. Len(t) - k + 1 /\ k + i - 1 = n + i
          BY ONLY <2>a, k = n + 1, i \in 1 .. b - 1
        <5>2. From(t, k)[i] = t[k + i - 1]
          BY <5>1, FromTyped
        <5> QED BY <5>1, <5>2
      <4>5. x = y
        <5>1. Len(x) = Len(y) /\ x \in Texts /\ y \in Texts
          BY <4>2, <4>3
        <5>2. \A i \in 1 .. Len(x) : x[i] = y[i]
          BY ONLY <4>2, <4>3, <4>4
        <5> QED BY <5>1, <5>2, Equal
      <4> QED BY <4>0, <4>5
    <3>2. SubSeq(t, 1, n) \o SubSeq(t, n + 1, at - 1) = SubSeq(t, 1, at - 1)
      <4> PICK j : j = at - 1 OBVIOUS
      <4>1. j \in 0 .. Len(t) /\ n \in 0 .. j
        BY ONLY <2>a, j = at - 1
      <4> QED BY <4>1, PartsJoined
    <3>3. InFront(marker, s) = SubSeq(s, 1, b - 1) /\ InFront(marker, t) = SubSeq(t, 1, at - 1)
      BY <1>6, <2>2, <2>3 DEF InFront
    <3> QED BY <3>1, <3>2, <3>3
  <2>5. Behind(marker, s) = Behind(marker, t)
    <3>0. PICK j : j = at + m - 1 OBVIOUS
    <3>a. at \in Nat /\ b \in Nat /\ n \in Nat /\ m \in Nat /\ m > 0 /\ n < at /\ n + b = at
          /\ Len(t) \in Nat /\ at + m - 1 <= Len(t)
      BY <1>1, <1>6, <2>1, <2>2
    <3>1. j \in 0 .. Len(t) /\ n \in 0 .. j /\ j - n + 1 = b + m /\ j + 1 = at + m
      BY ONLY <3>0, <3>a
    <3>2. From(From(t, n + 1), j - n + 1) = From(t, j + 1)
      BY <3>1, CutAgain DEF CutsTwice
    <3> QED BY <1>6, <2>2, <2>3, <3>1, <3>2 DEF Behind
  <2> QED BY <1>2, <1>6, <2>3, <2>4, <2>5 DEF Takes
<1> QED
  BY <1>5, <1>6

-----------------------------------------------------------------------------
(* The loop of parse_tool_calls, in these terms.                           *)

(* An answer with the calls taken out. *)
Outside(t) == ToolCalls(t).text

(* The first call of an answer has an end and is well formed. *)
Proper(t) ==
  LET call == Behind(OPEN_TOOL, t)
  IN  Find(OPEN_TOOL, t) > 0 => Find(CLOSE_TOOL, call) > 0 /\ WellFormed(InFront(CLOSE_TOOL, call))

Rest(t) == Behind(CLOSE_TOOL, Behind(OPEN_TOOL, t))

(* A turn: the call is taken out, left in, or has no end. *)
TakesOut(s, r) ==
  LET t == s.remaining
  IN  IF Find(CLOSE_TOOL, Behind(OPEN_TOOL, t)) = 0
      THEN r.text = s.text \o t /\ r.remaining = t /\ r.left
      ELSE /\ r.remaining = Rest(t) /\ ~r.left /\ Len(r.remaining) < Len(t)
           /\ IF Proper(t) THEN r.text = s.text \o InFront(OPEN_TOOL, t)
              ELSE \E last \in 1 .. Len(t) :
                     /\ Find(OPEN_TOOL, t) < last
                     /\ r.text = s.text \o SubSeq(t, 1, last)

(* A turn of parse_tool_calls on an answer with a call in it. *)
LEMMA CallTaken ==
  ASSUME NEW s \in Calls, ~s.left, Find(OPEN_TOOL, s.remaining) > 0
  PROVE  TakesOut(s, NextCall(s))
<1>0. PICK t, start, call, size :
        /\ t = s.remaining /\ start = Find(OPEN_TOOL, t) /\ call = From(t, start + 2)
        /\ size = Find(CLOSE_TOOL, call)
  OBVIOUS
<1>1. t \in Texts /\ Len(t) \in Nat /\ s.text \in Texts /\ s.calls \in Nat
  BY <1>0 DEF Calls, Texts
<1>2. /\ OPEN_TOOL \in Texts /\ Len(OPEN_TOOL) = 2 /\ Len(OPEN_TOOL) > 0
      /\ CLOSE_TOOL \in Texts /\ Len(CLOSE_TOOL) = 2 /\ Len(CLOSE_TOOL) > 0
  BY Markers
<1>3. start \in 1 .. Len(t) /\ start + 1 <= Len(t)
  <2>1. start \in 0 .. Len(t) /\ start > 0 /\ (start > 0 => start + Len(OPEN_TOOL) - 1 <= Len(t))
    BY <1>0, <1>1, <1>2, Found
  <2> QED BY <1>1, <1>2, <2>1
<1>4. call = Behind(OPEN_TOOL, t) /\ call \in Texts /\ Len(call) = Len(t) - start - 1
  <2>1. call = Behind(OPEN_TOOL, t)
    BY <1>0, <1>2, <1>3 DEF Behind
  <2>2. Behind(OPEN_TOOL, t) \in Texts /\ Len(Behind(OPEN_TOOL, t)) = Len(t) - start - Len(OPEN_TOOL) + 1
    BY <1>0, <1>1, <1>2, <1>3, PartedTyped
  <2> QED BY <1>1, <1>2, <1>3, <2>1, <2>2
<1>5. size \in 0 .. Len(call) /\ (size > 0 => size + 1 <= Len(call))
  <2>1. size \in 0 .. Len(call) /\ (size > 0 => size + Len(CLOSE_TOOL) - 1 <= Len(call))
    BY <1>0, <1>2, <1>4, Found
  <2> QED BY <1>1, <1>2, <1>3, <1>4, <2>1
<1>6. PICK body, last : /\ body = SubSeq(t, start + 2, start + 2 + size - 2)
                        /\ last = start + 2 + size + 2 - 2
  OBVIOUS
<1>7. NextCall(s) =
        IF size = 0 THEN [s EXCEPT !.text = @ \o t, !.left = TRUE]
        ELSE IF WellFormed(body)
        THEN [s EXCEPT !.text = @ \o SubSeq(t, 1, start - 1), !.calls = @ + 1,
                       !.remaining = From(@, last + 1)]
        ELSE [s EXCEPT !.text = @ \o SubSeq(t, 1, last),
                       !.remaining = From(@, last + 1)]
  BY <1>0, <1>2, <1>3, <1>6 DEF NextCall
<1> PICK r : r = NextCall(s) OBVIOUS
<1>8. CASE size = 0
  <2>1. r = [s EXCEPT !.text = @ \o t, !.left = TRUE]
    BY <1>7, <1>8
  <2>2. r.text = s.text \o t /\ r.remaining = s.remaining /\ r.left
    BY <2>1 DEF Calls
  <2> QED BY <1>0, <1>4, <1>8, <2>2 DEF TakesOut
<1>9. CASE size # 0
  <2>1. r.remaining = From(t, last + 1) /\ ~r.left
        /\ r.text = s.text \o IF WellFormed(body) THEN SubSeq(t, 1, start - 1) ELSE SubSeq(t, 1, last)
    <3>1. CASE WellFormed(body)
      <4>1. r = [s EXCEPT !.text = @ \o SubSeq(t, 1, start - 1), !.calls = @ + 1,
                          !.remaining = From(@, last + 1)]
        BY <1>7, <1>9, <3>1
      <4> QED BY <1>0, <3>1, <4>1 DEF Calls
    <3>2. CASE ~WellFormed(body)
      <4>1. r = [s EXCEPT !.text = @ \o SubSeq(t, 1, last), !.remaining = From(@, last + 1)]
        BY <1>7, <1>9, <3>2
      <4> QED BY <1>0, <3>2, <4>1 DEF Calls
    <3> QED BY <3>1, <3>2
  <2>2. last \in 1 .. Len(t) /\ start < last /\ last = start + size + 2
    BY <1>1, <1>3, <1>4, <1>5, <1>6, <1>9
  <2>3. From(t, last + 1) = Rest(t)
    <3>0. PICK j, n : j = last /\ n = start + 1 OBVIOUS
    <3>1. j \in 0 .. Len(t) /\ n \in 0 .. j /\ n + 1 = start + 2 /\ j - n + 1 = size + 2
      BY <3>0, <1>1, <1>3, <1>4, <1>5, <2>2
    <3>2. From(From(t, n + 1), j - n + 1) = From(t, j + 1)
      BY <1>1, <3>1, CutAgain DEF CutsTwice
    <3>3. From(call, size + 2) = From(t, j + 1)
      BY <1>0, <3>1, <3>2
    <3>4. Behind(CLOSE_TOOL, call) = From(call, size + 2)
      BY <1>0, <1>2, <1>9 DEF Behind
    <3> QED BY <1>4, <3>0, <3>3, <3>4 DEF Rest
  <2>4. Len(Rest(t)) < Len(t)
    <3>0. size > 0
      BY <1>1, <1>3, <1>4, <1>5, <1>9
    <3>1. Len(Behind(CLOSE_TOOL, call)) = Len(call) - size - Len(CLOSE_TOOL) + 1
      BY <1>0, <1>2, <1>4, <3>0, PartedTyped
    <3> QED BY <1>1, <1>2, <1>3, <1>4, <1>5, <1>9, <3>1 DEF Rest
  <2>5. body = InFront(CLOSE_TOOL, call)
    <3>0. PICK x, y : x = body /\ y = InFront(CLOSE_TOOL, call) OBVIOUS
    <3>1. y = SubSeq(call, 1, size - 1)
      BY <1>0, <1>9, <3>0 DEF InFront
    <3>2. y \in Texts /\ Len(y) = size - 1 /\ \A i \in 1 .. size - 1 : y[i] = call[i]
      <4> PICK j : j = size - 1 OBVIOUS
      <4>1. j \in 0 .. Len(call)
        BY <1>5, <1>9
      <4>2. /\ SubSeq(call, 1, j) \in Texts /\ Len(SubSeq(call, 1, j)) = j
            /\ \A i \in 1 .. j : SubSeq(call, 1, j)[i] = call[i]
        BY <1>4, <4>1, BeginningOf DEF Texts
      <4> QED BY <3>1, <4>2
    <3>3. x \in Texts /\ Len(x) = size - 1 /\ \A i \in 1 .. size - 1 : x[i] = t[start + 1 + i]
      <4>0. PICK lo, hi : lo = start + 2 /\ hi = start + 2 + size - 2 OBVIOUS
      <4>1. lo \in Nat /\ hi \in Nat /\ 1 <= lo /\ hi <= Len(t) /\ hi - lo + 1 = size - 1 /\ lo <= hi + 1
            /\ \A i \in 1 .. size - 1 : lo + i - 1 = start + 1 + i
        BY <4>0, <1>1, <1>3, <1>4, <1>5, <1>9
      <4>2. \A i \in lo .. hi : t[i] \in Letter
        BY <4>1, <1>1, ElementOfSeq DEF Texts
      <4>3. SubSeq(t, lo, hi) \in Texts
        BY <1>1, <4>1, PartTyped
      <4>4. /\ Len(SubSeq(t, lo, hi)) = IF lo <= hi THEN hi - lo + 1 ELSE 0
            /\ \A i \in 1 .. hi - lo + 1 : SubSeq(t, lo, hi)[i] = t[lo + i - 1]
        BY <4>1, <4>2, SubSeqProperties DEF Texts
      <4>5. Len(SubSeq(t, lo, hi)) = size - 1
        BY <4>1, <4>4
      <4>6. \A i \in 1 .. size - 1 : SubSeq(t, lo, hi)[i] = t[start + 1 + i]
        BY <4>1, <4>4
      <4> QED BY <1>6, <3>0, <4>0, <4>3, <4>5, <4>6
    <3>4. ASSUME NEW i \in 1 .. size - 1 PROVE call[i] = t[start + 1 + i]
      <4> PICK k : k = start + 2 OBVIOUS
      <4>1. k \in Nat /\ 1 <= k /\ k <= Len(t) + 1 /\ i \in 1 .. Len(t) - k + 1 /\ k + i - 1 = start + 1 + i
        BY <1>1, <1>3, <1>4, <1>5, <1>9
      <4>2. From(t, k)[i] = t[k + i - 1]
        BY <1>1, <4>1, FromTyped
      <4> QED BY <1>0, <4>1, <4>2
    <3>5. x = y
      BY <3>2, <3>3, <3>4, Equal
    <3> QED BY <3>0, <3>5
  <2>6. SubSeq(t, 1, start - 1) = InFront(OPEN_TOOL, t)
    BY <1>0, <1>3 DEF InFront
  <2>7. Proper(t) <=> WellFormed(body)
    BY <1>0, <1>3, <1>4, <1>5, <1>9, <2>5 DEF Proper
  <2>8. Find(CLOSE_TOOL, Behind(OPEN_TOOL, t)) # 0
    BY <1>0, <1>4, <1>9
  <2> QED BY <1>0, <2>1, <2>2, <2>3, <2>4, <2>6, <2>7, <2>8 DEF TakesOut
<1> QED
  BY <1>8, <1>9

CallTurns(F, s, N) == F[0] = s /\ \A n \in 1 .. N : F[n] = NextCall(F[n - 1])

Done(s) == NextCall(s) = s

(* The loop before its first turn. *)
Entering(t) == [text |-> <<>>, calls |-> 0, remaining |-> t, left |-> FALSE]

(* A turn that is not the last leaves less. *)
LEMMA CallAdvances ==
  ASSUME NEW s \in Calls
  PROVE  /\ NextCall(s) \in Calls
         /\ Done(s) \/ Done(NextCall(s)) \/ Len(NextCall(s).remaining) < Len(s.remaining)
<1> PICK r : r = NextCall(s) OBVIOUS
<1>1. r \in Calls
  BY NextCallTyped
<1>2. CASE s.left \/ Find(OPEN_TOOL, s.remaining) = 0
  <2>1. NextCall(s) = s
    BY <1>2 DEF NextCall
  <2> QED BY <1>1, <2>1 DEF Done
<1>3. CASE ~(s.left \/ Find(OPEN_TOOL, s.remaining) = 0)
  <2>0. OPEN_TOOL \in Texts /\ Len(OPEN_TOOL) > 0 /\ s.remaining \in Texts /\ s.left \in BOOLEAN
    BY Markers DEF Calls
  <2>1. ~s.left /\ Find(OPEN_TOOL, s.remaining) > 0
    <3>1. Find(OPEN_TOOL, s.remaining) \in 0 .. Len(s.remaining)
      BY <2>0, Found
    <3> QED BY <1>3, <3>1, <2>0 DEF Texts
  <2>2. TakesOut(s, r)
    BY <2>1, CallTaken
  <2>3. r.left \/ Len(r.remaining) < Len(s.remaining)
    BY <2>2 DEF TakesOut
  <2>4. r.left => NextCall(r) = r
    BY DEF NextCall
  <2> QED BY <1>1, <2>3, <2>4 DEF Done
<1> QED
  BY <1>2, <1>3

(* The loop is its turns, and is over. *)
LEMMA CallLoop ==
  ASSUME NEW t \in Texts
  PROVE  /\ Entering(t) \in Calls /\ Len(t) \in Nat
         /\ \E F \in [0 .. Len(t) -> Calls] :
              /\ CallTurns(F, Entering(t), Len(t))
              /\ Outside(t) = F[Len(t)].text \o F[Len(t)].remaining
              /\ Done(F[Len(t)])
<1> DEFINE N == Len(t)
           x == Entering(t)
           step == [n \in 1 .. N |-> [s \in Calls |-> NextCall(s)]]
           IsTurn(f) == f = [n \in 0 .. N |->
                               IF n = 0 THEN [text |-> <<>>, calls |-> 0, remaining |-> t, left |-> FALSE]
                               ELSE NextCall(f[n - 1])]
           turn == CHOOSE f : IsTurn(f)
<1>1. N \in Nat /\ x \in Calls
  BY DEF Texts, Calls, Entering
<1>2. step \in [1 .. N -> [Calls -> Calls]]
  BY NextCallTyped
<1>3. PICK f \in [0 .. N -> Calls] : Iterates(f, x, step, N)
  <2> HIDE DEF N, x, step
  <2> QED BY <1>1, <1>2, IterationExists
<1>4. IsTurn(f)
  <2>1. ASSUME NEW n \in 0 .. N
        PROVE f[n] = IF n = 0 THEN [text |-> <<>>, calls |-> 0, remaining |-> t, left |-> FALSE]
                     ELSE NextCall(f[n - 1])
    <3>1. CASE n = 0
      BY <1>3, <3>1 DEF Iterates, Entering
    <3>2. CASE n # 0
      <4>1. n \in 1 .. N /\ n - 1 \in 0 .. N
        BY <1>1, <3>2
      <4>2. f[n] = step[n][f[n - 1]] /\ f[n - 1] \in Calls
        BY <1>3, <4>1 DEF Iterates
      <4> QED BY <4>1, <4>2, <3>2
    <3> QED BY <3>1, <3>2
  <2> HIDE DEF N, x, step
  <2> QED BY <2>1, <1>3
<1>5. IsTurn(turn)
  <2> HIDE DEF IsTurn
  <2> QED BY <1>4
<1>6. turn = [n \in 0 .. N |-> IF n = 0 THEN x ELSE NextCall(turn[n - 1])]
  <2> HIDE DEF turn
  <2> QED BY <1>5 DEF Entering
<1>7. Outside(t) = turn[N].text \o turn[N].remaining
  <2>1. ToolCalls(t) = [text |-> turn[N].text \o turn[N].remaining, calls |-> turn[N].calls]
    BY DEF ToolCalls
  <2> HIDE DEF turn, N, step, IsTurn
  <2>0. PICK a, b : a = turn[N].text \o turn[N].remaining /\ b = turn[N].calls OBVIOUS
  <2>2. ToolCalls(t) = [text |-> a, calls |-> b]
    BY <2>0, <2>1
  <2>3. ToolCalls(t).text = a
    BY <2>2
  <2> QED BY <2>0, <2>3 DEF Outside
<1> HIDE DEF turn, N, x
<1> DEFINE P == {n \in 0 .. N : /\ turn[n] \in Calls
                                /\ Done(turn[n]) \/ Len(turn[n].remaining) + n <= N}
<1>8. 0 \in P
  <2>1. 0 \in 0 .. N /\ turn[0] = x /\ x.remaining = t
    BY <1>1, <1>6 DEF x, Entering
  <2> QED BY <1>1, <2>1 DEF N
<1>9. ASSUME NEW n \in 1 .. N, n - 1 \in P PROVE n \in P
  <2>1. n \in 0 .. N /\ n # 0 /\ n \in Nat
    BY <1>1
  <2> DEFINE q == turn[n - 1]
             r == turn[n]
  <2>2. r = NextCall(q)
    BY <1>6, <2>1
  <2>3. q \in Calls /\ (Done(q) \/ Len(q.remaining) + (n - 1) <= N)
    BY <1>9
  <2> HIDE DEF q, r
  <2>4. r \in Calls /\ (Done(q) \/ Done(r) \/ Len(r.remaining) < Len(q.remaining))
    BY <2>2, <2>3, CallAdvances
  <2>5. Len(r.remaining) \in Nat /\ Len(q.remaining) \in Nat
    BY <2>3, <2>4 DEF Calls, Texts
  <2>6. Done(q) => Done(r)
    BY <2>2 DEF Done
  <2>7. Done(r) \/ Len(r.remaining) + n <= N
    BY <1>1, <2>1, <2>3, <2>4, <2>5, <2>6
  <2> QED BY <2>1, <2>4, <2>7 DEF r
<1>10. \A n \in 0 .. N : n \in P
  <2> HIDE DEF P
  <2> QED BY <1>1, <1>8, <1>9, UpTo
<1>11. turn[N] \in Calls /\ (Done(turn[N]) \/ Len(turn[N].remaining) + N <= N)
  <2>1. N \in 0 .. N
    BY <1>1
  <2> QED BY <1>10, <2>1
<1>12. Done(turn[N])
  <2>1. PICK u : u = turn[N] OBVIOUS
  <2>2. CASE Len(u.remaining) + N <= N
    <3>1. u.remaining \in Texts /\ Len(u.remaining) \in Nat
      BY <1>11, <2>1 DEF Calls, Texts
    <3>2. u.remaining = <<>>
      BY <1>1, <2>2, <3>1, EmptySeq DEF Texts
    <3>3. Find(OPEN_TOOL, <<>>) = 0
      BY Markers, PartedNothing
    <3>4. NextCall(u) = u
      BY <3>2, <3>3 DEF NextCall
    <3> QED BY <2>1, <3>4 DEF Done
  <2> QED BY <1>11, <2>1, <2>2
<1>13. turn \in [0 .. N -> Calls]
  <2> PICK g : g = turn OBVIOUS
  <2>1. g = [n \in 0 .. N |-> g[n]] /\ \A n \in 0 .. N : g[n] \in Calls
    BY <1>6, <1>10
  <2>2. g \in [0 .. N -> Calls]
    BY <2>1
  <2> QED BY <2>2
<1>14. CallTurns(turn, x, N)
  <2>1. ASSUME NEW n \in 1 .. N PROVE turn[n] = NextCall(turn[n - 1])
    <3>1. n \in 0 .. N /\ n # 0
      BY <1>1
    <3> QED BY <1>6, <3>1
  <2>2. 0 \in 0 .. N
    BY <1>1
  <2> QED BY <1>6, <2>1, <2>2 DEF CallTurns
<1> QED
  BY <1>1, <1>7, <1>12, <1>13, <1>14 DEF N, x

(* The same of the answer remains, and `pre` more of it was kept. *)
Same(pre, a, b) ==
  /\ a \in Calls /\ b \in Calls
  /\ a.text = pre \o b.text /\ a.remaining = b.remaining /\ a.left = b.left

(* The loop then keeps as much more. *)
LEMMA SameTurn ==
  ASSUME NEW pre \in Texts, NEW a, NEW b, Same(pre, a, b)
  PROVE  Same(pre, NextCall(a), NextCall(b))
<1>1. a \in Calls /\ b \in Calls /\ NextCall(a) \in Calls /\ NextCall(b) \in Calls
  BY NextCallTyped DEF Same
<1>2. a.remaining = b.remaining /\ a.left = b.left /\ a.text = pre \o b.text
  BY DEF Same
<1>3. CASE a.left \/ Find(OPEN_TOOL, a.remaining) = 0
  <2>1. NextCall(a) = a /\ NextCall(b) = b
    BY <1>2, <1>3 DEF NextCall
  <2> QED BY <2>1
<1>4. CASE ~(a.left \/ Find(OPEN_TOOL, a.remaining) = 0)
  <2> DEFINE t == a.remaining
             start == Find(OPEN_TOOL, t)
             size  == Find(CLOSE_TOOL, From(t, start + Len(OPEN_TOOL)))
             body  == SubSeq(t, start + Len(OPEN_TOOL), start + Len(OPEN_TOOL) + size - 2)
             last  == start + Len(OPEN_TOOL) + size + Len(CLOSE_TOOL) - 2
             kept  == IF size = 0 THEN t ELSE IF WellFormed(body) THEN SubSeq(t, 1, start - 1)
                                                                  ELSE SubSeq(t, 1, last)
             rest  == IF size = 0 THEN t ELSE From(t, last + 1)
             over  == size = 0
  <2>1. ASSUME NEW s \in Calls, s.remaining = t, s.left = a.left
        PROVE  /\ NextCall(s).text = s.text \o kept /\ NextCall(s).remaining = rest
               /\ NextCall(s).left = (over \/ s.left)
    <3>1. NextCall(s) =
            IF size = 0 THEN [s EXCEPT !.text = @ \o s.remaining, !.left = TRUE]
            ELSE IF WellFormed(body)
            THEN [s EXCEPT !.text = @ \o SubSeq(s.remaining, 1, start - 1), !.calls = @ + 1,
                           !.remaining = From(@, last + 1)]
            ELSE [s EXCEPT !.text = @ \o SubSeq(s.remaining, 1, last),
                           !.remaining = From(@, last + 1)]
      BY <1>4, <2>1 DEF NextCall
    <3> PICK sz, lst, w, beg : sz = size /\ lst = last /\ w = WellFormed(body) /\ beg = start - 1
      OBVIOUS
    <3>2. NextCall(s) =
            IF sz = 0 THEN [s EXCEPT !.text = @ \o t, !.left = TRUE]
            ELSE IF w
            THEN [s EXCEPT !.text = @ \o SubSeq(t, 1, beg), !.calls = @ + 1,
                           !.remaining = From(t, lst + 1)]
            ELSE [s EXCEPT !.text = @ \o SubSeq(t, 1, lst),
                           !.remaining = From(t, lst + 1)]
      BY <2>1, <3>1
    <3>3. kept = (IF sz = 0 THEN t ELSE IF w THEN SubSeq(t, 1, beg) ELSE SubSeq(t, 1, lst))
          /\ rest = (IF sz = 0 THEN t ELSE From(t, lst + 1)) /\ (over <=> sz = 0)
      OBVIOUS
    <3>4. s.left \in BOOLEAN
      BY DEF Calls
    <3> HIDE DEF kept, rest, over, t, size, body, last, start
    <3>5. CASE sz = 0
      BY <2>1, <3>2, <3>3, <3>4, <3>5 DEF Calls
    <3>6. CASE sz # 0 /\ w
      BY <2>1, <3>2, <3>3, <3>4, <3>6 DEF Calls
    <3>7. CASE sz # 0 /\ ~w
      BY <2>1, <3>2, <3>3, <3>4, <3>7 DEF Calls
    <3> QED BY <3>5, <3>6, <3>7
  <2> HIDE DEF kept, rest, over
  <2>2. /\ NextCall(a).text = a.text \o kept /\ NextCall(b).text = b.text \o kept
        /\ NextCall(a).remaining = rest /\ NextCall(b).remaining = rest
        /\ NextCall(a).left = NextCall(b).left
    BY <1>1, <1>2, <2>1
  <2>3. kept \in Texts
    <3>1. TakesOut(a, NextCall(a)) \/ TRUE
      OBVIOUS
    <3>2. OPEN_TOOL \in Texts /\ Len(OPEN_TOOL) = 2 /\ Len(OPEN_TOOL) > 0
          /\ CLOSE_TOOL \in Texts /\ Len(CLOSE_TOOL) = 2 /\ Len(CLOSE_TOOL) > 0
      BY Markers
    <3>3. t \in Texts /\ Len(t) \in Nat
      BY <1>1 DEF Calls, Texts
    <3> HIDE DEF t
    <3>4. start \in 0 .. Len(t) /\ (start > 0 => start + 1 <= Len(t))
      <4>1. Find(OPEN_TOOL, t) \in 0 .. Len(t) /\ (Find(OPEN_TOOL, t) > 0 => Find(OPEN_TOOL, t) + Len(OPEN_TOOL) - 1 <= Len(t))
        BY <3>2, <3>3, Found
      <4> QED BY <3>2, <3>3, <4>1
    <3>5. start > 0
      BY <1>4, <3>3, <3>4 DEF t
    <3>6. PICK st : st = start
      OBVIOUS
    <3>7. From(t, st + 2) \in Texts /\ Len(From(t, st + 2)) = Len(t) - st - 1
      <4> PICK k : k = st + 2 OBVIOUS
      <4>1. k \in Nat /\ 1 <= k /\ k <= Len(t) + 1 /\ Len(t) - k + 1 = Len(t) - st - 1
        BY <3>3, <3>4, <3>5, <3>6
      <4>2. From(t, k) \in Texts /\ Len(From(t, k)) = Len(t) - k + 1
        BY <3>3, <4>1, FromTyped
      <4> QED BY <4>1, <4>2
    <3>8. PICK sz, c : c = From(t, st + 2) /\ sz = Find(CLOSE_TOOL, c)
      OBVIOUS
    <3>9. sz \in 0 .. Len(c) /\ (sz > 0 => sz + 1 <= Len(c)) /\ size = sz
      <4>1. sz \in 0 .. Len(c) /\ (sz > 0 => sz + Len(CLOSE_TOOL) - 1 <= Len(c))
        BY <3>2, <3>7, <3>8, Found
      <4>2. size = sz
        BY <3>2, <3>6, <3>8
      <4>3. Len(CLOSE_TOOL) = 2 /\ Len(c) \in Nat
        BY <3>2, <3>7, <3>8 DEF Texts
      <4> QED BY ONLY <4>1, <4>2, <4>3
    <3>10. start - 1 \in 0 .. Len(t) /\ (size # 0 => last \in 0 .. Len(t))
      <4>1. start = st /\ size = sz /\ last = st + 2 + sz + 2 - 2
        BY <3>2, <3>6, <3>9
      <4>2. st \in Nat /\ st > 0 /\ st + 1 <= Len(t) /\ Len(t) \in Nat
        BY <3>3, <3>4, <3>5, <3>6
      <4>3. sz \in 0 .. Len(c) /\ (sz > 0 => sz + 1 <= Len(c)) /\ Len(c) = Len(t) - st - 1
        BY <3>7, <3>8, <3>9
      <4> HIDE DEF start, size, last
      <4> QED BY ONLY <4>1, <4>2, <4>3
    <3> HIDE DEF start, size, body, last
    <3>11. SubSeq(t, 1, start - 1) \in Texts
      <4> PICK j : j = start - 1 OBVIOUS
      <4> QED BY <3>3, <3>10, BeginningOf DEF Texts
    <3>12. size # 0 => SubSeq(t, 1, last) \in Texts
      <4> PICK j : j = last OBVIOUS
      <4> QED BY <3>3, <3>10, BeginningOf DEF Texts
    <3> QED BY <3>3, <3>11, <3>12 DEF kept
  <2>4. (pre \o b.text) \o kept = pre \o (b.text \o kept)
    <3> PICK u : u = b.text OBVIOUS
    <3>1. u \in Texts
      BY <1>1 DEF Calls
    <3>2. Reassociates(pre, u, kept)
      BY <2>3, <3>1, Associative DEF Texts
    <3> QED BY <3>2 DEF Reassociates
  <2> QED BY <1>1, <1>2, <2>2, <2>4 DEF Same
<1> QED
  BY <1>3, <1>4

(* However many turns are taken until it is over. *)
LEMMA SameLoop ==
  ASSUME NEW pre \in Texts, NEW a, NEW b, Same(pre, a, b),
         NEW n \in Nat, NEW F, CallTurns(F, a, n), Done(F[n]),
         NEW m \in Nat, NEW G, CallTurns(G, b, m), Done(G[m])
  PROVE  Same(pre, F[n], G[m])
<1> DEFINE P == {i \in 0 .. n + m :
                   /\ i <= n /\ i <= m => Same(pre, F[i], G[i])
                   /\ i >= n /\ i <= m => Same(pre, F[n], G[i])
                   /\ i <= n /\ i >= m => Same(pre, F[i], G[m])}
<1>1. 0 \in P
  <2>1. F[0] = a /\ G[0] = b /\ 0 \in 0 .. n + m
    BY DEF CallTurns
  <2>2. n <= 0 => n = 0
    OBVIOUS
  <2>3. m <= 0 => m = 0
    OBVIOUS
  <2> QED BY <2>1, <2>2, <2>3
<1>2. ASSUME NEW i \in 1 .. n + m, i - 1 \in P PROVE i \in P
  <2>0. i \in 0 .. n + m /\ i - 1 \in 0 .. n + m
    OBVIOUS
  <2>1. i <= n => F[i] = NextCall(F[i - 1])
    <3>1. i <= n => i \in 1 .. n
      OBVIOUS
    <3> QED BY <3>1 DEF CallTurns
  <2>2. i <= m => G[i] = NextCall(G[i - 1])
    <3>1. i <= m => i \in 1 .. m
      OBVIOUS
    <3> QED BY <3>1 DEF CallTurns
  <2>3. ASSUME i <= n, i <= m PROVE Same(pre, F[i], G[i])
    <3>1. Same(pre, F[i - 1], G[i - 1])
      BY <1>2, <2>0, <2>3
    <3> QED BY <2>1, <2>2, <2>3, <3>1, SameTurn
  <2>4. ASSUME i >= n, i <= m PROVE Same(pre, F[n], G[i])
    <3>1. CASE i = n
      BY <2>3, <2>4, <3>1
    <3>2. CASE i # n
      <4>1. i - 1 >= n /\ i - 1 <= m
        BY <2>4, <3>2
      <4>2. Same(pre, F[n], G[i - 1])
        BY <1>2, <4>1
      <4>3. Same(pre, NextCall(F[n]), NextCall(G[i - 1]))
        BY <4>2, SameTurn
      <4> QED BY <2>2, <2>4, <4>3 DEF Done
    <3> QED BY <3>1, <3>2
  <2>5. ASSUME i <= n, i >= m PROVE Same(pre, F[i], G[m])
    <3>1. CASE i = m
      BY <2>3, <2>5, <3>1
    <3>2. CASE i # m
      <4>1. i - 1 >= m /\ i - 1 <= n
        BY <2>5, <3>2
      <4>2. Same(pre, F[i - 1], G[m])
        BY <1>2, <4>1
      <4>3. Same(pre, NextCall(F[i - 1]), NextCall(G[m]))
        BY <4>2, SameTurn
      <4> QED BY <2>1, <2>5, <4>3 DEF Done
    <3> QED BY <3>1, <3>2
  <2> QED BY <2>0, <2>3, <2>4, <2>5
<1>3. \A i \in 0 .. n + m : i \in P
  <2>1. n + m \in Nat
    OBVIOUS
  <2> HIDE DEF P
  <2> QED BY <1>1, <1>2, <2>1, UpTo
<1>4. CASE n <= m
  <2>1. m \in 0 .. n + m /\ m >= n /\ m <= m
    BY <1>4
  <2> QED BY <1>3, <2>1
<1>5. CASE m <= n
  <2>1. n \in 0 .. n + m /\ n >= m /\ n <= n
    BY <1>5
  <2> QED BY <1>3, <2>1
<1> QED
  BY <1>4, <1>5

(* Without a call nothing is taken out. *)
LEMMA NoCalls ==
  ASSUME NEW t \in Texts, Find(OPEN_TOOL, t) = 0
  PROVE  Outside(t) = t
<1> PICK x, n : x = Entering(t) /\ n = Len(t) OBVIOUS
<1>1. PICK F \in [0 .. n -> Calls] :
        /\ CallTurns(F, x, n) /\ Outside(t) = F[n].text \o F[n].remaining /\ Done(F[n])
  BY CallLoop
<1>2. x \in Calls /\ n \in Nat /\ x.remaining = t /\ x.text = <<>>
  BY CallLoop DEF Entering
<1>3. NextCall(x) = x
  BY <1>2 DEF NextCall
<1> PICK pre : pre = <<>> OBVIOUS
<1>4. pre \in Texts /\ pre \o <<>> = <<>> /\ pre \o t = t
  <2>1. <<>> \in Seq(Letter) /\ t \in Seq(Letter)
    BY DEF Texts
  <2> QED BY <2>1, ConcatEmptySeq DEF Texts
<1>5. Same(pre, x, x)
  BY <1>2, <1>4 DEF Same
<1> DEFINE G == [i \in 0 .. 0 |-> x]
<1>6. CallTurns(G, x, 0) /\ Done(G[0]) /\ G[0] = x
  BY <1>3 DEF CallTurns, Done
<1> HIDE DEF G
<1>7. Same(pre, F[n], G[0])
  <2> PICK m : m = 0 OBVIOUS
  <2>1. m \in Nat /\ CallTurns(G, x, m) /\ Done(G[m])
    BY <1>6
  <2> QED BY <1>1, <1>2, <1>4, <1>5, <2>1, SameLoop
<1>8. F[n].text = <<>> /\ F[n].remaining = t
  BY <1>2, <1>4, <1>6, <1>7 DEF Same
<1> QED
  BY <1>1, <1>4, <1>8

(* The first call, and then those behind it. *)
LEMMA FirstCall ==
  ASSUME NEW t \in Texts, Find(OPEN_TOOL, t) > 0
  PROVE  /\ Find(CLOSE_TOOL, Behind(OPEN_TOOL, t)) = 0 => Outside(t) = t \o t
         /\ Find(CLOSE_TOOL, Behind(OPEN_TOOL, t)) # 0 =>
              IF Proper(t) THEN Outside(t) = InFront(OPEN_TOOL, t) \o Outside(Rest(t))
              ELSE \E last \in 1 .. Len(t) :
                     /\ Find(OPEN_TOOL, t) < last
                     /\ Outside(t) = SubSeq(t, 1, last) \o Outside(Rest(t))
<1> PICK x, n : x = Entering(t) /\ n = Len(t) OBVIOUS
<1>1. PICK F \in [0 .. n -> Calls] :
        /\ CallTurns(F, x, n) /\ Outside(t) = F[n].text \o F[n].remaining /\ Done(F[n])
  BY CallLoop
<1>2. x \in Calls /\ n \in Nat /\ x.remaining = t /\ x.text = <<>> /\ ~x.left
  BY CallLoop DEF Entering
<1> PICK r : r = NextCall(x) OBVIOUS
<1>3. TakesOut(x, r) /\ r \in Calls
  BY <1>2, CallTaken, NextCallTyped
<1>4. n >= 1
  <2>0. OPEN_TOOL \in Texts /\ Len(OPEN_TOOL) > 0
    BY Markers
  <2>1. Find(OPEN_TOOL, t) \in 0 .. Len(t)
    BY <2>0, Found
  <2> QED BY <1>2, <2>1
<1>5. ASSUME NEW s \in Texts PROVE <<>> \o s = s
  <2>1. s \in Seq(Letter)
    BY DEF Texts
  <2> QED BY <2>1, ConcatEmptySeq
(* The turns behind the first. *)
<1> DEFINE H == [i \in 0 .. n - 1 |-> F[i + 1]]
<1>6. CallTurns(H, r, n - 1) /\ Done(H[n - 1]) /\ H[n - 1] = F[n] /\ n - 1 \in Nat
  <2>1. 0 \in 0 .. n - 1 /\ n - 1 \in 0 .. n - 1 /\ n - 1 + 1 = n /\ 1 \in 1 .. n /\ n - 1 \in Nat
    BY <1>2, <1>4
  <2>2. F[1] = r
    BY <1>1, <2>1 DEF CallTurns
  <2>3. H[0] = r /\ H[n - 1] = F[n]
    BY <2>1, <2>2
  <2>4. ASSUME NEW i \in 1 .. n - 1 PROVE H[i] = NextCall(H[i - 1])
    <3>1. i \in 0 .. n - 1 /\ i - 1 \in 0 .. n - 1 /\ i + 1 \in 1 .. n /\ i - 1 + 1 = i /\ i + 1 - 1 = i
      BY <1>2
    <3>2. F[i + 1] = NextCall(F[i + 1 - 1])
      BY <1>1, <3>1 DEF CallTurns
    <3> QED BY <3>1, <3>2
  <2> HIDE DEF H
  <2> QED BY <1>1, <2>1, <2>3, <2>4 DEF CallTurns
<1> HIDE DEF H
<1>7. CASE Find(CLOSE_TOOL, Behind(OPEN_TOOL, t)) = 0
  <2>1. r.text = t /\ r.remaining = t /\ r.left
    BY <1>2, <1>3, <1>5, <1>7 DEF TakesOut
  <2>2. NextCall(r) = r
    BY <2>1 DEF NextCall
  <2> PICK pre : pre = <<>> OBVIOUS
  <2>3. pre \in Texts
    BY DEF Texts
  <2>4. Same(pre, r, r)
    <3>1. pre \o r.text = r.text
      BY <1>5, <2>1
    <3> QED BY <1>3, <3>1 DEF Same
  <2> DEFINE G == [i \in 0 .. 0 |-> r]
  <2>5. CallTurns(G, r, 0) /\ Done(G[0]) /\ G[0] = r
    BY <2>2 DEF CallTurns, Done
  <2> HIDE DEF G
  <2>6. Same(pre, H[n - 1], G[0])
    <3> PICK m, k : m = 0 /\ k = n - 1 OBVIOUS
    <3>1. m \in Nat /\ CallTurns(G, r, m) /\ Done(G[m]) /\ k \in Nat /\ CallTurns(H, r, k) /\ Done(H[k])
      BY <1>6, <2>5
    <3>2. Same(pre, H[k], G[m])
      BY <2>3, <2>4, <3>1, SameLoop
    <3> QED BY <3>2
  <2>7. F[n].text = t /\ F[n].remaining = t
    BY <1>5, <1>6, <2>1, <2>5, <2>6 DEF Same
  <2> QED BY <1>1, <1>7, <2>7
<1>8. CASE Find(CLOSE_TOOL, Behind(OPEN_TOOL, t)) # 0
  <2> PICK rest, y, m : rest = Rest(t) /\ y = Entering(rest) /\ m = Len(rest) OBVIOUS
  <2>1. r.remaining = rest /\ ~r.left /\ r.text \in Texts /\ rest \in Texts /\ r.left \in BOOLEAN
    BY <1>2, <1>3, <1>8 DEF TakesOut, Calls
  <2>2. PICK G \in [0 .. m -> Calls] :
          /\ CallTurns(G, y, m) /\ Outside(rest) = G[m].text \o G[m].remaining /\ Done(G[m])
    BY <2>1, CallLoop
  <2>3. y \in Calls /\ m \in Nat /\ y.remaining = rest /\ y.text = <<>> /\ y.left = FALSE
    BY <2>1, CallLoop DEF Entering
  <2>4. Same(r.text, r, y)
    <3> PICK u : u = r.text OBVIOUS
    <3>1. u \o <<>> = u
      BY <2>1, ConcatEmptySeq DEF Texts
    <3> QED BY <1>3, <2>1, <2>3, <3>1 DEF Same
  <2>5. Same(r.text, H[n - 1], G[m])
    <3> PICK k, u : k = n - 1 /\ u = r.text OBVIOUS
    <3>1. k \in Nat /\ CallTurns(H, r, k) /\ Done(H[k]) /\ u \in Texts /\ Same(u, r, y)
      BY <1>6, <2>1, <2>4
    <3>2. Same(u, H[k], G[m])
      BY <2>2, <2>3, <3>1, SameLoop
    <3> QED BY <3>2
  <2>6. Outside(t) = r.text \o Outside(rest)
    <3> PICK u, a, b : u = r.text /\ a = G[m].text /\ b = G[m].remaining OBVIOUS
    <3>1. a \in Texts /\ b \in Texts
      BY <2>5 DEF Same, Calls
    <3>2. Reassociates(u, a, b)
      BY <2>1, <3>1, Associative DEF Texts
    <3>3. F[n].text = u \o a /\ F[n].remaining = b
      BY <1>6, <2>5 DEF Same
    <3> QED BY Zenon, <1>1, <2>2, <3>2, <3>3 DEF Reassociates
  <2>7. CASE Proper(t)
    <3>1. r.text = <<>> \o InFront(OPEN_TOOL, t)
      BY <1>2, <1>3, <1>8, <2>7 DEF TakesOut
    <3>0. OPEN_TOOL \in Texts /\ Len(OPEN_TOOL) > 0
      BY Markers
    <3>2. InFront(OPEN_TOOL, t) \in Texts
      BY <3>0, PartedTyped
    <3> QED BY <1>5, <1>8, <2>6, <2>7, <3>1, <3>2
  <2>8. CASE ~Proper(t)
    <3>1. PICK last \in 1 .. Len(t) : Find(OPEN_TOOL, t) < last /\ r.text = <<>> \o SubSeq(t, 1, last)
      BY <1>2, <1>3, <1>8, <2>8 DEF TakesOut
    <3>2. SubSeq(t, 1, last) \in Texts
      <4>1. last \in 0 .. Len(t)
        OBVIOUS
      <4> QED BY <4>1, BeginningOf DEF Texts
    <3>3. Outside(t) = SubSeq(t, 1, last) \o Outside(Rest(t))
      BY <1>5, <2>6, <3>1, <3>2
    <3> QED BY <1>8, <2>8, <3>1, <3>3
  <2> QED BY <2>7, <2>8
<1> QED
  BY <1>7, <1>8

(* An answer none of whose calls were left in it. *)
Kept(t) == Occurrences(OPEN_TOOL, Outside(t)) = {}

(* What is kept of an answer is a text. *)
LEMMA OutsideTyped ==
  ASSUME NEW t \in Texts
  PROVE  Outside(t) \in Texts
BY ToolCallsTyped DEF Outside

(* A marker in a text is in the longer one. *)
LEMMA MarkerInPart ==
  ASSUME NEW marker \in Texts, Len(marker) > 0, NEW u \in Texts, NEW v \in Texts,
         Occurrences(marker, u \o v) = {}
  PROVE  Occurrences(marker, u) = {} /\ Occurrences(marker, v) = {}
<1>0. PICK w : w = u \o v OBVIOUS
<1>1. /\ w \in Texts /\ Len(w) = Len(u) + Len(v) /\ Len(u) \in Nat /\ Len(v) \in Nat
      /\ Len(marker) \in Nat
      /\ \A i \in 1 .. Len(u) : w[i] = u[i]
  BY <1>0, ConcatText DEF Texts
<1>2. ASSUME NEW i \in Occurrences(marker, u) PROVE FALSE
  <2>1. i \in 1 .. Len(u)
    BY DEF Occurrences, Texts
  <2>2. Starts(marker, u, i) /\ i + Len(marker) - 1 <= Len(u)
    BY <2>1, OccursAt
  <2>3. Starts(marker, w, i)
    <3>1. ASSUME NEW j \in 1 .. Len(marker) PROVE w[i + j - 1] = marker[j]
      <4>0. PICK k : k = i + j - 1 OBVIOUS
      <4>1. k \in 1 .. Len(u) /\ k <= Len(u)
        BY <4>0, <1>1, <2>1, <2>2
      <4>2. u[k] = marker[j]
        BY <4>0, <4>1, <2>2 DEF Starts
      <4> QED BY <4>0, <4>1, <4>2, <1>1
    <3> QED BY <3>1 DEF Starts
  <2>4. i \in 1 .. Len(w) /\ i + Len(marker) - 1 <= Len(w)
    BY <1>1, <2>1, <2>2
  <2>5. i \in Occurrences(marker, w)
    BY <1>1, <2>3, <2>4, OccursAt
  <2> QED BY <1>0, <2>5
<1>3. From(w, Len(u) + 1) = v
  <2> PICK n : n = Len(u) OBVIOUS
  <2>1. From(u \o v, n + 1) = From(u, n + 1) \o v
    <3>1. n \in 0 .. Len(u)
      BY <1>1
    <3> QED BY <3>1, CutBefore DEF CutsLonger
  <2>2. From(u, n + 1) = <<>>
    BY <1>1 DEF From, Texts
  <2>3. <<>> \o v = v
    BY ConcatEmptySeq DEF Texts
  <2> QED BY <1>0, <2>1, <2>2, <2>3
<1>4. ASSUME NEW i \in Occurrences(marker, v) PROVE FALSE
  <2>1. i \in 1 .. Len(v)
    BY DEF Occurrences, Texts
  <2> PICK n : n = Len(u) OBVIOUS
  <2>2. n \in 0 .. Len(w) /\ i \in 1 .. Len(w) - n
    BY <1>1, <2>1
  <2>3. i \in Occurrences(marker, From(w, n + 1)) <=> n + i \in Occurrences(marker, w)
    BY <1>1, <2>2, OccursShifted
  <2> QED BY <1>0, <1>3, <2>3
<1> QED
  BY <1>2, <1>4

(* A marker in front. *)
LEMMA AtFront ==
  ASSUME NEW marker \in Texts, Len(marker) > 0, NEW t \in Texts, IsPrefix(marker, t)
  PROVE  /\ Find(marker, t) = 1 /\ InFront(marker, t) = <<>>
         /\ Behind(marker, t) = From(t, Len(marker) + 1)
<1>1. Len(t) \in Nat /\ Len(marker) \in Nat /\ Len(marker) <= Len(t)
      /\ \A i \in 1 .. Len(marker) : marker[i] = t[i]
  BY PrefixText DEF Texts
<1>2. 1 \in Occurrences(marker, t)
  <2> PICK i : i = 1 OBVIOUS
  <2>1. i \in 1 .. Len(t) /\ i + Len(marker) - 1 <= Len(t)
    BY <1>1
  <2>2. Starts(marker, t, i)
    <3>1. ASSUME NEW j \in 1 .. Len(marker) PROVE t[i + j - 1] = marker[j]
      <4>1. i + j - 1 = j
        BY <1>1
      <4> QED BY <1>1, <4>1
    <3> QED BY <3>1 DEF Starts
  <2> QED BY <2>1, <2>2, OccursAt
<1>3. ASSUME NEW j \in Occurrences(marker, t) PROVE 1 <= j
  <2>1. j \in 1 .. Len(t)
    BY DEF Occurrences, Texts
  <2> QED BY <1>1, <2>1
<1>4. Find(marker, t) = 1
  <2> PICK i : i = 1 OBVIOUS
  <2>1. i \in Occurrences(marker, t) /\ \A j \in Occurrences(marker, t) : i <= j
    BY <1>2, <1>3
  <2>2. Find(marker, t) = i
    BY <2>1, FoundAt
  <2> QED BY <2>2
<1>5. SubSeq(t, 1, 0) = <<>>
  BY SubSeqEmpty DEF Texts
<1>6. InFront(marker, t) = SubSeq(t, 1, 0)
  BY <1>4 DEF InFront
<1>7. Behind(marker, t) = From(t, Len(marker) + 1)
  <2>1. 1 + Len(marker) = Len(marker) + 1
    BY <1>1
  <2> QED BY <1>4, <2>1 DEF Behind
<1> QED
  BY <1>4, <1>5, <1>6, <1>7

(* The answer with the first call taken out. *)
LEMMA OutsideProper ==
  ASSUME NEW t \in Texts, Proper(t)
  PROVE  Outside(t) = InFront(OPEN_TOOL, t) \o Outside(Rest(t)) /\ Rest(t) \in Texts
<1>1. /\ OPEN_TOOL \in Texts /\ Len(OPEN_TOOL) > 0 /\ CLOSE_TOOL \in Texts /\ Len(CLOSE_TOOL) > 0
  BY Markers
<1>2. Rest(t) \in Texts /\ InFront(OPEN_TOOL, t) \in Texts
  <2> PICK c : c = Behind(OPEN_TOOL, t) OBVIOUS
  <2>1. c \in Texts /\ InFront(OPEN_TOOL, t) \in Texts
    BY <1>1, PartedTyped
  <2>2. Behind(CLOSE_TOOL, c) \in Texts
    BY <1>1, <2>1, PartedTyped
  <2> QED BY <2>1, <2>2 DEF Rest
<1>3. CASE Find(OPEN_TOOL, t) = 0
  <2>1. InFront(OPEN_TOOL, t) = t /\ Behind(OPEN_TOOL, t) = <<>>
    BY <1>3 DEF InFront, Behind
  <2>2. Rest(t) = <<>>
    BY <1>1, <2>1, PartedNothing DEF Rest
  <2>3. Outside(Rest(t)) = <<>>
    <3> PICK e : e = Rest(t) OBVIOUS
    <3>1. Find(OPEN_TOOL, e) = 0
      BY <1>1, <2>2, PartedNothing
    <3>2. Outside(e) = e
      BY <1>2, <3>1, NoCalls
    <3> QED BY <2>2, <3>2
  <2>4. Outside(t) = t
    BY <1>3, NoCalls
  <2>5. t \o <<>> = t
    BY ConcatEmptySeq DEF Texts
  <2> QED BY <1>2, <2>1, <2>3, <2>4, <2>5
<1>4. CASE Find(OPEN_TOOL, t) # 0
  <2>1. Find(OPEN_TOOL, t) > 0
    <3>1. Find(OPEN_TOOL, t) \in 0 .. Len(t)
      BY <1>1, Found
    <3> QED BY <1>4, <3>1 DEF Texts
  <2>2. Find(CLOSE_TOOL, Behind(OPEN_TOOL, t)) # 0
    BY <2>1 DEF Proper
  <2>3. Outside(t) = InFront(OPEN_TOOL, t) \o Outside(Rest(t))
    BY <2>1, <2>2, FirstCall
  <2> QED BY <1>2, <2>3
<1> QED
  BY <1>3, <1>4

(* Of an answer that was kept the first call is proper. *)
LEMMA KeptProper ==
  ASSUME NEW t \in Texts, Kept(t)
  PROVE  Proper(t)
<1>1. /\ OPEN_TOOL \in Texts /\ Len(OPEN_TOOL) = 2 /\ Len(OPEN_TOOL) > 0
  BY Markers
<1> PICK start : start = Find(OPEN_TOOL, t) OBVIOUS
<1>2. SUFFICES ASSUME start > 0, ~Proper(t) PROVE FALSE
  BY DEF Proper
<1>3. start \in Occurrences(OPEN_TOOL, t) /\ start \in 1 .. Len(t) /\ start + 1 <= Len(t) /\ Len(t) \in Nat
  <2>1. /\ start \in 0 .. Len(t)
        /\ start > 0 => start \in Occurrences(OPEN_TOOL, t) /\ start + Len(OPEN_TOOL) - 1 <= Len(t)
    BY <1>1, Found
  <2>2. Len(t) \in Nat
    BY DEF Texts
  <2> QED BY <1>1, <1>2, <2>1, <2>2
<1>4. CASE Find(CLOSE_TOOL, Behind(OPEN_TOOL, t)) = 0
  <2>1. Outside(t) = t \o t
    BY <1>2, <1>4, FirstCall
  <2>2. Occurrences(OPEN_TOOL, t \o t) = {}
    BY <2>1 DEF Kept
  <2>3. Occurrences(OPEN_TOOL, t) = {}
    <3> PICK v : v = t OBVIOUS
    <3>1. v \in Texts /\ Occurrences(OPEN_TOOL, t \o v) = {}
      BY <2>2
    <3> QED BY <1>1, <3>1, MarkerInPart
  <2> QED BY <1>3, <2>3
<1>5. CASE Find(CLOSE_TOOL, Behind(OPEN_TOOL, t)) # 0
  <2>1. PICK last \in 1 .. Len(t) : start < last /\ Outside(t) = SubSeq(t, 1, last) \o Outside(Rest(t))
    BY <1>2, <1>5, FirstCall
  <2>2. Rest(t) \in Texts
    <3> PICK c : c = Behind(OPEN_TOOL, t) OBVIOUS
    <3>1. c \in Texts
      BY <1>1, PartedTyped
    <3>2. CLOSE_TOOL \in Texts /\ Len(CLOSE_TOOL) > 0
      BY Markers
    <3>3. Behind(CLOSE_TOOL, c) \in Texts
      BY <3>1, <3>2, PartedTyped
    <3> QED BY <3>3 DEF Rest
  <2>3. Outside(Rest(t)) \in Texts
    BY <2>2, OutsideTyped
  <2> PICK u : u = SubSeq(t, 1, last) OBVIOUS
  <2>4. u \in Texts /\ Len(u) = last /\ \A i \in 1 .. last : u[i] = t[i]
    <3>1. last \in 0 .. Len(t)
      OBVIOUS
    <3> QED BY <3>1, BeginningOf DEF Texts
  <2>5. Occurrences(OPEN_TOOL, u) = {}
    <3> PICK v : v = Outside(Rest(t)) OBVIOUS
    <3>1. Occurrences(OPEN_TOOL, u \o v) = {}
      BY <2>1 DEF Kept
    <3> QED BY <1>1, <2>3, <2>4, <3>1, MarkerInPart
  <2>6. Starts(OPEN_TOOL, t, start)
    BY <1>1, <1>3, OccursAt
  <2>7. Starts(OPEN_TOOL, u, start)
    <3>1. ASSUME NEW j \in 1 .. Len(OPEN_TOOL), start + j - 1 <= Len(u)
          PROVE  u[start + j - 1] = OPEN_TOOL[j]
      <4>0. PICK k : k = start + j - 1 OBVIOUS
      <4>1. k \in 1 .. last /\ k <= Len(t)
        BY <1>1, <1>3, <2>4, <3>1, <4>0
      <4>2. t[k] = OPEN_TOOL[j]
        BY <2>6, <4>0, <4>1 DEF Starts
      <4> QED BY <2>4, <4>0, <4>1, <4>2
    <3> QED BY <3>1 DEF Starts
  <2>8. start \in 1 .. Len(u) /\ start + Len(OPEN_TOOL) - 1 <= Len(u)
    BY <1>1, <1>3, <2>1, <2>4
  <2>9. start \in Occurrences(OPEN_TOOL, u)
    BY <1>1, <2>4, <2>7, <2>8, OccursAt
  <2> QED BY <2>5, <2>9
<1> QED
  BY <1>4, <1>5

(* Letters without the marker in front make no difference to the calls. *)
LEMMA OutsideShifted ==
  ASSUME NEW t \in Texts, Kept(t), NEW n \in 0 .. Len(t), Clear(OPEN_TOOL, t, n)
  PROVE  /\ From(t, n + 1) \in Texts /\ SubSeq(t, 1, n) \in Texts
         /\ Outside(t) = SubSeq(t, 1, n) \o Outside(From(t, n + 1))
         /\ Kept(From(t, n + 1))
<1>1. /\ OPEN_TOOL \in Texts /\ Len(OPEN_TOOL) > 0
  BY Markers
<1> PICK s, a : s = From(t, n + 1) /\ a = SubSeq(t, 1, n) OBVIOUS
<1>2. Takes(OPEN_TOOL, t, n, s)
  BY <1>1, PartedShifted
<1>3. s \in Texts /\ InFront(OPEN_TOOL, t) = a \o InFront(OPEN_TOOL, s) /\ Rest(s) = Rest(t)
  BY <1>2 DEF Takes, Rest
<1>4. a \in Texts
  BY BeginningOf DEF Texts
<1>5. Proper(t)
  BY KeptProper
<1>6. Find(OPEN_TOOL, s) > 0 => Find(OPEN_TOOL, t) > 0
  <2>1. Find(OPEN_TOOL, t) \in 0 .. Len(t)
    BY <1>1, Found
  <2> QED BY <1>2, <2>1 DEF Takes, Texts
<1>7. Proper(s)
  BY <1>2, <1>5, <1>6 DEF Proper, Takes
<1>8. Outside(t) = InFront(OPEN_TOOL, t) \o Outside(Rest(t)) /\ Rest(t) \in Texts
  BY <1>5, OutsideProper
<1>9. Outside(s) = InFront(OPEN_TOOL, s) \o Outside(Rest(s))
  BY <1>3, <1>7, OutsideProper
<1>10. Outside(t) = a \o Outside(s)
  <2> PICK b, c : b = InFront(OPEN_TOOL, s) /\ c = Outside(Rest(t)) OBVIOUS
  <2>1. b \in Texts /\ c \in Texts
    BY <1>1, <1>3, <1>8, PartedTyped, OutsideTyped
  <2>2. Reassociates(a, b, c)
    BY <1>4, <2>1, Associative DEF Texts
  <2> QED BY <1>3, <1>8, <1>9, <2>2 DEF Reassociates
<1>11. Kept(s)
  <2> PICK v : v = Outside(s) OBVIOUS
  <2>1. v \in Texts /\ Occurrences(OPEN_TOOL, a \o v) = {}
    BY <1>3, <1>10, OutsideTyped DEF Kept
  <2>2. Occurrences(OPEN_TOOL, v) = {}
    BY <1>1, <1>4, <2>1, MarkerInPart
  <2> QED BY <2>2 DEF Kept
<1> QED
  BY <1>3, <1>4, <1>10, <1>11

(* A call in front is taken out. *)
LEMMA OutsideCall ==
  ASSUME NEW t \in Texts, Kept(t), IsPrefix(OPEN_TOOL, t),
         NEW c, c = From(t, Len(OPEN_TOOL) + 1)
  PROVE  /\ c \in Texts /\ Find(CLOSE_TOOL, c) > 0
         /\ Behind(CLOSE_TOOL, c) \in Texts
         /\ Outside(t) = Outside(Behind(CLOSE_TOOL, c))
<1>1. /\ OPEN_TOOL \in Texts /\ Len(OPEN_TOOL) > 0
  BY Markers
<1>2. Find(OPEN_TOOL, t) = 1 /\ InFront(OPEN_TOOL, t) = <<>> /\ Behind(OPEN_TOOL, t) = c
  BY <1>1, AtFront
<1>3. Proper(t)
  BY KeptProper
<1>4. Outside(t) = InFront(OPEN_TOOL, t) \o Outside(Rest(t)) /\ Rest(t) \in Texts
  BY <1>3, OutsideProper
<1>5. c \in Texts
  BY <1>1, <1>2, PartedTyped
<1>6. Find(CLOSE_TOOL, c) > 0
  BY <1>2, <1>3 DEF Proper
<1>7. Rest(t) = Behind(CLOSE_TOOL, c)
  BY <1>2 DEF Rest
<1>8. <<>> \o Outside(Rest(t)) = Outside(Rest(t))
  <2> PICK v : v = Outside(Rest(t)) OBVIOUS
  <2>1. v \in Texts
    BY <1>4, OutsideTyped
  <2> QED BY <2>1, ConcatEmptySeq DEF Texts
<1> QED
  BY <1>2, <1>4, <1>5, <1>6, <1>7, <1>8

-----------------------------------------------------------------------------
(* White space around an answer, and in front of it.                       *)

Solid(t) == {i \in DOMAIN t : t[i] # Newline}

(* What is trimmed of a text is newlines, in front of it and behind. *)
LEMMA TrimIs ==
  ASSUME NEW t \in Texts
  PROVE  IF Solid(t) = {} THEN Trim(t) = <<>>
         ELSE \E lo, hi \in 1 .. Len(t) :
                /\ lo <= hi /\ lo \in Solid(t) /\ hi \in Solid(t)
                /\ \A i \in Solid(t) : lo <= i /\ i <= hi
                /\ Trim(t) = SubSeq(t, lo, hi)
<1>1. CASE Solid(t) = {}
  <2>1. Trim(t) = <<>>
    BY <1>1 DEF Trim, Solid
  <2> QED BY <1>1, <2>1
<1>2. CASE Solid(t) # {}
  <2> PICK s : s = Solid(t) OBVIOUS
  <2>1. s \in SUBSET Nat /\ Len(t) \in Nat /\ \A i \in s : i <= Len(t) /\ i \in 1 .. Len(t)
    BY DEF Texts, Solid
  <2>2. Min(s) \in s /\ \A i \in s : Min(s) <= i
    BY <1>2, <2>1, MinOfNaturals
  <2>3. Max(s) \in s /\ \A i \in s : i <= Max(s)
    BY <1>2, <2>1, MaxOfNaturals
  <2>4. Trim(t) = SubSeq(t, Min(s), Max(s))
    BY <1>2 DEF Trim, Solid
  <2> QED BY <1>2, <2>1, <2>2, <2>3, <2>4
<1> QED
  BY <1>1, <1>2

(* A part of a text. *)
LEMMA PartOf ==
  ASSUME NEW t \in Texts, NEW lo \in 1 .. Len(t), NEW hi \in 1 .. Len(t), lo <= hi
  PROVE  /\ SubSeq(t, lo, hi) \in Texts /\ Len(SubSeq(t, lo, hi)) = hi - lo + 1
         /\ \A i \in 1 .. hi - lo + 1 : SubSeq(t, lo, hi)[i] = t[lo + i - 1]
<1>1. lo \in Nat /\ hi \in Nat /\ 1 <= lo /\ hi <= Len(t) /\ Len(t) \in Nat
  BY DEF Texts
<1>2. \A i \in lo .. hi : t[i] \in Letter
  BY <1>1, ElementOfSeq DEF Texts
<1>3. SubSeq(t, lo, hi) \in Texts
  BY <1>1, PartTyped
<1>4. /\ Len(SubSeq(t, lo, hi)) = IF lo <= hi THEN hi - lo + 1 ELSE 0
      /\ \A i \in 1 .. hi - lo + 1 : SubSeq(t, lo, hi)[i] = t[lo + i - 1]
  BY <1>1, <1>2, SubSeqProperties DEF Texts
<1> QED
  BY <1>1, <1>3, <1>4

(* What is trimmed has nothing to trim. *)
LEMMA TrimTwice ==
  ASSUME NEW t \in Texts
  PROVE  Trim(Trim(t)) = Trim(t)
<1>1. CASE Solid(t) = {}
  <2>1. Trim(t) = <<>>
    BY <1>1, TrimIs
  <2> PICK e : e = Trim(t) OBVIOUS
  <2>2. e \in Texts /\ Solid(e) = {}
    BY <2>1 DEF Texts, Solid
  <2>3. Trim(e) = <<>>
    BY <2>2, TrimIs
  <2> QED BY <2>1, <2>3
<1>2. CASE Solid(t) # {}
  <2>1. PICK lo, hi \in 1 .. Len(t) :
          /\ lo <= hi /\ lo \in Solid(t) /\ hi \in Solid(t)
          /\ Trim(t) = SubSeq(t, lo, hi)
    BY <1>2, TrimIs
  <2>2. PICK u, n : u = SubSeq(t, lo, hi) /\ n = hi - lo + 1
    OBVIOUS
  <2>3. u \in Texts /\ Len(u) = n /\ \A i \in 1 .. n : u[i] = t[lo + i - 1]
    BY <2>1, <2>2, PartOf
  <2>4. n \in Nat /\ n >= 1 /\ lo + 1 - 1 = lo /\ lo + n - 1 = hi
    BY <2>1, <2>2 DEF Texts
  <2>5. u[1] # Newline /\ u[n] # Newline
    <3>1. u[1] = t[lo] /\ u[n] = t[hi]
      BY <2>3, <2>4
    <3> QED BY <2>1, <3>1 DEF Solid
  <2>6. 1 \in Solid(u) /\ n \in Solid(u) /\ Solid(u) # {}
    BY <2>3, <2>4, <2>5 DEF Solid, Texts
  <2>7. PICK a, b \in 1 .. Len(u) :
          /\ \A i \in Solid(u) : a <= i /\ i <= b
          /\ Trim(u) = SubSeq(u, a, b)
    BY <2>3, <2>6, TrimIs
  <2>8. a = 1 /\ b = n
    BY <2>3, <2>4, <2>6, <2>7
  <2>9. SubSeq(u, 1, n) = u
    BY <2>3, SubSeqFull DEF Texts
  <2> QED BY <2>1, <2>2, <2>7, <2>8, <2>9
<1> QED
  BY <1>1, <1>2

(* Trimming hides no call. *)
LEMMA TrimKeepsCalls ==
  ASSUME NEW t \in Texts, Occurrences(OPEN_TOOL, Trim(t)) = {}
  PROVE  Occurrences(OPEN_TOOL, t) = {}
<1>0. /\ OPEN_TOOL \in Texts /\ Len(OPEN_TOOL) = 2 /\ Len(OPEN_TOOL) > 0
  BY Markers
<1>1. SUFFICES ASSUME NEW k \in Occurrences(OPEN_TOOL, t) PROVE FALSE
  OBVIOUS
<1>2. k \in 1 .. Len(t) /\ k + 1 <= Len(t) /\ Len(t) \in Nat /\ k + 1 \in 1 .. Len(t)
      /\ Starts(OPEN_TOOL, t, k)
  <2>1. k \in 1 .. Len(t) /\ Len(t) \in Nat
    BY DEF Occurrences, Texts
  <2>2. Starts(OPEN_TOOL, t, k) /\ k + Len(OPEN_TOOL) - 1 <= Len(t)
    BY <1>0, <2>1, OccursAt
  <2> QED BY <1>0, <2>1, <2>2
<1>3. OPEN_TOOL[1] # Newline /\ OPEN_TOOL[2] # Newline
  BY DEF OPEN_TOOL, Newline
<1>4. t[k] = OPEN_TOOL[1] /\ t[k + 1] = OPEN_TOOL[2]
  <2>1. \A j \in 1 .. 2 : k + j - 1 <= Len(t) => t[k + j - 1] = OPEN_TOOL[j]
    BY <1>0, <1>2 DEF Starts
  <2>2. k + 1 - 1 = k /\ k + 2 - 1 = k + 1
    BY <1>2
  <2> QED BY <1>2, <2>1, <2>2
<1>5. k \in Solid(t) /\ k + 1 \in Solid(t)
  BY <1>2, <1>3, <1>4 DEF Solid, Texts
<1>6. PICK lo, hi \in 1 .. Len(t) :
        /\ lo <= hi /\ \A i \in Solid(t) : lo <= i /\ i <= hi
        /\ Trim(t) = SubSeq(t, lo, hi)
  BY <1>5, TrimIs
<1>7. lo <= k /\ k + 1 <= hi
  BY <1>5, <1>6
<1>8. PICK u, n, i : u = SubSeq(t, lo, hi) /\ n = hi - lo + 1 /\ i = k - lo + 1
  OBVIOUS
<1>9. u \in Texts /\ Len(u) = n /\ \A j \in 1 .. n : u[j] = t[lo + j - 1]
  BY <1>6, <1>8, PartOf
<1>10. n \in Nat /\ i \in 1 .. n /\ i + 1 \in 1 .. n /\ lo + i - 1 = k /\ lo + (i + 1) - 1 = k + 1
  BY <1>2, <1>6, <1>7, <1>8
<1>11. u[i] = OPEN_TOOL[1] /\ u[i + 1] = OPEN_TOOL[2]
  BY <1>4, <1>9, <1>10
<1>12. Starts(OPEN_TOOL, u, i)
  <2>1. ASSUME NEW j \in 1 .. 2 PROVE u[i + j - 1] = OPEN_TOOL[j]
    <3>1. j = 1 \/ j = 2
      OBVIOUS
    <3>2. i + 1 - 1 = i /\ i + 2 - 1 = i + 1
      BY <1>10
    <3> QED BY <1>11, <3>1, <3>2
  <2> QED BY <1>0, <2>1 DEF Starts
<1>13. i \in Occurrences(OPEN_TOOL, u)
  <2>1. i \in 1 .. Len(u) /\ i + Len(OPEN_TOOL) - 1 <= Len(u)
    BY <1>0, <1>9, <1>10
  <2> QED BY <1>0, <1>9, <1>12, <2>1, OccursAt
<1> QED
  BY <1>6, <1>8, <1>13

(* A text behind the newlines to be trimmed, of which there are `n` at most. *)
Cut(t, n) == From(t, Newlines(t, n) + 1)

(* It is a text. *)
LEMMA CutTyped ==
  ASSUME NEW t \in Texts, NEW n \in Nat
  PROVE  Cut(t, n) \in Texts
<1> PICK c, i : c = Newlines(t, n) /\ i = c + 1 OBVIOUS
<1>1. c \in 0 .. Len(t)
  BY NewlinesOf
<1>2. i \in Nat /\ 1 <= i /\ i <= Len(t) + 1
  BY <1>1 DEF Texts
<1>3. From(t, i) \in Texts
  BY <1>2, FromTyped
<1> QED
  BY <1>3 DEF Cut

(* Where nothing is to be trimmed. *)
LEMMA CutNothing ==
  /\ \A t \in Texts : Cut(t, 0) = t
  /\ \A n \in Nat : Cut(<<>>, n) = <<>>
<1>1. ASSUME NEW t \in Texts PROVE Cut(t, 0) = t
  <2> PICK c, z : c = Newlines(t, z) /\ z = 0 OBVIOUS
  <2>1. c \in 0 .. Len(t) /\ c <= z
    BY NewlinesOf
  <2>2. c = 0
    BY <2>1 DEF Texts
  <2>3. From(t, 1) = t
    BY DEF From, Texts
  <2> QED BY <2>2, <2>3 DEF Cut
<1>2. ASSUME NEW n \in Nat PROVE Cut(<<>>, n) = <<>>
  <2> PICK t, c : t = <<>> /\ c = Newlines(t, n) OBVIOUS
  <2>1. t \in Texts /\ Len(t) = 0
    BY DEF Texts
  <2>2. c \in 0 .. Len(t)
    BY <2>1, NewlinesOf
  <2>3. c = 0
    BY <2>1, <2>2
  <2>4. From(t, 1) = t
    BY <2>1 DEF From, Texts
  <2> QED BY <2>3, <2>4 DEF Cut
<1> QED
  BY <1>1, <1>2

(* strip_prefix of a newline, twice. *)
LEMMA StripTwice ==
  ASSUME NEW t \in Texts
  PROVE  Strip(<<Newline>>, Strip(<<Newline>>, t)) = Cut(t, 2)
<1> PICK nl : nl = <<Newline>> OBVIOUS
<1>1. nl \in Texts /\ Len(nl) = 1 /\ nl[1] = Newline
  BY Zenon, Letters, SingletonSeq DEF Texts
<1>2. ASSUME NEW s \in Texts
      PROVE  Strip(nl, s) = IF Len(s) > 0 /\ s[1] = Newline THEN From(s, 2) ELSE s
  <2>1. IsPrefix(nl, s) <=> Len(nl) <= Len(s) /\ \A i \in 1 .. Len(nl) : nl[i] = s[i]
    BY <1>1, PrefixText
  <2>2. IsPrefix(nl, s) <=> Len(s) > 0 /\ s[1] = Newline
    BY <1>1, <2>1 DEF Texts
  <2> QED BY <1>1, <2>2 DEF Strip
<1>3. Len(t) \in Nat
  BY DEF Texts
<1>4. CASE ~(Len(t) > 0 /\ t[1] = Newline)
  <2>1. Strip(nl, t) = t
    BY <1>2, <1>4
  <2>2. Newlines(t, 2) = 0
    <3> PICK c, n : c = 0 /\ n = 2 OBVIOUS
    <3>1. n \in Nat /\ c \in 0 .. Len(t) /\ c <= n /\ (\A i \in 1 .. c : t[i] = Newline) /\ Stops(t, n, c)
      BY <1>3, <1>4 DEF Stops
    <3>2. Newlines(t, n) = c
      BY <3>1, NewlinesAre
    <3> QED BY <3>2
  <2>3. From(t, 1) = t
    BY DEF From, Texts
  <2> QED BY <2>1, <2>2, <2>3 DEF Cut
<1>5. CASE Len(t) > 0 /\ t[1] = Newline
  <2>1. Strip(nl, t) = From(t, 2)
    BY <1>2, <1>5
  <2> PICK s : s = From(t, 2) OBVIOUS
  <2>2. s \in Texts /\ Len(s) = Len(t) - 1 /\ \A j \in 1 .. Len(t) - 1 : s[j] = t[j + 1]
    <3> PICK i : i = 2 OBVIOUS
    <3>1. i \in Nat /\ 1 <= i /\ i <= Len(t) + 1 /\ Len(t) - i + 1 = Len(t) - 1
          /\ \A j \in 1 .. Len(t) - 1 : i + j - 1 = j + 1
      BY <1>3, <1>5
    <3>2. From(t, i) \in Texts /\ Len(From(t, i)) = Len(t) - i + 1
          /\ \A j \in 1 .. Len(t) - i + 1 : From(t, i)[j] = t[i + j - 1]
      BY Zenon, <3>1, FromTyped
    <3> QED BY Zenon, <3>1, <3>2
  <2>3. CASE ~(Len(s) > 0 /\ s[1] = Newline)
    <3>1. Strip(nl, s) = s
      BY <1>2, <2>2, <2>3
    <3>2. Newlines(t, 2) = 1
      <4>0. PICK c, n : c = 1 /\ n = 2 OBVIOUS
      <4>1. Stops(t, n, c)
        <5>1. CASE Len(t) = 1
          BY <4>0, <5>1 DEF Stops
        <5>2. CASE Len(t) # 1
          <6>1. Len(s) > 0 /\ 1 \in 1 .. Len(t) - 1
            BY <1>3, <1>5, <2>2, <5>2
          <6>2. s[1] = t[1 + 1]
            BY <2>2, <6>1
          <6> QED BY <2>3, <4>0, <6>1, <6>2 DEF Stops
        <5> QED BY <5>1, <5>2
      <4>2. n \in Nat /\ c \in 0 .. Len(t) /\ c <= n
        BY <1>3, <1>5, <4>0
      <4>3. ASSUME NEW i \in 1 .. c PROVE t[i] = Newline
        <5>1. i = 1
          BY <4>0
        <5> QED BY <1>5, <5>1
      <4>4. Newlines(t, n) = c
        BY <4>1, <4>2, <4>3, NewlinesAre
      <4> QED BY <4>0, <4>4
    <3> QED BY <2>1, <3>1, <3>2 DEF Cut
  <2>4. CASE Len(s) > 0 /\ s[1] = Newline
    <3>1. Strip(nl, s) = From(s, 2)
      BY <1>2, <2>2, <2>4
    <3>2. Len(t) >= 2 /\ t[2] = Newline
      <4>1. 1 \in 1 .. Len(t) - 1 /\ 1 + 1 = 2
        BY <1>3, <2>2, <2>4
      <4>2. s[1] = t[1 + 1]
        BY <2>2, <4>1
      <4> QED BY <1>3, <2>4, <4>1, <4>2
    <3>3. Newlines(t, 2) = 2
      <4>0. PICK c, n : c = 2 /\ n = 2 OBVIOUS
      <4>1. Stops(t, n, c)
        BY <4>0 DEF Stops
      <4>2. n \in Nat /\ c \in 0 .. Len(t) /\ c <= n
        BY <1>3, <3>2, <4>0
      <4>3. ASSUME NEW i \in 1 .. c PROVE t[i] = Newline
        <5>1. i = 1 \/ i = 2
          BY <4>0
        <5> QED BY <1>5, <3>2, <5>1
      <4>4. Newlines(t, n) = c
        BY <4>1, <4>2, <4>3, NewlinesAre
      <4> QED BY <4>0, <4>4
    <3>4. From(From(t, 2), 2) = From(t, 3)
      <4>0. PICK j, m : j = 2 /\ m = 1 OBVIOUS
      <4>1. j \in 0 .. Len(t) /\ m \in 0 .. j /\ m + 1 = 2 /\ j - m + 1 = 2 /\ j + 1 = 3
        BY <1>3, <3>2, <4>0
      <4>2. From(From(t, m + 1), j - m + 1) = From(t, j + 1)
        BY <4>1, CutAgain DEF CutsTwice
      <4> QED BY <4>1, <4>2
    <3> QED BY <2>1, <3>1, <3>3, <3>4 DEF Cut
  <2> QED BY <2>3, <2>4
<1> QED
  BY <1>4, <1>5

-----------------------------------------------------------------------------
(* What a parser is still to say of the text it holds, in the terms of      *)
(* parse_model_output.                                                      *)

Plain(with, t) == IF with THEN Outside(t) ELSE t

(* The text in which the reasoning ends. *)
Body(p) == IF p.initial_reasoning THEN Strip(OPEN_THINK, p.pending) ELSE p.pending

ToThink(p) == IF p.mode = "Reasoning" THEN InFront(CLOSE_THINK, Body(p)) ELSE <<>>

(* The text of which the answer is made. *)
Source(p) ==
  CASE p.mode = "Reasoning" -> Cut(Behind(CLOSE_THINK, Body(p)), 2)
    [] p.mode = "Text"      -> Cut(p.pending, p.trim_answer_newlines)
    [] p.mode = "Tool"      -> Cut(Behind(CLOSE_TOOL, p.pending), p.trim_answer_newlines)

ToAnswer(p) == Plain(p.tools, Source(p))

(* No call is left in the answer, and one that has begun has an end. *)
Keeping(p) ==
  /\ p.tools => Kept(Source(p))
  /\ p.mode = "Tool" => Find(CLOSE_TOOL, p.pending) > 0

(* What was said and what is still to be said is the same in all. *)
Says(p, q) ==
  /\ q \in Parsers /\ Keeping(q)
  /\ TextOf("Text", q.deltas) \o ToAnswer(q) = TextOf("Text", p.deltas) \o ToAnswer(p)
  /\ TextOf("Reasoning", q.deltas) \o ToThink(q) = TextOf("Reasoning", p.deltas) \o ToThink(p)

(* The markers, and that none of them is empty. *)
LEMMA MarkersAre ==
  /\ OPEN_THINK \in Texts /\ Len(OPEN_THINK) = 3 /\ Len(OPEN_THINK) > 0
  /\ CLOSE_THINK \in Texts /\ Len(CLOSE_THINK) = 2 /\ Len(CLOSE_THINK) > 0
  /\ OPEN_TOOL \in Texts /\ Len(OPEN_TOOL) = 2 /\ Len(OPEN_TOOL) > 0
  /\ CLOSE_TOOL \in Texts /\ Len(CLOSE_TOOL) = 2 /\ Len(CLOSE_TOOL) > 0
BY Markers

(* It is a text. *)
LEMMA BodyTyped ==
  ASSUME NEW p \in Parsers
  PROVE  Body(p) \in Texts
<1> PICK t : t = p.pending OBVIOUS
<1>1. t \in Texts
  BY ParserFields
<1>2. Strip(OPEN_THINK, t) \in Texts
  BY <1>1, MarkersAre, Stripped
<1> QED
  BY <1>1, <1>2 DEF Body

(* So is the answer made of it. *)
LEMMA PlainTyped ==
  ASSUME NEW t \in Texts, NEW with
  PROVE  Plain(with, t) \in Texts
BY OutsideTyped DEF Plain

(* Of nothing no answer is made. *)
LEMMA PlainNothing ==
  ASSUME NEW with
  PROVE  Plain(with, <<>>) = <<>>
<1> PICK t : t = <<>> OBVIOUS
<1>1. t \in Texts
  BY DEF Texts
<1>2. Find(OPEN_TOOL, t) = 0
  BY MarkersAre, PartedNothing
<1>3. Outside(t) = t
  BY <1>1, <1>2, NoCalls
<1> QED
  BY <1>3 DEF Plain

(* What is still to be said are texts. *)
LEMMA ToSayTyped ==
  ASSUME NEW p \in Parsers
  PROVE  Source(p) \in Texts /\ ToAnswer(p) \in Texts /\ ToThink(p) \in Texts
<1>0. PICK t, b, n : t = p.pending /\ b = Body(p) /\ n = p.trim_answer_newlines OBVIOUS
<1>1. t \in Texts /\ b \in Texts /\ n \in Nat /\ p.mode \in {"Reasoning", "Text", "Tool"}
  BY <1>0, ParserFields, BodyTyped
<1>2. /\ InFront(CLOSE_THINK, b) \in Texts /\ Behind(CLOSE_THINK, b) \in Texts
      /\ Behind(CLOSE_TOOL, t) \in Texts
  BY <1>1, MarkersAre, PartedTyped
<1>3. Cut(t, n) \in Texts
  BY <1>1, CutTyped
<1>4. Cut(Behind(CLOSE_TOOL, t), n) \in Texts
  <2> PICK u : u = Behind(CLOSE_TOOL, t) OBVIOUS
  <2> QED BY <1>1, <1>2, CutTyped
<1>5. Cut(Behind(CLOSE_THINK, b), 2) \in Texts
  <2> PICK u, k : u = Behind(CLOSE_THINK, b) /\ k = 2 OBVIOUS
  <2>1. u \in Texts /\ k \in Nat
    BY <1>2
  <2>2. Cut(u, k) \in Texts
    BY <2>1, CutTyped
  <2> QED BY <2>2
<1>6. Source(p) \in Texts
  <2>1. CASE p.mode = "Reasoning"
    BY <1>0, <1>5, <2>1 DEF Source
  <2>2. CASE p.mode = "Text"
    BY <1>0, <1>3, <2>2 DEF Source
  <2>3. CASE p.mode = "Tool"
    BY <1>0, <1>4, <2>3 DEF Source
  <2> QED BY <1>1, <2>1, <2>2, <2>3
<1>7. ToAnswer(p) \in Texts
  BY <1>6, PlainTyped DEF ToAnswer
<1>8. ToThink(p) \in Texts
  <2>1. <<>> \in Texts
    BY DEF Texts
  <2> QED BY <1>0, <1>2, <2>1 DEF ToThink
<1> QED
  BY <1>6, <1>7, <1>8

(* A turn in which nothing is said. *)
LEMMA SaysSame ==
  ASSUME NEW p \in Parsers, Keeping(p), NEW q \in Parsers, q.tools = p.tools,
         q.deltas = p.deltas, ToAnswer(q) = ToAnswer(p), ToThink(q) = ToThink(p),
         q.mode = "Tool" => Find(CLOSE_TOOL, q.pending) > 0
  PROVE  Says(p, q)
<1>1. p.tools => Kept(Source(q))
  <2>1. ASSUME p.tools PROVE Outside(Source(q)) = Outside(Source(p))
    BY <2>1 DEF ToAnswer, Plain
  <2> QED BY <2>1 DEF Keeping, Kept
<1>2. Keeping(q)
  BY <1>1 DEF Keeping
<1> QED
  BY <1>2 DEF Says

(* Texts in a row. *)
LEMMA Regrouped ==
  ASSUME NEW a \in Texts, NEW b \in Texts, NEW c \in Texts
  PROVE  (a \o b) \o c = a \o (b \o c)
<1>1. Reassociates(a, b, c)
  BY Associative DEF Texts
<1> QED
  BY <1>1 DEF Reassociates

(* What was said are texts. *)
LEMMA DeltasTyped ==
  ASSUME NEW p \in Parsers
  PROVE  TextOf("Text", p.deltas) \in Texts /\ TextOf("Reasoning", p.deltas) \in Texts
<1> PICK d : d = p.deltas OBVIOUS
<1>1. d \in Seq(DeltaSet) /\ "Text" \in Kinds /\ "Reasoning" \in Kinds
  BY ParserFields DEF Kinds
<1>2. TextOf("Text", d) \in Texts /\ TextOf("Reasoning", d) \in Texts
  <2> PICK k, l : k = "Text" /\ l = "Reasoning" OBVIOUS
  <2>1. k \in Kinds /\ l \in Kinds
    BY <1>1
  <2>2. TextOf(k, d) \in Texts
    BY <1>1, <2>1, TextOfConcat
  <2>3. TextOf(l, d) \in Texts
    BY <1>1, <2>1, TextOfConcat
  <2> QED BY <2>2, <2>3
<1> QED
  BY <1>2

(* How much is emitted has no marker in it. *)
LEMMA BeforeClear ==
  ASSUME NEW t \in Texts, NEW marker \in Texts, Len(marker) > 0, NEW finished \in BOOLEAN
  PROVE  Clear(marker, t, Before(marker, t, finished))
<1> PICK at : at = Find(marker, t) OBVIOUS
<1>1. at \in 0 .. Len(t)
  BY Found
<1>2. CASE at = 0
  BY <1>2 DEF Clear
<1>3. CASE at # 0
  <2>1. at > 0
    BY <1>1, <1>3 DEF Texts
  <2>2. Before(marker, t, finished) = at - 1
    BY <2>1 DEF Before
  <2> QED BY <1>1, <1>3, <2>2 DEF Clear, Texts
<1> QED
  BY <1>2, <1>3

(* The reasoning loses no letter, and none of the answer. *)
LEMMA ReasoningSays ==
  ASSUME NEW p \in Parsers, p.mode = "Reasoning", Keeping(p), NEW finished \in BOOLEAN
  PROVE  Says(p, Reasoning(p, finished))
<1>0. PICK t : t = p.pending OBVIOUS
<1>a. t \in Texts /\ p.initial_reasoning \in BOOLEAN /\ Len(t) \in Nat /\ p.deltas \in Seq(DeltaSet)
  BY <1>0, ParserFields
<1>b. ToThink(p) = InFront(CLOSE_THINK, Body(p)) /\ Source(p) = Cut(Behind(CLOSE_THINK, Body(p)), 2)
  BY DEF ToThink, Source
<1>1. CASE p.initial_reasoning /\ IsPrefix(OPEN_THINK, t)
  <2>0. PICK rest : rest = From(t, Len(OPEN_THINK) + 1) OBVIOUS
  <2>1. PICK x : x = [p EXCEPT !.pending = rest, !.initial_reasoning = FALSE] OBVIOUS
  <2>2. Reasoning(p, finished) = x
    BY <1>0, <1>1, <2>0, <2>1 DEF Reasoning
  <2>3. rest \in Texts
    BY <1>1, <1>a, <2>0, MarkersAre, MarkerTaken
  <2>4. /\ x \in Parsers /\ x.mode = "Reasoning" /\ x.tools = p.tools /\ x.deltas = p.deltas
        /\ x.pending = rest /\ ~x.initial_reasoning
    BY <2>1, <2>3 DEF Parsers
  <2>5. Body(x) = rest /\ Body(p) = rest
    BY <1>0, <1>1, <2>0, <2>4 DEF Body, Strip
  <2>6. ToThink(x) = ToThink(p) /\ ToAnswer(x) = ToAnswer(p)
    BY <1>b, <2>4, <2>5 DEF ToThink, ToAnswer, Source
  <2> QED BY <2>2, <2>4, <2>6, SaysSame
<1>2. CASE /\ ~(p.initial_reasoning /\ IsPrefix(OPEN_THINK, t))
           /\ p.initial_reasoning /\ ~finished /\ IsPrefix(t, OPEN_THINK)
  <2>1. Reasoning(p, finished) = p
    BY <1>0, <1>2 DEF Reasoning
  <2> QED BY <2>1, SaysSame
<1>3. CASE /\ ~(p.initial_reasoning /\ IsPrefix(OPEN_THINK, t))
           /\ ~(p.initial_reasoning /\ ~finished /\ IsPrefix(t, OPEN_THINK))
           /\ IsPrefix(CLOSE_THINK, t)
  <2>0. PICK rest : rest = From(t, Len(CLOSE_THINK) + 1) OBVIOUS
  <2>1. PICK x : x = [p EXCEPT !.pending = rest, !.initial_reasoning = FALSE,
                               !.mode = "Text", !.trim_answer_newlines = 2] OBVIOUS
  <2>2. Reasoning(p, finished) = x
    BY <1>0, <1>3, <2>0, <2>1 DEF Reasoning
  <2>3. rest \in Texts
    BY <1>3, <1>a, <2>0, MarkersAre, MarkerTaken
  <2>4. /\ x \in Parsers /\ x.mode = "Text" /\ x.tools = p.tools /\ x.deltas = p.deltas
        /\ x.pending = rest /\ x.trim_answer_newlines = 2
    BY <2>1, <2>3 DEF Parsers
  <2>5. Body(p) = t
    BY <1>0, <1>3 DEF Body, Strip
  <2>6. InFront(CLOSE_THINK, t) = <<>> /\ Behind(CLOSE_THINK, t) = rest
    BY <1>3, <1>a, <2>0, MarkersAre, AtFront
  <2>7. ToThink(x) = ToThink(p) /\ ToAnswer(x) = ToAnswer(p)
    BY <1>b, <2>4, <2>5, <2>6 DEF ToThink, ToAnswer, Source
  <2> QED BY <2>2, <2>4, <2>7, SaysSame
<1>4. CASE /\ ~(p.initial_reasoning /\ IsPrefix(OPEN_THINK, t))
           /\ ~(p.initial_reasoning /\ ~finished /\ IsPrefix(t, OPEN_THINK))
           /\ ~IsPrefix(CLOSE_THINK, t)
  <2>1. PICK x : x = [p EXCEPT !.initial_reasoning = FALSE] OBVIOUS
  <2>2. Reasoning(p, finished) = EmitBefore(x, "Reasoning", CLOSE_THINK, finished)
    BY <1>0, <1>4, <2>1 DEF Reasoning
  <2>3. x \in Parsers /\ x.pending = t /\ ~x.initial_reasoning /\ x.mode = "Reasoning"
        /\ x.tools = p.tools /\ x.deltas = p.deltas
    BY <1>0, <2>1 DEF Parsers
  <2>4. PICK count, kind : count = Before(CLOSE_THINK, t, finished) /\ kind = "Reasoning"
    OBVIOUS
  <2>5. kind \in Kinds /\ "Text" \in Kinds
    BY <2>4 DEF Kinds
  <2>6. EmitBefore(x, kind, CLOSE_THINK, finished) = Emit(x, kind, count) /\ count \in 0 .. Len(t)
    <3> PICK m : m = CLOSE_THINK OBVIOUS
    <3>1. m \in Texts /\ Len(m) > 0
      BY MarkersAre
    <3>2. EmitsBefore(x, kind, m, finished)
      BY <2>3, <2>5, <3>1, EmitBeforeIs
    <3> QED BY <2>3, <2>4, <3>2 DEF EmitsBefore
  <2>7. PICK q : q = Emit(x, kind, count) OBVIOUS
  <2>8. q \in Parsers /\ Emits(x, kind, count, q)
    BY <2>3, <2>5, <2>6, <2>7, EmitSays
  <2>9. PICK s, a : s = From(t, count + 1) /\ a = SubSeq(t, 1, count) OBVIOUS
  <2>10. Takes(CLOSE_THINK, t, count, s)
    <3>1. Clear(CLOSE_THINK, t, count)
      BY <1>a, <2>4, MarkersAre, BeforeClear
    <3> QED BY <1>a, <2>6, <2>9, <3>1, MarkersAre, PartedShifted
  <2>11. /\ q.mode = "Reasoning" /\ q.tools = p.tools /\ q.pending = s /\ ~q.initial_reasoning
         /\ TextOf("Reasoning", q.deltas) = TextOf("Reasoning", p.deltas) \o a
         /\ TextOf("Text", q.deltas) = TextOf("Text", p.deltas)
    BY <2>3, <2>4, <2>5, <2>8, <2>9 DEF Emits
  <2>12. Body(p) = t /\ Body(q) = s
    BY <1>0, <1>4, <2>11 DEF Body, Strip
  <2>13. Source(q) = Source(p) /\ ToAnswer(q) = ToAnswer(p)
    BY <1>b, <2>10, <2>11, <2>12 DEF ToAnswer, Source, Takes
  <2>14. ToThink(p) = a \o ToThink(q)
    BY <1>b, <2>10, <2>11, <2>12, <2>9 DEF ToThink, Takes
  <2>15. TextOf("Reasoning", q.deltas) \o ToThink(q) = TextOf("Reasoning", p.deltas) \o ToThink(p)
    <3> PICK u, v : u = TextOf("Reasoning", p.deltas) /\ v = ToThink(q) OBVIOUS
    <3>1. u \in Texts /\ v \in Texts
      BY <2>8, DeltasTyped, ToSayTyped
    <3>2. a \in Texts
      BY <1>a, <2>6, <2>9, BeginningOf DEF Texts
    <3>3. (u \o a) \o v = u \o (a \o v)
      BY <3>1, <3>2, Regrouped
    <3> QED BY <2>11, <2>14, <3>3
  <2>16. Keeping(q)
    BY <2>11, <2>13 DEF Keeping
  <2>17. Says(p, q)
    BY <2>8, <2>11, <2>13, <2>15, <2>16 DEF Says
  <2> QED BY <2>2, <2>4, <2>6, <2>7, <2>17
<1> QED
  BY <1>1, <1>2, <1>3, <1>4

(* Text loses no letter but the newlines that are trimmed.                  *)
LEMMA TextSays ==
  ASSUME NEW p \in Parsers, p.mode = "Text", Keeping(p), NEW finished \in BOOLEAN
  PROVE  Says(p, Text(p, finished))
<1>0. PICK q, r : q = Trimmed(p) /\ r = [q EXCEPT !.trim_answer_newlines = 0] OBVIOUS
<1>1. TextTurn(p, finished, q, r)
  BY <1>0, TextIs
<1>2. q \in Parsers /\ Trims(p, q)
  BY <1>0, TrimmedIs
<1>3. PICK t : t = q.pending OBVIOUS
<1>4. /\ t \in Texts /\ Len(t) \in Nat /\ p.trim_answer_newlines \in Nat /\ p.tools \in BOOLEAN
      /\ p.pending \in Texts
  BY <1>2, <1>3, ParserFields
<1>5. t = Cut(p.pending, p.trim_answer_newlines) /\ q.mode = "Text" /\ q.tools = p.tools
      /\ q.deltas = p.deltas
  BY <1>2, <1>3 DEF Trims, Cut
<1>6. Source(p) = t /\ ToThink(p) = <<>> /\ ToAnswer(p) = Plain(p.tools, t)
  BY <1>5 DEF Source, ToThink, ToAnswer
<1>7. /\ r \in Parsers /\ r.mode = "Text" /\ r.tools = p.tools /\ r.pending = t
      /\ r.trim_answer_newlines = 0 /\ r.deltas = p.deltas
  BY <1>1, <1>3, <1>5 DEF TextTurn
<1>8. ASSUME NEW count \in 0 .. Len(t), NEW y, y = Emit(r, "Text", count),
             ToAnswer(p) = SubSeq(t, 1, count) \o Plain(p.tools, From(t, count + 1)),
             From(t, count + 1) \in Texts, SubSeq(t, 1, count) \in Texts,
             p.tools => Kept(From(t, count + 1))
      PROVE  Says(p, y)
  <2>0. PICK kind, s, a : kind = "Text" /\ s = From(t, count + 1) /\ a = SubSeq(t, 1, count) OBVIOUS
  <2>1. kind \in Kinds /\ "Reasoning" \in Kinds
    BY <2>0 DEF Kinds
  <2>2. y \in Parsers /\ Emits(r, kind, count, y)
    BY <1>7, <1>8, <2>0, <2>1, EmitSays
  <2>3. /\ y.mode = "Text" /\ y.tools = p.tools /\ y.pending = s /\ y.trim_answer_newlines = 0
        /\ TextOf("Text", y.deltas) = TextOf("Text", p.deltas) \o a
        /\ TextOf("Reasoning", y.deltas) = TextOf("Reasoning", p.deltas)
    BY <1>7, <2>0, <2>1, <2>2 DEF Emits
  <2>4. Source(y) = s
    <3>1. Cut(s, 0) = s
      BY <1>8, <2>0, CutNothing
    <3> QED BY <2>3, <3>1 DEF Source
  <2>5. ToThink(y) = <<>> /\ ToAnswer(y) = Plain(p.tools, s) /\ Keeping(y)
    BY <1>8, <2>0, <2>3, <2>4 DEF ToThink, ToAnswer, Keeping
  <2>6. TextOf("Text", y.deltas) \o ToAnswer(y) = TextOf("Text", p.deltas) \o ToAnswer(p)
    <3> PICK u, v : u = TextOf("Text", p.deltas) /\ v = ToAnswer(y) OBVIOUS
    <3>1. u \in Texts /\ v \in Texts /\ a \in Texts
      BY <1>8, <2>0, <2>2, DeltasTyped, ToSayTyped
    <3>2. (u \o a) \o v = u \o (a \o v)
      BY <3>1, Regrouped
    <3>3. ToAnswer(p) = a \o v
      BY <1>8, <2>0, <2>5
    <3> QED BY <2>3, <3>2, <3>3
  <2> QED BY <1>6, <2>2, <2>3, <2>5, <2>6 DEF Says
<1>9. CASE q.trim_answer_newlines > 0 /\ t = <<>>
  <2>1. Text(p, finished) = q
    BY <1>1, <1>3, <1>9 DEF TextTurn
  <2>2. Source(q) = <<>>
    <3> PICK n : n = q.trim_answer_newlines OBVIOUS
    <3>1. n \in Nat
      BY <1>2, ParserFields
    <3>2. Cut(<<>>, n) = <<>>
      BY <3>1, CutNothing
    <3> QED BY <1>3, <1>5, <1>9, <3>2 DEF Source
  <2>3. ToAnswer(q) = ToAnswer(p) /\ ToThink(q) = ToThink(p)
    BY <1>5, <1>6, <1>9, <2>2 DEF ToAnswer, ToThink
  <2> QED BY <1>2, <1>5, <2>1, <2>3, SaysSame
<1>10. CASE ~(q.trim_answer_newlines > 0 /\ t = <<>>) /\ ~p.tools
  <2>1. PICK count, y : count = Len(t) /\ y = Emit(r, "Text", count) OBVIOUS
  <2>2. Text(p, finished) = y
    BY <1>1, <1>3, <1>7, <1>10, <2>1 DEF TextTurn
  <2>3. count \in 0 .. Len(t)
    BY <1>4, <2>1
  <2>4. From(t, count + 1) = <<>> /\ SubSeq(t, 1, count) = t
    BY <1>4, <2>1, SubSeqEmpty, SubSeqFull DEF From, Texts
  <2>5. <<>> \in Texts /\ t \o <<>> = t
    BY <1>4, ConcatEmptySeq DEF Texts
  <2>6. ToAnswer(p) = SubSeq(t, 1, count) \o Plain(p.tools, From(t, count + 1))
    BY <1>6, <1>10, <2>4, <2>5 DEF Plain
  <2>7. From(t, count + 1) \in Texts /\ SubSeq(t, 1, count) \in Texts
    BY <1>4, <2>4, <2>5
  <2>8. Says(p, y)
    BY <1>8, <1>10, <2>1, <2>3, <2>6, <2>7
  <2> QED BY <2>2, <2>8
<1>11. CASE /\ ~(q.trim_answer_newlines > 0 /\ t = <<>>) /\ p.tools
            /\ IsPrefix(OPEN_TOOL, t)
  <2>0. PICK c : c = From(t, Len(OPEN_TOOL) + 1) OBVIOUS
  <2>1. PICK x : x = [r EXCEPT !.pending = c, !.mode = "Tool"] OBVIOUS
  <2>2. Text(p, finished) = x
    BY <1>1, <1>3, <1>7, <1>11, <2>0, <2>1 DEF TextTurn
  <2>3. Kept(t)
    BY <1>6, <1>11 DEF Keeping
  <2>4. /\ c \in Texts /\ Find(CLOSE_TOOL, c) > 0 /\ Behind(CLOSE_TOOL, c) \in Texts
        /\ Outside(t) = Outside(Behind(CLOSE_TOOL, c))
    BY <1>4, <1>11, <2>0, <2>3, OutsideCall
  <2>5. /\ x \in Parsers /\ x.mode = "Tool" /\ x.tools = p.tools /\ x.deltas = p.deltas
        /\ x.pending = c /\ x.trim_answer_newlines = 0
    BY <1>7, <2>1, <2>4 DEF Parsers
  <2>6. Source(x) = Behind(CLOSE_TOOL, c)
    <3>1. Cut(Behind(CLOSE_TOOL, c), 0) = Behind(CLOSE_TOOL, c)
      BY <2>4, CutNothing
    <3> QED BY <2>5, <3>1 DEF Source
  <2>7. ToAnswer(x) = ToAnswer(p) /\ ToThink(x) = ToThink(p)
    BY <1>6, <1>11, <2>4, <2>5, <2>6 DEF ToAnswer, ToThink, Plain
  <2> QED BY <2>2, <2>4, <2>5, <2>7, SaysSame
<1>12. CASE /\ ~(q.trim_answer_newlines > 0 /\ t = <<>>) /\ p.tools
            /\ ~IsPrefix(OPEN_TOOL, t)
  <2>0. PICK m, count, y : m = OPEN_TOOL /\ count = Before(m, t, finished)
                           /\ y = Emit(r, "Text", count) OBVIOUS
  <2>1. m \in Texts /\ Len(m) > 0 /\ "Text" \in Kinds
    BY <2>0, MarkersAre DEF Kinds
  <2>2. EmitBefore(r, "Text", m, finished) = y /\ count \in 0 .. Len(t)
    <3> PICK kind : kind = "Text" OBVIOUS
    <3>1. EmitsBefore(r, kind, m, finished)
      BY <1>7, <2>1, EmitBeforeIs
    <3> QED BY <1>7, <2>0, <3>1 DEF EmitsBefore
  <2>3. Text(p, finished) = y
    BY <1>1, <1>3, <1>7, <1>12, <2>0, <2>2 DEF TextTurn
  <2>4. Kept(t)
    BY <1>6, <1>12 DEF Keeping
  <2>5. Clear(OPEN_TOOL, t, count)
    BY <1>4, <2>0, <2>1, BeforeClear
  <2>6. /\ From(t, count + 1) \in Texts /\ SubSeq(t, 1, count) \in Texts
        /\ Outside(t) = SubSeq(t, 1, count) \o Outside(From(t, count + 1))
        /\ Kept(From(t, count + 1))
    BY <1>4, <2>2, <2>4, <2>5, OutsideShifted
  <2>7. ToAnswer(p) = SubSeq(t, 1, count) \o Plain(p.tools, From(t, count + 1))
    BY <1>6, <1>12, <2>6 DEF Plain
  <2>8. Says(p, y)
    BY <1>8, <2>0, <2>2, <2>6, <2>7
  <2> QED BY <2>3, <2>8
<1> QED
  BY <1>4, <1>9, <1>10, <1>11, <1>12

(* A call loses no letter that is not part of it.                           *)
LEMMA ToolSays ==
  ASSUME NEW p \in Parsers, p.mode = "Tool", Keeping(p), NEW finished \in BOOLEAN
  PROVE  Says(p, Tool(p, finished))
<1>0. PICK t, at : t = p.pending /\ at = Find(CLOSE_TOOL, t) OBVIOUS
<1>1. at > 0
  BY <1>0 DEF Keeping
<1>2. PICK rest : rest = Behind(CLOSE_TOOL, t) OBVIOUS
<1>3. PICK x : x = [p EXCEPT !.pending = rest, !.mode = "Text"] OBVIOUS
<1>4. t \in Texts /\ rest \in Texts
  BY <1>0, <1>2, ParserFields, MarkersAre, PartedTyped
<1>5. rest = From(t, at + Len(CLOSE_TOOL))
  BY <1>0, <1>1, <1>2 DEF Behind
<1>6. Tool(p, finished) = x
  BY <1>0, <1>1, <1>3, <1>5 DEF Tool
<1>7. /\ x \in Parsers /\ x.mode = "Text" /\ x.tools = p.tools /\ x.deltas = p.deltas
      /\ x.pending = rest /\ x.trim_answer_newlines = p.trim_answer_newlines
  BY <1>3, <1>4 DEF Parsers
<1>8. ToAnswer(x) = ToAnswer(p) /\ ToThink(x) = ToThink(p)
  BY <1>0, <1>2, <1>7 DEF ToAnswer, ToThink, Source
<1> QED
  BY <1>6, <1>7, <1>8, SaysSame

(* No turn loses a letter.                                                  *)
LEMMA TurnSays ==
  ASSUME NEW p \in Parsers, Keeping(p), NEW finished \in BOOLEAN
  PROVE  Says(p, Turn(p, finished))
<1>1. p.mode \in {"Reasoning", "Text", "Tool"}
  BY ParserFields
<1>2. CASE p.mode = "Reasoning"
  <2>1. Turn(p, finished) = Reasoning(p, finished)
    BY <1>2 DEF Turn
  <2> QED BY <1>2, <2>1, ReasoningSays
<1>3. CASE p.mode = "Text"
  <2>1. Turn(p, finished) = Text(p, finished)
    BY <1>3 DEF Turn
  <2> QED BY <1>3, <2>1, TextSays
<1>4. CASE p.mode = "Tool"
  <2>1. Turn(p, finished) = Tool(p, finished)
    BY <1>4 DEF Turn
  <2> QED BY <1>4, <2>1, ToolSays
<1> QED
  BY <1>1, <1>2, <1>3, <1>4

(* Nor does the loop.                                                       *)
LEMMA LoopSays ==
  ASSUME NEW p \in Parsers, Keeping(p), NEW finished \in BOOLEAN
  PROVE  Says(p, Loop(p, finished))
<1>0. PICK N : N = TurnsOf(p) OBVIOUS
<1>1. PICK F \in [0 .. N -> Parsers] : Turns(F, p, finished, N) /\ Loop(p, finished) = F[N]
  BY <1>0, LoopTurns
<1>2. N \in Nat
  BY <1>0, LoopTurns
<1> DEFINE P == {n \in 0 .. N : Says(p, F[n])}
<1>3. 0 \in P
  <2>1. F[0] = p /\ 0 \in 0 .. N
    BY <1>1, <1>2 DEF Turns
  <2>2. Says(p, p)
    BY DEF Says
  <2> QED BY <2>1, <2>2
<1>4. ASSUME NEW n \in 1 .. N, n - 1 \in P PROVE n \in P
  <2>1. n \in 0 .. N /\ n - 1 \in 0 .. N
    BY <1>2
  <2>2. PICK x, y : x = F[n - 1] /\ y = F[n] OBVIOUS
  <2>3. Says(p, x) /\ y = Turn(x, finished)
    BY <1>1, <1>4, <2>2 DEF Turns
  <2>4. x \in Parsers /\ Keeping(x)
    BY <2>3 DEF Says
  <2>5. Says(x, y)
    BY <2>3, <2>4, TurnSays
  <2>6. Says(p, y)
    BY <2>3, <2>5 DEF Says
  <2> QED BY <2>1, <2>2, <2>6
<1>5. N \in P
  <2>1. \A n \in 0 .. N : n \in P
    <3> HIDE DEF P
    <3> QED BY <1>2, <1>3, <1>4, UpTo
  <2>2. N \in 0 .. N
    BY <1>2
  <2> QED BY <2>1, <2>2
<1> QED
  BY <1>1, <1>5

(* At the end all is emitted of a text in front of which is no marker.      *)
LEMMA NothingEmitted ==
  ASSUME NEW t \in Texts, NEW marker \in Texts, Len(marker) > 0, ~IsPrefix(marker, t),
         Before(marker, t, TRUE) = 0
  PROVE  t = <<>>
<1>0. PICK at : at = Find(marker, t) OBVIOUS
<1>1. /\ at \in 0 .. Len(t) /\ Len(t) \in Nat
      /\ (at > 0 => at \in Occurrences(marker, t))
  BY <1>0, Found DEF Texts
<1>2. at = 0
  <2>1. SUFFICES ASSUME at # 0 PROVE FALSE
    OBVIOUS
  <2>2. at - 1 = 0
    BY <1>0, <1>1, <2>1 DEF Before
  <2>3. at = 1
    BY <1>1, <2>2
  <2>4. IsPrefix(marker, From(t, 1))
    BY <1>1, <2>3 DEF Occurrences
  <2>5. From(t, 1) = t
    BY DEF From, Texts
  <2> QED BY <2>4, <2>5
<1>3. Len(t) = 0
  BY <1>0, <1>1, <1>2 DEF Before
<1> QED
  BY <1>3 DEF Texts

(* A parser with no text has nothing to say.                                *)
LEMMA NothingToSay ==
  ASSUME NEW p \in Parsers, p.pending = <<>>
  PROVE  ToAnswer(p) = <<>> /\ ToThink(p) = <<>> /\ Source(p) = <<>>
<1>1. /\ InFront(CLOSE_THINK, <<>>) = <<>> /\ Behind(CLOSE_THINK, <<>>) = <<>>
      /\ Behind(CLOSE_TOOL, <<>>) = <<>>
  BY MarkersAre, PartedNothing
<1>2. p.trim_answer_newlines \in Nat /\ 2 \in Nat /\ p.mode \in {"Reasoning", "Text", "Tool"}
  BY ParserFields
<1>3. Cut(<<>>, p.trim_answer_newlines) = <<>> /\ Cut(<<>>, 2) = <<>>
  BY <1>2, CutNothing
<1>4. Body(p) = <<>>
  <2> PICK t : t = p.pending OBVIOUS
  <2>1. t \in Texts /\ Len(t) = 0
    BY DEF Texts
  <2>2. ~IsPrefix(OPEN_THINK, t)
    <3> PICK m : m = OPEN_THINK OBVIOUS
    <3>1. m \in Texts /\ Len(m) = 3
      BY MarkersAre
    <3>2. IsPrefix(m, t) <=> Len(m) <= Len(t) /\ \A i \in 1 .. Len(m) : m[i] = t[i]
      BY <2>1, <3>1, PrefixText
    <3> QED BY <2>1, <3>1, <3>2
  <2>3. Strip(OPEN_THINK, t) = t
    BY <2>2 DEF Strip
  <2> QED BY <2>3 DEF Body
<1>5. Source(p) = <<>>
  <2>1. CASE p.mode = "Reasoning"
    BY <1>1, <1>3, <1>4, <2>1 DEF Source
  <2>2. CASE p.mode = "Text"
    BY <1>3, <2>2 DEF Source
  <2>3. CASE p.mode = "Tool"
    BY <1>1, <1>3, <2>3 DEF Source
  <2> QED BY <1>2, <2>1, <2>2, <2>3
<1>6. ToAnswer(p) = <<>>
  BY <1>5, PlainNothing DEF ToAnswer
<1>7. ToThink(p) = <<>>
  BY <1>1, <1>4 DEF ToThink
<1> QED
  BY <1>5, <1>6, <1>7

(* A parser whose turns are over at the end has said everything.            *)
LEMMA EndOver ==
  ASSUME NEW e \in Parsers, Over(e, TRUE), Keeping(e)
  PROVE  ToAnswer(e) = <<>> /\ ToThink(e) = <<>>
<1>0. PICK t : t = e.pending OBVIOUS
<1>1. t \in Texts /\ Len(t) \in Nat /\ e.mode \in {"Reasoning", "Text", "Tool"}
      /\ e.initial_reasoning \in BOOLEAN /\ e.tools \in BOOLEAN
  BY <1>0, ParserFields
<1>2. SUFFICES t = <<>>
  BY <1>0, NothingToSay
<1>3. CASE e.mode = "Reasoning"
  <2>1. Reasoning(e, TRUE) = e
    BY <1>3 DEF Over, Turn
  <2>2. ~(e.initial_reasoning /\ IsPrefix(OPEN_THINK, t))
    <3>1. SUFFICES ASSUME e.initial_reasoning, IsPrefix(OPEN_THINK, t) PROVE FALSE
      OBVIOUS
    <3>2. PICK rest : rest = From(t, Len(OPEN_THINK) + 1) OBVIOUS
    <3>3. PICK x : x = [e EXCEPT !.pending = rest, !.initial_reasoning = FALSE] OBVIOUS
    <3>4. Reasoning(e, TRUE) = x
      BY <1>0, <3>1, <3>2, <3>3 DEF Reasoning
    <3>5. x.initial_reasoning = FALSE
      BY <3>3 DEF Parsers
    <3> QED BY <2>1, <3>1, <3>4, <3>5
  <2>3. ~IsPrefix(CLOSE_THINK, t)
    <3>1. SUFFICES ASSUME IsPrefix(CLOSE_THINK, t) PROVE FALSE
      OBVIOUS
    <3>2. PICK rest : rest = From(t, Len(CLOSE_THINK) + 1) OBVIOUS
    <3>3. PICK x : x = [e EXCEPT !.pending = rest, !.initial_reasoning = FALSE,
                                 !.mode = "Text", !.trim_answer_newlines = 2] OBVIOUS
    <3>4. Reasoning(e, TRUE) = x
      BY <1>0, <2>2, <3>1, <3>2, <3>3 DEF Reasoning
    <3>5. x.mode = "Text"
      BY <3>3 DEF Parsers
    <3> QED BY <1>3, <2>1, <3>4, <3>5
  <2>4. PICK x, m, kind : x = [e EXCEPT !.initial_reasoning = FALSE] /\ m = CLOSE_THINK
                          /\ kind = "Reasoning" OBVIOUS
  <2>5. Reasoning(e, TRUE) = EmitBefore(x, kind, m, TRUE)
    BY <1>0, <2>2, <2>3, <2>4 DEF Reasoning
  <2>6. x \in Parsers /\ x.pending = t /\ ~x.initial_reasoning
    BY <1>0, <2>4 DEF Parsers
  <2>7. PICK count : count = Before(m, t, TRUE) OBVIOUS
  <2>8. kind \in Kinds /\ m \in Texts /\ Len(m) > 0
    BY <2>4, MarkersAre DEF Kinds
  <2>9. e = Emit(x, kind, count) /\ count \in 0 .. Len(t)
    <3>1. EmitsBefore(x, kind, m, TRUE)
      BY <2>6, <2>8, EmitBeforeIs
    <3> QED BY <2>1, <2>5, <2>6, <2>7, <3>1 DEF EmitsBefore
  <2>10. Emits(x, kind, count, e)
    <3>1. Emits(x, kind, count, Emit(x, kind, count))
      BY <2>6, <2>8, <2>9, EmitSays
    <3> QED BY <2>9, <3>1
  <2>11. ~e.initial_reasoning /\ t = From(t, count + 1)
    BY <1>0, <2>6, <2>10 DEF Emits
  <2>12. count = 0
    <3> PICK k : k = count + 1 OBVIOUS
    <3>1. k \in Nat /\ 1 <= k /\ k <= Len(t) + 1
      BY <1>1, <2>9
    <3>2. Len(From(t, k)) = Len(t) - k + 1
      BY <1>1, <3>1, FromTyped
    <3> QED BY <1>1, <2>9, <2>11, <3>2
  <2>13. t = <<>>
    BY <1>1, <2>3, <2>4, <2>7, <2>8, <2>12, NothingEmitted
  <2> QED BY <2>11, <2>13
<1>4. CASE e.mode = "Text"
  <2>0. PICK q, r : q = Trimmed(e) /\ r = [q EXCEPT !.trim_answer_newlines = 0] OBVIOUS
  <2>1. TextTurn(e, TRUE, q, r) /\ q \in Parsers /\ Trims(e, q)
    BY <2>0, TextIs, TrimmedIs
  <2>2. Text(e, TRUE) = e
    BY <1>4 DEF Over, Turn
  <2>3. PICK s, c : s = q.pending /\ c = Newlines(t, e.trim_answer_newlines) OBVIOUS
  <2>4. /\ r \in Parsers /\ r.pending = s /\ r.mode = "Text" /\ s = From(t, c + 1)
    BY <1>0, <1>4, <2>1, <2>3 DEF TextTurn, Trims
  <2>5. /\ s \in Texts /\ Len(s) \in Nat
    BY <2>4, ParserFields
  <2>6. c \in 0 .. Len(t)
    <3> PICK n : n = e.trim_answer_newlines OBVIOUS
    <3>1. n \in Nat
      BY ParserFields
    <3> QED BY <1>1, <2>3, <3>1, NewlinesOf
  <2>7. Len(s) = Len(t) - c
    <3> PICK k : k = c + 1 OBVIOUS
    <3>1. k \in Nat /\ 1 <= k /\ k <= Len(t) + 1
      BY <1>1, <2>6
    <3>2. Len(From(t, k)) = Len(t) - k + 1
      BY <1>1, <3>1, FromTyped
    <3> QED BY <1>1, <2>4, <2>6, <3>2
  <2>8. CASE q.trim_answer_newlines > 0 /\ s = <<>>
    <3>1. e = q
      BY <2>1, <2>2, <2>3, <2>8 DEF TextTurn
    <3> QED BY <1>0, <1>4, <2>3, <2>8, <3>1
  <2>9. CASE ~(q.trim_answer_newlines > 0 /\ s = <<>>) /\ ~e.tools
    <3>0. PICK count, kind : count = Len(s) /\ kind = "Text" OBVIOUS
    <3>1. e = Emit(r, kind, count)
      BY <2>1, <2>2, <2>3, <2>4, <2>9, <3>0 DEF TextTurn
    <3>2. kind \in Kinds /\ count \in 0 .. Len(s)
      BY <2>5, <3>0 DEF Kinds
    <3>3. Emits(r, kind, count, Emit(r, kind, count))
      BY <2>4, <3>2, EmitSays
    <3>4. t = From(s, count + 1)
      BY <1>0, <2>4, <3>1, <3>3 DEF Emits
    <3>5. From(s, count + 1) = <<>>
      BY <2>5, <3>0, SubSeqEmpty DEF From, Texts
    <3> QED BY <1>4, <3>4, <3>5
  <2>10. CASE /\ ~(q.trim_answer_newlines > 0 /\ s = <<>>) /\ e.tools
              /\ IsPrefix(OPEN_TOOL, s)
    <3>0. PICK rest : rest = From(s, Len(OPEN_TOOL) + 1) OBVIOUS
    <3>1. PICK x : x = [r EXCEPT !.pending = rest, !.mode = "Tool"] OBVIOUS
    <3>2. e = x
      BY <2>1, <2>2, <2>3, <2>4, <2>10, <3>0, <3>1 DEF TextTurn
    <3>3. x.mode = "Tool"
      BY <2>4, <3>1 DEF Parsers
    <3> QED BY <1>4, <3>2, <3>3
  <2>11. CASE /\ ~(q.trim_answer_newlines > 0 /\ s = <<>>) /\ e.tools
              /\ ~IsPrefix(OPEN_TOOL, s)
    <3>0. PICK m, kind, count : m = OPEN_TOOL /\ kind = "Text" /\ count = Before(m, s, TRUE) OBVIOUS
    <3>1. m \in Texts /\ Len(m) > 0 /\ kind \in Kinds
      BY <3>0, MarkersAre DEF Kinds
    <3>2. EmitsBefore(r, kind, m, TRUE)
      BY <2>4, <3>1, EmitBeforeIs
    <3>3. e = EmitBefore(r, kind, m, TRUE)
      BY <2>1, <2>2, <2>3, <2>4, <2>11, <3>0 DEF TextTurn
    <3>4. e = Emit(r, kind, count) /\ count \in 0 .. Len(s)
      BY <2>4, <3>0, <3>2, <3>3 DEF EmitsBefore
    <3>5. Emits(r, kind, count, Emit(r, kind, count))
      BY <2>4, <3>1, <3>4, EmitSays
    <3>6. t = From(s, count + 1)
      BY <1>0, <2>4, <3>4, <3>5 DEF Emits
    <3>7. Len(t) = Len(s) - count
      <4> PICK k : k = count + 1 OBVIOUS
      <4>1. k \in Nat /\ 1 <= k /\ k <= Len(s) + 1
        BY <2>5, <3>4
      <4>2. Len(From(s, k)) = Len(s) - k + 1
        BY <2>5, <4>1, FromTyped
      <4> QED BY <2>5, <3>4, <3>6, <4>2
    <3>8. count = 0 /\ c = 0
      BY <1>1, <2>5, <2>6, <2>7, <3>4, <3>7
    <3>9. s = <<>>
      BY <2>5, <2>11, <3>0, <3>1, <3>8, NothingEmitted
    <3>10. Len(t) = 0
      BY <2>7, <3>8, <3>9, <1>1
    <3> QED BY <1>1, <1>4, <3>10 DEF Texts
  <2> QED BY <1>1, <2>8, <2>9, <2>10, <2>11
<1>5. CASE e.mode = "Tool"
  <2>0. PICK at, rest : at = Find(CLOSE_TOOL, t) /\ rest = From(t, at + Len(CLOSE_TOOL)) OBVIOUS
  <2>1. at > 0
    BY <1>0, <1>5, <2>0 DEF Keeping
  <2>2. PICK x : x = [e EXCEPT !.pending = rest, !.mode = "Text"] OBVIOUS
  <2>3. e = x
    BY <1>0, <1>5, <2>0, <2>1, <2>2 DEF Over, Turn, Tool
  <2>4. x.mode = "Text"
    BY <2>2 DEF Parsers
  <2> QED BY <1>5, <2>3, <2>4
<1> QED
  BY <1>1, <1>3, <1>4, <1>5

(* Nothing is trimmed of nothing.                                           *)
LEMMA TrimNothing == Trim(<<>>) = <<>>
<1> PICK t : t = <<>> OBVIOUS
<1>1. t \in Texts /\ Solid(t) = {}
  BY DEF Texts, Solid
<1>2. Trim(t) = <<>>
  BY <1>1, TrimIs
<1> QED
  BY <1>2

(* A tag once at the most, with the newline behind it, leaves none in front.*)
LEMMA TagStripped ==
  ASSUME NEW t \in Texts,
         \/ Occurrences(BARE_THINK, t) = {}
         \/ IsPrefix(OPEN_THINK, t) /\ Occurrences(BARE_THINK, t) = {1}
  PROVE  Strip(BARE_THINK, Strip(OPEN_THINK, t)) = Strip(OPEN_THINK, t)
<1>0. PICK b, m : b = Strip(OPEN_THINK, t) /\ m = BARE_THINK OBVIOUS
<1>1. m \in Texts /\ Len(m) > 0 /\ OPEN_THINK \in Texts /\ Len(OPEN_THINK) = 3
  BY <1>0, Markers
<1>2. b \in Texts
  BY <1>0, <1>1, Stripped
<1>3. SUFFICES ASSUME IsPrefix(m, b) PROVE FALSE
  BY <1>0 DEF Strip
<1>4. 1 \in Occurrences(m, b)
  <2>1. Find(m, b) = 1
    BY <1>1, <1>2, <1>3, AtFront
  <2>2. Find(m, b) > 0 => Find(m, b) \in Occurrences(m, b)
    BY <1>1, <1>2, Found
  <2> QED BY <2>1, <2>2
<1>5. CASE ~IsPrefix(OPEN_THINK, t)
  <2>1. b = t
    BY <1>0, <1>5 DEF Strip
  <2> QED BY <1>0, <1>4, <1>5, <2>1
<1>6. CASE IsPrefix(OPEN_THINK, t)
  <2>1. PICK n, i : n = 3 /\ i = 1 OBVIOUS
  <2>2. b = From(t, n + 1) /\ Len(b) = Len(t) - n /\ n \in 0 .. Len(t)
    <3>1. b = From(t, Len(OPEN_THINK) + 1)
      BY <1>0, <1>6 DEF Strip
    <3>2. Len(From(t, Len(OPEN_THINK) + 1)) = Len(t) - Len(OPEN_THINK) /\ Len(OPEN_THINK) <= Len(t)
      BY <1>1, <1>6, MarkerTaken
    <3>3. Len(t) \in Nat
      BY DEF Texts
    <3> QED BY <1>1, <2>1, <3>1, <3>2, <3>3
  <2>3. i \in 1 .. Len(t) - n
    <3>1. 1 \in 1 .. Len(b)
      BY <1>2, <1>4 DEF Occurrences, Texts
    <3> QED BY <2>1, <2>2, <3>1
  <2>4. n + i \in Occurrences(m, t)
    <3>1. i \in Occurrences(m, From(t, n + 1))
      BY <1>4, <2>1, <2>2
    <3> QED BY <1>1, <2>2, <2>3, <3>1, OccursShifted
  <2>5. n + i = 4
    BY <2>1
  <2> QED BY <1>0, <2>4, <2>5
<1> QED
  BY <1>5, <1>6

(* What parse_model_output makes of a text that keeps to the protocol is    *)
(* what a new parser that holds all of it is to say, trimmed.               *)
LEMMA AnswerIs ==
  ASSUME NEW t \in Texts, NEW th \in BOOLEAN, NEW to \in BOOLEAN,
         NEW g, g = parse_model_output(t, th, to),
         to => Occurrences(OPEN_TOOL, g.text) = {},
         th => \/ Occurrences(BARE_THINK, t) = {}
               \/ IsPrefix(OPEN_THINK, t) /\ Occurrences(BARE_THINK, t) = {1},
         NEW p \in Parsers, p.pending = t, p.mode = IF th THEN "Reasoning" ELSE "Text",
         p.tools = to, p.initial_reasoning = th, p.trim_answer_newlines = 0
  PROVE  /\ Keeping(p) /\ g.reasoning = Trim(ToThink(p))
         /\ g.text = IF to THEN Trim(ToAnswer(p)) ELSE ToAnswer(p)
<1>0. PICK parts : parts = IF th THEN split_reasoning(t) ELSE [reasoning |-> <<>>, answer |-> t]
  OBVIOUS
<1>1. parts.reasoning = Trim(ToThink(p)) /\ parts.answer = Source(p)
  <2>1. CASE th
    <3>0. PICK b, at : b = Strip(OPEN_THINK, t) /\ at = Find(CLOSE_THINK, b) OBVIOUS
    <3>1. Strip(BARE_THINK, Strip(OPEN_THINK, t)) = b
      BY <2>1, <3>0, TagStripped
    <3>2. Body(p) = b /\ b \in Texts
      <4>1. Body(p) = b
        BY <2>1, <3>0 DEF Body
      <4> QED BY <4>1, BodyTyped
    <3>3. ToThink(p) = InFront(CLOSE_THINK, b) /\ Source(p) = Cut(Behind(CLOSE_THINK, b), 2)
      BY <2>1, <3>2 DEF ToThink, Source
    <3>4. CASE at = 0
      <4>1. parts = [reasoning |-> Trim(b), answer |-> <<>>]
        BY <1>0, <2>1, <3>0, <3>1, <3>4 DEF split_reasoning
      <4>2. InFront(CLOSE_THINK, b) = b /\ Behind(CLOSE_THINK, b) = <<>>
        BY <3>0, <3>4 DEF InFront, Behind
      <4>3. Cut(<<>>, 2) = <<>>
        <5>1. 2 \in Nat
          OBVIOUS
        <5> QED BY <5>1, CutNothing
      <4> QED BY <3>3, <4>1, <4>2, <4>3
    <3>5. CASE at # 0
      <4>0. PICK a, f : a = Behind(CLOSE_THINK, b) /\ f = InFront(CLOSE_THINK, b) OBVIOUS
      <4>1. a = From(b, at + Len(CLOSE_THINK)) /\ f = SubSeq(b, 1, at - 1)
        BY <3>0, <3>5, <4>0 DEF InFront, Behind
      <4>2. a \in Texts
        BY <3>2, <4>0, MarkersAre, PartedTyped
      <4>3. parts = [reasoning |-> Trim(f), answer |-> Strip(<<Newline>>, Strip(<<Newline>>, a))]
        BY <1>0, <2>1, <3>0, <3>1, <3>5, <4>1 DEF split_reasoning
      <4>4. Strip(<<Newline>>, Strip(<<Newline>>, a)) = Cut(a, 2)
        BY <4>2, StripTwice
      <4> QED BY <3>3, <4>0, <4>3, <4>4
    <3> QED BY <3>4, <3>5
  <2>2. CASE ~th
    <3>1. parts.reasoning = <<>> /\ parts.answer = t
      BY <1>0, <2>2
    <3>2. ToThink(p) = <<>> /\ Source(p) = Cut(t, 0)
      BY <2>2 DEF ToThink, Source
    <3>3. Cut(t, 0) = t
      BY CutNothing
    <3> QED BY <3>1, <3>2, <3>3, TrimNothing
  <2> QED BY <2>1, <2>2
<1>2. PICK s, calls : s = Source(p) /\ calls = parse_tool_calls(s, to) OBVIOUS
<1>3. g.reasoning = parts.reasoning /\ g.text = calls.text
  <2>1. g = [reasoning |-> parts.reasoning, text |-> calls.text, calls |-> calls.calls]
    BY <1>0, <1>1, <1>2 DEF parse_model_output
  <2> QED BY <2>1
<1>4. g.text = IF to THEN Trim(ToAnswer(p)) ELSE ToAnswer(p)
  <2>1. calls.text = IF to THEN Trim(Outside(s)) ELSE s
    BY <1>2 DEF parse_tool_calls, Outside
  <2> QED BY <1>2, <1>3, <2>1 DEF ToAnswer, Plain
<1>5. Keeping(p)
  <2>1. ASSUME to PROVE Kept(s)
    <3>1. PICK o : o = Outside(s) OBVIOUS
    <3>2. o \in Texts
      BY <1>2, <3>1, ToSayTyped, OutsideTyped
    <3>3. g.text = Trim(o)
      BY <1>2, <1>4, <2>1, <3>1 DEF ToAnswer, Plain
    <3>4. Occurrences(OPEN_TOOL, o) = {}
      BY <2>1, <3>2, <3>3, TrimKeepsCalls
    <3> QED BY <3>1, <3>4 DEF Kept
  <2> QED BY <1>2, <2>1 DEF Keeping
<1> QED
  BY <1>1, <1>3, <1>4, <1>5

(* What a parser says of a text, of the piece and at the end.               *)
LEMMA SaysAll ==
  ASSUME NEW p \in Parsers, p.deltas = <<>>, Keeping(p),
         NEW m, m = Loop(p, FALSE), NEW e, e = finish(m)
  PROVE  /\ TextOf("Text", m.deltas \o e.deltas) = ToAnswer(p)
         /\ TextOf("Reasoning", m.deltas \o e.deltas) = ToThink(p)
<1>0. PICK none : none = p.deltas OBVIOUS
<1>1. none = <<>> /\ none \in Seq(DeltaSet)
  BY <1>0
<1>2. PICK n : n = [m EXCEPT !.deltas = none] OBVIOUS
<1>3. Says(p, m) /\ m \in Parsers /\ Keeping(m)
  BY LoopSays DEF Says
<1>4. /\ n \in Parsers /\ n.mode = m.mode /\ n.tools = m.tools /\ n.pending = m.pending
      /\ n.initial_reasoning = m.initial_reasoning
      /\ n.trim_answer_newlines = m.trim_answer_newlines /\ n.deltas = none
  BY <1>1, <1>2, <1>3 DEF Parsers
<1>5. /\ Source(n) = Source(m) /\ ToAnswer(n) = ToAnswer(m) /\ ToThink(n) = ToThink(m)
  BY <1>4 DEF Source, Body, ToAnswer, ToThink
<1>6. Keeping(n)
  BY <1>3, <1>4, <1>5 DEF Keeping
<1>7. e = Loop(n, TRUE)
  BY <1>1, <1>2 DEF finish
<1>8. Says(n, e) /\ e \in Parsers /\ Keeping(e)
  BY <1>4, <1>6, <1>7, LoopSays DEF Says
<1>9. Over(e, TRUE)
  BY <1>4, <1>7, LoopTurns
<1>10. ToAnswer(e) = <<>> /\ ToThink(e) = <<>>
  BY <1>8, <1>9, EndOver
<1>11. ASSUME NEW kind \in Kinds, NEW x \in Texts, NEW y \in Texts,
              TextOf(kind, m.deltas) \o y = TextOf(kind, none) \o x,
              TextOf(kind, e.deltas) \o <<>> = TextOf(kind, none) \o y
       PROVE  TextOf(kind, m.deltas \o e.deltas) = x
  <2>1. PICK d, f : d = m.deltas /\ f = e.deltas OBVIOUS
  <2>2. d \in Seq(DeltaSet) /\ f \in Seq(DeltaSet)
    BY <1>3, <1>8, <2>1, ParserFields
  <2>3. TextOf(kind, d \o f) = TextOf(kind, d) \o TextOf(kind, f) /\ TextOf(kind, f) \in Texts
    BY <2>2, TextOfConcat
  <2>4. TextOf(kind, none) = <<>>
    BY <1>1, TextOfNothing
  <2>5. TextOf(kind, f) = y
    <3>1. TextOf(kind, f) \o <<>> = TextOf(kind, f) /\ <<>> \o y = y
      BY <1>11, <2>3, ConcatEmptySeq DEF Texts
    <3> QED BY <1>11, <2>1, <2>4, <3>1
  <2>6. <<>> \o x = x
    BY <1>11, ConcatEmptySeq DEF Texts
  <2> QED BY <1>11, <2>1, <2>3, <2>4, <2>5, <2>6
<1>12. TextOf("Text", m.deltas \o e.deltas) = ToAnswer(p)
  <2> PICK kind, x, y : kind = "Text" /\ x = ToAnswer(p) /\ y = ToAnswer(m) OBVIOUS
  <2>1. kind \in Kinds /\ x \in Texts /\ y \in Texts
    BY <1>3, ToSayTyped DEF Kinds
  <2>2. TextOf(kind, m.deltas) \o y = TextOf(kind, none) \o x
    BY <1>0, <1>3 DEF Says
  <2>3. TextOf(kind, e.deltas) \o <<>> = TextOf(kind, none) \o y
    BY <1>4, <1>5, <1>8, <1>10 DEF Says
  <2> QED BY <1>11, <2>1, <2>2, <2>3
<1>13. TextOf("Reasoning", m.deltas \o e.deltas) = ToThink(p)
  <2> PICK kind, x, y : kind = "Reasoning" /\ x = ToThink(p) /\ y = ToThink(m) OBVIOUS
  <2>1. kind \in Kinds /\ x \in Texts /\ y \in Texts
    BY <1>3, ToSayTyped DEF Kinds
  <2>2. TextOf(kind, m.deltas) \o y = TextOf(kind, none) \o x
    BY <1>0, <1>3 DEF Says
  <2>3. TextOf(kind, e.deltas) \o <<>> = TextOf(kind, none) \o y
    BY <1>4, <1>5, <1>8, <1>10 DEF Says
  <2> QED BY <1>11, <2>1, <2>2, <2>3
<1> QED
  BY <1>12, <1>13

(* Streamed in one piece, an answer in the protocol is the parsed one.      *)
LEMMA WholeAnswer ==
  ASSUME Typed, KeptToProtocol,
         NEW m, m = push_raw(NewParser(thinking, tools), raw),
         NEW deltas, deltas = m.deltas \o finish(m).deltas
  PROVE  /\ Trim(TextOf("Text", deltas)) = Trim(Generation.text)
         /\ Trim(TextOf("Reasoning", deltas)) = Generation.reasoning
         /\ Trim(Generation.reasoning) = Generation.reasoning
<1>0. PICK o, p, g, e : /\ o = NewParser(thinking, tools) /\ p = Longer(o, raw)
                        /\ g = Generation /\ e = finish(m)
  OBVIOUS
<1>1. raw \in Texts /\ thinking \in BOOLEAN /\ tools \in BOOLEAN
  BY DEF Typed
<1>2. /\ o \in Parsers /\ o.deltas = <<>> /\ o.pending = <<>> /\ o.tools = tools
      /\ o.mode = (IF thinking THEN "Reasoning" ELSE "Text")
      /\ o.initial_reasoning = thinking /\ o.trim_answer_newlines = 0
  <2>1. o \in Parsers
    BY <1>0, HeardTyped
  <2> QED BY <1>0, <2>1 DEF NewParser
<1>3. /\ p \in Parsers /\ p.deltas = <<>> /\ p.pending = raw /\ p.tools = tools
      /\ p.mode = (IF thinking THEN "Reasoning" ELSE "Text")
      /\ p.initial_reasoning = thinking /\ p.trim_answer_newlines = 0
  <2>1. <<>> \o raw = raw
    BY <1>1, ConcatEmptySeq DEF Texts
  <2>2. /\ p \in Parsers /\ p.deltas = o.deltas /\ p.pending = o.pending \o raw
        /\ p.tools = o.tools /\ p.mode = o.mode
        /\ p.initial_reasoning = o.initial_reasoning
        /\ p.trim_answer_newlines = o.trim_answer_newlines
    BY <1>0, <1>1, <1>2, LongerTyped
  <2> QED BY <1>2, <2>1, <2>2
<1>4. /\ Keeping(p) /\ g.reasoning = Trim(ToThink(p))
      /\ g.text = IF tools THEN Trim(ToAnswer(p)) ELSE ToAnswer(p)
  <2>1. PICK t, th, to : t = raw /\ th = thinking /\ to = tools OBVIOUS
  <2>2. g = parse_model_output(t, th, to)
    BY <1>0, <2>1 DEF Generation
  <2>3. /\ to => Occurrences(OPEN_TOOL, g.text) = {}
        /\ th => \/ Occurrences(BARE_THINK, t) = {}
                 \/ IsPrefix(OPEN_THINK, t) /\ Occurrences(BARE_THINK, t) = {1}
    BY <1>0, <2>1 DEF KeptToProtocol
  <2>4. t \in Texts /\ th \in BOOLEAN /\ to \in BOOLEAN
    BY <1>1, <2>1
  <2>5. /\ p.pending = t /\ p.mode = (IF th THEN "Reasoning" ELSE "Text")
        /\ p.tools = to /\ p.initial_reasoning = th /\ p.trim_answer_newlines = 0
    BY <1>3, <2>1
  <2>6. /\ Keeping(p) /\ g.reasoning = Trim(ToThink(p))
        /\ g.text = IF to THEN Trim(ToAnswer(p)) ELSE ToAnswer(p)
    BY <1>3, <2>2, <2>3, <2>4, <2>5, AnswerIs
  <2> QED BY <2>1, <2>6
<1>5. m = Loop(p, FALSE)
  <2>1. push_raw(o, raw) = Loop(Longer(o, raw), FALSE)
    BY <1>1, <1>2, PushIs
  <2> QED BY <1>0, <2>1
<1>6. TextOf("Text", deltas) = ToAnswer(p) /\ TextOf("Reasoning", deltas) = ToThink(p)
  BY <1>0, <1>3, <1>4, <1>5, SaysAll
<1>7. Trim(Trim(ToAnswer(p))) = Trim(ToAnswer(p)) /\ Trim(Trim(ToThink(p))) = Trim(ToThink(p))
  BY <1>3, ToSayTyped, TrimTwice
<1> QED
  BY <1>0, <1>4, <1>6, <1>7

-----------------------------------------------------------------------------
(* An answer that came at once, of an engine that streams no pieces.        *)

AtOnce ==
  end = "finished" /\ arrived = 0 =>
    reasoning = Generation.reasoning /\ text = Generation.text

(* What a delta says of what there is.                                      *)
LEMMA DeltaSays ==
  ASSUME NEW kind \in Kinds, NEW k \in Kinds, NEW t \in Texts
  PROVE  /\ Delta(k, t) \in Seq(DeltaSet)
         /\ TextOf(kind, Delta(k, t)) = IF k = kind THEN t ELSE <<>>
<1>1. CASE t = <<>>
  <2>1. Delta(k, t) = <<>> /\ <<>> \in Seq(DeltaSet)
    BY <1>1 DEF Delta
  <2> QED BY <1>1, <2>1, TextOfNothing
<1>2. CASE t # <<>>
  <2>1. PICK d : d = [kind |-> k, text |-> t] OBVIOUS
  <2>2. d \in DeltaSet /\ d.kind = k /\ d.text = t
    BY <2>1 DEF DeltaSet
  <2>3. Delta(k, t) = <<d>> /\ <<d>> \in Seq(DeltaSet)
    BY <1>2, <2>1, <2>2 DEF Delta
  <2>4. TextOf(kind, <<d>>) = IF d.kind = kind THEN d.text ELSE <<>>
    BY <2>2, TextOfOne
  <2> QED BY <2>2, <2>3, <2>4
<1> QED
  BY <1>1, <1>2

(* What the deltas of a generation say is its reasoning and its text.       *)
LEMMA GenerationSays ==
  ASSUME Typed
  PROVE  /\ generation_deltas \in Seq(DeltaSet)
         /\ TextOf("Reasoning", generation_deltas) = Generation.reasoning
         /\ TextOf("Text", generation_deltas) = Generation.text
         /\ Generation.reasoning \in Texts /\ Generation.text \in Texts
<1>0. PICK a, b, x, y, k, l :
        /\ k = "Reasoning" /\ l = "Text" /\ x = Generation.reasoning /\ y = Generation.text
        /\ a = Delta(k, x) /\ b = Delta(l, y)
  OBVIOUS
<1>1. x \in Texts /\ y \in Texts
  BY <1>0, GenerationTyped DEF Typed, Generation
<1>2. k \in Kinds /\ l \in Kinds /\ k # l
  BY <1>0 DEF Kinds
<1>3. /\ a \in Seq(DeltaSet) /\ TextOf(k, a) = x /\ TextOf(l, a) = <<>>
      /\ b \in Seq(DeltaSet) /\ TextOf(k, b) = <<>> /\ TextOf(l, b) = y
  BY <1>0, <1>1, <1>2, DeltaSays
<1>4. TextOf(k, a \o b) = x \o <<>> /\ TextOf(l, a \o b) = <<>> \o y /\ a \o b \in Seq(DeltaSet)
  <2>1. TextOf(k, a \o b) = TextOf(k, a) \o TextOf(k, b)
    BY <1>2, <1>3, TextOfConcat
  <2>2. TextOf(l, a \o b) = TextOf(l, a) \o TextOf(l, b)
    BY <1>2, <1>3, TextOfConcat
  <2>3. a \o b \in Seq(DeltaSet)
    BY <1>3, ConcatProperties
  <2> QED BY <1>3, <2>1, <2>2, <2>3
<1>5. x \o <<>> = x /\ <<>> \o y = y
  BY <1>1, ConcatEmptySeq DEF Texts
<1>6. generation_deltas = a \o b
  BY <1>0 DEF generation_deltas
<1> QED
  BY <1>0, <1>1, <1>4, <1>5, <1>6

(* A parser that was given nothing says nothing at the end.                 *)
LEMMA SilentEnd ==
  ASSUME NEW p \in Parsers, p.deltas = <<>>, p.pending = <<>>, p.mode # "Tool",
         NEW e, e = finish(p)
  PROVE  /\ e.deltas \in Seq(DeltaSet)
         /\ \A kind \in Kinds : TextOf(kind, e.deltas) = <<>>
<1>0. PICK none : none = <<>> OBVIOUS
<1>1. none \in Texts
  BY <1>0 DEF Texts
<1>2. e = Loop(p, TRUE)
  BY <1>1, PushIs
<1>3. ToAnswer(p) = none /\ ToThink(p) = none /\ Source(p) = none
  BY <1>0, NothingToSay
<1>4. Keeping(p)
  <2>1. Outside(none) = none
    <3>1. Find(OPEN_TOOL, none) = 0
      BY <1>0, MarkersAre, PartedNothing
    <3> QED BY <1>1, <3>1, NoCalls
  <2>2. Occurrences(OPEN_TOOL, none) = {}
    BY <1>0 DEF Occurrences
  <2> QED BY <1>3, <2>1, <2>2 DEF Keeping, Kept
<1>5. Says(p, e) /\ e \in Parsers /\ Keeping(e)
  BY <1>2, <1>4, LoopSays DEF Says
<1>6. Over(e, TRUE)
  BY <1>2, LoopTurns
<1>7. ToAnswer(e) = none /\ ToThink(e) = none
  BY <1>0, <1>5, <1>6, EndOver
<1>8. e.deltas \in Seq(DeltaSet)
  BY <1>5, ParserFields
<1>9. ASSUME NEW kind \in Kinds PROVE TextOf(kind, e.deltas) = <<>>
  <2>1. PICK d : d = e.deltas OBVIOUS
  <2>2. TextOf(kind, d) \in Texts /\ TextOf(kind, p.deltas) = none
    BY <1>0, <1>8, <2>1, TextOfConcat, TextOfNothing
  <2>3. TextOf(kind, d) \o none = TextOf(kind, p.deltas) \o none
    <3>1. kind = "Reasoning" \/ kind = "Text"
      BY DEF Kinds
    <3> QED BY <1>3, <1>5, <1>7, <2>1, <3>1 DEF Says
  <2>4. TextOf(kind, d) \o none = TextOf(kind, d) /\ none \o none = none
    BY <1>0, <1>1, <2>2, ConcatEmptySeq DEF Texts
  <2> QED BY <1>0, <2>1, <2>2, <2>3, <2>4
<1> QED
  BY <1>8, <1>9

(* The end of an answer that came at once.                                  *)
LEMMA FinishedAtOnce ==
  ASSUME Inductive, KeptUp, NEW usage \in BOOLEAN, Finished(usage), arrived = 0
  PROVE  AtOnce'
<1>0. PICK parsed, p, gd, deltas :
        /\ parsed = finish(output) /\ p = NewParser(thinking, tools)
        /\ gd = generation_deltas /\ deltas = gd \o parsed.deltas
  OBVIOUS
<1>1. /\ Typed /\ end = "open" /\ output \in Parsers /\ output.deltas = <<>>
      /\ thinking \in BOOLEAN /\ tools \in BOOLEAN
  BY DEF Inductive, Finished, Typed
<1>2. /\ reasoning' = reasoning \o TextOf("Reasoning", deltas)
      /\ text' = text \o TextOf("Text", deltas)
      /\ thinking' = thinking /\ tools' = tools /\ raw' = raw
  BY <1>0 DEF Finished, request
<1>3. Whole = p /\ p \in Parsers /\ p.deltas = <<>> /\ p.pending = <<>> /\ p.mode # "Tool"
  <2>1. p \in Parsers /\ p.deltas = <<>> /\ p.pending = <<>> /\ p.mode # "Tool"
    <3>1. p.mode # "Tool"
      BY <1>0 DEF NewParser
    <3> QED BY <1>0, <1>1, <3>1, HeardTyped
  <2>2. PICK none : none = <<>> OBVIOUS
  <2>3. Heard = none /\ none \in Texts
    BY <2>2 DEF Heard, Texts
  <2>4. Longer(p, none) = p
    <3>1. PICK j : j = Longer(p, none) OBVIOUS
    <3>2. none \o none = none
      BY <2>2, <2>3, ConcatEmptySeq DEF Texts
    <3>3. /\ j \in Parsers /\ j.mode = p.mode /\ j.tools = p.tools /\ j.deltas = p.deltas
          /\ j.initial_reasoning = p.initial_reasoning
          /\ j.trim_answer_newlines = p.trim_answer_newlines
          /\ j.pending = p.pending \o none
      BY <2>1, <2>3, <3>1, LongerTyped
    <3>4. j = p
      BY <2>1, <2>2, <3>2, <3>3, SameParser
    <3> QED BY <3>1, <3>4
  <2>5. Loop(p, FALSE) = p
    BY <1>0, <1>1, NewWaits
  <2> QED BY <1>0, <2>1, <2>3, <2>4, <2>5 DEF Whole
<1>4. Ahead(p, output, Said)
  BY <1>1, <1>3 DEF KeptUp
<1>5. output = p
  BY <1>1, <1>3, <1>4, SameParser DEF Ahead
<1>6. reasoning = <<>> /\ text = <<>>
  <2>1. ASSUME NEW kind \in Kinds PROVE Said[kind] = <<>>
    <3>1. TextOf(kind, p.deltas) = Said[kind] \o TextOf(kind, output.deltas)
      BY <1>4 DEF Ahead
    <3>2. Said[kind] \o TextOf(kind, <<>>) = Said[kind]
      BY SaidTyped, EmptySaid
    <3>3. TextOf(kind, <<>>) = <<>>
      BY TextOfNothing
    <3> QED BY <1>1, <1>3, <3>1, <3>2, <3>3
  <2>2. "Reasoning" \in Kinds /\ "Text" \in Kinds
    BY DEF Kinds
  <2> QED BY <2>1, <2>2, SaidTyped
<1>7. /\ parsed.deltas \in Seq(DeltaSet)
      /\ \A kind \in Kinds : TextOf(kind, parsed.deltas) = <<>>
  BY <1>0, <1>3, <1>5, SilentEnd
<1>8. /\ gd \in Seq(DeltaSet)
      /\ TextOf("Reasoning", gd) = Generation.reasoning /\ TextOf("Text", gd) = Generation.text
      /\ Generation.reasoning \in Texts /\ Generation.text \in Texts
  BY <1>0, <1>1, GenerationSays
<1>9. ASSUME NEW kind \in Kinds, NEW x \in Texts, TextOf(kind, gd) = x
      PROVE  <<>> \o TextOf(kind, deltas) = x
  <2>1. PICK d : d = parsed.deltas OBVIOUS
  <2>2. TextOf(kind, gd \o d) = TextOf(kind, gd) \o TextOf(kind, d)
    BY <1>7, <1>8, <2>1, TextOfConcat
  <2>3. x \o <<>> = x /\ <<>> \o x = x
    BY ConcatEmptySeq DEF Texts
  <2> QED BY <1>0, <1>7, <1>9, <2>1, <2>2, <2>3
<1>10. reasoning' = Generation.reasoning /\ text' = Generation.text
  <2>1. "Reasoning" \in Kinds /\ "Text" \in Kinds
    BY DEF Kinds
  <2> QED BY <1>2, <1>6, <1>8, <1>9, <2>1
<1>11. Generation' = Generation
  BY <1>2 DEF Generation
<1> QED
  BY <1>10, <1>11 DEF AtOnce

(* parse_model_output, and push_raw and finish of StreamingOutputParser: an *)
(* answer that keeps to the protocol of its template is, streamed in any    *)
(* pieces or in none, the answer a client gets without streaming, up to     *)
(* the white space at its ends.                                             *)
THEOREM StreamedIsAnswered ==
  Spec => []StreamedAsAnswered
<1>1. Init => KeptUp /\ AtOnce
  <2>1. Init => AtOnce
    BY DEF Init, AtOnce
  <2> QED BY <2>1, InitKeepsUp
<1>2. Inductive /\ KeptUp /\ AtOnce /\ [Next]_vars => KeptUp' /\ AtOnce'
  <2> SUFFICES ASSUME Inductive, KeptUp, AtOnce, [Next]_vars PROVE KeptUp' /\ AtOnce'
    OBVIOUS
  <2>1. CASE Started
    <3>1. KeptUp'
      BY <2>1, OthersKeepUp DEF Started, request
    <3>2. end' # "finished"
      BY <2>1 DEF Started
    <3> QED BY <3>1, <3>2 DEF AtOnce
  <2>2. CASE \E length \in Pieces : RawToken(length)
    <3>1. KeptUp'
      BY <2>2, RawTokenKeepsUp
    <3>2. end' # "finished"
      BY <2>2 DEF RawToken
    <3> QED BY <3>1, <3>2 DEF AtOnce
  <2>3. CASE \E usage \in BOOLEAN : Finished(usage)
    <3>1. PICK usage \in BOOLEAN : Finished(usage)
      BY <2>3
    <3>2. KeptUp'
      BY <3>1, FinishedKeepsUp
    <3>3. AtOnce'
      <4>1. CASE arrived = 0
        BY <3>1, <4>1, FinishedAtOnce
      <4>2. CASE arrived # 0
        <5>1. arrived' = arrived
          BY <3>1 DEF Finished
        <5> QED BY <4>2, <5>1 DEF AtOnce
      <4> QED BY <4>1, <4>2
    <3> QED BY <3>2, <3>3
  <2>4. CASE Failed
    <3>1. KeptUp'
      BY <2>4, OthersKeepUp DEF Failed, request
    <3>2. end' # "finished"
      BY <2>4 DEF Failed
    <3> QED BY <3>1, <3>2 DEF AtOnce
  <2>5. CASE UNCHANGED vars
    <3>1. KeptUp'
      BY <2>5, OthersKeepUp DEF vars
    <3>2. AtOnce'
      BY <2>5 DEF vars, AtOnce, Generation
    <3> QED BY <3>1, <3>2
  <2> QED BY <2>1, <2>2, <2>3, <2>4, <2>5 DEF Next
<1>3. Inductive /\ KeptUp /\ AtOnce => StreamedAsAnswered
  <2> SUFFICES ASSUME Inductive, KeptUp, AtOnce, end = "finished", KeptToProtocol
               PROVE  /\ Trim(text) = Trim(Generation.text)
                      /\ Trim(reasoning) = Generation.reasoning
    BY DEF StreamedAsAnswered
  <2>1. PICK m, deltas : /\ m = push_raw(NewParser(thinking, tools), raw)
                         /\ deltas = m.deltas \o finish(m).deltas
    OBVIOUS
  <2>2. Typed
    BY DEF Inductive
  <2>3. /\ Trim(TextOf("Text", deltas)) = Trim(Generation.text)
        /\ Trim(TextOf("Reasoning", deltas)) = Generation.reasoning
        /\ Trim(Generation.reasoning) = Generation.reasoning
    BY <2>1, <2>2, WholeAnswer
  <2>4. CASE arrived = 0
    BY <2>3, <2>4 DEF AtOnce
  <2>5. CASE arrived # 0
    <3>1. arrived > 0
      <4>1. arrived \in 0 .. Len(raw) /\ Len(raw) \in Nat
        BY <2>2 DEF Typed, Texts
      <4> QED BY <2>5, <4>1
    <3>2. reasoning = TextOf("Reasoning", deltas) /\ text = TextOf("Text", deltas)
      BY <2>1, <3>1 DEF KeptUp, PiecesDoNotMatter
    <3> QED BY <2>3, <3>2
  <2> QED BY <2>4, <2>5
<1> QED
  BY StreamInductive, <1>1, <1>2, <1>3, PTL DEF Spec

=============================================================================
