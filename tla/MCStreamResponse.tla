-------------------------- MODULE MCStreamResponse --------------------------
(***************************************************************************)
(* StreamResponse for every answer of up to three words, and of four words *)
(* out of fewer, delivered in pieces of one or two letters.                *)
(***************************************************************************)
EXTENDS StreamResponse

Sentences(words, count) ==
  {FlattenSeq(s) : s \in BoundedSeq(words, count)}

Words == {<<"a">>, <<"<">>, <<Newline>>, OPEN_THINK, CLOSE_THINK, OPEN_TOOL, CLOSE_TOOL,
          OPEN_TOOL \o <<Function>> \o CLOSE_TOOL}

FewWords == {<<"a">>, <<Newline>>, CLOSE_THINK, OPEN_TOOL,
             OPEN_TOOL \o <<Function>> \o CLOSE_TOOL}

AnyAnswer == Sentences(Words, 3) \cup Sentences(FewWords, 4)

=============================================================================
