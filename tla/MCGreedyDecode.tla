--------------------------- MODULE MCGreedyDecode ---------------------------
(***************************************************************************)
(* GreedyDecode over small vocabularies.  Byte-level: letters, tokens of   *)
(* several letters in which a stop sequence begins or is contained, the    *)
(* two halves of a character, an end token, and stop sequences that share  *)
(* a letter.  Wide: a letter and the two halves of a character.            *)
(***************************************************************************)
EXTENDS GreedyDecode

ByteLevelTokens == {"a", "s", "t", "as", "ast", "hi", "lo", "eos"}
WideTokens      == {"a", "hi", "lo"}

Eos == {"eos"}

VocabularyText ==
  [a |-> <<"a">>, s |-> <<"s">>, t |-> <<"t">>, as |-> <<"a", "s">>, ast |-> <<"a", "s", "t">>,
   hi |-> <<Lead>>, lo |-> <<Cont>>, eos |-> <<>>]

Stops == {<<"s", "t">>, <<"t", "a">>}

=============================================================================
