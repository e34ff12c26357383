---------------------------- MODULE MCMtpDecode ----------------------------
(***************************************************************************)
(* MtpDecode for every greedy answer of up to MaxTokens tokens over the    *)
(* two parts of a character, the second with a letter behind it, and an    *)
(* end token, with a stop sequence that two of the latter complete and     *)
(* that begins inside of the first; every draft and every refused row.     *)
(***************************************************************************)
EXTENDS MtpDecode

Vocabulary == {"hi", "lox", "eos"}

Eos == {"eos"}

VocabularyText == [hi |-> <<Lead>>, lox |-> <<Cont, "x">>, eos |-> <<>>]

Stops == {<<"x", Lossy, "x">>}

=============================================================================
