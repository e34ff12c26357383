----------------------------- MODULE TokenText -----------------------------
(***************************************************************************)
(* Generated token ids as text (src/native.rs): the part of decoding that  *)
(* the normal and the speculative loop share.  The tokenizer itself is the *)
(* external `tokenizers` crate, a byte-level BPE: a token stands for a few *)
(* bytes, a character wider than one byte may be split over two tokens     *)
(* (Lead, Cont), and the bytes of an unfinished character decode to the    *)
(* replacement character.  Every other byte is a character of its own.     *)
(*                                                                         *)
(* A definition named D_Error is D with that error in it: no part of the   *)
(* specification, but what its properties are tried against.               *)
(***************************************************************************)
EXTENDS Naturals, Sequences, SequencesExt, FiniteSetsExt

CONSTANTS
  Tokens,      \* the vocabulary
  EosTokens,   \* NativeEngine.eos_token_ids
  Text,        \* the bytes of each token
  Stop         \* GenerationRequest.stop: a set of character sequences

Lead  == "lead"
Cont  == "cont"
Wide  == "wide"
Lossy == "lossy"

Symbols == UNION {Range(Text[t]) : t \in Tokens}

\* What a text or a stop sequence is made of.
Characters == {Wide, Lossy} \cup Symbols \cup UNION {Range(stop) : stop \in Stop}

\* A token is some bytes; validate_stop_sequences refuses an empty stop.
ASSUME TextAssumption ==
  /\ \A t \in Tokens : Text[t] \in Seq(Symbols)
  /\ \A stop \in Stop : stop \in Seq(Characters) /\ stop # <<>>

-----------------------------------------------------------------------------
(* The tokenizer.                                                          *)

Bytes(ids) == FlattenSeq([i \in DOMAIN ids |-> Text[ids[i]]])

Completes(bytes, i) == i \in 2 .. Len(bytes) /\ bytes[i] = Cont /\ bytes[i - 1] = Lead

\* What a byte adds to the text: a Cont byte and the Lead byte before it are
\* one character, and either of them alone is decoded lossily.
CharacterAt(bytes, i) ==
  IF Completes(bytes, i + 1) THEN <<Wide>>
  ELSE IF Completes(bytes, i) THEN <<>>
  ELSE IF bytes[i] \in {Lead, Cont} THEN <<Lossy>> ELSE <<bytes[i]>>

Decode(ids) ==
  LET bytes == Bytes(ids)
  IN  FlattenSeq([i \in DOMAIN bytes |-> CharacterAt(bytes, i)])

\* How many tokens `encode` gives a text: at every character the longest
\* token that matches there, or the two halves of a character that has none.
Matches(text, i) ==
  {t \in Tokens \ EosTokens : Text[t] # <<>> /\ IsPrefix(Text[t], SubSeq(text, i, Len(text)))}

EncodedLength(text) ==
  LET from[i \in 1 .. Len(text) + 1] ==
        IF i > Len(text) THEN 0
        ELSE IF Matches(text, i) = {} THEN 2 + from[i + 1]
        ELSE 1 + from[i + Max({Len(Text[t]) : t \in Matches(text, i)})]
  IN  from[1]

-----------------------------------------------------------------------------
(* Stop sequences.                                                         *)

StopsIn(text) ==
  {i \in 1 .. Len(text) : \E stop \in Stop : IsPrefix(stop, SubSeq(text, i, Len(text)))}

StopReached(ids) == StopsIn(Decode(ids)) # {}

\* The text in front of the first stop.
InFront(text) == SubSeq(text, 1, Min(StopsIn(text)) - 1)

\* The tokens kept in front of the first stop: as many as the text in front of
\* it encodes to, which need not be the tokens it was decoded from.
TokenSequenceStopIndex(ids) == Min({EncodedLength(InFront(Decode(ids))), Len(ids)})

Delta_Whole(old, new) == new

\* What a stream delivers for a new decoded text: the part that extends the
\* old one, or all of it if it does not.
Delta(old, new) ==
  IF IsPrefix(old, new) THEN SubSeq(new, Len(old) + 1, Len(new)) ELSE new

=============================================================================
