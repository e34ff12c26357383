---------------------------- MODULE GreedyDecode ----------------------------
(***************************************************************************)
(* The normal decode loop of NativeEngine::generate_native: one token per  *)
(* forward pass, until an end token, a stop sequence, or max_tokens.       *)
(*                                                                         *)
(* `target` is the sequence of tokens the model produces for the request   *)
(* (deterministic: greedy, or sampled with a seed per step); the loop      *)
(* reads it one token at a time.  It is also the specification of the      *)
(* speculative loop, MtpDecode.                                            *)
(*                                                                         *)
(* A definition named D_Error is D with that error in it: no part of the   *)
(* specification, but what its properties are tried against.               *)
(***************************************************************************)
EXTENDS TokenText

CONSTANT MaxTokens   \* GenerationRequest.max_tokens

ASSUME MaxTokensAssumption == MaxTokens \in Nat \ {0}

VARIABLES
  target,          \* what the model answers, token by token
  streaming,       \* on_event is given
  generated_ids,
  streamed_text,   \* the text decoded when the last event was sent
  sent,            \* the text of all RawToken events so far
  finish_reason

vars == <<target, streaming, generated_ids, streamed_text, sent, finish_reason>>

Targets == [1 .. MaxTokens -> Tokens]

Init ==
  /\ target \in Targets
  /\ streaming \in BOOLEAN
  /\ generated_ids = <<>>
  /\ streamed_text = <<>>
  /\ sent = <<>>
  /\ finish_reason = "running"

\* The loop's range over the steps.
Generating == finish_reason = "running" /\ Len(generated_ids) < MaxTokens

\* sample_token, and the push of what it returned.
Pushed == Append(generated_ids, target[Len(generated_ids) + 1])

EndOfText ==
  /\ Generating
  /\ target[Len(generated_ids) + 1] \in EosTokens
  /\ finish_reason' = "Stop"
  /\ UNCHANGED <<target, streaming, generated_ids, streamed_text, sent>>

HitStop_KeepsAll ==
  /\ Generating
  /\ Last(Pushed) \notin EosTokens
  /\ StopReached(Pushed)
  /\ generated_ids' = Pushed
  /\ finish_reason' = "StopSequence"
  /\ UNCHANGED <<target, streaming, streamed_text, sent>>

HitStop ==
  /\ Generating
  /\ Last(Pushed) \notin EosTokens
  /\ StopReached(Pushed)
  /\ generated_ids' = SubSeq(Pushed, 1, TokenSequenceStopIndex(Pushed))
  /\ finish_reason' = "StopSequence"
  /\ UNCHANGED <<target, streaming, streamed_text, sent>>

Push ==
  /\ Generating
  /\ Last(Pushed) \notin EosTokens
  /\ ~StopReached(Pushed)
  /\ generated_ids' = Pushed
  /\ streamed_text' = IF streaming THEN Decode(Pushed) ELSE streamed_text
  /\ sent' = IF streaming THEN sent \o Delta(streamed_text, Decode(Pushed)) ELSE sent
  /\ UNCHANGED <<target, streaming, finish_reason>>

\* The last token has been through its forward pass as well.
Complete ==
  /\ finish_reason = "running"
  /\ Len(generated_ids) = MaxTokens
  /\ finish_reason' = "Length"
  /\ UNCHANGED <<target, streaming, generated_ids, streamed_text, sent>>

\* The callback finds no receiver, or a kernel fails, the forward pass of
\* the last token included.
Fail ==
  /\ finish_reason = "running"
  /\ finish_reason' = "failed"
  /\ UNCHANGED <<target, streaming, generated_ids, streamed_text, sent>>

Next == EndOfText \/ HitStop \/ Push \/ Complete \/ Fail

Spec == Init /\ [][Next]_vars

-----------------------------------------------------------------------------
(* What an answer may be like.                                             *)

\* A character begins in one piece of an answer and ends in the next.
Splits(ids, more) ==
  /\ Bytes(ids) # <<>> /\ Last(Bytes(ids)) = Lead
  /\ Bytes(more) # <<>> /\ Head(Bytes(more)) = Cont

\* No character of an answer is split over tokens.
WholeCharacters(ids) ==
  \A k \in 1 .. Len(ids) - 1 : ~Splits(SubSeq(ids, 1, k), SubSeq(ids, k + 1, Len(ids)))

\* The stop of an answer begins where a token begins, and the text in front
\* of it encodes to as many tokens as it was decoded from.
CutsCleanly(ids) ==
  \E k \in 0 .. Len(ids) :
    /\ Decode(SubSeq(ids, 1, k)) = InFront(Decode(ids))
    /\ EncodedLength(InFront(Decode(ids))) = k

\* All that was sampled of an answer that hit a stop.
Stopped == SubSeq(target, 1, Min({n \in 1 .. MaxTokens : StopReached(SubSeq(target, 1, n))}))

-----------------------------------------------------------------------------
(* Properties.                                                             *)

(* A stop sequence is cut from the answer, also one that is completed over *)
(* several tokens.  If it begins where a token begins, and the text in     *)
(* front of it encodes to the tokens it was decoded from, the answer is    *)
(* that text.  An answer holds a stop only if the text in front of it      *)
(* encodes to no fewer tokens than there are, so that there was nothing to *)
(* cut: a stop inside of a token, or tokens `encode` would not give.       *)
NoStopInAnswer ==
  /\ StopReached(generated_ids) =>
       /\ finish_reason = "StopSequence"
       /\ EncodedLength(InFront(Decode(generated_ids))) >= Len(generated_ids)
  /\ finish_reason = "StopSequence" /\ CutsCleanly(Stopped) =>
       Decode(generated_ids) = InFront(Decode(Stopped))

IsProperPrefixOfStop(text) ==
  \E stop \in Stop : IsPrefix(text, stop) /\ text # stop

(* A stream that ended ends in the whole answer, and is just the answer if *)
(* none of its characters is split over tokens.  One that a stop ended has *)
(* everything in front of the token that completed the stop, which is the  *)
(* answer up to the beginning of that stop, if it was cut cleanly.  A      *)
(* request that does not stream sends nothing.                             *)
StreamIsAnswer ==
  LET answer == Decode(generated_ids)
  IN  /\ ~streaming => sent = <<>>
      /\ streaming /\ finish_reason \in {"Length", "Stop"} =>
           /\ IsSuffix(answer, sent)
           /\ WholeCharacters(generated_ids) => sent = answer
      /\ streaming /\ finish_reason = "StopSequence" =>
           /\ IsSuffix(Decode(Front(Stopped)), sent)
           /\ WholeCharacters(Stopped) /\ CutsCleanly(Stopped) =>
                /\ IsPrefix(answer, sent)
                /\ \/ sent = answer
                   \/ IsProperPrefixOfStop(SubSeq(sent, Len(answer) + 1, Len(sent)))

(* A stream that no stop ended is the answer, whatever it is made of, as   *)
(* if tokenizers appended monotonically.                                   *)
StreamOnlyAppends ==
  streaming /\ finish_reason \in {"Length", "Stop"} => sent = Decode(generated_ids)

=============================================================================
