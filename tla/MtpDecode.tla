----------------------------- MODULE MtpDecode -----------------------------
(***************************************************************************)
(* Speculative decoding (src/native.rs): NativeEngine::generate_mtp with   *)
(* the transaction of RuntimeState and the adapter state of MtpAdapter.    *)
(*                                                                         *)
(* The target model keeps two kinds of state: recurrent DeltaNet states,   *)
(* which cannot be shortened, and an attention KV cache, which can.  A     *)
(* round feeds the bonus token and some drafts to the target, which writes *)
(* the recurrent states it passes through into a shadow and into snapshots *)
(* and appends to the KV cache in place; the round then commits the rows   *)
(* the target agrees with.  The states are modelled by what they have      *)
(* absorbed: a recurrent state by the tokens, a KV cache by its entries    *)
(* (token and position).  A prompt prefix is common to all and left out.   *)
(*                                                                         *)
(* `target` is the greedy answer.  A row computed from a state that stands *)
(* for a prefix of the answer gives the next token of the answer; any      *)
(* other row may give any token.                                           *)
(*                                                                         *)
(* A definition named D_Error is D with that error in it: no part of the   *)
(* specification, but what its properties are tried against.               *)
(***************************************************************************)
EXTENDS TokenText

CONSTANTS
  MaxTokens,   \* max_tokens of an eligible request, at least 2
  MaxDraft,    \* bound on mtp_max_draft_tokens, which is 1 by default
  Modes        \* the verification modes the environment selects among:
               \*   "default"    a single draft is verified in the graph that
               \*                also computes the next seed
               \*   "snapshots"  batch verification, a state image per row
               \*   "fused"      the fused graph, but no state images
               \*   "replay"     neither

ASSUME MtpAssumption ==
  /\ MaxTokens \in Nat \ {0, 1}
  /\ MaxDraft \in Nat \ {0}
  /\ Modes \subseteq {"default", "snapshots", "fused", "replay"}

VARIABLES
  target, streaming, mode, mtp_max_draft_tokens,
  pc,
  generated_ids, streamed_text, sent, finish_reason,
  bonus,           \* the last emitted token, not yet fed to the target
  next_position,
  linear, shadow, snapshots,   \* recurrent states of one DeltaNet layer
  kv,                          \* one attention layer's KV cache
  active, full_length,         \* the speculation workspace
  drafts,
  accepted, target_bonus,      \* the verdict of the target
  pending,                     \* verified tokens still to be emitted
  adapter          \* MtpRequestState

output == <<generated_ids, streamed_text, sent>>
states == <<linear, shadow, snapshots, kv, active, full_length, next_position>>
round  == <<drafts, accepted, target_bonus>>

request == <<target, streaming, mode, mtp_max_draft_tokens>>

vars == <<request, pc, output, finish_reason, bonus, states,
          round, pending, adapter>>

Blank == <<"blank">>   \* a newly created recurrent state

\* mtp_state_snapshots_enabled, and verification in a batch.
has_speculation_snapshots == mode \in {"default", "snapshots"}

Init ==
  /\ target \in [1 .. MaxTokens -> Tokens]
  /\ streaming \in BOOLEAN
  /\ mode \in Modes
  /\ mtp_max_draft_tokens \in 1 .. MaxDraft
  /\ pc = "first"
  /\ generated_ids = <<>> /\ streamed_text = <<>> /\ sent = <<>>
  /\ finish_reason = "Length"
  /\ bonus = target[1]
  /\ next_position = 0
  /\ linear = <<>> /\ shadow = Blank /\ snapshots = <<>>
  /\ kv = <<>>
  /\ active = FALSE /\ full_length = 0
  /\ drafts = <<>> /\ accepted = 0 /\ target_bonus = target[1]
  /\ pending = <<>>
  \* prefill_prompt pairs the bonus with the last prompt row.
  /\ \E seed \in Tokens :
       adapter = [kv |-> <<target[1]>>, seed_token |-> seed,
                  seed_hidden |-> TRUE, round_appended |-> 0]

-----------------------------------------------------------------------------
(* The models.                                                             *)

Entries(tokens, position) ==
  [i \in DOMAIN tokens |-> <<tokens[i], position + i - 1>>]

\* What the target may answer after its states have absorbed these.
Row(tokens, entries) ==
  IF entries = Entries(tokens, 0) /\ Len(tokens) < MaxTokens /\ IsPrefix(tokens, target)
  THEN {target[Len(tokens) + 1]}
  ELSE Tokens

Remaining == MaxTokens - Len(generated_ids)

-----------------------------------------------------------------------------
(* emit_mtp_token: `next` is where the loop goes on if it may.             *)

EndOfText(token) ==
  /\ token \in EosTokens
  /\ finish_reason' = "Stop"
  /\ pc' = "finish"
  /\ UNCHANGED output

HitStop(token) ==
  LET ids == Append(generated_ids, token)
  IN  /\ token \notin EosTokens
      /\ StopReached(ids)
      /\ generated_ids' = SubSeq(ids, 1, TokenSequenceStopIndex(ids))
      /\ finish_reason' = "StopSequence"
      /\ pc' = "finish"
      /\ UNCHANGED <<streamed_text, sent>>

Push(token, next) ==
  LET ids == Append(generated_ids, token)
  IN  /\ token \notin EosTokens
      /\ ~StopReached(ids)
      /\ generated_ids' = ids
      /\ streamed_text' = IF streaming THEN Decode(ids) ELSE streamed_text
      /\ sent' = IF streaming THEN sent \o Delta(streamed_text, Decode(ids)) ELSE sent
      /\ pc' = IF Len(ids) >= MaxTokens THEN "finish" ELSE next
      /\ UNCHANGED finish_reason

Emit(token, next) == EndOfText(token) \/ HitStop(token) \/ Push(token, next)

EmitFirst ==
  /\ pc = "first"
  /\ Emit(bonus, "round")
  /\ UNCHANGED <<request, bonus, states, round, pending, adapter>>

\* The last token of the budget takes the normal path.
OneTokenTail ==
  /\ pc = "round"
  /\ Remaining = 1
  /\ linear' = Append(linear, bonus)
  /\ kv' = kv \o Entries(<<bonus>>, next_position)
  /\ \E token \in Row(linear', kv') : Emit(token, "finish")
  /\ UNCHANGED <<request, bonus, shadow, snapshots, active,
                 full_length, next_position, round, pending, adapter>>

-----------------------------------------------------------------------------
(* A round.                                                                *)

\* draft_block starts from the seed and runs the adapter for the rest;
\* begin_speculation and prepare_speculation_snapshots open the transaction.
\* The shared controller may recommend any depth.
Draft ==
  /\ pc = "round"
  /\ Remaining > 1
  /\ \E count \in 1 .. Min({mtp_max_draft_tokens, Remaining - 1}) :
     \E guesses \in [1 .. count - 1 -> Tokens] :
       /\ drafts' = <<adapter.seed_token>> \o guesses
       /\ adapter' = [adapter EXCEPT !.kv = @ \o SubSeq(drafts', 1, count - 1),
                                     !.round_appended = count - 1]
       /\ snapshots' = IF has_speculation_snapshots /\ Len(snapshots) < count
                       THEN [i \in 1 .. count |-> Blank]
                       ELSE snapshots
  /\ active' = TRUE
  /\ full_length' = Len(kv)
  /\ pc' = "verify"
  /\ UNCHANGED <<request, output, finish_reason, bonus,
                 next_position, linear, shadow, kv, accepted, target_bonus, pending>>

Fed == <<bonus>> \o drafts

Absorbed(i) == linear \o SubSeq(Fed, 1, i)

VerifiedRow(i) ==
  Row(Absorbed(i), kv \o Entries(SubSeq(Fed, 1, i), next_position))

AcceptedTokenCount_LastOnly(n, token) ==
  /\ n > 0 => drafts[n] \in VerifiedRow(n)
  /\ n < Len(drafts) => token # drafts[n + 1]

\* The drafts in front of row n + 1 agree with the rows before it, the next
\* one does not: accepted_token_count, and the kernel of the fused graph.
AcceptedTokenCount(n, token) ==
  /\ \A i \in 1 .. n : drafts[i] \in VerifiedRow(i)
  /\ n < Len(drafts) => token # drafts[n + 1]

use_fused_seed ==
  mode \in {"default", "fused"} /\ mtp_max_draft_tokens = 1 /\ adapter.round_appended = 0

\* The fused graph appends the selected row, and only it, to the adapter.
AdapterVerify(verified) ==
  IF ~use_fused_seed
  THEN UNCHANGED adapter
  ELSE \E seed \in Tokens :
         adapter' = [kv |-> Append(adapter.kv, verified), seed_token |-> seed,
                     seed_hidden |-> FALSE, round_appended |-> 0]

Verify ==
  /\ pc = "verify"
  /\ \E n \in 0 .. Len(drafts) : \E token \in VerifiedRow(n + 1) :
       /\ AcceptedTokenCount(n, token)
       /\ accepted' = n
       /\ target_bonus' = token
       /\ AdapterVerify(token)
  /\ shadow' = Absorbed(Len(Fed))
  /\ snapshots' = [i \in DOMAIN snapshots |->
                     IF i <= Len(drafts) THEN Absorbed(i) ELSE snapshots[i]]
  /\ kv' = kv \o Entries(Fed, next_position)
  /\ pc' = "commit"
  /\ UNCHANGED <<request, output, finish_reason, bonus, linear,
                 active, full_length, next_position, drafts, pending>>

Commit_StaysOpen ==
  /\ pc = "commit"
  /\ next_position' = next_position + accepted + 1
  /\ pending' = Append(SubSeq(drafts, 1, accepted), target_bonus)
  /\ pc' = "emit"
  /\ UNCHANGED <<request, output, finish_reason, bonus, active,
                 full_length, round, adapter>>

Commit_NoBonus ==
  /\ pc = "commit"
  /\ active' = FALSE
  /\ next_position' = next_position + accepted + 1
  /\ pending' = SubSeq(drafts, 1, accepted)
  /\ pc' = IF accepted = 0 THEN "accept" ELSE "emit"
  /\ UNCHANGED <<request, output, finish_reason, bonus,
                 full_length, round, adapter>>

Commit ==
  /\ pc = "commit"
  /\ active' = FALSE
  /\ next_position' = next_position + accepted + 1
  /\ pending' = Append(SubSeq(drafts, 1, accepted), target_bonus)
  /\ pc' = "emit"
  /\ UNCHANGED <<request, output, finish_reason, bonus,
                 full_length, round, adapter>>

\* commit_speculation: active and shadow states trade places.
CommitAll ==
  /\ Commit
  /\ accepted = Len(drafts)
  /\ linear' = shadow /\ shadow' = linear
  /\ UNCHANGED <<snapshots, kv>>

CommitPrefix_KeepsKv ==
  /\ Commit
  /\ accepted < Len(drafts) /\ has_speculation_snapshots
  /\ linear' = snapshots[accepted + 1]
  /\ snapshots' = IF Len(snapshots) = 1 THEN <<linear>> ELSE snapshots
  /\ UNCHANGED <<shadow, kv>>

\* commit_speculation_prefix; a single snapshot is swapped in, not copied.
CommitPrefix ==
  /\ Commit
  /\ accepted < Len(drafts) /\ has_speculation_snapshots
  /\ linear' = snapshots[accepted + 1]
  /\ snapshots' = IF Len(snapshots) = 1 THEN <<linear>> ELSE snapshots
  /\ kv' = SubSeq(kv, 1, full_length + accepted + 1)
  /\ UNCHANGED shadow

\* rollback_speculation, then the accepted tokens once more, one by one.
Replay ==
  /\ Commit
  /\ accepted < Len(drafts) /\ ~has_speculation_snapshots
  /\ linear' = Absorbed(accepted + 1)
  /\ kv' = SubSeq(kv, 1, full_length) \o Entries(SubSeq(Fed, 1, accepted + 1), next_position)
  /\ UNCHANGED <<shadow, snapshots>>

EmitNext ==
  /\ pc = "emit"
  /\ Emit(Head(pending), IF Len(pending) > 1 THEN "emit" ELSE "accept")
  /\ pending' = Tail(pending)
  /\ UNCHANGED <<request, bonus, states, round, adapter>>

AcceptVerified_NoTrim ==
  LET keep == Min({accepted, adapter.round_appended})
  IN  \E seed \in Tokens :
        adapter' = [kv |-> adapter.kv \o SubSeq(drafts, keep + 1, accepted) \o <<target_bonus>>,
                    seed_token |-> seed, seed_hidden |-> TRUE, round_appended |-> 0]

AcceptVerified_NoHidden ==
  LET keep == Min({accepted, adapter.round_appended})
      kept == SubSeq(adapter.kv, 1, Len(adapter.kv) - (adapter.round_appended - keep))
  IN  \E seed \in Tokens :
        adapter' = [kv |-> kept \o SubSeq(drafts, keep + 1, accepted) \o <<target_bonus>>,
                    seed_token |-> seed, seed_hidden |-> FALSE, round_appended |-> 0]

\* accept_verified: drops the entries of refused drafts, adds those of
\* accepted drafts that are missing, and computes the next seed.
AcceptVerified ==
  LET keep == Min({accepted, adapter.round_appended})
      kept == SubSeq(adapter.kv, 1, Len(adapter.kv) - (adapter.round_appended - keep))
  IN  \E seed \in Tokens :
        adapter' = [kv |-> kept \o SubSeq(drafts, keep + 1, accepted) \o <<target_bonus>>,
                    seed_token |-> seed, seed_hidden |-> TRUE, round_appended |-> 0]

Accept ==
  /\ pc = "accept"
  /\ IF use_fused_seed THEN UNCHANGED adapter ELSE AcceptVerified
  /\ bonus' = target_bonus
  /\ drafts' = <<>> /\ accepted' = 0
  /\ pc' = "round"
  /\ UNCHANGED <<request, output, finish_reason, states, target_bonus, pending>>

-----------------------------------------------------------------------------
Finish ==
  /\ pc = "finish"
  /\ finish_reason' = IF Len(generated_ids) = MaxTokens THEN "Length" ELSE finish_reason
  /\ pc' = "done"
  /\ UNCHANGED <<request, output, bonus, states, round, pending, adapter>>

\* A kernel fails or the callback finds no receiver; an open transaction is
\* rolled back.
Fail ==
  /\ pc \notin {"finish", "done", "failed"}
  /\ pc' = "failed"
  /\ kv' = IF active THEN SubSeq(kv, 1, full_length) ELSE kv
  /\ active' = FALSE
  /\ UNCHANGED <<request, output, finish_reason, bonus, linear,
                 shadow, snapshots, full_length, next_position, round, pending, adapter>>

Ended ==
  /\ pc \in {"done", "failed"}
  /\ UNCHANGED vars

Next ==
  \/ EmitFirst \/ OneTokenTail
  \/ Draft \/ Verify \/ CommitAll \/ CommitPrefix \/ Replay
  \/ EmitNext \/ Accept \/ Finish \/ Fail
  \/ Ended

Spec == Init /\ [][Next]_vars

-----------------------------------------------------------------------------
(* Properties.                                                             *)

TypeOK ==
  /\ pc \in {"first", "round", "verify", "commit", "emit", "accept", "finish",
             "done", "failed"}
  /\ finish_reason \in {"Length", "Stop", "StopSequence"}
  /\ Len(generated_ids) <= MaxTokens
  /\ accepted \in 0 .. MaxDraft
  /\ active = (pc \in {"verify", "commit"})
  /\ adapter.round_appended <= MaxDraft

(* Whenever a round may begin, both kinds of target state and the position *)
(* counter stand exactly behind the tokens emitted before the bonus,       *)
(* whichever way the previous rounds were committed.                       *)
TargetInStep ==
  pc = "round" =>
    /\ linear = Front(generated_ids)
    /\ kv = Entries(linear, 0)
    /\ next_position = Len(linear)
    /\ bonus = Last(generated_ids)

(* The adapter's cache has one entry per emitted token when a round        *)
(* begins, drafted and refused ones left no trace.  (Not after a fused     *)
(* round: its graph reads the pair of the next token alone and leaves out  *)
(* that of an accepted draft.)                                             *)
AdapterInStep ==
  pc = "round" /\ ~use_fused_seed =>
    adapter.kv = generated_ids /\ adapter.round_appended = 0

(* A second draft is never asked of a seed that came without its hidden    *)
(* state (draft_block would fail the request).                             *)
SeedCanAdvance == pc = "verify" /\ Len(drafts) > 1 => adapter.seed_hidden

(* Every request ends: each step brings it nearer to its end, since every  *)
(* round emits at least the target's own token.  (And a request that is    *)
(* not over can always take a step: the runs check for deadlock.)          *)
StepsLeft ==
  [first |-> 8, accept |-> 7, round |-> 6, verify |-> 5, commit |-> 4, emit |-> 3]

Measure ==
  CASE pc \in {"done", "failed"} -> 0
    [] pc = "finish"             -> 1
    [] OTHER                     -> 8 * Remaining + StepsLeft[pc]

RoundsTerminate == [][Measure' < Measure]_vars

(* Speculation is invisible: tokens, streamed text and finish reason are   *)
(* those of the normal loop on the same answer.  (But for one reason: an   *)
(* answer that is cut at a stop and still has all of its tokens, because   *)
(* the text in front of the stop encodes to as many, ends with Length in   *)
(* this loop if they are max_tokens, where the normal one says             *)
(* StopSequence.)                                                          *)
HoldsStop == \E text \in {Decode(generated_ids)} : StopsIn(text) # {}

Reason ==
  CASE pc = "failed" -> "failed"
    [] pc = "done"   -> IF finish_reason = "Length" /\ HoldsStop
                        THEN "StopSequence" ELSE finish_reason
    [] pc = "finish" -> IF Len(generated_ids) = MaxTokens /\ finish_reason # "StopSequence"
                        THEN "running" ELSE finish_reason
    [] OTHER         -> "running"

Normal == INSTANCE GreedyDecode WITH finish_reason <- Reason

DecodesGreedily == Normal!Spec

=============================================================================
