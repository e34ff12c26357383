--------------------------- MODULE MtpDecodeProofs ---------------------------
(***************************************************************************)
(* MtpDecode for every answer, vocabulary, budget and limit of drafts.     *)
(* The invariant says, for each step of a round, what every state has      *)
(* absorbed and which tokens of the answer are known; the verification     *)
(* establishes it for the accepted rows, and the three ways to commit have *)
(* to arrive at the same states.                                           *)
(*                                                                         *)
(* What is known of decoded text is proved for the normal loop; Answers    *)
(* brings those facts to this one.                                         *)
(***************************************************************************)
EXTENDS MtpDecode, SequenceLemmas

Answers == INSTANCE GreedyDecodeProofs WITH finish_reason <- Reason

-----------------------------------------------------------------------------
(* The inductive invariant.                                                 *)

Live == pc \in {"first", "round", "verify", "commit", "emit", "accept"}

(* What a recurrent state can have absorbed, a blank one included. *)
States == Seq(Tokens \cup {"blank"})

AdapterType ==
  [kv : Seq(Tokens), seed_token : Tokens, seed_hidden : BOOLEAN, round_appended : Nat]

(* A stopped request keeps what the tokenizer makes of its answer, so that  *)
(* only the sequences of a running one are typed.                           *)
Types ==
  /\ target \in Seq(Tokens) /\ Len(target) = MaxTokens
  /\ streaming \in BOOLEAN
  /\ mode \in Modes
  /\ mtp_max_draft_tokens \in 1 .. MaxDraft
  /\ pc \in {"first", "round", "verify", "commit", "emit", "accept", "finish",
             "done", "failed"}
  /\ active \in BOOLEAN /\ (active <=> pc \in {"verify", "commit"})
  /\ finish_reason \in {"Length", "Stop", "StopSequence"}
  /\ bonus \in Tokens /\ target_bonus \in Tokens
  /\ linear \in Seq(Tokens) /\ shadow \in States /\ snapshots \in Seq(States)
  /\ drafts \in Seq(Tokens) /\ accepted \in 0 .. Len(drafts)
  /\ pc \in {"first", "round"} => accepted = 0
  /\ next_position \in Nat /\ full_length \in Nat
  /\ adapter \in AdapterType
  /\ Live => /\ generated_ids \in Seq(Tokens) /\ pending \in Seq(Tokens)
             /\ Len(generated_ids) < MaxTokens
             /\ finish_reason = "Length"

(* The tokens emitted so far, and those that are verified, begin the answer. *)
OnTarget ==
  /\ pc = "first" => generated_ids = <<>> /\ linear = <<>> /\ bonus = target[1]
  /\ pc \in {"round", "verify", "commit"} =>
       /\ generated_ids = Append(linear, bonus)
       /\ IsPrefix(generated_ids, target)
  /\ pc = "commit" => IsPrefix(Append(Absorbed(accepted + 1), target_bonus), target)
  /\ pc = "emit" =>
       /\ pending # <<>>
       /\ generated_ids \o pending = Append(linear, target_bonus)
  /\ pc = "accept" => generated_ids = Append(linear, target_bonus)
  /\ pc \in {"emit", "accept"} => IsPrefix(Append(linear, target_bonus), target)

(* What the states of the target have absorbed. *)
StatesInStep ==
  /\ pc = "first" => kv = <<>> /\ next_position = 0
  /\ pc \in {"round", "verify", "emit", "accept"} =>
       kv = Entries(linear, 0) /\ next_position = Len(linear)
  /\ pc \in {"verify", "commit"} =>
       /\ full_length = Len(linear) /\ next_position = Len(linear)
       /\ drafts # <<>>
       /\ Len(generated_ids) + Len(drafts) < MaxTokens
       /\ has_speculation_snapshots => Len(drafts) <= Len(snapshots)
  /\ pc = "commit" =>
       /\ shadow = linear \o Fed
       /\ kv = Entries(linear \o Fed, 0)
       /\ has_speculation_snapshots => \A i \in 1 .. Len(drafts) : snapshots[i] = Absorbed(i)

(* A single draft is verified by the fused graph, unless it is disabled. *)
Fused == mode \in {"default", "fused"} /\ mtp_max_draft_tokens = 1

(* What the adapter has seen: the tokens emitted before the round and, once *)
(* the round has drafts, all of them but the last.                          *)
AdapterFollows ==
  /\ pc \in {"first", "round"} => adapter.round_appended = 0
  /\ Len(drafts) <= mtp_max_draft_tokens
  /\ pc \in {"verify", "commit"} \/ (pc \in {"emit", "accept"} /\ ~Fused) =>
       drafts # <<>> /\ adapter.round_appended = Len(drafts) - 1
  /\ Fused => adapter.round_appended = 0
  /\ ~Fused =>
       /\ pc \in {"first", "round", "verify"} => adapter.seed_hidden
       /\ pc = "first" => adapter.kv = <<target[1]>>
       /\ pc = "round" => adapter.kv = generated_ids
       /\ pc \in {"verify", "commit"} =>
            adapter.kv = generated_ids \o SubSeq(drafts, 1, Len(drafts) - 1)
       /\ pc \in {"emit", "accept"} =>
            \E before \in Seq(Tokens) :
              /\ linear = before \o SubSeq(drafts, 1, accepted)
              /\ adapter.kv = before \o SubSeq(drafts, 1, Len(drafts) - 1)

IInv == Types /\ OnTarget /\ StatesInStep /\ AdapterFollows

-----------------------------------------------------------------------------
(* The entries of a KV cache.                                               *)

LEMMA EntriesType ==
  ASSUME NEW S, NEW u \in Seq(S), NEW p \in Nat
  PROVE  /\ Entries(u, p) \in Seq(S \X Nat) /\ Len(Entries(u, p)) = Len(u)
         /\ \A i \in 1 .. Len(u) : Entries(u, p)[i] = <<u[i], p + i - 1>>
<1>1. DOMAIN u = 1 .. Len(u) /\ Len(u) \in Nat
  BY LenProperties
<1>2. \A i \in 1 .. Len(u) : <<u[i], p + i - 1>> \in S \X Nat
  BY ElementOfSeq
<1> QED
  BY <1>1, <1>2 DEF Entries

LEMMA EntriesConcat ==
  ASSUME NEW S, NEW u \in Seq(S), NEW v \in Seq(S)
  PROVE  Entries(u, 0) \o Entries(v, Len(u)) = Entries(u \o v, 0)
<1> DEFINE P == S \X Nat
           a == Entries(u, 0)
           b == Entries(v, Len(u))
           w == u \o v
           c == Entries(w, 0)
<1>0. Len(u) \in Nat /\ Len(v) \in Nat
  OBVIOUS
<1>1. /\ w \in Seq(S) /\ Len(w) = Len(u) + Len(v)
      /\ \A i \in 1 .. Len(u) + Len(v) :
           w[i] = IF i <= Len(u) THEN u[i] ELSE v[i - Len(u)]
  BY ConcatProperties
<1> HIDE DEF w
<1>2. /\ a \in Seq(P) /\ Len(a) = Len(u)
      /\ \A i \in 1 .. Len(u) : a[i] = <<u[i], 0 + i - 1>>
  BY EntriesType, 0 \in Nat
<1>3. /\ b \in Seq(P) /\ Len(b) = Len(v)
      /\ \A i \in 1 .. Len(v) : b[i] = <<v[i], Len(u) + i - 1>>
  BY <1>0, EntriesType
<1>4. /\ c \in Seq(P) /\ Len(c) = Len(w)
      /\ \A i \in 1 .. Len(w) : c[i] = <<w[i], 0 + i - 1>>
  BY <1>1, EntriesType, 0 \in Nat
<1> HIDE DEF a, b, c, P
<1>5. /\ a \o b \in Seq(P) /\ Len(a \o b) = Len(a) + Len(b)
      /\ \A i \in 1 .. Len(a) + Len(b) :
           (a \o b)[i] = IF i <= Len(a) THEN a[i] ELSE b[i - Len(a)]
  <2>1. a \in Seq(P) /\ b \in Seq(P)
    BY <1>2, <1>3
  <2> QED
    BY <2>1, ConcatProperties
<1>6. ASSUME NEW i \in 1 .. Len(a \o b) PROVE (a \o b)[i] = c[i]
  <2>1. i \in 1 .. Len(w) /\ i \in 1 .. Len(u) + Len(v) /\ i \in 1 .. Len(a) + Len(b)
    BY <1>1, <1>2, <1>3, <1>5
  <2>2. CASE i <= Len(u)
    <3>1. i \in 1 .. Len(u) /\ (a \o b)[i] = a[i] /\ w[i] = u[i]
      BY <1>0, <1>1, <1>2, <1>5, <2>1, <2>2
    <3> QED
      BY <1>2, <1>4, <2>1, <3>1
  <2>3. CASE ~(i <= Len(u))
    <3>1. /\ i - Len(u) \in 1 .. Len(v) /\ Len(u) + (i - Len(u)) - 1 = 0 + i - 1
          /\ (a \o b)[i] = b[i - Len(u)] /\ w[i] = v[i - Len(u)]
      BY <1>0, <1>1, <1>2, <1>5, <2>1, <2>3
    <3> QED
      BY <1>3, <1>4, <2>1, <3>1
  <2> QED
    BY <2>2, <2>3
<1>7. a \o b = c
  BY <1>1, <1>2, <1>3, <1>4, <1>5, <1>6, SeqEqual
<1> QED
  BY <1>7 DEF a, b, c, w

LEMMA EntriesCut ==
  ASSUME NEW S, NEW u \in Seq(S), NEW n \in 0 .. Len(u)
  PROVE  SubSeq(Entries(u, 0), 1, n) = Entries(SubSeq(u, 1, n), 0)
<1> DEFINE P == S \X Nat
           a == Entries(u, 0)
           w == SubSeq(u, 1, n)
           b == Entries(w, 0)
<1>1. /\ a \in Seq(P) /\ Len(a) = Len(u)
      /\ \A i \in 1 .. Len(u) : a[i] = <<u[i], 0 + i - 1>>
  BY EntriesType, 0 \in Nat
<1>2. w \in Seq(S) /\ Len(w) = n /\ \A i \in 1 .. n : w[i] = u[i]
  BY BeginningOf
<1> HIDE DEF w
<1>3. /\ b \in Seq(P) /\ Len(b) = n
      /\ \A i \in 1 .. n : b[i] = <<w[i], 0 + i - 1>>
  BY <1>2, EntriesType, 0 \in Nat
<1> HIDE DEF a, b, P
<1>4. /\ SubSeq(a, 1, n) \in Seq(P) /\ Len(SubSeq(a, 1, n)) = n
      /\ \A i \in 1 .. n : SubSeq(a, 1, n)[i] = a[i]
  BY <1>1, BeginningOf
<1>5. ASSUME NEW i \in 1 .. n PROVE SubSeq(a, 1, n)[i] = b[i]
  <2>1. i \in 1 .. Len(u)
    OBVIOUS
  <2> QED
    BY <1>1, <1>2, <1>3, <1>4, <2>1
<1>6. SubSeq(a, 1, n) = b
  BY <1>3, <1>4, <1>5, SeqEqual
<1> QED
  BY <1>6 DEF a, b, w

-----------------------------------------------------------------------------
(* Emission.                                                                *)

(* A token ends the request, or it is the next one of the answer and the    *)
(* request goes on if the budget allows.                                    *)
LEMMA EmitStep ==
  ASSUME NEW token \in Tokens, NEW next, Emit(token, next),
         generated_ids \in Seq(Tokens), Len(generated_ids) < MaxTokens
  PROVE  \/ pc' = "finish"
         \/ /\ pc' = next
            /\ generated_ids' = Append(generated_ids, token)
            /\ generated_ids' \in Seq(Tokens)
            /\ Len(generated_ids') < MaxTokens
            /\ finish_reason' = finish_reason
<1>1. MaxTokens \in Nat
  BY MtpAssumption
<1>2. CASE EndOfText(token) \/ HitStop(token)
  BY <1>2 DEF EndOfText, HitStop
<1>3. CASE Push(token, next)
  <2>1. Append(generated_ids, token) \in Seq(Tokens)
    BY AppendProperties
  <2>2. Len(Append(generated_ids, token)) \in Nat
    BY <2>1
  <2> QED
    BY <1>1, <1>3, <2>1, <2>2 DEF Push
<1> QED
  BY <1>2, <1>3 DEF Emit

LEMMA EmitReason ==
  ASSUME NEW token, NEW next, Emit(token, next),
         finish_reason \in {"Length", "Stop", "StopSequence"}
  PROVE  finish_reason' \in {"Length", "Stop", "StopSequence"}
BY DEF Emit, EndOfText, HitStop, Push

(* What the invariant asks of a request that has stopped. *)
LEMMA Stopped ==
  ASSUME Types, pc' \in {"finish", "done", "failed"}, active' = FALSE,
         UNCHANGED <<target, streaming, mode, mtp_max_draft_tokens>>,
         UNCHANGED <<bonus, target_bonus, drafts, accepted, adapter>>,
         linear' \in Seq(Tokens), shadow' = shadow, snapshots' = snapshots,
         full_length' = full_length, next_position' = next_position,
         AdapterFollows, finish_reason' \in {"Length", "Stop", "StopSequence"}
  PROVE  IInv'
<1>1. ~Live'
  BY DEF Live
<1>2. Types'
  <2>1. active' \in BOOLEAN /\ (active' <=> pc' \in {"verify", "commit"})
    OBVIOUS
  <2>2. pc' \in {"first", "round", "verify", "commit", "emit", "accept", "finish",
                "done", "failed"}
    OBVIOUS
  <2> QED
    BY <1>1, <2>1, <2>2 DEF Types
<1>3. OnTarget' /\ StatesInStep'
  BY DEF OnTarget, StatesInStep
<1>4. AdapterFollows'
  BY DEF AdapterFollows, Fused
<1> QED
  BY <1>2, <1>3, <1>4 DEF IInv

-----------------------------------------------------------------------------
(* Every action keeps the invariant.                                        *)

LEMMA InitIInv == Init => IInv
<1> SUFFICES ASSUME Init PROVE IInv
  OBVIOUS
<1>1. MaxTokens \in Nat /\ 1 \in 1 .. MaxTokens /\ MaxDraft \in Nat
  BY MtpAssumption
<1>2. target \in Seq(Tokens) /\ Len(target) = MaxTokens /\ target[1] \in Tokens
  BY <1>1 DEF Init
<1>3. adapter \in AdapterType /\ adapter.kv = <<target[1]>> /\ adapter.seed_hidden
      /\ adapter.round_appended = 0
  <2>1. <<target[1]>> \in Seq(Tokens)
    BY <1>2, SingletonSeq
  <2> QED
    BY <2>1 DEF Init, AdapterType
<1>4. <<>> \in Seq(Tokens) /\ <<>> \in Seq(States) /\ Len(<<>>) = 0
  BY EmptySeq
<1>5. Blank \in States
  BY DEF Blank, States
<1>6. Types
  <2>1. /\ linear = <<>> /\ snapshots = <<>> /\ drafts = <<>> /\ generated_ids = <<>>
        /\ pending = <<>> /\ shadow = Blank /\ pc = "first" /\ active = FALSE
        /\ bonus = target[1] /\ target_bonus = target[1] /\ accepted = 0
        /\ next_position = 0 /\ full_length = 0 /\ finish_reason = "Length"
        /\ mtp_max_draft_tokens \in 1 .. MaxDraft /\ mode \in Modes /\ streaming \in BOOLEAN
    BY DEF Init
  <2>2. Len(generated_ids) < MaxTokens /\ accepted \in 0 .. Len(drafts)
    BY <1>1, <1>4, <2>1
  <2>3. active \in BOOLEAN /\ (active <=> pc \in {"verify", "commit"})
    BY <2>1
  <2>4. /\ linear \in Seq(Tokens) /\ snapshots \in Seq(States) /\ drafts \in Seq(Tokens)
        /\ generated_ids \in Seq(Tokens) /\ pending \in Seq(Tokens) /\ shadow \in States
    BY <1>4, <1>5, <2>1
  <2> QED
    BY <1>2, <1>3, <2>1, <2>2, <2>3, <2>4 DEF Types
<1>7. StatesInStep
  BY DEF Init, StatesInStep
<1>8. OnTarget
  BY DEF Init, OnTarget
<1>9. AdapterFollows
  BY <1>1, <1>3, <1>4 DEF Init, AdapterFollows
<1> QED
  BY <1>6, <1>7, <1>8, <1>9 DEF IInv

LEMMA EmitFirstIInv == IInv /\ EmitFirst => IInv'
<1> SUFFICES ASSUME IInv, EmitFirst PROVE IInv'
  OBVIOUS
<1> USE DEF IInv
<1>1. MaxTokens \in Nat /\ 1 \in 1 .. MaxTokens
  BY MtpAssumption
<1>2. /\ pc = "first" /\ Emit(bonus, "round") /\ pending' = pending
      /\ UNCHANGED <<target, streaming, mode, mtp_max_draft_tokens>>
      /\ UNCHANGED <<bonus, target_bonus, drafts, accepted, adapter>>
      /\ UNCHANGED <<linear, shadow, snapshots, kv, active, full_length, next_position>>
  BY DEF EmitFirst, request, states, round
<1>3. /\ generated_ids \in Seq(Tokens) /\ Len(generated_ids) < MaxTokens /\ Live
      /\ bonus \in Tokens /\ linear = <<>> /\ generated_ids = <<>> /\ bonus = target[1]
      /\ active = FALSE
  BY <1>2 DEF Types, Live, OnTarget
<1>4. finish_reason' \in {"Length", "Stop", "StopSequence"}
  BY <1>2, EmitReason DEF Types
<1>5. CASE pc' = "finish"
  <2>1. linear' \in Seq(Tokens)
    BY <1>2 DEF Types
  <2> QED
    BY <1>2, <1>3, <1>4, <1>5, <2>1, Stopped
<1>6. CASE /\ pc' = "round"
           /\ generated_ids' = Append(generated_ids, bonus)
           /\ generated_ids' \in Seq(Tokens)
           /\ Len(generated_ids') < MaxTokens
           /\ finish_reason' = finish_reason
  <2>1. Types'
    BY <1>2, <1>3, <1>6 DEF Types, Live
  <2>2. IsPrefix(generated_ids', target)
    <3>1. IsPrefix(generated_ids, target)
      BY <1>3, EmptyPrefix DEF Types
    <3>2. Len(generated_ids) < Len(target) /\ target[Len(generated_ids) + 1] = bonus
      BY <1>1, <1>3 DEF Types
    <3> QED
      BY <1>3, <1>6, <3>1, <3>2, PrefixOfAppend DEF Types
  <2>3. OnTarget'
    BY <1>2, <1>3, <1>6, <2>2 DEF OnTarget
  <2>4. StatesInStep'
    <3>1. Entries(<<>>, 0) = <<>>
      BY DEF Entries
    <3> QED
      BY <1>2, <1>3, <1>6, <3>1 DEF StatesInStep
  <2>5. AdapterFollows'
    <3>1. Append(<<>>, target[1]) = <<target[1]>>
      BY <1>3
    <3> QED
      BY <1>2, <1>3, <1>6, <3>1 DEF AdapterFollows, Fused
  <2> QED
    BY <2>1, <2>3, <2>4, <2>5
<1> QED
  BY <1>2, <1>3, <1>5, <1>6, EmitStep

LEMMA OneTokenTailIInv == IInv /\ OneTokenTail => IInv'
<1> SUFFICES ASSUME IInv, OneTokenTail PROVE IInv'
  OBVIOUS
<1> USE DEF IInv
<1>1. PICK token \in Row(linear', kv') : Emit(token, "finish")
  BY DEF OneTokenTail
<1>2. /\ pc = "round" /\ linear' = Append(linear, bonus)
      /\ UNCHANGED <<target, streaming, mode, mtp_max_draft_tokens>>
      /\ UNCHANGED <<bonus, target_bonus, drafts, accepted, adapter>>
      /\ shadow' = shadow /\ snapshots' = snapshots /\ active' = active
      /\ full_length' = full_length /\ next_position' = next_position
  BY DEF OneTokenTail, request, round
<1>3. linear' \in Seq(Tokens)
  BY <1>2, AppendProperties DEF Types
<1>4. pc' = "finish"
  BY <1>1 DEF Emit, EndOfText, HitStop, Push
<1>5. finish_reason' \in {"Length", "Stop", "StopSequence"}
  BY <1>1, EmitReason DEF Types
<1>6. active' = FALSE
  BY <1>2 DEF Types
<1> QED
  BY <1>2, <1>3, <1>4, <1>5, <1>6, Stopped

LEMMA DraftIInv == IInv /\ Draft => IInv'
<1> SUFFICES ASSUME IInv, Draft PROVE IInv'
  OBVIOUS
<1> USE DEF IInv
<1>1. PICK count \in 1 .. Min({mtp_max_draft_tokens, Remaining - 1}) :
      \E guesses \in [1 .. count - 1 -> Tokens] :
        /\ drafts' = <<adapter.seed_token>> \o guesses
        /\ adapter' = [adapter EXCEPT !.kv = @ \o SubSeq(drafts', 1, count - 1),
                                      !.round_appended = count - 1]
        /\ snapshots' = IF has_speculation_snapshots /\ Len(snapshots) < count
                        THEN [i \in 1 .. count |-> Blank]
                        ELSE snapshots
  BY DEF Draft
<1>2. PICK guesses \in [1 .. count - 1 -> Tokens] :
        /\ drafts' = <<adapter.seed_token>> \o guesses
        /\ adapter' = [adapter EXCEPT !.kv = @ \o SubSeq(drafts', 1, count - 1),
                                      !.round_appended = count - 1]
        /\ snapshots' = IF has_speculation_snapshots /\ Len(snapshots) < count
                        THEN [i \in 1 .. count |-> Blank]
                        ELSE snapshots
  BY <1>1
<1>3. /\ pc = "round" /\ pc' = "verify" /\ active' = TRUE /\ full_length' = Len(kv)
      /\ UNCHANGED <<target, streaming, mode, mtp_max_draft_tokens>>
      /\ UNCHANGED <<generated_ids, finish_reason, bonus, target_bonus, accepted, pending>>
      /\ UNCHANGED <<linear, shadow, kv, next_position>>
  BY DEF Draft, request, output
<1>4. /\ generated_ids \in Seq(Tokens) /\ Len(generated_ids) < MaxTokens /\ Live
      /\ generated_ids = Append(linear, bonus) /\ IsPrefix(generated_ids, target)
      /\ kv = Entries(linear, 0) /\ next_position = Len(linear) /\ linear \in Seq(Tokens)
  BY <1>3 DEF Types, Live, OnTarget, StatesInStep
<1>5. /\ MaxTokens \in Nat /\ Len(generated_ids) \in Nat /\ MaxDraft \in Nat
      /\ Len(linear) \in Nat
  BY <1>4, MtpAssumption
<1>6. /\ count \in Nat \ {0} /\ count <= mtp_max_draft_tokens
      /\ Len(generated_ids) + count < MaxTokens
  <2>1. mtp_max_draft_tokens \in Nat /\ Remaining - 1 \in Int
    BY <1>5 DEF Types, Remaining
  <2>2. Min({mtp_max_draft_tokens, Remaining - 1}) =
          IF mtp_max_draft_tokens <= Remaining - 1 THEN mtp_max_draft_tokens ELSE Remaining - 1
    BY <2>1, MinOfTwo
  <2> QED
    BY <1>4, <1>5, <2>1, <2>2 DEF Remaining
<1>7. drafts' \in Seq(Tokens) /\ Len(drafts') = count
  <2>1. guesses \in Seq(Tokens) /\ Len(guesses) = count - 1
    BY <1>6
  <2>2. adapter.seed_token \in Tokens
    BY DEF Types, AdapterType
  <2> QED
    BY <1>2, <1>6, <2>1, <2>2, FedInFront
<1>8. /\ adapter' \in AdapterType
      /\ adapter'.kv = adapter.kv \o SubSeq(drafts', 1, count - 1)
      /\ adapter'.round_appended = count - 1
      /\ adapter'.seed_hidden = adapter.seed_hidden
  <2>1. SubSeq(drafts', 1, count - 1) \in Seq(Tokens)
    BY <1>6, <1>7, BeginningOf
  <2>2. adapter.kv \o SubSeq(drafts', 1, count - 1) \in Seq(Tokens)
    BY <2>1, ConcatProperties DEF Types, AdapterType
  <2>3. adapter \in AdapterType /\ count - 1 \in Nat
    BY <1>6 DEF Types
  <2>4. adapter' = [adapter EXCEPT !.kv = adapter.kv \o SubSeq(drafts', 1, count - 1),
                                   !.round_appended = count - 1]
    BY <1>2
  <2> QED
    BY <2>2, <2>3, <2>4 DEF AdapterType
<1>9. snapshots' \in Seq(States) /\ (has_speculation_snapshots => count <= Len(snapshots'))
  <2>1. Blank \in States
    BY DEF Blank, States
  <2>2. [i \in 1 .. count |-> Blank] \in Seq(States) /\ Len([i \in 1 .. count |-> Blank]) = count
    BY <1>6, <2>1
  <2> QED
    BY <1>2, <1>6, <2>2 DEF Types
<1>10. full_length' = Len(linear)
  BY <1>3, <1>4, EntriesType
<1>11. Types'
  <2>1. accepted' \in 0 .. Len(drafts')
    BY <1>3, <1>6, <1>7 DEF Types
  <2>2. Live'
    BY <1>3 DEF Live
  <2> QED
    BY <1>3, <1>4, <1>5, <1>7, <1>8, <1>9, <1>10, <2>1, <2>2 DEF Types
<1>12. OnTarget'
  BY <1>3, <1>4 DEF OnTarget
<1>13. StatesInStep'
  <2>1. drafts' # <<>>
    BY <1>6, <1>7
  <2> QED
    BY <1>3, <1>4, <1>6, <1>7, <1>9, <1>10, <2>1 DEF StatesInStep, has_speculation_snapshots
<1>14. AdapterFollows'
  <2>1. drafts' # <<>>
    BY <1>6, <1>7
  <2>2. Fused => count - 1 = 0
    BY <1>6 DEF Fused
  <2>3. ~Fused => adapter.seed_hidden /\ adapter.kv = generated_ids
    BY <1>3 DEF AdapterFollows
  <2> QED
    BY <1>3, <1>6, <1>7, <1>8, <2>1, <2>2, <2>3 DEF AdapterFollows, Fused
<1> QED
  BY <1>11, <1>12, <1>13, <1>14

-----------------------------------------------------------------------------
(* The rows of a round.                                                     *)

LEMMA FedRows ==
  ASSUME Types, NEW i \in 0 .. Len(drafts)
  PROVE  /\ Fed \in Seq(Tokens) /\ Len(Fed) = Len(drafts) + 1
         /\ SubSeq(Fed, 1, i + 1) \in Seq(Tokens)
         /\ Absorbed(i + 1) = linear \o SubSeq(Fed, 1, i + 1)
         /\ Absorbed(i + 1) \in Seq(Tokens)
         /\ Len(Absorbed(i + 1)) = Len(linear) + i + 1
         /\ Absorbed(i + 1) = Append(linear, bonus) \o SubSeq(drafts, 1, i)
<1>1. /\ linear \in Seq(Tokens) /\ drafts \in Seq(Tokens) /\ bonus \in Tokens
      /\ Len(drafts) \in Nat /\ Len(linear) \in Nat
  BY DEF Types
<1>2. Fed \in Seq(Tokens) /\ Len(Fed) = Len(drafts) + 1
  BY <1>1, FedInFront DEF Fed
<1>3. SubSeq(Fed, 1, i + 1) \in Seq(Tokens) /\ Len(SubSeq(Fed, 1, i + 1)) = i + 1
  <2>1. i + 1 \in 0 .. Len(Fed)
    BY <1>1, <1>2
  <2> QED
    BY <1>2, <2>1, BeginningOf
<1>4. SubSeq(drafts, 1, i) \in Seq(Tokens)
  BY <1>1, BeginningOf
<1>5. SubSeq(Fed, 1, i + 1) = <<bonus>> \o SubSeq(drafts, 1, i)
  BY <1>1, FedBeginning DEF Fed
<1>6. linear \o (<<bonus>> \o SubSeq(drafts, 1, i)) = Append(linear, bonus) \o SubSeq(drafts, 1, i)
  <2> DEFINE v == SubSeq(drafts, 1, i)
  <2>1. v \in Seq(Tokens)
    BY <1>4
  <2> HIDE DEF v
  <2>2. linear \in Seq(Tokens) /\ bonus \in Tokens
    BY <1>1
  <2>3. linear \o (<<bonus>> \o v) = Append(linear, bonus) \o v
    BY <2>1, <2>2, FedInFront
  <2> QED
    BY <2>3 DEF v
<1>7. linear \o SubSeq(Fed, 1, i + 1) \in Seq(Tokens)
      /\ Len(linear \o SubSeq(Fed, 1, i + 1)) = Len(linear) + i + 1
  <2> DEFINE v == SubSeq(Fed, 1, i + 1)
  <2>1. v \in Seq(Tokens) /\ Len(v) = i + 1
    BY <1>3
  <2> HIDE DEF v
  <2>2. linear \o v \in Seq(Tokens) /\ Len(linear \o v) = Len(linear) + Len(v)
    BY <1>1, <2>1, ConcatProperties
  <2> QED
    BY <1>1, <2>1, <2>2 DEF v
<1> QED
  BY <1>2, <1>3, <1>5, <1>6, <1>7 DEF Absorbed

LEMMA NextRow ==
  ASSUME Types, NEW i \in 0 .. Len(drafts), i < Len(drafts)
  PROVE  /\ drafts[i + 1] \in Tokens
         /\ Absorbed(i + 2) = Append(Absorbed(i + 1), drafts[i + 1])
<1> DEFINE u == Append(linear, bonus)
           v == SubSeq(drafts, 1, i)
           y == drafts[i + 1]
<1>1. /\ drafts \in Seq(Tokens) /\ Len(drafts) \in Nat
      /\ i + 1 \in 1 .. Len(drafts) /\ 1 \in 1 .. Len(drafts) /\ i + 1 \in 0 .. Len(drafts)
  BY DEF Types
<1>2. y \in Tokens
  BY <1>1, ElementOfSeq
<1>3. u \in Seq(Tokens)
  BY AppendProperties DEF Types
<1>4. v \in Seq(Tokens)
  BY <1>1, BeginningOf
<1>5. SubSeq(drafts, 1, i + 1) = v \o <<y>>
  <2>1. i + 1 \in 1 .. Len(drafts) /\ (i + 1) - 1 = i
    BY <1>1
  <2> QED
    BY <1>1, <2>1, SubSeqRecursiveSecond
<1>6. Absorbed(i + 2) = u \o (v \o <<y>>)
  <2>1. (i + 1) + 1 = i + 2
    OBVIOUS
  <2> QED
    BY <1>1, <1>5, <2>1, FedRows
<1>7. Absorbed(i + 1) = u \o v
  BY FedRows
<1> HIDE DEF u, v, y
<1>8. v \o <<y>> = Append(v, y)
  BY <1>2, <1>4, AppendIsConcat
<1>9. u \o Append(v, y) = Append(u \o v, y)
  BY <1>2, <1>3, <1>4, AppendBehind
<1> QED
  BY <1>2, <1>6, <1>7, <1>8, <1>9 DEF y

LEMMA RowEntries ==
  ASSUME Types, StatesInStep, pc = "verify", NEW i \in 0 .. Len(drafts)
  PROVE  kv \o Entries(SubSeq(Fed, 1, i + 1), next_position) = Entries(Absorbed(i + 1), 0)
<1> DEFINE v == SubSeq(Fed, 1, i + 1)
<1>1. v \in Seq(Tokens) /\ Absorbed(i + 1) = linear \o v
  BY FedRows
<1>2. kv = Entries(linear, 0) /\ next_position = Len(linear) /\ linear \in Seq(Tokens)
  BY DEF StatesInStep, Types
<1> HIDE DEF v
<1>3. Entries(linear, 0) \o Entries(v, Len(linear)) = Entries(linear \o v, 0)
  BY <1>1, <1>2, EntriesConcat
<1> QED
  BY <1>1, <1>2, <1>3 DEF v

(* A row is a token; that of a known part of the answer is the next one. *)
LEMMA RowAnswers ==
  ASSUME Types, OnTarget, StatesInStep, pc = "verify", NEW i \in 0 .. Len(drafts)
  PROVE  /\ VerifiedRow(i + 1) \subseteq Tokens
         /\ IsPrefix(Absorbed(i + 1), target) =>
              /\ Len(Absorbed(i + 1)) < Len(target)
              /\ VerifiedRow(i + 1) = {target[Len(Absorbed(i + 1)) + 1]}
<1> DEFINE rows == Absorbed(i + 1)
<1>1. VerifiedRow(i + 1) = Row(rows, Entries(rows, 0))
  BY RowEntries DEF VerifiedRow
<1>2. rows \in Seq(Tokens) /\ Len(rows) = Len(linear) + i + 1
  BY FedRows
<1>3. /\ Len(linear) \in Nat /\ MaxTokens \in Nat /\ Len(target) = MaxTokens
      /\ target \in Seq(Tokens)
  BY MtpAssumption DEF Types
<1>4. Len(rows) < MaxTokens
  <2>1. Len(generated_ids) = Len(linear) + 1
    <3>1. generated_ids = Append(linear, bonus)
      BY DEF OnTarget
    <3> QED
      BY <3>1, AppendProperties DEF Types
  <2> QED
    BY <1>2, <1>3, <2>1 DEF StatesInStep
<1>5. target[Len(rows) + 1] \in Tokens
  <2>1. Len(rows) + 1 \in 1 .. Len(target)
    BY <1>2, <1>3, <1>4
  <2> QED
    BY <1>3, <2>1, ElementOfSeq
<1> HIDE DEF rows
<1>6. Row(rows, Entries(rows, 0)) = IF IsPrefix(rows, target)
                                    THEN {target[Len(rows) + 1]} ELSE Tokens
  BY <1>4 DEF Row
<1> QED
  BY <1>1, <1>3, <1>4, <1>5, <1>6 DEF rows

(* Accepted drafts are the answer: each was checked against the row before, *)
(* and the first row stands behind the tokens already emitted.              *)
LEMMA AcceptedOnTarget ==
  ASSUME Types, OnTarget, StatesInStep, pc = "verify", NEW n \in 0 .. Len(drafts),
         \A i \in 1 .. n : drafts[i] \in VerifiedRow(i)
  PROVE  \A i \in 0 .. n : IsPrefix(Absorbed(i + 1), target)
<1> DEFINE wrong == {i \in 0 .. n : ~IsPrefix(Absorbed(i + 1), target)}
<1>1. n \in Nat /\ Len(drafts) \in Nat
  BY DEF Types
<1>2. 0 \notin wrong
  <2>1. 0 \in 0 .. Len(drafts) /\ 0 + 1 = 1
    BY <1>1
  <2>2. Absorbed(1) = Append(linear, bonus) \o SubSeq(drafts, 1, 0)
    BY <2>1, FedRows
  <2>3. SubSeq(drafts, 1, 0) = <<>>
    BY SubSeqEmpty
  <2>4. Append(linear, bonus) \in Seq(Tokens)
    BY AppendProperties DEF Types
  <2>5. Absorbed(1) = generated_ids
    BY <2>2, <2>3, <2>4, ConcatEmptySeq DEF OnTarget
  <2> QED
    BY <2>1, <2>5 DEF OnTarget
<1>3. SUFFICES ASSUME wrong # {} PROVE FALSE
  OBVIOUS
<1>4. PICK k \in wrong : \A j \in wrong : k <= j
  <2>1. wrong \in SUBSET Nat
    BY <1>1
  <2> HIDE DEF wrong
  <2> QED
    BY <1>3, <2>1, LeastElement
<1>5. k - 1 \in 0 .. n /\ k - 1 \notin wrong /\ k \in 1 .. n /\ (k - 1) + 1 = k /\ (k - 1) + 2 = k + 1
  BY <1>1, <1>2, <1>4
<1>6. IsPrefix(Absorbed(k), target)
  BY <1>5
<1>7. k - 1 \in 0 .. Len(drafts) /\ k - 1 < Len(drafts)
  BY <1>1, <1>5
<1>8. Len(Absorbed(k)) < Len(target) /\ VerifiedRow(k) = {target[Len(Absorbed(k)) + 1]}
      /\ Absorbed(k) \in Seq(Tokens)
  BY <1>5, <1>6, <1>7, RowAnswers, FedRows
<1>9. drafts[k] = target[Len(Absorbed(k)) + 1]
  BY <1>5, <1>8
<1>10. Absorbed(k + 1) = Append(Absorbed(k), drafts[k]) /\ drafts[k] \in Tokens
  BY <1>5, <1>7, NextRow
<1>11. IsPrefix(Absorbed(k + 1), target)
  <2> DEFINE rows == Absorbed(k)
             next == drafts[k]
  <2>1. rows \in Seq(Tokens) /\ next \in Tokens /\ target \in Seq(Tokens)
    BY <1>8, <1>10 DEF Types
  <2>2. IsPrefix(rows, target) /\ Len(rows) < Len(target) /\ target[Len(rows) + 1] = next
    BY <1>6, <1>8, <1>9
  <2> HIDE DEF rows, next
  <2>3. IsPrefix(Append(rows, next), target)
    BY <2>1, <2>2, PrefixOfAppend
  <2> QED
    BY <1>10, <2>3 DEF rows, next
<1> QED
  BY <1>4, <1>11

LEMMA AllRows ==
  ASSUME Types
  PROVE  /\ Fed \in Seq(Tokens) /\ Len(Fed) = Len(drafts) + 1
         /\ linear \o Fed \in Seq(Tokens)
         /\ Absorbed(Len(drafts) + 1) = linear \o Fed
<1>1. Len(drafts) \in 0 .. Len(drafts)
  BY DEF Types
<1>2. /\ Fed \in Seq(Tokens) /\ Len(Fed) = Len(drafts) + 1
      /\ Absorbed(Len(drafts) + 1) = linear \o SubSeq(Fed, 1, Len(drafts) + 1)
      /\ Absorbed(Len(drafts) + 1) \in Seq(Tokens)
  BY <1>1, FedRows
<1>3. SubSeq(Fed, 1, Len(drafts) + 1) = Fed
  BY <1>2, SubSeqFull
<1> QED
  BY <1>2, <1>3

LEMMA StatesHold == Seq(Tokens) \subseteq States
<1> SUFFICES ASSUME NEW s \in Seq(Tokens) PROVE s \in States
  OBVIOUS
<1> QED
  BY SeqMonotonic DEF States

LEMMA RowsKept ==
  ASSUME UNCHANGED <<linear, bonus, drafts>>
  PROVE  Fed' = Fed /\ \A i \in Int : linear' \o SubSeq(Fed', 1, i) = Absorbed(i)
<1>1. Fed' = Fed
  BY DEF Fed
<1> QED
  BY <1>1 DEF Absorbed

LEMMA VerifyIInv == IInv /\ Verify => IInv'
<1> SUFFICES ASSUME IInv, Verify PROVE IInv'
  OBVIOUS
<1> USE DEF IInv
<1>0. PICK n \in 0 .. Len(drafts) : \E token \in VerifiedRow(n + 1) :
        /\ AcceptedTokenCount(n, token)
        /\ accepted' = n
        /\ target_bonus' = token
        /\ AdapterVerify(token)
  BY DEF Verify
<1>1. PICK token \in VerifiedRow(n + 1) :
        /\ AcceptedTokenCount(n, token)
        /\ accepted' = n
        /\ target_bonus' = token
        /\ AdapterVerify(token)
  BY <1>0
<1>2. /\ pc = "verify" /\ pc' = "commit"
      /\ shadow' = Absorbed(Len(Fed))
      /\ snapshots' = [i \in DOMAIN snapshots |->
                         IF i <= Len(drafts) THEN Absorbed(i) ELSE snapshots[i]]
      /\ kv' = kv \o Entries(Fed, next_position)
      /\ UNCHANGED <<target, streaming, mode, mtp_max_draft_tokens>>
      /\ UNCHANGED <<generated_ids, finish_reason, bonus, linear, active>>
      /\ UNCHANGED <<full_length, next_position, drafts, pending>>
  BY DEF Verify, request, output
<1>3. Live /\ Live'
  BY <1>2 DEF Live
<1>4. /\ kv = Entries(linear, 0) /\ next_position = Len(linear) /\ full_length = Len(linear)
      /\ drafts # <<>> /\ Len(generated_ids) + Len(drafts) < MaxTokens
      /\ has_speculation_snapshots => Len(drafts) <= Len(snapshots)
      /\ linear \in Seq(Tokens) /\ drafts \in Seq(Tokens) /\ Len(drafts) \in Nat
  BY <1>2 DEF Types, StatesInStep
<1>5. token \in Tokens
  BY <1>1, <1>2, RowAnswers
<1>6. IsPrefix(Append(Absorbed(n + 1), token), target)
  <2> DEFINE rows == Absorbed(n + 1)
  <2>1. IsPrefix(rows, target)
    BY <1>1, <1>2, AcceptedOnTarget DEF AcceptedTokenCount
  <2>2. Len(rows) < Len(target) /\ token = target[Len(rows) + 1]
    BY <1>1, <1>2, <2>1, RowAnswers
  <2>3. rows \in Seq(Tokens) /\ target \in Seq(Tokens)
    BY FedRows DEF Types
  <2> HIDE DEF rows
  <2>4. IsPrefix(Append(rows, token), target)
    BY <1>5, <2>1, <2>2, <2>3, PrefixOfAppend
  <2> QED
    BY <2>4 DEF rows
<1>7. shadow' = linear \o Fed /\ shadow' \in Seq(Tokens) /\ Fed \in Seq(Tokens)
  BY <1>2, AllRows
<1>8. kv' = Entries(linear \o Fed, 0)
  BY <1>2, <1>4, <1>7, EntriesConcat
<1>9. /\ snapshots' \in Seq(States) /\ Len(snapshots') = Len(snapshots)
      /\ has_speculation_snapshots => \A i \in 1 .. Len(drafts) : snapshots'[i] = Absorbed(i)
  <2>1. snapshots \in Seq(States) /\ DOMAIN snapshots = 1 .. Len(snapshots)
        /\ Len(snapshots) \in Nat
    BY LenProperties DEF Types
  <2>2. ASSUME NEW i \in 1 .. Len(snapshots), i <= Len(drafts)
        PROVE  Absorbed(i) \in States
    <3>1. i - 1 \in 0 .. Len(drafts) /\ (i - 1) + 1 = i
      BY <1>4, <2>1, <2>2
    <3>2. Absorbed(i) \in Seq(Tokens)
      BY <3>1, FedRows
    <3> QED
      BY <3>2, StatesHold
  <2>3. \A i \in 1 .. Len(snapshots) : snapshots'[i] \in States
    BY <1>2, <2>1, <2>2, ElementOfSeq
  <2>4. snapshots' \in [1 .. Len(snapshots) -> States]
    BY <1>2, <2>1, <2>3
  <2>5. snapshots' \in Seq(States) /\ Len(snapshots') = Len(snapshots)
    BY <2>1, <2>4
  <2>6. has_speculation_snapshots => \A i \in 1 .. Len(drafts) : snapshots'[i] = Absorbed(i)
    BY <1>2, <1>4, <2>1
  <2> QED
    BY <2>5, <2>6
<1>10. /\ adapter' \in AdapterType
       /\ ~Fused => adapter' = adapter
       /\ Fused => adapter'.round_appended = 0
  <2>1. CASE use_fused_seed
    <3>1. PICK seed \in Tokens :
            adapter' = [kv |-> Append(adapter.kv, token), seed_token |-> seed,
                        seed_hidden |-> FALSE, round_appended |-> 0]
      BY <1>1, <2>1 DEF AdapterVerify
    <3>2. Append(adapter.kv, token) \in Seq(Tokens)
      BY <1>5, AppendProperties DEF Types, AdapterType
    <3> QED
      BY <2>1, <3>1, <3>2 DEF AdapterType, use_fused_seed, Fused
  <2>2. CASE ~use_fused_seed
    <3>1. adapter' = adapter
      BY <1>1, <2>2 DEF AdapterVerify
    <3> QED
      BY <3>1 DEF Types, AdapterFollows
  <2> QED
    BY <2>1, <2>2
<1>11. Types'
  <2>1. accepted' \in 0 .. Len(drafts')
    BY <1>1, <1>2
  <2>2. shadow' \in States
    BY <1>7, StatesHold
  <2>3. active' \in BOOLEAN /\ (active' <=> pc' \in {"verify", "commit"})
    BY <1>2 DEF Types
  <2>4. target_bonus' \in Tokens
    BY <1>1, <1>5
  <2> QED
    BY <1>2, <1>3, <1>9, <1>10, <2>1, <2>2, <2>3, <2>4 DEF Types
<1>12. OnTarget'
  <2>1. Absorbed(accepted + 1)' = Absorbed(n + 1)
    BY <1>1, <1>2, RowsKept DEF Absorbed
  <2>2. IsPrefix(Append(Absorbed(accepted + 1), target_bonus), target)'
    BY <1>1, <1>2, <1>6, <2>1
  <2> QED
    BY <1>2, <2>2 DEF OnTarget
<1>13. StatesInStep'
  <2>1. Fed' = Fed /\ \A i \in Int : Absorbed(i)' = Absorbed(i)
    BY <1>2, RowsKept DEF Absorbed
  <2>2. has_speculation_snapshots' = has_speculation_snapshots
    BY <1>2 DEF has_speculation_snapshots
  <2>3. Len(drafts') <= Len(snapshots') \/ ~has_speculation_snapshots
    BY <1>2, <1>4, <1>9
  <2>4. ASSUME has_speculation_snapshots', NEW i \in 1 .. Len(drafts')
        PROVE  (snapshots[i] = Absorbed(i))'
    <3>1. i \in 1 .. Len(drafts) /\ i \in Int
      BY <1>2, <1>4, <2>4
    <3>2. snapshots'[i] = Absorbed(i)
      BY <1>9, <2>2, <2>4, <3>1
    <3> QED
      BY <2>1, <3>1, <3>2
  <2>5. shadow' = linear' \o Fed' /\ kv' = Entries(linear' \o Fed', 0)
    BY <1>2, <1>7, <1>8, <2>1
  <2>6. /\ full_length' = Len(linear') /\ next_position' = Len(linear') /\ drafts' # <<>>
        /\ Len(generated_ids') + Len(drafts') < MaxTokens
    BY <1>2, <1>4
  <2> QED
    BY <1>2, <2>2, <2>3, <2>4, <2>5, <2>6 DEF StatesInStep
<1>14. AdapterFollows'
  BY <1>2, <1>10 DEF AdapterFollows, Fused
<1> QED
  BY <1>11, <1>12, <1>13, <1>14

(* Whichever way the round is committed, the states have to absorb the      *)
(* bonus and the accepted drafts, and nothing else.                         *)
LEMMA CommitIInv ==
  ASSUME IInv, Commit,
         linear' = Absorbed(accepted + 1), kv' = Entries(Absorbed(accepted + 1), 0),
         shadow' \in States, snapshots' \in Seq(States)
  PROVE  IInv'
<1> USE DEF IInv
<1>1. /\ pc = "commit" /\ pc' = "emit" /\ active' = FALSE
      /\ next_position' = next_position + accepted + 1
      /\ pending' = Append(SubSeq(drafts, 1, accepted), target_bonus)
      /\ UNCHANGED <<target, streaming, mode, mtp_max_draft_tokens>>
      /\ UNCHANGED <<generated_ids, finish_reason, bonus, full_length>>
      /\ UNCHANGED <<drafts, accepted, target_bonus, adapter>>
  BY DEF Commit, request, output, round
<1>2. Live /\ Live'
  BY <1>1 DEF Live
<1>3. /\ generated_ids = Append(linear, bonus) /\ next_position = Len(linear)
      /\ linear \in Seq(Tokens) /\ drafts \in Seq(Tokens) /\ Len(drafts) \in Nat
      /\ accepted \in 0 .. Len(drafts) /\ target_bonus \in Tokens
      /\ generated_ids \in Seq(Tokens) /\ Len(linear) \in Nat
  <2>1. generated_ids = Append(linear, bonus) /\ next_position = Len(linear)
    BY <1>1, <1>2 DEF OnTarget, StatesInStep
  <2>2. /\ linear \in Seq(Tokens) /\ drafts \in Seq(Tokens)
        /\ accepted \in 0 .. Len(drafts) /\ target_bonus \in Tokens
        /\ generated_ids \in Seq(Tokens)
    BY <1>2 DEF Types
  <2>3. Len(drafts) \in Nat /\ Len(linear) \in Nat
    BY <2>2
  <2> QED
    BY <2>1, <2>2, <2>3
<1>4. /\ linear' = generated_ids \o SubSeq(drafts, 1, accepted)
      /\ linear' \in Seq(Tokens) /\ Len(linear') = Len(linear) + accepted + 1
  BY <1>3, FedRows
<1>5. /\ SubSeq(drafts, 1, accepted) \in Seq(Tokens) /\ pending' \in Seq(Tokens)
      /\ pending' # <<>>
      /\ generated_ids \o pending' = Append(linear', target_bonus)
  <2> DEFINE v == SubSeq(drafts, 1, accepted)
  <2>1. v \in Seq(Tokens)
    BY <1>3, BeginningOf
  <2>2. pending' = Append(v, target_bonus) /\ linear' = generated_ids \o v
    BY <1>1, <1>4
  <2> HIDE DEF v
  <2>3. pending' \in Seq(Tokens) /\ pending' # <<>>
    <3>1. target_bonus \in Tokens
      BY <1>3
    <3>2. Append(v, target_bonus) \in Seq(Tokens) /\ Append(v, target_bonus) # <<>>
      BY <2>1, <3>1, AppendProperties
    <3> QED
      BY <2>2, <3>2
  <2>4. generated_ids \o Append(v, target_bonus) = Append(generated_ids \o v, target_bonus)
    BY <1>3, <2>1, AppendBehind
  <2> QED
    BY <2>1, <2>2, <2>3, <2>4 DEF v
<1>6. Types'
  <2>1. active' \in BOOLEAN /\ (active' <=> pc' \in {"verify", "commit"})
    BY <1>1
  <2>2. next_position' \in Nat
    BY <1>1, <1>3
  <2> QED
    BY <1>1, <1>2, <1>3, <1>4, <1>5, <2>1, <2>2 DEF Types
<1>7. OnTarget'
  <2>1. IsPrefix(Append(linear', target_bonus'), target')
    BY <1>1 DEF OnTarget
  <2> QED
    BY <1>1, <1>5, <2>1 DEF OnTarget
<1>8. StatesInStep'
  BY <1>1, <1>3, <1>4 DEF StatesInStep
<1>9. AdapterFollows'
  <2>1. ~Fused => /\ adapter.kv = generated_ids \o SubSeq(drafts, 1, Len(drafts) - 1)
                  /\ drafts # <<>> /\ adapter.round_appended = Len(drafts) - 1
    BY <1>1 DEF AdapterFollows
  <2> QED
    BY <1>1, <1>3, <1>4, <2>1 DEF AdapterFollows, Fused
<1> QED
  BY <1>6, <1>7, <1>8, <1>9

LEMMA CommitAllIInv == IInv /\ CommitAll => IInv'
<1> SUFFICES ASSUME IInv, CommitAll PROVE IInv'
  OBVIOUS
<1>1. /\ Commit /\ accepted = Len(drafts) /\ linear' = shadow /\ shadow' = linear
      /\ snapshots' = snapshots /\ kv' = kv /\ pc = "commit"
  BY DEF CommitAll, Commit
<1>2. shadow = linear \o Fed /\ kv = Entries(linear \o Fed, 0)
  BY <1>1 DEF IInv, StatesInStep
<1>3. linear \o Fed = Absorbed(accepted + 1)
  BY <1>1, AllRows DEF IInv
<1>4. shadow' \in States /\ snapshots' \in Seq(States)
  BY <1>1, StatesHold DEF IInv, Types
<1> QED
  BY <1>1, <1>2, <1>3, <1>4, CommitIInv

(* The entries of the accepted rows are those of the round, cut. *)
LEMMA AcceptedEntries ==
  ASSUME Types, StatesInStep, pc = "commit", NEW n \in 0 .. Len(drafts) + 1
  PROVE  SubSeq(kv, 1, full_length + n) = Entries(linear \o SubSeq(Fed, 1, n), 0)
<1> DEFINE all == linear \o Fed
<1>1. /\ kv = Entries(all, 0) /\ full_length = Len(linear) /\ linear \in Seq(Tokens)
      /\ Len(linear) \in Nat /\ Len(drafts) \in Nat
  BY DEF StatesInStep, Types
<1>2. Fed \in Seq(Tokens) /\ Len(Fed) = Len(drafts) + 1 /\ all \in Seq(Tokens)
  BY AllRows
<1>3. Len(all) = Len(linear) + Len(Fed)
  BY <1>1, <1>2, ConcatProperties
<1>4. n \in 0 .. Len(Fed)
  BY <1>1, <1>2
<1>5. SubSeq(all, 1, Len(linear) + n) = linear \o SubSeq(Fed, 1, n)
  BY <1>1, <1>2, <1>4, CutBehind
<1> HIDE DEF all
<1>6. Len(linear) + n \in 0 .. Len(all)
  BY <1>1, <1>2, <1>3, <1>4
<1>7. SubSeq(Entries(all, 0), 1, Len(linear) + n) = Entries(SubSeq(all, 1, Len(linear) + n), 0)
  BY <1>2, <1>6, EntriesCut
<1> QED
  BY <1>1, <1>5, <1>7

LEMMA CommitPrefixIInv == IInv /\ CommitPrefix => IInv'
<1> SUFFICES ASSUME IInv, CommitPrefix PROVE IInv'
  OBVIOUS
<1>1. /\ Commit /\ accepted < Len(drafts) /\ has_speculation_snapshots /\ pc = "commit"
      /\ linear' = snapshots[accepted + 1] /\ shadow' = shadow
      /\ snapshots' = IF Len(snapshots) = 1 THEN <<linear>> ELSE snapshots
      /\ kv' = SubSeq(kv, 1, full_length + accepted + 1)
  BY DEF CommitPrefix, Commit
<1>2. /\ accepted \in 0 .. Len(drafts) /\ Len(drafts) \in Nat /\ full_length \in Nat
      /\ accepted + 1 \in 1 .. Len(drafts) /\ accepted + 1 \in 0 .. Len(drafts) + 1
  BY <1>1 DEF IInv, Types
<1>3. linear' = Absorbed(accepted + 1)
  BY <1>1, <1>2 DEF IInv, StatesInStep
<1>4. kv' = Entries(Absorbed(accepted + 1), 0)
  <2>1. full_length + (accepted + 1) = full_length + accepted + 1
    BY <1>2
  <2>2. SubSeq(kv, 1, full_length + (accepted + 1)) = Entries(Absorbed(accepted + 1), 0)
    BY <1>1, <1>2, AcceptedEntries DEF IInv, Absorbed
  <2> QED
    BY <1>1, <2>1, <2>2
<1>5. shadow' \in States /\ snapshots' \in Seq(States)
  <2>1. linear \in States
    BY StatesHold DEF IInv, Types
  <2> QED
    BY <1>1, <2>1, SingletonSeq DEF IInv, Types
<1> QED
  BY <1>1, <1>3, <1>4, <1>5, CommitIInv

LEMMA ReplayIInv == IInv /\ Replay => IInv'
<1> SUFFICES ASSUME IInv, Replay PROVE IInv'
  OBVIOUS
<1>1. /\ Commit /\ pc = "commit" /\ shadow' = shadow /\ snapshots' = snapshots
      /\ linear' = Absorbed(accepted + 1)
      /\ kv' = SubSeq(kv, 1, full_length) \o Entries(SubSeq(Fed, 1, accepted + 1), next_position)
  BY DEF Replay, Commit
<1>2. /\ accepted \in 0 .. Len(drafts) /\ Len(drafts) \in Nat /\ full_length \in Nat
      /\ 0 \in 0 .. Len(drafts) + 1 /\ linear \in Seq(Tokens) /\ next_position = Len(linear)
  BY <1>1 DEF IInv, Types, StatesInStep
<1>3. SubSeq(kv, 1, full_length) = Entries(linear, 0)
  <2>1. full_length + 0 = full_length
    BY <1>2
  <2>2. SubSeq(Fed, 1, 0) = <<>>
    BY SubSeqEmpty
  <2>3. linear \o <<>> = linear
    BY <1>2, ConcatEmptySeq
  <2> QED
    BY <1>1, <1>2, <2>1, <2>2, <2>3, AcceptedEntries DEF IInv
<1>4. kv' = Entries(Absorbed(accepted + 1), 0)
  <2> DEFINE v == SubSeq(Fed, 1, accepted + 1)
  <2>1. v \in Seq(Tokens) /\ Absorbed(accepted + 1) = linear \o v
    BY <1>2, FedRows DEF IInv
  <2>2. kv' = Entries(linear, 0) \o Entries(v, Len(linear))
    BY <1>1, <1>2, <1>3
  <2> HIDE DEF v
  <2> QED
    BY <1>2, <2>1, <2>2, EntriesConcat
<1>5. shadow' \in States /\ snapshots' \in Seq(States)
  BY <1>1 DEF IInv, Types
<1> QED
  BY <1>1, <1>4, <1>5, CommitIInv

LEMMA EmitNextIInv == IInv /\ EmitNext => IInv'
<1> SUFFICES ASSUME IInv, EmitNext PROVE IInv'
  OBVIOUS
<1> USE DEF IInv
<1> DEFINE next == IF Len(pending) > 1 THEN "emit" ELSE "accept"
<1>1. /\ pc = "emit" /\ Emit(Head(pending), next) /\ pending' = Tail(pending)
      /\ UNCHANGED <<target, streaming, mode, mtp_max_draft_tokens>>
      /\ UNCHANGED <<bonus, target_bonus, drafts, accepted, adapter>>
      /\ UNCHANGED <<linear, shadow, snapshots, kv, active, full_length, next_position>>
  BY DEF EmitNext, request, states, round
<1>2. /\ generated_ids \in Seq(Tokens) /\ Len(generated_ids) < MaxTokens /\ Live
      /\ pending \in Seq(Tokens) /\ pending # <<>> /\ linear \in Seq(Tokens)
      /\ generated_ids \o pending = Append(linear, target_bonus)
      /\ IsPrefix(Append(linear, target_bonus), target) /\ active = FALSE
  BY <1>1 DEF Types, Live, OnTarget
<1>3. /\ Tail(pending) \in Seq(Tokens) /\ Head(pending) \in Tokens
      /\ Len(Tail(pending)) = Len(pending) - 1 /\ Len(pending) \in Nat \ {0}
      /\ Append(generated_ids, Head(pending)) \o Tail(pending) = generated_ids \o pending
  BY <1>2, HeadMoves, EmptySeq
<1>4. finish_reason' \in {"Length", "Stop", "StopSequence"}
  BY <1>1, EmitReason DEF Types
<1>5. CASE pc' = "finish"
  <2>1. linear' \in Seq(Tokens)
    BY <1>1, <1>2
  <2> QED
    BY <1>1, <1>2, <1>4, <1>5, <2>1, Stopped
<1>6. CASE /\ pc' = next
           /\ generated_ids' = Append(generated_ids, Head(pending))
           /\ generated_ids' \in Seq(Tokens)
           /\ Len(generated_ids') < MaxTokens
           /\ finish_reason' = finish_reason
  <2>1. Types'
    <3>1. Live' /\ ~(pc' \in {"verify", "commit", "first", "round"})
      BY <1>6 DEF Live
    <3> QED
      BY <1>1, <1>2, <1>3, <1>6, <3>1 DEF Types
  <2>2. generated_ids' \o pending' = Append(linear', target_bonus')
    BY <1>1, <1>2, <1>3, <1>6
  <2>3. OnTarget'
    <3>1. CASE Len(pending) > 1
      <4>1. pending' # <<>>
        <5>1. Len(pending') > 0
          BY <1>1, <1>3, <3>1
        <5> QED
          BY <5>1, EmptySeq
      <4> QED
        BY <1>1, <1>2, <1>6, <2>2, <3>1, <4>1 DEF OnTarget
    <3>2. CASE ~(Len(pending) > 1)
      <4>1. pending' = <<>>
        BY <1>1, <1>3, <3>2
      <4>2. generated_ids' = Append(linear', target_bonus')
        BY <1>6, <2>2, <4>1, ConcatEmptySeq
      <4> QED
        BY <1>1, <1>2, <1>6, <3>2, <4>2 DEF OnTarget
    <3> QED
      BY <3>1, <3>2
  <2>4. StatesInStep'
    BY <1>1, <1>6 DEF StatesInStep
  <2>5. AdapterFollows'
    BY <1>1, <1>6 DEF AdapterFollows, Fused
  <2> QED
    BY <2>1, <2>3, <2>4, <2>5
<1> HIDE DEF next
<1>7. \/ pc' = "finish"
      \/ /\ pc' = next
         /\ generated_ids' = Append(generated_ids, Head(pending))
         /\ generated_ids' \in Seq(Tokens)
         /\ Len(generated_ids') < MaxTokens
         /\ finish_reason' = finish_reason
  BY <1>1, <1>2, <1>3, EmitStep
<1> QED
  BY <1>5, <1>6, <1>7

(* accept_verified keeps of the adapter's cache what was accepted, adds     *)
(* what is missing of it and the target's own token.                        *)
LEMMA AdapterAccepts ==
  ASSUME Types, AdapterFollows, pc = "accept", ~Fused, AcceptVerified
  PROVE  /\ adapter' \in AdapterType
         /\ adapter'.kv = Append(linear, target_bonus)
         /\ adapter'.seed_hidden /\ adapter'.round_appended = 0
<1> DEFINE m == Len(drafts) - 1
           keep == Min({accepted, adapter.round_appended})
           kept == SubSeq(adapter.kv, 1, Len(adapter.kv) - (adapter.round_appended - keep))
           new == kept \o SubSeq(drafts, keep + 1, accepted) \o <<target_bonus>>
<1>1. PICK before \in Seq(Tokens) :
        /\ linear = before \o SubSeq(drafts, 1, accepted)
        /\ adapter.kv = before \o SubSeq(drafts, 1, m)
  BY DEF AdapterFollows
<1>2. /\ adapter.round_appended = m /\ drafts # <<>> /\ drafts \in Seq(Tokens)
      /\ Len(drafts) \in Nat \ {0} /\ accepted \in 0 .. Len(drafts) /\ target_bonus \in Tokens
  BY EmptySeq DEF AdapterFollows, Types
<1>3. m \in 0 .. Len(drafts) /\ m \in Int /\ accepted \in Int
  BY <1>2
<1>4. keep \in 0 .. m /\ keep <= accepted
  <2>1. keep = IF accepted <= m THEN accepted ELSE m
    BY <1>2, <1>3, MinOfTwo
  <2> QED
    BY <1>2, <1>3, <2>1
<1>5. new = Append(before \o SubSeq(drafts, 1, accepted), target_bonus)
  <2>1. new = SubSeq(before \o SubSeq(drafts, 1, m), 1,
                     Len(before \o SubSeq(drafts, 1, m)) - (m - keep))
                \o SubSeq(drafts, keep + 1, accepted) \o <<target_bonus>>
    BY <1>1, <1>2
  <2>2. /\ before \in Seq(Tokens) /\ drafts \in Seq(Tokens) /\ target_bonus \in Tokens
        /\ m \in 0 .. Len(drafts) /\ accepted \in 0 .. Len(drafts)
        /\ keep \in 0 .. m /\ keep <= accepted
    BY <1>1, <1>2, <1>3, <1>4
  <2> HIDE DEF keep, m, new
  <2>3. SubSeq(before \o SubSeq(drafts, 1, m), 1,
               Len(before \o SubSeq(drafts, 1, m)) - (m - keep))
          = before \o SubSeq(drafts, 1, keep)
    BY <2>2, TakenBack
  <2>4. /\ before \in Seq(Tokens) /\ drafts \in Seq(Tokens) /\ target_bonus \in Tokens
        /\ accepted \in 0 .. Len(drafts) /\ keep \in 0 .. accepted
    BY <2>2
  <2>5. (before \o SubSeq(drafts, 1, keep)) \o SubSeq(drafts, keep + 1, accepted)
          \o <<target_bonus>> = Append(before \o SubSeq(drafts, 1, accepted), target_bonus)
    BY <2>4, Extended
  <2> QED
    BY <2>1, <2>3, <2>5
<1>6. PICK seed \in Tokens :
        adapter' = [kv |-> new, seed_token |-> seed, seed_hidden |-> TRUE, round_appended |-> 0]
  BY DEF AcceptVerified
<1>7. new = Append(linear, target_bonus) /\ new \in Seq(Tokens)
  <2>1. linear \in Seq(Tokens) /\ target_bonus \in Tokens
    BY DEF Types
  <2>2. new = Append(linear, target_bonus)
    BY <1>1, <1>5
  <2> HIDE DEF new
  <2>3. Append(linear, target_bonus) \in Seq(Tokens)
    BY <2>1, AppendProperties
  <2> QED
    BY <2>2, <2>3
<1> HIDE DEF new
<1> QED
  BY <1>6, <1>7 DEF AdapterType

LEMMA AcceptIInv == IInv /\ Accept => IInv'
<1> SUFFICES ASSUME IInv, Accept PROVE IInv'
  OBVIOUS
<1> USE DEF IInv
<1>1. /\ pc = "accept" /\ pc' = "round" /\ bonus' = target_bonus
      /\ drafts' = <<>> /\ accepted' = 0
      /\ IF use_fused_seed THEN UNCHANGED adapter ELSE AcceptVerified
      /\ UNCHANGED <<target, streaming, mode, mtp_max_draft_tokens>>
      /\ UNCHANGED <<generated_ids, finish_reason, target_bonus, pending>>
      /\ UNCHANGED <<linear, shadow, snapshots, kv, active, full_length, next_position>>
  BY DEF Accept, request, output, states
<1>2. Live /\ Live'
  BY <1>1 DEF Live
<1>3. /\ generated_ids = Append(linear, target_bonus)
      /\ IsPrefix(Append(linear, target_bonus), target)
  BY <1>1 DEF OnTarget
<1>4. /\ adapter' \in AdapterType /\ adapter'.round_appended = 0
      /\ ~Fused => adapter'.kv = generated_ids /\ adapter'.seed_hidden
  <2>1. CASE Fused
    <3>1. use_fused_seed
      BY <2>1 DEF Fused, use_fused_seed, AdapterFollows
    <3> QED
      BY <1>1, <2>1, <3>1 DEF AdapterFollows, Types
  <2>2. CASE ~Fused
    <3>1. ~use_fused_seed
      BY <2>2 DEF Fused, use_fused_seed
    <3> QED
      BY <1>1, <1>3, <2>2, <3>1, AdapterAccepts
  <2> QED
    BY <2>1, <2>2
<1>5. drafts' \in Seq(Tokens) /\ Len(drafts') = 0
  BY <1>1, EmptySeq
<1>6. Types'
  <2>1. accepted' \in 0 .. Len(drafts')
    BY <1>1, <1>5
  <2>2. active' \in BOOLEAN /\ (active' <=> pc' \in {"verify", "commit"})
    BY <1>1 DEF Types
  <2> QED
    BY <1>1, <1>2, <1>4, <1>5, <2>1, <2>2 DEF Types
<1>7. OnTarget'
  BY <1>1, <1>3 DEF OnTarget
<1>8. StatesInStep'
  BY <1>1 DEF StatesInStep
<1>9. AdapterFollows'
  <2>1. Len(drafts') <= mtp_max_draft_tokens'
    BY <1>1, <1>5 DEF Types
  <2> QED
    BY <1>1, <1>4, <2>1 DEF AdapterFollows, Fused
<1> QED
  BY <1>6, <1>7, <1>8, <1>9

LEMMA EndIInv == IInv /\ (Finish \/ Fail) => IInv'
<1> SUFFICES ASSUME IInv, Finish \/ Fail PROVE IInv'
  OBVIOUS
<1> USE DEF IInv
<1>1. /\ pc' \in {"done", "failed"} /\ active' = FALSE
      /\ UNCHANGED <<target, streaming, mode, mtp_max_draft_tokens>>
      /\ UNCHANGED <<bonus, target_bonus, drafts, accepted, adapter>>
      /\ shadow' = shadow /\ snapshots' = snapshots /\ linear' = linear
      /\ full_length' = full_length /\ next_position' = next_position
  BY DEF Finish, Fail, Types, request, round, states
<1>2. finish_reason' \in {"Length", "Stop", "StopSequence"}
  BY DEF Finish, Fail, Types
<1>3. linear' \in Seq(Tokens)
  BY <1>1 DEF Types
<1> QED
  BY <1>1, <1>2, <1>3, Stopped

LEMMA StutterIInv == IInv /\ UNCHANGED vars => IInv'
<1> SUFFICES ASSUME IInv, UNCHANGED vars PROVE IInv'
  OBVIOUS
<1>1. /\ UNCHANGED <<target, streaming, mode, mtp_max_draft_tokens>>
      /\ UNCHANGED <<pc, generated_ids, finish_reason, bonus>>
      /\ UNCHANGED <<linear, shadow, snapshots, kv, active, full_length, next_position>>
      /\ UNCHANGED <<drafts, accepted, target_bonus, pending, adapter>>
  BY DEF vars, request, output, states, round
<1>2. Types'
  BY <1>1 DEF IInv, Types, Live
<1>3. OnTarget'
  BY <1>1 DEF IInv, OnTarget, Absorbed, Fed
<1>4. StatesInStep'
  BY <1>1 DEF IInv, StatesInStep, Absorbed, Fed, has_speculation_snapshots
<1>5. AdapterFollows'
  BY <1>1 DEF IInv, AdapterFollows, Fused
<1> QED
  BY <1>2, <1>3, <1>4, <1>5 DEF IInv

LEMMA StepIInv == IInv /\ [Next]_vars => IInv'
<1> SUFFICES ASSUME IInv, [Next]_vars PROVE IInv'
  OBVIOUS
<1>1. CASE EmitFirst \/ OneTokenTail \/ EmitNext
  BY <1>1, EmitFirstIInv, OneTokenTailIInv, EmitNextIInv
<1>2. CASE Draft \/ Verify \/ Accept
  BY <1>2, DraftIInv, VerifyIInv, AcceptIInv
<1>3. CASE CommitAll \/ CommitPrefix \/ Replay
  BY <1>3, CommitAllIInv, CommitPrefixIInv, ReplayIInv
<1>4. CASE Finish \/ Fail
  BY <1>4, EndIInv
<1>5. CASE Ended \/ UNCHANGED vars
  BY <1>5, StutterIInv DEF Ended
<1> QED
  BY <1>1, <1>2, <1>3, <1>4, <1>5 DEF Next

-----------------------------------------------------------------------------
(* What a round may rely on.                                                *)

(* No step of generate_mtp, in any mode and with any drafts, leaves the *)
(* states, the adapter and the answer out of step.                      *)
THEOREM Inductive == Spec => []IInv
<1>1. Init => IInv
  BY InitIInv
<1>2. IInv /\ [Next]_vars => IInv'
  BY StepIInv
<1> QED
  BY <1>1, <1>2, PTL DEF Spec

(* Whenever a round may begin, the recurrent states, the KV cache and the   *)
(* position stand behind the tokens emitted before the bonus, whichever way *)
(* the rounds before were committed.                                        *)
THEOREM TargetStaysInStep == Spec => []TargetInStep
<1>1. IInv => TargetInStep
  <2> SUFFICES ASSUME IInv, pc = "round"
               PROVE  /\ linear = Front(generated_ids) /\ kv = Entries(linear, 0)
                      /\ next_position = Len(linear) /\ bonus = Last(generated_ids)
    BY DEF TargetInStep
  <2>1. /\ generated_ids = Append(linear, bonus) /\ linear \in Seq(Tokens) /\ bonus \in Tokens
        /\ kv = Entries(linear, 0) /\ next_position = Len(linear)
    BY DEF IInv, Types, OnTarget, StatesInStep
  <2>2. /\ Append(linear, bonus) \in Seq(Tokens) /\ Len(Append(linear, bonus)) = Len(linear) + 1
        /\ \A i \in 1 .. Len(linear) : Append(linear, bonus)[i] = linear[i]
        /\ Append(linear, bonus)[Len(linear) + 1] = bonus /\ Len(linear) \in Nat
    BY <2>1, AppendProperties
  <2>3. Last(generated_ids) = bonus
    BY <2>1, <2>2 DEF Last
  <2>4. SubSeq(generated_ids, 1, Len(linear)) = linear
    <3>1. /\ generated_ids \in Seq(Tokens) /\ Len(linear) <= Len(generated_ids)
          /\ \A i \in 1 .. Len(linear) : linear[i] = generated_ids[i]
      BY <2>1, <2>2
    <3>2. IsPrefix(linear, generated_ids)
      BY <2>1, <3>1, PrefixRows
    <3> QED
      BY <2>1, <3>2, SubSeqFull DEF IsPrefix
  <2>5. Front(generated_ids) = linear
    BY <2>1, <2>2, <2>4 DEF Front
  <2> QED
    BY <2>1, <2>3, <2>5
<1> QED
  BY <1>1, Inductive, PTL

(* Refused drafts leave no trace in the adapter's cache, accepted ones one  *)
(* entry each, at every depth of drafting.                                  *)
THEOREM AdapterStaysInStep == Spec => []AdapterInStep
<1>1. IInv => AdapterInStep
  BY DEF IInv, AdapterFollows, AdapterInStep, Fused, use_fused_seed
<1> QED
  BY <1>1, Inductive, PTL

(* draft_block never has to extend a seed without its hidden state. *)
THEOREM SeedsAdvance == Spec => []SeedCanAdvance
<1>1. IInv => SeedCanAdvance
  <2> SUFFICES ASSUME IInv, pc = "verify", Len(drafts) > 1
               PROVE  adapter.seed_hidden
    BY DEF SeedCanAdvance
  <2>1. ~Fused
    BY DEF IInv, Types, AdapterFollows, Fused
  <2> QED
    BY <2>1 DEF IInv, AdapterFollows
<1> QED
  BY <1>1, Inductive, PTL

-----------------------------------------------------------------------------
(* Every request ends.                                                      *)

(* The measure while the request runs, and when it has stopped. *)
LEMMA MeasureWhileLive ==
  ASSUME Live, generated_ids \in Seq(Tokens)
  PROVE  /\ Measure = 8 * (MaxTokens - Len(generated_ids)) + StepsLeft[pc]
         /\ StepsLeft[pc] \in 3 .. 8
BY DEF Live, Measure, Remaining, StepsLeft

LEMMA MeasureWhenStopped ==
  /\ pc = "finish" => Measure = 1
  /\ pc \in {"done", "failed"} => Measure = 0
BY DEF Measure

LEMMA RowOfTokens ==
  ASSUME Types, NEW tokens \in Seq(Tokens), NEW entries
  PROVE  Row(tokens, entries) \subseteq Tokens
<1>1. Len(tokens) < MaxTokens => target[Len(tokens) + 1] \in Tokens
  <2> SUFFICES ASSUME Len(tokens) < MaxTokens PROVE target[Len(tokens) + 1] \in Tokens
    OBVIOUS
  <2>1. Len(tokens) + 1 \in 1 .. Len(target) /\ target \in Seq(Tokens)
    BY MtpAssumption DEF Types
  <2> QED
    BY <2>1, ElementOfSeq
<1> QED
  BY <1>1 DEF Row

(* Emission: one token fewer is left, or the request stops. *)
LEMMA EmissionFalls ==
  ASSUME NEW token \in Tokens, NEW next \in {"round", "emit", "accept", "finish"},
         Emit(token, next), IInv, pc \in {"first", "round", "emit"}
  PROVE  Measure' < Measure
<1>1. /\ Live /\ generated_ids \in Seq(Tokens) /\ Len(generated_ids) < MaxTokens
      /\ Len(generated_ids) \in Nat /\ MaxTokens \in Nat
  BY MtpAssumption DEF IInv, Types, Live
<1>2. Measure = 8 * (MaxTokens - Len(generated_ids)) + StepsLeft[pc] /\ StepsLeft[pc] \in 3 .. 8
  BY <1>1, MeasureWhileLive
<1>3. StepsLeft[pc] >= 3
  BY <1>2
<1>4. CASE pc' = "finish"
  <2>1. Measure' = 1
    BY <1>4 DEF Measure
  <2> QED
    BY <1>1, <1>2, <2>1
<1>5. CASE /\ pc' = next /\ pc' # "finish"
           /\ generated_ids' = Append(generated_ids, token)
           /\ generated_ids' \in Seq(Tokens)
  <2>1. Len(generated_ids') = Len(generated_ids) + 1
    BY <1>1, <1>5, AppendProperties
  <2>2. Measure' = 8 * (MaxTokens - Len(generated_ids')) + StepsLeft[pc']
    BY <1>5 DEF Measure, Remaining, StepsLeft
  <2>3. StepsLeft[pc'] <= StepsLeft[pc] + 4 /\ StepsLeft[pc'] \in Nat
    BY <1>5 DEF StepsLeft
  <2> DEFINE left == MaxTokens - Len(generated_ids)
             before == StepsLeft[pc]
             after == StepsLeft[pc']
  <2>4. /\ left \in Int /\ before \in Int /\ after \in Int /\ after <= before + 4
        /\ Measure = 8 * left + before /\ Measure' = 8 * (left - 1) + after
    BY <1>1, <1>2, <2>1, <2>2, <2>3
  <2> HIDE DEF left, before, after
  <2> QED
    BY <2>4
<1> QED
  BY <1>1, <1>4, <1>5, EmitStep

(* The steps of a round between two emissions leave the answer alone and    *)
(* follow one another.                                                      *)
LEMMA RoundFalls ==
  ASSUME IInv, Draft \/ Verify \/ CommitAll \/ CommitPrefix \/ Replay \/ Accept
  PROVE  Measure' < Measure
<1>1. /\ generated_ids' = generated_ids
      /\ \/ pc = "accept" /\ pc' = "round"
         \/ pc = "round" /\ pc' = "verify"
         \/ pc = "verify" /\ pc' = "commit"
         \/ pc = "commit" /\ pc' = "emit"
  BY DEF Draft, Verify, CommitAll, CommitPrefix, Replay, Commit, Accept, output
<1>2. Live /\ Live'
  BY <1>1 DEF Live
<1>3. generated_ids \in Seq(Tokens) /\ Len(generated_ids) \in Nat /\ MaxTokens \in Nat
  BY <1>2, MtpAssumption DEF IInv, Types
<1>4. /\ Measure = 8 * (MaxTokens - Len(generated_ids)) + StepsLeft[pc]
      /\ Measure' = 8 * (MaxTokens - Len(generated_ids)) + StepsLeft[pc']
  BY <1>1, <1>2, <1>3 DEF Live, Measure, Remaining, StepsLeft
<1>5. StepsLeft[pc'] = StepsLeft[pc] - 1 /\ StepsLeft[pc] \in Nat
  BY <1>1 DEF StepsLeft
<1> QED
  BY <1>3, <1>4, <1>5

(* No step but the last leaves the measure where it was: a round that       *)
(* accepts no draft still emits the target's own token.                     *)
THEOREM EveryRoundAdvances == Spec => RoundsTerminate
<1>1. ASSUME IInv, Next, ~Ended PROVE Measure' < Measure
  <2>1. CASE EmitFirst
    <3>1. pc = "first" /\ Emit(bonus, "round") /\ bonus \in Tokens
      BY <1>1, <2>1 DEF EmitFirst, IInv, Types
    <3> QED
      BY <1>1, <3>1, EmissionFalls
  <2>2. CASE OneTokenTail
    <3>1. PICK token \in Row(linear', kv') : Emit(token, "finish")
      BY <2>2 DEF OneTokenTail
    <3>2. pc = "round" /\ linear' \in Seq(Tokens)
      BY <1>1, <2>2, AppendProperties DEF OneTokenTail, IInv, Types
    <3>3. token \in Tokens
      BY <1>1, <3>1, <3>2, RowOfTokens DEF IInv
    <3> QED
      BY <1>1, <3>1, <3>2, <3>3, EmissionFalls
  <2>3. CASE EmitNext
    <3>1. pc = "emit" /\ Emit(Head(pending), IF Len(pending) > 1 THEN "emit" ELSE "accept")
      BY <2>3 DEF EmitNext
    <3>2. Head(pending) \in Tokens
      BY <1>1, <3>1, HeadMoves DEF IInv, Types, OnTarget, Live
    <3> QED
      BY <1>1, <3>1, <3>2, EmissionFalls
  <2>4. CASE Draft \/ Verify \/ CommitAll \/ CommitPrefix \/ Replay \/ Accept
    BY <1>1, <2>4, RoundFalls
  <2>5. CASE Finish
    BY <2>5 DEF Finish, Measure
  <2>6. CASE Fail
    <3>1. Measure' = 0
      BY <2>6 DEF Fail, Measure
    <3>2. Live /\ generated_ids \in Seq(Tokens) /\ Len(generated_ids) < MaxTokens
      BY <1>1, <2>6 DEF Fail, IInv, Types, Live
    <3>3. Len(generated_ids) \in Nat /\ MaxTokens \in Nat
      BY <3>2, MtpAssumption
    <3> QED
      BY <3>1, <3>2, <3>3, MeasureWhileLive
  <2> QED
    BY <1>1, <2>1, <2>2, <2>3, <2>4, <2>5, <2>6 DEF Next
<1>2. IInv /\ [Next]_vars => [Measure' < Measure]_vars
  BY <1>1 DEF Ended
<1> QED
  BY <1>2, Inductive, PTL DEF Spec, RoundsTerminate

-----------------------------------------------------------------------------
(* Speculation is invisible.  The normal loop is an instance, with its own  *)
(* copy of what both loops say about text.                                  *)

LEMMA SameText ==
  /\ \A ids : Normal!StopReached(ids) = StopReached(ids)
  /\ \A ids : Normal!Decode(ids) = Decode(ids)
  /\ \A ids : Normal!TokenSequenceStopIndex(ids) = TokenSequenceStopIndex(ids)
  /\ \A old, new : Normal!Delta(old, new) = Delta(old, new)
  /\ \A ids : Normal!Last(ids) = Last(ids)
<1>1. ASSUME NEW ids PROVE Normal!Decode(ids) = Decode(ids)
  <2>1. Normal!Bytes(ids) = Bytes(ids)
    BY DEF Bytes, Normal!Bytes, FlattenSeq, Normal!FlattenSeq
  <2> QED
    BY <2>1 DEF Decode, Normal!Decode, CharacterAt, Normal!CharacterAt, Completes,
                Normal!Completes, FlattenSeq, Normal!FlattenSeq, Lead, Cont, Wide, Lossy,
                Normal!Lead, Normal!Cont, Normal!Wide, Normal!Lossy
<1>2. ASSUME NEW text PROVE Normal!StopsIn(text) = StopsIn(text)
  BY DEF StopsIn, Normal!StopsIn, IsPrefix, Normal!IsPrefix
<1>3. ASSUME NEW text PROVE Normal!EncodedLength(text) = EncodedLength(text)
  BY DEF EncodedLength, Normal!EncodedLength, Matches, Normal!Matches, Max, Normal!Max,
         IsPrefix, Normal!IsPrefix
<1>4. ASSUME NEW S PROVE Normal!Min(S) = Min(S)
  BY DEF Min, Normal!Min
<1>5. ASSUME NEW ids PROVE Normal!StopReached(ids) = StopReached(ids)
  BY <1>1, <1>2 DEF StopReached, Normal!StopReached
<1>6. ASSUME NEW ids
      PROVE  Normal!TokenSequenceStopIndex(ids) = TokenSequenceStopIndex(ids)
  BY <1>1, <1>2, <1>3, <1>4 DEF TokenSequenceStopIndex, Normal!TokenSequenceStopIndex,
         InFront, Normal!InFront
<1>7. ASSUME NEW old, NEW new PROVE Normal!Delta(old, new) = Delta(old, new)
  BY DEF Delta, Normal!Delta, IsPrefix, Normal!IsPrefix
<1>8. ASSUME NEW ids PROVE Normal!Last(ids) = Last(ids)
  BY DEF Last, Normal!Last
<1> QED
  BY <1>1, <1>5, <1>6, <1>7, <1>8

(* The same of what is proved about the normal loop, whose assumptions on   *)
(* the vocabulary are those of this one.                                    *)
LEMMA SameAnswers ==
  /\ MaxTokens \in Nat \ {0}
  /\ \A t \in Tokens : Text[t] \in Seq(Answers!Symbols)
  /\ \A stop \in Stop : stop \in Seq(Answers!Characters) /\ stop # <<>>
  /\ \A ids : Answers!Decode(ids) = Decode(ids)
  /\ \A ids : Answers!StopReached(ids) = StopReached(ids)
  /\ \A ids : Answers!TokenSequenceStopIndex(ids) = TokenSequenceStopIndex(ids)
<1>1. Answers!Symbols = Symbols
  BY DEF Symbols, Answers!Symbols, Range, Answers!Range
<1>2. Answers!Characters = Characters
  BY <1>1 DEF Characters, Answers!Characters, Range, Answers!Range,
              Wide, Lossy, Answers!Wide, Answers!Lossy
<1>3. ASSUME NEW ids PROVE Answers!Decode(ids) = Decode(ids)
  <2>1. Answers!Bytes(ids) = Bytes(ids)
    BY DEF Bytes, Answers!Bytes, FlattenSeq, Answers!FlattenSeq
  <2> QED
    BY <2>1 DEF Decode, Answers!Decode, CharacterAt, Answers!CharacterAt, Completes,
                Answers!Completes, FlattenSeq, Answers!FlattenSeq, Lead, Cont, Wide, Lossy,
                Answers!Lead, Answers!Cont, Answers!Wide, Answers!Lossy
<1>4. ASSUME NEW text PROVE Answers!StopsIn(text) = StopsIn(text)
  BY DEF StopsIn, Answers!StopsIn, IsPrefix, Answers!IsPrefix
<1>5. ASSUME NEW text PROVE Answers!EncodedLength(text) = EncodedLength(text)
  BY DEF EncodedLength, Answers!EncodedLength, Matches, Answers!Matches, Max, Answers!Max,
         IsPrefix, Answers!IsPrefix
<1>6. ASSUME NEW S PROVE Answers!Min(S) = Min(S)
  BY DEF Min, Answers!Min
<1>7. ASSUME NEW ids PROVE Answers!StopReached(ids) = StopReached(ids)
  BY <1>3, <1>4 DEF StopReached, Answers!StopReached
<1>8. ASSUME NEW ids
      PROVE  Answers!TokenSequenceStopIndex(ids) = TokenSequenceStopIndex(ids)
  BY <1>3, <1>4, <1>5, <1>6 DEF TokenSequenceStopIndex, Answers!TokenSequenceStopIndex,
         InFront, Answers!InFront
<1> QED
  BY <1>1, <1>2, <1>3, <1>7, <1>8, TextAssumption, MtpAssumption

(* What is kept of an answer with a stop is a beginning of it. *)
LEMMA KeptTokens ==
  ASSUME NEW ids \in Seq(Tokens), StopReached(ids)
  PROVE  TokenSequenceStopIndex(ids) \in 0 .. Len(ids)
<1>1. Answers!StopReached(ids)
  BY SameAnswers
<1>2. Answers!TokenSequenceStopIndex(ids) \in 0 .. Len(ids)
  BY <1>1, SameAnswers, Answers!KeptTokens
<1> QED
  BY <1>2, SameAnswers

(* No answer is stopped before it begins. *)
LEMMA NothingStops == ~StopReached(<<>>)
<1>1. Decode(<<>>) = <<>>
  BY SameAnswers, Answers!DecodeNothing
<1> QED
  BY <1>1, EmptySeq DEF StopReached, StopsIn

-----------------------------------------------------------------------------
(* Which answers hold a stop, whatever the vocabulary: none that goes on,   *)
(* and of those that ended at max_tokens just the ones that a stop ended.   *)

StopsHeld ==
  /\ Live => ~StopReached(generated_ids)
  /\ pc = "finish" /\ finish_reason # "StopSequence" => ~StopReached(generated_ids)
  /\ pc = "finish" /\ finish_reason = "StopSequence" /\ Len(generated_ids) = MaxTokens
       => StopReached(generated_ids)

(* A token that is emitted keeps it so.  A stop that leaves max_tokens cut  *)
(* nothing off, and is still there.                                         *)
LEMMA EmissionHolds ==
  ASSUME Types, StopsHeld, Live, NEW token \in Tokens,
         NEW next \in {"round", "emit", "accept", "finish"}, Emit(token, next)
  PROVE  StopsHeld' /\ Len(generated_ids') <= MaxTokens
<1> DEFINE ids == Append(generated_ids, token)
<1>1. /\ generated_ids \in Seq(Tokens) /\ Len(generated_ids) < MaxTokens
      /\ Len(generated_ids) \in Nat /\ MaxTokens \in Nat /\ finish_reason = "Length"
  BY MtpAssumption DEF Types
<1>2. ids \in Seq(Tokens) /\ Len(ids) = Len(generated_ids) + 1
  BY <1>1, AppendProperties
<1>3. CASE EndOfText(token)
  <2>1. pc' = "finish" /\ finish_reason' = "Stop" /\ generated_ids' = generated_ids
    BY <1>3 DEF EndOfText, output
  <2>2. ~StopReached(generated_ids')
    BY <2>1 DEF StopsHeld
  <2> QED
    BY <1>1, <2>1, <2>2 DEF StopsHeld, Live
<1>4. CASE HitStop(token)
  <2>1. /\ pc' = "finish" /\ finish_reason' = "StopSequence" /\ StopReached(ids)
        /\ generated_ids' = SubSeq(ids, 1, TokenSequenceStopIndex(ids))
    BY <1>4 DEF HitStop
  <2> DEFINE kept == TokenSequenceStopIndex(ids)
  <2> HIDE DEF ids
  <2>2. kept \in 0 .. Len(ids)
    BY <1>2, <2>1, KeptTokens
  <2> HIDE DEF kept
  <2>3. generated_ids' = SubSeq(ids, 1, kept)
    BY <2>1 DEF kept
  <2>4. Len(generated_ids') = kept
    BY <1>2, <2>2, <2>3, BeginningOf
  <2>5. ASSUME Len(generated_ids') = MaxTokens PROVE StopReached(generated_ids')
    <3>1. kept = Len(ids)
      BY <1>1, <1>2, <2>2, <2>4, <2>5
    <3>2. generated_ids' = ids
      BY <1>2, <2>3, <3>1, SubSeqFull
    <3> QED
      BY <2>1, <3>2
  <2>6. StopsHeld'
    BY <2>1, <2>5 DEF StopsHeld, Live
  <2> QED
    BY <1>1, <1>2, <2>2, <2>4, <2>6
<1>5. CASE Push(token, next)
  <2>1. /\ generated_ids' = ids /\ ~StopReached(ids) /\ finish_reason' = finish_reason
    BY <1>5 DEF Push
  <2> HIDE DEF ids
  <2>2. ~StopReached(generated_ids')
    BY <2>1
  <2> QED
    BY <1>1, <1>2, <2>1, <2>2 DEF StopsHeld
<1> QED
  BY <1>3, <1>4, <1>5 DEF Emit

LEMMA Running == Live => Reason = "running"
BY DEF Live, Reason

(* The emission of the answer's next token is a step of the normal loop. *)
LEMMA EmissionRefines ==
  ASSUME Types, Live,
         NEW token \in Tokens, token = target[Len(generated_ids) + 1],
         NEW next \in {"round", "emit", "accept", "finish"},
         next = "finish" => Len(generated_ids) + 1 = MaxTokens,
         Emit(token, next), UNCHANGED <<target, streaming>>
  PROVE  Normal!Next
<1> DEFINE ids == Append(generated_ids, token)
<1>1. /\ generated_ids \in Seq(Tokens) /\ Len(generated_ids) < MaxTokens
      /\ Len(generated_ids) \in Nat /\ MaxTokens \in Nat
  BY MtpAssumption DEF Types
<1>2. ids \in Seq(Tokens) /\ Len(ids) = Len(generated_ids) + 1 /\ ids[Len(ids)] = token
  BY <1>1, AppendProperties
<1>3. Normal!Generating
  BY <1>1, Running DEF Normal!Generating
<1>4. Normal!Pushed = ids /\ Normal!Last(ids) = token
  BY <1>2, SameText DEF Normal!Pushed, Last
<1>5. CASE EndOfText(token)
  <2>1. Reason' = "Stop"
    BY <1>1, <1>5 DEF EndOfText, output, Reason
  <2> QED
    BY <1>3, <1>5, <2>1 DEF EndOfText, output, Normal!EndOfText, Normal!Next
<1>6. CASE HitStop(token)
  <2>1. Reason' = "StopSequence"
    BY <1>6 DEF HitStop, Reason
  <2> HIDE DEF ids
  <2>2. /\ token \notin EosTokens /\ StopReached(ids)
        /\ generated_ids' = SubSeq(ids, 1, TokenSequenceStopIndex(ids))
        /\ UNCHANGED <<target, streaming, streamed_text, sent>>
    BY <1>6 DEF HitStop, ids
  <2> QED
    BY <1>3, <1>4, <2>1, <2>2, SameText DEF Normal!HitStop, Normal!Next
<1>7. CASE Push(token, next)
  <2>1. /\ token \notin EosTokens /\ ~StopReached(ids) /\ generated_ids' = ids
        /\ streamed_text' = IF streaming THEN Decode(ids) ELSE streamed_text
        /\ sent' = IF streaming THEN sent \o Delta(streamed_text, Decode(ids)) ELSE sent
        /\ pc' = IF Len(ids) >= MaxTokens THEN "finish" ELSE next
        /\ finish_reason' = "Length"
    BY <1>7 DEF Push, Types
  <2>2. Reason' = "running"
    <3>1. CASE Len(ids) >= MaxTokens
      BY <1>1, <1>2, <2>1, <3>1 DEF Reason
    <3>2. CASE ~(Len(ids) >= MaxTokens)
      <4>1. pc' \in {"round", "emit", "accept"}
        BY <1>1, <1>2, <2>1, <3>2
      <4> QED
        BY <4>1 DEF Reason
    <3> QED
      BY <3>1, <3>2
  <2>3. Reason' = Reason
    BY <2>2, Running
  <2> HIDE DEF ids
  <2> QED
    BY <1>3, <1>4, <2>1, <2>3, SameText DEF Normal!Push, Normal!Next
<1> QED
  BY <1>5, <1>6, <1>7 DEF Emit

(* The tail of one token computes the answer's last token from states that  *)
(* have absorbed the rest of it.                                            *)
LEMMA TailOnTarget ==
  ASSUME IInv, OneTokenTail, NEW token \in Row(linear', kv')
  PROVE  token = target[Len(generated_ids) + 1] /\ token \in Tokens
<1>1. /\ pc = "round" /\ linear' = Append(linear, bonus)
      /\ kv' = kv \o Entries(<<bonus>>, next_position)
  BY DEF OneTokenTail
<1>2. /\ linear \in Seq(Tokens) /\ bonus \in Tokens /\ linear' = generated_ids
      /\ kv = Entries(linear, 0) /\ next_position = Len(linear)
      /\ IsPrefix(generated_ids, target) /\ Len(generated_ids) < MaxTokens
      /\ generated_ids \in Seq(Tokens)
  BY <1>1 DEF IInv, Types, OnTarget, StatesInStep, Live
<1>3. kv' = Entries(linear', 0)
  <2>1. <<bonus>> \in Seq(Tokens) /\ Append(linear, bonus) = linear \o <<bonus>>
    BY <1>2, SingletonSeq, AppendIsConcat
  <2> DEFINE v == <<bonus>>
  <2>2. v \in Seq(Tokens) /\ linear' = linear \o v /\ kv' = Entries(linear, 0) \o Entries(v, Len(linear))
    BY <1>1, <1>2, <2>1
  <2> HIDE DEF v
  <2> QED
    BY <1>2, <2>2, EntriesConcat
<1>4. Row(linear', kv') = {target[Len(generated_ids) + 1]}
  BY <1>2, <1>3 DEF Row
<1>5. target[Len(generated_ids) + 1] \in Tokens
  <2>1. Len(generated_ids) + 1 \in 1 .. Len(target) /\ target \in Seq(Tokens)
    BY <1>2, MtpAssumption DEF IInv, Types
  <2> QED
    BY <2>1, ElementOfSeq
<1> QED
  BY <1>4, <1>5

(* The verified tokens that wait to be emitted are the next of the answer. *)
LEMMA PendingOnTarget ==
  ASSUME IInv, pc = "emit"
  PROVE  Head(pending) = target[Len(generated_ids) + 1] /\ Head(pending) \in Tokens
<1> DEFINE all == Append(linear, target_bonus)
<1>1. /\ generated_ids \in Seq(Tokens) /\ pending \in Seq(Tokens) /\ pending # <<>>
      /\ generated_ids \o pending = all /\ IsPrefix(all, target) /\ target \in Seq(Tokens)
  BY DEF IInv, Types, OnTarget, Live
<1>2. all \in Seq(Tokens)
  BY AppendProperties DEF IInv, Types
<1> HIDE DEF all
<1>3. \A i \in 1 .. Len(all) : all[i] = target[i]
  BY <1>1, <1>2, PrefixRows
<1>4. /\ Head(pending) = pending[1] /\ Head(pending) \in Tokens
      /\ Len(pending) \in Nat \ {0} /\ Len(generated_ids) \in Nat
  BY <1>1, HeadMoves, EmptySeq
<1>5. /\ Len(all) = Len(generated_ids) + Len(pending)
      /\ \A i \in 1 .. Len(generated_ids) + Len(pending) :
           (generated_ids \o pending)[i] =
             IF i <= Len(generated_ids) THEN generated_ids[i]
             ELSE pending[i - Len(generated_ids)]
  BY <1>1, ConcatProperties
<1>6. all[Len(generated_ids) + 1] = pending[1]
  <2>1. /\ Len(generated_ids) + 1 \in 1 .. Len(generated_ids) + Len(pending)
        /\ ~(Len(generated_ids) + 1 <= Len(generated_ids))
        /\ (Len(generated_ids) + 1) - Len(generated_ids) = 1
    BY <1>4
  <2> QED
    BY <1>1, <1>5, <2>1
<1>7. Len(generated_ids) + 1 \in 1 .. Len(all)
  BY <1>4, <1>5
<1> QED
  BY <1>3, <1>4, <1>6, <1>7

(* Every step keeps which answers hold a stop. *)
LEMMA EmittedHolds ==
  ASSUME IInv, StopsHeld, EmitFirst \/ OneTokenTail \/ EmitNext
  PROVE  StopsHeld' /\ Len(generated_ids') <= MaxTokens
<1>1. Types /\ (pc \in {"first", "round", "emit"} => Live)
  BY DEF IInv, Live
<1>2. CASE EmitFirst
  <2>1. pc = "first" /\ Emit(bonus, "round") /\ bonus \in Tokens
    BY <1>1, <1>2 DEF EmitFirst, Types
  <2> QED
    BY <1>1, <2>1, EmissionHolds
<1>3. CASE OneTokenTail
  <2>1. PICK token \in Row(linear', kv') : Emit(token, "finish")
    BY <1>3 DEF OneTokenTail
  <2>2. token \in Tokens /\ pc = "round"
    BY <1>3, TailOnTarget DEF OneTokenTail
  <2> QED
    BY <1>1, <2>1, <2>2, EmissionHolds
<1>4. CASE EmitNext
  <2> DEFINE next == IF Len(pending) > 1 THEN "emit" ELSE "accept"
  <2>1. pc = "emit" /\ Emit(Head(pending), next)
    BY <1>4 DEF EmitNext
  <2>2. Head(pending) \in Tokens
    BY <2>1, PendingOnTarget
  <2>3. next \in {"round", "emit", "accept", "finish"}
    OBVIOUS
  <2> HIDE DEF next
  <2> QED
    BY <1>1, <2>1, <2>2, <2>3, EmissionHolds
<1> QED
  BY <1>2, <1>3, <1>4

THEOREM StopsStayHeld == Spec => []StopsHeld
<1>1. Init => StopsHeld
  BY NothingStops DEF Init, StopsHeld
<1>2. ASSUME IInv, StopsHeld, Next PROVE StopsHeld'
  <2>1. CASE EmitFirst \/ OneTokenTail \/ EmitNext
    BY <1>2, <2>1, EmittedHolds
  <2>2. CASE Draft \/ Verify \/ CommitAll \/ CommitPrefix \/ Replay \/ Accept
    <3>1. generated_ids' = generated_ids /\ Live /\ pc' # "finish"
      BY <2>2 DEF Draft, Verify, CommitAll, CommitPrefix, Replay, Commit, Accept, output, Live
    <3> QED
      BY <1>2, <3>1 DEF StopsHeld
  <2>3. CASE Finish \/ Fail
    <3>1. pc' \in {"done", "failed"}
      BY <2>3 DEF Finish, Fail
    <3> QED
      BY <3>1 DEF StopsHeld, Live
  <2>4. CASE Ended
    <3>1. UNCHANGED <<generated_ids, finish_reason, pc>>
      BY <2>4 DEF Ended, vars, output
    <3> QED
      BY <1>2, <3>1 DEF StopsHeld, Live
  <2> QED
    BY <1>2, <2>1, <2>2, <2>3, <2>4 DEF Next
<1>3. UNCHANGED vars /\ StopsHeld => StopsHeld'
  BY DEF StopsHeld, Live, vars, output
<1> QED
  BY <1>1, <1>2, <1>3, Inductive, PTL DEF Spec

(* Tokens, streamed text and finish reason of a speculative request are     *)
(* those of the normal loop on the same answer, at every depth of drafting  *)
(* and whichever way its rounds are committed.                              *)
THEOREM SpeculationIsInvisible == Spec => DecodesGreedily
<1>1. Init => Normal!Init
  BY DEF Init, Reason, Normal!Init, Normal!Targets
<1>2. ASSUME IInv, StopsHeld, Next PROVE Normal!Next \/ UNCHANGED Normal!vars
  <2>0. Types
    BY <1>2 DEF IInv
  <2>1. CASE EmitFirst
    <3>1. /\ pc = "first" /\ Emit(bonus, "round") /\ bonus \in Tokens /\ Live
          /\ generated_ids = <<>> /\ bonus = target[1] /\ UNCHANGED <<target, streaming>>
      BY <1>2, <2>1 DEF EmitFirst, IInv, Types, OnTarget, Live, request
    <3>2. bonus = target[Len(generated_ids) + 1]
      BY <3>1, EmptySeq
    <3> QED
      BY <2>0, <3>1, <3>2, EmissionRefines
  <2>2. CASE OneTokenTail
    <3>1. PICK token \in Row(linear', kv') : Emit(token, "finish")
      BY <2>2 DEF OneTokenTail
    <3>2. token = target[Len(generated_ids) + 1] /\ token \in Tokens
      BY <1>2, <2>2, TailOnTarget
    <3>3. Live /\ Len(generated_ids) + 1 = MaxTokens /\ UNCHANGED <<target, streaming>>
      <4>1. pc = "round" /\ Remaining = 1 /\ UNCHANGED <<target, streaming>>
        BY <2>2 DEF OneTokenTail, request
      <4>2. Live /\ Len(generated_ids) \in Nat /\ MaxTokens \in Nat
        BY <2>0, <4>1, MtpAssumption DEF Types, Live
      <4> QED
        BY <4>1, <4>2 DEF Remaining
    <3> QED
      BY <2>0, <3>1, <3>2, <3>3, EmissionRefines
  <2>3. CASE EmitNext
    <3>1. /\ pc = "emit" /\ Emit(Head(pending), IF Len(pending) > 1 THEN "emit" ELSE "accept")
          /\ UNCHANGED <<target, streaming>>
      BY <2>3 DEF EmitNext, request
    <3>2. Head(pending) = target[Len(generated_ids) + 1] /\ Head(pending) \in Tokens /\ Live
      BY <1>2, <3>1, PendingOnTarget DEF Live
    <3> QED
      BY <2>0, <3>1, <3>2, EmissionRefines
  <2>4. CASE Draft \/ Verify \/ CommitAll \/ CommitPrefix \/ Replay \/ Accept
    <3>1. /\ UNCHANGED <<target, streaming, generated_ids, streamed_text, sent>>
          /\ Live /\ Live'
      BY <2>4 DEF Draft, Verify, CommitAll, CommitPrefix, Replay, Commit, Accept,
                  output, request, Live
    <3> QED
      BY <3>1, Running DEF Normal!vars, Live, Reason
  <2>5. CASE Finish
    <3>1. /\ pc = "finish" /\ pc' = "done"
          /\ UNCHANGED <<target, streaming, generated_ids, streamed_text, sent>>
          /\ finish_reason' = IF Len(generated_ids) = MaxTokens THEN "Length" ELSE finish_reason
      BY <2>5 DEF Finish, output, request
    <3>2. CASE Len(generated_ids) = MaxTokens
      <4>1. CASE finish_reason = "StopSequence"
        <5>1. Reason = "StopSequence" /\ Reason' = "StopSequence"
          BY <1>2, <3>1, <3>2, <4>1 DEF Reason, HoldsStop, StopsHeld, StopReached
        <5> QED
          BY <3>1, <5>1 DEF Normal!vars
      <4>2. CASE finish_reason # "StopSequence"
        <5>1. Reason = "running" /\ Reason' = "Length"
          BY <1>2, <3>1, <3>2, <4>2 DEF Reason, HoldsStop, StopsHeld, StopReached
        <5> QED
          BY <3>1, <3>2, <5>1 DEF Normal!Complete, Normal!Next
      <4> QED
        BY <4>1, <4>2
    <3>3. CASE Len(generated_ids) # MaxTokens
      <4>1. Reason' = Reason
        BY <1>2, <3>1, <3>3 DEF Reason, HoldsStop, StopsHeld, StopReached
      <4> QED
        BY <3>1, <4>1 DEF Normal!vars
    <3> QED
      BY <3>2, <3>3
  <2>6. CASE Fail
    <3>1. /\ Live /\ Reason' = "failed"
          /\ UNCHANGED <<target, streaming, generated_ids, streamed_text, sent>>
      BY <2>0, <2>6 DEF Fail, Types, Live, Reason, output, request
    <3> QED
      BY <3>1, Running DEF Normal!Fail, Normal!Next
  <2>7. CASE Ended
    BY <2>7 DEF Ended, vars, request, output, Normal!vars, Reason, HoldsStop
  <2> QED
    BY <1>2, <2>1, <2>2, <2>3, <2>4, <2>5, <2>6, <2>7 DEF Next
<1>3. IInv /\ StopsHeld /\ [Next]_vars => [Normal!Next]_(Normal!vars)
  <2>1. UNCHANGED vars => UNCHANGED Normal!vars
    BY DEF vars, request, output, Normal!vars, Reason, HoldsStop
  <2> QED
    BY <1>2, <2>1
<1> QED
  BY <1>1, <1>3, Inductive, StopsStayHeld, PTL DEF Spec, DecodesGreedily, Normal!Spec

-----------------------------------------------------------------------------
(* The bounds of an answer and of what the adapter reads ahead.             *)

(* What the invariant says of a running request only. *)
Bounded == Len(generated_ids) <= MaxTokens /\ adapter.round_appended <= MaxDraft

(* No step makes the answer too long. *)
LEMMA AnswerBounded ==
  ASSUME IInv, StopsHeld, Bounded, [Next]_vars
  PROVE  Len(generated_ids') <= MaxTokens
<1>1. CASE EmitFirst \/ OneTokenTail \/ EmitNext
  BY <1>1, EmittedHolds
<1>2. CASE \/ Draft \/ Verify \/ CommitAll \/ CommitPrefix \/ Replay
           \/ Accept \/ Finish \/ Fail \/ Ended \/ UNCHANGED vars
  <2>1. generated_ids' = generated_ids
    BY <1>2 DEF Draft, Verify, CommitAll, CommitPrefix, Replay, Commit, Accept, Finish, Fail, Ended, output, vars
  <2> QED
    BY <2>1 DEF Bounded
<1> QED
  BY <1>1, <1>2 DEF Next

(* The adapter reads ahead what was drafted but its last token, and starts  *)
(* the next round at zero.                                                  *)
LEMMA AdapterBounded ==
  ASSUME IInv, IInv', Bounded, [Next]_vars
  PROVE  adapter'.round_appended <= MaxDraft
<1>1. MaxDraft \in Nat /\ (adapter.round_appended <= MaxDraft)
  BY MtpAssumption DEF Bounded
<1>2. CASE Draft
  <2>1. pc' = "verify"
    BY <1>2 DEF Draft
  <2>2. adapter'.round_appended = Len(drafts') - 1 /\ Len(drafts') <= mtp_max_draft_tokens'
    BY <2>1 DEF IInv, AdapterFollows
  <2>3. mtp_max_draft_tokens' \in 1 .. MaxDraft /\ Len(drafts') \in Nat
    BY DEF IInv, Types
  <2> QED
    BY <1>1, <2>2, <2>3
<1>3. CASE Verify
  <2>1. adapter' = adapter \/ adapter'.round_appended = 0
    BY <1>3 DEF Verify, AdapterVerify
  <2> QED
    BY <1>1, <2>1
<1>4. CASE Accept
  <2>1. adapter' = adapter \/ adapter'.round_appended = 0
    BY <1>4 DEF Accept, AcceptVerified
  <2> QED
    BY <1>1, <2>1
<1>5. CASE \/ EmitFirst \/ OneTokenTail \/ CommitAll \/ CommitPrefix \/ Replay
           \/ EmitNext \/ Finish \/ Fail \/ Ended \/ UNCHANGED vars
  <2>1. adapter' = adapter
    BY <1>5 DEF EmitFirst, OneTokenTail, CommitAll, CommitPrefix, Replay, Commit, EmitNext, Finish, Fail, Ended, vars
  <2> QED
    BY <1>1, <2>1
<1> QED
  BY <1>2, <1>3, <1>4, <1>5 DEF Next

(* TypeOK: no answer is longer than the request's limit, also one that is   *)
(* cut at a stop; no round accepts or reads ahead more than the drafts it   *)
(* may have; and a transaction is open exactly while a block is verified    *)
(* and committed.                                                           *)
THEOREM RoundsAreTyped == Spec => []TypeOK
<1>1. Init => Bounded
  <2> SUFFICES ASSUME Init PROVE Bounded
    OBVIOUS
  <2>1. Len(generated_ids) = 0 /\ adapter.round_appended = 0
    BY EmptySeq DEF Init
  <2> QED
    BY <2>1, MtpAssumption DEF Bounded
<1>2. IInv /\ IInv' /\ StopsHeld /\ Bounded /\ [Next]_vars => Bounded'
  <2> SUFFICES ASSUME IInv, IInv', StopsHeld, Bounded, [Next]_vars PROVE Bounded'
    OBVIOUS
  <2> QED
    BY AnswerBounded, AdapterBounded DEF Bounded
<1>3. IInv /\ Bounded => TypeOK
  <2> SUFFICES ASSUME IInv, Bounded PROVE TypeOK
    OBVIOUS
  <2>1. accepted \in 0 .. MaxDraft
    BY MtpAssumption DEF IInv, Types, AdapterFollows
  <2>2. active = (pc \in {"verify", "commit"})
    BY DEF IInv, Types
  <2> QED
    BY <2>1, <2>2 DEF IInv, Types, Bounded, TypeOK
<1> QED
  BY <1>1, <1>2, <1>3, Inductive, StopsStayHeld, PTL DEF Spec

=============================================================================
