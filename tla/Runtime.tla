------------------------------ MODULE Runtime ------------------------------
(***************************************************************************)
(* The model state of the requests that run at the same time and the       *)
(* operations on it: a new or forked state, passes over it, the            *)
(* speculative transaction around a verification and the adapter's part of *)
(* it.  A lane is a thread that runs one request.  Each call of a pass     *)
(* that uses a shared activation pool holds the pool's lock from before    *)
(* its operands are copied in until its results are copied out.            *)
(*                                                                         *)
(* history and fed are what a lane's caches and recurrent states should    *)
(* stand for; the program has no such variables.                           *)
(* Source: src/src/native.rs, src/src/metal_runtime.rs.                    *)
(*                                                                         *)
(* A definition named D_Error is D with that error in it: no part of the   *)
(* specification, but what its properties are tried against.               *)
(***************************************************************************)
EXTENDS Passes, FiniteSets

CONSTANTS
  Lanes,            \* threads that run requests
  Environments,     \* settings of the program's switches (see Passes); and what bounds a behaviour
                    \* under them: requests at a time, prompts (and what may follow a cached
                    \* one), and passes: prompts, tokens and speculative rounds
  Tokens            \* tokens that are sampled or drafted

(* The smallest cache is a power of two; chunks and rows are not empty. *)
ASSUME RuntimeAssumption ==
  /\ MinCapacity \in Nat \ {0} /\ NextPowerOfTwo(MinCapacity) = MinCapacity
  /\ ChunkTokens \in Nat \ {0} /\ Width["token"] \in Nat \ {0}
  /\ LayerKind \in Seq({"linear", "full"}) /\ LayerKind /= <<>>
  /\ "none" \notin Lanes
  /\ \A e \in Environments : /\ e.decode \in {"graph", "groups", "host"}
                             /\ \A s \in e.prompts : s \in Seq(Range(s))

VARIABLES
  env,              \* the switches, fixed while the program runs
  lane,             \* [lane -> its request's state]
  shared,           \* the memory of the activation pools
  holder,           \* [pool -> the lane that holds its lock, or NoLane]
  passes            \* prompts, tokens and rounds so far

vars == <<env, lane, shared, holder, passes>>

NoLane == "none"
Caches == FullLayers \cup {Adapter}
Parts  == {"conv", "recurrent"}

---------------------------------------------------------------------------
(* What a lane owns: RuntimeState, MtpRequestState and the vectors it works on. *)
StateBuffers == {StateOf(l, which, part) : l \in LinearLayers, which \in {"active", "shadow", "snapshot"}, part \in Parts}
LaneBuffers  == {Host(name) : name \in Hosts} \cup {Kv(l) : l \in Caches} \cup StateBuffers
                \cup {Buffer(owner, name) : owner \in {"decode", "verify", "adapter"}, name \in DecodeBuffers}

ZeroState(l, part) == RowOf(Val(part, l, <<>>), Width["state"])

(* RuntimeState::new with MtpAdapter::new_request_state. *)
NewMemory ==
  LET scratch == Over(CreateDecodeState("decode", 1), CreateDecodeState("adapter", 1))
      caches  == [b \in {Kv(l) : l \in Caches} |-> Unset(MinCapacity)]
      states  == [b \in {StateOf(l, "active", part) : l \in LinearLayers, part \in Parts} |-> ZeroState(b[2], b[3])]
      made    == Over(scratch, Over(caches, states))
  IN  [b \in LaneBuffers |-> IF b \in DOMAIN made THEN made[b] ELSE <<>>]

Pass(kind, base, tokens, accepted) == [kind |-> kind, base |-> base, tokens |-> tokens, accepted |-> accepted]
NoPass == Pass("none", <<>>, <<>>, 0)

NewLane(mem, length, history, pass) ==
  [phase |-> "running", pass |-> pass, at |-> 1, submitted |-> FALSE,
   mem |-> mem, length |-> length,
   history |-> history, prompt |-> 0, fed |-> <<>>, next_position |-> 0, round_appended |-> 0,
   active |-> FALSE, full_lengths |-> [l \in FullLayers |-> 0], kept |-> 0, batch |-> 0]

FreeLane == [NewLane(<<>>, [l \in Caches |-> 0], <<>>, NoPass) EXCEPT !.phase = "free"]

(* RuntimeState::fork: states copied, of each cache what is active, scratch *)
(* made new; nothing of a speculation.                                      *)
ForkedMemory(p) ==
  LET copied == [b \in {StateOf(l, "active", part) : l \in LinearLayers, part \in Parts} |-> lane[p].mem[b]]
      caches == [b \in {Kv(l) : l \in FullLayers} |->
                   [t \in DOMAIN lane[p].mem[b] |->
                      IF t <= lane[p].length[b[2]] THEN lane[p].mem[b][t] ELSE <<Junk, 1>>]]
  IN  Over(copied, Over(caches, NewMemory))

---------------------------------------------------------------------------
Fused == env.fused_seed /\ env.drafts = 1 /\ env.verify = "graph"

TokenContext(n, r) == n.pass.base \o SubSeq(n.pass.tokens, 1, r)

(* The tokens the target returned for the rows of a verification. *)
Returned(n, r) == Choice(Row(n.mem, At(Host("token"), "token"), r)[3])

AcceptedCount(n) ==
  LET drafts == Len(n.pass.tokens) - 1
  IN  IF Fused
      THEN Row(n.mem, At(Host("token"), "token"), 1)[2]
      ELSE CHOOSE a \in 0..drafts : /\ \A r \in 1..a : Returned(n, r) = n.pass.tokens[r + 1]
                                    /\ a = drafts \/ Returned(n, a + 1) /= n.pass.tokens[a + 2]

(* decode_batch_layers_with_mtp_seed fails when it finds another count there. *)
Accepts(accepted) == Fused => accepted \in {0, 1}

(* The pairs the adapter reads after a verification: accepted drafts it has *)
(* not read yet, and the target's next token.                               *)
KeepAppended(n, accepted) == IF accepted <= n.round_appended THEN accepted ELSE n.round_appended

NewPairs(n, accepted) ==
  LET keep == KeepAppended(n, accepted)
      row(i) == keep + i
  IN  [i \in 1..(accepted + 1 - keep) |->
         Fed(TokenContext(n, row(i)),
             IF row(i) <= accepted THEN n.pass.tokens[row(i) + 1] ELSE Choice(TokenContext(n, row(i))))]

AcceptCalls(n) ==
  LET first == Len(n.fed) - (n.pass.accepted + 1 - KeepAppended(n, n.pass.accepted))
      row(i) == KeepAppended(n, n.pass.accepted) + i - 1
  IN  Joined([i \in 1..(Len(n.fed) - first) |->
        forward_input(env, From(Host("verify_hidden"), "hidden", row(i)), SubSeq(n.fed, 1, first + i),
                      n.length, n.next_position, i = Len(n.fed) - first)])

Calls(n) ==
  LET k == n.pass
      rows == Len(k.tokens)
      kept == IF n.kept > 0 THEN rows - 1 ELSE 0
  IN  CASE k.kind = "prompt"  -> (IF rows = 0 THEN <<>> ELSE prefill_internal(env, k.base, k.tokens, FALSE, n.length))
                                 \o logits(IF rows = 0 THEN 1 ELSE rows)
        [] k.kind = "token"   -> forward_token(env, k.base, k.tokens[1], n.length) \o logits(1)
        [] k.kind = "replay"  -> Joined([i \in 1..(k.accepted + 1) |->
                                   forward_token(env, TokenContext(n, i - 1), k.tokens[i], n.length)])
        [] k.kind = "adapter" -> prefill_prompt(env, n.fed, n.length)
        [] k.kind = "draft"   -> forward_input(env, At(Host("seed_hidden"), "hidden"), n.fed, n.length, n.next_position, TRUE)
        [] k.kind = "verify"  -> IF env.verify = "prefill" THEN prefill_verify(env, k.base, k.tokens, n.length)
                                 ELSE IF Fused
                                      THEN prefill_verify_mtp_seed_gpu(env, k.base, k.tokens, kept, n.batch, n.length,
                                                                       n.fed, n.next_position)
                                      ELSE prefill_verify_gpu(k.base, k.tokens, kept, n.batch, n.length)
        [] k.kind = "accept"  -> AcceptCalls(n)

---------------------------------------------------------------------------
Init ==
  /\ env \in Environments
  /\ lane = [p \in Lanes |-> FreeLane]
  /\ shared = [b \in PoolBuffers |-> <<>>]
  /\ holder = [pool \in Pools |-> NoLane]
  /\ passes = 0

Counted == passes < env.passes /\ passes' = passes + 1

MayStart(p) == lane[p].phase = "free" /\ Cardinality({q \in Lanes : lane[q].phase /= "free"}) < env.requests

Runs(n, pass) == [n EXCEPT !.phase = "running", !.pass = pass, !.at = 1]
Ready(p, kinds) == lane[p].phase = "ready" /\ lane[p].pass.kind \in kinds

(* generate_native: a request with a state of its own. *)
Start(p, prompt) ==
  /\ MayStart(p) /\ Counted
  /\ lane' = [lane EXCEPT ![p] = NewLane(NewMemory, [l \in Caches |-> 0], prompt, Pass("prompt", <<>>, prompt, 0))]
  /\ UNCHANGED <<env, shared, holder>>

(* store_prefix and lookup_prefix: a request that goes on from what another *)
(* left after its prompt, of which a full hit has the last activation too.  *)
StartFromPrefix(p, q, suffix) ==
  LET n    == lane[q]
      rows == Larger(Len(n.pass.tokens), 1)
      last == SubSeq(n.mem[Host("hidden")], (rows - 1) * Width["hidden"] + 1, rows * Width["hidden"])
  IN  /\ env.drafts = 0 /\ Ready(q, {"prompt"})
      /\ MayStart(p) /\ Counted
      /\ lane' = [lane EXCEPT ![p] =
           NewLane([ForkedMemory(q) EXCEPT ![Host("hidden")] = last], n.length, n.history \o suffix,
                   Pass("prompt", n.history, suffix, 0))]
      /\ UNCHANGED <<env, shared, holder>>

(* The next token of a request that does not speculate; sampling may choose any. *)
NextToken(p, token) ==
  /\ env.drafts = 0 /\ Ready(p, {"prompt", "token"}) /\ Counted
  /\ lane' = [lane EXCEPT ![p] =
       [Runs(lane[p], Pass("token", lane[p].history, <<token>>, 0)) EXCEPT !.history = Append(@, token)]]
  /\ UNCHANGED <<env, shared, holder>>

(* prefill_prompt: every token of the prompt but the first, then the first  *)
(* the target chose, each with the activation before it.                    *)
PromptPairs(history) ==
  [i \in DOMAIN history |-> Fed(SubSeq(history, 1, i),
                                IF i < Len(history) THEN history[i + 1] ELSE Choice(history))]

AdapterPrompt(p) ==
  /\ env.drafts > 0 /\ Ready(p, {"prompt"})
  /\ lane' = [lane EXCEPT ![p] =
       [Runs(lane[p], Pass("adapter", lane[p].history, <<>>, 0))
          EXCEPT !.fed = PromptPairs(lane[p].history), !.prompt = Len(lane[p].history)]]
  /\ UNCHANGED <<env, shared, holder, passes>>

(* draft_block: the first draft is the seed; a second one takes a step of   *)
(* the adapter on its own output.                                           *)
Draft(p, seed) ==
  /\ env.drafts = 2 /\ Ready(p, {"adapter", "accept"})
  /\ lane' = [lane EXCEPT ![p] =
       [Runs(lane[p], Pass("draft", lane[p].history, <<seed>>, 0))
          EXCEPT !.fed = Append(@, Fed(<<>>, seed)), !.round_appended = 1]]
  /\ UNCHANGED <<env, shared, holder, passes>>

(* begin_speculation and prepare_speculation_snapshots: shadows at the first *)
(* time, snapshots when they hold too few rows, the caches' lengths noted.   *)
BeginSpeculation(n, rows) ==
  LET take   == env.verify = "graph" /\ env.snapshots /\ n.kept < rows - 1
      shadow == [b \in {StateOf(l, "shadow", part) : l \in LinearLayers, part \in Parts} |->
                   IF n.mem[b] = <<>> THEN ZeroState(b[2], b[3]) ELSE n.mem[b]]
      images == [b \in {StateOf(l, "snapshot", part) : l \in LinearLayers, part \in Parts} |->
                   IF take THEN Unset((rows - 1) * Width["state"]) ELSE n.mem[b]]
  IN  [n EXCEPT !.mem = Over(shadow, Over(images, @)), !.active = TRUE,
                !.full_lengths = [l \in FullLayers |-> n.length[l]],
                !.kept = IF take THEN rows - 1 ELSE @]

Verify(p, drafts) ==
  LET n      == lane[p]
      seeded == n.pass.kind /= "draft"
      tokens == <<Choice(n.history)>> \o (IF seeded THEN drafts ELSE n.pass.tokens \o drafts)
  IN  /\ env.drafts > 0 /\ Ready(p, {"adapter", "accept", "draft"}) /\ Counted
      /\ lane' = [lane EXCEPT ![p] =
           [Runs(BeginSpeculation(n, Len(tokens)), Pass("verify", n.history, tokens, 0))
              EXCEPT !.round_appended = IF seeded THEN 0 ELSE @]]
      /\ UNCHANGED <<env, shared, holder>>

---------------------------------------------------------------------------
(* The end of a round: commit_speculation swaps the states of every row in,  *)
(* commit_speculation_prefix the snapshot after the accepted ones, and       *)
(* rollback_speculation leaves the accepted tokens to be run again.          *)
Swapped(mem, which) ==
  Over([b \in {StateOf(l, w, part) : l \in LinearLayers, w \in {"active", which}, part \in Parts} |->
          mem[StateOf(b[2], IF b[1] = "active" THEN which ELSE "active", b[3])]], mem)

SnapshotRow(cells, row) == SubSeq(cells, row * Width["state"] + 1, (row + 1) * Width["state"])

Restored(n, row) ==       \* restore_deltanet_snapshot
  IF n.kept = 1 /\ row = 0 THEN Swapped(n.mem, "snapshot")
  ELSE Over([b \in {StateOf(l, "active", part) : l \in LinearLayers, part \in Parts} |->
               SnapshotRow(n.mem[StateOf(b[2], "snapshot", b[3])], row)], n.mem)

Truncated_Error(n, rows) == n.length          \* rejected drafts stay in the caches

Truncated(n, rows) == [l \in Caches |-> IF l \in FullLayers THEN n.full_lengths[l] + rows ELSE n.length[l]]

CommitSpeculation(n) == [n EXCEPT !.mem = Swapped(@, "shadow"), !.active = FALSE]

CommitPrefix(n, rows) ==
  [n EXCEPT !.mem = Restored(n, rows - 1), !.length = Truncated(n, rows), !.active = FALSE]

RollBack(n) == [n EXCEPT !.length = Truncated(n, 0), !.active = FALSE]

(* accept_verified: drafts the adapter read that were not accepted are cut   *)
(* from its cache, then it reads what it has not.                            *)
AcceptVerified(n, accepted) ==
  LET trim == n.round_appended - KeepAppended(n, accepted)
      kept == SubSeq(n.fed, 1, Len(n.fed) - trim)
  IN  [Runs(n, Pass("accept", n.pass.base, n.pass.tokens, accepted))
         EXCEPT !.length[Adapter] = @ - trim, !.next_position = @ - trim,
                !.fed = kept \o NewPairs(n, accepted)]

(* With the fused seed the adapter has read the last of those pairs already; *)
(* an accepted draft before it is left out.                                   *)
AfterRound(n, accepted) ==
  IF Fused
  THEN [n EXCEPT !.phase = "ready", !.pass = Pass("accept", n.pass.base, n.pass.tokens, accepted),
                 !.fed = Append(@, Last(NewPairs(n, accepted)))]
  ELSE AcceptVerified(n, accepted)

Settle(p) ==
  LET n        == lane[p]
      accepted == AcceptedCount(n)
      after    == [n EXCEPT !.history = TokenContext(n, accepted + 1)]
  IN  /\ Ready(p, {"verify"}) /\ Accepts(accepted)
      /\ lane' = [lane EXCEPT ![p] =
           IF accepted = Len(n.pass.tokens) - 1 THEN AfterRound(CommitSpeculation(after), accepted)
           ELSE IF env.verify = "graph" /\ n.kept > 0
                THEN AfterRound(CommitPrefix(after, accepted + 1), accepted)
                ELSE Runs(RollBack(after), [n.pass EXCEPT !.kind = "replay", !.accepted = accepted])]
      /\ UNCHANGED <<env, shared, holder, passes>>

Replayed(p) ==
  /\ Ready(p, {"replay"})
  /\ lane' = [lane EXCEPT ![p] = AfterRound(lane[p], lane[p].pass.accepted)]
  /\ UNCHANGED <<env, shared, holder, passes>>

---------------------------------------------------------------------------
(* The call a lane is at.  While it runs the lane's memory and the pools'    *)
(* are one; it ends by setting the lengths of the caches it appended to.     *)
RunOn(p, kernels) == RunAll(Over(lane[p].mem, shared), kernels)

Part(buffers, m) == [b \in buffers |-> m[b]]

Completed(n, call, last) ==
  LET new(l) == IF l \in DOMAIN call.appends THEN call.appends[l] ELSE 0
  IN  [n EXCEPT !.length = [l \in Caches |-> @[l] + new(l)], !.next_position = @ + new(Adapter),
                !.submitted = FALSE, !.at = IF last THEN 1 ELSE @ + 1, !.phase = IF last THEN "ready" ELSE @,
                !.batch = IF n.pass.kind = "verify" /\ env.verify = "graph" THEN Len(n.pass.tokens) ELSE @]

(* A graph that uses nothing but the request's own buffers. *)
RunGraph(p, call, last) ==
  /\ call.pool = "none"
  /\ \E m \in {RunOn(p, call.work \o call.back)} :
       lane' = [lane EXCEPT ![p] = [Completed(@, call, last) EXCEPT !.mem = Part(LaneBuffers, m)]]
  /\ UNCHANGED <<shared, holder>>

(* A call on a pool waits for its lock; nothing of it is read before the     *)
(* command buffer has completed.                                             *)
Submit_Error(p, call) ==                      \* the lock is not waited for
  /\ call.pool \in Pools /\ ~lane[p].submitted
  /\ \E m \in {RunOn(p, call.work)} :
       /\ lane' = [lane EXCEPT ![p].mem = Part(LaneBuffers, m), ![p].submitted = TRUE]
       /\ shared' = Part(PoolBuffers, m)
  /\ UNCHANGED holder

Submit(p, call) ==
  /\ call.pool \in Pools /\ ~lane[p].submitted
  /\ holder[call.pool] = NoLane
  /\ holder' = [holder EXCEPT ![call.pool] = p]
  /\ \E m \in {RunOn(p, call.work)} :
       /\ lane' = [lane EXCEPT ![p].mem = Part(LaneBuffers, m), ![p].submitted = TRUE]
       /\ shared' = Part(PoolBuffers, m)

Complete(p, call, last) ==
  /\ lane[p].submitted
  /\ holder' = [holder EXCEPT ![call.pool] = NoLane]
  /\ \E m \in {RunOn(p, call.back)} :
       lane' = [lane EXCEPT ![p] = [Completed(@, call, last) EXCEPT !.mem = Part(LaneBuffers, m)]]
  /\ UNCHANGED shared

Work(p) ==
  /\ lane[p].phase = "running"
  /\ \E calls \in {Calls(lane[p])} :
       \E call \in {calls[lane[p].at]}, last \in {lane[p].at = Len(calls)} :
         RunGraph(p, call, last) \/ Submit(p, call) \/ Complete(p, call, last)
  /\ UNCHANGED <<env, passes>>

(* A command buffer fails, or the request is over: its state is dropped and  *)
(* the guard of the pool with it.                                            *)
Leave(p) ==
  /\ lane[p].phase = "ready" \/ lane[p].submitted
  /\ lane' = [lane EXCEPT ![p] = FreeLane]
  /\ holder' = [pool \in Pools |-> IF holder[pool] = p THEN NoLane ELSE holder[pool]]
  /\ UNCHANGED <<env, shared, passes>>

Idle == (\A p \in Lanes : lane[p].phase = "free") /\ UNCHANGED vars

Next ==
  \/ \E p \in Lanes, prompt \in env.prompts : Start(p, prompt)
  \/ \E p, q \in Lanes, suffix \in env.prompts \cup {<<>>} : StartFromPrefix(p, q, suffix)
  \/ \E p \in Lanes, token \in Tokens : NextToken(p, token)
  \/ \E p \in Lanes : AdapterPrompt(p)
  \/ \E p \in Lanes, seed \in Tokens : Draft(p, seed)
  \/ \E p \in Lanes, draft \in Tokens : Verify(p, <<draft>>)
  \/ \E p \in Lanes : Settle(p) \/ Replayed(p)
  \/ \E p \in Lanes : Work(p) \/ Leave(p)
  \/ Idle

Spec == Init /\ [][Next]_vars

---------------------------------------------------------------------------
(* Caches have room for what they hold, a power of two of tokens; a pool is *)
(* locked by the lane whose call runs on it, and by that alone.             *)
TypeOK ==
  \A p \in Lanes :
    LET n == lane[p]
    IN  /\ n.phase \in {"free", "running", "ready"}
        /\ n.submitted <=> \E pool \in Pools : holder[pool] = p
        /\ n.phase /= "free" =>
             \A l \in Caches : /\ n.length[l] <= Len(n.mem[Kv(l)])
                               /\ Len(n.mem[Kv(l)]) >= MinCapacity
                               /\ NextPowerOfTwo(Len(n.mem[Kv(l)])) = Len(n.mem[Kv(l)])

(* Between two passes every layer of a request stands for the same tokens:  *)
(* its recurrent states have read exactly those and its caches hold a key   *)
(* and value of each, whichever path ran them, was shared with another      *)
(* request's prefix, or was cut back after a rejected draft.  The adapter's *)
(* cache has its rows past the prompt, at its own positions.                *)
CacheHoldsSequence ==
  \A p \in Lanes :
    LET n == lane[p]
    IN  (n.phase = "ready" /\ ~n.active) =>
          /\ \A l \in FullLayers : n.length[l] = Len(n.history) /\ RightCache(n.mem, Kv(l), l, n.history)
          /\ \A l \in LinearLayers, part \in Parts : n.mem[StateOf(l, "active", part)] =
                                                     RowOf(Val(part, l, n.history), Width["state"])
          /\ n.length[Adapter] = Len(n.fed) /\ n.next_position = Len(n.fed)
          /\ env.adapter_gpu =>
               \A t \in (n.prompt + 1)..Len(n.fed) : CachedToken(n.mem, Kv(Adapter), t) = Val("kv", Adapter, SubSeq(n.fed, 1, t))

(* What a pass gives back is what the model computes: the likeliest token   *)
(* after the context, and after each row of a verification, with the        *)
(* activations; while other requests run on the same pools.                 *)
PassComputesModel ==
  \A p \in Lanes :
    LET n     == lane[p]
        top   == LastLayer + 1
        token(r) == Row(n.mem, At(Host("token"), "token"), r)
    IN  n.phase = "ready" =>
          /\ n.pass.kind \in {"prompt", "token"} => token(1) = Val("token", top, n.history)
          /\ (n.pass.kind = "verify" /\ ~Fused) =>
               \A r \in DOMAIN n.pass.tokens :
                 /\ token(r) = Val("token", top, TokenContext(n, r))
                 /\ Row(n.mem, At(Host("verify_hidden"), "hidden"), r) = Val("hidden", top, TokenContext(n, r))
          /\ (n.pass.kind = "verify" /\ Fused) =>
               LET first == Choice(TokenContext(n, 1)) = n.pass.tokens[2]
               IN  /\ token(1) = Val("accepted", IF first THEN 1 ELSE 0, TokenContext(n, 1))
                   /\ token(2) = Val("token", top, TokenContext(n, IF first THEN 2 ELSE 1))

(* While a verification is under way nothing of the committed state is      *)
(* touched: a rejection or a failed command finds it as it was.             *)
CommittedStateSafe ==
  \A p \in Lanes :
    LET n == lane[p]
    IN  n.active =>
          /\ \A l \in FullLayers : n.full_lengths[l] = Len(n.history) /\ RightCache(n.mem, Kv(l), l, n.history)
          /\ \A l \in LinearLayers, part \in Parts : n.mem[StateOf(l, "active", part)] =
                                                     RowOf(Val(part, l, n.history), Width["state"])
=============================================================================
