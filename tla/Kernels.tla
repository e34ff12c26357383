------------------------------ MODULE Kernels ------------------------------
(***************************************************************************)
(* What the Metal kernels do to memory.  A number is abstracted to what it *)
(* is the right value OF: <<kind, layer, ctx>> is the activation or state  *)
(* `kind' that the model has at transformer layer `layer' after reading    *)
(* the tokens ctx; anything else is Junk.  A kernel produces the right     *)
(* value exactly when every operand it reads is the right one: the         *)
(* arithmetic of a kernel is trusted, which buffer, row and earlier state  *)
(* it reads is not.                                                        *)
(*                                                                         *)
(* A buffer is a sequence of cells, a row of width w takes w cells, and    *)
(* reading it back gives its value only if all w cells belong to it: a     *)
(* buffer too small, a wrong row stride or a buffer overwritten too early  *)
(* shows up as Junk.  Source: src/src/metal_runtime.rs (Rust side) and     *)
(* src/shaders/qwen38.metal as the Rust side binds it.                     *)
(*                                                                         *)
(* A definition named D_Error is D with that error in it: no part of the   *)
(* specification, but what its properties are tried against.               *)
(***************************************************************************)
EXTENDS Integers, Sequences, SequencesExt

CONSTANTS
  MinCapacity,    \* tokens a key/value cache starts with: 16
  Width,          \* cells per row of each kind of activation
  Choice(_)       \* the token the model finds likeliest after a context

Val(kind, l, ctx) == <<kind, l, ctx>>
Junk              == Val("junk", 0, <<>>)

Unset(cells)     == [i \in 1..cells |-> <<Junk, 1>>]
RowOf(v, w)      == [i \in 1..w |-> <<v, i>>]
Joined(sequences) == FlattenSeq(sequences)
Filled(rows, w)  == Joined([r \in DOMAIN rows |-> RowOf(rows[r], w)])

(* One memory, and another where the first has nothing. *)
Over(f, g) == [b \in DOMAIN f \cup DOMAIN g |-> IF b \in DOMAIN f THEN f[b] ELSE g[b]]

(* Row `row' (from 0) of a buffer that is read in rows of w cells. *)
Read(cells, w, row) ==
  IF (row + 1) * w > Len(cells) \/ \E i \in 1..w : cells[row * w + i] /= <<cells[row * w + 1][1], i>>
  THEN Junk
  ELSE cells[row * w + 1][1]

(* Cells written past the end spoil the buffer. *)
Overwritten(cells, base, new) ==
  IF base + Len(new) > Len(cells) THEN Unset(Len(cells))
  ELSE SubSeq(cells, 1, base) \o new \o SubSeq(cells, base + Len(new) + 1, Len(cells))

Write(cells, w, row, values) == Overwritten(cells, row * w, Filled(values, w))

(* An operand: a buffer, the kind of its rows, and the row it starts at. *)
At(buffer, kind)        == [buffer |-> buffer, kind |-> kind, first |-> 0]
From(buffer, kind, row) == [buffer |-> buffer, kind |-> kind, first |-> row]

Row(mem, o, r)    == Read(mem[o.buffer], Width[o.kind], o.first + r - 1)
Put(mem, o, rows) == [mem EXCEPT ![o.buffer] = Write(@, Width[o.kind], o.first, rows)]

NextPowerOfTwo(n) ==
  LET power[i \in 0..n] == IF i = 0 THEN 1 ELSE 2 * power[i - 1]
      Powers == {power[i] : i \in 0..n}
  IN  CHOOSE c \in Powers : c >= n /\ \A d \in Powers : d >= n => c <= d

(* ensure_shared_buffer, ensure_private_buffer: a buffer only grows, to a   *)
(* power of two, and growing forgets what it held.                          *)
Ensure(mem, buffer, cells) ==
  IF Len(mem[buffer]) >= cells THEN mem ELSE [mem EXCEPT ![buffer] = Unset(NextPowerOfTwo(cells))]

---------------------------------------------------------------------------
(* The kernels that treat every row alike: what they read and write. *)
Stage == [
  input_norm    |-> [from |-> <<"hidden">>,            to |-> <<"normed">>],
  q_proj        |-> [from |-> <<"normed">>,            to |-> <<"query_and_gate">>],
  k_proj        |-> [from |-> <<"normed">>,            to |-> <<"raw_key">>],
  v_proj        |-> [from |-> <<"normed">>,            to |-> <<"value">>],
  prepare_query |-> [from |-> <<"query_and_gate">>,    to |-> <<"query", "query_gate">>],
  prepare_key   |-> [from |-> <<"raw_key">>,           to |-> <<"key">>],
  o_proj        |-> [from |-> <<"attended">>,          to |-> <<"mixed">>],
  o_proj_add    |-> [from |-> <<"attended", "hidden">>, to |-> <<"residual">>],
  qkv           |-> [from |-> <<"normed">>,            to |-> <<"channels">>],
  z             |-> [from |-> <<"normed">>,            to |-> <<"z">>],
  b             |-> [from |-> <<"normed">>,            to |-> <<"b">>],
  a             |-> [from |-> <<"normed">>,            to |-> <<"a">>],
  prepare       |-> [from |-> <<"convolved">>,         to |-> <<"prepared">>],
  gate_norm     |-> [from |-> <<"delta", "z">>,        to |-> <<"gated">>],
  out_proj      |-> [from |-> <<"gated">>,             to |-> <<"mixed">>],
  out_proj_add  |-> [from |-> <<"gated", "hidden">>,   to |-> <<"residual">>],
  add_mixed     |-> [from |-> <<"hidden", "mixed">>,   to |-> <<"residual">>],
  post_norm     |-> [from |-> <<"residual">>,          to |-> <<"post_normed">>],
  gate_proj     |-> [from |-> <<"post_normed">>,       to |-> <<"gate">>],
  up_proj       |-> [from |-> <<"post_normed">>,       to |-> <<"up">>],
  gate_up       |-> [from |-> <<"post_normed">>,       to |-> <<"gate_up">>],
  swiglu        |-> [from |-> <<"gate", "up">>,        to |-> <<"swiglu">>],
  swiglu_split  |-> [from |-> <<"gate_up">>,           to |-> <<"swiglu">>],
  down_proj     |-> [from |-> <<"swiglu">>,            to |-> <<"mlp">>],
  down_proj_add |-> [from |-> <<"swiglu", "residual">>, to |-> <<"hidden">>],
  add_mlp       |-> [from |-> <<"residual", "mlp">>,   to |-> <<"hidden">>],
  final_norm    |-> [from |-> <<"hidden">>,            to |-> <<"normalized">>],
  lm_head       |-> [from |-> <<"normalized">>,        to |-> <<"logits">>],
  argmax        |-> [from |-> <<"logits">>,            to |-> <<"token">>],
  fc            |-> [from |-> <<"fc_input">>,          to |-> <<"hidden">>]]

Positional == {"prepare_query", "prepare_key"}          \* kernels that rotate by the position
NextLayer  == {"add_mlp", "down_proj_add"}              \* their output is the next layer's input

(* What the adapter reads at one position: a target activation and the token after it. *)
Fed(ctx, token) == [after |-> ctx, token |-> token]

RowWise(stage, l, rows, from, to, position) ==
  [op |-> "stage", stage |-> stage, layer |-> l, rows |-> rows, from |-> from, to |-> to,
   position |-> position]

(* The context the operands of row r agree on, or the empty one. *)
Agreed(kinds, l, operands) ==
  LET ctx == operands[1][3]
  IN  IF \A j \in DOMAIN kinds : operands[j] = Val(kinds[j], l, ctx) THEN ctx ELSE <<>>

StageRow(mem, k, j, r) ==
  LET s   == Stage[k.stage]
      ctx == Agreed(s.from, k.layer, [i \in DOMAIN s.from |-> Row(mem, k.from[i], r)])
  IN  IF ctx = <<>> \/ (k.stage \in Positional /\ k.position + r /= Len(ctx))
      THEN Junk
      ELSE Val(s.to[j], k.layer + (IF k.stage \in NextLayer THEN 1 ELSE 0), ctx)

RunStage(mem, k) ==
  LET after[j \in 0..Len(k.to)] ==
        IF j = 0 THEN mem ELSE Put(after[j - 1], k.to[j], [r \in 1..k.rows |-> StageRow(mem, k, j, r)])
  IN  after[Len(k.to)]

---------------------------------------------------------------------------
(* Recurrent state: right for the tokens before this one, then for this one. *)
StateOf(l, which, part) == <<which, l, part>>
StateAt(buffer, row)    == From(buffer, "state", row)

Advanced(kind, l, before, ctx) ==
  IF ctx /= <<>> /\ before = Val(kind, l, Front(ctx)) THEN Val(kind, l, ctx) ELSE Junk

(* deltanet_conv and deltanet_recurrence update the state they read. *)
Conv(l, state, from, to) == [op |-> "conv", layer |-> l, state |-> state, from |-> from, to |-> to]

RunConv(mem, k) ==
  LET ctx  == Agreed(<<"channels">>, k.layer, <<Row(mem, k.from, 1)>>)
      next == Advanced("conv", k.layer, Row(mem, k.state, 1), ctx)
  IN  Put(Put(mem, k.state, <<next>>), k.to,
          <<IF next = Junk THEN Junk ELSE Val("convolved", k.layer, ctx)>>)

Recurrence(l, state, from, to) ==
  [op |-> "recurrence", layer |-> l, state |-> state, from |-> from, to |-> to]

RunRecurrence(mem, k) ==
  LET kinds == <<"prepared", "b", "a">>
      ctx   == Agreed(kinds, k.layer, [i \in 1..3 |-> Row(mem, k.from[i], 1)])
      next  == Advanced("recurrent", k.layer, Row(mem, k.state, 1), ctx)
  IN  Put(Put(mem, k.state, <<next>>), k.to,
          <<IF next = Junk THEN Junk ELSE Val("delta", k.layer, ctx)>>)

(* deltanet_prefill: row 1 starts from the initial state, later rows from  *)
(* the destination; with one snapshot row the snapshot itself stands       *)
(* between the two rows, with more each row but the last is copied out.    *)
Prefill(l, rows, from, to, initial, destination, snapshots, kept) ==
  [op |-> "deltanet_prefill", layer |-> l, rows |-> rows, from |-> from, to |-> to,
   initial |-> initial, destination |-> destination, snapshots |-> snapshots, kept |-> kept]

Reads(k, part, r) ==
  IF r = 1 THEN StateAt(k.initial[part], 0)
  ELSE IF k.kept = 1 /\ r = 2 THEN StateAt(k.snapshots[part], 0) ELSE StateAt(k.destination[part], 0)

Writes(k, part, r) ==
  IF k.kept = 1 /\ r = 1 THEN StateAt(k.snapshots[part], 0) ELSE StateAt(k.destination[part], 0)

PrefillRow(mem, k, r) ==
  LET kinds == <<"channels", "z", "b", "a">>
      ctx   == Agreed(kinds, k.layer, [i \in 1..4 |-> Row(mem, k.from[i], r)])
      next  == [part \in {"conv", "recurrent"} |->
                  Advanced(part, k.layer, Row(mem, Reads(k, part, r), 1), ctx)]
      right == \A part \in {"conv", "recurrent"} : next[part] /= Junk
      saved(m, part) ==
        LET written == Put(m, Writes(k, part, r), <<next[part]>>)
        IN  IF r <= k.kept /\ k.kept > 1
            THEN Put(written, StateAt(k.snapshots[part], r - 1), <<next[part]>>)
            ELSE written
  IN  Put(saved(saved(mem, "conv"), "recurrent"), [k.to EXCEPT !.first = r - 1],
          <<IF right THEN Val("gated", k.layer, ctx) ELSE Junk>>)

RunPrefill(mem, k) ==
  LET after[r \in 0..k.rows] == IF r = 0 THEN mem ELSE PrefillRow(after[r - 1], k, r)
  IN  after[k.rows]

---------------------------------------------------------------------------
(* Attention over the quantised cache: cell t of a cache is the key and     *)
(* value of token t, and row r reads those of every token up to its own.    *)
CachedToken(mem, kv, t) == Read(mem[kv], 1, t - 1)

(* ensure_q8_kv_capacity: the next power of two, keeping the active tokens. *)
ReserveKv(kv, active, required) == [op |-> "reserve", kv |-> kv, active |-> active, required |-> required]

Larger(a, b) == IF a >= b THEN a ELSE b

Reserve_Error(cache, active, required) ==     \* grows to what is asked for
  IF required <= Len(cache) THEN cache
  ELSE SubSeq(cache, 1, active) \o Unset(Larger(required, MinCapacity) - active)

Reserve(cache, active, required) ==
  IF required <= Len(cache) THEN cache
  ELSE SubSeq(cache, 1, active) \o Unset(Larger(NextPowerOfTwo(required), MinCapacity) - active)

(* q8_kv_append and gqa_q8_prefill_append. *)
AppendKv(l, rows, key, value, kv, start) ==
  [op |-> "append", layer |-> l, rows |-> rows, key |-> key, value |-> value, kv |-> kv, start |-> start]

RunAppend(mem, k) ==
  [mem EXCEPT ![k.kv] = Write(@, 1, k.start,
      [r \in 1..k.rows |->
         LET ctx == Agreed(<<"key", "value">>, k.layer, <<Row(mem, k.key, r), Row(mem, k.value, r)>>)
         IN  IF ctx = <<>> THEN Junk ELSE Val("kv", k.layer, ctx)])]

RightCache(mem, kv, l, ctx) ==
  \A t \in 1..Len(ctx) : CachedToken(mem, kv, t) = Val("kv", l, SubSeq(ctx, 1, t))

(* gqa_q8_scores: one score per token of the sequence; gqa_q8_values. *)
Scores(l, query, kv, length, scores) ==
  [op |-> "scores", layer |-> l, query |-> query, kv |-> kv, length |-> length, scores |-> scores]

RunScores(mem, k) ==
  LET ctx == Agreed(<<"query">>, k.layer, <<Row(mem, k.query, 1)>>)
  IN  [mem EXCEPT ![k.scores] = Write(@, k.length, 0,
          <<IF Len(ctx) = k.length /\ RightCache(mem, k.kv, k.layer, ctx)
            THEN Val("scores", k.layer, ctx) ELSE Junk>>)]

Values(l, scores, kv, length, gate, to) ==
  [op |-> "values", layer |-> l, scores |-> scores, kv |-> kv, length |-> length, gate |-> gate, to |-> to]

RunValues(mem, k) ==
  LET ctx == Agreed(<<"scores", "query_gate">>, k.layer,
                    <<Read(mem[k.scores], k.length, 0), Row(mem, k.gate, 1)>>)
  IN  Put(mem, k.to, <<IF ctx /= <<>> /\ RightCache(mem, k.kv, k.layer, ctx)
                       THEN Val("attended", k.layer, ctx) ELSE Junk>>)

(* gqa_q8_prefill_attention: row r sees the tokens up to its own. *)
Attend(l, rows, query, gate, kv, start, to) ==
  [op |-> "attend", layer |-> l, rows |-> rows, query |-> query, gate |-> gate, kv |-> kv,
   start |-> start, to |-> to]

AttendRow(mem, k, r) ==
  LET ctx == Agreed(<<"query", "query_gate">>, k.layer, <<Row(mem, k.query, r), Row(mem, k.gate, r)>>)
  IN  IF Len(ctx) = k.start + r /\ RightCache(mem, k.kv, k.layer, ctx)
      THEN Val("attended", k.layer, ctx)
      ELSE Junk

RunAttend(mem, k) == Put(mem, k.to, [r \in 1..k.rows |-> AttendRow(mem, k, r)])

---------------------------------------------------------------------------
(* The matrix products of Metal Performance Shaders read weights that were  *)
(* expanded into a scratch buffer first.                                    *)
WeightCells(stage) == Width[Stage[stage].from[1]] * Width[Stage[stage].to[1]]

Dequantize(l, stage, weights, offset) ==
  [op |-> "dequantize", layer |-> l, stage |-> stage, weights |-> weights, offset |-> offset]

Expanded(k, s) == [i \in 1..WeightCells(s) |-> <<Val(s, k.layer, <<>>), i>>]

RunDequantize(mem, k) ==
  [mem EXCEPT ![k.weights] = Overwritten(@, k.offset, Expanded(k, k.stage))]

(* A product with the matrices of stages, one below the other. *)
Gemm(l, stages, stage, weights, rows, from, to) ==
  [op |-> "gemm", stages |-> stages, weights |-> weights,
   product |-> RowWise(stage, l, rows, from, to, 0)]

RunGemm(mem, k) ==
  LET expected == Joined([i \in DOMAIN k.stages |-> Expanded(k.product, k.stages[i])])
  IN  IF /\ Len(mem[k.weights]) >= Len(expected)
         /\ \A i \in DOMAIN expected : mem[k.weights][i] = expected[i]
      THEN RunStage(mem, k.product)
      ELSE Put(mem, k.product.to[1], [r \in 1..k.product.rows |-> Junk])

---------------------------------------------------------------------------
(* mtp_prepare_fc_input: takes the target's row 1 or, when the draft is what *)
(* the target chose there, row 2; joins its activation with the embedding of *)
(* its token, and leaves what the host will read in the token buffer.        *)
Select(hidden, tokens, draft, l, fed, to) ==
  [op |-> "select", hidden |-> hidden, tokens |-> tokens, draft |-> draft, layer |-> l,
   fed |-> fed, to |-> to]

RunSelect(mem, k) ==
  LET first  == Row(mem, k.tokens, 1)
      row    == IF first[1] = "token" /\ Choice(first[3]) = k.draft THEN 2 ELSE 1
      bonus  == Row(mem, k.tokens, row)
      hidden == Row(mem, k.hidden, row)
      right  == first[1] = "token" /\ bonus[1] = "token" /\ hidden = Val("hidden", bonus[2], bonus[3])
  IN  IF right
      THEN Put(Put(mem, k.to, <<Val("fc_input", k.layer, Append(k.fed, Fed(bonus[3], Choice(bonus[3]))))>>),
               k.tokens, <<Val("accepted", row - 1, first[3]), bonus>>)
      ELSE Put(Put(mem, k.to, <<Junk>>), k.tokens, <<Junk, Junk>>)

---------------------------------------------------------------------------
(* Rows made on the CPU: token embeddings, one for each context; and the     *)
(* adapter's input, a token with the target's activation before it, or with  *)
(* the adapter's own output when `after' is empty, whatever that was.        *)
Embed(buffer, contexts) == [op |-> "embed", buffer |-> buffer, contexts |-> contexts]

RunEmbed(mem, k) ==
  [mem EXCEPT ![k.buffer] = Filled([r \in DOMAIN k.contexts |-> Val("hidden", 1, k.contexts[r])], Width["hidden"])]

Pair(hidden, last, l, fed, to) ==
  [op |-> "pair", hidden |-> hidden, last |-> last, layer |-> l, fed |-> fed, to |-> to]

RunPair(mem, k) ==
  LET after == k.fed[Len(k.fed)].after
      right == after = <<>> \/ Row(mem, k.hidden, 1) = Val("hidden", k.last, after)
  IN  Put(mem, k.to, <<IF right THEN Val("fc_input", k.layer, k.fed) ELSE Junk>>)

---------------------------------------------------------------------------
Buffer(owner, name) == <<owner, 0, name>>

(* create_decode_state, create_batch_decode_state. *)
DecodeBuffers == {"hidden", "normalized", "post_norm", "mixed", "fc_input", "qkv", "z", "b", "a",
                  "convolved", "delta_output", "gate", "up", "swiglu", "scores", "logits", "token",
                  "mtp_post_norm_half", "mtp_gate_up_half", "mtp_swiglu_half"}

CreateDecodeState(owner, batch) ==
  [buffer \in {Buffer(owner, name) : name \in DecodeBuffers} |->
     IF buffer[3] \in {"hidden", "normalized", "post_norm", "mixed"}
     THEN Unset(NextPowerOfTwo(batch * Width["hidden"]))
     ELSE <<>>]

(* Allocation and copies, done on the CPU. *)
AllocCells(buffer, cells)   == [op |-> "ensure_cells", buffer |-> buffer, cells |-> cells]
Alloc(buffer, kind, rows)   == [op |-> "ensure", buffer |-> buffer, kind |-> kind, rows |-> rows]
Fresh(buffer, kind, rows)   == [op |-> "fresh", buffer |-> buffer, kind |-> kind, rows |-> rows]
Create(owner, rows)         == [op |-> "create", owner |-> owner, rows |-> rows]
Copy(from, to, kind, rows)  == [op |-> "copy", from |-> from, to |-> to, kind |-> kind, rows |-> rows]
Move(from, to, rows)        == [op |-> "move", from |-> from, to |-> to, rows |-> rows]

Cells(kind, rows) == rows * Width[kind]

RunCopy(mem, k) ==       \* a vector as long as what is copied
  LET cells == Cells(k.kind, k.rows)
  IN  [mem EXCEPT ![k.to] = IF cells <= Len(mem[k.from]) THEN SubSeq(mem[k.from], 1, cells) ELSE Unset(cells)]

Run(mem, k) ==
  CASE k.op = "stage"            -> RunStage(mem, k)
    [] k.op = "conv"             -> RunConv(mem, k)
    [] k.op = "recurrence"       -> RunRecurrence(mem, k)
    [] k.op = "deltanet_prefill" -> RunPrefill(mem, k)
    [] k.op = "append"           -> RunAppend(mem, k)
    [] k.op = "scores"           -> RunScores(mem, k)
    [] k.op = "values"           -> RunValues(mem, k)
    [] k.op = "attend"           -> RunAttend(mem, k)
    [] k.op = "dequantize"       -> RunDequantize(mem, k)
    [] k.op = "gemm"             -> RunGemm(mem, k)
    [] k.op = "select"           -> RunSelect(mem, k)
    [] k.op = "embed"            -> RunEmbed(mem, k)
    [] k.op = "pair"             -> RunPair(mem, k)
    [] k.op = "reserve"          -> [mem EXCEPT ![k.kv] = Reserve(@, k.active, k.required)]
    [] k.op = "ensure_cells"     -> Ensure(mem, k.buffer, k.cells)
    [] k.op = "ensure"           -> Ensure(mem, k.buffer, Cells(k.kind, k.rows))
    [] k.op = "fresh"            -> [mem EXCEPT ![k.buffer] = Unset(Cells(k.kind, k.rows))]
    [] k.op = "create"           -> Over(CreateDecodeState(k.owner, k.rows), mem)
    [] k.op = "copy"             -> RunCopy(mem, k)
    [] k.op = "move"             -> Put(mem, k.to, [r \in 1..k.rows |-> Row(mem, k.from, r)])

(* The kernels in order.  (The condition makes TLC evaluate each memory before *)
(* it goes on to the next kernel.)                                             *)
RunNext(mem, k) == IF mem = <<>> THEN mem ELSE Run(mem, k)

RunAll(mem, kernels) ==
  LET after[i \in 0..Len(kernels)] == IF i = 0 THEN mem ELSE RunNext(after[i - 1], kernels[i])
  IN  after[Len(kernels)]
=============================================================================
