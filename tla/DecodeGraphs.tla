---------------------------- MODULE DecodeGraphs ----------------------------
(***************************************************************************)
(* The layer graphs metal_runtime.rs encodes into a command buffer: which  *)
(* buffers of a decode state each projection, attention, recurrence and    *)
(* MLP reads and writes, for one token (decode_layers) and for a block of  *)
(* rows (decode_batch_layers), with the scratch buffers each call grows    *)
(* first.  A graph is the sequence of its kernels.                         *)
(* Source: src/src/metal_runtime.rs.                                       *)
(***************************************************************************)
EXTENDS Kernels

CONSTANTS
  LayerKind,         \* "linear" or "full" for every transformer layer of the target
  FusedAdd           \* does matmul_add take over the residual addition for a batch of this many rows

LastLayer    == Len(LayerKind)
Adapter      == LastLayer + 2               \* the adapter's one layer; its norm is Adapter + 1
LinearLayers == {l \in 1..LastLayer : LayerKind[l] = "linear"}
FullLayers   == {l \in 1..LastLayer : LayerKind[l] = "full"}

Kv(l)               == <<"kv", l, "cache">>
State(which, l)     == [part \in {"conv", "recurrent"} |-> StateOf(l, which, part)]

---------------------------------------------------------------------------
(* One token: encode_decode_full_layer, with the adapter's FP16 MLP instead *)
(* of the quantised one when f16 holds.                                     *)
FullBuffers(owner, l, length, f16) ==
  <<ReserveKv(Kv(l), length, length + 1),
    Alloc(Buffer(owner, "qkv"), "query_and_gate", 1),
    Alloc(Buffer(owner, "z"), "query", 1),
    Alloc(Buffer(owner, "b"), "query", 1),
    Alloc(Buffer(owner, "a"), "key", 1),
    Alloc(Buffer(owner, "convolved"), "key", 1),
    Alloc(Buffer(owner, "delta_output"), "query", 1)>>
  \o (IF f16 THEN <<>> ELSE [i \in 1..3 |-> Alloc(Buffer(owner, <<"gate", "up", "swiglu">>[i]), "gate", 1)])
  \o <<AllocCells(Buffer(owner, "scores"), length + 1)>>

FullProjections(owner, l, position) ==
  LET on(name, kind) == At(Buffer(owner, name), kind)
      do(stage, from, to) == RowWise(stage, l, 1, from, to, position)
  IN  <<do("input_norm", <<on("hidden", "hidden")>>, <<on("normalized", "normed")>>),
        do("q_proj", <<on("normalized", "normed")>>, <<on("qkv", "query_and_gate")>>),
        do("k_proj", <<on("normalized", "normed")>>, <<on("a", "raw_key")>>),
        do("v_proj", <<on("normalized", "normed")>>, <<on("convolved", "value")>>),
        do("prepare_query", <<on("qkv", "query_and_gate")>>, <<on("z", "query"), on("b", "query_gate")>>),
        do("prepare_key", <<on("a", "raw_key")>>, <<on("delta_output", "key")>>)>>

FullAttention(owner, l, length) ==
  LET on(name, kind) == At(Buffer(owner, name), kind)
  IN  <<AppendKv(l, 1, on("delta_output", "key"), on("convolved", "value"), Kv(l), length),
        Scores(l, on("z", "query"), Kv(l), length + 1, Buffer(owner, "scores")),
        Values(l, Buffer(owner, "scores"), Kv(l), length + 1, on("b", "query_gate"), on("delta_output", "attended")),
        RowWise("o_proj", l, 1, <<on("delta_output", "attended")>>, <<on("mixed", "mixed")>>, 0)>>

FullMlp(owner, l, f16) ==
  LET on(name, kind) == At(Buffer(owner, name), kind)
      do(stage, from, to) == RowWise(stage, l, 1, from, to, 0)
  IN  <<do("add_mixed", <<on("hidden", "hidden"), on("mixed", "mixed")>>, <<on("hidden", "residual")>>),
        do("post_norm", <<on("hidden", "residual")>>, <<on("post_norm", "post_normed")>>)>>
      \o (IF f16 THEN <<>> ELSE
      <<do("gate_proj", <<on("post_norm", "post_normed")>>, <<on("gate", "gate")>>),
        do("up_proj", <<on("post_norm", "post_normed")>>, <<on("up", "up")>>),
        do("swiglu", <<on("gate", "gate"), on("up", "up")>>, <<on("swiglu", "swiglu")>>),
        do("down_proj", <<on("swiglu", "swiglu")>>, <<on("mixed", "mlp")>>),
        do("add_mlp", <<on("hidden", "residual"), on("mixed", "mlp")>>, <<on("hidden", "hidden")>>)>>)

(* encode_mtp_f16_mlp: the gate/up scratch holds the product of down_proj at last. *)
MtpF16Mlp(owner, l) ==
  LET on(name, kind) == At(Buffer(owner, name), kind)
      do(stage, from, to) == RowWise(stage, l, 1, from, to, 0)
  IN  <<Alloc(Buffer(owner, "mtp_post_norm_half"), "hidden", 1),
        Alloc(Buffer(owner, "mtp_gate_up_half"), "gate_up", 1),
        Alloc(Buffer(owner, "mtp_swiglu_half"), "swiglu", 1),
        Move(on("post_norm", "post_normed"), on("mtp_post_norm_half", "post_normed"), 1),
        do("gate_up", <<on("mtp_post_norm_half", "post_normed")>>, <<on("mtp_gate_up_half", "gate_up")>>),
        do("swiglu_split", <<on("mtp_gate_up_half", "gate_up")>>, <<on("mtp_swiglu_half", "swiglu")>>),
        do("down_proj", <<on("mtp_swiglu_half", "swiglu")>>, <<on("mtp_gate_up_half", "mlp")>>),
        Move(on("mtp_gate_up_half", "mlp"), on("mixed", "mlp"), 1),
        do("add_mlp", <<on("hidden", "residual"), on("mixed", "mlp")>>, <<on("hidden", "hidden")>>)>>

FullLayer(owner, l, length, position, f16) ==
  FullBuffers(owner, l, length, f16) \o FullProjections(owner, l, position)
  \o FullAttention(owner, l, length) \o FullMlp(owner, l, f16)
  \o (IF f16 THEN MtpF16Mlp(owner, l) ELSE <<>>)

(* encode_deltanet_step, in place on the active state. *)
DeltanetStep(l, qkv, z, b, a, convolved, output) ==
  <<Conv(l, StateAt(State("active", l)["conv"], 0), qkv, convolved),
    RowWise("prepare", l, 1, <<convolved>>, <<convolved>>, 0),
    Recurrence(l, StateAt(State("active", l)["recurrent"], 0), <<convolved, b, a>>, output),
    RowWise("gate_norm", l, 1, <<output, z>>, <<output>>, 0)>>

(* encode_decode_linear_layer. *)
LinearBuffers(owner) ==
  <<Alloc(Buffer(owner, "qkv"), "channels", 1),
    Alloc(Buffer(owner, "z"), "z", 1),
    Alloc(Buffer(owner, "b"), "b", 1),
    Alloc(Buffer(owner, "a"), "a", 1),
    Alloc(Buffer(owner, "convolved"), "channels", 1),
    Alloc(Buffer(owner, "delta_output"), "z", 1),
    Alloc(Buffer(owner, "gate"), "gate", 1),
    Alloc(Buffer(owner, "up"), "gate", 1),
    Alloc(Buffer(owner, "swiglu"), "gate", 1)>>

LinearKernels(owner, l) ==
  LET on(name, kind) == At(Buffer(owner, name), kind)
      do(stage, from, to) == RowWise(stage, l, 1, from, to, 0)
  IN  <<do("input_norm", <<on("hidden", "hidden")>>, <<on("normalized", "normed")>>),
        do("qkv", <<on("normalized", "normed")>>, <<on("qkv", "channels")>>),
        do("z", <<on("normalized", "normed")>>, <<on("z", "z")>>),
        do("b", <<on("normalized", "normed")>>, <<on("b", "b")>>),
        do("a", <<on("normalized", "normed")>>, <<on("a", "a")>>)>>
      \o DeltanetStep(l, on("qkv", "channels"), on("z", "z"), on("b", "b"), on("a", "a"),
                      on("convolved", "convolved"), on("delta_output", "delta"))
      \o <<do("out_proj", <<on("delta_output", "gated")>>, <<on("mixed", "mixed")>>)>>
      \o FullMlp(owner, l, FALSE)

LinearLayer(owner, l) == LinearBuffers(owner) \o LinearKernels(owner, l)

---------------------------------------------------------------------------
(* A block of rows.  matmul_add writes the sum straight into the residual   *)
(* stream when it has a kernel for the block's size.                        *)
BatchAdd(owner, l, rows, projection, fused, from, added) ==
  LET on(name, kind) == At(Buffer(owner, name), kind)
      kind == Stage[projection].to[1]
      read == Stage[added].from[1]
      sum  == Stage[added].to[1]
  IN  IF FusedAdd[rows]
      THEN <<RowWise(fused, l, rows, <<from, on("hidden", read)>>, <<on("hidden", sum)>>, 0)>>
      ELSE <<RowWise(projection, l, rows, <<from>>, <<on("mixed", kind)>>, 0),
             RowWise(added, l, rows, <<on("hidden", read), on("mixed", kind)>>, <<on("hidden", sum)>>, 0)>>

BatchMlp(owner, l, rows) ==
  LET on(name, kind) == At(Buffer(owner, name), kind)
      do(stage, from, to) == RowWise(stage, l, rows, from, to, 0)
  IN  <<do("post_norm", <<on("hidden", "residual")>>, <<on("post_norm", "post_normed")>>),
        do("gate_proj", <<on("post_norm", "post_normed")>>, <<on("gate", "gate")>>),
        do("up_proj", <<on("post_norm", "post_normed")>>, <<on("up", "up")>>),
        do("swiglu", <<on("gate", "gate"), on("up", "up")>>, <<on("swiglu", "swiglu")>>)>>
      \o BatchAdd(owner, l, rows, "down_proj", "down_proj_add", on("swiglu", "swiglu"), "add_mlp")

(* encode_decode_batch_linear_layer. *)
BatchLinearBuffers(owner, rows) ==
  <<Alloc(Buffer(owner, "qkv"), "channels", rows),
    Alloc(Buffer(owner, "z"), "z", rows),
    Alloc(Buffer(owner, "b"), "b", rows),
    Alloc(Buffer(owner, "a"), "a", rows),
    Alloc(Buffer(owner, "convolved"), "z", rows),
    Alloc(Buffer(owner, "delta_output"), "z", rows),
    Alloc(Buffer(owner, "gate"), "gate", rows),
    Alloc(Buffer(owner, "up"), "gate", rows),
    Alloc(Buffer(owner, "swiglu"), "gate", rows)>>

BatchLinearKernels(owner, l, rows, kept) ==
  LET on(name, kind) == At(Buffer(owner, name), kind)
      do(stage, from, to) == RowWise(stage, l, rows, from, to, 0)
  IN  <<do("input_norm", <<on("hidden", "hidden")>>, <<on("normalized", "normed")>>),
        do("qkv", <<on("normalized", "normed")>>, <<on("qkv", "channels")>>),
        do("z", <<on("normalized", "normed")>>, <<on("z", "z")>>),
        do("b", <<on("normalized", "normed")>>, <<on("b", "b")>>),
        do("a", <<on("normalized", "normed")>>, <<on("a", "a")>>),
        Prefill(l, rows, <<on("qkv", "channels"), on("z", "z"), on("b", "b"), on("a", "a")>>,
                on("delta_output", "gated"),
                State("active", l), State("shadow", l), State("snapshot", l), kept)>>
      \o BatchAdd(owner, l, rows, "out_proj", "out_proj_add", on("delta_output", "gated"), "add_mixed")
      \o BatchMlp(owner, l, rows)

(* encode_decode_batch_full_layer with encode_gqa_prefill. *)
BatchFullBuffers(owner, l, rows, length) ==
  <<Alloc(Buffer(owner, "qkv"), "query_and_gate", rows),
    Alloc(Buffer(owner, "z"), "query", rows),
    Alloc(Buffer(owner, "b"), "query", rows),
    Alloc(Buffer(owner, "a"), "key", rows),
    Alloc(Buffer(owner, "convolved"), "key", rows),
    Alloc(Buffer(owner, "delta_output"), "query", rows),
    Alloc(Buffer(owner, "gate"), "gate", rows),
    Alloc(Buffer(owner, "up"), "gate", rows),
    Alloc(Buffer(owner, "swiglu"), "gate", rows),
    ReserveKv(Kv(l), length, length + rows)>>

GqaPrefill(l, rows, query, gate, key, value, length, output) ==
  <<AppendKv(l, rows, key, value, Kv(l), length),
    Attend(l, rows, query, gate, Kv(l), length, output)>>

BatchFullKernels(owner, l, rows, length, position) ==
  LET on(name, kind) == At(Buffer(owner, name), kind)
      do(stage, from, to) == RowWise(stage, l, rows, from, to, position)
  IN  <<do("input_norm", <<on("hidden", "hidden")>>, <<on("normalized", "normed")>>),
        do("q_proj", <<on("normalized", "normed")>>, <<on("qkv", "query_and_gate")>>),
        do("k_proj", <<on("normalized", "normed")>>, <<on("a", "raw_key")>>),
        do("v_proj", <<on("normalized", "normed")>>, <<on("convolved", "value")>>),
        do("prepare_query", <<on("qkv", "query_and_gate")>>, <<on("z", "query"), on("b", "query_gate")>>),
        do("prepare_key", <<on("a", "raw_key")>>, <<on("delta_output", "key")>>)>>
      \o GqaPrefill(l, rows, on("z", "query"), on("b", "query_gate"), on("delta_output", "key"),
                    on("convolved", "value"), length, on("delta_output", "attended"))
      \o BatchAdd(owner, l, rows, "o_proj", "o_proj_add", on("delta_output", "attended"), "add_mixed")
      \o BatchMlp(owner, l, rows)

(* encode_decode_batch_graph over the layers ls. *)
BatchGraph(owner, ls, rows, lengths, position, kept) ==
  Joined([i \in DOMAIN ls |->
    IF LayerKind[ls[i]] = "linear"
    THEN BatchLinearBuffers(owner, rows) \o BatchLinearKernels(owner, ls[i], rows, kept)
    ELSE BatchFullBuffers(owner, ls[i], rows, lengths[ls[i]])
         \o BatchFullKernels(owner, ls[i], rows, lengths[ls[i]], position)])

(* The final norm, the vocabulary projection and the greedy choice of rows. *)
GreedyHead(owner, l, rows, logits, tokens) ==
  LET on(name, kind) == At(Buffer(owner, name), kind)
  IN  <<RowWise("final_norm", l, rows, <<on("hidden", "hidden")>>, <<on("normalized", "normalized")>>, 0),
        RowWise("lm_head", l, rows, <<on("normalized", "normalized")>>, <<At(logits, "logits")>>, 0),
        RowWise("argmax", l, rows, <<At(logits, "logits")>>, <<At(tokens, "token")>>, 0)>>

(* encode_mtp_decode_step: the adapter's layer on what fc_input holds. *)
MtpDecodeStep(owner, length, position, f16, withHead) ==
  LET on(name, kind) == At(Buffer(owner, name), kind)
  IN  (IF withHead
       THEN <<Alloc(Buffer(owner, "logits"), "logits", 1), Alloc(Buffer(owner, "token"), "token", 1)>>
       ELSE <<>>)
      \o <<RowWise("fc", Adapter, 1, <<on("fc_input", "fc_input")>>, <<on("hidden", "hidden")>>, 0)>>
      \o FullLayer(owner, Adapter, length, position, f16)
      \o (IF withHead
          THEN GreedyHead(owner, Adapter + 1, 1, Buffer(owner, "logits"), Buffer(owner, "token"))
          ELSE <<RowWise("final_norm", Adapter + 1, 1, <<on("hidden", "hidden")>>,
                         <<on("normalized", "normalized")>>, 0)>>)
=============================================================================
