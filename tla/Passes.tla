------------------------------- MODULE Passes -------------------------------
(***************************************************************************)
(* One run of tokens through the model, as the calls it makes one after    *)
(* the other: a prompt layer by layer (prefill_internal), one token        *)
(* (forward_embedding, in its three forms), a speculative block            *)
(* (prefill_verify_gpu, prefill_verify_mtp_seed_gpu), and the adapter's    *)
(* prompt and steps.  What the CPU computes between two calls is done with *)
(* the call before or after it.  Vectors of the host are buffers too.      *)
(* Source: src/src/native.rs.                                              *)
(*                                                                         *)
(* env says which of the program's switches are set:                       *)
(*   decode    "graph", or "groups" with QWEN38_DISABLE_GPU_DECODE_GRAPH,  *)
(*             or "host" with QWEN38_DISABLE_GPU_DECODE                    *)
(*   mps       "off", "split" or "fused": see PoolCalls                    *)
(*   verify    "graph", or "prefill" with QWEN38_DISABLE_BATCH_VERIFY      *)
(*   snapshots, fused_seed, adapter_gpu, f16                               *)
(*             those features                                              *)
(*   drafts    tokens the adapter drafts in a round; 0: no adapter         *)
(*                                                                         *)
(* A definition named D_Error is D with that error in it: no part of the   *)
(* specification, but what its properties are tried against.               *)
(***************************************************************************)
EXTENDS PoolCalls

CONSTANT ChunkTokens       \* PREFILL_CHUNK_TOKENS: 8192, or QWEN38_PREFILL_CHUNK_TOKENS

Hosts == {"hidden", "verify_hidden", "normed", "qkv", "z", "b", "a", "delta", "query_and_gate", "raw_key",
          "query", "query_gate", "key", "value", "attended", "mixed", "post_normed", "mlp", "normalized",
          "logits", "token", "fc_input", "projected", "seed_hidden", "seed_logits", "seed_token"}

Preceded(kernels, call) == Call(call.pool, kernels \o call.work, call.back, call.appends)
Followed(call, kernels) == Call(call.pool, call.work, call.back \o kernels, call.appends)

(* A result with its own vector. *)
OnHost(stage, l, rows, from, to, position) ==
  [i \in DOMAIN to |-> Fresh(Host(to[i]), Stage[stage].to[i], rows)]
  \o <<RowWise(stage, l, rows, from, [i \in DOMAIN to |-> At(Host(to[i]), Stage[stage].to[i])], position)>>

---------------------------------------------------------------------------
(* The mixers, from Host("normed") or what stands for it, to Host("mixed"). *)
LinearStages == <<"qkv", "z", "b", "a">>
FullStages   == <<"q_proj", "k_proj", "v_proj">>
FullHosts    == <<"query_and_gate", "raw_key", "value">>

(* LinearLayerWeights::forward. *)
LinearForward(l) ==
  <<q4_affine_matvec_mapped_batch(l, LinearStages, "normed", LinearStages),
    deltanet_step(l, "delta"),
    q4_affine_matvec_mapped_batch(l, <<"out_proj">>, "delta", <<"mixed">>)>>

(* LinearLayerWeights::forward_prefill, forward_prefill_from. *)
LinearPrefill(mps, l, rows, source, destination) ==
  <<q4_affine_matmul_mapped_batch(mps, l, rows, LinearStages, "normed", LinearStages),
    deltanet_prefill_from_buffers(l, rows, source, destination, "delta"),
    q4_affine_matmul_mapped_batch(mps, l, rows, <<"out_proj">>, "delta", <<"mixed">>)>>

(* Queries and gates are split and rotated, keys rotated, on the CPU. *)
RotateQueriesAndKeys(l, rows, position) ==
  OnHost("prepare_query", l, rows, <<At(Host("query_and_gate"), "query_and_gate")>>,
         <<"query", "query_gate">>, position)
  \o OnHost("prepare_key", l, rows, <<At(Host("raw_key"), "raw_key")>>, <<"key">>, position)

(* FullLayerWeights::forward. *)
FullForward(l, input, length, position) ==
  <<Followed(q4_affine_matvec_mapped_batch(l, FullStages, input, FullHosts),
             RotateQueriesAndKeys(l, 1, position)),
    gqa_attention_q8(l, length, "attended"),
    q4_affine_matvec_mapped_batch(l, <<"o_proj">>, "attended", <<"mixed">>)>>

(* FullLayerWeights::forward_prefill. *)
FullPrefill(mps, l, rows, input, length, position) ==
  <<Followed(q4_affine_matmul_mapped_batch(mps, l, rows, FullStages, input, FullHosts),
             RotateQueriesAndKeys(l, rows, position)),
    gqa_attention_q8_prefill(l, rows, length, "attended"),
    q4_affine_matmul_mapped_batch(mps, l, rows, <<"o_proj">>, "attended", <<"mixed">>)>>

---------------------------------------------------------------------------
(* The rest of a layer around its mixer, on rows of the vector `stream'. *)
InputNorm(l, rows, stream) ==
  OnHost("input_norm", l, rows, <<stream>>, <<"normed">>, 0)

MlpPart(mps, l, rows, stream) ==
  LET residual == RowWise("add_mixed", l, rows, <<stream, At(Host("mixed"), "mixed")>>, <<stream>>, 0)
  IN  Followed(
        Preceded(<<residual>> \o OnHost("post_norm", l, rows, <<stream>>, <<"post_normed">>, 0),
                 q4_affine_mlp_mapped_batch(mps, l, rows, "post_normed", "mlp")),
        <<RowWise("add_mlp", l, rows, <<stream, At(Host("mlp"), "mlp")>>, <<stream>>, 0)>>)

HostLayer(mps, l, rows, stream, mixer) ==
  <<Preceded(InputNorm(l, rows, stream), mixer[1])>> \o Tail(mixer) \o <<MlpPart(mps, l, rows, stream)>>

(* The chunks of a prompt of n tokens: the first row of each and its rows. *)
Chunks(n) ==
  [c \in 1..((n + ChunkTokens - 1) \div ChunkTokens) |->
     LET first == (c - 1) * ChunkTokens
     IN  [first |-> first, rows |-> IF first + ChunkTokens <= n THEN ChunkTokens ELSE n - first]]

Contexts(base, tokens) == [r \in DOMAIN tokens |-> base \o SubSeq(tokens, 1, r)]

FirstCallPreceded(kernels, calls) == <<Preceded(kernels, calls[1])>> \o Tail(calls)

(* The layers of prefill_internal.  While speculating the first chunk takes *)
(* a linear layer from the active state to the shadow, the next ones go on  *)
(* from there.                                                              *)
Source(speculating, chunk)   == IF speculating /\ chunk.first > 0 THEN "shadow" ELSE "active"
Destination_Error(speculating) == "active"
Destination(speculating)     == IF speculating THEN "shadow" ELSE "active"

PrefillMixer(env, l, chunk, speculating, length, position) ==
  IF LayerKind[l] = "linear"
  THEN LinearPrefill(env.mps, l, chunk.rows, Source(speculating, chunk), Destination(speculating))
  ELSE FullPrefill(env.mps, l, chunk.rows, "normed", length, position + chunk.first)

PrefillLayers(env, rows, speculating, lengths, position) ==
  Joined([l \in 1..LastLayer |->
    Joined([c \in DOMAIN Chunks(rows) |->
      LET chunk == Chunks(rows)[c]
      IN  HostLayer(env.mps, l, chunk.rows, From(Host("hidden"), "hidden", chunk.first),
                    PrefillMixer(env, l, chunk, speculating,
                                 IF l \in FullLayers THEN lengths[l] ELSE 0, position))])])

---------------------------------------------------------------------------
(* One token: forward_embedding. *)
WriteHidden == <<Move(At(Host("hidden"), "hidden"), At(Buffer("decode", "hidden"), "hidden"), 1)>>
ReadHidden  == <<CopyOut(Buffer("decode", "hidden"), Host("hidden"), "hidden", 1)>>

OneToken(l, lengths, position) ==
  IF LayerKind[l] = "linear" THEN LinearLayer("decode", l)
  ELSE FullLayer("decode", l, lengths[l], position, FALSE)

(* decode_layers: all layers in one command buffer. *)
decode_layers(lengths, position) ==
  <<Call("none",
      WriteHidden \o Joined([l \in 1..LastLayer |-> OneToken(l, lengths, position)]),
      ReadHidden, [l \in FullLayers |-> 1])>>

(* decode_linear_layers and decode_full_layer: a run of linear layers in one *)
(* command buffer, a full layer in its own.                                   *)
EndOfGroup(l) == l = LastLayer \/ LayerKind[l] = "full" \/ LayerKind[l + 1] = "full"

Group(last, lengths, position) ==
  LET first == IF LayerKind[last] = "full" THEN last
               ELSE CHOOSE f \in 1..last : /\ \A l \in f..last : LayerKind[l] = "linear"
                                           /\ f = 1 \/ LayerKind[f - 1] = "full"
  IN  Call("none", Joined([i \in 1..(last - first + 1) |-> OneToken(first + i - 1, lengths, position)]),
           <<>>, [l \in {last} \cap FullLayers |-> 1])

DecodeGroups(lengths, position) ==
  LET groups == Joined([l \in 1..LastLayer |->
                          IF EndOfGroup(l) THEN <<Group(l, lengths, position)>> ELSE <<>>])
  IN  FirstCallPreceded(WriteHidden, Front(groups) \o <<Followed(Last(groups), ReadHidden)>>)

DecodeHost(env, lengths, position) ==
  Joined([l \in 1..LastLayer |->
    HostLayer(env.mps, l, 1, At(Host("hidden"), "hidden"),
              IF LayerKind[l] = "linear" THEN LinearForward(l)
              ELSE FullForward(l, "normed", lengths[l], position))])

forward_embedding(env, lengths, position) ==
  CASE env.decode = "graph"  -> decode_layers(lengths, position)
    [] env.decode = "groups" -> DecodeGroups(lengths, position)
    [] env.decode = "host"   -> DecodeHost(env, lengths, position)

forward_token(env, base, token, lengths) ==
  FirstCallPreceded(<<Embed(Host("hidden"), <<Append(base, token)>>)>>,
                    forward_embedding(env, lengths, Len(base)))

(* prefill_internal: room in every cache first; one token is decoded. *)
prefill_internal(env, base, tokens, speculating, lengths) ==
  LET rows    == Len(tokens)
      reserve == Joined([l \in 1..LastLayer |->
                           IF l \in FullLayers THEN <<ReserveKv(Kv(l), lengths[l], lengths[l] + rows)>> ELSE <<>>])
  IN  FirstCallPreceded(reserve,
        IF rows = 1
        THEN forward_token(env, base, tokens[1], lengths)
        ELSE FirstCallPreceded(<<Embed(Host("hidden"), Contexts(base, tokens))>>,
                               PrefillLayers(env, rows, speculating, lengths, Len(base))))

(* NativeModel::logits of the last row, and the greedy token among them. *)
logits(rows) ==
  <<Followed(
      Preceded(OnHost("final_norm", LastLayer + 1, 1, <<From(Host("hidden"), "hidden", rows - 1)>>,
                      <<"normalized">>, 0),
               q4_affine_matvec_mapped_batch(LastLayer + 1, <<"lm_head">>, "normalized", <<"logits">>)),
      OnHost("argmax", LastLayer + 1, 1, <<At(Host("logits"), "logits")>>, <<"token">>, 0))>>

argmax_logits_rows(rows) ==
  <<Preceded(OnHost("final_norm", LastLayer + 1, rows, <<At(Host("hidden"), "hidden")>>, <<"normalized">>, 0),
             q4_affine_argmax_mapped_batch(LastLayer + 1, rows, "normalized", "token"))>>

---------------------------------------------------------------------------
(* The verification of a block of drafts, from the active states to the     *)
(* shadows.  kept is the number of rows the snapshots take, batch the size  *)
(* of the block the request's batch state was made for.                     *)
BatchState(rows, batch) ==
  IF batch = rows THEN <<>> ELSE <<Create("verify", rows)>>

WriteBatch(base, tokens) ==
  <<Embed(Host("hidden"), Contexts(base, tokens)),
    Move(At(Host("hidden"), "hidden"), At(Buffer("verify", "hidden"), "hidden"), Len(tokens))>>

TargetPool(rows) == <<Alloc(Output(1), "logits", rows), Alloc(Q4("argmax"), "token", rows)>>

VerifyGraph(rows, kept, lengths, position) ==
  BatchGraph("verify", [l \in 1..LastLayer |-> l], rows, lengths, position, kept)
  \o GreedyHead("verify", LastLayer + 1, rows, Output(1), Q4("argmax"))

VerifyBack(rows) ==
  <<CopyOut(Buffer("verify", "hidden"), Host("verify_hidden"), "hidden", rows),
    CopyOut(Q4("argmax"), Host("token"), "token", rows)>>

(* prefill_all and argmax_logits_rows, without the batch graph. *)
prefill_verify(env, base, tokens, lengths) ==
  LET head == argmax_logits_rows(Len(tokens))
  IN  prefill_internal(env, base, tokens, TRUE, lengths)
      \o <<Followed(head[1], <<CopyOut(Host("hidden"), Host("verify_hidden"), "hidden", Len(tokens))>>)>>

(* prefill_verify_gpu with decode_batch_layers_with_argmax; profiled, it     *)
(* commits and waits layer by layer, under the same lock.                    *)
prefill_verify_gpu(base, tokens, kept, batch, lengths) ==
  LET rows == Len(tokens)
  IN  <<Call("q4",
          BatchState(rows, batch) \o WriteBatch(base, tokens) \o TargetPool(rows)
          \o VerifyGraph(rows, kept, lengths, Len(base)),
          VerifyBack(rows), [l \in FullLayers |-> rows])>>

(* prefill_verify_mtp_seed_gpu with decode_batch_layers_with_mtp_seed: the   *)
(* adapter's next step follows the verification in the same command buffer.  *)
prefill_verify_mtp_seed_gpu(env, base, tokens, kept, batch, lengths, fed, position) ==
  <<Call("q4",
      BatchState(2, batch) \o WriteBatch(base, tokens)
      \o <<Alloc(Buffer("adapter", "fc_input"), "fc_input", 1)>> \o TargetPool(2)
      \o VerifyGraph(2, kept, lengths, Len(base))
      \o <<Select(At(Buffer("verify", "hidden"), "hidden"), At(Q4("argmax"), "token"), tokens[2], Adapter, fed,
                  At(Buffer("adapter", "fc_input"), "fc_input"))>>
      \o MtpDecodeStep("adapter", lengths[Adapter], position, env.f16, TRUE),
      <<CopyOut(Q4("argmax"), Host("token"), "token", 2),
        CopyOut(Buffer("adapter", "token"), Host("seed_token"), "token", 1)>>,
      [l \in FullLayers \cup {Adapter} |-> IF l = Adapter THEN 1 ELSE 2])>>

---------------------------------------------------------------------------
(* The adapter.  prefill_prompt pairs row i of the prompt with the token     *)
(* after it; what goes into the attention is the projection as it stands.    *)
PairRows(rows, fed, first) ==
  [r \in 1..rows |->
     Pair(From(Host("hidden"), "hidden", first + r - 1), LastLayer + 1, Adapter,
          SubSeq(fed, 1, first + r), From(Host("fc_input"), "fc_input", r - 1))]

AdapterPromptChunk(env, chunk, fed, length) ==
  LET rows == chunk.rows
      stream == At(Host("projected"), "hidden")
  IN  <<Preceded(<<Fresh(Host("fc_input"), "fc_input", rows)>> \o PairRows(rows, fed, chunk.first),
                 q4_affine_matmul_mapped_batch(env.mps, Adapter, rows, <<"fc">>, "fc_input", <<"projected">>))>>
      \o FullPrefill(env.mps, Adapter, rows, "projected", length, chunk.first)
      \o <<MlpPart(env.mps, Adapter, rows, stream)>>

SeedOf(rows) ==
  <<Preceded(OnHost("final_norm", Adapter + 1, 1, <<From(Host("projected"), "hidden", rows - 1)>>,
                    <<"seed_hidden">>, 0),
             q4_affine_argmax_mapped_batch(Adapter + 1, 1, "seed_hidden", "seed_token"))>>

prefill_prompt(env, fed, lengths) ==
  LET chunks == Chunks(Len(fed))
  IN  Joined([c \in DOMAIN chunks |-> AdapterPromptChunk(env, chunks[c], fed, lengths[Adapter])])
      \o SeedOf(chunks[Len(chunks)].rows)

(* forward_input: on the GPU, or on the CPU around single calls. *)
forward_input(env, hidden, fed, lengths, position, need_logits) ==
  LET pair   == <<Fresh(Host("fc_input"), "fc_input", 1),
                  Pair(hidden, LastLayer + 1, Adapter, fed, At(Host("fc_input"), "fc_input"))>>
      stream == At(Host("projected"), "hidden")
      norm   == OnHost("final_norm", Adapter + 1, 1, <<stream>>, <<"seed_hidden">>, 0)
      gpu    == Call("none",
                  pair \o <<Alloc(Buffer("adapter", "fc_input"), "fc_input", 1),
                            Move(At(Host("fc_input"), "fc_input"), At(Buffer("adapter", "fc_input"), "fc_input"), 1)>>
                  \o MtpDecodeStep("adapter", lengths[Adapter], position, env.f16, need_logits),
                  <<CopyOut(Buffer("adapter", "normalized"), Host("seed_hidden"), "normalized", 1)>>
                  \o (IF need_logits THEN <<CopyOut(Buffer("adapter", "token"), Host("seed_token"), "token", 1)>> ELSE <<>>),
                  [l \in {Adapter} |-> 1])
      head   == Followed(q4_affine_matvec_mapped_batch(Adapter + 1, <<"lm_head">>, "seed_hidden", <<"seed_logits">>),
                         OnHost("argmax", Adapter + 1, 1, <<At(Host("seed_logits"), "logits")>>, <<"seed_token">>, 0))
  IN  IF env.adapter_gpu THEN <<gpu>>
      ELSE <<Preceded(pair, q4_affine_matvec_mapped_batch(Adapter, <<"fc">>, "fc_input", <<"projected">>))>>
           \o FullForward(Adapter, "projected", lengths[Adapter], position)
           \o <<Followed(MlpPart(env.mps, Adapter, 1, stream), norm)>>
           \o (IF need_logits THEN <<head>> ELSE <<>>)
=============================================================================
