------------------------------ MODULE PoolCalls ------------------------------
(***************************************************************************)
(* The calls of metal_runtime.rs that take vectors from the host and give  *)
(* vectors back, through activation buffers that all requests share.  Each *)
(* locks one pool, grows its buffers, copies its operands in, runs its     *)
(* kernels, reads the results and unlocks.  A call is a record: `work' is  *)
(* what happens up to the completion of the command buffer, `back' is what *)
(* is read afterwards, still under the lock.                               *)
(* Source: src/src/metal_runtime.rs.                                       *)
(***************************************************************************)
EXTENDS DecodeGraphs

CONSTANTS
  MpsMinBatch         \* rows from which Metal Performance Shaders take a product: 256

Q4(name)        == <<"q4", 0, name>>
Output(i)       == <<"q4", i, "output">>
HalfSlot(i)     == <<"q4", i, "half">>
Language(i)     == <<"language", i, "slot">>
LanguageScores  == <<"language", 9, "scores">>
Host(name)      == <<"host", 0, name>>

Pools        == {"q4", "language"}
PoolBuffers  == {Q4("input"), Q4("argmax"), Q4("input_half"), Q4("weights_half"), LanguageScores}
                \cup {Output(i) : i \in 1..4} \cup {HalfSlot(i) : i \in 1..3} \cup {Language(i) : i \in 1..6}

(* appends: the caches whose length the call sets once it has completed. *)
Call(pool, work, back, appends) == [pool |-> pool, work |-> work, back |-> back, appends |-> appends]
NoAppend == [l \in {} |-> 0]

CopyIn(host, buffer, kind, rows)  == Move(At(host, kind), At(buffer, kind), rows)
CopyOut(buffer, host, kind, rows) == Copy(buffer, host, kind, rows)

Reads1(stage)  == Stage[stage].from[1]
Writes1(stage) == Stage[stage].to[1]

---------------------------------------------------------------------------
(* Projections of one input; stages are the matrices of the jobs. *)
ProjectionBuffers(rows, stages) ==
  <<Alloc(Q4("input"), Reads1(stages[1]), rows)>>
  \o [i \in DOMAIN stages |-> Alloc(Output(i), Writes1(stages[i]), rows)]

ProjectionsBack(rows, stages, outputs) ==
  [i \in DOMAIN stages |-> CopyOut(Output(i), Host(outputs[i]), Writes1(stages[i]), rows)]

(* q4_affine_matvec_mapped_batch: one row. *)
q4_affine_matvec_mapped_batch(l, stages, input, outputs) ==
  LET kind == Reads1(stages[1])
  IN  Call("q4",
        ProjectionBuffers(1, stages) \o <<CopyIn(Host(input), Q4("input"), kind, 1)>>
        \o [i \in DOMAIN stages |->
              RowWise(stages[i], l, 1, <<At(Q4("input"), kind)>>, <<At(Output(i), Writes1(stages[i]))>>, 0)],
        ProjectionsBack(1, stages, outputs), NoAppend)

(* q4_affine_matmul_mapped_batch_mps: every matrix is expanded into the same *)
(* scratch buffer and multiplied into the same half-precision result.        *)
MpsBuffers(rows, stages) ==
  LET largest(sizes) == CHOOSE n \in sizes : \A m \in sizes : m <= n
  IN  <<Alloc(Q4("input"), Reads1(stages[1]), rows),
        Alloc(Q4("input_half"), Reads1(stages[1]), rows),
        AllocCells(Q4("weights_half"), largest({WeightCells(stages[i]) : i \in DOMAIN stages})),
        AllocCells(HalfSlot(1), largest({Cells(Writes1(stages[i]), rows) : i \in DOMAIN stages}))>>
      \o [i \in DOMAIN stages |-> Alloc(Output(i), Writes1(stages[i]), rows)]

q4_affine_matmul_mapped_batch_mps(l, rows, stages, input, outputs) ==
  LET kind == Reads1(stages[1])
      multiply(i) ==
        <<Dequantize(l, stages[i], Q4("weights_half"), 0),
          Gemm(l, <<stages[i]>>, stages[i], Q4("weights_half"), rows, <<At(Q4("input_half"), kind)>>,
               <<At(HalfSlot(1), Writes1(stages[i]))>>),
          Move(At(HalfSlot(1), Writes1(stages[i])), At(Output(i), Writes1(stages[i])), rows)>>
  IN  Call("q4",
        MpsBuffers(rows, stages)
        \o <<CopyIn(Host(input), Q4("input"), kind, rows),
             Move(At(Q4("input"), kind), At(Q4("input_half"), kind), rows)>>
        \o Joined([i \in DOMAIN stages |-> multiply(i)]),
        ProjectionsBack(rows, stages, outputs), NoAppend)

(* should_use_mps_q4_prefill: mps is "off" with QWEN38_DISABLE_MPS_PREFILL,  *)
(* "fused" with QWEN38_ENABLE_MPS_MLP_FUSION.                                *)
UsesMps(mps, rows) == mps /= "off" /\ rows >= MpsMinBatch

(* q4_affine_matmul_mapped_batch: all rows of a block. *)
q4_affine_matmul_mapped_batch(mps, l, rows, stages, input, outputs) ==
  LET kind == Reads1(stages[1])
  IN  IF UsesMps(mps, rows)
      THEN q4_affine_matmul_mapped_batch_mps(l, rows, stages, input, outputs)
      ELSE Call("q4",
             ProjectionBuffers(rows, stages) \o <<CopyIn(Host(input), Q4("input"), kind, rows)>>
             \o [i \in DOMAIN stages |->
                   RowWise(stages[i], l, rows, <<At(Q4("input"), kind)>>, <<At(Output(i), Writes1(stages[i]))>>, 0)],
             ProjectionsBack(rows, stages, outputs), NoAppend)

(* q4_affine_argmax_mapped_batch: the vocabulary projection and its greedy rows. *)
q4_affine_argmax_mapped_batch(l, rows, input, output) ==
  Call("q4",
    <<Alloc(Q4("input"), "normalized", rows),
      Alloc(Output(1), "logits", rows),
      Alloc(Q4("argmax"), "token", rows),
      CopyIn(Host(input), Q4("input"), "normalized", rows),
      RowWise("lm_head", l, rows, <<At(Q4("input"), "normalized")>>, <<At(Output(1), "logits")>>, 0),
      RowWise("argmax", l, rows, <<At(Output(1), "logits")>>, <<At(Q4("argmax"), "token")>>, 0)>>,
    <<CopyOut(Q4("argmax"), Host(output), "token", rows)>>, NoAppend)

---------------------------------------------------------------------------
(* The MLP of a block.  mps: gate and up share the weight scratch one after  *)
(* the other, the product of down_proj returns to the slot gate was in.      *)
q4_affine_mlp_mapped_batch_mps(l, rows, input, output) ==
  LET largest(a, b) == IF a >= b THEN a ELSE b
      product(stage, from, slot) ==
        <<Dequantize(l, stage, Q4("weights_half"), 0),
          Gemm(l, <<stage>>, stage, Q4("weights_half"), rows, <<At(from, Reads1(stage))>>,
               <<At(slot, Writes1(stage))>>)>>
  IN  Call("q4",
        <<Alloc(Q4("input"), "post_normed", rows),
          Alloc(Q4("input_half"), "post_normed", rows),
          AllocCells(Q4("weights_half"), largest(WeightCells("gate_proj"), WeightCells("down_proj"))),
          AllocCells(HalfSlot(1), largest(Cells("gate", rows), Cells("mlp", rows))),
          Alloc(HalfSlot(2), "gate", rows),
          Alloc(HalfSlot(3), "gate", rows),
          Alloc(Output(1), "mlp", rows),
          CopyIn(Host(input), Q4("input"), "post_normed", rows),
          Move(At(Q4("input"), "post_normed"), At(Q4("input_half"), "post_normed"), rows)>>
        \o product("gate_proj", Q4("input_half"), HalfSlot(1))
        \o product("up_proj", Q4("input_half"), HalfSlot(2))
        \o <<RowWise("swiglu", l, rows, <<At(HalfSlot(1), "gate"), At(HalfSlot(2), "up")>>,
                     <<At(HalfSlot(3), "swiglu")>>, 0)>>
        \o product("down_proj", HalfSlot(3), HalfSlot(1))
        \o <<Move(At(HalfSlot(1), "mlp"), At(Output(1), "mlp"), rows)>>,
        <<CopyOut(Output(1), Host(output), "mlp", rows)>>, NoAppend)

(* Fused: gate and up are expanded one behind the other for one product. *)
q4_affine_mlp_mapped_batch_mps_fused_gate_up(l, rows, input, output) ==
  LET largest(a, b) == IF a >= b THEN a ELSE b
      both == WeightCells("gate_proj") + WeightCells("up_proj")
      weights == Q4("weights_half")
  IN  Call("q4",
        <<Alloc(Q4("input"), "post_normed", rows),
          Alloc(Q4("input_half"), "post_normed", rows),
          AllocCells(weights, largest(both, WeightCells("down_proj"))),
          AllocCells(HalfSlot(1), largest(Cells("gate_up", rows), Cells("mlp", rows))),
          Alloc(HalfSlot(2), "swiglu", rows),
          Alloc(Output(1), "mlp", rows),
          CopyIn(Host(input), Q4("input"), "post_normed", rows),
          Move(At(Q4("input"), "post_normed"), At(Q4("input_half"), "post_normed"), rows),
          Dequantize(l, "gate_proj", weights, 0),
          Dequantize(l, "up_proj", weights, WeightCells("gate_proj")),
          Gemm(l, <<"gate_proj", "up_proj">>, "gate_up", weights, rows,
               <<At(Q4("input_half"), "post_normed")>>, <<At(HalfSlot(1), "gate_up")>>),
          RowWise("swiglu_split", l, rows, <<At(HalfSlot(1), "gate_up")>>, <<At(HalfSlot(2), "swiglu")>>, 0),
          Dequantize(l, "down_proj", weights, 0),
          Gemm(l, <<"down_proj">>, "down_proj", weights, rows,
               <<At(HalfSlot(2), "swiglu")>>, <<At(HalfSlot(1), "mlp")>>),
          Move(At(HalfSlot(1), "mlp"), At(Output(1), "mlp"), rows)>>,
        <<CopyOut(Output(1), Host(output), "mlp", rows)>>, NoAppend)

(* q4_affine_mlp_mapped_batch; one row takes the kernels of a single token. *)
q4_affine_mlp_mapped_batch(mps, l, rows, input, output) ==
  IF UsesMps(mps, rows)
  THEN IF mps = "fused"
       THEN q4_affine_mlp_mapped_batch_mps_fused_gate_up(l, rows, input, output)
       ELSE q4_affine_mlp_mapped_batch_mps(l, rows, input, output)
  ELSE Call("q4",
         <<Alloc(Q4("input"), "post_normed", rows),
           Alloc(Output(1), "gate", rows),
           Alloc(Output(2), "up", rows),
           Alloc(Output(3), "swiglu", rows),
           Alloc(Output(4), "mlp", rows),
           CopyIn(Host(input), Q4("input"), "post_normed", rows),
           RowWise("gate_proj", l, rows, <<At(Q4("input"), "post_normed")>>, <<At(Output(1), "gate")>>, 0),
           RowWise("up_proj", l, rows, <<At(Q4("input"), "post_normed")>>, <<At(Output(2), "up")>>, 0),
           RowWise("swiglu", l, rows, <<At(Output(1), "gate"), At(Output(2), "up")>>,
                   <<At(Output(3), "swiglu")>>, 0),
           RowWise("down_proj", l, rows, <<At(Output(3), "swiglu")>>, <<At(Output(4), "mlp")>>, 0)>>,
         <<CopyOut(Output(4), Host(output), "mlp", rows)>>, NoAppend)

---------------------------------------------------------------------------
(* The mixers, on the language pool. *)
LanguageIn(hosts, kinds, rows) ==
  [i \in DOMAIN hosts |-> Alloc(Language(i), kinds[i], rows)]

LanguageCopies(hosts, kinds, rows) ==
  [i \in DOMAIN hosts |-> CopyIn(Host(hosts[i]), Language(i), kinds[i], rows)]

DeltaOperands == <<"channels", "z", "b", "a">>
DeltaHosts    == <<"qkv", "z", "b", "a">>

(* deltanet_step: advances the active state by one token. *)
deltanet_step(l, output) ==
  LET on(i, kind) == At(Language(i), kind)
  IN  Call("language",
        LanguageIn(DeltaHosts, DeltaOperands, 1)
        \o <<Alloc(Language(5), "channels", 1), Alloc(Language(6), "z", 1)>>
        \o LanguageCopies(DeltaHosts, DeltaOperands, 1)
        \o DeltanetStep(l, on(1, "channels"), on(2, "z"), on(3, "b"), on(4, "a"),
                        on(5, "convolved"), on(6, "delta")),
        <<CopyOut(Language(6), Host(output), "gated", 1)>>, NoAppend)

(* deltanet_prefill_from_buffers: from one state to another, or in place. *)
deltanet_prefill_from_buffers(l, rows, source, destination, output) ==
  LET on(i, kind) == At(Language(i), kind)
  IN  Call("language",
        LanguageIn(DeltaHosts, DeltaOperands, rows) \o <<Alloc(Language(5), "gated", rows)>>
        \o LanguageCopies(DeltaHosts, DeltaOperands, rows)
        \o <<Prefill(l, rows, <<on(1, "channels"), on(2, "z"), on(3, "b"), on(4, "a")>>, on(5, "gated"),
                     State(source, l), State(destination, l), State(destination, l), 0)>>,
        <<CopyOut(Language(5), Host(output), "gated", rows)>>, NoAppend)

GqaOperands == <<"query", "query_gate", "key", "value">>

(* gqa_attention_q8: appends one token and attends to all. *)
gqa_attention_q8(l, length, output) ==
  LET on(i, kind) == At(Language(i), kind)
  IN  Call("language",
        <<ReserveKv(Kv(l), length, length + 1)>> \o LanguageIn(GqaOperands, GqaOperands, 1)
        \o <<Alloc(Language(5), "attended", 1), AllocCells(LanguageScores, length + 1)>>
        \o LanguageCopies(GqaOperands, GqaOperands, 1)
        \o <<AppendKv(l, 1, on(3, "key"), on(4, "value"), Kv(l), length),
             Scores(l, on(1, "query"), Kv(l), length + 1, LanguageScores),
             Values(l, LanguageScores, Kv(l), length + 1, on(2, "query_gate"), on(5, "attended"))>>,
        <<CopyOut(Language(5), Host(output), "attended", 1)>>, [k \in {l} |-> 1])

(* gqa_attention_q8_prefill. *)
gqa_attention_q8_prefill(l, rows, length, output) ==
  LET on(i, kind) == At(Language(i), kind)
  IN  Call("language",
        <<ReserveKv(Kv(l), length, length + rows)>> \o LanguageIn(GqaOperands, GqaOperands, rows)
        \o <<Alloc(Language(5), "attended", rows)>>
        \o LanguageCopies(GqaOperands, GqaOperands, rows)
        \o GqaPrefill(l, rows, on(1, "query"), on(2, "query_gate"), on(3, "key"), on(4, "value"),
                      length, on(5, "attended")),
        <<CopyOut(Language(5), Host(output), "attended", rows)>>, [k \in {l} |-> rows])
=============================================================================
