----------------------------- MODULE MCRuntime -----------------------------
(* A model of one linear and one full attention layer, rows of different   *)
(* widths, caches that start with two tokens and chunks of two rows.       *)
EXTENDS Runtime

MCSymmetry == Permutations(Lanes)

MCLayerKind == <<"linear", "full">>
MCFusedAdd  == [rows \in 1..4 |-> rows = 2]

MCWidth ==
  [hidden |-> 2, normed |-> 2, residual |-> 2, mixed |-> 2, post_normed |-> 2, mlp |-> 2, normalized |-> 2,
   query_and_gate |-> 4, query |-> 2, query_gate |-> 2, attended |-> 2, raw_key |-> 1, key |-> 1, value |-> 1,
   channels |-> 4, convolved |-> 4, prepared |-> 4, z |-> 2, delta |-> 2, gated |-> 2, b |-> 1, a |-> 1,
   gate |-> 3, up |-> 3, swiglu |-> 3, gate_up |-> 6, logits |-> 3, token |-> 1, fc_input |-> 4, state |-> 2]

MCChoice(ctx) == IF Len(ctx) % 3 = 2 THEN "b" ELSE "a"

(* One request at a time: long behaviours on every path of the program. *)
Plain == [decode |-> "graph", mps |-> "off", verify |-> "graph", snapshots |-> FALSE, fused_seed |-> FALSE,
          adapter_gpu |-> TRUE, f16 |-> FALSE, drafts |-> 0,
          requests |-> 1, prompts |-> {<<"b">>, <<"b", "a", "b">>}, passes |-> 3]

Drafting == [Plain EXCEPT !.drafts = 1, !.snapshots = TRUE, !.fused_seed = TRUE, !.f16 = TRUE]

Alone ==
  {Plain,
   [Plain EXCEPT !.decode = "groups", !.mps = "split"],
   [Plain EXCEPT !.decode = "host", !.mps = "fused"],
   Drafting,
   [Drafting EXCEPT !.drafts = 2, !.f16 = FALSE],
   [Drafting EXCEPT !.drafts = 2, !.snapshots = FALSE],
   [Drafting EXCEPT !.verify = "prefill", !.decode = "host", !.adapter_gpu = FALSE]}

(* Two at a time, on the same pools and from the same prefixes. *)
Together ==
  {[Plain EXCEPT !.requests = 2, !.prompts = {<<"b">>}, !.passes = 4],
   [Plain EXCEPT !.requests = 2, !.prompts = {<<"b">>}, !.decode = "host", !.passes = 2],
   [Plain EXCEPT !.requests = 2, !.prompts = {<<"b", "a">>}, !.mps = "split", !.passes = 2],
   [Drafting EXCEPT !.requests = 2, !.prompts = {<<"b">>}, !.passes = 4]}

MCEnvironments == Alone \cup Together
=============================================================================
