# TLA+ models of qwen38-metal

qwen38-metal serves one large language model over HTTP (OpenAI and Anthropic
protocols) and runs it on Apple's Metal. This directory holds TLA+ modules for
the parts of it whose correctness depends on order, concurrency and bookkeeping -
from the checks of a request to the buffers its kernels read and write -
the TLC configurations that check them, and TLAPS proofs. Paths below are
relative to the repository.

    tlc -workers 2 -config MCScheduler.cfg MCScheduler
    tlapm SchedulerProofs.tla

`SchedulerProofs`, `StreamResponseProofs`, `GreedyDecodeProofs`, `MtpDecodeProofs`,
`PrefixCacheProofs`, `DepthControllerProofs`, `RuntimeProofs` and `SequenceLemmas` hold
the proofs.

## The system

| Component | State | Operations | Hard because |
|---|---|---|---|
| Request scheduler (`src/api.rs`, `ApiState`) | two semaphores, a FIFO of waiters, one mpsc channel of 32 events per stream | `generate`, `generate_stream`; disconnects | ownership of permits moves between handler, task and blocking thread, and any of them may be dropped |
| Streaming responses (`src/api.rs`) | parser, open block, next index, events not sent yet | `openai_live_stream`, `anthropic_live_stream` | events of the engine arrive in any size and may stop anywhere |
| Output parsing (`src/api.rs`) | pending text and mode | `parse_model_output`, `StreamingOutputParser` | markers are split over events; two parsers have to agree |
| Normal decoding (`src/native.rs`) | generated ids, text sent | loop of `generate_native` | stop sequences span tokens, text is not monotone in tokens |
| Speculative decoding (`src/native.rs`, `src/mtp.rs`, MTP graph in `src/metal_runtime.rs`) | recurrent states with shadow and snapshots, KV cache, adapter state | `generate_mtp`, `RuntimeState` transaction, `MtpAdapter` | a partly accepted block is committed by three different mechanisms, in four modes |
| Draft depth controller (`src/mtp.rs`) | moving average, depth; shared by all lanes | `recommended_depth`, `observe` | read under one lock, observed under a later one, with rounds of other lanes between |
| Prompt prefix cache (`src/native.rs`) | a deque of entries with shared states | `lookup_prefix`, `store_prefix` | lock released around the copies of state |
| Model passes (`src/native.rs`) | the layers' states and vectors | prefill in chunks, one token in three forms, a block in two, the adapter's prompt and steps | several implementations of one computation, chosen by switches and by row count |
| Q8 KV cache (`src/metal_runtime.rs`) | growing buffers and their lengths | reserve, append, attend, truncate, clone | growth copies live data; truncation leaves rows behind |
| Metal dispatch and pools (`src/metal_runtime.rs`, `src/mps.rs`) | two pools of activation buffers under mutexes, decode and batch states | graphs of layers; projections, MLPs, attention and recurrences as calls | buffers are shared by lanes and reused by kernels of one graph |
| Request validation and conversion (`src/api.rs`) | none | checks and conversion of two protocols, answers | order of the checks; what a client sends back is what the server answered |
| Prompt rendering, images (`src/native.rs`) | none | template, placeholders, positions | an earlier answer must be rendered as it was said |
| Paging arithmetic, loading, preflight, planning (`src/paged_kv.rs`, `src/model.rs`, `src/preflight.rs`, `src/geometry.rs`) | none after start | parsing, capacity arithmetic | boundaries |
| Command line (`src/main.rs`) | none | start-up | - |

How they interact: a handler validates a request and calls the scheduler. The
scheduler runs `InferenceEngine::generate[_stream]` on a blocking thread that owns
a lane. The engine looks its prompt up in the prefix cache (or goes by it, with
images or speculation), prefills, and decodes by the normal or the speculative
loop; each accepted token goes through the callback into the stream's channel,
blocking while it is full. The streaming response reads the channel, parses the
text and frames it. Between lanes only the prefix cache, the draft depth
controller and the runtime's activation pools are shared, each under a mutex.

The engine in turn renders and tokenizes the prompt and drives the layers through
`MetalRuntime`: with a graph on the request's own decode state, or call by call
through the shared pools, each of which is locked by the call that uses it. A client
keeps its conversation and sends all of it again with every request, so that a
prompt depends on what the server itself answered before.

What makes each component correct:

- scheduler: permits are neither lost nor minted; no lane idles while a request
  waits; overload is refused only at the bound; every client is answered;
- streams: well-formed framing, an honest end, nothing held back without need,
  independence of how the text was cut, agreement with the unary answer;
- decoding: a stop sequence is cut from the answer; the stream is the answer;
- speculation: invisible to the client, states in step, termination;
- cache: bounded, invisible, its states immutable, eviction in order of use;
- requests: a prompt extends the prompt and the answer before it, nothing said is
  lost, both protocols mean the same, what was accepted is served, what was
  answered may be sent back;
- passes: whichever path computes a token, it reads the right values; a
  verification leaves the committed state alone; lanes do not see each other.

`PROJECT.json` lists every component with its status, and under "hazards" what
can go wrong at which line.

## Modules

Modules that model code also contain definitions named `D_Error`, or `D_` and a
word for the error: `D` with a plausible error in it. They are no part of a
specification. For each property of a passing run one of them is known to break
the property when it takes the place of `D`.

    Admission <- Scheduler <- SchedulerProofs      (Scheduler implements Admission)
    TokenText <- GreedyDecode <- MtpDecode         (MtpDecode implements GreedyDecode)
    GreedyDecode <- GreedyDecodeProofs
    MtpDecode, GreedyDecodeProofs <- MtpDecodeProofs
    OutputParser <- StreamResponse <- StreamResponseProofs
    OutputParser, PromptText <- Messages <- RequestChecks <- Conversation
    DepthController <- DepthControllerProofs
    PrefixCache <- PrefixCacheProofs
    SequenceLemmas <- GreedyDecodeProofs, MtpDecodeProofs, PrefixCacheProofs,
                      StreamResponseProofs, RuntimeProofs
    Kernels <- DecodeGraphs <- PoolCalls <- Passes <- Runtime <- RuntimeProofs

**Admission** is the service the scheduler promises: a bound on requests in the
house, a bound on executions, refusal only at the bound, everyone leaves once.

**Scheduler** is `ApiState::generate` and `generate_stream`. `phase[r]` is what runs
on the request's behalf: `admitted` (slot taken), `waiting` (in the semaphore's
FIFO), `granted` (the semaphore assigned a permit, the task has not been polled),
`running` (closure on the blocking thread), `returned` (lane dropped, slot not
yet), `over`. `Admit`/`Refuse` are `try_acquire_owned`; `SeekLane`/`StartWorker`
`acquire_owned` and `spawn_blocking`; `Emit` the callback with `blocking_send`;
`WorkerReturns` the end of the closure with the lane's hand-over; `Retire` and
`ReportFailure` the end of the task; `Receive`/`AnswerUnary` the client's side;
`Disconnect`/`CancelWait` the drop of the response body or of the handler future.
A worker whose client left sees the failing send as an engine error (`Returns`).
The tokio semaphore and channel are external and modelled as documented: FIFO,
fair, a dropped waiter leaves the queue and passes on what it was assigned.
`SchedulerProofs` holds the theorems.

**OutputParser** has both parsers as operators: `ToolCalls`/`split_reasoning` for
whole answers and one operator per mode of `drain` for streams. A marker is two
or three letters that share the first, so that it can be cut; a well-formed
function element is one letter. A loop of the code is a recursive function that is
given more turns than the loop can need (`TurnsOf`); a turn behind its end changes
nothing.

**StreamResponse** is the two `stream::unfold` state machines. `RawToken` runs a
piece through the parser and frames the deltas, `Finished` flushes, adds tool
calls and the ending, `Failed` is an `Err` event or the end of the channel. An
engine that sends no `RawToken` (the trait's default `generate_stream`) goes from
`Started` to `Finished` directly.

**TokenText** is what both decode loops share: decoding, `token_sequence_stop_index`
and the delta rule. The tokenizer is external, a byte-level BPE: a token is some
bytes, a character of two bytes may be split over two tokens, and either half alone
decodes to the replacement character. A stop sequence may begin anywhere, also inside
of a token or behind one half of a character.

**GreedyDecode** is the loop of `generate_native`, one action per way a step ends.
`target` is the answer the model gives (sampling is seeded per step, so it is a
function of the request).

**MtpDecode** is `generate_mtp`: draft, verify, commit, emit, accept, the one-token
tail, and failure. A recurrent state is the sequence of tokens it has absorbed; a
KV cache is a sequence of (token, position). A row computed from a state that is
not a prefix of the answer may yield any token, so a wrong commit cannot go
unnoticed. Modes: `default` (batch verification with a state image per row, and the
fused graph when at most one draft is allowed), `snapshots`
(`QWEN38_DISABLE_MTP_FUSED_SEED`), `fused` (`QWEN38_DISABLE_MTP_STATE_SNAPSHOTS`: the
fused graph, but a refused draft is rolled back and replayed) and `replay` (both, or
`QWEN38_DISABLE_BATCH_VERIFY`). Any draft depth up to the limit may be recommended,
which covers the shared controller.

**DepthController** is that controller, an `MtpController` under a mutex, and the rounds
of `generate_mtp` as far as it sees them: `StartRound` reads the depth and fixes the
number of drafts, `Verify` accepts some of them or ends the request, `Observe` reports
them. `highs` and `lows` are history variables: how many of the last rounds, of
whichever requests, were accepted or rejected as a whole. The average is in whole
units of 1/`Scale` and rounded down, where the code has f32; `Scale` is a multiple of
every number of drafts, so that an acceptance is exact.
`DepthControllerProofs` holds the theorems.

**PrefixCache** is the cache as concurrent requests use it. States are objects of
a heap named by entries and requests, as `Arc`s are; the steps are those between
which the lock is not held: lookup, fork, prefill, check, copy, insert. `recent`
is a history variable: the order of use, as pairs of prompts.

**PromptText** is `render_prompt` with its parts, the placeholders of images
(`smart_resize`, `output_token_count`) and `multimodal_positions`. A text is a short
sequence of words, and a token is a word.

**Messages** is the conversion of the messages of both protocols, with every way
they can be refused, and the answers: `OpenAiAssistantMessage`,
`anthropic_content_blocks`, `assign_tool_call_ids`. **RequestChecks** is the rest of
a request: `authorize`, the checks of the fields in the order of the code (the first
failure is the one reported), tools, tool choice and thinking, the estimate of the
prompt by either engine and `ensure_context_fits`.

**Conversation** is a client that asks, is answered, appends the answer to its
messages and asks again, against a server that keeps nothing. `Convert` is the
handler up to the scheduler, `Reject` its error, `Generate` and `FailToGenerate` the
engine (native or fixture), `Respond` the parsed answer in the client's protocol.
The client keeps its messages in both protocols, of which it speaks one, so that the
two can be compared.

**Kernels** is what a kernel does to memory. A number is abstracted to what it is
the right value of: `Val(kind, l, ctx)` is the activation or state of that kind at
layer `l` behind the tokens `ctx`, anything else is `Junk`. A kernel yields the right
value exactly when all it reads is right. A row takes as many cells as it has
elements, so that a buffer too small, a wrong stride, or a row overwritten too early
is seen. Here are the projections, the recurrence with its states and snapshots, and
the Q8 cache with its growth, append and attention.

**DecodeGraphs** is the graphs of `metal_runtime.rs`: a full and a linear layer for
one token and for a block, the greedy head, the adapter's step, with the buffers each
of them binds. **PoolCalls** is the calls that take vectors from the host: each
locks a pool, grows its buffers, copies in, runs, copies out. `q4_affine_*` have a
path of their own with Metal Performance Shaders, which is tiled by one matrix at a
time through the same half-precision scratch.

**Passes** is `native.rs` on top of them: `prefill_internal` with its chunks,
`forward_embedding` in its three forms, `prefill_verify_gpu`,
`prefill_verify_mtp_seed_gpu`, and `MtpAdapter`'s `prefill_prompt` and
`forward_input`. The switches of the program (environment variables) are the record
`env`.

**Runtime** is requests that run passes at the same time. `Start` and
`StartFromPrefix` are a new state and `RuntimeState::fork` of another lane's;
`AdapterPrompt`, `Draft`, `Verify`, `Settle` and `Replayed` are a round with
`begin_speculation`, the three ways to commit and `accept_verified`. A pass is its
calls one by one (`Work`): `RunGraph` for those on the request's own buffers, `Submit` and
`Complete` for those under a pool's lock, with other lanes in between; `Leave` is the
end of a request or a failing command buffer. `history` and `fed` are history
variables: the tokens a lane's caches should stand for. `RuntimeProofs` holds the
theorems.

The `MC*` modules give the constants their values.

## Runs

| Run | Bounds | Shows |
|---|---|---|
| `scheduler` | 3 unary + 1 streamed requests, two of their clients may leave, 2 lanes, 3 slots, channel of 1, 1 RawToken | `PermitsConserved`, `NoIdleLane`, `QueueIsWaiting`, `NeverCutOff`, refinement of Admission, `SlotEventuallyReturned`, `ClientEventuallyAnswered` |
| `greedy` | all answers of 4 tokens over 8: letters, tokens of two and three, halves of a character; two overlapping stops | `NoStopInAnswer`, `StreamIsAnswer` |
| `greedy_wide` | a character of two tokens | violates `StreamOnlyAppends` |
| `mtp` | all answers of 5 tokens over 3, halves of a character and a stop inside of a token; up to 2 drafts, all modes | refinement of GreedyDecode, `TargetInStep`, `AdapterInStep`, `SeedCanAdvance`, `RoundsTerminate` |
| `depth` | 2 requests, 1 or 3 drafts, budgets of 1, 2, 3 and 9 tokens, 7 observed rounds | `RoundFits`, `Adapts` |
| `prefix_cache` | 2 requests at a time, any number over time, nested prompts, 2 entries | `WithinLimits`, `CachedStateIntact`, `CacheIsInvisible`, `EvictsLeastRecentlyUsed` |
| `prefix_cache_lru` | 3 entries | violates `EvictsLeastRecentlyUsed` |
| `stream_response` | answers of up to 3 words and markers, of 4 out of fewer, pieces of 1 or 2 letters, both protocols | `WellFramed`, `Honest`, `NothingWithheld`, `PiecesDoNotMatter`, `StreamedAsAnswered` |
| `stream_markup` | the same | violates `MarkupHidden` |
| `conversation` | two turns, both protocols, 13 forms of a turn, 8 forms of valid fields and 19 faults, three engines | `NextPromptExtends`, `AnswersRemembered`, `ProtocolsAgree`, `AcceptedIsServed`, `ConversationContinues`, `PositionsIncrease` |
| `conv_systems` | an OpenAI client with tools and two system messages | violates `EverySystemPromptHeard` |
| `runtime` | a linear and a full layer, 11 settings of the switches, 1 or 2 requests, prompts of up to 3 tokens, up to 4 passes, up to 2 drafts | `CacheHoldsSequence`, `PassComputesModel`, `CommittedStateSafe` |

A run takes at most a minute and a half on two workers.

Why the bounds are enough: four requests on two lanes and three slots are the
fewest with an executing pair, a waiter and a refusal; a channel of one event is
full as soon as anything is in it (the capacity is 32 in the code, and the proofs
hold for every capacity). In `greedy` a stop is completed by two tokens, by one that
contains it, and by one in which it begins, with split characters before and behind
it; four tokens leave room for a stop and for the beginning of another. Five tokens with up to two drafts give two rounds with
every pattern of acceptance, and the one-token tail behind them. Seven observed rounds let the sixth
accepted one follow a rejected one; the proofs hold for any number. In the cache the
token budget binds before the entry limit for one prompt and after it for
another. Four words are the fewest with text, call, text and another marker;
pieces of one and two letters cut every marker in every place. Two turns are the
fewest in which an answer comes back; a fault is tried with all else valid, and the
order of two faults is in the definitions, not in a run. In `runtime` the smallest
constants take the place of the real ones so that every boundary is crossed: caches
start with two tokens (16 in the code) and grow within a prompt and within a
verification, chunks have two rows (8192), Metal Performance Shaders take products of
two rows and more (256). Widths differ from kind to kind, so that no two rows have
the same stride by chance. A prompt of three tokens has a full chunk and a rest.

Deadlock is checked where the system cannot stop: `mtp` (a request that is not
over always has a step), the cache runs and `runtime` (a lane that holds a lock or
waits for one gets on). The others come to rest on purpose.

### Fairness

`FairSpec` of Scheduler, the specification of run `scheduler`, assumes weak fairness of ready tasks (tokio polls them),
of the engine (generation is bounded by `max_tokens`, which `RoundsTerminate`
justifies for the speculative loop) and of clients that stay connected: they go on
reading. The last one is an assumption on the environment: the code has no timeout
for a client that neither reads nor disconnects, and such a client keeps its lane.
No client is made to send or to leave. `RoundsTerminate` needs no fairness: it is a
measure that every step decreases.

## What the violations say

- `greedy_wide`: the delta rule sends the whole text again when the new text does
  not extend the old one. The comment there calls this a case of custom
  tokenizers; byte-level BPE has it with every character that spans two tokens.
- `prefix_cache_lru`: `touch` rotates the deque instead of moving one entry to its
  front. With the default of two entries the two are the same.
- `stream_markup`: text of an unfinished or malformed tool call reaches the client,
  against the README. For an unfinished call the text is even delivered twice:
  `parse_tool_calls` appends the rest, leaves its loop, and appends what `remaining`
  still holds, which is the same text. A live stream drops that text instead.
- `conv_systems`: with tools, `render_prompt` puts the first message into the turn of
  the tools and skips all messages of role system. A second one is lost.

Seen while modelling, without a run of its own:

- `MtpAdapter::prefill_prompt` (`src/native.rs:3754`) and the CPU form of `forward_input`
  run the adapter's attention layer on inputs without the layer's input norm, which
  the graph of its decode steps applies: behind a prompt the adapter's cache holds keys
  that are not those of its own layer. Drafts are verified, so that only their acceptance
  can suffer; `CacheHoldsSequence` asks of the adapter's cache what lies behind the prompt.
- The fused graph appends one pair per round to the adapter's cache, although an
  accepting round emits two tokens: the accepted draft's pair is left out, where the
  comment at `src/native.rs:3665` speaks of one shifted pair per token. `AfterRound`
  of Runtime has it as it is.
- An OpenAI answer without text has no content (`src/api.rs:1917`). If it has no calls
  either, sending it back is refused (`src/api.rs:1532`), and the conversation is over.
  Run `conversation` has such answers, and `ConversationContinues` says that they are the
  only ones; Anthropic's has an empty text block instead.
- The native engine does not use the context given on the command line: the check of
  the output limit and the check of a request use different contexts.
- OpenAI requests may have images in user messages only, Anthropic's in those of the
  assistant as well; and images are fetched before the stop sequences are checked.
- A text that spells a special token is not escaped; the texts of the runs do not.
- `generate_mtp` reports Length whenever its answer has as many tokens as the limit
  (`src/native.rs:1530`), also if it was cut at a stop; the normal loop then reports
  StopSequence (`src/native.rs:1083`). It takes a stop that begins inside of a token, in
  front of which the text encodes to as many tokens as there were, so that the answer
  still holds it. The mapping of the refinement (`Reason`) calls that StopSequence as
  well: the two loops differ there, and nowhere else.
- `token_sequence_stop_index` keeps a number of tokens, not a text. A stop that begins
  inside of a token stays in the answer if the text in front of it encodes to as many
  tokens as there are; a text that is not encoded as it was decoded is cut too far or
  not far enough. `NoStopInAnswer` says for every vocabulary what is left then, and when
  the cut is exact.
- `prefill_internal` called with a single token writes the active state even while a
  transaction is open. Blocks that are verified have two tokens at least, so that it
  never happens.

## Proofs

`SchedulerProofs` proves, for every set of requests, every subset of streams and of
leaving clients, every number of lanes and slots, every channel capacity and every
length of generation: `TypeOK`, `PermitsConserved`, `NoIdleLane`, `QueueIsWaiting`,
`NeverCutOff` and the refinement `IsAdmissionService`. The assumptions are those of
`SchedulerAssumption`: a finite set of requests, natural numbers, a channel of at
least one.

The argument is one inductive invariant,

    IInv == TypeOK /\ PermitsConserved /\ NoIdleLane /\ QueueInv /\ StreamInv

`PermitsConserved` alone is not inductive: a lane handed to the head of the queue is
conserved only if the head is a waiting request, and only once, which is
`QueueInv`. `NeverCutOff` needs `StreamInv`: if the task of a stream is over and its
client is still connected and has seen no end, then Finished or an error is in the
channel, or it was taken from it. Counting is by lemmas on the cardinality of the
sets of requests in some phases when one request moves. The refinement maps
`phase` to `place`; the hand-over of a lane is a single step of the abstract
service.

`DepthControllerProofs` proves `TypeOK`, `RoundFits` and `Adapts` for every set of
requests, every limit of at most eight drafts (the most `configured_mtp_draft_limit`
takes), every set of budgets and every number of rounds, from `ParametersAssumption`:
`Scale` is a multiple of one to eight and at least 840, their least common multiple.
Two of the three speak of one request while others move the controller. `Adapts` is not
inductive, since it says nothing of the average; the invariant adds

    LowBound:   behind n rejected rounds the average is at most (3/4)^n, n <= 3
    HighBound:  behind n accepted rounds it misses 1 by at most (3/4)^n and the
                rounding of n steps, n <= 6

because each round takes away a quarter of the distance (`QuarterStep`,
`AverageStep`). (3/4)^3 is below the threshold 0.45 and (3/4)^6 below 1 - 0.8, which is
where the numbers of rounds in `Adapts` come from, and from there on `NextDepthStep`
moves the depth at each round.

`GreedyDecodeProofs` proves `NoStopInAnswer` and `StreamIsAnswer` for every vocabulary,
every token limit, every set of stop sequences and every answer the model may give. The
assumptions are those of the constants: a token is some bytes (`TextAssumption`), no stop
is empty, the limit is positive. Nothing is assumed of how text grows or of what `encode`
returns; both properties say what holds over any vocabulary, and what more holds of
an answer that is cut cleanly (`CutsCleanly`) or splits no character
(`WholeCharacters`). The invariant is

    InStep(ids):  no beginning of the tokens holds a stop; a stream has sent something,
                  and behind it the text, and just the text if no character is split
    CutAtStop:    a request that hit a stop was in step before the token that completed
                  it, and keeps as many tokens as the text in front encodes to

It rests on what a byte-level vocabulary does to text, proved from the definition of
`Decode`: text grows with its tokens where no character is split between them
(`DecodeGrows`), and then the deltas sent add up to the text (`StreamGrows`); a stop that is in a
text stays at its place when the text grows (`StopsStay`), and there is none in the text in
front of the first one (`NoneInFront`); `EncodedLength`, a recursive function, is a number
(`EncodedTyped`), so that what is kept is a beginning of the tokens (`KeptTokens`). For a
stream that a stop ended, `BeginningOfStop`: whatever it has beyond the answer is the
beginning of that stop, since the stop was not complete when it was sent.

`MtpDecodeProofs` proves `TargetInStep`, `AdapterInStep`, `SeedCanAdvance`,
`RoundsTerminate` and the refinement `DecodesGreedily`, for every limit, vocabulary,
draft depth, sequence of drafts and all four modes. The invariant is

    IInv == Types /\ OnTarget /\ StatesInStep /\ AdapterFollows

`TargetInStep` speaks of the beginning of a round; `OnTarget` and `StatesInStep` say for
each place within one what the active state, the shadow, the snapshot of every row, the
cache and the pending tokens are, so that each of `CommitAll`, `CommitPrefix` and
`Replay` is seen to leave the state behind the accepted rows. `AdapterFollows` does the
same for the adapter's cache, the length of which depends on how many drafts it read
ahead. A row computed from a state that has absorbed a prefix of the answer yields the
answer's next token (`Row`), which makes an accepted draft the answer's own. The
refinement maps the steps that emit to those of GreedyDecode and all others to
stuttering. Where the two loops tell the reason of an answer of `max_tokens` tokens, the
mapping needs to know whether a stop ended it: `StopsHeld` says that exactly those that a
stop ended still hold one, since a stop that leaves all tokens cut nothing off. It needs
what is known of decoded text, which MtpDecodeProofs takes from GreedyDecodeProofs by
`INSTANCE`. `RoundsAreTyped` proves `TypeOK`, with `Bounded` beside the invariant: an
answer cut at a stop stays within the limit (`KeptTokens`), and the adapter has read
ahead no more tokens than a round may have drafts. None of these theorems has a
hypothesis beyond the constants' assumptions.

`PrefixCacheProofs` proves `TypeOK`, `WithinLimits`, `CachedStateIntact` and
`CacheIsInvisible` (and, see below, `EvictsLeastRecentlyUsed`) for any number of requests
at a time and over time, every set of prompts, every image and all limits. The assumption is `CacheAssumption`: limits are
natural numbers and no prompt is empty. The invariant is

    IInv == Types /\ Unshared /\ (every request: Reached) /\ WithinLimits /\ CachedStateIntact

`CachedStateIntact` is not inductive: a decoding request could write to a cached state.
`Unshared` says that a state a request writes to (its own, and the copy it is about to
cache) has no other holder, neither an entry, nor another request's `Arc`; `Reached`
says what each state a request holds contains at each place, in particular that a
forked state still is that of a beginning of the prompt although its entry may be gone.
All actions are instances of one lemma (`KeepsInvariant`): a request becomes another,
writes to at most one state, its own or a fresh one, and the list keeps entries or
takes the copy. `WithinLimits` needs what the running total is after
`saturating_sub` (`InsertKeepsLimits`), and that the rotation in `touch` permutes the
entries (`TouchPermutes`). `EvictsLeastRecentlyUsed` is proved for two entries at most:
what is used last comes first, which leaves one place for the other.

`StreamResponseProofs` proves `WellFramed`, `Honest`, `NothingWithheld`,
`PiecesDoNotMatter` and `StreamedAsAnswered` for every set of answers, finite or not, every length of the pieces,
both protocols and every moment of a failure. The assumption is `StreamAssumption`: answers are sequences, protocols are
the two, pieces are not empty. The invariant is

    Inductive == /\ Typed /\ end \in {"open", "finished", "failed"}
                 /\ end = "open" => Ready
                 /\ end # "open" => Concluded(protocol, sent, end)

`WellFramed` speaks of the events that were sent, and not of what is sent next:
`Ready` relates the last of them to the open block and the next index (`Rests`), so that
whatever delta, call, ending or error comes next may follow it. `Concluded` is the
terminal event together with the presence of an error, and nothing is sent behind it
since no action of an ended stream is enabled. `Typed` has what `NothingWithheld` needs:
the parser is `Settled`. That is a fact about the loop of `drain`: it is over only when
nothing more can be emitted, and it is over in time. `Weight`, twice the letters pending
and one more for newlines to trim and one for an opening tag to expect, gets smaller with
every turn that changes anything (`Advances`), and a turn that changes nothing leaves
the parser settled. `TurnsOf` exceeds the weight, so that the recursive function has come
to rest, as the loop of the code has.

`PiecesDoNotMatter` speaks of the end of a stream. The invariant behind it, `KeptUp`, says
for every moment before: the parser, had everything received so far come in one piece,
would be in the state it is in, and have said what the client was sent, although in
deltas cut differently (`Ahead`). A piece keeps it up (`PieceKeepsUp`) because of
`LoopLonger`: the loop on some text, then on what it left with more text behind it, ends
as the loop on the whole text does. That is proved turn by turn. `TurnMeets` says that a
turn taken before more of the text has come leaves the parser where a turn on the longer
text leads, or one turn short of that (or it is no turn, and the loop waits). Each kind
of turn has its own reason:

- in text and reasoning (`EmitLonger`), what is emitted is what precedes the first place
  where the marker may begin (`Emitted`), be it the whole of the marker or, at the end of
  the text, the part of it that has come. More text can only move that place on
  (`EmittedLonger`), so nothing was emitted that should have been held back;
- newlines behind `</think>` (`TrimmedLonger`): when the piece consists of them and fewer
  than two have come, the turn ends and the next piece is trimmed of the rest; else the
  first letter has been seen and nothing more is trimmed;
- a marker at the front is the same marker in the longer text, and a text that may yet
  become `<think>` with its newline is left alone;
- the end of a tool call is found at the same place in a longer text (`FoundInLonger`).

Deltas are compared by their concatenation (`TextOfConcat`, `FlattenConcat`), since a cut
in the text is a cut in them.

`StreamedAsAnswered` compares two parsers written differently: `parse_model_output`, which
searches a finished answer, and `StreamingOutputParser`. The bridge between them is what a
parser is still to say (`ToThink`, `ToAnswer`): what the operations of the first would make
of the text that the second holds, in the mode it is in. `Says` is the invariant of the
loop: what was said, followed by what is still to be said, is the same after every turn
(`ReasoningSays`, `TextSays`, `ToolSays`), and a parser whose turns are over at the end has
nothing left to say (`EndOver`). A new parser that holds the whole answer is to say what
`parse_model_output` returns, before it is trimmed (`AnswerIs`). It rests on:

- a marker is found at the same place when letters in front of it are taken
  (`PartedShifted`), and the text outside of calls begins with the letters in front of
  the first call (`OutsideProper`, `OutsideShifted`); for that the loop of
  `parse_tool_calls` is followed beside itself, started behind a call (`SameLoop`);
- `KeptToProtocol` speaks of the answer after trimming, by the result of one of the
  parsers: no call is left in it. Trimming hides none (`TrimKeepsCalls`), and a call that
  is not left in the answer has an end and a body that parses (`KeptProper`), so that the
  streaming parser, which drops the markup of every call, drops no other;
- `strip_prefix` of a newline, twice, is what `trim_answer_newlines` counts to
  (`StripTwice`), and an opening tag that comes at most once is stripped once
  (`TagStripped`).

With `PiecesDoNotMatter` this is the answer in any pieces. An answer that came without
pieces is sent in the deltas of its generation, beside a parser that was given nothing and
says nothing (`SilentEnd`): the invariant for it is `AtOnce`.

`RuntimeProofs` proves `TypeOK` and `CommittedStateSafe` of Runtime, and of its steps
`SpeculationIsAtomic`, for every sequence of layers, any number of lanes, all prompts and
drafts, every setting of the switches and any bound on passes. The assumption is
`RuntimeAssumption`: the smallest cache is a power of two, chunks are not empty, there is
a layer, `decode` is one of the three forms. The invariant is, for every lane,

    LaneSound == /\ in use: Shape (its buffers are there, its caches hold their length)
                 /\ Rounds: what each kind of pass relies on from the pass before it
                 /\ Going: the place in a pass is one of its calls
                 /\ waiting for a submitted call: Waits (there is room for what it appends)
                 /\ a pool's mutex is the lane's exactly if its submitted call uses the pool

Hardly any of it could be said without knowing what the calls of a pass do to memory, and
that is most of the module, in the order of the modules of the model:

- a kernel writes only to the buffers it binds (`Mild`), so that it leaves alone those of
  other owners (`MildLeaves`); growing a cache keeps its cells (`ReserveKeeps`);
- a sequence of kernels is `Orderly` when each is mild, and each append comes behind a
  `reserve` of what it needs and begins at the length the cache has. Run on caches that
  hold their length, it keeps what they hold and they hold what was appended
  (`OrderlyRuns`);
- a call is well made (`WellMade`) when what it does before, under and behind the lock is
  orderly, for the owners the caller may write to; every call of DecodeGraphs and PoolCalls
  is (`...Made`), in each form the switches select;
- the calls of a pass are all well made (`CallsMade`). A call of the model speaks of the
  caches' lengths as they are when it is made, so that the lemma says it of the lane before
  and after any of its calls, and that the calls still to come append what they did;
- every action then is one of three: a lane gets new buffers (`Start`, `StartFromPrefix`:
  `ForkHolds`), turns to another pass, or makes a call, which changes its own buffers and
  those of the pool it holds.

`SpeculationIsAtomic` is the speculative transaction: no step, of whichever lane, changes
what a verification under way must leave alone (the committed tokens, the active
recurrent states, the first cells of every cache, the lengths `begin_speculation` noted),
and the step that rejects a round returns to exactly those. The pass of a verification
writes its recurrent states to the shadow and the snapshots, which is the owner `WellMade`
is given for it (`Destination`). So `CommittedStateSafe` holds throughout a round if it
does when the round begins. That it does then is `CacheHoldsSequence`, the hypothesis of
`CommittedIsSafe`: it says that the passes before computed the right values, and run
`runtime` checks it.

The library's induction theorems cannot be used here (they take an operator as a
parameter), so where something is said of all numbers `SequenceLemmas` argues by a
least counterexample: `LeastElement` is the well-foundedness of the numbers.
`IterationExists` and `UpTo` give a recursive function its values and an induction along
them; `SumExists` and `SumsAgree` make `TokensIn` a sum, and `IterationStays` keeps the
type of the parser's loops.

Only model-checked:

- the liveness properties: temporal reasoning with fairness and ENABLED is not
  supported by the prover;
- the conversations, whose invariants compare whole prompts, and whose positions
  (`PositionsFrom`) are a recursive operator, about which the prover cannot reason;
- `CacheHoldsSequence` and `PassComputesModel`: that each number of a pass is the right
  one. Their invariant is the content of every buffer of a lane and of the pools in front
  of every call, for each of the forms a pass has.

## What is not modelled

- The numerics of kernels, their grids and pipelines, model files, the decoding of
  images and the visual encoder, reports of preflight and the command line:
  arithmetic on large data or I/O.
- `LogicalPageTable` and `CachePlan`: no request depends on them. The first is used by
  no other file, the second by a report, and it plans scales per page where the
  runtime keeps scales per token.
- The entry points of `MetalRuntime` that no path of the engine calls.
- Lock order between the pools: each function locks one pool and calls nothing that
  locks another, so that there is no order to get wrong; `Submit` and `Complete` show
  it call by call.
- The rounding of the draft depth controller's f32: its average is a whole number of
  units instead. The thresholds are a percent and more away from what `Adapts` says
  of the average.
- A panic: the release profile aborts. In a build that unwinds, a panicking worker
  is an engine error to the scheduler (modelled), and the mutexes it poisons fail
  later requests (not modelled).
- The merges of the tokenizer: `encode` takes the longest token that matches at each
  place. The proofs use of it only that it returns some number of tokens.
- `QWEN38_BATCH_PROFILE`: a diagnostic switch that splits the submission of a block into
  several command buffers to time them (`src/metal_runtime.rs:2172` and `2369`).
- `StreamedAsAnswered` is stated for answers in the model's own protocol
  (`KeptToProtocol`). Outside of it the two parsers differ: unfinished or malformed
  calls (above), a bare `<think>` without newline and a repeated opening tag, which
  only the unary parser strips.
- The text of a stream may end with the beginning of a stop sequence that the
  unary answer does not have (`StreamIsAnswer` says so).

## Plan

Done, in this order: Admission, Scheduler and its proofs, TokenText and
GreedyDecode, MtpDecode, PrefixCache, OutputParser and StreamResponse; PromptText,
Messages, RequestChecks and Conversation; Kernels, DecodeGraphs, PoolCalls, Passes
and Runtime; DepthController and its proofs.

Then SequenceLemmas and the proofs of GreedyDecode, MtpDecode, PrefixCache,
StreamResponse and Runtime.

Next, most important first:

1. Proofs for Runtime: `CacheHoldsSequence`, beginning with the lengths and positions it
   speaks of, which need nothing of the values.
2. Conversation: `NextPromptExtends`, with positions as a recursive function.
3. The offset checks of `src/model.rs`.
4. A composition of Scheduler, GreedyDecode and StreamResponse over the channel.
