---------------------------- MODULE PrefixCache ----------------------------
(***************************************************************************)
(* The prompt prefix cache (src/native.rs): PrefixCache with lookup_prefix *)
(* and store_prefix as concurrent requests of generate_native use them.    *)
(*                                                                         *)
(* The cache is locked for the lookup and for the insertion, not for the   *)
(* copies of model state before and after them.  A model state is an       *)
(* object of the heap: an entry and a request that forks it share it by    *)
(* Arc, and a request changes its own.  The content of a state is the      *)
(* sequence of rows it has absorbed, a row being a token and the image its *)
(* embedding was taken from; a hidden vector is named by the rows it was   *)
(* computed from.                                                          *)
(*                                                                         *)
(* Requests that decode speculatively go by the cache as those with images *)
(* do, and are left out.  A poisoned lock is out of the model: a panic     *)
(* ends the process.                                                       *)
(*                                                                         *)
(* A definition named D_Error is D with that error in it: no part of the   *)
(* specification, but what its properties are tried against.               *)
(***************************************************************************)
EXTENDS Naturals, Sequences, FiniteSets, SequencesExt, FiniteSetsExt

CONSTANTS
  Requests,      \* requests in flight at a time
  Prompts,       \* the token_ids they may come with
  Images,        \* what their image tokens may stand for
  NoImage,
  max_entries,   \* QWEN38_PREFIX_CACHE_MAX_ENTRIES
  max_tokens,    \* QWEN38_PREFIX_CACHE_MAX_TOKENS
  min_tokens,    \* QWEN38_PREFIX_CACHE_MIN_TOKENS
  MaxDecoded     \* bound: tokens a request decodes

ASSUME CacheAssumption ==
  /\ {max_entries, max_tokens, min_tokens, MaxDecoded} \subseteq Nat
  /\ \A p \in Prompts : p \in Seq(UNION {Range(q) : q \in Prompts}) /\ p # <<>>
  /\ NoImage \in Images

VARIABLES
  entries,        \* most recently used first
  total_tokens,
  heap,           \* the content of every model state that is held
  request,        \* the local state of every request
  recent          \* history: <<p, q>> if p was used after q last was, both of them cached

vars == <<entries, total_tokens, heap, request, recent>>

None == 0

\* A request that has not arrived, and the fields of one that has.
Idle ==
  [pc |-> "idle", prompt |-> <<>>, image |-> NoImage,
   hidden |-> <<>>,      \* the hidden vector of the last row
   hit |-> 0,            \* PrefixCacheHit.token_count
   source |-> None,      \* an Arc of a cached state
   own |-> None,         \* the state the request works on
   spare |-> None,       \* the copy about to be cached
   decoded |-> <<>>]

Rows(tokens, image) == [i \in DOMAIN tokens |-> <<tokens[i], image>>]

Input(r) == Rows(request[r].prompt, request[r].image)

Init ==
  /\ entries = <<>>
  /\ total_tokens = 0
  /\ heap = <<>>
  /\ request = [r \in Requests |-> Idle]
  /\ recent = {}

-----------------------------------------------------------------------------
(* The heap.                                                               *)

Held ==
  {entries[i].state : i \in DOMAIN entries}
    \cup UNION {{request[r].source, request[r].own, request[r].spare} : r \in Requests}

\* States are dropped with their last holder.
HeapFrom(contents) == heap' = [id \in Held' \ {None} |-> contents[id]]

Fresh == CHOOSE id \in 1 .. Cardinality(DOMAIN heap) + 1 : id \notin DOMAIN heap

With(id, content) == [i \in DOMAIN heap \cup {id} |-> IF i = id THEN content ELSE heap[i]]

-----------------------------------------------------------------------------
(* PrefixCache.                                                            *)

Hits(token_ids) == {i \in DOMAIN entries : IsPrefix(entries[i].token_ids, token_ids)}

find_longest(token_ids) ==
  CHOOSE i \in Hits(token_ids) :
    \A j \in Hits(token_ids) : Len(entries[j].token_ids) <= Len(entries[i].token_ids)

touch_Nothing(i) == entries

\* VecDeque::rotate_left.
touch(i) == SubSeq(entries, i, Len(entries)) \o SubSeq(entries, 1, i - 1)

can_store(count) ==
  max_entries > 0 /\ max_tokens > 0 /\ min_tokens <= count /\ count <= max_tokens

TokensIn(list) ==
  LET sum[n \in 0 .. Len(list)] ==
        IF n = 0 THEN 0 ELSE sum[n - 1] + Len(list[n].token_ids)
  IN  sum[Len(list)]

\* usize::saturating_sub
Less(a, b) == IF a >= b THEN a - b ELSE 0

insert_KeepsDuplicate(entry) ==
  LET count == Len(entry.token_ids)
      After(k) == Less(total_tokens, TokensIn(SubSeq(entries, k + 1, Len(entries))))
      keep  == Max({0} \cup {k \in 0 .. Len(entries) :
                              k < max_entries /\ After(k) + count <= max_tokens})
  IN  /\ entries' = <<entry>> \o SubSeq(entries, 1, keep)
      /\ total_tokens' = After(keep) + count

\* The older entry of the same prompt goes, and the entries at the back for
\* as long as the cache is too full.
insert(entry) ==
  LET count == Len(entry.token_ids)
      same  == {i \in DOMAIN entries : entries[i].token_ids = entry.token_ids}
      rest  == IF same = {} THEN entries ELSE RemoveAt(entries, Min(same))
      total == IF same = {} THEN total_tokens ELSE Less(total_tokens, count)
      After(k) == Less(total, TokensIn(SubSeq(rest, k + 1, Len(rest))))
      keep  == Max({0} \cup {k \in 0 .. Len(rest) :
                              k < max_entries /\ After(k) + count <= max_tokens})
  IN  /\ entries' = <<entry>> \o SubSeq(rest, 1, keep)
      /\ total_tokens' = After(keep) + count

\* The history of the lookups and insertions.
Use(token_ids) ==
  LET cached == {entries'[i].token_ids : i \in DOMAIN entries'}
  IN  recent' = {pair \in cached \X cached :
                   pair[2] # token_ids /\ (pair[1] = token_ids \/ pair \in recent)}

-----------------------------------------------------------------------------
(* The requests of generate_native.                                        *)

Becomes(r, new) == request' = [request EXCEPT ![r] = new]

Cacheable_Always(r) == TRUE

Cacheable(r) == request[r].image = NoImage

Arrive(r, p, image) ==
  /\ request[r].pc = "idle"
  /\ Becomes(r, [Idle EXCEPT !.pc = "lookup", !.prompt = p, !.image = image])
  /\ UNCHANGED <<entries, total_tokens, heap, recent>>

\* No entry, or not looked for: RuntimeState::new.
Miss(r) ==
  /\ request[r].pc = "lookup"
  /\ Cacheable(r) => Hits(request[r].prompt) = {}
  /\ Becomes(r, [request[r] EXCEPT !.pc = "prefill", !.own = Fresh])
  /\ UNCHANGED <<entries, total_tokens, recent>>
  /\ HeapFrom(With(Fresh, <<>>))

\* lookup_prefix up to the end of the lock's scope.
Hit(r) ==
  /\ request[r].pc = "lookup"
  /\ Cacheable(r)
  /\ Hits(request[r].prompt) # {}
  /\ LET i == find_longest(request[r].prompt)
         e == entries[i]
     IN  /\ entries' = touch(i)
         /\ Use(e.token_ids)
         /\ Becomes(r, [request[r] EXCEPT !.pc = "fork", !.source = e.state,
                                          !.hidden = e.hidden,
                                          !.hit = Len(e.token_ids)])
  /\ UNCHANGED <<total_tokens, heap>>

Fork_KeepsArc(r) ==
  /\ request[r].pc = "fork"
  /\ Becomes(r, [request[r] EXCEPT
                   !.own = Fresh,
                   !.pc = IF request[r].hit = Len(request[r].prompt)
                          THEN "decode" ELSE "prefill"])
  /\ UNCHANGED <<entries, total_tokens, recent>>
  /\ HeapFrom(With(Fresh, heap[request[r].source]))

\* The rest of lookup_prefix: the copy is made without the lock.
Fork(r) ==
  /\ request[r].pc = "fork"
  /\ Becomes(r, [request[r] EXCEPT
                   !.own = Fresh, !.source = None,
                   !.pc = IF request[r].hit = Len(request[r].prompt)
                          THEN "decode" ELSE "prefill"])
  /\ UNCHANGED <<entries, total_tokens, recent>>
  /\ HeapFrom(With(Fresh, heap[request[r].source]))

\* The rows behind the hit.
Prefill(r) ==
  LET own    == request[r].own
      filled == heap[own] \o SubSeq(Input(r), request[r].hit + 1, Len(Input(r)))
  IN  /\ request[r].pc = "prefill"
      /\ Becomes(r, [request[r] EXCEPT !.hidden = filled,
                                       !.pc = IF Cacheable(r) THEN "store" ELSE "decode"])
      /\ UNCHANGED <<entries, total_tokens, recent>>
      /\ HeapFrom(With(own, filled))

\* store_prefix: can_store under the lock, then the copy without it.
PassStore(r) ==
  /\ request[r].pc = "store"
  /\ ~can_store(Len(request[r].prompt))
  /\ Becomes(r, [request[r] EXCEPT !.pc = "decode"])
  /\ UNCHANGED <<entries, total_tokens, heap, recent>>

CopyToStore_Shares(r) ==
  /\ request[r].pc = "store"
  /\ can_store(Len(request[r].prompt))
  /\ Becomes(r, [request[r] EXCEPT !.pc = "insert", !.spare = request[r].own])
  /\ UNCHANGED <<entries, total_tokens, heap, recent>>

CopyToStore(r) ==
  /\ request[r].pc = "store"
  /\ can_store(Len(request[r].prompt))
  /\ Becomes(r, [request[r] EXCEPT !.pc = "insert", !.spare = Fresh])
  /\ UNCHANGED <<entries, total_tokens, recent>>
  /\ HeapFrom(With(Fresh, heap[request[r].own]))

Insert(r) ==
  /\ request[r].pc = "insert"
  /\ insert([token_ids |-> request[r].prompt, hidden |-> request[r].hidden,
             state |-> request[r].spare])
  /\ Use(request[r].prompt)
  /\ Becomes(r, [request[r] EXCEPT !.pc = "decode", !.spare = None])
  /\ HeapFrom(heap)

\* The decode loop appends to the state the request works on.
Decode(r, token) ==
  LET own == request[r].own
  IN  /\ request[r].pc = "decode"
      /\ Len(request[r].decoded) < MaxDecoded
      /\ Becomes(r, [request[r] EXCEPT !.decoded = Append(@, token)])
      /\ UNCHANGED <<entries, total_tokens, recent>>
      /\ HeapFrom(With(own, Append(heap[own], <<token, NoImage>>)))

\* The end of a request, with an answer or with an error of any step that
\* runs on the GPU; its states are dropped.
Leave(r) ==
  /\ request[r].pc \in {"lookup", "fork", "prefill", "store", "decode"}
  /\ Becomes(r, Idle)
  /\ UNCHANGED <<entries, total_tokens, recent>>
  /\ HeapFrom(heap)

Next ==
  \E r \in Requests :
    \/ \E p \in Prompts, image \in Images : Arrive(r, p, image)
    \/ Miss(r) \/ Hit(r) \/ Fork(r) \/ Prefill(r)
    \/ PassStore(r) \/ CopyToStore(r) \/ Insert(r)
    \/ \E p \in Prompts : Decode(r, p[1])
    \/ Leave(r)

Spec == Init /\ [][Next]_vars

-----------------------------------------------------------------------------
(* Properties.                                                             *)

TypeOK ==
  /\ \A i \in DOMAIN entries :
       entries[i].token_ids \in Prompts /\ entries[i].state \in DOMAIN heap
  /\ total_tokens \in Nat
  /\ \A r \in Requests :
       /\ request[r].pc \in {"idle", "lookup", "fork", "prefill", "store", "insert", "decode"}
       /\ request[r].source # None <=> request[r].pc = "fork"
       /\ request[r].spare # None <=> request[r].pc = "insert"
       /\ request[r].own # None <=> request[r].pc \notin {"idle", "lookup", "fork"}
  /\ DOMAIN heap = Held \ {None}

(* The cache keeps its three limits, the running total is the sum of its   *)
(* entries' tokens, and two requests that prefill one prompt at the same   *)
(* time leave one entry.                                                   *)
WithinLimits ==
  /\ Len(entries) <= max_entries
  /\ total_tokens = TokensIn(entries)
  /\ total_tokens <= max_tokens
  /\ \A i, j \in DOMAIN entries :
       /\ Len(entries[i].token_ids) >= min_tokens
       /\ entries[i].token_ids = entries[j].token_ids => i = j

(* "The cached state is immutable after insertion": whatever the requests  *)
(* that wrote, forked or evicted an entry do next, its state and its       *)
(* hidden vector are those of its tokens.                                  *)
CachedStateIntact ==
  \A i \in DOMAIN entries :
    LET rows == Rows(entries[i].token_ids, NoImage)
    IN  heap[entries[i].state] = rows /\ entries[i].hidden = rows

(* Caching is invisible: a request decodes from the state and the hidden   *)
(* vector of its own prompt and images, also when its entry was evicted or *)
(* replaced between the lookup and the copy.                               *)
CacheIsInvisible ==
  \A r \in Requests :
    request[r].pc = "decode" =>
      /\ heap[request[r].own] = Input(r) \o Rows(request[r].decoded, NoImage)
      /\ request[r].hidden = Input(r)

(* The eviction order is the order of use, so that the entries evicted are *)
(* the least recently used.  Holds up to the default of two entries.       *)
EvictsLeastRecentlyUsed ==
  \A i, j \in DOMAIN entries :
    i < j => <<entries[i].token_ids, entries[j].token_ids>> \in recent

=============================================================================
