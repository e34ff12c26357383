-------------------------- MODULE PrefixCacheProofs --------------------------
(***************************************************************************)
(* PrefixCache for every number of requests, prompts, limits and order of  *)
(* the steps: the cache stays within its limits, what it holds is never    *)
(* written to again, and no request can tell that it was there.            *)
(***************************************************************************)
EXTENDS PrefixCache, SequenceLemmas, FiniteSetTheorems

-----------------------------------------------------------------------------
(* The tokens of a list of entries.                                         *)

LEMMA TokensInSum ==
  ASSUME NEW list, Len(list) \in Nat, \A n \in 1 .. Len(list) : Len(list[n].token_ids) \in Nat,
         NEW f \in [0 .. Len(list) -> Nat],
         Sums(f, [n \in 1 .. Len(list) |-> Len(list[n].token_ids)], Len(list))
  PROVE  TokensIn(list) = f[Len(list)]
<1> DEFINE N == Len(list)
           w == [n \in 1 .. N |-> Len(list[n].token_ids)]
           body(h) == [n \in 0 .. N |-> IF n = 0 THEN 0 ELSE h[n - 1] + Len(list[n].token_ids)]
           sum == CHOOSE h : h = body(h)
<1>1. TokensIn(list) = sum[N]
  BY DEF TokensIn
<1>2. f = body(f)
  <2>1. \A n \in 0 .. N : f[n] = IF n = 0 THEN 0 ELSE f[n - 1] + Len(list[n].token_ids)
    <3> SUFFICES ASSUME NEW n \in 0 .. N
                 PROVE  f[n] = IF n = 0 THEN 0 ELSE f[n - 1] + Len(list[n].token_ids)
      OBVIOUS
    <3>1. CASE n = 0
      BY <3>1 DEF Sums
    <3>2. CASE n # 0
      <4>1. n \in 1 .. N
        BY <3>2
      <4>2. f[n] = f[n - 1] + w[n] /\ w[n] = Len(list[n].token_ids)
        BY <4>1 DEF Sums
      <4> QED
        BY <3>2, <4>2
    <3> QED
      BY <3>1, <3>2
  <2> QED
    BY <2>1
<1>3. sum = body(sum)
  <2> HIDE DEF body
  <2> QED
    BY <1>2
<1> HIDE DEF sum
<1>4. Sums(sum, w, N)
  <2>1. 0 \in 0 .. N
    OBVIOUS
  <2>2. \A n \in 0 .. N : sum[n] = IF n = 0 THEN 0 ELSE sum[n - 1] + Len(list[n].token_ids)
    BY <1>3
  <2>3. sum[0] = 0
    BY <2>1, <2>2
  <2>4. ASSUME NEW n \in 1 .. N PROVE sum[n] = sum[n - 1] + w[n]
    <3>1. n \in 0 .. N /\ n # 0 /\ w[n] = Len(list[n].token_ids)
      OBVIOUS
    <3> QED
      BY <2>2, <3>1
  <2> QED
    BY <2>3, <2>4 DEF Sums
<1>5. N \in 0 .. N
  OBVIOUS
<1>6. sum[N] = f[N]
  BY <1>4, <1>5, SumsAgree
<1> QED
  BY <1>1, <1>6

(* Entries with a length. *)
LEMMA TokensOfAll ==
  ASSUME NEW E, \A e \in E : Len(e.token_ids) \in Nat, NEW list \in Seq(E)
  PROVE  \E f \in [0 .. Len(list) -> Nat] :
           /\ Sums(f, [n \in 1 .. Len(list) |-> Len(list[n].token_ids)], Len(list))
           /\ TokensIn(list) = f[Len(list)]
<1> DEFINE w == [n \in 1 .. Len(list) |-> Len(list[n].token_ids)]
<1>1. Len(list) \in Nat /\ \A n \in 1 .. Len(list) : Len(list[n].token_ids) \in Nat
  BY ElementOfSeq
<1>2. w \in [1 .. Len(list) -> Nat]
  BY <1>1
<1> HIDE DEF w
<1>3. PICK f \in [0 .. Len(list) -> Nat] : Sums(f, w, Len(list))
  BY <1>1, <1>2, SumExists
<1> QED
  BY <1>1, <1>3, TokensInSum DEF w

LEMMA TokensInNat ==
  ASSUME NEW E, \A e \in E : Len(e.token_ids) \in Nat, NEW list \in Seq(E)
  PROVE  TokensIn(list) \in Nat
<1>1. PICK f \in [0 .. Len(list) -> Nat] : TokensIn(list) = f[Len(list)]
  BY TokensOfAll
<1>2. Len(list) \in 0 .. Len(list)
  OBVIOUS
<1> QED
  BY <1>1, <1>2

LEMMA TokensInNone == TokensIn(<<>>) = 0
<1> DEFINE f == [n \in 0 .. 0 |-> 0]
           w == [n \in 1 .. 0 |-> Len(<<>>[n].token_ids)]
<1>1. Len(<<>>) = 0 /\ 0 \in Nat /\ 1 .. 0 = {} /\ f \in [0 .. 0 -> Nat] /\ f[0] = 0
  BY EmptySeq
<1>2. Sums(f, w, 0)
  BY <1>1 DEF Sums
<1> QED
  BY <1>1, <1>2, TokensInSum

LEMMA TokensInOne ==
  ASSUME NEW e, Len(e.token_ids) \in Nat
  PROVE  TokensIn(<<e>>) = Len(e.token_ids)
<1> DEFINE list == <<e>>
           f == [n \in 0 .. 1 |-> IF n = 0 THEN 0 ELSE Len(e.token_ids)]
           w == [n \in 1 .. 1 |-> Len(list[n].token_ids)]
<1>1. Len(list) = 1 /\ list[1] = e
  OBVIOUS
<1>2. f \in [0 .. 1 -> Nat] /\ f[0] = 0 /\ f[1] = Len(e.token_ids)
  OBVIOUS
<1>3. w[1] = Len(e.token_ids)
  BY <1>1
<1> HIDE DEF list
<1>4. Sums(f, w, 1)
  <2>1. \A n \in 1 .. 1 : n = 1
    OBVIOUS
  <2> HIDE DEF f, w
  <2> QED
    BY <1>2, <1>3, <2>1 DEF Sums
<1>5. \A n \in 1 .. 1 : Len(list[n].token_ids) \in Nat
  BY <1>1
<1> HIDE DEF f
<1>6. /\ Len(list) \in Nat /\ \A n \in 1 .. Len(list) : Len(list[n].token_ids) \in Nat
      /\ f \in [0 .. Len(list) -> Nat]
      /\ Sums(f, [n \in 1 .. Len(list) |-> Len(list[n].token_ids)], Len(list))
  BY <1>1, <1>2, <1>4, <1>5
<1>7. TokensIn(list) = f[Len(list)]
  BY <1>6, TokensInSum
<1> QED
  BY <1>1, <1>2, <1>7 DEF list

LEMMA TokensInBoth ==
  ASSUME NEW E, \A e \in E : Len(e.token_ids) \in Nat,
         NEW u \in Seq(E), NEW v \in Seq(E)
  PROVE  TokensIn(u \o v) = TokensIn(u) + TokensIn(v)
<1> DEFINE m == Len(u)
           all == u \o v
<1>0. m \in Nat /\ Len(v) \in Nat
  OBVIOUS
<1>1. PICK f \in [0 .. m -> Nat] :
        /\ Sums(f, [n \in 1 .. m |-> Len(u[n].token_ids)], m) /\ TokensIn(u) = f[m]
  BY TokensOfAll
<1>2. PICK g \in [0 .. Len(v) -> Nat] :
        /\ Sums(g, [n \in 1 .. Len(v) |-> Len(v[n].token_ids)], Len(v))
        /\ TokensIn(v) = g[Len(v)]
  BY TokensOfAll
<1>3. /\ f[0] = 0 /\ \A n \in 1 .. m : f[n] = f[n - 1] + Len(u[n].token_ids)
      /\ g[0] = 0 /\ \A n \in 1 .. Len(v) : g[n] = g[n - 1] + Len(v[n].token_ids)
  BY <1>1, <1>2 DEF Sums
<1>4. /\ all \in Seq(E) /\ Len(all) = m + Len(v)
      /\ \A i \in 1 .. m + Len(v) : all[i] = IF i <= m THEN u[i] ELSE v[i - m]
  BY ConcatProperties
<1> HIDE DEF all, m
<1> DEFINE N == m + Len(v)
           h == [n \in 0 .. N |-> IF n <= m THEN f[n] ELSE f[m] + g[n - m]]
           w == [n \in 1 .. N |-> Len(all[n].token_ids)]
<1>5. h \in [0 .. N -> Nat]
  <2>1. \A n \in 0 .. N : n <= m => f[n] \in Nat
    BY <1>0
  <2>2. ASSUME NEW n \in 0 .. N, ~(n <= m) PROVE f[m] + g[n - m] \in Nat
    <3>1. m \in 0 .. m /\ n - m \in 0 .. Len(v)
      BY <1>0, <2>2
    <3>2. f[m] \in Nat /\ g[n - m] \in Nat
      BY <3>1
    <3> QED
      BY <3>2
  <2> QED
    BY <2>1, <2>2
<1>6. h[0] = 0
  BY <1>0, <1>3
<1>7. ASSUME NEW n \in 1 .. N PROVE h[n] = h[n - 1] + Len(all[n].token_ids)
  <2>1. n \in 0 .. N /\ n - 1 \in 0 .. N /\ n \in Int /\ N \in Nat
    BY <1>0
  <2>2. CASE n <= m
    <3>1. n \in 1 .. m /\ n - 1 <= m /\ all[n] = u[n]
      BY <1>0, <1>4, <2>1, <2>2
    <3> QED
      BY <1>3, <2>1, <2>2, <3>1
  <2>3. CASE n = m + 1
    <3>1. n - 1 = m /\ n - m = 1 /\ 1 - 1 = 0 /\ 1 \in 1 .. Len(v) /\ all[n] = v[1] /\ ~(n <= m)
      BY <1>0, <1>4, <2>1, <2>3
    <3>2. g[1] = Len(v[1].token_ids)
      <4>1. g[1] = g[1 - 1] + Len(v[1].token_ids) /\ Len(v[1].token_ids) \in Nat
        BY <1>3, <3>1, ElementOfSeq
      <4> QED
        BY <1>3, <4>1
    <3> QED
      BY <1>0, <2>1, <3>1, <3>2
  <2>4. CASE n > m + 1
    <3>1. /\ ~(n <= m) /\ ~(n - 1 <= m) /\ n - m \in 1 .. Len(v) /\ all[n] = v[n - m]
          /\ (n - m) - 1 = (n - 1) - m
      BY <1>0, <1>4, <2>1, <2>4
    <3>2. g[n - m] = g[(n - 1) - m] + Len(v[n - m].token_ids)
      BY <1>3, <3>1
    <3>3. h[n] = f[m] + g[n - m] /\ h[n - 1] = f[m] + g[(n - 1) - m]
      BY <2>1, <3>1
    <3>4. f[m] \in Nat /\ g[(n - 1) - m] \in Nat /\ Len(v[n - m].token_ids) \in Nat
      <4>1. (n - 1) - m \in 0 .. Len(v) /\ m \in 0 .. m
        BY <1>0, <3>1
      <4>2. f[m] \in Nat /\ g[(n - 1) - m] \in Nat
        BY <4>1
      <4>3. v[n - m] \in E
        BY <3>1, ElementOfSeq
      <4> QED
        BY <4>2, <4>3
    <3> QED
      BY <3>1, <3>2, <3>3, <3>4
  <2> QED
    BY <1>0, <2>1, <2>2, <2>3, <2>4
<1>8. Sums(h, w, N)
  <2>1. \A n \in 1 .. N : w[n] = Len(all[n].token_ids)
    OBVIOUS
  <2> HIDE DEF h, w
  <2> QED
    BY <1>6, <1>7, <2>1 DEF Sums
<1>9. h[N] = f[m] + g[Len(v)]
  <2>1. CASE Len(v) = 0
    <3>1. N \in 0 .. N /\ N = m /\ f[m] \in Nat
      BY <1>0, <2>1
    <3> QED
      BY <1>3, <2>1, <3>1
  <2>2. CASE Len(v) # 0
    BY <1>0, <2>2
  <2> QED
    BY <2>1, <2>2
<1>10. TokensIn(all) = h[N]
  <2>1. Len(all) = N /\ N \in Nat /\ \A n \in 1 .. N : Len(all[n].token_ids) \in Nat
    BY <1>0, <1>4, ElementOfSeq
  <2> HIDE DEF h
  <2> QED
    BY <1>5, <1>8, <2>1, TokensInSum
<1> QED
  BY <1>1, <1>2, <1>9, <1>10 DEF all

-----------------------------------------------------------------------------
(* Types.                                                                   *)

Vocabulary == UNION {Range(p) : p \in Prompts}

Absorbed == Seq(Vocabulary \X Images)

EntryType == [token_ids : Prompts, hidden : Absorbed, state : Nat \ {None}]

RequestType ==
  [pc : {"idle", "lookup", "fork", "prefill", "store", "insert", "decode"},
   prompt : Prompts \cup {<<>>}, image : Images, hidden : Absorbed, hit : Nat,
   source : Nat, own : Nat, spare : Nat, decoded : Seq(Vocabulary)]

LEMMA PromptType ==
  ASSUME NEW p \in Prompts
  PROVE  p \in Seq(Vocabulary) /\ p # <<>> /\ Len(p) \in Nat \ {0} /\ p[1] \in Vocabulary
<1>1. p \in Seq(Vocabulary) /\ p # <<>>
  BY CacheAssumption DEF Vocabulary
<1>2. Len(p) \in Nat \ {0}
  BY <1>1, EmptySeq
<1> QED
  BY <1>1, <1>2, ElementOfSeq

LEMMA EntryLengths == \A e \in EntryType : Len(e.token_ids) \in Nat
BY PromptType DEF EntryType

-----------------------------------------------------------------------------
(* The list of entries.                                                     *)

Distinct(list) ==
  \A i, j \in 1 .. Len(list) : list[i].token_ids = list[j].token_ids => i = j

(* Touching an entry permutes the list. *)
LEMMA TouchPermutes ==
  ASSUME entries \in Seq(EntryType), NEW i \in 1 .. Len(entries)
  PROVE  /\ touch(i) \in Seq(EntryType) /\ Len(touch(i)) = Len(entries)
         /\ \A j \in 1 .. Len(entries) : \E k \in 1 .. Len(entries) : touch(i)[j] = entries[k]
         /\ \A k \in 1 .. Len(entries) : \E j \in 1 .. Len(entries) : touch(i)[j] = entries[k]
         /\ Distinct(entries) => Distinct(touch(i))
         /\ TokensIn(touch(i)) = TokensIn(entries)
<1> DEFINE L == Len(entries)
           back == SubSeq(entries, i, L)
           front == SubSeq(entries, 1, i - 1)
           touched == back \o front
<1>0. L \in Nat /\ i \in Nat /\ i - 1 \in 0 .. L /\ i \in 1 .. L + 1
  OBVIOUS
<1>1. /\ back \in Seq(EntryType) /\ Len(back) = L - i + 1
      /\ \A j \in 1 .. L - i + 1 : back[j] = entries[i + j - 1]
  BY <1>0, BehindOf
<1>2. /\ front \in Seq(EntryType) /\ Len(front) = i - 1
      /\ \A j \in 1 .. i - 1 : front[j] = entries[j]
  BY <1>0, BeginningOf
<1>3. front \o back = entries
  <2>1. SubSeq(entries, 1, i - 1) \o SubSeq(entries, (i - 1) + 1, L) = SubSeq(entries, 1, L)
    <3>1. 1 \in 1 .. Len(entries) + 1 /\ i - 1 \in 1 - 1 .. Len(entries) /\ L \in i - 1 .. Len(entries)
      BY <1>0
    <3> QED
      BY <3>1, ConcatAdjacentSubSeq
  <2>2. (i - 1) + 1 = i
    BY <1>0
  <2>3. SubSeq(entries, 1, L) = entries
    BY SubSeqFull
  <2> QED
    BY <2>1, <2>2, <2>3
<1> HIDE DEF back, front, L
<1>4. /\ touched \in Seq(EntryType) /\ Len(touched) = Len(back) + Len(front)
      /\ \A j \in 1 .. Len(back) + Len(front) :
           touched[j] = IF j <= Len(back) THEN back[j] ELSE front[j - Len(back)]
  BY <1>1, <1>2, ConcatProperties
<1>5. TokensIn(touched) = TokensIn(entries)
  <2>1. /\ TokensIn(touched) = TokensIn(back) + TokensIn(front)
        /\ TokensIn(front \o back) = TokensIn(front) + TokensIn(back)
    BY <1>1, <1>2, EntryLengths, TokensInBoth
  <2>2. TokensIn(front) \in Nat /\ TokensIn(back) \in Nat
    BY <1>1, <1>2, EntryLengths, TokensInNat
  <2> QED
    BY <1>3, <2>1, <2>2
<1> HIDE DEF touched
<1>6. /\ Len(touched) = L
      /\ \A j \in 1 .. L : touched[j] =
           IF j <= L - i + 1 THEN entries[i + j - 1] ELSE entries[j - (L - i + 1)]
  <2>1. Len(touched) = L
    BY <1>0, <1>1, <1>2, <1>4
  <2>2. ASSUME NEW j \in 1 .. L, j <= L - i + 1 PROVE touched[j] = entries[i + j - 1]
    <3>1. j \in 1 .. Len(back) + Len(front) /\ j <= Len(back) /\ j \in 1 .. L - i + 1
      BY <1>0, <1>1, <1>2, <2>2
    <3> QED
      BY <1>1, <1>4, <3>1
  <2>3. ASSUME NEW j \in 1 .. L, ~(j <= L - i + 1)
        PROVE  touched[j] = entries[j - (L - i + 1)]
    <3>1. j - (L - i + 1) \in 1 .. i - 1 /\ j \in 1 .. Len(back) + Len(front)
      BY <1>0, <1>1, <1>2, <2>3
    <3> QED
      BY <1>1, <1>2, <1>4, <2>3, <3>1
  <2> QED
    BY <2>1, <2>2, <2>3
<1>7. ASSUME NEW j \in 1 .. L PROVE \E k \in 1 .. L : touched[j] = entries[k]
  <2>1. CASE j <= L - i + 1
    <3>1. i + j - 1 \in 1 .. L
      BY <1>0, <2>1
    <3> QED
      BY <1>6, <2>1, <3>1
  <2>2. CASE ~(j <= L - i + 1)
    <3>1. j - (L - i + 1) \in 1 .. L
      BY <1>0, <2>2
    <3> QED
      BY <1>6, <2>2, <3>1
  <2> QED
    BY <2>1, <2>2
<1>8. ASSUME NEW k \in 1 .. L PROVE \E j \in 1 .. L : touched[j] = entries[k]
  <2>1. CASE k >= i
    <3>1. k - i + 1 \in 1 .. L /\ k - i + 1 <= L - i + 1 /\ i + (k - i + 1) - 1 = k
      BY <1>0, <2>1
    <3>2. touched[k - i + 1] = entries[k]
      BY <1>6, <3>1
    <3> QED
      BY <3>1, <3>2
  <2>2. CASE ~(k >= i)
    <3>1. /\ k + (L - i + 1) \in 1 .. L /\ ~(k + (L - i + 1) <= L - i + 1)
          /\ (k + (L - i + 1)) - (L - i + 1) = k
      BY <1>0, <2>2
    <3>2. touched[k + (L - i + 1)] = entries[k]
      BY <1>6, <3>1
    <3> QED
      BY <3>1, <3>2
  <2> QED
    BY <2>1, <2>2
<1>9. ASSUME Distinct(entries) PROVE Distinct(touched)
  <2> SUFFICES ASSUME NEW a \in 1 .. L, NEW b \in 1 .. L,
                      touched[a].token_ids = touched[b].token_ids
               PROVE  a = b
    BY <1>6 DEF Distinct
  <2> DEFINE at(j) == IF j <= L - i + 1 THEN i + j - 1 ELSE j - (L - i + 1)
  <2>1. at(a) \in 1 .. L /\ at(b) \in 1 .. L
    BY <1>0
  <2>2. touched[a] = entries[at(a)] /\ touched[b] = entries[at(b)]
    BY <1>6
  <2>3. at(a) = at(b)
    <3> HIDE DEF at
    <3> QED
      BY <1>9, <2>1, <2>2 DEF Distinct, L
  <2> QED
    BY <1>0, <2>3
<1>10. touch(i) = touched
  BY DEF touch, touched, back, front, L
<1> QED
  BY <1>4, <1>5, <1>6, <1>7, <1>8, <1>9, <1>10 DEF L

(* The list without its entry `d`. *)
LEMMA WithoutOne ==
  ASSUME NEW list \in Seq(EntryType), NEW d \in 1 .. Len(list)
  PROVE  /\ RemoveAt(list, d) \in Seq(EntryType) /\ Len(RemoveAt(list, d)) = Len(list) - 1
         /\ \A j \in 1 .. Len(list) - 1 :
              RemoveAt(list, d)[j] = IF j < d THEN list[j] ELSE list[j + 1]
         /\ TokensIn(list) = TokensIn(RemoveAt(list, d)) + Len(list[d].token_ids)
<1> DEFINE L == Len(list)
           front == SubSeq(list, 1, d - 1)
           back == SubSeq(list, d + 1, L)
           tail == SubSeq(list, d, L)
           one == <<list[d]>>
<1>0. /\ L \in Nat /\ d \in Nat /\ d - 1 \in 0 .. L /\ d \in 1 .. L + 1 /\ d + 1 \in 1 .. L + 1
      /\ list[d] \in EntryType
  BY ElementOfSeq
<1>1. /\ front \in Seq(EntryType) /\ Len(front) = d - 1
      /\ \A j \in 1 .. d - 1 : front[j] = list[j]
  BY <1>0, BeginningOf
<1>2. /\ back \in Seq(EntryType) /\ Len(back) = L - d
      /\ \A j \in 1 .. L - d : back[j] = list[d + j]
  <2>1. /\ back \in Seq(EntryType) /\ Len(back) = L - (d + 1) + 1
        /\ \A j \in 1 .. L - (d + 1) + 1 : back[j] = list[(d + 1) + j - 1]
    BY <1>0, BehindOf
  <2> QED
    BY <1>0, <2>1
<1>3. /\ tail \in Seq(EntryType) /\ Len(tail) = L - d + 1
      /\ \A j \in 1 .. L - d + 1 : tail[j] = list[d + j - 1]
  BY <1>0, BehindOf
<1>4. front \o tail = list
  <2>1. SubSeq(list, 1, d - 1) \o SubSeq(list, (d - 1) + 1, L) = SubSeq(list, 1, L)
    <3>1. 1 \in 1 .. Len(list) + 1 /\ d - 1 \in 1 - 1 .. Len(list) /\ L \in d - 1 .. Len(list)
      BY <1>0
    <3> QED
      BY <3>1, ConcatAdjacentSubSeq
  <2>2. (d - 1) + 1 = d
    BY <1>0
  <2>3. SubSeq(list, 1, L) = list
    BY SubSeqFull
  <2> QED
    BY <2>1, <2>2, <2>3
<1>5. one \in Seq(EntryType) /\ Len(one) = 1 /\ one[1] = list[d]
  BY <1>0
<1> HIDE DEF front, back, tail, one, L
<1>6. one \o back = tail
  <2>1. /\ one \o back \in Seq(EntryType) /\ Len(one \o back) = Len(one) + Len(back)
        /\ \A j \in 1 .. Len(one) + Len(back) :
             (one \o back)[j] = IF j <= Len(one) THEN one[j] ELSE back[j - Len(one)]
    BY <1>2, <1>5, ConcatProperties
  <2>2. Len(one \o back) = Len(tail)
    BY <1>0, <1>2, <1>3, <1>5, <2>1
  <2>3. ASSUME NEW j \in 1 .. Len(tail) PROVE (one \o back)[j] = tail[j]
    <3>1. CASE j = 1
      BY <1>0, <1>2, <1>3, <1>5, <2>1, <3>1
    <3>2. CASE j # 1
      <4>1. /\ j - 1 \in 1 .. L - d /\ d + (j - 1) = d + j - 1 /\ ~(j <= 1)
            /\ j \in 1 .. L - d + 1 /\ j \in 1 .. Len(one) + Len(back)
        BY <1>0, <1>2, <1>3, <1>5, <3>2
      <4>2. (one \o back)[j] = back[j - 1]
        BY <1>5, <2>1, <4>1
      <4> QED
        BY <1>2, <1>3, <4>1, <4>2
    <3> QED
      BY <3>1, <3>2
  <2> QED
    BY <1>3, <2>1, <2>2, <2>3, SeqEqual
<1>7. /\ front \o back \in Seq(EntryType) /\ Len(front \o back) = Len(front) + Len(back)
      /\ \A j \in 1 .. Len(front) + Len(back) :
           (front \o back)[j] = IF j <= Len(front) THEN front[j] ELSE back[j - Len(front)]
  BY <1>1, <1>2, ConcatProperties
<1>8. Len(front \o back) = L - 1
  BY <1>0, <1>1, <1>2, <1>7
<1>9. ASSUME NEW j \in 1 .. L - 1
      PROVE  (front \o back)[j] = IF j < d THEN list[j] ELSE list[j + 1]
  <2>1. j \in 1 .. Len(front) + Len(back)
    BY <1>0, <1>1, <1>2
  <2>2. CASE j < d
    BY <1>0, <1>1, <1>7, <2>1, <2>2
  <2>3. CASE ~(j < d)
    <3>1. j - (d - 1) \in 1 .. L - d /\ d + (j - (d - 1)) = j + 1 /\ ~(j <= d - 1)
      BY <1>0, <2>3
    <3> QED
      BY <1>1, <1>2, <1>7, <2>1, <2>3, <3>1
  <2> QED
    BY <2>2, <2>3
<1>10. TokensIn(list) = TokensIn(front \o back) + Len(list[d].token_ids)
  <2>1. /\ TokensIn(front \o tail) = TokensIn(front) + TokensIn(tail)
        /\ TokensIn(one \o back) = TokensIn(one) + TokensIn(back)
        /\ TokensIn(front \o back) = TokensIn(front) + TokensIn(back)
    BY <1>1, <1>2, <1>3, <1>5, EntryLengths, TokensInBoth
  <2>2. TokensIn(front) \in Nat /\ TokensIn(back) \in Nat
    BY <1>1, <1>2, EntryLengths, TokensInNat
  <2>3. TokensIn(one) = Len(list[d].token_ids) /\ Len(list[d].token_ids) \in Nat
    BY <1>0, EntryLengths, TokensInOne DEF one
  <2> QED
    BY <1>4, <1>6, <2>1, <2>2, <2>3
<1>11. RemoveAt(list, d) = front \o back
  BY DEF RemoveAt, front, back, L
<1> QED
  BY <1>7, <1>8, <1>9, <1>10, <1>11 DEF L

(* The cache after an insertion: within its limits, with the new entry      *)
(* first, behind it entries that were there, and no other one of its prompt.*)
LEMMA InsertKeepsLimits ==
  ASSUME entries \in Seq(EntryType), WithinLimits, NEW entry \in EntryType,
         can_store(Len(entry.token_ids)), insert(entry)
  PROVE  /\ entries' \in Seq(EntryType) /\ total_tokens' \in Nat
         /\ WithinLimits'
         /\ 1 \in 1 .. Len(entries') /\ entries'[1] = entry
         /\ \A j \in 1 .. Len(entries') :
              entries'[j] = entry \/ \E k \in 1 .. Len(entries) : entries'[j] = entries[k]
<1> DEFINE count == Len(entry.token_ids)
           same  == {i \in DOMAIN entries : entries[i].token_ids = entry.token_ids}
           rest  == IF same = {} THEN entries ELSE RemoveAt(entries, Min(same))
           total == IF same = {} THEN total_tokens ELSE Less(total_tokens, count)
           After(k) == Less(total, TokensIn(SubSeq(rest, k + 1, Len(rest))))
           fits  == {k \in 0 .. Len(rest) : k < max_entries /\ After(k) + count <= max_tokens}
           keep  == Max({0} \cup fits)
           kept  == SubSeq(rest, 1, keep)
<1>0. /\ count \in Nat /\ min_tokens <= count /\ count <= max_tokens /\ 0 < max_entries
      /\ max_entries \in Nat /\ max_tokens \in Nat /\ min_tokens \in Nat
  BY EntryLengths, CacheAssumption DEF can_store
<1>1. /\ Len(entries) <= max_entries /\ total_tokens = TokensIn(entries)
      /\ total_tokens <= max_tokens /\ total_tokens \in Nat
      /\ \A i \in 1 .. Len(entries) : Len(entries[i].token_ids) >= min_tokens
      /\ \A i, j \in 1 .. Len(entries) : entries[i].token_ids = entries[j].token_ids => i = j
      /\ DOMAIN entries = 1 .. Len(entries) /\ Len(entries) \in Nat
  <2>1. DOMAIN entries = 1 .. Len(entries) /\ Len(entries) \in Nat
    BY LenProperties
  <2>2. TokensIn(entries) \in Nat
    BY EntryLengths, TokensInNat
  <2> QED
    BY <2>1, <2>2 DEF WithinLimits
<1>2. /\ entries' = <<entry>> \o kept
      /\ total_tokens' = After(keep) + count
  BY DEF insert
<1>3. /\ rest \in Seq(EntryType) /\ TokensIn(rest) = total
      /\ \A j \in 1 .. Len(rest) :
           /\ rest[j].token_ids # entry.token_ids
           /\ \E k \in 1 .. Len(entries) : rest[j] = entries[k]
      /\ Distinct(rest)
  <2>1. CASE same = {}
    BY <1>1, <2>1 DEF Distinct
  <2>2. CASE same # {}
    <3> DEFINE d == Min(same)
    <3>1. d \in 1 .. Len(entries) /\ entries[d].token_ids = entry.token_ids
      <4>1. same \in SUBSET Nat
        BY <1>1
      <4>2. d \in same
        BY <2>2, <4>1, MinOfNaturals
      <4> QED
        BY <1>1, <4>2
    <3>2. rest = RemoveAt(entries, d) /\ total = Less(total_tokens, count)
      BY <2>2
    <3> HIDE DEF d, rest, total, same
    <3>3. /\ rest \in Seq(EntryType) /\ Len(rest) = Len(entries) - 1
          /\ \A j \in 1 .. Len(entries) - 1 :
               rest[j] = IF j < d THEN entries[j] ELSE entries[j + 1]
          /\ TokensIn(entries) = TokensIn(rest) + Len(entries[d].token_ids)
      BY <3>1, <3>2, WithoutOne
    <3>4. TokensIn(rest) \in Nat
      BY <3>3, EntryLengths, TokensInNat
    <3>5. TokensIn(rest) = total
      <4>1. total_tokens = TokensIn(rest) + count
        BY <1>1, <3>1, <3>3
      <4> HIDE DEF count
      <4> QED
        BY <1>0, <3>2, <3>4, <4>1 DEF Less
    <3> DEFINE at(j) == IF j < d THEN j ELSE j + 1
    <3>6. ASSUME NEW j \in 1 .. Len(rest)
          PROVE  at(j) \in 1 .. Len(entries) /\ at(j) # d /\ rest[j] = entries[at(j)]
      <4>1. j \in 1 .. Len(entries) - 1
        BY <3>3
      <4> QED
        BY <1>1, <3>1, <3>3, <4>1
    <3>7. \A j \in 1 .. Len(rest) :
           /\ rest[j].token_ids # entry.token_ids
           /\ \E k \in 1 .. Len(entries) : rest[j] = entries[k]
      <4> HIDE DEF at
      <4> QED
        BY <1>1, <3>1, <3>6
    <3>8. Distinct(rest)
      <4> SUFFICES ASSUME NEW a \in 1 .. Len(rest), NEW b \in 1 .. Len(rest),
                          rest[a].token_ids = rest[b].token_ids
                   PROVE  a = b
        BY DEF Distinct
      <4>1. at(a) = at(b)
        <5> HIDE DEF at
        <5> QED
          BY <1>1, <3>6
      <4> QED
        BY <3>1, <4>1
    <3> QED
      BY <3>3, <3>5, <3>7, <3>8
  <2> QED
    BY <2>1, <2>2
<1>4. Len(rest) \in Nat /\ total \in Nat /\ total <= max_tokens
  <2>1. TokensIn(rest) \in Nat
    BY <1>3, EntryLengths, TokensInNat
  <2>2. total <= total_tokens
    BY <1>0, <1>1 DEF Less
  <2> HIDE DEF rest, total
  <2> QED
    BY <1>0, <1>1, <1>3, <2>1, <2>2
<1> HIDE DEF rest, total, same, count
<1>5. ASSUME NEW k \in 0 .. Len(rest)
      PROVE  /\ SubSeq(rest, 1, k) \in Seq(EntryType) /\ Len(SubSeq(rest, 1, k)) = k
             /\ \A i \in 1 .. k : SubSeq(rest, 1, k)[i] = rest[i]
             /\ After(k) = TokensIn(SubSeq(rest, 1, k)) /\ After(k) \in Nat
  <2> DEFINE front == SubSeq(rest, 1, k)
             back == SubSeq(rest, k + 1, Len(rest))
  <2>1. /\ front \in Seq(EntryType) /\ Len(front) = k /\ \A i \in 1 .. k : front[i] = rest[i]
    BY <1>3, BeginningOf
  <2>2. back \in Seq(EntryType)
    <3>1. k + 1 \in 1 .. Len(rest) + 1
      BY <1>4
    <3> QED
      BY <1>3, <3>1, BehindOf
  <2>3. front \o back = rest
    <3>1. 1 \in 1 .. Len(rest) + 1 /\ k \in 1 - 1 .. Len(rest) /\ Len(rest) \in k .. Len(rest)
      BY <1>4
    <3>2. front \o back = SubSeq(rest, 1, Len(rest))
      BY <1>3, <3>1, ConcatAdjacentSubSeq
    <3>3. SubSeq(rest, 1, Len(rest)) = rest
      BY <1>3, SubSeqFull
    <3> QED
      BY <3>2, <3>3
  <2> HIDE DEF front, back
  <2>4. TokensIn(front \o back) = TokensIn(front) + TokensIn(back)
    BY <2>1, <2>2, EntryLengths, TokensInBoth
  <2>5. TokensIn(front) \in Nat /\ TokensIn(back) \in Nat
    BY <2>1, <2>2, EntryLengths, TokensInNat
  <2>6. Less(total, TokensIn(back)) = TokensIn(front)
    BY <1>3, <2>3, <2>4, <2>5 DEF Less
  <2> QED
    BY <2>1, <2>5, <2>6 DEF front, back
<1>6. After(0) = 0
  <2>1. SubSeq(rest, 1, 0) = <<>> /\ 0 \in 0 .. Len(rest)
    BY <1>4, SubSeqEmpty
  <2> HIDE DEF After
  <2> QED
    BY <1>5, <2>1, TokensInNone
<1> HIDE DEF After
<1>7. /\ keep \in 0 .. Len(rest) /\ keep < max_entries /\ After(keep) + count <= max_tokens
  <2>1. 0 \in fits
    BY <1>0, <1>4, <1>6 DEF count
  <2>2. /\ {0} \cup fits = fits /\ fits \in SUBSET Nat /\ fits # {}
        /\ \A k \in fits : k <= Len(rest)
    BY <1>4, <2>1
  <2>3. Max(fits) \in fits
    <3> HIDE DEF fits
    <3> QED
      BY <1>4, <2>2, MaxOfNaturals
  <2> QED
    BY <2>2, <2>3
<1> HIDE DEF keep
<1>8. /\ kept \in Seq(EntryType) /\ Len(kept) = keep /\ \A i \in 1 .. keep : kept[i] = rest[i]
      /\ After(keep) = TokensIn(kept) /\ After(keep) \in Nat
  BY <1>5, <1>7
<1> HIDE DEF kept
<1>9. <<entry>> \in Seq(EntryType) /\ Len(<<entry>>) = 1 /\ <<entry>>[1] = entry
  OBVIOUS
<1>10. /\ entries' \in Seq(EntryType) /\ Len(entries') = keep + 1
       /\ entries'[1] = entry /\ \A j \in 2 .. keep + 1 : entries'[j] = rest[j - 1]
  <2> DEFINE one == <<entry>>
  <2>1. one \in Seq(EntryType) /\ Len(one) = 1 /\ one[1] = entry
    BY <1>9
  <2>2. entries' = one \o kept
    BY <1>2
  <2> HIDE DEF one
  <2>3. /\ one \o kept \in Seq(EntryType) /\ Len(one \o kept) = Len(one) + Len(kept)
        /\ \A j \in 1 .. Len(one) + Len(kept) :
             (one \o kept)[j] = IF j <= Len(one) THEN one[j] ELSE kept[j - Len(one)]
    BY <1>8, <2>1, ConcatProperties
  <2>4. Len(entries') = keep + 1
    BY <1>7, <1>8, <2>1, <2>2, <2>3
  <2>5. entries'[1] = entry
    BY <1>7, <1>8, <2>1, <2>2, <2>3
  <2>6. ASSUME NEW j \in 2 .. keep + 1 PROVE entries'[j] = rest[j - 1]
    <3>1. j \in 1 .. Len(one) + Len(kept) /\ ~(j <= Len(one)) /\ j - 1 \in 1 .. keep
      BY <1>7, <1>8, <2>1
    <3> QED
      BY <1>8, <2>1, <2>2, <2>3, <3>1
  <2> QED
    BY <2>2, <2>3, <2>4, <2>5, <2>6
<1>11. TokensIn(entries') = total_tokens'
  <2>1. TokensIn(<<entry>> \o kept) = TokensIn(<<entry>>) + TokensIn(kept)
    BY <1>8, <1>9, EntryLengths, TokensInBoth
  <2>2. TokensIn(<<entry>>) = count
    BY EntryLengths, TokensInOne DEF count
  <2> QED
    BY <1>0, <1>2, <1>8, <2>1, <2>2
<1>12. ASSUME NEW j \in 1 .. Len(entries')
       PROVE  entries'[j] = entry \/ \E k \in 1 .. Len(rest) : j = k + 1 /\ entries'[j] = rest[k]
  <2>1. CASE j = 1
    BY <1>10, <2>1
  <2>2. CASE j # 1
    <3>1. j \in 2 .. keep + 1 /\ j - 1 \in 1 .. Len(rest) /\ j = (j - 1) + 1
      BY <1>4, <1>7, <1>10, <2>2
    <3> QED
      BY <1>10, <3>1
  <2> QED
    BY <2>1, <2>2
<1>13. ASSUME NEW j \in 1 .. Len(entries'), j # 1
       PROVE  \E k \in 1 .. Len(rest) : j = k + 1 /\ entries'[j] = rest[k]
  <2>1. j \in 2 .. keep + 1 /\ j - 1 \in 1 .. Len(rest) /\ j = (j - 1) + 1
    BY <1>4, <1>7, <1>10, <1>13
  <2> QED
    BY <1>10, <2>1
<1>14. Distinct(entries')
  <2> SUFFICES ASSUME NEW a \in 1 .. Len(entries'), NEW b \in 1 .. Len(entries'),
                      entries'[a].token_ids = entries'[b].token_ids
               PROVE  a = b
    BY DEF Distinct
  <2>1. CASE a # 1 /\ b # 1
    <3>1. PICK k \in 1 .. Len(rest) : a = k + 1 /\ entries'[a] = rest[k]
      BY <1>13, <2>1
    <3>2. PICK m \in 1 .. Len(rest) : b = m + 1 /\ entries'[b] = rest[m]
      BY <1>13, <2>1
    <3> QED
      BY <1>3, <3>1, <3>2 DEF Distinct
  <2>2. CASE a = 1 /\ b # 1
    BY <1>3, <1>10, <1>13, <2>2
  <2>3. CASE a # 1 /\ b = 1
    BY <1>3, <1>10, <1>13, <2>3
  <2> QED
    BY <2>1, <2>2, <2>3
<1>15. ASSUME NEW j \in 1 .. Len(entries') PROVE Len(entries'[j].token_ids) >= min_tokens
  <2>1. CASE entries'[j] = entry
    BY <1>0, <2>1 DEF count
  <2>2. CASE entries'[j] # entry
    <3>1. PICK k \in 1 .. Len(rest) : entries'[j] = rest[k]
      BY <1>12, <2>2
    <3> QED
      BY <1>1, <1>3, <3>1
  <2> QED
    BY <2>1, <2>2
<1>16. WithinLimits'
  <2>1. DOMAIN entries' = 1 .. Len(entries')
    BY <1>10, LenProperties
  <2>2. Len(entries') <= max_entries
    BY <1>0, <1>4, <1>7, <1>10
  <2>3. total_tokens' <= max_tokens
    BY <1>2, <1>7
  <2> QED
    BY <1>11, <1>14, <1>15, <2>1, <2>2, <2>3 DEF WithinLimits, Distinct
<1>17. total_tokens' \in Nat /\ 1 \in 1 .. Len(entries')
  BY <1>0, <1>2, <1>4, <1>7, <1>8, <1>10
<1> QED
  BY <1>3, <1>10, <1>12, <1>16, <1>17

-----------------------------------------------------------------------------
(* Rows.                                                                    *)

LEMMA RowsType ==
  ASSUME NEW tokens \in Seq(Vocabulary), NEW image \in Images
  PROVE  /\ Rows(tokens, image) \in Absorbed /\ Len(Rows(tokens, image)) = Len(tokens)
         /\ \A i \in 1 .. Len(tokens) : Rows(tokens, image)[i] = <<tokens[i], image>>
<1> DEFINE rows == [i \in 1 .. Len(tokens) |-> <<tokens[i], image>>]
<1>1. Len(tokens) \in Nat /\ \A i \in 1 .. Len(tokens) : tokens[i] \in Vocabulary
  BY ElementOfSeq
<1>2. Rows(tokens, image) = rows
  BY DEF Rows
<1>3. rows \in [1 .. Len(tokens) -> Vocabulary \X Images]
  BY <1>1
<1>4. rows \in Seq(Vocabulary \X Images) /\ Len(rows) = Len(tokens)
  BY <1>1, <1>3
<1> QED
  BY <1>2, <1>4 DEF Absorbed

LEMMA RowsOfNone == \A image : Rows(<<>>, image) = <<>>
BY DEF Rows

(* The rows of a beginning are the beginning of the rows. *)
LEMMA RowsSplit ==
  ASSUME NEW tokens \in Seq(Vocabulary), NEW image \in Images, NEW n \in 0 .. Len(tokens)
  PROVE  Rows(SubSeq(tokens, 1, n), image)
           \o SubSeq(Rows(tokens, image), n + 1, Len(Rows(tokens, image)))
         = Rows(tokens, image)
<1> DEFINE rows == Rows(tokens, image)
           start == SubSeq(tokens, 1, n)
<1>1. /\ rows \in Absorbed /\ Len(rows) = Len(tokens)
      /\ \A i \in 1 .. Len(tokens) : rows[i] = <<tokens[i], image>>
  BY RowsType
<1>2. /\ start \in Seq(Vocabulary) /\ Len(start) = n
      /\ \A i \in 1 .. n : start[i] = tokens[i]
  BY BeginningOf
<1> HIDE DEF rows, start
<1>3. /\ Rows(start, image) \in Absorbed /\ Len(Rows(start, image)) = n
      /\ \A i \in 1 .. n : Rows(start, image)[i] = <<start[i], image>>
  BY <1>2, RowsType
<1>4. /\ SubSeq(rows, 1, n) \in Absorbed /\ Len(SubSeq(rows, 1, n)) = n
      /\ \A i \in 1 .. n : SubSeq(rows, 1, n)[i] = rows[i]
  <2>1. n \in 0 .. Len(rows)
    BY <1>1
  <2> QED
    BY <1>1, <2>1, BeginningOf DEF Absorbed
<1>5. Rows(start, image) = SubSeq(rows, 1, n)
  <2>1. ASSUME NEW i \in 1 .. n PROVE Rows(start, image)[i] = SubSeq(rows, 1, n)[i]
    <3>1. i \in 1 .. Len(tokens)
      BY LenProperties
    <3>2. rows[i] = <<tokens[i], image>> /\ start[i] = tokens[i]
      BY <1>1, <1>2, <3>1
    <3> QED
      BY <1>3, <1>4, <3>2
  <2> QED
    BY <1>3, <1>4, <2>1, SeqEqual DEF Absorbed
<1>6. SubSeq(rows, 1, n) \o SubSeq(rows, n + 1, Len(rows)) = rows
  <2>1. 1 \in 1 .. Len(rows) + 1 /\ n \in 1 - 1 .. Len(rows) /\ Len(rows) \in n .. Len(rows)
    BY <1>1
  <2>2. SubSeq(rows, 1, n) \o SubSeq(rows, n + 1, Len(rows)) = SubSeq(rows, 1, Len(rows))
    BY <1>1, <2>1, ConcatAdjacentSubSeq DEF Absorbed
  <2> QED
    BY <1>1, <2>2, SubSeqFull DEF Absorbed
<1> QED
  BY <1>5, <1>6 DEF rows, start

(* One more token is one more row. *)
LEMMA RowsAppend ==
  ASSUME NEW tokens \in Seq(Vocabulary), NEW token \in Vocabulary, NEW image \in Images
  PROVE  Rows(Append(tokens, token), image) = Append(Rows(tokens, image), <<token, image>>)
<1> DEFINE longer == Append(tokens, token)
           rows == Rows(tokens, image)
           row == <<token, image>>
           n == Len(tokens)
<1>1. /\ longer \in Seq(Vocabulary) /\ Len(longer) = n + 1 /\ n \in Nat
      /\ \A i \in 1 .. n : longer[i] = tokens[i]
      /\ longer[n + 1] = token
  BY AppendProperties
<1>2. /\ rows \in Seq(Vocabulary \X Images) /\ Len(rows) = n
      /\ \A i \in 1 .. n : rows[i] = <<tokens[i], image>>
  BY RowsType DEF Absorbed
<1>3. row \in Vocabulary \X Images
  OBVIOUS
<1> HIDE DEF longer, rows, row, n
<1>4. /\ Rows(longer, image) \in Seq(Vocabulary \X Images) /\ Len(Rows(longer, image)) = n + 1
      /\ \A i \in 1 .. n + 1 : Rows(longer, image)[i] = <<longer[i], image>>
  BY <1>1, RowsType DEF Absorbed
<1>5. /\ Append(rows, row) \in Seq(Vocabulary \X Images) /\ Len(Append(rows, row)) = n + 1
      /\ \A i \in 1 .. n : Append(rows, row)[i] = rows[i]
      /\ Append(rows, row)[n + 1] = row
  BY <1>2, <1>3, AppendProperties
<1>6. \A i \in 1 .. n + 1 : Rows(longer, image)[i] = Append(rows, row)[i]
  <2>1. \A i \in 1 .. n + 1 : i \in 1 .. n \/ i = n + 1
    BY <1>1
  <2>2. n + 1 \in 1 .. n + 1
    BY <1>1
  <2> QED
    BY <1>1, <1>2, <1>4, <1>5, <2>1, <2>2 DEF row
<1>7. Rows(longer, image) = Append(rows, row)
  BY <1>4, <1>5, <1>6, SeqEqual
<1> QED
  BY <1>7 DEF longer, rows, row

-----------------------------------------------------------------------------
(* The inductive invariant.                                                 *)

(* What a request holds at each place, and where its prompt comes from. *)
Shape(q) ==
  /\ q.source # None <=> q.pc = "fork"
  /\ q.spare # None <=> q.pc = "insert"
  /\ q.own # None <=> q.pc \notin {"idle", "lookup", "fork"}
  /\ q.pc # "idle" => q.prompt \in Prompts
  /\ q.pc # "decode" => q.decoded = <<>>

Types ==
  /\ entries \in Seq(EntryType)
  /\ total_tokens \in Nat
  /\ request \in [Requests -> RequestType]
  /\ \A r \in Requests : Shape(request[r])
  /\ IsFiniteSet(DOMAIN heap)
  /\ heap \in [Held \ {None} -> Absorbed]

Private(q) == {q.own, q.spare} \ {None}

(* A state that a request writes to has no other holder. *)
Unshared ==
  \A r \in Requests :
    /\ request[r].own # request[r].spare \/ request[r].own = None
    /\ \A id \in Private(request[r]) :
         /\ \A i \in 1 .. Len(entries) : entries[i].state # id
         /\ \A q \in Requests : request[q].source # id
         /\ \A q \in Requests \ {r} : id \notin Private(request[q])

AllRows(q) == Rows(q.prompt, q.image)

FirstRows(q) == Rows(SubSeq(q.prompt, 1, q.hit), q.image)

(* How far request `q` has come, on the heap `h`. *)
Reached(q, h) ==
  /\ q.pc = "lookup" => q.hit = 0
  /\ q.pc = "fork" => /\ q.image = NoImage /\ q.hit \in 1 .. Len(q.prompt)
                      /\ h[q.source] = FirstRows(q) /\ q.hidden = FirstRows(q)
  /\ q.pc = "prefill" => q.hit \in 0 .. Len(q.prompt) /\ h[q.own] = FirstRows(q)
  /\ q.pc \in {"store", "insert"} =>
       q.image = NoImage /\ h[q.own] = AllRows(q) /\ q.hidden = AllRows(q)
  /\ q.pc = "insert" => h[q.spare] = AllRows(q) /\ can_store(Len(q.prompt))
  /\ q.pc = "decode" => /\ h[q.own] = AllRows(q) \o Rows(q.decoded, NoImage)
                        /\ q.hidden = AllRows(q)

IInv ==
  /\ Types
  /\ Unshared
  /\ \A r \in Requests : Reached(request[r], heap)
  /\ WithinLimits
  /\ CachedStateIntact

-----------------------------------------------------------------------------
(* The heap.                                                                *)

LEMMA Holders ==
  ASSUME NEW id
  PROVE  /\ id \in Held <=>
              \/ \E i \in DOMAIN entries : entries[i].state = id
              \/ \E q \in Requests : id \in {request[q].source, request[q].own, request[q].spare}
         /\ id \in Held' <=>
              \/ \E i \in DOMAIN entries' : entries'[i].state = id
              \/ \E q \in Requests :
                   id \in {request'[q].source, request'[q].own, request'[q].spare}
BY DEF Held

LEMMA FreshIsFree ==
  ASSUME Types
  PROVE  Fresh \in Nat \ {None} /\ Fresh \notin DOMAIN heap
<1> DEFINE n == Cardinality(DOMAIN heap)
<1>1. IsFiniteSet(DOMAIN heap) /\ n \in Nat
  BY FS_CardinalityType DEF Types
<1>2. \E id \in 1 .. n + 1 : id \notin DOMAIN heap
  <2> SUFFICES ASSUME 1 .. n + 1 \subseteq DOMAIN heap PROVE FALSE
    OBVIOUS
  <2>1. Cardinality(1 .. n + 1) <= n
    BY <1>1, FS_Subset
  <2>2. 1 \in Int /\ n + 1 \in Int /\ ~(1 > n + 1)
    BY <1>1
  <2>3. Cardinality(1 .. n + 1) = (n + 1) - 1 + 1
    BY <2>2, FS_Interval
  <2> QED
    BY <1>1, <2>1, <2>3
<1>3. Fresh \in 1 .. n + 1 /\ Fresh \notin DOMAIN heap
  BY <1>2 DEF Fresh
<1> QED
  BY <1>1, <1>3 DEF None

(* What a request says of the heap it says of every heap that agrees on *)
(* the states it holds.                                                 *)
LEMMA ReachedAgrees ==
  ASSUME NEW q, NEW h, NEW g, Shape(q), Reached(q, h),
         \A id \in {q.source, q.own, q.spare} \ {None} : h[id] = g[id]
  PROVE  Reached(q, g)
<1>1. /\ q.pc = "fork" => h[q.source] = g[q.source]
      /\ q.pc \in {"prefill", "store", "insert", "decode"} => h[q.own] = g[q.own]
      /\ q.pc = "insert" => h[q.spare] = g[q.spare]
  BY DEF Shape
<1> QED
  BY <1>1 DEF Reached

-----------------------------------------------------------------------------
(* One step of request `r`, which becomes `new` and gives the state         *)
(* `changed`, its own or a fresh one, the content `content`.                *)

Writes(r, new, changed, content) ==
  /\ changed \in Nat \ {None} /\ content \in Absorbed
  /\ changed = request[r].own \/ changed \notin DOMAIN heap
  /\ new \in RequestType /\ Shape(new) /\ Reached(new, With(changed, content))
  /\ \/ new.source \in {None, request[r].source}
     \/ \E i \in 1 .. Len(entries) : new.source = entries[i].state
  /\ \/ new.own \in {None, request[r].own}
     \/ new.own = changed /\ changed \notin DOMAIN heap
  /\ \/ new.spare \in {None, request[r].spare}
     \/ new.spare = changed /\ changed \notin DOMAIN heap /\ new.own # changed

Intact(e) ==
  /\ heap[e.state] = Rows(e.token_ids, NoImage)
  /\ e.hidden = Rows(e.token_ids, NoImage)

(* The list holds what it held, and perhaps the copy that `r` has made. *)
Lists(r, new) ==
  /\ entries' \in Seq(EntryType) /\ total_tokens' \in Nat /\ WithinLimits'
  /\ \A j \in 1 .. Len(entries') :
       \/ \E k \in 1 .. Len(entries) : entries'[j] = entries[k]
       \/ /\ new.spare = None /\ entries'[j].state = request[r].spare
          /\ Intact(entries'[j])

LEMMA KeepsInvariant ==
  ASSUME IInv, NEW r \in Requests, NEW new, NEW changed, NEW content,
         Writes(r, new, changed, content), Lists(r, new),
         Becomes(r, new), HeapFrom(With(changed, content))
  PROVE  IInv'
<1> DEFINE old == request[r]
           N == With(changed, content)
<1>1. /\ entries \in Seq(EntryType) /\ DOMAIN entries = 1 .. Len(entries)
      /\ entries' \in Seq(EntryType) /\ DOMAIN entries' = 1 .. Len(entries')
      /\ \A i \in 1 .. Len(entries) : entries[i] \in EntryType
      /\ \A i \in 1 .. Len(entries') : entries'[i] \in EntryType
  <2>1. entries \in Seq(EntryType) /\ entries' \in Seq(EntryType)
    BY DEF IInv, Types, Lists
  <2> QED
    BY <2>1, LenProperties, ElementOfSeq
<1>2. /\ request' \in [Requests -> RequestType] /\ request'[r] = new
      /\ \A q \in Requests \ {r} : request'[q] = request[q]
      /\ \A q \in Requests : request[q] \in RequestType /\ Shape(request[q])
  BY DEF IInv, Types, Becomes, Writes
<1>3. /\ heap \in [Held \ {None} -> Absorbed] /\ DOMAIN heap = Held \ {None}
      /\ IsFiniteSet(DOMAIN heap)
  BY DEF IInv, Types
<1>4. /\ \A i \in 1 .. Len(entries) : entries[i].state \in DOMAIN heap /\ entries[i].state # None
      /\ \A q \in Requests :
           \A id \in {request[q].source, request[q].own, request[q].spare} \ {None} :
             id \in DOMAIN heap
  <2>1. \A i \in 1 .. Len(entries) : entries[i].state \in Held
    BY <1>1, Holders
  <2>2. \A i \in 1 .. Len(entries) : entries[i].state # None
    BY <1>1 DEF EntryType
  <2>3. \A q \in Requests :
          \A id \in {request[q].source, request[q].own, request[q].spare} : id \in Held
    BY Holders
  <2> QED
    BY <1>3, <2>1, <2>2, <2>3
<1>5. ASSUME NEW j \in 1 .. Len(entries')
      PROVE  \/ \E k \in 1 .. Len(entries) : entries'[j] = entries[k]
             \/ /\ new.spare = None /\ entries'[j].state = old.spare /\ old.spare # None
                /\ Intact(entries'[j])
  <2>1. entries'[j].state # None
    BY <1>1 DEF EntryType
  <2> QED
    BY <2>1 DEF Lists
<1>6. ASSUME NEW j \in 1 .. Len(entries')
      PROVE  entries'[j].state \in DOMAIN heap \ {changed}
  <2>1. CASE \E k \in 1 .. Len(entries) : entries'[j] = entries[k]
    <3>1. PICK k \in 1 .. Len(entries) : entries'[j] = entries[k]
      BY <2>1
    <3>2. entries[k].state \in DOMAIN heap /\ entries[k].state # None
      BY <1>4
    <3>3. changed = old.own => old.own \in Private(old)
      BY DEF Writes, Private
    <3>4. old.own \in Private(old) => entries[k].state # old.own
      BY DEF IInv, Unshared
    <3> QED
      BY <3>1, <3>2, <3>3, <3>4 DEF Writes
  <2>2. CASE entries'[j].state = old.spare /\ old.spare # None
    <3>1. old.spare \in DOMAIN heap
      BY <1>4, <2>2
    <3>2. old.own # old.spare
      BY <2>2 DEF IInv, Unshared
    <3> QED
      BY <2>2, <3>1, <3>2 DEF Writes
  <2> QED
    BY <1>5, <2>1, <2>2
<1>7. ASSUME NEW q \in Requests \ {r}
      PROVE  \A id \in {request[q].source, request[q].own, request[q].spare} \ {None} :
               id \in DOMAIN heap \ {changed}
  <2> SUFFICES ASSUME NEW id \in {request[q].source, request[q].own, request[q].spare} \ {None}
               PROVE  id \in DOMAIN heap /\ id # changed
    OBVIOUS
  <2>1. id \in DOMAIN heap
    BY <1>4
  <2>2. CASE changed \notin DOMAIN heap
    BY <2>1, <2>2
  <2>3. CASE changed = old.own
    <3>1. old.own # None
      BY <2>3 DEF Writes
    <3>2. old.own \in Private(old)
      BY <3>1 DEF Private
    <3>3. request[q].source # old.own /\ old.own \notin Private(request[q])
      BY <3>2 DEF IInv, Unshared
    <3> QED
      BY <2>1, <2>3, <3>3 DEF Private
  <2> QED
    BY <2>2, <2>3 DEF Writes
<1>8. ASSUME NEW id \in {new.source, new.own, new.spare} \ {None}
      PROVE  id \in DOMAIN heap \cup {changed}
  <2>1. \A s \in {old.source, old.own, old.spare} \ {None} : s \in DOMAIN heap
    BY <1>4
  <2>2. CASE id = new.source
    BY <1>4, <2>1, <2>2 DEF Writes
  <2>3. CASE id = new.own
    BY <2>1, <2>3 DEF Writes
  <2>4. CASE id = new.spare
    BY <2>1, <2>4 DEF Writes
  <2> QED
    BY <2>2, <2>3, <2>4
<1>9. Held' \ {None} \subseteq DOMAIN heap \cup {changed}
  <2> SUFFICES ASSUME NEW id \in Held' \ {None} PROVE id \in DOMAIN heap \cup {changed}
    OBVIOUS
  <2>1. CASE \E j \in DOMAIN entries' : entries'[j].state = id
    BY <1>1, <1>6, <2>1
  <2>2. CASE \E q \in Requests : id \in {request'[q].source, request'[q].own, request'[q].spare}
    <3>1. PICK q \in Requests : id \in {request'[q].source, request'[q].own, request'[q].spare}
      BY <2>2
    <3> QED
      BY <1>2, <1>7, <1>8, <3>1
  <2> QED
    BY <2>1, <2>2, Holders
<1>10. /\ DOMAIN heap' = Held' \ {None}
       /\ \A id \in Held' \ {None} : heap'[id] = N[id]
       /\ \A id \in DOMAIN heap \cup {changed} :
            N[id] \in Absorbed /\ N[id] = IF id = changed THEN content ELSE heap[id]
  <2>1. \A id \in DOMAIN heap : heap[id] \in Absorbed
    BY <1>3
  <2>2. content \in Absorbed
    BY DEF Writes
  <2>3. \A id \in DOMAIN heap \cup {changed} :
            N[id] = IF id = changed THEN content ELSE heap[id]
    BY DEF With
  <2> HIDE DEF N
  <2>4. heap' = [id \in Held' \ {None} |-> N[id]]
    BY DEF HeapFrom, N
  <2> QED
    BY <2>1, <2>2, <2>3, <2>4
<1>11. heap' \in [Held' \ {None} -> Absorbed] /\ IsFiniteSet(DOMAIN heap')
  <2>1. heap' = [id \in Held' \ {None} |-> N[id]]
    BY DEF HeapFrom
  <2> HIDE DEF N
  <2>2. heap' \in [Held' \ {None} -> Absorbed]
    BY <1>9, <1>10, <2>1
  <2>3. IsFiniteSet(DOMAIN heap \cup {changed})
    BY <1>3, FS_AddElement
  <2>4. Held' \ {None} \in SUBSET (DOMAIN heap \cup {changed})
    BY <1>9
  <2> QED
    BY <1>10, <2>2, <2>3, <2>4, FS_Subset
<1> HIDE DEF N
<1>12. Types'
  <2>1. \A q \in Requests : Shape(request'[q])
    BY <1>2 DEF Writes
  <2>2. total_tokens' \in Nat
    BY DEF Lists
  <2> QED
    BY <1>1, <1>2, <1>11, <2>1, <2>2 DEF Types, Shape
<1>13. CachedStateIntact'
  <2> SUFFICES ASSUME NEW j \in 1 .. Len(entries')
               PROVE  /\ heap'[entries'[j].state] = Rows(entries'[j].token_ids, NoImage)
                      /\ entries'[j].hidden = Rows(entries'[j].token_ids, NoImage)
    BY <1>1 DEF CachedStateIntact, Rows
  <2>1. Intact(entries'[j])
    <3>1. CASE \E k \in 1 .. Len(entries) : entries'[j] = entries[k]
      BY <1>1, <3>1 DEF IInv, CachedStateIntact, Intact
    <3> QED
      BY <1>5, <3>1
  <2>2. entries'[j].state \in Held' \ {None}
    BY <1>1, Holders DEF EntryType
  <2>3. heap'[entries'[j].state] = heap[entries'[j].state]
    BY <1>6, <1>10, <2>2
  <2> QED
    BY <2>1, <2>3 DEF Intact
<1>14. ASSUME NEW q \in Requests PROVE Reached(request'[q], heap')
  <2>1. CASE q = r
    <3>1. Shape(new) /\ Reached(new, N) /\ request'[q] = new
      BY <1>2, <2>1 DEF Writes, N
    <3>2. \A id \in {new.source, new.own, new.spare} \ {None} : N[id] = heap'[id]
      BY <1>10, <2>1, <3>1, Holders
    <3>3. Reached(new, heap')
      BY <3>1, <3>2, ReachedAgrees
    <3> QED
      BY <3>1, <3>3
  <2>2. CASE q # r
    <3> DEFINE same == request[q]
    <3>1. Shape(same) /\ Reached(same, heap) /\ request'[q] = same
      BY <1>2, <2>2 DEF IInv
    <3>2. \A id \in {same.source, same.own, same.spare} \ {None} : heap[id] = heap'[id]
      BY <1>7, <1>10, <2>2, <3>1, Holders
    <3> HIDE DEF same
    <3>3. Reached(same, heap')
      BY <3>1, <3>2, ReachedAgrees
    <3> QED
      BY <3>1, <3>3
  <2> QED
    BY <2>1, <2>2
<1>15. Unshared'
  <2>1. ASSUME NEW a \in Requests
        PROVE  request'[a].own # request'[a].spare \/ request'[a].own = None
    <3>1. CASE a # r
      BY <1>2, <3>1 DEF IInv, Unshared
    <3>2. CASE a = r
      <4>1. \A id \in {old.own, old.spare} \ {None} : id \in DOMAIN heap
        BY <1>4
      <4>2. old.own # old.spare \/ old.own = None
        BY DEF IInv, Unshared
      <4>3. changed # None
        BY DEF Writes
      <4>4. new.own # new.spare \/ new.own = None
        BY <4>1, <4>2, <4>3 DEF Writes
      <4> QED
        BY <1>2, <3>2, <4>4
    <3> QED
      BY <3>1, <3>2
  <2>2. ASSUME NEW a \in Requests \ {r}, NEW id \in Private(request[a])
        PROVE  /\ \A i \in 1 .. Len(entries') : entries'[i].state # id
               /\ \A q \in Requests : request'[q].source # id
               /\ \A q \in Requests \ {a} : id \notin Private(request'[q])
    <3>1. id # None /\ id \in DOMAIN heap /\ id # changed
      BY <1>7 DEF Private
    <3>2. /\ \A i \in 1 .. Len(entries) : entries[i].state # id
          /\ \A q \in Requests : request[q].source # id
          /\ \A q \in Requests \ {a} : id \notin Private(request[q])
      BY DEF IInv, Unshared
    <3>3. id \notin {old.source, old.own, old.spare}
      BY <3>1, <3>2 DEF Private
    <3>4. new.source # id /\ id \notin Private(new)
      BY <3>1, <3>2, <3>3 DEF Private, Writes
    <3>5. \A i \in 1 .. Len(entries') : entries'[i].state # id
      BY <1>5, <3>2, <3>3
    <3> QED
      BY <1>2, <3>2, <3>4, <3>5
  <2>3. ASSUME NEW id \in Private(new)
        PROVE  /\ \A i \in 1 .. Len(entries') : entries'[i].state # id
               /\ \A q \in Requests : request'[q].source # id
               /\ \A q \in Requests \ {r} : id \notin Private(request[q])
    <3>1. CASE id \in Private(old)
      <4>1. /\ \A i \in 1 .. Len(entries) : entries[i].state # id
            /\ \A q \in Requests : request[q].source # id
            /\ \A q \in Requests \ {r} : id \notin Private(request[q])
        BY <3>1 DEF IInv, Unshared
      <4>2. id # None /\ id \in DOMAIN heap
        BY <1>4, <3>1 DEF Private
      <4>3. new.source # id
        BY <4>1, <4>2 DEF Writes
      <4>4. ASSUME new.spare = None, old.spare # None PROVE id # old.spare
        <5>1. id = new.own
          BY <4>2, <4>4 DEF Private
        <5>2. old.own # old.spare \/ old.own = None
          BY DEF IInv, Unshared
        <5> QED
          BY <4>2, <4>4, <5>1, <5>2 DEF Writes
      <4>5. \A i \in 1 .. Len(entries') : entries'[i].state # id
        BY <1>5, <4>1, <4>4
      <4> QED
        BY <1>2, <4>1, <4>3, <4>5
    <3>2. CASE id \notin Private(old)
      <4>1. id = changed /\ changed \notin DOMAIN heap /\ changed # None
        BY <3>2 DEF Private, Writes
      <4>2. \A q \in Requests : id \notin {request[q].source, request[q].own, request[q].spare}
        BY <1>4, <4>1
      <4>3. new.source # id
        BY <1>4, <4>1, <4>2 DEF Writes
      <4> QED
        BY <1>2, <1>6, <4>1, <4>2, <4>3 DEF Private
    <3> QED
      BY <3>1, <3>2
  <2> QED
    BY <1>2, <2>1, <2>2, <2>3 DEF Unshared, Private
<1>16. WithinLimits'
  BY DEF Lists
<1> QED
  BY <1>12, <1>13, <1>14, <1>15, <1>16 DEF IInv, Reached

(* A step that leaves the entries alone. *)
LEMMA ListStays ==
  ASSUME IInv, UNCHANGED <<entries, total_tokens>>, NEW r, NEW new
  PROVE  Lists(r, new)
<1>1. entries' = entries /\ total_tokens' = total_tokens
  OBVIOUS
<1>2. WithinLimits'
  <2>1. WithinLimits
    BY DEF IInv
  <2> QED
    BY <1>1, <2>1 DEF WithinLimits
<1>3. entries' \in Seq(EntryType) /\ total_tokens' \in Nat
  BY <1>1 DEF IInv, Types
<1> QED
  BY <1>1, <1>2, <1>3 DEF Lists

(* A step that changes no state and makes none. *)
Quiet(r, new) ==
  /\ new \in RequestType /\ Shape(new) /\ Reached(new, heap)
  /\ \/ new.source \in {None, request[r].source}
     \/ \E i \in 1 .. Len(entries) : new.source = entries[i].state
  /\ new.own \in {None, request[r].own}
  /\ new.spare \in {None, request[r].spare}

(* A step after which every state is still held. *)
DropsNothing(r, new) ==
  /\ \A k \in 1 .. Len(entries) : \E j \in 1 .. Len(entries') : entries'[j] = entries[k]
  /\ {request[r].source, request[r].own, request[r].spare}
       \subseteq {None, new.source, new.own, new.spare}

LEMMA QuietKeepsInvariant ==
  ASSUME IInv, NEW r \in Requests, NEW new,
         Quiet(r, new), Lists(r, new), Becomes(r, new),
         HeapFrom(heap) \/ (UNCHANGED heap /\ DropsNothing(r, new))
  PROVE  IInv'
<1> DEFINE old == request[r]
           N == With(Fresh, <<>>)
<1>1. /\ DOMAIN entries = 1 .. Len(entries) /\ DOMAIN entries' = 1 .. Len(entries')
      /\ \A i \in 1 .. Len(entries) : entries[i] \in EntryType
  <2>1. entries \in Seq(EntryType) /\ entries' \in Seq(EntryType)
    BY DEF IInv, Types, Lists
  <2> QED
    BY <2>1, LenProperties, ElementOfSeq
<1>2. request'[r] = new /\ \A q \in Requests \ {r} : request'[q] = request[q]
  BY DEF IInv, Types, Becomes
<1>3. /\ heap \in [Held \ {None} -> Absorbed] /\ DOMAIN heap = Held \ {None}
      /\ Fresh \in Nat \ {None} /\ Fresh \notin DOMAIN heap
  BY FreshIsFree DEF IInv, Types
<1>4. /\ \A i \in 1 .. Len(entries) : entries[i].state \in DOMAIN heap
      /\ \A q \in Requests :
           \A id \in {request[q].source, request[q].own, request[q].spare} \ {None} :
             id \in DOMAIN heap
  <2>1. \A i \in 1 .. Len(entries) : entries[i].state \in Held
    BY <1>1, Holders
  <2>2. \A i \in 1 .. Len(entries) : entries[i].state # None
    BY <1>1 DEF EntryType
  <2>3. \A q \in Requests :
          \A id \in {request[q].source, request[q].own, request[q].spare} : id \in Held
    BY Holders
  <2> QED
    BY <1>3, <2>1, <2>2, <2>3
<1>5. \A id \in {new.source, new.own, new.spare} \ {None} : id \in DOMAIN heap
  BY <1>4 DEF Quiet
<1>6. Held' \ {None} \subseteq DOMAIN heap
  <2> SUFFICES ASSUME NEW id \in Held' \ {None} PROVE id \in DOMAIN heap
    OBVIOUS
  <2>1. CASE \E j \in DOMAIN entries' : entries'[j].state = id
    <3>1. PICK j \in 1 .. Len(entries') : entries'[j].state = id
      BY <1>1, <2>1
    <3>2. CASE \E k \in 1 .. Len(entries) : entries'[j] = entries[k]
      BY <1>4, <3>1, <3>2
    <3>3. CASE entries'[j].state = old.spare
      BY <1>4, <3>1, <3>3
    <3> QED
      BY <3>2, <3>3 DEF Lists
  <2>2. CASE \E q \in Requests : id \in {request'[q].source, request'[q].own, request'[q].spare}
    BY <1>2, <1>4, <1>5, <2>2
  <2> QED
    BY <2>1, <2>2, Holders
<1>7. \A id \in DOMAIN heap : N[id] = heap[id]
  BY <1>3 DEF With
<1> HIDE DEF N
<1>8. heap' = [id \in Held' \ {None} |-> heap[id]]
  <2>1. CASE HeapFrom(heap)
    BY <2>1 DEF HeapFrom
  <2>2. CASE UNCHANGED heap /\ DropsNothing(r, new)
    <3>1. ASSUME NEW id \in DOMAIN heap PROVE id \in Held'
      <4>1. id \in Held /\ id # None
        BY <1>3
      <4>2. CASE \E i \in DOMAIN entries : entries[i].state = id
        <5>1. \E j \in DOMAIN entries' : entries'[j].state = id
          BY <1>1, <2>2, <4>2 DEF DropsNothing
        <5> QED
          BY <5>1, Holders
      <4>3. CASE \E q \in Requests : id \in {request[q].source, request[q].own, request[q].spare}
        <5>1. PICK q \in Requests : id \in {request[q].source, request[q].own, request[q].spare}
          BY <4>3
        <5>2. id \in {request'[q].source, request'[q].own, request'[q].spare}
          BY <1>2, <2>2, <4>1, <5>1 DEF DropsNothing
        <5> QED
          BY <5>2, Holders
      <4> QED
        BY <4>1, <4>2, <4>3, Holders
    <3>2. Held' \ {None} = DOMAIN heap
      BY <1>3, <1>6, <3>1
    <3> QED
      BY <1>3, <2>2, <3>2
  <2> QED
    BY <2>1, <2>2
<1>9. HeapFrom(N)
  BY <1>6, <1>7, <1>8 DEF HeapFrom
<1>10. Reached(new, N)
  <2>1. \A id \in {new.source, new.own, new.spare} \ {None} : heap[id] = N[id]
    BY <1>5, <1>7
  <2>2. Shape(new) /\ Reached(new, heap)
    BY DEF Quiet
  <2> QED
    BY <2>1, <2>2, ReachedAgrees
<1>11. <<>> \in Absorbed
  BY DEF Absorbed
<1>12. Writes(r, new, Fresh, <<>>)
  BY <1>3, <1>10, <1>11 DEF Writes, Quiet, N
<1> QED
  BY <1>9, <1>12, KeepsInvariant DEF N

-----------------------------------------------------------------------------
(* The steps.                                                               *)

LEMMA Known ==
  ASSUME IInv, NEW r \in Requests
  PROVE  /\ request[r] \in RequestType /\ Shape(request[r]) /\ Reached(request[r], heap)
         /\ \A id \in {request[r].source, request[r].own, request[r].spare} \ {None} :
              id \in DOMAIN heap /\ heap[id] \in Absorbed
         /\ \A i \in 1 .. Len(entries) :
              /\ entries[i] \in EntryType
              /\ entries[i].state \in DOMAIN heap /\ heap[entries[i].state] \in Absorbed
<1>1. /\ entries \in Seq(EntryType) /\ request[r] \in RequestType /\ Shape(request[r])
      /\ heap \in [Held \ {None} -> Absorbed]
  BY DEF IInv, Types
<1>2. /\ DOMAIN entries = 1 .. Len(entries)
      /\ \A i \in 1 .. Len(entries) : entries[i] \in EntryType
  BY <1>1, LenProperties, ElementOfSeq
<1>3. \A id \in {request[r].source, request[r].own, request[r].spare} : id \in Held
  BY Holders
<1>4. \A i \in 1 .. Len(entries) : entries[i].state \in Held /\ entries[i].state # None
  BY <1>2, Holders DEF EntryType
<1>5. Reached(request[r], heap)
  BY DEF IInv
<1> QED
  BY <1>1, <1>2, <1>3, <1>4, <1>5

LEMMA RowsOfRequest ==
  ASSUME NEW q \in RequestType, q.prompt \in Prompts
  PROVE  /\ AllRows(q) \in Absorbed /\ Len(q.prompt) \in Nat /\ Len(AllRows(q)) = Len(q.prompt)
         /\ q.prompt \in Seq(Vocabulary) /\ q.image \in Images
<1>1. q.prompt \in Seq(Vocabulary) /\ q.image \in Images /\ Len(q.prompt) \in Nat
  BY PromptType DEF RequestType
<1> QED
  BY <1>1, RowsType DEF AllRows

LEMMA IdleType ==
  /\ Idle \in RequestType /\ Shape(Idle)
  /\ \A h : Reached(Idle, h)
<1>1. <<>> \in Seq(Vocabulary) /\ <<>> \in Absorbed
  BY DEF Absorbed
<1>2. Idle \in RequestType
  BY <1>1, CacheAssumption DEF Idle, RequestType, None
<1> QED
  BY <1>2 DEF Idle, Shape, Reached, None

LEMMA ArriveStep ==
  ASSUME IInv, NEW r \in Requests, NEW p \in Prompts, NEW image \in Images,
         Arrive(r, p, image)
  PROVE  IInv'
<1> DEFINE new == [Idle EXCEPT !.pc = "lookup", !.prompt = p, !.image = image]
<1>1. /\ request[r].pc = "idle" /\ Becomes(r, new)
      /\ UNCHANGED <<entries, total_tokens>> /\ UNCHANGED heap
  BY DEF Arrive
<1>2. /\ new \in RequestType /\ new.pc = "lookup" /\ new.hit = 0 /\ new.prompt = p
      /\ new.source = None /\ new.own = None /\ new.spare = None /\ new.decoded = <<>>
  BY IdleType DEF Idle, RequestType
<1> HIDE DEF new
<1>3. Shape(new) /\ Reached(new, heap)
  BY <1>2 DEF Shape, Reached
<1>4. Quiet(r, new)
  BY <1>2, <1>3 DEF Quiet
<1>5. DropsNothing(r, new)
  BY <1>1, Known DEF DropsNothing, Shape
<1> QED
  BY <1>1, <1>4, <1>5, ListStays, QuietKeepsInvariant

LEMMA LeaveStep ==
  ASSUME IInv, NEW r \in Requests, Leave(r)
  PROVE  IInv'
<1>1. Becomes(r, Idle) /\ UNCHANGED <<entries, total_tokens>> /\ HeapFrom(heap)
  BY DEF Leave
<1>2. Idle.source = None /\ Idle.own = None /\ Idle.spare = None
  BY DEF Idle
<1>3. Quiet(r, Idle)
  BY <1>2, IdleType DEF Quiet
<1> QED
  BY <1>1, <1>3, ListStays, QuietKeepsInvariant

LEMMA PassStoreStep ==
  ASSUME IInv, NEW r \in Requests, PassStore(r)
  PROVE  IInv'
<1> DEFINE old == request[r]
           new == [old EXCEPT !.pc = "decode"]
<1>1. /\ old.pc = "store" /\ Becomes(r, new)
      /\ UNCHANGED <<entries, total_tokens>> /\ UNCHANGED heap
  BY DEF PassStore
<1>2. old \in RequestType /\ Shape(old) /\ Reached(old, heap)
  BY Known
<1> HIDE DEF old
<1>3. /\ new \in RequestType /\ new.pc = "decode" /\ new.prompt = old.prompt
      /\ new.image = old.image /\ new.hidden = old.hidden /\ new.decoded = old.decoded
      /\ new.source = old.source /\ new.own = old.own /\ new.spare = old.spare
  BY <1>2 DEF RequestType
<1> HIDE DEF new
<1>4. Shape(new)
  BY <1>1, <1>2, <1>3 DEF Shape
<1>5. Reached(new, heap)
  <2>1. /\ old.prompt \in Prompts /\ old.decoded = <<>>
        /\ heap[old.own] = AllRows(old) /\ old.hidden = AllRows(old)
    BY <1>1, <1>2 DEF Shape, Reached
  <2>2. AllRows(old) \o Rows(old.decoded, NoImage) = AllRows(old)
    BY <1>2, <2>1, RowsOfRequest, RowsOfNone, ConcatEmptySeq DEF Absorbed
  <2>3. AllRows(new) = AllRows(old)
    BY <1>3 DEF AllRows
  <2> QED
    BY <1>3, <2>1, <2>2, <2>3 DEF Reached
<1>6. Quiet(r, new) /\ DropsNothing(r, new)
  BY <1>1, <1>3, <1>4, <1>5 DEF Quiet, DropsNothing, old
<1> QED
  BY <1>1, <1>6, ListStays, QuietKeepsInvariant DEF new

(* The longest cached prefix is the beginning of the prompt. *)
LEMMA FoundPrefix ==
  ASSUME IInv, NEW p \in Prompts, Hits(p) # {}
  PROVE  /\ find_longest(p) \in 1 .. Len(entries)
         /\ Len(entries[find_longest(p)].token_ids) \in 1 .. Len(p)
         /\ entries[find_longest(p)].token_ids
              = SubSeq(p, 1, Len(entries[find_longest(p)].token_ids))
<1>1. /\ entries \in Seq(EntryType) /\ DOMAIN entries = 1 .. Len(entries)
      /\ \A i \in 1 .. Len(entries) : entries[i].token_ids \in Prompts
  <2>1. entries \in Seq(EntryType)
    BY DEF IInv, Types
  <2>2. DOMAIN entries = 1 .. Len(entries) /\ \A i \in 1 .. Len(entries) : entries[i] \in EntryType
    BY <2>1, LenProperties, ElementOfSeq
  <2> QED
    BY <2>1, <2>2 DEF EntryType
<1>2. p \in Seq(Vocabulary) /\ Len(p) \in Nat
  BY PromptType
<1>3. ASSUME NEW i \in Hits(p)
      PROVE  /\ i \in 1 .. Len(entries) /\ Len(entries[i].token_ids) \in 1 .. Len(p)
             /\ entries[i].token_ids = SubSeq(p, 1, Len(entries[i].token_ids))
  <2> DEFINE t == entries[i].token_ids
  <2>1. i \in 1 .. Len(entries) /\ IsPrefix(t, p)
    BY <1>1 DEF Hits
  <2>2. t \in Seq(Vocabulary) /\ Len(t) \in Nat \ {0}
    BY <1>1, <2>1, PromptType
  <2> HIDE DEF t
  <2>3. Len(t) <= Len(p) /\ \A n \in 1 .. Len(t) : t[n] = p[n]
    BY <1>2, <2>1, <2>2, PrefixRows
  <2>4. Len(t) \in 0 .. Len(p)
    BY <1>2, <2>2, <2>3
  <2>5. /\ SubSeq(p, 1, Len(t)) \in Seq(Vocabulary) /\ Len(SubSeq(p, 1, Len(t))) = Len(t)
        /\ \A n \in 1 .. Len(t) : SubSeq(p, 1, Len(t))[n] = p[n]
    BY <1>2, <2>4, BeginningOf
  <2>6. t = SubSeq(p, 1, Len(t))
    BY <2>2, <2>3, <2>5, SeqEqual
  <2> QED
    BY <1>2, <2>1, <2>2, <2>3, <2>6 DEF t
<1>4. find_longest(p) \in Hits(p)
  <2> DEFINE lengths == {Len(entries[i].token_ids) : i \in Hits(p)}
  <2>1. lengths \in SUBSET Nat /\ lengths # {} /\ \A n \in lengths : n <= Len(p)
    BY <1>2, <1>3
  <2>2. \E n \in lengths : \A m \in lengths : m <= n
    <3> HIDE DEF lengths
    <3> QED
      BY <1>2, <2>1, GreatestElement
  <2>3. \E i \in Hits(p) : \A j \in Hits(p) :
          Len(entries[j].token_ids) <= Len(entries[i].token_ids)
    BY <2>2
  <2> QED
    BY <2>3 DEF find_longest
<1> QED
  BY <1>3, <1>4

LEMMA MissStep ==
  ASSUME IInv, NEW r \in Requests, Miss(r)
  PROVE  IInv'
<1> DEFINE old == request[r]
           new == [old EXCEPT !.pc = "prefill", !.own = Fresh]
           N == With(Fresh, <<>>)
<1>1. /\ old.pc = "lookup" /\ Becomes(r, new)
      /\ UNCHANGED <<entries, total_tokens>> /\ HeapFrom(N)
  BY DEF Miss
<1>2. old \in RequestType /\ Shape(old) /\ Reached(old, heap)
  BY Known
<1>3. Fresh \in Nat \ {None} /\ Fresh \notin DOMAIN heap
  BY FreshIsFree DEF IInv
<1>4. N[Fresh] = <<>> /\ <<>> \in Absorbed
  BY DEF With, Absorbed
<1> HIDE DEF old, N
<1>5. /\ new \in RequestType /\ new.pc = "prefill" /\ new.prompt = old.prompt
      /\ new.image = old.image /\ new.hit = old.hit /\ new.decoded = old.decoded
      /\ new.source = old.source /\ new.own = Fresh /\ new.spare = old.spare
  BY <1>2, <1>3 DEF RequestType
<1> HIDE DEF new
<1>6. Shape(new)
  BY <1>1, <1>2, <1>3, <1>5 DEF Shape
<1>7. Reached(new, N)
  <2>1. old.hit = 0 /\ old.prompt \in Prompts
    BY <1>1, <1>2 DEF Shape, Reached
  <2>2. SubSeq(old.prompt, 1, 0) = <<>> /\ 0 \in 0 .. Len(old.prompt)
    BY <2>1, PromptType, SubSeqEmpty
  <2>3. FirstRows(new) = <<>>
    BY <1>5, <2>1, <2>2, RowsOfNone DEF FirstRows
  <2> QED
    BY <1>4, <1>5, <2>1, <2>2, <2>3 DEF Reached
<1>8. Writes(r, new, Fresh, <<>>)
  BY <1>1, <1>2, <1>3, <1>4, <1>5, <1>6, <1>7 DEF Writes, old, N
<1> QED
  BY <1>1, <1>8, ListStays, KeepsInvariant DEF new, N

LEMMA HitStep ==
  ASSUME IInv, NEW r \in Requests, Hit(r)
  PROVE  IInv'
<1> DEFINE old == request[r]
           i == find_longest(old.prompt)
           e == entries[i]
           new == [old EXCEPT !.pc = "fork", !.source = e.state,
                              !.hidden = e.hidden, !.hit = Len(e.token_ids)]
<1>1. /\ old.pc = "lookup" /\ old.image = NoImage /\ Hits(old.prompt) # {}
      /\ entries' = touch(i) /\ Becomes(r, new)
      /\ UNCHANGED total_tokens /\ UNCHANGED heap
  BY DEF Hit, Cacheable
<1>2. old \in RequestType /\ Shape(old) /\ Reached(old, heap) /\ old.prompt \in Prompts
  BY <1>1, Known DEF Shape
<1>3. /\ i \in 1 .. Len(entries) /\ Len(e.token_ids) \in 1 .. Len(old.prompt)
      /\ e.token_ids = SubSeq(old.prompt, 1, Len(e.token_ids))
  <2> HIDE DEF old
  <2> QED
    BY <1>1, <1>2, FoundPrefix
<1> HIDE DEF i, old
<1>4. /\ entries \in Seq(EntryType) /\ WithinLimits /\ total_tokens \in Nat
      /\ DOMAIN entries = 1 .. Len(entries)
  <2>1. entries \in Seq(EntryType) /\ WithinLimits /\ total_tokens \in Nat
    BY DEF IInv, Types
  <2> QED
    BY <2>1, LenProperties
<1>5. /\ e \in EntryType /\ e.state # None
      /\ heap[e.state] = Rows(e.token_ids, NoImage) /\ e.hidden = Rows(e.token_ids, NoImage)
  <2>1. e \in EntryType
    BY <1>3, Known
  <2>2. heap[e.state] = Rows(e.token_ids, NoImage) /\ e.hidden = Rows(e.token_ids, NoImage)
    BY <1>3, <1>4 DEF IInv, CachedStateIntact
  <2> QED
    BY <2>1, <2>2 DEF EntryType
<1> DEFINE t == touch(i)
<1>6. /\ t \in Seq(EntryType) /\ Len(t) = Len(entries)
      /\ \A j \in 1 .. Len(entries) : \E k \in 1 .. Len(entries) : t[j] = entries[k]
      /\ \A k \in 1 .. Len(entries) : \E j \in 1 .. Len(entries) : t[j] = entries[k]
      /\ Distinct(entries) => Distinct(t)
      /\ TokensIn(t) = TokensIn(entries)
  BY <1>3, <1>4, TouchPermutes
<1>7. DOMAIN t = 1 .. Len(t)
  BY <1>6, LenProperties
<1>8. entries' = t
  BY <1>1
<1> HIDE DEF t
<1>9. /\ new \in RequestType /\ new.pc = "fork" /\ new.prompt = old.prompt
      /\ new.image = NoImage /\ new.hit = Len(e.token_ids) /\ new.decoded = old.decoded
      /\ new.source = e.state /\ new.own = old.own /\ new.spare = old.spare
      /\ new.hidden = e.hidden
  <2>1. Len(e.token_ids) \in Nat /\ e.hidden \in Absorbed /\ e.state \in Nat
    BY <1>3, <1>5 DEF EntryType
  <2> HIDE DEF e
  <2> QED
    BY <1>1, <1>2, <2>1 DEF RequestType
<1> HIDE DEF e, new
<1>10. WithinLimits'
  <2>1. Distinct(t)
    BY <1>4, <1>6 DEF WithinLimits, Distinct
  <2>2. \A j \in 1 .. Len(t) : Len(t[j].token_ids) >= min_tokens
    BY <1>4, <1>6 DEF WithinLimits
  <2> QED
    BY <1>1, <1>4, <1>6, <1>7, <1>8, <2>1, <2>2 DEF WithinLimits, Distinct
<1>11. Lists(r, new)
  BY <1>1, <1>4, <1>6, <1>8, <1>10 DEF Lists
<1>12. Shape(new)
  BY <1>1, <1>2, <1>5, <1>9 DEF Shape
<1>13. Reached(new, heap)
  BY <1>3, <1>5, <1>9 DEF Reached, FirstRows
<1>14. Quiet(r, new)
  BY <1>3, <1>9, <1>12, <1>13 DEF Quiet, old, e
<1>15. DropsNothing(r, new)
  BY <1>1, <1>2, <1>6, <1>8, <1>9 DEF DropsNothing, Shape, old
<1> QED
  BY <1>1, <1>11, <1>14, <1>15, QuietKeepsInvariant DEF new, e

LEMMA ForkStep ==
  ASSUME IInv, NEW r \in Requests, Fork(r)
  PROVE  IInv'
<1> DEFINE old == request[r]
           content == heap[old.source]
           new == [old EXCEPT !.own = Fresh, !.source = None,
                              !.pc = IF old.hit = Len(old.prompt) THEN "decode" ELSE "prefill"]
           N == With(Fresh, content)
<1>1. /\ old.pc = "fork" /\ Becomes(r, new)
      /\ UNCHANGED <<entries, total_tokens>> /\ HeapFrom(N)
  BY DEF Fork
<1>2. /\ old \in RequestType /\ Shape(old) /\ Reached(old, heap)
      /\ old.source # None /\ content \in Absorbed
  BY <1>1, Known DEF Shape
<1>3. Fresh \in Nat \ {None} /\ Fresh \notin DOMAIN heap
  BY FreshIsFree DEF IInv
<1>4. N[Fresh] = content
  BY DEF With
<1>5. /\ old.prompt \in Prompts /\ old.decoded = <<>>
      /\ old.hit \in 1 .. Len(old.prompt) /\ content = FirstRows(old)
      /\ old.hidden = FirstRows(old)
  BY <1>1, <1>2 DEF Shape, Reached
<1> HIDE DEF old, N, content
<1>6. /\ new \in RequestType /\ new.prompt = old.prompt
      /\ new.pc = IF old.hit = Len(old.prompt) THEN "decode" ELSE "prefill"
      /\ new.image = old.image /\ new.hit = old.hit /\ new.decoded = old.decoded
      /\ new.source = None /\ new.own = Fresh /\ new.spare = old.spare
      /\ new.hidden = old.hidden
  BY <1>2, <1>3 DEF RequestType, None
<1> HIDE DEF new
<1>7. Shape(new)
  BY <1>1, <1>2, <1>3, <1>5, <1>6 DEF Shape
<1>8. Reached(new, N)
  <2>1. FirstRows(new) = FirstRows(old) /\ AllRows(new) = AllRows(old)
    BY <1>6 DEF FirstRows, AllRows
  <2>2. Len(old.prompt) \in Nat /\ old.prompt \in Seq(Vocabulary)
    BY <1>5, PromptType
  <2>3. CASE old.hit = Len(old.prompt)
    <3>1. FirstRows(old) = AllRows(old)
      BY <2>2, <2>3, SubSeqFull DEF FirstRows, AllRows
    <3>2. AllRows(old) \o Rows(old.decoded, NoImage) = AllRows(old)
      BY <1>2, <1>5, RowsOfRequest, RowsOfNone, ConcatEmptySeq DEF Absorbed
    <3> QED
      BY <1>4, <1>5, <1>6, <2>1, <2>3, <3>1, <3>2 DEF Reached
  <2>4. CASE old.hit # Len(old.prompt)
    <3>1. old.hit \in 0 .. Len(old.prompt)
      BY <1>5, <2>2
    <3> QED
      BY <1>4, <1>5, <1>6, <2>1, <2>4, <3>1 DEF Reached
  <2> QED
    BY <2>3, <2>4
<1>9. Writes(r, new, Fresh, content)
  BY <1>2, <1>3, <1>6, <1>7, <1>8 DEF Writes, old, N
<1> QED
  BY <1>1, <1>9, ListStays, KeepsInvariant DEF new, N

LEMMA PrefillStep ==
  ASSUME IInv, NEW r \in Requests, Prefill(r)
  PROVE  IInv'
<1> DEFINE old == request[r]
           own == old.own
           filled == heap[own] \o SubSeq(Input(r), old.hit + 1, Len(Input(r)))
           new == [old EXCEPT !.hidden = filled,
                              !.pc = IF Cacheable(r) THEN "store" ELSE "decode"]
           N == With(own, filled)
<1>1. /\ old.pc = "prefill" /\ Becomes(r, new)
      /\ UNCHANGED <<entries, total_tokens>> /\ HeapFrom(N)
  BY DEF Prefill
<1>2. /\ old \in RequestType /\ Shape(old) /\ Reached(old, heap)
      /\ own # None /\ own \in Nat
  BY <1>1, Known DEF Shape, RequestType
<1>3. /\ old.prompt \in Prompts /\ old.decoded = <<>>
      /\ old.hit \in 0 .. Len(old.prompt) /\ heap[own] = FirstRows(old)
  BY <1>1, <1>2 DEF Shape, Reached
<1>4. filled = AllRows(old) /\ filled \in Absorbed
  <2>1. Input(r) = AllRows(old)
    BY DEF Input, AllRows
  <2> HIDE DEF old
  <2>2. /\ AllRows(old) \in Absorbed /\ old.prompt \in Seq(Vocabulary) /\ old.image \in Images
    BY <1>2, <1>3, RowsOfRequest
  <2>3. FirstRows(old) \o SubSeq(AllRows(old), old.hit + 1, Len(AllRows(old))) = AllRows(old)
    BY <1>3, <2>2, RowsSplit DEF AllRows, FirstRows
  <2> QED
    BY <1>3, <2>1, <2>2, <2>3
<1>5. N[own] = filled
  BY DEF With
<1>6. Cacheable(r) <=> old.image = NoImage
  BY DEF Cacheable
<1> HIDE DEF old, own, filled, N
<1>7. /\ new \in RequestType /\ new.prompt = old.prompt
      /\ new.pc = IF old.image = NoImage THEN "store" ELSE "decode"
      /\ new.image = old.image /\ new.hit = old.hit /\ new.decoded = old.decoded
      /\ new.source = old.source /\ new.own = own /\ new.spare = old.spare
      /\ new.hidden = filled
  BY <1>2, <1>4, <1>6 DEF RequestType, own
<1> HIDE DEF new
<1>8. Shape(new)
  BY <1>1, <1>2, <1>3, <1>7 DEF Shape, own
<1>9. Reached(new, N)
  <2>1. AllRows(new) = AllRows(old)
    BY <1>7 DEF AllRows
  <2>2. AllRows(old) \o Rows(old.decoded, NoImage) = AllRows(old)
    BY <1>2, <1>3, RowsOfRequest, RowsOfNone, ConcatEmptySeq DEF Absorbed
  <2> QED
    BY <1>3, <1>4, <1>5, <1>7, <2>1, <2>2 DEF Reached
<1>10. Writes(r, new, own, filled)
  BY <1>2, <1>4, <1>7, <1>8, <1>9 DEF Writes, old, own, N
<1> QED
  BY <1>1, <1>10, ListStays, KeepsInvariant DEF new, N

LEMMA CopyToStoreStep ==
  ASSUME IInv, NEW r \in Requests, CopyToStore(r)
  PROVE  IInv'
<1> DEFINE old == request[r]
           content == heap[old.own]
           new == [old EXCEPT !.pc = "insert", !.spare = Fresh]
           N == With(Fresh, content)
<1>1. /\ old.pc = "store" /\ can_store(Len(old.prompt)) /\ Becomes(r, new)
      /\ UNCHANGED <<entries, total_tokens>> /\ HeapFrom(N)
  BY DEF CopyToStore
<1>2. /\ old \in RequestType /\ Shape(old) /\ Reached(old, heap)
      /\ old.own # None /\ old.own \in DOMAIN heap /\ content \in Absorbed
  BY <1>1, Known DEF Shape
<1>3. Fresh \in Nat \ {None} /\ Fresh \notin DOMAIN heap
  BY FreshIsFree DEF IInv
<1>4. N[Fresh] = content /\ N[old.own] = content
  BY <1>2 DEF With
<1> HIDE DEF N
<1>5. /\ old.prompt \in Prompts /\ old.image = NoImage
      /\ content = AllRows(old) /\ old.hidden = AllRows(old)
  BY <1>1, <1>2 DEF Shape, Reached
<1> HIDE DEF old, content
<1>6. /\ new \in RequestType /\ new.pc = "insert" /\ new.prompt = old.prompt
      /\ new.image = old.image /\ new.hidden = old.hidden /\ new.decoded = old.decoded
      /\ new.source = old.source /\ new.own = old.own /\ new.spare = Fresh
  BY <1>2, <1>3 DEF RequestType
<1> HIDE DEF new
<1>7. Shape(new)
  BY <1>1, <1>2, <1>3, <1>6 DEF Shape
<1>8. Reached(new, N)
  <2>1. AllRows(new) = AllRows(old)
    BY <1>6 DEF AllRows
  <2> QED
    BY <1>1, <1>4, <1>5, <1>6, <2>1 DEF Reached
<1>9. Writes(r, new, Fresh, content)
  BY <1>2, <1>3, <1>6, <1>7, <1>8 DEF Writes, old, N
<1> QED
  BY <1>1, <1>9, ListStays, KeepsInvariant DEF new, N

LEMMA InsertStep ==
  ASSUME IInv, NEW r \in Requests, Insert(r)
  PROVE  IInv'
<1> DEFINE old == request[r]
           entry == [token_ids |-> old.prompt, hidden |-> old.hidden, state |-> old.spare]
           new == [old EXCEPT !.pc = "decode", !.spare = None]
<1>1. old.pc = "insert" /\ insert(entry) /\ Becomes(r, new) /\ HeapFrom(heap)
  BY DEF Insert
<1>2. old \in RequestType /\ Shape(old) /\ Reached(old, heap)
  BY Known
<1> HIDE DEF old
<1>3. /\ old.prompt \in Prompts /\ old.decoded = <<>> /\ old.image = NoImage
      /\ old.spare # None /\ old.hidden = AllRows(old)
      /\ heap[old.own] = AllRows(old) /\ heap[old.spare] = AllRows(old)
      /\ can_store(Len(old.prompt))
  BY <1>1, <1>2 DEF Shape, Reached
<1>4. /\ entry \in EntryType /\ entry.token_ids = old.prompt /\ entry.state = old.spare
      /\ entry.hidden = old.hidden
  BY <1>2, <1>3 DEF EntryType, RequestType
<1>5. /\ new \in RequestType /\ new.pc = "decode" /\ new.prompt = old.prompt
      /\ new.image = old.image /\ new.hidden = old.hidden /\ new.decoded = old.decoded
      /\ new.source = old.source /\ new.own = old.own /\ new.spare = None
  BY <1>2 DEF RequestType, None
<1> HIDE DEF entry, new
<1>6. /\ entries' \in Seq(EntryType) /\ total_tokens' \in Nat
      /\ WithinLimits'
      /\ \A j \in 1 .. Len(entries') :
           entries'[j] = entry \/ \E k \in 1 .. Len(entries) : entries'[j] = entries[k]
  BY <1>1, <1>3, <1>4, InsertKeepsLimits DEF IInv, Types
<1>7. Intact(entry)
  BY <1>3, <1>4 DEF Intact, AllRows
<1>8. Lists(r, new)
  BY <1>4, <1>5, <1>6, <1>7 DEF Lists, old
<1>9. Shape(new)
  BY <1>1, <1>2, <1>3, <1>5 DEF Shape
<1>10. Reached(new, heap)
  <2>1. AllRows(new) = AllRows(old)
    BY <1>5 DEF AllRows
  <2>2. AllRows(old) \o Rows(old.decoded, NoImage) = AllRows(old)
    BY <1>2, <1>3, RowsOfRequest, RowsOfNone, ConcatEmptySeq DEF Absorbed
  <2> QED
    BY <1>3, <1>5, <2>1, <2>2 DEF Reached
<1>11. Quiet(r, new)
  BY <1>5, <1>9, <1>10 DEF Quiet, old
<1> QED
  BY <1>1, <1>8, <1>11, QuietKeepsInvariant DEF new

LEMMA DecodeStep ==
  ASSUME IInv, NEW r \in Requests, NEW token \in Vocabulary, Decode(r, token)
  PROVE  IInv'
<1> DEFINE old == request[r]
           own == old.own
           row == <<token, NoImage>>
           content == Append(heap[own], row)
           new == [old EXCEPT !.decoded = Append(@, token)]
           N == With(own, content)
<1>1. /\ old.pc = "decode" /\ Becomes(r, new)
      /\ UNCHANGED <<entries, total_tokens>> /\ HeapFrom(N)
  BY DEF Decode
<1>2. /\ old \in RequestType /\ Shape(old) /\ Reached(old, heap)
      /\ own # None /\ own \in Nat /\ heap[own] \in Absorbed
  BY <1>1, Known DEF Shape, RequestType
<1>3. /\ old.prompt \in Prompts /\ old.decoded \in Seq(Vocabulary)
      /\ heap[own] = AllRows(old) \o Rows(old.decoded, NoImage)
      /\ old.hidden = AllRows(old)
  BY <1>1, <1>2 DEF Shape, Reached, RequestType
<1>4. row \in Vocabulary \X Images /\ NoImage \in Images
  BY CacheAssumption
<1>5. content \in Absorbed /\ N[own] = content
  BY <1>2, <1>4, AppendProperties DEF With, Absorbed
<1>6. content = AllRows(old) \o Rows(Append(old.decoded, token), NoImage)
  <2> DEFINE a == AllRows(old)
             b == Rows(old.decoded, NoImage)
  <2>1. a \in Seq(Vocabulary \X Images) /\ b \in Seq(Vocabulary \X Images)
    BY <1>2, <1>3, <1>4, RowsOfRequest, RowsType DEF Absorbed
  <2>2. Rows(Append(old.decoded, token), NoImage) = Append(b, row)
    BY <1>3, <1>4, RowsAppend
  <2> HIDE DEF a, b, row
  <2>3. a \o Append(b, row) = Append(a \o b, row)
    BY <1>4, <2>1, AppendBehind
  <2> QED
    BY <1>3, <2>2, <2>3 DEF a, b
<1> HIDE DEF old, own, row, content, N
<1>7. /\ new \in RequestType /\ new.pc = "decode" /\ new.prompt = old.prompt
      /\ new.image = old.image /\ new.hidden = old.hidden
      /\ new.decoded = Append(old.decoded, token)
      /\ new.source = old.source /\ new.own = own /\ new.spare = old.spare
  <2>1. Append(old.decoded, token) \in Seq(Vocabulary)
    BY <1>3, AppendProperties
  <2> QED
    BY <1>1, <1>2, <2>1 DEF RequestType, own
<1> HIDE DEF new
<1>8. Shape(new)
  BY <1>1, <1>2, <1>3, <1>7 DEF Shape, own
<1>9. Reached(new, N)
  <2>1. AllRows(new) = AllRows(old)
    BY <1>7 DEF AllRows
  <2> QED
    BY <1>3, <1>5, <1>6, <1>7, <2>1 DEF Reached
<1>10. Writes(r, new, own, content)
  BY <1>2, <1>5, <1>7, <1>8, <1>9 DEF Writes, old, own, N
<1> QED
  BY <1>1, <1>10, ListStays, KeepsInvariant DEF new, N

-----------------------------------------------------------------------------
(* The theorems.                                                            *)

LEMMA Initially == Init => IInv
<1> SUFFICES ASSUME Init PROVE IInv
  OBVIOUS
<1>1. /\ entries = <<>> /\ total_tokens = 0 /\ heap = <<>>
      /\ request = [r \in Requests |-> Idle]
  BY DEF Init
<1>2. \A r \in Requests : request[r] = Idle
  BY <1>1
<1>3. /\ entries \in Seq(EntryType) /\ Len(entries) = 0 /\ DOMAIN entries = {}
      /\ 1 .. 0 = {} /\ DOMAIN heap = {}
  BY <1>1
<1>4. Held \ {None} = {}
  <2> SUFFICES ASSUME NEW id \in Held PROVE id = None
    OBVIOUS
  <2> QED
    BY <1>2, <1>3, Holders DEF Idle
<1>5. Types
  <2>1. heap \in [{} -> Absorbed]
    BY <1>1
  <2>2. request \in [Requests -> RequestType]
    BY <1>1, IdleType
  <2>3. IsFiniteSet(DOMAIN heap)
    BY <1>3, FS_EmptySet
  <2> QED
    BY <1>1, <1>2, <1>3, <1>4, <2>1, <2>2, <2>3, IdleType DEF Types
<1>6. Unshared
  BY <1>2 DEF Unshared, Private, Idle
<1>7. \A r \in Requests : Reached(request[r], heap)
  BY <1>2, IdleType
<1>8. WithinLimits
  <2>1. max_entries \in Nat /\ max_tokens \in Nat
    BY CacheAssumption
  <2> QED
    BY <1>1, <1>3, <2>1, TokensInNone DEF WithinLimits
<1>9. CachedStateIntact
  BY <1>3 DEF CachedStateIntact
<1> QED
  BY <1>5, <1>6, <1>7, <1>8, <1>9 DEF IInv

LEMMA Stutters ==
  ASSUME IInv, UNCHANGED vars
  PROVE  IInv'
<1>1. /\ entries' = entries /\ total_tokens' = total_tokens /\ heap' = heap
      /\ request' = request
  BY DEF vars
<1>2. Held' = Held
  BY <1>1 DEF Held
<1> QED
  BY <1>1, <1>2
  DEF IInv, Types, Unshared, WithinLimits, CachedStateIntact

(* No order of the steps of any number of requests leaves the invariant. *)
THEOREM Inductive == Spec => []IInv
<1>1. IInv /\ [Next]_vars => IInv'
  <2> SUFFICES ASSUME IInv, [Next]_vars PROVE IInv'
    OBVIOUS
  <2>1. ASSUME NEW r \in Requests, NEW p \in Prompts, NEW image \in Images, Arrive(r, p, image)
        PROVE  IInv'
    BY <2>1, ArriveStep
  <2>2. ASSUME NEW r \in Requests, Miss(r) PROVE IInv'
    BY <2>2, MissStep
  <2>3. ASSUME NEW r \in Requests, Hit(r) PROVE IInv'
    BY <2>3, HitStep
  <2>4. ASSUME NEW r \in Requests, Fork(r) PROVE IInv'
    BY <2>4, ForkStep
  <2>5. ASSUME NEW r \in Requests, Prefill(r) PROVE IInv'
    BY <2>5, PrefillStep
  <2>6. ASSUME NEW r \in Requests, PassStore(r) PROVE IInv'
    BY <2>6, PassStoreStep
  <2>7. ASSUME NEW r \in Requests, CopyToStore(r) PROVE IInv'
    BY <2>7, CopyToStoreStep
  <2>8. ASSUME NEW r \in Requests, Insert(r) PROVE IInv'
    BY <2>8, InsertStep
  <2>9. ASSUME NEW r \in Requests, NEW p \in Prompts, Decode(r, p[1]) PROVE IInv'
    <3>1. p[1] \in Vocabulary
      BY PromptType
    <3> QED
      BY <2>9, <3>1, DecodeStep
  <2>10. ASSUME NEW r \in Requests, Leave(r) PROVE IInv'
    BY <2>10, LeaveStep
  <2>11. CASE UNCHANGED vars
    BY <2>11, Stutters
  <2> QED
    BY <2>1, <2>2, <2>3, <2>4, <2>5, <2>6, <2>7, <2>8, <2>9, <2>10, <2>11 DEF Next
<1> QED
  BY Initially, <1>1, PTL DEF Spec

(* Whatever the requests do, every state that is held is there and no other *)
(* one is, and a request holds what it needs for its next step.             *)
THEOREM CacheIsTyped == Spec => []TypeOK
<1>1. IInv => TypeOK
  <2> SUFFICES ASSUME IInv PROVE TypeOK
    OBVIOUS
  <2>1. /\ entries \in Seq(EntryType) /\ total_tokens \in Nat /\ DOMAIN heap = Held \ {None}
    BY DEF IInv, Types
  <2>2. DOMAIN entries = 1 .. Len(entries)
    BY <2>1, LenProperties
  <2>3. \A i \in DOMAIN entries :
          entries[i].token_ids \in Prompts /\ entries[i].state \in DOMAIN heap
    <3> SUFFICES ASSUME NEW i \in DOMAIN entries
                 PROVE  entries[i].token_ids \in Prompts /\ entries[i].state \in DOMAIN heap
      OBVIOUS
    <3>1. entries[i] \in EntryType
      BY <2>1, <2>2, ElementOfSeq
    <3>2. entries[i].state \in Held
      BY Holders
    <3> QED
      BY <2>1, <3>1, <3>2 DEF EntryType
  <2>4. \A r \in Requests : request[r] \in RequestType /\ Shape(request[r])
    BY DEF IInv, Types
  <2> QED
    BY <2>1, <2>3, <2>4 DEF TypeOK, RequestType, Shape
<1> QED
  BY Inductive, <1>1, PTL

(* The cache keeps its three limits, the running total is the sum of its *)
(* entries' tokens, and no prompt has two entries.                       *)
THEOREM LimitsKept == Spec => []WithinLimits
<1>1. IInv => WithinLimits
  BY DEF IInv
<1> QED
  BY Inductive, <1>1, PTL

(* A cached state is never written to: it is the state of its tokens for as *)
(* long as it is cached.                                                    *)
THEOREM EntriesImmutable == Spec => []CachedStateIntact
<1>1. IInv => CachedStateIntact
  BY DEF IInv
<1> QED
  BY Inductive, <1>1, PTL

(* A request decodes from the state of its own prompt and images, found in *)
(* the cache or computed, evicted meanwhile or not.                        *)
THEOREM CacheInvisible == Spec => []CacheIsInvisible
<1>1. IInv => CacheIsInvisible
  BY DEF IInv, Reached, CacheIsInvisible, Input, AllRows
<1> QED
  BY Inductive, <1>1, PTL

-----------------------------------------------------------------------------
(* The order of the entries.                                                *)

(* With two entries at most, the list is in the order of use if its first   *)
(* entry is the one used last.                                              *)
LEMMA LastUsedFirst ==
  ASSUME IInv', max_entries <= 2, NEW p, Use(p),
         entries' # <<>> => entries'[1].token_ids = p
  PROVE  EvictsLeastRecentlyUsed'
<1> SUFFICES ASSUME NEW i \in DOMAIN entries', NEW j \in DOMAIN entries', i < j
             PROVE  <<entries'[i].token_ids, entries'[j].token_ids>> \in recent'
  BY DEF EvictsLeastRecentlyUsed
<1>1. entries' \in Seq(EntryType) /\ WithinLimits'
  BY DEF IInv, Types
<1>2. DOMAIN entries' = 1 .. Len(entries') /\ Len(entries') \in Nat
  BY <1>1, LenProperties
<1>3. Len(entries') <= 2
  BY <1>1, <1>2, CacheAssumption DEF WithinLimits
<1>4. i = 1 /\ j = 2
  BY <1>2, <1>3
<1>5. entries'[1].token_ids = p
  BY <1>2, <1>4
<1>6. entries'[2].token_ids # p
  BY <1>1, <1>4, <1>5 DEF WithinLimits
<1> QED
  BY <1>4, <1>5, <1>6 DEF Use

LEMMA UseInOrder ==
  ASSUME IInv, IInv', max_entries <= 2, EvictsLeastRecentlyUsed, [Next]_vars
  PROVE  EvictsLeastRecentlyUsed'
<1>1. ASSUME UNCHANGED <<entries, recent>> PROVE EvictsLeastRecentlyUsed'
  BY <1>1 DEF EvictsLeastRecentlyUsed
<1>2. ASSUME NEW r \in Requests, Hit(r) PROVE EvictsLeastRecentlyUsed'
  <2> DEFINE i == find_longest(request[r].prompt)
             e == entries[i]
  <2>1. /\ request[r].pc = "lookup" /\ Hits(request[r].prompt) # {}
        /\ entries' = touch(i) /\ Use(e.token_ids)
    BY <1>2 DEF Hit
  <2>2. request[r] \in RequestType /\ request[r].prompt \in Prompts
    BY <2>1, Known DEF Shape
  <2>3. i \in 1 .. Len(entries) /\ entries \in Seq(EntryType)
    BY <2>1, <2>2, FoundPrefix DEF IInv, Types
  <2> HIDE DEF i
  <2>4. touch(i)[1] = e
    BY <2>3 DEF touch
  <2> QED
    BY <2>1, <2>4, LastUsedFirst
<1>3. ASSUME NEW r \in Requests, Insert(r) PROVE EvictsLeastRecentlyUsed'
  <2> DEFINE entry == [token_ids |-> request[r].prompt, hidden |-> request[r].hidden,
                       state |-> request[r].spare]
  <2>1. insert(entry) /\ Use(request[r].prompt)
    BY <1>3 DEF Insert
  <2>2. PICK tail : entries' = <<entry>> \o tail
    BY <2>1 DEF insert
  <2> QED
    BY <2>1, <2>2, LastUsedFirst
<1> QED
  BY <1>1, <1>2, <1>3
  DEF Next, Arrive, Miss, Fork, Prefill, PassStore, CopyToStore, Decode, Leave, vars

(* With the two entries of the default at most, the list is in the order of *)
(* use whatever the requests do, so that the entry evicted is the least     *)
(* recently used one.  Run prefix_cache_lru shows that it is not with three.*)
THEOREM EvictionFollowsUse ==
  ASSUME max_entries <= 2
  PROVE  Spec => []EvictsLeastRecentlyUsed
<1>1. Init => EvictsLeastRecentlyUsed
  BY DEF Init, EvictsLeastRecentlyUsed
<1>2. IInv /\ IInv' /\ EvictsLeastRecentlyUsed /\ [Next]_vars => EvictsLeastRecentlyUsed'
  BY UseInOrder
<1> QED
  BY <1>1, <1>2, Inductive, PTL DEF Spec

=============================================================================
