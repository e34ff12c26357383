---------------------------- MODULE RuntimeProofs ----------------------------
(* Every call of every pass is well made: it writes to the buffers of its    *)
(* lane and of the pool it holds, it makes room in a cache before it appends  *)
(* to it, and it appends behind what the cache holds.  From that: the types   *)
(* of Runtime, its speculative transaction and the safety of what a request   *)
(* has committed.  The proof goes from kernels to sequences of kernels, to    *)
(* calls, to the calls of a pass, and then through the actions of a lane.     *)
EXTENDS Runtime, SequenceLemmas, TLAPS

-----------------------------------------------------------------------------
(* Sequences of whatever elements.                                          *)

IsSeq(s) == s \in Seq(Range(s))

(* A sequence of a set is one. *)
LEMMA SeqOfAny ==
  ASSUME NEW S, NEW s \in Seq(S)
  PROVE  IsSeq(s)
<1>1. s \in [1 .. Len(s) -> Range(s)] /\ Len(s) \in Nat
  BY DEF Range
<1> QED
  BY <1>1 DEF IsSeq

(* The length and the indexes of a sequence. *)
LEMMA SeqFacts ==
  ASSUME NEW s, IsSeq(s)
  PROVE  Len(s) \in Nat /\ DOMAIN s = 1 .. Len(s)
BY DEF IsSeq

(* A function on 1..n is a sequence. *)
LEMMA FunctionIsSeq ==
  ASSUME NEW n \in Nat, NEW s, s = [i \in 1 .. n |-> s[i]]
  PROVE  IsSeq(s) /\ Len(s) = n /\ DOMAIN s = 1 .. n
<1>0. DOMAIN s = 1 .. n
  OBVIOUS
<1>1. s \in [1 .. n -> Range(s)]
  BY <1>0 DEF Range
<1>2. s \in Seq(Range(s)) /\ Len(s) = n
  <2> DEFINE R == Range(s)
  <2>1. s \in [1 .. n -> R]
    BY <1>1
  <2> HIDE DEF R
  <2>2. s \in Seq(R) /\ Len(s) = n
    BY <2>1
  <2> QED BY <2>2 DEF R
<1> QED
  BY <1>0, <1>2 DEF IsSeq

ConcatIs(a, b, c) ==
  /\ IsSeq(c) /\ Len(c) = Len(a) + Len(b)
  /\ \A i \in 1 .. Len(a) : c[i] = a[i]
  /\ \A i \in 1 .. Len(b) : c[Len(a) + i] = b[i]

(* Two sequences, one behind the other. *)
LEMMA Concat ==
  ASSUME NEW a, NEW b, IsSeq(a), IsSeq(b)
  PROVE  ConcatIs(a, b, a \o b)
<1> DEFINE S == Range(a) \cup Range(b)
<1>1. a \in Seq(Range(a)) /\ b \in Seq(Range(b)) /\ Range(a) \subseteq S /\ Range(b) \subseteq S
  BY DEF IsSeq
<1>2. a \in Seq(S) /\ b \in Seq(S)
  <2> HIDE DEF S
  <2>1. \A i \in 1 .. Len(a) : a[i] \in S
    BY <1>1, ElementOfSeq
  <2>2. \A i \in 1 .. Len(b) : b[i] \in S
    BY <1>1, ElementOfSeq
  <2>3. Len(a) \in Nat /\ Len(b) \in Nat /\ a \in [1 .. Len(a) -> S] /\ b \in [1 .. Len(b) -> S]
    BY <1>1, <2>1, <2>2
  <2> QED BY <2>3
<1> HIDE DEF S
<1>3. Len(a) \in Nat /\ Len(b) \in Nat
  BY <1>2
<1>4. /\ a \o b \in Seq(S) /\ Len(a \o b) = Len(a) + Len(b)
      /\ \A i \in 1 .. Len(a) + Len(b) : (a \o b)[i] = IF i <= Len(a) THEN a[i] ELSE b[i - Len(a)]
  BY <1>2, ConcatProperties
<1>5. IsSeq(a \o b)
  BY <1>4, SeqOfAny
<1>6. ASSUME NEW i \in 1 .. Len(a) PROVE (a \o b)[i] = a[i]
  <2>1. i \in 1 .. Len(a) + Len(b) /\ i <= Len(a)
    BY <1>3
  <2> QED BY <1>4, <2>1
<1>7. ASSUME NEW i \in 1 .. Len(b) PROVE (a \o b)[Len(a) + i] = b[i]
  <2>1. Len(a) + i \in 1 .. Len(a) + Len(b) /\ ~(Len(a) + i <= Len(a)) /\ (Len(a) + i) - Len(a) = i
    BY <1>3
  <2> QED BY <1>4, <2>1
<1> QED
  BY <1>4, <1>5, <1>6, <1>7 DEF ConcatIs

(* A sequence of sequences, as the one that joins them up one by one. *)
JoinedBy(F, ss) ==
  /\ F[0] = <<>>
  /\ \A n \in 1 .. Len(ss) : F[n] = F[n - 1] \o ss[n]
  /\ \A n \in 0 .. Len(ss) : IsSeq(F[n])

(* Joined is such a sequence's last. *)
LEMMA JoinedSteps ==
  ASSUME NEW ss, IsSeq(ss), \A i \in 1 .. Len(ss) : IsSeq(ss[i])
  PROVE  \E F : JoinedBy(F, ss) /\ Joined(ss) = F[Len(ss)]
<1> DEFINE S == UNION {Range(ss[i]) : i \in 1 .. Len(ss)}
<1>1. Len(ss) \in Nat /\ ss = [i \in 1 .. Len(ss) |-> ss[i]]
  BY DEF IsSeq
<1>2. ASSUME NEW i \in 1 .. Len(ss) PROVE ss[i] \in Seq(S)
  <2> PICK s : s = ss[i] OBVIOUS
  <2>1. s \in Seq(Range(s)) /\ Range(s) \subseteq S
    BY <1>2 DEF IsSeq
  <2>2. \A j \in 1 .. Len(s) : s[j] \in S
    <3> HIDE DEF S
    <3> QED BY <2>1, ElementOfSeq
  <2>3. Len(s) \in Nat /\ s \in [1 .. Len(s) -> S]
    <3> HIDE DEF S
    <3> QED BY <2>1, <2>2
  <2> HIDE DEF S
  <2>4. s \in Seq(S)
    BY <2>3
  <2> QED BY <2>4
<1> HIDE DEF S
<1>3. ss \in Seq(Seq(S))
  <2>1. ss \in [1 .. Len(ss) -> Seq(S)]
    BY <1>1, <1>2
  <2> QED BY <1>1, <2>1
<1>4. PICK F \in [0 .. Len(ss) -> Seq(S)] : Joins(F, ss) /\ FlattenSeq(ss) = F[Len(ss)]
  BY <1>3, FlattenJoins
<1>5. \A n \in 0 .. Len(ss) : IsSeq(F[n])
  BY <1>4, SeqOfAny
<1> QED
  BY <1>4, <1>5 DEF Joins, JoinedBy, Joined

(* The empty sequence. *)
LEMMA IsSeqEmpty == IsSeq(<<>>) /\ Len(<<>>) = 0
<1>1. <<>> \in Seq({})
  OBVIOUS
<1> QED BY <1>1, SeqOfAny

-----------------------------------------------------------------------------
(* One memory after the other, as a recursive function computes them.       *)

Step(kind, x, m, i) ==
  CASE kind = "kernels" -> RunNext(m, x[i])
    [] kind = "stage"   -> Put(m, x.k.to[i], [r \in 1..x.k.rows |-> StageRow(x.mem, x.k, i, r)])
    [] kind = "rows"    -> PrefillRow(m, x, i)

Steps(f, kind, x, m, N) == f[0] = m /\ \A i \in 1 .. N : f[i] = Step(kind, x, f[i - 1], i)

IsRecursive(f, kind, x, m, N) ==
  f = [i \in 0 .. N |-> IF i = 0 THEN m ELSE Step(kind, x, f[i - 1], i)]

(* There is such a function. *)
LEMMA StepsExist ==
  ASSUME NEW kind, NEW x, NEW m, NEW N \in Nat
  PROVE  \E f : IsRecursive(f, kind, x, m, N)
<1> DEFINE Taken(n) == \E f : IsRecursive(f, kind, x, m, n)
           P == {n \in 0 .. N : Taken(n)}
<1>1. Taken(0)
  <2> DEFINE f == [i \in 0 .. 0 |-> m]
  <2>1. \A i \in 0 .. 0 : i = 0
    OBVIOUS
  <2>2. f = [i \in 0 .. 0 |-> IF i = 0 THEN m ELSE Step(kind, x, f[i - 1], i)]
    BY <2>1
  <2> HIDE DEF f
  <2>3. IsRecursive(f, kind, x, m, 0)
    BY <2>2 DEF IsRecursive
  <2> QED BY <2>3
<1>2. ASSUME NEW n \in 1 .. N, Taken(n - 1) PROVE Taken(n)
  <2>1. PICK f : IsRecursive(f, kind, x, m, n - 1)
    BY <1>2
  <2>2. \A i \in 0 .. n - 1 : f[i] = IF i = 0 THEN m ELSE Step(kind, x, f[i - 1], i)
    BY <2>1 DEF IsRecursive
  <2> DEFINE g == [i \in 0 .. n |-> IF i = n THEN Step(kind, x, f[n - 1], n) ELSE f[i]]
  <2>3. ASSUME NEW i \in 0 .. n
        PROVE  g[i] = IF i = 0 THEN m ELSE Step(kind, x, g[i - 1], i)
    <3>1. CASE i = 0
      <4>1. i # n /\ i \in 0 .. n - 1
        BY <3>1
      <4> QED BY <2>2, <3>1, <4>1
    <3>2. CASE i # 0
      <4>1. i - 1 \in 0 .. n /\ i - 1 # n /\ i - 1 \in 0 .. n - 1
        BY <3>2
      <4>2. g[i - 1] = f[i - 1]
        BY <4>1
      <4>3. CASE i = n
        BY <3>2, <4>2, <4>3
      <4>4. CASE i # n
        <5>1. i \in 0 .. n - 1
          BY <4>4
        <5> QED BY <2>2, <3>2, <4>2, <4>4, <5>1
      <4> QED BY <4>3, <4>4
    <3> QED BY <3>1, <3>2
  <2>4. g = [i \in 0 .. n |-> IF i = 0 THEN m ELSE Step(kind, x, g[i - 1], i)]
    <3>1. g = [i \in 0 .. n |-> g[i]]
      OBVIOUS
    <3> HIDE DEF g
    <3> QED BY <2>3, <3>1
  <2> HIDE DEF g
  <2>5. IsRecursive(g, kind, x, m, n)
    BY <2>4 DEF IsRecursive
  <2> QED BY <2>5
<1>3. N \in P
  <2> HIDE DEF Taken
  <2>1. 0 \in P
    BY <1>1
  <2>2. \A n \in 1 .. N : n - 1 \in P => n \in P
    BY <1>2
  <2>3. N \in 0 .. N
    OBVIOUS
  <2> HIDE DEF P
  <2> QED BY <2>1, <2>2, <2>3, UpTo
<1> QED BY <1>3

(* Its values, step by step. *)
LEMMA StepsOf ==
  ASSUME NEW kind, NEW x, NEW m, NEW N \in Nat, NEW f, IsRecursive(f, kind, x, m, N)
  PROVE  Steps(f, kind, x, m, N)
<1>1. \A i \in 0 .. N : f[i] = IF i = 0 THEN m ELSE Step(kind, x, f[i - 1], i)
  BY DEF IsRecursive
<1>2. 0 \in 0 .. N
  OBVIOUS
<1>3. ASSUME NEW i \in 1 .. N PROVE f[i] = Step(kind, x, f[i - 1], i)
  <2>1. i \in 0 .. N /\ i # 0
    OBVIOUS
  <2> QED BY <1>1, <2>1
<1> QED BY <1>1, <1>2, <1>3 DEF Steps

(* RunAll runs one kernel after the other. *)
LEMMA RunAllSteps ==
  ASSUME NEW m, NEW ks, Len(ks) \in Nat
  PROVE  \E f : Steps(f, "kernels", ks, m, Len(ks)) /\ RunAll(m, ks) = f[Len(ks)]
<1> DEFINE IsAfter(f) == f = [i \in 0..Len(ks) |-> IF i = 0 THEN m ELSE RunNext(f[i - 1], ks[i])]
           after == CHOOSE f : IsAfter(f)

<1>1. \A g, i : Step("kernels", ks, g, i) = RunNext(g, ks[i])
  BY DEF Step
<1>2. RunAll(m, ks) = (CHOOSE f : IsAfter(f))[Len(ks)]
  BY DEF RunAll
<1>3. \A f : IsRecursive(f, "kernels", ks, m, Len(ks)) <=> IsAfter(f)

  <2>1. ASSUME NEW f
        PROVE  [i \in 0..Len(ks) |-> IF i = 0 THEN m ELSE Step("kernels", ks, f[i - 1], i)]
                 = [i \in 0..Len(ks) |-> IF i = 0 THEN m ELSE RunNext(f[i - 1], ks[i])]
    BY <1>1
  <2> QED BY <2>1 DEF IsRecursive
<1>4. \E f : IsAfter(f)
  <2> HIDE DEF IsAfter
  <2> QED BY <1>3, StepsExist
<1>5. IsAfter(after)
  <2> HIDE DEF IsAfter
  <2> QED BY <1>4
<1> HIDE DEF IsAfter
<1>6. RunAll(m, ks) = after[Len(ks)]
  BY <1>2
<1> HIDE DEF after

<1>7. Steps(after, "kernels", ks, m, Len(ks))
  BY <1>3, <1>5, StepsOf

<1> QED BY <1>6, <1>7

(* RunStage writes one operand after the other. *)
LEMMA RunStageSteps ==
  ASSUME NEW m, NEW k, Len(k.to) \in Nat
  PROVE  \E f, x : Steps(f, "stage", x, m, Len(k.to)) /\ RunStage(m, k) = f[Len(k.to)] /\ x.k = k
<1> DEFINE IsAfter(f) == f = [i \in 0..Len(k.to) |-> IF i = 0 THEN m ELSE Put(f[i - 1], k.to[i], [r \in 1..k.rows |-> StageRow(m, k, i, r)])]
           after == CHOOSE f : IsAfter(f)
           x == [k |-> k, mem |-> m]
<1>1. \A g, i : Step("stage", x, g, i) = Put(g, k.to[i], [r \in 1..k.rows |-> StageRow(m, k, i, r)])
  BY DEF Step
<1>2. RunStage(m, k) = (CHOOSE f : IsAfter(f))[Len(k.to)]
  BY DEF RunStage
<1>3. \A f : IsRecursive(f, "stage", x, m, Len(k.to)) <=> IsAfter(f)
  <2> HIDE DEF x
  <2>1. ASSUME NEW f
        PROVE  [i \in 0..Len(k.to) |-> IF i = 0 THEN m ELSE Step("stage", x, f[i - 1], i)]
                 = [i \in 0..Len(k.to) |-> IF i = 0 THEN m ELSE Put(f[i - 1], k.to[i], [r \in 1..k.rows |-> StageRow(m, k, i, r)])]
    BY <1>1
  <2> QED BY <2>1 DEF IsRecursive
<1>4. \E f : IsAfter(f)
  <2> HIDE DEF IsAfter, x
  <2> QED BY <1>3, StepsExist
<1>5. IsAfter(after)
  <2> HIDE DEF IsAfter
  <2> QED BY <1>4
<1> HIDE DEF IsAfter
<1>6. RunStage(m, k) = after[Len(k.to)]
  BY <1>2
<1> HIDE DEF after
<1> HIDE DEF x
<1>7. Steps(after, "stage", x, m, Len(k.to))
  BY <1>3, <1>5, StepsOf
<1>8. x.k = k
  BY DEF x
<1> QED BY <1>6, <1>7, <1>8

(* RunPrefill runs one row after the other. *)
LEMMA RunPrefillSteps ==
  ASSUME NEW m, NEW k, k.rows \in Nat
  PROVE  \E f : Steps(f, "rows", k, m, k.rows) /\ RunPrefill(m, k) = f[k.rows]
<1> DEFINE IsAfter(f) == f = [i \in 0..k.rows |-> IF i = 0 THEN m ELSE PrefillRow(f[i - 1], k, i)]
           after == CHOOSE f : IsAfter(f)

<1>1. \A g, i : Step("rows", k, g, i) = PrefillRow(g, k, i)
  BY DEF Step
<1>2. RunPrefill(m, k) = (CHOOSE f : IsAfter(f))[k.rows]
  BY DEF RunPrefill
<1>3. \A f : IsRecursive(f, "rows", k, m, k.rows) <=> IsAfter(f)

  <2>1. ASSUME NEW f
        PROVE  [i \in 0..k.rows |-> IF i = 0 THEN m ELSE Step("rows", k, f[i - 1], i)]
                 = [i \in 0..k.rows |-> IF i = 0 THEN m ELSE PrefillRow(f[i - 1], k, i)]
    BY <1>1
  <2> QED BY <2>1 DEF IsRecursive
<1>4. \E f : IsAfter(f)
  <2> HIDE DEF IsAfter
  <2> QED BY <1>3, StepsExist
<1>5. IsAfter(after)
  <2> HIDE DEF IsAfter
  <2> QED BY <1>4
<1> HIDE DEF IsAfter
<1>6. RunPrefill(m, k) = after[k.rows]
  BY <1>2
<1> HIDE DEF after

<1>7. Steps(after, "rows", k, m, k.rows)
  BY <1>3, <1>5, StepsOf

<1> QED BY <1>6, <1>7

-----------------------------------------------------------------------------
(* Which buffers a kernel writes to.                                        *)

ToTags(os, T) == IsSeq(os) /\ \A i \in 1 .. Len(os) : os[i].buffer[1] \in T

(* A kernel that writes to buffers of the owners T, and to nothing else. *)
Mild(k, T) ==
  \/ k.op = "stage" /\ ToTags(k.to, T)
  \/ k.op \in {"conv", "recurrence"} /\ k.state.buffer[1] \in T /\ k.to.buffer[1] \in T
  \/ /\ k.op = "deltanet_prefill" /\ k.rows \in Nat /\ k.to.buffer[1] \in T
     /\ \A part \in Parts : k.destination[part][1] \in T
     /\ k.kept = 0 \/ \A part \in Parts : k.snapshots[part][1] \in T
  \/ k.op = "scores" /\ k.scores[1] \in T
  \/ k.op \in {"values", "attend", "pair", "move"} /\ k.to.buffer[1] \in T
  \/ k.op = "dequantize" /\ k.weights[1] \in T
  \/ k.op = "gemm" /\ ToTags(k.product.to, T) /\ Len(k.product.to) = 1
  \/ k.op = "select" /\ k.to.buffer[1] \in T /\ k.tokens.buffer[1] \in T
  \/ k.op \in {"embed", "ensure_cells", "ensure", "fresh"} /\ k.buffer[1] \in T
  \/ k.op = "create" /\ k.owner \in T
  \/ k.op = "copy" /\ k.to[1] \in T

(* Every buffer of other owners is as it was. *)
Leaves(m, n, T) ==
  /\ DOMAIN m \subseteq DOMAIN n
  /\ \A b \in DOMAIN m : b[1] \notin T => n[b] = m[b]

(* Nothing happened. *)
LEMMA LeavesSelf == ASSUME NEW m, NEW T PROVE Leaves(m, m, T)
BY DEF Leaves

(* One after the other. *)
LEMMA LeavesNext ==
  ASSUME NEW m, NEW n, NEW o, NEW T, Leaves(m, n, T), Leaves(n, o, T)
  PROVE  Leaves(m, o, T)
BY DEF Leaves

(* More may be written to. *)
LEMMA LeavesMore ==
  ASSUME NEW m, NEW n, NEW T, NEW U, T \subseteq U, Leaves(m, n, T)
  PROVE  Leaves(m, n, U)
BY DEF Leaves

(* One buffer is written. *)
LEMMA SetLeaves ==
  ASSUME NEW m, NEW b, NEW v, NEW T, b[1] \in T
  PROVE  Leaves(m, [m EXCEPT ![b] = v], T)
BY DEF Leaves

(* Rows are written to an operand. *)
LEMMA PutLeaves ==
  ASSUME NEW m, NEW o, NEW rows, NEW T, o.buffer[1] \in T
  PROVE  Leaves(m, Put(m, o, rows), T)
BY SetLeaves DEF Put

(* A row-wise stage writes to its operands. *)
LEMMA StageLeaves ==
  ASSUME NEW m, NEW k, NEW T, ToTags(k.to, T)
  PROVE  Leaves(m, RunStage(m, k), T)
<1> DEFINE N == Len(k.to)
<1>1. N \in Nat
  BY SeqFacts DEF ToTags
<1>2. PICK f, x : Steps(f, "stage", x, m, N) /\ RunStage(m, k) = f[N] /\ x.k = k
  BY <1>1, RunStageSteps
<1> DEFINE P == {i \in 0 .. N : Leaves(m, f[i], T)}
<1>3. 0 \in P
  BY <1>1, <1>2, LeavesSelf DEF Steps
<1>4. ASSUME NEW i \in 1 .. N, i - 1 \in P PROVE i \in P
  <2>1. f[i] = Put(f[i - 1], k.to[i], [r \in 1..x.k.rows |-> StageRow(x.mem, x.k, i, r)])
    BY <1>2 DEF Steps, Step
  <2>2. k.to[i].buffer[1] \in T
    BY DEF ToTags
  <2>3. Leaves(f[i - 1], f[i], T)
    BY <2>1, <2>2, PutLeaves
  <2>4. i \in 0 .. N /\ Leaves(m, f[i - 1], T)
    BY <1>1, <1>4
  <2> QED BY <2>3, <2>4, LeavesNext
<1>5. N \in P
  <2>1. N \in 0 .. N
    BY <1>1
  <2> HIDE DEF P, N
  <2> QED BY <1>1, <1>3, <1>4, <2>1, UpTo
<1> QED BY <1>2, <1>5

(* A row of the recurrence writes its states and its output. *)
LEMMA PrefillRowLeaves ==
  ASSUME NEW m, NEW k, NEW r, NEW T, k.op = "deltanet_prefill", Mild(k, T), r \in 1 .. k.rows
  PROVE  Leaves(m, PrefillRow(m, k, r), T)
<1>1. /\ k.rows \in Nat /\ k.to.buffer[1] \in T
      /\ \A part \in Parts : k.destination[part][1] \in T
      /\ k.kept = 0 \/ \A part \in Parts : k.snapshots[part][1] \in T
  BY DEF Mild
<1>2. ASSUME NEW part \in Parts PROVE Writes(k, part, r).buffer[1] \in T
  BY <1>1 DEF Writes, StateAt, From
<1>3. ASSUME NEW part \in Parts, r <= k.kept, k.kept > 1
      PROVE  StateAt(k.snapshots[part], r - 1).buffer[1] \in T
  BY <1>1, <1>3 DEF StateAt, From
<1> DEFINE next == [part \in {"conv", "recurrent"} |->
                  Advanced(part, k.layer, Row(m, Reads(k, part, r), 1),
                           Agreed(<<"channels", "z", "b", "a">>, k.layer, [i \in 1..4 |-> Row(m, k.from[i], r)]))]
           saved(w, part) ==
             IF r <= k.kept /\ k.kept > 1
             THEN Put(Put(w, Writes(k, part, r), <<next[part]>>), StateAt(k.snapshots[part], r - 1), <<next[part]>>)
             ELSE Put(w, Writes(k, part, r), <<next[part]>>)
<1>4. ASSUME NEW w, NEW part \in Parts PROVE Leaves(w, saved(w, part), T)
  <2> HIDE DEF next
  <2> PICK u : u = Put(w, Writes(k, part, r), <<next[part]>>) OBVIOUS
  <2>1. Leaves(w, u, T)
    BY <1>2, PutLeaves
  <2>2. CASE r <= k.kept /\ k.kept > 1
    <3>1. Leaves(u, Put(u, StateAt(k.snapshots[part], r - 1), <<next[part]>>), T)
      BY <1>3, <2>2, PutLeaves
    <3> QED BY <2>1, <2>2, <3>1, LeavesNext
  <2>3. CASE ~(r <= k.kept /\ k.kept > 1)
    BY <2>1, <2>3
  <2> QED BY <2>2, <2>3
<1>5. [k.to EXCEPT !.first = r - 1].buffer[1] \in T
  BY <1>1
<1>6. \E rows : PrefillRow(m, k, r) = Put(saved(saved(m, "conv"), "recurrent"), [k.to EXCEPT !.first = r - 1], rows)
  BY DEF PrefillRow
<1> HIDE DEF saved
<1>7. "conv" \in Parts /\ "recurrent" \in Parts
  BY DEF Parts
<1>8. Leaves(m, saved(m, "conv"), T) /\ Leaves(saved(m, "conv"), saved(saved(m, "conv"), "recurrent"), T)
  BY <1>4, <1>7
<1>9. Leaves(m, saved(saved(m, "conv"), "recurrent"), T)
  BY <1>8, LeavesNext
<1> PICK u : u = saved(saved(m, "conv"), "recurrent")
  OBVIOUS
<1>10. PICK rows : PrefillRow(m, k, r) = Put(u, [k.to EXCEPT !.first = r - 1], rows)
  BY <1>6
<1>11. Leaves(u, PrefillRow(m, k, r), T)
  BY <1>5, <1>10, PutLeaves
<1> QED BY <1>9, <1>11, LeavesNext

(* All the rows of the recurrence. *)
LEMMA PrefillLeaves ==
  ASSUME NEW m, NEW k, NEW T, k.op = "deltanet_prefill", Mild(k, T)
  PROVE  Leaves(m, RunPrefill(m, k), T)
<1> DEFINE N == k.rows
<1>1. N \in Nat
  BY DEF Mild
<1>2. PICK f : Steps(f, "rows", k, m, N) /\ RunPrefill(m, k) = f[N]
  BY <1>1, RunPrefillSteps
<1> DEFINE P == {i \in 0 .. N : Leaves(m, f[i], T)}
<1>3. 0 \in P
  BY <1>1, <1>2, LeavesSelf DEF Steps
<1>4. ASSUME NEW i \in 1 .. N, i - 1 \in P PROVE i \in P
  <2>1. f[i] = PrefillRow(f[i - 1], k, i)
    BY <1>2 DEF Steps, Step
  <2>2. Leaves(f[i - 1], f[i], T)
    BY <2>1, PrefillRowLeaves
  <2>4. i \in 0 .. N /\ Leaves(m, f[i - 1], T)
    BY <1>1, <1>4
  <2> QED BY <2>2, <2>4, LeavesNext
<1>5. N \in P
  <2>1. N \in 0 .. N
    BY <1>1
  <2> HIDE DEF P, N
  <2> QED BY <1>1, <1>3, <1>4, <2>1, UpTo
<1> QED BY <1>2, <1>5

(* A kernel leaves every buffer that it does not write to. *)
LEMMA MildLeaves ==
  ASSUME NEW m, NEW k, NEW T, Mild(k, T)
  PROVE  Leaves(m, Run(m, k), T)
<1>1. CASE k.op = "stage" /\ ToTags(k.to, T)
  BY <1>1, StageLeaves DEF Run
<1>2. CASE k.op = "conv" /\ k.state.buffer[1] \in T /\ k.to.buffer[1] \in T
  <2>1. Run(m, k) = RunConv(m, k)
    BY <1>2 DEF Run
  <2>2. \E a, b : RunConv(m, k) = Put(Put(m, k.state, a), k.to, b)
    BY DEF RunConv
  <2> QED BY <1>2, <2>1, <2>2, PutLeaves, LeavesNext
<1>3. CASE k.op = "recurrence" /\ k.state.buffer[1] \in T /\ k.to.buffer[1] \in T
  <2>1. Run(m, k) = RunRecurrence(m, k)
    BY <1>3 DEF Run
  <2>2. \E a, b : RunRecurrence(m, k) = Put(Put(m, k.state, a), k.to, b)
    BY DEF RunRecurrence
  <2> QED BY <1>3, <2>1, <2>2, PutLeaves, LeavesNext
<1>4. CASE k.op = "deltanet_prefill"
  BY <1>4, PrefillLeaves DEF Run
<1>5. CASE k.op = "scores" /\ k.scores[1] \in T
  BY <1>5, SetLeaves DEF Run, RunScores
<1>6. CASE k.op = "values" /\ k.to.buffer[1] \in T
  BY <1>6, PutLeaves DEF Run, RunValues
<1>7. CASE k.op = "attend" /\ k.to.buffer[1] \in T
  BY <1>7, PutLeaves DEF Run, RunAttend
<1>8. CASE k.op = "pair" /\ k.to.buffer[1] \in T
  BY <1>8, PutLeaves DEF Run, RunPair
<1>9. CASE k.op = "move" /\ k.to.buffer[1] \in T
  BY <1>9, PutLeaves DEF Run
<1>10. CASE k.op = "dequantize" /\ k.weights[1] \in T
  BY <1>10, SetLeaves DEF Run, RunDequantize
<1>11. CASE k.op = "gemm" /\ ToTags(k.product.to, T) /\ Len(k.product.to) = 1
  <2>1. Run(m, k) = RunGemm(m, k)
    BY <1>11 DEF Run
  <2>2. RunGemm(m, k) = RunStage(m, k.product) \/ \E rows : RunGemm(m, k) = Put(m, k.product.to[1], rows)
    BY DEF RunGemm
  <2>3. k.product.to[1].buffer[1] \in T
    BY <1>11 DEF ToTags
  <2> QED BY <1>11, <2>1, <2>2, <2>3, StageLeaves, PutLeaves
<1>12. CASE k.op = "select" /\ k.to.buffer[1] \in T /\ k.tokens.buffer[1] \in T
  <2>1. Run(m, k) = RunSelect(m, k)
    BY <1>12 DEF Run
  <2>2. \E a, b : RunSelect(m, k) = Put(Put(m, k.to, a), k.tokens, b)
    BY DEF RunSelect
  <2> QED BY <1>12, <2>1, <2>2, PutLeaves, LeavesNext
<1>13. CASE k.op = "embed" /\ k.buffer[1] \in T
  BY <1>13, SetLeaves DEF Run, RunEmbed
<1>14. CASE k.op = "fresh" /\ k.buffer[1] \in T
  BY <1>14, SetLeaves DEF Run
<1>15. CASE k.op = "ensure_cells" /\ k.buffer[1] \in T
  BY <1>15, SetLeaves, LeavesSelf DEF Run, Ensure
<1>16. CASE k.op = "ensure" /\ k.buffer[1] \in T
  BY <1>16, SetLeaves, LeavesSelf DEF Run, Ensure
<1>17. CASE k.op = "create" /\ k.owner \in T
  <2>1. Run(m, k) = Over(CreateDecodeState(k.owner, k.rows), m)
    BY <1>17 DEF Run
  <2>2. \A b \in DOMAIN CreateDecodeState(k.owner, k.rows) : b[1] = k.owner
    BY DEF CreateDecodeState, Buffer
  <2> QED BY <1>17, <2>1, <2>2 DEF Over, Leaves
<1>18. CASE k.op = "copy" /\ k.to[1] \in T
  BY <1>18, SetLeaves DEF Run, RunCopy
<1> QED
  BY <1>1, <1>2, <1>3, <1>4, <1>5, <1>6, <1>7, <1>8, <1>9, <1>10, <1>11, <1>12, <1>13, <1>14, <1>15,
     <1>16, <1>17, <1>18 DEF Mild

-----------------------------------------------------------------------------
(* Powers of two, as NextPowerOfTwo computes them.                          *)

Doubles(f, N) == f[0] = 1 /\ \A i \in 1 .. N : f[i] = 2 * f[i - 1]

PowersUpTo(f, N) == {f[i] : i \in 0 .. N}

(* NextPowerOfTwo chooses from the values of such a function. *)
LEMMA PowersExist ==
  ASSUME NEW N \in Nat
  PROVE  \E f \in [0 .. N -> Nat] : /\ Doubles(f, N)
                                    /\ NextPowerOfTwo(N) = CHOOSE c \in PowersUpTo(f, N) :
                                         c >= N /\ \A d \in PowersUpTo(f, N) : d >= N => c <= d
<1> DEFINE step == [i \in 1 .. N |-> [s \in Nat |-> 2 * s]]
           IsPower(f) == f = [i \in 0..N |-> IF i = 0 THEN 1 ELSE 2 * f[i - 1]]
           power == CHOOSE f : IsPower(f)
<1>1. step \in [1 .. N -> [Nat -> Nat]]
  OBVIOUS
<1>2. PICK g \in [0 .. N -> Nat] : Iterates(g, 1, step, N)
  <2> HIDE DEF step
  <2> QED BY <1>1, IterationExists
<1>3. Doubles(g, N)
  <2>1. ASSUME NEW i \in 1 .. N PROVE g[i] = 2 * g[i - 1]
    <3>1. i - 1 \in 0 .. N
      OBVIOUS
    <3>2. g[i - 1] \in Nat
      BY <3>1
    <3> QED BY <1>2, <3>2 DEF Iterates
  <2> QED BY <1>2, <2>1 DEF Doubles, Iterates
<1>4. IsPower(g)
  <2>1. ASSUME NEW i \in 0 .. N PROVE g[i] = IF i = 0 THEN 1 ELSE 2 * g[i - 1]
    <3>1. CASE i = 0
      BY <1>3, <3>1 DEF Doubles
    <3>2. CASE i # 0
      <4>1. i \in 1 .. N
        BY <3>2
      <4> QED BY <1>3, <3>2, <4>1 DEF Doubles
    <3> QED BY <3>1, <3>2
  <2> QED BY <2>1
<1>5. IsPower(power)
  <2> HIDE DEF IsPower
  <2> QED BY <1>4
<1>6. NextPowerOfTwo(N) = CHOOSE c \in PowersUpTo(power, N) : c >= N /\ \A d \in PowersUpTo(power, N) : d >= N => c <= d
  BY DEF NextPowerOfTwo, PowersUpTo
<1> HIDE DEF power
<1>7. \A i \in 0 .. N : power[i] = IF i = 0 THEN 1 ELSE 2 * power[i - 1]
  BY <1>5
<1>8. power = [i \in 0 .. N |-> power[i]]
  BY <1>5
<1>9. Doubles(power, N)
  <2>1. ASSUME NEW i \in 1 .. N PROVE power[i] = 2 * power[i - 1]
    <3>1. i \in 0 .. N /\ i # 0
      OBVIOUS
    <3> QED BY <1>7, <3>1
  <2> QED BY <1>7, <2>1 DEF Doubles
<1>10. \A i \in 0 .. N : power[i] \in Nat
  <2> DEFINE P == {i \in 0 .. N : power[i] \in Nat}
  <2>1. 0 \in P
    BY <1>9 DEF Doubles
  <2>2. ASSUME NEW i \in 1 .. N, i - 1 \in P PROVE i \in P
    <3>1. power[i] = 2 * power[i - 1] /\ power[i - 1] \in Nat /\ i \in 0 .. N
      BY <1>9, <2>2 DEF Doubles
    <3> QED BY <3>1
  <2>3. \A i \in 0 .. N : i \in P
    <3> HIDE DEF P
    <3> QED BY <2>1, <2>2, UpTo
  <2> QED BY <2>3
<1>11. power \in [0 .. N -> Nat]
  BY <1>8, <1>10
<1> QED BY <1>6, <1>9, <1>11

(* They grow, and two such functions agree. *)
LEMMA PowersGrow ==
  ASSUME NEW N \in Nat, NEW f \in [0 .. N -> Nat], Doubles(f, N)
  PROVE  \A i \in 0 .. N : f[i] > i
<1> DEFINE P == {i \in 0 .. N : f[i] > i}
<1>1. 0 \in P
  BY DEF Doubles
<1>2. ASSUME NEW i \in 1 .. N, i - 1 \in P PROVE i \in P
  <2>1. f[i] = 2 * f[i - 1] /\ f[i - 1] > i - 1 /\ f[i - 1] \in Nat /\ i \in 0 .. N
    BY <1>2 DEF Doubles
  <2> QED BY <2>1
<1>3. \A i \in 0 .. N : i \in P
  <2> HIDE DEF P
  <2> QED BY <1>1, <1>2, UpTo
<1> QED BY <1>3

(* For a smaller number it is the same function. *)
LEMMA PowersAgree ==
  ASSUME NEW N \in Nat, NEW M \in 0 .. N, NEW f, NEW g, Doubles(f, N), Doubles(g, M)
  PROVE  \A i \in 0 .. M : f[i] = g[i]
<1> DEFINE P == {i \in 0 .. M : f[i] = g[i]}
<1>1. 0 \in P
  BY DEF Doubles
<1>2. ASSUME NEW i \in 1 .. M, i - 1 \in P PROVE i \in P
  <2>1. i \in 1 .. N /\ i \in 0 .. M
    OBVIOUS
  <2> QED BY <1>2, <2>1 DEF Doubles
<1>3. \A i \in 0 .. M : i \in P
  <2> HIDE DEF P
  <2> QED BY <1>1, <1>2, UpTo
<1> QED BY <1>3

(* A capacity: the next power of two of anything. *)
IsCapacity(c) == c \in Nat /\ c >= MinCapacity /\ NextPowerOfTwo(c) = c

(* NextPowerOfTwo rounds up, to a number it leaves as it is. *)
LEMMA NextPower ==
  ASSUME NEW N \in Nat
  PROVE  NextPowerOfTwo(N) \in Nat /\ NextPowerOfTwo(N) >= N
         /\ NextPowerOfTwo(NextPowerOfTwo(N)) = NextPowerOfTwo(N)
<1>1. PICK f \in [0 .. N -> Nat] :
        /\ Doubles(f, N)
        /\ NextPowerOfTwo(N) = CHOOSE c \in PowersUpTo(f, N) :
             c >= N /\ \A d \in PowersUpTo(f, N) : d >= N => c <= d
  BY PowersExist
<1> DEFINE over == {d \in PowersUpTo(f, N) : d >= N}
<1>2. over \in SUBSET Nat /\ over # {}
  <2>1. f[N] > N /\ f[N] \in PowersUpTo(f, N)
    <3>1. N \in 0 .. N
      OBVIOUS
    <3> QED BY <1>1, <3>1, PowersGrow DEF PowersUpTo
  <2>2. \A d \in PowersUpTo(f, N) : d \in Nat
    BY DEF PowersUpTo
  <2> QED BY <2>1, <2>2
<1>3. PICK c \in over : \A d \in over : c <= d
  <2> HIDE DEF over
  <2> QED BY <1>2, LeastElement
<1>4. c \in PowersUpTo(f, N) /\ c >= N /\ \A d \in PowersUpTo(f, N) : d >= N => c <= d
  BY <1>3
<1> DEFINE p == NextPowerOfTwo(N)
<1>5. p \in PowersUpTo(f, N) /\ p >= N
  BY <1>1, <1>4
<1> HIDE DEF p
<1>6. PICK i \in 0 .. N : p = f[i]
  BY <1>5 DEF PowersUpTo
<1>7. p \in Nat /\ p > i
  BY <1>1, <1>6, PowersGrow
<1>8. PICK g \in [0 .. p -> Nat] :
        /\ Doubles(g, p)
        /\ NextPowerOfTwo(p) = CHOOSE c2 \in PowersUpTo(g, p) :
             c2 >= p /\ \A d \in PowersUpTo(g, p) : d >= p => c2 <= d
  BY <1>7, PowersExist
<1>9. g[i] = p
  <2>1. i \in Nat /\ i \in 0 .. N /\ i \in 0 .. p /\ i \in 0 .. i
    BY <1>7
  <2>2. Doubles(f, i)
    BY <1>1, <2>1 DEF Doubles
  <2>3. \A j \in 0 .. i : g[j] = f[j]
    BY <1>7, <1>8, <2>1, <2>2, PowersAgree
  <2> QED BY <1>6, <2>1, <2>3
<1>10. p \in PowersUpTo(g, p)
  <2>1. i \in 0 .. p
    BY <1>7
  <2> QED BY <1>9, <2>1 DEF PowersUpTo
<1>11. \A d \in PowersUpTo(g, p) : d \in Nat
  BY DEF PowersUpTo
<1> DEFINE q == NextPowerOfTwo(p)
<1>12. q \in PowersUpTo(g, p) /\ q >= p /\ \A d \in PowersUpTo(g, p) : d >= p => q <= d
  <2>1. p \in PowersUpTo(g, p) /\ p >= p /\ \A d \in PowersUpTo(g, p) : d >= p => p <= d
    BY <1>7, <1>10
  <2> QED BY <1>8, <2>1
<1> HIDE DEF q
<1>13. q = p
  BY <1>7, <1>10, <1>11, <1>12
<1> QED BY <1>5, <1>7, <1>13 DEF p, q

(* reserve: the new capacity of a cache is one. *)
LEMMA LargerIsCapacity ==
  ASSUME NEW N \in Nat, MinCapacity \in Nat, NextPowerOfTwo(MinCapacity) = MinCapacity
  PROVE  LET c == Larger(NextPowerOfTwo(N), MinCapacity) IN IsCapacity(c) /\ c >= N
BY NextPower DEF Larger, IsCapacity

-----------------------------------------------------------------------------
(* The cells of a cache.                                                    *)

Holds(cells, active) ==
  IsSeq(cells) /\ IsCapacity(Len(cells)) /\ active \in Nat /\ active <= Len(cells)

SameFirst(c, d, n) == \A t \in 1 .. n : d[t] = c[t]

(* Cells that hold nothing. *)
LEMMA UnsetIsSeq ==
  ASSUME NEW n \in Nat
  PROVE  IsSeq(Unset(n)) /\ Len(Unset(n)) = n
<1>1. Unset(n) = [i \in 1 .. n |-> Unset(n)[i]]
  BY DEF Unset
<1> QED BY <1>1, FunctionIsSeq

(* The cells of a row. *)
LEMMA RowOfIsSeq ==
  ASSUME NEW v, NEW w \in Nat
  PROVE  IsSeq(RowOf(v, w)) /\ Len(RowOf(v, w)) = w
<1>1. RowOf(v, w) = [i \in 1 .. w |-> RowOf(v, w)[i]]
  BY DEF RowOf
<1> QED BY <1>1, FunctionIsSeq

(* The beginning of a sequence. *)
BeginsWith(c, d, n) == IsSeq(d) /\ Len(d) = n /\ SameFirst(c, d, n)

(* SubSeq from the first. *)
LEMMA Beginning ==
  ASSUME NEW c, IsSeq(c), NEW n \in 0 .. Len(c)
  PROVE  BeginsWith(c, SubSeq(c, 1, n), n)
<1>1. Len(c) \in Nat /\ c \in Seq(Range(c))
  BY DEF IsSeq
<1>2. SubSeq(c, 1, n) \in Seq(Range(c)) /\ Len(SubSeq(c, 1, n)) = n
  BY <1>1, BeginningOf
<1>3. \A t \in 1 .. n : SubSeq(c, 1, n)[t] = c[t]
  BY <1>1, BeginningOf
<1> QED BY <1>2, <1>3, SeqOfAny DEF BeginsWith, SameFirst

(* reserve copies what the cache holds and makes the room asked for. *)
LEMMA ReserveKeeps ==
  ASSUME MinCapacity \in Nat, NextPowerOfTwo(MinCapacity) = MinCapacity,
         NEW c, NEW a, Holds(c, a), NEW required \in Nat
  PROVE  LET d == Reserve(c, a, required)
         IN  Holds(d, a) /\ Len(d) >= required /\ Len(d) >= Len(c) /\ SameFirst(c, d, a)
<1>1. CASE required <= Len(c)
  BY <1>1 DEF Reserve, Holds, SameFirst, IsCapacity
<1>2. CASE ~(required <= Len(c))
  <2> DEFINE p == Larger(NextPowerOfTwo(required), MinCapacity)
             u == SubSeq(c, 1, a)
             v == Unset(p - a)
  <2>1. IsCapacity(p) /\ p >= required
    BY LargerIsCapacity
  <2> HIDE DEF p
  <2>2. p \in Nat /\ a \in 0 .. Len(c) /\ Len(c) \in Nat /\ p - a \in Nat /\ p >= Len(c)
    BY <1>2, <2>1 DEF Holds, IsCapacity
  <2>3. BeginsWith(c, u, a)
    BY <2>2, Beginning DEF Holds
  <2>4. IsSeq(v) /\ Len(v) = p - a
    BY <2>2, UnsetIsSeq
  <2>5. Reserve(c, a, required) = u \o v
    BY <1>2 DEF Reserve, p
  <2> HIDE DEF u, v
  <2>6. ConcatIs(u, v, u \o v)
    BY <2>3, <2>4, Concat DEF BeginsWith
  <2>7. IsSeq(u \o v) /\ Len(u \o v) = p /\ \A t \in 1 .. a : (u \o v)[t] = c[t]
    BY <2>2, <2>3, <2>4, <2>6 DEF ConcatIs, BeginsWith, SameFirst
  <2> QED BY <2>1, <2>2, <2>5, <2>7 DEF Holds, SameFirst
<1> QED BY <1>1, <1>2

(* Cells written behind what is held. *)
LEMMA OverwrittenKeeps ==
  ASSUME NEW c, NEW new, IsSeq(c), IsSeq(new), NEW base \in Nat
  PROVE  LET d == Overwritten(c, base, new)
         IN  /\ IsSeq(d) /\ Len(d) = Len(c)
             /\ base + Len(new) <= Len(c) => SameFirst(c, d, base) /\ \A t \in 1 .. Len(new) : d[base + t] = new[t]
<1>0. Len(c) \in Nat /\ Len(new) \in Nat
  BY SeqFacts
<1>1. CASE base + Len(new) > Len(c)
  <2>1. Overwritten(c, base, new) = Unset(Len(c))
    BY <1>1 DEF Overwritten
  <2> QED BY <1>0, <1>1, <2>1, UnsetIsSeq
<1>2. CASE ~(base + Len(new) > Len(c))
  <2> DEFINE u == SubSeq(c, 1, base)
             v == SubSeq(c, base + Len(new) + 1, Len(c))
  <2>1. base \in 0 .. Len(c)
    BY <1>0, <1>2
  <2>2. BeginsWith(c, u, base)
    BY <2>1, Beginning
  <2>3. IsSeq(v) /\ Len(v) = Len(c) - (base + Len(new))
    <3> PICK a : a = base + Len(new) + 1 OBVIOUS
    <3>1. c \in Seq(Range(c)) /\ a \in 1 .. Len(c) + 1 /\ a \in Nat
      BY <1>0, <1>2 DEF IsSeq
    <3>2. \A i \in a .. Len(c) : c[i] \in Range(c)
      <4>1. \A i \in a .. Len(c) : i \in 1 .. Len(c)
        BY <1>0, <3>1
      <4> QED BY <3>1, <4>1, ElementOfSeq
    <3>3. SubSeq(c, a, Len(c)) \in Seq(Range(c))
          /\ Len(SubSeq(c, a, Len(c))) = IF a <= Len(c) THEN Len(c) - a + 1 ELSE 0
      BY <1>0, <3>1, <3>2, SubSeqProperties
    <3>4. v = SubSeq(c, a, Len(c))
      OBVIOUS
    <3> HIDE DEF v
    <3>5. IsSeq(v)
      BY <3>3, <3>4, SeqOfAny
    <3>6. Len(v) = IF a <= Len(c) THEN Len(c) - a + 1 ELSE 0
      BY <3>3, <3>4
    <3>7. Len(v) = Len(c) - (base + Len(new))
      BY <1>0, <1>2, <3>1, <3>6
    <3> QED BY <3>5, <3>7
  <2>4. Overwritten(c, base, new) = (u \o new) \o v
    BY <1>2 DEF Overwritten
  <2> HIDE DEF u, v
  <2>5. ConcatIs(u, new, u \o new)
    BY <2>2, Concat DEF BeginsWith
  <2> PICK w : w = u \o new OBVIOUS
  <2>6. IsSeq(w) /\ Len(w) = base + Len(new)
    BY <2>2, <2>5 DEF ConcatIs, BeginsWith
  <2>7. ConcatIs(w, v, w \o v)
    BY <2>3, <2>6, Concat
  <2>8. IsSeq(w \o v) /\ Len(w \o v) = Len(c)
    BY <1>0, <1>2, <2>3, <2>6, <2>7 DEF ConcatIs
  <2>9. ASSUME NEW t \in 1 .. base PROVE (w \o v)[t] = c[t]
    <3>1. t \in 1 .. Len(w) /\ t \in 1 .. Len(u)
      BY <1>0, <2>2, <2>6 DEF BeginsWith
    <3> QED BY <2>2, <2>5, <2>7, <3>1 DEF ConcatIs, BeginsWith, SameFirst
  <2>10. ASSUME NEW t \in 1 .. Len(new) PROVE (w \o v)[base + t] = new[t]
    <3>1. base + t \in 1 .. Len(w) /\ base + t = Len(u) + t
      BY <1>0, <2>2, <2>6 DEF BeginsWith
    <3>2. w[Len(u) + t] = new[t]
      BY <2>5 DEF ConcatIs
    <3> QED BY <2>7, <3>1, <3>2 DEF ConcatIs
  <2> QED BY <2>4, <2>8, <2>9, <2>10 DEF SameFirst
<1> QED BY <1>0, <1>1, <1>2

(* Rows of w cells each. *)
LEMMA FilledLength ==
  ASSUME NEW vs, IsSeq(vs), NEW w \in Nat
  PROVE  /\ IsSeq(Filled(vs, w)) /\ Len(Filled(vs, w)) = Len(vs) * w
         /\ Len(vs) >= 1 => \A t \in 1 .. w : Filled(vs, w)[t] = <<vs[1], t>>
<1> DEFINE N == Len(vs)
           rows == [r \in 1 .. N |-> RowOf(vs[r], w)]
<1>1. N \in Nat /\ DOMAIN vs = 1 .. N
  BY SeqFacts
<1>2. IsSeq(rows) /\ Len(rows) = N
  <2>1. rows = [r \in 1 .. N |-> rows[r]]
    OBVIOUS
  <2> HIDE DEF rows, N
  <2> QED BY <1>1, <2>1, FunctionIsSeq
<1>3. \A r \in 1 .. N : rows[r] = RowOf(vs[r], w)
  OBVIOUS
<1>4. Filled(vs, w) = Joined(rows)
  BY <1>1 DEF Filled
<1> HIDE DEF rows, N
<1>5. \A r \in 1 .. N : IsSeq(rows[r]) /\ Len(rows[r]) = w
  BY <1>3, RowOfIsSeq
<1>6. PICK F : JoinedBy(F, rows) /\ Joined(rows) = F[N]
  BY <1>2, <1>5, JoinedSteps
<1> DEFINE P == {n \in 0 .. N : /\ Len(F[n]) = n * w
                                /\ n >= 1 => \A t \in 1 .. w : F[n][t] = <<vs[1], t>>}
<1>7. 0 \in P
  BY <1>1, <1>6, IsSeqEmpty DEF JoinedBy
<1>8. ASSUME NEW n \in 1 .. N, n - 1 \in P PROVE n \in P
  <2>1. F[n] = F[n - 1] \o rows[n] /\ IsSeq(F[n - 1]) /\ Len(F[n - 1]) = (n - 1) * w /\ n - 1 \in 0 .. N /\ n \in 0 .. N
    <3>1. n \in 1 .. Len(rows) /\ n - 1 \in 0 .. Len(rows) /\ n - 1 \in 0 .. N /\ n \in 0 .. N
      BY <1>1, <1>2
    <3>2. F[n] = F[n - 1] \o rows[n] /\ IsSeq(F[n - 1])
      BY <1>6, <3>1 DEF JoinedBy
    <3>3. Len(F[n - 1]) = (n - 1) * w
      BY <1>8
    <3> QED BY <3>1, <3>2, <3>3
  <2>2. ConcatIs(F[n - 1], rows[n], F[n])
    BY <1>5, <2>1, Concat
  <2>3. Len(F[n]) = (n - 1) * w + w
    BY <1>5, <2>1, <2>2 DEF ConcatIs
  <2>4. (n - 1) * w + w = n * w
    BY <1>1
  <2>5. ASSUME NEW t \in 1 .. w PROVE F[n][t] = <<vs[1], t>>
    <3>1. CASE n = 1
      <4>1. Len(F[0]) = 0 /\ F[1][0 + t] = rows[1][t]
        BY <1>1, <1>5, <1>6, <2>2, <3>1, IsSeqEmpty DEF ConcatIs, JoinedBy
      <4>2. 0 + t = t /\ 1 \in 1 .. N
        BY <3>1
      <4>3. rows[1][t] = <<vs[1], t>>
        BY <1>3, <4>2 DEF RowOf
      <4> QED BY <3>1, <4>1, <4>2, <4>3
    <3>2. CASE n # 1
      <4>1. n - 1 >= 1
        BY <1>1, <3>2
      <4>2. t \in 1 .. (n - 1) * w
        <5>1. (n - 1) * w >= w
          BY <1>1, <4>1
        <5>2. (n - 1) * w \in Nat
          BY <1>1, <4>1
        <5> QED BY <5>1, <5>2
      <4>3. F[n - 1][t] = <<vs[1], t>>
        BY <1>8, <4>1
      <4> QED BY <2>1, <2>2, <4>2, <4>3 DEF ConcatIs
    <3> QED BY <3>1, <3>2
  <2> QED BY <2>1, <2>3, <2>4, <2>5
<1>9. N \in P
  <2>1. N \in 0 .. N
    BY <1>1
  <2> HIDE DEF P
  <2> QED BY <1>1, <1>7, <1>8, <2>1, UpTo
<1>10. N \in 0 .. N
  BY <1>1
<1> QED BY <1>4, <1>6, <1>2, <1>9, <1>10 DEF JoinedBy, N

-----------------------------------------------------------------------------
(* Calls that keep what the caches hold.  x says which buffers a call may    *)
(* write to (x.owners), how long the caches are (x.length) and by how much    *)
(* it will extend them (x.new).                                              *)

Reserving(k, l, x, required) == k = ReserveKv(Kv(l), x.length[l], required)

Appending(k, l, x) == k.op = "append" /\ k.kv = Kv(l) /\ k.start = x.length[l] /\ k.rows = x.new[l]

(* Kernel i of ks is mild, or makes room in a cache, or writes behind what a *)
(* cache holds when there is room: of the caches P there is from the start.  *)
OrderlyAt(ks, i, x, P) ==
  \/ Mild(ks[i], x.owners)
  \/ \E l \in Caches, required \in Nat : Reserving(ks[i], l, x, required)
  \/ \E l \in DOMAIN x.new :
       /\ Appending(ks[i], l, x)
       /\ l \in P \/ \E j \in 1 .. i - 1 : Reserving(ks[j], l, x, x.length[l] + x.new[l])

Orderly(ks, x, P) == IsSeq(ks) /\ \A i \in 1 .. Len(ks) : OrderlyAt(ks, i, x, P)

Reserves(ks, l, x, required) == \E j \in 1 .. Len(ks) : Reserving(ks[j], l, x, required)

(* x is about the caches. *)
Sensible(x) ==
  /\ "kv" \notin x.owners
  /\ DOMAIN x.new \subseteq Caches
  /\ \A l \in DOMAIN x.new : x.new[l] \in Nat
  /\ \A l \in Caches : x.length[l] \in Nat

CachesHold(m, x) == \A l \in Caches : Kv(l) \in DOMAIN m /\ Holds(m[Kv(l)], x.length[l])

After(m, n, x) ==
  /\ Leaves(m, n, x.owners \cup {"kv"})
  /\ CachesHold(n, x)
  /\ \A l \in Caches : /\ SameFirst(m[Kv(l)], n[Kv(l)], x.length[l])
                       /\ Len(n[Kv(l)]) >= Len(m[Kv(l)])

CapacityAssumption == MinCapacity \in Nat /\ NextPowerOfTwo(MinCapacity) = MinCapacity

(* Nothing ran. *)
LEMMA AfterSelf ==
  ASSUME NEW m, NEW x, CachesHold(m, x) PROVE After(m, m, x)
<1>1. \A l \in Caches : Len(m[Kv(l)]) \in Nat
  BY DEF CachesHold, Holds, IsCapacity
<1> QED BY <1>1, LeavesSelf DEF After, SameFirst

(* One kernel, then others. *)
LEMMA AfterNext ==
  ASSUME NEW m, NEW n, NEW o, NEW x, Sensible(x), CachesHold(m, x), After(m, n, x), After(n, o, x)
  PROVE  After(m, o, x)
<1>1. Leaves(m, o, x.owners \cup {"kv"})
  BY LeavesNext DEF After
<1>2. \A l \in Caches : /\ SameFirst(m[Kv(l)], o[Kv(l)], x.length[l])
  BY DEF After, SameFirst
<1>3. \A l \in Caches : Len(m[Kv(l)]) \in Nat /\ Len(n[Kv(l)]) \in Nat /\ Len(o[Kv(l)]) \in Nat
  BY DEF After, CachesHold, Holds, IsCapacity
<1>4. \A l \in Caches : Len(o[Kv(l)]) >= Len(m[Kv(l)])
  BY <1>3 DEF After
<1> QED BY <1>1, <1>2, <1>4 DEF After

(* A kernel that is no cache's. *)
LEMMA MildRuns ==
  ASSUME NEW m, NEW k, NEW x, Sensible(x), CachesHold(m, x), Mild(k, x.owners)
  PROVE  After(m, Run(m, k), x)
<1> DEFINE n == Run(m, k)
<1>1. Leaves(m, n, x.owners)
  BY MildLeaves
<1> HIDE DEF n
<1>2. \A l \in Caches : n[Kv(l)] = m[Kv(l)] /\ Kv(l) \in DOMAIN n
  <2>1. \A l \in Caches : Kv(l)[1] = "kv" /\ Kv(l) \in DOMAIN m
    BY DEF Kv, CachesHold
  <2> QED BY <1>1, <2>1 DEF Leaves, Sensible
<1>3. Leaves(m, n, x.owners \cup {"kv"})
  BY <1>1, LeavesMore
<1>4. \A l \in Caches : Len(m[Kv(l)]) \in Nat
  BY DEF CachesHold, Holds, IsCapacity
<1>5. CachesHold(n, x)
  BY <1>2 DEF CachesHold
<1>6. \A l \in Caches : SameFirst(m[Kv(l)], n[Kv(l)], x.length[l]) /\ Len(n[Kv(l)]) >= Len(m[Kv(l)])
  BY <1>2, <1>4 DEF SameFirst
<1>7. After(m, n, x)
  BY <1>3, <1>5, <1>6 DEF After
<1> QED BY <1>7 DEF n

(* A kernel that changes one cache only, and keeps the beginning. *)
LEMMA CacheRuns ==
  ASSUME NEW m, NEW x, Sensible(x), CachesHold(m, x), NEW l \in Caches, NEW d,
         Holds(d, x.length[l]), SameFirst(m[Kv(l)], d, x.length[l]), Len(d) >= Len(m[Kv(l)])
  PROVE  After(m, [m EXCEPT ![Kv(l)] = d], x)
<1> DEFINE n == [m EXCEPT ![Kv(l)] = d]
<1>1. Leaves(m, n, x.owners \cup {"kv"})
  BY SetLeaves DEF Kv
<1>2. \A h \in Caches : Kv(h) \in DOMAIN n /\ n[Kv(h)] = IF h = l THEN d ELSE m[Kv(h)]
  BY DEF Kv, CachesHold
<1> HIDE DEF n
<1>3. \A h \in Caches : Len(m[Kv(h)]) \in Nat
  BY DEF CachesHold, Holds, IsCapacity
<1>4. CachesHold(n, x)
  BY <1>2 DEF CachesHold
<1>5. \A h \in Caches : SameFirst(m[Kv(h)], n[Kv(h)], x.length[h]) /\ Len(n[Kv(h)]) >= Len(m[Kv(h)])
  BY <1>2, <1>3 DEF SameFirst
<1>6. After(m, n, x)
  BY <1>1, <1>4, <1>5 DEF After
<1> QED BY <1>6 DEF n

(* Room is made. *)
LEMMA ReserveRuns ==
  ASSUME CapacityAssumption, NEW m, NEW k, NEW x, Sensible(x), CachesHold(m, x),
         NEW l \in Caches, NEW required \in Nat, Reserving(k, l, x, required)
  PROVE  After(m, Run(m, k), x) /\ Len(Run(m, k)[Kv(l)]) >= required
<1> DEFINE d == Reserve(m[Kv(l)], x.length[l], required)
<1>1. Run(m, k) = [m EXCEPT ![Kv(l)] = d]
  BY DEF Run, Reserving, ReserveKv
<1>2. Holds(m[Kv(l)], x.length[l]) /\ Kv(l) \in DOMAIN m
  BY DEF CachesHold
<1>3. Holds(d, x.length[l]) /\ Len(d) >= required /\ Len(d) >= Len(m[Kv(l)]) /\ SameFirst(m[Kv(l)], d, x.length[l])
  BY <1>2, ReserveKeeps DEF CapacityAssumption
<1> HIDE DEF d
<1>4. After(m, [m EXCEPT ![Kv(l)] = d], x)
  BY <1>3, CacheRuns
<1>5. [m EXCEPT ![Kv(l)] = d][Kv(l)] = d
  BY <1>2
<1> QED BY <1>1, <1>3, <1>4, <1>5

(* Rows are appended where there is room. *)
LEMMA AppendRuns ==
  ASSUME NEW m, NEW k, NEW x, Sensible(x), CachesHold(m, x),
         NEW l \in DOMAIN x.new, Appending(k, l, x), Len(m[Kv(l)]) >= x.length[l] + x.new[l]
  PROVE  After(m, Run(m, k), x)
<1>1. l \in Caches /\ x.length[l] \in Nat /\ x.new[l] \in Nat
  BY DEF Sensible
<1>2. Holds(m[Kv(l)], x.length[l]) /\ Kv(l) \in DOMAIN m
  BY <1>1 DEF CachesHold
<1> DEFINE vs == [r \in 1..k.rows |->
         LET ctx == Agreed(<<"key", "value">>, k.layer, <<Row(m, k.key, r), Row(m, k.value, r)>>)
         IN  IF ctx = <<>> THEN Junk ELSE Val("kv", k.layer, ctx)]
           d == Overwritten(m[Kv(l)], k.start * 1, Filled(vs, 1))
<1>3. Run(m, k) = [m EXCEPT ![Kv(l)] = d]
  BY DEF Run, Appending, RunAppend, Write
<1>4. IsSeq(vs) /\ Len(vs) = x.new[l]
  <2>1. k.rows \in Nat /\ k.rows = x.new[l]
    BY <1>1 DEF Appending
  <2>2. vs = [r \in 1 .. k.rows |-> vs[r]]
    OBVIOUS
  <2> HIDE DEF vs
  <2> QED BY <2>1, <2>2, FunctionIsSeq
<1> HIDE DEF vs
<1>5. IsSeq(Filled(vs, 1)) /\ Len(Filled(vs, 1)) = x.new[l]
  <2>1. IsSeq(Filled(vs, 1)) /\ Len(Filled(vs, 1)) = Len(vs) * 1
    BY <1>4, FilledLength
  <2> QED BY <1>1, <1>4, <2>1
<1>6. k.start * 1 = x.length[l]
  BY <1>1 DEF Appending
<1>7. IsSeq(d) /\ Len(d) = Len(m[Kv(l)]) /\ SameFirst(m[Kv(l)], d, x.length[l])
  <2> PICK new : new = Filled(vs, 1)
    OBVIOUS
  <2>1. IsSeq(m[Kv(l)]) /\ x.length[l] + Len(new) <= Len(m[Kv(l)])
    BY <1>1, <1>2, <1>5 DEF Holds, IsCapacity
  <2> QED BY <1>1, <1>5, <1>6, <2>1, OverwrittenKeeps
<1> HIDE DEF d
<1>8. Holds(d, x.length[l]) /\ Len(d) >= Len(m[Kv(l)])
  BY <1>2, <1>7 DEF Holds, IsCapacity
<1>9. After(m, [m EXCEPT ![Kv(l)] = d], x)
  BY <1>1, <1>7, <1>8, CacheRuns
<1> QED BY <1>3, <1>9

(* An orderly sequence keeps what the caches hold and makes the room that it reserves. *)
LEMMA OrderlyRuns ==
  ASSUME CapacityAssumption, NEW ks, NEW x, NEW P, Orderly(ks, x, P), Sensible(x),
         NEW m, CachesHold(m, x), \A l \in P : Len(m[Kv(l)]) >= x.length[l] + x.new[l]
  PROVE  /\ After(m, RunAll(m, ks), x)
         /\ \A l \in Caches, required \in Nat :
              Reserves(ks, l, x, required) => Len(RunAll(m, ks)[Kv(l)]) >= required
<1> DEFINE N == Len(ks)
<1>1. N \in Nat
  BY SeqFacts DEF Orderly
<1>2. PICK f : Steps(f, "kernels", ks, m, N) /\ RunAll(m, ks) = f[N]
  BY <1>1, RunAllSteps
<1> DEFINE Roomy(i) == \A l \in Caches, required \in Nat, j \in 1 .. i :
                         Reserving(ks[j], l, x, required) => Len(f[i][Kv(l)]) >= required
           Q == {i \in 0 .. N : After(m, f[i], x) /\ Roomy(i)}
<1>3. 0 \in Q
  <2>1. f[0] = m
    BY <1>2 DEF Steps
  <2> QED BY <1>1, <2>1, AfterSelf
<1>4. ASSUME NEW i \in 1 .. N, i - 1 \in Q PROVE i \in Q
  <2> DEFINE n == f[i - 1]
  <2>1. /\ After(m, n, x) /\ i \in 0 .. N
        /\ \A l \in Caches, required \in Nat, j \in 1 .. i - 1 :
                         Reserving(ks[j], l, x, required) => Len(n[Kv(l)]) >= required
    BY <1>1, <1>4
  <2>2. f[i] = RunNext(n, ks[i])
    BY <1>2 DEF Steps, Step
  <2> HIDE DEF n
  <2>3. n # <<>>
    <3>1. Adapter \in Caches
      BY DEF Caches
    <3>2. Kv(Adapter) \in DOMAIN n
      BY <2>1, <3>1 DEF After, CachesHold
    <3>3. DOMAIN <<>> = {}
      OBVIOUS
    <3> QED BY <3>2, <3>3
  <2>4. f[i] = Run(n, ks[i])
    BY <2>2, <2>3 DEF RunNext
  <2>5. CachesHold(n, x) /\ OrderlyAt(ks, i, x, P)
    BY <2>1 DEF After, Orderly
  <2>6. /\ After(n, f[i], x)
        /\ \A l \in Caches, required \in Nat : Reserving(ks[i], l, x, required) => Len(f[i][Kv(l)]) >= required
    <3>1. ASSUME NEW l \in Caches, NEW required \in Nat, Reserving(ks[i], l, x, required)
          PROVE  After(n, f[i], x) /\ Len(f[i][Kv(l)]) >= required
      BY <2>4, <2>5, <3>1, ReserveRuns
    <3>2. CASE Mild(ks[i], x.owners)
      BY <2>4, <2>5, <3>1, <3>2, MildRuns
    <3>3. ASSUME NEW l \in DOMAIN x.new, Appending(ks[i], l, x),
                 l \in P \/ \E j \in 1 .. i - 1 : Reserving(ks[j], l, x, x.length[l] + x.new[l])
          PROVE  After(n, f[i], x)
      <4>1. l \in Caches /\ x.length[l] \in Nat /\ x.new[l] \in Nat /\ x.length[l] + x.new[l] \in Nat
        BY DEF Sensible
      <4>2. Len(n[Kv(l)]) \in Nat /\ Len(m[Kv(l)]) \in Nat /\ Len(n[Kv(l)]) >= Len(m[Kv(l)])
        BY <2>1, <4>1 DEF After, CachesHold, Holds, IsCapacity
      <4>3. Len(n[Kv(l)]) >= x.length[l] + x.new[l]
        <5>1. CASE l \in P
          <6>1. Len(m[Kv(l)]) >= x.length[l] + x.new[l]
            BY <5>1
          <6> QED BY <4>1, <4>2, <6>1
        <5>2. CASE \E j \in 1 .. i - 1 : Reserving(ks[j], l, x, x.length[l] + x.new[l])
          BY <2>1, <4>1, <5>2
        <5> QED BY <3>3, <5>1, <5>2
      <4> QED BY <2>4, <2>5, <3>3, <4>3, AppendRuns
    <3> QED BY <2>5, <3>1, <3>2, <3>3 DEF OrderlyAt
  <2>7. After(m, f[i], x)
    BY <2>1, <2>6, AfterNext
  <2>8. Roomy(i)
    <3> SUFFICES ASSUME NEW l \in Caches, NEW required \in Nat, NEW j \in 1 .. i, Reserving(ks[j], l, x, required)
                 PROVE  Len(f[i][Kv(l)]) >= required
      OBVIOUS
    <3>1. CASE j = i
      BY <2>6, <3>1
    <3>2. CASE j # i
      <4>1. j \in 1 .. i - 1
        BY <1>1, <3>2
      <4>2. Len(n[Kv(l)]) >= required
        BY <2>1, <4>1
      <4>3. Len(n[Kv(l)]) \in Nat /\ Len(f[i][Kv(l)]) \in Nat /\ Len(f[i][Kv(l)]) >= Len(n[Kv(l)])
        BY <2>5, <2>6 DEF After, CachesHold, Holds, IsCapacity
      <4> QED BY <4>2, <4>3
    <3> QED BY <3>1, <3>2
  <2> QED BY <2>1, <2>7, <2>8
<1>5. N \in Q
  <2>1. N \in 0 .. N
    BY <1>1
  <2> HIDE DEF Q, N
  <2> QED BY <1>1, <1>3, <1>4, <2>1, UpTo
<1> QED BY <1>2, <1>5 DEF Reserves

-----------------------------------------------------------------------------
(* Orderly sequences are made of orderly sequences.                         *)

(* Room made by either of two sequences. *)
LEMMA ReservesConcat ==
  ASSUME NEW a, NEW b, IsSeq(a), IsSeq(b), NEW l, NEW x, NEW required,
         Reserves(a, l, x, required) \/ Reserves(b, l, x, required)
  PROVE  Reserves(a \o b, l, x, required)
<1>1. ConcatIs(a, b, a \o b) /\ Len(a) \in Nat /\ Len(b) \in Nat
  BY Concat, SeqFacts
<1>2. CASE Reserves(a, l, x, required)
  <2>1. PICK j \in 1 .. Len(a) : Reserving(a[j], l, x, required)
    BY <1>2 DEF Reserves
  <2>2. (a \o b)[j] = a[j] /\ j \in 1 .. Len(a \o b)
    BY <1>1 DEF ConcatIs
  <2> QED BY <2>1, <2>2 DEF Reserves
<1>3. CASE Reserves(b, l, x, required)
  <2>1. PICK j \in 1 .. Len(b) : Reserving(b[j], l, x, required)
    BY <1>3 DEF Reserves
  <2>2. (a \o b)[Len(a) + j] = b[j] /\ Len(a) + j \in 1 .. Len(a \o b)
    BY <1>1 DEF ConcatIs
  <2> QED BY <2>1, <2>2 DEF Reserves
<1> QED BY <1>2, <1>3

(* What the first has made room for, the second may write to. *)
LEMMA OrderlyConcat ==
  ASSUME NEW a, NEW b, NEW x, NEW P, NEW Q, Orderly(a, x, P), Orderly(b, x, P \cup Q),
         \A l \in Q : Reserves(a, l, x, x.length[l] + x.new[l])
  PROVE  Orderly(a \o b, x, P)
<1> DEFINE c == a \o b
<1>1. IsSeq(a) /\ IsSeq(b)
  BY DEF Orderly
<1>2. ConcatIs(a, b, c) /\ Len(a) \in Nat /\ Len(b) \in Nat
  BY <1>1, Concat, SeqFacts
<1> HIDE DEF c
<1>3. ASSUME NEW i \in 1 .. Len(a) PROVE OrderlyAt(c, i, x, P)
  <2>1. OrderlyAt(a, i, x, P) /\ c[i] = a[i]
    BY <1>2 DEF Orderly, ConcatIs
  <2>2. \A j \in 1 .. i - 1 : c[j] = a[j]
    <3>1. \A j \in 1 .. i - 1 : j \in 1 .. Len(a)
      BY <1>2
    <3> QED BY <1>2, <3>1 DEF ConcatIs
  <2> QED BY <2>1, <2>2 DEF OrderlyAt
<1>4. ASSUME NEW i \in 1 .. Len(b) PROVE OrderlyAt(c, Len(a) + i, x, P)
  <2>1. OrderlyAt(b, i, x, P \cup Q) /\ c[Len(a) + i] = b[i]
    BY <1>2 DEF Orderly, ConcatIs
  <2>2. ASSUME NEW l, NEW required, NEW j \in 1 .. i - 1, Reserving(b[j], l, x, required)
        PROVE  \E h \in 1 .. (Len(a) + i) - 1 : Reserving(c[h], l, x, required)
    <3>1. j \in 1 .. Len(b) /\ Len(a) + j \in 1 .. (Len(a) + i) - 1
      BY <1>2
    <3>2. c[Len(a) + j] = b[j]
      BY <1>2, <3>1 DEF ConcatIs
    <3> QED BY <2>2, <3>1, <3>2
  <2>3. ASSUME NEW l \in Q
        PROVE  \E h \in 1 .. (Len(a) + i) - 1 : Reserving(c[h], l, x, x.length[l] + x.new[l])
    <3>1. PICK j \in 1 .. Len(a) : Reserving(a[j], l, x, x.length[l] + x.new[l])
      BY DEF Reserves
    <3>2. c[j] = a[j] /\ j \in 1 .. (Len(a) + i) - 1
      BY <1>2 DEF ConcatIs
    <3> QED BY <3>1, <3>2
  <2>4. CASE Mild(b[i], x.owners)
    BY <2>1, <2>4 DEF OrderlyAt
  <2>5. CASE \E l \in Caches, required \in Nat : Reserving(b[i], l, x, required)
    BY <2>1, <2>5 DEF OrderlyAt
  <2>6. ASSUME NEW l \in DOMAIN x.new, Appending(b[i], l, x),
               l \in P \cup Q \/ \E j \in 1 .. i - 1 : Reserving(b[j], l, x, x.length[l] + x.new[l])
        PROVE  OrderlyAt(c, Len(a) + i, x, P)
    <3>1. l \in P \/ \E h \in 1 .. (Len(a) + i) - 1 : Reserving(c[h], l, x, x.length[l] + x.new[l])
      BY <2>2, <2>3, <2>6
    <3> QED BY <2>1, <2>6, <3>1 DEF OrderlyAt
  <2> QED BY <2>1, <2>4, <2>5, <2>6 DEF OrderlyAt
<1>5. ASSUME NEW i \in 1 .. Len(c) PROVE OrderlyAt(c, i, x, P)
  <2>1. Len(c) = Len(a) + Len(b)
    BY <1>2 DEF ConcatIs
  <2>2. CASE i <= Len(a)
    <3>1. i \in 1 .. Len(a)
      BY <1>2, <2>2
    <3> QED BY <1>3, <3>1
  <2>3. CASE ~(i <= Len(a))
    <3>1. i - Len(a) \in 1 .. Len(b) /\ Len(a) + (i - Len(a)) = i
      BY <1>2, <2>1, <2>3
    <3>2. OrderlyAt(c, Len(a) + (i - Len(a)), x, P)
      BY <1>4, <3>1
    <3> QED BY <3>1, <3>2
  <2> QED BY <2>2, <2>3
<1>6. Orderly(c, x, P)
  BY <1>2, <1>5 DEF Orderly, ConcatIs
<1> QED BY <1>6 DEF c

(* Two sequences that need no room of each other. *)
LEMMA OrderlyBoth ==
  ASSUME NEW a, NEW b, NEW x, NEW P, Orderly(a, x, P), Orderly(b, x, P)
  PROVE  Orderly(a \o b, x, P)
<1> PICK Q : Q = {}
  OBVIOUS
<1>1. Orderly(b, x, P \cup Q)
  <2>1. P \cup Q = P
    OBVIOUS
  <2> QED BY <2>1
<1>2. \A l \in Q : Reserves(a, l, x, x.length[l] + x.new[l])
  OBVIOUS
<1> QED BY <1>1, <1>2, OrderlyConcat

(* No kernels. *)
LEMMA OrderlyNone ==
  ASSUME NEW x, NEW P PROVE Orderly(<<>>, x, P)
BY IsSeqEmpty DEF Orderly

(* Any number of sequences. *)
LEMMA OrderlyJoined ==
  ASSUME NEW ss, NEW x, NEW P, IsSeq(ss), \A i \in 1 .. Len(ss) : Orderly(ss[i], x, P)
  PROVE  /\ Orderly(Joined(ss), x, P)
         /\ \A i \in 1 .. Len(ss) : \A l, required :
              Reserves(ss[i], l, x, required) => Reserves(Joined(ss), l, x, required)
<1> DEFINE N == Len(ss)
<1>1. N \in Nat /\ \A i \in 1 .. N : IsSeq(ss[i])
  BY SeqFacts DEF Orderly
<1>2. PICK F : JoinedBy(F, ss) /\ Joined(ss) = F[N]
  BY <1>1, JoinedSteps
<1> DEFINE Q == {n \in 0 .. N : /\ Orderly(F[n], x, P)
                                /\ \A i \in 1 .. n : \A l, required :
                                     Reserves(ss[i], l, x, required) => Reserves(F[n], l, x, required)}
<1>3. 0 \in Q
  BY <1>1, <1>2, OrderlyNone DEF JoinedBy
<1>4. ASSUME NEW n \in 1 .. N, n - 1 \in Q PROVE n \in Q
  <2>1. F[n] = F[n - 1] \o ss[n] /\ n \in 0 .. N /\ Orderly(ss[n], x, P)
    <3>1. F[n] = F[n - 1] \o ss[n]
      BY <1>2 DEF JoinedBy
    <3> QED BY <1>1, <3>1
  <2>2. Orderly(F[n - 1], x, P) /\ \A i \in 1 .. n - 1 : \A l, required :
                                     Reserves(ss[i], l, x, required) => Reserves(F[n - 1], l, x, required)
    BY <1>4
  <2>3. Orderly(F[n], x, P)
    BY <2>1, <2>2, OrderlyBoth
  <2>4. ASSUME NEW i \in 1 .. n, NEW l, NEW required, Reserves(ss[i], l, x, required)
        PROVE  Reserves(F[n], l, x, required)
    <3>1. IsSeq(F[n - 1]) /\ IsSeq(ss[n])
      BY <2>1, <2>2 DEF Orderly
    <3>2. i = n \/ i \in 1 .. n - 1
      OBVIOUS
    <3>3. Reserves(F[n - 1], l, x, required) \/ Reserves(ss[n], l, x, required)
      BY <2>2, <2>4, <3>2
    <3> QED BY <2>1, <3>1, <3>3, ReservesConcat
  <2> QED BY <2>1, <2>3, <2>4
<1>5. N \in Q
  <2>1. N \in 0 .. N
    BY <1>1
  <2> HIDE DEF Q, N
  <2> QED BY <1>1, <1>3, <1>4, <2>1, UpTo
<1> QED BY <1>2, <1>5

(* One kernel that may come at any place. *)
Fine(k, x, P) ==
  \/ Mild(k, x.owners)
  \/ \E l \in Caches, required \in Nat : Reserving(k, l, x, required)
  \/ \E l \in DOMAIN x.new : l \in P /\ Appending(k, l, x)

(* Kernels that may come at any place. *)
LEMMA OrderlyAll ==
  ASSUME NEW s, IsSeq(s), NEW x, NEW P, \A i \in 1 .. Len(s) : Fine(s[i], x, P)
  PROVE  Orderly(s, x, P)
BY DEF Orderly, OrderlyAt, Fine

(* The same for kernels numbered from 1. *)
LEMMA OrderlyFunction ==
  ASSUME NEW n \in Nat, NEW s, s = [i \in 1 .. n |-> s[i]], NEW x, NEW P, \A i \in 1 .. n : Fine(s[i], x, P)
  PROVE  Orderly(s, x, P)
BY FunctionIsSeq, OrderlyAll

(* The sequences of so many of them. *)
LEMMA Orderly1 ==
  ASSUME NEW x, NEW P, NEW k1,
         Fine(k1, x, P)
  PROVE  Orderly(<<k1>>, x, P)
<1> DEFINE s == <<k1>>
<1>1. s \in Seq({k1}) /\ Len(s) = 1 /\ s[1] = k1
  OBVIOUS
<1> HIDE DEF s
<1>2. \A i \in 1 .. 1 : i = 1
  OBVIOUS
<1>3. Orderly(s, x, P)
  BY <1>1, <1>2, SeqOfAny, OrderlyAll
<1> QED BY <1>3 DEF s

LEMMA Orderly2 ==
  ASSUME NEW x, NEW P, NEW k1, NEW k2,
         Fine(k1, x, P), Fine(k2, x, P)
  PROVE  Orderly(<<k1, k2>>, x, P)
<1> DEFINE s == <<k1, k2>>
<1>1. s \in Seq({k1, k2}) /\ Len(s) = 2 /\ s[1] = k1 /\ s[2] = k2
  OBVIOUS
<1> HIDE DEF s
<1>2. \A i \in 1 .. 2 : i = 1 \/ i = 2
  OBVIOUS
<1>3. Orderly(s, x, P)
  BY <1>1, <1>2, SeqOfAny, OrderlyAll
<1> QED BY <1>3 DEF s

LEMMA Orderly3 ==
  ASSUME NEW x, NEW P, NEW k1, NEW k2, NEW k3,
         Fine(k1, x, P), Fine(k2, x, P), Fine(k3, x, P)
  PROVE  Orderly(<<k1, k2, k3>>, x, P)
<1> DEFINE s == <<k1, k2, k3>>
<1>1. s \in Seq({k1, k2, k3}) /\ Len(s) = 3 /\ s[1] = k1 /\ s[2] = k2 /\ s[3] = k3
  OBVIOUS
<1> HIDE DEF s
<1>2. \A i \in 1 .. 3 : i = 1 \/ i = 2 \/ i = 3
  OBVIOUS
<1>3. Orderly(s, x, P)
  BY <1>1, <1>2, SeqOfAny, OrderlyAll
<1> QED BY <1>3 DEF s

LEMMA Orderly4 ==
  ASSUME NEW x, NEW P, NEW k1, NEW k2, NEW k3, NEW k4,
         Fine(k1, x, P), Fine(k2, x, P), Fine(k3, x, P), Fine(k4, x, P)
  PROVE  Orderly(<<k1, k2, k3, k4>>, x, P)
<1> DEFINE s == <<k1, k2, k3, k4>>
<1>1. s \in Seq({k1, k2, k3, k4}) /\ Len(s) = 4 /\ s[1] = k1 /\ s[2] = k2 /\ s[3] = k3 /\ s[4] = k4
  OBVIOUS
<1> HIDE DEF s
<1>2. \A i \in 1 .. 4 : i = 1 \/ i = 2 \/ i = 3 \/ i = 4
  OBVIOUS
<1>3. Orderly(s, x, P)
  BY <1>1, <1>2, SeqOfAny, OrderlyAll
<1> QED BY <1>3 DEF s

LEMMA Orderly5 ==
  ASSUME NEW x, NEW P, NEW k1, NEW k2, NEW k3, NEW k4, NEW k5,
         Fine(k1, x, P), Fine(k2, x, P), Fine(k3, x, P), Fine(k4, x, P), Fine(k5, x, P)
  PROVE  Orderly(<<k1, k2, k3, k4, k5>>, x, P)
<1> DEFINE s == <<k1, k2, k3, k4, k5>>
<1>1. s \in Seq({k1, k2, k3, k4, k5}) /\ Len(s) = 5 /\ s[1] = k1 /\ s[2] = k2 /\ s[3] = k3 /\ s[4] = k4 /\ s[5] = k5
  OBVIOUS
<1> HIDE DEF s
<1>2. \A i \in 1 .. 5 : i = 1 \/ i = 2 \/ i = 3 \/ i = 4 \/ i = 5
  OBVIOUS
<1>3. Orderly(s, x, P)
  BY <1>1, <1>2, SeqOfAny, OrderlyAll
<1> QED BY <1>3 DEF s

LEMMA Orderly6 ==
  ASSUME NEW x, NEW P, NEW k1, NEW k2, NEW k3, NEW k4, NEW k5, NEW k6,
         Fine(k1, x, P), Fine(k2, x, P), Fine(k3, x, P), Fine(k4, x, P), Fine(k5, x, P), Fine(k6, x, P)
  PROVE  Orderly(<<k1, k2, k3, k4, k5, k6>>, x, P)
<1> DEFINE s == <<k1, k2, k3, k4, k5, k6>>
<1>1. s \in Seq({k1, k2, k3, k4, k5, k6}) /\ Len(s) = 6 /\ s[1] = k1 /\ s[2] = k2 /\ s[3] = k3 /\ s[4] = k4 /\ s[5] = k5 /\ s[6] = k6
  OBVIOUS
<1> HIDE DEF s
<1>2. \A i \in 1 .. 6 : i = 1 \/ i = 2 \/ i = 3 \/ i = 4 \/ i = 5 \/ i = 6
  OBVIOUS
<1>3. Orderly(s, x, P)
  BY <1>1, <1>2, SeqOfAny, OrderlyAll
<1> QED BY <1>3 DEF s

LEMMA Orderly7 ==
  ASSUME NEW x, NEW P, NEW k1, NEW k2, NEW k3, NEW k4, NEW k5, NEW k6, NEW k7,
         Fine(k1, x, P), Fine(k2, x, P), Fine(k3, x, P), Fine(k4, x, P), Fine(k5, x, P), Fine(k6, x, P), Fine(k7, x, P)
  PROVE  Orderly(<<k1, k2, k3, k4, k5, k6, k7>>, x, P)
<1> DEFINE s == <<k1, k2, k3, k4, k5, k6, k7>>
<1>1. s \in Seq({k1, k2, k3, k4, k5, k6, k7}) /\ Len(s) = 7 /\ s[1] = k1 /\ s[2] = k2 /\ s[3] = k3 /\ s[4] = k4 /\ s[5] = k5 /\ s[6] = k6 /\ s[7] = k7
  OBVIOUS
<1> HIDE DEF s
<1>2. \A i \in 1 .. 7 : i = 1 \/ i = 2 \/ i = 3 \/ i = 4 \/ i = 5 \/ i = 6 \/ i = 7
  OBVIOUS
<1>3. Orderly(s, x, P)
  BY <1>1, <1>2, SeqOfAny, OrderlyAll
<1> QED BY <1>3 DEF s

LEMMA Orderly9 ==
  ASSUME NEW x, NEW P, NEW k1, NEW k2, NEW k3, NEW k4, NEW k5, NEW k6, NEW k7, NEW k8, NEW k9,
         Fine(k1, x, P), Fine(k2, x, P), Fine(k3, x, P), Fine(k4, x, P), Fine(k5, x, P), Fine(k6, x, P), Fine(k7, x, P), Fine(k8, x, P), Fine(k9, x, P)
  PROVE  Orderly(<<k1, k2, k3, k4, k5, k6, k7, k8, k9>>, x, P)
<1> DEFINE s == <<k1, k2, k3, k4, k5, k6, k7, k8, k9>>
<1>1. s \in Seq({k1, k2, k3, k4, k5, k6, k7, k8, k9}) /\ Len(s) = 9 /\ s[1] = k1 /\ s[2] = k2 /\ s[3] = k3 /\ s[4] = k4 /\ s[5] = k5 /\ s[6] = k6 /\ s[7] = k7 /\ s[8] = k8 /\ s[9] = k9
  OBVIOUS
<1> HIDE DEF s
<1>2. \A i \in 1 .. 9 : i = 1 \/ i = 2 \/ i = 3 \/ i = 4 \/ i = 5 \/ i = 6 \/ i = 7 \/ i = 8 \/ i = 9
  OBVIOUS
<1>3. Orderly(s, x, P)
  BY <1>1, <1>2, SeqOfAny, OrderlyAll
<1> QED BY <1>3 DEF s

LEMMA Orderly10 ==
  ASSUME NEW x, NEW P, NEW k1, NEW k2, NEW k3, NEW k4, NEW k5, NEW k6, NEW k7, NEW k8, NEW k9, NEW k10,
         Fine(k1, x, P), Fine(k2, x, P), Fine(k3, x, P), Fine(k4, x, P), Fine(k5, x, P), Fine(k6, x, P), Fine(k7, x, P), Fine(k8, x, P), Fine(k9, x, P), Fine(k10, x, P)
  PROVE  Orderly(<<k1, k2, k3, k4, k5, k6, k7, k8, k9, k10>>, x, P)
<1> DEFINE s == <<k1, k2, k3, k4, k5, k6, k7, k8, k9, k10>>
<1>1. s \in Seq({k1, k2, k3, k4, k5, k6, k7, k8, k9, k10}) /\ Len(s) = 10 /\ s[1] = k1 /\ s[2] = k2 /\ s[3] = k3 /\ s[4] = k4 /\ s[5] = k5 /\ s[6] = k6 /\ s[7] = k7 /\ s[8] = k8 /\ s[9] = k9 /\ s[10] = k10
  OBVIOUS
<1> HIDE DEF s
<1>2. \A i \in 1 .. 10 : i = 1 \/ i = 2 \/ i = 3 \/ i = 4 \/ i = 5 \/ i = 6 \/ i = 7 \/ i = 8 \/ i = 9 \/ i = 10
  OBVIOUS
<1>3. Orderly(s, x, P)
  BY <1>1, <1>2, SeqOfAny, OrderlyAll
<1> QED BY <1>3 DEF s

-----------------------------------------------------------------------------
(* The kernels of the layer graphs.                                         *)

(* The operands in a buffer have its owner. *)
LEMMA OwnBuffer ==
  ASSUME NEW owner, NEW name
  PROVE  /\ Buffer(owner, name)[1] = owner
         /\ \A kind : At(Buffer(owner, name), kind).buffer[1] = owner
         /\ \A kind, row : From(Buffer(owner, name), kind, row).buffer[1] = owner
BY DEF Buffer, At, From

(* A row-wise stage with one output. *)
LEMMA StageFine ==
  ASSUME NEW x, NEW P, NEW o, o.buffer[1] \in x.owners, NEW stage, NEW l, NEW rows, NEW from, NEW position
  PROVE  Fine(RowWise(stage, l, rows, from, <<o>>, position), x, P)
<1> DEFINE to == <<o>>
<1>1. to \in Seq({o}) /\ Len(to) = 1 /\ to[1] = o
  OBVIOUS
<1> HIDE DEF to
<1>2. ToTags(to, x.owners)
  BY <1>1, SeqOfAny DEF ToTags
<1>3. Mild(RowWise(stage, l, rows, from, to, position), x.owners)
  BY <1>2 DEF Mild, RowWise
<1> QED BY <1>3 DEF Fine, to

(* A row-wise stage with two. *)
LEMMA StageFine2 ==
  ASSUME NEW x, NEW P, NEW o, NEW u, o.buffer[1] \in x.owners, u.buffer[1] \in x.owners,
         NEW stage, NEW l, NEW rows, NEW from, NEW position
  PROVE  Fine(RowWise(stage, l, rows, from, <<o, u>>, position), x, P)
<1> DEFINE to == <<o, u>>
<1>1. to \in Seq({o, u}) /\ Len(to) = 2 /\ to[1] = o /\ to[2] = u
  OBVIOUS
<1> HIDE DEF to
<1>2. \A i \in 1 .. 2 : i = 1 \/ i = 2
  OBVIOUS
<1>3. ToTags(to, x.owners)
  BY <1>1, <1>2, SeqOfAny DEF ToTags
<1>4. Mild(RowWise(stage, l, rows, from, to, position), x.owners)
  BY <1>3 DEF Mild, RowWise
<1> QED BY <1>4 DEF Fine, to

(* Kernels and copies that write to one buffer. *)
LEMMA BufferFine ==
  ASSUME NEW x, NEW P, NEW b, b[1] \in x.owners
  PROVE  /\ \A kind, rows : Fine(Alloc(b, kind, rows), x, P) /\ Fine(Fresh(b, kind, rows), x, P)
         /\ \A cells : Fine(AllocCells(b, cells), x, P)
         /\ \A contexts : Fine(Embed(b, contexts), x, P)
         /\ \A from, kind, rows : Fine(Copy(from, b, kind, rows), x, P)
         /\ \A l, query, kv, length : Fine(Scores(l, query, kv, length, b), x, P)
         /\ \A l, stage, offset : Fine(Dequantize(l, stage, b, offset), x, P)
BY DEF Fine, Mild, Alloc, Fresh, AllocCells, Embed, Copy, Scores, Dequantize

(* Kernels that write to one operand. *)
LEMMA OperandFine ==
  ASSUME NEW x, NEW P, NEW o, o.buffer[1] \in x.owners
  PROVE  /\ \A from, rows : Fine(Move(from, o, rows), x, P)
         /\ \A l, scores, kv, length, gate : Fine(Values(l, scores, kv, length, gate, o), x, P)
         /\ \A l, rows, query, gate, kv, start : Fine(Attend(l, rows, query, gate, kv, start, o), x, P)
         /\ \A hidden, last, l, fed : Fine(Pair(hidden, last, l, fed, o), x, P)
         /\ \A u, l, from : u.buffer[1] \in x.owners =>
              Fine(Conv(l, u, from, o), x, P) /\ Fine(Recurrence(l, u, from, o), x, P)
BY DEF Fine, Mild, Move, Values, Attend, Pair, Conv, Recurrence

(* The selection of a seed. *)
LEMMA SelectFine ==
  ASSUME NEW x, NEW P, NEW hidden, NEW tokens, NEW draft, NEW l, NEW fed, NEW to,
         tokens.buffer[1] \in x.owners, to.buffer[1] \in x.owners
  PROVE  Fine(Select(hidden, tokens, draft, l, fed, to), x, P)
BY DEF Fine, Mild, Select

(* A product by MPS. *)
LEMMA GemmFine ==
  ASSUME NEW x, NEW P, NEW o, o.buffer[1] \in x.owners,
         NEW l, NEW stages, NEW stage, NEW weights, NEW rows, NEW from
  PROVE  Fine(Gemm(l, stages, stage, weights, rows, from, <<o>>), x, P)
<1> DEFINE to == <<o>>
<1>1. to \in Seq({o}) /\ Len(to) = 1 /\ to[1] = o
  OBVIOUS
<1> HIDE DEF to
<1>2. ToTags(to, x.owners)
  BY <1>1, SeqOfAny DEF ToTags
<1>3. Mild(Gemm(l, stages, stage, weights, rows, from, to), x.owners)
  BY <1>1, <1>2 DEF Mild, Gemm, RowWise
<1> QED BY <1>3 DEF Fine, to

(* The recurrence of a block of rows. *)
LEMMA PrefillFine ==
  ASSUME NEW x, NEW P, NEW l, NEW rows \in Nat, NEW from, NEW to, to.buffer[1] \in x.owners,
         NEW initial, NEW which, NEW snap, NEW kept, which \in x.owners, kept = 0 \/ snap \in x.owners
  PROVE  Fine(Prefill(l, rows, from, to, initial, State(which, l), State(snap, l), kept), x, P)
<1>1. \A part \in Parts : \A w : State(w, l)[part][1] = w
  BY DEF State, StateOf, Parts
<1>2. Mild(Prefill(l, rows, from, to, initial, State(which, l), State(snap, l), kept), x.owners)
  BY <1>1 DEF Mild, Prefill
<1> QED BY <1>2 DEF Fine

(* reserve, at the length the cache has. *)
LEMMA ReserveFine ==
  ASSUME NEW x, NEW P, NEW l \in Caches, NEW required \in Nat, NEW length, length = x.length[l]
  PROVE  Fine(ReserveKv(Kv(l), length, required), x, P)
BY DEF Fine, Reserving

(* Keys and values appended where there is room for them. *)
LEMMA AppendFine ==
  ASSUME NEW x, NEW P, NEW l \in DOMAIN x.new, l \in P, NEW h, NEW rows, NEW key, NEW value, NEW start,
         rows = x.new[l], start = x.length[l]
  PROVE  Fine(AppendKv(h, rows, key, value, Kv(l), start), x, P)
BY DEF Fine, Appending, AppendKv

(* encode_full_projections. *)
LEMMA FullProjectionsOrderly ==
  ASSUME NEW x, NEW P, NEW owner \in x.owners, NEW l, NEW position
  PROVE  Orderly(FullProjections(owner, l, position), x, P)
BY OwnBuffer, StageFine, StageFine2, Orderly6 DEF FullProjections

(* The MLP of a layer graph. *)
LEMMA FullMlpOrderly ==
  ASSUME NEW x, NEW P, NEW owner \in x.owners, NEW l, NEW f16
  PROVE  Orderly(FullMlp(owner, l, f16), x, P)
<1> DEFINE on(name, kind) == At(Buffer(owner, name), kind)
           do(stage, from, to) == RowWise(stage, l, 1, from, to, 0)
           mlp == <<do("gate_proj", <<on("post_norm", "post_normed")>>, <<on("gate", "gate")>>),
        do("up_proj", <<on("post_norm", "post_normed")>>, <<on("up", "up")>>),
        do("swiglu", <<on("gate", "gate"), on("up", "up")>>, <<on("swiglu", "swiglu")>>),
        do("down_proj", <<on("swiglu", "swiglu")>>, <<on("mixed", "mlp")>>),
        do("add_mlp", <<on("hidden", "residual"), on("mixed", "mlp")>>, <<on("hidden", "hidden")>>)>>
           first == <<do("add_mixed", <<on("hidden", "hidden"), on("mixed", "mixed")>>, <<on("hidden", "residual")>>),
        do("post_norm", <<on("hidden", "residual")>>, <<on("post_norm", "post_normed")>>)>>
<1>1. Orderly(mlp, x, P)
  BY OwnBuffer, StageFine, Orderly5
<1>2. Orderly(first, x, P)
  BY OwnBuffer, StageFine, Orderly2
<1>3. FullMlp(owner, l, f16) = first \o (IF f16 THEN <<>> ELSE mlp)
  BY DEF FullMlp
<1> QED BY <1>1, <1>2, <1>3, OrderlyNone, OrderlyBoth

(* All of that for the buffers of one owner. *)
LEMMA OwnFine ==
  ASSUME NEW x, NEW P, NEW owner \in x.owners
  PROVE  /\ \A name, kind, rows : Fine(Alloc(Buffer(owner, name), kind, rows), x, P)
         /\ \A name, cells : Fine(AllocCells(Buffer(owner, name), cells), x, P)
         /\ \A name, kind, stage, l, rows, from, position :
              Fine(RowWise(stage, l, rows, from, <<At(Buffer(owner, name), kind)>>, position), x, P)
         /\ \A name, kind, from, rows : Fine(Move(from, At(Buffer(owner, name), kind), rows), x, P)
         /\ \A name, l, query, kv, length : Fine(Scores(l, query, kv, length, Buffer(owner, name)), x, P)
         /\ \A name, kind, l, scores, kv, length, gate :
              Fine(Values(l, scores, kv, length, gate, At(Buffer(owner, name), kind)), x, P)
         /\ \A name, kind, l, rows, query, gate, kv, start :
              Fine(Attend(l, rows, query, gate, kv, start, At(Buffer(owner, name), kind)), x, P)
<1>1. \A name, kind : Buffer(owner, name)[1] \in x.owners /\ At(Buffer(owner, name), kind).buffer[1] \in x.owners
  BY OwnBuffer
<1> QED BY <1>1, StageFine, BufferFine, OperandFine

(* The MLP of the adapter on half precision weights. *)
LEMMA MtpF16MlpOrderly ==
  ASSUME NEW x, NEW P, NEW owner \in x.owners, NEW l
  PROVE  Orderly(MtpF16Mlp(owner, l), x, P)
BY OwnFine, Orderly9 DEF MtpF16Mlp

(* One token: room first, then the cache. *)
LEMMA FullBuffersOrderly ==
  ASSUME NEW x, NEW P, NEW owner \in x.owners, NEW l \in Caches, NEW length \in Nat, length = x.length[l], NEW f16
  PROVE  Orderly(FullBuffers(owner, l, length, f16), x, P) /\ Reserves(FullBuffers(owner, l, length, f16), l, x, length + 1)
<1> DEFINE k1 == ReserveKv(Kv(l), length, length + 1)
           a == <<k1,
    Alloc(Buffer(owner, "qkv"), "query_and_gate", 1),
    Alloc(Buffer(owner, "z"), "query", 1),
    Alloc(Buffer(owner, "b"), "query", 1),
    Alloc(Buffer(owner, "a"), "key", 1),
    Alloc(Buffer(owner, "convolved"), "key", 1),
    Alloc(Buffer(owner, "delta_output"), "query", 1)>>
           more == [i \in 1..3 |-> Alloc(Buffer(owner, <<"gate", "up", "swiglu">>[i]), "gate", 1)]
           b == IF f16 THEN <<>> ELSE more
           c == <<AllocCells(Buffer(owner, "scores"), length + 1)>>
<1>1. Fine(k1, x, P)
  <2>1. length + 1 \in Nat
    OBVIOUS
  <2> QED BY <2>1, ReserveFine
<1>2. Orderly(a, x, P)
  <2> HIDE DEF k1
  <2> QED BY <1>1, OwnFine, Orderly7
<1>3. Reserves(a, l, x, length + 1)
  <2>1. Len(a) = 7 /\ a[1] = k1
    OBVIOUS
  <2>2. Reserving(k1, l, x, length + 1)
    BY DEF Reserving
  <2> HIDE DEF a, k1
  <2> QED BY <2>1, <2>2 DEF Reserves
<1>4. Orderly(more, x, P)
  <2>1. \A i \in 1 .. 3 : Fine(more[i], x, P)
    BY OwnFine
  <2>2. more = [i \in 1 .. 3 |-> more[i]]
    OBVIOUS
  <2> HIDE DEF more
  <2> QED BY <2>1, <2>2, OrderlyFunction
<1>5. Orderly(b, x, P)
  BY <1>4, OrderlyNone
<1>6. Orderly(c, x, P)
  BY OwnFine, Orderly1
<1>7. FullBuffers(owner, l, length, f16) = (a \o b) \o c
  BY DEF FullBuffers
<1> HIDE DEF a, b, c
<1>8. Orderly(a \o b, x, P) /\ Orderly((a \o b) \o c, x, P)
  BY <1>2, <1>5, <1>6, OrderlyBoth
<1>9. Reserves((a \o b) \o c, l, x, length + 1)
  BY <1>2, <1>3, <1>5, <1>6, <1>8, ReservesConcat DEF Orderly
<1> QED BY <1>7, <1>8, <1>9

(* The attention of one token. *)
LEMMA FullAttentionOrderly ==
  ASSUME NEW x, NEW P, NEW owner \in x.owners, NEW l \in DOMAIN x.new, l \in P, x.new[l] = 1,
         NEW length, length = x.length[l]
  PROVE  Orderly(FullAttention(owner, l, length), x, P)
<1>1. \A key, value : Fine(AppendKv(l, 1, key, value, Kv(l), length), x, P)
  BY AppendFine
<1> QED BY <1>1, OwnFine, Orderly4 DEF FullAttention

(* A full attention layer makes room for its token itself. *)
LEMMA FullLayerOrderly ==
  ASSUME NEW x, NEW P, NEW owner \in x.owners, NEW l \in Caches \cap DOMAIN x.new, x.new[l] = 1,
         NEW length \in Nat, length = x.length[l], NEW position, NEW f16
  PROVE  /\ Orderly(FullLayer(owner, l, length, position, f16), x, P)
         /\ Reserves(FullLayer(owner, l, length, position, f16), l, x, length + 1)
<1> DEFINE a == FullBuffers(owner, l, length, f16)
           b == FullProjections(owner, l, position)
           c == FullAttention(owner, l, length)
           d == FullMlp(owner, l, f16)
           e == IF f16 THEN MtpF16Mlp(owner, l) ELSE <<>>
           Q == {l}
<1>1. Orderly(a, x, P) /\ Reserves(a, l, x, length + 1)
  BY FullBuffersOrderly
<1>2. Orderly(b, x, P)
  BY FullProjectionsOrderly
<1>3. Orderly(c, x, P \cup Q)
  BY FullAttentionOrderly
<1>4. Orderly(d, x, P)
  BY FullMlpOrderly
<1>5. Orderly(e, x, P)
  BY MtpF16MlpOrderly, OrderlyNone
<1>6. FullLayer(owner, l, length, position, f16) = (((a \o b) \o c) \o d) \o e
  BY DEF FullLayer
<1> HIDE DEF a, b, c, d, e
<1>7. Orderly(a \o b, x, P) /\ Reserves(a \o b, l, x, length + 1)
  BY <1>1, <1>2, OrderlyBoth, ReservesConcat DEF Orderly
<1>8. Orderly((a \o b) \o c, x, P)
  <2>1. \A h \in Q : Reserves(a \o b, h, x, x.length[h] + x.new[h])
    BY <1>7
  <2> HIDE DEF Q
  <2> QED BY <1>3, <1>7, <2>1, OrderlyConcat
<1>9. Reserves((a \o b) \o c, l, x, length + 1)
  BY <1>3, <1>7, ReservesConcat DEF Orderly
<1>10. Orderly(((a \o b) \o c) \o d, x, P) /\ Reserves(((a \o b) \o c) \o d, l, x, length + 1)
  BY <1>4, <1>8, <1>9, OrderlyBoth, ReservesConcat DEF Orderly
<1>11. Orderly((((a \o b) \o c) \o d) \o e, x, P) /\ Reserves((((a \o b) \o c) \o d) \o e, l, x, length + 1)
  BY <1>5, <1>10, OrderlyBoth, ReservesConcat DEF Orderly
<1> QED BY <1>6, <1>11

(* The recurrence, in place on the active state. *)
LEMMA DeltanetStepOrderly ==
  ASSUME NEW x, NEW P, "active" \in x.owners, NEW l, NEW qkv, NEW z, NEW b, NEW a,
         NEW convolved, NEW output, convolved.buffer[1] \in x.owners, output.buffer[1] \in x.owners
  PROVE  Orderly(DeltanetStep(l, qkv, z, b, a, convolved, output), x, P)
<1>1. \A part \in Parts : StateAt(State("active", l)[part], 0).buffer[1] = "active"
  BY DEF StateAt, State, StateOf, From, Parts
<1>2. "conv" \in Parts /\ "recurrent" \in Parts
  BY DEF Parts
<1>3. /\ Fine(Conv(l, StateAt(State("active", l)["conv"], 0), qkv, convolved), x, P)
      /\ Fine(Recurrence(l, StateAt(State("active", l)["recurrent"], 0), <<convolved, b, a>>, output), x, P)
  BY <1>1, <1>2, OperandFine
<1> QED BY <1>3, StageFine, Orderly4 DEF DeltanetStep

(* A linear attention layer. *)
LEMMA LinearLayerOrderly ==
  ASSUME NEW x, NEW P, NEW owner \in x.owners, "active" \in x.owners, NEW l
  PROVE  Orderly(LinearLayer(owner, l), x, P)
<1>1. Orderly(LinearBuffers(owner), x, P)
  BY OwnFine, Orderly9 DEF LinearBuffers
<1> DEFINE on(name, kind) == At(Buffer(owner, name), kind)
           do(stage, from, to) == RowWise(stage, l, 1, from, to, 0)
           a == <<do("input_norm", <<on("hidden", "hidden")>>, <<on("normalized", "normed")>>),
        do("qkv", <<on("normalized", "normed")>>, <<on("qkv", "channels")>>),
        do("z", <<on("normalized", "normed")>>, <<on("z", "z")>>),
        do("b", <<on("normalized", "normed")>>, <<on("b", "b")>>),
        do("a", <<on("normalized", "normed")>>, <<on("a", "a")>>)>>
           b == DeltanetStep(l, on("qkv", "channels"), on("z", "z"), on("b", "b"), on("a", "a"),
                      on("convolved", "convolved"), on("delta_output", "delta"))
           c == <<do("out_proj", <<on("delta_output", "gated")>>, <<on("mixed", "mixed")>>)>>
           d == FullMlp(owner, l, FALSE)
<1>2. Orderly(a, x, P)
  BY OwnFine, Orderly5
<1>3. Orderly(b, x, P)
  BY OwnBuffer, DeltanetStepOrderly
<1>4. Orderly(c, x, P)
  BY OwnFine, Orderly1
<1>5. Orderly(d, x, P)
  BY FullMlpOrderly
<1>6. LinearKernels(owner, l) = ((a \o b) \o c) \o d
  BY DEF LinearKernels
<1> HIDE DEF a, b, c, d
<1>7. Orderly(LinearKernels(owner, l), x, P)
  BY <1>2, <1>3, <1>4, <1>5, <1>6, OrderlyBoth
<1> QED BY <1>1, <1>7, OrderlyBoth DEF LinearLayer

-----------------------------------------------------------------------------
(* The kernels of a block of rows.                                          *)

(* A projection added to the residual, in one kernel or two. *)
LEMMA BatchAddOrderly ==
  ASSUME NEW x, NEW P, NEW owner \in x.owners, NEW l, NEW rows, NEW projection, NEW fused, NEW from, NEW added
  PROVE  Orderly(BatchAdd(owner, l, rows, projection, fused, from, added), x, P)
<1> DEFINE on(name, kind) == At(Buffer(owner, name), kind)
           kind == Stage[projection].to[1]
           read == Stage[added].from[1]
           sum  == Stage[added].to[1]
           one == <<RowWise(fused, l, rows, <<from, on("hidden", read)>>, <<on("hidden", sum)>>, 0)>>
           two == <<RowWise(projection, l, rows, <<from>>, <<on("mixed", kind)>>, 0),
                    RowWise(added, l, rows, <<on("hidden", read), on("mixed", kind)>>, <<on("hidden", sum)>>, 0)>>
<1>1. BatchAdd(owner, l, rows, projection, fused, from, added) = IF FusedAdd[rows] THEN one ELSE two
  BY DEF BatchAdd
<1> HIDE DEF kind, read, sum
<1>2. Orderly(one, x, P)
  BY OwnFine, Orderly1
<1>3. Orderly(two, x, P)
  BY OwnFine, Orderly2
<1> QED BY <1>1, <1>2, <1>3

(* The MLP of a block. *)
LEMMA BatchMlpOrderly ==
  ASSUME NEW x, NEW P, NEW owner \in x.owners, NEW l, NEW rows
  PROVE  Orderly(BatchMlp(owner, l, rows), x, P)
<1> DEFINE on(name, kind) == At(Buffer(owner, name), kind)
           do(stage, from, to) == RowWise(stage, l, rows, from, to, 0)
           a == <<do("post_norm", <<on("hidden", "residual")>>, <<on("post_norm", "post_normed")>>),
        do("gate_proj", <<on("post_norm", "post_normed")>>, <<on("gate", "gate")>>),
        do("up_proj", <<on("post_norm", "post_normed")>>, <<on("up", "up")>>),
        do("swiglu", <<on("gate", "gate"), on("up", "up")>>, <<on("swiglu", "swiglu")>>)>>
           b == BatchAdd(owner, l, rows, "down_proj", "down_proj_add", on("swiglu", "swiglu"), "add_mlp")
<1>1. Orderly(a, x, P)
  BY OwnFine, Orderly4
<1>2. Orderly(b, x, P)
  BY BatchAddOrderly
<1>3. BatchMlp(owner, l, rows) = a \o b
  BY DEF BatchMlp
<1> HIDE DEF a, b
<1> QED BY <1>1, <1>2, <1>3, OrderlyBoth

(* A linear attention layer of a block. *)
LEMMA BatchLinearOrderly ==
  ASSUME NEW x, NEW P, NEW owner \in x.owners, "shadow" \in x.owners, "snapshot" \in x.owners,
         NEW l, NEW rows \in Nat, NEW kept
  PROVE  Orderly(BatchLinearBuffers(owner, rows) \o BatchLinearKernels(owner, l, rows, kept), x, P)
<1> DEFINE on(name, kind) == At(Buffer(owner, name), kind)
           do(stage, from, to) == RowWise(stage, l, rows, from, to, 0)
           p == Prefill(l, rows, <<on("qkv", "channels"), on("z", "z"), on("b", "b"), on("a", "a")>>,
                on("delta_output", "gated"),
                State("active", l), State("shadow", l), State("snapshot", l), kept)
           a == <<do("input_norm", <<on("hidden", "hidden")>>, <<on("normalized", "normed")>>),
        do("qkv", <<on("normalized", "normed")>>, <<on("qkv", "channels")>>),
        do("z", <<on("normalized", "normed")>>, <<on("z", "z")>>),
        do("b", <<on("normalized", "normed")>>, <<on("b", "b")>>),
        do("a", <<on("normalized", "normed")>>, <<on("a", "a")>>), p>>
           b == BatchAdd(owner, l, rows, "out_proj", "out_proj_add", on("delta_output", "gated"), "add_mixed")
           c == BatchMlp(owner, l, rows)
<1>1. Fine(p, x, P)
  BY OwnBuffer, PrefillFine
<1>2. BatchLinearKernels(owner, l, rows, kept) = (a \o b) \o c
  BY DEF BatchLinearKernels
<1>3. Orderly(a, x, P)
  <2> HIDE DEF p
  <2> QED BY <1>1, OwnFine, Orderly6
<1>4. Orderly(b, x, P) /\ Orderly(c, x, P)
  BY BatchAddOrderly, BatchMlpOrderly
<1>5. Orderly(BatchLinearBuffers(owner, rows), x, P)
  BY OwnFine, Orderly9 DEF BatchLinearBuffers
<1> HIDE DEF a, b, c, p
<1> QED BY <1>2, <1>3, <1>4, <1>5, OrderlyBoth

(* The buffers of a full attention layer, and room for the block. *)
LEMMA BatchFullBuffersOrderly ==
  ASSUME NEW x, NEW P, NEW owner \in x.owners, NEW l \in Caches, NEW rows \in Nat, NEW length \in Nat, length = x.length[l]
  PROVE  /\ Orderly(BatchFullBuffers(owner, l, rows, length), x, P)
         /\ Reserves(BatchFullBuffers(owner, l, rows, length), l, x, length + rows)
<1> DEFINE k == ReserveKv(Kv(l), length, length + rows)
           s == BatchFullBuffers(owner, l, rows, length)
<1>1. Fine(k, x, P)
  <2>1. length + rows \in Nat
    OBVIOUS
  <2> QED BY <2>1, ReserveFine
<1>2. Reserving(k, l, x, length + rows)
  BY DEF Reserving
<1>3. Orderly(s, x, P) /\ Len(s) = 10 /\ s[10] = k
  <2> HIDE DEF k
  <2> USE DEF BatchFullBuffers
  <2>1. s[10] = k /\ Len(s) = 10
    BY DEF k
  <2>2. k = ReserveKv(Kv(l), length, length + rows)
    BY DEF k
  <2>3. Orderly(s, x, P)
    BY <1>1, <2>2, OwnFine, Orderly10
  <2> QED BY <2>1, <2>3
<1> HIDE DEF k, s
<1>4. Reserves(s, l, x, length + rows)
  <2>1. 10 \in 1 .. Len(s)
    BY <1>3
  <2> QED BY <1>2, <1>3, <2>1 DEF Reserves
<1> QED BY <1>3, <1>4 DEF s

(* The attention of a block. *)
LEMMA GqaPrefillOrderly ==
  ASSUME NEW x, NEW P, NEW l \in DOMAIN x.new, l \in P, NEW rows, rows = x.new[l], NEW length, length = x.length[l],
         NEW query, NEW gate, NEW key, NEW value, NEW output, output.buffer[1] \in x.owners
  PROVE  Orderly(GqaPrefill(l, rows, query, gate, key, value, length, output), x, P)
<1>1. Fine(AppendKv(l, rows, key, value, Kv(l), length), x, P)
  BY AppendFine
<1>2. Fine(Attend(l, rows, query, gate, Kv(l), length, output), x, P)
  BY OperandFine
<1> QED BY <1>1, <1>2, Orderly2 DEF GqaPrefill

(* A full attention layer of a block. *)
LEMMA BatchFullOrderly ==
  ASSUME NEW x, NEW P, NEW owner \in x.owners, NEW l \in Caches \cap DOMAIN x.new, NEW rows \in Nat, rows = x.new[l],
         NEW length \in Nat, length = x.length[l], NEW position
  PROVE  LET s == BatchFullBuffers(owner, l, rows, length) \o BatchFullKernels(owner, l, rows, length, position)
         IN  Orderly(s, x, P) /\ Reserves(s, l, x, length + rows)
<1> DEFINE on(name, kind) == At(Buffer(owner, name), kind)
           do(stage, from, to) == RowWise(stage, l, rows, from, to, position)
           r == BatchFullBuffers(owner, l, rows, length)
           a == <<do("input_norm", <<on("hidden", "hidden")>>, <<on("normalized", "normed")>>),
        do("q_proj", <<on("normalized", "normed")>>, <<on("qkv", "query_and_gate")>>),
        do("k_proj", <<on("normalized", "normed")>>, <<on("a", "raw_key")>>),
        do("v_proj", <<on("normalized", "normed")>>, <<on("convolved", "value")>>),
        do("prepare_query", <<on("qkv", "query_and_gate")>>, <<on("z", "query"), on("b", "query_gate")>>),
        do("prepare_key", <<on("a", "raw_key")>>, <<on("delta_output", "key")>>)>>
           g == GqaPrefill(l, rows, on("z", "query"), on("b", "query_gate"), on("delta_output", "key"),
                    on("convolved", "value"), length, on("delta_output", "attended"))
           b == BatchAdd(owner, l, rows, "o_proj", "o_proj_add", on("delta_output", "attended"), "add_mixed")
           c == BatchMlp(owner, l, rows)
           Q == {l}
<1>1. Orderly(r, x, P) /\ Reserves(r, l, x, length + rows)
  BY BatchFullBuffersOrderly
<1>2. ASSUME NEW R PROVE Orderly(a, x, R)
  BY OwnBuffer, StageFine, StageFine2, Orderly6
<1>3. ASSUME NEW R, l \in R PROVE Orderly(g, x, R)
  <2>1. on("delta_output", "attended").buffer[1] \in x.owners
    BY OwnBuffer
  <2> QED BY <1>3, <2>1, GqaPrefillOrderly
<1>4. Orderly(b, x, P \cup Q) /\ Orderly(c, x, P \cup Q)
  BY BatchAddOrderly, BatchMlpOrderly
<1>5. BatchFullKernels(owner, l, rows, length, position) = ((a \o g) \o b) \o c
  BY DEF BatchFullKernels
<1> DEFINE d == ((a \o g) \o b) \o c
<1> HIDE DEF r, a, g, b, c
<1>6. Orderly(d, x, P \cup Q)
  BY <1>2, <1>3, <1>4, OrderlyBoth
<1> HIDE DEF d
<1>7. \A h \in Q : Reserves(r, h, x, x.length[h] + x.new[h])
  BY <1>1
<1>8. Orderly(r \o d, x, P)
  <2> HIDE DEF Q
  <2> QED BY <1>1, <1>6, <1>7, OrderlyConcat
<1>9. Reserves(r \o d, l, x, length + rows)
  BY <1>1, <1>6, ReservesConcat DEF Orderly
<1> QED BY <1>5, <1>8, <1>9 DEF d, r

(* The greedy head. *)
LEMMA GreedyHeadOrderly ==
  ASSUME NEW x, NEW P, NEW owner \in x.owners, NEW l, NEW rows, NEW scores, NEW tokens,
         scores[1] \in x.owners, tokens[1] \in x.owners
  PROVE  Orderly(GreedyHead(owner, l, rows, scores, tokens), x, P)
<1>1. At(scores, "logits").buffer[1] \in x.owners /\ At(tokens, "token").buffer[1] \in x.owners
  BY DEF At
<1>2. At(Buffer(owner, "normalized"), "normalized").buffer[1] \in x.owners
  BY OwnBuffer
<1> QED BY <1>1, <1>2, StageFine, Orderly3 DEF GreedyHead

(* The adapter's step on the GPU. *)
LEMMA MtpDecodeStepOrderly ==
  ASSUME NEW x, NEW P, NEW owner \in x.owners, Adapter \in DOMAIN x.new, x.new[Adapter] = 1,
         NEW length \in Nat, length = x.length[Adapter], NEW position, NEW f16, NEW withHead
  PROVE  LET s == MtpDecodeStep(owner, length, position, f16, withHead)
         IN  Orderly(s, x, P) /\ Reserves(s, Adapter, x, length + 1)
<1> DEFINE on(name, kind) == At(Buffer(owner, name), kind)
           a1 == <<Alloc(Buffer(owner, "logits"), "logits", 1), Alloc(Buffer(owner, "token"), "token", 1)>>
           a == IF withHead THEN a1 ELSE <<>>
           b == <<RowWise("fc", Adapter, 1, <<on("fc_input", "fc_input")>>, <<on("hidden", "hidden")>>, 0)>>
           c == FullLayer(owner, Adapter, length, position, f16)
           d1 == GreedyHead(owner, Adapter + 1, 1, Buffer(owner, "logits"), Buffer(owner, "token"))
           d2 == <<RowWise("final_norm", Adapter + 1, 1, <<on("hidden", "hidden")>>,
                         <<on("normalized", "normalized")>>, 0)>>
           d == IF withHead THEN d1 ELSE d2
<1>1. Orderly(a, x, P)
  BY OwnFine, Orderly2, OrderlyNone
<1>2. Orderly(b, x, P)
  BY OwnFine, Orderly1
<1>3. Orderly(c, x, P) /\ Reserves(c, Adapter, x, length + 1)
  <2>1. Adapter \in Caches \cap DOMAIN x.new
    BY DEF Caches
  <2> QED BY <2>1, FullLayerOrderly
<1>4. Orderly(d, x, P)
  <2>1. Orderly(d1, x, P)
    BY OwnBuffer, GreedyHeadOrderly
  <2>2. Orderly(d2, x, P)
    BY OwnFine, Orderly1
  <2> QED BY <2>1, <2>2
<1>5. MtpDecodeStep(owner, length, position, f16, withHead) = ((a \o b) \o c) \o d
  BY DEF MtpDecodeStep
<1> HIDE DEF a, b, c, d
<1>6. Orderly(((a \o b) \o c) \o d, x, P)
  BY <1>1, <1>2, <1>3, <1>4, OrderlyBoth
<1>7. Orderly(a \o b, x, P) /\ Orderly((a \o b) \o c, x, P)
  BY <1>1, <1>2, <1>3, OrderlyBoth
<1>8. Reserves((a \o b) \o c, Adapter, x, length + 1)
  BY <1>3, <1>7, ReservesConcat DEF Orderly
<1>9. Reserves(((a \o b) \o c) \o d, Adapter, x, length + 1)
  BY <1>4, <1>7, <1>8, ReservesConcat DEF Orderly
<1> QED BY <1>5, <1>6, <1>9

-----------------------------------------------------------------------------
(* Calls.  A call that is well made under owners T writes to the buffers of  *)
(* T and of its pool, appends to caches of `may' only and makes room first.  *)

LayersAre == /\ LastLayer \in Nat \ {0}
             /\ \A l \in 1 .. LastLayer : LayerKind[l] \in {"linear", "full"}

(* The layers of the model, and the caches there are. *)
LEMMA LayerFacts ==
  /\ LayersAre /\ Adapter \notin FullLayers /\ FullLayers \subseteq Caches /\ Adapter \in Caches
  /\ \A l \in 1 .. LastLayer : LayerKind[l] # "linear" => l \in FullLayers
<1>1. LayersAre
  <2>1. LayerKind \in Seq({"linear", "full"}) /\ LayerKind # <<>>
    BY RuntimeAssumption
  <2>2. Len(LayerKind) \in Nat /\ Len(LayerKind) # 0
    BY <2>1
  <2>3. \A l \in 1 .. Len(LayerKind) : LayerKind[l] \in {"linear", "full"}
    BY <2>1, ElementOfSeq
  <2> QED BY <2>2, <2>3 DEF LayersAre, LastLayer
<1>2. Adapter \notin FullLayers
  <2>1. Adapter = LastLayer + 2 /\ LastLayer \in Nat
    BY <1>1 DEF Adapter, LayersAre
  <2> QED BY <2>1 DEF FullLayers
<1>3. \A l \in 1 .. LastLayer : LayerKind[l] # "linear" => l \in FullLayers
  BY <1>1 DEF LayersAre, FullLayers
<1> QED BY <1>1, <1>2, <1>3 DEF Caches

Lengths(lengths) == \A l \in Caches : lengths[l] \in Nat

Effect(call, T, lengths) == [owners |-> T \cup {call.pool}, length |-> lengths, new |-> call.appends]
Quiet(T, lengths)        == [owners |-> T, length |-> lengths, new |-> NoAppend]

WellMade(call, y, lengths) ==
  /\ call.pool \in Pools \cup {"none"}
  /\ DOMAIN call.appends \subseteq y.may
  /\ \A l \in DOMAIN call.appends :
       call.appends[l] \in Nat /\ Reserves(call.work, l, Effect(call, y.owners, lengths), lengths[l] + call.appends[l])
  /\ Orderly(call.work, Effect(call, y.owners, lengths), {})
  /\ Orderly(call.back, Quiet({"host"}, lengths), {})

(* The same call at two lengths of the caches. *)
Made(c, d, y) == WellMade(c, y, y.from) /\ WellMade(d, y, y.to) /\ c.appends = d.appends

MadeAll(s, t, y) ==
  /\ IsSeq(s) /\ IsSeq(t) /\ Len(s) = Len(t)
  /\ \A i \in 1 .. Len(s) : Made(s[i], t[i], y)

(* What y may be. *)
Proper(y) ==
  /\ "host" \in y.owners /\ "kv" \notin y.owners /\ y.may \subseteq Caches
  /\ Lengths(y.from) /\ Lengths(y.to)

-----------------------------------------------------------------------------
(* What writes to less and appends nothing is orderly among more. *)
LEMMA OrderlyMore ==
  ASSUME NEW ks, NEW T, NEW lengths, Orderly(ks, Quiet(T, lengths), {}), NEW x, NEW P,
         T \subseteq x.owners, x.length = lengths
  PROVE  Orderly(ks, x, P)
<1> DEFINE q == Quiet(T, lengths)
<1>1. q.owners = T /\ q.length = lengths /\ DOMAIN q.new = {}
  BY DEF Quiet, NoAppend
<1> HIDE DEF q
<1>2. IsSeq(ks) /\ \A i \in 1 .. Len(ks) : OrderlyAt(ks, i, q, {})
  BY DEF Orderly, q
<1>3. ASSUME NEW k, Mild(k, q.owners) PROVE Mild(k, x.owners)
  BY <1>1, <1>3 DEF Mild, ToTags
<1>4. ASSUME NEW i \in 1 .. Len(ks) PROVE OrderlyAt(ks, i, x, P)
  BY <1>1, <1>2, <1>3 DEF OrderlyAt, Reserving
<1> QED BY <1>2, <1>4 DEF Orderly

(* Kernels before a call's own. *)
LEMMA MadePreceded ==
  ASSUME NEW y, NEW c, NEW d, Made(c, d, y), NEW ks, NEW ms,
         Orderly(ks, Quiet(y.owners, y.from), {}), Orderly(ms, Quiet(y.owners, y.to), {})
  PROVE  Made(Preceded(ks, c), Preceded(ms, d), y)
<1>1. ASSUME NEW e, NEW lengths, WellMade(e, y, lengths), NEW ls, Orderly(ls, Quiet(y.owners, lengths), {})
      PROVE  WellMade(Preceded(ls, e), y, lengths)
  <2> DEFINE p == Preceded(ls, e)
             x == Effect(e, y.owners, lengths)
  <2>1. p.pool = e.pool /\ p.work = ls \o e.work /\ p.back = e.back /\ p.appends = e.appends
    BY DEF Preceded, Call
  <2>2. Effect(p, y.owners, lengths) = x
    BY <2>1 DEF Effect
  <2>3. y.owners \subseteq x.owners /\ x.length = lengths
    BY DEF Effect
  <2> HIDE DEF p, x
  <2>4. Orderly(ls, x, {})
    BY <1>1, <2>3, OrderlyMore
  <2>5. Orderly(e.work, x, {})
    BY <1>1 DEF WellMade, x
  <2>6. Orderly(p.work, x, {})
    BY <2>1, <2>4, <2>5, OrderlyBoth
  <2>7. \A l, required : Reserves(e.work, l, x, required) => Reserves(p.work, l, x, required)
    BY <2>1, <2>4, <2>5, ReservesConcat DEF Orderly
  <2>8. \A l \in DOMAIN p.appends : p.appends[l] \in Nat /\ Reserves(p.work, l, x, lengths[l] + p.appends[l])
    BY <1>1, <2>1, <2>7 DEF WellMade, x
  <2>9. WellMade(p, y, lengths)
    BY <1>1, <2>1, <2>2, <2>6, <2>8 DEF WellMade
  <2> QED BY <2>9 DEF p
<1>2. Preceded(ks, c).appends = Preceded(ms, d).appends
  BY DEF Preceded, Call, Made
<1> QED BY <1>1, <1>2 DEF Made

(* Copies after a call's own. *)
LEMMA MadeFollowed ==
  ASSUME NEW y, NEW c, NEW d, Made(c, d, y), NEW ks, NEW ms,
         Orderly(ks, Quiet({"host"}, y.from), {}), Orderly(ms, Quiet({"host"}, y.to), {})
  PROVE  Made(Followed(c, ks), Followed(d, ms), y)
<1>1. ASSUME NEW e, NEW lengths, WellMade(e, y, lengths), NEW ls, Orderly(ls, Quiet({"host"}, lengths), {})
      PROVE  WellMade(Followed(e, ls), y, lengths)
  <2> DEFINE p == Followed(e, ls)
  <2>1. p.pool = e.pool /\ p.work = e.work /\ p.back = e.back \o ls /\ p.appends = e.appends
    BY DEF Followed, Call
  <2>2. Effect(p, y.owners, lengths) = Effect(e, y.owners, lengths)
    BY <2>1 DEF Effect
  <2> HIDE DEF p
  <2>3. Orderly(p.back, Quiet({"host"}, lengths), {})
    BY <1>1, <2>1, OrderlyBoth DEF WellMade
  <2>4. WellMade(p, y, lengths)
    BY <1>1, <2>1, <2>2, <2>3 DEF WellMade
  <2> QED BY <2>4 DEF p
<1>2. Followed(c, ks).appends = Followed(d, ms).appends
  BY DEF Followed, Call, Made
<1> QED BY <1>1, <1>2 DEF Made

(* No calls. *)
LEMMA MadeNone == ASSUME NEW y PROVE MadeAll(<<>>, <<>>, y)
BY IsSeqEmpty DEF MadeAll

(* One call. *)
LEMMA Made1 ==
  ASSUME NEW y, NEW c, NEW d, Made(c, d, y)
  PROVE  MadeAll(<<c>>, <<d>>, y) /\ Len(<<c>>) = 1 /\ <<c>>[1] = c
<1> DEFINE s == <<c>>
           t == <<d>>
<1>1. s \in Seq({c}) /\ Len(s) = 1 /\ s[1] = c /\ t \in Seq({d}) /\ Len(t) = 1 /\ t[1] = d
  OBVIOUS
<1> HIDE DEF s, t
<1>2. \A i \in 1 .. 1 : i = 1
  OBVIOUS
<1>3. MadeAll(s, t, y)
  BY <1>1, <1>2, SeqOfAny DEF MadeAll
<1> QED BY <1>1, <1>3 DEF s, t

(* Calls, then others. *)
LEMMA MadeConcat ==
  ASSUME NEW y, NEW s, NEW t, NEW u, NEW v, MadeAll(s, t, y), MadeAll(u, v, y)
  PROVE  /\ MadeAll(s \o u, t \o v, y) /\ Len(s \o u) = Len(s) + Len(u)
         /\ Len(s) <= Len(s \o u) /\ Len(u) <= Len(s \o u) /\ Len(s \o u) \in Nat
         /\ \A i \in 1 .. Len(s) : (s \o u)[i] = s[i]
<1> DEFINE a == s \o u
           b == t \o v
<1>1. ConcatIs(s, u, a) /\ ConcatIs(t, v, b) /\ Len(s) \in Nat /\ Len(u) \in Nat /\ Len(t) = Len(s) /\ Len(v) = Len(u)
  BY Concat, SeqFacts DEF MadeAll
<1> HIDE DEF a, b
<1>2. ASSUME NEW i \in 1 .. Len(a) PROVE Made(a[i], b[i], y)
  <2>1. Len(a) = Len(s) + Len(u)
    BY <1>1 DEF ConcatIs
  <2>2. CASE i <= Len(s)
    <3>1. i \in 1 .. Len(s)
      BY <1>1, <2>2
    <3>2. a[i] = s[i] /\ b[i] = t[i] /\ Made(s[i], t[i], y)
      BY <1>1, <3>1 DEF ConcatIs, MadeAll
    <3> QED BY <3>2
  <2>3. CASE ~(i <= Len(s))
    <3> PICK j : j = i - Len(s)
      OBVIOUS
    <3>1. j \in 1 .. Len(u) /\ Len(s) + j = i
      BY <1>1, <2>1, <2>3
    <3>2. a[Len(s) + j] = u[j] /\ b[Len(t) + j] = v[j] /\ Made(u[j], v[j], y)
      BY <1>1, <3>1 DEF ConcatIs, MadeAll
    <3> QED BY <1>1, <3>1, <3>2
  <2> QED BY <2>2, <2>3
<1>3. MadeAll(a, b, y)
  BY <1>1, <1>2 DEF MadeAll, ConcatIs
<1>4. Len(s) <= Len(a) /\ Len(u) <= Len(a) /\ Len(a) \in Nat
  BY <1>1 DEF ConcatIs
<1> QED BY <1>1, <1>3, <1>4 DEF a, b, ConcatIs

(* Any number of sequences of calls. *)
LEMMA MadeJoined ==
  ASSUME NEW y, NEW ss, NEW tt, IsSeq(ss), IsSeq(tt), Len(ss) = Len(tt),
         \A i \in 1 .. Len(ss) : MadeAll(ss[i], tt[i], y)
  PROVE  MadeAll(Joined(ss), Joined(tt), y) /\ \A i \in 1 .. Len(ss) : Len(ss[i]) <= Len(Joined(ss))
<1> DEFINE N == Len(ss)
<1>1. N \in Nat /\ \A i \in 1 .. N : IsSeq(ss[i]) /\ IsSeq(tt[i]) /\ Len(ss[i]) \in Nat
  BY SeqFacts DEF MadeAll
<1>2. PICK F : JoinedBy(F, ss) /\ Joined(ss) = F[N]
  BY <1>1, JoinedSteps
<1>3. PICK G : JoinedBy(G, tt) /\ Joined(tt) = G[N]
  BY <1>1, JoinedSteps
<1> DEFINE Q == {n \in 0 .. N : MadeAll(F[n], G[n], y) /\ \A i \in 1 .. n : Len(ss[i]) <= Len(F[n])}
<1>4. 0 \in Q
  BY <1>1, <1>2, <1>3, MadeNone DEF JoinedBy
<1>5. ASSUME NEW n \in 1 .. N, n - 1 \in Q PROVE n \in Q
  <2>1. F[n] = F[n - 1] \o ss[n] /\ G[n] = G[n - 1] \o tt[n] /\ n \in 0 .. N /\ MadeAll(ss[n], tt[n], y)
    <3>1. F[n] = F[n - 1] \o ss[n]
      BY <1>2 DEF JoinedBy
    <3>2. G[n] = G[n - 1] \o tt[n]
      BY <1>3 DEF JoinedBy
    <3> QED BY <1>1, <3>1, <3>2
  <2>2. MadeAll(F[n - 1], G[n - 1], y) /\ \A i \in 1 .. n - 1 : Len(ss[i]) <= Len(F[n - 1])
    BY <1>5
  <2>3. MadeAll(F[n], G[n], y) /\ Len(F[n - 1]) <= Len(F[n]) /\ Len(ss[n]) <= Len(F[n]) /\ Len(F[n]) \in Nat
    <3> PICK f, g, u, v : f = F[n - 1] /\ g = G[n - 1] /\ u = ss[n] /\ v = tt[n]
      OBVIOUS
    <3>1. MadeAll(f, g, y) /\ MadeAll(u, v, y) /\ F[n] = f \o u /\ G[n] = g \o v
      BY <2>1, <2>2
    <3>2. MadeAll(f \o u, g \o v, y) /\ Len(f) <= Len(f \o u) /\ Len(u) <= Len(f \o u) /\ Len(f \o u) \in Nat
      BY <3>1, MadeConcat
    <3> QED BY <3>1, <3>2
  <2>4. Len(F[n - 1]) \in Nat
    BY <2>2, SeqFacts DEF MadeAll
  <2>5. ASSUME NEW i \in 1 .. n PROVE Len(ss[i]) <= Len(F[n])
    <3>1. Len(ss[i]) \in Nat
      BY <1>1
    <3>2. CASE i = n
      BY <2>3, <3>2
    <3>3. CASE i # n
      <4>1. Len(ss[i]) <= Len(F[n - 1])
        BY <2>2, <3>3
      <4> QED BY <2>3, <2>4, <3>1, <4>1
    <3> QED BY <3>2, <3>3
  <2> QED BY <2>1, <2>3, <2>5
<1>6. N \in Q
  <2>1. N \in 0 .. N
    BY <1>1
  <2> HIDE DEF Q, N
  <2> QED BY <1>1, <1>4, <1>5, <2>1, UpTo
<1> QED BY <1>2, <1>3, <1>6

(* The same for sequences numbered from 1. *)
LEMMA MadeFunction ==
  ASSUME NEW y, NEW n \in Nat, NEW ss, NEW tt, ss = [i \in 1 .. n |-> ss[i]], tt = [i \in 1 .. n |-> tt[i]],
         \A i \in 1 .. n : MadeAll(ss[i], tt[i], y)
  PROVE  MadeAll(Joined(ss), Joined(tt), y) /\ \A i \in 1 .. n : Len(ss[i]) <= Len(Joined(ss))
BY FunctionIsSeq, MadeJoined

(* All but the first call. *)
LEMMA MadeTail ==
  ASSUME NEW y, NEW s, NEW t, MadeAll(s, t, y), Len(s) >= 1
  PROVE  /\ MadeAll(Tail(s), Tail(t), y) /\ Len(Tail(s)) = Len(s) - 1 /\ Made(s[1], t[1], y)
         /\ \A i \in 1 .. Len(s) - 1 : Tail(s)[i] = s[i + 1]
<1>1. s \in Seq(Range(s)) /\ t \in Seq(Range(t)) /\ Len(s) \in Nat /\ Len(t) = Len(s)
  BY SeqFacts DEF MadeAll, IsSeq
<1>2. ASSUME NEW S, NEW w \in Seq(S), Len(w) >= 1
      PROVE  Tail(w) \in Seq(S) /\ Len(Tail(w)) = Len(w) - 1 /\ \A i \in 1 .. Len(w) - 1 : Tail(w)[i] = w[i + 1]
  <2>1. w # <<>>
    BY <1>2
  <2> QED BY <1>2, <2>1
<1> PICK a, b : a = Tail(s) /\ b = Tail(t)
  OBVIOUS
<1>3. IsSeq(a) /\ Len(a) = Len(s) - 1 /\ \A i \in 1 .. Len(s) - 1 : a[i] = s[i + 1]
  BY <1>1, <1>2, SeqOfAny
<1>4. IsSeq(b) /\ Len(b) = Len(s) - 1 /\ \A i \in 1 .. Len(s) - 1 : b[i] = t[i + 1]
  <2>1. Len(t) >= 1
    BY <1>1
  <2> QED BY <1>1, <1>2, <2>1, SeqOfAny
<1>5. ASSUME NEW i \in 1 .. Len(a) PROVE Made(a[i], b[i], y)
  <2>1. i \in 1 .. Len(s) - 1 /\ i + 1 \in 1 .. Len(s)
    BY <1>1, <1>3
  <2> QED BY <1>3, <1>4, <2>1 DEF MadeAll
<1>6. Made(s[1], t[1], y)
  <2>1. 1 \in 1 .. Len(s)
    BY <1>1
  <2> QED BY <2>1 DEF MadeAll
<1> QED BY <1>3, <1>4, <1>5, <1>6 DEF MadeAll

(* All but the last call. *)
LEMMA MadeFront ==
  ASSUME NEW y, NEW s, NEW t, MadeAll(s, t, y), Len(s) >= 1
  PROVE  MadeAll(Front(s), Front(t), y) /\ Made(Last(s), Last(t), y)
<1>1. Len(s) \in Nat /\ IsSeq(s) /\ IsSeq(t) /\ Len(t) = Len(s)
  BY SeqFacts DEF MadeAll
<1> PICK n : n = Len(s) - 1
  OBVIOUS
<1>2. n \in 0 .. Len(s) /\ n \in Nat /\ \A i \in 1 .. n : i \in 1 .. Len(s)
  BY <1>1
<1>3. Front(s) = SubSeq(s, 1, n) /\ Front(t) = SubSeq(t, 1, n)
  BY <1>1 DEF Front
<1>4. BeginsWith(s, Front(s), n) /\ BeginsWith(t, Front(t), n)
  <2>1. BeginsWith(s, SubSeq(s, 1, n), n)
    BY <1>1, <1>2, Beginning
  <2>2. BeginsWith(t, SubSeq(t, 1, n), n)
    BY <1>1, <1>2, Beginning
  <2> QED BY <1>3, <2>1, <2>2
<1>5. MadeAll(Front(s), Front(t), y)
  BY <1>2, <1>4 DEF MadeAll, BeginsWith, SameFirst
<1>6. Made(Last(s), Last(t), y)
  <2>1. Len(s) \in 1 .. Len(s)
    BY <1>1
  <2> QED BY <1>1, <2>1 DEF MadeAll, Last
<1> QED BY <1>5, <1>6

(* Kernels before the first call. *)
LEMMA MadeFirst ==
  ASSUME NEW y, NEW s, NEW t, MadeAll(s, t, y), Len(s) >= 1, NEW ks, NEW ms,
         Orderly(ks, Quiet(y.owners, y.from), {}), Orderly(ms, Quiet(y.owners, y.to), {})
  PROVE  /\ MadeAll(FirstCallPreceded(ks, s), FirstCallPreceded(ms, t), y)
         /\ Len(FirstCallPreceded(ks, s)) = Len(s)
         /\ \A i \in 2 .. Len(s) : FirstCallPreceded(ks, s)[i] = s[i]
<1>1. MadeAll(Tail(s), Tail(t), y) /\ Len(Tail(s)) = Len(s) - 1 /\ Made(s[1], t[1], y)
      /\ \A i \in 1 .. Len(s) - 1 : Tail(s)[i] = s[i + 1]
  BY MadeTail
<1>2. Made(Preceded(ks, s[1]), Preceded(ms, t[1]), y)
  BY <1>1, MadePreceded
<1> PICK a, b : a = <<Preceded(ks, s[1])>> /\ b = <<Preceded(ms, t[1])>>
  OBVIOUS
<1>3. MadeAll(a, b, y) /\ Len(a) = 1
  BY <1>2, Made1
<1>4. MadeAll(a \o Tail(s), b \o Tail(t), y) /\ Len(a \o Tail(s)) = Len(a) + Len(Tail(s))
  BY <1>1, <1>3, MadeConcat
<1>5. Len(s) \in Nat
  BY SeqFacts DEF MadeAll
<1>6. FirstCallPreceded(ks, s) = a \o Tail(s) /\ FirstCallPreceded(ms, t) = b \o Tail(t)
  BY DEF FirstCallPreceded
<1>7. ASSUME NEW i \in 2 .. Len(s) PROVE (a \o Tail(s))[i] = s[i]
  <2>1. ConcatIs(a, Tail(s), a \o Tail(s))
    BY <1>1, <1>3, Concat DEF MadeAll
  <2> PICK j : j = i - 1
    OBVIOUS
  <2>2. j \in 1 .. Len(Tail(s)) /\ Len(a) + j = i /\ j + 1 = i /\ j \in 1 .. Len(s) - 1
    BY <1>1, <1>3, <1>5
  <2>3. (a \o Tail(s))[Len(a) + j] = Tail(s)[j]
    BY <2>1, <2>2 DEF ConcatIs
  <2> QED BY <1>1, <2>2, <2>3
<1> QED BY <1>1, <1>3, <1>4, <1>5, <1>6, <1>7

-----------------------------------------------------------------------------
(* The calls on the activation pools.                                       *)

(* What a pool may do with one of its buffers. *)
LEMMA TagFine ==
  ASSUME NEW x, NEW P, NEW b, b[1] \in x.owners
  PROVE  /\ \A kind, rows : Fine(Alloc(b, kind, rows), x, P)
         /\ \A cells : Fine(AllocCells(b, cells), x, P)
         /\ \A kind, from, rows : Fine(Move(from, At(b, kind), rows), x, P)
         /\ \A kind, stage, l, rows, from, position : Fine(RowWise(stage, l, rows, from, <<At(b, kind)>>, position), x, P)
         /\ \A l, stage, offset : Fine(Dequantize(l, stage, b, offset), x, P)
         /\ \A kind, l, stages, stage, weights, rows, from :
              Fine(Gemm(l, stages, stage, weights, rows, from, <<At(b, kind)>>), x, P)
         /\ \A l, query, kv, length : Fine(Scores(l, query, kv, length, b), x, P)
         /\ \A kind, l, scores, kv, length, gate : Fine(Values(l, scores, kv, length, gate, At(b, kind)), x, P)
<1>1. \A kind : At(b, kind).buffer[1] \in x.owners
  BY DEF At
<1> QED BY <1>1, BufferFine, OperandFine, StageFine, GemmFine

(* What the q4 pool may do with its buffers. *)
LEMMA Q4Fine ==
  ASSUME NEW x, NEW P, "q4" \in x.owners
  PROVE  \A b : (\E name : b = Q4(name)) \/ (\E i : b = Output(i) \/ b = HalfSlot(i)) =>
           /\ \A kind, rows : Fine(Alloc(b, kind, rows), x, P)
           /\ \A cells : Fine(AllocCells(b, cells), x, P)
           /\ \A kind, from, rows : Fine(Move(from, At(b, kind), rows), x, P)
           /\ \A kind, stage, l, rows, from, position :
                Fine(RowWise(stage, l, rows, from, <<At(b, kind)>>, position), x, P)
           /\ \A l, stage, offset : Fine(Dequantize(l, stage, b, offset), x, P)
           /\ \A kind, l, stages, stage, weights, rows, from :
                Fine(Gemm(l, stages, stage, weights, rows, from, <<At(b, kind)>>), x, P)
<1>1. \A b : (\E name : b = Q4(name)) \/ (\E i : b = Output(i) \/ b = HalfSlot(i)) => b[1] \in x.owners
  BY DEF Q4, Output, HalfSlot
<1> QED BY <1>1, TagFine

(* What is copied out to the request's own vectors. *)
LEMMA HostFine ==
  ASSUME NEW x, NEW P, "host" \in x.owners
  PROVE  /\ \A name : Host(name)[1] \in x.owners
         /\ \A name, from, kind, rows : Fine(CopyOut(from, Host(name), kind, rows), x, P)
         /\ \A name, kind, rows : Fine(Fresh(Host(name), kind, rows), x, P)
<1>1. \A name : Host(name)[1] \in x.owners
  BY DEF Host
<1> QED BY <1>1, BufferFine DEF CopyOut

(* A call that appends nothing. *)
LEMMA QuietCall ==
  ASSUME NEW y, NEW lengths, NEW pool \in Pools \cup {"none"}, NEW work, NEW back,
         Orderly(work, Quiet(y.owners \cup {pool}, lengths), {}), Orderly(back, Quiet({"host"}, lengths), {})
  PROVE  WellMade(Call(pool, work, back, NoAppend), y, lengths)
<1> DEFINE c == Call(pool, work, back, NoAppend)
<1>1. c.pool = pool /\ c.work = work /\ c.back = back /\ c.appends = NoAppend
  BY DEF Call
<1> HIDE DEF c
<1>2. Effect(c, y.owners, lengths) = Quiet(y.owners \cup {pool}, lengths)
  BY <1>1 DEF Effect, Quiet
<1>3. DOMAIN NoAppend = {}
  BY DEF NoAppend
<1>4. WellMade(c, y, lengths)
  BY <1>1, <1>2, <1>3 DEF WellMade
<1> QED BY <1>4 DEF c

(* The same for a call that does not depend on lengths. *)
LEMMA Q4Call ==
  ASSUME NEW y, NEW work, NEW back,
         \A x : "q4" \in x.owners => Orderly(work, x, {}), \A x : "host" \in x.owners => Orderly(back, x, {})
  PROVE  Made(Call("q4", work, back, NoAppend), Call("q4", work, back, NoAppend), y)
<1>1. ASSUME NEW lengths PROVE WellMade(Call("q4", work, back, NoAppend), y, lengths)
  <2>1. "q4" \in Quiet(y.owners \cup {"q4"}, lengths).owners /\ "host" \in Quiet({"host"}, lengths).owners
    BY DEF Quiet
  <2>2. "q4" \in Pools \cup {"none"}
    BY DEF Pools
  <2> QED BY <2>1, <2>2, QuietCall
<1> QED BY <1>1 DEF Made

(* The buffers of projections, and their results copied out. *)
LEMMA ProjectionsOrderly ==
  ASSUME NEW x, NEW P, NEW rows, NEW stages, IsSeq(stages)
  PROVE  /\ "q4" \in x.owners => Orderly(ProjectionBuffers(rows, stages), x, P)
         /\ \A outputs : "host" \in x.owners => Orderly(ProjectionsBack(rows, stages, outputs), x, P)
<1>1. Len(stages) \in Nat /\ DOMAIN stages = 1 .. Len(stages)
  BY SeqFacts
<1>2. ASSUME "q4" \in x.owners PROVE Orderly(ProjectionBuffers(rows, stages), x, P)
  <2> DEFINE a == <<Alloc(Q4("input"), Reads1(stages[1]), rows)>>
             b == [i \in DOMAIN stages |-> Alloc(Output(i), Writes1(stages[i]), rows)]
  <2>1. Orderly(a, x, P)
    BY <1>2, Q4Fine, Orderly1
  <2>2. b = [i \in 1 .. Len(stages) |-> b[i]]
    BY <1>1
  <2>3. \A i \in 1 .. Len(stages) : Fine(b[i], x, P)
    BY <1>1, <1>2, Q4Fine
  <2> HIDE DEF b
  <2>4. Orderly(b, x, P)
    BY <1>1, <2>2, <2>3, OrderlyFunction
  <2> QED BY <2>1, <2>4, OrderlyBoth DEF ProjectionBuffers, b
<1>3. ASSUME NEW outputs, "host" \in x.owners PROVE Orderly(ProjectionsBack(rows, stages, outputs), x, P)
  <2> DEFINE b == ProjectionsBack(rows, stages, outputs)
  <2>2. b = [i \in 1 .. Len(stages) |-> b[i]]
    BY <1>1 DEF ProjectionsBack
  <2>3. \A i \in 1 .. Len(stages) : Fine(b[i], x, P)
    BY <1>1, <1>3, HostFine DEF ProjectionsBack
  <2> HIDE DEF b
  <2>4. Orderly(b, x, P)
    BY <1>1, <2>2, <2>3, OrderlyFunction
  <2> QED BY <2>4 DEF b
<1> QED BY <1>2, <1>3

(* One row times several matrices. *)
LEMMA MatvecMade ==
  ASSUME NEW y, NEW l, NEW stages, IsSeq(stages), NEW input, NEW outputs
  PROVE  Made(q4_affine_matvec_mapped_batch(l, stages, input, outputs),
              q4_affine_matvec_mapped_batch(l, stages, input, outputs), y)
<1> DEFINE kind == Reads1(stages[1])
           a == ProjectionBuffers(1, stages)
           b == <<CopyIn(Host(input), Q4("input"), kind, 1)>>
           c == [i \in DOMAIN stages |->
              RowWise(stages[i], l, 1, <<At(Q4("input"), kind)>>, <<At(Output(i), Writes1(stages[i]))>>, 0)]
           back == ProjectionsBack(1, stages, outputs)
<1>1. Len(stages) \in Nat /\ DOMAIN stages = 1 .. Len(stages)
  BY SeqFacts
<1>2. ASSUME NEW x, "q4" \in x.owners PROVE Orderly((a \o b) \o c, x, {})
  <2>1. Orderly(a, x, {})
    BY <1>2, ProjectionsOrderly
  <2>2. Orderly(b, x, {})
    BY <1>2, Q4Fine, Orderly1 DEF CopyIn
  <2>3. c = [i \in 1 .. Len(stages) |-> c[i]]
    BY <1>1
  <2>4. \A i \in 1 .. Len(stages) : Fine(c[i], x, {})
    BY <1>1, <1>2, Q4Fine
  <2> HIDE DEF a, b, c
  <2>5. Orderly(c, x, {})
    BY <1>1, <2>3, <2>4, OrderlyFunction
  <2> QED BY <2>1, <2>2, <2>5, OrderlyBoth
<1>3. \A x : "host" \in x.owners => Orderly(back, x, {})
  BY ProjectionsOrderly
<1>4. q4_affine_matvec_mapped_batch(l, stages, input, outputs) = Call("q4", (a \o b) \o c, back, NoAppend)
  BY DEF q4_affine_matvec_mapped_batch
<1> HIDE DEF a, b, c, back
<1> QED BY <1>2, <1>3, <1>4, Q4Call

(* A block times several matrices, by MPS. *)
LEMMA MatmulMpsMade ==
  ASSUME NEW y, NEW l, NEW rows, NEW stages, IsSeq(stages), NEW input, NEW outputs
  PROVE  Made(q4_affine_matmul_mapped_batch_mps(l, rows, stages, input, outputs),
              q4_affine_matmul_mapped_batch_mps(l, rows, stages, input, outputs), y)
<1> DEFINE kind == Reads1(stages[1])
           a == MpsBuffers(rows, stages)
           b == <<CopyIn(Host(input), Q4("input"), kind, rows),
             Move(At(Q4("input"), kind), At(Q4("input_half"), kind), rows)>>
           multiply(i) ==
        <<Dequantize(l, stages[i], Q4("weights_half"), 0),
          Gemm(l, <<stages[i]>>, stages[i], Q4("weights_half"), rows, <<At(Q4("input_half"), kind)>>,
               <<At(HalfSlot(1), Writes1(stages[i]))>>),
          Move(At(HalfSlot(1), Writes1(stages[i])), At(Output(i), Writes1(stages[i])), rows)>>
           c == [i \in DOMAIN stages |-> multiply(i)]
           back == ProjectionsBack(rows, stages, outputs)
<1>1. Len(stages) \in Nat /\ DOMAIN stages = 1 .. Len(stages)
  BY SeqFacts
<1>2. ASSUME NEW x, "q4" \in x.owners PROVE Orderly((a \o b) \o Joined(c), x, {})
  <2>1. Orderly(a, x, {})
    <3> DEFINE largest(sizes) == CHOOSE n \in sizes : \A m \in sizes : m <= n
               one == largest({WeightCells(stages[i]) : i \in DOMAIN stages})
               two == largest({Cells(Writes1(stages[i]), rows) : i \in DOMAIN stages})
               u == <<Alloc(Q4("input"), Reads1(stages[1]), rows),
        Alloc(Q4("input_half"), Reads1(stages[1]), rows),
        AllocCells(Q4("weights_half"), one),
        AllocCells(HalfSlot(1), two)>>
               v == [i \in DOMAIN stages |-> Alloc(Output(i), Writes1(stages[i]), rows)]
    <3>1. Orderly(u, x, {})
      <4> HIDE DEF one, two
      <4> QED BY <1>2, Q4Fine, Orderly4
    <3>2. v = [i \in 1 .. Len(stages) |-> v[i]]
      BY <1>1
    <3>3. \A i \in 1 .. Len(stages) : Fine(v[i], x, {})
      BY <1>1, <1>2, Q4Fine
    <3>4. a = u \o v
      BY DEF MpsBuffers
    <3> HIDE DEF u, v, a
    <3>5. Orderly(v, x, {})
      BY <1>1, <3>2, <3>3, OrderlyFunction
    <3> QED BY <3>1, <3>4, <3>5, OrderlyBoth
  <2>2. Orderly(b, x, {})
    BY <1>2, Q4Fine, Orderly2 DEF CopyIn
  <2>3. c = [i \in 1 .. Len(stages) |-> c[i]]
    BY <1>1
  <2>4. \A i \in 1 .. Len(stages) : Orderly(c[i], x, {})
    <3>1. \A i : Orderly(multiply(i), x, {})
      BY <1>2, Q4Fine, Orderly3
    <3> HIDE DEF multiply
    <3> QED BY <1>1, <3>1
  <2> HIDE DEF a, b, c
  <2>5. Orderly(Joined(c), x, {})
    <3>1. IsSeq(c) /\ Len(c) = Len(stages)
      BY <1>1, <2>3, FunctionIsSeq
    <3> QED BY <2>4, <3>1, OrderlyJoined
  <2> QED BY <2>1, <2>2, <2>5, OrderlyBoth
<1>3. \A x : "host" \in x.owners => Orderly(back, x, {})
  BY ProjectionsOrderly
<1>4. q4_affine_matmul_mapped_batch_mps(l, rows, stages, input, outputs)
        = Call("q4", (a \o b) \o Joined(c), back, NoAppend)
  BY DEF q4_affine_matmul_mapped_batch_mps
<1> HIDE DEF a, b, c, back
<1> QED BY <1>2, <1>3, <1>4, Q4Call

(* A block times several matrices, on the path chosen. *)
LEMMA MatmulMade ==
  ASSUME NEW y, NEW mps, NEW l, NEW rows, NEW stages, IsSeq(stages), NEW input, NEW outputs
  PROVE  Made(q4_affine_matmul_mapped_batch(mps, l, rows, stages, input, outputs),
              q4_affine_matmul_mapped_batch(mps, l, rows, stages, input, outputs), y)
<1> DEFINE kind == Reads1(stages[1])
           a == ProjectionBuffers(rows, stages)
           b == <<CopyIn(Host(input), Q4("input"), kind, rows)>>
           c == [i \in DOMAIN stages |->
              RowWise(stages[i], l, rows, <<At(Q4("input"), kind)>>, <<At(Output(i), Writes1(stages[i]))>>, 0)]
           back == ProjectionsBack(rows, stages, outputs)
<1>1. Len(stages) \in Nat /\ DOMAIN stages = 1 .. Len(stages)
  BY SeqFacts
<1>2. ASSUME NEW x, "q4" \in x.owners PROVE Orderly((a \o b) \o c, x, {})
  <2>1. Orderly(a, x, {})
    BY <1>2, ProjectionsOrderly
  <2>2. Orderly(b, x, {})
    BY <1>2, Q4Fine, Orderly1 DEF CopyIn
  <2>3. c = [i \in 1 .. Len(stages) |-> c[i]]
    BY <1>1
  <2>4. \A i \in 1 .. Len(stages) : Fine(c[i], x, {})
    BY <1>1, <1>2, Q4Fine
  <2> HIDE DEF a, b, c
  <2>5. Orderly(c, x, {})
    BY <1>1, <2>3, <2>4, OrderlyFunction
  <2> QED BY <2>1, <2>2, <2>5, OrderlyBoth
<1>3. \A x : "host" \in x.owners => Orderly(back, x, {})
  BY ProjectionsOrderly
<1>4. q4_affine_matmul_mapped_batch(mps, l, rows, stages, input, outputs)
        = IF UsesMps(mps, rows) THEN q4_affine_matmul_mapped_batch_mps(l, rows, stages, input, outputs)
          ELSE Call("q4", (a \o b) \o c, back, NoAppend)
  BY DEF q4_affine_matmul_mapped_batch
<1> HIDE DEF a, b, c, back
<1> QED BY <1>2, <1>3, <1>4, Q4Call, MatmulMpsMade

(* The greedy head of the last rows. *)
LEMMA ArgmaxMade ==
  ASSUME NEW y, NEW l, NEW rows, NEW input, NEW output
  PROVE  Made(q4_affine_argmax_mapped_batch(l, rows, input, output),
              q4_affine_argmax_mapped_batch(l, rows, input, output), y)
<1> DEFINE work == <<Alloc(Q4("input"), "normalized", rows),
      Alloc(Output(1), "logits", rows),
      Alloc(Q4("argmax"), "token", rows),
      CopyIn(Host(input), Q4("input"), "normalized", rows),
      RowWise("lm_head", l, rows, <<At(Q4("input"), "normalized")>>, <<At(Output(1), "logits")>>, 0),
      RowWise("argmax", l, rows, <<At(Output(1), "logits")>>, <<At(Q4("argmax"), "token")>>, 0)>>
           back == <<CopyOut(Q4("argmax"), Host(output), "token", rows)>>
<1>1. \A x : "q4" \in x.owners => Orderly(work, x, {})
  BY Q4Fine, Orderly6 DEF CopyIn
<1>2. \A x : "host" \in x.owners => Orderly(back, x, {})
  BY HostFine, Orderly1
<1>3. q4_affine_argmax_mapped_batch(l, rows, input, output) = Call("q4", work, back, NoAppend)
  BY DEF q4_affine_argmax_mapped_batch
<1> HIDE DEF work, back
<1> QED BY <1>1, <1>2, <1>3, Q4Call

(* The kernels of the fused MLP. *)
LEMMA Orderly15 ==
  ASSUME NEW x, NEW P, NEW k1, NEW k2, NEW k3, NEW k4, NEW k5, NEW k6, NEW k7, NEW k8, NEW k9, NEW k10, NEW k11, NEW k12, NEW k13, NEW k14, NEW k15,
         Fine(k1, x, P), Fine(k2, x, P), Fine(k3, x, P), Fine(k4, x, P), Fine(k5, x, P), Fine(k6, x, P), Fine(k7, x, P), Fine(k8, x, P), Fine(k9, x, P), Fine(k10, x, P), Fine(k11, x, P), Fine(k12, x, P), Fine(k13, x, P), Fine(k14, x, P), Fine(k15, x, P)
  PROVE  Orderly(<<k1, k2, k3, k4, k5, k6, k7, k8, k9, k10, k11, k12, k13, k14, k15>>, x, P)
<1> DEFINE s == <<k1, k2, k3, k4, k5, k6, k7, k8, k9, k10, k11, k12, k13, k14, k15>>
<1>1. s \in Seq({k1, k2, k3, k4, k5, k6, k7, k8, k9, k10, k11, k12, k13, k14, k15}) /\ Len(s) = 15 /\ s[1] = k1 /\ s[2] = k2 /\ s[3] = k3 /\ s[4] = k4 /\ s[5] = k5 /\ s[6] = k6 /\ s[7] = k7 /\ s[8] = k8 /\ s[9] = k9 /\ s[10] = k10 /\ s[11] = k11 /\ s[12] = k12 /\ s[13] = k13 /\ s[14] = k14 /\ s[15] = k15
  OBVIOUS
<1> HIDE DEF s
<1>2. \A i \in 1 .. 15 : i = 1 \/ i = 2 \/ i = 3 \/ i = 4 \/ i = 5 \/ i = 6 \/ i = 7 \/ i = 8 \/ i = 9 \/ i = 10 \/ i = 11 \/ i = 12 \/ i = 13 \/ i = 14 \/ i = 15
  OBVIOUS
<1>3. Orderly(s, x, P)
  BY <1>1, <1>2, SeqOfAny, OrderlyAll
<1> QED BY <1>3 DEF s

(* The MLP by MPS. *)
LEMMA MlpMpsMade ==
  ASSUME NEW y, NEW l, NEW rows, NEW input, NEW output
  PROVE  Made(q4_affine_mlp_mapped_batch_mps(l, rows, input, output),
              q4_affine_mlp_mapped_batch_mps(l, rows, input, output), y)
<1> DEFINE larger(a, b) == IF a >= b THEN a ELSE b
           one == larger(WeightCells("gate_proj"), WeightCells("down_proj"))
           two == larger(Cells("gate", rows), Cells("mlp", rows))
           product(stage, from, slot) ==
             <<Dequantize(l, stage, Q4("weights_half"), 0),
               Gemm(l, <<stage>>, stage, Q4("weights_half"), rows, <<At(from, Reads1(stage))>>,
                    <<At(slot, Writes1(stage))>>)>>
           a == <<Alloc(Q4("input"), "post_normed", rows),
                  Alloc(Q4("input_half"), "post_normed", rows),
                  AllocCells(Q4("weights_half"), one),
                  AllocCells(HalfSlot(1), two),
                  Alloc(HalfSlot(2), "gate", rows),
                  Alloc(HalfSlot(3), "gate", rows),
                  Alloc(Output(1), "mlp", rows),
                  CopyIn(Host(input), Q4("input"), "post_normed", rows),
                  Move(At(Q4("input"), "post_normed"), At(Q4("input_half"), "post_normed"), rows)>>
           b == product("gate_proj", Q4("input_half"), HalfSlot(1))
           c == product("up_proj", Q4("input_half"), HalfSlot(2))
           d == <<RowWise("swiglu", l, rows, <<At(HalfSlot(1), "gate"), At(HalfSlot(2), "up")>>,
                     <<At(HalfSlot(3), "swiglu")>>, 0)>>
           e == product("down_proj", HalfSlot(3), HalfSlot(1))
           f == <<Move(At(HalfSlot(1), "mlp"), At(Output(1), "mlp"), rows)>>
           back == <<CopyOut(Output(1), Host(output), "mlp", rows)>>
<1>1. ASSUME NEW x, "q4" \in x.owners PROVE Orderly(((((a \o b) \o c) \o d) \o e) \o f, x, {})
  <2>1. Orderly(a, x, {})
    <3> HIDE DEF one, two
    <3> QED BY <1>1, Q4Fine, Orderly9 DEF CopyIn
  <2>2. \A stage, from, i : Orderly(product(stage, from, HalfSlot(i)), x, {})
    BY <1>1, Q4Fine, Orderly2
  <2>3. Orderly(b, x, {}) /\ Orderly(c, x, {}) /\ Orderly(e, x, {})
    <3> HIDE DEF product
    <3> QED BY <2>2
  <2>4. Orderly(d, x, {}) /\ Orderly(f, x, {})
    BY <1>1, Q4Fine, Orderly1
  <2> HIDE DEF a, b, c, d, e, f
  <2> QED BY <2>1, <2>3, <2>4, OrderlyBoth
<1>2. \A x : "host" \in x.owners => Orderly(back, x, {})
  BY HostFine, Orderly1
<1>3. q4_affine_mlp_mapped_batch_mps(l, rows, input, output)
        = Call("q4", ((((a \o b) \o c) \o d) \o e) \o f, back, NoAppend)
  BY DEF q4_affine_mlp_mapped_batch_mps
<1> HIDE DEF a, b, c, d, e, f, back
<1> QED BY <1>1, <1>2, <1>3, Q4Call

(* The MLP by MPS with the gate and up products in one. *)
LEMMA MlpFusedMade ==
  ASSUME NEW y, NEW l, NEW rows, NEW input, NEW output
  PROVE  Made(q4_affine_mlp_mapped_batch_mps_fused_gate_up(l, rows, input, output),
              q4_affine_mlp_mapped_batch_mps_fused_gate_up(l, rows, input, output), y)
<1> DEFINE larger(a, b) == IF a >= b THEN a ELSE b
           both == WeightCells("gate_proj") + WeightCells("up_proj")
           one == larger(both, WeightCells("down_proj"))
           two == larger(Cells("gate_up", rows), Cells("mlp", rows))
           at == WeightCells("gate_proj")
           work == <<Alloc(Q4("input"), "post_normed", rows),
          Alloc(Q4("input_half"), "post_normed", rows),
          AllocCells(Q4("weights_half"), one),
          AllocCells(HalfSlot(1), two),
          Alloc(HalfSlot(2), "swiglu", rows),
          Alloc(Output(1), "mlp", rows),
          CopyIn(Host(input), Q4("input"), "post_normed", rows),
          Move(At(Q4("input"), "post_normed"), At(Q4("input_half"), "post_normed"), rows),
          Dequantize(l, "gate_proj", Q4("weights_half"), 0),
          Dequantize(l, "up_proj", Q4("weights_half"), at),
          Gemm(l, <<"gate_proj", "up_proj">>, "gate_up", Q4("weights_half"), rows,
               <<At(Q4("input_half"), "post_normed")>>, <<At(HalfSlot(1), "gate_up")>>),
          RowWise("swiglu_split", l, rows, <<At(HalfSlot(1), "gate_up")>>, <<At(HalfSlot(2), "swiglu")>>, 0),
          Dequantize(l, "down_proj", Q4("weights_half"), 0),
          Gemm(l, <<"down_proj">>, "down_proj", Q4("weights_half"), rows,
               <<At(HalfSlot(2), "swiglu")>>, <<At(HalfSlot(1), "mlp")>>),
          Move(At(HalfSlot(1), "mlp"), At(Output(1), "mlp"), rows)>>
           back == <<CopyOut(Output(1), Host(output), "mlp", rows)>>
<1>1. \A x : "q4" \in x.owners => Orderly(work, x, {})
  <2> HIDE DEF one, two, at
  <2> QED BY Q4Fine, Orderly15 DEF CopyIn
<1>2. \A x : "host" \in x.owners => Orderly(back, x, {})
  BY HostFine, Orderly1
<1>3. q4_affine_mlp_mapped_batch_mps_fused_gate_up(l, rows, input, output) = Call("q4", work, back, NoAppend)
  BY DEF q4_affine_mlp_mapped_batch_mps_fused_gate_up
<1> HIDE DEF work, back
<1> QED BY <1>1, <1>2, <1>3, Q4Call

(* The MLP on the path chosen. *)
LEMMA MlpMade ==
  ASSUME NEW y, NEW mps, NEW l, NEW rows, NEW input, NEW output
  PROVE  Made(q4_affine_mlp_mapped_batch(mps, l, rows, input, output),
              q4_affine_mlp_mapped_batch(mps, l, rows, input, output), y)
<1> DEFINE work == <<Alloc(Q4("input"), "post_normed", rows),
           Alloc(Output(1), "gate", rows),
           Alloc(Output(2), "up", rows),
           Alloc(Output(3), "swiglu", rows),
           Alloc(Output(4), "mlp", rows),
           CopyIn(Host(input), Q4("input"), "post_normed", rows),
           RowWise("gate_proj", l, rows, <<At(Q4("input"), "post_normed")>>, <<At(Output(1), "gate")>>, 0),
           RowWise("up_proj", l, rows, <<At(Q4("input"), "post_normed")>>, <<At(Output(2), "up")>>, 0),
           RowWise("swiglu", l, rows, <<At(Output(1), "gate"), At(Output(2), "up")>>,
                   <<At(Output(3), "swiglu")>>, 0),
           RowWise("down_proj", l, rows, <<At(Output(3), "swiglu")>>, <<At(Output(4), "mlp")>>, 0)>>
           back == <<CopyOut(Output(4), Host(output), "mlp", rows)>>
<1>1. \A x : "q4" \in x.owners => Orderly(work, x, {})
  BY Q4Fine, Orderly10 DEF CopyIn
<1>2. \A x : "host" \in x.owners => Orderly(back, x, {})
  BY HostFine, Orderly1
<1>3. q4_affine_mlp_mapped_batch(mps, l, rows, input, output)
        = IF UsesMps(mps, rows)
          THEN IF mps = "fused"
               THEN q4_affine_mlp_mapped_batch_mps_fused_gate_up(l, rows, input, output)
               ELSE q4_affine_mlp_mapped_batch_mps(l, rows, input, output)
          ELSE Call("q4", work, back, NoAppend)
  BY DEF q4_affine_mlp_mapped_batch
<1> HIDE DEF work, back
<1> QED BY <1>1, <1>2, <1>3, Q4Call, MlpMpsMade, MlpFusedMade

(* What the language pool may do with its buffers. *)
LEMMA LanguageFine ==
  ASSUME NEW x, NEW P, "language" \in x.owners
  PROVE  \A b : b = LanguageScores \/ (\E i : b = Language(i)) =>
           /\ \A kind, rows : Fine(Alloc(b, kind, rows), x, P)
           /\ \A cells : Fine(AllocCells(b, cells), x, P)
           /\ \A kind, from, rows : Fine(Move(from, At(b, kind), rows), x, P)
           /\ \A l, query, kv, length : Fine(Scores(l, query, kv, length, b), x, P)
           /\ \A kind, l, scores, kv, length, gate : Fine(Values(l, scores, kv, length, gate, At(b, kind)), x, P)
           /\ \A kind : At(b, kind).buffer[1] \in x.owners
<1>1. \A b : b = LanguageScores \/ (\E i : b = Language(i)) => b[1] \in x.owners
  BY DEF LanguageScores, Language
<1>2. \A b, kind : b[1] \in x.owners => At(b, kind).buffer[1] \in x.owners
  BY DEF At
<1> QED BY <1>1, <1>2, TagFine

(* Operands copied in. *)
LEMMA LanguageInOrderly ==
  ASSUME NEW x, NEW P, "language" \in x.owners, NEW hosts, IsSeq(hosts), NEW kinds, NEW rows
  PROVE  Orderly(LanguageIn(hosts, kinds, rows), x, P) /\ Orderly(LanguageCopies(hosts, kinds, rows), x, P)
<1>1. Len(hosts) \in Nat /\ DOMAIN hosts = 1 .. Len(hosts)
  BY SeqFacts
<1> DEFINE a == LanguageIn(hosts, kinds, rows)
           b == LanguageCopies(hosts, kinds, rows)
<1>2. a = [i \in 1 .. Len(hosts) |-> a[i]] /\ \A i \in 1 .. Len(hosts) : Fine(a[i], x, P)
  <2>1. a = [i \in 1 .. Len(hosts) |-> Alloc(Language(i), kinds[i], rows)]
    BY <1>1 DEF LanguageIn
  <2>2. \A i : Fine(Alloc(Language(i), kinds[i], rows), x, P)
    BY LanguageFine
  <2> HIDE DEF a
  <2> QED BY <2>1, <2>2
<1>3. b = [i \in 1 .. Len(hosts) |-> b[i]] /\ \A i \in 1 .. Len(hosts) : Fine(b[i], x, P)
  <2>1. b = [i \in 1 .. Len(hosts) |-> Move(At(Host(hosts[i]), kinds[i]), At(Language(i), kinds[i]), rows)]
    BY <1>1 DEF LanguageCopies, CopyIn
  <2>2. \A i : Fine(Move(At(Host(hosts[i]), kinds[i]), At(Language(i), kinds[i]), rows), x, P)
    BY LanguageFine
  <2> HIDE DEF b
  <2> QED BY <2>1, <2>2
<1> HIDE DEF a, b
<1>4. Orderly(a, x, P) /\ Orderly(b, x, P)
  BY <1>1, <1>2, <1>3, OrderlyFunction
<1> QED BY <1>4 DEF a, b

(* The operands' names. *)
LEMMA HostTuples == IsSeq(DeltaHosts) /\ IsSeq(GqaOperands)
<1>1. DeltaHosts \in Seq({"qkv", "z", "b", "a"}) /\ GqaOperands \in Seq({"query", "query_gate", "key", "value"})
  BY DEF DeltaHosts, GqaOperands
<1> QED BY <1>1, SeqOfAny

(* The result copied out. *)
LEMMA LanguageBack ==
  ASSUME NEW lengths, NEW i, NEW output, NEW kind, NEW rows
  PROVE  Orderly(<<CopyOut(Language(i), Host(output), kind, rows)>>, Quiet({"host"}, lengths), {})
<1>1. "host" \in Quiet({"host"}, lengths).owners
  BY DEF Quiet
<1> QED BY <1>1, HostFine, Orderly1

(* The recurrence of one token. *)
LEMMA DeltanetStepMade ==
  ASSUME NEW y, "active" \in y.owners, NEW l, NEW output
  PROVE  Made(deltanet_step(l, output), deltanet_step(l, output), y)
<1> DEFINE on(i, kind) == At(Language(i), kind)
           a == LanguageIn(DeltaHosts, DeltaOperands, 1)
           b == <<Alloc(Language(5), "channels", 1), Alloc(Language(6), "z", 1)>>
           c == LanguageCopies(DeltaHosts, DeltaOperands, 1)
           d == DeltanetStep(l, on(1, "channels"), on(2, "z"), on(3, "b"), on(4, "a"),
                        on(5, "convolved"), on(6, "delta"))
           back == <<CopyOut(Language(6), Host(output), "gated", 1)>>
<1>1. ASSUME NEW lengths PROVE WellMade(deltanet_step(l, output), y, lengths)
  <2> DEFINE x == Quiet(y.owners \cup {"language"}, lengths)
  <2>1. "language" \in x.owners /\ "active" \in x.owners
    BY DEF Quiet
  <2> HIDE DEF x
  <2>2. Orderly(a, x, {}) /\ Orderly(c, x, {})
    BY <2>1, HostTuples, LanguageInOrderly
  <2>3. Orderly(b, x, {})
    BY <2>1, LanguageFine, Orderly2
  <2>4. Orderly(d, x, {})
    <3>1. \A i, kind : on(i, kind).buffer[1] \in x.owners
      BY <2>1, LanguageFine
    <3> HIDE DEF on
    <3> QED BY <2>1, <3>1, DeltanetStepOrderly
  <2>5. Orderly(back, Quiet({"host"}, lengths), {})
    BY LanguageBack
  <2>6. deltanet_step(l, output) = Call("language", ((a \o b) \o c) \o d, back, NoAppend)
    BY DEF deltanet_step
  <2> HIDE DEF a, b, c, d, back
  <2>7. Orderly(((a \o b) \o c) \o d, x, {})
    BY <2>2, <2>3, <2>4, OrderlyBoth
  <2>8. "language" \in Pools \cup {"none"}
    BY DEF Pools
  <2> QED BY <2>5, <2>6, <2>7, <2>8, QuietCall DEF x
<1> QED BY <1>1 DEF Made

(* The recurrence of a block, from one state to another. *)
LEMMA DeltanetPrefillMade ==
  ASSUME NEW y, NEW source, NEW destination \in y.owners, NEW l, NEW rows \in Nat, NEW output
  PROVE  Made(deltanet_prefill_from_buffers(l, rows, source, destination, output),
              deltanet_prefill_from_buffers(l, rows, source, destination, output), y)
<1> DEFINE on(i, kind) == At(Language(i), kind)
           a == LanguageIn(DeltaHosts, DeltaOperands, rows)
           b == <<Alloc(Language(5), "gated", rows)>>
           c == LanguageCopies(DeltaHosts, DeltaOperands, rows)
           p == Prefill(l, rows, <<on(1, "channels"), on(2, "z"), on(3, "b"), on(4, "a")>>, on(5, "gated"),
                     State(source, l), State(destination, l), State(destination, l), 0)
           d == <<p>>
           back == <<CopyOut(Language(5), Host(output), "gated", rows)>>
<1>1. ASSUME NEW lengths PROVE WellMade(deltanet_prefill_from_buffers(l, rows, source, destination, output), y, lengths)
  <2> DEFINE x == Quiet(y.owners \cup {"language"}, lengths)
  <2>1. "language" \in x.owners /\ destination \in x.owners
    BY DEF Quiet
  <2> HIDE DEF x
  <2>2. Orderly(a, x, {}) /\ Orderly(c, x, {})
    BY <2>1, HostTuples, LanguageInOrderly
  <2>3. Orderly(b, x, {})
    BY <2>1, LanguageFine, Orderly1
  <2>4. Orderly(d, x, {})
    <3>1. \A i, kind : on(i, kind).buffer[1] \in x.owners
      BY <2>1, LanguageFine
    <3>2. Fine(p, x, {})
      <4> HIDE DEF on
      <4> QED BY <2>1, <3>1, PrefillFine
    <3> HIDE DEF p
    <3> QED BY <3>2, Orderly1
  <2>5. Orderly(back, Quiet({"host"}, lengths), {})
    BY LanguageBack
  <2>6. deltanet_prefill_from_buffers(l, rows, source, destination, output)
          = Call("language", ((a \o b) \o c) \o d, back, NoAppend)
    BY DEF deltanet_prefill_from_buffers
  <2> HIDE DEF a, b, c, d, back
  <2>7. Orderly(((a \o b) \o c) \o d, x, {})
    BY <2>2, <2>3, <2>4, OrderlyBoth
  <2>8. "language" \in Pools \cup {"none"}
    BY DEF Pools
  <2> QED BY <2>5, <2>6, <2>7, <2>8, QuietCall DEF x
<1> QED BY <1>1 DEF Made

(* A call that begins by making room in the cache it appends to. *)
LEMMA ReservingCall ==
  ASSUME NEW y, Proper(y), NEW lengths, Lengths(lengths), NEW l \in y.may, NEW rows \in Nat, NEW work, NEW back,
         NEW required, required = lengths[l] + rows,
         Orderly(work, [owners |-> y.owners \cup {"language"}, length |-> lengths, new |-> [k \in {l} |-> rows]], {l}),
         Orderly(back, Quiet({"host"}, lengths), {})
  PROVE  WellMade(Call("language", <<ReserveKv(Kv(l), lengths[l], required)>> \o work, back, [k \in {l} |-> rows]),
                  y, lengths)
<1> DEFINE appends == [k \in {l} |-> rows]
           first == <<ReserveKv(Kv(l), lengths[l], required)>>
           c == Call("language", first \o work, back, appends)
           x == [owners |-> y.owners \cup {"language"}, length |-> lengths, new |-> appends]
<1>1. c.pool = "language" /\ c.work = first \o work /\ c.back = back /\ c.appends = appends
  BY DEF Call
<1>2. Effect(c, y.owners, lengths) = x
  BY <1>1 DEF Effect
<1>3. DOMAIN appends = {l} /\ \A k \in {l} : k = l /\ appends[k] = rows
  OBVIOUS
<1>4. x.length = lengths /\ x.new = appends
  OBVIOUS
<1>5. Orderly(work, x, {l})
  OBVIOUS
<1> HIDE DEF c, appends, x
<1>6. l \in Caches /\ lengths[l] \in Nat /\ required \in Nat
  BY DEF Proper, Lengths
<1>7. Orderly(first, x, {})
  <2>1. Fine(ReserveKv(Kv(l), lengths[l], required), x, {})
    BY <1>4, <1>6, ReserveFine
  <2> QED BY <2>1, Orderly1
<1>8. Reserves(first, l, x, required)
  <2>1. first[1] = ReserveKv(Kv(l), lengths[l], required) /\ 1 \in 1 .. Len(first)
    OBVIOUS
  <2> QED BY <1>4, <2>1 DEF Reserves, Reserving
<1> HIDE DEF first
<1>9. Orderly(first \o work, x, {})
  <2>1. \A k \in {l} : Reserves(first, k, x, x.length[k] + x.new[k])
    BY <1>3, <1>4, <1>8
  <2>2. Orderly(work, x, {} \cup {l})
    <3>1. {} \cup {l} = {l}
      OBVIOUS
    <3> QED BY <1>5, <3>1
  <2> PICK Q : Q = {l}
    OBVIOUS
  <2> QED BY <1>7, <2>1, <2>2, OrderlyConcat
<1>10. Reserves(first \o work, l, x, required)
  BY <1>5, <1>7, <1>8, ReservesConcat DEF Orderly
<1>11. WellMade(c, y, lengths)
  <2>1. c.pool \in Pools \cup {"none"}
    BY <1>1 DEF Pools
  <2>2. DOMAIN c.appends \subseteq y.may
    BY <1>1, <1>3
  <2>3. \A k \in DOMAIN c.appends : c.appends[k] \in Nat /\ Reserves(c.work, k, x, lengths[k] + c.appends[k])
    BY <1>1, <1>3, <1>10
  <2> QED BY <1>1, <1>2, <1>9, <2>1, <2>2, <2>3 DEF WellMade
<1> QED BY <1>11 DEF c, first, appends

(* The attention of one token, with room made for it. *)
LEMMA GqaAttentionMade ==
  ASSUME NEW y, Proper(y), NEW l \in y.may, NEW output
  PROVE  Made(gqa_attention_q8(l, y.from[l], output), gqa_attention_q8(l, y.to[l], output), y)
<1>1. ASSUME NEW lengths, Lengths(lengths) PROVE WellMade(gqa_attention_q8(l, lengths[l], output), y, lengths)
  <2> PICK length : length = lengths[l]
    OBVIOUS
  <2> DEFINE on(i, kind) == At(Language(i), kind)
           appends == [k \in {l} |-> 1]
           x == [owners |-> y.owners \cup {"language"}, length |-> lengths, new |-> appends]
           a == LanguageIn(GqaOperands, GqaOperands, 1)
           more == length + 1
           b == <<Alloc(Language(5), "attended", 1), AllocCells(LanguageScores, more)>>
           c == LanguageCopies(GqaOperands, GqaOperands, 1)
           d == <<AppendKv(l, 1, on(3, "key"), on(4, "value"), Kv(l), length),
             Scores(l, on(1, "query"), Kv(l), more, LanguageScores),
             Values(l, LanguageScores, Kv(l), more, on(2, "query_gate"), on(5, "attended"))>>
           back == <<CopyOut(Language(5), Host(output), "attended", 1)>>
  <2>1. "language" \in x.owners /\ x.length = lengths /\ x.new[l] = 1 /\ l \in DOMAIN x.new /\ l \in {l}
    OBVIOUS
  <2> HIDE DEF x
  <2>2. Orderly(a, x, {l}) /\ Orderly(c, x, {l})
    BY <2>1, HostTuples, LanguageInOrderly
  <2>3. Orderly(b, x, {l})
    <3> HIDE DEF more
    <3> QED BY <2>1, LanguageFine, Orderly2
  <2>4. Orderly(d, x, {l})
    <3> HIDE DEF more
    <3>1. Fine(AppendKv(l, 1, on(3, "key"), on(4, "value"), Kv(l), length), x, {l})
      BY <2>1, AppendFine
    <3>2. Fine(Scores(l, on(1, "query"), Kv(l), more, LanguageScores), x, {l})
      BY <2>1, LanguageFine
    <3>3. Fine(Values(l, LanguageScores, Kv(l), more, on(2, "query_gate"), on(5, "attended")), x, {l})
      BY <2>1, LanguageFine
    <3> QED BY <3>1, <3>2, <3>3, Orderly3
  <2>5. Orderly(back, Quiet({"host"}, lengths), {})
    BY LanguageBack
  <2> PICK k1 : k1 = <<ReserveKv(Kv(l), length, more)>>
    OBVIOUS
  <2>6. gqa_attention_q8(l, length, output) = Call("language", (((k1 \o a) \o b) \o c) \o d, back, appends)
    BY DEF gqa_attention_q8
  <2> HIDE DEF a, b, c, d, back
  <2>7. Orderly(((a \o b) \o c) \o d, x, {l})
    BY <2>2, <2>3, <2>4, OrderlyBoth
  <2>8. (((k1 \o a) \o b) \o c) \o d = k1 \o (((a \o b) \o c) \o d)
    OBVIOUS
  <2> PICK work : work = ((a \o b) \o c) \o d
    OBVIOUS
  <2>9. Orderly(work, [owners |-> y.owners \cup {"language"}, length |-> lengths, new |-> [k \in {l} |-> 1]], {l})
    BY <2>7 DEF x
  <2>10. WellMade(Call("language", <<ReserveKv(Kv(l), lengths[l], more)>> \o work, back, [k \in {l} |-> 1]), y, lengths)
    <3> PICK required, n : required = more /\ n = 1
      OBVIOUS
    <3>1. required = lengths[l] + n /\ n \in Nat
      OBVIOUS
    <3>2. Orderly(work, [owners |-> y.owners \cup {"language"}, length |-> lengths, new |-> [k \in {l} |-> n]], {l})
      BY <2>9
    <3> HIDE DEF more
    <3>3. WellMade(Call("language", <<ReserveKv(Kv(l), lengths[l], required)>> \o work, back, [k \in {l} |-> n]), y, lengths)
      BY ONLY <1>1, <2>5, <3>1, <3>2, Proper(y), l \in y.may, ReservingCall
    <3> QED BY <3>3
  <2> QED BY <2>6, <2>8, <2>10
<1>2. gqa_attention_q8(l, y.from[l], output).appends = gqa_attention_q8(l, y.to[l], output).appends
  BY DEF gqa_attention_q8, Call
<1>3. Lengths(y.from) /\ Lengths(y.to)
  BY DEF Proper
<1> QED BY <1>1, <1>2, <1>3 DEF Made

(* The attention of a block, with room made for it. *)
LEMMA GqaPrefillMade ==
  ASSUME NEW y, Proper(y), NEW l \in y.may, NEW rows \in Nat, NEW output
  PROVE  Made(gqa_attention_q8_prefill(l, rows, y.from[l], output), gqa_attention_q8_prefill(l, rows, y.to[l], output), y)
<1>1. ASSUME NEW lengths, Lengths(lengths) PROVE WellMade(gqa_attention_q8_prefill(l, rows, lengths[l], output), y, lengths)
  <2> PICK length : length = lengths[l]
    OBVIOUS
  <2> DEFINE on(i, kind) == At(Language(i), kind)
           appends == [k \in {l} |-> rows]
           x == [owners |-> y.owners \cup {"language"}, length |-> lengths, new |-> appends]
           a == LanguageIn(GqaOperands, GqaOperands, rows)
           more == length + rows
           b == <<Alloc(Language(5), "attended", rows)>>
           c == LanguageCopies(GqaOperands, GqaOperands, rows)
           d == GqaPrefill(l, rows, on(1, "query"), on(2, "query_gate"), on(3, "key"), on(4, "value"),
                      length, on(5, "attended"))
           back == <<CopyOut(Language(5), Host(output), "attended", rows)>>
  <2>1. "language" \in x.owners /\ x.length = lengths /\ x.new[l] = rows /\ l \in DOMAIN x.new /\ l \in {l}
    OBVIOUS
  <2> HIDE DEF x
  <2>2. Orderly(a, x, {l}) /\ Orderly(c, x, {l})
    BY <2>1, HostTuples, LanguageInOrderly
  <2>3. Orderly(b, x, {l})
    BY <2>1, LanguageFine, Orderly1
  <2>4. Orderly(d, x, {l})
    <3>1. on(5, "attended").buffer[1] \in x.owners
      BY <2>1, LanguageFine
    <3> HIDE DEF on
    <3> QED BY <2>1, <3>1, GqaPrefillOrderly
  <2>5. Orderly(back, Quiet({"host"}, lengths), {})
    BY LanguageBack
  <2> PICK k1 : k1 = <<ReserveKv(Kv(l), length, more)>>
    OBVIOUS
  <2>6. gqa_attention_q8_prefill(l, rows, length, output)
          = Call("language", (((k1 \o a) \o b) \o c) \o d, back, appends)
    BY DEF gqa_attention_q8_prefill
  <2> HIDE DEF a, b, c, d, back
  <2>7. Orderly(((a \o b) \o c) \o d, x, {l})
    BY <2>2, <2>3, <2>4, OrderlyBoth
  <2>8. (((k1 \o a) \o b) \o c) \o d = k1 \o (((a \o b) \o c) \o d)
    OBVIOUS
  <2> PICK work : work = ((a \o b) \o c) \o d
    OBVIOUS
  <2>9. Orderly(work, [owners |-> y.owners \cup {"language"}, length |-> lengths, new |-> [k \in {l} |-> rows]], {l})
    BY <2>7 DEF x
  <2>10. WellMade(Call("language", <<ReserveKv(Kv(l), lengths[l], more)>> \o work, back, [k \in {l} |-> rows]), y, lengths)
    <3> PICK required, n : required = more /\ n = rows
      OBVIOUS
    <3>1. required = lengths[l] + n /\ n \in Nat
      OBVIOUS
    <3>2. Orderly(work, [owners |-> y.owners \cup {"language"}, length |-> lengths, new |-> [k \in {l} |-> n]], {l})
      BY <2>9
    <3> HIDE DEF more
    <3>3. WellMade(Call("language", <<ReserveKv(Kv(l), lengths[l], required)>> \o work, back, [k \in {l} |-> n]), y, lengths)
      BY ONLY <1>1, <2>5, <3>1, <3>2, Proper(y), l \in y.may, ReservingCall
    <3> QED BY <3>3
  <2> QED BY <2>6, <2>8, <2>10
<1>2. gqa_attention_q8_prefill(l, rows, y.from[l], output).appends = gqa_attention_q8_prefill(l, rows, y.to[l], output).appends
  BY DEF gqa_attention_q8_prefill, Call
<1>3. Lengths(y.from) /\ Lengths(y.to)
  BY DEF Proper
<1> QED BY <1>1, <1>2, <1>3 DEF Made

-----------------------------------------------------------------------------
(* Mixers and layers of which each call is on a pool.                       *)

(* A stage on the CPU. *)
LEMMA OnHostOrderly ==
  ASSUME NEW x, NEW P, "host" \in x.owners, NEW stage, NEW l, NEW rows, NEW from, NEW to, IsSeq(to), NEW position
  PROVE  Orderly(OnHost(stage, l, rows, from, to, position), x, P)
<1>1. Len(to) \in Nat /\ DOMAIN to = 1 .. Len(to)
  BY SeqFacts
<1> DEFINE a == [i \in DOMAIN to |-> Fresh(Host(to[i]), Stage[stage].to[i], rows)]
           o == [i \in DOMAIN to |-> At(Host(to[i]), Stage[stage].to[i])]
           k == RowWise(stage, l, rows, from, o, position)
<1>2. Orderly(a, x, P)
  <2>1. a = [i \in 1 .. Len(to) |-> a[i]] /\ \A i \in 1 .. Len(to) : Fine(a[i], x, P)
    BY <1>1, HostFine
  <2> HIDE DEF a
  <2> QED BY <1>1, <2>1, OrderlyFunction
<1>3. ToTags(o, x.owners)
  <2>1. o = [i \in 1 .. Len(to) |-> o[i]] /\ \A i \in 1 .. Len(to) : o[i].buffer[1] \in x.owners
    BY <1>1 DEF At, Host
  <2> HIDE DEF o
  <2> QED BY <1>1, <2>1, FunctionIsSeq DEF ToTags
<1>4. Fine(k, x, P)
  <2> HIDE DEF o
  <2> QED BY <1>3 DEF Fine, Mild, RowWise
<1>5. OnHost(stage, l, rows, from, to, position) = a \o <<k>>
  BY DEF OnHost
<1> HIDE DEF a, k
<1>6. Orderly(<<k>>, x, P)
  BY <1>4, Orderly1
<1> QED BY <1>2, <1>5, <1>6, OrderlyBoth

(* The names of stages and vectors. *)
LEMMA Names ==
  /\ IsSeq(LinearStages) /\ IsSeq(FullStages) /\ IsSeq(FullHosts)
  /\ \A s : IsSeq(<<s>>)
  /\ \A s, t : IsSeq(<<s, t>>)
<1>1. LinearStages \in Seq({"qkv", "z", "b", "a"}) /\ FullStages \in Seq({"q_proj", "k_proj", "v_proj"})
  BY DEF LinearStages, FullStages
<1>2. FullHosts \in Seq({"query_and_gate", "raw_key", "value"})
  BY DEF FullHosts
<1>3. \A s : <<s>> \in Seq({s})
  OBVIOUS
<1>4. \A s, t : <<s, t>> \in Seq({s, t})
  OBVIOUS
<1>5. \A s : IsSeq(<<s>>)
  BY <1>3, SeqOfAny
<1>6. \A s, t : IsSeq(<<s, t>>)
  BY <1>4, SeqOfAny
<1> QED BY <1>1, <1>2, <1>5, <1>6, SeqOfAny

(* The rotary embedding. *)
LEMMA RotateOrderly ==
  ASSUME NEW x, NEW P, "host" \in x.owners, NEW l, NEW rows, NEW position
  PROVE  Orderly(RotateQueriesAndKeys(l, rows, position), x, P)
<1>1. IsSeq(<<"query", "query_gate">>) /\ IsSeq(<<"key">>)
  BY Names
<1>2. \A from : /\ Orderly(OnHost("prepare_query", l, rows, from, <<"query", "query_gate">>, position), x, P)
                /\ Orderly(OnHost("prepare_key", l, rows, from, <<"key">>, position), x, P)
  BY <1>1, OnHostOrderly
<1> QED BY <1>2, OrderlyBoth DEF RotateQueriesAndKeys

(* Norms. *)
LEMMA NormOrderly ==
  ASSUME NEW x, NEW P, "host" \in x.owners
  PROVE  /\ \A l, rows, stream : Orderly(InputNorm(l, rows, stream), x, P)
         /\ \A stage, l, rows, from, position, s :
              Orderly(OnHost(stage, l, rows, from, <<s>>, position), x, P)
<1>1. \A s : IsSeq(<<s>>)
  BY Names
<1>2. \A stage, l, rows, from, position, s :
              Orderly(OnHost(stage, l, rows, from, <<s>>, position), x, P)
  BY <1>1, OnHostOrderly
<1> QED BY <1>2 DEF InputNorm

(* Three calls. *)
LEMMA Made3 ==
  ASSUME NEW y, NEW a, NEW b, NEW c, NEW d, NEW e, NEW f, Made(a, d, y), Made(b, e, y), Made(c, f, y)
  PROVE  MadeAll(<<a, b, c>>, <<d, e, f>>, y) /\ Len(<<a, b, c>>) = 3 /\ <<a, b, c>>[2] = b
<1> DEFINE s == <<a, b, c>>
           t == <<d, e, f>>
<1>1. /\ s \in Seq({a, b, c}) /\ Len(s) = 3 /\ s[1] = a /\ s[2] = b /\ s[3] = c
      /\ t \in Seq({d, e, f}) /\ Len(t) = 3 /\ t[1] = d /\ t[2] = e /\ t[3] = f
  OBVIOUS
<1> HIDE DEF s, t
<1>2. \A i \in 1 .. 3 : i = 1 \/ i = 2 \/ i = 3
  OBVIOUS
<1>3. MadeAll(s, t, y)
  BY <1>1, <1>2, SeqOfAny DEF MadeAll
<1> QED BY <1>1, <1>3 DEF s, t

(* The mixer of a linear layer, one token. *)
LEMMA LinearForwardMade ==
  ASSUME NEW y, "active" \in y.owners, NEW l
  PROVE  MadeAll(LinearForward(l), LinearForward(l), y) /\ Len(LinearForward(l)) = 3
<1> PICK a, b, c : /\ a = q4_affine_matvec_mapped_batch(l, LinearStages, "normed", LinearStages)
                   /\ b = deltanet_step(l, "delta")
                   /\ c = q4_affine_matvec_mapped_batch(l, <<"out_proj">>, "delta", <<"mixed">>)
  OBVIOUS
<1>1. IsSeq(LinearStages) /\ IsSeq(<<"out_proj">>)
  BY Names
<1>2. Made(a, a, y) /\ Made(b, b, y) /\ Made(c, c, y)
  BY <1>1, MatvecMade, DeltanetStepMade
<1>3. LinearForward(l) = <<a, b, c>>
  BY DEF LinearForward
<1> QED BY <1>2, <1>3, Made3

(* The mixer of a linear layer, a block. *)
LEMMA LinearPrefillMade ==
  ASSUME NEW y, NEW mps, NEW l, NEW rows \in Nat, NEW source, NEW destination \in y.owners
  PROVE  /\ MadeAll(LinearPrefill(mps, l, rows, source, destination), LinearPrefill(mps, l, rows, source, destination), y)
         /\ Len(LinearPrefill(mps, l, rows, source, destination)) = 3
<1> PICK a, b, c : /\ a = q4_affine_matmul_mapped_batch(mps, l, rows, LinearStages, "normed", LinearStages)
                   /\ b = deltanet_prefill_from_buffers(l, rows, source, destination, "delta")
                   /\ c = q4_affine_matmul_mapped_batch(mps, l, rows, <<"out_proj">>, "delta", <<"mixed">>)
  OBVIOUS
<1>1. IsSeq(LinearStages) /\ IsSeq(<<"out_proj">>)
  BY Names
<1>2. Made(a, a, y) /\ Made(b, b, y) /\ Made(c, c, y)
  BY <1>1, MatmulMade, DeltanetPrefillMade
<1>3. LinearPrefill(mps, l, rows, source, destination) = <<a, b, c>>
  BY DEF LinearPrefill
<1> QED BY <1>2, <1>3, Made3

(* The mixer of a full layer, one token. *)
LEMMA FullForwardMade ==
  ASSUME NEW y, Proper(y), NEW l \in y.may, NEW input, NEW position, NEW later
  PROVE  /\ MadeAll(FullForward(l, input, y.from[l], position), FullForward(l, input, y.to[l], later), y)
         /\ Len(FullForward(l, input, y.from[l], position)) = 3
<1> PICK a0, r, q, b, d, c : /\ a0 = q4_affine_matvec_mapped_batch(l, FullStages, input, FullHosts)
                   /\ r = RotateQueriesAndKeys(l, 1, position)
                   /\ q = RotateQueriesAndKeys(l, 1, later)
                   /\ b = gqa_attention_q8(l, y.from[l], "attended")
                   /\ d = gqa_attention_q8(l, y.to[l], "attended")
                   /\ c = q4_affine_matvec_mapped_batch(l, <<"o_proj">>, "attended", <<"mixed">>)
  OBVIOUS
<1>1. IsSeq(FullStages) /\ IsSeq(<<"o_proj">>)
  BY Names
<1>2. Made(a0, a0, y) /\ Made(b, d, y) /\ Made(c, c, y)
  BY <1>1, MatvecMade, GqaAttentionMade
<1>3. Orderly(r, Quiet({"host"}, y.from), {}) /\ Orderly(q, Quiet({"host"}, y.to), {})
  BY RotateOrderly DEF Quiet
<1> PICK a, e : a = Followed(a0, r) /\ e = Followed(a0, q)
  OBVIOUS
<1>4. Made(a, e, y)
  BY <1>2, <1>3, MadeFollowed
<1>5. FullForward(l, input, y.from[l], position) = <<a, b, c>> /\ FullForward(l, input, y.to[l], later) = <<e, d, c>>
  BY DEF FullForward
<1>6. MadeAll(<<a, b, c>>, <<e, d, c>>, y) /\ Len(<<a, b, c>>) = 3
  BY <1>2, <1>4, Made3
<1> QED BY <1>5, <1>6

(* It appends one row. *)
LEMMA FullForwardAppends ==
  ASSUME NEW l, NEW input, NEW length, NEW position
  PROVE  LET c == FullForward(l, input, length, position)[2] IN l \in DOMAIN c.appends /\ c.appends[l] = 1
BY DEF FullForward, gqa_attention_q8, Call

(* The mixer of a full layer, a block. *)
LEMMA FullPrefillMade ==
  ASSUME NEW y, Proper(y), NEW mps, NEW l \in y.may, NEW rows \in Nat, NEW input, NEW position
  PROVE  LET s == FullPrefill(mps, l, rows, input, y.from[l], position)
         IN  MadeAll(s, FullPrefill(mps, l, rows, input, y.to[l], position), y) /\ Len(s) = 3
<1> PICK a0, r, b, d, c : /\ a0 = q4_affine_matmul_mapped_batch(mps, l, rows, FullStages, input, FullHosts)
                   /\ r = RotateQueriesAndKeys(l, rows, position)
                   /\ b = gqa_attention_q8_prefill(l, rows, y.from[l], "attended")
                   /\ d = gqa_attention_q8_prefill(l, rows, y.to[l], "attended")
                   /\ c = q4_affine_matmul_mapped_batch(mps, l, rows, <<"o_proj">>, "attended", <<"mixed">>)
  OBVIOUS
<1>1. IsSeq(FullStages) /\ IsSeq(<<"o_proj">>)
  BY Names
<1>2. Made(a0, a0, y) /\ Made(b, d, y) /\ Made(c, c, y)
  BY <1>1, MatmulMade, GqaPrefillMade
<1>3. Orderly(r, Quiet({"host"}, y.from), {}) /\ Orderly(r, Quiet({"host"}, y.to), {})
  BY RotateOrderly DEF Quiet
<1> PICK a : a = Followed(a0, r)
  OBVIOUS
<1>4. Made(a, a, y)
  BY <1>2, <1>3, MadeFollowed
<1>5. FullPrefill(mps, l, rows, input, y.from[l], position) = <<a, b, c>>
      /\ FullPrefill(mps, l, rows, input, y.to[l], position) = <<a, d, c>>
  BY DEF FullPrefill
<1>7. MadeAll(<<a, b, c>>, <<a, d, c>>, y) /\ Len(<<a, b, c>>) = 3
  BY <1>2, <1>4, Made3
<1> QED BY <1>5, <1>7

(* The second half of a layer. *)
LEMMA MlpPartMade ==
  ASSUME NEW y, "host" \in y.owners, NEW mps, NEW l, NEW rows, NEW stream, stream.buffer[1] = "host"
  PROVE  Made(MlpPart(mps, l, rows, stream), MlpPart(mps, l, rows, stream), y)
<1> PICK k, a, c, z :
      /\ k = RowWise("add_mixed", l, rows, <<stream, At(Host("mixed"), "mixed")>>, <<stream>>, 0)
      /\ a = OnHost("post_norm", l, rows, <<stream>>, <<"post_normed">>, 0)
      /\ c = q4_affine_mlp_mapped_batch(mps, l, rows, "post_normed", "mlp")
      /\ z = RowWise("add_mlp", l, rows, <<stream, At(Host("mlp"), "mlp")>>, <<stream>>, 0)
  OBVIOUS
<1>1. \A x, P : "host" \in x.owners => /\ Orderly(<<k>>, x, P) /\ Orderly(<<z>>, x, P) /\ Orderly(a, x, P)
                                       /\ Orderly(<<k>> \o a, x, P)
  <2> SUFFICES ASSUME NEW x, NEW P, "host" \in x.owners
               PROVE  /\ Orderly(<<k>>, x, P) /\ Orderly(<<z>>, x, P) /\ Orderly(a, x, P)
                      /\ Orderly(<<k>> \o a, x, P)
    OBVIOUS
  <2>1. Fine(k, x, P) /\ Fine(z, x, P)
    BY StageFine
  <2>2. Orderly(<<k>>, x, P) /\ Orderly(<<z>>, x, P)
    BY <2>1, Orderly1
  <2>3. Orderly(a, x, P)
    <3> QED BY NormOrderly
  <2> QED BY <2>2, <2>3, OrderlyBoth
<1> PICK b, d : b = <<k>> \o a /\ d = <<z>>
  OBVIOUS
<1>2. Orderly(b, Quiet(y.owners, y.from), {}) /\ Orderly(b, Quiet(y.owners, y.to), {})
  BY <1>1 DEF Quiet
<1>3. Orderly(d, Quiet({"host"}, y.from), {}) /\ Orderly(d, Quiet({"host"}, y.to), {})
  BY <1>1 DEF Quiet
<1>4. Made(c, c, y)
  BY MlpMade
<1>5. Made(Preceded(b, c), Preceded(b, c), y)
  BY <1>2, <1>4, MadePreceded
<1>6. MlpPart(mps, l, rows, stream) = Followed(Preceded(b, c), d)
  BY DEF MlpPart
<1> QED BY <1>3, <1>5, <1>6, MadeFollowed

(* A layer with any mixer. *)
LEMMA HostLayerMade ==
  ASSUME NEW y, "host" \in y.owners, NEW mps, NEW l, NEW rows, NEW stream, stream.buffer[1] = "host",
         NEW s, NEW t, MadeAll(s, t, y), Len(s) >= 1
  PROVE  /\ MadeAll(HostLayer(mps, l, rows, stream, s), HostLayer(mps, l, rows, stream, t), y)
         /\ Len(HostLayer(mps, l, rows, stream, s)) >= 1
<1> PICK k, c : k = InputNorm(l, rows, stream) /\ c = MlpPart(mps, l, rows, stream)
  OBVIOUS
<1>1. Orderly(k, Quiet(y.owners, y.from), {}) /\ Orderly(k, Quiet(y.owners, y.to), {})
  BY NormOrderly DEF Quiet
<1> PICK a, b, d : a = FirstCallPreceded(k, s) /\ b = FirstCallPreceded(k, t) /\ d = <<c>>
  OBVIOUS
<1>2. MadeAll(a, b, y) /\ Len(a) = Len(s)
  BY <1>1, MadeFirst
<1>3. MadeAll(d, d, y) /\ Len(d) = 1
  BY MlpPartMade, Made1
<1>4. MadeAll(a \o d, b \o d, y) /\ Len(d) <= Len(a \o d) /\ Len(a \o d) \in Nat
  BY <1>2, <1>3, MadeConcat
<1>5. HostLayer(mps, l, rows, stream, s) = a \o d /\ HostLayer(mps, l, rows, stream, t) = b \o d
  BY DEF HostLayer, FirstCallPreceded
<1> QED BY <1>3, <1>4, <1>5

-----------------------------------------------------------------------------
(* Passes over all the layers.                                              *)

(* The chunks of a prompt. *)
LEMMA ChunkRows ==
  ASSUME NEW n \in Nat
  PROVE  \E q \in Nat : /\ DOMAIN Chunks(n) = 1 .. q /\ Len(Chunks(n)) = q /\ (n >= 1 => q >= 1)
                        /\ \A c \in 1 .. q : Chunks(n)[c].rows \in Nat /\ Chunks(n)[c].first \in Nat
<1> DEFINE q == (n + ChunkTokens - 1) \div ChunkTokens
<1>1. ChunkTokens \in Nat /\ ChunkTokens >= 1
  BY RuntimeAssumption
<1> PICK T : T = ChunkTokens
  OBVIOUS
<1> PICK m : m = n + T - 1
  OBVIOUS
<1>2. T \in Nat /\ T >= 1 /\ m \in Nat /\ q = m \div T
  BY <1>1
<1> HIDE DEF q
<1>3. q \in Nat /\ T * q <= m /\ m < T * q + T
  <2>1. m \div T \in Int /\ m = T * (m \div T) + (m % T) /\ (m % T) \in 0 .. T - 1
    BY <1>2
  <2>2. m \div T >= 0
    BY <1>2
  <2> QED BY <1>2, <2>1, <2>2
<1>4. n >= 1 => q >= 1
  <2>1. ASSUME n >= 1, q = 0 PROVE FALSE
    <3>1. T * q = 0
      BY <1>2, <2>1
    <3> QED BY <1>2, <1>3, <2>1, <3>1
  <2> QED BY <1>3, <2>1
<1>5. ASSUME NEW c \in 1 .. q
      PROVE  Chunks(n)[c].rows \in Nat /\ Chunks(n)[c].first \in Nat
  <2> PICK d : d = c - 1
    OBVIOUS
  <2>1. d \in Nat /\ d + 1 <= q /\ d <= q
    BY <1>3, <1>5
  <2>2. d * T \in Nat
    BY <1>2, <2>1
  <2>3. d * T + T <= T * q
    <3>1. \A a, b, t \in Nat : a + 1 <= b => a * t + t <= t * b
      <4> TAKE a, b, t \in Nat
      <4> HAVE a + 1 <= b
      <4> PICK e : e = b - (a + 1)
        OBVIOUS
      <4>1. e \in Nat /\ b = a + 1 + e
        OBVIOUS
      <4>2. t * b = a * t + t + t * e /\ t * e \in Nat /\ a * t \in Nat
        BY <4>1
      <4> QED BY <4>2
    <3> QED BY <1>2, <1>3, <2>1, <3>1
  <2>4. d * T <= n
    <3>1. d * T + T <= m
      <4> PICK a, b : a = d * T /\ b = T * q
        OBVIOUS
      <4>1. a \in Nat /\ b \in Int /\ a + T <= b /\ b <= m
        BY <1>2, <1>3, <2>2, <2>3
      <4> QED BY <1>2, <4>1
    <3> PICK a : a = d * T
      OBVIOUS
    <3> QED BY <1>2, <2>2, <3>1
  <2>5. Chunks(n)[c] = [first |-> d * T, rows |-> IF d * T + T <= n THEN T ELSE n - d * T]
    BY DEF Chunks, q
  <2> PICK a : a = d * T
    OBVIOUS
  <2>6. a \in Nat /\ a <= n /\ Chunks(n)[c].first = a /\ Chunks(n)[c].rows = IF a + T <= n THEN T ELSE n - a
    BY <2>2, <2>4, <2>5
  <2> QED BY <1>2, <2>6
<1>6. Chunks(n) = [c \in 1 .. q |-> Chunks(n)[c]]
  BY DEF Chunks, q
<1>7. DOMAIN Chunks(n) = 1 .. q /\ Len(Chunks(n)) = q
  BY <1>3, <1>6, FunctionIsSeq
<1> QED BY <1>3, <1>4, <1>5, <1>7

(* The mixer of a chunk. *)
LEMMA PrefillMixerMade ==
  ASSUME NEW y, Proper(y), FullLayers \subseteq y.may, NEW env1, NEW l \in 1 .. LastLayer, NEW chunk, chunk.rows \in Nat,
         NEW speculating, Destination(speculating) \in y.owners, NEW position
  PROVE  /\ MadeAll(PrefillMixer(env1, l, chunk, speculating, IF l \in FullLayers THEN y.from[l] ELSE 0, position),
                    PrefillMixer(env1, l, chunk, speculating, IF l \in FullLayers THEN y.to[l] ELSE 0, position), y)
         /\ Len(PrefillMixer(env1, l, chunk, speculating, IF l \in FullLayers THEN y.from[l] ELSE 0, position)) >= 1
<1>1. CASE LayerKind[l] = "linear"
  <2> PICK s : s = LinearPrefill(env1.mps, l, chunk.rows, Source(speculating, chunk), Destination(speculating))
    OBVIOUS
  <2>1. MadeAll(s, s, y) /\ Len(s) = 3
    BY LinearPrefillMade
  <2>2. \A length : PrefillMixer(env1, l, chunk, speculating, length, position) = s
    BY <1>1 DEF PrefillMixer
  <2>4. PrefillMixer(env1, l, chunk, speculating, IF l \in FullLayers THEN y.from[l] ELSE 0, position) = s
    BY <2>2, Zenon
  <2>5. PrefillMixer(env1, l, chunk, speculating, IF l \in FullLayers THEN y.to[l] ELSE 0, position) = s
    BY <2>2, Zenon
  <2>6. Len(s) >= 1
    BY <2>1
  <2> QED BY <2>1, <2>4, <2>5, <2>6, Zenon
<1>2. CASE LayerKind[l] # "linear"
  <2>1. l \in FullLayers /\ l \in y.may
    BY <1>2, LayerFacts
  <2> PICK at : at = position + chunk.first
    OBVIOUS
  <2> PICK s, t : s = FullPrefill(env1.mps, l, chunk.rows, "normed", y.from[l], at)
                  /\ t = FullPrefill(env1.mps, l, chunk.rows, "normed", y.to[l], at)
    OBVIOUS
  <2>2. MadeAll(s, t, y) /\ Len(s) = 3
    BY <2>1, FullPrefillMade
  <2>3. \A length : PrefillMixer(env1, l, chunk, speculating, length, position)
                      = FullPrefill(env1.mps, l, chunk.rows, "normed", length, at)
    BY <1>2 DEF PrefillMixer
  <2>4. PrefillMixer(env1, l, chunk, speculating, IF l \in FullLayers THEN y.from[l] ELSE 0, position) = s
    BY <2>1, <2>3, Zenon
  <2>5. PrefillMixer(env1, l, chunk, speculating, IF l \in FullLayers THEN y.to[l] ELSE 0, position) = t
    BY <2>1, <2>3, Zenon
  <2>6. Len(s) >= 1
    BY ONLY <2>2
  <2> QED BY <2>2, <2>4, <2>5, <2>6, Zenon
<1> QED BY <1>1, <1>2

(* A prompt through every layer, chunk by chunk. *)
LEMMA PrefillLayersMade ==
  ASSUME NEW y, Proper(y), FullLayers \subseteq y.may, NEW env1, NEW rows \in Nat, rows >= 1,
         NEW speculating, Destination(speculating) \in y.owners, NEW position
  PROVE  /\ MadeAll(PrefillLayers(env1, rows, speculating, y.from, position),
                    PrefillLayers(env1, rows, speculating, y.to, position), y)
         /\ Len(PrefillLayers(env1, rows, speculating, y.from, position)) >= 1
<1> PICK q \in Nat : /\ DOMAIN Chunks(rows) = 1 .. q /\ q >= 1
                     /\ \A c \in 1 .. q : Chunks(rows)[c].rows \in Nat /\ Chunks(rows)[c].first \in Nat
  BY ChunkRows
<1> DEFINE part(lengths, l, c) ==
      HostLayer(env1.mps, l, Chunks(rows)[c].rows, From(Host("hidden"), "hidden", Chunks(rows)[c].first),
                    PrefillMixer(env1, l, Chunks(rows)[c], speculating,
                                 IF l \in FullLayers THEN lengths[l] ELSE 0, position))
           layer(lengths, l) == [c \in 1 .. q |-> part(lengths, l, c)]
           all(lengths) == [l \in 1 .. LastLayer |-> Joined(layer(lengths, l))]
<1>1. "host" \in y.owners /\ LastLayer \in Nat /\ LastLayer >= 1
  BY LayerFacts DEF LayersAre, Proper
<1>2. ASSUME NEW l \in 1 .. LastLayer, NEW c \in 1 .. q
      PROVE  MadeAll(part(y.from, l, c), part(y.to, l, c), y) /\ Len(part(y.from, l, c)) >= 1
  <2> PICK chunk : chunk = Chunks(rows)[c]
    OBVIOUS
  <2>1. chunk.rows \in Nat
    OBVIOUS
  <2> PICK s, t : /\ s = PrefillMixer(env1, l, chunk, speculating, IF l \in FullLayers THEN y.from[l] ELSE 0, position)
                  /\ t = PrefillMixer(env1, l, chunk, speculating, IF l \in FullLayers THEN y.to[l] ELSE 0, position)
    OBVIOUS
  <2>2. MadeAll(s, t, y) /\ Len(s) >= 1
    BY <2>1, PrefillMixerMade
  <2> PICK stream : stream = From(Host("hidden"), "hidden", chunk.first)
    OBVIOUS
  <2>3. stream.buffer[1] = "host"
    BY DEF From, Host
  <2> QED BY <1>1, <2>2, <2>3, HostLayerMade
<1> HIDE DEF part
<1>3. ASSUME NEW l \in 1 .. LastLayer
      PROVE  MadeAll(Joined(layer(y.from, l)), Joined(layer(y.to, l)), y) /\ Len(Joined(layer(y.from, l))) >= 1
  <2> PICK ss, tt : ss = layer(y.from, l) /\ tt = layer(y.to, l)
    OBVIOUS
  <2>1. ss = [c \in 1 .. q |-> ss[c]] /\ tt = [c \in 1 .. q |-> tt[c]]
        /\ \A c \in 1 .. q : MadeAll(ss[c], tt[c], y) /\ Len(ss[c]) >= 1
    BY <1>2
  <2>2. MadeAll(Joined(ss), Joined(tt), y) /\ \A c \in 1 .. q : Len(ss[c]) <= Len(Joined(ss))
    BY <2>1, MadeFunction
  <2>3. Len(Joined(ss)) \in Nat /\ Len(ss[1]) \in Nat /\ 1 \in 1 .. q
    BY <2>1, <2>2, SeqFacts DEF MadeAll
  <2>4. Len(Joined(ss)) >= 1
    BY <2>1, <2>2, <2>3
  <2> HIDE DEF layer
  <2> QED BY <2>2, <2>4
<1> HIDE DEF layer
<1>4. MadeAll(Joined(all(y.from)), Joined(all(y.to)), y) /\ Len(Joined(all(y.from))) >= 1
  <2> PICK ss, tt : ss = all(y.from) /\ tt = all(y.to)
    OBVIOUS
  <2>1. ss = [l \in 1 .. LastLayer |-> ss[l]] /\ tt = [l \in 1 .. LastLayer |-> tt[l]]
        /\ \A l \in 1 .. LastLayer : MadeAll(ss[l], tt[l], y) /\ Len(ss[l]) >= 1
    BY <1>3
  <2>2. MadeAll(Joined(ss), Joined(tt), y) /\ \A l \in 1 .. LastLayer : Len(ss[l]) <= Len(Joined(ss))
    BY <1>1, <2>1, MadeFunction
  <2>3. Len(Joined(ss)) \in Nat /\ Len(ss[1]) \in Nat /\ 1 \in 1 .. LastLayer
    BY <1>1, <2>1, <2>2, SeqFacts DEF MadeAll
  <2> QED BY <2>1, <2>2, <2>3
<1>5. \A lengths : PrefillLayers(env1, rows, speculating, lengths, position) = Joined(all(lengths))
  BY DEF PrefillLayers, layer, part
<1> QED BY <1>4, <1>5

-----------------------------------------------------------------------------
(* One token, on the GPU. *)
LEMMA OneTokenOrderly ==
  ASSUME NEW x, "decode" \in x.owners, "active" \in x.owners, Lengths(x.length), NEW l \in 1 .. LastLayer, NEW position,
         l \in FullLayers => l \in DOMAIN x.new /\ x.new[l] = 1
  PROVE  /\ Orderly(OneToken(l, x.length, position), x, {})
         /\ l \in FullLayers => Reserves(OneToken(l, x.length, position), l, x, x.length[l] + 1)
<1>1. CASE LayerKind[l] = "linear"
  <2>1. OneToken(l, x.length, position) = LinearLayer("decode", l) /\ l \notin FullLayers
    BY <1>1 DEF OneToken, FullLayers
  <2> QED BY <2>1, LinearLayerOrderly
<1>2. CASE LayerKind[l] # "linear"
  <2>1. l \in FullLayers /\ l \in Caches
    BY <1>2, LayerFacts
  <2> PICK length : length = x.length[l]
    OBVIOUS
  <2>2. length \in Nat /\ l \in Caches \cap DOMAIN x.new /\ x.new[l] = 1
    BY <2>1 DEF Lengths
  <2>3. OneToken(l, x.length, position) = FullLayer("decode", l, length, position, FALSE)
    BY <1>2 DEF OneToken
  <2> QED BY <2>1, <2>2, <2>3, FullLayerOrderly
<1> QED BY <1>1, <1>2

(* The hidden state written to the graph and read from it. *)
LEMMA HiddenOrderly ==
  ASSUME NEW x
  PROVE  /\ "decode" \in x.owners => Orderly(WriteHidden, x, {})
         /\ "host" \in x.owners => Orderly(ReadHidden, x, {})
BY OwnFine, HostFine, Orderly1 DEF WriteHidden, ReadHidden

(* decode_layers: one call for every layer of a token. *)
LEMMA DecodeLayersMade ==
  ASSUME NEW y, Proper(y), FullLayers \subseteq y.may, "decode" \in y.owners, "active" \in y.owners, NEW position
  PROVE  MadeAll(decode_layers(y.from, position), decode_layers(y.to, position), y)
         /\ Len(decode_layers(y.from, position)) >= 1
<1> DEFINE appends == [l \in FullLayers |-> 1]
           layers(lengths) == [l \in 1 .. LastLayer |-> OneToken(l, lengths, position)]
           c(lengths) == Call("none", WriteHidden \o Joined(layers(lengths)), ReadHidden, appends)
<1>1. LastLayer \in Nat /\ FullLayers \subseteq 1 .. LastLayer
  BY LayerFacts DEF LayersAre, FullLayers
<1>2. ASSUME NEW lengths, Lengths(lengths) PROVE WellMade(c(lengths), y, lengths)
  <2> PICK d : d = c(lengths)
    OBVIOUS
  <2> DEFINE x == Effect(d, y.owners, lengths)
  <2>1. d.pool = "none" /\ d.work = WriteHidden \o Joined(layers(lengths)) /\ d.back = ReadHidden /\ d.appends = appends
    BY DEF Call
  <2>2. "decode" \in x.owners /\ "active" \in x.owners /\ x.length = lengths /\ x.new = appends
    BY <2>1 DEF Effect
  <2>3. DOMAIN appends = FullLayers /\ \A l \in FullLayers : appends[l] = 1
    OBVIOUS
  <2> HIDE DEF appends, x
  <2> PICK ss : ss = layers(lengths)
    OBVIOUS
  <2>4. IsSeq(ss) /\ Len(ss) = LastLayer
    BY <1>1, FunctionIsSeq
  <2>5. \A l \in 1 .. LastLayer : /\ Orderly(ss[l], x, {})
                                  /\ l \in FullLayers => Reserves(ss[l], l, x, lengths[l] + 1)
    <3> TAKE l \in 1 .. LastLayer
    <3>1. ss[l] = OneToken(l, x.length, position)
      BY <2>2
    <3> QED BY <1>2, <2>2, <2>3, <3>1, OneTokenOrderly
  <2>6. Orderly(Joined(ss), x, {})
        /\ \A i \in 1 .. Len(ss) : \A l, required : Reserves(ss[i], l, x, required) => Reserves(Joined(ss), l, x, required)
    BY <2>4, <2>5, OrderlyJoined
  <2>7. Orderly(WriteHidden, x, {}) /\ Orderly(ReadHidden, Quiet({"host"}, lengths), {})
    BY <2>2, HiddenOrderly DEF Quiet
  <2>8. Orderly(d.work, x, {})
    BY <2>1, <2>6, <2>7, OrderlyBoth
  <2>9. ASSUME NEW l \in FullLayers PROVE Reserves(d.work, l, x, lengths[l] + 1)
    <3>1. l \in 1 .. Len(ss)
      BY <1>1, <2>4
    <3> PICK required : required = lengths[l] + 1
      OBVIOUS
    <3>2. Reserves(Joined(ss), l, x, required)
      <4>1. Reserves(ss[l], l, x, required)
        BY <2>5, <1>1
      <4> QED BY <2>6, <3>1, <4>1
    <3> QED BY <2>1, <2>6, <2>7, <3>2, ReservesConcat DEF Orderly
  <2>10. WellMade(d, y, lengths)
    <3>1. \A l \in DOMAIN d.appends : d.appends[l] \in Nat /\ Reserves(d.work, l, x, lengths[l] + d.appends[l])
      <4>1. ASSUME NEW l \in DOMAIN d.appends
            PROVE  d.appends[l] \in Nat /\ Reserves(d.work, l, x, lengths[l] + d.appends[l])
        <5>1. l \in FullLayers /\ d.appends[l] = 1
          BY <2>1, <2>3
        <5> QED BY <2>9, <5>1
      <4> QED BY <4>1
    <3>2. DOMAIN d.appends \subseteq y.may /\ d.pool \in Pools \cup {"none"} /\ Orderly(d.back, Quiet({"host"}, lengths), {})
      BY <2>1, <2>3, <2>7
    <3> QED BY <2>8, <3>1, <3>2 DEF WellMade, x
  <2> QED BY <2>10
<1>3. c(y.from).appends = c(y.to).appends
  BY DEF Call
<1>4. Made(c(y.from), c(y.to), y)
  <2> HIDE DEF c
  <2> QED BY <1>2, <1>3 DEF Made, Proper
<1>5. \A lengths : decode_layers(lengths, position) = <<c(lengths)>>
  BY DEF decode_layers
<1> HIDE DEF c
<1>6. MadeAll(<<c(y.from)>>, <<c(y.to)>>, y) /\ Len(<<c(y.from)>>) = 1
  BY <1>4, Made1
<1> PICK s, t : s = <<c(y.from)>> /\ t = <<c(y.to)>>
  OBVIOUS
<1>7. decode_layers(y.from, position) = s /\ decode_layers(y.to, position) = t
  BY <1>5
<1> QED BY <1>6, <1>7

(* Where a run of linear layers that ends at `last' begins. *)
LEMMA RunOfLinear ==
  ASSUME NEW last \in 1 .. LastLayer, LayerKind[last] # "full"
  PROVE  \E f \in 1 .. last : /\ \A l \in f .. last : LayerKind[l] = "linear"
                              /\ f = 1 \/ LayerKind[f - 1] = "full"
<1> DEFINE S == {f \in 1 .. last : \A l \in f .. last : LayerKind[l] = "linear"}
<1>1. LastLayer \in Nat /\ \A l \in 1 .. LastLayer : LayerKind[l] \in {"linear", "full"}
  BY LayerFacts DEF LayersAre
<1>2. last \in Nat /\ last >= 1
  BY <1>1
<1>3. last \in S
  BY <1>1, <1>2
<1>4. S \in SUBSET Nat /\ S # {}
  BY <1>2, <1>3
<1> HIDE DEF S
<1> PICK f \in S : \A g \in S : f <= g
  BY <1>4, LeastElement
<1>5. f \in 1 .. last /\ \A l \in f .. last : LayerKind[l] = "linear"
  BY DEF S
<1>6. ASSUME f # 1, LayerKind[f - 1] # "full" PROVE FALSE
  <2> PICK g : g = f - 1
    OBVIOUS
  <2>1. g \in 1 .. last /\ g \in 1 .. LastLayer /\ g < f /\ LayerKind[g] = "linear"
    BY <1>1, <1>2, <1>5, <1>6
  <2>2. \A l \in g .. last : l = g \/ l \in f .. last
    BY <1>2, <1>5
  <2>3. g \in S
    BY <1>5, <2>1, <2>2 DEF S
  <2> QED BY <1>5, <2>1, <2>3
<1> QED BY <1>5, <1>6

(* A graph of linear layers and the full one they end at. *)
LEMMA GroupMade ==
  ASSUME NEW y, Proper(y), FullLayers \subseteq y.may, "decode" \in y.owners, "active" \in y.owners, NEW position,
         NEW last \in 1 .. LastLayer
  PROVE  Made(Group(last, y.from, position), Group(last, y.to, position), y)
<1> DEFINE first == IF LayerKind[last] = "full" THEN last
                    ELSE CHOOSE f \in 1 .. last : /\ \A l \in f .. last : LayerKind[l] = "linear"
                                                  /\ f = 1 \/ LayerKind[f - 1] = "full"
<1>0. LastLayer \in Nat /\ last \in Nat /\ last >= 1 /\ last <= LastLayer
  BY LayerFacts DEF LayersAre
<1>1. first \in 1 .. last /\ \A l \in first .. last : l = last \/ LayerKind[l] = "linear"
  <2>1. CASE LayerKind[last] = "full"
    BY <1>0, <2>1
  <2>2. CASE LayerKind[last] # "full"
    <3>1. first = CHOOSE f \in 1 .. last : /\ \A l \in f .. last : LayerKind[l] = "linear"
                                           /\ f = 1 \/ LayerKind[f - 1] = "full"
      BY <2>2
    <3> HIDE DEF first
    <3> QED BY <2>2, <3>1, RunOfLinear
  <2> QED BY <2>1, <2>2
<1> DEFINE appends == [l \in {last} \cap FullLayers |-> 1]
           n == last - first + 1
           layers(lengths) == [i \in 1 .. n |-> OneToken(first + i - 1, lengths, position)]
           c(lengths) == Call("none", Joined(layers(lengths)), <<>>, appends)
<1>2. \A lengths : Group(last, lengths, position) = c(lengths)
  BY DEF Group
<1> HIDE DEF first
<1>3. n \in Nat /\ n >= 1 /\ first + n - 1 = last
      /\ \A i \in 1 .. n : first + i - 1 \in 1 .. LastLayer /\ first + i - 1 \in first .. last
  BY <1>0, <1>1
<1> HIDE DEF n
<1>4. ASSUME NEW lengths, Lengths(lengths) PROVE WellMade(c(lengths), y, lengths)
  <2> PICK d : d = c(lengths)
    OBVIOUS
  <2> DEFINE x == Effect(d, y.owners, lengths)
  <2>1. d.pool = "none" /\ d.work = Joined(layers(lengths)) /\ d.back = <<>> /\ d.appends = appends
    BY DEF Call
  <2>2. "decode" \in x.owners /\ "active" \in x.owners /\ x.length = lengths /\ x.new = appends
    BY <2>1 DEF Effect
  <2>3. DOMAIN appends = {last} \cap FullLayers /\ (last \in FullLayers => appends[last] = 1)
        /\ \A l \in DOMAIN appends : l = last /\ l \in FullLayers /\ appends[l] = 1
    OBVIOUS
  <2> HIDE DEF appends, x
  <2> PICK ss : ss = layers(lengths)
    OBVIOUS
  <2>4. IsSeq(ss) /\ Len(ss) = n
    BY <1>3, FunctionIsSeq
  <2>5. \A i \in 1 .. n : /\ Orderly(ss[i], x, {})
                          /\ first + i - 1 \in FullLayers =>
                               Reserves(ss[i], first + i - 1, x, lengths[first + i - 1] + 1)
    <3> TAKE i \in 1 .. n
    <3> PICK l : l = first + i - 1
      OBVIOUS
    <3>1. l \in 1 .. LastLayer /\ (l = last \/ LayerKind[l] = "linear")
      BY <1>1, <1>3
    <3>2. l \in FullLayers => l = last
      BY <3>1 DEF FullLayers
    <3>3. ss[i] = OneToken(l, x.length, position)
      BY <2>2
    <3>4. Lengths(x.length)
      BY <1>4, <2>2
    <3>5. l \in FullLayers => l \in DOMAIN x.new /\ x.new[l] = 1
      BY <2>2, <2>3, <3>2
    <3>6. Orderly(ss[i], x, {}) /\ (l \in FullLayers => Reserves(ss[i], l, x, lengths[l] + 1))
      BY <2>2, <3>1, <3>3, <3>4, <3>5, OneTokenOrderly
    <3> QED BY <3>6
  <2>6. Orderly(Joined(ss), x, {})
        /\ \A i \in 1 .. Len(ss) : \A l, required : Reserves(ss[i], l, x, required) => Reserves(Joined(ss), l, x, required)
    <3>1. \A i \in 1 .. Len(ss) : Orderly(ss[i], x, {})
      BY <2>4, <2>5
    <3> QED BY <2>4, <3>1, OrderlyJoined
  <2>7. Orderly(<<>>, Quiet({"host"}, lengths), {})
    BY OrderlyNone
  <2>9. ASSUME last \in FullLayers PROVE Reserves(d.work, last, x, lengths[last] + 1)
    <3>1. n \in 1 .. Len(ss)
      BY <1>3, <2>4
    <3> PICK required : required = lengths[last] + 1
      OBVIOUS
    <3>2. Reserves(ss[n], last, x, required)
      BY <1>3, <2>5, <2>9, <2>4, <3>1
    <3> QED BY <2>1, <2>6, <3>1, <3>2
  <2>10. WellMade(d, y, lengths)
    <3>1. \A l \in DOMAIN d.appends : d.appends[l] \in Nat /\ Reserves(d.work, l, x, lengths[l] + d.appends[l])
      <4>1. ASSUME NEW l \in DOMAIN d.appends
            PROVE  d.appends[l] \in Nat /\ Reserves(d.work, l, x, lengths[l] + d.appends[l])
        <5>1. l = last /\ last \in FullLayers /\ d.appends[l] = 1
          BY <2>1, <2>3, <4>1
        <5> QED BY <2>9, <5>1
      <4> QED BY <4>1
    <3>2. DOMAIN d.appends \subseteq y.may /\ d.pool \in Pools \cup {"none"} /\ Orderly(d.back, Quiet({"host"}, lengths), {})
      BY <2>1, <2>3, <2>7
    <3> QED BY <2>1, <2>6, <3>1, <3>2 DEF WellMade, x
  <2> QED BY <2>10
<1>5. c(y.from).appends = c(y.to).appends
  BY DEF Call
<1> HIDE DEF c
<1>6. Made(c(y.from), c(y.to), y)
  BY <1>4, <1>5 DEF Made, Proper
<1> QED BY <1>2, <1>6

(* A token by groups of layers. *)
LEMMA DecodeGroupsMade ==
  ASSUME NEW y, Proper(y), FullLayers \subseteq y.may, "decode" \in y.owners, "active" \in y.owners, NEW position
  PROVE  MadeAll(DecodeGroups(y.from, position), DecodeGroups(y.to, position), y)
         /\ Len(DecodeGroups(y.from, position)) >= 1
<1> DEFINE one(lengths) == [l \in 1 .. LastLayer |-> IF EndOfGroup(l) THEN <<Group(l, lengths, position)>> ELSE <<>>]
<1>1. LastLayer \in Nat /\ LastLayer >= 1
  BY LayerFacts DEF LayersAre
<1> PICK ss, tt : ss = one(y.from) /\ tt = one(y.to)
  OBVIOUS
<1>2. \A l \in 1 .. LastLayer : MadeAll(ss[l], tt[l], y)
  <2> TAKE l \in 1 .. LastLayer
  <2>1. CASE EndOfGroup(l)
    <3> PICK c, d : c = Group(l, y.from, position) /\ d = Group(l, y.to, position)
      OBVIOUS
    <3>1. Made(c, d, y)
      BY GroupMade
    <3>2. ss[l] = <<c>> /\ tt[l] = <<d>>
      BY <2>1
    <3> QED BY <3>1, <3>2, Made1
  <2>2. CASE ~EndOfGroup(l)
    <3>1. ss[l] = <<>> /\ tt[l] = <<>>
      BY <2>2
    <3> QED BY <3>1, MadeNone
  <2> QED BY <2>1, <2>2
<1>3. Len(ss[LastLayer]) = 1
  <2>1. LastLayer \in 1 .. LastLayer /\ EndOfGroup(LastLayer)
    BY <1>1 DEF EndOfGroup
  <2> PICK c : c = Group(LastLayer, y.from, position)
    OBVIOUS
  <2>2. ss[LastLayer] = <<c>>
    BY <2>1
  <2> QED BY <2>2
<1> PICK g, h : g = Joined(ss) /\ h = Joined(tt)
  OBVIOUS
<1>4. MadeAll(g, h, y) /\ Len(g) >= 1
  <2>1. ss = [l \in 1 .. LastLayer |-> ss[l]] /\ tt = [l \in 1 .. LastLayer |-> tt[l]]
    OBVIOUS
  <2> HIDE DEF one
  <2> PICK n \in Nat : n = LastLayer
    BY <1>1
  <2>2. MadeAll(Joined(ss), Joined(tt), y) /\ \A l \in 1 .. n : Len(ss[l]) <= Len(Joined(ss))
    BY ONLY <1>2, <2>1, n \in Nat, n = LastLayer, MadeFunction
  <2>3. LastLayer \in 1 .. n
    BY <1>1
  <2> QED BY <1>3, <2>2, <2>3
<1> PICK fg, fh, lg, lh : fg = Front(g) /\ fh = Front(h) /\ lg = Last(g) /\ lh = Last(h)
  OBVIOUS
<1>5. MadeAll(fg, fh, y) /\ Made(lg, lh, y)
  BY <1>4, MadeFront
<1> PICK a, b : a = Followed(lg, ReadHidden) /\ b = Followed(lh, ReadHidden)
  OBVIOUS
<1>6. Made(a, b, y)
  <2>1. Orderly(ReadHidden, Quiet({"host"}, y.from), {}) /\ Orderly(ReadHidden, Quiet({"host"}, y.to), {})
    BY HiddenOrderly DEF Quiet
  <2> QED BY <1>5, <2>1, MadeFollowed
<1> PICK a1, b1 : a1 = <<a>> /\ b1 = <<b>>
  OBVIOUS
<1>7. MadeAll(a1, b1, y) /\ Len(a1) = 1
  BY <1>6, Made1
<1> PICK u, v : u = fg \o a1 /\ v = fh \o b1
  OBVIOUS
<1>8. MadeAll(u, v, y) /\ Len(u) >= 1
  <2>1. MadeAll(u, v, y) /\ Len(a1) <= Len(u) /\ Len(u) \in Nat
    BY <1>5, <1>7, MadeConcat
  <2> QED BY <1>7, <2>1
<1>9. Orderly(WriteHidden, Quiet(y.owners, y.from), {}) /\ Orderly(WriteHidden, Quiet(y.owners, y.to), {})
  BY HiddenOrderly DEF Quiet
<1>10. DecodeGroups(y.from, position) = FirstCallPreceded(WriteHidden, u)
       /\ DecodeGroups(y.to, position) = FirstCallPreceded(WriteHidden, v)
  BY DEF DecodeGroups
<1> PICK ks : ks = WriteHidden
  OBVIOUS
<1>11. Orderly(ks, Quiet(y.owners, y.from), {}) /\ Orderly(ks, Quiet(y.owners, y.to), {})
  BY <1>9
<1>12. MadeAll(FirstCallPreceded(ks, u), FirstCallPreceded(ks, v), y) /\ Len(FirstCallPreceded(ks, u)) = Len(u)
  BY ONLY <1>8, <1>11, MadeFirst
<1> QED BY <1>8, <1>10, <1>12

(* A token layer by layer. *)
LEMMA DecodeHostMade ==
  ASSUME NEW y, Proper(y), FullLayers \subseteq y.may, "active" \in y.owners, NEW env1, NEW position
  PROVE  MadeAll(DecodeHost(env1, y.from, position), DecodeHost(env1, y.to, position), y)
         /\ Len(DecodeHost(env1, y.from, position)) >= 1
<1> DEFINE mixer(lengths, l) == IF LayerKind[l] = "linear" THEN LinearForward(l)
                                ELSE FullForward(l, "normed", lengths[l], position)
           layers(lengths) == [l \in 1 .. LastLayer |->
              HostLayer(env1.mps, l, 1, At(Host("hidden"), "hidden"), mixer(lengths, l))]
<1>1. LastLayer \in Nat /\ LastLayer >= 1 /\ "host" \in y.owners
  BY LayerFacts DEF LayersAre, Proper
<1>2. ASSUME NEW l \in 1 .. LastLayer PROVE MadeAll(mixer(y.from, l), mixer(y.to, l), y) /\ Len(mixer(y.from, l)) = 3
  <2>1. CASE LayerKind[l] = "linear"
    BY <2>1, LinearForwardMade
  <2>2. CASE LayerKind[l] # "linear"
    <3>1. l \in y.may
      BY <2>2, LayerFacts
    <3> PICK s, t : s = FullForward(l, "normed", y.from[l], position) /\ t = FullForward(l, "normed", y.to[l], position)
      OBVIOUS
    <3> PICK input, later : input = "normed" /\ later = position
      OBVIOUS
    <3>2. /\ MadeAll(FullForward(l, input, y.from[l], position), FullForward(l, input, y.to[l], later), y)
          /\ Len(FullForward(l, input, y.from[l], position)) = 3
      BY ONLY <3>1, Proper(y), FullForwardMade
    <3> QED BY <2>2, <3>2
  <2> QED BY <2>1, <2>2
<1> HIDE DEF mixer
<1> PICK ss, tt : ss = layers(y.from) /\ tt = layers(y.to)
  OBVIOUS
<1>3. \A l \in 1 .. LastLayer : MadeAll(ss[l], tt[l], y) /\ Len(ss[l]) >= 1
  <2> TAKE l \in 1 .. LastLayer
  <2> PICK stream, s, t : stream = At(Host("hidden"), "hidden") /\ s = mixer(y.from, l) /\ t = mixer(y.to, l)
    OBVIOUS
  <2>1. stream.buffer[1] = "host"
    BY DEF At, Host
  <2>2. ss[l] = HostLayer(env1.mps, l, 1, stream, s) /\ tt[l] = HostLayer(env1.mps, l, 1, stream, t)
    OBVIOUS
  <2>3. MadeAll(s, t, y) /\ Len(s) >= 1
    BY <1>2
  <2> QED BY <1>1, <2>1, <2>2, <2>3, HostLayerMade
<1>4. ss = [l \in 1 .. LastLayer |-> ss[l]] /\ tt = [l \in 1 .. LastLayer |-> tt[l]]
  OBVIOUS
<1>5. \A lengths : DecodeHost(env1, lengths, position) = Joined(layers(lengths))
  BY DEF DecodeHost, mixer
<1> PICK g, h : g = Joined(ss) /\ h = Joined(tt)
  OBVIOUS
<1>6. MadeAll(g, h, y) /\ Len(g) >= 1
  <2>1. MadeAll(g, h, y) /\ \A l \in 1 .. LastLayer : Len(ss[l]) <= Len(g)
    BY <1>1, <1>3, <1>4, MadeFunction
  <2>2. Len(g) \in Nat /\ Len(ss[1]) \in Nat /\ 1 \in 1 .. LastLayer
    BY <1>1, <1>3, <2>1, SeqFacts DEF MadeAll
  <2> QED BY <1>3, <2>1, <2>2
<1>7. DecodeHost(env1, y.from, position) = g /\ DecodeHost(env1, y.to, position) = h
  BY <1>5
<1> QED BY <1>6, <1>7

-----------------------------------------------------------------------------
(* What a pass over the active states needs. *)
Forward(y) == /\ Proper(y) /\ FullLayers \subseteq y.may
              /\ "decode" \in y.owners /\ "active" \in y.owners

(* A token on the path chosen. *)
LEMMA ForwardTokenMade ==
  ASSUME NEW y, Forward(y), NEW env1, env1.decode \in {"graph", "groups", "host"}, NEW base, NEW token
  PROVE  MadeAll(forward_token(env1, base, token, y.from), forward_token(env1, base, token, y.to), y)
         /\ Len(forward_token(env1, base, token, y.from)) >= 1
<1> PICK position, ks : position = Len(base) /\ ks = <<Embed(Host("hidden"), <<Append(base, token)>>)>>
  OBVIOUS
<1> PICK s, t : s = forward_embedding(env1, y.from, position) /\ t = forward_embedding(env1, y.to, position)
  OBVIOUS
<1>1. MadeAll(s, t, y) /\ Len(s) >= 1
  <2>1. CASE env1.decode = "graph"
    <3>1. s = decode_layers(y.from, position) /\ t = decode_layers(y.to, position)
      BY <2>1 DEF forward_embedding
    <3> QED BY <3>1, DecodeLayersMade DEF Forward
  <2>2. CASE env1.decode = "groups"
    <3>1. s = DecodeGroups(y.from, position) /\ t = DecodeGroups(y.to, position)
      BY <2>2 DEF forward_embedding
    <3> QED BY <3>1, DecodeGroupsMade DEF Forward
  <2>3. CASE env1.decode = "host"
    <3>1. s = DecodeHost(env1, y.from, position) /\ t = DecodeHost(env1, y.to, position)
      BY <2>3 DEF forward_embedding
    <3> QED BY <3>1, DecodeHostMade DEF Forward
  <2> QED BY <2>1, <2>2, <2>3
<1>2. \A x : "host" \in x.owners => Orderly(ks, x, {})
  BY BufferFine, HostFine, Orderly1
<1>3. Orderly(ks, Quiet(y.owners, y.from), {}) /\ Orderly(ks, Quiet(y.owners, y.to), {})
  BY <1>2 DEF Quiet, Forward, Proper
<1>4. forward_token(env1, base, token, y.from) = FirstCallPreceded(ks, s)
      /\ forward_token(env1, base, token, y.to) = FirstCallPreceded(ks, t)
  BY DEF forward_token
<1>5. Len(s) \in Nat
  BY <1>1, SeqFacts DEF MadeAll
<1> QED BY <1>1, <1>3, <1>4, <1>5, MadeFirst

(* And what one over a block needs. *)
Blockwise(y, tokens, speculating) ==
  /\ Proper(y) /\ FullLayers \subseteq y.may /\ IsSeq(tokens) /\ Len(tokens) >= 1
  /\ Destination(speculating) \in y.owners
  /\ Len(tokens) = 1 => Forward(y)

(* A block on the path chosen: one token goes as a token. *)
LEMMA PrefillMade ==
  ASSUME NEW y, NEW tokens, NEW speculating, Blockwise(y, tokens, speculating),
         NEW env1, env1.decode \in {"graph", "groups", "host"}, NEW base
  PROVE  MadeAll(prefill_internal(env1, base, tokens, speculating, y.from),
                 prefill_internal(env1, base, tokens, speculating, y.to), y)
         /\ Len(prefill_internal(env1, base, tokens, speculating, y.from)) >= 1
<1> DEFINE rows == Len(tokens)
           position == Len(base)
           one(lengths, l) == IF l \in FullLayers THEN <<ReserveKv(Kv(l), lengths[l], lengths[l] + rows)>> ELSE <<>>
           reserve(lengths) == Joined([l \in 1 .. LastLayer |-> one(lengths, l)])
           embed == <<Embed(Host("hidden"), Contexts(base, tokens))>>
           rest(lengths) ==
              IF rows = 1
              THEN forward_token(env1, base, tokens[1], lengths)
              ELSE FirstCallPreceded(embed, PrefillLayers(env1, rows, speculating, lengths, position))
<1>0. /\ Proper(y) /\ FullLayers \subseteq y.may /\ IsSeq(tokens) /\ Len(tokens) >= 1
      /\ Destination(speculating) \in y.owners /\ (Len(tokens) = 1 => Forward(y))
  BY DEF Blockwise
<1>1. rows \in Nat /\ rows >= 1 /\ LastLayer \in Nat
  BY <1>0, SeqFacts, LayerFacts DEF LayersAre
<1>2. \A lengths : prefill_internal(env1, base, tokens, speculating, lengths) = FirstCallPreceded(reserve(lengths), rest(lengths))
  BY DEF prefill_internal
<1>3. ASSUME NEW lengths, Lengths(lengths) PROVE Orderly(reserve(lengths), Quiet(y.owners, lengths), {})
  <2> DEFINE x == Quiet(y.owners, lengths)
  <2>1. x.length = lengths
    BY DEF Quiet
  <2> HIDE DEF x, rows
  <2>2. ASSUME NEW l \in 1 .. LastLayer PROVE Orderly(one(lengths, l), x, {})
    <3>1. CASE l \in FullLayers
      <4> PICK required, length : required = lengths[l] + rows /\ length = lengths[l]
        OBVIOUS
      <4>1. l \in Caches /\ length = x.length[l] /\ required \in Nat
        BY <1>1, <1>3, <2>1, <3>1, LayerFacts DEF Lengths
      <4>2. Fine(ReserveKv(Kv(l), length, required), x, {})
        BY <4>1, ReserveFine
      <4>3. one(lengths, l) = <<ReserveKv(Kv(l), length, required)>>
        BY <3>1
      <4> QED BY <4>2, <4>3, Orderly1
    <3>2. CASE l \notin FullLayers
      BY <3>2, OrderlyNone
    <3> QED BY <3>1, <3>2
  <2> PICK ss : ss = [l \in 1 .. LastLayer |-> one(lengths, l)]
    OBVIOUS
  <2>3. IsSeq(ss) /\ Len(ss) = LastLayer
    BY <1>1, FunctionIsSeq
  <2>4. \A l \in 1 .. Len(ss) : Orderly(ss[l], x, {})
    BY <2>2, <2>3
  <2>5. Orderly(Joined(ss), x, {})
    BY <2>3, <2>4, OrderlyJoined
  <2> QED BY <2>5 DEF x
<1> HIDE DEF reserve
<1> PICK s, t : s = rest(y.from) /\ t = rest(y.to)
  OBVIOUS
<1>4. MadeAll(s, t, y) /\ Len(s) >= 1
  <2>1. CASE rows = 1
    <3> PICK token : token = tokens[1]
      OBVIOUS
    <3>1. s = forward_token(env1, base, token, y.from) /\ t = forward_token(env1, base, token, y.to)
      BY <2>1
    <3> QED BY <1>0, <2>1, <3>1, ForwardTokenMade
  <2>2. CASE rows # 1
    <3> PICK u, v : u = PrefillLayers(env1, rows, speculating, y.from, position)
                    /\ v = PrefillLayers(env1, rows, speculating, y.to, position)
      OBVIOUS
    <3>1. MadeAll(u, v, y) /\ Len(u) >= 1
      <4> HIDE DEF rows, position
      <4> QED BY <1>0, <1>1, PrefillLayersMade
    <3>2. \A x : "host" \in x.owners => Orderly(embed, x, {})
      BY BufferFine, HostFine, Orderly1
    <3>3. Orderly(embed, Quiet(y.owners, y.from), {}) /\ Orderly(embed, Quiet(y.owners, y.to), {})
      <4> HIDE DEF embed
      <4> QED BY <1>0, <3>2 DEF Quiet, Proper
    <3>4. s = FirstCallPreceded(embed, u) /\ t = FirstCallPreceded(embed, v)
      BY <2>2
    <3> PICK ks : ks = embed
      OBVIOUS
    <3>5. Orderly(ks, Quiet(y.owners, y.from), {}) /\ Orderly(ks, Quiet(y.owners, y.to), {})
      BY <3>3
    <3>6. MadeAll(FirstCallPreceded(ks, u), FirstCallPreceded(ks, v), y) /\ Len(FirstCallPreceded(ks, u)) = Len(u)
      BY ONLY <3>1, <3>5, MadeFirst
    <3> QED BY <3>1, <3>4, <3>6
  <2> QED BY <2>1, <2>2
<1>5. Orderly(reserve(y.from), Quiet(y.owners, y.from), {}) /\ Orderly(reserve(y.to), Quiet(y.owners, y.to), {})
  BY <1>0, <1>3 DEF Proper
<1> PICK ks, ms : ks = reserve(y.from) /\ ms = reserve(y.to)
  OBVIOUS
<1>6. MadeAll(FirstCallPreceded(ks, s), FirstCallPreceded(ms, t), y) /\ Len(FirstCallPreceded(ks, s)) = Len(s)
  <2>1. Orderly(ks, Quiet(y.owners, y.from), {}) /\ Orderly(ms, Quiet(y.owners, y.to), {})
    BY <1>5
  <2> QED BY ONLY <1>4, <2>1, MadeFirst
<1> QED BY <1>2, <1>4, <1>6

-----------------------------------------------------------------------------
(* The last row's logits, and the verification of a block.                  *)

(* What a request does on its own vectors. *)
LEMMA HostWorkOrderly ==
  ASSUME NEW x, NEW P, "host" \in x.owners
  PROVE  /\ \A name, contexts : Fine(Embed(Host(name), contexts), x, P)
         /\ \A name, kind, rows : Fine(Fresh(Host(name), kind, rows), x, P)
         /\ \A name, from, kind, rows : Fine(CopyOut(from, Host(name), kind, rows), x, P)
         /\ \A name, kind, hidden, last, l, fed : Fine(Pair(hidden, last, l, fed, At(Host(name), kind)), x, P)
         /\ \A name, kind, hidden, last, l, fed, row : Fine(Pair(hidden, last, l, fed, From(Host(name), kind, row)), x, P)
<1>1. \A name, kind, row : At(Host(name), kind).buffer[1] \in x.owners /\ From(Host(name), kind, row).buffer[1] \in x.owners
  BY DEF At, From, Host
<1>2. \A name : Host(name)[1] \in x.owners
  BY DEF Host
<1> QED BY <1>1, <1>2, BufferFine, OperandFine, HostFine

(* The request's own vectors may be written. *)
LEMMA QuietHost ==
  ASSUME NEW y, Proper(y)
  PROVE  /\ "host" \in Quiet(y.owners, y.from).owners /\ "host" \in Quiet(y.owners, y.to).owners
         /\ "host" \in Quiet({"host"}, y.from).owners /\ "host" \in Quiet({"host"}, y.to).owners
BY DEF Quiet, Proper

(* The logits of the last row. *)
LEMMA LogitsMade ==
  ASSUME NEW y, Proper(y), NEW rows
  PROVE  MadeAll(logits(rows), logits(rows), y) /\ Len(logits(rows)) = 1
<1> PICK c, a, b : /\ c = q4_affine_matvec_mapped_batch(LastLayer + 1, <<"lm_head">>, "normalized", <<"logits">>)
                   /\ a = OnHost("final_norm", LastLayer + 1, 1, <<From(Host("hidden"), "hidden", rows - 1)>>, <<"normalized">>, 0)
                   /\ b = OnHost("argmax", LastLayer + 1, 1, <<At(Host("logits"), "logits")>>, <<"token">>, 0)
  OBVIOUS
<1>1. Made(c, c, y)
  <2>1. IsSeq(<<"lm_head">>)
    BY Names
  <2> QED BY <2>1, MatvecMade
<1>2. \A x : "host" \in x.owners => Orderly(a, x, {}) /\ Orderly(b, x, {})
  BY NormOrderly
<1>3. Made(Preceded(a, c), Preceded(a, c), y)
  BY <1>1, <1>2, QuietHost, MadePreceded
<1> PICK d : d = Preceded(a, c)
  OBVIOUS
<1>4. Made(Followed(d, b), Followed(d, b), y)
  <2>1. Orderly(b, Quiet({"host"}, y.from), {}) /\ Orderly(b, Quiet({"host"}, y.to), {})
    BY <1>2, QuietHost
  <2>2. Made(d, d, y)
    BY <1>3
  <2> QED BY <2>1, <2>2, MadeFollowed
<1> PICK e : e = Followed(d, b)
  OBVIOUS
<1>5. logits(rows) = <<e>>
  BY DEF logits
<1>6. MadeAll(<<e>>, <<e>>, y) /\ Len(<<e>>) = 1
  BY <1>4, Made1
<1> QED BY <1>5, <1>6

(* A verification as a block, on the shadows. *)
LEMMA PrefillVerifyMade ==
  ASSUME NEW y, Proper(y), FullLayers \subseteq y.may, NEW env1, env1.decode \in {"graph", "groups", "host"},
         NEW base, NEW tokens, IsSeq(tokens), Len(tokens) >= 2, "shadow" \in y.owners
  PROVE  MadeAll(prefill_verify(env1, base, tokens, y.from), prefill_verify(env1, base, tokens, y.to), y)
         /\ Len(prefill_verify(env1, base, tokens, y.from)) >= 1
<1> PICK rows : rows = Len(tokens)
  OBVIOUS
<1> PICK s, t : s = prefill_internal(env1, base, tokens, TRUE, y.from) /\ t = prefill_internal(env1, base, tokens, TRUE, y.to)
  OBVIOUS
<1>1. MadeAll(s, t, y) /\ Len(s) >= 1
  <2>1. Destination(TRUE) \in y.owners
    BY DEF Destination
  <2>2. Len(tokens) >= 1 /\ Len(tokens) # 1
    BY SeqFacts
  <2> PICK sure : sure = TRUE
    OBVIOUS
  <2>3. Blockwise(y, tokens, sure)
    BY <2>1, <2>2 DEF Blockwise
  <2>4. /\ MadeAll(prefill_internal(env1, base, tokens, sure, y.from), prefill_internal(env1, base, tokens, sure, y.to), y)
        /\ Len(prefill_internal(env1, base, tokens, sure, y.from)) >= 1
    BY ONLY <2>3, env1.decode \in {"graph", "groups", "host"}, PrefillMade, SMTT(30)
  <2> QED BY <2>4
<1> PICK c, a, b : /\ c = q4_affine_argmax_mapped_batch(LastLayer + 1, rows, "normalized", "token")
                   /\ a = OnHost("final_norm", LastLayer + 1, rows, <<At(Host("hidden"), "hidden")>>, <<"normalized">>, 0)
                   /\ b = <<CopyOut(Host("hidden"), Host("verify_hidden"), "hidden", rows)>>
  OBVIOUS
<1>2. Made(c, c, y)
  BY ArgmaxMade
<1>3. \A x : "host" \in x.owners => Orderly(a, x, {}) /\ Orderly(b, x, {})
  <2>1. \A x : "host" \in x.owners => Orderly(a, x, {})
    BY NormOrderly
  <2>2. \A x : "host" \in x.owners => Orderly(b, x, {})
    BY HostFine, Orderly1
  <2> QED BY <2>1, <2>2
<1> PICK d : d = Preceded(a, c)
  OBVIOUS
<1>4. Made(d, d, y)
  BY <1>2, <1>3, QuietHost, MadePreceded
<1> PICK e : e = Followed(d, b)
  OBVIOUS
<1>5. Made(e, e, y)
  <2>1. Orderly(b, Quiet({"host"}, y.from), {}) /\ Orderly(b, Quiet({"host"}, y.to), {})
    BY <1>3, QuietHost
  <2> QED BY <1>4, <2>1, MadeFollowed
<1> PICK u : u = <<e>>
  OBVIOUS
<1>6. MadeAll(u, u, y) /\ Len(u) = 1
  BY <1>5, Made1
<1>7. MadeAll(s \o u, t \o u, y) /\ Len(u) <= Len(s \o u) /\ Len(s \o u) \in Nat
  BY <1>1, <1>6, MadeConcat
<1>8. prefill_verify(env1, base, tokens, y.from) = s \o u /\ prefill_verify(env1, base, tokens, y.to) = t \o u
  <2>1. argmax_logits_rows(rows) = <<d>>
    BY DEF argmax_logits_rows
  <2>2. argmax_logits_rows(rows)[1] = d
    BY <2>1
  <2> QED BY <2>2 DEF prefill_verify
<1> QED BY <1>6, <1>7, <1>8

(* The layers of a verification in one graph, with room for its rows. *)
LEMMA VerifyGraphOrderly ==
  ASSUME NEW x, "verify" \in x.owners, "shadow" \in x.owners, "snapshot" \in x.owners, "q4" \in x.owners,
         Lengths(x.length), NEW rows \in Nat, FullLayers \subseteq DOMAIN x.new, \A l \in FullLayers : x.new[l] = rows,
         NEW kept, NEW position
  PROVE  /\ Orderly(VerifyGraph(rows, kept, x.length, position), x, {})
         /\ \A l \in FullLayers : \A required : required = x.length[l] + rows =>
              Reserves(VerifyGraph(rows, kept, x.length, position), l, x, required)
<1> DEFINE ls == [l \in 1 .. LastLayer |-> l]
           one(l) == IF LayerKind[ls[l]] = "linear"
             THEN BatchLinearBuffers("verify", rows) \o BatchLinearKernels("verify", ls[l], rows, kept)
             ELSE BatchFullBuffers("verify", ls[l], rows, x.length[ls[l]])
                  \o BatchFullKernels("verify", ls[l], rows, x.length[ls[l]], position)
           graph == Joined([l \in DOMAIN ls |-> one(l)])
           head == GreedyHead("verify", LastLayer + 1, rows, Output(1), Q4("argmax"))
<1>1. LastLayer \in Nat
  BY LayerFacts DEF LayersAre
<1> PICK ss : ss = [l \in 1 .. LastLayer |-> one(l)]
  OBVIOUS
<1>2. IsSeq(ss) /\ Len(ss) = LastLayer /\ graph = Joined(ss)
  BY <1>1, FunctionIsSeq
<1>3. \A l \in 1 .. LastLayer : /\ Orderly(ss[l], x, {})
                                /\ \A required : l \in FullLayers /\ required = x.length[l] + rows => Reserves(ss[l], l, x, required)
  <2> TAKE l \in 1 .. LastLayer
  <2>1. CASE LayerKind[l] = "linear"
    <3>1. ss[l] = BatchLinearBuffers("verify", rows) \o BatchLinearKernels("verify", l, rows, kept)
      BY <2>1
    <3>2. l \notin FullLayers
      BY <2>1 DEF FullLayers
    <3> PICK owner : owner = "verify"
      OBVIOUS
    <3>3. Orderly(BatchLinearBuffers(owner, rows) \o BatchLinearKernels(owner, l, rows, kept), x, {})
      BY BatchLinearOrderly
    <3> QED BY <3>1, <3>2, <3>3
  <2>2. CASE LayerKind[l] # "linear"
    <3>1. l \in FullLayers /\ l \in Caches
      BY <2>2, LayerFacts
    <3> PICK length : length = x.length[l]
      OBVIOUS
    <3>2. length \in Nat /\ l \in Caches \cap DOMAIN x.new /\ rows = x.new[l]
      BY <3>1 DEF Lengths
    <3> PICK s : s = BatchFullBuffers("verify", l, rows, length) \o BatchFullKernels("verify", l, rows, length, position)
      OBVIOUS
    <3>3. ss[l] = s
      BY <2>2
    <3>4. Orderly(s, x, {}) /\ Reserves(s, l, x, length + rows)
      BY <3>2, BatchFullOrderly
    <3> QED BY <3>3, <3>4
  <2> QED BY <2>1, <2>2
<1> HIDE DEF one, ls
<1>4. Orderly(graph, x, {})
      /\ \A i \in 1 .. LastLayer : \A l, required : Reserves(ss[i], l, x, required) => Reserves(graph, l, x, required)
  <2>1. \A i \in 1 .. Len(ss) : Orderly(ss[i], x, {})
    BY <1>2, <1>3
  <2> HIDE DEF graph
  <2> QED BY <1>2, <2>1, OrderlyJoined
<1>5. Orderly(head, x, {})
  <2>1. Output(1)[1] \in x.owners /\ Q4("argmax")[1] \in x.owners
    BY DEF Output, Q4
  <2> QED BY <2>1, GreedyHeadOrderly
<1>6. VerifyGraph(rows, kept, x.length, position) = graph \o head
  BY DEF VerifyGraph, BatchGraph, one, ls
<1> HIDE DEF graph, head
<1>7. ASSUME NEW l \in FullLayers, NEW required, required = x.length[l] + rows PROVE Reserves(graph \o head, l, x, required)
  <2>1. l \in 1 .. LastLayer
    BY DEF FullLayers
  <2>2. Reserves(graph, l, x, required)
    BY <1>3, <1>4, <1>7, <2>1
  <2> QED BY <1>4, <1>5, <2>2, ReservesConcat DEF Orderly
<1> QED BY <1>4, <1>5, <1>6, <1>7, OrderlyBoth

(* A call that makes the room it needs. *)
LEMMA PlainCall ==
  ASSUME NEW y, NEW lengths, NEW pool \in Pools \cup {"none"}, NEW work, NEW back, NEW appends, DOMAIN appends \subseteq y.may,
         NEW x, x.owners = y.owners \cup {pool}, x.length = lengths, x.new = appends, DOMAIN x = {"owners", "length", "new"},
         x = [owners |-> x.owners, length |-> x.length, new |-> x.new],
         Orderly(work, x, {}),
         \A l \in DOMAIN appends : appends[l] \in Nat /\ \A required : required = lengths[l] + appends[l] =>
                                                           Reserves(work, l, x, required),
         Orderly(back, Quiet({"host"}, lengths), {})
  PROVE  WellMade(Call(pool, work, back, appends), y, lengths)
<1> PICK c : c = Call(pool, work, back, appends)
  OBVIOUS
<1>1. c.pool = pool /\ c.work = work /\ c.back = back /\ c.appends = appends
  BY DEF Call
<1>2. Effect(c, y.owners, lengths) = x
  BY <1>1 DEF Effect
<1>3. WellMade(c, y, lengths)
  BY <1>1, <1>2 DEF WellMade
<1> QED BY <1>3

(* The rows copied into the graph's buffers. *)
LEMMA VerifyCopiesOrderly ==
  ASSUME NEW x, "verify" \in x.owners, "host" \in x.owners, "q4" \in x.owners, NEW rows, NEW batch, NEW base, NEW tokens
  PROVE  /\ Orderly(BatchState(rows, batch), x, {}) /\ Orderly(WriteBatch(base, tokens), x, {})
         /\ Orderly(TargetPool(rows), x, {})
<1>1. Orderly(BatchState(rows, batch), x, {})
  <2>1. Fine(Create("verify", rows), x, {})
    BY DEF Fine, Mild, Create
  <2> QED BY <2>1, Orderly1, OrderlyNone DEF BatchState
<1>2. Orderly(WriteBatch(base, tokens), x, {})
  <2> PICK owner : owner = "verify"
    OBVIOUS
  <2> PICK k, m : /\ k = Embed(Host("hidden"), Contexts(base, tokens))
                  /\ m = Move(At(Host("hidden"), "hidden"), At(Buffer(owner, "hidden"), "hidden"), Len(tokens))
    OBVIOUS
  <2>1. Fine(k, x, {})
    BY HostWorkOrderly
  <2>2. Fine(m, x, {})
    BY OwnFine
  <2>3. WriteBatch(base, tokens) = <<k, m>>
    BY DEF WriteBatch
  <2> QED BY <2>1, <2>2, <2>3, Orderly2
<1>3. Orderly(TargetPool(rows), x, {})
  BY Q4Fine, Orderly2 DEF TargetPool
<1> QED BY <1>1, <1>2, <1>3

(* The lane's own buffers that a verification may write. *)
Verifies(y) == /\ Proper(y) /\ FullLayers \subseteq y.may
               /\ {"verify", "shadow", "snapshot", "adapter"} \subseteq y.owners

(* A verification in one call. *)
LEMMA VerifyGpuMade ==
  ASSUME NEW y, Verifies(y), NEW base, NEW tokens, IsSeq(tokens), NEW kept, NEW batch
  PROVE  MadeAll(prefill_verify_gpu(base, tokens, kept, batch, y.from), prefill_verify_gpu(base, tokens, kept, batch, y.to), y)
         /\ Len(prefill_verify_gpu(base, tokens, kept, batch, y.from)) = 1
<1> DEFINE rows == Len(tokens)
           position == Len(base)
           appends == [l \in FullLayers |-> rows]
           front == (BatchState(rows, batch) \o WriteBatch(base, tokens)) \o TargetPool(rows)
           graph(lengths) == VerifyGraph(rows, kept, lengths, position)
           back == VerifyBack(rows)
           c(lengths) == Call("q4", front \o graph(lengths), back, appends)
<1>1. rows \in Nat
  BY SeqFacts
<1>2. ASSUME NEW lengths, Lengths(lengths) PROVE WellMade(c(lengths), y, lengths)
  <2> DEFINE x == [owners |-> y.owners \cup {"q4"}, length |-> lengths, new |-> appends]
  <2>1. /\ x.owners = y.owners \cup {"q4"} /\ x.length = lengths /\ x.new = appends /\ DOMAIN x = {"owners", "length", "new"}
        /\ x = [owners |-> x.owners, length |-> x.length, new |-> x.new]
    OBVIOUS
  <2>2. DOMAIN appends = FullLayers /\ \A l \in FullLayers : appends[l] = rows
    OBVIOUS
  <2> HIDE DEF x, appends, rows, position
  <2>3. /\ "verify" \in x.owners /\ "host" \in x.owners /\ "q4" \in x.owners /\ "shadow" \in x.owners
        /\ "snapshot" \in x.owners
    BY <2>1 DEF Verifies, Proper
  <2>4. Orderly(front, x, {})
    BY <2>3, VerifyCopiesOrderly, OrderlyBoth
  <2>5. Orderly(graph(lengths), x, {})
        /\ \A l \in FullLayers : \A required : required = lengths[l] + rows => Reserves(graph(lengths), l, x, required)
    <3>1. Lengths(x.length)
      BY <1>2, <2>1
    <3>2. FullLayers \subseteq DOMAIN x.new /\ \A l \in FullLayers : x.new[l] = rows
      BY <2>1, <2>2
    <3>3. /\ Orderly(VerifyGraph(rows, kept, x.length, position), x, {})
          /\ \A l \in FullLayers : \A required : required = x.length[l] + rows =>
              Reserves(VerifyGraph(rows, kept, x.length, position), l, x, required)
      BY <1>1, <2>3, <3>1, <3>2, VerifyGraphOrderly
    <3> QED BY <2>1, <3>3
  <2>6. Orderly(back, Quiet({"host"}, lengths), {})
    <3>1. "host" \in Quiet({"host"}, lengths).owners
      BY DEF Quiet
    <3> QED BY <3>1, HostFine, Orderly2 DEF VerifyBack
  <2> PICK g : g = graph(lengths)
    OBVIOUS
  <2> HIDE DEF front, back, graph
  <2>7. Orderly(front \o g, x, {})
    BY <2>4, <2>5, OrderlyBoth
  <2>8. \A l \in DOMAIN appends : appends[l] \in Nat /\ \A required : required = lengths[l] + appends[l] =>
                                                           Reserves(front \o g, l, x, required)
    <3> SUFFICES ASSUME NEW l \in FullLayers
                 PROVE  appends[l] \in Nat /\ \A required : required = lengths[l] + appends[l] =>
                                                           Reserves(front \o g, l, x, required)
      BY <2>2
    <3>1. appends[l] = rows
      BY <2>2
    <3>2. \A required : required = lengths[l] + rows => Reserves(front \o g, l, x, required)
      BY <2>4, <2>5, ReservesConcat DEF Orderly
    <3> QED BY <1>1, <3>1, <3>2
  <2>9. DOMAIN appends \subseteq y.may /\ "q4" \in Pools \cup {"none"}
    BY <2>2 DEF Verifies, Pools
  <2> PICK pool, work : pool = "q4" /\ work = front \o g
    OBVIOUS
  <2>10. WellMade(Call(pool, work, back, appends), y, lengths)
    BY <2>1, <2>6, <2>7, <2>8, <2>9, PlainCall
  <2> QED BY <2>10
<1>3. c(y.from).appends = c(y.to).appends
  BY DEF Call
<1>4. \A lengths : prefill_verify_gpu(base, tokens, kept, batch, lengths) = <<c(lengths)>>
  BY DEF prefill_verify_gpu
<1> HIDE DEF c
<1>5. Made(c(y.from), c(y.to), y)
  BY <1>2, <1>3 DEF Made, Verifies, Proper
<1> PICK d, e : d = c(y.from) /\ e = c(y.to)
  OBVIOUS
<1>6. MadeAll(<<d>>, <<e>>, y) /\ Len(<<d>>) = 1
  BY <1>5, Made1
<1> QED BY <1>4, <1>6

(* A verification and the adapter's seed in one call. *)
LEMMA FusedMade ==
  ASSUME NEW y, Verifies(y), Adapter \in y.may, NEW env1, NEW base, NEW tokens, NEW kept, NEW batch, NEW fed, NEW position
  PROVE  MadeAll(prefill_verify_mtp_seed_gpu(env1, base, tokens, kept, batch, y.from, fed, position),
                 prefill_verify_mtp_seed_gpu(env1, base, tokens, kept, batch, y.to, fed, position), y)
         /\ Len(prefill_verify_mtp_seed_gpu(env1, base, tokens, kept, batch, y.from, fed, position)) = 1
<1> DEFINE at == Len(base)
           appends == [l \in FullLayers \cup {Adapter} |-> IF l = Adapter THEN 1 ELSE 2]
           select == Select(At(Buffer("verify", "hidden"), "hidden"), At(Q4("argmax"), "token"), tokens[2], Adapter, fed,
                  At(Buffer("adapter", "fc_input"), "fc_input"))
           a1 == <<Alloc(Buffer("adapter", "fc_input"), "fc_input", 1)>>
           front == ((BatchState(2, batch) \o WriteBatch(base, tokens)) \o a1) \o TargetPool(2)
           graph(lengths) == VerifyGraph(2, kept, lengths, at)
           step(lengths) == MtpDecodeStep("adapter", lengths[Adapter], position, env1.f16, TRUE)
           back == <<CopyOut(Q4("argmax"), Host("token"), "token", 2),
                     CopyOut(Buffer("adapter", "token"), Host("seed_token"), "token", 1)>>
           c(lengths) == Call("q4", ((front \o graph(lengths)) \o <<select>>) \o step(lengths), back, appends)
<1>2. ASSUME NEW lengths, Lengths(lengths) PROVE WellMade(c(lengths), y, lengths)
  <2> DEFINE x == [owners |-> y.owners \cup {"q4"}, length |-> lengths, new |-> appends]
  <2>1. /\ x.owners = y.owners \cup {"q4"} /\ x.length = lengths /\ x.new = appends /\ DOMAIN x = {"owners", "length", "new"}
        /\ x = [owners |-> x.owners, length |-> x.length, new |-> x.new]
    OBVIOUS
  <2>2. DOMAIN appends = FullLayers \cup {Adapter} /\ (\A l \in FullLayers : appends[l] = 2) /\ appends[Adapter] = 1
    BY LayerFacts
  <2> HIDE DEF x, appends, at
  <2>3. /\ "verify" \in x.owners /\ "host" \in x.owners /\ "q4" \in x.owners /\ "shadow" \in x.owners
        /\ "snapshot" \in x.owners /\ "adapter" \in x.owners
    BY <2>1 DEF Verifies, Proper
  <2>4. Orderly(front, x, {})
    <3>1. Orderly(a1, x, {})
      BY <2>3, OwnFine, Orderly1
    <3> HIDE DEF a1
    <3> QED BY <2>3, <3>1, VerifyCopiesOrderly, OrderlyBoth
  <2>5. Orderly(graph(lengths), x, {})
        /\ \A l \in FullLayers : \A required : required = lengths[l] + 2 => Reserves(graph(lengths), l, x, required)
    <3> PICK rows \in Nat : rows = 2
      OBVIOUS
    <3>1. Lengths(x.length)
      BY <1>2, <2>1
    <3>2. FullLayers \subseteq DOMAIN x.new /\ \A l \in FullLayers : x.new[l] = rows
      BY <2>1, <2>2
    <3>3. /\ Orderly(VerifyGraph(rows, kept, x.length, at), x, {})
          /\ \A l \in FullLayers : \A required : required = x.length[l] + rows =>
              Reserves(VerifyGraph(rows, kept, x.length, at), l, x, required)
      BY <2>3, <3>1, <3>2, VerifyGraphOrderly
    <3> QED BY <2>1, <3>3
  <2>6. Orderly(<<select>>, x, {})
    <3> PICK hidden, tk, draft, to : /\ hidden = At(Buffer("verify", "hidden"), "hidden") /\ tk = At(Q4("argmax"), "token")
                     /\ draft = tokens[2] /\ to = At(Buffer("adapter", "fc_input"), "fc_input")
      OBVIOUS
    <3>1. tk.buffer[1] \in x.owners /\ to.buffer[1] \in x.owners
      BY <2>3 DEF At, Q4, Buffer
    <3>2. Fine(Select(hidden, tk, draft, Adapter, fed, to), x, {})
      BY <3>1, SelectFine
    <3> PICK k : k = Select(hidden, tk, draft, Adapter, fed, to)
      OBVIOUS
    <3>3. Orderly(<<k>>, x, {})
      BY <3>2, Orderly1
    <3> QED BY <3>3
  <2>7. Orderly(step(lengths), x, {})
        /\ \A required : required = lengths[Adapter] + 1 => Reserves(step(lengths), Adapter, x, required)
    <3> PICK owner, length, sure : owner = "adapter" /\ length = lengths[Adapter] /\ sure = TRUE
      OBVIOUS
    <3>1. length \in Nat /\ length = x.length[Adapter] /\ owner \in x.owners /\ Adapter \in DOMAIN x.new /\ x.new[Adapter] = 1
      BY <1>2, <2>1, <2>2, <2>3, LayerFacts DEF Lengths
    <3> PICK f16, s : f16 = env1.f16 /\ s = MtpDecodeStep(owner, length, position, f16, sure)
      OBVIOUS
    <3>2. Orderly(MtpDecodeStep(owner, length, position, f16, sure), x, {})
          /\ Reserves(MtpDecodeStep(owner, length, position, f16, sure), Adapter, x, length + 1)
      BY ONLY <3>1, MtpDecodeStepOrderly
    <3> QED BY <3>2
  <2>8. Orderly(back, Quiet({"host"}, lengths), {})
    <3>1. "host" \in Quiet({"host"}, lengths).owners
      BY DEF Quiet
    <3> QED BY <3>1, HostFine, Orderly2
  <2> PICK g, k, s : g = graph(lengths) /\ k = <<select>> /\ s = step(lengths)
    OBVIOUS
  <2> HIDE DEF front, back, graph, step, select
  <2>9. Orderly(front \o g, x, {}) /\ Orderly((front \o g) \o k, x, {}) /\ Orderly(((front \o g) \o k) \o s, x, {})
    BY <2>4, <2>5, <2>6, <2>7, OrderlyBoth
  <2>10. \A l \in FullLayers : \A required : required = lengths[l] + 2 => Reserves(((front \o g) \o k) \o s, l, x, required)
    <3> TAKE l \in FullLayers
    <3> TAKE required
    <3> HAVE required = lengths[l] + 2
    <3>1. Reserves(g, l, x, required)
      BY <2>5
    <3> PICK u, v : u = front \o g /\ v = u \o k
      OBVIOUS
    <3>2. Reserves(u, l, x, required)
      BY <2>4, <2>5, <3>1, ReservesConcat DEF Orderly
    <3>3. Reserves(v, l, x, required)
      BY <2>6, <2>9, <3>2, ReservesConcat DEF Orderly
    <3>4. Reserves(v \o s, l, x, required)
      BY <2>7, <2>9, <3>3, ReservesConcat DEF Orderly
    <3> QED BY <3>4
  <2>11. \A required : required = lengths[Adapter] + 1 => Reserves(((front \o g) \o k) \o s, Adapter, x, required)
    <3> TAKE required
    <3> HAVE required = lengths[Adapter] + 1
    <3>1. Reserves(s, Adapter, x, required)
      BY <2>7
    <3> PICK v : v = (front \o g) \o k
      OBVIOUS
    <3>4. Reserves(v \o s, Adapter, x, required)
      BY <2>7, <2>9, <3>1, ReservesConcat DEF Orderly
    <3> QED BY <3>4
  <2> PICK pool, work : pool = "q4" /\ work = ((front \o g) \o k) \o s
    OBVIOUS
  <2>12. \A l \in DOMAIN appends : appends[l] \in Nat /\ \A required : required = lengths[l] + appends[l] =>
                                                           Reserves(work, l, x, required)
    <3> TAKE l \in DOMAIN appends
    <3>1. CASE l = Adapter
      BY <2>2, <2>11, <3>1
    <3>2. CASE l # Adapter
      <4>1. l \in FullLayers /\ appends[l] = 2
        BY <2>2, <3>2
      <4> QED BY <2>10, <4>1
    <3> QED BY <3>1, <3>2
  <2>13. DOMAIN appends \subseteq y.may /\ pool \in Pools \cup {"none"}
    BY <2>2 DEF Verifies, Pools
  <2>14. WellMade(Call(pool, work, back, appends), y, lengths)
    BY <2>1, <2>8, <2>9, <2>12, <2>13, PlainCall
  <2> QED BY <2>14
<1>3. c(y.from).appends = c(y.to).appends
  BY DEF Call
<1>4. \A lengths : prefill_verify_mtp_seed_gpu(env1, base, tokens, kept, batch, lengths, fed, position) = <<c(lengths)>>
  BY DEF prefill_verify_mtp_seed_gpu
<1> HIDE DEF c
<1>5. Made(c(y.from), c(y.to), y)
  BY <1>2, <1>3 DEF Made, Verifies, Proper
<1> PICK d, e : d = c(y.from) /\ e = c(y.to)
  OBVIOUS
<1>6. MadeAll(<<d>>, <<e>>, y) /\ Len(<<d>>) = 1
  BY <1>5, Made1
<1> QED BY <1>4, <1>6

-----------------------------------------------------------------------------
(* The adapter's passes. *)

(* Rows of pairs, made on the CPU. *)
LEMMA PairsOrderly ==
  ASSUME NEW x, "host" \in x.owners, NEW rows \in Nat, NEW fed, NEW first
  PROVE  Orderly(<<Fresh(Host("fc_input"), "fc_input", rows)>> \o PairRows(rows, fed, first), x, {})
<1> PICK a, b : a = <<Fresh(Host("fc_input"), "fc_input", rows)>> /\ b = PairRows(rows, fed, first)
  OBVIOUS
<1>1. Orderly(a, x, {})
  BY HostWorkOrderly, Orderly1
<1>2. b = [r \in 1 .. rows |-> b[r]] /\ \A r \in 1 .. rows : Fine(b[r], x, {})
  <2>1. \A r \in 1 .. rows : b[r] = Pair(From(Host("hidden"), "hidden", first + r - 1), LastLayer + 1, Adapter,
          SubSeq(fed, 1, first + r), From(Host("fc_input"), "fc_input", r - 1))
    BY DEF PairRows
  <2>2. \A kind, hidden, last, l, f, row : Fine(Pair(hidden, last, l, f, From(Host("fc_input"), kind, row)), x, {})
    BY HostWorkOrderly
  <2>3. \A r \in 1 .. rows : Fine(b[r], x, {})
    BY <2>1, <2>2
  <2>4. b = [r \in 1 .. rows |-> b[r]]
    BY DEF PairRows
  <2> QED BY <2>3, <2>4
<1>3. Orderly(b, x, {})
  BY <1>2, OrderlyFunction
<1> QED BY <1>1, <1>3, OrderlyBoth

(* A chunk of the prompt through the adapter. *)
LEMMA AdapterChunkMade ==
  ASSUME NEW y, Proper(y), Adapter \in y.may, NEW env1, NEW chunk, chunk.rows \in Nat, NEW fed
  PROVE  MadeAll(AdapterPromptChunk(env1, chunk, fed, y.from[Adapter]), AdapterPromptChunk(env1, chunk, fed, y.to[Adapter]), y)
<1> PICK rows, l : rows = chunk.rows /\ l = Adapter
  OBVIOUS
<1> PICK a, c : /\ a = <<Fresh(Host("fc_input"), "fc_input", rows)>> \o PairRows(rows, fed, chunk.first)
                /\ c = q4_affine_matmul_mapped_batch(env1.mps, Adapter, rows, <<"fc">>, "fc_input", <<"projected">>)
  OBVIOUS
<1>1. Made(c, c, y)
  <2>1. IsSeq(<<"fc">>)
    BY Names
  <2> QED BY <2>1, MatmulMade
<1>2. Made(Preceded(a, c), Preceded(a, c), y)
  <2>1. \A x : "host" \in x.owners => Orderly(a, x, {})
    BY PairsOrderly
  <2> QED BY <1>1, <2>1, QuietHost, MadePreceded
<1> PICK d, e : d = Preceded(a, c) /\ e = MlpPart(env1.mps, Adapter, rows, At(Host("projected"), "hidden"))
  OBVIOUS
<1>3. Made(e, e, y)
  <2> PICK stream : stream = At(Host("projected"), "hidden")
    OBVIOUS
  <2>1. stream.buffer[1] = "host" /\ "host" \in y.owners
    BY DEF At, Host, Proper
  <2> QED BY <2>1, MlpPartMade
<1> PICK position, input, mps, s, t :
       /\ position = chunk.first /\ input = "projected" /\ mps = env1.mps
       /\ s = FullPrefill(mps, l, rows, input, y.from[l], position)
       /\ t = FullPrefill(mps, l, rows, input, y.to[l], position)
  OBVIOUS
<1>4. MadeAll(s, t, y)
  <2>1. l \in y.may /\ rows \in Nat
    OBVIOUS
  <2>2. MadeAll(FullPrefill(mps, l, rows, input, y.from[l], position), FullPrefill(mps, l, rows, input, y.to[l], position), y)
    BY ONLY <2>1, Proper(y), FullPrefillMade
  <2> QED BY <2>2
<1> PICK u, v : u = <<d>> /\ v = <<e>>
  OBVIOUS
<1>5. MadeAll(u, u, y) /\ MadeAll(v, v, y)
  BY <1>2, <1>3, Made1
<1>6. MadeAll(u \o s, u \o t, y)
  BY <1>4, <1>5, MadeConcat
<1>7. MadeAll((u \o s) \o v, (u \o t) \o v, y)
  BY <1>5, <1>6, MadeConcat
<1> QED BY <1>7 DEF AdapterPromptChunk

(* The seed's logits. *)
LEMMA SeedMade ==
  ASSUME NEW y, Proper(y), NEW rows
  PROVE  MadeAll(SeedOf(rows), SeedOf(rows), y) /\ Len(SeedOf(rows)) = 1
<1> PICK a, c : /\ a = OnHost("final_norm", Adapter + 1, 1, <<From(Host("projected"), "hidden", rows - 1)>>, <<"seed_hidden">>, 0)
                /\ c = q4_affine_argmax_mapped_batch(Adapter + 1, 1, "seed_hidden", "seed_token")
  OBVIOUS
<1>1. Made(c, c, y)
  BY ArgmaxMade
<1>2. \A x : "host" \in x.owners => Orderly(a, x, {})
  BY NormOrderly
<1>3. Made(Preceded(a, c), Preceded(a, c), y)
  BY <1>1, <1>2, QuietHost, MadePreceded
<1> PICK d : d = Preceded(a, c)
  OBVIOUS
<1>4. SeedOf(rows) = <<d>>
  BY DEF SeedOf
<1> QED BY <1>3, <1>4, Made1

(* The prompt through the adapter. *)
LEMMA AdapterPromptMade ==
  ASSUME NEW y, Proper(y), Adapter \in y.may, NEW env1, NEW fed, IsSeq(fed)
  PROVE  MadeAll(prefill_prompt(env1, fed, y.from), prefill_prompt(env1, fed, y.to), y)
         /\ Len(prefill_prompt(env1, fed, y.from)) >= 1
<1> PICK chunks : chunks = Chunks(Len(fed))
  OBVIOUS
<1>1. PICK q \in Nat : DOMAIN chunks = 1 .. q /\ \A c \in 1 .. q : chunks[c].rows \in Nat
  <2>1. Len(fed) \in Nat
    BY SeqFacts
  <2> QED BY <2>1, ChunkRows
<1> DEFINE all(lengths) == [c \in DOMAIN chunks |-> AdapterPromptChunk(env1, chunks[c], fed, lengths[Adapter])]
<1> PICK ss, tt : ss = all(y.from) /\ tt = all(y.to)
  OBVIOUS
<1>2. ss = [c \in 1 .. q |-> ss[c]] /\ tt = [c \in 1 .. q |-> tt[c]]
  BY <1>1
<1>3. ASSUME NEW c \in 1 .. q PROVE MadeAll(ss[c], tt[c], y)
  <2> PICK chunk : chunk = chunks[c]
    OBVIOUS
  <2>1. chunk.rows \in Nat
    BY <1>1
  <2>2. ss[c] = AdapterPromptChunk(env1, chunk, fed, y.from[Adapter]) /\ tt[c] = AdapterPromptChunk(env1, chunk, fed, y.to[Adapter])
    BY <1>1
  <2>3. MadeAll(AdapterPromptChunk(env1, chunk, fed, y.from[Adapter]), AdapterPromptChunk(env1, chunk, fed, y.to[Adapter]), y)
    BY <2>1, AdapterChunkMade
  <2> QED BY <2>2, <2>3
<1>4. MadeAll(Joined(ss), Joined(tt), y)
  BY <1>2, <1>3, MadeFunction
<1> PICK u : u = SeedOf(chunks[Len(chunks)].rows)
  OBVIOUS
<1>5. MadeAll(u, u, y) /\ Len(u) = 1
  BY SeedMade
<1>6. MadeAll(Joined(ss) \o u, Joined(tt) \o u, y) /\ Len(u) <= Len(Joined(ss) \o u) /\ Len(Joined(ss) \o u) \in Nat
  BY <1>4, <1>5, MadeConcat
<1>7. \A lengths : prefill_prompt(env1, fed, lengths) = Joined(all(lengths)) \o u
  BY DEF prefill_prompt
<1> HIDE DEF all
<1> QED BY <1>5, <1>6, <1>7

(* Some call of a pass extends the adapter's cache by one. *)
Extends(s) == \E i \in 1 .. Len(s) : Adapter \in DOMAIN s[i].appends /\ s[i].appends[Adapter] = 1

PairWork(hidden, fed) ==
  <<Fresh(Host("fc_input"), "fc_input", 1),
    Pair(hidden, LastLayer + 1, Adapter, fed, At(Host("fc_input"), "fc_input"))>>

(* The pair of a hidden state and a token. *)
LEMMA PairWorkOrderly ==
  ASSUME NEW x, "host" \in x.owners, NEW hidden, NEW fed
  PROVE  Orderly(PairWork(hidden, fed), x, {})
<1> PICK a, b : /\ a = Fresh(Host("fc_input"), "fc_input", 1)
                /\ b = Pair(hidden, LastLayer + 1, Adapter, fed, At(Host("fc_input"), "fc_input"))
  OBVIOUS
<1>1. Fine(a, x, {}) /\ Fine(b, x, {})
  BY HostWorkOrderly
<1> QED BY <1>1, Orderly2 DEF PairWork

GraphInput(env1, hidden, fed, lengths, position, need_logits) ==
  Call("none",
    PairWork(hidden, fed)
    \o <<Alloc(Buffer("adapter", "fc_input"), "fc_input", 1),
         Move(At(Host("fc_input"), "fc_input"), At(Buffer("adapter", "fc_input"), "fc_input"), 1)>>
    \o MtpDecodeStep("adapter", lengths[Adapter], position, env1.f16, need_logits),
    <<CopyOut(Buffer("adapter", "normalized"), Host("seed_hidden"), "normalized", 1)>>
    \o (IF need_logits THEN <<CopyOut(Buffer("adapter", "token"), Host("seed_token"), "token", 1)>> ELSE <<>>),
    [l \in {Adapter} |-> 1])

(* The adapter's step in one call. *)
LEMMA GraphInputMade ==
  ASSUME NEW y, Proper(y), Adapter \in y.may, "adapter" \in y.owners, NEW env1, NEW hidden, NEW fed,
         NEW position, NEW later, NEW need_logits
  PROVE  LET c == GraphInput(env1, hidden, fed, y.from, position, need_logits)
         IN  /\ Made(c, GraphInput(env1, hidden, fed, y.to, later, need_logits), y)
             /\ Adapter \in DOMAIN c.appends /\ c.appends[Adapter] = 1
<1> DEFINE appends == [l \in {Adapter} |-> 1]
           step(lengths, at) == MtpDecodeStep("adapter", lengths[Adapter], at, env1.f16, need_logits)
           input == <<Alloc(Buffer("adapter", "fc_input"), "fc_input", 1),
                      Move(At(Host("fc_input"), "fc_input"), At(Buffer("adapter", "fc_input"), "fc_input"), 1)>>
           pair == PairWork(hidden, fed)
           head == IF need_logits THEN <<CopyOut(Buffer("adapter", "token"), Host("seed_token"), "token", 1)>> ELSE <<>>
           b1 == <<CopyOut(Buffer("adapter", "normalized"), Host("seed_hidden"), "normalized", 1)>>
           back == b1 \o head
           c(lengths, at) == Call("none", (pair \o input) \o step(lengths, at), back, appends)
<1>1. DOMAIN appends = {Adapter} /\ appends[Adapter] = 1
  OBVIOUS
<1>2. ASSUME NEW lengths, Lengths(lengths), NEW at PROVE WellMade(c(lengths, at), y, lengths)
  <2> DEFINE x == [owners |-> y.owners \cup {"none"}, length |-> lengths, new |-> appends]
  <2>1. /\ x.owners = y.owners \cup {"none"} /\ x.length = lengths /\ x.new = appends /\ DOMAIN x = {"owners", "length", "new"}
        /\ x = [owners |-> x.owners, length |-> x.length, new |-> x.new]
    OBVIOUS
  <2> HIDE DEF x, appends
  <2>2. "host" \in x.owners /\ "adapter" \in x.owners
    BY <2>1 DEF Proper
  <2>3. Orderly(pair, x, {})
    BY <2>2, PairWorkOrderly
  <2>4. Orderly(input, x, {})
    <3> PICK k, m : /\ k = Alloc(Buffer("adapter", "fc_input"), "fc_input", 1)
                    /\ m = Move(At(Host("fc_input"), "fc_input"), At(Buffer("adapter", "fc_input"), "fc_input"), 1)
      OBVIOUS
    <3>1. Fine(k, x, {}) /\ Fine(m, x, {})
      BY <2>2, OwnFine
    <3> QED BY <3>1, Orderly2
  <2>5. Orderly(step(lengths, at), x, {})
        /\ \A required : required = lengths[Adapter] + 1 => Reserves(step(lengths, at), Adapter, x, required)
    <3> PICK owner, length, sure : owner = "adapter" /\ length = lengths[Adapter] /\ sure = need_logits
      OBVIOUS
    <3>1. length \in Nat /\ length = x.length[Adapter] /\ owner \in x.owners /\ Adapter \in DOMAIN x.new /\ x.new[Adapter] = 1
      BY <1>1, <1>2, <2>1, <2>2, LayerFacts DEF Lengths
    <3> PICK f16, s : f16 = env1.f16 /\ s = MtpDecodeStep(owner, length, at, f16, sure)
      OBVIOUS
    <3>2. Orderly(MtpDecodeStep(owner, length, at, f16, sure), x, {})
          /\ Reserves(MtpDecodeStep(owner, length, at, f16, sure), Adapter, x, length + 1)
      BY ONLY <3>1, MtpDecodeStepOrderly
    <3> QED BY <3>2
  <2>6. Orderly(back, Quiet({"host"}, lengths), {})
    <3>1. "host" \in Quiet({"host"}, lengths).owners
      BY DEF Quiet
    <3>2. Orderly(b1, Quiet({"host"}, lengths), {})
      BY <3>1, HostFine, Orderly1
    <3>3. Orderly(head, Quiet({"host"}, lengths), {})
      <4>1. CASE need_logits
        BY <3>1, <4>1, HostFine, Orderly1
      <4>2. CASE ~need_logits
        BY <4>2, OrderlyNone
      <4> QED BY <4>1, <4>2
    <3> HIDE DEF b1, head
    <3> QED BY <3>2, <3>3, OrderlyBoth
  <2> PICK k, s : k = pair \o input /\ s = step(lengths, at)
    OBVIOUS
  <2>7. Orderly(k, x, {})
    <3> HIDE DEF pair, input
    <3> QED BY <2>3, <2>4, OrderlyBoth
  <2> HIDE DEF pair, input, back, step
  <2>8. Orderly(k \o s, x, {})
    BY <2>5, <2>7, OrderlyBoth
  <2>9. \A required : required = lengths[Adapter] + 1 => Reserves(k \o s, Adapter, x, required)
    BY <2>5, <2>7, ReservesConcat DEF Orderly
  <2> PICK pool, work : pool = "none" /\ work = k \o s
    OBVIOUS
  <2>10. \A l \in DOMAIN appends : appends[l] \in Nat /\ \A required : required = lengths[l] + appends[l] =>
                                                           Reserves(work, l, x, required)
    BY <1>1, <2>9
  <2>11. DOMAIN appends \subseteq y.may /\ pool \in Pools \cup {"none"}
    BY <1>1
  <2>12. WellMade(Call(pool, work, back, appends), y, lengths)
    BY <2>1, <2>6, <2>8, <2>10, <2>11, PlainCall
  <2> QED BY <2>12
<1>3. c(y.from, position).appends = c(y.to, later).appends /\ c(y.from, position).appends = appends
  BY DEF Call
<1>4. \A lengths, at : GraphInput(env1, hidden, fed, lengths, at, need_logits) = c(lengths, at)
  BY DEF GraphInput
<1> HIDE DEF c, appends
<1>5. Made(c(y.from, position), c(y.to, later), y)
  BY <1>2, <1>3 DEF Made, Proper
<1> QED BY <1>1, <1>3, <1>4, <1>5

HostHead ==
  Followed(q4_affine_matvec_mapped_batch(Adapter + 1, <<"lm_head">>, "seed_hidden", <<"seed_logits">>),
           OnHost("argmax", Adapter + 1, 1, <<At(Host("seed_logits"), "logits")>>, <<"seed_token">>, 0))

HostFirst(hidden, fed) ==
  Preceded(PairWork(hidden, fed), q4_affine_matvec_mapped_batch(Adapter, <<"fc">>, "fc_input", <<"projected">>))

HostLast(env1) ==
  Followed(MlpPart(env1.mps, Adapter, 1, At(Host("projected"), "hidden")),
           OnHost("final_norm", Adapter + 1, 1, <<At(Host("projected"), "hidden")>>, <<"seed_hidden">>, 0))

(* The adapter's step in several calls. *)
LEMMA HostInputMade ==
  ASSUME NEW y, Proper(y), Adapter \in y.may, NEW env1, NEW hidden, NEW fed, NEW position, NEW later, NEW need_logits
  PROVE  LET s(lengths, at) == <<HostFirst(hidden, fed)>> \o FullForward(Adapter, "projected", lengths[Adapter], at)
                           \o <<HostLast(env1)>> \o (IF need_logits THEN <<HostHead>> ELSE <<>>)
         IN  MadeAll(s(y.from, position), s(y.to, later), y) /\ Len(s(y.from, position)) >= 3 /\ Extends(s(y.from, position))
<1> DEFINE head == IF need_logits THEN <<HostHead>> ELSE <<>>
<1>1. Made(HostFirst(hidden, fed), HostFirst(hidden, fed), y)
  <2> PICK a, c : a = PairWork(hidden, fed) /\ c = q4_affine_matvec_mapped_batch(Adapter, <<"fc">>, "fc_input", <<"projected">>)
    OBVIOUS
  <2>1. IsSeq(<<"fc">>)
    BY Names
  <2>2. Made(c, c, y)
    BY <2>1, MatvecMade
  <2>3. \A x : "host" \in x.owners => Orderly(a, x, {})
    BY PairWorkOrderly
  <2>4. Made(Preceded(a, c), Preceded(a, c), y)
    BY <2>2, <2>3, QuietHost, MadePreceded
  <2> QED BY <2>4 DEF HostFirst
<1>2. Made(HostLast(env1), HostLast(env1), y)
  <2> PICK stream, c, b : /\ stream = At(Host("projected"), "hidden") /\ c = MlpPart(env1.mps, Adapter, 1, stream)
                          /\ b = OnHost("final_norm", Adapter + 1, 1, <<stream>>, <<"seed_hidden">>, 0)
    OBVIOUS
  <2>1. stream.buffer[1] = "host" /\ "host" \in y.owners
    BY DEF At, Host, Proper
  <2>2. Made(c, c, y)
    BY <2>1, MlpPartMade
  <2>3. \A x : "host" \in x.owners => Orderly(b, x, {})
    BY NormOrderly
  <2>4. Orderly(b, Quiet({"host"}, y.from), {}) /\ Orderly(b, Quiet({"host"}, y.to), {})
    BY <2>3, QuietHost
  <2>5. Made(Followed(c, b), Followed(c, b), y)
    BY <2>2, <2>4, MadeFollowed
  <2> QED BY <2>5 DEF HostLast
<1>3. Made(HostHead, HostHead, y)
  <2> PICK c, b : /\ c = q4_affine_matvec_mapped_batch(Adapter + 1, <<"lm_head">>, "seed_hidden", <<"seed_logits">>)
                  /\ b = OnHost("argmax", Adapter + 1, 1, <<At(Host("seed_logits"), "logits")>>, <<"seed_token">>, 0)
    OBVIOUS
  <2>1. IsSeq(<<"lm_head">>)
    BY Names
  <2>2. Made(c, c, y)
    BY <2>1, MatvecMade
  <2>3. \A x : "host" \in x.owners => Orderly(b, x, {})
    BY NormOrderly
  <2>4. Orderly(b, Quiet({"host"}, y.from), {}) /\ Orderly(b, Quiet({"host"}, y.to), {})
    BY <2>3, QuietHost
  <2>5. Made(Followed(c, b), Followed(c, b), y)
    BY <2>2, <2>4, MadeFollowed
  <2> QED BY <2>5 DEF HostHead
<1>4. MadeAll(head, head, y)
  BY <1>3, Made1, MadeNone
<1> PICK u, v, w, l, input : /\ u = <<HostFirst(hidden, fed)>> /\ v = <<HostLast(env1)>> /\ w = head /\ l = Adapter
                             /\ input = "projected"
  OBVIOUS
<1>5. MadeAll(u, u, y) /\ MadeAll(v, v, y) /\ MadeAll(w, w, y) /\ Len(u) = 1 /\ Len(v) = 1
  BY <1>1, <1>2, <1>4, Made1
<1> PICK s, t : s = FullForward(l, input, y.from[l], position) /\ t = FullForward(l, input, y.to[l], later)
  OBVIOUS
<1>6. MadeAll(s, t, y) /\ Len(s) = 3
  <2>1. l \in y.may
    OBVIOUS
  <2>2. /\ MadeAll(FullForward(l, input, y.from[l], position), FullForward(l, input, y.to[l], later), y)
        /\ Len(FullForward(l, input, y.from[l], position)) = 3
    BY ONLY <2>1, Proper(y), FullForwardMade
  <2> QED BY <2>2
<1>7. Adapter \in DOMAIN s[2].appends /\ s[2].appends[Adapter] = 1
  <2> PICK length : length = y.from[l]
    OBVIOUS
  <2>1. l \in DOMAIN FullForward(l, input, length, position)[2].appends
        /\ FullForward(l, input, length, position)[2].appends[l] = 1
    BY ONLY FullForwardAppends
  <2> QED BY <2>1
<1> HIDE DEF head
<1>8. /\ MadeAll(u \o s, u \o t, y) /\ Len(u \o s) = 4
      /\ (u \o s)[3] = s[2]
  <2>1. ConcatIs(u, s, u \o s)
    BY <1>5, <1>6, Concat DEF MadeAll
  <2> PICK n, m : n = Len(s) /\ m = Len(u)
    OBVIOUS
  <2>2. n = 3 /\ m = 1 /\ 2 \in 1 .. n /\ m + 2 = 3 /\ m + n = 4
    <3>1. n = 3 /\ m = 1
      BY <1>5, <1>6
    <3>2. 2 \in 1 .. 3 /\ 1 + 2 = 3 /\ 1 + 3 = 4
      OBVIOUS
    <3> QED BY <3>1, <3>2, Zenon
  <2>3. Len(u \o s) = m + n /\ \A i \in 1 .. n : (u \o s)[m + i] = s[i]
    BY <2>1 DEF ConcatIs
  <2>4. (u \o s)[3] = s[2] /\ Len(u \o s) = 4
    <3>1. (u \o s)[m + 2] = s[2]
      BY <2>2, <2>3
    <3> QED BY <2>2, <2>3, <3>1
  <2> QED BY <1>5, <1>6, <2>4, MadeConcat
<1> PICK a, b : a = u \o s /\ b = u \o t
  OBVIOUS
<1>9. /\ MadeAll(a \o v, b \o v, y) /\ Len(a \o v) = 5
      /\ (a \o v)[3] = s[2]
  <2>1. MadeAll(a \o v, b \o v, y) /\ Len(a \o v) = Len(a) + Len(v) /\ \A i \in 1 .. Len(a) : (a \o v)[i] = a[i]
    BY <1>5, <1>8, MadeConcat
  <2>2. 3 \in 1 .. Len(a)
    BY <1>8
  <2> QED BY <1>5, <1>8, <2>1, <2>2
<1> PICK c, d : c = a \o v /\ d = b \o v
  OBVIOUS
<1>10. /\ MadeAll(c \o w, d \o w, y) /\ Len(c) <= Len(c \o w) /\ Len(c \o w) \in Nat
       /\ (c \o w)[3] = s[2]
  <2>1. MadeAll(c \o w, d \o w, y) /\ Len(c) <= Len(c \o w) /\ Len(c \o w) \in Nat /\ \A i \in 1 .. Len(c) : (c \o w)[i] = c[i]
    BY <1>5, <1>9, MadeConcat
  <2>2. 3 \in 1 .. Len(c)
    BY <1>9
  <2> QED BY <1>9, <2>1, <2>2
<1>11. Len(c \o w) >= 3 /\ Extends(c \o w)
  <2> PICK n, r : n = Len(c \o w) /\ r = c \o w
    OBVIOUS
  <2>1. n >= 5 /\ n \in Nat
    BY <1>9, <1>10
  <2>2. 3 \in 1 .. n
    BY <2>1
  <2>3. Extends(r)
    BY <1>7, <1>10, <2>2 DEF Extends
  <2> QED BY <2>1, <2>3
<1>12. /\ c \o w = <<HostFirst(hidden, fed)>> \o FullForward(Adapter, "projected", y.from[Adapter], position) \o <<HostLast(env1)>> \o head
       /\ d \o w = <<HostFirst(hidden, fed)>> \o FullForward(Adapter, "projected", y.to[Adapter], later) \o <<HostLast(env1)>> \o head
  OBVIOUS
<1> QED BY <1>10, <1>11, <1>12 DEF head

(* The adapter's step on the path chosen. *)
LEMMA ForwardInputMade ==
  ASSUME NEW y, Proper(y), Adapter \in y.may, "adapter" \in y.owners, NEW env1, NEW hidden, NEW fed,
         NEW position, NEW later, NEW need_logits
  PROVE  LET s(lengths, at) == forward_input(env1, hidden, fed, lengths, at, need_logits)
         IN  MadeAll(s(y.from, position), s(y.to, later), y) /\ Len(s(y.from, position)) >= 1 /\ Extends(s(y.from, position))
<1>1. CASE env1.adapter_gpu
  <2>1. \A lengths, at : forward_input(env1, hidden, fed, lengths, at, need_logits)
                       = <<GraphInput(env1, hidden, fed, lengths, at, need_logits)>>
    BY <1>1 DEF forward_input, GraphInput, PairWork
  <2> PICK c, d : /\ c = GraphInput(env1, hidden, fed, y.from, position, need_logits)
                  /\ d = GraphInput(env1, hidden, fed, y.to, later, need_logits)
    OBVIOUS
  <2>2. Made(c, d, y) /\ Adapter \in DOMAIN c.appends /\ c.appends[Adapter] = 1
    <3> PICK n : n = need_logits
      OBVIOUS
    <3> QED BY GraphInputMade
  <2>3. MadeAll(<<c>>, <<d>>, y) /\ Len(<<c>>) = 1 /\ <<c>>[1] = c
    BY <2>2, Made1
  <2>4. Extends(<<c>>)
    <3>1. 1 \in 1 .. Len(<<c>>)
      BY <2>3
    <3> QED BY <2>2, <2>3, <3>1 DEF Extends
  <2>5. forward_input(env1, hidden, fed, y.from, position, need_logits) = <<c>>
        /\ forward_input(env1, hidden, fed, y.to, later, need_logits) = <<d>>
    BY <2>1
  <2> PICK u, v : u = <<c>> /\ v = <<d>>
    OBVIOUS
  <2>6. MadeAll(u, v, y) /\ Len(u) = 1 /\ Extends(u)
    BY <2>3, <2>4
  <2>7. Len(u) >= 1
    BY <2>6
  <2> QED BY <2>5, <2>6, <2>7
<1>2. CASE ~env1.adapter_gpu
  <2>1. \A lengths, at : forward_input(env1, hidden, fed, lengths, at, need_logits)
                       = <<HostFirst(hidden, fed)>> \o FullForward(Adapter, "projected", lengths[Adapter], at)
                           \o <<HostLast(env1)>> \o (IF need_logits THEN <<HostHead>> ELSE <<>>)
    BY <1>2 DEF forward_input, HostFirst, PairWork, HostLast, HostHead
  <2> DEFINE s(lengths, at) == <<HostFirst(hidden, fed)>> \o FullForward(Adapter, "projected", lengths[Adapter], at)
                           \o <<HostLast(env1)>> \o (IF need_logits THEN <<HostHead>> ELSE <<>>)
  <2>2. MadeAll(s(y.from, position), s(y.to, later), y) /\ Len(s(y.from, position)) >= 3 /\ Extends(s(y.from, position))
    BY HostInputMade
  <2>3. forward_input(env1, hidden, fed, y.from, position, need_logits) = s(y.from, position)
        /\ forward_input(env1, hidden, fed, y.to, later, need_logits) = s(y.to, later)
    BY <2>1
  <2> HIDE DEF s
  <2>4. Len(s(y.from, position)) \in Nat
    BY <2>2, SeqFacts DEF MadeAll
  <2>5. Len(s(y.from, position)) >= 1
    BY <2>2, <2>4
  <2> QED BY <2>2, <2>3, <2>5
<1> QED BY <1>1, <1>2

-----------------------------------------------------------------------------
(* The calls of a lane's pass.                                              *)

Owners(kind) == IF kind = "verify" THEN {"host", "verify", "shadow", "snapshot", "adapter"}
                ELSE {"host", "decode", "active", "adapter"}

May(kind) == IF kind = "prompt" THEN FullLayers ELSE Caches

Between(kind, from, to) == [owners |-> Owners(kind), may |-> May(kind), from |-> from, to |-> to]

(* The same pass, perhaps further on. *)
Continues(n, o) ==
  /\ o.pass = n.pass /\ o.fed = n.fed /\ o.kept = n.kept /\ o.batch = n.batch /\ o.round_appended = n.round_appended
  /\ n.pass.kind = "verify" /\ env.verify # "prefill" => o.next_position = n.next_position

Passing(n) ==
  /\ IsSeq(n.pass.tokens) /\ IsSeq(n.fed) /\ n.pass.accepted \in Nat /\ n.round_appended \in Nat
  /\ n.pass.kind \in {"prompt", "token", "replay", "adapter", "draft", "verify", "accept"}
  /\ n.pass.kind = "verify" => Len(n.pass.tokens) >= 2

(* What a pass may write to is enough for it. *)
LEMMA BetweenFacts ==
  ASSUME NEW kind, NEW from, NEW to, Lengths(from), Lengths(to), NEW y, y = Between(kind, from, to)
  PROVE  /\ Proper(y) /\ y.may = May(kind) /\ FullLayers \subseteq y.may /\ "adapter" \in y.owners
         /\ y.from = from /\ y.to = to /\ y.owners = Owners(kind)
         /\ kind # "prompt" => Adapter \in y.may
         /\ kind = "verify" => Verifies(y) /\ "shadow" \in y.owners
         /\ kind # "verify" => Forward(y)
<1>1. y.owners = Owners(kind) /\ y.may = May(kind) /\ y.from = from /\ y.to = to
  BY DEF Between
<1>2. Proper(y)
  BY <1>1, LayerFacts DEF Proper, Owners, May
<1>3. FullLayers \subseteq y.may /\ (kind # "prompt" => Adapter \in y.may) /\ "adapter" \in y.owners
  BY <1>1, LayerFacts DEF Owners, May
<1>4. kind = "verify" => Verifies(y) /\ "shadow" \in y.owners
  BY <1>1, <1>2, <1>3 DEF Verifies, Owners
<1>5. kind # "verify" => Forward(y)
  BY <1>1, <1>2, <1>3 DEF Forward, Owners
<1> QED BY <1>1, <1>2, <1>3, <1>4, <1>5

Prompted(u, env1, base, tokens, speculating, lengths) ==
  speculating = FALSE /\ u = (IF Len(tokens) = 0 THEN <<>> ELSE prefill_internal(env1, base, tokens, speculating, lengths))

Replays(ss, m, env1, bases, tokens, lengths) ==
  /\ ss = [i \in 1 .. m |-> ss[i]]
  /\ \A i \in 1 .. m : ss[i] = forward_token(env1, bases[i], tokens[i], lengths)

(* A prompt, which may be empty. *)
LEMMA PromptCalls ==
  ASSUME NEW y, NEW tokens, NEW base, NEW speculating, NEW env1, NEW u, NEW v, NEW w,
         Forward(y), IsSeq(tokens), \E rows : w = logits(rows), env1.decode \in {"graph", "groups", "host"},
         Prompted(u, env1, base, tokens, speculating, y.from), Prompted(v, env1, base, tokens, speculating, y.to)
  PROVE  MadeAll(u \o w, v \o w, y) /\ Len(u \o w) >= 1
<1>0. speculating = FALSE
  BY DEF Prompted
<1>1. MadeAll(u, v, y)
  <2>1. CASE Len(tokens) = 0
    BY <2>1, MadeNone DEF Prompted
  <2>2. CASE Len(tokens) # 0
    <3>1. Blockwise(y, tokens, speculating)
      <4>1. Len(tokens) \in Nat
        BY SeqFacts
      <4>2. Len(tokens) >= 1
        BY <2>2, <4>1
      <4> QED BY <1>0, <4>2 DEF Blockwise, Forward, Destination
    <3>2. /\ MadeAll(prefill_internal(env1, base, tokens, speculating, y.from), prefill_internal(env1, base, tokens, speculating, y.to), y)
          /\ Len(prefill_internal(env1, base, tokens, speculating, y.from)) >= 1
      BY ONLY <3>1, env1.decode \in {"graph", "groups", "host"}, PrefillMade
    <3> QED BY <2>2, <3>2 DEF Prompted
  <2> QED BY <2>1, <2>2
<1>2. MadeAll(w, w, y) /\ Len(w) = 1
  BY LogitsMade DEF Forward
<1>3. MadeAll(u \o w, v \o w, y) /\ Len(w) <= Len(u \o w) /\ Len(u \o w) \in Nat
  BY <1>1, <1>2, MadeConcat
<1>4. Len(u \o w) >= 1
  BY <1>2, <1>3
<1> QED BY <1>3, <1>4

(* A token. *)
LEMMA TokenCalls ==
  ASSUME NEW y, Forward(y), NEW token, NEW base, NEW env1, env1.decode \in {"graph", "groups", "host"}
  PROVE  LET s(lengths) == forward_token(env1, base, token, lengths) \o logits(1)
         IN  MadeAll(s(y.from), s(y.to), y) /\ Len(s(y.from)) >= 1
<1> PICK u, v, w : /\ u = forward_token(env1, base, token, y.from) /\ v = forward_token(env1, base, token, y.to)
                   /\ w = logits(1)
  OBVIOUS
<1>1. MadeAll(u, v, y)
  BY ForwardTokenMade
<1>2. MadeAll(w, w, y) /\ Len(w) = 1
  BY LogitsMade DEF Forward
<1>3. MadeAll(u \o w, v \o w, y) /\ Len(w) <= Len(u \o w) /\ Len(u \o w) \in Nat
  BY <1>1, <1>2, MadeConcat
<1>4. Len(u \o w) >= 1
  BY <1>2, <1>3
<1> QED BY <1>3, <1>4

(* Passes one after the other. *)
LEMMA JoinedCalls ==
  ASSUME NEW y, NEW n \in Nat, n >= 1, NEW ss, NEW tt, ss = [i \in 1 .. n |-> ss[i]], tt = [i \in 1 .. n |-> tt[i]],
         \A i \in 1 .. n : MadeAll(ss[i], tt[i], y) /\ Len(ss[i]) >= 1
  PROVE  MadeAll(Joined(ss), Joined(tt), y) /\ Len(Joined(ss)) >= 1
<1>1. MadeAll(Joined(ss), Joined(tt), y) /\ \A i \in 1 .. n : Len(ss[i]) <= Len(Joined(ss))
  BY MadeFunction
<1>2. Len(Joined(ss)) \in Nat /\ Len(ss[1]) \in Nat /\ 1 \in 1 .. n
  BY <1>1, SeqFacts DEF MadeAll
<1> QED BY <1>1, <1>2

(* Accepted tokens run again. *)
LEMMA ReplayCalls ==
  ASSUME NEW y, NEW tokens, NEW bases, NEW m, NEW env1, NEW ss, NEW tt,
         Forward(y), m \in Nat, m >= 1, env1.decode \in {"graph", "groups", "host"},
         Replays(ss, m, env1, bases, tokens, y.from), Replays(tt, m, env1, bases, tokens, y.to)
  PROVE  MadeAll(Joined(ss), Joined(tt), y) /\ Len(Joined(ss)) >= 1
<1>1. ASSUME NEW i \in 1 .. m PROVE MadeAll(ss[i], tt[i], y) /\ Len(ss[i]) >= 1
  <2> PICK base, token : base = bases[i] /\ token = tokens[i]
    OBVIOUS
  <2>1. ss[i] = forward_token(env1, base, token, y.from) /\ tt[i] = forward_token(env1, base, token, y.to)
    BY DEF Replays
  <2>2. /\ MadeAll(forward_token(env1, base, token, y.from), forward_token(env1, base, token, y.to), y)
        /\ Len(forward_token(env1, base, token, y.from)) >= 1
    BY ONLY Forward(y), env1.decode \in {"graph", "groups", "host"}, ForwardTokenMade
  <2> QED BY <2>1, <2>2, Zenon
<1> QED BY <1>1, JoinedCalls DEF Replays

(* The adapter's steps after a round. *)
LEMMA AcceptMade ==
  ASSUME NEW n, NEW o, Continues(n, o), Passing(n), NEW y, Proper(y), Adapter \in y.may, "adapter" \in y.owners,
         y.from = n.length, y.to = o.length
  PROVE  MadeAll(AcceptCalls(n), AcceptCalls(o), y) /\ Len(AcceptCalls(n)) >= 1
<1> PICK keep : keep = KeepAppended(n, n.pass.accepted)
  OBVIOUS
<1>1. keep \in Nat /\ keep <= n.pass.accepted /\ KeepAppended(o, o.pass.accepted) = keep
  BY DEF KeepAppended, Passing, Continues
<1> PICK first, m : first = Len(n.fed) - (n.pass.accepted + 1 - keep) /\ m = Len(n.fed) - first
  OBVIOUS
<1>2. m \in Nat /\ m >= 1
  <2>1. Len(n.fed) \in Nat /\ n.pass.accepted \in Nat
    BY SeqFacts DEF Passing
  <2> PICK a, b : a = Len(n.fed) /\ b = n.pass.accepted
    OBVIOUS
  <2>2. a \in Nat /\ b \in Nat /\ first = a - (b + 1 - keep) /\ m = a - first /\ keep <= b
    BY <1>1, <2>1
  <2> QED BY <1>1, <2>2
<1> DEFINE call(x, i) == forward_input(env, From(Host("verify_hidden"), "hidden", keep + i - 1), SubSeq(n.fed, 1, first + i),
                                       x.length, x.next_position, i = m)
           all(x) == [i \in 1 .. m |-> call(x, i)]
<1>3. AcceptCalls(n) = Joined(all(n)) /\ AcceptCalls(o) = Joined(all(o))
  BY <1>1 DEF AcceptCalls, Continues
<1> PICK ss, tt : ss = all(n) /\ tt = all(o)
  OBVIOUS
<1>4. ss = [i \in 1 .. m |-> ss[i]] /\ tt = [i \in 1 .. m |-> tt[i]]
  OBVIOUS
<1>5. ASSUME NEW i \in 1 .. m PROVE MadeAll(ss[i], tt[i], y) /\ Len(ss[i]) >= 1
  <2>1. ss[i] = call(n, i) /\ tt[i] = call(o, i)
    OBVIOUS
  <2> PICK hidden, fed, need : hidden = From(Host("verify_hidden"), "hidden", keep + i - 1) /\ fed = SubSeq(n.fed, 1, first + i)
                               /\ need = (i = m)
    OBVIOUS
  <2> PICK position, later, env1 : position = n.next_position /\ later = o.next_position /\ env1 = env
    OBVIOUS
  <2>2. /\ MadeAll(forward_input(env1, hidden, fed, y.from, position, need), forward_input(env1, hidden, fed, y.to, later, need), y)
        /\ Len(forward_input(env1, hidden, fed, y.from, position, need)) >= 1
    BY ForwardInputMade
  <2>3. call(n, i) = forward_input(env1, hidden, fed, y.from, position, need)
        /\ call(o, i) = forward_input(env1, hidden, fed, y.to, later, need)
    OBVIOUS
  <2> HIDE DEF call, all
  <2> QED BY <2>1, <2>2, <2>3, Zenon
<1>6. MadeAll(Joined(ss), Joined(tt), y) /\ Len(Joined(ss)) >= 1
  <2> HIDE DEF call, all
  <2> QED BY ONLY <1>2, <1>4, <1>5, JoinedCalls
<1> QED BY <1>3, <1>6

(* The calls of a pass, kind by kind. *)
LEMMA CallsAre ==
  ASSUME NEW n
  PROVE  LET k == n.pass
             rows == Len(k.tokens)
             kept == IF n.kept > 0 THEN rows - 1 ELSE 0
         IN  /\ k.kind = "prompt" => Calls(n) = (IF rows = 0 THEN <<>> ELSE prefill_internal(env, k.base, k.tokens, FALSE, n.length))
                                 \o logits(IF rows = 0 THEN 1 ELSE rows)
             /\ k.kind = "token" => Calls(n) = forward_token(env, k.base, k.tokens[1], n.length) \o logits(1)
             /\ k.kind = "replay" => Calls(n) = Joined([i \in 1..(k.accepted + 1) |->
                                   forward_token(env, TokenContext(n, i - 1), k.tokens[i], n.length)])
             /\ k.kind = "adapter" => Calls(n) = prefill_prompt(env, n.fed, n.length)
             /\ k.kind = "draft" => Calls(n) = forward_input(env, At(Host("seed_hidden"), "hidden"), n.fed, n.length, n.next_position, TRUE)
             /\ k.kind = "verify" /\ env.verify = "prefill" => Calls(n) = prefill_verify(env, k.base, k.tokens, n.length)
             /\ k.kind = "verify" /\ env.verify # "prefill" /\ Fused =>
                   Calls(n) = prefill_verify_mtp_seed_gpu(env, k.base, k.tokens, kept, n.batch, n.length, n.fed, n.next_position)
             /\ k.kind = "verify" /\ env.verify # "prefill" /\ ~Fused =>
                   Calls(n) = prefill_verify_gpu(k.base, k.tokens, kept, n.batch, n.length)
             /\ k.kind = "accept" => Calls(n) = AcceptCalls(n)
BY DEF Calls

(* Every call of a pass is well made, whatever the lengths are when it is its turn. *)
LEMMA CallsMade ==
  ASSUME NEW n, NEW o, Passing(n), Continues(n, o), Lengths(n.length), Lengths(o.length),
         env.decode \in {"graph", "groups", "host"}, NEW y, y = Between(n.pass.kind, n.length, o.length)
  PROVE  /\ MadeAll(Calls(n), Calls(o), y) /\ Len(Calls(n)) >= 1
         /\ n.pass.kind = "draft" => Extends(Calls(n))
<1> PICK kind, tokens, base, env1 : kind = n.pass.kind /\ tokens = n.pass.tokens /\ base = n.pass.base /\ env1 = env
  OBVIOUS
<1>1. /\ Proper(y) /\ FullLayers \subseteq y.may /\ (kind # "prompt" => Adapter \in y.may) /\ "adapter" \in y.owners
      /\ y.from = n.length /\ y.to = o.length
      /\ kind = "verify" => Verifies(y) /\ "shadow" \in y.owners
      /\ kind # "verify" => Forward(y)
  <2> PICK from, to : from = n.length /\ to = o.length
    OBVIOUS
  <2>1. Lengths(from) /\ Lengths(to) /\ y = Between(kind, from, to)
    OBVIOUS
  <2>2. /\ Proper(y) /\ y.may = May(kind) /\ FullLayers \subseteq y.may /\ "adapter" \in y.owners
        /\ y.from = from /\ y.to = to /\ y.owners = Owners(kind)
        /\ kind # "prompt" => Adapter \in y.may
        /\ kind = "verify" => Verifies(y) /\ "shadow" \in y.owners
        /\ kind # "verify" => Forward(y)
    BY ONLY <2>1, BetweenFacts
  <2> QED BY <2>2
<1>2. IsSeq(tokens) /\ env1.decode \in {"graph", "groups", "host"} /\ o.pass = n.pass /\ o.fed = n.fed
  BY DEF Passing, Continues
<1>3. CASE kind = "prompt"
  <2> PICK speculating, rows, u, v, w :
        /\ speculating = FALSE /\ rows = (IF Len(tokens) = 0 THEN 1 ELSE Len(tokens)) /\ w = logits(rows)
        /\ u = (IF Len(tokens) = 0 THEN <<>> ELSE prefill_internal(env1, base, tokens, speculating, y.from))
        /\ v = (IF Len(tokens) = 0 THEN <<>> ELSE prefill_internal(env1, base, tokens, speculating, y.to))
    OBVIOUS
  <2>1. MadeAll(u \o w, v \o w, y) /\ Len(u \o w) >= 1
    <3>1. Forward(y) /\ IsSeq(tokens) /\ (\E r : w = logits(r)) /\ env1.decode \in {"graph", "groups", "host"}
      BY <1>1, <1>2, <1>3
    <3>2. Prompted(u, env1, base, tokens, speculating, y.from) /\ Prompted(v, env1, base, tokens, speculating, y.to)
      BY DEF Prompted
    <3> QED BY ONLY <3>1, <3>2, PromptCalls
  <2>2. Calls(n) = u \o w
    BY <1>1, <1>3, CallsAre
  <2>3. Calls(o) = v \o w
    BY <1>1, <1>2, <1>3, CallsAre
  <2> QED BY <1>3, <2>1, <2>2, <2>3
<1>4. CASE kind = "token"
  <2> PICK token : token = tokens[1]
    OBVIOUS
  <2> DEFINE s(lengths) == forward_token(env1, base, token, lengths) \o logits(1)
  <2>1. MadeAll(s(y.from), s(y.to), y) /\ Len(s(y.from)) >= 1
    BY <1>1, <1>2, <1>4, TokenCalls
  <2>2. Calls(n) = s(y.from) /\ Calls(o) = s(y.to)
    <3>1. Calls(n) = s(n.length)
      BY <1>4, CallsAre
    <3>2. Calls(o) = s(o.length)
      BY <1>2, <1>4, CallsAre
    <3> QED BY <1>1, <3>1, <3>2
  <2> HIDE DEF s
  <2> QED BY <1>4, <2>1, <2>2
<1>5. CASE kind = "replay"
  <2> PICK m \in Nat : m >= 1 /\ m = n.pass.accepted + 1
    BY DEF Passing
  <2> DEFINE s(x) == [i \in 1 .. m |-> forward_token(env1, TokenContext(x, i - 1), tokens[i], x.length)]
  <2> PICK bases, ss, tt : bases = [i \in 1 .. m |-> TokenContext(n, i - 1)] /\ ss = s(n) /\ tt = s(o)
    OBVIOUS
  <2>1. ss = [i \in 1 .. m |-> ss[i]] /\ tt = [i \in 1 .. m |-> tt[i]]
    OBVIOUS
  <2>2. \A i \in 1 .. m : bases[i] = TokenContext(n, i - 1) /\ bases[i] = TokenContext(o, i - 1)
    BY <1>2 DEF TokenContext
  <2>3. \A i \in 1 .. m : /\ ss[i] = forward_token(env1, bases[i], tokens[i], y.from)
                          /\ tt[i] = forward_token(env1, bases[i], tokens[i], y.to)
    BY <1>1, <2>2
  <2>7. Replays(ss, m, env1, bases, tokens, y.from) /\ Replays(tt, m, env1, bases, tokens, y.to)
    <3> HIDE DEF s
    <3> QED BY ONLY <2>1, <2>3 DEF Replays
  <2>4. MadeAll(Joined(ss), Joined(tt), y) /\ Len(Joined(ss)) >= 1
    <3>1. Forward(y)
      BY <1>1, <1>5
    <3> HIDE DEF s
    <3> QED BY ONLY <1>2, <2>7, <3>1, m \in Nat, m >= 1, ReplayCalls
  <2>5. Calls(n) = Joined(ss)
    BY <1>5, CallsAre
  <2>6. Calls(o) = Joined(tt)
    BY <1>2, <1>5, CallsAre
  <2> QED BY <1>5, <2>4, <2>5, <2>6
<1>6. CASE kind = "adapter"
  <2> PICK fed : fed = n.fed
    OBVIOUS
  <2>1. IsSeq(fed)
    BY DEF Passing
  <2>2. /\ MadeAll(prefill_prompt(env1, fed, y.from), prefill_prompt(env1, fed, y.to), y)
        /\ Len(prefill_prompt(env1, fed, y.from)) >= 1
    BY ONLY <1>1, <1>6, <2>1, AdapterPromptMade
  <2>3. Calls(n) = prefill_prompt(env1, fed, y.from) /\ Calls(o) = prefill_prompt(env1, fed, y.to)
    <3>1. Calls(n) = prefill_prompt(env, n.fed, n.length)
      BY <1>6, CallsAre
    <3>2. Calls(o) = prefill_prompt(env, o.fed, o.length)
      BY <1>2, <1>6, CallsAre
    <3> QED BY <1>1, <1>2, <3>1, <3>2
  <2> QED BY <1>6, <2>2, <2>3
<1>7. CASE kind = "draft"
  <2> PICK hidden, fed, need, position, later :
        /\ hidden = At(Host("seed_hidden"), "hidden") /\ fed = n.fed /\ need = TRUE
        /\ position = n.next_position /\ later = o.next_position
    OBVIOUS
  <2>1. /\ MadeAll(forward_input(env1, hidden, fed, y.from, position, need), forward_input(env1, hidden, fed, y.to, later, need), y)
        /\ Len(forward_input(env1, hidden, fed, y.from, position, need)) >= 1
        /\ Extends(forward_input(env1, hidden, fed, y.from, position, need))
    BY ONLY <1>1, <1>7, ForwardInputMade
  <2>2. Calls(n) = forward_input(env1, hidden, fed, y.from, position, need) /\ Calls(o) = forward_input(env1, hidden, fed, y.to, later, need)
    <3>1. Calls(n) = forward_input(env, At(Host("seed_hidden"), "hidden"), n.fed, n.length, n.next_position, TRUE)
      BY <1>7, CallsAre
    <3>2. Calls(o) = forward_input(env, At(Host("seed_hidden"), "hidden"), o.fed, o.length, o.next_position, TRUE)
      BY <1>2, <1>7, CallsAre
    <3> QED BY <1>1, <1>2, <3>1, <3>2
  <2> QED BY <2>1, <2>2
<1>8. CASE kind = "verify" /\ env.verify = "prefill"
  <2>1. Len(tokens) >= 2
    BY <1>8 DEF Passing
  <2>2. /\ MadeAll(prefill_verify(env1, base, tokens, y.from), prefill_verify(env1, base, tokens, y.to), y)
        /\ Len(prefill_verify(env1, base, tokens, y.from)) >= 1
    <3>1. /\ Proper(y) /\ FullLayers \subseteq y.may /\ IsSeq(tokens) /\ Len(tokens) >= 2 /\ "shadow" \in y.owners
          /\ env1.decode \in {"graph", "groups", "host"}
      BY <1>1, <1>2, <1>8, <2>1
    <3> QED BY ONLY <3>1, PrefillVerifyMade
  <2>3. Calls(n) = prefill_verify(env1, base, tokens, y.from) /\ Calls(o) = prefill_verify(env1, base, tokens, y.to)
    <3>1. Calls(n) = prefill_verify(env, n.pass.base, n.pass.tokens, n.length)
      BY <1>8, CallsAre
    <3>2. Calls(o) = prefill_verify(env, o.pass.base, o.pass.tokens, o.length)
      BY <1>2, <1>8, CallsAre
    <3> QED BY <1>1, <1>2, <3>1, <3>2
  <2> QED BY <1>8, <2>2, <2>3
<1>9. CASE kind = "verify" /\ env.verify # "prefill"
  <2> PICK kept, batch, fed, position :
        /\ kept = (IF n.kept > 0 THEN Len(n.pass.tokens) - 1 ELSE 0) /\ batch = n.batch /\ fed = n.fed /\ position = n.next_position
    OBVIOUS
  <2>1. o.kept = n.kept /\ o.batch = batch /\ o.next_position = position /\ o.fed = fed
    BY <1>9 DEF Continues
  <2>2. Verifies(y)
    BY <1>1, <1>9
  <2>3. CASE Fused
    <3>1. /\ MadeAll(prefill_verify_mtp_seed_gpu(env1, base, tokens, kept, batch, y.from, fed, position),
                     prefill_verify_mtp_seed_gpu(env1, base, tokens, kept, batch, y.to, fed, position), y)
          /\ Len(prefill_verify_mtp_seed_gpu(env1, base, tokens, kept, batch, y.from, fed, position)) = 1
      BY ONLY <1>1, <1>9, <2>2, FusedMade
    <3>2. Calls(n) = prefill_verify_mtp_seed_gpu(env1, base, tokens, kept, batch, y.from, fed, position)
      BY <1>1, <1>9, <2>3, CallsAre
    <3>3. Calls(o) = prefill_verify_mtp_seed_gpu(env1, base, tokens, kept, batch, y.to, fed, position)
      <4>1. Calls(o) = prefill_verify_mtp_seed_gpu(env, o.pass.base, o.pass.tokens,
                          IF o.kept > 0 THEN Len(o.pass.tokens) - 1 ELSE 0, o.batch, o.length, o.fed, o.next_position)
        BY <1>2, <1>9, <2>3, CallsAre
      <4> QED BY <1>1, <1>2, <2>1, <4>1
    <3> PICK u, v : u = prefill_verify_mtp_seed_gpu(env1, base, tokens, kept, batch, y.from, fed, position)
                    /\ v = prefill_verify_mtp_seed_gpu(env1, base, tokens, kept, batch, y.to, fed, position)
      OBVIOUS
    <3>4. MadeAll(u, v, y) /\ Len(u) = 1 /\ Calls(n) = u /\ Calls(o) = v
      BY <3>1, <3>2, <3>3
    <3>5. Len(u) >= 1
      BY <3>4
    <3> QED BY <1>9, <3>4, <3>5
  <2>4. CASE ~Fused
    <3>1. /\ MadeAll(prefill_verify_gpu(base, tokens, kept, batch, y.from), prefill_verify_gpu(base, tokens, kept, batch, y.to), y)
          /\ Len(prefill_verify_gpu(base, tokens, kept, batch, y.from)) = 1
      BY ONLY <1>2, <2>2, VerifyGpuMade
    <3>2. Calls(n) = prefill_verify_gpu(base, tokens, kept, batch, y.from)
      BY <1>1, <1>9, <2>4, CallsAre
    <3>3. Calls(o) = prefill_verify_gpu(base, tokens, kept, batch, y.to)
      <4>1. Calls(o) = prefill_verify_gpu(o.pass.base, o.pass.tokens,
                          IF o.kept > 0 THEN Len(o.pass.tokens) - 1 ELSE 0, o.batch, o.length)
        BY <1>2, <1>9, <2>4, CallsAre
      <4> QED BY <1>1, <1>2, <2>1, <4>1
    <3> PICK u, v : u = prefill_verify_gpu(base, tokens, kept, batch, y.from)
                    /\ v = prefill_verify_gpu(base, tokens, kept, batch, y.to)
      OBVIOUS
    <3>4. MadeAll(u, v, y) /\ Len(u) = 1 /\ Calls(n) = u /\ Calls(o) = v
      BY <3>1, <3>2, <3>3
    <3> PICK m : m = Len(u)
      OBVIOUS
    <3>5. m = 1
      BY <3>4, Zenon
    <3>6. m >= 1
      BY ONLY <3>5
    <3> QED BY <1>9, <3>4, <3>6
  <2> QED BY <2>3, <2>4
<1>10. CASE kind = "accept"
  <2>1. MadeAll(AcceptCalls(n), AcceptCalls(o), y) /\ Len(AcceptCalls(n)) >= 1
    BY <1>1, <1>10, AcceptMade
  <2>2. Calls(n) = AcceptCalls(n) /\ Calls(o) = AcceptCalls(o)
    BY <1>2, <1>10, CallsAre
  <2> QED BY <1>10, <2>1, <2>2
<1>11. kind \in {"prompt", "token", "replay", "adapter", "draft", "verify", "accept"}
  BY DEF Passing
<1> QED BY <1>3, <1>4, <1>5, <1>6, <1>7, <1>8, <1>9, <1>10, <1>11

(* A verification by one graph extends the target's caches by its rows. *)
LEMMA VerifyAppends ==
  ASSUME NEW n, n.pass.kind = "verify", env.verify # "prefill"
  PROVE  /\ Len(Calls(n)) = 1
         /\ \A l \in FullLayers : /\ l \in DOMAIN Calls(n)[1].appends
                                  /\ Calls(n)[1].appends[l] = IF Fused THEN 2 ELSE Len(n.pass.tokens)
<1> PICK k, kept : k = n.pass /\ kept = IF n.kept > 0 THEN Len(n.pass.tokens) - 1 ELSE 0
  OBVIOUS
<1>1. CASE Fused
  <2> PICK c : c = prefill_verify_mtp_seed_gpu(env, k.base, k.tokens, kept, n.batch, n.length, n.fed, n.next_position)[1]
    OBVIOUS
  <2>1. Calls(n) = <<c>>
    <3>1. Calls(n) = prefill_verify_mtp_seed_gpu(env, k.base, k.tokens, kept, n.batch, n.length, n.fed, n.next_position)
      BY <1>1, CallsAre
    <3> QED BY <3>1 DEF prefill_verify_mtp_seed_gpu
  <2>2. c.appends = [l \in FullLayers \cup {Adapter} |-> IF l = Adapter THEN 1 ELSE 2]
    BY DEF prefill_verify_mtp_seed_gpu, Call
  <2>3. \A l \in FullLayers : l \in DOMAIN c.appends /\ c.appends[l] = 2
    BY <2>2, LayerFacts
  <2> QED BY <1>1, <2>1, <2>3
<1>2. CASE ~Fused
  <2> PICK c : c = prefill_verify_gpu(k.base, k.tokens, kept, n.batch, n.length)[1]
    OBVIOUS
  <2>1. Calls(n) = <<c>>
    <3>1. Calls(n) = prefill_verify_gpu(k.base, k.tokens, kept, n.batch, n.length)
      BY <1>2, CallsAre
    <3> QED BY <3>1 DEF prefill_verify_gpu
  <2>2. c.appends = [l \in FullLayers |-> Len(k.tokens)]
    BY DEF prefill_verify_gpu, Call
  <2>3. \A l \in FullLayers : l \in DOMAIN c.appends /\ c.appends[l] = Len(k.tokens)
    BY <2>2
  <2> QED BY <1>2, <2>1, <2>3
<1> QED BY <1>1, <1>2

-----------------------------------------------------------------------------
(* What is true of every lane between two steps.                            *)

LaneFields == {"phase", "pass", "at", "submitted", "mem", "length", "history", "prompt", "fed", "next_position",
               "round_appended", "active", "full_lengths", "kept", "batch"}

Shape(n) ==
  /\ DOMAIN n = LaneFields /\ DOMAIN n.pass = {"kind", "base", "tokens", "accepted"} /\ DOMAIN n.length = Caches
  /\ LaneBuffers \subseteq DOMAIN n.mem
  /\ \A l \in Caches : Holds(n.mem[Kv(l)], n.length[l])

(* The adapter's cache has what a rejected draft takes back, a target's cache *)
(* what a verification found there and, after one by graph, its rows.         *)
Drafted(n) == /\ env.drafts = 2 /\ Len(n.pass.tokens) = 1 /\ n.round_appended = 1 /\ Len(n.fed) >= 1
              /\ n.phase = "ready" => n.length[Adapter] >= 1

Verified(n) ==
  /\ n.active = TRUE
  /\ Fused => Len(n.pass.tokens) = 2
  /\ \A l \in FullLayers :
       /\ n.full_lengths[l] \in Nat /\ n.full_lengths[l] <= n.length[l]
       /\ (env.verify = "graph" /\ n.phase = "ready") => n.full_lengths[l] + Len(n.pass.tokens) <= n.length[l]

Rounds(n) ==
  /\ Passing(n)
  /\ n.pass.kind = "prompt" => n.length[Adapter] = 0 /\ (env.drafts > 0 => IsSeq(n.history))
  /\ n.pass.kind = "draft" => Drafted(n)
  /\ n.pass.kind \in {"verify", "replay"} => n.round_appended <= n.length[Adapter] /\ n.round_appended <= Len(n.fed)
  /\ n.pass.kind = "verify" => Verified(n)
  /\ n.pass.kind # "verify" => n.active = FALSE

Grows(call) == Adapter \in DOMAIN call.appends /\ call.appends[Adapter] = 1

Going(n) ==
  n.phase = "running" =>
    /\ n.at \in 1 .. Len(Calls(n))
    /\ n.pass.kind = "draft" => n.length[Adapter] >= 1 \/ \E i \in n.at .. Len(Calls(n)) : Grows(Calls(n)[i])

Sound(n) == n.phase \in {"running", "ready"} /\ Shape(n) /\ Rounds(n) /\ Going(n)

(* The call a lane waits for. *)
Current(n) == Calls(n)[n.at]

Waits(n) == /\ n.phase = "running" /\ Current(n).pool \in Pools
            /\ \A l \in DOMAIN Current(n).appends : n.length[l] + Current(n).appends[l] <= Len(n.mem[Kv(l)])

LaneSound(p) ==
  /\ lane[p].submitted \in BOOLEAN /\ lane[p].active \in BOOLEAN
  /\ lane[p].phase = "free" => lane[p].submitted = FALSE /\ lane[p].active = FALSE
  /\ lane[p].phase # "free" => Sound(lane[p])
  /\ lane[p].submitted = TRUE => Waits(lane[p])
  /\ \A pool \in Pools : holder[pool] = p <=> (lane[p].submitted = TRUE /\ pool = Current(lane[p]).pool)

RuntimeInv ==
  /\ env \in Environments /\ DOMAIN lane = Lanes /\ DOMAIN holder = Pools
  /\ \A p \in Lanes : LaneSound(p)

(* The switches do not change, so nor do the calls of a pass. *)
LEMMA CallsStay ==
  ASSUME env' = env, NEW n
  PROVE  /\ Calls(n)' = Calls(n) /\ (Fused' <=> Fused) /\ Current(n)' = Current(n)
         /\ Waits(n)' <=> Waits(n)
<1>1. Fused' <=> Fused
  BY DEF Fused
<1>2. AcceptCalls(n)' = AcceptCalls(n)
  BY DEF AcceptCalls, KeepAppended
<1>3. Calls(n)' = Calls(n)
  BY <1>1, <1>2 DEF Calls, TokenContext
<1>4. Current(n)' = Current(n)
  BY <1>3 DEF Current
<1>5. Waits(n)' <=> Waits(n)
  BY <1>4 DEF Waits
<1> QED BY <1>1, <1>3, <1>4, <1>5

(* Nor does what is true of a lane. *)
LEMMA SoundStays ==
  ASSUME env' = env, NEW n
  PROVE  Sound(n)' <=> Sound(n)
<1>1. Passing(n)' <=> Passing(n)
  BY DEF Passing
<1>2. Verified(n)' <=> Verified(n)
  BY CallsStay DEF Verified
<1>3. Drafted(n)' <=> Drafted(n)
  BY DEF Drafted
<1>4. Rounds(n)' <=> Rounds(n)
  BY <1>1, <1>2, <1>3 DEF Rounds
<1>5. Going(n)' <=> Going(n)
  BY CallsStay DEF Going
<1> QED BY <1>4, <1>5 DEF Sound

(* What is assumed of the switches. *)
LEMMA EnvFacts ==
  ASSUME env \in Environments
  PROVE  /\ env.decode \in {"graph", "groups", "host"} /\ CapacityAssumption
         /\ \A s \in env.prompts : IsSeq(s)
BY RuntimeAssumption DEF RuntimeAssumption, CapacityAssumption, IsSeq

(* A pass at its beginning has a call to go on with. *)
LEMMA Begun ==
  ASSUME env \in Environments, NEW n, Shape(n), Rounds(n), n.at = 1
  PROVE  Going(n)
<1> PICK y : y = Between(n.pass.kind, n.length, n.length)
  OBVIOUS
<1>1. Lengths(n.length)
  BY DEF Shape, Holds, Lengths
<1>2. Continues(n, n) /\ Passing(n)
  BY DEF Continues, Rounds
<1>3. MadeAll(Calls(n), Calls(n), y) /\ Len(Calls(n)) >= 1 /\ (n.pass.kind = "draft" => Extends(Calls(n)))
  BY <1>1, <1>2, EnvFacts, CallsMade
<1>4. Len(Calls(n)) \in Nat
  BY <1>3, SeqFacts DEF MadeAll
<1>5. 1 \in 1 .. Len(Calls(n))
  BY <1>3, <1>4
<1> QED BY <1>3, <1>5 DEF Going, Extends, Grows

(* One lane moves on, none takes or gives back a pool. *)
LEMMA Replaced ==
  ASSUME RuntimeInv, env' = env, holder' = holder, NEW p \in Lanes, NEW n, lane' = [lane EXCEPT ![p] = n],
         lane[p].submitted = FALSE, n.submitted = FALSE, n.active \in BOOLEAN, Sound(n)
  PROVE  RuntimeInv'
<1>1. \A q \in Lanes : LaneSound(q)
  BY DEF RuntimeInv
<1>2. ASSUME NEW q \in Lanes PROVE LaneSound(q)'
  <2>1. CASE q = p
    <3>1. lane'[q] = n
      BY <2>1 DEF RuntimeInv
    <3>2. \A pool \in Pools : holder[pool] # p
      BY <1>1 DEF LaneSound
    <3>3. n.phase # "free"
      BY DEF Sound
    <3>4. Sound(lane[q])'
      BY <3>1, SoundStays
    <3>5. (lane[q].submitted)' = FALSE /\ (lane[q].active)' \in BOOLEAN /\ (lane[q].phase)' # "free"
      BY <3>1, <3>3
    <3>6. ~((lane[q].submitted)' = TRUE)
      BY <3>5
    <3>7. \A pool \in Pools : ~((holder[pool])' = q)
      BY <2>1, <3>2
    <3> QED BY ONLY <3>4, <3>5, <3>6, <3>7 DEF LaneSound
  <2>2. CASE q # p
    <3>1. lane'[q] = lane[q]
      BY <2>2 DEF RuntimeInv
    <3>2. (Sound(lane[q])' <=> Sound(lane[q])) /\ Current(lane[q])' = Current(lane[q]) /\ (Waits(lane[q])' <=> Waits(lane[q]))
      BY <3>1, SoundStays, CallsStay
    <3> QED BY <1>1, <3>1, <3>2 DEF LaneSound
  <2> QED BY <2>1, <2>2
<1>3. env' \in Environments /\ DOMAIN lane' = Lanes /\ DOMAIN holder' = Pools
  BY DEF RuntimeInv
<1> QED BY <1>2, <1>3 DEF RuntimeInv

(* A new request, with a state of its own or of what another left.          *)

(* The buffer of a cache. *)
LEMMA CacheBuffers ==
  ASSUME NEW l \in Caches
  PROVE  Kv(l) \in LaneBuffers /\ Kv(l)[1] = "kv" /\ Kv(l)[2] = l
BY DEF Kv, LaneBuffers

(* The buffer of a state. *)
LEMMA StateBuffersFacts ==
  ASSUME NEW which, NEW l, NEW part
  PROVE  StateOf(l, which, part)[1] = which /\ StateOf(l, which, part)[2] = l /\ StateOf(l, which, part)[3] = part
BY DEF StateOf

(* One memory over another. *)
LEMMA OverFacts ==
  ASSUME NEW f, NEW g
  PROVE  /\ DOMAIN Over(f, g) = DOMAIN f \cup DOMAIN g
         /\ \A b \in DOMAIN f : Over(f, g)[b] = f[b]
         /\ \A b \in DOMAIN g : b \notin DOMAIN f => Over(f, g)[b] = g[b]
BY DEF Over

(* The same for one buffer. *)
LEMMA OverIs ==
  ASSUME NEW f, NEW g, NEW h, h = Over(f, g), NEW b
  PROVE  /\ b \in DOMAIN f => b \in DOMAIN h /\ h[b] = f[b]
         /\ b \notin DOMAIN f /\ b \in DOMAIN g => b \in DOMAIN h /\ h[b] = g[b]
BY DEF Over

(* A new cache. *)
LEMMA CapacityOfNew ==
  Holds(Unset(MinCapacity), 0)
<1>1. MinCapacity \in Nat /\ NextPowerOfTwo(MinCapacity) = MinCapacity
  BY RuntimeAssumption DEF RuntimeAssumption
<1>2. IsSeq(Unset(MinCapacity)) /\ Len(Unset(MinCapacity)) = MinCapacity
  BY <1>1, UnsetIsSeq
<1> QED BY <1>1, <1>2 DEF Holds, IsCapacity

(* The memory of a new request. *)
LEMMA NewMemoryFacts ==
  /\ DOMAIN NewMemory = LaneBuffers
  /\ \A l \in Caches : Holds(NewMemory[Kv(l)], 0)
<1> DEFINE all == [b \in {StateOf(l, "active", part) : l \in LinearLayers, part \in Parts} |-> ZeroState(b[2], b[3])]
           new == Over(Over(CreateDecodeState("decode", 1), CreateDecodeState("adapter", 1)),
                       Over([b \in {Kv(l) : l \in Caches} |-> Unset(MinCapacity)], all))
<1>1. NewMemory = [b \in LaneBuffers |-> IF b \in DOMAIN new THEN new[b] ELSE <<>>]
  BY DEF NewMemory
<1> HIDE DEF all
<1> PICK decode, adapter, caches, states :
      /\ decode = CreateDecodeState("decode", 1) /\ adapter = CreateDecodeState("adapter", 1)
      /\ caches = [b \in {Kv(l) : l \in Caches} |-> Unset(MinCapacity)]
      /\ states = all
  OBVIOUS
<1> PICK scratch, rest, made : scratch = Over(decode, adapter) /\ rest = Over(caches, states) /\ made = Over(scratch, rest)
  OBVIOUS
<1>4. new = made
  OBVIOUS
<1> HIDE DEF new
<1>2. ASSUME NEW l \in Caches PROVE made[Kv(l)] = Unset(MinCapacity) /\ Kv(l) \in DOMAIN made
  <2> PICK b : b = Kv(l)
    OBVIOUS
  <2>1. b \in DOMAIN caches /\ caches[b] = Unset(MinCapacity)
    OBVIOUS
  <2>2. b \notin DOMAIN scratch
    <3>1. DOMAIN decode = {Buffer("decode", name) : name \in DecodeBuffers}
          /\ DOMAIN adapter = {Buffer("adapter", name) : name \in DecodeBuffers}
      BY DEF CreateDecodeState
    <3>2. DOMAIN scratch = DOMAIN decode \cup DOMAIN adapter
      BY OverFacts
    <3>3. \A c \in DOMAIN scratch : c[1] = "decode" \/ c[1] = "adapter"
      BY <3>1, <3>2, OwnBuffer
    <3> QED BY <3>3, CacheBuffers
  <2>3. b \in DOMAIN rest /\ rest[b] = Unset(MinCapacity)
    BY ONLY <2>1, rest = Over(caches, states), OverIs
  <2>4. b \in DOMAIN made /\ made[b] = rest[b]
    BY ONLY <2>2, <2>3, made = Over(scratch, rest), OverIs
  <2> QED BY <2>3, <2>4
<1>3. ASSUME NEW l \in Caches PROVE NewMemory[Kv(l)] = Unset(MinCapacity)
  BY <1>1, <1>2, <1>4, CacheBuffers
<1> QED BY <1>1, <1>3, CapacityOfNew

(* What a request begins with. *)
Fresher(mem, length) == /\ LaneBuffers \subseteq DOMAIN mem /\ DOMAIN length = Caches /\ length[Adapter] = 0
                        /\ \A l \in Caches : Holds(mem[Kv(l)], length[l])

(* A new request. *)
LEMMA NewLaneSound ==
  ASSUME NEW mem, NEW length, NEW history, NEW base, NEW prompt, env \in Environments, Fresher(mem, length),
         IsSeq(prompt), env.drafts > 0 => IsSeq(history)
  PROVE  LET n == NewLane(mem, length, history, Pass("prompt", base, prompt, 0))
         IN  Sound(n) /\ n.submitted = FALSE /\ n.active = FALSE
<1> PICK n : n = NewLane(mem, length, history, Pass("prompt", base, prompt, 0))
  OBVIOUS
<1>1. /\ DOMAIN n = LaneFields /\ n.phase = "running" /\ n.at = 1 /\ n.submitted = FALSE /\ n.active = FALSE
      /\ n.mem = mem /\ n.length = length /\ n.history = history /\ n.fed = <<>> /\ n.round_appended = 0
      /\ n.pass = Pass("prompt", base, prompt, 0)
  BY DEF NewLane, LaneFields
<1>2. DOMAIN n.pass = {"kind", "base", "tokens", "accepted"} /\ n.pass.kind = "prompt" /\ n.pass.tokens = prompt /\ n.pass.accepted = 0
  BY <1>1 DEF Pass
<1>3. Shape(n)
  BY <1>1, <1>2 DEF Shape, Fresher
<1>4. Passing(n)
  BY <1>1, <1>2, IsSeqEmpty DEF Passing
<1>5. Rounds(n)
  BY <1>1, <1>2, <1>4 DEF Rounds, Fresher
<1>6. Going(n)
  BY <1>1, <1>3, <1>5, Begun
<1> QED BY <1>1, <1>3, <1>5, <1>6 DEF Sound

(* new_state: a request starts. *)
LEMMA StartStep ==
  ASSUME RuntimeInv, NEW p \in Lanes, NEW prompt \in env.prompts, Start(p, prompt)
  PROVE  RuntimeInv'
<1> PICK n, mem, length, base : /\ n = NewLane(mem, length, prompt, Pass("prompt", base, prompt, 0))
                                /\ mem = NewMemory /\ length = [l \in Caches |-> 0] /\ base = <<>>
  OBVIOUS
<1>1. lane' = [lane EXCEPT ![p] = n] /\ env' = env /\ holder' = holder /\ lane[p].phase = "free"
  BY DEF Start, MayStart
<1>2. env \in Environments /\ lane[p].submitted = FALSE
  BY <1>1 DEF RuntimeInv, LaneSound
<1>3. IsSeq(prompt)
  BY <1>2, EnvFacts
<1>4. Fresher(mem, length)
  BY NewMemoryFacts, LayerFacts DEF Fresher
<1>5. Sound(n) /\ n.submitted = FALSE /\ n.active = FALSE
  BY <1>2, <1>3, <1>4, NewLaneSound
<1> QED BY <1>1, <1>2, <1>5, Replaced

(* A request between two passes. *)
LEMMA AtRest ==
  ASSUME RuntimeInv, NEW p \in Lanes, NEW kinds, Ready(p, kinds)
  PROVE  /\ lane[p].phase = "ready" /\ lane[p].submitted = FALSE /\ lane[p].active \in BOOLEAN /\ lane[p].pass.kind \in kinds
         /\ Sound(lane[p]) /\ env \in Environments
<1>1. lane[p].phase = "ready" /\ lane[p].pass.kind \in kinds
  BY DEF Ready
<1>2. LaneSound(p) /\ env \in Environments
  BY DEF RuntimeInv
<1>3. lane[p].submitted # TRUE
  BY <1>1, <1>2 DEF LaneSound, Waits
<1> QED BY <1>1, <1>2, <1>3 DEF LaneSound

(* The caches a fork copies. *)
LEMMA ForkHolds ==
  ASSUME NEW p, Shape(lane[p]), lane[p].length[Adapter] = 0
  PROVE  DOMAIN ForkedMemory(p) = LaneBuffers /\ \A l \in Caches : Holds(ForkedMemory(p)[Kv(l)], lane[p].length[l])
<1> PICK mem, length : mem = lane[p].mem /\ length = lane[p].length
  OBVIOUS
<1> DEFINE cut(b) == [t \in DOMAIN mem[b] |-> IF t <= length[b[2]] THEN mem[b][t] ELSE <<Junk, 1>>]
<1> DEFINE states == [b \in {StateOf(l, "active", part) : l \in LinearLayers, part \in Parts} |-> lane[p].mem[b]]
           cuts == [b \in {Kv(l) : l \in FullLayers} |-> cut(b)]
<1>10. ForkedMemory(p) = Over(states, Over(cuts, NewMemory))
  BY DEF ForkedMemory
<1>11. DOMAIN states \subseteq LaneBuffers /\ \A b \in DOMAIN states : b[1] = "active"
  BY StateBuffersFacts DEF LaneBuffers, StateBuffers
<1> HIDE DEF states
<1> PICK copied, caches, fresh : copied = states /\ caches = cuts /\ fresh = NewMemory
  OBVIOUS
<1> PICK rest, forked : rest = Over(caches, fresh) /\ forked = Over(copied, rest)
  OBVIOUS
<1>1. ForkedMemory(p) = forked
  BY <1>10
<1>2. DOMAIN copied \subseteq LaneBuffers /\ DOMAIN caches \subseteq LaneBuffers
  BY <1>11, LayerFacts, CacheBuffers
<1>3. DOMAIN forked = DOMAIN copied \cup DOMAIN rest /\ DOMAIN rest = DOMAIN caches \cup DOMAIN fresh
  BY OverFacts
<1>4. \A l \in Caches : Kv(l) \notin DOMAIN copied
  BY <1>11, CacheBuffers
<1>5. \A l \in FullLayers : Kv(l) \in DOMAIN caches /\ caches[Kv(l)] = cut(Kv(l))
  OBVIOUS
<1>6. Kv(Adapter) \notin DOMAIN caches
  BY LayerFacts, CacheBuffers
<1>9. DOMAIN fresh = LaneBuffers /\ \A l \in Caches : Holds(fresh[Kv(l)], 0)
  BY NewMemoryFacts
<1>7. ASSUME NEW l \in FullLayers PROVE Holds(forked[Kv(l)], length[l])
  <2>1. Holds(mem[Kv(l)], length[l]) /\ Kv(l)[2] = l /\ l \in Caches
    BY LayerFacts, CacheBuffers DEF Shape
  <2> PICK b, c, d, m : b = Kv(l) /\ c = mem[b] /\ d = cut(b) /\ m = Len(c)
    OBVIOUS
  <2>2. DOMAIN c = 1 .. m /\ m \in Nat
    BY <2>1, SeqFacts DEF Holds
  <2>4. d = [t \in 1 .. m |-> d[t]]
    BY <2>2
  <2>5. IsSeq(d) /\ Len(d) = m
    BY <2>2, <2>4, FunctionIsSeq
  <2>6. forked[b] = d
    <3>1. b \in DOMAIN caches /\ caches[b] = d /\ b \notin DOMAIN copied
      BY <1>4, <1>5, <2>1
    <3>2. b \in DOMAIN rest /\ rest[b] = d
      BY ONLY <3>1, rest = Over(caches, fresh), OverIs
    <3> QED BY ONLY <3>1, <3>2, forked = Over(copied, rest), OverIs
  <2> QED BY <2>1, <2>5, <2>6 DEF Holds
<1>8. Holds(forked[Kv(Adapter)], length[Adapter])
  <2> PICK b : b = Kv(Adapter)
    OBVIOUS
  <2>1. b \notin DOMAIN copied /\ b \in LaneBuffers /\ b \notin DOMAIN caches
    BY <1>4, <1>6, LayerFacts, CacheBuffers
  <2>2. b \in DOMAIN rest /\ rest[b] = fresh[b]
    BY ONLY <1>9, <2>1, rest = Over(caches, fresh), OverIs
  <2>3. forked[b] = fresh[b]
    BY ONLY <2>1, <2>2, forked = Over(copied, rest), OverIs
  <2> QED BY <1>9, <2>3, LayerFacts
<1> QED BY <1>1, <1>2, <1>3, <1>7, <1>8, <1>9 DEF Caches

(* fork: a request starts from another's caches. *)
LEMMA StartFromPrefixStep ==
  ASSUME RuntimeInv, NEW p \in Lanes, NEW q \in Lanes, NEW suffix \in env.prompts \cup {<<>>}, StartFromPrefix(p, q, suffix)
  PROVE  RuntimeInv'
<1> PICK last, mem : mem = [ForkedMemory(q) EXCEPT ![Host("hidden")] = last]
                     /\ lane' = [lane EXCEPT ![p] = NewLane(mem, lane[q].length, lane[q].history \o suffix, Pass("prompt", lane[q].history, suffix, 0))]
  BY DEF StartFromPrefix
<1> PICK n, length, history, base : /\ n = NewLane(mem, length, history, Pass("prompt", base, suffix, 0))
                                    /\ length = lane[q].length /\ history = lane[q].history \o suffix /\ base = lane[q].history
  OBVIOUS
<1>1. lane' = [lane EXCEPT ![p] = n] /\ env' = env /\ holder' = holder /\ lane[p].phase = "free" /\ env.drafts = 0 /\ Ready(q, {"prompt"})
  BY DEF StartFromPrefix, MayStart
<1>2. env \in Environments /\ lane[p].submitted = FALSE
  BY <1>1 DEF RuntimeInv, LaneSound
<1>3. IsSeq(suffix) /\ ~(env.drafts > 0)
  BY <1>1, <1>2, EnvFacts, IsSeqEmpty
<1>4. Shape(lane[q]) /\ lane[q].length[Adapter] = 0
  <2> PICK kinds : kinds = {"prompt"}
    OBVIOUS
  <2>1. Ready(q, kinds)
    BY <1>1
  <2>2. Sound(lane[q]) /\ lane[q].pass.kind \in kinds
    BY <2>1, AtRest
  <2> QED BY <2>2 DEF Sound, Rounds
<1>5. DOMAIN ForkedMemory(q) = LaneBuffers /\ \A l \in Caches : Holds(ForkedMemory(q)[Kv(l)], length[l])
  BY <1>4, ForkHolds
<1>6. \A l \in Caches : mem[Kv(l)] = ForkedMemory(q)[Kv(l)]
  BY CacheBuffers, <1>5 DEF Host
<1>7. Fresher(mem, length)
  BY <1>4, <1>5, <1>6 DEF Fresher, Shape
<1>8. Sound(n) /\ n.submitted = FALSE /\ n.active = FALSE
  <2>1. env.drafts > 0 => IsSeq(history)
    BY <1>3
  <2>2. n = NewLane(mem, length, history, Pass("prompt", base, suffix, 0))
    OBVIOUS
  <2> QED BY ONLY <1>2, <1>3, <1>7, <2>1, <2>2, NewLaneSound
<1> QED BY <1>1, <1>2, <1>8, Replaced

(* The passes that a request at rest begins. *)

(* A request at rest begins a pass. *)
LEMMA Turned ==
  ASSUME NEW p \in Lanes, NEW n, RuntimeInv, env' = env, holder' = holder, lane' = [lane EXCEPT ![p] = n],
         lane[p].submitted = FALSE, n.submitted = FALSE, n.active \in BOOLEAN,
         n.phase = "running", n.at = 1, Shape(n), Rounds(n)
  PROVE  RuntimeInv'
<1>1. env \in Environments
  BY DEF RuntimeInv
<1>2. Going(n)
  BY <1>1, Begun
<1>3. Sound(n)
  BY <1>2 DEF Sound
<1> QED BY <1>3, Replaced

(* What a new pass leaves as it is. *)
LEMMA RunsFacts ==
  ASSUME NEW n, NEW pass, DOMAIN n = LaneFields, NEW o, o = Runs(n, pass)
  PROVE  /\ DOMAIN o = LaneFields /\ o.phase = "running" /\ o.at = 1 /\ o.pass = pass
         /\ o.submitted = n.submitted /\ o.active = n.active /\ o.mem = n.mem /\ o.length = n.length
         /\ o.history = n.history /\ o.fed = n.fed /\ o.round_appended = n.round_appended
         /\ o.full_lengths = n.full_lengths /\ o.next_position = n.next_position
BY DEF Runs, LaneFields

(* The fields of a pass. *)
LEMMA PassFacts ==
  ASSUME NEW kind, NEW base, NEW tokens, NEW accepted
  PROVE  LET k == Pass(kind, base, tokens, accepted)
         IN  /\ DOMAIN k = {"kind", "base", "tokens", "accepted"}
             /\ k.kind = kind /\ k.base = base /\ k.tokens = tokens /\ k.accepted = accepted
BY DEF Pass

(* A sequence of one. *)
LEMMA OneIsSeq ==
  ASSUME NEW e
  PROVE  IsSeq(<<e>>) /\ Len(<<e>>) = 1
<1>1. <<e>> \in Seq({e})
  OBVIOUS
<1> QED BY <1>1, SeqOfAny

(* A sequence with one more. *)
LEMMA AppendIsSeq ==
  ASSUME NEW s, NEW e, IsSeq(s)
  PROVE  IsSeq(Append(s, e)) /\ Len(Append(s, e)) = Len(s) + 1
<1> PICK S : S = Range(s) \cup {e}
  OBVIOUS
<1>1. s \in Seq(S)
  BY DEF IsSeq
<1>2. Append(s, e) \in Seq(S) /\ Len(Append(s, e)) = Len(s) + 1
  BY <1>1
<1> QED BY <1>2, SeqOfAny

(* forward: the next token. *)
LEMMA NextTokenStep ==
  ASSUME RuntimeInv, NEW p \in Lanes, NEW token, NextToken(p, token)
  PROVE  RuntimeInv'
<1> PICK n, k, o, kinds : /\ n = lane[p] /\ k = Pass("token", n.history, <<token>>, 0) /\ o = Runs(n, k) /\ kinds = {"prompt", "token"}
  OBVIOUS
<1> PICK r : r = [o EXCEPT !.history = Append(@, token)]
  OBVIOUS
<1>1. lane' = [lane EXCEPT ![p] = r] /\ env' = env /\ holder' = holder /\ Ready(p, kinds)
  BY DEF NextToken
<1>2. n.submitted = FALSE /\ Sound(n) /\ n.pass.kind \in kinds
  BY <1>1, AtRest
<1>3. Shape(n) /\ Rounds(n) /\ DOMAIN n = LaneFields /\ n.active = FALSE
  BY <1>2 DEF Sound, Shape, Rounds
<1>4. /\ DOMAIN r = LaneFields /\ r.phase = "running" /\ r.at = 1 /\ r.pass = k /\ r.submitted = FALSE
      /\ r.active = FALSE /\ r.mem = n.mem /\ r.length = n.length /\ r.fed = n.fed /\ r.round_appended = n.round_appended
  <2>1. /\ DOMAIN o = LaneFields /\ o.phase = "running" /\ o.at = 1 /\ o.pass = k
        /\ o.submitted = n.submitted /\ o.active = n.active /\ o.mem = n.mem /\ o.length = n.length
        /\ o.fed = n.fed /\ o.round_appended = n.round_appended
    BY <1>3, RunsFacts
  <2> QED BY <1>2, <1>3, <2>1 DEF LaneFields
<1>5. DOMAIN k = {"kind", "base", "tokens", "accepted"} /\ k.kind = "token" /\ k.tokens = <<token>> /\ k.accepted = 0
  BY PassFacts
<1>6. Shape(r)
  BY ONLY <1>3, <1>4, <1>5 DEF Shape
<1>7. Passing(r)
  BY <1>3, <1>4, <1>5, OneIsSeq DEF Rounds, Passing
<1>8. Rounds(r)
  BY <1>4, <1>5, <1>7 DEF Rounds
<1> QED BY <1>1, <1>2, <1>4, <1>6, <1>8, Turned

(* prefill_prompt: the adapter reads the prompt. *)
LEMMA AdapterPromptStep ==
  ASSUME RuntimeInv, NEW p \in Lanes, AdapterPrompt(p)
  PROVE  RuntimeInv'
<1> PICK n, k, o, kinds : /\ n = lane[p] /\ k = Pass("adapter", n.history, <<>>, 0) /\ o = Runs(n, k) /\ kinds = {"prompt"}
  OBVIOUS
<1> PICK r, pairs : pairs = PromptPairs(n.history) /\ r = [o EXCEPT !.fed = pairs, !.prompt = Len(n.history)]
  OBVIOUS
<1>1. lane' = [lane EXCEPT ![p] = r] /\ env' = env /\ holder' = holder /\ Ready(p, kinds) /\ env.drafts > 0
  BY DEF AdapterPrompt
<1>2. n.submitted = FALSE /\ Sound(n) /\ n.pass.kind \in kinds
  BY <1>1, AtRest
<1>3. Shape(n) /\ Rounds(n) /\ DOMAIN n = LaneFields /\ n.active = FALSE /\ IsSeq(n.history)
  BY <1>1, <1>2 DEF Sound, Shape, Rounds
<1>4. /\ DOMAIN r = LaneFields /\ r.phase = "running" /\ r.at = 1 /\ r.pass = k /\ r.submitted = FALSE
      /\ r.active = FALSE /\ r.mem = n.mem /\ r.length = n.length /\ r.fed = pairs /\ r.round_appended = n.round_appended
  <2>1. /\ DOMAIN o = LaneFields /\ o.phase = "running" /\ o.at = 1 /\ o.pass = k
        /\ o.submitted = n.submitted /\ o.active = n.active /\ o.mem = n.mem /\ o.length = n.length
        /\ o.round_appended = n.round_appended
    BY <1>3, RunsFacts
  <2> QED BY <1>2, <1>3, <2>1 DEF LaneFields
<1>5. DOMAIN k = {"kind", "base", "tokens", "accepted"} /\ k.kind = "adapter" /\ k.tokens = <<>> /\ k.accepted = 0
  BY PassFacts
<1>6. Shape(r)
  BY ONLY <1>3, <1>4, <1>5 DEF Shape
<1>7. IsSeq(pairs)
  <2> PICK m : m = Len(n.history)
    OBVIOUS
  <2>1. m \in Nat /\ DOMAIN n.history = 1 .. m
    BY <1>3, SeqFacts
  <2>2. pairs = [i \in 1 .. m |-> pairs[i]]
    BY <2>1 DEF PromptPairs
  <2> QED BY <2>1, <2>2, FunctionIsSeq
<1>8. Passing(r)
  BY <1>3, <1>4, <1>5, <1>7, IsSeqEmpty DEF Rounds, Passing
<1>9. Rounds(r)
  BY <1>4, <1>5, <1>8 DEF Rounds
<1> QED BY <1>1, <1>2, <1>4, <1>6, <1>9, Turned

(* advance_seed: the adapter drafts one more token. *)
LEMMA DraftStep ==
  ASSUME RuntimeInv, NEW p \in Lanes, NEW seed, Draft(p, seed)
  PROVE  RuntimeInv'
<1> PICK n, k, o, kinds : /\ n = lane[p] /\ k = Pass("draft", n.history, <<seed>>, 0) /\ o = Runs(n, k) /\ kinds = {"adapter", "accept"}
  OBVIOUS
<1> PICK r, fed : fed = Append(n.fed, Fed(<<>>, seed)) /\ r = [o EXCEPT !.fed = Append(@, Fed(<<>>, seed)), !.round_appended = 1]
  OBVIOUS
<1>1. lane' = [lane EXCEPT ![p] = r] /\ env' = env /\ holder' = holder /\ Ready(p, kinds) /\ env.drafts = 2
  BY DEF Draft
<1>2. n.submitted = FALSE /\ Sound(n) /\ n.pass.kind \in kinds
  BY <1>1, AtRest
<1>3. Shape(n) /\ Rounds(n) /\ DOMAIN n = LaneFields /\ n.active = FALSE /\ IsSeq(n.fed)
  BY <1>1, <1>2 DEF Sound, Shape, Rounds, Passing
<1>4. /\ DOMAIN r = LaneFields /\ r.phase = "running" /\ r.at = 1 /\ r.pass = k /\ r.submitted = FALSE
      /\ r.active = FALSE /\ r.mem = n.mem /\ r.length = n.length /\ r.fed = fed /\ r.round_appended = 1
  <2>1. /\ DOMAIN o = LaneFields /\ o.phase = "running" /\ o.at = 1 /\ o.pass = k
        /\ o.submitted = n.submitted /\ o.active = n.active /\ o.mem = n.mem /\ o.length = n.length
        /\ o.fed = n.fed
    BY <1>3, RunsFacts
  <2> QED BY <1>2, <1>3, <2>1 DEF LaneFields
<1>5. DOMAIN k = {"kind", "base", "tokens", "accepted"} /\ k.kind = "draft" /\ k.tokens = <<seed>> /\ k.accepted = 0
  BY PassFacts
<1>6. Shape(r)
  BY ONLY <1>3, <1>4, <1>5 DEF Shape
<1>7. IsSeq(fed) /\ Len(fed) >= 1
  <2> PICK e : e = Fed(<<>>, seed)
    OBVIOUS
  <2>1. IsSeq(fed) /\ Len(fed) = Len(n.fed) + 1 /\ Len(n.fed) \in Nat
    BY <1>3, AppendIsSeq, SeqFacts
  <2> QED BY <2>1
<1>8. Passing(r)
  <2>1. IsSeq(k.tokens)
    BY <1>5, OneIsSeq
  <2> QED BY ONLY <1>4, <1>5, <1>7, <2>1 DEF Passing
<1>9. Drafted(r)
  BY <1>1, <1>4, <1>5, <1>7, OneIsSeq DEF Drafted
<1>10. Rounds(r)
  BY <1>4, <1>5, <1>8, <1>9 DEF Rounds
<1> QED BY <1>1, <1>2, <1>4, <1>6, <1>10, Turned

(* A speculation begins: the states it will write are made, the others kept. *)

(* A memory that differs in some states only. *)
Restates(mem, new, tags) ==
  /\ LaneBuffers \subseteq DOMAIN new
  /\ \A b \in LaneBuffers : b[1] \notin tags => new[b] = mem[b]

(* The caches are as they were. *)
LEMMA RestatesCaches ==
  ASSUME NEW mem, NEW new, NEW tags, "kv" \notin tags, Restates(mem, new, tags)
  PROVE  \A l \in Caches : new[Kv(l)] = mem[Kv(l)]
BY CacheBuffers DEF Restates

(* What the transaction holds on to. *)
Begins(n, o) ==
  /\ DOMAIN o = LaneFields /\ Restates(n.mem, o.mem, {"shadow", "snapshot"})
  /\ o.active = TRUE /\ (\A l \in FullLayers : o.full_lengths[l] = n.length[l])
  /\ o.phase = n.phase /\ o.submitted = n.submitted /\ o.length = n.length /\ o.history = n.history
  /\ o.fed = n.fed /\ o.round_appended = n.round_appended

(* begin_speculation writes no active state and no cache. *)
LEMMA SpeculationBegins ==
  ASSUME NEW n, NEW rows, NEW o, DOMAIN n = LaneFields, LaneBuffers \subseteq DOMAIN n.mem, o = BeginSpeculation(n, rows)
  PROVE  Begins(n, o)
<1> DEFINE take   == env.verify = "graph" /\ env.snapshots /\ n.kept < rows - 1
           shadow == [b \in {StateOf(l, "shadow", part) : l \in LinearLayers, part \in Parts} |->
                        IF n.mem[b] = <<>> THEN ZeroState(b[2], b[3]) ELSE n.mem[b]]
           images == [b \in {StateOf(l, "snapshot", part) : l \in LinearLayers, part \in Parts} |->
                        IF take THEN Unset((rows - 1) * Width["state"]) ELSE n.mem[b]]
           kept == IF take THEN rows - 1 ELSE n.kept
<1>1. /\ \A b \in DOMAIN shadow : b[1] \in {"shadow", "snapshot"}
      /\ \A b \in DOMAIN images : b[1] \in {"shadow", "snapshot"}
  BY StateBuffersFacts
<1>2. o = [n EXCEPT !.mem = Over(shadow, Over(images, @)), !.active = TRUE,
                    !.full_lengths = [l \in FullLayers |-> n.length[l]], !.kept = kept]
  BY DEF BeginSpeculation, LaneFields
<1> HIDE DEF shadow, images, kept
<1> PICK u, v, m, tags : u = shadow /\ v = images /\ m = Over(v, n.mem) /\ tags = {"shadow", "snapshot"}
  OBVIOUS
<1>7. (\A b \in DOMAIN u : b[1] \in tags) /\ \A b \in DOMAIN v : b[1] \in tags
  BY <1>1
<1> PICK old : old = n.mem
  OBVIOUS
<1>3. DOMAIN old \subseteq DOMAIN m /\ \A b \in DOMAIN old : b[1] \notin tags => m[b] = old[b]
  BY ONLY <1>7, m = Over(v, n.mem), old = n.mem DEF Over
<1> PICK new : new = Over(u, m)
  OBVIOUS
<1>4. DOMAIN m \subseteq DOMAIN new /\ \A b \in DOMAIN m : b[1] \notin tags => new[b] = m[b]
  BY ONLY <1>7, new = Over(u, m) DEF Over
<1>5. Restates(n.mem, new, tags)
  BY <1>3, <1>4 DEF Restates
<1>6. o = [n EXCEPT !.mem = new, !.active = TRUE, !.full_lengths = [l \in FullLayers |-> n.length[l]], !.kept = kept]
  BY <1>2
<1> QED BY <1>5, <1>6 DEF LaneFields, Begins

(* One sequence behind another. *)
LEMMA TwoIsSeq ==
  ASSUME NEW s, NEW t, IsSeq(s), IsSeq(t)
  PROVE  IsSeq(s \o t) /\ Len(s \o t) = Len(s) + Len(t) /\ Len(s) \in Nat /\ Len(t) \in Nat
BY Concat, SeqFacts DEF ConcatIs

(* verify: a round begins. *)
LEMMA VerifyStep ==
  ASSUME RuntimeInv, NEW p \in Lanes, NEW draft, Verify(p, <<draft>>)
  PROVE  RuntimeInv'
<1>a. PICK n : n = lane[p]
  OBVIOUS
<1>b. PICK drafts, one : drafts = <<draft>> /\ one = <<Choice(lane[p].history)>>
  OBVIOUS
<1>c. PICK kinds : kinds = {"adapter", "accept", "draft"}
  OBVIOUS
<1>d. PICK more : more = IF n.pass.kind # "draft" THEN drafts ELSE n.pass.tokens \o drafts
  OBVIOUS
<1>e. PICK tokens : tokens = one \o more
  OBVIOUS
<1>f. PICK k : k = Pass("verify", n.history, tokens, 0)
  OBVIOUS
<1>g. PICK rows : rows = Len(tokens)
  OBVIOUS
<1>h. PICK o : o = BeginSpeculation(n, rows)
  OBVIOUS
<1>i. PICK q : q = Runs(o, k)
  OBVIOUS
<1>j. PICK appended : appended = (IF n.pass.kind # "draft" THEN 0 ELSE n.round_appended)
  OBVIOUS
<1>k. PICK r : r = [q EXCEPT !.round_appended = appended]
  OBVIOUS
<1>1. env' = env /\ holder' = holder /\ Ready(p, kinds)
  BY <1>c DEF Verify
<1>2. n.submitted = FALSE /\ Sound(n) /\ n.phase = "ready" /\ n.pass.kind \in kinds
  BY <1>1, <1>a, AtRest
<1>3. Shape(n) /\ Rounds(n) /\ DOMAIN n = LaneFields /\ n.active = FALSE /\ IsSeq(n.fed) /\ LaneBuffers \subseteq DOMAIN n.mem
  BY <1>1, <1>2, <1>c DEF Sound, Shape, Rounds, Passing
<1>4. /\ DOMAIN o = LaneFields /\ Restates(n.mem, o.mem, {"shadow", "snapshot"})
      /\ o.active = TRUE /\ (\A l \in FullLayers : o.full_lengths[l] = n.length[l])
      /\ o.submitted = FALSE /\ o.length = n.length /\ o.fed = n.fed /\ o.round_appended = n.round_appended
  <2>1. LaneBuffers \subseteq DOMAIN n.mem /\ o = BeginSpeculation(n, rows)
    BY <1>3, <1>h
  <2>2. Begins(n, o)
    BY ONLY <1>3, <2>1, SpeculationBegins
  <2> QED BY <1>2, <2>2 DEF Begins
<1>5. /\ DOMAIN q = LaneFields /\ q.phase = "running" /\ q.at = 1 /\ q.pass = k /\ q.submitted = FALSE /\ q.active = TRUE
      /\ q.mem = o.mem /\ q.length = n.length /\ q.fed = n.fed /\ q.full_lengths = o.full_lengths
      /\ q.round_appended = n.round_appended
  BY ONLY <1>4, <1>i, RunsFacts
<1>6. lane' = [lane EXCEPT ![p] = r]
  <2>1. lane' = [lane EXCEPT ![p] = [q EXCEPT !.round_appended = IF n.pass.kind # "draft" THEN 0 ELSE @]]
    BY <1>a, <1>b, <1>d, <1>e, <1>f, <1>g, <1>h, <1>i, Zenon DEF Verify
  <2>2. r = [q EXCEPT !.round_appended = IF n.pass.kind # "draft" THEN 0 ELSE @]
    BY <1>5, <1>j, <1>k
  <2> QED BY <2>1, <2>2
<1>7. /\ DOMAIN r = LaneFields /\ r.phase = "running" /\ r.at = 1 /\ r.pass = k /\ r.submitted = FALSE /\ r.active = TRUE
      /\ r.mem = o.mem /\ r.length = n.length /\ r.fed = n.fed /\ r.full_lengths = o.full_lengths /\ r.round_appended = appended
  BY <1>5, <1>k DEF LaneFields
<1>8. DOMAIN k = {"kind", "base", "tokens", "accepted"} /\ k.kind = "verify" /\ k.tokens = tokens /\ k.accepted = 0
  BY ONLY <1>f DEF Pass
<1>9. Shape(r)
  <2>0. PICK tags : tags = {"shadow", "snapshot"}
    OBVIOUS
  <2>1. Restates(n.mem, o.mem, tags) /\ "kv" \notin tags
    BY <1>4, <2>0
  <2>2. (\A l \in Caches : o.mem[Kv(l)] = n.mem[Kv(l)]) /\ LaneBuffers \subseteq DOMAIN o.mem
    BY ONLY <2>1, RestatesCaches DEF Restates
  <2> QED BY ONLY <1>3, <1>7, <1>8, <2>2 DEF Shape
<1>10. /\ IsSeq(tokens) /\ Len(tokens) >= 2
       /\ n.pass.kind # "draft" => Len(tokens) = 2
  <2>1. IsSeq(drafts) /\ Len(drafts) = 1 /\ IsSeq(one) /\ Len(one) = 1
    BY <1>b, OneIsSeq
  <2>2. IsSeq(n.pass.tokens)
    BY <1>3 DEF Rounds, Passing
  <2>3. n.pass.kind = "draft" => Len(n.pass.tokens) = 1
    BY <1>3 DEF Rounds, Drafted
  <2>4. IsSeq(n.pass.tokens \o drafts) /\ Len(n.pass.tokens \o drafts) = Len(n.pass.tokens) + 1
    BY <2>1, <2>2, TwoIsSeq
  <2>5. IsSeq(more) /\ (n.pass.kind # "draft" => Len(more) = 1) /\ (n.pass.kind = "draft" => Len(more) = 2)
    BY ONLY <2>1, <2>3, <2>4, <1>d
  <2>6. IsSeq(tokens) /\ Len(tokens) = Len(one) + Len(more) /\ Len(more) \in Nat
    BY ONLY <2>1, <2>5, <1>e, TwoIsSeq
  <2>a. PICK c, d : c = Len(more) /\ d = Len(tokens)
    OBVIOUS
  <2>7. d = 1 + c /\ c \in Nat
    BY ONLY <2>1, <2>6, <2>a
  <2>8. d >= 2 /\ (n.pass.kind # "draft" => d = 2)
    <3>1. CASE n.pass.kind # "draft"
      <4>1. c = 1
        BY ONLY <2>5, <3>1, <2>a
      <4> QED BY ONLY <2>7, <4>1
    <3>2. CASE n.pass.kind = "draft"
      <4>1. c = 2
        BY ONLY <2>5, <3>2, <2>a
      <4> QED BY ONLY <2>7, <3>2, <4>1
    <3> QED BY <3>1, <3>2
  <2> QED BY ONLY <2>6, <2>8, <2>a
<1>11. Passing(r)
  <2>1. appended \in Nat /\ IsSeq(n.fed)
    BY <1>3, <1>j DEF Rounds, Passing
  <2> QED BY ONLY <1>7, <1>8, <1>10, <2>1 DEF Passing
<1>12. Verified(r)
  <2>1. Fused => Len(r.pass.tokens) = 2
    <3>1. Fused => env.drafts = 1
      BY DEF Fused
    <3>2. n.pass.kind = "draft" => env.drafts = 2
      BY <1>3 DEF Rounds, Drafted
    <3> QED BY ONLY <1>7, <1>8, <1>10, <3>1, <3>2
  <2>2. ASSUME NEW l \in FullLayers PROVE r.full_lengths[l] = r.length[l] /\ r.length[l] \in Nat
    <3>1. l \in Caches
      BY LayerFacts
    <3>2. n.length[l] \in Nat
      BY <1>3, <3>1 DEF Shape, Holds
    <3> QED BY ONLY <1>4, <1>7, <3>2
  <2>3. r.phase # "ready" /\ r.active = TRUE
    BY <1>7
  <2> QED BY ONLY <2>1, <2>2, <2>3 DEF Verified
<1>13. r.round_appended <= r.length[Adapter] /\ r.round_appended <= Len(r.fed)
  <2>1. n.length[Adapter] \in Nat /\ Len(n.fed) \in Nat
    BY <1>3, LayerFacts, SeqFacts DEF Shape, Holds
  <2>2. n.pass.kind = "draft" => n.round_appended = 1 /\ n.length[Adapter] >= 1 /\ Len(n.fed) >= 1
    BY <1>2, <1>3 DEF Rounds, Drafted
  <2>3. appended <= n.length[Adapter] /\ appended <= Len(n.fed)
    BY ONLY <2>1, <2>2, <1>j
  <2> QED BY <1>7, <2>3
<1>14. Rounds(r)
  BY ONLY <1>7, <1>8, <1>11, <1>12, <1>13 DEF Rounds
<1> QED BY <1>1, <1>2, <1>a, <1>6, <1>7, <1>9, <1>14, Turned

(* The end of a round. *)

(* The tokens accepted are drafts: at most all of them. *)
LEMMA AcceptedFacts ==
  ASSUME NEW n, Len(n.pass.tokens) \in Nat, Len(n.pass.tokens) >= 2, Fused => Len(n.pass.tokens) = 2,
         NEW accepted, accepted = AcceptedCount(n), Accepts(accepted)
  PROVE  accepted \in Nat /\ accepted + 1 <= Len(n.pass.tokens)
<1> PICK drafts : drafts = Len(n.pass.tokens) - 1
  OBVIOUS
<1>1. drafts \in Nat /\ Len(n.pass.tokens) = drafts + 1
  <2> PICK k : k = Len(n.pass.tokens)
    OBVIOUS
  <2> QED BY k \in Nat, k >= 2
<1>2. CASE Fused
  <2>1. accepted \in {0, 1} /\ Len(n.pass.tokens) = 2
    BY <1>2 DEF Accepts
  <2> QED BY <2>1
<1>3. CASE ~Fused
  <2> DEFINE Right(r) == Returned(n, r) = n.pass.tokens[r + 1]
             Good(a) == (\A r \in 1..a : Right(r)) /\ (a = drafts \/ Returned(n, a + 1) # n.pass.tokens[a + 2])
             S == {a \in 0 .. drafts : \A r \in 1..a : Right(r)}
  <2>1. accepted = CHOOSE a \in 0..drafts : Good(a)
    BY <1>3 DEF AcceptedCount
  <2>2. \E a \in 0 .. drafts : Good(a)
    <3> HIDE DEF Right
    <3>1. S \in SUBSET Nat /\ 0 \in S /\ \A x \in S : x <= drafts
      BY <1>1
    <3> HIDE DEF S
    <3>2. PICK a \in S : \A x \in S : x <= a
      <4>1. S # {}
        BY <3>1
      <4> QED BY ONLY <1>1, <3>1, <4>1, GreatestElement
    <3>3. a \in 0 .. drafts /\ \A r \in 1..a : Right(r)
      BY DEF S
    <3>4. CASE a = drafts
      BY <3>3, <3>4
    <3>5. CASE a # drafts
      <4>1. a + 1 \in 0 .. drafts /\ a + 1 \notin S /\ a \in Nat
        BY <1>1, <3>2, <3>3, <3>5
      <4>2. PICK r \in 1 .. a + 1 : ~Right(r)
        BY <4>1 DEF S
      <4>3. r = a + 1
        BY <3>3, <4>1, <4>2
      <4>4. Returned(n, a + 1) # n.pass.tokens[a + 2]
        <5>1. r + 1 = a + 2
          BY <4>1, <4>3
        <5> QED BY <4>2, <4>3, <5>1 DEF Right
      <4> QED BY <3>3, <4>4
    <3> QED BY <3>4, <3>5
  <2> HIDE DEF Good
  <2>3. accepted \in 0 .. drafts
    BY <2>1, <2>2
  <2> QED BY <1>1, <2>3
<1> QED BY <1>2, <1>3

(* A round whose states are settled: the adapter's cache is what is left. *)
Settled(n) ==
  /\ Shape(n) /\ n.phase = "ready" /\ n.submitted = FALSE /\ n.active = FALSE /\ IsSeq(n.fed) /\ IsSeq(n.pass.tokens)
  /\ n.round_appended \in Nat /\ n.round_appended <= n.length[Adapter] /\ n.round_appended <= Len(n.fed)

(* The end of a round whose seed is there already. *)
LEMMA FusedRound ==
  ASSUME NEW n, NEW accepted \in Nat, Settled(n), Fused, NEW r, r = AfterRound(n, accepted)
  PROVE  Sound(r) /\ r.submitted = FALSE /\ r.active = FALSE
<1> PICK k, e : k = Pass("accept", n.pass.base, n.pass.tokens, accepted) /\ e = Last(NewPairs(n, accepted))
  OBVIOUS
<1>1. r = [n EXCEPT !.phase = "ready", !.pass = k, !.fed = Append(@, e)]
  BY DEF AfterRound
<1>2. DOMAIN n = LaneFields
  BY DEF Settled, Shape
<1>3. /\ DOMAIN r = LaneFields /\ r.phase = "ready" /\ r.pass = k /\ r.submitted = FALSE /\ r.active = FALSE
      /\ r.mem = n.mem /\ r.length = n.length /\ r.fed = Append(n.fed, e) /\ r.round_appended = n.round_appended
  BY <1>1, <1>2 DEF LaneFields, Settled
<1>4. DOMAIN k = {"kind", "base", "tokens", "accepted"} /\ k.kind = "accept" /\ k.tokens = n.pass.tokens /\ k.accepted = accepted
  BY PassFacts
<1>5. Shape(r)
  BY ONLY <1>3, <1>4, Settled(n) DEF Shape, Settled
<1>6. Passing(r)
  <2>1. IsSeq(Append(n.fed, e))
    BY AppendIsSeq DEF Settled
  <2> QED BY ONLY <1>3, <1>4, <2>1, Settled(n), accepted \in Nat DEF Passing, Settled
<1>7. Rounds(r)
  BY ONLY <1>3, <1>4, <1>6 DEF Rounds
<1>8. Going(r)
  BY <1>3 DEF Going
<1> QED BY <1>3, <1>5, <1>7, <1>8 DEF Sound

(* accept_verified takes back from the adapter what it appended, no more. *)
LEMMA AcceptRound ==
  ASSUME env \in Environments, NEW n, NEW accepted \in Nat, Settled(n), NEW r, r = AcceptVerified(n, accepted)
  PROVE  Sound(r) /\ r.submitted = FALSE /\ r.active = FALSE
<1> PICK k, o, keep, trim, pairs, kept :
       /\ k = Pass("accept", n.pass.base, n.pass.tokens, accepted) /\ o = Runs(n, k)
       /\ keep = KeepAppended(n, accepted) /\ trim = n.round_appended - keep
       /\ pairs = NewPairs(n, accepted) /\ kept = SubSeq(n.fed, 1, Len(n.fed) - trim)
  OBVIOUS
<1>1. r = [o EXCEPT !.length[Adapter] = @ - trim, !.next_position = @ - trim, !.fed = kept \o pairs]
  BY DEF AcceptVerified
<1>2. DOMAIN n = LaneFields /\ DOMAIN n.length = Caches
  BY DEF Settled, Shape
<1>3. /\ DOMAIN o = LaneFields /\ o.phase = "running" /\ o.at = 1 /\ o.pass = k
      /\ o.submitted = FALSE /\ o.active = FALSE /\ o.mem = n.mem /\ o.length = n.length
      /\ o.fed = n.fed /\ o.round_appended = n.round_appended
  BY ONLY <1>2, Settled(n), o = Runs(n, k), RunsFacts DEF Settled
<1>4. /\ DOMAIN r = LaneFields /\ r.phase = "running" /\ r.at = 1 /\ r.pass = k
      /\ r.submitted = FALSE /\ r.active = FALSE /\ r.mem = n.mem /\ r.length = [n.length EXCEPT ![Adapter] = @ - trim]
      /\ r.fed = kept \o pairs
      /\ r.round_appended = n.round_appended
  BY ONLY <1>1, <1>3 DEF LaneFields
<1>5. DOMAIN k = {"kind", "base", "tokens", "accepted"} /\ k.kind = "accept" /\ k.tokens = n.pass.tokens /\ k.accepted = accepted
  BY PassFacts
<1>6. keep \in 0 .. n.round_appended /\ keep <= accepted /\ trim \in 0 .. n.round_appended
  BY DEF KeepAppended, Settled
<1>7. Shape(r)
  <2> PICK c, a : c = n.length[Adapter] /\ a = n.round_appended
    OBVIOUS
  <2>1. \A l \in Caches : Holds(n.mem[Kv(l)], n.length[l])
    BY DEF Settled, Shape
  <2>2. c \in Nat /\ a \in Nat /\ a <= c
    BY <2>1, LayerFacts DEF Holds, Settled
  <2>3. trim \in 0 .. a
    BY <1>6
  <2>4. c - trim \in Nat /\ c - trim <= c
    BY <2>2, <2>3
  <2>5. ASSUME NEW l \in Caches PROVE Holds(r.mem[Kv(l)], r.length[l])
    <3>1. Holds(n.mem[Kv(l)], n.length[l])
      BY <2>1
    <3>2. CASE l = Adapter
      <4>1. r.length[l] = c - trim
        BY ONLY <1>2, <1>4, <3>2, c = n.length[Adapter], LayerFacts
      <4> PICK cells, m : cells = r.mem[Kv(l)] /\ m = Len(cells)
        OBVIOUS
      <4>2. IsSeq(cells) /\ IsCapacity(m) /\ c <= m /\ m \in Nat
        BY <1>4, <3>1, <3>2 DEF Holds, IsCapacity
      <4>3. c - trim <= m
        BY ONLY <2>2, <2>4, <4>2
      <4> QED BY ONLY <2>4, <4>1, <4>2, <4>3, cells = r.mem[Kv(l)], m = Len(cells) DEF Holds
    <3>3. CASE l # Adapter
      <4>1. r.length[l] = n.length[l]
        BY <1>2, <1>4, <3>3
      <4> QED BY <1>4, <3>1, <4>1
    <3> QED BY <3>2, <3>3
  <2>6. DOMAIN r.length = Caches
    BY ONLY <1>2, <1>4
  <2> QED BY ONLY <1>4, <1>5, <2>5, <2>6, Settled(n) DEF Shape, Settled
<1>8. IsSeq(r.fed)
  <2> PICK fed, f, a : fed = n.fed /\ f = Len(n.fed) /\ a = n.round_appended
    OBVIOUS
  <2>1. IsSeq(fed) /\ f \in Nat /\ f = Len(fed) /\ a \in Nat /\ a <= f /\ trim \in 0 .. a
    BY <1>6, SeqFacts DEF Settled
  <2>2. f - trim \in 0 .. Len(fed)
    <3>1. f - trim \in 0 .. f
      BY ONLY <2>1
    <3> QED BY ONLY <2>1, <3>1
  <2>3. IsSeq(SubSeq(fed, 1, f - trim))
    BY ONLY <2>1, <2>2, Beginning DEF BeginsWith
  <2>4. IsSeq(kept)
    BY <2>3
  <2> PICK m : m = accepted + 1 - keep
    OBVIOUS
  <2>5. m \in Nat
    <3>1. keep \in Nat /\ keep <= accepted
      BY <1>6, <2>1
    <3> QED BY <3>1
  <2>6. pairs = [i \in 1 .. m |-> pairs[i]]
    BY DEF NewPairs
  <2>7. IsSeq(pairs)
    BY <2>5, <2>6, FunctionIsSeq
  <2> QED BY <1>4, <2>4, <2>7, TwoIsSeq
<1>9. Passing(r)
  BY ONLY <1>4, <1>5, <1>8, Settled(n), accepted \in Nat DEF Passing, Settled
<1>10. Rounds(r)
  BY ONLY <1>4, <1>5, <1>9 DEF Rounds
<1>11. Going(r)
  BY <1>4, <1>7, <1>10, Begun
<1> QED BY <1>4, <1>7, <1>10, <1>11 DEF Sound

(* The end of a round. *)
LEMMA AfterRoundSound ==
  ASSUME env \in Environments, NEW n, NEW accepted \in Nat, Settled(n), NEW r, r = AfterRound(n, accepted)
  PROVE  Sound(r) /\ r.submitted = FALSE /\ r.active = FALSE
<1>1. CASE Fused
  BY <1>1, FusedRound
<1>2. CASE ~Fused
  BY <1>2, AcceptRound DEF AfterRound
<1> QED BY <1>1, <1>2

(* A memory with other states. *)
LEMMA StatesOnly ==
  ASSUME NEW f, NEW mem, NEW o, o = Over(f, mem), NEW tags, \A b \in DOMAIN f : b[1] \in tags, LaneBuffers \subseteq DOMAIN mem
  PROVE  Restates(mem, o, tags)
BY DEF Over, Restates

(* Active states and others change places. *)
LEMMA SwapRestates ==
  ASSUME NEW mem, NEW which, NEW o, o = Swapped(mem, which), LaneBuffers \subseteq DOMAIN mem, NEW tags, tags = {"active", which}
  PROVE  Restates(mem, o, tags)
<1> DEFINE f == [b \in {StateOf(l, w, part) : l \in LinearLayers, w \in {"active", which}, part \in Parts} |->
                   mem[StateOf(b[2], IF b[1] = "active" THEN which ELSE "active", b[3])]]
<1>1. o = Over(f, mem)
  BY DEF Swapped
<1>2. \A b \in DOMAIN f : b[1] \in tags
  BY StateBuffersFacts
<1> HIDE DEF f
<1> QED BY <1>1, <1>2, StatesOnly

(* Active states as one of the snapshots. *)
LEMMA RestoredRestates ==
  ASSUME NEW n, NEW row, NEW o, o = Restored(n, row), LaneBuffers \subseteq DOMAIN n.mem, NEW tags, tags = {"active", "snapshot"}
  PROVE  Restates(n.mem, o, tags)
<1> PICK mem : mem = n.mem
  OBVIOUS
<1>1. CASE n.kept = 1 /\ row = 0
  <2> PICK which : which = "snapshot"
    OBVIOUS
  <2>1. o = Swapped(mem, which)
    BY <1>1 DEF Restored
  <2> QED BY <2>1, SwapRestates
<1>2. CASE ~(n.kept = 1 /\ row = 0)
  <2> DEFINE f == [b \in {StateOf(l, "active", part) : l \in LinearLayers, part \in Parts} |->
                     SnapshotRow(n.mem[StateOf(b[2], "snapshot", b[3])], row)]
  <2>1. o = Over(f, mem)
    BY <1>2 DEF Restored
  <2>2. \A b \in DOMAIN f : b[1] \in tags
    BY StateBuffersFacts
  <2> HIDE DEF f
  <2> QED BY <2>1, <2>2, StatesOnly
<1> QED BY <1>1, <1>2

(* What the ends of a round have in common. *)
Cut(n, o) == /\ DOMAIN o = Caches /\ o[Adapter] = n.length[Adapter]
             /\ \A l \in Caches : o[l] \in Nat /\ o[l] <= n.length[l]

Ended(n, o, tags) ==
  /\ DOMAIN o = LaneFields /\ o.phase = "ready" /\ o.submitted = FALSE /\ o.active = FALSE
  /\ o.pass = n.pass /\ o.fed = n.fed /\ o.round_appended = n.round_appended
  /\ Restates(n.mem, o.mem, tags) /\ "kv" \notin tags /\ Cut(n, o.length)

(* A round that ended is settled. *)
LEMMA EndedSettled ==
  ASSUME NEW n, NEW o, NEW tags, Shape(n), Passing(n), n.round_appended <= n.length[Adapter], n.round_appended <= Len(n.fed),
         Ended(n, o, tags)
  PROVE  Settled(o)
<1>1. \A l \in Caches : o.mem[Kv(l)] = n.mem[Kv(l)]
  BY RestatesCaches DEF Ended
<1>2. ASSUME NEW l \in Caches PROVE Holds(o.mem[Kv(l)], o.length[l])
  <2> PICK cells, m, a, b : cells = n.mem[Kv(l)] /\ m = Len(cells) /\ a = n.length[l] /\ b = o.length[l]
    OBVIOUS
  <2>1. IsSeq(cells) /\ IsCapacity(m) /\ a \in Nat /\ a <= m /\ m \in Nat
    BY DEF Shape, Holds, IsCapacity
  <2>2. b \in Nat /\ b <= a
    BY DEF Ended, Cut
  <2>3. b <= m
    BY ONLY <2>1, <2>2
  <2> QED BY ONLY <1>1, <2>1, <2>2, <2>3, cells = n.mem[Kv(l)], m = Len(cells), b = o.length[l] DEF Holds
<1>3. Shape(o)
  BY ONLY <1>2, Shape(n), Ended(n, o, tags) DEF Shape, Ended, Cut, Restates
<1> QED BY ONLY <1>3, Ended(n, o, tags), Passing(n), n.round_appended <= n.length[Adapter], n.round_appended <= Len(n.fed) DEF Settled, Ended, Cut, Passing

(* The caches keep the accepted rows only. *)
LEMMA TruncatedCut ==
  ASSUME NEW n, NEW m, NEW rows \in Nat, Shape(n), m.full_lengths = n.full_lengths, m.length = n.length,
         \A l \in FullLayers : n.full_lengths[l] \in Nat /\ n.full_lengths[l] + rows <= n.length[l]
  PROVE  Cut(n, Truncated(m, rows))
<1> PICK o : o = Truncated(m, rows)
  OBVIOUS
<1>1. DOMAIN o = Caches /\ \A l \in Caches : o[l] = IF l \in FullLayers THEN n.full_lengths[l] + rows ELSE n.length[l]
  BY DEF Truncated
<1>2. \A l \in Caches : n.length[l] \in Nat
  BY DEF Shape, Holds
<1>3. ASSUME NEW l \in Caches PROVE o[l] \in Nat /\ o[l] <= n.length[l]
  <2>1. CASE l \in FullLayers
    <3>1. o[l] = n.full_lengths[l] + rows /\ n.full_lengths[l] \in Nat /\ n.full_lengths[l] + rows <= n.length[l]
      BY <1>1, <2>1
    <3> QED BY <3>1
  <2>2. CASE l \notin FullLayers
    <3>1. o[l] = n.length[l]
      BY <1>1, <2>2
    <3> QED BY <1>2, <3>1
  <2> QED BY <2>1, <2>2
<1> QED BY <1>1, <1>3, LayerFacts DEF Cut

(* A verification whose outcome is known. *)
Decided(n) == Shape(n) /\ Passing(n) /\ n.phase = "ready" /\ n.submitted = FALSE /\ n.pass.kind = "verify"
              /\ n.round_appended <= n.length[Adapter] /\ n.round_appended <= Len(n.fed)
              /\ \A l \in FullLayers : n.full_lengths[l] \in Nat /\ n.full_lengths[l] + 0 <= n.length[l]

(* Every row is accepted. *)
LEMMA CommitSettled ==
  ASSUME NEW n, NEW history, Decided(n), NEW m, m = [n EXCEPT !.history = history]
  PROVE  Settled(CommitSpeculation(m))
<1> PICK which, tags, o : which = "shadow" /\ tags = {"active", which} /\ o = CommitSpeculation(m)
  OBVIOUS
<1>1. DOMAIN n = LaneFields /\ LaneBuffers \subseteq DOMAIN n.mem /\ \A l \in Caches : n.length[l] \in Nat
  BY DEF Decided, Shape, Holds
<1>2. /\ DOMAIN m = LaneFields /\ m.mem = n.mem /\ m.length = n.length /\ m.phase = n.phase /\ m.submitted = n.submitted
      /\ m.pass = n.pass /\ m.fed = n.fed /\ m.round_appended = n.round_appended
  BY ONLY <1>1, m = [n EXCEPT !.history = history] DEF LaneFields
<1> PICK mem : mem = Swapped(n.mem, which)
  OBVIOUS
<1>3. o = [m EXCEPT !.mem = mem, !.active = FALSE]
  BY <1>2 DEF CommitSpeculation, LaneFields
<1>4. /\ DOMAIN o = LaneFields /\ o.mem = mem /\ o.length = n.length /\ o.phase = n.phase /\ o.submitted = n.submitted
      /\ o.pass = n.pass /\ o.fed = n.fed /\ o.round_appended = n.round_appended /\ o.active = FALSE
  BY ONLY <1>2, <1>3 DEF LaneFields
<1>5. Restates(n.mem, mem, tags) /\ "kv" \notin tags
  BY <1>1, SwapRestates
<1>6. Cut(n, n.length)
  BY <1>1 DEF Cut, Decided, Shape
<1>7. Ended(n, o, tags)
  BY ONLY <1>4, <1>5, <1>6, Decided(n) DEF Ended, Decided
<1> QED BY <1>7, EndedSettled DEF Decided

(* The first rows are accepted. *)
LEMMA PrefixSettled ==
  ASSUME NEW n, NEW history, Decided(n), NEW m, m = [n EXCEPT !.history = history], NEW rows \in Nat,
         \A l \in FullLayers : n.full_lengths[l] \in Nat /\ n.full_lengths[l] + rows <= n.length[l]
  PROVE  Settled(CommitPrefix(m, rows))
<1> PICK tags, o : tags = {"active", "snapshot"} /\ o = CommitPrefix(m, rows)
  OBVIOUS
<1>1. DOMAIN n = LaneFields /\ LaneBuffers \subseteq DOMAIN n.mem
  BY DEF Decided, Shape
<1>2. /\ DOMAIN m = LaneFields /\ m.mem = n.mem /\ m.length = n.length /\ m.phase = n.phase /\ m.submitted = n.submitted
      /\ m.pass = n.pass /\ m.fed = n.fed /\ m.round_appended = n.round_appended /\ m.full_lengths = n.full_lengths
  BY ONLY <1>1, m = [n EXCEPT !.history = history] DEF LaneFields
<1> PICK mem, row, length : row = rows - 1 /\ mem = Restored(m, row) /\ length = Truncated(m, rows)
  OBVIOUS
<1>3. o = [m EXCEPT !.mem = mem, !.length = length, !.active = FALSE]
  BY DEF CommitPrefix
<1>4. /\ DOMAIN o = LaneFields /\ o.mem = mem /\ o.length = length /\ o.phase = n.phase /\ o.submitted = n.submitted
      /\ o.pass = n.pass /\ o.fed = n.fed /\ o.round_appended = n.round_appended /\ o.active = FALSE
  BY ONLY <1>2, <1>3 DEF LaneFields
<1>5. Restates(n.mem, mem, tags) /\ "kv" \notin tags
  <2>1. LaneBuffers \subseteq DOMAIN m.mem
    BY <1>1, <1>2
  <2>2. Restates(m.mem, mem, tags)
    BY ONLY <2>1, mem = Restored(m, row), tags = {"active", "snapshot"}, RestoredRestates
  <2> QED BY <1>2, <2>2
<1>6. Cut(n, length)
  BY <1>2, TruncatedCut DEF Decided
<1>7. Ended(n, o, tags)
  BY ONLY <1>4, <1>5, <1>6, Decided(n) DEF Ended, Decided
<1> QED BY <1>7, EndedSettled DEF Decided

(* The caches are cut back and the accepted tokens run again. *)
LEMMA RollBackSettled ==
  ASSUME NEW n, NEW history, Decided(n), NEW m, m = [n EXCEPT !.history = history]
  PROVE  Settled(RollBack(m)) /\ RollBack(m).pass = n.pass
<1> PICK tags, o, zero : tags = {"active"} /\ zero = 0 /\ o = RollBack(m)
  OBVIOUS
<1>1. DOMAIN n = LaneFields /\ LaneBuffers \subseteq DOMAIN n.mem
  BY DEF Decided, Shape
<1>2. /\ DOMAIN m = LaneFields /\ m.mem = n.mem /\ m.length = n.length /\ m.phase = n.phase /\ m.submitted = n.submitted
      /\ m.pass = n.pass /\ m.fed = n.fed /\ m.round_appended = n.round_appended /\ m.full_lengths = n.full_lengths
  BY ONLY <1>1, m = [n EXCEPT !.history = history] DEF LaneFields
<1> PICK length : length = Truncated(m, zero)
  OBVIOUS
<1>3. o = [m EXCEPT !.length = length, !.active = FALSE]
  BY DEF RollBack
<1>4. /\ DOMAIN o = LaneFields /\ o.mem = n.mem /\ o.length = length /\ o.phase = n.phase /\ o.submitted = n.submitted
      /\ o.pass = n.pass /\ o.fed = n.fed /\ o.round_appended = n.round_appended /\ o.active = FALSE
  BY ONLY <1>2, <1>3 DEF LaneFields
<1>5. Restates(n.mem, o.mem, tags) /\ "kv" \notin tags
  BY <1>1, <1>4 DEF Restates
<1>6. Cut(n, length)
  BY <1>2, TruncatedCut DEF Decided
<1>7. Ended(n, o, tags)
  BY ONLY <1>4, <1>5, <1>6, Decided(n) DEF Ended, Decided
<1> QED BY <1>4, <1>7, EndedSettled DEF Decided

(* A rejected round runs its accepted tokens again. *)
LEMMA ReplayBegins ==
  ASSUME NEW n, Settled(n), n.pass.kind = "verify", DOMAIN n.pass = {"kind", "base", "tokens", "accepted"}, NEW accepted \in Nat,
         NEW r, r = Runs(n, [n.pass EXCEPT !.kind = "replay", !.accepted = accepted])
  PROVE  /\ Shape(r) /\ Rounds(r) /\ r.submitted = FALSE /\ r.active = FALSE /\ r.phase = "running" /\ r.at = 1
<1> PICK k : k = [n.pass EXCEPT !.kind = "replay", !.accepted = accepted]
  OBVIOUS
<1>1. DOMAIN k = {"kind", "base", "tokens", "accepted"} /\ k.kind = "replay" /\ k.tokens = n.pass.tokens /\ k.accepted = accepted
  OBVIOUS
<1>2. DOMAIN n = LaneFields
  BY DEF Settled, Shape
<1>3. /\ DOMAIN r = LaneFields /\ r.phase = "running" /\ r.at = 1 /\ r.pass = k
      /\ r.submitted = FALSE /\ r.active = FALSE /\ r.mem = n.mem /\ r.length = n.length
      /\ r.fed = n.fed /\ r.round_appended = n.round_appended
  <2>1. r = Runs(n, k)
    OBVIOUS
  <2> QED BY ONLY <1>2, <2>1, Settled(n), RunsFacts DEF Settled
<1>4. Shape(r)
  BY ONLY <1>1, <1>3, Settled(n) DEF Shape, Settled
<1>5. Passing(r)
  BY ONLY <1>1, <1>3, Settled(n), accepted \in Nat DEF Passing, Settled
<1>6. Rounds(r)
  BY ONLY <1>1, <1>3, <1>5, Settled(n) DEF Rounds, Settled
<1> QED BY <1>3, <1>4, <1>6

(* A verification's outcome. *)
LEMMA SettleStep ==
  ASSUME RuntimeInv, NEW p \in Lanes, Settle(p)
  PROVE  RuntimeInv'
<1> PICK n, kinds, accepted, history : n = lane[p] /\ kinds = {"verify"} /\ accepted = AcceptedCount(n)
                                       /\ history = TokenContext(n, accepted + 1)
  OBVIOUS
<1> PICK m : m = [n EXCEPT !.history = history]
  OBVIOUS
<1>1. env' = env /\ holder' = holder /\ Ready(p, kinds) /\ Accepts(accepted)
  BY DEF Settle
<1>2. n.submitted = FALSE /\ Sound(n) /\ n.pass.kind = "verify" /\ n.phase = "ready" /\ env \in Environments
  <2>1. n.submitted = FALSE /\ Sound(n) /\ n.pass.kind \in kinds /\ n.phase = "ready" /\ env \in Environments
    BY <1>1, AtRest
  <2> QED BY <2>1
<1>3. Shape(n) /\ Rounds(n) /\ Passing(n) /\ Verified(n)
  BY <1>2 DEF Sound, Rounds
<1>4. accepted \in Nat /\ accepted + 1 <= Len(n.pass.tokens) /\ IsSeq(n.pass.tokens)
  <2>1. IsSeq(n.pass.tokens) /\ Len(n.pass.tokens) >= 2 /\ (Fused => Len(n.pass.tokens) = 2)
    BY <1>2, <1>3 DEF Passing, Verified
  <2>2. Len(n.pass.tokens) \in Nat
    BY <2>1, SeqFacts
  <2> QED BY <1>1, <2>1, <2>2, AcceptedFacts
<1>5. \A l \in FullLayers : /\ n.full_lengths[l] \in Nat /\ n.full_lengths[l] <= n.length[l]
                            /\ env.verify = "graph" => n.full_lengths[l] + Len(n.pass.tokens) <= n.length[l]
  BY <1>2, <1>3 DEF Verified
<1>6. \A l \in Caches : n.length[l] \in Nat
  BY <1>3 DEF Shape, Holds
<1>7. Decided(n)
  <2>1. n.round_appended <= n.length[Adapter] /\ n.round_appended <= Len(n.fed)
    BY <1>2, <1>3 DEF Rounds
  <2>2. \A l \in FullLayers : n.full_lengths[l] \in Nat /\ n.full_lengths[l] + 0 <= n.length[l]
    BY <1>5
  <2> QED BY <1>2, <1>3, <2>1, <2>2 DEF Decided
<1> PICK r : r = IF accepted = Len(n.pass.tokens) - 1 THEN AfterRound(CommitSpeculation(m), accepted)
                 ELSE IF env.verify = "graph" /\ n.kept > 0
                      THEN AfterRound(CommitPrefix(m, accepted + 1), accepted)
                      ELSE Runs(RollBack(m), [n.pass EXCEPT !.kind = "replay", !.accepted = accepted])
  OBVIOUS
<1>8. lane' = [lane EXCEPT ![p] = r]
  BY DEF Settle
<1>9. CASE accepted = Len(n.pass.tokens) - 1
  <2> PICK o : o = CommitSpeculation(m)
    OBVIOUS
  <2>1. r = AfterRound(o, accepted)
    BY <1>9
  <2>2. Settled(o)
    BY <1>7, CommitSettled
  <2>3. Sound(r) /\ r.submitted = FALSE /\ r.active = FALSE
    BY ONLY <1>2, <1>4, <2>1, <2>2, AfterRoundSound
  <2> QED BY <1>1, <1>2, <1>8, <2>3, Replaced
<1>10. CASE accepted # Len(n.pass.tokens) - 1 /\ env.verify = "graph" /\ n.kept > 0
  <2> PICK rows, o : rows = accepted + 1 /\ o = CommitPrefix(m, rows)
    OBVIOUS
  <2>1. r = AfterRound(o, accepted)
    BY <1>10
  <2>2. ASSUME NEW l \in FullLayers PROVE n.full_lengths[l] \in Nat /\ n.full_lengths[l] + rows <= n.length[l]
    <3> PICK a, b, c : a = n.full_lengths[l] /\ b = n.length[l] /\ c = Len(n.pass.tokens)
      OBVIOUS
    <3>1. a \in Nat /\ a + c <= b
      BY <1>5, <1>10
    <3>2. b \in Nat /\ c \in Nat /\ rows \in Nat /\ rows <= c
      BY <1>4, <1>6, SeqFacts, LayerFacts, SMTT(30)
    <3> QED BY <3>1, <3>2
  <2>3. rows \in Nat
    BY <1>4
  <2>4. Settled(o)
    BY <1>7, <2>2, <2>3, PrefixSettled
  <2>5. Sound(r) /\ r.submitted = FALSE /\ r.active = FALSE
    BY ONLY <1>2, <1>4, <2>1, <2>4, AfterRoundSound
  <2> QED BY <1>1, <1>2, <1>8, <2>5, Replaced
<1>11. CASE accepted # Len(n.pass.tokens) - 1 /\ ~(env.verify = "graph" /\ n.kept > 0)
  <2> PICK o : o = RollBack(m)
    OBVIOUS
  <2>1. Settled(o) /\ o.pass = n.pass
    BY <1>7, RollBackSettled
  <2>2. r = Runs(o, [o.pass EXCEPT !.kind = "replay", !.accepted = accepted])
    BY <1>11, <2>1
  <2>3. DOMAIN o.pass = {"kind", "base", "tokens", "accepted"} /\ o.pass.kind = "verify"
    BY <1>2, <1>3, <2>1 DEF Shape
  <2>4. Shape(r) /\ Rounds(r) /\ r.submitted = FALSE /\ r.active = FALSE /\ r.phase = "running" /\ r.at = 1
    BY ONLY <1>4, <2>1, <2>2, <2>3, ReplayBegins
  <2> QED BY <1>1, <1>2, <1>8, <2>4, Turned
<1> QED BY <1>9, <1>10, <1>11

(* The accepted tokens have run. *)
LEMMA ReplayedStep ==
  ASSUME RuntimeInv, NEW p \in Lanes, Replayed(p)
  PROVE  RuntimeInv'
<1> PICK n, kinds, accepted, r : n = lane[p] /\ kinds = {"replay"} /\ accepted = n.pass.accepted /\ r = AfterRound(n, accepted)
  OBVIOUS
<1>1. env' = env /\ holder' = holder /\ Ready(p, kinds) /\ lane' = [lane EXCEPT ![p] = r]
  BY DEF Replayed
<1>2. n.submitted = FALSE /\ Sound(n) /\ n.pass.kind = "replay" /\ n.phase = "ready" /\ env \in Environments
  <2>1. n.submitted = FALSE /\ Sound(n) /\ n.pass.kind \in kinds /\ n.phase = "ready" /\ env \in Environments
    BY <1>1, AtRest
  <2> QED BY <2>1
<1>3. Shape(n) /\ Rounds(n) /\ Passing(n) /\ n.active = FALSE
  BY <1>2 DEF Sound, Rounds
<1>4. Settled(n) /\ accepted \in Nat
  BY <1>2, <1>3 DEF Settled, Rounds, Passing
<1>5. Sound(r) /\ r.submitted = FALSE /\ r.active = FALSE
  BY ONLY <1>2, <1>4, r = AfterRound(n, accepted), AfterRoundSound
<1> QED BY <1>1, <1>2, <1>5, Replaced

-----------------------------------------------------------------------------
(* The calls of a pass as they run.                                         *)

(* The memory of a lane after a call that wrote to the owners T. *)
Ran(n, mem, T) ==
  /\ DOMAIN mem = LaneBuffers
  /\ \A l \in Caches : /\ Holds(mem[Kv(l)], n.length[l]) /\ SameFirst(n.mem[Kv(l)], mem[Kv(l)], n.length[l])
                       /\ Len(mem[Kv(l)]) >= Len(n.mem[Kv(l)])
  /\ \A b \in LaneBuffers : b[1] \notin T \cup {"kv"} => mem[b] = n.mem[b]

(* Orderly kernels run. *)
LEMMA RunKeeps ==
  ASSUME CapacityAssumption, NEW n, Shape(n), NEW others, NEW ks, NEW x, x.length = n.length, Sensible(x), Orderly(ks, x, {}),
         NEW mem, mem = Part(LaneBuffers, RunAll(Over(n.mem, others), ks))
  PROVE  /\ Ran(n, mem, x.owners)
         /\ \A l \in Caches : \A required \in Nat : Reserves(ks, l, x, required) => Len(mem[Kv(l)]) >= required
<1> PICK from, to, none : from = Over(n.mem, others) /\ to = RunAll(from, ks) /\ none = {}
  OBVIOUS
<1>1. LaneBuffers \subseteq DOMAIN n.mem /\ \A l \in Caches : Holds(n.mem[Kv(l)], n.length[l])
  BY DEF Shape
<1>2. LaneBuffers \subseteq DOMAIN from /\ \A b \in LaneBuffers : from[b] = n.mem[b]
  BY ONLY <1>1, from = Over(n.mem, others) DEF Over
<1>3. CachesHold(from, x)
  BY <1>1, <1>2, CacheBuffers DEF CachesHold
<1>4. /\ After(from, to, x)
      /\ \A l \in Caches, required \in Nat : Reserves(ks, l, x, required) => Len(to[Kv(l)]) >= required
  <2>1. Orderly(ks, x, none) /\ \A l \in none : Len(from[Kv(l)]) >= x.length[l] + x.new[l]
    OBVIOUS
  <2> QED BY ONLY CapacityAssumption, Sensible(x), <1>3, <2>1, to = RunAll(from, ks), OrderlyRuns
<1>5. DOMAIN mem = LaneBuffers /\ \A b \in LaneBuffers : mem[b] = to[b]
  BY DEF Part
<1>6. \A l \in Caches : mem[Kv(l)] = to[Kv(l)] /\ from[Kv(l)] = n.mem[Kv(l)]
  BY <1>2, <1>5, CacheBuffers
<1>7. \A b \in LaneBuffers : b[1] \notin x.owners \cup {"kv"} => mem[b] = n.mem[b]
  BY <1>2, <1>4, <1>5 DEF After, Leaves
<1>8. \A l \in Caches : /\ Holds(mem[Kv(l)], n.length[l]) /\ SameFirst(n.mem[Kv(l)], mem[Kv(l)], n.length[l])
                        /\ Len(mem[Kv(l)]) >= Len(n.mem[Kv(l)])
  BY <1>4, <1>6 DEF After, CachesHold
<1> QED BY <1>4, <1>5, <1>6, <1>7, <1>8 DEF Ran

(* The call a running lane is at. *)
AtCall(n, call, last) ==
  /\ env \in Environments /\ Sound(n) /\ n.phase = "running"
  /\ call = Current(n) /\ (last <=> n.at = Len(Calls(n)))

(* It is well made. *)
LEMMA CurrentMade ==
  ASSUME NEW n, NEW call, NEW last, AtCall(n, call, last)
  PROVE  /\ WellMade(call, Between(n.pass.kind, n.length, n.length), n.length)
         /\ n.at \in 1 .. Len(Calls(n)) /\ Len(Calls(n)) \in Nat /\ Lengths(n.length)
         /\ IsSeq(Calls(n))
<1> PICK y : y = Between(n.pass.kind, n.length, n.length)
  OBVIOUS
<1>1. Sound(n) /\ Shape(n) /\ Rounds(n) /\ n.at \in 1 .. Len(Calls(n))
  BY DEF AtCall, Sound, Going
<1>2. Lengths(n.length)
  BY <1>1 DEF Shape, Holds, Lengths
<1>3. Continues(n, n) /\ Passing(n)
  BY <1>1 DEF Continues, Rounds
<1>4. MadeAll(Calls(n), Calls(n), y)
  BY <1>2, <1>3, EnvFacts, CallsMade DEF AtCall
<1>5. y.from = n.length
  BY DEF Between
<1>6. WellMade(call, y, n.length)
  BY <1>1, <1>4, <1>5 DEF MadeAll, Made, AtCall, Current
<1>7. IsSeq(Calls(n)) /\ Len(Calls(n)) \in Nat
  BY <1>4, SeqFacts DEF MadeAll
<1> QED BY <1>1, <1>2, <1>6, <1>7

Touched(n, call) == Owners(n.pass.kind) \cup {call.pool}

(* What it may do, in the terms of the kernels. *)
LEMMA EffectSensible ==
  ASSUME NEW n, NEW call, NEW last, AtCall(n, call, last), NEW x, x = Effect(call, Owners(n.pass.kind), n.length)
  PROVE  /\ Sensible(x) /\ x.length = n.length /\ x.new = call.appends /\ x.owners = Touched(n, call)
         /\ Orderly(call.work, x, {}) /\ Orderly(call.back, Quiet({"host"}, n.length), {}) /\ "host" \in x.owners
         /\ DOMAIN call.appends \subseteq Caches
         /\ n.pass.kind = "prompt" => Adapter \notin DOMAIN call.appends
         /\ \A l \in DOMAIN call.appends : call.appends[l] \in Nat /\ Reserves(call.work, l, x, n.length[l] + call.appends[l])
<1> PICK y : y = Between(n.pass.kind, n.length, n.length)
  OBVIOUS
<1>1. WellMade(call, y, n.length) /\ Lengths(n.length)
  BY CurrentMade
<1>2. y.owners = Owners(n.pass.kind) /\ y.may = May(n.pass.kind)
  BY DEF Between
<1>3. x = Effect(call, y.owners, n.length)
  BY <1>2
<1>4. /\ call.pool \in Pools \cup {"none"} /\ DOMAIN call.appends \subseteq y.may
      /\ \A l \in DOMAIN call.appends : call.appends[l] \in Nat /\ Reserves(call.work, l, x, n.length[l] + call.appends[l])
      /\ Orderly(call.work, x, {}) /\ Orderly(call.back, Quiet({"host"}, n.length), {})
  BY <1>1, <1>3, Zenon DEF WellMade
<1>5. x.owners = Touched(n, call) /\ x.length = n.length /\ x.new = call.appends
  BY DEF Effect, Touched
<1>6. "kv" \notin x.owners /\ "host" \in x.owners
  BY <1>4, <1>5 DEF Touched, Owners, Pools
<1>7. DOMAIN call.appends \subseteq Caches /\ (n.pass.kind = "prompt" => Adapter \notin DOMAIN call.appends)
  BY <1>2, <1>4, LayerFacts DEF May
<1>8. Sensible(x)
  BY <1>1, <1>4, <1>5, <1>6, <1>7 DEF Sensible, Lengths
<1> QED BY <1>4, <1>5, <1>6, <1>7, <1>8

Room(n, call, mem) == \A l \in DOMAIN call.appends : n.length[l] + call.appends[l] <= Len(mem[Kv(l)])

(* A call's work, and all of a graph. *)
LEMMA WorkRuns ==
  ASSUME NEW n, NEW call, NEW last, AtCall(n, call, last), NEW others, NEW ks, ks = call.work \/ ks = call.work \o call.back,
         NEW mem, mem = Part(LaneBuffers, RunAll(Over(n.mem, others), ks))
  PROVE  Ran(n, mem, Touched(n, call)) /\ Room(n, call, mem)
<1> PICK x, T, lengths, work, back, none :
        /\ x = Effect(call, Owners(n.pass.kind), n.length) /\ T = {"host"} /\ lengths = n.length
        /\ work = call.work /\ back = call.back /\ none = {}
  OBVIOUS
<1>1. /\ Sensible(x) /\ x.length = n.length /\ x.new = call.appends /\ x.owners = Touched(n, call)
      /\ Orderly(work, x, none) /\ Orderly(back, Quiet(T, lengths), {}) /\ T \subseteq x.owners /\ x.length = lengths
      /\ DOMAIN call.appends \subseteq Caches
      /\ \A l \in DOMAIN call.appends : call.appends[l] \in Nat /\ Reserves(work, l, x, n.length[l] + call.appends[l])
  BY EffectSensible
<1>2. Orderly(back, x, none)
  BY ONLY <1>1, OrderlyMore
<1>3. Orderly(work \o back, x, none)
  BY ONLY <1>1, <1>2, OrderlyBoth
<1>4. Orderly(ks, x, {})
  BY <1>1, <1>3
<1>5. CapacityAssumption /\ Shape(n) /\ \A l \in Caches : n.length[l] \in Nat
  BY EnvFacts DEF AtCall, Sound, Shape, Holds
<1>6. /\ Ran(n, mem, x.owners)
      /\ \A l \in Caches : \A required \in Nat : Reserves(ks, l, x, required) => Len(mem[Kv(l)]) >= required
  BY ONLY <1>1, <1>4, <1>5, mem = Part(LaneBuffers, RunAll(Over(n.mem, others), ks)), RunKeeps
<1>7. ASSUME NEW l \in DOMAIN call.appends PROVE n.length[l] + call.appends[l] <= Len(mem[Kv(l)])
  <2> PICK required : required = n.length[l] + call.appends[l]
    OBVIOUS
  <2>1. l \in Caches /\ required \in Nat
    BY <1>1, <1>5
  <2>2. IsSeq(work) /\ IsSeq(back) /\ Reserves(work, l, x, required)
    BY <1>1, <1>2 DEF Orderly
  <2>3. Reserves(work \o back, l, x, required)
    BY ONLY <2>2, ReservesConcat
  <2>4. Reserves(ks, l, x, required)
    BY <2>2, <2>3
  <2>5. Len(mem[Kv(l)]) >= required
    BY <1>6, <2>1, <2>4
  <2>6. IsCapacity(Len(mem[Kv(l)]))
    BY <1>6, <2>1 DEF Ran, Holds
  <2> PICK c : c = Len(mem[Kv(l)])
    OBVIOUS
  <2>7. c >= required /\ c \in Nat
    BY <2>5, <2>6 DEF IsCapacity
  <2> QED BY <2>1, <2>7
<1> QED BY <1>1, <1>6, <1>7 DEF Room

(* What a call copies out goes to the request's own vectors. *)
LEMMA BackRuns ==
  ASSUME NEW n, NEW call, NEW last, AtCall(n, call, last), NEW others,
         NEW mem, mem = Part(LaneBuffers, RunAll(Over(n.mem, others), call.back))
  PROVE  Ran(n, mem, {"host"})
<1> PICK T, x, ks : T = {"host"} /\ x = Quiet(T, n.length) /\ ks = call.back
  OBVIOUS
<1>1. x.length = n.length /\ x.owners = T /\ DOMAIN x.new = {}
  BY DEF Quiet, NoAppend
<1>2. Orderly(ks, x, {})
  BY EffectSensible
<1>3. CapacityAssumption /\ Shape(n) /\ \A l \in Caches : n.length[l] \in Nat
  BY EnvFacts DEF AtCall, Sound, Shape, Holds
<1>4. Sensible(x)
  BY ONLY <1>1, <1>3, T = {"host"} DEF Sensible
<1>5. Ran(n, mem, x.owners)
  BY ONLY <1>1, <1>2, <1>3, <1>4, mem = Part(LaneBuffers, RunAll(Over(n.mem, others), call.back)), ks = call.back, RunKeeps
<1> QED BY <1>1, <1>5

(* A lane whose call has ended. *)
Longer(n, call, length) ==
  /\ DOMAIN length = Caches
  /\ \A l \in Caches : length[l] = n.length[l] + (IF l \in DOMAIN call.appends THEN call.appends[l] ELSE 0)

Ends(n, call, last, mem, o) ==
  /\ DOMAIN o = LaneFields /\ o.mem = mem /\ Longer(n, call, o.length) /\ o.submitted = FALSE
  /\ o.at = (IF last THEN 1 ELSE n.at + 1) /\ o.phase = (IF last THEN "ready" ELSE n.phase)
  /\ o.batch = (IF n.pass.kind = "verify" /\ env.verify = "graph" THEN Len(n.pass.tokens) ELSE n.batch)
  /\ o.next_position = n.next_position + (IF Adapter \in DOMAIN call.appends THEN call.appends[Adapter] ELSE 0)
  /\ o.pass = n.pass /\ o.fed = n.fed /\ o.kept = n.kept /\ o.round_appended = n.round_appended
  /\ o.history = n.history /\ o.active = n.active /\ o.full_lengths = n.full_lengths

(* The fields of a lane whose call has ended. *)
LEMMA CompletedIs ==
  ASSUME NEW n, NEW call, NEW last, NEW mem, DOMAIN n = LaneFields, NEW o, o = [Completed(n, call, last) EXCEPT !.mem = mem]
  PROVE  Ends(n, call, last, mem, o)
<1> DEFINE new(l) == IF l \in DOMAIN call.appends THEN call.appends[l] ELSE 0
<1> PICK length, at, phase, batch, position :
       /\ length = [l \in Caches |-> n.length[l] + new(l)] /\ at = (IF last THEN 1 ELSE n.at + 1)
       /\ phase = (IF last THEN "ready" ELSE n.phase)
       /\ batch = (IF n.pass.kind = "verify" /\ env.verify = "graph" THEN Len(n.pass.tokens) ELSE n.batch)
       /\ position = n.next_position + new(Adapter)
  OBVIOUS
<1> PICK m : m = [n EXCEPT !.length = length, !.next_position = position, !.submitted = FALSE, !.at = at, !.phase = phase, !.batch = batch]
  OBVIOUS
<1>1. m = Completed(n, call, last)
  BY DEF Completed, LaneFields
<1>2. o = [m EXCEPT !.mem = mem]
  BY <1>1
<1>3. /\ DOMAIN m = LaneFields /\ m.length = length /\ m.submitted = FALSE
      /\ m.at = at /\ m.phase = phase /\ m.batch = batch /\ m.next_position = position
      /\ m.pass = n.pass /\ m.fed = n.fed /\ m.kept = n.kept /\ m.round_appended = n.round_appended
      /\ m.history = n.history /\ m.active = n.active /\ m.full_lengths = n.full_lengths
  BY ONLY DOMAIN n = LaneFields, m = [n EXCEPT !.length = length, !.next_position = position, !.submitted = FALSE, !.at = at, !.phase = phase, !.batch = batch] DEF LaneFields
<1>4. /\ DOMAIN o = LaneFields /\ o.mem = mem /\ o.length = length /\ o.submitted = FALSE
      /\ o.at = at /\ o.phase = phase /\ o.batch = batch /\ o.next_position = position
      /\ o.pass = n.pass /\ o.fed = n.fed /\ o.kept = n.kept /\ o.round_appended = n.round_appended
      /\ o.history = n.history /\ o.active = n.active /\ o.full_lengths = n.full_lengths
  BY ONLY <1>2, <1>3 DEF LaneFields
<1>5. Longer(n, call, length)
  BY DEF Longer
<1> HIDE DEF new
<1>6. position = n.next_position + (IF Adapter \in DOMAIN call.appends THEN call.appends[Adapter] ELSE 0)
  BY DEF new
<1> QED BY ONLY <1>4, <1>5, <1>6, at = (IF last THEN 1 ELSE n.at + 1), phase = (IF last THEN "ready" ELSE n.phase),
                batch = (IF n.pass.kind = "verify" /\ env.verify = "graph" THEN Len(n.pass.tokens) ELSE n.batch) DEF Ends

(* The lengths of its caches. *)
LEMMA LongerFacts ==
  ASSUME NEW n, NEW call, NEW length, Longer(n, call, length), \A l \in Caches : n.length[l] \in Nat,
         \A l \in DOMAIN call.appends : call.appends[l] \in Nat
  PROVE  /\ \A l \in Caches : length[l] \in Nat /\ n.length[l] <= length[l]
         /\ \A l \in Caches : l \in DOMAIN call.appends => length[l] = n.length[l] + call.appends[l]
         /\ \A l \in Caches : l \notin DOMAIN call.appends => length[l] = n.length[l]
<1>1. ASSUME NEW l \in Caches
      PROVE  /\ length[l] \in Nat /\ n.length[l] <= length[l]
             /\ l \in DOMAIN call.appends => length[l] = n.length[l] + call.appends[l]
             /\ l \notin DOMAIN call.appends => length[l] = n.length[l]
  <2>1. n.length[l] \in Nat
    OBVIOUS
  <2>2. CASE l \in DOMAIN call.appends
    <3>1. length[l] = n.length[l] + call.appends[l] /\ call.appends[l] \in Nat
      BY <2>2 DEF Longer
    <3> QED BY <2>1, <2>2, <3>1
  <2>3. CASE l \notin DOMAIN call.appends
    <3>1. length[l] = n.length[l] + 0
      BY <2>3 DEF Longer
    <3> QED BY <2>1, <2>3, <3>1
  <2> QED BY <2>2, <2>3
<1> QED BY <1>1

(* Its caches hold what their lengths say. *)
LEMMA CompletedShape ==
  ASSUME NEW n, NEW call, NEW last, AtCall(n, call, last), NEW mem, NEW T, Ran(n, mem, T), Room(n, call, mem),
         NEW o, Ends(n, call, last, mem, o)
  PROVE  Shape(o)
<1>1. \A l \in Caches : Holds(mem[Kv(l)], n.length[l])
  BY DEF Ran
<1>2. \A l \in Caches : n.length[l] \in Nat
  BY <1>1 DEF Holds
<1>3. \A l \in DOMAIN call.appends : call.appends[l] \in Nat
  <2> PICK x : x = Effect(call, Owners(n.pass.kind), n.length)
    OBVIOUS
  <2> QED BY EffectSensible
<1>4. /\ \A l \in Caches : o.length[l] \in Nat /\ n.length[l] <= o.length[l]
      /\ \A l \in Caches : l \in DOMAIN call.appends => o.length[l] = n.length[l] + call.appends[l]
      /\ \A l \in Caches : l \notin DOMAIN call.appends => o.length[l] = n.length[l]
  <2> PICK length : length = o.length
    OBVIOUS
  <2>1. Longer(n, call, length)
    BY DEF Ends
  <2> QED BY <1>2, <1>3, <2>1, LongerFacts
<1>5. ASSUME NEW l \in Caches PROVE Holds(o.mem[Kv(l)], o.length[l])
  <2>1. o.mem = mem
    BY DEF Ends
  <2>2. o.length[l] <= Len(mem[Kv(l)])
    BY <1>1, <1>4 DEF Room, Holds
  <2> QED BY <1>1, <1>4, <2>1, <2>2 DEF Holds
<1>6. DOMAIN n.pass = {"kind", "base", "tokens", "accepted"}
  BY DEF AtCall, Sound, Shape
<1> QED BY ONLY <1>5, <1>6, Ends(n, call, last, mem, o), Ran(n, mem, T) DEF Shape, Ends, Longer, Ran

(* What a call's end does to the lengths. *)
LEMMA CompletedLengths ==
  ASSUME NEW n, NEW call, NEW last, AtCall(n, call, last), NEW mem, NEW o, Ends(n, call, last, mem, o)
  PROVE  /\ \A l \in Caches : o.length[l] \in Nat /\ n.length[l] \in Nat /\ n.length[l] <= o.length[l]
         /\ \A l \in Caches : l \in DOMAIN call.appends => o.length[l] = n.length[l] + call.appends[l]
         /\ \A l \in Caches : l \notin DOMAIN call.appends => o.length[l] = n.length[l]
<1> PICK x, length : x = Effect(call, Owners(n.pass.kind), n.length) /\ length = o.length
  OBVIOUS
<1>1. \A l \in Caches : n.length[l] \in Nat
  BY DEF AtCall, Sound, Shape, Holds
<1>2. \A l \in DOMAIN call.appends : call.appends[l] \in Nat
  BY EffectSensible
<1>3. Longer(n, call, length)
  BY DEF Ends
<1> QED BY <1>1, <1>2, <1>3, LongerFacts

(* A call of a verification ends. *)
LEMMA CompletedVerified ==
  ASSUME NEW n, NEW call, NEW last, AtCall(n, call, last), NEW mem, NEW o, Ends(n, call, last, mem, o), n.pass.kind = "verify"
  PROVE  Verified(o)
<1>1. Rounds(n) /\ Verified(n) /\ n.phase = "running" /\ Passing(n)
  BY DEF AtCall, Sound, Rounds
<1>2. /\ \A l \in Caches : o.length[l] \in Nat /\ n.length[l] \in Nat /\ n.length[l] <= o.length[l]
      /\ \A l \in Caches : l \in DOMAIN call.appends => o.length[l] = n.length[l] + call.appends[l]
  BY CompletedLengths
<1>3. o.pass = n.pass /\ o.full_lengths = n.full_lengths /\ o.active = n.active /\ o.phase = (IF last THEN "ready" ELSE n.phase)
  BY DEF Ends
<1>4. n.active = TRUE /\ (Fused => Len(n.pass.tokens) = 2) /\ \A l \in FullLayers : n.full_lengths[l] \in Nat /\ n.full_lengths[l] <= n.length[l]
  BY <1>1 DEF Verified
<1>5. ASSUME NEW l \in FullLayers PROVE n.full_lengths[l] <= o.length[l]
  <2> PICK a, b, c : a = n.full_lengths[l] /\ b = n.length[l] /\ c = o.length[l]
    OBVIOUS
  <2>1. a \in Nat /\ b \in Nat /\ c \in Nat /\ a <= b /\ b <= c
    BY <1>2, <1>4, LayerFacts
  <2> QED BY <2>1
<1>6. ASSUME NEW l \in FullLayers, env.verify = "graph", o.phase = "ready"
      PROVE  n.full_lengths[l] + Len(n.pass.tokens) <= o.length[l]
  <2>1. last
    BY <1>1, <1>3, <1>6
  <2>2. Len(Calls(n)) = 1 /\ l \in DOMAIN Calls(n)[1].appends
        /\ Calls(n)[1].appends[l] = IF Fused THEN 2 ELSE Len(n.pass.tokens)
    BY <1>6, VerifyAppends
  <2>3. call = Calls(n)[1]
    BY <2>1, <2>2 DEF AtCall, Current
  <2>4. l \in DOMAIN call.appends /\ call.appends[l] = Len(n.pass.tokens)
    BY <1>4, <2>2, <2>3
  <2> PICK a, b, c, d : a = n.full_lengths[l] /\ b = n.length[l] /\ c = o.length[l] /\ d = Len(n.pass.tokens)
    OBVIOUS
  <2>5. a \in Nat /\ b \in Nat /\ a <= b /\ c = b + d
    BY <1>2, <1>4, <2>4, LayerFacts
  <2>6. d \in Nat
    BY <1>1, SeqFacts DEF Passing
  <2>7. a + d <= c
    BY <2>5, <2>6
  <2> QED BY <2>7
<1> QED BY ONLY <1>3, <1>4, <1>5, <1>6 DEF Verified

(* The adapter's step of a draft has run when the pass is over. *)
LEMMA DraftGrew ==
  ASSUME NEW n, NEW call, NEW last, AtCall(n, call, last), NEW mem, NEW o, Ends(n, call, last, mem, o), n.pass.kind = "draft"
  PROVE  \/ o.length[Adapter] >= 1
         \/ n.at # Len(Calls(n)) /\ \E i \in n.at + 1 .. Len(Calls(n)) : Grows(Calls(n)[i])
<1> PICK a, b, l : a = n.length[l] /\ b = o.length[l] /\ l = Adapter
  OBVIOUS
<1>1. /\ a \in Nat /\ b \in Nat /\ a <= b
      /\ l \in DOMAIN call.appends => b = a + call.appends[l]
  BY CompletedLengths, LayerFacts
<1>2. n.at \in 1 .. Len(Calls(n)) /\ Len(Calls(n)) \in Nat
  BY CurrentMade
<1>3. a >= 1 \/ \E i \in n.at .. Len(Calls(n)) : Grows(Calls(n)[i])
  BY DEF AtCall, Sound, Going
<1>4. CASE a >= 1
  BY <1>1, <1>4
<1>5. CASE \E i \in n.at .. Len(Calls(n)) : Grows(Calls(n)[i])
  <2>1. PICK i \in n.at .. Len(Calls(n)) : Grows(Calls(n)[i])
    BY <1>5
  <2>2. CASE i = n.at
    <3>1. Grows(call)
      BY <2>1, <2>2 DEF AtCall, Current
    <3>2. l \in DOMAIN call.appends /\ call.appends[l] = 1
      BY <3>1 DEF Grows
    <3> QED BY <1>1, <3>2
  <2>3. CASE i # n.at
    <3> PICK at, m : at = n.at /\ m = Len(Calls(n))
      OBVIOUS
    <3>1. at \in Nat /\ m \in Nat /\ i \in at .. m /\ i # at
      BY <1>2, <2>1, <2>3
    <3>2. i \in at + 1 .. m /\ at # m
      BY <3>1
    <3> QED BY <2>1, <3>2
  <2> QED BY <2>2, <2>3
<1> QED BY <1>3, <1>4, <1>5

(* A call of any pass ends. *)
LEMMA CompletedRounds ==
  ASSUME NEW n, NEW call, NEW last, AtCall(n, call, last), NEW mem, NEW o, Ends(n, call, last, mem, o)
  PROVE  Rounds(o)
<1>1. Rounds(n) /\ Passing(n) /\ n.phase = "running"
  BY DEF AtCall, Sound, Rounds
<1>2. /\ o.pass = n.pass /\ o.fed = n.fed /\ o.round_appended = n.round_appended /\ o.history = n.history /\ o.active = n.active
      /\ o.phase = (IF last THEN "ready" ELSE n.phase)
  BY DEF Ends
<1>3. Passing(o)
  BY <1>1, <1>2 DEF Passing
<1>4. n.pass.kind = "prompt" => o.length[Adapter] = 0
  <2> PICK x : x = Effect(call, Owners(n.pass.kind), n.length)
    OBVIOUS
  <2>1. n.pass.kind = "prompt" => Adapter \notin DOMAIN call.appends
    BY EffectSensible
  <2> QED BY <1>1, <2>1, CompletedLengths, LayerFacts DEF Rounds
<1>5. n.pass.kind = "draft" => Drafted(o)
  <2> HAVE n.pass.kind = "draft"
  <2>1. env.drafts = 2 /\ Len(n.pass.tokens) = 1 /\ n.round_appended = 1 /\ Len(n.fed) >= 1
    BY <1>1 DEF Rounds, Drafted
  <2>2. o.phase = "ready" => o.length[Adapter] >= 1
    <3>1. o.phase = "ready" => n.at = Len(Calls(n))
      BY <1>1, <1>2 DEF AtCall
    <3> QED BY <3>1, DraftGrew
  <2> QED BY <1>2, <2>1, <2>2 DEF Drafted
<1>6. n.pass.kind \in {"verify", "replay"} => n.round_appended <= o.length[Adapter] /\ n.round_appended <= Len(n.fed)
  <2> PICK a, b, c : a = n.round_appended /\ b = n.length[Adapter] /\ c = o.length[Adapter]
    OBVIOUS
  <2>1. a \in Nat /\ b \in Nat /\ c \in Nat /\ b <= c
    BY <1>1, CompletedLengths, LayerFacts DEF Passing
  <2>2. n.pass.kind \in {"verify", "replay"} => a <= b /\ a <= Len(n.fed)
    BY <1>1 DEF Rounds
  <2>3. a <= b => a <= c
    BY <2>1
  <2> QED BY <2>2, <2>3
<1>7. n.pass.kind = "verify" => Verified(o)
  BY CompletedVerified
<1>8. n.pass.kind = "prompt" /\ env.drafts > 0 => IsSeq(n.history)
  BY <1>1 DEF Rounds
<1>9. n.pass.kind # "verify" => n.active = FALSE
  BY <1>1 DEF Rounds
<1> QED BY ONLY <1>2, <1>3, <1>4, <1>5, <1>6, <1>7, <1>8, <1>9 DEF Rounds

(* There is a next call, or the pass is over. *)
LEMMA CompletedGoing ==
  ASSUME NEW n, NEW call, NEW last, AtCall(n, call, last), NEW mem, NEW o, Ends(n, call, last, mem, o)
  PROVE  Going(o)
<1> SUFFICES ASSUME o.phase = "running" PROVE Going(o)
  BY DEF Going
<1>1. ~last /\ n.at # Len(Calls(n)) /\ o.at = n.at + 1
  BY DEF Ends, AtCall
<1>2. n.at \in 1 .. Len(Calls(n)) /\ Len(Calls(n)) \in Nat /\ Lengths(n.length) /\ IsSeq(Calls(n))
  BY CurrentMade
<1>3. Lengths(o.length)
  BY CompletedLengths DEF Lengths
<1>4. Continues(n, o)
  <2>1. n.pass.kind = "verify" => env.verify = "prefill"
    <3>1. n.pass.kind = "verify" /\ env.verify # "prefill" => Len(Calls(n)) = 1
      BY VerifyAppends
    <3> PICK all, k : all = Len(Calls(n)) /\ k = n.at
      OBVIOUS
    <3>3. k \in 1 .. all /\ k # all
      BY <1>1, <1>2
    <3>2. all # 1
      BY <3>3
    <3> QED BY <3>1, <3>2
  <2> QED BY <2>1 DEF Continues, Ends
<1> PICK y, s, t, m, at : y = Between(n.pass.kind, n.length, o.length) /\ s = Calls(n) /\ t = Calls(o) /\ m = Len(Calls(n)) /\ at = n.at
  OBVIOUS
<1>5. MadeAll(s, t, y)
  <2>1. Passing(n) /\ env.decode \in {"graph", "groups", "host"}
    BY EnvFacts DEF AtCall, Sound, Rounds
  <2> QED BY <1>2, <1>3, <1>4, <2>1, CallsMade
<1>6. Len(t) = m /\ \A i \in 1 .. m : t[i].appends = s[i].appends
  BY <1>5 DEF MadeAll, Made
<1>7. at \in 1 .. m /\ m \in Nat /\ at # m
  BY <1>1, <1>2
<1>8. o.at \in 1 .. Len(t)
  <2>1. at + 1 \in 1 .. m
    BY <1>7
  <2> QED BY <1>1, <1>6, <2>1
<1>9. ASSUME o.pass.kind = "draft"
      PROVE  o.length[Adapter] >= 1 \/ \E i \in o.at .. Len(t) : Grows(t[i])
  <2>1. n.pass.kind = "draft"
    BY <1>9 DEF Ends
  <2>2. CASE o.length[Adapter] >= 1
    BY <2>2
  <2>3. CASE \E i \in at + 1 .. m : Grows(s[i])
    <3>1. PICK i \in at + 1 .. m : Grows(s[i])
      BY <2>3
    <3>2. i \in 1 .. m
      BY <1>7
    <3>3. Grows(t[i])
      BY <1>6, <3>1, <3>2 DEF Grows
    <3> QED BY <1>1, <1>6, <3>1, <3>3
  <2> QED BY <2>1, <2>2, <2>3, DraftGrew
<1> QED BY <1>8, <1>9 DEF Going

Closes(n, call, last, mem, o) == o = [Completed(n, call, last) EXCEPT !.mem = mem]

(* So all that is true of a lane stays so. *)
LEMMA CompletedSound ==
  ASSUME NEW n, NEW call, NEW last, NEW mem, NEW T, NEW o, AtCall(n, call, last), Ran(n, mem, T), Room(n, call, mem),
         Closes(n, call, last, mem, o)
  PROVE  Sound(o) /\ o.submitted = FALSE /\ o.active = n.active /\ Ends(n, call, last, mem, o)
<1>1. DOMAIN n = LaneFields
  BY DEF AtCall, Sound, Shape
<1>2. Ends(n, call, last, mem, o)
  BY <1>1, CompletedIs DEF Closes
<1>3. Shape(o) /\ Rounds(o) /\ Going(o)
  BY <1>2, CompletedShape, CompletedRounds, CompletedGoing
<1>4. o.phase \in {"running", "ready"} /\ o.submitted = FALSE /\ o.active = n.active
  BY <1>2 DEF Ends, AtCall
<1> QED BY <1>2, <1>3, <1>4 DEF Sound

(* One lane moves on and takes or gives back a pool. *)
OthersHold(p) == \A pool \in Pools : \A q \in Lanes : q # p => (holder'[pool] = q <=> holder[pool] = q)

OwnSound(p, r) ==
  /\ r.submitted \in BOOLEAN /\ r.active \in BOOLEAN
  /\ r.phase = "free" => r.submitted = FALSE /\ r.active = FALSE
  /\ r.phase # "free" => Sound(r)
  /\ r.submitted = TRUE => Waits(r)
  /\ \A pool \in Pools : holder'[pool] = p <=> (r.submitted = TRUE /\ pool = Current(r).pool)

(* What is true of the others stays so. *)
LEMMA Moved ==
  ASSUME NEW p \in Lanes, NEW r, RuntimeInv, env' = env, lane' = [lane EXCEPT ![p] = r], DOMAIN holder' = Pools,
         OthersHold(p), OwnSound(p, r)
  PROVE  RuntimeInv'
<1>1. \A q \in Lanes : LaneSound(q)
  BY DEF RuntimeInv
<1>2. ASSUME NEW q \in Lanes PROVE LaneSound(q)'
  <2>1. CASE q = p
    <3>1. lane'[q] = r
      BY <2>1 DEF RuntimeInv
    <3>2. (Sound(lane[q])' <=> Sound(r)) /\ Current(lane[q])' = Current(r) /\ (Waits(lane[q])' <=> Waits(r))
      BY <3>1, SoundStays, CallsStay
    <3>3. \A pool \in Pools : (holder[pool])' = q <=> (r.submitted = TRUE /\ pool = Current(r).pool)
      BY <2>1 DEF OwnSound
    <3> QED BY <3>1, <3>2, <3>3 DEF LaneSound, OwnSound
  <2>2. CASE q # p
    <3>1. lane'[q] = lane[q]
      BY <2>2 DEF RuntimeInv
    <3>2. (Sound(lane[q])' <=> Sound(lane[q])) /\ Current(lane[q])' = Current(lane[q]) /\ (Waits(lane[q])' <=> Waits(lane[q]))
      BY <3>1, SoundStays, CallsStay
    <3>3. \A pool \in Pools : (holder[pool])' = q <=> holder[pool] = q
      BY <2>2 DEF OthersHold
    <3> QED BY <1>1, <3>1, <3>2, <3>3 DEF LaneSound
  <2> QED BY <2>1, <2>2
<1>3. env' \in Environments /\ DOMAIN lane' = Lanes
  BY DEF RuntimeInv
<1> QED BY <1>2, <1>3 DEF RuntimeInv

(* A lane that runs is at a call. *)
LEMMA Working ==
  ASSUME RuntimeInv, NEW p \in Lanes, lane[p].phase = "running", NEW call, NEW last,
         call = Calls(lane[p])[lane[p].at], last <=> lane[p].at = Len(Calls(lane[p]))
  PROVE  AtCall(lane[p], call, last)
<1>1. LaneSound(p) /\ env \in Environments
  BY DEF RuntimeInv
<1> QED BY <1>1 DEF AtCall, LaneSound, Current

(* A graph of its own runs in one step. *)
LEMMA RunGraphStep ==
  ASSUME RuntimeInv, NEW p \in Lanes, NEW call, NEW last, AtCall(lane[p], call, last), env' = env, RunGraph(p, call, last)
  PROVE  /\ RuntimeInv'
         /\ \E mem, r : /\ Ran(lane[p], mem, Touched(lane[p], call)) /\ Ends(lane[p], call, last, mem, r)
                        /\ lane' = [lane EXCEPT ![p] = r]
<1> PICK n, ks, others : n = lane[p] /\ ks = call.work \o call.back /\ others = shared
  OBVIOUS
<1> PICK m, mem, T, r : /\ m = RunAll(Over(n.mem, others), ks) /\ mem = Part(LaneBuffers, m)
                        /\ T = Touched(n, call) /\ r = [Completed(n, call, last) EXCEPT !.mem = mem]
  OBVIOUS
<1>1. lane' = [lane EXCEPT ![p] = r] /\ holder' = holder /\ call.pool = "none"
  BY DEF RunGraph, RunOn
<1>2. Ran(n, mem, T) /\ Room(n, call, mem)
  <2>1. ks = call.work \/ ks = call.work \o call.back
    OBVIOUS
  <2>2. mem = Part(LaneBuffers, RunAll(Over(n.mem, others), ks)) /\ AtCall(n, call, last)
    OBVIOUS
  <2> QED BY ONLY <2>1, <2>2, T = Touched(n, call), WorkRuns
<1>3. Sound(r) /\ r.submitted = FALSE /\ r.active = n.active /\ Ends(n, call, last, mem, r)
  <2>1. AtCall(n, call, last) /\ Closes(n, call, last, mem, r)
    BY DEF Closes
  <2> QED BY ONLY <1>2, <2>1, CompletedSound
<1>4. n.active \in BOOLEAN /\ n.submitted = FALSE
  <2>1. LaneSound(p)
    BY DEF RuntimeInv
  <2>2. Current(n) = call /\ "none" \notin Pools
    BY DEF AtCall, Pools
  <2>3. ~Waits(n)
    BY <1>1, <2>2 DEF Waits
  <2> QED BY <2>1, <2>3 DEF LaneSound
<1>5. RuntimeInv'
  BY <1>1, <1>3, <1>4, Replaced
<1> QED BY <1>1, <1>2, <1>3, <1>5

(* A call that waits for its pool: nothing of the pass is different. *)
Sent(n, mem, r) == DOMAIN n = LaneFields /\ r = [n EXCEPT !.mem = mem, !.submitted = TRUE]

(* Its fields. *)
LEMMA SubmittedSame ==
  ASSUME NEW n, NEW mem, NEW r, Sent(n, mem, r)
  PROVE  /\ DOMAIN r = LaneFields /\ r.mem = mem /\ r.submitted = TRUE /\ r.phase = n.phase /\ r.at = n.at /\ r.length = n.length
         /\ r.pass = n.pass /\ r.fed = n.fed /\ r.kept = n.kept /\ r.batch = n.batch /\ r.round_appended = n.round_appended
         /\ r.next_position = n.next_position /\ r.history = n.history /\ r.active = n.active /\ r.full_lengths = n.full_lengths
         /\ Calls(r) = Calls(n)
<1>1. /\ DOMAIN r = LaneFields /\ r.mem = mem /\ r.submitted = TRUE /\ r.phase = n.phase /\ r.at = n.at /\ r.length = n.length
      /\ r.pass = n.pass /\ r.fed = n.fed /\ r.kept = n.kept /\ r.batch = n.batch /\ r.round_appended = n.round_appended
      /\ r.next_position = n.next_position /\ r.history = n.history /\ r.active = n.active /\ r.full_lengths = n.full_lengths
  BY DEF LaneFields, Sent
<1>2. AcceptCalls(r) = AcceptCalls(n)
  BY <1>1 DEF AcceptCalls, KeepAppended
<1>3. Calls(r) = Calls(n)
  BY <1>1, <1>2 DEF Calls, TokenContext
<1> QED BY <1>1, <1>3

(* A call takes a pool and its work is submitted. *)
LEMMA SubmitStep ==
  ASSUME RuntimeInv, NEW p \in Lanes, NEW call, NEW last, AtCall(lane[p], call, last), env' = env, Submit(p, call)
  PROVE  /\ RuntimeInv'
         /\ \E mem, r : /\ Ran(lane[p], mem, Touched(lane[p], call))
                        /\ r = [lane[p] EXCEPT !.mem = mem, !.submitted = TRUE]
                        /\ lane' = [lane EXCEPT ![p] = r]
<1> PICK n, ks, others : n = lane[p] /\ ks = call.work /\ others = shared
  OBVIOUS
<1> PICK m, mem, T, r : /\ m = RunAll(Over(n.mem, others), ks) /\ mem = Part(LaneBuffers, m)
                        /\ T = Touched(n, call) /\ r = [n EXCEPT !.mem = mem, !.submitted = TRUE]
  OBVIOUS
<1>1. /\ call.pool \in Pools /\ holder[call.pool] = NoLane /\ holder' = [holder EXCEPT ![call.pool] = p]
      /\ lane' = [lane EXCEPT ![p].mem = mem, ![p].submitted = TRUE]
  BY DEF Submit, RunOn
<1>2. Ran(n, mem, T) /\ Room(n, call, mem)
  <2>1. ks = call.work \/ ks = call.work \o call.back
    OBVIOUS
  <2>2. mem = Part(LaneBuffers, RunAll(Over(n.mem, others), ks)) /\ AtCall(n, call, last)
    OBVIOUS
  <2> QED BY ONLY <2>1, <2>2, T = Touched(n, call), WorkRuns
<1>3. DOMAIN n = LaneFields /\ Sound(n) /\ Shape(n) /\ Rounds(n) /\ Going(n) /\ n.phase = "running" /\ Current(n) = call
  BY DEF AtCall, Sound, Shape
<1>4. /\ DOMAIN r = LaneFields /\ r.mem = mem /\ r.submitted = TRUE /\ r.phase = n.phase /\ r.at = n.at /\ r.length = n.length
      /\ r.pass = n.pass /\ r.fed = n.fed /\ r.kept = n.kept /\ r.batch = n.batch /\ r.round_appended = n.round_appended
      /\ r.next_position = n.next_position /\ r.history = n.history /\ r.active = n.active /\ r.full_lengths = n.full_lengths
      /\ Calls(r) = Calls(n)
  <2>1. Sent(n, mem, r)
    BY <1>3 DEF Sent
  <2> QED BY ONLY <2>1, SubmittedSame
<1>5. lane' = [lane EXCEPT ![p] = r]
  BY <1>1 DEF RuntimeInv
<1>6. Shape(r)
  BY ONLY <1>2, <1>3, <1>4 DEF Shape, Ran
<1>7. Rounds(r)
  <2>1. Passing(r)
    BY ONLY <1>3, <1>4 DEF Rounds, Passing
  <2>2. n.pass.kind = "draft" => Drafted(r)
    BY ONLY <1>3, <1>4 DEF Rounds, Drafted
  <2>3. n.pass.kind = "verify" => Verified(r)
    BY ONLY <1>3, <1>4 DEF Rounds, Verified
  <2> QED BY ONLY <1>3, <1>4, <2>1, <2>2, <2>3 DEF Rounds
<1>8. Going(r)
  BY ONLY <1>3, <1>4 DEF Going
<1>9. Sound(r) /\ r.phase # "free"
  BY <1>3, <1>4, <1>6, <1>7, <1>8 DEF Sound
<1>10. Current(r) = call
  BY <1>3, <1>4 DEF Current
<1>11. Waits(r)
  BY ONLY <1>1, <1>2, <1>3, <1>4, <1>10 DEF Waits, Room
<1>12. LaneSound(p) /\ \A q \in Lanes : q # NoLane
  BY RuntimeAssumption DEF RuntimeInv, NoLane
<1>13. \A pool \in Pools : holder[pool] # p
  <2>1. n.submitted # TRUE
    BY <1>12 DEF Submit, LaneSound
  <2> QED BY <1>12, <2>1 DEF LaneSound
<1>14. DOMAIN holder' = Pools /\ DOMAIN holder = Pools
  BY <1>1 DEF RuntimeInv
<1>15. \A pool \in Pools : \A q \in Lanes : q # p => (holder'[pool] = q <=> holder[pool] = q)
  BY <1>1, <1>12, <1>14
<1>16. \A pool \in Pools : holder'[pool] = p <=> (r.submitted = TRUE /\ pool = Current(r).pool)
  BY <1>1, <1>4, <1>10, <1>13, <1>14
<1>17. r.active \in BOOLEAN /\ r.submitted \in BOOLEAN
  BY <1>4, <1>12 DEF LaneSound
<1>18. RuntimeInv'
  <2>1. OwnSound(p, r)
    BY <1>9, <1>11, <1>16, <1>17 DEF OwnSound
  <2>2. OthersHold(p)
    BY <1>15 DEF OthersHold
  <2> QED BY ONLY RuntimeInv, p \in Lanes, env' = env, <1>5, <1>14, <2>1, <2>2, Moved
<1> QED BY <1>2, <1>5, <1>18

(* The call has run, its results are copied out and the pool is given back. *)
LEMMA CompleteStep ==
  ASSUME RuntimeInv, NEW p \in Lanes, NEW call, NEW last, AtCall(lane[p], call, last), env' = env, Complete(p, call, last)
  PROVE  /\ RuntimeInv'
         /\ \E mem, r : /\ Ran(lane[p], mem, {"host"}) /\ Ends(lane[p], call, last, mem, r)
                        /\ lane' = [lane EXCEPT ![p] = r]
<1> PICK n, ks, others, T : n = lane[p] /\ ks = call.back /\ others = shared /\ T = {"host"}
  OBVIOUS
<1> PICK m, mem, r : /\ m = RunAll(Over(n.mem, others), ks) /\ mem = Part(LaneBuffers, m)
                     /\ r = [Completed(n, call, last) EXCEPT !.mem = mem]
  OBVIOUS
<1>1. lane' = [lane EXCEPT ![p] = r] /\ holder' = [holder EXCEPT ![call.pool] = NoLane] /\ n.submitted
  BY DEF Complete, RunOn
<1>2. LaneSound(p) /\ n.submitted = TRUE /\ n.active \in BOOLEAN
  BY <1>1 DEF RuntimeInv, LaneSound
<1>3. Ran(n, mem, T)
  <2>1. mem = Part(LaneBuffers, RunAll(Over(n.mem, others), call.back)) /\ AtCall(n, call, last)
    OBVIOUS
  <2> QED BY ONLY <2>1, T = {"host"}, BackRuns
<1>4. Current(n) = call /\ Waits(n) /\ call.pool \in Pools
  BY <1>2 DEF AtCall, LaneSound, Waits
<1>5. Room(n, call, mem)
  <2>1. DOMAIN call.appends \subseteq Caches /\ \A l \in DOMAIN call.appends : call.appends[l] \in Nat
    <3> PICK x : x = Effect(call, Owners(n.pass.kind), n.length)
      OBVIOUS
    <3> QED BY EffectSensible
  <2>2. ASSUME NEW l \in DOMAIN call.appends PROVE n.length[l] + call.appends[l] <= Len(mem[Kv(l)])
    <3> PICK a, b, c, d : a = n.length[l] /\ b = call.appends[l] /\ c = Len(n.mem[Kv(l)]) /\ d = Len(mem[Kv(l)])
      OBVIOUS
    <3>1. l \in Caches /\ b \in Nat
      BY <2>1
    <3>2. a + b <= c
      BY <1>4 DEF Waits
    <3>3. d >= c /\ d \in Nat
      BY <1>3, <3>1 DEF Ran, Holds, IsCapacity
    <3>4. a \in Nat /\ c \in Nat
      BY <3>1 DEF AtCall, Sound, Shape, Holds, IsCapacity
    <3> QED BY <3>1, <3>2, <3>3, <3>4
  <2> QED BY <2>2 DEF Room
<1>6. Sound(r) /\ r.submitted = FALSE /\ r.active = n.active /\ Ends(n, call, last, mem, r)
  <2>1. AtCall(n, call, last) /\ Closes(n, call, last, mem, r)
    BY DEF Closes
  <2> QED BY ONLY <1>3, <1>5, <2>1, CompletedSound
<1>7. DOMAIN holder' = Pools /\ DOMAIN holder = Pools /\ \A q \in Lanes : q # NoLane
  BY <1>1, RuntimeAssumption DEF RuntimeInv, NoLane
<1>8. \A pool \in Pools : holder[pool] = p <=> pool = call.pool
  BY <1>2, <1>4 DEF LaneSound
<1>9. \A pool \in Pools : \A q \in Lanes : q # p => (holder'[pool] = q <=> holder[pool] = q)
  BY <1>1, <1>4, <1>7, <1>8
<1>10. \A pool \in Pools : holder'[pool] # p
  BY <1>1, <1>4, <1>7, <1>8
<1>11. r.phase # "free" /\ r.active \in BOOLEAN
  BY <1>2, <1>6 DEF Sound
<1>12. RuntimeInv'
  <2>1. \A pool \in Pools : holder'[pool] = p <=> (r.submitted = TRUE /\ pool = Current(r).pool)
    BY <1>6, <1>10
  <2>2. ~(r.submitted = TRUE) /\ r.submitted \in BOOLEAN
    BY <1>6
  <2>3. OwnSound(p, r)
    BY <1>6, <1>11, <2>1, <2>2 DEF OwnSound
  <2>4. OthersHold(p)
    BY <1>9 DEF OthersHold
  <2> QED BY ONLY RuntimeInv, p \in Lanes, env' = env, <1>1, <1>7, <2>3, <2>4, Moved
<1> QED BY <1>1, <1>3, <1>6, <1>12

(* A lane that no request has. *)
LEMMA FreeFacts ==
  FreeLane.phase = "free" /\ FreeLane.submitted = FALSE /\ FreeLane.active = FALSE
BY DEF FreeLane, NewLane

(* A request ends. *)
LEMMA LeaveStep ==
  ASSUME RuntimeInv, NEW p \in Lanes, Leave(p)
  PROVE  RuntimeInv'
<1> PICK r : r = FreeLane
  OBVIOUS
<1>1. /\ lane' = [lane EXCEPT ![p] = r] /\ env' = env
      /\ holder' = [pool \in Pools |-> IF holder[pool] = p THEN NoLane ELSE holder[pool]]
  BY DEF Leave
<1>2. r.phase = "free" /\ r.submitted = FALSE /\ r.active = FALSE
  BY FreeFacts
<1>3. \A q \in Lanes : q # NoLane
  BY RuntimeAssumption DEF NoLane
<1>4. OthersHold(p) /\ DOMAIN holder' = Pools /\ \A pool \in Pools : holder'[pool] # p
  BY <1>1, <1>3 DEF OthersHold
<1>5. OwnSound(p, r)
  <2>1. ~(r.submitted = TRUE) /\ r.submitted \in BOOLEAN /\ r.active \in BOOLEAN
    BY <1>2
  <2> QED BY ONLY <1>2, <1>4, <2>1 DEF OwnSound
<1> QED BY ONLY RuntimeInv, p \in Lanes, <1>1, <1>4, <1>5, Moved

(* A step of a pass. *)
LEMMA WorkStep ==
  ASSUME RuntimeInv, NEW p \in Lanes, Work(p)
  PROVE  RuntimeInv'
<1> PICK n, calls : n = lane[p] /\ calls = Calls(n)
  OBVIOUS
<1> PICK call, last : call = calls[n.at] /\ last = (n.at = Len(calls))
  OBVIOUS
<1>1. n.phase = "running" /\ env' = env /\ (RunGraph(p, call, last) \/ Submit(p, call) \/ Complete(p, call, last))
  BY DEF Work
<1>2. AtCall(lane[p], call, last)
  BY <1>1, Working
<1> QED BY <1>1, <1>2, RunGraphStep, SubmitStep, CompleteStep

(* Nothing happens. *)
LEMMA StutterStep ==
  ASSUME RuntimeInv, UNCHANGED vars
  PROVE  RuntimeInv'
<1>1. env' = env /\ lane' = lane /\ holder' = holder
  BY DEF vars
<1>2. ASSUME NEW p \in Lanes PROVE LaneSound(p)'
  <2>1. (Sound(lane[p])' <=> Sound(lane[p])) /\ Current(lane[p])' = Current(lane[p]) /\ (Waits(lane[p])' <=> Waits(lane[p]))
    BY <1>1, SoundStays, CallsStay
  <2>2. LaneSound(p)
    BY DEF RuntimeInv
  <2> QED BY <1>1, <2>1, <2>2 DEF LaneSound
<1> QED BY <1>1, <1>2 DEF RuntimeInv

(* Every step keeps the invariant. *)
LEMMA RuntimeInvStep ==
  ASSUME RuntimeInv, [Next]_vars
  PROVE  RuntimeInv'
<1>1. ASSUME NEW p \in Lanes, NEW prompt \in env.prompts, Start(p, prompt) PROVE RuntimeInv'
  BY <1>1, StartStep
<1>2. ASSUME NEW p \in Lanes, NEW q \in Lanes, NEW suffix \in env.prompts \cup {<<>>}, StartFromPrefix(p, q, suffix)
      PROVE  RuntimeInv'
  BY <1>2, StartFromPrefixStep
<1>3. ASSUME NEW p \in Lanes, NEW token \in Tokens, NextToken(p, token) PROVE RuntimeInv'
  BY <1>3, NextTokenStep
<1>4. ASSUME NEW p \in Lanes, AdapterPrompt(p) PROVE RuntimeInv'
  BY <1>4, AdapterPromptStep
<1>5. ASSUME NEW p \in Lanes, NEW seed \in Tokens, Draft(p, seed) PROVE RuntimeInv'
  BY <1>5, DraftStep
<1>6. ASSUME NEW p \in Lanes, NEW draft \in Tokens, Verify(p, <<draft>>) PROVE RuntimeInv'
  BY <1>6, VerifyStep
<1>7. ASSUME NEW p \in Lanes, Settle(p) \/ Replayed(p) PROVE RuntimeInv'
  BY <1>7, SettleStep, ReplayedStep
<1>8. ASSUME NEW p \in Lanes, Work(p) \/ Leave(p) PROVE RuntimeInv'
  BY <1>8, WorkStep, LeaveStep
<1>9. ASSUME Idle \/ UNCHANGED vars PROVE RuntimeInv'
  BY <1>9, StutterStep DEF Idle
<1> QED BY <1>1, <1>2, <1>3, <1>4, <1>5, <1>6, <1>7, <1>8, <1>9 DEF Next

(* It is true at first. *)
LEMMA RuntimeInvInit ==
  Init => RuntimeInv
<1> SUFFICES ASSUME Init PROVE RuntimeInv
  OBVIOUS
<1>1. ASSUME NEW p \in Lanes PROVE LaneSound(p)
  <2> PICK r : r = FreeLane
    OBVIOUS
  <2>1. lane[p] = r
    BY DEF Init
  <2>2. \A pool \in Pools : holder[pool] # p
    BY RuntimeAssumption DEF Init, NoLane
  <2>3. r.phase = "free" /\ r.submitted = FALSE /\ r.active = FALSE
    BY FreeFacts
  <2>4. ~(r.submitted = TRUE) /\ r.submitted \in BOOLEAN /\ r.active \in BOOLEAN
    BY <2>3
  <2> QED BY ONLY <2>1, <2>2, <2>3, <2>4 DEF LaneSound
<1> QED BY <1>1 DEF Init, RuntimeInv

(* It implies the types. *)
LEMMA RuntimeInvTypes ==
  RuntimeInv => TypeOK
<1> SUFFICES ASSUME RuntimeInv, NEW p \in Lanes
             PROVE  /\ lane[p].phase \in {"free", "running", "ready"}
                    /\ lane[p].submitted <=> \E pool \in Pools : holder[pool] = p
                    /\ lane[p].phase # "free" =>
                         \A l \in Caches : /\ lane[p].length[l] <= Len(lane[p].mem[Kv(l)])
                                           /\ Len(lane[p].mem[Kv(l)]) >= MinCapacity
                                           /\ NextPowerOfTwo(Len(lane[p].mem[Kv(l)])) = Len(lane[p].mem[Kv(l)])
  BY DEF TypeOK
<1> PICK n : n = lane[p]
  OBVIOUS
<1>1. LaneSound(p)
  BY DEF RuntimeInv
<1>2. n.phase # "free" => Sound(n)
  BY <1>1 DEF LaneSound
<1>3. n.phase \in {"free", "running", "ready"}
  BY <1>2 DEF Sound
<1>4. n.submitted <=> \E pool \in Pools : holder[pool] = p
  <2>1. n.submitted \in BOOLEAN /\ (n.submitted = TRUE => Current(n).pool \in Pools)
        /\ \A pool \in Pools : holder[pool] = p <=> (n.submitted = TRUE /\ pool = Current(n).pool)
    BY <1>1 DEF LaneSound, Waits
  <2>2. CASE n.submitted = TRUE
    BY <2>1, <2>2
  <2>3. CASE n.submitted = FALSE
    <3>1. ~(n.submitted = TRUE)
      BY <2>3
    <3> QED BY <2>1, <2>3, <3>1
  <2> QED BY <2>1, <2>2, <2>3
<1>5. ASSUME n.phase # "free", NEW l \in Caches
      PROVE  /\ n.length[l] <= Len(n.mem[Kv(l)]) /\ Len(n.mem[Kv(l)]) >= MinCapacity
             /\ NextPowerOfTwo(Len(n.mem[Kv(l)])) = Len(n.mem[Kv(l)])
  BY <1>2, <1>5 DEF Sound, Shape, Holds, IsCapacity
<1> QED BY <1>3, <1>4, <1>5

(* TypeOK, for any model, any lanes, any switches and any prompts: a lane is  *)
(* free, runs a pass or rests after one, waits for a pool only while it runs, *)
(* and a pool's mutex is held by the lane whose submitted call uses it; every *)
(* cache has the capacity and the length the code keeps of it.                *)
THEOREM TypesHold == Spec => []TypeOK
<1>1. Spec => []RuntimeInv
  <2>1. RuntimeInv /\ [Next]_vars => RuntimeInv'
    BY RuntimeInvStep
  <2> QED BY RuntimeInvInit, <2>1, PTL DEF Spec
<1> QED BY <1>1, RuntimeInvTypes, PTL

-----------------------------------------------------------------------------
(* The speculative transaction.                                             *)

(* o has the recurrent states of n and the first tokens of its caches. *)
Keeps(n, o, cut) ==
  /\ \A l \in FullLayers : SameFirst(n.mem[Kv(l)], o.mem[Kv(l)], cut[l])
  /\ \A l \in LinearLayers, part \in Parts : o.mem[StateOf(l, "active", part)] = n.mem[StateOf(l, "active", part)]

(* What a request had committed before a step. *)
Committed(n) == IF n.active THEN n.full_lengths ELSE n.length

(* A step that begins a verification or goes on with it. *)
UnderWay(n, o) ==
  o.active => /\ n.active \/ n.phase = "ready"
              /\ o.history = n.history /\ Keeps(n, o, Committed(n))
              /\ \A l \in FullLayers : o.full_lengths[l] = Committed(n)[l]

(* A step that takes one back. *)
Withdrawn(n, o) ==
  n.pass.kind = "verify" /\ o.pass.kind = "replay" =>
    /\ Keeps(n, o, Committed(n))
    /\ \A l \in FullLayers : o.length[l] = Committed(n)[l]

SpeculationIsAtomic == \A p \in Lanes : UnderWay(lane[p], lane'[p]) /\ Withdrawn(lane[p], lane'[p])

(* The buffers of the active states. *)
LEMMA ActiveBuffers ==
  ASSUME NEW l \in LinearLayers, NEW part \in Parts
  PROVE  StateOf(l, "active", part) \in LaneBuffers /\ StateOf(l, "active", part)[1] = "active"
<1>1. StateOf(l, "active", part) \in StateBuffers
  BY DEF StateBuffers
<1> QED BY <1>1, StateBuffersFacts DEF LaneBuffers

(* A lane that is as it was. *)
LEMMA NothingHappened ==
  ASSUME NEW n, NEW o, o = n
  PROVE  UnderWay(n, o) /\ Withdrawn(n, o)
BY DEF UnderWay, Withdrawn, Keeps, SameFirst, Committed

(* A pass of verification is a verification under way, and only that is. *)
LEMMA VerifyIsActive ==
  ASSUME RuntimeInv, NEW p \in Lanes, lane[p].phase # "free", lane[p].pass.kind = "verify"
  PROVE  lane[p].active = TRUE
BY DEF RuntimeInv, LaneSound, Sound, Rounds, Verified

(* And the caches have grown since. *)
LEMMA VerifyWhileActive ==
  ASSUME RuntimeInv, NEW p \in Lanes, lane[p].active = TRUE
  PROVE  /\ lane[p].pass.kind = "verify" /\ lane[p].phase # "free"
         /\ \A l \in FullLayers : /\ lane[p].full_lengths[l] \in Nat /\ lane[p].length[l] \in Nat
                                  /\ lane[p].full_lengths[l] <= lane[p].length[l]
<1>1. LaneSound(p)
  BY DEF RuntimeInv
<1>2. Sound(lane[p]) /\ lane[p].phase # "free"
  BY <1>1 DEF LaneSound
<1>3. Rounds(lane[p]) /\ lane[p].pass.kind = "verify"
  BY <1>2 DEF Sound, Rounds
<1>4. \A l \in FullLayers : lane[p].length[l] \in Nat
  BY <1>2, LayerFacts DEF Sound, Shape, Holds
<1> QED BY <1>2, <1>3, <1>4 DEF Rounds, Verified

(* The calls of a verification write to the shadows and the snapshots, and  *)
(* behind what the caches hold.                                             *)
LEMMA RanKeeps ==
  ASSUME RuntimeInv, NEW p \in Lanes, lane[p].active = TRUE, NEW mem, NEW T, Ran(lane[p], mem, T), "active" \notin T,
         NEW o, o.mem = mem, o.history = lane[p].history, o.full_lengths = lane[p].full_lengths, o.pass = lane[p].pass
  PROVE  UnderWay(lane[p], o) /\ Withdrawn(lane[p], o)
<1> PICK n, cut : n = lane[p] /\ cut = n.full_lengths
  OBVIOUS
<1>1. n.pass.kind = "verify" /\ \A l \in FullLayers : n.full_lengths[l] \in Nat /\ n.length[l] \in Nat /\ n.full_lengths[l] <= n.length[l]
  BY VerifyWhileActive
<1>2. ASSUME NEW l \in FullLayers PROVE SameFirst(n.mem[Kv(l)], mem[Kv(l)], cut[l])
  <2>1. SameFirst(n.mem[Kv(l)], mem[Kv(l)], n.length[l])
    BY LayerFacts DEF Ran
  <2> PICK a, b : a = cut[l] /\ b = n.length[l]
    OBVIOUS
  <2>2. a \in Nat /\ b \in Nat /\ a <= b
    BY <1>1
  <2>3. \A t \in 1 .. a : t \in 1 .. b
    BY <2>2
  <2> QED BY <2>1, <2>3 DEF SameFirst
<1>3. ASSUME NEW l \in LinearLayers, NEW part \in Parts
      PROVE  mem[StateOf(l, "active", part)] = n.mem[StateOf(l, "active", part)]
  BY ActiveBuffers DEF Ran
<1>4. Committed(n) = cut
  BY DEF Committed
<1>5. Keeps(n, o, cut)
  BY <1>2, <1>3 DEF Keeps
<1> QED BY <1>1, <1>4, <1>5 DEF UnderWay, Withdrawn

(* Other passes are no speculation. *)
LEMMA NotVerifying ==
  ASSUME RuntimeInv', NEW p \in Lanes, lane'[p].pass.kind # "verify"
  PROVE  UnderWay(lane[p], lane'[p])
<1>1. LaneSound(p)'
  BY DEF RuntimeInv
<1>2. (lane[p].active = TRUE => lane[p].phase # "free")'
  BY <1>1 DEF LaneSound
<1>3. (lane[p].phase # "free" => Rounds(lane[p]))'
  BY <1>1 DEF LaneSound, Sound
<1>4. (Rounds(lane[p]) => (lane[p].pass.kind # "verify" => lane[p].active = FALSE))'
  BY DEF Rounds
<1>5. (lane[p].active)' \in BOOLEAN
  BY <1>1 DEF LaneSound
<1>6. lane'[p].active = FALSE
  BY <1>2, <1>3, <1>4, <1>5
<1> QED BY <1>6 DEF UnderWay

Atomic(p) == UnderWay(lane[p], lane'[p]) /\ Withdrawn(lane[p], lane'[p])

(* A step after which the lane neither verifies nor replays. *)
LEMMA AtomicOther ==
  ASSUME RuntimeInv', NEW p \in Lanes, lane'[p].pass.kind \notin {"verify", "replay"}
  PROVE  Atomic(p)
BY NotVerifying DEF Atomic, Withdrawn

(* A step of another lane. *)
LEMMA AtomicElsewhere ==
  ASSUME NEW p, lane'[p] = lane[p]
  PROVE  Atomic(p)
BY NothingHappened DEF Atomic

(* A round begins. *)
LEMMA VerifyAtomic ==
  ASSUME RuntimeInv, NEW p \in Lanes, NEW draft, Verify(p, <<draft>>)
  PROVE  Atomic(p)
<1>a. PICK n : n = lane[p]
  OBVIOUS
<1>b. PICK drafts, one : drafts = <<draft>> /\ one = <<Choice(lane[p].history)>>
  OBVIOUS
<1>c. PICK kinds : kinds = {"adapter", "accept", "draft"}
  OBVIOUS
<1>d. PICK tokens : tokens = one \o (IF n.pass.kind # "draft" THEN drafts ELSE n.pass.tokens \o drafts)
  OBVIOUS
<1>e. PICK rows : rows = Len(tokens)
  OBVIOUS
<1>f. PICK k : k = Pass("verify", n.history, tokens, 0)
  OBVIOUS
<1>g. PICK o : o = BeginSpeculation(n, rows)
  OBVIOUS
<1>h. PICK q : q = Runs(o, k)
  OBVIOUS
<1>i. PICK appended : appended = (IF n.pass.kind # "draft" THEN 0 ELSE q.round_appended)
  OBVIOUS
<1>j. PICK r : r = lane'[p]
  OBVIOUS
<1>0. r = [q EXCEPT !.round_appended = IF n.pass.kind # "draft" THEN 0 ELSE @] /\ k.kind = "verify"
  <2>1. lane' = [lane EXCEPT ![p] = [q EXCEPT !.round_appended = IF n.pass.kind # "draft" THEN 0 ELSE @]]
    BY <1>a, <1>b, <1>d, <1>e, <1>f, <1>g, <1>h, Zenon DEF Verify
  <2>2. k.kind = "verify"
    BY <1>f DEF Pass
  <2>3. DOMAIN lane = Lanes
    BY DEF RuntimeInv
  <2> QED BY <2>1, <2>2, <2>3, <1>j
<1>1. Ready(p, kinds)
  BY <1>c DEF Verify
<1>2. Sound(n) /\ n.phase = "ready" /\ n.pass.kind \in kinds
  BY <1>1, <1>a, AtRest
<1>3. DOMAIN n = LaneFields /\ n.active = FALSE /\ LaneBuffers \subseteq DOMAIN n.mem
  BY <1>2, <1>c DEF Sound, Shape, Rounds
<1>4. Begins(n, o)
  BY ONLY <1>3, <1>g, SpeculationBegins
<1>5. DOMAIN q = LaneFields /\ q.mem = o.mem /\ q.history = o.history /\ q.full_lengths = o.full_lengths /\ q.pass = k
  <2>1. DOMAIN o = LaneFields
    BY <1>4 DEF Begins
  <2> QED BY ONLY <2>1, <1>h, RunsFacts
<1>6. r = [q EXCEPT !.round_appended = appended]
  BY <1>0, <1>5, <1>i
<1>7. r.mem = o.mem /\ r.history = o.history /\ r.full_lengths = o.full_lengths /\ r.pass = k
  BY ONLY <1>5, <1>6 DEF LaneFields
<1>t. PICK tags : tags = {"shadow", "snapshot"}
  OBVIOUS
<1>8. Restates(n.mem, o.mem, tags) /\ o.history = n.history /\ \A l \in FullLayers : o.full_lengths[l] = n.length[l]
  BY <1>4, <1>t DEF Begins
<1>9. Keeps(n, r, n.length)
  <2>1. \A l \in Caches : o.mem[Kv(l)] = n.mem[Kv(l)]
    <3>1. "kv" \notin tags /\ Restates(n.mem, o.mem, tags)
      BY <1>8, <1>t
    <3> QED BY ONLY <3>1, RestatesCaches
  <2>2. \A l \in LinearLayers, part \in Parts : o.mem[StateOf(l, "active", part)] = n.mem[StateOf(l, "active", part)]
    BY <1>8, <1>t, ActiveBuffers DEF Restates
  <2>3. \A l \in FullLayers : r.mem[Kv(l)] = n.mem[Kv(l)]
    BY ONLY <1>7, <2>1, LayerFacts
  <2>4. \A l \in LinearLayers, part \in Parts : r.mem[StateOf(l, "active", part)] = n.mem[StateOf(l, "active", part)]
    BY ONLY <1>7, <2>2
  <2>5. \A l \in FullLayers : SameFirst(n.mem[Kv(l)], r.mem[Kv(l)], n.length[l])
    BY ONLY <2>3 DEF SameFirst
  <2> QED BY ONLY <2>4, <2>5 DEF Keeps
<1>10. Committed(n) = n.length
  BY <1>3 DEF Committed
<1>11. UnderWay(n, r)
  BY ONLY <1>2, <1>7, <1>8, <1>9, <1>10 DEF UnderWay
<1>12. Withdrawn(n, r)
  BY <1>0, <1>7 DEF Withdrawn
<1> QED BY <1>11, <1>12, <1>a, <1>j DEF Atomic

(* A step of its calls. *)
LEMMA WorkAtomic ==
  ASSUME RuntimeInv, RuntimeInv', NEW p \in Lanes, Work(p)
  PROVE  Atomic(p)
<1> PICK n, calls : n = lane[p] /\ calls = Calls(n)
  OBVIOUS
<1> PICK call, last : call = calls[n.at] /\ last = (n.at = Len(calls))
  OBVIOUS
<1>1. n.phase = "running" /\ env' = env /\ (RunGraph(p, call, last) \/ Submit(p, call) \/ Complete(p, call, last))
  BY DEF Work
<1>2. AtCall(lane[p], call, last)
  BY <1>1, Working
<1>3. LaneSound(p) /\ DOMAIN lane = Lanes
  BY DEF RuntimeInv
<1>4. "active" \notin {"host"} /\ (n.active = TRUE => "active" \notin Touched(n, call))
  <2> PICK x : x = Effect(call, Owners(n.pass.kind), n.length)
    OBVIOUS
  <2>1. n.active = TRUE => Owners(n.pass.kind) = {"host", "verify", "shadow", "snapshot", "adapter"}
    BY VerifyWhileActive DEF Owners
  <2>2. call.pool \in {"q4", "language", "none"}
    <3> PICK y : y = Between(n.pass.kind, n.length, n.length)
      OBVIOUS
    <3>1. WellMade(call, y, n.length)
      BY <1>2, CurrentMade
    <3> QED BY <3>1 DEF WellMade, Pools
  <2> QED BY <2>1, <2>2 DEF Touched
<1>5. \E mem, T, r : /\ Ran(n, mem, T) /\ (n.active = TRUE => "active" \notin T) /\ lane' = [lane EXCEPT ![p] = r]
                     /\ r.mem = mem /\ r.history = n.history /\ r.full_lengths = n.full_lengths /\ r.pass = n.pass /\ r.active = n.active
  <2>1. CASE RunGraph(p, call, last)
    <3>1. PICK mem, r : Ran(n, mem, Touched(n, call)) /\ Ends(n, call, last, mem, r) /\ lane' = [lane EXCEPT ![p] = r]
      BY <1>1, <1>2, <2>1, RunGraphStep
    <3> QED BY <1>4, <3>1 DEF Ends
  <2>2. CASE Submit(p, call)
    <3>1. PICK mem, r : Ran(n, mem, Touched(n, call)) /\ r = [n EXCEPT !.mem = mem, !.submitted = TRUE] /\ lane' = [lane EXCEPT ![p] = r]
      BY <1>1, <1>2, <2>2, SubmitStep
    <3>2. Sent(n, mem, r)
      BY <1>2, <3>1 DEF Sent, AtCall, Sound, Shape
    <3>3. r.mem = mem /\ r.history = n.history /\ r.full_lengths = n.full_lengths /\ r.pass = n.pass /\ r.active = n.active
      BY ONLY <3>2 DEF Sent, LaneFields
    <3> QED BY <1>4, <3>1, <3>3
  <2>3. CASE Complete(p, call, last)
    <3>1. PICK mem, r : Ran(n, mem, {"host"}) /\ Ends(n, call, last, mem, r) /\ lane' = [lane EXCEPT ![p] = r]
      BY <1>1, <1>2, <2>3, CompleteStep
    <3> QED BY <1>4, <3>1 DEF Ends
  <2> QED BY <1>1, <2>1, <2>2, <2>3
<1>6. PICK mem, T, r : /\ Ran(n, mem, T) /\ (n.active = TRUE => "active" \notin T) /\ lane' = [lane EXCEPT ![p] = r]
                       /\ r.mem = mem /\ r.history = n.history /\ r.full_lengths = n.full_lengths /\ r.pass = n.pass /\ r.active = n.active
  BY <1>5
<1>7. lane'[p] = r
  BY <1>3, <1>6
<1>8. CASE n.active = TRUE
  <2>1. UnderWay(n, r) /\ Withdrawn(n, r)
    BY <1>6, <1>8, RanKeeps
  <2> QED BY <1>7, <2>1 DEF Atomic
<1>9. CASE n.active # TRUE
  <2>1. n.active = FALSE /\ r.active = FALSE
    BY <1>3, <1>6, <1>9 DEF LaneSound
  <2>2. UnderWay(n, r) /\ Withdrawn(n, r)
    BY <1>6, <2>1 DEF UnderWay, Withdrawn
  <2> QED BY <1>7, <2>2 DEF Atomic
<1> QED BY <1>8, <1>9

(* A round that ends is accepted. *)
LEMMA AfterRoundKind ==
  ASSUME NEW n, NEW accepted, DOMAIN n = LaneFields, NEW r, r = AfterRound(n, accepted)
  PROVE  r.pass.kind = "accept"
<1> PICK k : k = Pass("accept", n.pass.base, n.pass.tokens, accepted)
  OBVIOUS
<1>1. k.kind = "accept"
  BY PassFacts
<1>2. CASE Fused
  <2> PICK fed : fed = Append(n.fed, Last(NewPairs(n, accepted)))
    OBVIOUS
  <2>1. r = [n EXCEPT !.phase = "ready", !.pass = k, !.fed = fed]
    BY <1>2 DEF AfterRound
  <2> QED BY ONLY <1>1, <2>1, DOMAIN n = LaneFields DEF LaneFields
<1>3. CASE ~Fused
  <2> PICK o, trim, fed : /\ o = Runs(n, k) /\ trim = n.round_appended - KeepAppended(n, accepted)
                          /\ fed = SubSeq(n.fed, 1, Len(n.fed) - trim) \o NewPairs(n, accepted)
    OBVIOUS
  <2>1. r = [o EXCEPT !.length[Adapter] = @ - trim, !.next_position = @ - trim, !.fed = fed]
    BY <1>3 DEF AfterRound, AcceptVerified
  <2>2. DOMAIN o = LaneFields /\ o.pass = k
    BY ONLY DOMAIN n = LaneFields, o = Runs(n, k), RunsFacts
  <2>3. r.pass = k
    BY ONLY <2>1, <2>2 DEF LaneFields
  <2> QED BY <1>1, <2>3
<1> QED BY <1>2, <1>3

(* Its outcome: only a rejection takes back. *)
LEMMA SettleAtomic ==
  ASSUME RuntimeInv, RuntimeInv', NEW p \in Lanes, Settle(p)
  PROVE  Atomic(p)
<1> PICK n, kinds, accepted, history : n = lane[p] /\ kinds = {"verify"} /\ accepted = AcceptedCount(n)
                                       /\ history = TokenContext(n, accepted + 1)
  OBVIOUS
<1> PICK m : m = [n EXCEPT !.history = history]
  OBVIOUS
<1>1. Ready(p, kinds)
  BY DEF Settle
<1>2. Sound(n) /\ n.pass.kind = "verify" /\ n.phase = "ready"
  <2>1. Sound(n) /\ n.pass.kind \in kinds /\ n.phase = "ready"
    BY <1>1, AtRest
  <2> QED BY <2>1
<1>3. n.active = TRUE /\ DOMAIN n = LaneFields
  BY <1>2, VerifyIsActive DEF Sound, Shape
<1> PICK r : r = IF accepted = Len(n.pass.tokens) - 1 THEN AfterRound(CommitSpeculation(m), accepted)
                 ELSE IF env.verify = "graph" /\ n.kept > 0
                      THEN AfterRound(CommitPrefix(m, accepted + 1), accepted)
                      ELSE Runs(RollBack(m), [n.pass EXCEPT !.kind = "replay", !.accepted = accepted])
  OBVIOUS
<1>4. lane'[p] = r
  <2>1. lane' = [lane EXCEPT ![p] = r]
    BY DEF Settle
  <2> QED BY <2>1 DEF RuntimeInv
<1>5. ASSUME NEW o, DOMAIN o = LaneFields, r = AfterRound(o, accepted) PROVE Atomic(p)
  <2>1. r.pass.kind = "accept"
    BY ONLY <1>5, AfterRoundKind
  <2>2. lane'[p].pass.kind \notin {"verify", "replay"}
    BY <1>4, <2>1
  <2> QED BY <2>2, AtomicOther
<1>6. DOMAIN m = LaneFields /\ m.mem = n.mem /\ m.length = n.length /\ m.full_lengths = n.full_lengths
  BY ONLY <1>3, m = [n EXCEPT !.history = history] DEF LaneFields
<1>7. CASE accepted = Len(n.pass.tokens) - 1
  <2> PICK o : o = CommitSpeculation(m)
    OBVIOUS
  <2>1. DOMAIN o = LaneFields
    BY <1>6 DEF CommitSpeculation
  <2> QED BY <1>5, <1>7, <2>1
<1>8. CASE accepted # Len(n.pass.tokens) - 1 /\ env.verify = "graph" /\ n.kept > 0
  <2> PICK o : o = CommitPrefix(m, accepted + 1)
    OBVIOUS
  <2>1. DOMAIN o = LaneFields
    BY <1>6 DEF CommitPrefix
  <2> QED BY <1>5, <1>8, <2>1
<1>9. CASE accepted # Len(n.pass.tokens) - 1 /\ ~(env.verify = "graph" /\ n.kept > 0)
  <2> PICK k, o, length : /\ k = [n.pass EXCEPT !.kind = "replay", !.accepted = accepted] /\ o = RollBack(m)
                          /\ length = Truncated(m, 0)
    OBVIOUS
  <2>1. r = Runs(o, k)
    BY <1>9
  <2>2. o = [m EXCEPT !.length = length, !.active = FALSE]
    BY DEF RollBack
  <2>3. DOMAIN o = LaneFields /\ o.mem = n.mem /\ o.length = length
    BY ONLY <1>6, <2>2 DEF LaneFields
  <2>4. r.mem = n.mem /\ r.length = length /\ r.pass = k
    BY ONLY <2>1, <2>3, RunsFacts
  <2>5. k.kind = "replay"
    BY <1>2 DEF Sound, Shape
  <2>6. \A l \in FullLayers : length[l] = n.full_lengths[l]
    <3>1. \A l \in FullLayers : n.full_lengths[l] \in Nat
      BY <1>2 DEF Sound, Rounds, Verified
    <3>2. \A l \in FullLayers : length[l] = n.full_lengths[l] + 0
      BY <1>6, LayerFacts DEF Truncated
    <3> QED BY <3>1, <3>2
  <2>7. Keeps(n, r, Committed(n)) /\ Committed(n) = n.full_lengths
    BY <1>3, <2>4 DEF Keeps, SameFirst, Committed
  <2>8. Withdrawn(n, r)
    BY ONLY <2>4, <2>6, <2>7 DEF Withdrawn
  <2>9. UnderWay(n, r)
    <3>1. lane'[p].pass.kind # "verify"
      BY <1>4, <2>4, <2>5
    <3> QED BY <1>4, <3>1, NotVerifying
  <2> QED BY <1>4, <2>8, <2>9 DEF Atomic
<1> QED BY <1>7, <1>8, <1>9

(* The accepted tokens have run. *)
LEMMA ReplayedAtomic ==
  ASSUME RuntimeInv, RuntimeInv', NEW p \in Lanes, Replayed(p)
  PROVE  Atomic(p)
<1> PICK n, kinds, accepted, r : n = lane[p] /\ kinds = {"replay"} /\ accepted = n.pass.accepted /\ r = AfterRound(n, accepted)
  OBVIOUS
<1>1. Ready(p, kinds) /\ lane' = [lane EXCEPT ![p] = r]
  BY DEF Replayed
<1>2. DOMAIN n = LaneFields /\ lane'[p] = r
  BY <1>1, AtRest DEF Sound, Shape, RuntimeInv
<1>3. r.pass.kind = "accept"
  BY ONLY <1>2, r = AfterRound(n, accepted), AfterRoundKind
<1> QED BY <1>2, <1>3, AtomicOther

(* The passes that begin or end with another kind. *)
LEMMA NewKinds ==
  ASSUME RuntimeInv, NEW p \in Lanes
  PROVE  /\ \A prompt : Start(p, prompt) => lane'[p].pass.kind = "prompt"
         /\ \A q, suffix : StartFromPrefix(p, q, suffix) => lane'[p].pass.kind = "prompt"
         /\ Leave(p) => lane'[p].pass.kind = "none"
<1>1. DOMAIN lane = Lanes
  BY DEF RuntimeInv
<1>2. ASSUME NEW mem, NEW length, NEW history, NEW k, lane' = [lane EXCEPT ![p] = NewLane(mem, length, history, k)]
      PROVE  lane'[p].pass = k
  BY <1>1, <1>2 DEF NewLane
<1>3. \A base, tokens : Pass("prompt", base, tokens, 0).kind = "prompt"
  BY DEF Pass
<1>4. ASSUME NEW prompt, Start(p, prompt) PROVE lane'[p].pass.kind = "prompt"
  <2> PICK mem, length, base, k : /\ mem = NewMemory /\ length = [l \in Caches |-> 0] /\ base = <<>> /\ k = Pass("prompt", base, prompt, 0)
    OBVIOUS
  <2>1. lane' = [lane EXCEPT ![p] = NewLane(mem, length, prompt, k)]
    BY <1>4 DEF Start
  <2> QED BY <1>2, <1>3, <2>1
<1>5. ASSUME NEW q, NEW suffix, StartFromPrefix(p, q, suffix) PROVE lane'[p].pass.kind = "prompt"
  <2> PICK last, mem : mem = [ForkedMemory(q) EXCEPT ![Host("hidden")] = last]
                       /\ lane' = [lane EXCEPT ![p] = NewLane(mem, lane[q].length, lane[q].history \o suffix, Pass("prompt", lane[q].history, suffix, 0))]
    BY <1>5 DEF StartFromPrefix
  <2> QED BY <1>2, <1>3
<1>6. ASSUME Leave(p) PROVE lane'[p].pass.kind = "none"
  <2>1. lane'[p] = FreeLane
    BY <1>1, <1>6 DEF Leave
  <2>2. FreeLane.pass = NoPass
    BY DEF FreeLane, NewLane
  <2> QED BY <2>1, <2>2 DEF NoPass, Pass
<1> QED BY <1>4, <1>5, <1>6

(* The passes of a request at rest. *)
LEMMA TurnedKinds ==
  ASSUME RuntimeInv, NEW p \in Lanes
  PROVE  /\ \A token : NextToken(p, token) => lane'[p].pass.kind = "token"
         /\ AdapterPrompt(p) => lane'[p].pass.kind = "adapter"
         /\ \A seed : Draft(p, seed) => lane'[p].pass.kind = "draft"
<1>1. DOMAIN lane = Lanes
  BY DEF RuntimeInv
<1> PICK n : n = lane[p]
  OBVIOUS
<1>2. n.phase = "ready" => DOMAIN n = LaneFields
  BY DEF RuntimeInv, LaneSound, Sound, Shape
<1>3. ASSUME NEW token, NextToken(p, token) PROVE lane'[p].pass.kind = "token"
  <2> PICK k, o : k = Pass("token", n.history, <<token>>, 0) /\ o = Runs(n, k)
    OBVIOUS
  <2>1. lane' = [lane EXCEPT ![p] = [o EXCEPT !.history = Append(@, token)]] /\ n.phase = "ready"
    BY <1>3 DEF NextToken, Ready
  <2>2. DOMAIN o = LaneFields /\ o.pass = k
    BY <1>2, <2>1, RunsFacts
  <2>3. lane'[p].pass = k
    BY ONLY <1>1, <2>1, <2>2, p \in Lanes DEF LaneFields
  <2> QED BY <2>3, PassFacts
<1>4. ASSUME AdapterPrompt(p) PROVE lane'[p].pass.kind = "adapter"
  <2> PICK k, o, fed, prompt : /\ k = Pass("adapter", n.history, <<>>, 0) /\ o = Runs(n, k)
                               /\ fed = PromptPairs(n.history) /\ prompt = Len(n.history)
    OBVIOUS
  <2>1. lane' = [lane EXCEPT ![p] = [o EXCEPT !.fed = fed, !.prompt = prompt]] /\ n.phase = "ready"
    BY <1>4 DEF AdapterPrompt, Ready
  <2>2. DOMAIN o = LaneFields /\ o.pass = k
    BY <1>2, <2>1, RunsFacts
  <2>3. lane'[p].pass = k
    BY ONLY <1>1, <2>1, <2>2, p \in Lanes DEF LaneFields
  <2> QED BY <2>3, PassFacts
<1>5. ASSUME NEW seed, Draft(p, seed) PROVE lane'[p].pass.kind = "draft"
  <2> PICK k, o, e : k = Pass("draft", n.history, <<seed>>, 0) /\ o = Runs(n, k) /\ e = Fed(<<>>, seed)
    OBVIOUS
  <2>1. lane' = [lane EXCEPT ![p] = [o EXCEPT !.fed = Append(@, e), !.round_appended = 1]] /\ n.phase = "ready"
    BY <1>5 DEF Draft, Ready
  <2>2. DOMAIN o = LaneFields /\ o.pass = k
    BY <1>2, <2>1, RunsFacts
  <2>3. lane'[p].pass = k
    BY ONLY <1>1, <2>1, <2>2, p \in Lanes DEF LaneFields
  <2> QED BY <2>3, PassFacts
<1> QED BY <1>3, <1>4, <1>5

(* Every step of every lane. *)
LEMMA AtomicStep ==
  ASSUME RuntimeInv, RuntimeInv', [Next]_vars
  PROVE  SpeculationIsAtomic
<1>0. DOMAIN lane = Lanes
  BY DEF RuntimeInv
<1>1. ASSUME NEW p \in Lanes, Atomic(p), \E r : lane' = [lane EXCEPT ![p] = r] PROVE SpeculationIsAtomic
  <2>1. ASSUME NEW q \in Lanes PROVE Atomic(q)
    <3>1. q # p => lane'[q] = lane[q]
      BY <1>0, <1>1
    <3> QED BY <1>1, <3>1, AtomicElsewhere
  <2> QED BY <2>1 DEF SpeculationIsAtomic, Atomic
<1>2. ASSUME NEW p \in Lanes, NEW prompt, Start(p, prompt) PROVE SpeculationIsAtomic
  <2>1. Atomic(p)
    BY <1>2, NewKinds, AtomicOther
  <2> QED BY <1>1, <1>2, <2>1 DEF Start
<1>3. ASSUME NEW p \in Lanes, NEW q, NEW suffix, StartFromPrefix(p, q, suffix) PROVE SpeculationIsAtomic
  <2>1. Atomic(p)
    BY <1>3, NewKinds, AtomicOther
  <2>2. \E r : lane' = [lane EXCEPT ![p] = r]
    BY <1>3 DEF StartFromPrefix
  <2> QED BY <1>1, <2>1, <2>2
<1>4. ASSUME NEW p \in Lanes, NEW token, NextToken(p, token) PROVE SpeculationIsAtomic
  <2>1. Atomic(p)
    BY <1>4, TurnedKinds, AtomicOther
  <2> QED BY <1>1, <1>4, <2>1 DEF NextToken
<1>5. ASSUME NEW p \in Lanes, AdapterPrompt(p) PROVE SpeculationIsAtomic
  <2>1. Atomic(p)
    BY <1>5, TurnedKinds, AtomicOther
  <2> QED BY <1>1, <1>5, <2>1 DEF AdapterPrompt
<1>6. ASSUME NEW p \in Lanes, NEW seed, Draft(p, seed) PROVE SpeculationIsAtomic
  <2>1. Atomic(p)
    BY <1>6, TurnedKinds, AtomicOther
  <2> QED BY <1>1, <1>6, <2>1 DEF Draft
<1>7. ASSUME NEW p \in Lanes, NEW draft, Verify(p, <<draft>>) PROVE SpeculationIsAtomic
  <2>1. Atomic(p)
    BY <1>7, VerifyAtomic
  <2> QED BY <1>1, <1>7, <2>1 DEF Verify
<1>8. ASSUME NEW p \in Lanes, Settle(p) PROVE SpeculationIsAtomic
  <2>1. Atomic(p)
    BY <1>8, SettleAtomic
  <2> QED BY <1>1, <1>8, <2>1 DEF Settle
<1>9. ASSUME NEW p \in Lanes, Replayed(p) PROVE SpeculationIsAtomic
  <2>1. Atomic(p)
    BY <1>9, ReplayedAtomic
  <2> QED BY <1>1, <1>9, <2>1 DEF Replayed
<1>10. ASSUME NEW p \in Lanes, Work(p) PROVE SpeculationIsAtomic
  <2>1. Atomic(p)
    BY <1>10, WorkAtomic
  <2> PICK call, last : RunGraph(p, call, last) \/ Submit(p, call) \/ Complete(p, call, last)
    BY <1>10 DEF Work
  <2>2. \E r : lane' = [lane EXCEPT ![p] = r]
    BY <1>0 DEF RunGraph, Submit, Complete
  <2> QED BY <1>1, <2>1, <2>2
<1>11. ASSUME NEW p \in Lanes, Leave(p) PROVE SpeculationIsAtomic
  <2>1. Atomic(p)
    BY <1>11, NewKinds, AtomicOther
  <2> QED BY <1>1, <1>11, <2>1 DEF Leave
<1>12. ASSUME UNCHANGED vars PROVE SpeculationIsAtomic
  BY <1>12, NothingHappened DEF SpeculationIsAtomic, vars
<1> QED BY <1>2, <1>3, <1>4, <1>5, <1>6, <1>7, <1>8, <1>9, <1>10, <1>11, <1>12 DEF Next, Idle

(* The cache of the committed tokens, in a cache that begins with the same. *)
LEMMA RightStays ==
  ASSUME NEW mem, NEW new, NEW kv, NEW l, NEW ctx, NEW k \in Nat, k = Len(ctx), RightCache(mem, kv, l, ctx),
         SameFirst(mem[kv], new[kv], k), Len(mem[kv]) \in Nat, Len(new[kv]) \in Nat, k <= Len(mem[kv]), k <= Len(new[kv])
  PROVE  RightCache(new, kv, l, ctx)
<1> SUFFICES ASSUME NEW t \in 1 .. k PROVE CachedToken(new, kv, t) = Val("kv", l, SubSeq(ctx, 1, t))
  BY DEF RightCache
<1>1. CachedToken(mem, kv, t) = Val("kv", l, SubSeq(ctx, 1, t))
  BY DEF RightCache
<1> PICK c, d, row : c = mem[kv] /\ d = new[kv] /\ row = t - 1
  OBVIOUS
<1>2. d[t] = c[t]
  BY DEF SameFirst
<1>3. ~((row + 1) * 1 > Len(c)) /\ ~((row + 1) * 1 > Len(d)) /\ row * 1 + 1 = t /\ 1 .. 1 = {1}
  <2> PICK a, b : a = Len(c) /\ b = Len(d)
    OBVIOUS
  <2>1. a \in Nat /\ b \in Nat /\ k <= a /\ k <= b
    OBVIOUS
  <2>2. ~((row + 1) * 1 > a) /\ ~((row + 1) * 1 > b) /\ row * 1 + 1 = t
    BY <2>1
  <2> QED BY <2>2
<1>4. Read(d, 1, row) = Read(c, 1, row)
  BY ONLY <1>2, <1>3 DEF Read
<1> QED BY <1>1, <1>4 DEF CachedToken

(* The caches of the committed tokens stay right through a step. *)
LEMMA SafeStep ==
  ASSUME RuntimeInv, RuntimeInv', SpeculationIsAtomic, CacheHoldsSequence, CommittedStateSafe
  PROVE  CommittedStateSafe'
<1> SUFFICES ASSUME NEW p \in Lanes, lane'[p].active
             PROVE  /\ \A l \in FullLayers : /\ lane'[p].full_lengths[l] = Len(lane'[p].history)
                                             /\ RightCache(lane'[p].mem, Kv(l), l, lane'[p].history)
                    /\ \A l \in LinearLayers, part \in Parts :
                         lane'[p].mem[StateOf(l, "active", part)] = RowOf(Val(part, l, lane'[p].history), Width["state"])
  BY DEF CommittedStateSafe
<1> PICK n, o : n = lane[p] /\ o = lane'[p]
  OBVIOUS
<1>1. UnderWay(n, o) /\ LaneSound(p) /\ LaneSound(p)'
  BY DEF SpeculationIsAtomic, RuntimeInv
<1>2. o.active = TRUE
  BY <1>1 DEF LaneSound
<1>3. /\ n.active \/ n.phase = "ready"
      /\ o.history = n.history /\ Keeps(n, o, Committed(n)) /\ \A l \in FullLayers : o.full_lengths[l] = Committed(n)[l]
  BY <1>1, <1>2 DEF UnderWay
<1>4. /\ \A l \in FullLayers : Committed(n)[l] = Len(n.history) /\ RightCache(n.mem, Kv(l), l, n.history)
      /\ \A l \in LinearLayers, part \in Parts : n.mem[StateOf(l, "active", part)] = RowOf(Val(part, l, n.history), Width["state"])
  <2>1. CASE n.active
    BY <2>1 DEF Committed, CommittedStateSafe
  <2>2. CASE ~n.active
    BY <1>3, <2>2 DEF Committed, CacheHoldsSequence
  <2> QED BY <2>1, <2>2
<1>5. \A l \in FullLayers : Committed(n)[l] \in Nat /\ Committed(n)[l] <= Len(n.mem[Kv(l)]) /\ Len(n.mem[Kv(l)]) \in Nat
  <2>1. \A l \in FullLayers : Holds(n.mem[Kv(l)], n.length[l])
    <3>1. n.phase # "free"
      BY <1>1, <1>3 DEF LaneSound
    <3> QED BY <1>1, <3>1, LayerFacts DEF LaneSound, Sound, Shape
  <2>2. CASE n.active = TRUE
    <3>1. ASSUME NEW l \in FullLayers PROVE n.full_lengths[l] \in Nat /\ n.full_lengths[l] <= Len(n.mem[Kv(l)])
      <4> PICK a, b, c : a = n.full_lengths[l] /\ b = n.length[l] /\ c = Len(n.mem[Kv(l)])
        OBVIOUS
      <4>1. a \in Nat /\ b \in Nat /\ a <= b
        BY <2>2, VerifyWhileActive
      <4>2. b <= c /\ c \in Nat
        BY <2>1 DEF Holds, IsCapacity
      <4> QED BY <4>1, <4>2
    <3> QED BY <2>1, <2>2, <3>1 DEF Committed, Holds, IsCapacity
  <2>3. CASE n.active = FALSE
    BY <2>1, <2>3 DEF Committed, Holds, IsCapacity
  <2> QED BY <1>1, <2>2, <2>3 DEF LaneSound
<1>6. \A l \in FullLayers : Committed(n)[l] <= Len(o.mem[Kv(l)]) /\ Len(o.mem[Kv(l)]) \in Nat
  <2>1. /\ (Sound(lane[p]))' /\ o.pass.kind = "verify"
    <3>1. (lane[p].phase # "free")' /\ Sound(lane[p])'
      BY <1>1, <1>2 DEF LaneSound
    <3>2. (lane[p].pass.kind # "verify" => lane[p].active = FALSE)'
      BY <3>1 DEF Sound, Rounds
    <3> QED BY <1>2, <3>1, <3>2
  <2>2. Shape(lane[p])' /\ Verified(lane[p])'
    <3>1. (Sound(lane[p]) /\ lane[p].pass.kind = "verify" => Shape(lane[p]) /\ Verified(lane[p]))'
      BY DEF Sound, Rounds
    <3> QED BY <2>1, <3>1
  <2>3. ASSUME NEW l \in FullLayers PROVE Committed(n)[l] <= Len(o.mem[Kv(l)]) /\ Len(o.mem[Kv(l)]) \in Nat
    <3> PICK a, b, c : a = o.full_lengths[l] /\ b = o.length[l] /\ c = Len(o.mem[Kv(l)])
      OBVIOUS
    <3>1. a \in Nat /\ a <= b
      BY <2>2 DEF Verified
    <3>2. b \in Nat /\ b <= c /\ c \in Nat
      BY <2>2, LayerFacts DEF Shape, Holds, IsCapacity
    <3>3. a <= c
      BY <3>1, <3>2
    <3> QED BY <1>3, <3>2, <3>3
  <2> QED BY <2>3
<1>7. ASSUME NEW l \in FullLayers PROVE o.full_lengths[l] = Len(o.history) /\ RightCache(o.mem, Kv(l), l, o.history)
  <2> PICK mem, new, kv, ctx, k : mem = n.mem /\ new = o.mem /\ kv = Kv(l) /\ ctx = n.history /\ k = Committed(n)[l]
    OBVIOUS
  <2>1. k = Len(ctx) /\ RightCache(mem, kv, l, ctx) /\ SameFirst(mem[kv], new[kv], k)
    BY <1>3, <1>4 DEF Keeps
  <2>2. k \in Nat /\ Len(mem[kv]) \in Nat /\ Len(new[kv]) \in Nat /\ k <= Len(mem[kv]) /\ k <= Len(new[kv])
    BY <1>5, <1>6
  <2>3. RightCache(new, kv, l, ctx)
    BY ONLY <2>1, <2>2, RightStays
  <2> QED BY <1>3, <2>1, <2>3
<1>8. \A l \in LinearLayers, part \in Parts : o.mem[StateOf(l, "active", part)] = RowOf(Val(part, l, o.history), Width["state"])
  BY <1>3, <1>4 DEF Keeps
<1> QED BY <1>7, <1>8

(* The invariant is true in every state. *)
LEMMA RuntimeInvHolds == Spec => []RuntimeInv
<1>1. RuntimeInv /\ [Next]_vars => RuntimeInv'
  BY RuntimeInvStep
<1> QED BY RuntimeInvInit, <1>1, PTL DEF Spec

(* The speculative transaction: begin_speculation and every call of the          *)
(* verification leave the active recurrent states, the committed first cells of  *)
(* the caches and what was noted of their lengths alone, whatever is drafted and *)
(* on whichever path; and a rejected round is given back exactly what there was  *)
(* before it, states, cells and lengths.                                         *)
THEOREM SpeculationHolds == Spec => [][SpeculationIsAtomic]_vars
<1>1. RuntimeInv /\ RuntimeInv' /\ [Next]_vars => SpeculationIsAtomic
  BY AtomicStep
<1> QED BY <1>1, RuntimeInvHolds, PTL DEF Spec

(* CommittedStateSafe: while a verification is under way the active states and *)
(* the first cells of the caches are those of the committed tokens, in any     *)
(* state of a behaviour in which, between the passes, the caches hold their    *)
(* requests' tokens (CacheHoldsSequence).                                      *)
THEOREM CommittedIsSafe == Spec /\ []CacheHoldsSequence => []CommittedStateSafe
<1>1. Init => CommittedStateSafe
  <2> SUFFICES ASSUME Init, NEW p \in Lanes PROVE ~lane[p].active
    BY DEF CommittedStateSafe
  <2> QED BY FreeFacts DEF Init
<1>2. RuntimeInv /\ RuntimeInv' /\ [Next]_vars /\ CacheHoldsSequence /\ CommittedStateSafe => CommittedStateSafe'
  BY AtomicStep, SafeStep
<1> QED BY <1>1, <1>2, RuntimeInvHolds, PTL DEF Spec

=============================================================================
