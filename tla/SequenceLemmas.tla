--------------------------- MODULE SequenceLemmas ---------------------------
(***************************************************************************)
(* What the proofs about decoding, about the prompt cache and about the    *)
(* parsing of answers need to know of numbers and sequences: least and     *)
(* greatest elements, prefixes, and the concatenations that a round of     *)
(* speculation and the text of an answer are made of.                      *)
(***************************************************************************)
EXTENDS SequencesExt, FiniteSetsExt, Integers, SequenceTheorems,
        WellFoundedInduction, TLAPS

-----------------------------------------------------------------------------
(* Numbers.                                                                 *)

(* The ordering of the natural numbers is well founded. *)
LEMMA LeastElement ==
  ASSUME NEW S \in SUBSET Nat, S # {}
  PROVE  \E x \in S : \A y \in S : x <= y
<1>1. IsWellFoundedOn(OpToRel(<, Nat), Nat)
  BY NatLessThanWellFounded
<1>2. PICK x \in S : \A y \in S : ~(<<y, x>> \in OpToRel(<, Nat))
  BY <1>1, WFMin
<1>3. \A y \in S : ~(y < x)
  BY <1>2 DEF OpToRel
<1> QED
  BY <1>3

LEMMA MinOfNaturals ==
  ASSUME NEW S \in SUBSET Nat, S # {}
  PROVE  Min(S) \in S /\ \A y \in S : Min(S) <= y
BY LeastElement DEF Min

LEMMA GreatestElement ==
  ASSUME NEW S \in SUBSET Nat, S # {}, NEW bound \in Nat, \A x \in S : x <= bound
  PROVE  \E x \in S : \A y \in S : y <= x
<1> DEFINE below == {n \in 0 .. bound : bound - n \in S}
<1>1. below \in SUBSET Nat
  OBVIOUS
<1>2. PICK x \in S : TRUE
  OBVIOUS
<1>3. bound - x \in below
  BY <1>2
<1>4. PICK n \in below : \A m \in below : n <= m
  BY <1>1, <1>3, LeastElement
<1>5. bound - n \in S
  BY <1>4
<1>6. ASSUME NEW y \in S PROVE y <= bound - n
  <2>1. bound - y \in below
    OBVIOUS
  <2> QED
    BY <1>4, <2>1
<1> QED
  BY <1>5, <1>6

LEMMA MaxOfNaturals ==
  ASSUME NEW S \in SUBSET Nat, S # {}, NEW bound \in Nat, \A x \in S : x <= bound
  PROVE  Max(S) \in S /\ \A y \in S : y <= Max(S)
<1>1. PICK x \in S : \A y \in S : x >= y
  BY GreatestElement
<1> QED
  BY <1>1 DEF Max

LEMMA MinOfTwo ==
  ASSUME NEW a \in Int, NEW b \in Int
  PROVE  Min({a, b}) = IF a <= b THEN a ELSE b
BY DEF Min

-----------------------------------------------------------------------------
(* Prefixes.                                                                *)

LEMMA PrefixRows ==
  ASSUME NEW S, NEW s \in Seq(S), NEW t \in Seq(S)
  PROVE  IsPrefix(s, t) <=> Len(s) <= Len(t) /\ \A i \in 1 .. Len(s) : s[i] = t[i]
<1>1. SubSeq(s, 1, Len(s)) = s
  BY SubSeqFull
<1>2. ASSUME Len(s) <= Len(t)
      PROVE  /\ SubSeq(t, 1, Len(s)) \in Seq(S)
             /\ Len(SubSeq(t, 1, Len(s))) = Len(s)
             /\ \A i \in 1 .. Len(s) : SubSeq(t, 1, Len(s))[i] = t[i]
  <2>1. \A i \in 1 .. Len(s) : t[i] \in S
    BY <1>2, ElementOfSeq
  <2> QED
    BY <2>1, <1>2
<1>3. ASSUME Len(s) <= Len(t), \A i \in 1 .. Len(s) : s[i] = t[i]
      PROVE  s = SubSeq(t, 1, Len(s))
  BY <1>2, <1>3, SeqEqual
<1> QED
  BY <1>1, <1>2, <1>3 DEF IsPrefix

LEMMA EmptyPrefix ==
  ASSUME NEW S, NEW t \in Seq(S)
  PROVE  IsPrefix(<<>>, t)
<1> DEFINE none == <<>>
<1>1. none \in Seq(S) /\ Len(none) = 0 /\ Len(t) \in Nat
  BY EmptySeq
<1> HIDE DEF none
<1>2. Len(none) <= Len(t) /\ \A i \in 1 .. Len(none) : none[i] = t[i]
  BY <1>1
<1>3. IsPrefix(none, t)
  BY <1>1, <1>2, PrefixRows
<1> QED
  BY <1>3 DEF none

LEMMA PrefixTransitive ==
  ASSUME NEW S, NEW s \in Seq(S), NEW t \in Seq(S), NEW u \in Seq(S),
         IsPrefix(s, t), IsPrefix(t, u)
  PROVE  IsPrefix(s, u)
<1>1. Len(s) <= Len(t) /\ \A i \in 1 .. Len(s) : s[i] = t[i]
  BY PrefixRows
<1>2. Len(t) <= Len(u) /\ \A i \in 1 .. Len(t) : t[i] = u[i]
  BY PrefixRows
<1>3. Len(s) \in Nat /\ Len(t) \in Nat /\ Len(u) \in Nat
  OBVIOUS
<1>4. Len(s) <= Len(u) /\ \A i \in 1 .. Len(s) : s[i] = u[i]
  BY <1>1, <1>2, <1>3
<1> QED
  BY <1>4, PrefixRows

LEMMA PrefixOfAppend ==
  ASSUME NEW S, NEW s \in Seq(S), NEW t \in Seq(S), NEW e \in S
  PROVE  IsPrefix(Append(s, e), t) <=>
           IsPrefix(s, t) /\ Len(s) < Len(t) /\ t[Len(s) + 1] = e
<1>1. /\ Append(s, e) \in Seq(S) /\ Len(Append(s, e)) = Len(s) + 1
      /\ \A i \in 1 .. Len(s) : Append(s, e)[i] = s[i]
      /\ Append(s, e)[Len(s) + 1] = e
  BY AppendProperties
<1>2. Len(s) \in Nat /\ Len(t) \in Nat
  OBVIOUS
<1>3. IsPrefix(Append(s, e), t) <=>
        Len(s) + 1 <= Len(t) /\ \A i \in 1 .. Len(s) + 1 : Append(s, e)[i] = t[i]
  <2> DEFINE longer == Append(s, e)
  <2>1. longer \in Seq(S) /\ Len(longer) = Len(s) + 1
    BY <1>1
  <2> HIDE DEF longer
  <2>2. IsPrefix(longer, t) <=>
          Len(longer) <= Len(t) /\ \A i \in 1 .. Len(longer) : longer[i] = t[i]
    BY <2>1, PrefixRows
  <2> QED
    BY <2>1, <2>2 DEF longer
<1>4. IsPrefix(s, t) <=> Len(s) <= Len(t) /\ \A i \in 1 .. Len(s) : s[i] = t[i]
  BY PrefixRows
<1> QED
  BY <1>1, <1>2, <1>3, <1>4

-----------------------------------------------------------------------------
(* Concatenations.                                                          *)

LEMMA SingletonSeq ==
  ASSUME NEW S, NEW x \in S
  PROVE  <<x>> \in Seq(S) /\ Len(<<x>>) = 1
OBVIOUS

LEMMA BeginningOf ==
  ASSUME NEW S, NEW v \in Seq(S), NEW n \in 0 .. Len(v)
  PROVE  /\ SubSeq(v, 1, n) \in Seq(S) /\ Len(SubSeq(v, 1, n)) = n
         /\ \A i \in 1 .. n : SubSeq(v, 1, n)[i] = v[i]
<1>1. \A i \in 1 .. n : v[i] \in S
  BY ElementOfSeq
<1> QED
  BY <1>1

LEMMA BehindOf ==
  ASSUME NEW S, NEW t \in Seq(S), NEW i \in 1 .. Len(t) + 1
  PROVE  /\ SubSeq(t, i, Len(t)) \in Seq(S)
         /\ Len(SubSeq(t, i, Len(t))) = Len(t) - i + 1
         /\ \A j \in 1 .. Len(t) - i + 1 : SubSeq(t, i, Len(t))[j] = t[i + j - 1]
<1>1. Len(t) \in Nat /\ i \in Int /\ Len(t) \in Int
  OBVIOUS
<1>2. \A j \in i .. Len(t) : t[j] \in S
  BY <1>1, ElementOfSeq
<1>3. Len(SubSeq(t, i, Len(t))) = IF i <= Len(t) THEN Len(t) - i + 1 ELSE 0
  BY <1>1, <1>2, SubSeqProperties
<1>4. Len(SubSeq(t, i, Len(t))) = Len(t) - i + 1
  BY <1>1, <1>3
<1> QED
  BY <1>1, <1>2, <1>4, SubSeqProperties

LEMMA AppendBehind ==
  ASSUME NEW S, NEW u \in Seq(S), NEW v \in Seq(S), NEW y \in S
  PROVE  u \o Append(v, y) = Append(u \o v, y)
<1>1. <<y>> \in Seq(S)
  BY SingletonSeq
<1>2. Append(v, y) = v \o <<y>>
  BY AppendIsConcat
<1>3. u \o v \in Seq(S)
  BY ConcatProperties
<1>4. Append(u \o v, y) = (u \o v) \o <<y>>
  BY <1>3, AppendIsConcat
<1> QED
  BY <1>1, <1>2, <1>4, ConcatAssociative

(* The element that is fed in front of a sequence. *)
LEMMA FedInFront ==
  ASSUME NEW S, NEW u \in Seq(S), NEW x \in S, NEW v \in Seq(S)
  PROVE  /\ <<x>> \o v \in Seq(S) /\ Len(<<x>> \o v) = Len(v) + 1
         /\ u \o (<<x>> \o v) = Append(u, x) \o v
<1>1. <<x>> \in Seq(S) /\ Len(<<x>>) = 1
  BY SingletonSeq
<1>2. Append(u, x) = u \o <<x>>
  BY AppendIsConcat
<1> QED
  BY <1>1, <1>2, ConcatProperties, ConcatAssociative

LEMMA FedBeginning ==
  ASSUME NEW S, NEW x \in S, NEW v \in Seq(S), NEW n \in 0 .. Len(v)
  PROVE  SubSeq(<<x>> \o v, 1, n + 1) = <<x>> \o SubSeq(v, 1, n)
<1> DEFINE fed == <<x>> \o v
           short == <<x>> \o SubSeq(v, 1, n)
<1>0. <<x>> \in Seq(S) /\ Len(<<x>>) = 1
  BY SingletonSeq
<1>1. /\ fed \in Seq(S) /\ Len(fed) = Len(v) + 1
      /\ \A i \in 1 .. Len(v) + 1 : fed[i] = IF i <= 1 THEN <<x>>[i] ELSE v[i - 1]
  BY <1>0, ConcatProperties
<1>2. /\ SubSeq(v, 1, n) \in Seq(S) /\ Len(SubSeq(v, 1, n)) = n
      /\ \A i \in 1 .. n : SubSeq(v, 1, n)[i] = v[i]
  BY BeginningOf
<1>3. /\ short \in Seq(S) /\ Len(short) = n + 1
      /\ \A i \in 1 .. n + 1 : short[i] = IF i <= 1 THEN <<x>>[i] ELSE SubSeq(v, 1, n)[i - 1]
  BY <1>0, <1>2, ConcatProperties
<1>4. /\ SubSeq(fed, 1, n + 1) \in Seq(S) /\ Len(SubSeq(fed, 1, n + 1)) = n + 1
      /\ \A i \in 1 .. n + 1 : SubSeq(fed, 1, n + 1)[i] = fed[i]
  <2> HIDE DEF fed
  <2> QED BY <1>1, BeginningOf
<1>5. \A i \in 1 .. n + 1 : SubSeq(fed, 1, n + 1)[i] = short[i]
  <2> HIDE DEF fed, short
  <2> TAKE i \in 1 .. n + 1
  <2>1. CASE i = 1
    BY <2>1, <1>1, <1>3, <1>4
  <2>2. CASE i # 1
    <3>1. i - 1 \in 1 .. n /\ i \in 1 .. Len(v) + 1
      BY <2>2
    <3>2. fed[i] = v[i - 1] /\ short[i] = SubSeq(v, 1, n)[i - 1]
      BY <3>1, <1>1, <1>3
    <3> QED BY <3>1, <3>2, <1>2, <1>4
  <2> QED BY <2>1, <2>2
<1> HIDE DEF fed, short
<1>6. SubSeq(fed, 1, n + 1) = short
  BY <1>3, <1>4, <1>5, SeqEqual
<1> QED
  BY <1>6 DEF fed, short

LEMMA HeadMoves ==
  ASSUME NEW S, NEW u \in Seq(S), NEW v \in Seq(S), v # <<>>
  PROVE  /\ Tail(v) \in Seq(S) /\ Head(v) \in S /\ Len(Tail(v)) = Len(v) - 1
         /\ Append(u, Head(v)) \o Tail(v) = u \o v
<1>1. Tail(v) \in Seq(S) /\ Head(v) \in S /\ Len(Tail(v)) = Len(v) - 1
  BY HeadTailProperties
<1>2. v = <<Head(v)>> \o Tail(v)
  <2>1. <<Head(v)>> \in Seq(S) /\ Len(<<Head(v)>>) = 1
    BY <1>1, SingletonSeq
  <2>2. /\ <<Head(v)>> \o Tail(v) \in Seq(S) /\ Len(<<Head(v)>> \o Tail(v)) = Len(v)
        /\ \A i \in 1 .. Len(v) : (<<Head(v)>> \o Tail(v))[i] =
             IF i <= 1 THEN <<Head(v)>>[i] ELSE Tail(v)[i - 1]
    BY <1>1, <2>1, ConcatProperties
  <2>3. \A i \in 1 .. Len(v) : (<<Head(v)>> \o Tail(v))[i] = v[i]
    BY <1>1, <2>2, HeadTailProperties
  <2> QED BY <2>2, <2>3, SeqEqual
<1>3. u \o (<<Head(v)>> \o Tail(v)) = Append(u, Head(v)) \o Tail(v)
  BY <1>1, FedInFront
<1> QED
  BY <1>1, <1>2, <1>3

LEMMA CutBehind ==
  ASSUME NEW S, NEW u \in Seq(S), NEW v \in Seq(S), NEW n \in 0 .. Len(v)
  PROVE  SubSeq(u \o v, 1, Len(u) + n) = u \o SubSeq(v, 1, n)
<1> DEFINE all == u \o v
           short == u \o SubSeq(v, 1, n)
<1>1. /\ all \in Seq(S) /\ Len(all) = Len(u) + Len(v)
      /\ \A i \in 1 .. Len(u) + Len(v) : all[i] = IF i <= Len(u) THEN u[i] ELSE v[i - Len(u)]
  BY ConcatProperties
<1>2. /\ SubSeq(v, 1, n) \in Seq(S) /\ Len(SubSeq(v, 1, n)) = n
      /\ \A i \in 1 .. n : SubSeq(v, 1, n)[i] = v[i]
  BY BeginningOf
<1>3. /\ short \in Seq(S) /\ Len(short) = Len(u) + n
      /\ \A i \in 1 .. Len(u) + n : short[i] =
           IF i <= Len(u) THEN u[i] ELSE SubSeq(v, 1, n)[i - Len(u)]
  BY <1>2, ConcatProperties
<1>4. Len(u) \in Nat /\ Len(v) \in Nat
  OBVIOUS
<1> HIDE DEF all, short
<1>5. /\ SubSeq(all, 1, Len(u) + n) \in Seq(S) /\ Len(SubSeq(all, 1, Len(u) + n)) = Len(u) + n
      /\ \A i \in 1 .. Len(u) + n : SubSeq(all, 1, Len(u) + n)[i] = all[i]
  BY <1>1, <1>4, BeginningOf
<1>6. \A i \in 1 .. Len(u) + n : SubSeq(all, 1, Len(u) + n)[i] = short[i]
  <2> TAKE i \in 1 .. Len(u) + n
  <2>1. SubSeq(all, 1, Len(u) + n)[i] = all[i] /\ i \in 1 .. Len(u) + Len(v)
    BY <1>4, <1>5
  <2>2. CASE i <= Len(u)
    BY <1>1, <1>3, <2>1, <2>2
  <2>3. CASE ~(i <= Len(u))
    <3>1. i - Len(u) \in 1 .. n
      BY <1>4, <2>3
    <3> QED
      BY <1>1, <1>2, <1>3, <2>1, <2>3, <3>1
  <2> QED
    BY <2>2, <2>3
<1>7. SubSeq(all, 1, Len(u) + n) = short
  BY <1>3, <1>5, <1>6, SeqEqual
<1> QED
  BY <1>7 DEF all, short

LEMMA CutTwice ==
  ASSUME NEW S, NEW v \in Seq(S), NEW m \in 0 .. Len(v), NEW k \in 0 .. m
  PROVE  SubSeq(SubSeq(v, 1, m), 1, k) = SubSeq(v, 1, k)
<1> DEFINE cut == SubSeq(v, 1, m)
<1>1. cut \in Seq(S) /\ Len(cut) = m /\ \A i \in 1 .. m : cut[i] = v[i]
  BY BeginningOf
<1>2. /\ SubSeq(v, 1, k) \in Seq(S) /\ Len(SubSeq(v, 1, k)) = k
      /\ \A i \in 1 .. k : SubSeq(v, 1, k)[i] = v[i]
  BY BeginningOf
<1> HIDE DEF cut
<1>3. /\ SubSeq(cut, 1, k) \in Seq(S) /\ Len(SubSeq(cut, 1, k)) = k
      /\ \A i \in 1 .. k : SubSeq(cut, 1, k)[i] = cut[i]
  BY <1>1, BeginningOf
<1>4. SubSeq(cut, 1, k) = SubSeq(v, 1, k)
  BY <1>1, <1>2, <1>3, SeqEqual
<1> QED
  BY <1>4 DEF cut

(* A sequence extended by `m` elements of another, cut back to `k` of them. *)
LEMMA TakenBack ==
  ASSUME NEW S, NEW u \in Seq(S), NEW v \in Seq(S),
         NEW m \in 0 .. Len(v), NEW k \in 0 .. m
  PROVE  SubSeq(u \o SubSeq(v, 1, m), 1, Len(u \o SubSeq(v, 1, m)) - (m - k))
           = u \o SubSeq(v, 1, k)
<1>0. Len(u) \in Nat /\ Len(v) \in Nat
  OBVIOUS
<1>1. SubSeq(v, 1, m) \in Seq(S) /\ Len(SubSeq(v, 1, m)) = m
  BY BeginningOf
<1>2. Len(u \o SubSeq(v, 1, m)) = Len(u) + m
  BY <1>1, ConcatProperties
<1>3. Len(u \o SubSeq(v, 1, m)) - (m - k) = Len(u) + k
  BY <1>0, <1>2
<1>4. SubSeq(u \o SubSeq(v, 1, m), 1, Len(u) + k) = u \o SubSeq(SubSeq(v, 1, m), 1, k)
  <2> DEFINE w == SubSeq(v, 1, m)
  <2>1. w \in Seq(S) /\ Len(w) = m
    BY <1>1
  <2> HIDE DEF w
  <2>2. SubSeq(u \o w, 1, Len(u) + k) = u \o SubSeq(w, 1, k)
    BY <2>1, CutBehind
  <2> QED
    BY <2>2 DEF w
<1>5. SubSeq(SubSeq(v, 1, m), 1, k) = SubSeq(v, 1, k)
  BY CutTwice
<1> QED
  BY <1>3, <1>4, <1>5

(* What is missing of `n` elements, and one more element. *)
LEMMA Extended ==
  ASSUME NEW S, NEW u \in Seq(S), NEW v \in Seq(S), NEW y \in S,
         NEW n \in 0 .. Len(v), NEW k \in 0 .. n
  PROVE  (u \o SubSeq(v, 1, k)) \o SubSeq(v, k + 1, n) \o <<y>>
           = Append(u \o SubSeq(v, 1, n), y)
<1>0. Len(v) \in Nat
  OBVIOUS
<1>1. k \in 0 .. Len(v)
  BY <1>0
<1>2. /\ SubSeq(v, 1, k) \in Seq(S) /\ SubSeq(v, k + 1, n) \in Seq(S)
      /\ SubSeq(v, 1, n) \in Seq(S)
  <2>1. \A i \in k + 1 .. n : v[i] \in S
    BY <1>0, ElementOfSeq
  <2> QED
    BY <1>1, <2>1, BeginningOf, SubSeqProperties
<1>3. SubSeq(v, 1, k) \o SubSeq(v, k + 1, n) = SubSeq(v, 1, n)
  <2>1. 1 \in 1 .. Len(v) + 1 /\ k \in 1 - 1 .. Len(v) /\ n \in k .. Len(v)
    BY <1>0
  <2> QED
    BY <2>1, ConcatAdjacentSubSeq
<1>4. (u \o SubSeq(v, 1, k)) \o SubSeq(v, k + 1, n) = u \o SubSeq(v, 1, n)
  <2> DEFINE a == SubSeq(v, 1, k)
             b == SubSeq(v, k + 1, n)
  <2>1. a \in Seq(S) /\ b \in Seq(S)
    BY <1>2
  <2> HIDE DEF a, b
  <2>2. (u \o a) \o b = u \o (a \o b)
    BY <2>1, ConcatAssociative
  <2> QED
    BY <1>3, <2>2 DEF a, b
<1>5. Append(u \o SubSeq(v, 1, n), y) = (u \o SubSeq(v, 1, n)) \o <<y>>
  BY <1>2, ConcatProperties, AppendIsConcat
<1> QED
  BY <1>4, <1>5

-----------------------------------------------------------------------------
(* Iterations, as a recursive function computes them.                       *)

(* Induction up to a bound. *)
LEMMA UpTo ==
  ASSUME NEW N \in Nat, NEW P, 0 \in P, \A n \in 1 .. N : n - 1 \in P => n \in P
  PROVE  \A n \in 0 .. N : n \in P
<1> DEFINE rest == {n \in 0 .. N : n \notin P}
<1>1. rest = {}
  <2> SUFFICES ASSUME rest # {} PROVE FALSE
    OBVIOUS
  <2>1. rest \in SUBSET Nat
    OBVIOUS
  <2>2. PICK k \in rest : \A m \in rest : k <= m
    BY <2>1, LeastElement
  <2>3. k \in 1 .. N /\ k - 1 \in 0 .. N /\ ~(k <= k - 1)
    OBVIOUS
  <2> QED
    BY <2>2, <2>3
<1> QED
  BY <1>1

(* `f` takes the steps one after the other, from `x`. *)
Iterates(f, x, step, N) == f[0] = x /\ \A n \in 1 .. N : f[n] = step[n][f[n - 1]]

LEMMA IterationExists ==
  ASSUME NEW S, NEW N \in Nat, NEW step \in [1 .. N -> [S -> S]], NEW x \in S
  PROVE  \E f \in [0 .. N -> S] : Iterates(f, x, step, N)
<1> DEFINE Iterated(k) == \E f \in [0 .. k -> S] : Iterates(f, x, step, k)
           P == {k \in 0 .. N : Iterated(k)}
<1>1. Iterated(0)
  <2> DEFINE f == [n \in 0 .. 0 |-> x]
  <2>1. f \in [0 .. 0 -> S] /\ f[0] = x
    OBVIOUS
  <2>2. 1 .. 0 = {}
    OBVIOUS
  <2>3. Iterates(f, x, step, 0)
    BY <2>1, <2>2 DEF Iterates
  <2> QED
    BY <2>1, <2>3
<1>2. ASSUME NEW k \in 1 .. N, Iterated(k - 1) PROVE Iterated(k)
  <2>1. PICK f \in [0 .. k - 1 -> S] : Iterates(f, x, step, k - 1)
    BY <1>2
  <2> DEFINE g == [n \in 0 .. k |-> IF n = k THEN step[k][f[k - 1]] ELSE f[n]]
  <2>2. k \in Nat /\ k # 0 /\ k - 1 \in 0 .. k - 1
    OBVIOUS
  <2>2a. f[k - 1] \in S /\ step[k] \in [S -> S]
    BY <2>2
  <2>2b. step[k][f[k - 1]] \in S
    BY <2>2a
  <2>3. g \in [0 .. k -> S] /\ g[0] = x
    BY <2>1, <2>2, <2>2b DEF Iterates
  <2>4. ASSUME NEW n \in 1 .. k PROVE g[n] = step[n][g[n - 1]]
    <3>1. n \in 0 .. k /\ n - 1 \in 0 .. k - 1 /\ n - 1 \in 0 .. k /\ n - 1 # k
      BY <2>2
    <3>2. g[n - 1] = f[n - 1]
      BY <3>1
    <3>3. CASE n = k
      BY <3>1, <3>2, <3>3
    <3>4. CASE n # k
      <4>1. n \in 1 .. k - 1
        BY <2>2, <3>4
      <4> QED
        BY <2>1, <3>1, <3>2, <3>4, <4>1 DEF Iterates
    <3> QED
      BY <3>3, <3>4
  <2>5. Iterates(g, x, step, k)
    BY <2>3, <2>4 DEF Iterates
  <2> QED
    BY <2>3, <2>5
<1>3. \A n \in 0 .. N : n \in P
  <2> HIDE DEF Iterated
  <2>1. 0 \in P
    BY <1>1
  <2>2. \A n \in 1 .. N : n - 1 \in P => n \in P
    BY <1>2
  <2> HIDE DEF P
  <2> QED
    BY <2>1, <2>2, UpTo
<1>4. N \in 0 .. N
  OBVIOUS
<1>5. Iterated(N)
  <2> HIDE DEF Iterated
  <2> QED
    BY <1>3, <1>4
<1> QED
  BY <1>5

(* The recursive function on such steps stays among the values, and each    *)
(* value is the step of the one before.                                     *)
LEMMA IterationStays ==
  ASSUME NEW S, NEW N \in Nat, NEW step \in [1 .. N -> [S -> S]], NEW x \in S,
         NEW f, Iterates(f, x, step, N)
  PROVE  \A n \in 0 .. N : f[n] \in S
<1> DEFINE P == {n \in 0 .. N : f[n] \in S}
<1>1. 0 \in P
  BY DEF Iterates
<1>2. ASSUME NEW n \in 1 .. N, n - 1 \in P PROVE n \in P
  <2>1. step[n] \in [S -> S] /\ f[n - 1] \in S /\ n \in 0 .. N
    BY <1>2
  <2> QED
    BY <2>1 DEF Iterates
<1>3. \A n \in 0 .. N : n \in P
  <2> HIDE DEF P
  <2> QED
    BY <1>1, <1>2, UpTo
<1> QED
  BY <1>3

-----------------------------------------------------------------------------
(* Sums, as a recursive function computes them.                             *)

(* `f` adds up the first elements of `w`. *)
Sums(f, w, N) == f[0] = 0 /\ \A n \in 1 .. N : f[n] = f[n - 1] + w[n]

LEMMA SumExists ==
  ASSUME NEW N \in Nat, NEW w \in [1 .. N -> Nat]
  PROVE  \E f \in [0 .. N -> Nat] : Sums(f, w, N)
<1> DEFINE step == [n \in 1 .. N |-> [s \in Nat |-> s + w[n]]]
<1>1. step \in [1 .. N -> [Nat -> Nat]]
  OBVIOUS
<1>2. PICK f \in [0 .. N -> Nat] : Iterates(f, 0, step, N)
  <2> HIDE DEF step
  <2> QED
    BY <1>1, IterationExists
<1>3. ASSUME NEW n \in 1 .. N PROVE f[n] = f[n - 1] + w[n]
  <2>1. n - 1 \in 0 .. N
    OBVIOUS
  <2>2. f[n - 1] \in Nat
    BY <2>1
  <2> QED
    BY <1>2, <2>2 DEF Iterates
<1> QED
  BY <1>2, <1>3 DEF Sums, Iterates

LEMMA SumsAgree ==
  ASSUME NEW N \in Nat, NEW w, NEW f, NEW g, Sums(f, w, N), Sums(g, w, N)
  PROVE  \A n \in 0 .. N : f[n] = g[n]
<1> DEFINE P == {n \in 0 .. N : f[n] = g[n]}
<1>1. 0 \in P
  BY DEF Sums
<1>2. \A n \in 1 .. N : n - 1 \in P => n \in P
  BY DEF Sums
<1>3. \A n \in 0 .. N : n \in P
  <2> HIDE DEF P
  <2> QED
    BY <1>1, <1>2, UpTo
<1> QED
  BY <1>3

-----------------------------------------------------------------------------
(* Sequences of sequences, one behind the other.                            *)

Joins(F, s) == F[0] = <<>> /\ \A n \in 1 .. Len(s) : F[n] = F[n - 1] \o s[n]

(* FlattenSeq joins one sequence after the other. *)
LEMMA FlattenJoins ==
  ASSUME NEW S, NEW s \in Seq(Seq(S))
  PROVE  \E F \in [0 .. Len(s) -> Seq(S)] : Joins(F, s) /\ FlattenSeq(s) = F[Len(s)]
<1> DEFINE N == Len(s)
           step == [n \in 1 .. N |-> [u \in Seq(S) |-> u \o s[n]]]
           none == <<>>
           IsFlat(f) == f = [i \in 1 .. Len(s) |-> IF i = 1 THEN s[i] ELSE f[i - 1] \o s[i]]
           flat == CHOOSE f : IsFlat(f)
<1>1. N \in Nat /\ none \in Seq(S) /\ \A n \in 1 .. N : s[n] \in Seq(S)
  BY ElementOfSeq
<1>2. step \in [1 .. N -> [Seq(S) -> Seq(S)]]
  BY <1>1, ConcatProperties
<1> HIDE DEF none, N
<1>3. PICK F \in [0 .. N -> Seq(S)] : Iterates(F, none, step, N)
  <2> HIDE DEF step
  <2> QED BY <1>1, <1>2, IterationExists
<1>4. F[0] = none /\ \A n \in 1 .. N : F[n] = F[n - 1] \o s[n]
  <2>1. ASSUME NEW n \in 1 .. N PROVE F[n] = F[n - 1] \o s[n]
    <3>1. n - 1 \in 0 .. N
      BY <1>1
    <3>2. F[n - 1] \in Seq(S) /\ F[n] = step[n][F[n - 1]]
      BY <1>3, <3>1 DEF Iterates
    <3> QED BY <3>2
  <2> QED BY <1>3, <2>1 DEF Iterates
<1>5. Joins(F, s)
  BY <1>4 DEF Joins, none, N
<1>6. CASE N = 0
  <2>1. FlattenSeq(s) = s /\ s = <<>>
    BY <1>6 DEF FlattenSeq, N
  <2>2. FlattenSeq(s) = F[N]
    BY <1>4, <1>6, <2>1 DEF none
  <2> QED BY <1>5, <2>2 DEF N
<1>7. CASE N # 0
  <2> DEFINE g == [i \in 1 .. N |-> F[i]]
  <2>1. ASSUME NEW i \in 1 .. N
        PROVE  g[i] = IF i = 1 THEN s[i] ELSE g[i - 1] \o s[i]
    <3>1. CASE i = 1
      <4>0. 1 \in 1 .. N /\ 1 - 1 = 0
        BY <1>1, <1>7
      <4>1. F[1] = none \o s[1] /\ s[1] \in Seq(S)
        BY <1>1, <1>4, <4>0
      <4>2. none \o s[1] = s[1]
        BY <4>1, ConcatEmptySeq DEF none
      <4> QED BY <3>1, <4>1, <4>2
    <3>2. CASE i # 1
      <4>1. i - 1 \in 1 .. N
        BY <1>1, <3>2
      <4> QED BY <1>4, <3>2, <4>1
    <3> QED BY <3>1, <3>2
  <2>2. IsFlat(g)
    <3>1. g = [i \in 1 .. N |-> IF i = 1 THEN s[i] ELSE g[i - 1] \o s[i]]
      BY <2>1
    <3> HIDE DEF g
    <3> QED BY <3>1 DEF N
  <2>3. IsFlat(flat)
    <3> HIDE DEF IsFlat
    <3> QED BY <2>2
  <2>4. flat = [i \in 1 .. N |-> IF i = 1 THEN s[i] ELSE flat[i - 1] \o s[i]]
    <3> HIDE DEF flat
    <3> QED BY <2>3 DEF N
  <2> HIDE DEF flat, g
  <2> DEFINE P == {n \in 0 .. N : n = 0 \/ flat[n] = F[n]}
  <2>5. ASSUME NEW n \in 1 .. N, n - 1 \in P PROVE n \in P
    <3>0. n \in 0 .. N
      BY <1>1
    <3>1. flat[n] = IF n = 1 THEN s[n] ELSE flat[n - 1] \o s[n]
      BY Zenon, <2>4
    <3>2. CASE n = 1
      <4>0. 1 \in 1 .. N /\ 1 - 1 = 0
        BY <1>1, <1>7
      <4>1. F[1] = none \o s[1] /\ s[1] \in Seq(S)
        BY <1>1, <1>4, <4>0
      <4>2. none \o s[1] = s[1]
        BY <4>1, ConcatEmptySeq DEF none
      <4> QED BY <3>0, <3>1, <3>2, <4>1, <4>2
    <3>3. CASE n # 1
      <4>1. flat[n - 1] = F[n - 1]
        BY <2>5, <3>3
      <4> QED BY <1>4, <3>0, <3>1, <3>3, <4>1
    <3> QED BY <3>0, <3>2, <3>3
  <2>6. 0 \in P
    BY <1>1
  <2>7. N \in P
    <3>1. N \in 0 .. N
      BY <1>1
    <3> HIDE DEF P
    <3> QED BY <1>1, <2>5, <2>6, <3>1, UpTo
  <2>8. FlattenSeq(s) = flat[Len(s)]
    <3>1. FlattenSeq(s) = (CHOOSE f : IsFlat(f))[Len(s)]
      BY <1>7 DEF FlattenSeq, N
    <3> QED BY <3>1 DEF flat
  <2>9. FlattenSeq(s) = F[N]
    BY <1>7, <2>7, <2>8 DEF N
  <2> QED BY <1>5, <2>9 DEF N
<1> QED
  BY <1>6, <1>7

(* Three sequences, one behind the other. *)
Reassociates(a, b, c) == (a \o b) \o c = a \o (b \o c)

LEMMA Associative ==
  ASSUME NEW S, NEW a \in Seq(S), NEW b \in Seq(S), NEW c \in Seq(S)
  PROVE  Reassociates(a, b, c)
BY ConcatAssociative DEF Reassociates

(* Two sequences of sequences, one behind the other. *)
LEMMA FlattenConcat ==
  ASSUME NEW S, NEW s \in Seq(Seq(S)), NEW t \in Seq(Seq(S))
  PROVE  /\ FlattenSeq(s \o t) = FlattenSeq(s) \o FlattenSeq(t)
         /\ FlattenSeq(s) \in Seq(S) /\ FlattenSeq(t) \in Seq(S)
<1>0. ASSUME NEW a \in Seq(S), NEW b \in Seq(S), NEW c \in Seq(S)
      PROVE  (a \o b) \o c = a \o (b \o c)
  <2>1. Reassociates(a, b, c)
    BY Associative
  <2> QED BY <2>1 DEF Reassociates
<1> DEFINE u == s \o t
<1>1. /\ u \in Seq(Seq(S)) /\ Len(u) = Len(s) + Len(t) /\ Len(s) \in Nat /\ Len(t) \in Nat
      /\ \A i \in 1 .. Len(s) + Len(t) : u[i] = IF i <= Len(s) THEN s[i] ELSE t[i - Len(s)]
  BY ConcatProperties
<1> HIDE DEF u
<1>2. PICK F \in [0 .. Len(s) -> Seq(S)] : Joins(F, s) /\ FlattenSeq(s) = F[Len(s)]
  BY FlattenJoins
<1>3. PICK G \in [0 .. Len(t) -> Seq(S)] : Joins(G, t) /\ FlattenSeq(t) = G[Len(t)]
  BY FlattenJoins
<1>4. PICK H \in [0 .. Len(u) -> Seq(S)] : Joins(H, u) /\ FlattenSeq(u) = H[Len(u)]
  BY <1>1, FlattenJoins
<1>5. \A n \in 0 .. Len(s) : H[n] = F[n]
  <2> DEFINE P == {n \in 0 .. Len(s) : H[n] = F[n]}
  <2>1. 0 \in P
    BY <1>1, <1>2, <1>4 DEF Joins
  <2>2. ASSUME NEW n \in 1 .. Len(s), n - 1 \in P PROVE n \in P
    <3>1. n \in 1 .. Len(u) /\ n \in 1 .. Len(s) + Len(t) /\ n <= Len(s) /\ n \in 0 .. Len(s)
      BY <1>1
    <3>2. H[n] = H[n - 1] \o u[n] /\ F[n] = F[n - 1] \o s[n] /\ u[n] = s[n] /\ H[n - 1] = F[n - 1]
      BY <1>1, <1>2, <1>4, <2>2, <3>1 DEF Joins
    <3> QED BY <3>1, <3>2
  <2>3. \A n \in 0 .. Len(s) : n \in P
    <3> HIDE DEF P
    <3> QED BY <1>1, <2>1, <2>2, UpTo
  <2> QED BY <2>3
<1>6. \A n \in 0 .. Len(t) : H[Len(s) + n] = F[Len(s)] \o G[n]
  <2> DEFINE K == [n \in 0 .. Len(t) |-> H[Len(s) + n]]
  <2>0. F[Len(s)] \in Seq(S) /\ Len(s) \in 0 .. Len(s)
    <3>1. Len(s) \in 0 .. Len(s)
      BY <1>1
    <3> QED BY <3>1
  <2>1. K[0] = F[Len(s)] /\ G[0] = <<>>
    <3>1. Len(s) + 0 = Len(s) /\ 0 \in 0 .. Len(t)
      BY <1>1
    <3> QED BY <1>3, <1>5, <2>0, <3>1 DEF Joins
  <2>2. ASSUME NEW n \in 1 .. Len(t)
        PROVE  t[n] \in Seq(S) /\ K[n] = K[n - 1] \o t[n] /\ G[n] = G[n - 1] \o t[n]
    <3> PICK m : m = Len(s) + n OBVIOUS
    <3>1. m \in 1 .. Len(u) /\ m \in 1 .. Len(s) + Len(t) /\ ~(m <= Len(s)) /\ m - Len(s) = n
          /\ m - 1 = Len(s) + (n - 1) /\ n - 1 \in 0 .. Len(t) /\ n \in 0 .. Len(t)
      BY <1>1
    <3>2. H[m] = H[m - 1] \o t[n]
      BY <1>1, <1>4, <3>1 DEF Joins
    <3>3. t[n] \in Seq(S)
      BY ElementOfSeq
    <3> QED BY <1>3, <3>1, <3>2, <3>3 DEF Joins
  <2>3. \A n \in 0 .. Len(t) : K[n] = F[Len(s)] \o G[n]
    <3> HIDE DEF K
    <3> DEFINE P == {n \in 0 .. Len(t) : K[n] = F[Len(s)] \o G[n]}
    <3>1. 0 \in P
      BY <1>1, <2>0, <2>1, ConcatEmptySeq
    <3>2. ASSUME NEW n \in 1 .. Len(t), n - 1 \in P PROVE n \in P
      <4>1. n - 1 \in 0 .. Len(t) /\ n \in 0 .. Len(t)
        BY <1>1
      <4> PICK a, b, c : a = G[n - 1] /\ b = t[n] /\ c = F[Len(s)] OBVIOUS
      <4>2. a \in Seq(S) /\ b \in Seq(S) /\ c \in Seq(S)
        BY <1>3, <2>0, <2>2, <4>1
      <4>3. (c \o a) \o b = c \o (a \o b)
        BY <1>0, <4>2
      <4>4. K[n - 1] = c \o a /\ K[n] = K[n - 1] \o b /\ G[n] = a \o b
        BY <2>2, <3>2
      <4> QED BY <4>1, <4>3, <4>4
    <3> HIDE DEF P
    <3>3. \A n \in 0 .. Len(t) : n \in P
      BY <1>1, <3>1, <3>2, UpTo
    <3> QED BY <3>3 DEF P
  <2> QED BY <2>3
<1>7. Len(t) \in 0 .. Len(t) /\ Len(s) \in 0 .. Len(s)
  BY <1>1
<1>8. FlattenSeq(u) = F[Len(s)] \o G[Len(t)]
  BY <1>1, <1>4, <1>6, <1>7
<1> QED
  BY <1>2, <1>3, <1>7, <1>8 DEF u

(* One sequence. *)
LEMMA FlattenOne ==
  ASSUME NEW S, NEW x \in Seq(S)
  PROVE  FlattenSeq(<<x>>) = x
<1> DEFINE one == <<x>>
<1>1. one \in Seq(Seq(S)) /\ Len(one) = 1 /\ one[1] = x
  OBVIOUS
<1> HIDE DEF one
<1>2. PICK F \in [0 .. Len(one) -> Seq(S)] : Joins(F, one) /\ FlattenSeq(one) = F[Len(one)]
  BY <1>1, FlattenJoins
<1>3. F[0] = <<>> /\ F[1] = F[0] \o x
  <2>1. 1 \in 1 .. Len(one) /\ 1 - 1 = 0
    BY <1>1
  <2> QED BY <1>1, <1>2, <2>1 DEF Joins
<1>4. F[1] = x
  BY <1>3, ConcatEmptySeq
<1> QED
  BY <1>1, <1>2, <1>4 DEF one

LEMMA HeadOfConcat ==
  ASSUME NEW S, NEW a \in Seq(S), NEW b \in Seq(S), a # <<>>
  PROVE  a \o b # <<>> /\ Head(a \o b) = Head(a)
<1> DEFINE c == a \o b
<1>1. /\ c \in Seq(S) /\ Len(c) = Len(a) + Len(b) /\ Len(a) \in Nat /\ Len(b) \in Nat
      /\ \A i \in 1 .. Len(a) + Len(b) : c[i] = IF i <= Len(a) THEN a[i] ELSE b[i - Len(a)]
  BY ConcatProperties
<1> HIDE DEF c
<1>2. Len(a) # 0
  BY EmptySeq
<1>3. c # <<>> /\ c[1] = a[1]
  BY <1>1, <1>2
<1>4. Head(c) = c[1] /\ Head(a) = a[1]
  BY <1>1, <1>3
<1> QED
  BY <1>3, <1>4 DEF c

LEMMA SameBehind ==
  ASSUME NEW S, NEW u \in Seq(S), NEW v \in Seq(S), NEW w \in Seq(S), u \o v = u \o w
  PROVE  v = w
<1> DEFINE all == u \o v
           same == u \o w
<1>1. /\ Len(all) = Len(u) + Len(v) /\ Len(same) = Len(u) + Len(w)
      /\ Len(u) \in Nat /\ Len(v) \in Nat /\ Len(w) \in Nat
      /\ \A i \in 1 .. Len(u) + Len(v) : all[i] = IF i <= Len(u) THEN u[i] ELSE v[i - Len(u)]
      /\ \A i \in 1 .. Len(u) + Len(w) : same[i] = IF i <= Len(u) THEN u[i] ELSE w[i - Len(u)]
  BY ConcatProperties
<1>2. all = same
  OBVIOUS
<1> HIDE DEF all, same
<1>3. Len(v) = Len(w)
  BY <1>1, <1>2
<1>4. ASSUME NEW i \in 1 .. Len(v) PROVE v[i] = w[i]
  <2> PICK j : j = Len(u) + i
    OBVIOUS
  <2>1. /\ j \in 1 .. Len(u) + Len(v) /\ j \in 1 .. Len(u) + Len(w)
        /\ ~(j <= Len(u)) /\ j - Len(u) = i
    BY <1>1, <1>3
  <2> QED
    BY <1>1, <1>2, <2>1
<1> QED
  BY <1>3, <1>4, SeqEqual

-----------------------------------------------------------------------------
(* The end of a sequence.                                                   *)

LEMMA SuffixOfConcat ==
  ASSUME NEW S, NEW u \in Seq(S), NEW v \in Seq(S)
  PROVE  IsSuffix(v, u \o v)
<1> DEFINE all == u \o v
<1>1. /\ all \in Seq(S) /\ Len(all) = Len(u) + Len(v) /\ Len(u) \in Nat /\ Len(v) \in Nat
      /\ \A i \in 1 .. Len(u) + Len(v) : all[i] = IF i <= Len(u) THEN u[i] ELSE v[i - Len(u)]
  BY ConcatProperties
<1> HIDE DEF all
<1>2. ASSUME NEW s \in Seq(S)
      PROVE  /\ Reverse(s) \in Seq(S) /\ Len(Reverse(s)) = Len(s)
             /\ \A i \in 1 .. Len(s) : Reverse(s)[i] = s[Len(s) - i + 1]
  <2> DEFINE r == [j \in 1 .. Len(s) |-> s[Len(s) - j + 1]]
  <2>1. r \in [1 .. Len(s) -> S] /\ Len(s) \in Nat
    BY ElementOfSeq
  <2>2. r \in Seq(S) /\ Len(r) = Len(s)
    BY <2>1
  <2> QED
    BY <2>2 DEF Reverse
<1>3. \A i \in 1 .. Len(v) : Reverse(v)[i] = Reverse(all)[i]
  <2> SUFFICES ASSUME NEW i \in 1 .. Len(v) PROVE Reverse(v)[i] = Reverse(all)[i]
    OBVIOUS
  <2> PICK k : k = Len(all) - i + 1 OBVIOUS
  <2>1. /\ k \in 1 .. Len(u) + Len(v) /\ ~(k <= Len(u)) /\ k - Len(u) = Len(v) - i + 1
        /\ i \in 1 .. Len(all)
    BY <1>1
  <2>2. all[k] = v[Len(v) - i + 1]
    BY <1>1, <2>1
  <2> QED
    BY <1>1, <1>2, <2>1, <2>2
<1>4. /\ Reverse(v) \in Seq(S) /\ Reverse(all) \in Seq(S)
      /\ Len(Reverse(v)) = Len(v) /\ Len(Reverse(all)) = Len(all)
  BY <1>1, <1>2
<1>5. IsPrefix(Reverse(v), Reverse(all))
  <2> PICK a, b : a = Reverse(v) /\ b = Reverse(all) OBVIOUS
  <2>1. /\ a \in Seq(S) /\ b \in Seq(S) /\ Len(a) <= Len(b)
        /\ \A i \in 1 .. Len(a) : a[i] = b[i]
    BY <1>1, <1>3, <1>4
  <2>2. IsPrefix(a, b)
    BY <2>1, PrefixRows
  <2> QED
    BY <2>2
<1> QED
  BY <1>5 DEF IsSuffix, all

-----------------------------------------------------------------------------
(* A count that jumps ahead, as a recursive function computes it.           *)

Counts(f, N, jump, w) ==
  f = [i \in 1 .. N + 1 |-> IF i > N THEN 0 ELSE w[i] + f[jump[i]]]

LEMMA CountExists ==
  ASSUME NEW N \in Nat, NEW jump \in [1 .. N -> 1 .. N + 1], NEW w \in [1 .. N -> Nat],
         \A i \in 1 .. N : i < jump[i]
  PROVE  \E f : Counts(f, N, jump, w)
<1> DEFINE From(f, n) == f[N + 1] = 0 /\ \A i \in N + 1 - n .. N : f[i] = w[i] + f[jump[i]]
           P == {n \in 0 .. N : \E f \in [1 .. N + 1 -> Nat] : From(f, n)}
<1>1. 0 \in P
  <2> DEFINE f == [i \in 1 .. N + 1 |-> 0]
  <2>1. f \in [1 .. N + 1 -> Nat] /\ f[N + 1] = 0 /\ N + 1 - 0 .. N = {} /\ 0 \in 0 .. N
    OBVIOUS
  <2> HIDE DEF f
  <2>2. From(f, 0)
    BY <2>1
  <2> QED
    BY <2>1, <2>2
<1>2. ASSUME NEW n \in 1 .. N, n - 1 \in P PROVE n \in P
  <2>1. PICK f \in [1 .. N + 1 -> Nat] : From(f, n - 1)
    BY <1>2
  <2> PICK k : k = N + 1 - n OBVIOUS
  <2>2. /\ k \in 1 .. N /\ k \in 1 .. N + 1 /\ N + 1 - (n - 1) = k + 1 /\ k # N + 1
        /\ N + 1 - n = k /\ jump[k] \in 1 .. N + 1 /\ jump[k] # k /\ w[k] \in Nat
    OBVIOUS
  <2>3. f[jump[k]] \in Nat
    BY <2>2
  <2> DEFINE g == [f EXCEPT ![k] = w[k] + f[jump[k]]]
  <2>4. /\ g \in [1 .. N + 1 -> Nat] /\ g[k] = w[k] + f[jump[k]]
        /\ \A i \in 1 .. N + 1 : i # k => g[i] = f[i]
    BY <2>2, <2>3
  <2> HIDE DEF g
  <2>5. g[N + 1] = 0
    <3>1. N + 1 \in 1 .. N + 1
      OBVIOUS
    <3> QED
      BY <2>1, <2>2, <2>4, <3>1
  <2>6. ASSUME NEW i \in N + 1 - n .. N PROVE g[i] = w[i] + g[jump[i]]
    <3>1. CASE i = k
      BY <2>2, <2>4, <3>1
    <3>2. CASE i # k
      <4>1. /\ i \in N + 1 - (n - 1) .. N /\ i \in 1 .. N /\ i \in 1 .. N + 1 /\ k < i
            /\ jump[i] \in 1 .. N + 1 /\ jump[i] # k
        BY <2>2, <3>2
      <4>2. f[i] = w[i] + f[jump[i]]
        BY <2>1, <4>1
      <4> QED
        BY <2>4, <3>2, <4>1, <4>2
    <3> QED
      BY <3>1, <3>2
  <2>7. From(g, n)
    BY <2>5, <2>6
  <2>8. \E h \in [1 .. N + 1 -> Nat] : From(h, n)
    <3> HIDE DEF From
    <3> QED
      BY <2>4, <2>7
  <2>9. n \in 0 .. N
    OBVIOUS
  <2> HIDE DEF From
  <2> QED
    BY <2>8, <2>9
<1>3. N \in P
  <2>1. N \in 0 .. N
    OBVIOUS
  <2> HIDE DEF P
  <2> QED
    BY <1>1, <1>2, <2>1, UpTo
<1>4. PICK f \in [1 .. N + 1 -> Nat] : From(f, N)
  BY <1>3
<1>5. ASSUME NEW i \in 1 .. N + 1 PROVE f[i] = IF i > N THEN 0 ELSE w[i] + f[jump[i]]
  <2>1. N + 1 - N = 1
    OBVIOUS
  <2> QED
    BY <1>4, <2>1
<1>6. f = [i \in 1 .. N + 1 |-> IF i > N THEN 0 ELSE w[i] + f[jump[i]]]
  BY <1>5
<1> QED
  BY <1>6 DEF Counts

LEMMA CountTyped ==
  ASSUME NEW N \in Nat, NEW jump \in [1 .. N -> 1 .. N + 1], NEW w \in [1 .. N -> Nat],
         \A i \in 1 .. N : i < jump[i], NEW f, Counts(f, N, jump, w)
  PROVE  f[1] \in Nat
<1>1. \A i \in 1 .. N + 1 : f[i] = IF i > N THEN 0 ELSE w[i] + f[jump[i]]
  <2>1. f = [i \in 1 .. N + 1 |-> IF i > N THEN 0 ELSE w[i] + f[jump[i]]]
    BY DEF Counts
  <2> QED
    BY Zenon, <2>1
<1> DEFINE P == {n \in 0 .. N : \A m \in 0 .. n : f[N + 1 - m] \in Nat}
<1>2. 0 \in P
  <2>1. \A m \in 0 .. 0 : N + 1 - m = N + 1
    OBVIOUS
  <2> QED
    BY <1>1, <2>1
<1>3. ASSUME NEW n \in 1 .. N, n - 1 \in P PROVE n \in P
  <2> PICK k : k = N + 1 - n OBVIOUS
  <2>1. /\ k \in 1 .. N /\ k \in 1 .. N + 1 /\ ~(k > N) /\ jump[k] \in k + 1 .. N + 1 /\ w[k] \in Nat
    OBVIOUS
  <2>2. f[jump[k]] \in Nat
    <3> PICK q : q = jump[k] OBVIOUS
    <3>0. q \in Nat /\ k < q /\ q <= N + 1 /\ n \in Nat /\ N \in Nat /\ k = N + 1 - n
      BY <2>1
    <3> PICK m : m = N + 1 - q OBVIOUS
    <3>1. m \in 0 .. n - 1 /\ N + 1 - m = jump[k]
      <4>1. m \in 0 .. n - 1 /\ N + 1 - m = q
        BY ONLY <3>0, m = N + 1 - q
      <4> QED
        BY <4>1
    <3>2. \A j \in 0 .. n - 1 : f[N + 1 - j] \in Nat
      BY <1>3
    <3>3. f[N + 1 - m] \in Nat
      BY <3>1, <3>2
    <3> QED
      BY <3>1, <3>3
  <2>3. f[k] \in Nat
    BY <1>1, <2>1, <2>2
  <2>4. ASSUME NEW m \in 0 .. n PROVE f[N + 1 - m] \in Nat
    <3>1. CASE m = n
      BY <2>3, <3>1
    <3>2. CASE m # n
      BY <1>3, <3>2
    <3> QED
      BY <3>1, <3>2
  <2> QED
    BY <2>4
<1>4. N \in P
  <2>1. N \in 0 .. N
    OBVIOUS
  <2> HIDE DEF P
  <2> QED
    BY <1>2, <1>3, <2>1, UpTo
<1>5. N \in 0 .. N /\ N + 1 - N = 1
  OBVIOUS
<1> QED
  BY <1>4, <1>5

=============================================================================
