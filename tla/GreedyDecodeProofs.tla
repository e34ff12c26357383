------------------------- MODULE GreedyDecodeProofs -------------------------
(***************************************************************************)
(* GreedyDecode for every answer and budget over every vocabulary, with    *)
(* characters that are split over tokens and stop sequences that begin     *)
(* inside of one: which stop sequences an answer can still hold, what a    *)
(* stream holds beyond the answer, and when it is the answer.              *)
(***************************************************************************)
EXTENDS GreedyDecode, SequenceLemmas

-----------------------------------------------------------------------------
(* Bytes and characters.                                                    *)

LEMMA BytesTyped ==
  ASSUME NEW ids \in Seq(Tokens)
  PROVE  /\ [i \in DOMAIN ids |-> Text[ids[i]]] \in Seq(Seq(Symbols))
         /\ Bytes(ids) \in Seq(Symbols)
<1> DEFINE texts == [i \in DOMAIN ids |-> Text[ids[i]]]
<1>1. DOMAIN ids = 1 .. Len(ids) /\ Len(ids) \in Nat /\ \A i \in 1 .. Len(ids) : ids[i] \in Tokens
  BY ElementOfSeq
<1>2. texts \in [1 .. Len(ids) -> Seq(Symbols)]
  BY <1>1, TextAssumption
<1>3. texts \in Seq(Seq(Symbols))
  BY <1>1, <1>2
<1> HIDE DEF texts
<1>4. FlattenSeq(texts) \in Seq(Symbols)
  BY <1>3, FlattenConcat
<1> QED
  BY <1>3, <1>4 DEF texts, Bytes

(* A sequence that is two others, element for element. *)
LEMMA ConcatIs ==
  ASSUME NEW S, NEW a \in Seq(S), NEW b \in Seq(S), NEW c \in Seq(S),
         Len(c) = Len(a) + Len(b),
         \A i \in 1 .. Len(c) : c[i] = IF i <= Len(a) THEN a[i] ELSE b[i - Len(a)]
  PROVE  c = a \o b
<1> DEFINE d == a \o b
<1>1. /\ d \in Seq(S) /\ Len(d) = Len(a) + Len(b)
      /\ \A i \in 1 .. Len(a) + Len(b) : d[i] = IF i <= Len(a) THEN a[i] ELSE b[i - Len(a)]
  BY ConcatProperties
<1> HIDE DEF d
<1>2. Len(c) = Len(d) /\ \A i \in 1 .. Len(c) : c[i] = d[i]
  BY <1>1
<1>3. c = d
  BY <1>1, <1>2, SeqEqual
<1> QED
  BY <1>3 DEF d

(* The bytes of tokens behind others are behind their bytes. *)
LEMMA BytesJoin ==
  ASSUME NEW u \in Seq(Tokens), NEW v \in Seq(Tokens)
  PROVE  Bytes(u \o v) = Bytes(u) \o Bytes(v)
<1> DEFINE all == u \o v
           texts(ids) == [i \in DOMAIN ids |-> Text[ids[i]]]
<1>1. /\ all \in Seq(Tokens) /\ Len(all) = Len(u) + Len(v) /\ Len(u) \in Nat /\ Len(v) \in Nat
      /\ \A i \in 1 .. Len(u) + Len(v) : all[i] = IF i <= Len(u) THEN u[i] ELSE v[i - Len(u)]
  BY ConcatProperties
<1> HIDE DEF all
<1>2. /\ texts(u) \in Seq(Seq(Symbols)) /\ texts(v) \in Seq(Seq(Symbols))
      /\ texts(all) \in Seq(Seq(Symbols))
  BY <1>1, BytesTyped
<1>3. ASSUME NEW ids \in Seq(Tokens)
      PROVE  Len(texts(ids)) = Len(ids) /\ \A i \in 1 .. Len(ids) : texts(ids)[i] = Text[ids[i]]
  <2>1. DOMAIN ids = 1 .. Len(ids) /\ Len(ids) \in Nat
    OBVIOUS
  <2> QED
    BY <2>1
<1>p. PICK a, b, c : a = texts(u) /\ b = texts(v) /\ c = texts(all)
  OBVIOUS
<1>4. /\ Len(a) = Len(u) /\ Len(b) = Len(v) /\ Len(c) = Len(all)
      /\ \A i \in 1 .. Len(u) : a[i] = Text[u[i]]
      /\ \A i \in 1 .. Len(v) : b[i] = Text[v[i]]
      /\ \A i \in 1 .. Len(all) : c[i] = Text[all[i]]
  BY <1>p, <1>1, <1>3
<1>5. a \in Seq(Seq(Symbols)) /\ b \in Seq(Seq(Symbols)) /\ c \in Seq(Seq(Symbols))
  BY <1>p, <1>2
<1>6. ASSUME NEW i \in 1 .. Len(c)
      PROVE  c[i] = IF i <= Len(a) THEN a[i] ELSE b[i - Len(a)]
  <2>1. CASE i <= Len(u)
    <3>1. i \in 1 .. Len(u) /\ i \in 1 .. Len(all) /\ i \in 1 .. Len(u) + Len(v)
      BY <1>1, <1>4, <2>1
    <3> QED
      BY <1>1, <1>4, <2>1, <3>1
  <2>2. CASE ~(i <= Len(u))
    <3>1. i - Len(u) \in 1 .. Len(v) /\ i \in 1 .. Len(all) /\ i \in 1 .. Len(u) + Len(v)
      BY <1>1, <1>4, <2>2
    <3> QED
      BY <1>1, <1>4, <2>2, <3>1
  <2> QED
    BY <2>1, <2>2
<1>7. Len(c) = Len(a) + Len(b)
  BY <1>1, <1>4
<1>8. c = a \o b
  BY <1>5, <1>6, <1>7, ConcatIs
<1>9. FlattenSeq(c) = FlattenSeq(a) \o FlattenSeq(b)
  BY <1>5, <1>8, FlattenConcat
<1>10. Bytes(u) = FlattenSeq(a) /\ Bytes(v) = FlattenSeq(b) /\ Bytes(all) = FlattenSeq(c)
  BY <1>p DEF Bytes
<1> QED
  BY <1>9, <1>10 DEF all

(* What the bytes of a text say, one by one. *)
Said(bytes) == [i \in DOMAIN bytes |-> CharacterAt(bytes, i)]

LEMMA SaidTyped ==
  ASSUME NEW bytes \in Seq(Symbols)
  PROVE  /\ Said(bytes) \in Seq(Seq(Characters)) /\ Len(Said(bytes)) = Len(bytes)
         /\ \A i \in 1 .. Len(bytes) : Said(bytes)[i] = CharacterAt(bytes, i)
         /\ FlattenSeq(Said(bytes)) \in Seq(Characters)
<1>1. DOMAIN bytes = 1 .. Len(bytes) /\ Len(bytes) \in Nat
  OBVIOUS
<1>2. ASSUME NEW i \in 1 .. Len(bytes) PROVE CharacterAt(bytes, i) \in Seq(Characters)
  <2>1. bytes[i] \in Symbols
    BY <1>1, ElementOfSeq
  <2>2. Wide \in Characters /\ Lossy \in Characters /\ bytes[i] \in Characters
    BY <2>1 DEF Characters
  <2>3. /\ <<Wide>> \in Seq(Characters) /\ <<Lossy>> \in Seq(Characters)
        /\ <<bytes[i]>> \in Seq(Characters) /\ <<>> \in Seq(Characters)
    BY <2>2, SingletonSeq, EmptySeq
  <2> QED
    BY <2>3 DEF CharacterAt
<1>3. Said(bytes) \in [1 .. Len(bytes) -> Seq(Characters)]
  BY <1>1, <1>2 DEF Said
<1>4. /\ Said(bytes) \in Seq(Seq(Characters)) /\ Len(Said(bytes)) = Len(bytes)
      /\ \A i \in 1 .. Len(bytes) : Said(bytes)[i] = CharacterAt(bytes, i)
  BY <1>1, <1>3 DEF Said
<1>5. FlattenSeq(Said(bytes)) \in Seq(Characters)
  BY <1>4, FlattenConcat
<1> QED
  BY <1>4, <1>5

LEMMA DecodeTyped ==
  ASSUME NEW ids \in Seq(Tokens)
  PROVE  Decode(ids) = FlattenSeq(Said(Bytes(ids))) /\ Decode(ids) \in Seq(Characters)
<1>1. Decode(ids) = FlattenSeq(Said(Bytes(ids)))
  BY DEF Decode, Said
<1> QED
  BY <1>1, BytesTyped, SaidTyped

LEMMA FlattenNothing ==
  ASSUME NEW s, Len(s) = 0, s = <<>>
  PROVE  FlattenSeq(s) = <<>>
BY DEF FlattenSeq

LEMMA BytesNothing == Bytes(<<>>) = <<>>
<1> DEFINE none == <<>>
<1>1. none \in Seq(Tokens) /\ Len(none) = 0 /\ DOMAIN none = {}
  BY EmptySeq
<1>2. [i \in DOMAIN none |-> Text[none[i]]] = <<>>
  BY <1>1
<1> QED
  BY <1>1, <1>2, FlattenNothing DEF Bytes, none

LEMMA DecodeNothing == Decode(<<>>) = <<>>
<1> DEFINE none == <<>>
<1>1. none \in Seq(Tokens) /\ Len(none) = 0 /\ DOMAIN none = {}
  BY EmptySeq
<1>2. Said(<<>>) = <<>>
  BY <1>1 DEF Said
<1> QED
  BY <1>1, <1>2, BytesNothing, FlattenNothing, DecodeTyped DEF none

(* A delta of a text that grows makes the stream that text. *)
LEMMA StreamGrows ==
  ASSUME NEW S, NEW old \in Seq(S), NEW new \in Seq(S), IsPrefix(old, new)
  PROVE  old \o Delta(old, new) = new
<1>1. /\ Len(old) <= Len(new) /\ \A i \in 1 .. Len(old) : old[i] = new[i]
      /\ Len(old) \in Nat /\ Len(new) \in Nat
  BY PrefixRows
<1> DEFINE rest == SubSeq(new, Len(old) + 1, Len(new))
<1>2. /\ rest \in Seq(S) /\ Len(rest) = Len(new) - Len(old)
      /\ \A j \in 1 .. Len(rest) : rest[j] = new[Len(old) + j]
  <2>1. Len(old) + 1 \in 1 .. Len(new) + 1
    BY <1>1
  <2>2. /\ rest \in Seq(S) /\ Len(rest) = Len(new) - (Len(old) + 1) + 1
        /\ \A j \in 1 .. Len(new) - (Len(old) + 1) + 1 : rest[j] = new[(Len(old) + 1) + j - 1]
    BY <2>1, BehindOf
  <2> QED
    BY <1>1, <2>2
<1> HIDE DEF rest
<1>3. /\ old \o rest \in Seq(S) /\ Len(old \o rest) = Len(old) + Len(rest)
      /\ \A i \in 1 .. Len(old) + Len(rest) :
           (old \o rest)[i] = IF i <= Len(old) THEN old[i] ELSE rest[i - Len(old)]
  BY <1>2, ConcatProperties
<1>4. Len(old \o rest) = Len(new)
  BY <1>1, <1>2, <1>3
<1>5. ASSUME NEW i \in 1 .. Len(new) PROVE (old \o rest)[i] = new[i]
  <2>1. i \in 1 .. Len(old) + Len(rest)
    BY <1>1, <1>2
  <2>2. CASE i <= Len(old)
    BY <1>1, <1>3, <2>1, <2>2
  <2>3. CASE ~(i <= Len(old))
    <3>1. i - Len(old) \in 1 .. Len(rest) /\ Len(old) + (i - Len(old)) = i
      BY <1>1, <1>2, <2>3
    <3> QED
      BY <1>2, <1>3, <2>1, <2>3, <3>1
  <2> QED
    BY <2>2, <2>3
<1>6. old \o rest = new
  BY <1>3, <1>4, <1>5, SeqEqual
<1> QED
  BY <1>6 DEF rest, Delta

(* A sequence begins whatever is put behind it. *)
LEMMA ConcatBegins ==
  ASSUME NEW S, NEW u \in Seq(S), NEW v \in Seq(S)
  PROVE  IsPrefix(u, u \o v)
<1> DEFINE all == u \o v
<1>1. /\ all \in Seq(S) /\ Len(all) = Len(u) + Len(v) /\ Len(u) \in Nat /\ Len(v) \in Nat
      /\ \A i \in 1 .. Len(u) + Len(v) : all[i] = IF i <= Len(u) THEN u[i] ELSE v[i - Len(u)]
  BY ConcatProperties
<1> HIDE DEF all
<1>2. Len(u) <= Len(all) /\ \A i \in 1 .. Len(u) : u[i] = all[i]
  BY <1>1
<1>3. IsPrefix(u, all)
  BY <1>1, <1>2, PrefixRows
<1> QED
  BY <1>3 DEF all

(* More tokens only add to the text, unless they finish a character. *)
LEMMA DecodeGrows ==
  ASSUME NEW u \in Seq(Tokens), NEW v \in Seq(Tokens), ~Splits(u, v)
  PROVE  IsPrefix(Decode(u), Decode(u \o v))
<1> DEFINE b == Bytes(u)
           c == Bytes(v)
           d == Bytes(u \o v)
<1>1. b \in Seq(Symbols) /\ c \in Seq(Symbols) /\ d = b \o c /\ u \o v \in Seq(Tokens)
  BY BytesTyped, BytesJoin, ConcatProperties
<1>2. b # <<>> /\ c # <<>> => ~(Last(b) = Lead /\ Head(c) = Cont)
  BY DEF Splits
<1> HIDE DEF b, c, d
<1>3. /\ d \in Seq(Symbols) /\ Len(d) = Len(b) + Len(c) /\ Len(b) \in Nat /\ Len(c) \in Nat
      /\ \A i \in 1 .. Len(b) + Len(c) : d[i] = IF i <= Len(b) THEN b[i] ELSE c[i - Len(b)]
  BY <1>1, ConcatProperties
<1>4. ASSUME NEW i \in 1 .. Len(b), Len(c) > 0, i = Len(b)
      PROVE  ~Completes(d, i + 1)
  <2>1. /\ b # <<>> /\ c # <<>> /\ Last(b) = b[i] /\ Head(c) = c[1]
    <3>1. b # <<>> /\ c # <<>>
      BY <1>1, <1>3, <1>4, EmptySeq
    <3> QED
      BY <1>1, <1>4, <3>1 DEF Last
  <2>2. /\ i \in 1 .. Len(b) + Len(c) /\ i + 1 \in 1 .. Len(b) + Len(c)
        /\ i <= Len(b) /\ ~(i + 1 <= Len(b)) /\ (i + 1) - Len(b) = 1 /\ (i + 1) - 1 = i
    BY <1>3, <1>4
  <2>3. d[i] = b[i] /\ d[i + 1] = c[1]
    BY <1>3, <2>2
  <2> QED
    BY <1>2, <2>1, <2>2, <2>3 DEF Completes
<1>5. ASSUME NEW i \in 1 .. Len(b) PROVE CharacterAt(d, i) = CharacterAt(b, i)
  <2>1. i \in 1 .. Len(b) + Len(c) /\ i <= Len(b)
    BY <1>3
  <2>2. d[i] = b[i]
    BY <1>3, <2>1
  <2>3. Completes(d, i) <=> Completes(b, i)
    <3>1. i \in 2 .. Len(d) <=> i \in 2 .. Len(b)
      BY <1>3, <2>1
    <3>2. i \in 2 .. Len(b) => d[i - 1] = b[i - 1]
      <4>1. i \in 2 .. Len(b) => i - 1 \in 1 .. Len(b) + Len(c) /\ i - 1 <= Len(b)
        BY <1>3
      <4> QED
        BY <1>3, <4>1
    <3> QED
      BY <2>2, <3>1, <3>2 DEF Completes
  <2>4. Completes(d, i + 1) <=> Completes(b, i + 1)
    <3>1. CASE i < Len(b)
      <4>1. /\ i + 1 \in 2 .. Len(d) /\ i + 1 \in 2 .. Len(b) /\ (i + 1) - 1 = i
            /\ i + 1 \in 1 .. Len(b) + Len(c) /\ i + 1 <= Len(b)
        BY <1>3, <3>1
      <4>2. d[i + 1] = b[i + 1]
        BY <1>3, <4>1
      <4> QED
        BY <2>2, <4>1, <4>2 DEF Completes
    <3>2. CASE i = Len(b)
      <4>1. ~(i + 1 \in 2 .. Len(b))
        BY <1>3, <3>2
      <4>2. CASE Len(c) > 0
        BY <1>4, <3>2, <4>1, <4>2 DEF Completes
      <4>3. CASE Len(c) = 0
        <5>1. ~(i + 1 \in 2 .. Len(d))
          BY <1>3, <3>2, <4>3
        <5> QED
          BY <4>1, <5>1 DEF Completes
      <4> QED
        BY <1>3, <4>2, <4>3
    <3> QED
      BY <1>3, <3>1, <3>2
  <2> QED
    BY <2>2, <2>3, <2>4 DEF CharacterAt
<1> DEFINE front == Said(b)
           all == Said(d)
           rest == SubSeq(all, Len(b) + 1, Len(all))
<1>6. /\ front \in Seq(Seq(Characters)) /\ Len(front) = Len(b)
      /\ \A i \in 1 .. Len(b) : front[i] = CharacterAt(b, i)
  BY <1>1, SaidTyped
<1>7. /\ all \in Seq(Seq(Characters)) /\ Len(all) = Len(d)
      /\ \A i \in 1 .. Len(d) : all[i] = CharacterAt(d, i)
  BY <1>3, SaidTyped
<1> HIDE DEF front, all
<1>8. /\ rest \in Seq(Seq(Characters)) /\ all = front \o rest
  <2>1. Len(front) \in 0 .. Len(all)
    BY <1>3, <1>6, <1>7
  <2>2. IsPrefix(front, all)
    <3>1. \A i \in 1 .. Len(front) : front[i] = all[i]
      BY <1>3, <1>5, <1>6, <1>7
    <3>2. Len(front) <= Len(all)
      BY <2>1
    <3> QED
      BY <1>6, <1>7, <3>1, <3>2, PrefixRows
  <2>3. front \o Delta(front, all) = all
    BY <1>6, <1>7, <2>2, StreamGrows
  <2>4. Delta(front, all) = rest
    BY <1>6, <2>2 DEF Delta
  <2>5. rest \in Seq(Seq(Characters))
    <3>1. Len(b) + 1 \in 1 .. Len(all) + 1
      BY <1>3, <1>7
    <3> QED
      BY <1>7, <3>1, BehindOf
  <2> QED
    BY <2>3, <2>4, <2>5
<1> HIDE DEF rest
<1>9. /\ FlattenSeq(all) = FlattenSeq(front) \o FlattenSeq(rest)
      /\ FlattenSeq(front) \in Seq(Characters) /\ FlattenSeq(rest) \in Seq(Characters)
  BY <1>6, <1>8, FlattenConcat
<1>10. Decode(u) = FlattenSeq(front) /\ Decode(u \o v) = FlattenSeq(all)
  BY <1>1, DecodeTyped DEF front, all, b, d
<1> QED
  BY <1>9, <1>10, ConcatBegins

-----------------------------------------------------------------------------
(* Where a stop sequence stands in a text.                                  *)

LEMMA StandsAt ==
  ASSUME NEW S, NEW t \in Seq(S), NEW stop \in Seq(S), NEW i \in 1 .. Len(t)
  PROVE  IsPrefix(stop, SubSeq(t, i, Len(t))) <=>
           /\ Len(stop) <= Len(t) - i + 1
           /\ \A j \in 1 .. Len(stop) : stop[j] = t[i + j - 1]
<1> DEFINE rest == SubSeq(t, i, Len(t))
<1>1. /\ rest \in Seq(S) /\ Len(rest) = Len(t) - i + 1
      /\ \A j \in 1 .. Len(t) - i + 1 : rest[j] = t[i + j - 1]
  BY BehindOf
<1> HIDE DEF rest
<1>2. IsPrefix(stop, rest) <=>
        Len(stop) <= Len(rest) /\ \A j \in 1 .. Len(stop) : stop[j] = rest[j]
  BY <1>1, PrefixRows
<1>3. Len(stop) \in Nat /\ Len(t) \in Nat
  OBVIOUS
<1>4. IsPrefix(stop, rest) <=>
        /\ Len(stop) <= Len(t) - i + 1
        /\ \A j \in 1 .. Len(stop) : stop[j] = t[i + j - 1]
  BY <1>1, <1>2, <1>3
<1> QED
  BY <1>4 DEF rest

(* A stop of a text stands at the same place in every longer text. *)
LEMMA StopsStay ==
  ASSUME NEW t \in Seq(Characters), NEW u \in Seq(Characters), IsPrefix(t, u)
  PROVE  StopsIn(t) \subseteq StopsIn(u)
<1> SUFFICES ASSUME NEW i \in StopsIn(t) PROVE i \in StopsIn(u)
  OBVIOUS
<1>1. /\ Len(t) <= Len(u) /\ \A j \in 1 .. Len(t) : t[j] = u[j]
      /\ Len(t) \in Nat /\ Len(u) \in Nat
  BY PrefixRows
<1>2. i \in 1 .. Len(t) /\ i \in 1 .. Len(u)
  BY <1>1 DEF StopsIn
<1>3. PICK stop \in Stop : IsPrefix(stop, SubSeq(t, i, Len(t)))
  BY DEF StopsIn
<1>4. stop \in Seq(Characters) /\ Len(stop) \in Nat
  BY <1>3, TextAssumption
<1>5. /\ Len(stop) <= Len(t) - i + 1
      /\ \A j \in 1 .. Len(stop) : stop[j] = t[i + j - 1]
  BY <1>2, <1>3, <1>4, StandsAt
<1>6. /\ Len(stop) <= Len(u) - i + 1
      /\ \A j \in 1 .. Len(stop) : stop[j] = u[i + j - 1]
  BY <1>1, <1>2, <1>4, <1>5
<1>7. IsPrefix(stop, SubSeq(u, i, Len(u)))
  BY <1>2, <1>4, <1>6, StandsAt
<1> QED
  BY <1>2, <1>7 DEF StopsIn

(* The text in front of the first stop has none. *)
LEMMA NoneInFront ==
  ASSUME NEW t \in Seq(Characters), StopsIn(t) # {}
  PROVE  /\ Min(StopsIn(t)) \in 1 .. Len(t)
         /\ Min(StopsIn(t)) \in StopsIn(t)
         /\ StopsIn(SubSeq(t, 1, Min(StopsIn(t)) - 1)) = {}
<1> DEFINE first == Min(StopsIn(t))
           front == SubSeq(t, 1, first - 1)
<1>1. StopsIn(t) \in SUBSET Nat /\ StopsIn(t) \subseteq 1 .. Len(t)
  BY DEF StopsIn
<1>2. first \in StopsIn(t) /\ \A i \in StopsIn(t) : first <= i
  BY <1>1, MinOfNaturals
<1>3. first \in 1 .. Len(t)
  BY <1>1, <1>2
<1> HIDE DEF first
<1>4. first - 1 \in 0 .. Len(t)
  BY <1>3
<1>5. /\ front \in Seq(Characters) /\ Len(front) = first - 1
      /\ \A i \in 1 .. first - 1 : front[i] = t[i]
  BY <1>4, BeginningOf
<1>6. StopsIn(front) \subseteq StopsIn(t)
  <2> HIDE DEF front
  <2>1. Len(front) <= Len(t) /\ \A i \in 1 .. Len(front) : front[i] = t[i]
    BY <1>4, <1>5
  <2>2. IsPrefix(front, t)
    BY <1>5, <2>1, PrefixRows
  <2> QED
    BY <1>5, <2>2, StopsStay
<1>7. \A i \in StopsIn(front) : i < first
  BY <1>3, <1>5 DEF StopsIn
<1>8. StopsIn(front) = {}
  BY <1>1, <1>2, <1>3, <1>6, <1>7
<1> QED
  BY <1>2, <1>3, <1>8 DEF first

-----------------------------------------------------------------------------
(* How many tokens a text encodes to.                                       *)

LEMMA EncodedTyped ==
  ASSUME NEW text \in Seq(Characters)
  PROVE  EncodedLength(text) \in Nat
<1> DEFINE N == Len(text)
           widths(i) == {Len(Text[t]) : t \in Matches(text, i)}
           jump == [i \in 1 .. N |-> IF Matches(text, i) = {} THEN i + 1 ELSE i + Max(widths(i))]
           w == [i \in 1 .. N |-> IF Matches(text, i) = {} THEN 2 ELSE 1]
           IsCount(f) ==
             f = [i \in 1 .. Len(text) + 1 |->
                    IF i > Len(text) THEN 0
                    ELSE IF Matches(text, i) = {} THEN 2 + f[i + 1]
                    ELSE 1 + f[i + Max({Len(Text[t]) : t \in Matches(text, i)})]]
           count == CHOOSE f : IsCount(f)
<1>1. N \in Nat
  OBVIOUS
<1>2. ASSUME NEW i \in 1 .. N, Matches(text, i) # {}
      PROVE  Max(widths(i)) \in 1 .. N - i + 1
  <2>1. ASSUME NEW t \in Matches(text, i) PROVE Len(Text[t]) \in 1 .. N - i + 1
    <3> DEFINE rest == SubSeq(text, i, Len(text))
               bytes == Text[t]
    <3>1. bytes \in Seq(Characters) /\ bytes # <<>> /\ IsPrefix(bytes, rest)
      <4>1. t \in Tokens /\ bytes # <<>> /\ IsPrefix(bytes, rest)
        BY DEF Matches
      <4>2. bytes \in Seq(Symbols) /\ Symbols \subseteq Characters
        BY <4>1, TextAssumption DEF Characters
      <4> HIDE DEF bytes
      <4>3. bytes \in Seq(Characters)
        BY <4>2
      <4> QED
        BY <4>1, <4>3
    <3>2. rest \in Seq(Characters) /\ Len(rest) = N - i + 1
      <4>1. i \in 1 .. Len(text) + 1
        BY <1>1
      <4> QED
        BY <4>1, BehindOf
    <3> HIDE DEF rest, bytes
    <3>3. Len(bytes) <= N - i + 1
      BY <3>1, <3>2, PrefixRows
    <3>4. Len(bytes) \in Nat /\ Len(bytes) # 0
      BY <3>1, EmptySeq
    <3> QED
      BY <1>1, <3>3, <3>4 DEF bytes
  <2>2. widths(i) \subseteq 1 .. N - i + 1 /\ widths(i) # {}
    BY <1>2, <2>1
  <2> PICK L : L = widths(i)
    OBVIOUS
  <2>3. L \subseteq 1 .. N - i + 1 /\ L # {}
    BY <2>2
  <2>4. L \in SUBSET Nat /\ N - i + 1 \in Nat /\ \A x \in L : x <= N - i + 1
    BY <1>1, <2>3
  <2>5. Max(L) \in L
    BY <2>3, <2>4, MaxOfNaturals
  <2> QED
    BY <2>3, <2>5
<1>3. ASSUME NEW i \in 1 .. N
      PROVE  jump[i] \in 1 .. N + 1 /\ i < jump[i] /\ w[i] \in Nat
  <2>1. CASE Matches(text, i) = {}
    BY <1>1, <2>1
  <2>2. CASE Matches(text, i) # {}
    <3>1. jump[i] = i + Max(widths(i)) /\ w[i] = 1
      BY <2>2
    <3>2. Max(widths(i)) \in 1 .. N - i + 1
      BY <1>2, <2>2
    <3> PICK m : m = Max(widths(i))
      OBVIOUS
    <3>3. i + m \in 1 .. N + 1 /\ i < i + m
      BY <1>1, <3>2
    <3> QED
      BY <3>1, <3>3
  <2> QED
    BY <2>1, <2>2
<1>4. jump \in [1 .. N -> 1 .. N + 1] /\ w \in [1 .. N -> Nat] /\ \A i \in 1 .. N : i < jump[i]
  BY <1>3
<1>5. ASSUME NEW f PROVE IsCount(f) <=> Counts(f, N, jump, w)
  <2>1. ASSUME NEW i \in 1 .. N + 1
        PROVE  (IF i > N THEN 0 ELSE w[i] + f[jump[i]])
                 = IF i > Len(text) THEN 0
                   ELSE IF Matches(text, i) = {} THEN 2 + f[i + 1]
                   ELSE 1 + f[i + Max({Len(Text[t]) : t \in Matches(text, i)})]
    <3>1. CASE i > N
      BY <3>1
    <3>2. CASE ~(i > N)
      <4>1. i \in 1 .. N
        BY <1>1, <3>2
      <4> QED
        BY <3>2, <4>1
    <3> QED
      BY <3>1, <3>2
  <2>2. [i \in 1 .. N + 1 |-> IF i > N THEN 0 ELSE w[i] + f[jump[i]]]
          = [i \in 1 .. Len(text) + 1 |->
               IF i > Len(text) THEN 0
               ELSE IF Matches(text, i) = {} THEN 2 + f[i + 1]
               ELSE 1 + f[i + Max({Len(Text[t]) : t \in Matches(text, i)})]]
    BY <2>1
  <2> HIDE DEF jump, w
  <2> QED
    BY <2>2 DEF Counts
<1>6. EncodedLength(text) = count[1]
  BY DEF EncodedLength
<1>7. IsCount(count)
  <2>1. \E f : Counts(f, N, jump, w)
    <3> HIDE DEF N, jump, w
    <3> QED
      BY <1>1, <1>4, CountExists
  <2>2. \E f : IsCount(f)
    <3> HIDE DEF IsCount, N, jump, w
    <3> QED
      BY <1>5, <2>1
  <2> HIDE DEF IsCount
  <2> QED
    BY <2>2
<1> HIDE DEF IsCount, count, jump, w, N
<1>8. Counts(count, N, jump, w)
  BY <1>5, <1>7
<1>9. count[1] \in Nat
  BY <1>1, <1>4, <1>8, CountTyped
<1> QED
  BY <1>6, <1>9

(* What is kept of an answer with a stop is a beginning of it. *)
LEMMA KeptTokens ==
  ASSUME NEW ids \in Seq(Tokens), StopReached(ids)
  PROVE  /\ EncodedLength(InFront(Decode(ids))) \in Nat
         /\ TokenSequenceStopIndex(ids) \in 0 .. Len(ids)
         /\ TokenSequenceStopIndex(ids)
              = IF EncodedLength(InFront(Decode(ids))) <= Len(ids)
                THEN EncodedLength(InFront(Decode(ids))) ELSE Len(ids)
<1> DEFINE text == Decode(ids)
           front == InFront(text)
<1>1. text \in Seq(Characters) /\ StopsIn(text) # {} /\ Len(ids) \in Nat
  BY DecodeTyped DEF StopReached
<1> HIDE DEF text
<1>2. front \in Seq(Characters)
  <2>1. Min(StopsIn(text)) \in 1 .. Len(text)
    BY <1>1, NoneInFront
  <2>2. Min(StopsIn(text)) - 1 \in 0 .. Len(text)
    BY <2>1
  <2> QED
    BY <1>1, <2>2, BeginningOf DEF InFront
<1>3. EncodedLength(front) \in Nat
  BY <1>2, EncodedTyped
<1>4. TokenSequenceStopIndex(ids) = Min({EncodedLength(front), Len(ids)})
  BY DEF TokenSequenceStopIndex, text
<1> HIDE DEF front
<1>5. TokenSequenceStopIndex(ids)
        = IF EncodedLength(front) <= Len(ids) THEN EncodedLength(front) ELSE Len(ids)
  BY <1>1, <1>3, <1>4, MinOfTwo
<1>6. TokenSequenceStopIndex(ids) \in 0 .. Len(ids)
  BY <1>1, <1>3, <1>5
<1> QED
  BY <1>3, <1>5, <1>6 DEF front, text

-----------------------------------------------------------------------------
(* Answers whose characters are whole.                                      *)

LEMMA CutInTwo ==
  ASSUME NEW S, NEW s \in Seq(S), NEW k \in 0 .. Len(s)
  PROVE  /\ SubSeq(s, 1, k) \in Seq(S) /\ SubSeq(s, k + 1, Len(s)) \in Seq(S)
         /\ s = SubSeq(s, 1, k) \o SubSeq(s, k + 1, Len(s))
<1> DEFINE a == SubSeq(s, 1, k)
           b == SubSeq(s, k + 1, Len(s))
<1>1. a \in Seq(S) /\ Len(a) = k /\ \A i \in 1 .. k : a[i] = s[i]
  BY BeginningOf
<1>2. /\ b \in Seq(S) /\ Len(b) = Len(s) - (k + 1) + 1
      /\ \A j \in 1 .. Len(s) - (k + 1) + 1 : b[j] = s[(k + 1) + j - 1]
  <2>1. k + 1 \in 1 .. Len(s) + 1
    OBVIOUS
  <2> QED
    BY <2>1, BehindOf
<1> HIDE DEF a, b
<1>3. Len(s) = Len(a) + Len(b)
  BY <1>1, <1>2
<1>4. ASSUME NEW i \in 1 .. Len(s)
      PROVE  s[i] = IF i <= Len(a) THEN a[i] ELSE b[i - Len(a)]
  <2>1. CASE i <= k
    BY <1>1, <2>1
  <2>2. CASE ~(i <= k)
    <3>1. i - k \in 1 .. Len(s) - (k + 1) + 1 /\ (k + 1) + (i - k) - 1 = i
      BY <2>2
    <3>2. b[i - k] = s[i]
      BY <1>2, <3>1
    <3> QED
      BY <1>1, <2>2, <3>2
  <2> QED
    BY <2>1, <2>2
<1>5. s = a \o b
  BY <1>1, <1>2, <1>3, <1>4, ConcatIs
<1> QED
  BY <1>1, <1>2, <1>5 DEF a, b

(* A beginning of such an answer is one too, and its text begins the text. *)
LEMMA WholeOfPart ==
  ASSUME NEW ids \in Seq(Tokens), WholeCharacters(ids), NEW k \in 0 .. Len(ids)
  PROVE  /\ IsPrefix(Decode(SubSeq(ids, 1, k)), Decode(ids))
         /\ WholeCharacters(SubSeq(ids, 1, k))
<1> DEFINE part == SubSeq(ids, 1, k)
           rest == SubSeq(ids, k + 1, Len(ids))
<1>1. part \in Seq(Tokens) /\ rest \in Seq(Tokens) /\ ids = part \o rest
  BY CutInTwo
<1>2. Len(part) = k /\ Len(ids) \in Nat
  BY BeginningOf
<1>3. ~Splits(part, rest)
  <2>1. CASE k \in 1 .. Len(ids) - 1
    BY <2>1 DEF WholeCharacters
  <2>2. CASE k = 0
    <3>1. Bytes(part) = <<>>
      <4>1. part = <<>>
        BY <1>1, <1>2, <2>2, EmptySeq
      <4> QED
        BY <4>1, BytesNothing
    <3> QED
      BY <3>1 DEF Splits
  <2>3. CASE k = Len(ids)
    <3>1. Bytes(rest) = <<>>
      <4>1. Len(rest) = 0
        <5>1. Len(rest) = Len(ids) - (k + 1) + 1
          <6>1. k + 1 \in 1 .. Len(ids) + 1
            OBVIOUS
          <6> QED
            BY <6>1, BehindOf
        <5> QED
          BY <1>2, <2>3, <5>1
      <4>2. rest = <<>>
        BY <1>1, <4>1, EmptySeq
      <4> QED
        BY <4>2, BytesNothing
    <3> QED
      BY <3>1 DEF Splits
  <2> QED
    BY <1>2, <2>1, <2>2, <2>3
<1>4. IsPrefix(Decode(part), Decode(ids))
  <2> HIDE DEF part, rest
  <2> QED
    BY <1>1, <1>3, DecodeGrows
<1>5. ASSUME NEW j \in 1 .. k - 1
      PROVE  ~Splits(SubSeq(part, 1, j), SubSeq(part, j + 1, k))
  <2> DEFINE u == SubSeq(part, 1, j)
             v == SubSeq(part, j + 1, k)
             w == SubSeq(ids, j + 1, Len(ids))
  <2>1. /\ u \in Seq(Tokens) /\ v \in Seq(Tokens) /\ part = u \o v
    <3>1. j \in 0 .. Len(part)
      BY <1>2
    <3> HIDE DEF part
    <3> QED
      BY <1>1, <1>2, <3>1, CutInTwo
  <2>2. SubSeq(ids, 1, j) = u
    <3>1. j \in 0 .. k
      OBVIOUS
    <3> QED
      BY <3>1, CutTwice
  <2>3. w \in Seq(Tokens) /\ ids = u \o w
    <3>1. j \in 0 .. Len(ids)
      OBVIOUS
    <3> QED
      BY <2>2, <3>1, CutInTwo
  <2>4. ~Splits(u, w)
    <3>1. j \in 1 .. Len(ids) - 1
      OBVIOUS
    <3> QED
      BY <2>2, <3>1 DEF WholeCharacters
  <2>5. Len(u) = j
    BY <1>1, <1>2, BeginningOf
  <2> HIDE DEF u, v, w, part, rest
  <2>6. w = v \o rest
    <3>1. PICK longer : longer = v \o rest
      OBVIOUS
    <3>2. longer \in Seq(Tokens)
      BY <1>1, <2>1, <3>1, ConcatProperties
    <3>3. (u \o v) \o rest = u \o (v \o rest)
      <4>1. Reassociates(u, v, rest)
        BY <1>1, <2>1, Associative
      <4> QED
        BY <4>1 DEF Reassociates
    <3>4. u \o w = u \o longer
      BY Zenon, <1>1, <2>1, <2>3, <3>1, <3>3
    <3>5. w = longer
      BY <2>1, <2>3, <3>2, <3>4, SameBehind
    <3> QED
      BY <3>1, <3>5
  <2>7. Bytes(w) = Bytes(v) \o Bytes(rest)
    BY <1>1, <2>1, <2>6, BytesJoin
  <2>8. Bytes(v) # <<>> => Bytes(w) # <<>> /\ Head(Bytes(w)) = Head(Bytes(v))
    <3> PICK a, b, c : a = Bytes(v) /\ b = Bytes(rest) /\ c = Bytes(w)
      OBVIOUS
    <3>1. a \in Seq(Symbols) /\ b \in Seq(Symbols) /\ c = a \o b
      BY <1>1, <2>1, <2>7, BytesTyped
    <3>2. a # <<>> => c # <<>> /\ Head(c) = Head(a)
      BY <3>1, HeadOfConcat
    <3> QED
      BY <3>2
  <2>9. ~Splits(u, v)
    BY <2>4, <2>8 DEF Splits
  <2> QED
    BY <2>9 DEF u, v
<1>6. WholeCharacters(part)
  <2>1. Len(part) = k
    BY <1>2
  <2> HIDE DEF part
  <2> QED
    BY <1>5, <2>1 DEF WholeCharacters, part
<1> QED
  BY <1>4, <1>6 DEF part

-----------------------------------------------------------------------------
(* The inductive invariant.                                                 *)

(* A request that hit no stop: there is none in anything it generated so    *)
(* far, and a stream has sent that text behind what it had to send again.   *)
InStep(ids) ==
  /\ ids \in Seq(Tokens \ EosTokens) /\ Len(ids) <= MaxTokens
  /\ ids = SubSeq(target, 1, Len(ids))
  /\ \A k \in 0 .. Len(ids) : ~StopReached(SubSeq(ids, 1, k))
  /\ streamed_text = IF streaming THEN Decode(ids) ELSE <<>>
  /\ ~streaming => sent = <<>>
  /\ streaming => \E again \in Seq(Characters) : sent = again \o Decode(ids)
  /\ streaming /\ WholeCharacters(ids) => sent = Decode(ids)

(* One that hit a stop had not streamed the token that completed it. *)
CutAtStop ==
  \E n \in 1 .. MaxTokens :
    /\ InStep(SubSeq(target, 1, n - 1))
    /\ target[n] \notin EosTokens
    /\ StopReached(SubSeq(target, 1, n))
    /\ generated_ids = SubSeq(SubSeq(target, 1, n), 1,
                              TokenSequenceStopIndex(SubSeq(target, 1, n)))

IInv ==
  /\ target \in [1 .. MaxTokens -> Tokens]
  /\ streaming \in BOOLEAN
  /\ finish_reason \in {"running", "Length", "Stop", "StopSequence", "failed"}
  /\ finish_reason # "StopSequence" => InStep(generated_ids)
  /\ finish_reason = "StopSequence" => CutAtStop

LEMMA InitIInv == ASSUME Init PROVE IInv
<1> DEFINE none == <<>>
<1>1. none \in Seq(Tokens \ EosTokens) /\ Len(none) = 0 /\ 0 <= MaxTokens
  BY EmptySeq, MaxTokensAssumption
<1>2. SubSeq(none, 1, 0) = none /\ SubSeq(target, 1, 0) = none
  OBVIOUS
<1>3. ~StopReached(none)
  <2>1. 1 .. Len(none) = {}
    BY <1>1
  <2> QED
    BY <2>1, DecodeNothing DEF StopReached, StopsIn, none
<1>4. streaming => \E again \in Seq(Characters) : sent = again \o Decode(none)
  <2>1. none \in Seq(Characters) /\ none \o none = none
    BY EmptySeq, ConcatEmptySeq
  <2>2. sent = none \o Decode(none)
    BY <2>1, DecodeNothing DEF Init, none
  <2> QED
    BY <2>1, <2>2
<1>5. /\ generated_ids = none /\ sent = Decode(none)
      /\ streamed_text = IF streaming THEN Decode(none) ELSE <<>>
  BY DecodeNothing DEF Init, none
<1>6. ASSUME NEW k \in 0 .. Len(none) PROVE ~StopReached(SubSeq(none, 1, k))
  <2>1. k = 0
    BY <1>1
  <2> QED
    BY <1>2, <1>3, <2>1
<1>7. InStep(none)
  <2>1. ~streaming => sent = <<>>
    BY DEF Init
  <2> HIDE DEF none
  <2> QED
    BY <1>1, <1>2, <1>4, <1>5, <1>6, <2>1 DEF InStep
<1> QED
  BY <1>5, <1>7 DEF Init, IInv, Targets

(* What the model answers, up to a token. *)
LEMMA Sampled ==
  ASSUME target \in [1 .. MaxTokens -> Tokens], NEW n \in 0 .. MaxTokens
  PROVE  /\ SubSeq(target, 1, n) \in Seq(Tokens) /\ Len(SubSeq(target, 1, n)) = n
         /\ \A i \in 1 .. n : SubSeq(target, 1, n)[i] = target[i]
         /\ \A k \in 0 .. n : SubSeq(SubSeq(target, 1, n), 1, k) = SubSeq(target, 1, k)
<1>1. target \in Seq(Tokens) /\ Len(target) = MaxTokens
  BY MaxTokensAssumption
<1>2. n \in 0 .. Len(target)
  BY <1>1
<1>3. ASSUME NEW k \in 0 .. n
      PROVE  SubSeq(SubSeq(target, 1, n), 1, k) = SubSeq(target, 1, k)
  BY <1>1, <1>2, CutTwice
<1>4. /\ SubSeq(target, 1, n) \in Seq(Tokens) /\ Len(SubSeq(target, 1, n)) = n
      /\ \A i \in 1 .. n : SubSeq(target, 1, n)[i] = target[i]
  BY <1>1, <1>2, BeginningOf
<1> QED
  BY <1>3, <1>4

(* The token that is pushed. *)
LEMMA PushedStep ==
  ASSUME IInv, Generating
  PROVE  LET n == Len(generated_ids) + 1
         IN  /\ InStep(generated_ids) /\ n \in 1 .. MaxTokens
             /\ generated_ids = SubSeq(target, 1, n - 1)
             /\ Pushed = SubSeq(target, 1, n) /\ Last(Pushed) = target[n]
<1> DEFINE n == Len(generated_ids) + 1
           token == target[n]
           ids == SubSeq(target, 1, n)
<1>1. /\ InStep(generated_ids) /\ generated_ids \in Seq(Tokens)
      /\ generated_ids = SubSeq(target, 1, Len(generated_ids))
      /\ Len(generated_ids) < MaxTokens /\ Len(generated_ids) \in Nat /\ MaxTokens \in Nat
      /\ target \in [1 .. MaxTokens -> Tokens]
  BY MaxTokensAssumption DEF IInv, Generating, InStep
<1>2. n \in 1 .. MaxTokens /\ n - 1 = Len(generated_ids) /\ n \in 0 .. MaxTokens
  BY <1>1
<1>3. token \in Tokens
  BY <1>1, <1>2
<1>4. /\ ids \in Seq(Tokens) /\ Len(ids) = n /\ \A i \in 1 .. n : ids[i] = target[i]
      /\ \A k \in 0 .. n : SubSeq(ids, 1, k) = SubSeq(target, 1, k)
  BY <1>1, <1>2, Sampled
<1>5. \A i \in 1 .. n - 1 : generated_ids[i] = target[i]
  <2>1. n - 1 \in 0 .. MaxTokens
    BY <1>1, <1>2
  <2> PICK m : m = n - 1
    OBVIOUS
  <2>2. m \in 0 .. MaxTokens /\ generated_ids = SubSeq(target, 1, m)
    BY <1>1, <1>2, <2>1
  <2>3. \A i \in 1 .. m : generated_ids[i] = target[i]
    BY <1>1, <2>2, Sampled
  <2> QED
    BY <2>3
<1> HIDE DEF token, ids
<1>6. /\ Append(generated_ids, token) \in Seq(Tokens)
      /\ Len(Append(generated_ids, token)) = n
      /\ \A i \in 1 .. n - 1 : Append(generated_ids, token)[i] = generated_ids[i]
      /\ Append(generated_ids, token)[n] = token
  BY <1>1, <1>2, <1>3, AppendProperties
<1>7. Append(generated_ids, token) = ids
  <2> DEFINE longer == Append(generated_ids, token)
  <2> HIDE DEF longer
  <2>1. ASSUME NEW i \in 1 .. n PROVE longer[i] = ids[i]
    <3>1. CASE i = n
      BY <1>2, <1>4, <1>6, <3>1 DEF token, longer
    <3>2. CASE i # n
      <4>1. i \in 1 .. n - 1
        BY <1>2, <3>2
      <4> QED
        BY <1>4, <1>5, <1>6, <4>1 DEF longer
    <3> QED
      BY <3>1, <3>2
  <2>2. longer = ids
    BY <1>4, <1>6, <2>1, SeqEqual DEF longer
  <2> QED
    BY <2>2 DEF longer
<1>8. Pushed = ids
  BY <1>7 DEF Pushed, token
<1>9. Last(Pushed) = target[n]
  BY <1>2, <1>4, <1>8 DEF Last
<1> QED
  BY <1>1, <1>2, <1>8, <1>9 DEF ids

LEMMA EndKeeps ==
  ASSUME IInv, EndOfText \/ Complete \/ Fail \/ UNCHANGED vars
  PROVE  IInv'
<1>1. UNCHANGED <<target, streaming, generated_ids, streamed_text, sent>>
  BY DEF EndOfText, Complete, Fail, vars
<1>2. CASE UNCHANGED finish_reason
  <2>1. CutAtStop' <=> CutAtStop
    BY <1>1 DEF CutAtStop, InStep
  <2>2. InStep(generated_ids)' <=> InStep(generated_ids)
    BY <1>1 DEF InStep
  <2> QED
    BY <1>1, <1>2, <2>1, <2>2 DEF IInv
<1>3. CASE finish_reason = "running" /\ finish_reason' \in {"Stop", "Length", "failed"}
  BY <1>1, <1>3 DEF IInv, InStep
<1> QED
  BY <1>1, <1>2, <1>3 DEF EndOfText, Complete, Fail, Generating, vars

LEMMA StopKeeps == ASSUME IInv, HitStop PROVE IInv'
<1> DEFINE n == Len(generated_ids) + 1
<1>1. /\ Generating /\ Last(Pushed) \notin EosTokens /\ StopReached(Pushed)
      /\ generated_ids' = SubSeq(Pushed, 1, TokenSequenceStopIndex(Pushed))
      /\ finish_reason' = "StopSequence"
      /\ UNCHANGED <<target, streaming, streamed_text, sent>>
  BY DEF HitStop
<1>2. /\ InStep(generated_ids) /\ n \in 1 .. MaxTokens
      /\ generated_ids = SubSeq(target, 1, n - 1)
      /\ Pushed = SubSeq(target, 1, n) /\ Last(Pushed) = target[n]
  BY <1>1, PushedStep
<1> PICK m : m = n
  OBVIOUS
<1> PICK before : before = generated_ids
  OBVIOUS
<1>3. /\ InStep(before) /\ m \in 1 .. MaxTokens /\ before = SubSeq(target, 1, m - 1)
      /\ target[m] \notin EosTokens /\ StopReached(SubSeq(target, 1, m))
      /\ generated_ids' = SubSeq(SubSeq(target, 1, m), 1,
                                 TokenSequenceStopIndex(SubSeq(target, 1, m)))
  BY <1>1, <1>2
<1> HIDE DEF n
<1>4. InStep(before)'
  BY <1>1, <1>3 DEF InStep
<1>5. before = SubSeq(target', 1, m - 1) /\ target' = target
  BY <1>1, <1>3
<1>6. CutAtStop'
  BY <1>3, <1>4, <1>5 DEF CutAtStop
<1> QED
  BY <1>1, <1>6 DEF IInv

(* What is pushed is streamed: the text that extends the old one, or all of *)
(* it again.                                                                *)
LEMMA PushKeeps == ASSUME IInv, Push PROVE IInv'
<1> DEFINE n == Len(generated_ids) + 1
           before == generated_ids
           ids == SubSeq(target, 1, n)
           old == Decode(before)
           new == Decode(ids)
<1>1. /\ Generating /\ Last(Pushed) \notin EosTokens /\ ~StopReached(Pushed)
      /\ generated_ids' = Pushed
      /\ streamed_text' = IF streaming THEN Decode(Pushed) ELSE streamed_text
      /\ sent' = IF streaming THEN sent \o Delta(streamed_text, Decode(Pushed)) ELSE sent
      /\ UNCHANGED <<target, streaming, finish_reason>>
  BY DEF Push
<1>2. /\ InStep(before) /\ n \in 1 .. MaxTokens /\ before = SubSeq(target, 1, n - 1)
      /\ Pushed = ids /\ target[n] \notin EosTokens
      /\ target \in [1 .. MaxTokens -> Tokens] /\ streaming \in BOOLEAN
  BY <1>1, PushedStep DEF IInv
<1>3. /\ before \in Seq(Tokens \ EosTokens) /\ Len(before) = n - 1 /\ Len(before) \in Nat
      /\ \A k \in 0 .. n - 1 : ~StopReached(SubSeq(before, 1, k))
      /\ streamed_text = IF streaming THEN old ELSE <<>>
      /\ ~streaming => sent = <<>>
      /\ streaming => \E again \in Seq(Characters) : sent = again \o old
      /\ streaming /\ WholeCharacters(before) => sent = old
  BY <1>2 DEF InStep
<1>4. /\ ids \in Seq(Tokens) /\ Len(ids) = n
      /\ \A i \in 1 .. n : ids[i] = target[i]
      /\ \A k \in 0 .. n : SubSeq(ids, 1, k) = SubSeq(target, 1, k)
  <2>1. n \in 0 .. MaxTokens
    BY <1>2
  <2> HIDE DEF n
  <2> QED
    BY <1>2, <2>1, Sampled
<1>5. \A k \in 0 .. n - 1 : SubSeq(before, 1, k) = SubSeq(ids, 1, k)
  <2>1. n - 1 \in 0 .. MaxTokens /\ n - 1 \in 0 .. n /\ 0 .. n - 1 \subseteq 0 .. n
    BY <1>2, <1>3, MaxTokensAssumption
  <2>2. before = SubSeq(ids, 1, n - 1)
    BY <1>2, <1>4, <2>1
  <2> HIDE DEF n, before, ids
  <2>3. ASSUME NEW k \in 0 .. n - 1 PROVE SubSeq(before, 1, k) = SubSeq(ids, 1, k)
    <3>1. n - 1 \in 0 .. Len(ids)
      BY <1>4, <2>1
    <3> QED
      BY <1>4, <2>2, <3>1, CutTwice
  <2> QED
    BY <2>3
<1>6. ids \in Seq(Tokens \ EosTokens)
  <2>1. \A i \in 1 .. n - 1 : before[i] \in Tokens \ EosTokens
    BY <1>3, ElementOfSeq
  <2>2. n - 1 \in 0 .. MaxTokens
    BY <1>2, <1>3, MaxTokensAssumption
  <2>3. \A i \in 1 .. n - 1 : before[i] = target[i]
    <3> PICK m : m = n - 1
      OBVIOUS
    <3>1. m \in 0 .. MaxTokens /\ before = SubSeq(target, 1, m)
      BY <1>2, <2>2
    <3> HIDE DEF before, n
    <3>2. \A i \in 1 .. m : before[i] = target[i]
      BY <1>2, <3>1, Sampled
    <3> QED
      BY <3>2
  <2>4. ASSUME NEW i \in 1 .. n PROVE ids[i] \in Tokens \ EosTokens
    <3>1. target[i] \in Tokens /\ ids[i] = target[i]
      BY <1>2, <1>4
    <3>2. CASE i = n
      BY <1>2, <3>1, <3>2
    <3>3. CASE i # n
      <4>1. i \in 1 .. n - 1
        BY <1>2, <3>3
      <4> QED
        BY <2>1, <2>3, <3>1, <4>1
    <3> QED
      BY <3>2, <3>3
  <2> HIDE DEF n, ids
  <2> QED
    BY <1>4, <2>4
<1>7. \A k \in 0 .. n : ~StopReached(SubSeq(ids, 1, k))
  <2> SUFFICES ASSUME NEW k \in 0 .. n PROVE ~StopReached(SubSeq(ids, 1, k))
    OBVIOUS
  <2>1. CASE k = n
    <3>1. SubSeq(ids, 1, k) = ids
      BY <1>4, <2>1, SubSeqFull
    <3> QED
      BY <1>1, <1>2, <3>1
  <2>2. CASE k # n
    <3>1. k \in 0 .. n - 1
      BY <1>2, <2>2
    <3> QED
      BY <1>3, <1>5, <3>1
  <2> QED
    BY <2>1, <2>2
<1>8. old \in Seq(Characters) /\ new \in Seq(Characters)
  <2>1. before \in Seq(Tokens)
    BY <1>3
  <2> HIDE DEF before, ids
  <2> QED
    BY <1>4, <2>1, DecodeTyped
<1>9. streaming => sent' = sent \o Delta(old, new)
  BY <1>1, <1>2, <1>3
<1>10. streaming => \E again \in Seq(Characters) : sent' = again \o new
  <2> SUFFICES ASSUME streaming PROVE \E again \in Seq(Characters) : sent' = again \o new
    OBVIOUS
  <2>1. PICK again \in Seq(Characters) : sent = again \o old
    BY <1>3
  <2> HIDE DEF old, new
  <2>2. sent \in Seq(Characters)
    BY <1>8, <2>1, ConcatProperties
  <2>3. CASE IsPrefix(old, new)
    <3>1. PICK delta : delta = Delta(old, new)
      OBVIOUS
    <3>2. delta \in Seq(Characters) /\ old \o delta = new
      <4>1. Len(old) <= Len(new) /\ Len(old) \in Nat /\ Len(new) \in Nat
        BY <1>8, <2>3, PrefixRows
      <4>2. Len(old) + 1 \in 1 .. Len(new) + 1
        BY <4>1
      <4>3. SubSeq(new, Len(old) + 1, Len(new)) \in Seq(Characters)
        BY <1>8, <4>2, BehindOf
      <4>4. delta \in Seq(Characters)
        BY <2>3, <3>1, <4>3 DEF Delta
      <4> QED
        BY <1>8, <2>3, <3>1, <4>4, StreamGrows
    <3>3. (again \o old) \o delta = again \o (old \o delta)
      <4>1. Reassociates(again, old, delta)
        BY <1>8, <3>2, Associative
      <4> QED
        BY <4>1 DEF Reassociates
    <3>4. sent' = again \o new
      BY Zenon, <1>9, <2>1, <3>1, <3>2, <3>3
    <3> QED
      BY <3>4
  <2>4. CASE ~IsPrefix(old, new)
    <3>1. sent' = sent \o new
      BY <1>9, <2>4 DEF Delta
    <3> QED
      BY <2>2, <3>1
  <2> QED
    BY <2>3, <2>4
<1>11. streaming /\ WholeCharacters(ids) => sent' = new
  <2> SUFFICES ASSUME streaming, WholeCharacters(ids) PROVE sent' = new
    OBVIOUS
  <2>1. WholeCharacters(before) /\ IsPrefix(old, new)
    <3>1. n - 1 \in 0 .. Len(ids) /\ before = SubSeq(ids, 1, n - 1)
      BY <1>2, <1>4
    <3> HIDE DEF n, before, ids
    <3> QED
      BY <1>4, <3>1, WholeOfPart
  <2>2. sent = old
    BY <1>3, <2>1
  <2> HIDE DEF old, new
  <2>3. old \o Delta(old, new) = new
    BY <1>8, <2>1, StreamGrows
  <2> QED
    BY <1>9, <2>2, <2>3
<1> PICK after : after = ids
  OBVIOUS
<1>12. generated_ids' = after /\ target' = target /\ streaming' = streaming /\ Len(after) = n
  BY <1>1, <1>2, <1>4
<1>13. InStep(after)'
  <2>1. after = SubSeq(target, 1, n) /\ n <= MaxTokens
    BY <1>2
  <2>2. streamed_text' = IF streaming THEN Decode(after) ELSE <<>>
    BY <1>1, <1>2, <1>3
  <2>3. ~streaming => sent' = <<>>
    BY <1>1, <1>3
  <2>4. /\ after \in Seq(Tokens \ EosTokens) /\ \A k \in 0 .. n : ~StopReached(SubSeq(after, 1, k))
        /\ streaming => \E again \in Seq(Characters) : sent' = again \o Decode(after)
        /\ streaming /\ WholeCharacters(after) => sent' = Decode(after)
    BY <1>6, <1>7, <1>10, <1>11
  <2> HIDE DEF n, ids, before, old, new
  <2> QED
    BY <1>12, <2>1, <2>2, <2>3, <2>4 DEF InStep
<1> QED
  BY <1>1, <1>2, <1>12, <1>13 DEF IInv, Generating

(* While the loop of generate_native runs there is no stop in the text, and *)
(* behind a stop it keeps as many tokens as the text in front of the first  *)
(* one encodes to, whatever the tokens are made of.                         *)
THEOREM Inductive == Spec => []IInv
<1>1. Init => IInv
  BY InitIInv
<1>2. IInv /\ [Next]_vars => IInv'
  BY EndKeeps, StopKeeps, PushKeeps DEF Next
<1> QED
  BY <1>1, <1>2, PTL DEF Spec

-----------------------------------------------------------------------------
(* What an answer is.                                                       *)

(* A request that hit a stop: all of its tokens, those in front of the one  *)
(* that completed the stop, and what is kept of them.                       *)
LEMMA Kept ==
  ASSUME IInv, finish_reason = "StopSequence"
  PROVE  \E n \in 1 .. MaxTokens :
           LET ids    == SubSeq(target, 1, n)
               before == SubSeq(target, 1, n - 1)
               kept   == TokenSequenceStopIndex(ids)
           IN  /\ Stopped = ids /\ ids \in Seq(Tokens) /\ Len(ids) = n
               /\ before \in Seq(Tokens) /\ Len(before) = n - 1 /\ before = SubSeq(ids, 1, n - 1)
               /\ InStep(before) /\ StopReached(ids)
               /\ kept \in 0 .. n /\ generated_ids = SubSeq(ids, 1, kept)
               /\ kept = IF EncodedLength(InFront(Decode(ids))) <= n
                         THEN EncodedLength(InFront(Decode(ids))) ELSE n
               /\ EncodedLength(InFront(Decode(ids))) \in Nat
               /\ kept = n => generated_ids = ids
               /\ kept # n => ~StopReached(generated_ids)
<1>1. target \in [1 .. MaxTokens -> Tokens] /\ MaxTokens \in Nat
  BY MaxTokensAssumption DEF IInv
<1>2. PICK n \in 1 .. MaxTokens :
        /\ InStep(SubSeq(target, 1, n - 1))
        /\ target[n] \notin EosTokens
        /\ StopReached(SubSeq(target, 1, n))
        /\ generated_ids = SubSeq(SubSeq(target, 1, n), 1,
                                  TokenSequenceStopIndex(SubSeq(target, 1, n)))
  BY DEF IInv, CutAtStop
<1> DEFINE ids == SubSeq(target, 1, n)
           before == SubSeq(target, 1, n - 1)
           kept == TokenSequenceStopIndex(ids)
<1>3. /\ ids \in Seq(Tokens) /\ Len(ids) = n
      /\ \A k \in 0 .. n : SubSeq(ids, 1, k) = SubSeq(target, 1, k)
  <2>1. n \in 0 .. MaxTokens
    BY <1>1
  <2> QED
    BY <1>1, <2>1, Sampled
<1>4. /\ before \in Seq(Tokens) /\ Len(before) = n - 1
      /\ \A k \in 0 .. n - 1 : SubSeq(before, 1, k) = SubSeq(target, 1, k)
  <2> PICK m : m = n - 1
    OBVIOUS
  <2>1. m \in 0 .. MaxTokens
    BY <1>1
  <2>2. /\ SubSeq(target, 1, m) \in Seq(Tokens) /\ Len(SubSeq(target, 1, m)) = m
        /\ \A k \in 0 .. m : SubSeq(SubSeq(target, 1, m), 1, k) = SubSeq(target, 1, k)
    BY <1>1, <2>1, Sampled
  <2> QED
    BY <2>2
<1>5. before = SubSeq(ids, 1, n - 1)
  <2>1. n - 1 \in 0 .. n
    BY <1>1
  <2> QED
    BY <1>3, <2>1
<1>6. \A k \in 0 .. n - 1 : ~StopReached(SubSeq(target, 1, k))
  <2>1. \A k \in 0 .. n - 1 : ~StopReached(SubSeq(before, 1, k))
    <3> HIDE DEF before
    <3>1. \A k \in 0 .. Len(before) : ~StopReached(SubSeq(before, 1, k))
      BY <1>2 DEF InStep, before
    <3> QED
      BY <1>4, <3>1
  <2> QED
    BY <1>4, <2>1
<1>7. Stopped = ids
  <2> DEFINE stops == {k \in 1 .. MaxTokens : StopReached(SubSeq(target, 1, k))}
  <2>1. stops \in SUBSET Nat /\ n \in stops /\ stops # {}
    BY <1>1, <1>2
  <2>2. \A k \in stops : n <= k
    <3> SUFFICES ASSUME NEW k \in stops, k < n PROVE FALSE
      BY <1>1
    <3>1. k \in 0 .. n - 1
      BY <1>1
    <3> QED
      BY <1>6, <3>1
  <2>3. Min(stops) = n
    <3> HIDE DEF stops
    <3>1. Min(stops) \in stops /\ Min(stops) <= n
      BY <2>1, MinOfNaturals
    <3>2. n <= Min(stops) /\ Min(stops) \in Nat /\ n \in Nat
      BY <2>1, <2>2, <3>1
    <3> QED
      BY <3>1, <3>2
  <2> QED
    BY <2>3 DEF Stopped
<1>8. /\ EncodedLength(InFront(Decode(ids))) \in Nat
      /\ kept \in 0 .. n
      /\ kept = IF EncodedLength(InFront(Decode(ids))) <= n
                THEN EncodedLength(InFront(Decode(ids))) ELSE n
  <2> HIDE DEF ids
  <2>1. StopReached(ids)
    BY <1>2 DEF ids
  <2> QED
    BY <1>3, <2>1, KeptTokens
<1>9. generated_ids = SubSeq(ids, 1, kept)
  BY <1>2
<1>10. kept = n => generated_ids = ids
  <2> HIDE DEF ids, kept
  <2> QED
    BY <1>3, <1>9, SubSeqFull
<1>11. kept # n => ~StopReached(generated_ids)
  <2> SUFFICES ASSUME kept # n PROVE ~StopReached(generated_ids)
    OBVIOUS
  <2> HIDE DEF ids, kept
  <2>1. kept \in 0 .. n - 1 /\ kept \in 0 .. n
    BY <1>1, <1>8
  <2>2. generated_ids = SubSeq(target, 1, kept)
    BY <1>3, <1>9, <2>1
  <2> QED
    BY <1>6, <2>1, <2>2
<1> QED
  BY <1>2, <1>3, <1>4, <1>5, <1>7, <1>8, <1>9, <1>10, <1>11

(* A stop sequence in the answer is one that nothing could be cut for; and  *)
(* if the stop begins where a token does, in front of which the text        *)
(* encodes to the tokens it came from, the answer is just that text.        *)
THEOREM AnswersHaveNoStop == Spec => []NoStopInAnswer
<1>1. IInv => NoStopInAnswer
  <2> SUFFICES ASSUME IInv PROVE NoStopInAnswer
    OBVIOUS
  <2>1. CASE finish_reason # "StopSequence"
    <3>1. InStep(generated_ids)
      BY <2>1 DEF IInv
    <3>2. ~StopReached(generated_ids)
      <4>1. /\ generated_ids \in Seq(Tokens)
            /\ \A k \in 0 .. Len(generated_ids) : ~StopReached(SubSeq(generated_ids, 1, k))
        BY <3>1 DEF InStep
      <4>2. Len(generated_ids) \in 0 .. Len(generated_ids)
            /\ SubSeq(generated_ids, 1, Len(generated_ids)) = generated_ids
        BY <4>1, SubSeqFull
      <4> QED
        BY <4>1, <4>2
    <3> QED
      BY <2>1, <3>2 DEF NoStopInAnswer
  <2>2. CASE finish_reason = "StopSequence"
    <3>p. PICK ids, kept, encoded :
            /\ ids = Stopped /\ kept = TokenSequenceStopIndex(ids)
            /\ encoded = EncodedLength(InFront(Decode(ids)))
      OBVIOUS
    <3>1. /\ ids \in Seq(Tokens) /\ Len(ids) \in Nat
          /\ kept \in 0 .. Len(ids) /\ encoded \in Nat
          /\ generated_ids = SubSeq(ids, 1, kept)
          /\ kept = IF encoded <= Len(ids) THEN encoded ELSE Len(ids)
          /\ kept = Len(ids) => generated_ids = ids
          /\ kept # Len(ids) => ~StopReached(generated_ids)
      <4>1. PICK n \in 1 .. MaxTokens :
              LET all == SubSeq(target, 1, n)
              IN  /\ Stopped = all /\ all \in Seq(Tokens) /\ Len(all) = n
                  /\ TokenSequenceStopIndex(all) \in 0 .. n
                  /\ generated_ids = SubSeq(all, 1, TokenSequenceStopIndex(all))
                  /\ TokenSequenceStopIndex(all)
                       = IF EncodedLength(InFront(Decode(all))) <= n
                         THEN EncodedLength(InFront(Decode(all))) ELSE n
                  /\ EncodedLength(InFront(Decode(all))) \in Nat
                  /\ TokenSequenceStopIndex(all) = n => generated_ids = all
                  /\ TokenSequenceStopIndex(all) # n => ~StopReached(generated_ids)
        BY <2>2, Kept
      <4>2. /\ ids = SubSeq(target, 1, n) /\ Len(ids) = n /\ ids \in Seq(Tokens)
            /\ kept \in 0 .. n /\ encoded \in Nat
            /\ generated_ids = SubSeq(ids, 1, kept)
            /\ kept = IF encoded <= n THEN encoded ELSE n
            /\ kept = n => generated_ids = ids
            /\ kept # n => ~StopReached(generated_ids)
        BY Zenon, <3>p, <4>1
      <4> QED
        BY <4>2
    <3>2. StopReached(generated_ids) =>
            EncodedLength(InFront(Decode(generated_ids))) >= Len(generated_ids)
      <4> SUFFICES ASSUME StopReached(generated_ids)
                   PROVE  EncodedLength(InFront(Decode(generated_ids))) >= Len(generated_ids)
        OBVIOUS
      <4>1. generated_ids = ids /\ kept = Len(ids)
        BY <3>1
      <4>2. encoded >= Len(ids)
        <5> PICK n : n = Len(ids)
          OBVIOUS
        <5>1. n \in Nat /\ encoded \in Nat /\ n = IF encoded <= n THEN encoded ELSE n
          BY <3>1, <4>1
        <5> QED
          BY <5>1
      <4> QED
        BY <3>p, <4>1, <4>2
    <3>3. CutsCleanly(Stopped) => Decode(generated_ids) = InFront(Decode(Stopped))
      <4> SUFFICES ASSUME CutsCleanly(ids) PROVE Decode(generated_ids) = InFront(Decode(ids))
        BY <3>p
      <4>1. PICK k \in 0 .. Len(ids) :
              Decode(SubSeq(ids, 1, k)) = InFront(Decode(ids)) /\ encoded = k
        BY <3>p DEF CutsCleanly
      <4>2. kept = k
        BY <3>1, <4>1
      <4> QED
        BY <3>1, <4>1, <4>2
    <3> QED
      BY <2>2, <3>2, <3>3 DEF NoStopInAnswer
  <2> QED
    BY <2>1, <2>2
<1> QED
  BY <1>1, Inductive, PTL

(* What was sent beyond the text in front of the first stop is the          *)
(* beginning of that stop, since the stop was not complete when it was sent.*)
LEMMA BeginningOfStop ==
  ASSUME NEW shown \in Seq(Characters), NEW text \in Seq(Characters), IsPrefix(shown, text),
         StopsIn(shown) = {}, NEW first \in StopsIn(text), first - 1 <= Len(shown)
  PROVE  /\ IsPrefix(SubSeq(text, 1, first - 1), shown)
         /\ \/ shown = SubSeq(text, 1, first - 1)
            \/ IsProperPrefixOfStop(SubSeq(shown, first, Len(shown)))
<1>1. /\ Len(shown) <= Len(text) /\ \A i \in 1 .. Len(shown) : shown[i] = text[i]
      /\ Len(shown) \in Nat /\ Len(text) \in Nat
  BY PrefixRows
<1>2. PICK stop \in Stop : first \in 1 .. Len(text) /\ IsPrefix(stop, SubSeq(text, first, Len(text)))
  BY DEF StopsIn
<1>3. stop \in Seq(Characters) /\ Len(stop) \in Nat
  BY <1>2, TextAssumption
<1>4. /\ Len(stop) <= Len(text) - first + 1
      /\ \A j \in 1 .. Len(stop) : stop[j] = text[first + j - 1]
  BY <1>2, <1>3, StandsAt
<1> DEFINE rest == SubSeq(shown, first, Len(shown))
           front == SubSeq(text, 1, first - 1)
<1>5. /\ rest \in Seq(Characters) /\ Len(rest) = Len(shown) - first + 1
      /\ \A j \in 1 .. Len(shown) - first + 1 : rest[j] = shown[first + j - 1]
  <2>1. first \in 1 .. Len(shown) + 1
    BY <1>1, <1>2
  <2> QED
    BY <2>1, BehindOf
<1>6. /\ front \in Seq(Characters) /\ Len(front) = first - 1
      /\ \A i \in 1 .. first - 1 : front[i] = text[i]
  <2>1. first - 1 \in 0 .. Len(text)
    BY <1>2
  <2> QED
    BY <2>1, BeginningOf
<1> HIDE DEF rest, front
<1>7. \A i \in 1 .. Len(front) : front[i] = shown[i]
  BY <1>1, <1>2, <1>6
<1>8. IsPrefix(front, shown)
  <2>1. Len(front) <= Len(shown)
    BY <1>6
  <2> QED
    BY <1>6, <1>7, <2>1, PrefixRows
<1>9. CASE first = Len(shown) + 1
  <2>1. Len(front) = Len(shown)
    BY <1>1, <1>6, <1>9
  <2>2. front = shown
    BY <1>6, <1>7, <2>1, SeqEqual
  <2> QED
    BY <1>8, <2>2 DEF front
<1>10. CASE first # Len(shown) + 1
  <2>1. first \in 1 .. Len(shown)
    BY <1>1, <1>2, <1>10
  <2>2. Len(rest) < Len(stop)
    <3> SUFFICES ASSUME Len(stop) <= Len(rest) PROVE FALSE
      BY <1>1, <1>3, <1>5, <2>1
    <3>1. Len(stop) <= Len(shown) - first + 1
      BY <1>5
    <3>2. \A j \in 1 .. Len(stop) : stop[j] = shown[first + j - 1]
      BY <1>1, <1>3, <1>4, <2>1, <3>1
    <3>3. IsPrefix(stop, SubSeq(shown, first, Len(shown)))
      BY <1>3, <2>1, <3>1, <3>2, StandsAt
    <3> QED
      BY <1>2, <2>1, <3>3 DEF StopsIn
  <2>3. ASSUME NEW j \in 1 .. Len(rest) PROVE rest[j] = stop[j]
    <3>1. /\ j \in 1 .. Len(shown) - first + 1 /\ first + j - 1 \in 1 .. Len(shown)
          /\ j \in 1 .. Len(stop)
      BY <1>1, <1>3, <1>5, <2>1, <2>2
    <3>2. rest[j] = shown[first + j - 1] /\ stop[j] = text[first + j - 1]
      BY <1>4, <1>5, <3>1
    <3> QED
      BY <1>1, <3>1, <3>2
  <2>4. IsPrefix(rest, stop)
    BY <1>3, <1>5, <2>2, <2>3, PrefixRows
  <2>5. rest # stop
    BY <1>3, <2>2
  <2>6. IsProperPrefixOfStop(rest)
    BY <1>2, <2>4, <2>5 DEF IsProperPrefixOfStop
  <2> QED
    BY <1>8, <2>6 DEF rest, front
<1> QED
  BY <1>9, <1>10

LEMMA StreamEnds ==
  ASSUME NEW ids, InStep(ids), streaming
  PROVE  IsSuffix(Decode(ids), sent)
<1>1. PICK again \in Seq(Characters) : sent = again \o Decode(ids)
  BY DEF InStep
<1>2. ids \in Seq(Tokens)
  BY DEF InStep
<1> PICK text : text = Decode(ids)
  OBVIOUS
<1>3. text \in Seq(Characters) /\ sent = again \o text
  BY <1>1, <1>2, DecodeTyped
<1> QED
  BY <1>3, SuffixOfConcat

(* The stream of a request that hit a stop, if its characters are whole and *)
(* it is cut cleanly: the answer, or the answer and the beginning of a stop.*)
LEMMA StreamAtStop ==
  ASSUME IInv, finish_reason = "StopSequence", streaming,
         WholeCharacters(Stopped), CutsCleanly(Stopped)
  PROVE  LET answer == Decode(generated_ids)
         IN  /\ IsPrefix(answer, sent)
             /\ \/ sent = answer
                \/ IsProperPrefixOfStop(SubSeq(sent, Len(answer) + 1, Len(sent)))
<1>1. PICK n \in 1 .. MaxTokens :
        LET ids    == SubSeq(target, 1, n)
            before == SubSeq(target, 1, n - 1)
            kept   == TokenSequenceStopIndex(ids)
        IN  /\ Stopped = ids /\ ids \in Seq(Tokens) /\ Len(ids) = n
            /\ before \in Seq(Tokens) /\ Len(before) = n - 1 /\ before = SubSeq(ids, 1, n - 1)
            /\ InStep(before) /\ StopReached(ids)
            /\ kept \in 0 .. n /\ generated_ids = SubSeq(ids, 1, kept)
            /\ kept = IF EncodedLength(InFront(Decode(ids))) <= n
                      THEN EncodedLength(InFront(Decode(ids))) ELSE n
            /\ EncodedLength(InFront(Decode(ids))) \in Nat
            /\ kept = n => generated_ids = ids
            /\ kept # n => ~StopReached(generated_ids)
  BY Kept
<1> PICK ids, before, kept :
      /\ ids = SubSeq(target, 1, n) /\ before = SubSeq(target, 1, n - 1)
      /\ kept = TokenSequenceStopIndex(ids)
  OBVIOUS
<1>2. /\ ids = Stopped /\ ids \in Seq(Tokens) /\ Len(ids) = n
      /\ before \in Seq(Tokens) /\ Len(before) = n - 1 /\ before = SubSeq(ids, 1, n - 1)
      /\ InStep(before) /\ StopReached(ids)
      /\ kept \in 0 .. n /\ generated_ids = SubSeq(ids, 1, kept)
      /\ kept = IF EncodedLength(InFront(Decode(ids))) <= n
                THEN EncodedLength(InFront(Decode(ids))) ELSE n
  BY <1>1
<1> PICK text, shown, answer : text = Decode(ids) /\ shown = Decode(before) /\ answer = Decode(generated_ids)
  OBVIOUS
<1> PICK first : first = Min(StopsIn(text))
  OBVIOUS
<1>3. text \in Seq(Characters) /\ shown \in Seq(Characters)
  BY <1>2, DecodeTyped
<1>4. first \in StopsIn(text) /\ first \in 1 .. Len(text) /\ InFront(text) = SubSeq(text, 1, first - 1)
  <2>1. StopsIn(text) # {}
    BY <1>2 DEF StopReached
  <2> QED
    BY <1>3, <2>1, NoneInFront DEF InFront
<1>5. Len(InFront(text)) = first - 1
  <2>1. first - 1 \in 0 .. Len(text)
    BY <1>4
  <2> QED
    BY <1>3, <1>4, <2>1, BeginningOf
<1>6. answer = InFront(text) /\ Decode(SubSeq(ids, 1, kept)) = InFront(text)
  <2>1. PICK k \in 0 .. Len(ids) :
          Decode(SubSeq(ids, 1, k)) = InFront(text) /\ EncodedLength(InFront(text)) = k
    BY <1>2 DEF CutsCleanly
  <2>2. kept = k
    BY <1>2, <2>1
  <2> QED
    BY <1>2, <2>1, <2>2
<1>7. kept \in 0 .. n - 1
  <2> SUFFICES ASSUME kept = n PROVE FALSE
    BY <1>2
  <2>1. SubSeq(ids, 1, kept) = ids
    BY <1>2, SubSeqFull
  <2>2. text = InFront(text)
    BY <1>6, <2>1
  <2>3. Len(text) = first - 1
    BY <1>5, <2>2
  <2> QED
    BY <1>3, <1>4, <2>3
<1>8. WholeCharacters(before) /\ IsPrefix(shown, text)
  <2>1. n - 1 \in 0 .. Len(ids)
    BY <1>2
  <2> QED
    BY <1>2, <2>1, WholeOfPart
<1>9. IsPrefix(answer, shown)
  <2>1. n - 1 \in 0 .. Len(ids) /\ kept \in 0 .. Len(before)
    BY <1>2, <1>7
  <2>2. SubSeq(before, 1, kept) = generated_ids
    BY <1>2, <1>7, <2>1, CutTwice
  <2> QED
    BY <1>2, <1>8, <2>1, <2>2, WholeOfPart
<1>10. sent = shown /\ StopsIn(shown) = {}
  <2>1. sent = shown
    BY <1>2, <1>8 DEF InStep
  <2>2. ~StopReached(before)
    <3>1. n - 1 \in 0 .. Len(before) /\ SubSeq(before, 1, n - 1) = before
      BY <1>2, SubSeqFull
    <3> QED
      BY <1>2, <3>1 DEF InStep
  <2> QED
    BY <2>1, <2>2 DEF StopReached
<1>11. first - 1 <= Len(shown) /\ answer \in Seq(Characters) /\ Len(answer) + 1 = first
  <2>1. answer \in Seq(Characters)
    <3>1. first - 1 \in 0 .. Len(text)
      BY <1>4
    <3> QED
      BY <1>3, <1>4, <1>6, <3>1, BeginningOf
  <2>2. Len(answer) <= Len(shown)
    BY <1>3, <1>9, <2>1, PrefixRows
  <2> QED
    BY <1>4, <1>5, <1>6, <2>1, <2>2
<1>12. \/ shown = answer
       \/ IsProperPrefixOfStop(SubSeq(shown, first, Len(shown)))
  BY <1>3, <1>4, <1>6, <1>8, <1>10, <1>11, BeginningOfStop
<1> QED
  BY <1>9, <1>10, <1>11, <1>12

(* A stream ends in the answer, or in what was sampled before the token     *)
(* that completed a stop, over every vocabulary; it is the answer, but for  *)
(* the beginning of that stop, if no character of it is split over tokens   *)
(* and the stop is cut cleanly.  A request that does not stream sends       *)
(* nothing.                                                                 *)
THEOREM StreamsAreAnswers == Spec => []StreamIsAnswer
<1>1. IInv => StreamIsAnswer
  <2> SUFFICES ASSUME IInv PROVE StreamIsAnswer
    OBVIOUS
  <2>1. CASE finish_reason # "StopSequence"
    <3>1. InStep(generated_ids)
      BY <2>1 DEF IInv
    <3>2. streaming => IsSuffix(Decode(generated_ids), sent)
      BY <3>1, StreamEnds
    <3>3. /\ ~streaming => sent = <<>>
          /\ streaming /\ WholeCharacters(generated_ids) => sent = Decode(generated_ids)
      BY <3>1 DEF InStep
    <3> QED
      BY <2>1, <3>2, <3>3 DEF StreamIsAnswer
  <2>2. CASE finish_reason = "StopSequence"
    <3>1. PICK n \in 1 .. MaxTokens :
            /\ Stopped = SubSeq(target, 1, n) /\ Len(Stopped) = n
            /\ SubSeq(target, 1, n - 1) = SubSeq(Stopped, 1, n - 1)
            /\ InStep(SubSeq(target, 1, n - 1))
      BY <2>2, Kept
    <3>2. Front(Stopped) = SubSeq(target, 1, n - 1)
      BY <3>1 DEF Front
    <3> PICK before : before = Front(Stopped)
      OBVIOUS
    <3>3. InStep(before)
      BY <3>1, <3>2
    <3>4. ~streaming => sent = <<>>
      BY <3>3 DEF InStep
    <3>5. streaming => IsSuffix(Decode(Front(Stopped)), sent)
      BY <3>3, StreamEnds
    <3>6. streaming /\ WholeCharacters(Stopped) /\ CutsCleanly(Stopped) =>
            LET answer == Decode(generated_ids)
            IN  /\ IsPrefix(answer, sent)
                /\ \/ sent = answer
                   \/ IsProperPrefixOfStop(SubSeq(sent, Len(answer) + 1, Len(sent)))
      BY <2>2, StreamAtStop
    <3> QED
      BY <2>2, <3>4, <3>5, <3>6 DEF StreamIsAnswer
  <2> QED
    BY <2>1, <2>2
<1> QED
  BY <1>1, Inductive, PTL

=============================================================================
