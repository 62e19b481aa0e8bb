-------------------------- MODULE LineReader_proofs --------------------------
(***************************************************************************)
(* Proofs about LineReader, for any set of streams, any capacity of the    *)
(* buffer and any limit: what is handed on is the stream, cut at its       *)
(* newlines, and a reader that fails has a reason to.                      *)
(*                                                                         *)
(* The argument follows one position in the stream: the bytes up to it are *)
(* in lines or in the unfinished line, the next ones in the buffer.  It is *)
(* a cut, or the beginning of a line.                                      *)
(***************************************************************************)
EXTENDS LineReader, WellFoundedInduction, SequenceTheorems, TLAPS

TypeOK ==
    /\ stream \in Seq(Bytes)
    /\ capped \in BOOLEAN
    /\ filled \in 0 .. Len(stream)
    /\ chunk \in Seq(Bytes)
    /\ line \in Seq(Bytes)
    /\ lines \in Seq(Seq(Bytes))
    /\ outcome \in {"open", "closed", "error"}
    /\ cuts \subseteq Nat

\* How much of the stream is in lines, and in them or in the unfinished one.
Before(k) == Len(FlattenSeq(SubSeq(lines, 1, k - 1)))
Handed == Len(Read)
Position == Len(Read) + Len(line)

\* Byte for byte, what is held is what has been read.
InOrder ==
    outcome # "error" =>
        /\ Position + Len(chunk) = filled
        /\ \A b \in 1 .. Len(Read) : Read[b] = stream[b]
        /\ \A b \in 1 .. Len(line) : line[b] = stream[Len(Read) + b]
        /\ \A b \in 1 .. Len(chunk) : chunk[b] = stream[Position + b]

Unfinished == \A b \in 1 .. Len(line) : line[b] # "newline"

\* Each line ends where it should.  One without a newline is the last that
\* there will be.
Whole(k) ==
    /\ lines[k] # <<>>
    /\ \A b \in 1 .. Len(lines[k]) - 1 : lines[k][b] # "newline"
    /\ \/ Last(lines[k]) = "newline"
       \/ k = Len(lines) /\ filled = Len(stream) /\ chunk = <<>> /\ line = <<>>

AllWhole == \A k \in DOMAIN lines : Whole(k)

ClosedAtEnd ==
    outcome = "closed" => line = <<>> /\ chunk = <<>> /\ filled = Len(stream)

\* There is no cut within the buffer, and one where it begins, unless that is
\* the beginning of a line.
CutsAreEnds ==
    /\ \A c \in cuts : c <= filled - Len(chunk) \/ c = filled
    /\ chunk # <<>> => filled \in cuts
    /\ outcome # "error" /\ line # <<>> => Position \in cuts

LineIsSound ==
    capped => /\ Utf8(line)
              /\ Len(line) <= MaxBytes
              /\ ~Straddles(Handed, line)

LinesAreSound ==
    \A k \in DOMAIN lines :
        /\ Acceptable(Before(k), lines[k])
        /\ Before(k) + Len(lines[k]) <= filled - Len(chunk)

Refused == outcome = "error" => ~Acceptable(Handed, LineFrom(Handed))

IInv == /\ TypeOK /\ InOrder /\ Unfinished /\ AllWhole /\ ClosedAtEnd
        /\ CutsAreEnds /\ LineIsSound /\ LinesAreSound /\ Refused
-----------------------------------------------------------------------------
(***************************************************************************)
(* Numbers: the least of a set, and induction over sets of them.           *)
(***************************************************************************)

LEMMA Smaller == OpToRel(<, Nat) = {p \in Nat \X Nat : p[1] < p[2]}
BY DEF OpToRel

LEMMA LeastIsMin ==
    ASSUME NEW S \in SUBSET Nat, S # {}
    PROVE  Min(S) \in S /\ \A n \in S : Min(S) <= n
<1>1. PICK m \in S : \A n \in S : ~ (<<n, m>> \in OpToRel(<, Nat))
  BY NatLessThanWellFounded, WFMin
<1>2. \A n \in S : ~ (<<n, m>> \in {p \in Nat \X Nat : p[1] < p[2]})
  BY <1>1, Smaller, Zenon
<1>3. ASSUME NEW n \in S PROVE m <= n
  <2>1. m \in Nat /\ n \in Nat
    OBVIOUS
  <2>2. <<n, m>> \in Nat \X Nat /\ <<n, m>>[1] = n /\ <<n, m>>[2] = m
    BY <2>1
  <2>3. ~ (n < m)
    BY <1>2, <2>2
  <2>4. QED
    BY <2>1, <2>3
<1>4. QED
  BY <1>3 DEF Min

LEMMA NumberInduction ==
    ASSUME NEW X, 0 \in X, \A n \in Nat : n \in X => n + 1 \in X
    PROVE  \A n \in Nat : n \in X
<1> DEFINE Out == Nat \ X
<1> SUFFICES ASSUME Out # {} PROVE FALSE
  OBVIOUS
<1>1. Min(Out) \in Out /\ \A n \in Out : Min(Out) <= n
  BY LeastIsMin
<1>2. PICK m \in Out : \A n \in Out : m <= n
  BY <1>1
<1>3. m - 1 \in Nat /\ ~(m - 1 \in Out) /\ (m - 1) + 1 = m
  BY <1>2
<1>4. QED
  BY <1>2, <1>3

-----------------------------------------------------------------------------
(***************************************************************************)
(* What FlattenSeq computes                                                *)
(***************************************************************************)

\* f[k] is the concatenation of the first k members of s, for k up to n.
IsFlat(f, s, n) ==
    f = [k \in 1 .. n |-> IF k = 1 THEN s[k] ELSE f[k - 1] \o s[k]]
Flat(s) == CHOOSE f : IsFlat(f, s, Len(s))

LEMMA FlattenIsFlat ==
    \A s : FlattenSeq(s) = IF Len(s) = 0 THEN s ELSE Flat(s)[Len(s)]
BY Zenon DEF FlattenSeq, Flat, IsFlat

LEMMA FlatAt ==
    ASSUME NEW f, NEW s, NEW n \in Nat, IsFlat(f, s, n), NEW k \in 1 .. n
    PROVE  f[k] = IF k = 1 THEN s[k] ELSE f[k - 1] \o s[k]
BY Zenon DEF IsFlat

LEMMA FlatExists ==
    ASSUME NEW s
    PROVE  \A n \in Nat : \E f : IsFlat(f, s, n)
<1> DEFINE X == {n \in Nat : \E f : IsFlat(f, s, n)}
<1>1. 0 \in X
  <2>1. IsFlat([k \in 1 .. 0 |-> {}], s, 0)
    BY DEF IsFlat
  <2>2. QED
    BY <2>1
<1>2. ASSUME NEW n \in Nat, n \in X
      PROVE  n + 1 \in X
  <2>1. PICK f : IsFlat(f, s, n)
    BY <1>2
  <2> DEFINE e(k) == IF k = 1 THEN s[k] ELSE f[k - 1] \o s[k]
             g == [k \in 1 .. n + 1 |-> e(k)]
  <2>2. \A k \in 1 .. n : g[k] = f[k]
    <3> SUFFICES ASSUME NEW k \in 1 .. n PROVE g[k] = f[k]
      OBVIOUS
    <3>1. g[k] = e(k)
      OBVIOUS
    <3>2. f[k] = e(k)
      BY <2>1, FlatAt
    <3>3. QED
      BY <3>1, <3>2
  <2>3. \A k \in 1 .. n + 1 : e(k) = IF k = 1 THEN s[k] ELSE g[k - 1] \o s[k]
    <3> SUFFICES ASSUME NEW k \in 1 .. n + 1, k # 1 PROVE f[k - 1] = g[k - 1]
      OBVIOUS
    <3>1. k - 1 \in 1 .. n
      OBVIOUS
    <3> HIDE DEF g
    <3>2. QED
      BY <3>1, <2>2
  <2>4. IsFlat(g, s, n + 1)
    BY <2>3 DEF IsFlat
  <2>5. QED
    BY <2>4
<1>3. QED
  <2> HIDE DEF X
  <2>1. \A n \in Nat : n \in X
    BY <1>1, <1>2, NumberInduction
  <2>2. QED
    BY <2>1 DEF X

LEMMA FlatIsFlat ==
    ASSUME NEW s, Len(s) \in Nat
    PROVE  IsFlat(Flat(s), s, Len(s))
BY FlatExists DEF Flat

\* Sequences that begin alike are flattened alike.
LEMMA FlatAgree ==
    ASSUME NEW f, NEW s, NEW m \in Nat, IsFlat(f, s, m),
           NEW g, NEW t, NEW n \in Nat, IsFlat(g, t, n),
           m <= n, \A k \in 1 .. m : s[k] = t[k]
    PROVE  \A k \in 1 .. m : f[k] = g[k]
<1> DEFINE X == {k \in Nat : k \in 1 .. m => f[k] = g[k]}
<1>1. 0 \in X
  OBVIOUS
<1>2. ASSUME NEW k \in Nat, k \in X
      PROVE  k + 1 \in X
  <2> SUFFICES ASSUME k + 1 \in 1 .. m PROVE f[k + 1] = g[k + 1]
    OBVIOUS
  <2>1. f[k + 1] = IF k + 1 = 1 THEN s[k + 1] ELSE f[(k + 1) - 1] \o s[k + 1]
    BY FlatAt
  <2>2. g[k + 1] = IF k + 1 = 1 THEN t[k + 1] ELSE g[(k + 1) - 1] \o t[k + 1]
    <3>1. k + 1 \in 1 .. n
      OBVIOUS
    <3>2. QED
      BY <3>1, FlatAt
  <2>3. k + 1 # 1 => f[(k + 1) - 1] = g[(k + 1) - 1]
    BY <1>2
  <2>4. s[k + 1] = t[k + 1]
    OBVIOUS
  <2>5. QED
    BY <2>1, <2>2, <2>3, <2>4
<1>3. QED
  <2> HIDE DEF X
  <2>1. \A k \in Nat : k \in X
    BY <1>1, <1>2, NumberInduction
  <2>2. QED
    BY <2>1 DEF X

LEMMA FlatType ==
    ASSUME NEW S, NEW s \in Seq(Seq(S)), NEW f, IsFlat(f, s, Len(s))
    PROVE  \A k \in 1 .. Len(s) : f[k] \in Seq(S)
<1> DEFINE X == {k \in Nat : k \in 1 .. Len(s) => f[k] \in Seq(S)}
<1>1. 0 \in X
  OBVIOUS
<1>2. ASSUME NEW k \in Nat, k \in X
      PROVE  k + 1 \in X
  <2> SUFFICES ASSUME k + 1 \in 1 .. Len(s) PROVE f[k + 1] \in Seq(S)
    OBVIOUS
  <2>1. f[k + 1] = IF k + 1 = 1 THEN s[k + 1] ELSE f[(k + 1) - 1] \o s[k + 1]
    BY FlatAt
  <2>2. k + 1 # 1 => f[(k + 1) - 1] \in Seq(S)
    BY <1>2
  <2>3. s[k + 1] \in Seq(S)
    BY ElementOfSeq
  <2>4. QED
    BY <2>1, <2>2, <2>3
<1>3. QED
  <2> HIDE DEF X
  <2>1. \A k \in Nat : k \in X
    BY <1>1, <1>2, NumberInduction
  <2>2. QED
    BY <2>1 DEF X

LEMMA FlattenNothing == FlattenSeq(<<>>) = <<>>
BY FlattenIsFlat

LEMMA FlattenType ==
    ASSUME NEW S, NEW s \in Seq(Seq(S))
    PROVE  FlattenSeq(s) \in Seq(S)
<1>1. CASE Len(s) = 0
  <2>1. s = <<>> /\ <<>> \in Seq(S)
    BY <1>1
  <2>2. QED
    BY <2>1, FlattenNothing
<1>2. CASE Len(s) # 0
  <2>1. Len(s) \in 1 .. Len(s)
    BY <1>2
  <2>2. Flat(s)[Len(s)] \in Seq(S)
    BY <2>1, FlatIsFlat, FlatType
  <2>3. QED
    BY <1>2, <2>2, FlattenIsFlat
<1>3. QED
  BY <1>1, <1>2

\* A sequence more is flattened behind what there is.
LEMMA FlattenAppend ==
    ASSUME NEW S, NEW s \in Seq(Seq(S)), NEW e \in Seq(S)
    PROVE  FlattenSeq(Append(s, e)) = FlattenSeq(s) \o e
<1> DEFINE t == Append(s, e)
           n == Len(s)
<1>1. /\ t \in Seq(Seq(S))
      /\ Len(t) = n + 1
      /\ n \in Nat
      /\ \A k \in 1 .. n : t[k] = s[k]
      /\ t[n + 1] = e
  BY AppendProperties
<1> HIDE DEF t
<1>2. IsFlat(Flat(t), t, n + 1)
  BY <1>1, FlatIsFlat
<1>3. FlattenSeq(t) = Flat(t)[n + 1]
  BY <1>1, FlattenIsFlat
<1>4. Flat(t)[n + 1] = IF n + 1 = 1 THEN t[n + 1] ELSE Flat(t)[(n + 1) - 1] \o t[n + 1]
  BY <1>1, <1>2, FlatAt
<1>5. CASE n = 0
  <2>1. FlattenSeq(s) = <<>>
    BY <1>5, FlattenNothing
  <2>2. FlattenSeq(t) = e
    BY <1>1, <1>3, <1>4, <1>5
  <2>3. QED
    BY <2>1, <2>2, ConcatEmptySeq DEF t
<1>6. CASE n # 0
  <2>1. IsFlat(Flat(s), s, n) /\ FlattenSeq(s) = Flat(s)[n]
    BY <1>6, FlatIsFlat, FlattenIsFlat
  <2>2. Flat(s)[n] = Flat(t)[n]
    <3>1. n \in 1 .. n /\ n <= n + 1 /\ n + 1 \in Nat
      BY <1>1, <1>6
    <3>2. \A k \in 1 .. n : s[k] = t[k]
      BY <1>1
    <3> HIDE DEF n
    <3>3. \A k \in 1 .. n : Flat(s)[k] = Flat(t)[k]
      BY <1>1, <1>2, <2>1, <3>1, <3>2, FlatAgree
    <3>4. QED
      BY <3>1, <3>3
  <2>3. (n + 1) - 1 = n /\ n + 1 # 1
    BY <1>1, <1>6
  <2>4. QED
    BY <1>1, <1>3, <1>4, <2>1, <2>2, <2>3 DEF t
<1>7. QED
  BY <1>5, <1>6

-----------------------------------------------------------------------------
(***************************************************************************)
(* Pieces and lines                                                        *)
(***************************************************************************)

\* A piece ends at the first newline of the buffer, or with it.
LEMMA TakeFacts ==
    ASSUME chunk \in Seq(Bytes), chunk # <<>>
    PROVE  /\ Take \in 1 .. Len(chunk)
           /\ \A k \in 1 .. Take - 1 : chunk[k] # "newline"
           /\ chunk[Take] = "newline" \/ Take = Len(chunk)
<1> DEFINE ends == {k \in DOMAIN chunk : chunk[k] = "newline"}
<1>1. DOMAIN chunk = 1 .. Len(chunk) /\ Len(chunk) \in Nat \ {0}
  BY EmptySeq
<1>2. CASE Contains(chunk, "newline")
  <2>1. ends # {} /\ ends \in SUBSET Nat
    BY <1>1, <1>2 DEF Contains
  <2>2. Min(ends) \in ends /\ \A k \in ends : Min(ends) <= k
    BY <2>1, LeastIsMin
  <2>3. Take = Min(ends)
    BY <1>2 DEF Take
  <2> HIDE DEF ends
  <2>4. Take \in 1 .. Len(chunk) /\ chunk[Take] = "newline"
    BY <1>1, <2>2, <2>3 DEF ends
  <2>5. ASSUME NEW k \in 1 .. Take - 1, chunk[k] = "newline" PROVE FALSE
    <3>1. k \in ends
      BY <1>1, <2>4, <2>5 DEF ends
    <3>2. Take <= k
      BY <2>2, <2>3, <3>1
    <3>3. QED
      BY <2>4, <3>2
  <2>6. QED
    BY <2>4, <2>5
<1>3. CASE ~Contains(chunk, "newline")
  <2>1. Take = Len(chunk)
    BY <1>3 DEF Take
  <2>2. QED
    BY <1>1, <1>3, <2>1 DEF Contains
<1>4. QED
  BY <1>2, <1>3

LEMMA PieceFacts ==
    ASSUME chunk \in Seq(Bytes), NEW m \in 1 .. Len(chunk)
    PROVE  /\ SubSeq(chunk, 1, m) \in Seq(Bytes)
           /\ Len(SubSeq(chunk, 1, m)) = m
           /\ \A b \in 1 .. m : SubSeq(chunk, 1, m)[b] = chunk[b]
           /\ SubSeq(chunk, m + 1, Len(chunk)) \in Seq(Bytes)
           /\ Len(SubSeq(chunk, m + 1, Len(chunk))) = Len(chunk) - m
           /\ \A b \in 1 .. Len(chunk) - m :
                SubSeq(chunk, m + 1, Len(chunk))[b] = chunk[m + b]
<1>1. Len(chunk) \in Nat /\ \A b \in 1 .. Len(chunk) : chunk[b] \in Bytes
  BY ElementOfSeq
<1>2. /\ SubSeq(chunk, 1, m) \in Seq(Bytes)
      /\ Len(SubSeq(chunk, 1, m)) = m
      /\ \A b \in 1 .. m : SubSeq(chunk, 1, m)[b] = chunk[b]
  <2>1. \A b \in 1 .. m : chunk[b] \in Bytes
    BY <1>1
  <2>2. QED
    BY <1>1, <2>1, SubSeqProperties
<1>3. /\ SubSeq(chunk, m + 1, Len(chunk)) \in Seq(Bytes)
      /\ Len(SubSeq(chunk, m + 1, Len(chunk))) = Len(chunk) - m
      /\ \A b \in 1 .. Len(chunk) - m : SubSeq(chunk, m + 1, Len(chunk))[b] = chunk[m + b]
  <2>1. \A b \in m + 1 .. Len(chunk) : chunk[b] \in Bytes
    BY <1>1
  <2>2. QED
    BY <1>1, <2>1, SubSeqProperties
<1>4. QED
  BY <1>2, <1>3

\* The line of the stream after n bytes reaches at least as far as there is no
\* newline.
LEMMA LineFromFacts ==
    ASSUME stream \in Seq(Bytes), NEW n \in Nat, NEW q \in Nat,
           n < q, q <= Len(stream), \A k \in n + 1 .. q - 1 : stream[k] # "newline"
    PROVE  /\ LineFrom(n) \in Seq(Bytes)
           /\ Len(LineFrom(n)) \in q - n .. Len(stream) - n
           /\ \A b \in 1 .. Len(LineFrom(n)) : LineFrom(n)[b] = stream[n + b]
           /\ stream[q] = "newline" \/ q = Len(stream) => Len(LineFrom(n)) = q - n
<1> DEFINE ends == {k \in n + 1 .. Len(stream) : stream[k] = "newline"}
           e == IF ends = {} THEN Len(stream) ELSE Min(ends)
<1>1. Len(stream) \in Nat
  OBVIOUS
<1>2. e \in q .. Len(stream) /\ (stream[q] = "newline" \/ q = Len(stream) => e = q)
  <2>1. CASE ends = {}
    <3>1. stream[q] # "newline"
      BY <1>1, <2>1
    <3>2. QED
      BY <1>1, <2>1, <3>1
  <2>2. CASE ends # {}
    <3>1. ends \in SUBSET Nat
      OBVIOUS
    <3>2. Min(ends) \in ends /\ \A k \in ends : Min(ends) <= k
      BY <2>2, <3>1, LeastIsMin
    <3>3. PICK m \in ends : m = Min(ends) /\ \A k \in ends : m <= k
      BY <3>2
    <3>4. m \in n + 1 .. Len(stream) /\ stream[m] = "newline"
      OBVIOUS
    <3>5. m >= q
      BY <1>1, <3>4
    <3>6. stream[q] = "newline" => m <= q
      BY <1>1, <3>3
    <3>7. e = m
      BY <2>2, <3>3
    <3>8. QED
      BY <1>1, <3>4, <3>5, <3>6, <3>7
  <2>3. QED
    BY <2>1, <2>2
<1>3. LineFrom(n) = SubSeq(stream, n + 1, e)
  BY DEF LineFrom
<1> HIDE DEF e
<1>4. \A b \in n + 1 .. e : stream[b] \in Bytes
  BY <1>1, <1>2, ElementOfSeq
<1> DEFINE m == n + 1
<1>5. e \in Int /\ m \in Int /\ LineFrom(n) = SubSeq(stream, m, e) /\ \A b \in m .. e : stream[b] \in Bytes
  BY <1>1, <1>2, <1>3, <1>4
<1> HIDE DEF m
<1>6. /\ LineFrom(n) \in Seq(Bytes)
      /\ Len(LineFrom(n)) = IF m <= e THEN e - m + 1 ELSE 0
      /\ \A b \in 1 .. e - m + 1 : LineFrom(n)[b] = stream[m + b - 1]
  BY <1>5, SubSeqProperties
<1>7. Len(LineFrom(n)) = e - n
  BY <1>1, <1>2, <1>6 DEF m
<1>8. ASSUME NEW b \in 1 .. Len(LineFrom(n)) PROVE LineFrom(n)[b] = stream[n + b]
  <2>1. b \in 1 .. e - m + 1 /\ m + b - 1 = n + b
    BY <1>1, <1>2, <1>7 DEF m
  <2>2. QED
    BY <1>6, <2>1
<1>9. QED
  BY <1>1, <1>2, <1>6, <1>7, <1>8

\* Two texts that are UTF-8 make one.
LEMMA Utf8Joined ==
    ASSUME NEW s \in Seq(Bytes), NEW t \in Seq(Bytes), Utf8(s), Utf8(t)
    PROVE  Utf8(s \o t)
<1> DEFINE u == s \o t
<1>1. /\ u \in Seq(Bytes)
      /\ Len(u) = Len(s) + Len(t)
      /\ \A k \in 1 .. Len(s) + Len(t) : u[k] = IF k <= Len(s) THEN s[k] ELSE t[k - Len(s)]
  BY ConcatProperties
<1>2. DOMAIN s = 1 .. Len(s) /\ DOMAIN t = 1 .. Len(t) /\ Len(s) \in Nat /\ Len(t) \in Nat
  OBVIOUS
<1> HIDE DEF u
<1>3. DOMAIN u = 1 .. Len(s) + Len(t)
  BY <1>1
<1>4. ASSUME NEW k \in DOMAIN u, u[k] = "lead"
      PROVE  k < Len(u) /\ u[k + 1] = "tail"
  <2>1. CASE k <= Len(s)
    <3>1. s[k] = "lead" /\ k \in DOMAIN s
      BY <1>1, <1>2, <1>3, <1>4, <2>1
    <3>2. k < Len(s) /\ s[k + 1] = "tail"
      BY <3>1 DEF Utf8
    <3>3. QED
      BY <1>1, <1>2, <1>3, <3>2
  <2>2. CASE k > Len(s)
    <3>1. t[k - Len(s)] = "lead" /\ k - Len(s) \in DOMAIN t
      BY <1>1, <1>2, <1>3, <1>4, <2>2
    <3>2. k - Len(s) < Len(t) /\ t[(k - Len(s)) + 1] = "tail"
      BY <3>1 DEF Utf8
    <3>3. (k - Len(s)) + 1 = (k + 1) - Len(s) /\ k + 1 \in 1 .. Len(s) + Len(t) /\ ~(k + 1 <= Len(s))
      BY <1>2, <1>3, <2>2, <3>2
    <3>4. QED
      BY <1>1, <1>2, <1>3, <3>2, <3>3
  <2>3. QED
    BY <1>2, <1>3, <2>1, <2>2
<1>5. ASSUME NEW k \in DOMAIN u, u[k] = "tail"
      PROVE  k > 1 /\ u[k - 1] = "lead"
  <2>1. CASE k <= Len(s)
    <3>1. s[k] = "tail" /\ k \in DOMAIN s
      BY <1>1, <1>2, <1>3, <1>5, <2>1
    <3>2. k > 1 /\ s[k - 1] = "lead"
      BY <3>1 DEF Utf8
    <3>3. QED
      BY <1>1, <1>2, <1>3, <2>1, <3>2
  <2>2. CASE k > Len(s)
    <3>1. t[k - Len(s)] = "tail" /\ k - Len(s) \in DOMAIN t
      BY <1>1, <1>2, <1>3, <1>5, <2>2
    <3>2. k - Len(s) > 1 /\ t[(k - Len(s)) - 1] = "lead"
      BY <3>1 DEF Utf8
    <3>3. (k - Len(s)) - 1 = (k - 1) - Len(s) /\ k - 1 \in 1 .. Len(s) + Len(t) /\ ~(k - 1 <= Len(s)) /\ k > 1
      BY <1>2, <1>3, <2>2, <3>2
    <3>4. QED
      BY <1>1, <1>2, <1>3, <3>2, <3>3
  <2>3. QED
    BY <1>2, <1>3, <2>1, <2>2
<1>6. QED
  BY <1>4, <1>5 DEF Utf8, u

-----------------------------------------------------------------------------
(***************************************************************************)
(* The line with its next piece                                            *)
(***************************************************************************)
Piece == SubSeq(chunk, 1, Take)
Longer == line \o Piece

LEMMA ReadType == TypeOK => Read \in Seq(Bytes) /\ Handed \in Nat /\ Position \in Nat
<1> SUFFICES ASSUME TypeOK PROVE Read \in Seq(Bytes) /\ Handed \in Nat /\ Position \in Nat
  OBVIOUS
<1>1. Read \in Seq(Bytes) /\ line \in Seq(Bytes)
  BY FlattenType DEF TypeOK, Read
<1>2. QED
  BY <1>1 DEF Handed, Position

LEMMA LongerFacts ==
    ASSUME TypeOK, InOrder, Unfinished, outcome = "open", chunk # <<>>
    PROVE  /\ Take \in 1 .. Len(chunk)
           /\ Piece \in Seq(Bytes) /\ Len(Piece) = Take
           /\ Longer \in Seq(Bytes) /\ Len(Longer) = Len(line) + Take
           /\ \A b \in 1 .. Len(line) : Longer[b] = line[b]
           /\ \A b \in 1 .. Take : Piece[b] = chunk[b] /\ Longer[Len(line) + b] = Piece[b]
           /\ \A b \in 1 .. Len(Longer) : Longer[b] = stream[Handed + b]
           /\ \A b \in 1 .. Len(Longer) - 1 : Longer[b] # "newline"
           /\ Last(Longer) = chunk[Take]
           /\ Handed + Len(Longer) = (filled - Len(chunk)) + Take
           /\ ~Done => Take = Len(chunk)
<1>1. Take \in 1 .. Len(chunk) /\ chunk \in Seq(Bytes) /\ line \in Seq(Bytes)
  BY TakeFacts DEF TypeOK
<1>2. \A k \in 1 .. Take - 1 : chunk[k] # "newline"
  BY TakeFacts DEF TypeOK
<1>3. ~Done => Take = Len(chunk)
  BY TakeFacts DEF TypeOK, Done
<1>4. Piece \in Seq(Bytes) /\ Len(Piece) = Take /\ \A b \in 1 .. Take : Piece[b] = chunk[b]
  BY <1>1, PieceFacts DEF Piece
<1>5. /\ Longer \in Seq(Bytes)
      /\ Len(Longer) = Len(line) + Take
      /\ \A b \in 1 .. Len(line) + Take :
            Longer[b] = IF b <= Len(line) THEN line[b] ELSE Piece[b - Len(line)]
  BY <1>1, <1>4, ConcatProperties DEF Longer
<1>6. Len(line) \in Nat /\ Len(chunk) \in Nat /\ Take \in Nat
  BY <1>1
<1>7. \A b \in 1 .. Len(line) : Longer[b] = line[b]
  BY <1>5, <1>6
<1>8. ASSUME NEW b \in 1 .. Take PROVE Longer[Len(line) + b] = Piece[b]
  <2>1. Len(line) + b \in 1 .. Len(line) + Take /\ ~(Len(line) + b <= Len(line)) /\ (Len(line) + b) - Len(line) = b
    BY <1>6
  <2>2. QED
    BY <1>5, <2>1
<1>9. /\ Handed \in Nat
      /\ Handed + Len(line) + Len(chunk) = filled
      /\ \A b \in 1 .. Len(line) : line[b] = stream[Handed + b]
      /\ \A b \in 1 .. Len(chunk) : chunk[b] = stream[Handed + Len(line) + b]
  BY ReadType DEF InOrder, Handed, Position
<1>10. ASSUME NEW b \in 1 .. Len(Longer) PROVE Longer[b] = stream[Handed + b]
  <2>1. CASE b <= Len(line)
    BY <1>5, <1>6, <1>7, <1>9, <2>1
  <2>2. CASE b > Len(line)
    <3>1. b - Len(line) \in 1 .. Take /\ b - Len(line) \in 1 .. Len(chunk)
      BY <1>1, <1>5, <1>6, <2>2
    <3>2. Longer[b] = chunk[b - Len(line)]
      BY <1>4, <1>5, <1>6, <2>2, <3>1
    <3>3. Handed + Len(line) + (b - Len(line)) = Handed + b
      BY <1>6, <1>9
    <3>4. QED
      BY <1>9, <3>1, <3>2, <3>3
  <2>3. QED
    BY <1>5, <1>6, <2>1, <2>2
<1>11. ASSUME NEW b \in 1 .. Len(Longer) - 1 PROVE Longer[b] # "newline"
  <2>1. CASE b <= Len(line)
    BY <1>6, <1>7, <2>1 DEF Unfinished
  <2>2. CASE b > Len(line)
    <3>1. b - Len(line) \in 1 .. Take - 1 /\ b - Len(line) \in 1 .. Take
      BY <1>5, <1>6, <2>2
    <3>2. Longer[b] = chunk[b - Len(line)]
      BY <1>4, <1>5, <1>6, <2>2, <3>1
    <3>3. QED
      BY <1>2, <3>1, <3>2
  <2>3. QED
    BY <1>5, <1>6, <2>1, <2>2
<1>12. Last(Longer) = chunk[Take]
  <2>1. Take \in 1 .. Take
    BY <1>1
  <2>2. QED
    BY <1>4, <1>5, <1>8, <2>1 DEF Last
<1>13. Handed + Len(Longer) = (filled - Len(chunk)) + Take
  BY <1>5, <1>6, <1>9
<1>14. QED
  BY <1>1, <1>3, <1>4, <1>5, <1>7, <1>8, <1>10, <1>11, <1>12, <1>13

\* The line of the stream begins with it, and is it once the newline is there.
LEMMA LongerIsOfTheLine ==
    ASSUME TypeOK, InOrder, Unfinished, outcome = "open", chunk # <<>>
    PROVE  /\ LineFrom(Handed) \in Seq(Bytes)
           /\ Len(Longer) <= Len(LineFrom(Handed))
           /\ \A b \in 1 .. Len(Longer) : LineFrom(Handed)[b] = Longer[b]
           /\ Done => LineFrom(Handed) = Longer
<1> DEFINE n == Handed
           q == n + Len(Longer)
<1>1. /\ n \in Nat /\ stream \in Seq(Bytes)
      /\ Len(Longer) \in Nat \ {0} /\ Longer \in Seq(Bytes)
      /\ q = (filled - Len(chunk)) + Take
      /\ Take \in 1 .. Len(chunk) /\ Len(chunk) \in Nat
      /\ filled \in 0 .. Len(stream)
  BY LongerFacts, ReadType DEF TypeOK
<1>2. n < q /\ q <= Len(stream) /\ q \in Nat
  BY <1>1
<1>3. \A b \in 1 .. Len(Longer) : Longer[b] = stream[n + b]
  BY LongerFacts
<1>4. \A b \in 1 .. Len(Longer) - 1 : Longer[b] # "newline"
  BY LongerFacts
<1>5. ASSUME NEW k \in n + 1 .. q - 1 PROVE stream[k] # "newline"
  <2>1. k - n \in 1 .. Len(Longer) - 1 /\ k - n \in 1 .. Len(Longer) /\ n + (k - n) = k
    BY <1>1
  <2>2. QED
    BY <1>3, <1>4, <2>1
<1>6. Done => stream[q] = "newline"
  <2>1. Len(Longer) \in 1 .. Len(Longer)
    BY <1>1
  <2>2. stream[q] = chunk[Take]
    BY <1>3, <2>1, LongerFacts DEF Last
  <2>3. QED
    BY <2>2 DEF Done
<1> HIDE DEF q, n
<1>7. /\ LineFrom(n) \in Seq(Bytes)
      /\ Len(LineFrom(n)) \in q - n .. Len(stream) - n
      /\ \A b \in 1 .. Len(LineFrom(n)) : LineFrom(n)[b] = stream[n + b]
      /\ Done => Len(LineFrom(n)) = q - n
  BY <1>1, <1>2, <1>5, <1>6, LineFromFacts
<1>8. q - n = Len(Longer)
  BY <1>1 DEF q
<1>9. Len(Longer) <= Len(LineFrom(n))
  BY <1>1, <1>7, <1>8
<1>10. \A b \in 1 .. Len(Longer) : LineFrom(n)[b] = Longer[b]
  BY <1>1, <1>3, <1>7, <1>9
<1>11. Done => LineFrom(n) = Longer
  BY <1>1, <1>7, <1>8, <1>10, SeqEqual
<1>12. QED
  BY <1>7, <1>9, <1>10, <1>11 DEF n

\* A piece that is UTF-8 by itself leaves the line sound.
LEMMA LongerIsSound ==
    ASSUME TypeOK, InOrder, Unfinished, CutsAreEnds, LineIsSound,
           outcome = "open", chunk # <<>>, capped, Utf8(Piece)
    PROVE  Utf8(Longer) /\ ~Straddles(Handed, Longer)
<1>1. Utf8(line) /\ ~Straddles(Handed, line) /\ line \in Seq(Bytes)
  BY DEF LineIsSound, TypeOK
<1>2. Utf8(Longer)
  BY <1>1, LongerFacts, Utf8Joined DEF Longer
<1>3. ASSUME NEW k \in 1 .. Len(Longer) - 1,
             Longer[k] = "lead", Longer[k + 1] = "tail", Handed + k \in cuts
      PROVE  FALSE
  <2>1. Len(line) \in Nat /\ Len(Longer) = Len(line) + Take /\ Take \in 1 .. Len(chunk) /\ Len(chunk) \in Nat
    BY LongerFacts DEF TypeOK
  <2>2. CASE k < Len(line)
    <3>1. k \in 1 .. Len(line) - 1 /\ k \in 1 .. Len(line) /\ k + 1 \in 1 .. Len(line)
      BY <2>1, <2>2
    <3>2. line[k] = "lead" /\ line[k + 1] = "tail"
      BY <1>3, <3>1, LongerFacts
    <3>3. QED
      BY <1>1, <1>3, <3>1, <3>2 DEF Straddles
  <2>3. CASE k = Len(line)
    <3>1. k \in 1 .. Len(line) /\ k \in DOMAIN line
      BY <1>1, <2>1, <2>3
    <3>2. line[k] = "lead"
      BY <1>3, <3>1, LongerFacts
    <3>3. k < Len(line)
      BY <1>1, <3>1, <3>2 DEF Utf8
    <3>4. QED
      BY <2>1, <2>3, <3>3
  <2>4. CASE k > Len(line)
    <3>1. Handed \in Nat /\ filled \in Nat /\ Handed + Len(line) + Len(chunk) = filled
      BY ReadType DEF TypeOK, InOrder, Handed, Position
    <3>2. Handed + k <= filled - Len(chunk) \/ Handed + k = filled
      BY <1>3 DEF CutsAreEnds
    <3>3. QED
      BY <2>1, <2>4, <3>1, <3>2
  <2>5. QED
    BY <2>1, <2>2, <2>3, <2>4
<1>4. QED
  BY <1>2, <1>3 DEF Straddles

\* A piece that is not, and that no cut explains, is not of a line that is.
LEMMA PieceGivesCause ==
    ASSUME TypeOK, InOrder, Unfinished, CutsAreEnds,
           outcome = "open", chunk # <<>>, capped, ~Utf8(Piece)
    PROVE  ~Acceptable(Handed, LineFrom(Handed))
<1> DEFINE L == LineFrom(Handed)
           m == Len(line)
<1> SUFFICES ASSUME Utf8(L), ~Straddles(Handed, L) PROVE FALSE
  BY DEF Acceptable
<1>1. /\ m \in Nat /\ Len(Longer) = m + Take
      /\ Take \in 1 .. Len(chunk) /\ Len(chunk) \in Nat
      /\ Piece \in Seq(Bytes) /\ Len(Piece) = Take
      /\ \A b \in 1 .. m : Longer[b] = line[b]
      /\ \A b \in 1 .. Take : Piece[b] = chunk[b] /\ Longer[m + b] = Piece[b]
      /\ ~Done => Take = Len(chunk)
  BY LongerFacts DEF TypeOK
<1>2. /\ L \in Seq(Bytes) /\ Len(Longer) <= Len(L)
      /\ \A b \in 1 .. Len(Longer) : L[b] = Longer[b]
  BY LongerIsOfTheLine
<1>3. DOMAIN L = 1 .. Len(L) /\ Len(L) \in Nat /\ DOMAIN Piece = 1 .. Take
  BY <1>1, <1>2
<1>4. Handed \in Nat /\ filled \in Nat /\ Handed + m + Len(chunk) = filled
  BY ReadType DEF TypeOK, InOrder, Handed, Position
<1> HIDE DEF L, m
<1>5. \A b \in 1 .. Take : L[m + b] = Piece[b] /\ m + b \in DOMAIN L
  BY <1>1, <1>2, <1>3
<1>6. ASSUME NEW k \in 1 .. Take, Piece[k] = "lead", ~(k < Len(Piece) /\ Piece[k + 1] = "tail")
      PROVE  FALSE
  <2>1. m + k < Len(L) /\ L[m + k + 1] = "tail"
    BY <1>5, <1>6 DEF Utf8
  <2>2. CASE k < Take
    <3>1. k + 1 \in 1 .. Take /\ m + (k + 1) = m + k + 1
      BY <1>1, <2>2
    <3>2. Piece[k + 1] = "tail"
      BY <1>5, <2>1, <3>1
    <3>3. QED
      BY <1>1, <1>6, <2>2, <3>2
  <2>3. CASE k = Take
    <3>1. chunk[Take] = "lead"
      BY <1>1, <1>6, <2>3
    <3>2. Take = Len(chunk)
      BY <1>1, <3>1 DEF Done
    <3>3. Handed + (m + k) \in cuts
      BY <1>1, <1>4, <2>3, <3>2 DEF CutsAreEnds
    <3>4. L[m + k] = "lead" /\ m + k \in 1 .. Len(L) - 1
      BY <1>1, <1>3, <1>5, <1>6, <2>1
    <3>5. QED
      BY <2>1, <3>3, <3>4 DEF Straddles
  <2>4. QED
    BY <1>1, <2>2, <2>3
<1>7. ASSUME NEW k \in 1 .. Take, Piece[k] = "tail", ~(k > 1 /\ Piece[k - 1] = "lead")
      PROVE  FALSE
  <2>1. m + k > 1 /\ L[m + k - 1] = "lead"
    <3>1. PICK j : j = m + k
      OBVIOUS
    <3>2. j \in DOMAIN L /\ L[j] = "tail"
      BY <1>5, <1>7, <3>1
    <3>3. j > 1 /\ L[j - 1] = "lead"
      BY <3>2 DEF Utf8
    <3>4. QED
      BY <1>1, <3>1, <3>3
  <2>2. CASE k > 1
    <3>1. k - 1 \in 1 .. Take /\ m + (k - 1) = m + k - 1
      BY <1>1, <2>2
    <3>2. Piece[k - 1] = "lead"
      BY <1>5, <2>1, <3>1
    <3>3. QED
      BY <1>7, <2>2, <3>2
  <2>3. CASE k = 1
    <3>1. m > 0 /\ m + k - 1 = m /\ m + k = m + 1
      BY <1>1, <2>1, <2>3
    <3>2. Handed + m \in cuts
      <4>1. line # <<>>
        BY <3>1 DEF m
      <4>2. QED
        BY <4>1 DEF CutsAreEnds, Handed, Position, m
    <3>3. L[m] = "lead" /\ L[m + 1] = "tail" /\ m \in 1 .. Len(L) - 1
      BY <1>1, <1>3, <1>5, <1>7, <2>1, <2>3, <3>1
    <3>4. QED
      BY <3>2, <3>3 DEF Straddles
  <2>4. QED
    BY <1>1, <2>2, <2>3
<1>8. QED
  BY <1>1, <1>3, <1>6, <1>7 DEF Utf8

-----------------------------------------------------------------------------
(***************************************************************************)
(* The inductive invariant                                                 *)
(***************************************************************************)

LEMMA InitIsSound == Init => IInv
<1> SUFFICES ASSUME Init PROVE IInv
  OBVIOUS
<1>1. /\ stream \in Seq(Bytes) /\ capped \in BOOLEAN /\ filled = 0 /\ chunk = <<>>
      /\ line = <<>> /\ lines = <<>> /\ outcome = "open" /\ cuts = {}
  BY StreamsAssumption DEF Init
<1>2. Len(stream) \in Nat /\ <<>> \in Seq(Bytes) /\ <<>> \in Seq(Seq(Bytes)) /\ Len(<<>>) = 0
  BY <1>1
<1>3. TypeOK
  BY <1>1, <1>2 DEF TypeOK
<1>4. Read = <<>>
  BY <1>1, FlattenNothing DEF Read
<1>5. InOrder
  BY <1>1, <1>2, <1>4 DEF InOrder, Position
<1>6. Unfinished /\ AllWhole /\ ClosedAtEnd /\ LinesAreSound /\ Refused
  BY <1>1, <1>2 DEF Unfinished, AllWhole, ClosedAtEnd, LinesAreSound, Refused
<1>7. CutsAreEnds
  BY <1>1 DEF CutsAreEnds
<1>8. LineIsSound
  BY <1>1, <1>2, LimitsAssumption DEF LineIsSound, Utf8, Straddles
<1>9. QED
  BY <1>3, <1>5, <1>6, <1>7, <1>8 DEF IInv

\* A cut made behind the position does not concern the lines before it.
LEMMA LinesStaySound ==
    ASSUME TypeOK, LinesAreSound, lines' = lines, capped' = capped,
           filled' - Len(chunk') >= filled - Len(chunk),
           Len(chunk') \in Nat, filled' \in Nat,
           \A c \in cuts' : c \in cuts \/ c > filled - Len(chunk)
    PROVE  LinesAreSound'
<1>1. Len(chunk) \in Nat /\ filled \in Nat
  BY DEF TypeOK
<1> SUFFICES ASSUME NEW k \in DOMAIN lines
             PROVE  /\ Acceptable(Before(k), lines[k])'
                    /\ Before(k)' + Len(lines[k]) <= filled' - Len(chunk')
  BY DEF LinesAreSound, Before
<1>2. Before(k)' = Before(k)
  BY DEF Before
<1>3. Acceptable(Before(k), lines[k]) /\ Before(k) + Len(lines[k]) <= filled - Len(chunk)
  BY DEF LinesAreSound
<1>4. k \in 1 .. Len(lines) /\ lines[k] \in Seq(Bytes) /\ Len(lines[k]) \in Nat
  BY ElementOfSeq DEF TypeOK
<1>5. Before(k) \in Nat
  <2>1. Len(lines) \in Nat /\ \A i \in 1 .. k - 1 : lines[i] \in Seq(Bytes)
    BY <1>4, ElementOfSeq DEF TypeOK
  <2>2. SubSeq(lines, 1, k - 1) \in Seq(Seq(Bytes))
    BY <1>4, <2>1, SubSeqProperties
  <2>3. QED
    BY <2>2, FlattenType DEF Before
<1>6. ASSUME NEW b \in 1 .. Len(lines[k]) - 1, Before(k) + b \in cuts'
      PROVE  Before(k) + b \in cuts
  BY <1>1, <1>3, <1>4, <1>5, <1>6
<1>7. capped => ~Straddles(Before(k), lines[k])'
  BY <1>2, <1>3, <1>6 DEF Straddles, Acceptable
<1>8. Acceptable(Before(k), lines[k])'
  BY <1>2, <1>3, <1>7 DEF Acceptable, Utf8
<1>9. QED
  BY <1>1, <1>2, <1>3, <1>4, <1>5, <1>8

\* The line handed on is behind the others.
LEMMA LineDelivered ==
    ASSUME TypeOK, LinesAreSound, NEW l \in Seq(Bytes), Deliver(l),
           Acceptable(Handed, l), cuts' = cuts, capped' = capped,
           filled' - Len(chunk') >= filled - Len(chunk),
           Handed + Len(l) <= filled' - Len(chunk'),
           Len(chunk') \in Nat, filled' \in Nat
    PROVE  /\ LinesAreSound'
           /\ Read' = Read \o l
           /\ lines' \in Seq(Seq(Bytes))
           /\ Len(lines') = Len(lines) + 1
           /\ \A k \in 1 .. Len(lines) : lines'[k] = lines[k]
           /\ lines'[Len(lines) + 1] = l
<1> DEFINE n == Len(lines)
<1>1. n \in Nat /\ lines \in Seq(Seq(Bytes)) /\ lines' = Append(lines, l) /\ DOMAIN lines = 1 .. n
  BY DEF TypeOK, Deliver
<1>2. /\ lines' \in Seq(Seq(Bytes)) /\ Len(lines') = n + 1
      /\ DOMAIN lines' = 1 .. n + 1
      /\ \A k \in 1 .. n : lines'[k] = lines[k]
      /\ lines'[n + 1] = l
  BY <1>1, AppendProperties, LenProperties
<1>3. Read' = Read \o l
  BY <1>1, FlattenAppend DEF Read
<1> HIDE DEF n
<1>4. ASSUME NEW k \in 1 .. n + 1 PROVE SubSeq(lines', 1, k - 1) = SubSeq(lines, 1, k - 1)
  <2>1. k - 1 \in Int /\ 1 \in Int /\ k - 1 <= n
    BY <1>1
  <2>2. \A i \in 1 .. k - 1 : lines[i] \in Seq(Bytes) /\ lines'[i] = lines[i]
    BY <1>1, <1>2, <2>1, ElementOfSeq DEF n
  <2> DEFINE s == SubSeq(lines, 1, k - 1)
             t == SubSeq(lines', 1, k - 1)
  <2>3. /\ s \in Seq(Seq(Bytes))
        /\ Len(s) = IF 1 <= k - 1 THEN k - 1 - 1 + 1 ELSE 0
        /\ \A i \in 1 .. k - 1 - 1 + 1 : s[i] = lines[1 + i - 1]
    BY <2>1, <2>2, SubSeqProperties
  <2>4. /\ t \in Seq(Seq(Bytes))
        /\ Len(t) = IF 1 <= k - 1 THEN k - 1 - 1 + 1 ELSE 0
        /\ \A i \in 1 .. k - 1 - 1 + 1 : t[i] = lines'[1 + i - 1]
    <3>1. \A i \in 1 .. k - 1 : lines'[i] \in Seq(Bytes)
      BY <2>2
    <3>2. QED
      BY <2>1, <3>1, SubSeqProperties
  <2> HIDE DEF s, t
  <2>5. \A i \in 1 .. Len(t) : t[i] = s[i]
    BY <2>1, <2>2, <2>3, <2>4
  <2>6. s = t
    BY <2>3, <2>4, <2>5, SeqEqual
  <2>7. QED
    BY <2>6 DEF s, t
<1>5. \A k \in 1 .. n + 1 : Before(k)' = Before(k)
  BY <1>4 DEF Before
<1>6. Before(n + 1) = Handed
  <2>1. SubSeq(lines, 1, n) = lines
    BY <1>1, SubSeqFull DEF n
  <2>2. (n + 1) - 1 = n
    BY <1>1
  <2>3. QED
    BY <2>1, <2>2 DEF Before, Handed, Read
<1>7. ASSUME NEW k \in 1 .. n + 1
      PROVE  /\ Acceptable(Before(k), lines[k])'
             /\ Before(k)' + Len(lines'[k]) <= filled' - Len(chunk')
  <2>1. CASE k = n + 1
    <3>1. Before(k)' = Handed /\ lines'[k] = l
      BY <1>2, <1>5, <1>6, <2>1
    <3>2. Acceptable(Before(k), lines[k])'
      BY <3>1 DEF Acceptable, Straddles, Utf8
    <3>3. QED
      BY <3>1, <3>2
  <2>2. CASE k \in 1 .. n
    <3>1. Acceptable(Before(k), lines[k]) /\ Before(k) + Len(lines[k]) <= filled - Len(chunk)
      BY <1>1, <2>2 DEF LinesAreSound
    <3>2. Before(k)' = Before(k) /\ lines'[k] = lines[k]
      BY <1>2, <1>5, <2>2
    <3>3. Acceptable(Before(k), lines[k])'
      BY <3>1, <3>2 DEF Acceptable, Straddles, Utf8
    <3>4. lines[k] \in Seq(Bytes) /\ Len(lines[k]) \in Nat
      BY <1>1, <2>2, ElementOfSeq DEF n
    <3>5. Before(k) \in Nat
      <4>1. k - 1 \in Int /\ \A i \in 1 .. k - 1 : lines[i] \in Seq(Bytes)
        BY <1>1, <2>2, ElementOfSeq DEF n
      <4>2. SubSeq(lines, 1, k - 1) \in Seq(Seq(Bytes))
        BY <4>1, SubSeqProperties
      <4>3. QED
        BY <4>2, FlattenType DEF Before
    <3>6. Len(chunk) \in Nat /\ filled \in Nat
      BY DEF TypeOK
    <3>7. QED
      BY <3>1, <3>2, <3>3, <3>4, <3>5, <3>6
  <2>3. QED
    BY <1>1, <2>1, <2>2
<1>8. LinesAreSound'
  BY <1>2, <1>7 DEF LinesAreSound
<1>9. QED
  BY <1>2, <1>3, <1>8 DEF n

LEMMA FillStep == IInv /\ Fill => IInv'
<1> SUFFICES ASSUME IInv, Fill PROVE IInv'
  OBVIOUS
<1>1. /\ TypeOK /\ outcome = "open" /\ chunk = <<>>
      /\ stream' = stream /\ capped' = capped /\ line' = line /\ lines' = lines /\ outcome' = outcome
  BY DEF IInv, Fill
<1>2. filled \in Nat /\ Len(stream) \in Nat /\ filled <= Len(stream) /\ stream \in Seq(Bytes)
  BY <1>1 DEF TypeOK
<1>3. PICK n \in 1 .. Min({Capacity, Len(stream) - filled}) :
            /\ filled' = filled + n
            /\ chunk' = SubSeq(stream, filled + 1, filled + n)
            /\ cuts' = cuts \cup {filled + n}
  BY DEF Fill
<1>4. n \in 1 .. Len(stream) - filled
  <2> DEFINE S == {Capacity, Len(stream) - filled}
  <2>1. S \in SUBSET Nat /\ S # {}
    BY <1>2, LimitsAssumption
  <2>2. Len(stream) - filled \in S
    OBVIOUS
  <2> HIDE DEF S
  <2>3. Min(S) \in Nat /\ Min(S) <= Len(stream) - filled
    BY <2>1, <2>2, LeastIsMin
  <2>4. n \in 1 .. Min(S)
    BY DEF S
  <2>5. QED
    BY <1>2, <2>3, <2>4
<1>5. /\ chunk' \in Seq(Bytes) /\ Len(chunk') = n
      /\ \A b \in 1 .. n : chunk'[b] = stream[filled + b]
  <2>1. PICK i, j : i = filled + 1 /\ j = filled + n /\ chunk' = SubSeq(stream, i, j)
    BY <1>3
  <2>2. i \in Int /\ j \in Int /\ \A b \in i .. j : stream[b] \in Bytes
    BY <1>2, <1>4, <2>1, ElementOfSeq
  <2>3. /\ chunk' \in Seq(Bytes)
        /\ Len(chunk') = IF i <= j THEN j - i + 1 ELSE 0
        /\ \A b \in 1 .. j - i + 1 : chunk'[b] = stream[i + b - 1]
    BY <2>1, <2>2, SubSeqProperties
  <2>4. ASSUME NEW b \in 1 .. n PROVE chunk'[b] = stream[filled + b]
    <3>1. b \in 1 .. j - i + 1 /\ i + b - 1 = filled + b
      BY <1>2, <1>4, <2>1
    <3>2. QED
      BY <2>3, <3>1
  <2>5. Len(chunk') = n
    BY <1>2, <1>4, <2>1, <2>3
  <2>6. QED
    BY <2>3, <2>4, <2>5
<1>6. TypeOK'
  BY <1>1, <1>2, <1>3, <1>4, <1>5 DEF TypeOK
<1>7. /\ Read' = Read /\ Handed' = Handed /\ Position' = Position
      /\ Handed \in Nat /\ Len(line) \in Nat
      /\ Position = filled /\ Position = Handed + Len(line)
  <2>1. Read' = Read /\ Handed' = Handed /\ Position' = Position
    BY <1>1 DEF Read, Handed, Position
  <2>2. Len(chunk) = 0 /\ Position + Len(chunk) = filled /\ Handed \in Nat /\ Len(line) \in Nat /\ Position \in Nat
    BY <1>1, ReadType DEF IInv, InOrder, TypeOK
  <2>3. QED
    BY <2>1, <2>2 DEF Handed, Position
<1>8. InOrder'
  BY <1>1, <1>2, <1>3, <1>4, <1>5, <1>7 DEF IInv, InOrder
<1>9. Unfinished' /\ ClosedAtEnd'
  BY <1>1 DEF IInv, Unfinished, ClosedAtEnd
<1>10. AllWhole'
  <2>1. filled # Len(stream)
    BY <1>2, <1>4
  <2>2. QED
    BY <1>1, <2>1 DEF IInv, AllWhole, Whole
<1>11. CutsAreEnds'
  <2>1. \A c \in cuts' : c <= filled' - Len(chunk') \/ c = filled'
    <3>1. filled' - Len(chunk') = filled /\ Len(chunk) = 0
      BY <1>1, <1>2, <1>3, <1>4, <1>5
    <3>2. \A c \in cuts : c <= filled
      BY <1>2, <3>1 DEF IInv, CutsAreEnds
    <3>3. QED
      BY <1>3, <3>1, <3>2
  <2>2. filled' \in cuts'
    BY <1>3
  <2>3. line # <<>> => Position \in cuts'
    BY <1>1, <1>3 DEF IInv, CutsAreEnds
  <2>4. QED
    BY <1>1, <1>7, <2>1, <2>2, <2>3 DEF CutsAreEnds
<1>12. LineIsSound'
  <2>1. ASSUME NEW b \in 1 .. Len(line) - 1, Handed + b \in cuts'
        PROVE  Handed + b \in cuts
    <3>1. Handed + b < filled
      BY <1>7, <2>1
    <3>2. QED
      BY <1>2, <1>3, <1>4, <1>7, <2>1, <3>1
  <2>2. QED
    BY <1>1, <1>7, <2>1 DEF IInv, LineIsSound, Utf8, Straddles
<1>13. LinesAreSound'
  <2>1. Len(chunk) = 0 /\ filled' - Len(chunk') = filled /\ Len(chunk') \in Nat /\ filled' \in Nat
    BY <1>1, <1>2, <1>3, <1>4, <1>5
  <2>2. \A c \in cuts' : c \in cuts \/ c > filled - Len(chunk)
    BY <1>2, <1>3, <1>4, <2>1
  <2>3. QED
    BY <1>1, <1>2, <2>1, <2>2, LinesStaySound DEF IInv
<1>14. Refused'
  BY <1>1 DEF Refused
<1>15. QED
  BY <1>6, <1>8, <1>9, <1>10, <1>11, <1>12, <1>13, <1>14 DEF IInv

\* What consuming a piece leaves in the buffer.
LEMMA ConsumeFacts ==
    ASSUME TypeOK, chunk # <<>>, Consume
    PROVE  /\ chunk' \in Seq(Bytes)
           /\ Take \in 1 .. Len(chunk)
           /\ Len(chunk') = Len(chunk) - Take
           /\ \A b \in 1 .. Len(chunk') : chunk'[b] = chunk[Take + b]
<1>1. chunk \in Seq(Bytes)
  BY DEF TypeOK
<1>2. Take \in 1 .. Len(chunk)
  BY <1>1, TakeFacts
<1>3. QED
  BY <1>1, <1>2, PieceFacts DEF Consume

\* What is left of the invariant once the reader has failed.
LEMMA FailedStep ==
    ASSUME IInv, outcome = "open", Fail,
           stream' = stream, capped' = capped, filled' = filled, cuts' = cuts,
           chunk' \in Seq(Bytes), Len(chunk') <= Len(chunk),
           chunk = <<>> => chunk' = <<>>,
           ~Acceptable(Handed, LineFrom(Handed))
    PROVE  IInv'
<1>1. TypeOK /\ outcome' = "error" /\ line' = line /\ lines' = lines
  BY DEF IInv, Fail
<1>2. /\ filled \in Nat /\ Len(chunk) \in Nat /\ Len(chunk') \in Nat
      /\ Read' = Read /\ Handed' = Handed
  BY <1>1 DEF TypeOK, Read, Handed
<1>3. TypeOK'
  BY <1>1 DEF TypeOK
<1>4. InOrder' /\ ClosedAtEnd' /\ Unfinished'
  BY <1>1 DEF IInv, InOrder, ClosedAtEnd, Unfinished
<1>5. AllWhole'
  BY <1>1 DEF IInv, AllWhole, Whole
<1>6. CutsAreEnds'
  <2>1. \A c \in cuts : c <= filled' - Len(chunk') \/ c = filled'
    <3>1. filled - Len(chunk) <= filled' - Len(chunk')
      BY <1>2
    <3>2. \A c \in cuts : c \in Nat /\ (c <= filled - Len(chunk) \/ c = filled)
      BY <1>1 DEF IInv, CutsAreEnds, TypeOK
    <3>3. QED
      BY <1>2, <3>1, <3>2
  <2>2. chunk' # <<>> => filled \in cuts
    BY DEF IInv, CutsAreEnds
  <2>3. QED
    BY <1>1, <2>1, <2>2 DEF CutsAreEnds
<1>7. LineIsSound'
  BY <1>1, <1>2 DEF IInv, LineIsSound, Utf8, Straddles
<1>8. LinesAreSound'
  <2>1. filled' - Len(chunk') >= filled - Len(chunk) /\ filled' \in Nat
    BY <1>2
  <2>2. \A c \in cuts' : c \in cuts \/ c > filled - Len(chunk)
    OBVIOUS
  <2>3. QED
    BY <1>1, <1>2, <2>1, <2>2, LinesStaySound DEF IInv
<1>9. Refused'
  <2>1. LineFrom(Handed)' = LineFrom(Handed)
    BY <1>2 DEF LineFrom
  <2>2. Straddles(Handed, LineFrom(Handed))' = Straddles(Handed, LineFrom(Handed))
    BY <1>2, <2>1 DEF Straddles
  <2>3. Acceptable(Handed, LineFrom(Handed))' = Acceptable(Handed, LineFrom(Handed))
    BY <2>1, <2>2 DEF Acceptable
  <2>4. QED
    BY <2>3 DEF Refused
<1>10. QED
  BY <1>3, <1>4, <1>5, <1>6, <1>7, <1>8, <1>9 DEF IInv

LEMMA TooLongStep == IInv /\ TooLong => IInv'
<1> SUFFICES ASSUME IInv, TooLong PROVE IInv'
  OBVIOUS
<1>1. /\ TypeOK /\ outcome = "open" /\ chunk # <<>> /\ capped /\ Consume /\ Fail
      /\ InOrder /\ Unfinished
  BY DEF IInv, TooLong
<1>2. Len(line) + Take > MaxBytes /\ Len(line) \in Nat
  BY <1>1 DEF TooLong, Exceeds, TypeOK
<1>3. Len(LineFrom(Handed)) > MaxBytes
  <2>1. Len(Longer) = Len(line) + Take /\ Len(Longer) <= Len(LineFrom(Handed)) /\ LineFrom(Handed) \in Seq(Bytes)
    BY <1>1, LongerFacts, LongerIsOfTheLine
  <2>2. Take \in Nat /\ Len(LineFrom(Handed)) \in Nat
    BY <1>1, <2>1, ConsumeFacts
  <2>3. QED
    BY <1>2, <2>1, <2>2, LimitsAssumption
<1>4. LineFrom(Handed) \in Seq(Bytes)
  BY <1>1, LongerIsOfTheLine
<1>5. ~Acceptable(Handed, LineFrom(Handed))
  <2>1. Len(LineFrom(Handed)) \in Nat
    BY <1>4
  <2>2. ~(Len(LineFrom(Handed)) <= MaxBytes)
    BY <1>3, <2>1, LimitsAssumption
  <2>3. QED
    BY <1>1, <2>2 DEF Acceptable
<1>6. chunk' \in Seq(Bytes) /\ Len(chunk') <= Len(chunk)
  BY <1>1, ConsumeFacts
<1>7. QED
  BY <1>1, <1>5, <1>6, FailedStep DEF TooLong

LEMMA MalformedStep == IInv /\ Malformed => IInv'
<1> SUFFICES ASSUME IInv, Malformed PROVE IInv'
  OBVIOUS
<1>1. /\ TypeOK /\ outcome = "open" /\ chunk # <<>> /\ Fail
      /\ InOrder /\ Unfinished /\ CutsAreEnds
      /\ capped \/ Done
      /\ ~Utf8(Checked)
  BY DEF IInv, Malformed
<1>2. ~Acceptable(Handed, LineFrom(Handed))
  <2>1. CASE capped
    <3>1. ~Utf8(Piece)
      BY <1>1, <2>1 DEF Checked, Piece
    <3>2. QED
      BY <1>1, <2>1, <3>1, PieceGivesCause
  <2>2. CASE ~capped
    <3>1. ~Utf8(Longer)
      BY <1>1, <2>2 DEF Checked, Longer, Piece
    <3>2. LineFrom(Handed) = Longer
      BY <1>1, <2>2, LongerIsOfTheLine
    <3>3. QED
      BY <3>1, <3>2 DEF Acceptable
  <2>3. QED
    BY <2>1, <2>2
<1>3. chunk' \in Seq(Bytes) /\ Len(chunk') <= Len(chunk)
  <2>1. CASE chunk' = chunk
    BY <1>1, <2>1 DEF TypeOK
  <2>2. CASE Consume
    BY <1>1, <2>2, ConsumeFacts
  <2>3. QED
    BY <2>1, <2>2 DEF Malformed
<1>4. QED
  BY <1>1, <1>2, <1>3, FailedStep DEF Malformed

\* What is read with a line more.
LEMMA ReadOn ==
    ASSUME TypeOK, InOrder, outcome = "open", NEW l \in Seq(Bytes), Read' = Read \o l,
           \A b \in 1 .. Len(l) : l[b] = stream[Handed + b]
    PROVE  /\ Len(Read') = Handed + Len(l)
           /\ \A b \in 1 .. Len(Read') : Read'[b] = stream[b]
<1>1. Read \in Seq(Bytes) /\ Handed = Len(Read) /\ Handed \in Nat /\ Len(l) \in Nat
  BY ReadType DEF Handed
<1>2. /\ Len(Read') = Handed + Len(l)
      /\ \A b \in 1 .. Handed + Len(l) : Read'[b] = IF b <= Handed THEN Read[b] ELSE l[b - Handed]
  BY <1>1, ConcatProperties
<1>3. ASSUME NEW b \in 1 .. Handed + Len(l) PROVE Read'[b] = stream[b]
  <2>1. CASE b <= Handed
    BY <1>1, <1>2, <2>1 DEF InOrder
  <2>2. CASE b > Handed
    <3>1. b - Handed \in 1 .. Len(l) /\ Handed + (b - Handed) = b
      BY <1>1, <2>2
    <3>2. QED
      BY <1>1, <1>2, <2>2, <3>1
  <2>3. QED
    BY <1>1, <2>1, <2>2
<1>4. QED
  BY <1>2, <1>3

\* As long as the buffer or the unfinished line has a byte, each line before
\* ends with its newline.
LEMMA EndedWithNewline ==
    ASSUME AllWhole, chunk # <<>> \/ line # <<>>, NEW k \in DOMAIN lines
    PROVE  /\ lines[k] # <<>>
           /\ \A b \in 1 .. Len(lines[k]) - 1 : lines[k][b] # "newline"
           /\ Last(lines[k]) = "newline"
BY DEF AllWhole, Whole

LEMMA TakePieceStep == IInv /\ TakePiece => IInv'
<1> SUFFICES ASSUME IInv, TakePiece PROVE IInv'
  OBVIOUS
<1>1. /\ TypeOK /\ InOrder /\ Unfinished /\ CutsAreEnds /\ LineIsSound /\ LinesAreSound /\ AllWhole
      /\ outcome = "open" /\ chunk # <<>> /\ Consume
      /\ stream' = stream /\ capped' = capped /\ filled' = filled
      /\ outcome' = outcome /\ cuts' = cuts
  BY DEF IInv, TakePiece
<1>2. /\ Take \in 1 .. Len(chunk)
      /\ Longer \in Seq(Bytes) /\ Len(Longer) = Len(line) + Take
      /\ \A b \in 1 .. Len(Longer) : Longer[b] = stream[Handed + b]
      /\ \A b \in 1 .. Len(Longer) - 1 : Longer[b] # "newline"
      /\ Last(Longer) = chunk[Take]
      /\ Handed + Len(Longer) = (filled - Len(chunk)) + Take
      /\ ~Done => Take = Len(chunk)
  BY <1>1, LongerFacts
<1>3. /\ chunk' \in Seq(Bytes) /\ Len(chunk') = Len(chunk) - Take
      /\ \A b \in 1 .. Len(chunk') : chunk'[b] = chunk[Take + b]
  BY <1>1, ConsumeFacts
<1>4. /\ Len(line) \in Nat /\ Len(chunk) \in Nat /\ filled \in 0 .. Len(stream) /\ Handed \in Nat
      /\ Len(Longer) \in Nat \ {0} /\ Len(chunk') \in Nat /\ filled \in Nat /\ Take \in Nat
      /\ Handed + Len(line) + Len(chunk) = filled
  BY <1>1, <1>2, <1>3, ReadType DEF TypeOK, InOrder, Handed, Position
<1>5. capped => Utf8(Longer) /\ Len(Longer) <= MaxBytes /\ ~Straddles(Handed, Longer)
  <2> SUFFICES ASSUME capped PROVE Utf8(Longer) /\ Len(Longer) <= MaxBytes /\ ~Straddles(Handed, Longer)
    OBVIOUS
  <2>1. Utf8(Piece)
    BY DEF TakePiece, Checked, Piece
  <2>2. ~(Len(line) + Take > MaxBytes)
    BY DEF TakePiece, Exceeds
  <2>3. Len(Longer) <= MaxBytes
    BY <1>2, <1>4, <2>2, LimitsAssumption
  <2>4. QED
    BY <1>1, <2>1, <2>3, LongerIsSound
<1>6. Done => Utf8(Longer)
  BY <1>5 DEF TakePiece, Checked, Longer, Piece
<1>7. ClosedAtEnd' /\ Refused'
  BY <1>1 DEF ClosedAtEnd, Refused
<1>8. \A c \in cuts' : c <= filled' - Len(chunk') \/ c = filled'
  <2>1. \A c \in cuts : c \in Nat /\ (c <= filled - Len(chunk) \/ c = filled)
    BY <1>1 DEF CutsAreEnds, TypeOK
  <2>2. filled - Len(chunk) <= filled' - Len(chunk') /\ filled' - Len(chunk') \in Int
    BY <1>1, <1>2, <1>3, <1>4
  <2>3. QED
    BY <1>1, <1>4, <2>1, <2>2
<1>9. chunk' # <<>> => filled' \in cuts'
  BY <1>1 DEF CutsAreEnds
<1>10. CASE Done
  <2>1. Deliver(Longer)
    BY <1>10 DEF TakePiece, Longer, Piece
  <2>2. Acceptable(Handed, Longer)
    BY <1>5, <1>6, <1>10 DEF Acceptable
  <2>3. /\ filled' - Len(chunk') >= filled - Len(chunk)
        /\ Handed + Len(Longer) <= filled' - Len(chunk')
        /\ Len(chunk') \in Nat /\ filled' \in Nat
    BY <1>1, <1>2, <1>3, <1>4
  <2>4. /\ LinesAreSound'
        /\ Read' = Read \o Longer
        /\ lines' \in Seq(Seq(Bytes))
        /\ Len(lines') = Len(lines) + 1
        /\ \A k \in 1 .. Len(lines) : lines'[k] = lines[k]
        /\ lines'[Len(lines) + 1] = Longer
    BY <1>1, <1>2, <2>1, <2>2, <2>3, LineDelivered
  <2>5. line' = <<>> /\ Len(line') = 0 /\ line' \in Seq(Bytes)
    BY <2>1 DEF Deliver
  <2>6. TypeOK'
    BY <1>1, <1>3, <2>4, <2>5 DEF TypeOK
  <2>7. Len(Read') = Handed + Len(Longer) /\ \A b \in 1 .. Len(Read') : Read'[b] = stream[b]
    BY <1>1, <1>2, <2>4, ReadOn
  <2>8. Position' = Handed + Len(line) + Take /\ Position = Handed + Len(line)
    BY <1>2, <1>4, <2>5, <2>7 DEF Position, Handed
  <2>9. \A b \in 1 .. Len(chunk') : chunk'[b] = stream[Position' + b]
    <3> SUFFICES ASSUME NEW b \in 1 .. Len(chunk') PROVE chunk'[b] = stream[Position' + b]
      OBVIOUS
    <3>1. Take + b \in 1 .. Len(chunk) /\ Position + (Take + b) = Position' + b
      BY <1>2, <1>3, <1>4, <2>8
    <3>2. QED
      BY <1>1, <1>3, <3>1 DEF InOrder
  <2>10. InOrder'
    <3>1. Position' + Len(chunk') = filled'
      <4>1. Position' = Handed + Len(line) + Take /\ Len(chunk') = Len(chunk) - Take /\ filled' = filled
        BY <1>1, <1>3, <2>8
      <4>2. (Handed + Len(line) + Take) + (Len(chunk) - Take) = filled
        BY <1>4
      <4>3. QED
        BY <4>1, <4>2
    <3>2. QED
      BY <1>1, <2>5, <2>7, <2>9, <3>1 DEF InOrder
  <2>11. Unfinished'
    BY <2>5 DEF Unfinished
  <2>12. AllWhole'
    <3> SUFFICES ASSUME NEW k \in 1 .. Len(lines) + 1
                 PROVE  /\ lines'[k] # <<>>
                        /\ \A b \in 1 .. Len(lines'[k]) - 1 : lines'[k][b] # "newline"
                        /\ Last(lines'[k]) = "newline"
      BY <2>4 DEF AllWhole, Whole
    <3>1. Len(lines) \in Nat /\ DOMAIN lines = 1 .. Len(lines)
      BY <1>1 DEF TypeOK
    <3>2. CASE k \in 1 .. Len(lines)
      BY <1>1, <2>4, <3>1, <3>2, EndedWithNewline
    <3>3. CASE k = Len(lines) + 1
      <4>1. Longer # <<>>
        BY <1>4
      <4>2. QED
        BY <1>2, <1>10, <2>4, <3>3, <4>1 DEF Done
    <3>4. QED
      BY <3>1, <3>2, <3>3
  <2>13. CutsAreEnds'
    BY <1>8, <1>9, <2>5 DEF CutsAreEnds
  <2>14. LineIsSound'
    BY <2>5, LimitsAssumption DEF LineIsSound, Utf8, Straddles
  <2>15. QED
    BY <1>7, <2>4, <2>6, <2>10, <2>11, <2>12, <2>13, <2>14 DEF IInv
<1>11. CASE ~Done
  <2>1. line' = Longer /\ lines' = lines
    BY <1>11 DEF TakePiece, Longer, Piece
  <2>2. Take = Len(chunk) /\ Len(chunk') = 0 /\ chunk' = <<>>
    BY <1>2, <1>3, <1>4, <1>11
  <2>3. TypeOK'
    BY <1>1, <1>2, <1>3, <2>1 DEF TypeOK
  <2>4. Read' = Read /\ Handed' = Handed
    BY <2>1 DEF Read, Handed
  <2>5. Position' = filled
    BY <1>2, <1>4, <2>1, <2>2, <2>4 DEF Position, Handed
  <2>6. InOrder'
    BY <1>1, <1>2, <1>4, <2>1, <2>2, <2>4, <2>5 DEF InOrder, Handed
  <2>7. Unfinished'
    <3>1. Longer[Len(Longer)] # "newline"
      BY <1>2, <1>11 DEF Last, Done
    <3>2. \A b \in 1 .. Len(Longer) : b \in 1 .. Len(Longer) - 1 \/ b = Len(Longer)
      BY <1>4
    <3>3. QED
      BY <1>2, <2>1, <3>1, <3>2 DEF Unfinished
  <2>8. AllWhole'
    BY <1>1, <2>1, EndedWithNewline DEF AllWhole, Whole
  <2>9. CutsAreEnds'
    BY <1>1, <1>8, <1>9, <2>5 DEF CutsAreEnds
  <2>10. LineIsSound'
    <3>1. Straddles(Handed, line)' = Straddles(Handed, Longer)
      BY <1>1, <2>1, <2>4 DEF Straddles
    <3>2. QED
      BY <1>1, <1>5, <2>1, <3>1 DEF LineIsSound
  <2>11. LinesAreSound'
    <3>1. filled' - Len(chunk') >= filled - Len(chunk) /\ Len(chunk') \in Nat /\ filled' \in Nat
      BY <1>1, <1>2, <1>3, <1>4
    <3>2. \A c \in cuts' : c \in cuts \/ c > filled - Len(chunk)
      BY <1>1
    <3>3. QED
      BY <1>1, <2>1, <3>1, <3>2, LinesStaySound
  <2>12. QED
    BY <1>7, <2>3, <2>6, <2>7, <2>8, <2>9, <2>10, <2>11 DEF IInv
<1>12. QED
  BY <1>10, <1>11

\* At the end of the stream the unfinished line is what is left of it.
LEMMA LastLine ==
    ASSUME TypeOK, InOrder, Unfinished, outcome = "open",
           chunk = <<>>, filled = Len(stream), line # <<>>
    PROVE  LineFrom(Handed) = line
<1> DEFINE n == Handed
           q == filled
<1>1. /\ stream \in Seq(Bytes) /\ line \in Seq(Bytes) /\ n \in Nat /\ q \in Nat
      /\ Len(line) \in Nat \ {0} /\ n + Len(line) = q /\ q = Len(stream)
      /\ \A b \in 1 .. Len(line) : line[b] = stream[n + b]
  <2>1. Len(chunk) = 0 /\ Len(line) \in Nat \ {0}
    BY EmptySeq DEF TypeOK
  <2>2. QED
    BY <2>1, ReadType DEF TypeOK, InOrder, Position, Handed
<1>2. ASSUME NEW k \in n + 1 .. q - 1 PROVE stream[k] # "newline"
  <2>1. k - n \in 1 .. Len(line) /\ n + (k - n) = k
    BY <1>1
  <2>2. QED
    BY <1>1, <2>1 DEF Unfinished
<1> HIDE DEF n, q
<1>3. n < q /\ q <= Len(stream)
  BY <1>1
<1>4. /\ LineFrom(n) \in Seq(Bytes)
      /\ \A b \in 1 .. Len(LineFrom(n)) : LineFrom(n)[b] = stream[n + b]
      /\ Len(LineFrom(n)) = q - n
  BY <1>1, <1>2, <1>3, LineFromFacts
<1>5. Len(LineFrom(n)) = Len(line)
  BY <1>1, <1>4
<1>6. LineFrom(n) = line
  BY <1>1, <1>4, <1>5, SeqEqual
<1>7. QED
  BY <1>6 DEF n

LEMMA EndOfStreamStep == IInv /\ EndOfStream => IInv'
<1> SUFFICES ASSUME IInv, EndOfStream PROVE IInv'
  OBVIOUS
<1>1. /\ TypeOK /\ InOrder /\ Unfinished /\ CutsAreEnds /\ LineIsSound /\ LinesAreSound /\ AllWhole
      /\ outcome = "open" /\ chunk = <<>> /\ filled = Len(stream)
      /\ stream' = stream /\ capped' = capped /\ filled' = filled /\ chunk' = chunk /\ cuts' = cuts
  BY DEF IInv, EndOfStream
<1>2. /\ line \in Seq(Bytes) /\ Len(line) \in Nat /\ filled \in Nat /\ Len(chunk) = 0
      /\ Handed \in Nat /\ Handed + Len(line) = filled
  <2>1. Len(chunk) = 0 /\ line \in Seq(Bytes) /\ Len(line) \in Nat /\ filled \in Nat
    BY <1>1 DEF TypeOK
  <2>2. QED
    BY <1>1, <2>1, ReadType DEF InOrder, Position, Handed
<1>3. CASE line = <<>>
  <2>1. outcome' = "closed" /\ line' = line /\ lines' = lines
    BY <1>3 DEF EndOfStream
  <2>2. Read' = Read /\ Handed' = Handed /\ Position' = Position
    BY <2>1 DEF Read, Handed, Position
  <2>3. TypeOK'
    BY <1>1, <2>1 DEF TypeOK
  <2>4. InOrder' /\ Unfinished'
    BY <1>1, <2>1, <2>2 DEF InOrder, Unfinished
  <2>5. AllWhole'
    BY <1>1, <2>1 DEF AllWhole, Whole
  <2>6. ClosedAtEnd' /\ Refused'
    BY <1>1, <1>3, <2>1 DEF ClosedAtEnd, Refused
  <2>7. CutsAreEnds'
    BY <1>1, <1>3, <2>1, <2>2 DEF CutsAreEnds
  <2>8. LineIsSound'
    BY <1>1, <2>1, <2>2 DEF LineIsSound, Straddles
  <2>9. LinesAreSound'
    <3>1. filled' - Len(chunk') >= filled - Len(chunk) /\ Len(chunk') \in Nat /\ filled' \in Nat
      BY <1>1, <1>2
    <3>2. \A c \in cuts' : c \in cuts \/ c > filled - Len(chunk)
      BY <1>1
    <3>3. QED
      BY <1>1, <2>1, <3>1, <3>2, LinesStaySound
  <2>10. QED
    BY <2>3, <2>4, <2>5, <2>6, <2>7, <2>8, <2>9 DEF IInv
<1>4. CASE line # <<>> /\ (capped \/ Utf8(line))
  <2>1. Deliver(line) /\ outcome' = outcome
    BY <1>4 DEF EndOfStream
  <2>2. Acceptable(Handed, line)
    BY <1>1, <1>4 DEF Acceptable, LineIsSound
  <2>3. /\ filled' - Len(chunk') >= filled - Len(chunk)
        /\ Handed + Len(line) <= filled' - Len(chunk')
        /\ Len(chunk') \in Nat /\ filled' \in Nat
    BY <1>1, <1>2
  <2>4. /\ LinesAreSound'
        /\ Read' = Read \o line
        /\ lines' \in Seq(Seq(Bytes))
        /\ Len(lines') = Len(lines) + 1
        /\ \A k \in 1 .. Len(lines) : lines'[k] = lines[k]
        /\ lines'[Len(lines) + 1] = line
    BY <1>1, <1>2, <2>1, <2>2, <2>3, LineDelivered
  <2>5. line' = <<>> /\ Len(line') = 0 /\ line' \in Seq(Bytes)
    BY <2>1 DEF Deliver
  <2>6. TypeOK'
    BY <1>1, <2>1, <2>4, <2>5 DEF TypeOK
  <2>7. Len(Read') = Handed + Len(line) /\ \A b \in 1 .. Len(Read') : Read'[b] = stream[b]
    <3>1. \A b \in 1 .. Len(line) : line[b] = stream[Handed + b]
      BY <1>1 DEF InOrder, Handed
    <3>2. QED
      BY <1>1, <1>2, <2>4, <3>1, ReadOn
  <2>8. InOrder'
    <3>1. Position' + Len(chunk') = filled'
      BY <1>1, <1>2, <2>5, <2>7 DEF Position, Handed
    <3>2. QED
      BY <1>1, <1>2, <2>5, <2>7, <3>1 DEF InOrder
  <2>9. Unfinished'
    BY <2>5 DEF Unfinished
  <2>10. AllWhole'
    <3>1. Len(lines) \in Nat /\ DOMAIN lines = 1 .. Len(lines) /\ DOMAIN lines' = 1 .. Len(lines) + 1
      BY <1>1, <2>4 DEF TypeOK
    <3>2. ASSUME NEW k \in 1 .. Len(lines) + 1
          PROVE  Whole(k)'
      <4>1. CASE k \in 1 .. Len(lines)
        BY <1>4, <1>1, <2>4, <3>1, <4>1, EndedWithNewline DEF Whole
      <4>2. CASE k = Len(lines) + 1
        <5>1. \A b \in 1 .. Len(line) - 1 : line[b] # "newline"
          BY <1>1, <1>2 DEF Unfinished
        <5>2. QED
          BY <1>1, <1>4, <2>4, <2>5, <4>2, <5>1 DEF Whole
      <4>3. QED
        BY <3>1, <4>1, <4>2
    <3>3. QED
      BY <3>1, <3>2 DEF AllWhole
  <2>11. ClosedAtEnd' /\ Refused'
    BY <1>1, <2>1 DEF ClosedAtEnd, Refused
  <2>12. CutsAreEnds'
    BY <1>1, <2>5 DEF CutsAreEnds
  <2>13. LineIsSound'
    BY <2>5, LimitsAssumption DEF LineIsSound, Utf8, Straddles
  <2>14. QED
    BY <2>4, <2>6, <2>8, <2>9, <2>10, <2>11, <2>12, <2>13 DEF IInv
<1>5. CASE line # <<>> /\ ~(capped \/ Utf8(line))
  <2>1. Fail
    BY <1>5 DEF EndOfStream
  <2>2. ~Acceptable(Handed, LineFrom(Handed))
    <3>1. LineFrom(Handed) = line
      BY <1>1, <1>5, LastLine
    <3>2. QED
      BY <1>5, <3>1 DEF Acceptable
  <2>3. chunk' \in Seq(Bytes) /\ Len(chunk') <= Len(chunk)
    BY <1>1, <1>2 DEF TypeOK
  <2>4. QED
    BY <1>1, <2>1, <2>2, <2>3, FailedStep
<1>6. QED
  BY <1>3, <1>4, <1>5

LEMMA NextIsSound == IInv /\ [Next]_vars => IInv'
<1> SUFFICES ASSUME IInv, [Next]_vars PROVE IInv'
  OBVIOUS
<1>1. CASE Fill
  BY <1>1, FillStep
<1>2. CASE TooLong
  BY <1>2, TooLongStep
<1>3. CASE Malformed
  BY <1>3, MalformedStep
<1>4. CASE TakePiece
  BY <1>4, TakePieceStep
<1>5. CASE EndOfStream
  BY <1>5, EndOfStreamStep
<1>6. CASE UNCHANGED vars
  <2>1. /\ stream' = stream /\ capped' = capped /\ filled' = filled /\ chunk' = chunk
        /\ line' = line /\ lines' = lines /\ outcome' = outcome /\ cuts' = cuts
    BY <1>6 DEF vars
  <2>2. Read' = Read /\ Handed' = Handed /\ Position' = Position
    BY <2>1 DEF Read, Handed, Position
  <2>3. TypeOK' /\ InOrder' /\ Unfinished' /\ ClosedAtEnd' /\ CutsAreEnds'
    BY <2>1, <2>2 DEF IInv, TypeOK, InOrder, Unfinished, ClosedAtEnd, CutsAreEnds
  <2>4. AllWhole'
    BY <2>1 DEF IInv, AllWhole, Whole
  <2>5. LineIsSound'
    BY <2>1, <2>2 DEF IInv, LineIsSound, Straddles
  <2>6. LinesAreSound'
    BY <2>1 DEF IInv, LinesAreSound, Acceptable, Straddles, Before
  <2>7. Refused'
    <3>1. LineFrom(Handed)' = LineFrom(Handed)
      BY <2>1, <2>2 DEF LineFrom
    <3>2. Straddles(Handed, LineFrom(Handed))' = Straddles(Handed, LineFrom(Handed))
      BY <2>1, <2>2, <3>1 DEF Straddles
    <3>3. Acceptable(Handed, LineFrom(Handed))' = Acceptable(Handed, LineFrom(Handed))
      BY <2>1, <3>1, <3>2 DEF Acceptable
    <3>4. QED
      BY <2>1, <3>3 DEF IInv, Refused
  <2>8. QED
    BY <2>3, <2>4, <2>5, <2>6, <2>7 DEF IInv
<1>7. QED
  BY <1>1, <1>2, <1>3, <1>4, <1>5, <1>6 DEF Next

LEMMA StaysSound == Spec => []IInv
BY InitIsSound, NextIsSound, PTL DEF Spec

-----------------------------------------------------------------------------
(***************************************************************************)
(* The theorems                                                            *)
(***************************************************************************)

\* Whatever is sent, wherever the reads end and whatever the limit: no byte is
\* lost, repeated or moved between the stream and the lines, a line ends at its
\* newline, and a connection that ends well has been read to its end.
THEOREM LinesAreWhatWasSent == Spec => []LinesAreTheStream
<1>1. IInv => LinesAreTheStream
  <2> SUFFICES ASSUME IInv PROVE LinesAreTheStream
    OBVIOUS
  <2>1. TypeOK /\ InOrder /\ AllWhole /\ ClosedAtEnd
    BY DEF IInv
  <2>2. /\ Read \in Seq(Bytes) /\ line \in Seq(Bytes) /\ chunk \in Seq(Bytes) /\ stream \in Seq(Bytes)
        /\ Handed = Len(Read) /\ Position = Len(Read) + Len(line)
        /\ filled \in 0 .. Len(stream) /\ Len(stream) \in Nat
        /\ Len(Read) \in Nat /\ Len(line) \in Nat /\ Len(chunk) \in Nat
    BY <2>1, ReadType DEF TypeOK, Handed, Position
  <2>3. ASSUME outcome # "error"
        PROVE  Read \o line \o chunk = SubSeq(stream, 1, filled)
    <3> DEFINE a == Read \o line
               s == a \o chunk
               t == SubSeq(stream, 1, filled)
    <3>1. /\ a \in Seq(Bytes) /\ Len(a) = Len(Read) + Len(line)
          /\ \A b \in 1 .. Len(Read) + Len(line) :
                a[b] = IF b <= Len(Read) THEN Read[b] ELSE line[b - Len(Read)]
      BY <2>2, ConcatProperties
    <3> HIDE DEF a
    <3>2. /\ s \in Seq(Bytes) /\ Len(s) = Len(a) + Len(chunk)
          /\ \A b \in 1 .. Len(a) + Len(chunk) :
                s[b] = IF b <= Len(a) THEN a[b] ELSE chunk[b - Len(a)]
      BY <2>2, <3>1, ConcatProperties
    <3>3. t \in Seq(Bytes) /\ Len(t) = filled /\ \A b \in 1 .. filled : t[b] = stream[b]
      <4>1. filled \in Int /\ \A b \in 1 .. filled : stream[b] \in Bytes
        BY <2>2, ElementOfSeq
      <4>2. /\ t \in Seq(Bytes)
            /\ Len(t) = IF 1 <= filled THEN filled - 1 + 1 ELSE 0
            /\ \A b \in 1 .. filled - 1 + 1 : t[b] = stream[1 + b - 1]
        BY <4>1, SubSeqProperties
      <4> HIDE DEF t
      <4>3. QED
        BY <2>2, <4>2
    <3> HIDE DEF s, t
    <3>4. Len(a) = Position /\ Position + Len(chunk) = filled
      BY <2>1, <2>2, <2>3, <3>1 DEF InOrder
    <3>5. ASSUME NEW b \in 1 .. filled PROVE s[b] = stream[b]
      <4>1. CASE b <= Len(Read)
        BY <2>1, <2>2, <2>3, <3>1, <3>2, <3>4, <4>1 DEF InOrder
      <4>2. CASE b > Len(Read) /\ b <= Len(a)
        <5>1. b - Len(Read) \in 1 .. Len(line) /\ Len(Read) + (b - Len(Read)) = b
          BY <2>2, <3>1, <4>2
        <5>2. s[b] = line[b - Len(Read)]
          BY <2>2, <3>1, <3>2, <3>4, <4>2
        <5>3. QED
          BY <2>1, <2>3, <5>1, <5>2 DEF InOrder
      <4>3. CASE b > Len(a)
        <5>1. b - Len(a) \in 1 .. Len(chunk) /\ Position + (b - Len(a)) = b
          BY <2>2, <3>4, <4>3
        <5>2. s[b] = chunk[b - Len(a)]
          BY <2>2, <3>1, <3>2, <3>4, <4>3
        <5>3. QED
          BY <2>1, <2>3, <5>1, <5>2 DEF InOrder
      <4>4. QED
        BY <2>2, <3>1, <4>1, <4>2, <4>3
    <3>6. Len(s) = filled
      BY <3>2, <3>4
    <3>7. s = t
      BY <3>2, <3>3, <3>5, <3>6, SeqEqual
    <3>8. QED
      BY <3>7 DEF s, t, a
  <2>4. \A k \in DOMAIN lines :
            /\ lines[k] # <<>>
            /\ \A b \in 1 .. Len(lines[k]) - 1 : lines[k][b] # "newline"
            /\ \/ Last(lines[k]) = "newline"
               \/ k = Len(lines) /\ filled = Len(stream)
    BY <2>1 DEF AllWhole, Whole
  <2>5. ASSUME outcome = "closed" PROVE Read = stream
    <3>1. line = <<>> /\ chunk = <<>> /\ filled = Len(stream)
      BY <2>1, <2>5 DEF ClosedAtEnd
    <3>2. Len(Read) = Len(stream) /\ \A b \in 1 .. Len(Read) : Read[b] = stream[b]
      <4>1. Len(line) = 0 /\ Len(chunk) = 0
        BY <3>1
      <4>2. QED
        BY <2>1, <2>2, <2>5, <3>1, <4>1 DEF InOrder
    <3>3. QED
      BY <2>2, <3>2, SeqEqual
  <2>6. QED
    BY <2>3, <2>4, <2>5 DEF LinesAreTheStream
<1>2. QED
  BY <1>1, StaysSound, PTL

\* A reader fails only over a line that is too long, no UTF-8, or cut by a read
\* within a character, and it hands on no such line.
THEOREM RefusalHasACause == Spec => []RefusedForCause
<1>1. IInv => RefusedForCause
  BY DEF IInv, Refused, LinesAreSound, LineIsSound, RefusedForCause, Before, Handed
<1>2. QED
  BY <1>1, StaysSound, PTL
==============================================================================
