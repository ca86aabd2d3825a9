------------------------ MODULE TranslateChunkProofs ------------------------
(***************************************************************************)
(* Lemmas about TranslateChunk: what the translator may make of the text   *)
(* for a chunk of rows, its markers lost or repeated however and its rows  *)
(* moved about, and what _decode_chunk finds in it; and that _pack_chunks  *)
(* goes through all rows once and in their order.  Where an argument needs *)
(* induction over a number, it takes the least number that fails.          *)
(***************************************************************************)
EXTENDS TranslateChunk, FiniteSetTheorems, SequenceTheorems, TLAPS

\* A set of numbers that has a member has a least one: what holds of a number
\* whenever it holds of the smaller ones holds of all.
LEMMA LeastNumber ==
    ASSUME NEW T, T \subseteq Nat, T # {}
    PROVE  \E n \in T : \A m \in T : n <= m
<1>1. PICK n \in T : \A m \in T : ~ (<<m, n>> \in OpToRel(<, Nat))
  BY NatLessThanWellFounded, WFMin
<1>2. \A m \in T : n \in Nat /\ m \in Nat /\ ~(m < n)
  BY <1>1 DEF OpToRel
<1>3. \A m \in T : n <= m
  BY <1>2
<1> QED
  BY <1>3

\* The least number of a set and the greatest of a bounded one.
LEMMA MinIsLeast ==
    ASSUME NEW T, T \subseteq Nat, T # {}
    PROVE  Min(T) \in T /\ \A m \in T : Min(T) <= m
<1>1. \E n \in T : \A m \in T : n <= m
  BY LeastNumber
<1> QED
  BY <1>1 DEF Min

\* The greatest member of a bounded set of numbers.
LEMMA MaxIsGreatest ==
    ASSUME NEW bound \in Nat, NEW T, T \subseteq 0..bound, T # {}
    PROVE  Max(T) \in T /\ \A m \in T : m <= Max(T)
<1>. DEFINE U == {bound - m : m \in T}
<1>1. U \subseteq Nat /\ U # {}
  <2>1. \A m \in T : bound - m \in Nat
    OBVIOUS
  <2>. QED
    BY <2>1
<1>2. PICK n \in U : \A m \in U : n <= m
  <2>. HIDE DEF U
  <2>. QED
    BY <1>1, LeastNumber
<1>3. PICK x \in T : n = bound - x
  BY <1>2
<1>4. \A m \in T : x >= m
  <2>. TAKE m \in T
  <2>1. n <= bound - m
    BY <1>2
  <2>. QED
    BY <1>3, <2>1
<1>5. Max(T) \in T /\ \A m \in T : Max(T) >= m
  BY <1>4 DEF Max
<1> QED
  BY <1>5

-----------------------------------------------------------------------------
(* Parts put one after the other.                                          *)

\* The sequences put together so far, of each of the first n.
Flattening(f, seqs, n) ==
    f = [i \in 1..n |-> IF i = 1 THEN seqs[i] ELSE f[i-1] \o seqs[i]]

\* FlattenSeq has such a function to choose.
LEMMA FlatteningExists ==
    ASSUME NEW S, NEW seqs \in Seq(Seq(S)), NEW n \in 0..Len(seqs)
    PROVE  \E f : Flattening(f, seqs, n)
<1>. DEFINE Odd == {k \in 0..Len(seqs) : ~ \E f : Flattening(f, seqs, k)}
<1>1. SUFFICES ASSUME Odd # {} PROVE FALSE
  OBVIOUS
<1>2. PICK k \in Odd : \A m \in Odd : k <= m
  <2>1. Odd \subseteq Nat
    BY DEF Odd
  <2>. HIDE DEF Odd
  <2>. QED
    BY <1>1, <2>1, LeastNumber
<1>3. k # 0
  <2>1. Flattening([i \in 1..0 |-> 0], seqs, 0)
    BY DEF Flattening
  <2>. QED
    BY <1>2, <2>1
<1>4. PICK f : Flattening(f, seqs, k - 1)
  <2>1. k - 1 \notin Odd
    <3>. HIDE DEF Odd
    <3>1. k \in Nat
      BY <1>2 DEF Odd
    <3>. QED
      BY <1>2, <1>3, <3>1
  <2>. QED
    BY <1>2, <1>3, <2>1
<1>. DEFINE g == [i \in 1..k |-> IF i < k THEN f[i] ELSE IF i = 1 THEN seqs[i] ELSE f[i-1] \o seqs[i]]
<1>5. \A i \in 1..k : g[i] = IF i = 1 THEN seqs[i] ELSE g[i-1] \o seqs[i]
  <2>. TAKE i \in 1..k
  <2>1. k \in Nat
    BY <1>2
  <2>2. CASE i < k
    <3>1. i \in 1..(k-1)
      BY <2>1, <2>2
    <3>2. f[i] = IF i = 1 THEN seqs[i] ELSE f[i-1] \o seqs[i]
      BY <1>4, <3>1 DEF Flattening
    <3>3. i # 1 => i - 1 \in 1..k /\ i - 1 < k
      BY <2>1, <2>2
    <3>. QED
      BY <2>2, <3>2, <3>3
  <2>3. CASE i = k
    <3>1. k # 1 => k - 1 \in 1..k /\ k - 1 < k
      BY <2>1, <1>3
    <3>. QED
      BY <2>1, <2>3, <3>1
  <2>. QED
    BY <2>1, <2>2, <2>3
<1>6. Flattening(g, seqs, k)
  <2>1. g = [i \in 1..k |-> g[i]]
    OBVIOUS
  <2>. HIDE DEF g
  <2>2. [i \in 1..k |-> g[i]] = [i \in 1..k |-> IF i = 1 THEN seqs[i] ELSE g[i-1] \o seqs[i]]
    BY <1>5
  <2>. QED
    BY <2>1, <2>2 DEF Flattening
<1>. QED
  BY <1>2, <1>6

\* Where the parts are in the whole: part i after the first off[i] places.
Placed(s, seqs, off) ==
    /\ off \in [1..Len(seqs) -> Nat]
    /\ \A i \in 1..Len(seqs) : \A k \in 1..Len(seqs[i]) :
          off[i] + k \in 1..Len(s) /\ s[off[i] + k] = seqs[i][k]
    /\ \A q \in 1..Len(s) : \E i \in 1..Len(seqs) : \E k \in 1..Len(seqs[i]) : q = off[i] + k
    /\ \A i \in 1..Len(seqs) :
          \/ off[i] + Len(seqs[i]) = Len(s)
          \/ \E j \in 1..Len(seqs) : off[j] = off[i] + Len(seqs[i])

\* FlattenSeq puts its sequences one after the other.
LEMMA FlattenPlaces ==
    ASSUME NEW S, NEW seqs \in Seq(Seq(S)), seqs # <<>>
    PROVE  /\ FlattenSeq(seqs) \in Seq(S)
           /\ \E off : Placed(FlattenSeq(seqs), seqs, off)
<1>. DEFINE n == Len(seqs)
            f == CHOOSE f : Flattening(f, seqs, n)
<1>1. n \in Nat /\ n >= 1 /\ \A i \in 1..n : seqs[i] \in Seq(S) /\ Len(seqs[i]) \in Nat
  <2>1. \A i \in 1..n : seqs[i] \in Seq(S)
    OBVIOUS
  <2>2. \A i \in 1..n : Len(seqs[i]) \in Nat
    BY <2>1, LenProperties
  <2>. QED
    BY <2>1, <2>2, EmptySeq
<1>2. Flattening(f, seqs, n)
  <2>1. \E g : Flattening(g, seqs, n)
    <3>1. n \in 0..Len(seqs)
      BY <1>1
    <3>. QED
      BY <3>1, FlatteningExists
  <2>. QED
    BY <2>1
<1>3. FlattenSeq(seqs) = f[n]
  BY <1>1 DEF FlattenSeq, Flattening
<1>. HIDE DEF f
<1>. DEFINE off == [i \in 1..n |-> IF i = 1 THEN 0 ELSE Len(f[i-1])]
            In(i) == /\ f[i] \in Seq(S)
                     /\ Len(f[i]) = off[i] + Len(seqs[i])
                     /\ \A j \in 1..i : \A k \in 1..Len(seqs[j]) :
                          off[j] \in Nat /\ off[j] + k \in 1..Len(f[i]) /\ f[i][off[j] + k] = seqs[j][k]
                     /\ \A q \in 1..Len(f[i]) : \E j \in 1..i : \E k \in 1..Len(seqs[j]) : q = off[j] + k
<1>4. f[1] = seqs[1] /\ \A i \in 2..n : f[i] = f[i-1] \o seqs[i]
  <2>1. \A i \in 1..n : f[i] = IF i = 1 THEN seqs[i] ELSE f[i-1] \o seqs[i]
    BY <1>2, Zenon DEF Flattening
  <2>2. 1 \in 1..n /\ \A i \in 2..n : i \in 1..n /\ i # 1
    BY <1>1
  <2>. QED
    BY <2>1, <2>2
<1>5. In(1)
  <2>1. off[1] = 0 /\ f[1] = seqs[1] /\ seqs[1] \in Seq(S) /\ Len(seqs[1]) \in Nat
    BY <1>1, <1>4
  <2>. HIDE DEF off
  <2>2. \A j \in 1..1 : j = 1
    OBVIOUS
  <2>3. 1 \in 1..1
    OBVIOUS
  <2>. QED
    BY <2>1, <2>2, <2>3
<1>6. ASSUME NEW i \in 2..n, In(i - 1) PROVE In(i)
  <2>1. off[i] = Len(f[i-1]) /\ i - 1 \in 1..n /\ i \in 1..n
    BY <1>1
  <2>2. f[i] = f[i-1] \o seqs[i] /\ f[i-1] \in Seq(S) /\ seqs[i] \in Seq(S)
    BY <1>1, <1>4, <1>6, <2>1
  <2>3. Len(f[i-1]) \in Nat /\ Len(seqs[i]) \in Nat
    BY <2>2, LenProperties
  <2>. HIDE DEF off
  <2>. DEFINE a == f[i-1]
              b == seqs[i]
              c == f[i]
  <2>7. a \in Seq(S) /\ b \in Seq(S) /\ c = a \o b
    BY <2>2
  <2>8. Len(a) \in Nat /\ Len(b) \in Nat
    BY <2>3
  <2>. HIDE DEF a, b, c
  <2>9. /\ c \in Seq(S) /\ Len(c) = Len(a) + Len(b)
        /\ \A q \in 1..(Len(a) + Len(b)) : c[q] = IF q <= Len(a) THEN a[q] ELSE b[q - Len(a)]
    BY <2>7, ConcatProperties
  <2>4. /\ f[i] \in Seq(S) /\ Len(f[i]) = Len(f[i-1]) + Len(seqs[i])
        /\ \A q \in 1..(Len(f[i-1]) + Len(seqs[i])) :
             f[i][q] = IF q <= Len(f[i-1]) THEN f[i-1][q] ELSE seqs[i][q - Len(f[i-1])]
    BY <2>9 DEF a, b, c
  <2>. DEFINE L == Len(f[i-1])
  <2>10. /\ L \in Nat /\ off[i] = L /\ Len(f[i]) = L + Len(seqs[i])
         /\ \A q \in 1..(L + Len(seqs[i])) : f[i][q] = IF q <= L THEN f[i-1][q] ELSE seqs[i][q - L]
    BY <2>1, <2>3, <2>4
  <2>11. Len(f[i-1]) = L
    OBVIOUS
  <2>. HIDE DEF L
  <2>5. ASSUME NEW j \in 1..i, NEW k \in 1..Len(seqs[j])
        PROVE  off[j] \in Nat /\ off[j] + k \in 1..Len(f[i]) /\ f[i][off[j] + k] = seqs[j][k]
    <3>1. CASE j = i
      <4>1. off[j] + k \in 1..(L + Len(seqs[i])) /\ ~(off[j] + k <= L) /\ (off[j] + k) - L = k
        <5>. DEFINE o == off[j]
                    l == Len(seqs[i])
        <5>1. l \in Nat /\ L \in Nat /\ o = L /\ k \in 1..l
          BY <2>3, <2>10, <3>1
        <5>. HIDE DEF o, l
        <5>2. o + k \in 1..(L + l) /\ ~(o + k <= L) /\ (o + k) - L = k
          BY <5>1
        <5>. QED
          BY <5>2 DEF o, l
      <4>. QED
        BY <2>10, <3>1, <4>1
    <3>2. CASE j # i
      <4>1. j \in 1..(i-1)
        BY <3>2
      <4>2. off[j] \in Nat /\ off[j] + k \in 1..Len(f[i-1]) /\ f[i-1][off[j] + k] = seqs[j][k]
        BY <1>6, <4>1
      <4>3. off[j] + k \in 1..(L + Len(seqs[i])) /\ off[j] + k <= L
        <5>. DEFINE e == off[j] + k
                    l == Len(seqs[i])
        <5>1. l \in Nat /\ L \in Nat /\ e \in 1..L
          BY <2>3, <2>10, <2>11, <4>2
        <5>. HIDE DEF e, l
        <5>2. e \in 1..(L + l) /\ e <= L
          BY <5>1
        <5>. QED
          BY <5>2 DEF e, l
      <4>. QED
        BY <2>10, <4>2, <4>3
    <3>. QED
      BY <3>1, <3>2
  <2>6. ASSUME NEW q \in 1..Len(f[i])
        PROVE  \E j \in 1..i : \E k \in 1..Len(seqs[j]) : q = off[j] + k
    <3>1. CASE q <= L
      <4>1. q \in 1..Len(f[i-1])
        BY <2>10, <2>11, <3>1
      <4>2. PICK j \in 1..(i-1) : \E k \in 1..Len(seqs[j]) : q = off[j] + k
        BY <1>6, <4>1
      <4>. QED
        BY <4>2
    <3>2. CASE ~(q <= L)
      <4>1. q - L \in 1..Len(seqs[i]) /\ q = off[i] + (q - L) /\ i \in 1..i
        BY <2>3, <2>10, <3>2
      <4>. QED
        BY <4>1
    <3>. QED
      BY <3>1, <3>2
  <2>. QED
    BY <2>1, <2>4, <2>5, <2>6
<1>7. \A i \in 1..n : In(i)
  <2>. DEFINE Odd == {i \in 1..n : ~In(i)}
  <2>1. SUFFICES ASSUME Odd # {} PROVE FALSE
    OBVIOUS
  <2>. HIDE DEF In
  <2>2. PICK i \in Odd : \A m \in Odd : i <= m
    <3>1. Odd \subseteq Nat
      BY DEF Odd
    <3>. HIDE DEF Odd
    <3>. QED
      BY <2>1, <3>1, LeastNumber
  <2>3. i \in 1..n /\ ~In(i)
    BY <2>2
  <2>4. i # 1
    BY <2>3, <1>5
  <2>5. i \in 2..n /\ i - 1 \in 1..n
    BY <2>3, <2>4, <1>1
  <2>6. In(i - 1)
    <3>1. i - 1 \notin Odd
      <4>. HIDE DEF Odd
      <4>. QED
        BY <2>2, <2>5
    <3>. QED
      BY <3>1, <2>5
  <2>. QED
    BY <2>3, <2>5, <2>6, <1>6
<1>8. \A i \in 1..n : off[i] \in Nat
  <2>. TAKE i \in 1..n
  <2>1. CASE i = 1
    BY <2>1
  <2>2. CASE i # 1
    <3>1. i - 1 \in 1..n
      BY <1>1, <2>2
    <3>2. Len(f[i-1]) \in Nat
      BY <1>7, <3>1, LenProperties
    <3>. QED
      BY <2>2, <3>2
  <2>. QED
    BY <2>1, <2>2
<1>9. \A i \in 1..n : \/ off[i] + Len(seqs[i]) = Len(f[n])
                      \/ \E j \in 1..n : off[j] = off[i] + Len(seqs[i])
  <2>. TAKE i \in 1..n
  <2>1. Len(f[i]) = off[i] + Len(seqs[i])
    BY <1>7
  <2>2. CASE i = n
    BY <2>1, <2>2
  <2>3. CASE i # n
    <3>1. i + 1 \in 1..n /\ i + 1 # 1 /\ (i + 1) - 1 = i
      BY <1>1, <2>3
    <3>2. off[i+1] = Len(f[i])
      BY <3>1
    <3>. HIDE DEF off
    <3>. QED
      BY <2>1, <3>1, <3>2
  <2>. QED
    BY <2>2, <2>3
<1>10. Placed(f[n], seqs, off)
  <2>1. off \in [1..n -> Nat]
    BY <1>8
  <2>2. n \in 1..n /\ In(n)
    <3>. HIDE DEF n, In
    <3>. QED
      BY <1>1, <1>7
  <2>. HIDE DEF off
  <2>. QED
    BY <1>9, <2>1, <2>2 DEF Placed
<1>11. f[n] \in Seq(S)
  <2>1. n \in 1..n
    <3>. HIDE DEF n
    <3>. QED
      BY <1>1
  <2>. QED
    BY <1>7, <2>1
<1>. QED
  BY <1>3, <1>10, <1>11

-----------------------------------------------------------------------------
(* Markers and words.                                                      *)

\* What a text is made of.
Token == [tag : {"row", "fld", "words"}, of : Nat, field : 0..3]

\* The three tokens.
LEMMA TokensTyped ==
    ASSUME NEW n \in Nat, NEW f \in 1..3
    PROVE  /\ Row(n) \in Token /\ Row(n).tag = "row" /\ Row(n).of = n
           /\ Fld \in Token /\ Fld.tag = "fld"
           /\ Words(n, f) \in Token /\ Words(n, f).tag = "words" /\ Words(n, f).of = n
  BY DEF Row, Fld, Words, Token

\* The words of field f of the row at p, when the fields in F, some of the three,
\* have words.
Text(F, p, f) == Texts(F, p)[f]
Has(F, f) == f \in F
FieldSets == SUBSET (1..3)

\* What came back of a row is of its fields.
LEMMA KeptTyped ==
    ASSUME NEW kind \in Kinds, NEW copies, NEW i
    PROVE  Kept(kind, copies, i) \in FieldSets
  BY DEF Kept, Kinds, FieldsOf, FieldSets

\* A field is empty or one token.
LEMMA TextTyped ==
    ASSUME NEW F \in FieldSets, NEW p \in Nat, NEW f \in 1..3
    PROVE  /\ Text(F, p, f) \in Seq(Token)
           /\ Text(F, p, f) = IF Has(F, f) THEN <<Words(p, f)>> ELSE <<>>
           /\ Len(Text(F, p, f)) = IF Has(F, f) THEN 1 ELSE 0
           /\ \A k \in 1..Len(Text(F, p, f)) : Text(F, p, f)[k] = Words(p, f)
<1>1. Words(p, f) \in Token
  BY TokensTyped
<1>2. CASE Has(F, f)
  <2>1. Text(F, p, f) = <<Words(p, f)>>
    BY <1>2 DEF Has, Text, Texts
  <2>. QED
    BY <1>1, <1>2, <2>1
<1>3. CASE ~Has(F, f)
  <2>1. Text(F, p, f) = <<>>
    BY <1>3 DEF Has, Text, Texts
  <2>. QED
    BY <1>3, <2>1
<1>. QED
  BY <1>2, <1>3

\* The copies of a token.
LEMMA TimesTyped ==
    ASSUME NEW n \in Nat, NEW token \in Token
    PROVE  /\ Times(n, token) \in Seq(Token) /\ Len(Times(n, token)) = n
           /\ \A k \in 1..n : Times(n, token)[k] = token
  BY DEF Times

\* The part of the answer for row i of a chunk, with the fields in F.
Part(F, p, i, c0, c1, c2) ==
    Times(c0, Row(i)) \o Text(F, p, 1) \o Times(c1, Fld) \o Text(F, p, 2)
      \o Times(c2, Fld) \o Text(F, p, 3)

\* The first c0 tokens are the row's marker, the others are none, and their
\* words are the row's own.
Marked(x, p, i, c0) ==
    /\ x \in Seq(Token) /\ Len(x) >= c0
    /\ \A k \in 1..Len(x) :
         /\ k <= c0 => x[k] = Row(i)
         /\ k > c0 => x[k].tag # "row" /\ (x[k].tag = "words" => x[k].of = p)

\* No ROW marker, and no other row's words.
Unmarked(y, p) ==
    /\ y \in Seq(Token)
    /\ \A k \in 1..Len(y) : y[k].tag # "row" /\ (y[k].tag = "words" => y[k].of = p)

\* What follows a marked text without a marker of its own leaves it marked.
LEMMA MarkedOn ==
    ASSUME NEW p \in Nat, NEW i \in Nat, NEW c0 \in Nat, NEW x, Marked(x, p, i, c0),
           NEW y, Unmarked(y, p), NEW z, z = x \o y
    PROVE  /\ Len(x) \in Nat /\ Len(y) \in Nat
           /\ Marked(z, p, i, c0)
           /\ Len(z) = Len(x) + Len(y)
           /\ \A k \in 1..Len(x) : z[k] = x[k]
           /\ \A k \in 1..Len(y) : z[Len(x) + k] = y[k]
<1>1. x \in Seq(Token) /\ y \in Seq(Token) /\ Len(x) \in Nat /\ Len(y) \in Nat /\ Len(x) >= c0
  BY LenProperties DEF Marked, Unmarked
<1>2. /\ z \in Seq(Token) /\ Len(z) = Len(x) + Len(y)
      /\ \A k \in 1..(Len(x) + Len(y)) : z[k] = IF k <= Len(x) THEN x[k] ELSE y[k - Len(x)]
  BY <1>1, ConcatProperties
<1>3. \A k \in 1..Len(x) : z[k] = x[k]
  <2>. TAKE k \in 1..Len(x)
  <2>1. k \in 1..(Len(x) + Len(y)) /\ k <= Len(x)
    BY <1>1
  <2>. QED
    BY <1>2, <2>1
<1>4. \A k \in 1..Len(y) : z[Len(x) + k] = y[k]
  <2>. TAKE k \in 1..Len(y)
  <2>1. Len(x) + k \in 1..(Len(x) + Len(y)) /\ ~(Len(x) + k <= Len(x)) /\ (Len(x) + k) - Len(x) = k
    BY <1>1
  <2>. QED
    BY <1>2, <2>1
<1>5. ASSUME NEW k \in 1..Len(z)
      PROVE  /\ k <= c0 => z[k] = Row(i)
             /\ k > c0 => z[k].tag # "row" /\ (z[k].tag = "words" => z[k].of = p)
  <2>1. CASE k <= Len(x)
    <3>1. k \in 1..Len(x)
      BY <1>1, <2>1
    <3>. QED
      BY <1>3, <3>1 DEF Marked
  <2>2. CASE ~(k <= Len(x))
    <3>1. k - Len(x) \in 1..Len(y) /\ Len(x) + (k - Len(x)) = k /\ ~(k <= c0)
      BY <1>1, <1>2, <2>2
    <3>2. z[k] = y[k - Len(x)]
      BY <1>4, <3>1
    <3>. QED
      BY <3>1, <3>2 DEF Unmarked
  <2>. QED
    BY <2>1, <2>2
<1>6. Marked(z, p, i, c0)
  BY <1>1, <1>2, <1>5 DEF Marked
<1>. QED
  BY <1>1, <1>2, <1>3, <1>4, <1>6

\* A part with each marker once.
Whole(x, i, t1, t2, t3) ==
    /\ Len(x) = Len(t1) + Len(t2) + Len(t3) + 3 /\ x[1] = Row(i)
    /\ \A k \in 1..Len(t1) : x[1 + k] = t1[k]
    /\ x[Len(t1) + 2] = Fld
    /\ \A k \in 1..Len(t2) : x[Len(t1) + 2 + k] = t2[k]
    /\ x[Len(t1) + Len(t2) + 3] = Fld
    /\ \A k \in 1..Len(t3) : x[Len(t1) + Len(t2) + 3 + k] = t3[k]

\* What a part is, whatever was done to its markers; what it is exactly, when
\* nothing was done to them.
LEMMA PartIs ==
    ASSUME NEW F \in FieldSets, NEW p \in Nat, NEW i \in Nat,
           NEW c0 \in Nat, NEW c1 \in Nat, NEW c2 \in Nat,
           NEW x, x = Part(F, p, i, c0, c1, c2)
    PROVE  /\ Marked(x, p, i, c0)
           /\ Has(F, 1) => Len(x) >= c0 + 1 /\ x[c0 + 1] = Words(p, 1)
           /\ c0 = 1 /\ c1 = 1 /\ c2 = 1 =>
                Whole(x, i, Text(F, p, 1), Text(F, p, 2), Text(F, p, 3))
<1>. DEFINE t1 == Text(F, p, 1)
            t2 == Text(F, p, 2)
            t3 == Text(F, p, 3)
            f1 == Times(c1, Fld)
            f2 == Times(c2, Fld)
            x0 == Times(c0, Row(i))
            x1 == x0 \o t1
            x2 == x1 \o f1
            x3 == x2 \o t2
            x4 == x3 \o f2
            x5 == x4 \o t3
<1>1. Unmarked(t1, p) /\ Unmarked(t2, p) /\ Unmarked(t3, p) /\ Len(t1) \in Nat /\ Len(t2) \in Nat /\ Len(t3) \in Nat
  <2>1. ASSUME NEW f \in 1..3 PROVE Unmarked(Text(F, p, f), p) /\ Len(Text(F, p, f)) \in Nat
    <3>1. /\ Text(F, p, f) \in Seq(Token) /\ Len(Text(F, p, f)) \in Nat
          /\ \A k \in 1..Len(Text(F, p, f)) : Text(F, p, f)[k] = Words(p, f)
      BY TextTyped, LenProperties
    <3>2. Words(p, f).tag # "row" /\ Words(p, f).of = p
      BY DEF Words
    <3>. QED
      BY <3>1, <3>2 DEF Unmarked
  <2>. QED
    BY <2>1
<1>2. Unmarked(f1, p) /\ Unmarked(f2, p) /\ Len(f1) = c1 /\ Len(f2) = c2
      /\ (\A k \in 1..c1 : f1[k] = Fld) /\ \A k \in 1..c2 : f2[k] = Fld
  <2>1. ASSUME NEW c \in Nat
        PROVE  Unmarked(Times(c, Fld), p) /\ Len(Times(c, Fld)) = c /\ \A k \in 1..c : Times(c, Fld)[k] = Fld
    <3>1. c \in Nat /\ Fld \in Token /\ Fld.tag = "fld"
      BY TokensTyped, 0 \in Nat, 1 \in 1..3
    <3>2. Times(c, Fld) \in Seq(Token) /\ Len(Times(c, Fld)) = c /\ \A k \in 1..c : Times(c, Fld)[k] = Fld
      BY <3>1, TimesTyped
    <3>. QED
      BY <3>1, <3>2 DEF Unmarked
  <2>. QED
    BY <2>1
<1>3. Marked(x0, p, i, c0) /\ Len(x0) = c0 /\ \A k \in 1..c0 : x0[k] = Row(i)
  <2>1. c0 \in Nat /\ Row(i) \in Token
    BY TokensTyped, 1 \in 1..3
  <2>2. x0 \in Seq(Token) /\ Len(x0) = c0 /\ \A k \in 1..c0 : x0[k] = Row(i)
    BY <2>1, TimesTyped
  <2>. QED
    BY <2>1, <2>2 DEF Marked
<1>4. c0 \in Nat
  OBVIOUS
<1>. HIDE DEF t1, t2, t3, f1, f2, x0
<1>5. /\ Marked(x1, p, i, c0) /\ Len(x1) = c0 + Len(t1)
      /\ \A k \in 1..Len(x0) : x1[k] = x0[k]
      /\ \A k \in 1..Len(t1) : x1[c0 + k] = t1[k]
  <2>1. x1 = x0 \o t1
    OBVIOUS
  <2>. HIDE DEF x1
  <2>2. Marked(x0, p, i, c0) /\ Unmarked(t1, p)
    BY <1>1, <1>3
  <2>3. Marked(x1, p, i, c0)
    BY <1>4, <2>1, <2>2, MarkedOn
  <2>4. Len(x1) = Len(x0) + Len(t1)
    BY <1>4, <2>1, <2>2, MarkedOn
  <2>5. \A k \in 1..Len(x0) : x1[k] = x0[k]
    BY <1>4, <2>1, <2>2, MarkedOn
  <2>6. \A k \in 1..Len(t1) : x1[Len(x0) + k] = t1[k]
    BY <1>4, <2>1, <2>2, MarkedOn
  <2>. QED
    BY <1>1, <1>3, <2>3, <2>4, <2>5, <2>6
<1>. HIDE DEF x1
<1>6. /\ Marked(x2, p, i, c0) /\ Len(x2) = c0 + Len(t1) + c1
      /\ \A k \in 1..Len(x1) : x2[k] = x1[k]
      /\ \A k \in 1..Len(f1) : x2[c0 + Len(t1) + k] = f1[k]
  <2>1. x2 = x1 \o f1
    OBVIOUS
  <2>. HIDE DEF x2
  <2>2. Marked(x1, p, i, c0) /\ Unmarked(f1, p)
    BY <1>2, <1>5
  <2>3. Marked(x2, p, i, c0)
    BY <1>4, <2>1, <2>2, MarkedOn
  <2>4. Len(x2) = Len(x1) + Len(f1)
    BY <1>4, <2>1, <2>2, MarkedOn
  <2>5. \A k \in 1..Len(x1) : x2[k] = x1[k]
    BY <1>4, <2>1, <2>2, MarkedOn
  <2>6. \A k \in 1..Len(f1) : x2[Len(x1) + k] = f1[k]
    BY <1>4, <2>1, <2>2, MarkedOn
  <2>. QED
    BY <1>2, <1>5, <2>3, <2>4, <2>5, <2>6
<1>. HIDE DEF x2
<1>7. /\ Marked(x3, p, i, c0) /\ Len(x3) = c0 + Len(t1) + c1 + Len(t2)
      /\ \A k \in 1..Len(x2) : x3[k] = x2[k]
      /\ \A k \in 1..Len(t2) : x3[c0 + Len(t1) + c1 + k] = t2[k]
  <2>1. x3 = x2 \o t2
    OBVIOUS
  <2>. HIDE DEF x3
  <2>2. Marked(x2, p, i, c0) /\ Unmarked(t2, p)
    BY <1>1, <1>6
  <2>3. Marked(x3, p, i, c0)
    BY <1>4, <2>1, <2>2, MarkedOn
  <2>4. Len(x3) = Len(x2) + Len(t2)
    BY <1>4, <2>1, <2>2, MarkedOn
  <2>5. \A k \in 1..Len(x2) : x3[k] = x2[k]
    BY <1>4, <2>1, <2>2, MarkedOn
  <2>6. \A k \in 1..Len(t2) : x3[Len(x2) + k] = t2[k]
    BY <1>4, <2>1, <2>2, MarkedOn
  <2>. QED
    BY <1>1, <1>6, <2>3, <2>4, <2>5, <2>6
<1>. HIDE DEF x3
<1>8. /\ Marked(x4, p, i, c0) /\ Len(x4) = c0 + Len(t1) + c1 + Len(t2) + c2
      /\ \A k \in 1..Len(x3) : x4[k] = x3[k]
      /\ \A k \in 1..Len(f2) : x4[c0 + Len(t1) + c1 + Len(t2) + k] = f2[k]
  <2>1. x4 = x3 \o f2
    OBVIOUS
  <2>. HIDE DEF x4
  <2>2. Marked(x3, p, i, c0) /\ Unmarked(f2, p)
    BY <1>2, <1>7
  <2>3. Marked(x4, p, i, c0)
    BY <1>4, <2>1, <2>2, MarkedOn
  <2>4. Len(x4) = Len(x3) + Len(f2)
    BY <1>4, <2>1, <2>2, MarkedOn
  <2>5. \A k \in 1..Len(x3) : x4[k] = x3[k]
    BY <1>4, <2>1, <2>2, MarkedOn
  <2>6. \A k \in 1..Len(f2) : x4[Len(x3) + k] = f2[k]
    BY <1>4, <2>1, <2>2, MarkedOn
  <2>. QED
    BY <1>2, <1>7, <2>3, <2>4, <2>5, <2>6
<1>. HIDE DEF x4
<1>9. /\ Marked(x5, p, i, c0) /\ Len(x5) = c0 + Len(t1) + c1 + Len(t2) + c2 + Len(t3)
      /\ \A k \in 1..Len(x4) : x5[k] = x4[k]
      /\ \A k \in 1..Len(t3) : x5[c0 + Len(t1) + c1 + Len(t2) + c2 + k] = t3[k]
  <2>1. x5 = x4 \o t3
    OBVIOUS
  <2>. HIDE DEF x5
  <2>2. Marked(x4, p, i, c0) /\ Unmarked(t3, p)
    BY <1>1, <1>8
  <2>3. Marked(x5, p, i, c0)
    BY <1>4, <2>1, <2>2, MarkedOn
  <2>4. Len(x5) = Len(x4) + Len(t3)
    BY <1>4, <2>1, <2>2, MarkedOn
  <2>5. \A k \in 1..Len(x4) : x5[k] = x4[k]
    BY <1>4, <2>1, <2>2, MarkedOn
  <2>6. \A k \in 1..Len(t3) : x5[Len(x4) + k] = t3[k]
    BY <1>4, <2>1, <2>2, MarkedOn
  <2>. QED
    BY <1>1, <1>8, <2>3, <2>4, <2>5, <2>6
<1>10. Part(F, p, i, c0, c1, c2) = x5
  BY DEF Part, x0, x1, x2, x3, x4, t1, t2, t3, f1, f2
<1>. HIDE DEF x5
<1>11. \A k \in 1..Len(t1) : x5[c0 + k] = t1[k]
  <2>. TAKE k \in 1..Len(t1)
  <2>1. c0 + k \in 1..Len(x1) /\ c0 + k \in 1..Len(x2) /\ c0 + k \in 1..Len(x3) /\ c0 + k \in 1..Len(x4)
    <3>1. Len(x1) = c0 + Len(t1) /\ k \in Nat /\ k >= 1 /\ k <= Len(t1)
      BY <1>1, <1>5
    <3>2. Len(x2) = Len(x1) + c1
      BY <1>1, <1>2, <1>5, <1>6
    <3>3. Len(x3) = Len(x2) + Len(t2)
      BY <1>1, <1>2, <1>6, <1>7
    <3>4. Len(x4) = Len(x3) + c2
      BY <1>1, <1>2, <1>7, <1>8
    <3>5. Len(t1) \in Nat /\ Len(t2) \in Nat
      BY <1>1
    <3>. QED
      BY <3>1, <3>2, <3>3, <3>4, <3>5
  <2>. DEFINE q == c0 + k
  <2>2. q \in 1..Len(x1) /\ q \in 1..Len(x2) /\ q \in 1..Len(x3) /\ q \in 1..Len(x4)
    BY <2>1
  <2>3. x1[q] = t1[k]
    BY <1>5
  <2>. HIDE DEF q
  <2>4. x2[q] = x1[q] /\ x3[q] = x2[q]
    BY <1>6, <1>7, <2>2
  <2>5. x4[q] = x3[q] /\ x5[q] = x4[q]
    BY <1>8, <1>9, <2>2
  <2>6. x5[q] = t1[k]
    BY <2>3, <2>4, <2>5
  <2>. QED
    BY <2>6 DEF q
<1>12. Has(F, 1) => Len(x5) >= c0 + 1 /\ x5[c0 + 1] = Words(p, 1)
  <2>. SUFFICES ASSUME Has(F, 1) PROVE Len(x5) >= c0 + 1 /\ x5[c0 + 1] = Words(p, 1)
    OBVIOUS
  <2>1. Len(t1) = 1 /\ t1[1] = Words(p, 1)
    BY TextTyped, 1 \in 1..3, 1 \in 1..1 DEF t1
  <2>2. 1 \in 1..Len(t1)
    BY <2>1
  <2>. QED
    BY <1>1, <1>9, <1>11, <2>1, <2>2
<1>13. ASSUME c0 = 1, c1 = 1, c2 = 1
       PROVE  Whole(x5, i, t1, t2, t3)
  <2>. DEFINE l1 == Len(t1)
              l2 == Len(t2)
              l3 == Len(t3)
  <2>1. l1 \in Nat /\ l2 \in Nat /\ l3 \in Nat
    BY <1>1
  <2>2. Len(x0) = 1 /\ Len(x1) = 1 + l1 /\ Len(x2) = 2 + l1 /\ Len(x3) = 2 + l1 + l2
        /\ Len(x4) = 3 + l1 + l2 /\ Len(x5) = 3 + l1 + l2 + l3
    BY <1>3, <1>5, <1>6, <1>7, <1>8, <1>9, <1>13, <2>1
  <2>3. f1[1] = Fld /\ f2[1] = Fld /\ x0[1] = Row(i) /\ Len(f1) = 1 /\ Len(f2) = 1
    BY <1>2, <1>3, <1>13
  <2>4. x2[l1 + 2] = Fld
    <3>1. 1 + l1 + 1 = l1 + 2 /\ 1 \in 1..Len(f1) /\ c0 + Len(t1) + 1 = 1 + l1 + 1
      BY <2>1, <2>3, <1>13
    <3>. QED
      BY <1>6, <2>3, <3>1
  <2>5. x4[l1 + l2 + 3] = Fld
    <3>1. 1 \in 1..Len(f2) /\ c0 + Len(t1) + c1 + Len(t2) + 1 = l1 + l2 + 3
      BY <2>1, <2>3, <1>13
    <3>. QED
      BY <1>8, <2>3, <3>1
  <2>6. x5[1] = Row(i)
    <3>1. 1 \in 1..Len(x0) /\ 1 \in 1..Len(x1) /\ 1 \in 1..Len(x2) /\ 1 \in 1..Len(x3) /\ 1 \in 1..Len(x4)
      BY <2>1, <2>2
    <3>2. x1[1] = Row(i)
      BY <1>5, <2>3, <3>1
    <3>3. x2[1] = x1[1] /\ x3[1] = x2[1]
      BY <1>6, <1>7, <3>1
    <3>4. x4[1] = x3[1] /\ x5[1] = x4[1]
      BY <1>8, <1>9, <3>1
    <3>. QED
      BY <3>2, <3>3, <3>4
  <2>7. x5[l1 + 2] = Fld
    <3>1. l1 + 2 \in 1..Len(x2) /\ l1 + 2 \in 1..Len(x3) /\ l1 + 2 \in 1..Len(x4)
      BY <2>1, <2>2
    <3>. QED
      BY <1>7, <1>8, <1>9, <2>4, <3>1
  <2>8. x5[l1 + l2 + 3] = Fld
    <3>1. l1 + l2 + 3 \in 1..Len(x4)
      BY <2>1, <2>2
    <3>. QED
      BY <1>9, <2>5, <3>1
  <2>9. \A k \in 1..l2 : x5[l1 + 2 + k] = t2[k]
    <3>. TAKE k \in 1..l2
    <3>1. l1 + 2 + k \in 1..Len(x3) /\ l1 + 2 + k \in 1..Len(x4) /\ c0 + Len(t1) + c1 + k = l1 + 2 + k
      BY <2>1, <2>2, <1>13
    <3>. QED
      BY <1>7, <1>8, <1>9, <3>1
  <2>10. \A k \in 1..l3 : x5[l1 + l2 + 3 + k] = t3[k]
    <3>. TAKE k \in 1..l3
    <3>1. c0 + Len(t1) + c1 + Len(t2) + c2 + k = l1 + l2 + 3 + k
      BY <2>1, <1>13
    <3>. QED
      BY <1>9, <3>1
  <2>. QED
    BY <1>11, <1>13, <2>1, <2>2, <2>6, <2>7, <2>8, <2>9, <2>10 DEF Whole
<1>14. x = x5
  BY <1>10
<1>15. Marked(x, p, i, c0)
  BY <1>9, <1>14
<1>16. Has(F, 1) => Len(x) >= c0 + 1 /\ x[c0 + 1] = Words(p, 1)
  BY <1>12, <1>14
<1>. QED
  BY <1>13, <1>14, <1>15, <1>16 DEF t1, t2, t3

\* The last field of a kind of row is one of the three.
LEMMA LastField ==
    ASSUME NEW kind \in Kinds
    PROVE  Max(FieldsOf(kind)) \in 1..3
<1>1. FieldsOf(kind) \subseteq 0..3 /\ FieldsOf(kind) # {} /\ FieldsOf(kind) \subseteq 1..3
  BY DEF Kinds, FieldsOf
<1>. QED
  BY <1>1, MaxIsGreatest

-----------------------------------------------------------------------------
(* _decode_chunk on any text.                                              *)

\* The positions of a tag.
LEMMA FoundIs ==
    ASSUME NEW s \in Seq(Token), NEW tag
    PROVE  /\ Len(s) \in Nat
           /\ Found(s, tag) = {q \in 1..Len(s) : s[q].tag = tag}
           /\ IsFiniteSet(Found(s, tag))
<1>1. Len(s) \in Nat /\ DOMAIN s = 1..Len(s)
  BY LenProperties
<1>2. Found(s, tag) = {q \in 1..Len(s) : s[q].tag = tag}
  BY <1>1 DEF Found
<1>3. IsFiniteSet(1..Len(s))
  BY <1>1, FS_Interval
<1>. QED
  BY <1>1, <1>2, <1>3, FS_Subset

\* A finite set has two members if it has one besides any other.
LEMMA TwoOrMore ==
    ASSUME NEW S, IsFiniteSet(S)
    PROVE  /\ \A x, y \in S : x # y => Cardinality(S) >= 2
           /\ Cardinality(S) >= 2 => \A x : \E y \in S : y # x
<1>1. ASSUME NEW x \in S, NEW y \in S, x # y PROVE Cardinality(S) >= 2
  <2>1. IsFiniteSet(S \ {x}) /\ Cardinality(S \ {x}) = Cardinality(S) - 1
    BY FS_RemoveElement
  <2>2. Cardinality(S \ {x}) \in Nat /\ Cardinality(S) \in Nat
    BY <2>1, FS_CardinalityType
  <2>3. Cardinality(S \ {x}) # 0
    BY <1>1, <2>1, FS_EmptySet
  <2>. QED
    BY <2>1, <2>2, <2>3
<1>2. ASSUME Cardinality(S) >= 2, NEW x PROVE \E y \in S : y # x
  <2>1. SUFFICES ASSUME \A y \in S : y = x PROVE FALSE
    OBVIOUS
  <2>2. S = {} \/ S = {x}
    BY <2>1
  <2>3. Cardinality({}) = 0 /\ Cardinality({x}) = 1
    BY FS_EmptySet, FS_Singleton
  <2>4. Cardinality(S) = 0 \/ Cardinality(S) = 1
    BY <2>2, <2>3
  <2>. QED
    BY <1>2, <2>4
<1>. QED
  BY <1>1, <1>2

\* A body goes from its marker to the next one.
LEMMA BodyIs ==
    ASSUME NEW s \in Seq(Token), NEW p \in 1..Len(s)
    PROVE  \E e \in (p + 1)..(Len(s) + 1) :
              /\ Body(s, p) \in Seq(Token) /\ Len(Body(s, p)) = e - 1 - p
              /\ \A k \in 1..(e - 1 - p) : Body(s, p)[k] = s[p + k]
              /\ \A q \in (p + 1)..(e - 1) : s[q].tag # "row"
              /\ e = Len(s) + 1 \/ (e \in 1..Len(s) /\ s[e].tag = "row")
<1>. DEFINE T == {q \in Found(s, "row") : q > p} \cup {Len(s) + 1}
            e == Min(T)
<1>1. Len(s) \in Nat /\ Found(s, "row") = {q \in 1..Len(s) : s[q].tag = "row"}
  BY FoundIs
<1>2. T \subseteq Nat /\ T # {}
  BY <1>1
<1>3. e \in T /\ \A m \in T : e <= m
  <2>. HIDE DEF T
  <2>. QED
    BY <1>2, MinIsLeast
<1>4. e \in (p + 1)..(Len(s) + 1) /\ (e = Len(s) + 1 \/ (e \in 1..Len(s) /\ s[e].tag = "row"))
  <2>. HIDE DEF e
  <2>. QED
    BY <1>1, <1>3
<1>. HIDE DEF e
<1>5. \A q \in (p + 1)..(e - 1) : s[q].tag # "row"
  <2>. SUFFICES ASSUME NEW q \in (p + 1)..(e - 1), s[q].tag = "row" PROVE FALSE
    OBVIOUS
  <2>1. q \in 1..Len(s) /\ q > p /\ q < e /\ q \in Nat /\ e \in Nat
    BY <1>1, <1>4
  <2>2. q \in T
    BY <1>1, <2>1
  <2>. HIDE DEF T
  <2>. QED
    BY <1>3, <2>1, <2>2
<1>6. Body(s, p) = SubSeq(s, p + 1, e - 1)
  BY DEF Body, e
<1>7. \A k \in (p + 1)..(e - 1) : s[k] \in Token
  <2>. TAKE k \in (p + 1)..(e - 1)
  <2>1. k \in 1..Len(s)
    BY <1>1, <1>4
  <2>. QED
    BY <2>1, ElementOfSeq
<1>8. p + 1 \in Int /\ e - 1 \in Int /\ e - 1 >= p /\ p \in Nat
  BY <1>1, <1>4
<1>9. /\ SubSeq(s, p + 1, e - 1) \in Seq(Token)
      /\ Len(SubSeq(s, p + 1, e - 1)) = IF p + 1 <= e - 1 THEN (e - 1) - (p + 1) + 1 ELSE 0
      /\ \A k \in 1..((e - 1) - (p + 1) + 1) : SubSeq(s, p + 1, e - 1)[k] = s[(p + 1) + k - 1]
  BY <1>7, <1>8, SubSeqProperties
<1>10. (e - 1) - (p + 1) + 1 = e - 1 - p /\ \A k \in 1..(e - 1 - p) : (p + 1) + k - 1 = p + k
  BY <1>8, <1>4
<1>11. Len(Body(s, p)) = e - 1 - p
  BY <1>4, <1>6, <1>8, <1>9
<1>12. \A k \in 1..(e - 1 - p) : Body(s, p)[k] = s[p + k]
  BY <1>6, <1>9, <1>10
<1>. QED
  BY <1>4, <1>5, <1>6, <1>9, <1>11, <1>12

\* Two separators cut a body in three.
LEMMA SplitIs ==
    ASSUME NEW b \in Seq(Token), Cardinality(Found(b, "fld")) >= 2
    PROVE  \E u \in 1..Len(b) : \E v \in 1..Len(b) :
              /\ u < v /\ b[u].tag = "fld" /\ b[v].tag = "fld"
              /\ \A q \in 1..(v - 1) : q # u => b[q].tag # "fld"
              /\ Split(b) = <<SubSeq(b, 1, u - 1), SubSeq(b, u + 1, v - 1), SubSeq(b, v + 1, Len(b))>>
<1>. DEFINE F == Found(b, "fld")
            u == Min(F)
            v == Min(F \ {u})
<1>1. Len(b) \in Nat /\ F = {q \in 1..Len(b) : b[q].tag = "fld"} /\ IsFiniteSet(F)
  BY FoundIs
<1>2. F \subseteq Nat
  BY <1>1
<1>. HIDE DEF F
<1>3. F # {} /\ \A x : F \ {x} # {}
  BY <1>1, TwoOrMore DEF F
<1>4. u \in F /\ \A m \in F : u <= m
  BY <1>2, <1>3, MinIsLeast
<1>. HIDE DEF u
<1>5. v \in F \ {u} /\ \A m \in F \ {u} : v <= m
  <2>1. F \ {u} \subseteq Nat /\ F \ {u} # {}
    BY <1>2, <1>3
  <2>. QED
    BY <2>1, MinIsLeast
<1>6. Split(b) = <<SubSeq(b, 1, u - 1), SubSeq(b, u + 1, v - 1), SubSeq(b, v + 1, Len(b))>>
  BY DEF Split, u, F
<1>. HIDE DEF v
<1>7. u \in 1..Len(b) /\ v \in 1..Len(b) /\ u < v /\ b[u].tag = "fld" /\ b[v].tag = "fld"
  BY <1>1, <1>4, <1>5
<1>8. \A q \in 1..(v - 1) : q # u => b[q].tag # "fld"
  <2>. SUFFICES ASSUME NEW q \in 1..(v - 1), q # u, b[q].tag = "fld" PROVE FALSE
    OBVIOUS
  <2>1. q \in 1..Len(b) /\ q < v /\ q \in Nat /\ v \in Nat
    BY <1>1, <1>7
  <2>2. q \in F \ {u}
    BY <1>1, <2>1
  <2>. QED
    BY <1>5, <2>1, <2>2
<1>. QED
  BY <1>6, <1>7, <1>8

\* A piece of a text is made of its tokens.
LEMMA PieceOf ==
    ASSUME NEW b \in Seq(Token), NEW m \in 1..(Len(b) + 1), NEW n \in 0..Len(b)
    PROVE  /\ SubSeq(b, m, n) \in Seq(Token)
           /\ Len(SubSeq(b, m, n)) = IF m <= n THEN n - m + 1 ELSE 0
           /\ \A k \in 1..(n - m + 1) : SubSeq(b, m, n)[k] = b[m + k - 1]
           /\ \A token \in ToSet(SubSeq(b, m, n)) : \E k \in 1..Len(b) : token = b[k]
<1>1. Len(b) \in Nat
  BY LenProperties
<1>2. \A k \in m..n : b[k] \in Token
  <2>. TAKE k \in m..n
  <2>1. k \in 1..Len(b)
    BY <1>1
  <2>. QED
    BY <2>1, ElementOfSeq
<1>3. m \in Int /\ n \in Int
  BY <1>1
<1>4. /\ SubSeq(b, m, n) \in Seq(Token)
      /\ Len(SubSeq(b, m, n)) = IF m <= n THEN n - m + 1 ELSE 0
      /\ \A k \in 1..(n - m + 1) : SubSeq(b, m, n)[k] = b[m + k - 1]
  BY <1>2, <1>3, SubSeqProperties
<1>5. ASSUME NEW token \in ToSet(SubSeq(b, m, n)) PROVE \E k \in 1..Len(b) : token = b[k]
  <2>. DEFINE x == SubSeq(b, m, n)
  <2>1. DOMAIN x = 1..Len(x)
    BY <1>4, LenProperties
  <2>. HIDE DEF x
  <2>2. PICK i \in 1..Len(x) : token = x[i]
    BY <1>5, <2>1 DEF ToSet, x
  <2>3. i \in 1..(n - m + 1) /\ m + i - 1 \in 1..Len(b)
    BY <1>1, <1>3, <1>4 DEF x
  <2>4. token = b[m + i - 1]
    BY <1>4, <2>2, <2>3 DEF x
  <2>. QED
    BY <2>3, <2>4
<1>. QED
  BY <1>4, <1>5

\* The fields have only tokens of the body, and the first one has what is
\* before the first separator.
LEMMA SplitKeeps ==
    ASSUME NEW b \in Seq(Token), Cardinality(Found(b, "fld")) >= 2
    PROVE  /\ DOMAIN Split(b) = 1..3
           /\ \A f \in 1..3 : \A token \in ToSet(Split(b)[f]) : \E k \in 1..Len(b) : token = b[k]
           /\ b[1].tag # "fld" => Split(b)[1] # <<>>
<1>1. PICK u \in 1..Len(b), v \in 1..Len(b) :
         /\ u < v /\ b[u].tag = "fld" /\ b[v].tag = "fld"
         /\ Split(b) = <<SubSeq(b, 1, u - 1), SubSeq(b, u + 1, v - 1), SubSeq(b, v + 1, Len(b))>>
  BY SplitIs
<1>2. Len(b) \in Nat
  BY LenProperties
<1>3. /\ 1 \in 1..(Len(b) + 1) /\ u + 1 \in 1..(Len(b) + 1) /\ v + 1 \in 1..(Len(b) + 1)
      /\ u - 1 \in 0..Len(b) /\ v - 1 \in 0..Len(b) /\ Len(b) \in 0..Len(b)
  BY <1>1, <1>2
<1>4. /\ Split(b)[1] = SubSeq(b, 1, u - 1) /\ Split(b)[2] = SubSeq(b, u + 1, v - 1)
      /\ Split(b)[3] = SubSeq(b, v + 1, Len(b)) /\ DOMAIN Split(b) = 1..3
  <2>. DEFINE s == Split(b)
              x == SubSeq(b, 1, u - 1)
              y == SubSeq(b, u + 1, v - 1)
              z == SubSeq(b, v + 1, Len(b))
  <2>1. s = <<x, y, z>>
    BY <1>1
  <2>. HIDE DEF s, x, y, z
  <2>2. s[1] = x /\ s[2] = y /\ s[3] = z /\ DOMAIN s = 1..3
    BY <2>1
  <2>. QED
    BY <2>2 DEF s, x, y, z
<1>5. ASSUME NEW f \in 1..3, NEW token \in ToSet(Split(b)[f]) PROVE \E k \in 1..Len(b) : token = b[k]
  <2>1. CASE f = 1
    <3>1. token \in ToSet(SubSeq(b, 1, u - 1))
      BY <1>4, <1>5, <2>1
    <3>. QED
      BY <1>3, <3>1, PieceOf
  <2>2. CASE f = 2
    <3>1. token \in ToSet(SubSeq(b, u + 1, v - 1))
      BY <1>4, <1>5, <2>2
    <3>. QED
      BY <1>3, <3>1, PieceOf
  <2>3. CASE f = 3
    <3>1. token \in ToSet(SubSeq(b, v + 1, Len(b)))
      BY <1>4, <1>5, <2>3
    <3>. QED
      BY <1>3, <3>1, PieceOf
  <2>. QED
    BY <2>1, <2>2, <2>3
<1>6. ASSUME b[1].tag # "fld" PROVE Split(b)[1] # <<>>
  <2>1. u # 1
    BY <1>1, <1>6
  <2>2. Len(SubSeq(b, 1, u - 1)) = u - 1
    <3>1. 1 <= u - 1 /\ (u - 1) - 1 + 1 = u - 1
      BY <1>2, <2>1
    <3>2. Len(SubSeq(b, 1, u - 1)) = IF 1 <= u - 1 THEN (u - 1) - 1 + 1 ELSE 0
      BY <1>3, PieceOf
    <3>. QED
      BY <3>1, <3>2
  <2>3. SubSeq(b, 1, u - 1) # <<>>
    <3>1. Len(<<>>) = 0
      OBVIOUS
    <3>2. u - 1 # 0
      BY <1>2, <2>1
    <3>. QED
      BY <2>2, <3>1, <3>2, Zenon
  <2>. QED
    BY <1>4, <2>3
<1>. QED
  BY <1>4, <1>5, <1>6

\* A body that is three texts with a separator between each two of them; the
\* first two hold no separator.
Parted(b, t1, t2, t3) ==
    /\ b \in Seq(Token) /\ t1 \in Seq(Token) /\ t2 \in Seq(Token) /\ t3 \in Seq(Token)
    /\ \A k \in 1..Len(t1) : t1[k].tag # "fld" /\ b[k] = t1[k]
    /\ \A k \in 1..Len(t2) : t2[k].tag # "fld" /\ b[Len(t1) + 1 + k] = t2[k]
    /\ \A k \in 1..Len(t3) : b[Len(t1) + Len(t2) + 2 + k] = t3[k]
    /\ Len(b) = Len(t1) + Len(t2) + Len(t3) + 2
    /\ b[Len(t1) + 1] = Fld /\ b[Len(t1) + Len(t2) + 2] = Fld

\* The place after a second separator is in the body just when a third text
\* is there to begin at it.
LEMMA LastFits ==
    ASSUME NEW i \in Nat, NEW j \in Nat, NEW k \in Nat
    PROVE  i + j + 3 <= i + j + k + 2 <=> 1 <= k
  OBVIOUS

\* A body whose separators are whole is cut into the fields it was made of.
LEMMA SplitExact ==
    ASSUME NEW b, NEW t1, NEW t2, NEW t3, Parted(b, t1, t2, t3)
    PROVE  Cardinality(Found(b, "fld")) >= 2 /\ Split(b) = <<t1, t2, t3>>
<1>0. /\ b \in Seq(Token) /\ t1 \in Seq(Token) /\ t2 \in Seq(Token) /\ t3 \in Seq(Token)
      /\ \A k \in 1..Len(t1) : t1[k].tag # "fld" /\ b[k] = t1[k]
      /\ \A k \in 1..Len(t2) : t2[k].tag # "fld" /\ b[Len(t1) + 1 + k] = t2[k]
      /\ \A k \in 1..Len(t3) : b[Len(t1) + Len(t2) + 2 + k] = t3[k]
      /\ Len(b) = Len(t1) + Len(t2) + Len(t3) + 2
      /\ b[Len(t1) + 1] = Fld /\ b[Len(t1) + Len(t2) + 2] = Fld
  BY DEF Parted
<1>. USE <1>0
<1>. DEFINE l1 == Len(t1)
            l2 == Len(t2)
            l3 == Len(t3)
<1>1. l1 \in Nat /\ l2 \in Nat /\ l3 \in Nat
  BY LenProperties
<1>2. l1 + 1 \in 1..Len(b) /\ l1 + l2 + 2 \in 1..Len(b) /\ l1 + 1 # l1 + l2 + 2
  BY <1>1
<1>3. Fld.tag = "fld"
  BY DEF Fld
<1>4. Cardinality(Found(b, "fld")) >= 2
  <2>1. l1 + 1 \in Found(b, "fld") /\ l1 + l2 + 2 \in Found(b, "fld") /\ IsFiniteSet(Found(b, "fld"))
    <3>1. b[l1 + 1].tag = "fld" /\ b[l1 + l2 + 2].tag = "fld"
      BY <1>3
    <3>. HIDE DEF l1, l2
    <3>. QED
      BY <1>2, <3>1, FoundIs
  <2>. QED
    BY <1>2, <2>1, TwoOrMore
<1>5. PICK u \in 1..Len(b), v \in 1..Len(b) :
         /\ u < v /\ b[u].tag = "fld" /\ b[v].tag = "fld"
         /\ \A q \in 1..(v - 1) : q # u => b[q].tag # "fld"
         /\ Split(b) = <<SubSeq(b, 1, u - 1), SubSeq(b, u + 1, v - 1), SubSeq(b, v + 1, Len(b))>>
  BY <1>4, SplitIs
<1>. HIDE DEF l1, l2, l3
<1>6. \A q \in 1..l1 : b[q].tag # "fld"
  BY DEF l1
<1>7. \A q \in (l1 + 2)..(l1 + l2 + 1) : b[q].tag # "fld"
  <2>. TAKE q \in (l1 + 2)..(l1 + l2 + 1)
  <2>. DEFINE k == q - l1 - 1
  <2>1. k \in 1..l2 /\ l1 + 1 + k = q
    BY <1>1
  <2>. HIDE DEF k
  <2>2. b[l1 + 1 + k].tag # "fld"
    BY <2>1 DEF l1, l2
  <2>. QED
    BY <2>1, <2>2
<1>8. u = l1 + 1
  <2>1. ~(u < l1 + 1)
    BY <1>1, <1>5, <1>6
  <2>2. ~(u > l1 + 1)
    <3>. SUFFICES ASSUME u > l1 + 1 PROVE FALSE
      OBVIOUS
    <3>1. l1 + 1 \in 1..(v - 1) /\ l1 + 1 # u
      BY <1>1, <1>5
    <3>2. b[l1 + 1].tag = "fld"
      BY <1>3 DEF l1
    <3>. QED
      BY <1>5, <3>1, <3>2
  <2>. QED
    BY <1>1, <2>1, <2>2
<1>9. v = l1 + l2 + 2
  <2>1. ~(v < l1 + l2 + 2)
    <3>. SUFFICES ASSUME v < l1 + l2 + 2 PROVE FALSE
      OBVIOUS
    <3>1. v \in (l1 + 2)..(l1 + l2 + 1)
      BY <1>1, <1>5, <1>8, LenProperties
    <3>. QED
      BY <1>5, <1>7, <3>1
  <2>2. ~(v > l1 + l2 + 2)
    <3>. SUFFICES ASSUME v > l1 + l2 + 2 PROVE FALSE
      OBVIOUS
    <3>1. l1 + l2 + 2 \in 1..(v - 1) /\ l1 + l2 + 2 # u
      BY <1>1, <1>8
    <3>2. b[l1 + l2 + 2].tag = "fld"
      BY <1>3 DEF l1, l2
    <3>. QED
      BY <1>5, <3>1, <3>2
  <2>. DEFINE e == l1 + l2 + 2
  <2>3. e \in Nat /\ v \in Nat /\ ~(v < e) /\ ~(v > e)
    BY <1>1, <2>1, <2>2, LenProperties
  <2>. HIDE DEF e
  <2>4. v = e
    BY <2>3
  <2>. QED
    BY <2>4 DEF e
<1>10. Len(b) = l1 + l2 + l3 + 2
  BY DEF l1, l2, l3
<1>11. /\ 1 \in 1..(Len(b) + 1) /\ u + 1 \in 1..(Len(b) + 1) /\ v + 1 \in 1..(Len(b) + 1)
       /\ u - 1 \in 0..Len(b) /\ v - 1 \in 0..Len(b) /\ Len(b) \in 0..Len(b)
  BY <1>1, <1>10
<1>12. SubSeq(b, 1, u - 1) = t1
  <2>1. /\ SubSeq(b, 1, u - 1) \in Seq(Token)
        /\ Len(SubSeq(b, 1, u - 1)) = IF 1 <= u - 1 THEN (u - 1) - 1 + 1 ELSE 0
        /\ \A k \in 1..((u - 1) - 1 + 1) : SubSeq(b, 1, u - 1)[k] = b[1 + k - 1]
    BY <1>11, PieceOf
  <2>2. Len(SubSeq(b, 1, u - 1)) = l1
    BY <1>1, <1>8, <2>1
  <2>3. \A k \in 1..l1 : SubSeq(b, 1, u - 1)[k] = t1[k]
    <3>. TAKE k \in 1..l1
    <3>1. k \in 1..((u - 1) - 1 + 1) /\ 1 + k - 1 = k
      BY <1>1, <1>8
    <3>2. b[k] = t1[k]
      BY DEF l1
    <3>. QED
      BY <2>1, <3>1, <3>2
  <2>. QED
    BY <2>1, <2>2, <2>3, SeqEqual DEF l1
<1>13. SubSeq(b, u + 1, v - 1) = t2
  <2>1. /\ SubSeq(b, u + 1, v - 1) \in Seq(Token)
        /\ Len(SubSeq(b, u + 1, v - 1)) = IF u + 1 <= v - 1 THEN (v - 1) - (u + 1) + 1 ELSE 0
        /\ \A k \in 1..((v - 1) - (u + 1) + 1) : SubSeq(b, u + 1, v - 1)[k] = b[u + 1 + k - 1]
    BY <1>11, PieceOf
  <2>2. Len(SubSeq(b, u + 1, v - 1)) = l2
    BY <1>1, <1>8, <1>9, <2>1
  <2>3. \A k \in 1..l2 : SubSeq(b, u + 1, v - 1)[k] = t2[k]
    <3>. TAKE k \in 1..l2
    <3>1. k \in 1..((v - 1) - (u + 1) + 1) /\ u + 1 + k - 1 = l1 + 1 + k
      BY <1>1, <1>8, <1>9
    <3>2. b[l1 + 1 + k] = t2[k]
      BY DEF l1, l2
    <3>. QED
      BY <2>1, <3>1, <3>2
  <2>. QED
    BY <2>1, <2>2, <2>3, SeqEqual DEF l2
<1>14. SubSeq(b, v + 1, Len(b)) = t3
  <2>1. /\ SubSeq(b, v + 1, Len(b)) \in Seq(Token)
        /\ Len(SubSeq(b, v + 1, Len(b))) = IF v + 1 <= Len(b) THEN Len(b) - (v + 1) + 1 ELSE 0
        /\ \A k \in 1..(Len(b) - (v + 1) + 1) : SubSeq(b, v + 1, Len(b))[k] = b[v + 1 + k - 1]
    BY <1>11, PieceOf
  <2>2. Len(SubSeq(b, v + 1, Len(b))) = l3
    <3>1. v + 1 <= Len(b) <=> 1 <= l3
      <4>1. v + 1 = l1 + l2 + 3
        BY <1>1, <1>9
      <4>2. l1 + l2 + 3 <= l1 + l2 + l3 + 2 <=> 1 <= l3
        BY <1>1, LastFits
      <4>. QED
        BY <1>10, <4>1, <4>2, Zenon
    <3>2. Len(b) - (v + 1) + 1 = l3
      <4>1. v + 1 = l1 + l2 + 3
        BY <1>1, <1>9
      <4>2. (l1 + l2 + l3 + 2) - (l1 + l2 + 3) + 1 = l3
        BY <1>1
      <4>. QED
        BY <1>10, <4>1, <4>2, Zenon
    <3>3. ~(1 <= l3) => l3 = 0
      BY <1>1
    <3>. QED
      BY <2>1, <3>1, <3>2, <3>3
  <2>3. \A k \in 1..l3 : SubSeq(b, v + 1, Len(b))[k] = t3[k]
    <3>. TAKE k \in 1..l3
    <3>1. k \in 1..(Len(b) - (v + 1) + 1) /\ v + 1 + k - 1 = l1 + l2 + 2 + k
      BY <1>1, <1>9, <1>10
    <3>2. b[l1 + l2 + 2 + k] = t3[k]
      BY DEF l1, l2, l3
    <3>. QED
      BY <2>1, <3>1, <3>2
  <2>. QED
    BY <2>1, <2>2, <2>3, SeqEqual DEF l3
<1>. QED
  BY <1>4, <1>5, <1>12, <1>13, <1>14

-----------------------------------------------------------------------------
(* The answer for a chunk, and what is decoded of it.                      *)

\* Positions of rows, and what may happen to their markers and words.
IsChunk(kinds, chunk) ==
    /\ chunk \in Seq(Nat) /\ chunk # <<>>
    /\ \A i \in 1..Len(chunk) : kinds[chunk[i]] \in Kinds
AreCopies(copies, n) == \A i \in 1..n : \A k \in 0..5 : copies[<<i, k>>] \in Nat

\* The part of row i in the answer for a chunk, and all parts.
PartOf(kinds, chunk, copies, i) ==
    Part(Kept(kinds[chunk[i]], copies, i), chunk[i], i, copies[<<i, 0>>], copies[<<i, 1>>],
         copies[<<i, 2>>])
Parts(kinds, chunk, copies) == [i \in 1..Len(chunk) |-> PartOf(kinds, chunk, copies, i)]

\* A row of a chunk and its part.
LEMMA ChunkIs ==
    ASSUME NEW kinds, NEW chunk, IsChunk(kinds, chunk), NEW copies, AreCopies(copies, Len(chunk)),
           NEW i \in 1..Len(chunk)
    PROVE  /\ Len(chunk) \in Nat /\ DOMAIN chunk = 1..Len(chunk) /\ Len(chunk) >= 1
           /\ chunk[i] \in Nat /\ i \in Nat /\ kinds[chunk[i]] \in Kinds
           /\ copies[<<i, 0>>] \in Nat /\ copies[<<i, 1>>] \in Nat /\ copies[<<i, 2>>] \in Nat
           /\ Marked(PartOf(kinds, chunk, copies, i), chunk[i], i, copies[<<i, 0>>])
<1>1. Len(chunk) \in Nat /\ DOMAIN chunk = 1..Len(chunk) /\ Len(chunk) >= 1
  BY LenProperties, EmptySeq DEF IsChunk
<1>2. chunk[i] \in Nat /\ i \in Nat /\ kinds[chunk[i]] \in Kinds
  BY <1>1 DEF IsChunk
<1>3. copies[<<i, 0>>] \in Nat /\ copies[<<i, 1>>] \in Nat /\ copies[<<i, 2>>] \in Nat
  <2>1. 0 \in 0..5 /\ 1 \in 0..5 /\ 2 \in 0..5
    OBVIOUS
  <2>. QED
    BY <2>1 DEF AreCopies
<1>4. Marked(PartOf(kinds, chunk, copies, i), chunk[i], i, copies[<<i, 0>>])
  BY <1>2, <1>3, KeptTyped, PartIs DEF PartOf
<1>. QED
  BY <1>1, <1>2, <1>3, <1>4

\* The answer is a text, in which each part has its place.
LEMMA AnswerIs ==
    ASSUME NEW kinds, NEW chunk, IsChunk(kinds, chunk), NEW copies, AreCopies(copies, Len(chunk)),
           NEW backwards \in BOOLEAN
    PROVE  /\ Answer(kinds, chunk, copies, backwards) \in Seq(Token)
           /\ \E off : Placed(Answer(kinds, chunk, copies, backwards), Parts(kinds, chunk, copies), off)
<1>. DEFINE n == Len(chunk)
            parts == Parts(kinds, chunk, copies)
            s == Answer(kinds, chunk, copies, backwards)
<1>1. n \in Nat /\ n >= 1 /\ DOMAIN chunk = 1..n
  BY LenProperties, EmptySeq DEF IsChunk
<1>2. parts \in Seq(Seq(Token)) /\ Len(parts) = n /\ parts # <<>>
  <2>1. \A i \in 1..n : PartOf(kinds, chunk, copies, i) \in Seq(Token)
    BY ChunkIs DEF Marked
  <2>2. parts = [i \in 1..n |-> PartOf(kinds, chunk, copies, i)]
    BY DEF Parts
  <2>3. parts \in [1..n -> Seq(Token)]
    BY <2>1, <2>2
  <2>. HIDE DEF parts, n
  <2>. QED
    BY <1>1, <2>3
<1>3. s = FlattenSeq(IF backwards THEN Reverse(parts) ELSE parts)
  BY <1>1 DEF Answer, Parts, PartOf, Part, Text
<1>. HIDE DEF parts, s, n
<1>4. CASE ~backwards
  BY <1>2, <1>3, <1>4, FlattenPlaces DEF s, parts
<1>5. CASE backwards
  <2>. DEFINE back == Reverse(parts)
  <2>1. back = [i \in 1..n |-> parts[n - i + 1]]
    BY <1>2 DEF Reverse
  <2>2. \A i \in 1..n : n - i + 1 \in 1..n /\ n - (n - i + 1) + 1 = i
    BY <1>1
  <2>3. back \in Seq(Seq(Token)) /\ Len(back) = n /\ back # <<>>
    <3>1. \A i \in 1..n : parts[n - i + 1] \in Seq(Token)
      BY <1>2, <2>2
    <3>2. back \in [1..n -> Seq(Token)]
      BY <2>1, <3>1
    <3>. HIDE DEF back
    <3>. QED
      BY <1>1, <3>2
  <2>4. \A i \in 1..n : back[n - i + 1] = parts[i] /\ back[i] = parts[n - i + 1]
    BY <2>1, <2>2
  <2>. HIDE DEF back
  <2>5. s = FlattenSeq(back)
    BY <1>3, <1>5 DEF back
  <2>6. s \in Seq(Token) /\ \E off : Placed(s, back, off)
    BY <2>3, <2>5, FlattenPlaces
  <2>7. PICK off1 : Placed(s, back, off1)
    BY <2>6
  <2>. DEFINE off == [i \in 1..n |-> off1[n - i + 1]]
  <2>8. off \in [1..n -> Nat]
    BY <2>2, <2>3, <2>7 DEF Placed
  <2>9. ASSUME NEW i \in 1..n, NEW k \in 1..Len(parts[i])
        PROVE  off[i] + k \in 1..Len(s) /\ s[off[i] + k] = parts[i][k]
    <3>1. n - i + 1 \in 1..Len(back) /\ k \in 1..Len(back[n - i + 1])
      BY <2>2, <2>3, <2>4
    <3>2. off1[n - i + 1] + k \in 1..Len(s) /\ s[off1[n - i + 1] + k] = back[n - i + 1][k]
      BY <2>7, <3>1 DEF Placed
    <3>. QED
      BY <2>4, <3>2
  <2>10. ASSUME NEW q \in 1..Len(s)
         PROVE  \E i \in 1..n : \E k \in 1..Len(parts[i]) : q = off[i] + k
    <3>1. PICK j \in 1..n : \E k \in 1..Len(back[j]) : q = off1[j] + k
      BY <2>3, <2>7 DEF Placed
    <3>2. n - j + 1 \in 1..n /\ off[n - j + 1] = off1[j] /\ back[j] = parts[n - j + 1]
      BY <2>2, <2>4
    <3>. HIDE DEF off
    <3>. QED
      BY <3>1, <3>2
  <2>11. ASSUME NEW i \in 1..n
         PROVE  \/ off[i] + Len(parts[i]) = Len(s)
                \/ \E j \in 1..n : off[j] = off[i] + Len(parts[i])
    <3>1. n - i + 1 \in 1..n /\ off[i] = off1[n - i + 1] /\ back[n - i + 1] = parts[i]
      BY <2>2, <2>4
    <3>2. \/ off1[n - i + 1] + Len(back[n - i + 1]) = Len(s)
          \/ \E j \in 1..n : off1[j] = off1[n - i + 1] + Len(back[n - i + 1])
      BY <2>3, <2>7, <3>1 DEF Placed
    <3>3. CASE \E j \in 1..n : off1[j] = off1[n - i + 1] + Len(back[n - i + 1])
      <4>1. PICK j \in 1..n : off1[j] = off1[n - i + 1] + Len(back[n - i + 1])
        BY <3>3
      <4>2. n - j + 1 \in 1..n /\ off[n - j + 1] = off1[j]
        BY <2>2
      <4>. HIDE DEF off
      <4>. QED
        BY <3>1, <4>1, <4>2
    <3>. HIDE DEF off
    <3>. QED
      BY <3>1, <3>2, <3>3
  <2>12. Placed(s, parts, off)
    <3>. HIDE DEF off
    <3>. QED
      BY <1>2, <2>8, <2>9, <2>10, <2>11 DEF Placed
  <2>. QED
    BY <2>6, <2>12 DEF s, parts
<1>. QED
  BY <1>4, <1>5

\* A usable body is that of the last copy of its row's marker.
LEMMA UsableIs ==
    ASSUME NEW kinds, NEW chunk, IsChunk(kinds, chunk), NEW copies, AreCopies(copies, Len(chunk)),
           NEW s \in Seq(Token), NEW off, Placed(s, Parts(kinds, chunk, copies), off),
           NEW p \in Usable(s)
    PROVE  /\ p \in 1..Len(s) /\ s[p].tag = "row" /\ Cardinality(Found(Body(s, p), "fld")) >= 2
           /\ s[p].of \in 1..Len(chunk)
           /\ copies[<<s[p].of, 0>>] >= 1 /\ p = off[s[p].of] + copies[<<s[p].of, 0>>]
<1>. DEFINE parts == Parts(kinds, chunk, copies)
            n == Len(chunk)
<1>1. p \in 1..Len(s) /\ s[p].tag = "row" /\ Cardinality(Found(Body(s, p), "fld")) >= 2 /\ Len(s) \in Nat
  BY FoundIs DEF Usable
<1>2. Len(parts) = n /\ (\A i \in 1..n : parts[i] = PartOf(kinds, chunk, copies, i)) /\ n \in Nat
  <2>1. n \in Nat
    BY LenProperties DEF IsChunk
  <2>. HIDE DEF n
  <2>2. parts = [i \in 1..n |-> PartOf(kinds, chunk, copies, i)]
    BY DEF Parts, n
  <2>. QED
    BY <2>1, <2>2
<1>. HIDE DEF parts
<1>3. PICK i \in 1..n : \E k \in 1..Len(parts[i]) : p = off[i] + k
  BY <1>1, <1>2 DEF Placed, parts
<1>4. PICK k \in 1..Len(parts[i]) : p = off[i] + k
  BY <1>3
<1>. DEFINE c0 == copies[<<i, 0>>]
<1>5. /\ i \in Nat /\ c0 \in Nat /\ Marked(parts[i], chunk[i], i, c0)
  BY <1>2, ChunkIs
<1>6. s[p] = parts[i][k] /\ off[i] \in Nat
  BY <1>2, <1>4 DEF Placed, parts
<1>7. Len(parts[i]) \in Nat
  BY <1>5, LenProperties DEF Marked
<1>8. k <= c0 /\ s[p] = Row(i)
  <2>1. ~(k > c0)
    BY <1>1, <1>5, <1>6 DEF Marked
  <2>2. k <= c0
    BY <1>5, <1>7, <2>1
  <2>. QED
    BY <1>5, <1>6, <2>2 DEF Marked
<1>9. s[p].of = i
  BY <1>8 DEF Row
<1>10. k = c0
  <2>. SUFFICES ASSUME k # c0 PROVE FALSE
    OBVIOUS
  <2>1. k + 1 <= c0 /\ k + 1 \in 1..Len(parts[i])
    BY <1>5, <1>7, <1>8 DEF Marked
  <2>2. parts[i][k + 1] = Row(i)
    BY <1>5, <2>1 DEF Marked
  <2>3. s[off[i] + (k + 1)] = Row(i) /\ off[i] + (k + 1) \in 1..Len(s)
    BY <1>2, <2>1, <2>2 DEF Placed, parts
  <2>4. off[i] + (k + 1) = p + 1
    <3>1. k \in Nat
      BY <1>7
    <3>. DEFINE before1 == off[i]
    <3>2. p = before1 + k /\ before1 \in Nat
      BY <1>4, <1>6
    <3>. HIDE DEF before1
    <3>3. before1 + (k + 1) = p + 1
      BY <3>1, <3>2
    <3>. QED
      BY <3>3 DEF before1
  <2>5. s[p + 1].tag = "row" /\ p + 1 \in 1..Len(s)
    BY <2>3, <2>4 DEF Row
  <2>6. PICK e \in (p + 1)..(Len(s) + 1) :
           /\ Body(s, p) \in Seq(Token) /\ Len(Body(s, p)) = e - 1 - p
           /\ \A q \in (p + 1)..(e - 1) : s[q].tag # "row"
    BY <1>1, BodyIs
  <2>7. ~(p + 1 <= e - 1)
    BY <1>1, <2>5, <2>6
  <2>8. Len(Body(s, p)) = 0
    BY <1>1, <2>6, <2>7
  <2>. DEFINE b == Body(s, p)
  <2>9. b \in Seq(Token) /\ Len(b) = 0
    BY <2>6, <2>8
  <2>. HIDE DEF b
  <2>10. Found(b, "fld") = {q \in 1..Len(b) : b[q].tag = "fld"}
    BY <2>9, FoundIs
  <2>11. Found(b, "fld") = {}
    BY <2>9, <2>10
  <2>12. Cardinality(Found(b, "fld")) >= 2
    BY <1>1 DEF b
  <2>13. Cardinality({}) = 0
    BY FS_EmptySet
  <2>14. Cardinality(Found(b, "fld")) = 0
    BY <2>11, <2>13
  <2>. QED
    BY <2>12, <2>14
<1>. QED
  BY <1>1, <1>4, <1>5, <1>8, <1>9, <1>10

\* Copies holds numbers of copies.
LEMMA CopiesTyped ==
    ASSUME NEW n \in 1..MaxRows, NEW copies \in Copies[n]
    PROVE  AreCopies(copies, n)
<1>. DEFINE M == Pieces(n)
<1>1. PICK hit : \E c \in [hit -> {0, 2}] : copies = [m \in M |-> IF m \in DOMAIN c THEN c[m] ELSE 1]
  <2>. DEFINE Of(hit) == {d \in [hit -> {0, 2}] : \A m \in hit : m[2] > 2 => d[m] = 0}
              As(c) == [m \in M |-> IF m \in DOMAIN c THEN c[m] ELSE 1]
              Hits == {h \in UNION {kSubset(k, M) : k \in 0..MaxDamage} :
                          Cardinality(h) + Cardinality({m \in h : m[2] > 2}) <= MaxDamage}
  <2>1. copies \in UNION {{As(c) : c \in Of(hit)} : hit \in Hits}
    BY DEF Copies
  <2>. HIDE DEF As, Hits, Of
  <2>2. PICK hit \in Hits : copies \in {As(c) : c \in Of(hit)}
    BY <2>1
  <2>3. PICK c \in Of(hit) : copies = As(c)
    BY <2>2
  <2>. QED
    BY <2>3 DEF Of, As
<1>3. PICK c \in [hit -> {0, 2}] : copies = [m \in M |-> IF m \in DOMAIN c THEN c[m] ELSE 1]
  BY <1>1
<1>2. \A i \in 1..n : \A k \in 0..5 : copies[<<i, k>>] \in Nat
  <2>. TAKE i \in 1..n, k \in 0..5
  <2>1. <<i, k>> \in M
    BY DEF Pieces
  <2>. DEFINE m == <<i, k>>
  <2>. HIDE DEF M, m
  <2>2. copies[m] = IF m \in DOMAIN c THEN c[m] ELSE 1
    BY <1>3, <2>1 DEF m
  <2>. QED
    BY <2>2 DEF m
<1>. QED
  BY <1>2 DEF AreCopies

\* An answer and where the parts of its rows are.
Answers(s, off, kinds, chunk, copies) ==
    /\ IsChunk(kinds, chunk) /\ AreCopies(copies, Len(chunk))
    /\ s \in Seq(Token) /\ Placed(s, Parts(kinds, chunk, copies), off)

\* The tokens of row i's part: first its markers, then words of its own.
PartLies(s, off, chunk, i, part, c0) ==
    /\ Len(part) \in Nat /\ off[i] \in Nat /\ c0 \in Nat /\ i \in Nat
    /\ Len(part) >= c0 /\ Marked(part, chunk[i], i, c0)
    /\ \A k \in 1..Len(part) :
         /\ off[i] + k \in 1..Len(s) /\ s[off[i] + k] = part[k]
         /\ k <= c0 => s[off[i] + k] = Row(i)
         /\ k > c0 => /\ s[off[i] + k].tag # "row"
                      /\ s[off[i] + k].tag = "words" => s[off[i] + k].of = chunk[i]
    /\ \/ off[i] + Len(part) = Len(s)
       \/ \E j \in 1..Len(chunk) : off[j] = off[i] + Len(part)

\* The tokens of a part at their places.
LEMMA PartAt ==
    ASSUME NEW s, NEW off, NEW kinds, NEW chunk, NEW copies, Answers(s, off, kinds, chunk, copies),
           NEW i \in 1..Len(chunk),
           NEW part, part = PartOf(kinds, chunk, copies, i), NEW c0, c0 = copies[<<i, 0>>]
    PROVE  PartLies(s, off, chunk, i, part, c0)
<1>. DEFINE n == Len(chunk)
            parts == Parts(kinds, chunk, copies)
<1>1. IsChunk(kinds, chunk) /\ AreCopies(copies, n) /\ Placed(s, parts, off)
  BY DEF Answers
<1>2. n \in Nat /\ i \in Nat /\ c0 \in Nat /\ Marked(part, chunk[i], i, c0)
  BY <1>1, ChunkIs
<1>3. Len(parts) = n /\ parts[i] = part
  BY <1>2 DEF Parts
<1>. HIDE DEF parts, n
<1>4. Len(part) \in Nat /\ Len(part) >= c0
  BY <1>2, LenProperties DEF Marked
<1>5. off[i] \in Nat
  BY <1>1, <1>3 DEF Placed, n
<1>6. \A k \in 1..Len(part) : off[i] + k \in 1..Len(s) /\ s[off[i] + k] = part[k]
  BY <1>1, <1>3 DEF Placed, n
<1>7. ASSUME NEW k \in 1..Len(part)
      PROVE  /\ k <= c0 => part[k] = Row(i)
             /\ k > c0 => /\ part[k].tag # "row"
                          /\ part[k].tag = "words" => part[k].of = chunk[i]
  BY <1>2, <1>7 DEF Marked
<1>8. \/ off[i] + Len(part) = Len(s)
      \/ \E j \in 1..n : off[j] = off[i] + Len(part)
  BY <1>1, <1>3 DEF Placed, n
<1>. QED
  BY <1>2, <1>4, <1>5, <1>6, <1>7, <1>8 DEF n, PartLies

\* Every token is of some part.
LEMMA SomePart ==
    ASSUME NEW s, NEW off, NEW kinds, NEW chunk, NEW copies, Answers(s, off, kinds, chunk, copies),
           NEW q \in 1..Len(s)
    PROVE  \E j \in 1..Len(chunk) : \E k \in 1..Len(PartOf(kinds, chunk, copies, j)) : q = off[j] + k
<1>. DEFINE n == Len(chunk)
            parts == Parts(kinds, chunk, copies)
<1>1. IsChunk(kinds, chunk) /\ Placed(s, parts, off)
  BY DEF Answers
<1>2. n \in Nat
  BY <1>1, LenProperties DEF IsChunk
<1>3. Len(parts) = n /\ \A j \in 1..n : parts[j] = PartOf(kinds, chunk, copies, j)
  BY <1>2 DEF Parts
<1>. HIDE DEF parts, n
<1>4. PICK j \in 1..n : \E k \in 1..Len(parts[j]) : q = off[j] + k
  BY <1>1, <1>3 DEF Placed
<1>5. parts[j] = PartOf(kinds, chunk, copies, j)
  BY <1>3
<1>. QED
  BY <1>4, <1>5 DEF n

\* x is what comes back of a row at p whose fields F are kept.
IsPart(x, F, p, i, c0, c1, c2) ==
    /\ F \in FieldSets /\ p \in Nat /\ i \in Nat
    /\ c0 \in Nat /\ c1 \in Nat /\ c2 \in Nat
    /\ x = Part(F, p, i, c0, c1, c2)

\* A row that keeps its explanation has it right after its markers.
LEMMA PartStarts ==
    ASSUME NEW x, NEW F, NEW p, NEW i, NEW c0, NEW c1, NEW c2,
           IsPart(x, F, p, i, c0, c1, c2), Has(F, 1)
    PROVE  Len(x) >= c0 + 1 /\ x[c0 + 1] = Words(p, 1)
<1>1. /\ F \in FieldSets /\ p \in Nat /\ i \in Nat
      /\ c0 \in Nat /\ c1 \in Nat /\ c2 \in Nat
      /\ x = Part(F, p, i, c0, c1, c2)
  BY DEF IsPart
<1>. QED
  BY <1>1, PartIs

\* A usable body begins with its row's explanation, if that came back.
LEMMA FirstFieldIs ==
    ASSUME NEW s, NEW off, NEW kinds, NEW chunk, NEW copies, Answers(s, off, kinds, chunk, copies),
           NEW p \in Usable(s), Has(Kept(kinds[chunk[s[p].of]], copies, s[p].of), 1)
    PROVE  Split(Body(s, p))[1] # <<>>
<1>. DEFINE i == s[p].of
            c0 == copies[<<i, 0>>]
            part == PartOf(kinds, chunk, copies, i)
            b == Body(s, p)
<1>1. /\ p \in 1..Len(s) /\ Cardinality(Found(b, "fld")) >= 2 /\ i \in 1..Len(chunk)
      /\ p = off[i] + c0 /\ s \in Seq(Token)
  BY UsableIs DEF Answers
<1>2. c0 \in Nat /\ off[i] \in Nat /\ (\A k \in 1..Len(part) : s[off[i] + k] = part[k]) /\ Len(part) \in Nat
  <2>1. part = PartOf(kinds, chunk, copies, i) /\ c0 = copies[<<i, 0>>]
    OBVIOUS
  <2>. HIDE DEF part, c0, i
  <2>2. PartLies(s, off, chunk, i, part, c0)
    BY <1>1, <2>1, PartAt
  <2>. QED
    BY <2>2 DEF PartLies
<1>3. chunk[i] \in Nat /\ Len(part) >= c0 + 1 /\ part[c0 + 1] = Words(chunk[i], 1) /\ Len(part) \in Nat
  <2>1. /\ chunk[i] \in Nat /\ i \in Nat /\ kinds[chunk[i]] \in Kinds
        /\ copies[<<i, 0>>] \in Nat /\ copies[<<i, 1>>] \in Nat /\ copies[<<i, 2>>] \in Nat
    BY <1>1, ChunkIs DEF Answers
  <2>2. Len(part) >= c0 + 1 /\ part[c0 + 1] = Words(chunk[i], 1)
    <3>. DEFINE F == Kept(kinds[chunk[i]], copies, i)
                own == chunk[i]
                c1 == copies[<<i, 1>>]
                c2 == copies[<<i, 2>>]
    <3>1. part = Part(F, own, i, c0, c1, c2) /\ Has(F, 1)
      BY DEF PartOf
    <3>2. F \in FieldSets /\ own \in Nat /\ i \in Nat /\ c0 \in Nat /\ c1 \in Nat /\ c2 \in Nat
      BY <2>1, KeptTyped
    <3>. HIDE DEF F, own, i, c0, c1, c2, part
    <3>3. IsPart(part, F, own, i, c0, c1, c2)
      BY <3>1, <3>2 DEF IsPart
    <3>4. Len(part) >= c0 + 1 /\ part[c0 + 1] = Words(own, 1)
      BY <3>1, <3>3, PartStarts
    <3>. QED
      BY <3>4 DEF own
  <2>. QED
    BY <1>2, <2>1, <2>2
<1>4. s[p + 1] = Words(chunk[i], 1)
  <2>. DEFINE o == off[i]
  <2>1. c0 + 1 \in 1..Len(part)
    BY <1>2, <1>3
  <2>2. o + (c0 + 1) = p + 1
    <3>1. o \in Nat /\ p = o + c0
      BY <1>1, <1>2
    <3>. HIDE DEF o, c0
    <3>2. c0 \in Nat
      BY <1>2
    <3>. QED
      BY <3>1, <3>2
  <2>. HIDE DEF c0, part
  <2>. QED
    BY <1>2, <1>3, <2>1, <2>2
<1>. HIDE DEF i, c0, part
<1>5. PICK e \in (p + 1)..(Len(s) + 1) :
         /\ b \in Seq(Token) /\ Len(b) = e - 1 - p
         /\ \A k \in 1..(e - 1 - p) : b[k] = s[p + k]
  BY <1>1, BodyIs
<1>. HIDE DEF b
<1>6. 1 \in 1..(e - 1 - p)
  <2>1. \E u \in 1..Len(b) : TRUE
    BY <1>1, <1>5, SplitIs
  <2>. QED
    BY <1>5, <2>1
<1>7. b[1] = Words(chunk[i], 1)
  BY <1>4, <1>5, <1>6
<1>8. b[1].tag # "fld"
  BY <1>7 DEF Words
<1>. QED
  BY <1>1, <1>5, <1>8, SplitKeeps DEF b

\* While no ROW marker is lost, a usable body has only words of its own row.
LEMMA OwnWords ==
    ASSUME NEW s, NEW off, NEW kinds, NEW chunk, NEW copies, Answers(s, off, kinds, chunk, copies),
           \A j \in 1..Len(chunk) : copies[<<j, 0>>] # 0,
           NEW p \in Usable(s),
           NEW f \in 1..3, NEW token \in ToSet(Split(Body(s, p))[f]), token.tag = "words"
    PROVE  token.of = chunk[s[p].of]
<1>. DEFINE i == s[p].of
            b == Body(s, p)
<1>1. /\ p \in 1..Len(s) /\ Cardinality(Found(b, "fld")) >= 2 /\ i \in 1..Len(chunk)
      /\ s \in Seq(Token) /\ s[p].tag = "row"
  BY UsableIs DEF Answers
<1>2. PICK e \in (p + 1)..(Len(s) + 1) :
         /\ b \in Seq(Token) /\ Len(b) = e - 1 - p
         /\ \A k \in 1..(e - 1 - p) : b[k] = s[p + k]
         /\ \A q \in (p + 1)..(e - 1) : s[q].tag # "row"
  BY <1>1, BodyIs
<1>3. PICK k \in 1..Len(b) : token = b[k]
  <2>. HIDE DEF b
  <2>1. \A g \in 1..3 : \A t \in ToSet(Split(b)[g]) : \E k \in 1..Len(b) : t = b[k]
    BY <1>1, <1>2, SplitKeeps
  <2>2. token \in ToSet(Split(b)[f])
    BY DEF b
  <2>. QED
    BY <2>1, <2>2
<1>. HIDE DEF b
<1>. DEFINE q == p + k
<1>4. q \in (p + 1)..(e - 1) /\ q \in 1..Len(s) /\ token = s[q] /\ Len(s) \in Nat /\ p \in Nat /\ e \in Nat
  BY <1>1, <1>2, <1>3, LenProperties
<1>. HIDE DEF q
<1>5. PICK j \in 1..Len(chunk) : \E m \in 1..Len(PartOf(kinds, chunk, copies, j)) : q = off[j] + m
  <2>1. q \in 1..Len(s)
    BY <1>4
  <2>2. Answers(s, off, kinds, chunk, copies)
    OBVIOUS
  <2>3. \E j \in 1..Len(chunk) : \E l \in 1..Len(PartOf(kinds, chunk, copies, j)) : q = off[j] + l
    BY <2>1, <2>2, SomePart
  <2>. QED
    BY <2>3
<1>. DEFINE part == PartOf(kinds, chunk, copies, j)
            c0 == copies[<<j, 0>>]
            o == off[j]
<1>6. PICK m \in 1..Len(part) : q = o + m
  BY <1>5
<1>7. /\ Len(part) \in Nat /\ o \in Nat /\ c0 \in Nat /\ c0 # 0 /\ Len(part) >= c0 /\ j \in Nat
      /\ \A l \in 1..Len(part) :
           /\ o + l \in 1..Len(s)
           /\ l <= c0 => s[o + l] = Row(j)
           /\ l > c0 => s[o + l].tag # "row"
           /\ l > c0 => (s[o + l].tag = "words" => s[o + l].of = chunk[j])
  <2>1. part = PartOf(kinds, chunk, copies, j) /\ c0 = copies[<<j, 0>>]
    OBVIOUS
  <2>4. Answers(s, off, kinds, chunk, copies) /\ j \in 1..Len(chunk)
    BY <1>5
  <2>. HIDE DEF part, c0, i
  <2>2. /\ Len(part) \in Nat /\ off[j] \in Nat /\ c0 \in Nat /\ j \in Nat /\ Len(part) >= c0
        /\ \A l \in 1..Len(part) :
             /\ off[j] + l \in 1..Len(s)
             /\ l <= c0 => s[off[j] + l] = Row(j)
             /\ l > c0 => /\ s[off[j] + l].tag # "row"
                          /\ s[off[j] + l].tag = "words" => s[off[j] + l].of = chunk[j]
    BY <2>1, <2>4, PartAt DEF PartLies
  <2>3. c0 # 0
    BY DEF c0
  <2>. QED
    BY <2>2, <2>3
<1>. HIDE DEF part, c0, o
<1>8. m > c0
  <2>. SUFFICES ASSUME ~(m > c0) PROVE FALSE
    OBVIOUS
  <2>1. m <= c0
    BY <1>7
  <2>2. s[q] = Row(j)
    BY <1>6, <1>7, <2>1
  <2>. QED
    BY <1>4, <2>2 DEF Row
<1>9. token.of = chunk[j]
  BY <1>4, <1>6, <1>7, <1>8
<1>10. s[o + c0] = Row(j) /\ s[o + c0].tag = "row" /\ s[o + c0].of = j
  <2>1. c0 \in 1..Len(part) /\ c0 <= c0
    BY <1>7
  <2>2. s[o + c0] = Row(j)
    BY <1>7, <2>1
  <2>. QED
    BY <2>2 DEF Row
<1>11. o + c0 = p
  <2>1. ~(o + c0 > p)
    <3>. SUFFICES ASSUME o + c0 > p PROVE FALSE
      OBVIOUS
    <3>1. o + c0 \in (p + 1)..(e - 1)
      BY <1>4, <1>6, <1>7, <1>8
    <3>. QED
      BY <1>2, <1>10, <3>1
  <2>2. ~(o + c0 < p)
    <3>. SUFFICES ASSUME o + c0 < p PROVE FALSE
      OBVIOUS
    <3>. DEFINE d == p - o
    <3>1. d \in 1..Len(part) /\ d > c0 /\ o + d = p
      <4>1. o + m = q /\ q > p /\ m <= Len(part) /\ m \in Nat
        BY <1>4, <1>6, <1>7
      <4>2. o \in Nat /\ c0 \in Nat /\ p \in Nat /\ q \in Nat /\ Len(part) \in Nat /\ o + c0 < p
        BY <1>4, <1>7
      <4>. DEFINE l == Len(part)
      <4>3. m <= l /\ l \in Nat
        BY <4>1, <4>2
      <4>. HIDE DEF o, q, c0, l
      <4>4. d \in 1..l /\ d > c0 /\ o + d = p
        BY <4>1, <4>2, <4>3
      <4>. QED
        BY <4>4 DEF l
    <3>2. s[o + (p - o)].tag # "row"
      BY <1>7, <3>1
    <3>. QED
      BY <1>1, <3>1, <3>2
  <2>. QED
    BY <1>4, <1>7, <2>1, <2>2
<1>12. j = i
  BY <1>10, <1>11
<1>. QED
  BY <1>9, <1>12

\* A row with all its markers has a usable body; while no ROW marker is lost, the
\* body is cut into the fields that came back.
LEMMA UnharmedIs ==
    ASSUME NEW s, NEW off, NEW kinds, NEW chunk, NEW copies, Answers(s, off, kinds, chunk, copies),
           NEW i \in 1..Len(chunk), Unharmed(copies, i)
    PROVE  /\ off[i] + 1 \in Usable(s) /\ s[off[i] + 1].of = i
           /\ (\A j \in 1..Len(chunk) : copies[<<j, 0>>] # 0) =>
                 Split(Body(s, off[i] + 1)) = Texts(Kept(kinds[chunk[i]], copies, i), chunk[i])
<1>. DEFINE part == PartOf(kinds, chunk, copies, i)
            F == Kept(kinds[chunk[i]], copies, i)
            own == chunk[i]
            t1 == Text(F, own, 1)
            t2 == Text(F, own, 2)
            t3 == Text(F, own, 3)
            l1 == Len(t1)
            l2 == Len(t2)
            l3 == Len(t3)
            L == Len(part)
            o == off[i]
            p == o + 1
            b == Body(s, p)
<1>1. copies[<<i, 0>>] = 1 /\ copies[<<i, 1>>] = 1 /\ copies[<<i, 2>>] = 1
  BY DEF Unharmed
<1>2. F \in FieldSets /\ own \in Nat /\ i \in Nat /\ s \in Seq(Token) /\ Len(s) \in Nat
  BY ChunkIs, KeptTyped, LenProperties DEF Answers
<1>3. Whole(part, i, t1, t2, t3)
  <2>1. part = Part(F, own, i, 1, 1, 1)
    BY <1>1 DEF PartOf
  <2>2. 1 \in Nat
    OBVIOUS
  <2>. HIDE DEF part, F, own, t1, t2, t3
  <2>3. Whole(part, i, Text(F, own, 1), Text(F, own, 2), Text(F, own, 3))
    BY <1>2, <2>1, <2>2, PartIs
  <2>. QED
    BY <2>3 DEF t1, t2, t3
<1>4. /\ L \in Nat /\ o \in Nat
      /\ \A k \in 1..L : /\ o + k \in 1..Len(s) /\ s[o + k] = part[k]
                         /\ k > 1 => s[o + k].tag # "row"
      /\ (o + L = Len(s) \/ \E j \in 1..Len(chunk) : off[j] = o + L)
  <2>1. /\ part = PartOf(kinds, chunk, copies, i) /\ 1 = copies[<<i, 0>>]
        /\ Answers(s, off, kinds, chunk, copies) /\ i \in 1..Len(chunk)
    BY <1>1
  <2>. HIDE DEF F, own
  <2>. HIDE DEF part
  <2>2. PartLies(s, off, chunk, i, part, 1)
    BY <2>1, PartAt
  <2>3. Len(part) \in Nat /\ off[i] \in Nat
    BY <2>2 DEF PartLies
  <2>4. \A k \in 1..Len(part) : /\ off[i] + k \in 1..Len(s) /\ s[off[i] + k] = part[k]
                                /\ k > 1 => s[off[i] + k].tag # "row"
    BY <2>2 DEF PartLies
  <2>5. off[i] + Len(part) = Len(s) \/ \E j \in 1..Len(chunk) : off[j] = off[i] + Len(part)
    BY <2>2 DEF PartLies
  <2>. QED
    BY <2>3, <2>4, <2>5
<1>5. /\ t1 \in Seq(Token) /\ t2 \in Seq(Token) /\ t3 \in Seq(Token)
      /\ (\A k \in 1..l1 : t1[k].tag # "fld") /\ (\A k \in 1..l2 : t2[k].tag # "fld")
  <2>. HIDE DEF F, own
  <2>1. \A f \in 1..3 : /\ Text(F, own, f) \in Seq(Token)
                        /\ \A k \in 1..Len(Text(F, own, f)) : Text(F, own, f)[k] = Words(own, f)
    BY <1>2, TextTyped
  <2>2. \A f \in 1..3 : Words(own, f).tag # "fld"
    BY DEF Words
  <2>. QED
    BY <2>1, <2>2
<1>. HIDE DEF t1, t2, t3, part, o
<1>6. /\ l1 \in Nat /\ l2 \in Nat /\ l3 \in Nat /\ L = l1 + l2 + l3 + 3
      /\ part[1] = Row(i)
      /\ (\A k \in 1..l1 : part[1 + k] = t1[k])
      /\ part[l1 + 2] = Fld
      /\ (\A k \in 1..l2 : part[l1 + 2 + k] = t2[k])
      /\ part[l1 + l2 + 3] = Fld
      /\ (\A k \in 1..l3 : part[l1 + l2 + 3 + k] = t3[k])
  BY <1>3, <1>5, LenProperties DEF Whole
<1>. HIDE DEF l1, l2, l3, L, p
<1>7. p \in 1..Len(s) /\ s[p] = Row(i) /\ p = o + 1 /\ p \in Nat
  <2>1. 1 \in 1..L
    BY <1>4, <1>6
  <2>. QED
    BY <1>4, <1>6, <2>1 DEF p
<1>8. s[p].tag = "row" /\ s[p].of = i
  BY <1>7 DEF Row
<1>9. PICK e \in (p + 1)..(Len(s) + 1) :
              /\ b \in Seq(Token) /\ Len(b) = e - 1 - p
              /\ (\A k \in 1..(e - 1 - p) : b[k] = s[p + k])
              /\ (\A q \in (p + 1)..(e - 1) : s[q].tag # "row")
              /\ (e = Len(s) + 1 \/ (e \in 1..Len(s) /\ s[e].tag = "row"))
  BY <1>2, <1>7, BodyIs
<1>. HIDE DEF b
<1>10. e >= o + L + 1
  <2>. SUFFICES ASSUME ~(e >= o + L + 1) PROVE FALSE
    OBVIOUS
  <2>1. o + L \in 1..Len(s)
    <3>1. L \in 1..L
      BY <1>4, <1>6
    <3>. QED
      BY <1>4, <3>1
  <2>. DEFINE d == e - o
  <2>2. d \in 1..L /\ d > 1 /\ o + d = e
    <3>1. o \in Nat /\ L \in Nat /\ p = o + 1
      BY <1>4, <1>7
    <3>2. e \in Int /\ e >= o + 2 /\ ~(e >= o + L + 1)
      BY <1>2, <3>1
    <3>. QED
      BY <3>1, <3>2
  <2>3. e # Len(s) + 1
    BY <1>2, <1>4, <2>1
  <2>. HIDE DEF d
  <2>. QED
    BY <1>4, <1>9, <2>2, <2>3
<1>11. ASSUME NEW k \in Nat, k >= 1, k + 1 <= L PROVE k \in 1..Len(b) /\ b[k] = part[k + 1]
  <2>1. o \in Nat /\ L \in Nat /\ e \in Nat /\ p = o + 1 /\ e >= o + L + 1
    BY <1>4, <1>7, <1>10
  <2>2. k \in Nat /\ k >= 1 /\ k + 1 <= L
    BY <1>11
  <2>3. k \in 1..(e - 1 - p) /\ k + 1 \in 1..L /\ p + k = o + (k + 1)
    BY <2>1, <2>2
  <2>. QED
    BY <1>4, <1>9, <2>3
<1>12. /\ b[l1 + 1] = Fld /\ b[l1 + l2 + 2] = Fld
       /\ l1 + 1 \in 1..Len(b) /\ l1 + l2 + 2 \in 1..Len(b)
  <2>1. l1 + 1 \in Nat /\ l1 + 1 >= 1 /\ (l1 + 1) + 1 <= L /\ (l1 + 1) + 1 = l1 + 2
    BY <1>6
  <2>2. l1 + l2 + 2 \in Nat /\ l1 + l2 + 2 >= 1 /\ (l1 + l2 + 2) + 1 <= L /\ (l1 + l2 + 2) + 1 = l1 + l2 + 3
    BY <1>6
  <2>3. l1 + 1 \in 1..Len(b) /\ b[l1 + 1] = part[l1 + 2]
    BY <1>11, <2>1
  <2>4. l1 + l2 + 2 \in 1..Len(b) /\ b[l1 + l2 + 2] = part[l1 + l2 + 3]
    BY <1>11, <2>2
  <2>. QED
    BY <1>6, <2>3, <2>4
<1>13. Cardinality(Found(b, "fld")) >= 2
  <2>1. Found(b, "fld") = {q \in 1..Len(b) : b[q].tag = "fld"} /\ IsFiniteSet(Found(b, "fld"))
    BY <1>9, FoundIs
  <2>2. Fld.tag = "fld"
    BY DEF Fld
  <2>3. l1 + 1 \in Found(b, "fld") /\ l1 + l2 + 2 \in Found(b, "fld")
    BY <1>12, <2>1, <2>2
  <2>4. l1 + 1 # l1 + l2 + 2
    BY <1>6
  <2>. QED
    BY <2>1, <2>3, <2>4, TwoOrMore
<1>14. p \in Usable(s)
  <2>1. p \in Found(s, "row")
    BY <1>2, <1>7, <1>8, FoundIs
  <2>. QED
    BY <1>13, <2>1 DEF Usable, b
<1>15. ASSUME \A j \in 1..Len(chunk) : copies[<<j, 0>>] # 0
       PROVE  Split(b) = Texts(F, own)
  <2>1. e <= o + L + 1
    <3>1. CASE o + L = Len(s)
      BY <1>2, <1>4, <1>9, <3>1
    <3>2. CASE \E j \in 1..Len(chunk) : off[j] = o + L
      <4>1. PICK j \in 1..Len(chunk) : off[j] = o + L
        BY <3>2
      <4>. DEFINE partj == PartOf(kinds, chunk, copies, j)
                  c0 == copies[<<j, 0>>]
      <4>2. partj = PartOf(kinds, chunk, copies, j) /\ c0 = copies[<<j, 0>>] /\ c0 # 0
        BY <1>15
      <4>9. Answers(s, off, kinds, chunk, copies) /\ j \in 1..Len(chunk)
        OBVIOUS
      <4>. HIDE DEF partj, c0
      <4>10. PartLies(s, off, chunk, j, partj, c0)
        BY <4>2, <4>9, PartAt
      <4>3. /\ Len(partj) \in Nat /\ c0 \in Nat /\ Len(partj) >= c0
            /\ \A k \in 1..Len(partj) : /\ off[j] + k \in 1..Len(s)
                                        /\ k <= c0 => s[off[j] + k] = Row(j)
        BY <4>10 DEF PartLies
      <4>4. 1 \in 1..Len(partj) /\ 1 <= c0
        BY <4>2, <4>3
      <4>5. s[o + L + 1] = Row(j) /\ o + L + 1 \in 1..Len(s)
        BY <4>1, <4>3, <4>4
      <4>6. s[o + L + 1].tag = "row"
        BY <4>5 DEF Row
      <4>7. ~(o + L + 1 \in (p + 1)..(e - 1))
        BY <1>9, <4>6
      <4>8. o + L + 1 >= p + 1
        BY <1>4, <1>6, <1>7
      <4>. QED
        BY <1>2, <1>4, <1>7, <4>7, <4>8
    <3>. QED
      BY <1>4, <3>1, <3>2
  <2>2. e = o + L + 1
    BY <1>2, <1>4, <1>10, <2>1
  <2>3. Len(b) = l1 + l2 + l3 + 2
    <3>1. e - 1 - p = L - 1
      BY <1>4, <1>7, <2>2
    <3>2. L - 1 = l1 + l2 + l3 + 2
      BY <1>6
    <3>. QED
      BY <1>9, <3>1, <3>2
  <2>4. \A k \in 1..l1 : b[k] = t1[k]
    <3>. TAKE k \in 1..l1
    <3>1. k \in Nat /\ k >= 1 /\ k + 1 <= L /\ k + 1 = 1 + k
      BY <1>6
    <3>2. b[k] = part[k + 1]
      BY <1>11, <3>1
    <3>. QED
      BY <1>6, <3>1, <3>2
  <2>5. \A k \in 1..l2 : b[l1 + 1 + k] = t2[k]
    <3>. TAKE k \in 1..l2
    <3>1. l1 + 1 + k \in Nat /\ l1 + 1 + k >= 1 /\ (l1 + 1 + k) + 1 <= L /\ (l1 + 1 + k) + 1 = l1 + 2 + k
      BY <1>6
    <3>2. b[l1 + 1 + k] = part[l1 + 2 + k]
      BY <1>11, <3>1
    <3>. QED
      BY <1>6, <3>2
  <2>6. \A k \in 1..l3 : b[l1 + l2 + 2 + k] = t3[k]
    <3>. TAKE k \in 1..l3
    <3>1. /\ l1 + l2 + 2 + k \in Nat /\ l1 + l2 + 2 + k >= 1 /\ (l1 + l2 + 2 + k) + 1 <= L
          /\ (l1 + l2 + 2 + k) + 1 = l1 + l2 + 3 + k
      BY <1>6
    <3>2. b[l1 + l2 + 2 + k] = part[l1 + l2 + 3 + k]
      BY <1>11, <3>1
    <3>. QED
      BY <1>6, <3>2
  <2>7. Split(b) = <<t1, t2, t3>>
    <3>1. Parted(b, t1, t2, t3)
      BY <1>5, <1>9, <1>12, <2>3, <2>4, <2>5, <2>6 DEF Parted, l1, l2, l3
    <3>. QED
      BY <3>1, SplitExact
  <2>8. Texts(F, own) = <<t1, t2, t3>>
    BY DEF Text, Texts, t1, t2, t3
  <2>. QED
    BY <2>7, <2>8
<1>. QED
  BY <1>8, <1>14, <1>15 DEF p, b, o

\* What is decoded: of each id the usable body of some row with the id.
BodiesOf(d, s, ids) ==
    \A id \in DOMAIN d : \E p \in Usable(s) : ids[s[p].of] = id /\ d[id] = Split(Body(s, p))

\* _decode_chunk: an id has fields if a row with it has a usable body.
LEMMA DecodeIs ==
    ASSUME NEW s, NEW off, NEW kinds, NEW chunk, NEW copies, Answers(s, off, kinds, chunk, copies), NEW ids
    PROVE  /\ BodiesOf(Decode(s, ids), s, ids)
           /\ DOMAIN Decode(s, ids) = {ids[s[p].of] : p \in Usable(s)}
<1>. DEFINE idAt == [p \in Usable(s) |-> ids[s[p].of]]
            At(id) == {p \in DOMAIN idAt : idAt[p] = id}
            d == Decode(s, ids)
<1>1. d = [id \in Range(idAt) |-> Split(Body(s, Max(At(id))))]
  BY DEF Decode
<1>2. Range(idAt) = {ids[s[p].of] : p \in Usable(s)} /\ DOMAIN idAt = Usable(s)
  BY DEF Range
<1>3. Len(s) \in Nat /\ Usable(s) \subseteq 0..Len(s)
  <2>1. s \in Seq(Token)
    BY DEF Answers
  <2>2. Len(s) \in Nat /\ Found(s, "row") \subseteq 1..Len(s)
    BY <2>1, FoundIs
  <2>3. Usable(s) \subseteq Found(s, "row")
    BY DEF Usable
  <2>. QED
    BY <2>2, <2>3
<1>4. ASSUME NEW id \in DOMAIN d
      PROVE  \E p \in Usable(s) : ids[s[p].of] = id /\ d[id] = Split(Body(s, p))
  <2>1. id \in Range(idAt) /\ d[id] = Split(Body(s, Max(At(id))))
    <3>. HIDE DEF d, idAt, At
    <3>. QED
      BY <1>1, <1>4
  <2>2. At(id) \subseteq 0..Len(s) /\ At(id) # {}
    BY <1>2, <1>3, <2>1
  <2>3. Max(At(id)) \in At(id)
    <3>. HIDE DEF At
    <3>. QED
      BY <1>3, <2>2, MaxIsGreatest
  <2>. DEFINE p == Max(At(id))
  <2>. HIDE DEF d, p
  <2>4. p \in Usable(s) /\ ids[s[p].of] = id
    <3>1. p \in At(id)
      BY <2>3 DEF p
    <3>. QED
      BY <3>1
  <2>5. d[id] = Split(Body(s, p))
    BY <2>1 DEF p
  <2>. QED
    BY <2>4, <2>5
<1>5. DOMAIN d = {ids[s[p].of] : p \in Usable(s)}
  <2>. HIDE DEF d, idAt, At
  <2>. QED
    BY <1>1, <1>2
<1>. QED
  BY <1>4, <1>5 DEF BodiesOf

\* The same by rows.  A row with all its markers is found under its id.  What is
\* found under an id was a row with that id, and has its explanation if that came
\* back; while no ROW marker is lost it has no words but that row's, and if the
\* row has all its markers it has the fields that came back, each in its place.
FoundOf(fields, kinds, chunk, copies, i) ==
    /\ DOMAIN fields = 1..3
    /\ Has(Kept(kinds[chunk[i]], copies, i), 1) => fields[1] # <<>>
    /\ (\A j \in 1..Len(chunk) : copies[<<j, 0>>] # 0) =>
          /\ \A f \in 1..3 : \A token \in ToSet(fields[f]) :
                 token.tag = "words" => token.of = chunk[i]
          /\ Unharmed(copies, i) => fields = Texts(Kept(kinds[chunk[i]], copies, i), chunk[i])

\* What comes back of a call, as _translate_chunk sees it.
LEMMA DecodedRows ==
    ASSUME NEW kinds, NEW chunk, IsChunk(kinds, chunk), NEW copies, AreCopies(copies, Len(chunk)),
           NEW backwards \in BOOLEAN, NEW ids,
           NEW decoded, decoded = Decode(Answer(kinds, chunk, copies, backwards), ids)
    PROVE  /\ DOMAIN decoded \subseteq {ids[i] : i \in 1..Len(chunk)}
           /\ \A i \in 1..Len(chunk) : Unharmed(copies, i) => ids[i] \in DOMAIN decoded
           /\ \A id \in DOMAIN decoded : \E i \in 1..Len(chunk) :
                 ids[i] = id /\ FoundOf(decoded[id], kinds, chunk, copies, i)
<1>. DEFINE s == Answer(kinds, chunk, copies, backwards)
<1>1. s \in Seq(Token) /\ \E off : Placed(s, Parts(kinds, chunk, copies), off)
  BY AnswerIs
<1>. HIDE DEF s
<1>2. PICK off : Placed(s, Parts(kinds, chunk, copies), off)
  BY <1>1
<1>3. Answers(s, off, kinds, chunk, copies) /\ decoded = Decode(s, ids)
  BY <1>1, <1>2 DEF Answers, s
<1>4. /\ DOMAIN decoded = {ids[s[p].of] : p \in Usable(s)}
      /\ \A id \in DOMAIN decoded : \E p \in Usable(s) : ids[s[p].of] = id /\ decoded[id] = Split(Body(s, p))
  <2>1. Answers(s, off, kinds, chunk, copies)
    BY <1>3
  <2>2. BodiesOf(Decode(s, ids), s, ids)
    BY <2>1, DecodeIs
  <2>3. DOMAIN Decode(s, ids) = {ids[s[p].of] : p \in Usable(s)}
    BY <2>1, DecodeIs
  <2>4. decoded = Decode(s, ids)
    BY <1>3
  <2>. QED
    BY <2>2, <2>3, <2>4 DEF BodiesOf
<1>5. \A p \in Usable(s) : s[p].of \in 1..Len(chunk)
  BY <1>1, <1>2, UsableIs
<1>6. ASSUME NEW i \in 1..Len(chunk), Unharmed(copies, i) PROVE ids[i] \in DOMAIN decoded
  <2>1. off[i] + 1 \in Usable(s) /\ s[off[i] + 1].of = i
    BY <1>3, <1>6, UnharmedIs
  <2>. QED
    BY <1>4, <2>1
<1>7. ASSUME NEW id \in DOMAIN decoded
      PROVE  \E i \in 1..Len(chunk) : ids[i] = id /\ FoundOf(decoded[id], kinds, chunk, copies, i)
  <2>1. PICK p \in Usable(s) : ids[s[p].of] = id /\ decoded[id] = Split(Body(s, p))
    BY <1>4
  <2>. DEFINE i == s[p].of
  <2>2. i \in 1..Len(chunk) /\ ids[i] = id
    BY <1>5, <2>1
  <2>3. /\ p \in 1..Len(s) /\ Cardinality(Found(Body(s, p), "fld")) >= 2
        /\ copies[<<i, 0>>] >= 1 /\ p = off[i] + copies[<<i, 0>>]
    BY <1>1, <1>2, UsableIs
  <2>4. DOMAIN decoded[id] = 1..3
    <3>1. Body(s, p) \in Seq(Token)
      BY <1>1, <2>3, BodyIs
    <3>. QED
      BY <2>1, <2>3, <3>1, SplitKeeps
  <2>5. Has(Kept(kinds[chunk[i]], copies, i), 1) => decoded[id][1] # <<>>
    BY <1>3, <2>1, FirstFieldIs
  <2>6. ASSUME \A j \in 1..Len(chunk) : copies[<<j, 0>>] # 0
        PROVE  /\ \A f \in 1..3 : \A token \in ToSet(decoded[id][f]) :
                      token.tag = "words" => token.of = chunk[i]
               /\ Unharmed(copies, i) => decoded[id] = Texts(Kept(kinds[chunk[i]], copies, i), chunk[i])
    <3>1. \A f \in 1..3 : \A token \in ToSet(Split(Body(s, p))[f]) :
             token.tag = "words" => token.of = chunk[i]
      BY <1>3, <2>6, OwnWords
    <3>2. Unharmed(copies, i) => Split(Body(s, p)) = Texts(Kept(kinds[chunk[i]], copies, i), chunk[i])
      <4>. SUFFICES ASSUME Unharmed(copies, i)
                    PROVE  Split(Body(s, p)) = Texts(Kept(kinds[chunk[i]], copies, i), chunk[i])
        OBVIOUS
      <4>1. Split(Body(s, off[i] + 1)) = Texts(Kept(kinds[chunk[i]], copies, i), chunk[i])
        <5>. HIDE DEF i
        <5>. QED
          BY <1>3, <2>2, <2>6, UnharmedIs
      <4>2. copies[<<i, 0>>] = 1
        BY DEF Unharmed
      <4>. QED
        BY <2>3, <4>1, <4>2
    <3>. QED
      BY <2>1, <3>1, <3>2
  <2>. HIDE DEF i
  <2>7. FoundOf(decoded[id], kinds, chunk, copies, i)
    BY <2>4, <2>5, <2>6 DEF FoundOf
  <2>. QED
    BY <2>2, <2>7
<1>. QED
  BY <1>4, <1>5, <1>6, <1>7

-----------------------------------------------------------------------------
(* Chunks.                                                                 *)

\* The positions first, first + 1, ..., one after the other.
Consecutive(c) == \A k \in 1..Len(c) : c[k] = c[1] + k - 1

\* Chunks that go on from one another up to position n.
QueueOf(chunks, n) ==
    /\ chunks \in Seq(Seq(Nat))
    /\ \A i \in 1..Len(chunks) :
          /\ chunks[i] # <<>> /\ Consecutive(chunks[i])
          /\ chunks[i][1] >= 1 /\ chunks[i][1] + Len(chunks[i]) <= n + 1
          /\ i = Len(chunks) => chunks[i][1] + Len(chunks[i]) = n + 1
          /\ i < Len(chunks) => chunks[i][1] + Len(chunks[i]) = chunks[i + 1][1]

\* A chunk of a queue: different positions of the rows.
LEMMA ChunkAt ==
    ASSUME NEW n \in Nat, NEW chunks, QueueOf(chunks, n), NEW i \in 1..Len(chunks)
    PROVE  /\ Len(chunks) \in Nat /\ chunks[i] \in Seq(Nat) /\ Len(chunks[i]) \in Nat /\ Len(chunks[i]) >= 1
           /\ DOMAIN chunks[i] = 1..Len(chunks[i]) /\ chunks[i][1] \in Nat
           /\ \A k \in 1..Len(chunks[i]) : chunks[i][k] \in 1..n
           /\ \A k, l \in 1..Len(chunks[i]) : chunks[i][k] = chunks[i][l] => k = l
<1>. DEFINE c == chunks[i]
<1>1. Len(chunks) \in Nat /\ c \in Seq(Nat)
  BY LenProperties, ElementOfSeq DEF QueueOf
<1>2. Len(c) \in Nat /\ DOMAIN c = 1..Len(c)
  BY <1>1, LenProperties
<1>3. c # <<>> /\ Consecutive(c) /\ c[1] >= 1 /\ c[1] + Len(c) <= n + 1
  BY DEF QueueOf
<1>. HIDE DEF c
<1>4. Len(c) >= 1 /\ c[1] \in Nat
  <2>1. Len(c) # 0
    BY <1>1, <1>3, EmptySeq
  <2>2. 1 \in 1..Len(c)
    BY <1>2, <2>1
  <2>. QED
    BY <1>1, <1>2, <2>2, ElementOfSeq
<1>5. \A k \in 1..Len(c) : c[k] = c[1] + k - 1
  BY <1>3 DEF Consecutive
<1>6. \A k \in 1..Len(c) : c[k] \in 1..n
  BY <1>2, <1>3, <1>4, <1>5
<1>7. \A k, l \in 1..Len(c) : c[k] = c[l] => k = l
  BY <1>2, <1>4, <1>5
<1>. QED
  BY <1>1, <1>2, <1>4, <1>6, <1>7 DEF c

\* A row is a chunk of its own after the others, or the last of the last chunk.
LEMMA QueueBegins ==
    ASSUME NEW n \in Nat, NEW chunks, QueueOf(chunks, n), NEW c, c = <<n + 1>>,
           NEW q, q = Append(chunks, c)
    PROVE  QueueOf(q, n + 1)
<1>. DEFINE m == Len(chunks)
<1>1. chunks \in Seq(Seq(Nat)) /\ m \in Nat
  BY LenProperties DEF QueueOf
<1>2. c \in Seq(Nat) /\ Len(c) = 1 /\ c[1] = n + 1 /\ c # <<>>
  OBVIOUS
<1>3. q \in Seq(Seq(Nat)) /\ Len(q) = m + 1 /\ (\A i \in 1..m : q[i] = chunks[i]) /\ q[m + 1] = c
  BY <1>1, <1>2, AppendProperties
<1>4. Consecutive(c)
  BY <1>2 DEF Consecutive
<1>5. ASSUME NEW i \in 1..Len(q)
      PROVE  /\ q[i] # <<>> /\ Consecutive(q[i])
             /\ q[i][1] >= 1 /\ q[i][1] + Len(q[i]) <= n + 2
             /\ i = Len(q) => q[i][1] + Len(q[i]) = n + 2
             /\ i < Len(q) => q[i][1] + Len(q[i]) = q[i + 1][1]
  <2>1. CASE i = m + 1
    BY <1>1, <1>2, <1>3, <1>4, <2>1
  <2>2. CASE i # m + 1
    <3>1. i \in 1..m /\ q[i] = chunks[i] /\ i # Len(q)
      BY <1>1, <1>3, <2>2
    <3>2. /\ chunks[i] # <<>> /\ Consecutive(chunks[i])
          /\ chunks[i][1] >= 1 /\ chunks[i][1] + Len(chunks[i]) <= n + 1
          /\ i = m => chunks[i][1] + Len(chunks[i]) = n + 1
          /\ i < m => chunks[i][1] + Len(chunks[i]) = chunks[i + 1][1]
      BY <3>1 DEF QueueOf
    <3>3. Len(chunks[i]) \in Nat /\ chunks[i][1] \in Nat
      BY <3>1, ChunkAt
    <3>4. q[i][1] + Len(q[i]) = q[i + 1][1]
      <4>1. CASE i = m
        BY <1>2, <1>3, <3>1, <3>2, <4>1
      <4>2. CASE i # m
        <5>1. i < m /\ i + 1 \in 1..m
          BY <1>1, <3>1, <4>2
        <5>. QED
          BY <1>3, <3>1, <3>2, <5>1
      <4>. QED
        BY <4>1, <4>2
    <3>. QED
      BY <3>1, <3>2, <3>3, <3>4
  <2>. QED
    BY <2>1, <2>2
<1>6. (n + 1) + 1 = n + 2
  OBVIOUS
<1>. QED
  BY <1>3, <1>5, <1>6 DEF QueueOf

\* The next row at the end of the last chunk.
LEMMA QueueGrows ==
    ASSUME NEW n \in Nat, NEW full \in Seq(Seq(Nat)), NEW open \in Seq(Nat), open # <<>>,
           NEW chunks, chunks = Append(full, open), QueueOf(chunks, n),
           NEW c, c = Append(open, n + 1), NEW q, q = Append(full, c)
    PROVE  QueueOf(q, n + 1) /\ c[1] = open[1]
<1>. DEFINE m == Len(full)
            l == Len(open)
<1>1. /\ m \in Nat /\ l \in Nat /\ Len(chunks) = m + 1 /\ chunks[m + 1] = open
      /\ \A i \in 1..m : chunks[i] = full[i]
  BY AppendProperties, LenProperties
<1>2. c \in Seq(Nat) /\ c # <<>> /\ Len(c) = l + 1 /\ (\A k \in 1..l : c[k] = open[k]) /\ c[l + 1] = n + 1
  BY AppendProperties
<1>3. q \in Seq(Seq(Nat)) /\ Len(q) = m + 1 /\ (\A i \in 1..m : q[i] = full[i]) /\ q[m + 1] = c
  BY <1>2, AppendProperties
<1>. HIDE DEF m, l
<1>4. m + 1 \in 1..Len(chunks)
  BY <1>1
<1>5. /\ l >= 1 /\ open[1] \in Nat /\ Consecutive(open)
      /\ open[1] >= 1 /\ open[1] + l = n + 1
  <2>1. /\ Consecutive(chunks[m + 1]) /\ chunks[m + 1][1] >= 1
        /\ (m + 1 = Len(chunks) => chunks[m + 1][1] + Len(chunks[m + 1]) = n + 1)
    BY <1>4 DEF QueueOf
  <2>2. Len(chunks[m + 1]) >= 1 /\ chunks[m + 1][1] \in Nat
    BY <1>4, ChunkAt
  <2>. QED
    BY <1>1, <2>1, <2>2 DEF l
<1>6. c[1] = open[1] /\ Consecutive(c)
  <2>1. c[1] = open[1]
    BY <1>1, <1>2, <1>5
  <2>2. \A k \in 1..l : open[k] = open[1] + k - 1
    BY <1>5 DEF Consecutive, l
  <2>3. ASSUME NEW k \in 1..(l + 1) PROVE c[k] = c[1] + k - 1
    <3>1. CASE k = l + 1
      BY <1>1, <1>2, <1>5, <2>1, <3>1
    <3>2. CASE k # l + 1
      <4>1. k \in 1..l
        BY <1>1, <3>2
      <4>. QED
        BY <1>2, <2>1, <2>2, <4>1
    <3>. QED
      BY <3>1, <3>2
  <2>. QED
    BY <1>2, <2>1, <2>3 DEF Consecutive
<1>7. ASSUME NEW i \in 1..Len(q)
      PROVE  /\ q[i] # <<>> /\ Consecutive(q[i])
             /\ q[i][1] >= 1 /\ q[i][1] + Len(q[i]) <= n + 2
             /\ i = Len(q) => q[i][1] + Len(q[i]) = n + 2
             /\ i < Len(q) => q[i][1] + Len(q[i]) = q[i + 1][1]
  <2>1. CASE i = m + 1
    <3>1. q[i] = c /\ ~(i < Len(q))
      BY <1>1, <1>3, <2>1
    <3>2. c[1] + Len(c) = n + 2 /\ c[1] >= 1 /\ n + 2 <= n + 2
      <4>. DEFINE a == open[1]
      <4>1. a \in Nat /\ l \in Nat /\ a + l = n + 1 /\ a >= 1
        BY <1>1, <1>5
      <4>2. c[1] = a /\ Len(c) = l + 1
        BY <1>2, <1>6
      <4>. HIDE DEF a
      <4>3. a + (l + 1) = n + 2
        BY <4>1
      <4>4. n + 2 <= n + 2
        OBVIOUS
      <4>. QED
        BY <4>1, <4>2, <4>3, <4>4
    <3>. QED
      BY <1>2, <1>6, <3>1, <3>2
  <2>2. CASE i # m + 1
    <3>1. i \in 1..m /\ q[i] = chunks[i] /\ i \in 1..Len(chunks) /\ i < Len(chunks) /\ i # Len(q)
      BY <1>1, <1>3, <2>2
    <3>2. /\ chunks[i] # <<>> /\ Consecutive(chunks[i])
          /\ chunks[i][1] >= 1 /\ chunks[i][1] + Len(chunks[i]) <= n + 1
          /\ i < Len(chunks) => chunks[i][1] + Len(chunks[i]) = chunks[i + 1][1]
      BY <3>1 DEF QueueOf
    <3>3. Len(chunks[i]) \in Nat /\ chunks[i][1] \in Nat
      BY <3>1, ChunkAt
    <3>4. q[i + 1][1] = chunks[i + 1][1]
      <4>1. CASE i = m
        BY <1>1, <1>3, <1>6, <4>1
      <4>2. CASE i # m
        <5>1. i + 1 \in 1..m
          BY <1>1, <3>1, <4>2
        <5>. QED
          BY <1>1, <1>3, <5>1
      <4>. QED
        BY <4>1, <4>2
    <3>5. chunks[i][1] + Len(chunks[i]) <= n + 2
      <4>. DEFINE a == chunks[i][1]
                  b == Len(chunks[i])
      <4>1. a \in Nat /\ b \in Nat /\ a + b <= n + 1
        BY <3>2, <3>3
      <4>. HIDE DEF a, b
      <4>2. a + b <= n + 2
        BY <4>1
      <4>. QED
        BY <4>2 DEF a, b
    <3>. QED
      BY <3>1, <3>2, <3>4, <3>5
  <2>. QED
    BY <2>1, <2>2
<1>8. (n + 1) + 1 = n + 2
  OBVIOUS
<1>. QED
  BY <1>3, <1>6, <1>7, <1>8 DEF QueueOf
\* _pack_chunks puts every row in one chunk, in the order of the rows.
LEMMA PackIs ==
    ASSUME NEW n \in Nat, n # 0, NEW kinds, Len(kinds) = n
    PROVE  QueueOf(Pack(kinds), n) /\ Pack(kinds) # <<>> /\ Pack(kinds)[1][1] = 1
<1>. DEFINE Step(f, p) ==
                IF p = 0 THEN [full |-> <<>>, open |-> <<>>]
                ELSE LET last == f[p - 1]
                     IN  IF last.open # <<>>
                            /\ TotalWeight([i \in DOMAIN last.open |-> kinds[last.open[i]]])
                                  + Weight(kinds[p]) > Cap
                         THEN [full |-> Append(last.full, last.open), open |-> <<p>>]
                         ELSE [last EXCEPT !.open = Append(@, p)]
            Packs(f, m) == f = [p \in 0..m |-> Step(f, p)]
            all == Packed(kinds)
<1>1. \E f : Packs(f, n)
  <2>. DEFINE Odd == {m \in 0..n : ~ \E f : Packs(f, m)}
  <2>. SUFFICES ASSUME Odd # {} PROVE FALSE
    <3>1. n \in 0..n
      OBVIOUS
    <3>. HIDE DEF Packs
    <3>. QED
      BY <3>1, Zenon
  <2>1. Odd \subseteq Nat
    <3>. HIDE DEF Packs
    <3>1. \A m \in Odd : m \in 0..n
      BY Zenon
    <3>. HIDE DEF Odd
    <3>. QED
      BY <3>1
  <2>2. PICK m \in Odd : \A l \in Odd : m <= l
    <3>. HIDE DEF Odd
    <3>. QED
      BY <2>1, LeastNumber
  <2>3. m \in 0..n /\ ~ \E f : Packs(f, m)
    BY <2>2
  <2>4. m # 0
    <3>. DEFINE g == [p \in 0..0 |-> [full |-> <<>>, open |-> <<>>]]
    <3>1. \A p \in 0..0 : Step(g, p) = [full |-> <<>>, open |-> <<>>]
      <4>1. \A p \in 0..0 : p = 0
        OBVIOUS
      <4>2. Step(g, 0) = [full |-> <<>>, open |-> <<>>]
        BY Zenon
      <4>. HIDE DEF Step, g
      <4>. QED
        BY <4>1, <4>2
    <3>2. Packs(g, 0)
      <4>. HIDE DEF Step
      <4>. QED
        BY <3>1
    <3>. HIDE DEF Packs
    <3>. QED
      BY <2>3, <3>2
  <2>5. PICK f : Packs(f, m - 1)
    <3>1. m - 1 \in 0..n /\ ~(m <= m - 1)
      <4>1. m \in Nat /\ m # 0 /\ n \in Nat /\ m <= n
        <5>. HIDE DEF Step, Packs, Odd
        <5>. QED
          BY <2>3, <2>4
      <4>. QED
        BY <4>1
    <3>2. m - 1 \notin Odd
      <4>. HIDE DEF Odd
      <4>. QED
        BY <2>2, <3>1
    <3>. HIDE DEF Packs
    <3>. QED
      BY <3>1, <3>2
  <2>. DEFINE g == [p \in 0..m |-> IF p < m THEN f[p] ELSE Step(f, m)]
  <2>6. \A p \in 0..m : p # 0 => g[p - 1] = f[p - 1]
    <3>. HIDE DEF Step
    <3>. QED
      BY <2>3
  <2>7. \A p \in 0..m : Step(g, p) = Step(f, p)
    <3>. HIDE DEF g
    <3>. QED
      BY <2>6
  <2>8. \A p \in 0..m : g[p] = Step(f, p)
    <3>. HIDE DEF Step
    <3>1. \A p \in 0..(m - 1) : f[p] = Step(f, p)
      BY <2>5
    <3>2. \A p \in 0..m : p < m => p \in 0..(m - 1)
      BY <2>3
    <3>3. \A p \in 0..m : ~(p < m) => p = m
      BY <2>3
    <3>. QED
      BY <3>1, <3>2, <3>3
  <2>9. Packs(g, m)
    <3>. HIDE DEF Step
    <3>1. g = [p \in 0..m |-> g[p]]
      OBVIOUS
    <3>. HIDE DEF g
    <3>2. [p \in 0..m |-> g[p]] = [p \in 0..m |-> Step(g, p)]
      BY <2>7, <2>8
    <3>. QED
      BY <3>1, <3>2
  <2>. HIDE DEF Packs, g
  <2>. QED
    BY <2>3, <2>9
<1>2. Packs(all, n)
  <2>1. all = CHOOSE f : Packs(f, n)
    BY DEF Packed
  <2>. HIDE DEF Packs, all
  <2>. QED
    BY <1>1, <2>1
<1>. HIDE DEF all
<1>3. \A p \in 0..n : all[p] = Step(all, p)
  <2>. HIDE DEF Step
  <2>. QED
    BY <1>2, Zenon
<1>. DEFINE q(p) == Append(all[p].full, all[p].open)
            Good(p) == /\ all[p] = [full |-> all[p].full, open |-> all[p].open]
                       /\ all[p].full \in Seq(Seq(Nat)) /\ all[p].open \in Seq(Nat)
                       /\ all[p].open # <<>>
                       /\ QueueOf(q(p), p) /\ q(p)[1][1] = 1
<1>4. Good(1)
  <2>1. all[0] = [full |-> <<>>, open |-> <<>>]
    <3>1. all[0] = Step(all, 0)
      <4>. HIDE DEF Step
      <4>. QED
        BY <1>3
    <3>. QED
      BY <3>1, Zenon
  <2>2. all[1] = [full |-> <<>>, open |-> <<1>>]
    <3>1. 1 \in 0..n /\ 1 # 0 /\ 1 - 1 = 0
      OBVIOUS
    <3>2. all[1] = [all[0] EXCEPT !.open = Append(@, 1)]
      <4>1. all[1] = Step(all, 1)
        <5>. HIDE DEF Step
        <5>. QED
          BY <1>3, <3>1
      <4>2. ~(all[1 - 1].open # <<>>)
        BY <2>1, <3>1
      <4>3. Step(all, 1) = [all[1 - 1] EXCEPT !.open = Append(@, 1)]
        BY <3>1, <4>2, Zenon
      <4>. QED
        BY <3>1, <4>1, <4>3
    <3>. QED
      BY <2>1, <3>2
  <2>3. all[1].full = <<>> /\ all[1].open = <<1>> /\ q(1) = << <<1>> >>
    BY <2>2
  <2>. DEFINE c == <<1>>
              one == Append(<<>>, c)
  <2>4. QueueOf(<<>>, 0)
    BY DEF QueueOf
  <2>5. QueueOf(one, 1)
    <3>1. 0 \in Nat /\ c = <<0 + 1>> /\ 0 + 1 = 1
      OBVIOUS
    <3>. QED
      BY <2>4, <3>1, QueueBegins
  <2>6. one = << <<1>> >> /\ << <<1>> >>[1][1] = 1
    OBVIOUS
  <2>. QED
    BY <2>2, <2>3, <2>5, <2>6
<1>5. ASSUME NEW p \in 1..n, p # n, Good(p) PROVE Good(p + 1)
  <2>. DEFINE full == all[p].full
              open == all[p].open
              next == all[p + 1]
  <2>1. p + 1 \in 0..n /\ p + 1 # 0 /\ (p + 1) - 1 = p /\ p \in Nat
    <3>1. p \in 1..n /\ p # n
      BY <1>5
    <3>. QED
      BY <3>1
  <2>2. \/ next = [full |-> Append(full, open), open |-> <<p + 1>>]
        \/ next = [full |-> full, open |-> Append(open, p + 1)]
    <3>1. \/ next = [full |-> Append(full, open), open |-> <<p + 1>>]
          \/ next = [all[p] EXCEPT !.open = Append(@, p + 1)]
      BY <1>3, <2>1
    <3>2. [all[p] EXCEPT !.open = Append(@, p + 1)] = [full |-> full, open |-> Append(open, p + 1)]
      <4>1. all[p] = [full |-> full, open |-> open]
        BY <1>5
      <4>. HIDE DEF full, open
      <4>. QED
        BY <4>1
    <3>. QED
      BY <3>1, <3>2
  <2>3. /\ full \in Seq(Seq(Nat)) /\ open \in Seq(Nat) /\ open # <<>>
        /\ QueueOf(Append(full, open), p) /\ Append(full, open)[1][1] = 1
    BY <1>5
  <2>. DEFINE old == Append(full, open)
  <2>. HIDE DEF full, open
  <2>4. old \in Seq(Seq(Nat)) /\ Len(old) = Len(full) + 1 /\ Len(full) \in Nat
        /\ (\A i \in 1..Len(full) : old[i] = full[i]) /\ old[Len(full) + 1] = open
    BY <2>3, AppendProperties, LenProperties
  <2>5. CASE next = [full |-> old, open |-> <<p + 1>>]
    <3>. DEFINE c == <<p + 1>>
                new == Append(old, c)
    <3>1. c = <<p + 1>> /\ QueueOf(old, p) /\ c \in Seq(Nat) /\ c # <<>>
      BY <2>1, <2>3
    <3>2. QueueOf(new, p + 1)
      <4>1. new = Append(old, c)
        OBVIOUS
      <4>. HIDE DEF new, c
      <4>. QED
        BY <2>1, <3>1, <4>1, QueueBegins
    <3>3. next.full = old /\ next.open = c
      BY <2>5
    <3>. HIDE DEF c
    <3>4. new[1] = old[1]
      <4>1. 1 \in 1..Len(old)
        BY <2>4
      <4>. QED
        BY <2>4, <3>1, <4>1, AppendProperties
    <3>. HIDE DEF next, old, new
    <3>5. next = [full |-> next.full, open |-> next.open]
      BY <2>5, <3>3
    <3>6. Append(next.full, next.open) = new
      BY <3>3 DEF new
    <3>7. new[1][1] = 1
      BY <2>3, <3>4 DEF old
    <3>. QED
      BY <2>4, <3>1, <3>2, <3>3, <3>5, <3>6, <3>7 DEF next
  <2>6. CASE next = [full |-> full, open |-> Append(open, p + 1)]
    <3>. DEFINE c == Append(open, p + 1)
                new == Append(full, c)
    <3>1. c \in Seq(Nat) /\ c # <<>>
      <4>1. open \in Seq(Nat) /\ p + 1 \in Nat
        BY <2>1, <2>3
      <4>. QED
        BY <4>1, AppendProperties
    <3>2. QueueOf(new, p + 1) /\ c[1] = open[1]
      <4>1. new = Append(full, c) /\ c = Append(open, p + 1) /\ old = Append(full, open) /\ QueueOf(old, p)
        BY <2>3
      <4>. HIDE DEF new, c, old
      <4>2. full \in Seq(Seq(Nat)) /\ open \in Seq(Nat) /\ open # <<>> /\ p \in Nat
        BY <2>1, <2>3
      <4>3. QueueOf(new, p + 1)
        BY <4>1, <4>2, QueueGrows
      <4>4. c[1] = open[1]
        BY <4>1, <4>2, QueueGrows
      <4>. QED
        BY <4>3, <4>4
    <3>3. next.full = full /\ next.open = c
      BY <2>6
    <3>. HIDE DEF c
    <3>4. new[1][1] = old[1][1]
      <4>1. /\ \A i \in 1..Len(full) : new[i] = full[i]
            /\ new[Len(full) + 1] = c
        BY <2>3, <3>1, AppendProperties
      <4>2. CASE Len(full) = 0
        BY <2>4, <3>2, <4>1, <4>2
      <4>3. CASE Len(full) # 0
        <5>1. 1 \in 1..Len(full)
          BY <2>4, <4>3
        <5>. QED
          BY <2>4, <4>1, <5>1
      <4>. QED
        BY <4>2, <4>3
    <3>. HIDE DEF next, old, new
    <3>5. next = [full |-> next.full, open |-> next.open]
      BY <2>6, <3>3 DEF c
    <3>6. Append(next.full, next.open) = new
      BY <3>3 DEF new
    <3>7. new[1][1] = 1
      BY <2>3, <3>4 DEF old
    <3>. QED
      BY <2>3, <3>1, <3>2, <3>3, <3>5, <3>6, <3>7 DEF next
  <2>. QED
    BY <2>2, <2>5, <2>6
<1>6. Good(n)
  <2>. DEFINE Odd == {p \in 1..n : ~Good(p)}
  <2>. SUFFICES ASSUME ~Good(n) PROVE FALSE
    OBVIOUS
  <2>. HIDE DEF Good
  <2>1. Odd \subseteq Nat /\ Odd # {}
    BY n \in 1..n
  <2>2. PICK p \in Odd : \A l \in Odd : p <= l
    <3>. HIDE DEF Odd
    <3>. QED
      BY <2>1, LeastNumber
  <2>3. p \in 1..n /\ ~Good(p)
    BY <2>2
  <2>4. p - 1 \in 1..n /\ p - 1 # n /\ (p - 1) + 1 = p /\ ~(p <= p - 1)
    <3>1. p # 1
      BY <1>4, <2>3
    <3>. QED
      BY <2>3, <3>1
  <2>5. Good(p - 1)
    <3>1. p - 1 \notin Odd
      <4>. HIDE DEF Odd
      <4>. QED
        BY <2>2, <2>4
    <3>. QED
      BY <2>4, <3>1
  <2>. QED
    BY <1>5, <2>3, <2>4, <2>5
<1>7. Pack(kinds) = q(n)
  <2>1. Pack(kinds) = IF all[n].open = <<>> THEN all[n].full ELSE Append(all[n].full, all[n].open)
    BY DEF Pack, all
  <2>. QED
    BY <1>6, <2>1
<1>8. q(n) # <<>>
  <2>1. all[n].full \in Seq(Seq(Nat)) /\ all[n].open \in Seq(Nat)
    BY <1>6
  <2>. DEFINE f == all[n].full
              o == all[n].open
  <2>2. f \in Seq(Seq(Nat)) /\ o \in Seq(Nat)
    BY <2>1
  <2>. DEFINE S == Seq(Nat)
  <2>4. f \in Seq(S) /\ o \in S
    BY <2>2
  <2>. HIDE DEF f, o, S
  <2>3. Append(f, o) # <<>>
    BY <2>4, AppendProperties
  <2>. QED
    BY <2>3 DEF f, o
<1>. QED
  BY <1>6, <1>7, <1>8
=============================================================================
