---------------------------- MODULE TranslateChunk ----------------------------
(***************************************************************************)
(* How app/contracts/translate.py puts several rows of a rendition into    *)
(* one text for the translator and finds them again in what comes back.    *)
(*                                                                         *)
(* A text is a sequence of tokens: a ROW marker with its number, a FLD     *)
(* separator, or the words of one field of one row.  The translator gives  *)
(* a field's words back in the other language, or nothing in their place;  *)
(* of the markers it may lose some and repeat some, and it may move whole  *)
(* rows about.                                                             *)
(***************************************************************************)
EXTENDS Naturals, Sequences, FiniteSets, SequencesExt, FiniteSetsExt

CONSTANTS
    MaxRows,     \* bound: rows of a rendition
    MaxDamage    \* bound: markers lost or repeated in one answer

ASSUME BoundsAreNatural == MaxRows \in Nat /\ MaxDamage \in Nat

\* The rows Stage 3 writes, by the fields that are not empty and by length:
\* without an action, with nothing but an explanation or an implication, and too
\* long for a call.
Kinds == {"full", "plain", "bare", "mute", "long"}

FieldsOf(kind) ==
    CASE kind \in {"full", "long"} -> 1..3
      [] kind = "plain" -> 1..2
      [] kind = "bare" -> {1}
      [] kind = "mute" -> {2}

\* Lengths in thirds of _MAX_INPUT_CHARS.
Cap == 3

Weight(kind) ==
    CASE kind = "long" -> 4
      [] kind = "full" -> 2
      [] OTHER -> 1

TotalWeight(kinds) == FoldLeft(LAMBDA sum, kind : sum + Weight(kind), 0, kinds)

-----------------------------------------------------------------------------
Row(n) == [tag |-> "row", of |-> n, field |-> 0]
Fld == [tag |-> "fld", of |-> 0, field |-> 0]
Words(p, f) == [tag |-> "words", of |-> p, field |-> f]

\* The fields of the row at position p, with words in those of a set.
Texts(filled, p) == [f \in 1..3 |-> IF f \in filled THEN <<Words(p, f)>> ELSE <<>>]

\* A row that keeps its fields: in English, or translated field by field.
OwnFields(kind, p) == Texts(FieldsOf(kind), p)

\* The chunks that are full and the one that is open, after each row: the next
\* row begins a new chunk when it does not fit.
Packed(kinds) ==
    LET packed[p \in 0..Len(kinds)] ==
            IF p = 0 THEN [full |-> <<>>, open |-> <<>>]
            ELSE LET last == packed[p - 1]
                 IN  IF last.open # <<>>
                        /\ TotalWeight([i \in DOMAIN last.open |-> kinds[last.open[i]]])
                              + Weight(kinds[p]) > Cap
                     THEN [full |-> Append(last.full, last.open), open |-> <<p>>]
                     ELSE [last EXCEPT !.open = Append(@, p)]
    IN  packed

\* Mutated form: the chunk still open at the end of the rows is forgotten.
PackUnflushed(kinds) == Packed(kinds)[Len(kinds)].full

\* _pack_chunks: rows in their order, the open chunk last.
Pack(kinds) ==
    LET all == Packed(kinds)[Len(kinds)]
    IN  IF all.open = <<>> THEN all.full ELSE Append(all.full, all.open)

-----------------------------------------------------------------------------
\* The pieces <<i, k>> of the text for n rows: k = 0 is the row's own marker,
\* k = 1, 2 are its separators, k = 3, 4, 5 the words of its fields.
Pieces(n) == (1..n) \X (0..5)

\* What may happen to them: the number of copies that come back.  In the bound
\* a field left out counts for two markers.
Copies ==
    [n \in 1..MaxRows |->
        UNION {{[m \in Pieces(n) |-> IF m \in DOMAIN c THEN c[m] ELSE 1]
                   : c \in {d \in [hit -> {0, 2}] : \A m \in hit : m[2] > 2 => d[m] = 0}}
               : hit \in {h \in UNION {kSubset(k, Pieces(n)) : k \in 0..MaxDamage} :
                              Cardinality(h) + Cardinality({m \in h : m[2] > 2}) <= MaxDamage}}]

\* A row's markers came back as they were; the fields whose words came back.
Unharmed(copies, i) == \A k \in 0..2 : copies[<<i, k>>] = 1
Kept(kind, copies, i) == {f \in FieldsOf(kind) : copies[<<i, f + 2>>] # 0}

Times(n, token) == [i \in 1..n |-> token]

\* The translator's answer for the rows at positions chunk: _encode_chunk with
\* the damage done, the rows forwards or backwards.
Answer(kinds, chunk, copies, backwards) ==
    LET part(i) ==
            LET text == Texts(Kept(kinds[chunk[i]], copies, i), chunk[i])
            IN  Times(copies[<<i, 0>>], Row(i)) \o text[1]
                  \o Times(copies[<<i, 1>>], Fld) \o text[2]
                  \o Times(copies[<<i, 2>>], Fld) \o text[3]
        parts == [i \in DOMAIN chunk |-> part(i)]
    IN  FlattenSeq(IF backwards THEN Reverse(parts) ELSE parts)

Found(text, tag) == {p \in DOMAIN text : text[p].tag = tag}

\* What follows the marker at p, up to the next one.
Body(text, p) ==
    SubSeq(text, p + 1, Min({q \in Found(text, "row") : q > p} \cup {Len(text) + 1}) - 1)

\* A body cut at its separators: what follows the second one is the action.
Split(body) ==
    LET first == Min(Found(body, "fld"))
        second == Min(Found(body, "fld") \ {first})
    IN  <<SubSeq(body, 1, first - 1), SubSeq(body, first + 1, second - 1),
          SubSeq(body, second + 1, Len(body))>>

Usable(text) ==
    {p \in Found(text, "row") : Cardinality(Found(Body(text, p), "fld")) >= 2}

\* Mutated form: rows are numbered as they come back.
DecodeInOrder(text, ids) ==
    LET usable == Usable(text)
        rank == [p \in usable |-> Cardinality({q \in Found(text, "row") : q <= p})]
        idAt == [p \in {q \in usable : rank[q] \in DOMAIN ids} |-> ids[rank[p]]]
    IN  [id \in Range(idAt) |-> Split(Body(text, Max({p \in DOMAIN idAt : idAt[p] = id})))]

\* _decode_chunk: the fields by clause id, the last usable body of an id.
Decode(text, ids) ==
    LET idAt == [p \in Usable(text) |-> ids[text[p].of]]
    IN  [id \in Range(idAt) |-> Split(Body(text, Max({p \in DOMAIN idAt : idAt[p] = id})))]

\* Fewer rows than this and the whole answer is thrown away.
Enough(n) == Max({1, n \div 2})
=============================================================================
