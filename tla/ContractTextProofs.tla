------------------------- MODULE ContractTextProofs -------------------------
(***************************************************************************)
(* Theorems about ContractText, for any number of pages, clauses, rows and *)
(* damaged markers: the cards a worker reads, from what the models and the *)
(* translator answer.  The inductive invariant says which rows are settled *)
(* and what is recorded of them.                                           *)
(***************************************************************************)
EXTENDS ContractText, TranslateChunkProofs

-----------------------------------------------------------------------------
(* Rows and what is recorded of them.                                      *)

\* The positions of the rows.
LEMMA Positions ==
    ASSUME TypeOK
    PROVE  /\ Len(rendered) \in Nat /\ DOMAIN rendered = 1..Len(rendered) /\ Len(rendered) <= MaxRows
           /\ DOMAIN kindsOf = 1..Len(rendered) /\ Len(kindsOf) = Len(rendered)
           /\ \A p \in 1..Len(rendered) : rendered[p].id \in Ids /\ kindsOf[p] \in Kinds /\ p \in Nat
           /\ \A id : Rows(id) \subseteq 1..Len(rendered) /\ IsFiniteSet(Rows(id))
<1>. DEFINE n == Len(rendered)
<1>1. n \in Nat /\ DOMAIN rendered = 1..n /\ n <= MaxRows
  BY LenProperties DEF TypeOK
<1>2. \A p \in 1..n : rendered[p] \in [id : Ids, kind : Kinds]
  BY ElementOfSeq DEF TypeOK
<1>3. kindsOf = [p \in 1..n |-> rendered[p].kind]
  BY <1>1 DEF kindsOf
<1>4. DOMAIN kindsOf = 1..n /\ Len(kindsOf) = n
  BY <1>1, <1>3
<1>5. \A p \in 1..n : rendered[p].id \in Ids /\ kindsOf[p] \in Kinds /\ p \in Nat
  BY <1>1, <1>2, <1>3
<1>6. \A id : Rows(id) \subseteq 1..n /\ IsFiniteSet(Rows(id))
  <2>1. \A id : Rows(id) \subseteq 1..n
    BY <1>1 DEF Rows
  <2>2. IsFiniteSet(1..n)
    BY <1>1, FS_Interval
  <2>. QED
    BY <2>1, <2>2, FS_Subset
<1>. QED
  BY <1>1, <1>4, <1>5, <1>6

\* Of two rows with one id, when ids are distinct.
LEMMA DistinctRows ==
    ASSUME TypeOK, DistinctIds, NEW p \in 1..Len(rendered), NEW q \in 1..Len(rendered),
           rendered[p].id = rendered[q].id
    PROVE  p = q
<1>. DEFINE id == rendered[p].id
<1>1. id \in Ids /\ IsFiniteSet(Rows(id)) /\ p \in Rows(id) /\ q \in Rows(id)
  BY Positions DEF Rows
<1>2. Cardinality(Rows(id)) <= 1
  BY <1>1 DEF DistinctIds
<1>3. Cardinality(Rows(id)) \in Nat
  BY <1>1, FS_CardinalityType
<1>. HIDE DEF id
<1>4. ~(Cardinality(Rows(id)) >= 2)
  BY <1>2, <1>3
<1>. QED
  BY <1>1, <1>4, TwoOrMore

\* What is recorded under an id: the result of a row with the id, or what was.
NewOrKept(recorded, results) ==
    \A id \in DOMAIN recorded :
        \/ \E p \in DOMAIN results : rendered[p].id = id /\ recorded[id] = results[p]
        \/ /\ \A p \in DOMAIN results : rendered[p].id # id
           /\ id \in DOMAIN translated /\ recorded[id] = translated[id]

\* Recorded keeps what there is of the other ids.
LEMMA RecordedIs ==
    ASSUME TypeOK, NEW results, DOMAIN results \subseteq 1..Len(rendered),
           NEW recorded, recorded = Recorded(results)
    PROVE  /\ DOMAIN recorded = DOMAIN translated \cup {rendered[p].id : p \in DOMAIN results}
           /\ NewOrKept(recorded, results)
<1>. DEFINE rowsOf(id) == {p \in DOMAIN results : rendered[p].id = id}
<1>1. recorded = [id \in DOMAIN translated \cup {rendered[p].id : p \in DOMAIN results} |->
                    IF rowsOf(id) # {} THEN results[Max(rowsOf(id))] ELSE translated[id]]
  BY DEF Recorded
<1>2. DOMAIN recorded = DOMAIN translated \cup {rendered[p].id : p \in DOMAIN results}
  <2>. HIDE DEF rowsOf
  <2>. QED
    BY <1>1
<1>3. ASSUME NEW id \in DOMAIN recorded
      PROVE  \/ \E p \in DOMAIN results : rendered[p].id = id /\ recorded[id] = results[p]
             \/ /\ \A p \in DOMAIN results : rendered[p].id # id
                /\ id \in DOMAIN translated /\ recorded[id] = translated[id]
  <2>1. recorded[id] = IF rowsOf(id) # {} THEN results[Max(rowsOf(id))] ELSE translated[id]
    <3>. HIDE DEF rowsOf
    <3>. QED
      BY <1>1, <1>2
  <2>2. CASE rowsOf(id) # {}
    <3>1. Len(rendered) \in Nat /\ rowsOf(id) \subseteq 0..Len(rendered)
      BY Positions
    <3>2. Max(rowsOf(id)) \in rowsOf(id)
      <4>. HIDE DEF rowsOf
      <4>. QED
        BY <2>2, <3>1, MaxIsGreatest
    <3>3. recorded[id] = results[Max(rowsOf(id))]
      <4>. HIDE DEF rowsOf
      <4>. QED
        BY <2>1, <2>2
    <3>. DEFINE p == Max(rowsOf(id))
    <3>4. p \in rowsOf(id) /\ recorded[id] = results[p]
      BY <3>2, <3>3
    <3>. HIDE DEF p
    <3>. QED
      BY <3>4
  <2>3. CASE rowsOf(id) = {}
    <3>1. \A p \in DOMAIN results : rendered[p].id # id
      BY <2>3
    <3>2. recorded[id] = translated[id]
      <4>. HIDE DEF rowsOf
      <4>. QED
        BY <2>1, <2>3
    <3>3. id \in DOMAIN translated
      <4>. HIDE DEF rowsOf
      <4>. QED
        BY <1>2, <3>1
    <3>. QED
      BY <3>1, <3>2, <3>3
  <2>. QED
    BY <2>2, <2>3
<1>. QED
  BY <1>2, <1>3 DEF NewOrKept

\* A result for the rows with an id: explained if they are, unless nothing came
\* back of an explanation, and with no action where they have none; English only
\* if a row of theirs is among the hurt.
Explained(result, id, gone) ==
    /\ (\A p \in Rows(id) : 1 \in FieldsOf(kindsOf[p]) /\ <<p, 1>> \notin gone) => result.fields[1] # <<>>
    /\ (\A p \in Rows(id) : 3 \notin FieldsOf(kindsOf[p])) => result.fields[3] = <<>>
Caused(result, id, hurt) == result.lang = "en" => Rows(id) \cap hurt # {}

\* A row's own fields, but for those of which nothing came back.
Still(fields, p, gone) ==
    \A f \in 1..3 : \/ fields[f] = OwnFields(kindsOf[p], p)[f]
                    \/ fields[f] = <<>> /\ <<p, f>> \in gone

\* A result for a row of an id of its own.
Own(result, p, hurt, gone) ==
    /\ \A f \in 1..3 : \A token \in ToSet(result.fields[f]) : token.tag = "words" => token.of = p
    /\ p \notin hurt => Still(result.fields, p, gone)

\* The results recorded so far, of the ids and of the rows.
RowsAre(results, hurt, gone) ==
    \A id \in DOMAIN results : Explained(results[id], id, gone) /\ Caused(results[id], id, hurt)
WordsAre(results, hurt, gone) ==
    \A p \in DOMAIN rendered :
        rendered[p].id \in DOMAIN results => Own(results[rendered[p].id], p, hurt, gone)

\* What is right of a result stays right when more is damaged or left out.
LEMMA StaysRight ==
    ASSUME NEW result, NEW id, NEW p, NEW hurt, NEW wounded, hurt \subseteq wounded,
           NEW gone, NEW lacking, gone \subseteq lacking
    PROVE  /\ Explained(result, id, gone) => Explained(result, id, lacking)
           /\ Caused(result, id, hurt) => Caused(result, id, wounded)
           /\ Own(result, p, hurt, gone) => Own(result, p, wounded, lacking)
<1>1. \A x : x \notin lacking => x \notin gone
  OBVIOUS
<1>2. Explained(result, id, gone) => Explained(result, id, lacking)
  BY <1>1 DEF Explained
<1>3. Caused(result, id, hurt) => Caused(result, id, wounded)
  BY DEF Caused
<1>4. Still(result.fields, p, gone) => Still(result.fields, p, lacking)
  BY DEF Still
<1>5. Own(result, p, hurt, gone) => Own(result, p, wounded, lacking)
  BY <1>4 DEF Own
<1>. QED
  BY <1>2, <1>3, <1>5

\* Recording right results leaves all right, by id ...
LEMMA RecordedRows ==
    ASSUME TypeOK, NEW results, DOMAIN results \subseteq 1..Len(rendered),
           NEW hurt, NEW wounded, hurt \subseteq wounded,
           NEW gone, NEW lacking, gone \subseteq lacking, RowsAre(translated, hurt, gone),
           \A p \in DOMAIN results : /\ Explained(results[p], rendered[p].id, lacking)
                                     /\ Caused(results[p], rendered[p].id, wounded)
    PROVE  RowsAre(Recorded(results), wounded, lacking)
<1>. DEFINE recorded == Recorded(results)
<1>1. recorded = Recorded(results)
  OBVIOUS
<1>. HIDE DEF recorded
<1>2. \A id \in DOMAIN recorded :
                 \/ \E p \in DOMAIN results : rendered[p].id = id /\ recorded[id] = results[p]
                 \/ id \in DOMAIN translated /\ recorded[id] = translated[id]
  <2>1. NewOrKept(recorded, results)
    BY <1>1, RecordedIs
  <2>. QED
    BY <2>1 DEF NewOrKept
<1>3. ASSUME NEW id \in DOMAIN recorded
      PROVE  Explained(recorded[id], id, lacking) /\ Caused(recorded[id], id, wounded)
  <2>1. CASE \E p \in DOMAIN results : rendered[p].id = id /\ recorded[id] = results[p]
    BY <2>1
  <2>2. CASE id \in DOMAIN translated /\ recorded[id] = translated[id]
    <3>1. Explained(translated[id], id, gone) /\ Caused(translated[id], id, hurt)
      BY <2>2 DEF RowsAre
    <3>2. Explained(translated[id], id, lacking) /\ Caused(translated[id], id, wounded)
      BY <3>1, StaysRight
    <3>. QED
      BY <2>2, <3>2
  <2>. QED
    BY <1>2, <2>1, <2>2
<1>. QED
  BY <1>1, <1>3 DEF RowsAre

\* ... and by row, while every row has an id of its own.
LEMMA RecordedWords ==
    ASSUME TypeOK, DistinctIds, NEW results, DOMAIN results \subseteq 1..Len(rendered),
           NEW hurt, NEW wounded, hurt \subseteq wounded,
           NEW gone, NEW lacking, gone \subseteq lacking, WordsAre(translated, hurt, gone),
           \A p \in DOMAIN results : Own(results[p], p, wounded, lacking)
    PROVE  WordsAre(Recorded(results), wounded, lacking)
<1>. DEFINE recorded == Recorded(results)
<1>1. recorded = Recorded(results) /\ DOMAIN rendered = 1..Len(rendered)
  BY Positions
<1>. HIDE DEF recorded
<1>2. \A id \in DOMAIN recorded :
                 \/ \E p \in DOMAIN results : rendered[p].id = id /\ recorded[id] = results[p]
                 \/ id \in DOMAIN translated /\ recorded[id] = translated[id]
  <2>1. NewOrKept(recorded, results)
    BY <1>1, RecordedIs
  <2>. QED
    BY <2>1 DEF NewOrKept
<1>3. ASSUME NEW p \in 1..Len(rendered), rendered[p].id \in DOMAIN recorded
      PROVE  Own(recorded[rendered[p].id], p, wounded, lacking)
  <2>. DEFINE id == rendered[p].id
  <2>1. CASE \E q \in DOMAIN results : rendered[q].id = id /\ recorded[id] = results[q]
    <3>1. PICK q \in DOMAIN results : rendered[q].id = id /\ recorded[id] = results[q]
      BY <2>1
    <3>2. q \in 1..Len(rendered)
      OBVIOUS
    <3>3. q = p
      BY <3>1, <3>2, DistinctRows
    <3>. QED
      BY <3>1, <3>3
  <2>2. CASE id \in DOMAIN translated /\ recorded[id] = translated[id]
    <3>1. Own(translated[id], p, hurt, gone)
      BY <1>1, <2>2 DEF WordsAre
    <3>2. Own(translated[id], p, wounded, lacking)
      BY <3>1, StaysRight
    <3>. QED
      BY <2>2, <3>2
  <2>. QED
    BY <1>2, <1>3, <2>1, <2>2
<1>. QED
  BY <1>1, <1>3 DEF WordsAre

\* A row with the words of some of its own fields, whatever its language is called.
LEMMA OwnTextsAre ==
    ASSUME TypeOK, NEW p \in 1..Len(rendered), NEW F, F \subseteq FieldsOf(kindsOf[p]),
           NEW result, result.fields = Texts(F, p), NEW hurt,
           NEW gone, \A f \in FieldsOf(kindsOf[p]) \ F : <<p, f>> \in gone
    PROVE  Explained(result, rendered[p].id, gone) /\ Own(result, p, hurt, gone)
<1>. DEFINE kind == kindsOf[p]
            own == Texts(F, p)
<1>1. kind \in Kinds /\ p \in Nat /\ DOMAIN rendered = 1..Len(rendered)
  BY Positions
<1>2. p \in Rows(rendered[p].id)
  BY <1>1 DEF Rows
<1>. HIDE DEF kind
<1>4. \A f \in 1..3 : own[f] = IF f \in F THEN <<Words(p, f)>> ELSE <<>>
  BY DEF Texts
<1>3. \A f \in 1..3 : OwnFields(kind, p)[f] = IF f \in FieldsOf(kind) THEN <<Words(p, f)>> ELSE <<>>
  BY DEF OwnFields, Texts
<1>. HIDE DEF own
<1>5. ASSUME NEW f \in 1..3, NEW token \in ToSet(own[f]) PROVE token.of = p
  <2>1. CASE f \in F
    <3>1. own[f] = <<Words(p, f)>>
      BY <1>4, <2>1
    <3>2. token = Words(p, f)
      BY <1>5, <3>1 DEF ToSet
    <3>. QED
      BY <3>2 DEF Words
  <2>2. CASE f \notin F
    <3>1. own[f] = <<>>
      BY <1>4, <2>2
    <3>. QED
      BY <1>5, <3>1 DEF ToSet
  <2>. QED
    BY <2>1, <2>2
<1>6. 1 \in FieldsOf(kind) /\ <<p, 1>> \notin gone => own[1] # <<>>
  <2>1. 1 \in F => own[1] = <<Words(p, 1)>>
    BY <1>4, 1 \in 1..3
  <2>2. <<Words(p, 1)>> # <<>>
    OBVIOUS
  <2>3. 1 \in FieldsOf(kind) /\ <<p, 1>> \notin gone => 1 \in F
    BY DEF kind
  <2>. QED
    BY <2>1, <2>2, <2>3
<1>7. 3 \notin FieldsOf(kind) => own[3] = <<>>
  <2>1. 3 \notin FieldsOf(kind) => 3 \notin F
    BY DEF kind
  <2>. QED
    BY <1>4, <2>1
<1>8. result.fields = own
  BY DEF own
<1>9. Explained(result, rendered[p].id, gone)
  BY <1>2, <1>6, <1>7, <1>8 DEF Explained, kind
<1>10. Still(own, p, gone)
  <2>1. ASSUME NEW f \in 1..3
        PROVE  own[f] = OwnFields(kind, p)[f] \/ (own[f] = <<>> /\ <<p, f>> \in gone)
    <3>1. F \subseteq FieldsOf(kind) /\ \A g \in FieldsOf(kind) \ F : <<p, g>> \in gone
      BY DEF kind
    <3>2. CASE f \in F
      BY <1>3, <1>4, <3>1, <3>2
    <3>3. CASE f \notin F
      BY <1>3, <1>4, <3>1, <3>3
    <3>. QED
      BY <3>2, <3>3
  <2>. QED
    BY <2>1 DEF Still, kind
<1>11. Own(result, p, hurt, gone)
  BY <1>5, <1>8, <1>10 DEF Own
<1>. QED
  BY <1>9, <1>11

\* A row in its own English fields.
LEMMA EnglishIs ==
    ASSUME TypeOK, NEW p \in 1..Len(rendered), NEW hurt, NEW gone
    PROVE  /\ Explained(English(p), rendered[p].id, gone) /\ Own(English(p), p, hurt, gone)
           /\ English(p).lang = "en"
<1>. DEFINE F == FieldsOf(kindsOf[p])
            result == English(p)
<1>1. result.fields = Texts(F, p) /\ result.lang = "en"
  BY DEF English, OwnFields
<1>2. F \subseteq FieldsOf(kindsOf[p]) /\ \A f \in FieldsOf(kindsOf[p]) \ F : <<p, f>> \in gone
  OBVIOUS
<1>. HIDE DEF F, result
<1>3. Explained(result, rendered[p].id, gone) /\ Own(result, p, hurt, gone)
  BY <1>1, <1>2, OwnTextsAre
<1>. QED
  BY <1>1, <1>3 DEF result

\* Rows of a rendition in a call, their ids, the orders they may come back in, and
\* which of them were damaged.
InCall(chunk) ==
    /\ chunk \in Seq(Nat) /\ chunk # <<>>
    /\ \A i \in 1..Len(chunk) : chunk[i] \in 1..Len(rendered)
IdsOf(chunk) == [i \in DOMAIN chunk |-> rendered[chunk[i]].id]
Directions(chunk) == {FALSE, Len(chunk) > 1}
Damaged(chunk, copies) == {chunk[i] : i \in {j \in DOMAIN chunk : ~Unharmed(copies, j)}}

\* An order is a truth value: the rows are backwards, or they are not.
LEMMA DirectionsAre ==
    ASSUME NEW chunk, NEW backwards \in Directions(chunk)
    PROVE  backwards \in BOOLEAN
<1>1. backwards = FALSE \/ backwards = (Len(chunk) > 1)
  BY Zenon DEF Directions
<1>2. (Len(chunk) > 1) \in BOOLEAN
  OBVIOUS
<1>. QED
  BY <1>1, <1>2, Zenon

\* A field left out of a row that is told apart is in Nothing.
LEMMA NothingIs ==
    ASSUME NEW chunk, NEW copies, NEW told, NEW i \in DOMAIN chunk, rendered[chunk[i]].id \in told,
           NEW f \in FieldsOf(kindsOf[chunk[i]]), f \notin Kept(kindsOf[chunk[i]], copies, i)
    PROVE  <<chunk[i], f>> \in Nothing(chunk, copies, told)
<1>. DEFINE left(k) == {chunk[k]} \X (FieldsOf(kindsOf[chunk[k]]) \ Kept(kindsOf[chunk[k]], copies, k))
<1>1. <<chunk[i], f>> \in left(i)
  OBVIOUS
<1>2. i \in {j \in DOMAIN chunk : rendered[chunk[j]].id \in told}
  OBVIOUS
<1>. HIDE DEF left
<1>3. <<chunk[i], f>> \in UNION {left(k) : k \in {j \in DOMAIN chunk : rendered[chunk[j]].id \in told}}
  BY <1>1, <1>2
<1>. QED
  BY <1>3 DEF left, Nothing

\* What _translate_chunk makes of an answer is right of every row of the call.
LEMMA AnsweredRow ==
    ASSUME TypeOK, NEW chunk, InCall(chunk), NEW copies, AreCopies(copies, Len(chunk)),
           NEW backwards \in BOOLEAN,
           NEW decoded, decoded = Decode(Answer(kindsOf, chunk, copies, backwards), IdsOf(chunk)),
           NEW j \in 1..Len(chunk), NEW wounded, Damaged(chunk, copies) \subseteq wounded,
           NEW gone, Nothing(chunk, copies, DOMAIN decoded) \subseteq gone
    PROVE  /\ Explained(FromAnswer(decoded, chunk[j]), rendered[chunk[j]].id, gone)
           /\ Caused(FromAnswer(decoded, chunk[j]), rendered[chunk[j]].id, wounded)
           /\ DistinctIds /\ (\A i \in 1..Len(chunk) : copies[<<i, 0>>] # 0) =>
                 Own(FromAnswer(decoded, chunk[j]), chunk[j], wounded, gone)
<1>. DEFINE p == chunk[j]
            id == rendered[p].id
            kind == kindsOf[p]
            r == FromAnswer(decoded, p)
            ids == IdsOf(chunk)
<1>1. /\ p \in 1..Len(rendered) /\ Len(chunk) \in Nat /\ DOMAIN chunk = 1..Len(chunk)
      /\ IsChunk(kindsOf, chunk)
      /\ \A i \in 1..Len(chunk) : chunk[i] \in 1..Len(rendered) /\ ids[i] = rendered[chunk[i]].id
  BY Positions, LenProperties DEF InCall, IsChunk, IdsOf
<1>2. p \in Rows(id) /\ DOMAIN rendered = 1..Len(rendered)
  BY <1>1, Positions DEF Rows
<1>. HIDE DEF ids
<1>3. /\ \A i \in 1..Len(chunk) : Unharmed(copies, i) => ids[i] \in DOMAIN decoded
      /\ \A x \in DOMAIN decoded : \E i \in 1..Len(chunk) :
            ids[i] = x /\ FoundOf(decoded[x], kindsOf, chunk, copies, i)
  BY <1>1, DecodedRows DEF ids
<1>4. CASE id \notin DOMAIN decoded
  <2>1. r = English(p)
    BY <1>4 DEF FromAnswer
  <2>3. Explained(r, id, gone) /\ Own(r, p, wounded, gone)
    <3>. HIDE DEF r, p
    <3>. QED
      BY <1>1, <2>1, EnglishIs
  <2>4. ~Unharmed(copies, j)
    BY <1>1, <1>3, <1>4
  <2>5. p \in wounded
    BY <1>1, <2>4 DEF Damaged
  <2>6. Caused(r, id, wounded)
    BY <1>2, <2>5 DEF Caused
  <2>. QED
    BY <2>3, <2>6
<1>5. CASE id \in DOMAIN decoded
  <2>8. PICK i \in 1..Len(chunk) : ids[i] = id /\ FoundOf(decoded[id], kindsOf, chunk, copies, i)
    BY <1>3, <1>5
  <2>1. /\ ids[i] = id
        /\ DOMAIN decoded[id] = 1..3
        /\ Has(Kept(kindsOf[chunk[i]], copies, i), 1) => decoded[id][1] # <<>>
        /\ (\A k \in 1..Len(chunk) : copies[<<k, 0>>] # 0) =>
              /\ \A f \in 1..3 : \A token \in ToSet(decoded[id][f]) :
                     token.tag = "words" => token.of = chunk[i]
              /\ Unharmed(copies, i) => decoded[id] = Texts(Kept(kindsOf[chunk[i]], copies, i), chunk[i])
    BY <2>8 DEF FoundOf
  <2>. DEFINE d == decoded[id]
              e == [d EXCEPT ![3] = <<>>]
  <2>2. r.lang = "xx" /\ r.fields = IF 3 \in FieldsOf(kind) THEN d ELSE e
    BY <1>5 DEF FromAnswer
  <2>3. DOMAIN d = 1..3 /\ DOMAIN e = 1..3 /\ e[1] = d[1] /\ e[2] = d[2] /\ e[3] = <<>>
    <3>1. DOMAIN d = 1..3
      BY <2>1
    <3>. HIDE DEF d
    <3>. QED
      BY <3>1
  <2>4. chunk[i] \in Rows(id)
    BY <1>1, <1>2, <2>1 DEF Rows
  <2>9. \A f \in FieldsOf(kindsOf[chunk[i]]) :
           f \in Kept(kindsOf[chunk[i]], copies, i) \/ <<chunk[i], f>> \in gone
    <3>. DEFINE told == DOMAIN decoded
    <3>1. i \in DOMAIN chunk /\ rendered[chunk[i]].id \in told
      BY <1>1, <1>5, <2>1
    <3>. HIDE DEF told
    <3>2. \A f \in FieldsOf(kindsOf[chunk[i]]) :
             f \in Kept(kindsOf[chunk[i]], copies, i) \/ <<chunk[i], f>> \in Nothing(chunk, copies, told)
      BY <3>1, NothingIs
    <3>. QED
      BY <3>2 DEF told
  <2>. HIDE DEF d, e, r
  <2>5. Explained(r, id, gone)
    <3>1. (\A q \in Rows(id) : 1 \in FieldsOf(kindsOf[q]) /\ <<q, 1>> \notin gone) => r.fields[1] # <<>>
      <4>1. SUFFICES ASSUME 1 \in FieldsOf(kindsOf[chunk[i]]), <<chunk[i], 1>> \notin gone
                     PROVE  r.fields[1] # <<>>
        BY <2>4
      <4>2. Has(Kept(kindsOf[chunk[i]], copies, i), 1)
        BY <2>9, <4>1 DEF Has
      <4>. QED
        BY <2>1, <2>2, <2>3, <4>2 DEF d
    <3>2. (\A q \in Rows(id) : 3 \notin FieldsOf(kindsOf[q])) => r.fields[3] = <<>>
      BY <1>2, <2>2, <2>3
    <3>. QED
      BY <3>1, <3>2 DEF Explained
  <2>6. Caused(r, id, wounded)
    BY <2>2 DEF Caused
  <2>7. ASSUME DistinctIds, \A k \in 1..Len(chunk) : copies[<<k, 0>>] # 0
        PROVE  Own(r, p, wounded, gone)
    <3>1. chunk[i] = p
      BY <1>1, <2>1, <2>7, DistinctRows
    <3>2. \A f \in 1..3 : \A token \in ToSet(d[f]) : token.tag = "words" => token.of = p
      BY <2>1, <2>7, <3>1 DEF d
    <3>3. ToSet(<<>>) = {}
      BY DEF ToSet
    <3>4. \A f \in 1..3 : \A token \in ToSet(r.fields[f]) : token.tag = "words" => token.of = p
      <4>1. \A f \in 1..3 : r.fields[f] = d[f] \/ r.fields[f] = <<>>
        BY <2>2, <2>3
      <4>. QED
        BY <3>2, <3>3, <4>1
    <3>5. ASSUME p \notin wounded PROVE Still(r.fields, p, gone)
      <4>. DEFINE F == Kept(kind, copies, i)
      <4>1. Unharmed(copies, i)
        BY <1>1, <3>1, <3>5 DEF Damaged
      <4>2. d = Texts(F, p)
        BY <2>1, <2>7, <3>1, <4>1 DEF d
      <4>3. \A f \in FieldsOf(kind) : f \in F \/ <<p, f>> \in gone
        BY <2>9, <3>1
      <4>4. \A f \in F : f \in FieldsOf(kind)
        BY DEF Kept
      <4>. HIDE DEF F, kind, p
      <4>5. \A f \in 1..3 : d[f] = IF f \in F THEN <<Words(p, f)>> ELSE <<>>
        BY <4>2 DEF Texts
      <4>6. \A f \in 1..3 : OwnFields(kind, p)[f] = IF f \in FieldsOf(kind) THEN <<Words(p, f)>> ELSE <<>>
        BY DEF OwnFields, Texts
      <4>7. ASSUME NEW f \in 1..3
            PROVE  r.fields[f] = OwnFields(kind, p)[f] \/ (r.fields[f] = <<>> /\ <<p, f>> \in gone)
        <5>1. r.fields[f] = d[f] \/ (f = 3 /\ 3 \notin FieldsOf(kind) /\ r.fields[f] = <<>>)
          BY <2>2, <2>3
        <5>2. CASE f \in F
          BY <4>4, <4>5, <4>6, <5>1, <5>2
        <5>3. CASE f \notin F
          BY <4>3, <4>5, <4>6, <5>1, <5>3
        <5>. QED
          BY <5>2, <5>3
      <4>. QED
        BY <4>7 DEF Still, kind
    <3>. QED
      BY <3>4, <3>5 DEF Own
  <2>. QED
    BY <2>5, <2>6, <2>7 DEF r
<1>. QED
  BY <1>4, <1>5

\* At least as many rows of a call are told apart as ids come back.
LEMMA AnsweredCount ==
    ASSUME TypeOK, NEW chunk, InCall(chunk), NEW copies, AreCopies(copies, Len(chunk)),
           NEW backwards \in BOOLEAN,
           NEW decoded, decoded = Decode(Answer(kindsOf, chunk, copies, backwards), IdsOf(chunk)),
           Cardinality(DOMAIN decoded) >= Enough(Len(chunk)),
           \A i, k \in 1..Len(chunk) : chunk[i] = chunk[k] => i = k
    PROVE  LET missed == {p \in ToSet(chunk) : FromAnswer(decoded, p).lang = "en"}
           IN  IsFiniteSet(missed) /\ 3 * Cardinality(missed) <= 2 * Len(chunk)
<1>. DEFINE n == Len(chunk)
            missed == {p \in ToSet(chunk) : FromAnswer(decoded, p).lang = "en"}
            ids == IdsOf(chunk)
            told == {i \in 1..n : ids[i] \in DOMAIN decoded}
            untold == {i \in 1..n : ids[i] \notin DOMAIN decoded}
<1>1. /\ n \in Nat /\ n # 0 /\ DOMAIN chunk = 1..n /\ IsChunk(kindsOf, chunk)
      /\ ids = [i \in 1..n |-> rendered[chunk[i]].id]
  <2>1. n \in Nat /\ DOMAIN chunk = 1..n
    BY LenProperties DEF InCall
  <2>2. n # 0
    BY EmptySeq DEF InCall
  <2>. QED
    BY <2>1, <2>2, Positions DEF InCall, IsChunk, IdsOf
<1>2. DOMAIN decoded \subseteq {ids[i] : i \in 1..n}
  <2>. HIDE DEF ids
  <2>. QED
    BY <1>1, DecodedRows DEF ids
<1>. HIDE DEF ids, n
<1>3. IsFiniteSet(1..n) /\ Cardinality(1..n) = n
  BY <1>1, FS_Interval
<1>4. IsFiniteSet(told) /\ IsFiniteSet(untold) /\ Cardinality(told) + Cardinality(untold) = n
      /\ Cardinality(told) \in Nat /\ Cardinality(untold) \in Nat
  <2>1. told \subseteq 1..n /\ untold \subseteq 1..n /\ told \cup untold = 1..n /\ told \cap untold = {}
    OBVIOUS
  <2>. HIDE DEF told, untold
  <2>2. IsFiniteSet(told) /\ IsFiniteSet(untold)
    BY <1>3, <2>1, FS_Subset
  <2>4. Cardinality(told) \in Nat /\ Cardinality(untold) \in Nat
    BY <2>2, FS_CardinalityType
  <2>3. Cardinality(told \cup untold) = Cardinality(told) + Cardinality(untold)
    <3>1. Cardinality(told \cup untold) = Cardinality(told) + Cardinality(untold) - Cardinality(told \cap untold)
      BY <2>2, FS_Union
    <3>2. Cardinality(told \cap untold) = 0
      BY <2>1, FS_EmptySet
    <3>. QED
      BY <2>4, <3>1, <3>2
  <2>. QED
    BY <1>3, <2>1, <2>2, <2>3, <2>4
<1>5. Cardinality(told) >= Cardinality(DOMAIN decoded) /\ Cardinality(DOMAIN decoded) \in Nat
  <2>. DEFINE f == [i \in told |-> ids[i]]
  <2>1. f \in Surjection(told, DOMAIN decoded)
    <3>1. f \in [told -> DOMAIN decoded]
      OBVIOUS
    <3>2. \A x \in DOMAIN decoded : \E i \in told : f[i] = x
      BY <1>2
    <3>. QED
      BY <3>1, <3>2 DEF Surjection
  <2>. HIDE DEF told, f
  <2>2. IsFiniteSet(DOMAIN decoded) /\ Cardinality(DOMAIN decoded) <= Cardinality(told)
    BY <1>4, <2>1, FS_Surjection
  <2>3. Cardinality(DOMAIN decoded) \in Nat
    BY <2>2, FS_CardinalityType
  <2>. QED
    BY <1>4, <2>2, <2>3
<1>6. IsFiniteSet(missed) /\ Cardinality(missed) <= Cardinality(untold)
  <2>. DEFINE f == [i \in untold |-> chunk[i]]
  <2>1. missed \subseteq {chunk[i] : i \in untold}
    <3>. SUFFICES ASSUME NEW p \in missed PROVE p \in {chunk[i] : i \in untold}
      OBVIOUS
    <3>1. PICK i \in 1..n : p = chunk[i]
      BY <1>1 DEF ToSet
    <3>2. rendered[p].id \notin DOMAIN decoded
      <4>. SUFFICES ASSUME rendered[p].id \in DOMAIN decoded PROVE FALSE
        OBVIOUS
      <4>1. FromAnswer(decoded, p).lang = "xx"
        BY DEF FromAnswer
      <4>. QED
        BY <4>1
    <3>3. ids[i] = rendered[p].id
      BY <1>1, <3>1
    <3>. QED
      BY <3>1, <3>2, <3>3
  <2>2. f \in Surjection(untold, {chunk[i] : i \in untold})
    BY DEF Surjection
  <2>. HIDE DEF untold, missed, f
  <2>3. IsFiniteSet({chunk[i] : i \in untold}) /\ Cardinality({chunk[i] : i \in untold}) <= Cardinality(untold)
    BY <1>4, <2>2, FS_Surjection
  <2>4. IsFiniteSet(missed) /\ Cardinality(missed) <= Cardinality({chunk[i] : i \in untold})
    BY <2>1, <2>3, FS_Subset
  <2>5. Cardinality(missed) \in Nat /\ Cardinality({chunk[i] : i \in untold}) \in Nat
    BY <2>3, <2>4, FS_CardinalityType
  <2>. QED
    BY <1>4, <2>3, <2>4, <2>5
<1>7. Enough(n) >= 1 /\ Enough(n) >= n \div 2 /\ Enough(n) \in Nat
  <2>. DEFINE h == n \div 2
  <2>1. h \in Nat
    BY <1>1
  <2>. DEFINE T == {1, h}
  <2>2. T \subseteq 0..(h + 1) /\ T # {} /\ h + 1 \in Nat
    BY <2>1
  <2>3. 1 \in T /\ h \in T
    OBVIOUS
  <2>4. Enough(n) = Max(T)
    BY DEF Enough
  <2>. HIDE DEF T
  <2>5. Max(T) \in T /\ \A m \in T : m <= Max(T)
    BY <2>2, MaxIsGreatest
  <2>6. Max(T) \in Nat /\ 1 <= Max(T) /\ h <= Max(T)
    <3>1. \A m \in T : m \in Nat
      BY <2>1 DEF T
    <3>. HIDE DEF h
    <3>2. 1 <= Max(T)
      BY <2>3, <2>5
    <3>3. h <= Max(T)
      BY <2>3, <2>5
    <3>. QED
      BY <2>5, <3>1, <3>2, <3>3
  <2>. HIDE DEF h
  <2>7. Max(T) >= 1 /\ Max(T) >= h
    BY <2>1, <2>6
  <2>. QED
    BY <2>4, <2>6, <2>7 DEF h
<1>8. Cardinality(DOMAIN decoded) >= Enough(n)
  BY DEF n
<1>. DEFINE a == Cardinality(missed)
            u == Cardinality(untold)
            t == Cardinality(told)
            h == n \div 2
<1>9. a \in Nat
  BY <1>6, FS_CardinalityType
<1>10. a <= u /\ u \in Nat /\ t \in Nat /\ t + u = n
  BY <1>4, <1>6
<1>11. t >= 1 /\ t >= h /\ h \in Nat
  BY <1>1, <1>4, <1>5, <1>7, <1>8
<1>12. 2 * h + 1 >= n
  BY <1>1
<1>. HIDE DEF a, u, t, h, missed
<1>13. 3 * a <= 2 * n
  BY <1>1, <1>9, <1>10, <1>11, <1>12
<1>. QED
  BY <1>6, <1>13 DEF a, missed, n

-----------------------------------------------------------------------------
(* The queue of chunks and of single rows.                                 *)

\* The first row of a queue, or the place after the last row.
First(chunks) == IF chunks = <<>> THEN Len(rendered) + 1 ELSE chunks[1][1]

\* Positions byField goes through: the rest of the chunk in hand.
RestOf(rest, chunks) ==
    /\ rest \in Seq(Nat)
    /\ rest # <<>> =>
          /\ chunks # <<>> /\ Consecutive(rest) /\ rest[1] >= chunks[1][1]
          /\ rest[1] + Len(rest) = chunks[1][1] + Len(chunks[1])

\* A queue without its first chunk begins where that ended.
LEMMA TailQueue ==
    ASSUME TypeOK, NEW chunks, QueueOf(chunks, Len(rendered)), chunks # <<>>,
           NEW rest, rest = Tail(chunks)
    PROVE  QueueOf(rest, Len(rendered)) /\ First(rest) = chunks[1][1] + Len(chunks[1])
<1>. DEFINE n == Len(rendered)
            S == Seq(Nat)
<1>1. n \in Nat
  BY Positions
<1>2. chunks \in Seq(S)
  BY DEF QueueOf
<1>. HIDE DEF S
<1>3. Len(chunks) \in Nat /\ Len(chunks) # 0
  BY <1>2, EmptySeq, LenProperties
<1>4. rest \in Seq(S) /\ Len(rest) = Len(chunks) - 1 /\ \A i \in 1..Len(rest) : rest[i] = chunks[i + 1]
  BY <1>2, HeadTailProperties
<1>5. rest = <<>> <=> Len(rest) = 0
  BY <1>4, EmptySeq
<1>6. \A i \in 1..Len(chunks) :
          /\ chunks[i] # <<>> /\ Consecutive(chunks[i])
          /\ chunks[i][1] >= 1 /\ chunks[i][1] + Len(chunks[i]) <= n + 1
          /\ i = Len(chunks) => chunks[i][1] + Len(chunks[i]) = n + 1
          /\ i < Len(chunks) => chunks[i][1] + Len(chunks[i]) = chunks[i + 1][1]
  BY DEF QueueOf
<1>7. ASSUME NEW i \in 1..Len(rest)
      PROVE  /\ rest[i] # <<>> /\ Consecutive(rest[i])
             /\ rest[i][1] >= 1 /\ rest[i][1] + Len(rest[i]) <= n + 1
             /\ i = Len(rest) => rest[i][1] + Len(rest[i]) = n + 1
             /\ i < Len(rest) => rest[i][1] + Len(rest[i]) = rest[i + 1][1]
  <2>5. rest[i] = chunks[i + 1]
    BY <1>4
  <2>. DEFINE l == Len(chunks)
              r == Len(rest)
  <2>6. l \in Nat /\ r = l - 1 /\ i \in 1..r
    BY <1>3, <1>4
  <2>. HIDE DEF l, r
  <2>7. i + 1 \in 1..l /\ (i = r => i + 1 = l) /\ (i < r => i + 1 < l /\ i + 1 \in 1..r)
    BY <2>6
  <2>1. i + 1 \in 1..Len(chunks) /\ rest[i] = chunks[i + 1]
        /\ (i = Len(rest) => i + 1 = Len(chunks))
        /\ (i < Len(rest) => i + 1 < Len(chunks) /\ i + 1 \in 1..Len(rest))
    BY <2>5, <2>7 DEF l, r
  <2>2. i < Len(rest) => rest[i + 1] = chunks[i + 1 + 1]
    BY <1>4, <2>1
  <2>. DEFINE j == i + 1
  <2>3. j \in 1..Len(chunks)
    BY <2>1
  <2>. HIDE DEF j, n
  <2>4. /\ chunks[j] # <<>> /\ Consecutive(chunks[j])
        /\ chunks[j][1] >= 1 /\ chunks[j][1] + Len(chunks[j]) <= n + 1
        /\ j = Len(chunks) => chunks[j][1] + Len(chunks[j]) = n + 1
        /\ j < Len(chunks) => chunks[j][1] + Len(chunks[j]) = chunks[j + 1][1]
    BY <1>6, <2>3
  <2>. QED
    BY <2>1, <2>2, <2>4 DEF j
<1>8. QueueOf(rest, n)
  <2>. HIDE DEF n
  <2>. QED
    BY <1>4, <1>7 DEF QueueOf, S
<1>9. CASE Len(chunks) = 1
  <2>1. rest = <<>>
    BY <1>3, <1>4, <1>5, <1>9
  <2>2. chunks[1][1] + Len(chunks[1]) = n + 1
    BY <1>3, <1>6, <1>9
  <2>. QED
    BY <1>8, <2>1, <2>2 DEF First
<1>10. CASE Len(chunks) # 1
  <2>1. rest # <<>> /\ 1 \in 1..Len(rest) /\ 1 \in 1..Len(chunks) /\ 1 < Len(chunks)
    BY <1>3, <1>4, <1>5, <1>10
  <2>2. rest[1] = chunks[2]
    BY <1>4, <2>1
  <2>3. chunks[1][1] + Len(chunks[1]) = chunks[2][1]
    BY <1>6, <2>1
  <2>. QED
    BY <1>8, <2>1, <2>2, <2>3 DEF First
<1>. QED
  BY <1>9, <1>10

\* What a turn to a queue leaves to do.
LEMMA TurnIs ==
    ASSUME TypeOK, NEW chunks, QueueOf(chunks, Len(rendered)),
           NEW rest, rest = FirstQueue(chunks)
    PROVE  /\ RestOf(rest, chunks) /\ ToSet(rest) \subseteq DOMAIN rendered
           /\ rest # <<>> => rest[1] = First(chunks)
<1>. DEFINE n == Len(rendered)
<1>1. n \in Nat /\ DOMAIN rendered = 1..n
  BY Positions
<1>2. CASE rest = <<>>
  BY <1>2 DEF RestOf, ToSet
<1>3. CASE rest # <<>>
  <2>1. chunks # <<>> /\ rest = Head(chunks)
    BY <1>3 DEF FirstQueue
  <2>. DEFINE S == Seq(Nat)
  <2>2. chunks \in Seq(S)
    BY DEF QueueOf
  <2>3. 1 \in 1..Len(chunks)
    <3>. HIDE DEF S
    <3>1. Len(chunks) \in Nat /\ Len(chunks) # 0
      BY <2>1, <2>2, EmptySeq, LenProperties
    <3>. QED
      BY <3>1
  <2>4. rest = chunks[1]
    <3>. HIDE DEF S
    <3>. QED
      BY <2>1, <2>2, HeadTailProperties
  <2>. HIDE DEF S, n
  <2>7. QueueOf(chunks, n)
    BY DEF n
  <2>5. /\ chunks[1] \in Seq(Nat) /\ Len(chunks[1]) \in Nat
        /\ DOMAIN chunks[1] = 1..Len(chunks[1]) /\ chunks[1][1] \in Nat
        /\ \A k \in 1..Len(chunks[1]) : chunks[1][k] \in 1..n
    BY <1>1, <2>3, <2>7, ChunkAt
  <2>6. Consecutive(chunks[1])
    BY <2>3, <2>7 DEF QueueOf
  <2>8. RestOf(rest, chunks)
    BY <1>3, <2>1, <2>4, <2>5, <2>6 DEF RestOf
  <2>9. ToSet(rest) \subseteq DOMAIN rendered
    BY <1>1, <2>4, <2>5 DEF ToSet
  <2>10. rest[1] = First(chunks)
    BY <2>1, <2>4 DEF First
  <2>. QED
    BY <2>8, <2>9, <2>10
<1>. QED
  BY <1>2, <1>3

-----------------------------------------------------------------------------
(* The rows that are settled.                                              *)

\* Of the first k rows: their ids, those that are English, and that at most two
\* thirds are so for no failed call.
Names(k) == {rendered[p].id : p \in 1..k}
EnglishTo(results, k) == {p \in 1..k : results[rendered[p].id].lang = "en"}
FewEnglish(results, failed, k) == 3 * Cardinality(EnglishTo(results, k) \ failed) <= 2 * k

\* Once rows lo to hi are recorded, the rows up to hi have a translation.
LEMMA SettledNames ==
    ASSUME TypeOK, NEW lo \in Nat, NEW hi \in Nat, 1 <= lo, lo <= hi, hi <= Len(rendered),
           NEW results, DOMAIN results = lo..hi, DOMAIN translated = Names(lo - 1)
    PROVE  DOMAIN Recorded(results) = Names(hi)
<1>. DEFINE recorded == Recorded(results)
<1>1. DOMAIN results \subseteq 1..Len(rendered) /\ Len(rendered) \in Nat
  BY Positions
<1>. HIDE DEF recorded
<1>2. recorded = Recorded(results)
  BY DEF recorded
<1>3. DOMAIN recorded = DOMAIN translated \cup {rendered[p].id : p \in DOMAIN results}
  BY <1>1, <1>2, RecordedIs
<1>4. 1..hi = (1..(lo - 1)) \cup (lo..hi)
  OBVIOUS
<1>. QED
  BY <1>2, <1>3, <1>4 DEF Names

\* Of rows with ids of their own, those recorded in English are the English ones
\* there were and the English ones among the results.
LEMMA SettledEnglish ==
    ASSUME TypeOK, DistinctIds, NEW lo \in Nat, NEW hi \in Nat, 1 <= lo, lo <= hi, hi <= Len(rendered),
           NEW results, DOMAIN results = lo..hi, DOMAIN translated = Names(lo - 1)
    PROVE  EnglishTo(Recorded(results), hi)
              \subseteq EnglishTo(translated, lo - 1) \cup {p \in lo..hi : results[p].lang = "en"}
<1>. DEFINE recorded == Recorded(results)
<1>1. DOMAIN results \subseteq 1..Len(rendered) /\ Len(rendered) \in Nat
  BY Positions
<1>. HIDE DEF recorded
<1>2. recorded = Recorded(results)
  BY DEF recorded
<1>3. NewOrKept(recorded, results) /\ DOMAIN recorded = DOMAIN translated \cup {rendered[p].id : p \in DOMAIN results}
  BY <1>1, <1>2, RecordedIs
<1>4. SUFFICES ASSUME NEW p \in 1..hi, recorded[rendered[p].id].lang = "en"
               PROVE  \/ p \in 1..(lo - 1) /\ translated[rendered[p].id].lang = "en"
                      \/ p \in lo..hi /\ results[p].lang = "en"
  BY <1>2 DEF EnglishTo
<1>. DEFINE id == rendered[p].id
<1>5. p \in 1..Len(rendered) /\ p \in Nat
  BY <1>1
<1>6. \A q \in DOMAIN results : rendered[q].id = id => q = p
  BY <1>1, <1>5, DistinctRows
<1>7. CASE p \in lo..hi
  <2>1. id \in DOMAIN recorded /\ p \in DOMAIN results
    BY <1>3, <1>7
  <2>2. recorded[id] = results[p]
    BY <1>3, <1>6, <2>1 DEF NewOrKept
  <2>. QED
    BY <1>4, <1>7, <2>2
<1>8. CASE p \notin lo..hi
  <2>1. p \in 1..(lo - 1)
    BY <1>8
  <2>2. \A q \in DOMAIN results : rendered[q].id # id
    BY <1>6, <1>8
  <2>3. id \in DOMAIN recorded
    BY <1>3, <2>1 DEF Names
  <2>4. recorded[id] = translated[id]
    BY <1>3, <2>2, <2>3 DEF NewOrKept
  <2>. QED
    BY <1>4, <2>1, <2>4
<1>. QED
  BY <1>7, <1>8

\* With at most two thirds of the new results English for no failed call, that
\* stays so of all.
LEMMA SettledCount ==
    ASSUME TypeOK, DistinctIds, NEW lo \in Nat, NEW hi \in Nat, 1 <= lo, lo <= hi, hi <= Len(rendered),
           NEW results, DOMAIN results = lo..hi, DOMAIN translated = Names(lo - 1),
           NEW failed, NEW failing, failed \subseteq failing, FewEnglish(translated, failed, lo - 1),
           NEW missed, missed = {p \in lo..hi : results[p].lang = "en"} \ failing,
           3 * Cardinality(missed) <= 2 * (hi - lo + 1)
    PROVE  FewEnglish(Recorded(results), failing, hi)
<1>. DEFINE A == EnglishTo(translated, lo - 1) \ failed
            B == EnglishTo(Recorded(results), hi) \ failing
<1>1. B \subseteq A \cup missed
  <2>1. EnglishTo(Recorded(results), hi)
              \subseteq EnglishTo(translated, lo - 1) \cup {p \in lo..hi : results[p].lang = "en"}
    BY SettledEnglish
  <2>. QED
    BY <2>1
<1>2. IsFiniteSet(A) /\ IsFiniteSet(missed)
  <2>1. A \subseteq 1..(lo - 1) /\ missed \subseteq lo..hi
    BY DEF EnglishTo
  <2>2. IsFiniteSet(1..(lo - 1)) /\ IsFiniteSet(lo..hi)
    BY FS_Interval
  <2>. HIDE DEF A
  <2>. QED
    BY <2>1, <2>2, FS_Subset
<1>3. 3 * Cardinality(A) <= 2 * (lo - 1)
  BY DEF FewEnglish
<1>. HIDE DEF A, B
<1>4. IsFiniteSet(A \cup missed) /\ Cardinality(A \cup missed) = Cardinality(A) + Cardinality(missed) - Cardinality(A \cap missed)
  BY <1>2, FS_Union
<1>5. IsFiniteSet(A \cap missed)
  <2>1. A \cap missed \subseteq A
    OBVIOUS
  <2>. QED
    BY <1>2, <2>1, FS_Subset
<1>6. IsFiniteSet(B) /\ Cardinality(B) <= Cardinality(A \cup missed)
  BY <1>1, <1>4, FS_Subset
<1>. DEFINE a == Cardinality(A)
            b == Cardinality(B)
            c == Cardinality(missed)
            d == Cardinality(A \cap missed)
<1>7. a \in Nat /\ b \in Nat /\ c \in Nat /\ d \in Nat
  BY <1>2, <1>5, <1>6, FS_CardinalityType
<1>8. b <= a + c - d
  BY <1>4, <1>6
<1>9. 3 * a <= 2 * (lo - 1) /\ 3 * c <= 2 * (hi - lo + 1)
  BY <1>3
<1>. HIDE DEF a, b, c, d
<1>10. 3 * b <= 2 * hi
  BY <1>7, <1>8, <1>9
<1>. QED
  BY <1>10 DEF FewEnglish, B, b

-----------------------------------------------------------------------------
(* The inductive invariant.                                                *)

\* The first row whose translation is not settled.
NextRow == IF todo = <<>> THEN Len(rendered) + 1
           ELSE IF byField = <<>> THEN todo[1][1] ELSE byField[1]
\* Rows are being translated, or have been.
Translating == phase = "mayura" \/ (phase = "ready" /\ target)

\* What the stages to come have left empty.
PhaseInv ==
    /\ phase \in {"ocr", "stage1", "failed"} => clauses = {}
    /\ phase \in {"ocr", "stage1", "stage2", "failed"} => DOMAIN risks = {}
    /\ phase \in {"ocr", "stage1", "stage2", "stage3", "failed"} => prompted = <<>> /\ rendered = <<>>
    /\ phase # "mayura" => todo = <<>> /\ byField = <<>>
    /\ phase \notin {"mayura", "ready"} => translated = <<>>

\* The chunks to do are the rows from the next one on, in their order.
QueueInv == QueueOf(todo, Len(rendered)) /\ RestOf(byField, todo)

\* Exactly the rows before the next one are translated.
DoneInv == Translating => DOMAIN translated = Names(NextRow - 1)

\* What is recorded of an id is explained unless nothing came back of it, and
\* English for a cause.
RowsInv == RowsAre(translated, harmed \cup denied, emptied)
\* What is recorded of a row is in its own words.
WordsInv == DistinctIds /\ ~rowLost => WordsAre(translated, harmed, emptied)
\* The bound of EnglishHasACause, of the rows settled so far.
CountInv == DistinctIds /\ Translating => FewEnglish(translated, denied, NextRow - 1)
\* Stage 3 has left no clause out.
Covered == rendered # <<>> => \A id \in clauses : Rows(id) # {}

\* The invariant.
CardsInv ==
    /\ TypeOK /\ PhaseInv /\ QueueInv /\ DoneInv
    /\ RowsInv /\ WordsInv /\ CountInv /\ Covered

\* What the invariant says of the rows depends on the rows alone.
LEMMA SameRows ==
    ASSUME rendered' = rendered
    PROVE  /\ DistinctIds' <=> DistinctIds
           /\ kindsOf' = kindsOf
           /\ \A id : Rows(id)' = Rows(id)
<1>1. kindsOf' = kindsOf
  BY DEF kindsOf
<1>2. \A id : Rows(id)' = Rows(id)
  BY DEF Rows
<1>3. Ids' = Ids
  BY DEF Ids
<1>. QED
  BY <1>1, <1>2 DEF DistinctIds, Ids, Rows

\* Results for the next rows, up to the one before the next.
LEMMA AfterResults ==
    ASSUME CardsInv, Calling, rendered' = rendered, phase' = phase,
           NEW hi \in Nat, NextRow \in Nat, 1 <= NextRow, NextRow <= hi, hi <= Len(rendered),
           NextRow' = hi + 1,
           NEW results, DOMAIN results = NextRow..hi, translated' = Recorded(results),
           harmed \subseteq harmed', denied \subseteq denied', rowLost => rowLost',
           emptied \subseteq emptied',
           \A p \in DOMAIN results : /\ Explained(results[p], rendered[p].id, emptied')
                                     /\ Caused(results[p], rendered[p].id, harmed' \cup denied'),
           DistinctIds /\ ~rowLost' => \A p \in DOMAIN results : Own(results[p], p, harmed', emptied'),
           NEW missed, missed = {p \in NextRow..hi : results[p].lang = "en"} \ denied',
           3 * Cardinality(missed) <= 2 * (hi - NextRow + 1)
    PROVE  DoneInv' /\ RowsInv' /\ WordsInv' /\ CountInv' /\ DOMAIN translated' \subseteq Ids
<1>1. /\ TypeOK /\ Translating /\ Translating' /\ DOMAIN translated = Names(NextRow - 1)
      /\ DOMAIN results \subseteq 1..Len(rendered) /\ Len(rendered) \in Nat
      /\ NextRow' - 1 = hi
  BY Positions DEF CardsInv, DoneInv, Translating, Calling
<1>. DEFINE lo == NextRow
            recorded == Recorded(results)
<1>2. recorded = Recorded(results) /\ translated' = recorded
  OBVIOUS
<1>. HIDE DEF lo, recorded
<1>3. /\ lo = NextRow /\ lo \in Nat /\ 1 <= lo /\ lo <= hi /\ hi <= Len(rendered)
      /\ DOMAIN results = lo..hi /\ DOMAIN translated = Names(lo - 1)
  BY <1>1 DEF lo
<1>4. DOMAIN recorded = Names(hi)
  BY <1>1, <1>2, <1>3, SettledNames
<1>5. DOMAIN translated' = Names(NextRow - 1)'
  BY <1>1, <1>2, <1>4 DEF Names
<1>6. DoneInv'
  BY <1>5 DEF DoneInv
<1>7. RowsAre(recorded, harmed' \cup denied', emptied')
  <2>1. RowsAre(translated, harmed \cup denied, emptied)
    BY DEF CardsInv, RowsInv
  <2>2. harmed \cup denied \subseteq harmed' \cup denied'
    OBVIOUS
  <2>. HIDE DEF CardsInv
  <2>. DEFINE hurt == harmed \cup denied
              wounded == harmed' \cup denied'
              lacking == emptied'
  <2>. HIDE DEF hurt, wounded, lacking
  <2>3. RowsAre(recorded, wounded, lacking)
    <3>1. RowsAre(translated, hurt, emptied) /\ hurt \subseteq wounded /\ emptied \subseteq lacking
      BY <2>1, <2>2 DEF hurt, wounded, lacking
    <3>2. \A p \in DOMAIN results : /\ Explained(results[p], rendered[p].id, lacking)
                                    /\ Caused(results[p], rendered[p].id, wounded)
      BY DEF wounded, lacking
    <3>. QED
      BY <1>1, <1>2, <3>1, <3>2, RecordedRows
  <2>. QED
    BY <2>3 DEF wounded, lacking
<1>8. RowsInv'
  BY <1>2, <1>7, SameRows DEF RowsInv, RowsAre, Explained, Caused
<1>9. WordsInv'
  <2>1. SUFFICES ASSUME DistinctIds', ~rowLost' PROVE WordsAre(translated, harmed, emptied)'
    BY DEF WordsInv
  <2>2. DistinctIds /\ ~rowLost
    BY <2>1, SameRows
  <2>3. WordsAre(translated, harmed, emptied)
    BY <2>2 DEF CardsInv, WordsInv
  <2>4. WordsAre(recorded, harmed', emptied')
    <3>. DEFINE wounded == harmed'
                lacking == emptied'
    <3>. HIDE DEF wounded, lacking
    <3>1. /\ harmed \subseteq wounded /\ emptied \subseteq lacking
          /\ \A p \in DOMAIN results : Own(results[p], p, wounded, lacking)
      BY <2>1, <2>2 DEF wounded, lacking
    <3>2. WordsAre(recorded, wounded, lacking)
      BY <1>1, <1>2, <2>2, <2>3, <3>1, RecordedWords
    <3>. QED
      BY <3>2 DEF wounded, lacking
  <2>. QED
    BY <1>2, <2>4, SameRows DEF WordsAre, Own, Still
<1>10. CountInv'
  <2>1. SUFFICES ASSUME DistinctIds' PROVE FewEnglish(translated, denied, NextRow - 1)'
    BY DEF CountInv
  <2>2. DistinctIds
    BY <2>1, SameRows
  <2>3. FewEnglish(translated, denied, lo - 1)
    BY <1>1, <2>2 DEF CardsInv, CountInv, lo
  <2>4. FewEnglish(recorded, denied', hi)
    <3>. DEFINE failing == denied'
    <3>. HIDE DEF failing
    <3>1. denied \subseteq failing
      BY DEF failing
    <3>2. missed = {p \in lo..hi : results[p].lang = "en"} \ failing
      BY DEF failing, lo
    <3>3. 3 * Cardinality(missed) <= 2 * (hi - lo + 1)
      BY DEF lo
    <3>4. FewEnglish(Recorded(results), failing, hi)
      BY <1>1, <1>3, <2>2, <2>3, <3>1, <3>2, <3>3, SettledCount
    <3>. QED
      BY <1>2, <3>4 DEF failing
  <2>. QED
    BY <1>1, <1>2, <2>4 DEF FewEnglish, EnglishTo
<1>11. DOMAIN translated' \subseteq Ids
  <2>1. \A p \in 1..hi : rendered[p].id \in Ids
    BY <1>1, <1>3, Positions
  <2>. QED
    BY <1>2, <1>4, <2>1 DEF Names
<1>. QED
  BY <1>6, <1>8, <1>9, <1>10, <1>11

\* The call that is due: a chunk, or the first of the rows to go one by one.
LEMMA CallIs ==
    ASSUME CardsInv, Calling
    PROVE  /\ Head(todo) = todo[1] /\ InCall(todo[1]) /\ Consecutive(todo[1])
           /\ Len(todo[1]) \in Nat /\ Len(todo[1]) >= 1 /\ DOMAIN todo[1] = 1..Len(todo[1])
           /\ todo[1][1] \in Nat /\ 1 <= todo[1][1] /\ todo[1][1] + Len(todo[1]) <= Len(rendered) + 1
           /\ \A i, k \in 1..Len(todo[1]) : todo[1][i] = todo[1][k] => i = k
           /\ NextRow \in Nat /\ 1 <= NextRow /\ NextRow <= Len(rendered)
           /\ byField = <<>> => NextRow = todo[1][1]
           /\ byField # <<>> =>
                 /\ Head(byField) = byField[1] /\ NextRow = byField[1]
                 /\ Len(byField) \in Nat /\ Len(byField) >= 1
                 /\ NextRow + Len(byField) = todo[1][1] + Len(todo[1])
<1>. DEFINE n == Len(rendered)
            S == Seq(Nat)
            l == Len(todo[1])
            b == todo[1][1]
<1>1. n \in Nat /\ todo # <<>> /\ QueueOf(todo, n) /\ RestOf(byField, todo)
  BY Positions DEF CardsInv, QueueInv, Calling
<1>2. todo \in Seq(S)
  BY <1>1 DEF QueueOf
<1>3. Head(todo) = todo[1] /\ 1 \in 1..Len(todo)
  <2>. HIDE DEF S
  <2>1. Len(todo) \in Nat /\ Len(todo) # 0
    BY <1>1, <1>2, EmptySeq, LenProperties
  <2>. QED
    BY <1>1, <1>2, <2>1, HeadTailProperties
<1>. HIDE DEF S, n
<1>4. /\ todo[1] \in Seq(Nat) /\ Len(todo[1]) \in Nat /\ Len(todo[1]) >= 1
      /\ DOMAIN todo[1] = 1..Len(todo[1]) /\ todo[1][1] \in Nat
      /\ \A k \in 1..Len(todo[1]) : todo[1][k] \in 1..n
      /\ \A i, k \in 1..Len(todo[1]) : todo[1][i] = todo[1][k] => i = k
  BY <1>1, <1>3, ChunkAt
<1>5. /\ Consecutive(todo[1]) /\ todo[1] # <<>> /\ todo[1][1] >= 1
      /\ todo[1][1] + Len(todo[1]) <= n + 1
  BY <1>1, <1>3 DEF QueueOf
<1>6. InCall(todo[1])
  BY <1>4, <1>5 DEF InCall, n
<1>. HIDE DEF l, b
<1>7. l \in Nat /\ l >= 1 /\ b \in Nat /\ 1 <= b /\ b + l <= n + 1
  BY <1>4, <1>5 DEF l, b
<1>8. CASE byField = <<>>
  <2>1. NextRow = b
    BY <1>1, <1>8 DEF NextRow, b
  <2>2. NextRow \in Nat /\ 1 <= NextRow /\ NextRow <= n
    BY <1>1, <1>7, <2>1
  <2>. QED
    BY <1>3, <1>4, <1>5, <1>6, <1>7, <1>8, <2>1, <2>2 DEF b, l, n
<1>9. CASE byField # <<>>
  <2>1. /\ byField \in Seq(Nat) /\ byField[1] >= b
        /\ byField[1] + Len(byField) = b + l
    BY <1>1, <1>9 DEF RestOf, b, l
  <2>2. Len(byField) \in Nat /\ Len(byField) # 0
    BY <1>9, <2>1, EmptySeq, LenProperties
  <2>3. Head(byField) = byField[1]
    BY <1>9, <2>1, HeadTailProperties
  <2>4. NextRow = byField[1]
    BY <1>1, <1>9 DEF NextRow
  <2>5. byField[1] \in Nat
    BY <2>1, <2>2, ElementOfSeq
  <2>. DEFINE r == Len(byField)
              o == byField[1]
  <2>. HIDE DEF r, o
  <2>7. r \in Nat /\ r # 0 /\ o \in Nat /\ o >= b /\ o + r = b + l
    BY <2>1, <2>2, <2>5 DEF r, o
  <2>6. r >= 1 /\ 1 <= o /\ o <= n
    BY <1>1, <1>7, <2>7
  <2>. QED
    BY <1>3, <1>4, <1>5, <1>6, <1>7, <1>9, <2>3, <2>4, <2>6, <2>7 DEF b, l, n, r, o
<1>. QED
  BY <1>8, <1>9

\* A step that records nothing and leaves the next row where it is.
LEMMA NothingRecorded ==
    ASSUME CardsInv, phase = "mayura",
           UNCHANGED <<phase, before, rendered, translated, denied, emptied>>,
           harmed \subseteq harmed', harmed' \subseteq DOMAIN rendered,
           rowLost => rowLost', rowLost' \in BOOLEAN,
           QueueInv', NextRow' = NextRow, ToSet(byField') \subseteq DOMAIN rendered
    PROVE  CardsInv'
<1>1. /\ TypeOK /\ PhaseInv /\ DoneInv /\ RowsInv /\ WordsInv /\ CountInv /\ Covered
      /\ rendered' = rendered /\ translated' = translated /\ denied' = denied /\ emptied' = emptied /\ phase' = phase
      /\ clauses' = clauses /\ risks' = risks /\ prompted' = prompted /\ target' = target
      /\ page' = page /\ text' = text /\ said' = said
  BY DEF CardsInv, before
<1>2. TypeOK'
  BY <1>1 DEF TypeOK, Ids
<1>3. PhaseInv'
  BY <1>1 DEF PhaseInv
<1>4. DoneInv'
  BY <1>1 DEF DoneInv, Translating, Names
<1>5. RowsInv'
  <2>1. RowsAre(translated, harmed \cup denied, emptied)
    BY <1>1 DEF RowsInv
  <2>2. RowsAre(translated, harmed' \cup denied, emptied)
    BY <2>1 DEF RowsAre, Caused
  <2>. QED
    BY <1>1, <2>2, SameRows DEF RowsInv, RowsAre, Explained, Caused
<1>6. WordsInv'
  <2>1. SUFFICES ASSUME DistinctIds', ~rowLost' PROVE WordsAre(translated, harmed, emptied)'
    BY DEF WordsInv
  <2>2. WordsAre(translated, harmed, emptied)
    BY <1>1, <2>1, SameRows DEF WordsInv
  <2>3. WordsAre(translated, harmed', emptied)
    BY <2>2 DEF WordsAre, Own
  <2>. QED
    BY <1>1, <2>3, SameRows DEF WordsAre, Own, Still
<1>7. CountInv'
  BY <1>1, SameRows DEF CountInv, Translating, FewEnglish, EnglishTo
<1>8. Covered'
  BY <1>1, SameRows DEF Covered
<1>. QED
  BY <1>2, <1>3, <1>4, <1>5, <1>6, <1>7, <1>8 DEF CardsInv

\* A step that records the results of the next rows.
LEMMA SomeRecorded ==
    ASSUME CardsInv, Calling, UNCHANGED <<phase, before, rendered>>,
           NEW hi \in Nat, NextRow \in Nat, 1 <= NextRow, NextRow <= hi, hi <= Len(rendered),
           NextRow' = hi + 1,
           NEW results, DOMAIN results = NextRow..hi, translated' = Recorded(results),
           harmed \subseteq harmed', denied \subseteq denied', rowLost => rowLost',
           emptied \subseteq emptied', emptied' \subseteq (DOMAIN rendered) \X (1..3),
           harmed' \cup denied' \subseteq DOMAIN rendered, rowLost' \in BOOLEAN,
           \A p \in DOMAIN results : /\ Explained(results[p], rendered[p].id, emptied')
                                     /\ Caused(results[p], rendered[p].id, harmed' \cup denied'),
           DistinctIds /\ ~rowLost' => \A p \in DOMAIN results : Own(results[p], p, harmed', emptied'),
           NEW missed, missed = {p \in NextRow..hi : results[p].lang = "en"} \ denied',
           3 * Cardinality(missed) <= 2 * (hi - NextRow + 1),
           QueueInv', ToSet(byField') \subseteq DOMAIN rendered
    PROVE  CardsInv'
<1>1. /\ TypeOK /\ PhaseInv /\ Covered /\ phase = "mayura"
      /\ rendered' = rendered /\ phase' = phase
      /\ clauses' = clauses /\ risks' = risks /\ prompted' = prompted /\ target' = target
      /\ page' = page /\ text' = text /\ said' = said
  BY DEF CardsInv, before, Calling
<1>2. DoneInv' /\ RowsInv' /\ WordsInv' /\ CountInv' /\ DOMAIN translated' \subseteq Ids
  <2>. HIDE DEF CardsInv, Calling
  <2>. QED
    BY <1>1, AfterResults
<1>3. TypeOK'
  BY <1>1, <1>2 DEF TypeOK, Ids
<1>4. PhaseInv'
  BY <1>1 DEF PhaseInv
<1>5. Covered'
  BY <1>1, SameRows DEF Covered
<1>. QED
  BY <1>2, <1>3, <1>4, <1>5 DEF CardsInv

-----------------------------------------------------------------------------
(* The steps of a translation.                                             *)

\* After the last row of the chunk in hand the next chunk is due.
LEMMA TurnSettles ==
    ASSUME CardsInv, Calling, rendered' = rendered, Turn(Tail(todo))
    PROVE  /\ QueueInv' /\ NextRow' = todo[1][1] + Len(todo[1])
           /\ ToSet(byField') \subseteq DOMAIN rendered
<1>. DEFINE rest == Tail(todo)
            queue == FirstQueue(rest)
<1>1. TypeOK /\ QueueOf(todo, Len(rendered)) /\ todo # <<>>
  BY DEF CardsInv, QueueInv, Calling
<1>2. todo' = rest /\ byField' = queue
  BY DEF Turn
<1>. HIDE DEF rest, queue
<1>3. rest = Tail(todo) /\ queue = FirstQueue(rest)
  BY DEF rest, queue
<1>4. QueueOf(rest, Len(rendered)) /\ First(rest) = todo[1][1] + Len(todo[1])
  BY <1>1, <1>3, TailQueue
<1>5. /\ RestOf(queue, rest) /\ ToSet(queue) \subseteq DOMAIN rendered
      /\ queue # <<>> => queue[1] = First(rest)
  BY <1>1, <1>3, <1>4, TurnIs
<1>6. QueueInv'
  BY <1>2, <1>4, <1>5 DEF QueueInv
<1>7. queue # <<>> => rest # <<>>
  BY <1>5 DEF RestOf
<1>8. NextRow' = First(rest)
  BY <1>2, <1>5, <1>7 DEF NextRow, First
<1>. QED
  BY <1>2, <1>4, <1>5, <1>6, <1>8

\* A failed call changes only how its rows go on.
LEMMA ChunkDeniedKeeps ==
    ASSUME CardsInv, ChunkDenied
    PROVE  CardsInv'
<1>. DEFINE chunk == todo[1]
<1>1. /\ Calling /\ byField = <<>> /\ byField' = Head(todo) /\ phase = "mayura"
      /\ UNCHANGED <<phase, before, rendered, todo, translated, harmed, rowLost, emptied, denied>>
  BY DEF ChunkDenied, ByChunk, history, Calling
<1>2. /\ byField' = todo[1] /\ InCall(todo[1]) /\ Consecutive(todo[1]) /\ NextRow = todo[1][1]
      /\ DOMAIN todo[1] = 1..Len(todo[1]) /\ todo[1][1] \in Nat /\ todo # <<>> /\ Len(todo[1]) >= 1
  BY <1>1, CallIs DEF Calling
<1>3. RestOf(todo[1], todo)
  BY <1>2 DEF RestOf, InCall
<1>4. QueueInv'
  BY <1>1, <1>2, <1>3 DEF CardsInv, QueueInv
<1>5. NextRow' = NextRow
  BY <1>1, <1>2 DEF NextRow, InCall
<1>6. ToSet(byField') \subseteq DOMAIN rendered
  BY <1>2, Positions DEF InCall, ToSet, CardsInv
<1>7. harmed \subseteq DOMAIN rendered /\ rowLost \in BOOLEAN
  BY DEF CardsInv, TypeOK
<1>8. UNCHANGED <<phase, before, rendered, translated, denied, emptied>> /\ harmed' = harmed /\ rowLost' = rowLost
  BY <1>1
<1>. HIDE DEF CardsInv
<1>. QED
  BY <1>1, <1>4, <1>5, <1>6, <1>7, <1>8, NothingRecorded

\* An answer is recorded, or thrown away and its rows go one by one.
LEMMA ChunkAnsweredKeeps ==
    ASSUME CardsInv, ChunkAnswered
    PROVE  CardsInv'
<1>. DEFINE chunk == todo[1]
            l == Len(chunk)
            lo == chunk[1]
            hi == lo + l - 1
<1>1. /\ Calling /\ byField = <<>> /\ phase = "mayura" /\ todo # <<>>
      /\ UNCHANGED <<phase, before, rendered, denied>> /\ TypeOK
  BY DEF ChunkAnswered, ByChunk, Calling, CardsInv
<1>2. /\ Head(todo) = chunk /\ InCall(chunk) /\ Consecutive(chunk) /\ DOMAIN chunk = 1..Len(chunk)
      /\ \A i, k \in 1..Len(chunk) : chunk[i] = chunk[k] => i = k
      /\ l \in Nat /\ l >= 1 /\ lo \in Nat /\ 1 <= lo /\ lo + l <= Len(rendered) + 1
      /\ NextRow = lo
  BY <1>1, CallIs
<1>3. PICK copies \in Copies[l], backwards \in Directions(chunk) :
        LET answer == Answer(kindsOf, chunk, copies, backwards)
            decoded == Decode(answer, IdsOf(chunk))
        IN  /\ harmed' = harmed \cup Damaged(chunk, copies)
            /\ rowLost' = (rowLost \/ \E i \in DOMAIN chunk : copies[<<i, 0>>] = 0)
            /\ IF Cardinality(DOMAIN decoded) >= Enough(l)
               THEN /\ translated' = Recorded([p \in ToSet(chunk) |-> FromAnswer(decoded, p)])
                    /\ emptied' = emptied \cup Nothing(chunk, copies, DOMAIN decoded)
                    /\ Turn(Tail(todo))
               ELSE byField' = chunk /\ UNCHANGED <<todo, translated, emptied>>
  <2>. DEFINE AnswerTo(c) ==
                \E copies \in Copies[Len(c)], backwards \in Directions(c) :
                    LET answer == Answer(kindsOf, c, copies, backwards)
                        decoded == Decode(answer, IdsOf(c))
                    IN  /\ harmed' = harmed \cup Damaged(c, copies)
                        /\ rowLost' = (rowLost \/ \E i \in DOMAIN c : copies[<<i, 0>>] = 0)
                        /\ IF Cardinality(DOMAIN decoded) >= Enough(Len(c))
                           THEN /\ translated' = Recorded([p \in ToSet(c) |-> FromAnswer(decoded, p)])
                                /\ emptied' = emptied \cup Nothing(c, copies, DOMAIN decoded)
                                /\ Turn(Tail(todo))
                           ELSE byField' = c /\ UNCHANGED <<todo, translated, emptied>>
              head == Head(todo)
  <2>1. AnswerTo(head)
    BY Zenon DEF ChunkAnswered, Damaged, IdsOf, Directions
  <2>2. head = chunk
    BY <1>2
  <2>3. AnswerTo(chunk)
    <3>. HIDE DEF AnswerTo, head, chunk
    <3>. QED
      BY <2>1, <2>2, Zenon
  <2>. QED
    BY <2>3, Zenon
<1>. DEFINE decoded == Decode(Answer(kindsOf, chunk, copies, backwards), IdsOf(chunk))
            results == [p \in ToSet(chunk) |-> FromAnswer(decoded, p)]
<1>4. /\ harmed' = harmed \cup Damaged(chunk, copies)
      /\ rowLost' = (rowLost \/ \E i \in DOMAIN chunk : copies[<<i, 0>>] = 0)
      /\ \/ /\ Cardinality(DOMAIN decoded) >= Enough(l)
            /\ translated' = Recorded(results) /\ Turn(Tail(todo))
            /\ emptied' = emptied \cup Nothing(chunk, copies, DOMAIN decoded)
         \/ byField' = chunk /\ UNCHANGED <<todo, translated, emptied>>
  BY <1>3
<1>. HIDE DEF decoded, results
<1>5. Len(rendered) \in Nat /\ DOMAIN rendered = 1..Len(rendered) /\ Len(rendered) <= MaxRows
  BY <1>1, Positions
<1>6. AreCopies(copies, l)
  <2>1. l \in 1..MaxRows
    BY <1>2, <1>5, BoundsAreNatural
  <2>. HIDE DEF l
  <2>. QED
    BY <2>1, CopiesTyped
<1>7. ToSet(chunk) = lo..hi /\ ToSet(chunk) \subseteq 1..Len(rendered)
  <2>1. \A k \in 1..l : chunk[k] = lo + k - 1
    BY <1>2 DEF Consecutive
  <2>2. ToSet(chunk) = {chunk[k] : k \in 1..l}
    BY <1>2 DEF ToSet
  <2>. HIDE DEF lo, l, chunk
  <2>3. \A k \in 1..l : chunk[k] \in lo..hi
    BY <1>2, <2>1
  <2>4. \A q \in lo..hi : q - lo + 1 \in 1..l /\ chunk[q - lo + 1] = q
    BY <1>2, <2>1
  <2>5. ToSet(chunk) = lo..hi
    BY <2>2, <2>3, <2>4
  <2>6. lo..hi \subseteq 1..Len(rendered)
    BY <1>2, <1>5
  <2>. QED
    BY <2>5, <2>6
<1>8. /\ harmed \subseteq harmed' /\ harmed' \subseteq DOMAIN rendered
      /\ (rowLost => rowLost') /\ rowLost' \in BOOLEAN
      /\ denied' = denied /\ harmed' \cup denied' \subseteq DOMAIN rendered
  <2>1. Damaged(chunk, copies) \subseteq ToSet(chunk)
    BY DEF Damaged, ToSet
  <2>. QED
    BY <1>1, <1>4, <1>5, <1>7, <2>1 DEF TypeOK
<1>9. CASE byField' = chunk /\ UNCHANGED <<todo, translated, emptied>>
  <2>1. RestOf(chunk, todo)
    BY <1>1, <1>2 DEF RestOf, InCall
  <2>2. QueueInv'
    BY <1>1, <1>9, <2>1 DEF CardsInv, QueueInv
  <2>3. NextRow' = NextRow
    BY <1>1, <1>2, <1>9 DEF NextRow, InCall
  <2>4. ToSet(byField') \subseteq DOMAIN rendered
    BY <1>5, <1>7, <1>9
  <2>5. UNCHANGED <<phase, before, rendered, translated, denied, emptied>>
    BY <1>1, <1>9
  <2>. HIDE DEF CardsInv
  <2>. QED
    BY <1>1, <1>8, <2>2, <2>3, <2>4, <2>5, NothingRecorded
<1>10. CASE /\ Cardinality(DOMAIN decoded) >= Enough(l)
            /\ translated' = Recorded(results) /\ Turn(Tail(todo))
            /\ emptied' = emptied \cup Nothing(chunk, copies, DOMAIN decoded)
  <2>1. /\ QueueInv' /\ NextRow' = lo + l
        /\ ToSet(byField') \subseteq DOMAIN rendered
    BY <1>1, <1>10, TurnSettles
  <2>2. DOMAIN results = lo..hi /\ \A j \in 1..Len(chunk) : results[chunk[j]] = FromAnswer(decoded, chunk[j])
    <3>1. \A j \in 1..Len(chunk) : chunk[j] \in ToSet(chunk)
      BY <1>2 DEF ToSet
    <3>. QED
      BY <1>7, <3>1 DEF results
  <2>3. \A p \in lo..hi : \E j \in 1..Len(chunk) : p = chunk[j]
    BY <1>2, <1>7 DEF ToSet
  <2>15. emptied \subseteq emptied' /\ emptied' \subseteq (DOMAIN rendered) \X (1..3)
    <3>1. \A i \in DOMAIN chunk : chunk[i] \in DOMAIN rendered /\ kindsOf[chunk[i]] \in Kinds
      BY <1>1, <1>2, <1>5, Positions DEF InCall
    <3>2. \A i \in DOMAIN chunk : FieldsOf(kindsOf[chunk[i]]) \subseteq 1..3
      BY <3>1 DEF Kinds, FieldsOf
    <3>. DEFINE told == DOMAIN decoded
    <3>. HIDE DEF told, chunk
    <3>3. Nothing(chunk, copies, told) \subseteq (DOMAIN rendered) \X (1..3)
      <4>. SUFFICES ASSUME NEW x \in Nothing(chunk, copies, told)
                    PROVE  x \in (DOMAIN rendered) \X (1..3)
        OBVIOUS
      <4>1. PICK i \in DOMAIN chunk : x \in {chunk[i]} \X FieldsOf(kindsOf[chunk[i]])
        BY DEF Nothing
      <4>. QED
        BY <3>1, <3>2, <4>1
    <3>4. emptied \subseteq (DOMAIN rendered) \X (1..3)
      BY <1>1 DEF TypeOK
    <3>. QED
      BY <1>10, <3>3, <3>4 DEF told
  <2>. DEFINE wounded == harmed'
              lacking == emptied'
  <2>. HIDE DEF wounded, lacking, chunk
  <2>4. decoded = Decode(Answer(kindsOf, chunk, copies, backwards), IdsOf(chunk))
        /\ AreCopies(copies, Len(chunk)) /\ Damaged(chunk, copies) \subseteq wounded
    BY <1>4, <1>6 DEF decoded, wounded
  <2>16. Nothing(chunk, copies, DOMAIN decoded) \subseteq lacking
    BY <1>10 DEF lacking
  <2>17. backwards \in BOOLEAN
    BY DirectionsAre
  <2>5. ASSUME NEW j \in 1..Len(chunk)
        PROVE  /\ Explained(results[chunk[j]], rendered[chunk[j]].id, lacking)
               /\ Caused(results[chunk[j]], rendered[chunk[j]].id, wounded)
               /\ DistinctIds /\ (\A i \in 1..Len(chunk) : copies[<<i, 0>>] # 0) =>
                     Own(results[chunk[j]], chunk[j], wounded, lacking)
    <3>1. results[chunk[j]] = FromAnswer(decoded, chunk[j])
      BY <2>2
    <3>2. /\ Explained(FromAnswer(decoded, chunk[j]), rendered[chunk[j]].id, lacking)
          /\ Caused(FromAnswer(decoded, chunk[j]), rendered[chunk[j]].id, wounded)
          /\ DistinctIds /\ (\A i \in 1..Len(chunk) : copies[<<i, 0>>] # 0) =>
                Own(FromAnswer(decoded, chunk[j]), chunk[j], wounded, lacking)
      <4>1. /\ TypeOK /\ InCall(chunk) /\ AreCopies(copies, Len(chunk)) /\ backwards \in BOOLEAN
            /\ decoded = Decode(Answer(kindsOf, chunk, copies, backwards), IdsOf(chunk))
            /\ Damaged(chunk, copies) \subseteq wounded
            /\ Nothing(chunk, copies, DOMAIN decoded) \subseteq lacking
        BY <1>1, <1>2, <2>4, <2>16, <2>17
      <4>. QED
        BY <4>1, AnsweredRow
    <3>. QED
      BY <3>1, <3>2
  <2>6. \A p \in DOMAIN results : /\ Explained(results[p], rendered[p].id, emptied')
                                  /\ Caused(results[p], rendered[p].id, harmed' \cup denied')
    <3>1. \A p \in DOMAIN results : /\ Explained(results[p], rendered[p].id, lacking)
                                    /\ Caused(results[p], rendered[p].id, wounded)
      BY <2>2, <2>3, <2>5
    <3>. QED
      BY <3>1 DEF Caused, wounded, lacking
  <2>7. DistinctIds /\ ~rowLost' => \A p \in DOMAIN results : Own(results[p], p, harmed', emptied')
    <3>1. SUFFICES ASSUME DistinctIds, ~rowLost' PROVE \A p \in DOMAIN results : Own(results[p], p, wounded, lacking)
      BY DEF wounded, lacking
    <3>2. \A i \in 1..Len(chunk) : copies[<<i, 0>>] # 0
      BY <1>2, <1>4, <3>1
    <3>. QED
      BY <2>2, <2>3, <2>5, <3>1, <3>2
  <2>. DEFINE all == {p \in ToSet(chunk) : FromAnswer(decoded, p).lang = "en"}
              missed == {p \in lo..hi : results[p].lang = "en"} \ denied'
  <2>8. IsFiniteSet(all) /\ 3 * Cardinality(all) <= 2 * l
    BY <1>1, <1>2, <1>10, <2>4, <2>17, AnsweredCount
  <2>9. missed \subseteq all
    BY <1>7, <2>2, <2>3
  <2>10. 3 * Cardinality(missed) <= 2 * (hi - lo + 1)
    <3>. HIDE DEF missed, all, lo, l
    <3>1. IsFiniteSet(missed) /\ Cardinality(missed) <= Cardinality(all)
      BY <2>8, <2>9, FS_Subset
    <3>2. Cardinality(missed) \in Nat /\ Cardinality(all) \in Nat
      BY <2>8, <3>1, FS_CardinalityType
    <3>3. hi - lo + 1 = l
      BY <1>2
    <3>. QED
      BY <1>2, <2>8, <3>1, <3>2, <3>3
  <2>11. /\ hi \in Nat /\ NextRow \in Nat /\ 1 <= NextRow /\ NextRow <= hi /\ hi <= Len(rendered)
         /\ NextRow' = hi + 1
    <3>. HIDE DEF lo, l
    <3>. QED
      BY <1>2, <1>5, <2>1
  <2>12. DOMAIN results = NextRow..hi
    BY <1>2, <2>2
  <2>13. missed = {p \in NextRow..hi : results[p].lang = "en"} \ denied'
         /\ 3 * Cardinality(missed) <= 2 * (hi - NextRow + 1)
    BY <1>2, <2>10
  <2>. HIDE DEF CardsInv, Calling, hi, lo, l, missed
  <2>14. UNCHANGED <<phase, before, rendered>> /\ denied \subseteq denied' /\ translated' = Recorded(results)
    BY <1>1, <1>10
  <2>. QED
    BY <1>1, <1>8, <2>1, <2>6, <2>7, <2>11, <2>12, <2>13, <2>14, <2>15, SomeRecorded
<1>. QED
  BY <1>4, <1>9, <1>10

\* The row in hand is settled in fields of its own but for those of which nothing
\* came back, and in English only if a call for it has failed.
LEMMA RowSettledKeeps ==
    ASSUME CardsInv, ByField, NEW p, p = Head(byField), NEW result, RowSettled(result),
           UNCHANGED <<phase, before, rendered, harmed, rowLost>>,
           denied \subseteq denied', denied' \subseteq DOMAIN rendered,
           emptied \subseteq emptied', emptied' \subseteq (DOMAIN rendered) \X (1..3),
           NEW F, F \subseteq FieldsOf(kindsOf[p]), result.fields = Texts(F, p),
           \A f \in FieldsOf(kindsOf[p]) \ F : <<p, f>> \in emptied',
           result.lang = "en" => p \in denied'
    PROVE  CardsInv'
<1>. DEFINE r == Len(byField)
            results == [q \in {p} |-> result]
<1>1. /\ Calling /\ byField # <<>> /\ todo # <<>> /\ phase = "mayura" /\ TypeOK
      /\ translated' = Recorded(results)
      /\ harmed \cup denied' \subseteq DOMAIN rendered /\ rowLost \in BOOLEAN
  BY DEF ByField, Calling, CardsInv, TypeOK, RowSettled
<1>2. /\ p = byField[1] /\ p = NextRow /\ p \in Nat /\ 1 <= p /\ p <= Len(rendered)
      /\ r \in Nat /\ r >= 1 /\ p + r = todo[1][1] + Len(todo[1])
  BY <1>1, CallIs
<1>3. /\ byField \in Seq(Nat) /\ Consecutive(byField) /\ byField[1] >= todo[1][1]
      /\ DOMAIN byField = 1..r /\ todo[1][1] \in Nat
      /\ ToSet(byField) \subseteq DOMAIN rendered /\ DOMAIN rendered = 1..Len(rendered) /\ Len(rendered) \in Nat
  BY <1>1, CallIs, LenProperties, Positions DEF CardsInv, QueueInv, RestOf, TypeOK
<1>4. /\ QueueInv' /\ NextRow' = p + 1
      /\ ToSet(byField') \subseteq DOMAIN rendered
  <2>1. CASE r = 1
    <3>1. Turn(Tail(todo))
      BY <2>1 DEF RowSettled
    <3>2. /\ QueueInv' /\ NextRow' = todo[1][1] + Len(todo[1])
          /\ ToSet(byField') \subseteq DOMAIN rendered
      BY <1>1, <3>1, TurnSettles
    <3>. QED
      BY <1>2, <2>1, <3>2
  <2>2. CASE r # 1
    <3>1. byField' = Tail(byField) /\ todo' = todo
      BY <2>2 DEF RowSettled
    <3>. DEFINE rest == Tail(byField)
    <3>2. rest \in Seq(Nat) /\ Len(rest) = r - 1 /\ \A i \in 1..(r - 1) : rest[i] = byField[i + 1]
      BY <1>1, <1>3, HeadTailProperties
    <3>. HIDE DEF rest, r
    <3>3. \A i \in 1..r : byField[i] = p + i - 1
      BY <1>2, <1>3 DEF Consecutive, r
    <3>4. ASSUME NEW i \in 1..(r - 1) PROVE rest[i] = p + i
      <4>1. i + 1 \in 1..r /\ p + (i + 1) - 1 = p + i
        BY <1>2
      <4>. QED
        BY <3>2, <3>3, <4>1
    <3>5. 1 \in 1..(r - 1) /\ r \in Nat
      BY <1>2, <2>2
    <3>6. rest[1] = p + 1
      BY <3>4, <3>5
    <3>7. Consecutive(rest)
      BY <1>2, <3>2, <3>4, <3>6 DEF Consecutive
    <3>8. rest # <<>>
      BY <3>2, <3>5, EmptySeq
    <3>9. rest[1] + Len(rest) = todo[1][1] + Len(todo[1]) /\ rest[1] >= todo[1][1]
      <4>. DEFINE b == todo[1][1]
                  e == b + Len(todo[1])
      <4>1. /\ p \in Nat /\ b \in Nat /\ r \in Nat /\ p >= b /\ p + r = e
            /\ rest[1] = p + 1 /\ Len(rest) = r - 1
        BY <1>2, <1>3, <3>2, <3>5, <3>6
      <4>. HIDE DEF b, e
      <4>2. rest[1] + Len(rest) = e /\ rest[1] >= b
        BY <4>1
      <4>. QED
        BY <4>2 DEF b, e
    <3>10. RestOf(rest, todo)
      BY <1>1, <3>2, <3>7, <3>8, <3>9 DEF RestOf
    <3>11. QueueInv'
      BY <3>1, <3>10 DEF CardsInv, QueueInv, rest
    <3>12. NextRow' = p + 1
      BY <1>1, <3>1, <3>6, <3>8 DEF NextRow, rest
    <3>13. ToSet(rest) \subseteq DOMAIN rendered
      <4>1. \A i \in DOMAIN rest : i \in 1..(r - 1)
        BY <3>2, LenProperties
      <4>2. \A i \in 1..(r - 1) : i + 1 \in 1..r
        BY <3>5
      <4>3. \A i \in 1..r : byField[i] \in DOMAIN rendered
        BY <1>3 DEF ToSet, r
      <4>. QED
        BY <3>2, <4>1, <4>2, <4>3 DEF ToSet
    <3>. QED
      BY <3>1, <3>11, <3>12, <3>13 DEF rest
  <2>. QED
    BY <2>1, <2>2
<1>5. p \in 1..Len(rendered) /\ DOMAIN results = NextRow..p /\ results[p] = result
      /\ NextRow \in Nat /\ 1 <= NextRow /\ NextRow <= p
  <2>1. p..p = {p}
    BY <1>2
  <2>. QED
    BY <1>2, <1>3, <2>1
<1>. HIDE DEF results
<1>. DEFINE lacking == emptied'
<1>. HIDE DEF lacking
<1>6. /\ Explained(result, rendered[p].id, lacking) /\ Own(result, p, harmed, lacking)
      /\ Caused(result, rendered[p].id, harmed \cup denied')
  <2>1. Explained(result, rendered[p].id, lacking) /\ Own(result, p, harmed, lacking)
    <3>1. \A f \in FieldsOf(kindsOf[p]) \ F : <<p, f>> \in lacking
      BY DEF lacking
    <3>. QED
      BY <1>1, <1>5, <3>1, OwnTextsAre
  <2>2. p \in Rows(rendered[p].id)
    BY <1>3, <1>5 DEF Rows
  <2>. QED
    BY <2>1, <2>2 DEF Caused
<1>7. DOMAIN results = {p}
  BY DEF results
<1>8. \A q \in DOMAIN results : /\ Explained(results[q], rendered[q].id, emptied')
                                /\ Caused(results[q], rendered[q].id, harmed' \cup denied')
  <2>1. \A q \in DOMAIN results : /\ Explained(results[q], rendered[q].id, lacking)
                                  /\ Caused(results[q], rendered[q].id, harmed \cup denied')
    BY <1>5, <1>6, <1>7
  <2>. QED
    BY <2>1 DEF Caused, lacking
<1>9. \A q \in DOMAIN results : Own(results[q], q, harmed', emptied')
  <2>1. \A q \in DOMAIN results : Own(results[q], q, harmed, lacking)
    BY <1>5, <1>6, <1>7
  <2>. QED
    BY <2>1 DEF Own, lacking
<1>. DEFINE missed == {q \in NextRow..p : results[q].lang = "en"} \ denied'
<1>10. missed = {}
  BY <1>5, <1>7
<1>11. 3 * Cardinality(missed) <= 2 * (p - NextRow + 1)
  <2>1. Cardinality(missed) = 0
    BY <1>10, FS_EmptySet
  <2>. HIDE DEF missed
  <2>. QED
    BY <1>2, <2>1
<1>12. missed = {q \in NextRow..p : results[q].lang = "en"} \ denied'
  OBVIOUS
<1>13. /\ UNCHANGED <<phase, before, rendered>> /\ harmed \subseteq harmed' /\ (rowLost => rowLost')
       /\ harmed' \cup denied' \subseteq DOMAIN rendered /\ rowLost' \in BOOLEAN
  BY <1>1
<1>. HIDE DEF CardsInv, missed
<1>. QED
  BY <1>1, <1>2, <1>4, <1>5, <1>8, <1>9, <1>11, <1>12, <1>13, SomeRecorded

\* The row in hand, whose calls have all come back, some of them with nothing.
LEMMA RowTranslatedKeeps ==
    ASSUME CardsInv, RowTranslated
    PROVE  CardsInv'
<1>. DEFINE p == Head(byField)
            kind == kindsOf[p]
            resultOf(gone) == [English(p) EXCEPT !.lang = "xx", !.fields = Texts(FieldsOf(kind) \ gone, p)]
<1>1. /\ ByField /\ Calling /\ byField # <<>> /\ TypeOK
      /\ UNCHANGED <<phase, before, rendered, harmed, rowLost>> /\ denied' = denied
  BY DEF RowTranslated, ByField, CardsInv
<1>2. p \in DOMAIN rendered /\ kind \in Kinds
  <2>1. p \in Nat /\ 1 <= p /\ p <= Len(rendered)
    BY <1>1, CallIs
  <2>. HIDE DEF p
  <2>2. p \in 1..Len(rendered)
    BY <1>1, <2>1, Positions
  <2>. QED
    BY <1>1, <2>2, Positions
<1>3. PICK gone \in SUBSET FieldsOf(kind) :
         RowSettled(resultOf(gone)) /\ emptied' = emptied \cup ({p} \X gone)
  BY DEF RowTranslated
<1>. DEFINE result == resultOf(gone)
            F == FieldsOf(kind) \ gone
<1>4. RowSettled(result) /\ result.fields = Texts(F, p) /\ result.lang = "xx"
  BY <1>3 DEF English
<1>5. F \subseteq FieldsOf(kindsOf[p]) /\ \A f \in FieldsOf(kindsOf[p]) \ F : <<p, f>> \in emptied'
  BY <1>3
<1>6. emptied \subseteq emptied' /\ emptied' \subseteq (DOMAIN rendered) \X (1..3)
  <2>1. FieldsOf(kind) \subseteq 1..3
    BY <1>2 DEF Kinds, FieldsOf
  <2>. QED
    BY <1>1, <1>2, <1>3, <2>1 DEF TypeOK
<1>7. denied \subseteq denied' /\ denied' \subseteq DOMAIN rendered
  BY <1>1 DEF TypeOK
<1>8. p = Head(byField) /\ (result.lang = "en" => p \in denied')
  BY <1>4
<1>. HIDE DEF CardsInv, result, F, p
<1>. QED
  BY <1>1, <1>4, <1>5, <1>6, <1>7, <1>8, RowSettledKeeps

\* The end of the row, with a call that has failed.
LEMMA RowDeniedKeeps ==
    ASSUME CardsInv, RowDenied
    PROVE  CardsInv'
<1>. DEFINE p == Head(byField)
            result == English(p)
            F == FieldsOf(kindsOf[p])
<1>1. /\ ByField /\ Calling /\ byField # <<>> /\ TypeOK
      /\ UNCHANGED <<phase, before, rendered, harmed, rowLost>> /\ emptied' = emptied
      /\ RowSettled(result) /\ denied' = denied \cup {p}
  BY DEF RowDenied, ByField, CardsInv
<1>2. p = byField[1] /\ DOMAIN rendered = 1..Len(rendered) /\ p \in 1..Len(rendered)
  <2>1. p = byField[1] /\ p \in Nat /\ 1 <= p /\ p <= Len(rendered)
    BY <1>1, CallIs
  <2>. HIDE DEF p
  <2>. QED
    BY <1>1, <2>1, Positions
<1>3. /\ denied \subseteq denied' /\ denied' \subseteq DOMAIN rendered /\ p \in denied'
      /\ emptied \subseteq emptied' /\ emptied' \subseteq (DOMAIN rendered) \X (1..3)
  BY <1>1, <1>2 DEF TypeOK
<1>4. result.fields = Texts(F, p)
  BY DEF English, OwnFields
<1>5. F \subseteq FieldsOf(kindsOf[p]) /\ \A f \in FieldsOf(kindsOf[p]) \ F : <<p, f>> \in emptied'
  OBVIOUS
<1>6. p = Head(byField)
  OBVIOUS
<1>. HIDE DEF CardsInv, result, p, F
<1>. QED
  BY <1>1, <1>3, <1>4, <1>5, <1>6, RowSettledKeeps

\* The first chunk begins with the first row, and no row is translated.
LEMMA StartTranslationKeeps ==
    ASSUME CardsInv, StartTranslation
    PROVE  CardsInv'
<1>. DEFINE n == Len(rendered)
            chunks == Pack(kindsOf)
            queue == FirstQueue(chunks)
<1>1. /\ TypeOK /\ PhaseInv /\ Covered /\ phase = "translate" /\ rendered # <<>>
      /\ phase' = "mayura" /\ translated = <<>> /\ translated' = translated
      /\ todo' = chunks /\ byField' = queue
      /\ UNCHANGED <<before, rendered, history>>
  BY DEF StartTranslation, CardsInv, Turn
<1>2. /\ rendered' = rendered /\ harmed' = harmed /\ denied' = denied /\ rowLost' = rowLost /\ emptied' = emptied
      /\ clauses' = clauses /\ risks' = risks /\ prompted' = prompted /\ target' = target
      /\ page' = page /\ text' = text /\ said' = said
  BY <1>1 DEF before, history
<1>3. n \in Nat /\ n # 0 /\ Len(kindsOf) = n
  BY <1>1, Positions, EmptySeq DEF TypeOK
<1>4. QueueOf(chunks, n) /\ chunks # <<>> /\ chunks[1][1] = 1
  <2>. HIDE DEF n, queue
  <2>. QED
    BY <1>3, PackIs
<1>. HIDE DEF chunks, queue
<1>5. /\ RestOf(queue, chunks) /\ ToSet(queue) \subseteq DOMAIN rendered
      /\ queue # <<>> => queue[1] = First(chunks)
  <2>1. queue = FirstQueue(chunks) /\ QueueOf(chunks, Len(rendered))
    BY <1>4 DEF queue
  <2>. QED
    BY <1>1, <2>1, TurnIs
<1>6. TypeOK'
  BY <1>1, <1>2, <1>5 DEF TypeOK, Ids
<1>7. PhaseInv'
  BY <1>1, <1>2 DEF PhaseInv
<1>8. QueueInv'
  BY <1>1, <1>2, <1>4, <1>5 DEF QueueInv
<1>9. NextRow' = 1
  BY <1>1, <1>4, <1>5 DEF NextRow, First
<1>. DEFINE k == NextRow' - 1
<1>10. k = 0 /\ 1..k = {}
  BY <1>9
<1>11. DoneInv'
  <2>1. DOMAIN translated' = {}
    BY <1>1
  <2>2. Names(NextRow - 1)' = {}
    BY <1>9 DEF Names
  <2>. QED
    BY <2>1, <2>2 DEF DoneInv
<1>12. RowsInv' /\ WordsInv'
  BY <1>1 DEF RowsInv, WordsInv, RowsAre, WordsAre
<1>13. CountInv'
  <2>. HIDE DEF k
  <2>1. EnglishTo(translated', 0) \ denied' = {}
    BY DEF EnglishTo
  <2>2. (EnglishTo(translated, NextRow - 1) \ denied)' = {}
    BY <1>9, <1>2 DEF EnglishTo
  <2>3. Cardinality((EnglishTo(translated, NextRow - 1) \ denied)') = 0
    BY <2>2, FS_EmptySet
  <2>. QED
    BY <1>9, <2>3 DEF CountInv, FewEnglish
<1>14. Covered'
  BY <1>1, <1>2, SameRows DEF Covered
<1>. QED
  BY <1>6, <1>7, <1>8, <1>11, <1>12, <1>13, <1>14 DEF CardsInv

\* No chunk is left, so every row is translated.
LEMMA TranslationDoneKeeps ==
    ASSUME CardsInv, TranslationDone
    PROVE  CardsInv'
<1>1. /\ TypeOK /\ PhaseInv /\ QueueInv /\ DoneInv /\ RowsInv /\ WordsInv /\ CountInv /\ Covered
      /\ phase = "mayura" /\ phase' = "ready" /\ todo = <<>> /\ todo' = todo
      /\ UNCHANGED <<before, rendered, byField, translated, history>>
  BY DEF TranslationDone, CardsInv
<1>2. /\ rendered' = rendered /\ harmed' = harmed /\ denied' = denied /\ rowLost' = rowLost /\ emptied' = emptied
      /\ clauses' = clauses /\ risks' = risks /\ prompted' = prompted /\ target' = target
      /\ page' = page /\ text' = text /\ said' = said /\ translated' = translated
      /\ byField' = byField
  BY <1>1 DEF before, history
<1>3. byField = <<>>
  BY <1>1 DEF QueueInv, RestOf
<1>4. TypeOK'
  BY <1>1, <1>2 DEF TypeOK, Ids
<1>5. PhaseInv'
  BY <1>1, <1>2, <1>3 DEF PhaseInv
<1>6. QueueInv'
  BY <1>1, <1>2 DEF QueueInv
<1>7. NextRow' = NextRow /\ Translating
  BY <1>1, <1>2 DEF NextRow, Translating
<1>8. DoneInv'
  BY <1>1, <1>2, <1>7 DEF DoneInv, Names
<1>9. RowsInv'
  BY <1>1, <1>2, SameRows DEF RowsInv, RowsAre, Explained, Caused
<1>10. WordsInv'
  BY <1>1, <1>2, SameRows DEF WordsInv, WordsAre, Own, Still
<1>11. CountInv'
  BY <1>1, <1>2, <1>7, SameRows DEF CountInv, FewEnglish, EnglishTo
<1>12. Covered'
  BY <1>1, <1>2, SameRows DEF Covered
<1>. QED
  BY <1>4, <1>5, <1>6, <1>8, <1>9, <1>10, <1>11, <1>12 DEF CardsInv

\* A step before or after a translation: nothing is translated, and no row is due.
LEMMA Untranslated ==
    ASSUME CardsInv, phase \notin {"mayura", "ready"}, UNCHANGED <<todo, byField, translated, history>>,
           ~Translating', TypeOK', PhaseInv', Covered'
    PROVE  CardsInv'
<1>1. todo' = <<>> /\ byField' = <<>> /\ translated' = <<>>
  BY DEF CardsInv, PhaseInv
<1>2. QueueInv'
  <2>1. <<>> \in Seq(Seq(Nat)) /\ <<>> \in Seq(Nat) /\ Len(<<>>) = 0
    BY EmptySeq
  <2>2. 1..0 = {}
    OBVIOUS
  <2>. QED
    BY <1>1, <2>1, <2>2 DEF QueueInv, QueueOf, RestOf
<1>3. DoneInv' /\ CountInv'
  BY DEF DoneInv, CountInv
<1>4. RowsInv' /\ WordsInv'
  BY <1>1 DEF RowsInv, WordsInv, RowsAre, WordsAre
<1>. QED
  BY <1>2, <1>3, <1>4 DEF CardsInv

\* A placeholder for each id of a set, and for no other.
LEMMA PlaceholdersAre ==
    ASSUME NEW S, IsFiniteSet(S), NEW kind, NEW rest \in Placeholders(S, kind)
    PROVE  /\ rest = [i \in 1..Cardinality(S) |-> rest[i]]
           /\ \A i \in 1..Cardinality(S) : rest[i].id \in S /\ rest[i].kind = kind
                                           /\ rest[i] = [id |-> rest[i].id, kind |-> kind]
           /\ \A id \in S : \E i \in 1..Cardinality(S) : rest[i].id = id
<1>. DEFINE c == Cardinality(S)
            D == 1..c
<1>1. c \in Nat /\ IsFiniteSet(D) /\ Cardinality(D) = c
  BY FS_CardinalityType, FS_Interval
<1>2. PICK order \in SetToSeqs(S) : rest = [i \in DOMAIN order |-> [id |-> order[i], kind |-> kind]]
  BY DEF Placeholders
<1>3. order \in [D -> S] /\ \A i, j \in D : i # j => order[i] # order[j]
  BY <1>2 DEF SetToSeqs
<1>. HIDE DEF D, c
<1>4. order \in Injection(D, S)
  BY <1>3 DEF Injection, IsInjective
<1>5. order \in Surjection(D, S)
  BY <1>1, <1>4, FS_Injection DEF c
<1>6. \A id \in S : \E i \in D : order[i] = id
  BY <1>5 DEF Surjection
<1>7. rest = [i \in D |-> [id |-> order[i], kind |-> kind]]
  BY <1>2, <1>3
<1>8. \A i \in D : rest[i] = [id |-> order[i], kind |-> kind]
  BY <1>7
<1>9. rest = [i \in D |-> rest[i]]
  BY <1>7
<1>12. \A i \in D : rest[i].id = order[i] /\ rest[i].kind = kind
  <2>. TAKE i \in D
  <2>1. rest[i] = [id |-> order[i], kind |-> kind]
    BY <1>8
  <2>. QED
    BY <2>1
<1>13. \A i \in D : order[i] \in S
  BY <1>3
<1>10. \A i \in D : rest[i].id \in S /\ rest[i].kind = kind /\ rest[i] = [id |-> rest[i].id, kind |-> kind]
  <2>. TAKE i \in D
  <2>1. rest[i].id = order[i] /\ rest[i].kind = kind /\ order[i] \in S /\ rest[i] = [id |-> order[i], kind |-> kind]
    BY <1>8, <1>12, <1>13
  <2>. QED
    BY <2>1
<1>11. \A id \in S : \E i \in D : rest[i].id = id
  BY <1>6, <1>12
<1>. QED
  BY <1>9, <1>10, <1>11 DEF D, c

\* An answer of a model: a sequence of bounded length.
LEMMA AnswerOf ==
    ASSUME NEW S, NEW m \in Nat, NEW s \in BoundedSeq(S, m)
    PROVE  /\ s \in Seq(S) /\ Len(s) \in Nat /\ Len(s) <= m /\ DOMAIN s = 1..Len(s)
           /\ \A i \in DOMAIN s : s[i] \in S
<1>1. PICK l \in 0..m : s \in [1..l -> S]
  BY DEF BoundedSeq, SeqOf
<1>2. l \in Nat /\ l <= m
  OBVIOUS
<1>3. s \in Seq(S) /\ Len(s) = l
  BY <1>1, <1>2, IsASeq
<1>. QED
  BY <1>1, <1>2, <1>3

\* The rows Stage 3 writes fit a rendition and leave no clause out.
RowsWritten(rows) ==
    /\ rows \in Seq([id : Ids, kind : Kinds]) /\ Len(rows) <= MaxRows
    /\ \A id \in clauses : \E p \in DOMAIN rows : rows[p].id = id

\* Placeholders are typed, no more than the clauses, and one for each id.
LEMMA PlaceholdersWritten ==
    ASSUME clauses \subseteq 1..MaxClauses, NEW S, S \subseteq clauses, NEW kind \in Kinds,
           NEW rest \in Placeholders(S, kind)
    PROVE  /\ rest \in Seq([id : Ids, kind : Kinds]) /\ Len(rest) \in Nat /\ Len(rest) <= MaxClauses
           /\ \A id \in S : \E i \in 1..Len(rest) : rest[i].id = id
<1>. DEFINE c == Cardinality(S)
            R == [id : Ids, kind : Kinds]
<1>1. IsFiniteSet(1..MaxClauses) /\ Cardinality(1..MaxClauses) = MaxClauses
  BY RowsHaveRoom, FS_Interval
<1>2. IsFiniteSet(S) /\ c <= MaxClauses
  <2>1. S \subseteq 1..MaxClauses
    OBVIOUS
  <2>. QED
    BY <1>1, <2>1, FS_Subset
<1>3. c \in Nat
  BY <1>2, FS_CardinalityType
<1>4. /\ rest = [i \in 1..c |-> rest[i]]
      /\ \A i \in 1..c : rest[i].id \in S /\ rest[i].kind = kind
                         /\ rest[i] = [id |-> rest[i].id, kind |-> kind]
      /\ \A id \in S : \E i \in 1..c : rest[i].id = id
  BY <1>2, PlaceholdersAre
<1>. HIDE DEF c
<1>5. S \subseteq Ids
  BY RowsHaveRoom DEF Ids
<1>6. ASSUME NEW i \in 1..c PROVE rest[i] \in R
  <2>. DEFINE e == rest[i].id
  <2>1. e \in Ids /\ rest[i] = [id |-> e, kind |-> kind]
    BY <1>4, <1>5
  <2>. HIDE DEF e
  <2>. QED
    BY <2>1
<1>. HIDE DEF R
<1>7. rest \in [1..c -> R]
  BY <1>4, <1>6
<1>8. rest \in Seq(R) /\ Len(rest) = c
  BY <1>3, <1>7, IsASeq
<1>. QED
  BY <1>2, <1>3, <1>4, <1>8 DEF R

\* Stage 3's answer with placeholders for the clauses it left out ...
LEMMA FilledWritten ==
    ASSUME clauses \subseteq 1..MaxClauses,
           NEW answer \in BoundedSeq([id : Ids, kind : Written], MaxClauses),
           NEW rows \in Filled(answer)
    PROVE  RowsWritten(rows)
<1>. DEFINE R == [id : Ids, kind : Kinds]
            Q == [id : Ids, kind : Written]
            left == clauses \ Called(answer)
<1>1. MaxClauses \in Nat /\ 2 * MaxClauses <= MaxRows /\ MaxRows \in Nat
  BY RowsHaveRoom, BoundsAreNatural
<1>2. /\ answer \in Seq(Q) /\ Len(answer) \in Nat /\ Len(answer) <= MaxClauses
      /\ DOMAIN answer = 1..Len(answer) /\ \A i \in DOMAIN answer : answer[i] \in Q
  <2>. HIDE DEF Q
  <2>. QED
    BY <1>1, AnswerOf DEF Q
<1>3. PICK rest \in Placeholders(left, "plain") : rows = answer \o rest
  BY DEF Filled
<1>4. "plain" \in Kinds /\ left \subseteq clauses
  BY DEF Kinds
<1>5. /\ rest \in Seq(R) /\ Len(rest) \in Nat /\ Len(rest) <= MaxClauses
      /\ \A id \in left : \E i \in 1..Len(rest) : rest[i].id = id
  <2>. HIDE DEF left
  <2>. QED
    BY <1>3, <1>4, PlaceholdersWritten
<1>6. answer \in Seq(R)
  <2>1. \A x \in Q : x \in R
    BY RowsHaveRoom
  <2>2. answer \in [1..Len(answer) -> R]
    <3>. HIDE DEF R, Q
    <3>1. answer \in [1..Len(answer) -> Q]
      BY <1>2, LenProperties
    <3>. QED
      BY <2>1, <3>1
  <2>. HIDE DEF R
  <2>. QED
    BY <1>2, <2>2, IsASeq
<1>. HIDE DEF R, Q
<1>7. /\ rows \in Seq(R) /\ Len(rows) = Len(answer) + Len(rest)
      /\ \A i \in 1..(Len(answer) + Len(rest)) :
            rows[i] = IF i <= Len(answer) THEN answer[i] ELSE rest[i - Len(answer)]
  BY <1>3, <1>5, <1>6, ConcatProperties
<1>8. DOMAIN rows = 1..(Len(answer) + Len(rest))
  BY <1>7, LenProperties
<1>9. Len(rows) <= MaxRows
  BY <1>1, <1>2, <1>5, <1>7
<1>10. ASSUME NEW id \in clauses PROVE \E p \in DOMAIN rows : rows[p].id = id
  <2>1. CASE id \in Called(answer)
    <3>1. PICK p \in 1..Len(answer) : answer[p].id = id
      BY <1>2, <2>1 DEF Called
    <3>2. p \in 1..(Len(answer) + Len(rest)) /\ p <= Len(answer)
      BY <1>2, <1>5
    <3>3. rows[p] = answer[p]
      BY <1>7, <3>2
    <3>. QED
      BY <1>8, <3>1, <3>2, <3>3
  <2>2. CASE id \notin Called(answer)
    <3>1. PICK i \in 1..Len(rest) : rest[i].id = id
      BY <1>5, <2>2
    <3>. DEFINE p == Len(answer) + i
    <3>2. p \in 1..(Len(answer) + Len(rest)) /\ ~(p <= Len(answer)) /\ p - Len(answer) = i
      BY <1>2, <1>5
    <3>. HIDE DEF p
    <3>3. rows[p] = rest[i]
      BY <1>7, <3>2
    <3>. QED
      BY <1>8, <3>1, <3>2, <3>3
  <2>. QED
    BY <2>1, <2>2
<1>. QED
  BY <1>7, <1>9, <1>10 DEF RowsWritten, R

\* ... and placeholders alone, when it cannot be parsed.
LEMMA PlaceholdersAlone ==
    ASSUME clauses \subseteq 1..MaxClauses, NEW rows \in Placeholders(clauses, "bare")
    PROVE  RowsWritten(rows)
<1>1. "bare" \in Kinds /\ clauses \subseteq clauses
  BY DEF Kinds
<1>. DEFINE S == clauses
<1>. HIDE DEF S
<1>2. /\ rows \in Seq([id : Ids, kind : Kinds]) /\ Len(rows) \in Nat /\ Len(rows) <= MaxClauses
      /\ \A id \in S : \E i \in 1..Len(rows) : rows[i].id = id
  BY <1>1, PlaceholdersWritten DEF S
<1>3. Len(rows) <= MaxRows
  BY <1>2, RowsHaveRoom, BoundsAreNatural
<1>4. DOMAIN rows = 1..Len(rows)
  BY <1>2, LenProperties
<1>. QED
  BY <1>2, <1>3, <1>4 DEF RowsWritten, S

-----------------------------------------------------------------------------
(* The steps before a translation.                                         *)

\* Until there are clauses nothing else is touched.
LEMMA OcrKeeps ==
    ASSUME CardsInv, ReadPage \/ OcrEnds \/ Fails
    PROVE  CardsInv'
<1>1. TypeOK /\ PhaseInv /\ Covered
  BY DEF CardsInv
<1>2. /\ phase \in {"ocr", "stage1"} /\ phase' \in {"ocr", "stage1", "failed"}
      /\ page' \in 0..Pages /\ text' \in BOOLEAN
      /\ UNCHANGED <<clauses, risks, prompted, said, target, rendered, todo, byField, translated, history>>
  <2>1. CASE ReadPage
    <3>1. page' \in 0..Pages
      BY <1>1, <2>1, RowsHaveRoom DEF ReadPage, TypeOK
    <3>2. text' \in BOOLEAN
      BY <1>1, <2>1 DEF ReadPage, TypeOK
    <3>. QED
      BY <2>1, <3>1, <3>2 DEF ReadPage
  <2>2. CASE OcrEnds
    BY <1>1, <2>2 DEF OcrEnds, before, TypeOK
  <2>3. CASE Fails
    BY <1>1, <2>3 DEF Fails, before, TypeOK
  <2>. QED
    BY <2>1, <2>2, <2>3
<1>3. /\ todo' = todo /\ byField' = byField /\ translated' = translated
      /\ harmed' = harmed /\ rowLost' = rowLost /\ denied' = denied /\ emptied' = emptied
  BY <1>2 DEF history
<1>4. TypeOK'
  BY <1>1, <1>2, <1>3 DEF TypeOK, Ids
<1>5. PhaseInv'
  BY <1>1, <1>2, <1>3 DEF PhaseInv
<1>6. Covered'
  BY <1>1, <1>2, SameRows DEF Covered
<1>7. ~Translating'
  BY <1>2 DEF Translating
<1>. HIDE DEF CardsInv
<1>. QED
  BY <1>2, <1>4, <1>5, <1>6, <1>7, Untranslated

\* The clauses, of which there are no risks yet.
LEMMA Stage1Keeps ==
    ASSUME CardsInv, Stage1
    PROVE  CardsInv'
<1>1. /\ TypeOK /\ PhaseInv /\ Covered /\ phase = "stage1" /\ phase' = "stage2"
      /\ UNCHANGED <<page, text, risks, prompted, said, target, rendered, todo, byField, translated, history>>
  BY DEF CardsInv, Stage1
<1>2. /\ todo' = todo /\ byField' = byField /\ translated' = translated
      /\ harmed' = harmed /\ rowLost' = rowLost /\ denied' = denied /\ emptied' = emptied
  BY <1>1 DEF history
<1>3. clauses' \subseteq 1..MaxClauses
  <2>. DEFINE R == [id : Ids, blank : BOOLEAN]
  <2>1. PICK answer \in BoundedSeq(R, MaxClauses) : clauses' = Clean(answer)
    BY DEF Stage1
  <2>2. /\ Len(answer) \in Nat /\ Len(answer) <= MaxClauses /\ DOMAIN answer = 1..Len(answer)
        /\ \A i \in DOMAIN answer : answer[i] \in R
    <3>. HIDE DEF R
    <3>. QED
      BY <2>1, RowsHaveRoom, AnswerOf
  <2>3. \A i \in DOMAIN answer : /\ i \in 1..MaxClauses
                                 /\ answer[i].id = 0 \/ answer[i].id \in 1..MaxClauses
    <3>. TAKE i \in DOMAIN answer
    <3>1. answer[i].id \in 0..MaxClauses
      BY <2>2 DEF Ids
    <3>2. i \in 1..MaxClauses
      BY <2>2, RowsHaveRoom
    <3>. QED
      BY <3>1, <3>2, RowsHaveRoom
  <2>. QED
    BY <2>1, <2>3 DEF Clean
<1>4. prompted = <<>> /\ rendered = <<>> /\ DOMAIN risks = {}
  BY <1>1 DEF PhaseInv
<1>5. TypeOK'
  <2>1. DOMAIN prompted' \subseteq clauses'
    BY <1>1, <1>4
  <2>. QED
    BY <1>1, <1>2, <1>3, <2>1 DEF TypeOK, Ids
<1>6. PhaseInv'
  BY <1>1, <1>2 DEF PhaseInv
<1>7. Covered'
  BY <1>1, <1>4 DEF Covered
<1>8. ~Translating'
  BY <1>1 DEF Translating
<1>. HIDE DEF CardsInv
<1>. QED
  BY <1>1, <1>5, <1>6, <1>7, <1>8, Untranslated

\* Risks are noted for clauses, or none at all.
LEMMA Stage2Keeps ==
    ASSUME CardsInv, Stage2 \/ Stage2Raises
    PROVE  CardsInv'
<1>1. /\ TypeOK /\ PhaseInv /\ Covered /\ phase = "stage2" /\ phase' = "stage3"
      /\ UNCHANGED <<page, text, clauses, prompted, target, rendered, todo, byField, translated, history>>
  BY DEF CardsInv, Stage2, Stage2Raises, before
<1>2. /\ todo' = todo /\ byField' = byField /\ translated' = translated
      /\ harmed' = harmed /\ rowLost' = rowLost /\ denied' = denied /\ emptied' = emptied
  BY <1>1 DEF history
<1>3. DOMAIN risks' \subseteq Ids /\ said' \subseteq Ids
  <2>1. clauses \subseteq Ids
    BY <1>1, RowsHaveRoom DEF TypeOK, Ids
  <2>2. CASE Stage2
    <3>1. PICK answer : risks' = Noted(answer) /\ said' = Green(answer)
      BY <2>2 DEF Stage2
    <3>2. DOMAIN risks' = clauses
      BY <3>1 DEF Noted
    <3>3. said' \subseteq clauses
      BY <3>1 DEF Green
    <3>. QED
      BY <2>1, <3>2, <3>3
  <2>3. CASE Stage2Raises
    BY <1>1, <2>3 DEF Stage2Raises, before, TypeOK
  <2>. QED
    BY <2>2, <2>3
<1>4. TypeOK'
  BY <1>1, <1>2, <1>3 DEF TypeOK, Ids
<1>5. PhaseInv'
  BY <1>1, <1>2 DEF PhaseInv
<1>6. Covered'
  BY <1>1, SameRows DEF Covered
<1>7. ~Translating'
  BY <1>1 DEF Translating
<1>. HIDE DEF CardsInv
<1>. QED
  BY <1>1, <1>4, <1>5, <1>6, <1>7, Untranslated

\* The rows, whose translation has not begun.
LEMMA Stage3Keeps ==
    ASSUME CardsInv, Stage3 \/ Stage3Unparsed \/ NoRows
    PROVE  CardsInv'
<1>1. /\ TypeOK /\ PhaseInv /\ Covered /\ phase = "stage3" /\ phase' = "translate"
      /\ UNCHANGED <<page, text, clauses, risks, said, target, todo, byField, translated, history>>
      /\ clauses \subseteq 1..MaxClauses
  BY DEF CardsInv, Stage3, Stage3Unparsed, NoRows, Stage3Ends, TypeOK
<1>2. /\ todo' = todo /\ byField' = byField /\ translated' = translated
      /\ harmed' = harmed /\ rowLost' = rowLost /\ denied' = denied /\ emptied' = emptied
  BY <1>1 DEF history
<1>3. rendered = <<>> /\ prompted = <<>>
  BY <1>1 DEF PhaseInv
<1>4. DOMAIN prompted' \subseteq clauses
  <2>1. Prompt \/ prompted' = prompted
    BY DEF Stage3, Stage3Unparsed, NoRows
  <2>2. CASE Prompt
    BY <2>2 DEF Prompt
  <2>3. CASE prompted' = prompted
    BY <1>3, <2>3
  <2>. QED
    BY <2>1, <2>2, <2>3
<1>5. RowsWritten(rendered') \/ rendered' = rendered
  <2>1. CASE Stage3
    <3>1. PICK answer \in BoundedSeq([id : Ids, kind : Written], MaxClauses) : rendered' \in Filled(answer)
      BY <2>1 DEF Stage3
    <3>2. \A rows \in Filled(answer) : RowsWritten(rows)
      BY <1>1, FilledWritten
    <3>. QED
      BY <3>1, <3>2
  <2>2. CASE Stage3Unparsed
    <3>1. rendered' \in Placeholders(clauses, "bare")
      BY <2>2 DEF Stage3Unparsed
    <3>2. \A rows \in Placeholders(clauses, "bare") : RowsWritten(rows)
      BY <1>1, PlaceholdersAlone
    <3>. QED
      BY <3>1, <3>2
  <2>3. CASE NoRows
    BY <2>3 DEF NoRows
  <2>. QED
    BY <2>1, <2>2, <2>3
<1>6. rendered' \in Seq([id : Ids, kind : Kinds]) /\ Len(rendered') <= MaxRows
  BY <1>1, <1>5 DEF RowsWritten, TypeOK
<1>7. TypeOK'
  <2>1. harmed' \cup denied' \subseteq DOMAIN rendered' /\ emptied' \subseteq (DOMAIN rendered') \X (1..3)
    <3>1. DOMAIN rendered = {} /\ (DOMAIN rendered) \X (1..3) = {}
      BY <1>3
    <3>. QED
      BY <1>1, <1>2, <3>1 DEF TypeOK
  <2>2. ToSet(byField') \subseteq DOMAIN rendered'
    <3>1. byField = <<>>
      BY <1>1 DEF PhaseInv
    <3>. QED
      BY <1>2, <3>1 DEF ToSet
  <2>. QED
    BY <1>1, <1>2, <1>4, <1>6, <2>1, <2>2 DEF TypeOK, Ids
<1>8. PhaseInv'
  BY <1>1, <1>2 DEF PhaseInv
<1>9. Covered'
  BY <1>1, <1>3, <1>5 DEF Covered, RowsWritten, Rows
<1>10. ~Translating'
  BY <1>1 DEF Translating
<1>. HIDE DEF CardsInv
<1>. QED
  BY <1>1, <1>7, <1>8, <1>9, <1>10, Untranslated

\* 'ready' without a translation.
LEMMA KeepEnglishKeeps ==
    ASSUME CardsInv, KeepEnglish
    PROVE  CardsInv'
<1>1. /\ TypeOK /\ PhaseInv /\ Covered /\ phase = "translate" /\ phase' = "ready" /\ target' = FALSE
      /\ UNCHANGED <<page, text, clauses, risks, prompted, said, rendered, todo, byField, translated, history>>
  BY DEF CardsInv, KeepEnglish
<1>2. /\ todo' = todo /\ byField' = byField /\ translated' = translated
      /\ harmed' = harmed /\ rowLost' = rowLost /\ denied' = denied /\ emptied' = emptied
  BY <1>1 DEF history
<1>3. TypeOK'
  BY <1>1, <1>2 DEF TypeOK, Ids
<1>4. PhaseInv'
  BY <1>1, <1>2 DEF PhaseInv
<1>5. Covered'
  BY <1>1, SameRows DEF Covered
<1>6. ~Translating'
  BY <1>1 DEF Translating
<1>. HIDE DEF CardsInv
<1>. QED
  BY <1>1, <1>3, <1>4, <1>5, <1>6, Untranslated

-----------------------------------------------------------------------------
(* The theorems.                                                           *)

\* The invariant holds before the first page ...
LEMMA CardsInit == Init => CardsInv
<1>. SUFFICES ASSUME Init PROVE CardsInv
  OBVIOUS
<1>1. <<>> \in Seq([id : Ids, kind : Kinds]) /\ <<>> \in Seq(Seq(Nat)) /\ <<>> \in Seq(Nat) /\ Len(<<>>) = 0
  BY EmptySeq
<1>2. TypeOK
  <2>1. DOMAIN <<>> = {} /\ ToSet(<<>>) = {}
    BY DEF ToSet
  <2>2. page \in 0..Pages /\ Len(rendered) <= MaxRows /\ rendered \in Seq([id : Ids, kind : Kinds])
    BY <1>1, RowsHaveRoom, BoundsAreNatural DEF Init
  <2>3. ToSet(byField) = {} /\ DOMAIN risks = {} /\ DOMAIN prompted = {} /\ DOMAIN translated = {}
    BY <2>1 DEF Init
  <2>4. /\ phase = "ocr" /\ text \in BOOLEAN /\ target \in BOOLEAN /\ clauses = {}
        /\ said = {} /\ emptied = {} /\ harmed \cup denied = {} /\ rowLost \in BOOLEAN
    BY DEF Init
  <2>. HIDE DEF Init
  <2>. QED
    BY <2>2, <2>3, <2>4 DEF TypeOK
<1>3. PhaseInv
  BY DEF Init, PhaseInv
<1>4. QueueInv
  <2>1. 1..0 = {}
    OBVIOUS
  <2>. QED
    BY <1>1, <2>1 DEF Init, QueueInv, QueueOf, RestOf
<1>5. DoneInv /\ CountInv
  BY DEF Init, DoneInv, CountInv, Translating
<1>6. RowsInv /\ WordsInv
  BY DEF Init, RowsInv, WordsInv, RowsAre, WordsAre
<1>7. Covered
  BY DEF Init, Covered
<1>. QED
  BY <1>2, <1>3, <1>4, <1>5, <1>6, <1>7 DEF CardsInv

\* ... and every step keeps it.
LEMMA CardsStep == CardsInv /\ [Next]_vars => CardsInv'
<1>. SUFFICES ASSUME CardsInv, [Next]_vars PROVE CardsInv'
  OBVIOUS
<1>1. CASE UNCHANGED vars
  <2>1. /\ phase' = phase /\ page' = page /\ text' = text /\ clauses' = clauses /\ risks' = risks
        /\ prompted' = prompted /\ said' = said /\ target' = target /\ rendered' = rendered
        /\ todo' = todo /\ byField' = byField /\ translated' = translated
        /\ harmed' = harmed /\ rowLost' = rowLost /\ denied' = denied /\ emptied' = emptied
    BY <1>1 DEF vars, before, history
  <2>2. TypeOK' /\ PhaseInv'
    BY <2>1 DEF CardsInv, TypeOK, PhaseInv, Ids
  <2>3. QueueInv'
    BY <2>1 DEF CardsInv, QueueInv
  <2>4. NextRow' = NextRow
    BY <2>1 DEF NextRow
  <2>5. DoneInv' /\ CountInv'
    BY <2>1, <2>4, SameRows DEF CardsInv, DoneInv, CountInv, Names, FewEnglish, EnglishTo, Translating
  <2>6. RowsInv'
    BY <2>1, SameRows DEF CardsInv, RowsInv, RowsAre, Explained, Caused
  <2>7. WordsInv'
    BY <2>1, SameRows DEF CardsInv, WordsInv, WordsAre, Own, Still
  <2>8. Covered'
    BY <2>1, SameRows DEF CardsInv, Covered
  <2>. QED
    BY <2>2, <2>3, <2>5, <2>6, <2>7, <2>8 DEF CardsInv
<1>2. CASE ReadPage \/ OcrEnds \/ Fails
  BY <1>2, OcrKeeps
<1>3. CASE Stage1
  BY <1>3, Stage1Keeps
<1>4. CASE Stage2 \/ Stage2Raises
  BY <1>4, Stage2Keeps
<1>5. CASE Stage3 \/ Stage3Unparsed \/ NoRows
  BY <1>5, Stage3Keeps
<1>6. CASE KeepEnglish
  BY <1>6, KeepEnglishKeeps
<1>7. CASE StartTranslation
  BY <1>7, StartTranslationKeeps
<1>8. CASE ChunkAnswered
  BY <1>8, ChunkAnsweredKeeps
<1>9. CASE ChunkDenied
  BY <1>9, ChunkDeniedKeeps
<1>10. CASE RowTranslated
  BY <1>10, RowTranslatedKeeps
<1>11. CASE RowDenied
  BY <1>11, RowDeniedKeeps
<1>12. CASE TranslationDone
  BY <1>12, TranslationDoneKeeps
<1>. QED
  BY <1>1, <1>2, <1>3, <1>4, <1>5, <1>6, <1>7, <1>8, <1>9, <1>10, <1>11, <1>12 DEF Next

\* Type correctness of the text of a contract.
THEOREM ContractTextTyped == Spec => []TypeOK
<1>1. CardsInv => TypeOK
  BY DEF CardsInv
<1>. QED
  BY CardsInit, CardsStep, <1>1, PTL DEF Spec

\* A green badge is the model's own word.
THEOREM GreenWasSaid == Spec => []SilenceIsAmber
<1>. DEFINE Inv == CardsInv /\ SilenceIsAmber
<1>1. Init => Inv
  <2>. SUFFICES ASSUME Init PROVE SilenceIsAmber
    BY CardsInit
  <2>. QED
    BY DEF Init, SilenceIsAmber
<1>2. Inv /\ [Next]_vars => Inv'
  <2>. SUFFICES ASSUME CardsInv, SilenceIsAmber, [Next]_vars PROVE SilenceIsAmber'
    BY CardsStep
  <2>1. PhaseInv
    BY DEF CardsInv
  <2>2. CASE risks' = risks /\ prompted' = prompted /\ clauses' = clauses /\ said' = said
    BY <2>2 DEF SilenceIsAmber, RiskOf
  <2>3. CASE Stage1
    <3>1. phase = "stage1" /\ risks' = risks /\ prompted' = prompted
      BY <2>3 DEF Stage1
    <3>2. DOMAIN risks = {} /\ prompted = <<>>
      BY <2>1, <3>1 DEF PhaseInv
    <3>. QED
      BY <3>1, <3>2 DEF SilenceIsAmber, RiskOf
  <2>4. CASE Stage2
    <3>1. phase = "stage2" /\ clauses' = clauses /\ prompted' = prompted
      BY <2>4 DEF Stage2
    <3>2. prompted = <<>>
      BY <2>1, <3>1 DEF PhaseInv
    <3>3. PICK answer : risks' = Noted(answer) /\ said' = Green(answer)
      BY <2>4 DEF Stage2
    <3>4. ASSUME NEW id \in clauses, RiskOf(id)' = "green" PROVE id \in said'
      <4>1. risks' = [x \in clauses |-> IF x \in Called(answer) THEN LastRisk(answer, x) ELSE "amber"]
        BY <3>3 DEF Noted
      <4>2. id \in Called(answer) /\ LastRisk(answer, id) = "green"
        BY <3>4, <4>1, Zenon DEF RiskOf
      <4>. QED
        BY <3>3, <4>2 DEF Green
    <3>5. DOMAIN prompted' = {}
      BY <3>1, <3>2
    <3>. QED
      BY <3>1, <3>4, <3>5 DEF SilenceIsAmber
  <2>5. CASE Stage3 \/ Stage3Unparsed \/ NoRows
    <3>1. risks' = risks /\ clauses' = clauses /\ said' = said /\ (Prompt \/ prompted' = prompted)
      BY <2>5 DEF Stage3, Stage3Unparsed, NoRows, Stage3Ends
    <3>2. CASE prompted' = prompted
      BY <3>1, <3>2 DEF SilenceIsAmber, RiskOf
    <3>3. CASE Prompt
      <4>1. \A id \in DOMAIN prompted' : prompted'[id] = RiskOf(id)
        BY <3>3 DEF Prompt
      <4>. QED
        BY <3>1, <4>1 DEF SilenceIsAmber, RiskOf
    <3>. QED
      BY <3>1, <3>2, <3>3
  <2>. QED
    BY <2>2, <2>3, <2>4, <2>5 DEF Next, vars, before, ReadPage, OcrEnds, Fails, Stage2Raises, KeepEnglish,
        StartTranslation, ChunkAnswered, ChunkDenied, RowTranslated, RowDenied, TranslationDone
<1>3. Inv => SilenceIsAmber
  OBVIOUS
<1>. QED
  BY <1>1, <1>2, <1>3, PTL DEF Spec

\* What is shown of a row is its own English, or what is recorded for its id.
LEMMA ShownIs ==
    ASSUME NEW p \in DOMAIN rendered
    PROVE  /\ target /\ rendered[p].id \in DOMAIN translated => Shown[p] = translated[rendered[p].id]
           /\ ~(target /\ rendered[p].id \in DOMAIN translated) => Shown[p] = English(p)
  BY DEF Shown

\* Every clause of a finished contract has an explained card, unless the translator
\* gave back nothing in place of its explanation.
THEOREM CardsAreExplained == Spec => []EveryClauseIsExplained
<1>1. CardsInv => EveryClauseIsExplained
  <2>. SUFFICES ASSUME CardsInv, phase = "ready", rendered # <<>>, NEW id \in clauses
                PROVE  Rows(id) # {} /\ Explained(Card(id), id, emptied)
    BY DEF EveryClauseIsExplained, Explained
  <2>1. TypeOK /\ Covered /\ RowsInv
    BY DEF CardsInv
  <2>2. Rows(id) # {}
    BY <2>1 DEF Covered
  <2>. DEFINE p == Max(Rows(id))
  <2>3. /\ Len(rendered) \in Nat /\ DOMAIN rendered = 1..Len(rendered)
        /\ Rows(id) \subseteq 1..Len(rendered)
    BY <2>1, Positions
  <2>4. p \in Rows(id)
    <3>. DEFINE T == Rows(id)
    <3>. HIDE DEF T
    <3>1. T \subseteq 0..Len(rendered) /\ T # {}
      BY <2>2, <2>3 DEF T
    <3>2. Max(T) \in T
      BY <2>3, <3>1, MaxIsGreatest
    <3>. QED
      BY <3>2 DEF T
  <2>5. Card(id) = Shown[p]
    BY DEF Card
  <2>. HIDE DEF p
  <2>6. p \in 1..Len(rendered) /\ rendered[p].id = id
    BY <2>3, <2>4 DEF Rows
  <2>7. CASE target /\ id \in DOMAIN translated
    <3>1. Shown[p] = translated[id]
      BY <2>3, <2>6, <2>7, ShownIs
    <3>2. Explained(translated[id], id, emptied)
      BY <2>1, <2>7 DEF RowsInv, RowsAre
    <3>. QED
      BY <2>2, <2>5, <3>1, <3>2
  <2>8. CASE ~(target /\ id \in DOMAIN translated)
    <3>1. Shown[p] = English(p)
      BY <2>3, <2>6, <2>8, ShownIs
    <3>3. Explained(English(p), rendered[p].id, emptied)
      BY <2>1, <2>6, EnglishIs
    <3>. QED
      BY <2>2, <2>5, <2>6, <3>1, <3>3
  <2>. QED
    BY <2>7, <2>8
<1>. QED
  BY CardsInit, CardsStep, <1>1, PTL DEF Spec

\* A worker never reads under one clause what was written of another.
THEOREM WordsStay == Spec => []WordsStayInTheirRow
<1>1. CardsInv => WordsStayInTheirRow
  <2>. SUFFICES ASSUME CardsInv, DistinctIds, ~rowLost, NEW p \in DOMAIN rendered
                PROVE  Own(Shown[p], p, harmed, emptied)
    BY DEF WordsStayInTheirRow, Own, Still
  <2>1. TypeOK /\ WordsAre(translated, harmed, emptied)
    BY DEF CardsInv, WordsInv
  <2>2. p \in 1..Len(rendered)
    BY <2>1, Positions
  <2>3. CASE target /\ rendered[p].id \in DOMAIN translated
    <3>1. Own(translated[rendered[p].id], p, harmed, emptied)
      BY <2>1, <2>3 DEF WordsAre
    <3>. QED
      BY <2>3, <3>1, ShownIs
  <2>4. CASE ~(target /\ rendered[p].id \in DOMAIN translated)
    <3>2. Own(English(p), p, harmed, emptied)
      BY <2>1, <2>2, EnglishIs
    <3>. QED
      BY <2>4, <3>2, ShownIs
  <2>. QED
    BY <2>3, <2>4
<1>. QED
  BY CardsInit, CardsStep, <1>1, PTL DEF Spec

\* A row stays English for a cause, and few rows do for no failed call.
THEOREM EnglishIsCaused == Spec => []EnglishHasACause
<1>1. CardsInv => EnglishHasACause
  <2>. DEFINE english == {p \in DOMAIN rendered : Shown[p].lang = "en"}
              n == Len(rendered)
  <2>. SUFFICES ASSUME CardsInv, phase = "ready", target
                PROVE  /\ \A p \in english : Rows(rendered[p].id) \cap (harmed \cup denied) # {}
                       /\ DistinctIds => 3 * Cardinality(english \ denied) <= 2 * n
    BY DEF EnglishHasACause
  <2>1. /\ TypeOK /\ Translating /\ todo = <<>> /\ RowsAre(translated, harmed \cup denied, emptied)
        /\ DOMAIN translated = Names(NextRow - 1)
    BY DEF CardsInv, PhaseInv, DoneInv, Translating, RowsInv
  <2>2. n \in Nat /\ DOMAIN rendered = 1..n
    BY <2>1, Positions
  <2>3. NextRow - 1 = n
    BY <2>1, <2>2 DEF NextRow
  <2>4. \A p \in 1..n : rendered[p].id \in DOMAIN translated /\ Shown[p] = translated[rendered[p].id]
    <3>. TAKE p \in 1..n
    <3>1. rendered[p].id \in DOMAIN translated
      BY <2>1, <2>3 DEF Names
    <3>. QED
      BY <2>2, <3>1, ShownIs
  <2>5. english = EnglishTo(translated, n)
    BY <2>2, <2>4 DEF EnglishTo
  <2>6. ASSUME NEW p \in english PROVE Rows(rendered[p].id) \cap (harmed \cup denied) # {}
    <3>1. p \in 1..n /\ translated[rendered[p].id].lang = "en"
      BY <2>5 DEF EnglishTo
    <3>. HIDE DEF english
    <3>. QED
      BY <2>1, <2>4, <3>1 DEF RowsAre, Caused
  <2>7. DistinctIds => 3 * Cardinality(english \ denied) <= 2 * n
    <3>1. DistinctIds => FewEnglish(translated, denied, n)
      BY <2>1, <2>3 DEF CardsInv, CountInv
    <3>. QED
      BY <2>5, <3>1 DEF FewEnglish
  <2>. QED
    BY <2>6, <2>7
<1>. QED
  BY CardsInit, CardsStep, <1>1, PTL DEF Spec
=============================================================================
