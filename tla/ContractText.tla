----------------------------- MODULE ContractText -----------------------------
(***************************************************************************)
(* What a contract's text becomes on its way to the worker: the pages read *)
(* by ocr.py, the clauses of Stage 1, their risks of Stage 2, the rows of  *)
(* Stage 3, their translation, and the cards ContractDetailPage.tsx shows. *)
(* It is the run of process_contract (ContractLifecycle has its commits    *)
(* and its competitors) seen by what the models answer.                    *)
(*                                                                         *)
(* A clause id is a number: k stands for "clause_k", 0 for an id that no   *)
(* clause has.                                                             *)
(***************************************************************************)
EXTENDS TranslateChunk

CONSTANTS
    Pages,        \* number of pages of the file
    MaxClauses,   \* bound: rows Stage 1, Stage 2 or Stage 3 answers with
    Written,      \* bound: the kinds of the rows Stage 3 answers with
    MaxHurt       \* bound: rows with a damaged marker, and fields left out, of a rendition

\* Stage 3's rows are those it answers with and one for each clause it left out.
ASSUME RowsHaveRoom ==
    /\ Pages \in Nat /\ MaxClauses \in Nat /\ 2 * MaxClauses <= MaxRows
    /\ Written \subseteq Kinds /\ MaxHurt \in Nat

VARIABLES
    phase,      \* "ocr", "stage1", "stage2", "stage3", "translate", "ready", "failed"
    page,       \* pages that have been tried
    text,       \* some page gave a text
    clauses,    \* Stage 1: the ids of the clauses
    risks,      \* Stage 2: the last risk noted for an id
    prompted,   \* Stage 3's prompt: the risk each id was to be explained with
    rendered,   \* Stage 3: its rows, [id, kind]
    target,     \* the worker's language is not English
    todo,       \* chunks of rows still to translate, the current one first
    byField,    \* rows of the current chunk still to translate field by field
    translated, \* translated_by_id
    said,       \* history: the ids the model itself called green
    harmed,     \* history: rows one of whose markers was lost or repeated
    rowLost,    \* history: a ROW marker was lost
    emptied,    \* history: fields <<p, f>> recorded as translated into nothing
    denied      \* history: rows a call for which has failed

before == <<page, text, clauses, risks, prompted, said, target>>
history == <<harmed, rowLost, emptied, denied>>
vars == <<phase, before, rendered, todo, byField, translated, history>>

Ids == 0..MaxClauses
kindsOf == [p \in DOMAIN rendered |-> rendered[p].kind]
Called(s) == {s[p].id : p \in DOMAIN s}

Init ==
    /\ phase = "ocr" /\ page = 0 /\ text = FALSE
    /\ clauses = {} /\ risks = <<>> /\ prompted = <<>> /\ rendered = <<>>
    /\ target \in BOOLEAN
    /\ todo = <<>> /\ byField = <<>>
    /\ translated = <<>>
    /\ said = {} /\ harmed = {} /\ rowLost = FALSE /\ emptied = {} /\ denied = {}

-----------------------------------------------------------------------------
\* extract_text: one page; a page that raises is skipped.
ReadPage ==
    /\ phase = "ocr" /\ page < Pages
    /\ page' = page + 1
    /\ \E legible \in BOOLEAN : text' = (text \/ legible)
    /\ UNCHANGED <<phase, clauses, risks, prompted, said, target, rendered,
                   todo, byField, translated, history>>

OcrEnds ==
    /\ phase = "ocr" /\ page = Pages
    /\ phase' = IF text THEN "stage1" ELSE "failed"
    /\ UNCHANGED <<before, rendered, todo, byField, translated, history>>

\* The file cannot be rasterised, or the model of Stage 1 cannot be reached.
Fails ==
    /\ phase \in {"ocr", "stage1"}
    /\ phase' = "failed"
    /\ UNCHANGED <<before, rendered, todo, byField, translated, history>>

\* _clean_clauses: rows without text are dropped, and a row without an id is
\* named after its place.  Nothing keeps two clauses from having one id: they
\* are one from here on, as all that follows looks a clause up by its id.
Clean(answer) ==
    {IF answer[i].id = 0 THEN i ELSE answer[i].id : i \in {j \in DOMAIN answer : ~answer[j].blank}}

\* An answer that cannot be parsed is an answer without clauses, a truncated
\* one is the clauses before the cut.
Stage1 ==
    /\ phase = "stage1"
    /\ \E answer \in BoundedSeq([id : Ids, blank : BOOLEAN], MaxClauses) :
          clauses' = Clean(answer)
    /\ phase' = "stage2"
    /\ UNCHANGED <<page, text, risks, prompted, said, target, rendered,
                   todo, byField, translated, history>>

\* The risk of the last note on an id, of those in an answer; odd ones are amber.
LastRisk(answer, id) ==
    LET risk == answer[Max({p \in DOMAIN answer : answer[p].id = id})].risk
    IN  IF risk = "odd" THEN "amber" ELSE risk

\* Mutated form: a clause the model is silent about is harmless.
NotedAsHarmless(answer) ==
    [id \in clauses |-> IF id \in Called(answer) THEN LastRisk(answer, id) ELSE "green"]

\* stage2._parse: unknown risks become amber, and so do missing clauses; the
\* readers of the list look a clause's id up and get its last note.
Noted(answer) ==
    [id \in clauses |-> IF id \in Called(answer) THEN LastRisk(answer, id) ELSE "amber"]

Green(answer) == {id \in Called(answer) \cap clauses : LastRisk(answer, id) = "green"}

\* annotate: without clauses the model is not asked.
Stage2 ==
    /\ phase = "stage2"
    /\ \E answer \in IF clauses = {} THEN {<<>>}
                     ELSE BoundedSeq([id : Ids, risk : {"green", "odd"}], MaxClauses) :
          /\ risks' = Noted(answer)
          /\ said' = Green(answer)
    /\ phase' = "stage3"
    /\ UNCHANGED <<page, text, clauses, prompted, target, rendered,
                   todo, byField, translated, history>>

\* A failure of Stage 2 is soft: Stage 3 goes on without any note.
Stage2Raises ==
    /\ phase = "stage2" /\ clauses # {}
    /\ phase' = "stage3"
    /\ UNCHANGED <<before, rendered, todo, byField, translated, history>>

\* The risk of a clause for a reader of Stage 2's notes, synthesise or the page.
RiskOf(id) == IF id \in DOMAIN risks THEN risks[id] ELSE "amber"

\* A placeholder for every id of S, in the order of an iterated set.
Placeholders(S, kind) ==
    {[i \in DOMAIN order |-> [id |-> order[i], kind |-> kind]] : order \in SetToSeqs(S)}

\* Mutated form: the rows are those the model answered with.
AsAnswered(answer) == {answer}

\* stage3._parse: the model's rows in its order, strays and repetitions with
\* them, then a placeholder for each clause it left out.
Filled(answer) ==
    {answer \o rest : rest \in Placeholders(clauses \ Called(answer), "plain")}

\* synthesise: each clause with the risk its explanation is to be written for.
Prompt == prompted' = [id \in clauses |-> RiskOf(id)]

Stage3Ends ==
    /\ phase' = "translate"
    /\ UNCHANGED <<page, text, clauses, risks, said, target, todo, byField, translated, history>>

Stage3 ==
    /\ phase = "stage3" /\ clauses # {}
    /\ Prompt
    /\ \E answer \in BoundedSeq([id : Ids, kind : Written], MaxClauses) :
          rendered' \in Filled(answer)
    /\ Stage3Ends

Stage3Unparsed ==
    /\ phase = "stage3" /\ clauses # {}
    /\ Prompt
    /\ rendered' \in Placeholders(clauses, "bare")
    /\ Stage3Ends

\* Nothing to explain, or the model cannot be reached: there are no rows.
NoRows ==
    /\ phase = "stage3"
    /\ IF clauses = {} THEN UNCHANGED prompted ELSE Prompt
    /\ UNCHANGED rendered
    /\ Stage3Ends

-----------------------------------------------------------------------------
\* process_contract goes on to 'ready' with English cards: nothing to translate,
\* or translate_stage_3 refuses (no key, a language it does not know).
KeepEnglish ==
    /\ phase = "translate" /\ todo = <<>> /\ translated = <<>>
    /\ phase' = "ready"
    /\ target' = FALSE
    /\ UNCHANGED <<page, text, clauses, risks, prompted, said, rendered,
                   todo, byField, translated, history>>

\* translate_stage_3 packs the rows; an oversize one is alone in its chunk and
\* goes field by field.
FirstQueue(chunks) ==
    IF chunks # <<>> /\ TotalWeight([i \in DOMAIN Head(chunks) |-> kindsOf[Head(chunks)[i]]]) > Cap
    THEN Head(chunks) ELSE <<>>

Turn(chunks) == todo' = chunks /\ byField' = FirstQueue(chunks)

StartTranslation ==
    /\ phase = "translate" /\ todo = <<>> /\ translated = <<>>
    /\ target /\ rendered # <<>>
    /\ phase' = "mayura"
    /\ Turn(Pack(kindsOf))
    /\ UNCHANGED <<before, rendered, translated, history>>

\* A call of _mayura comes back with a text, or fails: it is refused, or none of
\* its three POSTs got through.
Calling == phase = "mayura" /\ todo # <<>>
ByChunk == Calling /\ byField = <<>>
ByField == Calling /\ byField # <<>>

English(p) == [lang |-> "en", null |-> 3 \notin FieldsOf(kindsOf[p]),
               fields |-> OwnFields(kindsOf[p], p)]

\* The results of some rows, by id, over those there are; of two rows with one
\* id the later counts.
Recorded(results) ==
    LET rowsOf(id) == {p \in DOMAIN results : rendered[p].id = id}
    IN  [id \in DOMAIN translated \cup {rendered[p].id : p \in DOMAIN results} |->
            IF rowsOf(id) # {} THEN results[Max(rowsOf(id))] ELSE translated[id]]

\* _translate_chunk: the rows the answer still tells apart, the others English.
FromAnswer(fieldsById, p) ==
    IF rendered[p].id \in DOMAIN fieldsById
    THEN [lang |-> "xx", null |-> 3 \notin FieldsOf(kindsOf[p]),
          fields |-> IF 3 \in FieldsOf(kindsOf[p]) THEN fieldsById[rendered[p].id]
                     ELSE [fieldsById[rendered[p].id] EXCEPT ![3] = <<>>]]
    ELSE English(p)

\* What was left out of the rows of an answer that are told apart.
Nothing(chunk, copies, told) ==
    UNION {{chunk[i]} \X (FieldsOf(kindsOf[chunk[i]]) \ Kept(kindsOf[chunk[i]], copies, i))
               : i \in {j \in DOMAIN chunk : rendered[chunk[j]].id \in told}}

HurtBounded == Cardinality(harmed) + Cardinality(emptied) <= MaxHurt

\* A chunk comes back: its rows are told apart, or it is too damaged and its
\* rows are translated one by one.
ChunkAnswered ==
    /\ ByChunk
    /\ LET chunk == Head(todo)
       IN  \E copies \in Copies[Len(chunk)], backwards \in {FALSE, Len(chunk) > 1} :
              LET answer == Answer(kindsOf, chunk, copies, backwards)
                  fieldsById == Decode(answer, [i \in DOMAIN chunk |-> rendered[chunk[i]].id])
              IN  /\ harmed' = harmed \cup {chunk[i] : i \in {j \in DOMAIN chunk : ~Unharmed(copies, j)}}
                  /\ rowLost' = (rowLost \/ \E i \in DOMAIN chunk : copies[<<i, 0>>] = 0)
                  /\ IF Cardinality(DOMAIN fieldsById) >= Enough(Len(chunk))
                     THEN /\ translated' = Recorded([p \in ToSet(chunk) |-> FromAnswer(fieldsById, p)])
                          /\ emptied' = emptied \cup Nothing(chunk, copies, DOMAIN fieldsById)
                          /\ Turn(Tail(todo))
                     ELSE byField' = chunk /\ UNCHANGED <<todo, translated, emptied>>
    /\ UNCHANGED <<phase, before, rendered, denied>>
    /\ HurtBounded'

\* The call for the chunk fails: its rows are translated one by one.
ChunkDenied ==
    /\ ByChunk
    /\ byField' = Head(todo)
    /\ UNCHANGED <<phase, before, rendered, todo, translated, history>>

\* The row in hand is settled; after the last one the next chunk begins.
RowSettled(result) ==
    /\ translated' = Recorded([p \in {Head(byField)} |-> result])
    /\ IF Len(byField) = 1 THEN Turn(Tail(todo))
       ELSE byField' = Tail(byField) /\ UNCHANGED todo

\* _translate_row_per_field: a call for each field that is not empty.  _mayura
\* takes any string for a translation, an empty one as well.
RowTranslated ==
    /\ ByField
    /\ LET p == Head(byField)
           kind == kindsOf[p]
       IN  \E gone \in SUBSET FieldsOf(kind) :
              /\ RowSettled([English(p) EXCEPT !.lang = "xx",
                                               !.fields = Texts(FieldsOf(kind) \ gone, p)])
              /\ emptied' = emptied \cup ({p} \X gone)
    /\ UNCHANGED <<phase, before, rendered, harmed, rowLost, denied>>
    /\ HurtBounded'

\* One call of three has failed: the whole row stays English.
RowDenied ==
    /\ ByField
    /\ RowSettled(English(Head(byField)))
    /\ denied' = denied \cup {Head(byField)}
    /\ UNCHANGED <<phase, before, rendered, harmed, rowLost, emptied>>

TranslationDone ==
    /\ phase = "mayura" /\ todo = <<>>
    /\ phase' = "ready"
    /\ UNCHANGED <<before, rendered, todo, byField, translated, history>>

Next ==
    \/ ReadPage \/ OcrEnds \/ Fails
    \/ Stage1 \/ Stage2 \/ Stage2Raises \/ Stage3 \/ Stage3Unparsed \/ NoRows
    \/ KeepEnglish \/ StartTranslation
    \/ ChunkAnswered \/ ChunkDenied \/ RowTranslated \/ RowDenied \/ TranslationDone

Spec == Init /\ [][Next]_vars

-----------------------------------------------------------------------------
\* What the worker sees: the translated rows when there are any, in the order
\* of the English ones, and for each clause the last row with its id.
Shown ==
    [p \in DOMAIN rendered |->
        IF target /\ rendered[p].id \in DOMAIN translated THEN translated[rendered[p].id] ELSE English(p)]

Rows(id) == {p \in DOMAIN rendered : rendered[p].id = id}
Card(id) == Shown[Max(Rows(id))]

DistinctIds == \A id \in Ids : Cardinality(Rows(id)) <= 1

TypeOK ==
    /\ phase \in {"ocr", "stage1", "stage2", "stage3", "translate", "mayura", "ready", "failed"}
    /\ page \in 0..Pages /\ text \in BOOLEAN /\ target \in BOOLEAN
    /\ clauses \subseteq 1..MaxClauses
    /\ DOMAIN risks \subseteq Ids /\ DOMAIN prompted \subseteq clauses
    /\ rendered \in Seq([id : Ids, kind : Kinds]) /\ Len(rendered) <= MaxRows
    /\ ToSet(byField) \subseteq DOMAIN rendered
    /\ DOMAIN translated \subseteq Ids
    /\ said \subseteq Ids
    /\ harmed \cup denied \subseteq DOMAIN rendered /\ rowLost \in BOOLEAN
    /\ emptied \subseteq (DOMAIN rendered) \X (1..3)

\* Every clause of a finished contract has its card once Stage 3 has written
\* anything, whatever its model left out, repeated or made up.  The card has an
\* explanation if the English rows have one, unless the translator gave back
\* nothing in place of it: no lost, repeated or reordered marker, failed call or
\* repeated id leaves a card blank.  And it never suggests an action where the
\* rows suggest none.
EveryClauseIsExplained ==
    phase = "ready" /\ rendered # <<>> =>
        \A id \in clauses :
            /\ Rows(id) # {}
            /\ (\A p \in Rows(id) : 1 \in FieldsOf(kindsOf[p]) /\ <<p, 1>> \notin emptied)
                  => Card(id).fields[1] # <<>>
            /\ (\A p \in Rows(id) : 3 \notin FieldsOf(kindsOf[p])) => Card(id).fields[3] = <<>>

\* A clause has the green badge only if the model said so of it (its silence, an
\* odd answer and a failed Stage 2 are amber), and its explanation was asked for
\* with the risk of its badge.
SilenceIsAmber ==
    /\ \A id \in clauses : RiskOf(id) = "green" => id \in said
    /\ \A id \in DOMAIN prompted : prompted[id] = RiskOf(id)

\* While no ROW marker is lost and no id repeated, a worker never reads under one
\* clause what was written of another, however the answers are ordered and
\* damaged; and a row with all its markers has its words in their fields, but
\* for a field in place of which the translator gave back nothing.
WordsStayInTheirRow ==
    DistinctIds /\ ~rowLost =>
        \A p \in DOMAIN rendered :
            /\ \A f \in 1..3 : \A token \in ToSet(Shown[p].fields[f]) :
                    token.tag = "words" => token.of = p
            /\ p \notin harmed =>
                  \A f \in 1..3 :
                      \/ Shown[p].fields[f] = OwnFields(kindsOf[p], p)[f]
                      \/ Shown[p].fields[f] = <<>> /\ <<p, f>> \in emptied

\* At the end of a translation a row is English only if one of its own markers
\* was damaged or a call of its own failed, and of rows that differ in their ids
\* at most two thirds are English for no failed call.
EnglishHasACause ==
    phase = "ready" /\ target =>
        LET english == {p \in DOMAIN rendered : Shown[p].lang = "en"}
        IN  /\ \A p \in english : Rows(rendered[p].id) \cap (harmed \cup denied) # {}
            /\ DistinctIds => 3 * Cardinality(english \ denied) <= 2 * Len(rendered)
=============================================================================
