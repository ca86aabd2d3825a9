----------------------------- MODULE StudioProofs -----------------------------
(***************************************************************************)
(* Proofs about the conversation studio: StudioContent, for any sets of    *)
(* ids, texts, sessions and threads, any seed and any number of requests,  *)
(* then ChipTap, for every order of the bindings, every answer of the      *)
(* fetchers and every set of templates left active.                        *)
(***************************************************************************)
EXTENDS StudioContent, ChipTap, TLAPS, WellFoundedInduction

\* Every id in use has been spent, so a new one is nobody's.
IdsSpent == units \subseteq spent /\ issues \subseteq spent

\* A delete has counted what is in its unit and was not placed there later.
DeleteFits(t) ==
    t.step = "deleting" =>
        /\ t.unit \in Units
        /\ \A i \in issues : unitOf[i] = t.unit => i \in t.late

\* A PUT has read every binding there is, but for those bound since.
PutFits(t) ==
    /\ t.step \in {"putting", "wiped"} => t.issue \in Issues
    /\ t.step = "putting" => links[t.issue] \ t.seen \subseteq t.since
    /\ t.step = "wiped" => links[t.issue] \ t.gone \subseteq t.since

\* A tap that missed nothing has the session as it was, but for what a cascade
\* has emptied; and it knows the unit of an issue type that was never moved.
TapFits(t) ==
    t.step = "tapping" =>
        /\ t.session \in Sessions /\ t.issue \in Issues \cap spent /\ t.unit \in Units \cap spent
        /\ t.was.issue \in spent \cup {None} /\ t.was.unit \in spent \cup {None}
        /\ t.issue \in issues \ moved => t.unit = unitOf[t.issue]
        /\ ~t.missed =>
              LET s == sessions[t.session]
              IN  /\ s.issue = t.was.issue \/ (s.issue = None /\ t.was.issue \notin issues)
                  /\ s.unit = t.was.unit \/ (s.unit = None /\ t.was.unit \notin units)

Fits(t) == DeleteFits(t) /\ PutFits(t) /\ TapFits(t)

WorkFits == \A r \in Workers : Fits(work[r])

SInv == TypeOK /\ ReferencesResolve /\ IdsSpent /\ WorkFits /\ PointersAgree

LEMMA IdleFits == Idle \in Transaction /\ Fits(Idle)
  BY DEF Idle, NoPointers, Pointers, Transaction, Steps, Fits, DeleteFits, PutFits, TapFits

LEMMA Counted == SInv /\ Request => requests' \in Nat
  BY DEF SInv, TypeOK, Request

\* The initial state satisfies the invariant.
LEMMA InitOK == Init => SInv
  <1> SUFFICES ASSUME Init PROVE SInv
    OBVIOUS
  <1> USE SeedsAreIds, SeedsHaveUnits, NoneIsNoId
  <1>1. TypeOK
    BY IdleFits DEF Init, TypeOK, NoPointers, Pointers
  <1>2. ReferencesResolve
    BY DEF Init, ReferencesResolve, NoPointers
  <1>3. IdsSpent BY DEF Init, IdsSpent
  <1>4. WorkFits BY IdleFits DEF Init, WorkFits
  <1>5. PointersAgree BY DEF Init, PointersAgree, NoPointers
  <1> QED BY <1>1, <1>2, <1>3, <1>4, <1>5 DEF SInv

\* A thread that changes its own transaction only, to one that fits the rows.
LEMMA WorkOnly ==
  ASSUME SInv, NEW r \in Workers, NEW t \in Transaction, Fits(t),
         work' = [work EXCEPT ![r] = t], requests' \in Nat,
         UNCHANGED <<rows, sessions, spent, moved, torn>>
  PROVE  SInv'
  <1>1. UNCHANGED <<units, parent, issues, unitOf, hidden, links, acks, sessions, spent, moved, torn>>
    BY DEF rows
  <1>2. TypeOK' BY <1>1 DEF SInv, TypeOK
  <1>3. ReferencesResolve' BY <1>1 DEF SInv, ReferencesResolve
  <1>4. IdsSpent' BY <1>1 DEF SInv, IdsSpent
  <1>5. \A q \in Workers : work'[q] = IF q = r THEN t ELSE work[q] BY DEF SInv, TypeOK
  <1>6. WorkFits'
    BY <1>1, <1>5 DEF SInv, WorkFits, Fits, DeleteFits, PutFits, TapFits
  <1>7. PointersAgree' BY <1>1 DEF SInv, PointersAgree
  <1> QED BY <1>2, <1>3, <1>4, <1>6, <1>7 DEF SInv

\* A unit is created under a unit, or moved under one.
LEMMA UnitsOK ==
  ASSUME SInv, NEW u \in Units, NEW p \in Units \cup {None}, CreateUnit(u, p) \/ UpdateUnit(u, p)
  PROVE  SInv'
  <1>1. /\ UNCHANGED <<issues, unitOf, hidden, links, acks, sessions, moved, torn, work>>
        /\ parent' = [parent EXCEPT ![u] = p] /\ p \in units \cup {None}
        /\ units \subseteq units' /\ units' \subseteq units \cup {u} /\ u \in units'
        /\ spent \subseteq spent' /\ spent' \subseteq spent \cup {u} /\ units' \subseteq spent'
        /\ units' \ units \subseteq Units \ spent
    BY DEF CreateUnit, UpdateUnit, SInv, IdsSpent
  <1>2. requests' \in Nat BY DEF CreateUnit, UpdateUnit, Request, SInv, TypeOK
  <1>3. parent' \in [Units -> Units \cup {None}] /\ parent \in [Units -> Units \cup {None}]
    BY <1>1 DEF SInv, TypeOK
  <1>4. TypeOK' BY <1>1, <1>2, <1>3 DEF SInv, TypeOK
  <1>5. ReferencesResolve' BY <1>1, <1>3 DEF SInv, ReferencesResolve
  <1>6. IdsSpent' BY <1>1 DEF SInv, IdsSpent
  <1>7. WorkFits'
    <2> SUFFICES ASSUME NEW r \in Workers PROVE Fits(work[r])'
      BY DEF WorkFits
    <2>1. DeleteFits(work[r])' BY <1>1 DEF SInv, WorkFits, Fits, DeleteFits
    <2>2. PutFits(work[r])' BY <1>1 DEF SInv, WorkFits, Fits, PutFits
    <2>3. TapFits(work[r])' BY <1>1, NoneIsNoId DEF SInv, WorkFits, Fits, TapFits
    <2> QED BY <2>1, <2>2, <2>3 DEF Fits
  <1>8. PointersAgree' BY <1>1 DEF SInv, PointersAgree
  <1> QED BY <1>4, <1>5, <1>6, <1>7, <1>8 DEF SInv

\* An issue type is shown or hidden, or its templates change.
LEMMA DetailsOK ==
  ASSUME SInv, NEW i \in Issues,
         SetActive(i) \/ \E t \in Texts : EditTemplates(i, t)
  PROVE  SInv'
  <1>1. /\ UNCHANGED <<units, parent, issues, unitOf, links, sessions, spent, moved, torn, work>>
        /\ i \in issues
    BY DEF SetActive, EditTemplates
  <1>2. requests' \in Nat BY DEF SetActive, EditTemplates, Request, SInv, TypeOK
  <1>3. hidden' \in SUBSET Issues BY DEF SetActive, EditTemplates, SInv, TypeOK
  <1>4. /\ acks' \in [Issues -> SUBSET Texts]
        /\ \A j \in Issues : j # i => acks'[j] = acks[j]
    <2>1. acks \in [Issues -> SUBSET Texts] BY DEF SInv, TypeOK
    <2>2. CASE SetActive(i) BY <2>1, <2>2 DEF SetActive
    <2>3. CASE \E t \in Texts : EditTemplates(i, t) BY <2>1, <2>3 DEF EditTemplates
    <2> QED BY <2>2, <2>3
  <1>5. TypeOK' BY <1>1, <1>2, <1>3, <1>4 DEF SInv, TypeOK
  <1>6. ReferencesResolve' BY <1>1, <1>4 DEF SInv, ReferencesResolve
  <1>7. IdsSpent' /\ PointersAgree' BY <1>1 DEF SInv, IdsSpent, PointersAgree
  <1>8. WorkFits' BY <1>1 DEF SInv, WorkFits, Fits, DeleteFits, PutFits, TapFits
  <1> QED BY <1>5, <1>6, <1>7, <1>8 DEF SInv

\* An issue type is created or moved: the deletes under way take note of it.
LEMMA PlacedOK ==
  ASSUME SInv, NEW i \in Issues, NEW u \in Units, CreateIssue(i, u) \/ MoveIssue(i, u)
  PROVE  SInv'
  <1>1. /\ UNCHANGED <<units, parent, hidden, links, acks, sessions, torn>>
        /\ Placed(i, u) /\ u \in units
        /\ issues' = issues \cup {i} /\ spent' = spent \cup {i}
        /\ moved \subseteq moved' /\ moved' \subseteq moved \cup {i}
        /\ i \notin spent \/ (i \in moved' /\ i \in issues)
    BY DEF CreateIssue, MoveIssue, SInv, IdsSpent
  <1>2. requests' \in Nat BY DEF CreateIssue, MoveIssue, Request, SInv, TypeOK
  <1>3. /\ unitOf \in [Issues -> Units \cup {None}] /\ unitOf' = [unitOf EXCEPT ![i] = u]
        /\ work \in [Workers -> Transaction]
    BY <1>1 DEF Placed, SInv, TypeOK
  <1>4. \A r \in Workers :
          work'[r] = IF work[r].step = "deleting" THEN [work[r] EXCEPT !.late = @ \cup {i}] ELSE work[r]
    BY <1>1 DEF Placed
  <1>5. \A r \in Workers :
          /\ work'[r] \in Transaction
          /\ work'[r].step = work[r].step /\ work'[r].unit = work[r].unit
          /\ work[r].step = "deleting" => work'[r].late = work[r].late \cup {i}
          /\ work[r].step # "deleting" => work'[r] = work[r]
    <2>1. ASSUME NEW t \in Transaction PROVE [t EXCEPT !.late = @ \cup {i}] \in Transaction
      BY <2>1 DEF Transaction
    <2>2. ASSUME NEW t \in Transaction
          PROVE  /\ [t EXCEPT !.late = @ \cup {i}].step = t.step
                 /\ [t EXCEPT !.late = @ \cup {i}].unit = t.unit
                 /\ [t EXCEPT !.late = @ \cup {i}].late = t.late \cup {i}
      BY <2>2 DEF Transaction
    <2>3. TAKE r \in Workers
    <2>4. work[r] \in Transaction BY <1>3
    <2> QED BY <1>4, <2>1, <2>2, <2>4
  <1>6. TypeOK'
    <2>1. work' \in [Workers -> Transaction] BY <1>1, <1>5 DEF Placed
    <2>2. unitOf' \in [Issues -> Units \cup {None}] BY <1>3
    <2>3. moved' \in SUBSET Issues BY <1>1 DEF SInv, TypeOK
    <2> QED BY <1>1, <1>2, <2>1, <2>2, <2>3 DEF SInv, TypeOK
  <1>7. ReferencesResolve'
    BY <1>1, <1>3 DEF SInv, TypeOK, ReferencesResolve
  <1>8. IdsSpent' BY <1>1 DEF SInv, IdsSpent
  <1>9. WorkFits'
    <2> SUFFICES ASSUME NEW r \in Workers PROVE Fits(work[r])'
      BY DEF WorkFits
    <2>0. Fits(work[r]) BY DEF SInv, WorkFits
    <2>1. DeleteFits(work[r])' BY <1>1, <1>3, <1>5, <2>0 DEF Fits, DeleteFits
    <2>2. PutFits(work[r])'
      <3>1. CASE work[r].step = "deleting" BY <1>5, <3>1 DEF PutFits
      <3>2. CASE work[r].step # "deleting" BY <1>1, <1>5, <2>0, <3>2 DEF Fits, PutFits
      <3> QED BY <3>1, <3>2
    <2>3. TapFits(work[r])'
      <3>1. CASE work[r].step = "deleting" BY <1>5, <3>1 DEF TapFits
      <3>2. CASE work[r].step # "deleting"
        BY <1>1, <1>3, <1>5, <2>0, <3>2, NoneIsNoId DEF Fits, TapFits
      <3> QED BY <3>1, <3>2
    <2> QED BY <2>1, <2>2, <2>3 DEF Fits
  <1>10. PointersAgree'
    <2> SUFFICES ASSUME NEW s \in Sessions \ torn, sessions[s].issue \notin moved' \cup {None}
                 PROVE  sessions[s].unit = unitOf'[sessions[s].issue]
      BY <1>1 DEF PointersAgree
    <2>1. sessions[s].issue \in issues BY DEF SInv, ReferencesResolve
    <2>2. sessions[s].issue # i BY <1>1, <2>1 DEF SInv, IdsSpent
    <2>3. sessions[s].unit = unitOf[sessions[s].issue]
      BY <1>1 DEF SInv, PointersAgree
    <2>4. issues \subseteq Issues BY DEF SInv, TypeOK
    <2> QED BY <1>3, <2>1, <2>2, <2>3, <2>4
  <1> QED BY <1>6, <1>7, <1>8, <1>9, <1>10 DEF SInv

\* The units below a unit are closed under parent_id.
LEMMA BelowClosed ==
  ASSUME NEW u, NEW v \in units, parent[v] \in Below(u)
  PROVE  v \in Below(u)
  <1> SUFFICES ASSUME NEW S \in SUBSET units, u \in S, \A c \in units : parent[c] \in S => c \in S
               PROVE  v \in S
    BY DEF Below
  <1>1. parent[v] \in S BY DEF Below
  <1> QED BY <1>1

\* The foreign keys: with a set of units that is closed under parent_id go all
\* the issue types in them, and no key is left hanging.
LEMMA CascadeOK ==
  ASSUME SInv, NEW U \in SUBSET units, NEW I \in SUBSET issues, Cascade(U, I),
         \A v \in units : parent[v] \in U => v \in U,
         \A i \in issues : unitOf[i] \in U => i \in I,
         UNCHANGED <<spent, moved, torn>>, requests' \in Nat,
         work' \in [Workers -> Transaction],
         \A r \in Workers : work'[r] \in {work[r], Idle}
  PROVE  SInv'
  <1>1. /\ units \in SUBSET Units /\ issues \in SUBSET Issues
        /\ parent \in [Units -> Units \cup {None}] /\ unitOf \in [Issues -> Units \cup {None}]
        /\ hidden \in SUBSET Issues /\ links \in [Issues -> SUBSET Points]
        /\ acks \in [Issues -> SUBSET Texts] /\ sessions \in [Sessions -> Pointers]
    BY DEF SInv, TypeOK
  <1>2. /\ units' = units \ U /\ issues' = issues \ I /\ hidden' = hidden \ I
        /\ \A v \in Units : parent'[v] = IF v \in U THEN None ELSE parent[v]
        /\ \A i \in Issues : unitOf'[i] = IF i \in I THEN None ELSE unitOf[i]
        /\ \A i \in Issues : links'[i] = IF i \in I THEN {} ELSE links[i]
        /\ \A i \in Issues : acks'[i] = IF i \in I THEN {} ELSE acks[i]
    BY DEF Cascade
  <1>3. \A s \in Sessions :
          /\ sessions'[s] \in Pointers
          /\ sessions'[s].issue = IF sessions[s].issue \in I THEN None ELSE sessions[s].issue
          /\ sessions'[s].unit = IF sessions[s].unit \in U THEN None ELSE sessions[s].unit
    BY <1>1 DEF Cascade, Pointers
  <1>4. TypeOK'
    <2>1. units' \in SUBSET Units /\ issues' \in SUBSET Issues /\ hidden' \in SUBSET Issues
      BY <1>1, <1>2
    <2>2. parent' \in [Units -> Units \cup {None}] /\ unitOf' \in [Issues -> Units \cup {None}]
      BY <1>1 DEF Cascade
    <2>3. links' \in [Issues -> SUBSET Points] /\ acks' \in [Issues -> SUBSET Texts]
      BY <1>1 DEF Cascade
    <2>4. sessions' \in [Sessions -> Pointers] BY <1>3 DEF Cascade
    <2>5. spent' \in SUBSET (Units \cup Issues) /\ moved' \in SUBSET Issues /\ torn' \in SUBSET Sessions
      BY DEF SInv, TypeOK
    <2> QED BY <2>1, <2>2, <2>3, <2>4, <2>5 DEF TypeOK
  <1>5. ReferencesResolve'
    <2>1. \A u \in units' : parent'[u] \in units' \cup {None}
      BY <1>1, <1>2 DEF SInv, ReferencesResolve
    <2>2. \A i \in issues' : unitOf'[i] \in units'
      BY <1>1, <1>2 DEF SInv, ReferencesResolve
    <2>3. \A s \in Sessions : /\ sessions'[s].issue \in issues' \cup {None}
                              /\ sessions'[s].unit \in units' \cup {None}
      BY <1>2, <1>3 DEF SInv, ReferencesResolve
    <2>4. \A i \in Issues \ issues' : links'[i] = {} /\ acks'[i] = {}
      BY <1>2 DEF SInv, ReferencesResolve
    <2> QED BY <2>1, <2>2, <2>3, <2>4 DEF ReferencesResolve
  <1>6. IdsSpent' BY <1>2 DEF SInv, IdsSpent
  <1>7. WorkFits'
    <2> SUFFICES ASSUME NEW r \in Workers PROVE Fits(work[r])'
      BY DEF WorkFits
    <2>1. CASE work'[r] = Idle
      BY <2>1 DEF Idle, NoPointers, Fits, DeleteFits, PutFits, TapFits
    <2>2. CASE work'[r] = work[r]
      <3>0. Fits(work[r]) BY DEF SInv, WorkFits
      <3>1. DeleteFits(work[r])' BY <1>1, <1>2, <2>2, <3>0 DEF Fits, DeleteFits
      <3>2. PutFits(work[r])' BY <1>2, <2>2, <3>0 DEF Fits, PutFits
      <3>3. TapFits(work[r])' BY <1>1, <1>2, <1>3, <2>2, <3>0 DEF Fits, TapFits
      <3> QED BY <3>1, <3>2, <3>3 DEF Fits
    <2> QED BY <2>1, <2>2
  <1>8. PointersAgree'
    <2> SUFFICES ASSUME NEW s \in Sessions \ torn, sessions'[s].issue \notin moved \cup {None}
                 PROVE  sessions'[s].unit = unitOf'[sessions'[s].issue]
      BY DEF PointersAgree
    <2>1. /\ sessions'[s].issue = sessions[s].issue
          /\ sessions[s].issue \in issues \ I
      BY <1>3 DEF SInv, ReferencesResolve
    <2>2. sessions[s].unit = unitOf[sessions[s].issue]
      BY <2>1 DEF SInv, PointersAgree
    <2>3. sessions[s].unit \notin U BY <2>1, <2>2
    <2> QED BY <1>1, <1>2, <1>3, <2>1, <2>2, <2>3
  <1> QED BY <1>4, <1>5, <1>6, <1>7, <1>8 DEF SInv

\* delete_issue_type.
LEMMA DeleteIssueOK ==
  ASSUME SInv, NEW i \in Issues, DeleteIssue(i)
  PROVE  SInv'
  <1>1. /\ Cascade({}, {i}) /\ i \in issues /\ requests' \in Nat
        /\ UNCHANGED <<spent, moved, torn, work>>
    BY DEF DeleteIssue, Request, SInv, TypeOK
  <1>2. work' \in [Workers -> Transaction] BY <1>1 DEF SInv, TypeOK
  <1> QED BY <1>1, <1>2, CascadeOK

\* delete_business_unit: the count, and the DELETE.
LEMMA DeleteUnitOK ==
  ASSUME SInv, NEW r \in Workers,
         DeleteUnitCommit(r) \/ \E u \in Units : DeleteUnitCount(r, u)
  PROVE  SInv'
  <1>1. CASE \E u \in Units : DeleteUnitCount(r, u)
    <2> PICK u \in Units : DeleteUnitCount(r, u) BY <1>1
    <2> DEFINE t == [Idle EXCEPT !.step = "deleting", !.unit = u]
    <2>1. t \in Transaction BY DEF Idle, NoPointers, Pointers, Transaction, Steps
    <2>2. Fits(t)
      BY DEF DeleteUnitCount, Idle, NoPointers, Fits, DeleteFits, PutFits, TapFits
    <2>3. work' = [work EXCEPT ![r] = t] BY DEF DeleteUnitCount
    <2>4. requests' \in Nat BY Counted DEF DeleteUnitCount
    <2>5. UNCHANGED <<rows, sessions, spent, moved, torn>> BY DEF DeleteUnitCount
    <2> HIDE DEF t
    <2> QED BY <2>1, <2>2, <2>3, <2>4, <2>5, WorkOnly
  <1>2. CASE DeleteUnitCommit(r)
    <2> DEFINE U == Below(work[r].unit) \cap units
               I == {i \in issues : unitOf[i] \in U}
    <2>1. /\ work' = [work EXCEPT ![r] = Idle] /\ UNCHANGED <<spent, moved, torn, requests>>
          /\ IF work[r].unit \in units THEN Cascade(U, I) ELSE UNCHANGED <<rows, sessions>>
      BY <1>2 DEF DeleteUnitCommit, Ends
    <2>2. requests' \in Nat BY <2>1 DEF SInv, TypeOK
    <2>3. CASE work[r].unit \in units
      <3>1. \A v \in units : parent[v] \in U => v \in U BY BelowClosed
      <3>2. /\ work' \in [Workers -> Transaction]
            /\ \A q \in Workers : work'[q] \in {work[q], Idle}
        BY <2>1, IdleFits DEF SInv, TypeOK
      <3>3. U \in SUBSET units /\ I \in SUBSET issues /\ Cascade(U, I)
        BY <2>1, <2>3
      <3>4. \A i \in issues : unitOf[i] \in U => i \in I OBVIOUS
      <3> HIDE DEF U, I
      <3> QED BY <2>1, <2>2, <3>1, <3>2, <3>3, <3>4, CascadeOK
    <2>4. CASE work[r].unit \notin units
      BY <2>1, <2>2, <2>4, IdleFits, WorkOnly
    <2> QED BY <2>3, <2>4
  <1> QED BY <1>1, <1>2

\* replace_data_point_bindings up to its wipe.
LEMMA PutOK ==
  ASSUME SInv, NEW r \in Workers,
         PutWipe(r) \/ \E i \in Issues, B \in SUBSET Points : PutLoad(r, i, B)
  PROVE  SInv'
  <1>1. CASE \E i \in Issues, B \in SUBSET Points : PutLoad(r, i, B)
    <2> PICK i \in Issues, B \in SUBSET Points : PutLoad(r, i, B) BY <1>1
    <2> DEFINE t == [Idle EXCEPT !.step = "putting", !.issue = i, !.body = B, !.seen = links[i]]
    <2>1. t \in Transaction
      BY DEF Idle, NoPointers, Pointers, Transaction, Steps, SInv, TypeOK
    <2>2. Fits(t) BY DEF Idle, NoPointers, Fits, DeleteFits, PutFits, TapFits
    <2>3. work' = [work EXCEPT ![r] = t] BY DEF PutLoad
    <2>4. requests' \in Nat BY Counted DEF PutLoad
    <2>5. UNCHANGED <<rows, sessions, spent, moved, torn>> BY DEF PutLoad
    <2> HIDE DEF t
    <2> QED BY <2>1, <2>2, <2>3, <2>4, <2>5, WorkOnly
  <1>2. CASE PutWipe(r)
    <2> DEFINE w == work[r]
               g == w.seen \cap links[w.issue]
               t == [w EXCEPT !.step = "wiped", !.gone = g]
    <2>0. w \in Transaction /\ Fits(w) /\ w.step = "putting"
      BY <1>2 DEF PutWipe, SInv, TypeOK, WorkFits
    <2>1. g \in SUBSET Points BY <2>0 DEF Transaction
    <2>2. t \in Transaction /\ t.step = "wiped" /\ t.gone = g /\ t.issue = w.issue /\ t.since = w.since
      <3> HIDE DEF g
      <3> QED BY <2>0, <2>1 DEF Transaction, Steps
    <2>3. Fits(t)
      <3>1. links[w.issue] \ g \subseteq w.since /\ w.issue \in Issues
        BY <2>0 DEF Fits, PutFits
      <3> HIDE DEF t, g, w
      <3> QED BY <2>2, <3>1 DEF Fits, DeleteFits, PutFits, TapFits
    <2>4. work' = [work EXCEPT ![r] = t] BY <1>2 DEF PutWipe, SInv, TypeOK
    <2>5. requests' \in Nat BY <1>2 DEF PutWipe, SInv, TypeOK
    <2>6. UNCHANGED <<rows, sessions, spent, moved, torn>> BY <1>2 DEF PutWipe
    <2> HIDE DEF t, g, w
    <2> QED BY <2>2, <2>3, <2>4, <2>5, <2>6, WorkOnly
  <1> QED BY <1>1, <1>2

\* Its inserts, of which the other PUTs under way take note.
LEMMA PutCommitOK ==
  ASSUME SInv, NEW r \in Workers, PutCommit(r)
  PROVE  SInv'
  <1> DEFINE w == work[r]
             left == links[w.issue] \ w.gone
  <1>1. /\ UNCHANGED <<units, parent, issues, unitOf, hidden, acks, sessions, spent, moved, torn, requests>>
        /\ w.step = "wiped" /\ w.issue \in issues
        /\ links' = [links EXCEPT ![w.issue] = left \cup w.body]
        /\ work' = [q \in Workers |->
              IF q = r THEN Idle
              ELSE IF work[q].issue = w.issue
                   THEN [work[q] EXCEPT !.since = @ \cup w.body] ELSE work[q]]
    BY DEF PutCommit
  <1>2. /\ w \in Transaction /\ links \in [Issues -> SUBSET Points]
        /\ w.body \in SUBSET Points /\ left \in SUBSET Points /\ w.issue \in Issues
    BY <1>1 DEF SInv, TypeOK, Transaction
  <1>3. ASSUME NEW t \in Transaction, NEW b \in SUBSET Points
        PROVE  /\ [t EXCEPT !.since = @ \cup b] \in Transaction
               /\ [t EXCEPT !.since = @ \cup b].since = t.since \cup b
               /\ [t EXCEPT !.since = @ \cup b].step = t.step
               /\ [t EXCEPT !.since = @ \cup b].unit = t.unit
               /\ [t EXCEPT !.since = @ \cup b].issue = t.issue
               /\ [t EXCEPT !.since = @ \cup b].session = t.session
               /\ [t EXCEPT !.since = @ \cup b].was = t.was
               /\ [t EXCEPT !.since = @ \cup b].seen = t.seen
               /\ [t EXCEPT !.since = @ \cup b].gone = t.gone
               /\ [t EXCEPT !.since = @ \cup b].late = t.late
               /\ [t EXCEPT !.since = @ \cup b].missed = t.missed
    BY <1>3 DEF Transaction
  <1>4. ASSUME NEW q \in Workers, q # r
        PROVE  /\ work'[q] \in Transaction
               /\ work'[q].step = work[q].step /\ work'[q].unit = work[q].unit
               /\ work'[q].issue = work[q].issue /\ work'[q].session = work[q].session
               /\ work'[q].was = work[q].was /\ work'[q].seen = work[q].seen
               /\ work'[q].gone = work[q].gone /\ work'[q].late = work[q].late
               /\ work'[q].missed = work[q].missed
               /\ work[q].since \subseteq work'[q].since
               /\ work[q].issue = w.issue => w.body \subseteq work'[q].since
    <2>1. work[q] \in Transaction BY DEF SInv, TypeOK
    <2>2. work'[q] = IF work[q].issue = w.issue
                     THEN [work[q] EXCEPT !.since = @ \cup w.body] ELSE work[q]
      BY <1>1, <1>4
    <2> HIDE DEF w
    <2>3. CASE work[q].issue = w.issue
      <3> DEFINE told == [work[q] EXCEPT !.since = @ \cup w.body]
      <3>1. work'[q] = told BY <2>2, <2>3, Zenon
      <3>2. /\ told \in Transaction /\ told.since = work[q].since \cup w.body
            /\ told.step = work[q].step /\ told.unit = work[q].unit
            /\ told.issue = work[q].issue /\ told.session = work[q].session
            /\ told.was = work[q].was /\ told.seen = work[q].seen
            /\ told.gone = work[q].gone /\ told.late = work[q].late
            /\ told.missed = work[q].missed
        BY <1>2, <1>3, <2>1, Zenon
      <3> HIDE DEF told
      <3> QED BY <3>1, <3>2
    <2>4. CASE work[q].issue # w.issue
      <3>1. work'[q] = work[q] BY <2>2, <2>4, Zenon
      <3> QED BY <2>1, <2>4, <3>1
    <2> QED BY <2>3, <2>4
  <1>5. work'[r] = Idle BY <1>1
  <1>6. \A j \in Issues : links'[j] = IF j = w.issue THEN left \cup w.body ELSE links[j]
    BY <1>1, <1>2
  <1>7. TypeOK'
    <2>1. links' \in [Issues -> SUBSET Points]
      <3> HIDE DEF left, w
      <3> QED BY <1>1, <1>2
    <2>2. work' \in [Workers -> Transaction] BY <1>1, <1>4, <1>5, IdleFits
    <2> QED BY <1>1, <2>1, <2>2 DEF SInv, TypeOK
  <1>8. ReferencesResolve' BY <1>1, <1>2, <1>6 DEF SInv, ReferencesResolve
  <1>9. IdsSpent' /\ PointersAgree' BY <1>1 DEF SInv, IdsSpent, PointersAgree
  <1>10. WorkFits'
    <2> SUFFICES ASSUME NEW q \in Workers PROVE Fits(work[q])'
      BY DEF WorkFits
    <2>1. CASE q = r
      BY <1>5, <2>1 DEF Idle, NoPointers, Fits, DeleteFits, PutFits, TapFits
    <2>2. CASE q # r
      <3>0. Fits(work[q]) BY DEF SInv, WorkFits
      <3>1. DeleteFits(work[q])' BY <1>1, <1>4, <2>2, <3>0 DEF Fits, DeleteFits
      <3>2. PutFits(work[q])' BY <1>4, <1>6, <2>2, <3>0 DEF Fits, PutFits
      <3>3. TapFits(work[q])' BY <1>1, <1>4, <2>2, <3>0 DEF Fits, TapFits
      <3> QED BY <3>1, <3>2, <3>3 DEF Fits
    <2> QED BY <2>1, <2>2
  <1> QED BY <1>7, <1>8, <1>9, <1>10 DEF SInv

\* select_issue reads the issue type and the session.
LEMMA TapLoadOK ==
  ASSUME SInv, NEW r \in Workers, NEW s \in Sessions, NEW i \in Issues, TapLoad(r, s, i)
  PROVE  SInv'
  <1> DEFINE t == [Idle EXCEPT !.step = "tapping", !.session = s, !.issue = i,
                               !.unit = unitOf[i], !.was = sessions[s]]
  <1>1. /\ i \in issues /\ unitOf[i] \in units /\ i \in spent /\ unitOf[i] \in Units \cap spent
        /\ sessions[s] \in Pointers
        /\ sessions[s].issue \in spent \cup {None} /\ sessions[s].unit \in spent \cup {None}
    BY DEF TapLoad, SInv, TypeOK, ReferencesResolve, IdsSpent
  <1>2. t \in Transaction
    BY <1>1 DEF Idle, NoPointers, Transaction, Steps
  <1>3. /\ t.step = "tapping" /\ t.session = s /\ t.issue = i
        /\ t.unit = unitOf[i] /\ t.was = sessions[s]
    BY DEF Idle
  <1> HIDE DEF t
  <1>4. Fits(t) BY <1>1, <1>3 DEF Fits, DeleteFits, PutFits, TapFits
  <1>5. work' = [work EXCEPT ![r] = t] BY DEF TapLoad, t
  <1>6. requests' \in Nat BY Counted DEF TapLoad
  <1>7. UNCHANGED <<rows, sessions, spent, moved, torn>> BY DEF TapLoad
  <1> QED BY <1>2, <1>4, <1>5, <1>6, <1>7, WorkOnly

\* It writes the columns that differ from what it read: if it missed no other
\* tap, the issue type and its unit end up together.
LEMMA TapCommitOK ==
  ASSUME SInv, NEW r \in Workers, TapCommit(r)
  PROVE  SInv'
  <1> DEFINE w == work[r]
             x == TapWrites(w)
  <1>1. /\ UNCHANGED <<rows, spent, moved, requests>>
        /\ w.step = "tapping"
        /\ x.issue \in issues \cup {None} /\ x.unit \in units \cup {None}
        /\ sessions' = [sessions EXCEPT ![w.session] = x]
        /\ torn' = IF w.missed THEN torn \cup {w.session} ELSE torn \ {w.session}
        /\ work' = [q \in Workers |->
              IF q = r THEN Idle
              ELSE IF work[q].session = w.session
                   THEN [work[q] EXCEPT !.missed = TRUE] ELSE work[q]]
    BY DEF TapCommit
  <1>2. UNCHANGED <<units, parent, issues, unitOf, hidden, links, acks>> BY <1>1 DEF rows
  <1>3. /\ TapFits(w) /\ w.session \in Sessions /\ x \in Pointers
        /\ sessions \in [Sessions -> Pointers]
    <2>1. TapFits(w) /\ sessions \in [Sessions -> Pointers] /\ issues \subseteq Issues /\ units \subseteq Units
      BY DEF SInv, TypeOK, WorkFits, Fits
    <2>2. w.session \in Sessions BY <1>1, <2>1 DEF TapFits
    <2>3. x \in Pointers BY <1>1, <2>1 DEF TapWrites, Pointers
    <2> QED BY <2>1, <2>2, <2>3
  <1>4. \A s \in Sessions : sessions'[s] = IF s = w.session THEN x ELSE sessions[s]
    BY <1>1, <1>3
  <1>5. ASSUME NEW t \in Transaction
        PROVE  /\ [t EXCEPT !.missed = TRUE] \in Transaction
               /\ [t EXCEPT !.missed = TRUE].missed
               /\ [t EXCEPT !.missed = TRUE].step = t.step
               /\ [t EXCEPT !.missed = TRUE].unit = t.unit
               /\ [t EXCEPT !.missed = TRUE].issue = t.issue
               /\ [t EXCEPT !.missed = TRUE].session = t.session
               /\ [t EXCEPT !.missed = TRUE].was = t.was
               /\ [t EXCEPT !.missed = TRUE].seen = t.seen
               /\ [t EXCEPT !.missed = TRUE].gone = t.gone
               /\ [t EXCEPT !.missed = TRUE].since = t.since
               /\ [t EXCEPT !.missed = TRUE].late = t.late
    BY <1>5 DEF Transaction
  <1>6. ASSUME NEW q \in Workers, q # r
        PROVE  /\ work'[q] \in Transaction
               /\ work'[q].step = work[q].step /\ work'[q].unit = work[q].unit
               /\ work'[q].issue = work[q].issue /\ work'[q].session = work[q].session
               /\ work'[q].was = work[q].was /\ work'[q].seen = work[q].seen
               /\ work'[q].gone = work[q].gone /\ work'[q].late = work[q].late
               /\ work'[q].since = work[q].since
               /\ work[q].session = w.session => work'[q].missed
               /\ work[q].session # w.session => work'[q].missed = work[q].missed
    <2>1. work[q] \in Transaction BY DEF SInv, TypeOK
    <2>2. work'[q] = IF work[q].session = w.session
                     THEN [work[q] EXCEPT !.missed = TRUE] ELSE work[q]
      BY <1>1, <1>6
    <2> HIDE DEF w
    <2>3. CASE work[q].session = w.session BY <1>5, <2>1, <2>2, <2>3
    <2>4. CASE work[q].session # w.session BY <2>1, <2>2, <2>4
    <2> QED BY <2>3, <2>4
  <1>7. work'[r] = Idle BY <1>1
  <1>8. TypeOK'
    <2>1. sessions' \in [Sessions -> Pointers]
      <3> HIDE DEF x, w
      <3> QED BY <1>1, <1>3
    <2>2. work' \in [Workers -> Transaction] BY <1>1, <1>6, <1>7, IdleFits
    <2>3. torn' \in SUBSET Sessions
      <3> HIDE DEF w
      <3> QED BY <1>1, <1>3 DEF SInv, TypeOK
    <2> QED BY <1>1, <1>2, <2>1, <2>2, <2>3 DEF SInv, TypeOK
  <1>9. ReferencesResolve'
    <2> HIDE DEF x, w
    <2> QED BY <1>1, <1>2, <1>4 DEF SInv, ReferencesResolve
  <1>10. IdsSpent' BY <1>1, <1>2 DEF SInv, IdsSpent
  <1>11. WorkFits'
    <2> SUFFICES ASSUME NEW q \in Workers PROVE Fits(work[q])'
      BY DEF WorkFits
    <2>1. CASE q = r
      BY <1>7, <2>1 DEF Idle, NoPointers, Fits, DeleteFits, PutFits, TapFits
    <2>2. CASE q # r
      <3>0. Fits(work[q]) BY DEF SInv, WorkFits
      <3>1. DeleteFits(work[q])' BY <1>2, <1>6, <2>2, <3>0 DEF Fits, DeleteFits
      <3>2. PutFits(work[q])' BY <1>2, <1>6, <2>2, <3>0 DEF Fits, PutFits
      <3>3. TapFits(work[q])'
        <4> HIDE DEF x, w
        <4> QED BY <1>1, <1>2, <1>4, <1>6, <2>2, <3>0 DEF Fits, TapFits
      <3> QED BY <3>1, <3>2, <3>3 DEF Fits
    <2> QED BY <2>1, <2>2
  <1>12. PointersAgree'
    <2> SUFFICES ASSUME NEW s \in Sessions \ torn', sessions'[s].issue \notin moved \cup {None}
                 PROVE  sessions'[s].unit = unitOf[sessions'[s].issue]
      BY <1>1, <1>2 DEF PointersAgree
    <2>1. CASE s # w.session
      <3>1. s \notin torn /\ sessions'[s] = sessions[s] BY <1>1, <1>4, <2>1
      <3> QED BY <3>1 DEF SInv, PointersAgree
    <2>2. CASE s = w.session
      <3>1. ~w.missed /\ sessions'[s] = x BY <1>1, <1>4, <2>2
      <3>2. x.issue = w.issue /\ x.issue \in issues
        BY <1>1, <1>3, <3>1 DEF TapFits, TapWrites
      <3>3. w.unit = unitOf[w.issue] /\ w.unit \in units
        BY <1>1, <1>3, <3>1, <3>2 DEF TapFits, SInv, ReferencesResolve
      <3>4. x.unit = w.unit
        BY <1>1, <1>3, <3>1, <3>3 DEF TapFits, TapWrites
      <3> QED BY <3>1, <3>2, <3>3, <3>4
    <2> QED BY <2>1, <2>2
  <1> QED BY <1>8, <1>9, <1>10, <1>11, <1>12 DEF SInv

\* Every step keeps the invariant.
LEMMA StepOK == SInv /\ [Next]_vars => SInv'
  <1> SUFFICES ASSUME SInv, [Next]_vars PROVE SInv'
    OBVIOUS
  <1>1. CASE \E u \in Units, p \in Units \cup {None} : CreateUnit(u, p) \/ UpdateUnit(u, p)
    BY <1>1, UnitsOK
  <1>2. CASE \E i \in Issues, u \in Units : CreateIssue(i, u) \/ MoveIssue(i, u)
    BY <1>2, PlacedOK
  <1>3. CASE \E i \in Issues : SetActive(i) \/ DeleteIssue(i)
    BY <1>3, DetailsOK, DeleteIssueOK
  <1>4. CASE \E i \in Issues, t \in Texts : EditTemplates(i, t)
    BY <1>4, DetailsOK
  <1>5. ASSUME NEW r \in Workers, Serve(r) PROVE SInv'
    <2>1. CASE DeleteUnitCommit(r) \/ \E u \in Units : DeleteUnitCount(r, u)
      BY <2>1, DeleteUnitOK
    <2>2. CASE PutWipe(r) \/ \E i \in Issues, B \in SUBSET Points : PutLoad(r, i, B)
      BY <2>2, PutOK
    <2>3. CASE PutCommit(r) BY <2>3, PutCommitOK
    <2>4. CASE \E s \in Sessions, i \in Issues : TapLoad(r, s, i)
      BY <2>4, TapLoadOK
    <2>5. CASE TapCommit(r) BY <2>5, TapCommitOK
    <2>6. CASE Rollback(r)
      <3>1. work' = [work EXCEPT ![r] = Idle] /\ UNCHANGED <<rows, sessions, spent, moved, torn>>
        BY <2>6 DEF Rollback, Ends
      <3>2. requests' \in Nat BY <2>6 DEF Rollback, SInv, TypeOK
      <3> QED BY <3>1, <3>2, IdleFits, WorkOnly
    <2> QED BY <1>5, <2>1, <2>2, <2>3, <2>4, <2>5, <2>6 DEF Serve
  <1>6. CASE UNCHANGED vars
    <2>1. UNCHANGED <<units, parent, issues, unitOf, hidden, links, acks,
                      sessions, spent, moved, torn, work, requests>>
      BY <1>6 DEF vars, rows
    <2>2. TypeOK' /\ ReferencesResolve' BY <2>1 DEF SInv, TypeOK, ReferencesResolve
    <2>3. IdsSpent' /\ PointersAgree' BY <2>1 DEF SInv, IdsSpent, PointersAgree
    <2>4. WorkFits' BY <2>1 DEF SInv, WorkFits, Fits, DeleteFits, PutFits, TapFits
    <2> QED BY <2>2, <2>3, <2>4 DEF SInv
  <1> QED BY <1>1, <1>2, <1>3, <1>4, <1>5, <1>6 DEF Next, Edit

\* Every reachable state of the studio satisfies the invariant: keys resolve and
\* each transaction fits the rows it has read.
THEOREM StudioInvariant == Spec => []SInv
  <1> QED BY InitOK, StepOK, PTL DEF Spec

\* Every variable has its type.
THEOREM StudioTyped == Spec => []TypeOK
  <1>1. SInv => TypeOK BY DEF SInv
  <1> QED BY <1>1, StudioInvariant, PTL

\* Whatever is deleted while other requests are under way, every key of the
\* content and of the sessions refers to a row that is there.
THEOREM KeysResolve == Spec => []ReferencesResolve
  <1>1. SInv => ReferencesResolve BY DEF SInv
  <1> QED BY <1>1, StudioInvariant, PTL

\* A PUT of bindings leaves beside its body only what another PUT has bound
\* since it read the old set.
THEOREM PutsReplace == Spec => []OnlyOverlapsMerge
  <1>1. SInv => OnlyOverlapsMerge
    BY DEF SInv, WorkFits, Fits, PutFits, OnlyOverlapsMerge
  <1> QED BY <1>1, StudioInvariant, PTL

\* The issue type and the unit of a session belong together, but for a moved
\* issue type and a tap that wrote from an old copy.
THEOREM TapsAgree == Spec => []PointersAgree
  <1>1. SInv => PointersAgree BY DEF SInv
  <1> QED BY <1>1, StudioInvariant, PTL

\* An issue type that goes with its unit was placed there after the count, or
\* the unit went with one above it.
LEMMA CascadeStep ==
  ASSUME SInv, Next, NEW i \in issues, i \notin issues', unitOf[i] \notin units'
  PROVE  \E r \in Workers :
           /\ work[r].step = "deleting" /\ work'[r].step = "idle"
           /\ work[r].unit # unitOf[i] \/ i \in work[r].late
  <1>0. unitOf[i] \in units /\ work \in [Workers -> Transaction]
    BY DEF SInv, TypeOK, ReferencesResolve
  <1>1. ASSUME NEW r \in Workers, DeleteUnitCommit(r)
        PROVE  /\ work[r].step = "deleting" /\ work'[r].step = "idle"
               /\ work[r].unit # unitOf[i] \/ i \in work[r].late
    <2>1. DeleteFits(work[r]) BY DEF SInv, WorkFits, Fits
    <2>2. work[r].step = "deleting" /\ work'[r] = Idle
      BY <1>0, <1>1 DEF DeleteUnitCommit, Ends
    <2> QED BY <2>1, <2>2 DEF DeleteFits, Idle
  <1>2. ASSUME Edit PROVE FALSE
    <2>1. CASE \E u \in Units, p \in Units \cup {None} : CreateUnit(u, p) \/ UpdateUnit(u, p)
      BY <2>1 DEF CreateUnit, UpdateUnit
    <2>2. CASE \E j \in Issues, u \in Units : CreateIssue(j, u) \/ MoveIssue(j, u)
      BY <2>2 DEF CreateIssue, MoveIssue
    <2>3. CASE \E j \in Issues : SetActive(j)
      BY <2>3 DEF SetActive
    <2>4. CASE \E j \in Issues : DeleteIssue(j)
      <3>1. units' = units \ {} BY <2>4 DEF DeleteIssue, Cascade
      <3> QED BY <1>0, <3>1
    <2>5. CASE \E j \in Issues, t \in Texts : EditTemplates(j, t)
      BY <2>5 DEF EditTemplates
    <2> QED BY <1>2, <2>1, <2>2, <2>3, <2>4, <2>5 DEF Edit
  <1>3. ASSUME NEW r \in Workers, Serve(r) PROVE DeleteUnitCommit(r)
    <2>1. CASE DeleteUnitCommit(r) BY <2>1
    <2>2. CASE ~DeleteUnitCommit(r)
      <3>1. UNCHANGED issues
        BY <1>3, <2>2 DEF Serve, DeleteUnitCount, PutLoad, PutWipe, PutCommit,
                          TapLoad, TapCommit, Rollback, rows
      <3> QED BY <3>1
    <2> QED BY <2>1, <2>2
  <1> QED BY <1>1, <1>2, <1>3 DEF Next

\* delete_business_unit never takes an issue type that it has counted.
THEOREM CountedIssuesStay == Spec => CascadeTakesNoCountedIssue
  <1> DEFINE TakesNoCounted ==
        \A i \in issues :
          i \notin issues' /\ unitOf[i] \notin units' =>
              \E r \in Workers :
                  /\ work[r].step = "deleting" /\ work'[r].step = "idle"
                  /\ work[r].unit # unitOf[i] \/ i \in work[r].late
  <1>1. SInv /\ [Next]_vars => [TakesNoCounted]_vars
    <2> SUFFICES ASSUME SInv, Next PROVE TakesNoCounted
      OBVIOUS
    <2> QED BY CascadeStep
  <1> QED BY <1>1, StudioInvariant, PTL DEF Spec, CascadeTakesNoCountedIssue

-----------------------------------------------------------------------------
(* The tap on a chip: its bindings.                                        *)

\* The seeded bindings are short sequences of data points without repetition,
\* and the order is never anywhere but first.
LEMMA BindingsSeeded ==
    ASSUME NEW c \in Codes
    PROVE  /\ Bindings[c] \in Seq(DataPoints) /\ Len(Bindings[c]) \in {1, 2, 3, 5}
           /\ \A i, j \in 1..Len(Bindings[c]) : Bindings[c][i] = Bindings[c][j] => i = j
           /\ \A j \in 1..Len(Bindings[c]) : Bindings[c][j] = "order_full" => j = 1
<1> DEFINE arrived == <<"order_full", "customer_profile", "rider_history",
                         "rider_incidents_for_order", "customer_refunds_30d">>
            charged == <<"order_full", "customer_profile", "customer_refunds_30d">>
            person == <<"customer_profile">>
            Fine(b) == /\ b \in Seq(DataPoints) /\ Len(b) \in {1, 2, 3, 5}
                       /\ \A i, j \in 1..Len(b) : b[i] = b[j] => i = j
                       /\ \A j \in 1..Len(b) : b[j] = "order_full" => j = 1
<1>1. Bindings[c] \in {WithRestaurant, WithRider, arrived, charged, Basic, person}
  BY DEF Codes, Bindings
<1>2. Fine(WithRestaurant) /\ Fine(WithRider)
  BY DEF WithRestaurant, WithRider, DataPoints
<1>3. Fine(charged) /\ Fine(Basic) /\ Fine(person)
  BY DEF Basic, DataPoints
<1>4. Fine(arrived)
  BY DEF DataPoints
<1>5. ASSUME NEW b \in {WithRestaurant, WithRider, arrived, charged, Basic, person}
      PROVE  Fine(b)
  <2> HIDE DEF Fine, arrived, charged, person
  <2> QED
    BY <1>2, <1>3, <1>4
<1>6. Fine(Bindings[c])
  <2> HIDE DEF Fine
  <2> QED
    BY <1>1, <1>5
<1> QED
  BY <1>6

\* However an admin orders them, no data point is bound twice.
LEMMA OrdersInjective ==
    ASSUME NEW c \in Codes, NEW s \in Orders(c)
    PROVE  /\ s \in Seq(DataPoints)
           /\ \A i, j \in 1..Len(s) : s[i] = s[j] => i = j
<1> DEFINE b == Bindings[c]
<1>1. CASE Len(b) > 3
  BY <1>1, BindingsSeeded DEF Orders
<1>2. CASE ~(Len(b) > 3)
  <2>1. s \in [1..Len(b) -> ToSet(b)] /\ ToSet(s) = ToSet(b)
    BY <1>2 DEF Orders
  <2>2. /\ b \in Seq(DataPoints) /\ Len(b) \in 1..3
        /\ \A i, j \in 1..Len(b) : b[i] = b[j] => i = j
    BY <1>2, BindingsSeeded
  <2> HIDE DEF b
  <2>3. ToSet(b) = {b[i] : i \in 1..Len(b)} /\ ToSet(s) = {s[i] : i \in 1..Len(b)}
    BY <2>1, <2>2 DEF ToSet
  <2>4. s \in Seq(DataPoints) /\ Len(s) = Len(b)
    <3>1. ToSet(b) \subseteq DataPoints
      BY <2>2, <2>3
    <3> QED
      BY <2>1, <2>2, <3>1
  <2>5. \A i \in 1..Len(b) : \E j \in 1..Len(b) : s[j] = b[i]
    BY <2>1, <2>3
  <2>6. CASE Len(b) = 1
    BY <2>4, <2>6
  <2>7. CASE Len(b) = 2
    BY <2>2, <2>4, <2>5, <2>7
  <2>8. CASE Len(b) = 3
    BY <2>2, <2>4, <2>5, <2>8
  <2> QED
    BY <2>2, <2>4, <2>6, <2>7, <2>8
<1> QED
  BY <1>1, <1>2

-----------------------------------------------------------------------------
(* The tap on a chip: ids and the order in which data points are fetched.  *)

\* An order was found by its fetcher, for an id of the request; whoever was
\* skipped was skipped before that.
FetchInv ==
    /\ code \in Codes /\ bound \in Orders(code) /\ pos \in 0..Len(bound)
    /\ "order" \in found => "order" \in hints
    /\ \A p \in unasked : \E i \in 1..pos : bound[i] = p
    /\ "order" \in found =>
          \A i \in 1..pos :
              bound[i] \in unasked /\ (bound[i] = "rider_history" => "rider_id" \in found) =>
                  \E j \in 1..pos : i < j /\ bound[j] = "order_full"

\* The context holds what the data points reported as resolved have filled in.
ContextInv ==
    \A v \in ctx : \E p \in resolved : \E f \in Fills(Entity(p)) : v \in f

\* The data point in hand.
LEMMA CurrentIsBound ==
    ASSUME FetchInv, Fetching
    PROVE  /\ pos + 1 \in 1..Len(bound) /\ Len(bound) \in Nat /\ pos \in Nat
           /\ Current = bound[pos + 1] /\ Current \in DataPoints
           /\ Current \notin unasked
           /\ \A i \in 1..pos : i \in 1..Len(bound) /\ bound[i] # Current
<1>1. /\ bound \in Seq(DataPoints)
      /\ \A i, j \in 1..Len(bound) : bound[i] = bound[j] => i = j
  BY OrdersInjective DEF FetchInv
<1>2. pos \in 0..Len(bound) /\ pos < Len(bound) /\ Len(bound) \in Nat
  BY <1>1 DEF FetchInv, Fetching
<1>3. pos + 1 \in 1..Len(bound) /\ bound[pos + 1] \in DataPoints
  BY <1>1, <1>2
<1>4. \A i \in 1..pos : i \in 1..Len(bound) /\ bound[i] # bound[pos + 1]
  <2> SUFFICES ASSUME NEW i \in 1..pos
               PROVE  i \in 1..Len(bound) /\ bound[i] # bound[pos + 1]
    OBVIOUS
  <2>1. i \in 1..Len(bound) /\ i # pos + 1
    BY <1>2
  <2> QED
    BY <1>1, <1>3, <2>1
<1> QED
  BY <1>2, <1>3, <1>4 DEF Current, FetchInv

\* A fetcher's entity: the order is order_full's, and once it has been found
\* every fetcher has an id to ask with, the rider's if the order has a rider.
LEMMA FetchersAsk ==
    ASSUME NEW p \in DataPoints
    PROVE  /\ \A e \in Finds(p) : e \cap {"order", "rider_id"} # {} => p = "order_full"
           /\ p = "order_full" => (HasId(p) <=> "order" \in hints)
           /\ /\ "order" \in found /\ "order" \in hints
              /\ p = "rider_history" => "rider_id" \in found
              => HasId(p)
BY DEF DataPoints, Entity, Finds, HasId

\* One more binding is handled, and nobody is added to the skipped.
LEMMA HandledKeeps ==
    ASSUME FetchInv, Fetching, pos' = pos + 1, UNCHANGED <<code, bound, hints, unasked>>,
           "order" \in found' => "order" \in found \/ Current = "order_full",
           "rider_id" \in found' => "rider_id" \in found \/ Current = "order_full",
           "order" \in found' => "order" \in hints
    PROVE  FetchInv'
<1>1. /\ code' \in Codes /\ bound' \in Orders(code') /\ pos' \in 0..Len(bound')
      /\ \A i \in 1..pos : i \in 1..pos'
      /\ \A i \in 1..pos' : i \in 1..pos \/ i = pos + 1
      /\ pos + 1 \in 1..pos' /\ \A i \in 1..pos : i < pos + 1
  BY CurrentIsBound DEF FetchInv
<1>2. ASSUME "order" \in found', NEW i \in 1..pos', bound[i] \in unasked,
             bound[i] = "rider_history" => "rider_id" \in found'
      PROVE  \E j \in 1..pos' : i < j /\ bound[j] = "order_full"
  <2>1. i \in 1..pos
    BY <1>1, <1>2, CurrentIsBound
  <2>2. CASE Current = "order_full"
    BY <1>1, <2>1, <2>2, CurrentIsBound
  <2>3. CASE Current # "order_full"
    BY <1>1, <1>2, <2>1, <2>3 DEF FetchInv
  <2> QED
    BY <2>2, <2>3
<1>3. \A p \in unasked : \E i \in 1..pos' : bound[i] = p
  BY <1>1 DEF FetchInv
<1> QED
  BY <1>1, <1>2, <1>3 DEF FetchInv

\* The invariant holds before the first binding and is kept by every step.
LEMMA FetchInvHolds == TapSpec => []FetchInv
<1>1. TapInit => FetchInv
  <2> SUFFICES ASSUME TapInit PROVE FetchInv
    OBVIOUS
  <2>1. bound \in Seq(DataPoints)
    BY OrdersInjective DEF TapInit
  <2> QED
    BY <2>1 DEF TapInit, FetchInv
<1>2. FetchInv /\ [TapNext]_tapVars => FetchInv'
  <2> SUFFICES ASSUME FetchInv, [TapNext]_tapVars PROVE FetchInv'
    OBVIOUS
  <2>1. CASE Skip
    <3>1. Fetching /\ Current \in DataPoints /\ ~HasId(Current)
      BY <2>1, CurrentIsBound DEF Skip
    <3>2. "order" \in found => Current = "rider_history" /\ "rider_id" \notin found
      BY <3>1, FetchersAsk DEF FetchInv
    <3>3. /\ code' = code /\ bound' = bound /\ hints' = hints /\ found' = found /\ pos' = pos + 1
          /\ unasked' = unasked \cup {Current}
      BY <2>1 DEF Skip
    <3>4. pos' \in 0..Len(bound) /\ \A i \in 1..pos : i \in 1..pos'
      BY <3>1, <3>3, CurrentIsBound
    <3>5. pos + 1 \in 1..pos' /\ bound[pos + 1] = Current
      BY <3>1, <3>3, CurrentIsBound
    <3>6. \A i \in 1..pos' : i \in 1..pos \/ bound[i] = Current
      BY <3>1, <3>3, <3>5, CurrentIsBound
    <3>7. \A i \in 1..pos : bound[i] # Current
      BY <3>1, CurrentIsBound
    <3>8. ASSUME "order" \in found, NEW i \in 1..pos', bound[i] \in unasked',
                 bound[i] = "rider_history" => "rider_id" \in found
          PROVE  \E j \in 1..pos' : i < j /\ bound[j] = "order_full"
      <4>1. i \in 1..pos /\ bound[i] \in unasked
        BY <3>2, <3>3, <3>6, <3>7, <3>8
      <4> QED
        BY <3>4, <3>8, <4>1 DEF FetchInv
    <3> QED
      BY <3>3, <3>4, <3>5, <3>8 DEF FetchInv
  <2>2. CASE Resolve
    <3>1. Fetching /\ Current \in DataPoints /\ HasId(Current)
      BY <2>2, CurrentIsBound DEF Resolve
    <3>2. \E e \in Finds(Current) : found' = found \cup e
      BY <2>2 DEF Resolve
    <3>3. /\ "order" \in found' => "order" \in found \/ Current = "order_full"
          /\ "rider_id" \in found' => "rider_id" \in found \/ Current = "order_full"
          /\ "order" \in found' => "order" \in hints
      BY <3>1, <3>2, FetchersAsk DEF FetchInv
    <3> QED
      BY <2>2, <3>1, <3>3, HandledKeeps DEF Resolve
  <2>3. CASE NotThere \/ Crash
    BY <2>3, HandledKeeps DEF NotThere, Crash, FetchInv
  <2>4. CASE Acknowledge \/ Fail \/ UNCHANGED tapVars
    BY <2>4 DEF Acknowledge, Fail, tapVars, FetchInv
  <2> QED
    BY <2>1, <2>2, <2>3, <2>4 DEF TapNext
<1> QED
  BY <1>1, <1>2, PTL DEF TapSpec

\* Type correctness of a tap.
THEOREM TapTyped == TapSpec => []TapTypeOK
<1>1. TapInit => TapTypeOK
  <2> SUFFICES ASSUME TapInit PROVE TapTypeOK
    OBVIOUS
  <2>1. bound \in Seq(DataPoints)
    BY OrdersInjective DEF TapInit
  <2>2. pos \in 0..Len(bound)
    BY <2>1 DEF TapInit
  <2> QED
    BY <2>1, <2>2 DEF TapInit, TapTypeOK
<1>2. FetchInv /\ TapTypeOK /\ [TapNext]_tapVars => TapTypeOK'
  <2> SUFFICES ASSUME FetchInv, TapTypeOK, [TapNext]_tapVars PROVE TapTypeOK'
    OBVIOUS
  <2> USE DEF TapTypeOK
  <2>1. ASSUME Fetching
        PROVE  Current \in DataPoints /\ pos + 1 \in 0..Len(bound)
    BY <2>1, CurrentIsBound
  <2>2. CASE Skip \/ NotThere \/ Crash
    BY <2>1, <2>2 DEF Skip, NotThere, Crash
  <2>3. CASE Resolve
    <3>1. \A e : \A f \in Fills(e) : f \subseteq Name \cup Order \cup Place
      BY DEF Fills
    <3>2. /\ ctx' \subseteq Name \cup Order \cup Place
          /\ \E e \in Finds(Current) : found' = found \cup e
          /\ resolved' = resolved \cup {Current}
          /\ Current \in DataPoints /\ pos' \in 0..Len(bound)
      BY <2>1, <2>3, <3>1 DEF Resolve
    <3>3. \A e \in Finds(Current) :
             e \subseteq {Entity(p) : p \in DataPoints} \cup {"rider_id"}
      BY <3>2 DEF Finds, Entity, DataPoints
    <3> QED
      BY <2>3, <3>2, <3>3 DEF Resolve
  <2>4. CASE Acknowledge \/ Fail \/ UNCHANGED tapVars
    BY <2>4 DEF Acknowledge, Fail, tapVars
  <2> QED
    BY <2>2, <2>3, <2>4 DEF TapNext
<1> QED
  BY <1>1, <1>2, FetchInvHolds, PTL DEF TapSpec

\* In any order of the bindings, a fetcher that had no id although the order
\* found has it was asked before the order; never so in a seeded order.
THEOREM OrderFirst == TapSpec => []OrderFirstSuffices
<1>1. FetchInv => OrderFirstSuffices
  <2> SUFFICES ASSUME FetchInv, "order" \in found, NEW i \in 1..Len(bound), bound[i] \in unasked,
                      bound[i] = "rider_history" => "rider_id" \in found
               PROVE  /\ bound # Bindings[code]
                      /\ \E j \in 1..Len(bound) : i < j /\ bound[j] = "order_full"
    BY DEF OrderFirstSuffices
  <2>1. /\ bound \in Seq(DataPoints) /\ pos \in 0..Len(bound)
        /\ \A k, j \in 1..Len(bound) : bound[k] = bound[j] => k = j
    BY OrdersInjective DEF FetchInv
  <2>2. \A j \in 1..pos : j \in 1..Len(bound)
    BY <2>1
  <2>3. i \in 1..pos
    BY <2>1, <2>2 DEF FetchInv
  <2>4. PICK j \in 1..pos : i < j /\ bound[j] = "order_full"
    BY <2>3 DEF FetchInv
  <2>5. j \in 1..Len(bound) /\ j # 1
    BY <2>2, <2>3, <2>4
  <2> QED
    BY <2>4, <2>5, BindingsSeeded DEF FetchInv
<1> QED
  BY <1>1, FetchInvHolds, PTL

-----------------------------------------------------------------------------
(* The tap on a chip: what the acknowledgement says.                       *)

\* A set of numbers that has a member has a least one: what holds of a number
\* whenever it holds of the smaller ones holds of all.
LEMMA LeastNumber ==
    ASSUME NEW T, T \subseteq Nat, T # {}
    PROVE  \E n \in T : \A m \in T : n <= m
<1>1. PICK n \in T : \A m \in T : ~ (<<m, n>> \in OpToRel(<, Nat))
  BY NatLessThanWellFounded, WFMin
<1>2. \A m \in T : n \in Nat /\ m \in Nat /\ ~(m < n)
  BY <1>1 DEF OpToRel
<1>3. \A m \in T : n <= m
  BY <1>2
<1> QED
  BY <1>3

\* render's loop over a template, up to its m-th sentence.
IsKept(g, t, m) ==
    g = [n \in 0..m |->
            IF n = 0 THEN <<>>
            ELSE IF t[n] \subseteq ctx THEN Append(g[n - 1], t[n]) ELSE g[n - 1]]

\* The loop has a result at every sentence: otherwise there were a first one at
\* which it had none, which its step from the one before would give.
LEMMA LoopRuns == ASSUME NEW t, NEW m \in Nat PROVE \E g : IsKept(g, t, m)
<1> DEFINE Stuck == {n \in Nat : ~ \E g : IsKept(g, t, n)}
<1>1. SUFFICES ASSUME Stuck # {} PROVE FALSE
  OBVIOUS
<1>2. Stuck \subseteq Nat
  OBVIOUS
<1>3. PICK n \in Stuck : \A k \in Stuck : n <= k
  <2> HIDE DEF Stuck
  <2> QED
    BY <1>1, <1>2, LeastNumber
<1>4. n # 0
  <2>1. IsKept([k \in 0..0 |-> <<>>], t, 0)
    BY DEF IsKept
  <2> QED
    BY <2>1
<1>5. n - 1 \in Nat /\ n - 1 \notin Stuck
  BY <1>3, <1>4
<1>6. PICK g : IsKept(g, t, n - 1)
  BY <1>5
<1> DEFINE last == IF t[n] \subseteq ctx THEN Append(g[n - 1], t[n]) ELSE g[n - 1]
           h == [k \in 0..n |-> IF k = n THEN last ELSE g[k]]
<1>7. IsKept(h, t, n)
  <2>1. h[n] = last /\ h[n - 1] = g[n - 1]
    BY <1>3, <1>5
  <2>2. ASSUME NEW k \in 0..n
        PROVE  h[k] = IF k = 0 THEN <<>>
                      ELSE IF t[k] \subseteq ctx THEN Append(h[k - 1], t[k]) ELSE h[k - 1]
    <3>1. CASE k = n
      BY <1>4, <2>1, <3>1
    <3>2. CASE k # n
      <4>1. k \in 0..n - 1 /\ h[k] = g[k] /\ (k # 0 => h[k - 1] = g[k - 1])
        BY <1>3, <3>2
      <4> QED
        BY <1>6, <4>1 DEF IsKept
    <3> QED
      BY <3>1, <3>2
  <2> HIDE DEF last
  <2> QED
    BY <2>2 DEF IsKept
<1> QED
  BY <1>7

\* What is said is sentences of the template whose placeholders are in the context.
LEMMA SpokenFromContext ==
    ASSUME NEW t, NEW S, t \in Seq(S)
    PROVE  /\ Spoken(t) \in Seq(S)
           /\ \A i \in 1..Len(Spoken(t)) : Spoken(t)[i] \subseteq ctx
<1> DEFINE kept == CHOOSE g : IsKept(g, t, Len(t))
           Fine(s) == s \in Seq(S) /\ \A i \in 1..Len(s) : s[i] \subseteq ctx
           Odd == {n \in 0..Len(t) : ~Fine(kept[n])}
<1>1. Spoken(t) = kept[Len(t)]
  BY DEF Spoken, IsKept
<1>2. Len(t) \in Nat /\ \A n \in 1..Len(t) : t[n] \in S
  OBVIOUS
<1>3. IsKept(kept, t, Len(t))
  BY <1>2, LoopRuns
<1>4. /\ kept[0] = <<>>
      /\ \A n \in 1..Len(t) :
           kept[n] = IF t[n] \subseteq ctx THEN Append(kept[n - 1], t[n]) ELSE kept[n - 1]
  <2> HIDE DEF kept
  <2>1. \A n \in 0..Len(t) :
          kept[n] = IF n = 0 THEN <<>>
                    ELSE IF t[n] \subseteq ctx THEN Append(kept[n - 1], t[n]) ELSE kept[n - 1]
    BY <1>3, Zenon DEF IsKept
  <2> QED
    BY <1>2, <2>1
<1>5. ASSUME NEW s, Fine(s), NEW e \in S, e \subseteq ctx
      PROVE  Fine(Append(s, e))
  BY <1>5
<1>6. Fine(<<>>)
  OBVIOUS
<1> HIDE DEF kept, Fine
<1>7. Odd = {}
  <2>1. SUFFICES ASSUME Odd # {} PROVE FALSE
    OBVIOUS
  <2>2. Odd \subseteq Nat
    BY <1>2
  <2>3. PICK n \in Odd : \A k \in Odd : n <= k
    <3> HIDE DEF Odd
    <3> QED
      BY <2>1, <2>2, LeastNumber
  <2>4. n \in 1..Len(t)
    BY <1>2, <1>4, <1>6, <2>3
  <2>5. n - 1 \in 0..Len(t) /\ n - 1 \notin Odd
    BY <1>2, <2>2, <2>3, <2>4
  <2>6. Fine(kept[n - 1])
    BY <2>5
  <2> QED
    BY <1>2, <1>4, <1>5, <2>3, <2>4, <2>6
<1>8. Fine(Spoken(t))
  BY <1>1, <1>2, <1>7
<1> QED
  BY <1>8 DEF Fine

\* The seeded templates are sequences of sentences.
LEMMA TemplatesSeeded ==
    ASSUME NEW c \in Codes, NEW t \in Templates[c]
    PROVE  t \in Seq(SUBSET (Name \cup Order \cup Place))
<1> DEFINE Sentences == {Name, Place, Order, Order \cup Place, {}}
<1>1. c \in {"missing_item", "wrong_order", "cold_food", "never_arrived", "rider_late",
             "rider_rude", "rider_demanded_tip", "double_charge", "promo_failed",
             "human_request", "other"}
  BY DEF Codes, Bindings
<1>2. \E a, b \in Sentences : t = <<a>> \/ t = <<a, b>>
  BY <1>1 DEF Templates
<1>3. t \in Seq(Sentences)
  <2> HIDE DEF Sentences
  <2>1. \A a, b \in Sentences : <<a>> \in Seq(Sentences) /\ <<a, b>> \in Seq(Sentences)
    OBVIOUS
  <2> QED
    BY <1>2, <2>1
<1>4. Sentences \subseteq SUBSET (Name \cup Order \cup Place)
  OBVIOUS
<1> QED
  BY <1>3, <1>4

\* The context is filled by resolved data points, and the acknowledgement, once
\* there is one, is spoken from it.
AckInv ==
    /\ ContextInv
    /\ phase = "said" =>
          \/ ack \in {GotIt, OnIt}
          \/ /\ ack # <<>> /\ ack \in Seq(SUBSET (Name \cup Order \cup Place))
             /\ \A i \in 1..Len(ack) : ack[i] \subseteq ctx

\* It holds at every step.
LEMMA AckInvHolds == TapSpec => []AckInv
<1>1. TapInit => AckInv
  BY DEF TapInit, AckInv, ContextInv
<1>2. FetchInv /\ AckInv /\ [TapNext]_tapVars => AckInv'
  <2> SUFFICES ASSUME FetchInv, AckInv, [TapNext]_tapVars PROVE AckInv'
    OBVIOUS
  <2>1. CASE Resolve
    <3>1. /\ phase' = "fetch" /\ resolved' = resolved \cup {Current}
          /\ \E f \in Fills(Entity(Current)) : ctx' = ctx \cup f
      BY <2>1 DEF Resolve, Fetching
    <3> QED
      BY <3>1 DEF AckInv, ContextInv
  <2>2. CASE Acknowledge
    <3>1. /\ ctx' = ctx /\ resolved' = resolved
          /\ \E T \in SUBSET Templates[code] : ack' \in Acks(T)
      BY <2>2 DEF Acknowledge
    <3>2. \/ ack' \in {GotIt, OnIt}
          \/ \E t \in Templates[code] : ack' = Spoken(t) /\ Spoken(t) # <<>>
      BY <3>1 DEF Acks
    <3>3. ContextInv'
      BY <3>1 DEF AckInv, ContextInv
    <3>4. CASE \E t \in Templates[code] : ack' = Spoken(t) /\ Spoken(t) # <<>>
      <4>1. PICK t \in Templates[code] : ack' = Spoken(t) /\ Spoken(t) # <<>>
        BY <3>4
      <4>2. t \in Seq(SUBSET (Name \cup Order \cup Place))
        BY TemplatesSeeded DEF FetchInv
      <4> QED
        BY <3>1, <3>3, <4>1, <4>2, SpokenFromContext DEF AckInv
    <3> QED
      BY <3>2, <3>3, <3>4 DEF AckInv
  <2>3. CASE Skip \/ NotThere \/ Crash \/ Fail \/ UNCHANGED tapVars
    BY <2>3 DEF Skip, NotThere, Crash, Fail, tapVars, AckInv, ContextInv
  <2> QED
    BY <2>1, <2>2, <2>3 DEF TapNext
<1> QED
  BY <1>1, <1>2, FetchInvHolds, PTL DEF TapSpec

\* The acknowledgement is never empty and never says what no fetcher found.
THEOREM AckIsTrue == TapSpec => []AckIsSpokenFromContext
<1>1. AckInv => AckIsSpokenFromContext
  <2> SUFFICES ASSUME AckInv, phase = "said", ack \notin {GotIt, OnIt},
                      NEW i \in 1..Len(ack), NEW v \in ack[i]
               PROVE  \E p \in resolved : \E f \in Fills(Entity(p)) : v \in f /\ v \in ctx
    BY DEF AckInv, AckIsSpokenFromContext
  <2>1. v \in ctx
    BY DEF AckInv
  <2> QED
    BY <2>1 DEF AckInv, ContextInv
<1> QED
  BY <1>1, AckInvHolds, PTL
=============================================================================
