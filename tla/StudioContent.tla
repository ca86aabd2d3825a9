---------------------------- MODULE StudioContent ----------------------------
(***************************************************************************)
(* The content behind the chips of the chat: business units (a tree by     *)
(* parent_id), issue types, their bindings to data points and their        *)
(* templates, as the admin routes change them                              *)
(* (app/conversation_studio/admin_routes.py), and the chip tap that stores *)
(* an issue type and its unit in a session (routes.py, select_issue).      *)
(*                                                                         *)
(* A request is one READ COMMITTED transaction.  Its flush waits for rows  *)
(* that others have locked and its constraints are checked there, so a     *)
(* write and its commit are one step, apart from the steps that read.  An  *)
(* id is a UUID: one that is gone never comes back.                        *)
(***************************************************************************)
EXTENDS Naturals

CONSTANTS
    Units,        \* ids of business units
    Issues,       \* ids of issue types
    Points,       \* rows of data_point_registry, which no route changes
    Texts,        \* templates of one issue type
    Sessions,     \* chat sessions
    Workers,      \* threads that serve requests
    SeedUnits,    \* what the migration has inserted
    SeedIssues,
    SeedOf,       \* the seeded issue types' units
    MaxRequests,  \* bound on the requests of a behaviour
    None

ASSUME SeedsAreIds == SeedUnits \subseteq Units /\ SeedIssues \subseteq Issues
ASSUME SeedsHaveUnits == SeedOf \in [SeedIssues -> SeedUnits]
ASSUME MaxRequestsNat == MaxRequests \in Nat
ASSUME NoneIsNoId == None \notin Units \cup Issues \cup Sessions

VARIABLES
    units,        \* committed business units
    parent,       \* their parent_id
    issues,       \* committed issue types
    unitOf,       \* their business_unit_id
    hidden,       \* those with is_active = false
    links,        \* data points bound to each issue type
    acks,         \* active templates of each issue type
    sessions,     \* issue_type_id and business_unit_id of each session
    spent,        \* history: ids that have been used
    moved,        \* history: issue types whose unit was changed
    torn,         \* history: sessions last written from an old copy
    work,         \* the transaction of each thread
    requests      \* number of requests so far, for the bound

rows == <<units, parent, issues, unitOf, hidden, links, acks>>
vars == <<rows, sessions, spent, moved, torn, work, requests>>

Pointers == [issue : Issues \cup {None}, unit : Units \cup {None}]
NoPointers == [issue |-> None, unit |-> None]

Steps == {"idle", "deleting", "putting", "wiped", "tapping"}

Transaction ==
    [step : Steps, unit : Units \cup {None}, issue : Issues \cup {None},
     session : Sessions \cup {None}, was : Pointers, body : SUBSET Points,
     seen : SUBSET Points, gone : SUBSET Points, since : SUBSET Points,
     late : SUBSET Issues, missed : BOOLEAN]

Idle == [step |-> "idle", unit |-> None, issue |-> None, session |-> None,
         was |-> NoPointers, body |-> {}, seen |-> {}, gone |-> {}, since |-> {},
         late |-> {}, missed |-> FALSE]

Init ==
    /\ units = SeedUnits
    /\ parent = [u \in Units |-> None]
    /\ issues = SeedIssues
    /\ unitOf = [i \in Issues |-> IF i \in SeedIssues THEN SeedOf[i] ELSE None]
    /\ hidden = {}
    /\ links = [i \in Issues |-> IF i \in SeedIssues THEN Points ELSE {}]
    /\ acks = [i \in Issues |-> IF i \in SeedIssues THEN Texts ELSE {}]
    /\ sessions = [s \in Sessions |-> NoPointers]
    /\ spent = SeedUnits \cup SeedIssues
    /\ moved = {}
    /\ torn = {}
    /\ work = [r \in Workers |-> Idle]
    /\ requests = 0

\* A request arrives.
Request ==
    /\ requests < MaxRequests
    /\ requests' = requests + 1

\* Thread r answers and is free again.
Ends(r) == work' = [work EXCEPT ![r] = Idle]

\* The bindings of issue type i of which some transaction holds the row lock.
Locked(i) == UNION {work[r].gone : r \in {q \in Workers : work[q].issue = i}}

-----------------------------------------------------------------------------
(* Business units.                                                         *)

\* create_business_unit; a parent that does not exist is refused (409).
CreateUnit(u, p) ==
    /\ Request
    /\ u \notin spent
    /\ p \in units \cup {None}
    /\ units' = units \cup {u}
    /\ parent' = [parent EXCEPT ![u] = p]
    /\ spent' = spent \cup {u}
    /\ UNCHANGED <<issues, unitOf, hidden, links, acks, sessions, moved, torn, work>>

\* update_business_unit sets whatever parent exists, its own subtree included.
UpdateUnit(u, p) ==
    /\ Request
    /\ u \in units
    /\ p \in units \cup {None}
    /\ parent' = [parent EXCEPT ![u] = p]
    /\ UNCHANGED <<units, issues, unitOf, hidden, links, acks,
                   sessions, spent, moved, torn, work>>

\* Mutated form: the unit is deleted without the count.
DeleteUnitUncounted(r, u) ==
    /\ Request
    /\ work[r].step = "idle"
    /\ u \in units
    /\ work' = [work EXCEPT ![r] = [Idle EXCEPT !.step = "deleting", !.unit = u]]
    /\ UNCHANGED <<rows, sessions, spent, moved, torn>>

\* delete_business_unit: it is refused (409) while the unit has issue types.
\* Those of the units below it are not counted.
DeleteUnitCount(r, u) ==
    /\ Request
    /\ work[r].step = "idle"
    /\ u \in units
    /\ \A i \in issues : unitOf[i] # u
    /\ work' = [work EXCEPT ![r] = [Idle EXCEPT !.step = "deleting", !.unit = u]]
    /\ UNCHANGED <<rows, sessions, spent, moved, torn>>

\* Mutated form: only the unit itself and its children.
Children(u) == {v \in units : v = u \/ parent[v] = u}

\* The unit and the units under it, however deep and also on a cycle.
Below(u) ==
    {v \in units :
        \A S \in SUBSET units :
            u \in S /\ (\A c \in units : parent[c] \in S => c \in S) => v \in S}

\* The foreign keys of the schema: ON DELETE CASCADE for the units below and
\* for their issue types with bindings and templates, SET NULL in sessions.
Cascade(U, I) ==
    /\ units' = units \ U
    /\ parent' = [v \in Units |-> IF v \in U THEN None ELSE parent[v]]
    /\ issues' = issues \ I
    /\ unitOf' = [i \in Issues |-> IF i \in I THEN None ELSE unitOf[i]]
    /\ hidden' = hidden \ I
    /\ links' = [i \in Issues |-> IF i \in I THEN {} ELSE links[i]]
    /\ acks' = [i \in Issues |-> IF i \in I THEN {} ELSE acks[i]]
    /\ sessions' = [s \in Sessions |->
          [issue |-> IF sessions[s].issue \in I THEN None ELSE sessions[s].issue,
           unit |-> IF sessions[s].unit \in U THEN None ELSE sessions[s].unit]]

\* The DELETE.  A unit that is gone by now is only a warning of the ORM.
DeleteUnitCommit(r) ==
    LET U == Below(work[r].unit) \cap units
        I == {i \in issues : unitOf[i] \in U}
    IN /\ work[r].step = "deleting"
       /\ \A i \in I : Locked(i) = {}
       /\ IF work[r].unit \in units THEN Cascade(U, I) ELSE UNCHANGED <<rows, sessions>>
       /\ Ends(r)
       /\ UNCHANGED <<spent, moved, torn, requests>>

-----------------------------------------------------------------------------
(* Issue types and templates.                                              *)

\* Issue type i is now in unit u: a delete that has counted u missed it.
Placed(i, u) ==
    /\ unitOf' = [unitOf EXCEPT ![i] = u]
    /\ work' = [r \in Workers |->
          IF work[r].step = "deleting" THEN [work[r] EXCEPT !.late = @ \cup {i}]
                                       ELSE work[r]]

CreateIssue(i, u) ==
    /\ Request
    /\ i \notin spent
    /\ u \in units
    /\ issues' = issues \cup {i}
    /\ spent' = spent \cup {i}
    /\ Placed(i, u)
    /\ UNCHANGED <<units, parent, hidden, links, acks, sessions, moved, torn>>

\* update_issue_type: the unit, or is_active.
MoveIssue(i, u) ==
    /\ Request
    /\ i \in issues
    /\ u \in units \ {unitOf[i]}
    /\ moved' = moved \cup {i}
    /\ Placed(i, u)
    /\ UNCHANGED <<units, parent, issues, hidden, links, acks, sessions, spent, torn>>

SetActive(i) ==
    /\ Request
    /\ i \in issues
    /\ hidden' = IF i \in hidden THEN hidden \ {i} ELSE hidden \cup {i}
    /\ UNCHANGED <<units, parent, issues, unitOf, links, acks,
                   sessions, spent, moved, torn, work>>

DeleteIssue(i) ==
    /\ Request
    /\ i \in issues
    /\ Locked(i) = {}
    /\ Cascade({}, {i})
    /\ UNCHANGED <<spent, moved, torn, work>>

\* create_template, delete_template, and update_template with is_active.
EditTemplates(i, t) ==
    /\ Request
    /\ i \in issues
    /\ acks' = [acks EXCEPT ![i] = IF t \in @ THEN @ \ {t} ELSE @ \cup {t}]
    /\ UNCHANGED <<units, parent, issues, unitOf, hidden, links,
                   sessions, spent, moved, torn, work>>

-----------------------------------------------------------------------------
(* replace_data_point_bindings.                                            *)

PutLoad(r, i, B) ==
    /\ Request
    /\ work[r].step = "idle"
    /\ i \in issues
    /\ work' = [work EXCEPT ![r] =
          [Idle EXCEPT !.step = "putting", !.issue = i, !.body = B, !.seen = links[i]]]
    /\ UNCHANGED <<rows, sessions, spent, moved, torn>>

\* Mutated form: only the bindings that the body names are wiped.
PutWipeNamed(r) ==
    LET w == work[r]
    IN /\ w.step = "putting"
       /\ w.seen \cap Locked(w.issue) = {}
       /\ work' = [work EXCEPT ![r].step = "wiped",
                               ![r].gone = w.body \cap links[w.issue]]
       /\ UNCHANGED <<rows, sessions, spent, moved, torn, requests>>

\* The flush after the deletes: rows that are gone by now are only a warning.
PutWipe(r) ==
    LET w == work[r]
    IN /\ w.step = "putting"
       /\ w.seen \cap Locked(w.issue) = {}
       /\ work' = [work EXCEPT ![r].step = "wiped",
                               ![r].gone = w.seen \cap links[w.issue]]
       /\ UNCHANGED <<rows, sessions, spent, moved, torn, requests>>

\* The inserts.  They fail with the issue type gone or a binding in place.
PutCommit(r) ==
    LET w == work[r]
        left == links[w.issue] \ w.gone
    IN /\ w.step = "wiped"
       /\ w.issue \in issues
       /\ w.body \cap left = {}
       /\ links' = [links EXCEPT ![w.issue] = left \cup w.body]
       /\ work' = [q \in Workers |->
             IF q = r THEN Idle
             ELSE IF work[q].issue = w.issue
                  THEN [work[q] EXCEPT !.since = @ \cup w.body] ELSE work[q]]
       /\ UNCHANGED <<units, parent, issues, unitOf, hidden, acks,
                      sessions, spent, moved, torn, requests>>

-----------------------------------------------------------------------------
(* select_issue.                                                           *)

TapLoad(r, s, i) ==
    /\ Request
    /\ work[r].step = "idle"
    /\ i \in issues \ hidden
    /\ work' = [work EXCEPT ![r] =
          [Idle EXCEPT !.step = "tapping", !.session = s, !.issue = i,
                       !.unit = unitOf[i], !.was = sessions[s]]]
    /\ UNCHANGED <<rows, sessions, spent, moved, torn>>

\* Mutated form: the session keeps the unit of its first tap.
TapKeepsUnit(w) ==
    [issue |-> IF w.issue # w.was.issue THEN w.issue ELSE sessions[w.session].issue,
     unit |-> IF w.was.unit = None THEN w.unit ELSE sessions[w.session].unit]

\* The UPDATE names the columns that differ from the copy; a key that is
\* written has to exist.
TapWrites(w) ==
    [issue |-> IF w.issue # w.was.issue THEN w.issue ELSE sessions[w.session].issue,
     unit |-> IF w.unit # w.was.unit THEN w.unit ELSE sessions[w.session].unit]

TapCommit(r) ==
    LET w == work[r]
    IN /\ w.step = "tapping"
       /\ TapWrites(w).issue \in issues \cup {None}
       /\ TapWrites(w).unit \in units \cup {None}
       /\ sessions' = [sessions EXCEPT ![w.session] = TapWrites(w)]
       /\ torn' = IF w.missed THEN torn \cup {w.session} ELSE torn \ {w.session}
       /\ work' = [q \in Workers |->
             IF q = r THEN Idle
             ELSE IF work[q].session = w.session
                  THEN [work[q] EXCEPT !.missed = TRUE] ELSE work[q]]
       /\ UNCHANGED <<rows, spent, moved, requests>>

\* A constraint, a database error, a deadlock or a lost connection.
Rollback(r) ==
    /\ work[r].step # "idle"
    /\ Ends(r)
    /\ UNCHANGED <<rows, sessions, spent, moved, torn, requests>>

-----------------------------------------------------------------------------
Edit ==
    \/ \E u \in Units, p \in Units \cup {None} : CreateUnit(u, p) \/ UpdateUnit(u, p)
    \/ \E i \in Issues, u \in Units : CreateIssue(i, u) \/ MoveIssue(i, u)
    \/ \E i \in Issues : SetActive(i) \/ DeleteIssue(i)
    \/ \E i \in Issues, t \in Texts : EditTemplates(i, t)

Serve(r) ==
    \/ \E u \in Units : DeleteUnitCount(r, u)
    \/ DeleteUnitCommit(r)
    \/ \E i \in Issues, B \in SUBSET Points : PutLoad(r, i, B)
    \/ PutWipe(r)
    \/ PutCommit(r)
    \/ \E s \in Sessions, i \in Issues : TapLoad(r, s, i)
    \/ TapCommit(r)
    \/ Rollback(r)

Next == Edit \/ (\E r \in Workers : Serve(r))

Spec == Init /\ [][Next]_vars

-----------------------------------------------------------------------------
(* Properties.                                                             *)

TypeOK ==
    /\ units \in SUBSET Units
    /\ parent \in [Units -> Units \cup {None}]
    /\ issues \in SUBSET Issues
    /\ unitOf \in [Issues -> Units \cup {None}]
    /\ hidden \in SUBSET Issues
    /\ links \in [Issues -> SUBSET Points]
    /\ acks \in [Issues -> SUBSET Texts]
    /\ sessions \in [Sessions -> Pointers]
    /\ spent \in SUBSET (Units \cup Issues)
    /\ moved \in SUBSET Issues
    /\ torn \in SUBSET Sessions
    /\ work \in [Workers -> Transaction]
    /\ requests \in Nat

\* Whatever is deleted meanwhile, every key refers to a row that is there:
\* parents, units of issue types, what a session points to, and bindings and
\* templates belong to an issue type that exists.
ReferencesResolve ==
    /\ \A u \in units : parent[u] \in units \cup {None}
    /\ \A i \in issues : unitOf[i] \in units
    /\ \A s \in Sessions : /\ sessions[s].issue \in issues \cup {None}
                           /\ sessions[s].unit \in units \cup {None}
    /\ \A i \in Issues \ issues : links[i] = {} /\ acks[i] = {}

\* delete_business_unit promises not to cascade silently to issue types.  An
\* issue type that goes with a unit was either placed after the count, or it
\* was in another unit below the deleted one, which nobody counted.
CascadeTakesNoCountedIssue ==
    [][\A i \in issues :
          i \notin issues' /\ unitOf[i] \notin units' =>
              \E r \in Workers :
                  /\ work[r].step = "deleting" /\ work'[r].step = "idle"
                  /\ work[r].unit # unitOf[i] \/ i \in work[r].late]_vars

\* A PUT replaces the whole set of bindings: what its wipe leaves beside the
\* body was bound by another PUT after this one had read the old set.
OnlyOverlapsMerge ==
    \A r \in Workers :
        work[r].step = "wiped" =>
            links[work[r].issue] \ work[r].gone \subseteq work[r].since

\* The issue type and the unit of a session belong together, unless the issue
\* type was moved or the last tap wrote from an old copy of the session.
PointersAgree ==
    \A s \in Sessions \ torn :
        sessions[s].issue \notin moved \cup {None} =>
            sessions[s].unit = unitOf[sessions[s].issue]
=============================================================================
