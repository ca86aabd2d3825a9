-------------------------- MODULE AdminTableProofs --------------------------
(***************************************************************************)
(* Proofs about the tables that admins write: module grants (ModuleGrants),*)
(* for any sets of users, modules, admins and threads; then the idiom      *)
(* library (IdiomCache), for any sets of admin requests and translation    *)
(* threads and any size of the connection pool.  Of the library, first     *)
(* mutual exclusion of the loaders, then what a library may lack from its  *)
(* query to the step that publishes it.                                    *)
(***************************************************************************)
EXTENDS ModuleGrants, IdiomCache, TLAPS

\* The steps of a grant and of a revocation, which know their row.
Granting == {"granting", "granted"}
Revoking == {"revoking", "revoked"}

\* What the fields of a transaction hold once they are used.
FieldsOK ==
    \A r \in Workers :
        LET w == work[r]
        IN  /\ w.step = "signing" => w.user \in Users
            /\ w.step \in Granting \cup Revoking => w.user \in Users /\ w.module \in Modules
            /\ w.step \in Granting => w.actor \in Admins /\ w.level \in Levels

\* Who signs up is not yet a user, who is granted or revoked something is one,
\* and nobody else has a row.
UsersApart ==
    /\ \A r \in Workers : work[r].step = "signing" => work[r].user \notin users
    /\ \A r \in Workers : work[r].step \in Granting \cup Revoking => work[r].user \in users
    /\ \A u \in Users \ users : \A m \in Modules : access[u][m] = NoRow

\* Two signups do not wait on one email.
SignersDiffer ==
    \A r, q \in Workers :
        work[r].step = "signing" /\ work[q].step = "signing" /\ work[r].user = work[q].user
            => r = q

\* A grant that missed nothing knows the row as it is.
CopiesFresh ==
    \A r \in Workers :
        work[r].step \in Granting /\ ~work[r].missed =>
            work[r].seen = access[work[r].user][work[r].module]

GInv == TypeOK /\ FieldsOK /\ UsersApart /\ SignersDiffer /\ CopiesFresh

LEMMA RowsTyped ==
  /\ NoRow \in Row /\ NoRow.level = 0
  /\ [level |-> View, by |-> None] \in Row
  /\ \A l \in Levels, a \in Admins \cup {None} : [level |-> l, by |-> a] \in Row
  /\ \A row \in Row : row.level \in {0} \cup Levels /\ row.by \in Admins \cup {None}
  BY DEF NoRow, Row, Levels, View

LEMMA IdleTyped == Idle \in Transaction /\ Idle.step = "idle" /\ Idle.user = None
  BY RowsTyped DEF Idle, Transaction, Steps

\* The initial state satisfies the invariant.
LEMMA InitOK == Init => GInv
  <1> SUFFICES ASSUME Init PROVE GInv
    OBVIOUS
  <1>1. TypeOK BY RowsTyped, IdleTyped DEF Init, TypeOK
  <1>2. \A r \in Workers : work[r] = Idle BY DEF Init
  <1>3. FieldsOK /\ SignersDiffer /\ CopiesFresh
    BY <1>2, IdleTyped DEF FieldsOK, SignersDiffer, CopiesFresh, Granting, Revoking
  <1>4. UsersApart BY <1>2, IdleTyped DEF Init, UsersApart, Granting, Revoking
  <1> QED BY <1>1, <1>3, <1>4 DEF GInv

\* A thread that changes its own transaction only, to one that fits the rows.
LEMMA WorkOnly ==
  ASSUME GInv, NEW r \in Workers, NEW t \in Transaction,
         work' = [work EXCEPT ![r] = t],
         UNCHANGED <<users, access, given, stale>>, modules' \in SUBSET Modules,
         t.step = "signing" =>
             /\ t.user \in Users \ users
             /\ \A q \in Workers \ {r} : ~(work[q].step = "signing" /\ work[q].user = t.user),
         t.step \in Granting \cup Revoking => t.user \in users /\ t.module \in Modules,
         t.step \in Granting => t.actor \in Admins /\ t.level \in Levels,
         t.step \in Granting /\ ~t.missed => t.seen = access[t.user][t.module]
  PROVE  GInv'
  <1> USE DEF GInv
  <1>1. work \in [Workers -> Transaction] /\ users \in SUBSET Users
    BY DEF TypeOK
  <1>2. \A q \in Workers : work'[q] = IF q = r THEN t ELSE work[q] BY <1>1
  <1>3. TypeOK' BY <1>1 DEF TypeOK
  <1>4. FieldsOK' BY <1>1, <1>2 DEF FieldsOK
  <1>5. UsersApart' BY <1>1, <1>2 DEF UsersApart
  <1>6. SignersDiffer' BY <1>1, <1>2 DEF SignersDiffer
  <1>7. CopiesFresh' BY <1>1, <1>2 DEF CopiesFresh
  <1> QED BY <1>3, <1>4, <1>5, <1>6, <1>7

\* A transaction that ends without a write.
LEMMA RefusedOK ==
  ASSUME GInv, NEW r \in Workers, Refused(r)
  PROVE  GInv'
  <1>1. work' = [work EXCEPT ![r] = Idle] /\ UNCHANGED <<users, modules, access, given, stale>>
    BY DEF Refused
  <1>2. modules' \in SUBSET Modules BY <1>1 DEF GInv, TypeOK
  <1>3. Idle.step \notin Granting \cup Revoking /\ Idle.step # "signing"
    BY IdleTyped DEF Granting, Revoking
  <1> QED BY <1>1, <1>2, <1>3, IdleTyped, WorkOnly

\* A write of one pair: whoever else is at work on it has missed it.
LEMMA WriteOK ==
  ASSUME GInv, NEW r \in Workers, NEW row \in Row, NEW S \in SUBSET ((Admins \cup {None}) \X Levels),
         work[r].step \in Granting \cup Revoking,
         access' = [access EXCEPT ![work[r].user][work[r].module] = row],
         given' = [given EXCEPT ![work[r].user][work[r].module] = S],
         work' = Ended(r, work[r].user, work[r].module),
         stale' \in SUBSET (Users \X Modules),
         UNCHANGED <<users, modules>>
  PROVE  GInv'
  <1> DEFINE u == work[r].user
             m == work[r].module
  <1>1. u \in Users /\ m \in Modules /\ u \in users
    BY DEF GInv, FieldsOK, UsersApart
  <1>2. /\ work \in [Workers -> Transaction] /\ access \in [Users -> [Modules -> Row]]
        /\ given \in [Users -> [Modules -> SUBSET ((Admins \cup {None}) \X Levels)]]
        /\ users \in SUBSET Users
    BY DEF GInv, TypeOK
  <1> HIDE DEF u, m
  <1>3. \A q \in Workers : work'[q] =
            IF q = r THEN Idle
            ELSE IF work[q].user = u /\ work[q].module = m THEN [work[q] EXCEPT !.missed = TRUE]
            ELSE work[q]
    BY DEF Ended, u, m
  <1>4. \A q \in Workers : work'[q] \in Transaction
    <2>1. \A t \in Transaction : [t EXCEPT !.missed = TRUE] \in Transaction BY DEF Transaction
    <2> QED BY <1>2, <1>3, <2>1, IdleTyped
  <1>5. \A q \in Workers \ {r} :
            /\ work'[q].step = work[q].step /\ work'[q].user = work[q].user
            /\ work'[q].module = work[q].module /\ work'[q].level = work[q].level
            /\ work'[q].actor = work[q].actor /\ work'[q].seen = work[q].seen
            /\ ~work'[q].missed => ~work[q].missed /\ ~(work[q].user = u /\ work[q].module = m)
    BY <1>2, <1>3 DEF Transaction
  <1>6. work'[r] = Idle /\ Idle.step \notin Granting \cup Revoking \cup {"signing"}
    BY <1>3, IdleTyped DEF Granting, Revoking
  <1>7. \A v \in Users, n \in Modules : access'[v][n] = IF v = u /\ n = m THEN row ELSE access[v][n]
    BY <1>1, <1>2 DEF u, m
  <1>8. TypeOK'
    <2>1. access' \in [Users -> [Modules -> Row]] BY <1>1, <1>2 DEF u, m
    <2>2. given' \in [Users -> [Modules -> SUBSET ((Admins \cup {None}) \X Levels)]]
      BY <1>1, <1>2 DEF u, m
    <2>3. work' \in [Workers -> Transaction] BY <1>4 DEF Ended
    <2> QED BY <2>1, <2>2, <2>3 DEF GInv, TypeOK
  <1>9. FieldsOK' BY <1>5, <1>6 DEF GInv, FieldsOK
  <1>10. UsersApart'
    <2>1. \A q \in Workers : work'[q].step = "signing" => work'[q].user \notin users
      BY <1>5, <1>6 DEF GInv, UsersApart
    <2>2. \A q \in Workers : work'[q].step \in Granting \cup Revoking => work'[q].user \in users
      BY <1>5, <1>6 DEF GInv, UsersApart
    <2>3. \A v \in Users \ users : \A n \in Modules : access'[v][n] = NoRow
      BY <1>1, <1>7 DEF GInv, UsersApart
    <2> QED BY <2>1, <2>2, <2>3 DEF UsersApart
  <1>11. SignersDiffer' BY <1>5, <1>6 DEF GInv, SignersDiffer
  <1>12. CopiesFresh'
    <2> SUFFICES ASSUME NEW q \in Workers, work'[q].step \in Granting, ~work'[q].missed
                 PROVE  work'[q].seen = access'[work'[q].user][work'[q].module]
      BY DEF CopiesFresh
    <2>1. q # r BY <1>6
    <2>2. work[q].user \in Users /\ work[q].module \in Modules /\ work[q].step \in Granting
      BY <1>5, <2>1 DEF GInv, FieldsOK
    <2>3. work[q].seen = access[work[q].user][work[q].module]
      BY <1>5, <2>1, <2>2 DEF GInv, CopiesFresh
    <2> QED BY <1>5, <1>7, <2>1, <2>2, <2>3
  <1> QED BY <1>8, <1>9, <1>10, <1>11, <1>12 DEF GInv

\* A signup that commits.
LEMMA SignupOK ==
  ASSUME GInv, NEW r \in Workers, SignupCommit(r)
  PROVE  GInv'
  <1> DEFINE u == work[r].user
             got == work[r].got
  <1> USE DEF GInv
  <1>1. work[r].step = "signing" /\ u \in Users /\ u \notin users
    BY DEF SignupCommit, FieldsOK, UsersApart
  <1>2. /\ work \in [Workers -> Transaction] /\ access \in [Users -> [Modules -> Row]]
        /\ given \in [Users -> [Modules -> SUBSET ((Admins \cup {None}) \X Levels)]]
        /\ users \in SUBSET Users
    BY DEF TypeOK
  <1>3. \A q \in Workers : work'[q] = IF q = r THEN Idle ELSE work[q]
    BY <1>2 DEF SignupCommit
  <1>4. /\ access' = [access EXCEPT ![u] =
               [m \in Modules |-> IF m \in got THEN [level |-> View, by |-> None] ELSE access[u][m]]]
        /\ given' = [given EXCEPT ![u] =
               [m \in Modules |-> IF m \in got THEN {<<None, View>>} ELSE given[u][m]]]
    BY <1>1, <1>2 DEF SignupCommit
  <1> HIDE DEF u, got
  <1>5. TypeOK'
    <2>1. access' \in [Users -> [Modules -> Row]] BY <1>1, <1>2, <1>4, RowsTyped
    <2>2. {<<None, View>>} \in SUBSET ((Admins \cup {None}) \X Levels) BY DEF View, Levels
    <2>3. given' \in [Users -> [Modules -> SUBSET ((Admins \cup {None}) \X Levels)]]
      BY <1>1, <1>2, <1>4, <2>2
    <2>4. users' \in SUBSET Users BY <1>1, <1>2 DEF SignupCommit, u
    <2>5. work' \in [Workers -> Transaction] BY <1>2, IdleTyped DEF SignupCommit
    <2> QED BY <2>1, <2>3, <2>4, <2>5 DEF TypeOK, SignupCommit
  <1>6. Idle.step \notin Granting \cup Revoking \cup {"signing"}
    BY IdleTyped DEF Granting, Revoking
  <1>7. FieldsOK' BY <1>3, <1>6 DEF FieldsOK
  <1>8. SignersDiffer' BY <1>3, <1>6 DEF SignersDiffer
  <1>9. users' = users \cup {u} BY DEF SignupCommit, u
  <1>10. UsersApart'
    <2>1. \A q \in Workers \ {r} : work[q].step = "signing" => work[q].user # u
      BY <1>1 DEF SignersDiffer, u
    <2>2. \A v \in Users \ users' : access'[v] = access[v] BY <1>2, <1>4, <1>9
    <2> QED BY <1>3, <1>6, <1>9, <2>1, <2>2 DEF UsersApart
  <1>11. CopiesFresh'
    <2> SUFFICES ASSUME NEW q \in Workers, work'[q].step \in Granting, ~work'[q].missed
                 PROVE  work'[q].seen = access'[work'[q].user][work'[q].module]
      BY DEF CopiesFresh
    <2>1. q # r /\ work'[q] = work[q] BY <1>3, <1>6
    <2>2. work[q].user \in users BY <2>1 DEF UsersApart
    <2>3. access'[work[q].user] = access[work[q].user] BY <1>1, <1>2, <1>4, <2>2
    <2> QED BY <2>1, <2>3 DEF CopiesFresh
  <1> QED BY <1>5, <1>7, <1>8, <1>10, <1>11

\* What a grant that commits writes.
LEMMA GrantWrites ==
  ASSUME GInv, NEW r \in Workers, GrantCommit(r)
  PROVE  \E row \in Row :
           /\ access' = [access EXCEPT ![work[r].user][work[r].module] = row]
           /\ row.level = work[r].level
           /\ ~work[r].missed => row.by = work[r].actor
  <1> DEFINE w == work[r]
             old == access[w.user][w.module]
  <1>1. /\ w.user \in Users /\ w.module \in Modules /\ w.actor \in Admins /\ w.level \in Levels
        /\ w.step = "granted"
    BY DEF GInv, FieldsOK, GrantCommit, Granting
  <1>2. old \in Row BY <1>1 DEF GInv, TypeOK
  <1>3. CASE Inserts(w)
    <2> DEFINE new == [level |-> w.level, by |-> w.actor]
    <2>1. access' = [access EXCEPT ![w.user][w.module] = new]
      BY <1>3 DEF GrantCommit, Write, Inserts, Updates
    <2>2. new \in Row /\ new.level = w.level /\ new.by = w.actor BY <1>1, RowsTyped
    <2> HIDE DEF new
    <2> QED BY <2>1, <2>2
  <1>4. CASE ~Inserts(w)
    <2>1. access' = [access EXCEPT ![w.user][w.module] = Updated(w, old)]
      BY <1>4 DEF GrantCommit, Write
    <2>2. Updated(w, old) \in Row BY <1>1, <1>2, RowsTyped DEF Updated
    <2>3. ~w.missed => w.seen = old BY <1>1 DEF GInv, CopiesFresh, Granting
    <2>4. Updated(w, old).level = w.level /\ (~w.missed => Updated(w, old).by = w.actor)
      BY <2>3 DEF Updated
    <2> DEFINE new == Updated(w, old)
    <2>5. new \in Row /\ new.level = w.level /\ (~w.missed => new.by = w.actor) BY <2>2, <2>4
    <2>6. access' = [access EXCEPT ![w.user][w.module] = new] BY <2>1
    <2> HIDE DEF new
    <2> QED BY <2>5, <2>6
  <1> QED BY <1>3, <1>4

\* Every step keeps the invariant.
LEMMA StepOK == GInv /\ [Next]_vars => GInv'
  <1> SUFFICES ASSUME GInv, [Next]_vars PROVE GInv'
    OBVIOUS
  <1> USE RowsTyped, IdleTyped
  <1>0. /\ work \in [Workers -> Transaction] /\ access \in [Users -> [Modules -> Row]]
        /\ modules \in SUBSET Modules /\ users \in SUBSET Users /\ stale \in SUBSET (Users \X Modules)
        /\ given \in [Users -> [Modules -> SUBSET ((Admins \cup {None}) \X Levels)]]
    BY DEF GInv, TypeOK
  <1>1. CASE UNCHANGED vars
    BY <1>1 DEF vars, GInv, TypeOK, FieldsOK, UsersApart, SignersDiffer, CopiesFresh
  <1>2. ASSUME NEW m \in Modules, Register(m) PROVE GInv'
    BY <1>2, <1>0 DEF Register, GInv, TypeOK, FieldsOK, UsersApart, SignersDiffer, CopiesFresh
  <1>3. ASSUME NEW r \in Workers, Serve(r) PROVE GInv'
    <2>1. CASE \E u \in Users : SignupStart(r, u)
      <3> PICK u \in Users : SignupStart(r, u) BY <2>1
      <3> DEFINE t == [Idle EXCEPT !.step = "signing", !.user = u, !.todo = Defaults]
      <3>1. t \in Transaction /\ t.step = "signing" /\ t.user = u
        BY DefaultsAreModules DEF Idle, Transaction, Steps
      <3>2. work' = [work EXCEPT ![r] = t] /\ UNCHANGED <<users, modules, access, given, stale>>
        BY DEF SignupStart
      <3>3. u \notin users /\ \A q \in Workers : ~(work[q].step = "signing" /\ work[q].user = u)
        BY DEF SignupStart
      <3> HIDE DEF t
      <3> QED BY <1>0, <3>1, <3>2, <3>3, WorkOnly DEF Granting, Revoking
    <2>2. CASE \E m \in Modules : SignupDefault(r, m)
      <3> PICK m \in Modules : SignupDefault(r, m) BY <2>2
      <3> DEFINE t == [work[r] EXCEPT !.todo = @ \ {m}, !.got = IF m \in modules THEN @ \cup {m} ELSE @]
      <3>1. t \in Transaction /\ t.step = "signing" /\ t.user = work[r].user
        BY <1>0 DEF SignupDefault, Transaction
      <3>2. work' = [work EXCEPT ![r] = t] /\ UNCHANGED <<users, modules, access, given, stale>>
        BY <1>0 DEF SignupDefault
      <3>3. /\ work[r].user \in Users \ users
            /\ \A q \in Workers \ {r} : ~(work[q].step = "signing" /\ work[q].user = work[r].user)
        BY DEF SignupDefault, GInv, FieldsOK, UsersApart, SignersDiffer
      <3> HIDE DEF t
      <3> QED BY <1>0, <3>1, <3>2, <3>3, WorkOnly DEF Granting, Revoking
    <2>3. CASE SignupCommit(r)
      BY <2>3, SignupOK
    <2>4. CASE \E a \in Admins, u \in Users, m \in Modules, l \in Levels : GrantLoad(r, a, u, m, l)
      <3> PICK a \in Admins, u \in Users, m \in Modules, l \in Levels : GrantLoad(r, a, u, m, l)
        BY <2>4
      <3> DEFINE t == [Idle EXCEPT !.step = "granting", !.actor = a, !.user = u, !.module = m,
                                   !.level = l, !.seen = access[u][m]]
      <3>1. /\ t \in Transaction /\ t.step = "granting" /\ t.user = u /\ t.module = m
            /\ t.actor = a /\ t.level = l /\ t.seen = access[u][m]
        <4>1. access[u][m] \in Row BY <1>0
        <4>2. \A row \in Row :
                [Idle EXCEPT !.step = "granting", !.actor = a, !.user = u, !.module = m,
                             !.level = l, !.seen = row] \in Transaction
          BY IdleTyped DEF Transaction, Steps
        <4>3. t \in Transaction BY <4>1, <4>2
        <4> QED BY <4>3, IdleTyped DEF Transaction
      <3>2. work' = [work EXCEPT ![r] = t] /\ UNCHANGED <<users, modules, access, given, stale>>
        BY DEF GrantLoad
      <3>3. u \in users BY DEF GrantLoad
      <3> HIDE DEF t
      <3> QED BY <1>0, <3>1, <3>2, <3>3, WorkOnly DEF Granting, Revoking
    <2>5. CASE GrantLookup(r)
      <3> DEFINE w == work[r]
                 row == access[w.user][w.module]
      <3>1. /\ w.step = "granting" /\ w \in Transaction
            /\ w.user \in users /\ w.user \in Users /\ w.module \in Modules
            /\ w.actor \in Admins /\ w.level \in Levels
        BY <1>0, <2>5 DEF GrantLookup, GInv, FieldsOK, UsersApart, Granting
      <3>2. UNCHANGED <<users, modules, access, given, stale>> BY <2>5 DEF GrantLookup
      <3>3. row \in Row BY <1>0, <3>1
      <3>4. ~w.missed => w.seen = row BY <3>1 DEF GInv, CopiesFresh, Granting
      <3>5. CASE work' = [work EXCEPT ![r].step = "granted", ![r].seen = row, ![r].missed = FALSE]
        <4> DEFINE t == [w EXCEPT !.step = "granted", !.seen = row, !.missed = FALSE]
        <4>1. /\ t \in Transaction /\ t.step = "granted" /\ t.user = w.user /\ t.module = w.module
              /\ t.actor = w.actor /\ t.level = w.level /\ t.seen = row
          BY <3>1, <3>3 DEF Transaction, Steps
        <4>2. work' = [work EXCEPT ![r] = t] BY <1>0, <3>5
        <4> HIDE DEF t
        <4> QED BY <1>0, <3>1, <3>2, <4>1, <4>2, WorkOnly DEF Granting, Revoking
      <3>6. CASE work' = [work EXCEPT ![r].step = "granted"]
        <4> DEFINE t == [w EXCEPT !.step = "granted"]
        <4>1. /\ t \in Transaction /\ t.step = "granted" /\ t.user = w.user /\ t.module = w.module
              /\ t.actor = w.actor /\ t.level = w.level /\ t.seen = w.seen /\ t.missed = w.missed
          BY <3>1 DEF Transaction, Steps
        <4>2. work' = [work EXCEPT ![r] = t] BY <1>0, <3>6
        <4> HIDE DEF t
        <4> QED BY <1>0, <3>1, <3>2, <3>4, <4>1, <4>2, WorkOnly DEF Granting, Revoking
      <3> QED BY <2>5, <3>5, <3>6 DEF GrantLookup
    <2>6. CASE GrantCommit(r)
      <3> DEFINE w == work[r]
      <3>1. PICK row \in Row : access' = [access EXCEPT ![w.user][w.module] = row]
        BY <2>6, GrantWrites
      <3>2. /\ w.step = "granted" /\ w.user \in Users /\ w.module \in Modules
            /\ w.actor \in Admins /\ w.level \in Levels
        BY <2>6 DEF GInv, FieldsOK, GrantCommit, Granting
      <3>3. /\ given' = [given EXCEPT ![w.user][w.module] = @ \cup {<<w.actor, w.level>>}]
            /\ work' = Ended(r, w.user, w.module)
        BY <2>6 DEF GrantCommit, Write
      <3>4. given[w.user][w.module] \cup {<<w.actor, w.level>>}
              \in SUBSET ((Admins \cup {None}) \X Levels)
        BY <1>0, <3>2
      <3>5. stale' \in SUBSET (Users \X Modules) /\ UNCHANGED <<users, modules>>
        BY <1>0, <2>6, <3>2 DEF GrantCommit
      <3>6. w.step \in Granting \cup Revoking BY <3>2 DEF Granting
      <3> QED BY <3>1, <3>3, <3>4, <3>5, <3>6, WriteOK
    <2>7. CASE GrantKeeps(r) BY <2>7, RefusedOK DEF GrantKeeps
    <2>8. CASE GrantFails(r) BY <2>8, RefusedOK DEF GrantFails
    <2>9. CASE \E a \in Admins, u \in Users, m \in Modules : RevokeLoad(r, a, u, m)
      <3> PICK a \in Admins, u \in Users, m \in Modules : RevokeLoad(r, a, u, m) BY <2>9
      <3> DEFINE t == [Idle EXCEPT !.step = "revoking", !.actor = a, !.user = u, !.module = m]
      <3>1. t \in Transaction /\ t.step = "revoking" /\ t.user = u /\ t.module = m
        BY DEF Idle, Transaction, Steps
      <3>2. work' = [work EXCEPT ![r] = t] /\ UNCHANGED <<users, modules, access, given, stale>>
        BY DEF RevokeLoad
      <3>3. u \in users BY DEF RevokeLoad
      <3> HIDE DEF t
      <3> QED BY <1>0, <3>1, <3>2, <3>3, WorkOnly DEF Granting, Revoking
    <2>10. CASE RevokeLookup(r)
      <3> DEFINE t == [work[r] EXCEPT !.step = "revoked"]
      <3>1. /\ t \in Transaction /\ t.step = "revoked"
            /\ t.user = work[r].user /\ t.module = work[r].module
        BY <1>0 DEF Transaction, Steps
      <3>2. work' = [work EXCEPT ![r] = t] /\ UNCHANGED <<users, modules, access, given, stale>>
        BY <1>0, <2>10 DEF RevokeLookup
      <3>3. work[r].user \in users /\ work[r].module \in Modules
        BY <2>10 DEF RevokeLookup, GInv, FieldsOK, UsersApart, Revoking
      <3> HIDE DEF t
      <3> QED BY <1>0, <3>1, <3>2, <3>3, WorkOnly DEF Granting, Revoking
    <2>11. CASE RevokeCommit(r)
      <3>1. work[r].step \in Granting \cup Revoking BY <2>11 DEF RevokeCommit, Revoking
      <3>2. {} \in SUBSET ((Admins \cup {None}) \X Levels) OBVIOUS
      <3>3. stale' \in SUBSET (Users \X Modules) BY <1>0, <2>11 DEF RevokeCommit
      <3> QED BY <2>11, <3>1, <3>2, <3>3, WriteOK DEF RevokeCommit
    <2>12. CASE Rollback(r) BY <2>12, RefusedOK DEF Rollback
    <2> QED
      BY <1>3, <2>1, <2>2, <2>3, <2>4, <2>5, <2>6, <2>7, <2>8, <2>9, <2>10, <2>11, <2>12 DEF Serve
  <1> QED BY <1>1, <1>2, <1>3 DEF Next

LEMMA Invariant == Spec => []GInv
  BY InitOK, StepOK, PTL DEF Spec

\* Users, modules, rows and transactions keep their types.
THEOREM GrantsTyped == Spec => []TypeOK
  <1>1. GInv => TypeOK BY DEF GInv
  <1> QED BY <1>1, Invariant, PTL

\* granted_by names somebody who asked for the very level of the row, unless a
\* request wrote from an old copy.
THEOREM GrantorIsRight == Spec => []GrantorGaveTheLevel
  <1>1. Init => GrantorGaveTheLevel
    BY RowsTyped DEF Init, GrantorGaveTheLevel
  <1>2. GInv /\ GrantorGaveTheLevel /\ [Next]_vars => GrantorGaveTheLevel'
    <2> SUFFICES ASSUME GInv, GrantorGaveTheLevel, [Next]_vars PROVE GrantorGaveTheLevel'
      OBVIOUS
    <2>0. /\ access \in [Users -> [Modules -> Row]] /\ users \in SUBSET Users
          /\ given \in [Users -> [Modules -> SUBSET ((Admins \cup {None}) \X Levels)]]
      BY DEF GInv, TypeOK
    <2>1. CASE UNCHANGED <<access, given, stale>>
      BY <2>1 DEF GrantorGaveTheLevel
    <2>2. ASSUME NEW r \in Workers, SignupCommit(r) PROVE GrantorGaveTheLevel'
      <3> DEFINE u == work[r].user
                 got == work[r].got
      <3>1. u \in Users BY <2>2 DEF SignupCommit, GInv, FieldsOK
      <3>2. /\ access' = [access EXCEPT ![u] =
                 [m \in Modules |-> IF m \in got THEN [level |-> View, by |-> None] ELSE access[u][m]]]
            /\ given' = [given EXCEPT ![u] =
                 [m \in Modules |-> IF m \in got THEN {<<None, View>>} ELSE given[u][m]]]
            /\ stale' = stale
        BY <2>0, <2>2, <3>1 DEF SignupCommit
      <3> HIDE DEF u, got
      <3> QED BY <2>0, <3>1, <3>2 DEF GrantorGaveTheLevel
    <2>3. ASSUME NEW r \in Workers, GrantCommit(r) PROVE GrantorGaveTheLevel'
      <3> DEFINE u == work[r].user
                 m == work[r].module
                 a == work[r].actor
                 l == work[r].level
      <3>1. u \in Users /\ m \in Modules
        BY <2>3 DEF GInv, FieldsOK, GrantCommit, Granting
      <3>2. PICK row \in Row : /\ access' = [access EXCEPT ![u][m] = row]
                               /\ row.level = l
                               /\ ~work[r].missed => row.by = a
        BY <2>3, GrantWrites
      <3>3. /\ given' = [given EXCEPT ![u][m] = @ \cup {<<a, l>>}]
            /\ stale' = IF work[r].missed THEN stale \cup {<<u, m>>} ELSE stale
        BY <2>3 DEF GrantCommit, Write
      <3> HIDE DEF u, m, a, l
      <3>4. \A v \in Users, n \in Modules :
              /\ access'[v][n] = IF v = u /\ n = m THEN row ELSE access[v][n]
              /\ given'[v][n] = IF v = u /\ n = m THEN given[v][n] \cup {<<a, l>>} ELSE given[v][n]
        BY <2>0, <3>1, <3>2, <3>3
      <3>5. <<u, m>> \notin stale' => row.by = a
        BY <3>2, <3>3
      <3>6. stale \subseteq stale' BY <3>3
      <3> SUFFICES ASSUME NEW v \in Users, NEW n \in Modules,
                          access'[v][n].level > 0, <<v, n>> \notin stale'
                   PROVE  <<access'[v][n].by, access'[v][n].level>> \in given'[v][n]
        BY DEF GrantorGaveTheLevel
      <3>7. CASE v = u /\ n = m BY <3>2, <3>4, <3>5, <3>7
      <3>8. CASE ~(v = u /\ n = m) BY <3>4, <3>6, <3>8 DEF GrantorGaveTheLevel
      <3> QED BY <3>7, <3>8
    <2>4. ASSUME NEW r \in Workers, RevokeCommit(r) PROVE GrantorGaveTheLevel'
      <3> DEFINE u == work[r].user
                 m == work[r].module
      <3>1. u \in Users /\ m \in Modules
        BY <2>4 DEF GInv, FieldsOK, RevokeCommit, Revoking
      <3>2. /\ access' = [access EXCEPT ![u][m] = NoRow]
            /\ given' = [given EXCEPT ![u][m] = {}]
            /\ stale' = stale \ {<<u, m>>}
        BY <2>4 DEF RevokeCommit
      <3> HIDE DEF u, m
      <3>3. \A v \in Users, n \in Modules :
              IF v = u /\ n = m THEN access'[v][n] = NoRow
              ELSE access'[v][n] = access[v][n] /\ given'[v][n] = given[v][n]
        BY <2>0, <3>1, <3>2
      <3>4. \A v \in Users, n \in Modules : ~(v = u /\ n = m) => (<<v, n>> \in stale <=> <<v, n>> \in stale')
        BY <3>2
      <3>5. ~(NoRow.level > 0) BY RowsTyped
      <3> QED BY <3>3, <3>4, <3>5 DEF GrantorGaveTheLevel
    <2> QED
      BY <2>1, <2>2, <2>3, <2>4
      DEF Next, Serve, vars, Register, Refused, SignupStart, SignupDefault, GrantLoad, GrantLookup,
          GrantKeeps, GrantFails, RevokeLoad, RevokeLookup, Rollback
  <1> QED BY <1>1, <1>2, Invariant, PTL DEF Spec

\* No request but a committed grant or revocation touches the rows of a user.
LEMMA WhoWrites ==
  ASSUME GInv, [Next]_vars, NEW u \in users, NEW m \in Modules, access'[u][m] # access[u][m]
  PROVE  \E r \in Workers :
            /\ GrantCommit(r) \/ RevokeCommit(r)
            /\ work[r].user = u /\ work[r].module = m
  <1>0. /\ access \in [Users -> [Modules -> Row]] /\ users \in SUBSET Users /\ u \in Users
        /\ work \in [Workers -> Transaction]
    BY DEF GInv, TypeOK
  <1>1. access' # access OBVIOUS
  <1>2. PICK r \in Workers : SignupCommit(r) \/ GrantCommit(r) \/ RevokeCommit(r)
    BY <1>1 DEF Next, Serve, vars, Register, Refused, SignupStart, SignupDefault, GrantLoad,
                GrantLookup, GrantKeeps, GrantFails, RevokeLoad, RevokeLookup, Rollback
  <1>3. ~SignupCommit(r)
    <2> SUFFICES ASSUME SignupCommit(r) PROVE FALSE
      OBVIOUS
    <2>1. work[r].user \notin users BY DEF SignupCommit, GInv, UsersApart
    <2>2. access'[u] = access[u] BY <1>0, <2>1 DEF SignupCommit
    <2> QED BY <2>2
  <1>4. CASE GrantCommit(r)
    <2>1. PICK row \in Row : access' = [access EXCEPT ![work[r].user][work[r].module] = row]
      BY <1>4, GrantWrites
    <2> QED BY <1>0, <1>4, <2>1
  <1>5. CASE RevokeCommit(r)
    BY <1>0, <1>5 DEF RevokeCommit
  <1> QED BY <1>2, <1>3, <1>4, <1>5

\* A thread that commits is idle afterwards.
LEMMA CommitEnds ==
  ASSUME GInv, NEW r \in Workers, GrantCommit(r)
  PROVE  work'[r].step = "idle" /\ work[r].step = "granted"
  BY IdleTyped DEF GrantCommit, Write, Ended

\* A level falls only over the copy of a request that missed the last write.
THEOREM LevelsFallOverOldCopies == Spec => FallsOnlyOverOldCopies
  <1> DEFINE Falls ==
        \A u \in Users, m \in Modules :
          0 < access'[u][m].level /\ access'[u][m].level < access[u][m].level =>
              \E r \in Workers :
                  /\ work[r].user = u /\ work[r].module = m /\ work[r].missed
                  /\ work[r].step = "granted" /\ work'[r].step = "idle"
  <1>1. GInv /\ [Next]_vars => Falls
    <2> SUFFICES ASSUME GInv, [Next]_vars, NEW u \in Users, NEW m \in Modules,
                        0 < access'[u][m].level, access'[u][m].level < access[u][m].level
                 PROVE  \E r \in Workers :
                          /\ work[r].user = u /\ work[r].module = m /\ work[r].missed
                          /\ work[r].step = "granted" /\ work'[r].step = "idle"
      OBVIOUS
    <2>0. access \in [Users -> [Modules -> Row]] BY DEF GInv, TypeOK
    <2>1. access'[u][m] # access[u][m] /\ access[u][m].level \in 0..3
      BY <2>0, RowsTyped DEF Levels
    <2>2. GInv' BY StepOK
    <2>3. access'[u][m].level \in 0..3 BY <2>2, RowsTyped DEF GInv, TypeOK, Levels
    <2>4. access[u][m].level > 0 BY <2>1, <2>3
    <2>5. u \in users
      BY <2>4, RowsTyped DEF GInv, UsersApart
    <2>6. PICK r \in Workers : /\ GrantCommit(r) \/ RevokeCommit(r)
                               /\ work[r].user = u /\ work[r].module = m
      BY <2>1, <2>5, WhoWrites
    <2>7. ~RevokeCommit(r)
      <3> SUFFICES ASSUME RevokeCommit(r) PROVE FALSE
        OBVIOUS
      <3>1. access'[u][m] = NoRow BY <2>0, <2>6 DEF RevokeCommit
      <3> QED BY <3>1, RowsTyped
    <2>8. work[r].level \in 1..3 /\ work[r].seen \in Row
      BY <2>6, <2>7 DEF GInv, FieldsOK, GrantCommit, Granting, Levels, TypeOK, Transaction
    <2>9. access'[u][m].level = work[r].level
      <3>1. PICK row \in Row : /\ access' = [access EXCEPT ![work[r].user][work[r].module] = row]
                               /\ row.level = work[r].level
        BY <2>6, <2>7, GrantWrites
      <3>2. access'[u][m] = row BY <2>0, <2>6, <3>1
      <3> QED BY <3>1, <3>2
    <2>10. Updates(work[r])
      BY <2>4, <2>6, <2>7 DEF GrantCommit
    <2>11. work[r].seen # access[u][m]
      BY <2>1, <2>8, <2>9, <2>10, RowsTyped DEF Updates, Levels
    <2>12. work[r].missed
      BY <2>6, <2>7, <2>11 DEF GInv, CopiesFresh, GrantCommit, Granting
    <2> QED BY <2>6, <2>7, <2>12, CommitEnds
  <1>2. Spec => [][Falls]_vars
    BY <1>1, Invariant, PTL DEF Spec
  <1> QED BY <1>2 DEF FallsOnlyOverOldCopies

\* A row that was revoked is created again only by a request that found none.
THEOREM RevokedRowsStay == Spec => RevokedStaysRevoked
  <1> DEFINE Stays ==
        \A u \in users, m \in Modules :
          access[u][m].level = 0 /\ access'[u][m].level > 0 =>
              \E r \in Workers :
                  /\ work[r].user = u /\ work[r].module = m
                  /\ work[r].seen.level = 0 /\ work'[r].step = "idle"
  <1>1. GInv /\ [Next]_vars => Stays
    <2> SUFFICES ASSUME GInv, [Next]_vars, NEW u \in users, NEW m \in Modules,
                        access[u][m].level = 0, access'[u][m].level > 0
                 PROVE  \E r \in Workers :
                          /\ work[r].user = u /\ work[r].module = m
                          /\ work[r].seen.level = 0 /\ work'[r].step = "idle"
      OBVIOUS
    <2>0. access \in [Users -> [Modules -> Row]] /\ u \in Users BY DEF GInv, TypeOK
    <2>1. access'[u][m] # access[u][m] OBVIOUS
    <2>2. PICK r \in Workers : /\ GrantCommit(r) \/ RevokeCommit(r)
                               /\ work[r].user = u /\ work[r].module = m
      BY <2>1, WhoWrites
    <2>3. ~RevokeCommit(r)
      <3> SUFFICES ASSUME RevokeCommit(r) PROVE FALSE
        OBVIOUS
      <3>1. access'[u][m] = NoRow BY <2>0, <2>2 DEF RevokeCommit
      <3> QED BY <3>1, RowsTyped
    <2>4. Inserts(work[r])
      BY <2>2, <2>3 DEF GrantCommit
    <2> QED BY <2>2, <2>3, <2>4, CommitEnds DEF Inserts
  <1>2. Spec => [][Stays]_vars
    BY <1>1, Invariant, PTL DEF Spec
  <1> QED BY <1>2 DEF RevokedStaysRevoked

-----------------------------------------------------------------------------
(* The idiom library.                                                      *)

\* The initial state is typed.
LEMMA InitTyped == CacheInit => CacheTypeOK
  BY EmptyNotLibrary DEF CacheInit, CacheTypeOK, Library, WriterSteps, ScannerSteps

\* An admin request keeps the state typed.
LEMMA AdminTyped ==
  ASSUME CacheTypeOK, NEW w \in Writers, Admin(w)
  PROVE  CacheTypeOK'
  <1> USE DEF CacheTypeOK, Library, WriterSteps
  <1>1. CASE AdminOpen(w)   BY <1>1 DEF AdminOpen
  <1>2. CASE AdminFlush(w)  BY <1>2 DEF AdminFlush
  <1>3. CASE ResetCache(w)  BY <1>3 DEF ResetCache
  <1>4. CASE AdminCommit(w) BY <1>4 DEF AdminCommit
  <1>5. CASE AdminFails(w)  BY <1>5 DEF AdminFails
  <1> QED BY <1>1, <1>2, <1>3, <1>4, <1>5 DEF Admin

\* A call of _library() keeps the state typed.
LEMMA ScanTyped ==
  ASSUME CacheTypeOK, NEW s \in Scanners, Call(s) \/ Scan(s)
  PROVE  CacheTypeOK'
  <1> USE DEF CacheTypeOK, Library, ScannerSteps, Go
  <1>1. CASE Call(s)          BY <1>1 DEF Call
  <1>2. CASE Check(s)         BY <1>2 DEF Check
  <1>3. CASE Acquire(s)       BY <1>3 DEF Acquire
  <1>4. CASE AlreadyLoaded(s) BY <1>4 DEF AlreadyLoaded
  <1>5. CASE Query(s)         BY <1>5 DEF Query
  <1>6. CASE QueryFails(s)    BY <1>6 DEF QueryFails
  <1>7. CASE PoolTimesOut(s)  BY <1>7 DEF PoolTimesOut
  <1>8. CASE Publish(s)       BY <1>8 DEF Publish
  <1>9. CASE Return(s)        BY <1>9 DEF Return
  <1>10. CASE Recover(s)      BY <1>10 DEF Recover
  <1> QED BY <1>1, <1>2, <1>3, <1>4, <1>5, <1>6, <1>7, <1>8, <1>9, <1>10 DEF Scan

\* Type correctness of the cache, the lock and every request and thread.
THEOREM CacheTypeCorrect == CacheSpec => []CacheTypeOK
  <1>1. CacheTypeOK /\ [CacheNext]_cacheVars => CacheTypeOK'
    <2> SUFFICES ASSUME CacheTypeOK, [CacheNext]_cacheVars PROVE CacheTypeOK'
      OBVIOUS
    <2>1. CASE UNCHANGED cacheVars BY <2>1 DEF cacheVars, CacheTypeOK
    <2>2. CASE CacheNext           BY <2>2, AdminTyped, ScanTyped DEF CacheNext
    <2> QED BY <2>1, <2>2
  <1> QED BY InitTyped, <1>1, PTL DEF CacheSpec

-----------------------------------------------------------------------------
(* Mutual exclusion of the loaders.                                        *)

\* No step lets a second loader in.
LEMMA ExclusionStep ==
  ASSUME CacheTypeOK, OneLoader, [CacheNext]_cacheVars
  PROVE  OneLoader'
  <1> USE DEF OneLoader
  <1>1. ASSUME NEW w \in Writers, Admin(w) PROVE OneLoader'
    BY <1>1 DEF Admin, AdminOpen, AdminFlush, ResetCache, AdminCommit, AdminFails
  <1>2. ASSUME NEW s \in Scanners, Call(s) \/ Scan(s) PROVE OneLoader'
    <2> USE DEF CacheTypeOK, ScannerSteps, Go
    <2>1. CASE Call(s)          BY <2>1 DEF Call
    <2>2. CASE Check(s)         BY <2>2 DEF Check
    <2>3. CASE Acquire(s)       BY <2>3, FreeNotScanner DEF Acquire
    <2>4. CASE AlreadyLoaded(s) BY <2>4 DEF AlreadyLoaded
    <2>5. CASE Query(s)         BY <2>5 DEF Query
    <2>6. CASE QueryFails(s)    BY <2>6 DEF QueryFails
    <2>7. CASE PoolTimesOut(s)  BY <2>7 DEF PoolTimesOut
    <2>8. CASE Publish(s)       BY <2>8 DEF Publish
    <2>9. CASE Return(s)        BY <2>9 DEF Return
    <2>10. CASE Recover(s)      BY <2>10 DEF Recover
    <2> QED
      BY <1>2, <2>1, <2>2, <2>3, <2>4, <2>5, <2>6, <2>7, <2>8, <2>9, <2>10 DEF Scan
  <1>3. CASE UNCHANGED cacheVars BY <1>3 DEF cacheVars
  <1> QED BY <1>1, <1>2, <1>3 DEF CacheNext

\* Two threads never build the library at once, whatever the number of
\* threads that find the cache empty (the lock of _library()).
THEOREM LoadersExclude == CacheSpec => []OneLoader
  <1>1. CacheInit => OneLoader BY DEF CacheInit, OneLoader
  <1> QED BY <1>1, ExclusionStep, CacheTypeCorrect, PTL DEF CacheSpec

-----------------------------------------------------------------------------
(* What is cached was committed.                                           *)

CommittedInv ==
    /\ OnlyCommittedIdioms
    /\ \A s \in Scanners : scanner[s] = "queried" => read[s] \subseteq db

\* No step brings an uncommitted write into a library.
LEMMA CommittedStep ==
  ASSUME CacheTypeOK, CommittedInv, [CacheNext]_cacheVars
  PROVE  CommittedInv'
  <1> USE DEF CommittedInv, OnlyCommittedIdioms, CacheTypeOK
  <1>1. ASSUME NEW w \in Writers, Admin(w) PROVE CommittedInv'
    BY <1>1 DEF Admin, AdminOpen, AdminFlush, ResetCache, AdminCommit, AdminFails
  <1>2. ASSUME NEW s \in Scanners, Call(s) \/ Scan(s) PROVE CommittedInv'
    <2> USE DEF Go
    <2>1. CASE Call(s)          BY <2>1 DEF Call
    <2>2. CASE Check(s)         BY <2>2 DEF Check
    <2>3. CASE Acquire(s)       BY <2>3 DEF Acquire
    <2>4. CASE AlreadyLoaded(s) BY <2>4 DEF AlreadyLoaded
    <2>5. CASE Query(s)         BY <2>5 DEF Query
    <2>6. CASE QueryFails(s)    BY <2>6 DEF QueryFails
    <2>7. CASE PoolTimesOut(s)  BY <2>7 DEF PoolTimesOut
    <2>8. CASE Publish(s)       BY <2>8 DEF Publish
    <2>9. CASE Return(s)        BY <2>9 DEF Return
    <2>10. CASE Recover(s)      BY <2>10 DEF Recover
    <2> QED
      BY <1>2, <2>1, <2>2, <2>3, <2>4, <2>5, <2>6, <2>7, <2>8, <2>9, <2>10 DEF Scan
  <1>3. CASE UNCHANGED cacheVars BY <1>3 DEF cacheVars
  <1> QED BY <1>1, <1>2, <1>3 DEF CacheNext

\* No translation ever uses an idiom of a request that rolled back: what is
\* cached and what a call returned had been committed (_load, reset_cache).
THEOREM NothingUncommitted == CacheSpec => []OnlyCommittedIdioms
  <1>1. CacheInit => CommittedInv
    BY DEF CacheInit, CommittedInv, OnlyCommittedIdioms
  <1>2. CommittedInv => OnlyCommittedIdioms BY DEF CommittedInv
  <1> QED BY <1>1, <1>2, CommittedStep, CacheTypeCorrect, PTL DEF CacheSpec

-----------------------------------------------------------------------------
(* How stale the cache can be.                                             *)

\* Library L lacks only writes of the window, and will go on lacking only
\* such: every request that may commit without another reset is in it.
LacksOnlyWindow(L) ==
    /\ db \ L \subseteq window
    /\ \A w \in Writers : writer[w] = "reset" => w \in window

WindowInv ==
    /\ cache # Empty => LacksOnlyWindow(cache)
    /\ \A s \in Scanners : scanner[s] = "queried" => LacksOnlyWindow(read[s])

\* A request that commits was in the window of every library that lacks it.
LEMMA AdminKeepsWindow ==
  ASSUME CacheTypeOK, OneLoader, WindowInv, NEW w \in Writers, Admin(w)
  PROVE  WindowInv'
  <1> USE DEF WindowInv, LacksOnlyWindow, CacheTypeOK, Library
  <1>1. CASE AdminOpen(w)   BY <1>1 DEF AdminOpen
  <1>2. CASE AdminFlush(w)  BY <1>2 DEF AdminFlush
  <1>3. CASE ResetCache(w)
    <2>1. \A s \in Scanners : scanner[s] # "queried"
      BY <1>3, FreeNotScanner DEF ResetCache, OneLoader
    <2> QED BY <1>3, <2>1 DEF ResetCache
  <1>4. CASE AdminCommit(w) BY <1>4 DEF AdminCommit
  <1>5. CASE AdminFails(w)  BY <1>5 DEF AdminFails
  <1> QED BY <1>1, <1>2, <1>3, <1>4, <1>5 DEF Admin

\* A scanner that publishes brings what it lacks from its query.
LEMMA ScanKeepsWindow ==
  ASSUME CacheTypeOK, OneLoader, WindowInv, NEW s \in Scanners, Call(s) \/ Scan(s)
  PROVE  WindowInv'
  <1> USE DEF WindowInv, LacksOnlyWindow, CacheTypeOK, Go
  <1>1. CASE Call(s)          BY <1>1 DEF Call
  <1>2. CASE Check(s)         BY <1>2 DEF Check
  <1>3. CASE Acquire(s)       BY <1>3 DEF Acquire
  <1>4. CASE AlreadyLoaded(s) BY <1>4 DEF AlreadyLoaded
  <1>5. CASE Query(s)
    <2>1. \A r \in Scanners : scanner[r] = "queried" => r = s
      BY <1>5 DEF Query, OneLoader
    <2> QED BY <1>5, <2>1 DEF Query
  <1>6. CASE QueryFails(s)    BY <1>6 DEF QueryFails
  <1>7. CASE PoolTimesOut(s)  BY <1>7 DEF PoolTimesOut
  <1>8. CASE Publish(s)       BY <1>8 DEF Publish
  <1>9. CASE Return(s)        BY <1>9 DEF Return
  <1>10. CASE Recover(s)      BY <1>10 DEF Recover
  <1> QED BY <1>1, <1>2, <1>3, <1>4, <1>5, <1>6, <1>7, <1>8, <1>9, <1>10 DEF Scan

\* The only writes a cached library can lack are those of requests that had
\* dropped the cache and not yet committed when it was queried
\* (admin_routes: reset_cache() before the commit of db_session_dep).
THEOREM StalenessIsBounded == CacheSpec => []StaleOnlyFromWindow
  <1>1. CacheInit => WindowInv
    BY DEF CacheInit, WindowInv, LacksOnlyWindow
  <1>2. CacheTypeOK /\ OneLoader /\ WindowInv /\ [CacheNext]_cacheVars => WindowInv'
    <2> SUFFICES ASSUME CacheTypeOK, OneLoader, WindowInv, [CacheNext]_cacheVars PROVE WindowInv'
      OBVIOUS
    <2>1. CASE UNCHANGED cacheVars
      BY <2>1 DEF cacheVars, WindowInv, LacksOnlyWindow
    <2>2. CASE CacheNext BY <2>2, AdminKeepsWindow, ScanKeepsWindow DEF CacheNext
    <2> QED BY <2>1, <2>2
  <1>3. WindowInv => StaleOnlyFromWindow
    BY DEF WindowInv, LacksOnlyWindow, StaleOnlyFromWindow
  <1> QED BY <1>1, <1>2, <1>3, CacheTypeCorrect, LoadersExclude, PTL DEF CacheSpec
=============================================================================
