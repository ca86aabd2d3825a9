---------------------------- MODULE ModuleGrants ----------------------------
(***************************************************************************)
(* The table user_module_access: default grants at signup, grant_access    *)
(* and revoke_access (app/modules/service.py) as the admin routes call     *)
(* them (app/modules/admin_routes.py).                                     *)
(*                                                                         *)
(* A request is one READ COMMITTED transaction.  It reads the row twice:   *)
(* _load_user loads the user's grants and grant_access selects the one it  *)
(* is about.  The ORM's identity map may answer the second read with the   *)
(* first copy, as long as a reference to it is left.  A flush that touches *)
(* a locked row waits for the other transaction, so a write and its commit *)
(* are one step here; it names the columns that differ from the copy.      *)
(***************************************************************************)
EXTENDS Naturals

CONSTANTS
    Users,       \* accounts that sign up
    Modules,     \* module keys
    Defaults,    \* settings.default_module_keys
    Admins,      \* super-admins who send requests
    Workers,     \* threads that serve requests
    None         \* granted_by is NULL

ASSUME DefaultsAreModules == Defaults \subseteq Modules
ASSUME NoneNotAdmin == None \notin Admins

VARIABLES
    users,       \* users whose row is committed
    modules,     \* modules whose row is committed
    access,      \* the committed row of each user and module
    work,        \* the transaction of each thread
    given,       \* history: who asked for which level since the last revoke
    stale        \* history: pairs written from a copy that had grown old

vars == <<users, modules, access, work, given, stale>>

\* The ranks of 'view', 'edit' and 'admin'; 0 stands for no row.
Levels == 1..3
View == 1
Row == [level : {0} \cup Levels, by : Admins \cup {None}]
NoRow == [level |-> 0, by |-> None]

Steps == {"idle", "signing", "granting", "granted", "revoking", "revoked"}

Transaction ==
    [step : Steps, actor : Admins \cup {None}, user : Users \cup {None},
     module : Modules \cup {None}, level : {0} \cup Levels,
     seen : Row, missed : BOOLEAN, todo : SUBSET Modules, got : SUBSET Modules]

Idle == [step |-> "idle", actor |-> None, user |-> None, module |-> None, level |-> 0,
         seen |-> NoRow, missed |-> FALSE, todo |-> {}, got |-> {}]

\* The migrations have seeded some of the modules; the others are registered.
Init ==
    /\ users = {}
    /\ modules \in SUBSET Modules
    /\ access = [u \in Users |-> [m \in Modules |-> NoRow]]
    /\ work = [r \in Workers |-> Idle]
    /\ given = [u \in Users |-> [m \in Modules |-> {}]]
    /\ stale = {}

\* Thread r ends; whoever is at work on the same pair now has an old copy.
Ended(r, u, m) ==
    [q \in Workers |->
        IF q = r THEN Idle
        ELSE IF work[q].user = u /\ work[q].module = m THEN [work[q] EXCEPT !.missed = TRUE]
        ELSE work[q]]

Refused(r) ==
    /\ work' = [work EXCEPT ![r] = Idle]
    /\ UNCHANGED <<users, modules, access, given, stale>>

-----------------------------------------------------------------------------
(* Modules and signup.                                                     *)

\* register_module; a key that exists is refused with 409.
Register(m) ==
    /\ m \notin modules
    /\ modules' = modules \cup {m}
    /\ UNCHANGED <<users, access, work, given, stale>>

\* The INSERT of the user waits for another signup with the same email.
SignupStart(r, u) ==
    /\ work[r].step = "idle"
    /\ u \notin users
    /\ \A q \in Workers : ~(work[q].step = "signing" /\ work[q].user = u)
    /\ work' = [work EXCEPT ![r] =
          [Idle EXCEPT !.step = "signing", !.user = u, !.todo = Defaults]]
    /\ UNCHANGED <<users, modules, access, given, stale>>

\* One key of apply_default_module_access: skipped when it has no module.
SignupDefault(r, m) ==
    /\ work[r].step = "signing"
    /\ m \in work[r].todo
    /\ work' = [work EXCEPT
          ![r].todo = @ \ {m},
          ![r].got = IF m \in modules THEN @ \cup {m} ELSE @]
    /\ UNCHANGED <<users, modules, access, given, stale>>

SignupCommit(r) ==
    /\ work[r].step = "signing"
    /\ work[r].todo = {}
    /\ users' = users \cup {work[r].user}
    /\ access' = [access EXCEPT ![work[r].user] =
          [m \in Modules |-> IF m \in work[r].got THEN [level |-> View, by |-> None] ELSE @[m]]]
    /\ given' = [given EXCEPT ![work[r].user] =
          [m \in Modules |-> IF m \in work[r].got THEN {<<None, View>>} ELSE @[m]]]
    /\ work' = [work EXCEPT ![r] = Idle]
    /\ UNCHANGED <<modules, stale>>

-----------------------------------------------------------------------------
(* grant_module_access.                                                    *)

\* _load_user; a user or a module that does not exist answers 404.
GrantLoad(r, a, u, m, l) ==
    /\ work[r].step = "idle"
    /\ u \in users /\ m \in modules
    /\ work' = [work EXCEPT ![r] =
          [Idle EXCEPT !.step = "granting", !.actor = a, !.user = u, !.module = m,
                       !.level = l, !.seen = access[u][m]]]
    /\ UNCHANGED <<users, modules, access, given, stale>>

\* The SELECT of grant_access.  A row that is there may be answered with the
\* copy of GrantLoad, if that one was a row too.
GrantLookup(r) ==
    LET w == work[r]
        row == access[w.user][w.module]
    IN /\ w.step = "granting"
       /\ \/ work' = [work EXCEPT ![r].step = "granted", ![r].seen = row, ![r].missed = FALSE]
          \/ /\ row.level > 0 /\ w.seen.level > 0
             /\ work' = [work EXCEPT ![r].step = "granted"]
       /\ UNCHANGED <<users, modules, access, given, stale>>

\* What the row is after the request, for a copy without one: an INSERT that
\* violates the primary key when somebody else was faster.
Inserts(w) == w.seen.level = 0

\* Mutated form: the copy is not compared with the level asked for.
UpdatesAlways(w) == w.seen.level > 0 /\ w.level # w.seen.level

\* The UPDATE: the level rises, and granted_by is written if it differs.
Updates(w) == w.seen.level > 0 /\ w.level > w.seen.level

\* Mutated form: granted_by is not written.
UpdatedLevel(w, row) == [level |-> w.level, by |-> row.by]

Updated(w, row) ==
    [level |-> w.level, by |-> IF w.actor # w.seen.by THEN w.actor ELSE row.by]

Write(r, row) ==
    LET w == work[r]
    IN /\ access' = [access EXCEPT ![w.user][w.module] = row]
       /\ given' = [given EXCEPT ![w.user][w.module] = @ \cup {<<w.actor, w.level>>}]
       /\ work' = Ended(r, w.user, w.module)

\* Mutated form: an upsert, which writes the row whether it is there or not.
GrantUpsert(r) ==
    LET w == work[r]
        row == access[w.user][w.module]
    IN /\ w.step = "granted"
       /\ Inserts(w) \/ Updates(w)
       /\ Write(r, IF Inserts(w) THEN [level |-> w.level, by |-> w.actor] ELSE Updated(w, row))
       /\ stale' = IF w.missed THEN stale \cup {<<w.user, w.module>>} ELSE stale
       /\ UNCHANGED <<users, modules>>

GrantCommit(r) ==
    LET w == work[r]
        row == access[w.user][w.module]
    IN /\ w.step = "granted"
       /\ \/ /\ Inserts(w) /\ row.level = 0
             /\ Write(r, [level |-> w.level, by |-> w.actor])
          \/ /\ Updates(w) /\ row.level > 0
             /\ Write(r, Updated(w, row))
       /\ stale' = IF w.missed THEN stale \cup {<<w.user, w.module>>} ELSE stale
       /\ UNCHANGED <<users, modules>>

\* The level is not higher: nothing is written.
GrantKeeps(r) ==
    /\ work[r].step = "granted"
    /\ ~Inserts(work[r]) /\ ~Updates(work[r])
    /\ Refused(r)

\* The INSERT finds a row (IntegrityError) or the UPDATE none (StaleDataError).
GrantFails(r) ==
    LET row == access[work[r].user][work[r].module]
    IN /\ work[r].step = "granted"
       /\ \/ Inserts(work[r]) /\ row.level > 0
          \/ Updates(work[r]) /\ row.level = 0
       /\ Refused(r)

-----------------------------------------------------------------------------
(* revoke_module_access.                                                   *)

RevokeLoad(r, a, u, m) ==
    /\ work[r].step = "idle"
    /\ u \in users
    /\ work' = [work EXCEPT ![r] =
          [Idle EXCEPT !.step = "revoking", !.actor = a, !.user = u, !.module = m]]
    /\ UNCHANGED <<users, modules, access, given, stale>>

\* The SELECT of revoke_access; without a row it answers 404.
RevokeLookup(r) ==
    /\ work[r].step = "revoking"
    /\ access[work[r].user][work[r].module].level > 0
    /\ work' = [work EXCEPT ![r].step = "revoked"]
    /\ UNCHANGED <<users, modules, access, given, stale>>

\* The DELETE; a row that is gone by now is only a warning of the ORM.
RevokeCommit(r) ==
    LET w == work[r]
    IN /\ w.step = "revoked"
       /\ access' = [access EXCEPT ![w.user][w.module] = NoRow]
       /\ given' = [given EXCEPT ![w.user][w.module] = {}]
       /\ stale' = stale \ {<<w.user, w.module>>}
       /\ work' = Ended(r, w.user, w.module)
       /\ UNCHANGED <<users, modules>>

\* A 404, a database error or a lost connection rolls back.
Rollback(r) == work[r].step # "idle" /\ Refused(r)

-----------------------------------------------------------------------------
Serve(r) ==
    \/ \E u \in Users : SignupStart(r, u)
    \/ \E m \in Modules : SignupDefault(r, m)
    \/ SignupCommit(r)
    \/ \E a \in Admins, u \in Users, m \in Modules, l \in Levels : GrantLoad(r, a, u, m, l)
    \/ GrantLookup(r)
    \/ GrantCommit(r)
    \/ GrantKeeps(r)
    \/ GrantFails(r)
    \/ \E a \in Admins, u \in Users, m \in Modules : RevokeLoad(r, a, u, m)
    \/ RevokeLookup(r)
    \/ RevokeCommit(r)
    \/ Rollback(r)

Next == (\E m \in Modules : Register(m)) \/ (\E r \in Workers : Serve(r))

Spec == Init /\ [][Next]_vars

-----------------------------------------------------------------------------
(* Properties.                                                             *)

TypeOK ==
    /\ users \in SUBSET Users
    /\ modules \in SUBSET Modules
    /\ access \in [Users -> [Modules -> Row]]
    /\ work \in [Workers -> Transaction]
    /\ given \in [Users -> [Modules -> SUBSET ((Admins \cup {None}) \X Levels)]]
    /\ stale \in SUBSET (Users \X Modules)

\* grant_access says that it leaves a higher level alone.  It does so, except
\* when another request wrote the row after this one had read it: no grant
\* lowers a level it could have seen.
FallsOnlyOverOldCopies ==
    [][\A u \in Users, m \in Modules :
          0 < access'[u][m].level /\ access'[u][m].level < access[u][m].level =>
              \E r \in Workers :
                  /\ work[r].user = u /\ work[r].module = m /\ work[r].missed
                  /\ work[r].step = "granted" /\ work'[r].step = "idle"]_vars

\* granted_by names somebody who asked for the very level the row has, unless
\* a request wrote from an old copy: level and grantor are two columns, and
\* an UPDATE may write one without the other.
GrantorGaveTheLevel ==
    \A u \in Users, m \in Modules :
        access[u][m].level > 0 /\ <<u, m>> \notin stale =>
            <<access[u][m].by, access[u][m].level>> \in given[u][m]

\* A revoked access does not come back through a grant that still knows the
\* revoked row: only a request that found no row creates one.
RevokedStaysRevoked ==
    [][\A u \in users, m \in Modules :
          access[u][m].level = 0 /\ access'[u][m].level > 0 =>
              \E r \in Workers :
                  /\ work[r].user = u /\ work[r].module = m
                  /\ work[r].seen.level = 0 /\ work'[r].step = "idle"]_vars
=============================================================================
