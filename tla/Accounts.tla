------------------------------ MODULE Accounts ------------------------------
(***************************************************************************)
(* User accounts and the super-admin flag: signup with its bootstrap rule  *)
(* (app/auth/routes.py, app/modules/service.py) and the admin request that *)
(* changes is_active and is_super_admin (app/modules/admin_routes.py).     *)
(*                                                                         *)
(* Every request is one READ COMMITTED transaction run by a thread of the  *)
(* server's pool: each SELECT sees what was committed when it ran, a       *)
(* flushed UPDATE locks its row until the transaction ends, and the ORM    *)
(* writes only the columns that differ from the copy it loaded.            *)
(***************************************************************************)
EXTENDS FiniteSets

CONSTANTS
    Users,       \* accounts, each known by its email
    Workers,     \* threads that serve requests
    None         \* no user

ASSUME NoneNotUser == None \notin Users

VARIABLES
    signed,      \* users whose row is committed
    accounts,    \* the committed flags of each user
    work,        \* the transaction of each thread
    overlapped,  \* history: two demotions ran side by side
    configured   \* the user of settings.super_admin_email, or None: a
                 \* setting of the deployment, read when the process starts

vars == <<signed, accounts, work, overlapped, configured>>

Flags == [active : BOOLEAN, super : BOOLEAN]
Fresh == [active |-> TRUE, super |-> FALSE]

\* A request body gives a value to some of the flags.
Asks == UNION {[D -> BOOLEAN] : D \in SUBSET {"active", "super"}}
NoAsk == [c \in {} |-> TRUE]

Idle == [step |-> "idle", actor |-> None, target |-> None, ask |-> NoAsk, seen |-> Fresh]

SignupSteps == {"inserted", "promoted"}
UpdateSteps == {"authorised", "loaded", "checked", "flushed"}

Transaction ==
    [step : {"idle"} \cup SignupSteps \cup UpdateSteps,
     actor : Users \cup {None}, target : Users \cup {None}, ask : Asks, seen : Flags]

HasTarget(t) == t.step \in SignupSteps \cup {"loaded", "checked", "flushed"}

TypeOK ==
    /\ signed \in SUBSET Users
    /\ accounts \in [Users -> Flags]
    /\ work \in [Workers -> Transaction]
    /\ \A r \in Workers : HasTarget(work[r]) => work[r].target \in Users
    /\ overlapped \in BOOLEAN
    /\ configured \in Users \cup {None}

Init ==
    /\ signed = {}
    /\ accounts = [u \in Users |-> Fresh]
    /\ work = [r \in Workers |-> Idle]
    /\ overlapped = FALSE
    /\ configured \in Users \cup {None}

SuperAdmins == {u \in signed : accounts[u].super}

\* The columns of the UPDATE: those asked for and different from the copy.
Writes(t) == {c \in DOMAIN t.ask : t.ask[c] # t.seen[c]}

Applied(t, row) ==
    [c \in {"active", "super"} |-> IF c \in Writes(t) THEN t.ask[c] ELSE row[c]]

Demotes(t) == "super" \in Writes(t) /\ t.seen.super

RowLocked(u, r) ==
    \E q \in Workers \ {r} :
        work[q].step = "flushed" /\ work[q].target = u /\ Writes(work[q]) # {}

-----------------------------------------------------------------------------
(* Signup.                                                                 *)

\* The INSERT waits for another signup with the same email to end.
SignupInsert(r, u) ==
    /\ work[r].step = "idle"
    /\ u \notin signed
    /\ \A q \in Workers : work[q].step \in SignupSteps => work[q].target # u
    /\ work' = [work EXCEPT ![r] = [Idle EXCEPT !.step = "inserted", !.target = u]]
    /\ UNCHANGED <<signed, accounts, overlapped, configured>>

\* maybe_promote_super_admin: the configured user, or without one the user
\* who finds no super-admin.
Promote(r) ==
    /\ work[r].step = "inserted"
    /\ LET first == configured = None /\ SuperAdmins = {}
       IN work' = [work EXCEPT
              ![r].step = "promoted",
              ![r].ask = IF work[r].target = configured \/ first
                           THEN [c \in {"super"} |-> TRUE] ELSE NoAsk]
    /\ UNCHANGED <<signed, accounts, overlapped, configured>>

SignupCommit(r) ==
    /\ work[r].step = "promoted"
    /\ signed' = signed \cup {work[r].target}
    /\ accounts' = [accounts EXCEPT ![work[r].target] = Applied(work[r], Fresh)]
    /\ work' = [work EXCEPT ![r] = Idle]
    /\ UNCHANGED <<overlapped, configured>>

-----------------------------------------------------------------------------
(* update_user.                                                            *)

\* get_current_active_user and require_super_admin.
Authorise(r, a) ==
    /\ work[r].step = "idle"
    /\ a \in SuperAdmins
    /\ accounts[a].active
    /\ work' = [work EXCEPT ![r] =
          [Idle EXCEPT !.step = "authorised", !.actor = a, !.seen = accounts[a]]]
    /\ UNCHANGED <<signed, accounts, overlapped, configured>>

\* _load_user: a super-admin who edits himself gets the copy the session
\* loaded to authorise him, not a fresh one.
LoadTarget(r, u, ask) ==
    /\ work[r].step = "authorised"
    /\ u \in signed
    /\ work' = [work EXCEPT
          ![r].step = "loaded", ![r].target = u, ![r].ask = ask,
          ![r].seen = IF u = work[r].actor THEN @ ELSE accounts[u]]
    /\ UNCHANGED <<signed, accounts, overlapped, configured>>

\* The body takes super-admin rights from a user who has them in the copy.
AsksDemotion(t) == "super" \in DOMAIN t.ask /\ ~t.ask.super /\ t.seen.super

LocksSelfOut(t) == "active" \in DOMAIN t.ask /\ ~t.ask.active /\ t.target = t.actor

\* Mutated form: the count of the remaining super-admins includes the target.
CheckIncludingTarget(r) ==
    /\ work[r].step = "loaded"
    /\ AsksDemotion(work[r]) => SuperAdmins # {}
    /\ ~LocksSelfOut(work[r])
    /\ work' = [work EXCEPT ![r].step = "checked"]
    /\ UNCHANGED <<signed, accounts, overlapped, configured>>

\* The two guards of the handler; a request that fails one is refused.
Check(r) ==
    /\ work[r].step = "loaded"
    /\ AsksDemotion(work[r]) => SuperAdmins \ {work[r].target} # {}
    /\ ~LocksSelfOut(work[r])
    /\ work' = [work EXCEPT ![r].step = "checked"]
    /\ UNCHANGED <<signed, accounts, overlapped, configured>>

Flush(r) ==
    /\ work[r].step = "checked"
    /\ Writes(work[r]) # {} => ~RowLocked(work[r].target, r)
    /\ work' = [work EXCEPT ![r].step = "flushed"]
    /\ UNCHANGED <<signed, accounts, overlapped, configured>>

DemotionUnderWay(q) == work[q].step \in {"checked", "flushed"} /\ Demotes(work[q])

\* Mutated form: the whole row is written, not the changed columns.
CommitWholeRow(r) ==
    /\ work[r].step = "flushed"
    /\ accounts' = [accounts EXCEPT ![work[r].target] = Applied(work[r], work[r].seen)]
    /\ overlapped' = (overlapped \/ /\ Demotes(work[r])
                                    /\ \E q \in Workers \ {r} : DemotionUnderWay(q))
    /\ work' = [work EXCEPT ![r] = Idle]
    /\ UNCHANGED <<signed, configured>>

UpdateCommit(r) ==
    /\ work[r].step = "flushed"
    /\ accounts' = [accounts EXCEPT ![work[r].target] = Applied(work[r], @)]
    /\ overlapped' = (overlapped \/ /\ Demotes(work[r])
                                    /\ \E q \in Workers \ {r} : DemotionUnderWay(q))
    /\ work' = [work EXCEPT ![r] = Idle]
    /\ UNCHANGED <<signed, configured>>

\* 4xx answers, database errors and lost connections roll back.
Rollback(r) ==
    /\ work[r].step # "idle"
    /\ work' = [work EXCEPT ![r] = Idle]
    /\ UNCHANGED <<signed, accounts, overlapped, configured>>

-----------------------------------------------------------------------------
Serve(r) ==
    \/ \E u \in Users : SignupInsert(r, u)
    \/ Promote(r)
    \/ SignupCommit(r)
    \/ \E a \in Users : Authorise(r, a)
    \/ \E u \in Users, ask \in Asks : LoadTarget(r, u, ask)
    \/ Check(r)
    \/ Flush(r)
    \/ UpdateCommit(r)
    \/ Rollback(r)

Next == \E r \in Workers : Serve(r)

Spec == Init /\ [][Next]_vars

-----------------------------------------------------------------------------
(* Properties.                                                             *)

\* Without a configured email the platform has a super-admin from the first
\* signup on, unless two demotions ran side by side: no sequence of requests
\* in which demotions come one after another gets past the guard.
SuperAdminRemains ==
    configured = None /\ signed # {} /\ ~overlapped => SuperAdmins # {}

\* With a configured email nobody is super-admin before that user signed up:
\* the flag has no other origin than him and those he promotes.
SuperAdminHasAnOrigin ==
    configured # None /\ SuperAdmins # {} => configured \in signed

\* No request undoes a flag somebody else changed meanwhile: a column only
\* takes the value the request that commits asked for, however old the copy
\* it loaded.
OnlyAskedChanges ==
    [][\A u \in signed, c \in {"active", "super"} :
          accounts'[u][c] # accounts[u][c] =>
              \E r \in Workers :
                  /\ work[r].step = "flushed" /\ work'[r].step = "idle"
                  /\ work[r].target = u
                  /\ c \in DOMAIN work[r].ask /\ accounts'[u][c] = work[r].ask[c]]_vars
=============================================================================
