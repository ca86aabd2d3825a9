--------------------------- MODULE AccountsProofs ---------------------------
(***************************************************************************)
(* Proofs about Accounts, for any sets of users and threads and either     *)
(* setting of the configured super-admin.                                  *)
(***************************************************************************)
EXTENDS Accounts, TLAPS

\* The request bodies that occur, and what any body can say.
LEMMA AsksHave ==
  /\ NoAsk \in Asks
  /\ [c \in {"super"} |-> TRUE] \in Asks
  /\ \A ask \in Asks : /\ DOMAIN ask \subseteq {"active", "super"}
                       /\ \A c \in DOMAIN ask : ask[c] \in BOOLEAN
  <1>1. NoAsk \in [{} -> BOOLEAN] BY DEF NoAsk
  <1>2. [c \in {"super"} |-> TRUE] \in [{"super"} -> BOOLEAN] OBVIOUS
  <1>3. {} \in SUBSET {"active", "super"} /\ {"super"} \in SUBSET {"active", "super"}
    OBVIOUS
  <1>4. \A ask \in Asks : \E D \in SUBSET {"active", "super"} : ask \in [D -> BOOLEAN]
    BY DEF Asks
  <1>5. NoAsk \in Asks BY <1>1, <1>3 DEF Asks
  <1>6. [c \in {"super"} |-> TRUE] \in Asks BY <1>2, <1>3 DEF Asks
  <1> QED BY <1>4, <1>5, <1>6

\* A thread without a request is typed.
LEMMA IdleTyped == Idle \in Transaction
  BY AsksHave DEF Idle, Transaction, Fresh, Flags

\* Writing the asked columns over a row gives a row.
LEMMA AppliedTyped ==
  ASSUME NEW t \in Transaction, NEW row \in Flags
  PROVE  /\ Applied(t, row) \in Flags
         /\ "super" \in Writes(t) => Applied(t, row).super = t.ask.super
         /\ "super" \notin Writes(t) => Applied(t, row).super = row.super
  <1>1. Flags = [{"active", "super"} -> BOOLEAN]
    BY DEF Flags
  <1>2. t.ask \in Asks BY DEF Transaction
  <1>3. \A c \in Writes(t) : c \in DOMAIN t.ask BY DEF Writes
  <1> QED BY <1>1, <1>2, <1>3, AsksHave DEF Applied

\* The initial state is typed.
LEMMA InitTyped == Init => TypeOK
  <1> SUFFICES ASSUME Init PROVE TypeOK
    OBVIOUS
  <1>1. Fresh \in Flags BY DEF Fresh, Flags
  <1>2. work \in [Workers -> Transaction] BY IdleTyped DEF Init
  <1>3. ~HasTarget(Idle) BY DEF HasTarget, Idle, SignupSteps
  <1> QED BY <1>1, <1>2, <1>3 DEF Init, TypeOK

\* A thread that goes on to step t keeps the others' transactions typed.
LEMMA WorkTyped ==
  ASSUME TypeOK, NEW r \in Workers, NEW t \in Transaction,
         HasTarget(t) => t.target \in Users,
         work' = [work EXCEPT ![r] = t]
  PROVE  /\ work' \in [Workers -> Transaction]
         /\ \A q \in Workers : HasTarget(work'[q]) => work'[q].target \in Users
  BY DEF TypeOK

\* A thread without a request points at no user.
LEMMA IdleHasNoTarget == ~HasTarget(Idle)
  BY DEF HasTarget, Idle, SignupSteps

\* One thread's step keeps every other thread's transaction, and its own is t.
LEMMA StepTyped ==
  ASSUME TypeOK, NEW r \in Workers, Serve(r)
  PROVE  TypeOK'
  <1>0. work[r] \in Transaction /\ work \in [Workers -> Transaction]
    BY DEF TypeOK
  <1>1. ASSUME NEW u \in Users, SignupInsert(r, u) PROVE TypeOK'
    <2> DEFINE t == [Idle EXCEPT !.step = "inserted", !.target = u]
    <2>1. t \in Transaction /\ t.target = u
      BY IdleTyped DEF Transaction, SignupSteps, Idle
    <2>2. work' = [work EXCEPT ![r] = t] BY <1>1 DEF SignupInsert
    <2> HIDE DEF t
    <2> QED BY <1>1, <2>1, <2>2, WorkTyped DEF SignupInsert, TypeOK
  <1>2. CASE Promote(r)
    <2> DEFINE ask == IF work[r].target = configured
                           \/ (configured = None /\ SuperAdmins = {})
                        THEN [c \in {"super"} |-> TRUE] ELSE NoAsk
               t == [work[r] EXCEPT !.step = "promoted", !.ask = ask]
    <2>1. ask \in Asks BY AsksHave
    <2>2. work' = [work EXCEPT ![r] = t] BY <1>0, <1>2 DEF Promote
    <2> HIDE DEF ask
    <2>3. t \in Transaction /\ t.target = work[r].target
      BY <1>0, <2>1 DEF Transaction, SignupSteps
    <2>4. work[r].target \in Users
      BY <1>2 DEF Promote, TypeOK, HasTarget, SignupSteps
    <2> HIDE DEF t
    <2> QED BY <1>2, <2>2, <2>3, <2>4, WorkTyped DEF Promote, TypeOK
  <1>3. CASE SignupCommit(r)
    <2>1. Applied(work[r], Fresh) \in Flags
      BY <1>0, AppliedTyped DEF Fresh, Flags
    <2>2. work[r].target \in Users
      BY <1>3 DEF SignupCommit, TypeOK, HasTarget, SignupSteps
    <2>3. signed' \in SUBSET Users /\ accounts' \in [Users -> Flags]
      BY <1>3, <2>1, <2>2 DEF SignupCommit, TypeOK
    <2> QED
      BY <1>3, <2>3, IdleTyped, IdleHasNoTarget, WorkTyped DEF SignupCommit, TypeOK
  <1>4. ASSUME NEW a \in Users, Authorise(r, a) PROVE TypeOK'
    <2> DEFINE t == [Idle EXCEPT !.step = "authorised", !.actor = a, !.seen = accounts[a]]
    <2>1. accounts[a] \in Flags BY DEF TypeOK
    <2>2. t \in Transaction /\ ~HasTarget(t)
      BY <2>1, IdleTyped DEF Transaction, UpdateSteps, HasTarget, SignupSteps, Idle
    <2>3. work' = [work EXCEPT ![r] = t] BY <1>4 DEF Authorise
    <2> HIDE DEF t
    <2> QED BY <1>4, <2>2, <2>3, WorkTyped DEF Authorise, TypeOK
  <1>5. ASSUME NEW u \in Users, NEW ask \in Asks, LoadTarget(r, u, ask) PROVE TypeOK'
    <2> DEFINE t == [work[r] EXCEPT !.step = "loaded", !.target = u, !.ask = ask,
                        !.seen = IF u = work[r].actor THEN @ ELSE accounts[u]]
    <2>1. accounts[u] \in Flags BY DEF TypeOK
    <2>2. t \in Transaction /\ t.target = u
      BY <1>0, <2>1 DEF Transaction, UpdateSteps
    <2>3. work' = [work EXCEPT ![r] = t] BY <1>0, <1>5 DEF LoadTarget
    <2> HIDE DEF t
    <2> QED BY <1>5, <2>2, <2>3, WorkTyped DEF LoadTarget, TypeOK
  <1>6. CASE Check(r)
    <2> DEFINE t == [work[r] EXCEPT !.step = "checked"]
    <2>1. t \in Transaction /\ t.target = work[r].target
      BY <1>0 DEF Transaction, UpdateSteps
    <2>2. work' = [work EXCEPT ![r] = t] BY <1>0, <1>6 DEF Check
    <2>3. work[r].target \in Users BY <1>6 DEF Check, TypeOK, HasTarget
    <2> HIDE DEF t
    <2> QED BY <1>6, <2>1, <2>2, <2>3, WorkTyped DEF Check, TypeOK
  <1>7. CASE Flush(r)
    <2> DEFINE t == [work[r] EXCEPT !.step = "flushed"]
    <2>1. t \in Transaction /\ t.target = work[r].target
      BY <1>0 DEF Transaction, UpdateSteps
    <2>2. work' = [work EXCEPT ![r] = t] BY <1>0, <1>7 DEF Flush
    <2>3. work[r].target \in Users BY <1>7 DEF Flush, TypeOK, HasTarget
    <2> HIDE DEF t
    <2> QED BY <1>7, <2>1, <2>2, <2>3, WorkTyped DEF Flush, TypeOK
  <1>8. CASE UpdateCommit(r)
    <2>1. \A row \in Flags : Applied(work[r], row) \in Flags
      BY <1>0, AppliedTyped
    <2>2. accounts' \in [Users -> Flags] /\ overlapped' \in BOOLEAN
      BY <1>8, <2>1 DEF UpdateCommit, TypeOK
    <2> QED
      BY <1>8, <2>2, IdleTyped, IdleHasNoTarget, WorkTyped DEF UpdateCommit, TypeOK
  <1>9. CASE Rollback(r)
    BY <1>9, IdleTyped, IdleHasNoTarget, WorkTyped DEF Rollback, TypeOK
  <1> QED BY <1>1, <1>2, <1>3, <1>4, <1>5, <1>6, <1>7, <1>8, <1>9 DEF Serve

\* Type correctness: rows, transactions and bodies keep their shape.
THEOREM AccountsTyped == Spec => []TypeOK
  <1>1. TypeOK /\ [Next]_vars => TypeOK'
    <2> SUFFICES ASSUME TypeOK, [Next]_vars PROVE TypeOK'
      OBVIOUS
    <2>1. CASE UNCHANGED vars BY <2>1 DEF vars, TypeOK
    <2>2. CASE Next           BY <2>2, StepTyped DEF Next
    <2> QED BY <2>1, <2>2
  <1> QED BY InitTyped, <1>1, PTL DEF Spec

-----------------------------------------------------------------------------
(* Signups: who is being created, and with which flags.                    *)

JustSuper == [c \in {"super"} |-> TRUE]

SignupInv ==
    \A r \in Workers : work[r].step \in SignupSteps =>
        /\ work[r].target \notin signed
        /\ work[r].seen = Fresh
        /\ work[r].step = "promoted" => work[r].ask \in {NoAsk, JustSuper}
        /\ \A q \in Workers \ {r} :
              work[q].step \in SignupSteps => work[q].target # work[r].target

\* The thread's next transaction leaves the signups of the others alone.
LEMMA SignupStep ==
  ASSUME TypeOK, SignupInv, [Next]_vars
  PROVE  SignupInv'
  <1>1. CASE UNCHANGED vars BY <1>1 DEF vars, SignupInv
  <1>2. ASSUME NEW r \in Workers, Serve(r) PROVE SignupInv'
    <2>0. work \in [Workers -> Transaction] BY DEF TypeOK
    <2>i. Idle.step = "idle" /\ Idle.seen = Fresh BY DEF Idle
    <2> USE DEF SignupInv, SignupSteps
    <2>1. ASSUME NEW u \in Users, SignupInsert(r, u) PROVE SignupInv'
      <3> DEFINE t == [Idle EXCEPT !.step = "inserted", !.target = u]
      <3>1. t.step = "inserted" /\ t.target = u /\ t.seen = Fresh BY DEF Idle
      <3>2. work' = [work EXCEPT ![r] = t] BY <2>1 DEF SignupInsert
      <3> HIDE DEF t
      <3>3. work'[r] = t /\ \A q \in Workers \ {r} : work'[q] = work[q]
        BY <2>0, <3>2
      <3>4. u \notin signed' /\ signed' = signed BY <2>1 DEF SignupInsert
      <3>5. \A q \in Workers : work[q].step \in SignupSteps => work[q].target # u
        BY <2>1 DEF SignupInsert
      <3> QED BY <3>1, <3>3, <3>4, <3>5
    <2>2. CASE Promote(r)
      <3> PICK ask \in {NoAsk, JustSuper} :
              work' = [work EXCEPT ![r].step = "promoted", ![r].ask = ask]
        BY <2>2 DEF Promote, JustSuper
      <3> DEFINE t == [work[r] EXCEPT !.step = "promoted", !.ask = ask]
      <3>1. work[r] \in Transaction BY <2>0
      <3>2. /\ t.step = "promoted" /\ t.ask = ask
            /\ t.target = work[r].target /\ t.seen = work[r].seen
        BY <3>1 DEF Transaction
      <3>3. work' = [work EXCEPT ![r] = t] BY <2>0
      <3> HIDE DEF t
      <3> QED BY <2>0, <2>2, <3>2, <3>3 DEF Promote
    <2>3. CASE SignupCommit(r) BY <2>0, <2>i, <2>3 DEF SignupCommit
    <2>4. ASSUME NEW a \in Users, Authorise(r, a) PROVE SignupInv'
      <3> DEFINE t == [Idle EXCEPT !.step = "authorised", !.actor = a, !.seen = accounts[a]]
      <3>1. t.step = "authorised" BY DEF Idle
      <3>2. work' = [work EXCEPT ![r] = t] BY <2>4 DEF Authorise
      <3> HIDE DEF t
      <3> QED BY <2>0, <2>4, <3>1, <3>2 DEF Authorise
    <2>5. ASSUME NEW u \in Users, NEW ask \in Asks, LoadTarget(r, u, ask) PROVE SignupInv'
      BY <2>0, <2>5 DEF LoadTarget, Transaction
    <2>6. CASE Check(r) BY <2>0, <2>6 DEF Check, Transaction
    <2>7. CASE Flush(r) BY <2>0, <2>7 DEF Flush, Transaction
    <2>8. CASE UpdateCommit(r) BY <2>0, <2>i, <2>8 DEF UpdateCommit
    <2>9. CASE Rollback(r) BY <2>0, <2>i, <2>9 DEF Rollback
    <2> QED
      BY <1>2, <2>1, <2>2, <2>3, <2>4, <2>5, <2>6, <2>7, <2>8, <2>9 DEF Serve
  <1> QED BY <1>1, <1>2 DEF Next

\* Signups under way are of different users who have no row yet.
LEMMA SignupsHold == Spec => [](TypeOK /\ SignupInv)
  <1>1. Init => SignupInv BY DEF Init, SignupInv, SignupSteps, Idle
  <1> QED BY <1>1, SignupStep, AccountsTyped, PTL DEF Spec

\* What the commit of a signup adds to the super-admins.
LEMMA SignupAdds ==
  ASSUME TypeOK, SignupInv, NEW r \in Workers, SignupCommit(r)
  PROVE  /\ work[r].ask = NoAsk => SuperAdmins' = SuperAdmins
         /\ work[r].ask # NoAsk => SuperAdmins' = SuperAdmins \cup {work[r].target}
  <1> DEFINE u == work[r].target
  <1>1. /\ u \in Users /\ u \notin signed /\ work[r] \in Transaction
        /\ work[r].seen = Fresh /\ work[r].ask \in {NoAsk, JustSuper}
    BY DEF SignupCommit, SignupInv, SignupSteps, TypeOK, HasTarget
  <1>2. Fresh \in Flags /\ Fresh.super = FALSE BY DEF Fresh, Flags
  <1>3. ASSUME work[r].ask = NoAsk PROVE Applied(work[r], Fresh).super = FALSE
    BY <1>1, <1>2, <1>3, AppliedTyped DEF Writes, NoAsk
  <1>4. ASSUME work[r].ask # NoAsk PROVE Applied(work[r], Fresh).super = TRUE
    <2>1. work[r].ask = JustSuper BY <1>1, <1>4
    <2>2. "super" \in Writes(work[r]) BY <1>1, <1>2, <2>1 DEF Writes, JustSuper
    <2> QED BY <1>1, <1>2, <2>1, <2>2, AppliedTyped DEF JustSuper
  <1>5. /\ signed' = signed \cup {u}
        /\ accounts' = [accounts EXCEPT ![u] = Applied(work[r], Fresh)]
    BY DEF SignupCommit
  <1>6. accounts \in [Users -> Flags] /\ signed \in SUBSET Users BY DEF TypeOK
  <1> QED BY <1>1, <1>3, <1>4, <1>5, <1>6 DEF SuperAdmins

\* What the commit of an update does to them.
LEMMA UpdateEffect ==
  ASSUME TypeOK, NEW r \in Workers, UpdateCommit(r)
  PROVE  /\ SuperAdmins \ {work[r].target} \subseteq SuperAdmins'
         /\ ~Demotes(work[r]) => SuperAdmins \subseteq SuperAdmins'
  <1> DEFINE u == work[r].target
  <1>1. u \in Users /\ work[r] \in Transaction /\ accounts \in [Users -> Flags]
        /\ signed \in SUBSET Users
    BY DEF UpdateCommit, TypeOK, HasTarget
  <1>2. signed' = signed /\ accounts' = [accounts EXCEPT ![u] = Applied(work[r], accounts[u])]
    BY <1>1 DEF UpdateCommit
  <1>3. ASSUME ~Demotes(work[r]), accounts[u].super
        PROVE  Applied(work[r], accounts[u]).super
    <2>1. CASE "super" \notin Writes(work[r])
      BY <1>1, <1>3, <2>1, AppliedTyped
    <2>2. CASE "super" \in Writes(work[r])
      <3>1. work[r].seen \in Flags /\ work[r].ask \in Asks BY <1>1 DEF Transaction
      <3>2. work[r].seen.super = FALSE BY <1>3, <2>2, <3>1 DEF Demotes, Flags
      <3>3. "super" \in DOMAIN work[r].ask /\ work[r].ask["super"] # work[r].seen["super"]
        BY <2>2 DEF Writes
      <3>4. work[r].ask.super = TRUE BY <3>1, <3>2, <3>3, AsksHave
      <3> QED BY <1>1, <2>2, <3>4, AppliedTyped
    <2> QED BY <2>1, <2>2
  <1> QED BY <1>1, <1>2, <1>3 DEF SuperAdmins

-----------------------------------------------------------------------------
(* The guard of update_user holds as long as demotions do not overlap.     *)

\* Whoever is past the guard with a demotion leaves a super-admin behind, and
\* whoever signs up without the flag found one.
RemainInv ==
    configured = None /\ ~overlapped =>
        /\ signed # {} => SuperAdmins # {}
        /\ \A r \in Workers : DemotionUnderWay(r) => SuperAdmins \ {work[r].target} # {}
        /\ \A r \in Workers :
              work[r].step = "promoted" /\ work[r].ask = NoAsk => SuperAdmins # {}

\* A step that keeps the rows and gives thread r transaction t.
LEMMA RemainFrame ==
  ASSUME TypeOK, RemainInv, NEW r \in Workers, NEW t,
         work' = [work EXCEPT ![r] = t],
         UNCHANGED <<signed, accounts, overlapped, configured>>,
         configured = None /\ ~overlapped =>
           /\ t.step \in {"checked", "flushed"} /\ Demotes(t) => SuperAdmins \ {t.target} # {}
           /\ t.step = "promoted" /\ t.ask = NoAsk => SuperAdmins # {}
  PROVE  RemainInv'
  <1>1. work'[r] = t /\ \A q \in Workers \ {r} : work'[q] = work[q]
    BY DEF TypeOK
  <1>2. SuperAdmins' = SuperAdmins BY DEF SuperAdmins
  <1>3. DemotionUnderWay(r)' <=> t.step \in {"checked", "flushed"} /\ Demotes(t)
    BY <1>1 DEF DemotionUnderWay, Demotes, Writes
  <1>4. \A q \in Workers \ {r} : DemotionUnderWay(q)' <=> DemotionUnderWay(q)
    BY <1>1 DEF DemotionUnderWay, Demotes, Writes
  <1> QED BY <1>1, <1>2, <1>3, <1>4 DEF RemainInv

\* No step takes the last super-admin away unless demotions overlap.
LEMMA RemainStep ==
  ASSUME TypeOK, SignupInv, RemainInv, [Next]_vars
  PROVE  RemainInv'
  <1>1. CASE UNCHANGED vars
    BY <1>1 DEF vars, RemainInv, SuperAdmins, DemotionUnderWay, Demotes, Writes
  <1>2. ASSUME NEW r \in Workers, Serve(r) PROVE RemainInv'
    <2>0. work \in [Workers -> Transaction] /\ work[r] \in Transaction BY DEF TypeOK
    <2>i. Idle.step = "idle" BY DEF Idle
    <2>1. ASSUME NEW u \in Users, SignupInsert(r, u) PROVE RemainInv'
      <3> DEFINE t == [Idle EXCEPT !.step = "inserted", !.target = u]
      <3>1. t.step = "inserted" BY DEF Idle
      <3>2. work' = [work EXCEPT ![r] = t] BY <2>1 DEF SignupInsert
      <3> HIDE DEF t
      <3> QED BY <2>1, <3>1, <3>2, RemainFrame DEF SignupInsert
    <2>2. CASE Promote(r)
      <3> DEFINE ask == IF work[r].target = configured
                             \/ (configured = None /\ SuperAdmins = {})
                          THEN JustSuper ELSE NoAsk
                 t == [work[r] EXCEPT !.step = "promoted", !.ask = ask]
      <3>1. work' = [work EXCEPT ![r] = t] BY <2>0, <2>2 DEF Promote, JustSuper
      <3>2. ask = NoAsk /\ configured = None => SuperAdmins # {}
        <4>1. JustSuper # NoAsk
          <5>1. DOMAIN JustSuper = {"super"} /\ DOMAIN NoAsk = {} BY DEF JustSuper, NoAsk
          <5> QED BY <5>1
        <4> QED BY <4>1
      <3> HIDE DEF ask
      <3>3. t.step = "promoted" /\ t.ask = ask BY <2>0 DEF Transaction
      <3> HIDE DEF t
      <3> QED BY <2>2, <3>1, <3>2, <3>3, RemainFrame DEF Promote
    <2>3. CASE SignupCommit(r)
      <3>1. /\ SuperAdmins \subseteq SuperAdmins'
            /\ work[r].ask # NoAsk => SuperAdmins' # {}
        BY <2>3, SignupAdds
      <3>2. work'[r] = Idle /\ \A q \in Workers \ {r} : work'[q] = work[q]
        BY <2>0, <2>3 DEF SignupCommit
      <3>3. configured' = configured /\ overlapped' = overlapped /\ work[r].step = "promoted"
        BY <2>3 DEF SignupCommit
      <3>4. \A q \in Workers : DemotionUnderWay(q)' => q # r /\ DemotionUnderWay(q)
        BY <2>i, <3>2 DEF DemotionUnderWay, Demotes, Writes
      <3> QED BY <2>i, <3>1, <3>2, <3>3, <3>4 DEF RemainInv
    <2>4. ASSUME NEW a \in Users, Authorise(r, a) PROVE RemainInv'
      <3> DEFINE t == [Idle EXCEPT !.step = "authorised", !.actor = a, !.seen = accounts[a]]
      <3>1. t.step = "authorised" BY DEF Idle
      <3>2. work' = [work EXCEPT ![r] = t] BY <2>4 DEF Authorise
      <3> HIDE DEF t
      <3> QED BY <2>4, <3>1, <3>2, RemainFrame DEF Authorise
    <2>5. ASSUME NEW u \in Users, NEW ask \in Asks, LoadTarget(r, u, ask) PROVE RemainInv'
      <3> DEFINE t == [work[r] EXCEPT !.step = "loaded", !.target = u, !.ask = ask,
                          !.seen = IF u = work[r].actor THEN @ ELSE accounts[u]]
      <3>1. t.step = "loaded" BY <2>0 DEF Transaction
      <3>2. work' = [work EXCEPT ![r] = t] BY <2>0, <2>5 DEF LoadTarget
      <3> HIDE DEF t
      <3> QED BY <2>5, <3>1, <3>2, RemainFrame DEF LoadTarget
    <2>6. CASE Check(r)
      <3> DEFINE t == [work[r] EXCEPT !.step = "checked"]
      <3>1. /\ t.step = "checked" /\ t.target = work[r].target
            /\ t.ask = work[r].ask /\ t.seen = work[r].seen
        BY <2>0 DEF Transaction
      <3>2. work' = [work EXCEPT ![r] = t] BY <2>0, <2>6 DEF Check
      <3>3. Demotes(work[r]) => AsksDemotion(work[r])
        <4>1. work[r].ask \in Asks BY <2>0 DEF Transaction
        <4> QED BY <4>1, AsksHave DEF Demotes, AsksDemotion, Writes
      <3> HIDE DEF t
      <3>4. Demotes(t) <=> Demotes(work[r]) BY <3>1 DEF Demotes, Writes
      <3> QED BY <2>6, <3>1, <3>2, <3>3, <3>4, RemainFrame DEF Check
    <2>7. CASE Flush(r)
      <3> DEFINE t == [work[r] EXCEPT !.step = "flushed"]
      <3>1. /\ t.step = "flushed" /\ t.target = work[r].target
            /\ t.ask = work[r].ask /\ t.seen = work[r].seen
        BY <2>0 DEF Transaction
      <3>2. work' = [work EXCEPT ![r] = t] BY <2>0, <2>7 DEF Flush
      <3> HIDE DEF t
      <3>3. Demotes(t) => DemotionUnderWay(r)
        BY <2>7, <3>1 DEF Flush, DemotionUnderWay, Demotes, Writes
      <3> QED BY <2>7, <3>1, <3>2, <3>3, RemainFrame DEF Flush, RemainInv
    <2>8. CASE UpdateCommit(r)
      <3>1. work'[r] = Idle /\ \A q \in Workers \ {r} : work'[q] = work[q]
        BY <2>0, <2>8 DEF UpdateCommit
      <3>2. \A q \in Workers : DemotionUnderWay(q)' => q # r /\ DemotionUnderWay(q)
        BY <2>i, <3>1 DEF DemotionUnderWay, Demotes, Writes
      <3>3. signed' = signed /\ configured' = configured BY <2>8 DEF UpdateCommit
      <3>4. CASE ~Demotes(work[r])
        BY <2>8, <2>i, <3>1, <3>2, <3>3, <3>4, UpdateEffect DEF UpdateCommit, RemainInv
      <3>5. CASE Demotes(work[r])
        <4>1. DemotionUnderWay(r) BY <2>8, <3>5 DEF UpdateCommit, DemotionUnderWay
        <4>2. ~overlapped' => ~overlapped /\ \A q \in Workers \ {r} : ~DemotionUnderWay(q)
          BY <2>8, <3>5 DEF UpdateCommit
        <4>3. configured = None /\ ~overlapped => SuperAdmins' # {}
          BY <2>8, <4>1, UpdateEffect DEF RemainInv
        <4> QED BY <3>2, <3>3, <4>2, <4>3 DEF RemainInv
      <3> QED BY <3>4, <3>5
    <2>9. CASE Rollback(r) BY <2>i, <2>9, RemainFrame DEF Rollback
    <2> QED
      BY <1>2, <2>1, <2>2, <2>3, <2>4, <2>5, <2>6, <2>7, <2>8, <2>9 DEF Serve
  <1> QED BY <1>1, <1>2 DEF Next

\* The guard "against demoting the last super_admin" is enough as long as
\* no two demotions overlap, whatever else runs beside them.
THEOREM GuardSuffices == Spec => []SuperAdminRemains
  <1>1. Init => RemainInv
    BY DEF Init, RemainInv, DemotionUnderWay, Idle
  <1>2. RemainInv => SuperAdminRemains BY DEF RemainInv, SuperAdminRemains
  <1> QED BY <1>1, <1>2, RemainStep, SignupsHold, PTL DEF Spec

-----------------------------------------------------------------------------
(* Where the flag comes from.                                              *)

OriginInv ==
    configured # None =>
        /\ SuperAdmins # {} => configured \in signed
        /\ \A r \in Workers : work[r].step \in UpdateSteps => configured \in signed
        /\ \A r \in Workers :
              work[r].step = "promoted" /\ work[r].ask # NoAsk => work[r].target = configured

\* A step that leaves users and flags alone keeps the origin.
LEMMA OriginFrame ==
  ASSUME TypeOK, OriginInv, NEW r \in Workers, NEW t,
         work' = [work EXCEPT ![r] = t],
         UNCHANGED <<signed, accounts, configured>>,
         configured # None =>
           /\ t.step \in UpdateSteps => configured \in signed
           /\ t.step = "promoted" /\ t.ask # NoAsk => t.target = configured
  PROVE  OriginInv'
  <1>1. work'[r] = t /\ \A q \in Workers \ {r} : work'[q] = work[q]
    BY DEF TypeOK
  <1>2. SuperAdmins' = SuperAdmins BY DEF SuperAdmins
  <1> QED BY <1>1, <1>2 DEF OriginInv

\* No step makes a super-admin before the configured user signed up.
LEMMA OriginStep ==
  ASSUME TypeOK, SignupInv, OriginInv, [Next]_vars
  PROVE  OriginInv'
  <1>1. CASE UNCHANGED vars BY <1>1 DEF vars, OriginInv, SuperAdmins
  <1>2. ASSUME NEW r \in Workers, Serve(r) PROVE OriginInv'
    <2>0. work \in [Workers -> Transaction] /\ work[r] \in Transaction BY DEF TypeOK
    <2>i. Idle.step = "idle" BY DEF Idle
    <2> USE DEF UpdateSteps
    <2>1. ASSUME NEW u \in Users, SignupInsert(r, u) PROVE OriginInv'
      <3> DEFINE t == [Idle EXCEPT !.step = "inserted", !.target = u]
      <3>1. t.step = "inserted" BY DEF Idle
      <3>2. work' = [work EXCEPT ![r] = t] BY <2>1 DEF SignupInsert
      <3> HIDE DEF t
      <3> QED BY <2>1, <3>1, <3>2, OriginFrame DEF SignupInsert
    <2>2. CASE Promote(r)
      <3> DEFINE ask == IF work[r].target = configured
                             \/ (configured = None /\ SuperAdmins = {})
                          THEN JustSuper ELSE NoAsk
                 t == [work[r] EXCEPT !.step = "promoted", !.ask = ask]
      <3>1. work' = [work EXCEPT ![r] = t] BY <2>0, <2>2 DEF Promote, JustSuper
      <3>2. configured # None /\ ask # NoAsk => work[r].target = configured OBVIOUS
      <3> HIDE DEF ask
      <3>3. t.step = "promoted" /\ t.ask = ask /\ t.target = work[r].target
        BY <2>0 DEF Transaction
      <3> HIDE DEF t
      <3> QED BY <2>2, <3>1, <3>2, <3>3, OriginFrame DEF Promote
    <2>3. CASE SignupCommit(r)
      <3>1. work'[r] = Idle /\ \A q \in Workers \ {r} : work'[q] = work[q]
        BY <2>0, <2>3 DEF SignupCommit
      <3>2. configured' = configured /\ signed' = signed \cup {work[r].target} /\ work[r].step = "promoted"
        BY <2>3 DEF SignupCommit
      <3> QED BY <2>i, <2>3, <3>1, <3>2, SignupAdds DEF OriginInv
    <2>4. ASSUME NEW a \in Users, Authorise(r, a) PROVE OriginInv'
      <3> DEFINE t == [Idle EXCEPT !.step = "authorised", !.actor = a, !.seen = accounts[a]]
      <3>1. t.step = "authorised" BY DEF Idle
      <3>2. work' = [work EXCEPT ![r] = t] BY <2>4 DEF Authorise
      <3> HIDE DEF t
      <3>3. configured # None => configured \in signed BY <2>4 DEF Authorise, OriginInv
      <3> QED BY <2>4, <3>1, <3>2, <3>3, OriginFrame DEF Authorise
    <2>5. ASSUME NEW u \in Users, NEW ask \in Asks, LoadTarget(r, u, ask) PROVE OriginInv'
      <3> DEFINE t == [work[r] EXCEPT !.step = "loaded", !.target = u, !.ask = ask,
                          !.seen = IF u = work[r].actor THEN @ ELSE accounts[u]]
      <3>1. t.step = "loaded" BY <2>0 DEF Transaction
      <3>2. work' = [work EXCEPT ![r] = t] BY <2>0, <2>5 DEF LoadTarget
      <3> HIDE DEF t
      <3>3. configured # None => configured \in signed BY <2>5 DEF LoadTarget, OriginInv
      <3> QED BY <2>5, <3>1, <3>2, <3>3, OriginFrame DEF LoadTarget
    <2>6. CASE Check(r)
      <3> DEFINE t == [work[r] EXCEPT !.step = "checked"]
      <3>1. t.step = "checked" BY <2>0 DEF Transaction
      <3>2. work' = [work EXCEPT ![r] = t] BY <2>0, <2>6 DEF Check
      <3> HIDE DEF t
      <3>3. configured # None => configured \in signed BY <2>6 DEF Check, OriginInv
      <3> QED BY <2>6, <3>1, <3>2, <3>3, OriginFrame DEF Check
    <2>7. CASE Flush(r)
      <3> DEFINE t == [work[r] EXCEPT !.step = "flushed"]
      <3>1. t.step = "flushed" BY <2>0 DEF Transaction
      <3>2. work' = [work EXCEPT ![r] = t] BY <2>0, <2>7 DEF Flush
      <3> HIDE DEF t
      <3>3. configured # None => configured \in signed BY <2>7 DEF Flush, OriginInv
      <3> QED BY <2>7, <3>1, <3>2, <3>3, OriginFrame DEF Flush
    <2>8. CASE UpdateCommit(r)
      <3>1. work'[r] = Idle /\ \A q \in Workers \ {r} : work'[q] = work[q]
        BY <2>0, <2>8 DEF UpdateCommit
      <3>2. configured' = configured /\ signed' = signed /\ work[r].step = "flushed" BY <2>8 DEF UpdateCommit
      <3> QED BY <2>i, <3>1, <3>2 DEF OriginInv
    <2>9. CASE Rollback(r) BY <2>i, <2>9, OriginFrame DEF Rollback
    <2> QED
      BY <1>2, <2>1, <2>2, <2>3, <2>4, <2>5, <2>6, <2>7, <2>8, <2>9 DEF Serve
  <1> QED BY <1>1, <1>2 DEF Next

\* With a configured email the super-admin flag starts with that user: no
\* race of signups and updates creates a super-admin before he signed up.
THEOREM ConfiguredIsTheOrigin == Spec => []SuperAdminHasAnOrigin
  <1>1. Init => OriginInv
    BY DEF Init, OriginInv, SuperAdmins, Idle, UpdateSteps
  <1>2. OriginInv => SuperAdminHasAnOrigin BY DEF OriginInv, SuperAdminHasAnOrigin
  <1> QED BY <1>1, <1>2, OriginStep, SignupsHold, PTL DEF Spec

-----------------------------------------------------------------------------
(* Lost updates.                                                           *)

\* The ORM's column-wise UPDATE keeps what others changed: a column takes only
\* the value that the committing request asked for.
THEOREM NoLostFlags == Spec => OnlyAskedChanges
  <1> DEFINE Asked(u, c) ==
               \E r \in Workers :
                  /\ work[r].step = "flushed" /\ work'[r].step = "idle"
                  /\ work[r].target = u
                  /\ c \in DOMAIN work[r].ask /\ accounts'[u][c] = work[r].ask[c]
             Step == \A u \in signed, c \in {"active", "super"} :
                        accounts'[u][c] # accounts[u][c] => Asked(u, c)
  <1>1. TypeOK /\ SignupInv /\ [Next]_vars => [Step]_vars
    <2> SUFFICES ASSUME TypeOK, SignupInv, NEW r \in Workers, Serve(r),
                        NEW u \in signed, NEW c \in {"active", "super"},
                        accounts'[u][c] # accounts[u][c]
                 PROVE  Asked(u, c)
      BY DEF Next
    <2>0. u \in Users /\ accounts \in [Users -> Flags] /\ work \in [Workers -> Transaction]
      BY DEF TypeOK
    <2>1. SignupCommit(r) \/ UpdateCommit(r)
      BY DEF Serve, SignupInsert, Promote, Authorise, LoadTarget, Check, Flush, Rollback
    <2>2. ~SignupCommit(r)
      BY <2>0 DEF SignupCommit, SignupInv, SignupSteps, TypeOK, HasTarget
    <2>3. /\ UpdateCommit(r) /\ work[r].step = "flushed" /\ work'[r] = Idle
          /\ accounts' = [accounts EXCEPT ![work[r].target] = Applied(work[r], @)]
      BY <2>0, <2>1, <2>2 DEF UpdateCommit
    <2>4. work[r].target = u BY <2>0, <2>3
    <2>5. accounts'[u] = Applied(work[r], accounts[u]) BY <2>0, <2>3, <2>4
    <2>6. c \in Writes(work[r]) /\ accounts'[u][c] = work[r].ask[c]
      BY <2>5 DEF Applied
    <2> QED BY <2>3, <2>4, <2>6 DEF Writes, Idle
  <1>2. Spec => [][Step]_vars BY <1>1, SignupsHold, PTL DEF Spec
  <1> QED BY <1>2 DEF OnlyAskedChanges
=============================================================================
