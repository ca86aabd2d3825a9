--------------------------- MODULE TurnValidator ---------------------------
(***************************************************************************)
(* Stage 2 (app/l2_agents/stage2_validator.py) and the shaping of actions  *)
(* by Stage 3, as operators on one turn.  No rule looks at the order of    *)
(* the list of actions, so it is a set whose members have a slot: Stage    *)
(* 1's entries have slots of their own, an action that a rule adds has the *)
(* slot named for what it is.                                              *)
(*                                                                         *)
(* A turn t is a record: the message, Stage 1's confidence (sure: not      *)
(* below the floor), its number, the order that was found (bill, None if   *)
(* there is none), the order id the rules put into new actions (id), the   *)
(* customer as far as known, and the actions of earlier turns (prior).     *)
(***************************************************************************)
EXTENDS RefundPolicy, FiniteSetsExt

CONSTANTS
    OrderIds,    \* ids of orders, also of those that do not exist
    Stage1Slots  \* places in Stage 1's list of actions

SoftCap == 1500
SoftAbuserIntents == {"cold_food", "missing_item"}
LegitRefundIntents ==
    {"missing_item", "wrong_order", "cold_food", "never_arrived", "promo_failed"}
MatrixActionable ==
    {"missing_item", "cold_food", "wrong_order", "never_arrived", "rider_late",
     "promo_failed", "rider_rude", "rider_demanded_tip", "double_charge"}
ChitChat == {"cancel_request", "human_request", "other"}

\* What Phase 1 and Stage 0 make of a text: lexical and classified are the two
\* detections of an injection, human says that it has a word for a human.
Message ==
    [intent : Intents, mentioned : OrderIds \cup {None}, lexical : BOOLEAN,
     classified : BOOLEAN, verbal : BOOLEAN, closes : BOOLEAN, human : BOOLEAN]

Bill == [total : Nat \ {0}, recent : BOOLEAN]

AddedSlots == {"refund", "complaint", "escalate", "flag", "close"}

\* An amount is Optional[int] without a bound: a null one counts as 0, a
\* negative one is an amount like others.
Action ==
    [slot : Stage1Slots \cup AddedSlots \cup {None},
     type : {"issue_refund", "file_complaint", "escalate_to_human", "flag_abuse", "close"},
     order : OrderIds \cup {None}, amount : Int, method : {"cash", "wallet_credit", None},
     target : {"restaurant", "rider", "app", None}]

\* What Stage 1 may list. Fields that its type does not have are empty: no
\* rule reads them.
Stage1Action ==
    {a \in Action :
        /\ a.slot \in Stage1Slots
        /\ a.type # "issue_refund" => a.amount = 0 /\ a.method = None
        /\ a.type # "file_complaint" => a.target = None
        /\ a.type \in {"issue_refund", "file_complaint"} \/ a.order = None}

Plain(slot, type) ==
    [slot |-> slot, type |-> type, order |-> None, amount |-> 0, method |-> None, target |-> None]
Refund(slot, id, n) ==
    [Plain(slot, "issue_refund") EXCEPT !.order = id, !.amount = n, !.method = "wallet_credit"]
Complaint(slot, id, target) ==
    [Plain(slot, "file_complaint") EXCEPT !.order = id, !.target = target]

\* As the transcript keeps it.
Unplaced(a) == [a EXCEPT !.slot = None]

Refunds(acts) == {a \in acts : a.type = "issue_refund"}
Has(acts, type) == \E a \in acts : a.type = type
Without(acts, type) == {a \in acts : a.type # type}

Escalated(acts) ==
    IF Has(acts, "escalate_to_human") THEN acts
    ELSE acts \cup {Plain("escalate", "escalate_to_human")}
Flagged(acts) ==
    IF Has(acts, "flag_abuse") THEN acts ELSE acts \cup {Plain("flag", "flag_abuse")}
Complained(acts, id, target) ==
    IF \E a \in acts : a.type = "file_complaint" /\ a.target = target
      THEN acts ELSE acts \cup {Complaint("complaint", id, target)}

\* _refund_total().
RefundTotal(acts) == MapThenSumSet(LAMBDA a : a.amount, Refunds(acts))

Found(t) == t.bill # None
Abuser(t) == t.customer # None /\ IsLikelyAbuser(t.customer)
HandedOff(t) == \E a \in t.prior : a.type = "escalate_to_human"
FlaggedBefore(t) == \E a \in t.prior : a.type = "flag_abuse"
Injected(t) == t.msg.lexical \/ t.msg.classified

\* needs_order_id_info, and awaiting_order_id with the customer's abuse score.
NeedsOrderId(t) ==
    /\ t.msg.intent \in MatrixActionable
    /\ ~Found(t)
    /\ t.no <= 2
    /\ ~t.msg.lexical /\ ~t.msg.verbal
    /\ ~HandedOff(t)
AwaitingOrderId(t) == NeedsOrderId(t) /\ ~Abuser(t)

-----------------------------------------------------------------------------
(* The rules, in the order of validate().                                  *)

Capped(t, acts) ==
    {IF Found(t) /\ a.type = "issue_refund" /\ a.amount > t.bill.total
       THEN [a EXCEPT !.amount = t.bill.total] ELSE a : a \in acts}

PromoCredit(t) == Greatest(50, t.bill.total \div 10)
HasWalletRefund(acts) ==
    \E a \in acts : a.type = "issue_refund" /\ a.method = "wallet_credit"
PromoSettled(t, acts) ==
    Complained(IF HasWalletRefund(acts) THEN acts
               ELSE acts \cup {Refund("refund", t.id, PromoCredit(t))}, t.id, "app")

HumanAsked(t, acts) ==
    IF t.no <= 1 /\ ~Found(t) /\ Has(acts, "escalate_to_human")
      THEN Without(acts, "escalate_to_human")
      ELSE IF t.no >= 2 /\ t.msg.human THEN Escalated(acts) ELSE acts

\* Mutated form: a tip claim keeps the refund Stage 1 proposed.
ForceRoutedKeepingTip(t, acts) ==
    CASE t.msg.intent = "double_charge" ->
           Complained(Without(acts, "issue_refund"), t.id, "app")
      [] t.msg.intent = "promo_failed" /\ Found(t) /\ t.bill.recent -> PromoSettled(t, acts)
      [] t.msg.intent = "cancel_request" -> {}
      [] t.msg.intent = "human_request" -> HumanAsked(t, acts)
      [] t.msg.intent = "rider_demanded_tip" -> Complained(acts, t.id, "rider")
      [] OTHER -> acts

ForceRouted(t, acts) ==
    CASE t.msg.intent = "double_charge" ->
           Complained(Without(acts, "issue_refund"), t.id, "app")
      [] t.msg.intent = "promo_failed" /\ Found(t) /\ t.bill.recent -> PromoSettled(t, acts)
      [] t.msg.intent = "cancel_request" -> {}
      [] t.msg.intent = "human_request" -> HumanAsked(t, acts)
      [] t.msg.intent = "rider_demanded_tip" ->
           Complained(Without(acts, "issue_refund"), t.id, "rider")
      [] OTHER -> acts

NeverArrivedRefused(t, acts) ==
    IF t.msg.intent = "never_arrived" /\ Found(t) /\ Abuser(t)
      THEN Flagged(Escalated(Without(acts, "issue_refund"))) ELSE acts

Token(t) == Least(300, t.bill.total)
SmallClaims(acts) ==
    {a \in acts : a.type = "issue_refund" => a.amount <= 300}
AbuserTokened(t, acts) ==
    IF t.msg.intent \in SoftAbuserIntents /\ Found(t) /\ Abuser(t) /\ ~HandedOff(t)
      THEN LET small == SmallClaims(acts)
           IN Flagged(Escalated(IF Has(small, "issue_refund") THEN small
                 ELSE small \cup {Refund("refund", t.id, Token(t))}))
      ELSE acts

\* Mutated form: only the detection of Phase 1 counts.
InjectionStrippedLexically(t, acts) ==
    IF t.msg.lexical
      THEN Flagged(IF t.msg.intent \in LegitRefundIntents THEN acts
                   ELSE Without(acts, "issue_refund"))
      ELSE acts

InjectionStripped(t, acts) ==
    IF Injected(t)
      THEN Flagged(IF t.msg.intent \in LegitRefundIntents THEN acts
                   ELSE Without(acts, "issue_refund"))
      ELSE acts

VerbalEscalated(t, acts) == IF t.msg.verbal THEN Escalated(acts) ELSE acts

OrderIdAwaited(t, acts) ==
    IF AwaitingOrderId(t) THEN Without(acts, "escalate_to_human") ELSE acts

-----------------------------------------------------------------------------
\* should_try_matrix, and the proposal is within the cap.
TriesMatrix(t) ==
    /\ Found(t)
    /\ ~Injected(t) /\ ~t.msg.verbal
    /\ ~Abuser(t)
Proposal(t) == MatrixRefund(t.msg.intent, t.bill.total, t.customer)
Target(t) == Matrix[t.msg.intent].target
AutoApproved(t) == WithinCap(Proposal(t), t.bill.total, t.customer)

MatrixFilled(t, acts) ==
    IF /\ TriesMatrix(t)
       /\ \A a \in acts : a.type \in {"escalate_to_human", "close"}
       /\ Target(t) # None
       /\ AutoApproved(t)
      THEN LET calm == Without(acts, "escalate_to_human")
           IN calm \cup {Complaint("complaint", t.id, Target(t))}
                   \cup IF Proposal(t) > 0 THEN {Refund("refund", t.id, Proposal(t))} ELSE {}
      ELSE acts

\* Mutated form: an amount below the matrix's is left alone.
RepricedDownwards(t, a) ==
    IF a.type = "issue_refund" /\ a.order \in {None, t.id} /\ a.amount > Proposal(t)
      THEN Refund(a.slot, t.id, Proposal(t)) ELSE a

\* A refund of this order, or of none.
Repriced(t, a) ==
    IF /\ a.type = "issue_refund" /\ a.order \in {None, t.id}
       /\ a.amount # Proposal(t) \/ a.method # "wallet_credit"
      THEN Refund(a.slot, t.id, Proposal(t)) ELSE a

MatrixOverridden(t, acts) ==
    IF TriesMatrix(t) /\ t.msg.intent \in MatrixActionable
      THEN LET priced == IF AutoApproved(t) /\ Proposal(t) > 0
                           THEN {Repriced(t, a) : a \in acts} ELSE acts
           IN IF Has(acts, "issue_refund") THEN Complained(priced, t.id, Target(t)) ELSE priced
      ELSE acts

Deduped(t, acts) ==
    {a \in acts : a.type \in {"issue_refund", "file_complaint"} => Unplaced(a) \notin t.prior}

\* Mutated form: of an abuser's actions only money and escalations go.
PivotedKeepingComplaints(t, acts) ==
    IF FlaggedBefore(t) /\ t.msg.intent \notin ChitChat /\ ~HandedOff(t)
      THEN IF Abuser(t)
             THEN Flagged({a \in acts : a.type \notin {"issue_refund", "escalate_to_human"}})
             ELSE Flagged(Escalated(acts))
      ELSE acts

Pivoted(t, acts) ==
    IF FlaggedBefore(t) /\ t.msg.intent \notin ChitChat /\ ~HandedOff(t)
      THEN IF Abuser(t)
             THEN Flagged({a \in acts : a.type = "flag_abuse"})
             ELSE Flagged(Escalated(acts))
      ELSE acts

-----------------------------------------------------------------------------
\* Mutated form: every gold customer is above the soft cap.
DowngradedUnlessGold(t, acts) ==
    IF /\ ~t.sure \/ (RefundTotal(acts) > SoftCap
                         /\ ~(t.customer # None /\ t.customer.tier = "gold"))
       /\ ~AwaitingOrderId(t)
      THEN Escalated(acts) ELSE acts

Downgraded(t, acts) ==
    IF /\ ~t.sure \/ (RefundTotal(acts) > SoftCap /\ ~GoldClean(t.customer))
       /\ ~AwaitingOrderId(t)
      THEN Escalated(acts) ELSE acts

Collapsed(t, acts) ==
    IF /\ HandedOff(t) /\ acts # {}
       /\ \A a \in acts : a.type \in {"escalate_to_human", "close"}
      THEN LET calm == Without(acts, "escalate_to_human")
           IN IF Has(calm, "close") THEN calm ELSE {Plain("close", "close")}
      ELSE acts

OrderlessDropped(acts) ==
    {a \in acts : a.type \in {"issue_refund", "file_complaint"} => a.order # None}

SafetyNet(t, acts) ==
    IF acts # {} \/ t.msg.intent = "cancel_request" \/ NeedsOrderId(t) THEN acts
    ELSE IF Abuser(t) /\ t.msg.intent \in MatrixActionable /\ ~HandedOff(t)
           THEN Flagged(Escalated(acts))
           ELSE {Plain("close", "close")}

-----------------------------------------------------------------------------
\* The rules on this turn, the matrix and the history, and the last ones.
Routed(t, acts) ==
    OrderIdAwaited(t, VerbalEscalated(t, InjectionStripped(t, AbuserTokened(t,
        NeverArrivedRefused(t, ForceRouted(t, Capped(t, acts)))))))
\* Mutated form: the history is looked up before the matrix sets the amounts.
ResolvedDedupingFirst(t, acts) ==
    Pivoted(t, MatrixOverridden(t, MatrixFilled(t, Deduped(t, acts))))

Resolved(t, acts) == Pivoted(t, Deduped(t, MatrixOverridden(t, MatrixFilled(t, acts))))
Settled(t, acts) == SafetyNet(t, OrderlessDropped(Collapsed(t, Downgraded(t, acts))))

Validated(t, acts) ==
    IF t.msg.closes THEN {Plain("close", "close")}
    ELSE Settled(t, Resolved(t, Routed(t, acts)))

\* _to_simulator_action(): what lacks a field of the simulator's schema goes.
Shaped(acts) ==
    {a \in acts :
        /\ a.type = "issue_refund" => a.order # None /\ a.amount # 0 /\ a.method # None
        /\ a.type = "file_complaint" => a.order # None /\ a.target # None}
=============================================================================
