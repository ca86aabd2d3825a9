----------------------------- MODULE RefundChat -----------------------------
(***************************************************************************)
(* A conversation about one order, message after message: what the session *)
(* remembers (app/l1_cardinal), the validator's rules on each turn, and    *)
(* the replies.  Stage 1 proposes anything in Proposals.  Requests at the  *)
(* same time are the business of ChatSession.                              *)
(***************************************************************************)
EXTENDS TurnValidator

CONSTANTS
    Order,      \* the only id that an order has
    Customers,  \* profiles a customer may have
    Bills,      \* bills the order may have
    Messages,   \* what a customer may write
    Proposals,  \* lists of actions Stage 1 may propose
    MaxTurns    \* bound on the turns of a conversation

ASSUME OrderHasId == Order \in OrderIds /\ None \notin OrderIds
ASSUME NoneIsNothing ==
    /\ None \notin Bills /\ None \notin Customers /\ None \notin Messages
    /\ None \notin {"cash", "wallet_credit", "restaurant", "rider", "app"}
ASSUME InputsTyped ==
    /\ Customers \subseteq Customer
    /\ Bills \subseteq Bill
    /\ Messages \subseteq Message
    /\ \A p \in Proposals :
          /\ p \subseteq Stage1Action /\ IsFiniteSet(p)
          /\ \A a, b \in p : a.slot = b.slot => a = b
    /\ MaxTurns \in Nat

VARIABLES
    bill,   \* the order
    owner,  \* the customer who placed it
    known,  \* the order id and the customer the session knows
    no,     \* the number of the last turn
    said,   \* the actions of all turns so far
    msg,    \* the last message, if the stages have not failed on it
    reply,  \* the actions of the reply to it, once there is one
    drafted \* what Stage 1 proposed for the reply (for the properties only)

vars == <<bill, owner, known, no, said, msg, reply, drafted>>

TypeOK ==
    /\ bill \in Bills
    /\ owner \in Customers
    /\ known \in [order : OrderIds \cup {None}, customer : Customers \cup {None}]
    /\ no \in Nat
    /\ said \in SUBSET Action
    /\ msg \in Messages \cup {None}
    /\ reply \in (SUBSET Action) \cup {None}
    /\ drafted \in Proposals \cup {{}}

Init ==
    /\ bill \in Bills
    /\ owner \in Customers
    /\ known = [order |-> None, customer |-> None]
    /\ no = 0
    /\ said = {}
    /\ msg = None
    /\ reply = None
    /\ drafted = {}

Answered == msg # None /\ reply # None
Waiting == msg # None /\ reply = None

\* The first order id mentioned is the one the session keeps.
OrderAfter == IF known.order = None THEN msg.mentioned ELSE known.order

\* The order's customer becomes known with the order.
CustomerAfter ==
    IF OrderAfter = Order /\ known.customer = None THEN owner ELSE known.customer

\* The arguments of validate().
TurnOf(sure) ==
    LET found == OrderAfter = Order
    IN [msg |-> msg, sure |-> sure, no |-> no + 1, prior |-> said,
        bill |-> IF found THEN bill ELSE None,
        id |-> IF found THEN Order ELSE msg.mentioned,
        customer |-> CustomerAfter]

Ask(m) ==
    /\ ~Waiting
    /\ no < MaxTurns
    /\ msg' = m
    /\ reply' = None
    /\ drafted' = {}
    /\ UNCHANGED <<bill, owner, known, no, said>>

\* The stages answer.
Answer(proposal, sure) ==
    /\ Waiting
    /\ reply' = Shaped(Validated(TurnOf(sure), proposal))
    /\ said' = said \cup {Unplaced(a) : a \in reply'}
    /\ known' = [order |-> OrderAfter, customer |-> CustomerAfter]
    /\ no' = no + 1
    /\ drafted' = proposal
    /\ UNCHANGED <<bill, owner, msg>>

\* A stage raises: before the ids are stored, between the two, or after.
FallBack ==
    /\ Waiting
    /\ known' \in {known, [known EXCEPT !.order = OrderAfter],
                   [order |-> OrderAfter, customer |-> CustomerAfter]}
    /\ no' = no + 1
    /\ said' = said \cup {Plain(None, "escalate_to_human")}
    /\ msg' = None
    /\ UNCHANGED <<bill, owner, reply, drafted>>

\* select_issue: ids the client names are kept if none is known.
Tap(id, c) ==
    /\ ~Waiting
    /\ no < MaxTurns
    /\ known' = [order |-> IF known.order = None THEN id ELSE known.order,
                 customer |-> IF known.customer = None THEN c ELSE known.customer]
    /\ no' = no + 1
    /\ msg' = None
    /\ reply' = None
    /\ drafted' = {}
    /\ UNCHANGED <<bill, owner, said>>

Next ==
    \/ \E m \in Messages : Ask(m)
    \/ \E p \in Proposals, sure \in BOOLEAN : Answer(p, sure)
    \/ FallBack
    \/ \E id \in OrderIds \cup {None}, c \in Customers \cup {None} : Tap(id, c)

Spec == Init /\ [][Next]_vars

-----------------------------------------------------------------------------
OrderKnown == known.order = Order
KnownAbuser == known.customer # None /\ IsLikelyAbuser(known.customer)
IsClaimOn(a) == a.type \in {"issue_refund", "file_complaint"}

\* Intents for which policy wants no money never get any, and a known abuser
\* whose order never arrived gets a flag instead: ten later rules, the matrix
\* among them, could put a refund back or take the flag away.
PolicyRoutesCarryNoRefund ==
    Answered =>
      /\ msg.intent \in {"double_charge", "rider_demanded_tip", "cancel_request"} =>
            ~Has(reply, "issue_refund")
      /\ msg.intent = "never_arrived" /\ OrderKnown /\ KnownAbuser /\ ~msg.closes =>
            ~Has(reply, "issue_refund") /\ Has(reply, "flag_abuse")

\* The most refunds that one reply may make to a clean customer on the order:
\* as many as Stage 1 proposed, or the matrix's own if it proposed none.  A
\* failed promo gets its wallet credit beside the refunds in cash.
MostRefunds ==
    LET n == Cardinality(Refunds(drafted))
    IN IF msg.intent = "promo_failed" THEN n + 1 ELSE Greatest(1, n)

\* Each refund that a clean customer gets on a known order is the matrix's
\* amount in wallet credit, whatever Stage 1 proposed, unless the matrix's
\* amount needs a human.  Two refunds that Stage 1 proposed are both kept and
\* priced so: no rule merges them, but none adds to them either.
MatrixOwnsAmounts ==
    Answered /\ OrderKnown =>
      LET t == [msg |-> msg, bill |-> bill, customer |-> known.customer]
          paid == {a \in Refunds(reply) : a.order = Order}
      IN TriesMatrix(t) /\ msg.intent \in MatrixActionable /\ AutoApproved(t) /\ Proposal(t) > 0 =>
           /\ \A a \in paid : a.amount = Proposal(t) /\ a.method = "wallet_credit"
           /\ Cardinality(paid) <= MostRefunds

\* More than the soft cap on a known order goes to a human, unless the
\* customer is gold and clean; a hand-off of earlier turns does not count.
\* Nor does a turn for which Stage 1 proposed a negative amount: it lowers the
\* total that is compared with the cap, and may be stripped from the reply.
LargeRefundsReachAHuman ==
    /\ Answered /\ OrderKnown /\ ~GoldClean(known.customer)
    /\ \A a \in drafted : a.amount >= 0
    /\ RefundTotal(reply) > SoftCap
    => Has(reply, "escalate_to_human")

\* An injection leaves a flag in the transcript and moves money only for the
\* claims that are legitimate without it.
InjectionIsTraced ==
    Answered /\ (msg.lexical \/ msg.classified) /\ ~msg.closes =>
      /\ Has(reply, "flag_abuse")
      /\ Has(reply, "issue_refund") => msg.intent \in LegitRefundIntents

\* After a flag and before a hand-off, every turn that is more than chit-chat
\* goes to a human, or gives an abuser neither money nor a complaint.
ClaimsAfterAFlagAreReviewed ==
    [][LET Before(type) == \E a \in said : a.type = type
       IN /\ Waiting /\ Answered'
          /\ Before("flag_abuse") /\ ~Before("escalate_to_human")
          /\ msg.intent \notin ChitChat /\ ~msg.closes
          => /\ Has(reply', "flag_abuse")
             /\ \/ Has(reply', "escalate_to_human")
                \/ KnownAbuser' /\ \A a \in reply' : ~IsClaimOn(a)]_vars

\* Message after message, no refund and no complaint is emitted twice: the
\* amounts that are compared with the history are those the matrix sets.
NoClaimTwice ==
    [][Waiting /\ Answered' =>
         \A a \in reply' : IsClaimOn(a) => Unplaced(a) \notin said]_vars

=============================================================================
