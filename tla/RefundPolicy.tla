---------------------------- MODULE RefundPolicy ----------------------------
(***************************************************************************)
(* The deterministic policies of app/policies: the refund matrix, the caps *)
(* under which a refund is approved without a human, and the score that    *)
(* marks a customer as a likely abuser.  Amounts are whole rupees, rates   *)
(* are compared as fractions, percentages stand for the code's floats.     *)
(***************************************************************************)
EXTENDS Integers

CONSTANTS
    None,      \* no order, no customer, no value
    RoundsUp   \* the ties <<n, d>> for which the float n / d rounds up

Intents ==
    {"missing_item", "wrong_order", "cold_food", "rider_late", "rider_rude",
     "rider_demanded_tip", "never_arrived", "double_charge", "promo_failed",
     "cancel_request", "human_request", "vague", "other"}

Least(m, n) == IF m <= n THEN m ELSE n
Greatest(m, n) == IF m >= n THEN m ELSE n

\* int(round(n / d)): the nearest integer.  Ties are decided by the last bit
\* of a float product, which RoundsUp stands for.
Rounded(n, d) ==
    LET q == n \div d
        r == n % d
    IN IF 2 * r < d \/ (2 * r = d /\ <<n, d>> \notin RoundsUp) THEN q ELSE q + 1

-----------------------------------------------------------------------------
(* What is known of a customer, and what follows from it.                  *)

Customer ==
    [tier : {"bronze", "silver", "gold"}, age : Nat, orders : Nat, complaints : Nat,
     rejected : Nat, refunds : Nat, refunded : Nat]

IsLikelyAbuser(c) ==
    \/ c.age < 30 /\ c.complaints >= 2
    \/ /\ c.orders > 0 /\ 2 * c.complaints > c.orders
       /\ c.complaints > 0 /\ 2 * c.rejected > c.complaints
    \/ c.refunded > 2000 /\ ((c.complaints > 0 /\ c.rejected > 0) \/ c.refunds >= 4)

\* The rates are rounded to three digits before they are compared with 0.3
\* and with 0.
HasCleanHistory(c) ==
    /\ ~IsLikelyAbuser(c)
    /\ c.orders > 0 => 2000 * c.complaints <= 601 * c.orders
    /\ c.complaints > 0 => 2000 * c.rejected <= c.complaints

GoldClean(c) == c # None /\ c.tier = "gold" /\ HasCleanHistory(c)

-----------------------------------------------------------------------------
(* The matrix.                                                             *)

Row(pct, floor, target) == [pct |-> pct, floor |-> floor, target |-> target]

Matrix ==
    [missing_item       |-> Row(50, 50, "restaurant"),
     wrong_order        |-> Row(100, 0, "restaurant"),
     cold_food          |-> Row(30, 50, "restaurant"),
     never_arrived      |-> Row(100, 0, "rider"),
     rider_late         |-> Row(10, 50, "rider"),
     rider_rude         |-> Row(0, 0, "rider"),
     rider_demanded_tip |-> Row(0, 0, "rider"),
     double_charge      |-> Row(0, 0, "app"),
     promo_failed       |-> Row(10, 50, "app"),
     cancel_request     |-> Row(0, 0, None),
     human_request      |-> Row(0, 0, None),
     vague              |-> Row(0, 0, None),
     other              |-> Row(0, 0, None)]

\* In percent.
TierMultiplier(c) ==
    IF c = None THEN 100
    ELSE LET m == 100 + (IF c.tier = "gold" THEN 15 ELSE 0)
                      + (IF c.orders > 100 THEN 10 ELSE 0)
                      - (IF IsLikelyAbuser(c) THEN 30 ELSE 0)
         IN Greatest(50, Least(130, m))

BaseAmount(intent, total) ==
    LET n == Rounded(total * Matrix[intent].pct, 100)
    IN IF Matrix[intent].pct > 0 /\ n < Matrix[intent].floor
         THEN Least(Matrix[intent].floor, total) ELSE n

\* propose(): the refund, paid as wallet credit, for an order of that total.
MatrixRefund(intent, total, c) ==
    Least(Rounded(BaseAmount(intent, total) * TierMultiplier(c), 100), total)

-----------------------------------------------------------------------------
\* auto_approve_cap().
AutoApproveCap(total, c) ==
    LET Bracket(base, gold) == IF GoldClean(c) THEN gold ELSE base
    IN CASE total <= 200  -> Bracket(300, 500)
         [] total > 200 /\ total <= 500   -> Bracket(650, 900)
         [] total > 500 /\ total <= 1000  -> Bracket(1200, 1600)
         [] total > 1000 /\ total <= 2000 -> Bracket(1500, 2250)
         [] OTHER -> Bracket(1500, 3500)

WithinCap(refund, total, c) == refund <= AutoApproveCap(total, c)
=============================================================================
