---------------------------- MODULE MCRefundChat ----------------------------
(* Instances of RefundChat for TLC.                                          *)
EXTENDS RefundChat

CONSTANTS Ghost, p1, p2

Profile(tier, age, orders, complaints, rejected) ==
    [tier |-> tier, age |-> age, orders |-> orders, complaints |-> complaints,
     rejected |-> rejected, refunds |-> 0, refunded |-> 0]

MCCustomers ==
    {Profile("gold", 900, 120, 3, 0), Profile("gold", 900, 20, 3, 1),
     Profile("gold", 10, 4, 3, 2)}

MCBills == {[total |-> 30, recent |-> TRUE], [total |-> 2000, recent |-> FALSE]}

\* At most one of what the two detectors and the three word lists look for.
Said(intent, id, mood) ==
    [intent |-> intent, mentioned |-> id, lexical |-> mood = "lexical",
     classified |-> mood = "classified", verbal |-> mood = "verbal",
     closes |-> mood = "closes", human |-> mood = "human"]

MCMessages ==
    {Said(i, Order, "plain") : i \in Intents \ {"human_request", "vague", "rider_rude"}}
    \cup {Said(i, None, "plain") : i \in {"cold_food", "promo_failed", "vague"}}
    \cup {Said("cold_food", Order, mood) : mood \in {"lexical", "verbal"}}
    \cup {Said("double_charge", None, "classified"), Said("never_arrived", Order, "lexical"),
          Said("cold_food", Ghost, "plain"), Said("human_request", None, "human"),
          Said("vague", None, "closes")}

Cash(slot, id, n) == [Refund(slot, id, n) EXCEPT !.method = "cash"]

MCProposals ==
    {{}, {Refund(p1, Order, 100), Cash(p2, Order, 2500)},
     {Refund(p1, Order, 2000), Refund(p2, None, -600)},
     {Refund(p1, Order, 100), Plain(p2, "escalate_to_human")}}
    \cup {{a} : a \in {Plain(p1, "escalate_to_human"), Plain(p1, "close"), Refund(p1, Order, 100),
              Refund(p1, None, 400), Refund(p1, Ghost, 2000), Complaint(p1, Order, "rider")}}
=============================================================================
