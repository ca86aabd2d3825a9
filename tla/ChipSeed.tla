------------------------------ MODULE ChipSeed ------------------------------
(***************************************************************************)
(* What migration 004 seeds for the chips of the chat: the data points of  *)
(* each issue type in their sort_order, and its templates.  A template is  *)
(* the sequence of its sentences, a sentence the set of its placeholders.  *)
(***************************************************************************)

DataPoints == {"order_full", "customer_profile", "restaurant_history", "rider_history",
           "customer_complaints", "customer_refunds_30d", "rider_incidents_for_order"}

Basic == <<"order_full", "customer_profile">>
WithRestaurant == <<"order_full", "customer_profile", "restaurant_history">>
WithRider == <<"order_full", "customer_profile", "rider_history">>

\* issue_type_data_points.
Bindings ==
    [missing_item |-> WithRestaurant,
     wrong_order |-> WithRestaurant,
     cold_food |-> WithRestaurant,
     never_arrived |-> <<"order_full", "customer_profile", "rider_history",
                         "rider_incidents_for_order", "customer_refunds_30d">>,
     rider_late |-> WithRider,
     rider_rude |-> WithRider,
     rider_demanded_tip |-> WithRider,
     double_charge |-> <<"order_full", "customer_profile", "customer_refunds_30d">>,
     promo_failed |-> Basic,
     human_request |-> <<"customer_profile">>,
     other |-> <<"customer_profile">>]

Codes == DOMAIN Bindings

\* {{customer.first_name}}, {{order.id}} and {{restaurant.name}}.
Name == {"customer.first_name"}
Order == {"order.id"}
Place == {"restaurant.name"}

\* acknowledgment_templates, all of them active and of weight 1.
Templates ==
    [missing_item |-> {<<Name, Place>>, <<{}, Order \cup Place>>, <<Place>>},
     wrong_order |-> {<<Order>>, <<Name, Place>>, <<Place>>},
     cold_food |-> {<<Order \cup Place>>, <<Name, Place>>, <<{}, Place>>},
     never_arrived |-> {<<Name, Order>>, <<Place>>, <<{}, Order>>},
     rider_late |-> {<<Name, Order>>, <<{}, Place>>, <<Place>>},
     rider_rude |-> {<<Name, Order>>, <<{}, {}>>, <<Place>>},
     rider_demanded_tip |-> {<<{}, Order>>, <<Name, {}>>, <<{}, Place>>},
     double_charge |-> {<<Order>>, <<Name, {}>>},
     promo_failed |-> {<<{}, Order>>, <<Name, {}>>, <<Place>>},
     human_request |-> {<<Name, {}>>, <<{}>>, <<{}, {}>>},
     other |-> {<<Name>>, <<{}>>, <<{}, {}>>}]
=============================================================================
