------------------------------- MODULE ChipTap -------------------------------
(***************************************************************************)
(* One tap on a chip (app/conversation_studio/service.py and render.py):   *)
(* the fetchers of the issue type run one after the other in the order of  *)
(* its bindings, each of them may read what earlier ones have put into the *)
(* context, then a template is picked and rendered against the context.    *)
(*                                                                         *)
(* The bindings and templates are those of ChipSeed.  An admin may change  *)
(* their order, so every order of a seeded set of bindings is tried too.   *)
(***************************************************************************)
EXTENDS ChipSeed, Naturals, Sequences, SequencesExt

VARIABLES
    code,        \* the issue type of the chip
    bound,       \* its bindings in their order
    hints,       \* ids the request or the session supplies
    pos,         \* number of bindings that have been handled
    ctx,         \* placeholders that resolve to a text
    found,       \* entities in the context, and "rider_id" if its order has a rider
    resolved,    \* keys reported to the frontend
    unasked,     \* history: data points whose fetcher had no id to ask with
    aborted,     \* a database error has aborted the transaction
    phase,       \* "fetch", "said" or "failed"
    ack          \* sentences of the acknowledgement

tapVars == <<code, bound, hints, pos, ctx, found, resolved, unasked, aborted, phase, ack>>

\* The orders of the bindings of an issue type: any, if they are few.
Orders(c) ==
    IF Len(Bindings[c]) > 3 THEN {Bindings[c]}
    ELSE {s \in [1..Len(Bindings[c]) -> ToSet(Bindings[c])] : ToSet(s) = ToSet(Bindings[c])}

TapInit ==
    /\ code \in Codes
    /\ bound \in Orders(code)
    /\ hints \in SUBSET {"order", "customer"}
    /\ pos = 0
    /\ ctx = {} /\ found = {} /\ resolved = {} /\ unasked = {}
    /\ aborted = FALSE
    /\ phase = "fetch"
    /\ ack = <<>>

\* The entity under which a fetcher's row is found in the context.
Entity(p) ==
    CASE p = "order_full" -> "order"
      [] p = "customer_profile" -> "customer"
      [] p = "restaurant_history" -> "restaurant"
      [] p = "rider_history" -> "rider"
      [] p = "customer_complaints" -> "recent_complaints"
      [] p = "customer_refunds_30d" -> "recent_refunds"
      [] p = "rider_incidents_for_order" -> "rider_incidents"

\* Mutated form: the ids are those of the request alone.
HasIdInRequest(p) ==
    CASE p \in {"order_full", "rider_incidents_for_order"} -> "order" \in hints
      [] p \in {"restaurant_history", "rider_history"} -> FALSE
      [] OTHER -> "customer" \in hints

\* The guard of each fetcher: the id it asks with is known.
HasId(p) ==
    CASE p \in {"order_full", "rider_incidents_for_order"} -> "order" \in hints
      [] p = "restaurant_history" -> "order" \in found
      [] p = "rider_history" -> "rider_id" \in found
      [] OTHER -> "customer" \in hints \/ "order" \in found

\* What a fetcher that finds its row puts into the context.  An order has a
\* customer and a restaurant; nobody need have been assigned to ride it.
Finds(p) ==
    IF p = "order_full" THEN {{"order"}, {"order", "rider_id"}} ELSE {{Entity(p)}}

\* The placeholders of the templates that an entity can fill; a customer's or
\* a restaurant's name may be empty.
Fills(e) ==
    CASE e = "order" -> {Order}
      [] e = "customer" -> {Name, {}}
      [] e = "restaurant" -> {Place, {}}
      [] OTHER -> {{}}

\* A list of complaints, refunds or incidents is never missing, only empty.
AlwaysThere(p) ==
    p \in {"customer_complaints", "customer_refunds_30d", "rider_incidents_for_order"}

Fetching == phase = "fetch" /\ pos < Len(bound)
Current == bound[pos + 1]

\* The loop of resolve_data_points, whose exits differ in what they record.
Skip ==
    /\ Fetching
    /\ ~HasId(Current)
    /\ pos' = pos + 1
    /\ unasked' = unasked \cup {Current}
    /\ UNCHANGED <<code, bound, hints, ctx, found, resolved, aborted, phase, ack>>

Resolve ==
    /\ Fetching
    /\ HasId(Current) /\ ~aborted
    /\ pos' = pos + 1
    /\ \E f \in Fills(Entity(Current)) : ctx' = ctx \cup f
    /\ \E e \in Finds(Current) : found' = found \cup e
    /\ resolved' = resolved \cup {Current}
    /\ UNCHANGED <<code, bound, hints, unasked, aborted, phase, ack>>

NotThere ==
    /\ Fetching
    /\ HasId(Current) /\ ~aborted /\ ~AlwaysThere(Current)
    /\ pos' = pos + 1
    /\ UNCHANGED <<code, bound, hints, ctx, found, resolved, unasked, aborted, phase, ack>>

\* A fetcher raises and the loop goes on; after an error of the database the
\* transaction is aborted and every later query raises as well.
Crash ==
    /\ Fetching
    /\ HasId(Current)
    /\ pos' = pos + 1
    /\ aborted' \in {aborted, TRUE}
    /\ UNCHANGED <<code, bound, hints, ctx, found, resolved, unasked, phase, ack>>

\* Mutated form: a placeholder that does not resolve is left empty.
SpokenAnyway(t) == t

\* render: a sentence is dropped with its first placeholder that misses.
Spoken(t) ==
    LET kept[n \in 0..Len(t)] ==
            IF n = 0 THEN <<>>
            ELSE IF t[n] \subseteq ctx THEN Append(kept[n - 1], t[n]) ELSE kept[n - 1]
    IN  kept[Len(t)]

\* The stock phrases without any template and without any sentence left.
GotIt == <<{"got it"}>>
OnIt == <<{"on it"}>>

\* pick_and_render_ack over the templates T of the issue type.
Acks(T) ==
    IF T = {} THEN {GotIt}
    ELSE {IF Spoken(t) = <<>> THEN OnIt ELSE Spoken(t) : t \in T}

\* Templates may have been deactivated one by one: any subset may be left.
Acknowledge ==
    /\ phase = "fetch" /\ pos = Len(bound) /\ ~aborted
    /\ \E T \in SUBSET Templates[code] : ack' \in Acks(T)
    /\ phase' = "said"
    /\ UNCHANGED <<code, bound, hints, pos, ctx, found, resolved, unasked, aborted>>

\* The query for the templates raises: the request ends with an error.
Fail ==
    /\ phase = "fetch" /\ pos = Len(bound) /\ aborted
    /\ phase' = "failed"
    /\ UNCHANGED <<code, bound, hints, pos, ctx, found, resolved, unasked, aborted, ack>>

TapNext == Skip \/ Resolve \/ NotThere \/ Crash \/ Acknowledge \/ Fail

TapSpec == TapInit /\ [][TapNext]_tapVars

-----------------------------------------------------------------------------
TapTypeOK ==
    /\ code \in Codes
    /\ bound \in Seq(DataPoints)
    /\ hints \subseteq {"order", "customer"}
    /\ pos \in 0..Len(bound)
    /\ ctx \subseteq Name \cup Order \cup Place
    /\ found \subseteq {Entity(p) : p \in DataPoints} \cup {"rider_id"}
    /\ resolved \subseteq DataPoints /\ unasked \subseteq DataPoints
    /\ aborted \in BOOLEAN
    /\ phase \in {"fetch", "said", "failed"}

\* The migration's "order-first ordering": with the seeded order of bindings
\* no fetcher lacks an id that the order has, and in any other order only
\* those do that an admin has put before the order.  The rider's id is one
\* that the order may not have.
OrderFirstSuffices ==
    "order" \in found =>
        \A i \in 1..Len(bound) :
            /\ bound[i] \in unasked
            /\ bound[i] = "rider_history" => "rider_id" \in found
            =>
                /\ bound # Bindings[code]
                /\ \E j \in 1..Len(bound) : i < j /\ bound[j] = "order_full"

\* Whatever was found and whichever template is picked, the acknowledgement
\* is not empty and says only what a resolved data point has filled in.
AckIsSpokenFromContext ==
    phase = "said" =>
        \/ ack \in {GotIt, OnIt}
        \/ /\ ack # <<>>
           /\ \A i \in 1..Len(ack) : \A v \in ack[i] :
                 \E p \in resolved : \E f \in Fills(Entity(p)) : v \in f /\ v \in ctx
=============================================================================
