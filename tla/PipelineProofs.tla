--------------------------- MODULE PipelineProofs ---------------------------
(***************************************************************************)
(* Theorems about the refund pipeline: what validate()'s chain of rules    *)
(* keeps on every turn, for all orders, customers, messages and proposals  *)
(* (RefundChat); then the runs that play scored conversations with it, for *)
(* any number of runs, sessions, turns and attempts, and any quota         *)
(* (ScoredRuns).                                                           *)
(***************************************************************************)
EXTENDS RefundChat, ScoredRuns, FiniteSetTheorems, TLAPS

\* What the rules may take for granted of their turn.
IsTurn(t) ==
    /\ t.msg \in Message
    /\ t.bill \in Bill \cup {None}
    /\ t.customer \in Customer \cup {None}
    /\ t.id \in OrderIds \cup {None}

-----------------------------------------------------------------------------
(* Amounts.                                                                *)

LEMMA RoundedNat == ASSUME NEW n \in Nat PROVE Rounded(n, 100) \in Nat
  BY DEF Rounded

LEMMA RowsTyped ==
    ASSUME NEW i \in Intents
    PROVE  /\ Matrix[i].pct \in {0, 10, 30, 50, 100}
           /\ Matrix[i].floor \in {0, 50}
           /\ Matrix[i].target \in {"restaurant", "rider", "app", None}
  BY DEF Intents, Matrix, Row

LEMMA MultiplierNat ==
    ASSUME NEW c \in Customer \cup {None} PROVE TierMultiplier(c) \in Nat
  BY DEF TierMultiplier, Greatest, Least

\* The matrix never refunds more than the order cost.
LEMMA RefundWithinTotal ==
    ASSUME NEW i \in Intents, NEW total \in Nat, NEW c \in Customer \cup {None}
    PROVE  MatrixRefund(i, total, c) \in Nat /\ MatrixRefund(i, total, c) <= total
<1>1. total * Matrix[i].pct \in Nat
  BY RowsTyped
<1>2. BaseAmount(i, total) \in Nat
  BY <1>1, RoundedNat, RowsTyped DEF BaseAmount, Least
<1>3. BaseAmount(i, total) * TierMultiplier(c) \in Nat
  BY <1>2, MultiplierNat
<1>4. Rounded(BaseAmount(i, total) * TierMultiplier(c), 100) \in Nat
  BY <1>3, RoundedNat
<1>. QED
  BY <1>4 DEF MatrixRefund, Least

LEMMA ProposalNat ==
    ASSUME NEW t, IsTurn(t), Found(t) PROVE Proposal(t) \in Nat
<1>1. t.bill.total \in Nat /\ t.msg.intent \in Intents
  BY DEF IsTurn, Found, Bill, Message
<1>. QED
  BY <1>1, RefundWithinTotal DEF Proposal, IsTurn

\* Where the matrix has no percentage it has no refund.
LEMMA NothingOfNothing ==
    ASSUME NEW i \in Intents, NEW total \in Nat, NEW c \in Customer \cup {None},
           Matrix[i].pct = 0
    PROVE  MatrixRefund(i, total, c) = 0
<1>1. Rounded(0, 100) = 0
  BY DEF Rounded
<1>2. total * Matrix[i].pct = 0
  OBVIOUS
<1>3. BaseAmount(i, total) = 0
  BY <1>1, <1>2 DEF BaseAmount
<1>4. BaseAmount(i, total) * TierMultiplier(c) = 0
  BY <1>3, MultiplierNat
<1>. QED
  BY <1>1, <1>4 DEF MatrixRefund, Least

-----------------------------------------------------------------------------
(* Every rule returns actions; if none of those it was given has a negative *)
(* amount, none of those it returns has one.                               *)

\* Actions with amounts in A.
Actions(A) ==
    [slot : Stage1Slots \cup AddedSlots \cup {None},
     type : {"issue_refund", "file_complaint", "escalate_to_human", "flag_abuse", "close"},
     order : OrderIds \cup {None}, amount : A, method : {"cash", "wallet_credit", None},
     target : {"restaurant", "rider", "app", None}]

LEMMA AllActions == Action = Actions(Int)
  BY DEF Action, Actions

LEMMA MadeActions ==
    ASSUME NEW A, Nat \subseteq A, NEW id \in OrderIds \cup {None}, NEW n \in Nat
    PROVE  /\ \A slot \in AddedSlots \cup Stage1Slots \cup {None} :
                /\ \A type \in {"escalate_to_human", "flag_abuse", "close"} : Plain(slot, type) \in Actions(A)
                /\ Refund(slot, id, n) \in Actions(A)
                /\ \A target \in {"restaurant", "rider", "app", None} :
                      Complaint(slot, id, target) \in Actions(A)
  BY DEF Actions, Plain, Refund, Complaint

LEMMA HelpersTyped ==
    ASSUME NEW A, Nat \subseteq A, NEW acts \in SUBSET Actions(A), NEW id \in OrderIds \cup {None},
           NEW target \in {"restaurant", "rider", "app", None}, NEW type
    PROVE  /\ Without(acts, type) \in SUBSET Actions(A)
           /\ Escalated(acts) \in SUBSET Actions(A)
           /\ Flagged(acts) \in SUBSET Actions(A)
           /\ Complained(acts, id, target) \in SUBSET Actions(A)
  BY MadeActions, 0 \in Nat DEF Without, Escalated, Flagged, Complained, AddedSlots

LEMMA ComplainedTyped ==
    ASSUME NEW A, Nat \subseteq A, NEW acts \in SUBSET Actions(A), NEW id \in OrderIds \cup {None},
           NEW target \in {"restaurant", "rider", "app", None}
    PROVE  Complained(acts, id, target) \in SUBSET Actions(A)
  BY HelpersTyped

LEMMA RoutedTyped ==
    ASSUME NEW A, Nat \subseteq A, A \subseteq Int, NEW t, IsTurn(t), NEW acts \in SUBSET Actions(A)
    PROVE  Routed(t, acts) \in SUBSET Actions(A)
<1>. DEFINE a1 == Capped(t, acts)
            a2 == ForceRouted(t, a1)
            a3 == NeverArrivedRefused(t, a2)
            a4 == AbuserTokened(t, a3)
            a5 == InjectionStripped(t, a4)
            a6 == VerbalEscalated(t, a5)
<1>1. a1 \in SUBSET Actions(A)
  BY DEF Capped, IsTurn, Found, Bill, Actions
<1>2. a2 \in SUBSET Actions(A)
  <2>1. CASE t.msg.intent = "promo_failed" /\ Found(t) /\ t.bill.recent
    <3>1. PromoCredit(t) \in Nat
      BY <2>1 DEF PromoCredit, Greatest, IsTurn, Found, Bill
    <3>2. Refund("refund", t.id, PromoCredit(t)) \in Actions(A)
      BY <3>1, MadeActions DEF IsTurn, AddedSlots
    <3>3. a2 = PromoSettled(t, a1)
      BY <2>1 DEF ForceRouted
    <3>. DEFINE paid == IF HasWalletRefund(a1) THEN a1
                        ELSE a1 \cup {Refund("refund", t.id, PromoCredit(t))}
    <3>4. paid \in SUBSET Actions(A)
      BY <1>1, <3>2
    <3>5. a2 = Complained(paid, t.id, "app")
      BY <3>3 DEF PromoSettled
    <3>. HIDE DEF paid, a2
    <3>. QED
      BY <3>4, <3>5, ComplainedTyped DEF IsTurn
  <2>2. CASE t.msg.intent = "human_request"
    <3>1. a2 = HumanAsked(t, a1)
      BY <2>2 DEF ForceRouted
    <3>2. a2 \in {a1, Without(a1, "escalate_to_human"), Escalated(a1)}
      BY <3>1 DEF HumanAsked
    <3>. HIDE DEF a1, a2
    <3>3. /\ Without(a1, "escalate_to_human") \in SUBSET Actions(A)
          /\ Escalated(a1) \in SUBSET Actions(A)
      BY <1>1, HelpersTyped
    <3>. QED
      BY <1>1, <3>2, <3>3
  <2>3. CASE ~(t.msg.intent = "promo_failed" /\ Found(t) /\ t.bill.recent)
             /\ t.msg.intent # "human_request"
    <3>. DEFINE free == Without(a1, "issue_refund")
    <3>1. \/ a2 = Complained(free, t.id, "app") \/ a2 = Complained(free, t.id, "rider")
          \/ a2 = {} \/ a2 = a1
      BY <2>3 DEF ForceRouted
    <3>2. free \in SUBSET Actions(A)
      BY <1>1 DEF Without
    <3>. HIDE DEF a1, a2, free
    <3>3. Complained(free, t.id, "app") \in SUBSET Actions(A)
      BY <3>2, ComplainedTyped DEF IsTurn
    <3>4. Complained(free, t.id, "rider") \in SUBSET Actions(A)
      BY <3>2, ComplainedTyped DEF IsTurn
    <3>. QED
      BY <1>1, <3>1, <3>3, <3>4
  <2>. QED
    BY <2>1, <2>2, <2>3
<1>3. a3 \in SUBSET Actions(A)
  <2>. HIDE DEF a2
  <2>. QED
    BY <1>2, HelpersTyped DEF NeverArrivedRefused, IsTurn
<1>4. a4 \in SUBSET Actions(A)
  <2>. HIDE DEF a3
  <2>1. CASE a4 = a3
    BY <2>1, <1>3
  <2>2. CASE a4 # a3
    <3>1. Found(t)
      BY <2>2 DEF AbuserTokened
    <3>2. Refund("refund", t.id, Token(t)) \in Actions(A)
      <4>1. Token(t) \in Nat
        BY <3>1 DEF Token, Least, IsTurn, Found, Bill
      <4>. QED
        BY <4>1, MadeActions DEF IsTurn, AddedSlots
    <3>3. SmallClaims(a3) \in SUBSET Actions(A)
      BY <1>3 DEF SmallClaims
    <3>. DEFINE small == SmallClaims(a3)
                held == IF Has(small, "issue_refund") THEN small
                        ELSE small \cup {Refund("refund", t.id, Token(t))}
    <3>4. held \in SUBSET Actions(A)
      BY <3>2, <3>3
    <3>5. a4 = Flagged(Escalated(held))
      BY <2>2 DEF AbuserTokened
    <3>. HIDE DEF held
    <3>. QED
      BY <3>4, <3>5, HelpersTyped DEF IsTurn
  <2>. QED
    BY <2>1, <2>2
<1>5. a5 \in SUBSET Actions(A)
  <2>. HIDE DEF a4
  <2>. QED
    BY <1>4, HelpersTyped DEF InjectionStripped, IsTurn
<1>6. a6 \in SUBSET Actions(A)
  <2>. HIDE DEF a5
  <2>. QED
    BY <1>5, HelpersTyped DEF VerbalEscalated, IsTurn
<1>7. OrderIdAwaited(t, a6) \in SUBSET Actions(A)
  <2>. HIDE DEF a6
  <2>. QED
    BY <1>6, HelpersTyped DEF OrderIdAwaited, IsTurn
<1>. QED
  BY <1>7 DEF Routed

LEMMA ResolvedTyped ==
    ASSUME NEW A, Nat \subseteq A, A \subseteq Int, NEW t, IsTurn(t), NEW acts \in SUBSET Actions(A)
    PROVE  Resolved(t, acts) \in SUBSET Actions(A)
<1>. DEFINE a1 == MatrixFilled(t, acts)
            a2 == MatrixOverridden(t, a1)
            a3 == Deduped(t, a2)
<1>1. Target(t) \in {"restaurant", "rider", "app", None}
  BY RowsTyped DEF Target, IsTurn, Message
<1>2. ASSUME Found(t), NEW slot \in Stage1Slots \cup AddedSlots \cup {None}
      PROVE  Refund(slot, t.id, Proposal(t)) \in Actions(A)
  BY <1>2, ProposalNat, MadeActions DEF IsTurn
<1>3. a1 \in SUBSET Actions(A)
  <2>1. CASE a1 = acts
    BY <2>1
  <2>2. CASE a1 # acts
    <3>1. Found(t)
      BY <2>2 DEF MatrixFilled, TriesMatrix
    <3>2. Complaint("complaint", t.id, Target(t)) \in Actions(A)
      BY <1>1, MadeActions, 0 \in Nat DEF IsTurn, AddedSlots
    <3>3. Refund("refund", t.id, Proposal(t)) \in Actions(A)
      BY <1>2, <3>1 DEF AddedSlots
    <3>4. Without(acts, "escalate_to_human") \in SUBSET Actions(A)
      BY HelpersTyped DEF IsTurn
    <3>. QED
      BY <2>2, <3>2, <3>3, <3>4 DEF MatrixFilled
  <2>. QED
    BY <2>1, <2>2
<1>4. a2 \in SUBSET Actions(A)
  <2>. HIDE DEF a1
  <2>1. CASE TriesMatrix(t)
    <3>1. \A a \in a1 : Repriced(t, a) \in Actions(A)
      <4>. SUFFICES ASSUME NEW a \in a1 PROVE Repriced(t, a) \in Actions(A)
        OBVIOUS
      <4>1. a \in Actions(A) /\ a.slot \in Stage1Slots \cup AddedSlots \cup {None}
        BY <1>3 DEF Actions
      <4>2. Refund(a.slot, t.id, Proposal(t)) \in Actions(A)
        BY <1>2, <2>1, <4>1 DEF TriesMatrix
      <4>. QED
        BY <4>1, <4>2 DEF Repriced
    <3>. DEFINE priced == IF AutoApproved(t) /\ Proposal(t) > 0
                            THEN {Repriced(t, a) : a \in a1} ELSE a1
    <3>2. priced \in SUBSET Actions(A)
      BY <1>3, <3>1
    <3>3. a2 \in {a1, priced, Complained(priced, t.id, Target(t))}
      BY DEF MatrixOverridden
    <3>. HIDE DEF priced, a1, a2
    <3>. QED
      BY <1>1, <1>3, <3>2, <3>3, ComplainedTyped DEF IsTurn
  <2>2. CASE ~TriesMatrix(t)
    BY <1>3, <2>2 DEF MatrixOverridden
  <2>. QED
    BY <2>1, <2>2
<1>5. a3 \in SUBSET Actions(A)
  <2>. HIDE DEF a2
  <2>. QED
    BY <1>4 DEF Deduped
<1>6. Pivoted(t, a3) \in SUBSET Actions(A)
  <2>. HIDE DEF a3
  <2>1. {a \in a3 : a.type = "flag_abuse"} \in SUBSET Actions(A)
    BY <1>5
  <2>. QED
    BY <1>5, <2>1, HelpersTyped, None \in OrderIds \cup {None} DEF Pivoted
<1>. QED
  BY <1>6 DEF Resolved

LEMMA SettledTyped ==
    ASSUME NEW A, Nat \subseteq A, A \subseteq Int, NEW t, IsTurn(t), NEW acts \in SUBSET Actions(A)
    PROVE  Settled(t, acts) \in SUBSET Actions(A)
<1>. DEFINE a1 == Downgraded(t, acts)
            a2 == Collapsed(t, a1)
            a3 == OrderlessDropped(a2)
<1>1. Plain("close", "close") \in Actions(A)
  BY MadeActions, 0 \in Nat, None \in OrderIds \cup {None} DEF AddedSlots
<1>2. a1 \in SUBSET Actions(A)
  BY HelpersTyped, None \in OrderIds \cup {None} DEF Downgraded
<1>3. a2 \in SUBSET Actions(A)
  <2>. HIDE DEF a1
  <2>. QED
    BY <1>1, <1>2 DEF Collapsed, Without
<1>4. a3 \in SUBSET Actions(A)
  <2>. HIDE DEF a2
  <2>. QED
    BY <1>3 DEF OrderlessDropped
<1>5. SafetyNet(t, a3) \in SUBSET Actions(A)
  <2>. HIDE DEF a3
  <2>. QED
    BY <1>1, <1>4, HelpersTyped, None \in OrderIds \cup {None} DEF SafetyNet
<1>. QED
  BY <1>5 DEF Settled

LEMMA ValidatedTyped ==
    ASSUME NEW A, Nat \subseteq A, A \subseteq Int, NEW t, IsTurn(t), NEW acts \in SUBSET Actions(A)
    PROVE  Shaped(Validated(t, acts)) \in SUBSET Actions(A)
<1>1. Plain("close", "close") \in Actions(A)
  BY MadeActions, 0 \in Nat, None \in OrderIds \cup {None} DEF AddedSlots
<1>2. Settled(t, Resolved(t, Routed(t, acts))) \in SUBSET Actions(A)
  BY RoutedTyped, ResolvedTyped, SettledTyped
<1>. QED
  BY <1>1, <1>2 DEF Validated, Shaped

-----------------------------------------------------------------------------
(* Sums of refunds, and finite lists.                                      *)

\* A set of numbers that has a member has a least one: what holds of a number
\* whenever it holds of the smaller ones holds of all.
LEMMA LeastNumber ==
    ASSUME NEW T, T \subseteq Nat, T # {}
    PROVE  \E n \in T : \A m \in T : n <= m
<1>1. PICK n \in T : \A m \in T : ~ (<<m, n>> \in OpToRel(<, Nat))
  BY NatLessThanWellFounded, WFMin
<1>2. \A m \in T : n \in Nat /\ m \in Nat /\ ~(m < n)
  BY <1>1 DEF OpToRel
<1>3. \A m \in T : n <= m
  BY <1>2
<1>. QED
  BY <1>3

\* Of finite sets that have something in common some set is smallest: what holds
\* of a finite set whenever it holds of those with fewer members holds of all.
LEMMA SmallestSet ==
    ASSUME NEW C, C # {}, \A S \in C : IsFiniteSet(S)
    PROVE  \E S \in C : \A T \in C : Cardinality(S) <= Cardinality(T)
<1>. DEFINE sizes == {Cardinality(S) : S \in C}
<1>1. sizes \subseteq Nat /\ sizes # {}
  BY FS_CardinalityType
<1>2. PICK n \in sizes : \A m \in sizes : n <= m
  <2>. HIDE DEF sizes
  <2>. QED
    BY <1>1, LeastNumber
<1>. QED
  BY <1>2

\* The member a sum starts with, and the sets left without one of their members.
Pick(S) == CHOOSE x \in S : TRUE

\* The chosen member is one.
LEMMA PickIsIn == ASSUME NEW S, S # {} PROVE Pick(S) \in S
BY DEF Pick

\* Without a member a finite set is smaller.
LEMMA OneLess ==
    ASSUME NEW S, IsFiniteSet(S), NEW x \in S
    PROVE  /\ IsFiniteSet(S \ {x})
           /\ Cardinality(S \ {x}) \in Nat /\ Cardinality(S) \in Nat
           /\ Cardinality(S \ {x}) < Cardinality(S)
<1>1. IsFiniteSet(S \ {x}) /\ Cardinality(S \ {x}) = Cardinality(S) - 1
  BY FS_RemoveElement
<1>2. Cardinality(S \ {x}) \in Nat /\ Cardinality(S) \in Nat
  BY <1>1, FS_CardinalityType
<1>. QED
  BY <1>1, <1>2

\* _refund_total(), of any set of actions.
Total(S) == MapThenSumSet(LAMBDA a : a.amount, S)

\* The recursion over the subsets that the sum is.
IsTotal(g, S) ==
    g = [s \in SUBSET S |-> IF s = {} THEN 0 ELSE Pick(s).amount + g[s \ {Pick(s)}]]

\* The sum is what the recursion over the subsets gives.
LEMMA TotalIsRecursive ==
    ASSUME NEW S
    PROVE  Total(S) = (CHOOSE g : IsTotal(g, S))[S]
BY DEF Total, MapThenSumSet, MapThenFoldSet, IsTotal, Pick

\* Two recursions agree on the sets they have in common.
LEMMA TotalsAgree ==
    ASSUME NEW S, NEW T, IsFiniteSet(S), NEW g, NEW h, IsTotal(g, S), IsTotal(h, T),
           NEW s, s \subseteq S, s \subseteq T
    PROVE  g[s] = h[s]
<1>. DEFINE Odd == {u \in SUBSET (S \cap T) : g[u] # h[u]}
<1>1. SUFFICES ASSUME Odd # {} PROVE FALSE
  OBVIOUS
<1>2. \A u \in Odd : IsFiniteSet(u)
  BY FS_Subset
<1>3. PICK u \in Odd : \A v \in Odd : Cardinality(u) <= Cardinality(v)
  <2>. HIDE DEF Odd
  <2>. QED
    BY <1>1, <1>2, SmallestSet
<1>4. u # {}
  BY <1>3 DEF IsTotal
<1>. DEFINE x == Pick(u)
<1>5. g[u] = x.amount + g[u \ {x}] /\ h[u] = x.amount + h[u \ {x}]
  BY <1>3, <1>4 DEF IsTotal
<1>6. /\ Cardinality(u \ {x}) < Cardinality(u)
      /\ Cardinality(u \ {x}) \in Nat /\ Cardinality(u) \in Nat
  BY <1>2, <1>3, <1>4, PickIsIn, OneLess
<1>7. u \ {x} \notin Odd
  <2>. HIDE DEF Odd, x
  <2>. QED
    BY <1>3, <1>6
<1>8. g[u \ {x}] = h[u \ {x}]
  BY <1>3, <1>7
<1>. QED
  BY <1>3, <1>5, <1>8

\* The recursion has a solution on every finite set.
LEMMA TotalExists ==
    ASSUME NEW S, IsFiniteSet(S)
    PROVE  \E g : IsTotal(g, S)
<1>. DEFINE Unsolved == {s \in SUBSET S : ~ \E g : IsTotal(g, s)}
<1>1. SUFFICES ASSUME Unsolved # {} PROVE FALSE
  OBVIOUS
<1>2. \A s \in Unsolved : IsFiniteSet(s)
  BY FS_Subset
<1>3. PICK u \in Unsolved : \A v \in Unsolved : Cardinality(u) <= Cardinality(v)
  <2>. HIDE DEF Unsolved
  <2>. QED
    BY <1>1, <1>2, SmallestSet
<1>. DEFINE G(s) == CHOOSE g : IsTotal(g, s)
<1>4. ASSUME NEW s \in SUBSET u, s # u PROVE IsTotal(G(s), s)
  <2>1. PICK x \in u : x \notin s
    BY <1>4
  <2>2. IsFiniteSet(u \ {x}) /\ Cardinality(u \ {x}) < Cardinality(u)
        /\ Cardinality(u \ {x}) \in Nat /\ Cardinality(u) \in Nat
    BY <1>2, OneLess
  <2>3. s \in SUBSET (u \ {x})
    BY <2>1
  <2>4. Cardinality(s) <= Cardinality(u \ {x}) /\ IsFiniteSet(s)
    BY <2>2, <2>3, FS_Subset
  <2>5. Cardinality(s) \in Nat
    BY <2>4, FS_CardinalityType
  <2>6. s \notin Unsolved
    <3>. HIDE DEF Unsolved
    <3>. QED
      BY <1>3, <2>2, <2>4, <2>5
  <2>7. \E g : IsTotal(g, s)
    BY <1>3, <2>6
  <2>. QED
    BY <2>7
<1>5. u # {}
  <2>1. IsTotal([s \in SUBSET {} |-> 0], {})
    BY DEF IsTotal
  <2>. QED
    BY <1>3, <2>1
<1>. DEFINE h == [s \in SUBSET u |-> IF s = u THEN Pick(u).amount + G(u \ {Pick(u)})[u \ {Pick(u)}]
                                    ELSE G(s)[s]]
           Step(s) == IF s = {} THEN 0 ELSE Pick(s).amount + h[s \ {Pick(s)}]
<1>6. ASSUME NEW s \in SUBSET u PROVE h[s] = Step(s)
  <2>. HIDE DEF G
  <2>. DEFINE r == s \ {Pick(s)}
  <2>1. s # {} => r \in SUBSET u /\ r # u /\ Pick(s) \in s
    BY PickIsIn
  <2>2. s # {} => h[r] = G(r)[r]
    BY <2>1
  <2>3. CASE s = u
    BY <1>5, <2>2, <2>3
  <2>4. CASE s # u /\ s = {}
    <3>1. h[s] = G(s)[s]
      BY <2>4
    <3>2. G(s)[s] = 0
      BY <1>4, <2>4 DEF IsTotal
    <3>. QED
      BY <2>4, <3>1, <3>2
  <2>5. CASE s # u /\ s # {}
    <3>1. IsTotal(G(s), s) /\ IsTotal(G(r), r)
      BY <1>4, <2>1, <2>5
    <3>2. G(s)[s] = Pick(s).amount + G(s)[r]
      BY <2>5, <3>1 DEF IsTotal
    <3>3. IsFiniteSet(s) /\ IsFiniteSet(r)
      BY <1>2, FS_Subset
    <3>4. G(s)[r] = G(r)[r]
      <4>. HIDE DEF Unsolved, h, Step
      <4>1. r \subseteq s /\ r \subseteq r
        OBVIOUS
      <4>. HIDE DEF r
      <4>. QED
        BY <3>1, <3>3, <4>1, TotalsAgree
    <3>5. h[s] = G(s)[s]
      BY <2>5
    <3>. HIDE DEF h, r
    <3>. QED
      BY <2>2, <2>5, <3>2, <3>4, <3>5 DEF r
  <2>. QED
    BY <2>3, <2>4, <2>5
<1>7. IsTotal(h, u)
  <2>1. h = [s \in SUBSET u |-> h[s]]
    OBVIOUS
  <2>2. [s \in SUBSET u |-> h[s]] = [s \in SUBSET u |-> Step(s)]
    <3>. HIDE DEF h, Step
    <3>. QED
      BY <1>6
  <2>. HIDE DEF h
  <2>. QED
    BY <2>1, <2>2 DEF IsTotal
<1>. QED
  BY <1>3, <1>7

\* The sum of a finite set, from one of its members on.
LEMMA TotalStep ==
    ASSUME NEW S, IsFiniteSet(S)
    PROVE  /\ S = {} => Total(S) = 0
           /\ S # {} => Total(S) = Pick(S).amount + Total(S \ {Pick(S)})
<1>. DEFINE G(s) == CHOOSE g : IsTotal(g, s)
           r == S \ {Pick(S)}
<1>1. IsFiniteSet(r)
  BY FS_Subset
<1>2. IsTotal(G(S), S) /\ IsTotal(G(r), r)
  <2>1. (\E g : IsTotal(g, S)) /\ (\E g : IsTotal(g, r))
    BY <1>1, TotalExists
  <2>. HIDE DEF r
  <2>. QED
    BY <2>1
<1>3. Total(S) = G(S)[S] /\ Total(r) = G(r)[r]
  BY TotalIsRecursive
<1>. HIDE DEF G
<1>4. G(S)[r] = G(r)[r]
  <2>1. r \subseteq S /\ r \subseteq r
    OBVIOUS
  <2>. HIDE DEF r
  <2>. QED
    BY <1>1, <1>2, <2>1, TotalsAgree
<1>5. G(S)[S] = IF S = {} THEN 0 ELSE Pick(S).amount + G(S)[r]
  BY <1>2 DEF IsTotal
<1>. QED
  BY <1>3, <1>4, <1>5

\* No amount is negative.
Amounts(S) == \A a \in S : a.amount \in Nat

\* A sum of such amounts is not negative.
LEMMA TotalNat ==
    ASSUME NEW S, IsFiniteSet(S), Amounts(S)
    PROVE  Total(S) \in Nat
<1>. DEFINE Odd == {s \in SUBSET S : Total(s) \notin Nat}
<1>1. SUFFICES ASSUME Odd # {} PROVE FALSE
  BY DEF Odd
<1>2. \A s \in Odd : IsFiniteSet(s)
  BY FS_Subset
<1>3. PICK u \in Odd : \A v \in Odd : Cardinality(u) <= Cardinality(v)
  <2>. HIDE DEF Odd
  <2>. QED
    BY <1>1, <1>2, SmallestSet
<1>4. IsFiniteSet(u) /\ Total(u) \notin Nat /\ u \in SUBSET S
  BY <1>2, <1>3
<1>5. u # {}
  BY <1>4, TotalStep
<1>6. Total(u) = Pick(u).amount + Total(u \ {Pick(u)}) /\ Pick(u) \in u
  BY <1>4, <1>5, TotalStep, PickIsIn
<1>7. Cardinality(u \ {Pick(u)}) < Cardinality(u)
      /\ Cardinality(u \ {Pick(u)}) \in Nat /\ Cardinality(u) \in Nat
  BY <1>4, <1>6, OneLess
<1>8. u \ {Pick(u)} \notin Odd
  <2>. HIDE DEF Odd
  <2>. QED
    BY <1>3, <1>7
<1>9. Total(u \ {Pick(u)}) \in Nat
  BY <1>4, <1>8
<1>10. Pick(u).amount \in Nat
  BY <1>4, <1>6 DEF Amounts
<1>. QED
  BY <1>4, <1>6, <1>9, <1>10

\* It does not matter with which member the sum starts.
LEMMA TotalWithout ==
    ASSUME NEW S, IsFiniteSet(S), Amounts(S), NEW x \in S
    PROVE  Total(S) = x.amount + Total(S \ {x})
<1>. DEFINE Odd == {s \in SUBSET S : \E y \in s : Total(s) # y.amount + Total(s \ {y})}
<1>1. SUFFICES ASSUME Odd # {} PROVE FALSE
  OBVIOUS
<1>2. \A s \in Odd : IsFiniteSet(s)
  BY FS_Subset
<1>3. PICK u \in Odd : \A v \in Odd : Cardinality(u) <= Cardinality(v)
  <2>. HIDE DEF Odd
  <2>. QED
    BY <1>1, <1>2, SmallestSet
<1>4. IsFiniteSet(u) /\ u \in SUBSET S
  BY <1>2, <1>3
<1>5. PICK y \in u : Total(u) # y.amount + Total(u \ {y})
  BY <1>3
<1>. DEFINE p == Pick(u)
<1>6. p \in u /\ Total(u) = p.amount + Total(u \ {p})
  BY <1>4, <1>5, TotalStep, PickIsIn
<1>7. p # y
  BY <1>5, <1>6
<1>. DEFINE rest == (u \ {p}) \ {y}
<1>8. ASSUME NEW z \in u, NEW w \in u \ {z}
      PROVE  Total(u \ {z}) = w.amount + Total((u \ {z}) \ {w})
  <2>1. Cardinality(u \ {z}) < Cardinality(u)
        /\ Cardinality(u \ {z}) \in Nat /\ Cardinality(u) \in Nat
    BY <1>4, OneLess
  <2>2. u \ {z} \notin Odd
    <3>. HIDE DEF Odd
    <3>. QED
      BY <1>3, <2>1
  <2>. QED
    BY <1>4, <2>2
<1>9. Total(u \ {p}) = y.amount + Total(rest)
  BY <1>6, <1>7, <1>8
<1>10. Total(u \ {y}) = p.amount + Total(rest)
  <2>1. (u \ {y}) \ {p} = rest
    OBVIOUS
  <2>. HIDE DEF rest, p
  <2>. QED
    BY <1>6, <1>7, <1>8, <2>1
<1>11. Total(rest) \in Nat
  <2>1. IsFiniteSet(rest) /\ Amounts(rest)
    BY <1>4, FS_Subset DEF Amounts
  <2>. QED
    BY <2>1, TotalNat
<1>12. p.amount \in Nat /\ y.amount \in Nat
  BY <1>4, <1>5, <1>6 DEF Amounts
<1>. HIDE DEF rest, p
<1>. QED
  BY <1>5, <1>6, <1>9, <1>10, <1>11, <1>12

\* Fewer members, no larger sum.
LEMMA TotalShrinks ==
    ASSUME NEW T, IsFiniteSet(T), Amounts(T), NEW S, S \subseteq T
    PROVE  Total(S) <= Total(T)
<1>. DEFINE Odd == {s \in SUBSET T : S \subseteq s /\ ~(Total(S) <= Total(s))}
<1>1. SUFFICES ASSUME Odd # {} PROVE FALSE
  OBVIOUS
<1>2. \A s \in Odd : IsFiniteSet(s)
  BY FS_Subset
<1>3. PICK u \in Odd : \A v \in Odd : Cardinality(u) <= Cardinality(v)
  <2>. HIDE DEF Odd
  <2>. QED
    BY <1>1, <1>2, SmallestSet
<1>4. IsFiniteSet(u) /\ u \in SUBSET T /\ S \subseteq u /\ ~(Total(S) <= Total(u)) /\ Amounts(u)
  BY <1>2, <1>3 DEF Amounts
<1>5. IsFiniteSet(S) /\ Amounts(S) /\ Total(S) \in Nat
  <2>1. IsFiniteSet(S) /\ Amounts(S)
    BY <1>4, FS_Subset DEF Amounts
  <2>. QED
    BY <2>1, TotalNat
<1>6. PICK x \in u : x \notin S
  <2>1. S # u
    BY <1>4, <1>5
  <2>. QED
    BY <1>4, <2>1
<1>7. Cardinality(u \ {x}) < Cardinality(u) /\ IsFiniteSet(u \ {x})
      /\ Cardinality(u \ {x}) \in Nat /\ Cardinality(u) \in Nat
  BY <1>4, OneLess
<1>8. u \ {x} \notin Odd
  <2>. HIDE DEF Odd
  <2>. QED
    BY <1>3, <1>7
<1>9. Total(S) <= Total(u \ {x})
  BY <1>4, <1>6, <1>8
<1>10. Total(u) = x.amount + Total(u \ {x})
  BY <1>4, <1>6, TotalWithout
<1>11. x.amount \in Nat /\ Total(u \ {x}) \in Nat
  <2>1. Amounts(u \ {x})
    BY <1>4 DEF Amounts
  <2>. QED
    BY <1>4, <1>6, <1>7, <2>1, TotalNat DEF Amounts
<1>. QED
  BY <1>4, <1>5, <1>9, <1>10, <1>11

\* What the history rule is given is finite when Stage 1's list is.
LEMMA HelpersFinite ==
    ASSUME NEW acts, IsFiniteSet(acts), NEW id, NEW target, NEW type
    PROVE  /\ IsFiniteSet(Without(acts, type))
           /\ IsFiniteSet(Escalated(acts))
           /\ IsFiniteSet(Flagged(acts))
           /\ IsFiniteSet(Complained(acts, id, target))
           /\ \A a : IsFiniteSet(acts \cup {a})
<1>1. \A a : IsFiniteSet(acts \cup {a})
  BY FS_AddElement
<1>2. IsFiniteSet(Without(acts, type))
  BY FS_Subset DEF Without
<1>. QED
  BY <1>1, <1>2 DEF Escalated, Flagged, Complained

\* A rule that changes the actions one by one leaves as many.
LEMMA ChangedFinite ==
    ASSUME NEW acts, IsFiniteSet(acts), NEW f, DOMAIN f = acts
    PROVE  IsFiniteSet({f[a] : a \in acts})
<1>. DEFINE g == [a \in acts |-> f[a]]
<1>1. g \in Surjection(acts, {f[a] : a \in acts})
  BY DEF Surjection
<1>. QED
  BY <1>1, FS_Surjection

LEMMA RoutedFinite ==
    ASSUME NEW t, NEW acts, IsFiniteSet(acts)
    PROVE  IsFiniteSet(Routed(t, acts))
<1>. DEFINE a1 == Capped(t, acts)
            a2 == ForceRouted(t, a1)
            a3 == NeverArrivedRefused(t, a2)
            a4 == AbuserTokened(t, a3)
            a5 == InjectionStripped(t, a4)
            a6 == VerbalEscalated(t, a5)
<1>1. IsFiniteSet(a1)
  <2>. DEFINE f == [a \in acts |-> IF Found(t) /\ a.type = "issue_refund" /\ a.amount > t.bill.total
                                     THEN [a EXCEPT !.amount = t.bill.total] ELSE a]
  <2>1. a1 = {f[a] : a \in acts}
    BY DEF Capped
  <2>2. DOMAIN f = acts
    OBVIOUS
  <2>. HIDE DEF f, a1
  <2>. QED
    BY <2>1, <2>2, ChangedFinite
<1>2. IsFiniteSet(a2)
  <2>. HIDE DEF a1
  <2>. DEFINE paid == IF HasWalletRefund(a1) THEN a1
                      ELSE a1 \cup {Refund("refund", t.id, PromoCredit(t))}
              free == Without(a1, "issue_refund")
  <2>1. IsFiniteSet(paid) /\ IsFiniteSet(free) /\ IsFiniteSet({})
    BY <1>1, HelpersFinite, FS_EmptySet
  <2>2. PromoSettled(t, a1) = Complained(paid, t.id, "app")
    BY DEF PromoSettled
  <2>3. IsFiniteSet(HumanAsked(t, a1))
    BY <1>1, HelpersFinite DEF HumanAsked
  <2>. HIDE DEF paid, free
  <2>4. /\ IsFiniteSet(Complained(free, t.id, "app"))
        /\ IsFiniteSet(Complained(free, t.id, "rider"))
        /\ IsFiniteSet(PromoSettled(t, a1))
    BY <2>1, <2>2, HelpersFinite
  <2>. QED
    BY <1>1, <2>1, <2>3, <2>4 DEF ForceRouted, free
<1>3. IsFiniteSet(a3)
  <2>. HIDE DEF a2
  <2>1. IsFiniteSet(Without(a2, "issue_refund"))
    BY <1>2, HelpersFinite
  <2>2. IsFiniteSet(Escalated(Without(a2, "issue_refund")))
    BY <2>1, HelpersFinite
  <2>3. IsFiniteSet(Flagged(Escalated(Without(a2, "issue_refund"))))
    BY <2>2, HelpersFinite
  <2>. QED
    BY <1>2, <2>3 DEF NeverArrivedRefused
<1>4. IsFiniteSet(a4)
  <2>. HIDE DEF a3
  <2>. DEFINE small == SmallClaims(a3)
              held == IF Has(small, "issue_refund") THEN small
                      ELSE small \cup {Refund("refund", t.id, Token(t))}
  <2>1. IsFiniteSet(small)
    BY <1>3, FS_Subset DEF SmallClaims
  <2>2. IsFiniteSet(held)
    <3>. HIDE DEF small
    <3>. QED
      BY <2>1, HelpersFinite
  <2>3. a4 = a3 \/ a4 = Flagged(Escalated(held))
    BY DEF AbuserTokened
  <2>. HIDE DEF held, a4
  <2>4. IsFiniteSet(Escalated(held))
    BY <2>2, HelpersFinite
  <2>5. IsFiniteSet(Flagged(Escalated(held)))
    BY <2>4, HelpersFinite
  <2>. QED
    BY <1>3, <2>3, <2>5
<1>5. IsFiniteSet(a5)
  <2>. HIDE DEF a4
  <2>1. IsFiniteSet(Without(a4, "issue_refund"))
    BY <1>4, HelpersFinite
  <2>2. IsFiniteSet(Flagged(Without(a4, "issue_refund"))) /\ IsFiniteSet(Flagged(a4))
    BY <1>4, <2>1, HelpersFinite
  <2>. QED
    BY <1>4, <2>2 DEF InjectionStripped
<1>6. IsFiniteSet(a6)
  <2>. HIDE DEF a5
  <2>. QED
    BY <1>5, HelpersFinite DEF VerbalEscalated
<1>7. IsFiniteSet(OrderIdAwaited(t, a6))
  <2>. HIDE DEF a6
  <2>. QED
    BY <1>6, HelpersFinite DEF OrderIdAwaited
<1>. QED
  BY <1>7 DEF Routed

LEMMA ResolvedFinite ==
    ASSUME NEW t, NEW acts, IsFiniteSet(acts)
    PROVE  IsFiniteSet(Resolved(t, acts))
<1>. DEFINE a1 == MatrixFilled(t, acts)
            a2 == MatrixOverridden(t, a1)
            a3 == Deduped(t, a2)
<1>1. IsFiniteSet(a1)
  <2>. DEFINE b1 == Without(acts, "escalate_to_human")
              b2 == b1 \cup {Complaint("complaint", t.id, Target(t))}
  <2>1. IsFiniteSet(b1)
    BY HelpersFinite
  <2>2. IsFiniteSet(b2)
    <3>. HIDE DEF b1
    <3>. QED
      BY <2>1, HelpersFinite
  <2>3. a1 \in {acts, b2, b2 \cup {Refund("refund", t.id, Proposal(t))}}
    BY DEF MatrixFilled
  <2>. HIDE DEF a1, b2
  <2>4. IsFiniteSet(b2 \cup {Refund("refund", t.id, Proposal(t))})
    BY <2>2, HelpersFinite
  <2>. QED
    BY <2>2, <2>3, <2>4
<1>2. IsFiniteSet(a2)
  <2>. HIDE DEF a1
  <2>. DEFINE f == [a \in a1 |-> Repriced(t, a)]
              priced == IF AutoApproved(t) /\ Proposal(t) > 0
                          THEN {Repriced(t, a) : a \in a1} ELSE a1
  <2>1. DOMAIN f = a1 /\ {Repriced(t, a) : a \in a1} = {f[a] : a \in a1}
    OBVIOUS
  <2>2. IsFiniteSet(priced)
    <3>. HIDE DEF f
    <3>. QED
      BY <1>1, <2>1, ChangedFinite
  <2>3. a2 \in {a1, priced, Complained(priced, t.id, Target(t))}
    BY DEF MatrixOverridden
  <2>. HIDE DEF priced, a2
  <2>4. IsFiniteSet(Complained(priced, t.id, Target(t)))
    BY <2>2, HelpersFinite
  <2>. QED
    BY <1>1, <2>2, <2>3, <2>4
<1>3. IsFiniteSet(a3)
  <2>. HIDE DEF a2
  <2>. QED
    BY <1>2, FS_Subset DEF Deduped
<1>4. IsFiniteSet(Pivoted(t, a3))
  <2>. HIDE DEF a3
  <2>. DEFINE b1 == {a \in a3 : a.type = "flag_abuse"}
  <2>1. IsFiniteSet(b1)
    BY <1>3, FS_Subset
  <2>2. Pivoted(t, a3) \in {a3, Flagged(b1), Flagged(Escalated(a3))}
    BY DEF Pivoted
  <2>. HIDE DEF b1
  <2>3. IsFiniteSet(Flagged(b1)) /\ IsFiniteSet(Escalated(a3))
    BY <1>3, <2>1, HelpersFinite
  <2>4. IsFiniteSet(Flagged(Escalated(a3)))
    BY <2>3, HelpersFinite
  <2>. QED
    BY <1>3, <2>2, <2>3, <2>4
<1>. QED
  BY <1>4 DEF Resolved

-----------------------------------------------------------------------------
(* What the rules after the injection rule keep.                           *)

Late(t, acts) ==
    Shaped(Settled(t, Resolved(t, OrderIdAwaited(t, VerbalEscalated(t, acts)))))

LEMMA HelpersKeep ==
    ASSUME NEW acts, NEW id, NEW target
    PROVE  /\ Has(acts, "flag_abuse") => /\ Has(Escalated(acts), "flag_abuse")
                                        /\ Has(Without(acts, "escalate_to_human"), "flag_abuse")
                                        /\ Has(Complained(acts, id, target), "flag_abuse")
           /\ ~Has(acts, "issue_refund") => /\ ~Has(Escalated(acts), "issue_refund")
                                           /\ ~Has(Flagged(acts), "issue_refund")
                                           /\ ~Has(Without(acts, "escalate_to_human"), "issue_refund")
                                           /\ ~Has(Complained(acts, id, target), "issue_refund")
           /\ Has(Flagged(acts), "flag_abuse")
           /\ ~Has(Without(acts, "issue_refund"), "issue_refund")
<1>1. /\ Plain("escalate", "escalate_to_human").type = "escalate_to_human"
      /\ Plain("flag", "flag_abuse").type = "flag_abuse"
      /\ Complaint("complaint", id, target).type = "file_complaint"
  BY DEF Plain, Complaint
<1>2. Has(acts, "flag_abuse") => /\ Has(Escalated(acts), "flag_abuse")
                                 /\ Has(Without(acts, "escalate_to_human"), "flag_abuse")
                                 /\ Has(Complained(acts, id, target), "flag_abuse")
  BY DEF Has, Escalated, Without, Complained
<1>3. ~Has(acts, "issue_refund") => /\ ~Has(Escalated(acts), "issue_refund")
                                    /\ ~Has(Flagged(acts), "issue_refund")
  BY <1>1 DEF Has, Escalated, Flagged
<1>4. ~Has(acts, "issue_refund") => /\ ~Has(Without(acts, "escalate_to_human"), "issue_refund")
                                    /\ ~Has(Complained(acts, id, target), "issue_refund")
  BY <1>1 DEF Has, Without, Complained
<1>5. Has(Flagged(acts), "flag_abuse")
  BY <1>1 DEF Has, Flagged
<1>6. ~Has(Without(acts, "issue_refund"), "issue_refund")
  BY DEF Has, Without
<1>. QED
  BY <1>2, <1>3, <1>4, <1>5, <1>6

\* After the history no rule adds a refund or a complaint.
LEMMA SettledClaims ==
    ASSUME NEW t, NEW acts
    PROVE  \A a \in Shaped(Settled(t, acts)) : IsClaimOn(a) => a \in acts
<1>. DEFINE From(some) == \A a \in some : IsClaimOn(a) => a \in acts
            a2 == Downgraded(t, acts)
            a3 == Collapsed(t, a2)
            a4 == OrderlessDropped(a3)
            a5 == SafetyNet(t, a4)
<1>1. /\ ~IsClaimOn(Plain("escalate", "escalate_to_human"))
      /\ ~IsClaimOn(Plain("flag", "flag_abuse"))
      /\ ~IsClaimOn(Plain("close", "close"))
  BY DEF IsClaimOn, Plain
<1>2. ASSUME NEW some, From(some) PROVE From(Escalated(some)) /\ From(Flagged(some))
  BY <1>1, <1>2 DEF Escalated, Flagged
<1>3. From(acts)
  OBVIOUS
<1>4. From(a2)
  <2>. HIDE DEF From
  <2>. QED
    BY <1>2, <1>3 DEF Downgraded
<1>5. From(a3)
  <2>. HIDE DEF a2
  <2>. QED
    BY <1>1, <1>4 DEF Collapsed, Without
<1>6. From(a4)
  <2>. HIDE DEF a3
  <2>. QED
    BY <1>5 DEF OrderlessDropped
<1>7. From(a5)
  <2>1. From({Plain("close", "close")})
    BY <1>1
  <2>. HIDE DEF From, a4
  <2>2. From(Flagged(Escalated(a4)))
    BY <1>2, <1>6
  <2>. QED
    BY <1>6, <2>1, <2>2 DEF SafetyNet
<1>. HIDE DEF a5
<1>8. From(Shaped(a5))
  BY <1>7 DEF Shaped
<1>. QED
  BY <1>8 DEF Settled, a5

\* From the history on, no rule adds one either.
Tail(t, acts) == Shaped(Settled(t, Pivoted(t, acts)))

LEMMA TailClaims ==
    ASSUME NEW t, NEW acts
    PROVE  \A a \in Tail(t, acts) : IsClaimOn(a) => a \in acts
<1>1. /\ ~IsClaimOn(Plain("escalate", "escalate_to_human"))
      /\ ~IsClaimOn(Plain("flag", "flag_abuse"))
  BY DEF IsClaimOn, Plain
<1>2. \A a \in Pivoted(t, acts) : IsClaimOn(a) => a \in acts
  BY <1>1 DEF Pivoted, Flagged, Escalated
<1>. QED
  BY <1>2, SettledClaims DEF Tail

\* The flag stays, where the matrix is not asked.
LEMMA FlagStays ==
    ASSUME NEW t, ~TriesMatrix(t), NEW acts, Has(acts, "flag_abuse")
    PROVE  Has(Late(t, acts), "flag_abuse")
<1>. DEFINE a1 == VerbalEscalated(t, acts)
            a2 == OrderIdAwaited(t, a1)
            a3 == Deduped(t, a2)
            a4 == Pivoted(t, a3)
            a5 == Downgraded(t, a4)
            a6 == Collapsed(t, a5)
            a7 == OrderlessDropped(a6)
<1>1. Has(a1, "flag_abuse")
  BY HelpersKeep DEF VerbalEscalated
<1>2. Has(a2, "flag_abuse")
  <2>. HIDE DEF a1
  <2>. QED
    BY <1>1, HelpersKeep DEF OrderIdAwaited
<1>3. Has(a3, "flag_abuse")
  <2>. HIDE DEF a2
  <2>. QED
    BY <1>2 DEF Deduped, Has
<1>4. Has(a4, "flag_abuse")
  <2>. HIDE DEF a3
  <2>. QED
    BY <1>3, HelpersKeep DEF Pivoted
<1>5. Has(a5, "flag_abuse")
  <2>. HIDE DEF a4
  <2>. QED
    BY <1>4, HelpersKeep DEF Downgraded
<1>6. Has(a6, "flag_abuse")
  <2>. HIDE DEF a5
  <2>. QED
    BY <1>5 DEF Collapsed, Has
<1>7. Has(a7, "flag_abuse")
  <2>. HIDE DEF a6
  <2>. QED
    BY <1>6 DEF OrderlessDropped, Has
<1>8. SafetyNet(t, a7) = a7
  <2>. HIDE DEF a7
  <2>. QED
    BY <1>7 DEF SafetyNet, Has
<1>9. Late(t, acts) = Shaped(a7)
  <2>1. MatrixOverridden(t, MatrixFilled(t, a2)) = a2
    BY DEF MatrixOverridden, MatrixFilled
  <2>. QED
    BY <1>8, <2>1 DEF Late, Settled, Resolved
<1>. HIDE DEF a7
<1>. QED
  BY <1>7, <1>9 DEF Shaped, Has

\* No refund comes back, where the matrix has none.
LEMMA NoRefundReturns ==
    ASSUME NEW t, TriesMatrix(t) => Proposal(t) = 0,
           NEW acts, ~Has(acts, "issue_refund")
    PROVE  ~Has(Late(t, acts), "issue_refund")
<1>. DEFINE a1 == VerbalEscalated(t, acts)
            a2 == OrderIdAwaited(t, a1)
            b1 == MatrixFilled(t, a2)
            b2 == MatrixOverridden(t, b1)
            a3 == Deduped(t, b2)
<1>1. ~Has(a1, "issue_refund")
  BY HelpersKeep DEF VerbalEscalated
<1>2. ~Has(a2, "issue_refund")
  <2>. HIDE DEF a1
  <2>. QED
    BY <1>1, HelpersKeep DEF OrderIdAwaited
<1>3. ~Has(b1, "issue_refund")
  <2>. HIDE DEF a2
  <2>. DEFINE calm == Without(a2, "escalate_to_human")
  <2>1. ~Has(calm \cup {Complaint("complaint", t.id, Target(t))}, "issue_refund")
    BY <1>2, HelpersKeep DEF Has, Complaint, Plain
  <2>2. b1 = a2 \/ b1 = calm \cup {Complaint("complaint", t.id, Target(t))} \cup {}
    BY DEF MatrixFilled
  <2>. QED
    BY <1>2, <2>1, <2>2
<1>4. ~Has(b2, "issue_refund")
  <2>. HIDE DEF b1
  <2>. QED
    BY <1>3 DEF MatrixOverridden
<1>5. ~Has(a3, "issue_refund")
  <2>. HIDE DEF b2
  <2>. QED
    BY <1>4 DEF Deduped, Has
<1>. HIDE DEF a3
<1>6. \A a \in Tail(t, a3) : ~(a.type = "issue_refund")
  BY <1>5, TailClaims DEF Has, IsClaimOn
<1>. QED
  BY <1>6 DEF Late, Resolved, Tail, Has, a3

-----------------------------------------------------------------------------
(* One turn.                                                               *)

LEMMA ValidatedIsLate ==
    ASSUME NEW t, NEW acts, ~t.msg.closes
    PROVE  Shaped(Validated(t, acts)) =
             Late(t, InjectionStripped(t, AbuserTokened(t, NeverArrivedRefused(t,
                        ForceRouted(t, Capped(t, acts))))))
  BY DEF Validated, Routed, Late

LEMMA ClosingIsHarmless ==
    ASSUME NEW t, NEW acts, t.msg.closes
    PROVE  \A a \in Shaped(Validated(t, acts)) : ~IsClaimOn(a)
  BY DEF Validated, Shaped, IsClaimOn, Plain

LEMMA PolicyTurn ==
    ASSUME NEW t, IsTurn(t), NEW acts, ~t.msg.closes,
           t.msg.intent \in {"double_charge", "rider_demanded_tip", "cancel_request"}
    PROVE  ~Has(Shaped(Validated(t, acts)), "issue_refund")
<1>. DEFINE a1 == Capped(t, acts)
            a2 == ForceRouted(t, a1)
            a3 == NeverArrivedRefused(t, a2)
            a4 == AbuserTokened(t, a3)
            a5 == InjectionStripped(t, a4)
<1>1. ~Has(a2, "issue_refund")
  <2>. HIDE DEF a1
  <2>1. ~Has({}, "issue_refund")
    BY DEF Has
  <2>2. ~Has(Without(a1, "issue_refund"), "issue_refund")
    BY HelpersKeep
  <2>. QED
    BY <2>1, <2>2, HelpersKeep DEF ForceRouted
<1>2. a4 = a2
  BY DEF NeverArrivedRefused, AbuserTokened, SoftAbuserIntents
<1>3. ~Has(a5, "issue_refund")
  <2>. HIDE DEF a2
  <2>. QED
    BY <1>1, <1>2, HelpersKeep DEF InjectionStripped
<1>4. TriesMatrix(t) => Proposal(t) = 0
  <2>1. Matrix[t.msg.intent].pct = 0
    BY DEF Matrix, Row
  <2>2. t.msg.intent \in Intents
    BY DEF Intents
  <2>. QED
    BY <2>1, <2>2, NothingOfNothing DEF Proposal, TriesMatrix, IsTurn, Found, Bill
<1>5. ~Has(Late(t, a5), "issue_refund")
  <2>. HIDE DEF a5
  <2>. QED
    BY <1>3, <1>4, NoRefundReturns
<1>. QED
  BY <1>5, ValidatedIsLate

LEMMA NeverArrivedTurn ==
    ASSUME NEW t, NEW acts, ~t.msg.closes,
           t.msg.intent = "never_arrived", Found(t), Abuser(t)
    PROVE  /\ ~Has(Shaped(Validated(t, acts)), "issue_refund")
           /\ Has(Shaped(Validated(t, acts)), "flag_abuse")
<1>. DEFINE a2 == ForceRouted(t, Capped(t, acts))
            a3 == NeverArrivedRefused(t, a2)
            a4 == AbuserTokened(t, a3)
            a5 == InjectionStripped(t, a4)
<1>1. ~Has(a3, "issue_refund") /\ Has(a3, "flag_abuse")
  <2>. HIDE DEF a2
  <2>1. ~Has(Without(a2, "issue_refund"), "issue_refund")
    BY HelpersKeep
  <2>2. ~Has(Escalated(Without(a2, "issue_refund")), "issue_refund")
    BY <2>1, HelpersKeep
  <2>3. a3 = Flagged(Escalated(Without(a2, "issue_refund")))
    BY DEF NeverArrivedRefused
  <2>. QED
    BY <2>2, <2>3, HelpersKeep
<1>2. a4 = a3
  BY DEF AbuserTokened, SoftAbuserIntents
<1>3. ~Has(a5, "issue_refund") /\ Has(a5, "flag_abuse")
  <2>. HIDE DEF a3
  <2>. QED
    BY <1>1, <1>2, HelpersKeep DEF InjectionStripped, LegitRefundIntents
<1>4. ~TriesMatrix(t)
  BY DEF TriesMatrix
<1>5. ~Has(Late(t, a5), "issue_refund") /\ Has(Late(t, a5), "flag_abuse")
  <2>. HIDE DEF a5
  <2>. QED
    BY <1>3, <1>4, NoRefundReturns, FlagStays
<1>. QED
  BY <1>5, ValidatedIsLate

LEMMA InjectedTurn ==
    ASSUME NEW t, NEW acts, ~t.msg.closes, Injected(t)
    PROVE  /\ Has(Shaped(Validated(t, acts)), "flag_abuse")
           /\ Has(Shaped(Validated(t, acts)), "issue_refund") => t.msg.intent \in LegitRefundIntents
<1>. DEFINE a4 == AbuserTokened(t, NeverArrivedRefused(t, ForceRouted(t, Capped(t, acts))))
            a5 == InjectionStripped(t, a4)
<1>1. Has(a5, "flag_abuse")
  <2>. HIDE DEF a4
  <2>. QED
    BY HelpersKeep DEF InjectionStripped
<1>2. CASE t.msg.intent \notin LegitRefundIntents
  <2>1. ~Has(a5, "issue_refund")
    <3>. HIDE DEF a4
    <3>1. ~Has(Without(a4, "issue_refund"), "issue_refund")
      BY HelpersKeep
    <3>. QED
      BY <1>2, <3>1, HelpersKeep DEF InjectionStripped
  <2>2. ~Has(Late(t, a5), "issue_refund")
    <3>. HIDE DEF a5
    <3>. QED
      BY <2>1, NoRefundReturns DEF TriesMatrix
  <2>. QED
    BY <2>2, <1>1, FlagStays, ValidatedIsLate DEF TriesMatrix
<1>3. CASE t.msg.intent \in LegitRefundIntents
  <2>1. Has(Late(t, a5), "flag_abuse")
    <3>. HIDE DEF a5
    <3>. QED
      BY <1>1, FlagStays DEF TriesMatrix
  <2>. QED
    BY <1>3, <2>1, ValidatedIsLate
<1>. QED
  BY <1>2, <1>3

\* What the history rule is given.
Priced(t, acts) == MatrixOverridden(t, MatrixFilled(t, Routed(t, acts)))

LEMMA ClaimsAreNew ==
    ASSUME NEW t, NEW acts, NEW a \in Shaped(Validated(t, acts)), IsClaimOn(a)
    PROVE  a \in Priced(t, acts) /\ Unplaced(a) \notin t.prior
<1>1. ~t.msg.closes
  BY ClosingIsHarmless
<1>. DEFINE new == Deduped(t, Priced(t, acts))
<1>2. Shaped(Validated(t, acts)) = Tail(t, new)
  BY <1>1 DEF Validated, Resolved, Tail, Priced
<1>3. a \in new
  BY <1>2, TailClaims
<1>. QED
  BY <1>3 DEF Deduped, IsClaimOn

LEMMA MatrixTurn ==
    ASSUME NEW t, NEW acts, TriesMatrix(t), t.msg.intent \in MatrixActionable,
           AutoApproved(t), Proposal(t) > 0,
           NEW a \in Shaped(Validated(t, acts)), a.type = "issue_refund", a.order = t.id
    PROVE  a.amount = Proposal(t) /\ a.method = "wallet_credit"
<1>. DEFINE a1 == MatrixFilled(t, Routed(t, acts))
            priced == {Repriced(t, b) : b \in a1}
<1>1. a \in Priced(t, acts)
  BY ClaimsAreNew DEF IsClaimOn
<1>2. Priced(t, acts) \in {priced, Complained(priced, t.id, Target(t))}
  BY DEF Priced, MatrixOverridden
<1>3. Complaint("complaint", t.id, Target(t)).type = "file_complaint"
  BY DEF Complaint, Plain
<1>4. a \in priced
  BY <1>1, <1>2, <1>3 DEF Complained
<1>. HIDE DEF a1
<1>5. PICK b \in a1 : a = Repriced(t, b)
  BY <1>4
<1>6. CASE a = b
  BY <1>5, <1>6 DEF Repriced, Refund, Plain
<1>7. CASE a # b
  <2>1. a = Refund(b.slot, t.id, Proposal(t))
    BY <1>5, <1>7 DEF Repriced
  <2>. QED
    BY <2>1 DEF Refund, Plain
<1>. QED
  BY <1>6, <1>7

-----------------------------------------------------------------------------
(* How many refunds a clean customer's claim gets.                         *)

\* The places of the refunds in a list.
PlacesOf(acts) == {a.slot : a \in Refunds(acts)}

\* Every refund has one of these places, and the fields of a refund only.
Placed(acts, places) == \A a \in Refunds(acts) : a.slot \in places /\ a.target = None

LEMMA HelpersPlaced ==
    ASSUME NEW acts, NEW places, Placed(acts, places), NEW id, NEW target, NEW type
    PROVE  /\ Placed(Without(acts, type), places)
           /\ Placed(Escalated(acts), places)
           /\ Placed(Complained(acts, id, target), places)
<1>1. Plain("escalate", "escalate_to_human").type = "escalate_to_human"
  BY DEF Plain
<1>2. Complaint("complaint", id, target).type = "file_complaint"
  BY DEF Complaint, Plain
<1>. QED
  BY <1>1, <1>2 DEF Placed, Refunds, Without, Escalated, Complained

LEMMA MadeRefund ==
    ASSUME NEW slot, NEW id, NEW n
    PROVE  Refund(slot, id, n).slot = slot /\ Refund(slot, id, n).target = None
  BY DEF Refund, Plain

\* Where the matrix is asked, the first rules leave the refunds in their places;
\* only a failed promo gets one more.
LEMMA RoutedPlaced ==
    ASSUME NEW t, TriesMatrix(t), NEW acts \in SUBSET Action, NEW places, Placed(acts, places)
    PROVE  Placed(Routed(t, acts),
                  IF t.msg.intent = "promo_failed" THEN places \cup {"refund"} ELSE places)
<1>. DEFINE a1 == Capped(t, acts)
            a2 == ForceRouted(t, a1)
<1>1. Placed(a1, places)
  <2>. SUFFICES ASSUME NEW b \in Refunds(a1) PROVE b.slot \in places /\ b.target = None
    BY DEF Placed
  <2>1. PICK a \in acts : b = IF Found(t) /\ a.type = "issue_refund" /\ a.amount > t.bill.total
                                THEN [a EXCEPT !.amount = t.bill.total] ELSE a
    BY DEF Capped, Refunds
  <2>2. b.type = a.type /\ b.slot = a.slot /\ b.target = a.target
    BY <2>1 DEF Action
  <2>. QED
    BY <2>2 DEF Placed, Refunds
<1>2. Routed(t, acts) = a2
  <2>. HIDE DEF a2
  <2>1. NeverArrivedRefused(t, a2) = a2
    BY DEF NeverArrivedRefused, TriesMatrix
  <2>2. AbuserTokened(t, a2) = a2
    BY DEF AbuserTokened, TriesMatrix
  <2>3. InjectionStripped(t, a2) = a2
    BY DEF InjectionStripped, TriesMatrix
  <2>4. VerbalEscalated(t, a2) = a2
    BY DEF VerbalEscalated, TriesMatrix
  <2>5. OrderIdAwaited(t, a2) = a2
    BY DEF OrderIdAwaited, AwaitingOrderId, NeedsOrderId, TriesMatrix
  <2>. QED
    BY <2>1, <2>2, <2>3, <2>4, <2>5 DEF Routed, a2
<1>. HIDE DEF a1
<1>3. CASE t.msg.intent = "promo_failed" /\ Found(t) /\ t.bill.recent
  <2>. DEFINE paid == IF HasWalletRefund(a1) THEN a1
                      ELSE a1 \cup {Refund("refund", t.id, PromoCredit(t))}
  <2>1. Placed(paid, places \cup {"refund"})
    BY <1>1, MadeRefund DEF Placed, Refunds
  <2>2. a2 = Complained(paid, t.id, "app")
    BY <1>3 DEF ForceRouted, PromoSettled
  <2>. HIDE DEF paid, a2
  <2>. QED
    BY <1>2, <1>3, <2>1, <2>2, HelpersPlaced
<1>4. CASE ~(t.msg.intent = "promo_failed" /\ Found(t) /\ t.bill.recent)
  <2>. DEFINE free == Without(a1, "issue_refund")
  <2>1. Placed(free, places)
    BY <1>1, HelpersPlaced
  <2>2. Placed(HumanAsked(t, a1), places)
    BY <1>1, HelpersPlaced DEF HumanAsked
  <2>3. Placed({}, places)
    BY DEF Placed, Refunds
  <2>4. a2 \in {Complained(free, t.id, "app"), Complained(free, t.id, "rider"),
                HumanAsked(t, a1), {}, a1}
    BY <1>4 DEF ForceRouted
  <2>. HIDE DEF a2, free
  <2>5. Placed(a2, places)
    BY <1>1, <2>1, <2>2, <2>3, <2>4, HelpersPlaced
  <2>. QED
    BY <1>2, <2>5 DEF Placed
<1>. QED
  BY <1>3, <1>4

\* The matrix adds a refund of its own only to a list without one, and leaves
\* those it prices in their places.
LEMMA PricedPlaced ==
    ASSUME NEW t, TriesMatrix(t), NEW acts \in SUBSET Action, NEW places, Placed(acts, places)
    PROVE  \/ Placed(Priced(t, acts), {"refund"})
           \/ Placed(Priced(t, acts),
                     IF t.msg.intent = "promo_failed" THEN places \cup {"refund"} ELSE places)
<1>. DEFINE all == IF t.msg.intent = "promo_failed" THEN places \cup {"refund"} ELSE places
            a1 == Routed(t, acts)
            a2 == MatrixFilled(t, a1)
            calm == Without(a1, "escalate_to_human")
            priced == {Repriced(t, a) : a \in a2}
<1>1. Placed(a1, all)
  BY RoutedPlaced
<1>. HIDE DEF a1, all
<1>2. Placed(a2, all) \/ Placed(a2, {"refund"})
  <2>1. CASE a2 = a1
    BY <1>1, <2>1
  <2>2. CASE a2 # a1
    <3>1. \A a \in a1 : a.type \in {"escalate_to_human", "close"}
      BY <2>2 DEF MatrixFilled
    <3>2. a2 = calm \cup {Complaint("complaint", t.id, Target(t))}
               \cup IF Proposal(t) > 0 THEN {Refund("refund", t.id, Proposal(t))} ELSE {}
      BY <2>2 DEF MatrixFilled
    <3>3. Complaint("complaint", t.id, Target(t)).type = "file_complaint"
      BY DEF Complaint, Plain
    <3>. HIDE DEF a2
    <3>4. \A a \in Refunds(a2) : a = Refund("refund", t.id, Proposal(t))
      BY <3>1, <3>2, <3>3 DEF Refunds, Without
    <3>. QED
      BY <3>4, MadeRefund DEF Placed
  <2>. QED
    BY <2>1, <2>2
<1>. HIDE DEF a2
<1>3. ASSUME NEW some, Placed(a2, some) PROVE Placed(Priced(t, acts), some)
  <2>1. Placed(priced, some)
    <3>. SUFFICES ASSUME NEW b \in Refunds(priced) PROVE b.slot \in some /\ b.target = None
      BY DEF Placed
    <3>1. PICK a \in a2 : b = Repriced(t, a)
      BY DEF Refunds
    <3>2. b = a \/ (a.type = "issue_refund" /\ b = Refund(a.slot, t.id, Proposal(t)))
      BY <3>1 DEF Repriced
    <3>3. b.type = "issue_refund"
      BY DEF Refunds
    <3>4. a \in Refunds(a2)
      BY <3>2, <3>3 DEF Refunds
    <3>. QED
      BY <1>3, <3>2, <3>4, MadeRefund DEF Placed
  <2>2. Priced(t, acts) \in {a2, priced, Complained(a2, t.id, Target(t)),
                              Complained(priced, t.id, Target(t))}
    BY DEF Priced, MatrixOverridden, a1, a2
  <2>. HIDE DEF priced
  <2>. QED
    BY <1>3, <2>1, <2>2, HelpersPlaced
<1>. QED
  BY <1>2, <1>3 DEF all

\* So there are no more refunds on the order than Stage 1 proposed, one if it
\* proposed none, and one more for a failed promo.
LEMMA MatrixCount ==
    ASSUME NEW t, IsTurn(t), TriesMatrix(t), t.msg.intent \in MatrixActionable,
           AutoApproved(t), Proposal(t) > 0,
           NEW acts \in SUBSET Action, IsFiniteSet(acts), \A a \in Refunds(acts) : a.target = None
    PROVE  LET n == Cardinality(Refunds(acts))
           IN Cardinality({a \in Refunds(Shaped(Validated(t, acts))) : a.order = t.id})
                <= IF t.msg.intent = "promo_failed" THEN n + 1 ELSE Greatest(1, n)
<1>. DEFINE n == Cardinality(Refunds(acts))
            own == PlacesOf(acts)
            paid == {a \in Refunds(Shaped(Validated(t, acts))) : a.order = t.id}
            refund(places) == [s \in places |-> Refund(s, t.id, Proposal(t))]
            most == IF t.msg.intent = "promo_failed" THEN n + 1 ELSE Greatest(1, n)
<1>1. IsFiniteSet(own) /\ Cardinality(own) <= n /\ Cardinality(own) \in Nat /\ n \in Nat
  <2>. DEFINE f == [a \in Refunds(acts) |-> a.slot]
  <2>1. IsFiniteSet(Refunds(acts))
    BY FS_Subset DEF Refunds
  <2>2. f \in Surjection(Refunds(acts), own)
    BY DEF Surjection, PlacesOf
  <2>. HIDE DEF f, own
  <2>. QED
    BY <2>1, <2>2, FS_Surjection, FS_CardinalityType
<1>2. ASSUME NEW places, IsFiniteSet(places), Placed(Priced(t, acts), places)
      PROVE  Cardinality(paid) <= Cardinality(places)
             /\ Cardinality(paid) \in Nat /\ Cardinality(places) \in Nat
  <2>. DEFINE image == {refund(places)[s] : s \in places}
  <2>1. paid \subseteq image
    <3>. SUFFICES ASSUME NEW a \in paid PROVE a \in image
      OBVIOUS
    <3>1. a \in Shaped(Validated(t, acts)) /\ a.type = "issue_refund" /\ a.order = t.id
      BY DEF Refunds
    <3>2. a.amount = Proposal(t) /\ a.method = "wallet_credit"
      BY <3>1, MatrixTurn
    <3>3. a.slot \in places /\ a.target = None
      BY <1>2, <3>1, ClaimsAreNew DEF IsClaimOn, Placed, Refunds
    <3>4. a \in Action
      <4>1. Nat \subseteq Int /\ Int \subseteq Int /\ acts \in SUBSET Actions(Int)
        BY AllActions
      <4>2. Shaped(Validated(t, acts)) \in SUBSET Actions(Int)
        BY <4>1, ValidatedTyped
      <4>. QED
        BY <3>1, <4>2, AllActions
    <3>. DEFINE r == Refund(a.slot, t.id, Proposal(t))
    <3>5. r \in Action
      <4>1. Proposal(t) \in Nat /\ t.id \in OrderIds \cup {None}
        BY ProposalNat DEF TriesMatrix, IsTurn
      <4>2. a.slot \in AddedSlots \cup Stage1Slots \cup {None} /\ Nat \subseteq Int
        BY <3>4 DEF Action
      <4>. QED
        BY <4>1, <4>2, MadeActions, AllActions
    <3>6. /\ r.slot = a.slot /\ r.type = "issue_refund" /\ r.order = t.id
          /\ r.amount = Proposal(t) /\ r.method = "wallet_credit" /\ r.target = None
      BY DEF Refund, Plain
    <3>. HIDE DEF r
    <3>7. a = r
      BY <3>1, <3>2, <3>3, <3>4, <3>5, <3>6 DEF Action
    <3>. QED
      BY <3>3, <3>7 DEF r
  <2>2. refund(places) \in Surjection(places, image)
    BY DEF Surjection
  <2>. HIDE DEF image, paid, refund
  <2>3. IsFiniteSet(image) /\ Cardinality(image) <= Cardinality(places)
    BY <1>2, <2>2, FS_Surjection
  <2>4. IsFiniteSet(paid) /\ Cardinality(paid) <= Cardinality(image)
    BY <2>1, <2>3, FS_Subset
  <2>. QED
    BY <1>2, <2>3, <2>4, FS_CardinalityType
<1>3. Placed(acts, own)
  BY DEF Placed, PlacesOf
<1>4. \/ Placed(Priced(t, acts), {"refund"})
      \/ Placed(Priced(t, acts), IF t.msg.intent = "promo_failed" THEN own \cup {"refund"} ELSE own)
  <2>. HIDE DEF own
  <2>. QED
    BY <1>3, PricedPlaced
<1>5. IsFiniteSet({"refund"}) /\ Cardinality({"refund"}) = 1
  BY FS_Singleton
<1>6. IsFiniteSet(own \cup {"refund"}) /\ Cardinality(own \cup {"refund"}) <= n + 1
  <2>. HIDE DEF own
  <2>. QED
    BY <1>1, FS_AddElement
<1>. HIDE DEF paid, own, n
<1>7. Cardinality(paid) <= most
  <2>1. CASE Placed(Priced(t, acts), {"refund"})
    BY <1>1, <1>2, <1>5, <2>1 DEF Greatest
  <2>2. CASE t.msg.intent = "promo_failed" /\ Placed(Priced(t, acts), own \cup {"refund"})
    BY <1>1, <1>2, <1>6, <2>2
  <2>3. CASE t.msg.intent # "promo_failed" /\ Placed(Priced(t, acts), own)
    BY <1>1, <1>2, <2>3 DEF Greatest
  <2>. QED
    BY <1>4, <2>1, <2>2, <2>3
<1>. QED
  BY <1>7 DEF paid, n

LEMMA PivotTurn ==
    ASSUME NEW t, NEW acts, ~t.msg.closes, FlaggedBefore(t), ~HandedOff(t),
           t.msg.intent \notin ChitChat
    PROVE  /\ Has(Shaped(Validated(t, acts)), "flag_abuse")
           /\ \/ Has(Shaped(Validated(t, acts)), "escalate_to_human")
              \/ Abuser(t) /\ \A a \in Shaped(Validated(t, acts)) : ~IsClaimOn(a)
<1>. DEFINE a0 == Deduped(t, Priced(t, acts))
            a1 == Pivoted(t, a0)
            a2 == Downgraded(t, a1)
            a3 == Collapsed(t, a2)
            a4 == OrderlessDropped(a3)
            Marked(some, type) == Has(some, "flag_abuse") /\ (~Abuser(t) => Has(some, type))
<1>1. /\ Plain("escalate", "escalate_to_human").type = "escalate_to_human"
      /\ Plain("flag", "flag_abuse").type = "flag_abuse"
  BY DEF Plain
<1>2. Marked(a1, "escalate_to_human")
  <2>. HIDE DEF a0
  <2>. QED
    BY <1>1 DEF Pivoted, Flagged, Escalated, Has
<1>3. Abuser(t) => \A a \in a1 : ~IsClaimOn(a)
  <2>. HIDE DEF a0
  <2>. QED
    BY <1>1 DEF Pivoted, Flagged, IsClaimOn
<1>4. Marked(a2, "escalate_to_human") /\ a1 \subseteq a2
  <2>. HIDE DEF a1
  <2>. QED
    BY <1>2, <1>1 DEF Downgraded, Escalated, Has
<1>5. Abuser(t) => \A a \in a2 : ~IsClaimOn(a)
  <2>. HIDE DEF a1
  <2>. QED
    BY <1>1, <1>3 DEF Downgraded, Escalated, IsClaimOn
<1>6. a3 = a2
  BY DEF Collapsed
<1>7. Marked(a4, "escalate_to_human") /\ a4 \subseteq a2
  <2>. HIDE DEF a2
  <2>. QED
    BY <1>4, <1>6 DEF OrderlessDropped, Has
<1>8. SafetyNet(t, a4) = a4
  <2>. HIDE DEF a4
  <2>. QED
    BY <1>7 DEF SafetyNet, Has
<1>9. Shaped(Validated(t, acts)) = Shaped(a4)
  BY <1>8 DEF Validated, Settled, Resolved, Priced
<1>10. Marked(Shaped(a4), "escalate_to_human") /\ Shaped(a4) \subseteq a2
  <2>. HIDE DEF a4
  <2>. QED
    BY <1>7 DEF Shaped, Has
<1>. HIDE DEF a2, a4
<1>. QED
  BY <1>5, <1>9, <1>10

\* Refunds the last rules leave together above the soft cap were above it when
\* the soft cap was looked at, and none of the later rules takes the hand-off away.
LEMMA LargeSettled ==
    ASSUME NEW t, ~GoldClean(t.customer), ~AwaitingOrderId(t),
           NEW acts \in SUBSET Actions(Nat), IsFiniteSet(acts),
           RefundTotal(Shaped(Settled(t, acts))) > SoftCap
    PROVE  Has(Shaped(Settled(t, acts)), "escalate_to_human")
<1>. DEFINE a1 == Downgraded(t, acts)
            a2 == Collapsed(t, a1)
            a3 == OrderlessDropped(a2)
            last == Shaped(Settled(t, acts))
<1>1. Refunds(last) \subseteq Refunds(acts)
  <2>. HIDE DEF last
  <2>. QED
    BY SettledClaims DEF IsClaimOn, Refunds, last
<1>2. RefundTotal(last) <= RefundTotal(acts)
  <2>. HIDE DEF last
  <2>1. IsFiniteSet(Refunds(acts)) /\ Amounts(Refunds(acts))
    BY FS_Subset DEF Amounts, Refunds, Actions
  <2>2. RefundTotal(last) = Total(Refunds(last)) /\ RefundTotal(acts) = Total(Refunds(acts))
    BY DEF RefundTotal, Total
  <2>. QED
    BY <1>1, <2>1, <2>2, TotalShrinks
<1>3. RefundTotal(acts) > SoftCap
  <2>1. IsFiniteSet(Refunds(acts)) /\ Amounts(Refunds(acts))
    BY FS_Subset DEF Amounts, Refunds, Actions
  <2>2. IsFiniteSet(Refunds(last)) /\ Amounts(Refunds(last))
    <3>. HIDE DEF last
    <3>1. IsFiniteSet(Refunds(last))
      BY <1>1, <2>1, FS_Subset
    <3>. QED
      BY <1>1, <2>1, <3>1 DEF Amounts
  <2>3. RefundTotal(last) = Total(Refunds(last)) /\ RefundTotal(acts) = Total(Refunds(acts))
    <3>. HIDE DEF last
    <3>. QED
      BY DEF RefundTotal, Total
  <2>. HIDE DEF last
  <2>4. Total(Refunds(last)) \in Nat /\ Total(Refunds(acts)) \in Nat
    BY <2>1, <2>2, TotalNat
  <2>. QED
    BY <1>2, <2>3, <2>4 DEF SoftCap, last
<1>4. Has(a1, "escalate_to_human") /\ acts \subseteq a1
  <2>1. a1 = Escalated(acts)
    BY <1>3 DEF Downgraded
  <2>2. Plain("escalate", "escalate_to_human").type = "escalate_to_human"
    BY DEF Plain
  <2>. QED
    BY <2>1, <2>2 DEF Escalated, Has
<1>5. PICK r \in acts : r.type = "issue_refund"
  <2>1. Refunds(acts) # {}
    <3>1. SUFFICES ASSUME Refunds(acts) = {} PROVE FALSE
      OBVIOUS
    <3>2. RefundTotal(acts) = Total({})
      BY <3>1 DEF RefundTotal, Total
    <3>3. Total({}) = 0
      BY TotalStep, FS_EmptySet
    <3>. QED
      BY <1>3, <3>2, <3>3 DEF SoftCap
  <2>. QED
    BY <2>1 DEF Refunds
<1>6. a2 = a1
  <2>. HIDE DEF a1
  <2>. QED
    BY <1>4, <1>5 DEF Collapsed
<1>7. Has(a3, "escalate_to_human")
  <2>. HIDE DEF a1
  <2>. QED
    BY <1>4, <1>6 DEF OrderlessDropped, Has
<1>8. SafetyNet(t, a3) = a3
  <2>. HIDE DEF a3
  <2>. QED
    BY <1>7 DEF SafetyNet, Has
<1>9. last = Shaped(a3)
  BY <1>8 DEF Settled
<1>. HIDE DEF a3, last
<1>. QED
  BY <1>7, <1>9 DEF Shaped, Has, last

LEMMA LargeTurn ==
    ASSUME NEW t, IsTurn(t), Found(t), ~GoldClean(t.customer),
           NEW acts \in SUBSET Actions(Nat), IsFiniteSet(acts),
           RefundTotal(Shaped(Validated(t, acts))) > SoftCap
    PROVE  Has(Shaped(Validated(t, acts)), "escalate_to_human")
<1>1. ~t.msg.closes
  <2>1. SUFFICES ASSUME t.msg.closes PROVE FALSE
    OBVIOUS
  <2>2. Refunds(Shaped(Validated(t, acts))) = {}
    BY <2>1, ClosingIsHarmless DEF IsClaimOn, Refunds
  <2>3. RefundTotal(Shaped(Validated(t, acts))) = Total({})
    BY <2>2 DEF RefundTotal, Total
  <2>4. Total({}) = 0
    BY TotalStep, FS_EmptySet
  <2>. QED
    BY <2>3, <2>4 DEF SoftCap
<1>. DEFINE new == Resolved(t, Routed(t, acts))
<1>2. new \in SUBSET Actions(Nat)
  <2>1. Nat \subseteq Nat /\ Nat \subseteq Int
    OBVIOUS
  <2>2. Routed(t, acts) \in SUBSET Actions(Nat)
    BY <2>1, RoutedTyped
  <2>. QED
    BY <2>1, <2>2, ResolvedTyped
<1>3. IsFiniteSet(new)
  BY RoutedFinite, ResolvedFinite
<1>4. Shaped(Validated(t, acts)) = Shaped(Settled(t, new))
  BY <1>1 DEF Validated
<1>5. ~AwaitingOrderId(t)
  BY DEF AwaitingOrderId, NeedsOrderId
<1>. HIDE DEF new
<1>. QED
  BY <1>2, <1>3, <1>4, <1>5, LargeSettled

-----------------------------------------------------------------------------
(* The conversation.                                                       *)

LEMMA TurnTyped ==
    ASSUME TypeOK, Waiting, NEW sure
    PROVE  IsTurn(TurnOf(sure)) /\ known.customer \in Customers \cup {None}
           /\ CustomerAfter \in Customers \cup {None} /\ OrderAfter \in OrderIds \cup {None}
<1>1. msg \in Message
  BY InputsTyped DEF TypeOK, Waiting
<1>2. OrderAfter \in OrderIds \cup {None}
  BY <1>1 DEF OrderAfter, TypeOK, Message
<1>3. CustomerAfter \in Customers \cup {None}
  BY DEF CustomerAfter, TypeOK
<1>4. known.customer \in Customers \cup {None}
  BY DEF TypeOK
<1>5. TurnOf(sure).id \in OrderIds \cup {None}
  BY <1>1, OrderHasId DEF TurnOf, Message
<1>6. TurnOf(sure).bill \in Bill \cup {None}
  BY InputsTyped DEF TurnOf, TypeOK
<1>7. TurnOf(sure).msg = msg /\ TurnOf(sure).customer = CustomerAfter
  BY DEF TurnOf
<1>. QED
  BY <1>1, <1>2, <1>3, <1>4, <1>5, <1>6, <1>7, InputsTyped DEF IsTurn

\* Every reachable state is well typed: whatever actions Stage 1 proposes, with
\* amounts of either sign, every rule returns actions.
THEOREM TypeCorrect == Spec => []TypeOK
<1>1. Init => TypeOK
  BY DEF Init, TypeOK
<1>2. TypeOK /\ [Next]_vars => TypeOK'
  <2>. SUFFICES ASSUME TypeOK, [Next]_vars PROVE TypeOK'
    OBVIOUS
  <2>1. ASSUME NEW m \in Messages, Ask(m) PROVE TypeOK'
    BY <2>1 DEF Ask, TypeOK
  <2>2. ASSUME NEW p \in Proposals, NEW sure \in BOOLEAN, Answer(p, sure) PROVE TypeOK'
    <3>1. p \in SUBSET Action
      BY InputsTyped DEF Stage1Action
    <3>2. Waiting
      BY <2>2 DEF Answer
    <3>3. reply' \in SUBSET Action
      <4>1. Nat \subseteq Int /\ Int \subseteq Int /\ p \in SUBSET Actions(Int)
        BY <3>1, AllActions
      <4>2. Shaped(Validated(TurnOf(sure), p)) \in SUBSET Actions(Int)
        BY <3>2, <4>1, TurnTyped, ValidatedTyped
      <4>. QED
        BY <2>2, <4>2, AllActions DEF Answer
    <3>4. \A a \in reply' : Unplaced(a) \in Action
      BY <3>3 DEF Unplaced, Action
    <3>5. said' \in SUBSET Action
      BY <2>2, <3>4 DEF Answer, TypeOK
    <3>6. known' \in [order : OrderIds \cup {None}, customer : Customers \cup {None}]
      BY <2>2, <3>2, TurnTyped DEF Answer
    <3>. QED
      BY <2>2, <3>3, <3>5, <3>6 DEF Answer, TypeOK
  <2>3. ASSUME FallBack PROVE TypeOK'
    <3>1. Waiting
      BY <2>3 DEF FallBack
    <3>2. known' \in [order : OrderIds \cup {None}, customer : Customers \cup {None}]
      BY <2>3, <3>1, TurnTyped DEF FallBack, TypeOK
    <3>3. Plain(None, "escalate_to_human") \in Action
      BY DEF Plain, Action
    <3>. QED
      BY <2>3, <3>2, <3>3 DEF FallBack, TypeOK
  <2>4. ASSUME NEW id \in OrderIds \cup {None}, NEW c \in Customers \cup {None}, Tap(id, c)
        PROVE  TypeOK'
    BY <2>4 DEF Tap, TypeOK
  <2>5. CASE UNCHANGED vars
    BY <2>5 DEF vars, TypeOK
  <2>. QED
    BY <2>1, <2>2, <2>3, <2>4, <2>5 DEF Next
<1>. QED
  BY <1>1, <1>2, PTL DEF Spec

\* Only Answer makes a state with a reply out of one without.
LEMMA OnlyAnswers ==
    ASSUME [Next]_vars, Answered'
    PROVE  \/ Answered /\ UNCHANGED vars
           \/ /\ Waiting
              /\ \E p \in Proposals, sure \in BOOLEAN : Answer(p, sure)
<1>1. ASSUME NEW m \in Messages, Ask(m) PROVE FALSE
  BY <1>1 DEF Ask, Answered
<1>2. ASSUME FallBack PROVE FALSE
  BY <1>2 DEF FallBack, Answered
<1>3. ASSUME NEW id, NEW c, Tap(id, c) PROVE FALSE
  BY <1>3 DEF Tap, Answered
<1>4. CASE UNCHANGED vars
  BY <1>4 DEF vars, Answered
<1>. QED
  BY <1>1, <1>2, <1>3, <1>4 DEF Next, Answer

\* The turn of an answer in terms of the state after it.
LEMMA TurnAfter ==
    ASSUME TypeOK, NEW p \in Proposals, NEW sure \in BOOLEAN, Answer(p, sure)
    PROVE  /\ IsTurn(TurnOf(sure))
           /\ reply' = Shaped(Validated(TurnOf(sure), p))
           /\ msg' = msg /\ TurnOf(sure).msg = msg
           /\ bill' = bill /\ TurnOf(sure).prior = said
           /\ TurnOf(sure).customer = known'.customer
           /\ OrderKnown' => /\ TurnOf(sure).bill = bill /\ Found(TurnOf(sure))
                            /\ TurnOf(sure).id = Order
           /\ KnownAbuser' <=> Abuser(TurnOf(sure))
<1>1. Waiting /\ bill # None
  BY NoneIsNothing DEF Answer, TypeOK
<1>2. known' = [order |-> OrderAfter, customer |-> CustomerAfter]
  BY DEF Answer
<1>3. TurnOf(sure).customer = CustomerAfter /\ TurnOf(sure).msg = msg /\ TurnOf(sure).prior = said
  BY DEF TurnOf
<1>4. OrderAfter = Order => TurnOf(sure).bill = bill /\ TurnOf(sure).id = Order
  BY DEF TurnOf
<1>. QED
  BY <1>1, <1>2, <1>3, <1>4, TurnTyped DEF Answer, OrderKnown, KnownAbuser, Abuser, Found

\* What policy wants no money for gets none, for all orders, customers,
\* messages and proposals.
THEOREM PolicyRoutesHold == Spec => []PolicyRoutesCarryNoRefund
<1>1. Init => PolicyRoutesCarryNoRefund
  BY DEF Init, PolicyRoutesCarryNoRefund, Answered
<1>2. TypeOK /\ PolicyRoutesCarryNoRefund /\ [Next]_vars => PolicyRoutesCarryNoRefund'
  <2>. SUFFICES ASSUME TypeOK, PolicyRoutesCarryNoRefund, [Next]_vars, Answered'
                PROVE  PolicyRoutesCarryNoRefund'
    BY DEF PolicyRoutesCarryNoRefund
  <2>1. CASE UNCHANGED vars
    BY <2>1 DEF vars, PolicyRoutesCarryNoRefund, Answered, OrderKnown, KnownAbuser
  <2>2. ASSUME NEW p \in Proposals, NEW sure \in BOOLEAN, Answer(p, sure)
        PROVE  PolicyRoutesCarryNoRefund'
    <3>. DEFINE t == TurnOf(sure)
    <3>1. ASSUME msg.intent \in {"double_charge", "rider_demanded_tip", "cancel_request"}
          PROVE  ~Has(reply', "issue_refund")
      <4>1. CASE t.msg.closes
        BY <2>2, <4>1, TurnAfter, ClosingIsHarmless DEF Has, IsClaimOn
      <4>2. CASE ~t.msg.closes
        BY <2>2, <3>1, <4>2, TurnAfter, PolicyTurn
      <4>. QED
        BY <4>1, <4>2
    <3>2. ASSUME msg.intent = "never_arrived", OrderKnown', KnownAbuser', ~msg.closes
          PROVE  ~Has(reply', "issue_refund") /\ Has(reply', "flag_abuse")
      BY <2>2, <3>2, TurnAfter, NeverArrivedTurn
    <3>. QED
      BY <2>2, <3>1, <3>2, TurnAfter DEF PolicyRoutesCarryNoRefund
  <2>. QED
    BY <2>1, <2>2, OnlyAnswers
<1>. QED
  BY <1>1, <1>2, TypeCorrect, PTL DEF Spec

\* An injection leaves its flag and moves no money of its own.
THEOREM InjectionsAreTraced == Spec => []InjectionIsTraced
<1>1. Init => InjectionIsTraced
  BY DEF Init, InjectionIsTraced, Answered
<1>2. TypeOK /\ InjectionIsTraced /\ [Next]_vars => InjectionIsTraced'
  <2>. SUFFICES ASSUME TypeOK, InjectionIsTraced, [Next]_vars, Answered'
                PROVE  InjectionIsTraced'
    BY DEF InjectionIsTraced
  <2>1. CASE UNCHANGED vars
    BY <2>1 DEF vars, InjectionIsTraced, Answered
  <2>2. ASSUME NEW p \in Proposals, NEW sure \in BOOLEAN, Answer(p, sure)
        PROVE  InjectionIsTraced'
    BY <2>2, TurnAfter, InjectedTurn DEF InjectionIsTraced, Injected
  <2>. QED
    BY <2>1, <2>2, OnlyAnswers
<1>. QED
  BY <1>1, <1>2, TypeCorrect, PTL DEF Spec

\* Whatever Stage 1 proposes, each refund of a clean claim is the matrix's
\* amount, and there are no more of them than it proposed (or the matrix's own).
THEOREM MatrixAlwaysOwns == Spec => []MatrixOwnsAmounts
<1>1. Init => MatrixOwnsAmounts
  BY DEF Init, MatrixOwnsAmounts, Answered
<1>2. TypeOK /\ MatrixOwnsAmounts /\ [Next]_vars => MatrixOwnsAmounts'
  <2>. SUFFICES ASSUME TypeOK, MatrixOwnsAmounts, [Next]_vars, Answered'
                PROVE  MatrixOwnsAmounts'
    BY DEF MatrixOwnsAmounts
  <2>1. CASE UNCHANGED vars
    BY <2>1 DEF vars, MatrixOwnsAmounts, MostRefunds, Answered, OrderKnown
  <2>2. ASSUME NEW p \in Proposals, NEW sure \in BOOLEAN, Answer(p, sure)
        PROVE  MatrixOwnsAmounts'
    <3>. DEFINE u == TurnOf(sure)
                t == [msg |-> msg', bill |-> bill', customer |-> known'.customer]
    <3>1. ASSUME OrderKnown'
          PROVE  /\ TriesMatrix(t) <=> TriesMatrix(u)
                 /\ AutoApproved(t) <=> AutoApproved(u)
                 /\ Proposal(t) = Proposal(u)
                 /\ u.msg = msg' /\ u.id = Order
      BY <2>2, <3>1, TurnAfter DEF TriesMatrix, AutoApproved, Proposal, Found, Injected, Abuser
    <3>. DEFINE paid == {a \in Refunds(reply') : a.order = Order}
    <3>2. drafted' = p /\ p \in SUBSET Action /\ IsFiniteSet(p)
          /\ \A a \in Refunds(p) : a.target = None
      BY <2>2, InputsTyped DEF Answer, Stage1Action, Refunds
    <3>3. ASSUME OrderKnown', TriesMatrix(t), msg'.intent \in MatrixActionable,
                 AutoApproved(t), Proposal(t) > 0
          PROVE  /\ \A a \in paid : a.amount = Proposal(t) /\ a.method = "wallet_credit"
                 /\ Cardinality(paid) <= MostRefunds'
      <4>1. /\ IsTurn(u) /\ TriesMatrix(u) /\ u.msg.intent \in MatrixActionable
            /\ AutoApproved(u) /\ Proposal(u) > 0 /\ Proposal(t) = Proposal(u)
            /\ reply' = Shaped(Validated(u, p)) /\ u.msg = msg' /\ u.id = Order
        BY <2>2, <3>1, <3>3, TurnAfter
      <4>. HIDE DEF u, t
      <4>2. \A a \in paid : a.amount = Proposal(t) /\ a.method = "wallet_credit"
        BY <4>1, MatrixTurn DEF Refunds
      <4>3. Cardinality(paid) <= IF msg'.intent = "promo_failed" THEN Cardinality(Refunds(p)) + 1
                                  ELSE Greatest(1, Cardinality(Refunds(p)))
        BY <3>2, <4>1, MatrixCount
      <4>. QED
        BY <3>2, <4>2, <4>3 DEF MostRefunds
    <3>. HIDE DEF u
    <3>. QED
      BY <3>3 DEF MatrixOwnsAmounts
  <2>. QED
    BY <2>1, <2>2, OnlyAnswers
<1>. QED
  BY <1>1, <1>2, TypeCorrect, PTL DEF Spec

\* Above the soft cap a human sees the turn, for every finite list of Stage 1
\* without a negative amount.
THEOREM LargeRefundsAreSeen == Spec => []LargeRefundsReachAHuman
<1>1. Init => LargeRefundsReachAHuman
  BY DEF Init, LargeRefundsReachAHuman, Answered
<1>2. TypeOK /\ LargeRefundsReachAHuman /\ [Next]_vars => LargeRefundsReachAHuman'
  <2>. SUFFICES ASSUME TypeOK, LargeRefundsReachAHuman, [Next]_vars, Answered'
                PROVE  LargeRefundsReachAHuman'
    BY DEF LargeRefundsReachAHuman
  <2>1. CASE UNCHANGED vars
    BY <2>1 DEF vars, LargeRefundsReachAHuman, Answered, OrderKnown
  <2>2. ASSUME NEW p \in Proposals, NEW sure \in BOOLEAN, Answer(p, sure)
        PROVE  LargeRefundsReachAHuman'
    <3>1. drafted' = p /\ IsFiniteSet(p) /\ p \in SUBSET Action
      BY <2>2, InputsTyped DEF Answer, Stage1Action
    <3>2. ASSUME OrderKnown', ~GoldClean(known'.customer), RefundTotal(reply') > SoftCap,
                 \A a \in p : a.amount >= 0
          PROVE  Has(reply', "escalate_to_human")
      <4>1. p \in SUBSET Actions(Nat)
        BY <3>1, <3>2 DEF Action, Actions
      <4>. QED
        BY <2>2, <3>1, <3>2, <4>1, TurnAfter, LargeTurn
    <3>. QED
      BY <3>1, <3>2 DEF LargeRefundsReachAHuman
  <2>. QED
    BY <2>1, <2>2, OnlyAnswers
<1>. QED
  BY <1>1, <1>2, TypeCorrect, PTL DEF Spec

\* Claims after a flag are reviewed or refused.
THEOREM FlaggedChatsAreReviewed == Spec => ClaimsAfterAFlagAreReviewed
<1>. DEFINE A == LET Before(type) == \E a \in said : a.type = type
                 IN /\ Waiting /\ Answered'
                    /\ Before("flag_abuse") /\ ~Before("escalate_to_human")
                    /\ msg.intent \notin ChitChat /\ ~msg.closes
                    => /\ Has(reply', "flag_abuse")
                       /\ \/ Has(reply', "escalate_to_human")
                          \/ KnownAbuser' /\ \A a \in reply' : ~IsClaimOn(a)
<1>1. TypeOK /\ [Next]_vars => [A]_vars
  <2>. SUFFICES ASSUME TypeOK, [Next]_vars, Waiting, Answered',
                       \E a \in said : a.type = "flag_abuse",
                       ~\E a \in said : a.type = "escalate_to_human",
                       msg.intent \notin ChitChat, ~msg.closes, ~UNCHANGED vars
                PROVE  /\ Has(reply', "flag_abuse")
                       /\ \/ Has(reply', "escalate_to_human")
                          \/ KnownAbuser' /\ \A a \in reply' : ~IsClaimOn(a)
    OBVIOUS
  <2>1. PICK p \in Proposals, sure \in BOOLEAN : Answer(p, sure)
    BY OnlyAnswers
  <2>2. FlaggedBefore(TurnOf(sure)) /\ ~HandedOff(TurnOf(sure))
    BY <2>1, TurnAfter DEF FlaggedBefore, HandedOff
  <2>. QED
    BY <2>1, <2>2, TurnAfter, PivotTurn
<1>. QED
  BY <1>1, TypeCorrect, PTL DEF Spec, ClaimsAfterAFlagAreReviewed

\* No claim twice in messages one after the other.
THEOREM ClaimsAreMadeOnce == Spec => NoClaimTwice
<1>1. TypeOK /\ [Next]_vars =>
        [Waiting /\ Answered' =>
            \A a \in reply' : IsClaimOn(a) => Unplaced(a) \notin said]_vars
  <2>. SUFFICES ASSUME TypeOK, [Next]_vars, Waiting, Answered', ~UNCHANGED vars,
                       NEW a \in reply', IsClaimOn(a)
                PROVE  Unplaced(a) \notin said
    OBVIOUS
  <2>1. PICK p \in Proposals, sure \in BOOLEAN : Answer(p, sure)
    BY OnlyAnswers
  <2>. QED
    BY <2>1, TurnAfter, ClaimsAreNew
<1>. QED
  BY <1>1, TypeCorrect, PTL DEF Spec, NoClaimTwice

-----------------------------------------------------------------------------
(* Scored runs.                                                            *)

Playing == {"turn", "model", "reply"}

-----------------------------------------------------------------------------
(* The inductive invariant, of one run.                                    *)

\* A run that has not stopped is within its cap, and its session's next reply
\* is within the simulator's limit.
WithinLimits(r) ==
    /\ step[r] \notin {"ended", "raised", "hung"} => place[r] <= MaxSessions
    /\ step[r] \in Playing => sim[r][place[r]].replies < TurnLimit

\* Nothing has happened yet to the sessions after the present one, nor to the
\* present one before it has started.
AheadIsFresh(r) ==
    \A k \in Places :
        k > place[r] \/ (k = place[r] /\ step[r] \in {"start", "ended"}) =>
            row[r][k] = Absent /\ sim[r][k] = Unplayed

\* While a session is played neither side has a score for it, and when it is
\* closed the score in hand is the one the simulator gave, if it was heard.
ScoreInHand(r) ==
    /\ step[r] \in Playing \cup {"start"} =>
          score[r] = NoScore /\ place[r] \notin unheard[r]
    /\ step[r] \in Playing => sim[r][place[r]].score = NoScore
    /\ step[r] \in Playing \cup {"close"} => row[r][place[r]].state \in {"absent", "open"}
    /\ step[r] = "close" =>
          score[r] = IF place[r] \in unheard[r] THEN NoScore ELSE sim[r][place[r]].score

\* The results speak of earlier sessions, a prod run's of all of them.
BehindIsReported(r) ==
    /\ \A k \in reported[r] : k < place[r]
    /\ \A k \in unheard[r] : k <= place[r]
    /\ mode[r] = "prod" => \A k \in Places : k < place[r] => k \in reported[r]

\* ScoresAreRecorded for one session.
Recorded(r, k) ==
    /\ row[r][k].state \in {"absent", "closed"}
    /\ row[r][k].state = "closed" =>
          row[r][k].score = IF k \in unheard[r] THEN NoScore ELSE sim[r][k].score

RunInv(r) ==
    /\ WithinLimits(r)
    /\ AheadIsFresh(r)
    /\ ScoreInHand(r)
    /\ BehindIsReported(r)
    /\ \A k \in reported[r] : Recorded(r, k)

IInv == RunsTypeOK /\ \A r \in Runs : RunInv(r)

-----------------------------------------------------------------------------
(* Types.                                                                  *)

RowType == [state : {"absent", "open", "closed"}, score : Scores \cup {NoScore}]
SimType == [open : BOOLEAN, replies : 0..TurnLimit, score : Scores \cup {NoScore}]

\* The bounds are numbers, and a run has a first session.
LEMMA Bounds ==
    /\ MaxSessions \in Nat /\ MaxSessions > 0 /\ 1 \in 1..(MaxSessions + 1)
    /\ TurnLimit \in Nat /\ TurnLimit > 0
    /\ MaxAttempts \in Nat /\ MaxAttempts > 0
    /\ Quota \in Nat
BY BoundsPositive

\* The initial state is typed.
LEMMA RunsTypeInit == RunsInit => RunsTypeOK
<1> SUFFICES ASSUME RunsInit PROVE RunsTypeOK
  OBVIOUS
<1>1. Absent \in RowType /\ Unplayed \in SimType
  BY Bounds DEF Absent, Unplayed, RowType, SimType
<1> QED
  BY <1>1, Bounds DEF RunsInit, RunsTypeOK, RowType, SimType, Steps

\* What a step of run r may do to the run's own place and locals.
LEMMA NextSessionTyped ==
    ASSUME RunsTypeOK, NEW r \in Runs, place[r] <= MaxSessions, NextSession(r)
    PROVE  /\ step' \in [Runs -> Steps]
           /\ place' \in [Runs -> 1..(MaxSessions + 1)]
           /\ stage' \in [Runs -> 0..2]
           /\ attempt' \in [Runs -> 0..(MaxAttempts - 1)]
           /\ closing' \in [Runs -> BOOLEAN]
           /\ score' \in [Runs -> Scores \cup {NoScore}]
<1>1. place[r] + 1 \in 1..(MaxSessions + 1)
  BY Bounds DEF RunsTypeOK
<1>2. 0 \in 0..(MaxAttempts - 1)
  BY Bounds
<1> QED
  BY <1>1, <1>2 DEF NextSession, Go, RunsTypeOK, Steps

\* An exception leaves the run typed, wherever it goes.
LEMMA RaiseTyped ==
    ASSUME RunsTypeOK, NEW r \in Runs, place[r] <= MaxSessions, Raise(r)
    PROVE  /\ step' \in [Runs -> Steps]
           /\ place' \in [Runs -> 1..(MaxSessions + 1)]
           /\ stage' \in [Runs -> 0..2]
           /\ attempt' \in [Runs -> 0..(MaxAttempts - 1)]
           /\ closing' \in [Runs -> BOOLEAN]
           /\ score' \in [Runs -> Scores \cup {NoScore}]
<1>1. CASE mode[r] = "dev"
  BY <1>1, NextSessionTyped DEF Raise
<1>2. CASE mode[r] # "dev"
  BY <1>2 DEF Raise, Go, RunsTypeOK, Steps, local
<1> QED
  BY <1>1, <1>2

\* A session that is granted stays within the quota.
LEMMA GrantsTyped ==
    ASSUME RunsTypeOK, NEW r \in Runs, place[r] \in Places, Granted(r), Grants(r)
    PROVE  sim' \in [Runs -> [Places -> SimType]] /\ drawn' \in 0..Quota
<1>0. sim[r][place[r]] \in SimType
  BY DEF RunsTypeOK, SimType
<1>1. [sim[r][place[r]] EXCEPT !.open = TRUE] \in SimType
  BY <1>0 DEF SimType
<1> QED
  BY <1>1, Bounds DEF Granted, Grants, RunsTypeOK, SimType

\* A reply that is taken is within the simulator's limit, and so is its score.
LEMMA TakenTyped ==
    ASSUME RunsTypeOK, NEW r \in Runs, place[r] \in Places, NEW ends \in BOOLEAN,
           sim[r][place[r]].replies < TurnLimit, Taken(r, ends)
    PROVE  /\ sim' \in [Runs -> [Places -> SimType]]
           /\ sim'[r][place[r]].score = IF ends THEN sim[r][place[r]].replies + 1 ELSE NoScore
           /\ sim'[r][place[r]] \in SimType
           /\ ~ends => sim'[r][place[r]].replies < TurnLimit
<1> DEFINE n == sim[r][place[r]].replies
<1> DEFINE new == [open |-> ~ends, replies |-> n + 1, score |-> IF ends THEN n + 1 ELSE NoScore]
<1>1. sim[r][place[r]] \in SimType /\ n \in 0..TurnLimit
  BY DEF RunsTypeOK, SimType
<1>2. n + 1 \in 0..TurnLimit /\ n + 1 \in Scores
  BY <1>1, Bounds DEF Scores
<1>3. new \in SimType
  BY <1>2 DEF SimType
<1>4. sim' = [sim EXCEPT ![r][place[r]] = new]
  BY DEF Taken
<1>5. ~ends => n + 1 < TurnLimit
  BY DEF Taken
<1> HIDE DEF new
<1>6. sim' \in [Runs -> [Places -> SimType]] /\ sim'[r][place[r]] = new
  BY <1>3, <1>4 DEF RunsTypeOK, SimType
<1> QED
  BY <1>3, <1>5, <1>6 DEF new

\* A step of a run that is within its limits is typed.
LEMMA StepTyped ==
    ASSUME RunsTypeOK, NEW r \in Runs, WithinLimits(r), RunStep(r), UNCHANGED mode
    PROVE  RunsTypeOK'
<1>1. step[r] \notin {"ended", "raised", "hung"}
  BY DEF RunStep, StartSession, StartRefused, StartLost, TurnRefused, TurnBegins, TurnReplayed,
     TurnRaises, ModelAnswers, ModelBusy, ModelFails, Reply, ReplyFails, Close, CloseRaises, Hangs
<1>2. place[r] <= MaxSessions /\ place[r] \in Places
  BY <1>1 DEF WithinLimits, RunsTypeOK, Places
<1>3. CASE StartSession(r)
  BY <1>2, <1>3, GrantsTyped DEF StartSession, Go, RunsTypeOK, Steps, local, SimType
<1>4. CASE StartRefused(r)
  <2>1. CASE mode[r] = "dev"
    BY <1>2, <1>4, <2>1, NextSessionTyped DEF StartRefused, RunsTypeOK
  <2>2. CASE mode[r] # "dev"
    BY <1>4, <2>2 DEF StartRefused, Go, RunsTypeOK, Steps, local
  <2> QED
    BY <2>1, <2>2
<1>5. CASE StartLost(r)
  <2>1. sim' \in [Runs -> [Places -> SimType]] /\ drawn' \in 0..Quota
    BY <1>2, <1>5, GrantsTyped DEF StartLost, RunsTypeOK, SimType
  <2> QED
    BY <1>2, <1>5, <2>1, RaiseTyped DEF StartLost, RunsTypeOK, SimType
<1>6. CASE TurnRefused(r) \/ TurnReplayed(r)
  BY <1>6 DEF TurnRefused, TurnReplayed, Go, RunsTypeOK, Steps, local
<1>7. CASE TurnBegins(r)
  <2>1. row[r][place[r]] \in RowType
    BY <1>2 DEF RunsTypeOK, RowType
  <2>2. [row[r][place[r]] EXCEPT !.state = "open"] \in RowType
    BY <2>1 DEF RowType
  <2>3. row' \in [Runs -> [Places -> RowType]]
    BY <1>2, <1>7, <2>2 DEF TurnBegins, RunsTypeOK, RowType
  <2> QED
    BY <1>7, <2>3 DEF TurnBegins, Go, RunsTypeOK, Steps, local, RowType
<1>8. CASE TurnRaises(r) \/ CloseRaises(r)
  BY <1>2, <1>8, RaiseTyped DEF TurnRaises, CloseRaises, RunsTypeOK
<1>9. ASSUME NEW withClose \in BOOLEAN, ToReply(r, withClose)
      PROVE  RunsTypeOK'
  BY <1>9, Bounds DEF ToReply, Go, RunsTypeOK, Steps
<1>10. CASE ModelAnswers(r)
  <2>1. CASE stage[r] < 2
    <3>1. stage[r] \in 0..2
      BY DEF RunsTypeOK
    <3>2. stage[r] + 1 \in 0..2 /\ 0 \in 0..(MaxAttempts - 1)
      BY <2>1, <3>1, Bounds
    <3>3. /\ stage' = [stage EXCEPT ![r] = @ + 1]
          /\ attempt' = [attempt EXCEPT ![r] = 0]
          /\ UNCHANGED <<step, place, closing, score, row, sim, drawn, reported, unheard>>
      BY <1>10, <2>1, <3>1 DEF ModelAnswers
    <3>4. stage' \in [Runs -> 0..2] /\ attempt' \in [Runs -> 0..(MaxAttempts - 1)]
      BY <3>2, <3>3 DEF RunsTypeOK
    <3> QED
      BY <3>3, <3>4 DEF RunsTypeOK
  <2>2. CASE ~(stage[r] < 2)
    BY <1>9, <1>10, <2>2 DEF ModelAnswers
  <2> QED
    BY <2>1, <2>2
<1>11. CASE ModelBusy(r)
  <2>1. attempt[r] + 1 \in 0..(MaxAttempts - 1)
    BY <1>11, Bounds DEF ModelBusy, RunsTypeOK
  <2> QED
    BY <1>11, <2>1 DEF ModelBusy, RunsTypeOK
<1>12. CASE ModelFails(r)
  BY <1>9, <1>12 DEF ModelFails
<1>13. CASE Reply(r)
  <2>1. PICK ends \in BOOLEAN :
          /\ Taken(r, ends)
          /\ score' = [score EXCEPT ![r] = sim'[r][place[r]].score]
          /\ Go(r, IF ends \/ closing[r] THEN "close" ELSE "turn")
    BY <1>13 DEF Reply
  <2>2. /\ sim' \in [Runs -> [Places -> SimType]]
        /\ sim'[r][place[r]] \in SimType
    BY <1>2, <1>13, <2>1, TakenTyped DEF Reply, WithinLimits, Playing
  <2>3. score' \in [Runs -> Scores \cup {NoScore}]
    BY <2>1, <2>2 DEF SimType, RunsTypeOK
  <2> QED
    BY <1>13, <2>1, <2>2, <2>3 DEF Reply, Go, RunsTypeOK, Steps, SimType
<1>14. CASE ReplyFails(r)
  <2>1. sim' \in [Runs -> [Places -> SimType]]
    BY <1>2, <1>14, TakenTyped DEF ReplyFails, WithinLimits, Playing, RunsTypeOK, SimType
  <2>2. unheard' \in [Runs -> SUBSET Places]
    <3>1. unheard' = unheard \/ unheard' = [unheard EXCEPT ![r] = @ \cup {place[r]}]
      BY <1>14 DEF ReplyFails
    <3>2. unheard \in [Runs -> SUBSET Places]
      BY DEF RunsTypeOK
    <3>3. unheard[r] \cup {place[r]} \in SUBSET Places
      BY <1>2, <3>2
    <3> QED
      BY <3>1, <3>2, <3>3
  <2> QED
    BY <1>14, <2>1, <2>2 DEF ReplyFails, Go, RunsTypeOK, Steps, SimType, local
<1>15. CASE Close(r)
  <2>1. row[r][place[r]] \in RowType /\ [state |-> "closed", score |-> score[r]] \in RowType
    BY <1>2 DEF RunsTypeOK, RowType
  <2>2. row' \in [Runs -> [Places -> RowType]]
    BY <1>2, <1>15, <2>1 DEF Close, RunsTypeOK, RowType
  <2>3. reported' \in [Runs -> SUBSET Places]
    BY <1>2, <1>15 DEF Close, RunsTypeOK
  <2> QED
    BY <1>2, <1>15, <2>2, <2>3, NextSessionTyped DEF Close, RunsTypeOK, RowType
<1>16. CASE Hangs(r)
  BY <1>16 DEF Hangs, Go, RunsTypeOK, Steps, local
<1> QED
  BY <1>3, <1>4, <1>5, <1>6, <1>7, <1>8, <1>10, <1>11, <1>12, <1>13, <1>14, <1>15, <1>16
  DEF RunStep

-----------------------------------------------------------------------------
(* The invariant of a run.                                                 *)

\* It holds before the first session.
LEMMA RunInvInit == ASSUME RunsInit, NEW r \in Runs PROVE RunInv(r)
BY Bounds
DEF RunsInit, RunInv, WithinLimits, AheadIsFresh, ScoreInHand, BehindIsReported, Playing, Places

\* It speaks of the run's own state alone.
LEMMA RunInvLocal ==
    ASSUME NEW r \in Runs, RunInv(r),
           mode'[r] = mode[r], step'[r] = step[r], place'[r] = place[r],
           score'[r] = score[r], row'[r] = row[r], sim'[r] = sim[r],
           reported'[r] = reported[r], unheard'[r] = unheard[r]
    PROVE  RunInv(r)'
BY DEF RunInv, WithinLimits, AheadIsFresh, ScoreInHand, BehindIsReported, Recorded

\* A run's step leaves the other runs alone.
LEMMA OthersKept ==
    ASSUME RunsTypeOK, NEW r \in Runs, RunStep(r), UNCHANGED mode, NEW q \in Runs, q # r
    PROVE  /\ mode'[q] = mode[q] /\ step'[q] = step[q] /\ place'[q] = place[q]
           /\ score'[q] = score[q] /\ row'[q] = row[q] /\ sim'[q] = sim[q]
           /\ reported'[q] = reported[q] /\ unheard'[q] = unheard[q]
<1> USE DEF RunsTypeOK, Go, local
<1>1. ASSUME Raise(r)
      PROVE  step'[q] = step[q] /\ place'[q] = place[q] /\ score'[q] = score[q]
  BY <1>1 DEF Raise, NextSession
<1>2. CASE StartSession(r) \/ StartRefused(r) \/ TurnRefused(r) \/ TurnBegins(r) \/ TurnReplayed(r)
  BY <1>2 DEF StartSession, Grants, StartRefused, NextSession, TurnRefused, TurnBegins, TurnReplayed
<1>3. CASE StartLost(r)
  BY <1>1, <1>3 DEF StartLost, Grants
<1>4. CASE TurnRaises(r) \/ CloseRaises(r)
  BY <1>1, <1>4 DEF TurnRaises, CloseRaises
<1>5. CASE ModelAnswers(r) \/ ModelBusy(r) \/ ModelFails(r)
  BY <1>5 DEF ModelAnswers, ModelBusy, ModelFails, ToReply
<1>6. CASE Reply(r) \/ ReplyFails(r)
  BY <1>6 DEF Reply, ReplyFails, Taken
<1>7. CASE Close(r)
  BY <1>7 DEF Close, NextSession
<1>8. CASE Hangs(r)
  BY <1>8 DEF Hangs
<1> QED
  BY <1>2, <1>3, <1>4, <1>5, <1>6, <1>7, <1>8 DEF RunStep

\* A session is over: the run's next one is untouched, and what the step left
\* of this one is a result with its score.
LEMMA SessionOver ==
    ASSUME RunsTypeOK, NEW r \in Runs, RunInv(r), place[r] \in Places, NextSession(r), mode'[r] = mode[r],
           \A k \in Places \ {place[r]} : row'[r][k] = row[r][k] /\ sim'[r][k] = sim[r][k],
           reported'[r] \subseteq reported[r] \cup {place[r]},
           reported[r] \subseteq reported'[r],
           mode[r] = "prod" => place[r] \in reported'[r],
           unheard'[r] = unheard[r],
           \A k \in reported'[r] : k = place[r] => Recorded(r, k)'
    PROVE  RunInv(r)'
<1>1. /\ place'[r] = place[r] + 1 /\ score'[r] = NoScore
      /\ step'[r] = IF place[r] = MaxSessions THEN "ended" ELSE "start"
      /\ place[r] \in Nat /\ place[r] <= MaxSessions
  BY Bounds DEF NextSession, Go, RunsTypeOK, Places
<1>2. WithinLimits(r)'
  BY <1>1, Bounds DEF WithinLimits, Playing
<1>3. AheadIsFresh(r)'
  <2> SUFFICES ASSUME NEW k \in Places, k >= place[r] + 1
               PROVE  row'[r][k] = Absent /\ sim'[r][k] = Unplayed
    BY <1>1 DEF AheadIsFresh, Places
  <2>1. k > place[r] /\ k # place[r]
    BY <1>1 DEF Places
  <2> QED
    BY <2>1 DEF RunInv, AheadIsFresh
<1>4. /\ \A k \in unheard[r] : k <= place[r] /\ k \in Nat
      /\ \A k \in reported[r] : k < place[r] /\ k \in Places
      /\ mode[r] = "prod" => \A k \in Places : k < place[r] => k \in reported[r]
  BY DEF RunInv, BehindIsReported, RunsTypeOK, Places
<1>5. ScoreInHand(r)'
  BY <1>1, <1>4 DEF ScoreInHand, Playing
<1>6. BehindIsReported(r)'
  <2>1. ASSUME mode[r] = "prod", NEW k \in Places, k < place[r] + 1
        PROVE  k \in reported'[r]
    BY <1>1, <1>4, <2>1 DEF Places
  <2>2. /\ \A k \in reported'[r] : k < place'[r]
        /\ \A k \in unheard'[r] : k <= place'[r]
    BY <1>1, <1>4 DEF Places
  <2> QED
    BY <1>1, <2>1, <2>2 DEF BehindIsReported
<1>7. ASSUME NEW k \in reported'[r]
      PROVE  Recorded(r, k)'
  <2>1. CASE k = place[r]
    BY <2>1
  <2>2. CASE k # place[r]
    BY <1>4, <2>2 DEF RunInv, Recorded
  <2> QED
    BY <2>1, <2>2
<1> QED
  BY <1>2, <1>3, <1>5, <1>6, <1>7 DEF RunInv

\* The run stays in its session: what happened before it and what is ahead of
\* it stay as they are.
LEMMA SessionGoesOn ==
    ASSUME RunsTypeOK, NEW r \in Runs, RunInv(r), place[r] \in Places, mode'[r] = mode[r],
           place'[r] = place[r], reported'[r] = reported[r],
           step'[r] # "start", step'[r] = "ended" => step[r] = "start",
           step'[r] = "ended" => row'[r] = row[r] /\ sim'[r] = sim[r],
           \A k \in Places \ {place[r]} : row'[r][k] = row[r][k] /\ sim'[r][k] = sim[r][k],
           unheard[r] \subseteq unheard'[r], unheard'[r] \subseteq unheard[r] \cup {place[r]},
           step'[r] \in Playing => sim'[r][place[r]].replies < TurnLimit,
           ScoreInHand(r)'
    PROVE  RunInv(r)'
<1>1. place[r] \in Nat /\ place[r] <= MaxSessions
  BY Bounds DEF Places
<1>2. WithinLimits(r)'
  BY <1>1 DEF WithinLimits
<1>3. AheadIsFresh(r)'
  <2> SUFFICES ASSUME NEW k \in Places,
                      k > place[r] \/ (k = place[r] /\ step'[r] = "ended")
               PROVE  row'[r][k] = Absent /\ sim'[r][k] = Unplayed
    BY DEF AheadIsFresh
  <2>1. CASE k > place[r]
    BY <1>1, <2>1 DEF RunInv, AheadIsFresh, Places
  <2>2. CASE k = place[r] /\ step'[r] = "ended"
    BY <2>2 DEF RunInv, AheadIsFresh
  <2> QED
    BY <2>1, <2>2
<1>4. BehindIsReported(r)'
  BY <1>1 DEF RunInv, BehindIsReported
<1>5. ASSUME NEW k \in reported'[r]
      PROVE  Recorded(r, k)'
  <2>1. k \in Places /\ k # place[r] /\ Recorded(r, k)
    BY <1>1 DEF RunInv, BehindIsReported, RunsTypeOK, Places
  <2> QED
    BY <2>1 DEF Recorded
<1> QED
  BY <1>2, <1>3, <1>4, <1>5 DEF RunInv

\* An exception ends the session, or the run with its results; it is not in them.
LEMMA RaiseKeeps ==
    ASSUME RunsTypeOK, NEW r \in Runs, RunInv(r), place[r] \in Places, Raise(r),
           mode'[r] = mode[r], step[r] \in {"start", "close"} \cup Playing,
           row'[r] = row[r], reported'[r] = reported[r], unheard'[r] = unheard[r],
           \A k \in Places \ {place[r]} : sim'[r][k] = sim[r][k]
    PROVE  RunInv(r)'
<1>1. place[r] \notin reported[r]
  BY DEF RunInv, BehindIsReported, Places
<1>2. CASE mode[r] = "dev"
  BY <1>1, <1>2, SessionOver DEF Raise
<1>3. CASE mode[r] # "dev"
  <2>1. step'[r] = "raised" /\ place' = place
    BY <1>3 DEF Raise, Go, RunsTypeOK
  <2>2. ScoreInHand(r)'
    BY <2>1 DEF ScoreInHand, Playing
  <2> QED
    BY <2>1, <2>2, SessionGoesOn DEF Playing
<1> QED
  BY <1>2, <1>3

\* A step of a run keeps its own invariant.
LEMMA RunInvStep ==
    ASSUME RunsTypeOK, NEW r \in Runs, RunInv(r), RunStep(r), UNCHANGED mode
    PROVE  RunInv(r)'
<1>1. step[r] \notin {"ended", "raised", "hung"}
  BY DEF RunStep, StartSession, StartRefused, StartLost, TurnRefused, TurnBegins, TurnReplayed,
     TurnRaises, ModelAnswers, ModelBusy, ModelFails, Reply, ReplyFails, Close, CloseRaises, Hangs
<1>2. place[r] <= MaxSessions /\ place[r] \in Places
  BY <1>1 DEF RunInv, WithinLimits, RunsTypeOK, Places
<1>3. /\ mode'[r] = mode[r]
      /\ sim[r][place[r]] \in SimType /\ row[r][place[r]] \in RowType
      /\ place[r] \notin reported[r]
      /\ score[r] \in Scores \cup {NoScore}
  BY <1>2 DEF RunsTypeOK, SimType, RowType, RunInv, BehindIsReported
<1>4. ASSUME Go(r, "reply") \/ step' = step, step[r] \in Playing,
             UNCHANGED <<place, score, row, sim, reported, unheard>>
      PROVE  RunInv(r)'
  <2>1. step'[r] \in Playing
    BY <1>4 DEF Go, RunsTypeOK, Playing
  <2>2. /\ ScoreInHand(r)'
        /\ sim[r][place[r]].replies < TurnLimit
    BY <1>4, <2>1 DEF RunInv, WithinLimits, ScoreInHand, Playing
  <2> QED
    BY <1>2, <1>3, <1>4, <2>1, <2>2, SessionGoesOn DEF Playing
<1>5. CASE StartSession(r)
  <2>1. /\ step'[r] = "turn" /\ place' = place /\ score' = score /\ row' = row
        /\ reported' = reported /\ unheard' = unheard /\ step[r] = "start"
    BY <1>5 DEF StartSession, Go, RunsTypeOK, local
  <2>2. row[r][place[r]] = Absent /\ sim[r][place[r]] = Unplayed
    BY <1>2, <2>1 DEF RunInv, AheadIsFresh
  <2>3. /\ sim'[r][place[r]] = [Unplayed EXCEPT !.open = TRUE]
        /\ \A k \in Places \ {place[r]} : sim'[r][k] = sim[r][k]
    BY <1>2, <1>5, <2>2 DEF StartSession, Grants, RunsTypeOK
  <2>4. sim'[r][place[r]].score = NoScore /\ sim'[r][place[r]].replies = 0
    BY <2>3 DEF Unplayed
  <2>5. ScoreInHand(r)'
    BY <2>1, <2>2, <2>4 DEF RunInv, ScoreInHand, Playing, Absent
  <2> QED
    BY <1>2, <1>3, <2>1, <2>3, <2>4, <2>5, Bounds, SessionGoesOn DEF Playing
<1>6. CASE StartRefused(r)
  <2>1. CASE mode[r] = "dev"
    BY <1>2, <1>3, <1>6, <2>1, SessionOver DEF StartRefused
  <2>2. CASE mode[r] # "dev"
    <3>1. /\ step'[r] = "ended" /\ step[r] = "start"
          /\ UNCHANGED <<place, row, sim, reported, unheard>>
      BY <1>6, <2>2 DEF StartRefused, Go, RunsTypeOK
    <3>2. ScoreInHand(r)'
      BY <3>1 DEF ScoreInHand, Playing
    <3> QED
      BY <1>2, <1>3, <3>1, <3>2, SessionGoesOn DEF Playing
  <2> QED
    BY <2>1, <2>2
<1>7. CASE StartLost(r)
  <2>1. \A k \in Places \ {place[r]} : sim'[r][k] = sim[r][k]
    BY <1>2, <1>7 DEF StartLost, Grants, RunsTypeOK
  <2> QED
    BY <1>2, <1>3, <1>7, <2>1, RaiseKeeps DEF StartLost
<1>8. CASE TurnRefused(r) \/ TurnReplayed(r)
  BY <1>4, <1>8 DEF TurnRefused, TurnReplayed, local, Playing
<1>9. CASE TurnBegins(r)
  <2>1. /\ step'[r] = "model" /\ step[r] = "turn"
        /\ UNCHANGED <<place, score, sim, reported, unheard>>
    BY <1>9 DEF TurnBegins, Go, RunsTypeOK, local
  <2>2. /\ row'[r][place[r]].state = "open"
        /\ \A k \in Places \ {place[r]} : row'[r][k] = row[r][k]
    <3>1. row' = [row EXCEPT ![r][place[r]].state = "open"]
      BY <1>9 DEF TurnBegins
    <3>2. row'[r] = [row[r] EXCEPT ![place[r]].state = "open"]
      BY <3>1 DEF RunsTypeOK
    <3>3. row'[r][place[r]] = [row[r][place[r]] EXCEPT !.state = "open"]
      BY <1>2, <3>2 DEF RunsTypeOK
    <3> QED
      BY <1>2, <1>3, <3>2, <3>3 DEF RunsTypeOK, RowType
  <2>3. /\ ScoreInHand(r)'
        /\ sim[r][place[r]].replies < TurnLimit
    BY <2>1, <2>2 DEF RunInv, WithinLimits, ScoreInHand, Playing
  <2> QED
    BY <1>2, <1>3, <2>1, <2>2, <2>3, SessionGoesOn DEF Playing
<1>10. CASE TurnRaises(r) \/ CloseRaises(r)
  BY <1>2, <1>3, <1>10, RaiseKeeps DEF TurnRaises, CloseRaises, Playing
<1>11. CASE ModelAnswers(r) \/ ModelBusy(r) \/ ModelFails(r)
  BY <1>4, <1>11 DEF ModelAnswers, ModelBusy, ModelFails, ToReply, Playing
<1>12. CASE Reply(r)
  <2>1. PICK ends \in BOOLEAN :
          /\ Taken(r, ends)
          /\ score' = [score EXCEPT ![r] = sim'[r][place[r]].score]
          /\ Go(r, IF ends \/ closing[r] THEN "close" ELSE "turn")
    BY <1>12 DEF Reply
  <2>2. step[r] = "reply" /\ UNCHANGED <<place, row, reported, unheard>>
    BY <1>12 DEF Reply
  <2>3. sim[r][place[r]].replies < TurnLimit
    BY <2>2 DEF RunInv, WithinLimits, Playing
  <2>4. /\ sim'[r][place[r]].score = IF ends THEN sim[r][place[r]].replies + 1 ELSE NoScore
        /\ ~ends => sim'[r][place[r]].replies < TurnLimit
    BY <1>2, <2>1, <2>3, TakenTyped
  <2>5. \A k \in Places \ {place[r]} : sim'[r][k] = sim[r][k]
    BY <2>1 DEF Taken, RunsTypeOK
  <2>6. /\ step'[r] = IF ends \/ closing[r] THEN "close" ELSE "turn"
        /\ score'[r] = sim'[r][place[r]].score
    BY <2>1 DEF Go, RunsTypeOK
  <2>7. ScoreInHand(r)'
    BY <2>2, <2>4, <2>6 DEF RunInv, ScoreInHand, Playing
  <2> QED
    BY <1>2, <1>3, <2>2, <2>4, <2>5, <2>6, <2>7, SessionGoesOn DEF Playing
<1>13. CASE ReplyFails(r)
  <2>1. /\ step[r] = "reply" /\ step'[r] = "close"
        /\ UNCHANGED <<place, score, row, reported>>
    BY <1>13 DEF ReplyFails, Go, RunsTypeOK, local
  <2>2. /\ sim[r][place[r]].replies < TurnLimit /\ sim[r][place[r]].score = NoScore
        /\ score[r] = NoScore /\ place[r] \notin unheard[r]
    BY <2>1 DEF RunInv, WithinLimits, ScoreInHand, Playing
  <2>3. CASE UNCHANGED <<sim, unheard>>
    <3>1. ScoreInHand(r)'
      BY <2>1, <2>2, <2>3 DEF RunInv, ScoreInHand, Playing
    <3> QED
      BY <1>2, <1>3, <2>1, <2>3, <3>1, SessionGoesOn DEF Playing
  <2>4. ASSUME NEW ends \in BOOLEAN, Taken(r, ends),
               unheard' = IF ends THEN [unheard EXCEPT ![r] = @ \cup {place[r]}] ELSE unheard
        PROVE  RunInv(r)'
    <3>1. sim'[r][place[r]].score = IF ends THEN sim[r][place[r]].replies + 1 ELSE NoScore
      BY <1>2, <2>2, <2>4, TakenTyped
    <3>2. \A k \in Places \ {place[r]} : sim'[r][k] = sim[r][k]
      BY <2>4 DEF Taken, RunsTypeOK
    <3>3. unheard'[r] = IF ends THEN unheard[r] \cup {place[r]} ELSE unheard[r]
      BY <2>4 DEF RunsTypeOK
    <3>4. ScoreInHand(r)'
      BY <2>1, <2>2, <3>1, <3>3 DEF RunInv, ScoreInHand, Playing
    <3> QED
      BY <1>2, <1>3, <2>1, <3>2, <3>3, <3>4, SessionGoesOn DEF Playing
  <2> QED
    BY <1>13, <2>3, <2>4 DEF ReplyFails
<1>14. CASE Close(r)
  <2>1. /\ step[r] = "close" /\ NextSession(r) /\ UNCHANGED <<sim, unheard>>
        /\ reported'[r] = reported[r] \cup {place[r]}
        /\ \A k \in Places \ {place[r]} : row'[r][k] = row[r][k]
    BY <1>14 DEF Close, RunsTypeOK
  <2>2. row'[r][place[r]] = IF row[r][place[r]].state = "absent" THEN row[r][place[r]]
                            ELSE [state |-> "closed", score |-> score[r]]
    BY <1>2, <1>14 DEF Close, RunsTypeOK
  <2>3. ASSUME NEW k \in reported'[r], k = place[r]
        PROVE  Recorded(r, k)'
    BY <2>1, <2>2, <2>3 DEF RunInv, ScoreInHand, Recorded
  <2> QED
    BY <1>2, <1>3, <2>1, <2>3, SessionOver
<1>15. CASE Hangs(r)
  <2>1. /\ step'[r] = "hung" /\ step[r] \in {"turn", "model", "close"}
        /\ UNCHANGED <<place, score, row, sim, reported, unheard>>
    BY <1>15 DEF Hangs, Go, RunsTypeOK, local
  <2>2. ScoreInHand(r)'
    BY <2>1 DEF ScoreInHand, Playing
  <2> QED
    BY <1>2, <1>3, <2>1, <2>2, SessionGoesOn DEF Playing
<1> QED
  BY <1>5, <1>6, <1>7, <1>8, <1>9, <1>10, <1>11, <1>12, <1>13, <1>14, <1>15 DEF RunStep

-----------------------------------------------------------------------------
(* The theorems.                                                           *)

\* The inductive invariant.
LEMMA IInvHolds == RunsSpec => []IInv
<1>1. RunsInit => IInv
  BY RunsTypeInit, RunInvInit DEF IInv
<1>2. IInv /\ [RunsNext]_runsVars => IInv'
  <2> SUFFICES ASSUME IInv, [RunsNext]_runsVars PROVE IInv'
    OBVIOUS
  <2>1. ASSUME NEW r \in Runs, RunStep(r), UNCHANGED mode
        PROVE  IInv'
    <3>1. RunsTypeOK'
      BY <2>1, StepTyped DEF IInv, RunInv
    <3>2. ASSUME NEW q \in Runs
          PROVE  RunInv(q)'
      <4>1. CASE q = r
        BY <2>1, <4>1, RunInvStep DEF IInv
      <4>2. CASE q # r
        BY <2>1, <4>2, OthersKept, RunInvLocal DEF IInv
      <4> QED
        BY <4>1, <4>2
    <3> QED
      BY <3>1, <3>2 DEF IInv
  <2>2. CASE UNCHANGED runsVars
    <3>1. RunsTypeOK'
      BY <2>2 DEF IInv, RunsTypeOK, runsVars, local
    <3>2. ASSUME NEW q \in Runs
          PROVE  RunInv(q)'
      BY <2>2, RunInvLocal DEF IInv, runsVars, local
    <3> QED
      BY <3>1, <3>2 DEF IInv
  <2> QED
    BY <2>1, <2>2 DEF RunsNext
<1> QED
  BY <1>1, <1>2, PTL DEF RunsSpec

\* Type correctness: in particular no run draws beyond the quota, however many
\* draw on it, and none goes beyond its cap of sessions.
THEOREM RunsTypeCorrect == RunsSpec => []RunsTypeOK
<1>1. IInv => RunsTypeOK
  BY DEF IInv
<1> QED
  BY <1>1, IInvHolds, PTL

\* What a run reports of a session is what the simulator said of it.
THEOREM ReportsAreTrue == RunsSpec => []ScoresAreRecorded
<1>1. IInv => ScoresAreRecorded
  BY DEF IInv, RunInv, Recorded, ScoresAreRecorded
<1> QED
  BY <1>1, IInvHolds, PTL

\* A prod run stops at the first session that is not in its results.
THEOREM ALossIsTheLast == RunsSpec => []NothingDrawnAfterALoss
<1>1. IInv => NothingDrawnAfterALoss
  <2> SUFFICES ASSUME IInv, NEW r \in Runs, mode[r] = "prod", NEW k \in Places,
                      sim[r][k] # Unplayed, k \notin reported[r]
               PROVE  k = place[r]
                      /\ step[r] \in {"turn", "model", "reply", "close", "raised", "hung"}
    BY DEF NothingDrawnAfterALoss
  <2>1. place[r] \in Nat /\ k \in Nat /\ step[r] \in Steps
    BY Bounds DEF IInv, RunsTypeOK, Places
  <2>2. ~(k < place[r]) /\ ~(k > place[r])
    BY DEF IInv, RunInv, BehindIsReported, AheadIsFresh
  <2>3. k = place[r]
    BY <2>1, <2>2
  <2>4. step[r] \notin {"start", "ended"}
    BY <2>3 DEF IInv, RunInv, AheadIsFresh
  <2> QED
    BY <2>1, <2>3, <2>4 DEF Steps
<1> QED
  BY <1>1, IInvHolds, PTL
=============================================================================
