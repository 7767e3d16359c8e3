-------------------------- MODULE RuleEngineProofs --------------------------
(***************************************************************************)
(* RuleEngine for policies of any number of rules and for every request:   *)
(* the sort has a first match, and what it is for follows from that.       *)
(***************************************************************************)
EXTENDS RuleEngine, FiniteSetTheorems, WellFoundedInduction, TLAPS

(* The actions have integer orders, distinct where one of them is known.   *)
LEMMA ActionOrders ==
    ASSUME NEW a, NEW b
    PROVE  /\ ActionOrder(a) \in 0..3
           /\ a # b /\ {a, b} \cap Kinds # {} => ActionOrder(a) # ActionOrder(b)
  <1>1. a = "deny" \/ a = "redact" \/ a = "allow" \/ a \notin Kinds
    BY DEF Kinds
  <1>2. b = "deny" \/ b = "redact" \/ b = "allow" \/ b \notin Kinds
    BY DEF Kinds
  <1>3. /\ ActionOrder("deny") = 0
        /\ ActionOrder("redact") = 1
        /\ ActionOrder("allow") = 2
    BY DEF ActionOrder
  <1>4. \A c : c \notin Kinds => ActionOrder(c) = 3
    BY DEF ActionOrder, Kinds
  <1> QED
    BY <1>1, <1>2, <1>3, <1>4 DEF Kinds

(* The order of the sort is a strict total order of the rules.             *)
LEMMA BeforeIsStrict ==
    ASSUME NEW rules, IsPolicy(rules), NEW i \in DOMAIN rules
    PROVE  ~ Before(rules, i, i)
  BY ActionOrders DEF IsPolicy, Before

LEMMA BeforeIsTotal ==
    ASSUME NEW rules, IsPolicy(rules), NEW i \in DOMAIN rules, NEW j \in DOMAIN rules
    PROVE  i = j \/ Before(rules, i, j) \/ Before(rules, j, i)
  <1>1. /\ ActionOrder(rules[i].action) \in Int
        /\ ActionOrder(rules[j].action) \in Int
    BY ActionOrders
  <1> QED
    BY <1>1 DEF IsPolicy, Before

LEMMA BeforeIsTransitive ==
    ASSUME NEW rules, IsPolicy(rules),
           NEW i \in DOMAIN rules, NEW j \in DOMAIN rules, NEW k \in DOMAIN rules,
           Before(rules, i, j), Before(rules, j, k)
    PROVE  Before(rules, i, k)
  <1>1. /\ ActionOrder(rules[i].action) \in Int
        /\ ActionOrder(rules[j].action) \in Int
        /\ ActionOrder(rules[k].action) \in Int
    BY ActionOrders
  <1> QED
    BY <1>1 DEF IsPolicy, Before

(* Among the rules that match, if any, one is sorted before all others:    *)
(* the one with the fewest rules ahead of it.                              *)
LEMMA FirstMatchExists ==
    ASSUME NEW rules, IsPolicy(rules), NEW req, Matching(rules, req) # {}
    PROVE  \E i \in Matching(rules, req) :
              \A j \in Matching(rules, req) : j = i \/ Before(rules, i, j)
  <1> DEFINE D        == DOMAIN rules
             M        == Matching(rules, req)
             Ahead(i) == {j \in D : Before(rules, j, i)}
             T        == {Ahead(i) : i \in M}
  <1>1. IsFiniteSet(D)
    BY FS_Interval DEF IsPolicy
  <1>2. M \subseteq D
    BY DEF Matching
  <1>3. \A i \in M : IsFiniteSet(Ahead(i))
    BY <1>1, FS_Subset
  <1>4. T \subseteq FiniteSubsetsOf(D) /\ T # {}
    BY <1>3 DEF FiniteSubsetsOf
  <1>5. IsWellFoundedOn(StrictSubsetOrdering(D), FiniteSubsetsOf(D))
    BY FS_StrictSubsetOrderingWellFounded
  <1>6. PICK A \in T : \A B \in T : ~ (<<B, A>> \in StrictSubsetOrdering(D))
    BY <1>4, <1>5, WFMin
  <1>7. PICK i \in M : A = Ahead(i)
    OBVIOUS
  <1>8. ASSUME NEW j \in M, Before(rules, j, i)
        PROVE  FALSE
    <2>1. Ahead(j) \subseteq Ahead(i)
      BY <1>2, <1>8, BeforeIsTransitive
    <2>2. j \in Ahead(i) /\ j \notin Ahead(j)
      BY <1>2, <1>8, BeforeIsStrict
    <2>3. <<Ahead(j), Ahead(i)>> \in StrictSubsetOrdering(D)
      BY <2>1, <2>2 DEF StrictSubsetOrdering
    <2> QED
      BY <1>6, <1>7, <2>3
  <1> QED
    BY <1>2, <1>7, <1>8, BeforeIsTotal

(* Hence the rule that fires is the first match.                           *)
LEMMA FiringIsFirst ==
    ASSUME NEW rules, IsPolicy(rules), NEW req, Matching(rules, req) # {}
    PROVE  /\ Firing(rules, req) \in Matching(rules, req)
           /\ \A j \in Matching(rules, req) :
                 j = Firing(rules, req) \/ Before(rules, Firing(rules, req), j)
  BY FirstMatchExists DEF Firing

(* There is only one first match.                                          *)
LEMMA FirstIsFiring ==
    ASSUME NEW rules, IsPolicy(rules), NEW req,
           NEW i \in Matching(rules, req),
           \A j \in Matching(rules, req) : j = i \/ Before(rules, i, j)
    PROVE  i = Firing(rules, req)
  <1> DEFINE f == Firing(rules, req)
  <1>1. f \in Matching(rules, req) /\ (i = f \/ Before(rules, f, i))
    BY FiringIsFirst
  <1>2. i \in DOMAIN rules /\ f \in DOMAIN rules
    BY <1>1 DEF Matching
  <1>3. i = f \/ Before(rules, i, f)
    BY <1>1
  <1> QED
    BY <1>1, <1>2, <1>3, BeforeIsTransitive, BeforeIsStrict

(* The rule that fires has the best priority and the first action of those *)
(* that match with that priority.                                          *)
LEMMA FiringDecides ==
    ASSUME NEW rules, IsPolicy(rules), NEW req, Matching(rules, req) # {}
    PROVE  /\ Firing(rules, req) \in Deciding(rules, req)
           /\ \A j \in Deciding(rules, req) :
                 ActionOrder(rules[Firing(rules, req)].action) <= ActionOrder(rules[j].action)
  <1> DEFINE f == Firing(rules, req)
  <1>1. f \in Matching(rules, req) /\ \A j \in Matching(rules, req) : j = f \/ Before(rules, f, j)
    BY FiringIsFirst
  <1>2. Matching(rules, req) \subseteq DOMAIN rules
    BY DEF Matching
  <1>3. \A j \in Matching(rules, req) :
           /\ rules[j].priority \in Int
           /\ ActionOrder(rules[j].action) \in Int
    BY <1>2, ActionOrders DEF IsPolicy
  <1>4. \A j \in Matching(rules, req) : rules[f].priority <= rules[j].priority
    BY <1>1, <1>3 DEF Before
  <1>5. ASSUME NEW j \in Deciding(rules, req)
        PROVE  ActionOrder(rules[f].action) <= ActionOrder(rules[j].action)
    <2>1. j \in Matching(rules, req) /\ rules[j].priority = rules[f].priority
      BY <1>1, <1>3, <1>4 DEF Deciding
    <2> QED
      BY <1>1, <1>3, <2>1 DEF Before
  <1> QED
    BY <1>1, <1>4, <1>5 DEF Deciding

(* compiler.py: whatever the number, the listing and the actions of the    *)
(* rules, a deny rule that matches at the best priority decides.           *)
THEOREM DenyAlwaysDecides ==
    ASSUME NEW rules, IsPolicy(rules), NEW req
    PROVE  DenyDecides(rules, req)
  <1> SUFFICES ASSUME NEW i \in Deciding(rules, req), rules[i].action = "deny"
               PROVE  Evaluate(rules, req).verdict = "deny"
    BY DEF DenyDecides
  <1> DEFINE f == Firing(rules, req)
  <1>1. Matching(rules, req) # {}
    BY DEF Deciding
  <1>2. ActionOrder(rules[f].action) <= 0
    BY <1>1, FiringDecides DEF ActionOrder
  <1>3. rules[f].action = "deny"
    BY <1>2, ActionOrders DEF ActionOrder
  <1> QED
    BY <1>1, <1>3 DEF Evaluate, Resolve

(* evaluator.py: an allow has a rule at the best priority behind it.       *)
THEOREM AllowAlwaysHasGround ==
    ASSUME NEW rules, IsPolicy(rules), NEW req
    PROVE  AllowHasGround(rules, req)
  <1> SUFFICES ASSUME Evaluate(rules, req).verdict = "allow"
               PROVE  \E i \in Deciding(rules, req) :
                         \/ rules[i].action = "allow"
                         \/ /\ rules[i].action = "redact"
                            /\ rules[i].paths \cap DOMAIN req.args = {}
    BY DEF AllowHasGround
  <1>1. Matching(rules, req) # {}
    BY DEF Evaluate, FailSafe
  <1>2. Firing(rules, req) \in Deciding(rules, req)
    BY <1>1, FiringDecides
  <1> QED
    BY <1>1, <1>2 DEF Evaluate, Resolve

-----------------------------------------------------------------------------
(* Where a rule of the list is after the swap of places k and k + 1.       *)
Moved(k, i) == IF i = k THEN k + 1 ELSE IF i = k + 1 THEN k ELSE i

(* Swapped moves each rule to its new place, and a second move undoes it.  *)
LEMMA MovedInSwapped ==
    ASSUME NEW rules, IsPolicy(rules), NEW k \in 1..Len(rules) - 1, NEW i \in DOMAIN rules
    PROVE  /\ Moved(k, i) \in DOMAIN rules
           /\ Moved(k, Moved(k, i)) = i
           /\ Swapped(rules, k)[Moved(k, i)] = rules[i]
           /\ Swapped(rules, k)[i] = rules[Moved(k, i)]
  <1> DEFINE n == Len(rules)
  <1>1. n \in Nat /\ DOMAIN rules = 1..n
    BY DEF IsPolicy
  <1>2. k \in 1..n - 1 /\ i \in 1..n
    BY <1>1
  <1> HIDE DEF n
  <1>3. /\ k \in 1..n /\ k + 1 \in 1..n /\ k # k + 1
    BY <1>1, <1>2
  <1>4. Moved(k, i) \in 1..n /\ Moved(k, Moved(k, i)) = i
    BY <1>2, <1>3 DEF Moved
  <1>5. \A j \in 1..n : Swapped(rules, k)[j] = rules[Moved(k, j)]
    BY <1>1, <1>3 DEF Swapped, Moved
  <1> QED
    BY <1>1, <1>2, <1>4, <1>5

(* Only the swapped places change their order.                             *)
LEMMA MovedKeepsOrder ==
    ASSUME NEW i \in Int, NEW j \in Int, NEW k \in Int, i < j, ~ (i = k /\ j = k + 1)
    PROVE  Moved(k, i) < Moved(k, j)
  <1>1. Moved(k, i) = IF i = k THEN k + 1 ELSE IF i = k + 1 THEN k ELSE i
    BY DEF Moved
  <1>2. Moved(k, j) = IF j = k THEN k + 1 ELSE IF j = k + 1 THEN k ELSE j
    BY DEF Moved
  <1>3. CASE i = k
    BY <1>1, <1>2, <1>3
  <1>4. CASE i = k + 1
    BY <1>1, <1>2, <1>4
  <1>5. CASE i # k /\ i # k + 1
    BY <1>1, <1>2, <1>5
  <1> QED
    BY <1>3, <1>4, <1>5

(* A swap of two rules that the sort tells apart moves the rules and keeps *)
(* their order.                                                            *)
LEMMA SwapKeepsOrder ==
    ASSUME NEW rules, IsPolicy(rules), NEW k \in 1..Len(rules) - 1,
           Distinguished(rules[k], rules[k + 1]),
           NEW i \in DOMAIN rules, NEW j \in DOMAIN rules,
           Before(rules, i, j)
    PROVE  Before(Swapped(rules, k), Moved(k, i), Moved(k, j))
  <1> DEFINE s == Swapped(rules, k)
  <1>1. /\ Moved(k, i) \in DOMAIN rules /\ s[Moved(k, i)] = rules[i]
        /\ Moved(k, j) \in DOMAIN rules /\ s[Moved(k, j)] = rules[j]
    BY MovedInSwapped
  <1>2. i \in Int /\ j \in Int /\ k \in Int /\ i # j
    <2>1. i # j
      BY BeforeIsStrict
    <2>2. Len(rules) \in Nat /\ DOMAIN rules = 1..Len(rules)
      BY DEF IsPolicy
    <2> QED
      BY <2>1, <2>2
  <1>3. \/ rules[i].priority < rules[j].priority
        \/ /\ rules[i].priority = rules[j].priority
           /\ ActionOrder(rules[i].action) < ActionOrder(rules[j].action)
        \/ /\ rules[i].priority = rules[j].priority
           /\ ActionOrder(rules[i].action) = ActionOrder(rules[j].action)
           /\ i < j
    BY DEF Before
  <1>4. CASE i = k /\ j = k + 1
    <2>1. ~ (/\ rules[i].priority = rules[j].priority
             /\ ActionOrder(rules[i].action) = ActionOrder(rules[j].action))
      BY <1>4, ActionOrders DEF Distinguished
    <2> QED
      BY <1>1, <1>3, <2>1 DEF Before
  <1>5. CASE ~ (i = k /\ j = k + 1)
    <2>1. i < j => Moved(k, i) < Moved(k, j)
      BY <1>2, <1>5, MovedKeepsOrder
    <2> QED
      BY <1>1, <1>3, <2>1 DEF Before
  <1> QED
    BY <1>4, <1>5

(* compiler.py's sort, for lists of any length: neither the verdict nor    *)
(* the redactions depend on the order in which two neighbouring rules of   *)
(* different priority or kind are listed.                                  *)
THEOREM ListingNeverMatters ==
    ASSUME NEW rules, IsPolicy(rules), NEW req
    PROVE  ListingIndifferent(rules, req)
  <1> SUFFICES ASSUME NEW k \in 1..Len(rules) - 1,
                      Distinguished(rules[k], rules[k + 1])
               PROVE  /\ Evaluate(Swapped(rules, k), req).verdict
                            = Evaluate(rules, req).verdict
                      /\ Evaluate(Swapped(rules, k), req).redactions
                            = Evaluate(rules, req).redactions
    BY DEF ListingIndifferent
  <1> DEFINE s == Swapped(rules, k)
             f == Firing(rules, req)
             g == Moved(k, f)
  <1>1. /\ Len(rules) \in Nat /\ k \in Nat
        /\ DOMAIN rules = 1..Len(rules) /\ DOMAIN s = 1..Len(rules)
        /\ \A i \in DOMAIN rules : rules[i].priority \in Int
    BY DEF IsPolicy, Swapped
  <1>2. Len(s) = Len(rules)
    BY <1>1
  <1>3. \A i \in DOMAIN rules : Moved(k, i) \in DOMAIN rules /\ Moved(k, Moved(k, i)) = i
    BY MovedInSwapped
  <1>4. \A i \in DOMAIN rules : s[Moved(k, i)] = rules[i] /\ s[i] = rules[Moved(k, i)]
    BY MovedInSwapped
  <1>5. IsPolicy(s)
    BY <1>1, <1>2, <1>3, <1>4 DEF IsPolicy
  <1>6. \A i \in DOMAIN rules : i \in Matching(rules, req) <=> Moved(k, i) \in Matching(s, req)
    BY <1>1, <1>3, <1>4 DEF Matching
  <1>7. CASE Matching(rules, req) = {}
    <2>1. Matching(s, req) = {}
      BY <1>1, <1>3, <1>6, <1>7 DEF Matching
    <2> QED
      BY <1>7, <2>1 DEF Evaluate
  <1>8. CASE Matching(rules, req) # {}
    <2>1. f \in Matching(rules, req) /\ f \in DOMAIN rules
      BY <1>8, FiringIsFirst DEF Matching
    <2>2. g \in Matching(s, req)
      BY <1>6, <2>1
    <2>3. ASSUME NEW j \in Matching(s, req)
          PROVE  j = g \/ Before(s, g, j)
      <3>1. j \in DOMAIN rules /\ Moved(k, j) \in Matching(rules, req)
        BY <1>1, <1>3, <1>6 DEF Matching
      <3>2. Moved(k, j) = f \/ Before(rules, f, Moved(k, j))
        BY <1>8, <3>1, FiringIsFirst
      <3>3. Moved(k, j) \in DOMAIN rules /\ Moved(k, Moved(k, j)) = j
        BY <1>3, <3>1
      <3> QED
        BY <2>1, <3>2, <3>3, SwapKeepsOrder
    <2>4. g = Firing(s, req)
      BY <1>5, <2>2, <2>3, FirstIsFiring
    <2>5. s[g] = rules[f]
      BY <1>4, <2>1
    <2> QED
      BY <1>8, <2>2, <2>4, <2>5 DEF Evaluate, Resolve
  <1> QED
    BY <1>7, <1>8

-----------------------------------------------------------------------------
(* A policy is a list of rules at every step.                              *)
LEMMA PoliciesListed == Spec => [](policy \in Seq(RuleSet) /\ IsPolicy(policy))
  <1> DEFINE I == policy \in Seq(RuleSet)
  <1>1. Init => I
    BY DEF Init
  <1>2. I /\ [Next]_<<policy, request>> => I'
    BY DEF Next, Publish, Ask
  <1>3. I => IsPolicy(policy)
    BY RulesAssumption DEF IsPolicy
  <1> QED
    BY <1>1, <1>2, <1>3, PTL DEF Spec

(* Deny at the best matching priority decides, in every policy, for every  *)
(* request (compile_policy, evaluate).                                     *)
THEOREM DenyAlways == Spec => []DenyHasTheSay
  <1>1. IsPolicy(policy) => DenyHasTheSay
    BY DenyAlwaysDecides DEF DenyHasTheSay
  <1> QED
    BY <1>1, PoliciesListed, PTL

(* An allow has its ground in every policy, for every request              *)
(* (_resolve_action).                                                      *)
THEOREM GroundAlways == Spec => []NoGroundlessAllow
  <1>1. IsPolicy(policy) => NoGroundlessAllow
    BY AllowAlwaysHasGround DEF NoGroundlessAllow
  <1> QED
    BY <1>1, PoliciesListed, PTL

(* The listing decides only between rules the sort cannot tell apart, in   *)
(* every policy, for every request (compile_policy).                       *)
THEOREM ListingNever == Spec => []ListingDoesNotMatter
  <1>1. IsPolicy(policy) => ListingDoesNotMatter
    BY ListingNeverMatters DEF ListingDoesNotMatter
  <1> QED
    BY <1>1, PoliciesListed, PTL
=============================================================================
