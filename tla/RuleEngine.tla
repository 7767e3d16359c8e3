----------------------------- MODULE RuleEngine -----------------------------
(***************************************************************************)
(* The rule engine: engine/compiler.py and engine/evaluator.py.            *)
(*                                                                         *)
(* A policy is a sequence of rules, as the control plane lists them.       *)
(* compile_policy sorts them, and evaluate fires the first that matches.   *)
(* A rule is the record that compile_policy parses it into:                *)
(*   tool      the tool it is for, or AnyTool                              *)
(*   present   argument keys that must be there ("args.k": true)           *)
(*   equals    argument keys with the value each must have                 *)
(*   attr      a set of at most one attribute that the subject must have   *)
(*   action    the base action: "deny", "redact", "allow" or another       *)
(*   paths     the argument keys a redact rule names                       *)
(*   priority  lower first                                                 *)
(* A request is [tool, args, attrs]; args maps keys to values.             *)
(*                                                                         *)
(* Policies grow one rule at a time, and any request is evaluated against  *)
(* any of them on the way.                                                 *)
(***************************************************************************)
EXTENDS Integers, Sequences

CONSTANTS
    AnyTool,    \* "*" or no tool at all
    Null,       \* Python's None, as a value
    RuleSet,    \* the rules a policy may list
    Requests,   \* the requests evaluated
    MaxRules    \* bound: rules of a policy

ASSUME RulesAssumption ==
    MaxRules \in Nat /\ \A r \in RuleSet : r.priority \in Int

VARIABLES
    policy,     \* the rules of the policy, as listed
    request     \* the request evaluated last

(* The actions compile_policy orders.                                      *)
Kinds == {"deny", "redact", "allow"}

(* Mutant of ActionOrder: redact is forgotten, and sorts last.             *)
RedactLast(action) ==
    CASE action = "deny" -> 0 [] action = "allow" -> 2 [] OTHER -> 3

(* The order of the actions at one priority; an unknown action comes last. *)
ActionOrder(action) ==
    CASE action = "deny" -> 0 [] action = "redact" -> 1 [] action = "allow" -> 2 [] OTHER -> 3

(* Mutant of Before: the priority alone is the key.                        *)
BeforeByPriority(rules, i, j) ==
    \/ rules[i].priority < rules[j].priority
    \/ rules[i].priority = rules[j].priority /\ i < j

(* compile_policy sorts rule i before rule j.  The sort is stable.         *)
Before(rules, i, j) ==
    LET a == ActionOrder(rules[i].action)
        b == ActionOrder(rules[j].action)
    IN  \/ rules[i].priority < rules[j].priority
        \/ /\ rules[i].priority = rules[j].priority
           /\ a < b \/ (a = b /\ i < j)

-----------------------------------------------------------------------------
(* Python's dict.get: a key that is absent reads as None.                  *)
Get(args, k) == IF k \in DOMAIN args THEN args[k] ELSE Null

(* _matches                                                                *)
Matches(rule, req) ==
    /\ rule.tool \in {AnyTool, req.tool}
    /\ rule.present \subseteq DOMAIN req.args
    /\ \A k \in DOMAIN rule.equals : Get(req.args, k) = rule.equals[k]
    /\ rule.attr \subseteq req.attrs

Matching(rules, req) == {i \in DOMAIN rules : Matches(rules[i], req)}

(* _resolve_action: a redact rule that finds nothing to redact allows.     *)
Resolve(rules, i, req) ==
    LET found == rules[i].paths \cap DOMAIN req.args
    IN  [verdict    |-> IF rules[i].action = "redact" /\ found = {} THEN "allow"
                        ELSE rules[i].action,
         rule       |-> i,
         redactions |-> IF rules[i].action = "redact" THEN found ELSE {}]

(* The result of no rule: rule_id "default.fail_safe".                     *)
FailSafe == [verdict |-> "deny", rule |-> 0, redactions |-> {}]

(* Mutant of Firing: the last match wins.                                  *)
FiringLast(rules, req) ==
    CHOOSE i \in Matching(rules, req) :
        \A j \in Matching(rules, req) : j = i \/ Before(rules, j, i)

(* evaluate's loop over the compiled rules: the first match.               *)
Firing(rules, req) ==
    CHOOSE i \in Matching(rules, req) :
        \A j \in Matching(rules, req) : j = i \/ Before(rules, i, j)

Evaluate(rules, req) ==
    IF Matching(rules, req) = {} THEN FailSafe
    ELSE Resolve(rules, Firing(rules, req), req)

-----------------------------------------------------------------------------
(* A list of rules, whatever their number, with integer priorities.        *)
IsPolicy(rules) ==
    /\ Len(rules) \in Nat
    /\ DOMAIN rules = 1..Len(rules)
    /\ \A i \in DOMAIN rules : rules[i].priority \in Int

(* What the sort and the loop are for, without either.                     *)

(* The rules that have the say: those that match at the best priority.     *)
Deciding(rules, req) ==
    {i \in Matching(rules, req) :
        \A j \in Matching(rules, req) : rules[i].priority <= rules[j].priority}

(* At the best priority a deny rule decides, wherever it is listed and     *)
(* whatever else matches (compiler.py: "deny < redact < allow at the same  *)
(* priority, lower priority first").                                       *)
DenyDecides(rules, req) ==
    (\E i \in Deciding(rules, req) : rules[i].action = "deny")
        => Evaluate(rules, req).verdict = "deny"

(* An allow is never given against a rule that has the say: a rule at the  *)
(* best priority allows, or one of them redacts what is not there.         *)
AllowHasGround(rules, req) ==
    Evaluate(rules, req).verdict = "allow"
        => \E i \in Deciding(rules, req) :
              \/ rules[i].action = "allow"
              \/ rules[i].action = "redact" /\ rules[i].paths \cap DOMAIN req.args = {}

(* Two neighbours of the list that compile_policy tells apart.            *)
Distinguished(r, s) ==
    r.priority # s.priority \/ (r.action # s.action /\ {r.action, s.action} \cap Kinds # {})

Swapped(rules, k) ==
    [i \in DOMAIN rules |->
        IF i = k THEN rules[k + 1] ELSE IF i = k + 1 THEN rules[k] ELSE rules[i]]

(* The order in which the control plane lists the rules matters only among *)
(* rules of one priority and one kind: swapping two neighbours that differ *)
(* in either changes neither the verdict nor what is redacted.             *)
ListingIndifferent(rules, req) ==
    \A k \in 1..Len(rules) - 1 :
        Distinguished(rules[k], rules[k + 1]) =>
            LET before == Evaluate(rules, req)
                after  == Evaluate(Swapped(rules, k), req)
            IN  after.verdict = before.verdict /\ after.redactions = before.redactions

-----------------------------------------------------------------------------
Init == policy = <<>> /\ request \in Requests

(* External: the control plane's policy has one rule more.                 *)
Publish ==
    /\ Len(policy) < MaxRules
    /\ \E r \in RuleSet : policy' = Append(policy, r)
    /\ UNCHANGED request

(* External: another request is evaluated.                                 *)
Ask == request' \in Requests /\ UNCHANGED policy

Next == Publish \/ Ask

Spec == Init /\ [][Next]_<<policy, request>>

(* A deny rule at the best matching priority decides (compile_policy,      *)
(* evaluate), whatever else the policy lists and in whatever order.        *)
DenyHasTheSay == DenyDecides(policy, request)

(* An allow is given for a rule at the best matching priority that says    *)
(* so, or whose redaction has nothing to redact (_resolve_action).         *)
NoGroundlessAllow == AllowHasGround(policy, request)

(* How the control plane lists the rules decides only between rules of one *)
(* priority and one kind (compile_policy's sort).                          *)
ListingDoesNotMatter == ListingIndifferent(policy, request)
=============================================================================
