---------------------------- MODULE MCRuleEngine ----------------------------
(***************************************************************************)
(* An instance of RuleEngine: every pattern alone, with each action and    *)
(* two priorities, and requests that tell them apart.                      *)
(***************************************************************************)
EXTENDS RuleEngine

NoArgs == [k \in {} |-> Null]

(* A pattern with no condition, and the patterns made by adding one.       *)
Anything ==
    [tool |-> AnyTool, present |-> {}, equals |-> NoArgs, attr |-> {},
     action |-> "deny", paths |-> {}, priority |-> 1]

Patterns ==
    {Anything,
     [Anything EXCEPT !.tool = "mail"],
     [Anything EXCEPT !.present = {"x"}],
     [Anything EXCEPT !.equals = [k \in {"x"} |-> Null]]}

SmallRules ==
    {[r EXCEPT !.action = a, !.priority = p] :
        r \in Patterns, a \in {"deny", "allow"}, p \in 1..2}
    \cup
    {[Anything EXCEPT !.action = "redact", !.attr = s, !.paths = ks, !.priority = p] :
        s \in {{}, {"vip"}}, ks \in {{"x"}, {"y"}}, p \in 1..2}
    \cup
    {[Anything EXCEPT !.action = "log"]}

SmallRequests ==
    [tool  : {"mail", "web"},
     args  : {NoArgs, [k \in {"x"} |-> 1], [k \in {"x", "y"} |-> 1]},
     attrs : {{}, {"vip"}}]
=============================================================================
