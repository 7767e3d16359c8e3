---------------------------- MODULE MCEdgeDecide ----------------------------
(***************************************************************************)
(* An instance of EdgeDecide: one client, listed for both scopes, for the  *)
(* one that does not let it decide, or not at all.                         *)
(***************************************************************************)
EXTENDS EdgeDecide, TLC

CONSTANTS agent, other, a, b

TwoNames == Permutations({a, b})

OneClient == {agent}

TwoScopes == {Enforce, other}

SmallListings ==
    {{}, {[client |-> agent, scopes |-> TwoScopes]}, {[client |-> agent, scopes |-> {other}]}}
=============================================================================
