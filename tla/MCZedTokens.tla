----------------------------- MODULE MCZedTokens -----------------------------
(* Instances of ZedTokens for TLC: two tenants below one parent.           *)
EXTENDS ZedTokens

CONSTANTS a, b, parent

Tenants     == {a, b, parent}
BelowOne    == {[res |-> x, subs |-> {parent}] : x \in {a, b}}
NoFailures  == {}
TokensRead  == FailureKinds \ {"read"}
=============================================================================
