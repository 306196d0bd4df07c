---------------------------- MODULE MCSessionManager ----------------------------
(* Instances of SessionManager for TLC: two objects rebuilt under one alias, *)
(* an elevated one of that alias and one that cannot be identified.          *)
EXTENDS SessionManager, TLC

CONSTANTS dev, i1, i2, elevated, ducktyped

MCAlias == [i \in {i1, i2, elevated, ducktyped} |-> dev]

MCElevations == {{}, {"security_admin"}}

MCElevated == [i \in {i1, i2, elevated, ducktyped} |->
                 IF i = elevated THEN {"security_admin"} ELSE {}]

MCSymmetry == Permutations(Callers) \cup Permutations({i1, i2})
================================================================================
