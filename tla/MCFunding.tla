------------------------------ MODULE MCFunding ------------------------------
(* Escrows e1 and e2 of one client share a script; deposit x1 has the amount of e1.  *)
EXTENDS Funding, TLC

CONSTANTS e1, e2, x1

MCScriptOf == [g \in Escrows |-> CHOOSE k \in Scripts : TRUE]
MCPaysTo == [d \in Deposits |-> CHOOSE k \in Scripts : TRUE]
MCExactFor == [g \in Escrows |-> IF g = e1 THEN {x1} ELSE {}]
=============================================================================
