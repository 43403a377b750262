---------------------------- MODULE MCSettlement ----------------------------
(* Two clients.  A has one escrow, B has two, so that B can leave a room and   *)
(* come back with another deposit; each escrow has an outpoint of its own.     *)
EXTENDS Settlement, TLC

CONSTANTS A, B, a1, b1, b2

MCOwnerOf == (a1 :> A) @@ (b1 :> B) @@ (b2 :> B)
MCInputOf == [e \in {a1, b1, b2} |-> <<"deposit", e>>]
MCInputs == {<<"deposit", e>> : e \in {a1, b1, b2}}

\* B's escrows, the handlers and the goroutines are interchangeable.
Symmetry == Permutations({b1, b2}) \cup Permutations(Streams) \cup Permutations(Games)
=============================================================================
