------------------------------- MODULE MCLobby -------------------------------
(* Clients A with the stream handlers a1 and a2, B with b1, and C with none.     *)
EXTENDS Lobby, TLC

CONSTANTS A, B, C, a1, a2, b1

MCCallerOf == [h \in Streams |-> IF h = b1 THEN B ELSE A]

\* Swapping the clients with their only handlers, the rooms, the lifecycles.
Swap == {(A :> B) @@ (B :> A) @@ (a1 :> b1) @@ (b1 :> a1)}
SymmetricClients == Swap \cup Permutations(Rooms) \cup Permutations(Games)
Symmetry == Permutations({a1, a2}) \cup Permutations(Rooms) \cup Permutations(Games)

\* RemoveWaitingRoom's loop: for each index of the slice as it was, remove the
\* player now found there, if the slice still holds him.
Loop(a, n) ==
    LET step[i \in 0 .. n] ==
            IF i = 0 THEN <<a, n>>
            ELSE LET b == step[i - 1] IN
                 IF \E j \in 1 .. b[2] : b[1][j] = b[1][i]
                 THEN <<Without(b[1], b[2], b[1][i]), b[2] - 1>>
                 ELSE b
    IN step[n]

\* Emptied and Missed say what the loop does, on slices of up to six players in
\* arrays with up to two stale elements behind them.
ASSUME LoopAssumption ==
    \A n \in 0 .. 6, stale \in {<<>>, <<1>>, <<2, 1>>} :
        LET a == [k \in 1 .. n |-> k] \o stale
        IN Loop(a, n) = <<Emptied(a, n), Missed(n)>>
=============================================================================
