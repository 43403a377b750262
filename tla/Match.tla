-------------------------------- MODULE Match --------------------------------
(***************************************************************************)
(* What one game promises its two players, apart from timers, channels and  *)
(* goroutines: nobody is dealt a ball before a countdown, points are given   *)
(* one at a time and only while the ball is in play, whoever first reaches   *)
(* MaxScore has won, and a decided game changes no more.  A game may be      *)
(* broken off at any time; then nothing further is promised about it.        *)
(***************************************************************************)
EXTENDS Naturals

CONSTANTS Players, MaxScore, None

VARIABLES phase, points, champion

vars == <<phase, points, champion>>

NoPoints == [p \in Players |-> 0]

Init == phase = "waiting" /\ points = NoPoints /\ champion = None

Countdown ==
    /\ phase = "waiting"
    /\ phase' = "countdown"
    /\ UNCHANGED <<points, champion>>

Serve ==
    /\ phase = "countdown"
    /\ phase' = "playing"
    /\ UNCHANGED <<points, champion>>

Point(p) ==
    /\ phase = "playing"
    /\ points' = [points EXCEPT ![p] = @ + 1]
    /\ IF points'[p] = MaxScore
       THEN phase' = "over" /\ champion' = p
       ELSE UNCHANGED <<phase, champion>>

BreakOff ==
    /\ phase # "void"
    /\ phase' = "void"
    /\ points' = NoPoints
    /\ champion' = None

Next == Countdown \/ Serve \/ (\E p \in Players : Point(p)) \/ BreakOff

Spec == Init /\ [][Next]_vars
=============================================================================
