------------------------------- MODULE MCGame -------------------------------
(***************************************************************************)
(* One game of two players; its ticks and its frame queues over all small   *)
(* inputs.  A behaviour either plays a game or only looks at one input.     *)
(***************************************************************************)
EXTENDS GameRun, Frames, Physics, SequencesExt

VARIABLE
    input   \* what the functions are given: a ball, two queues, or nothing

\* Half of the speed of a velocity, rounded up to a whole number.
MCEdgeSpeed(vx, vy) == IF vx * vx + vy * vy <= 4 THEN 1 ELSE 2

\* The multiplier at a serve and late in a rally, when a move leaps over a paddle.
Mults == {1, 3}
Outside == 3 * MaxVel

\* Increasing sequences of up to n of the numbers 1..m.
Queues(m, n) == {SetToSortSeq(S, <) : S \in {T \in SUBSET (1..m) : Cardinality(T) <= n}}

\* Every ball that is no further outside than its speed takes it; only one paddle is ever
\* near, so the other does what it does.
Rally ==
    \E x \in 0..Width, y \in (Half - Outside)..(Height - Half + Outside), vx, vy \in Vel,
       m \in Mults, p \in PadHalfH..(Height - PadHalfH), v \in {-2, 2} :
        LET s == [x |-> x, y |-> y, vx |-> vx, vy |-> vy, mult |-> m,
                  p1 |-> p, p2 |-> p, v1 |-> v, v2 |-> v]
        IN RallyState(s) /\ input = [of |-> "ball", s |-> s]

Nothing == [of |-> "game"]

MCInit ==
    /\ Init
    /\ \/ input = Nothing
       \/ Rally
       \/ input \in [of : {"queues"}, queue : Queues(6, QueueCap), feed : Queues(4, FeedCap)]

MCNext == input = Nothing /\ Next /\ UNCHANGED input

MCSpec == MCInit /\ [][MCNext]_<<vars, input>> /\ Fairness

FramesKeepOrder ==
    input.of = "queues" =>
        /\ DistributionInOrder(input.queue, input.feed)
        /\ \A f \in 1..7 : ProductionInOrder(input.queue, input.feed, f)

TicksAreSound ==
    /\ input.of = "ball" => TickIsSound(input.s) /\ LossIsSeen(input.s)
    /\ \A s \in Serves(MaxVel, 1, 1) : RallyState(s)
=============================================================================
