------------------------------- MODULE Physics -------------------------------
(***************************************************************************)
(* One tick of the engine (ponggame/physics.go and the inputs of             *)
(* ponggame/engine.go) over whole numbers.  A box is given by its centre and *)
(* its half sizes, in a unit that makes them whole: half a pixel for the     *)
(* court of the game, where Width = 1600, Height = 1200, Half = 15,          *)
(* PadHalfW = 10, PadHalfH = 75 and Edge = 1.  The code moves the ball twice *)
(* in a tick, each time by its velocity times a multiplier that has grown by *)
(* Incr and that nothing but the next serve resets.                          *)
(***************************************************************************)
EXTENDS Integers

CONSTANTS
    Width, Height,      \* of the court
    Half,               \* half the ball's width and height
    PadHalfW, PadHalfH, \* half a paddle's width and height
    Edge,               \* half of canvas_border_correction
    MaxVel,             \* the greatest part of the ball's velocity across or down
    Incr,               \* what the multiplier grows by at every move
    EdgeSpeed(_, _)     \* half the speed of a velocity, rounded

ASSUME SizeAssumption ==
    /\ Width \in Nat /\ Height \in Nat /\ Half \in Nat \ {0} /\ PadHalfW \in Nat \ {0}
    /\ PadHalfH \in Nat /\ Edge \in 0..1 /\ MaxVel \in Nat /\ Incr \in Nat
    /\ Half <= 4 * PadHalfW /\ 8 * PadHalfW + 4 * Half < Width
    /\ 4 * Half + 2 < Height /\ 2 * PadHalfH < Height
ASSUME EdgeAssumption ==
    \A vx, vy \in -MaxVel..MaxVel : EdgeSpeed(vx, vy) \in 1..MaxVel \/ vx = 0

-----------------------------------------------------------------------------
(* State: the ball [x, y, vx, vy], the multiplier of its velocity, and the paddles' *)
(* heights p1, p2 and speeds v1, v2                                                 *)

P1x == 3 * PadHalfW
P2x == Width - 3 * PadHalfW

Dist(a, b) == IF a < b THEN b - a ELSE a - b

\* reset: the ball in the middle, in one of two directions, its speed as at the first
\* serve, the paddles at rest.
Serves(xVel, yVel, one) ==
    {[x |-> Width \div 2, y |-> Height \div 2, vx |-> d * xVel, vy |-> d * yVel, mult |-> one,
      p1 |-> Height \div 2, p2 |-> Height \div 2, v1 |-> 0, v2 |-> 0] : d \in {-1, 1}}

\* A key of a player's input and the velocity of his paddle.
Steered(v, key, speed) ==
    CASE key = "ArrowUp" -> -speed
      [] key = "ArrowDown" -> speed
      [] key = "ArrowUpStop" /\ v < 0 -> 0
      [] key = "ArrowDownStop" /\ v > 0 -> 0
      [] OTHER -> v

-----------------------------------------------------------------------------
(* Collisions *)

Overlaps(s, px, py) ==
    Dist(s.x, px) <= Half + PadHalfW /\ Dist(s.y, py) <= Half + PadHalfH

\* The outer fifth of a paddle.
AtEdge(s, py) == 5 * Dist(s.y, py) > 4 * PadHalfH

PaddleHit(s, py) == IF AtEdge(s, py) THEN "edge" ELSE "paddle"

\* Behind the front of a paddle, or at the wall behind it.
InLeftGoal(s) == s.x <= P1x + PadHalfW
InRightGoal(s) == s.x >= P2x - PadHalfW

\* The paddles first, then top and bottom with their corners, then the side walls.
detectColl(s) ==
    IF Overlaps(s, P1x, s.p1) THEN PaddleHit(s, s.p1)
    ELSE IF Overlaps(s, P2x, s.p2) THEN PaddleHit(s, s.p2)
    ELSE IF s.y - Half <= Edge \/ s.y + Half >= Height - Edge
         THEN IF InLeftGoal(s) THEN "left" ELSE IF InRightGoal(s) THEN "right" ELSE "wall"
    ELSE IF s.x - Half <= 0 THEN "left"
    ELSE IF s.x + Half >= Width THEN "right" ELSE "none"

-----------------------------------------------------------------------------
(* Mutations *)

\* At the top the ball is put a whole ball below the wall, at the bottom on it.
InHeight(y) ==
    IF y - Half <= 0 THEN 3 * Half ELSE IF y + Half >= Height THEN Height - Half ELSE y

\* Mutant: the ball is left inside the paddle it has hit.
InFrontNowhere(x) == x

\* A ball in the column of a paddle, whatever its height, is put in front of it.
InFront(x) ==
    IF Dist(x, P1x) < Half + PadHalfW THEN P1x + PadHalfW + Half
    ELSE IF Dist(x, P2x) < Half + PadHalfW THEN P2x - PadHalfW - Half ELSE x

deOutOfBoundsBall(s) == [s EXCEPT !.x = InFront(s.x), !.y = InHeight(s.y)]

inverseBallXVelocity(s) == [s EXCEPT !.vx = -s.vx]
inverseBallYVelocity(s) == [s EXCEPT !.vy = -s.vy]

\* The ball turns back; its vertical speed becomes half of its speed.
handlePaddleEdgeHit(s) ==
    [s EXCEPT !.vx = -s.vx,
              !.vy = IF s.vy < 0 THEN -EdgeSpeed(s.vx, s.vy) ELSE EdgeSpeed(s.vx, s.vy)]

advanceBall(s) ==
    LET m == s.mult + Incr
    IN [s EXCEPT !.mult = m, !.x = s.x + s.vx * m, !.y = s.y + s.vy * m]

Touches(py) == py - PadHalfH <= 0 \/ py + PadHalfH >= Height
Kept(py) ==
    IF py + PadHalfH >= Height THEN Height - PadHalfH
    ELSE IF py - PadHalfH <= 0 THEN PadHalfH ELSE py

deOutOfBoundsPlayers(s) ==
    [s EXCEPT !.p1 = Kept(s.p1), !.v1 = IF Touches(s.p1) THEN 0 ELSE s.v1,
              !.p2 = Kept(s.p2), !.v2 = IF Touches(s.p2) THEN 0 ELSE s.v2]

-----------------------------------------------------------------------------
(* The tick *)

\* Paddles and ball have moved.
Moved(s) == [advanceBall(s) EXCEPT !.p1 = s.p1 + s.v1, !.p2 = s.p2 + s.v2]

Bounced(s) ==
    CASE detectColl(s) = "edge" -> deOutOfBoundsBall(handlePaddleEdgeHit(s))
      [] detectColl(s) = "paddle" -> deOutOfBoundsBall(inverseBallXVelocity(s))
      [] detectColl(s) = "wall" -> deOutOfBoundsBall(inverseBallYVelocity(s))
      [] OTHER -> s

\* Who has won the round: the ball is lost on the other's side.
RoundWinner(s) ==
    CASE detectColl(Moved(s)) = "left" -> 2 [] detectColl(Moved(s)) = "right" -> 1 [] OTHER -> 0

tick(s) == deOutOfBoundsPlayers(advanceBall(Bounced(Moved(s))))

-----------------------------------------------------------------------------
(* Properties *)

Vel == (-MaxVel..MaxVel) \ {0}
State(xs, ys, ms, ps, vs) ==
    [x : xs, y : ys, vx : Vel, vy : Vel, mult : ms, p1 : ps, p2 : ps, v1 : vs, v2 : vs]

\* The ways of the ball in the next half tick and, down, in the last one.
NextX(s) == s.vx * (s.mult + Incr)
NextY(s) == s.vy * (s.mult + Incr)
LastY(s) == s.vy * s.mult

PassedP1(s) == s.x - Half <= P1x + PadHalfW
PassedP2(s) == s.x + Half >= P2x - PadHalfW

\* The ball flies away from the paddle it is near and from the wall it is at: it is
\* in front of the paddle behind it, and the next move takes it off the wall behind it.
BallIsFree(s) ==
    /\ s.vx > 0 => ~PassedP1(s)
    /\ s.vx < 0 => ~PassedP2(s)
    /\ s.vy > 0 => s.y - Half + NextY(s) > Edge
    /\ s.vy < 0 => s.y + Half + NextY(s) < Height - Edge

\* It is outside the court by no more than its last move.
BallInCourt(s) ==
    /\ s.y - Half >= -Dist(LastY(s), 0) /\ s.y + Half <= Height + Dist(LastY(s), 0)

PaddlesInCourt(s) ==
    /\ PadHalfH <= s.p1 /\ s.p1 <= Height - PadHalfH
    /\ PadHalfH <= s.p2 /\ s.p2 <= Height - PadHalfH

RallyState(s) == BallIsFree(s) /\ BallInCourt(s) /\ PaddlesInCourt(s)

\* A ball that touches a paddle's back, on the line: it is turned but not moved, and
\* turned again by the next tick.  With the fractions of the code this hardly occurs.
Grazes(s) == s.x + Half = P1x - PadHalfW \/ s.x - Half = P2x + PadHalfW

\* But for that, and at whatever speed, every bounce sends the ball to the other side
\* and back into the court: no tick leaves it inside the paddle or the wall it flies away
\* from, where the next collision would turn it a second time and hold it there or let
\* it through.
TickIsSound(s) ==
    RallyState(s) /\ RoundWinner(s) = 0 /\ ~Grazes(Moved(s)) => RallyState(tick(s))

\* The paddle has moved to the ball's height.
Covers(s, py) == Dist(Moved(s).y, py) <= Half + PadHalfH

\* A way that takes a ball over a paddle that is at its height, or past the front of one
\* that is not, before anything is looked at.
Leaps(way, covered) == Dist(way, 0) > IF covered THEN 2 * (Half + PadHalfW) ELSE Half

\* A ball is lost only on the side it flies to, and not before it has passed the front
\* of that paddle in an earlier tick, unless it has become so fast that it leaps.
LossIsSeen(s) ==
    RallyState(s) =>
        /\ RoundWinner(s) = 2 =>
               s.vx < 0 /\ (PassedP1(s) \/ Leaps(NextX(s), Covers(s, Moved(s).p1)))
        /\ RoundWinner(s) = 1 =>
               s.vx > 0 /\ (PassedP2(s) \/ Leaps(NextX(s), Covers(s, Moved(s).p2)))
=============================================================================
