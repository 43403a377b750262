---------------------------- MODULE PhysicsProofs ----------------------------
(***************************************************************************)
(* A tick of the engine in a court of any size, with any paddles and a ball  *)
(* of any speed, however long the rally (ponggame/physics.go), and what      *)
(* becomes of the frame it produces in queues of any capacity (Frames).      *)
(***************************************************************************)
EXTENDS Physics, Frames, TLAPS

Ball == State(Int, Int, Nat \ {0}, Int, Int)

-----------------------------------------------------------------------------
(* The pieces of a tick *)

LEMMA Sizes ==
    /\ Width \in Int /\ Height \in Int /\ Half \in Int /\ PadHalfW \in Int /\ PadHalfH \in Int
    /\ Edge \in Int /\ MaxVel \in Int /\ Incr \in Nat /\ P1x \in Int /\ P2x \in Int
    /\ 1 <= Half /\ 1 <= PadHalfW /\ 0 <= PadHalfH /\ 0 <= Edge /\ Edge <= 1 /\ 0 <= MaxVel
    /\ P1x = PadHalfW + PadHalfW + PadHalfW
    /\ P2x = Width - P1x /\ Half <= P1x + PadHalfW
    /\ PadHalfW + PadHalfW + P1x + P1x + Half + Half + Half + Half < Width
    /\ Half + Half + Half + Half + 2 < Height
    /\ PadHalfH + PadHalfH < Height
  BY SizeAssumption DEF P1x, P2x

LEMMA BallFields ==
    ASSUME NEW s \in Ball
    PROVE  /\ s.x \in Int /\ s.y \in Int /\ s.vx \in Int /\ s.vy \in Int /\ s.vx # 0 /\ s.vy # 0
           /\ s.mult \in Nat \ {0} /\ s.mult + Incr \in Nat \ {0}
           /\ s.p1 \in Int /\ s.p2 \in Int /\ s.v1 \in Int /\ s.v2 \in Int
           /\ -MaxVel <= s.vx /\ s.vx <= MaxVel /\ -MaxVel <= s.vy /\ s.vy <= MaxVel
  BY Sizes DEF Ball, State, Vel

\* A way has the direction of the velocity, whatever the multiplier.
LEMMA Ways ==
    ASSUME NEW v \in Int, v # 0, NEW m \in Nat \ {0}
    PROVE  /\ v * m \in Int /\ v * m # 0
           /\ v > 0 <=> v * m > 0
           /\ (-v) * m = -(v * m)
<1>1. v * m \in Int /\ (-v) * m = -(v * m)
  OBVIOUS
<1>2. v > 0 => v * m > 0
  OBVIOUS
<1>3. v < 0 => v * m < 0
  OBVIOUS
<1> QED
  BY <1>1, <1>2, <1>3

\* The ball's next moves go the way it flies.
LEMMA NextWays ==
    ASSUME NEW s \in Ball
    PROVE  /\ NextX(s) \in Int /\ NextX(s) # 0 /\ (s.vx > 0 <=> NextX(s) > 0)
           /\ NextY(s) \in Int /\ NextY(s) # 0 /\ (s.vy > 0 <=> NextY(s) > 0)
  BY BallFields, Ways DEF NextX, NextY

LEMMA MovedBall ==
    ASSUME NEW s \in Ball
    PROVE  /\ Moved(s).x = s.x + NextX(s) /\ Moved(s).y = s.y + NextY(s)
           /\ Moved(s).vx = s.vx /\ Moved(s).vy = s.vy /\ Moved(s).mult = s.mult + Incr
           /\ Moved(s).p1 = s.p1 + s.v1 /\ Moved(s).p2 = s.p2 + s.v2
           /\ Moved(s).v1 = s.v1 /\ Moved(s).v2 = s.v2
<1>1. DOMAIN s = {"x", "y", "vx", "vy", "mult", "p1", "p2", "v1", "v2"}
  BY DEF Ball, State
<1>2. DOMAIN advanceBall(s) = DOMAIN s
  BY DEF advanceBall
<1>3. /\ advanceBall(s).x = s.x + NextX(s) /\ advanceBall(s).y = s.y + NextY(s)
      /\ advanceBall(s).vx = s.vx /\ advanceBall(s).vy = s.vy
      /\ advanceBall(s).mult = s.mult + Incr
      /\ advanceBall(s).v1 = s.v1 /\ advanceBall(s).v2 = s.v2
  BY <1>1 DEF advanceBall, NextX, NextY
<1> QED
  BY <1>1, <1>2, <1>3 DEF Moved

LEMMA DistCases ==
    ASSUME NEW a \in Int, NEW b \in Int
    PROVE  (a < b /\ Dist(a, b) = b - a) \/ (a >= b /\ Dist(a, b) = a - b)
  BY DEF Dist

\* A loss is found where the ball is: behind the paddle's front, or at the wall, and not at
\* a paddle that is at its height.
LEMMA LossPlace ==
    ASSUME NEW s
    PROVE  /\ detectColl(s) = "left" =>
                 /\ s.x <= P1x + PadHalfW \/ s.x - Half <= 0
                 /\ Dist(s.y, s.p1) <= Half + PadHalfH => ~(Dist(s.x, P1x) <= Half + PadHalfW)
           /\ detectColl(s) = "right" =>
                 /\ s.x >= P2x - PadHalfW \/ s.x + Half >= Width
                 /\ Dist(s.y, s.p2) <= Half + PadHalfH => ~(Dist(s.x, P2x) <= Half + PadHalfW)
  BY DEF detectColl, PaddleHit, InLeftGoal, InRightGoal, Overlaps

\* From in front of the left paddle to its front or to the wall is a way longer than half
\* the ball, and to its back longer than the paddle and the ball.
LEMMA LeapLeft ==
    ASSUME NEW x \in Int, NEW z \in Int, NEW w \in Int, NEW c \in BOOLEAN,
           ~(x - Half <= P1x + PadHalfW),
           z <= P1x + PadHalfW \/ z - Half <= 0,
           c => ~(Dist(z, P1x) <= Half + PadHalfW), z = x + w
    PROVE  Leaps(w, c)
<1> USE Sizes
<1>1. w < 0 /\ Dist(w, 0) = -w
  BY DistCases
<1>2. -w > Half
  OBVIOUS
<1>3. CASE c
  <2>1. z < P1x - Half - PadHalfW
    BY <1>3, DistCases
  <2>2. -w > 2 * (Half + PadHalfW)
    BY <2>1
  <2> QED
    BY <1>1, <1>3, <2>2 DEF Leaps
<1>4. CASE ~c
  BY <1>1, <1>2, <1>4 DEF Leaps
<1> QED
  BY <1>3, <1>4

LEMMA LeapRight ==
    ASSUME NEW x \in Int, NEW z \in Int, NEW w \in Int, NEW c \in BOOLEAN,
           ~(x + Half >= P2x - PadHalfW),
           z >= P2x - PadHalfW \/ z + Half >= Width,
           c => ~(Dist(z, P2x) <= Half + PadHalfW), z = x + w
    PROVE  Leaps(w, c)
<1> USE Sizes
<1>1. w > 0 /\ Dist(w, 0) = w
  BY DistCases
<1>2. w > Half
  OBVIOUS
<1>3. CASE c
  <2>1. z > P2x + Half + PadHalfW
    BY <1>3, DistCases
  <2>2. w > 2 * (Half + PadHalfW)
    BY <2>1
  <2> QED
    BY <1>1, <1>3, <2>2 DEF Leaps
<1>4. CASE ~c
  BY <1>1, <1>2, <1>4 DEF Leaps
<1> QED
  BY <1>3, <1>4

(* In a court of any size, however fast the ball: it is lost on the side it flies to, and it has  *)
(* passed the front of that paddle in an earlier tick, unless half a tick takes it further than   *)
(* half its size, or over paddle and ball if the paddle was in its way (detectColl of physics.go).*)
THEOREM LossesAreAlwaysSeen == \A s \in Ball : LossIsSeen(s)
<1> SUFFICES ASSUME NEW s \in Ball, RallyState(s)
    PROVE  /\ RoundWinner(s) = 2 =>
                  s.vx < 0 /\ (PassedP1(s) \/ Leaps(NextX(s), Covers(s, Moved(s).p1)))
           /\ RoundWinner(s) = 1 =>
                  s.vx > 0 /\ (PassedP2(s) \/ Leaps(NextX(s), Covers(s, Moved(s).p2)))
  BY DEF LossIsSeen
<1> DEFINE m == Moved(s)
           w == NextX(s)
<1>1. /\ s.x \in Int /\ s.vx \in Int /\ s.vx # 0 /\ w \in Int /\ w # 0
      /\ s.vx > 0 <=> w > 0
      /\ m.x \in Int /\ m.x = s.x + w
  BY BallFields, NextWays, MovedBall
<1>2. /\ s.vx > 0 => s.x - Half > P1x + PadHalfW
      /\ s.vx < 0 => s.x + Half < P2x - PadHalfW
  BY <1>1, Sizes DEF RallyState, BallIsFree, PassedP1, PassedP2
<1>3. Covers(s, m.p1) \in BOOLEAN /\ Covers(s, m.p2) \in BOOLEAN
  BY DEF Covers
<1>4. ASSUME RoundWinner(s) = 2
      PROVE  s.vx < 0 /\ (PassedP1(s) \/ Leaps(w, Covers(s, m.p1)))
  <2>1. detectColl(m) = "left"
    BY <1>4 DEF RoundWinner
  <2> HIDE DEF m, w
  <2>2. /\ m.x <= P1x + PadHalfW \/ m.x - Half <= 0
        /\ Dist(m.y, m.p1) <= Half + PadHalfH => ~(Dist(m.x, P1x) <= Half + PadHalfW)
    BY <2>1, LossPlace, Zenon
  <2>3. s.vx < 0
    BY <1>1, <1>2, <2>2, Sizes
  <2>4. Covers(s, m.p1) => ~(Dist(m.x, P1x) <= Half + PadHalfW)
    BY <2>2 DEF Covers, m
  <2> QED
    BY <1>1, <1>3, <2>2, <2>3, <2>4, LeapLeft DEF PassedP1
<1>5. ASSUME RoundWinner(s) = 1
      PROVE  s.vx > 0 /\ (PassedP2(s) \/ Leaps(w, Covers(s, m.p2)))
  <2>1. detectColl(m) = "right"
    BY <1>5 DEF RoundWinner
  <2> HIDE DEF m, w
  <2>2. /\ m.x >= P2x - PadHalfW \/ m.x + Half >= Width
        /\ Dist(m.y, m.p2) <= Half + PadHalfH => ~(Dist(m.x, P2x) <= Half + PadHalfW)
    BY <2>1, LossPlace, Zenon
  <2>3. s.vx > 0
    BY <1>1, <1>2, <2>2, Sizes
  <2>4. Covers(s, m.p2) => ~(Dist(m.x, P2x) <= Half + PadHalfW)
    BY <2>2 DEF Covers, m
  <2> QED
    BY <1>1, <1>3, <2>2, <2>3, <2>4, LeapRight DEF PassedP2
<1> QED
  BY <1>4, <1>5

-----------------------------------------------------------------------------
(* One coordinate at a time *)

\* v is the next move, u the last one.
FreeY(y, v) == /\ v > 0 => y - Half + v > Edge
               /\ v < 0 => y + Half + v < Height - Edge
CourtY(y, u) == y - Half >= -Dist(u, 0) /\ y + Half <= Height + Dist(u, 0)

FreeX(x, v) == /\ v > 0 => x - Half > P1x + PadHalfW
               /\ v < 0 => x + Half < P2x - PadHalfW

Way == Int \ {0}

\* A ball that flies on in its vertical direction, at whatever speed, from where it was put.
LEMMA KeepsHeight ==
    ASSUME NEW y \in Int, NEW z \in Int, NEW v \in Way, NEW w \in Way, NEW w2 \in Way,
           v > 0 <=> w > 0, w > 0 <=> w2 > 0, FreeY(y, v), z = y + v
    PROVE  FreeY(InHeight(z) + w, w2) /\ CourtY(InHeight(z) + w, w)
<1> USE Sizes DEF FreeY, CourtY, Way
<1>1. CASE v > 0
  <2>1. InHeight(z) = IF z + Half >= Height THEN Height - Half ELSE z
    BY <1>1 DEF InHeight
  <2>2. Dist(w, 0) = w
    BY <1>1, DistCases
  <2> QED
    BY <1>1, <2>1, <2>2
<1>2. CASE v < 0
  <2>1. InHeight(z) = IF z - Half <= 0 THEN Half + Half + Half ELSE z
    BY <1>2 DEF InHeight
  <2>2. Dist(w, 0) = -w
    BY <1>2, DistCases
  <2> QED
    BY <1>2, <2>1, <2>2
<1> QED
  BY <1>1, <1>2

\* A ball that has reached the top or the bottom turns back into the court.
LEMMA TurnsHeight ==
    ASSUME NEW y \in Int, NEW z \in Int, NEW v \in Way, NEW w \in Way, NEW w2 \in Way,
           v > 0 <=> w < 0, w > 0 <=> w2 > 0, FreeY(y, v),
           z - Half <= Edge \/ z + Half >= Height - Edge, z = y + v
    PROVE  FreeY(InHeight(z) + w, w2) /\ CourtY(InHeight(z) + w, w)
<1> USE Sizes DEF FreeY, CourtY, Way
<1>1. CASE v > 0
  <2>1. InHeight(z) = IF z + Half >= Height THEN Height - Half ELSE z
    BY <1>1 DEF InHeight
  <2>2. Dist(w, 0) = -w
    BY <1>1, DistCases
  <2> QED
    BY <1>1, <2>1, <2>2
<1>2. CASE v < 0
  <2>1. InHeight(z) = IF z - Half <= 0 THEN Half + Half + Half ELSE z
    BY <1>2 DEF InHeight
  <2>2. Dist(w, 0) = w
    BY <1>2, DistCases
  <2> QED
    BY <1>2, <2>1, <2>2
<1> QED
  BY <1>1, <1>2

LEMMA FliesOn ==
    ASSUME NEW y \in Int, NEW z \in Int, NEW v \in Way, NEW w \in Way, NEW w2 \in Way,
           v > 0 <=> w > 0, w > 0 <=> w2 > 0, FreeY(y, v),
           ~(z - Half <= Edge \/ z + Half >= Height - Edge), z = y + v
    PROVE  FreeY(z + w, w2) /\ CourtY(z + w, w)
<1> USE Sizes DEF FreeY, CourtY, Way
<1>1. (w > 0 /\ Dist(w, 0) = w) \/ (w < 0 /\ Dist(w, 0) = -w)
  BY DistCases
<1> QED
  BY <1>1

\* A ball in the column of a paddle flies towards it; turned, it leaves from the paddle's front.
LEMMA TurnsAtPaddle ==
    ASSUME NEW x \in Int, NEW z \in Int, NEW v \in Way, NEW w \in Way, NEW w2 \in Way,
           v > 0 <=> w < 0, w > 0 <=> w2 > 0, FreeX(x, v),
           \/ Dist(z, P1x) <= Half + PadHalfW /\ z + Half # P1x - PadHalfW
           \/ Dist(z, P2x) <= Half + PadHalfW /\ z - Half # P2x + PadHalfW, z = x + v
    PROVE  FreeX(InFront(z) + w, w2)
<1> USE Sizes DEF FreeX, Way
<1>1. CASE Dist(z, P1x) <= Half + PadHalfW /\ z + Half # P1x - PadHalfW
  <2>1. v < 0 /\ z - Half <= P1x + PadHalfW /\ z + Half > P1x - PadHalfW
    BY <1>1, DistCases
  <2>2. ~(Dist(z, P2x) < Half + PadHalfW)
    BY <2>1, DistCases
  <2>3. Dist(z, P1x) < Half + PadHalfW \/ z = P1x + PadHalfW + Half
    BY <2>1, DistCases
  <2>4. InFront(z) = P1x + PadHalfW + Half
    BY <2>2, <2>3 DEF InFront
  <2> QED
    BY <2>1, <2>4
<1>2. CASE Dist(z, P2x) <= Half + PadHalfW /\ z - Half # P2x + PadHalfW
  <2>1. v > 0 /\ z + Half >= P2x - PadHalfW /\ z - Half < P2x + PadHalfW
    BY <1>2, DistCases
  <2>2. ~(Dist(z, P1x) < Half + PadHalfW)
    BY <2>1, DistCases
  <2>3. Dist(z, P2x) < Half + PadHalfW \/ z = P2x - PadHalfW - Half
    BY <1>2, <2>1, DistCases
  <2>4. InFront(z) = P2x - PadHalfW - Half
    BY <2>2, <2>3 DEF InFront
  <2> QED
    BY <2>1, <2>4
<1> QED
  BY <1>1, <1>2

\* At the top or the bottom between the paddles it may be put in front of one, and flies on.
LEMMA KeepsWay ==
    ASSUME NEW x \in Int, NEW z \in Int, NEW v \in Way, NEW w \in Way, NEW w2 \in Way,
           v > 0 <=> w > 0, w > 0 <=> w2 > 0, FreeX(x, v),
           z > P1x + PadHalfW, z < P2x - PadHalfW, z = x + v
    PROVE  FreeX(InFront(z) + w, w2)
<1> USE Sizes DEF FreeX, Way
<1>1. InFront(z) \in {P1x + PadHalfW + Half, P2x - PadHalfW - Half, z}
  BY DEF InFront
<1> QED
  BY <1>1

LEMMA PaddleKept ==
    ASSUME NEW p \in Int
    PROVE  PadHalfH <= Kept(p) /\ Kept(p) <= Height - PadHalfH
  BY Sizes DEF Kept

-----------------------------------------------------------------------------
(* The tick *)

Fields == {"x", "y", "vx", "vy", "mult", "p1", "p2", "v1", "v2"}

\* The paddles are not moved by a bounce, nor does the ball grow faster.
SamePaddles(b, m) ==
    b.p1 = m.p1 /\ b.p2 = m.p2 /\ b.mult = m.mult /\ DOMAIN b = Fields

LEMMA PutBack ==
    ASSUME NEW b, DOMAIN b = Fields
    PROVE  LET o == deOutOfBoundsBall(b) IN
           /\ o.x = InFront(b.x) /\ o.y = InHeight(b.y) /\ o.vx = b.vx /\ o.vy = b.vy
           /\ SamePaddles(o, b)
  BY DEF deOutOfBoundsBall, Fields, SamePaddles

LEMMA AtPaddle ==
    ASSUME NEW m, DOMAIN m = Fields, m.vx \in Int, m.vy \in Int,
           detectColl(m) \in {"edge", "paddle"}
    PROVE  LET b == Bounced(m) IN
           /\ b.x = InFront(m.x) /\ b.y = InHeight(m.y) /\ b.vx = -m.vx
           /\ \/ b.vy = m.vy
              \/ m.vy < 0 /\ b.vy = -EdgeSpeed(m.vx, m.vy)
              \/ m.vy >= 0 /\ b.vy = EdgeSpeed(m.vx, m.vy)
           /\ SamePaddles(b, m)
<1>1. CASE detectColl(m) = "edge"
  <2> DEFINE h == handlePaddleEdgeHit(m)
  <2>1. /\ DOMAIN h = Fields /\ h.x = m.x /\ h.y = m.y /\ h.vx = -m.vx
        /\ h.vy = IF m.vy < 0 THEN -EdgeSpeed(m.vx, m.vy) ELSE EdgeSpeed(m.vx, m.vy)
        /\ SamePaddles(h, m)
    BY DEF handlePaddleEdgeHit, Fields, SamePaddles
  <2>2. Bounced(m) = deOutOfBoundsBall(h)
    BY <1>1 DEF Bounced
  <2> HIDE DEF h
  <2> QED
    BY <2>1, <2>2, PutBack DEF SamePaddles
<1>2. CASE detectColl(m) = "paddle"
  <2> DEFINE h == inverseBallXVelocity(m)
  <2>1. /\ DOMAIN h = Fields /\ h.x = m.x /\ h.y = m.y /\ h.vx = -m.vx /\ h.vy = m.vy
        /\ SamePaddles(h, m)
    BY DEF inverseBallXVelocity, Fields, SamePaddles
  <2>2. Bounced(m) = deOutOfBoundsBall(h)
    BY <1>2 DEF Bounced
  <2> HIDE DEF h
  <2> QED
    BY <2>1, <2>2, PutBack DEF SamePaddles
<1> QED
  BY <1>1, <1>2

LEMMA AtWall ==
    ASSUME NEW m, DOMAIN m = Fields, detectColl(m) = "wall"
    PROVE  LET b == Bounced(m) IN
           /\ b.x = InFront(m.x) /\ b.y = InHeight(m.y) /\ b.vx = m.vx /\ b.vy = -m.vy
           /\ SamePaddles(b, m)
<1> DEFINE h == inverseBallYVelocity(m)
<1>1. /\ DOMAIN h = Fields /\ h.x = m.x /\ h.y = m.y /\ h.vx = m.vx /\ h.vy = -m.vy
      /\ SamePaddles(h, m)
  BY DEF inverseBallYVelocity, Fields, SamePaddles
<1>2. Bounced(m) = deOutOfBoundsBall(h)
  BY DEF Bounced
<1> HIDE DEF h
<1> QED
  BY <1>1, <1>2, PutBack DEF SamePaddles

\* The ball moves on after the bounce and the paddles are kept in the court.
LEMMA TickFields ==
    ASSUME NEW s, DOMAIN Bounced(Moved(s)) = Fields
    PROVE  LET b == Bounced(Moved(s)) t == tick(s) IN
           /\ t.x = b.x + NextX(b) /\ t.y = b.y + NextY(b) /\ t.vx = b.vx /\ t.vy = b.vy
           /\ t.mult = b.mult + Incr /\ t.p1 = Kept(b.p1) /\ t.p2 = Kept(b.p2)
<1> DEFINE b == Bounced(Moved(s))
           a == advanceBall(b)
<1>1. /\ DOMAIN a = Fields /\ a.x = b.x + NextX(b) /\ a.y = b.y + NextY(b)
      /\ a.vx = b.vx /\ a.vy = b.vy /\ a.mult = b.mult + Incr
      /\ a.p1 = b.p1 /\ a.p2 = b.p2
  BY DEF advanceBall, Fields, NextX, NextY
<1>2. tick(s) = deOutOfBoundsPlayers(a)
  BY DEF tick
<1> HIDE DEF a
<1>3. LET t == deOutOfBoundsPlayers(a) IN
      /\ t.x = a.x /\ t.y = a.y /\ t.vx = a.vx /\ t.vy = a.vy /\ t.mult = a.mult
      /\ t.p1 = Kept(a.p1) /\ t.p2 = Kept(a.p2)
  BY <1>1 DEF deOutOfBoundsPlayers, Fields
<1> QED
  BY <1>1, <1>2, <1>3

\* The state of a rally, coordinate by coordinate.
LEMMA RallyCoordinates ==
    ASSUME NEW s, s.x \in Int, s.y \in Int, s.vx \in Way, s.vy \in Way, s.mult \in Nat \ {0}
    PROVE  RallyState(s) <=> /\ FreeX(s.x, NextX(s)) /\ FreeY(s.y, NextY(s))
                             /\ CourtY(s.y, LastY(s)) /\ PaddlesInCourt(s)
<1>1. /\ NextX(s) \in Int /\ NextX(s) # 0 /\ (s.vx > 0 <=> NextX(s) > 0)
      /\ NextY(s) \in Int /\ NextY(s) # 0 /\ (s.vy > 0 <=> NextY(s) > 0)
  <2>1. s.mult + Incr \in Nat \ {0} /\ s.vx \in Int /\ s.vy \in Int /\ s.vx # 0 /\ s.vy # 0
    BY Sizes DEF Way
  <2> QED
    BY <2>1, Ways DEF NextX, NextY
<1>2. s.vx \in Int /\ s.vy \in Int /\ s.vx # 0 /\ s.vy # 0
  BY DEF Way
<1> HIDE DEF NextX, NextY
<1>3. (s.vx < 0 <=> NextX(s) < 0) /\ (s.vy < 0 <=> NextY(s) < 0)
  BY <1>1, <1>2
<1>4. BallInCourt(s) <=> CourtY(s.y, LastY(s))
  BY DEF BallInCourt, CourtY
<1>5. BallIsFree(s) <=> FreeX(s.x, NextX(s)) /\ FreeY(s.y, NextY(s))
  BY <1>1, <1>2, <1>3, Sizes DEF BallIsFree, FreeX, FreeY, PassedP1, PassedP2
<1> QED
  BY <1>4, <1>5 DEF RallyState

(* Every serve starts such a rally, in a court of any size and at any speed (resetBall and        *)
(* resetPlayers of physics.go).                                                                   *)
THEOREM ServesAreRallies ==
    ASSUME NEW xVel \in Nat \ {0}, NEW yVel \in Nat \ {0}, NEW one \in Nat \ {0}
    PROVE  \A s \in Serves(xVel, yVel, one) : RallyState(s)
<1> SUFFICES ASSUME NEW s \in Serves(xVel, yVel, one)
             PROVE  RallyState(s)
  OBVIOUS
<1>1. PICK d \in {-1, 1} :
         s = [x |-> Width \div 2, y |-> Height \div 2, vx |-> d * xVel, vy |-> d * yVel,
              mult |-> one, p1 |-> Height \div 2, p2 |-> Height \div 2, v1 |-> 0, v2 |-> 0]
  BY DEF Serves
<1>2. s.vx \in Way /\ s.vy \in Way /\ s.mult = one
  BY <1>1 DEF Way
<1> DEFINE cx == Width \div 2
           cy == Height \div 2
<1>3. /\ cx \in Int /\ cy \in Int /\ cx + cx <= Width /\ Width <= cx + cx + 1
      /\ cy + cy <= Height /\ Height <= cy + cy + 1
  BY Sizes
<1>4. s.x = cx /\ s.y = cy /\ s.p1 = cy /\ s.p2 = cy
  BY <1>1
<1> HIDE DEF cx, cy
<1>5. NextX(s) \in Int /\ NextY(s) \in Int /\ LastY(s) \in Int
  BY <1>2, Sizes, Ways DEF NextX, NextY, LastY, Way
<1>6. Dist(LastY(s), 0) \in Int /\ Dist(LastY(s), 0) >= 0
  <2>1. 0 \in Int
    OBVIOUS
  <2>2. \/ LastY(s) < 0 /\ Dist(LastY(s), 0) = 0 - LastY(s)
        \/ LastY(s) >= 0 /\ Dist(LastY(s), 0) = LastY(s) - 0
    BY <1>5, <2>1, DistCases
  <2> QED
    BY <1>5, <2>2
<1>7. FreeX(s.x, NextX(s))
  BY <1>3, <1>4, <1>5, Sizes DEF FreeX
<1>8. FreeY(s.y, NextY(s))
  BY <1>3, <1>4, <1>5, Sizes DEF FreeY
<1>9. CourtY(s.y, LastY(s))
  BY <1>3, <1>4, <1>5, <1>6, Sizes DEF CourtY
<1>10. PaddlesInCourt(s)
  BY <1>3, <1>4, Sizes DEF PaddlesInCourt
<1> QED
  BY <1>2, <1>3, <1>4, <1>7, <1>8, <1>9, <1>10, RallyCoordinates

(* In a court of any size, however fast the ball: every bounce sends it to the other side and     *)
(* back into the court.  No tick that does not end the round leaves the ball where the next would *)
(* turn it again, unless it grazes the back of a paddle (tick, detectColl and deOutOfBoundsBall   *)
(* of physics.go).                                                                                *)
THEOREM TicksAreAlwaysSound == \A s \in Ball : TickIsSound(s)
<1> SUFFICES ASSUME NEW s \in Ball, RallyState(s), RoundWinner(s) = 0, ~Grazes(Moved(s))
             PROVE  RallyState(tick(s))
  BY DEF TickIsSound
<1> DEFINE m == Moved(s)
           b == Bounced(m)
           t == tick(s)
           vx == NextX(s)
           vy == NextY(s)
<1>1. /\ s.x \in Int /\ s.y \in Int /\ s.vx \in Way /\ s.vy \in Way
      /\ s.p1 + s.v1 \in Int /\ s.p2 + s.v2 \in Int
  BY BallFields DEF Way
<1>2. /\ vx \in Way /\ (s.vx > 0 <=> vx > 0)
      /\ vy \in Way /\ (s.vy > 0 <=> vy > 0)
  BY NextWays DEF Way
<1>3. FreeX(s.x, vx) /\ FreeY(s.y, vy)
  BY <1>1, BallFields, RallyCoordinates
<1>4. /\ m.x = s.x + vx /\ m.y = s.y + vy /\ m.vx = s.vx /\ m.vy = s.vy
      /\ m.mult \in Nat \ {0} /\ m.p1 = s.p1 + s.v1 /\ m.p2 = s.p2 + s.v2
  BY MovedBall, BallFields
<1>5. DOMAIN m = Fields
  BY DEF Moved, advanceBall, Ball, State, Fields
<1>6. /\ m.x + Half # P1x - PadHalfW /\ m.x - Half # P2x + PadHalfW
  BY DEF Grazes
<1>7. detectColl(m) \in {"edge", "paddle", "wall", "none"}
  BY DEF RoundWinner, detectColl, PaddleHit
<1>8. InFront(m.x) \in Int /\ InHeight(m.y) \in Int /\ m.x \in Int /\ m.y \in Int
  <2>1. m.x \in Int /\ m.y \in Int
    BY <1>1, <1>2, <1>4 DEF Way
  <2> HIDE DEF m
  <2> QED
    BY <2>1, Sizes DEF InFront, InHeight
<1> HIDE DEF m, vx, vy
\* It is enough to find the ball free after its second move, wherever that takes it.
<1>9. ASSUME b.x \in Int, b.y \in Int, b.vx \in Way, b.vy \in Way, SamePaddles(b, m),
             \A w, w2 \in Way : (w > 0 <=> b.vx > 0) /\ (w2 > 0 <=> b.vx > 0) =>
                                   FreeX(b.x + w, w2),
             \A w, w2 \in Way : (w > 0 <=> b.vy > 0) /\ (w2 > 0 <=> b.vy > 0) =>
                                   FreeY(b.y + w, w2) /\ CourtY(b.y + w, w)
      PROVE  RallyState(t)
  <2>1. b.mult \in Nat \ {0} /\ DOMAIN b = Fields /\ b.p1 = m.p1 /\ b.p2 = m.p2
    BY <1>4, <1>9 DEF SamePaddles
  <2>2. /\ t.x = b.x + NextX(b) /\ t.y = b.y + NextY(b) /\ t.vx = b.vx /\ t.vy = b.vy
        /\ t.mult = b.mult + Incr /\ t.p1 = Kept(m.p1) /\ t.p2 = Kept(m.p2)
    BY <2>1, TickFields DEF m
  <2>3. t.mult \in Nat \ {0} /\ t.mult + Incr \in Nat \ {0}
    BY <2>1, <2>2, Sizes
  <2>4. LastY(t) = NextY(b)
    BY <2>2 DEF LastY, NextY
  <2>5. /\ NextX(b) \in Way /\ (NextX(b) > 0 <=> b.vx > 0)
        /\ NextY(b) \in Way /\ (NextY(b) > 0 <=> b.vy > 0)
    BY <1>9, <2>2, <2>3, Ways DEF NextX, NextY, Way
  <2>6. /\ NextX(t) \in Way /\ (NextX(t) > 0 <=> b.vx > 0)
        /\ NextY(t) \in Way /\ (NextY(t) > 0 <=> b.vy > 0)
    BY <1>9, <2>2, <2>3, Ways DEF NextX, NextY, Way
  <2>7. FreeX(t.x, NextX(t))
    BY <1>9, <2>2, <2>5, <2>6
  <2>8. FreeY(t.y, NextY(t)) /\ CourtY(t.y, LastY(t))
    BY <1>9, <2>2, <2>4, <2>5, <2>6
  <2>9. PaddlesInCourt(t)
    BY <1>1, <1>4, <2>2, PaddleKept DEF PaddlesInCourt
  <2>10. t.x \in Int /\ t.y \in Int /\ t.vx \in Way /\ t.vy \in Way
    BY <1>9, <2>2, <2>5 DEF Way
  <2> QED
    BY <2>3, <2>7, <2>8, <2>9, <2>10, RallyCoordinates
<1>10. CASE detectColl(m) \in {"edge", "paddle"}
  <2>1. /\ b.x = InFront(m.x) /\ b.y = InHeight(m.y) /\ b.vx = -m.vx
        /\ \/ b.vy = m.vy
           \/ m.vy < 0 /\ b.vy = -EdgeSpeed(m.vx, m.vy)
           \/ m.vy >= 0 /\ b.vy = EdgeSpeed(m.vx, m.vy)
        /\ SamePaddles(b, m)
    BY <1>1, <1>4, <1>5, <1>10, AtPaddle DEF Way
  <2>2. Dist(m.x, P1x) <= Half + PadHalfW \/ Dist(m.x, P2x) <= Half + PadHalfW
    BY <1>10 DEF detectColl, Overlaps
  <2>3. \/ Dist(m.x, P1x) <= Half + PadHalfW /\ m.x + Half # P1x - PadHalfW
        \/ Dist(m.x, P2x) <= Half + PadHalfW /\ m.x - Half # P2x + PadHalfW
    BY <1>6, <2>2, Zenon
  <2>4. EdgeSpeed(s.vx, s.vy) \in 1..MaxVel
    <3>1. s.vx \in -MaxVel..MaxVel /\ s.vy \in -MaxVel..MaxVel /\ s.vx # 0
      BY BallFields, Sizes
    <3> QED
      BY <3>1, EdgeAssumption
  <2>5. b.vx \in Way /\ (b.vx > 0 <=> vx < 0)
    BY <1>1, <1>2, <1>4, <2>1 DEF Way
  <2>6. b.vy \in Way /\ (b.vy > 0 <=> vy > 0)
    BY <1>1, <1>2, <1>4, <2>1, <2>4, Sizes DEF Way
  <2>7. ASSUME NEW w \in Way, NEW w2 \in Way, w > 0 <=> b.vx > 0, w2 > 0 <=> b.vx > 0
        PROVE  FreeX(b.x + w, w2)
    <3>1. (vx > 0 <=> w < 0) /\ (w > 0 <=> w2 > 0)
      BY <1>2, <2>5, <2>7 DEF Way
    <3> QED
      BY <1>1, <1>2, <1>3, <1>4, <1>8, <2>1, <2>3, <3>1, TurnsAtPaddle
  <2>8. ASSUME NEW w \in Way, NEW w2 \in Way, w > 0 <=> b.vy > 0, w2 > 0 <=> b.vy > 0
        PROVE  FreeY(b.y + w, w2) /\ CourtY(b.y + w, w)
    <3>1. (vy > 0 <=> w > 0) /\ (w > 0 <=> w2 > 0)
      BY <2>6, <2>8
    <3> QED
      BY <1>1, <1>2, <1>3, <1>4, <1>8, <2>1, <3>1, KeepsHeight
  <2> QED
    BY <1>8, <1>9, <2>1, <2>5, <2>6, <2>7, <2>8
<1>11. CASE detectColl(m) = "wall"
  <2>1. /\ b.x = InFront(m.x) /\ b.y = InHeight(m.y) /\ b.vx = m.vx /\ b.vy = -m.vy
        /\ SamePaddles(b, m)
    BY <1>5, <1>11, AtWall
  <2>2. /\ m.y - Half <= Edge \/ m.y + Half >= Height - Edge
        /\ ~InLeftGoal(m) /\ ~InRightGoal(m)
    BY <1>11 DEF detectColl, PaddleHit
  <2>3. m.x > P1x + PadHalfW /\ m.x < P2x - PadHalfW
    BY <1>8, <2>2, Sizes DEF InLeftGoal, InRightGoal
  <2>4. /\ b.vx \in Way /\ (b.vx > 0 <=> vx > 0)
        /\ b.vy \in Way /\ (b.vy > 0 <=> vy < 0)
    BY <1>1, <1>2, <1>4, <2>1 DEF Way
  <2>5. ASSUME NEW w \in Way, NEW w2 \in Way, w > 0 <=> b.vx > 0, w2 > 0 <=> b.vx > 0
        PROVE  FreeX(b.x + w, w2)
    <3>1. (vx > 0 <=> w > 0) /\ (w > 0 <=> w2 > 0)
      BY <2>4, <2>5
    <3> QED
      BY <1>1, <1>2, <1>3, <1>4, <1>8, <2>1, <2>3, <3>1, KeepsWay
  <2>6. ASSUME NEW w \in Way, NEW w2 \in Way, w > 0 <=> b.vy > 0, w2 > 0 <=> b.vy > 0
        PROVE  FreeY(b.y + w, w2) /\ CourtY(b.y + w, w)
    <3>1. (vy > 0 <=> w < 0) /\ (w > 0 <=> w2 > 0)
      BY <1>2, <2>4, <2>6 DEF Way
    <3> QED
      BY <1>1, <1>2, <1>3, <1>4, <1>8, <2>1, <2>2, <3>1, TurnsHeight
  <2> QED
    BY <1>8, <1>9, <2>1, <2>4, <2>5, <2>6
<1>12. CASE detectColl(m) = "none"
  <2>1. b = m
    BY <1>12 DEF Bounced
  <2>2. ~(m.y - Half <= Edge \/ m.y + Half >= Height - Edge)
    BY <1>12 DEF detectColl, PaddleHit
  <2>3. ASSUME NEW w \in Way, NEW w2 \in Way, w > 0 <=> b.vx > 0, w2 > 0 <=> b.vx > 0
        PROVE  FreeX(b.x + w, w2)
    BY <1>1, <1>2, <1>3, <1>4, <1>8, <2>1, <2>3, Sizes DEF FreeX, Way
  <2>4. ASSUME NEW w \in Way, NEW w2 \in Way, w > 0 <=> b.vy > 0, w2 > 0 <=> b.vy > 0
        PROVE  FreeY(b.y + w, w2) /\ CourtY(b.y + w, w)
    <3>1. (vy > 0 <=> w > 0) /\ (w > 0 <=> w2 > 0)
      BY <1>2, <1>4, <2>1, <2>4
    <3> QED
      BY <1>1, <1>2, <1>3, <1>4, <1>8, <2>1, <2>2, <3>1, FliesOn
  <2> HIDE DEF b
  <2> QED
    BY <1>1, <1>4, <1>5, <1>8, <1>9, <2>1, <2>3, <2>4 DEF SamePaddles
<1> QED
  BY <1>7, <1>10, <1>11, <1>12

-----------------------------------------------------------------------------
(* The queues of the frames *)

\* What is left over of frames in order is in order.
LEMMA SubsequenceInOrder ==
    ASSUME NEW p \in Seq(Nat), NEW q \in Seq(Nat), InOrder(p), NEW m \in [DOMAIN q -> DOMAIN p],
           \A i, j \in DOMAIN q : i < j => m[i] < m[j],
           \A i \in DOMAIN q : q[i] = p[m[i]]
    PROVE  InOrder(q)
  BY DEF InOrder

\* A distribution takes at least one frame and no more than there are.
LEMMA TakenInRange ==
    ASSUME NEW queue \in Seq(Nat), queue # <<>>
    PROVE  Taken(queue) \in 1..Len(queue)
  BY QueueAssumption DEF Taken

\* A feed that is full loses its oldest frame.
LEMMA PushedEntries ==
    ASSUME NEW feed \in Seq(Nat), NEW f \in Nat, Len(feed) <= FeedCap
    PROVE  \E lost \in 0..1 :
              /\ lost <= Len(feed) /\ Pushed(feed, f) \in Seq(Nat)
              /\ Len(Pushed(feed, f)) = Len(feed) - lost + 1
              /\ Len(Pushed(feed, f)) <= FeedCap
              /\ Pushed(feed, f)[Len(feed) - lost + 1] = f
              /\ \A i \in 1..(Len(feed) - lost) : Pushed(feed, f)[i] = feed[i + lost]
<1> USE QueueAssumption DEF Pushed
<1>1. CASE Len(feed) < FeedCap
  <2>1. /\ Append(feed, f) \in Seq(Nat) /\ Len(Append(feed, f)) = Len(feed) + 1
        /\ Append(feed, f)[Len(feed) + 1] = f
        /\ \A i \in 1..Len(feed) : Append(feed, f)[i] = feed[i]
    OBVIOUS
  <2>2. Pushed(feed, f) = Append(feed, f) /\ Len(feed) \in Nat
    BY <1>1
  <2> QED
    BY <1>1, <2>1, <2>2
<1>2. CASE ~(Len(feed) < FeedCap)
  <2>1. feed # <<>> /\ Len(feed) = FeedCap /\ Len(feed) \in Nat
    BY <1>2
  <2> DEFINE t == Tail(feed)
  <2>2. /\ t \in Seq(Nat) /\ Len(t) = Len(feed) - 1
        /\ \A i \in 1..Len(t) : t[i] = feed[i + 1]
    BY <2>1
  <2> HIDE DEF t
  <2>3. /\ Append(t, f) \in Seq(Nat) /\ Len(Append(t, f)) = Len(t) + 1
        /\ Append(t, f)[Len(t) + 1] = f /\ \A i \in 1..Len(t) : Append(t, f)[i] = t[i]
    BY <2>2
  <2>4. Pushed(feed, f) = Append(t, f)
    BY <1>2 DEF t
  <2> QED
    BY <2>1, <2>2, <2>3, <2>4
<1> QED
  BY <1>1, <1>2

\* What the distribution leaves on the queue comes after what it took.
LEMMA LeftEntries ==
    ASSUME NEW queue \in Seq(Nat), queue # <<>>
    PROVE  /\ Left(queue) \in Seq(Nat) /\ Len(Left(queue)) = Len(queue) - Taken(queue)
           /\ \A i \in 1..(Len(queue) - Taken(queue)) : Left(queue)[i] = queue[i + Taken(queue)]
<1> DEFINE k == Taken(queue)
<1>1. k \in 1..Len(queue)
  BY TakenInRange
<1> HIDE DEF k
<1>2. /\ SubSeq(queue, k + 1, Len(queue)) \in Seq(Nat)
      /\ Len(SubSeq(queue, k + 1, Len(queue))) = Len(queue) - k
      /\ \A i \in 1..(Len(queue) - k) : SubSeq(queue, k + 1, Len(queue))[i] = queue[i + k]
  BY <1>1
<1> QED
  BY <1>2 DEF Left, k

\* The pending frames are those of the feed and then those of the queue.
LEMMA Joined ==
    ASSUME NEW a \in Seq(Nat), NEW b \in Seq(Nat)
    PROVE  /\ Pending(b, a) \in Seq(Nat) /\ DOMAIN Pending(b, a) = 1..(Len(a) + Len(b))
           /\ \A i \in 1..Len(a) : Pending(b, a)[i] = a[i]
           /\ \A i \in 1..Len(b) : Pending(b, a)[Len(a) + i] = b[i]
           /\ Len(a) \in Nat /\ Len(b) \in Nat
  BY DEF Pending

\* Where a pending frame was before: l of the feed's L frames are lost, k of the queue's Q taken.
Place(i, L, l, k) == IF i <= L - l THEN i + l ELSE L + k + (i - (L - l) - 1)

PlacesKept(L, Q, l, k) ==
    /\ \A i \in 1..(L - l) : Place(i, L, l, k) = i + l /\ i + l \in 1..L
    /\ Place(L - l + 1, L, l, k) = L + k
    /\ \A h \in 1..(Q - k) : Place(L - l + 1 + h, L, l, k) = L + (h + k) /\ h + k \in 1..Q
    /\ \A i \in 1..(L - l + 1 + (Q - k)) :
          \/ i \in 1..(L - l)
          \/ i = L - l + 1
          \/ \E h \in 1..(Q - k) : i = L - l + 1 + h
    /\ \A i, j \in 1..(L - l + 1 + (Q - k)) : i < j => Place(i, L, l, k) < Place(j, L, l, k)

LEMMA Places ==
    ASSUME NEW L \in Nat, NEW Q \in Nat, NEW l \in Nat, l <= L, NEW k \in Nat, 1 <= k, k <= Q
    PROVE  PlacesKept(L, Q, l, k)
<1>1. ASSUME NEW i \in 1..(L - l + 1 + (Q - k))
      PROVE  \/ i \in 1..(L - l)
             \/ i = L - l + 1
             \/ \E h \in 1..(Q - k) : i = L - l + 1 + h
  <2>1. CASE i > L - l + 1
    <3>1. i - (L - l + 1) \in 1..(Q - k) /\ i = L - l + 1 + (i - (L - l + 1))
      BY <2>1
    <3> QED
      BY <3>1
  <2>2. CASE i <= L - l + 1
    BY <2>2
  <2> QED
    BY <2>1, <2>2
<1>2. \A i, j \in 1..(L - l + 1 + (Q - k)) : i < j => Place(i, L, l, k) < Place(j, L, l, k)
  BY DEF Place
<1>3. /\ \A i \in 1..(L - l) : Place(i, L, l, k) = i + l /\ i + l \in 1..L
      /\ Place(L - l + 1, L, l, k) = L + k
  BY DEF Place
<1>4. \A h \in 1..(Q - k) : Place(L - l + 1 + h, L, l, k) = L + (h + k) /\ h + k \in 1..Q
  BY DEF Place
<1> QED
  BY <1>1, <1>2, <1>3, <1>4 DEF PlacesKept

\* A distribution (distributeFrames of ponggame/game.go), with queues of any length and any
\* capacities, leaves the frames a stream has still to get in the order in which they were
\* produced, adds none, and leaves the newest frame it took at the end of the player's feed.
THEOREM DistributionTheorem ==
    \A queue, feed \in Seq(Nat) : Len(feed) <= FeedCap => DistributionInOrder(queue, feed)
<1> SUFFICES ASSUME NEW queue \in Seq(Nat), NEW feed \in Seq(Nat), Len(feed) <= FeedCap,
                    InOrder(Pending(queue, feed)), queue # <<>>
             PROVE  /\ InOrder(Pending(Left(queue), Distributed(queue, feed)))
                    /\ Len(Distributed(queue, feed)) <= FeedCap
                    /\ Newest(Distributed(queue, feed)) = queue[Taken(queue)]
                    /\ \A i \in DOMAIN Distributed(queue, feed) :
                          \E j \in DOMAIN Pending(queue, feed) :
                             Distributed(queue, feed)[i] = Pending(queue, feed)[j]
  BY DEF DistributionInOrder
<1> DEFINE k == Taken(queue)
           out == Distributed(queue, feed)
           left == Left(queue)
           old == Pending(queue, feed)
           new == Pending(left, out)
<1>1. k \in 1..Len(queue) /\ queue[k] \in Nat
  BY TakenInRange
<1>2. PICK lost \in 0..1 :
         /\ lost <= Len(feed) /\ out \in Seq(Nat) /\ Len(out) = Len(feed) - lost + 1
         /\ Len(out) <= FeedCap /\ out[Len(feed) - lost + 1] = queue[k]
         /\ \A i \in 1..(Len(feed) - lost) : out[i] = feed[i + lost]
  BY <1>1, PushedEntries DEF Distributed
<1>3. /\ left \in Seq(Nat) /\ Len(left) = Len(queue) - k
      /\ \A i \in 1..(Len(queue) - k) : left[i] = queue[i + k]
  BY LeftEntries
<1>4. /\ old \in Seq(Nat) /\ DOMAIN old = 1..(Len(feed) + Len(queue))
      /\ \A i \in 1..Len(feed) : old[i] = feed[i]
      /\ \A i \in 1..Len(queue) : old[Len(feed) + i] = queue[i]
      /\ Len(feed) \in Nat /\ Len(queue) \in Nat
  BY Joined
<1> HIDE DEF out, left
<1>5. /\ new \in Seq(Nat) /\ DOMAIN new = 1..(Len(out) + Len(left))
      /\ \A i \in 1..Len(out) : new[i] = out[i]
      /\ \A i \in 1..Len(left) : new[Len(out) + i] = left[i]
  BY <1>2, <1>3, Joined
<1> HIDE DEF k, old, new
\* Each pending frame was pending before, at this place.
<1> DEFINE n == Len(feed) - lost
           m == [i \in DOMAIN new |-> Place(i, Len(feed), lost, k)]
<1>6. /\ n \in Nat /\ n + lost = Len(feed) /\ n = Len(feed) - lost /\ Len(out) = n + 1
      /\ lost \in Nat /\ lost <= 1 /\ Len(feed) \in Nat /\ Len(queue) \in Nat
      /\ k \in Nat /\ 1 <= k /\ k <= Len(queue)
  <2>1. Len(feed) \in Nat /\ Len(queue) \in Nat
    OBVIOUS
  <2>2. k \in Nat /\ 1 <= k /\ k <= Len(queue)
    BY <1>1, <2>1
  <2>3. lost \in Nat /\ lost <= 1 /\ lost <= Len(feed) /\ Len(out) = n + 1
    BY <1>2
  <2> QED
    BY <2>1, <2>2, <2>3
<1>p. /\ \A i \in 1..n : Place(i, Len(feed), lost, k) = i + lost /\ i + lost \in 1..Len(feed)
      /\ Place(n + 1, Len(feed), lost, k) = Len(feed) + k
      /\ \A h \in 1..(Len(queue) - k) :
            Place(n + 1 + h, Len(feed), lost, k) = Len(feed) + (h + k) /\ h + k \in 1..Len(queue)
      /\ \A i \in 1..(n + 1 + (Len(queue) - k)) :
            i \in 1..n \/ i = n + 1 \/ \E h \in 1..(Len(queue) - k) : i = n + 1 + h
      /\ \A i, j \in 1..(n + 1 + (Len(queue) - k)) :
            i < j => Place(i, Len(feed), lost, k) < Place(j, Len(feed), lost, k)
  <2> HIDE DEF m
  <2>1. lost <= Len(feed)
    BY <1>2
  <2>2. PlacesKept(Len(feed), Len(queue), lost, k)
    BY <1>6, <2>1, Places
  <2> QED
    BY <2>2 DEF PlacesKept
<1> HIDE DEF n
<1>d. DOMAIN new = 1..(n + 1 + (Len(queue) - k))
  BY <1>3, <1>5, <1>6
<1>7. ASSUME NEW i \in DOMAIN new PROVE m[i] \in DOMAIN old /\ new[i] = old[m[i]]
  <2>0. m[i] = Place(i, Len(feed), lost, k)
    OBVIOUS
  <2> HIDE DEF m
  <2>1. CASE i \in 1..n
    <3>1. m[i] = i + lost /\ i + lost \in 1..Len(feed)
      BY <1>p, <2>0, <2>1
    <3>2. i \in 1..Len(out) /\ i \in 1..(Len(feed) - lost)
      BY <1>6, <2>1
    <3>3. new[i] = feed[i + lost]
      BY <1>2, <1>5, <3>2
    <3>4. i + lost \in DOMAIN old
      BY <1>4, <3>1
    <3> QED
      BY <1>4, <3>1, <3>3, <3>4
  <2>2. CASE i = n + 1
    <3>1. m[i] = Len(feed) + k
      BY <1>p, <2>0, <2>2
    <3>2. i \in 1..Len(out) /\ i = Len(feed) - lost + 1
      BY <1>6, <2>2
    <3>3. new[i] = queue[k]
      BY <1>2, <1>5, <3>2
    <3>4. Len(feed) + k \in DOMAIN old
      BY <1>4, <1>6
    <3> QED
      BY <1>1, <1>4, <3>1, <3>3, <3>4
  <2>3. ASSUME NEW h \in 1..(Len(queue) - k), i = n + 1 + h
        PROVE  m[i] \in DOMAIN old /\ new[i] = old[m[i]]
    <3>1. m[i] = Len(feed) + (h + k) /\ h + k \in 1..Len(queue)
      BY <1>p, <2>0, <2>3
    <3>2. new[i] = queue[h + k]
      BY <1>3, <1>5, <1>6, <2>3
    <3>3. Len(feed) + (h + k) \in DOMAIN old
      BY <1>4, <3>1
    <3> QED
      BY <1>4, <3>1, <3>2, <3>3
  <2> QED
    BY <1>d, <1>p, <2>1, <2>2, <2>3
<1>8. \A i, j \in DOMAIN new : i < j => m[i] < m[j]
  <2>1. \A i \in DOMAIN new : m[i] = Place(i, Len(feed), lost, k)
    OBVIOUS
  <2> HIDE DEF m
  <2> QED
    BY <1>d, <1>p, <2>1
<1>9. InOrder(new)
  <2>1. m \in [DOMAIN new -> DOMAIN old]
    BY <1>7
  <2> HIDE DEF m
  <2>2. InOrder(old)
    BY DEF old
  <2> QED
    BY <1>4, <1>5, <1>7, <1>8, <2>1, <2>2, SubsequenceInOrder
<1>10. Newest(out) = queue[k]
  BY <1>2, <1>6 DEF Newest
<1>11. ASSUME NEW i \in DOMAIN out PROVE \E j \in DOMAIN old : out[i] = old[j]
  <2>1. i \in 1..Len(out) /\ i \in DOMAIN new
    <3>1. i \in 1..Len(out)
      BY <1>2, SMTT(30)
    <3>2. Len(left) \in Nat /\ Len(out) \in Nat
      BY <1>2, <1>3
    <3> QED
      BY <1>5, <3>1, <3>2
  <2> QED
    BY <1>5, <1>7, <2>1
<1> QED
  BY <1>2, <1>9, <1>10, <1>11 DEF k, out, left, old, new

\* A tick of the engine (NewRound of ponggame/engine.go) puts its frame after every pending
\* one or drops it, whatever the queues hold, and never fills the queue beyond its capacity.
THEOREM ProductionTheorem ==
    \A queue, feed \in Seq(Nat), f \in Nat : ProductionInOrder(queue, feed, f)
<1> SUFFICES ASSUME NEW queue \in Seq(Nat), NEW feed \in Seq(Nat), NEW f \in Nat,
                    InOrder(Pending(queue, feed)), Len(queue) <= QueueCap,
                    \A i \in DOMAIN Pending(queue, feed) : Pending(queue, feed)[i] < f
             PROVE  /\ InOrder(Pending(Produced(queue, f), feed))
                    /\ Len(Produced(queue, f)) <= QueueCap
  BY DEF ProductionInOrder
<1>1. CASE Len(queue) < QueueCap
  <2> DEFINE q == Append(queue, f)
             old == Pending(queue, feed)
             new == Pending(q, feed)
             n == Len(feed) + Len(queue)
  <2>1. /\ q \in Seq(Nat) /\ Len(q) = Len(queue) + 1 /\ q[Len(queue) + 1] = f
        /\ \A i \in 1..Len(queue) : q[i] = queue[i]
    OBVIOUS
  <2>2. /\ old \in Seq(Nat) /\ DOMAIN old = 1..n
        /\ \A i \in 1..Len(feed) : old[i] = feed[i]
        /\ \A i \in 1..Len(queue) : old[Len(feed) + i] = queue[i]
        /\ Len(feed) \in Nat /\ Len(queue) \in Nat
    BY Joined
  <2> HIDE DEF q
  <2>3. /\ new \in Seq(Nat) /\ DOMAIN new = 1..(Len(feed) + Len(q))
        /\ \A i \in 1..Len(feed) : new[i] = feed[i]
        /\ \A i \in 1..Len(q) : new[Len(feed) + i] = q[i]
    BY <2>1, Joined
  <2> HIDE DEF old, new
  <2>4. n \in Nat /\ DOMAIN new = 1..(n + 1)
    BY <2>1, <2>2, <2>3
  <2>5. new[n + 1] = f
    <3>1. Len(queue) + 1 \in 1..Len(q) /\ Len(feed) + (Len(queue) + 1) = n + 1
      BY <2>1, <2>2
    <3> QED
      BY <2>1, <2>3, <3>1
  <2>6. ASSUME NEW i \in 1..n PROVE new[i] = old[i]
    <3>1. CASE i \in 1..Len(feed)
      BY <2>2, <2>3, <3>1
    <3>2. CASE i \notin 1..Len(feed)
      <4> DEFINE h == i - Len(feed)
      <4>1. h \in 1..Len(queue) /\ h \in 1..Len(q) /\ i = Len(feed) + h
        BY <2>1, <2>2, <2>6, <3>2
      <4> HIDE DEF h
      <4> QED
        BY <2>1, <2>2, <2>3, <4>1
    <3> QED
      BY <3>1, <3>2
  <2>7. ASSUME NEW i \in 1..(n + 1), NEW j \in 1..(n + 1), i < j PROVE new[i] < new[j]
    <3>1. i \in 1..n
      BY <2>4, <2>7
    <3>2. CASE j = n + 1
      BY <2>2, <2>5, <2>6, <3>1, <3>2 DEF old
    <3>3. CASE j # n + 1
      <4>1. j \in 1..n
        <5> HIDE DEF n
        <5> QED
          BY <2>4, <2>7, <3>3
      <4> QED
        BY <2>2, <2>6, <2>7, <3>1, <4>1 DEF InOrder, old
    <3> QED
      BY <3>2, <3>3
  <2>8. InOrder(new)
    BY <2>4, <2>7 DEF InOrder
  <2> QED
    BY <1>1, <2>1, <2>2, <2>8, QueueAssumption DEF Produced, q, new
<1>2. CASE ~(Len(queue) < QueueCap)
  BY <1>2 DEF Produced
<1> QED
  BY <1>1, <1>2
=============================================================================
