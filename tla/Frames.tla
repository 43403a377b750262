-------------------------------- MODULE Frames --------------------------------
(***************************************************************************)
(* The queues between the engine and a player's stream: Framesch, which      *)
(* refuses a frame when it is full, and the FrameCh of a player, which loses *)
(* its oldest (NewRound of ponggame/engine.go, distributeFrames of           *)
(* ponggame/game.go, sendGameUpdates of server/server.go); and the input     *)
(* queue of HandlePlayerInput, which is filled like a FrameCh.  A frame is   *)
(* named by the tick that produced it.                                       *)
(*                                                                          *)
(* A step of each side is one function of the queues: each has one sender,   *)
(* and what its reader takes in between only makes room.                     *)
(***************************************************************************)
EXTENDS Naturals, Sequences

CONSTANTS
    QueueCap,  \* capacity of Framesch (512)
    FeedCap,   \* capacity of a FrameCh (128)
    DrainMax   \* how many queued frames a distribution skips (8)

ASSUME QueueAssumption == QueueCap \in Nat \ {0} /\ FeedCap \in Nat \ {0} /\ DrainMax \in Nat

Newest(q) == q[Len(q)]

\* NewRound: a frame that does not fit is dropped.
Produced(queue, f) == IF Len(queue) < QueueCap THEN Append(queue, f) ELSE queue

\* distributeFrames and HandlePlayerInput: the oldest entry makes room for the new one.
Pushed(feed, f) == Append(IF Len(feed) < FeedCap THEN feed ELSE Tail(feed), f)

\* The frames one distribution takes off the queue.
Taken(queue) == IF Len(queue) <= DrainMax THEN Len(queue) ELSE DrainMax + 1

\* Mutant: the newest of them stays in the queue.
LeftShort(queue) == SubSeq(queue, Taken(queue), Len(queue))

Left(queue) == SubSeq(queue, Taken(queue) + 1, Len(queue))

Distributed(queue, feed) == Pushed(feed, queue[Taken(queue)])

-----------------------------------------------------------------------------
(* Properties *)

InOrder(s) == \A i, j \in DOMAIN s : i < j => s[i] < s[j]

\* The frames a stream has still to get, in the order in which it may get them.
Pending(queue, feed) == feed \o queue

\* What is shown never goes back: a distribution leaves the pending frames in order
\* and adds none, so the next frame shown is newer than any shown before; and the feed
\* ends with the newest frame taken, however far its reader is behind.
DistributionInOrder(queue, feed) ==
    InOrder(Pending(queue, feed)) /\ queue # <<>> =>
        LET out == Distributed(queue, feed) IN
        /\ InOrder(Pending(Left(queue), out))
        /\ Len(out) <= FeedCap
        /\ Newest(out) = queue[Taken(queue)]
        /\ \A i \in DOMAIN out : \E j \in DOMAIN Pending(queue, feed) : out[i] = Pending(queue, feed)[j]

\* The producer never blocks and never reorders: a frame is the newest or is dropped.
ProductionInOrder(queue, feed, f) ==
    /\ InOrder(Pending(queue, feed)) /\ Len(queue) <= QueueCap
    /\ \A i \in DOMAIN Pending(queue, feed) : Pending(queue, feed)[i] < f
    => /\ InOrder(Pending(Produced(queue, f), feed))
       /\ Len(Produced(queue, f)) <= QueueCap
=============================================================================
