----------------------------- MODULE LobbyProofs -----------------------------
(***************************************************************************)
(* Type correctness of the lobby, and that readiness, managers and back    *)
(* references are what their users take them for, for any number of        *)
(* players, rooms, handlers and games.                                     *)
(***************************************************************************)
EXTENDS Lobby, SequenceLemmas, SequenceTheorems

-----------------------------------------------------------------------------
(* Lemmas about the slices of players *)

\* The array in use and the players of a room.
LEMMA MembersType ==
    ASSUME RoomTypeOK, NEW r \in Rooms
    PROVE  /\ arrays[r] # <<>> =>
                /\ Len(arrays[r]) \in Nat \ {0}
                /\ Last(arrays[r]) \in Seq(Players)
                /\ size[r] \in 0 .. Len(Last(arrays[r]))
           /\ Members(r) \in Seq(Players)
           /\ Len(Members(r)) = size[r]
           /\ Range(Members(r)) \subseteq Players
<1>1. /\ arrays[r] \in Seq(Seq(Players)) /\ size[r] \in Nat
      /\ size[r] <= IF arrays[r] = <<>> THEN 0 ELSE Len(Last(arrays[r]))
  BY DEF RoomTypeOK
<1>2. CASE arrays[r] = <<>>
  BY <1>1, <1>2 DEF Members, Range
<1>3. CASE arrays[r] # <<>>
  <2>1. Len(arrays[r]) \in Nat \ {0} /\ Last(arrays[r]) \in Seq(Players)
    BY <1>1, <1>3 DEF Last
  <2>2. size[r] \in 0 .. Len(Last(arrays[r]))
    BY <1>1, <1>3, <2>1
  <2> DEFINE a == Last(arrays[r])
  <2>3. Members(r) = SubSeq(a, 1, size[r])
    BY <1>3 DEF Members
  <2> HIDE DEF a
  <2>4. a \in Seq(Players) /\ size[r] \in 0 .. Len(a)
    BY <2>1, <2>2 DEF a
  <2>5. SubSeq(a, 1, size[r]) \in Seq(Players) /\ Len(SubSeq(a, 1, size[r])) = size[r]
    BY <2>4
  <2> QED
    BY <1>3, <2>1, <2>2, <2>3, <2>5 DEF Range
<1> QED
  BY <1>2, <1>3

\* The player at any place of a slice is one of its players.
LEMMA SliceElements ==
    ASSUME NEW a \in Seq(Players), NEW n \in 0 .. Len(a)
    PROVE  Range(SubSeq(a, 1, n)) = {a[i] : i \in 1 .. n}
<1>1. /\ Len(SubSeq(a, 1, n)) = n
      /\ \A i \in 1 .. n : SubSeq(a, 1, n)[i] = a[i]
      /\ SubSeq(a, 1, n) \in Seq(Players)
  OBVIOUS
<1>2. DOMAIN SubSeq(a, 1, n) = 1 .. n
  BY <1>1
<1> QED
  BY <1>1, <1>2 DEF Range

\* A removed player leaves an array of players of the same length.
LEMMA WithoutType ==
    ASSUME NEW a \in Seq(Players), NEW n \in 0 .. Len(a), NEW p
    PROVE  Without(a, n, p) \in Seq(Players) /\ Len(Without(a, n, p)) = Len(a)
<1> DEFINE i == CHOOSE j \in 1 .. n : a[j] = p
           w == [j \in 1 .. Len(a) |-> IF i <= j /\ j < n THEN a[j + 1] ELSE a[j]]
<1>1. Without(a, n, p) = w
  BY DEF Without
<1> HIDE DEF i
<1>2. \A j \in 1 .. Len(a) : w[j] \in Players
  OBVIOUS
<1>3. w \in Seq(Players) /\ Len(w) = Len(a)
  BY <1>2
<1> QED
  BY <1>1, <1>3

\* So does the loop that empties a room.
LEMMA EmptiedType ==
    ASSUME NEW a \in Seq(Players), NEW n \in 0 .. Len(a)
    PROVE  /\ Emptied(a, n) \in Seq(Players)
           /\ Len(Emptied(a, n)) = Len(a)
           /\ Missed(n) \in 0 .. n
<1> DEFINE w == [k \in 1 .. Len(a) |->
                    IF k <= n THEN a[IF 2 * k <= n THEN 2 * k ELSE n] ELSE a[k]]
<1>1. Emptied(a, n) = w
  BY DEF Emptied
<1>2. \A k \in 1 .. Len(a) : w[k] \in Players
  OBVIOUS
<1>3. w \in Seq(Players) /\ Len(w) = Len(a)
  BY <1>2
<1>4. Missed(n) \in 0 .. n
  BY DEF Missed
<1> QED
  BY <1>1, <1>3, <1>4

\* A room whose slice is replaced within its array keeps the rooms' types.
LEMMA SetMembersType ==
    ASSUME RoomTypeOK, NEW r \in Rooms, arrays[r] # <<>>, NEW a \in Seq(Players),
           NEW n \in 0 .. Len(a), SetMembers(r, a, n)
    PROVE  /\ arrays' \in [Rooms -> Seq(Seq(Players))]
           /\ size' \in [Rooms -> Nat]
           /\ \A q \in Rooms : size'[q] <= IF arrays'[q] = <<>> THEN 0 ELSE Len(Last(arrays'[q]))
           /\ wr' \in [Players -> Rooms \cup {None}]
           /\ arrays'[r] # <<>> /\ Last(arrays'[r]) = a /\ size'[r] = n
           /\ \A q \in Rooms \ {r} : arrays'[q] = arrays[q] /\ size'[q] = size[q]
<1> DEFINE k == Len(arrays[r])
           s == [arrays[r] EXCEPT ![k] = a]
<1>1. arrays[r] \in Seq(Seq(Players)) /\ k \in 1 .. Len(arrays[r])
  BY MembersType DEF RoomTypeOK
<1>2. s \in Seq(Seq(Players)) /\ Len(s) = k /\ s[k] = a
  BY <1>1, ExceptSeq
<1>3. s # <<>> /\ Last(s) = a
  BY <1>1, <1>2 DEF Last
<1>4. arrays' = [arrays EXCEPT ![r] = s] /\ size' = [size EXCEPT ![r] = n]
  BY DEF SetMembers
<1>5. arrays \in [Rooms -> Seq(Seq(Players))] /\ size \in [Rooms -> Nat]
      /\ \A q \in Rooms : size[q] <= IF arrays[q] = <<>> THEN 0 ELSE Len(Last(arrays[q]))
  BY DEF RoomTypeOK
<1>6. n \in Nat /\ n <= Len(a)
  OBVIOUS
<1>7. wr' \in [Players -> Rooms \cup {None}]
  BY DEF SetMembers, RoomTypeOK
<1> HIDE DEF s
<1> QED
  BY <1>2, <1>3, <1>4, <1>5, <1>6, <1>7

\* AddPlayer keeps the types and the players, and its player is in.
LEMMA AddPlayerType ==
    ASSUME RoomTypeOK, NEW r \in Rooms, arrays[r] # <<>>, NEW p \in Players, AddPlayer(r, p)
    PROVE  /\ arrays' \in [Rooms -> Seq(Seq(Players))]
           /\ size' \in [Rooms -> Nat]
           /\ \A q \in Rooms : size'[q] <= IF arrays'[q] = <<>> THEN 0 ELSE Len(Last(arrays'[q]))
           /\ \A q \in Rooms \ {r} : arrays'[q] = arrays[q] /\ size'[q] = size[q]
           /\ Range(Members(r)) \cup {p} \subseteq Range(Members(r)')
<1>0. /\ arrays \in [Rooms -> Seq(Seq(Players))] /\ size \in [Rooms -> Nat]
      /\ \A q \in Rooms : size[q] <= IF arrays[q] = <<>> THEN 0 ELSE Len(Last(arrays[q]))
  BY DEF RoomTypeOK
<1>1. CASE p \in Range(Members(r))
  BY <1>0, <1>1 DEF AddPlayer, Members
<1>2. CASE p \notin Range(Members(r))
  <2> DEFINE n == size[r]
             a == Last(arrays[r])
             full == 2 ^ (Len(arrays[r]) - 1)
             c == Append(Members(r), p)
             b == IF n < Len(a) THEN [a EXCEPT ![n + 1] = p] ELSE Append(a, p)
             s == [arrays[r] EXCEPT ![Len(arrays[r])] = b]
             w == Append(arrays[r], c)
             t == IF n < full THEN s ELSE w
             d == IF n < full THEN b ELSE c
  <2>1. a \in Seq(Players) /\ n \in 0 .. Len(a) /\ n \in Nat
    BY <1>0, MembersType
  <2>3. Members(r) = SubSeq(a, 1, n)
    BY DEF Members
  <2>4. size' = [size EXCEPT ![r] = n + 1]
    BY <1>2 DEF AddPlayer
  <2>5. arrays' = [arrays EXCEPT ![r] = t]
    BY <1>2, Zenon DEF AddPlayer
  <2> HIDE DEF n, a, full
  <2> HIDE DEF b, c
  <2>6. /\ c \in Seq(Players) /\ Len(c) = n + 1 /\ b \in Seq(Players) /\ Len(b) >= n + 1
        /\ \A i \in 1 .. n : c[i] = a[i] /\ b[i] = a[i]
        /\ c[n + 1] = p /\ b[n + 1] = p
    <3>1. /\ b \in Seq(Players) /\ Len(b) >= n + 1
          /\ \A i \in 1 .. n : b[i] = a[i]
          /\ b[n + 1] = p
      <4>1. b = IF n < Len(a) THEN [a EXCEPT ![n + 1] = p] ELSE Append(a, p)
        BY DEF b
      <4> QED
        BY <2>1, <4>1, WriteInPlace
    <3>2. /\ c \in Seq(Players) /\ Len(c) = n + 1
          /\ \A i \in 1 .. n : c[i] = a[i]
          /\ c[n + 1] = p
      <4>1. c = Append(SubSeq(a, 1, n), p)
        BY <2>3 DEF c
      <4> QED
        BY <2>1, <4>1, WriteToCopy
    <3> QED
      BY <3>1, <3>2
  <2>7. /\ s \in Seq(Seq(Players)) /\ s # <<>> /\ Last(s) = b
        /\ w \in Seq(Seq(Players)) /\ w # <<>> /\ Last(w) = c
    <3>1. b \in Seq(Players) /\ c \in Seq(Players) /\ arrays[r] \in Seq(Seq(Players))
      BY <1>0, <2>6
    <3>2. \A q \in Seq(Seq(Players)) : q # <<>> => \A e \in Seq(Players) :
             /\ [q EXCEPT ![Len(q)] = e] \in Seq(Seq(Players))
             /\ [q EXCEPT ![Len(q)] = e] # <<>> /\ Last([q EXCEPT ![Len(q)] = e]) = e
             /\ Append(q, e) \in Seq(Seq(Players)) /\ Append(q, e) # <<>>
             /\ Last(Append(q, e)) = e
      BY LastArray
    <3> QED
      BY <3>1, <3>2, Zenon
  <2> HIDE DEF s, w
  <2>8. /\ t \in Seq(Seq(Players)) /\ t # <<>> /\ Last(t) = d
        /\ d \in Seq(Players) /\ Len(d) >= n + 1
        /\ \A i \in 1 .. n : d[i] = a[i]
        /\ d[n + 1] = p
    <3>1. CASE n < full
      BY <2>6, <2>7, <3>1
    <3>2. CASE ~(n < full)
      BY <2>1, <2>6, <2>7, <3>2
    <3> QED
      BY <3>1, <3>2
  <2> HIDE DEF t, d
  <2>9. arrays'[r] = t /\ size'[r] = n + 1
    BY <1>0, <2>4, <2>5
  <2>10. Members(r)' = SubSeq(d, 1, n + 1)
    BY <2>8, <2>9 DEF Members
  <2>11. n + 1 \in 0 .. Len(d)
    BY <2>1, <2>8
  <2>12. Range(Members(r)') = {d[i] : i \in 1 .. n + 1}
    BY <2>8, <2>10, <2>11, SliceElements
  <2>13. Range(Members(r)) = {a[i] : i \in 1 .. n}
    BY <2>1, <2>3, SliceElements
  <2>14. Range(Members(r)) \cup {p} \subseteq Range(Members(r)')
    <3>1. n + 1 \in 1 .. n + 1 /\ \A i \in 1 .. n : i \in 1 .. n + 1
      BY <2>1
    <3>2. p \in {d[i] : i \in 1 .. n + 1}
      BY <2>8, <3>1
    <3>3. {a[i] : i \in 1 .. n} \subseteq {d[i] : i \in 1 .. n + 1}
      BY <2>8, <3>1
    <3> QED
      BY <2>12, <2>13, <3>2, <3>3
  <2>15. \A q \in Rooms \ {r} : arrays'[q] = arrays[q] /\ size'[q] = size[q]
    BY <1>0, <2>4, <2>5
  <2>16. arrays' \in [Rooms -> Seq(Seq(Players))] /\ size' \in [Rooms -> Nat]
    BY <1>0, <2>1, <2>4, <2>5, <2>8
  <2>17. \A q \in Rooms : size'[q] <= IF arrays'[q] = <<>> THEN 0 ELSE Len(Last(arrays'[q]))
    BY <1>0, <2>1, <2>8, <2>9, <2>15
  <2> QED
    BY <2>14, <2>15, <2>16, <2>17
<1> QED
  BY <1>1, <1>2
-----------------------------------------------------------------------------
(* Which actions change which variables *)

\* The actions that change a room.
LEMMA RoomSteps ==
    ASSUME Next
    PROVE  \/ \E p \in Players, r \in Rooms :
                 CreateWaitingRoom(p, r) \/ JoinFinds(p, r) \/ LeaveWaitingRoom(p, r)
           \/ \E p \in Players : JoinAdds(p) \/ JoinRefers(p)
           \/ \E g \in Games : ReadyTimeout(g) \/ ResetPlayers(g) \/ RemoveRoom(g)
           \/ UNCHANGED roomVars
<1>1. CASE ClientStep
  BY <1>1 DEF ClientStep, RefuseGameStream, UnreadyGameStream, StartGameStream, ClientCloses
<1>2. CASE HandlerStep
  BY <1>2 DEF HandlerStep, EndGameStream
<1>3. CASE RunStep
  BY <1>3 DEF RunStep, SignalCreated, RunReceives, RunScans, ManagerCancelled, ManagerStarts,
              ManagerReturns
<1>4. CASE \E g \in Games : GameStep(g) \/ GameEvent(g)
  BY <1>4 DEF GameStep, GameEvent, Launch, Distribute, DistributorGone, SenderStops, GameEnds,
              GameWon, SendFails
<1> QED
  BY <1>1, <1>2, <1>3, <1>4 DEF Next

\* The actions that change what Run and the managers know.
LEMMA RunSteps ==
    ASSUME Next
    PROVE  \/ \E p \in Players, r \in Rooms : CreateWaitingRoom(p, r)
           \/ \E r \in Rooms : SignalCreated(r)
           \/ RunReceives
           \/ RunScans
           \/ \E r \in Rooms : ManagerCancelled(r) \/ \E g \in Games : ManagerStarts(r, g)
           \/ UNCHANGED runVars
<1>1. CASE ClientStep
  BY <1>1 DEF ClientStep, JoinFinds, LeaveWaitingRoom, RefuseGameStream, UnreadyGameStream,
              StartGameStream, ClientCloses
<1>2. CASE HandlerStep
  BY <1>2 DEF HandlerStep, EndGameStream, JoinAdds, JoinRefers
<1>3. CASE RunStep
  BY <1>3 DEF RunStep
<1>4. CASE \E g \in Games : GameStep(g) \/ GameEvent(g)
  BY <1>4 DEF GameStep, GameEvent, Launch, Distribute, DistributorGone, SenderStops, GameEnds,
              GameWon, SendFails, ResetPlayers, RemoveRoom, ReadyTimeout
<1> QED
  BY <1>1, <1>2, <1>3, <1>4 DEF Next

\* The actions that change a game stream or the readiness of a player.
LEMMA StreamSteps ==
    ASSUME Next
    PROVE  \/ \E p \in Players, r \in Rooms : LeaveWaitingRoom(p, r)
           \/ \E p \in Players : RefuseGameStream(p) \/ UnreadyGameStream(p)
           \/ \E h \in Streams : StartGameStream(h) \/ ClientCloses(h) \/ EndGameStream(h)
           \/ \E g \in Games : GameEnds(g) \/ ResetPlayers(g)
           \/ UNCHANGED streamVars
<1>1. CASE ClientStep
  BY <1>1 DEF ClientStep, CreateWaitingRoom, JoinFinds
<1>2. CASE HandlerStep
  BY <1>2 DEF HandlerStep, JoinAdds, JoinRefers
<1>3. CASE RunStep
  BY <1>3 DEF RunStep, SignalCreated, RunReceives, RunScans, ManagerCancelled, ManagerStarts,
              ManagerReturns
<1>4. CASE \E g \in Games : GameStep(g) \/ GameEvent(g)
  BY <1>4 DEF GameStep, GameEvent, Launch, Distribute, DistributorGone, SenderStops, GameWon,
              SendFails, RemoveRoom, ReadyTimeout
<1> QED
  BY <1>1, <1>2, <1>3, <1>4 DEF Next

\* The actions that change a game.
LEMMA GameSteps ==
    ASSUME Next
    PROVE  \/ \E r \in Rooms : ManagerCancelled(r) \/ \E g \in Games : ManagerStarts(r, g)
           \/ \E g \in Games : GameStep(g) \/ GameWon(g) \/ \E p \in Players : SendFails(g, p)
           \/ UNCHANGED gameVars
<1>1. CASE ClientStep
  BY <1>1 DEF ClientStep, CreateWaitingRoom, JoinFinds, LeaveWaitingRoom, RefuseGameStream,
              UnreadyGameStream, StartGameStream, ClientCloses
<1>2. CASE HandlerStep
  BY <1>2 DEF HandlerStep, JoinAdds, JoinRefers, EndGameStream
<1>3. CASE RunStep
  BY <1>3 DEF RunStep, SignalCreated, RunReceives, RunScans
<1>4. CASE \E g \in Games : GameStep(g) \/ GameEvent(g)
  BY <1>4 DEF GameEvent, ReadyTimeout
<1> QED
  BY <1>1, <1>2, <1>3, <1>4 DEF Next

\* The actions that history remembers.
LEMMA HistorySteps ==
    ASSUME Next
    PROVE  \/ \E p \in Players, r \in Rooms : LeaveWaitingRoom(p, r)
           \/ \E g \in Games : Launch(g) \/ RemoveRoom(g)
           \/ UNCHANGED historyVars
<1>1. CASE ClientStep
  BY <1>1 DEF ClientStep, CreateWaitingRoom, JoinFinds, RefuseGameStream, UnreadyGameStream,
              StartGameStream, ClientCloses
<1>2. CASE HandlerStep
  BY <1>2 DEF HandlerStep, JoinAdds, JoinRefers, EndGameStream
<1>3. CASE RunStep
  BY <1>3 DEF RunStep, SignalCreated, RunReceives, RunScans, ManagerCancelled, ManagerStarts,
              ManagerReturns
<1>4. CASE \E g \in Games : GameStep(g) \/ GameEvent(g)
  BY <1>4 DEF GameStep, GameEvent, Distribute, DistributorGone, SenderStops, GameEnds, GameWon,
              SendFails, ResetPlayers, ReadyTimeout
<1> QED
  BY <1>1, <1>2, <1>3, <1>4 DEF Next

-----------------------------------------------------------------------------
(* Readiness *)

\* The types of the stream variables are kept by every action.
LEMMA StreamTypesKept ==
    ASSUME StreamTypeOK, [Next]_vars
    PROVE  StreamTypeOK'
<1>1. CASE UNCHANGED streamVars
  BY <1>1 DEF StreamTypeOK, streamVars
<1>2. ASSUME NEW P, stream' = CancelStreams(P)
      PROVE  stream' \in [Streams -> StreamState]
  BY <1>2 DEF CancelStreams, StreamTypeOK, StreamState
<1>3. ASSUME NEW p \in Players, NEW r \in Rooms, LeaveWaitingRoom(p, r) PROVE StreamTypeOK'
  BY <1>2, <1>3 DEF LeaveWaitingRoom, StreamTypeOK
<1>4. ASSUME NEW p \in Players, RefuseGameStream(p) PROVE StreamTypeOK'
  BY <1>4 DEF RefuseGameStream, StreamTypeOK
<1>5. ASSUME NEW p \in Players, UnreadyGameStream(p) PROVE StreamTypeOK'
  BY <1>2, <1>5 DEF UnreadyGameStream, StreamTypeOK
<1>6. ASSUME NEW h \in Streams, StartGameStream(h) PROVE StreamTypeOK'
  BY <1>6, CallerAssumption DEF StartGameStream, StreamTypeOK, StreamState
<1>7. ASSUME NEW h \in Streams, ClientCloses(h) PROVE StreamTypeOK'
  BY <1>7 DEF ClientCloses, StreamTypeOK, StreamState
<1>8. ASSUME NEW h \in Streams, EndGameStream(h) PROVE StreamTypeOK'
  BY <1>8, CallerAssumption DEF EndGameStream, ReadyAfter, StreamTypeOK, StreamState
<1>9. ASSUME NEW g \in Games, GameEnds(g) PROVE StreamTypeOK'
  BY <1>2, <1>9 DEF GameEnds, StreamTypeOK
<1>10. ASSUME NEW g \in Games, ResetPlayers(g) PROVE StreamTypeOK'
  BY <1>10 DEF ResetPlayers, StreamTypeOK
<1> QED
  BY <1>1, <1>3, <1>4, <1>5, <1>6, <1>7, <1>8, <1>9, <1>10, StreamSteps DEF vars

\* Cancelling streams leaves every handler that was at work at work.
LEMMA CancelledStillOpen ==
    ASSUME NEW P, NEW h \in Streams, stream[h] # "idle", stream' = CancelStreams(P)
    PROVE  stream'[h] # "idle"
BY DEF CancelStreams

\* game.go:205 "no zombie readiness": only a handler that is at work makes its
\* player ready, and when it returns, it takes the readiness back.
THEOREM ReadinessHasAHandler == Spec => []ReadyHasStream
<1> DEFINE ReadyInv == StreamTypeOK /\ ReadyHasStream
<1>1. Init => ReadyInv
  BY DEF Init, StreamTypeOK, StreamState, ReadyHasStream
<1>2. ReadyInv /\ [Next]_vars => ReadyInv'
  <2> SUFFICES ASSUME ReadyInv, [Next]_vars
               PROVE  ReadyHasStream'
    BY StreamTypesKept
  <2>0. /\ \A p \in ready : \E h \in Streams : stream[h] # "idle" /\ CallerOf[h] = p
        /\ stream \in [Streams -> StreamState]
    BY DEF ReadyHasStream, StreamTypeOK
  <2>1. ASSUME ready' \subseteq ready, NEW P, stream' = CancelStreams(P)
        PROVE  ReadyHasStream'
    BY <2>0, <2>1, CancelledStillOpen DEF ReadyHasStream
  <2>2. ASSUME ready' \subseteq ready, UNCHANGED stream
        PROVE  ReadyHasStream'
    BY <2>0, <2>2 DEF ReadyHasStream
  <2>3. ASSUME NEW p \in Players, NEW r \in Rooms, LeaveWaitingRoom(p, r)
        PROVE  ReadyHasStream'
    BY <2>1, <2>3 DEF LeaveWaitingRoom
  <2>4. ASSUME NEW p \in Players, RefuseGameStream(p) \/ UnreadyGameStream(p)
        PROVE  ReadyHasStream'
    BY <2>1, <2>2, <2>4 DEF RefuseGameStream, UnreadyGameStream
  <2>5. ASSUME NEW h \in Streams, StartGameStream(h) PROVE ReadyHasStream'
    <3>1. stream' = [stream EXCEPT ![h] = "open"] /\ ready' = ready \cup {CallerOf[h]}
      BY <2>5 DEF StartGameStream
    <3> QED
      BY <2>0, <3>1 DEF ReadyHasStream
  <2>6. ASSUME NEW h \in Streams, ClientCloses(h) PROVE ReadyHasStream'
    <3>1. stream' = [stream EXCEPT ![h] = "done"] /\ ready' = ready
      BY <2>6 DEF ClientCloses
    <3> QED
      BY <2>0, <3>1 DEF ReadyHasStream
  <2>7. ASSUME NEW h \in Streams, EndGameStream(h) PROVE ReadyHasStream'
    <3>1. stream' = [stream EXCEPT ![h] = "idle"] /\ ready' = ready \ {CallerOf[h]}
      BY <2>7 DEF EndGameStream, ReadyAfter
    <3> QED
      BY <2>0, <3>1 DEF ReadyHasStream
  <2>8. ASSUME NEW g \in Games, GameEnds(g) PROVE ReadyHasStream'
    BY <2>1, <2>8 DEF GameEnds
  <2>9. ASSUME NEW g \in Games, ResetPlayers(g) PROVE ReadyHasStream'
    BY <2>2, <2>9 DEF ResetPlayers
  <2>10. CASE UNCHANGED streamVars
    BY <2>2, <2>10 DEF streamVars
  <2> QED
    BY <2>3, <2>4, <2>5, <2>6, <2>7, <2>8, <2>9, <2>10, StreamSteps DEF vars
<1> QED
  BY <1>1, <1>2, PTL DEF Spec
-----------------------------------------------------------------------------
(* Types *)

\* The rooms a goroutine or a handler is going to use have been created, and the
\* others have no players.
RoomsExist ==
    /\ \A r \in Range(roomList) : arrays[r] # <<>>
    /\ \A p \in Players : joining[p] # None => arrays[joining[p]] # <<>>
    /\ \A r \in Rooms : host[r] = None => arrays[r] = <<>>

\* The inductive form of RoomTypeOK.
RoomInv == RoomTypeOK /\ RoomsExist

\* No id is the absence of one.
LEMMA NoneIsNoId ==
    \A r \in Rooms : r # None
BY NoneAssumption

\* RemoveFirst leaves out one place, that of an element that is there.
LEMMA RemoveFirstElements ==
    ASSUME NEW S, NEW s \in Seq(S), NEW e, e \in Range(s)
    PROVE  \E k \in 1 .. Len(s), w \in Seq(S) :
              /\ w = RemoveFirst(s, e) /\ s[k] = e
              /\ Len(w) = Len(s) - 1
              /\ \A i \in 1 .. Len(w) : w[i] = IF i < k THEN s[i] ELSE s[i + 1]
<1> DEFINE I == {i \in 1 .. Len(s) : s[i] = e}
<1>1. \E i \in 1 .. Len(s) : s[i] = e
  BY DEF Range
<1>2. I \subseteq Nat /\ I # {}
  BY <1>1
<1>3. PICK k \in 1 .. Len(s) : k = Min(I) /\ s[k] = e
  BY <1>2, MinInSet
<1>4. RemoveFirst(s, e) = SubSeq(s, 1, k - 1) \o SubSeq(s, k + 1, Len(s))
  BY <1>1, <1>2, <1>3, Zenon DEF RemoveFirst, SelectInSeq, RemoveAt
<1>5. PICK u, v : u = SubSeq(s, 1, k - 1) /\ v = SubSeq(s, k + 1, Len(s))
  OBVIOUS
<1>6. /\ u \in Seq(S) /\ Len(u) = k - 1
      /\ \A i \in 1 .. k - 1 : u[i] = s[i]
  BY <1>5
<1>7. /\ v \in Seq(S) /\ Len(v) = Len(s) - k
      /\ \A i \in 1 .. Len(s) - k : v[i] = s[k + i]
  BY <1>5
<1>8. PICK w : w = u \o v
  OBVIOUS
<1>9. w \in Seq(S) /\ Len(w) = Len(s) - 1
  <2>1. Len(u) + Len(v) = Len(s) - 1
    BY <1>6, <1>7
  <2>2. w \in Seq(S) /\ Len(w) = Len(u) + Len(v)
    <3>1. u \in Seq(S) /\ v \in Seq(S)
      BY <1>6, <1>7
    <3> QED
      BY <1>8, <3>1
  <2> QED
    BY <2>1, <2>2
<1>10. \A i \in 1 .. Len(w) : w[i] = IF i < k THEN s[i] ELSE s[i + 1]
  <2>1. ASSUME NEW i \in 1 .. Len(w) PROVE w[i] = IF i < k THEN s[i] ELSE s[i + 1]
    <3>1. CASE i < k
      BY <1>6, <1>7, <1>8, <1>9, <3>1
    <3>2. CASE ~(i < k)
      <4>1. w[i] = v[i - (k - 1)]
        BY <1>6, <1>7, <1>8, <1>9, <3>2
      <4>2. i - (k - 1) \in 1 .. Len(s) - k /\ k + (i - (k - 1)) = i + 1
        BY <1>9, <3>2
      <4> QED
        BY <1>7, <3>2, <4>1, <4>2
    <3> QED
      BY <3>1, <3>2
  <2> QED
    BY <2>1
<1> QED
  BY <1>3, <1>4, <1>5, <1>8, <1>9, <1>10

\* RemoveFirst removes elements only.
LEMMA RemoveFirstRange ==
    ASSUME NEW S, NEW s \in Seq(S), NEW e
    PROVE  Range(RemoveFirst(s, e)) \subseteq Range(s)
<1>1. CASE e \notin Range(s)
  <2>1. RemoveFirst(s, e) = s
    BY <1>1 DEF RemoveFirst, Range
  <2> QED
    BY <2>1
<1>2. CASE e \in Range(s)
  <2>1. PICK k \in 1 .. Len(s), w \in Seq(S) :
           /\ w = RemoveFirst(s, e)
           /\ Len(w) = Len(s) - 1
           /\ \A i \in 1 .. Len(w) : w[i] = IF i < k THEN s[i] ELSE s[i + 1]
    BY <1>2, RemoveFirstElements
  <2>2. \A i \in 1 .. Len(w) : w[i] \in Range(s)
    BY <2>1 DEF Range
  <2> QED
    BY <2>1, <2>2 DEF Range
<1> QED
  BY <1>1, <1>2

\* No element of s comes twice.
Distinct(s) == \A i, j \in DOMAIN s : s[i] = s[j] => i = j

\* What RemoveFirst leaves of a sequence without repetitions has none, and the
\* element is gone.
LEMMA RemoveFirstDistinct ==
    ASSUME NEW S, NEW s \in Seq(S), NEW e, Distinct(s)
    PROVE  Distinct(RemoveFirst(s, e)) /\ e \notin Range(RemoveFirst(s, e))
<1>1. CASE e \notin Range(s)
  <2>1. RemoveFirst(s, e) = s
    BY <1>1 DEF RemoveFirst, Range
  <2> QED
    BY <1>1, <2>1
<1>2. CASE e \in Range(s)
  <2>1. PICK k \in 1 .. Len(s), w \in Seq(S) :
           /\ w = RemoveFirst(s, e) /\ s[k] = e
           /\ Len(w) = Len(s) - 1
           /\ \A i \in 1 .. Len(w) : w[i] = IF i < k THEN s[i] ELSE s[i + 1]
    BY <1>2, RemoveFirstElements
  <2>2. DOMAIN s = 1 .. Len(s) /\ DOMAIN w = 1 .. Len(w) /\ Len(s) \in Nat
    OBVIOUS
  <2> DEFINE at(i) == IF i < k THEN i ELSE i + 1
  <2>3. \A i \in DOMAIN w : at(i) \in DOMAIN s /\ at(i) # k /\ w[i] = s[at(i)]
    BY <2>1, <2>2
  <2>4. \A i, j \in DOMAIN w : at(i) = at(j) => i = j
    BY <2>1, <2>2
  <2> HIDE DEF at
  <2>5. Distinct(w)
    BY <2>3, <2>4 DEF Distinct
  <2>6. e \notin Range(w)
    BY <2>1, <2>2, <2>3 DEF Distinct, Range
  <2> QED
    BY <2>1, <2>5, <2>6
<1> QED
  BY <1>1, <1>2

\* Whatever replaces the slice of a created room keeps RoomInv, if no room is
\* listed that was not.
LEMMA SetMembersKeepsRooms ==
    ASSUME RoomInv, NEW r \in Rooms, arrays[r] # <<>>, NEW a \in Seq(Players),
           NEW n \in 0 .. Len(a), SetMembers(r, a, n),
           roomList' \in Seq(Rooms), Range(roomList') \subseteq Range(roomList),
           cancelled' \subseteq Rooms, leaves' \in 0 .. MaxLeaves,
           UNCHANGED <<host, joining, added>>
    PROVE  RoomInv'
<1>1. /\ arrays' \in [Rooms -> Seq(Seq(Players))]
      /\ size' \in [Rooms -> Nat]
      /\ \A q \in Rooms : size'[q] <= IF arrays'[q] = <<>> THEN 0 ELSE Len(Last(arrays'[q]))
      /\ wr' \in [Players -> Rooms \cup {None}]
      /\ arrays'[r] # <<>>
      /\ \A q \in Rooms \ {r} : arrays'[q] = arrays[q]
  BY SetMembersType DEF RoomInv
<1>2. /\ host' \in [Rooms -> Players \cup {None}] /\ joining' \in [Players -> Rooms \cup {None}]
      /\ added' \subseteq {p \in Players : joining'[p] # None}
  BY DEF RoomInv, RoomTypeOK
<1>3. RoomTypeOK'
  BY <1>1, <1>2 DEF RoomTypeOK
<1>4. \A q \in Rooms : arrays[q] # <<>> <=> arrays'[q] # <<>>
  BY <1>1
<1>5. Range(roomList) \subseteq Rooms
  BY DEF RoomInv, RoomTypeOK, Range
<1>6. RoomsExist'
  BY <1>4, <1>5, <1>2 DEF RoomInv, RoomsExist, RoomTypeOK
<1> QED
  BY <1>3, <1>6 DEF RoomInv

\* So do the two ways the code removes players from a room.
LEMMA RemovalsKeepRooms ==
    ASSUME RoomInv, NEW r \in Rooms, arrays[r] # <<>>,
           \/ RemoveWaitingRoom(r)
           \/ \E p : p \in Range(Members(r)) /\ RemovePlayer(r, p),
           cancelled' \subseteq Rooms, leaves' \in 0 .. MaxLeaves,
           UNCHANGED <<host, joining, added>>
    PROVE  RoomInv'
<1>1. /\ Last(arrays[r]) \in Seq(Players)
      /\ size[r] \in 0 .. Len(Last(arrays[r]))
      /\ Members(r) \in Seq(Players) /\ Len(Members(r)) = size[r]
  BY MembersType DEF RoomInv
<1>2. roomList \in Seq(Rooms)
  BY DEF RoomInv, RoomTypeOK
<1>3. CASE RemoveWaitingRoom(r)
  <2> DEFINE a == Emptied(Last(arrays[r]), size[r])
             n == Missed(size[r])
  <2>1. a \in Seq(Players) /\ n \in 0 .. Len(a)
    BY <1>1, EmptiedType
  <2>2. roomList' \in Seq(Rooms) /\ Range(roomList') \subseteq Range(roomList)
    BY <1>2, <1>3, RemoveFirstType, RemoveFirstRange DEF RemoveWaitingRoom
  <2>3. SetMembers(r, a, n)
    BY <1>3 DEF RemoveWaitingRoom
  <2> HIDE DEF a, n
  <2> QED
    BY <2>1, <2>2, <2>3, SetMembersKeepsRooms
<1>4. ASSUME NEW p, p \in Range(Members(r)), RemovePlayer(r, p) PROVE RoomInv'
  <2> DEFINE a == Without(Last(arrays[r]), size[r], p)
             n == size[r] - 1
  <2>1. a \in Seq(Players) /\ Len(a) = Len(Last(arrays[r]))
    BY <1>1, WithoutType
  <2>2. n \in 0 .. Len(a)
    BY <1>1, <1>4, <2>1 DEF Range
  <2>3. roomList' \in Seq(Rooms) /\ Range(roomList') \subseteq Range(roomList)
    BY <1>2, <1>4 DEF RemovePlayer
  <2>4. SetMembers(r, a, n)
    BY <1>4 DEF RemovePlayer
  <2> HIDE DEF a, n
  <2> QED
    BY <2>1, <2>2, <2>3, <2>4, SetMembersKeepsRooms
<1> QED
  BY <1>3, <1>4

\* The room GetWaitingRoomFromPlayer finds for a player of a listed room.
LEMMA FirstRoomFound ==
    ASSUME RoomInv, NEW p, NEW r \in Rooms, Listed(r), p \in Range(Members(r))
    PROVE  /\ FirstRoomOf(p) \in Range(roomList) /\ FirstRoomOf(p) \in Rooms
           /\ p \in Range(Members(FirstRoomOf(p)))
<1> DEFINE I == {i \in DOMAIN roomList : p \in Range(Members(roomList[i]))}
           first(i) == /\ p \in Range(Members(roomList[i]))
                       /\ \A j \in 1 .. (i - 1) : p \notin Range(Members(roomList[j]))
<1>1. roomList \in Seq(Rooms) /\ DOMAIN roomList = 1 .. Len(roomList)
  BY DEF RoomInv, RoomTypeOK
<1>2. I \subseteq Nat /\ I # {}
  <2>1. PICK i \in DOMAIN roomList : roomList[i] = r
    BY DEF Listed, Range
  <2> QED
    BY <1>1, <2>1
<1>3. PICK m \in I : \A i \in I : m <= i
  <2> HIDE DEF I
  <2> QED
    BY <1>2, MinInSet
<1>4. m \in DOMAIN roomList /\ first(m)
  BY <1>1, <1>2, <1>3
<1>5. PICK k \in DOMAIN roomList : k = (CHOOSE i \in DOMAIN roomList : first(i)) /\ first(k)
  <2> HIDE DEF first
  <2> QED
    BY <1>4, Zenon
<1>6. FirstRoomOf(p) = roomList[k]
  BY <1>5, Zenon DEF FirstRoomOf
<1>7. roomList[k] \in Range(roomList) /\ roomList[k] \in Rooms
  BY <1>1 DEF Range
<1> QED
  BY <1>5, <1>6, <1>7
\* The inductive form of GameTypeOK: a lifecycle has a room from its start on.
GameInv ==
    /\ GameTypeOK
    /\ \A g \in Games : IF game[g].phase = "none" THEN game[g] = NoGame
                                                  ELSE game[g].room # None

\* Every action keeps the types of the room variables.
LEMMA RoomTypesKept ==
    ASSUME RoomInv, GameInv, [Next]_vars
    PROVE  RoomInv'
<1>0. /\ RoomTypeOK /\ RoomsExist
      /\ roomList \in Seq(Rooms) /\ arrays \in [Rooms -> Seq(Seq(Players))]
      /\ size \in [Rooms -> Nat] /\ host \in [Rooms -> Players \cup {None}]
      /\ wr \in [Players -> Rooms \cup {None}]
      /\ joining \in [Players -> Rooms \cup {None}]
      /\ added \subseteq {p \in Players : joining[p] # None}
      /\ cancelled \subseteq Rooms /\ leaves \in 0 .. MaxLeaves
      /\ \A q \in Rooms : size[q] <= IF arrays[q] = <<>> THEN 0 ELSE Len(Last(arrays[q]))
  BY DEF RoomInv, RoomTypeOK
<1>1. ASSUME NEW p \in Players, NEW r \in Rooms, CreateWaitingRoom(p, r) PROVE RoomInv'
  <2>1. /\ arrays' = [arrays EXCEPT ![r] = << <<p>> >>] /\ size' = [size EXCEPT ![r] = 1]
        /\ roomList' = Append(roomList, r) /\ host' = [host EXCEPT ![r] = p]
        /\ wr' = [wr EXCEPT ![p] = r] /\ host[r] = None
        /\ UNCHANGED <<cancelled, joining, added, leaves>>
    BY <1>1 DEF CreateWaitingRoom
  <2>2. << <<p>> >> \in Seq(Seq(Players)) /\ << <<p>> >> # <<>> /\ Len(Last(<< <<p>> >>)) = 1
    BY DEF Last
  <2>3. /\ \A q \in Rooms \ {r} : arrays'[q] = arrays[q] /\ size'[q] = size[q]
        /\ arrays'[r] = << <<p>> >> /\ size'[r] = 1
    BY <1>0, <2>1
  <2>4. \A q \in Rooms : size'[q] <= IF arrays'[q] = <<>> THEN 0 ELSE Len(Last(arrays'[q]))
    <3>1. ASSUME NEW q \in Rooms \ {r}
          PROVE  size'[q] <= IF arrays'[q] = <<>> THEN 0 ELSE Len(Last(arrays'[q]))
      <4>1. arrays'[q] = arrays[q] /\ size'[q] = size[q]
        BY <2>3
      <4> QED
        BY <1>0, <4>1
    <3>2. size'[r] <= IF arrays'[r] = <<>> THEN 0 ELSE Len(Last(arrays'[r]))
      BY <2>2, <2>3
    <3> QED
      BY <3>1, <3>2
  <2>5. arrays' \in [Rooms -> Seq(Seq(Players))]
    BY <1>0, <2>1, <2>2
  <2>6. /\ roomList' \in Seq(Rooms) /\ size' \in [Rooms -> Nat]
        /\ host' \in [Rooms -> Players \cup {None}] /\ wr' \in [Players -> Rooms \cup {None}]
    BY <1>0, <2>1
  <2>7. RoomTypeOK'
    BY <1>0, <2>1, <2>4, <2>5, <2>6 DEF RoomTypeOK
  <2>8. Range(roomList') \subseteq Range(roomList) \cup {r} /\ Range(roomList) \subseteq Rooms
    <3>1. roomList \in Seq(Rooms) /\ roomList' = Append(roomList, r)
      BY <1>0, <2>1
    <3> QED
      BY <3>1 DEF Range
  <2>9. RoomsExist'
    <3>1. p # None
      BY NoneAssumption
    <3> QED
      BY <1>0, <2>1, <2>2, <2>3, <2>8, <3>1 DEF RoomsExist
  <2> QED
    BY <2>7, <2>9 DEF RoomInv
<1>2. ASSUME NEW p \in Players, NEW r \in Rooms, JoinFinds(p, r) PROVE RoomInv'
  <2>1. /\ joining' = [joining EXCEPT ![p] = r] /\ r \in Range(roomList)
        /\ UNCHANGED <<roomList, arrays, size, host, cancelled, wr, added, leaves>>
    BY <1>2 DEF JoinFinds, Listed
  <2>2. /\ joining' \in [Players -> Rooms \cup {None}]
        /\ added' \subseteq {q \in Players : joining'[q] # None}
    BY <1>0, <2>1, NoneIsNoId
  <2>4. RoomTypeOK'
    BY <1>0, <2>1, <2>2 DEF RoomTypeOK
  <2>3. RoomsExist'
    BY <1>0, <2>1 DEF RoomsExist
  <2> QED
    BY <2>3, <2>4 DEF RoomInv
<1>3. ASSUME NEW p \in Players, JoinAdds(p) PROVE RoomInv'
  <2>1. PICK r \in Rooms : r = joining[p] /\ arrays[r] # <<>> /\ AddPlayer(r, p)
    BY <1>0, <1>3 DEF JoinAdds, RoomsExist
  <2>2. /\ added' = added \cup {p} /\ joining[p] # None
        /\ UNCHANGED <<roomList, host, cancelled, wr, joining, leaves>>
    BY <1>3, <2>1 DEF JoinAdds
  <2>3. /\ arrays' \in [Rooms -> Seq(Seq(Players))]
        /\ size' \in [Rooms -> Nat]
        /\ \A q \in Rooms : size'[q] <= IF arrays'[q] = <<>> THEN 0 ELSE Len(Last(arrays'[q]))
        /\ \A q \in Rooms \ {r} : arrays'[q] = arrays[q]
        /\ Range(Members(r)) \cup {p} \subseteq Range(Members(r)')
    BY <1>0, <2>1, AddPlayerType
  <2>4. arrays'[r] # <<>>
    BY <2>3 DEF Members, Range
  <2>5. RoomTypeOK'
    BY <1>0, <2>2, <2>3 DEF RoomTypeOK
  <2>6. \A q \in Rooms : arrays[q] # <<>> <=> arrays'[q] # <<>>
    BY <2>1, <2>3, <2>4
  <2>7. Range(roomList) \subseteq Rooms
    BY <1>0 DEF Range
  <2>8. RoomsExist'
    BY <1>0, <2>2, <2>6, <2>7 DEF RoomsExist
  <2> QED
    BY <2>5, <2>8 DEF RoomInv
<1>9. ASSUME NEW p \in Players, JoinRefers(p) PROVE RoomInv'
  <2>1. /\ wr' = [wr EXCEPT ![p] = joining[p]] /\ joining' = [joining EXCEPT ![p] = None]
        /\ added' = added \ {p}
        /\ UNCHANGED <<roomList, arrays, size, host, cancelled, leaves>>
    BY <1>9 DEF JoinRefers
  <2>2. /\ wr' \in [Players -> Rooms \cup {None}] /\ joining' \in [Players -> Rooms \cup {None}]
        /\ added' \subseteq {q \in Players : joining'[q] # None}
    BY <1>0, <2>1
  <2>3. RoomTypeOK'
    BY <1>0, <2>1, <2>2 DEF RoomTypeOK
  <2>4. RoomsExist'
    BY <1>0, <2>1 DEF RoomsExist
  <2> QED
    BY <2>3, <2>4 DEF RoomInv
<1>4. ASSUME NEW p \in Players, NEW r \in Rooms, LeaveWaitingRoom(p, r) PROVE RoomInv'
  <2>1. Listed(r) /\ p \in Range(Members(r))
    BY <1>4 DEF LeaveWaitingRoom
  <2>2. PICK q \in Rooms : /\ q = FirstRoomOf(p)
                           /\ q \in Range(roomList) /\ p \in Range(Members(q))
    BY <2>1, FirstRoomFound
  <2>3. arrays[q] # <<>>
    BY <1>0, <2>2 DEF RoomsExist
  <2>4. RemoveWaitingRoom(q) \/ RemovePlayer(q, p)
    BY <1>4, <2>2 DEF LeaveWaitingRoom
  <2>5. /\ cancelled' \subseteq Rooms /\ leaves' \in 0 .. MaxLeaves
        /\ UNCHANGED <<host, joining, added>>
    BY <1>0, <1>4, BoundAssumption DEF LeaveWaitingRoom
  <2> QED
    BY <2>2, <2>3, <2>4, <2>5, RemovalsKeepRooms
<1>5. ASSUME NEW g \in Games, ReadyTimeout(g) PROVE RoomInv'
  <2>1. game[g].room \in Rooms
    BY <1>5 DEF ReadyTimeout, GameInv, GameTypeOK, GameState
  <2> QED
    BY <1>0, <1>5, <2>1 DEF ReadyTimeout, RoomInv, RoomTypeOK, RoomsExist
<1>6. ASSUME NEW g \in Games, ResetPlayers(g) PROVE RoomInv'
  <2>1. wr' \in [Players -> Rooms \cup {None}]
    BY <1>0, <1>6 DEF ResetPlayers
  <2> QED
    BY <1>0, <1>6, <2>1 DEF ResetPlayers, RoomInv, RoomTypeOK, RoomsExist
<1>7. ASSUME NEW g \in Games, RemoveRoom(g) PROVE RoomInv'
  <2>1. PICK r \in Rooms : r = game[g].room
    BY <1>7 DEF RemoveRoom, GameInv, GameTypeOK, GameState
  <2>2. /\ cancelled' \subseteq Rooms /\ leaves' \in 0 .. MaxLeaves
        /\ UNCHANGED <<host, joining, added>>
    BY <1>0, <1>7, <2>1 DEF RemoveRoom
  <2>3. CASE Listed(r)
    <3>1. arrays[r] # <<>> /\ RemoveWaitingRoom(r)
      BY <1>0, <1>7, <2>1, <2>3 DEF RemoveRoom, RoomsExist, Listed
    <3> QED
      BY <2>2, <3>1, RemovalsKeepRooms
  <2>4. CASE ~Listed(r)
    BY <1>0, <1>7, <2>1, <2>2, <2>4 DEF RemoveRoom, RoomInv, RoomTypeOK, RoomsExist
  <2> QED
    BY <2>3, <2>4
<1>8. CASE UNCHANGED roomVars
  BY <1>0, <1>8 DEF roomVars, RoomInv, RoomTypeOK, RoomsExist
<1> QED
  BY <1>1, <1>2, <1>3, <1>4, <1>5, <1>6, <1>7, <1>8, <1>9, RoomSteps DEF vars

\* Every action keeps the types of the game variables.
LEMMA GameTypesKept ==
    ASSUME RoomInv, GameInv, [Next]_vars
    PROVE  GameInv'
<1>0. /\ game \in [Games -> GameState]
      /\ frameCh \in [Players -> Games \cup {None}]
      /\ closed \subseteq Games \X Players
      /\ crashed \in BOOLEAN
      /\ \A g \in Games : IF game[g].phase = "none" THEN game[g] = NoGame
                                                  ELSE game[g].room # None
  BY DEF GameInv, GameTypeOK
<1>1. ASSUME NEW g \in Games, NEW s \in GameState, game' = [game EXCEPT ![g] = s],
             s.phase # "none", s.room # None,
             frameCh' \in [Players -> Games \cup {None}],
             closed' \subseteq Games \X Players, crashed' \in BOOLEAN
      PROVE  GameInv'
  <2>1. game' \in [Games -> GameState]
    BY <1>0, <1>1
  <2>2. \A q \in Games : game'[q] = IF q = g THEN s ELSE game[q]
    BY <1>0, <1>1
  <2> QED
    BY <1>0, <1>1, <2>1, <2>2 DEF GameInv, GameTypeOK
<1>2. ASSUME UNCHANGED game,
             frameCh' \in [Players -> Games \cup {None}],
             closed' \subseteq Games \X Players, crashed' \in BOOLEAN
      PROVE  GameInv'
  BY <1>0, <1>2 DEF GameInv, GameTypeOK
<1>3. ASSUME NEW g \in Games, game[g].phase # "none"
      PROVE  game[g] \in GameState /\ game[g].room # None
  BY <1>0, <1>3
<1>4. ASSUME NEW r \in Rooms, ManagerCancelled(r) PROVE GameInv'
  BY <1>0, <1>2, <1>4 DEF ManagerCancelled, ManagerReturns
<1>5. ASSUME NEW r \in Rooms, NEW g \in Games, ManagerStarts(r, g) PROVE GameInv'
  <2> DEFINE s == [NoGame EXCEPT !.phase = "spawned", !.room = r]
  <2>1. s \in GameState /\ s.phase # "none" /\ s.room # None
    BY NoneIsNoId DEF NoGame, GameState
  <2>2. game' = [game EXCEPT ![g] = s]
    BY <1>5 DEF ManagerStarts
  <2> HIDE DEF s
  <2> QED
    BY <1>0, <1>1, <1>5, <2>1, <2>2 DEF ManagerStarts, ManagerReturns
<1>6. ASSUME NEW g \in Games, Launch(g) PROVE GameInv'
  <2>1. PICK r \in Rooms : r = game[g].room
    BY <1>0, <1>6 DEF Launch, GameState
  <2>2. CASE size[r] < 2
    BY <1>0, <1>2, <1>6, <2>1, <2>2 DEF Launch, TooFew
  <2>3. CASE ~(size[r] < 2)
    <3> DEFINE P == Range(Members(r))
               s == [game[g] EXCEPT !.phase = "playing", !.array = Len(arrays[r]),
                                    !.len = size[r], !.sending = P]
    <3>1. P \subseteq Players /\ Len(arrays[r]) \in Nat /\ size[r] \in Nat
      BY MembersType DEF RoomInv, RoomTypeOK
    <3>2. /\ game' = [game EXCEPT ![g] = s]
          /\ frameCh' = [p \in Players |-> IF p \in P THEN g ELSE frameCh[p]]
          /\ UNCHANGED <<closed, crashed>>
      <4>1. game' = [game EXCEPT ![g] = s]
        BY <1>6, <2>1, <2>3 DEF Launch, TooFew
      <4>2. frameCh' = [p \in Players |-> IF p \in P THEN g ELSE frameCh[p]]
        BY <1>6, <2>1, <2>3 DEF Launch, TooFew
      <4>3. UNCHANGED <<closed, crashed>>
        BY <1>6, <2>1, <2>3 DEF Launch, TooFew
      <4> QED
        BY <4>1, <4>2, <4>3
    <3> HIDE DEF P
    <3>3. s \in GameState /\ s.phase # "none" /\ s.room # None
      <4>1. PICK k \in Nat, n \in Nat : k = Len(arrays[r]) /\ n = size[r]
        BY <3>1
      <4>2. game[g] \in GameState
        BY <1>0
      <4>3. s = [game[g] EXCEPT !.phase = "playing", !.array = k, !.len = n, !.sending = P]
        BY <4>1
      <4>4. game[g].room # None
        BY <2>1, NoneIsNoId
      <4> HIDE DEF s
      <4> QED
        BY <3>1, <4>2, <4>3, <4>4 DEF GameState
    <3> HIDE DEF s
    <3> QED
      BY <1>0, <1>1, <3>2, <3>3
  <2> QED
    BY <2>2, <2>3
<1>7. ASSUME NEW g \in Games, GameWon(g) PROVE GameInv'
  <2>1. /\ game[g].phase # "none"
        /\ game' = [game EXCEPT ![g] = [game[g] EXCEPT !.frames = "closed"]]
        /\ UNCHANGED <<frameCh, closed, crashed>>
    BY <1>0, <1>7 DEF GameWon
  <2>2. PICK s : s = [game[g] EXCEPT !.frames = "closed"]
    OBVIOUS
  <2>3. s \in GameState /\ s.phase # "none" /\ s.room # None
    BY <1>3, <2>1, <2>2 DEF GameState
  <2>4. game' = [game EXCEPT ![g] = s]
    BY <2>1, <2>2
  <2> QED
    BY <1>0, <1>1, <2>1, <2>3, <2>4
<1>8. ASSUME NEW g \in Games, Distribute(g) PROVE GameInv'
  <2> DEFINE channels == FrameChannels(g)
             s == [game[g] EXCEPT !.frames = "distributed"]
  <2>1. game[g].phase # "none"
    BY <1>0, <1>8 DEF Distribute, NoGame
  <2>2. channels \subseteq Games \X Players
    BY <1>0 DEF FrameChannels
  <2>3. \/ /\ crashed' = TRUE
           /\ UNCHANGED <<game, closed>>
        \/ /\ closed' = closed \cup channels
           /\ game' = [game EXCEPT ![g] = s]
           /\ crashed' = crashed
    BY <1>0, <1>8 DEF Distribute
  <2>4. UNCHANGED frameCh
    BY <1>8 DEF Distribute
  <2>5. s \in GameState /\ s.phase # "none" /\ s.room # None
    BY <1>3, <2>1 DEF GameState
  <2> HIDE DEF channels, s
  <2> QED
    BY <1>0, <1>1, <1>2, <2>2, <2>3, <2>4, <2>5
<1>9. ASSUME NEW g \in Games, DistributorGone(g) PROVE GameInv'
  <2>1. /\ game[g].phase # "none"
        /\ game' = [game EXCEPT ![g] = [game[g] EXCEPT !.frames = "gone"]]
        /\ UNCHANGED <<frameCh, closed, crashed>>
    BY <1>0, <1>9 DEF DistributorGone
  <2>2. PICK s : s = [game[g] EXCEPT !.frames = "gone"]
    OBVIOUS
  <2>3. s \in GameState /\ s.phase # "none" /\ s.room # None
    BY <1>3, <2>1, <2>2 DEF GameState
  <2>4. game' = [game EXCEPT ![g] = s]
    BY <2>1, <2>2
  <2> QED
    BY <1>0, <1>1, <2>1, <2>3, <2>4
<1>10. ASSUME NEW g \in Games, NEW p \in Players, SenderStops(g, p) \/ SendFails(g, p)
       PROVE  GameInv'
  <2>1. /\ game[g].phase # "none"
        /\ game' = [game EXCEPT ![g] = [game[g] EXCEPT !.sending = @ \ {p}]]
        /\ UNCHANGED <<frameCh, closed, crashed>>
        /\ game[g].sending \ {p} \in SUBSET Players
    BY <1>0, <1>10 DEF SenderStops, SendFails, NoGame, GameState
  <2>2. PICK s : s = [game[g] EXCEPT !.sending = @ \ {p}]
    OBVIOUS
  <2>3. s \in GameState /\ s.phase # "none" /\ s.room # None
    BY <1>3, <2>1, <2>2 DEF GameState
  <2>4. game' = [game EXCEPT ![g] = s]
    BY <2>1, <2>2
  <2> QED
    BY <1>0, <1>1, <2>1, <2>3, <2>4
<1>11. ASSUME NEW g \in Games, GameEnds(g) PROVE GameInv'
  <2>1. /\ game[g].phase # "none"
        /\ game' = [game EXCEPT ![g] = [game[g] EXCEPT !.phase = "ended"]]
        /\ UNCHANGED <<frameCh, closed, crashed>>
    BY <1>0, <1>11 DEF GameEnds
  <2>2. PICK s : s = [game[g] EXCEPT !.phase = "ended"]
    OBVIOUS
  <2>3. s \in GameState /\ s.phase # "none" /\ s.room # None
    BY <1>3, <2>1, <2>2 DEF GameState
  <2>4. game' = [game EXCEPT ![g] = s]
    BY <2>1, <2>2
  <2> QED
    BY <1>0, <1>1, <2>1, <2>3, <2>4
<1>12. ASSUME NEW g \in Games, ResetPlayers(g) PROVE GameInv'
  <2>1. /\ game[g].phase # "none"
        /\ game' = [game EXCEPT ![g] = [game[g] EXCEPT !.phase = "reset"]]
        /\ UNCHANGED <<frameCh, closed, crashed>>
    BY <1>0, <1>12 DEF ResetPlayers
  <2>2. PICK s : s = [game[g] EXCEPT !.phase = "reset"]
    OBVIOUS
  <2>3. s \in GameState /\ s.phase # "none" /\ s.room # None
    BY <1>3, <2>1, <2>2 DEF GameState
  <2>4. game' = [game EXCEPT ![g] = s]
    BY <2>1, <2>2
  <2> QED
    BY <1>0, <1>1, <2>1, <2>3, <2>4
<1>13. ASSUME NEW g \in Games, RemoveRoom(g) PROVE GameInv'
  <2>1. /\ game[g].phase # "none"
        /\ game' = [game EXCEPT ![g] = [game[g] EXCEPT !.phase = "done"]]
        /\ UNCHANGED <<frameCh, closed, crashed>>
    BY <1>0, <1>13 DEF RemoveRoom
  <2>2. PICK s : s = [game[g] EXCEPT !.phase = "done"]
    OBVIOUS
  <2>3. s \in GameState /\ s.phase # "none" /\ s.room # None
    BY <1>3, <2>1, <2>2 DEF GameState
  <2>4. game' = [game EXCEPT ![g] = s]
    BY <2>1, <2>2
  <2> QED
    BY <1>0, <1>1, <2>1, <2>3, <2>4
<1>14. CASE UNCHANGED gameVars
  BY <1>0, <1>2, <1>14 DEF gameVars
<1>15. ASSUME NEW g \in Games, GameStep(g) PROVE GameInv'
  BY <1>6, <1>8, <1>9, <1>10, <1>11, <1>12, <1>13, <1>15 DEF GameStep
<1> QED
  BY <1>4, <1>5, <1>7, <1>10, <1>14, <1>15, GameSteps DEF vars

\* Every action keeps the types of what Run and the managers know.
LEMMA RunTypesKept ==
    ASSUME RunTypeOK, RoomTypeOK, [Next]_vars
    PROVE  RunTypeOK'
<1>0. /\ toSignal \subseteq Rooms /\ signal \in BOOLEAN /\ scan \in Seq(Rooms)
      /\ wrManagers \subseteq Rooms /\ managing \in [Rooms -> Nat]
      /\ roomList \in Seq(Rooms)
  BY DEF RunTypeOK, RoomTypeOK
<1>1. ASSUME NEW p \in Players, NEW r \in Rooms, CreateWaitingRoom(p, r) PROVE RunTypeOK'
  BY <1>0, <1>1 DEF CreateWaitingRoom, RunTypeOK
<1>2. ASSUME NEW r \in Rooms, SignalCreated(r) PROVE RunTypeOK'
  BY <1>0, <1>2 DEF SignalCreated, RunTypeOK
<1>3. CASE RunReceives
  BY <1>0, <1>3 DEF RunReceives, WaitingRoomsSnapshot, RunTypeOK
<1>4. CASE RunScans
  <2>1. PICK r \in Rooms : r = Head(scan)
    BY <1>0, <1>4 DEF RunScans
  <2>2. scan' \in Seq(Rooms)
    BY <1>0, <1>4 DEF RunScans
  <2>3. \/ UNCHANGED <<wrManagers, managing>>
        \/ wrManagers' = wrManagers \cup {r} /\ managing' = [managing EXCEPT ![r] = @ + 1]
    BY <1>4, <2>1 DEF RunScans
  <2>4. UNCHANGED <<toSignal, signal>>
    BY <1>4 DEF RunScans
  <2> QED
    BY <1>0, <2>2, <2>3, <2>4 DEF RunTypeOK
<1>5. ASSUME NEW r \in Rooms, managing[r] > 0, ManagerReturns(r) PROVE RunTypeOK'
  BY <1>0, <1>5 DEF ManagerReturns, RunTypeOK
<1>6. CASE UNCHANGED runVars
  BY <1>0, <1>6 DEF runVars, RunTypeOK
<1> QED
  BY <1>1, <1>2, <1>3, <1>4, <1>5, <1>6, RunSteps DEF vars, ManagerCancelled, ManagerStarts

\* Every action keeps the types of the history variables.
LEMMA HistoryTypesKept ==
    ASSUME HistoryTypeOK, RoomInv, [Next]_vars
    PROVE  HistoryTypeOK'
<1>0. /\ late \subseteq Players \X Rooms /\ mistaken \subseteq Rooms /\ disturbed \subseteq Games
      /\ added \subseteq Players
  BY DEF HistoryTypeOK, RoomInv, RoomTypeOK
<1>1. ASSUME NEW q, NEW G, Shrinks(q, G)
      PROVE  late' \subseteq Players \X Rooms /\ disturbed' \subseteq Games
  <2>1. ASSUME NEW p \in G \cap added, joining[p] = q PROVE q \in Rooms
    BY <1>0, <2>1 DEF RoomInv, RoomTypeOK
  <2> QED
    BY <1>0, <1>1, <2>1 DEF Shrinks
<1>2. ASSUME NEW q, RemoveWaitingRoom(q) \/ \E p : RemovePlayer(q, p)
      PROVE  late' \subseteq Players \X Rooms /\ disturbed' \subseteq Games
  <2>1. PICK G : Shrinks(q, G)
    BY <1>2 DEF RemoveWaitingRoom, RemovePlayer, SetMembers
  <2> QED
    BY <1>1, <2>1
<1>3. ASSUME NEW p \in Players, NEW r \in Rooms, LeaveWaitingRoom(p, r) PROVE HistoryTypeOK'
  <2>1. mistaken' \subseteq Rooms
    BY <1>0, <1>3 DEF LeaveWaitingRoom
  <2>2. RemoveWaitingRoom(FirstRoomOf(p)) \/ RemovePlayer(FirstRoomOf(p), p)
    BY <1>3 DEF LeaveWaitingRoom
  <2> QED
    BY <1>2, <2>1, <2>2 DEF HistoryTypeOK
<1>4. ASSUME NEW g \in Games, Launch(g) PROVE HistoryTypeOK'
  <2>1. disturbed' \subseteq Games /\ UNCHANGED <<late, mistaken>>
    BY <1>0, <1>4 DEF Launch, Sharing
  <2> QED
    BY <1>0, <2>1 DEF HistoryTypeOK
<1>5. ASSUME NEW g \in Games, RemoveRoom(g) PROVE HistoryTypeOK'
  <2>1. UNCHANGED mistaken
    BY <1>5 DEF RemoveRoom
  <2>2. RemoveWaitingRoom(game[g].room) \/ UNCHANGED <<late, disturbed>>
    BY <1>5 DEF RemoveRoom
  <2> QED
    BY <1>0, <1>2, <2>1, <2>2 DEF HistoryTypeOK
<1>6. CASE UNCHANGED historyVars
  BY <1>0, <1>6 DEF historyVars, HistoryTypeOK
<1> QED
  BY <1>3, <1>4, <1>5, <1>6, HistorySteps DEF vars

\* The inductive form of TypeOK.
LobbyInv == RoomInv /\ RunTypeOK /\ StreamTypeOK /\ GameInv /\ HistoryTypeOK

\* The inductive invariant holds at the start and is kept by every step.
LEMMA LobbyInvariant == Spec => []LobbyInv
<1>1. Init => LobbyInv
  <2> SUFFICES ASSUME Init PROVE LobbyInv
    OBVIOUS
  <2>1. RoomInv
    <3>1. RoomTypeOK
      <4>1. \A r \in Rooms : size[r] = 0 /\ arrays[r] = <<>>
        BY DEF Init
      <4>2. /\ arrays \in [Rooms -> Seq(Seq(Players))] /\ size \in [Rooms -> Nat]
            /\ roomList \in Seq(Rooms) /\ leaves \in 0 .. MaxLeaves
        BY BoundAssumption DEF Init
      <4>3. /\ host \in [Rooms -> Players \cup {None}]
            /\ wr \in [Players -> Rooms \cup {None}]
            /\ joining \in [Players -> Rooms \cup {None}]
            /\ cancelled \subseteq Rooms
            /\ added \subseteq {p \in Players : joining[p] # None}
        BY DEF Init
      <4> QED
        BY <4>1, <4>2, <4>3 DEF RoomTypeOK
    <3>2. RoomsExist
      BY DEF Init, RoomsExist, Range
    <3> QED
      BY <3>1, <3>2 DEF RoomInv
  <2>2. RunTypeOK
    <3>1. toSignal \subseteq Rooms /\ wrManagers \subseteq Rooms /\ scan \in Seq(Rooms)
      BY DEF Init
    <3>2. signal \in BOOLEAN
      BY DEF Init
    <3>3. managing \in [Rooms -> Nat]
      BY DEF Init
    <3> QED
      BY <3>1, <3>2, <3>3 DEF RunTypeOK
  <2>3. StreamTypeOK
    BY DEF Init, StreamTypeOK, StreamState
  <2>4. GameInv
    BY DEF Init, GameInv, GameTypeOK, GameState, NoGame
  <2>5. HistoryTypeOK
    BY DEF Init, HistoryTypeOK
  <2> QED
    BY <2>1, <2>2, <2>3, <2>4, <2>5 DEF LobbyInv
<1>2. LobbyInv /\ [Next]_vars => LobbyInv'
  <2> SUFFICES ASSUME LobbyInv, [Next]_vars PROVE LobbyInv'
    OBVIOUS
  <2>1. RoomInv /\ RoomTypeOK /\ RunTypeOK /\ StreamTypeOK /\ GameInv
        /\ HistoryTypeOK
    BY DEF LobbyInv, RoomInv
  <2> QED
    BY <2>1, RoomTypesKept, RunTypesKept, StreamTypesKept, GameTypesKept, HistoryTypesKept
    DEF LobbyInv
<1> QED
  BY <1>1, <1>2, PTL DEF Spec

\* Every variable has its type in every reachable state: in particular the slice
\* of a room lies in its array whatever joins, leaves and removals overlap.
THEOREM LobbyTypeCorrect == Spec => []TypeOK
<1>1. LobbyInv => TypeOK
  BY DEF LobbyInv, RoomInv, GameInv, TypeOK
<1> QED
  BY <1>1, LobbyInvariant, PTL

-----------------------------------------------------------------------------
(* Managers *)

\* wrManagers is exact, so that Run never starts a second manager beside a running
\* one, although managers come and go while Run works through an old snapshot.
THEOREM ManagersAreCounted == Spec => []OneManager
<1>1. Init => OneManager
  BY DEF Init, OneManager
<1>2. TypeOK /\ OneManager /\ [Next]_vars => OneManager'
  <2> SUFFICES ASSUME TypeOK, OneManager, [Next]_vars PROVE OneManager'
    OBVIOUS
  <2>0. /\ scan \in Seq(Rooms) /\ managing \in [Rooms -> Nat]
        /\ \A r \in Rooms : managing[r] = IF r \in wrManagers THEN 1 ELSE 0
    BY DEF TypeOK, RunTypeOK, OneManager
  <2>1. ASSUME UNCHANGED <<wrManagers, managing>> PROVE OneManager'
    BY <2>0, <2>1 DEF OneManager
  <2>2. ASSUME NEW p \in Players, NEW r \in Rooms, CreateWaitingRoom(p, r) PROVE OneManager'
    BY <2>1, <2>2 DEF CreateWaitingRoom
  <2>3. ASSUME NEW r \in Rooms, SignalCreated(r) PROVE OneManager'
    BY <2>1, <2>3 DEF SignalCreated
  <2>4. CASE RunReceives
    BY <2>1, <2>4 DEF RunReceives
  <2>5. CASE RunScans
    <3>1. PICK r \in Rooms : r = Head(scan)
      BY <2>0, <2>5 DEF RunScans
    <3>2. CASE r \in Skipped
      BY <2>1, <2>5, <3>1, <3>2 DEF RunScans
    <3>3. CASE r \notin Skipped
      <4>1. r \notin wrManagers
        BY <3>3 DEF Skipped
      <4>2. wrManagers' = wrManagers \cup {r} /\ managing' = [managing EXCEPT ![r] = @ + 1]
        BY <2>5, <3>1, <3>3 DEF RunScans
      <4> QED
        BY <2>0, <4>1, <4>2 DEF OneManager
    <3> QED
      BY <3>2, <3>3
  <2>6. ASSUME NEW r \in Rooms, managing[r] > 0, ManagerReturns(r) PROVE OneManager'
    BY <2>0, <2>6 DEF ManagerReturns, OneManager
  <2>7. CASE UNCHANGED runVars
    BY <2>1, <2>7 DEF runVars
  <2> QED
    BY <2>2, <2>3, <2>4, <2>5, <2>6, <2>7, RunSteps DEF vars, ManagerCancelled, ManagerStarts
<1> QED
  BY <1>1, <1>2, LobbyTypeCorrect, PTL DEF Spec

\* A room that is closed stays closed.
LEMMA CancelledStays ==
    ASSUME [Next]_vars
    PROVE  cancelled \subseteq cancelled'
BY RoomSteps DEF vars, roomVars, CreateWaitingRoom, JoinFinds, LeaveWaitingRoom, JoinAdds,
   JoinRefers, ReadyTimeout, ResetPlayers, RemoveRoom

\* A lifecycle keeps its room.
LEMMA RoomsOfGamesStay ==
    ASSUME LobbyInv, [Next]_vars, NEW r \in Rooms, \A g \in Games : game'[g].room # r
    PROVE  \A g \in Games : game[g].room # r
<1>0. game \in [Games -> GameState] /\ \A g \in Games : game[g].phase = "none" => game[g] = NoGame
  BY DEF LobbyInv, GameInv, GameTypeOK
<1>1. ASSUME NEW g \in Games, NEW s, game' = [game EXCEPT ![g] = s], s.room = game[g].room
      PROVE  \A q \in Games : game'[q].room = game[q].room
  BY <1>0, <1>1
<1>2. CASE \A q \in Games : game'[q].room = game[q].room
  BY <1>2
<1>3. ASSUME NEW q \in Rooms, NEW g \in Games, ManagerStarts(q, g)
      PROVE  \A f \in Games : game[f].room # r
  <2>1. game[g].room = None
    BY <1>0, <1>3 DEF ManagerStarts, NoGame
  <2>2. \A f \in Games \ {g} : game'[f] = game[f]
    BY <1>0, <1>3 DEF ManagerStarts
  <2> QED
    BY <2>1, <2>2, NoneIsNoId
<1>4. ASSUME NEW g \in Games, GameStep(g) \/ GameWon(g) \/ \E p \in Players : SendFails(g, p)
      PROVE  \A q \in Games : game'[q].room = game[q].room
  <2>0. game[g] \in GameState
    BY <1>0
  <2>1. CASE Launch(g)
    <3>1. CASE UNCHANGED game
      BY <3>1
    <3>2. CASE ~UNCHANGED game
      <4>1. PICK k, n, P :
              game' = [game EXCEPT ![g] = [game[g] EXCEPT !.phase = "playing", !.array = k,
                                                          !.len = n, !.sending = P]]
        BY <2>1, <3>2 DEF Launch
      <4> QED
        BY <1>1, <2>0, <4>1 DEF GameState
    <3> QED
      BY <3>1, <3>2
  <2>2. ASSUME NEW f, game' = [game EXCEPT ![g] = [game[g] EXCEPT !.frames = f]]
        PROVE  \A q \in Games : game'[q].room = game[q].room
    BY <1>1, <2>0, <2>2 DEF GameState
  <2>3. ASSUME NEW f, game' = [game EXCEPT ![g] = [game[g] EXCEPT !.phase = f]]
        PROVE  \A q \in Games : game'[q].room = game[q].room
    BY <1>1, <2>0, <2>3 DEF GameState
  <2>4. ASSUME NEW S, game' = [game EXCEPT ![g] = [game[g] EXCEPT !.sending = S]]
        PROVE  \A q \in Games : game'[q].room = game[q].room
    BY <1>1, <2>0, <2>4 DEF GameState
  <2>5. CASE Distribute(g)
    <3>1. \/ UNCHANGED game
          \/ game' = [game EXCEPT ![g] = [game[g] EXCEPT !.frames = "distributed"]]
      BY <1>0, <2>5 DEF Distribute
    <3> QED
      BY <2>2, <3>1
  <2>6. CASE DistributorGone(g) \/ GameWon(g)
    <3>1. \/ game' = [game EXCEPT ![g] = [game[g] EXCEPT !.frames = "gone"]]
          \/ game' = [game EXCEPT ![g] = [game[g] EXCEPT !.frames = "closed"]]
      BY <1>0, <2>6 DEF DistributorGone, GameWon
    <3> QED
      BY <2>2, <3>1
  <2>7. ASSUME NEW p \in Players, SenderStops(g, p) \/ SendFails(g, p)
        PROVE  \A q \in Games : game'[q].room = game[q].room
    <3>1. game' = [game EXCEPT ![g] = [game[g] EXCEPT !.sending = game[g].sending \ {p}]]
      BY <1>0, <2>7 DEF SenderStops, SendFails
    <3> QED
      BY <2>4, <3>1
  <2>8. CASE GameEnds(g) \/ ResetPlayers(g) \/ RemoveRoom(g)
    <3>1. \/ game' = [game EXCEPT ![g] = [game[g] EXCEPT !.phase = "ended"]]
          \/ game' = [game EXCEPT ![g] = [game[g] EXCEPT !.phase = "reset"]]
          \/ game' = [game EXCEPT ![g] = [game[g] EXCEPT !.phase = "done"]]
      BY <1>0, <2>8 DEF GameEnds, ResetPlayers, RemoveRoom
    <3> QED
      BY <2>3, <3>1
  <2> QED
    BY <1>4, <2>1, <2>5, <2>6, <2>7, <2>8 DEF GameStep
<1> QED
  BY <1>2, <1>3, <1>4, GameSteps DEF vars, gameVars, ManagerCancelled

\* The loss of signals by the channel of one element is harmless: a listed room
\* that is neither closed nor managed and has no game is still announced, by its
\* creator, by the signal in the channel or by the scan Run is at.
THEOREM NoRoomIsForgotten == Spec => []NoRoomForgotten
<1>1. Init => NoRoomForgotten
  BY DEF Init, NoRoomForgotten, Listed, Range
<1>2. LobbyInv /\ NoRoomForgotten /\ [Next]_vars => NoRoomForgotten'
  <2> SUFFICES ASSUME LobbyInv, NoRoomForgotten, [Next]_vars,
                      NEW r \in Rooms, r \in Range(roomList'),
                      r \notin cancelled' \cup wrManagers',
                      \A g \in Games : game'[g].room # r
               PROVE  r \in toSignal' \/ signal' \/ r \in Range(scan')
    BY DEF NoRoomForgotten, Listed
  <2>0. scan \in Seq(Rooms) /\ roomList \in Seq(Rooms)
    BY DEF LobbyInv, RoomInv, RoomTypeOK, RunTypeOK
  <2>1. ASSUME r \in Range(roomList), r \notin cancelled \cup wrManagers
        PROVE  r \in toSignal \/ signal \/ r \in Range(scan)
    <3>1. \A g \in Games : game[g].room # r
      BY RoomsOfGamesStay
    <3> QED
      BY <2>1, <3>1 DEF NoRoomForgotten, Listed
  <2>2. r \notin cancelled
    BY CancelledStays
  <2>3. r \in Range(roomList) \/ r \in toSignal'
    <3>1. CASE UNCHANGED roomVars
      BY <3>1 DEF roomVars
    <3>2. ASSUME NEW p \in Players, NEW q \in Rooms, CreateWaitingRoom(p, q)
          PROVE  r \in Range(roomList) \/ r \in toSignal'
      <4>1. roomList' = Append(roomList, q) /\ toSignal' = toSignal \cup {q}
        BY <3>2 DEF CreateWaitingRoom
      <4>2. Range(roomList') \subseteq Range(roomList) \cup {q}
        BY <2>0, <4>1 DEF Range
      <4> QED
        BY <4>1, <4>2
    <3>3. ASSUME NEW q, \/ RemoveWaitingRoom(q)
                        \/ UNCHANGED roomList
          PROVE  r \in Range(roomList)
      BY <2>0, <3>3, RemoveFirstRange DEF RemoveWaitingRoom
    <3> QED
      BY <3>1, <3>2, <3>3, RoomSteps DEF vars, JoinFinds, LeaveWaitingRoom, JoinAdds, JoinRefers,
         ReadyTimeout, ResetPlayers, RemoveRoom, RemovePlayer
  <2>4. CASE UNCHANGED runVars
    BY <2>1, <2>2, <2>3, <2>4 DEF runVars
  <2>5. ASSUME NEW p \in Players, NEW q \in Rooms, CreateWaitingRoom(p, q)
        PROVE  r \in toSignal' \/ signal' \/ r \in Range(scan')
    BY <2>1, <2>2, <2>3, <2>5 DEF CreateWaitingRoom
  <2>6. ASSUME NEW q \in Rooms, SignalCreated(q)
        PROVE  signal'
    BY <2>6 DEF SignalCreated
  <2>7. CASE RunReceives
    BY <2>7 DEF RunReceives, WaitingRoomsSnapshot, roomVars
  <2>8. CASE RunScans
    <3>1. /\ scan # <<>> /\ scan' = Tail(scan)
          /\ UNCHANGED <<roomList, cancelled, toSignal, signal>>
          /\ r \notin wrManagers
          /\ Head(scan) \in Skipped \/ Head(scan) \in wrManagers'
      BY <2>8 DEF RunScans, roomVars
    <3>2. r # Head(scan)
      BY <2>2, <3>1 DEF Skipped
    <3>3. ASSUME NEW i \in DOMAIN scan, scan[i] = r PROVE r \in Range(scan')
      <4>1. i \in 1 .. Len(scan) /\ i # 1
        BY <2>0, <3>1, <3>2, <3>3
      <4>2. i - 1 \in 1 .. Len(scan') /\ scan'[i - 1] = r /\ DOMAIN scan' = 1 .. Len(scan')
        BY <2>0, <3>1, <3>3, <4>1
      <4> QED
        BY <4>2 DEF Range
    <3>4. r \in Range(scan) => r \in Range(scan')
      BY <3>3 DEF Range
    <3> QED
      BY <2>1, <2>2, <3>1, <3>4
  <2>9. ASSUME NEW q \in Rooms, ManagerCancelled(q) \/ \E g \in Games : ManagerStarts(q, g)
        PROVE  r \in toSignal' \/ signal' \/ r \in Range(scan')
    <3>1. /\ UNCHANGED <<roomList, toSignal, signal, scan>>
          /\ wrManagers' = wrManagers \ {q}
      BY <2>9 DEF ManagerCancelled, ManagerStarts, ManagerReturns, roomVars
    <3>2. r # q
      <4>1. CASE ManagerCancelled(q)
        BY <2>2, <4>1 DEF ManagerCancelled
      <4>2. ASSUME NEW g \in Games, ManagerStarts(q, g) PROVE r # q
        <5>1. game' = [game EXCEPT ![g] = [NoGame EXCEPT !.phase = "spawned", !.room = q]]
          BY <4>2 DEF ManagerStarts
        <5>2. game'[g].room = q
          BY <5>1 DEF NoGame, LobbyInv, GameInv, GameTypeOK
        <5> QED
          BY <5>2
      <4> QED
        BY <2>9, <4>1, <4>2
    <3> QED
      BY <2>1, <2>2, <3>1, <3>2
  <2> QED
    BY <2>4, <2>5, <2>6, <2>7, <2>8, <2>9, RunSteps DEF vars
<1> QED
  BY <1>1, <1>2, LobbyInvariant, PTL DEF Spec

-----------------------------------------------------------------------------
(* Back references *)

\* Room r has player p, or lost him while he was joining, and is off the list.
Held(p, r) == p \in Range(Members(r)) \/ (<<p, r>> \in late /\ ~Listed(r))

\* The inductive form of BackReference: a player who is past AddPlayer is going to
\* refer to such a room too, no room is listed twice, and none that was lost comes back.
ReferenceInv ==
    /\ \A p \in Players : wr[p] # None => Held(p, wr[p])
    /\ \A p \in added : Held(p, joining[p])
    /\ Distinct(roomList)
    /\ \A p \in Players, r \in Rooms : <<p, r>> \in late => arrays[r] # <<>>

\* RemovePlayer takes nobody else from the slice.
LEMMA OthersStay ==
    ASSUME NEW a \in Seq(Players), NEW n \in 1 .. Len(a), NEW p, p \in Range(SubSeq(a, 1, n))
    PROVE  Range(SubSeq(a, 1, n)) \ {p} \subseteq Range(SubSeq(Without(a, n, p), 1, n - 1))
<1> DEFINE k == CHOOSE j \in 1 .. n : a[j] = p
           w == Without(a, n, p)
<1>1. Range(SubSeq(a, 1, n)) = {a[i] : i \in 1 .. n}
  BY SliceElements
<1>2. k \in 1 .. n /\ a[k] = p
  BY <1>1
<1>3. w = [j \in DOMAIN a |-> IF k <= j /\ j < n THEN a[j + 1] ELSE a[j]]
  BY DEF Without
<1>4. w \in Seq(Players) /\ n - 1 \in 0 .. Len(w)
  BY WithoutType
<1> HIDE DEF k, w
<1>5. Range(SubSeq(w, 1, n - 1)) = {w[i] : i \in 1 .. n - 1}
  BY <1>4, SliceElements
<1>6. ASSUME NEW i \in 1 .. n, a[i] # p PROVE \E j \in 1 .. n - 1 : w[j] = a[i]
  <2>1. DOMAIN a = 1 .. Len(a)
    OBVIOUS
  <2>2. CASE i < k
    BY <1>2, <1>3, <2>1, <2>2
  <2>3. CASE k < i
    <3>1. i - 1 \in 1 .. n - 1 /\ i - 1 \in DOMAIN a /\ (i - 1) + 1 = i /\ k <= i - 1 /\ i - 1 < n
      BY <1>2, <2>1, <2>3
    <3>2. w[i - 1] = a[i]
      BY <1>3, <3>1
    <3> QED
      BY <3>1, <3>2
  <2> QED
    BY <1>2, <1>6, <2>2, <2>3
<1>7. ASSUME NEW x \in Range(SubSeq(a, 1, n)) \ {p} PROVE x \in Range(SubSeq(w, 1, n - 1))
  BY <1>1, <1>5, <1>6, <1>7
<1> QED
  BY <1>7 DEF w

\* A change of a room's slice drops nobody's reference but that of the dropped, and
\* these have no room afterwards.  Those among them who were joining are in late.
LEMMA SetMembersKeepsHeld ==
    ASSUME LobbyInv, NEW r \in Rooms, arrays[r] # <<>>, NEW a \in Seq(Players),
           NEW n \in 0 .. Len(a), SetMembers(r, a, n),
           Range(roomList') \subseteq Range(roomList)
    PROVE  /\ \A p \in Players, q \in Rooms :
                 /\ Held(p, q)
                 /\ q = r => p \notin Range(Members(r)) \ Range(SubSeq(a, 1, n))
                 => Held(p, q)'
           /\ \A p \in Players : wr'[p] # None =>
                 /\ wr'[p] = wr[p]
                 /\ p \notin Range(Members(r)) \ Range(SubSeq(a, 1, n))
           /\ \A p \in added : joining[p] = r /\ p \in Range(Members(r)) \ Range(SubSeq(a, 1, n))
                 => <<p, r>> \in late'
           /\ \A p \in Players, q \in Rooms : <<p, q>> \in late' => <<p, q>> \in late \/ q = r
           /\ \A q \in Rooms : arrays[q] # <<>> => arrays'[q] # <<>>
<1> DEFINE gone == Range(Members(r)) \ Range(SubSeq(a, 1, n))
<1>1. /\ arrays'[r] # <<>> /\ Last(arrays'[r]) = a /\ size'[r] = n
      /\ \A q \in Rooms \ {r} : arrays'[q] = arrays[q] /\ size'[q] = size[q]
  BY SetMembersType DEF LobbyInv, RoomInv
<1>2. Members(r)' = SubSeq(a, 1, n)
  BY <1>1 DEF Members
<1>3. Shrinks(r, gone) /\ wr' = [p \in Players |-> IF p \in gone THEN None ELSE wr[p]]
  BY Zenon DEF SetMembers
<1> HIDE DEF gone
<1>4. late' = late \cup ({p \in gone \cap added : joining[p] = r} \X {r})
  BY <1>3 DEF Shrinks
<1>5. ASSUME NEW p \in Players, NEW q \in Rooms, Held(p, q), q = r => p \notin gone
      PROVE  Held(p, q)'
  <2>1. CASE <<p, q>> \in late /\ ~Listed(q)
    BY <1>4, <2>1 DEF Held, Listed
  <2>2. CASE p \in Range(Members(q)) /\ q = r
    <3>1. p \in Range(SubSeq(a, 1, n))
      BY <1>5, <2>2 DEF gone
    <3>2. Members(q)' = SubSeq(a, 1, n)
      BY <1>2, <2>2
    <3> QED
      BY <3>1, <3>2 DEF Held, Range
  <2>3. CASE p \in Range(Members(q)) /\ q # r
    <3>1. Members(q)' = Members(q)
      BY <1>1, <2>3 DEF Members
    <3> QED
      BY <2>3, <3>1 DEF Held, Range
  <2> QED
    BY <1>5, <2>1, <2>2, <2>3 DEF Held
<1>6. \A p \in Players : wr'[p] # None => wr'[p] = wr[p] /\ p \notin gone
  BY <1>3
<1>7. \A p \in added : joining[p] = r /\ p \in gone => <<p, r>> \in late'
  BY <1>4
<1>8. \A p \in Players, q \in Rooms : <<p, q>> \in late' => <<p, q>> \in late \/ q = r
  BY <1>4
<1>9. \A q \in Rooms : arrays[q] # <<>> => arrays'[q] # <<>>
  BY <1>1
<1> QED
  BY <1>5, <1>6, <1>7, <1>8, <1>9 DEF gone

\* Neither removal leaves a stale reference behind, not even the loop that misses
\* some of the players.
LEMMA RemovalsKeepReferences ==
    ASSUME LobbyInv, ReferenceInv, NEW r \in Rooms, arrays[r] # <<>>,
           \/ RemoveWaitingRoom(r)
           \/ \E p : p \in Range(Members(r)) /\ p \notin added /\ RemovePlayer(r, p),
           UNCHANGED <<joining, added>>
    PROVE  ReferenceInv'
<1>0. /\ Last(arrays[r]) \in Seq(Players)
      /\ size[r] \in 0 .. Len(Last(arrays[r]))
      /\ Members(r) \in Seq(Players) /\ Len(Members(r)) = size[r]
      /\ Members(r) = SubSeq(Last(arrays[r]), 1, size[r])
  BY MembersType DEF LobbyInv, RoomInv, Members
<1>1. /\ roomList \in Seq(Rooms) /\ wr \in [Players -> Rooms \cup {None}]
      /\ added \subseteq Players /\ \A p \in added : joining[p] \in Rooms
  BY DEF LobbyInv, RoomInv, RoomTypeOK
<1>2. ASSUME NEW a \in Seq(Players), NEW n \in 0 .. Len(a), SetMembers(r, a, n),
             Distinct(roomList'), Range(roomList') \subseteq Range(roomList),
             \/ ~Listed(r)'
             \/ \A p \in added : p \notin Range(Members(r)) \ Range(SubSeq(a, 1, n))
      PROVE  ReferenceInv'
  <2> DEFINE gone == Range(Members(r)) \ Range(SubSeq(a, 1, n))
  <2>1. /\ \A p \in Players, q \in Rooms : Held(p, q) /\ (q = r => p \notin gone) => Held(p, q)'
        /\ \A p \in Players : wr'[p] # None => wr'[p] = wr[p] /\ p \notin gone
        /\ \A p \in added : joining[p] = r /\ p \in gone => <<p, r>> \in late'
        /\ \A p \in Players, q \in Rooms : <<p, q>> \in late' => <<p, q>> \in late \/ q = r
        /\ \A q \in Rooms : arrays[q] # <<>> => arrays'[q] # <<>>
    BY <1>2, SetMembersKeepsHeld
  <2> HIDE DEF gone
  <2>2. ASSUME NEW p \in Players, wr'[p] # None PROVE Held(p, wr[p])'
    <3>1. PICK q : q = wr[p] /\ q = wr'[p]
      BY <2>1, <2>2
    <3>2. q \in Rooms /\ Held(p, q) /\ p \notin gone
      BY <1>1, <2>1, <2>2, <3>1 DEF ReferenceInv
    <3>3. Held(p, q)'
      BY <2>1, <3>2
    <3> QED
      BY <3>1, <3>3 DEF Held, Members, Listed
  <2>3. ASSUME NEW p \in added PROVE Held(p, joining[p])'
    <3>1. PICK q : q = joining[p] /\ q = joining'[p]
      OBVIOUS
    <3>2. p \in Players /\ q \in Rooms /\ Held(p, q)
      BY <1>1, <3>1 DEF ReferenceInv
    <3>3. Held(p, q)'
      <4>1. CASE q = r /\ p \in gone
        <5>1. <<p, q>> \in late' /\ ~Listed(q)'
          BY <1>2, <2>1, <3>1, <4>1 DEF gone
        <5> QED
          BY <5>1 DEF Held
      <4>2. CASE ~(q = r /\ p \in gone)
        BY <2>1, <3>2, <4>2
      <4> QED
        BY <4>1, <4>2
    <3> QED
      BY <3>1, <3>3 DEF Held, Members, Listed
  <2>4. \A p \in Players, q \in Rooms : <<p, q>> \in late' => arrays'[q] # <<>>
    BY <2>1 DEF ReferenceInv
  <2> QED
    BY <1>2, <2>2, <2>3, <2>4 DEF ReferenceInv
<1>3. CASE RemoveWaitingRoom(r)
  <2> DEFINE a == Emptied(Last(arrays[r]), size[r])
             n == Missed(size[r])
  <2>1. a \in Seq(Players) /\ n \in 0 .. Len(a)
    BY <1>0, EmptiedType
  <2>2. SetMembers(r, a, n) /\ roomList' = RemoveFirst(roomList, r)
    BY <1>3 DEF RemoveWaitingRoom
  <2> HIDE DEF a, n
  <2>3. /\ Distinct(roomList') /\ r \notin Range(roomList')
        /\ Range(roomList') \subseteq Range(roomList)
    BY <1>1, <2>2, RemoveFirstDistinct, RemoveFirstRange DEF ReferenceInv
  <2> QED
    BY <1>2, <2>1, <2>2, <2>3 DEF Listed
<1>4. ASSUME NEW p, p \in Range(Members(r)), p \notin added, RemovePlayer(r, p)
      PROVE  ReferenceInv'
  <2> DEFINE b == Last(arrays[r])
             m == size[r]
             a == Without(b, m, p)
             n == m - 1
  <2>1. a \in Seq(Players) /\ Len(a) = Len(b)
    BY <1>0, WithoutType
  <2>2. n \in 0 .. Len(a) /\ m \in 1 .. Len(b)
    BY <1>0, <1>4, <2>1 DEF Range
  <2>3. SetMembers(r, a, n) /\ UNCHANGED roomList
    BY <1>4 DEF RemovePlayer
  <2>4. Range(SubSeq(b, 1, m)) \ {p} \subseteq Range(SubSeq(a, 1, n))
    <3> HIDE DEF b, m
    <3> QED
      BY <1>0, <1>4, <2>2, OthersStay DEF b, m
  <2>5. Range(Members(r)) \ Range(SubSeq(a, 1, n)) \subseteq {p}
    BY <1>0, <2>4
  <2> HIDE DEF a, n
  <2> QED
    BY <1>2, <1>4, <2>1, <2>2, <2>3, <2>5 DEF ReferenceInv
<1> QED
  BY <1>3, <1>4

\* Steps that only let slices grow, keep the list of rooms and remove references.
LEMMA GrowthKeepsReferences ==
    ASSUME ReferenceInv, RoomTypeOK, UNCHANGED <<roomList, late>>,
           \A q \in Rooms : Range(Members(q)) \subseteq Range(Members(q)'),
           \A q \in Rooms : arrays[q] # <<>> => arrays'[q] # <<>>,
           \A p \in Players : wr'[p] # None =>
               \E q \in Rooms : wr'[p] = q /\ Held(p, q)',
           \A p \in added' : \E q \in Rooms : joining'[p] = q /\ Held(p, q)'
    PROVE  ReferenceInv'
<1>1. \A p \in Players : wr'[p] # None => Held(p, wr[p])'
  BY DEF Held, Members, Listed
<1>2. \A p \in added' : Held(p, joining[p])'
  BY DEF Held, Members, Listed
<1>3. /\ Distinct(roomList')
      /\ \A p \in Players, r \in Rooms : <<p, r>> \in late' => arrays'[r] # <<>>
  BY DEF ReferenceInv
<1> QED
  BY <1>1, <1>2, <1>3 DEF ReferenceInv

\* A player refers to a room, and is refused another, only while he is in it, or after
\* it has lost him while he was joining and is off the list: whatever joins, leaves, games
\* and removals overlap.
THEOREM BackReferencesHold == Spec => []BackReference
<1>1. Init => ReferenceInv
  BY DEF Init, ReferenceInv, Distinct
<1>2. LobbyInv /\ ReferenceInv /\ [Next]_vars => ReferenceInv'
  <2> SUFFICES ASSUME LobbyInv, ReferenceInv, [Next]_vars
               PROVE  ReferenceInv'
    OBVIOUS
  <2>0. /\ RoomTypeOK /\ RoomsExist /\ wr \in [Players -> Rooms \cup {None}]
        /\ joining \in [Players -> Rooms \cup {None}] /\ roomList \in Seq(Rooms)
        /\ added \subseteq Players /\ \A p \in added : joining[p] \in Rooms
        /\ arrays \in [Rooms -> Seq(Seq(Players))] /\ size \in [Rooms -> Nat]
        /\ \A p \in Players : wr[p] # None => wr[p] \in Rooms /\ Held(p, wr[p])
        /\ \A p \in added : Held(p, joining[p])
    BY DEF LobbyInv, RoomInv, RoomTypeOK, ReferenceInv
  <2>h. ASSUME NEW p \in Players, NEW q \in Rooms, Held(p, q), UNCHANGED <<roomList, late>>,
               Range(Members(q)) \subseteq Range(Members(q)')
        PROVE  Held(p, q)'
    BY <2>h DEF Held, Listed
  <2>1. ASSUME UNCHANGED <<roomList, arrays, size, late>>,
               \A p \in Players : wr'[p] \in {None, wr[p]},
               \A p \in added' : p \in added /\ joining'[p] = joining[p]
        PROVE  ReferenceInv'
    <3>1. \A q \in Rooms : Members(q)' = Members(q)
      BY <2>1 DEF Members
    <3>2. \A p \in Players, q \in Rooms : Held(p, q) => Held(p, q)'
      BY <2>1, <3>1 DEF Held, Listed, Range
    <3>3. \A p \in Players : wr'[p] # None => \E q \in Rooms : wr'[p] = q /\ Held(p, q)'
      BY <2>0, <2>1, <3>2
    <3>4. \A p \in added' : \E q \in Rooms : joining'[p] = q /\ Held(p, q)'
      BY <2>0, <2>1, <3>2
    <3> QED
      BY <2>0, <2>1, <3>1, <3>3, <3>4, GrowthKeepsReferences
  <2>2. ASSUME NEW p \in Players, NEW r \in Rooms, CreateWaitingRoom(p, r)
        PROVE  ReferenceInv'
    <3>1. /\ arrays' = [arrays EXCEPT ![r] = << <<p>> >>] /\ size' = [size EXCEPT ![r] = 1]
          /\ wr' = [wr EXCEPT ![p] = r] /\ arrays[r] = <<>> /\ roomList' = Append(roomList, r)
          /\ UNCHANGED <<joining, added, late>>
      BY <2>0, <2>2 DEF CreateWaitingRoom, RoomsExist, historyVars
    <3>2. /\ \A q \in Rooms \ {r} : arrays'[q] = arrays[q] /\ size'[q] = size[q]
          /\ arrays'[r] = << <<p>> >> /\ size'[r] = 1
      BY <2>0, <3>1
    <3>3. p \in Range(Members(r)')
      <4>0. PICK a : a = <<p>>
        OBVIOUS
      <4>1. a \in Seq(Players) /\ 1 \in 0 .. Len(a) /\ a[1] = p
        BY <4>0
      <4>2. arrays'[r] # <<>> /\ Last(arrays'[r]) = a /\ size'[r] = 1
        BY <3>2, <4>0 DEF Last
      <4>3. Members(r)' = SubSeq(a, 1, 1)
        BY <4>2 DEF Members
      <4>4. Range(SubSeq(a, 1, 1)) = {a[k] : k \in 1 .. 1}
        BY <4>1, SliceElements
      <4> QED
        BY <4>1, <4>3, <4>4
    <3>4. Range(Members(r)) = {} /\ r \notin Range(roomList)
      BY <2>0, <3>1 DEF Members, Range, RoomsExist
    <3>5. /\ \A q \in Range(roomList') : q \in Range(roomList) \/ q = r
          /\ Distinct(roomList')
      <4>1. DOMAIN roomList = 1 .. Len(roomList) /\ DOMAIN roomList' = 1 .. Len(roomList) + 1
        BY <2>0, <3>1
      <4>2. \A i \in DOMAIN roomList : roomList'[i] = roomList[i] /\ roomList[i] # r
        BY <2>0, <3>1, <3>4 DEF Range
      <4>0. roomList \in Seq(Rooms) /\ roomList' = Append(roomList, r)
        BY <2>0, <3>1
      <4>3. roomList'[Len(roomList) + 1] = r
        BY <4>0
      <4>4. \A i \in DOMAIN roomList' : i \in DOMAIN roomList \/ i = Len(roomList) + 1
        BY <4>0, <4>1
      <4>5. Distinct(roomList')
        BY <4>2, <4>3, <4>4 DEF ReferenceInv, Distinct
      <4> QED
        BY <4>2, <4>3, <4>4, <4>5 DEF Range
    <3>6. ASSUME NEW m \in Players, NEW q \in Rooms, Held(m, q) PROVE Held(m, q)' /\ q # r
      <4>1. q # r
        BY <3>1, <3>4, <3>6 DEF Held, ReferenceInv
      <4>2. Members(q)' = Members(q)
        BY <3>2, <4>1 DEF Members
      <4>3. Listed(q)' => Listed(q)
        BY <3>5, <4>1 DEF Listed
      <4>4. m \in Range(Members(q)) => m \in Range(Members(q)')
        BY <4>2
      <4> QED
        BY <3>1, <3>6, <4>1, <4>3, <4>4 DEF Held
    <3>7. ASSUME NEW m \in Players, wr'[m] # None PROVE Held(m, wr[m])'
      <4>1. PICK q : q = wr'[m]
        OBVIOUS
      <4>2. q \in Rooms /\ Held(m, q)'
        <5>1. CASE m = p
          BY <2>0, <3>1, <3>3, <4>1, <5>1 DEF Held
        <5>2. CASE m # p
          BY <2>0, <3>1, <3>6, <3>7, <4>1, <5>2
        <5> QED
          BY <5>1, <5>2
      <4> QED
        BY <4>1, <4>2 DEF Held, Members, Listed
    <3>8. ASSUME NEW m \in added' PROVE Held(m, joining[m])'
      <4>1. PICK q : q = joining[m] /\ q = joining'[m]
        BY <3>1
      <4>2. Held(m, q)'
        BY <2>0, <3>1, <3>6, <3>8, <4>1
      <4> QED
        BY <4>1, <4>2 DEF Held, Members, Listed
    <3>9. \A m \in Players, q \in Rooms : <<m, q>> \in late' => arrays'[q] # <<>>
      BY <3>1, <3>2 DEF ReferenceInv
    <3> QED
      BY <3>5, <3>7, <3>8, <3>9 DEF ReferenceInv
  <2>3. ASSUME NEW p \in Players, JoinAdds(p) PROVE ReferenceInv'
    <3>1. PICK r \in Rooms : r = joining[p] /\ arrays[r] # <<>> /\ AddPlayer(r, p)
      BY <2>0, <2>3 DEF JoinAdds, RoomsExist
    <3>2. added' = added \cup {p} /\ UNCHANGED <<roomList, wr, joining, late>>
      BY <2>3 DEF JoinAdds, historyVars
    <3>3. /\ \A q \in Rooms \ {r} : arrays'[q] = arrays[q] /\ size'[q] = size[q]
          /\ Range(Members(r)) \cup {p} \subseteq Range(Members(r)')
      BY <2>0, <3>1, AddPlayerType
    <3>4. \A q \in Rooms : Range(Members(q)) \subseteq Range(Members(q)')
      <4>1. ASSUME NEW q \in Rooms \ {r} PROVE Members(q)' = Members(q)
        BY <3>3, <4>1 DEF Members
      <4> QED
        BY <3>3, <4>1
    <3>5. \A q \in Rooms : arrays[q] # <<>> => arrays'[q] # <<>>
      <4>1. arrays'[r] # <<>>
        BY <3>3 DEF Members, Range
      <4> QED
        BY <3>3, <4>1
    <3>6. \A m \in Players, q \in Rooms : Held(m, q) => Held(m, q)'
      BY <2>h, <3>2, <3>4
    <3>7. Held(p, r)'
      BY <3>3 DEF Held
    <3>8. \A m \in Players : wr'[m] # None => \E q \in Rooms : wr'[m] = q /\ Held(m, q)'
      BY <2>0, <3>2, <3>6
    <3>9. ASSUME NEW m \in added' PROVE \E q \in Rooms : joining'[m] = q /\ Held(m, q)'
      <4>1. CASE m = p
        BY <3>1, <3>2, <3>7, <4>1
      <4>2. CASE m # p
        BY <2>0, <3>2, <3>6, <3>9, <4>2
      <4> QED
        BY <4>1, <4>2
    <3> QED
      BY <2>0, <3>2, <3>4, <3>5, <3>8, <3>9, GrowthKeepsReferences
  <2>4. ASSUME NEW p \in Players, JoinRefers(p) PROVE ReferenceInv'
    <3>1. /\ p \in added /\ wr' = [wr EXCEPT ![p] = joining[p]] /\ added' = added \ {p}
          /\ joining' = [joining EXCEPT ![p] = None]
          /\ UNCHANGED <<roomList, arrays, size, late>>
      BY <2>4 DEF JoinRefers, historyVars
    <3>2. \A q \in Rooms : Members(q)' = Members(q)
      BY <3>1 DEF Members
    <3>3. \A m \in Players, q \in Rooms : Held(m, q) => Held(m, q)'
      BY <3>1, <3>2 DEF Held, Listed, Range
    <3>4. ASSUME NEW m \in Players, wr'[m] # None
          PROVE  \E q \in Rooms : wr'[m] = q /\ Held(m, q)'
      <4>1. CASE m = p
        BY <2>0, <3>1, <3>3, <4>1
      <4>2. CASE m # p
        BY <2>0, <3>1, <3>3, <3>4, <4>2
      <4> QED
        BY <4>1, <4>2
    <3>5. \A m \in added' : \E q \in Rooms : joining'[m] = q /\ Held(m, q)'
      BY <2>0, <3>1, <3>3
    <3> QED
      BY <2>0, <3>1, <3>2, <3>4, <3>5, GrowthKeepsReferences
  <2>5. ASSUME NEW p \in Players, NEW r \in Rooms, LeaveWaitingRoom(p, r)
        PROVE  ReferenceInv'
    <3>1. Listed(r) /\ p \in Range(Members(r)) /\ joining[p] = None
          /\ UNCHANGED <<joining, added>>
      BY <2>5 DEF LeaveWaitingRoom, Free
    <3>2. PICK q \in Rooms : /\ q = FirstRoomOf(p)
                             /\ q \in Range(roomList) /\ p \in Range(Members(q))
      BY <3>1, FirstRoomFound DEF LobbyInv
    <3>3. arrays[q] # <<>> /\ p \notin added
      BY <2>0, <3>1, <3>2, NoneIsNoId DEF RoomsExist
    <3>4. RemoveWaitingRoom(q) \/ RemovePlayer(q, p)
      BY <2>5, <3>2 DEF LeaveWaitingRoom
    <3> QED
      BY <3>1, <3>2, <3>3, <3>4, RemovalsKeepReferences
  <2>6. ASSUME NEW g \in Games, RemoveRoom(g) PROVE ReferenceInv'
    <3>0. UNCHANGED <<joining, added>>
      BY <2>6 DEF RemoveRoom
    <3>1. CASE UNCHANGED <<roomList, arrays, size, wr, late, disturbed>>
      BY <2>1, <3>0, <3>1
    <3>2. PICK r \in Rooms : r = game[g].room
      BY <2>6 DEF RemoveRoom, LobbyInv, GameInv, GameTypeOK, GameState
    <3>3. CASE Listed(r)
      <4>1. arrays[r] # <<>> /\ RemoveWaitingRoom(r)
        BY <2>0, <2>6, <3>2, <3>3 DEF RemoveRoom, RoomsExist, Listed
      <4> QED
        BY <3>0, <4>1, RemovalsKeepReferences
    <3> QED
      BY <2>6, <3>1, <3>2, <3>3 DEF RemoveRoom
  <2>7. ASSUME NEW g \in Games, ResetPlayers(g) PROVE ReferenceInv'
    BY <2>1, <2>7 DEF ResetPlayers, historyVars
  <2>8. ASSUME NEW p \in Players, NEW r \in Rooms, JoinFinds(p, r) PROVE ReferenceInv'
    <3>1. p \notin added
      BY <2>0, <2>8, NoneIsNoId DEF JoinFinds, Free
    <3> QED
      BY <2>1, <2>8, <3>1 DEF JoinFinds, historyVars
  <2>9. ASSUME NEW g \in Games, ReadyTimeout(g) PROVE ReferenceInv'
    BY <2>1, <2>9 DEF ReadyTimeout, historyVars
  <2>10. ASSUME UNCHANGED roomVars, UNCHANGED late PROVE ReferenceInv'
    BY <2>1, <2>10 DEF roomVars
  <2>11. CASE UNCHANGED roomVars
    <3>1. ASSUME NEW g \in Games, Launch(g) PROVE ReferenceInv'
      <4>1. UNCHANGED late
        BY <3>1 DEF Launch
      <4> QED
        BY <2>10, <2>11, <4>1
    <3>2. CASE UNCHANGED historyVars
      BY <2>10, <2>11, <3>2 DEF historyVars
    <3>3. CASE UNCHANGED vars
      BY <2>10, <2>11, <3>3 DEF vars, historyVars
    <3> QED
      BY <2>5, <2>6, <3>1, <3>2, <3>3, HistorySteps
  <2> QED
    BY <2>2, <2>3, <2>4, <2>5, <2>6, <2>7, <2>8, <2>9, <2>11, RoomSteps DEF vars
<1>3. LobbyInv /\ ReferenceInv => BackReference
  <2> SUFFICES ASSUME LobbyInv, ReferenceInv PROVE BackReference
    OBVIOUS
  <2> QED
    BY DEF ReferenceInv, Held, BackReference
<1> QED
  BY <1>1, <1>2, <1>3, LobbyInvariant, PTL DEF Spec
=============================================================================
