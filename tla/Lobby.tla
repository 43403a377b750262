--------------------------------- MODULE Lobby ---------------------------------
(***************************************************************************)
(* Waiting rooms, readiness and the life of a game (server/waitingroom.go,  *)
(* server/game.go, server/server.go, ponggame/waiting_room.go,              *)
(* ponggame/game.go), free-to-play mode, isF2P = true.                      *)
(*                                                                          *)
(* A client creates a room; the handler lists it and signals the goroutine  *)
(* Run, which starts a manager for every listed room that has none.  The    *)
(* manager ticks until two players of the room are ready (each keeps a game *)
(* stream open), spawns the game's lifecycle goroutine and exits.  The      *)
(* lifecycle starts a game, waits for one frame sender per player, and      *)
(* dismantles game and room.                                                *)
(*                                                                          *)
(* Go slices share their backing array: the game keeps the slice of players *)
(* the room had when it started, and the room goes on writing to the array. *)
(* The arrays are modelled; a capacity doubles when an append outgrows it.  *)
(***************************************************************************)
EXTENDS Naturals, Sequences, FiniteSets, SequencesExt

CONSTANTS
    Players,     \* client identities, each with a session and a notifier stream
    Rooms,       \* waiting-room ids, each used by one CreateWaitingRoom
    Streams,     \* StartGameStream handlers
    CallerOf,    \* whose they are
    Games,       \* runs of handleGameLifecycle
    RoomCap,     \* bound on the players of a room: the code has none
    MaxLeaves,   \* bound on the calls of LeaveWaitingRoom
    None

ASSUME CallerAssumption == CallerOf \in [Streams -> Players]
ASSUME NoneAssumption == None \notin Players \cup Rooms \cup Streams \cup Games
ASSUME BoundAssumption == RoomCap \in Nat /\ MaxLeaves \in Nat

VARIABLES
    roomList,    \* gameManager.WaitingRooms, in order
    arrays,      \* per room, the arrays WaitingRoom.Players has used, the last in use
    size,        \* len(WaitingRoom.Players)
    host,        \* WaitingRoom.HostID, None before the room is created
    cancelled,   \* rooms whose Ctx is done
    wr,          \* Player.WR
    joining,     \* JoinWaitingRoom past GetWaitingRoom: the room found
    added,       \* players whose JoinWaitingRoom is past AddPlayer
    toSignal,    \* rooms whose CreateWaitingRoom has not signalled yet
    signal,      \* whether the channel waitingRoomCreated holds its one element
    scan,        \* rooms Run has yet to look at
    wrManagers,  \* s.wrManagers
    managing,    \* number of manageWaitingRoom goroutines of each room
    stream,      \* local state of each StartGameStream handler
    active,      \* s.activeGameStreams: whose cancel function is stored
    gameStream,  \* Player.GameStream
    ready,       \* players with Player.Ready
    game,        \* local state of each handleGameLifecycle goroutine
    frameCh,     \* Player.FrameCh: the game that made it, None if nil
    closed,      \* closed frame channels <<game, player>>
    crashed,     \* the process has panicked
    leaves,      \* number of LeaveWaitingRoom calls, for MaxLeaves
    late,        \* history: <<p, r>>: r lost p before p referred to it
    mistaken,    \* history: rooms cancelled by a departure that changed another
    disturbed    \* history: games whose players' slice shrank or that shared a player

historyVars == <<late, mistaken, disturbed>>
roomVars == <<roomList, arrays, size, host, cancelled, wr, joining, added, leaves>>
runVars == <<toSignal, signal, scan, wrManagers, managing>>
streamVars == <<stream, active, gameStream, ready>>
gameVars == <<game, frameCh, closed, crashed>>
vars == <<roomVars, runVars, streamVars, gameVars, historyVars>>

-----------------------------------------------------------------------------
(* Data *)

\* A handler is idle, open (waiting for its context), or done (the context has
\* ended, the handler has not seen it yet).
StreamState == {"idle", "open", "done"}

\* A lifecycle: spawned, playing until its senders stop, ended, reset, done.
\* array and len are game.Players, a slice of the room's array of that index.
\* frames is the main frame channel, closed by the last point of the game, and
\* gone when the distributor has returned.
NoGame == [phase |-> "none", room |-> None, array |-> 0, len |-> 0, sending |-> {},
           frames |-> "open"]
GameState ==
    [phase : {"none", "spawned", "playing", "ended", "reset", "done"},
     room : Rooms \cup {None}, array : Nat, len : Nat, sending : SUBSET Players,
     frames : {"open", "closed", "distributed", "gone"}]

Init ==
    /\ roomList = <<>>
    /\ arrays = [r \in Rooms |-> <<>>]
    /\ size = [r \in Rooms |-> 0]
    /\ host = [r \in Rooms |-> None]
    /\ cancelled = {}
    /\ wr = [p \in Players |-> None]
    /\ joining = [p \in Players |-> None]
    /\ added = {}
    /\ toSignal = {}
    /\ signal = FALSE
    /\ scan = <<>>
    /\ wrManagers = {}
    /\ managing = [r \in Rooms |-> 0]
    /\ stream = [h \in Streams |-> "idle"]
    /\ active = [p \in Players |-> None]
    /\ gameStream = [p \in Players |-> None]
    /\ ready = {}
    /\ game = [g \in Games |-> NoGame]
    /\ frameCh = [p \in Players |-> None]
    /\ closed = {}
    /\ crashed = FALSE
    /\ leaves = 0
    /\ late = {}
    /\ mistaken = {}
    /\ disturbed = {}

-----------------------------------------------------------------------------
(* Slices of players *)

Listed(r) == r \in Range(roomList)
Members(r) == IF arrays[r] = <<>> THEN <<>> ELSE SubSeq(Last(arrays[r]), 1, size[r])

\* AddPlayer: the append writes behind the last player of the array in use, or
\* copies the players to an array of twice the capacity.
AddPlayer(r, p) ==
    LET s == arrays[r]
        a == Last(s)
        n == size[r]
    IN IF p \in Range(Members(r))
       THEN UNCHANGED <<arrays, size>>
       ELSE /\ size' = [size EXCEPT ![r] = n + 1]
            /\ arrays' = [arrays EXCEPT ![r] =
                   IF n < 2 ^ (Len(s) - 1)
                   THEN [s EXCEPT ![Len(s)] =
                            IF n < Len(a) THEN [a EXCEPT ![n + 1] = p] ELSE Append(a, p)]
                   ELSE Append(s, Append(Members(r), p))]

\* RemovePlayer on an array a whose first n elements are the slice: the elements
\* behind p move one to the front, the last one stays where it is.
Without(a, n, p) ==
    LET i == CHOOSE j \in 1 .. n : a[j] = p
    IN [j \in DOMAIN a |-> IF i <= j /\ j < n THEN a[j + 1] ELSE a[j]]

\* RemoveWaitingRoom removes each player while it ranges over the very array the
\* removals shift: every second element moves to the front, and those of them
\* that are not the last of the slice are missed (MCLobby states the loop).
Emptied(a, n) ==
    [k \in DOMAIN a |-> IF k <= n THEN a[IF 2 * k <= n THEN 2 * k ELSE n] ELSE a[k]]
Missed(n) == IF n = 0 THEN 0 ELSE (n - 1) \div 2

\* History of a slice that loses the players of G: who is between AddPlayer and the
\* assignment of Player.WR, and which games were started with this slice.
Shrinks(r, G) ==
    /\ late' = late \cup ({p \in G \cap added : joining[p] = r} \X {r})
    /\ disturbed' = disturbed \cup {g \in Games : game[g].room = r}

\* Mutant: the slice ends one short.
SetMembersShort(r, a, n) ==
    /\ arrays' = [arrays EXCEPT ![r][Len(arrays[r])] = a]
    /\ size' = [size EXCEPT ![r] = n - 1]
    /\ wr' = wr
    /\ Shrinks(r, {})

\* Mutant: the back reference stays.
SetMembersOnly(r, a, n) ==
    /\ arrays' = [arrays EXCEPT ![r][Len(arrays[r])] = a]
    /\ size' = [size EXCEPT ![r] = n]
    /\ wr' = wr
    /\ Shrinks(r, {})

\* The slice of room r becomes the first n elements of a, and whoever is no longer
\* in it loses his Player.WR.
SetMembers(r, a, n) ==
    LET gone == Range(Members(r)) \ Range(SubSeq(a, 1, n)) IN
    /\ arrays' = [arrays EXCEPT ![r][Len(arrays[r])] = a]
    /\ size' = [size EXCEPT ![r] = n]
    /\ wr' = [p \in Players |-> IF p \in gone THEN None ELSE wr[p]]
    /\ Shrinks(r, gone)

RemoveWaitingRoom(r) ==
    /\ roomList' = RemoveFirst(roomList, r)
    /\ SetMembers(r, Emptied(Last(arrays[r]), size[r]), Missed(size[r]))

RemovePlayer(r, p) ==
    /\ SetMembers(r, Without(Last(arrays[r]), size[r], p), size[r] - 1)
    /\ UNCHANGED roomList

-----------------------------------------------------------------------------
(* Room calls *)

\* Bound: a client makes no other call while its join is in flight.
Free(p) == joining[p] = None

\* CreateWaitingRoom up to the append to the list of rooms.
CreateWaitingRoom(p, r) ==
    /\ Free(p)
    /\ host[r] = None                                   \* fresh random id
    /\ wr[p] = None
    /\ host' = [host EXCEPT ![r] = p]
    /\ arrays' = [arrays EXCEPT ![r] = << <<p>> >>]
    /\ size' = [size EXCEPT ![r] = 1]
    /\ wr' = [wr EXCEPT ![p] = r]
    /\ roomList' = Append(roomList, r)
    /\ toSignal' = toSignal \cup {r}
    /\ UNCHANGED <<cancelled, joining, added, leaves, signal, scan, wrManagers, managing,
                   streamVars, gameVars, historyVars>>

\* Mutant: the channel has no buffer, and Run may be busy.
SignalUnbuffered(r) ==
    /\ r \in toSignal
    /\ toSignal' = toSignal \ {r}
    /\ signal' \in {TRUE, signal}
    /\ UNCHANGED <<roomVars, scan, wrManagers, managing, streamVars, gameVars, historyVars>>

\* The send that does not block: a full channel already promises a scan.
SignalCreated(r) ==
    /\ r \in toSignal
    /\ toSignal' = toSignal \ {r}
    /\ signal' = TRUE
    /\ UNCHANGED <<roomVars, scan, wrManagers, managing, streamVars, gameVars, historyVars>>

InListedRoom(p) == \E q \in Rooms : Listed(q) /\ p \in Range(Members(q))

\* JoinWaitingRoom: the check for other rooms and GetWaitingRoom, then AddPlayer,
\* under the lock of the room, and after that, under none, the assignment of WR.
JoinFinds(p, r) ==
    /\ Free(p)
    /\ InListedRoom(p) => wr[p] = None
    /\ Listed(r)
    /\ joining' = [joining EXCEPT ![p] = r]
    /\ UNCHANGED <<roomList, arrays, size, host, cancelled, wr, added, leaves, runVars,
                   streamVars, gameVars, historyVars>>

JoinAdds(p) ==
    LET r == joining[p] IN
    /\ r # None
    /\ p \notin added
    /\ p \in Range(Members(r)) \/ size[r] < RoomCap
    /\ AddPlayer(r, p)
    /\ added' = added \cup {p}
    /\ UNCHANGED <<roomList, host, cancelled, wr, joining, leaves, runVars, streamVars,
                   gameVars, historyVars>>

JoinRefers(p) ==
    /\ p \in added
    /\ wr' = [wr EXCEPT ![p] = joining[p]]
    /\ joining' = [joining EXCEPT ![p] = None]
    /\ added' = added \ {p}
    /\ UNCHANGED <<roomList, arrays, size, host, cancelled, leaves, runVars, streamVars,
                   gameVars, historyVars>>

\* GetWaitingRoomFromPlayer: the first listed room that has the player.
FirstRoomOf(p) ==
    roomList[CHOOSE i \in DOMAIN roomList :
                /\ p \in Range(Members(roomList[i]))
                /\ \A j \in 1 .. (i - 1) : p \notin Range(Members(roomList[j]))]

\* Calling the stored cancel functions of the players of P.
CancelStreams(P) ==
    [h \in Streams |-> IF stream[h] = "open" /\ \E p \in P : active[p] = h
                       THEN "done" ELSE stream[h]]

LeaveWaitingRoom(p, r) ==
    /\ Free(p)
    /\ leaves < MaxLeaves
    /\ leaves' = leaves + 1
    /\ Listed(r)
    /\ p \in Range(Members(r))
    /\ stream' = CancelStreams(Range(Members(r)))
    /\ LET q == FirstRoomOf(p) IN
       \/ /\ host[q] = p
          /\ RemoveWaitingRoom(q)
          /\ cancelled' = cancelled \cup {r}
          /\ mistaken' = mistaken \cup ({r} \ {q})
       \/ /\ host[q] # p
          /\ RemovePlayer(q, p)
          /\ UNCHANGED <<cancelled, mistaken>>
    /\ UNCHANGED <<host, joining, added, runVars, active, gameStream, ready, gameVars>>

-----------------------------------------------------------------------------
(* Game streams and readiness *)

StartGameStream(h) ==
    LET p == CallerOf[h] IN
    /\ Free(p)
    /\ stream[h] = "idle"
    /\ wr[p] # None
    /\ stream' = [stream EXCEPT ![h] = "open"]
    /\ active' = [active EXCEPT ![p] = h]
    /\ gameStream' = [gameStream EXCEPT ![p] = h]
    /\ ready' = ready \cup {p}
    /\ UNCHANGED <<roomVars, runVars, gameVars, historyVars>>

\* The cancel function is stored before the checks, and deleted on their error.
RefuseGameStream(p) ==
    /\ Free(p)
    /\ wr[p] = None
    /\ active[p] # None
    /\ active' = [active EXCEPT ![p] = None]
    /\ UNCHANGED <<stream, gameStream, ready, roomVars, runVars, gameVars,
                   historyVars>>

\* The client closes the stream or its connection dies.
ClientCloses(h) ==
    /\ stream[h] = "open"
    /\ stream' = [stream EXCEPT ![h] = "done"]
    /\ UNCHANGED <<active, gameStream, ready, roomVars, runVars, gameVars, historyVars>>

\* Mutant: the exit leaves the flag alone.
ReadyUnchanged(h) == ready

\* Ready after the exit of h.
ReadyAfter(h) == ready \ {CallerOf[h]}

\* The handler sees its context done.  It clears whatever stream the player has.
EndGameStream(h) ==
    LET p == CallerOf[h] IN
    /\ stream[h] = "done"
    /\ stream' = [stream EXCEPT ![h] = "idle"]
    /\ ready' = ReadyAfter(h)
    /\ gameStream' = [gameStream EXCEPT ![p] = None]
    /\ active' = [active EXCEPT ![p] = None]
    /\ UNCHANGED <<roomVars, runVars, gameVars, historyVars>>

UnreadyGameStream(p) ==
    /\ Free(p)
    /\ wr[p] # None
    /\ ready' = ready \ {p}
    /\ stream' = CancelStreams({p})
    /\ active' = [active EXCEPT ![p] = None]
    /\ gameStream' = [gameStream EXCEPT ![p] = None]
    /\ UNCHANGED <<roomVars, runVars, gameVars, historyVars>>

-----------------------------------------------------------------------------
(* Run and the room managers *)

\* Mutant: one signal, one room.
NewestRoom == IF roomList = <<>> THEN <<>> ELSE <<Last(roomList)>>

\* WaitingRoomsSnapshot
WaitingRoomsSnapshot == roomList

RunReceives ==
    /\ scan = <<>>
    /\ signal
    /\ signal' = FALSE
    /\ scan' = WaitingRoomsSnapshot
    /\ UNCHANGED <<roomVars, toSignal, wrManagers, managing, streamVars, gameVars, historyVars>>

\* Mutant: the test of wrManagers is left out.
SkippedIfCancelled == cancelled

\* The rooms a scan passes over.
Skipped == cancelled \cup wrManagers

RunScans ==
    /\ scan # <<>>
    /\ scan' = Tail(scan)
    /\ IF Head(scan) \in Skipped
       THEN UNCHANGED <<wrManagers, managing>>
       ELSE /\ wrManagers' = wrManagers \cup {Head(scan)}
            /\ managing' = [managing EXCEPT ![Head(scan)] = @ + 1]
    /\ UNCHANGED <<roomVars, toSignal, signal, streamVars, gameVars, historyVars>>

ManagerReturns(r) ==
    /\ managing' = [managing EXCEPT ![r] = @ - 1]
    /\ wrManagers' = wrManagers \ {r}
    /\ UNCHANGED <<roomVars, toSignal, signal, scan, streamVars, frameCh,
                   closed, crashed, historyVars>>

ReadyPlayers(r) == SelectSeq(Members(r), LAMBDA p : p \in ready)

\* Mutant: the tick counts one ready player as enough.
ManagerStartsEarly(r, g) ==
    /\ managing[r] > 0
    /\ Len(ReadyPlayers(r)) >= 1
    /\ game[g].phase = "none"
    /\ game' = [game EXCEPT ![g] = [NoGame EXCEPT !.phase = "spawned", !.room = r]]
    /\ ManagerReturns(r)

\* A tick with two ready players: go handleGameLifecycle, and return.
ManagerStarts(r, g) ==
    /\ managing[r] > 0
    /\ Len(ReadyPlayers(r)) >= 2
    /\ game[g].phase = "none"
    /\ game' = [game EXCEPT ![g] = [NoGame EXCEPT !.phase = "spawned", !.room = r]]
    /\ ManagerReturns(r)

\* Mutant: the manager gives up when a tick finds too few players ready.
ManagerGivesUp(r) ==
    /\ managing[r] > 0
    /\ r \in cancelled \/ Len(ReadyPlayers(r)) < 2
    /\ game' = game
    /\ ManagerReturns(r)

\* The room's context is done.
ManagerCancelled(r) ==
    /\ managing[r] > 0
    /\ r \in cancelled
    /\ game' = game
    /\ ManagerReturns(r)

-----------------------------------------------------------------------------
(* The life of a game *)

\* game.Players, as the array reads now.
GamePlayers(g) ==
    IF game[g].array = 0 THEN <<>>
    ELSE SubSeq(arrays[game[g].room][game[g].array], 1, game[g].len)

\* NewEngine indexes the first two players and panics when there are fewer.
TooFew(g) == size[game[g].room] < 2

\* Games that share a player with a game of the players P: its channels are replaced,
\* and closed by both.
Sharing(P) == {g \in Games : Range(GamePlayers(g)) \cap P # {}}

\* StartGame, Run and one sender goroutine per player.
Launch(g) ==
    LET r == game[g].room
        P == Range(Members(r))
    IN
    /\ game[g].phase = "spawned"
    /\ IF TooFew(g)
       THEN /\ crashed' = TRUE
            /\ UNCHANGED <<game, frameCh, disturbed>>
       ELSE /\ game' = [game EXCEPT ![g] =
                   [@ EXCEPT !.phase = "playing", !.array = Len(arrays[r]),
                             !.len = size[r], !.sending = P]]
            /\ frameCh' = [p \in Players |-> IF p \in P THEN g ELSE frameCh[p]]
            /\ crashed' = crashed
            /\ disturbed' = disturbed \cup
                   IF Sharing(P) = {} THEN {} ELSE Sharing(P) \cup {g}
    /\ UNCHANGED <<closed, roomVars, runVars, streamVars, late, mistaken>>

\* onReadyTimeout: the players did not signal that they are ready to play.  The
\* timer is armed anew when the rounds are over, and nobody stops it at the end.
ReadyTimeout(g) ==
    /\ game[g].phase \in {"playing", "ended", "reset"}
    /\ cancelled' = cancelled \cup {game[g].room}
    /\ UNCHANGED <<roomList, arrays, size, host, wr, joining, added, leaves, runVars,
                   streamVars, gameVars, historyVars>>

\* shouldEndGame: a player has the last point; the main frame channel is closed.
GameWon(g) ==
    /\ game[g].phase = "playing"
    /\ game[g].frames = "open"
    /\ game' = [game EXCEPT ![g].frames = "closed"]
    /\ UNCHANGED <<frameCh, closed, crashed, roomVars, runVars, streamVars,
                   historyVars>>

\* The channels of the players of game.Players, one of which is closed already or
\* belongs to a player who is there twice.
FrameChannels(g) ==
    {<<frameCh[p], p>> : p \in {q \in Players : q \in Range(GamePlayers(g)) /\ frameCh[q] # None}}
ClosesTwice(g) ==
    LET s == GamePlayers(g) IN
    \/ FrameChannels(g) \cap closed # {}
    \/ \E i, j \in DOMAIN s : i # j /\ s[i] = s[j] /\ frameCh[s[i]] # None

\* distributeFrames sees the main channel closed and closes the channel of each
\* of the game's players; to close a closed channel is a panic.
Distribute(g) ==
    /\ game[g].frames = "closed"
    /\ IF ClosesTwice(g)
       THEN /\ crashed' = TRUE
            /\ UNCHANGED <<game, closed>>
       ELSE /\ closed' = closed \cup FrameChannels(g)
            /\ game' = [game EXCEPT ![g].frames = "distributed"]
            /\ crashed' = crashed
    /\ UNCHANGED <<frameCh, roomVars, runVars, streamVars, historyVars>>

\* distributeFrames sees the context of the game done.
DistributorGone(g) ==
    /\ game[g].phase # "none"
    /\ game[g].frames = "closed"
    /\ game[g].room \in cancelled \/ game[g].phase \in {"ended", "reset", "done"}
    /\ game' = [game EXCEPT ![g].frames = "gone"]
    /\ UNCHANGED <<frameCh, closed, crashed, roomVars, runVars, streamVars,
                   historyVars>>

\* Mutant: the sender looks at its channel only.
SenderStopsOnClose(g, p) ==
    /\ p \in game[g].sending
    /\ <<g, p>> \in closed
    /\ game' = [game EXCEPT ![g].sending = @ \ {p}]
    /\ UNCHANGED <<frameCh, closed, crashed, roomVars, runVars, streamVars,
                   historyVars>>

\* sendGameUpdates returns: the room's context is done, or its channel is closed.
SenderStops(g, p) ==
    /\ p \in game[g].sending
    /\ game[g].room \in cancelled \/ <<g, p>> \in closed
    /\ game' = [game EXCEPT ![g].sending = @ \ {p}]
    /\ UNCHANGED <<frameCh, closed, crashed, roomVars, runVars, streamVars,
                   historyVars>>

\* sendGameUpdates returns: the player's stream is broken, Send fails.
SendFails(g, p) ==
    /\ p \in game[g].sending
    /\ gameStream[p] # None
    /\ stream[gameStream[p]] = "done"
    /\ game' = [game EXCEPT ![g].sending = @ \ {p}]
    /\ UNCHANGED <<frameCh, closed, crashed, roomVars, runVars, streamVars,
                   historyVars>>

\* wg.Wait returns: Cleanup, and handleGameEnd on the ready players of the room.
GameEnds(g) ==
    LET P == Range(ReadyPlayers(game[g].room)) IN
    /\ game[g].phase = "playing"
    /\ game[g].sending = {}
    /\ game' = [game EXCEPT ![g].phase = "ended"]
    /\ ready' = ready \ P
    /\ stream' = CancelStreams(P)
    /\ active' = [p \in Players |-> IF p \in P THEN None ELSE active[p]]
    /\ gameStream' = [p \in Players |-> IF p \in P THEN None ELSE gameStream[p]]
    /\ UNCHANGED <<frameCh, closed, crashed, roomVars, runVars, historyVars>>

\* The deferred ResetPlayer of every player in game.Players.
ResetPlayers(g) ==
    LET P == Range(GamePlayers(g)) IN
    /\ game[g].phase = "ended"
    /\ game' = [game EXCEPT ![g].phase = "reset"]
    /\ wr' = [p \in Players |-> IF p \in P THEN None ELSE wr[p]]
    /\ ready' = ready \ P
    /\ gameStream' = [p \in Players |-> IF p \in P THEN None ELSE gameStream[p]]
    /\ UNCHANGED <<roomList, arrays, size, host, cancelled, joining, added, leaves, runVars,
                   stream, active, frameCh, closed, crashed, historyVars>>

\* Mutant: a room that is cancelled already is taken to be unlisted.
RemoveRoomOnce(g) ==
    LET r == game[g].room IN
    /\ game[g].phase = "reset"
    /\ game' = [game EXCEPT ![g].phase = "done"]
    /\ cancelled' = cancelled \cup {r}
    /\ IF Listed(r) /\ r \notin cancelled THEN RemoveWaitingRoom(r)
       ELSE UNCHANGED <<roomList, arrays, size, wr, late, disturbed>>
    /\ UNCHANGED <<host, joining, added, leaves, runVars, streamVars, frameCh,
                   closed, crashed, mistaken>>

\* removeWaitingRoom: cancel the room, and unlist it if it still is listed.
RemoveRoom(g) ==
    LET r == game[g].room IN
    /\ game[g].phase = "reset"
    /\ game' = [game EXCEPT ![g].phase = "done"]
    /\ cancelled' = cancelled \cup {r}
    /\ IF Listed(r) THEN RemoveWaitingRoom(r)
       ELSE UNCHANGED <<roomList, arrays, size, wr, late, disturbed>>
    /\ UNCHANGED <<host, joining, added, leaves, runVars, streamVars, frameCh,
                   closed, crashed, mistaken>>

-----------------------------------------------------------------------------

ClientStep ==
    \/ \E p \in Players, r \in Rooms :
          CreateWaitingRoom(p, r) \/ JoinFinds(p, r) \/ LeaveWaitingRoom(p, r)
    \/ \E p \in Players : RefuseGameStream(p) \/ UnreadyGameStream(p)
    \/ \E h \in Streams : StartGameStream(h) \/ ClientCloses(h)

HandlerStep ==
    \/ \E p \in Players : JoinAdds(p) \/ JoinRefers(p)
    \/ \E h \in Streams : EndGameStream(h)

\* From the announcement of a room to its manager's last step.
RunStep ==
    \/ \E r \in Rooms : SignalCreated(r)
    \/ RunReceives
    \/ RunScans
    \/ \E r \in Rooms : ManagerCancelled(r) \/ \E g \in Games : ManagerStarts(r, g)

\* What a lifecycle and its helpers do on their own.
GameStep(g) ==
    \/ Launch(g)
    \/ Distribute(g)
    \/ DistributorGone(g)
    \/ \E p \in Players : SenderStops(g, p)
    \/ GameEnds(g)
    \/ ResetPlayers(g)
    \/ RemoveRoom(g)

\* What players and the network make happen to a game.
GameEvent(g) ==
    \/ ReadyTimeout(g)
    \/ GameWon(g)
    \/ \E p \in Players : SendFails(g, p)

Next ==
    /\ ~crashed
    /\ ClientStep \/ HandlerStep \/ RunStep \/ \E g \in Games : GameStep(g) \/ GameEvent(g)

Spec == Init /\ [][Next]_vars

\* Goroutines that can run do, and the manager's ticker ticks.  Nothing is assumed
\* of the clients, the players or the handlers of the streams.  Rooms and games
\* take finitely many of these steps, so that fairness to them together is enough.
Fairness ==
    /\ WF_vars(~crashed /\ RunStep)
    /\ WF_vars(~crashed /\ \E g \in Games : GameStep(g))

FairSpec == Spec /\ Fairness

-----------------------------------------------------------------------------
(* Properties *)

\* Every variable has its type, and a room's slice lies within its array.
RoomTypeOK ==
    /\ roomList \in Seq(Rooms)
    /\ arrays \in [Rooms -> Seq(Seq(Players))]
    /\ size \in [Rooms -> Nat]
    /\ \A r \in Rooms : size[r] <= IF arrays[r] = <<>> THEN 0 ELSE Len(Last(arrays[r]))
    /\ host \in [Rooms -> Players \cup {None}]
    /\ cancelled \subseteq Rooms
    /\ wr \in [Players -> Rooms \cup {None}]
    /\ joining \in [Players -> Rooms \cup {None}]
    /\ added \subseteq {p \in Players : joining[p] # None}
    /\ leaves \in 0 .. MaxLeaves
RunTypeOK ==
    /\ toSignal \subseteq Rooms
    /\ signal \in BOOLEAN
    /\ scan \in Seq(Rooms)
    /\ wrManagers \subseteq Rooms
    /\ managing \in [Rooms -> Nat]
StreamTypeOK ==
    /\ stream \in [Streams -> StreamState]
    /\ active \in [Players -> Streams \cup {None}]
    /\ gameStream \in [Players -> Streams \cup {None}]
    /\ ready \subseteq Players
GameTypeOK ==
    /\ game \in [Games -> GameState]
    /\ frameCh \in [Players -> Games \cup {None}]
    /\ closed \subseteq Games \X Players
    /\ crashed \in BOOLEAN
HistoryTypeOK ==
    /\ late \subseteq Players \X Rooms
    /\ mistaken \subseteq Rooms
    /\ disturbed \subseteq Games
TypeOK == RoomTypeOK /\ RunTypeOK /\ StreamTypeOK /\ GameTypeOK /\ HistoryTypeOK

\* wrManagers is exact: a room with an entry has one manager goroutine, a room
\* without has none, although managers come and go while Run scans old snapshots.
OneManager ==
    \A r \in Rooms : managing[r] = IF r \in wrManagers THEN 1 ELSE 0

\* The channel of one element loses no room: a listed room that never had a
\* manager is still announced, by its creator, the pending signal or the scan.
NoRoomForgotten ==
    \A r \in Rooms :
        /\ Listed(r)
        /\ r \notin cancelled \cup wrManagers
        /\ \A g \in Games : game[g].room # r
        => r \in toSignal \/ signal \/ r \in Range(scan)

\* game.go:205: no zombie readiness.  A ready player has a game stream handler
\* that is still to see its context end, however streams and games overlap.
ReadyHasStream ==
    \A p \in ready : \E h \in Streams : stream[h] # "idle" /\ CallerOf[h] = p

\* A player refers to a room (and is refused another by CreateWaitingRoom) only
\* while that room's slice holds him, however the room was dismantled; but for one whom
\* it lost between AddPlayer and the assignment of WR, and then it is off the list.
BackReference ==
    \A p \in Players : wr[p] # None =>
        \/ p \in Range(Members(wr[p]))
        \/ <<p, wr[p]>> \in late /\ ~Listed(wr[p])

\* NewEngine indexes players that are there, and distributeFrames closes no channel
\* twice: a game panics only if the slice it shares with its room has lost a player, or
\* if it has a player in common with another game.
PanicNeedsDisturbance ==
    \A g \in Games \ disturbed :
        /\ game[g].phase = "spawned" => ~TooFew(g)
        /\ game[g].frames = "closed" => ~ClosesTwice(g)

\* A room that is listed and not closed gets a manager or its game.
RoomGetsManager ==
    \A r \in Rooms :
        Listed(r) ~> \/ managing[r] > 0 \/ \E g \in Games : game[g].room = r
                     \/ r \in cancelled \/ ~Listed(r) \/ crashed

\* Two players who stay ready in a listed room get a game.
ReadyPlayersPlay ==
    \A r \in Rooms :
        (Listed(r) /\ Len(ReadyPlayers(r)) >= 2)
            ~> \/ \E g \in Games : game[g].room = r
               \/ Len(ReadyPlayers(r)) < 2 \/ ~Listed(r) \/ r \in cancelled \/ crashed

\* Whoever cancels a room unlists it, or the room's lifecycle is on the way to the end
\* that does.  But for a room that was cancelled by a departure from another: a player in
\* two listed rooms leaves the first of them, whichever he names.
CancelledRoomHasEnd ==
    \A r \in cancelled \ mistaken :
        Listed(r) => \E g \in Games : /\ game[g].room = r
                                      /\ game[g].phase \in {"playing", "ended", "reset"}

\* A game whose room is cancelled comes to its end, for no sender waits for ever.
CancelledGameEnds ==
    \A g \in Games :
        (game[g].phase = "playing" /\ game[g].room \in cancelled)
            ~> (game[g].phase = "done" \/ crashed)

\* server.go:464 "Ensure we only start a single manager goroutine per waiting
\* room."  No manager is started for a room in which a game is being played.
NoManagerDuringGame ==
    \A g \in Games : game[g].phase = "playing" => managing[game[g].room] = 0

\* waitingroom.go:175 "Disallow joining multiple rooms."
InOneRoom ==
    \A p \in Players, q, r \in Rooms :
        Listed(q) /\ Listed(r) /\ p \in Range(Members(q)) /\ p \in Range(Members(r)) => q = r

\* game.go:554 "Signal that the game has ended by closing the frame channel.  This
\* will cause distributeFrames to exit and close player channels."  When it has, in
\* a room that is not cancelled, no sender of the game waits on an open channel.
SendersReleased ==
    \A g \in Games : game[g].frames = "distributed" /\ game[g].room \notin cancelled =>
        \A p \in game[g].sending : <<g, p>> \in closed
=============================================================================
