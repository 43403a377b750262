--------------------------- MODULE SettlementProofs ---------------------------
(***************************************************************************)
(* Type correctness of the settlement and its two safety invariants about  *)
(* money, for any number of players, rooms, escrows, handlers and games.   *)
(***************************************************************************)
EXTENDS Settlement, SequenceLemmas

-----------------------------------------------------------------------------
(* Lemmas about the operators of Settlement *)

\* The survivors of RemoveWaitingRoom's loop are a sequence of the same type.
LEMMA SurvivorsType ==
    ASSUME NEW S, NEW s \in Seq(S)
    PROVE  Survivors(s) \in Seq(S)
BY DEF Survivors

\* escrowForRoomPlayer returns an open escrow or nothing.
LEMMA EscrowForType ==
    ASSUME TypeOK, NEW p \in Players, NEW r \in Rooms
    PROVE  /\ EscrowFor(p, r) \in Escrows \cup {None}
           /\ EscrowFor(p, r) # None => EscrowFor(p, r) = roomEscrow[p][r]
BY DEF TypeOK, EscrowFor

\* A draft is a transaction.
LEMMA DraftType ==
    ASSUME NEW e \in Escrows, NEW f \in Escrows, NEW p \in Players
    PROVE  Draft(e, f, p) \in Tx
BY InputAssumption DEF Draft, Tx

\* Dropping the contexts of some escrows leaves contexts.
LEMMA ClearPreSignsType ==
    ASSUME TypeOK, NEW E
    PROVE  ClearPreSigns(E) \in [Escrows -> [Inputs -> Context \cup {None}]]
BY DEF TypeOK, ClearPreSigns, NoPresigns

\* A stored context, whichever branch it is for, is a context.
LEMMA StorePresigType ==
    ASSUME TypeOK, NEW h \in Streams, NEW e \in Escrows, NEW b \in Branches,
           stream[h].pc # "idle", StorePresig(h, e, b)
    PROVE  preSign' \in [Escrows -> [Inputs -> Context \cup {None}]]
<1>1. stream[h] \in BusyStream
  BY DEF TypeOK, IdleStream
<1>2. /\ stream[h].my \in Escrows /\ stream[h].opp \in Escrows
      /\ stream[h].caller \in Players /\ stream[h].room \in Rooms
  BY <1>1 DEF BusyStream
<1>3. Draft(stream[h].my, stream[h].opp, OwnerOf[e]) \in Tx
  BY <1>2, DraftType, OwnerAssumption
<1>4. [by |-> stream[h].caller, tx |-> Draft(stream[h].my, stream[h].opp, OwnerOf[e]),
       branch |-> b, room |-> stream[h].room] \in Context
  BY <1>2, <1>3 DEF Context
<1> QED
  BY <1>4 DEF TypeOK, StorePresig

\* A goroutine that has just been spawned, and the updates of its record.
LEMMA NoGameType ==
    /\ NoGame \in GameState
    /\ \A r \in Rooms : [NoGame EXCEPT !.phase = "spawned", !.room = r] \in GameState
<1>1. <<>> \in Seq(Players)
  OBVIOUS
<1> QED
  BY <1>1 DEF NoGame, GameState

\* Marking the games of some rooms as disturbed changes only their history flag,
\* and only from calm to disturbed.
LEMMA DisturbedType ==
    ASSUME TypeOK, NEW R
    PROVE  /\ Disturbed(R) \in [Games -> GameState]
           /\ \A g \in Games :
                /\ Disturbed(R)[g].phase = game[g].phase
                /\ Disturbed(R)[g].room = game[g].room
                /\ Disturbed(R)[g].players = game[g].players
                /\ Disturbed(R)[g].winner = game[g].winner
                /\ Disturbed(R)[g].paid = game[g].paid
                /\ Disturbed(R)[g].calm <=> game[g].calm /\ game[g].room \notin R
<1> SUFFICES ASSUME NEW g \in Games
             PROVE  /\ Disturbed(R)[g] \in GameState
                    /\ Disturbed(R)[g].phase = game[g].phase
                    /\ Disturbed(R)[g].room = game[g].room
                    /\ Disturbed(R)[g].players = game[g].players
                    /\ Disturbed(R)[g].winner = game[g].winner
                    /\ Disturbed(R)[g].paid = game[g].paid
                    /\ Disturbed(R)[g].calm <=> game[g].calm /\ game[g].room \notin R
  BY DEF Disturbed
<1>1. game[g] \in GameState
  BY DEF TypeOK
<1>2. CASE game[g].room \in R
  BY <1>1, <1>2 DEF Disturbed, GameState
<1>3. CASE game[g].room \notin R
  BY <1>1, <1>3 DEF Disturbed, GameState
<1> QED
  BY <1>2, <1>3

-----------------------------------------------------------------------------
(* Type correctness.  TypeOK is not inductive: StartGame reads the room of    *)
(* the lifecycle and GameOver its first two players, so the invariant that is *)
(* carries where a lifecycle is and how many players it started with.         *)

Launched == {"playing", "over", "settled", "reset", "done"}

GameShape ==
    \A g \in Games :
        /\ game[g].phase # "none" => game[g].room \in Rooms
        /\ game[g].phase \in Launched => Len(game[g].players) >= 2

\* The server starts with every variable in its type and no game launched.
LEMMA TypeInit == Init => TypeOK /\ GameShape
<1> SUFFICES ASSUME Init PROVE TypeOK /\ GameShape
  OBVIOUS
<1>1. members \in [Rooms -> Seq(Players)] /\ roomList \in Seq(Rooms)
  BY DEF Init
<1>2. preSign \in [Escrows -> [Inputs -> Context \cup {None}]]
  BY DEF Init, NoPresigns
<1>3. game \in [Games -> GameState]
  BY NoGameType DEF Init
<1>4. GameShape
  BY DEF Init, GameShape, NoGame, Launched
<1>5. stream \in [Streams -> BusyStream \cup {IdleStream}]
  BY DEF Init
<1>6. leaves \in 0 .. MaxLeaves
  BY BoundAssumption DEF Init
<1> QED
  BY <1>1, <1>2, <1>3, <1>4, <1>5, <1>6 DEF Init, TypeOK

\* Unlisting a room (GameManager.RemoveWaitingRoom) keeps the rooms' types.
LEMMA RemoveRoomType ==
    ASSUME TypeOK, NEW q, RemoveRoom(q)
    PROVE  /\ roomList' \in Seq(Rooms)
           /\ members' \in [Rooms -> Seq(Players)]
           /\ wr' \in [Players -> Rooms \cup {None}]
<1>1. roomList' \in Seq(Rooms)
  BY RemoveFirstType DEF TypeOK, RemoveRoom
<1>2. \A r \in Rooms : Survivors(members[r]) \in Seq(Players)
  BY SurvivorsType DEF TypeOK
<1> QED
  BY <1>1, <1>2 DEF TypeOK, RemoveRoom

\* Every action keeps the types, one step of the proof per action.
LEMMA TypeStep == TypeOK /\ GameShape /\ [Next]_vars => TypeOK'
<1> SUFFICES ASSUME TypeOK, GameShape, [Next]_vars PROVE TypeOK'
  OBVIOUS
<1> USE BoundAssumption
<1>1. ASSUME NEW e \in Escrows, OpenEscrow(e) \/ WatcherUpdate(e),
             UNCHANGED <<crashed, leaves>>
      PROVE  TypeOK'
  BY <1>1 DEF TypeOK, OpenEscrow, WatcherUpdate, roomVars
<1>2. ASSUME NEW p \in Players, NEW r \in Rooms, NEW e \in Escrows,
             CreateWaitingRoom(p, r, e), UNCHANGED <<crashed, leaves>>
      PROVE  TypeOK'
  <2>1. <<p>> \in Seq(Players) /\ Append(roomList, r) \in Seq(Rooms)
    BY DEF TypeOK
  <2> QED
    BY <1>2, <2>1 DEF TypeOK, CreateWaitingRoom
<1>3. ASSUME NEW p \in Players, NEW r \in Rooms, NEW e \in Escrows,
             JoinWaitingRoom(p, r, e), UNCHANGED <<crashed, leaves>>
      PROVE  TypeOK'
  <2>1. Append(members[r], p) \in Seq(Players) /\ members[r] \in Seq(Players)
    BY DEF TypeOK
  <2>2. members' \in [Rooms -> Seq(Players)]
    BY <1>3, <2>1 DEF TypeOK, JoinWaitingRoom
  <2>3. game' \in [Games -> GameState]
    BY <1>3, DisturbedType DEF JoinWaitingRoom
  <2> QED
    BY <1>3, <2>2, <2>3 DEF TypeOK, JoinWaitingRoom
<1>4. ASSUME NEW p \in Players, NEW r \in Rooms, LeaveWaitingRoom(p, r),
             leaves' = leaves + 1, crashed' = crashed
      PROVE  TypeOK'
  <2>1. preSign' \in [Escrows -> [Inputs -> Context \cup {None}]]
    BY <1>4, ClearPreSignsType DEF LeaveWaitingRoom
  <2>2. game' \in [Games -> GameState]
    BY <1>4, DisturbedType DEF LeaveWaitingRoom
  <2>3. leaves' \in 0 .. MaxLeaves
    BY <1>4 DEF TypeOK, LeaveWaitingRoom
  <2> DEFINE q == FirstRoomOf(p)
  <2>4. /\ roomList' \in Seq(Rooms)
        /\ members' \in [Rooms -> Seq(Players)]
        /\ wr' \in [Players -> Rooms \cup {None}]
    <3>1. CASE RemoveRoom(q)
      BY <3>1, RemoveRoomType
    <3>2. CASE /\ members' = [members EXCEPT ![q] = RemoveFirst(@, p)]
               /\ wr' = [wr EXCEPT ![p] = None]
               /\ UNCHANGED roomList
      <4>1. \A x \in Rooms : RemoveFirst(members[x], p) \in Seq(Players)
        BY RemoveFirstType DEF TypeOK
      <4> QED
        BY <3>2, <4>1 DEF TypeOK
    <3> QED
      BY <1>4, <3>1, <3>2 DEF LeaveWaitingRoom
  <2> QED
    BY <1>4, <2>1, <2>2, <2>3, <2>4 DEF TypeOK, LeaveWaitingRoom, escrowVars
<1>5. ASSUME NEW h \in Streams, NEW p \in Players, NEW r \in Rooms, Hello(h, p, r),
             UNCHANGED <<crashed, leaves>>
      PROVE  TypeOK'
  <2>1. PICK q \in Range(members[r]) \ {p} :
          LET my == EscrowFor(p, r)
              opp == EscrowFor(q, r)
          IN /\ my # None /\ opp # None
             /\ stream' = [stream EXCEPT ![h] =
                   [pc |-> "win", caller |-> p, room |-> r, my |-> my, opp |-> opp,
                    branch |-> IF p = host[r] THEN 0 ELSE 1]]
    BY <1>5 DEF Hello
  <2>2. q \in Players
    BY DEF TypeOK, Range
  <2>3. stream'[h] \in BusyStream
    BY <2>1, <2>2, EscrowForType DEF TypeOK, BusyStream, Branches
  <2>4. stream' \in [Streams -> BusyStream \cup {IdleStream}]
    BY <2>1, <2>3 DEF TypeOK
  <2> QED
    BY <1>5, <2>4 DEF TypeOK, Hello, roomVars
<1>6. ASSUME NEW h \in Streams, PresignWin(h), UNCHANGED <<crashed, leaves>>
      PROVE  TypeOK'
  <2>1. stream[h] \in BusyStream
    BY <1>6 DEF TypeOK, PresignWin, IdleStream
  <2>2. preSign' \in [Escrows -> [Inputs -> Context \cup {None}]]
    BY <1>6, <2>1, StorePresigType DEF PresignWin, BusyStream
  <2>3. stream' \in [Streams -> BusyStream \cup {IdleStream}]
    BY <1>6, <2>1 DEF TypeOK, PresignWin, BusyStream
  <2> QED
    BY <1>6, <2>2, <2>3 DEF TypeOK, PresignWin, escrowVars, roomVars
<1>7. ASSUME NEW h \in Streams, PresignLose(h), UNCHANGED <<crashed, leaves>>
      PROVE  TypeOK'
  <2>1. stream[h] \in BusyStream
    BY <1>7 DEF TypeOK, PresignLose, IdleStream
  <2>2. 1 - stream[h].branch \in Branches
    BY <2>1 DEF BusyStream, Branches
  <2>3. preSign' \in [Escrows -> [Inputs -> Context \cup {None}]]
    BY <1>7, <2>1, <2>2, StorePresigType DEF PresignLose, BusyStream
  <2> QED
    BY <1>7, <2>3 DEF TypeOK, PresignLose, escrowVars, roomVars
<1>8. ASSUME NEW h \in Streams, DropStream(h), UNCHANGED <<crashed, leaves>>
      PROVE  TypeOK'
  BY <1>8 DEF TypeOK, DropStream, escrowVars, roomVars
<1>9. ASSUME NEW g \in Games, NEW r \in Rooms, NEW R \in SUBSET Players,
             ManagerStarts(r, R, g), UNCHANGED <<crashed, leaves>>
      PROVE  TypeOK'
  BY <1>9, NoGameType DEF TypeOK, ManagerStarts, escrowVars, roomVars
<1>10. ASSUME NEW g \in Games, Launch(g), leaves' = leaves
       PROVE  TypeOK'
  <2>1. game[g] \in GameState /\ members[game[g].room] \in Seq(Players)
    BY <1>10 DEF TypeOK, GameShape, Launch
  <2>2. [game[g] EXCEPT !.phase = "playing", !.players = members[game[g].room]] \in GameState
    BY <2>1 DEF GameState
  <2>3. game' \in [Games -> GameState] /\ crashed' \in BOOLEAN
    BY <1>10, <2>2 DEF TypeOK, Launch
  <2> QED
    BY <1>10, <2>3 DEF TypeOK, Launch, escrowVars, roomVars
<1>11. ASSUME NEW g \in Games, GameOver(g), UNCHANGED <<crashed, leaves>>
       PROVE  TypeOK'
  <2>1. game[g] \in GameState /\ Len(game[g].players) >= 2
    BY <1>11 DEF TypeOK, GameShape, Launched, GameOver
  <2>2. game[g].players[1] \in Players /\ game[g].players[2] \in Players
    <3>1. game[g].players \in Seq(Players)
      BY <2>1 DEF GameState
    <3> QED
      BY <2>1, <3>1
  <2>3. \A w \in {game[g].players[1], game[g].players[2], None} :
          [game[g] EXCEPT !.phase = "over", !.winner = w] \in GameState
    BY <2>1, <2>2 DEF GameState
  <2>4. game' \in [Games -> GameState]
    BY <1>11, <2>3 DEF TypeOK, GameOver
  <2> QED
    BY <1>11, <2>4 DEF TypeOK, GameOver, escrowVars, roomVars
<1>12. ASSUME NEW g \in Games, Settle(g), UNCHANGED <<crashed, leaves>>
       PROVE  TypeOK'
  <2> DEFINE e == WinnerEscrow(g)
             b == WinnerBranch(g)
  <2>1. game[g] \in GameState /\ game[g].room \in Rooms
    BY <1>12 DEF TypeOK, GameShape, Settle
  <2>2. e \in Escrows \cup {None}
    BY <2>1, EscrowForType DEF WinnerEscrow, GameState
  <2>3. ASSUME e # None, NEW i \in BranchInputs(e, b), Complete(e, b, preSign[e][i].tx)
        PROVE  Completed(e, preSign[e][i].tx) \in Settlements
    <3> DEFINE tx == preSign[e][i].tx
    <3>1. preSign[e][i] \in Context
      BY <2>2, <2>3 DEF TypeOK, BranchInputs, Presigned
    <3>2. tx \in Tx /\ tx.inputs \in SUBSET Inputs
      BY <3>1 DEF Context, Tx
    <3>3. \A j \in tx.inputs : preSign[e][j] \in Context
      BY <2>2, <2>3, <3>2 DEF TypeOK, Complete, BranchInputs, Presigned
    <3>4. [j \in tx.inputs |-> preSign[e][j]] \in [tx.inputs -> Context]
      BY <3>3
    <3> HIDE DEF tx
    <3>5. [tx |-> tx, sigs |-> [j \in tx.inputs |-> preSign[e][j]]] \in Settlements
      BY <3>2, <3>4 DEF Settlements
    <3> QED
      BY <3>5 DEF Completed, tx
  <2>4. \A s \in Settlements \cup {None} :
          [game[g] EXCEPT !.phase = "settled", !.paid = s] \in GameState
    BY <2>1 DEF GameState
  <2>5. [game[g] EXCEPT !.phase = "settled"] \in GameState
    BY <2>1 DEF GameState
  <2>6. ASSUME e # None, NEW i \in BranchInputs(e, b),
               game' = [game EXCEPT ![g].phase = "settled",
                           ![g].paid = IF Complete(e, b, preSign[e][i].tx)
                                       THEN Completed(e, preSign[e][i].tx) ELSE None]
        PROVE  game' \in [Games -> GameState]
    <3> DEFINE s == IF Complete(e, b, preSign[e][i].tx)
                    THEN Completed(e, preSign[e][i].tx) ELSE None
    <3>1. s \in Settlements \cup {None}
      BY <2>3, <2>6
    <3> HIDE DEF s
    <3>2. game' = [game EXCEPT ![g] = [game[g] EXCEPT !.phase = "settled", !.paid = s]]
      BY <2>6 DEF TypeOK, s
    <3> QED
      BY <2>4, <3>1, <3>2 DEF TypeOK
  <2>7. game' \in [Games -> GameState]
    BY <1>12, <2>5, <2>6 DEF TypeOK, Settle
  <2> QED
    BY <1>12, <2>7 DEF TypeOK, Settle, escrowVars, roomVars
<1>13. ASSUME NEW g \in Games, ResetPlayers(g), UNCHANGED <<crashed, leaves>>
       PROVE  TypeOK'
  <2>1. Disturbed({game[g].room}) \in [Games -> GameState]
    BY DisturbedType
  <2>2. game' \in [Games -> GameState]
    <3>1. \A D \in [Games -> GameState] : [D[g] EXCEPT !.phase = "reset"] \in GameState
      BY DEF GameState
    <3> QED
      BY <1>13, <2>1, <3>1 DEF ResetPlayers
  <2> QED
    BY <1>13, <2>2 DEF TypeOK, ResetPlayers, escrowVars
<1>14. ASSUME NEW g \in Games, RemoveWaitingRoom(g), UNCHANGED <<crashed, leaves>>
       PROVE  TypeOK'
  <2>1. preSign' \in [Escrows -> [Inputs -> Context \cup {None}]]
    BY <1>14, ClearPreSignsType DEF RemoveWaitingRoom
  <2>2. PICK D \in [Games -> GameState] : game' = [D EXCEPT ![g].phase = "done"]
    BY <1>14, DisturbedType DEF RemoveWaitingRoom
  <2>3. game' \in [Games -> GameState]
    <3>1. [D[g] EXCEPT !.phase = "done"] \in GameState
      BY DEF GameState
    <3> QED
      BY <2>2, <3>1
  <2>4. /\ roomList' \in Seq(Rooms)
        /\ members' \in [Rooms -> Seq(Players)]
        /\ wr' \in [Players -> Rooms \cup {None}]
    BY <1>14, RemoveRoomType DEF TypeOK, RemoveWaitingRoom
  <2>5. /\ escrow' \in [Escrows -> {"unopened", "open", "deleted"}]
        /\ roomEscrow' \in [Players -> [Rooms -> Escrows \cup {None}]]
    BY <1>14 DEF TypeOK, RemoveWaitingRoom
  <2> QED
    BY <1>14, <2>1, <2>3, <2>4, <2>5 DEF TypeOK, RemoveWaitingRoom
<1>15. CASE UNCHANGED vars
  BY <1>15 DEF TypeOK, vars, escrowVars, roomVars
<1> QED
  BY <1>1, <1>2, <1>3, <1>4, <1>5, <1>6, <1>7, <1>8, <1>9, <1>10, <1>11, <1>12, <1>13,
     <1>14, <1>15, ZenonT(40)
  DEF Next, EscrowStep, RoomStep, StreamStep, GameStep

\* Every action keeps what is known of a game in each of its phases.
LEMMA GameShapeStep == TypeOK /\ GameShape /\ [Next]_vars => GameShape'
<1> SUFFICES ASSUME TypeOK, GameShape, [Next]_vars PROVE GameShape'
  OBVIOUS
<1> USE DEF GameShape, Launched
\* A step that changes no more than the history and, for some games, moves a
\* launched one to another launched phase.
<1>1. ASSUME NEW R, NEW D, D = Disturbed(R), NEW g \in Games, NEW ph \in Launched,
             game[g].phase \in Launched, game' = [D EXCEPT ![g].phase = ph]
      PROVE  GameShape'
  <2>1. \A x \in Games : /\ game'[x].room = game[x].room
                         /\ game'[x].players = game[x].players
                         /\ game'[x].phase = IF x = g THEN ph ELSE game[x].phase
    BY <1>1, DisturbedType DEF GameState
  <2> QED
    BY <1>1, <2>1
<1>2. ASSUME game' = game PROVE GameShape'
  BY <1>2
<1>3. ASSUME NEW R, game' = Disturbed(R) PROVE GameShape'
  BY <1>3, DisturbedType
<1>4. ASSUME NEW g \in Games, NEW r \in Rooms, NEW R \in SUBSET Players,
             ManagerStarts(r, R, g)
      PROVE  GameShape'
  BY <1>4 DEF ManagerStarts, NoGame, TypeOK
<1>5. ASSUME NEW g \in Games, Launch(g) PROVE GameShape'
  <2>1. CASE game' = game
    BY <2>1, <1>2
  <2>2. CASE /\ Len(members[game[g].room]) >= 2
             /\ game' = [game EXCEPT ![g].phase = "playing",
                                     ![g].players = members[game[g].room]]
    <3>1. /\ game'[g].room = game[g].room
          /\ game'[g].players = members[game[g].room]
          /\ \A x \in Games \ {g} : game'[x] = game[x]
      BY <2>2 DEF TypeOK, GameState
    <3> QED
      BY <1>5, <2>2, <3>1 DEF Launch
  <2>3. Len(members[game[g].room]) \in Nat
    BY <1>5 DEF Launch, TypeOK
  <2> QED
    BY <1>5, <2>1, <2>2, <2>3 DEF Launch
<1>6. ASSUME NEW g \in Games, GameOver(g) PROVE GameShape'
  BY <1>6 DEF GameOver, TypeOK, GameState
<1>7. ASSUME NEW g \in Games, Settle(g) PROVE GameShape'
  <2>1. game[g].phase = "over"
    BY <1>7 DEF Settle
  <2>2. /\ game'[g].room = game[g].room
        /\ game'[g].players = game[g].players
        /\ \A x \in Games \ {g} : game'[x] = game[x]
    BY <1>7 DEF Settle, TypeOK, GameState
  <2> QED
    BY <2>1, <2>2
<1>8. ASSUME NEW g \in Games, ResetPlayers(g) PROVE GameShape'
  BY <1>8, <1>1 DEF ResetPlayers
<1>9. ASSUME NEW g \in Games, RemoveWaitingRoom(g) PROVE GameShape'
  BY <1>9, <1>1 DEF RemoveWaitingRoom
<1> QED
  BY <1>2, <1>3, <1>4, <1>5, <1>6, <1>7, <1>8, <1>9, ZenonT(40)
  DEF Next, EscrowStep, RoomStep, StreamStep, GameStep, OpenEscrow, WatcherUpdate,
      CreateWaitingRoom, JoinWaitingRoom, LeaveWaitingRoom, Hello, PresignWin, PresignLose,
      DropStream, vars

\* Every variable has its type: no handler, however it interleaves with the
\* others, stores anything but contexts, drafts, rooms and players.
THEOREM TypeCorrect == Spec => []TypeOK
BY TypeInit, TypeStep, GameShapeStep, PTL DEF Spec

-----------------------------------------------------------------------------
(* Whose pre-signatures a settlement is made of.  A room binds a player only  *)
(* to an escrow of his own, so a handshake runs for the owner of the escrow   *)
(* it signs for; every stored context is then the signature of the owner of   *)
(* the outpoint it is stored under, for a draft that serves the escrow.       *)

BindingOwned ==
    \A p \in Players, r \in Rooms :
        roomEscrow[p][r] # None => OwnerOf[roomEscrow[p][r]] = p

CallerOwns ==
    \A h \in Streams : stream[h].pc # "idle" => stream[h].caller = OwnerOf[stream[h].my]

\* A room binding (s.roomEscrows) always names an escrow of the bound player:
\* only CreateWaitingRoom and JoinWaitingRoom write it, past resolveFundedEscrow.
LEMMA BindingStep == TypeOK /\ BindingOwned /\ [Next]_vars => BindingOwned'
<1> SUFFICES ASSUME TypeOK, BindingOwned, [Next]_vars PROVE BindingOwned'
  OBVIOUS
<1> USE DEF BindingOwned
<1>1. ASSUME UNCHANGED roomEscrow PROVE BindingOwned'
  BY <1>1
<1>2. ASSUME NEW p \in Players, NEW r \in Rooms, NEW e \in Escrows,
             CreateWaitingRoom(p, r, e) \/ JoinWaitingRoom(p, r, e)
      PROVE  BindingOwned'
  <2>1. OwnerOf[e] = p /\ roomEscrow' = [roomEscrow EXCEPT ![p][r] = e]
    BY <1>2 DEF CreateWaitingRoom, JoinWaitingRoom, Resolves
  <2> QED
    BY <2>1 DEF TypeOK
<1>3. ASSUME NEW g \in Games, RemoveWaitingRoom(g) PROVE BindingOwned'
  BY <1>3 DEF RemoveWaitingRoom, TypeOK
<1> QED
  BY <1>1, <1>2, <1>3, ZenonT(40)
  DEF Next, EscrowStep, RoomStep, StreamStep, GameStep, OpenEscrow, WatcherUpdate,
      LeaveWaitingRoom, Hello, PresignWin, PresignLose, DropStream, ManagerStarts, Launch,
      GameOver, Settle, ResetPlayers, vars, roomVars

\* A SettlementStream keeps, across its waits, an escrow its caller owns.
LEMMA CallerStep == TypeOK /\ BindingOwned /\ CallerOwns /\ [Next]_vars => CallerOwns'
<1> SUFFICES ASSUME TypeOK, BindingOwned, CallerOwns, [Next]_vars PROVE CallerOwns'
  OBVIOUS
<1> USE DEF CallerOwns
<1>1. ASSUME UNCHANGED stream PROVE CallerOwns'
  BY <1>1
<1>2. ASSUME NEW h \in Streams, NEW p \in Players, NEW r \in Rooms, Hello(h, p, r)
      PROVE  CallerOwns'
  <2>1. /\ stream'[h].caller = p /\ stream'[h].my = EscrowFor(p, r)
        /\ EscrowFor(p, r) # None
        /\ \A x \in Streams \ {h} : stream'[x] = stream[x]
    BY <1>2 DEF Hello, TypeOK
  <2>2. OwnerOf[EscrowFor(p, r)] = p
    BY <2>1, EscrowForType DEF BindingOwned
  <2> QED
    BY <2>1, <2>2
<1>3. ASSUME NEW h \in Streams, PresignWin(h) PROVE CallerOwns'
  <2>1. /\ stream[h].pc = "win"
        /\ stream'[h].caller = stream[h].caller /\ stream'[h].my = stream[h].my
        /\ \A x \in Streams \ {h} : stream'[x] = stream[x]
    BY <1>3 DEF PresignWin, TypeOK, BusyStream, IdleStream
  <2> QED
    BY <2>1
<1>4. ASSUME NEW h \in Streams, PresignLose(h) \/ DropStream(h) PROVE CallerOwns'
  <2>1. stream' = [stream EXCEPT ![h] = IdleStream]
    BY <1>4 DEF PresignLose, DropStream
  <2>2. /\ stream'[h].pc = "idle"
        /\ \A x \in Streams \ {h} : stream'[x] = stream[x]
    BY <2>1 DEF TypeOK, IdleStream
  <2> QED
    BY <2>2
<1> QED
  BY <1>1, <1>2, <1>3, <1>4, ZenonT(40)
  DEF Next, EscrowStep, RoomStep, StreamStep, GameStep, OpenEscrow, WatcherUpdate,
      CreateWaitingRoom, JoinWaitingRoom, LeaveWaitingRoom, ManagerStarts, Launch,
      GameOver, Settle, ResetPlayers, RemoveWaitingRoom, vars

\* What one context must be, and that the handshakes store nothing else.
SoundContext(e, i, ctx) ==
    /\ ctx.tx.pays = OwnerOf[e]
    /\ InputOf[e] \in ctx.tx.inputs
    /\ \A f \in Escrows : InputOf[f] = i => ctx.by = OwnerOf[f]

SoundContexts ==
    \A e \in Escrows, i \in Inputs :
        preSign[e][i] # None => SoundContext(e, i, preSign[e][i])

LEMMA StoreSound ==
    ASSUME TypeOK, CallerOwns, SoundContexts, NEW h \in Streams, stream[h].pc # "idle",
           NEW e \in {stream[h].my, stream[h].opp}, NEW b, StorePresig(h, e, b)
    PROVE  SoundContexts'
<1> DEFINE my == stream[h].my
           ctx == [by |-> stream[h].caller, tx |-> Draft(my, stream[h].opp, OwnerOf[e]),
                   branch |-> b, room |-> stream[h].room]
<1>1. my \in Escrows /\ e \in Escrows
  BY DEF TypeOK, IdleStream, BusyStream
<1>2. stream[h].caller = OwnerOf[my]
  BY DEF CallerOwns
<1>3. SoundContext(e, InputOf[my], ctx)
  BY <1>1, <1>2, InputAssumption DEF SoundContext, Draft
<1>4. preSign' = [preSign EXCEPT ![e][InputOf[my]] = ctx]
  BY DEF StorePresig
<1> HIDE DEF ctx
<1>5. ASSUME NEW f \in Escrows, NEW i \in Inputs, preSign'[f][i] # None
      PROVE  SoundContext(f, i, preSign'[f][i])
  <2>1. CASE f = e /\ i = InputOf[my]
    BY <1>1, <1>3, <1>4, <2>1 DEF TypeOK
  <2>2. CASE ~(f = e /\ i = InputOf[my])
    <3>1. preSign'[f][i] = preSign[f][i]
      BY <1>1, <1>4, <2>2 DEF TypeOK
    <3> QED
      BY <1>5, <3>1 DEF SoundContexts
  <2> QED
    BY <2>1, <2>2
<1> QED
  BY <1>5 DEF SoundContexts, SoundContext

\* clearPreSigns and the deletion of escrows keep the stored contexts sound.
LEMMA ClearSound ==
    ASSUME TypeOK, SoundContexts, NEW E, preSign' = ClearPreSigns(E)
    PROVE  SoundContexts'
BY DEF TypeOK, SoundContexts, SoundContext, ClearPreSigns, NoPresigns

\* Every action keeps the stored contexts sound: only the two VERIFY_OK writes
\* add one.
LEMMA SoundStep == TypeOK /\ CallerOwns /\ SoundContexts /\ [Next]_vars => SoundContexts'
<1> SUFFICES ASSUME TypeOK, CallerOwns, SoundContexts, [Next]_vars PROVE SoundContexts'
  OBVIOUS
<1>1. ASSUME UNCHANGED preSign PROVE SoundContexts'
  BY <1>1 DEF SoundContexts, SoundContext
<1>2. ASSUME NEW h \in Streams, PresignWin(h) PROVE SoundContexts'
  BY <1>2, StoreSound DEF PresignWin
<1>3. ASSUME NEW h \in Streams, PresignLose(h) PROVE SoundContexts'
  BY <1>3, StoreSound DEF PresignLose
<1>4. ASSUME NEW p \in Players, NEW r \in Rooms, LeaveWaitingRoom(p, r) PROVE SoundContexts'
  BY <1>4, ClearSound DEF LeaveWaitingRoom
<1>5. ASSUME NEW g \in Games, RemoveWaitingRoom(g) PROVE SoundContexts'
  BY <1>5, ClearSound DEF RemoveWaitingRoom
<1> QED
  BY <1>1, <1>2, <1>3, <1>4, <1>5, ZenonT(40)
  DEF Next, EscrowStep, RoomStep, StreamStep, GameStep, OpenEscrow, WatcherUpdate,
      CreateWaitingRoom, JoinWaitingRoom, Hello, DropStream, ManagerStarts, Launch,
      GameOver, Settle, ResetPlayers, vars

\* A pre-signature kept under an escrow is for a draft that pays the escrow's
\* owner and spends his deposit (verifyAndStorePresig, whenever its stream runs).
LEMMA SoundServes == TypeOK /\ SoundContexts => PresignServesOwner
BY DEF TypeOK, SoundContexts, SoundContext, PresignServesOwner, Presigned

\* A pre-signature kept under an escrow is for a draft that pays the escrow's
\* owner and spends his deposit (verifyAndStorePresig, whenever its stream runs),
\* in every reachable state.
THEOREM PresignsServeTheirOwner == Spec => []PresignServesOwner
<1>1. Init => BindingOwned /\ CallerOwns /\ SoundContexts
  BY DEF Init, BindingOwned, CallerOwns, SoundContexts, IdleStream, NoPresigns
<1> QED
  BY <1>1, TypeCorrect, BindingStep, CallerStep, SoundStep, SoundServes, PTL DEF Spec

-----------------------------------------------------------------------------
(* Settlements.  What handleGameEnd completes is made of sound contexts of an *)
(* escrow the winner owns, and the record of a settled game does not change.  *)

AuthorizedSettlement(s, winner) ==
    /\ s.tx.pays = winner
    /\ \E e \in Escrows : OwnerOf[e] = winner /\ InputOf[e] \in s.tx.inputs
    /\ \A f \in Escrows : InputOf[f] \in s.tx.inputs =>
         s.sigs[InputOf[f]].by = OwnerOf[f] /\ s.sigs[InputOf[f]].tx = s.tx

PaidIsFinal ==
    \A g \in Games : game[g].paid # None =>
        /\ game[g].phase \in {"settled", "reset", "done"}
        /\ AuthorizedSettlement(game[g].paid, game[g].winner)

\* What FinalizeWinner completes from sound contexts is authorized: it pays the
\* escrow's owner and each input is signed by its depositor over that draft.
LEMMA CompletedAuthorized ==
    ASSUME TypeOK, BindingOwned, SoundContexts,
           NEW w \in Players, NEW r \in Rooms, NEW e, e = EscrowFor(w, r), e # None,
           NEW b, NEW i \in BranchInputs(e, b), Complete(e, b, preSign[e][i].tx)
    PROVE  AuthorizedSettlement(Completed(e, preSign[e][i].tx), w)
<1> DEFINE tx == preSign[e][i].tx
<1>1. e \in Escrows /\ OwnerOf[e] = w
  BY EscrowForType DEF BindingOwned
<1>2. SoundContext(e, i, preSign[e][i])
  BY <1>1 DEF SoundContexts, BranchInputs, Presigned
<1>3. tx.pays = w /\ InputOf[e] \in tx.inputs
  BY <1>1, <1>2 DEF SoundContext
<1>4. ASSUME NEW f \in Escrows, InputOf[f] \in tx.inputs
      PROVE  /\ preSign[e][InputOf[f]].by = OwnerOf[f]
             /\ preSign[e][InputOf[f]].tx = tx
  <2>1. /\ InputOf[f] \in Presigned(e)
        /\ preSign[e][InputOf[f]].tx = tx
    BY <1>4 DEF Complete, BranchInputs
  <2>2. SoundContext(e, InputOf[f], preSign[e][InputOf[f]])
    BY <1>1, <2>1 DEF SoundContexts, Presigned
  <2> QED
    BY <2>1, <2>2 DEF SoundContext
<1> HIDE DEF tx
<1>5. Completed(e, tx).tx = tx
      /\ \A j \in tx.inputs : Completed(e, tx).sigs[j] = preSign[e][j]
  BY DEF Completed
<1>6. AuthorizedSettlement(Completed(e, tx), w)
  BY <1>1, <1>3, <1>4, <1>5 DEF AuthorizedSettlement
<1> QED
  BY <1>6 DEF tx

\* Only Settle pays a game, and no later action changes its payment or winner.
LEMMA PaidStep ==
    TypeOK /\ GameShape /\ BindingOwned /\ SoundContexts /\ PaidIsFinal /\ [Next]_vars
        => PaidIsFinal'
<1> SUFFICES ASSUME TypeOK, GameShape, BindingOwned, SoundContexts, PaidIsFinal, [Next]_vars
             PROVE  PaidIsFinal'
  OBVIOUS
<1>1. ASSUME UNCHANGED game PROVE PaidIsFinal'
  BY <1>1 DEF PaidIsFinal, AuthorizedSettlement
\* Every action but Settle keeps the result of a game that has one.
<1>2. ASSUME \A g \in Games :
                 /\ game'[g].paid = game[g].paid
                 /\ game[g].paid # None => game'[g].winner = game[g].winner
                 /\ game[g].phase \in {"settled", "reset", "done"}
                        => game'[g].phase \in {"settled", "reset", "done"}
      PROVE  PaidIsFinal'
  BY <1>2 DEF PaidIsFinal, AuthorizedSettlement
<1>3. ASSUME NEW R, game' = Disturbed(R) PROVE PaidIsFinal'
  BY <1>2, <1>3, DisturbedType
<1>4. ASSUME NEW g \in Games, NEW r \in Rooms, NEW R \in SUBSET Players,
             ManagerStarts(r, R, g)
      PROVE  PaidIsFinal'
  <2>1. game[g].paid = None
    BY <1>4 DEF ManagerStarts, PaidIsFinal
  <2> QED
    BY <1>2, <1>4, <2>1 DEF ManagerStarts, NoGame, TypeOK
<1>5. ASSUME NEW g \in Games, Launch(g) PROVE PaidIsFinal'
  <2>1. game[g].phase = "spawned"
    BY <1>5 DEF Launch
  <2>2. CASE game' = [game EXCEPT ![g].phase = "playing", ![g].players = members[game[g].room]]
    BY <1>2, <2>1, <2>2 DEF TypeOK, GameState
  <2> QED
    BY <1>1, <1>5, <2>2 DEF Launch
<1>6. ASSUME NEW g \in Games, GameOver(g) PROVE PaidIsFinal'
  <2>1. game[g].phase = "playing" /\ game[g].paid = None
    BY <1>6 DEF GameOver, PaidIsFinal
  <2> QED
    BY <1>2, <1>6, <2>1 DEF GameOver, TypeOK, GameState
<1>7. ASSUME NEW g \in Games, NEW R, NEW ph \in {"reset", "done"},
             game' = [Disturbed(R) EXCEPT ![g].phase = ph]
      PROVE  PaidIsFinal'
  <2> DEFINE D == Disturbed(R)
  <2>1. D \in [Games -> GameState] /\ \A x \in Games :
          /\ D[x].phase = game[x].phase
          /\ D[x].paid = game[x].paid
          /\ D[x].winner = game[x].winner
    BY DisturbedType
  <2>2. game' = [D EXCEPT ![g].phase = ph]
    BY <1>7
  <2> HIDE DEF D
  <2> QED
    BY <1>2, <2>1, <2>2 DEF GameState
<1>8. ASSUME NEW g \in Games, ResetPlayers(g) \/ RemoveWaitingRoom(g) PROVE PaidIsFinal'
  BY <1>7, <1>8 DEF ResetPlayers, RemoveWaitingRoom
<1>9. ASSUME NEW g \in Games, Settle(g) PROVE PaidIsFinal'
  <2> DEFINE e == WinnerEscrow(g)
             b == WinnerBranch(g)
  <2>1. /\ game[g].phase = "over" /\ game[g].room \in Rooms
        /\ game[g].winner \in Players \cup {None}
        /\ game[g].paid = None
    BY <1>9 DEF Settle, TypeOK, GameState, GameShape, PaidIsFinal
  <2>2. CASE game' = [game EXCEPT ![g].phase = "settled"]
    BY <1>2, <2>1, <2>2 DEF TypeOK, GameState
  <2>3. ASSUME e # None, NEW i \in BranchInputs(e, b),
               game' = [game EXCEPT ![g].phase = "settled",
                           ![g].paid = IF Complete(e, b, preSign[e][i].tx)
                                       THEN Completed(e, preSign[e][i].tx) ELSE None]
        PROVE  PaidIsFinal'
    <3>1. game[g].winner \in Players /\ e = EscrowFor(game[g].winner, game[g].room)
      BY <2>1, <2>3 DEF WinnerEscrow
    <3>2. Complete(e, b, preSign[e][i].tx) =>
            AuthorizedSettlement(Completed(e, preSign[e][i].tx), game[g].winner)
      BY <2>1, <2>3, <3>1, CompletedAuthorized
    <3>3. /\ game'[g].phase = "settled" /\ game'[g].winner = game[g].winner
          /\ game'[g].paid # None => /\ Complete(e, b, preSign[e][i].tx)
                                     /\ game'[g].paid = Completed(e, preSign[e][i].tx)
          /\ \A x \in Games \ {g} : game'[x] = game[x]
      BY <2>3 DEF TypeOK, GameState
    <3> QED
      BY <3>2, <3>3 DEF PaidIsFinal, AuthorizedSettlement
  <2> QED
    BY <1>9, <2>2, <2>3 DEF Settle
<1> QED
  BY <1>1, <1>3, <1>4, <1>5, <1>6, <1>8, <1>9, ZenonT(40)
  DEF Next, EscrowStep, RoomStep, StreamStep, GameStep, OpenEscrow, WatcherUpdate,
      CreateWaitingRoom, JoinWaitingRoom, LeaveWaitingRoom, Hello, PresignWin, PresignLose,
      DropStream, vars

\* A settlement pays the winner of its game out of his own deposit, and every
\* deposit it spends is signed by its owner over that very transaction
\* (handleGameEnd, FinalizeWinner).
THEOREM SettlementsAreAuthorized == Spec => []SettlementIsAuthorized
<1>1. Init => BindingOwned /\ CallerOwns /\ SoundContexts
  BY DEF Init, BindingOwned, CallerOwns, SoundContexts, IdleStream, NoPresigns
<1>2. Init => PaidIsFinal
  BY DEF Init, PaidIsFinal, NoGame
<1>3. PaidIsFinal => SettlementIsAuthorized
  BY DEF PaidIsFinal, AuthorizedSettlement, SettlementIsAuthorized
<1> QED
  BY <1>1, <1>2, <1>3, TypeInit, TypeStep, GameShapeStep, BindingStep, CallerStep, SoundStep,
     PaidStep, PTL DEF Spec
-----------------------------------------------------------------------------
(* Games that can be settled.  The manager looks at inputs and branches, never *)
(* at drafts or at who the host is, so three things have to be carried from    *)
(* the handshakes to the end of a game: a room has one host for ever, so every *)
(* context is in the branch its escrow's owner wins in the room of its stream; *)
(* a calm game keeps its two players in the room, bound to the same open       *)
(* escrows; and those escrows keep a context for each of the two inputs.       *)

RoomsHosted ==
    /\ \A r \in Rooms : Listed(r) \/ members[r] # <<>> => host[r] # None
    /\ \A g \in Games : game[g].phase # "none" => host[game[g].room] # None

\* The branch in which e's owner wins in a room that q hosts.
BranchOf(q, e) == IF q = OwnerOf[e] THEN 0 ELSE 1

StreamBranches ==
    \A h \in Streams : stream[h].pc # "idle" =>
        /\ host[stream[h].room] # None
        /\ stream[h].branch = BranchOf(host[stream[h].room], stream[h].my)
        /\ 1 - stream[h].branch = BranchOf(host[stream[h].room], stream[h].opp)

ContextBranches ==
    \A e \in Escrows, i \in Inputs : preSign[e][i] # None =>
        /\ host[preSign[e][i].room] # None
        /\ preSign[e][i].branch = BranchOf(host[preSign[e][i].room], e)

\* Only CreateWaitingRoom writes a host, and only one that is not set.
LEMMA HostStays ==
    ASSUME TypeOK, [Next]_vars
    PROVE  \A r \in Rooms : host[r] # None => host'[r] = host[r]
<1>1. ASSUME UNCHANGED host PROVE \A r \in Rooms : host[r] # None => host'[r] = host[r]
  BY <1>1
<1>2. ASSUME NEW p \in Players, NEW x \in Rooms, NEW e \in Escrows, CreateWaitingRoom(p, x, e)
      PROVE  \A r \in Rooms : host[r] # None => host'[r] = host[r]
  BY <1>2 DEF CreateWaitingRoom, TypeOK
<1> QED
  BY <1>1, <1>2, ZenonT(40)
  DEF Next, EscrowStep, RoomStep, StreamStep, GameStep, OpenEscrow, WatcherUpdate,
      JoinWaitingRoom, LeaveWaitingRoom, Hello, PresignWin, PresignLose, DropStream,
      ManagerStarts, Launch, GameOver, Settle, ResetPlayers, RemoveWaitingRoom, vars, roomVars

\* RemoveFirst brings no element in.
LEMMA RemoveFirstRange ==
    ASSUME NEW S, NEW s \in Seq(S), NEW e
    PROVE  Range(RemoveFirst(s, e)) \subseteq Range(s)
<1>1. s \in Seq(Range(s))
  BY DEF Range
<1>2. RemoveFirst(s, e) \in Seq(Range(s))
  BY <1>1, RemoveFirstType
<1> QED
  BY <1>2 DEF Range

\* Unlisting a room (GameManager.RemoveWaitingRoom) lists no other and brings no
\* player into one.
LEMMA RemoveRoomRange ==
    ASSUME TypeOK, NEW q, RemoveRoom(q)
    PROVE  /\ Range(roomList') \subseteq Range(roomList)
           /\ \A r \in Rooms : members'[r] # <<>> => members[r] # <<>>
           /\ \A r \in Rooms \ {q} : members'[r] = members[r]
<1>1. Range(roomList') \subseteq Range(roomList)
  BY RemoveFirstRange DEF TypeOK, RemoveRoom
<1>2. ASSUME NEW s \in Seq(Players), s = <<>> PROVE Survivors(s) = <<>>
  BY <1>2 DEF Survivors
<1> QED
  BY <1>1, <1>2 DEF TypeOK, RemoveRoom

\* LeaveWaitingRoom lists no room, brings no player into one and, but for the
\* first listed room of the player, changes none.
LEMMA LeaveRange ==
    ASSUME TypeOK, NEW p \in Players, NEW x \in Rooms, LeaveWaitingRoom(p, x)
    PROVE  /\ Range(roomList') \subseteq Range(roomList)
           /\ \A r \in Rooms : members'[r] # <<>> => members[r] # <<>>
           /\ \A r \in Rooms \ {FirstRoomOf(p)} : members'[r] = members[r]
<1> DEFINE q == FirstRoomOf(p)
<1>1. CASE RemoveRoom(q)
  BY <1>1, RemoveRoomRange
<1>2. CASE /\ members' = [members EXCEPT ![q] = RemoveFirst(@, p)]
           /\ UNCHANGED roomList
  <2>1. ASSUME NEW s \in Seq(Players), s = <<>> PROVE RemoveFirst(s, p) = <<>>
    BY <2>1 DEF RemoveFirst
  <2> HIDE DEF q
  <2>2. /\ \A r \in Rooms : members'[r] # <<>> => members[r] # <<>>
        /\ \A r \in Rooms \ {q} : members'[r] = members[r]
    BY <1>2, <2>1 DEF TypeOK
  <2> QED
    BY <1>2, <2>2 DEF q
<1> QED
  BY <1>1, <1>2 DEF LeaveWaitingRoom

\* A listed room, a room with players and the room of a game have been created.
LEMMA HostedStep == TypeOK /\ GameShape /\ RoomsHosted /\ [Next]_vars => RoomsHosted'
<1> SUFFICES ASSUME TypeOK, GameShape, RoomsHosted, [Next]_vars PROVE RoomsHosted'
  OBVIOUS
<1>1. \A r \in Rooms : host[r] # None => host'[r] # None
  BY HostStays
\* A step that lists no room, brings no player into an empty one and starts no game.
<1>2. ASSUME Range(roomList') \subseteq Range(roomList),
             \A r \in Rooms : members'[r] # <<>> => members[r] # <<>>,
             \A g \in Games : /\ game'[g].phase # "none" => game[g].phase # "none"
                              /\ game'[g].room = game[g].room
      PROVE  RoomsHosted'
  BY <1>1, <1>2 DEF RoomsHosted, GameShape, Listed
<1>3. ASSUME UNCHANGED <<roomList, members, game>> PROVE RoomsHosted'
  BY <1>2, <1>3
<1>4. ASSUME NEW p \in Players, NEW x \in Rooms, NEW e \in Escrows, CreateWaitingRoom(p, x, e)
      PROVE  RoomsHosted'
  <2>1. /\ \A r \in Rooms \ {x} : members'[r] = members[r]
        /\ host'[x] # None
    BY <1>4, NoneAssumption DEF CreateWaitingRoom, TypeOK
  <2>2. Range(roomList') \subseteq Range(roomList) \cup {x}
    <3>1. roomList \in Seq(Rooms) /\ roomList' = Append(roomList, x)
      BY <1>4 DEF CreateWaitingRoom, TypeOK
    <3>2. \A k \in 1 .. Len(roomList) + 1 : Append(roomList, x)[k] \in Range(roomList) \cup {x}
      BY <3>1 DEF Range
    <3> QED
      BY <3>1, <3>2 DEF Range
  <2>3. game' = game
    BY <1>4 DEF CreateWaitingRoom
  <2> QED
    BY <1>1, <2>1, <2>2, <2>3 DEF RoomsHosted, GameShape, Listed
<1>5. ASSUME NEW p \in Players, NEW x \in Rooms, NEW e \in Escrows, JoinWaitingRoom(p, x, e)
      PROVE  RoomsHosted'
  <2>1. /\ host' = host /\ roomList' = roomList /\ Listed(x)
        /\ \A r \in Rooms \ {x} : members'[r] = members[r]
    BY <1>5 DEF JoinWaitingRoom, TypeOK
  <2>2. \A g \in Games : game'[g].phase = game[g].phase /\ game'[g].room = game[g].room
    BY <1>5, DisturbedType DEF JoinWaitingRoom
  <2> QED
    BY <2>1, <2>2 DEF RoomsHosted, Listed
<1>6. ASSUME NEW p \in Players, NEW x \in Rooms, LeaveWaitingRoom(p, x) PROVE RoomsHosted'
  <2>1. \A g \in Games : game'[g].phase = game[g].phase /\ game'[g].room = game[g].room
    BY <1>6, DisturbedType DEF LeaveWaitingRoom
  <2> QED
    BY <1>2, <1>6, <2>1, LeaveRange
<1>7. ASSUME NEW g \in Games, NEW x \in Rooms, NEW R \in SUBSET Players, ManagerStarts(x, R, g)
      PROVE  RoomsHosted'
  <2>1. members[x] # <<>>
    BY <1>7 DEF ManagerStarts, TypeOK
  <2>2. /\ game'[g].room = x
        /\ \A y \in Games \ {g} : game'[y] = game[y]
    BY <1>7 DEF ManagerStarts, NoGame, TypeOK
  <2>3. UNCHANGED <<roomList, members, host>>
    BY <1>7 DEF ManagerStarts, roomVars
  <2> QED
    BY <2>1, <2>2, <2>3 DEF RoomsHosted, Listed
<1>8. ASSUME NEW g \in Games, Launch(g) \/ GameOver(g) \/ Settle(g) PROVE RoomsHosted'
  <2>1. /\ game[g].phase # "none"
        /\ \A y \in Games : /\ game'[y].room = game[y].room
                            /\ y # g => game'[y] = game[y]
    BY <1>8 DEF Launch, GameOver, Settle, TypeOK, GameState
  <2>2. UNCHANGED <<roomList, members>>
    BY <1>8 DEF Launch, GameOver, Settle, roomVars
  <2> QED
    BY <1>2, <2>1, <2>2
<1>9. ASSUME NEW g \in Games, ResetPlayers(g) \/ RemoveWaitingRoom(g) PROVE RoomsHosted'
  <2>1. PICK R : \E ph \in {"reset", "done"} : game' = [Disturbed(R) EXCEPT ![g].phase = ph]
    BY <1>9 DEF ResetPlayers, RemoveWaitingRoom
  <2>2. game[g].phase # "none"
    BY <1>9 DEF ResetPlayers, RemoveWaitingRoom
  <2> DEFINE D == Disturbed(R)
  <2>3. D \in [Games -> GameState] /\ \A y \in Games : D[y].phase = game[y].phase
                                                      /\ D[y].room = game[y].room
    BY DisturbedType
  <2> HIDE DEF D
  <2>4. \A y \in Games : /\ game'[y].phase # "none" => game[y].phase # "none"
                         /\ game'[y].room = game[y].room
    BY <2>1, <2>2, <2>3 DEF D, GameState
  <2>5. /\ Range(roomList') \subseteq Range(roomList)
        /\ \A r \in Rooms : members'[r] # <<>> => members[r] # <<>>
    BY <1>9, RemoveRoomRange DEF ResetPlayers, RemoveWaitingRoom
  <2> QED
    BY <1>2, <2>4, <2>5
<1> QED
  BY <1>3, <1>4, <1>5, <1>6, <1>7, <1>8, <1>9, ZenonT(40)
  DEF Next, EscrowStep, RoomStep, StreamStep, GameStep, OpenEscrow, WatcherUpdate,
      Hello, PresignWin, PresignLose, DropStream, vars, roomVars

\* A SettlementStream keeps, across its waits, the branch its caller wins in its
\* room; the other branch is the one its opponent wins (settlementStreamForRoom).
LEMMA StreamBranchStep ==
    TypeOK /\ BindingOwned /\ StreamBranches /\ [Next]_vars => StreamBranches'
<1> SUFFICES ASSUME TypeOK, BindingOwned, StreamBranches, [Next]_vars PROVE StreamBranches'
  OBVIOUS
<1>1. \A r \in Rooms : host[r] # None => host'[r] = host[r]
  BY HostStays
\* A stream that stays busy, in its room and branch, with its escrows.
<1>2. ASSUME NEW h \in Streams, stream[h].pc # "idle",
             stream'[h].room = stream[h].room, stream'[h].branch = stream[h].branch,
             stream'[h].my = stream[h].my, stream'[h].opp = stream[h].opp
      PROVE  /\ host'[stream'[h].room] # None
             /\ stream'[h].branch = BranchOf(host'[stream[h].room], stream[h].my)
             /\ 1 - stream'[h].branch = BranchOf(host'[stream[h].room], stream[h].opp)
  <2>1. stream[h].room \in Rooms
    BY <1>2 DEF TypeOK, BusyStream, IdleStream
  <2>2. host[stream[h].room] # None
    BY <1>2 DEF StreamBranches
  <2>3. host'[stream[h].room] = host[stream[h].room]
    BY <1>1, <2>1, <2>2
  <2> QED
    BY <1>2, <2>2, <2>3 DEF StreamBranches, BranchOf
<1>3. ASSUME NEW h \in Streams,
             \A x \in Streams \ {h} : stream'[x] = stream[x],
             stream'[h].pc # "idle" =>
                /\ host'[stream'[h].room] # None
                /\ stream'[h].branch = BranchOf(host'[stream'[h].room], stream'[h].my)
                /\ 1 - stream'[h].branch = BranchOf(host'[stream'[h].room], stream'[h].opp)
      PROVE  StreamBranches'
  BY <1>2, <1>3 DEF StreamBranches, BranchOf
<1>4. ASSUME UNCHANGED stream PROVE StreamBranches'
  BY <1>2, <1>4 DEF StreamBranches, BranchOf
<1>5. ASSUME NEW h \in Streams, NEW p \in Players, NEW r \in Rooms, Hello(h, p, r)
      PROVE  StreamBranches'
  <2>1. PICK q \in Range(members[r]) \ {p} :
          LET my == EscrowFor(p, r)
              opp == EscrowFor(q, r)
          IN /\ my # None /\ opp # None
             /\ host[r] \in {p, q}
             /\ stream' = [stream EXCEPT ![h] =
                   [pc |-> "win", caller |-> p, room |-> r, my |-> my, opp |-> opp,
                    branch |-> IF p = host[r] THEN 0 ELSE 1]]
    BY <1>5 DEF Hello
  <2>2. q \in Players /\ q # p
    BY DEF TypeOK, Range
  <2>3. OwnerOf[EscrowFor(p, r)] = p /\ OwnerOf[EscrowFor(q, r)] = q
    BY <2>1, <2>2, EscrowForType DEF BindingOwned
  <2>4. /\ stream'[h].room = r
        /\ stream'[h].my = EscrowFor(p, r) /\ stream'[h].opp = EscrowFor(q, r)
        /\ stream'[h].branch = IF p = host[r] THEN 0 ELSE 1
        /\ \A x \in Streams \ {h} : stream'[x] = stream[x]
    BY <2>1 DEF TypeOK
  <2>5. host[r] # None /\ host' = host
    BY <1>5, <2>1, <2>2, NoneAssumption DEF Hello, roomVars
  <2>6. /\ host'[stream'[h].room] # None
        /\ stream'[h].branch = IF host'[r] = p THEN 0 ELSE 1
        /\ 1 - stream'[h].branch = IF host'[r] = q THEN 0 ELSE 1
    BY <2>1, <2>2, <2>4, <2>5
  <2> QED
    BY <1>3, <2>3, <2>4, <2>6 DEF BranchOf
<1>6. ASSUME NEW h \in Streams, PresignWin(h) PROVE StreamBranches'
  <2>1. /\ stream[h].pc # "idle"
        /\ \A x \in Streams \ {h} : stream'[x] = stream[x]
        /\ stream'[h].room = stream[h].room /\ stream'[h].branch = stream[h].branch
        /\ stream'[h].my = stream[h].my /\ stream'[h].opp = stream[h].opp
    BY <1>6 DEF PresignWin, TypeOK, BusyStream, IdleStream
  <2> QED
    BY <1>2, <1>3, <2>1 DEF BranchOf
<1>7. ASSUME NEW h \in Streams, PresignLose(h) \/ DropStream(h) PROVE StreamBranches'
  <2>1. stream' = [stream EXCEPT ![h] = IdleStream]
    BY <1>7 DEF PresignLose, DropStream
  <2>2. /\ stream'[h].pc = "idle"
        /\ \A x \in Streams \ {h} : stream'[x] = stream[x]
    BY <2>1 DEF TypeOK, IdleStream
  <2> QED
    BY <1>3, <2>2
<1> QED
  BY <1>4, <1>5, <1>6, <1>7, ZenonT(40)
  DEF Next, EscrowStep, RoomStep, StreamStep, GameStep, OpenEscrow, WatcherUpdate,
      CreateWaitingRoom, JoinWaitingRoom, LeaveWaitingRoom, ManagerStarts, Launch,
      GameOver, Settle, ResetPlayers, RemoveWaitingRoom, vars

\* verifyAndStorePresig keeps every context in the branch of its escrow's owner,
\* when the branch it is called with is the one e's owner wins in the room.
LEMMA StoreBranch ==
    ASSUME TypeOK, ContextBranches, UNCHANGED host,
           NEW h \in Streams, stream[h].pc # "idle", host[stream[h].room] # None,
           NEW e \in {stream[h].my, stream[h].opp},
           NEW b, b = BranchOf(host[stream[h].room], e), StorePresig(h, e, b)
    PROVE  ContextBranches'
<1> DEFINE my == stream[h].my
           ctx == [by |-> stream[h].caller, tx |-> Draft(my, stream[h].opp, OwnerOf[e]),
                   branch |-> b, room |-> stream[h].room]
<1>1. my \in Escrows /\ e \in Escrows
  BY DEF TypeOK, IdleStream, BusyStream
<1>2. preSign' = [preSign EXCEPT ![e][InputOf[my]] = ctx]
  BY DEF StorePresig
<1>3. ctx.branch = b /\ ctx.room = stream[h].room
  OBVIOUS
<1> HIDE DEF ctx
<1>4. ASSUME NEW f \in Escrows, NEW i \in Inputs, preSign'[f][i] # None
      PROVE  /\ host[preSign'[f][i].room] # None
             /\ preSign'[f][i].branch = BranchOf(host[preSign'[f][i].room], f)
  <2>1. CASE f = e /\ i = InputOf[my]
    BY <1>1, <1>2, <1>3, <2>1, InputAssumption DEF TypeOK
  <2>2. CASE ~(f = e /\ i = InputOf[my])
    <3>1. preSign'[f][i] = preSign[f][i]
      BY <1>1, <1>2, <2>2 DEF TypeOK
    <3> QED
      BY <1>4, <3>1 DEF ContextBranches
  <2> QED
    BY <2>1, <2>2
<1> QED
  BY <1>4 DEF ContextBranches, BranchOf

\* Every action keeps every stored context in the branch its escrow's owner wins
\* in the room whose handshake made it.
LEMMA ContextBranchStep ==
    TypeOK /\ StreamBranches /\ ContextBranches /\ [Next]_vars => ContextBranches'
<1> SUFFICES ASSUME TypeOK, StreamBranches, ContextBranches, [Next]_vars
             PROVE  ContextBranches'
  OBVIOUS
<1>1. \A r \in Rooms : host[r] # None => host'[r] = host[r]
  BY HostStays
\* A step that stores nothing.
<1>2. ASSUME \A e \in Escrows, i \in Inputs : preSign'[e][i] \in {preSign[e][i], None}
      PROVE  ContextBranches'
  <2> SUFFICES ASSUME NEW e \in Escrows, NEW i \in Inputs, preSign'[e][i] # None
               PROVE  /\ host'[preSign'[e][i].room] # None
                      /\ preSign'[e][i].branch = BranchOf(host'[preSign'[e][i].room], e)
    BY DEF ContextBranches, BranchOf
  <2> DEFINE r == preSign[e][i].room
  <2>1. preSign'[e][i] = preSign[e][i]
    BY <1>2
  <2>2. r \in Rooms
    BY <2>1 DEF TypeOK, Context
  <2>3. host[r] # None /\ preSign[e][i].branch = BranchOf(host[r], e)
    BY <2>1 DEF ContextBranches
  <2>4. host'[r] = host[r]
    BY <1>1, <2>2, <2>3
  <2> QED
    BY <2>1, <2>3, <2>4 DEF BranchOf
<1>3. ASSUME UNCHANGED preSign PROVE ContextBranches'
  BY <1>2, <1>3
<1>4. ASSUME NEW E, preSign' = ClearPreSigns(E) PROVE ContextBranches'
  BY <1>2, <1>4 DEF ClearPreSigns, NoPresigns
<1>5. ASSUME NEW h \in Streams, PresignWin(h) PROVE ContextBranches'
  <2>1. stream[h].pc # "idle" /\ UNCHANGED host
    BY <1>5 DEF PresignWin, roomVars
  <2>2. StorePresig(h, stream[h].my, stream[h].branch)
    BY <1>5 DEF PresignWin
  <2> QED
    BY <2>1, <2>2, StoreBranch DEF StreamBranches
<1>6. ASSUME NEW h \in Streams, PresignLose(h) PROVE ContextBranches'
  <2>1. stream[h].pc # "idle" /\ UNCHANGED host
    BY <1>6 DEF PresignLose, roomVars
  <2>2. StorePresig(h, stream[h].opp, 1 - stream[h].branch)
    BY <1>6 DEF PresignLose
  <2> QED
    BY <2>1, <2>2, StoreBranch DEF StreamBranches
<1> QED
  BY <1>3, <1>4, <1>5, <1>6, ZenonT(40)
  DEF Next, EscrowStep, RoomStep, StreamStep, GameStep, OpenEscrow, WatcherUpdate,
      CreateWaitingRoom, JoinWaitingRoom, LeaveWaitingRoom, Hello, DropStream, ManagerStarts,
      Launch, GameOver, Settle, ResetPlayers, RemoveWaitingRoom, vars

-----------------------------------------------------------------------------
(* From isComplete to handleGameEnd.  A calm game of two keeps what the       *)
(* manager saw when it started it.                                            *)

\* The players the game has, or will have if it is launched now.
Fielded(g) == IF game[g].phase = "spawned" THEN members[game[g].room] ELSE game[g].players

\* The players of s are in the room, each with an open escrow bound to it that
\* holds a context for every input of theirs.
BothSigned(s, r) ==
    /\ Range(s) \subseteq Range(members[r])
    /\ \A p \in Range(s) : EscrowFor(p, r) # None
    /\ \A p, q \in Range(s) : preSign[EscrowFor(p, r)][InputOf[EscrowFor(q, r)]] # None

SettleReady(g) ==
    /\ Len(Fielded(g)) >= 2
    /\ Len(Fielded(g)) = 2 => BothSigned(Fielded(g), game[g].room)

Live(g) == game[g].phase \in {"spawned", "playing", "over"} /\ game[g].calm

CalmGamesSigned == \A g \in Games : Live(g) => SettleReady(g)

\* What a step leaves alone in a room whose games it does not disturb: nobody
\* goes, and no player in it loses his escrow or a context kept under it.
RoomKept(r) ==
    /\ members'[r] = members[r] \/ \E p \in Players : members'[r] = Append(members[r], p)
    /\ \A p \in Range(members[r]) : EscrowFor(p, r) # None =>
         /\ roomEscrow'[p][r] = roomEscrow[p][r]
         /\ escrow'[roomEscrow[p][r]] = "open"
         /\ \A i \in Inputs : preSign[roomEscrow[p][r]][i] # None
                                => preSign'[roomEscrow[p][r]][i] # None

\* Players who have signed for each other still have after such a step.
LEMMA SignedKept ==
    ASSUME TypeOK, NEW r \in Rooms, NEW s, BothSigned(s, r), RoomKept(r)
    PROVE  BothSigned(s, r)'
<1>1. Range(members[r]) \subseteq Range(members'[r]) /\ Range(members[r]) \subseteq Players
  <2>1. members[r] \in Seq(Players)
    BY DEF TypeOK
  <2>2. ASSUME NEW p \in Players
        PROVE  Range(members[r]) \subseteq Range(Append(members[r], p))
    BY <2>1 DEF Range
  <2> QED
    BY <2>1, <2>2 DEF RoomKept, Range
<1>2. Range(s) \subseteq Range(members[r])
  BY DEF BothSigned
<1>3. ASSUME NEW p \in Range(s)
      PROVE  /\ EscrowFor(p, r) \in Escrows
             /\ EscrowFor(p, r) = roomEscrow[p][r]
             /\ roomEscrow'[p][r] = roomEscrow[p][r]
             /\ escrow'[roomEscrow[p][r]] = "open"
             /\ \A i \in Inputs : preSign[roomEscrow[p][r]][i] # None
                                    => preSign'[roomEscrow[p][r]][i] # None
  BY <1>1, <1>2, <1>3, EscrowForType DEF BothSigned, RoomKept
<1>4. ASSUME NEW p \in Range(s) PROVE EscrowFor(p, r)' = EscrowFor(p, r)
  BY <1>3, <1>4, NoneAssumption DEF EscrowFor
<1>5. ASSUME NEW p \in Range(s), NEW q \in Range(s)
      PROVE  preSign'[EscrowFor(p, r)'][InputOf[EscrowFor(q, r)']] # None
  <2>1. /\ EscrowFor(p, r)' = EscrowFor(p, r) /\ EscrowFor(q, r)' = EscrowFor(q, r)
        /\ EscrowFor(p, r) = roomEscrow[p][r] /\ EscrowFor(q, r) \in Escrows
    BY <1>3, <1>4
  <2>2. preSign[EscrowFor(p, r)][InputOf[EscrowFor(q, r)]] # None
    BY DEF BothSigned
  <2>3. InputOf[EscrowFor(q, r)] \in Inputs
    BY <2>1, InputAssumption
  <2> QED
    BY <1>3, <2>1, <2>2, <2>3
<1>6. ASSUME NEW p \in Range(s) PROVE EscrowFor(p, r)' # None
  BY <1>3, <1>4, <1>6, NoneAssumption
<1> QED
  BY <1>1, <1>2, <1>5, <1>6 DEF BothSigned

\* A game with the players it had, in a room a step keeps, is as ready as it was.
LEMMA FieldedKept ==
    ASSUME TypeOK, NEW g \in Games, game[g].room \in Rooms, SettleReady(g),
           RoomKept(game[g].room), game'[g].room = game[g].room, Fielded(g)' = Fielded(g)
    PROVE  SettleReady(g)'
<1>1. PICK r \in Rooms : r = game[g].room
  OBVIOUS
<1>2. PICK s : s = Fielded(g)
  OBVIOUS
<1>3. Len(s) >= 2 /\ (Len(s) = 2 => BothSigned(s, r))
  BY <1>1, <1>2 DEF SettleReady
<1>4. Len(s) = 2 => BothSigned(s, r)'
  BY <1>1, <1>3, SignedKept
<1>5. Len(s) = 2 => BothSigned(Fielded(g), game[g].room)'
  BY <1>1, <1>2, <1>4 DEF BothSigned
<1> QED
  BY <1>2, <1>3, <1>5 DEF SettleReady

\* So is a game whose record a step keeps: a third player who joins before the
\* launch takes it out of the two-player case.
LEMMA ReadyKept ==
    ASSUME TypeOK, GameShape, NEW g \in Games, Live(g), SettleReady(g),
           RoomKept(game[g].room), game'[g].phase = game[g].phase,
           game'[g].room = game[g].room, game'[g].players = game[g].players
    PROVE  SettleReady(g)'
<1>1. game[g].room \in Rooms
  BY DEF Live, GameShape
<1>2. CASE Fielded(g)' = Fielded(g)
  BY <1>1, <1>2, FieldedKept
<1>3. CASE game[g].phase # "spawned"
  BY <1>2, <1>3 DEF Fielded
<1>4. CASE game[g].phase = "spawned"
  <2> DEFINE r == game[g].room
  <2>1. Fielded(g)' = members'[r] /\ Fielded(g) = members[r]
    BY <1>4 DEF Fielded
  <2>2. ASSUME NEW p \in Players, members'[r] = Append(members[r], p)
        PROVE  SettleReady(g)'
    <3>1. members[r] \in Seq(Players) /\ Len(members[r]) >= 2
      BY <1>1, <2>1 DEF TypeOK, SettleReady
    <3>2. Len(Fielded(g)') = Len(members[r]) + 1
      BY <2>1, <2>2, <3>1
    <3> QED
      BY <3>1, <3>2 DEF SettleReady
  <2> QED
    BY <1>2, <2>1, <2>2 DEF RoomKept
<1> QED
  BY <1>3, <1>4

\* A step that leaves the room alone, and no context out.
LEMMA StillKept ==
    ASSUME TypeOK, NEW r \in Rooms, members'[r] = members[r],
           \A p \in Players : roomEscrow'[p][r] = roomEscrow[p][r],
           \A e \in Escrows : escrow[e] = "open" => escrow'[e] = "open",
           \A e \in Escrows, i \in Inputs : preSign[e][i] # None => preSign'[e][i] # None
    PROVE  RoomKept(r)
<1>1. Range(members[r]) \subseteq Players
  BY DEF TypeOK, Range
<1>2. ASSUME NEW p \in Range(members[r]), EscrowFor(p, r) # None
      PROVE  roomEscrow[p][r] \in Escrows /\ escrow[roomEscrow[p][r]] = "open"
  BY <1>1, <1>2 DEF EscrowFor, TypeOK
<1> QED
  BY <1>1, <1>2 DEF RoomKept

\* The writes of the handshake leave no context out.
LEMMA StoreKept ==
    ASSUME TypeOK, NEW h \in Streams, stream[h].pc # "idle",
           NEW e \in Escrows, NEW b \in Branches, StorePresig(h, e, b)
    PROVE  \A f \in Escrows, i \in Inputs : preSign[f][i] # None => preSign'[f][i] # None
<1> DEFINE ctx == [by |-> stream[h].caller,
                   tx |-> Draft(stream[h].my, stream[h].opp, OwnerOf[e]),
                   branch |-> b, room |-> stream[h].room]
<1>1. preSign' = [preSign EXCEPT ![e][InputOf[stream[h].my]] = ctx]
  BY DEF StorePresig
<1>2. /\ stream[h].my \in Escrows /\ stream[h].opp \in Escrows
      /\ stream[h].caller \in Players /\ stream[h].room \in Rooms
  BY DEF TypeOK, IdleStream, BusyStream
<1>3. ctx \in Context
  BY <1>2, DraftType, OwnerAssumption DEF Context
<1>4. ctx # None
  BY <1>3, ContextAssumption
<1> HIDE DEF ctx
<1> QED
  BY <1>1, <1>4 DEF TypeOK

\* Creating a room leaves every other one alone.
LEMMA CreateKeeps ==
    ASSUME TypeOK, NEW p \in Players, NEW x \in Rooms, NEW e \in Escrows,
           CreateWaitingRoom(p, x, e), NEW r \in Rooms, host[r] # None
    PROVE  RoomKept(r)
<1>1. r # x
  BY DEF CreateWaitingRoom
<1> QED
  BY <1>1, StillKept DEF CreateWaitingRoom, TypeOK

\* A newcomer is added at the end of a room and changes nobody else's binding.
LEMMA JoinKeeps ==
    ASSUME TypeOK, NEW p \in Players, NEW x \in Rooms, NEW e \in Escrows,
           JoinWaitingRoom(p, x, e), NEW r \in Rooms, r = x => p \notin Range(members[x])
    PROVE  RoomKept(r)
<1>1. CASE r # x
  BY <1>1, StillKept DEF JoinWaitingRoom, TypeOK
<1>2. CASE r = x
  <2>1. members'[r] = Append(members[r], p)
    BY <1>2 DEF JoinWaitingRoom, TypeOK
  <2>2. \A q \in Players \ {p} : roomEscrow'[q][r] = roomEscrow[q][r]
    BY DEF JoinWaitingRoom, TypeOK
  <2>3. Range(members[r]) \subseteq Players \ {p}
    BY <1>2 DEF TypeOK, Range
  <2>4. escrow' = escrow /\ preSign' = preSign
    BY DEF JoinWaitingRoom
  <2>5. ASSUME NEW q \in Range(members[r]), EscrowFor(q, r) # None
        PROVE  escrow[roomEscrow[q][r]] = "open"
    BY <2>5 DEF EscrowFor
  <2> QED
    BY <2>1, <2>2, <2>3, <2>4, <2>5 DEF RoomKept
<1> QED
  BY <1>1, <1>2

\* LeaveWaitingRoom leaves a room alone that it neither names nor acts on, and
\* that none of the cleared escrows is bound to.
LEMMA LeaveKeeps ==
    ASSUME TypeOK, NEW p \in Players, NEW x \in Rooms, LeaveWaitingRoom(p, x),
           NEW E, E = {EscrowFor(q, x) : q \in Range(members[x])} \ {None},
           NEW r \in Rooms, r \notin {x, FirstRoomOf(p)} \cup BoundTo(E)
    PROVE  RoomKept(r)
<1>1. members'[r] = members[r]
  BY LeaveRange
<1>2. UNCHANGED <<escrow, roomEscrow>> /\ preSign' = ClearPreSigns(E)
  BY DEF LeaveWaitingRoom, escrowVars
<1>3. Range(members[r]) \subseteq Players
  BY DEF TypeOK, Range
<1>4. ASSUME NEW q \in Range(members[r]), EscrowFor(q, r) # None
      PROVE  /\ escrow[roomEscrow[q][r]] = "open"
             /\ preSign'[roomEscrow[q][r]] = preSign[roomEscrow[q][r]]
  <2>1. roomEscrow[q][r] \in Escrows /\ escrow[roomEscrow[q][r]] = "open"
    BY <1>3, <1>4 DEF EscrowFor, TypeOK
  <2>2. roomEscrow[q][r] \notin E
    BY <1>3, <1>4 DEF BoundTo
  <2> QED
    BY <1>2, <2>1, <2>2 DEF ClearPreSigns
<1> QED
  BY <1>1, <1>2, <1>4 DEF RoomKept

\* removeWaitingRoom leaves a room alone that is not the one it removes and that
\* none of the escrows it deletes is bound to.
LEMMA RemoveKeeps ==
    ASSUME TypeOK, BindingOwned, NEW g \in Games, RemoveWaitingRoom(g),
           NEW E, E = {e \in Escrows : /\ escrow[e] = "open"
                                       /\ OwnerOf[e] \in Range(members[game[g].room])},
           NEW r \in Rooms, r \notin {game[g].room} \cup BoundTo(E)
    PROVE  RoomKept(r)
<1> DEFINE P == Range(members[game[g].room])
<1>1. members'[r] = members[r]
  BY RemoveRoomRange DEF RemoveWaitingRoom
<1>2. /\ escrow' = [e \in Escrows |-> IF e \in E THEN "deleted" ELSE escrow[e]]
      /\ preSign' = ClearPreSigns(E)
      /\ roomEscrow' = [p \in Players |-> IF p \in P THEN [q \in Rooms |-> None]
                                           ELSE roomEscrow[p]]
  BY DEF RemoveWaitingRoom
<1>3. Range(members[r]) \subseteq Players
  BY DEF TypeOK, Range
<1>4. ASSUME NEW q \in Range(members[r]), EscrowFor(q, r) # None
      PROVE  /\ roomEscrow'[q][r] = roomEscrow[q][r]
             /\ escrow'[roomEscrow[q][r]] = "open"
             /\ preSign'[roomEscrow[q][r]] = preSign[roomEscrow[q][r]]
  <2>1. roomEscrow[q][r] \in Escrows /\ escrow[roomEscrow[q][r]] = "open"
    BY <1>3, <1>4 DEF EscrowFor, TypeOK
  <2>2. roomEscrow[q][r] \notin E
    BY <1>3, <1>4 DEF BoundTo
  <2>3. OwnerOf[roomEscrow[q][r]] = q
    BY <1>3, <1>4, <2>1, NoneAssumption DEF BindingOwned
  <2>4. q \notin P
    BY <2>1, <2>2, <2>3
  <2> HIDE DEF P
  <2> QED
    BY <1>2, <1>3, <2>1, <2>2, <2>4 DEF ClearPreSigns
<1> QED
  BY <1>1, <1>4 DEF RoomKept
\* The elements of a pair.
LEMMA PairRange ==
    ASSUME NEW S, NEW s \in Seq(S), Len(s) = 2
    PROVE  Range(s) = {s[1], s[2]} /\ s[1] \in S /\ s[2] \in S
BY DEF Range

\* The manager starts a game only when its two players have signed for each other.
LEMMA StartedSigned ==
    ASSUME TypeOK, NEW g \in Games, NEW x \in Rooms, NEW R \in SUBSET Players,
           ManagerStarts(x, R, g)
    PROVE  /\ Len(members[x]) >= 2
           /\ Len(members[x]) = 2 => BothSigned(members[x], x)
<1> DEFINE s == members[x]
<1>1. s \in Seq(Players)
  BY DEF TypeOK
<1>2. PICK i \in DOMAIN s, j \in DOMAIN s :
        /\ i < j /\ s[i] \in R /\ s[j] \in R
        /\ IsComplete(EscrowFor(s[i], x), EscrowFor(s[j], x))
        /\ IsComplete(EscrowFor(s[j], x), EscrowFor(s[i], x))
  BY DEF ManagerStarts
<1>3. Len(s) >= 2
  BY <1>1, <1>2
<1>4. ASSUME Len(s) = 2 PROVE BothSigned(s, x)
  <2>1. i = 1 /\ j = 2
    BY <1>1, <1>2, <1>4
  <2>2. Range(s) = {s[i], s[j]}
    BY <1>1, <1>4, <2>1, PairRange
  <2>3. \A p \in Range(s) : EscrowFor(p, x) # None
    BY <1>2, <2>2 DEF ManagerStarts
  <2>4. \A p, q \in Range(s) : InputOf[EscrowFor(q, x)] \in Presigned(EscrowFor(p, x))
    BY <1>2, <2>2 DEF IsComplete
  <2> QED
    BY <2>3, <2>4 DEF BothSigned, Presigned
<1> QED
  BY <1>3, <1>4

\* Every action keeps the calm games ready to be settled, one step of the proof
\* per action that can disturb one.
LEMMA CalmStep ==
    TypeOK /\ GameShape /\ BindingOwned /\ RoomsHosted /\ CalmGamesSigned /\ [Next]_vars
        => CalmGamesSigned'
<1> SUFFICES ASSUME TypeOK, GameShape, BindingOwned, RoomsHosted, CalmGamesSigned, [Next]_vars
             PROVE  CalmGamesSigned'
  OBVIOUS
<1>1. ASSUME \A g \in Games : Live(g)' =>
                \/ SettleReady(g)'
                \/ /\ Live(g) /\ RoomKept(game[g].room)
                   /\ game'[g].phase = game[g].phase
                   /\ game'[g].room = game[g].room /\ game'[g].players = game[g].players
      PROVE  CalmGamesSigned'
  BY <1>1, ReadyKept DEF CalmGamesSigned
\* Rooms a step leaves alone.
<1>2. ASSUME UNCHANGED <<members, roomEscrow>>,
             \A e \in Escrows : escrow[e] = "open" => escrow'[e] = "open",
             \A e \in Escrows, i \in Inputs : preSign[e][i] # None => preSign'[e][i] # None
      PROVE  \A r \in Rooms : RoomKept(r)
  BY <1>2, StillKept
<1>3. ASSUME UNCHANGED <<members, roomEscrow, escrow, preSign>>
      PROVE  \A r \in Rooms : RoomKept(r)
  BY <1>2, <1>3
\* The rooms of games exist.
<1>4. \A g \in Games : Live(g) => game[g].room \in Rooms /\ host[game[g].room] # None
  BY DEF Live, GameShape, RoomsHosted
<1>5. ASSUME UNCHANGED game, \A r \in Rooms : host[r] # None => RoomKept(r)
      PROVE  CalmGamesSigned'
  BY <1>1, <1>4, <1>5 DEF Live
<1>6. ASSUME NEW R, game' = Disturbed(R), \A r \in Rooms \ R : RoomKept(r)
      PROVE  CalmGamesSigned'
  BY <1>1, <1>4, <1>6, DisturbedType DEF Live
<1>7. ASSUME NEW g \in Games, NEW R, NEW ph \in {"reset", "done"},
             game' = [Disturbed(R) EXCEPT ![g].phase = ph], \A r \in Rooms \ R : RoomKept(r)
      PROVE  CalmGamesSigned'
  <2> DEFINE D == Disturbed(R)
  <2>1. D \in [Games -> GameState]
    BY DisturbedType
  <2>2. /\ game'[g].phase = ph
        /\ \A x \in Games \ {g} : game'[x] = D[x]
    BY <1>7, <2>1 DEF GameState
  <2>3. \A x \in Games : Live(x)' => x # g
    BY <2>2 DEF Live
  <2>4. \A x \in Games \ {g} : Live(x)' =>
          /\ Live(x) /\ game[x].room \notin R
          /\ game'[x].phase = game[x].phase
          /\ game'[x].room = game[x].room /\ game'[x].players = game[x].players
    BY <2>2, DisturbedType DEF Live
  <2> QED
    BY <1>1, <1>4, <1>7, <2>3, <2>4
\* A step of one game that leaves the rooms alone.
<1>8. ASSUME NEW g \in Games, \A x \in Games \ {g} : game'[x] = game[x],
             \A r \in Rooms : RoomKept(r), Live(g)' => SettleReady(g)'
      PROVE  CalmGamesSigned'
  <2>1. \A x \in Games \ {g} : Live(x)' => Live(x)
    BY <1>8 DEF Live
  <2> QED
    BY <1>1, <1>4, <1>8, <2>1
<1>9. ASSUME NEW e \in Escrows, OpenEscrow(e) \/ WatcherUpdate(e) PROVE CalmGamesSigned'
  <2>1. /\ UNCHANGED <<members, roomEscrow, preSign, game>>
        /\ \A f \in Escrows : escrow[f] = "open" => escrow'[f] = "open"
    BY <1>9 DEF OpenEscrow, WatcherUpdate, roomVars, TypeOK
  <2> QED
    BY <1>2, <1>5, <2>1
<1>10. ASSUME NEW p \in Players, NEW x \in Rooms, NEW e \in Escrows, CreateWaitingRoom(p, x, e)
       PROVE  CalmGamesSigned'
  <2>1. \A r \in Rooms : host[r] # None => RoomKept(r)
    BY <1>10, CreateKeeps
  <2> QED
    BY <1>5, <1>10, <2>1 DEF CreateWaitingRoom
<1>11. ASSUME NEW p \in Players, NEW x \in Rooms, NEW e \in Escrows, JoinWaitingRoom(p, x, e)
       PROVE  CalmGamesSigned'
  <2> DEFINE R == IF p \in Range(members[x]) THEN {x} ELSE {}
  <2>1. \A r \in Rooms \ R : RoomKept(r)
    BY <1>11, JoinKeeps
  <2>2. game' = Disturbed(R)
    BY <1>11 DEF JoinWaitingRoom
  <2> QED
    BY <1>6, <2>1, <2>2
<1>12. ASSUME NEW p \in Players, NEW x \in Rooms, LeaveWaitingRoom(p, x)
       PROVE  CalmGamesSigned'
  <2>1. PICK E : E = {EscrowFor(q, x) : q \in Range(members[x])} \ {None}
    OBVIOUS
  <2>2. \A r \in Rooms \ ({x, FirstRoomOf(p)} \cup BoundTo(E)) : RoomKept(r)
    BY <1>12, <2>1, LeaveKeeps
  <2>3. game' = Disturbed({x, FirstRoomOf(p)} \cup BoundTo(E))
    BY <1>12, <2>1 DEF LeaveWaitingRoom
  <2> QED
    BY <1>6, <2>2, <2>3
<1>13. ASSUME NEW h \in Streams,
              DropStream(h) \/ \E p \in Players, x \in Rooms : Hello(h, p, x)
       PROVE  CalmGamesSigned'
  BY <1>3, <1>5, <1>13 DEF Hello, DropStream, escrowVars, roomVars
<1>14. ASSUME NEW h \in Streams, PresignWin(h) \/ PresignLose(h) PROVE CalmGamesSigned'
  <2>1. /\ stream[h] \in BusyStream /\ stream[h].pc # "idle"
        /\ UNCHANGED <<members, roomEscrow, escrow, game>>
    BY <1>14 DEF PresignWin, PresignLose, TypeOK, IdleStream, escrowVars, roomVars
  <2>2. PICK e \in Escrows, b \in Branches : StorePresig(h, e, b)
    BY <1>14, <2>1 DEF PresignWin, PresignLose, BusyStream, Branches
  <2>3. \A f \in Escrows, i \in Inputs : preSign[f][i] # None => preSign'[f][i] # None
    BY <2>1, <2>2, StoreKept
  <2> QED
    BY <1>2, <1>5, <2>1, <2>3
<1>15. ASSUME NEW g \in Games, NEW x \in Rooms, NEW R \in SUBSET Players,
              ManagerStarts(x, R, g)
       PROVE  CalmGamesSigned'
  <2>1. UNCHANGED <<members, roomEscrow, escrow, preSign>>
    BY <1>15 DEF ManagerStarts, escrowVars, roomVars
  <2>2. /\ game'[g].phase = "spawned" /\ game'[g].room = x
        /\ \A y \in Games \ {g} : game'[y] = game[y]
    BY <1>15 DEF ManagerStarts, NoGame, TypeOK
  <2>3. PICK s : s = members[x]
    OBVIOUS
  <2>4. Fielded(g)' = s
    BY <2>1, <2>2, <2>3 DEF Fielded
  <2>5. Len(s) >= 2 /\ (Len(s) = 2 => BothSigned(s, x))
    BY <1>15, <2>3, StartedSigned
  <2>6. Len(s) = 2 => BothSigned(s, x)'
    BY <1>3, <2>1, <2>5, SignedKept
  <2>7. Len(s) = 2 => BothSigned(Fielded(g), game[g].room)'
    BY <2>2, <2>4, <2>6 DEF BothSigned
  <2>8. SettleReady(g)'
    BY <2>4, <2>5, <2>7 DEF SettleReady
  <2> QED
    BY <1>3, <1>8, <2>1, <2>2, <2>8
<1>16. ASSUME NEW g \in Games, Launch(g) \/ GameOver(g) PROVE CalmGamesSigned'
  <2>1. UNCHANGED <<members, roomEscrow, escrow, preSign>>
    BY <1>16 DEF Launch, GameOver, escrowVars, roomVars
  <2>2. CASE game' = game
    BY <1>3, <1>5, <2>1, <2>2
  <2>3. CASE game' # game
    <3>1. /\ Live(g)' => Live(g)
          /\ Fielded(g)' = Fielded(g)
          /\ game'[g].room = game[g].room
          /\ \A x \in Games \ {g} : game'[x] = game[x]
      <4>1. CASE Launch(g)
        <5>1. /\ game[g].phase = "spawned"
              /\ game' = [game EXCEPT ![g].phase = "playing", ![g].players = members[game[g].room]]
          BY <2>3, <4>1 DEF Launch
        <5> QED
          BY <5>1 DEF Live, Fielded, TypeOK, GameState
      <4>2. CASE GameOver(g)
        BY <4>2 DEF GameOver, Live, Fielded, TypeOK, GameState
      <4> QED
        BY <1>16, <4>1, <4>2
    <3>2. Live(g) => SettleReady(g)'
      BY <1>3, <1>4, <2>1, <3>1, FieldedKept DEF CalmGamesSigned
    <3> QED
      BY <1>3, <1>8, <2>1, <3>1, <3>2
  <2> QED
    BY <2>2, <2>3
<1>17. ASSUME NEW g \in Games, Settle(g) PROVE CalmGamesSigned'
  <2>1. UNCHANGED <<members, roomEscrow, escrow, preSign>>
    BY <1>17 DEF Settle, escrowVars, roomVars
  <2>2. /\ game'[g].phase = "settled"
        /\ \A x \in Games \ {g} : game'[x] = game[x]
    BY <1>17 DEF Settle, TypeOK, GameState
  <2>3. ~Live(g)'
    BY <2>2 DEF Live
  <2> QED
    BY <1>3, <1>8, <2>1, <2>2, <2>3
<1>18. ASSUME NEW g \in Games, ResetPlayers(g) PROVE CalmGamesSigned'
  <2>1. /\ UNCHANGED <<members, roomEscrow, escrow, preSign>>
        /\ game' = [Disturbed({game[g].room}) EXCEPT ![g].phase = "reset"]
    BY <1>18 DEF ResetPlayers, escrowVars
  <2> QED
    BY <1>3, <1>7, <2>1
<1>19. ASSUME NEW g \in Games, RemoveWaitingRoom(g) PROVE CalmGamesSigned'
  <2>1. PICK E : E = {e \in Escrows : /\ escrow[e] = "open"
                                      /\ OwnerOf[e] \in Range(members[game[g].room])}
    OBVIOUS
  <2>2. \A r \in Rooms \ ({game[g].room} \cup BoundTo(E)) : RoomKept(r)
    BY <1>19, <2>1, RemoveKeeps
  <2>3. game' = [Disturbed({game[g].room} \cup BoundTo(E)) EXCEPT ![g].phase = "done"]
    BY <1>19, <2>1 DEF RemoveWaitingRoom
  <2> QED
    BY <1>7, <2>2, <2>3
<1>20. CASE UNCHANGED vars
  BY <1>3, <1>5, <1>20 DEF vars, escrowVars, roomVars
<1> QED
  BY <1>9, <1>10, <1>11, <1>12, <1>13, <1>14, <1>15, <1>16, <1>17, <1>18, <1>19, <1>20, ZenonT(40)
  DEF Next, EscrowStep, RoomStep, StreamStep, GameStep

\* The invariant of the calm games is enough for the property: the contexts are
\* those of both inputs, and each is in the branch that the winner's victory has.
LEMMA CalmSettles ==
    TypeOK /\ GameShape /\ BindingOwned /\ ContextBranches /\ CalmGamesSigned
        => UndisturbedGameSettles
<1> SUFFICES ASSUME TypeOK, GameShape, BindingOwned, ContextBranches, CalmGamesSigned,
                    NEW g \in Games, game[g].phase \in {"playing", "over"}, game[g].calm,
                    Len(game[g].players) = 2, NEW k \in {1, 2}
             PROVE  LET r == game[g].room
                        w == game[g].players[k]
                        e == EscrowFor(w, r)
                        b == IF host[r] = w THEN 0 ELSE 1
                    IN /\ e # None
                       /\ (\A i \in Presigned(e) : /\ preSign[e][i].tx = CurrentDraft(g, w)
                                                   /\ preSign[e][i].room = r) =>
                             /\ BranchInputs(e, b) # {}
                             /\ \A i \in BranchInputs(e, b) :
                                  Complete(e, b, preSign[e][i].tx)
  BY DEF UndisturbedGameSettles
<1> DEFINE r == game[g].room
           s == game[g].players
           w == s[k]
           e == EscrowFor(w, r)
           b == IF host[r] = w THEN 0 ELSE 1
           tx == CurrentDraft(g, w)
<1>1. r \in Rooms /\ s \in Seq(Players) /\ Len(s) = 2
  BY DEF GameShape, TypeOK, GameState
<1>2. BothSigned(s, r)
  BY DEF CalmGamesSigned, Live, SettleReady, Fielded
<1>3. tx = Draft(EscrowFor(s[1], r), EscrowFor(s[2], r), w)
  BY DEF CurrentDraft
<1> HIDE DEF r, s, tx
<1>4. {s[1], s[2], w} \subseteq Range(s) /\ Range(s) \subseteq Players
  BY <1>1, PairRange
<1>5. \A p \in Range(s) : EscrowFor(p, r) \in Escrows
  BY <1>1, <1>2, <1>4, EscrowForType DEF BothSigned
<1>6. e # None /\ OwnerOf[e] = w
  BY <1>1, <1>4, <1>5, EscrowForType, NoneAssumption DEF BindingOwned
<1>7. tx.inputs = {InputOf[EscrowFor(s[1], r)], InputOf[EscrowFor(s[2], r)]}
  BY <1>3 DEF Draft
<1>8. e \in Escrows
  BY <1>4, <1>5
<1>9. tx.inputs \subseteq Presigned(e) /\ tx.inputs # {}
  BY <1>2, <1>4, <1>5, <1>7, InputAssumption DEF BothSigned, Presigned
<1> HIDE DEF e, w
<1>10. ASSUME \A i \in Presigned(e) : preSign[e][i].tx = tx /\ preSign[e][i].room = r
       PROVE  /\ BranchInputs(e, b) # {}
              /\ \A i \in BranchInputs(e, b) : Complete(e, b, preSign[e][i].tx)
  <2>1. Presigned(e) = BranchInputs(e, b)
    BY <1>6, <1>8, <1>10 DEF ContextBranches, BranchOf, BranchInputs, Presigned
  <2> HIDE DEF b
  <2>2. Complete(e, b, tx)
    BY <1>9, <1>10, <2>1 DEF Complete
  <2> QED
    BY <1>9, <1>10, <2>1, <2>2 DEF Presigned
<1> QED
  BY <1>6, <1>10 DEF r, s, w, e, tx

\* The inductive invariant behind the settlement of undisturbed games.
SettleInv ==
    /\ TypeOK /\ GameShape /\ BindingOwned
    /\ RoomsHosted /\ StreamBranches /\ ContextBranches
    /\ CalmGamesSigned

\* It holds initially and every action keeps it.
LEMMA SettleInvCorrect == Spec => []SettleInv
<1>1. Init => SettleInv
  BY TypeInit DEF Init, SettleInv, BindingOwned, RoomsHosted, StreamBranches, ContextBranches,
     CalmGamesSigned, Live, IdleStream, NoPresigns, NoGame, Listed, Range
<1>2. SettleInv /\ [Next]_vars => SettleInv'
  BY TypeStep, GameShapeStep, BindingStep, HostedStep, StreamBranchStep, ContextBranchStep,
     CalmStep DEF SettleInv
<1> QED
  BY <1>1, <1>2, PTL DEF Spec

\* What isComplete checks before a game is enough for handleGameEnd after it, as
\* long as nobody disturbs the game and no late or foreign stream writes: either
\* player's draft can be completed in his branch.
THEOREM UndisturbedGamesSettle == Spec => []UndisturbedGameSettles
<1>1. SettleInv => UndisturbedGameSettles
  BY CalmSettles DEF SettleInv
<1> QED
  BY <1>1, SettleInvCorrect, PTL

\* The winner of a game that is over is one of the two who played it.
WinnersPlayed ==
    \A g \in Games : game[g].phase = "over" =>
        game[g].winner \in {game[g].players[1], game[g].players[2], None}

\* Only GameOver names a winner, and it moves the game on.
LEMMA WinnerStep == TypeOK /\ WinnersPlayed /\ [Next]_vars => WinnersPlayed'
<1> SUFFICES ASSUME TypeOK, WinnersPlayed, [Next]_vars PROVE WinnersPlayed'
  OBVIOUS
<1> USE DEF WinnersPlayed
<1>1. ASSUME UNCHANGED game PROVE WinnersPlayed'
  BY <1>1
<1>2. ASSUME NEW R, game' = Disturbed(R) PROVE WinnersPlayed'
  BY <1>2, DisturbedType
<1>3. ASSUME NEW g \in Games, NEW R, NEW ph \in {"reset", "done"},
             game' = [Disturbed(R) EXCEPT ![g].phase = ph]
      PROVE  WinnersPlayed'
  <2> DEFINE D == Disturbed(R)
  <2>1. D \in [Games -> GameState] /\ \A x \in Games :
          /\ D[x].phase = game[x].phase /\ D[x].players = game[x].players
          /\ D[x].winner = game[x].winner
    BY DisturbedType
  <2> HIDE DEF D
  <2>2. /\ game'[g].phase = ph
        /\ \A x \in Games \ {g} : game'[x] = D[x]
    BY <1>3, <2>1 DEF D, GameState
  <2> QED
    BY <2>1, <2>2
<1>4. ASSUME NEW g \in Games, \A x \in Games \ {g} : game'[x] = game[x],
             game'[g].phase # "over"
      PROVE  WinnersPlayed'
  BY <1>4
<1>5. ASSUME NEW g \in Games, NEW r \in Rooms, NEW R \in SUBSET Players,
             ManagerStarts(r, R, g)
      PROVE  WinnersPlayed'
  BY <1>4, <1>5 DEF ManagerStarts, NoGame, TypeOK
<1>6. ASSUME NEW g \in Games, Launch(g) PROVE WinnersPlayed'
  <2>1. CASE game' = [game EXCEPT ![g].phase = "playing", ![g].players = members[game[g].room]]
    BY <1>4, <2>1 DEF TypeOK, GameState
  <2> QED
    BY <1>1, <1>6, <2>1 DEF Launch
<1>7. ASSUME NEW g \in Games, Settle(g) PROVE WinnersPlayed'
  <2>1. /\ game'[g].phase = "settled"
        /\ \A x \in Games \ {g} : game'[x] = game[x]
    BY <1>7 DEF Settle, TypeOK, GameState
  <2> QED
    BY <1>4, <2>1
<1>8. ASSUME NEW g \in Games, GameOver(g) PROVE WinnersPlayed'
  BY <1>8 DEF GameOver, TypeOK, GameState
<1>9. ASSUME NEW g \in Games, ResetPlayers(g) \/ RemoveWaitingRoom(g) PROVE WinnersPlayed'
  BY <1>3, <1>9 DEF ResetPlayers, RemoveWaitingRoom
<1> QED
  BY <1>1, <1>2, <1>5, <1>6, <1>7, <1>8, <1>9, ZenonT(40)
  DEF Next, EscrowStep, RoomStep, StreamStep, GameStep, OpenEscrow, WatcherUpdate,
      CreateWaitingRoom, JoinWaitingRoom, LeaveWaitingRoom, Hello, PresignWin, PresignLose,
      DropStream, vars

\* handleGameEnd pays the winner of an undisturbed game: it does not give up, and
\* what it completes is the draft over the two deposits now bound to the room.
THEOREM UndisturbedWinnersArePaid ==
    Spec => [][\A g \in Games :
                 /\ Settle(g) /\ game[g].winner # None
                 /\ game[g].calm /\ Len(game[g].players) = 2
                 /\ \A i \in Presigned(WinnerEscrow(g)) :
                      /\ preSign[WinnerEscrow(g)][i].tx = CurrentDraft(g, game[g].winner)
                      /\ preSign[WinnerEscrow(g)][i].room = game[g].room
                 => game'[g].paid = Completed(WinnerEscrow(g),
                                              CurrentDraft(g, game[g].winner))]_vars
<1> DEFINE Pays(g) ==
             /\ Settle(g) /\ game[g].winner # None
             /\ game[g].calm /\ Len(game[g].players) = 2
             /\ \A i \in Presigned(WinnerEscrow(g)) :
                  /\ preSign[WinnerEscrow(g)][i].tx = CurrentDraft(g, game[g].winner)
                  /\ preSign[WinnerEscrow(g)][i].room = game[g].room
             => game'[g].paid = Completed(WinnerEscrow(g), CurrentDraft(g, game[g].winner))
<1>1. ASSUME TypeOK, WinnersPlayed, UndisturbedGameSettles, NEW g \in Games
      PROVE  Pays(g)
  <2> SUFFICES ASSUME Settle(g), game[g].winner # None, game[g].calm,
                      Len(game[g].players) = 2,
                      \A i \in Presigned(WinnerEscrow(g)) :
                        /\ preSign[WinnerEscrow(g)][i].tx = CurrentDraft(g, game[g].winner)
                        /\ preSign[WinnerEscrow(g)][i].room = game[g].room
               PROVE  game'[g].paid = Completed(WinnerEscrow(g), CurrentDraft(g, game[g].winner))
    OBVIOUS
  <2> DEFINE w == game[g].winner
             e == WinnerEscrow(g)
             b == WinnerBranch(g)
             tx == CurrentDraft(g, w)
  <2>1. game[g].phase = "over"
    BY DEF Settle
  <2>2. PICK k \in {1, 2} : w = game[g].players[k]
    BY <1>1, <2>1 DEF WinnersPlayed
  <2>3. e = EscrowFor(w, game[g].room) /\ b = IF host[game[g].room] = w THEN 0 ELSE 1
    BY DEF WinnerEscrow, WinnerBranch
  <2>4. /\ e # None /\ BranchInputs(e, b) # {}
        /\ \A i \in BranchInputs(e, b) : Complete(e, b, preSign[e][i].tx)
    <3> DEFINE v == game[g].players[k]
               f == EscrowFor(v, game[g].room)
               c == IF host[game[g].room] = v THEN 0 ELSE 1
    <3>1. /\ f # None
          /\ (\A i \in Presigned(f) : /\ preSign[f][i].tx = CurrentDraft(g, v)
                                      /\ preSign[f][i].room = game[g].room) =>
                /\ BranchInputs(f, c) # {}
                /\ \A i \in BranchInputs(f, c) : Complete(f, c, preSign[f][i].tx)
      BY <1>1, <2>1 DEF UndisturbedGameSettles
    <3>2. f = e /\ c = b /\ v = w
      BY <2>2, <2>3
    <3> HIDE DEF e, b, w, f, c, v
    <3>3. \A i \in Presigned(e) : /\ preSign[e][i].tx = CurrentDraft(g, w)
                                  /\ preSign[e][i].room = game[g].room
      BY DEF e, w
    <3> QED
      BY <3>1, <3>2, <3>3
  <2>5. \A i \in BranchInputs(e, b) : preSign[e][i].tx = tx
    BY DEF BranchInputs
  <2> HIDE DEF tx, b
  <2>6. PICK i \in BranchInputs(e, b) :
          game' = [game EXCEPT ![g].phase = "settled",
                       ![g].paid = IF Complete(e, b, preSign[e][i].tx)
                                   THEN Completed(e, preSign[e][i].tx) ELSE None]
    BY <2>4 DEF Settle, b
  <2>7. game'[g].paid = Completed(e, preSign[e][i].tx)
    BY <1>1, <2>4, <2>6 DEF TypeOK, GameState
  <2> QED
    BY <2>5, <2>7 DEF tx
<1>2. Init => WinnersPlayed
  BY DEF Init, WinnersPlayed, NoGame
<1>3. TypeOK /\ WinnersPlayed /\ UndisturbedGameSettles => \A g \in Games : Pays(g)
  BY <1>1
<1> HIDE DEF Pays
<1>4. Spec => [][\A g \in Games : Pays(g)]_vars
  BY <1>2, <1>3, TypeCorrect, WinnerStep, UndisturbedGamesSettle, PTL DEF Spec
<1> QED
  BY <1>4 DEF Pays
=============================================================================
