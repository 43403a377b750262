------------------------------ MODULE Settlement ------------------------------
(***************************************************************************)
(* The money side of a match (server/referee.go, server/waitingroom.go,     *)
(* server/server.go, server/helpers.go, escrow mode, isF2P = false).        *)
(*                                                                          *)
(* Each player funds an escrow and binds it to a waiting room.  Over a      *)
(* SettlementStream a player pre-signs his own input of two draft           *)
(* transactions, one per outcome; the server keeps a pre-signature under    *)
(* the escrow of the player whose victory it serves.  A room manager starts *)
(* the game when both escrows hold both inputs; when the game is over the   *)
(* server completes the winner's draft and broadcasts it.                   *)
(*                                                                          *)
(* Handlers run concurrently.  A handler that waits (Recv on a stream, a    *)
(* manager's tick, a goroutine about to start) is split into one action per *)
(* stretch between two waits; a handle it keeps across a wait is a field of *)
(* its record.                                                              *)
(***************************************************************************)
EXTENDS Naturals, Sequences, FiniteSets, SequencesExt

CONSTANTS
    Players,     \* client identities (zkidentity.ShortID)
    Rooms,       \* waiting-room ids, each used by one CreateWaitingRoom
    Escrows,     \* escrow ids, each used by one OpenEscrow
    Inputs,      \* funding outpoints "txid:vout"
    Streams,     \* SettlementStream handlers
    Games,       \* runs of handleGameLifecycle
    OwnerOf,     \* escrowSession.ownerUID
    InputOf,     \* the one outpoint ensureBoundFunding can bind to the escrow
    Flaky,       \* escrows whose deposit may stop being the exact single one
    RoomCap,     \* bound on the players of a room: the code has none
    MaxLeaves,   \* bound on the calls of LeaveWaitingRoom
    None

ASSUME OwnerAssumption == OwnerOf \in [Escrows -> Players]
ASSUME InputAssumption ==
    /\ InputOf \in [Escrows -> Inputs]
    \* the redeem script carries the depositor's key: one outpoint, one owner
    /\ \A e, f \in Escrows : InputOf[e] = InputOf[f] => OwnerOf[e] = OwnerOf[f]
ASSUME NoneAssumption == None \notin Players \cup Rooms \cup Escrows
ASSUME BoundAssumption == Flaky \subseteq Escrows /\ RoomCap \in Nat /\ MaxLeaves \in Nat

VARIABLES
    escrow,      \* s.escrows: "unopened", "open" (in the map), "deleted"
    exact,       \* escrows whose last watcher snapshot is the exact single deposit
    preSign,     \* escrowSession.preSign: [escrow -> [input -> context or None]]
    roomList,    \* gameManager.WaitingRooms, in order
    members,     \* WaitingRoom.Players, in order
    host,        \* WaitingRoom.HostID, None before the room is created
    wr,          \* Player.WR
    roomEscrow,  \* s.roomEscrows
    stream,      \* local state of each SettlementStream handler
    game,        \* local state of each handleGameLifecycle goroutine
    crashed,     \* the process has panicked
    leaves       \* number of LeaveWaitingRoom calls, for MaxLeaves

escrowVars == <<escrow, exact>>
roomVars == <<roomList, members, host, wr, roomEscrow>>
vars == <<escrowVars, roomVars, preSign, stream, game, crashed, leaves>>

-----------------------------------------------------------------------------
(* Data *)

Branches == {0, 1}                                   \* 0 pays the host, 1 the other player
Tx == [inputs : SUBSET Inputs, pays : Players]       \* a draft: what it spends, whom it pays
\* PreSignCtx: whose key made the pre-signature, over which draft, in which branch.
\* History: room, the one whose handshake stored it; no guard reads it.
Context == [by : Players, tx : Tx, branch : Branches, room : Rooms]
ASSUME ContextAssumption == None \notin Context

\* A stream handler: idle, or waiting for VERIFY_OK of its win or lose branch.
IdleStream == [pc |-> "idle", caller |-> None, room |-> None, my |-> None, opp |-> None,
               branch |-> 0]
BusyStream == [pc : {"win", "lose"}, caller : Players, room : Rooms, my : Escrows,
               opp : Escrows, branch : Branches]
\* A completed draft, with the context that signs each of its inputs.
Settlements == [tx : Tx, sigs : UNION {[I -> Context] : I \in SUBSET Inputs}]

\* A lifecycle goroutine: not spawned, spawned, running a game, past its end.
NoGame == [phase |-> "none", room |-> None, players |-> <<>>, winner |-> None,
           paid |-> None, calm |-> TRUE]
GameState ==
    [phase : {"none", "spawned", "playing", "over", "settled", "reset", "done"},
     room : Rooms \cup {None}, players : Seq(Players), winner : Players \cup {None},
     paid : Settlements \cup {None}, calm : BOOLEAN]

\* buildTwoInputDrafts: the draft that spends both deposits and pays p.
Draft(e, f, p) == [inputs |-> {InputOf[e], InputOf[f]}, pays |-> p]

Presigned(e) == {i \in Inputs : preSign[e][i] # None}

Listed(r) == r \in Range(roomList)

\* escrowForRoomPlayer: None when nothing is bound or the escrow is gone.
EscrowFor(p, r) ==
    IF roomEscrow[p][r] # None /\ escrow[roomEscrow[p][r]] = "open"
    THEN roomEscrow[p][r] ELSE None

\* ensureBoundFunding succeeds, with the one deposit InputOf names.
Funded(e) == e \in exact

NoPresigns == [i \in Inputs |-> None]
ClearPreSigns(E) == [e \in Escrows |-> IF e \in E THEN NoPresigns ELSE preSign[e]]

\* GameManager.RemoveWaitingRoom ranges over the slice that RemovePlayer shifts
\* in place, so every second player survives in it, but the last of an even number.
Survivors(s) == [k \in 1 .. (Len(s) - 1) \div 2 |-> s[2 * k]]
Removed(s) == Range(s) \ Range(Survivors(s))

Init ==
    /\ escrow = [e \in Escrows |-> "unopened"]
    /\ exact = {}
    /\ preSign = [e \in Escrows |-> NoPresigns]
    /\ roomList = <<>>
    /\ members = [r \in Rooms |-> <<>>]
    /\ host = [r \in Rooms |-> None]
    /\ wr = [p \in Players |-> None]
    /\ roomEscrow = [p \in Players |-> [r \in Rooms |-> None]]
    /\ stream = [h \in Streams |-> IdleStream]
    /\ game = [g \in Games |-> NoGame]
    /\ crashed = FALSE
    /\ leaves = 0

-----------------------------------------------------------------------------
(* Escrows and their funding, as the settlement sees it *)

OpenEscrow(e) ==
    /\ escrow[e] = "unopened"
    /\ escrow' = [escrow EXCEPT ![e] = "open"]
    /\ UNCHANGED <<exact, roomVars, preSign, stream, game>>

\* trackEscrow receives a watcher snapshot.
WatcherUpdate(e) ==
    /\ escrow[e] = "open"
    /\ \/ exact' = exact \cup {e}
       \/ e \in Flaky /\ exact' = exact \ {e}
    /\ UNCHANGED <<escrow, roomVars, preSign, stream, game>>

\* resolveFundedEscrow
Resolves(p, e) == escrow[e] = "open" /\ OwnerOf[e] = p /\ Funded(e)

-----------------------------------------------------------------------------
(* Waiting rooms *)

CreateWaitingRoom(p, r, e) ==
    /\ host[r] = None                                  \* fresh random id
    /\ wr[p] = None
    /\ Resolves(p, e)
    /\ host' = [host EXCEPT ![r] = p]
    /\ members' = [members EXCEPT ![r] = <<p>>]
    /\ roomList' = Append(roomList, r)
    /\ wr' = [wr EXCEPT ![p] = r]
    /\ roomEscrow' = [roomEscrow EXCEPT ![p][r] = e]
    /\ UNCHANGED <<escrow, exact, preSign, stream, game>>

\* History: a game is calm until somebody leaves its room, is reset in it or binds
\* another escrow to it, and until an escrow bound to it loses its pre-signatures.
Disturbed(R) == [g \in Games |-> IF game[g].room \in R
                                 THEN [game[g] EXCEPT !.calm = FALSE] ELSE game[g]]
BoundTo(E) == {r \in Rooms : \E p \in Players : roomEscrow[p][r] \in E}

JoinWaitingRoom(p, r, e) ==
    /\ \A q \in Rooms : Listed(q) /\ p \in Range(members[q]) => wr[p] = None
    /\ Resolves(p, e)
    /\ Listed(r)
    /\ p \in Range(members[r]) \/ Len(members[r]) < RoomCap
    /\ members' = [members EXCEPT ![r] = IF p \in Range(@) THEN @ ELSE Append(@, p)]
    /\ wr' = [wr EXCEPT ![p] = r]
    /\ roomEscrow' = [roomEscrow EXCEPT ![p][r] = e]
    /\ game' = Disturbed(IF p \in Range(members[r]) THEN {r} ELSE {})
    /\ UNCHANGED <<escrow, exact, roomList, host, preSign, stream>>

\* RemoveWaitingRoom(q) on the state of the rooms and the back-references.
RemoveRoom(q) ==
    /\ roomList' = RemoveFirst(roomList, q)
    /\ members' = [members EXCEPT ![q] = Survivors(@)]
    /\ wr' = [p \in Players |-> IF p \in Removed(members[q]) THEN None ELSE wr[p]]

\* RemovePlayerFromWaitingRoom acts on the first listed room that has the player.
FirstRoomOf(p) ==
    roomList[CHOOSE i \in DOMAIN roomList :
                /\ p \in Range(members[roomList[i]])
                /\ \A j \in 1 .. (i - 1) : p \notin Range(members[roomList[j]])]

LeaveWaitingRoom(p, r) ==
    /\ leaves < MaxLeaves
    /\ Listed(r)
    /\ p \in Range(members[r])
    /\ LET E == {EscrowFor(q, r) : q \in Range(members[r])} \ {None} IN
       /\ preSign' = ClearPreSigns(E)
       /\ game' = Disturbed({r, FirstRoomOf(p)} \cup BoundTo(E))
    /\ LET q == FirstRoomOf(p) IN
       \/ /\ host[q] = p
          /\ RemoveRoom(q)
       \/ /\ host[q] # p
          /\ members' = [members EXCEPT ![q] = RemoveFirst(@, p)]
          /\ wr' = [wr EXCEPT ![p] = None]
          /\ UNCHANGED roomList
    /\ UNCHANGED <<escrowVars, host, roomEscrow, stream>>

-----------------------------------------------------------------------------
(* The presign handshake *)

\* HELLO up to the win-branch request: the handler keeps both escrow sessions,
\* the drafts and the caller's branch for the rest of the stream.
Hello(h, p, r) ==
    /\ stream[h].pc = "idle"
    /\ Listed(r)
    /\ Len(members[r]) = 2
    /\ p \in Range(members[r])
    /\ \E q \in Range(members[r]) \ {p} :
         LET my == EscrowFor(p, r)
             opp == EscrowFor(q, r)
         IN /\ my # None /\ opp # None
            /\ Funded(my) /\ Funded(opp)
            /\ host[r] \in {p, q}
            /\ stream' = [stream EXCEPT ![h] =
                   [pc |-> "win", caller |-> p, room |-> r, my |-> my, opp |-> opp,
                    branch |-> IF p = host[r] THEN 0 ELSE 1]]
    /\ UNCHANGED <<escrow, exact, roomVars, preSign, game>>

\* Mutant: the draft pays the caller in both branches.
StorePresigForCaller(h, e, branch) ==
    LET my == stream[h].my
        tx == Draft(my, stream[h].opp, OwnerOf[my])
    IN preSign' = [preSign EXCEPT ![e][InputOf[my]] =
                     [by |-> stream[h].caller, tx |-> tx, branch |-> branch,
                      room |-> stream[h].room]]

\* verifyAndStorePresig: the caller's input, under escrow e, for the draft that
\* pays e's owner in the given branch.
StorePresig(h, e, branch) ==
    LET my == stream[h].my
        tx == Draft(my, stream[h].opp, OwnerOf[e])
    IN preSign' = [preSign EXCEPT ![e][InputOf[my]] =
                     [by |-> stream[h].caller, tx |-> tx, branch |-> branch,
                      room |-> stream[h].room]]

\* VERIFY_OK of the branch the caller wins.
PresignWin(h) ==
    /\ stream[h].pc = "win"
    /\ StorePresig(h, stream[h].my, stream[h].branch)
    /\ stream' = [stream EXCEPT ![h].pc = "lose"]
    /\ UNCHANGED <<escrowVars, roomVars, game>>

\* VERIFY_OK of the branch the opponent wins; the final ACK ends the handler.
PresignLose(h) ==
    /\ stream[h].pc = "lose"
    /\ StorePresig(h, stream[h].opp, 1 - stream[h].branch)
    /\ stream' = [stream EXCEPT ![h] = IdleStream]
    /\ UNCHANGED <<escrowVars, roomVars, game>>

\* Recv fails, or the digest or the signature does not verify.
DropStream(h) ==
    /\ stream[h].pc # "idle"
    /\ stream' = [stream EXCEPT ![h] = IdleStream]
    /\ UNCHANGED <<escrowVars, roomVars, preSign, game>>

-----------------------------------------------------------------------------
(* Room managers and games *)

\* Mutant: the winner's own pre-signature is enough.
IsCompleteAlone(win, lose) == InputOf[win] \in Presigned(win)

\* isComplete: the winner's escrow holds both bound inputs, in one branch.
IsComplete(win, lose) ==
    /\ Cardinality(Presigned(win)) >= 2
    /\ \A i, j \in Presigned(win) : preSign[win][i].branch = preSign[win][j].branch
    /\ InputOf[win] \in Presigned(win)
    /\ InputOf[lose] \in Presigned(win)

\* A tick of a manager of the room that finds the players of R ready, each with
\* a game stream.  Readiness and the managers are the module Lobby's: here any
\* room may have one, and any of its players may be ready.
ManagerStarts(r, R, g) ==
    /\ game[g].phase = "none"
    /\ \A p \in Range(members[r]) \cap R : EscrowFor(p, r) # None /\ Funded(EscrowFor(p, r))
    /\ \E i, j \in DOMAIN members[r] :            \* the first two of the ready
          /\ i < j /\ members[r][i] \in R /\ members[r][j] \in R
          /\ \A k \in 1 .. (j - 1) : members[r][k] \in R => k = i
          /\ LET a == EscrowFor(members[r][i], r)
                 b == EscrowFor(members[r][j], r)
             IN IsComplete(a, b) /\ IsComplete(b, a)
    /\ game' = [game EXCEPT ![g] = [NoGame EXCEPT !.phase = "spawned", !.room = r]]
    /\ UNCHANGED <<escrowVars, roomVars, preSign, stream>>

\* StartGame in the new goroutine reads the players again; NewEngine indexes
\* the first two and panics when there are fewer.
Launch(g) ==
    LET r == game[g].room IN
    /\ game[g].phase = "spawned"
    /\ IF Len(members[r]) < 2
       THEN crashed' = TRUE /\ game' = game
       ELSE /\ game' = [game EXCEPT ![g].phase = "playing", ![g].players = members[r]]
            /\ crashed' = crashed
    /\ UNCHANGED <<escrowVars, roomVars, preSign, stream>>

\* The round loop names a winner, or the streams end without one.
GameOver(g) ==
    /\ game[g].phase = "playing"
    /\ \E w \in {game[g].players[1], game[g].players[2], None} :
         game' = [game EXCEPT ![g].phase = "over", ![g].winner = w]
    /\ UNCHANGED <<escrowVars, roomVars, preSign, stream>>

WinnerEscrow(g) ==
    IF game[g].winner = None THEN None ELSE EscrowFor(game[g].winner, game[g].room)
WinnerBranch(g) == IF host[game[g].room] = game[g].winner THEN 0 ELSE 1
BranchInputs(e, b) == {i \in Presigned(e) : preSign[e][i].branch = b}

\* Mutants: the contexts are not filtered by draft; any of them will do.
CompleteMixed(e, b, tx) == tx.inputs \subseteq BranchInputs(e, b)
CompleteAny(e, b, tx) == \E i \in tx.inputs : i \in BranchInputs(e, b)

\* FinalizeWinner on draft tx: every input of it needs a pre-signature of it.
Complete(e, b, tx) == tx.inputs \subseteq {i \in BranchInputs(e, b) : preSign[e][i].tx = tx}
Completed(e, tx) == [tx |-> tx, sigs |-> [i \in tx.inputs |-> preSign[e][i]]]

\* handleGameEnd.  The draft is the one of whatever context of the branch the
\* map iteration ends on; the tx is broadcast, or sent to the winner by message
\* when the broadcast fails.
Settle(g) ==
    LET r == game[g].room
        e == WinnerEscrow(g)
        b == WinnerBranch(g)
    IN
    /\ game[g].phase = "over"
    /\ \/ /\ e # None
          /\ \E i \in BranchInputs(e, b) :
               game' = [game EXCEPT ![g].phase = "settled",
                           ![g].paid = IF Complete(e, b, preSign[e][i].tx)
                                       THEN Completed(e, preSign[e][i].tx)
                                       ELSE None]
       \/ /\ e # None => BranchInputs(e, b) = {}
          /\ game' = [game EXCEPT ![g].phase = "settled"]
    /\ UNCHANGED <<escrowVars, roomVars, preSign, stream>>

\* The deferred ResetPlayer of every player the game was started with.
ResetPlayers(g) ==
    LET P == Range(game[g].players) IN
    /\ game[g].phase = "settled"
    /\ wr' = [p \in Players |-> IF p \in P THEN None ELSE wr[p]]
    /\ game' = [Disturbed({game[g].room}) EXCEPT ![g].phase = "reset"]
    /\ UNCHANGED <<escrowVars, roomList, members, host, roomEscrow, preSign, stream>>

\* removeWaitingRoom: cancel, delete every escrow and room binding of the
\* players still in the room, then unlist it.
RemoveWaitingRoom(g) ==
    LET r == game[g].room
        P == Range(members[r])
        E == {e \in Escrows : escrow[e] = "open" /\ OwnerOf[e] \in P}
    IN
    /\ game[g].phase = "reset"
    /\ escrow' = [e \in Escrows |-> IF e \in E THEN "deleted" ELSE escrow[e]]
    /\ preSign' = ClearPreSigns(E)
    /\ roomEscrow' = [p \in Players |-> IF p \in P THEN [q \in Rooms |-> None]
                                         ELSE roomEscrow[p]]
    /\ IF Listed(r)
       THEN RemoveRoom(r)
       ELSE UNCHANGED <<roomList, members, wr>>
    /\ game' = [Disturbed({r} \cup BoundTo(E)) EXCEPT ![g].phase = "done"]
    /\ UNCHANGED <<exact, host, stream>>

-----------------------------------------------------------------------------

EscrowStep == \E e \in Escrows : OpenEscrow(e) \/ WatcherUpdate(e)

RoomStep ==
    \E p \in Players, r \in Rooms, e \in Escrows :
        CreateWaitingRoom(p, r, e) \/ JoinWaitingRoom(p, r, e)

StreamStep ==
    \E h \in Streams :
        \/ \E p \in Players, r \in Rooms : Hello(h, p, r)
        \/ PresignWin(h)
        \/ PresignLose(h)
        \/ DropStream(h)

GameStep ==
    \/ \E g \in Games, r \in Rooms, R \in SUBSET Players : ManagerStarts(r, R, g)
    \/ \E g \in Games : GameOver(g) \/ Settle(g) \/ ResetPlayers(g) \/ RemoveWaitingRoom(g)

Next ==
    /\ ~crashed
    /\ \/ /\ EscrowStep \/ RoomStep \/ StreamStep \/ GameStep
          /\ UNCHANGED <<crashed, leaves>>
       \/ /\ \E p \in Players, r \in Rooms : LeaveWaitingRoom(p, r)
          /\ leaves' = leaves + 1
          /\ crashed' = crashed
       \/ /\ \E g \in Games : Launch(g)
          /\ leaves' = leaves

Spec == Init /\ [][Next]_vars

-----------------------------------------------------------------------------
(* Properties *)

\* Every variable has its type.
TypeOK ==
    /\ escrow \in [Escrows -> {"unopened", "open", "deleted"}]
    /\ exact \subseteq Escrows
    /\ preSign \in [Escrows -> [Inputs -> Context \cup {None}]]
    /\ roomList \in Seq(Rooms)
    /\ members \in [Rooms -> Seq(Players)]
    /\ host \in [Rooms -> Players \cup {None}]
    /\ wr \in [Players -> Rooms \cup {None}]
    /\ roomEscrow \in [Players -> [Rooms -> Escrows \cup {None}]]
    /\ stream \in [Streams -> BusyStream \cup {IdleStream}]
    /\ game \in [Games -> GameState]
    /\ crashed \in BOOLEAN
    /\ leaves \in 0 .. MaxLeaves

\* A pre-signature kept under an escrow is for a draft that spends that escrow's
\* deposit and pays its owner, whichever of the two streams stored it and
\* however late: the server can never complete, from a player's session, a
\* transaction that pays somebody else.
PresignServesOwner ==
    \A e \in Escrows : \A i \in Presigned(e) :
        /\ preSign[e][i].tx.pays = OwnerOf[e]
        /\ InputOf[e] \in preSign[e][i].tx.inputs

\* A completed settlement pays the winner of its game, spends the winner's own
\* deposit, and each deposit it spends is signed by its owner, over this very
\* draft.
SettlementIsAuthorized ==
    \A g \in Games : game[g].paid # None =>
        LET tx == game[g].paid.tx IN
        /\ tx.pays = game[g].winner
        /\ \E e \in Escrows : OwnerOf[e] = game[g].winner /\ InputOf[e] \in tx.inputs
        /\ \A f \in Escrows : InputOf[f] \in tx.inputs =>
             LET sig == game[g].paid.sigs[InputOf[f]]
             IN sig.by = OwnerOf[f] /\ sig.tx = tx

\* What the manager checks before a game (isComplete) is enough for what
\* handleGameEnd needs after it, although the manager looks at no draft and never
\* asks which branch is whose: while nobody disturbed the game and no late stream
\* or stream of another room wrote, each of the two players' drafts can be
\* completed, in his branch, whatever context the map iteration picks.
CurrentDraft(g, w) ==
    Draft(EscrowFor(game[g].players[1], game[g].room),
          EscrowFor(game[g].players[2], game[g].room), w)
UndisturbedGameSettles ==
    \A g \in Games :
        /\ game[g].phase \in {"playing", "over"} /\ game[g].calm
        /\ Len(game[g].players) = 2
        => \A k \in {1, 2} :
            LET r == game[g].room
                w == game[g].players[k]
                e == EscrowFor(w, r)
                b == IF host[r] = w THEN 0 ELSE 1
            IN /\ e # None
               /\ (\A i \in Presigned(e) : /\ preSign[e][i].tx = CurrentDraft(g, w)
                                           /\ preSign[e][i].room = r) =>
                     /\ BranchInputs(e, b) # {}
                     /\ \A i \in BranchInputs(e, b) : Complete(e, b, preSign[e][i].tx)

\* helpers.go:143 on clearPreSigns: "This should be called when a player leaves
\* to prevent memory leaks and stale data."  No escrow bound to a listed room
\* holds a pre-signature over a deposit of somebody who is not in the room.
NoStalePresigns ==
    \A r \in Rooms : Listed(r) =>
        \A p \in Range(members[r]) : EscrowFor(p, r) # None =>
            \A i \in Presigned(EscrowFor(p, r)) :
                preSign[EscrowFor(p, r)][i].tx.inputs \subseteq
                    {InputOf[EscrowFor(q, r)] :
                        q \in {x \in Range(members[r]) : EscrowFor(x, r) # None}}
=============================================================================
