# A TLA+ model of pongbisonrelay

pongbisonrelay is a pong server with real stakes.  Two players of a waiting room
each fund an on-chain escrow, pre-sign both outcomes of their match, play, and
the server completes and broadcasts the winner's transaction.  In free-to-play
mode (`isF2P`) the escrows are left out.  These modules model the server
(`server/`, `ponggame/`, `chainwatcher/`, root `helpers.go`), the client library
(`client/`), and what the terminal and the graphical client do to its state
(`cmd/pongclient/`, `pongui/`); paths below are relative to the root of the
repository's sources.

## 1. Inventory

| Component | State | Operations | Hard parts |
|---|---|---|---|
| Settlement (`server/referee.go`, `server/helpers.go`, `server/server.go` 534-711, `helpers.go`) | `escrows`, `escrowSession.preSign`, `roomEscrows` | `OpenEscrow`, `SettlementStream`, `verifyAndStorePresig`, `clearPreSigns`, `cleanupEscrowSessionsForPlayers`, `handleGameEnd` | a stream outlives the room it was opened in; unlocked reads; deletion of sessions in use |
| Waiting rooms (`server/waitingroom.go`, `ponggame/waiting_room.go`, `ponggame/game.go` 100-148) | `WaitingRooms`, `Players`, `HostID`, `Player.WR`, the room's context | create, join, leave, `RemoveWaitingRoom` | several locks per operation; removal while ranging; slices that share an array |
| Game streams, readiness (`server/game.go`) | `activeGameStreams`, `Player.GameStream`, `Player.Ready` | `StartGameStream`, its exit, `UnreadyGameStream` | two handlers of one client overlap |
| Run, room managers (`server/server.go` 440-480, 765-871) | `waitingRoomCreated` (one element), `wrManagers` | `Run`, `manageWaitingRoom` | dropped announcements, old snapshots, managers that leave |
| Game lifecycle (`server/server.go` 534-738, 876-977, `ponggame/game.go`) | `Games`, `PlayerGameMap`, frame channels, `GameInstance.Players` | `handleGameLifecycle`, `StartGame`, `sendGameUpdates`, `distributeFrames`, `Cleanup`, `handleGameEnd` | six kinds of goroutines, channels closed by one and read by another |
| Escrow funding (`chainwatcher/`, `trackEscrow`, `ensureBoundFunding`) | known outputs, subscriptions, `latest`, `boundInput` | mempool and block handlers, snapshots, binding | lossy and reordered updates |
| Game run (`ponggame/game.go` 285-565) | countdown, ready timer, scores | `Run`, `startCountdown`, `startGameplay`, `onReadyTimeout` | timers racing ticks, a channel closed while it is written |
| Frames and inputs (`ponggame/game.go` 594-684, `ponggame/engine.go`) | buffers that drop | `distributeFrames`, `SendInput`, `HandlePlayerInput` | slow clients, several senders of one queue |
| Engine and physics (`ponggame/engine.go`, `physics.go`) | ball, paddles | `NewRound`, `tick` | floating-point geometry |
| Login (`server/auth.go`) | nonces, sessions, pinned payout keys | `RequestNonce`, `VerifyLogin` | two critical sections per login |
| Notifier streams (`server/game.go`, `server/helpers.go`) | `users`, `NotifierStream` | registration, best-effort sends | overlap of two streams |
| Store (`server/serverdb/`) | bbolt buckets | tips, match records | status transitions across calls |
| Adaptor signatures (`server/helpers.go`, `client/helpers.go`, `helpers.go`) | none: functions of keys, drafts and points | `computePreSig`, `verifyAndStorePresig`, `FinalizeWinner` | parity of points, overflowing challenges, nothing at infinity |
| Client library (`client/`) | session key, escrow info, `historic_sessions/`, notification and game streams | its half of the handshake, archive, refund, `consumeNtfnStream`, `RefStartGameStream` | loss of keys, torn files, commands that overlap, reconnection |
| Terminal client (`cmd/pongclient/`) | pressed keys and their timers | presses, automatic releases | a terminal reports no releases; inputs are sent from goroutines |
| Graphical client and mobile bindings (`pongui/`) | active escrow, funding status, client handle | buttons that open and archive escrows, start and stop of a client, the loops over `cmdResultChan` | callbacks after a restart, one queue with several readers |
| Bots (`cmd/`), generated code (`pongrpc/`) | presentation, marshalling | | |

**How they interact.**  A client calls the server by gRPC; every call and every
stream is a goroutine.  `CreateWaitingRoom` announces its room on
`waitingRoomCreated`; `Run` answers by starting a manager; the manager polls the
room and spawns `handleGameLifecycle`; that starts a `GameInstance` and its
goroutines, waits for the frame senders, calls `handleGameEnd`, and dismantles the
room.  Rooms, players, escrow sessions and games refer to each other by shared
pointers; contexts carry cancellation from a room to its manager and its game.

**What makes each part correct.**  A pre-signature may only ever pay the owner of the
session it is kept in, and a settlement is signed by every depositor.  A room is never
lost, managed once, and leaves the list when it is over.  A player refers to a room only
while it holds him, but for one whom it lost in the middle of his joining, and is ready
only while somebody is there to clear the flag.  Ready players play, and a game panics
only if somebody disturbed it.  A binding of an escrow to its deposit never changes, and
names a deposit that was made; lost or late news of the chain is made up for.  A game
counts down once, is won by whoever first reaches the score, and ends.  A ball is never
caught inside a paddle, nor lost in front of one unless it has become fast enough to
leap over it, and frames never go back.  The key of an escrow whose deposit address was
shown is on disk, and signs for the deposit.  A client whose connections break is
registered again, and its view of readiness follows.  A nonce logs in once.  A paddle
stands still when no key is held and no release was lost.

## 2. Modules

| Module | Models |
|---|---|
| `Settlement` | the money side, escrow mode |
| `MCSettlement` + `.cfg`, `MCSettlementStale.cfg` | instances for TLC |
| `SettlementProofs` | theorems about `Settlement` |
| `Lobby` | rooms, readiness, managers and the life of a game, free-to-play mode |
| `MCLobby` + five more `.cfg` | instances for TLC; the loop of `RemoveWaitingRoom` as an ASSUME |
| `LobbyProofs` | theorems about `Lobby` |
| `Funding` | how the server learns of deposits: chain watcher, escrow tracker, binding |
| `MCFunding` + `.cfg`, `MCFundingStale.cfg` | instances for TLC |
| `FundingProofs` | theorems about `Funding` |
| `SequenceLemmas` | lemmas about sequences that these proofs cite |
| `GameRun` | one game from its creation to its clean-up, goroutine by goroutine |
| `Match` | the abstract game that `GameRun` implements |
| `Frames` | the queues that drop, as functions |
| `Physics` | one tick of the engine, as functions |
| `MCGame` + `.cfg` | the instance of these four for TLC |
| `GameRunProofs` | theorems about `GameRun` |
| `PhysicsProofs` | theorems about `Physics` and `Frames` |
| `Vault` | the client's keys: memory, key file, historic sessions |
| `Link` | the notification stream, client and server |
| `Feed` | the client's game stream |
| `Login` | nonces, proofs of keys, sessions |
| `Presign` | pre-signatures and refund signatures over any commutative group |
| `Paddle` | from a key of the terminal to the velocity of a paddle |
| `Bridge` | the queue of results between the window and the client library |
| `MCClient` + `.cfg` | the instance of these seven for TLC |
| `ClientProofs` | theorems about `Link`, `Feed`, `Login`, `Paddle` and `Bridge` |
| `KeyProofs` | theorems about `Vault` and `Presign` |

### Settlement

An action is a stretch of a handler between two points where it waits.
`SettlementStream` is `Hello` (receive HELLO, look up the room and both escrows,
build the drafts), `PresignWin` and `PresignLose` (receive VERIFY_OK, verify,
store), and `DropStream` (any failure).  The handler's local variables -- caller,
both sessions, branch -- are the record `stream[h]`: they are not read again, which
is the point.  `preSign[e][i]` is the map `escrowSession.preSign`; a context records
whose key signed (`by`), the draft (`tx`) and the branch.  `tx` is reduced to what
it spends and whom it pays; a signature that does not verify is `DropStream`.

`Survivors` is what `RemoveWaitingRoom` leaves: it ranges over the slice that its
own calls of `RemovePlayer` shift, so every second player is skipped.
`RemoveWaitingRoom(g)` of the lifecycle also runs
`cleanupEscrowSessionsForPlayers` for the players still in the room, in all their
rooms.  `Settle` is `handleGameEnd`: it takes the draft of whichever context of the
branch the map iteration ends on, and completes it if every input is signed for
that draft.

Simplified: the watcher is its outcome (`exact`, with `Flaky` deposits that may stop
being the exact single one); an escrow has one outpoint it can be bound to
(`InputOf`); whether players are ready is any subset `R` (Lobby models it);
`handleGameEnd` reads the pre-signatures in one step.

Two history fields, which no guard reads and which only `UndisturbedGameSettles`, and
the theorem drawn from it, look at: `calm` of a game becomes FALSE when somebody leaves
its room, when its players are reset, when a player who is in the room binds another
escrow to it (`JoinWaitingRoom` of a room one is in), and when a departure or a removal
elsewhere takes the pre-signatures from an escrow bound to it; `room` of a context is
the room of the handshake that stored it.

### Lobby

Go slices are modelled with their arrays: `arrays[r]` holds every backing array room
`r` has used and `size[r]` the length of the slice on the last.  `AddPlayer` appends
in place while there is capacity (it doubles: 1, 2, 4, ...), else copies; `Without`
shifts in place and leaves the old last element behind.  A game keeps the index of
the array and the length it had at the start (`GamePlayers`): that is
`players := waitingRoom.Players` in `startNewGame`.

`JoinWaitingRoom` is three actions: `JoinFinds`, then `JoinAdds` under the room's lock,
then `JoinRefers`, the assignment of `Player.WR`, which no lock joins to it
(`server/waitingroom.go` 193-194).  The room may be dismantled, or the player taken out
of it by the departure of another handler's call or the removal of the room, between any
two of them; `added` holds the players between the last two.  `CreateWaitingRoom` is
two: the room is listed, then announced.  `Run` takes a snapshot (`RunReceives`) and
then tests and sets `wrManagers` one room at a time (`RunScans`).  `StartGameStream`
sets the stream and the flag in one step and its exit clears both in one
(`EndGameStream`).  A lifecycle is `Launch`, `Distribute`, `SenderStops`/`SendFails`,
`GameEnds`, `ResetPlayers`, `RemoveRoom`; the countdown and the rounds are the event
`GameWon` or, when they do not come to an end, `ReadyTimeout`.  `onReadyTimeout` may
fire after the game as well: the loop arms the timer again once the rounds are over, and
`Cleanup` does not stop it.  A panic sets `crashed`, and nothing happens after it.

Three history variables, which no guard reads, name the excuses of the properties.
`late` holds the players whom a room lost between `JoinAdds` and `JoinRefers`: they are
left with a reference to a room that is gone (`BackReference`).  `mistaken` holds the
rooms that a departure cancelled though it removed another one:
`RemovePlayerFromWaitingRoom` takes the first listed room of the player
(`ponggame/game.go:27`), the handler cancels the one the call names
(`CancelledRoomHasEnd`).  `disturbed` holds the games whose room has lost a player since
they were spawned, or that share a player with another game (`PanicNeedsDisturbance`).

Simplified: every client keeps its session and its notifier stream; a client makes no
other call while its `JoinWaitingRoom` is in flight (`Free`); `PlayerGameMap` is left
out, since only `SendInput` and `SignalReadyToPlay` read it; locks are implied by
the atomicity of the actions, so lock-order deadlocks are out of the model.

### Funding

dcrd notifies the server of transactions and of blocks, and each notification runs
its handler in a goroutine of its own.  `ProcessTxAcceptedHash` is `TxLooks` (fetch
the transaction, compare it with the watched scripts), `TxRecords` (under the lock:
the output becomes known, and the snapshot is taken) and `TxBroadcasts` (after the
lock).  `ProcessBlockConnected` is `BlockStarts` (the scripts), `BlockVisits` (the
outputs of one), `BlockLooks` (one output: skipped, evicted or kept) and
`BlockBroadcasts`.  `Broadcast` is `broadcastUpdate`, which drops what does not fit.
`OpenEscrow` is `Publish`, `CacheScript` and `Subscribe`, since a clean-up may come
between them; `Cleanup` is the part of `cleanupEscrowSessionsForPlayers` that
concerns one escrow, with the unsubscription.  `TrackEscrow` is one turn of
`trackEscrow`, and `EnsureBoundFunding` every other caller of that function
(`resolveFundedEscrow`, the presign stream, the manager).

Simplified: a transaction has one watched output; `latest` and `lastUTXOs`, written
together, are one variable; confirmation counts are left out, so that whether the
tracker sees a change and tries to bind is left open.  (The documents speak of
confirmed deposits, `docs/technical.md:33`; the server compares no count.)  A
tracker whose context is cancelled may still find an update in its channel, as a Go
`select` may choose it.

The three components meet at the binding of an escrow: `Funding` says where it comes
from and that it never changes, `Settlement` takes it as the outpoint `InputOf` and
as `exact`, and `Lobby` leaves money out.

### GameRun, Match

`Lobby` takes a game as one event; `GameRun` is the game.  `loop` is the goroutine of
`GameInstance.Run`: `AwaitReady` is a tick of it before the countdown,
`StartGameplay` the entry into `startGameplay`, `PointScored`, `FinalPoint` and
`RangeEnds` its turns over `roundResult` with the whole of `handleRoundResult`, and
`LoopQuits` its context case.  `counting` is the goroutine of `startCountdown`
(`CountdownTick`, `CountdownQuits`); `engine` that of `NewRound`: a rally goes on
until `RoundWon`, whose result waits for the loop (a rendezvous), panics on a
channel that `Cleanup` has closed (`LateResult`), or is given up (`EngineQuits`).
`TimerFires` starts the callback of `time.AfterFunc` and `OnReadyTimeout` is that
callback once it has the lock: `Stop` recalls the timer and not the callback.
`CloseFeeds` is the end of `distributeFrames`, `SenderEnds` and `SendFails` those of
`sendGameUpdates`, `Cleanup` and `HandleGameEnd` the rest of `handleGameLifecycle`.
`HostLeaves`, `ShutdownGame` and `RoomCancelled` are what a departure and `Shutdown`
do to a game; `roster` is the game's view of the array of the room's players, which
the departure of the host shifts to `<<Guest, Guest>>`.

The loop of `Run` does not end with the rounds.  `ResetReady` sets the game back to
waiting, the next tick arms the ready timer again, and it may fire while the senders
drain: harmless for a decided game, which no send on a closed channel can end
(`CrashIsKnown`), and part of the model, though the comment at `ponggame/game.go:406`
speaks of a game that was never started.
Two panics are open in the code, and `CrashIsKnown` says that there are no others:
a result or frame sent after `Cleanup` of an undecided game, and the second close of
the guest's channel when the host has left.

`Match` knows a phase, the points and a champion.  Under the mapping at the end of
`GameRun` (`Phase`, and everything void after `Cleanup` or the departure of the host)
`GameRun` implements it: `ImplementsMatch`.

### Physics, Frames

`tick` is the tick of `ponggame/engine.go` with `detectColl` and the mutations of
`ponggame/physics.go` in their order, over whole numbers in units of half a pixel; a
velocity is the way of half a tick, since the code moves the ball twice in one.  Two
details are kept because the properties depend on them: the order of the cases of
`detectColl`, and the ball that hits the top being put a whole ball below the wall
(`physics.go:377` adds where the bottom subtracts).  `mult` is the multiplier of the
velocity, which `advanceBall` raises by `Incr` at every move and only a serve (`Serves`)
resets: nothing in the code bounds it, and nothing in the model does.  Hence a ball may
become so fast that a single move takes it over a paddle, and `LossIsSeen` says exactly
when that is the reason for a lost point (`Leaps`: further than the paddle's and the
ball's whole width if the paddle is at its height, further than half the ball if not);
`BallInCourt` measures how far outside a ball may be by its last move.  `Grazes`
excludes the ball whose edge lies exactly on the back of a paddle.

`Frames` gives one turn of the producer (`Produced`) and of the distributor
(`Left`, `Distributed`) as functions of the two queues; each queue has one writer,
so its reader only makes room.

### Vault

A press of "Open Escrow" is a thread of its own and generates a key of its own, so
both have one name, `e`.  The press is `GenerateNewSettlementSessionKey`,
a save of the key file, `OpenEscrow` (the server puts the key in memory into the
script), `DeriveScript`, then `CacheEscrowInfo` -- `Merge`, another save
and `SnapshotBegins`/`SnapshotEnds`, for `os.WriteFile` truncates first -- and
`ShowAddress`, which is the check before the deposit address is shown.

A save of `settlement_session_key.json` is three steps, for presses, updates and logins
(`CacheWalletAuthInfo`) alike: the memory is copied under the lock
(`SaveSettlementSessionKey`, `client/client.go` 409-420), and with no lock the file is
cut (`CutKeyFile`) and the copy written (`WriteKeyFile`, 428).  Saves may overlap: a
copy taken earlier may be written last, and of two that have both cut the file one may
write over the other (`Mixed`).  `save` keeps what each has copied and how far it is.
Two history variables say where this happened: `tangled` are the saves that ran beside
another one or beside the making of a key, and `doubtful` is TRUE while such a save was
the last to touch the file.  `KeyFileIsCurrent` is about the rest: it fails if a single
save, from its copy to its write, leaves another key than the active escrow's.

`Update` is the
thread of a funding update, `Archive` that of
`ArchiveSettlementSessionKeyWithEscrow`, `Note` that of `UpdateHistoricEscrow`.
`Restart` ends everything in the middle; nothing reads
`settlement_session_key.json` back at a start, though
`escrow-key-safety.md:21` counts on it, so the records of `historic_sessions/`
are what a refund has.

`excused` is a history variable.  It takes out the escrows whose press overlapped
another press, an update or the archiving (the memory has one key, so the two mix
their keys: the code has no guard against it, and the properties would be false),
those whose record the user deleted, and those whose file a restart cut in half.  The
rest is what the code promises.

### Link, Feed, Login

`Link` has both ends of the notification stream.  The client's `loop` is
`consumeNtfnStream` with `restartNtfnStream`; the server's `handler[s]` walks through
`StartNtfnStream` and its deferred functions one registration at a time
(`StoreCancel`, `OpenSession`, `ListUser`; `Unlist`, `ClearSession`, `DeleteCancel`).
The deferred functions do not ask whose registration they remove, so of two
overlapping handlers the older unregisters the newer: `met` holds the streams to
which that may happen, and `AloneIsRegistered` is about the others.  `missed` becomes
TRUE when a setting is not told on the stream the client reads, or told behind a later
one, and FALSE again when the rooms are read with nothing older under way.  `silent` is
the loop that returned because reading the rooms failed after a reconnection, `stuck`
the `handleInitClient` that locks `cmtx` a second time.

Setting the flag and telling of it are two steps, with no lock between them:
`ChangeReady` and `UnreadyGameStream` append to `flags`, and `NotifyReady(n)` is the
handler that made the n-th setting and tells the players of the room then, so that the
word of an old handler may come behind that of a new one.  `calls` are the settings of
`UnreadyGameStream` calls that have not come back (`UnreadyReturns`: the client then
clears its own flag, whatever it has heard), `untold` those whose room was not told.
`SignalReadyToPlay` tells a player "ready" without a setting (`AllPlayersReady`).  The
player leaves his room and enters another (`LeaveRoom`, `EnterRoom`); outside a room
nobody is told.  After a reconnection the rooms are read (`ReadRooms`), and what was
read is taken over later (`Resync`).

`Feed` is `RefStartGameStream`, `handleGameStream`, `clearStreamRefs` and `Close`.
`Login` is `RequestNonce` and `VerifyLogin`, cut at its critical sections, with the
client's ten seconds (`TimeOut`).  Parsing of keys and signatures is an outcome
(`signer`, `claimed`).

### Presign

The curve is any commutative group whose points are written by their logarithms, with
a parity that negation flips and a challenge that may overflow.
`computePreSig`, `Accepts` and `Finalized` are the formulas of the two sides, retries
included: a nonce whose point is odd, at infinity, or whose challenge overflows is
drawn again.  `HelloKey` sends the client's key, or any key if another program plays;
`BuildVerifyOk` is the answer of this client and `OtherAnswer` that of another program,
which may be anything; `verifyAndStorePresig` accepts or refuses, the winning branch
first.  `SignRefund` is `BuildCSVRefundTx`.

### Paddle

A terminal sends no key releases, so `handleGameInput` starts a timer per press; a
release is sent when it fires or when the other key is pressed.  Every input is sent by
a goroutine or under the lock; those calls are the records of `sending`.  `PutInput`,
`DropOldest` and `TryAgain` are the three attempts of `HandlePlayerInput`, `ReadInput`
the engine's turn, `StopPaddle` the reset of a new round.  Any of the calls may fail on
its way (`CallFails`): the terminal only logs that, and a key whose release failed
counts as released.  `slipped` is a history variable: a release that overtook its press,
a release whose call failed or that the full queue dropped, or an Escape that cleared
the flag of a newer press.  The code repairs none of these, so `PaddleRests` is about
the behaviours without them.

### Bridge

Everything the graphical client hears from the library goes through `cmdResultChan`:
the results of its calls, which their goroutines put there however long that takes
(`PutAnswer`), the notifications the forwarding goroutine puts there likewise
(`PutNote`), and the frames, which are dropped when it is full (`PutFrame`).  On a
phone the window's engine may go while the process stays: `Detach` is
`onDetachedFromEngine`, which stops the loop and perhaps starts one that only posts
notifications, `Attach` the start of the next engine's loop.  `Take` and `HandOver`
are a turn of the loop of the attached engine, up to `readAsyncResults`; `TakeAway` is
a turn of any other, among them those that were told to stop and whose `select` chose
a result all the same.

Every engine numbers its calls from one, and the calls of the engine before go on, so
that their results may complete calls of its successor.  `orphans` are the calls whose
results were still to come -- running, or in the queue -- when their engine went.
`AnswersComeHome` says that this, and what a loop takes after it was told to stop
(`robbed`), is all that goes wrong.  The engines follow each other: a new one that is
attached before the old one is detached would lose its loop to `stopAllCmdResultLoops`,
and is left out.

## 3. Runs

| Run | Shows |
|---|---|
| `settlement` | `TypeOK`, `PresignServesOwner`, `SettlementIsAuthorized`, `UndisturbedGameSettles` |
| `settlement_stale` | finding: `NoStalePresigns` is violated |
| `lobby` | `OneManager`, `NoRoomForgotten`, `BackReference`, `PanicNeedsDisturbance`, `CancelledRoomHasEnd` |
| `lobby_leave` | `TypeOK`, `ReadyHasStream` |
| `lobby_live` | `RoomGetsManager`, `ReadyPlayersPlay`, `CancelledGameEnds` |
| `lobby_managers` | finding: `NoManagerDuringGame` is violated |
| `lobby_two_rooms` | finding: `InOneRoom` is violated |
| `lobby_senders` | finding: `SendersReleased` is violated |
| `funding` | `TypeOK`, `BoundIsDeposit`, `SpentIsForgotten`, `EventuallyReported` |
| `funding_stale` | finding: `NoStaleBinding` is violated |
| `game` | the game: `TypeOK`, `OneCountdown`, `CrashIsKnown`, `TimeoutSparesPlay`, `ImplementsMatch`, `GameEnds`; its functions: `FramesKeepOrder`, `TicksAreSound` |
| `client` | `ClientTypeOK`; keys: `KeyIsKept`, `OwnDepositIsRefundable`, `KeyFileIsCurrent`; notifications: `NothingOutlivesHandlers`, `AloneIsRegistered`, `ReadyIsInSync`, `TheLinkSettles`; game stream: `ReadStreamIsRemembered`; login: `NonceLogsInOnce`; signatures: `SignaturesVerify`, `OursIsAccepted`; paddle: `PaddleRests`; results: `AnswersComeHome` |

**Bounds.**  A match has two sides, so two clients show every interaction of a match; a
third is needed only where somebody takes the place of a player who left
(`lobby_managers`, `lobby_senders`).  `RoomCap` bounds the players of a room, where the
code has no bound; two is enough for the missed player of the removal loop, and
`MCLobby` compares `Emptied` and `Missed` with the loop itself up to six.  `MaxLeaves`
bounds departures.  In `settlement` one departure and a second escrow of B let B come
back with another deposit while an old stream is still open; two streams are one per
client, or two of the same client.  One game is enough for the invariants of
`Settlement`, which speak of one game each; two rooms and a departure are what the
announcements, the removal and the back references need in `lobby` (2,700,724 states up
to symmetry); `lobby_leave` has two handlers of one client (188,662).  That a cancelled
room leaves the list is split between two runs, since two rooms with liveness are too
many states: `CancelledRoomHasEnd`, an invariant with two rooms, says that whoever
cancels a room unlists it or that its lifecycle is on the way there, and
`CancelledGameEnds`, a liveness property with one room (74,393 states), that the
lifecycle arrives.  `PanicNeedsDisturbance` speaks of several games; with two games, two
rooms and no departure it was checked once, outside the runs, on 9,306,903 states.
`UndisturbedGameSettles` holds for any number (proved, section 4) of rooms, of games,
and of players in a room.  Its three conditions are what the code really does.  A room
created between `ResetPlayers` and `RemoveWaitingRoom` may be bound to the escrow that
the first game has just spent, and the pre-signatures of the first game come along:
hence every context is to be of the game's room.  A late stream may overwrite a context
with one of an older draft: hence every context is to be of the current draft.  And
`StartGame` takes the room's players as they are when it runs, not the two the manager
looked at: with a third player the first two of the game need not be those who have
signed, hence a game of two.

In `funding` a channel of one element overflows at once (the code's eight would need
nine snapshots in a row to show the same); two escrows share their script, as those a
client opens with one key do; one deposit comes, is spent, and has the amount of one
of the two escrows; and two block handlers overlap each other and the mempool
handler.  dcrd may fail to answer about the deposit, in either handler.
`funding_stale` uses the code's eight elements and a dcrd that always answers: the
finding is not about either.

In `game` two points win and a countdown has one second: both are long enough for a
point that does not decide and a tick that does not finish.  A behaviour plays a game or
looks at one `input` of the functions, which then is an initial state.  Those of
`Frames` are checked for all increasing queues of capacity three and two with one frame
skipped, those of `Physics` for every ball, in every position a rally can reach or not,
of a court of 25 by 15, with the multiplier of a serve and with one so large that a move
leaps over a paddle; the paddles move by two or minus two.  `MCGame` lists only the
balls that are a `RallyState`, which is what the properties ask for, and checks that
every serve is one (447,756 states).

In `client` a behaviour belongs to one of the seven parts (`part`): they share nothing,
and so their states add up.  Two escrows are the one whose key is kept and the one that
disturbs it; one funding update, one archiving, one note and one login are under way at
a time.  `VaultSteps` keeps the saves of logins apart from the archiving and from
records being written, and all saves from the rewriting of a note, which concern other
files; the vault without that bound, on its own, was checked once on 6,380,016 states.
Two streams are the lost one and its successor; the last is not broken, so that
reconnecting ends.  The ready flag is set twice, and not for a client that is stopped,
silent or not there; once a word was missed on the last stream, which nothing can
repair, the room rests.  With three settings the link alone has 1,754,364 states, and
the property holds too.  Three starts of a game stream let an old end meet two new
starts.  Logins are two calls of two wallets over two nonces.  The group of `Presign`
has order seven, with challenges that are zero or overflow.  The input queue has two
elements instead of 1024, two presses are on their way at once, and one callback per key
waits for the lock.  Two engines of the window, one call of each and three notifications
pass through a queue of two results: one notification may be missed between two others,
and a call may find the number of an orphan.  Nothing is explored after every escrow has
been excused or after a slip, since no property speaks of what follows.  All seven parts
have 1,580,793 states.

Symmetry sets permute only values that are interchangeable in the configuration; the
liveness runs use none.  `CHECK_DEADLOCK FALSE` everywhere: the bounds let the model
run out of rooms, escrows and games, and `crashed` stops it.

**Fairness** (`FairSpec` of `Lobby`, in `lobby_live`).  Weak fairness of `RunStep`
(announcement, scan, manager) and of `GameStep` (the lifecycle's own steps): Go
schedules runnable goroutines, and the manager's ticker ticks every second.  Nothing
is assumed of clients, of the network, of players who should score, of the ready
timer or of the exit of a stream handler.  One weak fairness for all rooms together is
less than one per goroutine and is enough, since rooms and games take finitely many
such steps.

(`FairSpec` of `Funding`, in `funding`.)  Weak fairness of each handler -- a call to
dcrd returns or times out after five seconds -- and of the tracker of each
subscribed escrow.  That the block handlers go on includes that blocks go on being
connected, which is what the watcher's own recovery from dropped updates relies on.
Nothing is assumed of players, nor that anything is deposited, spent or answered
well.

(`Fairness` of `GameRun`, in `game`.)  Weak fairness of every goroutine: tickers tick,
the timer fires and its callback gets the lock, a context case that is ready is served
at last, a rally ends.  The last is assumed of the ball, which grows faster with every
move of a rally; `Physics` has one tick and says nothing of many.  Nothing is asked of
the players, who may never be ready, or leave at any time: `GameEnds` holds for them
too.

(`LinkFairness`, in `client`.)  The client's loop and the server's handlers run, the
call for the rooms returns and its answer is taken over (`ReadRooms`, `Resync`), an
attempt to reconnect is repeated until it works (the backoff is bounded), and the
keepalives find a broken connection.  Whether that call succeeds is left open: `silent`
is one of the outcomes `TheLinkSettles` allows.

**Findings.**  1. A presign stream that outlives a departure refills the store that
`clearPreSigns` emptied (`settlement_stale`).  The money is not at risk
(`PresignServesOwner`, `SettlementIsAuthorized`); a later match may be declared
complete with a draft that cannot be.  2. A manager leaves `wrManagers` when its game
starts, and the next announcement starts another one for the room in play
(`lobby_managers`).  3. Players are reset before their room is unlisted, so they may
be in two listed rooms (`lobby_two_rooms`).  4. A game shares its list of players
with the room; after a departure and a join the wrong frame channel is closed
(`lobby_senders`), and the lifecycle waits for the guest's sender until a late ready
timer cancels the room.  5. A mempool handler sends its snapshot after the lock: a
block handler may evict the output and report that in between.  The escrow is left
with the older snapshot, no later block visits the script, which has no known output
left, and the escrow may be bound to a spent output (`funding_stale`).  For scripts
that still have a known output `EventuallyReported` shows that the next block puts
things right.

## 4. Theorems

All proofs are for arbitrary constants, from the named assumptions of the modules
(owners and outpoints of escrows, `None` outside the sets, natural bounds, the axioms
of a commutative group, a court that is wide enough for its paddles and ball, and
for the keys that no escrow, no record and none of the other threads is taken for
`None`, `Torn`, `Mixed` or one another).

`SettlementProofs`: `TypeOK` is not inductive, since `Launch` reads the room of a
lifecycle and `GameOver` its first two players; `GameShape` (a spawned lifecycle has
a room, a launched one at least two players) completes it.  Authorization rests on a
chain.  `BindingOwned`: a room binds a player only to an escrow of his.
`CallerOwns`: hence a stream that is past HELLO holds an escrow its caller owns;
the invariant relates `stream[h]` to `OwnerOf` and not to the room, because the room
changes under the stream.  `SoundContexts`: hence every stored context pays the owner
of the escrow it is kept under, spends his deposit, and is signed by the owner of
the outpoint.  That gives `PresignsServeTheirOwner`; and since `Settle` completes a
draft only from contexts of that very draft, and nothing rewrites a settled game
(`PaidIsFinal`), `SettlementsAreAuthorized`.

`UndisturbedGamesSettle` needs the whole of a match in one formula, `SettleInv`.
`RoomsHosted`: a room that is listed, has players or has a game has a host, and a host
stays (`HostStays`).  `StreamBranches`: hence a stream past HELLO holds, for as long as
it waits, the branch in which its caller wins.  `ContextBranches`: hence a context names
the branch, in the room of its handshake, in which the owner of its escrow wins.
`CalmGamesSigned`: a calm game, from the manager's decision to `handleGameEnd`, fields
at least two players, and if they are two both are in the room, each with an open escrow
bound to it that keeps a context for either deposit (`BothSigned`).  The manager
establishes it (`StartedSigned`); `CalmStep` carries it through every action, since a
handshake may add or overwrite a context but not remove one, and whatever removes one,
or changes who is bound to what, disturbs the game.  `CalmSettles` draws the conclusion:
`isComplete` counts inputs, looks at no draft and never asks whose branch is whose, and
`ContextBranches` is why that suffices.  `UndisturbedWinnersArePaid` is what it is for:
`Settle` of such a game never falls into the branch that pays nobody, and completes the
current draft of the winner; `WinnersPlayed` (a winner is one of the first two players)
connects the two.  `ContextAssumption` (`None` is not a context) is the only assumption
this adds.

`LobbyProofs`: `LobbyInv` completes the type invariant with `RoomsExist` (a room that is
listed or about to be joined has been created, so it has an array to write to; a room
that was never created has none) and with the shape of a lifecycle (one that was spawned
has a room).  That every slice lies within its array is part of `RoomTypeOK`, and is
what the removal loop, the shift of `RemovePlayer` and the append in place need of each
other.  The steps are proved per group of variables (`RoomTypesKept`, `RunTypesKept`,
`StreamTypesKept`, `GameTypesKept`).  `OneManager`, `NoRoomForgotten`, `ReadyHasStream`
and `BackReference` are inductive relative to it.  For `NoRoomForgotten`: a scan only
ever drops a room that is cancelled, managed, or is given a manager, and a manager only
leaves a room that is cancelled or has its game.  For `BackReference`: the players who
fall out of the slice lose their reference, unless they were between `JoinAdds` and
`JoinRefers`, and those the removal loop misses keep both.  `ReferenceInv` says the same
of a player who is about to refer to a room (`added`), and that no room is listed twice,
so that one that is removed is off the list for good.

`FundingProofs`: `TypeOK` is inductive by itself, with a lemma on `Broadcast`
(`BroadcastAppends`) and one on `Bind` (`BindBinds`), which also gives
`BindingNeverChanges`.  `BoundIsDeposit` is not inductive: a handler could bring a
snapshot of anything.  `HandlersAreReal` (the watcher's map and the locals of its
handlers tell only of deposits made to the script in hand) and `ReportsAreReal` (so
does everything in a channel or kept by an escrow) complete it; both are stable
because a deposit that was made stays made (`MadeGrows`), spent or not.

`GameRunProofs`: the inductive invariant `GameInv` is `Types`, `Control` and
`BelowMax`.  `Control` is what ties the goroutines to the flags: a countdown has its
flag and no ready game; the loop plays only a ready game; the game runs until it has a
winner; `Framesch` is closed exactly when it has one, and then no engine is left to send
on it; a lifecycle that goes on has cleaned up; and the panics are the known ones.
`BelowMax` says that while the game goes on nobody has reached `MaxScore`, which is what
makes `Point` of `Match` give `MaxScore` exactly and not more.  `CountdownIsSingle`,
`PanicsAreKnown` and `TimeoutsSparePlay` follow from `GameInv`.  `GameImplementsMatch`
maps each action to a step of `Match` or to a stutter: `AwaitReady` to `Countdown`,
`CountdownTick` to `Serve`, the two points to `Point`, and what makes the game void to
`BreakOff`.

`PhysicsProofs` has no behaviours: `TicksAreAlwaysSound` and `LossesAreAlwaysSeen`, the
two halves of `TicksAreSound`, are about one tick of any ball, for every court that
satisfies `SizeAssumption`; the real one, 1600 by 1200 in these units, does, which TLC
could not enumerate.  The proofs go coordinate by coordinate (lemmas on `InFront`,
`InHeight` and `Kept`).  They hold for a ball of any speed and a multiplier of any size:
of the way of a move `TicksAreAlwaysSound` needs only that it has the sign of the
velocity (`Ways`), since whatever the ball hits, it is put in front of it.  For
`LossesAreAlwaysSeen` the two cases of `Leaps` are what the proof leaves open
(`LeapLeft`, `LeapRight`), and both are needed: without either the run fails.
`ServesAreRallies` says that a rally starts in a `RallyState`.  `DistributionTheorem`
and `ProductionTheorem`, the halves of `FramesKeepOrder`, hold for queues of any content
and any capacity: the frames pending after a step are found again among those before it,
at increasing places (`Place`, `Places`), and what is taken in order from something in
order is in order (`SubsequenceInOrder`).

`ClientProofs`: `NothingOutlivesHandlers` and `AloneIsRegistered` rest on an invariant
that says, for each place of a handler, which registrations it has made and not yet
removed, and that a handler outside `met` is the only one running; `ReadyIsInSync` on
`FlagInv`, which says that, once the newest setting was told (`Announced`) and unless
the client was mistaken, the last word on the stream is the server's flag, and with none
on it so is the client's own or the one it has just read; `ReadStreamIsRemembered` and
`NonceLogsInOnce` on what each place of a call implies.  `TimersTheorem`: a key that
counts as pressed has a timer or a callback that will release it, also while a key is
being switched or released; no run checks it.

`PaddleRests` (`RestTheorem`) speaks of the end, when nothing is under way, so
`PaddleInv` has to say what is under way before.  `SendersInv` says which goroutine may
be sending which input.  `StopInv(d)`, for each direction as long as nothing has
slipped, follows the paddle through the queue: either what the queue holds lets it
settle (`Settled(d)`: no press of `d` remains that no later input of its own queue
undoes), or the key counts as pressed, or a release is being sent; a press under way has
its key still pressed or its release after it; and an Escape or a switch of keys that
has sent its release leaves nothing behind.  `slipped` is exactly what lets a press
overtake its release.

`AnswersComeHome` (`HomeTheorem`) has three parts, and each needs more to be inductive.
`CallsInv`: a result that is on its way belongs to a call that has put it, and a call of
an engine that went is an orphan or has nothing left to come, so only orphans can meet a
successor's number.  `NotesInv`: the queue, and the result in hand before it, hold
notifications in order, with none missing after the first but what was robbed; that
makes `ShownInv`, which ties what the engine has handled to what is still on its way,
preserved by `HandOver`.  The proof corrected the model: `orphans` used to hold only the
calls without an answer, and TLC, with three engines and two calls, found that a call
completed by an orphan's result has its own result still to come.

`KeyProofs`: the three properties of `Vault` follow from `VaultInv`, which has a part
for all escrows and two for those that nothing excuses.  `ThreadsInv` says what a thread
at each place was called with and holds, and that only an escrow that was shown is
updated or archived.  `InfoInv` says that every copy of an escrow's data (memory,
window, arguments, files) names a deposit only of a shown escrow, and its own only with
its own script: without it a late `CacheEscrowInfo` could bring another escrow's script
into the record.  `MemoryInv(e)` says that the memory is `e`'s while a press of `e` or
the window is at work; `FileInv(e)` that every record of `e`, written or being written,
has its key, and that the record's file is there from `SnapshotEnds` on, or torn with
somebody at work on it.  Whoever is excused stays so (`ExcusedStays`), which is what
lets the last two be conditional.  The key file has two more: `LoneInv` says that a save
that is not tangled is alone and that its copy is what the memory holds, if anything,
and `CurrentInv(e)` that, unless it is doubtful, the file then is `e`'s or has been cut
by a save that is about to write `e`'s key.

The second part of `KeyProofs`: over any commutative group, `OursIsAccepted` is a
computation with the group's laws, and `SignaturesVerify` says that the equation the
server checks, with the parity of `R'`, is the equation of the completed signature.

Only model-checked: the six liveness properties, which are out of reach of the prover,
and the invariants `PanicNeedsDisturbance`, `CancelledRoomHasEnd` and
`SpentIsForgotten`.  `FramesKeepOrder` and `TicksAreSound` of `MCGame` enumerate inputs
for TLC; what they say of each is proved for every input.  `ClientTypeOK` of `MCClient`
is the conjunction of the parts' type invariants: those of `Link`, `Feed`, `Login`,
`Paddle`, `Bridge` and `Vault` are conjuncts of the inductive invariants above, and
`PresignTypeTheorem` proves that of `Presign`.  One habit of the modules comes from the
prover: a direction is a string and not a sign, since the version of the prover in use
mistakes the negation of a negative numeral.  No proof needs induction over data, and no
module with a theorem declares a recursive operator.

## 5. Not modelled

* The store of `server/serverdb/`: the server opens and closes it and calls none of
  its operations.
* Code that nobody calls: `handleDisconnect` (`server/server.go` 329-440),
  `currentOrLoad`, `loadSettlementSessionKey` and `ArchiveSettlementSessionKey`
  (`client/client.go` 433-473, 563-593, 658-678).
* Generated code, configuration, logging, and presentation: the text of
  the notifications (`pongui/golib/command_handlers.go` 237-470), the switch that makes
  the loop of a paused window post them as well, the widgets, the terminal's views, the
  bots.
* `attachToExistingClient`, which lets a restarted window of the graphical client take
  over the running client and its escrow.
* The bytes of scripts, transactions and keys; confirmation counts; fees.
* `GetFinalizeBundle`, which reads, and of `Shutdown` all but what it does to a game.
* Deadlocks by lock order: every action is atomic where the code holds a lock.
* What players of a room do to a game after its host has left, where the list holds
  the guest twice: `GameRun` keeps the list, `Match` promises nothing then.
* Two details of the terminal: entering the settlement view again generates a new key
  though an escrow is active (`cmd/pongclient/dcrpong.go` 127-139), and after an error
  message or a malformed frame `waitForMsg` is not armed again (`ui.go` 464-483).
  `handleGameInput` has a case for Escape that is never reached, since `Update` takes
  that key first.

What would come next: `SettleInv` for games of more than two players, which needs the
players the manager looked at as a part of the game; and the liveness properties, should
the prover come to reach them.
