------------------------------- MODULE GameRun -------------------------------
(***************************************************************************)
(* One game from its creation to its clean-up (ponggame/game.go,            *)
(* ponggame/engine.go, SignalReadyToPlay of server/game.go, sendGameUpdates  *)
(* and handleGameLifecycle of server/server.go).                            *)
(*                                                                          *)
(* Seven kinds of goroutine share the game: the loop of Run, the callback    *)
(* of the ready timer, the countdown, the engine of the current round, the   *)
(* distributor of frames, a sender per player, and the lifecycle that waits  *)
(* for the senders.  A context ends them, and two channels: Framesch, closed *)
(* by the loop when the game is decided, and roundResult, closed by Cleanup. *)
(* A goroutine whose ticker is due when the context ends may still be        *)
(* served: Go picks at random among the cases that are ready.                *)
(*                                                                          *)
(* How a rally is won is the subject of Physics; who joins the room in the   *)
(* middle of a game that of Lobby.                                           *)
(***************************************************************************)
EXTENDS Integers, FiniteSets, Sequences

CONSTANTS
    Host, Guest,   \* the players of the room, the host first
    MaxScore,      \* maxScore (3)
    CountdownFrom, \* initial CountdownValue (3)
    None

Players == {Host, Guest}

ASSUME PlayerAssumption == Host # Guest /\ {None, "none", "rally"} \cap Players = {}
ASSUME ScoreAssumption == MaxScore \in Nat \ {0} /\ CountdownFrom \in Nat

VARIABLES
    PlayersReady, CountdownStarted, CountdownValue, GameReady,
    readyTimer,    \* g.readyTimer: "none", "armed", or "fired" and not yet dropped
    callback,      \* onReadyTimeout has been started and waits for the lock
    counting,      \* startCountdown runs
    loop,          \* the goroutine of Run: "wait", "play" (in startGameplay), "done"
    engine,        \* the goroutine of NewRound: "none", "rally", or who won the rally
    Score, Winner, Running,
    Framesch, FrameCh, \* the game's and the players' frame channels: "open", "closed"
    distributing,  \* distributeFrames runs
    streams,       \* players whose game stream is alive
    sender,        \* sendGameUpdates of a player runs
    roster,        \* game.Players: a view of the array of the room's Players
    mapped,        \* players whose PlayerGameMap entry is this game
    gameDone, roomDone, \* contexts of the game and of the room
    closing,       \* a departure or a shutdown is about to cancel the room
    cleanedUp,     \* Cleanup has run: roundResult is closed
    lifecycle,     \* handleGameLifecycle: "playing", "cleaned", "ended"
    crashed        \* what panicked: "no", "send" on or "close" of a closed channel

readyVars == <<PlayersReady, CountdownStarted, CountdownValue, GameReady, readyTimer>>
clockVars == <<callback, counting>>
roundVars == <<loop, engine, Score, Winner, Running>>
frameVars == <<Framesch, FrameCh, distributing>>
streamVars == <<streams, sender>>
doneVars == <<gameDone, roomDone, closing, cleanedUp>>
endVars == <<roster, mapped, doneVars, lifecycle>>
vars == <<readyVars, clockVars, roundVars, frameVars, streamVars, endVars, crashed>>

-----------------------------------------------------------------------------
(* Data *)

Rostered == {roster[i] : i \in 1..2}
Intact == roster = <<Host, Guest>>

\* handleRoundResult: every entry of the list with the winner's number gets the point.
Awarded(p) == [Score EXCEPT ![p] = @ + Cardinality({i \in 1..2 : roster[i] = p})]

\* Mutant: the comparison is strict.
ReachedLate(score) ==
    IF score[roster[1]] > MaxScore THEN roster[1]
    ELSE IF score[roster[2]] > MaxScore THEN roster[2] ELSE None

\* shouldEndGame: the first player of the list who has reached the score.
Reached(score) ==
    IF score[roster[1]] >= MaxScore THEN roster[1]
    ELSE IF score[roster[2]] >= MaxScore THEN roster[2] ELSE None

Init ==
    /\ PlayersReady = {} /\ CountdownStarted = FALSE /\ GameReady = FALSE
    /\ CountdownValue = CountdownFrom
    /\ readyTimer = "none" /\ callback = FALSE /\ counting = FALSE
    /\ loop = "wait" /\ engine = "none"
    /\ Score = [p \in Players |-> 0] /\ Winner = None /\ Running = TRUE
    /\ Framesch = "open" /\ FrameCh = [p \in Players |-> "open"] /\ distributing = TRUE
    /\ streams = Players /\ sender = [p \in Players |-> TRUE]
    /\ roster = <<Host, Guest>> /\ mapped = Players
    /\ gameDone = FALSE /\ roomDone = FALSE /\ closing = FALSE /\ cleanedUp = FALSE
    /\ lifecycle = "playing" /\ crashed = "no"

-----------------------------------------------------------------------------
(* Getting ready *)

\* A player's ready signal, any time the server still maps him to the game.
SignalReadyToPlay(p) ==
    /\ p \in mapped
    /\ PlayersReady' = PlayersReady \cup {p}
    /\ UNCHANGED <<CountdownStarted, CountdownValue, GameReady, readyTimer, clockVars, roundVars,
                   frameVars, streamVars, endVars, crashed>>

\* A tick of Run before the countdown: the timer is armed if there is none, and
\* stopped when everyone is ready.  Stop does not recall a callback.
AwaitReady ==
    LET everyone == Cardinality(PlayersReady) = Len(roster) IN
    /\ loop = "wait" /\ ~GameReady /\ ~CountdownStarted
    /\ readyTimer' = IF everyone THEN "none"
                     ELSE IF readyTimer = "none" THEN "armed" ELSE readyTimer
    /\ CountdownStarted' = everyone
    /\ counting' = (counting \/ everyone)
    /\ UNCHANGED <<PlayersReady, CountdownValue, GameReady, callback, roundVars, frameVars,
                   streamVars, endVars, crashed>>

TimerFires ==
    /\ readyTimer = "armed"
    /\ readyTimer' = "fired"
    /\ callback' = TRUE
    /\ UNCHANGED <<PlayersReady, CountdownStarted, CountdownValue, GameReady, counting, roundVars,
                   frameVars, streamVars, endVars, crashed>>

\* Mutant: the callback does not look whether the game has begun.
TimeoutUnchecked ==
    /\ callback
    /\ callback' = FALSE
    /\ gameDone' = TRUE /\ roomDone' = TRUE
    /\ UNCHANGED <<readyVars, counting, roundVars, frameVars, streamVars, roster, mapped, closing,
                   cleanedUp, lifecycle, crashed>>

\* Mutant: the callback cancels the game and forgets the room.
TimeoutKeepsRoom ==
    /\ callback
    /\ callback' = FALSE
    /\ gameDone' = (gameDone \/ ~(GameReady \/ CountdownStarted))
    /\ UNCHANGED <<readyVars, counting, roundVars, frameVars, streamVars, roster, mapped, roomDone,
                   closing, cleanedUp, lifecycle, crashed>>

\* The callback gets the lock: it cancels the room and the game unless play has begun.
OnReadyTimeout ==
    /\ callback
    /\ callback' = FALSE
    /\ IF GameReady \/ CountdownStarted THEN UNCHANGED doneVars
       ELSE gameDone' = TRUE /\ roomDone' = TRUE /\ UNCHANGED <<closing, cleanedUp>>
    /\ UNCHANGED <<readyVars, counting, roundVars, frameVars, streamVars, roster, mapped,
                   lifecycle, crashed>>

\* Mutant: the last second clears the countdown before it announces the game.
CountdownTickEarly ==
    /\ counting
    /\ CountdownValue' = CountdownValue - 1
    /\ CountdownStarted' = (CountdownValue' > 0)
    /\ GameReady' = (CountdownValue' < 0)
    /\ counting' = (CountdownValue' >= 0)
    /\ UNCHANGED <<PlayersReady, readyTimer, callback, roundVars, frameVars, streamVars, endVars,
                   crashed>>

\* Mutant: the value is compared before it is counted down.
CountdownTickLate ==
    /\ counting
    /\ CountdownValue' = CountdownValue - 1
    /\ GameReady' = (GameReady \/ CountdownValue < 0)
    /\ CountdownStarted' = (CountdownStarted /\ CountdownValue >= 0)
    /\ counting' = (CountdownValue >= 0)
    /\ UNCHANGED <<PlayersReady, readyTimer, callback, roundVars, frameVars, streamVars, endVars,
                   crashed>>

\* A second of startCountdown; the last one lets the game begin.
CountdownTick ==
    LET finished == CountdownValue' < 0 IN
    /\ counting
    /\ CountdownValue' = CountdownValue - 1
    /\ GameReady' = (GameReady \/ finished)
    /\ CountdownStarted' = (CountdownStarted /\ ~finished)
    /\ counting' = ~finished
    /\ UNCHANGED <<PlayersReady, readyTimer, callback, roundVars, frameVars, streamVars, endVars,
                   crashed>>

CountdownQuits ==
    /\ counting /\ gameDone
    /\ counting' = FALSE
    /\ UNCHANGED <<readyVars, callback, roundVars, frameVars, streamVars, endVars, crashed>>

-----------------------------------------------------------------------------
(* Rounds *)

\* startGameplay: the first round, if the game has not been decided before.
StartGameplay ==
    /\ loop = "wait" /\ GameReady
    /\ loop' = "play"
    /\ engine' = IF Running THEN "rally" ELSE engine
    /\ UNCHANGED <<readyVars, clockVars, Score, Winner, Running, frameVars, streamVars, endVars,
                   crashed>>

\* The loop leaves startGameplay and readies the game for another countdown.
ResetReady ==
    /\ loop' = "wait"
    /\ PlayersReady' = {} /\ GameReady' = FALSE /\ CountdownStarted' = FALSE
    /\ CountdownValue' = CountdownFrom
    /\ readyTimer' = "none"

\* The engine of a round sends frames, until a tick finds the ball behind a paddle and
\* it offers the result.  A frame sent on the closed Framesch panics.
RoundWon(p) ==
    /\ engine = "rally"
    /\ engine' = p
    /\ crashed' = IF Framesch = "closed" THEN "send" ELSE crashed
    /\ UNCHANGED <<readyVars, clockVars, loop, Score, Winner, Running, frameVars, streamVars,
                   endVars>>

\* Rendezvous on roundResult; nobody has won the game, and a new round starts.
PointScored ==
    /\ loop = "play" /\ engine \in Players /\ ~cleanedUp /\ Running
    /\ Score' = Awarded(engine)
    /\ Reached(Score') = None
    /\ engine' = "rally"
    /\ UNCHANGED <<readyVars, clockVars, loop, Winner, Running, frameVars, streamVars, endVars,
                   crashed>>

\* Mutant: the loop starts another round after the deciding one.
FinalPointPlaysOn ==
    /\ loop = "play" /\ engine \in Players /\ ~cleanedUp /\ Running
    /\ Score' = Awarded(engine)
    /\ Reached(Score') # None
    /\ Winner' = Reached(Score') /\ Running' = FALSE
    /\ Framesch' = "closed"
    /\ engine' = "rally"
    /\ ResetReady
    /\ UNCHANGED <<clockVars, FrameCh, distributing, streamVars, endVars, crashed>>

\* The deciding point: the winner is set and Framesch closed, and no round follows.
FinalPoint ==
    /\ loop = "play" /\ engine \in Players /\ ~cleanedUp /\ Running
    /\ Score' = Awarded(engine)
    /\ Reached(Score') # None
    /\ Winner' = Reached(Score') /\ Running' = FALSE
    /\ Framesch' = "closed"
    /\ engine' = "none"
    /\ ResetReady
    /\ UNCHANGED <<clockVars, FrameCh, distributing, streamVars, endVars, crashed>>

\* Cleanup has closed roundResult: the range ends, and a late result panics.
RangeEnds ==
    /\ loop = "play" /\ cleanedUp
    /\ ResetReady
    /\ UNCHANGED <<clockVars, engine, Score, Winner, Running, frameVars, streamVars, endVars,
                   crashed>>

LateResult ==
    /\ engine \in Players /\ cleanedUp
    /\ crashed' = "send"
    /\ UNCHANGED <<readyVars, clockVars, roundVars, frameVars, streamVars, endVars>>

EngineQuits ==
    /\ engine # "none" /\ gameDone
    /\ engine' = "none"
    /\ UNCHANGED <<readyVars, clockVars, loop, Score, Winner, Running, frameVars, streamVars,
                   endVars, crashed>>

LoopQuits ==
    /\ loop = "wait" /\ gameDone
    /\ loop' = "done"
    /\ UNCHANGED <<readyVars, clockVars, engine, Score, Winner, Running, frameVars, streamVars,
                   endVars, crashed>>

-----------------------------------------------------------------------------
(* Frames.  Their queues are the subject of Frames; here a channel is open or closed, *)
(* and a sender may have a frame in hand at any time.                                 *)

\* The distributor reaches the end of Framesch and closes the channel of every listed
\* player.
CloseFeeds ==
    /\ distributing /\ Framesch = "closed"
    /\ distributing' = FALSE
    /\ FrameCh' = [p \in Players |-> IF p \in Rostered THEN "closed" ELSE FrameCh[p]]
    /\ crashed' = IF Intact THEN crashed ELSE "close"
    /\ UNCHANGED <<readyVars, clockVars, roundVars, Framesch, streamVars, endVars>>

DistributorQuits ==
    /\ distributing /\ gameDone
    /\ distributing' = FALSE
    /\ UNCHANGED <<readyVars, clockVars, roundVars, Framesch, FrameCh, streamVars, endVars,
                   crashed>>

\* sendGameUpdates returns: its channel is closed and drained, or the room's context is
\* over.
SenderEnds(p) ==
    /\ sender[p]
    /\ roomDone \/ FrameCh[p] = "closed"
    /\ sender' = [sender EXCEPT ![p] = FALSE]
    /\ UNCHANGED <<readyVars, clockVars, roundVars, frameVars, streams, endVars, crashed>>

\* Or a dead stream refuses a frame.  It need not: once the handler of the stream has
\* cleared GameStream, the sender skips the frames and stays.
SendFails(p) ==
    /\ sender[p] /\ p \notin streams
    /\ sender' = [sender EXCEPT ![p] = FALSE]
    /\ UNCHANGED <<readyVars, clockVars, roundVars, frameVars, streams, endVars, crashed>>

-----------------------------------------------------------------------------
(* Streams, departures, shutdown *)

\* A client is lost or unready.
StreamBreaks(p) ==
    /\ p \in streams
    /\ streams' = streams \ {p}
    /\ UNCHANGED <<readyVars, clockVars, roundVars, frameVars, sender, endVars, crashed>>

\* The host leaves: the streams of the room are cancelled and its players removed,
\* which shifts the array the game's list looks at; the room is cancelled later.
HostLeaves ==
    /\ Intact /\ lifecycle # "ended"
    /\ streams' = {}
    /\ roster' = <<Guest, Guest>>
    /\ closing' = TRUE
    /\ UNCHANGED <<readyVars, clockVars, roundVars, frameVars, sender, mapped, gameDone, roomDone,
                   cleanedUp, lifecycle, crashed>>

\* Shutdown cleans the game up, cancels the streams, and later the rooms.
ShutdownGame ==
    /\ lifecycle # "ended" /\ ~cleanedUp
    /\ cleanedUp' = TRUE /\ gameDone' = TRUE
    /\ streams' = {}
    /\ closing' = TRUE
    /\ UNCHANGED <<readyVars, clockVars, roundVars, frameVars, sender, roster, mapped, roomDone,
                   lifecycle, crashed>>

RoomCancelled ==
    /\ closing
    /\ closing' = FALSE
    /\ roomDone' = TRUE /\ gameDone' = TRUE
    /\ UNCHANGED <<readyVars, clockVars, roundVars, frameVars, streamVars, roster, mapped,
                   cleanedUp, lifecycle, crashed>>

\* Both senders have returned: Cleanup, once.
Cleanup ==
    /\ lifecycle = "playing" /\ \A p \in Players : ~sender[p]
    /\ lifecycle' = "cleaned"
    /\ cleanedUp' = TRUE /\ gameDone' = TRUE
    /\ UNCHANGED <<readyVars, clockVars, roundVars, frameVars, streamVars, roster, mapped,
                   roomDone, closing, crashed>>

\* handleGameEnd unmaps the players of the room who are ready (one whose stream is dead
\* may no longer be) and cancels their streams; the deferred part resets the listed
\* players and removes the room.
HandleGameEnd ==
    LET members == IF Intact THEN Players ELSE {} IN
    /\ lifecycle = "cleaned"
    /\ lifecycle' = "ended"
    /\ \E unready \in SUBSET (Players \ streams) : mapped' = mapped \ (members \ unready)
    /\ Score' = [p \in Players |-> IF p \in Rostered THEN 0 ELSE Score[p]]
    /\ streams' = streams \ Rostered
    /\ roomDone' = TRUE
    /\ UNCHANGED <<readyVars, clockVars, loop, engine, Winner, Running, frameVars, sender, roster,
                   gameDone, closing, cleanedUp, crashed>>

-----------------------------------------------------------------------------
(* Specification *)

(* One operator per goroutine *)
Loop == AwaitReady \/ StartGameplay \/ PointScored \/ FinalPoint \/ RangeEnds \/ LoopQuits
Counting == CountdownTick \/ CountdownQuits
Engine == LateResult \/ EngineQuits
Distributor == CloseFeeds \/ DistributorQuits
Lifecycle == Cleanup \/ HandleGameEnd
Server == Loop \/ TimerFires \/ OnReadyTimeout \/ Counting \/ Engine \/ Distributor \/ Lifecycle
          \/ RoomCancelled \/ HostLeaves \/ ShutdownGame
PlayerStep(p) ==
    \/ SignalReadyToPlay(p) \/ RoundWon(p) \/ SenderEnds(p) \/ SendFails(p)
    \/ StreamBreaks(p)

\* A panic ends the process.
Alive == crashed = "no"
Next == Alive /\ (Server \/ \E p \in Players : PlayerStep(p))

Spec == Init /\ [][Next]_vars

\* The goroutines run: tickers tick, the timer fires, a ready case of a select is
\* served, and a rally ends (the ball speeds up until a paddle misses it).  Nothing is
\* asked of the players: they may never be ready, stay or leave.
Fairness ==
    /\ WF_vars(Alive /\ Loop) /\ WF_vars(Alive /\ TimerFires)
    /\ WF_vars(Alive /\ OnReadyTimeout) /\ WF_vars(Alive /\ Counting)
    /\ WF_vars(Alive /\ \E p \in Players : RoundWon(p)) /\ WF_vars(Alive /\ Distributor)
    /\ \A p \in Players : WF_vars(Alive /\ SenderEnds(p))
    /\ WF_vars(Alive /\ RoomCancelled) /\ WF_vars(Alive /\ Lifecycle)

FairSpec == Spec /\ Fairness

-----------------------------------------------------------------------------
(* Properties *)

\* Types of the variables.
TypeOK ==
    /\ PlayersReady \in SUBSET Players /\ CountdownStarted \in BOOLEAN /\ GameReady \in BOOLEAN
    /\ CountdownValue \in -1..CountdownFrom
    /\ readyTimer \in {"none", "armed", "fired"} /\ callback \in BOOLEAN /\ counting \in BOOLEAN
    /\ loop \in {"wait", "play", "done"} /\ engine \in Players \cup {"none", "rally"}
    /\ Score \in [Players -> Nat] /\ Winner \in Players \cup {None} /\ Running \in BOOLEAN
    /\ Framesch \in {"open", "closed"} /\ FrameCh \in [Players -> {"open", "closed"}]
    /\ distributing \in BOOLEAN
    /\ streams \in SUBSET Players /\ sender \in [Players -> BOOLEAN]
    /\ roster \in {<<Host, Guest>>, <<Guest, Guest>>} /\ mapped \in SUBSET Players
    /\ gameDone \in BOOLEAN /\ roomDone \in BOOLEAN /\ closing \in BOOLEAN
    /\ cleanedUp \in BOOLEAN
    /\ lifecycle \in {"playing", "cleaned", "ended"} /\ crashed \in {"no", "send", "close"}

\* A countdown that runs is the only one and has not let the game begin: a second
\* startCountdown over the same value would halve the time players have.
OneCountdown == counting => CountdownStarted /\ ~GameReady

\* The only panics are the two the code leaves open: a result that arrives after
\* Cleanup, and the list with a player twice that the host's departure leaves behind.
CrashIsKnown ==
    /\ crashed = "send" => cleanedUp /\ Winner = None
    /\ crashed = "close" => ~Intact

\* A timeout that has waited for the lock cancels no game that counts down or plays:
\* Stop does not recall it, so it is the flags that must say so at every moment.
TimeoutSparesPlay ==
    [][callback /\ ~callback' /\ gameDone' # gameDone
         => ~counting /\ (loop = "play" => ~Running)]_vars

\* Every game ends, whatever its players do: a result, a timeout, a departure and a
\* shutdown all reach the senders, and the lifecycle frees its players.
GameEnds == <>(lifecycle = "ended" \/ crashed # "no")

-----------------------------------------------------------------------------
(* The game implements Match *)

Void == cleanedUp \/ ~Intact

Phase ==
    IF Void THEN "void"
    ELSE IF Winner # None THEN "over"
    ELSE IF loop = "play" \/ GameReady THEN "playing"
    ELSE IF CountdownStarted THEN "countdown" ELSE "waiting"

M == INSTANCE Match WITH
    phase <- Phase,
    points <- IF Void THEN [p \in Players |-> 0] ELSE Score,
    champion <- IF Void THEN None ELSE Winner

\* The goroutines of a game keep the promise of Match until its clean-up, as
\* long as the host stays.
ImplementsMatch == M!Spec
=============================================================================
