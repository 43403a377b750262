---------------------------- MODULE GameRunProofs ----------------------------
(***************************************************************************)
(* What holds of one game for any score, countdown and players: types, the  *)
(* single countdown, the panics that are possible and those that are not,   *)
(* the timeout that spares a game in play, and that the goroutines of        *)
(* ponggame/game.go and engine.go implement Match.                          *)
(***************************************************************************)
EXTENDS GameRun, FiniteSetTheorems, TLAPS

-----------------------------------------------------------------------------
(* Points *)

LEMMA PlayerFacts ==
    /\ Host \in Players /\ Guest \in Players /\ Host # Guest
    /\ None \notin Players /\ "none" \notin Players /\ "rally" \notin Players
    /\ \A p \in Players : p = Host \/ p = Guest
  BY PlayerAssumption DEF Players

LEMMA RosterFacts == TypeOK => /\ roster[1] \in Players /\ roster[2] \in Players
                               /\ Intact => roster[1] = Host /\ roster[2] = Guest
  BY PlayerFacts DEF TypeOK, Intact

\* The points of a round are whole numbers; in an intact list the winner of the rally gets one
\* and nobody else any.
LEMMA AwardedType == ASSUME TypeOK, NEW p \in Players PROVE Awarded(p) \in [Players -> Nat]
<1>1. Cardinality({i \in 1..2 : roster[i] = p}) \in Nat
  <2>1. IsFiniteSet({i \in 1..2 : roster[i] = p})
    BY FS_Interval, FS_Subset, {i \in 1..2 : roster[i] = p} \subseteq 1..2
  <2> QED
    BY <2>1, FS_CardinalityType
<1> QED
  BY <1>1 DEF Awarded, TypeOK

LEMMA AwardedOne ==
    ASSUME TypeOK, Intact, NEW p \in Players PROVE Awarded(p) = [Score EXCEPT ![p] = @ + 1]
<1>1. PICK k \in 1..2 : {i \in 1..2 : roster[i] = p} = {k}
  <2>1. CASE p = Host
    <3>1. {i \in 1..2 : roster[i] = p} = {1}
      BY <2>1, RosterFacts, PlayerFacts
    <3> QED
      BY <3>1
  <2>2. CASE p = Guest
    <3>1. {i \in 1..2 : roster[i] = p} = {2}
      BY <2>2, RosterFacts, PlayerFacts
    <3> QED
      BY <3>1
  <2> QED
    BY <2>1, <2>2, PlayerFacts
<1>2. Cardinality({k}) = 1
  BY FS_Singleton
<1> QED
  BY <1>1, <1>2 DEF Awarded

LEMMA ReachedType ==
    ASSUME TypeOK, NEW score PROVE Reached(score) \in Players \cup {None}
  BY RosterFacts DEF Reached

\* In an intact list nobody has reached the score exactly if all are below it.
LEMMA ReachedNone ==
    ASSUME TypeOK, Intact, NEW score \in [Players -> Nat]
    PROVE  /\ Reached(score) = None <=> \A p \in Players : score[p] < MaxScore
           /\ Reached(score) # None => score[Reached(score)] >= MaxScore
  BY RosterFacts, PlayerFacts, ScoreAssumption DEF Reached

-----------------------------------------------------------------------------
(* The invariant *)

(* Types, one group of variables at a time *)

ReadyTypes ==
    /\ PlayersReady \in SUBSET Players /\ CountdownStarted \in BOOLEAN /\ GameReady \in BOOLEAN
    /\ CountdownValue \in -1..CountdownFrom /\ readyTimer \in {"none", "armed", "fired"}
ClockTypes ==
    callback \in BOOLEAN /\ counting \in BOOLEAN
RoundTypes ==
    /\ loop \in {"wait", "play", "done"} /\ engine \in Players \cup {"none", "rally"}
    /\ Score \in [Players -> Nat] /\ Winner \in Players \cup {None} /\ Running \in BOOLEAN
FrameTypes ==
    /\ Framesch \in {"open", "closed"} /\ FrameCh \in [Players -> {"open", "closed"}]
    /\ distributing \in BOOLEAN
StreamTypes ==
    streams \in SUBSET Players /\ sender \in [Players -> BOOLEAN]
RosterTypes ==
    roster \in {<<Host, Guest>>, <<Guest, Guest>>} /\ mapped \in SUBSET Players
DoneTypes ==
    /\ gameDone \in BOOLEAN /\ roomDone \in BOOLEAN /\ closing \in BOOLEAN /\ cleanedUp \in BOOLEAN
    /\ lifecycle \in {"playing", "cleaned", "ended"}
CrashTypes ==
    crashed \in {"no", "send", "close"}

Types ==
    /\ ReadyTypes /\ ClockTypes /\ RoundTypes /\ FrameTypes
    /\ StreamTypes /\ RosterTypes /\ DoneTypes /\ CrashTypes

LEMMA TypesAreTypeOK == Types <=> TypeOK
  BY DEF Types, TypeOK, ReadyTypes, ClockTypes, RoundTypes, FrameTypes, StreamTypes, RosterTypes, DoneTypes, CrashTypes

LEMMA FullCountdown == CountdownFrom \in -1..CountdownFrom
  BY ScoreAssumption

LEMMA TypesUnchanged ==
    Types =>
    /\ UNCHANGED readyVars => ReadyTypes'
    /\ UNCHANGED clockVars => ClockTypes'
    /\ UNCHANGED roundVars => RoundTypes'
    /\ UNCHANGED frameVars => FrameTypes'
    /\ UNCHANGED streamVars => StreamTypes'
    /\ UNCHANGED <<roster, mapped>> => RosterTypes'
    /\ UNCHANGED <<doneVars, lifecycle>> => DoneTypes'
    /\ UNCHANGED crashed => CrashTypes'
<1> USE DEF Types
<1>1. Types /\ UNCHANGED readyVars => ReadyTypes'
  BY DEF ReadyTypes, readyVars
<1>2. Types /\ UNCHANGED clockVars => ClockTypes'
  BY DEF ClockTypes, clockVars
<1>3. Types /\ UNCHANGED roundVars => RoundTypes'
  BY DEF RoundTypes, roundVars
<1>4. Types /\ UNCHANGED frameVars => FrameTypes'
  BY DEF FrameTypes, frameVars
<1>5. Types /\ UNCHANGED streamVars => StreamTypes'
  BY DEF StreamTypes, streamVars
<1>6. Types /\ UNCHANGED <<roster, mapped>> => RosterTypes'
  BY DEF RosterTypes
<1>7. Types /\ UNCHANGED <<doneVars, lifecycle>> => DoneTypes'
  BY DEF DoneTypes, doneVars
<1>8. Types /\ UNCHANGED crashed => CrashTypes'
  BY DEF CrashTypes
<1> QED
  BY <1>1, <1>2, <1>3, <1>4, <1>5, <1>6, <1>7, <1>8

\* A countdown that is not over leaves the game unannounced; the loop plays an announced game; a
\* decided game has no engine and its Framesch is closed; and nobody has passed the score before.
Control ==
    /\ OneCountdown /\ CrashIsKnown
    /\ ~GameReady => CountdownValue >= 0
    /\ loop = "play" => GameReady
    /\ Running <=> Winner = None
    /\ Framesch = "closed" <=> Winner # None
    /\ Winner # None => engine = "none"
    /\ lifecycle # "playing" => cleanedUp

BelowMax == Intact /\ ~cleanedUp /\ Winner = None => \A p \in Players : Score[p] < MaxScore

GameInv == Types /\ Control /\ BelowMax

LEMMA GameInvInit == Init => GameInv
<1> SUFFICES ASSUME Init PROVE GameInv
  OBVIOUS
<1>1. Types
  <2>1. ReadyTypes
    BY FullCountdown DEF Init, ReadyTypes
  <2>2. ClockTypes
    BY PlayerFacts, ScoreAssumption DEF Init, ClockTypes
  <2>3. RoundTypes
    BY PlayerFacts, ScoreAssumption DEF Init, RoundTypes
  <2>4. FrameTypes
    BY PlayerFacts, ScoreAssumption DEF Init, FrameTypes
  <2>5. StreamTypes
    BY PlayerFacts, ScoreAssumption DEF Init, StreamTypes
  <2>6. RosterTypes
    BY PlayerFacts, ScoreAssumption DEF Init, RosterTypes
  <2>7. DoneTypes
    BY PlayerFacts, ScoreAssumption DEF Init, DoneTypes
  <2>8. CrashTypes
    BY PlayerFacts, ScoreAssumption DEF Init, CrashTypes
  <2> QED
    BY <2>1, <2>2, <2>3, <2>4, <2>5, <2>6, <2>7, <2>8 DEF Types
<1>2. Control
  BY PlayerFacts, ScoreAssumption DEF Init, Control, OneCountdown, CrashIsKnown
<1>3. BelowMax
  BY PlayerFacts, ScoreAssumption DEF Init, BelowMax
<1> QED
  BY <1>1, <1>2, <1>3 DEF GameInv

LEMMA TypeStep == Types /\ Control /\ [Next]_vars => Types'
<1> SUFFICES ASSUME Types, Control, Next \/ UNCHANGED vars PROVE Types'
  BY DEF Next
<1> USE PlayerFacts, ScoreAssumption
<1>1. ASSUME AwaitReady PROVE Types'
  <2>1. ReadyTypes'
    BY <1>1 DEF AwaitReady, Types, ReadyTypes
  <2>2. ClockTypes'
    BY <1>1 DEF AwaitReady, Types, ClockTypes
  <2>3. UNCHANGED <<roundVars, frameVars, streamVars, <<roster, mapped>>, <<doneVars, lifecycle>>, crashed>>
    BY <1>1 DEF AwaitReady, endVars
  <2> QED
    BY <2>1, <2>2, <2>3, TypesUnchanged DEF Types
<1>2. ASSUME StartGameplay PROVE Types'
  <2>1. RoundTypes'
    BY <1>2 DEF StartGameplay, Types, RoundTypes
  <2>2. UNCHANGED <<readyVars, clockVars, frameVars, streamVars, <<roster, mapped>>, <<doneVars, lifecycle>>, crashed>>
    BY <1>2 DEF StartGameplay, endVars
  <2> QED
    BY <2>1, <2>2, TypesUnchanged DEF Types
<1>3. ASSUME RangeEnds PROVE Types'
  <2>1. ReadyTypes'
    BY <1>3, FullCountdown DEF RangeEnds, ResetReady, ReadyTypes
  <2>2. RoundTypes'
    BY <1>3 DEF RangeEnds, ResetReady, Types, RoundTypes
  <2>3. UNCHANGED <<clockVars, frameVars, streamVars, <<roster, mapped>>, <<doneVars, lifecycle>>, crashed>>
    BY <1>3 DEF RangeEnds, endVars, ResetReady
  <2> QED
    BY <2>1, <2>2, <2>3, TypesUnchanged DEF Types
<1>4. ASSUME LoopQuits PROVE Types'
  <2>1. RoundTypes'
    BY <1>4 DEF LoopQuits, Types, RoundTypes
  <2>2. UNCHANGED <<readyVars, clockVars, frameVars, streamVars, <<roster, mapped>>, <<doneVars, lifecycle>>, crashed>>
    BY <1>4 DEF LoopQuits, endVars
  <2> QED
    BY <2>1, <2>2, TypesUnchanged DEF Types
<1>5. ASSUME TimerFires PROVE Types'
  <2>1. ReadyTypes'
    BY <1>5 DEF TimerFires, Types, ReadyTypes
  <2>2. ClockTypes'
    BY <1>5 DEF TimerFires, Types, ClockTypes
  <2>3. UNCHANGED <<roundVars, frameVars, streamVars, <<roster, mapped>>, <<doneVars, lifecycle>>, crashed>>
    BY <1>5 DEF TimerFires, endVars
  <2> QED
    BY <2>1, <2>2, <2>3, TypesUnchanged DEF Types
<1>6. ASSUME OnReadyTimeout PROVE Types'
  <2>1. ClockTypes'
    BY <1>6 DEF OnReadyTimeout, doneVars, Types, ClockTypes
  <2>2. DoneTypes'
    BY <1>6 DEF OnReadyTimeout, doneVars, Types, DoneTypes
  <2>3. UNCHANGED <<readyVars, roundVars, frameVars, streamVars, <<roster, mapped>>, crashed>>
    BY <1>6 DEF OnReadyTimeout, endVars
  <2> QED
    BY <2>1, <2>2, <2>3, TypesUnchanged DEF Types
<1>7. ASSUME CountdownTick PROVE Types'
  <2>1. ReadyTypes'
    BY <1>7 DEF CountdownTick, Control, OneCountdown, Types, ReadyTypes
  <2>2. ClockTypes'
    BY <1>7 DEF CountdownTick, Control, OneCountdown, Types, ClockTypes
  <2>3. UNCHANGED <<roundVars, frameVars, streamVars, <<roster, mapped>>, <<doneVars, lifecycle>>, crashed>>
    BY <1>7 DEF CountdownTick, endVars
  <2> QED
    BY <2>1, <2>2, <2>3, TypesUnchanged DEF Types
<1>8. ASSUME CountdownQuits PROVE Types'
  <2>1. ClockTypes'
    BY <1>8 DEF CountdownQuits, Types, ClockTypes
  <2>2. UNCHANGED <<readyVars, roundVars, frameVars, streamVars, <<roster, mapped>>, <<doneVars, lifecycle>>, crashed>>
    BY <1>8 DEF CountdownQuits, endVars
  <2> QED
    BY <2>1, <2>2, TypesUnchanged DEF Types
<1>9. ASSUME LateResult PROVE Types'
  <2>1. CrashTypes'
    BY <1>9 DEF LateResult, Types, CrashTypes
  <2>2. UNCHANGED <<readyVars, clockVars, roundVars, frameVars, streamVars, <<roster, mapped>>, <<doneVars, lifecycle>>>>
    BY <1>9 DEF LateResult, endVars
  <2> QED
    BY <2>1, <2>2, TypesUnchanged DEF Types
<1>10. ASSUME EngineQuits PROVE Types'
  <2>1. RoundTypes'
    BY <1>10 DEF EngineQuits, Types, RoundTypes
  <2>2. UNCHANGED <<readyVars, clockVars, frameVars, streamVars, <<roster, mapped>>, <<doneVars, lifecycle>>, crashed>>
    BY <1>10 DEF EngineQuits, endVars
  <2> QED
    BY <2>1, <2>2, TypesUnchanged DEF Types
<1>11. ASSUME CloseFeeds PROVE Types'
  <2>1. FrameTypes'
    BY <1>11 DEF CloseFeeds, Rostered, Types, FrameTypes
  <2>2. CrashTypes'
    BY <1>11 DEF CloseFeeds, Rostered, Types, CrashTypes
  <2>3. UNCHANGED <<readyVars, clockVars, roundVars, streamVars, <<roster, mapped>>, <<doneVars, lifecycle>>>>
    BY <1>11 DEF CloseFeeds, endVars
  <2> QED
    BY <2>1, <2>2, <2>3, TypesUnchanged DEF Types
<1>12. ASSUME DistributorQuits PROVE Types'
  <2>1. FrameTypes'
    BY <1>12 DEF DistributorQuits, Types, FrameTypes
  <2>2. UNCHANGED <<readyVars, clockVars, roundVars, streamVars, <<roster, mapped>>, <<doneVars, lifecycle>>, crashed>>
    BY <1>12 DEF DistributorQuits, endVars
  <2> QED
    BY <2>1, <2>2, TypesUnchanged DEF Types
<1>13. ASSUME Cleanup PROVE Types'
  <2>1. DoneTypes'
    BY <1>13 DEF Cleanup, Types, DoneTypes
  <2>2. UNCHANGED <<readyVars, clockVars, roundVars, frameVars, streamVars, <<roster, mapped>>, crashed>>
    BY <1>13 DEF Cleanup, endVars
  <2> QED
    BY <2>1, <2>2, TypesUnchanged DEF Types
<1>14. ASSUME HandleGameEnd PROVE Types'
  <2>1. RoundTypes'
    BY <1>14 DEF HandleGameEnd, Types, RoundTypes
  <2>2. StreamTypes'
    BY <1>14 DEF HandleGameEnd, Types, StreamTypes
  <2>3. RosterTypes'
    <3>1. mapped' \subseteq mapped /\ roster' = roster
      BY <1>14 DEF HandleGameEnd
    <3> QED
      BY <3>1 DEF Types, RosterTypes
  <2>4. DoneTypes'
    BY <1>14 DEF HandleGameEnd, Types, DoneTypes
  <2>5. UNCHANGED <<readyVars, clockVars, frameVars, crashed>>
    BY <1>14 DEF HandleGameEnd, endVars
  <2> QED
    BY <2>1, <2>2, <2>3, <2>4, <2>5, TypesUnchanged DEF Types
<1>15. ASSUME RoomCancelled PROVE Types'
  <2>1. DoneTypes'
    BY <1>15 DEF RoomCancelled, Types, DoneTypes
  <2>2. UNCHANGED <<readyVars, clockVars, roundVars, frameVars, streamVars, <<roster, mapped>>, crashed>>
    BY <1>15 DEF RoomCancelled, endVars
  <2> QED
    BY <2>1, <2>2, TypesUnchanged DEF Types
<1>16. ASSUME HostLeaves PROVE Types'
  <2>1. StreamTypes'
    BY <1>16 DEF HostLeaves, Types, StreamTypes
  <2>2. RosterTypes'
    BY <1>16 DEF HostLeaves, Types, RosterTypes
  <2>3. DoneTypes'
    BY <1>16 DEF HostLeaves, Types, DoneTypes
  <2>4. UNCHANGED <<readyVars, clockVars, roundVars, frameVars, crashed>>
    BY <1>16 DEF HostLeaves, endVars
  <2> QED
    BY <2>1, <2>2, <2>3, <2>4, TypesUnchanged DEF Types
<1>17. ASSUME ShutdownGame PROVE Types'
  <2>1. StreamTypes'
    BY <1>17 DEF ShutdownGame, Types, StreamTypes
  <2>2. DoneTypes'
    BY <1>17 DEF ShutdownGame, Types, DoneTypes
  <2>3. UNCHANGED <<readyVars, clockVars, roundVars, frameVars, <<roster, mapped>>, crashed>>
    BY <1>17 DEF ShutdownGame, endVars
  <2> QED
    BY <2>1, <2>2, <2>3, TypesUnchanged DEF Types
<1>18. ASSUME PointScored PROVE Types'
  <2>1. RoundTypes'
    <3>1. engine \in Players /\ Score' = Awarded(engine)
      BY <1>18 DEF PointScored
    <3>2. Score' \in [Players -> Nat]
      BY <3>1, AwardedType, TypesAreTypeOK
    <3> QED
      BY <1>18, <3>2 DEF PointScored, Types, RoundTypes
  <2>2. UNCHANGED <<readyVars, clockVars, frameVars, streamVars, <<roster, mapped>>, <<doneVars, lifecycle>>, crashed>>
    BY <1>18 DEF PointScored, endVars
  <2> QED
    BY <2>1, <2>2, TypesUnchanged DEF Types
<1>19. ASSUME FinalPoint PROVE Types'
  <2>1. ReadyTypes'
    BY <1>19, FullCountdown DEF FinalPoint, ResetReady, ReadyTypes
  <2>2. RoundTypes'
    <3>1. engine \in Players /\ Score' = Awarded(engine)
      BY <1>19 DEF FinalPoint
    <3>2. Score' \in [Players -> Nat]
      BY <3>1, AwardedType, TypesAreTypeOK
    <3>3. Winner' \in Players
      BY <1>19, ReachedType, TypesAreTypeOK DEF FinalPoint
    <3> QED
      BY <1>19, <3>2, <3>3 DEF FinalPoint, ResetReady, Types, RoundTypes
  <2>3. FrameTypes'
    BY <1>19 DEF FinalPoint, ResetReady, Types, FrameTypes
  <2>4. UNCHANGED <<clockVars, streamVars, <<roster, mapped>>, <<doneVars, lifecycle>>, crashed>>
    BY <1>19 DEF FinalPoint, endVars, ResetReady
  <2> QED
    BY <2>1, <2>2, <2>3, <2>4, TypesUnchanged DEF Types
<1>20. ASSUME NEW p \in Players, SignalReadyToPlay(p) PROVE Types'
  <2>1. ReadyTypes'
    BY <1>20 DEF SignalReadyToPlay, Types, ReadyTypes
  <2>2. UNCHANGED <<clockVars, roundVars, frameVars, streamVars, <<roster, mapped>>, <<doneVars, lifecycle>>, crashed>>
    BY <1>20 DEF SignalReadyToPlay, endVars
  <2> QED
    BY <2>1, <2>2, TypesUnchanged DEF Types
<1>21. ASSUME NEW p \in Players, RoundWon(p) PROVE Types'
  <2>1. RoundTypes'
    BY <1>21 DEF RoundWon, Types, RoundTypes
  <2>2. CrashTypes'
    BY <1>21 DEF RoundWon, Types, CrashTypes
  <2>3. UNCHANGED <<readyVars, clockVars, frameVars, streamVars, <<roster, mapped>>, <<doneVars, lifecycle>>>>
    BY <1>21 DEF RoundWon, endVars
  <2> QED
    BY <2>1, <2>2, <2>3, TypesUnchanged DEF Types
<1>22. ASSUME NEW p \in Players, SenderEnds(p) PROVE Types'
  <2>1. StreamTypes'
    BY <1>22 DEF SenderEnds, Types, StreamTypes
  <2>2. UNCHANGED <<readyVars, clockVars, roundVars, frameVars, <<roster, mapped>>, <<doneVars, lifecycle>>, crashed>>
    BY <1>22 DEF SenderEnds, endVars
  <2> QED
    BY <2>1, <2>2, TypesUnchanged DEF Types
<1>23. ASSUME NEW p \in Players, SendFails(p) PROVE Types'
  <2>1. StreamTypes'
    BY <1>23 DEF SendFails, Types, StreamTypes
  <2>2. UNCHANGED <<readyVars, clockVars, roundVars, frameVars, <<roster, mapped>>, <<doneVars, lifecycle>>, crashed>>
    BY <1>23 DEF SendFails, endVars
  <2> QED
    BY <2>1, <2>2, TypesUnchanged DEF Types
<1>24. ASSUME NEW p \in Players, StreamBreaks(p) PROVE Types'
  <2>1. StreamTypes'
    BY <1>24 DEF StreamBreaks, Types, StreamTypes
  <2>2. UNCHANGED <<readyVars, clockVars, roundVars, frameVars, <<roster, mapped>>, <<doneVars, lifecycle>>, crashed>>
    BY <1>24 DEF StreamBreaks, endVars
  <2> QED
    BY <2>1, <2>2, TypesUnchanged DEF Types
<1>25. ASSUME UNCHANGED vars PROVE Types'
  BY <1>25, TypesUnchanged DEF vars, endVars, Types
<1> QED
  BY <1>1, <1>2, <1>3, <1>4, <1>5, <1>6, <1>7, <1>8, <1>9, <1>10, <1>11, <1>12, <1>13, <1>14, <1>15, <1>16, <1>17, <1>18, <1>19, <1>20, <1>21, <1>22, <1>23, <1>24, <1>25
     DEF Next, Server, Loop, Counting, Engine, Distributor, Lifecycle, PlayerStep

LEMMA ControlStep == Types /\ Control /\ [Next]_vars => Control'
<1> SUFFICES ASSUME Types, Control, Next \/ UNCHANGED vars PROVE Control'
  BY DEF Next
<1> USE PlayerFacts DEF Control, OneCountdown, CrashIsKnown
<1>1. ASSUME AwaitReady PROVE Control'
  BY <1>1 DEF AwaitReady, roundVars, frameVars, endVars, doneVars, Intact
<1>2. ASSUME StartGameplay PROVE Control'
  BY <1>2 DEF StartGameplay, readyVars, clockVars, frameVars, endVars, doneVars, Intact
<1>3. ASSUME PointScored PROVE Control'
  BY <1>3 DEF PointScored, readyVars, clockVars, frameVars, endVars, doneVars, Intact
<1>4. ASSUME FinalPoint, crashed = "no" PROVE Control'
  <2>1. Winner' \in Players
    BY <1>4, ReachedType, TypesAreTypeOK DEF FinalPoint
  <2> QED
    BY <1>4, <2>1, ScoreAssumption DEF FinalPoint, ResetReady, clockVars, endVars, doneVars, Intact
<1>5. ASSUME RangeEnds PROVE Control'
  BY <1>5, ScoreAssumption DEF RangeEnds, clockVars, frameVars, endVars, doneVars, ResetReady, Intact
<1>6. ASSUME LoopQuits PROVE Control'
  BY <1>6 DEF LoopQuits, readyVars, clockVars, frameVars, endVars, doneVars, Intact
<1>7. ASSUME TimerFires PROVE Control'
  BY <1>7 DEF TimerFires, roundVars, frameVars, endVars, doneVars, Intact
<1>8. ASSUME OnReadyTimeout PROVE Control'
  BY <1>8 DEF OnReadyTimeout, readyVars, roundVars, frameVars, doneVars, Intact
<1>9. ASSUME CountdownTick PROVE Control'
  <2>1. CountdownValue \in Int /\ GameReady \in BOOLEAN /\ CountdownStarted \in BOOLEAN
    BY ScoreAssumption DEF Types, ReadyTypes
  <2>2. CountdownValue' < 0 \/ CountdownValue' >= 0
    BY <1>9, <2>1 DEF CountdownTick
  <2> QED
    BY <1>9, <2>1, <2>2 DEF CountdownTick, roundVars, frameVars, endVars, doneVars, Intact
<1>10. ASSUME CountdownQuits PROVE Control'
  BY <1>10 DEF CountdownQuits, readyVars, roundVars, frameVars, endVars, doneVars, Intact
<1>11. ASSUME LateResult PROVE Control'
  BY <1>11 DEF LateResult, readyVars, clockVars, roundVars, frameVars, endVars, doneVars, Intact
<1>12. ASSUME EngineQuits PROVE Control'
  BY <1>12 DEF EngineQuits, readyVars, clockVars, frameVars, endVars, doneVars, Intact
<1>13. ASSUME CloseFeeds PROVE Control'
  BY <1>13 DEF CloseFeeds, readyVars, clockVars, roundVars, endVars, doneVars, Intact
<1>14. ASSUME DistributorQuits PROVE Control'
  BY <1>14 DEF DistributorQuits, readyVars, clockVars, roundVars, endVars, doneVars, Intact
<1>15. ASSUME Cleanup PROVE Control'
  BY <1>15 DEF Cleanup, readyVars, clockVars, roundVars, frameVars, Intact
<1>16. ASSUME HandleGameEnd PROVE Control'
  BY <1>16 DEF HandleGameEnd, readyVars, clockVars, frameVars, Intact
<1>17. ASSUME RoomCancelled PROVE Control'
  BY <1>17 DEF RoomCancelled, readyVars, clockVars, roundVars, frameVars, Intact
<1>18. ASSUME HostLeaves PROVE Control'
  BY <1>18 DEF HostLeaves, readyVars, clockVars, roundVars, frameVars, Intact
<1>19. ASSUME ShutdownGame PROVE Control'
  BY <1>19 DEF ShutdownGame, readyVars, clockVars, roundVars, frameVars, Intact
<1>20. ASSUME NEW p \in Players, SignalReadyToPlay(p) PROVE Control'
  BY <1>20 DEF SignalReadyToPlay, clockVars, roundVars, frameVars, endVars, doneVars, Intact
<1>21. ASSUME NEW p \in Players, RoundWon(p) PROVE Control'
  BY <1>21 DEF RoundWon, readyVars, clockVars, frameVars, endVars, doneVars, Intact
<1>22. ASSUME NEW p \in Players, SenderEnds(p) PROVE Control'
  BY <1>22 DEF SenderEnds, readyVars, clockVars, roundVars, frameVars, endVars, doneVars, Intact
<1>23. ASSUME NEW p \in Players, SendFails(p) PROVE Control'
  BY <1>23 DEF SendFails, readyVars, clockVars, roundVars, frameVars, endVars, doneVars, Intact
<1>24. ASSUME NEW p \in Players, StreamBreaks(p) PROVE Control'
  BY <1>24 DEF StreamBreaks, readyVars, clockVars, roundVars, frameVars, endVars, doneVars, Intact
<1>25. ASSUME UNCHANGED vars PROVE Control'
  BY <1>25 DEF vars, readyVars, clockVars, roundVars, frameVars, endVars, doneVars, Intact
<1> QED
  BY <1>1, <1>2, <1>3, <1>4, <1>5, <1>6, <1>7, <1>8, <1>9, <1>10, <1>11, <1>12, <1>13, <1>14, <1>15, <1>16, <1>17, <1>18, <1>19, <1>20, <1>21, <1>22, <1>23, <1>24, <1>25
     DEF Next, Alive, Server, Loop, Counting, Engine, Distributor, Lifecycle, PlayerStep

Keeps == UNCHANGED <<roster, Winner, Score>> /\ (cleanedUp => cleanedUp')

\* Only a point changes the score before the clean-up, and it leaves nobody at MaxScore unless it
\* makes a winner.
LEMMA BelowMaxStep == GameInv /\ [Next]_vars => BelowMax'
<1> SUFFICES ASSUME GameInv, Next \/ UNCHANGED vars PROVE BelowMax'
  BY DEF Next
<1>1. ASSUME Keeps PROVE BelowMax'
  BY <1>1 DEF Keeps, GameInv, BelowMax, Intact
<1>2. ASSUME PointScored PROVE BelowMax'
  <2>1. engine \in Players /\ Score' = Awarded(engine) /\ Reached(Score') = None /\ roster' = roster
    BY <1>2 DEF PointScored, endVars
  <2>2. Score' \in [Players -> Nat]
    BY <2>1, AwardedType, TypesAreTypeOK DEF GameInv
  <2> QED
    BY <2>1, <2>2, ReachedNone, TypesAreTypeOK DEF GameInv, BelowMax, Intact
<1>3. ASSUME FinalPoint PROVE BelowMax'
  <2>1. Winner' \in Players
    BY <1>3, ReachedType, TypesAreTypeOK DEF GameInv, FinalPoint
  <2> QED
    BY <2>1, PlayerFacts DEF BelowMax
<1>4. ASSUME HandleGameEnd PROVE BelowMax'
  <2>1. cleanedUp /\ cleanedUp' = cleanedUp
    BY <1>4 DEF HandleGameEnd, GameInv, Control
  <2> QED
    BY <2>1 DEF BelowMax
<1>5. ASSUME HostLeaves PROVE BelowMax'
  BY <1>5, PlayerFacts DEF HostLeaves, BelowMax, Intact
<1>6. ASSUME Next \/ UNCHANGED vars PROVE
        PointScored \/ FinalPoint \/ HandleGameEnd \/ HostLeaves \/ Keeps
  <2> USE DEF Keeps, roundVars, endVars, doneVars
  <2>1. Loop => PointScored \/ FinalPoint \/ Keeps
    <3>1. AwaitReady \/ StartGameplay \/ LoopQuits => Keeps
      BY DEF AwaitReady, StartGameplay, LoopQuits
    <3>2. RangeEnds => Keeps
      BY DEF RangeEnds
    <3> HIDE DEF Keeps
    <3> QED
      BY <3>1, <3>2 DEF Loop
  <2>2. TimerFires \/ OnReadyTimeout \/ Counting \/ Engine \/ Distributor
        => Keeps
    BY DEF TimerFires, OnReadyTimeout, Counting, CountdownTick, CountdownQuits, Engine, LateResult,
           EngineQuits, Distributor, CloseFeeds, DistributorQuits
  <2>3. Cleanup \/ RoomCancelled \/ ShutdownGame
        => Keeps
    BY DEF Cleanup, RoomCancelled, ShutdownGame
  <2>4. ASSUME NEW p \in Players, PlayerStep(p) PROVE Keeps
    BY <2>4 DEF PlayerStep, SignalReadyToPlay, RoundWon, SenderEnds, SendFails, StreamBreaks
  <2>5. UNCHANGED vars => Keeps
    BY DEF vars
  <2> HIDE DEF Keeps
  <2> QED
    BY <1>6, <2>1, <2>2, <2>3, <2>4, <2>5 DEF Next, Server, Lifecycle
<1> QED
  BY <1>1, <1>2, <1>3, <1>4, <1>5, <1>6

LEMMA GameInvStep == GameInv /\ [Next]_vars => GameInv'
  BY TypeStep, ControlStep, BelowMaxStep DEF GameInv

LEMMA GameInvHolds == Spec => []GameInv
  BY GameInvInit, GameInvStep, PTL DEF Spec

-----------------------------------------------------------------------------
(* Safety *)

(* For any winning score and countdown: every variable of a game keeps its type. *)
THEOREM GameTypeCorrect == Spec => []TypeOK
<1>1. GameInv => TypeOK
  BY TypesAreTypeOK DEF GameInv
<1> QED
  BY <1>1, GameInvHolds, PTL

(* However often games are readied again, one startCountdown runs at a time, and none in a game *)
(* that has begun.                                                                             *)
THEOREM CountdownIsSingle == Spec => []OneCountdown
<1>1. GameInv => OneCountdown
  BY DEF GameInv, Control
<1> QED
  BY <1>1, GameInvHolds, PTL

(* The only panics are a result or a frame after the clean-up of an undecided game, and a channel *)
(* closed twice after the host has left (Cleanup and distributeFrames of ponggame/game.go).      *)
THEOREM PanicsAreKnown == Spec => []CrashIsKnown
<1>1. GameInv => CrashIsKnown
  BY DEF GameInv, Control
<1> QED
  BY <1>1, GameInvHolds, PTL

(* A ready timeout that has waited for the lock cancels no countdown and no undecided game in     *)
(* play (onReadyTimeout of ponggame/game.go).                                                     *)
THEOREM TimeoutsSparePlay == Spec => TimeoutSparesPlay
<1>1. GameInv /\ [Next]_vars
      => [callback /\ ~callback' /\ gameDone' # gameDone
          => ~counting /\ (loop = "play" => ~Running)]_vars
  <2> SUFFICES ASSUME GameInv, Next, callback, ~callback', gameDone' # gameDone
               PROVE  ~counting /\ (loop = "play" => ~Running)
    OBVIOUS
  <2>1. OnReadyTimeout => ~GameReady /\ ~CountdownStarted
    BY DEF OnReadyTimeout, doneVars
  <2>2. Loop \/ Counting \/ TimerFires \/ Engine \/ Distributor => callback' = callback \/ callback'
    <3> USE DEF clockVars
    <3>1. Loop => callback' = callback
      BY DEF Loop, AwaitReady, StartGameplay, PointScored, FinalPoint, RangeEnds, LoopQuits
    <3>2. Counting \/ Engine \/ Distributor => callback' = callback
      BY DEF Counting, CountdownTick, CountdownQuits, Engine, LateResult, EngineQuits, Distributor,
             CloseFeeds, DistributorQuits
    <3>3. TimerFires => callback'
      BY DEF TimerFires
    <3> QED
      BY <3>1, <3>2, <3>3
  <2>3. Lifecycle \/ RoomCancelled \/ HostLeaves \/ ShutdownGame => callback' = callback
    BY DEF Lifecycle, Cleanup, HandleGameEnd, RoomCancelled, HostLeaves, ShutdownGame, clockVars
  <2>4. ASSUME NEW p \in Players, PlayerStep(p) PROVE callback' = callback
    BY <2>4 DEF PlayerStep, SignalReadyToPlay, RoundWon, SenderEnds, SendFails, StreamBreaks,
                clockVars
  <2>5. OnReadyTimeout
    BY <2>2, <2>3, <2>4 DEF Next, Server
  <2> QED
    BY <2>1, <2>5 DEF GameInv, Control, OneCountdown
<1> QED
  BY <1>1, GameInvHolds, PTL DEF Spec, TimeoutSparesPlay

-----------------------------------------------------------------------------
(* The game implements Match *)

Seen == <<Winner, loop, GameReady, CountdownStarted, Score, roster, cleanedUp>>

LEMMA MatchInit == Init => M!Init
  BY PlayerFacts DEF Init, M!Init, M!NoPoints, Phase, Void, Intact

\* A game that is void stays so, and one that becomes void is broken off.
LEMMA VoidStep == ASSUME Void' PROVE M!BreakOff \/ UNCHANGED M!vars
<1>1. CASE Void
  BY <1>1 DEF M!vars, Phase
<1>2. CASE ~Void
  BY <1>2 DEF M!BreakOff, M!NoPoints, Phase
<1> QED
  BY <1>1, <1>2

\* What remains is a step of a game that is not void.
LEMMA SoundStep ==
    ASSUME GameInv, Next \/ UNCHANGED vars, ~Void'
    PROVE  M!Next \/ UNCHANGED M!vars
<1>1. TypeOK /\ Control /\ BelowMax
  BY TypesAreTypeOK DEF GameInv
<1> USE DEF Phase, Void
<1>2. ASSUME UNCHANGED Seen PROVE UNCHANGED M!vars
  BY <1>2 DEF Seen, M!vars, Intact
<1>3. ASSUME AwaitReady PROVE M!Countdown \/ UNCHANGED M!vars
  <2>1. ~GameReady /\ ~CountdownStarted /\ loop = "wait" /\ GameReady' = GameReady
        /\ UNCHANGED <<Winner, loop, Score, roster, cleanedUp>> /\ CountdownStarted' \in BOOLEAN
    BY <1>3 DEF AwaitReady, roundVars, endVars, doneVars
  <2> QED
    BY <2>1 DEF M!Countdown, M!vars, Intact
<1>4. ASSUME StartGameplay \/ LoopQuits PROVE UNCHANGED M!vars
  <2>1. /\ UNCHANGED <<Winner, GameReady, CountdownStarted, Score, roster, cleanedUp>>
        /\ (loop = "play" \/ GameReady) = (loop' = "play" \/ GameReady')
    BY <1>4 DEF StartGameplay, LoopQuits, readyVars, endVars, doneVars
  <2> QED
    BY <2>1 DEF M!vars, Intact
<1>5. ASSUME PointScored PROVE M!Point(engine)
  <2>1. /\ engine \in Players /\ Score' = Awarded(engine) /\ Reached(Score') = None
        /\ UNCHANGED <<Winner, loop, GameReady, CountdownStarted, roster, cleanedUp>>
        /\ loop = "play" /\ Running
    BY <1>5 DEF PointScored, readyVars, endVars, doneVars
  <2>2. Intact /\ Intact' /\ ~cleanedUp /\ ~cleanedUp' /\ Winner = None
    BY <1>1, <2>1 DEF Intact, Control
  <2>3. Score' = [Score EXCEPT ![engine] = @ + 1] /\ Score' \in [Players -> Nat]
    BY <1>1, <2>1, <2>2, AwardedOne, AwardedType
  <2>4. Score'[engine] < MaxScore
    BY <1>1, <2>1, <2>2, <2>3, ReachedNone
  <2>5. Score'[engine] # MaxScore
    BY <2>1, <2>3, <2>4, ScoreAssumption
  <2> QED
    BY <2>1, <2>2, <2>3, <2>5 DEF M!Point
<1>6. ASSUME FinalPoint PROVE M!Point(engine)
  <2>1. /\ engine \in Players /\ Score' = Awarded(engine) /\ Reached(Score') # None
        /\ Winner' = Reached(Score') /\ UNCHANGED <<roster, cleanedUp>>
        /\ loop = "play" /\ Running
    BY <1>6 DEF FinalPoint, endVars, doneVars
  <2>2. Intact /\ Intact' /\ ~cleanedUp /\ ~cleanedUp' /\ Winner = None
    BY <1>1, <2>1 DEF Intact, Control
  <2>3. Score' = [Score EXCEPT ![engine] = @ + 1] /\ Score' \in [Players -> Nat]
    BY <1>1, <2>1, <2>2, AwardedOne, AwardedType
  <2>4. Winner' \in Players /\ Score'[Winner'] >= MaxScore
    BY <1>1, <2>1, <2>2, <2>3, ReachedNone, ReachedType
  <2>5. \A p \in Players : Score[p] < MaxScore /\ Score[p] \in Nat
    BY <1>1, <2>2 DEF BelowMax, TypeOK
  <2>6. Winner' = engine
    BY <2>1, <2>3, <2>4, <2>5, ScoreAssumption
  <2>7. Score'[engine] = MaxScore
    BY <2>1, <2>3, <2>4, <2>5, <2>6, ScoreAssumption DEF TypeOK
  <2> QED
    BY <2>1, <2>2, <2>3, <2>6, <2>7, PlayerFacts DEF M!Point
<1>7. ASSUME CountdownTick PROVE M!Serve \/ UNCHANGED M!vars
  <2>1. CountdownStarted /\ ~GameReady /\ loop # "play"
    BY <1>1, <1>7 DEF CountdownTick, Control, OneCountdown
  <2>2. /\ UNCHANGED <<Winner, loop, Score, roster, cleanedUp>>
        /\ (GameReady' /\ ~CountdownStarted') \/ (~GameReady' /\ CountdownStarted')
    BY <1>7, <2>1 DEF CountdownTick, roundVars, endVars, doneVars
  <2> QED
    BY <2>1, <2>2 DEF M!Serve, M!vars, Intact
<1>8. RangeEnds => cleanedUp'
  BY DEF RangeEnds, endVars, doneVars
<1>9. HandleGameEnd => cleanedUp'
  BY <1>1 DEF HandleGameEnd, Control
<1>10. HostLeaves => ~Intact'
  BY PlayerFacts DEF HostLeaves, Intact
<1>11. Cleanup \/ ShutdownGame => cleanedUp'
  BY DEF Cleanup, ShutdownGame
<1>12. TimerFires \/ OnReadyTimeout \/ CountdownQuits \/ Engine \/ Distributor \/ RoomCancelled
       => UNCHANGED Seen
  <2> USE DEF Seen, readyVars, roundVars, endVars, doneVars
  <2>1. TimerFires \/ OnReadyTimeout \/ CountdownQuits => UNCHANGED Seen
    BY DEF TimerFires, OnReadyTimeout, CountdownQuits
  <2>2. Engine \/ Distributor \/ RoomCancelled => UNCHANGED Seen
    BY DEF Engine, LateResult, EngineQuits, Distributor, CloseFeeds, DistributorQuits, RoomCancelled
  <2> QED
    BY <2>1, <2>2
<1>13. ASSUME NEW p \in Players, PlayerStep(p) PROVE UNCHANGED Seen
  BY <1>13 DEF PlayerStep, SignalReadyToPlay, RoundWon, SenderEnds, SendFails, StreamBreaks, Seen,
               readyVars, roundVars, endVars, doneVars
<1>14. UNCHANGED vars => UNCHANGED Seen
  BY DEF vars, Seen, readyVars, roundVars, endVars, doneVars
<1>15. engine \in Players /\ M!Point(engine) => M!Next
  BY DEF M!Next
<1>16. PointScored \/ FinalPoint => engine \in Players
  BY DEF PointScored, FinalPoint
<1>17. M!Countdown \/ M!Serve => M!Next
  BY DEF M!Next
<1> HIDE DEF Phase
<1> QED
  BY <1>2, <1>3, <1>4, <1>5, <1>6, <1>7, <1>8, <1>9, <1>10, <1>11, <1>12, <1>13, <1>14, <1>15,
     <1>16, <1>17 DEF Next, Server, Loop, Counting, Lifecycle

(* For any winning score and countdown, and whatever goroutine runs when, the game's phase, points *)
(* and winner are those of Match until it is cleaned up or its host leaves.                       *)
THEOREM GameImplementsMatch == Spec => ImplementsMatch
<1>1. GameInv /\ [Next]_vars => [M!Next]_(M!vars)
  BY SoundStep, VoidStep DEF M!Next
<1> QED
  BY <1>1, MatchInit, GameInvHolds, PTL DEF Spec, ImplementsMatch, M!Spec
=============================================================================
