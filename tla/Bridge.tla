------------------------------- MODULE Bridge -------------------------------
(***************************************************************************)
(* Between the window of the graphical client and the client library: one  *)
(* queue carries the results of commands, the notifications and the frames *)
(* to whichever loop reads it (pongui/golib/commands.go, the forwarding    *)
(* goroutine of handleInitClient, and the plugin of the window).           *)
(*                                                                         *)
(* On a phone the window's engine may go and another come in the same      *)
(* process.  Each has a loop of its own and numbers its calls from one,    *)
(* and the calls of the engine that is gone go on.  A loop that was told   *)
(* to stop may still take a result: Go picks at random among the cases     *)
(* that are ready.  The switch that makes the loop of a paused window post *)
(* notifications as well is left out.                                      *)
(***************************************************************************)
EXTENDS Naturals, Sequences

CONSTANTS
    ResultCap,      \* capacity of cmdResultChan (200)
    MaxEngines,     \* bound: engines of the window
    MaxCommands,    \* bound: calls of one engine
    MaxNotes        \* bound: notifications

ASSUME BridgeAssumption ==
    /\ ResultCap \in Nat \ {0} /\ MaxEngines \in Nat \ {0}
    /\ MaxCommands \in Nat /\ MaxNotes \in Nat

Engines == 1..MaxEngines
Commands == Engines \X (1..MaxCommands)     \* a call of an engine, by its number
NoCommand == <<0, 0>>

\* The loop of an engine, and the one that replaces it while no engine is attached.
Background(e) == MaxEngines + e
Readers == 1..(2 * MaxEngines - 1)

AnswerTo(c) == [of |-> "answer", command |-> c, note |-> 0]
NoteResult(n) == [of |-> "note", command |-> NoCommand, note |-> n]
Frame == [of |-> "frame", command |-> NoCommand, note |-> 0]
Nothing == [of |-> "nothing", command |-> NoCommand, note |-> 0]
Results == {AnswerTo(c) : c \in Commands} \cup {NoteResult(n) : n \in 1..MaxNotes} \cup {Frame}

VARIABLES
    engine,     \* the last engine
    attached,   \* it is still there
    listening,  \* its stream of results is listened to
    command,    \* the goroutine of each call
    answeredBy, \* the call whose result completed each call
    results,    \* cmdResultChan
    reader,     \* each loop: "none", "on", "told" to stop, "over"
    hand,       \* the result the loop of the attached engine has taken
    notes,      \* the notifications the client library has sent so far
    shown,      \* the notifications each engine has handled
    orphans,    \* calls whose results were still to come when their engine went (a ghost)
    robbed      \* results that a loop took after it was told to stop (a ghost)

windowVars == <<engine, attached, listening, orphans>>
readerVars == <<reader, hand, robbed>>
bridgeVars == <<windowVars, readerVars, notes, command, answeredBy, results, shown>>

BridgeTypeOK ==
    /\ engine \in Engines /\ attached \in BOOLEAN /\ listening \in BOOLEAN
    /\ command \in [Commands -> {"none", "running", "put"}]
    /\ answeredBy \in [Commands -> Commands \cup {NoCommand}]
    /\ results \in Seq(Results) /\ Len(results) <= ResultCap
    /\ reader \in [Readers -> {"none", "on", "told", "over"}]
    /\ hand \in Results \cup {Nothing}
    /\ notes \in 0..MaxNotes
    /\ shown \in [Engines -> Seq(1..MaxNotes)]
    /\ orphans \subseteq Commands /\ robbed \subseteq Results

Open(c) == command[c] # "none" /\ answeredBy[c] = NoCommand
Coming(c) == command[c] = "running" \/ \E i \in DOMAIN results : results[i] = AnswerTo(c)

BridgeInit ==
    /\ engine = 1 /\ attached = TRUE /\ listening = FALSE /\ orphans = {}
    /\ command = [c \in Commands |-> "none"]
    /\ answeredBy = [c \in Commands |-> NoCommand]
    /\ results = <<>>
    /\ reader = [r \in Readers |-> IF r = 1 THEN "on" ELSE "none"]
    /\ hand = Nothing /\ robbed = {}
    /\ notes = 0
    /\ shown = [e \in Engines |-> <<>>]

----------------------------------------------------------------------------
(* The window *)

\* StopAllCmdResultLoops, then perhaps a new loop.
Told(r) == IF reader[r] = "on" THEN "told" ELSE reader[r]
StopReaders == reader' = [r \in Readers |-> Told(r)]
ReplaceReaders(new) == reader' = [r \in Readers |-> IF r = new THEN "on" ELSE Told(r)]

\* onDetachedFromEngine: with notifications enabled, a loop that posts them takes over.
\* Bound: the last engine stays.
Detach ==
    /\ attached /\ engine < MaxEngines
    /\ attached' = FALSE /\ listening' = FALSE
    /\ orphans' = orphans \cup {c \in Commands : Coming(c)}
    /\ StopReaders \/ ReplaceReaders(Background(engine))
    /\ hand' = Nothing      \* handed over to nobody
    /\ UNCHANGED <<engine, robbed, notes, command, answeredBy, results, shown>>

Attach ==
    /\ ~attached
    /\ attached' = TRUE
    /\ engine' = engine + 1
    /\ ReplaceReaders(engine')
    /\ UNCHANGED <<listening, orphans, hand, robbed, notes, command, answeredBy, results,
                   shown>>

\* readAsyncResults: until then the results the loop hands over go nowhere.
Listen ==
    /\ attached /\ ~listening
    /\ listening' = TRUE
    /\ UNCHANGED <<engine, attached, orphans, readerVars, notes, command, answeredBy,
                   results, shown>>

\* asyncCall: the next number of the engine, and a goroutine.
AsyncCall(i) ==
    LET c == <<engine, i>> IN
    /\ listening
    /\ command[c] = "none" /\ \A j \in 1..(i - 1) : command[<<engine, j>>] # "none"
    /\ command' = [command EXCEPT ![c] = "running"]
    /\ UNCHANGED <<windowVars, readerVars, notes, answeredBy, results, shown>>

----------------------------------------------------------------------------
(* The library *)

HasRoom == Len(results) < ResultCap

\* Mutant: a result that does not fit is dropped like a frame.
PutOrDrop(c) ==
    /\ command[c] = "running"
    /\ command' = [command EXCEPT ![c] = "put"]
    /\ results' = IF HasRoom THEN Append(results, AnswerTo(c)) ELSE results
    /\ UNCHANGED <<windowVars, readerVars, notes, answeredBy, shown>>

\* The call is over, and its goroutine has waited until the result fits.
PutAnswer(c) ==
    /\ command[c] = "running" /\ HasRoom
    /\ command' = [command EXCEPT ![c] = "put"]
    /\ results' = Append(results, AnswerTo(c))
    /\ UNCHANGED <<windowVars, readerVars, notes, answeredBy, shown>>

\* The forwarder takes the next notification of the client and waits likewise.
PutNote ==
    /\ notes < MaxNotes /\ HasRoom
    /\ notes' = notes + 1
    /\ results' = Append(results, NoteResult(notes'))
    /\ UNCHANGED <<windowVars, readerVars, command, answeredBy, shown>>

\* A frame that does not fit is dropped.
PutFrame ==
    /\ HasRoom
    /\ results' = Append(results, Frame)
    /\ UNCHANGED <<windowVars, readerVars, notes, command, answeredBy, shown>>

----------------------------------------------------------------------------
(* The loops *)

Served(r) == attached /\ r = engine

Take ==
    /\ attached /\ hand = Nothing /\ results # <<>>
    /\ hand' = Head(results)
    /\ results' = Tail(results)
    /\ UNCHANGED <<windowVars, reader, robbed, notes, command, answeredBy, shown>>

\* Another loop: a notification is posted, and anything else goes nowhere.
TakeAway(r) ==
    /\ reader[r] \in {"on", "told"} /\ ~Served(r) /\ results # <<>>
    /\ results' = Tail(results)
    /\ robbed' = IF reader[r] = "told" /\ Head(results) # Frame
                 THEN robbed \cup {Head(results)} ELSE robbed
    /\ UNCHANGED <<windowVars, reader, hand, notes, command, answeredBy, shown>>

\* The window completes the call that has the result's number, whoever made it, if it waits.
Completed(c) ==
    LET mine == <<engine, c[2]>>
    IN IF Open(mine) THEN [answeredBy EXCEPT ![mine] = c] ELSE answeredBy

HandOver ==
    /\ hand # Nothing
    /\ hand' = Nothing
    /\ answeredBy' = IF listening /\ hand.of = "answer" THEN Completed(hand.command)
                     ELSE answeredBy
    /\ shown' = IF listening /\ hand.of = "note"
                THEN [shown EXCEPT ![engine] = Append(@, hand.note)] ELSE shown
    /\ UNCHANGED <<windowVars, reader, robbed, notes, command, results>>

ReaderStops(r) ==
    /\ reader[r] = "told"
    /\ reader' = [reader EXCEPT ![r] = "over"]
    /\ UNCHANGED <<windowVars, hand, robbed, notes, command, answeredBy, results, shown>>

BridgeNext ==
    \/ Detach \/ Attach \/ Listen
    \/ \E i \in 1..MaxCommands : AsyncCall(i)
    \/ \E c \in Commands : PutAnswer(c)
    \/ PutNote \/ PutFrame
    \/ Take \/ HandOver
    \/ \E r \in Readers : TakeAway(r) \/ ReaderStops(r)

BridgeSpec == BridgeInit /\ [][BridgeNext]_bridgeVars

----------------------------------------------------------------------------
\* A result is still to reach the window of the engine.
OnItsWay(result) ==
    \/ \E i \in DOMAIN results : results[i] = result
    \/ hand = result

(* However slowly results are read, and whatever loops and engines came before: a call of the   *)
(* window that waits has its result computed, queued or in its own loop, unless a loop that was *)
(* told to stop has taken it; it is never completed by another call's result, unless by one     *)
(* that was still to come when the call's engine went; and the window handles notifications in  *)
(* order, and misses none between two of them but for those such a loop has taken.              *)
AnswersComeHome ==
    /\ \A c \in Commands : listening /\ c[1] = engine /\ Open(c) /\ AnswerTo(c) \notin robbed =>
          command[c] = "running" \/ OnItsWay(AnswerTo(c))
    /\ \A c \in Commands : answeredBy[c] \in {NoCommand, c} \cup orphans
    /\ \A e \in Engines : \A i \in 1..(Len(shown[e]) - 1) :
          LET missed == (shown[e][i] + 1)..(shown[e][i + 1] - 1)
          IN /\ shown[e][i] < shown[e][i + 1]
             /\ \A n \in missed : NoteResult(n) \in robbed
=============================================================================
