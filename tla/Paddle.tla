------------------------------- MODULE Paddle -------------------------------
(***************************************************************************)
(* From a key of the terminal client to its paddle.  A terminal reports no *)
(* release, so a timer makes one up.  Each input is a call of its own: the *)
(* presses are sent after the lock is given up, the releases under it, and *)
(* they meet in the game's input queue, which the opponent fills as well.  *)
(* (handleGameInput and Update of cmd/pongclient/ui.go, RefSendInput,      *)
(* HandlePlayerInput of ponggame/game.go, NewRound of ponggame/engine.go)  *)
(***************************************************************************)
EXTENDS Naturals, Sequences

CONSTANTS
    InputCap,   \* INPUT_BUF_SIZE
    MaxCalls,   \* bound: presses under way at a time
    MaxDue      \* bound: callbacks of a key's timers waiting for the lock

ASSUME PaddleAssumption == InputCap \in Nat \ {0} /\ MaxCalls \in Nat /\ MaxDue \in Nat

Up == "up"
Down == "down"
NoDir == "none"
Dirs == {Up, Down}
Other(d) == IF d = Up THEN Down ELSE Up
Presses == 1..MaxCalls      \* the goroutines of handled key messages

VARIABLES
    pressed,    \* upKeyPressed, downKeyPressed
    armed,      \* the key's last timer is still to fire
    due,        \* timers of the key that have fired and wait for the lock
    lock,       \* appstate's mutex: "free", or its holder sends a release: for a timer, or
                \* before it presses the other key, "toUp" or "toDown"
    escape,     \* the key whose release Escape is sending, NoDir if none
    sending,    \* the SendInput under way for each sender
    inputch,    \* the game's input queue
    vel,        \* the direction in which the paddle moves
    slipped     \* ghost: a release overtook its press, was dropped or its call failed, or Escape
                \* undid a newer press

paddleVars == <<pressed, armed, due, lock, escape, sending, inputch, vel, slipped>>
keyVars == <<pressed, armed, due, lock, escape>>

Go(d) == [stop |-> FALSE, dir |-> d]        \* "ArrowUp", "ArrowDown"
Halt(d) == [stop |-> TRUE, dir |-> d]       \* "ArrowUpStop", "ArrowDownStop"
Foe == [stop |-> FALSE, dir |-> NoDir]          \* an input of the opponent
Inputs == {Go(d) : d \in Dirs} \cup {Halt(d) : d \in Dirs} \cup {Foe}

Holder == MaxCalls + 1      \* the goroutine that holds the lock
Escaper == MaxCalls + 2     \* Update
Opponent == MaxCalls + 3
Senders == 1..Opponent

Idle == [at |-> "idle", input |-> Foe]
Sent(input) == [at |-> "sent", input |-> input]

PaddleTypeOK ==
    /\ pressed \in [Dirs -> BOOLEAN] /\ armed \in [Dirs -> BOOLEAN] /\ due \in [Dirs -> 0..MaxDue]
    /\ lock \in {"free", "timer", "toUp", "toDown"}
    /\ escape \in Dirs \cup {NoDir}
    /\ sending \in [Senders -> [at : {"idle", "sent", "full", "popped"}, input : Inputs]]
    /\ inputch \in Seq(Inputs) /\ Len(inputch) <= InputCap
    /\ vel \in Dirs \cup {NoDir}
    /\ slipped \in BOOLEAN

PaddleInit ==
    /\ pressed = [d \in Dirs |-> FALSE] /\ armed = pressed /\ due = [d \in Dirs |-> 0]
    /\ lock = "free" /\ escape = NoDir
    /\ sending = [s \in Senders |-> Idle]
    /\ inputch = <<>> /\ vel = NoDir
    /\ slipped = FALSE

Switching(d) == IF d = Up THEN "toUp" ELSE "toDown"
IsIdle(s) == sending[s] = Idle
Free == {p \in Presses : IsIdle(p)}
\* The next goroutine, whatever its number.
SendGo(d) == sending' = [sending EXCEPT ![CHOOSE p \in Free : TRUE] = Sent(Go(d))]

----------------------------------------------------------------------------
(* The terminal client *)

\* Mutant: the other key is forgotten, not released.
PressOver(d) ==
    /\ lock = "free" /\ Free # {} /\ ~pressed[d]
    /\ pressed' = [pressed EXCEPT ![d] = TRUE, ![Other(d)] = FALSE]
    /\ armed' = [armed EXCEPT ![d] = TRUE, ![Other(d)] = FALSE]
    /\ SendGo(d)
    /\ slipped' = (slipped \/ escape = d)
    /\ UNCHANGED <<due, lock, escape, inputch, vel>>

\* A key that counts as pressed is not pressed again.  Its new timer replaces the one before;
\* the other key is released first.
Press(d) ==
    /\ lock = "free" /\ Free # {} /\ ~pressed[d]
    /\ pressed' = [pressed EXCEPT ![d] = TRUE]
    /\ armed' = [armed EXCEPT ![d] = TRUE]
    /\ IF pressed[Other(d)]
       THEN lock' = Switching(d) /\ sending' = [sending EXCEPT ![Holder] = Sent(Halt(Other(d)))]
       ELSE lock' = lock /\ SendGo(d)
    /\ slipped' = (slipped \/ escape = d)
    /\ UNCHANGED <<due, escape, inputch, vel>>

\* The release of the other key has been sent: its timer is stopped and the press of d goes out.
Switched(d) ==
    /\ lock = Switching(d) /\ IsIdle(Holder) /\ Free # {}
    /\ lock' = "free"
    /\ pressed' = [pressed EXCEPT ![Other(d)] = FALSE]
    /\ armed' = [armed EXCEPT ![Other(d)] = FALSE]
    /\ SendGo(d)
    /\ UNCHANGED <<due, escape, inputch, vel, slipped>>

TimerFires(d) ==
    /\ armed[d] /\ due[d] < MaxDue
    /\ armed' = [armed EXCEPT ![d] = FALSE]
    /\ due' = [due EXCEPT ![d] = @ + 1]
    /\ UNCHANGED <<pressed, lock, escape, sending, inputch, vel, slipped>>

\* The callback cannot tell which press it was for.
AutoRelease(d) ==
    /\ lock = "free" /\ due[d] > 0
    /\ due' = [due EXCEPT ![d] = @ - 1]
    /\ IF pressed[d]
       THEN /\ pressed' = [pressed EXCEPT ![d] = FALSE]
            /\ lock' = "timer" /\ sending' = [sending EXCEPT ![Holder] = Sent(Halt(d))]
       ELSE UNCHANGED <<pressed, lock, sending>>
    /\ UNCHANGED <<armed, escape, inputch, vel, slipped>>

AutoReleased ==
    /\ lock = "timer" /\ IsIdle(Holder)
    /\ lock' = "free"
    /\ UNCHANGED <<pressed, armed, due, escape, sending, inputch, vel, slipped>>

\* Update releases the keys without the lock, up before down.
Escape ==
    /\ escape = NoDir
    /\ \E d \in Dirs :
         /\ pressed[d] /\ (d = Down => ~pressed[Up])
         /\ escape' = d
         /\ sending' = [sending EXCEPT ![Escaper] = Sent(Halt(d))]
    /\ UNCHANGED <<pressed, armed, due, lock, inputch, vel, slipped>>

Escaped ==
    /\ escape # NoDir /\ IsIdle(Escaper)
    /\ pressed' = [pressed EXCEPT ![escape] = FALSE]
    /\ IF escape = Up /\ pressed[Down]
       THEN escape' = Down /\ sending' = [sending EXCEPT ![Escaper] = Sent(Halt(Down))]
       ELSE escape' = NoDir /\ sending' = sending
    /\ UNCHANGED <<armed, due, lock, inputch, vel, slipped>>

\* RefSendInput fails on its way: the error is logged or ignored, nothing is sent again and the
\* sender goes on.  A release given up while the server has it counts as lost, too; a press that
\* has reached the server goes on there.
CallFails(s) ==
    /\ sending[s].at = "sent" \/ (~IsIdle(s) /\ sending[s].input.stop)
    /\ sending' = [sending EXCEPT ![s] = Idle]
    /\ slipped' = (slipped \/ sending[s].input.stop)
    /\ UNCHANGED <<keyVars, inputch, vel>>

----------------------------------------------------------------------------
(* The server *)

OpponentSends ==
    /\ IsIdle(Opponent)
    /\ IF Len(inputch) < InputCap
       THEN inputch' = Append(inputch, Foe) /\ sending' = sending
       ELSE sending' = [sending EXCEPT ![Opponent] = [at |-> "full", input |-> Foe]] /\ inputch' = inputch
    /\ UNCHANGED <<keyVars, vel, slipped>>

\* A release is early when its press is still on the way.
Early(input) ==
    input.stop /\ \/ lock = Switching(input.dir)
                  \/ \E p \in Presses : sending[p].at # "idle" /\ sending[p].input = Go(input.dir)

Enqueue(s) ==
    /\ inputch' = Append(inputch, sending[s].input)
    /\ sending' = [sending EXCEPT ![s] = Idle]
    /\ slipped' = (slipped \/ Early(sending[s].input))

\* HandlePlayerInput: the input fits, or the queue is found full,
PutInput(s) ==
    /\ sending[s].at = "sent"
    /\ IF Len(inputch) < InputCap
       THEN Enqueue(s)
       ELSE sending' = [sending EXCEPT ![s].at = "full"] /\ UNCHANGED <<inputch, slipped>>
    /\ UNCHANGED <<keyVars, vel>>

\* ... its oldest entry is dropped, if it has one by now,
DropOldest(s) ==
    /\ sending[s].at = "full"
    /\ sending' = [sending EXCEPT ![s].at = "popped"]
    /\ IF inputch = <<>> THEN UNCHANGED <<inputch, slipped>>
       ELSE inputch' = Tail(inputch) /\ slipped' = (slipped \/ Head(inputch).stop)
    /\ UNCHANGED <<keyVars, vel>>

\* ... and the input is tried once more.
TryAgain(s) ==
    /\ sending[s].at = "popped"
    /\ IF Len(inputch) < InputCap
       THEN Enqueue(s)
       ELSE /\ sending' = [sending EXCEPT ![s] = Idle]
            /\ slipped' = (slipped \/ sending[s].input.stop)
            /\ inputch' = inputch
    /\ UNCHANGED <<keyVars, vel>>

\* The engine: a stop ends only a movement in its own direction.
ReadInput ==
    /\ inputch # <<>>
    /\ LET in == Head(inputch) IN
         vel' = CASE in = Foe -> vel
                  [] in # Foe /\ ~in.stop -> in.dir
                  [] in.stop -> IF vel = in.dir THEN NoDir ELSE vel
    /\ inputch' = Tail(inputch)
    /\ UNCHANGED <<keyVars, sending, slipped>>

\* reset of a new round
StopPaddle ==
    /\ vel' = NoDir
    /\ UNCHANGED <<keyVars, sending, inputch, slipped>>

Serve(s) == PutInput(s) \/ DropOldest(s) \/ TryAgain(s)

PaddleNext ==
    \/ \E d \in Dirs : Press(d) \/ Switched(d) \/ TimerFires(d) \/ AutoRelease(d)
    \/ AutoReleased \/ Escape \/ Escaped \/ OpponentSends \/ ReadInput \/ StopPaddle
    \/ \E s \in Senders : Serve(s) \/ CallFails(s)

PaddleSpec == PaddleInit /\ [][PaddleNext]_paddleVars

----------------------------------------------------------------------------
(* Once no key counts as pressed and every input has been read, the paddle stands still: no     *)
(* order of timers, callbacks and calls, and no press that fails, leaves it moving, unless a    *)
(* release came before its press, was dropped by the queue or failed, which nothing repairs, or *)
(* Escape, which takes no lock, cleared the flag of a newer press.                              *)
PaddleRests ==
    LET quiet == /\ lock = "free" /\ escape = NoDir /\ \A d \in Dirs : ~pressed[d]
                 /\ \A s \in Senders \ {Opponent} : IsIdle(s)
                 /\ \A i \in DOMAIN inputch : inputch[i] = Foe
    IN quiet /\ ~slipped => vel = NoDir

(* Whichever timers fire late and however often the keys are switched, a key that counts as     *)
(* pressed has a timer still to fire or a callback still to run, so it will not count as pressed *)
(* for ever, which would make it dead: a press of it would be ignored.                          *)
PressIsTimed == \A d \in Dirs : pressed[d] => armed[d] \/ due[d] > 0
=============================================================================
