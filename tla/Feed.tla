-------------------------------- MODULE Feed --------------------------------
(***************************************************************************)
(* The game stream of a client: RefStartGameStream replaces the stream it  *)
(* remembers, handleGameStream reads one until it ends, and each forgets   *)
(* it if it is still the one remembered.  Commands run concurrently.       *)
(***************************************************************************)
EXTENDS Naturals

CONSTANT Starts         \* the calls of RefStartGameStream
CONSTANT NoStream       \* no stream remembered

ASSUME FeedAssumption == NoStream \notin Starts

VARIABLES
    call,       \* where each call and the goroutine it starts are
    ref,        \* streamCtx, streamCancel: the call whose stream is remembered
    dead,       \* the calls whose context is cancelled
    closed,     \* the client was closed
    paired      \* calls that overlapped another one (a ghost)

feedVars == <<call, ref, dead, closed, paired>>

FeedTypeOK ==
    /\ call \in [Starts -> {"none", "stopped", "opened", "reading", "waiting", "ended",
                            "forgotten", "done"}]
    /\ ref \in Starts \cup {NoStream}
    /\ dead \subseteq Starts /\ paired \subseteq Starts
    /\ closed \in BOOLEAN

FeedInit ==
    /\ call = [c \in Starts |-> "none"]
    /\ ref = NoStream /\ dead = {} /\ closed = FALSE /\ paired = {}

Starting(c) == call[c] \in {"stopped", "opened"}
Moves(c, from, to) == call[c] = from /\ call' = [call EXCEPT ![c] = to]

\* Mutant: a stream that is not there is cancelled too.
StopUnchecked ==
    /\ ref' = NoStream
    /\ dead' = dead \cup {ref}

\* stopGameStream: the remembered stream is forgotten and cancelled.
StopGameStream ==
    /\ ref' = NoStream
    /\ dead' = dead \cup ({ref} \ {NoStream})

StartGameStream(c) ==
    /\ ~closed
    /\ Moves(c, "none", "stopped")
    /\ StopGameStream
    /\ LET others == {d \in Starts : Starting(d)}
       IN paired' = paired \cup others \cup (IF others = {} THEN {} ELSE {c})
    /\ UNCHANGED closed

\* The call to the server succeeds, or fails and the new context is cancelled.
OpenStream(c) ==
    /\ \/ ~closed /\ Moves(c, "stopped", "opened") /\ UNCHANGED dead
       \/ Moves(c, "stopped", "done") /\ dead' = dead \cup {c}
    /\ UNCHANGED <<ref, closed, paired>>

RememberStream(c) ==
    /\ Moves(c, "opened", "reading")
    /\ ref' = c
    /\ UNCHANGED <<dead, closed, paired>>

\* Recv fails: the context is cancelled, the server has ended the stream, or the transport closed,
\* after which the goroutine reopens the stream under the same context until that works.
ReceiveFails(c) ==
    /\ \/ Moves(c, "reading", "ended")
       \/ c \notin dead /\ Moves(c, "reading", "waiting")
       \/ c \notin dead /\ Moves(c, "waiting", "reading")
       \/ c \in dead /\ Moves(c, "waiting", "ended")
    /\ UNCHANGED <<ref, dead, closed, paired>>

\* Mutant: the stream is forgotten whoever's it is.
ForgetAnyStream(c) ==
    /\ Moves(c, "ended", "forgotten")
    /\ ref' = NoStream
    /\ UNCHANGED <<dead, closed, paired>>

\* clearStreamRefs, then the deferred cancel.
ClearStreamRefs(c) ==
    /\ Moves(c, "ended", "forgotten")
    /\ ref' = IF ref = c THEN NoStream ELSE ref
    /\ UNCHANGED <<dead, closed, paired>>

CancelStream(c) ==
    /\ Moves(c, "forgotten", "done")
    /\ dead' = dead \cup {c}
    /\ UNCHANGED <<ref, closed, paired>>

\* Close stops the game stream and cancels the client's context.
CloseClient ==
    /\ ~closed
    /\ closed' = TRUE
    /\ ref' = NoStream
    /\ dead' = Starts
    /\ UNCHANGED <<call, paired>>

FeedNext ==
    \/ CloseClient
    \/ \E c \in Starts :
        \/ StartGameStream(c)
        \/ OpenStream(c)
        \/ RememberStream(c)
        \/ ReceiveFails(c)
        \/ ClearStreamRefs(c)
        \/ CancelStream(c)

FeedSpec == FeedInit /\ [][FeedNext]_feedVars

(* A game stream that is being read and was not cancelled is the one the client remembers and   *)
(* can cancel, so a client reads one stream at a time: only calls that overlapped can leave a   *)
(* second one behind, and the late end of an old stream never makes it forget the new one.      *)
ReadStreamIsRemembered ==
    \A c \in Starts \ paired :
        call[c] \in {"reading", "waiting"} /\ c \notin dead => ref = c
=============================================================================
