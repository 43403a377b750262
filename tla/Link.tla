-------------------------------- MODULE Link --------------------------------
(***************************************************************************)
(* The notification stream of one client, both ends: StartNtfnStream and   *)
(* the registrations it keeps on the server, and the client's loop, which  *)
(* reopens a lost stream and reads the rooms anew.  Neither end learns at  *)
(* once that the other is gone, so the handlers of several streams of the  *)
(* same client may run at the same time.                                   *)
(***************************************************************************)
EXTENDS Naturals, Sequences

CONSTANTS
    MaxStreams,     \* bound: streams the client opens
    MaxChanges      \* bound: times the player's ready flag is set

ASSUME LinkAssumption == MaxStreams \in Nat \ {0} /\ MaxChanges \in Nat

Streams == 1..MaxStreams

VARIABLES
    loop,       \* where the client's runNtfnLoop is
    cur,        \* the stream it reads, 0 before the first
    told,       \* the connection state the UI was told last
    isReady,    \* PongClient.isReady
    reread,     \* the flag in the rooms read anew, while the loop has them
    stopped,    \* the client's context was cancelled
    cut,        \* the streams whose connection is gone
    inbox,      \* the ready flags under way on each stream
    handler,    \* where each stream's StartNtfnStream is on the server
    active,     \* activeNtfnStreams: the stream whose cancel function is stored, or 0
    notifier,   \* the player's NotifierStream (Connected goes with it), or 0
    listed,     \* the player is in Server.users
    flags,      \* the values Player.Ready was given on the server; the last one counts
    untold,     \* the settings of the flag whose handler has not told the room yet
    calls,      \* the settings made by UnreadyGameStream calls that have not returned
    inRoom,     \* the player is in a waiting room, which lists him
    missed,     \* the flag was not told, or told out of order, and not read since (a ghost)
    met         \* streams whose handler ran beside another one (a ghost)

clientVars == <<loop, cur, told, isReady, reread, stopped>>
serverVars == <<handler, active, notifier, listed, met>>
roomVars == <<flags, untold, calls, inRoom>>
linkVars == <<clientVars, serverVars, roomVars, cut, inbox, missed>>

LinkTypeOK ==
    /\ loop \in {"none", "reading", "retrying", "syncing", "synced", "silent", "ended", "stuck"}
    /\ cur \in 0..MaxStreams
    /\ told \in BOOLEAN /\ isReady \in BOOLEAN /\ reread \in BOOLEAN /\ stopped \in BOOLEAN
    /\ cut \in SUBSET Streams /\ met \in SUBSET Streams
    /\ inbox \in [Streams -> Seq(BOOLEAN)]
    /\ handler \in [Streams -> {"none", "sent", "called", "stored", "known", "live", "ended",
                                "unlisted", "cleared", "gone"}]
    /\ active \in 0..MaxStreams /\ notifier \in 0..MaxStreams
    /\ listed \in BOOLEAN /\ inRoom \in BOOLEAN /\ missed \in BOOLEAN
    /\ flags \in Seq(BOOLEAN) /\ Len(flags) <= MaxChanges
    /\ untold \subseteq DOMAIN flags /\ calls \subseteq DOMAIN flags

\* Player.Ready, unset at first.
Ready == flags # <<>> /\ flags[Len(flags)]

Running(s) == handler[s] \notin {"none", "sent", "gone"}

LinkInit ==
    /\ loop = "none" /\ cur = 0 /\ told = FALSE /\ isReady = FALSE /\ reread = FALSE
    /\ stopped = FALSE
    /\ cut = {} /\ inbox = [s \in Streams |-> <<>>]
    /\ handler = [s \in Streams |-> "none"]
    /\ active = 0 /\ notifier = 0 /\ listed = FALSE /\ met = {}
    /\ flags = <<>> /\ untold = {} /\ calls = {} /\ inRoom \in BOOLEAN /\ missed = FALSE

----------------------------------------------------------------------------
(* The client. *)

\* golib's handleInitClient: a stream that cannot be opened makes it lock cmtx a second time.
InitClient ==
    /\ loop = "none"
    /\ \/ /\ loop' = "reading" /\ cur' = 1 /\ told' = TRUE
          /\ handler' = [handler EXCEPT ![1] = "sent"]
       \/ loop' = "stuck" /\ UNCHANGED <<cur, told, handler>>
    /\ UNCHANGED <<isReady, reread, stopped, cut, inbox, active, notifier, listed, met, roomVars,
                   missed>>

\* consumeNtfnStream: an ON_PLAYER_READY of this client.
Receive ==
    /\ loop = "reading" /\ inbox[cur] # <<>>
    /\ isReady' = Head(inbox[cur])
    /\ inbox' = [inbox EXCEPT ![cur] = Tail(@)]
    /\ UNCHANGED <<loop, cur, told, reread, stopped, cut, serverVars, roomVars, missed>>

\* The stream fails after what had arrived was read.
LoseStream ==
    /\ loop = "reading" /\ cur \in cut /\ inbox[cur] = <<>> /\ ~stopped
    /\ loop' = "retrying" /\ told' = FALSE
    /\ UNCHANGED <<cur, isReady, reread, stopped, cut, inbox, serverVars, roomVars, missed>>

\* Mutant: a failed attempt ends the loop.
RestartGivesUp ==
    /\ loop = "retrying" /\ ~stopped
    /\ loop' = "ended" /\ told' = FALSE
    /\ UNCHANGED <<cur, isReady, reread, stopped, cut, inbox, serverVars, roomVars, missed>>

\* restartNtfnStream: an attempt fails and the backoff grows ...
RestartFails ==
    /\ loop = "retrying" /\ ~stopped
    /\ told' = FALSE
    /\ UNCHANGED <<loop, cur, isReady, reread, stopped, cut, inbox, serverVars, roomVars, missed>>

\* ... or opens a stream, which does not wait for the server's handler.
RestartStream ==
    /\ loop = "retrying" /\ ~stopped /\ cur < MaxStreams
    /\ cur' = cur + 1
    /\ handler' = [handler EXCEPT ![cur + 1] = "sent"]
    /\ loop' = "syncing"
    /\ UNCHANGED <<told, isReady, reread, stopped, cut, inbox, active, notifier, listed, met,
                   roomVars, missed>>

\* Mutant: the flag of the rooms read anew is not taken over.
ResyncKeepsFlag ==
    /\ loop = "synced" /\ ~stopped
    /\ reread' = FALSE
    /\ told' = TRUE /\ loop' = "reading"
    /\ UNCHANGED <<cur, isReady, stopped, cut, inbox, serverVars, roomVars, missed>>

\* The rooms are read anew, maybe before the new stream is registered.
ReadRooms ==
    /\ loop = "syncing" /\ ~stopped
    /\ reread' = (inRoom /\ Ready) /\ loop' = "synced"
    /\ missed' = ((missed /\ inbox[cur] # <<>>) \/ (Ready /\ ~inRoom))
    /\ UNCHANGED <<cur, told, isReady, stopped, cut, inbox, serverVars, roomVars>>

\* Their answer is taken over, whatever happened meanwhile.
Resync ==
    /\ loop = "synced" /\ ~stopped
    /\ isReady' = reread /\ reread' = FALSE
    /\ told' = TRUE /\ loop' = "reading"
    /\ UNCHANGED <<cur, stopped, cut, inbox, serverVars, roomVars, missed>>

\* If that call fails the loop returns: nobody reads the new stream and nobody is told.
ResyncFails ==
    /\ loop \in {"syncing", "synced"} /\ ~stopped
    /\ loop' = "silent"
    /\ UNCHANGED <<cur, told, isReady, reread, stopped, cut, inbox, serverVars, roomVars, missed>>

\* CTStopClient, or a login under another name: the context is cancelled, and its streams with it.
StopClient ==
    /\ loop \notin {"none", "stuck"} /\ ~stopped
    /\ stopped' = TRUE
    /\ cut' = cut \cup 1..cur
    /\ UNCHANGED <<loop, cur, told, isReady, reread, inbox, serverVars, roomVars, missed>>

LoopEnds ==
    /\ stopped /\ loop \in {"reading", "retrying", "syncing", "synced"}
    /\ loop' = "ended"
    /\ UNCHANGED <<cur, told, isReady, reread, stopped, cut, inbox, serverVars, roomVars, missed>>

----------------------------------------------------------------------------
(* The connection. *)

\* It breaks: what was under way arrives up to some message.  The last stream is spared.
Break(s) ==
    /\ handler[s] # "none" /\ s \notin cut /\ s < MaxStreams
    /\ cut' = cut \cup {s}
    /\ \E n \in 0..Len(inbox[s]) : inbox' = [inbox EXCEPT ![s] = SubSeq(@, 1, n)]
    /\ UNCHANGED <<clientVars, serverVars, roomVars, missed>>

----------------------------------------------------------------------------
(* The server's handler of one stream. *)

Proceeds(s, from, to) == handler[s] = from /\ handler' = [handler EXCEPT ![s] = to]

Arrive(s) ==
    /\ \/ /\ Proceeds(s, "sent", "called")
          /\ LET others == {t \in Streams : Running(t)}
             IN met' = met \cup others \cup (IF others = {} THEN {} ELSE {s})
       \/ s \in cut /\ Proceeds(s, "sent", "gone") /\ UNCHANGED met
    /\ UNCHANGED <<clientVars, active, notifier, listed, roomVars, cut, inbox, missed>>

StoreCancel(s) ==
    /\ Proceeds(s, "called", "stored")
    /\ active' = s
    /\ UNCHANGED <<clientVars, notifier, listed, met, roomVars, cut, inbox, missed>>

OpenSession(s) ==
    /\ Proceeds(s, "stored", "known")
    /\ notifier' = s
    /\ UNCHANGED <<clientVars, active, listed, met, roomVars, cut, inbox, missed>>

\* Mutant: a player who is in a room already is not listed again.
ListNewcomer(s) ==
    /\ Proceeds(s, "known", "live")
    /\ listed' = (listed \/ ~inRoom)
    /\ UNCHANGED <<clientVars, active, notifier, met, roomVars, cut, inbox, missed>>

\* The player is listed, his room is told and his escrows are bound to him.
ListUser(s) ==
    /\ Proceeds(s, "known", "live")
    /\ listed' = TRUE
    /\ UNCHANGED <<clientVars, active, notifier, met, roomVars, cut, inbox, missed>>

\* The stream's context ends: a keepalive failed, or the client cancelled.
ContextEnds(s) ==
    /\ s \in cut
    /\ Proceeds(s, "live", "ended")
    /\ UNCHANGED <<clientVars, active, notifier, listed, met, roomVars, cut, inbox, missed>>

\* The deferred functions, which do not ask whose registration they remove.
Unlist(s) ==
    /\ Proceeds(s, "ended", "unlisted")
    /\ listed' = FALSE
    /\ UNCHANGED <<clientVars, active, notifier, met, roomVars, cut, inbox, missed>>

\* Mutant: the session keeps the finished stream.
SessionKeepsStream(s) ==
    /\ Proceeds(s, "unlisted", "cleared")
    /\ UNCHANGED <<clientVars, active, notifier, listed, met, roomVars, cut, inbox, missed>>

ClearSession(s) ==
    /\ Proceeds(s, "unlisted", "cleared")
    /\ notifier' = 0
    /\ UNCHANGED <<clientVars, active, listed, met, roomVars, cut, inbox, missed>>

DeleteCancel(s) ==
    /\ Proceeds(s, "cleared", "gone")
    /\ active' = 0
    /\ UNCHANGED <<clientVars, notifier, listed, met, roomVars, cut, inbox, missed>>

----------------------------------------------------------------------------
(* The player's ready flag on the server, and who is told of it. *)

SetReady(b) == flags' = Append(flags, b) /\ Len(flags) < MaxChanges

\* Player.Ready is set under the player's lock: StartGameStream sets it in a room, the stream's
\* end and the game's end clear it anywhere.
ChangeReady(b) ==
    /\ b => inRoom
    /\ SetReady(b)
    /\ untold' = untold \cup {Len(flags')}
    /\ UNCHANGED <<clientVars, serverVars, calls, inRoom, cut, inbox, missed>>

\* UnreadyGameStream, a call of the client, clears it in a room.
UnreadyGameStream ==
    /\ inRoom /\ loop \notin {"none", "stuck"}
    /\ SetReady(FALSE)
    /\ untold' = untold \cup {Len(flags')} /\ calls' = calls \cup {Len(flags')}
    /\ UNCHANGED <<clientVars, serverVars, inRoom, cut, inbox, missed>>

\* Afterwards, and with no lock, that handler tells the players of the room.  A word that comes
\* behind a later one, or not on the stream the client reads, may leave the client mistaken.
NotifyReady(n) ==
    /\ n \in untold /\ untold' = untold \ {n}
    /\ IF inRoom /\ notifier # 0 /\ notifier \notin cut
       THEN /\ inbox' = [inbox EXCEPT ![notifier] = Append(@, flags[n])]
            /\ missed' = (missed \/ notifier # cur \/ ~(n + 1..Len(flags) \subseteq untold))
       ELSE missed' = TRUE /\ UNCHANGED inbox
    /\ UNCHANGED <<clientVars, serverVars, flags, calls, inRoom, cut>>

\* RefUnreadyGameStream: after the answer the client clears its own flag, whatever it has heard.
UnreadyReturns(n) ==
    /\ n \in calls \ untold
    /\ calls' = calls \ {n}
    /\ \/ isReady' = FALSE /\ missed' = (missed \/ Ready)
       \/ UNCHANGED <<isReady, missed>>     \* the call failed on its way
    /\ UNCHANGED <<loop, cur, told, reread, stopped, serverVars, flags, untold, inRoom, cut,
                   inbox>>

\* SignalReadyToPlay of the last player of a game: he is told "ready" and no flag is set.
\* Bound: while nothing else is on its way to him.
AllPlayersReady ==
    /\ notifier # 0 /\ notifier \notin cut /\ inbox[notifier] = <<>>
    /\ inbox' = [inbox EXCEPT ![notifier] = <<TRUE>>]
    /\ missed' = (missed \/ ~Ready)
    /\ UNCHANGED <<clientVars, serverVars, roomVars, cut>>

\* He leaves the room, or it goes; a game's end and a host's leaving clear his flag with no word.
LeaveRoom ==
    /\ inRoom /\ inRoom' = FALSE
    /\ \/ UNCHANGED <<flags, missed>>
       \/ SetReady(FALSE) /\ missed' = TRUE
    /\ UNCHANGED <<clientVars, serverVars, untold, calls, cut, inbox>>

\* He makes or joins another one.
EnterRoom ==
    /\ ~inRoom /\ loop \notin {"none", "stuck"}
    /\ inRoom' = TRUE
    /\ UNCHANGED <<clientVars, serverVars, flags, untold, calls, cut, inbox, missed>>

ClientStep ==
    \/ InitClient \/ Receive \/ LoseStream \/ RestartStream \/ LoopEnds

HandlerStep(s) ==
    \/ Arrive(s) \/ StoreCancel(s) \/ OpenSession(s) \/ ListUser(s)
    \/ ContextEnds(s) \/ Unlist(s) \/ ClearSession(s) \/ DeleteCancel(s)

LinkNext ==
    \/ ClientStep \/ RestartFails \/ ReadRooms \/ Resync \/ ResyncFails \/ StopClient
    \/ (\E b \in BOOLEAN : ChangeReady(b)) \/ UnreadyGameStream \/ AllPlayersReady
    \/ (\E n \in untold : NotifyReady(n)) \/ (\E n \in calls : UnreadyReturns(n))
    \/ LeaveRoom \/ EnterRoom
    \/ \E s \in Streams : Break(s) \/ HandlerStep(s)

\* The loop and the handlers run; an attempt to reconnect is made again until it succeeds; the
\* call for the rooms returns; keepalives find a broken connection.
LinkFairness ==
    /\ WF_linkVars(ClientStep)
    /\ WF_linkVars(ReadRooms \/ Resync)
    /\ \A s \in Streams : WF_linkVars(HandlerStep(s))

LinkSpec == LinkInit /\ [][LinkNext]_linkVars /\ LinkFairness

----------------------------------------------------------------------------
(* No registration outlives the handlers: once none of the client's streams has one, nobody is  *)
(* listed, no session holds a finished stream and no cancel function is kept.                   *)
NothingOutlivesHandlers ==
    (\A s \in Streams : ~Running(s)) => active = 0 /\ notifier = 0 /\ ~listed

(* A client whose handler ran alone from its start is registered everywhere, so broadcasts, bet *)
(* updates and the shutdown reach it; beside another handler, the end of the older one removes  *)
(* what the newer one registered.                                                               *)
AloneIsRegistered ==
    \A s \in Streams \ met :
        handler[s] = "live" => listed /\ notifier = s /\ active = s

(* A client that has read all that was sent, while no handler has still to tell of a setting,   *)
(* has the ready flag the server has, across any number of lost streams and overlapping         *)
(* handlers: what it was not told, or told out of order, is right again once it reads the rooms. *)
ReadyIsInSync ==
    loop = "reading" /\ cur \notin cut /\ inbox[cur] = <<>> /\ untold = {} /\ ~missed
        => isReady = Ready

(* Once connections stop breaking, the client reads a stream the server serves and its UI says  *)
(* so, unless it was stopped, could not be started, or the call for the rooms failed.           *)
LinkSettles ==
    <>[](\/ stopped
         \/ loop \in {"stuck", "silent"}
         \/ loop = "reading" /\ told /\ handler[cur] = "live")
=============================================================================
