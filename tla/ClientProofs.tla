---------------------------- MODULE ClientProofs ----------------------------
(***************************************************************************)
(* What holds of a client's streams, logins and keys for any number of     *)
(* streams, calls, nonces, wallets, presses and engines: the registrations *)
(* of its notification stream, the game stream it remembers, the single    *)
(* use of a nonce, the keys of the terminal from a press to a paddle that  *)
(* stands still, and the results of the graphical client.                  *)
(***************************************************************************)
EXTENDS Link, Feed, Login, Paddle, Bridge, TLAPS

-----------------------------------------------------------------------------
(* The game stream. *)

Reading(c) == call[c] \in {"reading", "waiting"}

\* While a call is starting, the streams of calls that overlapped none are cancelled.
FeedInv ==
    /\ FeedTypeOK
    /\ ReadStreamIsRemembered
    /\ \A d \in Starts : Starting(d) =>
          /\ \A c \in Starts \ paired : Reading(c) => c \in dead
          /\ \A e \in Starts : e # d /\ Starting(e) => d \in paired /\ e \in paired

LEMMA FeedInvInit == FeedInit => FeedInv
  BY DEF FeedInit, FeedInv, FeedTypeOK, ReadStreamIsRemembered, Starting, Reading

LEMMA FeedInvStep == FeedInv /\ [FeedNext]_feedVars => FeedInv'
<1> SUFFICES ASSUME FeedInv, [FeedNext]_feedVars PROVE FeedInv'
  OBVIOUS
<1> USE FeedAssumption DEF FeedInv, FeedTypeOK, Starting, Reading, ReadStreamIsRemembered
<1>1. CASE CloseClient
  BY <1>1 DEF CloseClient
<1>2. ASSUME NEW d \in Starts, StartGameStream(d) PROVE FeedInv'
  <2>1. FeedTypeOK'
    BY <1>2 DEF StartGameStream, StopGameStream, Moves
  <2>2. /\ call' = [call EXCEPT ![d] = "stopped"] /\ call[d] = "none"
        /\ dead' = dead \cup ({ref} \ {NoStream})
    BY <1>2 DEF StartGameStream, StopGameStream, Moves
  <2>3. /\ paired \subseteq paired'
        /\ \A e \in Starts : Starting(e) => e \in paired' /\ d \in paired'
    BY <1>2 DEF StartGameStream
  <2>4. \A c \in Starts \ paired' : Reading(c)' => c \in dead'
    BY <2>2, <2>3
  <2>5. \A e \in Starts : Starting(e)' => e = d \/ Starting(e)
    BY <2>2
  <2> QED
    BY <2>1, <2>2, <2>3, <2>4, <2>5
<1>3. ASSUME NEW d \in Starts, OpenStream(d) PROVE FeedInv'
  BY <1>3 DEF OpenStream, Moves
<1>4. ASSUME NEW d \in Starts, RememberStream(d) PROVE FeedInv'
  <2>1. FeedTypeOK'
    BY <1>4 DEF RememberStream, Moves
  <2>2. \A c \in Starts \ paired : c # d /\ Reading(c) => c \in dead
    BY <1>4 DEF RememberStream, Moves
  <2> QED
    BY <1>4, <2>1, <2>2 DEF RememberStream, Moves
<1>5. ASSUME NEW d \in Starts, ReceiveFails(d) PROVE FeedInv'
  BY <1>5 DEF ReceiveFails, Moves
<1>6. ASSUME NEW d \in Starts, ClearStreamRefs(d) PROVE FeedInv'
  BY <1>6 DEF ClearStreamRefs, Moves
<1>7. ASSUME NEW d \in Starts, CancelStream(d) PROVE FeedInv'
  BY <1>7 DEF CancelStream, Moves
<1>8. CASE UNCHANGED feedVars
  BY <1>8 DEF feedVars
<1> QED
  BY <1>1, <1>2, <1>3, <1>4, <1>5, <1>6, <1>7, <1>8 DEF FeedNext

(* For any calls of RefStartGameStream, a stream that is read, was not cancelled and whose call *)
(* overlapped no other is the one the client remembers (client/game.go).                        *)
THEOREM ReadStreamTheorem == FeedSpec => []ReadStreamIsRemembered
<1>1. FeedInv => ReadStreamIsRemembered
  BY DEF FeedInv
<1> QED
  BY <1>1, FeedInvInit, FeedInvStep, PTL DEF FeedSpec

-----------------------------------------------------------------------------
(* The logins. *)

\* The call has used up its nonce and was not refused.
HoldsNonce(a) == attempt[a] \in {"marked", "proved", "stored"} \/ a \in sessions

LoginInv ==
    /\ LoginTypeOK
    /\ NonceLogsInOnce
    /\ \A a \in Attempts : HoldsNonce(a) =>
          /\ nonces[nonceOf[a]] = "used"
          /\ \A b \in Attempts : HoldsNonce(b) /\ nonceOf[b] = nonceOf[a] => a = b
    /\ \A a \in sessions : attempt[a] \in {"stored", "answered"}
    /\ \A a \in Attempts : attempt[a] = "stored" => a \in sessions
    /\ \A a \in Attempts : attempt[a] \in {"proved", "stored"} => signer[a] = claimed[a]

LEMMA LoginInvInit == LoginInit => LoginInv
  BY DEF LoginInit, LoginInv, LoginTypeOK, NonceLogsInOnce, HoldsNonce

LEMMA LoginInvStep == LoginInv /\ [LoginNext]_loginVars => LoginInv'
<1> SUFFICES ASSUME LoginInv, [LoginNext]_loginVars PROVE LoginInv'
  OBVIOUS
<1> USE DEF LoginInv, LoginTypeOK, NonceLogsInOnce, HoldsNonce, Advances, Tell, fixed
<1>1. ASSUME NEW n \in Nonces, RequestNonce(n) PROVE LoginInv'
  BY <1>1 DEF RequestNonce
<1>2. ASSUME NEW n \in Nonces, Expire(n) PROVE LoginInv'
  BY <1>2 DEF Expire
<1>3. ASSUME NEW a \in Attempts, SendLogin(a) PROVE LoginInv'
  BY <1>3 DEF SendLogin
<1>4. ASSUME NEW a \in Attempts, UseNonce(a) PROVE LoginInv'
  BY <1>4 DEF UseNonce
<1>5. ASSUME NEW a \in Attempts, ProveKey(a) PROVE LoginInv'
  BY <1>5 DEF ProveKey
<1>6. ASSUME NEW a \in Attempts, StoreSession(a) PROVE LoginInv'
  BY <1>6 DEF StoreSession
<1>7. ASSUME NEW a \in Attempts, StoreKey(a) PROVE LoginInv'
  BY <1>7 DEF StoreKey
<1>8. ASSUME NEW a \in Attempts, TimeOut(a) PROVE LoginInv'
  BY <1>8 DEF TimeOut
<1>9. CASE UNCHANGED loginVars
  BY <1>9 DEF loginVars
<1> QED
  BY <1>1, <1>2, <1>3, <1>4, <1>5, <1>6, <1>7, <1>8, <1>9 DEF LoginNext

(* For any nonces, wallets and calls of VerifyLogin, one nonce makes one session at most, a     *)
(* call answered with success has its session and key, and every session is its signer's        *)
(* (server/auth.go).                                                                            *)
THEOREM NonceTheorem == LoginSpec => []NonceLogsInOnce
<1>1. LoginInv => NonceLogsInOnce
  BY DEF LoginInv
<1> QED
  BY <1>1, LoginInvInit, LoginInvStep, PTL DEF LoginSpec
-----------------------------------------------------------------------------
(* The notification stream. *)

Registering == {"stored", "known", "live", "ended", "unlisted", "cleared"}

\* What is registered is a running handler's, and a handler that runs alone finds it untouched.
RegistrationInv ==
    /\ active = 0 \/ (active \in Streams /\ handler[active] \in Registering)
    /\ notifier = 0 \/ (notifier \in Streams
                         /\ handler[notifier] \in {"known", "live", "ended", "unlisted"})
    /\ listed => \E s \in Streams : handler[s] \in {"live", "ended"}
    /\ \A s, t \in Streams : s # t /\ Running(s) /\ Running(t) => s \in met /\ t \in met
    /\ \A s \in Streams \ met :
          /\ handler[s] \in Registering => active = s
          /\ handler[s] \in {"known", "live", "ended", "unlisted"} => notifier = s
          /\ handler[s] \in {"live", "ended"} => listed

\* A client that reads has a stream to read.
HasStream == loop \in {"reading", "syncing", "synced"} => cur \in Streams

\* The server knows nothing of a stream that was not opened.
UnopenedInv ==
    /\ loop = "none" => cur = 0
    /\ \A s \in Streams : s > cur => handler[s] = "none"

LinkInv == LinkTypeOK /\ HasStream /\ UnopenedInv /\ RegistrationInv

\* The room's words: no handler's and no client's registration moves with them.
RoomStep ==
    \/ (\E b \in BOOLEAN : ChangeReady(b)) \/ UnreadyGameStream \/ AllPlayersReady
    \/ (\E n \in untold : NotifyReady(n)) \/ (\E n \in calls : UnreadyReturns(n))
    \/ LeaveRoom \/ EnterRoom

LEMMA LinkInvInit == LinkInit => LinkInv
<1> SUFFICES ASSUME LinkInit PROVE LinkInv
  OBVIOUS
<1>1. inbox \in [Streams -> Seq(BOOLEAN)]
  BY DEF LinkInit
<1>2. LinkTypeOK
  <2>1. told \in BOOLEAN /\ isReady \in BOOLEAN /\ stopped \in BOOLEAN /\ listed \in BOOLEAN
        /\ reread \in BOOLEAN /\ inRoom \in BOOLEAN /\ missed \in BOOLEAN
    BY DEF LinkInit
  <2>2. cur \in 0..MaxStreams /\ active \in 0..MaxStreams /\ notifier \in 0..MaxStreams
        /\ flags \in Seq(BOOLEAN) /\ Len(flags) <= MaxChanges /\ untold = {} /\ calls = {}
    BY LinkAssumption DEF LinkInit
  <2>3. cut \in SUBSET Streams /\ met \in SUBSET Streams /\ loop = "none"
        /\ handler = [s \in Streams |-> "none"]
    BY DEF LinkInit
  <2> QED
    BY <1>1, <2>1, <2>2, <2>3 DEF LinkTypeOK
<1>3. RegistrationInv
  BY DEF LinkInit, RegistrationInv, Running, Registering
<1>4. HasStream /\ UnopenedInv
  BY DEF LinkInit, HasStream, UnopenedInv
<1> QED
  BY <1>2, <1>3, <1>4 DEF LinkInv

\* One step of a handler moves that handler alone.
LEMMA OneHandlerMoves ==
    ASSUME LinkTypeOK, NEW s \in Streams, NEW from, NEW to, Proceeds(s, from, to)
    PROVE  /\ handler[s] = from /\ handler'[s] = to
           /\ \A t \in Streams \ {s} : handler'[t] = handler[t]
  BY DEF Proceeds, LinkTypeOK

LEMMA FlagSet ==
    ASSUME LinkTypeOK, NEW b \in BOOLEAN, SetReady(b)
    PROVE  /\ flags' \in Seq(BOOLEAN) /\ flags' # <<>> /\ Len(flags') = Len(flags) + 1
           /\ Len(flags') <= MaxChanges /\ flags'[Len(flags')] = b
           /\ DOMAIN flags \subseteq DOMAIN flags' /\ Len(flags') \in DOMAIN flags'
<1>1. flags \in Seq(BOOLEAN) /\ Len(flags) \in Nat /\ flags' = Append(flags, b)
  BY DEF LinkTypeOK, SetReady
<1>2. Len(flags) < MaxChanges
  BY DEF SetReady
<1> QED
  BY <1>1, <1>2, LinkAssumption

LEMMA WordArrives ==
    ASSUME LinkTypeOK, NEW s \in Streams, NEW b \in BOOLEAN,
           inbox' = [inbox EXCEPT ![s] = Append(@, b)]
    PROVE  /\ inbox' \in [Streams -> Seq(BOOLEAN)]
           /\ inbox'[s] # <<>> /\ inbox'[s][Len(inbox'[s])] = b
           /\ \A t \in Streams : t # s => inbox'[t] = inbox[t]
<1> DEFINE q == inbox[s]
<1>1. q \in Seq(BOOLEAN) /\ inbox'[s] = Append(q, b)
  BY DEF LinkTypeOK
<1> HIDE DEF q
<1>2. Append(q, b) \in Seq(BOOLEAN) /\ Append(q, b) # <<>> /\ Append(q, b)[Len(Append(q, b))] = b
  BY <1>1
<1>3. \A t \in Streams : t # s => inbox'[t] = inbox[t]
  BY DEF LinkTypeOK
<1>4. inbox' \in [Streams -> Seq(BOOLEAN)]
  BY <1>1, <1>2 DEF LinkTypeOK
<1> QED
  BY <1>1, <1>2, <1>3, <1>4, Zenon

LEMMA RoomTypeStep == LinkTypeOK /\ HasStream /\ RoomStep => LinkTypeOK' /\ HasStream'
<1> SUFFICES ASSUME LinkTypeOK, HasStream, RoomStep PROVE LinkTypeOK' /\ HasStream'
  OBVIOUS
<1> DEFINE Rest == /\ UNCHANGED <<loop, cur, told, reread, stopped, cut, serverVars>>
                   /\ isReady' \in BOOLEAN /\ missed' \in BOOLEAN /\ inRoom' \in BOOLEAN
<1> DEFINE Words == /\ inbox' \in [Streams -> Seq(BOOLEAN)]
                    /\ flags' \in Seq(BOOLEAN) /\ Len(flags') <= MaxChanges
                    /\ untold' \subseteq DOMAIN flags' /\ calls' \subseteq DOMAIN flags'
<1> SUFFICES Rest /\ Words
  BY DEF LinkTypeOK, HasStream, serverVars
<1>1. Rest
  <2> USE DEF LinkTypeOK, clientVars
  <2>1. ASSUME NEW b \in BOOLEAN, ChangeReady(b) PROVE Rest
    BY <2>1 DEF ChangeReady
  <2>2. CASE UnreadyGameStream
    BY <2>2 DEF UnreadyGameStream
  <2>3. CASE AllPlayersReady
    BY <2>3, Zenon DEF AllPlayersReady, roomVars
  <2>4. ASSUME NEW n \in untold, NotifyReady(n) PROVE Rest
    BY <2>4, Zenon DEF NotifyReady
  <2>5. ASSUME NEW n \in calls, UnreadyReturns(n) PROVE Rest
    BY <2>5, Zenon DEF UnreadyReturns
  <2>6. CASE LeaveRoom
    BY <2>6, Zenon DEF LeaveRoom
  <2>7. CASE EnterRoom
    BY <2>7 DEF EnterRoom
  <2> QED
    BY <2>1, <2>2, <2>3, <2>4, <2>5, <2>6, <2>7, Zenon DEF RoomStep
<1>2. Words
  <2> HIDE DEF Rest
  <2>1. ASSUME NEW b \in BOOLEAN, ChangeReady(b) PROVE Words
    <3>1. SetReady(b) /\ untold' = untold \cup {Len(flags')} /\ calls' = calls /\ inbox' = inbox
      BY <2>1 DEF ChangeReady
    <3> QED
      BY <3>1, FlagSet DEF LinkTypeOK
  <2>2. CASE UnreadyGameStream
    <3>1. /\ SetReady(FALSE) /\ untold' = untold \cup {Len(flags')} /\ inbox' = inbox
          /\ calls' = calls \cup {Len(flags')}
      BY <2>2 DEF UnreadyGameStream
    <3> QED
      BY <3>1, FlagSet DEF LinkTypeOK
  <2>3. CASE AllPlayersReady
    <3>1. <<TRUE>> \in Seq(BOOLEAN)
      OBVIOUS
    <3>2. inbox' \in [Streams -> Seq(BOOLEAN)]
      BY <2>3, <3>1, Zenon DEF AllPlayersReady, LinkTypeOK
    <3> QED
      BY <2>3, <3>2 DEF AllPlayersReady, roomVars, LinkTypeOK
  <2>4. ASSUME NEW n \in untold, NotifyReady(n) PROVE Words
    <3>1. /\ flags' = flags /\ calls' = calls /\ untold' = untold \ {n} /\ flags[n] \in BOOLEAN
      BY <2>4 DEF NotifyReady, LinkTypeOK
    <3>2. CASE inRoom /\ notifier # 0 /\ notifier \notin cut
      <4>1. notifier \in Streams /\ inbox' = [inbox EXCEPT ![notifier] = Append(@, flags[n])]
        BY <2>4, <3>2, LinkAssumption DEF NotifyReady, LinkTypeOK, Streams
      <4> QED
        BY <3>1, <4>1, WordArrives DEF LinkTypeOK
    <3>3. CASE ~(inRoom /\ notifier # 0 /\ notifier \notin cut)
      BY <2>4, <3>1, <3>3 DEF NotifyReady, LinkTypeOK
    <3> QED
      BY <3>2, <3>3
  <2>5. ASSUME NEW n \in calls, UnreadyReturns(n) PROVE Words
    BY <2>5 DEF UnreadyReturns, LinkTypeOK
  <2>6. CASE LeaveRoom
    <3>1. CASE UNCHANGED flags
      BY <2>6, <3>1 DEF LeaveRoom, LinkTypeOK
    <3>2. CASE SetReady(FALSE)
      BY <2>6, <3>2, FlagSet DEF LeaveRoom, LinkTypeOK
    <3> QED
      BY <2>6, <3>1, <3>2 DEF LeaveRoom
  <2>7. CASE EnterRoom
    BY <2>7 DEF EnterRoom, LinkTypeOK
  <2> QED
    BY <2>1, <2>2, <2>3, <2>4, <2>5, <2>6, <2>7, Zenon DEF RoomStep
<1> QED
  BY <1>1, <1>2

LEMMA LinkTypeStep == LinkTypeOK /\ HasStream /\ [LinkNext]_linkVars => LinkTypeOK' /\ HasStream'
<1> SUFFICES ASSUME LinkTypeOK, HasStream, [LinkNext]_linkVars PROVE LinkTypeOK' /\ HasStream'
  OBVIOUS
<1> USE LinkAssumption DEF LinkTypeOK, HasStream, Streams, clientVars, serverVars, roomVars
<1>1. CASE InitClient
  <2>1. handler' \in [Streams -> {"none", "sent", "called", "stored", "known", "live", "ended",
                                 "unlisted", "cleared", "gone"}]
    BY <1>1 DEF InitClient
  <2>2. told' \in BOOLEAN
    BY <1>1, Zenon DEF InitClient
  <2>3. loop' \in {"reading", "stuck"} /\ cur' \in 0..MaxStreams
        /\ (loop' = "reading" => cur' \in Streams)
    BY <1>1 DEF InitClient
  <2> QED
    BY <1>1, <2>1, <2>2, <2>3 DEF InitClient
<1>2. CASE Receive
  <2>1. inbox[cur] \in Seq(BOOLEAN) /\ cur \in Streams
    BY <1>2 DEF Receive
  <2> QED
    BY <1>2, <2>1 DEF Receive
<1>3. CASE LoseStream
  BY <1>3 DEF LoseStream
<1>4. CASE RestartStream
  BY <1>4 DEF RestartStream
<1>5. CASE LoopEnds
  BY <1>5 DEF LoopEnds
<1>6. CASE RestartFails \/ ReadRooms \/ Resync \/ ResyncFails \/ StopClient
  <2>1. CASE RestartFails \/ ResyncFails
    BY <2>1 DEF RestartFails, ResyncFails
  <2>2. CASE Resync
    <3>1. isReady' \in BOOLEAN /\ told' \in BOOLEAN /\ reread' \in BOOLEAN
      BY <2>2, Zenon DEF Resync
    <3>2. loop = "synced" /\ loop' = "reading" /\ cur' = cur
      BY <2>2 DEF Resync
    <3> QED
      BY <2>2, <3>1, <3>2 DEF Resync
  <2>3. CASE ReadRooms
    <3>1. reread' \in BOOLEAN /\ missed' \in BOOLEAN
      BY <2>3, Zenon DEF ReadRooms, Ready
    <3>2. loop = "syncing" /\ loop' = "synced" /\ cur' = cur
      BY <2>3 DEF ReadRooms
    <3> QED
      BY <2>3, <3>1, <3>2 DEF ReadRooms
  <2>4. CASE StopClient
    BY <2>4 DEF StopClient
  <2> QED
    BY <1>6, <2>1, <2>2, <2>3, <2>4
<1>7. CASE RoomStep
  BY <1>7, RoomTypeStep
<1>9. ASSUME NEW s \in Streams, Break(s) PROVE LinkTypeOK' /\ HasStream'
  <2>1. PICK n \in 0..Len(inbox[s]) : inbox' = [inbox EXCEPT ![s] = SubSeq(@, 1, n)]
    BY <1>9 DEF Break
  <2>2. inbox[s] \in Seq(BOOLEAN) /\ n \in 0..Len(inbox[s])
    OBVIOUS
  <2>3. SubSeq(inbox[s], 1, n) \in Seq(BOOLEAN)
    BY <2>2
  <2>4. inbox' \in [Streams -> Seq(BOOLEAN)]
    BY <2>1, <2>3
  <2> QED
    BY <1>9, <2>4 DEF Break
<1>10. ASSUME NEW s \in Streams, HandlerStep(s) PROVE LinkTypeOK' /\ HasStream'
  <2> USE <1>10 DEF Proceeds
  <2>1. CASE Arrive(s)
    <3>1. met' \in SUBSET Streams
      BY <2>1 DEF Arrive
    <3>2. UNCHANGED <<clientVars, active, notifier, listed, roomVars, cut, inbox, missed>>
      BY <2>1 DEF Arrive
    <3>3. handler' \in [Streams -> {"none", "sent", "called", "stored", "known", "live", "ended",
                                   "unlisted", "cleared", "gone"}]
      BY <2>1 DEF Arrive
    <3> QED
      BY <3>1, <3>2, <3>3
  <2>2. CASE StoreCancel(s)
    BY <2>2 DEF StoreCancel
  <2>3. CASE OpenSession(s)
    BY <2>3 DEF OpenSession
  <2>4. CASE ListUser(s)
    BY <2>4 DEF ListUser
  <2>5. CASE ContextEnds(s)
    BY <2>5 DEF ContextEnds
  <2>6. CASE Unlist(s)
    BY <2>6 DEF Unlist
  <2>7. CASE ClearSession(s)
    BY <2>7 DEF ClearSession
  <2>8. CASE DeleteCancel(s)
    BY <2>8 DEF DeleteCancel
  <2> QED
    BY <2>1, <2>2, <2>3, <2>4, <2>5, <2>6, <2>7, <2>8 DEF HandlerStep
<1>11. CASE UNCHANGED linkVars
  BY <1>11 DEF linkVars
<1> QED
  BY <1>1, <1>2, <1>3, <1>4, <1>5, <1>6, <1>7, <1>9, <1>10, <1>11, Zenon
     DEF LinkNext, ClientStep, RoomStep

LEMMA RegistrationStep ==
    ASSUME LinkTypeOK, RegistrationInv, NEW s \in Streams, HandlerStep(s)
    PROVE  RegistrationInv'
<1> USE LinkAssumption DEF RegistrationInv, Running, Registering
<1>1. CASE Arrive(s)
  <2>1. /\ active' = active /\ notifier' = notifier /\ listed' = listed /\ met \subseteq met'
        /\ handler[s] = "sent" /\ handler'[s] \in {"called", "gone"}
        /\ \A t \in Streams \ {s} : handler'[t] = handler[t]
    BY <1>1, OneHandlerMoves DEF Arrive
  <2>2. handler'[s] = "called" =>
            \A t \in Streams \ {s} : Running(t) => s \in met' /\ t \in met'
    BY <1>1, OneHandlerMoves DEF Arrive
  <2> QED
    BY <2>1, <2>2, Zenon DEF LinkTypeOK
<1>2. CASE StoreCancel(s)
  <2>1. /\ active' = s /\ notifier' = notifier /\ listed' = listed /\ met' = met
        /\ handler[s] = "called" /\ handler'[s] = "stored"
        /\ \A t \in Streams \ {s} : handler'[t] = handler[t]
    BY <1>2, OneHandlerMoves DEF StoreCancel
  <2> QED
    BY <2>1
<1>3. CASE OpenSession(s)
  <2>1. /\ active' = active /\ notifier' = s /\ listed' = listed /\ met' = met
        /\ handler[s] = "stored" /\ handler'[s] = "known"
        /\ \A t \in Streams \ {s} : handler'[t] = handler[t]
    BY <1>3, OneHandlerMoves DEF OpenSession
  <2> QED
    BY <2>1
<1>4. CASE ListUser(s)
  <2>1. /\ active' = active /\ notifier' = notifier /\ listed' /\ met' = met
        /\ handler[s] = "known" /\ handler'[s] = "live"
        /\ \A t \in Streams \ {s} : handler'[t] = handler[t]
    BY <1>4, OneHandlerMoves DEF ListUser
  <2> QED
    BY <2>1
<1>5. CASE ContextEnds(s)
  <2>1. /\ active' = active /\ notifier' = notifier /\ listed' = listed /\ met' = met
        /\ handler[s] = "live" /\ handler'[s] = "ended"
        /\ \A t \in Streams \ {s} : handler'[t] = handler[t]
    BY <1>5, OneHandlerMoves DEF ContextEnds
  <2> QED
    BY <2>1
<1>6. CASE Unlist(s)
  <2>1. /\ active' = active /\ notifier' = notifier /\ ~listed' /\ met' = met
        /\ handler[s] = "ended" /\ handler'[s] = "unlisted"
        /\ \A t \in Streams \ {s} : handler'[t] = handler[t]
    BY <1>6, OneHandlerMoves DEF Unlist
  <2> QED
    BY <2>1
<1>7. CASE ClearSession(s)
  <2>1. /\ active' = active /\ notifier' = 0 /\ listed' = listed /\ met' = met
        /\ handler[s] = "unlisted" /\ handler'[s] = "cleared"
        /\ \A t \in Streams \ {s} : handler'[t] = handler[t]
    BY <1>7, OneHandlerMoves DEF ClearSession
  <2> QED
    BY <2>1
<1>8. CASE DeleteCancel(s)
  <2>1. /\ active' = 0 /\ notifier' = notifier /\ listed' = listed /\ met' = met
        /\ handler[s] = "cleared" /\ handler'[s] = "gone"
        /\ \A t \in Streams \ {s} : handler'[t] = handler[t]
    BY <1>8, OneHandlerMoves DEF DeleteCancel
  <2> QED
    BY <2>1
<1> QED
  BY <1>1, <1>2, <1>3, <1>4, <1>5, <1>6, <1>7, <1>8 DEF HandlerStep

LEMMA RoomMoves == RoomStep => UNCHANGED <<loop, cur, reread, cut, serverVars>>
  BY DEF RoomStep, ChangeReady, UnreadyGameStream, AllPlayersReady, NotifyReady, UnreadyReturns,
         LeaveRoom, EnterRoom, clientVars

LEMMA UnopenedStep == LinkInv /\ [LinkNext]_linkVars => UnopenedInv'
<1> SUFFICES ASSUME LinkInv, [LinkNext]_linkVars PROVE UnopenedInv'
  OBVIOUS
<1> USE LinkAssumption DEF LinkInv, UnopenedInv, LinkTypeOK, Streams, clientVars, serverVars
<1>1. CASE InitClient
  BY <1>1 DEF InitClient
<1>2. CASE Receive \/ LoseStream \/ LoopEnds
  BY <1>2 DEF Receive, LoseStream, LoopEnds
<1>3. CASE RestartFails \/ ReadRooms \/ Resync \/ ResyncFails \/ StopClient
  BY <1>3 DEF RestartFails, ReadRooms, Resync, ResyncFails, StopClient
<1>8. CASE RoomStep
  BY <1>8, RoomMoves
<1>4. CASE RestartStream
  BY <1>4 DEF RestartStream
<1>5. ASSUME NEW s \in Streams, Break(s) PROVE UnopenedInv'
  BY <1>5 DEF Break
<1>6. ASSUME NEW s \in Streams, HandlerStep(s) PROVE UnopenedInv'
  <2>1. /\ loop' = loop /\ cur' = cur /\ handler[s] # "none"
        /\ \A t \in Streams \ {s} : handler'[t] = handler[t]
    BY <1>6 DEF HandlerStep, Proceeds, Arrive, StoreCancel, OpenSession, ListUser, ContextEnds,
                Unlist, ClearSession, DeleteCancel
  <2> QED
    BY <2>1
<1>7. CASE UNCHANGED linkVars
  BY <1>7 DEF linkVars
<1> QED
  BY <1>1, <1>2, <1>3, <1>4, <1>5, <1>6, <1>7, <1>8, Zenon DEF LinkNext, ClientStep, RoomStep

\* The steps of the client and of the connection register nothing; a stream opened was unknown.
LEMMA ElsewhereStep ==
    ASSUME LinkInv,
           \/ UNCHANGED serverVars
           \/ /\ UNCHANGED <<active, notifier, listed, met>>
              /\ \E s \in Streams : handler[s] = "none"
                                /\ handler' = [handler EXCEPT ![s] = "sent"]
    PROVE  RegistrationInv'
<1> USE LinkAssumption DEF LinkInv, RegistrationInv, Running, Registering
<1>1. CASE UNCHANGED serverVars
  BY <1>1 DEF serverVars
<1>2. ASSUME UNCHANGED <<active, notifier, listed, met>>,
             NEW s \in Streams, handler[s] = "none", handler' = [handler EXCEPT ![s] = "sent"]
      PROVE  RegistrationInv'
  <2>1. /\ active' = active /\ notifier' = notifier /\ listed' = listed /\ met' = met
        /\ handler[s] = "none" /\ handler'[s] = "sent"
        /\ \A t \in Streams \ {s} : handler'[t] = handler[t]
    BY <1>2 DEF LinkTypeOK
  <2> QED
    BY <2>1
<1> QED
  BY <1>1, <1>2

LEMMA LinkInvStep == LinkInv /\ [LinkNext]_linkVars => LinkInv'
<1> SUFFICES ASSUME LinkInv, [LinkNext]_linkVars PROVE LinkInv'
  OBVIOUS
<1>1. LinkTypeOK' /\ HasStream' /\ UnopenedInv'
  BY LinkTypeStep, UnopenedStep DEF LinkInv
<1>2. RegistrationInv'
  <2>1. CASE InitClient
    <3>1. \/ handler' = handler
          \/ 1 \in Streams /\ handler[1] = "none" /\ handler' = [handler EXCEPT ![1] = "sent"]
      BY <2>1, LinkAssumption DEF InitClient, LinkInv, UnopenedInv, Streams
    <3> QED
      BY <2>1, <3>1, ElsewhereStep DEF InitClient, serverVars
  <2>2. CASE RestartStream
    <3>1. /\ cur + 1 \in Streams /\ handler[cur + 1] = "none"
          /\ handler' = [handler EXCEPT ![cur + 1] = "sent"]
      BY <2>2, LinkAssumption DEF RestartStream, LinkInv, LinkTypeOK, UnopenedInv, Streams
    <3> QED
      BY <2>2, <3>1, ElsewhereStep DEF RestartStream
  <2>3. CASE Receive \/ LoseStream \/ LoopEnds
    BY <2>3, ElsewhereStep DEF Receive, LoseStream, LoopEnds
  <2>4. CASE RestartFails \/ ReadRooms \/ Resync \/ ResyncFails \/ StopClient
    BY <2>4, ElsewhereStep DEF RestartFails, ReadRooms, Resync, ResyncFails, StopClient
  <2>8. CASE RoomStep
    BY <2>8, RoomMoves, ElsewhereStep
  <2>5. ASSUME NEW s \in Streams, Break(s) PROVE RegistrationInv'
    BY <2>5, ElsewhereStep DEF Break
  <2>6. ASSUME NEW s \in Streams, HandlerStep(s) PROVE RegistrationInv'
    BY <2>6, RegistrationStep DEF LinkInv
  <2>7. CASE UNCHANGED linkVars
    BY <2>7, ElsewhereStep DEF linkVars
  <2> QED
    BY <2>1, <2>2, <2>3, <2>4, <2>5, <2>6, <2>7, <2>8, Zenon DEF LinkNext, ClientStep, RoomStep
<1> QED
  BY <1>1, <1>2 DEF LinkInv

(* For any number of streams, breaks and restarts: once no handler of the client's streams      *)
(* runs, nothing of it stays registered (StartNtfnStream, server/game.go).                      *)
THEOREM NothingOutlivesTheorem == LinkSpec => []NothingOutlivesHandlers
<1>1. LinkInv => NothingOutlivesHandlers
  BY DEF LinkInv, RegistrationInv, Registering, Running, NothingOutlivesHandlers
<1> QED
  BY <1>1, LinkInvInit, LinkInvStep, PTL DEF LinkSpec

(* For any number of streams, a handler that ran beside no other is registered everywhere while *)
(* it is live (StartNtfnStream, server/game.go).                                                *)
THEOREM AloneTheorem == LinkSpec => []AloneIsRegistered
<1>1. LinkInv => AloneIsRegistered
  BY DEF LinkInv, RegistrationInv, Registering, AloneIsRegistered
<1> QED
  BY <1>1, LinkInvInit, LinkInvStep, PTL DEF LinkSpec

\* The newest setting of the flag was announced, or tried to be.
Announced == flags # <<>> => Len(flags) \notin untold

\* Then, unless the client was mistaken, the last word under way is the server's flag; with none
\* under way, so is the client's, or the one it has just read.
FlagInv ==
    /\ \A s \in Streams : s > cur => inbox[s] = <<>>
    /\ loop = "none" /\ ~missed /\ Announced => isReady = Ready
    /\ cur \in Streams /\ cur \notin cut /\ ~missed /\ Announced =>
          /\ inbox[cur] # <<>> => inbox[cur][Len(inbox[cur])] = Ready
          /\ loop = "reading" /\ inbox[cur] = <<>> => isReady = Ready
          /\ loop = "synced" /\ inbox[cur] = <<>> => reread = Ready

LEMMA LastOfTail ==
    ASSUME NEW T, NEW q \in Seq(T), q # <<>>
    PROVE  /\ Tail(q) = <<>> => q[Len(q)] = Head(q)
           /\ Tail(q) # <<>> => Tail(q)[Len(Tail(q))] = q[Len(q)]
<1>1. Tail(q) \in Seq(T) /\ Len(Tail(q)) = Len(q) - 1 /\ Len(q) > 0
  OBVIOUS
<1>2. CASE Tail(q) = <<>>
  <2>1. Len(q) = 1
    BY <1>1, <1>2
  <2> QED
    BY <1>2, <2>1
<1>3. CASE Tail(q) # <<>>
  <2>1. Len(Tail(q)) \in 1..Len(Tail(q))
    BY <1>1, <1>3
  <2> QED
    BY <1>1, <1>3, <2>1
<1> QED
  BY <1>2, <1>3

LEMMA SameFlag ==
    ASSUME flags' = flags, untold' = untold
    PROVE  Ready' = Ready /\ Announced' = Announced
  BY DEF Ready, Announced

\* A setting is announced later; a silent one counts as missed.
LEMMA FlagAwaits ==
    ASSUME LinkInv, FlagInv, NEW b \in BOOLEAN, SetReady(b),
           UNCHANGED <<loop, cur, inbox>>,
           missed' \/ Len(flags') \in untold'
    PROVE  FlagInv'
<1>1. flags' # <<>>
  BY FlagSet DEF LinkInv
<1>2. missed' \/ ~Announced'
  BY <1>1 DEF Announced
<1> QED
  BY <1>2 DEF FlagInv

LEMMA NotifyKeepsFlag ==
    ASSUME LinkInv, FlagInv, NEW n \in untold, NotifyReady(n)
    PROVE  FlagInv'
<1> USE LinkAssumption DEF LinkInv, UnopenedInv, LinkTypeOK, Streams
<1>1. /\ UNCHANGED <<loop, cur, cut, isReady, reread, flags>> /\ untold' = untold \ {n}
      /\ n \in 1..Len(flags) /\ flags # <<>> /\ flags[n] \in BOOLEAN
  BY DEF NotifyReady, clientVars
<1>2. Ready' = Ready /\ Ready = flags[Len(flags)]
  <2>1. Ready' = Ready
    BY <1>1, Zenon DEF Ready
  <2>2. Ready <=> flags[Len(flags)]
    BY <1>1 DEF Ready
  <2> QED
    BY <1>1, <2>1, <2>2 DEF Ready
<1>3. CASE inRoom /\ notifier # 0 /\ notifier \notin cut
  <2>1. notifier \in Streams /\ notifier <= cur
    BY <1>3 DEF RegistrationInv, Registering
  <2>2. /\ inbox' = [inbox EXCEPT ![notifier] = Append(@, flags[n])]
        /\ ~missed' => ~missed /\ notifier = cur /\ n + 1..Len(flags) \subseteq untold
    BY <1>3 DEF NotifyReady
  <2>3. /\ inbox'[notifier] # <<>> /\ inbox'[notifier][Len(inbox'[notifier])] = flags[n]
        /\ \A t \in Streams : t # notifier => inbox'[t] = inbox[t]
    BY <1>1, <2>1, <2>2, WordArrives
  <2>4. \A t \in Streams : t > cur' => inbox'[t] = <<>>
    BY <1>1, <2>1, <2>3 DEF FlagInv
  <2>5. ~missed' /\ Announced' => n = Len(flags)
    <3> SUFFICES ASSUME ~missed', Announced', n # Len(flags) PROVE FALSE
      BY <1>1
    <3>1. Len(flags) \in n + 1..Len(flags)
      BY <1>1
    <3> QED
      BY <1>1, <2>2, <3>1 DEF Announced
  <2>6. cur \in Streams /\ loop # "none"
    BY <2>1
  <2> QED
    BY <1>1, <1>2, <2>2, <2>3, <2>4, <2>5, <2>6 DEF FlagInv
<1>4. CASE ~(inRoom /\ notifier # 0 /\ notifier \notin cut)
  <2>1. missed' /\ inbox' = inbox
    BY <1>4 DEF NotifyReady
  <2> QED
    BY <1>1, <2>1 DEF FlagInv
<1> QED
  BY <1>3, <1>4

LEMMA RoomKeepsFlag == LinkInv /\ FlagInv /\ RoomStep => FlagInv'
<1> SUFFICES ASSUME LinkInv, FlagInv, RoomStep PROVE FlagInv'
  OBVIOUS
<1>1. ASSUME NEW b \in BOOLEAN, ChangeReady(b) PROVE FlagInv'
  BY <1>1, FlagAwaits DEF ChangeReady, clientVars
<1>2. CASE UnreadyGameStream
  BY <1>2, FlagAwaits DEF UnreadyGameStream, clientVars
<1>3. CASE AllPlayersReady
  <2>1. /\ notifier \in Streams /\ notifier <= cur /\ inbox[notifier] = <<>>
        /\ inbox' = [inbox EXCEPT ![notifier] = <<TRUE>>]
    BY <1>3, LinkAssumption
       DEF AllPlayersReady, LinkInv, UnopenedInv, LinkTypeOK, Streams, RegistrationInv, Registering
  <2>2. /\ UNCHANGED <<loop, cur, cut, isReady, reread>> /\ Ready' = Ready /\ Announced' = Announced
        /\ ~missed' => ~missed /\ Ready
    BY <1>3, SameFlag, Zenon DEF AllPlayersReady, clientVars, roomVars
  <2>3. /\ inbox'[notifier] # <<>> /\ inbox'[notifier][Len(inbox'[notifier])]
        /\ \A t \in Streams : t # notifier => inbox'[t] = inbox[t]
    <3>1. <<TRUE>> # <<>> /\ <<TRUE>>[Len(<<TRUE>>)]
      OBVIOUS
    <3>2. inbox'[notifier] = <<TRUE>>
      BY <2>1 DEF LinkInv, LinkTypeOK
    <3>3. \A t \in Streams : t # notifier => inbox'[t] = inbox[t]
      BY <2>1 DEF LinkInv, LinkTypeOK
    <3> QED
      BY <3>1, <3>2, <3>3, Zenon
  <2>4. \A t \in Streams : t > cur' => inbox'[t] = <<>>
    BY <2>1, <2>2, <2>3 DEF FlagInv, LinkInv, LinkTypeOK, Streams
  <2>5. loop # "none"
    BY <2>1, LinkAssumption DEF LinkInv, UnopenedInv, Streams
  <2>6. Ready \in BOOLEAN
    BY DEF Ready, LinkInv, LinkTypeOK
  <2>7. CASE notifier = cur
    BY <2>2, <2>3, <2>4, <2>5, <2>6, <2>7 DEF FlagInv
  <2>8. CASE notifier # cur
    BY <2>2, <2>3, <2>4, <2>5, <2>8 DEF FlagInv
  <2> QED
    BY <2>7, <2>8
<1>4. ASSUME NEW n \in untold, NotifyReady(n) PROVE FlagInv'
  BY <1>4, NotifyKeepsFlag
<1>5. ASSUME NEW n \in calls, UnreadyReturns(n) PROVE FlagInv'
  <2>1. /\ UNCHANGED <<loop, cur, cut, inbox, reread>> /\ Ready' = Ready /\ Announced' = Announced
    BY <1>5, SameFlag DEF UnreadyReturns
  <2>2. \/ isReady' = FALSE /\ (~missed' => ~missed /\ ~Ready)
        \/ isReady' = isReady /\ missed' = missed
    BY <1>5, Zenon DEF UnreadyReturns
  <2>3. Ready \in BOOLEAN
    BY DEF Ready, LinkInv, LinkTypeOK
  <2> QED
    BY <2>1, <2>2, <2>3 DEF FlagInv
<1>6. CASE LeaveRoom
  <2>1. CASE UNCHANGED <<flags, missed>>
    <3>1. UNCHANGED <<loop, cur, cut, inbox, reread, isReady, missed>>
          /\ Ready' = Ready /\ Announced' = Announced
      BY <1>6, <2>1, SameFlag DEF LeaveRoom, clientVars
    <3> QED
      BY <3>1 DEF FlagInv
  <2>2. CASE SetReady(FALSE) /\ missed' = TRUE
    BY <1>6, <2>2, FlagAwaits DEF LeaveRoom, clientVars
  <2> QED
    BY <1>6, <2>1, <2>2 DEF LeaveRoom
<1>7. CASE EnterRoom
  <2>1. UNCHANGED <<loop, cur, cut, inbox, reread, isReady, missed>>
        /\ Ready' = Ready /\ Announced' = Announced
    BY <1>7, SameFlag DEF EnterRoom, clientVars
  <2> QED
    BY <2>1 DEF FlagInv
<1> QED
  BY <1>1, <1>2, <1>3, <1>4, <1>5, <1>6, <1>7, Zenon DEF RoomStep

LEMMA FlagInvStep == LinkInv /\ FlagInv /\ [LinkNext]_linkVars => FlagInv'
<1> SUFFICES ASSUME LinkInv, FlagInv, [LinkNext]_linkVars PROVE FlagInv'
  OBVIOUS
<1>0. UNCHANGED roomVars => Ready' = Ready /\ Announced' = Announced
  BY SameFlag DEF roomVars
<1> USE LinkAssumption DEF LinkInv, UnopenedInv, HasStream, LinkTypeOK, FlagInv, Streams,
                           clientVars, serverVars
<1>1. CASE InitClient
  BY <1>0, <1>1 DEF InitClient
<1>2. CASE Receive
  <2>1. inbox[cur] \in Seq(BOOLEAN) /\ cur \in Streams
    BY <1>2 DEF Receive
  <2> DEFINE q == inbox[cur]
  <2>2. /\ q # <<>>
        /\ Tail(q) = <<>> => q[Len(q)] = Head(q)
        /\ Tail(q) # <<>> => Tail(q)[Len(Tail(q))] = q[Len(q)]
    BY <1>2, <2>1, LastOfTail DEF Receive
  <2>3. inbox'[cur] = Tail(q) /\ isReady' = Head(q)
        /\ \A s \in Streams \ {cur} : inbox'[s] = inbox[s]
    BY <1>2, <2>1 DEF Receive
  <2>4. /\ loop = "reading" /\ loop' = "reading" /\ cur' = cur /\ cut' = cut
        /\ Ready' = Ready /\ Announced' = Announced /\ missed' = missed
    BY <1>0, <1>2 DEF Receive
  <2>5. cur \notin cut /\ ~missed /\ Announced => q[Len(q)] = Ready
    BY <2>1, <2>2
  <2>6. \A s \in Streams : s > cur => inbox'[s] = <<>>
    BY <2>1, <2>3, SMTT(30)
  <2> HIDE DEF q
  <2>7. cur \notin cut /\ ~missed /\ Announced =>
            /\ inbox'[cur] # <<>> => inbox'[cur][Len(inbox'[cur])] = Ready
            /\ inbox'[cur] = <<>> => isReady' = Ready
    BY <2>2, <2>3, <2>5
  <2> QED
    BY <2>4, <2>6, <2>7
<1>3. CASE LoseStream \/ LoopEnds \/ RestartFails \/ ResyncFails \/ StopClient
  <2>1. /\ UNCHANGED <<cur, inbox, isReady, reread, missed>> /\ Ready' = Ready
        /\ Announced' = Announced /\ cut \subseteq cut'
        /\ loop' # "none"
        /\ loop' \in {"reading", "synced"} => loop' = loop
    BY <1>0, <1>3 DEF LoseStream, LoopEnds, RestartFails, ResyncFails, StopClient
  <2> QED
    BY <2>1
<1>4. CASE RestartStream
  BY <1>0, <1>4 DEF RestartStream
<1>5. CASE ReadRooms
  <2>1. /\ UNCHANGED <<cur, cut, inbox>> /\ Ready' = Ready /\ Announced' = Announced
        /\ loop' = "synced"
    BY <1>0, <1>5 DEF ReadRooms
  <2>2. ~missed' => (inbox[cur] # <<>> => ~missed) /\ reread' = Ready
    BY <1>5, Zenon DEF ReadRooms, Ready
  <2> QED
    BY <2>1, <2>2
<1>6. CASE Resync
  BY <1>0, <1>6 DEF Resync
<1>7. ASSUME NEW s \in Streams, Break(s) PROVE FlagInv'
  <2>1. s \in cut' /\ (\A t \in Streams \ {s} : inbox'[t] = inbox[t] /\ (t \in cut' <=> t \in cut))
        /\ s <= cur
    BY <1>7 DEF Break
  <2>2. \A t \in Streams : t > cur => inbox'[t] = <<>>
    BY <2>1
  <2>3. /\ UNCHANGED <<loop, cur, isReady, reread, missed>> /\ Ready' = Ready
        /\ Announced' = Announced
    BY <1>0, <1>7 DEF Break
  <2> QED
    BY <2>1, <2>2, <2>3
<1>8. ASSUME NEW s \in Streams, HandlerStep(s) PROVE FlagInv'
  <2>1. UNCHANGED <<clientVars, roomVars, cut, inbox, missed>>
    BY <1>8 DEF HandlerStep, Arrive, StoreCancel, OpenSession, ListUser, ContextEnds, Unlist,
                ClearSession, DeleteCancel
  <2>2. UNCHANGED <<loop, cur, isReady, reread, cut, inbox, missed>> /\ Ready' = Ready
        /\ Announced' = Announced
    BY <1>0, <2>1
  <2> QED
    BY <2>2
<1>9. CASE UNCHANGED linkVars
  BY <1>0, <1>9 DEF linkVars
<1>10. CASE RoomStep
  BY <1>10, RoomKeepsFlag
<1> QED
  BY <1>1, <1>2, <1>3, <1>4, <1>5, <1>6, <1>7, <1>8, <1>9, <1>10, Zenon
     DEF LinkNext, ClientStep, RoomStep

(* For any number of streams, breaks and settings, in whatever order the handlers tell of them: *)
(* a client that was not mistaken since it last read the rooms has the server's ready flag once *)
(* it has read what was sent (client/game.go, server/game.go).                                  *)
THEOREM ReadyTheorem == LinkSpec => []ReadyIsInSync
<1>1. LinkInit => FlagInv
  BY LinkAssumption DEF LinkInit, FlagInv, Streams, Ready
<1>2. LinkInv /\ FlagInv => ReadyIsInSync
  BY DEF LinkInv, HasStream, FlagInv, ReadyIsInSync, Announced
<1> QED
  BY <1>1, <1>2, LinkInvInit, LinkInvStep, FlagInvStep, PTL DEF LinkSpec

-----------------------------------------------------------------------------
(* The keys of the terminal. *)

Sendings == [at : {"idle", "sent", "full", "popped"}, input : Inputs]
Sends(s, x) == ~IsIdle(s) /\ sending[s].input = x

\* What each sender may be sending, and to whom the holder of the lock and Escape are committed.
SendersInv ==
    /\ \A s \in Senders : sending[s].at = "idle" => IsIdle(s)
    /\ \A p \in Presses : IsIdle(p) \/ \E d \in Dirs : Sends(p, Go(d))
    /\ IsIdle(Opponent) \/ Sends(Opponent, Foe)
    /\ lock = "free" => IsIdle(Holder)
    /\ IsIdle(Holder) \/ \E d \in Dirs : Sends(Holder, Halt(d))
    /\ \A d \in Dirs : lock = Switching(d) => IsIdle(Holder) \/ Sends(Holder, Halt(Other(d)))
    /\ IsIdle(Escaper) \/ (escape # NoDir /\ Sends(Escaper, Halt(escape)))

GoSent(d) == \E p \in Presses : Sends(p, Go(d))
GoComing(d) == GoSent(d) \/ lock = Switching(d)
Halting(d) == Sends(Holder, Halt(d)) \/ Sends(Escaper, Halt(d))

\* Once the queue q is read, a paddle that moves in direction v does not move in direction d.
Settles(q, v, d) ==
    \/ v # d /\ \A i \in DOMAIN q : q[i] # Go(d)
    \/ \E i \in DOMAIN q : /\ q[i] = Halt(d)
                           /\ \A j \in DOMAIN q : j > i => q[j] # Go(d)
Settled(d) == Settles(inputch, vel, d)

\* A direction that is not settled will be: its key counts as pressed, or its stop is under way.
StopInv(d) ==
    /\ Settled(d) \/ pressed[d] \/ Halting(d)
    /\ GoComing(d) => pressed[d] \/ Halting(d)
    /\ escape = d /\ IsIdle(Escaper) => Settled(d) /\ ~GoComing(d)
    /\ lock = Switching(Other(d)) /\ IsIdle(Holder) => Settled(d) /\ ~GoSent(d)

PaddleInv == PaddleTypeOK /\ SendersInv /\ (~slipped => \A d \in Dirs : StopInv(d))

\* The two keys, and the lock held for each.
LEMMA Keys ==
    /\ NoDir \notin Dirs /\ Up \in Dirs /\ Down \in Dirs /\ Up # Down /\ Other(Up) = Down
    /\ \A d \in Dirs : /\ Other(d) \in Dirs /\ Other(d) # d /\ Other(Other(d)) = d
                       /\ \A e \in Dirs : e # d => e = Other(d)
                       /\ Switching(d) \in {"toUp", "toDown"} /\ Switching(d) # Switching(Other(d))
    /\ \A l \in {"toUp", "toDown"} : \E d \in Dirs : l = Switching(d)
  BY DEF Dirs, Up, Down, NoDir, Other, Switching

\* The inputs are a press and a release of each key and the opponent's, all different.
LEMMA KindsOfInput ==
    /\ Foe \in Inputs /\ Foe.stop = FALSE
    /\ \A d \in Dirs : /\ Go(d) \in Inputs /\ Halt(d) \in Inputs /\ Foe # Go(d) /\ Foe # Halt(d)
                       /\ Go(d).dir = d /\ Halt(d).dir = d /\ Go(d).stop = FALSE /\
                              Halt(d).stop = TRUE
                       /\ \A e \in Dirs : Go(d) # Halt(e) /\ (Go(d) = Go(e) => d = e)
                                       /\ (Halt(d) = Halt(e) => d = e)
    /\ \A x \in Inputs : x = Foe \/ \E d \in Dirs : x = Go(d) \/ x = Halt(d)
    /\ \A x \in Inputs : x.stop \in BOOLEAN
<1>1. /\ Foe \in Inputs
      /\ \A d \in Dirs : Go(d) \in Inputs /\ Halt(d) \in Inputs
      /\ \A x \in Inputs : x = Foe \/ \E d \in Dirs : x = Go(d) \/ x = Halt(d)
  BY DEF Inputs
<1>2. /\ Foe.stop = FALSE /\ Foe.dir = NoDir
      /\ \A d : Go(d).dir = d /\ Halt(d).dir = d /\ Go(d).stop = FALSE /\ Halt(d).stop = TRUE
  BY DEF Go, Halt, Foe
<1>3. ASSUME NEW x \in Inputs PROVE x.stop \in BOOLEAN
  <2>1. CASE x = Foe
    BY <2>1 DEF Foe
  <2>2. ASSUME NEW d \in Dirs, x = Go(d) PROVE x.stop \in BOOLEAN
    BY <2>2 DEF Go
  <2>3. ASSUME NEW d \in Dirs, x = Halt(d) PROVE x.stop \in BOOLEAN
    BY <2>3 DEF Halt
  <2> QED
    BY <1>1, <2>1, <2>2, <2>3
<1> QED
  BY <1>1, <1>2, <1>3, Keys

\* A sender that sends keeps its input while its turns go on.
LEMMA KindsOfSending ==
    /\ Idle \in Sendings /\ Idle.at = "idle"
    /\ \A x \in Inputs : Sent(x) \in Sendings /\ Sent(x).input = x /\ Sent(x).at = "sent"
                      /\ Sent(x) # Idle
    /\ \A r \in Sendings : \A a \in {"full", "popped"} :
          LET q == [r EXCEPT !.at = a]
          IN q \in Sendings /\ q.input = r.input /\ q.at = a /\ q # Idle
  BY KindsOfInput DEF Sendings, Sent, Idle

Roles == /\ Holder \in Senders /\ Escaper \in Senders /\ Opponent \in Senders
         /\ Presses \subseteq Senders
         /\ Holder # Escaper /\ Holder # Opponent /\ Escaper # Opponent
         /\ Holder \notin Presses /\ Escaper \notin Presses /\ Opponent \notin Presses
         /\ Senders = Presses \cup {Holder, Escaper, Opponent}
LEMMA Distinct == Roles
  BY PaddleAssumption DEF Roles, Holder, Escaper, Opponent, Presses, Senders

\* A sender that starts to send, ...
LEMMA Launches ==
    ASSUME sending \in [Senders -> Sendings], NEW s \in Senders, NEW x \in Inputs,
           sending' = [sending EXCEPT ![s] = Sent(x)]
    PROVE  /\ sending' \in [Senders -> Sendings] /\ sending'[s].at = "sent"
           /\ ~IsIdle(s)' /\ \A y : Sends(s, y)' <=> y = x
           /\ \A t \in Senders \ {s} : sending'[t] = sending[t]
           /\ \A t \in Senders \ {s} : (IsIdle(t)' <=> IsIdle(t)) /\ \A y : Sends(t, y)' <=>
                  Sends(t, y)
  BY KindsOfSending DEF IsIdle, Sends

\* ... that waits for its next turn, ...
LEMMA Waits ==
    ASSUME sending \in [Senders -> Sendings], NEW s \in Senders, ~IsIdle(s),
           NEW a \in {"full", "popped"}, sending' = [sending EXCEPT ![s].at = a]
    PROVE  /\ sending' \in [Senders -> Sendings] /\ sending'[s].at = a
           /\ \A t \in Senders \ {s} : sending'[t] = sending[t]
           /\ \A t \in Senders : (IsIdle(t)' <=> IsIdle(t)) /\ \A y : Sends(t, y)' <=> Sends(t, y)
<1>1. sending[s] \in Sendings
  OBVIOUS
<1>2. sending' = [sending EXCEPT ![s] = [sending[s] EXCEPT !.at = a]]
  OBVIOUS
<1> DEFINE q == [sending[s] EXCEPT !.at = a]
<1>3. q \in Sendings /\ q.input = sending[s].input /\ q.at = a /\ q # Idle
  <2>1. \A r \in Sendings : \A b \in {"full", "popped"} :
          /\ [r EXCEPT !.at = b] \in Sendings /\ [r EXCEPT !.at = b].input = r.input
          /\ [r EXCEPT !.at = b].at = b /\ [r EXCEPT !.at = b] # Idle
    BY KindsOfSending, Zenon
  <2> QED
    BY <1>1, <2>1
<1>4. sending'[s] = q /\ \A t \in Senders \ {s} : sending'[t] = sending[t]
  BY <1>2
<1> HIDE DEF q
<1>5. sending' \in [Senders -> Sendings]
  BY <1>2, <1>3 DEF q
<1> QED
  BY <1>3, <1>4, <1>5 DEF IsIdle, Sends

\* ... and that is done: the others are as they were.
LEMMA Finishes ==
    ASSUME sending \in [Senders -> Sendings], NEW s \in Senders,
           sending' = [sending EXCEPT ![s] = Idle]
    PROVE  /\ sending' \in [Senders -> Sendings] /\ IsIdle(s)' /\ \A y : ~Sends(s, y)'
           /\ \A t \in Senders \ {s} : sending'[t] = sending[t]
           /\ \A t \in Senders \ {s} : (IsIdle(t)' <=> IsIdle(t)) /\ \A y : Sends(t, y)' <=>
                  Sends(t, y)
  BY KindsOfSending DEF IsIdle, Sends

\* A press goes out by a goroutine that was idle.
LEMMA NextSender ==
    ASSUME NEW d \in Dirs, Free # {}, SendGo(d)
    PROVE  \E p \in Presses : IsIdle(p) /\ sending' = [sending EXCEPT ![p] = Sent(Go(d))]
<1> DEFINE p == CHOOSE p \in Free : TRUE
<1>1. p \in Free
  OBVIOUS
<1> QED
  BY <1>1 DEF SendGo, Free

\* What a turn of HandlePlayerInput does with the input x of sender s.
Enters(s, x) ==
    /\ Len(inputch) < InputCap /\ inputch' = Append(inputch, x)
    /\ sending' = [sending EXCEPT ![s] = Idle] /\ slipped' = (slipped \/ Early(x))
Lost(s, x) ==
    /\ inputch' = inputch
    /\ sending' = [sending EXCEPT ![s] = Idle] /\ slipped' = (slipped \/ x.stop)
Postponed(s) ==
    /\ \E a \in {"full", "popped"} : sending' = [sending EXCEPT ![s].at = a]
    /\ \/ inputch' = inputch /\ slipped' = slipped
       \/ /\ inputch # <<>> /\ inputch' = Tail(inputch)
          /\ slipped' = (slipped \/ Head(inputch).stop)

\* Each turn of HandlePlayerInput is one of these three.
LEMMA ServeCases ==
    ASSUME PaddleTypeOK, NEW s \in Senders, Serve(s) \/ CallFails(s)
    PROVE  /\ ~IsIdle(s) /\ sending[s].input \in Inputs /\ UNCHANGED keyVars /\ vel' = vel
           /\ \/ Enters(s, sending[s].input) \/ Lost(s, sending[s].input) \/ Postponed(s)
<1>1. sending[s].input \in Inputs
  BY DEF PaddleTypeOK
<1>2. sending[s].at \in {"sent", "full", "popped"} \/ ~IsIdle(s)
  BY DEF Serve, PutInput, DropOldest, TryAgain, CallFails
<1>3. ~IsIdle(s)
  BY <1>2 DEF IsIdle, Idle
<1>4. UNCHANGED keyVars /\ vel' = vel
  BY DEF Serve, PutInput, DropOldest, TryAgain, CallFails
<1>5. CASE PutInput(s)
  <2>1. CASE Len(inputch) < InputCap
    BY <1>1, <1>3, <1>4, <1>5, <2>1, Zenon DEF PutInput, Enqueue, Enters
  <2>2. CASE ~(Len(inputch) < InputCap)
    <3>1. /\ sending' = [sending EXCEPT ![s].at = "full"]
          /\ inputch' = inputch /\ slipped' = slipped
      BY <1>5, <2>2 DEF PutInput
    <3>2. Postponed(s)
      BY <3>1 DEF Postponed
    <3> QED
      BY <1>1, <1>3, <1>4, <3>2
  <2> QED
    BY <1>1, <1>3, <1>4, <2>1, <2>2
<1>6. CASE DropOldest(s)
  <2>1. sending' = [sending EXCEPT ![s].at = "popped"]
    BY <1>6 DEF DropOldest
  <2>2. \/ inputch' = inputch /\ slipped' = slipped
        \/ /\ inputch # <<>> /\ inputch' = Tail(inputch)
           /\ slipped' = (slipped \/ Head(inputch).stop)
    BY <1>6 DEF DropOldest
  <2> QED
    BY <1>1, <1>3, <1>4, <2>1, <2>2 DEF Postponed
<1>7. CASE TryAgain(s)
  BY <1>1, <1>3, <1>4, <1>7 DEF TryAgain, Enqueue, Enters, Lost
<1>8. CASE CallFails(s)
  BY <1>1, <1>3, <1>4, <1>8 DEF CallFails, Lost
<1> QED
  BY <1>1, <1>3, <1>4, <1>5, <1>6, <1>7, <1>8 DEF Serve

LEMMA Flags ==
    ASSUME NEW x \in Inputs
    PROVE  x.stop \in BOOLEAN /\ Early(x) \in BOOLEAN
<1>1. x.stop \in BOOLEAN
  BY KindsOfInput
<1>2. Early(x) \in BOOLEAN
  BY <1>1 DEF Early
<1> QED
  BY <1>1, <1>2

LEMMA QueueKept ==
    ASSUME inputch \in Seq(Inputs), Len(inputch) <= InputCap
    PROVE  /\ \A x \in Inputs : Len(inputch) < InputCap =>
                Append(inputch, x) \in Seq(Inputs) /\ Len(Append(inputch, x)) <= InputCap
           /\ inputch # <<>> => Head(inputch) \in Inputs /\ Tail(inputch) \in Seq(Inputs)
                                /\ Len(Tail(inputch)) <= InputCap
  BY PaddleAssumption

Locks == {"free", "timer", "toUp", "toDown"}
LEMMA PaddleTypeStep == PaddleTypeOK /\ SendersInv /\ [PaddleNext]_paddleVars => PaddleTypeOK'
<1> SUFFICES ASSUME PaddleTypeOK, SendersInv, [PaddleNext]_paddleVars PROVE PaddleTypeOK'
  OBVIOUS
<1>t. /\ pressed \in [Dirs -> BOOLEAN] /\ armed \in [Dirs -> BOOLEAN]
      /\ due \in [Dirs -> 0..MaxDue] /\ lock \in Locks /\ escape \in Dirs \cup {NoDir}
      /\ sending \in [Senders -> Sendings]
      /\ inputch \in Seq(Inputs) /\ Len(inputch) <= InputCap
      /\ vel \in Dirs \cup {NoDir} /\ slipped \in BOOLEAN
  BY DEF PaddleTypeOK, Sendings, Locks
<1>s. /\ pressed' \in [Dirs -> BOOLEAN] /\ armed' \in [Dirs -> BOOLEAN]
      /\ due' \in [Dirs -> 0..MaxDue] /\ lock' \in Locks /\ escape' \in Dirs \cup {NoDir}
      /\ sending' \in [Senders -> Sendings]
      /\ inputch' \in Seq(Inputs) /\ Len(inputch') <= InputCap
      /\ vel' \in Dirs \cup {NoDir} /\ slipped' \in BOOLEAN
      => PaddleTypeOK'
  BY DEF PaddleTypeOK, Sendings, Locks
<1>k. \A d \in Dirs : Halt(d) \in Inputs /\ Go(d) \in Inputs
  BY KindsOfInput
<1>r. Roles
  BY Distinct
<1>c. \A d \in Dirs : Other(d) \in Dirs /\ Switching(d) \in Locks
  BY Keys DEF Locks
<1>g. ASSUME NEW d \in Dirs, Free # {}, SendGo(d) PROVE sending' \in [Senders -> Sendings]
  <2>1. PICK p \in Presses : sending' = [sending EXCEPT ![p] = Sent(Go(d))]
    BY <1>g, NextSender
  <2> QED
    BY <1>t, <1>k, <1>r, <2>1, Launches DEF Roles
<1>1. ASSUME NEW d \in Dirs, Press(d) PROVE PaddleTypeOK'
  <2>1. sending' \in [Senders -> Sendings] /\ lock' \in Locks
    <3>1. CASE pressed[Other(d)]
      BY <1>1, <1>t, <1>k, <1>r, <1>c, <3>1, Launches, SMTT(30) DEF Press, Roles
    <3>2. CASE ~pressed[Other(d)]
      BY <1>1, <1>t, <1>g, <3>2 DEF Press
    <3> QED
      BY <3>1, <3>2
  <2>2. UNCHANGED <<due, escape, inputch, vel>> /\ slipped' \in BOOLEAN
    BY <1>1 DEF Press
  <2>3. pressed' \in [Dirs -> BOOLEAN] /\ armed' \in [Dirs -> BOOLEAN]
    BY <1>1, <1>t DEF Press
  <2> QED
    BY <1>t, <1>s, <2>1, <2>2, <2>3
<1>2. ASSUME NEW d \in Dirs, Switched(d) PROVE PaddleTypeOK'
  <2>1. sending' \in [Senders -> Sendings] /\ lock' \in Locks
    BY <1>2, <1>g DEF Switched, Locks
  <2>2. pressed' \in [Dirs -> BOOLEAN] /\ armed' \in [Dirs -> BOOLEAN]
    BY <1>2, <1>t, <1>c DEF Switched
  <2> QED
    BY <1>2, <1>t, <1>s, <2>1, <2>2 DEF Switched
<1>3. ASSUME NEW d \in Dirs, TimerFires(d) PROVE PaddleTypeOK'
  <2>1. armed' \in [Dirs -> BOOLEAN] /\ due' \in [Dirs -> 0..MaxDue]
    BY <1>3, <1>t, PaddleAssumption DEF TimerFires
  <2> QED
    BY <1>3, <1>t, <1>s, <2>1 DEF TimerFires
<1>4. ASSUME NEW d \in Dirs, AutoRelease(d) PROVE PaddleTypeOK'
  <2>1. sending' \in [Senders -> Sendings] /\ lock' \in Locks
    BY <1>4, <1>t, <1>k, <1>r, Launches DEF AutoRelease, Roles, Locks
  <2>2. due' \in [Dirs -> 0..MaxDue] /\ pressed' \in [Dirs -> BOOLEAN]
    <3>1. due[d] \in 0..MaxDue /\ due[d] > 0 /\ due' = [due EXCEPT ![d] = due[d] - 1]
      BY <1>4, <1>t DEF AutoRelease
    <3>2. due[d] - 1 \in 0..MaxDue
      BY <3>1, PaddleAssumption
    <3>3. pressed' = pressed \/ pressed' = [pressed EXCEPT ![d] = FALSE]
      BY <1>4 DEF AutoRelease
    <3> QED
      BY <1>t, <3>1, <3>2, <3>3
  <2>3. UNCHANGED <<armed, escape, inputch, vel, slipped>>
    BY <1>4 DEF AutoRelease
  <2> QED
    BY <1>t, <1>s, <2>1, <2>2, <2>3
<1>5. CASE AutoReleased
  BY <1>5, <1>t, <1>s DEF AutoReleased, Locks
<1>6. CASE Escape
  <2>1. PICK d \in Dirs : escape' = d /\ sending' = [sending EXCEPT ![Escaper] = Sent(Halt(d))]
    BY <1>6 DEF Escape
  <2>2. sending' \in [Senders -> Sendings]
    BY <1>t, <1>k, <1>r, <2>1, Launches DEF Roles
  <2> QED
    BY <1>6, <1>t, <1>s, <2>1, <2>2 DEF Escape
<1>7. CASE Escaped
  <2>1. sending' = sending \/ sending' = [sending EXCEPT ![Escaper] = Sent(Halt(Down))]
    BY <1>7 DEF Escaped
  <2>3. Halt(Down) \in Inputs /\ Escaper \in Senders
    BY <1>k, <1>r, Keys DEF Roles
  <2>4. sending' \in [Senders -> Sendings]
    BY <1>t, <2>1, <2>3, Launches
  <2>2. escape' \in Dirs \cup {NoDir} /\ pressed' \in [Dirs -> BOOLEAN]
    BY <1>7, <1>t, Keys DEF Escaped
  <2> QED
    BY <1>7, <1>t, <1>s, <2>2, <2>4 DEF Escaped
<1>8. CASE OpponentSends
  <2>1. sending' \in [Senders -> Sendings]
    <3>1. [at |-> "full", input |-> Foe] \in Sendings
      BY KindsOfInput DEF Sendings
    <3> QED
      BY <1>8, <1>t, <3>1 DEF OpponentSends
  <2>2. inputch' \in Seq(Inputs) /\ Len(inputch') <= InputCap
    <3>1. inputch' = inputch \/ (Len(inputch) < InputCap /\ inputch' = Append(inputch, Foe))
      BY <1>8 DEF OpponentSends
    <3>2. Foe \in Inputs
      BY KindsOfInput
    <3> QED
      BY <1>t, <3>1, <3>2, QueueKept
  <2> QED
    BY <1>8, <1>t, <1>s, <2>1, <2>2 DEF OpponentSends, keyVars
<1>9. CASE ReadInput
  <2>1. Head(inputch) \in Inputs /\ inputch' \in Seq(Inputs) /\ Len(inputch') <= InputCap
    BY <1>9, <1>t, QueueKept DEF ReadInput
  <2>2. vel' \in Dirs \cup {NoDir}
    <3> DEFINE in == Head(inputch)
    <3>1. in = Foe \/ \E d \in Dirs : in # Foe /\ in.dir = d /\ in.stop \in BOOLEAN
      BY <2>1, KindsOfInput
    <3>2. vel' = CASE in = Foe -> vel
                   [] in # Foe /\ ~in.stop -> in.dir
                   [] in.stop -> IF vel = in.dir THEN NoDir ELSE vel
      BY <1>9 DEF ReadInput
    <3> HIDE DEF in
    <3>3. ~Foe.stop
      BY KindsOfInput
    <3> QED
      BY <1>t, <3>1, <3>2, <3>3
  <2> QED
    BY <1>9, <1>t, <1>s, <2>1, <2>2 DEF ReadInput, keyVars
<1>10. CASE StopPaddle
  BY <1>10, <1>t, <1>s DEF StopPaddle, keyVars
<1>11. ASSUME NEW s \in Senders, Serve(s) \/ CallFails(s) PROVE PaddleTypeOK'
  <2>1. /\ ~IsIdle(s) /\ sending[s].input \in Inputs /\ UNCHANGED keyVars /\ vel' = vel
        /\ Enters(s, sending[s].input) \/ Lost(s, sending[s].input) \/ Postponed(s)
    BY <1>11, ServeCases
  <2>2. sending' \in [Senders -> Sendings]
    BY <1>t, <2>1, Finishes, Waits DEF Enters, Lost, Postponed
  <2>3. inputch' \in Seq(Inputs) /\ Len(inputch') <= InputCap
    BY <1>t, <2>1, QueueKept DEF Enters, Lost, Postponed
  <2>4. slipped' \in BOOLEAN
    BY <1>t, <2>1, QueueKept, Flags DEF Enters, Lost, Postponed
  <2> QED
    BY <1>t, <1>s, <2>1, <2>2, <2>3, <2>4 DEF keyVars
<1>12. CASE UNCHANGED paddleVars
  BY <1>12, <1>t, <1>s DEF paddleVars
<1> QED
  BY <1>1, <1>2, <1>3, <1>4, <1>5, <1>6, <1>7, <1>8, <1>9, <1>10, <1>11, <1>12 DEF PaddleNext

\* A sender that starts to send, or whose input has been served, and the others as they were.
Begins(s, x) ==
    /\ IsIdle(s)
    /\ ~IsIdle(s)' /\ \A y : Sends(s, y)' <=> y = x
    /\ \A t \in Senders \ {s} : (IsIdle(t)' <=> IsIdle(t)) /\ \A y : Sends(t, y)' <=> Sends(t, y)
Ends(s) ==
    /\ IsIdle(s)'
    /\ \A t \in Senders \ {s} : (IsIdle(t)' <=> IsIdle(t)) /\ \A y : Sends(t, y)' <=> Sends(t, y)
SameSends ==
    \A t \in Senders : (IsIdle(t)' <=> IsIdle(t)) /\ \A y : Sends(t, y)' <=> Sends(t, y)

\* No step takes a sender's part for another's.
LEMMA SendersStep == PaddleTypeOK /\ SendersInv /\ [PaddleNext]_paddleVars => SendersInv'
<1> SUFFICES ASSUME PaddleTypeOK, SendersInv, [PaddleNext]_paddleVars PROVE SendersInv'
  OBVIOUS
<1>t. /\ lock \in Locks /\ escape \in Dirs \cup {NoDir} /\ sending \in [Senders -> Sendings]
  BY DEF PaddleTypeOK, Sendings, Locks
<1>k. \A d \in Dirs : Halt(d) \in Inputs /\ Go(d) \in Inputs
  BY KindsOfInput
<1>r. Roles
  BY Distinct
<1>i. \A s \in Senders : sending[s].at = "idle" => IsIdle(s)
  BY DEF SendersInv
\* What is to be shown, for each way in which the senders change.
<1> DEFINE Shown == \A t \in Senders : sending'[t].at = "idle" => IsIdle(t)'
<1>u. UNCHANGED sending => SameSends /\ Shown
  BY <1>i DEF SameSends, IsIdle, Sends
<1>l. \A s \in Senders, x \in Inputs :
         IsIdle(s) /\ sending' = [sending EXCEPT ![s] = Sent(x)] => Begins(s, x) /\ Shown
  <2> SUFFICES ASSUME NEW s \in Senders, NEW x \in Inputs, IsIdle(s),
                      sending' = [sending EXCEPT ![s] = Sent(x)]
               PROVE  Begins(s, x) /\ Shown
    OBVIOUS
  <2>1. Begins(s, x) /\ sending'[s].at = "sent" /\ \A t \in Senders \ {s} :
            sending'[t] = sending[t]
    BY <1>t, Launches DEF Begins
  <2>2. Shown
    BY <1>i, <2>1 DEF IsIdle
  <2> QED
    BY <2>1, <2>2
<1>f. \A s \in Senders : sending' = [sending EXCEPT ![s] = Idle] => Ends(s) /\ Shown
  <2> SUFFICES ASSUME NEW s \in Senders, sending' = [sending EXCEPT ![s] = Idle]
               PROVE  Ends(s) /\ Shown
    OBVIOUS
  <2>1. Ends(s) /\ \A t \in Senders \ {s} : sending'[t] = sending[t]
    BY <1>t, Finishes DEF Ends
  <2>2. Shown
    BY <1>i, <2>1 DEF IsIdle, Ends
  <2> QED
    BY <2>1, <2>2
<1>w. \A s \in Senders, a \in {"full", "popped"} :
         ~IsIdle(s) /\ sending' = [sending EXCEPT ![s].at = a] => SameSends /\ Shown
  <2> SUFFICES ASSUME NEW s \in Senders, NEW a \in {"full", "popped"}, ~IsIdle(s),
                      sending' = [sending EXCEPT ![s].at = a]
               PROVE  SameSends /\ Shown
    OBVIOUS
  <2>1. SameSends /\ sending'[s].at = a /\ \A t \in Senders \ {s} : sending'[t] = sending[t]
    BY <1>t, Waits DEF SameSends
  <2>2. Shown
    BY <1>i, <2>1 DEF IsIdle
  <2> QED
    BY <2>1, <2>2
<1>g. \A d \in Dirs : Free # {} /\ SendGo(d) => Shown /\ \E p \in Presses : Begins(p, Go(d))
  BY <1>k, <1>l, <1>r, NextSender DEF Roles
<1>s. SendersInv' <=>
        /\ Shown
        /\ \A p \in Presses : IsIdle(p)' \/ \E d \in Dirs : Sends(p, Go(d))'
        /\ IsIdle(Opponent)' \/ Sends(Opponent, Foe)'
        /\ lock' = "free" => IsIdle(Holder)'
        /\ IsIdle(Holder)' \/ \E d \in Dirs : Sends(Holder, Halt(d))'
        /\ \A d \in Dirs : lock' = Switching(d) => IsIdle(Holder)' \/
               Sends(Holder, Halt(Other(d)))'
        /\ IsIdle(Escaper)' \/ (escape' # NoDir /\ Sends(Escaper, Halt(escape))')
  BY DEF SendersInv
<1>q. UNCHANGED <<lock, escape>> /\ SameSends /\ Shown => SendersInv'
  BY <1>r, <1>s DEF SendersInv, SameSends, Roles
<1> HIDE DEF Shown
<1>1. ASSUME NEW d \in Dirs, Press(d) PROVE SendersInv'
  <2>1. lock = "free" /\ IsIdle(Holder) /\ escape' = escape
    BY <1>1 DEF Press, SendersInv
  <2>2. CASE pressed[Other(d)]
    <3>1. lock' = Switching(d) /\ Shown /\ Begins(Holder, Halt(Other(d)))
      BY <1>1, <1>k, <1>l, <1>r, <2>1, <2>2, Keys DEF Press, Roles
    <3>2. \A e \in Dirs : lock' = Switching(e) => e = d
      BY <3>1, Keys
    <3> QED
      BY <1>r, <1>s, <2>1, <3>1, <3>2, Keys DEF SendersInv, Begins, Roles
  <2>3. CASE ~pressed[Other(d)]
    <3>1. lock' = lock /\ Shown /\ \E p \in Presses : Begins(p, Go(d))
      BY <1>1, <1>g, <2>3 DEF Press
    <3> QED
      BY <1>r, <1>s, <2>1, <3>1 DEF SendersInv, Begins, Roles
  <2> QED
    BY <2>2, <2>3
<1>2. ASSUME NEW d \in Dirs, Switched(d) PROVE SendersInv'
  <2>1. lock' = "free" /\ IsIdle(Holder) /\ escape' = escape
    BY <1>2 DEF Switched
  <2>2. Shown /\ \E p \in Presses : Begins(p, Go(d))
    BY <1>2, <1>g DEF Switched
  <2> QED
    BY <1>r, <1>s, <2>1, <2>2, Keys DEF SendersInv, Begins, Roles
<1>3. ASSUME NEW d \in Dirs, TimerFires(d) PROVE SendersInv'
  BY <1>3, <1>q, <1>u DEF TimerFires
<1>4. ASSUME NEW d \in Dirs, AutoRelease(d) PROVE SendersInv'
  <2>1. CASE pressed[d]
    <3>1. lock = "free" /\ IsIdle(Holder) /\ escape' = escape /\ lock' = "timer"
      BY <1>4, <2>1 DEF AutoRelease, SendersInv
    <3>2. Shown /\ Begins(Holder, Halt(d))
      BY <1>4, <1>k, <1>l, <1>r, <2>1, <3>1 DEF AutoRelease, Roles
    <3> QED
      BY <1>r, <1>s, <3>1, <3>2, Keys DEF SendersInv, Begins, Roles
  <2>2. CASE ~pressed[d]
    BY <1>4, <1>q, <1>u, <2>2 DEF AutoRelease
  <2> QED
    BY <2>1, <2>2
<1>5. CASE AutoReleased
  <2>1. SameSends /\ Shown /\ IsIdle(Holder) /\ lock' = "free" /\ escape' = escape
    BY <1>5, <1>u DEF AutoReleased
  <2> QED
    BY <1>r, <1>s, <2>1, Keys DEF SendersInv, SameSends, Roles
<1>6. CASE Escape
  <2>1. escape = NoDir /\ lock' = lock /\ IsIdle(Escaper)
    BY <1>6 DEF Escape, SendersInv
  <2>2. PICK d \in Dirs : escape' = d /\ sending' = [sending EXCEPT ![Escaper] = Sent(Halt(d))]
    BY <1>6 DEF Escape
  <2>3. Shown /\ Begins(Escaper, Halt(d))
    BY <1>k, <1>l, <1>r, <2>1, <2>2 DEF Roles
  <2> QED
    BY <1>r, <1>s, <2>1, <2>2, <2>3, Keys DEF SendersInv, Begins, Roles
<1>7. CASE Escaped
  <2>1. lock' = lock /\ IsIdle(Escaper)
    BY <1>7 DEF Escaped
  <2>2. CASE escape' = Down /\ sending' = [sending EXCEPT ![Escaper] = Sent(Halt(Down))]
    <3>1. Shown /\ Begins(Escaper, Halt(Down))
      BY <1>k, <1>l, <1>r, <2>1, <2>2, Keys DEF Roles
    <3> QED
      BY <1>r, <1>s, <2>1, <2>2, <3>1, Keys DEF SendersInv, Begins, Roles
  <2>3. CASE escape' = NoDir /\ sending' = sending
    BY <1>r, <1>s, <1>u, <2>1, <2>3 DEF SendersInv, SameSends, Roles
  <2> QED
    BY <1>7, <2>2, <2>3 DEF Escaped
<1>8. CASE OpponentSends
  <2>1. IsIdle(Opponent) /\ UNCHANGED <<lock, escape>>
    BY <1>8 DEF OpponentSends, keyVars
  <2>2. CASE sending' = sending
    BY <1>q, <1>u, <2>1, <2>2
  <2>3. CASE sending' = [sending EXCEPT ![Opponent] = [at |-> "full", input |-> Foe]]
    <3>1. sending'[Opponent].at = "full" /\ sending'[Opponent].input = Foe
          /\ \A t \in Senders \ {Opponent} : sending'[t] = sending[t]
      BY <1>t, <1>r, <2>3 DEF Roles
    <3>2. Shown /\ Begins(Opponent, Foe)
      BY <1>i, <2>1, <3>1 DEF Shown, Begins, IsIdle, Idle, Sends
    <3> QED
      BY <1>r, <1>s, <2>1, <3>2 DEF SendersInv, Begins, Roles
  <2> QED
    BY <1>8, <2>2, <2>3 DEF OpponentSends
<1>9. CASE ReadInput \/ StopPaddle
  BY <1>9, <1>q, <1>u DEF ReadInput, StopPaddle, keyVars
<1>10. ASSUME NEW s \in Senders, Serve(s) \/ CallFails(s) PROVE SendersInv'
  <2>1. /\ ~IsIdle(s) /\ UNCHANGED <<lock, escape>>
        /\ Enters(s, sending[s].input) \/ Lost(s, sending[s].input) \/ Postponed(s)
    BY <1>10, ServeCases DEF keyVars
  <2>2. CASE Postponed(s)
    BY <1>q, <1>w, <2>1, <2>2 DEF Postponed
  <2>3. CASE ~Postponed(s)
    <3>1. Ends(s) /\ Shown
      BY <1>f, <2>1, <2>3 DEF Enters, Lost
    <3> QED
      BY <1>r, <1>s, <2>1, <3>1 DEF SendersInv, Ends, Roles
  <2> QED
    BY <2>2, <2>3
<1>11. CASE UNCHANGED paddleVars
  BY <1>11, <1>q, <1>u DEF paddleVars
<1> QED
  BY <1>1, <1>2, <1>3, <1>4, <1>5, <1>6, <1>7, <1>8, <1>9, <1>10, <1>11 DEF PaddleNext

\* A release at the end of the queue settles its direction, ...
LEMMA AppendedStop ==
    ASSUME NEW q \in Seq(Inputs), NEW v, NEW d \in Dirs
    PROVE  Settles(Append(q, Halt(d)), v, d)
<1> DEFINE n == Len(q) + 1
<1>1. /\ n \in DOMAIN Append(q, Halt(d)) /\ Append(q, Halt(d))[n] = Halt(d)
      /\ \A j \in DOMAIN Append(q, Halt(d)) : ~(j > n)
  <2>1. Halt(d) \in Inputs
    BY KindsOfInput
  <2> QED
    BY <2>1
<1> QED
  BY <1>1 DEF Settles

\* ... which only a press of the same key unsettles.
LEMMA AppendedOther ==
    ASSUME NEW q \in Seq(Inputs), NEW x \in Inputs, NEW v, NEW d \in Dirs,
           x # Go(d), Settles(q, v, d)
    PROVE  Settles(Append(q, x), v, d)
<1> DEFINE r == Append(q, x)
           n == Len(q) + 1
<1>1. /\ DOMAIN q = 1..Len(q) /\ DOMAIN r = 1..n /\ r[n] = x
      /\ \A i \in 1..Len(q) : i \in 1..n /\ r[i] = q[i]
      /\ \A i \in 1..n : i \in 1..Len(q) \/ i = n
  OBVIOUS
<1> HIDE DEF r, n
<1>2. CASE v # d /\ \A i \in DOMAIN q : q[i] # Go(d)
  BY <1>1, <1>2 DEF Settles, r
<1>3. ASSUME NEW i \in DOMAIN q, q[i] = Halt(d), \A j \in DOMAIN q : j > i => q[j] # Go(d)
      PROVE  Settles(Append(q, x), v, d)
  <2>1. i \in DOMAIN r /\ r[i] = Halt(d)
    BY <1>1, <1>3
  <2>2. \A j \in DOMAIN r : j > i => r[j] # Go(d)
    BY <1>1, <1>3
  <2> QED
    BY <2>1, <2>2 DEF Settles, r
<1> QED
  BY <1>2, <1>3 DEF Settles

LEMMA Shifted ==
    ASSUME NEW q \in Seq(Inputs), q # <<>>
    PROVE  /\ Tail(q) \in Seq(Inputs) /\ Head(q) = q[1] /\ 1 \in DOMAIN q
           /\ \A i \in DOMAIN Tail(q) : i \in Nat /\ i + 1 \in DOMAIN q /\ Tail(q)[i] = q[i + 1]
           /\ \A i \in DOMAIN q : i \in Nat /\ (i # 1 => i - 1 \in DOMAIN Tail(q))
  OBVIOUS

\* A release that is not the first entry still settles when the first is gone.
LEMMA Behind ==
    ASSUME NEW q \in Seq(Inputs), q # <<>>, NEW v, NEW d \in Dirs,
           NEW i \in DOMAIN q, i # 1, q[i] = Halt(d), \A j \in DOMAIN q : j > i => q[j] # Go(d)
    PROVE  Settles(Tail(q), v, d)
<1>1. i - 1 \in DOMAIN Tail(q) /\ Tail(q)[i - 1] = Halt(d) /\ i \in Nat
  BY Shifted
<1>2. ASSUME NEW j \in DOMAIN Tail(q), j > i - 1 PROVE Tail(q)[j] # Go(d)
  <2>1. j \in Nat /\ j + 1 \in DOMAIN q /\ Tail(q)[j] = q[j + 1]
    BY Shifted
  <2>2. j + 1 > i
    BY <1>1, <1>2, <2>1
  <2> QED
    BY <2>1, <2>2
<1> QED
  BY <1>1, <1>2 DEF Settles

\* An entry that is dropped, and is no release, settles no less; ...
LEMMA Dropped ==
    ASSUME NEW q \in Seq(Inputs), q # <<>>, Head(q).stop = FALSE, NEW v, NEW d \in Dirs,
           Settles(q, v, d)
    PROVE  Settles(Tail(q), v, d)
<1>1. CASE v # d /\ \A i \in DOMAIN q : q[i] # Go(d)
  BY <1>1, Shifted DEF Settles
<1>2. ASSUME NEW i \in DOMAIN q, q[i] = Halt(d), \A j \in DOMAIN q : j > i => q[j] # Go(d)
      PROVE  Settles(Tail(q), v, d)
  <2>1. i # 1
    BY <1>2, Shifted, KindsOfInput
  <2> QED
    BY <1>2, <2>1, Behind
<1> QED
  BY <1>1, <1>2 DEF Settles

\* The velocity after the engine has read x.
After(x, v) == CASE x = Foe -> v
                 [] x # Foe /\ ~x.stop -> x.dir
                 [] x.stop -> IF v = x.dir THEN NoDir ELSE v

LEMMA AfterEach ==
    ASSUME NEW v, NEW d \in Dirs
    PROVE  /\ After(Foe, v) = v /\ After(Go(d), v) = d
           /\ After(Halt(d), v) = IF v = d THEN NoDir ELSE v
<1>1. After(Foe, v) = v
  BY KindsOfInput DEF After
<1>2. Go(d) # Foe /\ Go(d).stop = FALSE /\ Go(d).dir = d
  BY KindsOfInput
<1>3. Halt(d) # Foe /\ Halt(d).stop = TRUE /\ Halt(d).dir = d
  BY KindsOfInput
<1>4. After(Go(d), v) = d
  BY <1>2 DEF After
<1>5. After(Halt(d), v) = IF v = d THEN NoDir ELSE v
  BY <1>3 DEF After
<1> QED
  BY <1>1, <1>4, <1>5

\* ... nor does one the engine reads; ...
LEMMA ReadOne ==
    ASSUME NEW q \in Seq(Inputs), q # <<>>, NEW v, NEW d \in Dirs, Settles(q, v, d)
    PROVE  Settles(Tail(q), After(Head(q), v), d)
<1>1. Head(q) \in Inputs /\ Head(q) = q[1] /\ 1 \in DOMAIN q
  BY Shifted
<1>2. CASE v # d /\ \A i \in DOMAIN q : q[i] # Go(d)
  <2>1. Head(q) # Go(d)
    BY <1>1, <1>2
  <2>2. After(Head(q), v) # d
    <3>1. CASE Head(q) = Foe
      BY <1>2, <3>1, AfterEach
    <3>2. ASSUME NEW e \in Dirs, Head(q) = Go(e) PROVE After(Head(q), v) # d
      BY <2>1, <3>2, AfterEach
    <3>3. ASSUME NEW e \in Dirs, Head(q) = Halt(e) PROVE After(Head(q), v) # d
      BY <1>2, <3>3, AfterEach, Keys
    <3> QED
      BY <1>1, <3>1, <3>2, <3>3, KindsOfInput
  <2>3. \A i \in DOMAIN Tail(q) : Tail(q)[i] # Go(d)
    BY <1>2, Shifted
  <2> QED
    BY <2>2, <2>3 DEF Settles
<1>3. ASSUME NEW i \in DOMAIN q, q[i] = Halt(d), \A j \in DOMAIN q : j > i => q[j] # Go(d)
      PROVE  Settles(Tail(q), After(Head(q), v), d)
  <2>1. CASE i # 1
    BY <1>3, <2>1, Behind
  <2>2. CASE i = 1
    <3>1. After(Head(q), v) # d
      BY <1>1, <1>3, <2>2, AfterEach, Keys
    <3>2. ASSUME NEW j \in DOMAIN Tail(q) PROVE Tail(q)[j] # Go(d)
      <4>1. j \in Nat /\ j + 1 \in DOMAIN q /\ Tail(q)[j] = q[j + 1] /\ j # 0
        BY Shifted
      <4>2. j + 1 > 1
        BY <4>1
      <4> QED
        BY <1>3, <2>2, <4>1, <4>2
    <3> QED
      BY <3>1, <3>2 DEF Settles
  <2> QED
    BY <2>1, <2>2
<1> QED
  BY <1>2, <1>3 DEF Settles

\* ... nor a new round.
LEMMA Rested ==
    ASSUME NEW q, NEW v, NEW d \in Dirs, Settles(q, v, d)
    PROVE  Settles(q, NoDir, d)
  BY Keys DEF Settles

\* The senders look the same to GoSent and Halting.
SameIdle == (IsIdle(Holder)' <=> IsIdle(Holder)) /\ (IsIdle(Escaper)' <=> IsIdle(Escaper))

\* What each move of a sender means to GoSent and Halting: of the opponent nothing, ...
LEMMA NothingSent ==
    ASSUME SameSends \/ Begins(Opponent, Foe) \/ Ends(Opponent)
    PROVE  SameIdle /\ \A d : (GoSent(d)' <=> GoSent(d)) /\ (Halting(d)' <=> Halting(d))
  BY Distinct DEF SameSends, Begins, Ends, SameIdle, GoSent, Halting, Roles

\* ... of a press its Go, ...
LEMMA PressSent ==
    ASSUME NEW p \in Presses, NEW e \in Dirs, Begins(p, Go(e))
    PROVE  /\ SameIdle /\ \A d : Halting(d)' <=> Halting(d)
           /\ \A d \in Dirs : GoSent(d)' <=> GoSent(d) \/ d = e
<1>1. p \in Senders /\ p # Holder /\ p # Escaper /\ Holder \in Senders /\ Escaper \in Senders
  BY Distinct DEF Roles
<1>2. SameIdle /\ \A d : Halting(d)' <=> Halting(d)
  BY <1>1 DEF Begins, SameIdle, Halting
<1>3. ASSUME NEW d \in Dirs PROVE GoSent(d)' <=> GoSent(d) \/ d = e
  <2>1. ASSUME NEW t \in Presses, t # p PROVE Sends(t, Go(d))' <=> Sends(t, Go(d))
    BY <2>1, Distinct DEF Begins, Roles
  <2>2. (Sends(p, Go(d))' <=> d = e) /\ ~Sends(p, Go(d))
    BY KindsOfInput DEF Begins, Sends
  <2> QED
    BY <2>1, <2>2 DEF GoSent
<1> QED
  BY <1>2, <1>3

LEMMA PressServed ==
    ASSUME NEW p \in Presses, Ends(p)
    PROVE  SameIdle /\ \A d : (GoSent(d)' => GoSent(d)) /\ (Halting(d)' <=> Halting(d))
<1>1. p \in Senders /\ p # Holder /\ p # Escaper /\ Holder \in Senders /\ Escaper \in Senders
  BY Distinct DEF Roles
<1>2. SameIdle /\ \A d : Halting(d)' <=> Halting(d)
  BY <1>1 DEF Ends, SameIdle, Halting
<1>3. ASSUME NEW d, GoSent(d)' PROVE GoSent(d)
  <2>1. PICK t \in Presses : Sends(t, Go(d))'
    BY <1>3 DEF GoSent
  <2>2. t # p /\ t \in Senders
    BY <2>1, Distinct DEF Ends, Sends, Roles
  <2> QED
    BY <2>1, <2>2 DEF Ends, GoSent
<1> QED
  BY <1>2, <1>3

\* ... and of a release its Halt.
LEMMA HolderSent ==
    ASSUME NEW e \in Dirs, Begins(Holder, Halt(e))
    PROVE  /\ ~IsIdle(Holder)' /\ (IsIdle(Escaper)' <=> IsIdle(Escaper))
           /\ \A d \in Dirs : (GoSent(d)' <=> GoSent(d)) /\ (Halting(d)' <=> Halting(d) \/ d = e)
  BY Distinct, KindsOfInput DEF Begins, GoSent, Halting, Sends, Roles

LEMMA EscapeSent ==
    ASSUME NEW e \in Dirs, Begins(Escaper, Halt(e))
    PROVE  /\ ~IsIdle(Escaper)' /\ (IsIdle(Holder)' <=> IsIdle(Holder))
           /\ \A d \in Dirs : (GoSent(d)' <=> GoSent(d)) /\ (Halting(d)' <=> Halting(d) \/ d = e)
  BY Distinct, KindsOfInput, SMTT(30) DEF Begins, GoSent, Halting, Sends, Roles

LEMMA StopServed ==
    ASSUME NEW s \in {Holder, Escaper}, NEW e \in Dirs, Sends(s, Halt(e)), Ends(s)
    PROVE  /\ IsIdle(s)' /\ \A t \in {Holder, Escaper} \ {s} : IsIdle(t)' <=> IsIdle(t)
           /\ \A d \in Dirs : /\ GoSent(d)' <=> GoSent(d)
                              /\ d # e => (Halting(d)' <=> Halting(d))
<1>1. /\ s \in Senders /\ s \notin Presses /\ Presses \subseteq Senders /\ Holder # Escaper
      /\ Holder \in Senders /\ Escaper \in Senders
  BY Distinct DEF Roles
<1>2. ASSUME NEW d \in Dirs PROVE GoSent(d)' <=> GoSent(d)
  BY <1>1 DEF Ends, GoSent
<1>3. ASSUME NEW d \in Dirs, d # e PROVE Halting(d)' <=> Halting(d)
  <2>1. ~Sends(s, Halt(d))' /\ ~Sends(s, Halt(d))
    BY <1>3, KindsOfInput DEF Ends, Sends
  <2> QED
    BY <1>1, <2>1 DEF Ends, Halting
<1> QED
  BY <1>1, <1>2, <1>3 DEF Ends

\* A step that takes nothing away from a direction keeps its invariant.
LEMMA StopKept ==
    ASSUME NEW d \in Dirs, StopInv(d), Settled(d) => Settled(d)', pressed'[d] <=> pressed[d],
           Halting(d) => Halting(d)', GoSent(d)' => GoSent(d),
           lock' = Switching(d) => GoComing(d),
           escape' = d /\ IsIdle(Escaper)' => escape = d /\ IsIdle(Escaper),
           lock' = Switching(Other(d)) /\ IsIdle(Holder)' =>
              lock = Switching(Other(d)) /\ IsIdle(Holder)
    PROVE  StopInv(d)'
  BY DEF StopInv, GoComing

\* A release that meets its own press on the way is early.
LEMMA EarlySeen ==
    ASSUME SendersInv, NEW e \in Dirs, GoComing(e)
    PROVE  Early(Halt(e))
<1>1. Halt(e).stop /\ Halt(e).dir = e
  BY KindsOfInput
<1>2. ASSUME NEW p \in Presses, Sends(p, Go(e))
      PROVE  sending[p].at # "idle" /\ sending[p].input = Go(e)
  BY <1>2, Distinct DEF SendersInv, Sends, Roles
<1> QED
  BY <1>1, <1>2 DEF GoComing, GoSent, Early

\* A turn of a sender puts its release behind the press it belongs to.
LEMMA ServeKeepsStop ==
    ASSUME PaddleTypeOK, SendersInv, NEW s \in Senders, Serve(s) \/ CallFails(s), ~slipped',
           \A d \in Dirs : StopInv(d)
    PROVE  \A d \in Dirs : StopInv(d)'
<1> DEFINE x == sending[s].input
<1>1. /\ ~IsIdle(s) /\ x \in Inputs /\ Sends(s, x)
      /\ UNCHANGED <<pressed, lock, escape, vel>>
      /\ Enters(s, x) \/ Lost(s, x) \/ Postponed(s)
  BY ServeCases DEF keyVars, Sends
<1>t. inputch \in Seq(Inputs) /\ sending \in [Senders -> Sendings]
  BY DEF PaddleTypeOK, Sendings
<1> HIDE DEF x
<1>2. CASE Postponed(s)
  <2>1. SameSends
    BY <1>t, <1>1, <1>2, Waits DEF Postponed, SameSends
  <2>2. \A d \in Dirs : Settled(d) => Settled(d)'
    <3>1. \/ inputch' = inputch
          \/ inputch # <<>> /\ inputch' = Tail(inputch) /\ Head(inputch).stop = FALSE
      <4>1. inputch # <<>> => Head(inputch) \in Inputs /\ Head(inputch).stop \in BOOLEAN
        BY <1>t, Shifted, KindsOfInput
      <4> QED
        BY <1>2, <4>1 DEF Postponed
    <3> QED
      BY <1>1, <1>t, <3>1, Dropped DEF Settled
  <2> QED
    BY <1>1, <2>1, <2>2, NothingSent, StopKept DEF SameIdle, GoComing
<1>3. CASE ~Postponed(s)
  <2>1. Ends(s)
    BY <1>1, <1>3, <1>t, Finishes DEF Enters, Lost, Ends
  <2>2. /\ inputch' = inputch \/ inputch' = Append(inputch, x)
        /\ Lost(s, x) => ~x.stop
        /\ ~Lost(s, x) => inputch' = Append(inputch, x) /\ ~Early(x)
    BY <1>1, <1>3 DEF Enters, Lost
  <2>3. ASSUME NEW d \in Dirs, x # Go(d) PROVE Settled(d) => Settled(d)'
    BY <1>t, <1>1, <2>2, <2>3, AppendedOther DEF Settled
  <2>4. CASE s = Opponent
    <3>1. x = Foe
      BY <1>1, <2>4 DEF SendersInv, Sends
    <3> QED
      BY <1>1, <2>1, <2>3, <2>4, <3>1, NothingSent, StopKept, KindsOfInput DEF SameIdle,
         GoComing
  <2>5. CASE s \in Presses
    <3>1. PICK e \in Dirs : x = Go(e)
      BY <1>1, <2>5 DEF SendersInv, Sends
    <3>2. GoSent(e)
      BY <1>1, <2>5, <3>1 DEF GoSent
    <3>3. SameIdle /\ \A d : (GoSent(d)' => GoSent(d)) /\ (Halting(d)' <=> Halting(d))
      BY <2>1, <2>5, PressServed
    <3>4. ASSUME NEW d \in Dirs, d # e PROVE StopInv(d)'
      <4>1. Settled(d) => Settled(d)'
        BY <2>3, <3>1, <3>4, KindsOfInput
      <4> QED
        BY <1>1, <3>3, <4>1, StopKept DEF SameIdle, GoComing
    <3>5. StopInv(e)'
      BY <1>1, <3>2, <3>3, Keys DEF StopInv, GoComing, SameIdle
    <3> QED
      BY <3>4, <3>5
  <2>6. CASE s \in {Holder, Escaper}
    <3>1. PICK e \in Dirs : x = Halt(e) /\ Sends(s, Halt(e))
      BY <1>1, <2>6, Keys DEF SendersInv, Sends, PaddleTypeOK
    <3>2. inputch' = Append(inputch, x) /\ ~GoComing(e)
      BY <2>2, <3>1, EarlySeen, KindsOfInput
    <3>3. Settled(e)'
      <4>1. Settles(Append(inputch, Halt(e)), vel, e)
        BY <1>t, AppendedStop
      <4> QED
        BY <1>1, <3>1, <3>2, <4>1 DEF Settled
    <3>4. /\ IsIdle(s)' /\ \A t \in {Holder, Escaper} \ {s} : IsIdle(t)' <=> IsIdle(t)
          /\ \A d \in Dirs : (GoSent(d)' <=> GoSent(d)) /\ (d # e => (Halting(d)' <=> Halting(d)))
      BY <2>1, <2>6, <3>1, StopServed
    <3>5. StopInv(e)'
      BY <1>1, <3>2, <3>3, <3>4 DEF StopInv, GoComing
    <3>6. ASSUME NEW d \in Dirs, d # e PROVE StopInv(d)'
      <4>1. Settled(d) => Settled(d)'
        BY <2>3, <3>1, KindsOfInput
      <4>2. Other(d) = e /\ lock # Switching(e)
        BY <3>2, <3>6, Keys DEF GoComing
      <4>3. s = Escaper => escape = e
        BY <1>1, <3>1, Keys, KindsOfInput DEF SendersInv, Sends, PaddleTypeOK
      <4>4. escape' = d /\ IsIdle(Escaper)' => escape = d /\ IsIdle(Escaper)
        BY <1>1, <2>6, <3>4, <3>6, <4>3
      <4> QED
        BY <1>1, <3>4, <3>6, <4>1, <4>2, <4>4, StopKept DEF GoComing
    <3> QED
      BY <3>5, <3>6
  <2> QED
    BY <2>4, <2>5, <2>6, Distinct DEF Roles
<1> QED
  BY <1>2, <1>3

\* Unless a release slipped, each step keeps both directions settled or about to be.
LEMMA StopStep ==
    ASSUME PaddleTypeOK, SendersInv, [PaddleNext]_paddleVars, ~slipped',
           ~slipped => \A d \in Dirs : StopInv(d)
    PROVE  \A d \in Dirs : StopInv(d)'
<1>t. /\ lock \in Locks /\ escape \in Dirs \cup {NoDir} /\ sending \in [Senders -> Sendings]
      /\ pressed \in [Dirs -> BOOLEAN] /\ inputch \in Seq(Inputs)
  BY DEF PaddleTypeOK, Sendings, Locks
<1>k. \A d \in Dirs : Halt(d) \in Inputs /\ Go(d) \in Inputs
  BY KindsOfInput
<1>r. Roles
  BY Distinct
<1>s. ~slipped
  BY DEF PaddleNext, Press, Switched, TimerFires, AutoRelease, AutoReleased, Escape, Escaped,
         OpponentSends, ReadInput, StopPaddle, Serve, PutInput, DropOldest, TryAgain, CallFails, Enqueue,
         paddleVars
<1>i. \A d \in Dirs : StopInv(d)
  BY <1>s
<1>u. UNCHANGED sending => SameSends
  BY DEF SameSends, IsIdle, Sends
<1>l. \A s \in Senders, x \in Inputs :
         IsIdle(s) /\ sending' = [sending EXCEPT ![s] = Sent(x)] => Begins(s, x)
  BY <1>t, Launches DEF Begins
<1>g. ASSUME NEW e \in Dirs, Free # {}, SendGo(e)
      PROVE  /\ SameIdle /\ \A d : Halting(d)' <=> Halting(d)
             /\ \A d \in Dirs : GoSent(d)' <=> GoSent(d) \/ d = e
  <2>1. PICK p \in Presses : Begins(p, Go(e))
    BY <1>g, <1>k, <1>l, <1>r, NextSender DEF Roles
  <2> QED
    BY <2>1, PressSent
<1>1. ASSUME NEW e \in Dirs, Press(e) PROVE \A d \in Dirs : StopInv(d)'
  <2>1. /\ lock = "free" /\ IsIdle(Holder) /\ escape' = escape /\ escape # e /\ ~pressed[e]
        /\ pressed'[e] /\ \A d \in Dirs \ {e} : pressed'[d] = pressed[d]
        /\ inputch' = inputch /\ vel' = vel
    BY <1>1, <1>t DEF Press, SendersInv
  <2>2. \A d \in Dirs : Settled(d)' <=> Settled(d)
    BY <2>1 DEF Settled
  <2>3. CASE pressed[Other(e)]
    <3>1. lock' = Switching(e) /\ Begins(Holder, Halt(Other(e)))
      BY <1>1, <1>k, <1>l, <1>r, <2>1, <2>3, Keys DEF Press, Roles
    <3>2. /\ ~IsIdle(Holder)' /\ (IsIdle(Escaper)' <=> IsIdle(Escaper))
          /\ \A d \in Dirs : (GoSent(d)' <=> GoSent(d)) /\
                 (Halting(d)' <=> Halting(d) \/ d = Other(e))
      BY <3>1, HolderSent, Keys
    <3>3. StopInv(e)'
      BY <2>1, <2>2, <3>1, <3>2, Keys DEF StopInv, GoComing
    <3>4. StopInv(Other(e))'
      BY <1>i, <2>1, <2>2, <3>1, <3>2, StopKept, Keys DEF GoComing
    <3> QED
      BY <3>3, <3>4, Keys
  <2>4. CASE ~pressed[Other(e)]
    <3>1. lock' = lock /\ SameIdle /\ (\A d : Halting(d)' <=> Halting(d))
          /\ \A d \in Dirs : GoSent(d)' <=> GoSent(d) \/ d = e
      BY <1>1, <1>g, <2>4 DEF Press
    <3>3. StopInv(e)'
      BY <2>1, <2>2, <3>1, Keys DEF StopInv, GoComing
    <3>4. ASSUME NEW d \in Dirs, d # e PROVE StopInv(d)'
      BY <1>i, <2>1, <2>2, <3>1, <3>4, StopKept, Keys DEF GoComing, SameIdle
    <3> QED
      BY <3>3, <3>4
  <2> QED
    BY <2>3, <2>4
<1>2. ASSUME NEW e \in Dirs, Switched(e) PROVE \A d \in Dirs : StopInv(d)'
  <2>1. /\ lock = Switching(e) /\ lock' = "free" /\ IsIdle(Holder) /\ escape' = escape
        /\ ~pressed'[Other(e)] /\ pressed'[e] = pressed[e]
        /\ inputch' = inputch /\ vel' = vel
    <3>1. pressed' = [pressed EXCEPT ![Other(e)] = FALSE] /\ Other(e) \in Dirs /\ Other(e) # e
      BY <1>2, Keys DEF Switched
    <3>2. ~pressed'[Other(e)] /\ pressed'[e] = pressed[e]
      BY <1>t, <3>1
    <3> QED
      BY <1>2, <3>2 DEF Switched
  <2>2. \A d \in Dirs : Settled(d)' <=> Settled(d)
    BY <2>1 DEF Settled
  <2>3. SameIdle /\ (\A d : Halting(d)' <=> Halting(d))
        /\ \A d \in Dirs : GoSent(d)' <=> GoSent(d) \/ d = e
    BY <1>2, <1>g DEF Switched
  <2>4. GoComing(e)
    BY <2>1 DEF GoComing
  <2>5. StopInv(e)'
    BY <1>i, <2>1, <2>2, <2>3, <2>4, Keys DEF StopInv, SameIdle
  <2>6. Settled(Other(e)) /\ ~GoSent(Other(e))
    BY <1>i, <2>1, Keys DEF StopInv
  <2>7. StopInv(Other(e))'
    BY <2>1, <2>2, <2>3, <2>6, Keys DEF StopInv, GoComing, SameIdle
  <2> QED
    BY <2>5, <2>7, Keys
<1>3. ASSUME NEW e \in Dirs, AutoRelease(e) PROVE \A d \in Dirs : StopInv(d)'
  <2>1. lock = "free" /\ IsIdle(Holder) /\ escape' = escape /\ inputch' = inputch /\ vel' = vel
    BY <1>3 DEF AutoRelease, SendersInv
  <2>2. \A d \in Dirs : Settled(d)' <=> Settled(d)
    BY <2>1 DEF Settled
  <2>3. CASE pressed[e]
    <3>1. lock' = "timer" /\ ~pressed'[e] /\ \A d \in Dirs \ {e} : pressed'[d] = pressed[d]
      BY <1>3, <1>t, <2>3 DEF AutoRelease
    <3>2. Begins(Holder, Halt(e))
      BY <1>3, <1>k, <1>l, <1>r, <2>1, <2>3 DEF AutoRelease, Roles
    <3>3. /\ ~IsIdle(Holder)' /\ (IsIdle(Escaper)' <=> IsIdle(Escaper))
          /\ \A d \in Dirs : (GoSent(d)' <=> GoSent(d)) /\ (Halting(d)' <=> Halting(d) \/ d = e)
      BY <3>2, HolderSent
    <3>4. StopInv(e)'
      BY <1>i, <2>1, <2>2, <3>1, <3>3, Keys DEF StopInv, GoComing
    <3>5. ASSUME NEW d \in Dirs, d # e PROVE StopInv(d)'
      BY <1>i, <2>1, <2>2, <3>1, <3>3, <3>5, StopKept, Keys DEF GoComing
    <3> QED
      BY <3>4, <3>5
  <2>4. CASE ~pressed[e]
    <3>1. UNCHANGED <<lock, pressed, sending>>
      BY <1>3, <2>4 DEF AutoRelease
    <3> QED
      BY <1>i, <1>u, <2>1, <2>2, <3>1, NothingSent, StopKept DEF SameIdle, GoComing
  <2> QED
    BY <2>3, <2>4
<1>4. CASE AutoReleased
  <2>1. /\ lock' = "free" /\ UNCHANGED <<pressed, escape, sending, inputch, vel>>
    BY <1>4 DEF AutoReleased
  <2>2. \A d \in Dirs : Settled(d)' <=> Settled(d)
    BY <2>1 DEF Settled
  <2> QED
    BY <1>i, <1>u, <2>1, <2>2, NothingSent, StopKept, Keys DEF SameIdle, GoComing
<1>5. CASE Escape
  <2>1. escape = NoDir /\ IsIdle(Escaper) /\ UNCHANGED <<pressed, lock, inputch, vel>>
    BY <1>5 DEF Escape, SendersInv
  <2>2. PICK e \in Dirs : escape' = e /\ sending' = [sending EXCEPT ![Escaper] = Sent(Halt(e))]
    BY <1>5 DEF Escape
  <2>3. Begins(Escaper, Halt(e))
    BY <1>k, <1>l, <1>r, <2>1, <2>2 DEF Roles
  <2>4. \A d \in Dirs : Settled(d)' <=> Settled(d)
    BY <2>1 DEF Settled
  <2> QED
    BY <1>i, <2>1, <2>2, <2>3, <2>4, EscapeSent, StopKept DEF GoComing
<1>6. CASE Escaped
  <2>1. /\ escape # NoDir /\ IsIdle(Escaper) /\ UNCHANGED <<lock, inputch, vel>>
        /\ pressed' = [pressed EXCEPT ![escape] = FALSE]
    BY <1>6 DEF Escaped
  <2>2. PICK e \in Dirs : escape = e
    BY <1>t, <2>1
  <2>3. Settled(e) /\ ~GoComing(e)
    BY <1>i, <2>1, <2>2 DEF StopInv
  <2>4. \A d \in Dirs : Settled(d)' <=> Settled(d)
    BY <2>1 DEF Settled
  <2>5. /\ \A d \in Dirs : (GoSent(d)' <=> GoSent(d)) /\ (Halting(d) => Halting(d)')
        /\ IsIdle(Holder)' <=> IsIdle(Holder)
        /\ \A d \in Dirs : ~(escape' = d /\ IsIdle(Escaper)')
    <3>1. CASE escape' = Down /\ sending' = [sending EXCEPT ![Escaper] = Sent(Halt(Down))]
      <4>1. Begins(Escaper, Halt(Down))
        BY <1>k, <1>l, <1>r, <2>1, <3>1, Keys DEF Roles
      <4> QED
        BY <4>1, EscapeSent, Keys
    <3>2. CASE escape' = NoDir /\ sending' = sending
      BY <1>u, <3>2, NothingSent, Keys DEF SameIdle
    <3> QED
      BY <1>6, <3>1, <3>2 DEF Escaped
  <2>6. StopInv(e)'
    BY <1>i, <2>1, <2>2, <2>3, <2>4, <2>5 DEF StopInv, GoComing
  <2>7. ASSUME NEW d \in Dirs, d # e PROVE StopInv(d)'
    <3>1. pressed'[d] = pressed[d]
      BY <1>t, <2>1, <2>2, <2>7
    <3> QED
      BY <1>i, <2>1, <2>4, <2>5, <3>1, StopKept DEF GoComing
  <2> QED
    BY <2>6, <2>7
<1>7. CASE OpponentSends
  <2>1. IsIdle(Opponent) /\ UNCHANGED <<pressed, lock, escape, vel>>
    BY <1>7 DEF OpponentSends, keyVars
  <2>2. SameSends \/ Begins(Opponent, Foe)
    <3>1. CASE sending' = sending
      BY <1>u, <3>1
    <3>2. CASE sending' = [sending EXCEPT ![Opponent] = [at |-> "full", input |-> Foe]]
      <4>1. sending'[Opponent].at = "full" /\ sending'[Opponent].input = Foe
            /\ \A t \in Senders \ {Opponent} : sending'[t] = sending[t]
        BY <1>t, <1>r, <3>2 DEF Roles
      <4> QED
        BY <2>1, <4>1 DEF Begins, IsIdle, Idle, Sends
    <3> QED
      BY <1>7, <3>1, <3>2 DEF OpponentSends
  <2>3. \A d \in Dirs : Settled(d) => Settled(d)'
    <3>1. inputch' = inputch \/ inputch' = Append(inputch, Foe)
      BY <1>7 DEF OpponentSends
    <3>2. Foe \in Inputs /\ \A d \in Dirs : Foe # Go(d)
      BY KindsOfInput
    <3>3. \A d \in Dirs : Settles(inputch, vel, d) => Settles(Append(inputch, Foe), vel, d)
      BY <1>t, <3>2, AppendedOther
    <3> QED
      BY <2>1, <3>1, <3>3 DEF Settled
  <2> QED
    BY <1>i, <2>1, <2>2, <2>3, NothingSent, StopKept DEF SameIdle, GoComing
<1>8. CASE ReadInput
  <2>1. /\ inputch # <<>> /\ inputch' = Tail(inputch) /\ vel' = After(Head(inputch), vel)
        /\ UNCHANGED <<pressed, lock, escape, sending>>
    BY <1>8 DEF ReadInput, After, keyVars
  <2>2. \A d \in Dirs : Settled(d) => Settled(d)'
    BY <1>t, <2>1, ReadOne DEF Settled
  <2> QED
    BY <1>i, <1>u, <2>1, <2>2, NothingSent, StopKept DEF SameIdle, GoComing
<1>9. CASE StopPaddle
  <2>1. /\ vel' = NoDir /\ UNCHANGED <<pressed, lock, escape, sending, inputch>>
    BY <1>9 DEF StopPaddle, keyVars
  <2>2. \A d \in Dirs : Settled(d) => Settled(d)'
    BY <2>1, Rested DEF Settled
  <2> QED
    BY <1>i, <1>u, <2>1, <2>2, NothingSent, StopKept DEF SameIdle, GoComing
<1>10. CASE UNCHANGED <<pressed, lock, escape, sending, inputch, vel>>
  <2>1. \A d \in Dirs : Settled(d) => Settled(d)'
    BY <1>10 DEF Settled
  <2> QED
    BY <1>i, <1>u, <1>10, <2>1, NothingSent, StopKept DEF SameIdle, GoComing
<1>11. \A d \in Dirs : TimerFires(d) => UNCHANGED <<pressed, lock, escape, sending, inputch, vel>>
  BY DEF TimerFires
<1>12. ASSUME NEW s \in Senders, Serve(s) \/ CallFails(s) PROVE \A d \in Dirs : StopInv(d)'
  BY <1>12, <1>i, ServeKeepsStop
<1>13. UNCHANGED paddleVars => UNCHANGED <<pressed, lock, escape, sending, inputch, vel>>
  BY DEF paddleVars
<1> QED
  BY <1>1, <1>2, <1>3, <1>4, <1>5, <1>6, <1>7, <1>8, <1>9, <1>10, <1>11, <1>12, <1>13 DEF
     PaddleNext

LEMMA PaddleInitially == PaddleInit => PaddleInv
<1> SUFFICES ASSUME PaddleInit PROVE PaddleInv
  OBVIOUS
<1>t. PaddleTypeOK
  <2>1. Idle \in Sendings
    BY KindsOfSending
  <2> QED
    <3>1. sending \in [Senders -> Sendings]
      BY <2>1 DEF PaddleInit
    <3>2. inputch \in Seq(Inputs) /\ Len(inputch) <= InputCap
      BY PaddleAssumption DEF PaddleInit
    <3>3. pressed \in [Dirs -> BOOLEAN] /\ armed \in [Dirs -> BOOLEAN] /\
              due \in [Dirs -> 0..MaxDue]
      BY PaddleAssumption DEF PaddleInit
    <3> QED
      BY <3>1, <3>2, <3>3 DEF PaddleInit, PaddleTypeOK, Sendings
<1>1. \A s \in Senders : IsIdle(s)
  BY DEF PaddleInit, IsIdle
<1>2. SendersInv
  BY <1>1, Distinct, Keys DEF PaddleInit, SendersInv, Roles
<1>3. ASSUME NEW d \in Dirs PROVE StopInv(d)
  <2>1. Settled(d)
    BY Keys DEF PaddleInit, Settled, Settles
  <2>2. ~GoComing(d)
    BY <1>1, Distinct, Keys DEF PaddleInit, GoComing, GoSent, Sends, Roles
  <2> QED
    BY <2>1, <2>2, Keys DEF StopInv, GoComing
<1> QED
  BY <1>t, <1>2, <1>3 DEF PaddleInv

(* For any number of presses under way, any delay of a timer and any length of the queue: once   *)
(* no key counts as pressed and every input has been read, the paddle stands still, unless a     *)
(* release was early or dropped or Escape undid a newer press (cmd/pongclient/ui.go and          *)
(* HandlePlayerInput of ponggame/game.go).                                                       *)
THEOREM RestTheorem == PaddleSpec => []PaddleRests
<1>1. PaddleInv /\ [PaddleNext]_paddleVars => PaddleInv'
  BY PaddleTypeStep, SendersStep, StopStep DEF PaddleInv
<1>2. PaddleInv => PaddleRests
  <2> DEFINE quiet == /\ lock = "free" /\ escape = NoDir /\ \A d \in Dirs : ~pressed[d]
                      /\ \A s \in Senders \ {Opponent} : IsIdle(s)
                      /\ \A i \in DOMAIN inputch : inputch[i] = Foe
  <2> SUFFICES ASSUME PaddleInv, quiet, ~slipped PROVE vel = NoDir
    BY DEF PaddleRests
  <2>1. vel \in Dirs \cup {NoDir}
    BY DEF PaddleInv, PaddleTypeOK
  <2>2. ASSUME NEW d \in Dirs PROVE vel # d
    <3>1. Settled(d)
      BY Distinct DEF PaddleInv, StopInv, Halting, Sends, Roles
    <3> QED
      BY <3>1, KindsOfInput DEF Settled, Settles
  <2> QED
    BY <2>1, <2>2
<1> QED
  BY <1>1, <1>2, PaddleInitially, PTL DEF PaddleSpec

KeysInv ==
    /\ pressed \in [Dirs -> BOOLEAN] /\ armed \in [Dirs -> BOOLEAN] /\ due \in [Dirs -> Nat]
    /\ PressIsTimed

(* However many presses are under way, callbacks late and keys switched, a key that counts as   *)
(* pressed will be released by a timer (handleGameInput of cmd/pongclient/ui.go).               *)
THEOREM TimersTheorem == PaddleSpec => []PressIsTimed
<1>1. PaddleInit => KeysInv
  BY DEF PaddleInit, KeysInv, PressIsTimed
<1>2. KeysInv /\ [PaddleNext]_paddleVars => KeysInv'
  <2> SUFFICES ASSUME KeysInv, [PaddleNext]_paddleVars PROVE KeysInv'
    OBVIOUS
  <2> USE DEF KeysInv, PressIsTimed
  <2>1. ASSUME NEW d \in Dirs, Press(d) PROVE KeysInv'
    BY <2>1 DEF Press
  <2>2. ASSUME NEW d \in Dirs, Switched(d) PROVE KeysInv'
    <3>1. Other(d) \in Dirs
      BY Keys
    <3> QED
      BY <2>2, <3>1 DEF Switched
  <2>3. ASSUME NEW d \in Dirs, TimerFires(d) PROVE KeysInv'
    BY <2>3 DEF TimerFires
  <2>4. ASSUME NEW d \in Dirs, AutoRelease(d) PROVE KeysInv'
    <3>1. /\ due[d] > 0 /\ due' = [due EXCEPT ![d] = @ - 1] /\ armed' = armed
          /\ pressed' = [pressed EXCEPT ![d] = FALSE]
      BY <2>4 DEF AutoRelease
    <3> QED
      BY <3>1
  <2>5. CASE Escaped
    BY <2>5 DEF Escaped
  <2>6. CASE UNCHANGED <<pressed, armed, due>>
    BY <2>6
  <2>7. AutoReleased \/ Escape \/ OpponentSends \/ ReadInput \/ StopPaddle
        \/ (\E s \in Senders : Serve(s) \/ CallFails(s)) \/ UNCHANGED paddleVars
        => UNCHANGED <<pressed, armed, due>>
    BY DEF AutoReleased, Escape, OpponentSends, ReadInput, StopPaddle, Serve, PutInput,
           DropOldest, TryAgain, CallFails, keyVars, paddleVars
  <2> QED
    BY <2>1, <2>2, <2>3, <2>4, <2>5, <2>6, <2>7 DEF PaddleNext
<1>3. KeysInv => PressIsTimed
  BY DEF KeysInv
<1> QED
  BY <1>1, <1>2, <1>3, PTL DEF PaddleSpec

-----------------------------------------------------------------------------
(* The results of the graphical client. *)

\* Each call is of an engine that has come; its result, until it is handed over, is of a call
\* that was made; and when the engine is gone, the call is an orphan as long as it is to come.
CallsInv ==
    /\ ~attached => ~listening /\ hand = Nothing /\ engine < MaxEngines
    /\ \A c \in Commands : c[1] > engine => command[c] = "none"
    /\ attached /\ ~listening => \A c \in Commands : c[1] = engine => command[c] = "none"
    /\ \A c \in Commands : OnItsWay(AnswerTo(c)) => command[c] = "put"
    /\ \A c \in Commands : (c[1] < engine \/ ~attached) /\ c \notin orphans =>
          command[c] # "running" /\ ~OnItsWay(AnswerTo(c))
    /\ attached => \A r \in Readers : reader[r] = "on" => r = engine

\* The queue, and the result in hand before it, hold notifications in order, and none is missing
\* after the first but what was robbed.
Queued(i) == results[i].of = "note"
NotesInv ==
    /\ \A i \in DOMAIN results : Queued(i) => results[i].note <= notes
    /\ \A i, j \in DOMAIN results :
          i < j /\ Queued(i) /\ Queued(j) => results[i].note < results[j].note
    /\ hand.of = "note" => /\ hand.note <= notes
                           /\ \A i \in DOMAIN results : Queued(i) => hand.note < results[i].note
    /\ \A m, n \in 1..notes : m < n /\ OnItsWay(NoteResult(m)) =>
          OnItsWay(NoteResult(n)) \/ NoteResult(n) \in robbed

\* What the engine has handled precedes it all.
Last == shown[engine][Len(shown[engine])]
ShownInv ==
    /\ \A e \in Engines : e > engine => shown[e] = <<>>
    /\ ~listening /\ attached => shown[engine] = <<>>
    /\ listening /\ shown[engine] # <<>> =>
          /\ Last <= notes
          /\ \A n \in 1..notes : OnItsWay(NoteResult(n)) => Last < n
          /\ \A n \in (Last + 1)..notes : OnItsWay(NoteResult(n)) \/ NoteResult(n) \in robbed

AnswerAwaits ==
    \A c \in Commands : listening /\ c[1] = engine /\ Open(c) /\ AnswerTo(c) \notin robbed =>
        command[c] = "running" \/ OnItsWay(AnswerTo(c))
OwnAnswers == \A c \in Commands : answeredBy[c] \in {NoCommand, c} \cup orphans
NothingMissed ==
    \A e \in Engines : \A i \in 1..(Len(shown[e]) - 1) :
       LET gap == (shown[e][i] + 1)..(shown[e][i + 1] - 1)
       IN /\ shown[e][i] < shown[e][i + 1]
          /\ \A n \in gap : NoteResult(n) \in robbed

BridgeInv ==
    /\ BridgeTypeOK /\ CallsInv /\ NotesInv /\ ShownInv
    /\ AnswerAwaits /\ OwnAnswers /\ NothingMissed

\* What is put is on its way, besides what was.
LEMMA WayAppended ==
    ASSUME NEW S, results \in Seq(S), NEW r \in S, results' = Append(results, r), hand' = hand
    PROVE  \A x : OnItsWay(x)' <=> OnItsWay(x) \/ x = r
<1> SUFFICES ASSUME NEW x PROVE OnItsWay(x)' <=> OnItsWay(x) \/ x = r
  OBVIOUS
<1>1. /\ Len(results') = Len(results) + 1 /\ results'[Len(results) + 1] = r
      /\ \A i \in 1..Len(results) : results'[i] = results[i]
      /\ DOMAIN results = 1..Len(results) /\ DOMAIN results' = 1..(Len(results) + 1)
      /\ Len(results) \in Nat
  OBVIOUS
<1>2. OnItsWay(x)' => OnItsWay(x) \/ x = r
  BY <1>1 DEF OnItsWay
<1>3. OnItsWay(x) \/ x = r => OnItsWay(x)'
  BY <1>1 DEF OnItsWay
<1> QED
  BY <1>2, <1>3

\* The entries that stay behind the first one.
LEMMA Rest ==
    ASSUME NEW S, results \in Seq(S), results # <<>>, results' = Tail(results)
    PROVE  /\ 1 \in DOMAIN results /\ results[1] = Head(results) /\ Head(results) \in S
           /\ \A i \in DOMAIN results' : i \in 1..Len(results) /\ i + 1 \in DOMAIN results
                                         /\ i \in Nat /\ results'[i] = results[i + 1]
           /\ \A i \in DOMAIN results : i = 1 \/ i - 1 \in DOMAIN results'
  OBVIOUS

\* What a loop takes away is not, ...
LEMMA WayTaken ==
    ASSUME NEW S, results \in Seq(S), results # <<>>, results' = Tail(results), hand' = hand
    PROVE  /\ \A x : OnItsWay(x)' => OnItsWay(x)
           /\ \A x : OnItsWay(x) => OnItsWay(x)' \/ x = Head(results)
<1>1. /\ 1 \in DOMAIN results /\ results[1] = Head(results)
      /\ \A i \in DOMAIN results' : i + 1 \in DOMAIN results /\ results'[i] = results[i + 1]
      /\ \A i \in DOMAIN results : i = 1 \/ (i - 1 \in DOMAIN results' /\ (i - 1) + 1 = i)
  BY Rest
<1>2. ASSUME NEW x, OnItsWay(x)' PROVE OnItsWay(x)
  BY <1>1, <1>2 DEF OnItsWay
<1>3. ASSUME NEW x, OnItsWay(x) PROVE OnItsWay(x)' \/ x = Head(results)
  <2>1. CASE hand = x
    BY <2>1 DEF OnItsWay
  <2>2. ASSUME NEW i \in DOMAIN results, results[i] = x, i # 1 PROVE OnItsWay(x)'
    <3>1. i - 1 \in DOMAIN results' /\ results'[i - 1] = results[(i - 1) + 1] /\ (i - 1) + 1 = i
      BY <1>1, <2>2
    <3> QED
      BY <2>2, <3>1 DEF OnItsWay
  <2> QED
    BY <1>1, <1>3, <2>1, <2>2 DEF OnItsWay
<1> QED
  BY <1>2, <1>3

\* ... but for what the engine's own loop has in hand.
LEMMA WayInHand ==
    ASSUME NEW S, results \in Seq(S), results # <<>>, results' = Tail(results),
           hand' = Head(results), hand = Nothing
    PROVE  \A x : x # Nothing => (OnItsWay(x)' <=> OnItsWay(x))
<1>1. /\ 1 \in DOMAIN results /\ results[1] = Head(results)
      /\ \A i \in DOMAIN results' : i + 1 \in DOMAIN results /\ results'[i] = results[i + 1]
      /\ \A i \in DOMAIN results : i = 1 \/ (i - 1 \in DOMAIN results' /\ (i - 1) + 1 = i)
  BY Rest
<1> QED
  BY <1>1 DEF OnItsWay

\* What kind of result a record is tells whose it is.
LEMMA Kinds ==
    /\ \A x \in Results \cup {Nothing} :
          /\ x.of = "note" => x.note \in 1..MaxNotes /\ x = NoteResult(x.note)
          /\ x.of = "answer" => x.command \in Commands /\ x = AnswerTo(x.command)
    /\ \A c : AnswerTo(c).of = "answer" /\ AnswerTo(c).command = c
    /\ \A n : NoteResult(n).of = "note" /\ NoteResult(n).note = n
    /\ Frame.of = "frame" /\ Nothing.of = "nothing"
  BY DEF Results, AnswerTo, NoteResult, Frame, Nothing

LEMMA BridgeTypeStep == BridgeTypeOK /\ CallsInv /\ [BridgeNext]_bridgeVars => BridgeTypeOK'
<1> SUFFICES ASSUME BridgeTypeOK, CallsInv, [BridgeNext]_bridgeVars PROVE BridgeTypeOK'
  OBVIOUS
<1> USE BridgeAssumption DEF BridgeTypeOK, windowVars, readerVars, Engines
<1>1. CASE Detach
  <2>1. reader' \in [Readers -> {"none", "on", "told", "over"}]
    BY <1>1 DEF Detach, StopReaders, ReplaceReaders, Told
  <2> QED
    BY <1>1, <2>1 DEF Detach
<1>2. CASE Attach
  <2>1. reader' \in [Readers -> {"none", "on", "told", "over"}]
    BY <1>2 DEF Attach, ReplaceReaders, Told
  <2>2. engine' \in 1..MaxEngines
    BY <1>2 DEF Attach, CallsInv
  <2> QED
    BY <1>2, <2>1, <2>2 DEF Attach
<1>3. CASE Listen
  BY <1>3 DEF Listen
<1>4. ASSUME NEW i \in 1..MaxCommands, AsyncCall(i) PROVE BridgeTypeOK'
  BY <1>4 DEF AsyncCall
<1>5. ASSUME NEW c \in Commands, PutAnswer(c) PROVE BridgeTypeOK'
  <2>1. AnswerTo(c) \in Results
    BY DEF Results
  <2>2. results' \in Seq(Results) /\ Len(results') <= ResultCap
    BY <1>5, <2>1 DEF PutAnswer, HasRoom
  <2> QED
    BY <1>5, <2>2 DEF PutAnswer
<1>6. CASE PutNote
  <2>1. notes' \in 1..MaxNotes
    BY <1>6 DEF PutNote
  <2>2. NoteResult(notes') \in Results
    BY <2>1 DEF Results
  <2>3. results' \in Seq(Results) /\ Len(results') <= ResultCap
    BY <1>6, <2>2 DEF PutNote, HasRoom
  <2> QED
    BY <1>6, <2>1, <2>3 DEF PutNote
<1>7. CASE PutFrame
  <2>1. Frame \in Results
    BY DEF Results
  <2>2. results' \in Seq(Results) /\ Len(results') <= ResultCap
    BY <1>7, <2>1 DEF PutFrame, HasRoom
  <2> QED
    BY <1>7, <2>2 DEF PutFrame
<1>8. CASE Take
  <2>1. Head(results) \in Results /\ Tail(results) \in Seq(Results) /\
            Len(Tail(results)) <= ResultCap
    BY <1>8 DEF Take
  <2> QED
    BY <1>8, <2>1 DEF Take
<1>9. CASE HandOver
  <2>1. ASSUME hand.of = "answer"
        PROVE  Completed(hand.command) \in [Commands -> Commands \cup {NoCommand}]
    <3>1. hand.command \in Commands
      BY <2>1, Kinds
    <3> QED
      BY <3>1 DEF Completed
  <2>2. ASSUME hand.of = "note" PROVE hand.note \in 1..MaxNotes
    BY <2>2, Kinds
  <2>3. answeredBy' \in [Commands -> Commands \cup {NoCommand}]
    BY <1>9, <2>1 DEF HandOver
  <2>4. shown' \in [Engines -> Seq(1..MaxNotes)]
    BY <1>9, <2>2 DEF HandOver
  <2> QED
    BY <1>9, <2>3, <2>4 DEF HandOver
<1>10. ASSUME NEW r \in Readers, TakeAway(r) PROVE BridgeTypeOK'
  <2>1. Head(results) \in Results /\ Tail(results) \in Seq(Results) /\
            Len(Tail(results)) <= ResultCap
    BY <1>10 DEF TakeAway
  <2> QED
    BY <1>10, <2>1 DEF TakeAway
<1>11. ASSUME NEW r \in Readers, ReaderStops(r) PROVE BridgeTypeOK'
  BY <1>11 DEF ReaderStops
<1>12. CASE UNCHANGED bridgeVars
  BY <1>12 DEF bridgeVars
<1> QED
  BY <1>1, <1>2, <1>3, <1>4, <1>5, <1>6, <1>7, <1>8, <1>9, <1>10, <1>11, <1>12 DEF BridgeNext

\* The calls and the loops of each engine.
LEMMA CallsStep ==
    BridgeTypeOK /\ BridgeTypeOK' /\ CallsInv /\ [BridgeNext]_bridgeVars => CallsInv'
<1> SUFFICES ASSUME BridgeTypeOK, BridgeTypeOK', CallsInv, [BridgeNext]_bridgeVars
             PROVE  CallsInv'
  OBVIOUS
<1> DEFINE Way(c) == OnItsWay(AnswerTo(c))
<1> USE BridgeAssumption DEF BridgeTypeOK, CallsInv, windowVars, readerVars, Engines, Commands
<1>a. \A c, d : AnswerTo(c) # Nothing /\ AnswerTo(c) # Frame /\ AnswerTo(c) # NoteResult(d)
  BY DEF AnswerTo, Nothing, Frame, NoteResult
<1>b. \A c, d : AnswerTo(c) = AnswerTo(d) => c = d
  BY DEF AnswerTo
<1>1. CASE Detach
  <2>1. \A c \in Commands : Way(c)' => \E i \in DOMAIN results : results[i] = AnswerTo(c)
    BY <1>1, <1>a DEF Detach, OnItsWay
  <2>2. \A c \in Commands : Way(c)' => Way(c) /\ Coming(c)
    BY <2>1 DEF OnItsWay, Coming
  <2>3. \A c \in Commands : c \notin orphans' => command'[c] # "running" /\ ~Way(c)'
    BY <1>1, <2>2 DEF Detach, Coming
  <2> QED
    BY <1>1, <2>2, <2>3 DEF Detach
<1>2. CASE Attach
  <2>1. \A x : OnItsWay(x)' <=> OnItsWay(x)
    BY <1>2 DEF Attach, OnItsWay
  <2>2. engine \in 1..MaxEngines /\ engine' = engine + 1 /\ engine' \in 1..MaxEngines
    BY <1>2 DEF Attach
  <2>3. \A r \in Readers : reader'[r] = "on" => r = engine'
    BY <1>2 DEF Attach, ReplaceReaders, Told
  <2> QED
    BY <1>2, <2>1, <2>2, <2>3 DEF Attach
<1>3. CASE Listen
  <2>1. \A x : OnItsWay(x)' <=> OnItsWay(x)
    BY <1>3 DEF Listen, OnItsWay
  <2> QED
    BY <1>3, <2>1 DEF Listen
<1>4. ASSUME NEW i \in 1..MaxCommands, AsyncCall(i) PROVE CallsInv'
  <2>1. \A x : OnItsWay(x)' <=> OnItsWay(x)
    BY <1>4 DEF AsyncCall, OnItsWay
  <2>2. attached /\ listening /\ UNCHANGED <<engine, attached, listening, orphans, reader, hand>>
    BY <1>4 DEF AsyncCall
  <2>3. \A c \in Commands : c[1] # engine => command'[c] = command[c]
    BY <1>4 DEF AsyncCall
  <2>4. \A c \in Commands : command[c] = "put" => command'[c] = "put"
    BY <1>4 DEF AsyncCall
  <2>5. \A c \in Commands : c[1] < engine \/ c[1] > engine => c[1] # engine
    OBVIOUS
  <2> QED
    BY <2>1, <2>2, <2>3, <2>4, <2>5
<1>5. ASSUME NEW c \in Commands, PutAnswer(c) PROVE CallsInv'
  <2>1. \A x : OnItsWay(x)' <=> OnItsWay(x) \/ x = AnswerTo(c)
    <3>1. AnswerTo(c) \in Results /\ results' = Append(results, AnswerTo(c)) /\ hand' = hand
      BY <1>5 DEF PutAnswer, Results
    <3> QED
      BY <3>1, WayAppended
  <2>2. \A d \in Commands : Way(d)' <=> Way(d) \/ d = c
    BY <2>1, <1>b
  <2>3. \A d \in Commands : command'[d] = IF d = c THEN "put" ELSE command[d]
    BY <1>5 DEF PutAnswer
  <2>4. command[c] = "running" /\ UNCHANGED <<engine, attached, listening, orphans, reader, hand>>
    BY <1>5 DEF PutAnswer
  <2>5. \A d \in Commands : (d[1] < engine \/ ~attached) /\ d \notin orphans =>
            d # c /\ command'[d] # "running" /\ ~Way(d)'
    BY <2>2, <2>3, <2>4
  <2>6. \A d \in Commands : command[d] = "none" => d # c /\ command'[d] = "none"
    BY <2>3, <2>4
  <2>7. ASSUME NEW d \in Commands, Way(d)' PROVE command'[d] = "put"
    <3>1. CASE d = c
      BY <2>3, <3>1
    <3>2. CASE d # c
      BY <2>2, <2>3, <2>7, <3>2
    <3> QED
      BY <3>1, <3>2
  <2> QED
    BY <2>4, <2>5, <2>6, <2>7
<1>6. CASE PutNote
  <2>1. \A c \in Commands : Way(c)' <=> Way(c)
    <3>1. notes' \in 1..MaxNotes => NoteResult(notes') \in Results
      BY DEF Results
    <3>2. NoteResult(notes') \in Results /\ results' = Append(results, NoteResult(notes')) /\
              hand' = hand
      BY <1>6, <3>1 DEF PutNote, Results
    <3>3. \A x : OnItsWay(x)' <=> OnItsWay(x) \/ x = NoteResult(notes')
      BY <3>2, WayAppended
    <3>4. \A c \in Commands : AnswerTo(c) # NoteResult(notes')
      BY <1>a
    <3> QED
      BY <3>3, <3>4
  <2> QED
    BY <1>6, <2>1 DEF PutNote
<1>7. CASE PutFrame
  <2>1. \A c \in Commands : Way(c)' <=> Way(c)
    <3>1. Frame \in Results /\ results' = Append(results, Frame) /\ hand' = hand
      BY <1>7 DEF PutFrame, Results
    <3>2. \A x : OnItsWay(x)' <=> OnItsWay(x) \/ x = Frame
      BY <3>1, WayAppended
    <3>3. \A c \in Commands : AnswerTo(c) # Frame
      BY <1>a
    <3> QED
      BY <3>2, <3>3
  <2> QED
    BY <1>7, <2>1 DEF PutFrame
<1>8. CASE Take
  <2>1. \A c \in Commands : Way(c)' <=> Way(c)
    BY <1>8, <1>a, WayInHand DEF Take
  <2> QED
    BY <1>8, <2>1 DEF Take
<1>9. CASE HandOver
  <2>1. \A c \in Commands : Way(c)' => Way(c)
    BY <1>9, <1>a DEF HandOver, OnItsWay
  <2> QED
    BY <1>9, <2>1 DEF HandOver
<1>10. ASSUME NEW r \in Readers, TakeAway(r) PROVE CallsInv'
  <2>1. \A c \in Commands : Way(c)' => Way(c)
    BY <1>10, WayTaken DEF TakeAway
  <2> QED
    BY <1>10, <2>1 DEF TakeAway
<1>11. ASSUME NEW r \in Readers, ReaderStops(r) PROVE CallsInv'
  <2>1. \A x : OnItsWay(x)' <=> OnItsWay(x)
    BY <1>11 DEF ReaderStops, OnItsWay
  <2> QED
    BY <1>11, <2>1 DEF ReaderStops
<1>12. CASE UNCHANGED bridgeVars
  BY <1>12 DEF bridgeVars, OnItsWay
<1> QED
  BY <1>1, <1>2, <1>3, <1>4, <1>5, <1>6, <1>7, <1>8, <1>9, <1>10, <1>11, <1>12 DEF BridgeNext

\* The notifications on their way stay in order, and only a told loop takes one away.
LEMMA NotesStep ==
    BridgeTypeOK /\ BridgeTypeOK' /\ CallsInv /\ NotesInv /\ [BridgeNext]_bridgeVars => NotesInv'
<1> SUFFICES ASSUME BridgeTypeOK, BridgeTypeOK', CallsInv, NotesInv, [BridgeNext]_bridgeVars
             PROVE  NotesInv'
  OBVIOUS
<1> USE DEF BridgeTypeOK, NotesInv, Queued, windowVars, readerVars
<1> DEFINE Way(n) == OnItsWay(NoteResult(n))
<1>a. /\ \A n : NoteResult(n).of = "note" /\ NoteResult(n).note = n
      /\ \A n : NoteResult(n) # Nothing /\ NoteResult(n) # Frame
      /\ \A n, c : NoteResult(n) # AnswerTo(c)
      /\ Frame.of # "note" /\ Nothing.of # "note" /\ \A c : AnswerTo(c).of # "note"
      /\ \A m, n : NoteResult(m) = NoteResult(n) => m = n
  BY DEF NoteResult, Nothing, Frame, AnswerTo
<1>b. \A n : hand = NoteResult(n) =>
         n = hand.note /\ hand.of = "note" /\ \A i \in DOMAIN results : Queued(i) =>
             n < results[i].note
  BY <1>a
<1>c. ASSUME hand' = Nothing, UNCHANGED <<results, notes, robbed>> PROVE NotesInv'
  <2>1. \A n : Way(n)' <=> \E i \in DOMAIN results : results[i] = NoteResult(n)
    BY <1>a, <1>c DEF OnItsWay
  <2>2. ASSUME NEW m \in 1..notes, NEW n \in 1..notes, m < n, Way(m)'
        PROVE  Way(n)' \/ NoteResult(n) \in robbed
    <3>1. PICK i \in DOMAIN results : results[i] = NoteResult(m)
      BY <2>1, <2>2
    <3>2. Way(m) /\ results[i].of = "note" /\ results[i].note = m
      BY <1>a, <3>1 DEF OnItsWay
    <3>3. hand # NoteResult(n)
      BY <1>b, <2>2, <3>2
    <3> QED
      BY <2>1, <2>2, <3>2, <3>3 DEF OnItsWay
  <2> QED
    BY <1>a, <1>c, <2>2
<1>d. ASSUME NEW x \in Results, results' = Append(results, x), x.of # "note", UNCHANGED <<hand,
                 notes, robbed>>
      PROVE  NotesInv'
  <2>1. \A n : Way(n)' <=> Way(n)
    BY <1>a, <1>d, WayAppended
  <2>2. /\ DOMAIN results' = 1..(Len(results) + 1) /\ DOMAIN results = 1..Len(results)
        /\ results'[Len(results) + 1] = x /\ Len(results) \in Nat
        /\ \A i \in 1..Len(results) : results'[i] = results[i]
    BY <1>d
  <2>3. \A i \in DOMAIN results' : Queued(i)' => i \in DOMAIN results /\ Queued(i) /\
            results'[i] = results[i]
    BY <1>d, <2>2
  <2>4. /\ \A i \in DOMAIN results' : Queued(i)' => results'[i].note <= notes'
        /\ \A i, j \in DOMAIN results' : i < j /\ Queued(i)' /\ Queued(j)' =>
               results'[i].note < results'[j].note
    BY <1>d, <2>3
  <2>5. hand'.of = "note" => /\ hand'.note <= notes'
                             /\ \A i \in DOMAIN results' : Queued(i)' =>
                                    hand'.note < results'[i].note
    BY <1>d, <2>3
  <2>6. \A m, n \in 1..notes' : m < n /\ Way(m)' => Way(n)' \/ NoteResult(n) \in robbed'
    BY <1>d, <2>1
  <2> QED
    BY <2>4, <2>5, <2>6
<1>e. ASSUME results' = Tail(results), results # <<>>, UNCHANGED notes
      PROVE  /\ \A i \in DOMAIN results' : Queued(i)' => results'[i].note <= notes'
             /\ \A i, j \in DOMAIN results' :
                   i < j /\ Queued(i)' /\ Queued(j)' => results'[i].note < results'[j].note
             /\ Head(results).of = "note" =>
                   /\ Head(results).note <= notes
                   /\ \A i \in DOMAIN results' : Queued(i)' =>
                          Head(results).note < results'[i].note
             /\ hand.of = "note" => \A i \in DOMAIN results' : Queued(i)' =>
                    hand.note < results'[i].note
  <2>1. /\ 1 \in DOMAIN results /\ results[1] = Head(results)
        /\ \A i \in DOMAIN results' : i + 1 \in DOMAIN results /\ i \in 1..Len(results)
                                     /\ results'[i] = results[i + 1]
    BY <1>e, Rest
  <2>2. \A i \in DOMAIN results' : i \in Nat /\ i + 1 > 1
    BY <2>1
  <2> QED
    BY <1>e, <2>1, <2>2
<1>1. CASE Detach
  BY <1>1, <1>c DEF Detach
<1>2. CASE Attach
  <2>1. UNCHANGED <<results, hand, notes, robbed>>
    BY <1>2 DEF Attach
  <2> QED
    BY <2>1 DEF OnItsWay
<1>3. CASE Listen
  <2>1. UNCHANGED <<results, hand, notes, robbed>>
    BY <1>3 DEF Listen
  <2> QED
    BY <2>1 DEF OnItsWay
<1>4. ASSUME NEW i \in 1..MaxCommands, AsyncCall(i) PROVE NotesInv'
  <2>1. UNCHANGED <<results, hand, notes, robbed>>
    BY <1>4 DEF AsyncCall
  <2> QED
    BY <2>1 DEF OnItsWay
<1>5. ASSUME NEW c \in Commands, PutAnswer(c) PROVE NotesInv'
  <2>1. AnswerTo(c) \in Results
    BY DEF Results
  <2> QED
    BY <1>5, <1>a, <1>d, <2>1 DEF PutAnswer
<1>6. CASE PutNote
  <2> DEFINE x == NoteResult(notes')
  <2>1. notes' = notes + 1 /\ notes' \in 1..MaxNotes /\ UNCHANGED <<hand, robbed>>
    BY <1>6 DEF PutNote
  <2>2. x \in Results /\ results' = Append(results, x)
    BY <1>6, <2>1 DEF PutNote, Results
  <2>3. \A n : Way(n)' <=> Way(n) \/ n = notes'
    <3>1. \A y : OnItsWay(y)' <=> OnItsWay(y) \/ y = x
      BY <2>1, <2>2, WayAppended
    <3> QED
      BY <1>a, <3>1
  <2>4. /\ DOMAIN results' = 1..(Len(results) + 1) /\ DOMAIN results = 1..Len(results)
        /\ results'[Len(results) + 1] = x /\ Len(results) \in Nat
        /\ \A i \in 1..Len(results) : results'[i] = results[i]
    BY <2>2
  <2>5. x.of = "note" /\ x.note = notes + 1
    BY <1>a, <2>1
  <2> HIDE DEF x
  <2>6. \A i \in DOMAIN results : Queued(i) => results[i].note \in Nat /\
            results[i].note < notes + 1
    <3>1. \A i \in DOMAIN results : Queued(i) => results[i].note \in 1..MaxNotes
      BY Kinds
    <3> QED
      BY <3>1
  <2>7. \A i \in DOMAIN results' :
           \/ i \in DOMAIN results /\ i <= Len(results) /\ results'[i] = results[i]
           \/ i = Len(results) + 1 /\ results'[i].of = "note" /\ results'[i].note = notes + 1
    BY <2>4, <2>5
  <2>8. ASSUME NEW i \in DOMAIN results', Queued(i)'
        PROVE  /\ results'[i].note <= notes'
               /\ hand.of = "note" => hand.note < results'[i].note
    <3>1. hand.of = "note" => hand.note \in Nat /\ hand.note <= notes
      BY Kinds
    <3> QED
      BY <2>1, <2>6, <2>7, <2>8, <3>1, SMTT(30)
  <2>9. ASSUME NEW i \in DOMAIN results', NEW j \in DOMAIN results', i < j, Queued(i)', Queued(j)'
        PROVE  results'[i].note < results'[j].note
    <3>1. i \in DOMAIN results /\ results'[i] = results[i]
      BY <2>4, <2>7, <2>9
    <3>2. CASE j = Len(results) + 1
      BY <2>4, <2>5, <2>6, <2>9, <3>1, <3>2
    <3>3. CASE j \in DOMAIN results /\ results'[j] = results[j]
      BY <2>9, <3>1, <3>3
    <3> QED
      BY <2>7, <3>2, <3>3
  <2>10. \A m, n \in 1..notes' : m < n /\ Way(m)' => Way(n)' \/ NoteResult(n) \in robbed'
    <3>1. SUFFICES ASSUME NEW m \in 1..notes', NEW n \in 1..notes', m < n, Way(m)', n # notes'
                   PROVE  Way(n)' \/ NoteResult(n) \in robbed
      BY <2>1, <2>3
    <3>2. m \in 1..notes /\ n \in 1..notes /\ Way(m)
      BY <2>1, <2>3, <3>1
    <3> QED
      BY <2>3, <3>1, <3>2
  <2>11. hand'.of = "note" => hand'.note <= notes'
    BY <2>1, Kinds
  <2> QED
    BY <2>1, <2>8, <2>9, <2>10, <2>11
<1>7. CASE PutFrame
  <2>1. Frame \in Results
    BY DEF Results
  <2> QED
    BY <1>7, <1>a, <1>d, <2>1 DEF PutFrame
<1>8. CASE Take
  <2>1. /\ results' = Tail(results) /\ results # <<>> /\ hand' = Head(results) /\ hand = Nothing
        /\ UNCHANGED <<notes, robbed>>
    BY <1>8 DEF Take
  <2>2. \A n : Way(n)' <=> Way(n)
    BY <1>a, <2>1, WayInHand
  <2>3. \A m, n \in 1..notes' : m < n /\ Way(m)' => Way(n)' \/ NoteResult(n) \in robbed'
    BY <2>1, <2>2
  <2> QED
    BY <1>e, <2>1, <2>3
<1>9. CASE HandOver
  BY <1>9, <1>c DEF HandOver
<1>10. ASSUME NEW r \in Readers, TakeAway(r) PROVE NotesInv'
  <2>1. /\ results' = Tail(results) /\ results # <<>> /\ UNCHANGED <<hand, notes>>
        /\ robbed \subseteq robbed'
    BY <1>10 DEF TakeAway
  <2>2. (\A n : Way(n)' => Way(n)) /\ \A n : Way(n) => Way(n)' \/ NoteResult(n) = Head(results)
    BY <2>1, WayTaken
  <2>3. ASSUME NEW m \in 1..notes, NEW n \in 1..notes, m < n, Way(m)',
                   NoteResult(n) = Head(results)
        PROVE  NoteResult(n) \in robbed'
    <3>1. CASE reader[r] = "told"
      BY <1>10, <1>a, <2>3, <3>1 DEF TakeAway
    <3>2. CASE reader[r] = "on"
      <4>1. hand = Nothing
        BY <1>10, <3>2 DEF TakeAway, Served, CallsInv
      <4>2. PICK i \in DOMAIN results' : results'[i] = NoteResult(m)
        BY <1>a, <2>1, <2>3, <4>1 DEF OnItsWay
      <4>3. Queued(i)' /\ results'[i].note = m /\ Head(results).of = "note" /\
                Head(results).note = n
        BY <1>a, <2>3, <4>2
      <4>4. n < m
        BY <1>e, <2>1, <4>3
      <4> QED
        BY <2>3, <4>4
    <3> QED
      BY <1>10, <3>1, <3>2 DEF TakeAway
  <2>4. \A m, n \in 1..notes' : m < n /\ Way(m)' => Way(n)' \/ NoteResult(n) \in robbed'
    BY <2>1, <2>2, <2>3
  <2> QED
    BY <1>e, <2>1, <2>4
<1>11. ASSUME NEW r \in Readers, ReaderStops(r) PROVE NotesInv'
  <2>1. UNCHANGED <<results, hand, notes, robbed>>
    BY <1>11 DEF ReaderStops
  <2> QED
    BY <2>1 DEF OnItsWay
<1>12. CASE UNCHANGED bridgeVars
  BY <1>12 DEF bridgeVars, OnItsWay
<1> QED
  BY <1>1, <1>2, <1>3, <1>4, <1>5, <1>6, <1>7, <1>8, <1>9, <1>10, <1>11, <1>12 DEF BridgeNext

LEMMA LastOne == ASSUME NEW S, NEW s \in Seq(S), s # <<>> PROVE s[Len(s)] \in S
  OBVIOUS

\* The engine's loop hands on what it took, and it took the first.
LEMMA ShownStep ==
    ASSUME BridgeTypeOK, BridgeTypeOK', CallsInv, NotesInv, ShownInv, NothingMissed,
               [BridgeNext]_bridgeVars
    PROVE  ShownInv' /\ NothingMissed'
<1> USE BridgeAssumption DEF BridgeTypeOK, windowVars, readerVars, Engines
<1> DEFINE Way(n) == OnItsWay(NoteResult(n))
           Goal == ShownInv' /\ NothingMissed'
<1>a. /\ \A n : NoteResult(n).of = "note" /\ NoteResult(n).note = n
      /\ \A n : NoteResult(n) # Nothing /\ NoteResult(n) # Frame
      /\ \A n, c : NoteResult(n) # AnswerTo(c)
      /\ \A m, n : NoteResult(m) = NoteResult(n) => m = n
  BY DEF NoteResult, Nothing, Frame, AnswerTo
<1>b. ASSUME UNCHANGED <<engine, attached, listening, shown>>, robbed \subseteq robbed',
                 notes' \in Nat, notes <= notes',
             \A n \in 1..notes' : Way(n)' => Way(n) \/ n > notes,
             \A n \in 1..notes : Way(n) => Way(n)' \/ NoteResult(n) \in robbed',
             \A n \in 1..notes' : n > notes => Way(n)'
      PROVE  Goal
  <2>1. NothingMissed'
    BY <1>b DEF NothingMissed
  <2>2. ASSUME listening, shown[engine] # <<>>
        PROVE  /\ Last <= notes'
               /\ \A n \in 1..notes' : Way(n)' => Last < n
               /\ \A n \in (Last + 1)..notes' : Way(n)' \/ NoteResult(n) \in robbed'
    <3>1. /\ Last \in 1..MaxNotes /\ Last <= notes
          /\ \A n \in 1..notes : Way(n) => Last < n
          /\ \A n \in (Last + 1)..notes : Way(n) \/ NoteResult(n) \in robbed
      <4>1. shown[engine] \in Seq(1..MaxNotes)
        OBVIOUS
      <4>2. Last \in 1..MaxNotes
        BY <2>2, <4>1, LastOne DEF Last
      <4> QED
        BY <2>2, <4>2 DEF ShownInv
    <3>2. \A n \in 1..notes' : n <= notes => n \in 1..notes
      OBVIOUS
    <3>3. \A n \in (Last + 1)..notes' : n \in 1..notes' /\ (n <= notes => n \in (Last + 1)..notes)
      BY <3>1
    <3>4. Last <= notes' /\ Last \in Nat /\ notes \in Nat
      BY <1>b, <3>1
    <3>5. ASSUME NEW n \in 1..notes', Way(n)' PROVE Last < n
      <4>1. CASE n > notes
        BY <3>1, <3>4, <4>1
      <4>2. CASE n <= notes
        BY <1>b, <3>1, <3>2, <3>5, <4>2
      <4> QED
        BY <3>4, <4>1, <4>2
    <3>6. ASSUME NEW n \in (Last + 1)..notes' PROVE Way(n)' \/ NoteResult(n) \in robbed'
      <4>1. CASE n > notes
        BY <1>b, <3>3, <4>1
      <4>2. CASE n <= notes
        BY <1>b, <3>1, <3>2, <3>3, <4>2
      <4> QED
        BY <3>3, <3>4, <4>1, <4>2
    <3> QED
      BY <3>4, <3>5, <3>6
  <2>3. Last' = Last
    BY <1>b DEF Last
  <2>4. listening' /\ shown'[engine'] # <<>> =>
           /\ Last' <= notes'
           /\ \A n \in 1..notes' : Way(n)' => Last' < n
           /\ \A n \in (Last' + 1)..notes' : Way(n)' \/ NoteResult(n) \in robbed'
    BY <1>b, <2>2, <2>3
  <2> QED
    BY <1>b, <2>1, <2>4 DEF ShownInv, Way
<1> SUFFICES Goal
  OBVIOUS
<1>1. CASE Detach
  BY <1>1 DEF Detach, ShownInv, NothingMissed
<1>2. CASE Attach
  <2>1. engine' = engine + 1 /\ ~listening' /\ shown' = shown /\ robbed' = robbed
    BY <1>2 DEF Attach, CallsInv
  <2>2. engine' \in 1..MaxEngines /\ engine \in 1..MaxEngines
    OBVIOUS
  <2>3. \A e \in 1..MaxEngines : e > engine' \/ e = engine' => e > engine
    BY <2>1, <2>2
  <2> QED
    BY <2>1, <2>2, <2>3 DEF ShownInv, NothingMissed
<1>3. CASE Listen
  BY <1>3 DEF Listen, ShownInv, NothingMissed
<1>4. ASSUME NEW i \in 1..MaxCommands, AsyncCall(i) PROVE Goal
  <2>1. \A x : OnItsWay(x)' <=> OnItsWay(x)
    BY <1>4 DEF AsyncCall, OnItsWay
  <2> QED
    BY <1>b, <1>4, <2>1 DEF AsyncCall
<1>5. ASSUME NEW c \in Commands, PutAnswer(c) PROVE Goal
  <2>1. AnswerTo(c) \in Results /\ results' = Append(results, AnswerTo(c)) /\ hand' = hand
    BY <1>5 DEF PutAnswer, Results
  <2>2. \A n : Way(n)' <=> Way(n)
    <3>1. \A x : OnItsWay(x)' <=> OnItsWay(x) \/ x = AnswerTo(c)
      BY <2>1, WayAppended
    <3>2. \A n : NoteResult(n) # AnswerTo(c)
      BY <1>a
    <3> QED
      BY <3>1, <3>2
  <2> QED
    BY <1>b, <1>5, <2>2 DEF PutAnswer
<1>6. CASE PutNote
  <2>1. /\ notes' = notes + 1 /\ notes' \in 1..MaxNotes
        /\ UNCHANGED <<engine, attached, listening, shown, robbed, hand>>
    BY <1>6 DEF PutNote
  <2>2. NoteResult(notes') \in Results /\ results' = Append(results, NoteResult(notes'))
    BY <1>6, <2>1 DEF PutNote, Results
  <2>3. \A x : OnItsWay(x)' <=> OnItsWay(x) \/ x = NoteResult(notes')
    BY <2>1, <2>2, WayAppended
  <2>4. \A n : Way(n)' <=> Way(n) \/ n = notes'
    BY <1>a, <2>3
  <2>5. \A n \in 1..notes' : n > notes => n = notes'
    BY <2>1
  <2>6. notes <= notes' /\ notes' > notes
    BY <2>1
  <2> QED
    BY <1>b, <2>1, <2>4, <2>5, <2>6 DEF NotesInv
<1>7. CASE PutFrame
  <2>1. Frame \in Results /\ results' = Append(results, Frame) /\ hand' = hand
    BY <1>7 DEF PutFrame, Results
  <2>2. \A n : Way(n)' <=> Way(n)
    <3>1. \A x : OnItsWay(x)' <=> OnItsWay(x) \/ x = Frame
      BY <2>1, WayAppended
    <3>2. \A n : NoteResult(n) # Frame
      BY <1>a
    <3> QED
      BY <3>1, <3>2
  <2> QED
    BY <1>b, <1>7, <2>2 DEF PutFrame
<1>8. CASE Take
  <2>1. \A n : Way(n)' <=> Way(n)
    BY <1>8, <1>a, WayInHand DEF Take
  <2> QED
    BY <1>b, <1>8, <2>1 DEF Take
<1>9. CASE HandOver
  <2>1. /\ hand # Nothing /\ hand' = Nothing
        /\ UNCHANGED <<engine, attached, listening, results, robbed, notes>>
    BY <1>9 DEF HandOver
  <2>2. CASE ~listening \/ hand.of # "note"
    <3>1. shown' = shown
      BY <1>9, <2>2 DEF HandOver
    <3>2. CASE ~listening
      BY <2>1, <3>1, <3>2 DEF ShownInv, NothingMissed
    <3>3. CASE hand.of # "note"
      <4>1. \A n : Way(n)' <=> Way(n)
        BY <1>a, <2>1, <3>3 DEF OnItsWay
      <4> QED
        BY <1>b, <2>1, <3>1, <4>1
    <3> QED
      BY <2>2, <3>2, <3>3
  <2>3. CASE listening /\ hand.of = "note"
    <3> DEFINE h == hand.note
               s == shown[engine]
    <3>1. h \in 1..notes /\ hand = NoteResult(h) /\ Way(h)
      BY <2>3, Kinds DEF NotesInv, OnItsWay
    <3>2. \A n \in 1..notes : Way(n) => n = h \/ Way(n)'
      BY <1>a, <2>1, <3>1 DEF OnItsWay
    <3>3. \A n \in 1..notes : Way(n)' => h < n
      <4>1. ASSUME NEW n \in 1..notes, Way(n)' PROVE h < n
        <5>1. PICK i \in DOMAIN results : results[i] = NoteResult(n)
          BY <1>a, <2>1, <4>1 DEF OnItsWay
        <5>2. Queued(i) /\ results[i].note = n
          BY <1>a, <5>1 DEF Queued
        <5> QED
          BY <2>3, <5>2 DEF NotesInv
      <4> QED
        BY <4>1
    <3>4. shown' = [shown EXCEPT ![engine] = Append(s, h)] /\ s \in Seq(1..MaxNotes)
      BY <1>9, <2>3 DEF HandOver
    <3>5. /\ shown'[engine'] = Append(s, h) /\ Len(Append(s, h)) = Len(s) + 1 /\ Last' = h
          /\ Append(s, h)[Len(s) + 1] = h /\ \A i \in 1..Len(s) : Append(s, h)[i] = s[i]
          /\ Len(s) \in Nat
      BY <2>1, <3>1, <3>4 DEF Last
    <3>6. ShownInv'
      <4>1. \A n \in (h + 1)..notes : Way(n)' \/ NoteResult(n) \in robbed
        <5>1. \A n \in (h + 1)..notes : n \in 1..notes /\ h < n
          BY <3>1, SMTT(30)
        <5> QED
          BY <3>1, <3>2, <5>1, SMTT(30) DEF NotesInv
      <4>2. \A e \in Engines : e > engine => shown'[e] = <<>>
        BY <3>4, SMTT(30) DEF ShownInv
      <4>3. h <= notes
        BY <3>1
      <4> QED
        BY <2>1, <2>3, <3>3, <3>5, <4>1, <4>2, <4>3 DEF ShownInv
    <3>7. s # <<>> => /\ s[Len(s)] < h
                      /\ \A n \in (s[Len(s)] + 1)..(h - 1) : NoteResult(n) \in robbed
      <4>1. SUFFICES ASSUME s # <<>>, NEW n \in (s[Len(s)] + 1)..(h - 1)
                     PROVE  NoteResult(n) \in robbed
        BY <2>3, <3>1 DEF ShownInv, Last
      <4>2. s[Len(s)] \in 1..MaxNotes
        BY <3>4, <4>1, LastOne
      <4> DEFINE l == s[Len(s)]
      <4>3. l = Last /\ l \in Nat /\ h \in Nat /\ h <= notes /\ n \in (l + 1)..(h - 1)
        <5>0. 1..MaxNotes \subseteq Nat
          OBVIOUS
        <5>1. l = Last /\ l \in Nat
          BY <4>2, <5>0, Zenon DEF Last
        <5>2. h \in Nat /\ h <= notes
          BY <3>1, SMTT(30)
        <5>3. n \in (l + 1)..(h - 1)
          OBVIOUS
        <5> QED
          BY <5>1, <5>2, <5>3
      <4> HIDE DEF l, h, s
      <4>4. n \in (l + 1)..notes /\ n \in 1..notes /\ n # h /\ ~(h < n)
        BY <4>3
      <4>5. ~Way(n)
        BY <3>2, <3>3, <4>4
      <4>6. shown[engine] # <<>>
        BY <4>1 DEF s
      <4> QED
        BY <2>3, <4>3, <4>4, <4>5, <4>6 DEF ShownInv
    <3>8. NothingMissed'
      <4>1. ASSUME NEW i \in 1..Len(s)
            PROVE  LET gap == (Append(s, h)[i] + 1)..(Append(s, h)[i + 1] - 1)
                   IN /\ Append(s, h)[i] < Append(s, h)[i + 1]
                      /\ \A n \in gap : NoteResult(n) \in robbed
        <5>1. CASE i = Len(s)
          BY <3>5, <3>7, <5>1, SMTT(30)
        <5>2. CASE i # Len(s)
          <6>1. i \in 1..(Len(s) - 1) /\ i + 1 \in 1..Len(s)
            BY <3>5, <5>2
          <6>2. /\ s[i] < s[i + 1]
                /\ \A n \in (s[i] + 1)..(s[i + 1] - 1) : NoteResult(n) \in robbed
            BY <6>1 DEF NothingMissed
          <6> QED
            BY <3>5, <6>1, <6>2
        <5> QED
          BY <5>1, <5>2
      <4>2. \A e \in Engines : e # engine => shown'[e] = shown[e]
        BY <3>4
      <4>3. 1..(Len(Append(s, h)) - 1) = 1..Len(s)
        BY <3>5
      <4> HIDE DEF h, s
      <4>4. ASSUME NEW e \in Engines, NEW i \in 1..(Len(shown'[e]) - 1)
            PROVE  LET gap == (shown'[e][i] + 1)..(shown'[e][i + 1] - 1)
                   IN /\ shown'[e][i] < shown'[e][i + 1]
                      /\ \A n \in gap : NoteResult(n) \in robbed'
        <5>1. CASE e = engine
          BY <2>1, <3>5, <4>1, <4>3, <5>1
        <5>2. CASE e # engine
          BY <2>1, <4>2, <5>2 DEF NothingMissed
        <5> QED
          BY <5>1, <5>2
      <4> QED
        BY <4>4 DEF NothingMissed
    <3> QED
      BY <3>6, <3>8
  <2> QED
    BY <2>2, <2>3
<1>10. ASSUME NEW r \in Readers, TakeAway(r) PROVE Goal
  <2>1. /\ results' = Tail(results) /\ results # <<>> /\ robbed \subseteq robbed'
        /\ UNCHANGED <<hand, notes, engine, attached, listening, shown>>
    BY <1>10 DEF TakeAway
  <2>2. (\A n : Way(n)' => Way(n)) /\ \A n : Way(n) => Way(n)' \/ NoteResult(n) = Head(results)
    BY <2>1, WayTaken
  <2>3. CASE reader[r] = "told"
    <3>1. \A n : NoteResult(n) = Head(results) => NoteResult(n) \in robbed'
      BY <1>10, <1>a, <2>3 DEF TakeAway
    <3> QED
      BY <1>b, <2>1, <2>2, <3>1
  <2>4. CASE reader[r] = "on"
    <3>1. ~listening'
      BY <1>10, <2>1, <2>4 DEF TakeAway, Served, CallsInv
    <3>2. ~attached'
      BY <1>10, <2>1, <2>4 DEF TakeAway, Served, CallsInv
    <3> QED
      BY <2>1, <3>1, <3>2 DEF ShownInv, NothingMissed
  <2> QED
    BY <1>10, <2>3, <2>4 DEF TakeAway
<1>11. ASSUME NEW r \in Readers, ReaderStops(r) PROVE Goal
  <2>1. \A x : OnItsWay(x)' <=> OnItsWay(x)
    BY <1>11 DEF ReaderStops, OnItsWay
  <2> QED
    BY <1>b, <1>11, <2>1 DEF ReaderStops
<1>12. CASE UNCHANGED bridgeVars
  BY <1>12 DEF bridgeVars, OnItsWay, ShownInv, NothingMissed, Last
<1> QED
  BY <1>1, <1>2, <1>3, <1>4, <1>5, <1>6, <1>7, <1>8, <1>9, <1>10, <1>11, <1>12 DEF BridgeNext

\* A result completes the call with its number of the engine that listens.
LEMMA AnswerStep ==
    ASSUME BridgeTypeOK, BridgeTypeOK', CallsInv, AnswerAwaits, OwnAnswers, [BridgeNext]_bridgeVars
    PROVE  AnswerAwaits' /\ OwnAnswers'
<1> USE DEF BridgeTypeOK, windowVars, readerVars, Engines, Commands, Open
<1> DEFINE Way(c) == OnItsWay(AnswerTo(c))
           Goal == AnswerAwaits' /\ OwnAnswers'
<1>a. /\ \A c : AnswerTo(c) # Nothing /\ AnswerTo(c) # Frame
      /\ \A n, c : NoteResult(n) # AnswerTo(c)
      /\ \A c, d : AnswerTo(c) = AnswerTo(d) => c = d
  BY DEF NoteResult, Nothing, Frame, AnswerTo
<1>b. ASSUME UNCHANGED <<engine, listening, answeredBy, command>>, orphans \subseteq orphans',
                 robbed \subseteq robbed',
             \A c \in Commands : Way(c) => Way(c)' \/ AnswerTo(c) \in robbed'
      PROVE  Goal
  BY <1>b DEF AnswerAwaits, OwnAnswers
<1> SUFFICES Goal
  OBVIOUS
<1>1. CASE Detach
  BY <1>1 DEF Detach, AnswerAwaits, OwnAnswers
<1>2. CASE Attach
  BY <1>2 DEF Attach, CallsInv, AnswerAwaits, OwnAnswers
<1>3. CASE Listen
  <2>1. /\ attached /\ ~listening
        /\ UNCHANGED <<engine, answeredBy, command, orphans>>
    BY <1>3 DEF Listen
  <2> QED
    BY <2>1 DEF CallsInv, AnswerAwaits, OwnAnswers
<1>4. ASSUME NEW i \in 1..MaxCommands, AsyncCall(i) PROVE Goal
  <2>1. \A x : OnItsWay(x)' <=> OnItsWay(x)
    BY <1>4 DEF AsyncCall, OnItsWay
  <2>2. /\ UNCHANGED <<engine, listening, answeredBy, orphans, robbed>>
        /\ \A c \in Commands : command'[c] = command[c] \/ command'[c] = "running"
    BY <1>4 DEF AsyncCall
  <2> QED
    BY <2>1, <2>2 DEF AnswerAwaits, OwnAnswers
<1>5. ASSUME NEW c \in Commands, PutAnswer(c) PROVE Goal
  <2>1. AnswerTo(c) \in Results /\ results' = Append(results, AnswerTo(c)) /\ hand' = hand
    BY <1>5 DEF PutAnswer, Results
  <2>2. \A x : OnItsWay(x)' <=> OnItsWay(x) \/ x = AnswerTo(c)
    BY <2>1, WayAppended
  <2>3. /\ UNCHANGED <<engine, listening, answeredBy, orphans, robbed>> /\ command[c] = "running"
        /\ \A d \in Commands : command'[d] = IF d = c THEN "put" ELSE command[d]
    BY <1>5 DEF PutAnswer
  <2> QED
    BY <2>2, <2>3 DEF AnswerAwaits, OwnAnswers
<1>6. CASE PutNote
  <2>1. notes' \in 1..MaxNotes
    BY <1>6 DEF PutNote
  <2>2. NoteResult(notes') \in Results /\ results' = Append(results, NoteResult(notes')) /\
            hand' = hand
    BY <1>6, <2>1 DEF PutNote, Results
  <2>3. \A x : OnItsWay(x) => OnItsWay(x)'
    BY <2>2, WayAppended
  <2> QED
    BY <1>b, <1>6, <2>3 DEF PutNote
<1>7. CASE PutFrame
  <2>1. Frame \in Results /\ results' = Append(results, Frame) /\ hand' = hand
    BY <1>7 DEF PutFrame, Results
  <2>2. \A x : OnItsWay(x) => OnItsWay(x)'
    BY <2>1, WayAppended
  <2> QED
    BY <1>b, <1>7, <2>2 DEF PutFrame
<1>8. CASE Take
  <2>1. \A c : Way(c) => Way(c)'
    BY <1>8, <1>a, WayInHand DEF Take
  <2> QED
    BY <1>b, <1>8, <2>1 DEF Take
<1>9. CASE HandOver
  <2>1. /\ hand # Nothing /\ hand' = Nothing
        /\ UNCHANGED <<engine, attached, listening, command, orphans, results, robbed>>
    BY <1>9 DEF HandOver
  <2>2. \A x : OnItsWay(x) => OnItsWay(x)' \/ x = hand
    BY <2>1 DEF OnItsWay
  <2>3. CASE ~listening
    BY <1>9, <2>1, <2>3 DEF HandOver, AnswerAwaits, OwnAnswers
  <2>4. CASE listening /\ hand.of # "answer"
    <3>1. answeredBy' = answeredBy
      BY <1>9, <2>4 DEF HandOver
    <3>2. \A c : AnswerTo(c) # hand
      BY <2>4, Kinds
    <3> QED
      BY <1>b, <2>1, <2>2, <3>1, <3>2
  <2>5. CASE listening /\ hand.of = "answer"
    <3> DEFINE d == hand.command
               mine == <<engine, d[2]>>
    <3>1. d \in Commands /\ hand = AnswerTo(d) /\ Way(d)
      BY <2>5, Kinds DEF OnItsWay
    <3>2. answeredBy' = IF Open(mine) THEN [answeredBy EXCEPT ![mine] = d] ELSE answeredBy
      BY <1>9, <2>5 DEF HandOver, Completed
    <3>3. d[1] \in 1..MaxEngines /\ d[2] \in 1..MaxCommands /\ d = <<d[1], d[2]>> /\
              mine \in Commands
      BY <3>1, SMTT(30)
    <3>4. d[1] = engine \/ d \in orphans
      <4>1. command[d] = "put"
        BY <3>1 DEF CallsInv
      <4>2. ~(d[1] > engine)
        BY <3>1, <4>1 DEF CallsInv
      <4>3. d[1] < engine => d \in orphans
        BY <3>1 DEF CallsInv
      <4> QED
        BY <3>3, <4>2, <4>3
    <3>5. d = mine \/ d \in orphans
      BY <3>3, <3>4
    <3>6. d # NoCommand
      BY <3>3 DEF NoCommand
    <3> HIDE DEF d, mine
    <3>7. \A c \in Commands : answeredBy'[c] = answeredBy[c] \/ (c = mine /\ answeredBy'[c] = d)
      BY <3>2, <3>3
    <3>8. OwnAnswers'
      BY <2>1, <3>5, <3>7 DEF OwnAnswers
    <3>9. ASSUME NEW c \in Commands, listening, c[1] = engine, answeredBy'[c] = NoCommand,
                 command[c] # "none", AnswerTo(c) \notin robbed
          PROVE  command[c] = "running" \/ Way(c)'
      <4>1. answeredBy[c] = NoCommand
        BY <3>6, <3>7, <3>9
      <4>2. command[c] = "running" \/ Way(c)
        BY <3>9, <4>1 DEF AnswerAwaits
      <4>3. ASSUME AnswerTo(c) = hand PROVE FALSE
        <5>1. c = d
          BY <1>a, <3>1, <4>3
        <5>2. c = mine
          BY <3>9, <5>1 DEF d, mine
        <5>3. answeredBy'[c] = d
          BY <3>2, <3>9, <4>1, <5>2
        <5> QED
          BY <3>6, <3>9, <5>3
      <4> QED
        BY <2>2, <4>2, <4>3
    <3> QED
      BY <2>1, <3>8, <3>9 DEF AnswerAwaits
  <2> QED
    BY <2>3, <2>4, <2>5
<1>10. ASSUME NEW r \in Readers, TakeAway(r) PROVE Goal
  <2>1. /\ results' = Tail(results) /\ results # <<>> /\ robbed \subseteq robbed'
        /\ UNCHANGED <<hand, engine, attached, listening, answeredBy, command, orphans>>
    BY <1>10 DEF TakeAway
  <2>2. \A x : OnItsWay(x) => OnItsWay(x)' \/ x = Head(results)
    BY <2>1, WayTaken
  <2>3. CASE reader[r] = "told"
    <3>1. \A c : AnswerTo(c) = Head(results) => AnswerTo(c) \in robbed'
      BY <1>10, <1>a, <2>3 DEF TakeAway
    <3> QED
      BY <1>b, <2>1, <2>2, <3>1
  <2>4. CASE reader[r] = "on"
    <3>1. ~listening'
      BY <1>10, <2>1, <2>4 DEF TakeAway, Served, CallsInv
    <3> QED
      BY <2>1, <3>1 DEF AnswerAwaits, OwnAnswers
  <2> QED
    BY <1>10, <2>3, <2>4 DEF TakeAway
<1>11. ASSUME NEW r \in Readers, ReaderStops(r) PROVE Goal
  <2>1. \A x : OnItsWay(x)' <=> OnItsWay(x)
    BY <1>11 DEF ReaderStops, OnItsWay
  <2> QED
    BY <1>b, <1>11, <2>1 DEF ReaderStops
<1>12. CASE UNCHANGED bridgeVars
  BY <1>12 DEF bridgeVars, OnItsWay, AnswerAwaits, OwnAnswers
<1> QED
  BY <1>1, <1>2, <1>3, <1>4, <1>5, <1>6, <1>7, <1>8, <1>9, <1>10, <1>11, <1>12 DEF BridgeNext

LEMMA BridgeInitially == BridgeInit => BridgeInv
<1> SUFFICES ASSUME BridgeInit PROVE BridgeInv
  OBVIOUS
<1> USE BridgeAssumption DEF BridgeInit, Engines, Commands, Readers
<1>1. BridgeTypeOK
  <2>1. results \in Seq(Results) /\ Len(results) <= ResultCap
    OBVIOUS
  <2>2. shown \in [1..MaxEngines -> Seq(1..MaxNotes)]
    OBVIOUS
  <2>3. notes \in 0..MaxNotes /\ engine \in 1..MaxEngines
    OBVIOUS
  <2> QED
    BY <2>1, <2>2, <2>3 DEF BridgeTypeOK
<1>2. CallsInv
  BY DEF CallsInv, OnItsWay, AnswerTo, Nothing
<1>3. NotesInv
  BY DEF NotesInv, Queued, OnItsWay, NoteResult, Nothing
<1>4. ShownInv /\ NothingMissed
  BY DEF ShownInv, NothingMissed
<1>5. AnswerAwaits /\ OwnAnswers
  BY DEF AnswerAwaits, OwnAnswers
<1> QED
  BY <1>1, <1>2, <1>3, <1>4, <1>5 DEF BridgeInv

(* For any number of engines, calls and notifications: a call of the engine that listens is      *)
(* running, answered or has its result on the way, unless a loop that was told to stop took it;   *)
(* only a result left behind by an engine that went completes a call not its own; notifications   *)
(* come in order (pongui/golib/commands.go and the plugin of the window).                         *)
THEOREM HomeTheorem == BridgeSpec => []AnswersComeHome
<1>1. BridgeInv /\ [BridgeNext]_bridgeVars => BridgeInv'
  <2> SUFFICES ASSUME BridgeInv, [BridgeNext]_bridgeVars PROVE BridgeInv'
    OBVIOUS
  <2>1. BridgeTypeOK'
    BY BridgeTypeStep DEF BridgeInv
  <2>2. CallsInv' /\ NotesInv'
    BY <2>1, CallsStep, NotesStep DEF BridgeInv
  <2>3. ShownInv' /\ NothingMissed'
    BY <2>1, ShownStep DEF BridgeInv
  <2>4. AnswerAwaits' /\ OwnAnswers'
    BY <2>1, AnswerStep DEF BridgeInv
  <2> QED
    BY <2>1, <2>2, <2>3, <2>4 DEF BridgeInv
<1>2. BridgeInv => AnswersComeHome
  BY DEF BridgeInv, AnswersComeHome, AnswerAwaits, OwnAnswers, NothingMissed
<1> QED
  BY <1>1, <1>2, BridgeInitially, PTL DEF BridgeSpec
=============================================================================
