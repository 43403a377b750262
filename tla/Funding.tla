------------------------------- MODULE Funding -------------------------------
(***************************************************************************)
(* How the server learns of deposits (chainwatcher/chainwatcher.go,         *)
(* trackEscrow and OpenEscrow of server/referee.go, ensureBoundFunding and  *)
(* cleanupEscrowSessionsForPlayers).                                        *)
(*                                                                          *)
(* Every notification of dcrd runs its handler in a goroutine of its own:   *)
(* one for each transaction that enters the mempool, one for each block.    *)
(* They share the watcher's map of known outputs, ask dcrd between two      *)
(* sections under the lock, and send snapshots of the map to the subscribed *)
(* escrows over channels that drop what does not fit.  An escrow is bound   *)
(* to its deposit by whoever first finds a single exact one in the last     *)
(* snapshot.                                                                *)
(***************************************************************************)
EXTENDS Naturals, Sequences

CONSTANTS
    Scripts,     \* watched pkScripts
    Escrows,     \* escrow ids, each used by one OpenEscrow
    ScriptOf,    \* escrowSession.pkScriptHex; a client's escrows may share one
    Deposits,    \* outpoints, each of a transaction of its own
    PaysTo,      \* the script a deposit pays
    ExactFor,    \* the deposits of the very amount betAtoms of an escrow
    Failing,     \* deposits about which dcrd may fail to answer in time
    Blocks,      \* block handlers: how many may run at once
    ChanCap,     \* capacity of a subscription (8 in the code)
    None

ASSUME ScriptAssumption == ScriptOf \in [Escrows -> Scripts] /\ PaysTo \in [Deposits -> Scripts]
ASSUME ExactAssumption == ExactFor \in [Escrows -> SUBSET Deposits]
ASSUME CapAssumption == ChanCap \in Nat /\ None \notin Deposits \cup Scripts

VARIABLES
    chain,       \* what dcrd knows of a deposit: "absent", "unspent", "spent"
    txHandler,   \* local state of ProcessTxAcceptedHash, one per deposit
    blockHandler,\* local state of each ProcessBlockConnected
    known,       \* ChainWatcher.known
    pkBytes,     \* the keys of ChainWatcher.pkBytes
    subs,        \* ChainWatcher.subs: escrows with a subscription
    channel,     \* the channel of each subscription
    opening,     \* how far OpenEscrow is
    listed,      \* s.escrows
    latest,      \* escrowSession.latest and lastUTXOs
    bound        \* escrowSession.boundInputID

watcherVars == <<txHandler, blockHandler, known, pkBytes, subs>>
escrowVars == <<opening, listed, latest, bound>>
vars == <<chain, watcherVars, channel, escrowVars>>

-----------------------------------------------------------------------------
(* Data *)

\* A mempool handler: notified, found its script watched, has taken the snapshot
\* it is about to broadcast.
TxHandlerState == [pc : {"none", "notified", "found", "recorded", "done"}, cur : SUBSET Deposits]

\* A block handler: scripts to visit, the one it visits, its outputs still to be
\* looked up, and those found unspent.
IdleBlock == [todo |-> {}, key |-> None, ids |-> {}, cur |-> {}]
BlockHandlerState ==
    [todo : SUBSET Scripts, key : Scripts \cup {None}, ids : SUBSET Deposits,
     cur : SUBSET Deposits]

SubscribersOf(k) == {e \in subs : ScriptOf[e] = k}

\* Mutant: the send does not look at the capacity.
BroadcastAlways(k, u) ==
    channel' = [e \in Escrows |-> IF e \in SubscribersOf(k) THEN Append(channel[e], u)
                                  ELSE channel[e]]

\* broadcastUpdate: a snapshot that does not fit is dropped.
Broadcast(k, u) ==
    channel' = [e \in Escrows |-> IF e \in SubscribersOf(k) /\ Len(channel[e]) < ChanCap
                                  THEN Append(channel[e], u) ELSE channel[e]]

Init ==
    /\ chain = [d \in Deposits |-> "absent"]
    /\ txHandler = [d \in Deposits |-> [pc |-> "none", cur |-> {}]]
    /\ blockHandler = [b \in Blocks |-> IdleBlock]
    /\ known = [k \in Scripts |-> {}]
    /\ pkBytes = {}
    /\ subs = {}
    /\ channel = [e \in Escrows |-> <<>>]
    /\ opening = [e \in Escrows |-> "none"]
    /\ listed = {}
    /\ latest = [e \in Escrows |-> {}]
    /\ bound = [e \in Escrows |-> None]

-----------------------------------------------------------------------------
(* The chain *)

\* A deposit enters the mempool, and dcrd notifies the server.
Accept(d) ==
    /\ chain[d] = "absent"
    /\ chain' = [chain EXCEPT ![d] = "unspent"]
    /\ txHandler' = [txHandler EXCEPT ![d].pc = "notified"]
    /\ UNCHANGED <<blockHandler, known, pkBytes, subs, channel, escrowVars>>

\* Its owner refunds himself, a settlement spends it, or a reorganisation drops it.
Spend(d) ==
    /\ chain[d] = "unspent"
    /\ chain' = [chain EXCEPT ![d] = "spent"]
    /\ UNCHANGED <<watcherVars, channel, escrowVars>>

-----------------------------------------------------------------------------
(* ProcessTxAcceptedHash *)

\* The transaction is fetched and compared with the scripts that have a
\* subscription and cached bytes.
TxLooks(d) ==
    LET k == PaysTo[d] IN
    /\ txHandler[d].pc = "notified"
    /\ \E answered \in IF d \in Failing THEN BOOLEAN ELSE {TRUE} :
         txHandler' = [txHandler EXCEPT ![d].pc =
             IF answered /\ SubscribersOf(k) # {} /\ k \in pkBytes THEN "found" ELSE "done"]
    /\ UNCHANGED <<chain, blockHandler, known, pkBytes, subs, channel, escrowVars>>

\* Under the lock: the output becomes known, and the snapshot is taken.
TxRecords(d) ==
    LET k == PaysTo[d]
        cur == known[k] \cup {d}
    IN
    /\ txHandler[d].pc = "found"
    /\ known' = [known EXCEPT ![k] = cur]
    /\ txHandler' = [txHandler EXCEPT ![d] = [pc |-> "recorded", cur |-> cur]]
    /\ UNCHANGED <<chain, blockHandler, pkBytes, subs, channel, escrowVars>>

TxBroadcasts(d) ==
    /\ txHandler[d].pc = "recorded"
    /\ Broadcast(PaysTo[d], txHandler[d].cur)
    /\ txHandler' = [txHandler EXCEPT ![d] = [pc |-> "done", cur |-> {}]]
    /\ UNCHANGED <<chain, blockHandler, known, pkBytes, subs, escrowVars>>

-----------------------------------------------------------------------------
(* ProcessBlockConnected *)

BlockStarts(b) ==
    /\ blockHandler[b] = IdleBlock
    /\ blockHandler' = [blockHandler EXCEPT ![b].todo = {k \in Scripts : known[k] # {}}]
    /\ UNCHANGED <<chain, txHandler, known, pkBytes, subs, channel, escrowVars>>

BlockVisits(b, k) ==
    /\ blockHandler[b].key = None
    /\ k \in blockHandler[b].todo
    /\ blockHandler' = [blockHandler EXCEPT ![b] =
           [todo |-> @.todo \ {k}, key |-> k, ids |-> known[k], cur |-> {}]]
    /\ UNCHANGED <<chain, txHandler, known, pkBytes, subs, channel, escrowVars>>

\* Mutant: the last output of a script is never evicted.
EvictsUnlessLast(d) == chain[d] = "spent" /\ known[PaysTo[d]] # {d}

\* GetTxOut finds the output spent.
Evicts(d) == chain[d] = "spent"

\* One output: skipped if it is not known any more, evicted if dcrd says that it is
\* spent or does not answer, else part of the snapshot.  Look, answer and eviction
\* are one step: a good answer might as well come with the look (a deposit that is
\* unspent was so before), a bad one with the eviction.
BlockLooks(b, d) ==
    LET k == blockHandler[b].key IN
    /\ k # None
    /\ d \in blockHandler[b].ids
    /\ \/ /\ d \notin known[k]
          /\ known' = known
          /\ blockHandler' = [blockHandler EXCEPT ![b].ids = @ \ {d}]
       \/ /\ d \in known[k]
          /\ Evicts(d) \/ d \in Failing
          /\ known' = [known EXCEPT ![k] = @ \ {d}]
          /\ blockHandler' = [blockHandler EXCEPT ![b].ids = @ \ {d}]
       \/ /\ d \in known[k]
          /\ ~Evicts(d)
          /\ known' = known
          /\ blockHandler' = [blockHandler EXCEPT ![b].ids = @ \ {d}, ![b].cur = @ \cup {d}]
    /\ UNCHANGED <<chain, txHandler, pkBytes, subs, channel, escrowVars>>

\* Mutant: no news, no broadcast.
BlockUpdateIfEvicted(b) ==
    LET k == blockHandler[b].key IN
    IF blockHandler[b].cur = known[k] THEN channel' = channel
    ELSE Broadcast(k, blockHandler[b].cur)

\* The snapshot of a visited script is sent whether or not it brings news.
BlockUpdate(b) == Broadcast(blockHandler[b].key, blockHandler[b].cur)

BlockBroadcasts(b) ==
    /\ blockHandler[b].key # None
    /\ blockHandler[b].ids = {}
    /\ BlockUpdate(b)
    /\ blockHandler' = [blockHandler EXCEPT ![b].key = None, ![b].cur = {}]
    /\ UNCHANGED <<chain, txHandler, known, pkBytes, subs, escrowVars>>

-----------------------------------------------------------------------------
(* Escrow sessions *)

\* OpenEscrow stores the session ...
Publish(e) ==
    /\ opening[e] = "none"
    /\ opening' = [opening EXCEPT ![e] = "published"]
    /\ listed' = listed \cup {e}
    /\ UNCHANGED <<chain, watcherVars, channel, latest, bound>>

\* ... and subscribes it: first the bytes of the script ...
CacheScript(e) ==
    /\ opening[e] = "published"
    /\ opening' = [opening EXCEPT ![e] = "cached"]
    /\ pkBytes' = pkBytes \cup {ScriptOf[e]}
    /\ UNCHANGED <<chain, txHandler, blockHandler, known, subs, channel, listed, latest, bound>>

\* ... then the channel, which trackEscrow reads from now on.
Subscribe(e) ==
    /\ opening[e] = "cached"
    /\ opening' = [opening EXCEPT ![e] = "tracked"]
    /\ subs' = subs \cup {e}
    /\ UNCHANGED <<chain, txHandler, blockHandler, known, pkBytes, channel, listed, latest, bound>>

\* cleanupEscrowSessionsForPlayers: the session leaves the map; what OpenEscrow has
\* not stored yet (unsubW, cancelTrack) cannot be called.
Cleanup(e) ==
    LET k == ScriptOf[e]
        last == opening[e] = "tracked" /\ SubscribersOf(k) = {e}
    IN
    /\ e \in listed
    /\ listed' = listed \ {e}
    /\ subs' = IF opening[e] = "tracked" THEN subs \ {e} ELSE subs
    /\ known' = IF last THEN [known EXCEPT ![k] = {}] ELSE known
    /\ pkBytes' = IF last THEN pkBytes \ {k} ELSE pkBytes
    /\ UNCHANGED <<chain, txHandler, blockHandler, channel, opening, latest, bound>>

\* ensureBoundFunding succeeds on snapshot u.
Funded(e, u) == \E d \in ExactFor[e] : u = {d} /\ bound[e] \in {None, d}

\* Mutant: the amount is not compared.
BindAny(e, u) ==
    bound' = [bound EXCEPT ![e] =
                IF bound[e] = None /\ u # {} THEN CHOOSE d \in u : TRUE ELSE bound[e]]

\* The effect of ensureBoundFunding on snapshot u.
Bind(e, u) ==
    bound' = [bound EXCEPT ![e] = IF Funded(e, u) THEN CHOOSE d \in u : TRUE ELSE bound[e]]

\* trackEscrow receives an update; if it notifies the player of a change it tries to
\* bind.  A cancelled one may still find an update in its channel.
TrackEscrow(e) ==
    LET u == Head(channel[e]) IN
    /\ channel[e] # <<>>
    /\ channel' = [channel EXCEPT ![e] = Tail(@)]
    /\ latest' = [latest EXCEPT ![e] = u]
    /\ \/ bound' = bound
       \/ /\ e \in listed
          /\ u # {}
          /\ Bind(e, u)
    /\ UNCHANGED <<chain, watcherVars, opening, listed>>

\* Any other caller of ensureBoundFunding: a room call, a presign stream, a manager,
\* who may hold a session that has been cleaned up.
EnsureBoundFunding(e) ==
    /\ opening[e] # "none"
    /\ Bind(e, latest[e])
    /\ UNCHANGED <<chain, watcherVars, channel, opening, listed, latest>>

-----------------------------------------------------------------------------

TxStep(d) == TxLooks(d) \/ TxRecords(d) \/ TxBroadcasts(d)

BlockStep(b) ==
    \/ BlockStarts(b)
    \/ \E k \in Scripts : BlockVisits(b, k)
    \/ \E d \in Deposits : BlockLooks(b, d)
    \/ BlockBroadcasts(b)

EscrowStep(e) ==
    \/ Publish(e) \/ CacheScript(e) \/ Subscribe(e) \/ Cleanup(e)
    \/ EnsureBoundFunding(e)

Next ==
    \/ \E d \in Deposits : Accept(d) \/ Spend(d) \/ TxStep(d)
    \/ \E b \in Blocks : BlockStep(b)
    \/ \E e \in Escrows : EscrowStep(e) \/ TrackEscrow(e)

Spec == Init /\ [][Next]_vars

\* Handlers come to their end (dcrd answers or the call times out), blocks go on
\* being connected, and the tracker of an escrow reads its channel.  Nothing is
\* assumed of the players, nor that anything is ever deposited or spent.
Fairness ==
    /\ \A d \in Deposits : WF_vars(TxStep(d))
    /\ \A b \in Blocks : WF_vars(BlockStep(b))
    /\ \A e \in Escrows : WF_vars(e \in subs /\ TrackEscrow(e))

FairSpec == Spec /\ Fairness

-----------------------------------------------------------------------------
(* Properties *)

\* Every variable has its type.
TypeOK ==
    /\ chain \in [Deposits -> {"absent", "unspent", "spent"}]
    /\ txHandler \in [Deposits -> TxHandlerState]
    /\ blockHandler \in [Blocks -> BlockHandlerState]
    /\ known \in [Scripts -> SUBSET Deposits]
    /\ pkBytes \subseteq Scripts
    /\ subs \subseteq Escrows
    /\ channel \in [Escrows -> Seq(SUBSET Deposits)]
    /\ \A e \in Escrows : Len(channel[e]) <= ChanCap
    /\ opening \in [Escrows -> {"none", "published", "cached", "tracked"}]
    /\ listed \subseteq Escrows
    /\ latest \in [Escrows -> SUBSET Deposits]
    /\ bound \in [Escrows -> Deposits \cup {None}]

\* helpers.go:55, the canonical funding input.  However late and out of order the
\* snapshots are, an escrow is bound to a deposit that was made, to its own script
\* and of its very amount.
BoundIsDeposit ==
    \A e \in Escrows : bound[e] # None =>
        /\ chain[bound[e]] # "absent"
        /\ PaysTo[bound[e]] = ScriptOf[e]
        /\ bound[e] \in ExactFor[e]

\* An escrow that is bound stays bound to the same deposit: drafts and
\* pre-signatures name it, whatever the watcher reports later.
BindingIsFinal ==
    [][\A e \in Escrows : bound[e] # None => bound'[e] = bound[e]]_vars

\* chainwatcher.go:178, "prune spents": a spent output is forgotten for good, also
\* when a late mempool handler brings it back, provided that blocks go on.
SpentIsForgotten ==
    \A d \in Deposits : chain[d] = "spent" ~> [](\A k \in Scripts : d \notin known[k])

\* Dropped and overtaken updates are made up for: in the end, and for ever, the
\* snapshot of an escrow is what the watcher knows of its script, if that is
\* anything at all.
EventuallyReported ==
    <>[](\A e \in subs : known[ScriptOf[e]] # {} => latest[e] = known[ScriptOf[e]])

\* Nobody has anything more to tell escrow e.
Quiet(e) ==
    /\ channel[e] = <<>>
    /\ \A d \in Deposits : PaysTo[d] = ScriptOf[e] => txHandler[d].pc \in {"none", "done"}
    /\ \A b \in Blocks : blockHandler[b].key # ScriptOf[e] /\ ScriptOf[e] \notin blockHandler[b].todo

\* referee.go:68: "No unspent outputs remain; clear cache to prevent stale
\* bindings."  An escrow whose script has no known output left, and to which
\* nothing is on its way, does not go on listing one.
NoStaleBinding ==
    \A e \in subs : Quiet(e) /\ known[ScriptOf[e]] = {} => latest[e] = {}
=============================================================================
