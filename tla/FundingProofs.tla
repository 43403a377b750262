---------------------------- MODULE FundingProofs ----------------------------
(***************************************************************************)
(* What holds of Funding for any scripts, escrows, deposits, block handlers *)
(* and capacity: its type, that every snapshot on its way from the watcher  *)
(* to an escrow tells only of deposits that were made to the script of that *)
(* escrow, hence that an escrow is bound to a real and exact deposit, and   *)
(* that a binding never changes.                                            *)
(***************************************************************************)
EXTENDS Funding, TLAPS, SequenceTheorems

\* The deposits made to script k.
Made(k) == {d \in Deposits : PaysTo[d] = k /\ chain[d] # "absent"}

\* The watcher's own state: its map and the locals of its handlers.
HandlersAreReal ==
    /\ \A k \in Scripts : known[k] \subseteq Made(k)
    /\ \A d \in Deposits : txHandler[d].pc # "none" => chain[d] # "absent"
    /\ \A d \in Deposits : txHandler[d].cur \subseteq Made(PaysTo[d])
    /\ \A b \in Blocks : blockHandler[b].key # None =>
          /\ blockHandler[b].ids \subseteq Made(blockHandler[b].key)
          /\ blockHandler[b].cur \subseteq Made(blockHandler[b].key)

\* What has left the watcher.
ReportsAreReal ==
    /\ \A e \in Escrows : \A i \in 1 .. Len(channel[e]) : channel[e][i] \subseteq Made(ScriptOf[e])
    /\ \A e \in Escrows : latest[e] \subseteq Made(ScriptOf[e])

IInv == TypeOK /\ HandlersAreReal /\ ReportsAreReal /\ BoundIsDeposit

-----------------------------------------------------------------------------
(* Lemmas *)

\* A subscription's channel stays one of at most ChanCap snapshots, and what is new
\* in it is the snapshot that was sent.
LEMMA BroadcastAppends ==
    ASSUME TypeOK, NEW k \in Scripts, NEW u \in SUBSET Deposits, Broadcast(k, u)
    PROVE  /\ channel' \in [Escrows -> Seq(SUBSET Deposits)]
           /\ \A e \in Escrows : Len(channel'[e]) <= ChanCap
           /\ \A e \in Escrows : \A i \in 1 .. Len(channel'[e]) :
                 \/ i \in 1 .. Len(channel[e]) /\ channel'[e][i] = channel[e][i]
                 \/ ScriptOf[e] = k /\ channel'[e][i] = u
<1>1. ASSUME NEW e \in Escrows
      PROVE  /\ channel'[e] \in Seq(SUBSET Deposits)
             /\ Len(channel'[e]) <= ChanCap
             /\ \A i \in 1 .. Len(channel'[e]) :
                   \/ i \in 1 .. Len(channel[e]) /\ channel'[e][i] = channel[e][i]
                   \/ ScriptOf[e] = k /\ channel'[e][i] = u
  <2>1. channel[e] \in Seq(SUBSET Deposits) /\ Len(channel[e]) <= ChanCap /\ Len(channel[e]) \in Nat
    BY DEF TypeOK
  <2>2. CASE e \in SubscribersOf(k) /\ Len(channel[e]) < ChanCap
    <3>1. channel'[e] = Append(channel[e], u) /\ ScriptOf[e] = k
      BY <2>2 DEF Broadcast, SubscribersOf
    <3> QED
      BY <2>1, <2>2, <3>1, CapAssumption
  <2>3. CASE ~(e \in SubscribersOf(k) /\ Len(channel[e]) < ChanCap)
    <3>1. channel'[e] = channel[e]
      BY <2>3 DEF Broadcast
    <3> QED
      BY <2>1, <3>1
  <2> QED
    BY <2>2, <2>3
<1>2. channel' = [e \in Escrows |-> channel'[e]]
  BY DEF Broadcast
<1> QED
  BY <1>1, <1>2

\* ensureBoundFunding changes nothing once the escrow is bound, and binds it only to
\* a deposit of the snapshot with the very amount.
LEMMA BindBinds ==
    ASSUME TypeOK, NEW e \in Escrows, NEW u \in SUBSET Deposits, Bind(e, u)
    PROVE  /\ bound' \in [Escrows -> Deposits \cup {None}]
           /\ \A g \in Escrows : g # e => bound'[g] = bound[g]
           /\ bound[e] # None => bound'[e] = bound[e]
           /\ bound'[e] = bound[e] \/ bound'[e] \in u \cap ExactFor[e]
<1>1. CASE Funded(e, u)
  <2>1. PICK d \in ExactFor[e] : u = {d} /\ bound[e] \in {None, d}
    BY <1>1 DEF Funded
  <2>2. (CHOOSE c \in u : TRUE) = d
    BY <2>1
  <2>3. bound' = [bound EXCEPT ![e] = d]
    BY <1>1, <2>2 DEF Bind
  <2>4. d \in Deposits
    BY <2>1, ExactAssumption
  <2> QED
    BY <2>1, <2>3, <2>4 DEF TypeOK
<1>2. CASE ~Funded(e, u)
  <2>1. bound' = [bound EXCEPT ![e] = bound[e]]
    BY <1>2 DEF Bind
  <2> QED
    BY <2>1 DEF TypeOK
<1> QED
  BY <1>1, <1>2

\* The changes of a block handler's record keep its type.
LEMMA BlockRecord ==
    ASSUME TypeOK, NEW b \in Blocks
    PROVE  /\ \A d \in Deposits :
                 /\ [blockHandler EXCEPT ![b].ids = @ \ {d}] \in [Blocks -> BlockHandlerState]
                 /\ [blockHandler EXCEPT ![b].ids = @ \ {d}, ![b].cur = @ \cup {d}]
                       \in [Blocks -> BlockHandlerState]
           /\ [blockHandler EXCEPT ![b].key = None, ![b].cur = {}] \in [Blocks -> BlockHandlerState]
<1> DEFINE h == blockHandler[b]
<1>1. /\ blockHandler \in [Blocks -> BlockHandlerState]
      /\ h \in BlockHandlerState
  BY DEF TypeOK
<1>2. h = [todo |-> h.todo, key |-> h.key, ids |-> h.ids, cur |-> h.cur]
  BY <1>1 DEF BlockHandlerState
<1>3. /\ h.todo \in SUBSET Scripts /\ h.key \in Scripts \cup {None}
      /\ h.ids \in SUBSET Deposits /\ h.cur \in SUBSET Deposits
  BY <1>1 DEF BlockHandlerState
<1>4. ASSUME NEW d \in Deposits PROVE [h EXCEPT !.ids = @ \ {d}] \in BlockHandlerState
  BY <1>2, <1>3 DEF BlockHandlerState
<1>5. ASSUME NEW d \in Deposits
      PROVE  [h EXCEPT !.ids = @ \ {d}, !.cur = @ \cup {d}] \in BlockHandlerState
  BY <1>2, <1>3 DEF BlockHandlerState
<1>6. [h EXCEPT !.key = None, !.cur = {}] \in BlockHandlerState
  BY <1>2, <1>3 DEF BlockHandlerState
<1> QED
  BY <1>1, <1>4, <1>5, <1>6

\* The look of a block handler at an output: the watcher's map can only lose that
\* output, and the handler's snapshot can only gain it, if it is known.
LEMMA BlockLooksEffect ==
    ASSUME TypeOK, NEW b \in Blocks, NEW d \in Deposits, BlockLooks(b, d)
    PROVE  /\ blockHandler[b].key \in Scripts /\ d \in blockHandler[b].ids
           /\ known' = known \/ known' = [known EXCEPT ![blockHandler[b].key] = @ \ {d}]
           /\ \/ blockHandler' = [blockHandler EXCEPT ![b].ids = @ \ {d}]
              \/ blockHandler' = [blockHandler EXCEPT ![b].ids = @ \ {d}, ![b].cur = @ \cup {d}]
<1>1. blockHandler[b].key \in Scripts
  BY DEF BlockLooks, TypeOK, BlockHandlerState
<1> QED
  BY <1>1 DEF BlockLooks

\* The head of a channel is a snapshot, and its tail is what was behind it.
LEMMA ReceivedSnapshot ==
    ASSUME TypeOK, NEW e \in Escrows, channel[e] # <<>>
    PROVE  /\ Head(channel[e]) \in SUBSET Deposits
           /\ Head(channel[e]) = channel[e][1] /\ 1 \in 1 .. Len(channel[e])
           /\ Tail(channel[e]) \in Seq(SUBSET Deposits)
           /\ Len(Tail(channel[e])) = Len(channel[e]) - 1
           /\ \A i \in 1 .. Len(Tail(channel[e])) :
                 i + 1 \in 1 .. Len(channel[e]) /\ Tail(channel[e])[i] = channel[e][i + 1]
<1>1. channel[e] \in Seq(SUBSET Deposits)
  BY DEF TypeOK
<1> QED
  BY <1>1

-----------------------------------------------------------------------------
(* Type correctness *)

LEMMA InitType == Init => TypeOK
<1> SUFFICES ASSUME Init PROVE TypeOK
  OBVIOUS
<1>1. channel \in [Escrows -> Seq(SUBSET Deposits)] /\ \A e \in Escrows : Len(channel[e]) <= ChanCap
  BY CapAssumption DEF Init
<1> QED
  BY <1>1 DEF Init, TypeOK, TxHandlerState, BlockHandlerState, IdleBlock

\* Every step of a mempool handler keeps the types.
LEMMA TxStepType == ASSUME TypeOK, NEW d \in Deposits, TxStep(d) PROVE TypeOK'
<1> USE ScriptAssumption
<1>1. CASE TxLooks(d)
  <2>1. PICK p \in {"found", "done"} : txHandler' = [txHandler EXCEPT ![d].pc = p]
    BY <1>1 DEF TxLooks
  <2>2. txHandler' \in [Deposits -> TxHandlerState]
    BY <2>1 DEF TypeOK, TxHandlerState
  <2> QED
    BY <1>1, <2>2 DEF TxLooks, TypeOK, escrowVars
<1>2. CASE TxRecords(d)
  BY <1>2 DEF TxRecords, TypeOK, TxHandlerState, escrowVars
<1>3. CASE TxBroadcasts(d)
  <2>1. txHandler[d].cur \in SUBSET Deposits /\ PaysTo[d] \in Scripts
    BY DEF TypeOK, TxHandlerState
  <2>2. /\ channel' \in [Escrows -> Seq(SUBSET Deposits)]
        /\ \A e \in Escrows : Len(channel'[e]) <= ChanCap
    BY <1>3, <2>1, BroadcastAppends DEF TxBroadcasts
  <2> QED
    BY <1>3, <2>2 DEF TxBroadcasts, TypeOK, TxHandlerState, escrowVars
<1> QED
  BY <1>1, <1>2, <1>3 DEF TxStep

\* Every step of a block handler keeps the types.
LEMMA BlockStepType == ASSUME TypeOK, NEW b \in Blocks, BlockStep(b) PROVE TypeOK'
<1>1. CASE BlockStarts(b)
  BY <1>1 DEF BlockStarts, TypeOK, BlockHandlerState, escrowVars
<1>2. ASSUME NEW k \in Scripts, BlockVisits(b, k) PROVE TypeOK'
  BY <1>2 DEF BlockVisits, TypeOK, BlockHandlerState, escrowVars
<1>3. ASSUME NEW d \in Deposits, BlockLooks(b, d) PROVE TypeOK'
  <2> DEFINE h == blockHandler[b]
  <2>1. /\ h.key \in Scripts
        /\ known' = known \/ known' = [known EXCEPT ![h.key] = @ \ {d}]
        /\ \/ blockHandler' = [blockHandler EXCEPT ![b].ids = @ \ {d}]
           \/ blockHandler' = [blockHandler EXCEPT ![b].ids = @ \ {d}, ![b].cur = @ \cup {d}]
    BY <1>3, BlockLooksEffect
  <2>2. known' \in [Scripts -> SUBSET Deposits]
    <3>1. known \in [Scripts -> SUBSET Deposits]
      BY DEF TypeOK
    <3> HIDE DEF h
    <3> QED
      BY <2>1, <3>1
  <2>3. blockHandler' \in [Blocks -> BlockHandlerState]
    <3>1. CASE blockHandler' = [blockHandler EXCEPT ![b].ids = @ \ {d}]
      BY <3>1, BlockRecord
    <3>2. CASE blockHandler' = [blockHandler EXCEPT ![b].ids = @ \ {d}, ![b].cur = @ \cup {d}]
      BY <3>2, BlockRecord
    <3> QED
      BY <2>1, <3>1, <3>2
  <2> QED
    BY <1>3, <2>2, <2>3 DEF BlockLooks, TypeOK, escrowVars
<1>4. CASE BlockBroadcasts(b)
  <2>1. blockHandler[b].cur \in SUBSET Deposits /\ blockHandler[b].key \in Scripts
    BY <1>4 DEF BlockBroadcasts, TypeOK, BlockHandlerState
  <2>2. /\ channel' \in [Escrows -> Seq(SUBSET Deposits)]
        /\ \A e \in Escrows : Len(channel'[e]) <= ChanCap
    BY <1>4, <2>1, BroadcastAppends DEF BlockBroadcasts, BlockUpdate
  <2>3. blockHandler' \in [Blocks -> BlockHandlerState]
    <3>1. blockHandler' = [blockHandler EXCEPT ![b].key = None, ![b].cur = {}]
      BY <1>4 DEF BlockBroadcasts
    <3> QED
      BY <3>1, BlockRecord
  <2> QED
    BY <1>4, <2>2, <2>3 DEF BlockBroadcasts, TypeOK, escrowVars
<1> QED
  BY <1>1, <1>2, <1>3, <1>4 DEF BlockStep

\* Every step of an escrow's session keeps the types.
LEMMA EscrowStepType ==
    ASSUME TypeOK, NEW e \in Escrows, EscrowStep(e) \/ TrackEscrow(e) PROVE TypeOK'
<1> USE ScriptAssumption
<1>1. CASE Publish(e)
  BY <1>1 DEF Publish, TypeOK, watcherVars
<1>2. CASE CacheScript(e)
  BY <1>2 DEF CacheScript, TypeOK
<1>3. CASE Subscribe(e)
  BY <1>3 DEF Subscribe, TypeOK
<1>4. CASE Cleanup(e)
  <2>1. known' \in [Scripts -> SUBSET Deposits] /\ pkBytes' \subseteq Scripts
    BY <1>4 DEF Cleanup, TypeOK
  <2>2. subs' \subseteq Escrows /\ listed' \subseteq Escrows
    BY <1>4 DEF Cleanup, TypeOK
  <2> QED
    BY <1>4, <2>1, <2>2 DEF Cleanup, TypeOK
<1>5. CASE EnsureBoundFunding(e)
  <2>1. latest[e] \in SUBSET Deposits
    BY DEF TypeOK
  <2>2. bound' \in [Escrows -> Deposits \cup {None}]
    BY <1>5, <2>1, BindBinds DEF EnsureBoundFunding
  <2> QED
    BY <1>5, <2>2 DEF EnsureBoundFunding, TypeOK, watcherVars
<1>6. CASE TrackEscrow(e)
  <2>1. channel[e] # <<>>
    BY <1>6 DEF TrackEscrow
  <2>2. bound' \in [Escrows -> Deposits \cup {None}]
    BY <1>6, <2>1, BindBinds, ReceivedSnapshot DEF TrackEscrow, TypeOK
  <2>3. channel' = [channel EXCEPT ![e] = Tail(channel[e])]
    BY <1>6 DEF TrackEscrow
  <2>4. /\ channel' \in [Escrows -> Seq(SUBSET Deposits)]
        /\ \A g \in Escrows : Len(channel'[g]) <= ChanCap
    <3>1. channel \in [Escrows -> Seq(SUBSET Deposits)] /\ \A g \in Escrows : Len(channel[g]) <= ChanCap
      BY DEF TypeOK
    <3>2. Len(Tail(channel[e])) <= ChanCap
      BY <2>1, <3>1, ReceivedSnapshot, CapAssumption
    <3> QED
      BY <2>1, <2>3, <3>1, <3>2, ReceivedSnapshot
  <2>5. latest' \in [Escrows -> SUBSET Deposits]
    BY <1>6, <2>1, ReceivedSnapshot DEF TrackEscrow, TypeOK
  <2> QED
    BY <1>6, <2>2, <2>4, <2>5 DEF TrackEscrow, TypeOK, watcherVars
<1> QED
  BY <1>1, <1>2, <1>3, <1>4, <1>5, <1>6 DEF EscrowStep

LEMMA NextType == TypeOK /\ [Next]_vars => TypeOK'
<1> SUFFICES ASSUME TypeOK, [Next]_vars PROVE TypeOK'
  OBVIOUS
<1>1. ASSUME NEW d \in Deposits, Accept(d) PROVE TypeOK'
  BY <1>1 DEF Accept, TypeOK, TxHandlerState, escrowVars
<1>2. ASSUME NEW d \in Deposits, Spend(d) PROVE TypeOK'
  BY <1>2 DEF Spend, TypeOK, watcherVars, escrowVars
<1>3. CASE UNCHANGED vars
  BY <1>3 DEF vars, watcherVars, escrowVars, TypeOK
<1> QED
  BY <1>1, <1>2, <1>3, TxStepType, BlockStepType, EscrowStepType DEF Next

\* The types hold in every behaviour.
THEOREM FundingTypeCorrect == Spec => []TypeOK
<1>1. Init => TypeOK
  BY InitType
<1>2. TypeOK /\ [Next]_vars => TypeOK'
  BY NextType
<1> QED
  BY <1>1, <1>2, PTL DEF Spec

-----------------------------------------------------------------------------
(* Bindings *)

\* ensureBoundFunding runs on a snapshot that was read from the channel or kept.
LEMMA StepBinds ==
    ASSUME TypeOK, Next, NEW e \in Escrows, bound'[e] # bound[e]
    PROVE  /\ bound[e] = None
           /\ \/ bound'[e] \in latest[e] \cap ExactFor[e]
              \/ /\ channel[e] # <<>>
                 /\ bound'[e] \in Head(channel[e]) \cap ExactFor[e]
<1>1. ASSUME NEW g \in Escrows, EnsureBoundFunding(g)
      PROVE  bound[e] = None /\ bound'[e] \in latest[e] \cap ExactFor[e]
  <2>1. latest[g] \in SUBSET Deposits /\ Bind(g, latest[g])
    BY <1>1 DEF EnsureBoundFunding, TypeOK
  <2> QED
    BY <2>1, BindBinds
<1>2. ASSUME NEW g \in Escrows, TrackEscrow(g)
      PROVE  /\ bound[e] = None /\ channel[e] # <<>>
             /\ bound'[e] \in Head(channel[e]) \cap ExactFor[e]
  <2>1. channel[g] # <<>> /\ Bind(g, Head(channel[g]))
    BY <1>2 DEF TrackEscrow
  <2>2. Head(channel[g]) \in SUBSET Deposits
    BY <2>1, ReceivedSnapshot
  <2> QED
    BY <2>1, <2>2, BindBinds
<1>3. ASSUME NEW d \in Deposits, Accept(d) \/ Spend(d) \/ TxStep(d) PROVE bound' = bound
  BY <1>3 DEF Accept, Spend, TxStep, TxLooks, TxRecords, TxBroadcasts, escrowVars
<1>4. ASSUME NEW b \in Blocks, BlockStep(b) PROVE bound' = bound
  BY <1>4 DEF BlockStep, BlockStarts, BlockVisits, BlockLooks, BlockBroadcasts, escrowVars
<1>5. ASSUME NEW g \in Escrows, Publish(g) \/ CacheScript(g) \/ Subscribe(g) \/ Cleanup(g)
      PROVE  bound' = bound
  BY <1>5 DEF Publish, CacheScript, Subscribe, Cleanup
<1> QED
  BY <1>1, <1>2, <1>3, <1>4, <1>5 DEF Next, EscrowStep

\* An escrow that is bound stays bound to the same deposit.
THEOREM BindingNeverChanges == Spec => BindingIsFinal
<1>1. TypeOK /\ [Next]_vars => [\A e \in Escrows : bound[e] # None => bound'[e] = bound[e]]_vars
  <2> SUFFICES ASSUME TypeOK, Next, NEW e \in Escrows, bound[e] # None
               PROVE  bound'[e] = bound[e]
    OBVIOUS
  <2> QED
    BY StepBinds
<1> QED
  BY <1>1, FundingTypeCorrect, PTL DEF Spec, BindingIsFinal

-----------------------------------------------------------------------------
(* Reports of real deposits *)

\* A deposit that was made stays made.
LEMMA MadeGrows == ASSUME TypeOK, Next, NEW k PROVE Made(k) \subseteq Made(k)'
<1>1. \A d \in Deposits : chain[d] # "absent" => chain'[d] # "absent"
  <2>1. ASSUME NEW d \in Deposits, Accept(d) \/ Spend(d)
        PROVE  \A c \in Deposits : chain[c] # "absent" => chain'[c] # "absent"
    BY <2>1 DEF Accept, Spend, TypeOK
  <2>2. ASSUME NEW d \in Deposits, TxStep(d) PROVE chain' = chain
    BY <2>2 DEF TxStep, TxLooks, TxRecords, TxBroadcasts
  <2>3. ASSUME NEW b \in Blocks, BlockStep(b) PROVE chain' = chain
    BY <2>3 DEF BlockStep, BlockStarts, BlockVisits, BlockLooks, BlockBroadcasts
  <2>4. ASSUME NEW e \in Escrows, EscrowStep(e) \/ TrackEscrow(e) PROVE chain' = chain
    BY <2>4 DEF EscrowStep, Publish, CacheScript, Subscribe, Cleanup, EnsureBoundFunding, TrackEscrow
  <2> QED
    BY <2>1, <2>2, <2>3, <2>4 DEF Next
<1> QED
  BY <1>1 DEF Made

\* The watcher learns of deposits from the chain only.
LEMMA HandlersStep == ASSUME TypeOK, HandlersAreReal, Next PROVE HandlersAreReal'
<1> USE ScriptAssumption
<1>1. \A k : Made(k) \subseteq Made(k)'
  BY MadeGrows
<1>2. ASSUME NEW d \in Deposits, Accept(d) PROVE HandlersAreReal'
  BY <1>1, <1>2 DEF Accept, HandlersAreReal, TypeOK, Made, TxHandlerState
<1>3. ASSUME NEW d \in Deposits, TxStep(d) PROVE HandlersAreReal'
  <2>1. CASE TxRecords(d)
    <3> DEFINE cur == known[PaysTo[d]] \cup {d}
    <3>1. /\ known' = [known EXCEPT ![PaysTo[d]] = cur]
          /\ txHandler' = [txHandler EXCEPT ![d] = [pc |-> "recorded", cur |-> cur]]
          /\ UNCHANGED <<chain, blockHandler>>
      BY <2>1 DEF TxRecords
    <3>2. chain[d] # "absent"
      BY <2>1 DEF TxRecords, HandlersAreReal
    <3>3. cur \subseteq Made(PaysTo[d])
      BY <3>2 DEF HandlersAreReal, Made
    <3> HIDE DEF cur
    <3>4. \A k \in Scripts : known'[k] \subseteq Made(k)
      BY <3>1, <3>3 DEF HandlersAreReal, TypeOK
    <3>5. \A c \in Deposits :
             /\ txHandler'[c].pc # "none" => chain[c] # "absent"
             /\ txHandler'[c].cur \subseteq Made(PaysTo[c])
      BY <3>1, <3>2, <3>3 DEF HandlersAreReal, TypeOK
    <3> QED
      BY <3>1, <3>4, <3>5 DEF HandlersAreReal, Made
  <2>2. CASE TxLooks(d) \/ TxBroadcasts(d)
    <3>1. UNCHANGED <<chain, blockHandler, known>>
      BY <2>2 DEF TxLooks, TxBroadcasts
    <3>2. \A c \in Deposits :
             /\ txHandler'[c].pc # "none" => txHandler[c].pc # "none"
             /\ txHandler'[c].cur \subseteq txHandler[c].cur
      <4>1. CASE TxLooks(d)
        <5>1. PICK p : txHandler' = [txHandler EXCEPT ![d].pc = p] /\ txHandler[d].pc = "notified"
          BY <4>1 DEF TxLooks
        <5> QED
          BY <5>1 DEF TypeOK, TxHandlerState
      <4>2. CASE TxBroadcasts(d)
        BY <4>2 DEF TxBroadcasts, TypeOK
      <4> QED
        BY <2>2, <4>1, <4>2
    <3> QED
      BY <3>1, <3>2 DEF HandlersAreReal, Made
  <2> QED
    BY <1>3, <2>1, <2>2 DEF TxStep
<1>4. ASSUME NEW b \in Blocks, BlockStep(b) PROVE HandlersAreReal'
  <2>1. UNCHANGED <<chain, txHandler>>
    BY <1>4 DEF BlockStep, BlockStarts, BlockVisits, BlockLooks, BlockBroadcasts
  <2>2. \A k \in Scripts : known'[k] \subseteq known[k]
    <3>1. ASSUME NEW d \in Deposits, BlockLooks(b, d)
          PROVE  \A k \in Scripts : known'[k] \subseteq known[k]
      <4>1. PICK j \in Scripts : known' = known \/ known' = [known EXCEPT ![j] = @ \ {d}]
        BY <3>1, BlockLooksEffect
      <4>2. known \in [Scripts -> SUBSET Deposits]
        BY DEF TypeOK
      <4> QED
        BY <4>1, <4>2
    <3>2. CASE BlockStarts(b) \/ BlockBroadcasts(b) \/ \E k \in Scripts : BlockVisits(b, k)
      BY <3>2 DEF BlockStarts, BlockBroadcasts, BlockVisits
    <3> QED
      BY <1>4, <3>1, <3>2 DEF BlockStep
  <2>3. ASSUME NEW c \in Blocks, blockHandler'[c].key # None
        PROVE  /\ blockHandler'[c].ids \subseteq Made(blockHandler'[c].key)
               /\ blockHandler'[c].cur \subseteq Made(blockHandler'[c].key)
    <3> DEFINE h == blockHandler[c]
               i == blockHandler'[c]
               Real(r) == r.ids \subseteq Made(r.key) /\ r.cur \subseteq Made(r.key)
    <3>1. h.key # None => Real(h)
      BY DEF HandlersAreReal
    <3>2. blockHandler \in [Blocks -> BlockHandlerState]
      BY DEF TypeOK
    <3>3. CASE BlockStarts(b)
      <4>1. i.key = h.key /\ i.ids = h.ids /\ i.cur = h.cur
        BY <3>2, <3>3 DEF BlockStarts, BlockHandlerState
      <4> QED
        BY <2>3, <3>1, <4>1
    <3>4. ASSUME NEW k \in Scripts, BlockVisits(b, k) PROVE Real(i)
      <4>1. i = h \/ (i.key = k /\ i.ids = known[k] /\ i.cur = {})
        BY <3>2, <3>4 DEF BlockVisits
      <4> QED
        BY <2>3, <3>1, <4>1 DEF HandlersAreReal
    <3>5. ASSUME NEW d \in Deposits, BlockLooks(b, d) PROVE Real(i)
      <4>1. i.key = h.key /\ i.ids \subseteq h.ids /\ i.cur \subseteq h.cur \cup h.ids
        <5>1. d \in blockHandler[b].ids
          BY <3>5, BlockLooksEffect
        <5>2. CASE blockHandler' = [blockHandler EXCEPT ![b].ids = @ \ {d}]
          BY <3>2, <5>2 DEF BlockHandlerState
        <5>3. CASE blockHandler' = [blockHandler EXCEPT ![b].ids = @ \ {d}, ![b].cur = @ \cup {d}]
          BY <3>2, <5>1, <5>3 DEF BlockHandlerState
        <5> QED
          BY <3>5, <5>2, <5>3, BlockLooksEffect
      <4> QED
        BY <2>3, <3>1, <4>1
    <3>6. CASE BlockBroadcasts(b)
      <4>1. i = h \/ i.key = None
        BY <3>2, <3>6 DEF BlockBroadcasts, BlockHandlerState
      <4> QED
        BY <2>3, <3>1, <4>1
    <3> QED
      BY <1>4, <3>3, <3>4, <3>5, <3>6 DEF BlockStep
  <2> QED
    BY <2>1, <2>2, <2>3 DEF HandlersAreReal, Made
<1>5. ASSUME NEW e \in Escrows, EscrowStep(e) \/ TrackEscrow(e) PROVE HandlersAreReal'
  <2>1. UNCHANGED <<chain, txHandler, blockHandler>>
    BY <1>5 DEF EscrowStep, Publish, CacheScript, Subscribe, Cleanup, EnsureBoundFunding,
        TrackEscrow, watcherVars
  <2>2. \A k \in Scripts : known'[k] \subseteq known[k]
    <3>1. CASE Cleanup(e)
      BY <3>1 DEF Cleanup, TypeOK
    <3>2. CASE known' = known
      BY <3>2
    <3> QED
      BY <1>5, <3>1, <3>2 DEF EscrowStep, Publish, CacheScript, Subscribe, EnsureBoundFunding,
          TrackEscrow, watcherVars
  <2> QED
    BY <2>1, <2>2 DEF HandlersAreReal, Made
<1>6. ASSUME NEW d \in Deposits, Spend(d) PROVE HandlersAreReal'
  <2>1. UNCHANGED watcherVars /\ \A c \in Deposits : chain[c] # "absent" => chain'[c] # "absent"
    BY <1>6 DEF Spend, TypeOK
  <2> QED
    BY <1>1, <2>1 DEF HandlersAreReal, watcherVars
<1> QED
  BY <1>2, <1>3, <1>4, <1>5, <1>6 DEF Next

\* An escrow hears only what the watcher knows: of deposits to its own script.
LEMMA ReportsStep == ASSUME TypeOK, HandlersAreReal, ReportsAreReal, Next PROVE ReportsAreReal'
<1> USE ScriptAssumption
<1>1. \A k : Made(k) \subseteq Made(k)'
  BY MadeGrows
<1>2. ASSUME NEW k \in Scripts, NEW u \in SUBSET Deposits, u \subseteq Made(k),
             Broadcast(k, u), latest' = latest
      PROVE  ReportsAreReal'
  <2>1. ASSUME NEW e \in Escrows, NEW i \in 1 .. Len(channel'[e])
        PROVE  channel'[e][i] \subseteq Made(ScriptOf[e])
    <3>1. \/ i \in 1 .. Len(channel[e]) /\ channel'[e][i] = channel[e][i]
          \/ ScriptOf[e] = k /\ channel'[e][i] = u
      BY <1>2, BroadcastAppends
    <3> QED
      BY <1>2, <3>1 DEF ReportsAreReal
  <2>2. \A e \in Escrows : latest'[e] \subseteq Made(ScriptOf[e])
    BY <1>2 DEF ReportsAreReal
  <2> HIDE DEF Made
  <2>3. /\ \A e \in Escrows : \A i \in 1 .. Len(channel'[e]) : channel'[e][i] \subseteq Made(ScriptOf[e])'
        /\ \A e \in Escrows : latest'[e] \subseteq Made(ScriptOf[e])'
    BY <1>1, <2>1, <2>2
  <2> QED
    BY <2>3 DEF ReportsAreReal
<1>3. ASSUME UNCHANGED <<channel, latest>> PROVE ReportsAreReal'
  <2>1. /\ \A e \in Escrows : \A i \in 1 .. Len(channel'[e]) : channel'[e][i] \subseteq Made(ScriptOf[e])'
        /\ \A e \in Escrows : latest'[e] \subseteq Made(ScriptOf[e])'
    BY <1>1, <1>3 DEF ReportsAreReal
  <2> QED
    BY <2>1 DEF ReportsAreReal
<1>4. ASSUME NEW d \in Deposits, Accept(d) \/ Spend(d) \/ TxStep(d) PROVE ReportsAreReal'
  <2>1. CASE TxBroadcasts(d)
    <3>1. /\ Broadcast(PaysTo[d], txHandler[d].cur) /\ latest' = latest
          /\ txHandler[d].cur \in SUBSET Deposits
          /\ txHandler[d].cur \subseteq Made(PaysTo[d])
      BY <2>1 DEF TxBroadcasts, escrowVars, HandlersAreReal, TypeOK, TxHandlerState
    <3> QED
      BY <1>2, <3>1
  <2>2. CASE Accept(d) \/ Spend(d) \/ TxLooks(d) \/ TxRecords(d)
    BY <1>3, <2>2 DEF Accept, Spend, TxLooks, TxRecords, escrowVars
  <2> QED
    BY <1>4, <2>1, <2>2 DEF TxStep
<1>5. ASSUME NEW b \in Blocks, BlockStep(b) PROVE ReportsAreReal'
  <2>1. CASE BlockBroadcasts(b)
    <3> DEFINE h == blockHandler[b]
    <3>1. /\ Broadcast(h.key, h.cur) /\ latest' = latest
          /\ h.key \in Scripts /\ h.cur \in SUBSET Deposits /\ h.cur \subseteq Made(h.key)
      BY <2>1 DEF BlockBroadcasts, BlockUpdate, escrowVars, HandlersAreReal, TypeOK, BlockHandlerState
    <3> QED
      BY <1>2, <3>1
  <2>2. CASE UNCHANGED <<channel, latest>>
    BY <1>3, <2>2
  <2> QED
    BY <1>5, <2>1, <2>2 DEF BlockStep, BlockStarts, BlockVisits, BlockLooks, escrowVars
<1>6. ASSUME NEW e \in Escrows, TrackEscrow(e) PROVE ReportsAreReal'
  <2>1. /\ channel[e] # <<>> /\ channel' = [channel EXCEPT ![e] = Tail(channel[e])]
        /\ latest' = [latest EXCEPT ![e] = Head(channel[e])]
    BY <1>6 DEF TrackEscrow
  <2>2. Head(channel[e]) \subseteq Made(ScriptOf[e])
    BY <2>1, ReceivedSnapshot DEF ReportsAreReal
  <2>3. \A g \in Escrows : latest'[g] \subseteq Made(ScriptOf[g])
    BY <2>1, <2>2 DEF ReportsAreReal, TypeOK
  <2>4. ASSUME NEW g \in Escrows, NEW i \in 1 .. Len(channel'[g])
        PROVE  channel'[g][i] \subseteq Made(ScriptOf[g])
    <3>1. CASE g = e
      <4>1. channel'[g] = Tail(channel[e])
        BY <2>1, <3>1 DEF TypeOK
      <4>2. i + 1 \in 1 .. Len(channel[e]) /\ channel'[g][i] = channel[e][i + 1]
        BY <2>1, <4>1, ReceivedSnapshot
      <4> QED
        BY <3>1, <4>2 DEF ReportsAreReal
    <3>2. CASE g # e
      <4>1. channel'[g] = channel[g]
        BY <2>1, <3>2 DEF TypeOK
      <4> QED
        BY <4>1 DEF ReportsAreReal
    <3> QED
      BY <3>1, <3>2
  <2>5. /\ \A g \in Escrows : \A i \in 1 .. Len(channel'[g]) : channel'[g][i] \subseteq Made(ScriptOf[g])'
        /\ \A g \in Escrows : latest'[g] \subseteq Made(ScriptOf[g])'
    BY <1>1, <2>3, <2>4
  <2> QED
    BY <2>5 DEF ReportsAreReal
<1>7. ASSUME NEW e \in Escrows, EscrowStep(e) PROVE ReportsAreReal'
  BY <1>3, <1>7 DEF EscrowStep, Publish, CacheScript, Subscribe, Cleanup, EnsureBoundFunding
<1> QED
  BY <1>4, <1>5, <1>6, <1>7 DEF Next

\* An escrow is bound to one of the deposits it has heard of.
LEMMA BoundStep == ASSUME TypeOK, ReportsAreReal, BoundIsDeposit, Next PROVE BoundIsDeposit'
<1>1. ASSUME NEW e \in Escrows, bound'[e] # None
      PROVE  bound'[e] \in Made(ScriptOf[e])' \cap ExactFor[e]
  <2>1. ScriptOf[e] \in Scripts /\ Made(ScriptOf[e]) \subseteq Made(ScriptOf[e])'
    BY ScriptAssumption, MadeGrows
  <2>2. CASE bound'[e] = bound[e]
    <3>1. bound[e] \in Deposits
      BY <1>1, <2>2 DEF TypeOK
    <3>2. bound[e] \in Made(ScriptOf[e]) \cap ExactFor[e]
      BY <1>1, <2>2, <3>1 DEF BoundIsDeposit, Made
    <3> QED
      BY <2>1, <2>2, <3>2
  <2>3. CASE bound'[e] # bound[e]
    <3>1. \/ bound'[e] \in latest[e] \cap ExactFor[e]
          \/ channel[e] # <<>> /\ bound'[e] \in Head(channel[e]) \cap ExactFor[e]
      BY <2>3, StepBinds
    <3>2. latest[e] \subseteq Made(ScriptOf[e])
      BY DEF ReportsAreReal
    <3>3. channel[e] # <<>> => Head(channel[e]) \subseteq Made(ScriptOf[e])
      BY ReceivedSnapshot DEF ReportsAreReal
    <3> QED
      BY <2>1, <3>1, <3>2, <3>3
  <2> QED
    BY <2>2, <2>3
<1> QED
  BY <1>1 DEF BoundIsDeposit, Made

\* The inductive invariant: what is told of a script was deposited to it.
THEOREM ReportsComeFromDeposits == Spec => []IInv
<1>1. Init => IInv
  <2> SUFFICES ASSUME Init PROVE IInv
    OBVIOUS
  <2>1. TypeOK
    BY InitType
  <2>2. HandlersAreReal
    BY ScriptAssumption DEF Init, HandlersAreReal, IdleBlock
  <2>3. ReportsAreReal /\ BoundIsDeposit
    BY DEF Init, ReportsAreReal, BoundIsDeposit
  <2> QED
    BY <2>1, <2>2, <2>3 DEF IInv
<1>2. IInv /\ [Next]_vars => IInv'
  <2> SUFFICES ASSUME IInv, [Next]_vars PROVE IInv'
    OBVIOUS
  <2>1. CASE Next
    BY <2>1, NextType, HandlersStep, ReportsStep, BoundStep DEF IInv
  <2>2. CASE UNCHANGED vars
    BY <2>2 DEF vars, watcherVars, escrowVars, IInv, TypeOK, HandlersAreReal, ReportsAreReal,
        BoundIsDeposit, Made
  <2> QED
    BY <2>1, <2>2
<1> QED
  BY <1>1, <1>2, PTL DEF Spec

\* However late and out of order the snapshots are, an escrow is bound to a deposit
\* that was made, to its own script and of its very amount.
THEOREM BoundToADeposit == Spec => []BoundIsDeposit
<1>1. IInv => BoundIsDeposit
  BY DEF IInv
<1> QED
  BY <1>1, ReportsComeFromDeposits, PTL

=============================================================================
