------------------------------- MODULE Vault -------------------------------
(***************************************************************************)
(* Where a client keeps the keys of its escrows: PongClient's memory, the  *)
(* key file, the historic sessions directory and the UI that drives them.  *)
(* Every command of the UI runs in a goroutine of its own, so presses of   *)
(* "Open Escrow", funding updates, archiving, logins and refunds overlap;  *)
(* a file is truncated before it is written, and a restart reloads         *)
(* nothing.  An escrow stands for the press of the button that opened it   *)
(* and for the key that press generated.                                   *)
(***************************************************************************)
EXTENDS FiniteSets

CONSTANTS
    Escrows,    \* the presses of "Open Escrow"
    None,       \* no key, no escrow, no file
    Torn,       \* a file that was truncated and not yet written
    Mixed,      \* a file that holds the end of one save after another
    Update,     \* the persistence of one funding update
    Archive,    \* the archiving of one escrow
    Note,       \* the update of a historic record after a refund was built
    Auth        \* a login or logout that stores the wallet's address (bound: one at a time)

Threads == Escrows \cup {Update, Archive, Note}
Savers == Escrows \cup {Update, Auth}      \* who saves the key file
Names == {"pending", "match"} \X Escrows   \* the file names of historic_sessions/

VARIABLES
    mem,        \* PongClient: the session key and activeEscrowInfo
    keyFile,    \* the key in settlement_session_key.json, Torn or Mixed
    save,       \* what each saver of the key file has copied, and how far it is
    history,    \* the records of historic_sessions/
    keyOf,      \* the key in each escrow's script, as the server has it
    ui,         \* PongModel: the active escrow, its script and funding txid
    at,         \* where each thread is
    arg,        \* the escrow info each thread was called with
    pen,        \* what each thread is writing
    noted,      \* the file Note rewrites
    excused,    \* escrows whose press was crossed, record deleted or file cut (a ghost)
    tangled,    \* saves that ran beside another one or beside the making of a key (a ghost)
    doubtful    \* a tangled save was the last to touch the key file (a ghost)

fileVars == <<keyFile, save, tangled, doubtful>>
vaultVars == <<mem, fileVars, history, keyOf, ui, at, arg, pen, noted, excused>>

Keys == Escrows \cup {None}
Info == [id : Keys, script : Keys, txid : Keys]
Record == [key : Keys, id : Keys, script : Keys, txid : Keys]
Blank == [id |-> None, script |-> None, txid |-> None]
ASSUME VaultAssumption ==
    /\ None \notin Escrows /\ Torn # None /\ None \notin Record /\ Torn \notin Record
    /\ {Torn, Mixed} \cap Escrows = {} /\ {Update, Archive, Note, Auth} \cap Escrows = {}
    /\ Update # Archive /\ Update # Note /\ Archive # Note /\ Auth \notin {Update, Archive, Note}

Steps == {"idle", "generated", "keyed", "opened", "ready", "merged", "saved", "snapping",
          "stored", "shown", "failed", "asked", "taken", "archiving", "archived", "noting",
          "rewriting"}

VaultTypeOK ==
    /\ mem \in [key : Keys, info : Info]
    /\ keyFile \in Keys \cup {Torn, Mixed}
    /\ save \in [Savers -> [step : {"no", "copied", "cut", "unlinked"}, key : Keys]]
    /\ tangled \subseteq Savers /\ doubtful \in BOOLEAN
    /\ history \in [Names -> Record \cup {None, Torn}]
    /\ keyOf \in [Escrows -> Keys]
    /\ ui \in Info
    /\ at \in [Threads -> Steps]
    /\ arg \in [Threads -> Info]
    /\ pen \in [Threads -> Record \cup {None}]
    /\ noted \in Names \cup {None}
    /\ excused \subseteq Escrows

----------------------------------------------------------------------------
\* A key and the info beside it, as one file.
WithKey(key, info) == [key |-> key, id |-> info.id, script |-> info.script, txid |-> info.txid]

\* The files that can be read; the ones sessionDataForEscrow can return, in any directory order.
Readable == {n \in Names : history[n] \notin {None, Torn}}
Matching(e) == {n \in Readable : history[n].id = e}

\* BuildCSVRefundTx runs its transaction: the key must be the recorded script's.
Signs(r) == r.txid # None /\ r.key # None /\ r.key = r.script

\* Mutant: a redeem script that is there already is kept.
MergedScriptOnce(old, new) ==
    [f \in DOMAIN old |->
        IF new[f] = None \/ (f = "script" /\ old[f] # None) THEN old[f] ELSE new[f]]

\* mergeEscrowInfo: what the source leaves empty stays as it was.
Merged(old, new) == [f \in DOMAIN old |-> IF new[f] = None THEN old[f] ELSE new[f]]

InPress(e) == at[e] \notin {"idle", "shown", "failed"}

\* Pressing while another press, an update or the archiving still uses memory and files.
Crossed(e) ==
    LET busy == {f \in Escrows : InPress(f)} \cup ({arg[t].id : t \in {Update, Archive}} \ {None})
    IN IF busy = {} THEN {} ELSE busy \cup {e}

NoSave == [step |-> "no", key |-> None]
Saving == {t \in Savers : save[t].step # "no"}

VaultInit ==
    /\ mem = [key |-> None, info |-> Blank]
    /\ keyFile = None
    /\ save = [t \in Savers |-> NoSave] /\ tangled = {} /\ doubtful = FALSE
    /\ history = [n \in Names |-> None]
    /\ keyOf = [e \in Escrows |-> None]
    /\ ui = Blank
    /\ at = [t \in Threads |-> "idle"]
    /\ arg = [t \in Threads |-> Blank]
    /\ pen = [t \in Threads |-> None]
    /\ noted = None
    /\ excused = {}

Goes(t, step) == at' = [at EXCEPT ![t] = step]
Ends(t, step) ==
    /\ Goes(t, step)
    /\ arg' = [arg EXCEPT ![t] = Blank]
    /\ pen' = [pen EXCEPT ![t] = None]

----------------------------------------------------------------------------
(* The press of "Open Escrow". *)

\* The button is there while no escrow is active, also while another press is under way.
GenerateNewSettlementSessionKey(e) ==
    /\ at[e] = "idle"
    /\ ui.id = None
    /\ mem' = [mem EXCEPT !.key = e]
    /\ excused' = excused \cup Crossed(e)
    /\ tangled' = Saving
    /\ Goes(e, "generated")
    /\ UNCHANGED <<keyFile, save, doubtful, history, keyOf, ui, arg, pen, noted>>

\* The copy that will be written.
Copies(t, key) ==
    /\ t \notin Saving
    /\ save' = [save EXCEPT ![t] = [step |-> "copied", key |-> key]]
    /\ tangled' = IF Saving = {} THEN {} ELSE Saving \cup {t}
    /\ UNCHANGED <<mem, keyFile, doubtful, history, keyOf, ui, at, arg, pen, noted, excused>>

\* saveSettlementSessionKey copies the memory under the lock; no lock covers the rest of it.
SaveSettlementSessionKey(t) ==
    /\ t # Auth /\ at[t] \in {"generated", "merged"}
    /\ Copies(t, mem.key)

\* os.WriteFile opens the file, which cuts it, ...
CutKeyFile(t) ==
    /\ save[t].step = "copied"
    /\ save' = [save EXCEPT ![t].step = "cut"]
    /\ keyFile' = Torn
    /\ doubtful' = (t \in tangled)
    /\ UNCHANGED <<mem, tangled, history, keyOf, ui, at, arg, pen, noted, excused>>

\* ... and writes the copy over what another save has written since, which may be longer; a file
\* removed since is written in vain.  Nothing reads the key file back.
WriteKeyFile(t) ==
    /\ \/ /\ save[t].step = "cut"
          /\ keyFile' \in {save[t].key} \cup (IF keyFile = Torn THEN {} ELSE {Mixed})
          /\ doubtful' = (t \in tangled)
       \/ save[t].step = "unlinked" /\ UNCHANGED <<keyFile, doubtful>>
    /\ save' = [save EXCEPT ![t] = NoSave]
    /\ tangled' = tangled \ {t}
    /\ IF t = Auth THEN UNCHANGED at
       ELSE Goes(t, IF at[t] = "generated" THEN "keyed" ELSE "saved")
    /\ UNCHANGED <<mem, history, keyOf, ui, arg, pen, noted, excused>>

\* The server puts the memory's key in the escrow's script; the call may fail.
OpenEscrow(e) ==
    /\ at[e] = "keyed"
    /\ \/ /\ mem.key # None
          /\ keyOf' = [keyOf EXCEPT ![e] = mem.key]
          /\ Goes(e, "opened")
       \/ Goes(e, "failed") /\ UNCHANGED keyOf
    /\ UNCHANGED <<mem, fileVars, history, ui, arg, pen, noted, excused>>

\* The redeem script is derived from the key in memory once the answer is there.
DeriveScript(e) ==
    /\ at[e] = "opened"
    /\ \/ /\ mem.key # None
          /\ arg' = [arg EXCEPT ![e] = [id |-> e, script |-> mem.key, txid |-> None]]
          /\ Goes(e, "ready")
       \/ mem.key = None /\ Goes(e, "failed") /\ UNCHANGED arg
    /\ UNCHANGED <<mem, fileVars, history, keyOf, ui, pen, noted, excused>>

\* CacheEscrowInfo: merge, save the key file, snapshot.
Merge(t) ==
    /\ at[t] = "ready"
    /\ mem' = [mem EXCEPT !.info = Merged(mem.info, arg[t])]
    /\ Goes(t, "merged")
    /\ UNCHANGED <<fileVars, history, keyOf, ui, arg, pen, noted, excused>>

\* Mutant: a snapshot is taken with or without a key.
SnapshotOfAnything(t) ==
    /\ at[t] = "saved"
    /\ pen' = [pen EXCEPT ![t] = WithKey(mem.key, mem.info)]
    /\ history' = [history EXCEPT ![<<"pending", arg[t].id>>] = Torn]
    /\ Goes(t, "snapping")
    /\ UNCHANGED <<mem, fileVars, keyOf, ui, arg, noted, excused>>

\* A snapshot without a key in memory is refused; one with a key replaces the escrow's file.
SnapshotBegins(t) ==
    /\ at[t] = "saved"
    /\ \/ /\ mem.key # None
          /\ pen' = [pen EXCEPT ![t] = WithKey(mem.key, mem.info)]
          /\ history' = [history EXCEPT ![<<"pending", arg[t].id>>] = Torn]
          /\ Goes(t, "snapping")
          /\ UNCHANGED arg
       \/ /\ mem.key = None
          /\ Ends(t, IF t \in Escrows THEN "failed" ELSE "idle")
          /\ UNCHANGED history
    /\ UNCHANGED <<mem, fileVars, keyOf, ui, noted, excused>>

SnapshotEnds(t) ==
    /\ at[t] = "snapping"
    /\ history' = [history EXCEPT ![<<"pending", arg[t].id>>] = pen[t]]
    /\ pen' = [pen EXCEPT ![t] = None]
    /\ IF t \in Escrows
       THEN Goes(t, "stored") /\ UNCHANGED arg
       ELSE Goes(t, "idle") /\ arg' = [arg EXCEPT ![t] = Blank]
    /\ UNCHANGED <<mem, fileVars, keyOf, ui, noted, excused>>

\* ValidateHistoricRefundSession wants a key and a script; then the deposit address is shown.
ShowAddress(e) ==
    /\ at[e] = "stored"
    /\ \/ /\ \E n \in Matching(e) : history[n].key # None /\ history[n].script # None
          /\ ui' = [ui EXCEPT !.id = e, !.script = arg[e].script]
          /\ Ends(e, "shown")
       \/ /\ Matching(e) = {} \/ \E n \in Matching(e) : None \in {history[n].key, history[n].script}
          /\ Ends(e, "failed")
          /\ UNCHANGED ui
    /\ UNCHANGED <<mem, fileVars, history, keyOf, noted, excused>>

----------------------------------------------------------------------------
(* Funding updates, archiving, logins. *)

\* The server reports a deposit of this owner: the UI takes it for the active escrow's.
FundingUpdate(x) ==
    /\ at[x] = "shown"
    /\ at[Update] = "idle"
    /\ ui' = [ui EXCEPT !.script = keyOf[x], !.txid = x]
    /\ \/ /\ ui.id # None
          /\ arg' = [arg EXCEPT ![Update] = ui']
          /\ Goes(Update, "ready")
       \/ ui.id = None /\ UNCHANGED <<at, arg>>
    /\ UNCHANGED <<mem, fileVars, history, keyOf, pen, noted, excused>>

\* The room is left or the game is over: the escrow is archived if it was presigned and funded.
ClearEscrowState ==
    /\ ui # Blank
    /\ \/ /\ None \notin {ui.id, ui.txid}
          /\ at[Archive] = "idle"
          /\ arg' = [arg EXCEPT ![Archive] = ui]
          /\ Goes(Archive, "asked")
       \/ UNCHANGED <<at, arg>>
    /\ ui' = Blank
    /\ UNCHANGED <<mem, fileVars, history, keyOf, pen, noted, excused>>

\* ArchiveSettlementSessionKeyWithEscrow clears the memory first, ...
ArchiveTakesKey ==
    /\ at[Archive] = "asked"
    /\ mem' = [key |-> None, info |-> Blank]
    /\ \/ /\ mem.key # None
          /\ pen' = [pen EXCEPT ![Archive] = WithKey(mem.key, arg[Archive])]
          /\ Goes(Archive, "taken")
          /\ UNCHANGED arg
       \/ mem.key = None /\ Ends(Archive, "idle")
    /\ UNCHANGED <<fileVars, history, keyOf, ui, noted, excused>>

\* ... writes a record under the match's name ...
ArchiveWrites ==
    /\ \/ at[Archive] = "taken" /\ Goes(Archive, "archiving")
       \/ at[Archive] = "archiving" /\ Goes(Archive, "archived")
    /\ history' = [history EXCEPT ![<<"match", arg[Archive].id>>] =
                      IF at[Archive] = "taken" THEN Torn ELSE pen[Archive]]
    /\ UNCHANGED <<mem, fileVars, keyOf, ui, arg, pen, noted, excused>>

\* ... and removes the key file, whoever's key it holds by then.
ArchiveRemovesFile ==
    /\ at[Archive] = "archived"
    /\ keyFile' = None
    /\ save' = [t \in Savers |->
                   IF save[t].step = "cut" THEN [save[t] EXCEPT !.step = "unlinked"] ELSE save[t]]
    /\ Ends(Archive, "idle")
    /\ UNCHANGED <<mem, tangled, doubtful, history, keyOf, ui, noted, excused>>

\* Mutant: the file is written with the wallet's address alone.
CacheWalletOnly == Copies(Auth, None)

\* A login or a logout saves the wallet's address, and with it the key in memory or none.
CacheWalletAuthInfo == Copies(Auth, mem.key)

----------------------------------------------------------------------------
(* Refunds, deletions, restarts. *)

\* A refund was built from the first matching record; UpdateHistoricEscrow reads it again, ...
RefundEscrow(e) ==
    /\ at[Note] = "idle"
    /\ \E n \in Matching(e) :
        /\ Signs(history[n])
        /\ noted' = n
        /\ pen' = [pen EXCEPT ![Note] = history[n]]
    /\ Goes(Note, "noting")
    /\ UNCHANGED <<mem, fileVars, history, keyOf, ui, arg, excused>>

\* ... truncates the file and writes it with the new status.
UpdateHistoricEscrow ==
    /\ \/ /\ at[Note] = "noting"
          /\ history' = [history EXCEPT ![noted] = Torn]
          /\ Goes(Note, "rewriting")
          /\ UNCHANGED <<noted, arg, pen>>
       \/ /\ at[Note] = "rewriting"
          /\ history' = [history EXCEPT ![noted] = pen[Note]]
          /\ noted' = None
          /\ Ends(Note, "idle")
    /\ UNCHANGED <<mem, fileVars, keyOf, ui, excused>>

\* The user deletes an escrow: the first matching file goes.
DeleteHistoricEscrow(e) ==
    /\ \E n \in Matching(e) : history' = [history EXCEPT ![n] = None]
    /\ excused' = excused \cup {e}
    /\ UNCHANGED <<mem, fileVars, keyOf, ui, at, arg, pen, noted>>

\* The app ends, maybe in the middle of a write, and starts again: memory and UI are empty.
Restart ==
    /\ mem' = [key |-> None, info |-> Blank]
    /\ ui' = Blank
    /\ at' = [t \in Threads |-> IF t \in Escrows /\ InPress(t) THEN "failed"
                               ELSE IF t \in Escrows THEN at[t] ELSE "idle"]
    /\ arg' = [t \in Threads |-> Blank]
    /\ pen' = [t \in Threads |-> None]
    /\ noted' = None
    /\ save' = [t \in Savers |-> NoSave] /\ tangled' = {}
    /\ excused' = excused \cup {e \in Escrows : history[<<"pending", e>>] = Torn}
    /\ UNCHANGED <<keyFile, doubtful, history, keyOf>>

VaultNext ==
    \/ \E e \in Escrows :
        \/ GenerateNewSettlementSessionKey(e)
        \/ OpenEscrow(e)
        \/ DeriveScript(e)
        \/ ShowAddress(e)
        \/ FundingUpdate(e)
        \/ RefundEscrow(e)
        \/ DeleteHistoricEscrow(e)
    \/ \E t \in Savers : SaveSettlementSessionKey(t) \/ CutKeyFile(t) \/ WriteKeyFile(t)
    \/ \E t \in Threads :
        \/ Merge(t)
        \/ SnapshotBegins(t)
        \/ SnapshotEnds(t)
    \/ ClearEscrowState
    \/ ArchiveTakesKey
    \/ ArchiveWrites
    \/ ArchiveRemovesFile
    \/ CacheWalletAuthInfo
    \/ UpdateHistoricEscrow
    \/ Restart

VaultSpec == VaultInit /\ [][VaultNext]_vaultVars

----------------------------------------------------------------------------
Eligible(e) == at[e] = "shown" /\ e \notin excused

(* The key of an escrow whose deposit address was shown is on disk, or being written, whatever  *)
(* funding updates, archiving, later escrows, logins, refunds and restarts came since.          *)
KeyIsKept ==
    \A e \in Escrows : Eligible(e) =>
        \/ \E n \in Matching(e) : history[n].key = keyOf[e]
        \/ \E t \in Threads : pen[t] # None /\ pen[t].id = e /\ pen[t].key = keyOf[e]

(* A record of such an escrow that names the escrow's own deposit can be refunded from: its key *)
(* signs for its script, and that script is the one the deposit was made to.                    *)
OwnDepositIsRefundable ==
    \A e \in Escrows : Eligible(e) =>
        \A n \in Matching(e) :
            history[n].txid = e => Signs(history[n]) /\ history[n].script = keyOf[e]

(* While such an escrow is active, the key file holds its key, or is about to be written with   *)
(* it, as the documentation of the backup assumes: no login, update, crash or late end of an    *)
(* earlier escrow has replaced it.  Saves that overlap may leave a stale key or a garbled file, *)
(* until the next save that has the file to itself.                                             *)
KeyFileIsCurrent ==
    \A e \in Escrows : Eligible(e) /\ ui.id = e /\ ~doubtful =>
        \/ keyFile = keyOf[e]
        \/ \E t \in Saving : save[t].step = "cut" /\ save[t].key = keyOf[e]
=============================================================================
