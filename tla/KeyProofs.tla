----------------------------- MODULE KeyProofs -----------------------------
(***************************************************************************)
(* The keys of a client's escrows, for any number of presses of the button *)
(* (the first part): how long they are kept and what is kept beside them;  *)
(* and what is signed with them (the second), in every commutative group,  *)
(* whatever the challenge, the hashes and the parity of points are.        *)
(***************************************************************************)
EXTENDS Vault, Presign, TLAPS

\* An escrow that a press, the UI, a funding update or an archiving is about.
Active(e) == InPress(e) \/ e \in {ui.id, arg[Update].id, arg[Archive].id}

PressSteps == {"generated", "keyed", "opened", "ready", "merged", "saved", "snapping", "stored"}
Derived == {"ready", "merged", "saved", "snapping", "stored"}
Scripted == Derived \cup {"opened", "shown"}
Holding == {"snapping", "taken", "archiving", "archived", "noting", "rewriting"}

\* Where a thread is says what it was called with and what it holds.
ThreadsInv ==
    /\ \A e \in Escrows :
          /\ at[e] \in PressSteps \cup {"idle", "shown", "failed"}
          /\ arg[e].txid = None
          /\ at[e] \in Derived => arg[e].id = e /\ arg[e].script # None
          /\ at[e] \in Scripted => keyOf[e] # None
    /\ \/ at[Update] = "idle" /\ arg[Update].id = None
       \/ at[Update] \in {"ready", "merged", "saved", "snapping"} /\ arg[Update].id # None
    /\ arg[Update].id # None => None \notin {arg[Update].script, arg[Update].txid}
    /\ \/ at[Archive] = "idle" /\ arg[Archive].id = None
       \/ at[Archive] \in {"asked", "taken", "archiving", "archived"} /\ arg[Archive].id # None
    /\ at[Note] # "idle" => at[Note] \in {"noting", "rewriting"} /\ noted \in Names
    /\ \A t \in Threads : (pen[t] # None) = (at[t] \in Holding)
    /\ ui.id # None => at[ui.id] = "shown"
    /\ arg[Update].id # None => at[arg[Update].id] = "shown"
    /\ arg[Archive].id # None => at[arg[Archive].id] = "shown"

\* Who saves the key file is where it saves.
SaversInv ==
    \A t \in Savers \ {Auth} : save[t].step # "no" => at[t] \in {"generated", "merged"}

\* A txid is that of a shown escrow, and the escrow's own comes with its script.
Sound(i, steps, keys) ==
    /\ i.txid # None => steps[i.txid] = "shown"
    /\ i.id # None /\ i.id = i.txid => i.script = keys[i.id]

InfoInv ==
    /\ Sound(mem.info, at, keyOf) /\ Sound(ui, at, keyOf)
    /\ \A t \in Threads : Sound(arg[t], at, keyOf) /\ (pen[t] # None => Sound(pen[t], at, keyOf))
    /\ \A n \in Readable : Sound(history[n], at, keyOf)

\* The memory is the active escrow's, or it is empty.
MemoryInv(e) ==
    /\ Active(e) => \A f \in Escrows \ {e} : ~Active(f)
    /\ InPress(e) => mem.key = e
    /\ at[e] \in Scripted => keyOf[e] = e
    /\ at[e] \in Derived => arg[e].script = e
    /\ at[e] \in {"merged", "saved", "snapping", "stored"} => mem.info.id = e
    /\ ui.id = e => mem.key = e /\ mem.info.id = e /\ at[Archive] = "idle"
    /\ Active(e) /\ ~InPress(e) => mem.key \in {e, None} /\ (mem.key = e => mem.info.id = e)
    /\ mem.info.id = e => \A t \in Threads : at[t] \in {"merged", "saved"} => arg[t].id = e

\* Thread t has truncated the escrow's file and will write its record.
Writes(t, e) ==
    /\ pen[t] # None /\ pen[t].id = e
    /\ \/ at[t] = "snapping" /\ arg[t].id = e
       \/ t = Note /\ at[t] = "rewriting" /\ noted = <<"pending", e>>

Kept(e) ==
    LET file == history[<<"pending", e>>] IN
    \/ file \notin {None, Torn} /\ file.id = e
    \/ file = Torn /\ \E t \in Threads : Writes(t, e)

\* The escrow's file holds, or is about to hold, its record, and every record of it its key.
FileInv(e) ==
    /\ \A n \in Readable : history[n].id = e => history[n].key = e
    /\ \A t \in Threads : pen[t] # None /\ pen[t].id = e => pen[t].key = e
    /\ <<"pending", e>> \in Readable => history[<<"pending", e>>].id = e
    /\ at[Note] # "idle" /\ noted = <<"pending", e>> => pen[Note].id = e
    /\ \A t \in Threads : at[t] = "snapping" /\ arg[t].id = e => pen[t].id = e
    /\ at[e] \in {"snapping", "stored", "shown"} => Kept(e)

\* A save that runs alone has its own file open, cut and empty, and writes the memory's key.
LoneInv ==
    /\ tangled \subseteq Saving
    /\ \A t \in Saving \ tangled :
          /\ Saving = {t}
          /\ save[t].step = "cut" => keyFile = Torn
          /\ mem.key # None => save[t].key = mem.key

\* The press of e has saved its key, or e is the active escrow.
Past(e) == at[e] \in PressSteps \ {"generated"} \/ ui.id = e

\* From the press's own save on, the file holds the key or is about to be written with it.
CurrentInv(e) ==
    /\ at[e] = "generated" => save[e].step # "unlinked"
    /\ Past(e) /\ ~doubtful =>
          \/ keyFile = e
          \/ \E t \in Saving : save[t].step = "cut" /\ save[t].key = e

VaultInv ==
    /\ VaultTypeOK /\ ThreadsInv /\ InfoInv /\ SaversInv /\ LoneInv
    /\ \A e \in Escrows \ excused : MemoryInv(e) /\ FileInv(e) /\ CurrentInv(e)

----------------------------------------------------------------------------
(* Steps keep the types, and where each thread is. *)

\* VaultTypeOK, but for the key file and its saves.
OtherTypes ==
    /\ mem \in [key : Keys, info : Info]
    /\ history \in [Names -> Record \cup {None, Torn}]
    /\ keyOf \in [Escrows -> Keys]
    /\ ui \in Info
    /\ at \in [Threads -> Steps]
    /\ arg \in [Threads -> Info]
    /\ pen \in [Threads -> Record \cup {None}]
    /\ noted \in Names \cup {None}
    /\ excused \subseteq Escrows

\* The end of a save moves its thread, if it has one, and nothing but the key file.
LEMMA WriteMoves ==
    ASSUME SaversInv, NEW t \in Savers, WriteKeyFile(t)
    PROVE  /\ \/ at' = at
              \/ t \in Threads /\ at[t] = "generated" /\ at' = [at EXCEPT ![t] = "keyed"]
              \/ t \in Threads /\ at[t] = "merged" /\ at' = [at EXCEPT ![t] = "saved"]
           /\ UNCHANGED <<mem, history, keyOf, ui, arg, pen, noted, excused>>
<1>1. CASE t = Auth
  BY <1>1 DEF WriteKeyFile
<1>2. CASE t # Auth
  <2>1. t \in Threads /\ at[t] \in {"generated", "merged"}
    BY <1>2 DEF WriteKeyFile, SaversInv, Savers, Threads
  <2>2. at' = [at EXCEPT ![t] = IF at[t] = "generated" THEN "keyed" ELSE "saved"]
    BY <1>2 DEF WriteKeyFile, Goes
  <2>3. "generated" # "merged"
    OBVIOUS
  <2> QED
    BY <2>1, <2>2, <2>3 DEF WriteKeyFile
<1> QED
  BY <1>1, <1>2

LEMMA TypesStep == OtherTypes /\ SaversInv /\ [VaultNext]_vaultVars => OtherTypes'
<1> SUFFICES ASSUME OtherTypes, SaversInv, [VaultNext]_vaultVars PROVE OtherTypes'
  OBVIOUS
<1> USE VaultAssumption DEF OtherTypes, Goes, Ends, Info, Record,
        Keys, Steps, Threads, Names,
        Blank, WithKey, Readable, Matching, Merged
<1>1. ASSUME NEW e \in Escrows, GenerateNewSettlementSessionKey(e) PROVE OtherTypes'
  <2>1. arg[Update].id \in Keys /\ arg[Archive].id \in Keys
    OBVIOUS
  <2>2. Crossed(e) \subseteq Escrows
    BY <2>1 DEF Crossed
  <2>3. mem' \in [key : Keys, info : Info]
    BY <1>1 DEF GenerateNewSettlementSessionKey
  <2> QED
    BY <1>1, <2>2, <2>3 DEF GenerateNewSettlementSessionKey
<1>2. ASSUME NEW e \in Escrows, OpenEscrow(e) PROVE OtherTypes'
  BY <1>2 DEF OpenEscrow
<1>3. ASSUME NEW e \in Escrows, DeriveScript(e) PROVE OtherTypes'
  BY <1>3 DEF DeriveScript
<1>4. ASSUME NEW e \in Escrows, ShowAddress(e) PROVE OtherTypes'
  <2>1. arg[e].script \in Keys /\ Blank \in Info
    OBVIOUS
  <2>2. ui' \in Info
    <3>1. CASE ui' = ui
      BY <3>1
    <3>2. CASE ui' = [ui EXCEPT !.id = e, !.script = arg[e].script]
      BY <2>1, <3>2
    <3> QED
      BY <1>4, <3>1, <3>2 DEF ShowAddress
  <2>3. at' \in [Threads -> Steps] /\ arg' \in [Threads -> Info]
        /\ pen' \in [Threads -> Record \cup {None}]
    <3> HIDE DEF Matching, Readable, Names, Merged, WithKey, Ends
    <3>1. Ends(e, "shown") \/ Ends(e, "failed")
      BY <1>4 DEF ShowAddress
    <3>2. ASSUME NEW s \in {"shown", "failed"}, Ends(e, s)
          PROVE  /\ at' \in [Threads -> Steps] /\ arg' \in [Threads -> Info]
                 /\ pen' \in [Threads -> Record \cup {None}]
      BY <2>1, <3>2 DEF Ends
    <3> QED
      BY <3>1, <3>2
  <2> QED
    BY <1>4, <2>2, <2>3 DEF ShowAddress
<1>5. ASSUME NEW e \in Escrows, FundingUpdate(e) PROVE OtherTypes'
  <2>1. keyOf[e] \in Keys
    OBVIOUS
  <2>2. ui' \in Info
    BY <1>5, <2>1 DEF FundingUpdate
  <2>3. \/ at' = [at EXCEPT ![Update] = "ready"] /\ arg' = [arg EXCEPT ![Update] = ui']
        \/ at' = at /\ arg' = arg
    BY <1>5 DEF FundingUpdate
  <2>4. at' \in [Threads -> Steps] /\ arg' \in [Threads -> Info]
    BY <2>2, <2>3
  <2> QED
    BY <1>5, <2>2, <2>4 DEF FundingUpdate
<1>6. ASSUME NEW e \in Escrows, RefundEscrow(e) PROVE OtherTypes'
  BY <1>6 DEF RefundEscrow
<1>7. ASSUME NEW e \in Escrows, DeleteHistoricEscrow(e) PROVE OtherTypes'
  BY <1>7 DEF DeleteHistoricEscrow
<1>8. ASSUME NEW t \in Savers, SaveSettlementSessionKey(t) PROVE OtherTypes'
  BY <1>8 DEF SaveSettlementSessionKey, Copies
<1>20. ASSUME NEW t \in Savers, CutKeyFile(t) PROVE OtherTypes'
  BY <1>20 DEF CutKeyFile
<1>21. ASSUME NEW t \in Savers, WriteKeyFile(t) PROVE OtherTypes'
  BY <1>21, WriteMoves
<1>9. ASSUME NEW t \in Threads, Merge(t) PROVE OtherTypes'
  BY <1>9 DEF Merge
<1>10. ASSUME NEW t \in Threads, SnapshotBegins(t) PROVE OtherTypes'
  <2>1. CASE mem.key = None
    <3>1. history' = history /\ Ends(t, IF t \in Escrows THEN "failed" ELSE "idle")
      BY <1>10, <2>1 DEF SnapshotBegins
    <3> QED
      BY <1>10, <3>1 DEF SnapshotBegins
  <2>2. CASE mem.key # None
    <3>1. /\ at' = [at EXCEPT ![t] = "snapping"] /\ arg' = arg
          /\ pen' = [pen EXCEPT ![t] = WithKey(mem.key, mem.info)]
          /\ history' = [history EXCEPT ![<<"pending", arg[t].id>>] = Torn]
      BY <1>10, <2>2 DEF SnapshotBegins
    <3>2. WithKey(mem.key, mem.info) \in Record
      OBVIOUS
    <3> QED
      BY <1>10, <3>1, <3>2 DEF SnapshotBegins
  <2> QED
    BY <2>1, <2>2
<1>11. ASSUME NEW t \in Threads, SnapshotEnds(t) PROVE OtherTypes'
  <2>1. pen[t] \in Record \cup {None} /\ Blank \in Info
    OBVIOUS
  <2>2. history' \in [Names -> Record \cup {None, Torn}]
    BY <1>11, <2>1 DEF SnapshotEnds
  <2>3. at' \in [Threads -> Steps] /\ arg' \in [Threads -> Info]
    BY <1>11, <2>1 DEF SnapshotEnds
  <2> QED
    BY <1>11, <2>2, <2>3 DEF SnapshotEnds
<1>12. CASE ClearEscrowState
  BY <1>12 DEF ClearEscrowState
<1>13. CASE ArchiveTakesKey
  BY <1>13 DEF ArchiveTakesKey
<1>14. CASE ArchiveWrites
  <2>1. pen[Archive] \in Record \cup {None}
    OBVIOUS
  <2>2. history' \in [Names -> Record \cup {None, Torn}]
    BY <1>14, <2>1 DEF ArchiveWrites
  <2>3. at' \in [Threads -> Steps]
    BY <1>14, <2>1 DEF ArchiveWrites
  <2> QED
    BY <1>14, <2>2, <2>3 DEF ArchiveWrites
<1>15. CASE ArchiveRemovesFile
  BY <1>15 DEF ArchiveRemovesFile
<1>16. CASE CacheWalletAuthInfo
  BY <1>16 DEF CacheWalletAuthInfo, Copies
<1>17. CASE UpdateHistoricEscrow
  BY <1>17 DEF UpdateHistoricEscrow
<1>18. CASE Restart
  BY <1>18 DEF Restart
<1>19. CASE UNCHANGED vaultVars
  BY <1>19 DEF vaultVars
<1> QED
  BY <1>1, <1>2, <1>3, <1>4, <1>5, <1>6, <1>7, <1>8, <1>9, <1>10, <1>11, <1>12, <1>13, <1>14,
     <1>15, <1>16, <1>17, <1>18, <1>19, <1>20, <1>21 DEF VaultNext

\* The steps that leave the key file and its saves alone.
Elsewhere ==
    \/ \E e \in Escrows :
        \/ OpenEscrow(e) \/ DeriveScript(e) \/ ShowAddress(e) \/ FundingUpdate(e)
        \/ RefundEscrow(e) \/ DeleteHistoricEscrow(e)
    \/ \E t \in Threads : Merge(t) \/ SnapshotBegins(t) \/ SnapshotEnds(t)
    \/ ClearEscrowState \/ ArchiveTakesKey \/ ArchiveWrites \/ UpdateHistoricEscrow
    \/ UNCHANGED vaultVars

LEMMA FileSteps ==
    ASSUME [VaultNext]_vaultVars
    PROVE  \/ Elsewhere
           \/ \E e \in Escrows : GenerateNewSettlementSessionKey(e)
           \/ \E t \in Savers :
                \/ SaveSettlementSessionKey(t)
                \/ t = Auth /\ CacheWalletAuthInfo
                \/ CutKeyFile(t) \/ WriteKeyFile(t)
           \/ ArchiveRemovesFile \/ Restart
  BY DEF VaultNext, Elsewhere, Savers

LEMMA VaultTypeStep == VaultTypeOK /\ SaversInv /\ [VaultNext]_vaultVars => VaultTypeOK'
<1> SUFFICES ASSUME VaultTypeOK, SaversInv, [VaultNext]_vaultVars PROVE VaultTypeOK'
  OBVIOUS
<1>1. OtherTypes /\ OtherTypes'
  <2>1. OtherTypes
    BY DEF OtherTypes, VaultTypeOK
  <2> QED
    BY <2>1, TypesStep
<1> DEFINE FileTypes == /\ keyFile \in Keys \cup {Torn, Mixed}
                        /\ save \in [Savers -> [step : {"no", "copied", "cut", "unlinked"},
                                                key : Keys]]
                        /\ tangled \subseteq Savers /\ doubtful \in BOOLEAN
<1>2. FileTypes
  BY DEF VaultTypeOK
<1> USE DEF Saving, NoSave, Keys
<1>3. ASSUME UNCHANGED fileVars PROVE FileTypes'
  BY <1>2, <1>3 DEF fileVars
<1>4. ASSUME NEW e \in Escrows, GenerateNewSettlementSessionKey(e) PROVE FileTypes'
  BY <1>2, <1>4 DEF GenerateNewSettlementSessionKey
<1>5. ASSUME NEW t \in Savers, NEW k \in Keys, Copies(t, k) PROVE FileTypes'
  BY <1>2, <1>5 DEF Copies
<1>6. ASSUME NEW t \in Savers, CutKeyFile(t) PROVE FileTypes'
  BY <1>2, <1>6 DEF CutKeyFile
<1>7. ASSUME NEW t \in Savers, WriteKeyFile(t) PROVE FileTypes'
  <2>1. keyFile' \in {save[t].key, Mixed, keyFile}
    BY <1>7 DEF WriteKeyFile
  <2>2. save' = [save EXCEPT ![t] = NoSave] /\ tangled' = tangled \ {t}
    BY <1>7 DEF WriteKeyFile
  <2>3. keyFile' \in Keys \cup {Torn, Mixed}
    BY <1>2, <2>1
  <2>4. doubtful' \in BOOLEAN
    <3>1. doubtful \in BOOLEAN /\ (t \in tangled) \in BOOLEAN
      BY <1>2
    <3>2. doubtful' = doubtful \/ doubtful' = (t \in tangled)
      BY <1>7, Zenon DEF WriteKeyFile
    <3> QED
      BY <3>1, <3>2, Zenon
  <2>5. save' \in [Savers -> [step : {"no", "copied", "cut", "unlinked"}, key : Keys]]
    BY <1>2, <2>2
  <2> QED
    BY <1>2, <2>2, <2>3, <2>4, <2>5
<1>8. ASSUME ArchiveRemovesFile PROVE FileTypes'
  <2>1. \A t \in Savers : save'[t] \in {save[t], [save[t] EXCEPT !.step = "unlinked"]}
    BY <1>8 DEF ArchiveRemovesFile
  <2>2. \A t \in Savers : save'[t] \in [step : {"no", "copied", "cut", "unlinked"}, key : Keys]
    BY <1>2, <2>1
  <2>3. save' \in [Savers -> [step : {"no", "copied", "cut", "unlinked"}, key : Keys]]
    BY <1>8, <2>2 DEF ArchiveRemovesFile
  <2> QED
    BY <1>2, <1>8, <2>3 DEF ArchiveRemovesFile
<1>9. ASSUME Restart PROVE FileTypes'
  BY <1>2, <1>9 DEF Restart
<1>10. mem.key \in Keys
  BY DEF VaultTypeOK
<1>11. Elsewhere => UNCHANGED fileVars
  BY DEF Elsewhere, OpenEscrow, DeriveScript, ShowAddress, FundingUpdate, RefundEscrow,
         DeleteHistoricEscrow, Merge, SnapshotBegins, SnapshotEnds, ClearEscrowState,
         ArchiveTakesKey, ArchiveWrites, UpdateHistoricEscrow, vaultVars
<1>12. FileTypes'
  BY <1>3, <1>4, <1>5, <1>6, <1>7, <1>8, <1>9, <1>10, <1>11, FileSteps
     DEF SaveSettlementSessionKey, CacheWalletAuthInfo
<1> QED
  BY <1>1, <1>12 DEF VaultTypeOK, OtherTypes

LEMMA ThreadsStep ==
    VaultTypeOK /\ ThreadsInv /\ SaversInv /\ [VaultNext]_vaultVars => ThreadsInv'
<1> SUFFICES ASSUME VaultTypeOK, ThreadsInv, SaversInv, [VaultNext]_vaultVars PROVE ThreadsInv'
  OBVIOUS
<1> USE VaultAssumption DEF VaultTypeOK, ThreadsInv, Goes, Ends, Info,
        Record, Keys, Threads,
        Blank, WithKey, PressSteps, Derived, Scripted, Holding
<1>1. ASSUME NEW e \in Escrows, GenerateNewSettlementSessionKey(e) PROVE ThreadsInv'
  BY <1>1 DEF GenerateNewSettlementSessionKey
<1>2. ASSUME NEW e \in Escrows, OpenEscrow(e) PROVE ThreadsInv'
  BY <1>2, SMTT(30) DEF OpenEscrow
<1>3. ASSUME NEW e \in Escrows, DeriveScript(e) PROVE ThreadsInv'
  <2>1. CASE mem.key = None
    BY <1>3, <2>1, SMTT(30) DEF DeriveScript
  <2>2. CASE mem.key # None
    <3>1. /\ at[e] = "opened" /\ at' = [at EXCEPT ![e] = "ready"]
          /\ arg' = [arg EXCEPT ![e] = [id |-> e, script |-> mem.key, txid |-> None]]
          /\ UNCHANGED <<keyOf, ui, pen, noted>>
      BY <1>3, <2>2 DEF DeriveScript
    <3>2. arg'[e].id = e /\ arg'[e].script # None /\ arg'[e].txid = None
      BY <2>2, <3>1
    <3>3. \A t \in Threads \ {e} : at'[t] = at[t] /\ arg'[t] = arg[t]
      BY <3>1
    <3> QED
      BY <3>1, <3>2, <3>3
  <2> QED
    BY <2>1, <2>2
<1>4. ASSUME NEW e \in Escrows, ShowAddress(e) PROVE ThreadsInv'
  <2>1. ASSUME Ends(e, "shown"), ui' = [ui EXCEPT !.id = e, !.script = arg[e].script]
        PROVE  ThreadsInv'
    <3>1. ui'.id = e /\ at'[e] = "shown" /\ arg'[e] = Blank
      BY <2>1
    <3>2. \A t \in Threads \ {e} : at'[t] = at[t] /\ arg'[t] = arg[t] /\ pen'[t] = pen[t]
      BY <2>1
    <3>3. pen'[e] = None /\ at[e] = "stored"
      BY <1>4, <2>1 DEF ShowAddress
    <3> QED
      BY <1>4, <3>1, <3>2, <3>3, SMTT(30) DEF ShowAddress
  <2>2. ASSUME Ends(e, "failed"), UNCHANGED ui PROVE ThreadsInv'
    <3>1. at'[e] = "failed" /\ arg'[e] = Blank /\ pen'[e] = None
      BY <2>2
    <3>2. \A t \in Threads \ {e} : at'[t] = at[t] /\ arg'[t] = arg[t] /\ pen'[t] = pen[t]
      BY <2>2
    <3> QED
      BY <1>4, <2>2, <3>1, <3>2 DEF ShowAddress
  <2> QED
    BY <1>4, <2>1, <2>2 DEF ShowAddress
<1>5. ASSUME NEW e \in Escrows, FundingUpdate(e) PROVE ThreadsInv'
  <2>1. at[e] = "shown" /\ keyOf[e] # None /\ at[Update] = "idle"
    BY <1>5 DEF FundingUpdate
  <2>2. ui'.id = ui.id /\ ui'.script = keyOf[e] /\ ui'.txid = e
    BY <1>5 DEF FundingUpdate
  <2>3. CASE ui.id = None
    BY <1>5, <2>2, <2>3 DEF FundingUpdate
  <2>4. CASE ui.id # None
    <3>1. arg'[Update] = ui' /\ at'[Update] = "ready"
      BY <1>5, <2>4 DEF FundingUpdate
    <3>2. \A t \in Threads \ {Update} : at'[t] = at[t] /\ arg'[t] = arg[t]
      BY <1>5, <2>4 DEF FundingUpdate
    <3> QED
      BY <1>5, <2>1, <2>2, <2>4, <3>1, <3>2 DEF FundingUpdate
  <2> QED
    BY <2>3, <2>4
<1>6. ASSUME NEW e \in Escrows, RefundEscrow(e) PROVE ThreadsInv'
  <2>1. PICK n \in Matching(e) : noted' = n /\ pen' = [pen EXCEPT ![Note] = history[n]]
    BY <1>6 DEF RefundEscrow
  <2>2. n \in Names /\ history[n] # None
    BY <2>1 DEF Matching, Readable
  <2>3. at' = [at EXCEPT ![Note] = "noting"] /\ UNCHANGED <<keyOf, ui, arg>>
    BY <1>6 DEF RefundEscrow
  <2> QED
    BY <2>1, <2>2, <2>3, SMTT(30)
<1>7. ASSUME NEW e \in Escrows, DeleteHistoricEscrow(e) PROVE ThreadsInv'
  BY <1>7 DEF DeleteHistoricEscrow
<1>8. ASSUME NEW t \in Savers, SaveSettlementSessionKey(t) PROVE ThreadsInv'
  BY <1>8 DEF SaveSettlementSessionKey, Copies
<1>20. ASSUME NEW t \in Savers, CutKeyFile(t) PROVE ThreadsInv'
  BY <1>20 DEF CutKeyFile
<1>21. ASSUME NEW t \in Savers, WriteKeyFile(t) PROVE ThreadsInv'
  BY <1>21, WriteMoves
<1>9. ASSUME NEW t \in Threads, Merge(t) PROVE ThreadsInv'
  BY <1>9 DEF Merge
<1>10. ASSUME NEW t \in Threads, SnapshotBegins(t) PROVE ThreadsInv'
  <2>1. CASE mem.key = None
    <3>1. at[t] = "saved" /\ Ends(t, IF t \in Escrows THEN "failed" ELSE "idle")
      BY <1>10, <2>1 DEF SnapshotBegins
    <3>2. t \in Escrows \/ t = Update
      BY <3>1
    <3>3. \A u \in Threads \ {t} : at'[u] = at[u] /\ arg'[u] = arg[u] /\ pen'[u] = pen[u]
      BY <3>1
    <3>4. /\ at'[t] = IF t \in Escrows THEN "failed" ELSE "idle"
          /\ arg'[t] = Blank /\ pen'[t] = None
      BY <3>1
    <3>5. UNCHANGED <<keyOf, ui, noted>> /\ t # Archive /\ t # Note
      BY <1>10, <3>1, <3>2 DEF SnapshotBegins
    <3>6. CASE t \in Escrows
      BY <3>1, <3>3, <3>4, <3>5, <3>6
    <3>7. CASE t = Update
      BY <3>1, <3>3, <3>4, <3>5, <3>7
    <3> QED
      BY <3>2, <3>6, <3>7
  <2>2. CASE mem.key # None
    <3>1. /\ at[t] = "saved" /\ at' = [at EXCEPT ![t] = "snapping"]
          /\ pen' = [pen EXCEPT ![t] = WithKey(mem.key, mem.info)]
          /\ UNCHANGED <<arg, keyOf, ui, noted>>
      BY <1>10, <2>2 DEF SnapshotBegins
    <3>2. WithKey(mem.key, mem.info) # None
      OBVIOUS
    <3> QED
      BY <3>1, <3>2
  <2> QED
    BY <2>1, <2>2
<1>11. ASSUME NEW t \in Threads, SnapshotEnds(t) PROVE ThreadsInv'
  <2>1. /\ at[t] = "snapping" /\ pen' = [pen EXCEPT ![t] = None] /\ UNCHANGED <<keyOf, ui, noted>>
        /\ \/ t \in Escrows /\ at' = [at EXCEPT ![t] = "stored"] /\ arg' = arg
           \/ /\ t \notin Escrows /\ at' = [at EXCEPT ![t] = "idle"]
              /\ arg' = [arg EXCEPT ![t] = Blank]
    BY <1>11 DEF SnapshotEnds
  <2>2. t \in Escrows \/ t = Update
    BY <2>1
  <2> QED
    BY <2>1, <2>2, SMTT(30)
<1>12. CASE ClearEscrowState
  BY <1>12 DEF ClearEscrowState
<1>13. CASE ArchiveTakesKey
  BY <1>13 DEF ArchiveTakesKey
<1>14. CASE ArchiveWrites
  BY <1>14 DEF ArchiveWrites
<1>15. CASE ArchiveRemovesFile
  BY <1>15 DEF ArchiveRemovesFile
<1>16. CASE CacheWalletAuthInfo
  BY <1>16 DEF CacheWalletAuthInfo, Copies
<1>17. CASE UpdateHistoricEscrow
  <2>1. CASE at[Note] = "noting"
    BY <1>17, <2>1 DEF UpdateHistoricEscrow
  <2>2. CASE at[Note] = "rewriting"
    <3>1. Ends(Note, "idle") /\ UNCHANGED <<keyOf, ui>>
      BY <1>17, <2>2 DEF UpdateHistoricEscrow
    <3>2. at'[Note] = "idle" /\ pen'[Note] = None /\ arg'[Note] = Blank
      BY <3>1
    <3>3. \A t \in Threads \ {Note} : at'[t] = at[t] /\ arg'[t] = arg[t] /\ pen'[t] = pen[t]
      BY <3>1
    <3>4. \A e \in Escrows : at'[e] = at[e] /\ arg'[e] = arg[e] /\ keyOf'[e] = keyOf[e]
      BY <3>1, <3>3
    <3>5. /\ at'[Update] = at[Update] /\ arg'[Update] = arg[Update]
          /\ at'[Archive] = at[Archive] /\ arg'[Archive] = arg[Archive]
      BY <3>3
    <3>6. \A t \in Threads : (pen'[t] # None) = (at'[t] \in Holding)
      BY <3>2, <3>3
    <3>7. /\ ui'.id # None => at'[ui'.id] = "shown"
          /\ arg'[Update].id # None => at'[arg'[Update].id] = "shown"
          /\ arg'[Archive].id # None => at'[arg'[Archive].id] = "shown"
      BY <3>1, <3>4, <3>5
    <3>8. \A e \in Escrows :
            /\ at'[e] \in PressSteps \cup {"idle", "shown", "failed"}
            /\ arg'[e].txid = None
            /\ at'[e] \in Derived => arg'[e].id = e /\ arg'[e].script # None
            /\ at'[e] \in Scripted => keyOf'[e] # None
      BY <3>4
    <3> QED
      BY <3>2, <3>5, <3>6, <3>7, <3>8
  <2> QED
    BY <1>17, <2>1, <2>2 DEF UpdateHistoricEscrow
<1>18. CASE Restart
  <2>1. \A e \in Escrows : /\ at'[e] \in {"idle", "shown", "failed"}
                           /\ (at'[e] = "shown") = (at[e] = "shown")
    BY <1>18 DEF Restart, InPress
  <2>2. \A t \in Threads \ Escrows : at'[t] = "idle"
    BY <1>18 DEF Restart
  <2>3. /\ \A t \in Threads : arg'[t] = Blank /\ pen'[t] = None
        /\ ui' = Blank /\ keyOf' = keyOf
    BY <1>18 DEF Restart
  <2>4. \A t \in Threads : at'[t] \notin Holding
    BY <2>1, <2>2
  <2>5. \A e \in Escrows : at'[e] \in Scripted => keyOf'[e] # None
    BY <2>1, <2>3
  <2>6. /\ at'[Update] = "idle" /\ at'[Archive] = "idle" /\ at'[Note] = "idle"
        /\ arg'[Update].id = None /\ arg'[Archive].id = None /\ ui'.id = None
    BY <2>2, <2>3
  <2>7. \A t \in Threads : (pen'[t] # None) = (at'[t] \in Holding)
    BY <2>3, <2>4
  <2>8. \A e \in Escrows :
            /\ at'[e] \in PressSteps \cup {"idle", "shown", "failed"}
            /\ arg'[e].txid = None
            /\ at'[e] \in Derived => arg'[e].id = e /\ arg'[e].script # None
            /\ at'[e] \in Scripted => keyOf'[e] # None
    BY <2>1, <2>3, <2>5
  <2> QED
    BY <2>6, <2>7, <2>8
<1>19. CASE UNCHANGED vaultVars
  BY <1>19 DEF vaultVars
<1> QED
  BY <1>1, <1>2, <1>3, <1>4, <1>5, <1>6, <1>7, <1>8, <1>9, <1>10, <1>11, <1>12, <1>13, <1>14,
     <1>15, <1>16, <1>17, <1>18, <1>19, <1>20, <1>21 DEF VaultNext

----------------------------------------------------------------------------
(* No record pairs an escrow with another's deposit. *)

\* A shown escrow stays shown, and its script what it was.
LEMMA ShownStays ==
    ASSUME VaultTypeOK, ThreadsInv, SaversInv, [VaultNext]_vaultVars
    PROVE  \A e \in Escrows : at[e] = "shown" => at'[e] = "shown" /\ keyOf'[e] = keyOf[e]
<1> SUFFICES ASSUME NEW e \in Escrows, at[e] = "shown"
             PROVE  at'[e] = "shown" /\ keyOf'[e] = keyOf[e]
  OBVIOUS
<1> USE VaultAssumption DEF VaultTypeOK, ThreadsInv, Goes, Ends,
        Threads
<1>1. ASSUME NEW f \in Escrows, GenerateNewSettlementSessionKey(f)
      PROVE  at'[e] = "shown" /\ keyOf'[e] = keyOf[e]
  BY <1>1 DEF GenerateNewSettlementSessionKey
<1>2. ASSUME NEW f \in Escrows, OpenEscrow(f) PROVE at'[e] = "shown" /\ keyOf'[e] = keyOf[e]
  BY <1>2 DEF OpenEscrow
<1>3. ASSUME NEW f \in Escrows, DeriveScript(f) PROVE at'[e] = "shown" /\ keyOf'[e] = keyOf[e]
  BY <1>3 DEF DeriveScript
<1>4. ASSUME NEW f \in Escrows, ShowAddress(f) PROVE at'[e] = "shown" /\ keyOf'[e] = keyOf[e]
  BY <1>4 DEF ShowAddress
<1>5. ASSUME NEW f \in Escrows, FundingUpdate(f) PROVE at'[e] = "shown" /\ keyOf'[e] = keyOf[e]
  BY <1>5 DEF FundingUpdate
<1>6. ASSUME NEW f \in Escrows, RefundEscrow(f) PROVE at'[e] = "shown" /\ keyOf'[e] = keyOf[e]
  BY <1>6 DEF RefundEscrow
<1>7. ASSUME NEW f \in Escrows, DeleteHistoricEscrow(f)
      PROVE  at'[e] = "shown" /\ keyOf'[e] = keyOf[e]
  BY <1>7 DEF DeleteHistoricEscrow
<1>8. ASSUME NEW t \in Savers, SaveSettlementSessionKey(t)
      PROVE  at'[e] = "shown" /\ keyOf'[e] = keyOf[e]
  BY <1>8 DEF SaveSettlementSessionKey, Copies
<1>20. ASSUME NEW t \in Savers, CutKeyFile(t)
      PROVE  at'[e] = "shown" /\ keyOf'[e] = keyOf[e]
  BY <1>20 DEF CutKeyFile
<1>21. ASSUME NEW t \in Savers, WriteKeyFile(t)
      PROVE  at'[e] = "shown" /\ keyOf'[e] = keyOf[e]
  BY <1>21, WriteMoves
<1>9. ASSUME NEW t \in Threads, Merge(t) PROVE at'[e] = "shown" /\ keyOf'[e] = keyOf[e]
  BY <1>9 DEF Merge
<1>10. ASSUME NEW t \in Threads, SnapshotBegins(t)
       PROVE  at'[e] = "shown" /\ keyOf'[e] = keyOf[e]
  BY <1>10 DEF SnapshotBegins
<1>11. ASSUME NEW t \in Threads, SnapshotEnds(t) PROVE at'[e] = "shown" /\ keyOf'[e] = keyOf[e]
  BY <1>11 DEF SnapshotEnds
<1>12. CASE ClearEscrowState
  BY <1>12 DEF ClearEscrowState
<1>13. CASE ArchiveTakesKey
  BY <1>13 DEF ArchiveTakesKey
<1>14. CASE ArchiveWrites
  BY <1>14 DEF ArchiveWrites
<1>15. CASE ArchiveRemovesFile
  BY <1>15 DEF ArchiveRemovesFile
<1>16. CASE CacheWalletAuthInfo
  BY <1>16 DEF CacheWalletAuthInfo, Copies
<1>17. CASE UpdateHistoricEscrow
  BY <1>17 DEF UpdateHistoricEscrow
<1>18. CASE Restart
  BY <1>18 DEF Restart, InPress
<1>19. CASE UNCHANGED vaultVars
  BY <1>19 DEF vaultVars
<1> QED
  BY <1>1, <1>2, <1>3, <1>4, <1>5, <1>6, <1>7, <1>8, <1>9, <1>10, <1>11, <1>12, <1>13, <1>14,
     <1>15, <1>16, <1>17, <1>18, <1>19, <1>20, <1>21 DEF VaultNext

\* What was sound stays sound, also beside a key.
LEMMA SoundStays ==
    ASSUME VaultTypeOK, ThreadsInv, SaversInv, [VaultNext]_vaultVars
    PROVE  /\ \A i \in Info \cup Record : Sound(i, at, keyOf) => Sound(i, at', keyOf')
           /\ Sound(Blank, at', keyOf')
           /\ \A k \in Keys, i \in Info :
                Sound(i, at', keyOf') => Sound(WithKey(k, i), at', keyOf')
<1>1. ASSUME NEW i \in Info \cup Record, Sound(i, at, keyOf) PROVE Sound(i, at', keyOf')
  <2>1. i.txid # None => i.txid \in Escrows
    BY DEF Info, Record, Keys
  <2>2. i.txid # None => at'[i.txid] = "shown"
    BY <1>1, <2>1, ShownStays DEF Sound
  <2>3. i.id # None /\ i.id = i.txid => i.script = keyOf'[i.id]
    BY <1>1, <2>1, ShownStays DEF Sound
  <2> QED
    BY <2>2, <2>3 DEF Sound
<1>2. Sound(Blank, at', keyOf')
  BY DEF Sound, Blank
<1>3. ASSUME NEW k \in Keys, NEW i \in Info, Sound(i, at', keyOf')
      PROVE  Sound(WithKey(k, i), at', keyOf')
  BY <1>3 DEF Sound, WithKey
<1> QED
  BY <1>1, <1>2, <1>3

\* Every record a step makes comes from sound ones.
LEMMA InfoStep ==
    VaultTypeOK /\ VaultTypeOK' /\ ThreadsInv /\ SaversInv /\ InfoInv /\ [VaultNext]_vaultVars
        => InfoInv'
<1> SUFFICES ASSUME VaultTypeOK, VaultTypeOK', ThreadsInv, SaversInv, InfoInv,
                    [VaultNext]_vaultVars
             PROVE  InfoInv'
  OBVIOUS
<1> USE VaultAssumption DEF VaultTypeOK, Threads
<1> DEFINE Fine(i) == Sound(i, at', keyOf')
           Goal == /\ Fine(mem'.info) /\ Fine(ui') /\ \A t \in Threads : Fine(arg'[t])
                   /\ \A t \in Threads : pen'[t] # None => Fine(pen'[t])
                   /\ \A n \in Names : history'[n] \in Record => Fine(history'[n])
<1>a. \A i \in Info \cup Record : Sound(i, at, keyOf) => Fine(i)
  BY SoundStays
<1>b. Fine(Blank)
  BY SoundStays
<1>c. \A k \in Keys, i \in Info : Fine(i) => Fine(WithKey(k, i))
  BY SoundStays
<1>d. Fine(mem.info) /\ Fine(ui) /\ \A t \in Threads : Fine(arg[t])
  BY <1>a DEF InfoInv
<1>e. \A t \in Threads : pen[t] # None => Fine(pen[t])
  BY <1>a DEF InfoInv
<1>f. \A n \in Names : history[n] \in Record => Fine(history[n])
  BY <1>a DEF InfoInv, Readable
<1>g. Goal => InfoInv'
  BY DEF InfoInv, Readable
<1> HIDE DEF Fine
<1> SUFFICES Goal
  BY <1>g
<1> USE DEF Goes, Ends
<1>1. ASSUME NEW e \in Escrows, GenerateNewSettlementSessionKey(e) PROVE Goal
  BY <1>1, <1>d, <1>e, <1>f DEF GenerateNewSettlementSessionKey
<1>2. ASSUME NEW e \in Escrows, OpenEscrow(e) PROVE Goal
  BY <1>2, <1>d, <1>e, <1>f DEF OpenEscrow
<1>3. ASSUME NEW e \in Escrows, DeriveScript(e) PROVE Goal
  <2>1. Fine([id |-> e, script |-> mem.key, txid |-> None])
    BY DEF Fine, Sound
  <2>2. \A t \in Threads : Fine(arg'[t])
    BY <1>3, <1>d, <2>1 DEF DeriveScript
  <2> QED
    BY <1>3, <1>d, <1>e, <1>f, <2>2 DEF DeriveScript
<1>4. ASSUME NEW e \in Escrows, ShowAddress(e) PROVE Goal
  <2>1. ui.txid # e
    BY <1>4 DEF ShowAddress, InfoInv, Sound
  <2>2. Fine(ui')
    <3>1. CASE UNCHANGED ui
      BY <1>d, <3>1
    <3>2. CASE ui' = [ui EXCEPT !.id = e, !.script = arg[e].script]
      <4>1. ui'.txid = ui.txid /\ ui'.id = e
        BY <3>2 DEF Info
      <4> QED
        BY <1>d, <2>1, <4>1 DEF Fine, Sound
    <3> QED
      BY <1>4, <3>1, <3>2 DEF ShowAddress
  <2>3. \A t \in Threads : arg'[t] \in {arg[t], Blank} /\ pen'[t] \in {pen[t], None}
    BY <1>4 DEF ShowAddress
  <2>4. UNCHANGED <<mem, history>>
    BY <1>4 DEF ShowAddress
  <2> QED
    BY <1>b, <1>d, <1>e, <1>f, <2>2, <2>3, <2>4
<1>5. ASSUME NEW e \in Escrows, FundingUpdate(e) PROVE Goal
  <2>1. at[e] = "shown" /\ ui' = [ui EXCEPT !.script = keyOf[e], !.txid = e]
    BY <1>5 DEF FundingUpdate
  <2>2. ui'.txid = e /\ ui'.script = keyOf[e] /\ ui'.id = ui.id
    BY <2>1 DEF Info
  <2>3. Fine(ui')
    BY <2>1, <2>2, ShownStays DEF Fine, Sound
  <2>4. \A t \in Threads : arg'[t] \in {arg[t], ui'}
    BY <1>5 DEF FundingUpdate
  <2>5. UNCHANGED <<mem, history, pen>>
    BY <1>5 DEF FundingUpdate
  <2> QED
    BY <1>d, <1>e, <1>f, <2>3, <2>4, <2>5
<1>6. ASSUME NEW e \in Escrows, RefundEscrow(e) PROVE Goal
  <2>1. PICK n \in Matching(e) : pen' = [pen EXCEPT ![Note] = history[n]]
    BY <1>6 DEF RefundEscrow
  <2>2. n \in Names /\ Fine(history[n])
    BY <1>f, <2>1 DEF Matching, Readable
  <2>3. \A t \in Threads : pen'[t] \in {pen[t], history[n]}
    BY <2>1
  <2> QED
    BY <1>6, <1>d, <1>e, <1>f, <2>2, <2>3 DEF RefundEscrow
<1>7. ASSUME NEW e \in Escrows, DeleteHistoricEscrow(e) PROVE Goal
  <2>1. \A n \in Names : history'[n] \in {history[n], None}
    BY <1>7 DEF DeleteHistoricEscrow
  <2> QED
    BY <1>7, <1>d, <1>e, <1>f, <2>1 DEF DeleteHistoricEscrow
<1>8. ASSUME NEW t \in Savers, SaveSettlementSessionKey(t) PROVE Goal
  BY <1>8, <1>d, <1>e, <1>f DEF SaveSettlementSessionKey, Copies
<1>20. ASSUME NEW t \in Savers, CutKeyFile(t) PROVE Goal
  BY <1>20, <1>d, <1>e, <1>f DEF CutKeyFile
<1>21. ASSUME NEW t \in Savers, WriteKeyFile(t) PROVE Goal
  BY <1>21, <1>d, <1>e, <1>f, WriteMoves
<1>9. ASSUME NEW t \in Threads, Merge(t) PROVE Goal
  <2>1. mem' = [mem EXCEPT !.info = Merged(mem.info, arg[t])] /\ at[t] = "ready"
    BY <1>9 DEF Merge
  <2>2. mem'.info = Merged(mem.info, arg[t])
    BY <2>1
  <2>3. /\ Merged(mem.info, arg[t]).id = IF arg[t].id = None THEN mem.info.id ELSE arg[t].id
        /\ Merged(mem.info, arg[t]).script =
              IF arg[t].script = None THEN mem.info.script ELSE arg[t].script
        /\ Merged(mem.info, arg[t]).txid =
             IF arg[t].txid = None THEN mem.info.txid ELSE arg[t].txid
    BY DEF Merged, Info
  <2>4. CASE t \in Escrows
    <3>1. arg[t].id = t /\ arg[t].txid = None /\ t # None
      BY <2>1, <2>4 DEF ThreadsInv, Derived
    <3>2. mem.info.txid # t
      BY <2>1, <3>1 DEF InfoInv, Sound
    <3> QED
      BY <1>9, <1>d, <1>e, <1>f, <2>2, <2>3, <3>1, <3>2 DEF Fine, Sound, Merge
  <2>5. CASE t \notin Escrows
    <3>1. t = Update
      BY <2>1, <2>5 DEF ThreadsInv
    <3>2. None \notin {arg[t].id, arg[t].script, arg[t].txid}
      BY <2>1, <3>1 DEF ThreadsInv
    <3>3. Fine(mem'.info)
      BY <1>d, <2>2, <2>3, <3>2 DEF Fine, Sound
    <3> QED
      BY <1>9, <1>d, <1>e, <1>f, <3>3 DEF Merge
  <2> QED
    BY <2>4, <2>5
<1>10. ASSUME NEW t \in Threads, SnapshotBegins(t) PROVE Goal
  <2>1. mem.key \in Keys /\ mem.info \in Info
    OBVIOUS
  <2>2. Fine(WithKey(mem.key, mem.info))
    BY <1>c, <1>d, <2>1
  <2>3. \A u \in Threads : /\ arg'[u] \in {arg[u], Blank}
                           /\ pen'[u] \in {pen[u], None, WithKey(mem.key, mem.info)}
    BY <1>10 DEF SnapshotBegins
  <2>4. \A n \in Names : history'[n] \in {history[n], Torn}
    BY <1>10 DEF SnapshotBegins
  <2>5. UNCHANGED <<mem, ui>>
    BY <1>10 DEF SnapshotBegins
  <2> QED
    BY <1>b, <1>d, <1>e, <1>f, <2>2, <2>3, <2>4, <2>5
<1>11. ASSUME NEW t \in Threads, SnapshotEnds(t) PROVE Goal
  <2>1. pen[t] # None /\ Fine(pen[t])
    BY <1>11, <1>e DEF SnapshotEnds, ThreadsInv, Holding
  <2>2. \A u \in Threads : arg'[u] \in {arg[u], Blank} /\ pen'[u] \in {pen[u], None}
    BY <1>11 DEF SnapshotEnds
  <2>3. \A n \in Names : history'[n] \in {history[n], pen[t]}
    BY <1>11 DEF SnapshotEnds
  <2>4. UNCHANGED <<mem, ui>>
    BY <1>11 DEF SnapshotEnds
  <2> QED
    BY <1>b, <1>d, <1>e, <1>f, <2>1, <2>2, <2>3, <2>4
<1>12. CASE ClearEscrowState
  <2>1. \A t \in Threads : arg'[t] \in {arg[t], ui}
    BY <1>12 DEF ClearEscrowState
  <2> QED
    BY <1>12, <1>b, <1>d, <1>e, <1>f, <2>1 DEF ClearEscrowState
<1>13. CASE ArchiveTakesKey
  <2>1. mem.key \in Keys /\ arg[Archive] \in Info
    OBVIOUS
  <2>2. Fine(WithKey(mem.key, arg[Archive]))
    BY <1>c, <1>d, <2>1
  <2>3. \A u \in Threads : /\ arg'[u] \in {arg[u], Blank}
                           /\ pen'[u] \in {pen[u], None, WithKey(mem.key, arg[Archive])}
    BY <1>13 DEF ArchiveTakesKey
  <2>4. mem'.info = Blank /\ UNCHANGED <<ui, history>>
    BY <1>13 DEF ArchiveTakesKey
  <2> QED
    BY <1>b, <1>d, <1>e, <1>f, <2>2, <2>3, <2>4
<1>14. CASE ArchiveWrites
  <2>1. pen[Archive] # None /\ Fine(pen[Archive])
    BY <1>14, <1>e DEF ArchiveWrites, ThreadsInv, Holding
  <2>2. \A n \in Names : history'[n] \in {history[n], Torn, pen[Archive]}
    BY <1>14 DEF ArchiveWrites
  <2>3. UNCHANGED <<mem, ui, arg, pen>>
    BY <1>14 DEF ArchiveWrites
  <2> QED
    BY <1>d, <1>e, <1>f, <2>1, <2>2, <2>3
<1>15. CASE ArchiveRemovesFile
  <2>1. \A u \in Threads : arg'[u] \in {arg[u], Blank} /\ pen'[u] \in {pen[u], None}
    BY <1>15 DEF ArchiveRemovesFile
  <2> QED
    BY <1>15, <1>b, <1>d, <1>e, <1>f, <2>1 DEF ArchiveRemovesFile
<1>16. CASE CacheWalletAuthInfo
  BY <1>16, <1>d, <1>e, <1>f DEF CacheWalletAuthInfo, Copies
<1>17. CASE UpdateHistoricEscrow
  <2>1. pen[Note] # None /\ Fine(pen[Note])
    BY <1>17, <1>e DEF UpdateHistoricEscrow, ThreadsInv, Holding
  <2>2. \A u \in Threads : arg'[u] \in {arg[u], Blank} /\ pen'[u] \in {pen[u], None}
    BY <1>17 DEF UpdateHistoricEscrow
  <2>3. \A n \in Names : history'[n] \in {history[n], Torn, pen[Note]}
    BY <1>17 DEF UpdateHistoricEscrow
  <2>4. UNCHANGED <<mem, ui>>
    BY <1>17 DEF UpdateHistoricEscrow
  <2> QED
    BY <1>b, <1>d, <1>e, <1>f, <2>1, <2>2, <2>3, <2>4
<1>18. CASE Restart
  <2>1. /\ mem'.info = Blank /\ ui' = Blank /\ history' = history
        /\ \A t \in Threads : arg'[t] = Blank /\ pen'[t] = None
    BY <1>18 DEF Restart
  <2> QED
    BY <1>b, <1>f, <2>1
<1>19. CASE UNCHANGED vaultVars
  BY <1>19, <1>d, <1>e, <1>f DEF vaultVars
<1> QED
  BY <1>1, <1>2, <1>3, <1>4, <1>5, <1>6, <1>7, <1>8, <1>9, <1>10, <1>11, <1>12, <1>13, <1>14,
     <1>15, <1>16, <1>17, <1>18, <1>19, <1>20, <1>21 DEF VaultNext

----------------------------------------------------------------------------
(* The memory is the active escrow's. *)

\* Only a press makes another escrow active.
LEMMA ActiveStep ==
    ASSUME VaultTypeOK, ThreadsInv, SaversInv, [VaultNext]_vaultVars, NEW e \in Escrows, Active(e)'
    PROVE  Active(e) \/ GenerateNewSettlementSessionKey(e)
<1> SUFFICES ASSUME ~Active(e), ~GenerateNewSettlementSessionKey(e) PROVE FALSE
  OBVIOUS
<1> USE VaultAssumption DEF VaultTypeOK, ThreadsInv, Goes, Ends,
        Threads, Active, InPress, Info,
        Blank, Keys
<1>1. ASSUME NEW f \in Escrows, GenerateNewSettlementSessionKey(f) PROVE FALSE
  BY <1>1 DEF GenerateNewSettlementSessionKey
<1>2. ASSUME NEW f \in Escrows, OpenEscrow(f) PROVE FALSE
  BY <1>2 DEF OpenEscrow
<1>3. ASSUME NEW f \in Escrows, DeriveScript(f) PROVE FALSE
  BY <1>3 DEF DeriveScript
<1>4. ASSUME NEW f \in Escrows, ShowAddress(f) PROVE FALSE
  <2>a. ui' = ui \/ ui' = [ui EXCEPT !.id = f, !.script = arg[f].script]
    BY <1>4 DEF ShowAddress
  <2>1. ui'.id \in {ui.id, f}
    <3>1. CASE ui' = ui
      BY <3>1
    <3>2. CASE ui' = [ui EXCEPT !.id = f, !.script = arg[f].script]
      BY <3>2, SMTT(30)
    <3> QED
      BY <2>a, <3>1, <3>2
  <2>2. \A t \in {Update, Archive} : arg'[t] = arg[t]
    BY <1>4 DEF ShowAddress
  <2>3. at[f] = "stored" /\ at'[f] \in {"shown", "failed"}
    BY <1>4 DEF ShowAddress
  <2>4. e # f => at'[e] = at[e]
    BY <1>4 DEF ShowAddress
  <2> QED
    BY <2>1, <2>2, <2>3, <2>4
<1>5. ASSUME NEW f \in Escrows, FundingUpdate(f) PROVE FALSE
  <2>a. ui' = [ui EXCEPT !.script = keyOf[f], !.txid = f]
    BY <1>5 DEF FundingUpdate
  <2>b. ui'.id = ui.id
    BY <2>a
  <2>c. arg' = arg \/ arg' = [arg EXCEPT ![Update] = ui']
    BY <1>5 DEF FundingUpdate
  <2>1. ui'.id = ui.id /\ arg'[Update].id \in {arg[Update].id, ui.id}
    BY <2>b, <2>c
  <2>2. arg'[Archive] = arg[Archive]
    BY <1>5 DEF FundingUpdate
  <2>3. at'[e] = at[e]
    BY <1>5 DEF FundingUpdate
  <2> QED
    BY <2>1, <2>2, <2>3
<1>6. ASSUME NEW f \in Escrows, RefundEscrow(f) PROVE FALSE
  BY <1>6 DEF RefundEscrow
<1>7. ASSUME NEW f \in Escrows, DeleteHistoricEscrow(f) PROVE FALSE
  BY <1>7 DEF DeleteHistoricEscrow
<1>8. ASSUME NEW t \in Savers, SaveSettlementSessionKey(t) PROVE FALSE
  BY <1>8 DEF SaveSettlementSessionKey, Copies
<1>20. ASSUME NEW t \in Savers, CutKeyFile(t) PROVE FALSE
  BY <1>20 DEF CutKeyFile
<1>21. ASSUME NEW t \in Savers, WriteKeyFile(t) PROVE FALSE
  BY <1>21, WriteMoves
<1>9. ASSUME NEW t \in Threads, Merge(t) PROVE FALSE
  BY <1>9 DEF Merge
<1>10. ASSUME NEW t \in Threads, SnapshotBegins(t) PROVE FALSE
  BY <1>10 DEF SnapshotBegins
<1>11. ASSUME NEW t \in Threads, SnapshotEnds(t) PROVE FALSE
  BY <1>11 DEF SnapshotEnds
<1>12. CASE ClearEscrowState
  BY <1>12 DEF ClearEscrowState
<1>13. CASE ArchiveTakesKey
  BY <1>13 DEF ArchiveTakesKey
<1>14. CASE ArchiveWrites
  BY <1>14 DEF ArchiveWrites
<1>15. CASE ArchiveRemovesFile
  BY <1>15 DEF ArchiveRemovesFile
<1>16. CASE CacheWalletAuthInfo
  BY <1>16 DEF CacheWalletAuthInfo, Copies
<1>17. CASE UpdateHistoricEscrow
  BY <1>17 DEF UpdateHistoricEscrow
<1>18. CASE Restart
  BY <1>18 DEF Restart
<1>19. CASE UNCHANGED vaultVars
  BY <1>19 DEF vaultVars
<1> QED
  BY <1>1, <1>2, <1>3, <1>4, <1>5, <1>6, <1>7, <1>8, <1>9, <1>10, <1>11, <1>12, <1>13, <1>14,
     <1>15, <1>16, <1>17, <1>18, <1>19, <1>20, <1>21 DEF VaultNext

\* A press that another escrow's steps cross is excused, and its memory may be anything.
LEMMA MemoryStep ==
    ASSUME VaultTypeOK, VaultTypeOK', ThreadsInv, ThreadsInv', SaversInv,
           [VaultNext]_vaultVars, NEW e \in Escrows, MemoryInv(e), e \notin excused'
    PROVE  MemoryInv(e)'
<1>a. \A f \in Escrows : Active(f)' => Active(f) \/ GenerateNewSettlementSessionKey(f)
  BY ActiveStep
<1> USE VaultAssumption DEF VaultTypeOK, ThreadsInv, Goes, Ends,
        Threads, InPress, Info, Blank,
        Keys, MemoryInv, PressSteps, Derived, Scripted
<1>1. ASSUME NEW f \in Escrows, GenerateNewSettlementSessionKey(f) PROVE MemoryInv(e)'
  <2>1. /\ at[f] = "idle" /\ ui.id = None /\ mem'.key = f
        /\ at' = [at EXCEPT ![f] = "generated"] /\ mem'.info = mem.info
        /\ UNCHANGED <<keyOf, ui, arg>>
    BY <1>1 DEF GenerateNewSettlementSessionKey
  <2>2. CASE e # f /\ ~Active(e)
    <3>1. ~Active(e)'
      BY <2>1, <2>2 DEF Active
    <3> QED
      BY <2>1, <2>2, <3>1 DEF Active
  <2>3. CASE e = f \/ Active(e)
    <3>1. Crossed(f) = {}
      <4>1. SUFFICES ASSUME Crossed(f) # {} PROVE e \in Crossed(f)
        BY <1>1 DEF GenerateNewSettlementSessionKey
      <4>2. CASE e = f
        BY <4>1, <4>2 DEF Crossed
      <4>3. CASE Active(e)
        BY <2>1, <4>3 DEF Active, Crossed
      <4> QED
        BY <2>3, <4>2, <4>3
    <3>2. \A g \in Escrows : ~InPress(g) /\ g \notin {arg[Update].id, arg[Archive].id}
      BY <3>1 DEF Crossed
    <3>3. e = f
      BY <2>1, <2>3, <3>2 DEF Active
    <3>4. \A g \in Escrows \ {e} : ~Active(g)'
      BY <2>1, <3>2, <3>3 DEF Active
    <3> QED
      BY <2>1, <3>2, <3>3, <3>4 DEF Active
  <2> QED
    BY <2>2, <2>3
<1>2. ASSUME NEW f \in Escrows, OpenEscrow(f) PROVE MemoryInv(e)'
  BY <1>2, <1>a DEF OpenEscrow, Active
<1>3. ASSUME NEW f \in Escrows, DeriveScript(f) PROVE MemoryInv(e)'
  <2>1. /\ at[f] = "opened" /\ at'[f] \in {"ready", "failed"}
        /\ at'[f] = "ready" => arg'[f].script = mem.key
        /\ \A t \in Threads \ {f} : at'[t] = at[t] /\ arg'[t] = arg[t]
        /\ UNCHANGED <<mem, keyOf, ui>>
    BY <1>3 DEF DeriveScript
  <2> QED
    BY <1>a, <2>1, SMTT(30) DEF Active
<1>4. ASSUME NEW f \in Escrows, ShowAddress(f) PROVE MemoryInv(e)'
  <2>1. /\ at[f] = "stored"
        /\ \A t \in Threads \ {f} : at'[t] = at[t] /\ arg'[t] = arg[t]
        /\ UNCHANGED <<mem, keyOf>>
    BY <1>4 DEF ShowAddress
  <2>2. CASE at'[f] = "shown" /\ ui' = [ui EXCEPT !.id = f, !.script = arg[f].script]
    <3>1. ui'.id = f
      BY <2>2
    <3>2. CASE e = f
      <4>1. mem.key = e /\ mem.info.id = e
        BY <2>1, <3>2
      <4>2. arg[Archive].id = None
        BY <2>1, <3>2 DEF Active
      <4> QED
        BY <1>a, <2>1, <2>2, <3>1, <3>2, <4>1, <4>2 DEF Active
    <3>3. CASE e # f
      <4>1. ~Active(e)
        BY <2>1, <3>3 DEF Active
      <4>2. ~Active(e)'
        BY <2>1, <2>2, <3>1, <3>3, <4>1 DEF Active
      <4> QED
        BY <2>1, <2>2, <3>1, <3>3, <4>1, <4>2 DEF Active
    <3> QED
      BY <3>2, <3>3
  <2>3. CASE at'[f] = "failed" /\ ui' = ui
    <3>1. ~Active(f)'
      BY <2>1, <2>3 DEF Active
    <3>2. CASE e = f
      BY <1>a, <2>1, <2>3, <3>1, <3>2 DEF Active
    <3>3. CASE e # f
      <4>1. Active(e)' = Active(e)
        BY <2>1, <2>3, <3>3 DEF Active
      <4>2. \A g \in Escrows : Active(g)' => Active(g)
        BY <2>1, <2>3 DEF Active
      <4> QED
        BY <2>1, <2>3, <3>3, <4>1, <4>2
    <3> QED
      BY <3>2, <3>3
  <2> QED
    BY <1>4, <2>2, <2>3 DEF ShowAddress
<1>5. ASSUME NEW f \in Escrows, FundingUpdate(f) PROVE MemoryInv(e)'
  <2>1. at[f] = "shown" /\ at[Update] = "idle" /\ ui' = [ui EXCEPT !.script = keyOf[f], !.txid = f]
    BY <1>5 DEF FundingUpdate
  <2>2. ui'.id = ui.id
    BY <2>1
  <2>3. /\ \A t \in Threads \ {Update} : at'[t] = at[t] /\ arg'[t] = arg[t]
        /\ at'[Update] \in {"idle", "ready"}
        /\ UNCHANGED <<mem, keyOf>>
    BY <1>5 DEF FundingUpdate
  <2>4. arg'[Update] \in {arg[Update], ui'}
    BY <1>5 DEF FundingUpdate
  <2>5. \A g \in Escrows : InPress(g)' = InPress(g) /\ (Active(g)' => Active(g))
    <3>1. \A g \in Escrows : at'[g] = at[g]
      BY <2>3
    <3>2. arg'[Archive] = arg[Archive] /\ arg'[Update].id \in {arg[Update].id, ui.id}
      BY <2>2, <2>3, <2>4
    <3> QED
      BY <2>2, <3>1, <3>2 DEF Active
  <2>6. \A t \in Threads : at'[t] \in {"merged", "saved"} => at'[t] = at[t] /\ arg'[t] = arg[t]
    BY <2>1, <2>3
  <2> QED
    BY <2>1, <2>2, <2>3, <2>5, <2>6
<1>6. ASSUME NEW f \in Escrows, RefundEscrow(f) PROVE MemoryInv(e)'
  BY <1>6, <1>a DEF RefundEscrow, Active
<1>7. ASSUME NEW f \in Escrows, DeleteHistoricEscrow(f) PROVE MemoryInv(e)'
  BY <1>7, <1>a DEF DeleteHistoricEscrow, Active
<1>8. ASSUME NEW t \in Savers, SaveSettlementSessionKey(t) PROVE MemoryInv(e)'
  BY <1>8, <1>a DEF SaveSettlementSessionKey, Copies, Active
<1>20. ASSUME NEW t \in Savers, CutKeyFile(t) PROVE MemoryInv(e)'
  BY <1>20, <1>a DEF CutKeyFile, Active
<1>21. ASSUME NEW t \in Savers, WriteKeyFile(t) PROVE MemoryInv(e)'
  BY <1>21, <1>a, WriteMoves DEF Active
<1>9. ASSUME NEW t \in Threads, Merge(t) PROVE MemoryInv(e)'
  <2>1. /\ at[t] = "ready" /\ at' = [at EXCEPT ![t] = "merged"]
        /\ mem' = [mem EXCEPT !.info = Merged(mem.info, arg[t])]
        /\ UNCHANGED <<keyOf, ui, arg>>
    BY <1>9 DEF Merge
  <2>2. t \in Escrows \/ t = Update
    BY <2>1
  <2>3. arg[t].id # None /\ Active(arg[t].id) /\ (t \in Escrows => arg[t].id = t)
    BY <2>1, <2>2 DEF Active
  <2>4. mem'.info.id = arg[t].id /\ mem'.key = mem.key
    BY <2>1, <2>3 DEF Merged
  <2>5. CASE arg[t].id = e
    <3>1. \A u \in Threads : at'[u] \in {"merged", "saved"} => arg'[u].id = e
      BY <2>1, <2>2, <2>3, <2>5 DEF Active
    <3> QED
      BY <1>a, <2>1, <2>2, <2>4, <2>5, <3>1 DEF Active
  <2>6. CASE arg[t].id # e
    <3>1. ~Active(e)
      BY <2>3, <2>6
    <3>2. ~Active(e)'
      BY <2>1, <3>1 DEF Active
    <3> QED
      BY <2>1, <2>4, <2>6, <3>1, <3>2 DEF Active
  <2> QED
    BY <2>5, <2>6
<1>10. ASSUME NEW t \in Threads, SnapshotBegins(t) PROVE MemoryInv(e)'
  BY <1>10, <1>a DEF SnapshotBegins, Active
<1>11. ASSUME NEW t \in Threads, SnapshotEnds(t) PROVE MemoryInv(e)'
  BY <1>11, <1>a DEF SnapshotEnds, Active
<1>12. CASE ClearEscrowState
  BY <1>12, <1>a DEF ClearEscrowState, Active
<1>13. CASE ArchiveTakesKey
  BY <1>13, <1>a DEF ArchiveTakesKey, Active
<1>14. CASE ArchiveWrites
  BY <1>14, <1>a DEF ArchiveWrites, Active
<1>15. CASE ArchiveRemovesFile
  BY <1>15, <1>a DEF ArchiveRemovesFile, Active
<1>16. CASE CacheWalletAuthInfo
  BY <1>16, <1>a DEF CacheWalletAuthInfo, Copies, Active
<1>17. CASE UpdateHistoricEscrow
  BY <1>17, <1>a DEF UpdateHistoricEscrow, Active
<1>18. CASE Restart
  BY <1>18, <1>a DEF Restart, Active
<1>19. CASE UNCHANGED vaultVars
  BY <1>19 DEF vaultVars, Active
<1> QED
  BY <1>1, <1>2, <1>3, <1>4, <1>5, <1>6, <1>7, <1>8, <1>9, <1>10, <1>11, <1>12, <1>13, <1>14,
     <1>15, <1>16, <1>17, <1>18, <1>19, <1>20, <1>21 DEF VaultNext

\* So what is written for the escrow is its own, and a cut file is being written.
LEMMA FileStep ==
    ASSUME VaultTypeOK, VaultTypeOK', ThreadsInv, ThreadsInv', SaversInv,
           [VaultNext]_vaultVars, NEW e \in Escrows, MemoryInv(e), FileInv(e), e \notin excused'
    PROVE  FileInv(e)'
<1> USE VaultAssumption DEF VaultTypeOK, ThreadsInv, Goes, Ends,
        Threads, Names, Readable,
        Holding, FileInv, Kept, Writes
<1>1. ASSUME NEW f \in Escrows, GenerateNewSettlementSessionKey(f) PROVE FileInv(e)'
  BY <1>1 DEF GenerateNewSettlementSessionKey
<1>2. ASSUME NEW f \in Escrows, OpenEscrow(f) PROVE FileInv(e)'
  BY <1>2 DEF OpenEscrow
<1>3. ASSUME NEW f \in Escrows, DeriveScript(f) PROVE FileInv(e)'
  BY <1>3 DEF DeriveScript
<1>4. ASSUME NEW f \in Escrows, ShowAddress(f) PROVE FileInv(e)'
  BY <1>4 DEF ShowAddress
<1>5. ASSUME NEW f \in Escrows, FundingUpdate(f) PROVE FileInv(e)'
  BY <1>5 DEF FundingUpdate
<1>6. ASSUME NEW f \in Escrows, RefundEscrow(f) PROVE FileInv(e)'
  BY <1>6, SMTT(40) DEF RefundEscrow
<1>7. ASSUME NEW f \in Escrows, DeleteHistoricEscrow(f) PROVE FileInv(e)'
  <2>1. PICK n \in Matching(f) : history' = [history EXCEPT ![n] = None]
    BY <1>7 DEF DeleteHistoricEscrow
  <2>2. f # e /\ UNCHANGED <<at, arg, pen, noted>>
    BY <1>7 DEF DeleteHistoricEscrow
  <2>3. n \in Names /\ history[n].id = f /\ history[n] \notin {None, Torn}
    BY <2>1 DEF Matching
  <2>4. n # <<"pending", e>>
    BY <2>2, <2>3
  <2>5. \A m \in Names : history'[m] = IF m = n THEN None ELSE history[m]
    BY <2>1
  <2> QED
    BY <2>2, <2>4, <2>5
<1>8. ASSUME NEW t \in Savers, SaveSettlementSessionKey(t) PROVE FileInv(e)'
  BY <1>8 DEF SaveSettlementSessionKey, Copies
<1>20. ASSUME NEW t \in Savers, CutKeyFile(t) PROVE FileInv(e)'
  BY <1>20 DEF CutKeyFile
<1>21. ASSUME NEW t \in Savers, WriteKeyFile(t) PROVE FileInv(e)'
  BY <1>21, WriteMoves
<1>9. ASSUME NEW t \in Threads, Merge(t) PROVE FileInv(e)'
  BY <1>9 DEF Merge
<1>10. ASSUME NEW t \in Threads, SnapshotBegins(t) PROVE FileInv(e)'
  <2>1. at[t] = "saved" /\ (t \in Escrows \/ t = Update) /\ pen[t] = None
    BY <1>10 DEF SnapshotBegins
  <2>2. UNCHANGED noted
    BY <1>10 DEF SnapshotBegins
  <2>3. CASE mem.key = None
    BY <1>10, <2>1, <2>3 DEF SnapshotBegins
  <2>4. CASE mem.key # None
    <3> DEFINE new == WithKey(mem.key, mem.info)
    <3>1. /\ at' = [at EXCEPT ![t] = "snapping"] /\ pen' = [pen EXCEPT ![t] = new]
          /\ history' = [history EXCEPT ![<<"pending", arg[t].id>>] = Torn]
          /\ UNCHANGED arg
      BY <1>10, <2>4 DEF SnapshotBegins
    <3>2. new.id = mem.info.id /\ new.key = mem.key /\ new # None
      BY DEF WithKey, Record, Info
    <3> HIDE DEF new
    <3>3. arg[t].id \in Escrows /\ (t \in Escrows => arg[t].id = t)
      BY <2>1 DEF Derived, Info, Keys
    <3>4. arg[t].id = e => mem.key = e /\ mem.info.id = e
      BY <2>1, <2>4, <3>3 DEF MemoryInv, Active, InPress, PressSteps
    <3>5. new.id = e => new.key = e
      BY <2>1, <3>2, <3>4 DEF MemoryInv
    <3>6. \A n \in Names : history'[n] = IF n = <<"pending", arg[t].id>> THEN Torn ELSE history[n]
      BY <3>1, <3>3
    <3>7. \A u \in Threads : /\ at'[u] = IF u = t THEN "snapping" ELSE at[u]
                             /\ pen'[u] = IF u = t THEN new ELSE pen[u]
      BY <3>1
    <3>8. \A n \in Readable' : history'[n].id = e => history'[n].key = e
      BY <3>6
    <3>9. \A u \in Threads : pen'[u] # None /\ pen'[u].id = e => pen'[u].key = e
      BY <3>5, <3>7
    <3>10. \A u \in Threads : at'[u] = "snapping" /\ arg'[u].id = e => pen'[u].id = e
      BY <3>1, <3>2, <3>4, <3>7
    <3>11. ASSUME at'[e] \in {"snapping", "stored", "shown"} PROVE Kept(e)'
      <4>1. CASE arg[t].id = e
        BY <3>1, <3>2, <3>4, <3>6, <3>7, <4>1
      <4>2. CASE arg[t].id # e
        BY <2>1, <2>2, <3>1, <3>3, <3>6, <3>7, <3>11, <4>2
      <4> QED
        BY <4>1, <4>2
    <3>12. at'[Note] = at[Note] /\ pen'[Note] = pen[Note]
      BY <2>1, <3>7
    <3>13. <<"pending", e>> \in Readable' => history'[<<"pending", e>>].id = e
      BY <3>6
    <3> QED
      BY <2>2, <3>8, <3>9, <3>10, <3>11, <3>12, <3>13
  <2> QED
    BY <2>3, <2>4
<1>11. ASSUME NEW t \in Threads, SnapshotEnds(t) PROVE FileInv(e)'
  BY <1>11 DEF SnapshotEnds
<1>12. CASE ClearEscrowState
  BY <1>12 DEF ClearEscrowState
<1>13. CASE ArchiveTakesKey
  <2>1. at[Archive] = "asked" /\ UNCHANGED <<history, noted>>
    BY <1>13 DEF ArchiveTakesKey
  <2>2. CASE mem.key = None
    BY <1>13, <2>1, <2>2 DEF ArchiveTakesKey
  <2>3. CASE mem.key # None
    <3> DEFINE new == WithKey(mem.key, arg[Archive])
    <3>1. /\ at' = [at EXCEPT ![Archive] = "taken"] /\ pen' = [pen EXCEPT ![Archive] = new]
          /\ UNCHANGED arg
      BY <1>13, <2>3 DEF ArchiveTakesKey
    <3>2. new.id = arg[Archive].id /\ new.key = mem.key
      BY DEF WithKey
    <3> HIDE DEF new
    <3>3. arg[Archive].id = e => mem.key = e
      BY <2>1, <2>3 DEF MemoryInv, Active, InPress
    <3> QED
      BY <2>1, <3>1, <3>2, <3>3
  <2> QED
    BY <2>2, <2>3
<1>14. CASE ArchiveWrites
  BY <1>14 DEF ArchiveWrites
<1>15. CASE ArchiveRemovesFile
  BY <1>15 DEF ArchiveRemovesFile
<1>16. CASE CacheWalletAuthInfo
  BY <1>16 DEF CacheWalletAuthInfo, Copies
<1>17. CASE UpdateHistoricEscrow
  <2>1. CASE at[Note] = "noting"
    BY <1>17, <2>1 DEF UpdateHistoricEscrow
  <2>2. CASE at[Note] = "rewriting"
    <3>1. /\ history' = [history EXCEPT ![noted] = pen[Note]] /\ noted' = None /\ noted \in Names
          /\ at' = [at EXCEPT ![Note] = "idle"] /\ pen' = [pen EXCEPT ![Note] = None]
          /\ \A t \in Threads \ {Note} : arg'[t] = arg[t]
      BY <1>17, <2>2 DEF UpdateHistoricEscrow
    <3>2. pen[Note] # None /\ pen[Note] \in Record
      BY <2>2
    <3>3. history'[noted] = pen[Note] /\ \A n \in Names \ {noted} : history'[n] = history[n]
      BY <3>1
    <3>4. \A n \in Readable' : history'[n].id = e => history'[n].key = e
      BY <3>2, <3>3
    <3>5. <<"pending", e>> \in Readable' => history'[<<"pending", e>>].id = e
      BY <2>2, <3>3
    <3>6. \A t \in Threads : Writes(t, e) /\ ~Writes(t, e)' => t = Note /\ noted = <<"pending", e>>
      BY <3>1
    <3>7. ASSUME Kept(e) PROVE Kept(e)'
      <4>1. CASE noted = <<"pending", e>>
        BY <2>2, <3>2, <3>3, <4>1
      <4>2. CASE noted # <<"pending", e>>
        <5>1. history'[<<"pending", e>>] = history[<<"pending", e>>]
          BY <3>3, <4>2
        <5>2. \A t \in Threads : Writes(t, e) => Writes(t, e)'
          BY <3>6, <4>2
        <5> HIDE DEF Writes
        <5> QED
          BY <3>7, <5>1, <5>2
      <4> QED
        BY <4>1, <4>2
    <3> QED
      BY <3>1, <3>4, <3>5, <3>7
  <2> QED
    BY <1>17, <2>1, <2>2 DEF UpdateHistoricEscrow
<1>18. CASE Restart
  BY <1>18 DEF Restart
<1>19. CASE UNCHANGED vaultVars
  BY <1>19 DEF vaultVars
<1> QED
  BY <1>1, <1>2, <1>3, <1>4, <1>5, <1>6, <1>7, <1>8, <1>9, <1>10, <1>11, <1>12, <1>13, <1>14,
     <1>15, <1>16, <1>17, <1>18, <1>19, <1>20, <1>21 DEF VaultNext

----------------------------------------------------------------------------
LEMMA ExcusedStays == [VaultNext]_vaultVars => excused \subseteq excused'
  BY DEF VaultNext, vaultVars, Copies, CutKeyFile, WriteKeyFile,
     GenerateNewSettlementSessionKey, OpenEscrow, DeriveScript,
         ShowAddress, FundingUpdate, RefundEscrow, DeleteHistoricEscrow, SaveSettlementSessionKey,
         Merge, SnapshotBegins, SnapshotEnds, ClearEscrowState, ArchiveTakesKey, ArchiveWrites,
         ArchiveRemovesFile, CacheWalletAuthInfo, UpdateHistoricEscrow, Restart

----------------------------------------------------------------------------
(* The saves of the key file. *)

LEMMA ElsewhereKeeps ==
    ASSUME VaultTypeOK, ThreadsInv, Elsewhere
    PROVE  /\ UNCHANGED fileVars
           /\ mem'.key \in {mem.key, None}
           /\ \A t \in Threads : at[t] \in {"generated", "merged"} => at'[t] = at[t]
           /\ \A e \in Escrows : /\ at'[e] = "generated" => at[e] = "generated"
                                 /\ Past(e)' => Past(e)
<1> DEFINE Goal == /\ UNCHANGED fileVars
                   /\ mem'.key \in {mem.key, None}
                   /\ \A t \in Threads : at[t] \in {"generated", "merged"} => at'[t] = at[t]
                   /\ \A e \in Escrows : /\ at'[e] = "generated" => at[e] = "generated"
                                         /\ Past(e)' => Past(e)
<1> SUFFICES Goal
  OBVIOUS
<1> USE VaultAssumption DEF VaultTypeOK, ThreadsInv, Goes, Ends, Threads, Past, PressSteps
<1>1. ASSUME NEW f \in Escrows, OpenEscrow(f) PROVE Goal
  BY <1>1 DEF OpenEscrow
<1>2. ASSUME NEW f \in Escrows, DeriveScript(f) PROVE Goal
  BY <1>2 DEF DeriveScript
<1>3. ASSUME NEW f \in Escrows, ShowAddress(f) PROVE Goal
  <2>1. at[f] = "stored" /\ UNCHANGED <<mem, fileVars>>
    BY <1>3 DEF ShowAddress
  <2>2. \/ at' = [at EXCEPT ![f] = "shown"] /\ ui' = [ui EXCEPT !.id = f, !.script = arg[f].script]
        \/ at' = [at EXCEPT ![f] = "failed"] /\ ui' = ui
    BY <1>3 DEF ShowAddress
  <2>3. ui'.id \in {ui.id, f}
    <3>1. CASE ui' = ui
      BY <3>1
    <3>2. CASE ui' = [ui EXCEPT !.id = f, !.script = arg[f].script]
      BY <3>2 DEF Info
    <3> QED
      BY <2>2, <3>1, <3>2
  <2>4. at'[f] \in {"shown", "failed"} /\ \A t \in Threads \ {f} : at'[t] = at[t]
    BY <2>2
  <2> QED
    BY <2>1, <2>3, <2>4
<1>4. ASSUME NEW f \in Escrows, FundingUpdate(f) PROVE Goal
  <2>1. ui'.id = ui.id /\ UNCHANGED <<mem, fileVars>>
    BY <1>4 DEF FundingUpdate, Info
  <2>2. \/ at' = at
        \/ at[Update] = "idle" /\ at' = [at EXCEPT ![Update] = "ready"]
    BY <1>4 DEF FundingUpdate
  <2> QED
    BY <2>1, <2>2
<1>5. ASSUME NEW f \in Escrows, RefundEscrow(f) PROVE Goal
  BY <1>5 DEF RefundEscrow
<1>6. ASSUME NEW f \in Escrows, DeleteHistoricEscrow(f) PROVE Goal
  BY <1>6 DEF DeleteHistoricEscrow
<1>7. ASSUME NEW t \in Threads, Merge(t) PROVE Goal
  BY <1>7 DEF Merge
<1>8. ASSUME NEW t \in Threads, SnapshotBegins(t) PROVE Goal
  <2>1. /\ at[t] = "saved" /\ UNCHANGED <<mem, fileVars, ui>>
        /\ \E s \in {"snapping", "failed", "idle"} : at' = [at EXCEPT ![t] = s]
    BY <1>8 DEF SnapshotBegins
  <2> QED
    BY <2>1
<1>9. ASSUME NEW t \in Threads, SnapshotEnds(t) PROVE Goal
  BY <1>9 DEF SnapshotEnds
<1>10. CASE ClearEscrowState
  BY <1>10 DEF ClearEscrowState, Blank
<1>11. CASE ArchiveTakesKey
  BY <1>11 DEF ArchiveTakesKey
<1>12. CASE ArchiveWrites
  BY <1>12 DEF ArchiveWrites
<1>13. CASE UpdateHistoricEscrow
  BY <1>13 DEF UpdateHistoricEscrow
<1>14. CASE UNCHANGED vaultVars
  BY <1>14 DEF vaultVars
<1> QED
  BY <1>1, <1>2, <1>3, <1>4, <1>5, <1>6, <1>7, <1>8, <1>9, <1>10, <1>11, <1>12, <1>13, <1>14
     DEF Elsewhere

LEMMA SaversStep ==
    ASSUME VaultTypeOK, ThreadsInv, SaversInv, [VaultNext]_vaultVars
    PROVE  SaversInv'
<1> USE VaultAssumption DEF VaultTypeOK, SaversInv, Savers, Threads, Goes, Ends
<1>1. CASE Elsewhere
  BY <1>1, ElsewhereKeeps DEF fileVars
<1>2. ASSUME NEW e \in Escrows, GenerateNewSettlementSessionKey(e) PROVE SaversInv'
  BY <1>2 DEF GenerateNewSettlementSessionKey
<1>3. ASSUME NEW t \in Savers, SaveSettlementSessionKey(t) PROVE SaversInv'
  BY <1>3 DEF SaveSettlementSessionKey, Copies
<1>4. CASE CacheWalletAuthInfo
  BY <1>4 DEF CacheWalletAuthInfo, Copies
<1>5. ASSUME NEW t \in Savers, CutKeyFile(t) PROVE SaversInv'
  BY <1>5 DEF CutKeyFile
<1>6. ASSUME NEW t \in Savers, WriteKeyFile(t) PROVE SaversInv'
  <2>1. save' = [save EXCEPT ![t] = NoSave]
    BY <1>6 DEF WriteKeyFile
  <2>2. \A u \in Threads \ {t} : at'[u] = at[u]
    BY <1>6, WriteMoves
  <2> QED
    BY <2>1, <2>2 DEF NoSave
<1>7. CASE ArchiveRemovesFile
  <2>1. \A u \in Savers : save'[u].step # "no" => save[u].step # "no"
    BY <1>7 DEF ArchiveRemovesFile
  <2>2. \A u \in Savers \ {Auth} : at'[u] = at[u]
    BY <1>7 DEF ArchiveRemovesFile
  <2> QED
    BY <2>1, <2>2
<1>8. CASE Restart
  BY <1>8 DEF Restart, NoSave
<1> QED
  BY <1>1, <1>2, <1>3, <1>4, <1>5, <1>6, <1>7, <1>8, FileSteps

LEMMA LoneStep ==
    ASSUME VaultTypeOK, ThreadsInv, LoneInv, [VaultNext]_vaultVars
    PROVE  LoneInv'
<1> USE VaultAssumption DEF VaultTypeOK, LoneInv, Saving
<1>1. CASE Elsewhere
  <2>1. UNCHANGED fileVars /\ mem'.key \in {mem.key, None}
    BY <1>1, ElsewhereKeeps
  <2> QED
    BY <2>1 DEF fileVars
<1>2. ASSUME NEW e \in Escrows, GenerateNewSettlementSessionKey(e) PROVE LoneInv'
  BY <1>2 DEF GenerateNewSettlementSessionKey
<1>3. ASSUME NEW t \in Savers, Copies(t, mem.key) PROVE LoneInv'
  <2>1. Saving' = Saving \cup {t} /\ save'[t].key = mem.key /\ save'[t].step = "copied"
    BY <1>3 DEF Copies
  <2>2. CASE Saving = {}
    BY <1>3, <2>1, <2>2 DEF Copies
  <2>3. CASE Saving # {}
    BY <1>3, <2>1, <2>3 DEF Copies
  <2> QED
    BY <2>2, <2>3
<1>4. ASSUME NEW t \in Savers, CutKeyFile(t) PROVE LoneInv'
  <2>1. Saving' = Saving /\ tangled' = tangled /\ keyFile' = Torn /\ mem' = mem
    BY <1>4 DEF CutKeyFile
  <2>2. \A u \in Savers : save'[u].key = save[u].key
    BY <1>4 DEF CutKeyFile
  <2> QED
    BY <2>1, <2>2
<1>5. ASSUME NEW t \in Savers, WriteKeyFile(t) PROVE LoneInv'
  <2>1. save' = [save EXCEPT ![t] = NoSave] /\ tangled' = tangled \ {t} /\ mem' = mem
    BY <1>5 DEF WriteKeyFile
  <2>2. t \in Saving /\ Saving' = Saving \ {t}
    BY <1>5, <2>1 DEF WriteKeyFile, NoSave
  <2>3. Saving' \ tangled' = {}
    BY <2>1, <2>2
  <2> QED
    BY <2>1, <2>2, <2>3
<1>6. CASE ArchiveRemovesFile
  <2>1. \A u \in Savers : /\ save'[u].key = save[u].key /\ save'[u].step # "cut"
                          /\ (save'[u].step = "no") = (save[u].step = "no")
    BY <1>6 DEF ArchiveRemovesFile
  <2>2. Saving' = Saving /\ UNCHANGED <<tangled, mem>>
    BY <1>6, <2>1 DEF ArchiveRemovesFile
  <2> QED
    BY <2>1, <2>2
<1>7. CASE Restart
  BY <1>7 DEF Restart, NoSave
<1> QED
  BY <1>1, <1>2, <1>3, <1>4, <1>5, <1>6, <1>7, FileSteps
     DEF SaveSettlementSessionKey, CacheWalletAuthInfo

LEMMA CurrentStep ==
    ASSUME VaultTypeOK, ThreadsInv, SaversInv, LoneInv, [VaultNext]_vaultVars,
           NEW e \in Escrows, MemoryInv(e), CurrentInv(e)
    PROVE  CurrentInv(e)'
<1>a. Past(e) => mem.key = e
  BY DEF Past, MemoryInv, InPress, PressSteps
<1>b. e # None
  BY VaultAssumption
<1>c. Elsewhere => /\ UNCHANGED fileVars /\ (at'[e] = "generated" => at[e] = "generated")
                   /\ Past(e)' => Past(e)
  <2> SUFFICES ASSUME Elsewhere
               PROVE  /\ UNCHANGED fileVars /\ (at'[e] = "generated" => at[e] = "generated")
                      /\ Past(e)' => Past(e)
    OBVIOUS
  <2>1. /\ UNCHANGED fileVars
        /\ \A f \in Escrows : /\ at'[f] = "generated" => at[f] = "generated"
                              /\ Past(f)' => Past(f)
    BY ElsewhereKeeps
  <2> QED
    BY <2>1
<1> USE VaultAssumption DEF VaultTypeOK, CurrentInv, Saving, Goes, Ends, Threads, Savers
<1>1. CASE Elsewhere
  BY <1>1, <1>c DEF fileVars
<1>2. ASSUME NEW f \in Escrows, GenerateNewSettlementSessionKey(f) PROVE CurrentInv(e)'
  <2>1. /\ at[f] = "idle" /\ at' = [at EXCEPT ![f] = "generated"]
        /\ UNCHANGED <<ui, keyFile, save, doubtful>>
    BY <1>2 DEF GenerateNewSettlementSessionKey
  <2>2. save[f].step = "no"
    BY <2>1 DEF SaversInv
  <2>3. Past(e)' => Past(e)
    BY <2>1 DEF Past
  <2> QED
    BY <2>1, <2>2, <2>3
<1>3. ASSUME NEW t \in Savers, Copies(t, mem.key) PROVE CurrentInv(e)'
  <2>1. /\ save' = [save EXCEPT ![t] = [step |-> "copied", key |-> mem.key]]
        /\ UNCHANGED <<keyFile, doubtful, at, ui>> /\ save[t].step = "no"
    BY <1>3 DEF Copies
  <2>2. \A u \in Savers : save[u].step = "cut" => save'[u] = save[u]
    BY <2>1
  <2> QED
    BY <2>1, <2>2 DEF Past
<1>4. ASSUME NEW t \in Savers, CutKeyFile(t) PROVE CurrentInv(e)'
  <2>1. /\ save[t].step = "copied" /\ save' = [save EXCEPT ![t].step = "cut"]
        /\ doubtful' = (t \in tangled) /\ UNCHANGED <<at, ui>>
    BY <1>4 DEF CutKeyFile
  <2>2. save'[t].step = "cut" /\ save'[t].key = save[t].key
    BY <2>1
  <2>3. at'[e] = "generated" => save'[e].step # "unlinked"
    BY <2>1
  <2>4. ASSUME Past(e), t \notin tangled PROVE save'[t].key = e
    BY <1>a, <1>b, <2>1, <2>2, <2>4 DEF LoneInv
  <2> QED
    BY <2>1, <2>2, <2>3, <2>4 DEF Past
<1>5. ASSUME NEW t \in Savers, WriteKeyFile(t) PROVE CurrentInv(e)'
  <2>1. /\ save' = [save EXCEPT ![t] = NoSave] /\ ui' = ui
        /\ save[t].step \in {"cut", "unlinked"}
        /\ save[t].step = "cut" => /\ keyFile = Torn => keyFile' = save[t].key
                                  /\ doubtful' = (t \in tangled)
        /\ save[t].step = "unlinked" => keyFile' = keyFile /\ doubtful' = doubtful
    BY <1>5, Zenon DEF WriteKeyFile
  <2>2. at'[e] = "generated" => at[e] = "generated"
    BY <1>5, WriteMoves
  <2>3. Past(e)' => Past(e) \/ (t = e /\ at[e] = "generated")
    BY <1>5, <2>1, WriteMoves DEF Past, PressSteps
  <2>4. at'[e] = "generated" => save'[e].step # "unlinked"
    BY <2>1, <2>2 DEF NoSave
  <2>5. CASE save[t].step = "cut"
    <3> SUFFICES ASSUME Past(e)', t \notin tangled PROVE keyFile' = e
      BY <2>1, <2>4, <2>5
    <3>1. mem.key = e
      BY <1>a, <2>3 DEF MemoryInv, InPress
    <3>2. save[t].key = e /\ keyFile = Torn
      BY <1>b, <2>5, <3>1 DEF LoneInv
    <3> QED
      BY <2>1, <2>5, <3>2
  <2>6. CASE save[t].step = "unlinked"
    <3>1. Past(e)' => Past(e)
      BY <2>3, <2>6
    <3>2. \A u \in Savers : save[u].step = "cut" => save'[u] = save[u]
      BY <2>1, <2>6
    <3> QED
      BY <2>1, <2>4, <2>6, <3>1, <3>2
  <2> QED
    BY <2>1, <2>5, <2>6
<1>6. CASE ArchiveRemovesFile
  <2>1. at[Archive] = "archived" /\ ui' = ui /\ at'[e] = at[e]
    BY <1>6 DEF ArchiveRemovesFile
  <2>2. arg[Archive].id # None /\ arg[Archive].id \in Escrows /\ at[arg[Archive].id] = "shown"
    BY <2>1 DEF ThreadsInv, Info, Keys
  <2>3. Active(arg[Archive].id)
    BY <2>2 DEF Active
  <2>4. ~InPress(e) /\ ui.id # e
    BY <2>1, <2>2, <2>3 DEF MemoryInv, Active, InPress
  <2> QED
    BY <2>1, <2>4 DEF Past, InPress, PressSteps
<1>7. CASE Restart
  <2>1. ui'.id = None /\ at'[e] \in {"failed", "idle", "shown"}
    BY <1>7 DEF Restart, Blank, InPress
  <2> QED
    BY <1>b, <2>1 DEF Past, PressSteps
<1> QED
  BY <1>1, <1>2, <1>3, <1>4, <1>5, <1>6, <1>7, FileSteps
     DEF SaveSettlementSessionKey, CacheWalletAuthInfo

LEMMA VaultInitially == VaultInit => VaultInv
<1> SUFFICES ASSUME VaultInit PROVE VaultInv
  OBVIOUS
<1> USE VaultAssumption DEF VaultInit, Blank, Threads
<1>1. VaultTypeOK
  BY DEF VaultTypeOK, Info, Record, Keys, Steps, NoSave
<1>2. ThreadsInv
  BY DEF ThreadsInv, PressSteps, Derived, Scripted, Holding
<1>3. InfoInv
  BY DEF InfoInv, Sound, Readable
<1>4. SaversInv /\ LoneInv
  BY DEF SaversInv, LoneInv, Saving, NoSave
<1>5. ASSUME NEW e \in Escrows PROVE MemoryInv(e) /\ FileInv(e) /\ CurrentInv(e)
  BY DEF MemoryInv, FileInv, Active, InPress, PressSteps, Derived, Scripted, Readable, Names,
         CurrentInv, Past
<1> QED
  BY <1>1, <1>2, <1>3, <1>4, <1>5 DEF VaultInv

LEMMA VaultStep == VaultInv /\ [VaultNext]_vaultVars => VaultInv'
<1> SUFFICES ASSUME VaultInv, [VaultNext]_vaultVars PROVE VaultInv'
  OBVIOUS
<1>1. VaultTypeOK' /\ ThreadsInv'
  BY VaultTypeStep, ThreadsStep DEF VaultInv
<1>2. InfoInv'
  BY <1>1, InfoStep DEF VaultInv
<1>3. SaversInv' /\ LoneInv'
  BY SaversStep, LoneStep DEF VaultInv
<1>4. ASSUME NEW e \in Escrows, e \notin excused'
      PROVE  MemoryInv(e)' /\ FileInv(e)' /\ CurrentInv(e)'
  <2>1. e \notin excused
    BY <1>4, ExcusedStays
  <2> QED
    BY <1>1, <1>4, <2>1, MemoryStep, FileStep, CurrentStep DEF VaultInv
<1> QED
  BY <1>1, <1>2, <1>3, <1>4 DEF VaultInv

LEMMA VaultAlways == VaultSpec => []VaultInv
  BY VaultInitially, VaultStep, PTL DEF VaultSpec

LEMMA EligibleInv ==
    ASSUME VaultInv, NEW e \in Escrows, Eligible(e)
    PROVE  MemoryInv(e) /\ FileInv(e) /\ CurrentInv(e) /\ keyOf[e] = e /\ e # None /\ Kept(e)
<1>1. e # None /\ MemoryInv(e) /\ FileInv(e) /\ CurrentInv(e) /\ at[e] = "shown"
  BY VaultAssumption DEF Eligible, VaultInv
<1> QED
  BY <1>1 DEF MemoryInv, FileInv, Scripted

(* For any number of presses and whatever updates, archiving, notes and restarts come between:  *)
(* the key of an escrow whose deposit address was shown, and which nothing excuses, is on disk  *)
(* or being written (historic_sessions/, client/client.go and client/refund.go).                *)
THEOREM KeyTheorem == VaultSpec => []KeyIsKept
<1>1. VaultInv => KeyIsKept
  <2> SUFFICES ASSUME VaultInv, NEW e \in Escrows, Eligible(e),
                      ~\E t \in Threads : pen[t] # None /\ pen[t].id = e /\ pen[t].key = keyOf[e]
               PROVE  \E n \in Matching(e) : history[n].key = keyOf[e]
    BY DEF KeyIsKept
  <2>1. FileInv(e) /\ keyOf[e] = e /\ Kept(e)
    BY EligibleInv
  <2>2. \A t \in Threads : ~Writes(t, e)
    BY <2>1 DEF FileInv, Writes
  <2>3. <<"pending", e>> \in Matching(e)
    BY <2>1, <2>2 DEF Kept, Matching, Readable, Names
  <2> QED
    BY <2>1, <2>3 DEF FileInv, Matching
<1> QED
  BY <1>1, VaultAlways, PTL

(* For any number of presses: a record of such an escrow that names the escrow's own deposit    *)
(* has the key that signs for its script, so BuildCSVRefundTx can spend it.                     *)
THEOREM RefundTheorem == VaultSpec => []OwnDepositIsRefundable
<1>1. VaultInv => OwnDepositIsRefundable
  <2> SUFFICES ASSUME VaultInv, NEW e \in Escrows, Eligible(e),
                      NEW n \in Matching(e), history[n].txid = e
               PROVE  Signs(history[n]) /\ history[n].script = keyOf[e]
    BY DEF OwnDepositIsRefundable
  <2>1. FileInv(e) /\ keyOf[e] = e /\ e # None
    BY EligibleInv
  <2>2. history[n].key = e /\ history[n].id = e /\ Sound(history[n], at, keyOf)
    BY <2>1 DEF FileInv, Matching, VaultInv, InfoInv
  <2> QED
    BY <2>1, <2>2 DEF Sound, Signs
<1> QED
  BY <1>1, VaultAlways, PTL

(* For any number of presses: while such an escrow is the active one of the window, its key is  *)
(* the one in settlement_session_key.json or about to be written there, unless the last save    *)
(* ran beside another or beside the making of a key (saveSettlementSessionKey, client.go).      *)
THEOREM KeyFileTheorem == VaultSpec => []KeyFileIsCurrent
<1>1. VaultInv => KeyFileIsCurrent
  BY EligibleInv DEF KeyFileIsCurrent, CurrentInv, Past
<1> QED
  BY <1>1, VaultAlways, PTL

----------------------------------------------------------------------------
(* Signatures *)

Point == Scalar \ {Zero}

\* Adding what was subtracted gives back what there was.
LEMMA Cancel == \A a, b \in Scalar : Plus(Plus(a, Neg(b)), b) = a
<1>1. TAKE a, b \in Scalar
<1>2. Neg(b) \in Scalar /\ Plus(a, Neg(b)) \in Scalar /\ Plus(Neg(b), b) = Plus(b, Neg(b))
  BY GroupAssumption
<1>3. Plus(b, Neg(b)) = Zero /\ Plus(a, Zero) = a
  BY GroupAssumption
<1>4. Plus(Plus(a, Neg(b)), b) = Plus(a, Plus(Neg(b), b))
  BY <1>2, GroupAssumption
<1> QED
  BY <1>2, <1>3, <1>4

\* ... and the other way round.
LEMMA CancelAdded == \A a, b \in Scalar : Plus(Plus(a, b), Neg(b)) = a
<1>1. TAKE a, b \in Scalar
<1>2. Neg(b) \in Scalar /\ Plus(b, Neg(b)) = Zero /\ Plus(a, Zero) = a
  BY GroupAssumption
<1>3. Plus(Plus(a, b), Neg(b)) = Plus(a, Plus(b, Neg(b)))
  BY <1>2, GroupAssumption
<1> QED
  BY <1>2, <1>3

\* Two summands may change places.
LEMMA Swap == \A a, b, c \in Scalar : Plus(Plus(a, b), c) = Plus(Plus(a, c), b)
<1>1. TAKE a, b, c \in Scalar
<1>2. Plus(b, c) = Plus(c, b)
  BY GroupAssumption
<1>3. Plus(Plus(a, b), c) = Plus(a, Plus(b, c)) /\ Plus(Plus(a, c), b) = Plus(a, Plus(c, b))
  BY GroupAssumption
<1> QED
  BY <1>2, <1>3

\* A branch's secret is a scalar, whether it is replaced, negated or neither.
LEMMA GammaIsScalar == \A b \in Branches : DeriveAdaptorGamma(b) \in Scalar
<1>1. TAKE b \in Branches
<1>2. BranchHash(b) \in Scalar /\ One \in Scalar
  BY HashAssumption, GroupAssumption
<1>3. Neg(BranchHash(b)) \in Scalar /\ Neg(One) \in Scalar
  BY <1>2, GroupAssumption
<1> QED
  BY <1>2, <1>3 DEF DeriveAdaptorGamma

\* The digest of a branch is one the challenge is defined for.
LEMMA ChallengeIsScalar ==
    ASSUME NEW R \in Point, NEW m \in Digests, Challenge(XCoord(R), m) # Overflow
    PROVE  Challenge(XCoord(R), m) \in Scalar
<1>1. XCoord(R) \in Coords
  BY DEF Coords, Point
<1> QED
  BY <1>1, HashAssumption

(* What verifyAndStorePresig accepts is a signature as soon as the secret is added.             *)
LEMMA AcceptedVerifies ==
    ASSUME NEW X \in Scalar, NEW m \in Digests, NEW T \in Scalar, NEW ps \in PreSig,
           Accepts(X, m, T, ps)
    PROVE  Verifies(X, m, Finalized(ps, T))
<1> DEFINE e == Challenge(XCoord(ps.R), m)
           eX == Times(e, X)
<1>1. ps.R \in Point /\ ps.R \in Scalar /\ ps.R # Zero /\ ps.s \in Scalar
  BY DEF PreSig, Point
<1>2. /\ EvenY(ps.R) /\ e # Overflow
      /\ Plus(ps.s, eX) = Plus(ps.R, Neg(T))
  BY DEF Accepts
<1>3. e \in Scalar
  BY <1>1, <1>2, ChallengeIsScalar
<1>4. eX \in Scalar
  BY <1>3, GroupAssumption
<1>5. Plus(Plus(ps.s, T), eX) = Plus(Plus(ps.s, eX), T)
  <2> HIDE DEF eX
  <2> QED BY <1>1, <1>4, Swap
<1>6. Plus(Plus(ps.R, Neg(T)), T) = ps.R
  BY <1>1, Cancel
<1>7. Plus(Plus(ps.s, T), eX) = ps.R
  BY <1>2, <1>5, <1>6
<1>8. Finalized(ps, T).r = XCoord(ps.R) /\ Finalized(ps, T).s = Plus(ps.s, T)
  BY DEF Finalized
<1> QED
  BY <1>1, <1>2, <1>7, <1>8 DEF Verifies

(* What computePreSig makes is accepted under the key it signs with.                            *)
LEMMA ComputedIsAccepted ==
    ASSUME NEW x \in Scalar, NEW m \in Digests, NEW T \in Scalar,
           NEW ps \in computePreSig(x, m, T)
    PROVE  ps \in PreSig /\ Accepts(x, m, T, ps)
<1>1. PICK k \in GoodNonces(T, m) :
        ps = [R |-> Plus(k, T),
              s |-> Plus(k, Neg(Times(Challenge(XCoord(Plus(k, T)), m), x)))]
  BY DEF computePreSig
<1> DEFINE R == Plus(k, T)
           e == Challenge(XCoord(R), m)
           ex == Times(e, x)
<1>2. k \in Scalar /\ k # Zero /\ R # Zero /\ EvenY(R) /\ e # Overflow
  BY DEF GoodNonces
<1>3. R \in Scalar
  BY <1>2, GroupAssumption
<1>4. e \in Scalar
  BY <1>2, <1>3, ChallengeIsScalar DEF Point
<1>5. ex \in Scalar
  BY <1>4, GroupAssumption
<1>6. Plus(k, Neg(ex)) \in Scalar
  <2>1. Neg(ex) \in Scalar
    BY <1>5, GroupAssumption
  <2> QED BY <1>2, <2>1, GroupAssumption
<1>7. ps.R = R /\ ps.s = Plus(k, Neg(ex))
  BY <1>1
<1>8. Plus(Plus(k, Neg(ex)), ex) = k
  <2> HIDE DEF ex
  <2> QED BY <1>2, <1>5, Cancel
<1>9. Plus(R, Neg(T)) = k
  BY <1>2, CancelAdded
<1>10. ps \in PreSig
  BY <1>1, <1>2, <1>3, <1>6 DEF PreSig
<1>11. Plus(ps.s, Times(Challenge(XCoord(ps.R), m), x)) = k
  BY <1>7, <1>8
<1> QED
  BY <1>2, <1>7, <1>9, <1>10, <1>11 DEF Accepts

\* Nothing is added to a signature without an adaptor point.
LEMMA SignedVerifies ==
    ASSUME NEW x \in Scalar, NEW m \in Digests, NEW sig \in signSchnorrV0(x, m)
    PROVE  Verifies(x, m, sig)
<1>1. PICK ps \in computePreSig(x, m, Zero) : sig = [r |-> XCoord(ps.R), s |-> ps.s]
  BY DEF signSchnorrV0
<1>2. Zero \in Scalar
  BY GroupAssumption
<1>3. ps \in PreSig /\ Accepts(x, m, Zero, ps)
  BY <1>2, ComputedIsAccepted
<1>4. Verifies(x, m, Finalized(ps, Zero))
  BY <1>2, <1>3, AcceptedVerifies
<1>5. Plus(ps.s, Zero) = ps.s
  BY <1>3, GroupAssumption DEF PreSig
<1> QED
  BY <1>1, <1>4, <1>5 DEF Finalized

----------------------------------------------------------------------------

\* What a handshake of this client knows of its key and of its answer.
OwnAnswer ==
    ours => /\ step \in {"asked", "answered", "complete"} => priv = escrowKey
            /\ step = "answered" =>
                 /\ reply.ack = branch
                 /\ reply.ps \in computePreSig(priv, Digest(branch), DeriveAdaptorGamma(branch))
            /\ step # "refused"

PresignInv ==
    /\ priv \in Point /\ escrowKey \in Point
    /\ branch \in Branches
    /\ step = "answered" => reply.ps \in PreSig
    /\ \A p \in presigs : p.branch \in Branches
    /\ SignaturesVerify
    /\ OwnAnswer

LEMMA PresignInitially == PresignInit => PresignInv
  BY DEF PresignInit, PresignInv, SignaturesVerify, OwnAnswer, Point

LEMMA DigestOfBranch == RefundDigest \in Digests /\ \A b \in Branches : Digest(b) \in Digests
  BY DEF Digests

LEMMA PresignTypeStep == PresignTypeOK /\ [PresignNext]_presignVars => PresignTypeOK'
<1> SUFFICES ASSUME PresignTypeOK, [PresignNext]_presignVars PROVE PresignTypeOK'
  OBVIOUS
<1> USE DEF PresignTypeOK, Point
<1>1. CASE HelloKey
  BY <1>1 DEF HelloKey
<1>2. CASE BuildVerifyOk
  <2>1. PICK ps \in computePreSig(priv, Digest(branch), DeriveAdaptorGamma(branch)) :
          reply' = [ack |-> branch, ps |-> ps]
    BY <1>2 DEF BuildVerifyOk
  <2>2. ps \in PreSig
    BY <2>1, ComputedIsAccepted, GammaIsScalar, DigestOfBranch
  <2>3. reply' \in Reply
    BY <2>1, <2>2 DEF Reply
  <2> QED
    BY <1>2, <2>3 DEF BuildVerifyOk
<1>3. CASE OtherAnswer
  BY <1>3 DEF OtherAnswer
<1>4. CASE verifyAndStorePresig
  <2>1. 1 - branch \in Branches
    BY DEF Branches
  <2>2. [branch |-> branch, ps |-> reply.ps] \in [branch : Branches, ps : PreSig]
    BY DEF Reply
  <2> QED
    BY <1>4, <2>1, <2>2 DEF verifyAndStorePresig
<1>5. CASE SignRefund
  <2>1. PICK ps \in computePreSig(priv, RefundDigest, Zero) :
          refunds' = {[r |-> XCoord(ps.R), s |-> ps.s]}
    BY <1>5 DEF SignRefund, signSchnorrV0
  <2>2. ps \in PreSig
    BY <2>1, ComputedIsAccepted, GroupAssumption, DigestOfBranch
  <2>3. [r |-> XCoord(ps.R), s |-> ps.s] \in [r : Coords, s : Scalar]
    BY <2>2 DEF PreSig, Coords
  <2> QED
    BY <1>5, <2>1, <2>3 DEF SignRefund
<1>6. CASE UNCHANGED presignVars
  BY <1>6 DEF presignVars
<1> QED
  BY <1>1, <1>2, <1>3, <1>4, <1>5, <1>6 DEF PresignNext

LEMMA PresignStep == PresignInv /\ [PresignNext]_presignVars => PresignInv'
<1> SUFFICES ASSUME PresignInv, [PresignNext]_presignVars PROVE PresignInv'
  OBVIOUS
<1> USE DEF Point
<1>1. CASE HelloKey
  BY <1>1 DEF HelloKey, PresignInv, SignaturesVerify, OwnAnswer
<1>2. CASE BuildVerifyOk
  <2>1. PICK ps \in computePreSig(priv, Digest(branch), DeriveAdaptorGamma(branch)) :
          reply' = [ack |-> branch, ps |-> ps]
    BY <1>2 DEF BuildVerifyOk
  <2>2. ps \in PreSig
    BY <2>1, ComputedIsAccepted, GammaIsScalar, DigestOfBranch DEF PresignInv
  <2>3. reply'.ack = branch /\ reply'.ps = ps
    BY <2>1
  <2>4. /\ step = "asked" /\ step' = "answered" /\ ours
        /\ UNCHANGED <<priv, escrowKey, ours, wins, branch, presigs, refunds>>
    BY <1>2 DEF BuildVerifyOk
  <2>5. OwnAnswer'
    BY <2>1, <2>3, <2>4 DEF OwnAnswer, PresignInv
  <2> QED
    BY <2>2, <2>3, <2>4, <2>5 DEF PresignInv, SignaturesVerify
<1>3. CASE OtherAnswer
  BY <1>3 DEF OtherAnswer, PresignInv, SignaturesVerify, OwnAnswer, Reply
<1>4. CASE verifyAndStorePresig
  <2>1. /\ step = "answered" /\ reply.ps \in PreSig
        /\ UNCHANGED <<priv, escrowKey, ours, wins, reply, refunds>>
    BY <1>4 DEF verifyAndStorePresig, PresignInv
  <2>2. CASE /\ reply.ack = branch
             /\ Accepts(escrowKey, Digest(branch), DeriveAdaptorGamma(branch), reply.ps)
    <3>1. /\ presigs' = presigs \cup {[branch |-> branch, ps |-> reply.ps]}
          /\ branch' = 1 - branch
          /\ step' = IF branch = wins THEN "asked" ELSE "complete"
      BY <1>4, <2>2 DEF verifyAndStorePresig
    <3>2. Verifies(escrowKey, Digest(branch), Finalized(reply.ps, DeriveAdaptorGamma(branch)))
      BY <2>1, <2>2, AcceptedVerifies, GammaIsScalar, DigestOfBranch DEF PresignInv
    <3>3. branch' \in Branches
      BY <3>1 DEF PresignInv, Branches
    <3>4. SignaturesVerify' /\ \A p \in presigs' : p.branch \in Branches
      BY <2>1, <3>1, <3>2 DEF SignaturesVerify, PresignInv
    <3>5. OwnAnswer'
      BY <2>1, <3>1 DEF OwnAnswer, PresignInv
    <3> QED
      BY <2>1, <3>1, <3>3, <3>4, <3>5 DEF PresignInv
  <2>3. CASE ~(/\ reply.ack = branch
               /\ Accepts(escrowKey, Digest(branch), DeriveAdaptorGamma(branch), reply.ps))
    <3>1. step' = "refused" /\ UNCHANGED <<presigs, branch>>
      BY <1>4, <2>3 DEF verifyAndStorePresig
    <3>2. ~ours
      <4> SUFFICES ASSUME ours PROVE FALSE
        OBVIOUS
      <4>1. /\ priv = escrowKey /\ reply.ack = branch
            /\ reply.ps \in computePreSig(priv, Digest(branch), DeriveAdaptorGamma(branch))
        BY <2>1 DEF OwnAnswer, PresignInv
      <4>2. Accepts(priv, Digest(branch), DeriveAdaptorGamma(branch), reply.ps)
        BY <4>1, ComputedIsAccepted, GammaIsScalar, DigestOfBranch DEF PresignInv
      <4> QED
        BY <2>3, <4>1, <4>2
    <3> QED
      BY <2>1, <3>1, <3>2 DEF PresignInv, SignaturesVerify, OwnAnswer
  <2> QED
    BY <2>2, <2>3
<1>5. CASE SignRefund
  <2>1. PICK sig \in signSchnorrV0(priv, RefundDigest) : refunds' = {sig}
    BY <1>5 DEF SignRefund
  <2>2. Verifies(priv, RefundDigest, sig)
    BY <2>1, SignedVerifies, DigestOfBranch DEF PresignInv
  <2> QED
    BY <1>5, <2>1, <2>2 DEF SignRefund, PresignInv, SignaturesVerify, OwnAnswer
<1>6. CASE UNCHANGED presignVars
  BY <1>6 DEF presignVars, PresignInv, SignaturesVerify, OwnAnswer
<1> QED
  BY <1>1, <1>2, <1>3, <1>4, <1>5, <1>6 DEF PresignNext

(* Whatever program made them, the pre-signatures the server has stored complete to signatures  *)
(* of the escrow's key, and the refunds the client signs verify, in any group.                  *)
THEOREM SignaturesTheorem == PresignSpec => []SignaturesVerify
<1>1. PresignInv => SignaturesVerify
  BY DEF PresignInv
<1> QED
  BY <1>1, PresignInitially, PresignStep, PTL DEF PresignSpec

(* No answer of this client is refused, in any group and for any nonce.                         *)
THEOREM AnswersTheorem == PresignSpec => []OursIsAccepted
<1>1. PresignInv => OursIsAccepted
  BY DEF PresignInv, OwnAnswer, OursIsAccepted
<1> QED
  BY <1>1, PresignInitially, PresignStep, PTL DEF PresignSpec

(* The variables of the handshake keep their types, in any group.                               *)
THEOREM PresignTypeTheorem == PresignSpec => []PresignTypeOK
<1>1. PresignInit => PresignTypeOK
  BY GroupAssumption DEF PresignInit, PresignTypeOK, Reply, NoReply, PreSig, Branches
<1> QED
  BY <1>1, PresignTypeStep, PTL DEF PresignSpec
=============================================================================
