------------------------------ MODULE MCClient ------------------------------
(***************************************************************************)
(* Seven parts of a client that share nothing but the process: its key     *)
(* vault, its notification stream, its game stream, its logins, its        *)
(* signatures, its paddle and the queue of results to its window.  A       *)
(* behaviour exercises one of them, so their states add up.                *)
(***************************************************************************)
EXTENDS Vault, Link, Feed, Login, Presign, Paddle, Bridge

\* The group of order 7.  The challenges are spread over it by hand: one is zero, one overflows.
Seven == 0..6
PlusMod(a, b) == (a + b) % 7
NegMod(a) == (7 - a) % 7
TimesMod(a, b) == (a * b) % 7
FirstThreeAreEven(p) == p \in 1..3
ChallengeOf(r, m) ==
    LET x == CHOOSE p \in r : p \in 1..3
    IN IF x = 1 /\ m = 2 THEN Overflow ELSE (x * x + 3 * m) % 7
\* The branches are hashed to the scalars 0 and 5, whose point is odd.
HashOf(b) == 5 * b
DigestOf(b) == b + 1

VARIABLE part

mcVars == <<part, vaultVars, linkVars, feedVars, loginVars, presignVars, paddleVars, bridgeVars>>

MCInit ==
    /\ part \in {"vault", "link", "feed", "login", "presign", "paddle", "bridge"}
    /\ VaultInit /\ LinkInit /\ FeedInit /\ PaddleInit /\ BridgeInit
    /\ IF part = "login" THEN LoginInit
       ELSE LoginInit /\ nonceOf = [a \in Attempts |-> CHOOSE n \in Nonces : TRUE]
                      /\ signer = [a \in Attempts |-> CHOOSE w \in Wallets : TRUE]
                      /\ claimed = signer
    /\ PresignInit
    /\ part # "link" => inRoom
    /\ part # "presign" => priv = One /\ escrowKey = One /\ ours /\ wins = 0
    /\ ~ours => priv = escrowKey        \* another program's key is not used

FirstEscrow == CHOOSE e \in Escrows : TRUE

\* Bounds: the escrows are alike, so one of them is pressed first; a step that excuses every
\* escrow leaves nothing to look at; a historic record is
\* another file than the key file, so no login saves while one is written, nor while an escrow
\* is archived, and no save at all is under way while the note of a refund is.
VaultSteps ==
    /\ part = "vault" /\ VaultNext
    /\ at'[FirstEscrow] = "idle" => \A e \in Escrows : at'[e] = "idle"
    /\ excused' # Escrows
    /\ Auth \in Saving' => at'[Archive] = "idle" /\ \A t \in Threads : at'[t] # "snapping"
    /\ Saving' # {} => at'[Note] = "idle"
\* Bounds: the flag is set only for a client that is there and neither stops nor goes silent, and
\* no longer once only another stream could put the client's right.
LinkSteps ==
    /\ part = "link" /\ LinkNext
    /\ stopped' \/ loop' \in {"none", "silent"} => flags' = <<>>
    /\ missed /\ loop = "reading" /\ cur = MaxStreams => roomVars' = roomVars
FeedSteps == part = "feed" /\ FeedNext
LoginSteps == part = "login" /\ LoginNext
PresignSteps == part = "presign" /\ PresignNext
\* Bound: nothing is promised after a slip.
PaddleSteps == part = "paddle" /\ PaddleNext /\ ~slipped'
BridgeSteps == part = "bridge" /\ BridgeNext

MCNext ==
    /\ \/ VaultSteps /\ UNCHANGED <<linkVars, feedVars, loginVars, presignVars, paddleVars, bridgeVars>>
       \/ LinkSteps /\ UNCHANGED <<vaultVars, feedVars, loginVars, presignVars, paddleVars, bridgeVars>>
       \/ FeedSteps /\ UNCHANGED <<vaultVars, linkVars, loginVars, presignVars, paddleVars, bridgeVars>>
       \/ LoginSteps /\ UNCHANGED <<vaultVars, linkVars, feedVars, presignVars, paddleVars, bridgeVars>>
       \/ PresignSteps /\ UNCHANGED <<vaultVars, linkVars, feedVars, loginVars, paddleVars, bridgeVars>>
       \/ PaddleSteps /\ UNCHANGED <<vaultVars, linkVars, feedVars, loginVars, presignVars, bridgeVars>>
       \/ BridgeSteps /\ UNCHANGED <<vaultVars, linkVars, feedVars, loginVars, presignVars, paddleVars>>
    /\ UNCHANGED part

\* LinkFairness, in the behaviours of the link.
MCFairness ==
    /\ WF_linkVars(part = "link" /\ ClientStep)
    /\ WF_linkVars(part = "link" /\ (ReadRooms \/ Resync))
    /\ \A s \in Streams : WF_linkVars(part = "link" /\ HandlerStep(s))

MCSpec == MCInit /\ [][MCNext]_mcVars /\ MCFairness

ClientTypeOK ==
    /\ VaultTypeOK /\ LinkTypeOK /\ FeedTypeOK
    /\ LoginTypeOK /\ PresignTypeOK /\ PaddleTypeOK
    /\ BridgeTypeOK

\* The other parts leave the link where it starts.
TheLinkSettles == part = "link" => LinkSettles
=============================================================================
