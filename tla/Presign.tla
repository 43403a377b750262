------------------------------ MODULE Presign ------------------------------
(***************************************************************************)
(* The signatures of an escrow's key: the adaptor pre-signatures of the    *)
(* handshake, as the client makes them and the server checks and completes *)
(* them, and the client's own signature of a refund.  The curve is any     *)
(* commutative group: a point aG is written by its logarithm a, infinity   *)
(* by Zero.                                                                *)
(***************************************************************************)
EXTENDS Naturals, FiniteSets

CONSTANTS
    Scalar, Zero, One,
    Plus(_, _), Neg(_), Times(_, _),    \* modulo the group's order
    EvenY(_),           \* the point has the prefix 0x02
    Challenge(_, _),    \* BLAKE256(r_x || m), or Overflow if it is not below the order
    Overflow,
    BranchHash(_),      \* the hash DeriveAdaptorGamma reduces, of a branch's tag and the secret
    Digest(_),          \* the signature hash of the escrow's input in a branch's draft
    RefundDigest        \* ... and in its refund transaction

Branches == {0, 1}

ASSUME GroupAssumption ==
    /\ Zero \in Scalar /\ One \in Scalar /\ One # Zero
    /\ \A a, b \in Scalar : Plus(a, b) \in Scalar /\ Plus(a, b) = Plus(b, a)
    /\ \A a, b, c \in Scalar : Plus(Plus(a, b), c) = Plus(a, Plus(b, c))
    /\ \A a \in Scalar : Plus(a, Zero) = a /\ Neg(a) \in Scalar /\ Plus(a, Neg(a)) = Zero
    /\ \A a, b \in Scalar : Times(a, b) \in Scalar
ASSUME PointAssumption ==
    \A p \in Scalar \ {Zero} : EvenY(p) \in BOOLEAN /\ EvenY(Neg(p)) = ~EvenY(p)

\* Two points have the same x coordinate if they are equal or opposite.
XCoord(p) == {p, Neg(p)}
Coords == {XCoord(p) : p \in Scalar \ {Zero}}
Digests == {Digest(b) : b \in Branches} \cup {RefundDigest}

ASSUME HashAssumption ==
    /\ Overflow \notin Scalar
    /\ \A r \in Coords, m \in Digests : Challenge(r, m) \in Scalar \cup {Overflow}
    /\ \A b \in Branches : BranchHash(b) \in Scalar

VARIABLES
    priv,       \* the client's session key when the handshake began
    escrowKey,  \* the public key in the script of the caller's escrow
    ours,       \* the caller runs this client library
    wins,       \* the branch that pays the caller
    branch,     \* the branch under way
    step,       \* the handshake: "hello", "asked", "answered", "complete", "unknown", "refused"
    reply,      \* the VERIFY_OK under way
    presigs,    \* the pre-signatures stored for the caller's input
    refunds     \* the signatures of refunds

presignVars == <<priv, escrowKey, ours, wins, branch, step, reply, presigs, refunds>>

PreSig == [R : Scalar \ {Zero}, s : Scalar]
Reply == [ack : Branches, ps : PreSig]      \* the ack names a draft, a digest and an adaptor point
NoReply == [ack |-> 0, ps |-> [R |-> One, s |-> Zero]]

PresignTypeOK ==
    /\ priv \in Scalar \ {Zero} /\ escrowKey \in Scalar \ {Zero} /\ ours \in BOOLEAN
    /\ wins \in Branches /\ branch \in Branches
    /\ step \in {"hello", "asked", "answered", "complete", "unknown", "refused"}
    /\ reply \in Reply
    /\ presigs \subseteq [branch : Branches, ps : PreSig]
    /\ refunds \subseteq [r : Coords, s : Scalar]

----------------------------------------------------------------------------
(* Signatures *)

\* dcrd: EC-Schnorr-DCRv0 under the point X.
Verifies(X, m, sig) ==
    LET e == Challenge(sig.r, m)
        R == Plus(sig.s, Times(e, X))
    IN e # Overflow /\ R # Zero /\ EvenY(R) /\ XCoord(R) = sig.r

\* The nonces that computePreSig may end its retries with.
GoodNonces(T, m) ==
    {k \in Scalar \ {Zero} : LET R == Plus(k, T) IN
        R # Zero /\ EvenY(R) /\ Challenge(XCoord(R), m) # Overflow}

\* Mutant: the challenge is added.
ComputedAdded(x, m, T) ==
    {[R |-> Plus(k, T), s |-> Plus(k, Times(Challenge(XCoord(Plus(k, T)), m), x))] :
        k \in GoodNonces(T, m)}

computePreSig(x, m, T) ==
    {[R |-> Plus(k, T), s |-> Plus(k, Neg(Times(Challenge(XCoord(Plus(k, T)), m), x)))] :
        k \in GoodNonces(T, m)}

\* A refund is signed in the same way, for no adaptor point.
signSchnorrV0(x, m) ==
    {[r |-> XCoord(ps.R), s |-> ps.s] : ps \in computePreSig(x, m, Zero)}

\* The adaptor secret of a branch, never zero and with an even point.
DeriveAdaptorGamma(b) ==
    LET gamma == IF BranchHash(b) = Zero THEN One ELSE BranchHash(b)
    IN IF EvenY(gamma) THEN gamma ELSE Neg(gamma)

\* Mutant: the parity of R' is not checked.
AcceptsOdd(X, m, T, ps) ==
    LET e == Challenge(XCoord(ps.R), m)
        lhs == Plus(ps.s, Times(e, X))
    IN e # Overflow /\ lhs # Zero /\ lhs = Plus(ps.R, Neg(T))

\* verifyAndStorePresig: s'G + eX = R' - T, with neither side at infinity.
Accepts(X, m, T, ps) ==
    LET e == Challenge(XCoord(ps.R), m)
        lhs == Plus(ps.s, Times(e, X))
    IN EvenY(ps.R) /\ e # Overflow /\ lhs # Zero /\ lhs = Plus(ps.R, Neg(T))

\* FinalizeWinner adds the secret and runs the script.
Finalized(ps, gamma) == [r |-> XCoord(ps.R), s |-> Plus(ps.s, gamma)]

----------------------------------------------------------------------------
(* The handshake *)

PresignInit ==
    /\ priv \in Scalar \ {Zero} /\ escrowKey \in Scalar \ {Zero} /\ ours \in BOOLEAN
    /\ wins \in Branches /\ branch = wins
    /\ step = "hello" /\ reply = NoReply
    /\ presigs = {} /\ refunds = {}

\* SettlementStream looks for an escrow of the room that has HELLO's key: this client sends the
\* key it signs with, another program may send any.
HelloKey ==
    /\ step = "hello"
    /\ \E X \in IF ours THEN {priv} ELSE Scalar \ {Zero} :
          step' = IF X = escrowKey THEN "asked" ELSE "unknown"
    /\ UNCHANGED <<priv, escrowKey, ours, wins, branch, reply, presigs, refunds>>

\* This client recomputes the digest and answers; its ack names what it was sent.
BuildVerifyOk ==
    /\ step = "asked" /\ ours
    /\ reply' \in {[ack |-> branch, ps |-> ps] :
                     ps \in computePreSig(priv, Digest(branch), DeriveAdaptorGamma(branch))}
    /\ step' = "answered"
    /\ UNCHANGED <<priv, escrowKey, ours, wins, branch, presigs, refunds>>

\* Another program may answer anything.
OtherAnswer ==
    /\ step = "asked" /\ ~ours
    /\ reply' \in Reply
    /\ step' = "answered"
    /\ UNCHANGED <<priv, escrowKey, ours, wins, branch, presigs, refunds>>

\* The winning branch is stored first, then the losing one.
verifyAndStorePresig ==
    /\ step = "answered"
    /\ IF reply.ack = branch
          /\ Accepts(escrowKey, Digest(branch), DeriveAdaptorGamma(branch), reply.ps)
       THEN /\ presigs' = presigs \cup {[branch |-> branch, ps |-> reply.ps]}
            /\ branch' = 1 - branch
            /\ step' = IF branch = wins THEN "asked" ELSE "complete"
       ELSE step' = "refused" /\ UNCHANGED <<presigs, branch>>
    /\ UNCHANGED <<priv, escrowKey, ours, wins, reply, refunds>>

\* BuildCSVRefundTx, once for the model.
SignRefund ==
    /\ refunds = {}
    /\ \E sig \in signSchnorrV0(priv, RefundDigest) : refunds' = {sig}
    /\ UNCHANGED <<priv, escrowKey, ours, wins, branch, step, reply, presigs>>

PresignNext ==
    \/ HelloKey \/ BuildVerifyOk \/ OtherAnswer \/ verifyAndStorePresig \/ SignRefund

PresignSpec == PresignInit /\ [][PresignNext]_presignVars

----------------------------------------------------------------------------
(* Whatever program made them, the pre-signatures the server has stored become signatures of    *)
(* the escrow's key over their branch's draft when the branch's secret is added, so settling    *)
(* cannot fail on them; and a refund the client signs verifies.                                 *)
SignaturesVerify ==
    /\ \A p \in presigs :
          Verifies(escrowKey, Digest(p.branch), Finalized(p.ps, DeriveAdaptorGamma(p.branch)))
    /\ \A sig \in refunds : Verifies(priv, RefundDigest, sig)

(* What this client answers is never refused, whichever nonce its retries end with.             *)
OursIsAccepted == ours => step # "refused"
=============================================================================
