------------------------------- MODULE Login -------------------------------
(***************************************************************************)
(* The login of wallets: RequestNonce, VerifyLogin and the client calls    *)
(* around them.  A verification takes the lock to use up its nonce, checks *)
(* the signature without it, and takes it twice more to store the session  *)
(* and the wallet's key; the client gives up waiting after a timeout, and  *)
(* may send the same nonce again.                                          *)
(***************************************************************************)
EXTENDS FiniteSets

CONSTANTS
    Nonces,
    Attempts,   \* calls of VerifyLogin
    Wallets     \* addresses; each stands for its key and its user id

VARIABLES
    nonces,     \* authState.nonces: "none", "fresh", "used" or "expired"
    attempt,    \* where each call is
    nonceOf,    \* the nonce each call presents
    signer,     \* the wallet whose key signed it
    claimed,    \* the address each call claims
    sessions,   \* authState.sessions: the calls that have one
    payKeys,    \* uidToPubkey, uidToP2PK: the user ids that have a key
    answer      \* what each caller was told: "nothing", "ok", "refused" or "timeout"

loginVars == <<nonces, attempt, nonceOf, signer, claimed, sessions, payKeys, answer>>

LoginTypeOK ==
    /\ nonces \in [Nonces -> {"none", "fresh", "used", "expired"}]
    /\ attempt \in [Attempts -> {"none", "sent", "marked", "proved", "stored", "answered"}]
    /\ nonceOf \in [Attempts -> Nonces]
    /\ {signer, claimed} \subseteq [Attempts -> Wallets]
    /\ sessions \subseteq Attempts /\ payKeys \subseteq Wallets
    /\ answer \in [Attempts -> {"nothing", "ok", "refused", "timeout"}]

\* Which nonce, address and signature a call brings is chosen beforehand.
LoginInit ==
    /\ nonces = [n \in Nonces |-> "none"]
    /\ attempt = [a \in Attempts |-> "none"]
    /\ nonceOf \in [Attempts -> Nonces]
    /\ signer \in [Attempts -> Wallets]
    /\ claimed \in [Attempts -> Wallets]
    /\ sessions = {} /\ payKeys = {}
    /\ answer = [a \in Attempts |-> "nothing"]

fixed == <<nonceOf, signer, claimed>>
Advances(a, from, to) == attempt[a] = from /\ attempt' = [attempt EXCEPT ![a] = to]
Tell(a, what) == answer' = [answer EXCEPT ![a] = IF @ = "nothing" THEN what ELSE @]

RequestNonce(n) ==
    /\ nonces[n] = "none"
    /\ nonces' = [nonces EXCEPT ![n] = "fresh"]
    /\ UNCHANGED <<attempt, fixed, sessions, payKeys, answer>>

Expire(n) ==
    /\ nonces[n] = "fresh"
    /\ nonces' = [nonces EXCEPT ![n] = "expired"]
    /\ UNCHANGED <<attempt, fixed, sessions, payKeys, answer>>

\* The client's wallet signed a nonce it was given; nothing stops it from sending that one twice.
SendLogin(a) ==
    /\ nonces[nonceOf[a]] # "none"
    /\ Advances(a, "none", "sent")
    /\ UNCHANGED <<nonces, fixed, sessions, payKeys, answer>>

\* Mutant: the nonce is used up only by a login that succeeds.
CheckNonceOnly(a) ==
    /\ \/ nonces[nonceOf[a]] = "fresh" /\ Advances(a, "sent", "marked") /\ UNCHANGED answer
       \/ nonces[nonceOf[a]] # "fresh" /\ Advances(a, "sent", "answered") /\ Tell(a, "refused")
    /\ UNCHANGED <<nonces, fixed, sessions, payKeys>>

\* An unknown, used or expired nonce is refused; the others are used up, whatever comes of them.
UseNonce(a) ==
    /\ \/ /\ nonces[nonceOf[a]] = "fresh"
          /\ nonces' = [nonces EXCEPT ![nonceOf[a]] = "used"]
          /\ Advances(a, "sent", "marked")
          /\ UNCHANGED answer
       \/ /\ nonces[nonceOf[a]] # "fresh"
          /\ Advances(a, "sent", "answered")
          /\ Tell(a, "refused")
          /\ UNCHANGED nonces
    /\ UNCHANGED <<fixed, sessions, payKeys>>

\* The key recovered from the signature must be the claimed address's.
ProveKey(a) ==
    /\ \/ signer[a] = claimed[a] /\ Advances(a, "marked", "proved") /\ UNCHANGED answer
       \/ signer[a] # claimed[a] /\ Advances(a, "marked", "answered") /\ Tell(a, "refused")
    /\ UNCHANGED <<nonces, fixed, sessions, payKeys>>

StoreSession(a) ==
    /\ Advances(a, "proved", "stored")
    /\ sessions' = sessions \cup {a}
    /\ UNCHANGED <<nonces, fixed, payKeys, answer>>

\* A second section keeps or stores the key; a user id has one key, its address's.
StoreKey(a) ==
    /\ Advances(a, "stored", "answered")
    /\ payKeys' = payKeys \cup {claimed[a]}
    /\ Tell(a, "ok")
    /\ UNCHANGED <<nonces, fixed, sessions>>

\* The client's ten seconds are over; the server goes on.
TimeOut(a) ==
    /\ attempt[a] \notin {"none", "answered"}
    /\ answer[a] = "nothing"
    /\ Tell(a, "timeout")
    /\ UNCHANGED <<nonces, attempt, fixed, sessions, payKeys>>

LoginNext ==
    \/ \E n \in Nonces : RequestNonce(n) \/ Expire(n)
    \/ \E a \in Attempts :
        \/ SendLogin(a) \/ UseNonce(a) \/ ProveKey(a)
        \/ StoreSession(a) \/ StoreKey(a) \/ TimeOut(a)

LoginSpec == LoginInit /\ [][LoginNext]_loginVars

(* A nonce makes one session at most, however often it is sent and however the calls and their  *)
(* timeouts interleave; a call that was told of success has its session and its user a key; and *)
(* every session is its signer's.                                                               *)
NonceLogsInOnce ==
    /\ \A a, b \in sessions : nonceOf[a] = nonceOf[b] => a = b
    /\ \A a \in Attempts : answer[a] = "ok" => a \in sessions /\ claimed[a] \in payKeys
    /\ \A a \in sessions : signer[a] = claimed[a]
=============================================================================
