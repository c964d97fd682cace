---------------------------- MODULE SigningReplay ----------------------------
(***************************************************************************)
(* Signing for a remote peer: the "sign" command of BridgeEndpoint.Handle  *)
(* (bridge.go) and CloudBridge.handleSignCommand (cloud_bridge.go), and    *)
(* the store of used challenges that both consult                          *)
(* (identity_signing_challenge.go).                                        *)
(*                                                                         *)
(* A handler reads the clock twice: once to validate the challenge, and    *)
(* again to consume it, after which it signs.  Handlers of one store run   *)
(* side by side; only consume is atomic.  A replay key is the nonce: the   *)
(* other fields it joins are the same for all challenges of the model,     *)
(* and the time stamps are not part of it.                                 *)
(***************************************************************************)
EXTENDS Integers, FiniteSets

CONSTANTS
    Requests,       \* sign commands, one handler run each
    Nonces,
    Identities,
    Bound,          \* the identity the endpoint or bridge signs for
    Stamps,         \* time stamps a challenge may carry
    Validity,       \* identitySigningChallengeValiditySeconds (60)
    ClockSkew,      \* identitySigningChallengeClockSkewSeconds (300)
    MaximumReplays, \* identitySigningChallengeMaximumReplays (4096)
    MaxTime         \* bound on the clock

ASSUME SigningAssumption ==
    /\ Bound \in Identities
    /\ Stamps \subseteq Int
    /\ Validity \in Nat /\ ClockSkew \in Nat
    /\ MaximumReplays \in Nat
    /\ MaxTime \in Nat

VARIABLES
    now,            \* time.Now() of the signer
    consumed,       \* signingChallengeReplayStore: keys and expiries
    status,         \* how far the handler of a request has come
    challenge,      \* what the request asks it to sign
    at              \* the time consume read

vars == <<now, consumed, status, challenge, at>>

Challenge == [nonce : Nonces, identity : Identities,
              issuedAt : Stamps, expiresAt : Stamps]
Entry == [key : Nonces, expiresAt : Stamps]
Status == {"idle", "validated", "consumed", "signed", "denied"}

(* Every variable has its type, and the replay store never holds more than *)
(* its limit.                                                              *)
TypeOK ==
    /\ now \in Nat
    /\ consumed \in SUBSET Entry
    /\ IsFiniteSet(consumed) /\ Cardinality(consumed) <= MaximumReplays
    /\ status \in [Requests -> Status]
    /\ challenge \in [Requests -> Challenge]
    /\ at \in [Requests -> Nat]

Init ==
    /\ now = 0
    /\ consumed = {}
    /\ status = [r \in Requests |-> "idle"]
    /\ challenge \in [Requests -> Challenge]
    /\ at = [r \in Requests |-> 0]

-----------------------------------------------------------------------------
\* validateIdentitySigningChallenge, on well-formed bytes.
Valid_AnyLength(c) ==
    /\ c.identity = Bound
    /\ c.issuedAt <= c.expiresAt
    /\ c.issuedAt <= now + ClockSkew
    /\ now <= c.expiresAt

Valid(c) ==
    /\ c.identity = Bound
    /\ c.issuedAt <= c.expiresAt
    /\ c.expiresAt - c.issuedAt <= Validity
    /\ c.issuedAt <= now + ClockSkew
    /\ now <= c.expiresAt

Validate(r) ==
    /\ status[r] = "idle"
    /\ Valid(challenge[r])
    /\ status' = [status EXCEPT ![r] = "validated"]
    /\ UNCHANGED <<now, consumed, challenge, at>>

\* The command is refused: the challenge is not valid, the command or its
\* payload is not the bound identity's, or the bridge is not ready.
Deny(r) ==
    /\ status[r] = "validated" \/ status[r] = "idle"
    /\ status' = [status EXCEPT ![r] = "denied"]
    /\ UNCHANGED <<now, consumed, challenge, at>>

\* consume first forgets what has expired.
Remembered_Strictly == {e \in consumed : e.expiresAt > now}

Remembered == {e \in consumed : e.expiresAt >= now}

Used(nonce) == \E e \in Remembered : e.key = nonce

HasRoom_OneMore == Cardinality(Remembered) <= MaximumReplays

HasRoom == Cardinality(Remembered) < MaximumReplays

Consume(r) ==
    /\ status[r] = "validated"
    /\ ~Used(challenge[r].nonce)
    /\ HasRoom
    /\ consumed' = Remembered \cup {[key |-> challenge[r].nonce,
                                     expiresAt |-> challenge[r].expiresAt]}
    /\ status' = [status EXCEPT ![r] = "consumed"]
    /\ at' = [at EXCEPT ![r] = now]
    /\ UNCHANGED <<now, challenge>>

\* A used nonce and a full store deny the request; the purge stands.
ConsumeDenied(r) ==
    /\ status[r] = "validated"
    /\ Used(challenge[r].nonce) \/ ~HasRoom
    /\ consumed' = Remembered
    /\ status' = [status EXCEPT ![r] = "denied"]
    /\ UNCHANGED <<now, challenge, at>>

\* Owner.Sign after consume; a vault that fails leaves the nonce used.
Sign(r) ==
    /\ status[r] = "consumed"
    /\ \E answer \in {"signed", "denied"} :
         status' = [status EXCEPT ![r] = answer]
    /\ UNCHANGED <<now, consumed, challenge, at>>

Tick ==
    /\ now < MaxTime
    /\ now' = now + 1
    /\ UNCHANGED <<consumed, status, challenge, at>>

Next ==
    \/ \E r \in Requests : \/ Validate(r) \/ Deny(r)
                           \/ Consume(r) \/ ConsumeDenied(r) \/ Sign(r)
    \/ Tick

Spec == Init /\ [][Next]_vars

-----------------------------------------------------------------------------
Accepted == {r \in Requests : status[r] \in {"consumed", "signed"}}

(* Two requests under one nonce are both accepted only if one of them was  *)
(* consumed after the other's challenge had expired: within the validity   *)
(* of a challenge its nonce is good for one signature, however handlers    *)
(* interleave and whenever the store is purged.                            *)
OneUseWhileValid ==
    \A r, q \in Accepted :
      r # q /\ challenge[r].nonce = challenge[q].nonce =>
        \/ at[r] > challenge[q].expiresAt
        \/ at[q] > challenge[r].expiresAt

(* No entry of the store outlives the longest validity dated as far ahead  *)
(* as the clock skew allows: a full store refuses new challenges for a     *)
(* bounded time only.                                                      *)
EntriesExpire ==
    \A e \in consumed : e.expiresAt <= now + ClockSkew + Validity

Asks == [r \in Requests |-> [key |-> challenge[r].nonce,
                             expiresAt |-> challenge[r].expiresAt]]

Guard == INSTANCE NonceGuard WITH
    Limit <- MaximumReplays, asks <- Asks,
    guards <- Remembered, granted <- Accepted

(* The store implements NonceGuard: forgetting at the next consume is as   *)
(* good as forgetting when a challenge expires, a full store refuses, and  *)
(* neither a denied consume nor a failing vault frees a nonce.             *)
GuardsNonces == Guard!Spec
=============================================================================
