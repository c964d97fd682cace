------------------------- MODULE SigningReplayProofs -------------------------
(***************************************************************************)
(* Theorems about SigningReplay, for any number of requests, any store     *)
(* limit, validity and clock skew.                                         *)
(***************************************************************************)
EXTENDS SigningReplay, FiniteSetTheorems, TLAPS

(* A challenge that passed validation cannot reach further ahead than the  *)
(* skew and the longest validity.                                          *)
ValidatedReach ==
    \A r \in Requests : status[r] = "validated" =>
      challenge[r].expiresAt <= now + ClockSkew + Validity

(* The store remembers every accepted challenge that has not expired.      *)
StoreRemembers ==
    \A r \in Accepted :
      /\ at[r] <= now
      /\ \/ challenge[r].expiresAt < now
         \/ [key |-> challenge[r].nonce,
             expiresAt |-> challenge[r].expiresAt] \in consumed

IInv == TypeOK /\ ValidatedReach /\ StoreRemembers
        /\ OneUseWhileValid /\ EntriesExpire

-----------------------------------------------------------------------------
(* The invariant holds of the empty store.                                 *)
LEMMA InitIInv == Init => IInv
<1> SUFFICES ASSUME Init PROVE IInv
  OBVIOUS
<1>1. TypeOK
  BY SigningAssumption, FS_EmptySet DEF Init, TypeOK, Status
<1>2. ValidatedReach /\ StoreRemembers /\ OneUseWhileValid /\ EntriesExpire
  BY DEF Init, ValidatedReach, StoreRemembers, OneUseWhileValid,
         EntriesExpire, Accepted
<1> QED
  BY <1>1, <1>2 DEF IInv

(* What a purge leaves is a part of the store, and all that is unexpired.  *)
LEMMA PurgeFacts ==
  ASSUME TypeOK
  PROVE  /\ Remembered \in SUBSET consumed
         /\ IsFiniteSet(Remembered)
         /\ Cardinality(Remembered) \in Nat
         /\ Cardinality(Remembered) <= MaximumReplays
<1>1. Remembered \in SUBSET consumed
  BY DEF Remembered
<1>2. IsFiniteSet(Remembered)
      /\ Cardinality(Remembered) <= Cardinality(consumed)
  BY <1>1, FS_Subset DEF TypeOK
<1>3. Cardinality(Remembered) \in Nat /\ Cardinality(consumed) \in Nat
  BY <1>2, FS_CardinalityType DEF TypeOK
<1> QED
  BY <1>1, <1>2, <1>3, SigningAssumption DEF TypeOK

(* Steps that leave the clock and the store alone and accept nothing.      *)
LEMMA HandlerStep ==
  ASSUME IInv, UNCHANGED <<now, consumed, challenge, at>>,
         status' \in [Requests -> Status],
         \A r \in Requests :
           \/ status'[r] = status[r]
           \/ status'[r] = "denied"
           \/ status'[r] = "validated" /\ Valid(challenge[r])
           \/ status[r] = "consumed" /\ status'[r] = "signed"
  PROVE  IInv'
<1> USE DEF IInv
<1>1. TypeOK'
  BY DEF TypeOK
<1>2. ValidatedReach'
  <2> SUFFICES ASSUME NEW r \in Requests, status'[r] = "validated"
               PROVE  challenge[r].expiresAt <= now + ClockSkew + Validity
    BY DEF ValidatedReach
  <2>1. challenge[r].issuedAt \in Int /\ challenge[r].expiresAt \in Int
        /\ now \in Nat
    <3>1. challenge[r] \in Challenge /\ now \in Nat
      BY DEF TypeOK
    <3> QED
      BY <3>1, SigningAssumption DEF Challenge
  <2> QED
    BY <2>1, SigningAssumption DEF ValidatedReach, Valid
<1>3. Accepted' \subseteq Accepted
  BY DEF Accepted
<1>4. StoreRemembers' /\ OneUseWhileValid' /\ EntriesExpire'
  BY <1>3 DEF StoreRemembers, OneUseWhileValid, EntriesExpire
<1> QED
  BY <1>1, <1>2, <1>4

(* Consuming an unused nonce.                                              *)
LEMMA ConsumeStep ==
  ASSUME IInv, NEW r \in Requests, Consume(r)
  PROVE  IInv'
<1> USE DEF IInv
<1>e. PICK e : e = [key |-> challenge[r].nonce,
                    expiresAt |-> challenge[r].expiresAt]
  OBVIOUS
<1>1. now' = now /\ challenge' = challenge /\ consumed' = Remembered \cup {e}
      /\ now \in Nat
  BY <1>e DEF Consume, TypeOK
<1>2. e \in Entry /\ e.key = challenge[r].nonce
      /\ e.expiresAt = challenge[r].expiresAt
  BY <1>e DEF TypeOK, Challenge, Entry
<1>3. /\ status'[r] = "consumed" /\ at'[r] = now
      /\ \A q \in Requests \ {r} : status'[q] = status[q] /\ at'[q] = at[q]
  BY DEF Consume, TypeOK
<1>4. TypeOK'
  <2>1. e \notin Remembered /\ Cardinality(Remembered) < MaximumReplays
    BY <1>2 DEF Consume, Used, HasRoom
  <2>2. IsFiniteSet(consumed')
        /\ Cardinality(consumed') = Cardinality(Remembered) + 1
    BY <1>1, <2>1, PurgeFacts, FS_AddElement
  <2>3. Cardinality(consumed') <= MaximumReplays
    BY <2>1, <2>2, PurgeFacts, SigningAssumption
  <2>4. consumed' \in SUBSET Entry
    BY <1>1, <1>2, PurgeFacts DEF TypeOK
  <2>5. status' \in [Requests -> Status] /\ at' \in [Requests -> Nat]
    BY <1>1 DEF Consume, TypeOK, Status
  <2> QED
    BY <1>1, <2>2, <2>3, <2>4, <2>5 DEF TypeOK
<1>5. ValidatedReach'
  BY <1>1, <1>3 DEF ValidatedReach
<1>6. EntriesExpire'
  <2>1. e.expiresAt <= now + ClockSkew + Validity
    BY <1>2 DEF Consume, ValidatedReach
  <2> QED
    BY <1>1, <2>1, PurgeFacts DEF EntriesExpire
<1>7. \A q \in Requests \ {r} : q \in Accepted' => q \in Accepted
  BY <1>3 DEF Accepted
<1>8. ASSUME NEW q \in Accepted
      PROVE  /\ challenge[q].expiresAt \in Int
             /\ \/ challenge[q].expiresAt < now
                \/ [key |-> challenge[q].nonce,
                    expiresAt |-> challenge[q].expiresAt] \in Remembered
  <2>1. challenge[q] \in Challenge
    BY DEF TypeOK, Accepted
  <2>2. challenge[q].expiresAt \in Int
    BY <2>1, SigningAssumption DEF Challenge
  <2>3. \/ challenge[q].expiresAt < now
        \/ [key |-> challenge[q].nonce,
            expiresAt |-> challenge[q].expiresAt] \in consumed
    BY DEF StoreRemembers
  <2> QED
    BY <1>1, <2>2, <2>3 DEF Remembered
<1>9. StoreRemembers'
  <2> SUFFICES ASSUME NEW q \in Accepted'
               PROVE  /\ at'[q] <= now
                      /\ \/ challenge[q].expiresAt < now
                         \/ [key |-> challenge[q].nonce,
                             expiresAt |-> challenge[q].expiresAt]
                              \in consumed'
    BY <1>1 DEF StoreRemembers
  <2>1. CASE q = r
    BY <2>1, <1>e, <1>1, <1>3
  <2>2. CASE q # r
    <3>1. q \in Accepted /\ at'[q] = at[q]
      BY <2>2, <1>3, <1>7 DEF Accepted
    <3> QED
      BY <3>1, <1>1, <1>8 DEF StoreRemembers
  <2> QED
    BY <2>1, <2>2
<1>10. \A q \in Accepted : challenge[q].nonce = challenge[r].nonce =>
         challenge[q].expiresAt < now
  BY <1>8 DEF Consume, Used
<1>11. OneUseWhileValid'
  <2> SUFFICES ASSUME NEW q \in Accepted', NEW p \in Accepted', q # p,
                      challenge[q].nonce = challenge[p].nonce
               PROVE  \/ at'[q] > challenge[p].expiresAt
                      \/ at'[p] > challenge[q].expiresAt
    BY <1>1 DEF OneUseWhileValid
  <2>1. CASE q = r
    BY <2>1, <1>3, <1>7, <1>8, <1>10, <1>1 DEF Accepted
  <2>2. CASE p = r
    BY <2>2, <1>3, <1>7, <1>8, <1>10, <1>1 DEF Accepted
  <2>3. CASE q # r /\ p # r
    BY <2>3, <1>3, <1>7 DEF OneUseWhileValid, Accepted
  <2> QED
    BY <2>1, <2>2, <2>3
<1> QED
  BY <1>4, <1>5, <1>6, <1>9, <1>11

(* A denied consume still purges.                                          *)
LEMMA ConsumeDeniedStep ==
  ASSUME IInv, NEW r \in Requests, ConsumeDenied(r)
  PROVE  IInv'
<1> USE DEF IInv
<1>1. now' = now /\ challenge' = challenge /\ at' = at
      /\ consumed' = Remembered
  BY DEF ConsumeDenied
<1>2. status' \in [Requests -> Status]
      /\ \A q \in Requests : status'[q] = status[q] \/ status'[q] = "denied"
  BY DEF ConsumeDenied, TypeOK, Status
<1>3. TypeOK'
  BY <1>1, <1>2, PurgeFacts DEF TypeOK
<1>4. ValidatedReach'
  BY <1>1, <1>2 DEF ValidatedReach
<1>5. EntriesExpire'
  BY <1>1, PurgeFacts DEF EntriesExpire
<1>6. Accepted' \subseteq Accepted
  BY <1>2 DEF Accepted
<1>7. StoreRemembers'
  <2> SUFFICES ASSUME NEW q \in Accepted
               PROVE  /\ at[q] <= now
                      /\ \/ challenge[q].expiresAt < now
                         \/ [key |-> challenge[q].nonce,
                             expiresAt |-> challenge[q].expiresAt]
                              \in Remembered
    BY <1>1, <1>6 DEF StoreRemembers
  <2>1. challenge[q] \in Challenge /\ now \in Nat
    BY DEF TypeOK, Accepted
  <2>2. challenge[q].expiresAt \in Int
    BY <2>1, SigningAssumption DEF Challenge
  <2> QED
    BY <2>1, <2>2 DEF StoreRemembers, Remembered
<1>8. OneUseWhileValid'
  BY <1>1, <1>6 DEF OneUseWhileValid
<1> QED
  BY <1>3, <1>4, <1>5, <1>7, <1>8

(* The clock advances.                                                     *)
LEMMA TickStep == IInv /\ Tick => IInv'
<1> SUFFICES ASSUME IInv, Tick PROVE IInv'
  OBVIOUS
<1> USE DEF IInv, Tick
<1>1. TypeOK'
  BY DEF TypeOK
<1>2. now \in Nat
      /\ \A r \in Requests : challenge[r].expiresAt \in Int /\ at[r] \in Nat
  BY SigningAssumption DEF TypeOK, Challenge
<1>3. ValidatedReach'
  BY <1>2, SigningAssumption DEF ValidatedReach
<1>4. StoreRemembers'
  BY <1>2 DEF StoreRemembers, Accepted
<1>5. EntriesExpire'
  <2>1. \A e \in consumed : e.expiresAt \in Int
    BY SigningAssumption DEF TypeOK, Entry
  <2> QED
    BY <1>2, <2>1, SigningAssumption DEF EntriesExpire
<1>6. OneUseWhileValid'
  BY DEF OneUseWhileValid, Accepted
<1> QED
  BY <1>1, <1>3, <1>4, <1>5, <1>6

(* Every step preserves the invariant.                                     *)
LEMMA NextIInv == IInv /\ [Next]_vars => IInv'
<1> SUFFICES ASSUME IInv, [Next]_vars PROVE IInv'
  OBVIOUS
<1>0. TypeOK
  BY DEF IInv
<1>1. ASSUME NEW r \in Requests, Validate(r) \/ Deny(r) \/ Sign(r)
      PROVE  IInv'
  <2>1. UNCHANGED <<now, consumed, challenge, at>>
    BY <1>1 DEF Validate, Deny, Sign
  <2>2. status' \in [Requests -> Status]
        /\ \A q \in Requests :
             \/ status'[q] = status[q]
             \/ status'[q] = "denied"
             \/ status'[q] = "validated" /\ Valid(challenge[q])
             \/ status[q] = "consumed" /\ status'[q] = "signed"
    BY <1>0, <1>1 DEF Validate, Deny, Sign, TypeOK, Status
  <2> QED
    BY <2>1, <2>2, HandlerStep
<1>2. ASSUME UNCHANGED vars PROVE IInv'
  BY <1>0, <1>2, HandlerStep DEF vars, TypeOK
<1> QED
  BY <1>1, <1>2, ConsumeStep, ConsumeDeniedStep, TickStep DEF Next

LEMMA Invariance == Spec => []IInv
  BY InitIInv, NextIInv, PTL DEF Spec

-----------------------------------------------------------------------------
(* Type correctness; the replay store keeps within its limit.              *)
THEOREM StoreWithinLimit == Spec => []TypeOK
<1>1. IInv => TypeOK
  BY DEF IInv
<1> QED
  BY <1>1, Invariance, PTL

(* While a challenge is valid its nonce is accepted once.                  *)
THEOREM NonceUsedOnce == Spec => []OneUseWhileValid
<1>1. IInv => OneUseWhileValid
  BY DEF IInv
<1> QED
  BY <1>1, Invariance, PTL

(* Entries of the replay store expire within skew and validity.            *)
THEOREM StoreDrains == Spec => []EntriesExpire
<1>1. IInv => EntriesExpire
  BY DEF IInv
<1> QED
  BY <1>1, Invariance, PTL

-----------------------------------------------------------------------------
(* The refinement of NonceGuard.                                           *)

(* Stamps are integers, so that expiry can be compared.                    *)
LEMMA StampFacts ==
  ASSUME TypeOK
  PROVE  /\ now \in Nat
         /\ \A e \in consumed : e.expiresAt \in Int
         /\ \A r \in Requests : challenge[r].expiresAt \in Int
<1>1. /\ now \in Nat /\ consumed \subseteq Entry
      /\ \A r \in Requests : challenge[r] \in Challenge
  BY DEF TypeOK
<1> QED
  BY <1>1, SigningAssumption DEF Entry, Challenge

(* A consume grants the request and guards its nonce.                      *)
LEMMA ConsumeGrants ==
  ASSUME TypeOK, NEW r \in Requests, Consume(r)
  PROVE  Guard!Grant(r)
<1>1. PICK e : e = [key |-> challenge[r].nonce,
                    expiresAt |-> challenge[r].expiresAt]
  OBVIOUS
<1>2. /\ consumed' = Remembered \cup {e} /\ UNCHANGED <<now, challenge>>
      /\ Asks[r] = e /\ e.key = challenge[r].nonce
  BY <1>1 DEF Consume, Asks
<1>3. r \notin Accepted /\ Accepted' = Accepted \cup {r}
  BY DEF Consume, Accepted, TypeOK
<1>4. \A g \in Remembered : g.key # Asks[r].key
  BY <1>2 DEF Consume, Used
<1>5. Remembered' = Guard!Current(Remembered \cup {Asks[r]}, now)
  BY <1>2 DEF Remembered, Guard!Current
<1>6. UNCHANGED Asks
  BY <1>2 DEF Asks
<1>7. Guard!Cardinality(Remembered) < MaximumReplays
  <2>1. Guard!Cardinality(Remembered) = Cardinality(Remembered)
    BY Zenon DEF Guard!Cardinality, Cardinality
  <2> QED
    BY <2>1 DEF Consume, HasRoom
<1> QED
  BY <1>2, <1>3, <1>4, <1>5, <1>6, <1>7 DEF Guard!Grant

(* A denied consume, which purges, and a validation or denial, which does  *)
(* not, are invisible.                                                     *)
LEMMA RefusalUnseen ==
  ASSUME TypeOK, NEW r \in Requests,
         Validate(r) \/ Deny(r) \/ ConsumeDenied(r)
  PROVE  UNCHANGED Guard!vars
<1>1. /\ UNCHANGED <<now, challenge>>
      /\ consumed' = consumed \/ consumed' = Remembered
  BY DEF Validate, Deny, ConsumeDenied
<1>2. Accepted' = Accepted
  BY DEF Validate, Deny, ConsumeDenied, Accepted, TypeOK
<1>3. Remembered' = Remembered
  BY <1>1 DEF Remembered
<1> QED
  BY <1>1, <1>2, <1>3 DEF Guard!vars, Asks

(* A signature is invisible, a failing vault withdraws the grant.          *)
LEMMA SignKeepsGuard ==
  ASSUME TypeOK, NEW r \in Requests, Sign(r)
  PROVE  Guard!Withdraw(r) \/ UNCHANGED Guard!vars
<1>1. UNCHANGED <<now, consumed, challenge>>
  BY DEF Sign
<1>2. Remembered' = Remembered /\ Asks' = Asks
  BY <1>1 DEF Remembered, Asks
<1>3. Accepted' = Accepted \/ Accepted' = Accepted \ {r}
  <2>1. CASE status' = [status EXCEPT ![r] = "signed"]
    BY <2>1 DEF Sign, Accepted, TypeOK
  <2>2. CASE status' = [status EXCEPT ![r] = "denied"]
    BY <2>2 DEF Sign, Accepted, TypeOK
  <2> QED
    BY <2>1, <2>2 DEF Sign
<1> QED
  BY <1>1, <1>2, <1>3 DEF Guard!Withdraw, Guard!vars

(* The clock frees what expires at this instant, purged or not.            *)
LEMMA TickPasses ==
  ASSUME TypeOK, Tick
  PROVE  Guard!Pass
<1>1. now' = now + 1 /\ UNCHANGED <<consumed, status, challenge>>
  BY DEF Tick
<1>2. Remembered' = Guard!Current(Remembered, now + 1)
  BY <1>1, StampFacts DEF Remembered, Guard!Current
<1>3. Accepted' = Accepted /\ Asks' = Asks
  BY <1>1 DEF Accepted, Asks
<1> QED
  BY <1>1, <1>2, <1>3 DEF Guard!Pass

(* signingChallengeReplayStore implements NonceGuard, for handlers that    *)
(* interleave between their two readings of the clock and their consume.   *)
THEOREM GuardRefinement == Spec => GuardsNonces
<1>1. Init => Guard!Init
  BY DEF Init, Guard!Init, Remembered, Accepted
<1>2. IInv /\ [Next]_vars => [Guard!Next]_(Guard!vars)
  <2> SUFFICES ASSUME TypeOK, [Next]_vars PROVE [Guard!Next]_(Guard!vars)
    BY DEF IInv
  <2>1. CASE UNCHANGED vars
    BY <2>1 DEF vars, Guard!vars, Remembered, Accepted, Asks
  <2>2. ASSUME NEW r \in Requests, Consume(r) PROVE Guard!Next
    BY <2>2, ConsumeGrants DEF Guard!Next
  <2>3. ASSUME NEW r \in Requests, Sign(r)
        PROVE  [Guard!Next]_(Guard!vars)
    BY <2>3, SignKeepsGuard DEF Guard!Next
  <2>4. CASE Tick
    BY <2>4, TickPasses DEF Guard!Next
  <2> QED
    BY <2>1, <2>2, <2>3, <2>4, RefusalUnseen DEF Next
<1> QED
  BY <1>1, <1>2, Invariance, PTL DEF Spec, GuardsNonces, Guard!Spec
=============================================================================
