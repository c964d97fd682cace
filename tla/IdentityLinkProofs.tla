------------------------- MODULE IdentityLinkProofs -------------------------
(***************************************************************************)
(* Theorems about identity links: of EntityAnchor, for any number of calls *)
(* at a time, any requests, approvals, link IDs and JTIs, and any mapping  *)
(* of these to keys that leaves the genesis record its own; and, in the    *)
(* second part, of EntityExtension, for any places and any number of       *)
(* requests, approvals and link records.                                   *)
(***************************************************************************)
EXTENDS EntityAnchor, EntityExtension, TLAPS

(* An approval that another key gave, as it was asked for.                 *)
Fit(a) ==
    /\ a \in Approval
    /\ a.issuer # Subject[a.request] /\ a.terms = "asked"

(* Its JTI is used, or will be by the call that stored its record.         *)
UsedUp(a) == a.jti \in completed \/ Completing(a)

(* A record that may be at key k.                                          *)
Good(k, record) ==
    record.status \in {"active", "revoked"} =>
      \E a \in Approval :
        /\ record.by = {a} /\ SafeRecordKey[a.id] = k
        /\ Fit(a) /\ UsedUp(a)

(* A call that completes holds the link of an approval that fits; if it    *)
(* did not find its JTI, it is not there.  A call that revokes holds what  *)
(* may be at its key.                                                      *)
Completes(record, k) ==
    \E a \in Approval :
      record = LinkOf(a) /\ SafeRecordKey[a.id] = k /\ Fit(a)

NotFound(record) == \A a \in record.by : used[SafeRecordKey[a.jti]] # a.jti

Revokes(record, k) ==
    Good(k, record) /\ k # GenesisKey /\ record.status # "genesis"

CallsFit ==
    \A t \in Calls :
      /\ pc[t] \in CompleteSteps => Completes(held[t], key[t])
      /\ pc[t] = "fresh" => NotFound(held[t])
      /\ pc[t] = "storeRevoked" => Revokes(held[t], key[t])

RecordsFit ==
    \A k \in RecordKeys :
      Good(k, records[k]) /\ (records[k].status = "genesis" => k = GenesisKey)

(* A used JTI is found, or its place was taken.                            *)
UsedFit ==
    \A jti \in completed : used[SafeRecordKey[jti]] = jti \/ Displaced(jti)

IInv == TypeOK /\ CallsFit /\ RecordsFit /\ UsedFit /\ GenesisHolds

-----------------------------------------------------------------------------
(* What the steps of the anchor have in common.                            *)
KeepsCompleting ==
    /\ completed \subseteq completed'
    /\ \A t \in Calls : pc[t] = "storeUsed" => \A a \in held[t].by :
         \/ pc'[t] = "storeUsed" /\ a \in held'[t].by
         \/ a.jti \in completed'

UsedMoves ==
    /\ \A k \in RecordKeys :
         \/ used'[k] \in {used[k], "written"}
         \/ used'[k] \in completed' /\ SafeRecordKey[used'[k]] = k
    /\ \A jti \in completed' \ completed : used'[SafeRecordKey[jti]] = jti

CallsMove ==
    \A t \in Calls :
      /\ pc'[t] \in CompleteSteps => Completes(held'[t], key'[t])
      /\ pc'[t] = "fresh" => NotFound(held[t])'
      /\ pc'[t] = "storeRevoked" => Revokes(held'[t], key'[t])

RecordsMove ==
    \A k \in RecordKeys :
      /\ \/ Good(k, records'[k])
         \/ \E a \in Approval :
              /\ records'[k].by = {a} /\ SafeRecordKey[a.id] = k
              /\ Fit(a) /\ Completing(a)'
      /\ records'[k].status = "genesis" => k = GenesisKey

Moves == KeepsCompleting /\ UsedMoves /\ CallsMove /\ RecordsMove

(* The records that handlers make.                                         *)
LEMMA AnchorRecordFacts ==
  /\ \A r \in {NoRecord, Written, GenesisRecord} :
       r \in Record /\ r.by = {} /\ r.status \notin {"active", "revoked"}
  /\ NoRecord.status = "none" /\ Written.status = "written"
  /\ GenesisRecord.status = "genesis"
  /\ \A a \in Approval :
       /\ LinkOf(a) \in Record /\ LinkOf(a).by = {a}
       /\ LinkOf(a).status = "active"
  /\ \A r \in Record :
       /\ Revoked(r) \in Record /\ Revoked(r).by = r.by
       /\ Revoked(r).status \in {"written", "revoked"}
       /\ Revoked(r).status = "written" <=> r.status = "written"
  /\ GenesisKey \in RecordKeys
<1>1. GenesisKey \in RecordKeys
  BY AnchorAssumption DEF GenesisKey
<1>2. \A a \in Approval :
        /\ LinkOf(a) \in Record /\ LinkOf(a).by = {a}
        /\ LinkOf(a).status = "active"
  BY DEF LinkOf, Record
<1>3. ASSUME NEW r \in Record
      PROVE  /\ Revoked(r) \in Record /\ Revoked(r).by = r.by
             /\ Revoked(r).status \in {"written", "revoked"}
             /\ Revoked(r).status = "written" <=> r.status = "written"
  BY DEF Revoked, Record
<1> QED
  BY <1>1, <1>2, <1>3 DEF NoRecord, Written, GenesisRecord, Record

(* An approval names what the constants are about.                         *)
LEMMA ApprovalFacts ==
  \A a \in Approval :
    /\ a.jti \in JTIs /\ a.id \in LinkIDs
    /\ SafeRecordKey[a.jti] \in RecordKeys /\ SafeRecordKey[a.id] \in RecordKeys
BY AnchorAssumption DEF Approval

(* A record that may be at a key goes on to be one.                        *)
LEMMA GoodStays ==
  ASSUME KeepsCompleting, NEW k, NEW record, Good(k, record)
  PROVE  Good(k, record)'
<1>1. \A a : UsedUp(a) => UsedUp(a)'
  BY DEF UsedUp, Completing, KeepsCompleting
<1> QED
  BY <1>1 DEF Good, Fit

(* A step of that kind keeps the invariant.                                *)
LEMMA MovesKeep ==
  ASSUME IInv, TypeOK', Moves, GenesisHolds'
  PROVE  IInv'
<1>1. CallsFit'
  <2> SUFFICES ASSUME NEW t \in Calls
               PROVE  /\ pc'[t] \in CompleteSteps => Completes(held[t], key[t])'
                      /\ pc'[t] = "fresh" => NotFound(held[t])'
                      /\ pc'[t] = "storeRevoked" => Revokes(held[t], key[t])'
    BY DEF CallsFit
  <2>1. Completes(held'[t], key'[t]) => Completes(held[t], key[t])'
    BY DEF Completes, Fit
  <2>2. Revokes(held'[t], key'[t]) => Revokes(held[t], key[t])'
    <3>1. PICK k, record : k = key'[t] /\ record = held'[t]
      OBVIOUS
    <3>2. Good(k, record) => Good(k, record)'
      BY GoodStays DEF Moves
    <3>3. Good(k, record)' => Good(key[t], held[t])'
      BY <3>1 DEF Good, Fit, UsedUp, Completing
    <3> QED
      BY <3>1, <3>2, <3>3 DEF Revokes
  <2> QED
    BY <2>1, <2>2 DEF Moves, CallsMove
<1>2. RecordsFit'
  <2> SUFFICES ASSUME NEW k \in RecordKeys
               PROVE  /\ Good(k, records[k])'
                      /\ records'[k].status = "genesis" => k = GenesisKey
    BY DEF RecordsFit
  <2>1. PICK record : record = records'[k]
    OBVIOUS
  <2>2. Good(k, record)' => Good(k, records[k])'
    BY <2>1 DEF Good, Fit, UsedUp, Completing
  <2>3. Good(k, record) => Good(k, record)'
    BY GoodStays DEF Moves
  <2>4. ASSUME NEW a \in Approval,
               record.by = {a}, SafeRecordKey[a.id] = k,
               Fit(a), Completing(a)'
        PROVE  Good(k, record)'
    BY <2>4 DEF Good, Fit, UsedUp
  <2> QED
    BY <2>1, <2>2, <2>3, <2>4 DEF Moves, RecordsMove
<1>3. UsedFit'
  <2> SUFFICES ASSUME NEW jti \in completed'
               PROVE  used'[SafeRecordKey[jti]] = jti \/ Displaced(jti)'
    BY DEF UsedFit
  <2>1. CASE jti \notin completed
    BY <2>1 DEF Moves, UsedMoves
  <2>2. CASE jti \in completed
    <3>1. PICK k \in RecordKeys : k = SafeRecordKey[jti]
      BY <2>2, AnchorAssumption DEF IInv, TypeOK
    <3>2. \/ used[k] = jti \/ used[k] = "written"
          \/ \E other \in completed \ {jti} : SafeRecordKey[other] = k
      BY <2>2, <3>1 DEF IInv, UsedFit, Displaced
    <3>3. \/ used'[k] \in {used[k], "written"}
          \/ used'[k] \in completed' /\ SafeRecordKey[used'[k]] = k
      BY DEF Moves, UsedMoves
    <3>4. completed \subseteq completed'
      BY DEF Moves, KeepsCompleting
    <3> QED
      BY <3>1, <3>2, <3>3, <3>4 DEF Displaced
  <2> QED
    BY <2>1, <2>2
<1> QED
  BY <1>1, <1>2, <1>3 DEF IInv

(* The invariant holds of a new anchor.                                    *)
LEMMA InitIInv == Init => IInv
<1> SUFFICES ASSUME Init PROVE IInv
  OBVIOUS
<1>1. TypeOK
  <2>1. GenesisKey \in RecordKeys /\ NoRecord \in Record
    BY AnchorRecordFacts
  <2> QED
    BY <2>1 DEF Init, TypeOK, Steps
<1>2. CallsFit
  BY DEF Init, CallsFit, CompleteSteps, Iterating
<1>3. RecordsFit /\ UsedFit /\ GenesisHolds
  BY AnchorRecordFacts DEF Init, RecordsFit, Good, UsedFit, GenesisHolds
<1> QED
  BY <1>1, <1>2, <1>3 DEF IInv

-----------------------------------------------------------------------------
(* A call goes from one step to another.                                   *)
LEMMA CallMoves ==
  ASSUME IInv, NEW t \in Calls, NEW x \in Steps,
         NEW k \in RecordKeys, NEW record \in Record,
         pc' = [pc EXCEPT ![t] = x], key' = [key EXCEPT ![t] = k],
         held' = [held EXCEPT ![t] = record],
         used' = used, completed' = completed, pc[t] # "storeUsed",
         x \in CompleteSteps => Completes(record, k),
         x = "fresh" => NotFound(record),
         x = "storeRevoked" => Revokes(record, k)
  PROVE  /\ KeepsCompleting /\ UsedMoves /\ CallsMove
         /\ pc' \in [Calls -> Steps] /\ key' \in [Calls -> RecordKeys]
         /\ held' \in [Calls -> Record]
<1>1. /\ pc'[t] = x /\ key'[t] = k /\ held'[t] = record
      /\ \A s \in Calls \ {t} :
           pc'[s] = pc[s] /\ key'[s] = key[s] /\ held'[s] = held[s]
      /\ pc' \in [Calls -> Steps] /\ key' \in [Calls -> RecordKeys]
      /\ held' \in [Calls -> Record]
  BY DEF IInv, TypeOK
<1>2. KeepsCompleting /\ UsedMoves
  BY <1>1 DEF KeepsCompleting, UsedMoves
<1>3. CallsMove
  <2> SUFFICES ASSUME NEW s \in Calls
               PROVE  /\ pc'[s] \in CompleteSteps => Completes(held'[s], key'[s])
                      /\ pc'[s] = "fresh" => NotFound(held[s])'
                      /\ pc'[s] = "storeRevoked" => Revokes(held'[s], key'[s])
    BY DEF CallsMove
  <2>1. NotFound(held'[s]) => NotFound(held[s])'
    BY DEF NotFound
  <2>2. CASE s = t
    BY <1>1, <2>1, <2>2
  <2>3. CASE s # t
    BY <1>1, <2>1, <2>3 DEF IInv, CallsFit
  <2> QED
    BY <2>2, <2>3
<1> QED
  BY <1>1, <1>2, <1>3

(* The calls stay where they are.                                          *)
LEMMA CallsStay ==
  ASSUME IInv, UNCHANGED <<local, completed>>,
         \A k \in RecordKeys : used'[k] \in {used[k], "written"}
  PROVE  KeepsCompleting /\ UsedMoves /\ CallsMove
<1>1. UNCHANGED <<pc, key, held, completed>>
  BY DEF local
<1>2. \A t \in Calls : pc[t] = "fresh" =>
        Completes(held[t], key[t]) /\ NotFound(held[t])
  BY DEF IInv, CallsFit, CompleteSteps, Iterating
<1>3. \A t \in Calls : pc[t] = "fresh" => NotFound(held[t])'
  <2> SUFFICES ASSUME NEW t \in Calls, pc[t] = "fresh", NEW a \in held[t].by
               PROVE  used'[SafeRecordKey[a.jti]] # a.jti
    BY <1>1 DEF NotFound
  <2>1. a \in Approval
    BY <1>2, AnchorRecordFacts DEF Completes
  <2>2. /\ used[SafeRecordKey[a.jti]] # a.jti /\ a.jti # "written"
        /\ SafeRecordKey[a.jti] \in RecordKeys
    BY <1>2, <2>1, ApprovalFacts, AnchorAssumption DEF NotFound
  <2> QED
    BY <2>2
<1> QED
  BY <1>1, <1>3 DEF KeepsCompleting, UsedMoves, CallsMove, IInv, CallsFit

(* The records stay, or are a caller's.                                    *)
LEMMA RecordsStay ==
  ASSUME IInv, \A k \in RecordKeys : records'[k] \in {records[k], Written}
  PROVE  RecordsMove
<1>1. \A k \in RecordKeys : Good(k, Written) /\ Written.status # "genesis"
  BY AnchorRecordFacts DEF Good
<1> QED
  BY <1>1 DEF IInv, RecordsFit, RecordsMove

(* A call moves and stores nothing.                                        *)
LEMMA QuietMove ==
  ASSUME IInv, NEW t \in Calls, NEW x \in Steps,
         NEW k \in RecordKeys, NEW record \in Record,
         pc' = [pc EXCEPT ![t] = x], key' = [key EXCEPT ![t] = k],
         held' = [held EXCEPT ![t] = record],
         batch' \in [Calls -> BOOLEAN],
         UNCHANGED <<stored, signed>>,
         pc[t] \notin {"storeUsed", "storeGenesis"},
         x \in CompleteSteps => Completes(record, k),
         x = "fresh" => NotFound(record),
         x = "storeRevoked" => Revokes(record, k)
  PROVE  IInv'
<1>1. UNCHANGED <<sealed, records, used, completed, approvals, expired, outdated>>
  BY DEF stored, signed
<1>2. /\ KeepsCompleting /\ UsedMoves /\ CallsMove
      /\ pc' \in [Calls -> Steps] /\ key' \in [Calls -> RecordKeys]
      /\ held' \in [Calls -> Record]
  BY <1>1, CallMoves
<1>3. RecordsMove
  BY <1>1, RecordsStay
<1>4. TypeOK'
  BY <1>1, <1>2 DEF IInv, TypeOK
<1>5. GenesisHolds'
  <2>1. \A s \in Calls : pc[s] = "storeGenesis" => pc'[s] = "storeGenesis"
    BY DEF IInv, TypeOK
  <2> QED
    BY <1>1, <2>1 DEF IInv, GenesisHolds
<1> QED
  BY <1>2, <1>3, <1>4, <1>5, MovesKeep DEF Moves

(* What Go and Return do to the call.                                      *)
LEMMA GoFacts ==
  ASSUME TypeOK, NEW t \in Calls, NEW x, Go(t, x)
  PROVE  /\ pc' = [pc EXCEPT ![t] = x]
         /\ key' = [key EXCEPT ![t] = key[t]]
         /\ held' = [held EXCEPT ![t] = held[t]]
         /\ batch' \in [Calls -> BOOLEAN]
         /\ key[t] \in RecordKeys /\ held[t] \in Record
BY DEF TypeOK, Go

LEMMA ReturnFacts ==
  ASSUME TypeOK, NEW t \in Calls, Return(t)
  PROVE  /\ pc' = [pc EXCEPT ![t] = "idle"]
         /\ key' = [key EXCEPT ![t] = GenesisKey]
         /\ held' = [held EXCEPT ![t] = NoRecord]
         /\ batch' \in [Calls -> BOOLEAN]
         /\ GenesisKey \in RecordKeys /\ NoRecord \in Record
         /\ "idle" \in Steps \ (CompleteSteps \cup {"storeRevoked"})
BY AnchorRecordFacts DEF TypeOK, Return, Clear, Steps, CompleteSteps, Iterating

(* A call that stores nothing returns.                                     *)
LEMMA QuietReturn ==
  ASSUME IInv, NEW t \in Calls, Return(t), UNCHANGED <<stored, signed>>,
         pc[t] \notin {"storeUsed", "storeGenesis"}
  PROVE  IInv'
<1>1. TypeOK
  BY DEF IInv
<1>2. /\ pc' = [pc EXCEPT ![t] = "idle"]
      /\ key' = [key EXCEPT ![t] = GenesisKey]
      /\ held' = [held EXCEPT ![t] = NoRecord]
      /\ batch' \in [Calls -> BOOLEAN]
      /\ GenesisKey \in RecordKeys /\ NoRecord \in Record
      /\ "idle" \in Steps \ (CompleteSteps \cup {"storeRevoked"})
  BY <1>1, ReturnFacts
<1>3. "idle" # "fresh"
  OBVIOUS
<1> QED
  BY <1>2, <1>3, QuietMove

-----------------------------------------------------------------------------
(* A genesis begins, looks at the seal again, stores seal and record.      *)
LEMMA GenesisStep ==
  ASSUME IInv, NEW t \in Calls,
         genesis(t) \/ performGenesis(t) \/ storeSeal(t) \/ storeGenesis(t)
  PROVE  IInv'
<1>0. TypeOK /\ GenesisHolds
  BY DEF IInv
<1>1. /\ {"perform", "storeSeal", "storeGenesis", "mutate"} \subseteq
           Steps \ (CompleteSteps \cup {"storeRevoked"})
      /\ "fresh" \in CompleteSteps
  BY DEF Steps, GenesisSteps, CompleteSteps, Iterating
<1>2. CASE genesis(t)
  <2>1. /\ Begin(t, "perform", GenesisKey, GenesisRecord)
        /\ UNCHANGED <<stored, signed>>
        /\ GenesisKey \in RecordKeys /\ GenesisRecord \in Record
        /\ batch \in [Calls -> BOOLEAN]
    BY <1>0, <1>2, AnchorRecordFacts DEF genesis, TypeOK
  <2> QED
    BY <1>1, <2>1, QuietMove DEF Begin
<1>3. CASE performGenesis(t)
  <2>1. /\ pc[t] = "perform" /\ UNCHANGED <<stored, signed>>
        /\ Go(t, "storeSeal") \/ Return(t)
    BY <1>3 DEF performGenesis
  <2>2. CASE Go(t, "storeSeal")
    BY <1>0, <1>1, <2>1, <2>2, GoFacts, QuietMove
  <2>3. CASE Return(t)
    BY <2>1, <2>3, QuietReturn
  <2> QED
    BY <2>1, <2>2, <2>3
<1>4. CASE storeSeal(t)
  <2>1. /\ pc[t] = "storeSeal" /\ Go(t, "storeGenesis") /\ sealed' = TRUE
        /\ UNCHANGED <<records, used, completed, approvals, expired, outdated>>
    BY <1>4 DEF storeSeal, signed
  <2>2. /\ KeepsCompleting /\ UsedMoves /\ CallsMove
        /\ pc' \in [Calls -> Steps] /\ key' \in [Calls -> RecordKeys]
        /\ held' \in [Calls -> Record] /\ batch' \in [Calls -> BOOLEAN]
    BY <1>0, <1>1, <2>1, GoFacts, CallMoves
  <2>3. TypeOK'
    BY <1>0, <2>1, <2>2 DEF TypeOK
  <2>4. GenesisHolds'
    BY <1>0, <2>1 DEF GenesisHolds, Go, TypeOK
  <2> QED
    BY <2>1, <2>2, <2>3, <2>4, RecordsStay, MovesKeep DEF Moves
<1>5. CASE storeGenesis(t)
  <2>1. /\ pc[t] = "storeGenesis" /\ (Go(t, "mutate") \/ Return(t))
        /\ records' = [records EXCEPT ![GenesisKey] = GenesisRecord]
        /\ UNCHANGED <<sealed, used, completed, approvals, expired, outdated>>
    BY <1>5 DEF storeGenesis, signed
  <2>2. /\ KeepsCompleting /\ UsedMoves /\ CallsMove
        /\ pc' \in [Calls -> Steps] /\ key' \in [Calls -> RecordKeys]
        /\ held' \in [Calls -> Record] /\ batch' \in [Calls -> BOOLEAN]
    <3>1. CASE Go(t, "mutate")
      BY <1>0, <1>1, <2>1, <3>1, GoFacts, CallMoves
    <3>2. CASE Return(t)
      <4>1. "idle" # "fresh"
        OBVIOUS
      <4> QED
        BY <1>0, <2>1, <3>2, <4>1, ReturnFacts, CallMoves
    <3> QED
      BY <2>1, <3>1, <3>2
  <2>3. /\ records'[GenesisKey] = GenesisRecord
        /\ \A k \in RecordKeys \ {GenesisKey} : records'[k] = records[k]
        /\ records' \in [RecordKeys -> Record]
    BY <1>0, <2>1, AnchorRecordFacts DEF TypeOK
  <2>4. TypeOK'
    BY <1>0, <2>1, <2>2, <2>3 DEF TypeOK
  <2>5. RecordsMove
    <3>1. Good(GenesisKey, GenesisRecord)
      BY AnchorRecordFacts DEF Good
    <3> QED
      BY <2>3, <3>1 DEF IInv, RecordsFit, RecordsMove
  <2>6. GenesisHolds'
    BY <2>3, AnchorRecordFacts DEF GenesisHolds
  <2> QED
    BY <2>2, <2>4, <2>5, <2>6, MovesKeep DEF Moves
<1> QED
  BY <1>2, <1>3, <1>4, <1>5

(* A caller's record takes the place of others, and may show in what a     *)
(* revoke holds.                                                           *)
LEMMA WriteRecordsStep ==
  ASSUME IInv, NEW K \in SUBSET RecordKeys, WriteRecords(K)
  PROVE  IInv'
<1>0. TypeOK /\ GenesisHolds
  BY DEF IInv
<1>1. /\ UNCHANGED <<sealed, used, completed, pc, key, batch>>
      /\ UNCHANGED <<approvals, expired, outdated>>
      /\ records' = [k \in RecordKeys |-> IF k \in K THEN Written ELSE records[k]]
  BY DEF WriteRecords, signed
<1>2. /\ held' \in [Calls -> Record]
      /\ \A s \in Calls : \/ held'[s] = held[s]
                          \/ pc[s] = "storeRevoked" /\ held'[s] = Written
  BY <1>0, AnchorRecordFacts DEF WriteRecords, TypeOK
<1>3. /\ records' \in [RecordKeys -> Record]
      /\ \A k \in RecordKeys : records'[k] \in {records[k], Written}
  BY <1>0, <1>1, AnchorRecordFacts DEF TypeOK
<1>4. TypeOK'
  BY <1>0, <1>1, <1>2, <1>3 DEF TypeOK
<1>5. KeepsCompleting /\ UsedMoves
  BY <1>1, <1>2 DEF KeepsCompleting, UsedMoves
<1>6. CallsMove
  <2> SUFFICES ASSUME NEW s \in Calls
               PROVE  /\ pc'[s] \in CompleteSteps => Completes(held'[s], key'[s])
                      /\ pc'[s] = "fresh" => NotFound(held[s])'
                      /\ pc'[s] = "storeRevoked" => Revokes(held'[s], key'[s])
    BY DEF CallsMove
  <2>1. NotFound(held'[s]) => NotFound(held[s])'
    BY <1>1 DEF NotFound
  <2>2. CASE held'[s] = held[s]
    BY <1>1, <2>1, <2>2 DEF IInv, CallsFit
  <2>3. CASE pc[s] = "storeRevoked" /\ held'[s] = Written
    <3>1. Revokes(Written, key[s])
      BY <2>3, AnchorRecordFacts DEF IInv, CallsFit, Revokes, Good
    <3> QED
      BY <1>1, <2>3, <3>1 DEF CompleteSteps, Iterating
  <2> QED
    BY <1>2, <2>2, <2>3
<1>7. GenesisHolds'
  BY <1>0, <1>1, <1>3, AnchorRecordFacts DEF GenesisHolds
<1> QED
  BY <1>3, <1>4, <1>5, <1>6, <1>7, RecordsStay, MovesKeep DEF Moves

(* A caller's value takes the place of used JTIs; what calls iterate over  *)
(* may be raced.                                                           *)
LEMMA WriteUsedStep ==
  ASSUME IInv, NEW K \in SUBSET RecordKeys,
         WriteUsed(K, Raced(pc)) \/ WriteUsed(K, pc)
  PROVE  IInv'
<1>0. TypeOK /\ GenesisHolds
  BY DEF IInv
<1>1. /\ UNCHANGED <<sealed, records, completed, key, held, batch>>
      /\ UNCHANGED <<approvals, expired, outdated>>
      /\ used' = [k \in RecordKeys |-> IF k \in K THEN "written" ELSE used[k]]
      /\ pc' = pc \/ pc' = Raced(pc)
  BY DEF WriteUsed, signed
<1>2. /\ pc' \in [Calls -> Steps]
      /\ \A s \in Calls : \/ pc'[s] = pc[s]
                          \/ pc[s] \in Iterating /\ pc'[s] = "raced"
  BY <1>0, <1>1 DEF TypeOK, Raced, Steps, CompleteSteps, Iterating
<1>3. /\ used' \in [RecordKeys -> JTIs \cup {"none", "written"}]
      /\ \A k \in RecordKeys : used'[k] \in {used[k], "written"}
  BY <1>0, <1>1 DEF TypeOK
<1>4. TypeOK'
  BY <1>0, <1>1, <1>2, <1>3 DEF TypeOK
<1>5. KeepsCompleting /\ UsedMoves
  BY <1>1, <1>2, <1>3 DEF KeepsCompleting, UsedMoves, Iterating
<1>6. CallsMove
  <2> SUFFICES ASSUME NEW s \in Calls
               PROVE  /\ pc'[s] \in CompleteSteps => Completes(held'[s], key'[s])
                      /\ pc'[s] = "fresh" => NotFound(held[s])'
                      /\ pc'[s] = "storeRevoked" => Revokes(held'[s], key'[s])
    BY DEF CallsMove
  <2>1. \/ pc'[s] = pc[s]
        \/ pc[s] \in CompleteSteps /\ pc'[s] \notin {"fresh", "storeRevoked"}
    BY <1>2 DEF CompleteSteps, Iterating
  <2>2. pc'[s] = "fresh" => NotFound(held[s])'
    <3> SUFFICES ASSUME pc[s] = "fresh", NEW a \in held[s].by
                 PROVE  used'[SafeRecordKey[a.jti]] # a.jti
      BY <1>1, <2>1 DEF NotFound
    <3>1. a \in Approval
      BY AnchorRecordFacts DEF IInv, CallsFit, CompleteSteps, Iterating, Completes
    <3>2. /\ used[SafeRecordKey[a.jti]] # a.jti /\ a.jti # "written"
          /\ SafeRecordKey[a.jti] \in RecordKeys
      BY <3>1, ApprovalFacts, AnchorAssumption DEF IInv, CallsFit, NotFound
    <3> QED
      BY <1>3, <3>2
  <2> QED
    BY <1>1, <2>1, <2>2 DEF IInv, CallsFit
<1>7. GenesisHolds'
  <2>1. \A s \in Calls : pc[s] = "storeGenesis" => pc'[s] = "storeGenesis"
    BY <1>2 DEF Iterating
  <2> QED
    BY <1>0, <1>1, <2>1 DEF GenesisHolds
<1> QED
  BY <1>1, <1>4, <1>5, <1>6, <1>7, RecordsStay, MovesKeep DEF Moves

(* identityLinks as a whole is a caller's.                                 *)
LEMMA WriteLinksStep ==
  ASSUME IInv, WriteLinks
  PROVE  IInv'
<1>0. TypeOK
  BY DEF IInv
<1>1. /\ UNCHANGED <<completed, local, pc, key, held, batch>>
      /\ UNCHANGED <<approvals, expired, outdated>>
      /\ sealed' \in BOOLEAN
      /\ records' = [k \in RecordKeys |-> Written]
      /\ used' = [k \in RecordKeys |-> "written"]
  BY DEF WriteLinks, signed, local
<1>2. TypeOK'
  BY <1>0, <1>1, AnchorRecordFacts DEF TypeOK
<1>3. KeepsCompleting /\ UsedMoves /\ CallsMove
  BY <1>1, CallsStay
<1>4. GenesisHolds'
  BY <1>1, AnchorRecordFacts DEF GenesisHolds
<1> QED
  BY <1>1, <1>2, <1>3, <1>4, RecordsStay, MovesKeep DEF Moves

LEMMA WriteStep == IInv /\ Write => IInv'
<1> SUFFICES ASSUME IInv, Write PROVE IInv'
  OBVIOUS
<1>1. ASSUME NEW k \in RecordKeys,
             WriteRecords({k}) \/ WriteUsed({k}, Raced(pc))
      PROVE  IInv'
  <2>1. {k} \in SUBSET RecordKeys
    OBVIOUS
  <2> QED
    BY <1>1, <2>1, WriteRecordsStep, WriteUsedStep
<1>2. RecordKeys \in SUBSET RecordKeys
  OBVIOUS
<1> QED
  BY <1>1, <1>2, WriteRecordsStep, WriteUsedStep, WriteLinksStep DEF Write

(* A batchPersist begins, mutates, and ends.                               *)
LEMMA BatchStep ==
  ASSUME IInv, NEW t \in Calls, batchPersist(t) \/ mutate(t)
  PROVE  IInv'
<1>0. TypeOK
  BY DEF IInv
<1>1. CASE batchPersist(t)
  <2>1. PICK x \in {"mutate", "perform"} :
          /\ pc' = [pc EXCEPT ![t] = x] /\ pc[t] = "idle"
          /\ batch' = [batch EXCEPT ![t] = TRUE]
          /\ UNCHANGED <<stored, signed, key, held>>
    BY <1>1 DEF batchPersist
  <2>2. /\ x \in Steps /\ x \notin CompleteSteps /\ x # "storeRevoked"
        /\ x # "fresh"
        /\ key[t] \in RecordKeys /\ key' = [key EXCEPT ![t] = key[t]]
        /\ held[t] \in Record /\ held' = [held EXCEPT ![t] = held[t]]
        /\ batch' \in [Calls -> BOOLEAN]
    BY <1>0, <2>1 DEF TypeOK, Steps, GenesisSteps, CompleteSteps, Iterating
  <2>3. UNCHANGED <<stored, signed>>
    BY <2>1
  <2>4. pc[t] \notin {"storeUsed", "storeGenesis"}
    BY <2>1
  <2>5. pc' = [pc EXCEPT ![t] = x]
    BY <2>1
  <2> QED
    BY ONLY IInv, <2>2, <2>3, <2>4, <2>5, QuietMove
<1>2. CASE mutate(t)
  BY <1>2, WriteStep, QuietReturn DEF mutate
<1> QED
  BY <1>1, <1>2

(* An approval is signed, or time passes.                                  *)
LEMMA SignedStep ==
  ASSUME IInv, UNCHANGED <<stored, local>>,
         approvals' \subseteq Approval, expired' \subseteq Approval,
         outdated' \subseteq Requests
  PROVE  IInv'
<1>1. UNCHANGED <<sealed, records, used, completed, pc, key, held, batch>>
  BY DEF stored, local
<1>2. TypeOK' /\ GenesisHolds'
  BY <1>1 DEF IInv, TypeOK, GenesisHolds
<1>3. KeepsCompleting /\ UsedMoves /\ CallsMove
  BY <1>1, CallsStay
<1> QED
  BY <1>1, <1>2, <1>3, RecordsStay, MovesKeep DEF Moves

(* A completion begins: what it will store fits.                           *)
LEMMA CompleteStep ==
  ASSUME IInv, NEW t \in Calls, NEW a \in approvals, NEW m \in approvals,
         NEW holder \in Identities, complete(t, a, m, holder)
  PROVE  IInv'
<1>1. a \in Approval /\ batch \in [Calls -> BOOLEAN]
  BY DEF IInv, TypeOK
<1>2. /\ Begin(t, "read", SafeRecordKey[a.id], LinkOf(a))
      /\ UNCHANGED <<stored, signed>> /\ Fit(a)
  BY <1>1 DEF complete, validateApproval, Fit
<1>3. SafeRecordKey[a.id] \in RecordKeys /\ LinkOf(a) \in Record
  BY <1>1, ApprovalFacts, AnchorRecordFacts
<1>4. Completes(LinkOf(a), SafeRecordKey[a.id])
  BY <1>1, <1>2 DEF Completes
<1>5. "read" \in Steps /\ "read" \notin {"fresh", "storeRevoked"}
  BY DEF Steps, CompleteSteps
<1> QED
  BY <1>1, <1>2, <1>3, <1>4, <1>5, QuietMove DEF Begin

(* It reads the used JTIs, and goes on or ends.                            *)
LEMMA VerifyStep ==
  ASSUME IInv, NEW t \in Calls, usedApprovalJTIs(t) \/ VerifyCompletion(t)
  PROVE  IInv'
<1>0. TypeOK /\ CallsFit
  BY DEF IInv
<1>1. UNCHANGED <<stored, signed>> /\ pc[t] \in CompleteSteps
      /\ pc[t] \notin {"storeUsed", "storeGenesis"}
  BY DEF usedApprovalJTIs, VerifyCompletion, CompleteSteps, Iterating
<1>2. Completes(held[t], key[t])
  BY <1>0, <1>1 DEF CallsFit
<1>3. {"fresh", "spent", "storeRecord"} \subseteq Steps \ {"storeRevoked"}
  BY DEF Steps, CompleteSteps, Iterating
<1>4. CASE Go(t, "fresh") /\ ~replayDetected(t)
  <2>1. NotFound(held[t])
    BY <1>2, ApprovalFacts, AnchorRecordFacts, <1>4
       DEF replayDetected, NotFound, Completes
  <2> QED
    BY <1>0, <1>1, <1>2, <1>3, <1>4, <2>1, GoFacts, QuietMove
<1>5. CASE Go(t, "spent") \/ Go(t, "storeRecord")
  <2>1. PICK x \in {"spent", "storeRecord"} : Go(t, x)
    BY <1>5
  <2> QED
    BY <1>0, <1>1, <1>2, <1>3, <2>1, GoFacts, QuietMove
<1>6. CASE Return(t)
  BY <1>1, <1>6, QuietReturn
<1> QED
  BY <1>4, <1>5, <1>6 DEF usedApprovalJTIs, VerifyCompletion

(* Its record is stored while its JTI is yet to be.                        *)
LEMMA StoreRecordStep ==
  ASSUME IInv, NEW t \in Calls, storeRecord(t)
  PROVE  IInv'
<1>0. TypeOK /\ GenesisHolds /\ CallsFit
  BY DEF IInv
<1>1. /\ pc[t] = "storeRecord" /\ Go(t, "storeUsed")
      /\ records' = [records EXCEPT ![key[t]] = held[t]]
      /\ UNCHANGED <<sealed, used, completed, approvals, expired, outdated>>
  BY DEF storeRecord, signed
<1>2. PICK a \in Approval :
        held[t] = LinkOf(a) /\ SafeRecordKey[a.id] = key[t] /\ Fit(a)
  BY <1>0, <1>1 DEF CallsFit, CompleteSteps, Completes
<1>3. "storeUsed" \in Steps /\ "storeUsed" \notin {"fresh", "storeRevoked"}
  BY DEF Steps, CompleteSteps
<1>4. /\ KeepsCompleting /\ UsedMoves /\ CallsMove
      /\ pc' \in [Calls -> Steps] /\ key' \in [Calls -> RecordKeys]
      /\ held' \in [Calls -> Record] /\ batch' \in [Calls -> BOOLEAN]
  <2>1. Completes(held[t], key[t])
    BY <1>2 DEF Completes
  <2> QED
    BY <1>0, <1>1, <1>3, <2>1, GoFacts, CallMoves
<1>5. /\ records' \in [RecordKeys -> Record]
      /\ key[t] \in RecordKeys /\ records'[key[t]] = LinkOf(a)
      /\ \A k \in RecordKeys \ {key[t]} : records'[k] = records[k]
  BY <1>0, <1>1, <1>2 DEF TypeOK
<1>6. TypeOK'
  BY <1>0, <1>1, <1>4, <1>5 DEF TypeOK
<1>7. Completing(a)'
  <2>1. pc'[t] = "storeUsed" /\ held'[t] = LinkOf(a)
    BY <1>0, <1>1, <1>2 DEF Go, TypeOK
  <2> QED
    BY <1>2, <2>1, AnchorRecordFacts DEF Completing
<1>8. RecordsMove
  BY <1>2, <1>5, <1>7, AnchorRecordFacts DEF IInv, RecordsFit, RecordsMove
<1>9. GenesisHolds'
  <2>1. \A s \in Calls : pc[s] = "storeGenesis" => pc'[s] = "storeGenesis"
    BY <1>0, <1>1 DEF Go, TypeOK
  <2>2. CASE key[t] # GenesisKey
    BY <1>0, <1>1, <1>5, <2>1, <2>2, AnchorRecordFacts DEF GenesisHolds
  <2>3. CASE key[t] = GenesisKey
    <3>1. a.id = Genesis
      BY <1>2, <2>3, ApprovalFacts, AnchorAssumption DEF GenesisKey
    <3> QED
      BY <1>5, <2>3, <3>1, AnchorRecordFacts DEF GenesisHolds
  <2> QED
    BY <2>2, <2>3
<1> QED
  BY <1>4, <1>6, <1>8, <1>9, MovesKeep DEF Moves

(* Its JTI is stored, and races those who iterate.                         *)
LEMMA StoreUsedStep ==
  ASSUME IInv, NEW t \in Calls, storeUsed(t)
  PROVE  IInv'
<1>0. TypeOK /\ GenesisHolds /\ CallsFit
  BY DEF IInv
<1>1. /\ pc[t] = "storeUsed" /\ Clear(t)
      /\ pc' = Raced([pc EXCEPT ![t] = "idle"])
      /\ UNCHANGED <<sealed, records, approvals, expired, outdated>>
  BY DEF storeUsed, signed
<1>2. PICK a \in Approval : held[t] = LinkOf(a)
  BY <1>0, <1>1 DEF CallsFit, CompleteSteps, Completes
<1>3. PICK j \in JTIs, k \in RecordKeys : j = a.jti /\ k = SafeRecordKey[j]
  BY ApprovalFacts
<1>4. held[t].by = {a}
  BY <1>2, AnchorRecordFacts
<1>5. /\ used' = [used EXCEPT ![k] = j]
      /\ completed' = completed \cup {j}
  BY <1>3, <1>4 DEF storeUsed
<1>6. /\ pc' \in [Calls -> Steps]
      /\ pc'[t] = "idle" /\ held'[t] = NoRecord
      /\ \A s \in Calls \ {t} :
           /\ key'[s] = key[s] /\ held'[s] = held[s]
           /\ \/ pc'[s] = pc[s] /\ pc[s] \notin Iterating
              \/ pc[s] \in Iterating /\ pc'[s] = "raced"
      /\ key' \in [Calls -> RecordKeys] /\ held' \in [Calls -> Record]
      /\ batch' \in [Calls -> BOOLEAN]
  <2>1. "idle" \in Steps \ Iterating /\ "raced" \in Steps
    BY DEF Steps, CompleteSteps, Iterating
  <2>2. [pc EXCEPT ![t] = "idle"] \in [Calls -> Steps]
        /\ [pc EXCEPT ![t] = "idle"][t] = "idle"
        /\ \A s \in Calls \ {t} : [pc EXCEPT ![t] = "idle"][s] = pc[s]
    BY <1>0, <2>1 DEF TypeOK
  <2>3. /\ pc' \in [Calls -> Steps] /\ pc'[t] = "idle"
        /\ \A s \in Calls \ {t} :
             \/ pc'[s] = pc[s] /\ pc[s] \notin Iterating
             \/ pc[s] \in Iterating /\ pc'[s] = "raced"
    <3>1. PICK before : before = [pc EXCEPT ![t] = "idle"]
      OBVIOUS
    <3>2. pc' = [s \in Calls |-> IF before[s] \in Iterating THEN "raced"
                                                            ELSE before[s]]
      BY <1>1, <3>1 DEF Raced
    <3> QED
      BY <2>1, <2>2, <3>1, <3>2
  <2>4. /\ key' = [key EXCEPT ![t] = GenesisKey]
        /\ held' = [held EXCEPT ![t] = NoRecord]
        /\ batch' = [batch EXCEPT ![t] = FALSE]
    BY <1>1 DEF Clear
  <2>5. held'[t] = NoRecord
        /\ \A s \in Calls \ {t} : key'[s] = key[s] /\ held'[s] = held[s]
    BY <1>0, <2>4 DEF TypeOK
  <2>6. /\ key' \in [Calls -> RecordKeys] /\ held' \in [Calls -> Record]
        /\ batch' \in [Calls -> BOOLEAN]
    BY <1>0, <2>4, AnchorRecordFacts DEF TypeOK
  <2> QED
    BY <2>3, <2>5, <2>6
<1>7. /\ used' \in [RecordKeys -> JTIs \cup {"none", "written"}]
      /\ used'[k] = j /\ \A l \in RecordKeys \ {k} : used'[l] = used[l]
  BY <1>0, <1>5 DEF TypeOK
<1>8. TypeOK'
  <2>1. completed' \subseteq JTIs
    BY <1>0, <1>5 DEF TypeOK
  <2> QED
    BY <1>0, <1>1, <1>6, <1>7, <2>1 DEF TypeOK
<1>9. KeepsCompleting
  <2>1. completed \subseteq completed' /\ j \in completed'
    BY <1>5
  <2>2. \A s \in Calls \ {t} : pc[s] = "storeUsed" =>
          pc'[s] = "storeUsed" /\ held'[s] = held[s]
    BY <1>6 DEF Iterating
  <2> QED
    BY <1>3, <1>4, <2>1, <2>2 DEF KeepsCompleting
<1>10. UsedMoves
  BY <1>3, <1>5, <1>7 DEF UsedMoves
<1>11. CallsMove
  <2> SUFFICES ASSUME NEW s \in Calls
               PROVE  /\ pc'[s] \in CompleteSteps => Completes(held'[s], key'[s])
                      /\ pc'[s] # "fresh"
                      /\ pc'[s] = "storeRevoked" => Revokes(held'[s], key'[s])
    BY DEF CallsMove
  <2>1. CASE s = t
    BY <1>6, <2>1 DEF CompleteSteps, Iterating
  <2>2. CASE s # t
    <3>1. Iterating \subseteq CompleteSteps /\ "fresh" \in Iterating
      BY DEF CompleteSteps, Iterating
    <3> QED
      BY <1>0, <1>6, <2>2, <3>1 DEF CallsFit
  <2> QED
    BY <2>1, <2>2
<1>12. GenesisHolds'
  <2>1. \A s \in Calls : pc[s] = "storeGenesis" => pc'[s] = "storeGenesis"
    BY <1>1, <1>6 DEF Iterating
  <2> QED
    BY <1>0, <1>1, <2>1 DEF GenesisHolds
<1> QED
  BY <1>1, <1>8, <1>9, <1>10, <1>11, <1>12, RecordsStay, MovesKeep DEF Moves

(* revoke loads a record, which is a link's or a caller's.                 *)
LEMMA RevokeStep ==
  ASSUME IInv, NEW t \in Calls, NEW id \in LinkIDs, revoke(t, id)
  PROVE  IInv'
<1>1. PICK k \in RecordKeys : k = SafeRecordKey[id]
  BY AnchorAssumption
<1>2. /\ records[k] \in Record /\ records[k].status # "none"
      /\ Begin(t, "storeRevoked", k, Revoked(records[k]))
      /\ UNCHANGED <<stored, signed>> /\ id # Genesis
      /\ batch \in [Calls -> BOOLEAN]
  BY <1>1, AnchorAssumption DEF IInv, TypeOK, revoke
<1>3. k # GenesisKey
  BY <1>1, <1>2, AnchorAssumption DEF GenesisKey
<1>4. /\ Revoked(records[k]) \in Record
      /\ Revoked(records[k]).by = records[k].by
      /\ Revoked(records[k]).status # "genesis"
      /\ Revoked(records[k]).status \in {"active", "revoked"} =>
           records[k].status \in {"active", "revoked"}
  <2>1. /\ Revoked(records[k]) \in Record
        /\ Revoked(records[k]).by = records[k].by
        /\ Revoked(records[k]).status \in {"written", "revoked"}
        /\ Revoked(records[k]).status = "written" <=>
             records[k].status = "written"
    BY <1>2, AnchorRecordFacts
  <2>2. records[k].status \in {"written", "active", "revoked"}
    BY <1>2, <1>3 DEF Record, IInv, RecordsFit
  <2> QED
    BY <2>1, <2>2
<1>5. Revokes(Revoked(records[k]), k)
  BY <1>3, <1>4 DEF IInv, RecordsFit, Good, Revokes
<1>6. "storeRevoked" \in Steps /\ "storeRevoked" \notin CompleteSteps
      /\ "storeRevoked" # "fresh"
  BY DEF Steps, CompleteSteps, Iterating
<1> QED
  BY <1>2, <1>4, <1>5, <1>6, QuietMove DEF Begin

(* It stores the record as revoked.                                        *)
LEMMA StoreRevokedStep ==
  ASSUME IInv, NEW t \in Calls, storeRevoked(t)
  PROVE  IInv'
<1>0. TypeOK /\ GenesisHolds /\ CallsFit
  BY DEF IInv
<1>1. /\ pc[t] = "storeRevoked" /\ Return(t)
      /\ records' = [records EXCEPT ![key[t]] = held[t]]
      /\ UNCHANGED <<sealed, used, completed, approvals, expired, outdated>>
  BY DEF storeRevoked, signed
<1>2. Revokes(held[t], key[t])
  BY <1>0, <1>1 DEF CallsFit
<1>3. /\ KeepsCompleting /\ UsedMoves /\ CallsMove
      /\ pc' \in [Calls -> Steps] /\ key' \in [Calls -> RecordKeys]
      /\ held' \in [Calls -> Record] /\ batch' \in [Calls -> BOOLEAN]
  <2>1. "idle" # "fresh"
    OBVIOUS
  <2> QED
    BY <1>0, <1>1, <2>1, ReturnFacts, CallMoves
<1>4. /\ records' \in [RecordKeys -> Record]
      /\ key[t] \in RecordKeys /\ records'[key[t]] = held[t]
      /\ \A k \in RecordKeys \ {key[t]} : records'[k] = records[k]
  BY <1>0, <1>1 DEF TypeOK
<1>5. TypeOK'
  BY <1>0, <1>1, <1>3, <1>4 DEF TypeOK
<1>6. RecordsMove
  BY <1>2, <1>4 DEF IInv, RecordsFit, RecordsMove, Revokes
<1>7. GenesisHolds'
  <2>1. \A s \in Calls : pc[s] = "storeGenesis" => pc'[s] = "storeGenesis"
    BY <1>0, <1>1 DEF Return, TypeOK
  <2>2. records'[GenesisKey] = records[GenesisKey]
    BY <1>2, <1>4, AnchorRecordFacts DEF Revokes
  <2> QED
    BY <1>0, <1>1, <2>1, <2>2 DEF GenesisHolds
<1> QED
  BY <1>3, <1>5, <1>6, <1>7, MovesKeep DEF Moves

-----------------------------------------------------------------------------
(* Every step keeps the invariant.                                         *)
LEMMA NextIInv == IInv /\ [Next]_vars => IInv'
<1> SUFFICES ASSUME IInv, [Next]_vars PROVE IInv'
  OBVIOUS
<1>0. /\ approvals \subseteq Approval /\ expired \subseteq Approval
      /\ outdated \subseteq Requests
  BY DEF IInv, TypeOK
<1>1. ASSUME NEW a \in Approval, approve(a) \/ signElsewhere(a)
      PROVE  IInv'
  <2>1. /\ UNCHANGED <<stored, local, expired, outdated>>
        /\ approvals' \subseteq Approval
    BY <1>0, <1>1 DEF approve, signElsewhere, Sign
  <2> QED
    BY <1>0, <2>1, SignedStep
<1>2. ASSUME NEW a \in approvals, ExpireApproval(a)
      PROVE  IInv'
  <2>1. /\ UNCHANGED <<stored, local, approvals, outdated>>
        /\ expired' \subseteq Approval
    BY <1>0, <1>2 DEF ExpireApproval
  <2> QED
    BY <1>0, <2>1, SignedStep
<1>3. ASSUME NEW request \in Requests, ExpireRequest(request)
      PROVE  IInv'
  <2>1. /\ UNCHANGED <<stored, local, approvals, expired>>
        /\ outdated' \subseteq Requests
    BY <1>0, <1>3 DEF ExpireRequest
  <2> QED
    BY <1>0, <2>1, SignedStep
<1>4. CASE UNCHANGED vars
  <2>1. UNCHANGED <<stored, local, approvals, expired, outdated>>
    BY <1>4 DEF vars, signed
  <2> QED
    BY <1>0, <2>1, SignedStep
<1>5. CASE \E t \in Calls :
             \/ genesis(t) \/ performGenesis(t) \/ storeSeal(t) \/ storeGenesis(t)
             \/ batchPersist(t) \/ mutate(t)
             \/ usedApprovalJTIs(t) \/ VerifyCompletion(t)
             \/ storeRecord(t) \/ storeUsed(t) \/ storeRevoked(t)
             \/ \E id \in LinkIDs : revoke(t, id)
             \/ \E a, m \in approvals, holder \in Identities :
                  complete(t, a, m, holder)
  BY <1>5, GenesisStep, BatchStep, VerifyStep, StoreRecordStep, StoreUsedStep,
     StoreRevokedStep, RevokeStep, CompleteStep
<1>6. CASE setEntity
  BY <1>6, WriteStep DEF setEntity
<1> QED
  BY <1>1, <1>2, <1>3, <1>4, <1>5, <1>6 DEF Next

LEMMA SpecIInv == Spec => []IInv
  BY InitIInv, NextIInv, PTL DEF Spec

(* Every variable has its type in every reachable state.                   *)
THEOREM TypeCorrect == Spec => []TypeOK
  BY SpecIInv, PTL DEF IInv

(* What complete records and revoke changes is the link of an approval     *)
(* with that key whose JTI is used or about to be, and which a key other   *)
(* than the subject's signed, within what was asked for.                   *)
THEOREM ApprovedTheorem == Spec => []LinksAreApproved
<1>1. IInv => LinksAreApproved
  BY DEF IInv, RecordsFit, Good, Fit, UsedUp, LinksAreApproved
<1> QED
  BY <1>1, SpecIInv, PTL

(* The record of a sealed anchor's genesis is not revoked nor missing; it  *)
(* gives way to callers' writes, and to an approval that bears its ID.     *)
THEOREM GenesisTheorem == Spec => []GenesisHolds
<1>1. IInv => GenesisHolds
  BY DEF IInv
<1> QED
  BY <1>1, SpecIInv, PTL

(* completeEnrollment does not accept a JTI that was stored as used again, *)
(* unless its place was taken or a store raced the look at the used ones.  *)
THEOREM OnceTheorem == Spec => CompletesOnce
<1>1. ASSUME IInv, NEW t \in Calls, pc[t] = "fresh", NEW a \in held[t].by,
             a.jti \in completed
      PROVE  Displaced(a.jti)
  BY <1>1 DEF IInv, CallsFit, NotFound, UsedFit
<1>2. IInv /\ [Next]_vars =>
        [\A t \in Calls : pc[t] = "fresh" /\ pc'[t] = "storeRecord" =>
           \A a \in held[t].by :
             a.jti \notin completed \/ Displaced(a.jti)]_vars
  BY <1>1
<1> QED
  BY <1>2, SpecIInv, PTL DEF Spec, CompletesOnce

-----------------------------------------------------------------------------
(* The cells of EntityExtension.                                           *)

(* Who asked for approval n.                                               *)
Asker(n) == requests[granted[n].request].from

(* A place asks for itself only.                                           *)
OwnRequests == \A p \in Places : \A r \in outgoing[p] : requests[r].from = p

(* A record is of the identity that asked, at it or at the approver; one   *)
(* that was made by a form is of the place that holds it, and its          *)
(* signature was not checked under the key of a place.                     *)
Fits(p, record) ==
    /\ record.checked => record.approval # 0
    /\ record.approval = 0 => record.identity = p
    /\ record.approval # 0 =>
         /\ record.identity = Asker(record.approval)
         /\ p \in {record.identity, granted[record.approval].issuer}

LinksFit == \A p \in Places : \A record \in links[p] : Fits(p, record)

(* Who approves for another keeps a record of that approval or of a later  *)
(* one; one who approves for itself may accept an older approval after it. *)
ApproverHolds ==
    \A n \in DOMAIN granted : Asker(n) # granted[n].issuer =>
      \E record \in links[granted[n].issuer] :
        record.identity = Asker(n) /\ record.approval >= n

ExtensionInv ==
    ExtensionTypeOK /\ OneLiveLink
    /\ OwnRequests /\ LinksFit /\ ApproverHolds

(* A sequence and what is appended to it.                                  *)
LEMMA Appended ==
  ASSUME NEW S, NEW s \in Seq(S), NEW e \in S
  PROVE  /\ Append(s, e) \in Seq(S)
         /\ Len(s) \in Nat /\ DOMAIN s = 1..Len(s)
         /\ DOMAIN Append(s, e) = 1..(Len(s) + 1)
         /\ Append(s, e)[Len(s) + 1] = e
         /\ \A n \in DOMAIN s : n \in DOMAIN Append(s, e)
                                /\ Append(s, e)[n] = s[n]
OBVIOUS

(* The packets that numbers stand for.                                     *)
LEMMA PacketFacts ==
  ASSUME ExtensionTypeOK
  PROVE  /\ \A r \in DOMAIN requests : r \in Nat /\ requests[r].from \in Places
         /\ \A n \in DOMAIN granted :
              n \in Nat /\ granted[n].issuer \in Places
              /\ granted[n].request \in DOMAIN requests
         /\ Len(granted) \in Nat
<1>1. /\ \A r \in DOMAIN requests : r \in Nat /\ requests[r] \in Request
      /\ \A n \in DOMAIN granted : n \in Nat /\ granted[n] \in ApprovalOf
      /\ Len(granted) \in Nat
  BY DEF ExtensionTypeOK
<1> QED
  BY <1>1 DEF Request, ApprovalOf, ExtensionTypeOK

(* Packets that were made are not altered.                                 *)
PacketsStay ==
    /\ \A r \in DOMAIN requests :
         r \in DOMAIN requests' /\ requests'[r] = requests[r]
    /\ \A n \in DOMAIN granted :
         n \in DOMAIN granted' /\ granted'[n] = granted[n]

(* A record of an earlier state: its approval, if it was made by one, and  *)
(* its request exist.                                                      *)
LEMMA RecordFacts ==
  ASSUME ExtensionTypeOK, NEW p \in Places, NEW record \in links[p]
  PROVE  /\ record \in LinkRecord
         /\ record.id \in 1..drawn /\ record.id # 0
         /\ record.approval \in {0} \cup DOMAIN granted
         /\ record.approval # 0 =>
              granted[record.approval].request \in DOMAIN requests
<1>1. record \in LinkRecord /\ record.id \in 1..drawn
      /\ record.approval \in {0} \cup DOMAIN granted /\ drawn \in Nat
  BY DEF ExtensionTypeOK
<1> QED
  BY <1>1 DEF ExtensionTypeOK

(* The record that storeLink makes.                                        *)
Made(identity, n, checked) ==
    [id |-> drawn + 1, identity |-> identity, approval |-> n,
     checked |-> checked, status |-> "active"]

(* What storeLink does to the records of the places.                       *)
LEMMA StoreFacts ==
  ASSUME ExtensionTypeOK, OneLiveLink,
         NEW p \in Places, NEW identity \in Places, NEW n \in Nat,
         NEW checked \in BOOLEAN,
         storeLink(p, identity, n, checked)
  PROVE  /\ links' \in [Places -> SUBSET LinkRecord]
         /\ links'[p] = Stays(p, identity) \cup {Made(identity, n, checked)}
         /\ \A q \in Places : q # p => links'[q] = links[q]
         /\ drawn' \in Nat /\ drawn' = drawn + 1
         /\ \A q \in Places : \A record \in links'[q] :
              \/ record \in links[q]
              \/ q = p /\ record = Made(identity, n, checked)
         /\ OneLiveLink'
<1>1. Made(identity, n, checked) \in LinkRecord
  BY DEF ExtensionTypeOK, LinkRecord, Made
<1>2. links' = [links EXCEPT ![p] =
                  Stays(p, identity) \cup {Made(identity, n, checked)}]
  BY DEF storeLink, Made
<1>3. Stays(p, identity) \subseteq links[p]
  BY DEF Stays
<1>4. links[p] \subseteq LinkRecord
  BY DEF ExtensionTypeOK
<1>5. /\ links' \in [Places -> SUBSET LinkRecord]
      /\ links'[p] = Stays(p, identity) \cup {Made(identity, n, checked)}
      /\ \A q \in Places : q # p => links'[q] = links[q]
  BY <1>1, <1>2, <1>3, <1>4 DEF ExtensionTypeOK
<1>6. drawn' \in Nat /\ drawn' = drawn + 1
  BY DEF storeLink, ExtensionTypeOK
<1>7. OneLiveLink'
  <2> SUFFICES ASSUME NEW q \in Places,
                      NEW one \in links'[q], NEW other \in links'[q],
                      one.identity = other.identity,
                      one.status = "active", other.status = "active"
               PROVE  one = other
    BY DEF OneLiveLink
  <2>1. CASE q # p
    BY <1>5, <2>1 DEF OneLiveLink
  <2>2. CASE q = p
    <3>1. \A record \in links'[p] : record.status = "active" =>
            \/ record \in links[p] /\ record.identity # identity
            \/ record = Made(identity, n, checked)
      BY <1>5 DEF Stays
    <3>2. Made(identity, n, checked).identity = identity
      BY DEF Made
    <3> QED
      BY <2>2, <3>1, <3>2 DEF OneLiveLink
  <2> QED
    BY <2>1, <2>2
<1>8. \A q \in Places : \A record \in links'[q] :
        record \in links[q] \/ (q = p /\ record = Made(identity, n, checked))
  BY <1>3, <1>5
<1> QED
  BY <1>5, <1>6, <1>7, <1>8

(* A step that makes and alters no record keeps the invariant if it leaves *)
(* the rest in order.                                                      *)
LEMMA QuietStep ==
  ASSUME ExtensionInv, PacketsStay, UNCHANGED <<links, drawn, granted>>,
         requests' \in Seq(Request),
         outgoing' \in [Places -> SUBSET DOMAIN requests'],
         accepted' \subseteq DOMAIN requests',
         expiredRequests' \subseteq DOMAIN requests',
         expiredApprovals' \subseteq DOMAIN granted',
         OwnRequests'
  PROVE  ExtensionInv'
<1>1. ExtensionTypeOK'
  BY DEF ExtensionInv, ExtensionTypeOK, PacketsStay
<1>2. OneLiveLink'
  BY DEF ExtensionInv, OneLiveLink
<1>3. \A n \in DOMAIN granted : Asker(n)' = Asker(n)
  BY DEF ExtensionInv, ExtensionTypeOK, PacketsStay, Asker
<1>4. LinksFit'
  BY <1>3, RecordFacts DEF ExtensionInv, LinksFit, Fits, Asker
<1>5. ApproverHolds'
  BY <1>3 DEF ExtensionInv, ApproverHolds, Asker
<1> QED
  BY <1>1, <1>2, <1>4, <1>5 DEF ExtensionInv

(* The invariant holds of cells without requests and records.              *)
LEMMA InitExtensionInv == ExtensionInit => ExtensionInv
<1> SUFFICES ASSUME ExtensionInit PROVE ExtensionInv
  OBVIOUS
<1>1. ExtensionTypeOK
  BY DEF ExtensionInit, ExtensionTypeOK
<1>2. OneLiveLink /\ OwnRequests /\ LinksFit /\ ApproverHolds
  BY DEF ExtensionInit, OneLiveLink, OwnRequests, LinksFit,
         ApproverHolds
<1> QED
  BY <1>1, <1>2 DEF ExtensionInv

(* A request that the place signs keeps the invariant.                     *)
LEMMA BeginKeeps ==
  ASSUME ExtensionInv, NEW p \in Places, NEW known \in BOOLEAN,
         beginRequest(p, known)
  PROVE  ExtensionInv'
<1> DEFINE request == [from |-> p, known |-> known]
<1>1. requests \in Seq(Request) /\ request \in Request
      /\ requests' = Append(requests, request)
  BY DEF ExtensionInv, ExtensionTypeOK, Request,
         beginRequest
<1> HIDE DEF request
<1>2. UNCHANGED <<granted, accepted, links, drawn, expiredRequests,
                  expiredApprovals>>
  BY DEF beginRequest, expiry
<1>3. /\ requests' \in Seq(Request) /\ Len(requests) \in Nat
      /\ DOMAIN requests = 1..Len(requests)
      /\ DOMAIN requests' = 1..(Len(requests) + 1)
      /\ requests'[Len(requests) + 1] = request
      /\ \A r \in DOMAIN requests :
           r \in DOMAIN requests' /\ requests'[r] = requests[r]
  BY <1>1, Appended
<1>4. PacketsStay
  BY <1>2, <1>3 DEF PacketsStay
<1>5. outgoing' = [outgoing EXCEPT ![p] = @ \cup {Len(requests) + 1}]
      /\ outgoing \in [Places -> SUBSET DOMAIN requests]
  BY DEF beginRequest, ExtensionInv, ExtensionTypeOK
<1>6. outgoing' \in [Places -> SUBSET DOMAIN requests']
  <2>1. Len(requests) + 1 \in DOMAIN requests'
        /\ DOMAIN requests \subseteq DOMAIN requests'
    BY <1>3
  <2> QED
    BY <1>5, <2>1
<1>7. OwnRequests'
  <2> SUFFICES ASSUME NEW q \in Places, NEW r \in outgoing'[q]
               PROVE  requests'[r].from = q
    BY DEF OwnRequests
  <2>1. CASE r \in outgoing[q]
    BY <1>3, <1>5, <2>1 DEF ExtensionInv, OwnRequests
  <2>2. CASE r \notin outgoing[q]
    <3>1. q = p /\ r = Len(requests) + 1
      BY <1>5, <2>2
    <3>2. request.from = p
      BY DEF request
    <3> QED
      BY <1>3, <3>1, <3>2
  <2> QED
    BY <2>1, <2>2
<1>8. /\ accepted' \subseteq DOMAIN requests'
      /\ expiredRequests' \subseteq DOMAIN requests'
      /\ expiredApprovals' \subseteq DOMAIN granted'
  BY <1>2, <1>3 DEF ExtensionInv, ExtensionTypeOK
<1> QED
  BY <1>2, <1>3, <1>4, <1>6, <1>7, <1>8, QuietStep

(* An approval keeps it: the approver has the new record of the asker.     *)
LEMMA ApproveKeeps ==
  ASSUME ExtensionInv, NEW p \in Places, NEW r \in DOMAIN requests,
         NEW chosen \in BOOLEAN, approveRequest(p, r, chosen)
  PROVE  ExtensionInv'
<1> DEFINE approval == [request |-> r, issuer |-> p]
<1>0. PICK last, from : last = Len(granted) + 1 /\ from = requests[r].from
  OBVIOUS
<1>1. r \in Nat /\ from \in Places
  BY <1>0, PacketFacts DEF ExtensionInv
<1>2. granted \in Seq(ApprovalOf) /\ approval \in ApprovalOf
      /\ granted' = Append(granted, approval)
  BY <1>1 DEF ExtensionInv, ExtensionTypeOK, ApprovalOf,
              approveRequest
<1>3. /\ granted' \in Seq(ApprovalOf) /\ Len(granted) \in Nat
      /\ DOMAIN granted = 1..Len(granted)
      /\ DOMAIN granted' = 1..last
      /\ granted'[last] = approval
      /\ \A n \in DOMAIN granted :
           n \in DOMAIN granted' /\ granted'[n] = granted[n]
  <2> HIDE DEF approval
  <2> QED
    BY <1>0, <1>2, Appended
<1>4. UNCHANGED <<requests, outgoing, accepted, expiredRequests,
                  expiredApprovals>>
  BY DEF approveRequest, expiry
<1>5. last \in Nat /\ last \in DOMAIN granted'
  BY <1>0, <1>3
<1>6. storeLink(p, from, last, TRUE)
  BY <1>0 DEF approveRequest
<1>7. ExtensionTypeOK /\ OneLiveLink
  BY DEF ExtensionInv
<1> DEFINE new == Made(from, last, TRUE)
<1>8. /\ links' \in [Places -> SUBSET LinkRecord]
      /\ links'[p] = Stays(p, from) \cup {new}
      /\ \A q \in Places : q # p => links'[q] = links[q]
      /\ drawn' \in Nat /\ drawn' = drawn + 1
      /\ \A q \in Places : \A record \in links'[q] :
           record \in links[q] \/ (q = p /\ record = new)
      /\ OneLiveLink'
  BY <1>1, <1>5, <1>6, <1>7, StoreFacts
<1>9. /\ new.identity = from /\ new.approval = last
      /\ new.id = drawn + 1 /\ new.checked
  BY DEF Made
<1>10. /\ \A n \in DOMAIN granted : Asker(n)' = Asker(n)
       /\ Asker(last)' = from
       /\ granted'[last].issuer = p /\ granted'[last].request = r
  <2>1. granted'[last].issuer = p /\ granted'[last].request = r
    BY <1>3
  <2> QED
    BY <1>0, <1>3, <1>4, <2>1 DEF Asker
<1> HIDE DEF new, approval
<1>11. ExtensionTypeOK'
  <2>1. \A n \in DOMAIN granted' : granted'[n].request \in DOMAIN requests'
    <3> SUFFICES ASSUME NEW n \in DOMAIN granted'
                 PROVE  granted'[n].request \in DOMAIN requests
      BY <1>4
    <3>1. CASE n \in DOMAIN granted
      BY <1>3, <1>7, <3>1 DEF ExtensionTypeOK
    <3>2. CASE n = last
      BY <1>10, <3>2
    <3> QED
      BY <1>0, <1>3, <3>1, <3>2
  <2>2. \A q \in Places : \A record \in links'[q] :
          /\ record.approval \in {0} \cup DOMAIN granted'
          /\ record.id \in 1..drawn'
    <3> SUFFICES ASSUME NEW q \in Places, NEW record \in links'[q]
                 PROVE  /\ record.approval \in {0} \cup DOMAIN granted'
                        /\ record.id \in 1..drawn'
      OBVIOUS
    <3>1. CASE record \in links[q]
      <4>1. /\ record.approval \in {0} \cup DOMAIN granted
            /\ record.id \in 1..drawn
        BY <1>7, <3>1, RecordFacts
      <4> QED
        BY <1>3, <1>7, <1>8, <4>1 DEF ExtensionTypeOK
    <3>2. CASE record = new
      BY <1>5, <1>7, <1>8, <1>9, <3>2 DEF ExtensionTypeOK
    <3> QED
      BY <1>8, <3>1, <3>2
  <2>3. expiredApprovals' \subseteq DOMAIN granted'
    BY <1>3, <1>4, <1>7 DEF ExtensionTypeOK
  <2> QED
    BY <1>3, <1>4, <1>7, <1>8, <2>1, <2>2, <2>3 DEF ExtensionTypeOK
<1>12. OwnRequests'
  BY <1>4 DEF ExtensionInv, OwnRequests
<1>13. LinksFit'
  <2> SUFFICES ASSUME NEW q \in Places, NEW record \in links'[q]
               PROVE  Fits(q, record)'
    BY DEF LinksFit
  <2>1. CASE record \in links[q]
    <3>1. record.approval \in {0} \cup DOMAIN granted /\ Fits(q, record)
      BY <1>7, <2>1, RecordFacts DEF ExtensionInv, LinksFit
    <3> QED
      BY <1>3, <1>10, <3>1 DEF Fits
  <2>2. CASE q = p /\ record = new
    BY <1>0, <1>3, <1>9, <1>10, <2>2 DEF Fits
  <2> QED
    BY <1>8, <2>1, <2>2
<1>14. ApproverHolds'
  <2> SUFFICES ASSUME NEW n \in DOMAIN granted',
                      Asker(n)' # granted'[n].issuer
               PROVE  \E record \in links'[granted'[n].issuer] :
                        record.identity = Asker(n)' /\ record.approval >= n
    BY DEF ApproverHolds, Asker
  <2>1. CASE n = last
    BY <1>5, <1>8, <1>9, <1>10, <2>1
  <2>2. CASE n \in DOMAIN granted
    <3>1. granted'[n] = granted[n] /\ Asker(n)' = Asker(n)
          /\ granted[n].issuer \in Places
      BY <1>3, <1>7, <1>10, <2>2, PacketFacts
    <3>2. PICK record \in links[granted[n].issuer] :
            record.identity = Asker(n) /\ record.approval >= n
      BY <2>2, <3>1 DEF ExtensionInv, ApproverHolds
    <3>3. CASE record \in links'[granted[n].issuer]
      BY <3>1, <3>2, <3>3
    <3>4. CASE record \notin links'[granted[n].issuer]
      <4>1. granted[n].issuer = p /\ record.identity = from
        BY <1>8, <3>1, <3>4 DEF Stays
      <4>2. last >= n
        BY <1>0, <1>3, <2>2
      <4> QED
        BY <1>8, <1>9, <3>1, <3>2, <4>1, <4>2
    <3> QED
      BY <3>3, <3>4
  <2> QED
    BY <1>0, <1>3, <2>1, <2>2
<1> QED
  BY <1>8, <1>11, <1>12, <1>13, <1>14 DEF ExtensionInv

(* An acceptance keeps it: it replaces records of the place itself only,   *)
(* and none that the place holds as an approver for another.               *)
LEMMA AcceptKeeps ==
  ASSUME ExtensionInv, NEW p \in Places, NEW n \in {0} \cup DOMAIN granted,
         NEW signer \in Places \cup {Outsider, NoIssuer},
         acceptApproval(p, n, signer)
  PROVE  ExtensionInv'
<1>1. ExtensionTypeOK /\ OneLiveLink /\ n \in Nat
  BY DEF ExtensionInv, ExtensionTypeOK
<1>2. UNCHANGED <<requests, granted, outgoing, expiredRequests,
                  expiredApprovals>>
  BY DEF acceptApproval, expiry, packets
<1>3. PICK checked \in BOOLEAN : checked <=> signer \in Places
  OBVIOUS
<1>4. accepted' = accepted \cup Newest(p) /\ storeLink(p, p, n, checked)
  <2>1. checked = (signer \in Places)
    BY <1>3
  <2> QED
    BY <2>1 DEF acceptApproval
<1> DEFINE new == Made(p, n, checked)
<1>5. /\ links' \in [Places -> SUBSET LinkRecord]
      /\ links'[p] = Stays(p, p) \cup {new}
      /\ \A q \in Places : q # p => links'[q] = links[q]
      /\ drawn' \in Nat /\ drawn' = drawn + 1
      /\ \A q \in Places : \A record \in links'[q] :
           record \in links[q] \/ (q = p /\ record = new)
      /\ OneLiveLink'
  BY <1>1, <1>4, StoreFacts
<1>6. /\ new.identity = p /\ new.approval = n
      /\ new.id = drawn + 1 /\ new.checked = checked
  BY DEF Made
<1> HIDE DEF new
<1>7. /\ n # 0 => Asker(n) = p
      /\ checked => n # 0
      /\ Newest(p) \subseteq DOMAIN requests
  <2>1. /\ n # 0 => granted[n].request \in outgoing[p]
        /\ Newest(p) \subseteq outgoing[p]
    BY DEF acceptApproval, Answers, Newest
  <2>2. n # 0 => Asker(n) = p
    BY <2>1 DEF ExtensionInv, OwnRequests, Asker
  <2>3. checked => n # 0
    BY <1>3, ExtensionAssumption DEF acceptApproval, SignatureHolds
  <2>4. outgoing[p] \subseteq DOMAIN requests
    BY <1>1 DEF ExtensionTypeOK
  <2> QED
    BY <2>1, <2>2, <2>3, <2>4
<1>8. \A m : Asker(m)' = Asker(m)
  BY <1>2 DEF Asker
<1>9. ExtensionTypeOK'
  <2>1. \A q \in Places : \A record \in links'[q] :
          /\ record.approval \in {0} \cup DOMAIN granted
          /\ record.id \in 1..drawn'
    <3> SUFFICES ASSUME NEW q \in Places, NEW record \in links'[q]
                 PROVE  /\ record.approval \in {0} \cup DOMAIN granted
                        /\ record.id \in 1..drawn'
      OBVIOUS
    <3>1. CASE record \in links[q]
      <4>1. /\ record.approval \in {0} \cup DOMAIN granted
            /\ record.id \in 1..drawn
        BY <1>1, <3>1, RecordFacts
      <4> QED
        BY <1>1, <1>5, <4>1 DEF ExtensionTypeOK
    <3>2. CASE record = new
      BY <1>1, <1>5, <1>6, <3>2 DEF ExtensionTypeOK
    <3> QED
      BY <1>5, <3>1, <3>2
  <2>2. accepted' \subseteq DOMAIN requests
    BY <1>1, <1>7, <1>4 DEF ExtensionTypeOK
  <2> QED
    BY <1>1, <1>2, <1>5, <2>1, <2>2 DEF ExtensionTypeOK
<1>10. OwnRequests'
  BY <1>2 DEF ExtensionInv, OwnRequests
<1>11. LinksFit'
  <2> SUFFICES ASSUME NEW q \in Places, NEW record \in links'[q]
               PROVE  Fits(q, record)'
    BY DEF LinksFit
  <2>1. CASE record \in links[q]
    BY <1>2, <1>8, <2>1 DEF ExtensionInv, LinksFit, Fits
  <2>2. CASE q = p /\ record = new
    BY <1>6, <1>7, <1>8, <2>2 DEF Fits
  <2> QED
    BY <1>5, <2>1, <2>2
<1>12. ApproverHolds'
  <2> SUFFICES ASSUME NEW m \in DOMAIN granted, Asker(m) # granted[m].issuer
               PROVE  \E record \in links'[granted[m].issuer] :
                        record.identity = Asker(m) /\ record.approval >= m
    BY <1>2, <1>8 DEF ApproverHolds, Asker
  <2>1. granted[m].issuer \in Places
    BY <1>1, PacketFacts
  <2>2. PICK record \in links[granted[m].issuer] :
          record.identity = Asker(m) /\ record.approval >= m
    BY DEF ExtensionInv, ApproverHolds
  <2>3. record \in links'[granted[m].issuer]
    BY <1>5, <2>1, <2>2 DEF Stays
  <2> QED
    BY <2>2, <2>3
<1> QED
  BY <1>5, <1>9, <1>10, <1>11, <1>12 DEF ExtensionInv

(* What revokeLink does to the records of the places.                      *)
LEMMA RevokeFacts ==
  ASSUME ExtensionTypeOK, NEW p \in Places, NEW record \in links[p],
         revokeLink(p, record),
         NEW revoked, revoked = [record EXCEPT !.status = "revoked"]
  PROVE  /\ revoked \in LinkRecord
         /\ revoked.id = record.id /\ revoked.identity = record.identity
         /\ revoked.approval = record.approval /\ revoked.status = "revoked"
         /\ revoked.checked = record.checked
         /\ record.status = "revoked" => revoked = record
         /\ links' \in [Places -> SUBSET LinkRecord]
         /\ links'[p] = (links[p] \ {record}) \cup {revoked}
         /\ \A q \in Places : q # p => links'[q] = links[q]
<1>1. record \in LinkRecord
  BY RecordFacts
<1>2. /\ revoked \in LinkRecord
      /\ revoked.id = record.id /\ revoked.identity = record.identity
      /\ revoked.approval = record.approval /\ revoked.status = "revoked"
      /\ revoked.checked = record.checked
      /\ record.status = "revoked" => revoked = record
  BY <1>1 DEF LinkRecord
<1>3. links' = [links EXCEPT ![p] = (@ \ {record}) \cup {revoked}]
  BY DEF revokeLink
<1>4. links \in [Places -> SUBSET LinkRecord]
  BY DEF ExtensionTypeOK
<1> QED
  BY <1>2, <1>3, <1>4

(* A revocation keeps it: the record stays, with another status.           *)
LEMMA RevokeKeeps ==
  ASSUME ExtensionInv, NEW p \in Places, NEW record \in links[p],
         revokeLink(p, record)
  PROVE  ExtensionInv'
<1>1. PICK revoked : revoked = [record EXCEPT !.status = "revoked"]
  OBVIOUS
<1>2. ExtensionTypeOK
  BY DEF ExtensionInv
<1>3. /\ revoked.id = record.id /\ revoked.identity = record.identity
      /\ revoked.approval = record.approval /\ revoked.status = "revoked"
      /\ revoked.checked = record.checked
      /\ links' \in [Places -> SUBSET LinkRecord]
      /\ links'[p] = (links[p] \ {record}) \cup {revoked}
      /\ \A q \in Places : q # p => links'[q] = links[q]
  BY <1>1, <1>2, RevokeFacts
<1>4. UNCHANGED <<requests, granted, outgoing, accepted, drawn,
                  expiredRequests, expiredApprovals>>
  BY DEF revokeLink, expiry, packets
<1>5. \A q \in Places : \A other \in links'[q] : \E before \in links[q] :
        /\ other.id = before.id /\ other.identity = before.identity
        /\ other.approval = before.approval
        /\ other.checked = before.checked
        /\ other.status = "active" => other = before
  BY <1>3
<1>6. \A q \in Places : \A before \in links[q] : \E other \in links'[q] :
        other.identity = before.identity /\ other.approval = before.approval
  BY <1>3
<1>7. \A m : Asker(m)' = Asker(m)
  BY <1>4 DEF Asker
<1>8. ExtensionTypeOK'
  <2>1. \A q \in Places : \A other \in links'[q] :
          /\ other.approval \in {0} \cup DOMAIN granted
          /\ other.id \in 1..drawn
    BY <1>2, <1>5, RecordFacts
  <2> QED
    BY <1>2, <1>3, <1>4, <2>1 DEF ExtensionTypeOK
<1>9. OneLiveLink'
  <2>1. \A q \in Places : \A other \in links'[q] :
          other.status = "active" => other \in links[q]
    BY <1>5
  <2> QED
    BY <2>1 DEF ExtensionInv, OneLiveLink
<1>10. OwnRequests'
  BY <1>4 DEF ExtensionInv, OwnRequests
<1>11. LinksFit'
  BY <1>4, <1>5, <1>7 DEF ExtensionInv, LinksFit, Fits
<1>12. ApproverHolds'
  <2> SUFFICES ASSUME NEW m \in DOMAIN granted, Asker(m) # granted[m].issuer
               PROVE  \E other \in links'[granted[m].issuer] :
                        other.identity = Asker(m) /\ other.approval >= m
    BY <1>4, <1>7 DEF ApproverHolds
  <2>1. granted[m].issuer \in Places
    BY <1>2, PacketFacts
  <2>2. PICK before \in links[granted[m].issuer] :
          before.identity = Asker(m) /\ before.approval >= m
    BY DEF ExtensionInv, ApproverHolds
  <2> QED
    BY <1>6, <2>1, <2>2
<1> QED
  BY <1>8, <1>9, <1>10, <1>11, <1>12 DEF ExtensionInv

(* Every step keeps the invariant.                                         *)
LEMMA ExtensionInvStep ==
  ASSUME ExtensionInv, [ExtensionNext]_extensionVars
  PROVE  ExtensionInv'
<1>1. ASSUME NEW p \in Places, NEW known \in BOOLEAN,
             beginRequest(p, known)
      PROVE  ExtensionInv'
  BY <1>1, BeginKeeps
<1>2. ASSUME NEW p \in Places, NEW r \in DOMAIN requests,
             NEW chosen \in BOOLEAN, approveRequest(p, r, chosen)
      PROVE  ExtensionInv'
  BY <1>2, ApproveKeeps
<1>3. ASSUME NEW p \in Places, NEW n \in {0} \cup DOMAIN granted,
             NEW signer \in Places \cup {Outsider, NoIssuer},
             acceptApproval(p, n, signer)
      PROVE  ExtensionInv'
  BY <1>3, AcceptKeeps
<1>4. ASSUME NEW p \in Places, NEW record \in links[p],
             revokeLink(p, record)
      PROVE  ExtensionInv'
  BY <1>4, RevokeKeeps
<1>5. ASSUME NEW p \in Places, clearPending(p)
      PROVE  ExtensionInv'
  <2>1. UNCHANGED <<requests, granted, accepted, links, drawn,
                    expiredRequests, expiredApprovals>>
    BY <1>5 DEF clearPending, packets, expiry
  <2>2. outgoing' \in [Places -> SUBSET DOMAIN requests]
        /\ \A q \in Places : outgoing'[q] \subseteq outgoing[q]
    BY <1>5 DEF clearPending, ExtensionInv, ExtensionTypeOK
  <2>3. OwnRequests'
    BY <2>1, <2>2 DEF ExtensionInv, OwnRequests
  <2> QED
    BY <2>1, <2>2, <2>3, QuietStep
       DEF PacketsStay, ExtensionInv, ExtensionTypeOK
<1>6. ASSUME NEW r \in DOMAIN requests, RequestExpires(r)
      PROVE  ExtensionInv'
  <2>1. UNCHANGED <<requests, granted, outgoing, accepted, links, drawn,
                    expiredApprovals>>
        /\ expiredRequests' = expiredRequests \cup {r}
    BY <1>6 DEF RequestExpires, packets
  <2>2. OwnRequests'
    BY <2>1 DEF ExtensionInv, OwnRequests
  <2> QED
    BY <2>1, <2>2, QuietStep DEF PacketsStay, ExtensionInv, ExtensionTypeOK
<1>7. ASSUME NEW n \in DOMAIN granted, ApprovalExpires(n)
      PROVE  ExtensionInv'
  <2>1. UNCHANGED <<requests, granted, outgoing, accepted, links, drawn,
                    expiredRequests>>
        /\ expiredApprovals' = expiredApprovals \cup {n}
    BY <1>7 DEF ApprovalExpires, packets
  <2>2. OwnRequests'
    BY <2>1 DEF ExtensionInv, OwnRequests
  <2> QED
    BY <2>1, <2>2, QuietStep DEF PacketsStay, ExtensionInv, ExtensionTypeOK
<1>8. CASE UNCHANGED extensionVars
  <2>1. UNCHANGED <<requests, granted, outgoing, accepted, links, drawn,
                    expiredRequests, expiredApprovals>>
    BY <1>8 DEF extensionVars, packets, expiry
  <2>2. OwnRequests'
    BY <2>1 DEF ExtensionInv, OwnRequests
  <2> QED
    BY <2>1, <2>2, QuietStep DEF PacketsStay, ExtensionInv, ExtensionTypeOK
<1> QED
  BY <1>1, <1>2, <1>3, <1>4, <1>5, <1>6, <1>7, <1>8 DEF ExtensionNext

-----------------------------------------------------------------------------
(* The inductive invariant holds in every state of the cells.              *)
THEOREM ExtensionInvariant == ExtensionSpec => []ExtensionInv
BY InitExtensionInv, ExtensionInvStep, PTL DEF ExtensionSpec

(* Type correctness: packets and link records refer to packets that exist, *)
(* whatever was requested, approved, accepted and cleared                  *)
(* (entity_extension.go).                                                  *)
THEOREM ExtensionTypes == ExtensionSpec => []ExtensionTypeOK
<1>1. ExtensionInv => ExtensionTypeOK
  BY DEF ExtensionInv
<1> QED
  BY <1>1, ExtensionInvariant, PTL

(* storeLink leaves at most one active link of an identity at a place.     *)
THEOREM OneLiveLinkTheorem == ExtensionSpec => []OneLiveLink
<1>1. ExtensionInv => OneLiveLink
  BY DEF ExtensionInv
<1> QED
  BY <1>1, ExtensionInvariant, PTL

(* What acceptApproval checks under the key of a place is an approval that    *)
(* approveRequest made there; a record of such an approval is of who asked *)
(* for it, at it or at the approver, and the approver holds one of that    *)
(* approval or a later one, whichever packets the handlers see and in      *)
(* which order; a form that no place signed makes a record of the place    *)
(* itself only.                                                            *)
THEOREM BothSidesTheorem == ExtensionSpec => []BothSidesHold
<1>1. ExtensionInv => BothSidesHold
  <2> SUFFICES ASSUME ExtensionInv,
                      NEW p \in Places, NEW record \in links[p],
                      record.approval # 0
               PROVE  LET approval == granted[record.approval]
                      IN /\ record.identity = requests[approval.request].from
                         /\ p \in {record.identity, approval.issuer}
                         /\ \E other \in links[approval.issuer] :
                              /\ other.identity = record.identity
                              /\ other.approval >= record.approval
    BY DEF BothSidesHold, ExtensionInv, LinksFit, Fits
  <2>1. record.identity = Asker(record.approval)
        /\ p \in {record.identity, granted[record.approval].issuer}
    BY DEF ExtensionInv, LinksFit, Fits
  <2>2. record.approval \in DOMAIN granted /\ record.approval \in Nat
    BY RecordFacts DEF ExtensionInv, ExtensionTypeOK
  <2>3. CASE p = granted[record.approval].issuer
    BY <2>1, <2>2, <2>3 DEF Asker
  <2>4. CASE p # granted[record.approval].issuer
    BY <2>1, <2>2, <2>4 DEF ExtensionInv, ApproverHolds, Asker
  <2> QED
    BY <2>3, <2>4
<1> QED
  BY <1>1, ExtensionInvariant, PTL

(* No step takes a revoked record away or makes it active: storeLink       *)
(* replaces active records only.                                           *)
THEOREM RevokedStaysTheorem == ExtensionSpec => RevokedStays
<1>1. ASSUME ExtensionInv, ExtensionNext,
             NEW q \in Places, NEW record \in links[q],
             record.status = "revoked"
      PROVE  record \in links'[q]
  <2>1. ExtensionTypeOK /\ OneLiveLink
    BY <1>1 DEF ExtensionInv
  <2>2. ASSUME NEW p \in Places, NEW r \in DOMAIN requests,
               NEW chosen \in BOOLEAN, approveRequest(p, r, chosen)
        PROVE  record \in links'[q]
    <3>1. requests[r].from \in Places /\ Len(granted) + 1 \in Nat
      BY <2>1, PacketFacts
    <3>2. record \in Stays(q, requests[r].from)
      BY <1>1 DEF Stays
    <3>3. storeLink(p, requests[r].from, Len(granted) + 1, TRUE)
      BY <2>2, Zenon DEF approveRequest
    <3>4. PICK checked \in BOOLEAN :
            storeLink(p, requests[r].from, Len(granted) + 1, checked)
      BY <3>3, Zenon
    <3> QED
      BY <2>1, <2>2, <3>1, <3>2, <3>4, StoreFacts
  <2>3. ASSUME NEW p \in Places, NEW n \in {0} \cup DOMAIN granted,
               NEW signer \in Places \cup {Outsider, NoIssuer},
               acceptApproval(p, n, signer)
        PROVE  record \in links'[q]
    <3>1. n \in Nat /\ storeLink(p, p, n, signer \in Places)
      BY <2>1, <2>3 DEF ExtensionTypeOK, acceptApproval
    <3>2. record \in Stays(q, p)
      BY <1>1 DEF Stays
    <3>3. PICK checked \in BOOLEAN : checked <=> signer \in Places
      OBVIOUS
    <3>4. storeLink(p, p, n, checked)
      <4>1. checked = (signer \in Places)
        BY <3>3
      <4> QED
        BY <3>1, <4>1
    <3> QED
      BY <2>1, <2>3, <3>1, <3>2, <3>4, StoreFacts
  <2>4. ASSUME NEW p \in Places, NEW gone \in links[p],
               revokeLink(p, gone)
        PROVE  record \in links'[q]
    <3>1. PICK revoked : revoked = [gone EXCEPT !.status = "revoked"]
      OBVIOUS
    <3>2. /\ gone.status = "revoked" => revoked = gone
          /\ links'[p] = (links[p] \ {gone}) \cup {revoked}
          /\ q # p => links'[q] = links[q]
      BY <2>1, <2>4, <3>1, RevokeFacts
    <3> QED
      BY <1>1, <3>2
  <2>5. CASE links' = links
    BY <1>1, <2>5
  <2>6. \/ links' = links
        \/ \E p \in Places :
             \/ \E r \in DOMAIN requests, chosen \in BOOLEAN :
                  approveRequest(p, r, chosen)
             \/ \E n \in {0} \cup DOMAIN granted,
                   signer \in Places \cup {Outsider, NoIssuer} :
                  acceptApproval(p, n, signer)
             \/ \E gone \in links[p] : revokeLink(p, gone)
    BY <1>1 DEF ExtensionNext, beginRequest, clearPending,
           RequestExpires, ApprovalExpires
  <2> QED
    BY <2>2, <2>3, <2>4, <2>5, <2>6
<1>2. ExtensionInv /\ [ExtensionNext]_extensionVars =>
        [\A p \in Places : \A record \in links[p] :
           record.status = "revoked" => record \in links'[p]]_extensionVars
  BY <1>1
<1> QED
  BY <1>2, ExtensionInvariant, PTL DEF ExtensionSpec, RevokedStays

-----------------------------------------------------------------------------
(* The number of the active link, if there is one.                         *)
LEMMA ActiveIs ==
  ASSUME NEW S, NEW i, NEW record \in S,
         record.identity = i, record.status = "active",
         \A other \in S : other.identity = i /\ other.status = "active" =>
           other = record
  PROVE  ActiveLink(S, i) = record.id
<1>1. Live(S, i) = {record}
  BY DEF Live
<1>2. (CHOOSE r \in Live(S, i) : TRUE) = record
  BY <1>1
<1> QED
  BY <1>1, <1>2 DEF ActiveLink

(* Places with the same active records have the same active link.          *)
LEMMA ActiveSame ==
  ASSUME NEW S, NEW T, NEW i,
         \A record : record.identity = i /\ record.status = "active" =>
           (record \in S <=> record \in T)
  PROVE  ActiveLink(S, i) = ActiveLink(T, i)
<1>1. Live(S, i) = Live(T, i)
  BY DEF Live
<1> QED
  BY <1>1 DEF ActiveLink

(* No active record, no active link.                                       *)
LEMMA ActiveNone ==
  ASSUME NEW S, NEW i,
         \A record \in S : ~(record.identity = i /\ record.status = "active")
  PROVE  ActiveLink(S, i) = 0
<1>1. Live(S, i) = {}
  BY DEF Live
<1> QED
  BY <1>1 DEF ActiveLink

(* The book of cells without records is empty.                             *)
LEMMA BookInit == ExtensionInit => Book!Init
<1> SUFFICES ASSUME ExtensionInit PROVE Book!Init
  OBVIOUS
<1>1. drawn = 0 /\ \A p \in Places : links[p] = {}
  BY DEF ExtensionInit
<1>2. \A p, i \in Places : ActiveLink(links[p], i) = 0
  BY <1>1, ActiveNone
<1>3. \A p \in Places : RevokedLinks(links[p]) = {}
  BY <1>1 DEF RevokedLinks
<1> QED
  BY <1>1, <1>2, <1>3 DEF Book!Init

(* A step that leaves the records alone leaves the book alone.             *)
LEMMA BookStays ==
  ASSUME UNCHANGED <<links, drawn>>
  PROVE  UNCHANGED Book!vars
BY DEF Book!vars

(* storeLink makes a link in the book.                                     *)
LEMMA StoreLinks ==
  ASSUME ExtensionTypeOK, OneLiveLink,
         NEW p \in Places, NEW identity \in Places, NEW n \in Nat,
         NEW checked \in BOOLEAN,
         storeLink(p, identity, n, checked)
  PROVE  Book!Link(p, identity)
<1>1. PICK new : new = Made(identity, n, checked)
  OBVIOUS
<1>2. /\ links'[p] = Stays(p, identity) \cup {new}
      /\ \A q \in Places : q # p => links'[q] = links[q]
      /\ drawn' = drawn + 1
  BY <1>1, StoreFacts
<1>3. new.id = drawn + 1 /\ new.identity = identity /\ new.status = "active"
  BY <1>1 DEF Made
<1>4. ActiveLink(links'[p], identity) = drawn + 1
  <2>1. new \in links'[p]
        /\ \A other \in links'[p] :
             other.identity = identity /\ other.status = "active" => other = new
    BY <1>2 DEF Stays
  <2> QED
    BY <1>3, <2>1, ActiveIs
<1>5. ASSUME NEW q \in Places, NEW i \in Places, ~(q = p /\ i = identity)
      PROVE  ActiveLink(links'[q], i) = ActiveLink(links[q], i)
  <2>1. \A record : record.identity = i /\ record.status = "active" =>
          (record \in links'[q] <=> record \in links[q])
    BY <1>2, <1>3, <1>5 DEF Stays
  <2> QED
    BY <2>1, ActiveSame
<1>6. ASSUME NEW q \in Places
      PROVE  RevokedLinks(links'[q]) = RevokedLinks(links[q])
  <2>1. {k \in links'[q] : k.status = "revoked"}
        = {k \in links[q] : k.status = "revoked"}
    BY <1>2, <1>3 DEF Stays
  <2> QED
    BY <2>1 DEF RevokedLinks
<1> QED
  BY <1>2, <1>4, <1>5, <1>6 DEF Book!Link

(* revokeLink revokes the active link in the book, or does nothing there.  *)
LEMMA RevokeLinks ==
  ASSUME ExtensionTypeOK, OneLiveLink,
         NEW p \in Places, NEW record \in links[p],
         revokeLink(p, record)
  PROVE  \/ Book!Revoke(p, record.identity)
         \/ UNCHANGED Book!vars
<1>1. PICK gone : gone = [record EXCEPT !.status = "revoked"]
  OBVIOUS
<1>2. /\ gone.id = record.id /\ gone.identity = record.identity
      /\ gone.status = "revoked"
      /\ record.status = "revoked" => gone = record
      /\ links' \in [Places -> SUBSET LinkRecord]
      /\ links'[p] = (links[p] \ {record}) \cup {gone}
      /\ \A q \in Places : q # p => links'[q] = links[q]
  BY <1>1, RevokeFacts
<1>3. drawn' = drawn
  BY DEF revokeLink
<1>4. CASE record.status = "revoked"
  <2>1. \A q \in Places : links'[q] = links[q]
    BY <1>2, <1>4
  <2>2. links' = links
    BY <1>2, <2>1 DEF ExtensionTypeOK
  <2> QED
    BY <1>3, <2>2, BookStays
<1>5. CASE record.status = "active"
  <2> DEFINE identity == record.identity
  <2>0. record \in LinkRecord /\ record.id # 0
    BY RecordFacts
  <2>1. identity \in Places
    BY <2>0 DEF LinkRecord
  <2>2. \A other \in links[p] :
          other.identity = identity /\ other.status = "active" => other = record
    BY <1>5 DEF OneLiveLink
  <2>3. ActiveLink(links[p], identity) = record.id
    BY <1>5, <2>2, ActiveIs
  <2>4. ActiveLink(links'[p], identity) = 0
    BY <1>2, <2>2, ActiveNone
  <2>5. ASSUME NEW q \in Places, NEW i \in Places, ~(q = p /\ i = identity)
        PROVE  ActiveLink(links'[q], i) = ActiveLink(links[q], i)
    <3>1. \A other : other.identity = i /\ other.status = "active" =>
            (other \in links'[q] <=> other \in links[q])
      BY <1>2, <2>5
    <3> QED
      BY <3>1, ActiveSame
  <2>6. RevokedLinks(links'[p])
        = RevokedLinks(links[p]) \cup {record.id}
    BY <1>2, <1>5 DEF RevokedLinks
  <2>7. \A q \in Places : q # p =>
          RevokedLinks(links'[q]) = RevokedLinks(links[q])
    BY <1>2
  <2> DEFINE active == [q \in Places |-> [i \in Places |->
                         ActiveLink(links[q], i)]]
             revoked == [q \in Places |-> RevokedLinks(links[q])]
  <2> HIDE DEF identity
  <2>8. active[p][identity] = record.id
    BY <2>1, <2>3
  <2>9. active' = [active EXCEPT ![p][identity] = 0]
    BY <2>1, <2>4, <2>5
  <2>10. revoked' = [revoked EXCEPT ![p] = @ \cup {record.id}]
    BY <2>6, <2>7
  <2>11. Book!Revoke(p, identity)
    BY <1>3, <2>0, <2>8, <2>9, <2>10 DEF Book!Revoke
  <2> QED
    BY <2>11 DEF identity
<1>6. record \in LinkRecord
  BY RecordFacts
<1> QED
  BY <1>4, <1>5, <1>6 DEF LinkRecord

(* Every step is a step of the book, or leaves it alone.                   *)
LEMMA BookStep ==
  ASSUME ExtensionInv, [ExtensionNext]_extensionVars
  PROVE  [Book!Next]_(Book!vars)
<1>1. ExtensionTypeOK /\ OneLiveLink
  BY DEF ExtensionInv
<1>2. ASSUME NEW p \in Places, NEW r \in DOMAIN requests,
             NEW chosen \in BOOLEAN, approveRequest(p, r, chosen)
      PROVE  Book!Next
  <2>1. requests[r].from \in Places /\ Len(granted) + 1 \in Nat
    BY <1>1, PacketFacts
  <2>2. storeLink(p, requests[r].from, Len(granted) + 1, TRUE)
    BY <1>2, Zenon DEF approveRequest
  <2>3. PICK checked \in BOOLEAN :
          storeLink(p, requests[r].from, Len(granted) + 1, checked)
    BY <2>2, Zenon
  <2>4. Book!Link(p, requests[r].from)
    BY <1>1, <2>1, <2>3, StoreLinks
  <2> QED
    BY <2>1, <2>4 DEF Book!Next
<1>3. ASSUME NEW p \in Places, NEW n \in {0} \cup DOMAIN granted,
             NEW signer \in Places \cup {Outsider, NoIssuer},
             acceptApproval(p, n, signer)
      PROVE  Book!Next
  <2>1. n \in Nat /\ storeLink(p, p, n, signer \in Places)
    BY <1>1, <1>3, PacketFacts DEF acceptApproval
  <2>2. PICK checked \in BOOLEAN : checked <=> signer \in Places
    OBVIOUS
  <2>3. storeLink(p, p, n, checked)
    <3>1. checked = (signer \in Places)
      BY <2>2
    <3> QED
      BY <2>1, <3>1
  <2>4. Book!Link(p, p)
    BY <1>1, <2>1, <2>3, StoreLinks
  <2> QED
    BY <2>4 DEF Book!Next
<1>4. ASSUME NEW p \in Places, NEW record \in links[p],
             revokeLink(p, record)
      PROVE  [Book!Next]_(Book!vars)
  <2>1. record.identity \in Places
    BY <1>1, RecordFacts DEF LinkRecord
  <2> QED
    BY <1>1, <1>4, <2>1, RevokeLinks DEF Book!Next
<1>5. CASE UNCHANGED <<links, drawn>>
  BY <1>5, BookStays
<1>6. \/ UNCHANGED <<links, drawn>>
      \/ \E p \in Places :
           \/ \E r \in DOMAIN requests, chosen \in BOOLEAN :
                approveRequest(p, r, chosen)
           \/ \E n \in {0} \cup DOMAIN granted,
                 signer \in Places \cup {Outsider, NoIssuer} :
                acceptApproval(p, n, signer)
           \/ \E record \in links[p] : revokeLink(p, record)
  BY DEF ExtensionNext, extensionVars, beginRequest,
         clearPending, RequestExpires,
         ApprovalExpires
<1> QED
  BY <1>2, <1>3, <1>4, <1>5, <1>6

(* The cells implement LinkBook: storeLink makes a link with an ID of its  *)
(* own in place of the active one, revokeLink revokes it, and nothing else *)
(* touches the links (entity_extension.go).                                *)
THEOREM KeepsBookTheorem == ExtensionSpec => KeepsBook
BY BookInit, BookStep, ExtensionInvariant, PTL
   DEF ExtensionSpec, KeepsBook, Book!Spec
=============================================================================
