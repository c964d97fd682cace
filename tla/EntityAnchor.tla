---------------------------- MODULE EntityAnchor ----------------------------
(***************************************************************************)
(* An EntityAnchorCell (entity_anchor.go) with the verification of         *)
(* identity links (interop/identity_link.go).                              *)
(*                                                                         *)
(* A handler holds the cell's lock only while it reads or writes a single  *)
(* keypath, so calls interleave between their reads and writes: a call is  *)
(* one of Calls, with the step it is at, the record it is about to store   *)
(* and its key, and whether it is a batchPersist, which goes on with its   *)
(* mutations after a genesis.  A store under proofs is taken with the      *)
(* store before it: no handler reads that root, nor the approvals that the *)
(* anchor keeps.                                                           *)
(*                                                                         *)
(* Signatures are ideal.  A request stands for its canonical bytes, so its *)
(* hash is the request itself.  An approval is what its issuer signed: the *)
(* anchor signs some for the requester, others are signed elsewhere, and   *)
(* then their IDs and JTIs are the signer's choice.  Time is what has      *)
(* expired.  What a caller's Set or batchPersist leaves at a keypath is    *)
(* "written": any value or none, which names no JTI.                       *)
(***************************************************************************)
EXTENDS Integers, FiniteSets

CONSTANTS
    Calls,              \* calls of handlers at a time
    Identities,
    Requests,           \* signed enrollment requests
    Subject,            \* request -> the identity that asks (NewIdentity)
    LinkIDs,            \* what approvals are named (ApprovalID)
    GenesisIDs,         \* those that begin like the ID of a genesis record
    Genesis,            \* the ID of the anchor's own
    JTIs,
    RecordKeys,
    SafeRecordKey,      \* link ID or JTI -> its key in a keypath
    MaxApprovals        \* bound on approvals

\* The genesis ID ends in the anchor's UUID, which has no "_": no other ID
\* has its key.
ASSUME AnchorAssumption ==
    /\ Subject \in [Requests -> Identities]
    /\ SafeRecordKey \in [LinkIDs \cup JTIs -> RecordKeys]
    /\ Genesis \in GenesisIDs /\ GenesisIDs \subseteq LinkIDs
    /\ \A id \in LinkIDs :
         SafeRecordKey[id] = SafeRecordKey[Genesis] => id = Genesis
    /\ {"none", "written"} \cap JTIs = {}
    /\ MaxApprovals \in Nat

VARIABLES
    sealed,             \* identityLinks.genesis holds a seal
    records,            \* identityLinks.records: key -> what is there
    used,               \* identityLinks.usedApprovalJTIs: key -> JTI
    completed,          \* history: the JTIs that were stored there
    approvals,          \* what was signed
    expired,            \* the approvals that have expired
    outdated,           \* the requests that have expired
    pc,                 \* call -> the next step of its handler
    key,                \* call -> the key of the record it is about
    held,               \* call -> the record that it will store
    batch               \* call -> it is a batchPersist

stored == <<sealed, records, used, completed>>
signed == <<approvals, expired, outdated>>
local == <<pc, key, held, batch>>
vars == <<stored, signed, local>>

\* terms: what is approved is within what was asked for, with fresh
\* authentication and by a known type of issuer, or "other".
Approval == [id : LinkIDs, request : Requests, issuer : Identities,
             jti : JTIs, terms : {"asked", "other"}]

\* The approval that a link's record was made from; its ID is in the record.
Record == [status : {"none", "written", "genesis", "active", "revoked"},
           by : SUBSET Approval]
NoRecord == [status |-> "none", by |-> {}]
Written == [status |-> "written", by |-> {}]
GenesisRecord == [status |-> "genesis", by |-> {}]
LinkOf(a) == [status |-> "active", by |-> {a}]
GenesisKey == SafeRecordKey[Genesis]

GenesisSteps == {"perform", "storeSeal", "storeGenesis"}
Iterating == {"fresh", "spent", "raced"}
CompleteSteps == {"read", "storeRecord", "storeUsed"} \cup Iterating
Steps == {"idle", "mutate", "storeRevoked"} \cup GenesisSteps \cup CompleteSteps

(* Every variable has its type.                                            *)
TypeOK ==
    /\ sealed \in BOOLEAN
    /\ records \in [RecordKeys -> Record]
    /\ used \in [RecordKeys -> JTIs \cup {"none", "written"}]
    /\ completed \subseteq JTIs
    /\ approvals \subseteq Approval
    /\ expired \subseteq Approval /\ outdated \subseteq Requests
    /\ pc \in [Calls -> Steps]
    /\ key \in [Calls -> RecordKeys]
    /\ held \in [Calls -> Record]
    /\ batch \in [Calls -> BOOLEAN]

Init ==
    /\ sealed = FALSE
    /\ records = [k \in RecordKeys |-> NoRecord]
    /\ used = [k \in RecordKeys |-> "none"] /\ completed = {}
    /\ approvals = {} /\ expired = {} /\ outdated = {}
    /\ pc = [t \in Calls |-> "idle"]
    /\ key = [t \in Calls |-> GenesisKey]
    /\ held = [t \in Calls |-> NoRecord]
    /\ batch = [t \in Calls |-> FALSE]

\* A call begins at a step about a record, goes on, and ends.
Begin(t, step, k, record) ==
    /\ pc[t] = "idle"
    /\ pc' = [pc EXCEPT ![t] = step]
    /\ key' = [key EXCEPT ![t] = k]
    /\ held' = [held EXCEPT ![t] = record]
    /\ UNCHANGED batch

Go(t, step) ==
    /\ pc' = [pc EXCEPT ![t] = step]
    /\ UNCHANGED <<key, held, batch>>

\* A store of an entry while a call iterates over the used JTIs.
Raced(steps) ==
    [s \in Calls |-> IF steps[s] \in Iterating THEN "raced" ELSE steps[s]]

Clear(t) ==
    /\ key' = [key EXCEPT ![t] = GenesisKey]
    /\ held' = [held EXCEPT ![t] = NoRecord]
    /\ batch' = [batch EXCEPT ![t] = FALSE]

Return(t) == pc' = [pc EXCEPT ![t] = "idle"] /\ Clear(t)

-----------------------------------------------------------------------------
(* Genesis.                                                                *)

\* identityLinks.genesis of a requester that proves that it owns the anchor:
\* refused when sealed.
genesis(t) ==
    /\ ~sealed
    /\ Begin(t, "perform", GenesisKey, GenesisRecord)
    /\ UNCHANGED <<stored, signed>>

\* performGenesis looks at the seal again and signs, which may fail.
performGenesis(t) ==
    /\ pc[t] = "perform"
    /\ \/ ~sealed /\ Go(t, "storeSeal")
       \/ Return(t)
    /\ UNCHANGED <<stored, signed>>

storeSeal(t) ==
    /\ pc[t] = "storeSeal"
    /\ sealed' = TRUE
    /\ Go(t, "storeGenesis")
    /\ UNCHANGED <<records, used, completed, signed>>

storeGenesis(t) ==
    /\ pc[t] = "storeGenesis"
    /\ records' = [records EXCEPT ![GenesisKey] = GenesisRecord]
    /\ IF batch[t] THEN Go(t, "mutate") ELSE Return(t)
    /\ UNCHANGED <<sealed, used, completed, signed>>

-----------------------------------------------------------------------------
(* Writes of keypaths.                                                     *)

\* One record, or all of them.  A revoke that has loaded a record reads it
\* without the lock, and may see the caller's value in it.
WriteRecords(K) ==
    /\ records' = [k \in RecordKeys |-> IF k \in K THEN Written ELSE records[k]]
    /\ held' \in {held,
                  [s \in Calls |-> IF pc[s] = "storeRevoked" /\ key[s] \in K
                                   THEN Written ELSE held[s]]}
    /\ UNCHANGED <<sealed, used, completed, signed, pc, key, batch>>

\* An entry is stored in the map that a call may iterate over; the map as a
\* whole is another one.
WriteUsed(K, steps) ==
    /\ used' = [k \in RecordKeys |-> IF k \in K THEN "written" ELSE used[k]]
    /\ pc' = steps
    /\ UNCHANGED <<sealed, records, completed, signed, key, held, batch>>

\* identityLinks as a whole.
WriteLinks ==
    /\ sealed' \in BOOLEAN
    /\ records' = [k \in RecordKeys |-> Written]
    /\ used' = [k \in RecordKeys |-> "written"]
    /\ UNCHANGED <<completed, signed, local>>

Write ==
    \/ \E k \in RecordKeys : WriteRecords({k}) \/ WriteUsed({k}, Raced(pc))
    \/ WriteRecords(RecordKeys) \/ WriteUsed(RecordKeys, pc)
    \/ WriteLinks

\* Set below a root.  The keypath of the seal and, when there is a seal, that
\* of the genesis record are refused, but no keypath above or below the
\* latter: any record can be written.
setEntity == Write

\* A requester that proves that it owns the anchor; genesis on first need.
batchPersist(t) ==
    /\ pc[t] = "idle"
    /\ pc' = [pc EXCEPT ![t] = IF sealed THEN "mutate" ELSE "perform"]
    /\ batch' = [batch EXCEPT ![t] = TRUE]
    /\ UNCHANGED <<stored, signed, key, held>>

\* One mutation after the other; a bad one ends the call.
mutate(t) ==
    /\ pc[t] = "mutate"
    /\ Write \/ (Return(t) /\ UNCHANGED <<stored, signed>>)

-----------------------------------------------------------------------------
(* Enrollment.                                                             *)

ExpireApproval(a) ==
    /\ expired' = expired \cup {a}
    /\ UNCHANGED <<stored, approvals, outdated, local>>

ExpireRequest(request) ==
    /\ outdated' = outdated \cup {request}
    /\ UNCHANGED <<stored, approvals, expired, local>>

ValidateEnrollmentRequest(request) == request \notin outdated

Sign(a) ==
    /\ Cardinality(approvals) < MaxApprovals
    /\ approvals' = approvals \cup {a}
    /\ UNCHANGED <<stored, expired, outdated, local>>

\* approve and ApproveEnrollment: the approval, with an ID that is drawn, and
\* its credential.
approve(a) ==
    /\ ValidateEnrollmentRequest(a.request)
    /\ a.id \notin GenesisIDs /\ \A other \in approvals : other.id # a.id
    /\ Sign(a)

\* Whoever has a key signs what it likes.
signElsewhere(a) == Sign(a)

validateApproval_OwnKey(a) == a.terms = "asked" /\ a \notin expired

\* All but the comparison with the used JTIs.  The issuer is the one that the
\* envelope names: any key but the subject's will do.
validateApproval(a) ==
    /\ a.issuer # Subject[a.request]
    /\ a.terms = "asked"
    /\ a \notin expired

\* The credential that was issued with approval m goes with approval a.
validateCredential(m, a) ==
    /\ m.issuer = a.issuer /\ m.request = a.request
    /\ m.terms = a.terms
    /\ m \notin expired

\* A presentation is signed by its holder.
validatePresentation(holder, request) == holder = Subject[request]

\* complete reads the clock first.
complete(t, a, m, holder) ==
    /\ ValidateEnrollmentRequest(a.request)
    /\ validateApproval(a)
    /\ validateCredential(m, a)
    /\ validatePresentation(holder, a.request)
    /\ Begin(t, "read", SafeRecordKey[a.id], LinkOf(a))
    /\ UNCHANGED <<stored, signed>>

replayDetected_Never(t) == FALSE

\* The JTI of the approval is among the used ones.
replayDetected(t) == \E a \in held[t].by, k \in RecordKeys : used[k] = a.jti

\* It loads the used JTIs, and then iterates over the map without the lock.
usedApprovalJTIs(t) ==
    /\ pc[t] = "read"
    /\ Go(t, IF replayDetected(t) THEN "spent" ELSE "fresh")
    /\ UNCHANGED <<stored, signed>>

\* What an iteration finds that a store has raced is open.
VerifyCompletion(t) ==
    /\ \/ pc[t] \in {"fresh", "raced"} /\ Go(t, "storeRecord")
       \/ pc[t] \in {"spent", "raced"} /\ Return(t)
    /\ UNCHANGED <<stored, signed>>

\* Whatever record has the key.
storeRecord(t) ==
    /\ pc[t] = "storeRecord"
    /\ records' = [records EXCEPT ![key[t]] = held[t]]
    /\ Go(t, "storeUsed")
    /\ UNCHANGED <<sealed, used, completed, signed>>

\* The entry of the JTI's safe key is replaced.
storeUsed(t) ==
    /\ pc[t] = "storeUsed"
    /\ \E a \in held[t].by :
         /\ used' = [used EXCEPT ![SafeRecordKey[a.jti]] = a.jti]
         /\ completed' = completed \cup {a.jti}
    /\ pc' = Raced([pc EXCEPT ![t] = "idle"]) /\ Clear(t)
    /\ UNCHANGED <<sealed, records, signed>>

\* A caller's value stays a caller's.
Revoked(record) ==
    IF record.status = "written" THEN record
                                 ELSE [record EXCEPT !.status = "revoked"]

\* revoke loads the record, and stores it with another status.
revoke_AnyLink(t, id) ==
    LET k == SafeRecordKey[id] IN
    /\ records[k].status # "none"
    /\ Begin(t, "storeRevoked", k, Revoked(records[k]))
    /\ UNCHANGED <<stored, signed>>

revoke(t, id) ==
    LET k == SafeRecordKey[id] IN
    /\ id \notin GenesisIDs
    /\ records[k].status # "none"
    /\ Begin(t, "storeRevoked", k, Revoked(records[k]))
    /\ UNCHANGED <<stored, signed>>

storeRevoked(t) ==
    /\ pc[t] = "storeRevoked"
    /\ records' = [records EXCEPT ![key[t]] = held[t]]
    /\ Return(t)
    /\ UNCHANGED <<sealed, used, completed, signed>>

Next ==
    \/ \E t \in Calls :
         \/ genesis(t) \/ performGenesis(t) \/ storeSeal(t) \/ storeGenesis(t)
         \/ batchPersist(t) \/ mutate(t)
         \/ usedApprovalJTIs(t) \/ VerifyCompletion(t)
         \/ storeRecord(t) \/ storeUsed(t) \/ storeRevoked(t)
         \/ \E id \in LinkIDs : revoke(t, id)
         \/ \E a, m \in approvals, holder \in Identities :
              complete(t, a, m, holder)
    \/ setEntity
    \/ \E a \in Approval : approve(a) \/ signElsewhere(a)
    \/ \E a \in approvals : ExpireApproval(a)
    \/ \E request \in Requests : ExpireRequest(request)

Spec == Init /\ [][Next]_vars

-----------------------------------------------------------------------------
(* A JTI's place in usedApprovalJTIs was taken, by another JTI with its    *)
(* key or by a caller.                                                     *)
Displaced(jti) ==
    \/ used[SafeRecordKey[jti]] = "written"
    \/ \E other \in completed \ {jti} :
         SafeRecordKey[other] = SafeRecordKey[jti]

(* The call that has stored the record of approval a and not yet its JTI.  *)
Completing(a) == \E t \in Calls : pc[t] = "storeUsed" /\ a \in held[t].by

(* A JTI that was stored as used is not accepted again, unless its place   *)
(* was taken, or the iteration over the used JTIs was raced by a store of  *)
(* one.  This is about JTIs: another approval with the same ID replaces    *)
(* the record, one of a revoked link too.                                  *)
CompletesOnce ==
    [][\A t \in Calls : pc[t] = "fresh" /\ pc'[t] = "storeRecord" =>
         \A a \in held[t].by : a.jti \notin completed \/ Displaced(a.jti)]_vars

(* A link's record, active or revoked, is the one of an approval with its  *)
(* key whose JTI is used or about to be stored as used, which another key  *)
(* than the subject's signed, within what was asked for and with fresh     *)
(* authentication, whatever was stored, revoked and completed between the  *)
(* verification and the stores.  That the other key is one of the entity   *)
(* (identity_link.go:12) is not checked anywhere, and not stated here.     *)
LinksAreApproved ==
    \A k \in RecordKeys : records[k].status \in {"active", "revoked"} =>
        \E a \in Approval :
            /\ records[k].by = {a} /\ SafeRecordKey[a.id] = k
            /\ a.issuer # Subject[a.request] /\ a.terms = "asked"
            /\ a.jti \in completed \/ Completing(a)

(* A sealed anchor has a record at the key of the genesis record, and it   *)
(* is not revoked, except between the two stores of a genesis.  It is the  *)
(* genesis record unless a caller wrote over it, or an approval that bears *)
(* the genesis ID was completed and its link took the place.               *)
GenesisHolds ==
    sealed => \/ records[GenesisKey].status \in {"genesis", "written"}
              \/ /\ records[GenesisKey].status = "active"
                 /\ \A a \in records[GenesisKey].by : a.id = Genesis
              \/ \E t \in Calls : pc[t] = "storeGenesis"
=============================================================================
