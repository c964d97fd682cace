--------------------------- MODULE ChatCellProofs ---------------------------
(***************************************************************************)
(* Theorems about ChatCell, for any invitees, keys, acceptances, callers   *)
(* and limit on messages.                                                  *)
(***************************************************************************)
EXTENDS ChatCell, TLAPS

(* A record's artifact is the last one issued, or none; who is not invited *)
(* has neither artifact nor acceptance, who is invited has a key, and no   *)
(* use is of the nil artifact.                                             *)
RecordsAreCurrent ==
    /\ \A u \in Members :
         invitations[u].artifact = 0 \/ invitations[u].artifact = Len(artifacts[u])
    /\ \A u \in Members :
         \/ invitations[u].status # "none" /\ invitations[u].key \in Keys
         \/ /\ invitations[u].status = "none"
            /\ invitations[u].artifact = 0 /\ invitations[u].acceptance = 0
    /\ \A c \in consumed : c.artifact # 0

(* Who is out is declined or revoked.                                      *)
OutAreRefused == \A u \in out : invitations[u].status \in Refused

(* Composed bodies are numbered, and no two drafts hold the same.          *)
DraftsAreOwn ==
    /\ \A r \in Callers : drafts[r] <= composed
    /\ \A i \in 1..Len(sent) : sent[i].body <= composed
    /\ \A r, q \in Callers : drafts[r] = drafts[q] /\ drafts[r] # 0 => r = q

MembershipInv == LedgerAgrees /\ RecordsAreCurrent /\ OutAreRefused
TalkInv == Transcript /\ DraftsAreOwn
IInv == TypeOK /\ MembershipInv /\ TalkInv

-----------------------------------------------------------------------------
(* The invariant holds of a new cell.                                      *)
LEMMA InitIInv == Init => IInv
<1> SUFFICES ASSUME Init PROVE IInv
  OBVIOUS
<1>1. TypeOK
  BY DEF Init, TypeOK, Invitation, NoInvitation, Statuses
<1>2. MembershipInv
  BY DEF Init, MembershipInv, LedgerAgrees, RecordsAreCurrent, OutAreRefused,
         NoInvitation
<1>3. TalkInv
  BY ChatAssumption DEF Init, TalkInv, Transcript, DraftsAreOwn
<1> QED
  BY <1>1, <1>2, <1>3 DEF IInv

(* Steps that leave the messages alone.                                    *)
LEMMA TalkUnchanged == TalkInv /\ UNCHANGED talk => TalkInv'
  BY DEF talk, TalkInv, Transcript, DraftsAreOwn

(* Steps that leave artifacts and the ledger alone, and of a record at     *)
(* most withdraw the acceptance, change its status or its key.             *)
LEMMA RecordStep ==
  ASSUME TypeOK, MembershipInv,
         consumed' = consumed, artifacts' = artifacts,
         \A u \in Members :
           /\ invitations'[u].artifact = invitations[u].artifact
           /\ \/ invitations'[u].acceptance = invitations[u].acceptance
              \/ invitations'[u].acceptance = 0
           /\ \/ invitations'[u].status # "none" /\ invitations'[u].key \in Keys
              \/ invitations'[u].status = "none" /\ invitations[u].status = "none",
         \A u \in out' : invitations'[u].status \in Refused
  PROVE  MembershipInv'
<1> USE DEF MembershipInv
<1>1. LedgerAgrees'
  BY DEF LedgerAgrees, TypeOK, Consumption
<1>2. RecordsAreCurrent'
  BY DEF RecordsAreCurrent
<1>3. OutAreRefused'
  BY DEF OutAreRefused
<1> QED
  BY <1>1, <1>2, <1>3

(* People are invited, for the first time or again.                        *)
LEMMA InviteStep ==
  ASSUME IInv, NEW S \in SUBSET Members, NEW key \in [S -> Keys],
         inviteIdentities(key)
  PROVE  IInv'
<1> USE DEF IInv
<1>1. invitations' \in [Members -> Invitation]
  BY DEF inviteIdentities, Invited, NoInvitation, Invitation, TypeOK, Statuses
<1>2. TypeOK'
  BY <1>1 DEF TypeOK, inviteIdentities, talk
<1>3. ASSUME NEW u \in Members
      PROVE  /\ invitations'[u].artifact = invitations[u].artifact
             /\ \/ invitations'[u].acceptance = invitations[u].acceptance
                \/ invitations'[u].acceptance = 0
             /\ \/ invitations'[u].status # "none" /\ invitations'[u].key \in Keys
                \/ invitations'[u].status = "none" /\ invitations[u].status = "none"
             /\ u \notin S => invitations'[u] = invitations[u]
  BY DEF inviteIdentities, Invited, NoInvitation, Invitation, TypeOK,
         MembershipInv, RecordsAreCurrent
<1>4. \A u \in out' : invitations'[u].status \in Refused
  BY <1>3 DEF inviteIdentities, TypeOK, MembershipInv, OutAreRefused
<1>5. MembershipInv'
  BY <1>3, <1>4, RecordStep DEF inviteIdentities
<1>6. TalkInv'
  BY TalkUnchanged DEF inviteIdentities
<1> QED
  BY <1>2, <1>5, <1>6

(* Invitations are accepted, declined or revoked by UUID.                  *)
LEMMA StatusStep ==
  ASSUME IInv, NEW targets \in SUBSET Members,
         NEW status \in {"accepted"} \cup Refused,
         updateStatuses(targets, status)
  PROVE  IInv'
<1> USE DEF IInv
<1>1. invitations' \in [Members -> Invitation]
  BY DEF updateStatuses, Invitation, TypeOK, Statuses, Refused
<1>2. TypeOK'
  BY <1>1 DEF TypeOK, updateStatuses, talk
<1>3. ASSUME NEW u \in Members
      PROVE  /\ invitations'[u].artifact = invitations[u].artifact
             /\ invitations'[u].acceptance = invitations[u].acceptance
             /\ \/ invitations'[u].status # "none" /\ invitations'[u].key \in Keys
                \/ invitations'[u].status = "none" /\ invitations[u].status = "none"
             /\ u \in targets => invitations'[u].status = status
             /\ u \notin targets => invitations'[u] = invitations[u]
  BY DEF updateStatuses, Invitation, TypeOK, Refused, Known, MembershipInv,
         RecordsAreCurrent
<1>4. \A u \in out' : invitations'[u].status \in Refused
  BY <1>3 DEF updateStatuses, TypeOK, MembershipInv, OutAreRefused, Known
<1>5. MembershipInv'
  BY <1>3, <1>4, RecordStep DEF updateStatuses
<1>6. TalkInv'
  BY TalkUnchanged DEF updateStatuses
<1> QED
  BY <1>2, <1>5, <1>6

(* An artifact expires.                                                    *)
LEMMA ExpireStep ==
  ASSUME IInv, NEW u \in Members, ArtifactExpires(u)
  PROVE  IInv'
<1> USE DEF IInv
<1>1. invitations' \in [Members -> Invitation]
  BY DEF ArtifactExpires, Invitation, TypeOK
<1>2. TypeOK'
  BY <1>1 DEF TypeOK, ArtifactExpires, talk
<1>3. ASSUME NEW v \in Members
      PROVE  /\ invitations'[v].artifact = invitations[v].artifact
             /\ invitations'[v].acceptance = invitations[v].acceptance
             /\ invitations'[v].status = invitations[v].status
             /\ invitations'[v].key = invitations[v].key
  BY DEF ArtifactExpires, Invitation, TypeOK
<1>4. \A v \in out' : invitations'[v].status \in Refused
  BY <1>3 DEF ArtifactExpires, TypeOK, MembershipInv, OutAreRefused
<1>5. MembershipInv'
  <2>1. \A v \in Members :
          \/ invitations'[v].status # "none" /\ invitations'[v].key \in Keys
          \/ invitations'[v].status = "none" /\ invitations[v].status = "none"
    BY <1>3 DEF MembershipInv, RecordsAreCurrent
  <2> QED
    BY <1>3, <1>4, <2>1, RecordStep DEF ArtifactExpires
<1>6. TalkInv'
  BY TalkUnchanged DEF ArtifactExpires
<1> QED
  BY <1>2, <1>5, <1>6

(* Pending changes the status only.                                        *)
LEMMA PendingFacts ==
  ASSUME NEW x \in Invitation
  PROVE  /\ Pending(x) \in Invitation
         /\ Pending(x).artifact = x.artifact
         /\ Pending(x).acceptance = x.acceptance
         /\ Pending(x).key = x.key
         /\ Pending(x).expired = x.expired
         /\ Pending(x).status = x.status \/ Pending(x).status = "pending"
  BY DEF Pending, Invitation, Statuses

(* New artifacts: the uses of the ones they replace leave the ledger.      *)
LEMMA IssueStep ==
  ASSUME IInv, NEW done \in SUBSET Members, NEW failed \in SUBSET Members,
         Issue(done, failed),
         \A u \in done \cup failed :
           invitations[u].status \notin {"none", "revoked"}
  PROVE  IInv'
<1> USE DEF IInv
<1>1. \A u \in Members : /\ invitations[u] \in Invitation
                         /\ artifacts[u] \in Seq(Keys)
                         /\ Len(artifacts[u]) \in Nat
  BY DEF TypeOK
<1> DEFINE new(u) == [Pending(invitations[u]) EXCEPT
                        !.artifact = Len(artifacts[u]) + 1, !.expired = FALSE,
                        !.acceptance = 0]
<1>a. ASSUME NEW u \in Members
      PROVE  /\ Pending(invitations[u]) \in Invitation
             /\ Pending(invitations[u]).artifact = invitations[u].artifact
             /\ Pending(invitations[u]).acceptance = invitations[u].acceptance
             /\ Pending(invitations[u]).key = invitations[u].key
             /\ \/ Pending(invitations[u]).status = invitations[u].status
                \/ Pending(invitations[u]).status = "pending"
  BY <1>1, PendingFacts
<1>b. ASSUME NEW u \in Members
      PROVE  /\ new(u) \in Invitation
             /\ new(u).artifact = Len(artifacts[u]) + 1
             /\ new(u).acceptance = 0 /\ new(u).key = invitations[u].key
             /\ \/ new(u).status = invitations[u].status
                \/ new(u).status = "pending"
  <2>1. Len(artifacts[u]) + 1 \in Nat
    BY <1>1
  <2>2. PICK x \in Invitation : x = Pending(invitations[u])
    BY <1>a
  <2>3. PICK n \in Nat : n = Len(artifacts[u]) + 1
    BY <2>1
  <2>4. PICK y : y = [x EXCEPT !.artifact = n, !.expired = FALSE, !.acceptance = 0]
    OBVIOUS
  <2>5. y = new(u)
    BY <2>2, <2>3, <2>4
  <2>6. /\ y \in Invitation /\ y.artifact = n /\ y.acceptance = 0
        /\ y.key = x.key /\ y.status = x.status
    BY <2>4 DEF Invitation
  <2> HIDE DEF new
  <2> QED
    BY <1>a, <2>2, <2>3, <2>5, <2>6
<1>c. invitations' = [u \in Members |->
         IF u \in done THEN new(u)
         ELSE IF u \in failed THEN Pending(invitations[u]) ELSE invitations[u]]
  BY DEF Issue
<1> HIDE DEF new
<1>2. invitations' \in [Members -> Invitation]
  BY <1>1, <1>a, <1>b, <1>c
<1>3. artifacts' \in [Members -> Seq(Keys)]
  <2>1. \A u \in done : invitations[u].key \in Keys
    BY DEF MembershipInv, RecordsAreCurrent
  <2> QED
    <3>1. ASSUME NEW u \in Members
          PROVE  artifacts'[u] \in Seq(Keys)
      <4>1. CASE u \in done
        <5>1. PICK s \in Seq(Keys) : s = artifacts[u]
          BY <1>1
        <5>2. PICK k \in Keys : k = invitations[u].key
          BY <2>1, <4>1
        <5>3. artifacts'[u] = Append(s, k)
          BY <4>1, <5>1, <5>2 DEF Issue
        <5> QED
          BY <5>3
      <4>2. CASE u \notin done
        BY <1>1, <4>2 DEF Issue
      <4> QED
        BY <4>1, <4>2
    <3> QED
      BY <3>1 DEF Issue
<1>4. TypeOK'
  BY <1>2, <1>3 DEF TypeOK, Issue, talk
<1>5. ASSUME NEW u \in done
      PROVE  /\ invitations'[u].artifact = Len(artifacts[u]) + 1
             /\ invitations'[u].acceptance = 0
             /\ invitations'[u].status # "none" /\ invitations'[u].key \in Keys
             /\ Len(artifacts'[u]) = Len(artifacts[u]) + 1
  <2>1. artifacts'[u] = Append(artifacts[u], invitations[u].key)
        /\ invitations[u].key \in Keys /\ invitations[u].status # "none"
    BY DEF Issue, MembershipInv, RecordsAreCurrent
  <2>2. invitations'[u] = new(u)
    BY <1>c
  <2>3. Len(artifacts'[u]) = Len(artifacts[u]) + 1
    BY <1>1, <2>1
  <2> QED
    BY <1>b, <2>1, <2>2, <2>3
<1>6. ASSUME NEW u \in Members \ done
      PROVE  /\ invitations'[u].artifact = invitations[u].artifact
             /\ invitations'[u].acceptance = invitations[u].acceptance
             /\ invitations'[u].key = invitations[u].key
             /\ \/ invitations'[u].status = invitations[u].status
                \/ u \in failed /\ invitations'[u].status = "pending"
             /\ artifacts'[u] = artifacts[u]
  <2>1. artifacts'[u] = artifacts[u]
    BY DEF Issue
  <2>2. CASE u \in failed
    <3>1. invitations'[u] = Pending(invitations[u])
      BY <1>c, <2>2
    <3> QED
      BY <1>a, <2>1, <2>2, <3>1
  <2>3. CASE u \notin failed
    <3>1. invitations'[u] = invitations[u]
      BY <1>c, <2>3
    <3> QED
      BY <2>1, <3>1
  <2> QED
    BY <2>2, <2>3
<1>7. consumed' = {c \in consumed : c.member \notin done}
  BY DEF Issue, Superseded, MembershipInv, LedgerAgrees
<1>8. \A c \in consumed' : c \in consumed /\ c.member \in Members \ done
  BY <1>7 DEF TypeOK, Consumption
<1>9. LedgerAgrees'
  <2>1. \A c \in consumed' : c.artifact = invitations'[c.member].artifact
    BY <1>6, <1>8 DEF MembershipInv, LedgerAgrees
  <2>2. \A c, d \in consumed' :
          c.acceptance = d.acceptance \/ c.member = d.member => c = d
    BY <1>8 DEF MembershipInv, LedgerAgrees
  <2>3. ASSUME NEW u \in Members, invitations'[u].acceptance # 0
        PROVE  [member |-> u, artifact |-> invitations'[u].artifact,
                acceptance |-> invitations'[u].acceptance] \in consumed'
    <3>1. u \in Members \ done
      BY <1>5, <2>3
    <3> QED
      BY <1>6, <1>7, <2>3, <3>1 DEF MembershipInv, LedgerAgrees
  <2> QED
    BY <2>1, <2>2, <2>3 DEF LedgerAgrees
<1>10. RecordsAreCurrent'
  <2>1. ASSUME NEW u \in Members
        PROVE  /\ \/ invitations'[u].artifact = 0
                  \/ invitations'[u].artifact = Len(artifacts'[u])
               /\ \/ invitations'[u].status # "none" /\ invitations'[u].key \in Keys
                  \/ /\ invitations'[u].status = "none"
                     /\ invitations'[u].artifact = 0
                     /\ invitations'[u].acceptance = 0
    <3>1. CASE u \in done
      BY <1>5, <3>1
    <3>2. CASE u \notin done
      BY <1>6, <3>2 DEF MembershipInv, RecordsAreCurrent
    <3> QED
      BY <3>1, <3>2
  <2> QED
    BY <1>8, <2>1 DEF MembershipInv, RecordsAreCurrent
<1>11. OutAreRefused'
  BY <1>6 DEF Issue, TypeOK, MembershipInv, OutAreRefused
<1>12. TalkInv'
  BY TalkUnchanged DEF Issue
<1> QED
  BY <1>4, <1>9, <1>10, <1>11, <1>12 DEF MembershipInv

(* An artifact is accepted: its use enters the ledger.                     *)
LEMMA AcceptStep ==
  ASSUME IInv, NEW u \in Members, NEW artifact \in 1..MaxArtifacts,
         NEW id \in AcceptanceIDs, acceptArtifact(u, artifact, id)
  PROVE  IInv'
<1> USE DEF IInv
<1>u. PICK use : use = [member |-> u, artifact |-> artifact, acceptance |-> id]
  OBVIOUS
<1>1. /\ use \in Consumption /\ use.member = u
      /\ use.artifact = artifact /\ use.acceptance = id
      /\ consumed' = consumed \cup {use}
      /\ artifact # 0 /\ id # 0
      /\ invitations[u].artifact = artifact
      /\ invitations[u].status \notin Refused
  BY <1>u, ChatAssumption DEF acceptArtifact, Accepted, Consumption
<1>2. /\ invitations' \in [Members -> Invitation]
      /\ invitations'[u].artifact = artifact
      /\ invitations'[u].acceptance = id
      /\ invitations'[u].key = invitations[u].key
      /\ invitations'[u].status = "accepted"
      /\ \A v \in Members \ {u} : invitations'[v] = invitations[v]
  <2>1. invitations[u] \in Invitation /\ artifact \in Nat
    BY DEF TypeOK
  <2>2. PICK y : y = [invitations[u] EXCEPT
                        !.status = "accepted", !.artifact = artifact,
                        !.acceptance = id]
    OBVIOUS
  <2>3. /\ y \in Invitation /\ y.artifact = artifact /\ y.acceptance = id
        /\ y.key = invitations[u].key /\ y.status = "accepted"
    BY <2>1, <2>2 DEF Invitation, Statuses
  <2>4. invitations' = [invitations EXCEPT ![u] = y]
    BY <2>2 DEF acceptArtifact, Accepted
  <2> QED
    BY <2>3, <2>4 DEF TypeOK
<1>3. TypeOK'
  BY <1>1, <1>2 DEF TypeOK, acceptArtifact, Accepted, talk
<1>4. \/ use \in consumed
      \/ \A c \in consumed : c.member # u /\ c.acceptance # id
  BY <1>u, <1>1 DEF acceptArtifact, Fresh, MembershipInv, LedgerAgrees
<1>5. LedgerAgrees'
  <2>1. \A c \in consumed' : c.artifact = invitations'[c.member].artifact
    BY <1>1, <1>2 DEF MembershipInv, LedgerAgrees, TypeOK, Consumption
  <2>2. \A c, d \in consumed' :
          c.acceptance = d.acceptance \/ c.member = d.member => c = d
    BY <1>1, <1>4 DEF MembershipInv, LedgerAgrees
  <2>3. \A v \in Members : invitations'[v].acceptance # 0 =>
          [member |-> v, artifact |-> invitations'[v].artifact,
           acceptance |-> invitations'[v].acceptance] \in consumed'
    BY <1>u, <1>1, <1>2 DEF MembershipInv, LedgerAgrees
  <2> QED
    BY <2>1, <2>2, <2>3 DEF LedgerAgrees
<1>6. RecordsAreCurrent'
  <2>1. invitations[u].status # "none"
    BY <1>1 DEF MembershipInv, RecordsAreCurrent
  <2>2. invitations[u].key \in Keys /\ artifact = Len(artifacts[u])
    BY <1>1, <2>1 DEF MembershipInv, RecordsAreCurrent
  <2>3. artifacts' = artifacts
    BY DEF acceptArtifact, Accepted
  <2> QED
    BY <1>1, <1>2, <2>2, <2>3 DEF MembershipInv, RecordsAreCurrent
<1>7. OutAreRefused'
  <2>1. out' = out /\ u \notin out
    BY <1>1 DEF acceptArtifact, Accepted, MembershipInv, OutAreRefused
  <2> QED
    BY <1>2, <2>1 DEF MembershipInv, OutAreRefused, TypeOK
<1>8. TalkInv'
  BY TalkUnchanged DEF acceptArtifact, Accepted
<1> QED
  BY <1>3, <1>5, <1>6, <1>7, <1>8 DEF MembershipInv

(* All invitations and their ledger are dropped.                           *)
LEMMA ClearStep == ASSUME IInv, clearInvites PROVE IInv'
<1> USE DEF IInv
<1>1. TypeOK'
  BY DEF clearInvites, TypeOK, NoInvitation, Invitation, Statuses, talk
<1>2. MembershipInv'
  BY DEF clearInvites, MembershipInv, LedgerAgrees, RecordsAreCurrent,
         OutAreRefused, NoInvitation
<1>3. TalkInv'
  BY TalkUnchanged DEF clearInvites
<1> QED
  BY <1>1, <1>2, <1>3

-----------------------------------------------------------------------------
(* Steps that leave the invitations alone.                                 *)
LEMMA MembershipUnchanged ==
  MembershipInv /\ UNCHANGED membership => MembershipInv'
  BY DEF membership, MembershipInv, LedgerAgrees, RecordsAreCurrent,
         OutAreRefused

(* What is kept of the messages and a new one is the end of all that was   *)
(* sent.                                                                   *)
LEMMA KeptIsTheEnd ==
  ASSUME NEW all \in Seq(Message), NEW longer \in Seq(Message),
         Len(longer) <= Len(all),
         Len(longer) = Len(all) \/ Len(longer) > MessagesLimit,
         \A i \in 1..Len(longer) : longer[i] = all[Len(all) - Len(longer) + i]
  PROVE  /\ Kept(longer) \in Seq(Message)
         /\ Len(Kept(longer)) = IF Len(all) < MessagesLimit THEN Len(all)
                                                            ELSE MessagesLimit
         /\ \A i \in 1..Len(Kept(longer)) :
              Kept(longer)[i] = all[Len(all) - Len(Kept(longer)) + i]
<1> DEFINE n == Len(longer) - MessagesLimit
<1>1. Len(all) \in Nat /\ Len(longer) \in Nat /\ MessagesLimit \in Nat \ {0}
  BY ChatAssumption
<1>2. CASE Len(longer) > MessagesLimit
  <2>1. PICK kept : kept = SubSeq(longer, n + 1, Len(longer))
    OBVIOUS
  <2>2. n \in Nat /\ n + 1 \in 1..Len(longer) /\ n + MessagesLimit = Len(longer)
    BY <1>1, <1>2
  <2> HIDE DEF n
  <2>3. /\ kept \in Seq(Message) /\ Len(kept) = MessagesLimit
        /\ \A i \in 1..MessagesLimit : kept[i] = longer[n + i]
    BY <1>1, <2>1, <2>2
  <2>4. ASSUME NEW i \in 1..MessagesLimit
        PROVE  kept[i] = all[Len(all) - MessagesLimit + i]
    <3>1. n + i \in 1..Len(longer)
      BY <1>1, <2>2
    <3>2. Len(all) - Len(longer) + (n + i) = Len(all) - MessagesLimit + i
      <4>1. PICK a \in Int : a = Len(all)
        BY <1>1
      <4>2. PICK l \in Int : l = Len(longer)
        BY <1>1
      <4>3. PICK k \in Int : k = n
        BY <2>2
      <4>4. PICK lim \in Int : lim = MessagesLimit
        BY <1>1
      <4>5. k + lim = l /\ i \in Int
        BY <2>2, <4>2, <4>3, <4>4
      <4>6. a - l + (k + i) = a - lim + i
        BY <4>5
      <4> QED
        BY <4>1, <4>2, <4>3, <4>4, <4>6
    <3>3. longer[n + i] = all[Len(all) - Len(longer) + (n + i)]
      BY <3>1
    <3> QED
      BY <2>3, <3>2, <3>3
  <2>5. Kept(longer) = kept
    BY <1>2, <2>1 DEF Kept, n
  <2>6. ~(Len(all) < MessagesLimit)
    BY <1>1, <1>2
  <2> QED
    BY <2>3, <2>4, <2>5, <2>6
<1>3. CASE ~(Len(longer) > MessagesLimit)
  <2>1. Kept(longer) = longer
    BY <1>3 DEF Kept
  <2>2. Len(longer) = IF Len(all) < MessagesLimit THEN Len(all) ELSE MessagesLimit
    BY <1>1, <1>3
  <2> QED
    BY <2>1, <2>2
<1> QED
  BY <1>2, <1>3

(* A message is sent, with a draft or without.                             *)
LEMMA StoreStep ==
  ASSUME IInv, NEW r \in Callers, NEW body \in Nat, store(r, body),
         drafts' \in [Callers -> Nat],
         body = 0 \/ body = drafts[r],
         \A q \in Callers : \/ drafts'[q] = 0
                            \/ drafts'[q] = drafts[q] /\ (q = r => body = 0)
  PROVE  IInv'
<1> USE DEF IInv
<1>m. PICK m \in Message : m = [by |-> r, body |-> body]
  BY DEF Message
<1>1. m.by = r /\ m.body = body
  BY <1>m
<1>2. /\ sent' = Append(sent, m) /\ messages' = Kept(Append(messages, m))
      /\ participants' = participants \cup {r} /\ composed' = composed
      /\ UNCHANGED membership
  BY <1>m DEF store
<1>3. /\ sent \in Seq(Message) /\ messages \in Seq(Message)
      /\ Len(sent) \in Nat /\ Len(messages) \in Nat
      /\ composed \in Nat /\ drafts \in [Callers -> Nat]
  BY DEF TypeOK
<1>4. /\ sent' \in Seq(Message) /\ Len(sent') = Len(sent) + 1
      /\ sent'[Len(sent) + 1] = m
      /\ \A i \in 1..Len(sent) : sent'[i] = sent[i]
  BY <1>2, <1>3
<1>5. /\ messages' \in Seq(Message)
      /\ Len(messages') = IF Len(sent') < MessagesLimit THEN Len(sent')
                                                        ELSE MessagesLimit
      /\ \A i \in 1..Len(messages') :
           messages'[i] = sent'[Len(sent') - Len(messages') + i]
  <2>a. Append(messages, m) \in Seq(Message)
    BY <1>3
  <2>1. PICK longer \in Seq(Message) : longer = Append(messages, m)
    BY <2>a
  <2>2. /\ Len(longer) = Len(messages) + 1
        /\ longer[Len(messages) + 1] = m
        /\ \A i \in 1..Len(messages) : longer[i] = messages[i]
    BY <1>3, <2>1
  <2>3. Len(messages) = IF Len(sent) < MessagesLimit THEN Len(sent)
                                                     ELSE MessagesLimit
    BY DEF TalkInv, Transcript
  <2>4. /\ Len(longer) <= Len(sent')
        /\ Len(longer) = Len(sent') \/ Len(longer) > MessagesLimit
    BY <1>3, <1>4, <2>2, <2>3, ChatAssumption
  <2>5. ASSUME NEW i \in 1..Len(longer)
        PROVE  longer[i] = sent'[Len(sent') - Len(longer) + i]
    <3>1. Len(sent') - Len(longer) + i = Len(sent) - Len(messages) + i
      BY <1>3, <1>4, <2>2
    <3>2. CASE i = Len(messages) + 1
      <4>1. Len(sent) - Len(messages) + i = Len(sent) + 1
        BY <1>3, <3>2
      <4> QED
        BY <1>4, <2>2, <3>1, <3>2, <4>1
    <3>3. CASE i # Len(messages) + 1
      <4>1. i \in 1..Len(messages)
        BY <1>3, <2>2, <3>3
      <4>2. Len(sent) - Len(messages) + i \in 1..Len(sent)
        BY <1>3, <2>3, <4>1, ChatAssumption
      <4>3. messages[i] = sent[Len(sent) - Len(messages) + i]
        BY <4>1 DEF TalkInv, Transcript
      <4> QED
        BY <1>4, <2>2, <3>1, <4>1, <4>2, <4>3
    <3> QED
      BY <3>2, <3>3
  <2>6. PICK all \in Seq(Message) : all = sent'
    BY <1>4
  <2> QED
    BY <1>2, <2>1, <2>4, <2>5, <2>6, KeptIsTheEnd
<1>6. TypeOK'
  BY <1>2, <1>4, <1>5 DEF TypeOK, membership
<1>7. ASSUME NEW i \in 1..Len(sent')
      PROVE  \/ i \in 1..Len(sent) /\ sent'[i] = sent[i]
             \/ i = Len(sent) + 1 /\ sent'[i] = m
  BY <1>3, <1>4
<1>8. \A i \in 1..Len(sent) : sent[i].body = body => body = 0
  BY DEF TalkInv, Transcript
<1>9. Transcript'
  <2>1. \A i, j \in 1..Len(sent') :
          sent'[i].body = sent'[j].body /\ sent'[i].body # 0 => i = j
    BY <1>1, <1>7, <1>8 DEF TalkInv, Transcript
  <2>2. ASSUME NEW q \in Callers, NEW i \in 1..Len(sent'), drafts'[q] # 0
        PROVE  sent'[i].body # drafts'[q]
    <3>1. drafts'[q] = drafts[q] /\ (q = r => body = 0)
      BY <2>2
    <3>2. body # drafts[q]
      BY <2>2, <3>1 DEF TalkInv, DraftsAreOwn
    <3> QED
      BY <1>1, <1>7, <2>2, <3>1, <3>2 DEF TalkInv, Transcript
  <2>3. \A i \in 1..Len(sent') : sent'[i].by \in participants'
    BY <1>1, <1>2, <1>7 DEF TalkInv, Transcript
  <2> QED
    BY <1>5, <2>1, <2>2, <2>3 DEF Transcript
<1>10. DraftsAreOwn'
  <2>1. body <= composed
    BY <1>3 DEF TalkInv, DraftsAreOwn
  <2>2. \A i \in 1..Len(sent') : sent'[i].body <= composed'
    BY <1>1, <1>2, <1>7, <2>1 DEF TalkInv, DraftsAreOwn
  <2>3. ASSUME NEW q \in Callers
        PROVE  drafts'[q] <= composed'
    <3>1. drafts[q] <= composed /\ drafts[q] \in Nat
      BY <1>3 DEF TalkInv, DraftsAreOwn
    <3>2. drafts'[q] = 0 \/ drafts'[q] = drafts[q]
      OBVIOUS
    <3> QED
      BY <1>2, <1>3, <3>1, <3>2
  <2>4. \A p, q \in Callers : drafts'[p] = drafts'[q] /\ drafts'[p] # 0 => p = q
    BY DEF TalkInv, DraftsAreOwn
  <2> QED
    BY <2>2, <2>3, <2>4 DEF DraftsAreOwn
<1> QED
  BY <1>2, <1>6, <1>9, <1>10, MembershipUnchanged DEF TalkInv

(* A draft is written or dropped.                                          *)
LEMMA DraftStep ==
  ASSUME IInv, NEW r \in Callers, compose(r) \/ clearComposer(r)
  PROVE  IInv'
<1> USE DEF IInv
<1>1. composed \in Nat /\ drafts \in [Callers -> Nat] /\ sent \in Seq(Message)
      /\ \A i \in 1..Len(sent) : sent[i].body \in Nat
  <2>1. \A i \in 1..Len(sent) : sent[i] \in Message
    BY DEF TypeOK
  <2> QED
    BY <2>1 DEF TypeOK, Message
<1>2. /\ composed' \in Nat /\ composed <= composed'
      /\ drafts' \in [Callers -> Nat]
      /\ sent' = sent /\ messages' = messages /\ participants' = participants
      /\ UNCHANGED membership
      /\ \A q \in Callers \ {r} : drafts'[q] = drafts[q]
      /\ \/ drafts'[r] = 0
         \/ drafts'[r] = composed + 1 /\ composed' = composed + 1
  <2>1. CASE compose(r)
    BY <1>1, <2>1 DEF compose, membership
  <2>2. CASE clearComposer(r)
    BY <1>1, <2>2 DEF clearComposer, membership
  <2> QED
    BY <2>1, <2>2
<1>3. TypeOK'
  BY <1>2 DEF TypeOK, membership
<1>4. Transcript'
  <2>1. ASSUME NEW q \in Callers, NEW i \in 1..Len(sent), drafts'[q] # 0
        PROVE  sent[i].body # drafts'[q]
    <3>1. CASE q = r
      BY <1>1, <1>2, <2>1, <3>1 DEF TalkInv, DraftsAreOwn
    <3>2. CASE q # r
      BY <1>2, <2>1, <3>2 DEF TalkInv, Transcript
    <3> QED
      BY <3>1, <3>2
  <2> QED
    BY <1>2, <2>1 DEF TalkInv, Transcript
<1>5. DraftsAreOwn'
  <2>1. \A q \in Callers : drafts'[q] <= composed'
    BY <1>1, <1>2 DEF TalkInv, DraftsAreOwn
  <2>2. \A i \in 1..Len(sent') : sent'[i].body <= composed'
    BY <1>1, <1>2 DEF TalkInv, DraftsAreOwn
  <2>3. \A p, q \in Callers : drafts'[p] = drafts'[q] /\ drafts'[p] # 0 => p = q
    BY <1>1, <1>2 DEF TalkInv, DraftsAreOwn
  <2> QED
    BY <2>1, <2>2, <2>3 DEF DraftsAreOwn
<1> QED
  BY <1>2, <1>3, <1>4, <1>5, MembershipUnchanged DEF TalkInv

(* A reader becomes a participant.                                         *)
LEMMA ReadStep ==
  ASSUME IInv, NEW r \in Callers, read(r)
  PROVE  IInv'
<1> USE DEF IInv
<1>1. TypeOK'
  BY DEF TypeOK, read, membership
<1>2. TalkInv'
  BY DEF TalkInv, Transcript, DraftsAreOwn, read
<1> QED
  BY <1>1, <1>2, MembershipUnchanged DEF read

-----------------------------------------------------------------------------
(* Every step keeps the invariant.                                         *)
LEMMA NextIInv == IInv /\ [Next]_vars => IInv'
<1> SUFFICES ASSUME IInv, [Next]_vars PROVE IInv'
  OBVIOUS
<1>1. CASE \E S \in SUBSET Members : \E key \in [S -> Keys] :
             inviteIdentities(key)
  BY <1>1, InviteStep
<1>2. CASE \E targets \in SUBSET Members : generateArtifacts(targets)
  <2>1. PICK targets \in SUBSET Members : generateArtifacts(targets)
    BY <1>2
  <2>2. ToIssue(targets) \subseteq targets /\ Issue(ToIssue(targets), {})
        /\ targets \subseteq Eligible
    BY <2>1 DEF generateArtifacts, ToIssue
  <2>3. \A u \in ToIssue(targets) \cup {} :
          u \in Members /\ invitations[u].status \notin {"none", "revoked"}
    BY <2>2 DEF Eligible, Known
  <2> QED
    BY <2>2, <2>3, IssueStep
<1>3. CASE \E targets \in SUBSET Members, failed \in Members :
             generateArtifactsFails(targets, failed)
  <2>1. PICK targets \in SUBSET Members, failed \in Members :
          generateArtifactsFails(targets, failed)
    BY <1>3
  <2>2. ToIssue(targets) \subseteq targets /\ targets \subseteq Eligible
        /\ failed \in ToIssue(targets)
    BY <2>1 DEF generateArtifactsFails, ToIssue
  <2>3. PICK done \in SUBSET (ToIssue(targets) \ {failed}) :
          Issue(done, {failed})
    BY <2>1 DEF generateArtifactsFails
  <2>4. \A u \in done \cup {failed} :
          u \in Members /\ invitations[u].status \notin {"none", "revoked"}
    BY <2>2, <2>3 DEF Eligible, Known
  <2>5. done \in SUBSET Members /\ {failed} \in SUBSET Members
    BY <2>4
  <2> QED
    BY <2>3, <2>4, <2>5, IssueStep
<1>4. CASE \E u \in Members : ArtifactExpires(u)
  BY <1>4, ExpireStep
<1>5. CASE \E u \in Members, artifact \in 1..MaxArtifacts, id \in AcceptanceIDs :
             acceptArtifact(u, artifact, id)
  BY <1>5, AcceptStep
<1>6. CASE \E targets \in SUBSET Members, status \in {"accepted"} \cup Refused :
             updateStatuses(targets, status)
  BY <1>6, StatusStep
<1>7. CASE clearInvites
  BY <1>7, ClearStep
<1>8. ASSUME NEW r \in Callers,
             \/ sendMessage(r) \/ sendComposedMessage(r) \/ compose(r)
             \/ clearComposer(r) \/ read(r)
      PROVE  IInv'
  <2>1. drafts \in [Callers -> Nat]
    BY DEF IInv, TypeOK
  <2>2. CASE sendMessage(r)
    BY <2>1, <2>2, StoreStep DEF sendMessage
  <2>3. CASE sendComposedMessage(r)
    BY <2>1, <2>3, StoreStep DEF sendComposedMessage
  <2> QED
    BY <1>8, <2>2, <2>3, DraftStep, ReadStep
<1>9. CASE UNCHANGED vars
  <2>1. TypeOK'
    BY <1>9 DEF IInv, TypeOK, vars, membership, talk
  <2> QED
    BY <1>9, <2>1, TalkUnchanged, MembershipUnchanged DEF IInv, vars
<1> QED
  BY <1>1, <1>2, <1>3, <1>4, <1>5, <1>6, <1>7, <1>8, <1>9 DEF Next

(* The invariant and what follows from it.                                 *)
LEMMA SpecIInv == Spec => []IInv
  BY InitIInv, NextIInv, PTL DEF Spec

(* Every variable has its type in every reachable state.                   *)
THEOREM TypeCorrect == Spec => []TypeOK
  BY SpecIInv, PTL DEF IInv

(* The ledger of used invitations fits the records of the cell, whatever   *)
(* is reissued, cleared, accepted late or twice, or half signed.           *)
THEOREM LedgerTheorem == Spec => []LedgerAgrees
<1>1. IInv => LedgerAgrees
  BY DEF IInv, MembershipInv
<1> QED
  BY <1>1, SpecIInv, PTL

(* invitationAccepted rests on the last artifact issued for a member.      *)
THEOREM LastArtifactTheorem == Spec => []LastArtifactAdmits
<1>1. IInv => LastArtifactAdmits
  BY DEF IInv, MembershipInv, RecordsAreCurrent, LastArtifactAdmits,
         InvitationAccepted, ArtifactVerifies
<1> QED
  BY <1>1, SpecIInv, PTL

(* Who was declined or revoked is no member until invited or accepted      *)
(* anew.                                                                   *)
THEOREM RefusedTheorem == Spec => []RefusedStayOut
<1>1. IInv => RefusedStayOut
  BY DEF IInv, MembershipInv, OutAreRefused, RefusedStayOut, memberFor, Refused
<1> QED
  BY <1>1, SpecIInv, PTL

(* The messages are the newest in order, and no draft is sent twice.       *)
THEOREM TranscriptTheorem == Spec => []Transcript
<1>1. IInv => Transcript
  BY DEF IInv, TalkInv
<1> QED
  BY <1>1, SpecIInv, PTL
=============================================================================
