------------------------------ MODULE ChatCell ------------------------------
(***************************************************************************)
(* Invitations, admission and messages of a ChatCell (chat.go), with the   *)
(* signed artifacts of interop/chat.go and interop/verify.go.              *)
(*                                                                         *)
(* The handlers of write run under stateMu, so each is one action.  Who    *)
(* may call them is decided before, by a contract whose conditions are the *)
(* admission conditions below: CellContracts models that with conditions   *)
(* that change freely, and here every handler can be called at any time.   *)
(*                                                                         *)
(* An invitee is a UUID, which the cell's tables are keyed by, and a key.  *)
(* A signed artifact is the member it names and its number among those     *)
(* issued for the member; an acceptance is that and the ID its signer drew *)
(* for it.  Only the holder of the key that the artifact names can sign    *)
(* one (BuildChatAcceptance), at any time until the artifact expires, so   *)
(* every acceptance of a live artifact may be handed in.  Zero is nil.     *)
(***************************************************************************)
EXTENDS Integers, Sequences, FiniteSets

CONSTANTS
    Members,            \* UUIDs of invitees
    Keys,               \* their signing keys
    NoKey,              \* of a record that does not exist
    AcceptanceIDs,      \* IDs that signers of acceptances draw
    Callers,            \* UUIDs of those that read and write messages
    MessagesLimit,      \* opts.MessagesLimit
    MaxArtifacts,       \* bound on artifacts issued for a member
    MaxSent,            \* bound on messages
    MaxDrafts           \* bound on composed bodies

ASSUME ChatAssumption ==
    /\ NoKey \notin Keys
    /\ AcceptanceIDs \subseteq Nat \ {0}
    /\ MessagesLimit \in Nat \ {0}
    /\ MaxArtifacts \in Nat /\ MaxSent \in Nat /\ MaxDrafts \in Nat

VARIABLES
    invitations,        \* c.invitations
    consumed,           \* c.consumed
    artifacts,          \* history: member -> the keys of its artifacts
    out,                \* history: refused, and not let in since
    messages,           \* c.messages
    participants,       \* UUIDs with a row in c.participants
    drafts,             \* caller -> c.drafts[caller].body
    composed,           \* history: bodies composed so far
    sent                \* history: all messages

membership == <<invitations, consumed, artifacts, out>>
talk == <<messages, participants, drafts, composed, sent>>
vars == <<membership, talk>>

Statuses == {"none", "pending", "accepted", "declined", "revoked"}
Refused == {"declined", "revoked"}

\* expired: the artifact is past its expiresAt.
Invitation == [status : Statuses, key : Keys \cup {NoKey}, artifact : Nat,
               expired : BOOLEAN, acceptance : AcceptanceIDs \cup {0}]
NoInvitation == [status |-> "none", key |-> NoKey, artifact |-> 0,
                 expired |-> FALSE, acceptance |-> 0]
Consumption == [member : Members, artifact : Nat, acceptance : AcceptanceIDs]

\* body: a composed one, or 0 for one that sendMessage brings along.
Message == [by : Callers, body : Nat]

(* Every variable has its type.                                            *)
TypeOK ==
    /\ invitations \in [Members -> Invitation]
    /\ consumed \in SUBSET Consumption
    /\ artifacts \in [Members -> Seq(Keys)]
    /\ out \in SUBSET Members
    /\ messages \in Seq(Message)
    /\ participants \in SUBSET Callers
    /\ drafts \in [Callers -> Nat]
    /\ composed \in Nat
    /\ sent \in Seq(Message)

Init ==
    /\ invitations = [u \in Members |-> NoInvitation]
    /\ consumed = {}
    /\ artifacts = [u \in Members |-> <<>>]
    /\ out = {}
    /\ messages = <<>> /\ sent = <<>>
    /\ participants = {}
    /\ drafts = [r \in Callers |-> 0]
    /\ composed = 0

-----------------------------------------------------------------------------
(* Admission.                                                              *)

Known == {u \in Members : invitations[u].status # "none"}

\* VerifyChatInvitation of a record's own artifact: only time can fail it.
ArtifactVerifies(u) == invitations[u].artifact # 0 /\ ~invitations[u].expired

memberFor(u, key) ==
    invitations[u].status = "accepted" /\ invitations[u].key = key

\* AdmissionConditionHolds("invitationAccepted") for the requester with this
\* UUID and key; "member" is memberFor.
InvitationAccepted(u, key) ==
    /\ memberFor(u, key)
    /\ invitations[u].acceptance # 0
    /\ [member |-> u, artifact |-> invitations[u].artifact,
        acceptance |-> invitations[u].acceptance] \in consumed
    /\ ArtifactVerifies(u)

artifactState(u) ==
    CASE invitations[u].status \in Refused -> invitations[u].status
      [] invitations[u].artifact = 0 -> "notIssued"
      [] invitations[u].acceptance # 0 -> "consumed"
      [] ~ArtifactVerifies(u) -> "expired"
      [] OTHER -> "issued"

-----------------------------------------------------------------------------
(* Invitations.                                                            *)

\* A person that is known keeps an accepted status and its artifact.
Invited(record, key) ==
    IF record.status = "none"
    THEN [NoInvitation EXCEPT !.status = "pending", !.key = key]
    ELSE [record EXCEPT !.key = key, !.acceptance = 0,
              !.status = IF @ = "accepted" THEN @ ELSE "pending"]

\* key: the people handed over, by UUID.
inviteIdentities(key) ==
    /\ invitations' = [u \in Members |->
         IF u \in DOMAIN key THEN Invited(invitations[u], key[u])
                             ELSE invitations[u]]
    /\ out' = out \ DOMAIN key
    /\ UNCHANGED <<consumed, artifacts, talk>>

Eligible == {u \in Known : invitations[u].status # "revoked"}

Pending(record) ==
    [record EXCEPT !.status = IF @ = "declined" THEN "pending" ELSE @]

\* The uses of artifacts of these members that new ones replace.
Superseded_None(done) == {}

Superseded(done) ==
    {c \in consumed : /\ c.member \in done
                      /\ c.artifact = invitations[c.member].artifact}

\* New artifacts for done; failed: the one whose signing failed, if any.
Issue(done, failed) ==
    /\ \A u \in done : Len(artifacts[u]) < MaxArtifacts
    /\ invitations' = [u \in Members |->
         IF u \in done
         THEN [Pending(invitations[u]) EXCEPT
                 !.artifact = Len(artifacts[u]) + 1, !.expired = FALSE,
                 !.acceptance = 0]
         ELSE IF u \in failed THEN Pending(invitations[u])
                              ELSE invitations[u]]
    /\ artifacts' = [u \in Members |->
         IF u \in done THEN Append(artifacts[u], invitations[u].key)
                       ELSE artifacts[u]]
    /\ consumed' = consumed \ Superseded(done)
    /\ out' = out \ (done \cup failed)
    /\ UNCHANGED talk

\* Those of the targets that have no artifact waiting to be accepted.
ToIssue(targets) == {u \in targets : artifactState(u) # "issued"}

generateArtifacts(targets) ==
    /\ targets \subseteq Eligible
    /\ Issue(ToIssue(targets), {})

\* The signature of one target fails; what was issued before it stays.
generateArtifactsFails(targets, failed) ==
    /\ targets \subseteq Eligible
    /\ failed \in ToIssue(targets)
    /\ \E done \in SUBSET (ToIssue(targets) \ {failed}) :
         Issue(done, {failed})

\* Time passes the expiresAt of a current artifact.
ArtifactExpires(u) ==
    /\ ArtifactVerifies(u)
    /\ invitations' = [invitations EXCEPT ![u].expired = TRUE]
    /\ UNCHANGED <<consumed, artifacts, out, talk>>

\* An artifact is used by one acceptance, which may come again.
Fresh(u, artifact, id) ==
    \/ [member |-> u, artifact |-> artifact, acceptance |-> id] \in consumed
    \/ \A c \in consumed :
         /\ ~(c.member = u /\ c.artifact = artifact)
         /\ c.acceptance # id

Accepted(u, artifact, id) ==
    /\ invitations' = [invitations EXCEPT
         ![u].status = "accepted", ![u].artifact = artifact,
         ![u].acceptance = id]
    /\ consumed' = consumed \cup
         {[member |-> u, artifact |-> artifact, acceptance |-> id]}
    /\ UNCHANGED <<artifacts, out, talk>>

acceptArtifact_Superseded(u, artifact, id) ==
    /\ artifact \in 1..Len(artifacts[u])
    /\ ArtifactVerifies(u)
    /\ invitations[u].status \notin Refused
    /\ Fresh(u, artifact, id)
    /\ Accepted(u, artifact, id)

acceptArtifact_Revoked(u, artifact, id) ==
    /\ artifact \in 1..Len(artifacts[u])
    /\ ArtifactVerifies(u)
    /\ invitations[u].artifact = artifact
    /\ Fresh(u, artifact, id)
    /\ Accepted(u, artifact, id)

\* An artifact and its acceptance: both verify, the artifact is the record's
\* own, and neither was used with another.
acceptArtifact(u, artifact, id) ==
    /\ artifact \in 1..Len(artifacts[u])
    /\ ArtifactVerifies(u)
    /\ invitations[u].artifact = artifact
    /\ invitations[u].status \notin Refused
    /\ Fresh(u, artifact, id)
    /\ Accepted(u, artifact, id)

\* acceptInvites, declineInvites, revokeInvites.
updateStatuses(targets, status) ==
    /\ targets \subseteq Known
    /\ invitations' = [u \in Members |->
         IF u \in targets THEN [invitations[u] EXCEPT !.status = status]
                          ELSE invitations[u]]
    /\ out' = IF status \in Refused THEN out \cup targets ELSE out \ targets
    /\ UNCHANGED <<consumed, artifacts, talk>>

clearInvites ==
    /\ invitations' = [u \in Members |-> NoInvitation]
    /\ consumed' = {} /\ out' = {}
    /\ UNCHANGED <<artifacts, talk>>

-----------------------------------------------------------------------------
(* Messages.                                                               *)

\* The newest messages, at most MessagesLimit.
Kept_Oldest(all) ==
    IF Len(all) > MessagesLimit THEN SubSeq(all, 1, MessagesLimit) ELSE all

Kept(all) ==
    IF Len(all) > MessagesLimit
    THEN SubSeq(all, Len(all) - MessagesLimit + 1, Len(all)) ELSE all

store(r, body) ==
    /\ Len(sent) < MaxSent
    /\ messages' = Kept(Append(messages, [by |-> r, body |-> body]))
    /\ sent' = Append(sent, [by |-> r, body |-> body])
    /\ participants' = participants \cup {r}
    /\ UNCHANGED <<membership, composed>>

sendMessage(r) == store(r, 0) /\ UNCHANGED drafts

sendComposedMessage(r) ==
    /\ drafts[r] # 0
    /\ drafts' = [drafts EXCEPT ![r] = 0]
    /\ store(r, drafts[r])

\* compose.body, with another body than before.
compose(r) ==
    /\ composed < MaxDrafts
    /\ composed' = composed + 1
    /\ drafts' = [drafts EXCEPT ![r] = composed + 1]
    /\ UNCHANGED <<membership, messages, participants, sent>>

clearComposer(r) ==
    /\ drafts' = [drafts EXCEPT ![r] = 0]
    /\ UNCHANGED <<membership, messages, participants, composed, sent>>

\* state, status, messages and participants note who reads them.
read(r) ==
    /\ participants' = participants \cup {r}
    /\ UNCHANGED <<membership, messages, drafts, composed, sent>>

Next ==
    \/ \E S \in SUBSET Members : \E key \in [S -> Keys] : inviteIdentities(key)
    \/ \E targets \in SUBSET Members : generateArtifacts(targets)
    \/ \E targets \in SUBSET Members, failed \in Members :
         generateArtifactsFails(targets, failed)
    \/ \E u \in Members : ArtifactExpires(u)
    \/ \E u \in Members, artifact \in 1..MaxArtifacts, id \in AcceptanceIDs :
         acceptArtifact(u, artifact, id)
    \/ \E targets \in SUBSET Members, status \in {"accepted"} \cup Refused :
         updateStatuses(targets, status)
    \/ clearInvites
    \/ \E r \in Callers :
         \/ sendMessage(r) \/ sendComposedMessage(r) \/ compose(r)
         \/ clearComposer(r) \/ read(r)

Spec == Init /\ [][Next]_vars

-----------------------------------------------------------------------------
(* The ledger of used invitations fits the records: what it holds is the   *)
(* use of a current artifact, once for each artifact and acceptance, and   *)
(* the acceptance in a record is the one in the ledger.                    *)
LedgerAgrees ==
    /\ \A c \in consumed : c.artifact = invitations[c.member].artifact
    /\ \A c, d \in consumed :
         c.acceptance = d.acceptance \/ c.member = d.member => c = d
    /\ \A u \in Members : invitations[u].acceptance # 0 =>
         [member |-> u, artifact |-> invitations[u].artifact,
          acceptance |-> invitations[u].acceptance] \in consumed

(* A signed invitation that was replaced or cleared admits nobody: what    *)
(* invitationAccepted rests on is the last artifact issued for the member. *)
LastArtifactAdmits ==
    \A u \in Members, key \in Keys : InvitationAccepted(u, key) =>
        invitations[u].artifact = Len(artifacts[u])

(* Who was declined or revoked is no member, with no artifact or           *)
(* acceptance handed in again, until invited or accepted anew.             *)
RefusedStayOut ==
    \A u \in out : \A key \in Keys : ~memberFor(u, key)

(* The cell keeps the newest messages in order, no composed body is sent   *)
(* twice or still waits after it was sent, and an author is a participant. *)
Transcript ==
    /\ Len(messages) = IF Len(sent) < MessagesLimit THEN Len(sent)
                                                    ELSE MessagesLimit
    /\ \A i \in 1..Len(messages) :
         messages[i] = sent[Len(sent) - Len(messages) + i]
    /\ \A i, j \in 1..Len(sent) :
         sent[i].body = sent[j].body /\ sent[i].body # 0 => i = j
    /\ \A r \in Callers, i \in 1..Len(sent) :
         drafts[r] # 0 => sent[i].body # drafts[r]
    /\ \A i \in 1..Len(sent) : sent[i].by \in participants

(* What the documentation of invitationAccepted says: the requester signed *)
(* the acceptance, that is, the artifact names its key.                    *)
AdmittedByOwnKey ==
    \A u \in Members, key \in Keys : InvitationAccepted(u, key) =>
        artifacts[u][invitations[u].artifact] = key
=============================================================================
