--------------------------- MODULE EntityExtension ---------------------------
(***************************************************************************)
(* EntityScaffoldExtensionCells (entity_extension.go) of several places,   *)
(* and the packets they exchange: a place asks to be part of an entity,    *)
(* another one approves, the first accepts, and both hold a link record.   *)
(*                                                                         *)
(* A handler runs under stateMu, so it is one step.  Packets are carried   *)
(* by people: every request and approval that was made may be handed over  *)
(* at any time, late, in another order, again, or never, to any place.     *)
(* Approvals also come as forms that no place signed: without a proof,     *)
(* altered on the way, or signed by an outsider.  The requests are those   *)
(* that places made.  A request is its canonical bytes, so its hash is its *)
(* number; a link ID is the number of its draw.  A place is the identity   *)
(* it signs with.  Time is what has expired.  The order of link records is *)
(* only one of display; that of outgoing requests is the order in which    *)
(* they were made.  Names that EntityAnchor has too carry a prefix here:   *)
(* IdentityLinkProofs extends both modules.                                *)
(***************************************************************************)
EXTENDS Integers, Sequences

CONSTANTS
    Places,
    Outsider,                   \* who is no place and has a key
    NoIssuer,                   \* no issuerIdentity is handed over
    MaxRequests, MaxGranted,    \* bounds on packets
    MaxLinks                    \* bound on link records made

ASSUME ExtensionAssumption ==
    /\ {Outsider, NoIssuer} \cap Places = {}
    /\ {MaxRequests, MaxGranted, MaxLinks} \subseteq Nat

VARIABLES
    requests,           \* enrollment requests made
    granted,            \* approvals made
    outgoing,           \* place -> its c.outgoing
    accepted,           \* those of them that have an approvedAt
    links,              \* place -> its c.links
    drawn,              \* how many link IDs were drawn
    expiredRequests, expiredApprovals

packets == <<requests, granted>>
expiry == <<expiredRequests, expiredApprovals>>
extensionVars == <<packets, outgoing, accepted, links, drawn, expiry>>

\* known: it asks for a scope that the approver knows.
Request == [from : Places, known : BOOLEAN]
ApprovalOf == [request : Nat, issuer : Places]

\* approval: the number of the one it was made by, 0 for a form that no
\* place signed.  checked: its signature was checked under the key of a
\* place, or is the place's own; that is history.
LinkRecord == [id : Nat, identity : Places, approval : Nat,
               checked : BOOLEAN, status : {"active", "revoked"}]

(* Every variable has its type; packets and records refer to packets that  *)
(* exist.                                                                  *)
ExtensionTypeOK ==
    /\ requests \in Seq(Request)
    /\ granted \in Seq(ApprovalOf)
    /\ \A n \in DOMAIN granted : granted[n].request \in DOMAIN requests
    /\ outgoing \in [Places -> SUBSET DOMAIN requests]
    /\ accepted \subseteq DOMAIN requests
    /\ links \in [Places -> SUBSET LinkRecord]
    /\ \A p \in Places : \A link \in links[p] :
         link.approval \in {0} \cup DOMAIN granted /\ link.id \in 1..drawn
    /\ drawn \in Nat
    /\ expiredRequests \subseteq DOMAIN requests
    /\ expiredApprovals \subseteq DOMAIN granted

ExtensionInit ==
    /\ requests = <<>> /\ granted = <<>>
    /\ outgoing = [p \in Places |-> {}] /\ accepted = {}
    /\ links = [p \in Places |-> {}] /\ drawn = 0
    /\ expiredRequests = {} /\ expiredApprovals = {}

RequestExpires(r) ==
    /\ expiredRequests' = expiredRequests \cup {r}
    /\ UNCHANGED <<packets, outgoing, accepted, links, drawn, expiredApprovals>>

ApprovalExpires(n) ==
    /\ expiredApprovals' = expiredApprovals \cup {n}
    /\ UNCHANGED <<packets, outgoing, accepted, links, drawn, expiredRequests>>

\* The place signs a request and puts it before those it has sent.
beginRequest(p, known) ==
    /\ Len(requests) < MaxRequests
    /\ requests' = Append(requests, [from |-> p, known |-> known])
    /\ outgoing' = [outgoing EXCEPT ![p] = @ \cup {Len(requests) + 1}]
    /\ UNCHANGED <<granted, accepted, links, drawn, expiry>>

\* Of the records of a place, those that a new one of this identity leaves:
\* it takes the place of the active ones.
Stays_All(p, identity) == links[p]

Stays_Others(p, identity) == {link \in links[p] : link.identity # identity}

Stays(p, identity) ==
    {link \in links[p] : link.identity # identity \/ link.status = "revoked"}

storeLink_SameID(p, identity, n, checked) ==
    /\ drawn < MaxLinks
    /\ drawn' = drawn + 1
    /\ links' = [links EXCEPT ![p] = Stays(p, identity) \cup
         {[id |-> n, identity |-> identity, approval |-> n,
           checked |-> checked, status |-> "active"]}]

\* A record of the link that approval n is about, with an ID of its own.
storeLink(p, identity, n, checked) ==
    /\ drawn < MaxLinks
    /\ drawn' = drawn + 1
    /\ links' = [links EXCEPT ![p] = Stays(p, identity) \cup
         {[id |-> drawn + 1, identity |-> identity, approval |-> n,
           checked |-> checked, status |-> "active"]}]

\* reviewRequest: the signature is the sender's.
Reviewable(r) == r \notin expiredRequests

\* The approver grants the scopes it chose, or those asked for that it knows.
approveRequest(p, r, chosen) ==
    /\ Len(granted) < MaxGranted
    /\ Reviewable(r)
    /\ chosen \/ requests[r].known
    /\ granted' = Append(granted, [request |-> r, issuer |-> p])
    /\ storeLink(p, requests[r].from, Len(granted) + 1, TRUE)
    /\ UNCHANGED <<requests, outgoing, accepted, expiry>>

\* The newest outgoing request, if there is one.
Newest(p) == {r \in outgoing[p] : \A other \in outgoing[p] : other <= r}

\* It must be the one approved.  A form may claim to be about any request;
\* with another one's hash it is refused.
Answers(p, n) ==
    IF n = 0 THEN Newest(p) # {} ELSE granted[n].request \in Newest(p)

\* The signature of approval n, or of the form, is that of the key.
SignatureHolds_Any(n, key) == TRUE

SignatureHolds(n, key) ==
    IF n = 0 THEN key = Outsider ELSE key = granted[n].issuer

\* The signature is checked only under a key that is handed over with the
\* approval; without one the approval is taken as it is.
acceptApproval(p, n, key) ==
    /\ Answers(p, n)
    /\ n \notin expiredApprovals
    /\ key = NoIssuer \/ SignatureHolds(n, key)
    /\ storeLink(p, p, n, key \in Places)
    /\ accepted' = accepted \cup Newest(p)
    /\ UNCHANGED <<packets, outgoing, expiry>>

revokeLink(p, link) ==
    /\ links' = [links EXCEPT ![p] =
         (@ \ {link}) \cup {[link EXCEPT !.status = "revoked"]}]
    /\ UNCHANGED <<packets, outgoing, accepted, drawn, expiry>>

\* The requests that are approved or have expired go.
clearPending(p) ==
    /\ outgoing' = [outgoing EXCEPT ![p] = @ \ (accepted \cup expiredRequests)]
    /\ UNCHANGED <<packets, accepted, links, drawn, expiry>>

ExtensionNext ==
    \/ \E p \in Places :
         \/ \E known \in BOOLEAN : beginRequest(p, known)
         \/ \E r \in DOMAIN requests, chosen \in BOOLEAN :
              approveRequest(p, r, chosen)
         \/ \E n \in {0} \cup DOMAIN granted,
              key \in Places \cup {Outsider, NoIssuer} :
              acceptApproval(p, n, key)
         \/ \E link \in links[p] : revokeLink(p, link)
         \/ clearPending(p)
    \/ \E r \in DOMAIN requests : RequestExpires(r)
    \/ \E n \in DOMAIN granted : ApprovalExpires(n)

ExtensionSpec == ExtensionInit /\ [][ExtensionNext]_extensionVars

-----------------------------------------------------------------------------
(* A place holds at most one active link of an identity, however often it  *)
(* asks, approves and accepts, and whatever it revoked in between.         *)
OneLiveLink ==
    \A p \in Places : \A link, other \in links[p] :
        /\ link.identity = other.identity
        /\ link.status = "active" /\ other.status = "active"
        => link = other

(* An approval whose signature was checked under the key of a place is one *)
(* that a place made.  A record made by such an approval, checked or not,  *)
(* is of the identity that asked for it, at that identity or at the place  *)
(* that approved it, and the approver has a record of the same identity,   *)
(* of that approval or of a later one, whatever packets came late, again   *)
(* or not at all.  Any other record came from a form that no place signed, *)
(* and speaks for nobody but the place that holds it.                      *)
BothSidesHold ==
    \A p \in Places : \A link \in links[p] :
        /\ link.checked => link.approval # 0
        /\ link.approval = 0 => link.identity = p
        /\ link.approval # 0 =>
             LET approval == granted[link.approval]
             IN /\ link.identity = requests[approval.request].from
                /\ p \in {link.identity, approval.issuer}
                /\ \E other \in links[approval.issuer] :
                     /\ other.identity = link.identity
                     /\ other.approval >= link.approval

(* What a place revoked stays revoked: no later approval or acceptance     *)
(* takes the record away or makes it active.                               *)
RevokedStays ==
    [][\A p \in Places : \A record \in links[p] :
         record.status = "revoked" => record \in links'[p]]_extensionVars

-----------------------------------------------------------------------------
(* The records of a place as LinkBook has them.                            *)
Live(records, identity) ==
    {link \in records : link.identity = identity /\ link.status = "active"}

ActiveLink(records, identity) ==
    IF Live(records, identity) = {} THEN 0
    ELSE (CHOOSE link \in Live(records, identity) : TRUE).id

RevokedLinks(records) ==
    {link.id : link \in {k \in records : k.status = "revoked"}}

Book == INSTANCE LinkBook WITH
    made <- drawn,
    active <- [p \in Places |-> [i \in Places |-> ActiveLink(links[p], i)]],
    revoked <- [p \in Places |-> RevokedLinks(links[p])]

(* The cells implement LinkBook: a link that was revoked or replaced never *)
(* is active again, under whatever approval, and each step makes or        *)
(* revokes at most one.                                                    *)
KeepsBook == Book!Spec
=============================================================================
