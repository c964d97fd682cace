---------------------------- MODULE CellContracts ----------------------------
(***************************************************************************)
(* Admission to a GeneralCell and access under its contracts               *)
(* (general_cell.go, agreements.go), for requesters other than the owner.  *)
(*                                                                         *)
(* AddAgreementAuthorizedBy copies the template and the policy under the   *)
(* lock, evaluates the conditions outside it, one after the other and      *)
(* while everything may change, and then signs.  An access (ContractAllows *)
(* and HoldsContract, under ValidateAccess and Admit) collects the current *)
(* contracts under the lock and evaluates their conditions outside it.     *)
(*                                                                         *)
(* A grant is one permission bit at one keypath, so the grants of an       *)
(* Agreement are a set of those.  A condition reads a value of the target  *)
(* cell as the requester: met holds the pairs for which it finds what it   *)
(* expects, and changes freely.  An identity stands for UUID and key; the  *)
(* proof of that key has succeeded where the identity comes with a vault,  *)
(* and is not asked for where it was decoded from the wire.                *)
(***************************************************************************)
EXTENDS Integers, FiniteSets

CONSTANTS
    Requesters,
    Conditions,
    Enforcing,          \* conditions that read from the target cell
    Grants,
    ReadGrants,         \* those of the read bit
    TemplateGrants,     \* what the Agreement template grants
    Durations,          \* terms a request may ask for
    TemplateDuration,   \* the longest term the template allows
    MaxContracts,       \* bound on contracts kept
    MaxCalls,           \* bound on AddAgreement calls at a time
    MaxAccesses,        \* bound on access checks at a time
    MaxTime             \* bound on the clock

ASSUME ContractsAssumption ==
    /\ Enforcing \subseteq Conditions
    /\ ReadGrants \subseteq Grants /\ TemplateGrants \subseteq Grants
    /\ Durations \subseteq Int
    /\ TemplateDuration \in Nat
    /\ MaxContracts \in Nat /\ MaxCalls \in Nat /\ MaxAccesses \in Nat
    /\ MaxTime \in Nat

Policies == {"ownerApprovalRequired", "automaticWhenConditionsMet",
             "ownerPublishedRead"}
Never == -1             \* before any time

VARIABLES
    now,                \* time.Now(), in steps of the bump of a signing
    conditions,         \* c.agreementTemplate.Conditions
    policy,             \* c.admissionPolicy
    met,                \* condition, requester: the lookup succeeds
    contracts,          \* c.contracts
    revokedBefore,      \* c.revokedBefore
    calls,              \* AddAgreement calls that evaluate conditions
    accesses,           \* access checks under way, and granted ones
    signedAt            \* the last signing since a requester's removal

template == <<conditions, policy>>
vars == <<now, template, met, contracts, revokedBefore, calls, accesses,
          signedAt>>

\* approved: the owner authorised the request.
Contract == [subject : Requesters, grants : SUBSET Grants,
             conditions : SUBSET Conditions, duration : Int,
             issuedAt : Nat, approved : BOOLEAN]

\* left: the conditions still to be evaluated.
Call == [subject : Requesters, grants : SUBSET Grants,
         conditions : SUBSET Conditions, left : SUBSET Conditions,
         duration : Int, approved : BOOLEAN]

\* held: conditions found met; since, template, signed: the time, the
\* template's conditions and signedAt when the contracts were collected.
Access == [state : {"collected", "evaluating", "allowed"},
           subject : Requesters, candidates : SUBSET Contract,
           left : SUBSET Conditions, held : SUBSET Conditions,
           since : Nat, template : SUBSET Conditions,
           signed : Nat \cup {Never}]

(* Every variable has its type.                                            *)
TypeOK ==
    /\ now \in Nat
    /\ conditions \in SUBSET Conditions
    /\ policy \in Policies
    /\ met \in SUBSET (Conditions \X Requesters)
    /\ contracts \in SUBSET Contract
    /\ revokedBefore \in [Requesters -> Nat \cup {Never}]
    /\ calls \in SUBSET Call
    /\ accesses \in SUBSET Access
    /\ signedAt \in [Requesters -> Nat \cup {Never}]

Init ==
    /\ now = 0
    /\ conditions = {}
    /\ policy = "ownerApprovalRequired"
    /\ met = {}
    /\ contracts = {}
    /\ revokedBefore = [u \in Requesters |-> Never]
    /\ calls = {} /\ accesses = {}
    /\ signedAt = [u \in Requesters |-> Never]

-----------------------------------------------------------------------------
\* What a request needs that the owner did not authorise.
Admissible(grants) ==
    \/ policy = "automaticWhenConditionsMet"
       /\ conditions \cap Enforcing # {}
    \/ policy = "ownerPublishedRead" /\ grants \subseteq ReadGrants

\* AddAgreementAuthorizedBy up to the conditions.  A request outside the
\* template is rejected and changes nothing.
RequestAgreement(u, grants, duration, approved) ==
    /\ Cardinality(calls) < MaxCalls
    /\ duration > 0 /\ duration <= TemplateDuration
    /\ grants # {} /\ grants \subseteq TemplateGrants
    /\ approved \/ Admissible(grants)
    /\ calls' = calls \cup
         {[subject |-> u, grants |-> grants, conditions |-> conditions,
           left |-> conditions, duration |-> duration,
           approved |-> approved]}
    /\ UNCHANGED <<now, template, met, contracts, revokedBefore, accesses,
                   signedAt>>

\* conditionsHold for the copied conditions, one lookup at a time.
EvaluateRequest(r, c) ==
    /\ c \in r.left
    /\ calls' = (calls \ {r}) \cup
         {q \in {[r EXCEPT !.left = @ \ {c}]} : <<c, r.subject>> \in met}
    /\ UNCHANGED <<now, template, met, contracts, revokedBefore, accesses,
                   signedAt>>

\* A contract is dated after the removal it follows.
IssuedAt_Now(u) == now

IssuedAt(u) == IF now > revokedBefore[u] THEN now ELSE revokedBefore[u] + 1

\* The end of AddAgreementAuthorizedBy, under the lock.
SignContract(r) ==
    /\ r.left = {}
    /\ Cardinality(contracts) < MaxContracts
    /\ calls' = calls \ {r}
    /\ contracts' = contracts \cup
         {[subject |-> r.subject, grants |-> r.grants,
           conditions |-> r.conditions, duration |-> r.duration,
           issuedAt |-> IssuedAt(r.subject), approved |-> r.approved]}
    /\ signedAt' = [signedAt EXCEPT ![r.subject] = now]
    /\ UNCHANGED <<now, template, met, revokedBefore, accesses>>

RemoveContracts(u) ==
    /\ revokedBefore' = [revokedBefore EXCEPT ![u] = now]
    /\ contracts' = {k \in contracts : k.subject # u}
    /\ signedAt' = [signedAt EXCEPT ![u] = Never]
    /\ UNCHANGED <<now, template, met, calls, accesses>>

SetTemplateConditions(cs) ==
    /\ conditions' = cs
    /\ UNCHANGED <<now, policy, met, contracts, revokedBefore, calls,
                   accesses, signedAt>>

SetAdmissionPolicy(p) ==
    /\ policy' = p
    /\ UNCHANGED <<now, conditions, met, contracts, revokedBefore, calls,
                   accesses, signedAt>>

\* Something the conditions read changes in the cell.
ChangeState(c, u) ==
    /\ met' = IF <<c, u>> \in met THEN met \ {<<c, u>>}
                                  ELSE met \cup {<<c, u>>}
    /\ UNCHANGED <<now, template, contracts, revokedBefore, calls, accesses,
                   signedAt>>

Tick ==
    /\ now < MaxTime
    /\ now' = now + 1
    /\ UNCHANGED <<template, met, contracts, revokedBefore, calls, accesses,
                   signedAt>>

-----------------------------------------------------------------------------
\* currentContracts: the contracts of u that count now.
Current_Unlimited(u) ==
    {k \in contracts :
       /\ k.subject = u
       /\ k.issuedAt > revokedBefore[u]
       /\ k.issuedAt <= now
       /\ k.duration <= TemplateDuration
       /\ k.conditions = conditions
       /\ k.grants \subseteq TemplateGrants}

Current_AnyConditions(u) ==
    {k \in contracts :
       /\ k.subject = u
       /\ k.issuedAt > revokedBefore[u]
       /\ k.issuedAt <= now /\ now < k.issuedAt + k.duration
       /\ k.duration <= TemplateDuration
       /\ k.grants \subseteq TemplateGrants}

Current(u) ==
    {k \in contracts :
       /\ k.subject = u
       /\ k.issuedAt > revokedBefore[u]
       /\ k.issuedAt <= now /\ now < k.issuedAt + k.duration
       /\ k.duration <= TemplateDuration
       /\ k.conditions = conditions
       /\ k.grants \subseteq TemplateGrants}

\* An access starts with the current contracts that cover what it wants
\* (ContractAllows), or with all of them (HoldsContract).
Collect(u, covering) ==
    /\ Cardinality(accesses) < MaxAccesses
    /\ accesses' = accesses \cup
         {[state |-> "collected", subject |-> u,
           candidates |-> {k \in Current(u) : covering \subseteq k.grants},
           left |-> {}, held |-> {}, since |-> now,
           template |-> conditions, signed |-> signedAt[u]]}
    /\ UNCHANGED <<now, template, met, contracts, revokedBefore, calls,
                   signedAt>>

\* The access becomes b, or ends when there is none.
Becomes(a, bs) ==
    /\ accesses' = (accesses \ {a}) \cup bs
    /\ UNCHANGED <<now, template, met, contracts, revokedBefore, calls,
                   signedAt>>

\* The next contract, of which every condition must hold.
TryContract(a) ==
    /\ a.state = "collected"
    /\ \E k \in a.candidates :
         Becomes(a, {[a EXCEPT !.state = "evaluating",
                               !.candidates = @ \ {k},
                               !.left = k.conditions, !.held = {}]})

\* One lookup; the first that fails ends the attempt.
EvaluateAccess(a, c) ==
    /\ a.state = "evaluating"
    /\ c \in a.left
    /\ \/ /\ <<c, a.subject>> \in met
          /\ Becomes(a, {[a EXCEPT !.left = @ \ {c},
                                   !.held = @ \cup {c}]})
       \/ /\ <<c, a.subject>> \notin met
          /\ Becomes(a, {[a EXCEPT !.state = "collected"]})

Allow(a) ==
    /\ a.state = "evaluating"
    /\ a.left = {}
    /\ Becomes(a, {[a EXCEPT !.state = "allowed"]})

\* A denied access, and one that is over.
Return(a) ==
    /\ \/ a.state = "allowed"
       \/ a.state = "collected" /\ a.candidates = {}
    /\ Becomes(a, {})

Next ==
    \/ \E u \in Requesters, grants \in SUBSET Grants, d \in Durations,
          approved \in BOOLEAN : RequestAgreement(u, grants, d, approved)
    \/ \E r \in calls : \/ \E c \in r.left : EvaluateRequest(r, c)
                        \/ SignContract(r)
    \/ \E u \in Requesters : RemoveContracts(u)
    \/ \E cs \in SUBSET Conditions : SetTemplateConditions(cs)
    \/ \E p \in Policies : SetAdmissionPolicy(p)
    \/ \E c \in Conditions, u \in Requesters : ChangeState(c, u)
    \/ Tick
    \/ \E u \in Requesters, covering \in {{}} \cup {{g} : g \in Grants} :
         Collect(u, covering)
    \/ \E a \in accesses : \/ TryContract(a)
                           \/ \E c \in a.left : EvaluateAccess(a, c)
                           \/ Allow(a) \/ Return(a)

Spec == Init /\ [][Next]_vars

-----------------------------------------------------------------------------
(* An access is allowed only to a requester for whom a contract was signed *)
(* after the last RemoveContracts, and no longer after that than the       *)
(* template's term: a removal that returned before the access started is   *)
(* never outrun by an old contract.                                        *)
AccessFollowsAdmission ==
    \A a \in accesses : a.state = "allowed" =>
      a.signed # Never /\ a.since <= a.signed + TemplateDuration

(* An access is allowed only after every condition that the template had   *)
(* when the access started was found met by this access: contracts signed  *)
(* under other conditions stop matching (chat.go:347).                     *)
AllowedMeetsTemplate ==
    \A a \in accesses : a.state = "allowed" => a.template \subseteq a.held

(* A contract that the owner did not approve has an enforcing condition or *)
(* only reads, however the policy and the template changed since.          *)
UnapprovedAreConditional ==
    \A k \in contracts : \/ k.approved
                         \/ k.conditions \cap Enforcing # {}
                         \/ k.grants \subseteq ReadGrants

(* Every contract that is kept was issued after the last removal of its    *)
(* subject, also when both fall into one reading of the clock: a member    *)
(* who is admitted again is not removed by the old removal.                *)
ReadmissionCounts ==
    \A k \in contracts : k.issuedAt > revokedBefore[k.subject]
=============================================================================
