------------------------- MODULE CellContractsProofs -------------------------
(***************************************************************************)
(* Theorems about CellContracts, for any requesters, conditions, grants    *)
(* and terms, and any number of calls and accesses under way.              *)
(***************************************************************************)
EXTENDS CellContracts, TLAPS

(* Removals and signings are past; a kept contract was signed since the    *)
(* removal of its subject and dated at most one step ahead.                *)
Dated ==
    /\ \A u \in Requesters : revokedBefore[u] <= now /\ signedAt[u] <= now
    /\ \A k \in contracts : /\ signedAt[k.subject] # Never
                            /\ k.issuedAt <= signedAt[k.subject] + 1

(* Calls copied the conditions that made their request admissible.         *)
CallsAdmissible ==
    \A r \in calls : \/ r.approved
                     \/ r.conditions \cap Enforcing # {}
                     \/ r.grants \subseteq ReadGrants

(* Contract k counted when access a collected it.                          *)
Counted(a, k) ==
    /\ a.signed # Never
    /\ k.issuedAt <= a.signed + 1
    /\ a.since < k.issuedAt + k.duration
    /\ k.duration <= TemplateDuration
    /\ k.conditions = a.template

(* All that an access goes by was current when it collected contracts.     *)
AccessInv ==
    \A a \in accesses :
      /\ \A k \in a.candidates : Counted(a, k)
      /\ a.state # "collected" =>
           /\ a.signed # Never
           /\ a.since <= a.signed + TemplateDuration
           /\ a.template \subseteq a.left \cup a.held
      /\ a.state = "allowed" => a.left = {}

IInv == /\ TypeOK /\ Dated /\ CallsAdmissible /\ AccessInv
        /\ UnapprovedAreConditional /\ ReadmissionCounts

-----------------------------------------------------------------------------
(* Without contracts and calls the invariant holds.                        *)
LEMMA InitIInv == Init => IInv
<1> SUFFICES ASSUME Init PROVE IInv
  OBVIOUS
<1>1. TypeOK
  BY DEF Init, TypeOK, Policies, Never
<1>2. Dated
  BY DEF Init, Dated, Never
<1>3. CallsAdmissible /\ AccessInv /\ UnapprovedAreConditional
      /\ ReadmissionCounts
  BY DEF Init, CallsAdmissible, AccessInv, UnapprovedAreConditional,
         ReadmissionCounts
<1> QED
  BY <1>1, <1>2, <1>3 DEF IInv

(* Steps of the environment: template, policy, what conditions read, and   *)
(* the clock.                                                              *)
LEMMA EnvironmentStep ==
  ASSUME IInv, UNCHANGED <<contracts, revokedBefore, calls, accesses,
                           signedAt>>,
         now' \in Nat, now <= now',
         conditions' \in SUBSET Conditions, policy' \in Policies,
         met' \in SUBSET (Conditions \X Requesters)
  PROVE  IInv'
<1> USE DEF IInv
<1>1. TypeOK'
  BY DEF TypeOK
<1>2. Dated'
  <2>1. now \in Nat /\ \A u \in Requesters : /\ revokedBefore[u] \in Int
                                             /\ signedAt[u] \in Int
    BY DEF TypeOK, Never
  <2> QED
    BY <2>1 DEF Dated
<1>3. CallsAdmissible' /\ UnapprovedAreConditional' /\ ReadmissionCounts'
  BY DEF CallsAdmissible, UnapprovedAreConditional, ReadmissionCounts
<1>4. AccessInv'
  BY DEF AccessInv, Counted
<1> QED
  BY <1>1, <1>2, <1>3, <1>4

(* A call starts, or goes on to its next condition, or is rejected.        *)
LEMMA CallStep ==
  ASSUME IInv, UNCHANGED <<now, template, met, contracts, revokedBefore,
                           accesses, signedAt>>,
         calls' \in SUBSET Call,
         CallsAdmissible'
  PROVE  IInv'
<1> USE DEF IInv, template
<1>1. TypeOK'
  BY DEF TypeOK
<1>2. Dated' /\ UnapprovedAreConditional' /\ ReadmissionCounts'
  BY DEF Dated, UnapprovedAreConditional, ReadmissionCounts
<1>3. AccessInv'
  BY DEF AccessInv, Counted
<1> QED
  BY <1>1, <1>2, <1>3

(* The snapshot of a request is admissible under the policy of the moment. *)
LEMMA RequestStep ==
  ASSUME IInv, NEW u \in Requesters, NEW grants \in SUBSET Grants,
         NEW d \in Durations, NEW approved \in BOOLEAN,
         RequestAgreement(u, grants, d, approved)
  PROVE  IInv'
<1>r. PICK r : r = [subject |-> u, grants |-> grants,
                    conditions |-> conditions, left |-> conditions,
                    duration |-> d, approved |-> approved]
  OBVIOUS
<1>1. r \in Call
  BY <1>r, ContractsAssumption DEF IInv, TypeOK, Call
<1>2. calls' = calls \cup {r}
  BY <1>r DEF RequestAgreement
<1>3. calls' \in SUBSET Call
  BY <1>1, <1>2 DEF IInv, TypeOK
<1>4. \/ r.approved \/ r.conditions \cap Enforcing # {}
      \/ r.grants \subseteq ReadGrants
  BY <1>r DEF RequestAgreement, Admissible
<1>5. CallsAdmissible'
  BY <1>2, <1>4 DEF IInv, CallsAdmissible
<1> QED
  BY <1>3, <1>5, CallStep DEF RequestAgreement

(* A condition of a request is looked up.                                  *)
LEMMA EvaluateRequestStep ==
  ASSUME IInv, NEW r \in calls, NEW c \in r.left, EvaluateRequest(r, c)
  PROVE  IInv'
<1>q. PICK q : q = [r EXCEPT !.left = @ \ {c}]
  OBVIOUS
<1>1. r \in Call
  BY DEF IInv, TypeOK
<1>2. q \in Call /\ q.approved = r.approved /\ q.grants = r.grants
      /\ q.conditions = r.conditions
  BY <1>q, <1>1 DEF Call
<1>3. calls' \subseteq calls \cup {q}
  BY <1>q DEF EvaluateRequest
<1>4. calls' \in SUBSET Call
  BY <1>2, <1>3 DEF IInv, TypeOK
<1>5. CallsAdmissible'
  BY <1>2, <1>3 DEF IInv, CallsAdmissible
<1> QED
  BY <1>4, <1>5, CallStep DEF EvaluateRequest

(* A contract is signed.                                                   *)
LEMMA SignStep ==
  ASSUME IInv, NEW r \in calls, SignContract(r)
  PROVE  IInv'
<1>k. PICK k : k = [subject |-> r.subject, grants |-> r.grants,
                    conditions |-> r.conditions, duration |-> r.duration,
                    issuedAt |-> IssuedAt(r.subject),
                    approved |-> r.approved]
  OBVIOUS
<1>u. PICK u : u = r.subject
  OBVIOUS
<1>0. TypeOK /\ Dated /\ r \in Call
  BY DEF IInv, TypeOK
<1>1. u \in Requesters /\ now \in Nat /\ revokedBefore[u] \in Int
      /\ revokedBefore[u] <= now /\ now >= 0
  BY <1>0, <1>u DEF TypeOK, Call, Dated, Never
<1>2. IssuedAt(u) \in Nat /\ IssuedAt(u) > revokedBefore[u]
      /\ IssuedAt(u) <= now + 1
  <2>1. CASE now > revokedBefore[u]
    BY <1>1, <2>1 DEF IssuedAt
  <2>2. CASE ~(now > revokedBefore[u])
    BY <1>1, <2>2 DEF IssuedAt
  <2> QED
    BY <2>1, <2>2
<1>3. k \in Contract /\ k.subject = u /\ k.issuedAt = IssuedAt(u)
      /\ k.approved = r.approved /\ k.grants = r.grants
      /\ k.conditions = r.conditions
  BY <1>k, <1>u, <1>0, <1>2 DEF Contract, Call
<1>4. UNCHANGED <<now, conditions, policy, met, revokedBefore, accesses>>
      /\ contracts' = contracts \cup {k} /\ calls' = calls \ {r}
  BY <1>k DEF SignContract, template
<1>5. /\ signedAt' \in [Requesters -> Nat \cup {Never}]
      /\ signedAt'[u] = now
      /\ \A v \in Requesters \ {u} : signedAt'[v] = signedAt[v]
  BY <1>0, <1>1, <1>u DEF SignContract, TypeOK
<1>6. TypeOK'
  BY <1>0, <1>3, <1>4, <1>5 DEF TypeOK
<1>7. Dated'
  <2>1. \A v \in Requesters : revokedBefore'[v] <= now'
                              /\ signedAt'[v] <= now'
    BY <1>0, <1>1, <1>4, <1>5 DEF Dated
  <2>2. ASSUME NEW l \in contracts'
        PROVE  signedAt'[l.subject] # Never
               /\ l.issuedAt <= signedAt'[l.subject] + 1
    <3>1. CASE l = k
      BY <3>1, <1>1, <1>2, <1>3, <1>5 DEF Never
    <3>2. CASE l # k
      <4>1. l \in contracts /\ l \in Contract
        BY <3>2, <1>0, <1>4 DEF TypeOK
      <4>2. l.subject \in Requesters /\ l.issuedAt \in Nat
            /\ signedAt[l.subject] \in Int
        BY <4>1, <1>0 DEF Contract, TypeOK, Never
      <4>3. signedAt[l.subject] # Never /\ signedAt[l.subject] <= now
            /\ l.issuedAt <= signedAt[l.subject] + 1
        BY <4>1, <4>2, <1>0 DEF Dated
      <4>4. CASE l.subject = u
        BY <4>2, <4>3, <4>4, <1>1, <1>5 DEF Never
      <4>5. CASE l.subject # u
        BY <4>2, <4>3, <4>5, <1>5
      <4> QED
        BY <4>4, <4>5
    <3> QED
      BY <3>1, <3>2
  <2> QED
    BY <2>1, <2>2 DEF Dated
<1>8. CallsAdmissible' /\ AccessInv'
  BY <1>4 DEF IInv, CallsAdmissible, AccessInv, Counted
<1>9. UnapprovedAreConditional'
  BY <1>3, <1>4 DEF IInv, CallsAdmissible, UnapprovedAreConditional
<1>10. ReadmissionCounts'
  BY <1>2, <1>3, <1>4 DEF IInv, ReadmissionCounts
<1> QED
  BY <1>6, <1>7, <1>8, <1>9, <1>10 DEF IInv

(* A member is removed.                                                    *)
LEMMA RemoveStep ==
  ASSUME IInv, NEW u \in Requesters, RemoveContracts(u)
  PROVE  IInv'
<1>0. TypeOK /\ Dated
  BY DEF IInv
<1>1. UNCHANGED <<now, conditions, policy, met, calls, accesses>>
      /\ contracts' = {k \in contracts : k.subject # u}
  BY DEF RemoveContracts, template
<1>2. /\ signedAt' \in [Requesters -> Nat \cup {Never}]
      /\ revokedBefore' \in [Requesters -> Nat \cup {Never}]
      /\ signedAt'[u] = Never /\ revokedBefore'[u] = now
      /\ \A v \in Requesters \ {u} : signedAt'[v] = signedAt[v]
                                     /\ revokedBefore'[v] = revokedBefore[v]
  BY <1>0 DEF RemoveContracts, TypeOK
<1>3. TypeOK'
  BY <1>0, <1>1, <1>2 DEF TypeOK
<1>4. \A k \in contracts' : k \in contracts /\ k.subject # u
                            /\ k.subject \in Requesters
  BY <1>0, <1>1 DEF TypeOK, Contract
<1>5. Dated'
  <2>1. now \in Nat
    BY <1>0 DEF TypeOK
  <2>2. \A v \in Requesters : revokedBefore'[v] <= now'
                              /\ signedAt'[v] <= now'
    BY <1>0, <1>1, <1>2, <2>1 DEF Dated, Never
  <2>3. \A k \in contracts' : signedAt'[k.subject] # Never
                              /\ k.issuedAt <= signedAt'[k.subject] + 1
    BY <1>0, <1>2, <1>4 DEF Dated
  <2> QED
    BY <2>2, <2>3 DEF Dated
<1>6. CallsAdmissible' /\ AccessInv' /\ UnapprovedAreConditional'
  BY <1>1 DEF IInv, CallsAdmissible, AccessInv, Counted,
              UnapprovedAreConditional
<1>7. ReadmissionCounts'
  BY <1>2, <1>4 DEF IInv, ReadmissionCounts
<1> QED
  BY <1>3, <1>5, <1>6, <1>7 DEF IInv

-----------------------------------------------------------------------------
(* What AccessInv says of one access.                                      *)
AccessOK(a) ==
    /\ \A k \in a.candidates : Counted(a, k)
    /\ a.state # "collected" =>
         /\ a.signed # Never
         /\ a.since <= a.signed + TemplateDuration
         /\ a.template \subseteq a.left \cup a.held
    /\ a.state = "allowed" => a.left = {}

(* A step that replaces accesses by sound ones.                            *)
LEMMA AccessStep ==
  ASSUME IInv, UNCHANGED <<now, template, met, contracts, revokedBefore,
                           calls, signedAt>>,
         NEW bs \in SUBSET Access, \A b \in bs : AccessOK(b),
         accesses' \subseteq accesses \cup bs
  PROVE  IInv'
<1> USE DEF IInv, template
<1>1. TypeOK'
  BY DEF TypeOK
<1>2. Dated' /\ UnapprovedAreConditional' /\ ReadmissionCounts'
      /\ CallsAdmissible'
  BY DEF Dated, UnapprovedAreConditional, ReadmissionCounts, CallsAdmissible
<1>3. \A b \in accesses' : AccessOK(b)
  BY DEF AccessInv, AccessOK
<1>4. AccessInv'
  BY <1>3 DEF AccessInv, AccessOK, Counted
<1> QED
  BY <1>1, <1>2, <1>4

(* Contracts are collected: each is current, so it counts.                 *)
LEMMA CollectStep ==
  ASSUME IInv, NEW u \in Requesters, NEW covering, Collect(u, covering)
  PROVE  IInv'
<1>ks. PICK ks : ks = {k \in Current(u) : covering \subseteq k.grants}
  OBVIOUS
<1>b. PICK b : b = [state |-> "collected", subject |-> u,
                    candidates |-> ks, left |-> {}, held |-> {},
                    since |-> now, template |-> conditions,
                    signed |-> signedAt[u]]
  OBVIOUS
<1>1. ks \subseteq contracts /\ ks \subseteq Contract
  BY <1>ks DEF IInv, TypeOK, Current
<1>2. b \in Access
  BY <1>b, <1>1 DEF IInv, TypeOK, Access
<1>3. ASSUME NEW k \in ks PROVE Counted(b, k)
  <2>1. k \in contracts /\ k.subject = u /\ now < k.issuedAt + k.duration
        /\ k.duration <= TemplateDuration /\ k.conditions = conditions
    BY <1>ks DEF Current
  <2>2. signedAt[u] # Never /\ k.issuedAt <= signedAt[u] + 1
    BY <2>1 DEF IInv, Dated
  <2> QED
    BY <1>b, <2>1, <2>2 DEF Counted
<1>4. AccessOK(b)
  BY <1>b, <1>3 DEF AccessOK
<1>5. accesses' = accesses \cup {b}
  BY <1>b, <1>ks DEF Collect
<1>6. {b} \in SUBSET Access /\ (\A d \in {b} : AccessOK(d))
      /\ accesses' \subseteq accesses \cup {b}
  BY <1>2, <1>4, <1>5
<1>7. UNCHANGED <<now, template, met, contracts, revokedBefore, calls,
                  signedAt>>
  BY DEF Collect
<1> QED
  BY <1>6, <1>7, AccessStep, Zenon

(* An access in progress: the next contract, a lookup, the answer.         *)
LEMMA ProgressStep ==
  ASSUME IInv, NEW a \in accesses,
         \/ TryContract(a) \/ Allow(a) \/ Return(a)
         \/ \E c \in a.left : EvaluateAccess(a, c)
  PROVE  IInv'
<1>0. a \in Access /\ AccessOK(a)
  BY DEF IInv, TypeOK, AccessInv, AccessOK
<1>1. ASSUME NEW b \in Access, AccessOK(b), Becomes(a, {b}) PROVE IInv'
  <2>1. accesses' \subseteq accesses \cup {b}
    BY <1>1 DEF Becomes
  <2>2. {b} \in SUBSET Access /\ \A d \in {b} : AccessOK(d)
    BY <1>1
  <2>3. UNCHANGED <<now, template, met, contracts, revokedBefore, calls,
                    signedAt>>
    BY <1>1 DEF Becomes
  <2> QED
    BY <2>1, <2>2, <2>3, AccessStep, Zenon
<1>2. CASE TryContract(a)
  <2>1. PICK k \in a.candidates :
          Becomes(a, {[a EXCEPT !.state = "evaluating",
                                !.candidates = @ \ {k},
                                !.left = k.conditions, !.held = {}]})
    BY <1>2 DEF TryContract
  <2>b. PICK b : b = [a EXCEPT !.state = "evaluating",
                               !.candidates = @ \ {k},
                               !.left = k.conditions, !.held = {}]
    OBVIOUS
  <2>2. k \in Contract /\ Counted(a, k)
    BY <1>0 DEF Access, AccessOK
  <2>3. /\ b \in Access /\ b.state = "evaluating"
        /\ b.candidates \subseteq a.candidates
        /\ b.left = k.conditions /\ b.held = {} /\ b.signed = a.signed
        /\ b.since = a.since /\ b.template = a.template
    BY <1>0, <2>b, <2>2 DEF Access, Contract
  <2>4. a.since <= a.signed + TemplateDuration
    <3>1. a.since \in Nat /\ a.signed \in Int /\ k.issuedAt \in Nat
          /\ k.duration \in Int
      BY <1>0, <2>2 DEF Access, Contract, Never
    <3> QED
      BY <2>2, <3>1, ContractsAssumption DEF Counted
  <2>5. AccessOK(b)
    BY <1>0, <2>2, <2>3, <2>4 DEF AccessOK, Counted
  <2> QED
    BY <1>1, <2>1, <2>b, <2>3, <2>5
<1>3. CASE Allow(a)
  <2>b. PICK b : b = [a EXCEPT !.state = "allowed"]
    OBVIOUS
  <2>1. b \in Access /\ AccessOK(b)
    BY <1>0, <1>3, <2>b DEF Access, AccessOK, Allow, Counted
  <2> QED
    BY <1>1, <1>3, <2>b, <2>1 DEF Allow
<1>4. CASE Return(a)
  <2>1. accesses' \subseteq accesses \cup {}
    BY <1>4 DEF Return, Becomes
  <2> QED
    BY <1>4, <2>1, AccessStep DEF Return, Becomes
<1>5. ASSUME NEW c \in a.left, EvaluateAccess(a, c) PROVE IInv'
  <2>b. PICK b : b = [a EXCEPT !.left = @ \ {c}, !.held = @ \cup {c}]
    OBVIOUS
  <2>d. PICK d : d = [a EXCEPT !.state = "collected"]
    OBVIOUS
  <2>1. b \in Access /\ d \in Access
    BY <1>0, <2>b, <2>d DEF Access
  <2>2. AccessOK(b)
    <3>1. /\ b.state = "evaluating" /\ b.candidates = a.candidates
          /\ b.left = a.left \ {c} /\ b.held = a.held \cup {c}
          /\ b.signed = a.signed /\ b.since = a.since
          /\ b.template = a.template
      BY <1>0, <1>5, <2>b DEF Access, EvaluateAccess
    <3> QED
      BY <1>0, <1>5, <3>1 DEF AccessOK, Counted, EvaluateAccess
  <2>3. AccessOK(d)
    BY <1>0, <2>d DEF Access, AccessOK, Counted
  <2> QED
    BY <1>1, <1>5, <2>b, <2>d, <2>1, <2>2, <2>3 DEF EvaluateAccess
<1> QED
  BY <1>2, <1>3, <1>4, <1>5

(* Every step preserves the invariant.                                     *)
LEMMA NextIInv == IInv /\ [Next]_vars => IInv'
<1> SUFFICES ASSUME IInv, [Next]_vars PROVE IInv'
  OBVIOUS
<1>0. TypeOK
  BY DEF IInv
<1>1. ASSUME NEW cs \in SUBSET Conditions, SetTemplateConditions(cs)
      PROVE  IInv'
  BY <1>0, <1>1, EnvironmentStep DEF SetTemplateConditions, TypeOK
<1>2. ASSUME NEW p \in Policies, SetAdmissionPolicy(p) PROVE IInv'
  BY <1>0, <1>2, EnvironmentStep DEF SetAdmissionPolicy, TypeOK
<1>3. ASSUME NEW c \in Conditions, NEW u \in Requesters, ChangeState(c, u)
      PROVE  IInv'
  BY <1>0, <1>3, EnvironmentStep DEF ChangeState, TypeOK, template
<1>4. ASSUME Tick PROVE IInv'
  BY <1>0, <1>4, EnvironmentStep DEF Tick, TypeOK, template
<1>5. ASSUME UNCHANGED vars PROVE IInv'
  BY <1>0, <1>5, EnvironmentStep DEF vars, TypeOK, template
<1> QED
  BY <1>1, <1>2, <1>3, <1>4, <1>5, RequestStep, EvaluateRequestStep,
     SignStep, RemoveStep, CollectStep, ProgressStep DEF Next

LEMMA Invariance == Spec => []IInv
  BY InitIInv, NextIInv, PTL DEF Spec

-----------------------------------------------------------------------------
(* Type correctness of admission and access.                               *)
THEOREM ContractsTypeCorrect == Spec => []TypeOK
<1>1. IInv => TypeOK
  BY DEF IInv
<1> QED
  BY <1>1, Invariance, PTL

(* No access without an admission since the last removal, within its term. *)
THEOREM NoAccessAfterRemoval == Spec => []AccessFollowsAdmission
<1>1. IInv => AccessFollowsAdmission
  BY DEF IInv, AccessInv, AccessFollowsAdmission
<1> QED
  BY <1>1, Invariance, PTL

(* An allowed access met all the conditions of the template.               *)
THEOREM AccessMeetsConditions == Spec => []AllowedMeetsTemplate
<1>1. IInv => AllowedMeetsTemplate
  BY DEF IInv, AccessInv, AllowedMeetsTemplate
<1> QED
  BY <1>1, Invariance, PTL

(* Contracts without the owner's approval are conditional or read-only.    *)
THEOREM NoUnconditionalAdmission == Spec => []UnapprovedAreConditional
<1>1. IInv => UnapprovedAreConditional
  BY DEF IInv
<1> QED
  BY <1>1, Invariance, PTL

(* A removal never swallows the admission that follows it.                 *)
THEOREM ReadmissionSurvives == Spec => []ReadmissionCounts
<1>1. IInv => ReadmissionCounts
  BY DEF IInv
<1> QED
  BY <1>1, Invariance, PTL
=============================================================================
