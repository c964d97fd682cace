---------------------------- MODULE InviteLanding ----------------------------
(***************************************************************************)
(* The scaffold end of an invitation, invite_landing.go: an in-memory      *)
(* store of ticket records and of the replies waiting for the issuer, one  *)
(* for each landing host.  A handler runs under InviteLanding.mu from its  *)
(* first look at the store to its answer, which is one action.  Publish    *)
(* and Reply read the clock before they take the mutex, and what was in    *)
(* time then is in time for them: a call may wait there while time passes, *)
(* which is a step of its own (CheckPublication, Post).                    *)
(*                                                                         *)
(* The checks of interop/verify.go enter by their outcome for envelopes    *)
(* that their own signer built: what is left of them is time.  A ticket is *)
(* fresh until ExpiresAt, then expired, and old after the day of grace; a  *)
(* reply is stale after its own ExpiresAt, which is never later than the   *)
(* ticket's.  All hosts read the same clock.  Whoever has read it gets the *)
(* mutex within the day of grace.  A status key is the number of the draw  *)
(* that made it, and stands for its digest as well.                        *)
(*                                                                         *)
(* Opening counters (Landing) are left out: Status reports "opened" as     *)
(* "published" and nothing else reads them.  The rate limiters only refuse *)
(* requests, as the network does; the wording of pages is left out.        *)
(***************************************************************************)
EXTENDS Integers, FiniteSets

CONSTANTS
    Landings,           \* landing hosts
    Tickets,            \* tickets, one for each invite.prepare
    Replies,            \* contact requests, by requestID
    Code,               \* humanCode of each ticket
    About,              \* the ticket each reply answers
    Decliners,          \* replies without a SenderEntityRef
    ShortLived,         \* replies that expire before their ticket does
    MaxContactRequests, \* MaxContactRequests of the publications
    MaxDraws            \* bound: publications built for one ticket

ASSUME LandingAssumption ==
    /\ About \in [Replies -> Tickets]
    /\ Decliners \subseteq Replies
    /\ ShortLived \subseteq Replies
    /\ MaxContactRequests \in 1..20
    /\ MaxDraws \in Nat \ {0}

VARIABLES
    age, stale,         \* the clock: of each ticket, and of the replies
    due,                \* publications found in time, waiting for the mutex
    posts,              \* replies found in time, waiting for the mutex
    digest,             \* statusKeyDigest, by landing and ticket
    revoked,            \* tickets with a revokedAt, by landing
    answered,           \* respondedAt and resultingEntityRef of a record
    requests            \* replies a landing keeps for the issuer

NoKey == 0
StatusKeys == 1..MaxDraws

clock == <<age, stale>>
pending == <<due, posts>>
store == <<digest, revoked, answered, requests>>

LandingTypeOK ==
    /\ age \in [Tickets -> {"fresh", "expired", "old"}]
    /\ stale \subseteq Replies
    /\ due \subseteq Landings \X Tickets \X StatusKeys
    /\ posts \subseteq Landings \X Replies
    /\ digest \in [Landings -> [Tickets -> StatusKeys \cup {NoKey}]]
    /\ revoked \in [Landings -> SUBSET Tickets]
    /\ answered \in [Landings -> [Tickets -> {"no", "accepted", "declined"}]]
    /\ requests \in [Landings -> SUBSET Replies]

LandingInit ==
    /\ age = [t \in Tickets |-> "fresh"]
    /\ stale = {}
    /\ due = {} /\ posts = {}
    /\ digest = [l \in Landings |-> [t \in Tickets |-> NoKey]]
    /\ revoked = [l \in Landings |-> {}]
    /\ answered = [l \in Landings |-> [t \in Tickets |-> "no"]]
    /\ requests = [l \in Landings |-> {}]

-----------------------------------------------------------------------------
IsExpired(t) == age[t] # "fresh"

VerifyPublication(t) == ~IsExpired(t)

VerifyContactRequest(r) == r \notin stale /\ ~IsExpired(About[r])

\* The ticket map of a landing, and the lookup of a six-character code.
Known(l) == {t \in Tickets : digest[l][t] # NoKey}
ByCode(l, code) == {t \in Known(l) : Code[t] = code}

Waiting(l, t) == {r \in requests[l] : About[r] = t}

Authorised(l, t, k) == t \in Known(l) /\ digest[l][t] = k

Lifecycle(l, t) ==
    CASE t \in revoked[l] -> "revoked"
      [] t \notin revoked[l] /\ answered[l][t] # "no" -> answered[l][t]
      [] t \notin revoked[l] /\ answered[l][t] = "no" /\ IsExpired(t) -> "expired"
      [] OTHER -> "published"

\* POST /i/api/status: one answer for a wrong key and for no record.
Status(l, t, k) == IF Authorised(l, t, k) THEN Lifecycle(l, t) ELSE "not_found"

\* GET /i/<code> shows the ticket with that code, and so gives its token.
OpensByCode(l, t) == t \in Known(l) \ revoked[l] /\ ~IsExpired(t)

-----------------------------------------------------------------------------
\* POST /i/api/publish, up to the mutex: for a fresh ticket.
CheckPublication(l, t, k) ==
    /\ VerifyPublication(t)
    /\ due' = due \cup {<<l, t, k>>}
    /\ UNCHANGED <<store, posts>>

\* Faulty variant: the code of a new record is not looked up.
Publishable_AnyCode(l, t) == TRUE

\* The record is there already (and is left as it is) or the code is free.
Publishable(l, t) == t \in Known(l) \/ ByCode(l, Code[t]) = {}

\* It answers 200 to a publication that was in time.
Accepts(l, t, k) ==
    /\ <<l, t, k>> \in due \/ VerifyPublication(t)
    /\ Publishable(l, t)

Publish(l, t, k) ==
    /\ digest' = IF Accepts(l, t, k) /\ t \notin Known(l)
                 THEN [digest EXCEPT ![l][t] = k]
                 ELSE digest
    /\ due' = due \ {<<l, t, k>>}
    /\ UNCHANGED <<revoked, answered, requests, posts>>

\* POST /i/api/revoke
Revoke(l, t) ==
    /\ revoked' = IF t \in Known(l)
                  THEN [revoked EXCEPT ![l] = @ \cup {t}]
                  ELSE revoked
    /\ UNCHANGED <<digest, answered, requests, pending>>

\* Faulty variant: the replies are deleted before the key is compared.
Collect_DeletesFirst(l, t, k) ==
    /\ requests' = [requests EXCEPT ![l] = @ \ Waiting(l, t)]
    /\ UNCHANGED <<digest, revoked, answered, pending>>

\* POST /i/api/requests hands the waiting replies out and deletes them.
Collect(l, t, k) ==
    /\ requests' = IF Authorised(l, t, k)
                   THEN [requests EXCEPT ![l] = @ \ Waiting(l, t)]
                   ELSE requests
    /\ UNCHANGED <<digest, revoked, answered, pending>>

\* POST /i/<token|code>/reply, up to the mutex: for a fresh reply.
Post(l, r) ==
    /\ VerifyContactRequest(r)
    /\ posts' = posts \cup {<<l, r>>}
    /\ UNCHANGED <<store, due>>

\* Faulty variant: a withdrawn ticket still takes replies.
Reply_Revoked(l, r) ==
    LET t == About[r] IN
    /\ <<l, r>> \in posts \/ VerifyContactRequest(r)
    /\ t \in Known(l)
    /\ Cardinality(Waiting(l, t)) < MaxContactRequests
    /\ r \notin requests[l]
    /\ requests' = [requests EXCEPT ![l] = @ \cup {r}]
    /\ answered' = [answered EXCEPT ![l][t] = "accepted"]
    /\ UNCHANGED <<digest, revoked>>

\* The limit is looked at before the requestID.
Takes(l, r) ==
    LET t == About[r] IN
    /\ t \in Known(l)
    /\ t \notin revoked[l]
    /\ Cardinality(Waiting(l, t)) < MaxContactRequests
    /\ r \notin requests[l]

\* The last reply decides what the record says.
Reply(l, r) ==
    LET t == About[r] IN
    /\ <<l, r>> \in posts \/ VerifyContactRequest(r)
    /\ Takes(l, r)
    /\ requests' = [requests EXCEPT ![l] = @ \cup {r}]
    /\ answered' = [answered EXCEPT ![l][t] =
                        IF r \in Decliners THEN "declined" ELSE "accepted"]
    /\ UNCHANGED <<digest, revoked>>

\* PurgeExpired is called by the landing's host.
PurgeExpired(l) ==
    LET gone == {t \in Known(l) : age[t] = "old"} IN
    /\ gone # {}
    /\ digest' = [digest EXCEPT ![l] =
                    [t \in Tickets |-> IF t \in gone THEN NoKey ELSE @[t]]]
    /\ revoked' = [revoked EXCEPT ![l] = @ \ gone]
    /\ answered' = [answered EXCEPT ![l] =
                      [t \in Tickets |-> IF t \in gone THEN "no" ELSE @[t]]]
    /\ requests' = [requests EXCEPT ![l] = {r \in @ : About[r] \notin gone}]
    /\ UNCHANGED pending

\* Time passes for a ticket: a day after its end, whoever found it fresh has
\* had the mutex.
Age(t) ==
    /\ \/ /\ age[t] = "fresh" /\ age' = [age EXCEPT ![t] = "expired"]
          /\ posts' = posts
       \/ /\ age[t] = "expired" /\ age' = [age EXCEPT ![t] = "old"]
          /\ \A d \in due : d[2] # t
          /\ posts' = {p \in posts : About[p[2]] # t}
    /\ UNCHANGED <<stale, due>>

\* And for a reply: a week after it was signed, if that is before the end of
\* its ticket.
Stale(r) ==
    /\ r \in ShortLived \ stale
    /\ stale' = stale \cup {r}
    /\ UNCHANGED <<age, pending>>
=============================================================================
