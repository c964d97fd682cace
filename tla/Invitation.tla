----------------------------- MODULE Invitation -----------------------------
(***************************************************************************)
(* An invitation from end to end: the issuer's InvitationCell              *)
(* (invitation.go), the landings of module InviteLanding that hold its     *)
(* tickets, the HTTP calls between them and the invitees who answer.       *)
(*                                                                         *)
(* A call is served by the landing and answered; or the cell gives up      *)
(* after 8 seconds (status 0), and then the landing may have served the    *)
(* call, may never get it, or may still serve it later.  The cell runs     *)
(* every invite.* handler under stateMu, calls included: while a call is   *)
(* under way the cell does nothing else, and what the landing does in the  *)
(* meantime could as well come before or after the call.  So a call and    *)
(* what the handler makes of its outcome are one step; only the clock may  *)
(* have been read by the landing before (Check).  refreshStatus and        *)
(* pullContactRequests walk over the outbox one call at a time and keep    *)
(* nothing between two calls: an action for one ticket is a round of the   *)
(* loop.  publishTicket tries one base after the other, a step for each.   *)
(*                                                                         *)
(* An invitee signs a reply once and posts it to the landing it resolved   *)
(* the link at; the post may come any number of times, or never.           *)
(* c.revoked is left out: only invite.verify reads it.                     *)
(***************************************************************************)
EXTENDS InviteLanding, Sequences

CONSTANTS
    Own,                \* the tickets of this cell; other cells have theirs
    Shared,             \* landings that other cells use as well
    NoBase,             \* an empty landingBase
    FirstBase,          \* landingBase the cell is made with
    Saves,              \* the settings the owner may save
    MaxLate,            \* bound: calls given up and still under way
    MaxWaiting          \* bound: calls kept waiting for a landing's mutex

Settings == [landingBase : Landings \cup {NoBase},
             fallbackLandingBase : Landings \cup {NoBase},
             autoPublish : BOOLEAN]

ASSUME InvitationAssumption ==
    /\ Own \subseteq Tickets
    /\ \A r \in Replies : About[r] \in Own
    /\ Shared \subseteq Landings
    /\ NoBase \notin Landings
    /\ FirstBase \in Landings \cup {NoBase}
    /\ Saves \subseteq Settings
    /\ MaxLate \in Nat /\ MaxWaiting \in Nat

VARIABLES
    settings,
    state,              \* outbox: state of the entry, "none" without one
    statusKey, base,    \* statusKey, landingBase of a published entry
    drawn,              \* publications built for a ticket
    inbox, accepted,    \* replies received, and those of them accepted
    job,                \* the publishTicket under way, holding stateMu
    late,               \* calls given up that a landing may still serve
    shared,             \* tickets whose links a prepare returned
    to,                 \* the landing that has ever stored a reply
    lost,               \* history: handed out, never put in the inbox
    doubt               \* history: tickets with a publish given up

entries == <<state, statusKey, base>>
mailbox == <<inbox, accepted>>
history == <<lost, doubt>>
vars == <<clock, pending, store, settings, entries, drawn, mailbox, job, late,
          shared, to, history>>

-----------------------------------------------------------------------------
Keys == StatusKeys \cup {NoKey}
Message == [op : {"publish", "revoke", "requests"}, ticket : Tickets,
            at : Landings, key : Keys]

\* handler: who called publishTicket; left: the bases it has not tried yet.
Idle == [handler |-> "none"]
Jobs == [handler : {"email", "sms", "publish"}, ticket : Tickets,
         key : StatusKeys, left : Seq(Landings)]

(***************************************************************************)
(* Type invariant: the states of the cell, the landings and the network.   *)
(***************************************************************************)
TypeOK ==
    /\ LandingTypeOK
    /\ settings \in Settings
    /\ state \in [Tickets -> {"none", "prepared", "sent", "joined",
                              "declined", "blocked"}]
    /\ statusKey \in [Tickets -> Keys]
    /\ base \in [Tickets -> Landings \cup {NoBase}]
    /\ drawn \in [Tickets -> 0..MaxDraws]
    /\ inbox \subseteq Replies /\ accepted \subseteq inbox
    /\ job = Idle \/ (job \in Jobs /\ job.left # <<>>)
    /\ late \subseteq Message
    /\ shared \subseteq Tickets
    /\ to \in [Replies -> Landings \cup {NoBase}]
    /\ lost \subseteq Replies
    /\ doubt \subseteq Tickets

Init ==
    /\ LandingInit
    /\ settings = [landingBase |-> FirstBase, fallbackLandingBase |-> NoBase,
                   autoPublish |-> TRUE]
    /\ state = [t \in Tickets |-> "none"]
    /\ statusKey = [t \in Tickets |-> NoKey]
    /\ base = [t \in Tickets |-> NoBase]
    /\ drawn = [t \in Tickets |-> 0]
    /\ inbox = {} /\ accepted = {}
    /\ job = Idle /\ late = {}
    /\ shared = {} /\ to = [r \in Replies |-> NoBase]
    /\ lost = {} /\ doubt = {}

-----------------------------------------------------------------------------
\* bases(): the primary landing, then a fallback that differs from it.
Bases ==
    LET primary == settings.landingBase
        fallback == settings.fallbackLandingBase
    IN
    IF primary = NoBase
    THEN IF fallback = NoBase THEN <<>> ELSE <<fallback>>
    ELSE IF fallback \in {NoBase, primary} THEN <<primary>>
    ELSE <<primary, fallback>>

Entry(t) == state[t] # "none"
Published(t) == statusKey[t] # NoKey
Minted(t) == t \in shared \/ drawn[t] > 0
Delivered == {r \in Replies : to[r] # NoBase}
MayWait == Cardinality(due) + Cardinality(posts) < MaxWaiting

\* What a landing does with a call, and the replies its answer carries.
Handle(m) ==
    \/ m.op = "publish" /\ Publish(m.at, m.ticket, m.key)
    \/ m.op = "revoke" /\ Revoke(m.at, m.ticket)
    \/ m.op = "requests" /\ Collect(m.at, m.ticket, m.key)

\* A publication whose ticket the landing has found fresh.
Checked(m) == m.op = "publish" /\ <<m.at, m.ticket, m.key>> \in due

HandedOut(m) ==
    IF m.op = "requests" /\ Authorised(m.at, m.ticket, m.key)
    THEN Waiting(m.at, m.ticket) ELSE {}

\* A call the cell gets an answer to, and one it gives up.
Answered(m) == Handle(m) /\ late' = late

GivenUp(m) ==
    \/ /\ Handle(m)
       /\ lost' = lost \cup (HandedOut(m) \ inbox)
       /\ late' = late
    \/ /\ \/ ~Checked(m) /\ late' = late
          \/ Cardinality(late) < MaxLate /\ late' = late \cup {m}
       /\ UNCHANGED <<pending, store, lost>>

-----------------------------------------------------------------------------
\* The owner's operations.  Each needs stateMu.
Configure(s) ==
    /\ job = Idle
    /\ s # settings
    /\ settings' = s
    /\ UNCHANGED <<clock, pending, store, entries, drawn, mailbox, job, late,
                   shared, to, history>>

\* publishTicket draws one status key and offers it to each base in turn.
PublishTicket(handler, t) ==
    /\ Bases # <<>>
    /\ drawn[t] < MaxDraws
    /\ drawn' = [drawn EXCEPT ![t] = @ + 1]
    /\ job' = [handler |-> handler, ticket |-> t, key |-> drawn[t] + 1,
               left |-> Bases]

\* The entry prepare puts into the outbox, and the link it returns.
NewEntry(t) ==
    /\ state' = [state EXCEPT ![t] = "prepared"]
    /\ shared' = shared \cup {t}

\* The caller may pass `force`, so that an open invitation to the same
\* person (already_invited) need not stop prepare.
Prepare(t, channel) ==
    /\ job = Idle
    /\ ~Minted(t) /\ ~IsExpired(t)
    /\ \/ /\ settings.autoPublish
          /\ PublishTicket(channel, t)
          /\ UNCHANGED <<state, shared>>
       \/ /\ ~settings.autoPublish \/ Bases = <<>>
          /\ channel = "email"
          /\ NewEntry(t)
          /\ UNCHANGED <<drawn, job>>
    /\ UNCHANGED <<clock, pending, store, settings, statusKey, base, mailbox,
                   late, to, history>>

\* Faulty variant: a published entry is published again.
PublishEntry_Again(t) ==
    /\ job = Idle
    /\ Entry(t)
    /\ PublishTicket("publish", t)
    /\ UNCHANGED <<clock, pending, store, settings, entries, mailbox, late,
                   shared, to, history>>

PublishEntry(t) ==
    /\ job = Idle
    /\ Entry(t) /\ ~Published(t)
    /\ PublishTicket("publish", t)
    /\ UNCHANGED <<clock, pending, store, settings, entries, mailbox, late,
                   shared, to, history>>

\* The call publishTicket makes next.
Offer == [op |-> "publish", ticket |-> job.ticket, at |-> Head(job.left),
          key |-> job.key]

\* One base of publishTicket.  A landing that answers 2xx ends it, and the
\* entry gets the key and the base; otherwise the next base is tried, and
\* after the last an e-mail invitation is made without a registration.
Attempt ==
    LET t == job.ticket
        l == Head(job.left)
        Registered ==
            /\ statusKey' = [statusKey EXCEPT ![t] = job.key]
            /\ base' = [base EXCEPT ![t] = l]
            /\ job' = Idle
            /\ IF job.handler = "publish" THEN UNCHANGED <<state, shared>>
               ELSE NewEntry(t)
        Refused ==
            /\ \/ /\ Tail(job.left) # <<>>
                  /\ job' = [job EXCEPT !.left = Tail(job.left)]
                  /\ UNCHANGED <<state, shared>>
               \/ /\ Tail(job.left) = <<>>
                  /\ job' = Idle
                  /\ IF job.handler = "email" THEN NewEntry(t)
                     ELSE UNCHANGED <<state, shared>>
            /\ UNCHANGED <<statusKey, base>>
    IN
    /\ job # Idle
    /\ \/ /\ Answered(Offer)
          /\ IF Accepts(l, t, job.key) THEN Registered ELSE Refused
          /\ UNCHANGED history
       \/ /\ GivenUp(Offer)
          /\ Refused
          /\ doubt' = doubt \cup {t}
    /\ UNCHANGED <<clock, settings, drawn, mailbox, to>>

MarkSent(t) ==
    /\ job = Idle
    /\ state[t] = "prepared"
    /\ state' = [state EXCEPT ![t] = "sent"]
    /\ UNCHANGED <<clock, pending, store, settings, statusKey, base, drawn,
                   mailbox, job, late, shared, to, history>>

\* With a ticketID refreshStatus asks whatever the state of the entry.  A
\* query that fails changes nothing.
RefreshStatus(t) ==
    LET reported == Status(base[t], t, statusKey[t]) IN
    /\ job = Idle
    /\ Entry(t) /\ Published(t)
    /\ reported # "not_found"
    /\ state' = [state EXCEPT ![t] =
                    CASE reported = "accepted" -> "joined"
                      [] reported = "declined" -> "declined"
                      [] reported = "revoked"  -> "blocked"
                      [] OTHER                 -> @]
    /\ UNCHANGED <<clock, pending, store, settings, statusKey, base, drawn,
                   mailbox, job, late, shared, to, history>>

\* What the landing hands out is verified again, with the time of now.
PullContactRequests(t) ==
    LET m == [op |-> "requests", ticket |-> t, at |-> base[t],
              key |-> statusKey[t]]
        good == {r \in HandedOut(m) : VerifyContactRequest(r)}
    IN
    /\ job = Idle
    /\ Entry(t) /\ Published(t)
    /\ \/ /\ Answered(m)
          /\ inbox' = inbox \cup good
          /\ lost' = lost \cup (HandedOut(m) \ (inbox \cup good))
       \/ /\ GivenUp(m)
          /\ inbox' = inbox
    /\ UNCHANGED <<clock, settings, entries, drawn, accepted, job, shared, to,
                   doubt>>

AcceptContactRequest(r) ==
    /\ job = Idle
    /\ r \in inbox
    /\ accepted' = accepted \cup {r}
    /\ state' = IF Entry(About[r]) THEN [state EXCEPT ![About[r]] = "joined"]
                ELSE state
    /\ UNCHANGED <<clock, pending, store, settings, statusKey, base, drawn,
                   inbox, job, late, shared, to, history>>

\* The entry is closed first, then the one landing it names is told.
RevokeEntry(t) ==
    LET m == [op |-> "revoke", ticket |-> t, at |-> base[t], key |-> NoKey] IN
    /\ job = Idle
    /\ Entry(t)
    /\ state' = [state EXCEPT ![t] = "declined"]
    /\ \/ ~Published(t) /\ UNCHANGED <<pending, store, late, lost>>
       \/ Published(t) /\ Answered(m) /\ UNCHANGED lost
       \/ Published(t) /\ GivenUp(m)
    /\ UNCHANGED <<clock, settings, statusKey, base, drawn, mailbox, job,
                   shared, to, doubt>>

\* clearOutbox drops the resolved entries, or all of them.
ClearOutbox(onlyResolved) ==
    LET cleared == {t \in Tickets :
                        /\ Entry(t)
                        /\ onlyResolved => state[t] \in {"joined", "declined"}}
    IN
    /\ job = Idle
    /\ cleared # {}
    /\ state' = [t \in Tickets |-> IF t \in cleared THEN "none" ELSE state[t]]
    /\ statusKey' = [t \in Tickets |->
                        IF t \in cleared THEN NoKey ELSE statusKey[t]]
    /\ base' = [t \in Tickets |-> IF t \in cleared THEN NoBase ELSE base[t]]
    /\ UNCHANGED <<clock, pending, store, settings, drawn, mailbox, job, late,
                   shared, to, history>>

-----------------------------------------------------------------------------
\* The landing finds the ticket of a publication fresh, and the call is kept
\* waiting for its mutex.
Check(m) ==
    /\ m.op = "publish" /\ MayWait
    /\ CheckPublication(m.at, m.ticket, m.key)
    /\ UNCHANGED <<clock, settings, entries, drawn, mailbox, job, late,
                   shared, to, history>>

\* A call that was given up arrives after all.
ServeLate(m) ==
    /\ Handle(m)
    /\ late' = late \ {m}
    /\ lost' = lost \cup (HandedOut(m) \ inbox)
    /\ UNCHANGED <<clock, settings, entries, drawn, mailbox, job, shared, to,
                   doubt>>

\* resolveToken: the invitee has the long link of the ticket, or the code of
\* a shared one opens it at l.
ResolveToken(l, t) ==
    \/ t \in shared
    \/ OpensByCode(l, t) /\ \E u \in shared : Code[u] = Code[t]

\* respond signs a reply and posts it to l.  The landing checks again what
\* the invitee checked, so signing, post and that check are one step; the
\* same post may come again, also while one waits for the mutex.
Respond(r, l) ==
    /\ to[r] \in {NoBase, l}
    /\ \A p \in posts : p[2] = r => p[1] = l
    /\ ResolveToken(l, About[r])
    /\ VerifyContactRequest(r)
    /\ \/ MayWait /\ Post(l, r) /\ to' = to
       \/ Reply(l, r) /\ to' = [to EXCEPT ![r] = l] /\ UNCHANGED pending
    /\ UNCHANGED <<clock, settings, entries, drawn, mailbox, job, late,
                   shared, history>>

\* The landing gets to a reply that had to wait.
Deliver(r, l) ==
    /\ <<l, r>> \in posts
    /\ posts' = posts \ {<<l, r>>} /\ due' = due
    /\ \/ Reply(l, r) /\ to' = [to EXCEPT ![r] = l]
       \/ ~Takes(l, r) /\ UNCHANGED <<store, to>>
    /\ UNCHANGED <<clock, settings, entries, drawn, mailbox, job, late,
                   shared, history>>

Purge(l) ==
    /\ PurgeExpired(l)
    /\ UNCHANGED <<clock, settings, entries, drawn, mailbox, job, late,
                   shared, to, history>>

\* Other cells register their tickets at the same landings; what they do
\* with them later is of no concern here.
Others(l, t) ==
    /\ Accepts(l, t, 1) /\ Publish(l, t, 1)
    /\ UNCHANGED <<clock, settings, entries, drawn, mailbox, job, late,
                   shared, to, history>>

\* Time matters for a ticket once it exists, for a reply from its post until
\* the issuer has dealt with it.  The tickets of other cells outlive the
\* model.
Tick ==
    /\ \/ \E t \in Own : Minted(t) /\ Age(t)
       \/ \E r \in Delivered \cup {p[2] : p \in posts} :
             r \notin inbox \cup lost /\ Stale(r)
    /\ UNCHANGED <<store, settings, entries, drawn, mailbox, job, late,
                   shared, to, history>>

-----------------------------------------------------------------------------
Owner ==
    \/ \E s \in Saves : Configure(s)
    \/ \E t \in Own, channel \in {"email", "sms"} : Prepare(t, channel)
    \/ \E t \in Own :
          \/ PublishEntry(t) \/ MarkSent(t) \/ RefreshStatus(t)
          \/ PullContactRequests(t) \/ RevokeEntry(t)
    \/ Attempt
    \/ \E r \in Replies : AcceptContactRequest(r)
    \/ \E onlyResolved \in BOOLEAN : ClearOutbox(onlyResolved)

Hosts ==
    \/ job # Idle /\ Check(Offer)
    \/ \E m \in late : Check(m) \/ ServeLate(m)
    \/ \E r \in Replies, l \in Landings : Respond(r, l) \/ Deliver(r, l)
    \/ \E l \in Landings : Purge(l)
    \/ \E l \in Shared, t \in Tickets \ Own : Others(l, t)

Next == Owner \/ Hosts \/ Tick

Spec == Init /\ [][Next]_vars

-----------------------------------------------------------------------------
\* A ticket at a landing, as module TicketLife sees it.
Slots == Landings \X Tickets

Phase(l, t) ==
    IF digest[l][t] = NoKey THEN "none"
    ELSE IF t \in revoked[l] THEN "withdrawn" ELSE "open"

DueAt(l, t) == {d[3] : d \in {d \in due : d[1] = l /\ d[2] = t}}
PostsAt(l, t) == {p[2] : p \in {p \in posts : p[1] = l /\ About[p[2]] = t}}

View(l, t) ==
    [age |-> age[t], phase |-> Phase(l, t), due |-> DueAt(l, t),
     posts |-> PostsAt(l, t), mail |-> Waiting(l, t)]

Life == INSTANCE TicketLife WITH
    Keys <- StatusKeys,
    Mail <- [s \in Slots |-> {r \in Replies : About[r] = s[2]}],
    Cap <- MaxContactRequests,
    slot <- [s \in Slots |-> View(s[1], s[2])]

(***************************************************************************)
(* Whatever calls arrive late, twice or after a purge, each landing keeps  *)
(* to the life of a ticket: it is registered, and takes replies, only by   *)
(* calls that found it fresh, and so not after the grace; no replies once  *)
(* it is withdrawn, never more than the limit, and no way back.            *)
(***************************************************************************)
LifeCycle == Life!Spec

(***************************************************************************)
(* While a ticket is within its grace, the short link of a published entry *)
(* (its landing and its code) opens that ticket and no other: the record   *)
(* is there, and no other record of the landing has its code.              *)
(***************************************************************************)
ShortLinkHolds ==
    \A t \in Tickets :
        Published(t) /\ age[t] # "old" => ByCode(base[t], Code[t]) = {t}

(***************************************************************************)
(* The status key of a published entry opens the record at its landing,    *)
(* so that its replies can be collected, unless a call to publish it was   *)
(* given up: then the landing may hold the key of that one, and answers    *)
(* 200 to the next without taking its key.                                 *)
(***************************************************************************)
KeyFits ==
    \A t \in Tickets :
        /\ Published(t)
        /\ t \in Known(base[t])
        /\ t \notin doubt
        => digest[base[t]][t] = statusKey[t]

(***************************************************************************)
(* A stored reply is at its landing until its ticket is purged, or in the  *)
(* inbox, or was handed out and lost on the way: no other call at the      *)
(* landing, late or not, makes it disappear.                               *)
(***************************************************************************)
ReplyIsKept ==
    \A r \in Delivered :
        r \in requests[to[r]] \cup inbox \cup lost \/ About[r] \notin Known(to[r])

(***************************************************************************)
(* An invitation shows as joined only if somebody answered it: a reply     *)
(* with an entity reference reached a landing, or the owner accepted a     *)
(* reply from the inbox.                                                   *)
(***************************************************************************)
JoinedHasReply ==
    \A t \in Tickets :
        state[t] = "joined" =>
            \E r \in Delivered :
                About[r] = t /\ (r \notin Decliners \/ r \in accepted)
=============================================================================
