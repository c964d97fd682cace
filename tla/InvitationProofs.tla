-------------------------- MODULE InvitationProofs --------------------------
(***************************************************************************)
(* Theorems about Invitation, for any sets of landings, tickets and        *)
(* replies and any number of publications and late calls.                  *)
(***************************************************************************)
EXTENDS Invitation, TLAPS

(* An entry has been shared; a published one belongs to this cell and      *)
(* names its landing; publishTicket works on an own, unpublished ticket.   *)
Outbox ==
    /\ \A t \in Tickets : Entry(t) => t \in shared
    /\ \A t \in Tickets : Published(t) => /\ t \in Own /\ base[t] \in Landings
                                          /\ drawn[t] > 0
    /\ job # Idle => /\ job.ticket \in Own
                     /\ drawn[job.ticket] > 0
                     /\ ~Published(job.ticket)
    /\ \A m \in late : m.op = "publish" => /\ m.ticket \in doubt \cap Own
                                           /\ m.key # NoKey

(* Two records of a landing never share a code; only a recorded ticket is  *)
(* withdrawn there or has replies waiting, which came to that landing.     *)
Records ==
    /\ \A l \in Landings : \A t, u \in Known(l) : Code[t] = Code[u] => t = u
    /\ \A l \in Landings : revoked[l] \subseteq Known(l)
    /\ \A l \in Landings : \A r \in requests[l] :
          to[r] = l /\ About[r] \in Known(l)

(* The record of a published entry outlives the grace.                     *)
Links ==
    \A t \in Tickets : Published(t) /\ age[t] # "old" => t \in Known(base[t])

(* No landing has a ticket that may still be published for the first time, *)
(* unless a call was given up.                                             *)
Unpublished(t) ==
    /\ ~Published(t)
    /\ Entry(t) \/ ~Minted(t) \/ (job # Idle /\ job.ticket = t)

Clean ==
    \A t \in Own : Unpublished(t) /\ t \notin doubt =>
        \A l \in Landings : t \notin Known(l)

(* Calls wait for a mutex only within the grace, and all posts of a reply  *)
(* go to one landing.                                                      *)
Waits ==
    /\ \A l \in Landings, t \in Tickets, k \in StatusKeys :
          <<l, t, k>> \in due => age[t] # "old"
    /\ \A l \in Landings, r \in Replies :
          <<l, r>> \in posts =>
              /\ age[About[r]] # "old"
              /\ to[r] \in {NoBase, l}
              /\ \A k \in Landings : <<k, r>> \in posts => k = l

(* Where a reply has been: a record outlives its replies until the end of  *)
(* the grace, and what it says of the answers is backed by one of them.    *)
Traces ==
    /\ \A r \in Delivered : About[r] \in Known(to[r]) \/ age[About[r]] = "old"
    /\ inbox \subseteq Delivered
    /\ \A l \in Landings, t \in Tickets : answered[l][t] = "accepted" =>
          \E r \in Delivered : About[r] = t /\ r \notin Decliners

IInv == /\ TypeOK /\ Outbox /\ Waits /\ Records /\ Links /\ Clean /\ KeyFits
        /\ Traces /\ ReplyIsKept /\ JoinedHasReply

-----------------------------------------------------------------------------
(* The types of the store, and the calls a landing can get.                *)
StoreType ==
    /\ digest \in [Landings -> [Tickets -> StatusKeys \cup {NoKey}]]
    /\ revoked \in [Landings -> SUBSET Tickets]
    /\ answered \in [Landings -> [Tickets -> {"no", "accepted", "declined"}]]
    /\ requests \in [Landings -> SUBSET Replies]

Proper(m) == m \in Message /\ (m.op = "publish" => m.key # NoKey)

(* What serving a call can do to the store: register the ticket of a       *)
(* publication under a free code, withdraw a recorded ticket, or delete    *)
(* the replies the answer carries.                                         *)
Effect(m) ==
    /\ answered' = answered /\ posts' = posts
    /\ due' = IF m.op = "publish" THEN due \ {<<m.at, m.ticket, m.key>>} ELSE due
    /\ \A l \in Landings, t \in Tickets :
          digest'[l][t] # digest[l][t] =>
              /\ m.op = "publish" /\ l = m.at /\ t = m.ticket
              /\ digest[l][t] = NoKey /\ digest'[l][t] = m.key
              /\ m.key # NoKey
              /\ <<l, t, m.key>> \in due \/ age[t] = "fresh"
              /\ ByCode(l, Code[t]) = {}
    /\ \A l \in Landings :
          revoked'[l] # revoked[l] =>
              /\ m.op = "revoke" /\ l = m.at /\ m.ticket \in Known(l)
              /\ revoked'[l] = revoked[l] \cup {m.ticket}
    /\ \A l \in Landings :
          requests'[l] = IF l = m.at THEN requests[l] \ HandedOut(m)
                         ELSE requests[l]

LEMMA HandleEffect ==
  ASSUME StoreType, NEW m, Proper(m), Handle(m)
  PROVE  Effect(m) /\ StoreType'
<1> m \in Message /\ m.at \in Landings /\ m.ticket \in Tickets /\ m.key \in Keys
  BY DEF Proper, Message
<1>1. CASE m.op = "publish" /\ Publish(m.at, m.ticket, m.key)
  <2>1. digest' \in [Landings -> [Tickets -> StatusKeys \cup {NoKey}]]
    BY <1>1 DEF Publish, StoreType, Keys
  <2>2. /\ UNCHANGED <<revoked, answered, requests, posts>> /\ HandedOut(m) = {}
        /\ due' = due \ {<<m.at, m.ticket, m.key>>}
    BY <1>1 DEF Publish, HandedOut
  <2>3. ASSUME NEW l \in Landings, NEW t \in Tickets,
               digest'[l][t] # digest[l][t]
        PROVE  /\ l = m.at /\ t = m.ticket
               /\ digest[l][t] = NoKey /\ digest'[l][t] = m.key
               /\ <<l, t, m.key>> \in due \/ age[t] = "fresh"
               /\ ByCode(l, Code[t]) = {}
    <3>1. Accepts(m.at, m.ticket, m.key) /\ m.ticket \notin Known(m.at)
      BY <1>1, <2>3 DEF Publish
    <3>2. l = m.at /\ t = m.ticket /\ digest'[l][t] = m.key
      BY <1>1, <2>3, <3>1 DEF Publish, StoreType
    <3> QED
      BY <3>1, <3>2 DEF Accepts, Publishable, VerifyPublication, IsExpired, Known
  <2>4. requests' = requests /\ \A l \in Landings : requests[l] \ {} = requests[l]
    BY <2>2
  <2> QED
    BY <1>1, <2>1, <2>2, <2>3, <2>4 DEF Effect, StoreType, Proper
<1>2. CASE m.op = "revoke" /\ Revoke(m.at, m.ticket)
  <2>1. UNCHANGED <<digest, answered, requests, pending>> /\ HandedOut(m) = {}
    BY <1>2 DEF Revoke, HandedOut
  <2>2. revoked' \in [Landings -> SUBSET Tickets]
    BY <1>2 DEF Revoke, StoreType
  <2>3. ASSUME NEW l \in Landings, revoked'[l] # revoked[l]
        PROVE  /\ l = m.at /\ m.ticket \in Known(l)
               /\ revoked'[l] = revoked[l] \cup {m.ticket}
    BY <1>2, <2>3 DEF Revoke, StoreType
  <2> QED
    BY <1>2, <2>1, <2>2, <2>3 DEF Effect, StoreType, pending
<1>3. CASE m.op = "requests" /\ Collect(m.at, m.ticket, m.key)
  <2>1. UNCHANGED <<digest, revoked, answered, pending>>
    BY <1>3 DEF Collect
  <2>2. requests' \in [Landings -> SUBSET Replies]
    BY <1>3 DEF Collect, StoreType
  <2>3. \A l \in Landings :
          requests'[l] = IF l = m.at THEN requests[l] \ HandedOut(m)
                         ELSE requests[l]
    BY <1>3 DEF Collect, HandedOut, StoreType
  <2> QED
    BY <1>3, <2>1, <2>2, <2>3 DEF Effect, StoreType, pending
<1> QED
  BY <1>1, <1>2, <1>3 DEF Handle

LEMMA ReplyType ==
  ASSUME StoreType, NEW l \in Landings, NEW r \in Replies, Reply(l, r)
  PROVE  StoreType'
<1> About[r] \in Tickets
  BY LandingAssumption
<1>1. requests' \in [Landings -> SUBSET Replies]
  BY DEF Reply, StoreType
<1>2. answered' \in [Landings -> [Tickets -> {"no", "accepted", "declined"}]]
  BY DEF Reply, StoreType
<1> QED
  BY <1>1, <1>2 DEF Reply, StoreType

LEMMA PurgeType ==
  ASSUME StoreType, NEW l \in Landings, PurgeExpired(l)
  PROVE  StoreType'
<1>1. digest' \in [Landings -> [Tickets -> StatusKeys \cup {NoKey}]]
  BY DEF PurgeExpired, StoreType
<1>2. answered' \in [Landings -> [Tickets -> {"no", "accepted", "declined"}]]
  BY DEF PurgeExpired, StoreType
<1>3. revoked' \in [Landings -> SUBSET Tickets]
  BY DEF PurgeExpired, StoreType
<1>4. requests' \in [Landings -> SUBSET Replies]
  BY DEF PurgeExpired, StoreType
<1> QED
  BY <1>1, <1>2, <1>3, <1>4 DEF StoreType

-----------------------------------------------------------------------------
(* Type correctness.                                                       *)
LEMMA StoreTyped == TypeOK => StoreType
BY DEF TypeOK, LandingTypeOK, StoreType

LEMMA HandedOutType ==
  ASSUME StoreType, NEW m, Proper(m)
  PROVE  HandedOut(m) \subseteq requests[m.at] /\ HandedOut(m) \subseteq Replies
<1> m.at \in Landings
  BY DEF Proper, Message
<1> QED
  BY DEF HandedOut, Waiting, StoreType

LEMMA AnsweredType ==
  ASSUME TypeOK, NEW m, Proper(m), Answered(m)
  PROVE  StoreType' /\ Effect(m) /\ late' = late
BY StoreTyped, HandleEffect DEF Answered

LEMMA GivenUpType ==
  ASSUME TypeOK, NEW m, Proper(m), GivenUp(m)
  PROVE  /\ StoreType' /\ (Effect(m) \/ UNCHANGED <<pending, store>>)
         /\ late' \subseteq Message /\ lost' \subseteq Replies
         /\ late' \subseteq late \cup {m}
<1>1. StoreType /\ late \subseteq Message /\ lost \subseteq Replies /\ m \in Message
  BY StoreTyped DEF TypeOK, Proper
<1>2. CASE Handle(m) /\ lost' = lost \cup (HandedOut(m) \ inbox) /\ late' = late
  BY <1>1, <1>2, HandleEffect, HandedOutType
<1>3. CASE late' \in {late, late \cup {m}} /\ UNCHANGED <<pending, store, lost>>
  BY <1>1, <1>3 DEF store, StoreType
<1> QED
  BY <1>2, <1>3 DEF GivenUp

LEMMA BasesType == TypeOK => Bases \in Seq(Landings)
<1> SUFFICES ASSUME TypeOK PROVE Bases \in Seq(Landings)
  OBVIOUS
<1>1. /\ settings.landingBase \in Landings \cup {NoBase}
      /\ settings.fallbackLandingBase \in Landings \cup {NoBase}
  BY DEF TypeOK, Settings
<1> QED
  BY <1>1 DEF Bases

LEMMA PublishTicketType ==
  ASSUME TypeOK, NEW t \in Own, NEW h \in {"email", "sms", "publish"},
         PublishTicket(h, t)
  PROVE  /\ drawn' \in [Tickets -> 0..MaxDraws]
         /\ job' \in Jobs /\ job'.left # <<>> /\ job'.ticket = t
         /\ drawn'[t] > 0
         /\ job' # Idle
<1> t \in Tickets
  BY InvitationAssumption
<1>1. drawn[t] \in 0..MaxDraws /\ drawn[t] < MaxDraws /\ MaxDraws \in Nat
  BY LandingAssumption DEF TypeOK, PublishTicket
<1>2. drawn[t] + 1 \in 1..MaxDraws
  BY <1>1
<1>3. drawn' = [drawn EXCEPT ![t] = drawn[t] + 1] /\ drawn \in [Tickets -> 0..MaxDraws]
  BY DEF PublishTicket, TypeOK
<1>4. drawn' \in [Tickets -> 0..MaxDraws] /\ drawn'[t] > 0
  BY <1>2, <1>3
<1>5. job' = [handler |-> h, ticket |-> t, key |-> drawn[t] + 1, left |-> Bases]
  BY DEF PublishTicket
<1>6. job' \in Jobs /\ job'.left # <<>> /\ job'.ticket = t
  BY <1>2, <1>5, BasesType DEF Jobs, PublishTicket, StatusKeys
<1>7. job' # Idle
  <2>1. job'.handler # Idle.handler
    BY <1>5 DEF Idle
  <2> QED
    BY <2>1
<1> QED
  BY <1>4, <1>6, <1>7

LEMMA OfferProper ==
  ASSUME TypeOK, job # Idle
  PROVE  /\ job \in Jobs /\ job.left # <<>>
         /\ job.ticket \in Tickets /\ Head(job.left) \in Landings
         /\ Tail(job.left) \in Seq(Landings)
         /\ job.key \in StatusKeys /\ job.key # NoKey
         /\ Proper(Offer)
<1>1. job \in Jobs /\ job.left # <<>>
  BY DEF TypeOK
<1>2. /\ job.ticket \in Tickets /\ job.key \in StatusKeys
      /\ job.left \in Seq(Landings)
  BY <1>1 DEF Jobs
<1>3. Head(job.left) \in Landings /\ Tail(job.left) \in Seq(Landings)
  BY <1>1, <1>2
<1>4. job.key # NoKey
  BY <1>2, LandingAssumption DEF StatusKeys, NoKey
<1>5. Proper(Offer)
  BY <1>2, <1>3, <1>4 DEF Proper, Offer, Message, Keys
<1> QED
  BY <1>1, <1>2, <1>3, <1>4, <1>5

LEMMA InitIInv == Init => IInv
<1> SUFFICES ASSUME Init PROVE IInv
  OBVIOUS
<1> USE LandingAssumption, InvitationAssumption DEF Init, LandingInit
<1>1. TypeOK
  <2>1. drawn \in [Tickets -> 0..MaxDraws]
    OBVIOUS
  <2>2. LandingTypeOK
    BY DEF LandingTypeOK
  <2>3. settings \in Settings
    BY DEF Settings
  <2> QED
    BY <2>1, <2>2, <2>3 DEF TypeOK, Keys
<1>2. \A t \in Tickets : ~Published(t) /\ ~Entry(t)
  BY DEF Published, Entry
<1>3. \A l \in Landings : Known(l) = {}
  BY DEF Known
<1>4. Delivered = {}
  BY DEF Delivered
<1>5. Outbox /\ Links /\ KeyFits
  BY <1>2 DEF Outbox, Links, KeyFits
<1>6. Records /\ Clean /\ Waits
  BY <1>3 DEF Records, Clean, Waits
<1>7. Traces /\ ReplyIsKept /\ JoinedHasReply
  BY <1>4 DEF Traces, ReplyIsKept, JoinedHasReply
<1> QED
  BY <1>1, <1>5, <1>6, <1>7 DEF IInv

(* The parts of the type invariant that a step leaves alone.               *)
CellType ==
    /\ settings \in Settings
    /\ state \in [Tickets -> {"none", "prepared", "sent", "joined",
                              "declined", "blocked"}]
    /\ statusKey \in [Tickets -> Keys]
    /\ base \in [Tickets -> Landings \cup {NoBase}]
    /\ drawn \in [Tickets -> 0..MaxDraws]
    /\ inbox \subseteq Replies /\ accepted \subseteq inbox
    /\ job = Idle \/ (job \in Jobs /\ job.left # <<>>)
NetType ==
    /\ late \subseteq Message
    /\ shared \subseteq Tickets
    /\ to \in [Replies -> Landings \cup {NoBase}]
    /\ lost \subseteq Replies
    /\ doubt \subseteq Tickets
ClockType ==
    /\ age \in [Tickets -> {"fresh", "expired", "old"}]
    /\ stale \subseteq Replies
    /\ due \subseteq Landings \X Tickets \X StatusKeys
    /\ posts \subseteq Landings \X Replies

LEMMA TypeParts ==
  /\ TypeOK <=> ClockType /\ StoreType /\ CellType /\ NetType
  /\ TypeOK' <=> ClockType' /\ StoreType' /\ CellType' /\ NetType'
BY DEF TypeOK, LandingTypeOK, ClockType, StoreType, CellType, NetType

LEMMA Frames ==
  /\ StoreType /\ UNCHANGED store => StoreType'
  /\ ClockType /\ UNCHANGED <<clock, pending>> => ClockType'
  /\ \A m : ClockType /\ UNCHANGED clock /\ Effect(m) => ClockType'
BY DEF StoreType, ClockType, Effect, store, clock, pending

LEMMA OwnerType ==
  ASSUME TypeOK, Outbox, Owner
  PROVE  TypeOK'
<1> ClockType /\ StoreType /\ CellType /\ NetType
  BY TypeParts
<1> SUFFICES ClockType' /\ StoreType' /\ CellType' /\ NetType'
  BY TypeParts
<1> Own \subseteq Tickets /\ Saves \subseteq Settings
  BY InvitationAssumption
<1>1. ASSUME NEW s \in Saves, Configure(s) PROVE ClockType' /\ StoreType' /\ CellType' /\ NetType'
  BY <1>1, Frames DEF Configure, CellType, NetType, entries, mailbox, history
<1>2. ASSUME NEW t \in Own, NEW channel \in {"email", "sms"}, Prepare(t, channel)
      PROVE ClockType' /\ StoreType' /\ CellType' /\ NetType'
  <2>1. ClockType' /\ StoreType' /\ NetType'
    BY <1>2, Frames DEF Prepare, NewEntry, NetType, history
  <2>2. CellType'
    <3>1. CASE settings.autoPublish /\ PublishTicket(channel, t) /\ UNCHANGED <<state, shared>>
      <4>1. drawn' \in [Tickets -> 0..MaxDraws] /\ job' \in Jobs /\ job'.left # <<>>
        BY <3>1, PublishTicketType
      <4> QED
        BY <1>2, <3>1, <4>1 DEF Prepare, CellType, mailbox
    <3>2. CASE NewEntry(t) /\ UNCHANGED <<drawn, job>>
      BY <1>2, <3>2 DEF Prepare, NewEntry, CellType, mailbox
    <3> QED
      BY <1>2, <3>1, <3>2 DEF Prepare
  <2> QED
    BY <2>1, <2>2
<1>3. ASSUME NEW t \in Own, PublishEntry(t)
      PROVE ClockType' /\ StoreType' /\ CellType' /\ NetType'
  <2>1. drawn' \in [Tickets -> 0..MaxDraws] /\ job' \in Jobs /\ job'.left # <<>>
    BY <1>3, PublishTicketType DEF PublishEntry
  <2> QED
    BY <1>3, <2>1, Frames DEF PublishEntry, CellType, NetType, entries, mailbox, history
<1>4. ASSUME NEW t \in Own, MarkSent(t)
      PROVE ClockType' /\ StoreType' /\ CellType' /\ NetType'
  BY <1>4, Frames DEF MarkSent, CellType, NetType, mailbox, history
<1>5. ASSUME NEW t \in Own, RefreshStatus(t)
      PROVE ClockType' /\ StoreType' /\ CellType' /\ NetType'
  <2>1. state' \in [Tickets -> {"none", "prepared", "sent", "joined", "declined", "blocked"}]
    BY <1>5 DEF RefreshStatus, CellType
  <2> QED
    BY <1>5, <2>1, Frames DEF RefreshStatus, CellType, NetType, mailbox, history
<1>6. ASSUME NEW t \in Own, PullContactRequests(t)
      PROVE ClockType' /\ StoreType' /\ CellType' /\ NetType'
  <2> DEFINE m == [op |-> "requests", ticket |-> t, at |-> base[t], key |-> statusKey[t]]
  <2>1. Proper(m)
    BY <1>6 DEF Proper, Message, PullContactRequests, Outbox, CellType
  <2>2. HandedOut(m) \subseteq Replies
    BY <2>1, HandedOutType
  <2>3. CASE /\ Answered(m)
             /\ inbox' = inbox \cup {r \in HandedOut(m) : VerifyContactRequest(r)}
             /\ lost' \subseteq lost \cup HandedOut(m)
    <3>1. StoreType' /\ late' = late /\ Effect(m)
      BY <2>1, <2>3, AnsweredType
    <3>2. ClockType'
      BY <1>6, <3>1, Frames DEF PullContactRequests
    <3> QED
      BY <1>6, <2>2, <2>3, <3>1, <3>2 DEF PullContactRequests, CellType, NetType, entries
  <2>4. CASE GivenUp(m) /\ inbox' = inbox
    <3>1. StoreType' /\ late' \subseteq Message /\ lost' \subseteq Replies
      BY <2>1, <2>4, GivenUpType
    <3>2. ClockType'
      BY <1>6, <2>1, <2>4, GivenUpType, Frames DEF PullContactRequests
    <3> QED
      BY <1>6, <2>4, <3>1, <3>2 DEF PullContactRequests, CellType, NetType, entries
  <2> QED
    BY <1>6, <2>3, <2>4 DEF PullContactRequests
<1>7. ASSUME NEW t \in Own, RevokeEntry(t)
      PROVE ClockType' /\ StoreType' /\ CellType' /\ NetType'
  <2> DEFINE m == [op |-> "revoke", ticket |-> t, at |-> base[t], key |-> NoKey]
  <2>1. Published(t) => Proper(m)
    BY DEF Proper, Message, Outbox, Keys
  <2>2. ClockType' /\ StoreType' /\ late' \subseteq Message /\ lost' \subseteq Replies
    <3> UNCHANGED clock
      BY <1>7 DEF RevokeEntry
    <3>1. CASE UNCHANGED <<pending, store, late, lost>>
      BY <3>1, Frames DEF NetType
    <3>2. CASE Published(t) /\ Answered(m) /\ UNCHANGED lost
      BY <2>1, <3>2, AnsweredType, Frames DEF NetType
    <3>3. CASE Published(t) /\ GivenUp(m)
      BY <2>1, <3>3, GivenUpType, Frames
    <3> QED
      BY <1>7, <3>1, <3>2, <3>3 DEF RevokeEntry
  <2> QED
    BY <1>7, <2>2 DEF RevokeEntry, CellType, NetType, mailbox
<1>8. ASSUME Attempt PROVE ClockType' /\ StoreType' /\ CellType' /\ NetType'
  <2>1. /\ job \in Jobs /\ job.ticket \in Tickets /\ Head(job.left) \in Landings
        /\ Tail(job.left) \in Seq(Landings) /\ job.key \in Keys /\ Proper(Offer)
    BY <1>8, OfferProper DEF Attempt, Keys
  <2>2. /\ ClockType' /\ StoreType'
        /\ late' \subseteq Message /\ lost' \subseteq Replies /\ doubt' \subseteq Tickets
    <3> UNCHANGED clock
      BY <1>8 DEF Attempt
    <3>1. CASE Answered(Offer) /\ UNCHANGED history
      BY <2>1, <3>1, AnsweredType, Frames DEF NetType, history
    <3>2. CASE GivenUp(Offer) /\ doubt' = doubt \cup {job.ticket}
      BY <2>1, <3>2, GivenUpType, Frames DEF NetType
    <3> QED
      BY <1>8, <3>1, <3>2 DEF Attempt
  <2>3. state' \in [Tickets -> {"none", "prepared", "sent", "joined", "declined", "blocked"}]
    BY <1>8, <2>1 DEF Attempt, NewEntry, CellType
  <2>4. shared' \subseteq Tickets
    BY <1>8, <2>1 DEF Attempt, NewEntry, NetType
  <2>5. /\ statusKey' \in [Tickets -> Keys]
        /\ base' \in [Tickets -> Landings \cup {NoBase}]
    BY <1>8, <2>1 DEF Attempt, CellType
  <2>6. job' = Idle \/ (job' \in Jobs /\ job'.left # <<>>)
    BY <1>8, <2>1 DEF Attempt, Jobs
  <2> QED
    BY <1>8, <2>2, <2>3, <2>4, <2>5, <2>6 DEF Attempt, CellType, NetType, mailbox
<1>9. ASSUME NEW r \in Replies, AcceptContactRequest(r)
      PROVE ClockType' /\ StoreType' /\ CellType' /\ NetType'
  <2>1. About[r] \in Tickets
    BY LandingAssumption
  <2> QED
    BY <1>9, <2>1, Frames DEF AcceptContactRequest, CellType, NetType, history
<1>10. ASSUME NEW b \in BOOLEAN, ClearOutbox(b)
       PROVE ClockType' /\ StoreType' /\ CellType' /\ NetType'
  BY <1>10, Frames DEF ClearOutbox, CellType, NetType, Keys, mailbox, history
<1> QED
  BY <1>1, <1>2, <1>3, <1>4, <1>5, <1>6, <1>7, <1>8, <1>9, <1>10 DEF Owner

LEMMA HostsType ==
  ASSUME TypeOK, Outbox, Hosts \/ Tick
  PROVE  TypeOK'
<1> ClockType /\ StoreType /\ CellType /\ NetType
  BY TypeParts
<1> SUFFICES ClockType' /\ StoreType' /\ CellType' /\ NetType'
  BY TypeParts
<1>1. ASSUME NEW m \in late, ServeLate(m) PROVE ClockType' /\ StoreType' /\ CellType' /\ NetType'
  <2>1. Proper(m)
    BY DEF Proper, Outbox, NetType
  <2>2. ClockType' /\ StoreType' /\ HandedOut(m) \subseteq Replies
    BY <1>1, <2>1, HandleEffect, HandedOutType, Frames DEF ServeLate
  <2> QED
    BY <1>1, <2>2 DEF ServeLate, CellType, NetType, entries, mailbox
<1>2. ASSUME NEW r \in Replies, NEW l \in Landings, Respond(r, l) \/ Deliver(r, l)
      PROVE ClockType' /\ StoreType' /\ CellType' /\ NetType'
  <2>1. StoreType'
    BY <1>2, Frames, ReplyType DEF Respond, Deliver, Post
  <2>2. ClockType'
    BY <1>2 DEF Respond, Deliver, Post, ClockType, clock, pending
  <2>3. CellType' /\ NetType'
    BY <1>2 DEF Respond, Deliver, CellType, NetType, entries, mailbox, history
  <2> QED
    BY <2>1, <2>2, <2>3
<1>3. ASSUME NEW l \in Landings, Purge(l) PROVE ClockType' /\ StoreType' /\ CellType' /\ NetType'
  <2>1. UNCHANGED <<clock, pending>>
    BY <1>3 DEF Purge, PurgeExpired
  <2> QED
    BY <1>3, <2>1, Frames, PurgeType DEF Purge, CellType, NetType, entries, mailbox, history
<1>4. ASSUME NEW l \in Shared, NEW t \in Tickets \ Own, Others(l, t)
      PROVE ClockType' /\ StoreType' /\ CellType' /\ NetType'
  <2> DEFINE m == [op |-> "publish", ticket |-> t, at |-> l, key |-> 1]
  <2>1. Proper(m) /\ Handle(m)
    BY <1>4, LandingAssumption, InvitationAssumption
       DEF Proper, Message, Handle, Others, Keys, StatusKeys, NoKey
  <2>2. ClockType' /\ StoreType'
    BY <1>4, <2>1, HandleEffect, Frames DEF Others
  <2> QED
    BY <1>4, <2>2 DEF Others, CellType, NetType, entries, mailbox, history
<1>5. CASE Tick
  <2>1. ASSUME NEW t \in Own, Age(t) PROVE ClockType'
    BY <2>1, InvitationAssumption DEF Age, ClockType
  <2>2. ASSUME NEW r, Stale(r) PROVE ClockType'
    BY <2>2, LandingAssumption DEF Stale, ClockType, pending
  <2>3. ClockType'
    BY <1>5, <2>1, <2>2 DEF Tick
  <2> QED
    BY <1>5, <2>3, Frames DEF Tick, CellType, NetType, entries, mailbox, history
<1>6. ASSUME NEW m, Proper(m), Check(m) PROVE ClockType' /\ StoreType' /\ CellType' /\ NetType'
  <2>1. /\ <<m.at, m.ticket, m.key>> \in Landings \X Tickets \X StatusKeys
        /\ due' = due \cup {<<m.at, m.ticket, m.key>>}
        /\ UNCHANGED <<clock, store, posts>>
    BY <1>6 DEF Check, CheckPublication, Proper, Message, Keys
  <2>2. ClockType'
    BY <2>1 DEF ClockType, clock
  <2> QED
    BY <1>6, <2>1, <2>2, Frames DEF Check, CellType, NetType, entries, mailbox, history
<1>7. ASSUME job # Idle, Check(Offer) PROVE \E m : Proper(m) /\ Check(m)
  BY <1>7, OfferProper
<1>8. ASSUME NEW m \in late PROVE Proper(m)
  BY DEF Proper, Outbox, NetType
<1> QED
  BY <1>1, <1>2, <1>3, <1>4, <1>5, <1>6, <1>7, <1>8 DEF Hosts

LEMMA TypeStep == TypeOK /\ Outbox /\ [Next]_vars => TypeOK'
<1> SUFFICES ASSUME TypeOK, Outbox, [Next]_vars PROVE TypeOK'
  OBVIOUS
<1>1. CASE UNCHANGED vars
  <2>1. ClockType /\ StoreType /\ CellType /\ NetType
    BY TypeParts
  <2>2. ClockType' /\ StoreType' /\ CellType' /\ NetType'
    BY <1>1, <2>1, Frames DEF vars, CellType, NetType, entries, mailbox, history
  <2> QED
    BY <2>2, TypeParts
<1> QED
  BY <1>1, OwnerType, HostsType DEF Next

-----------------------------------------------------------------------------
(* A call is served, and the replies its answer carries are accounted for. *)
Served(m) == Proper(m) /\ Effect(m) /\ HandedOut(m) \subseteq inbox' \cup lost'

(* A reply is put into the queue for a mutex, taken out of it unanswered,  *)
(* or stored, at once or from the queue.                                   *)
Queued(r, l) ==
    /\ UNCHANGED <<clock, due, store, to>>
    /\ posts' = posts \cup {<<l, r>>}
    /\ age[About[r]] = "fresh" /\ to[r] \in {NoBase, l}
    /\ \A p \in posts : p[2] = r => p[1] = l

Dequeued(r, l) ==
    /\ UNCHANGED <<clock, due, store, to>>
    /\ <<l, r>> \in posts /\ posts' = posts \ {<<l, r>>}

Stored(r, l) ==
    /\ Reply(l, r)
    /\ to[r] \in {NoBase, l} /\ to' = [to EXCEPT ![r] = l]
    /\ \A k \in Landings : <<k, r>> \in posts => k = l
    /\ UNCHANGED <<clock, due>>
    /\ \/ posts' = posts /\ age[About[r]] = "fresh"
       \/ <<l, r>> \in posts /\ posts' = posts \ {<<l, r>>}

(* A step that leaves the store alone.                                     *)
Quiet ==
    /\ UNCHANGED <<store, to>>
    /\ \/ UNCHANGED <<clock, pending>>
       \/ Tick
       \/ \E m : Proper(m) /\ Check(m)
       \/ \E r \in Replies, l \in Landings : Queued(r, l) \/ Dequeued(r, l)

LEMMA RespondCases ==
  ASSUME TypeOK, Waits, NEW r \in Replies, NEW l \in Landings,
         Respond(r, l) \/ Deliver(r, l)
  PROVE  Stored(r, l) \/ Queued(r, l) \/ Dequeued(r, l)
<1>1. CASE Respond(r, l)
  <2>1. /\ UNCHANGED clock /\ to[r] \in {NoBase, l}
        /\ \A p \in posts : p[2] = r => p[1] = l
        /\ age[About[r]] = "fresh"
    BY <1>1 DEF Respond, VerifyContactRequest, IsExpired
  <2>2. \A k \in Landings : <<k, r>> \in posts => k = l
    BY <2>1
  <2>3. CASE Post(l, r) /\ to' = to
    BY <2>1, <2>3 DEF Post, Queued
  <2>4. CASE Reply(l, r) /\ to' = [to EXCEPT ![r] = l] /\ UNCHANGED pending
    BY <2>1, <2>2, <2>4 DEF Stored, pending
  <2> QED
    BY <1>1, <2>3, <2>4 DEF Respond
<1>2. CASE Deliver(r, l)
  <2>1. /\ UNCHANGED <<clock, due>> /\ <<l, r>> \in posts
        /\ posts' = posts \ {<<l, r>>}
    BY <1>2 DEF Deliver
  <2>2. /\ to[r] \in {NoBase, l}
        /\ \A k \in Landings : <<k, r>> \in posts => k = l
    BY <2>1 DEF Waits
  <2> QED
    BY <1>2, <2>1, <2>2 DEF Deliver, Stored, Dequeued
<1> QED
  BY <1>1, <1>2

(* What a step does to the landings: nothing, serve one call, store one    *)
(* reply or purge.                                                         *)
LEMMA StoreSteps ==
  ASSUME TypeOK, Outbox, Waits, [Next]_vars
  PROVE  \/ Quiet
         \/ /\ UNCHANGED <<clock, to>>
            /\ \E m : Served(m)
         \/ \E r \in Replies, l \in Landings : Stored(r, l)
         \/ \E l \in Landings : Purge(l)
<1> StoreType
  BY StoreTyped
<1>1. ASSUME NEW t \in Own, PullContactRequests(t)
      PROVE  \/ UNCHANGED <<clock, pending, store, to>>
             \/ UNCHANGED <<clock, to>> /\ \E m : Served(m)
  <2> DEFINE m == [op |-> "requests", ticket |-> t, at |-> base[t], key |-> statusKey[t]]
  <2>1. Proper(m)
    BY <1>1, InvitationAssumption DEF Proper, Message, PullContactRequests, Outbox, TypeOK
  <2>2. Answered(m) \/ GivenUp(m)
    BY <1>1 DEF PullContactRequests
  <2>3. Effect(m) \/ UNCHANGED <<pending, store>>
    BY <2>1, <2>2, AnsweredType, GivenUpType
  <2>4. UNCHANGED <<clock, to>>
    BY <1>1 DEF PullContactRequests
  <2>5. UNCHANGED <<pending, store>> \/ HandedOut(m) \subseteq inbox' \cup lost'
    BY <1>1 DEF PullContactRequests, GivenUp
  <2> QED
    BY <2>1, <2>3, <2>4, <2>5 DEF Served
<1>2. ASSUME NEW t \in Own, RevokeEntry(t)
      PROVE  \/ UNCHANGED <<clock, pending, store, to>>
             \/ UNCHANGED <<clock, to>> /\ \E m : Served(m)
  <2> DEFINE m == [op |-> "revoke", ticket |-> t, at |-> base[t], key |-> NoKey]
  <2>1. Published(t) => Proper(m)
    BY InvitationAssumption DEF Proper, Message, Outbox, Keys
  <2>2. UNCHANGED <<pending, store>> \/ (Published(t) /\ (Answered(m) \/ GivenUp(m)))
    BY <1>2 DEF RevokeEntry
  <2>3. UNCHANGED <<pending, store>> \/ (Proper(m) /\ Effect(m))
    BY <2>1, <2>2, AnsweredType, GivenUpType
  <2>4. UNCHANGED <<clock, to>>
    BY <1>2 DEF RevokeEntry
  <2>5. HandedOut(m) = {}
    BY DEF HandedOut
  <2> QED
    BY <2>3, <2>4, <2>5 DEF Served
<1>3. ASSUME Attempt
      PROVE  \/ UNCHANGED <<clock, pending, store, to>>
             \/ UNCHANGED <<clock, to>> /\ \E m : Served(m)
  <2>1. Proper(Offer)
    BY <1>3, OfferProper DEF Attempt
  <2>2. Answered(Offer) \/ GivenUp(Offer)
    BY <1>3 DEF Attempt
  <2>3. Effect(Offer) \/ UNCHANGED <<pending, store>>
    BY <2>1, <2>2, AnsweredType, GivenUpType
  <2>4. UNCHANGED <<clock, to>>
    BY <1>3 DEF Attempt
  <2>5. HandedOut(Offer) = {}
    BY DEF HandedOut, Offer
  <2> QED
    BY <2>1, <2>3, <2>4, <2>5 DEF Served
<1>4. ASSUME NEW m \in late, ServeLate(m)
      PROVE UNCHANGED <<clock, to>> /\ \E n : Served(n)
  <2>1. Proper(m)
    BY DEF Proper, Outbox, TypeOK
  <2>2. Effect(m) /\ UNCHANGED <<clock, to>>
    BY <1>4, <2>1, HandleEffect DEF ServeLate
  <2>3. HandedOut(m) \subseteq inbox' \cup lost'
    BY <1>4 DEF ServeLate, mailbox
  <2> QED
    BY <2>1, <2>2, <2>3 DEF Served
<1>5. ASSUME NEW l \in Shared, NEW t \in Tickets \ Own, Others(l, t)
      PROVE UNCHANGED <<clock, to>> /\ \E n : Served(n)
  <2> DEFINE m == [op |-> "publish", ticket |-> t, at |-> l, key |-> 1]
  <2>1. Proper(m) /\ Handle(m)
    BY <1>5, LandingAssumption, InvitationAssumption
       DEF Proper, Message, Handle, Others, Keys, StatusKeys, NoKey
  <2>2. Effect(m)
    BY <2>1, HandleEffect
  <2>3. HandedOut(m) = {}
    BY DEF HandedOut
  <2> QED
    BY <1>5, <2>1, <2>2, <2>3 DEF Others, Served
<1>6. CASE Tick
  BY <1>6 DEF Tick, Quiet
<1>7. CASE UNCHANGED vars
  BY <1>7 DEF vars, Quiet
<1>8. ASSUME NEW t \in Own, NEW c \in {"email", "sms"}, Prepare(t, c)
      PROVE UNCHANGED <<clock, pending, store, to>>
  BY <1>8 DEF Prepare
<1>9. ASSUME NEW t \in Own, PublishEntry(t) \/ MarkSent(t) \/ RefreshStatus(t)
      PROVE UNCHANGED <<clock, pending, store, to>>
  BY <1>9 DEF PublishEntry, MarkSent, RefreshStatus
<1>10. ASSUME NEW r \in Replies, AcceptContactRequest(r) PROVE UNCHANGED <<clock, pending, store, to>>
  BY <1>10 DEF AcceptContactRequest
<1>11. ASSUME NEW s, Configure(s) \/ ClearOutbox(s) PROVE UNCHANGED <<clock, pending, store, to>>
  BY <1>11 DEF Configure, ClearOutbox
<1>12. Owner => \/ UNCHANGED <<clock, pending, store, to>>
                \/ UNCHANGED <<clock, to>> /\ \E m : Served(m)
  BY <1>1, <1>2, <1>3, <1>8, <1>9, <1>10, <1>11 DEF Owner
<1>13. ASSUME NEW m, Proper(m), Check(m) PROVE Quiet
  BY <1>13 DEF Check, CheckPublication, Quiet
<1>14. (job # Idle /\ Check(Offer)) \/ (\E m \in late : Check(m)) => Quiet
  <2>1. ASSUME job # Idle, Check(Offer) PROVE Quiet
    <3>1. Proper(Offer)
      BY <2>1, OfferProper
    <3> QED
      BY <1>13, <2>1, <3>1
  <2>2. ASSUME NEW m \in late, Check(m) PROVE Quiet
    <3>1. Proper(m)
      BY DEF Proper, Outbox, TypeOK
    <3> QED
      BY <1>13, <2>2, <3>1
  <2> QED
    BY ONLY <2>1, <2>2
<1>15. ASSUME NEW r \in Replies, NEW l \in Landings, Respond(r, l) \/ Deliver(r, l)
       PROVE  Quiet \/ Stored(r, l)
  <2>1. Stored(r, l) \/ Queued(r, l) \/ Dequeued(r, l)
    BY <1>15, RespondCases
  <2>2. Queued(r, l) \/ Dequeued(r, l) => UNCHANGED <<store, to>>
    BY DEF Queued, Dequeued
  <2> QED
    BY <2>1, <2>2 DEF Quiet
<1>16. Hosts => \/ Quiet
                \/ UNCHANGED <<clock, to>> /\ \E m : Served(m)
                \/ \E r \in Replies, l \in Landings : Stored(r, l)
                \/ \E l \in Landings : Purge(l)
  BY <1>4, <1>5, <1>14, <1>15 DEF Hosts
<1>17. UNCHANGED <<clock, pending, store, to>> => Quiet
  BY DEF Quiet
<1> QED
  BY <1>6, <1>7, <1>12, <1>16, <1>17 DEF Next

(* Time goes on; a record is made for a fresh ticket and dropped after the *)
(* grace.                                                                  *)
LEMMA Forward ==
  ASSUME TypeOK, Outbox, Waits, [Next]_vars
  PROVE  /\ \A t \in Tickets : age[t] = "old" => age'[t] = "old"
         /\ \A l \in Landings, t \in Tickets :
              \/ digest'[l][t] = digest[l][t]
              \/ digest[l][t] = NoKey /\ digest'[l][t] # NoKey /\ age[t] # "old"
              \/ age[t] = "old" /\ digest'[l][t] = NoKey
<1>1. UNCHANGED age \/ Tick
  BY DEF Next, Owner, Hosts, Configure, Prepare, PublishEntry, MarkSent,
         RefreshStatus, PullContactRequests, RevokeEntry, Attempt,
         AcceptContactRequest, ClearOutbox, Check, ServeLate, Respond,
         Deliver, Purge, Others,
         vars, clock
<1>2. \A t \in Tickets : age[t] = "old" => age'[t] = "old"
  <2>1. CASE Tick
    <3>1. ASSUME NEW t \in Tickets, Age(t)
          PROVE \A u \in Tickets : age[u] = "old" => age'[u] = "old"
      BY <3>1 DEF Age, TypeOK, LandingTypeOK
    <3>2. ASSUME NEW r, Stale(r) PROVE age' = age
      BY <3>2 DEF Stale
    <3> QED
      BY <2>1, <3>1, <3>2, InvitationAssumption DEF Tick
  <2> QED
    BY <1>1, <2>1
<1>3. CASE UNCHANGED store
  BY <1>2, <1>3 DEF store
<1>4. ASSUME NEW m, Proper(m), Effect(m)
      PROVE  \A l \in Landings, t \in Tickets :
               \/ digest'[l][t] = digest[l][t]
               \/ digest[l][t] = NoKey /\ digest'[l][t] # NoKey /\ age[t] # "old"
  <2> SUFFICES ASSUME NEW l \in Landings, NEW t \in Tickets, digest'[l][t] # digest[l][t]
               PROVE  digest[l][t] = NoKey /\ digest'[l][t] # NoKey /\ age[t] # "old"
    OBVIOUS
  <2>1. /\ digest[l][t] = NoKey /\ digest'[l][t] = m.key /\ m.key # NoKey
        /\ <<l, t, m.key>> \in due \/ age[t] = "fresh"
    BY <1>4 DEF Effect
  <2>2. m.key \in StatusKeys
    BY <1>4, <2>1 DEF Proper, Message, Keys
  <2>3. age[t] # "old"
    BY <2>1, <2>2 DEF Waits
  <2> QED
    BY <2>1, <2>3
<1>5. ASSUME NEW r \in Replies, NEW l \in Landings, Stored(r, l)
      PROVE  digest' = digest
  BY <1>5 DEF Stored, Reply
<1>6. ASSUME NEW k \in Landings, Purge(k)
      PROVE  \A l \in Landings, t \in Tickets :
               \/ digest'[l][t] = digest[l][t]
               \/ age[t] = "old" /\ digest'[l][t] = NoKey
  BY <1>6 DEF Purge, PurgeExpired, TypeOK, LandingTypeOK
<1>7. \/ UNCHANGED store \/ \E m : Proper(m) /\ Effect(m)
      \/ \E r \in Replies, l \in Landings : Stored(r, l)
      \/ \E l \in Landings : Purge(l)
  BY StoreSteps DEF Served, Quiet
<1>8. \A l \in Landings, t \in Tickets :
        \/ digest'[l][t] = digest[l][t]
        \/ digest[l][t] = NoKey /\ digest'[l][t] # NoKey /\ age[t] # "old"
        \/ age[t] = "old" /\ digest'[l][t] = NoKey
  BY <1>3, <1>4, <1>5, <1>6, <1>7 DEF store
<1> QED
  BY <1>2, <1>8

LEMMA RecordsStep ==
  ASSUME TypeOK, Outbox, Waits, Records, [Next]_vars
  PROVE  Records'
<1> StoreType
  BY StoreTyped
<1>1. CASE UNCHANGED <<store, to>>
  BY <1>1 DEF Records, Known, store
<1>2. ASSUME NEW m, Proper(m), Effect(m), to' = to PROVE Records'
  <2> \A l \in Landings, t \in Tickets : t \in Known(l) => t \in Known(l)'
    BY <1>2 DEF Effect, Known
  <2>1. \A l \in Landings : \A t, u \in Known(l)' : Code[t] = Code[u] => t = u
    <3> SUFFICES ASSUME NEW l \in Landings, NEW t \in Known(l)', NEW u \in Known(l)',
                        Code[t] = Code[u], t # u
                 PROVE  FALSE
      OBVIOUS
    <3>1. t \in Tickets /\ u \in Tickets
      BY DEF Known
    <3>2. ASSUME NEW v \in Known(l)', v \notin Known(l)
          PROVE v = m.ticket /\ ByCode(l, Code[v]) = {}
      <4>1. v \in Tickets /\ digest'[l][v] # digest[l][v]
        BY <3>2 DEF Known
      <4> QED
        BY <1>2, <4>1 DEF Effect
    <3>3. CASE t \in Known(l) /\ u \in Known(l)
      BY <3>3 DEF Records
    <3>4. CASE t \notin Known(l) /\ u \in Known(l)
      BY <3>2, <3>4 DEF ByCode
    <3>5. CASE t \in Known(l) /\ u \notin Known(l)
      BY <3>2, <3>5 DEF ByCode
    <3>6. CASE t \notin Known(l) /\ u \notin Known(l)
      BY <3>2, <3>6
    <3> QED
      BY <3>3, <3>4, <3>5, <3>6
  <2>2. ASSUME NEW l \in Landings, NEW t \in revoked'[l] PROVE t \in Known(l)'
    <3>1. t \in Known(l)
      BY <1>2 DEF Effect, Records
    <3> QED
      BY <3>1 DEF Known
  <2>3. \A l \in Landings : \A r \in requests'[l] : to'[r] = l /\ About[r] \in Known(l)'
    <3> SUFFICES ASSUME NEW l \in Landings, NEW r \in requests'[l]
                 PROVE  to'[r] = l /\ About[r] \in Known(l)'
      OBVIOUS
    <3>1. r \in requests[l]
      BY <1>2 DEF Effect
    <3>2. About[r] \in Tickets
      BY <3>1, LandingAssumption DEF StoreType
    <3> QED
      BY <1>2, <3>1, <3>2 DEF Records
  <2> QED
    BY <2>1, <2>2, <2>3 DEF Records
<1>3. ASSUME NEW r \in Replies, NEW l \in Landings, Stored(r, l) PROVE Records'
  <2>1. UNCHANGED <<digest, revoked>> /\ \A k \in Landings : Known(k)' = Known(k)
    BY <1>3 DEF Stored, Reply, Known
  <2>2. \A k \in Landings : requests'[k] = IF k = l THEN requests[k] \cup {r} ELSE requests[k]
    BY <1>3 DEF Stored, Reply, StoreType
  <2>3. \A q \in Replies : to'[q] = IF q = r THEN l ELSE to[q]
    BY <1>3 DEF Stored, TypeOK
  <2>4. About[r] \in Known(l) /\ to[r] \in {NoBase, l}
    BY <1>3 DEF Stored, Reply, Takes
  <2>5. ASSUME NEW k \in Landings, NEW q \in requests'[k]
        PROVE  to'[q] = k /\ About[q] \in Known(k)'
    <3>1. Known(k)' = Known(k)
      BY <2>1
    <3>2. q \in Replies /\ (q \in requests[k] \/ (q = r /\ k = l))
      BY <2>2 DEF StoreType
    <3>3. CASE q \in requests[k]
      <4>1. to[q] = k /\ About[q] \in Known(k)
        BY <3>3 DEF Records
      <4> QED
        BY <2>3, <2>4, <3>1, <3>2, <4>1, InvitationAssumption
    <3>4. CASE q = r /\ k = l
      BY <2>3, <2>4, <3>1, <3>4
    <3> QED
      BY <3>2, <3>3, <3>4
  <2> QED
    BY <2>1, <2>5 DEF Records
<1>4. ASSUME NEW l \in Landings, Purge(l) PROVE Records'
  <2> DEFINE gone == {t \in Known(l) : age[t] = "old"}
  <2>1. \A k \in Landings : Known(k)' = IF k = l THEN Known(k) \ gone ELSE Known(k)
    BY <1>4 DEF Purge, PurgeExpired, Known, StoreType
  <2>2. \A k \in Landings : revoked'[k] = IF k = l THEN revoked[k] \ gone ELSE revoked[k]
    BY <1>4 DEF Purge, PurgeExpired, StoreType
  <2>3. \A k \in Landings :
          requests'[k] = IF k = l THEN {r \in requests[k] : About[r] \notin gone}
                         ELSE requests[k]
    BY <1>4 DEF Purge, PurgeExpired, StoreType
  <2>4. to' = to
    BY <1>4 DEF Purge
  <2>5. ASSUME NEW k \in Landings
        PROVE  /\ \A t, u \in Known(k)' : Code[t] = Code[u] => t = u
               /\ revoked'[k] \subseteq Known(k)'
               /\ \A r \in requests'[k] : to'[r] = k /\ About[r] \in Known(k)'
    <3>1. /\ \A t, u \in Known(k) : Code[t] = Code[u] => t = u
          /\ revoked[k] \subseteq Known(k)
          /\ \A r \in requests[k] : to[r] = k /\ About[r] \in Known(k)
      BY DEF Records
    <3>2. CASE k = l
      <4>1. /\ Known(k)' = Known(k) \ gone
            /\ revoked'[k] = revoked[k] \ gone
            /\ requests'[k] = {r \in requests[k] : About[r] \notin gone}
        BY <2>1, <2>2, <2>3, <3>2
      <4> HIDE DEF gone
      <4> QED
        BY <2>4, <3>1, <4>1
    <3>3. CASE k # l
      <4>1. Known(k)' = Known(k) /\ revoked'[k] = revoked[k] /\ requests'[k] = requests[k]
        BY <2>1, <2>2, <2>3, <3>3
      <4> QED
        BY <2>4, <3>1, <4>1
    <3> QED
      BY <3>2, <3>3
  <2> QED
    BY <2>5 DEF Records
<1> QED
  BY <1>1, <1>2, <1>3, <1>4, StoreSteps DEF Served, Quiet

LEMMA WaitsStep ==
  ASSUME TypeOK, Outbox, Waits, [Next]_vars
  PROVE  Waits'
<1> StoreType /\ to \in [Replies -> Landings \cup {NoBase}] /\ NoBase \notin Landings
  BY StoreTyped, InvitationAssumption DEF TypeOK
<1> age \in [Tickets -> {"fresh", "expired", "old"}] /\ About \in [Replies -> Tickets]
  BY LandingAssumption DEF TypeOK, LandingTypeOK
<1>1. ASSUME UNCHANGED <<clock, to>>, due' \subseteq due, posts' \subseteq posts
      PROVE  Waits'
  BY <1>1 DEF Waits, clock
<1>2. CASE Tick
  <2>1. ASSUME NEW u \in Tickets, Age(u), to' = to PROVE Waits'
    <3>1. CASE age[u] = "fresh"
      <4>1. age' = [age EXCEPT ![u] = "expired"] /\ due' = due /\ posts' = posts
        BY <2>1, <3>1 DEF Age
      <4> QED
        BY <2>1, <4>1 DEF Waits
    <3>2. CASE age[u] # "fresh"
      <4>1. /\ age' = [age EXCEPT ![u] = "old"] /\ due' = due
            /\ \A d \in due : d[2] # u
            /\ posts' = {p \in posts : About[p[2]] # u}
        BY <2>1, <3>2 DEF Age
      <4>2. \A l \in Landings, t \in Tickets, k \in StatusKeys :
              <<l, t, k>> \in due => t # u
        BY <4>1
      <4>3. \A l \in Landings, r \in Replies :
              <<l, r>> \in posts' => <<l, r>> \in posts /\ About[r] # u
        BY <4>1
      <4> QED
        BY <2>1, <4>1, <4>2, <4>3 DEF Waits
    <3> QED
      BY <3>1, <3>2
  <2>2. ASSUME NEW r, Stale(r), to' = to PROVE Waits'
    BY <2>2 DEF Stale, Waits, pending
  <2> QED
    BY <1>2, <2>1, <2>2, InvitationAssumption DEF Tick
<1>3. ASSUME NEW m, Proper(m), Check(m) PROVE Waits'
  <2>1. /\ due' = due \cup {<<m.at, m.ticket, m.key>>}
        /\ age[m.ticket] = "fresh"
        /\ UNCHANGED <<clock, to, posts>>
    BY <1>3 DEF Check, CheckPublication, VerifyPublication, IsExpired
  <2> QED
    BY <2>1 DEF Waits, clock
<1>4. ASSUME NEW r \in Replies, NEW l \in Landings, Queued(r, l) PROVE Waits'
  <2>1. /\ UNCHANGED <<age, due, to>> /\ posts' = posts \cup {<<l, r>>}
        /\ age[About[r]] = "fresh" /\ to[r] \in {NoBase, l}
        /\ \A k \in Landings : <<k, r>> \in posts => k = l
    BY <1>4 DEF Queued, clock
  <2> QED
    BY <2>1 DEF Waits
<1>5. ASSUME NEW r \in Replies, NEW l \in Landings, Dequeued(r, l) PROVE Waits'
  BY <1>1, <1>5 DEF Dequeued
<1>6. CASE Quiet
  <2>1. UNCHANGED <<clock, pending>> => Waits'
    BY <1>1, <1>6 DEF Quiet, pending
  <2> QED
    BY <1>2, <1>3, <1>4, <1>5, <1>6, <2>1 DEF Quiet
<1>7. ASSUME NEW m, Served(m), UNCHANGED <<clock, to>> PROVE Waits'
  BY <1>1, <1>7 DEF Served, Effect
<1>8. ASSUME NEW r \in Replies, NEW l \in Landings, Stored(r, l) PROVE Waits'
  <2>1. /\ UNCHANGED <<age, due>> /\ posts' \subseteq posts
        /\ to' = [to EXCEPT ![r] = l]
        /\ \A k \in Landings : <<k, r>> \in posts => k = l
    BY <1>8 DEF Stored, clock
  <2> QED
    BY <2>1 DEF Waits
<1>9. ASSUME NEW l \in Landings, Purge(l) PROVE Waits'
  BY <1>1, <1>9 DEF Purge, PurgeExpired, pending
<1> QED
  BY <1>6, <1>7, <1>8, <1>9, StoreSteps

-----------------------------------------------------------------------------
(* What one base of publishTicket comes to: the entry gets the key and the *)
(* base, and the record is there; or they stay, and the call was given up  *)
(* or refused.                                                             *)
LEMMA AttemptCases ==
  ASSUME TypeOK, Attempt
  PROVE  LET t == job.ticket
             l == Head(job.left)
         IN  \/ /\ statusKey' = [statusKey EXCEPT ![t] = job.key]
                /\ base' = [base EXCEPT ![t] = l]
                /\ job' = Idle
                /\ doubt' = doubt /\ late' = late
                /\ digest'[l][t] # NoKey
                /\ digest[l][t] = NoKey => digest'[l][t] = job.key
             \/ /\ UNCHANGED <<statusKey, base>>
                /\ job' = Idle \/ (job'.ticket = t /\ job' # Idle)
                /\ late' \subseteq late \cup {Offer}
                /\ \/ doubt' = doubt \cup {t}
                   \/ doubt' = doubt /\ late' = late /\ digest' = digest
<1> DEFINE t == job.ticket
           l == Head(job.left)
<1>1. /\ job # Idle /\ job \in Jobs /\ t \in Tickets /\ l \in Landings /\ Proper(Offer)
      /\ job.key \in StatusKeys /\ job.key # NoKey
  BY OfferProper DEF Attempt
<1>2. StoreType
  BY StoreTyped
<1>3. CASE Answered(Offer) /\ Accepts(l, t, job.key) /\ UNCHANGED history
           /\ statusKey' = [statusKey EXCEPT ![t] = job.key]
           /\ base' = [base EXCEPT ![t] = l] /\ job' = Idle
  <2>1. Publish(l, t, job.key) /\ late' = late
    BY <1>3 DEF Answered, Handle, Offer
  <2>2. /\ digest'[l][t] # NoKey
        /\ digest[l][t] = NoKey => digest'[l][t] = job.key
    BY <1>1, <1>2, <1>3, <2>1 DEF Publish, StoreType, Known
  <2> QED
    BY <1>3, <2>1, <2>2 DEF history
<1>4. ASSUME job' = Idle \/ job' = [job EXCEPT !.left = Tail(job.left)]
      PROVE  job' = Idle \/ (job'.ticket = t /\ job' # Idle)
  <2>1. CASE job' = [job EXCEPT !.left = Tail(job.left)]
    <3>1. job'.ticket = t /\ job'.handler = job.handler
      BY <1>1, <2>1 DEF Jobs
    <3>2. job'.handler # Idle.handler
      BY <1>1, <3>1 DEF Jobs, Idle
    <3> QED
      BY <3>1, <3>2
  <2> QED
    BY <1>4, <2>1
<1>5. CASE Answered(Offer) /\ ~Accepts(l, t, job.key) /\ UNCHANGED history
           /\ UNCHANGED <<statusKey, base>>
           /\ (job' = Idle \/ job' = [job EXCEPT !.left = Tail(job.left)])
  <2>1. Publish(l, t, job.key) /\ late' = late
    BY <1>5 DEF Answered, Handle, Offer
  <2>2. digest' = digest
    BY <1>5, <2>1 DEF Publish
  <2> QED
    BY <1>4, <1>5, <2>1, <2>2 DEF history
<1>6. CASE GivenUp(Offer) /\ doubt' = doubt \cup {t}
           /\ UNCHANGED <<statusKey, base>>
           /\ (job' = Idle \/ job' = [job EXCEPT !.left = Tail(job.left)])
  BY <1>1, <1>4, <1>6, GivenUpType
<1> QED
  BY <1>3, <1>5, <1>6 DEF Attempt

(* A ticket of this cell is registered by an Attempt, or by a call that    *)
(* was given up.                                                           *)
LEMMA Registers ==
  ASSUME TypeOK, Outbox, [Next]_vars,
         NEW l \in Landings, NEW t \in Own,
         digest[l][t] = NoKey, digest'[l][t] # NoKey
  PROVE  t \in doubt \/ (Attempt /\ t = job.ticket)
<1> StoreType /\ t \in Tickets
  BY StoreTyped, InvitationAssumption
<1>1. ASSUME NEW m, Proper(m), Effect(m) PROVE m.op = "publish" /\ m.ticket = t
  BY <1>1 DEF Effect
<1>2. ASSUME NEW u \in Own, PullContactRequests(u) PROVE FALSE
  <2> DEFINE m == [op |-> "requests", ticket |-> u, at |-> base[u], key |-> statusKey[u]]
  <2>1. Proper(m)
    BY <1>2, InvitationAssumption DEF Proper, Message, PullContactRequests, Outbox, TypeOK
  <2>2. Answered(m) \/ GivenUp(m)
    BY <1>2 DEF PullContactRequests
  <2>3. Effect(m) \/ digest' = digest
    BY <2>1, <2>2, AnsweredType, GivenUpType DEF store
  <2> QED
    BY <1>1, <2>1, <2>3
<1>3. ASSUME NEW u \in Own, RevokeEntry(u) PROVE FALSE
  <2> DEFINE m == [op |-> "revoke", ticket |-> u, at |-> base[u], key |-> NoKey]
  <2>1. Published(u) => Proper(m)
    BY InvitationAssumption DEF Proper, Message, Outbox, Keys
  <2>2. UNCHANGED store \/ (Published(u) /\ (Answered(m) \/ GivenUp(m)))
    BY <1>3 DEF RevokeEntry
  <2>3. digest' = digest \/ (Proper(m) /\ Effect(m))
    BY <2>1, <2>2, AnsweredType, GivenUpType DEF store
  <2> QED
    BY <1>1, <2>1, <2>3
<1>4. ASSUME Attempt PROVE t = job.ticket
  <2>1. Proper(Offer)
    BY <1>4, OfferProper DEF Attempt
  <2>2. Answered(Offer) \/ GivenUp(Offer)
    BY <1>4 DEF Attempt
  <2>3. Effect(Offer) \/ digest' = digest
    BY <2>1, <2>2, AnsweredType, GivenUpType DEF store
  <2> QED
    BY <1>1, <2>1, <2>3 DEF Offer
<1>5. ASSUME NEW m \in late, ServeLate(m) PROVE t \in doubt
  <2>1. Proper(m)
    BY DEF Proper, Outbox, TypeOK
  <2>2. Effect(m)
    BY <1>5, <2>1, HandleEffect DEF ServeLate
  <2> QED
    BY <1>1, <2>1, <2>2 DEF Outbox
<1>6. ASSUME NEW k \in Shared, NEW u \in Tickets \ Own, Others(k, u) PROVE FALSE
  <2> DEFINE m == [op |-> "publish", ticket |-> u, at |-> k, key |-> 1]
  <2>1. Proper(m) /\ Handle(m)
    BY <1>6, LandingAssumption, InvitationAssumption
       DEF Proper, Message, Handle, Others, Keys, StatusKeys, NoKey
  <2> QED
    BY <1>1, <2>1, HandleEffect
<1>7. ASSUME NEW k \in Landings, Purge(k) PROVE FALSE
  BY <1>7 DEF Purge, PurgeExpired, StoreType
<1>8. ASSUME NEW r \in Replies, NEW k \in Landings, Respond(r, k) \/ Deliver(r, k)
      PROVE FALSE
  BY <1>8 DEF Respond, Deliver, Post, Reply, store
<1>9. ASSUME NEW u \in Own, NEW c \in {"email", "sms"}, Prepare(u, c) PROVE FALSE
  BY <1>9 DEF Prepare, store
<1>10. ASSUME NEW u \in Own, PublishEntry(u) \/ MarkSent(u) \/ RefreshStatus(u) PROVE FALSE
  BY <1>10 DEF PublishEntry, MarkSent, RefreshStatus, store
<1>11. ASSUME NEW s, Configure(s) \/ ClearOutbox(s) \/ AcceptContactRequest(s) PROVE FALSE
  BY <1>11 DEF Configure, ClearOutbox, AcceptContactRequest, store
<1>12. ~Tick /\ ~UNCHANGED vars
  BY DEF Tick, vars, store
<1>13. ASSUME NEW m, Check(m) PROVE FALSE
  BY <1>13 DEF Check, CheckPublication, store
<1> QED
  BY <1>2, <1>3, <1>4, <1>5, <1>6, <1>7, <1>8, <1>9, <1>10, <1>11, <1>12, <1>13
     DEF Next, Owner, Hosts

LEMMA OutboxStep ==
  ASSUME TypeOK, Outbox, [Next]_vars
  PROVE  Outbox'
<1> Own \subseteq Tickets
  BY InvitationAssumption
<1>1. ASSUME UNCHANGED <<entries, drawn, job, late, shared, doubt>> PROVE Outbox'
  BY <1>1 DEF Outbox, Entry, Published, entries
<1>2. ASSUME NEW t \in Own, NEW c \in {"email", "sms"}, Prepare(t, c) PROVE Outbox'
  <2>1. UNCHANGED <<statusKey, base, late, doubt>> /\ ~Minted(t) /\ job = Idle
    BY <1>2 DEF Prepare, history
  <2>2. drawn[t] = 0
    BY <2>1 DEF Minted, TypeOK
  <2>3. ~Published(t)
    BY <2>2 DEF Outbox
  <2>4. CASE PublishTicket(c, t) /\ UNCHANGED <<state, shared>>
    <3>1. /\ job'.ticket = t /\ drawn'[t] > 0
          /\ \A u \in Tickets \ {t} : drawn'[u] = drawn[u]
      BY <2>4, PublishTicketType DEF PublishTicket, TypeOK
    <3> QED
      BY <2>1, <2>3, <2>4, <3>1 DEF Outbox, Entry, Published
  <2>5. CASE NewEntry(t) /\ UNCHANGED <<drawn, job>>
    BY <2>1, <2>5 DEF Outbox, Entry, Published, NewEntry, TypeOK
  <2> QED
    BY <1>2, <2>4, <2>5 DEF Prepare
<1>3. ASSUME NEW t \in Own, PublishEntry(t) PROVE Outbox'
  <2>1. UNCHANGED <<state, statusKey, base, late, shared, doubt>> /\ ~Published(t)
    BY <1>3 DEF PublishEntry, history, entries
  <2>2. /\ job'.ticket = t /\ drawn'[t] > 0
        /\ \A u \in Tickets \ {t} : drawn'[u] = drawn[u]
    BY <1>3, PublishTicketType DEF PublishEntry, PublishTicket, TypeOK
  <2> QED
    BY <2>1, <2>2 DEF Outbox, Entry, Published
<1>4. CASE Attempt
  <2> DEFINE t == job.ticket
             l == Head(job.left)
  <2>1. /\ job # Idle /\ t \in Tickets /\ t \in Own /\ l \in Landings /\ job.key # NoKey
        /\ Proper(Offer)
        /\ drawn[t] > 0
    BY <1>4, OfferProper DEF Attempt, Outbox
  <2>2. drawn' = drawn
    BY <1>4 DEF Attempt
  <2>3. \/ UNCHANGED <<state, shared>>
        \/ state' = [state EXCEPT ![t] = "prepared"] /\ shared' = shared \cup {t}
    BY <1>4 DEF Attempt, NewEntry
  <2>4. \A u \in Tickets : state'[u] # "none" => u \in shared'
    BY <2>1, <2>3 DEF Outbox, Entry, TypeOK
  <2>5. CASE /\ statusKey' = [statusKey EXCEPT ![t] = job.key]
             /\ base' = [base EXCEPT ![t] = l]
             /\ job' = Idle
             /\ doubt' = doubt /\ late' = late
    BY <2>1, <2>2, <2>4, <2>5 DEF Outbox, Entry, Published, TypeOK
  <2>6. CASE /\ UNCHANGED <<statusKey, base>>
             /\ job' = Idle \/ (job'.ticket = t /\ job' # Idle)
             /\ late' \subseteq late \cup {Offer}
             /\ doubt' = doubt \cup {t} \/ (doubt' = doubt /\ late' = late)
    <3>1. ASSUME NEW m \in late', m.op = "publish"
          PROVE m.ticket \in doubt' \cap Own /\ m.key # NoKey
      <4>1. CASE m \in late
        BY <2>6, <3>1, <4>1 DEF Outbox
      <4>2. CASE m = Offer /\ doubt' = doubt \cup {t}
        BY <2>1, <4>2 DEF Offer
      <4> QED
        BY <2>6, <4>1, <4>2
    <3> QED
      BY <2>1, <2>2, <2>4, <2>6, <3>1 DEF Outbox, Entry, Published
  <2> QED
    BY <1>4, <2>5, <2>6, AttemptCases
<1>5. ASSUME NEW t \in Own, MarkSent(t) \/ RefreshStatus(t) PROVE Outbox'
  <2>1. /\ UNCHANGED <<statusKey, base, drawn, job, late, shared, doubt>>
        /\ Entry(t) /\ \A u \in Tickets \ {t} : state'[u] = state[u]
    BY <1>5 DEF MarkSent, RefreshStatus, Entry, TypeOK, history
  <2> QED
    BY <2>1 DEF Outbox, Entry, Published
<1>6. ASSUME NEW t \in Own, PullContactRequests(t) PROVE Outbox'
  <2> DEFINE m == [op |-> "requests", ticket |-> t, at |-> base[t], key |-> statusKey[t]]
  <2>1. UNCHANGED <<entries, drawn, job, shared, doubt>> /\ late' \subseteq late \cup {m}
    BY <1>6 DEF PullContactRequests, Answered, GivenUp
  <2>2. \A n \in late' : n.op = "publish" => n \in late
    BY <2>1
  <2> QED
    BY <2>1, <2>2 DEF Outbox, Entry, Published, entries
<1>7. ASSUME NEW t \in Own, RevokeEntry(t) PROVE Outbox'
  <2> DEFINE m == [op |-> "revoke", ticket |-> t, at |-> base[t], key |-> NoKey]
  <2>1. /\ UNCHANGED <<statusKey, base, drawn, job, shared, doubt>>
        /\ late' \subseteq late \cup {m}
    BY <1>7 DEF RevokeEntry, Answered, GivenUp
  <2>2. \A n \in late' : n.op = "publish" => n \in late
    BY <2>1
  <2>3. Entry(t) /\ \A u \in Tickets \ {t} : state'[u] = state[u]
    BY <1>7 DEF RevokeEntry, TypeOK
  <2> QED
    BY <2>1, <2>2, <2>3 DEF Outbox, Entry, Published
<1>8. ASSUME NEW r \in Replies, AcceptContactRequest(r) PROVE Outbox'
  <2>1. /\ UNCHANGED <<statusKey, base, drawn, job, late, shared, doubt>>
        /\ \A u \in Tickets : state'[u] = state[u] \/ Entry(u)
    BY <1>8 DEF AcceptContactRequest, TypeOK, history
  <2> QED
    BY <2>1 DEF Outbox, Entry, Published
<1>9. ASSUME NEW b, ClearOutbox(b) PROVE Outbox'
  <2>1. /\ UNCHANGED <<drawn, job, late, shared, doubt>> /\ job = Idle
        /\ \A u \in Tickets :
             \/ state'[u] = state[u] /\ statusKey'[u] = statusKey[u] /\ base'[u] = base[u]
             \/ state'[u] = "none" /\ statusKey'[u] = NoKey
    BY <1>9 DEF ClearOutbox, history
  <2> QED
    BY <2>1 DEF Outbox, Entry, Published
<1>10. ASSUME NEW m \in late, ServeLate(m) PROVE Outbox'
  BY <1>10 DEF Outbox, Entry, Published, ServeLate, entries
<1>11. ASSUME NEW s, Configure(s) PROVE Outbox'
  BY <1>1, <1>11 DEF Configure, history
<1>12. ASSUME NEW r \in Replies, NEW l \in Landings, Respond(r, l) \/ Deliver(r, l)
       PROVE Outbox'
  BY <1>1, <1>12 DEF Respond, Deliver, history
<1>13. ASSUME NEW l \in Landings, NEW t, Purge(l) \/ Others(l, t) PROVE Outbox'
  BY <1>1, <1>13 DEF Purge, Others, history
<1>14. Tick \/ UNCHANGED vars => Outbox'
  BY <1>1 DEF Tick, vars, history
<1>15. ASSUME NEW m, Check(m) PROVE Outbox'
  BY <1>1, <1>15 DEF Check, history
<1> QED
  BY <1>2, <1>3, <1>4, <1>5, <1>6, <1>7, <1>8, <1>9, <1>10, <1>11, <1>12, <1>13,
     <1>14, <1>15, InvitationAssumption DEF Next, Owner, Hosts

(* A ticket that may still be published for the first time always could.   *)
LEMMA UnpublishedBefore ==
  ASSUME TypeOK, Outbox, [Next]_vars, NEW t \in Own, Unpublished(t)', t \notin doubt'
  PROVE  Unpublished(t) /\ t \notin doubt
<1> Own \subseteq Tickets /\ t \in Tickets
  BY InvitationAssumption
<1> USE DEF Unpublished, Entry, Published, Minted
<1>1. t \notin doubt
  BY DEF Next, Owner, Hosts, Configure, Prepare, PublishEntry, MarkSent,
         RefreshStatus, PullContactRequests, RevokeEntry, Attempt,
         AcceptContactRequest, ClearOutbox, Check, ServeLate, Respond,
         Deliver, Purge, Others,
         Tick, vars, history
<1>2. ASSUME UNCHANGED <<entries, drawn, job, shared>> PROVE Unpublished(t)
  BY <1>2 DEF entries
<1>3. ASSUME NEW u \in Own, NEW c \in {"email", "sms"}, Prepare(u, c) PROVE Unpublished(t)
  <2>1. UNCHANGED <<statusKey>> /\ ~Minted(u) /\ job = Idle
    BY <1>3 DEF Prepare
  <2>2. CASE PublishTicket(c, u) /\ UNCHANGED <<state, shared>>
    <3>1. job'.ticket = u /\ \A v \in Tickets \ {u} : drawn'[v] = drawn[v]
      BY <2>2, PublishTicketType DEF PublishTicket, TypeOK
    <3> QED
      BY <2>1, <2>2, <3>1
  <2>3. CASE NewEntry(u) /\ UNCHANGED <<drawn, job>>
    BY <2>1, <2>3 DEF NewEntry, TypeOK
  <2> QED
    BY <1>3, <2>2, <2>3 DEF Prepare
<1>4. ASSUME NEW u \in Own, PublishEntry(u) PROVE Unpublished(t)
  <2>1. UNCHANGED <<state, statusKey, shared>> /\ Entry(u)
    BY <1>4 DEF PublishEntry, entries
  <2>2. job'.ticket = u /\ \A v \in Tickets \ {u} : drawn'[v] = drawn[v]
    BY <1>4, PublishTicketType DEF PublishEntry, PublishTicket, TypeOK
  <2> QED
    BY <2>1, <2>2
<1>5. CASE Attempt
  <2>1. /\ job # Idle /\ job.ticket \in Tickets /\ job.key # NoKey
        /\ ~Published(job.ticket) /\ drawn' = drawn
    BY <1>5, OfferProper DEF Attempt, Outbox
  <2>2. CASE t = job.ticket
    BY <1>1, <2>1, <2>2
  <2>3. CASE t # job.ticket
    <3>1. state'[t] = state[t] /\ (t \in shared' <=> t \in shared)
      BY <1>5, <2>1, <2>3 DEF Attempt, NewEntry, TypeOK
    <3>2. statusKey'[t] = statusKey[t] /\ (job' = Idle \/ job'.ticket = job.ticket)
      BY <1>5, <2>1, <2>3, AttemptCases DEF TypeOK
    <3> QED
      BY <1>1, <2>1, <2>3, <3>1, <3>2
  <2> QED
    BY <2>2, <2>3
<1>6. ASSUME NEW u \in Own, MarkSent(u) \/ RefreshStatus(u) \/ RevokeEntry(u)
      PROVE Unpublished(t)
  <2>1. /\ UNCHANGED <<statusKey, drawn, job, shared>>
        /\ Entry(u) /\ \A v \in Tickets \ {u} : state'[v] = state[v]
    BY <1>6 DEF MarkSent, RefreshStatus, RevokeEntry, TypeOK
  <2> QED
    BY <2>1
<1>7. ASSUME NEW r \in Replies, AcceptContactRequest(r) PROVE Unpublished(t)
  <2>1. /\ UNCHANGED <<statusKey, drawn, job, shared>>
        /\ \A u \in Tickets : state'[u] = state[u] \/ Entry(u)
    BY <1>7 DEF AcceptContactRequest, TypeOK
  <2> QED
    BY <2>1
<1>8. ASSUME NEW b, ClearOutbox(b) PROVE Unpublished(t)
  <2>1. /\ UNCHANGED <<drawn, job, shared>> /\ job = Idle
        /\ \A u \in Tickets :
             \/ state'[u] = state[u] /\ statusKey'[u] = statusKey[u]
             \/ state'[u] = "none" /\ Entry(u)
    BY <1>8 DEF ClearOutbox
  <2>2. t \in shared => t \in shared'
    BY <2>1
  <2> QED
    BY <2>1, <2>2 DEF Outbox
<1>9. ASSUME NEW u \in Own, PullContactRequests(u) PROVE Unpublished(t)
  BY <1>2, <1>9 DEF PullContactRequests
<1>10. ASSUME NEW m \in late, ServeLate(m) PROVE Unpublished(t)
  BY <1>2, <1>10 DEF ServeLate
<1>11. ASSUME NEW s, Configure(s) PROVE Unpublished(t)
  BY <1>2, <1>11 DEF Configure
<1>12. ASSUME NEW r \in Replies, NEW l \in Landings, Respond(r, l) \/ Deliver(r, l)
       PROVE Unpublished(t)
  BY <1>2, <1>12 DEF Respond, Deliver
<1>13. ASSUME NEW l \in Landings, NEW u, Purge(l) \/ Others(l, u) PROVE Unpublished(t)
  BY <1>2, <1>13 DEF Purge, Others
<1>14. Tick \/ UNCHANGED vars => Unpublished(t)
  BY <1>2 DEF Tick, vars
<1>15. ASSUME NEW m, Check(m) PROVE Unpublished(t)
  BY <1>2, <1>15 DEF Check
<1> HIDE DEF Unpublished, Entry, Published, Minted
<1> QED
  BY <1>1, <1>3, <1>4, <1>5, <1>6, <1>7, <1>8, <1>9, <1>10, <1>11, <1>12, <1>13,
     <1>14, <1>15, InvitationAssumption DEF Next, Owner, Hosts

LEMMA CleanStep ==
  ASSUME TypeOK, Outbox, Clean, [Next]_vars
  PROVE  Clean'
<1> SUFFICES ASSUME NEW t \in Own, Unpublished(t)', t \notin doubt',
                    NEW l \in Landings, t \in Known(l)'
             PROVE  FALSE
  BY DEF Clean
<1>1. t \in Tickets
  BY InvitationAssumption
<1>2. Unpublished(t) /\ t \notin doubt
  BY UnpublishedBefore
<1>3. digest[l][t] = NoKey /\ digest'[l][t] # NoKey
  BY <1>1, <1>2 DEF Clean, Known
<1>4. Attempt /\ t = job.ticket
  BY <1>2, <1>3, Registers
<1>5. job.key # NoKey
  BY <1>4, OfferProper DEF Attempt
<1>6. ~(statusKey' = [statusKey EXCEPT ![t] = job.key])
  BY <1>1, <1>5 DEF Unpublished, Published, TypeOK
<1>7. doubt' = doubt \cup {t} \/ digest' = digest
  BY <1>4, <1>6, AttemptCases
<1> QED
  BY <1>3, <1>7

(* The key and the base of an entry are set by an Attempt alone.           *)
LEMMA KeySteps ==
  ASSUME TypeOK, [Next]_vars, NEW t \in Tickets
  PROVE  /\ t \in doubt => t \in doubt'
         /\ \/ statusKey'[t] = statusKey[t] /\ base'[t] = base[t]
            \/ statusKey'[t] = NoKey
            \/ /\ Attempt /\ t = job.ticket
               /\ statusKey'[t] = job.key /\ base'[t] = Head(job.left)
               /\ doubt' = doubt
               /\ digest'[base'[t]][t] # NoKey
               /\ digest[base'[t]][t] = NoKey => digest'[base'[t]][t] = job.key
<1>1. t \in doubt => t \in doubt'
  BY DEF Next, Owner, Hosts, Configure, Prepare, PublishEntry, MarkSent,
         RefreshStatus, PullContactRequests, RevokeEntry, Attempt,
         AcceptContactRequest, ClearOutbox, Check, ServeLate, Respond,
         Deliver, Purge, Others,
         Tick, vars, history
<1>2. \/ UNCHANGED <<statusKey, base>> \/ Attempt
      \/ \E b \in BOOLEAN : ClearOutbox(b)
  BY DEF Next, Owner, Hosts, Configure, Prepare, PublishEntry, MarkSent,
         RefreshStatus, PullContactRequests, RevokeEntry,
         AcceptContactRequest, Check, ServeLate, Respond,
         Deliver, Purge, Others,
         Tick, vars, entries
<1>3. ASSUME NEW b \in BOOLEAN, ClearOutbox(b)
      PROVE  statusKey'[t] = NoKey \/ (statusKey'[t] = statusKey[t] /\ base'[t] = base[t])
  BY <1>3 DEF ClearOutbox
<1>4. CASE Attempt
  BY <1>1, <1>4, AttemptCases DEF TypeOK
<1> QED
  BY <1>1, <1>2, <1>3, <1>4

LEMMA KeyFitsStep ==
  ASSUME TypeOK, Outbox, Waits, Clean, KeyFits, [Next]_vars
  PROVE  KeyFits'
<1> SUFFICES ASSUME NEW t \in Tickets, Published(t)', t \in Known(base[t])', t \notin doubt'
             PROVE  digest'[base'[t]][t] = statusKey'[t]
  BY DEF KeyFits
<1>1. t \notin doubt /\ statusKey'[t] # NoKey /\ digest'[base'[t]][t] # NoKey
  BY KeySteps DEF Published, Known
<1>2. CASE statusKey'[t] = statusKey[t] /\ base'[t] = base[t]
  <2>1. Published(t)
    BY <1>1, <1>2 DEF Published
  <2>2. t \in Own /\ base[t] \in Landings
    BY <2>1 DEF Outbox
  <2>3. CASE digest'[base[t]][t] = digest[base[t]][t]
    BY <1>1, <1>2, <2>1, <2>3 DEF KeyFits, Known
  <2>4. CASE digest[base[t]][t] = NoKey
    <3>1. Attempt /\ t = job.ticket
      BY <1>1, <1>2, <2>2, <2>4, Registers
    <3> QED
      BY <2>1, <3>1 DEF Outbox, Attempt
  <2> QED
    BY <1>1, <1>2, <2>2, <2>3, <2>4, Forward
<1>3. CASE /\ Attempt /\ t = job.ticket
           /\ statusKey'[t] = job.key /\ base'[t] = Head(job.left)
           /\ digest[base'[t]][t] = NoKey => digest'[base'[t]][t] = job.key
  <2>1. base'[t] \in Landings /\ t \in Own /\ Unpublished(t)
    BY <1>3, OfferProper DEF Attempt, Outbox, Unpublished
  <2>2. digest[base'[t]][t] = NoKey
    BY <1>1, <2>1 DEF Clean, Known
  <2> QED
    BY <1>3, <2>2
<1> QED
  BY <1>1, <1>2, <1>3, KeySteps

LEMMA LinksStep ==
  ASSUME TypeOK, Outbox, Waits, Links, [Next]_vars
  PROVE  Links'
<1> SUFFICES ASSUME NEW t \in Tickets, Published(t)', age'[t] # "old"
             PROVE  digest'[base'[t]][t] # NoKey
  BY DEF Links, Known
<1>1. statusKey'[t] # NoKey /\ age[t] # "old"
  BY Forward DEF Published
<1>2. CASE statusKey'[t] = statusKey[t] /\ base'[t] = base[t]
  <2>1. Published(t)
    BY <1>1, <1>2 DEF Published
  <2>2. base[t] \in Landings /\ digest[base[t]][t] # NoKey
    BY <1>1, <2>1 DEF Outbox, Links, Known
  <2> QED
    BY <1>1, <1>2, <2>2, Forward
<1> QED
  BY <1>1, <1>2, KeySteps

-----------------------------------------------------------------------------
(* Replies that were stored, received, accepted or lost stay so.           *)
LEMMA MailGrows ==
  ASSUME TypeOK, [Next]_vars
  PROVE  /\ inbox \subseteq inbox' /\ accepted \subseteq accepted' /\ lost \subseteq lost'
         /\ Delivered \subseteq Delivered'
<1>1. inbox \subseteq inbox' /\ accepted \subseteq accepted'
  BY DEF Next, Owner, Hosts, Configure, Prepare, PublishEntry, MarkSent,
         RefreshStatus, PullContactRequests, RevokeEntry, Attempt,
         AcceptContactRequest, ClearOutbox, Check, ServeLate, Respond,
         Deliver, Purge, Others,
         Tick, vars, mailbox
<1>2. lost \subseteq lost'
  BY DEF Next, Owner, Hosts, Configure, Prepare, PublishEntry, MarkSent,
         RefreshStatus, PullContactRequests, RevokeEntry, Attempt, GivenUp,
         AcceptContactRequest, ClearOutbox, Check, ServeLate, Respond,
         Deliver, Purge, Others,
         Tick, vars, history
<1>3. to' = to \/ \E r \in Replies, l \in Landings : to' = [to EXCEPT ![r] = l]
  BY DEF Next, Owner, Hosts, Configure, Prepare, PublishEntry, MarkSent,
         RefreshStatus, PullContactRequests, RevokeEntry, Attempt,
         AcceptContactRequest, ClearOutbox, Check, ServeLate, Respond,
         Deliver, Purge, Others,
         Tick, vars
<1>4. Delivered \subseteq Delivered'
  BY <1>3, InvitationAssumption DEF Delivered, TypeOK
<1> QED
  BY <1>1, <1>2, <1>4

LEMMA TracesStep ==
  ASSUME TypeOK, Outbox, Waits, Records, Traces, [Next]_vars
  PROVE  Traces'
<1> StoreType
  BY StoreTyped
<1>1. ASSUME NEW r \in Delivered, to'[r] = to[r]
      PROVE  About[r] \in Known(to[r])' \/ age'[About[r]] = "old"
  <2>1. About[r] \in Tickets /\ to[r] \in Landings
    BY LandingAssumption DEF Delivered, TypeOK
  <2>2. CASE age[About[r]] = "old"
    BY <2>1, <2>2, Forward
  <2>3. CASE About[r] \in Known(to[r]) /\ age[About[r]] # "old"
    <3>1. digest'[to[r]][About[r]] = digest[to[r]][About[r]]
      BY <2>1, <2>3, Forward DEF Known
    <3> QED
      BY <1>1, <2>1, <2>3, <3>1 DEF Known
  <2> QED
    BY <2>2, <2>3 DEF Traces
<1>2. ASSUME NEW r \in Delivered'
      PROVE  About[r] \in Known(to[r])' \/ age'[About[r]] = "old"
  <2>1. r \in Replies /\ to'[r] # NoBase
    BY DEF Delivered
  <2>2. CASE to' = to
    <3>1. r \in Delivered /\ to'[r] = to[r]
      BY <2>1, <2>2 DEF Delivered
    <3> QED
      BY <1>1, <3>1
  <2>3. ASSUME NEW q \in Replies, NEW l \in Landings, Stored(q, l)
        PROVE  About[r] \in Known(to[r])' \/ age'[About[r]] = "old"
    <3>1. CASE r = q
      <4>1. to'[r] = l /\ About[r] \in Known(l) /\ digest' = digest
        BY <2>1, <2>3, <3>1 DEF Stored, Reply, Takes, TypeOK
      <4> QED
        BY <4>1 DEF Known
    <3>2. CASE r # q
      <4>1. to'[r] = to[r] /\ r \in Delivered
        BY <2>1, <2>3, <3>2 DEF Stored, TypeOK, Delivered
      <4> QED
        BY <1>1, <4>1
    <3> QED
      BY <3>1, <3>2
  <2>4. ASSUME NEW l \in Landings, Purge(l) PROVE to' = to
    BY <2>4 DEF Purge
  <2> QED
    BY <2>2, <2>3, <2>4, StoreSteps DEF Quiet
<1>3. inbox' \subseteq Delivered'
  <2>1. ASSUME NEW t \in Own, PullContactRequests(t) PROVE inbox' \subseteq Delivered
    <3> DEFINE m == [op |-> "requests", ticket |-> t, at |-> base[t], key |-> statusKey[t]]
    <3>1. Proper(m) /\ base[t] \in Landings
      BY <2>1, InvitationAssumption DEF Proper, Message, PullContactRequests, Outbox, TypeOK
    <3>2. HandedOut(m) \subseteq requests[base[t]] /\ HandedOut(m) \subseteq Replies
      BY <3>1, HandedOutType
    <3>3. HandedOut(m) \subseteq Delivered
      BY <3>1, <3>2, InvitationAssumption DEF Records, Delivered
    <3>4. inbox' \subseteq inbox \cup HandedOut(m)
      BY <2>1 DEF PullContactRequests
    <3> QED
      BY <3>3, <3>4 DEF Traces
  <2>2. inbox' = inbox \/ \E t \in Own : PullContactRequests(t)
    BY DEF Next, Owner, Hosts, Configure, Prepare, PublishEntry, MarkSent,
           RefreshStatus, RevokeEntry, Attempt, AcceptContactRequest,
           ClearOutbox, Check, ServeLate, Respond,
         Deliver, Purge, Others, Tick, vars, mailbox
  <2> QED
    BY <2>1, <2>2, MailGrows DEF Traces
<1>4. ASSUME NEW l \in Landings, NEW t \in Tickets, answered'[l][t] = "accepted"
      PROVE  \E r \in Delivered' : About[r] = t /\ r \notin Decliners
  <2>1. CASE answered[l][t] = "accepted"
    BY <2>1, MailGrows DEF Traces
  <2>2. ASSUME NEW r \in Replies, NEW k \in Landings, Stored(r, k),
               answered[l][t] # "accepted"
        PROVE  r \in Delivered' /\ About[r] = t /\ r \notin Decliners
    <3>1. to'[r] = k /\ About[r] \in Tickets
      BY <2>2, LandingAssumption DEF Stored, TypeOK
    <3>2. answered' = [answered EXCEPT ![k][About[r]] =
                          IF r \in Decliners THEN "declined" ELSE "accepted"]
      BY <2>2 DEF Stored, Reply
    <3>3. About[r] = t /\ r \notin Decliners
      BY <1>4, <2>2, <3>1, <3>2 DEF StoreType
    <3> QED
      BY <3>1, <3>3, InvitationAssumption DEF Delivered
  <2>3. ASSUME NEW k \in Landings, Purge(k) PROVE answered[l][t] = "accepted"
    BY <1>4, <2>3 DEF Purge, PurgeExpired, StoreType
  <2>4. ASSUME NEW m, Served(m) PROVE answered[l][t] = "accepted"
    BY <1>4, <2>4 DEF Served, Effect
  <2>5. UNCHANGED store => answered[l][t] = "accepted"
    BY <1>4 DEF store
  <2> QED
    BY <2>1, <2>2, <2>3, <2>4, <2>5, StoreSteps DEF Quiet
<1> QED
  BY <1>2, <1>3, <1>4 DEF Traces

LEMMA ReplyIsKeptStep ==
  ASSUME TypeOK, Outbox, Waits, Records, Traces, ReplyIsKept, [Next]_vars
  PROVE  ReplyIsKept'
<1> StoreType
  BY StoreTyped
<1> DEFINE Kept(r) == \/ r \in requests'[to'[r]] \cup inbox' \cup lost'
                      \/ digest'[to'[r]][About[r]] = NoKey
<1> SUFFICES ASSUME NEW r \in Delivered' PROVE Kept(r)
  BY DEF ReplyIsKept, Known
<1>1. r \in Replies /\ About[r] \in Tickets /\ to'[r] # NoBase
  BY LandingAssumption DEF Delivered
<1>2. ASSUME to'[r] = to[r], r \notin requests[to[r]] PROVE Kept(r)
  <2>1. r \in Delivered /\ to[r] \in Landings
    BY <1>1, <1>2 DEF Delivered, TypeOK
  <2>2. CASE r \in inbox \cup lost
    BY <2>2, MailGrows
  <2>3. CASE About[r] \notin Known(to[r])
    <3>1. age[About[r]] = "old" /\ digest[to[r]][About[r]] = NoKey
      BY <1>1, <2>1, <2>3 DEF Traces, Known
    <3>2. digest'[to[r]][About[r]] = NoKey
      BY <1>1, <2>1, <3>1, Forward
    <3> QED
      BY <1>2, <3>2
  <2> QED
    BY <1>2, <2>1, <2>2, <2>3 DEF ReplyIsKept
<1>3. ASSUME to'[r] = to[r], r \in requests[to[r]],
             UNCHANGED requests \/ \E m : Served(m)
      PROVE  Kept(r)
  <2>1. to[r] \in Landings
    BY <1>1, <1>3 DEF TypeOK
  <2>2. CASE \E m : Served(m)
    <3>1. PICK m : Served(m)
      BY <2>2
    <3>2. r \in requests'[to[r]] \/ r \in HandedOut(m)
      BY <1>3, <2>1, <3>1 DEF Served, Effect
    <3> QED
      BY <1>3, <3>1, <3>2 DEF Served
  <2> QED
    BY <1>3, <2>2
<1>4. ASSUME NEW q \in Replies, NEW l \in Landings, Stored(q, l) PROVE Kept(r)
  <2>1. /\ \A k \in Landings : requests[k] \subseteq requests'[k]
        /\ q \in requests'[l] /\ to'[q] = l /\ (r # q => to'[r] = to[r])
    BY <1>1, <1>4 DEF Stored, Reply, TypeOK, StoreType
  <2>2. CASE r = q
    BY <2>1, <2>2
  <2>3. CASE r # q /\ r \in requests[to[r]]
    <3>1. to[r] \in Landings
      BY <1>1, <2>1, <2>3 DEF TypeOK
    <3> QED
      BY <2>1, <2>3, <3>1
  <2> QED
    BY <1>2, <2>1, <2>2, <2>3
<1>5. ASSUME NEW l \in Landings, Purge(l) PROVE Kept(r)
  <2>1. to'[r] = to[r] /\ to[r] \in Landings
    BY <1>1, <1>5 DEF Purge, TypeOK
  <2>2. \/ r \in requests[to[r]] => r \in requests'[to[r]]
        \/ digest'[to[r]][About[r]] = NoKey
    BY <1>1, <1>5, <2>1 DEF Purge, PurgeExpired, StoreType
  <2> QED
    BY <1>2, <2>1, <2>2
<1>6. UNCHANGED store => UNCHANGED requests
  BY DEF store
<1> HIDE DEF Kept
<1> QED
  BY <1>2, <1>3, <1>4, <1>5, <1>6, StoreSteps DEF Quiet

LEMMA JoinedHasReplyStep ==
  ASSUME TypeOK, Outbox, Traces, JoinedHasReply, [Next]_vars
  PROVE  JoinedHasReply'
<1> DEFINE Backed(t) == \E r \in Delivered' :
                           About[r] = t /\ (r \notin Decliners \/ r \in accepted')
<1> SUFFICES ASSUME NEW t \in Tickets, state'[t] = "joined" PROVE Backed(t)
  BY DEF JoinedHasReply
<1>1. CASE state[t] = "joined"
  BY <1>1, MailGrows DEF JoinedHasReply
<1>2. ASSUME NEW u \in Own, RefreshStatus(u), state[t] # "joined" PROVE Backed(t)
  <2>1. u = t /\ Lifecycle(base[t], t) = "accepted"
    BY <1>2, InvitationAssumption DEF RefreshStatus, Status, TypeOK
  <2>2. base[t] \in Landings
    BY <1>2, <2>1 DEF RefreshStatus, Outbox
  <2>3. answered[base[t]][t] = "accepted"
    BY <2>1, <2>2 DEF Lifecycle
  <2> QED
    BY <2>2, <2>3, MailGrows DEF Traces
<1>3. ASSUME NEW r \in Replies, AcceptContactRequest(r), state[t] # "joined" PROVE Backed(t)
  <2>1. About[r] = t /\ r \in accepted' /\ r \in inbox
    BY <1>3, LandingAssumption DEF AcceptContactRequest, TypeOK
  <2> QED
    BY <2>1, MailGrows DEF Traces
<1>4. ASSUME NEW u \in Own, MarkSent(u) \/ RevokeEntry(u) \/ PullContactRequests(u)
      PROVE state[t] = "joined"
  BY <1>4 DEF MarkSent, RevokeEntry, PullContactRequests, entries, TypeOK
<1>5. ASSUME NEW u \in Own, NEW c \in {"email", "sms"}, Prepare(u, c)
      PROVE state[t] = "joined"
  BY <1>5 DEF Prepare, NewEntry, TypeOK
<1>6. CASE Attempt
  <2>1. state' = state \/ state' = [state EXCEPT ![job.ticket] = "prepared"]
    BY <1>6 DEF Attempt, NewEntry
  <2> QED
    BY <1>1, <2>1 DEF TypeOK
<1>7. ASSUME NEW b, ClearOutbox(b) PROVE state[t] = "joined"
  BY <1>7 DEF ClearOutbox
<1>8. ASSUME NEW u, PublishEntry(u) \/ Configure(u) \/ ServeLate(u) \/ Purge(u)
      PROVE state[t] = "joined"
  BY <1>8 DEF PublishEntry, Configure, ServeLate, Purge, entries
<1>9. ASSUME NEW r, NEW l, Respond(r, l) \/ Deliver(r, l) \/ Others(l, r) \/ Check(r)
      PROVE state[t] = "joined"
  BY <1>9 DEF Respond, Deliver, Others, Check, entries
<1>10. Tick \/ UNCHANGED vars => state[t] = "joined"
  BY DEF Tick, vars, entries
<1> HIDE DEF Backed
<1> QED
  BY <1>1, <1>2, <1>3, <1>4, <1>5, <1>6, <1>7, <1>8, <1>9, <1>10 DEF Next, Owner, Hosts

(* The inductive invariant holds in every state.                           *)
LEMMA Invariance == Spec => []IInv
<1>1. Init => IInv
  BY InitIInv
<1>2. IInv /\ [Next]_vars => IInv'
  BY TypeStep, OutboxStep, WaitsStep, RecordsStep, LinksStep, CleanStep, KeyFitsStep,
     TracesStep, ReplyIsKeptStep, JoinedHasReplyStep DEF IInv
<1> QED
  BY <1>1, <1>2, PTL DEF Spec

(* The types of the cell, the landings and the network (TypeOK): an        *)
(* accepted reply is in the inbox, and publishTicket never runs out of     *)
(* bases while it holds stateMu (invitation.go, publishTicket).            *)
THEOREM InvitationTypeCorrect == Spec => []TypeOK
<1>1. IInv => TypeOK
  BY DEF IInv
<1> QED
  BY <1>1, Invariance, PTL

(* Short links hold (invite_landing.go, Publish and byCode): within the    *)
(* grace the landing and the code of a published entry lead to its ticket  *)
(* and to no other, however many cells share the landing and whatever      *)
(* calls come late.                                                        *)
THEOREM ShortLinks == Spec => []ShortLinkHolds
<1>1. IInv => ShortLinkHolds
  <2> SUFFICES ASSUME IInv, NEW t \in Tickets, Published(t), age[t] # "old"
               PROVE  ByCode(base[t], Code[t]) = {t}
    BY DEF ShortLinkHolds
  <2>1. base[t] \in Landings /\ t \in Known(base[t])
    BY DEF IInv, Outbox, Links
  <2>2. \A u \in Known(base[t]) : Code[u] = Code[t] => u = t
    BY <2>1 DEF IInv, Records
  <2> QED
    BY <2>1, <2>2 DEF ByCode
<1> QED
  BY <1>1, Invariance, PTL

(* The status key of a published entry opens its record, unless a publish  *)
(* call was given up (invitation.go, publishTicket; Publish keeps the key  *)
(* of a record that is there).                                             *)
THEOREM KeysFit == Spec => []KeyFits
<1>1. IInv => KeyFits
  BY DEF IInv
<1> QED
  BY <1>1, Invariance, PTL

(* A stored reply is at its landing, in the inbox or lost on the way       *)
(* (invite_landing.go, Collect and Reply).                                 *)
THEOREM RepliesKept == Spec => []ReplyIsKept
<1>1. IInv => ReplyIsKept
  BY DEF IInv
<1> QED
  BY <1>1, Invariance, PTL

(* An entry that shows as joined is backed by a reply somebody sent        *)
(* (invitation.go, refreshStatus and acceptContactRequest).                *)
THEOREM JoinedIsBacked == Spec => []JoinedHasReply
<1>1. IInv => JoinedHasReply
  BY DEF IInv
<1> QED
  BY <1>1, Invariance, PTL

-----------------------------------------------------------------------------
(* The refinement: what a step does to one slot.                           *)
SlotStep(l, t) ==
    LET a == age'[t] = age[t]
        p == Phase(l, t)' = Phase(l, t)
        d == DueAt(l, t)' = DueAt(l, t)
        q == PostsAt(l, t)' = PostsAt(l, t)
        w == Waiting(l, t)' = Waiting(l, t)
        takes == /\ Phase(l, t) = "open"
                 /\ Cardinality(Waiting(l, t)) < MaxContactRequests
    IN
    \/ a /\ p /\ d /\ q /\ w
    \/ /\ a /\ p /\ q /\ w /\ age[t] = "fresh"
       /\ \E k \in StatusKeys : DueAt(l, t)' = DueAt(l, t) \cup {k}
    \/ /\ a /\ p /\ d /\ w /\ age[t] = "fresh"
       /\ \E r \in Replies : About[r] = t /\ PostsAt(l, t)' = PostsAt(l, t) \cup {r}
    \/ /\ a /\ q /\ w /\ Phase(l, t) = "none" /\ Phase(l, t)' = "open"
       /\ \E k \in StatusKeys : /\ k \in DueAt(l, t) \/ age[t] = "fresh"
                               /\ DueAt(l, t)' = DueAt(l, t) \ {k}
    \/ /\ a /\ p /\ q /\ w
       /\ \E k \in StatusKeys : DueAt(l, t)' = DueAt(l, t) \ {k}
    \/ /\ a /\ p /\ d /\ q /\ age[t] = "fresh" /\ takes
       /\ \E r \in Replies : About[r] = t /\ Waiting(l, t)' = Waiting(l, t) \cup {r}
    \/ /\ a /\ p /\ d /\ takes
       /\ \E r \in Replies : /\ About[r] = t /\ r \in PostsAt(l, t)
                             /\ Waiting(l, t)' = Waiting(l, t) \cup {r}
                             /\ PostsAt(l, t)' = PostsAt(l, t) \ {r}
    \/ /\ a /\ p /\ d /\ w
       /\ \E r \in Replies : About[r] = t /\ PostsAt(l, t)' = PostsAt(l, t) \ {r}
    \/ a /\ d /\ q /\ w /\ Phase(l, t) = "open" /\ Phase(l, t)' = "withdrawn"
    \/ a /\ p /\ d /\ q /\ Phase(l, t) # "none" /\ Waiting(l, t)' = {}
    \/ p /\ d /\ q /\ w /\ age[t] = "fresh" /\ age'[t] = "expired"
    \/ /\ p /\ d /\ w /\ age[t] = "expired" /\ age'[t] = "old"
       /\ DueAt(l, t) = {} /\ PostsAt(l, t)' = {}
    \/ /\ a /\ d /\ q /\ age[t] = "old"
       /\ Phase(l, t)' = "none" /\ Waiting(l, t)' = {}

LEMMA DueAtIs ==
  ASSUME NEW D \in SUBSET (Landings \X Tickets \X StatusKeys), NEW l, NEW t
  PROVE  {d[3] : d \in {d \in D : d[1] = l /\ d[2] = t}}
         = {k \in StatusKeys : <<l, t, k>> \in D}
<1>1. \A d \in D : d = <<d[1], d[2], d[3]>> /\ d[3] \in StatusKeys
  OBVIOUS
<1> QED
  BY <1>1

LEMMA PostsAtIs ==
  ASSUME NEW P \in SUBSET (Landings \X Replies), NEW l, NEW t
  PROVE  {p[2] : p \in {p \in P : p[1] = l /\ About[p[2]] = t}}
         = {r \in Replies : About[r] = t /\ <<l, r>> \in P}
<1>1. \A p \in P : p = <<p[1], p[2]>> /\ p[2] \in Replies
  OBVIOUS
<1> QED
  BY <1>1

(* How one call changes the queues of a slot.                              *)
LEMMA DueSteps ==
  ASSUME ClockType, ClockType', NEW l \in Landings, NEW t \in Tickets
  PROVE  /\ due' = due => DueAt(l, t)' = DueAt(l, t)
         /\ \A k \in StatusKeys : k \in DueAt(l, t) <=> <<l, t, k>> \in due
         /\ \A l0, t0, k0 :
              /\ due' = due \cup {<<l0, t0, k0>>} =>
                   DueAt(l, t)' = IF l = l0 /\ t = t0 THEN DueAt(l, t) \cup {k0}
                                  ELSE DueAt(l, t)
              /\ due' = due \ {<<l0, t0, k0>>} =>
                   DueAt(l, t)' = IF l = l0 /\ t = t0 THEN DueAt(l, t) \ {k0}
                                  ELSE DueAt(l, t)
<1>1. DueAt(l, t) = {k \in StatusKeys : <<l, t, k>> \in due}
  BY DueAtIs DEF DueAt, ClockType
<1>2. DueAt(l, t)' = {k \in StatusKeys : <<l, t, k>> \in due'}
  BY DueAtIs DEF DueAt, ClockType
<1>3. due' \subseteq Landings \X Tickets \X StatusKeys
  BY DEF ClockType
<1>4. ASSUME NEW l0, NEW t0, NEW k0, due' = due \cup {<<l0, t0, k0>>}
      PROVE  DueAt(l, t)' = IF l = l0 /\ t = t0 THEN DueAt(l, t) \cup {k0}
                            ELSE DueAt(l, t)
  <2>1. <<l0, t0, k0>> \in Landings \X Tickets \X StatusKeys
    BY <1>3, <1>4
  <2>2. k0 \in StatusKeys
    BY <2>1
  <2>3. \A k : <<l, t, k>> \in due' <=>
                  <<l, t, k>> \in due \/ (l = l0 /\ t = t0 /\ k = k0)
    BY <1>4
  <2> QED
    BY <1>1, <1>2, <2>2, <2>3
<1>5. ASSUME NEW l0, NEW t0, NEW k0, due' = due \ {<<l0, t0, k0>>}
      PROVE  DueAt(l, t)' = IF l = l0 /\ t = t0 THEN DueAt(l, t) \ {k0}
                            ELSE DueAt(l, t)
  <2>1. \A k : <<l, t, k>> \in due' <=>
                  <<l, t, k>> \in due /\ ~(l = l0 /\ t = t0 /\ k = k0)
    BY <1>5
  <2> QED
    BY <1>1, <1>2, <2>1
<1> QED
  BY <1>1, <1>2, <1>4, <1>5

LEMMA PostsSteps ==
  ASSUME ClockType, ClockType', NEW l \in Landings, NEW t \in Tickets
  PROVE  /\ posts' = posts => PostsAt(l, t)' = PostsAt(l, t)
         /\ \A r \in Replies :
              About[r] = t => (r \in PostsAt(l, t) <=> <<l, r>> \in posts)
         /\ \A l0, r0 :
              /\ posts' = posts \cup {<<l0, r0>>} =>
                   PostsAt(l, t)' = IF l = l0 /\ t = About[r0]
                                    THEN PostsAt(l, t) \cup {r0} ELSE PostsAt(l, t)
              /\ posts' = posts \ {<<l0, r0>>} =>
                   PostsAt(l, t)' = IF l = l0 /\ t = About[r0]
                                    THEN PostsAt(l, t) \ {r0} ELSE PostsAt(l, t)
<1>1. PostsAt(l, t) = {r \in Replies : About[r] = t /\ <<l, r>> \in posts}
  BY PostsAtIs DEF PostsAt, ClockType
<1>2. PostsAt(l, t)' = {r \in Replies : About[r] = t /\ <<l, r>> \in posts'}
  BY PostsAtIs DEF PostsAt, ClockType
<1>3. posts' \subseteq Landings \X Replies
  BY DEF ClockType
<1>4. ASSUME NEW l0, NEW r0, posts' = posts \cup {<<l0, r0>>}
      PROVE  PostsAt(l, t)' = IF l = l0 /\ t = About[r0]
                              THEN PostsAt(l, t) \cup {r0} ELSE PostsAt(l, t)
  <2>1. <<l0, r0>> \in Landings \X Replies
    BY <1>3, <1>4
  <2>2. r0 \in Replies
    BY <2>1
  <2>3. \A r : <<l, r>> \in posts' <=> <<l, r>> \in posts \/ (l = l0 /\ r = r0)
    BY <1>4
  <2> QED
    BY <1>1, <1>2, <2>2, <2>3
<1>5. ASSUME NEW l0, NEW r0, posts' = posts \ {<<l0, r0>>}
      PROVE  PostsAt(l, t)' = IF l = l0 /\ t = About[r0]
                              THEN PostsAt(l, t) \ {r0} ELSE PostsAt(l, t)
  <2>1. \A r : <<l, r>> \in posts' <=> <<l, r>> \in posts /\ ~(l = l0 /\ r = r0)
    BY <1>5
  <2> QED
    BY <1>1, <1>2, <2>1
<1> QED
  BY <1>1, <1>2, <1>4, <1>5

LEMMA TickSlot ==
  ASSUME TypeOK, TypeOK', Tick, NEW l \in Landings, NEW t \in Tickets
  PROVE  SlotStep(l, t)
<1> ClockType /\ ClockType'
  BY TypeParts
<1>1. Phase(l, t)' = Phase(l, t) /\ Waiting(l, t)' = Waiting(l, t)
  BY DEF Tick, store, Phase, Waiting
<1>2. ASSUME NEW u \in Tickets, Age(u) PROVE SlotStep(l, t)
  <2>1. DueAt(l, t)' = DueAt(l, t)
    BY <1>2, DueSteps DEF Age
  <2>2. CASE age[u] = "fresh"
    <3>1. posts' = posts /\ age' = [age EXCEPT ![u] = "expired"]
      BY <1>2, <2>2 DEF Age
    <3>2. PostsAt(l, t)' = PostsAt(l, t)
      BY <3>1, PostsSteps
    <3>3. age'[t] = age[t] \/ (age[t] = "fresh" /\ age'[t] = "expired")
      BY <2>2, <3>1 DEF ClockType
    <3> QED
      BY <1>1, <2>1, <3>2, <3>3 DEF SlotStep
  <2>3. CASE age[u] = "expired"
    <3>1. /\ age' = [age EXCEPT ![u] = "old"]
          /\ \A d \in due : d[2] # u
          /\ posts' = {p \in posts : About[p[2]] # u}
      BY <1>2, <2>3 DEF Age
    <3>2. /\ PostsAt(l, t) = {r \in Replies : About[r] = t /\ <<l, r>> \in posts}
          /\ PostsAt(l, t)' = {r \in Replies : About[r] = t /\ <<l, r>> \in posts'}
      BY PostsAtIs DEF PostsAt, ClockType
    <3>3. \A r : <<l, r>> \in posts' <=> <<l, r>> \in posts /\ About[r] # u
      BY <3>1
    <3>4. CASE t = u
      <4>1. DueAt(l, t) = {}
        BY <3>1, <3>4 DEF DueAt
      <4>2. PostsAt(l, t)' = {}
        BY <3>2, <3>3, <3>4
      <4>3. age[t] = "expired" /\ age'[t] = "old"
        BY <2>3, <3>1, <3>4 DEF ClockType
      <4> QED
        BY <1>1, <2>1, <4>1, <4>2, <4>3 DEF SlotStep
    <3>5. CASE t # u
      <4>1. PostsAt(l, t)' = PostsAt(l, t)
        BY <3>2, <3>3, <3>5
      <4>2. age'[t] = age[t]
        BY <3>1, <3>5 DEF ClockType
      <4> QED
        BY <1>1, <2>1, <4>1, <4>2 DEF SlotStep
    <3> QED
      BY <3>4, <3>5
  <2> QED
    BY <1>2, <2>2, <2>3 DEF Age
<1>3. ASSUME NEW r, Stale(r) PROVE SlotStep(l, t)
  <2>1. UNCHANGED <<age, due, posts>>
    BY <1>3 DEF Stale, pending
  <2>2. DueAt(l, t)' = DueAt(l, t) /\ PostsAt(l, t)' = PostsAt(l, t)
    BY <2>1, DueSteps, PostsSteps
  <2> QED
    BY <1>1, <2>1, <2>2 DEF SlotStep
<1> QED
  BY <1>2, <1>3, InvitationAssumption DEF Tick

LEMMA QuietSlot ==
  ASSUME TypeOK, TypeOK', Quiet, NEW l \in Landings, NEW t \in Tickets
  PROVE  SlotStep(l, t)
<1> ClockType /\ ClockType'
  BY TypeParts
<1>1. Phase(l, t)' = Phase(l, t) /\ Waiting(l, t)' = Waiting(l, t)
  BY DEF Quiet, store, Phase, Waiting
<1>2. CASE UNCHANGED <<clock, pending>>
  <2>1. DueAt(l, t)' = DueAt(l, t) /\ PostsAt(l, t)' = PostsAt(l, t) /\ age'[t] = age[t]
    BY <1>2, DueSteps, PostsSteps DEF clock, pending
  <2> QED
    BY <1>1, <2>1 DEF SlotStep
<1>3. ASSUME NEW m, Proper(m), Check(m) PROVE SlotStep(l, t)
  <2>1. /\ due' = due \cup {<<m.at, m.ticket, m.key>>}
        /\ age[m.ticket] = "fresh" /\ age' = age /\ posts' = posts
        /\ m.key \in StatusKeys
    BY <1>3 DEF Check, CheckPublication, VerifyPublication, IsExpired, clock,
                Proper, Message, Keys
  <2>2. PostsAt(l, t)' = PostsAt(l, t)
    BY <2>1, PostsSteps
  <2>3. DueAt(l, t)' = IF l = m.at /\ t = m.ticket THEN DueAt(l, t) \cup {m.key}
                       ELSE DueAt(l, t)
    BY <2>1, DueSteps
  <2> QED
    BY <1>1, <2>1, <2>2, <2>3 DEF SlotStep
<1>4. ASSUME NEW r \in Replies, NEW k \in Landings, Queued(r, k) PROVE SlotStep(l, t)
  <2>1. /\ UNCHANGED <<age, due>> /\ posts' = posts \cup {<<k, r>>}
        /\ age[About[r]] = "fresh"
    BY <1>4 DEF Queued, clock
  <2>2. /\ DueAt(l, t)' = DueAt(l, t)
        /\ PostsAt(l, t)' = IF l = k /\ t = About[r] THEN PostsAt(l, t) \cup {r}
                            ELSE PostsAt(l, t)
    BY <2>1, DueSteps, PostsSteps
  <2> QED
    BY <1>1, <2>1, <2>2 DEF SlotStep
<1>5. ASSUME NEW r \in Replies, NEW k \in Landings, Dequeued(r, k) PROVE SlotStep(l, t)
  <2>1. UNCHANGED <<age, due>> /\ posts' = posts \ {<<k, r>>}
    BY <1>5 DEF Dequeued, clock
  <2>2. /\ DueAt(l, t)' = DueAt(l, t)
        /\ PostsAt(l, t)' = IF l = k /\ t = About[r] THEN PostsAt(l, t) \ {r}
                            ELSE PostsAt(l, t)
    BY <2>1, DueSteps, PostsSteps
  <2> QED
    BY <1>1, <2>1, <2>2 DEF SlotStep
<1> QED
  BY <1>2, <1>3, <1>4, <1>5, TickSlot DEF Quiet

LEMMA ServedSlot ==
  ASSUME TypeOK, TypeOK', Records, NEW m, Served(m), UNCHANGED clock,
         NEW l \in Landings, NEW t \in Tickets
  PROVE  SlotStep(l, t)
<1> ClockType /\ ClockType'
  BY TypeParts
<1>1. StoreType /\ m \in Message /\ m.ticket \in Tickets /\ Effect(m)
  BY StoreTyped DEF Served, Proper, Message
<1>2. age'[t] = age[t] /\ posts' = posts
  BY <1>1 DEF clock, Effect
<1>3. PostsAt(l, t)' = PostsAt(l, t)
  BY <1>2, PostsSteps
<1>4. t \notin Known(l) => t \notin revoked[l] /\ Waiting(l, t) = {}
  BY DEF Records, Waiting
<1>5. CASE m.op = "publish"
  <2>1. HandedOut(m) = {}
    BY <1>5 DEF HandedOut
  <2>2. revoked'[l] = revoked[l] /\ requests'[l] = requests[l]
    BY <1>1, <1>5, <2>1 DEF Effect
  <2>3. Waiting(l, t)' = Waiting(l, t)
    BY <2>2 DEF Waiting
  <2>4. due' = due \ {<<m.at, m.ticket, m.key>>}
    BY <1>1, <1>5 DEF Effect
  <2>5. DueAt(l, t)' = IF l = m.at /\ t = m.ticket THEN DueAt(l, t) \ {m.key}
                       ELSE DueAt(l, t)
    BY <2>4, DueSteps
  <2>6. m.key \in StatusKeys
    BY <1>5 DEF Served, Proper, Message, Keys
  <2>7. CASE digest'[l][t] = digest[l][t]
    <3>1. Phase(l, t)' = Phase(l, t)
      BY <2>2, <2>7 DEF Phase
    <3> QED
      BY <1>2, <1>3, <2>3, <2>5, <2>6, <3>1 DEF SlotStep
  <2>8. CASE digest'[l][t] # digest[l][t]
    <3>1. /\ l = m.at /\ t = m.ticket /\ digest[l][t] = NoKey /\ digest'[l][t] # NoKey
          /\ <<l, t, m.key>> \in due \/ age[t] = "fresh"
      BY <1>1, <2>8 DEF Effect
    <3>2. Phase(l, t) = "none" /\ Phase(l, t)' = "open"
      BY <1>4, <2>2, <3>1 DEF Phase, Known
    <3>3. m.key \in DueAt(l, t) \/ age[t] = "fresh"
      BY <2>6, <3>1, DueSteps
    <3>4. DueAt(l, t)' = DueAt(l, t) \ {m.key}
      BY <2>5, <3>1
    <3> QED
      BY <1>2, <1>3, <2>3, <2>6, <3>2, <3>3, <3>4 DEF SlotStep
  <2> QED
    BY <2>7, <2>8
<1>6. CASE m.op # "publish"
  <2>1. digest'[l][t] = digest[l][t] /\ due' = due
    BY <1>1, <1>6 DEF Effect
  <2>2. DueAt(l, t)' = DueAt(l, t)
    BY <2>1, DueSteps
  <2>3. CASE m.op = "revoke"
    <3>1. HandedOut(m) = {}
      BY <2>3 DEF HandedOut
    <3>2. requests'[l] = requests[l]
      BY <1>1, <3>1 DEF Effect
    <3>3. Waiting(l, t)' = Waiting(l, t)
      BY <3>2 DEF Waiting
    <3>4. t \in revoked'[l] => t \in revoked[l] \/ t \in Known(l)
      BY <1>1 DEF Effect
    <3>5. t \in revoked[l] => t \in revoked'[l]
      BY <1>1 DEF Effect
    <3>6. \/ Phase(l, t)' = Phase(l, t)
          \/ Phase(l, t) = "open" /\ Phase(l, t)' = "withdrawn"
      BY <2>1, <3>4, <3>5 DEF Phase, Known
    <3> QED
      BY <1>2, <1>3, <2>2, <3>3, <3>6 DEF SlotStep
  <2>4. CASE m.op # "revoke"
    <3>1. revoked'[l] = revoked[l]
      BY <1>1, <2>4 DEF Effect
    <3>2. Phase(l, t)' = Phase(l, t)
      BY <2>1, <3>1 DEF Phase
    <3>3. CASE l = m.at /\ t = m.ticket /\ Authorised(l, t, m.key) /\ m.op = "requests"
      <4>1. HandedOut(m) = Waiting(l, t) /\ t \in Known(l)
        BY <3>3 DEF HandedOut, Authorised
      <4>2. requests'[l] = requests[l] \ Waiting(l, t)
        BY <1>1, <3>3, <4>1 DEF Effect
      <4>3. Waiting(l, t)' = {}
        BY <4>2 DEF Waiting
      <4>4. Phase(l, t) # "none"
        BY <4>1 DEF Phase, Known
      <4>5. age'[t] = age[t]
        BY <1>2
      <4> QED
        BY ONLY <4>5, <1>3, <2>2, <3>2, <4>3, <4>4 DEF SlotStep
    <3>4. CASE ~(l = m.at /\ t = m.ticket /\ Authorised(l, t, m.key) /\ m.op = "requests")
      <4>1. \A r \in Replies : About[r] = t /\ r \in requests[l] => r \in requests'[l]
        BY <1>1, <3>4 DEF Effect, HandedOut, Waiting
      <4>2. requests'[l] \subseteq requests[l] /\ requests[l] \subseteq Replies
        BY <1>1 DEF Effect, StoreType
      <4>3. Waiting(l, t)' = Waiting(l, t)
        BY <4>1, <4>2 DEF Waiting
      <4> QED
        BY <1>2, <1>3, <2>2, <3>2, <4>3 DEF SlotStep
    <3> QED
      BY <3>3, <3>4
  <2> QED
    BY <2>3, <2>4
<1> QED
  BY <1>5, <1>6

LEMMA StoredSlot ==
  ASSUME TypeOK, TypeOK', NEW r \in Replies, NEW k \in Landings, Stored(r, k),
         NEW l \in Landings, NEW t \in Tickets
  PROVE  SlotStep(l, t)
<1> ClockType /\ ClockType' /\ StoreType
  BY TypeParts
<1>1. UNCHANGED <<age, due, digest, revoked>> /\ Reply(k, r)
  BY DEF Stored, Reply, clock
<1>2. Phase(l, t)' = Phase(l, t) /\ DueAt(l, t)' = DueAt(l, t)
  BY <1>1, DueSteps DEF Phase
<1>3. requests'[l] = IF l = k THEN requests[l] \cup {r} ELSE requests[l]
  BY <1>1 DEF Reply, StoreType
<1>4. CASE l = k /\ About[r] = t
  <2>1. Waiting(l, t)' = Waiting(l, t) \cup {r}
    BY <1>3, <1>4 DEF Waiting
  <2>2. Phase(l, t) = "open" /\ Cardinality(Waiting(l, t)) < MaxContactRequests
    BY <1>1, <1>4 DEF Reply, Takes, Phase, Known
  <2>3. CASE posts' = posts /\ age[t] = "fresh"
    <3>1. PostsAt(l, t)' = PostsAt(l, t)
      BY <2>3, PostsSteps
    <3> QED
      BY <1>1, <1>2, <1>4, <2>1, <2>2, <2>3, <3>1 DEF SlotStep
  <2>4. CASE <<l, r>> \in posts /\ posts' = posts \ {<<l, r>>}
    <3>1. r \in PostsAt(l, t) /\ PostsAt(l, t)' = PostsAt(l, t) \ {r}
      BY <1>4, <2>4, PostsSteps
    <3> QED
      BY <1>1, <1>2, <1>4, <2>1, <2>2, <3>1 DEF SlotStep
  <2> QED
    BY <1>4, <2>3, <2>4 DEF Stored
<1>5. CASE ~(l = k /\ About[r] = t)
  <2>1. Waiting(l, t)' = Waiting(l, t)
    BY <1>3, <1>5 DEF Waiting
  <2>2. posts' = posts \/ posts' = posts \ {<<k, r>>}
    BY DEF Stored
  <2>3. PostsAt(l, t)' = PostsAt(l, t)
    BY <1>5, <2>2, PostsSteps
  <2> QED
    BY <1>1, <1>2, <2>1, <2>3 DEF SlotStep
<1> QED
  BY <1>4, <1>5

LEMMA PurgeSlot ==
  ASSUME TypeOK, TypeOK', NEW k \in Landings, Purge(k),
         NEW l \in Landings, NEW t \in Tickets
  PROVE  SlotStep(l, t)
<1> ClockType /\ ClockType' /\ StoreType
  BY TypeParts
<1>1. UNCHANGED <<age, due, posts>> /\ PurgeExpired(k)
  BY DEF Purge, PurgeExpired, clock, pending
<1>2. DueAt(l, t)' = DueAt(l, t) /\ PostsAt(l, t)' = PostsAt(l, t)
  BY <1>1, DueSteps, PostsSteps
<1>3. CASE l = k /\ t \in Known(l) /\ age[t] = "old"
  <2>1. digest'[l][t] = NoKey /\ Waiting(l, t)' = {}
    BY <1>1, <1>3 DEF PurgeExpired, Known, Waiting, StoreType
  <2>2. Phase(l, t)' = "none"
    BY <2>1 DEF Phase
  <2> QED
    BY <1>1, <1>2, <1>3, <2>1, <2>2 DEF SlotStep
<1>4. CASE ~(l = k /\ t \in Known(l) /\ age[t] = "old")
  <2>1. digest'[l][t] = digest[l][t] /\ (t \in revoked'[l] <=> t \in revoked[l])
    BY <1>1, <1>4 DEF PurgeExpired, Known, StoreType
  <2>2. requests'[l] = IF l = k THEN {r \in requests[l] : About[r] \notin
                                        {u \in Known(l) : age[u] = "old"}}
                       ELSE requests[l]
    BY <1>1 DEF PurgeExpired, StoreType
  <2>3. Waiting(l, t)' = Waiting(l, t)
    BY <1>4, <2>2 DEF Waiting
  <2>4. Phase(l, t)' = Phase(l, t)
    BY <2>1 DEF Phase
  <2> QED
    BY <1>1, <1>2, <2>3, <2>4 DEF SlotStep
<1> QED
  BY <1>3, <1>4

LEMMA SlotSteps ==
  ASSUME TypeOK, TypeOK', Outbox, Waits, Records, [Next]_vars,
         NEW l \in Landings, NEW t \in Tickets
  PROVE  SlotStep(l, t)
BY QuietSlot, ServedSlot, StoredSlot, PurgeSlot, StoreSteps

\* Two records of TicketLife with the same fields are the same.
Fields == {"age", "phase", "due", "posts", "mail"}

LEMMA SameFields ==
  ASSUME NEW e, NEW w,
         e = [i \in Fields |-> e[i]], w = [i \in Fields |-> w[i]],
         e.age = w.age, e.phase = w.phase, e.due = w.due,
         e.posts = w.posts, e.mail = w.mail
  PROVE  e = w
BY DEF Fields

LEMMA SameCount == ASSUME NEW S PROVE Life!Cardinality(S) = Cardinality(S)
BY DEF Cardinality, Life!Cardinality

(* The landings keep to the life of a ticket: the cell, its landings and   *)
(* the network together implement TicketLife (invite_landing.go, Publish,  *)
(* Revoke, Collect, Reply and PurgeExpired).                               *)
THEOREM KeepsLifeCycle == Spec => LifeCycle
<1> DEFINE V == [x \in Slots |-> View(x[1], x[2])]
           Mail == [x \in Slots |-> {r \in Replies : About[r] = x[2]}]
<1>1. Init => Life!Init
  <2> SUFFICES ASSUME Init PROVE Life!Init
    OBVIOUS
  <2>1. ASSUME NEW s \in Slots
        PROVE  View(s[1], s[2]) = [age |-> "fresh", phase |-> "none", due |-> {},
                                   posts |-> {}, mail |-> {}]
    <3>1. s[1] \in Landings /\ s[2] \in Tickets
      BY DEF Slots
    <3>2. age[s[2]] = "fresh" /\ Phase(s[1], s[2]) = "none" /\ Waiting(s[1], s[2]) = {}
      BY <3>1 DEF Init, LandingInit, Phase, Waiting
    <3>3. DueAt(s[1], s[2]) = {} /\ PostsAt(s[1], s[2]) = {}
      BY DEF Init, LandingInit, DueAt, PostsAt
    <3> QED
      BY <3>2, <3>3 DEF View
  <2> QED
    BY <2>1 DEF Life!Init
<1>2. IInv /\ IInv' /\ [Next]_vars => [Life!Next]_(Life!vars)
  <2> SUFFICES ASSUME IInv, IInv', [Next]_vars PROVE Life!Next
    OBVIOUS
  <2> SUFFICES ASSUME NEW s \in Slots PROVE Life!Stay(s) \/ Life!Step(s)
    BY DEF Life!Next
  <2>1. PICK l \in Landings, t \in Tickets : s = <<l, t>>
    BY DEF Slots
  <2>2. SlotStep(l, t)
    BY SlotSteps DEF IInv
  <2>3. /\ V[s] = [age |-> age[t], phase |-> Phase(l, t), due |-> DueAt(l, t),
                   posts |-> PostsAt(l, t), mail |-> Waiting(l, t)]
        /\ V'[s] = [age |-> age'[t], phase |-> Phase(l, t)', due |-> DueAt(l, t)',
                    posts |-> PostsAt(l, t)', mail |-> Waiting(l, t)']
        /\ Mail[s] = {r \in Replies : About[r] = t}
    BY <2>1 DEF View
  <2> HIDE DEF V, Mail
  <2>4. ASSUME age'[t] = age[t],
               Phase(l, t)' = Phase(l, t),
               DueAt(l, t)' = DueAt(l, t),
               PostsAt(l, t)' = PostsAt(l, t),
               Waiting(l, t)' = Waiting(l, t)
       PROVE  Life!Stay(s) \/ Life!Step(s)
    <3>1. V'[s] = V[s]
      BY <2>3, <2>4
    <3>2. Life!Stay(s)
      BY <3>1 DEF V, Life!Stay
    <3> QED
      BY <3>2
  <2>5. ASSUME NEW k \in StatusKeys,
               age'[t] = age[t],
               Phase(l, t)' = Phase(l, t),
               PostsAt(l, t)' = PostsAt(l, t),
               Waiting(l, t)' = Waiting(l, t),
               age[t] = "fresh",
               DueAt(l, t)' = DueAt(l, t) \cup {k}
       PROVE  Life!Stay(s) \/ Life!Step(s)
    <3>1. V'[s] = [V[s] EXCEPT !.due = @ \cup {k}]
      BY <2>3, <2>5
    <3>2. V[s].age = "fresh"
      BY <2>3, <2>5
    <3>3. Life!Call(s, k)
      BY <3>1, <3>2 DEF V, Life!Call
    <3> QED
      BY <3>3 DEF Life!Step, Mail
  <2>6. ASSUME NEW r \in Replies,
               age'[t] = age[t],
               Phase(l, t)' = Phase(l, t),
               DueAt(l, t)' = DueAt(l, t),
               Waiting(l, t)' = Waiting(l, t),
               age[t] = "fresh",
               About[r] = t,
               PostsAt(l, t)' = PostsAt(l, t) \cup {r}
       PROVE  Life!Stay(s) \/ Life!Step(s)
    <3>1. V'[s] = [V[s] EXCEPT !.posts = @ \cup {r}]
      BY <2>3, <2>6
    <3>2. V[s].age = "fresh" /\ r \in Mail[s]
      BY <2>3, <2>6
    <3>3. Life!Post(s, r) /\ r \in Mail[s]
      BY <3>1, <3>2 DEF V, Life!Post
    <3> QED
      BY <3>3 DEF Life!Step, Mail
  <2>7. ASSUME NEW k \in StatusKeys,
               age'[t] = age[t],
               PostsAt(l, t)' = PostsAt(l, t),
               Waiting(l, t)' = Waiting(l, t),
               Phase(l, t) = "none",
               Phase(l, t)' = "open",
               k \in DueAt(l, t) \/ age[t] = "fresh",
               DueAt(l, t)' = DueAt(l, t) \ {k}
       PROVE  Life!Stay(s) \/ Life!Step(s)
    <3>1. V'[s] = [V[s] EXCEPT !.due = @ \ {k}, !.phase = "open"]
      <4> DEFINE e == [V[s] EXCEPT !.due = @ \ {k}, !.phase = "open"]
      <4>1. /\ V'[s].age = age[t] /\ V'[s].phase = "open" /\ V'[s].due = DueAt(l, t) \ {k}
            /\ V'[s].posts = PostsAt(l, t) /\ V'[s].mail = Waiting(l, t)
        BY <2>3, <2>7
      <4>2. /\ e.age = age[t] /\ e.phase = "open" /\ e.due = DueAt(l, t) \ {k}
            /\ e.posts = PostsAt(l, t) /\ e.mail = Waiting(l, t)
        BY <2>3
      <4>3. e = [i \in Fields |-> e[i]] /\ V'[s] = [i \in Fields |-> V'[s][i]]
        BY <2>3 DEF Fields
      <4> HIDE DEF e
      <4>4. /\ V'[s].age = e.age /\ V'[s].phase = e.phase /\ V'[s].due = e.due
            /\ V'[s].posts = e.posts /\ V'[s].mail = e.mail
        BY ONLY <4>1, <4>2
      <4>5. V'[s] = e
        BY ONLY <4>3, <4>4, SameFields
      <4> QED
        BY <4>5 DEF e
    <3>2. /\ k \in V[s].due \/ V[s].age = "fresh"
          /\ V[s].phase = "none"
      BY <2>3, <2>7
    <3>3. Life!Open(s, k)
      BY <3>1, <3>2 DEF V, Life!Open
    <3> QED
      BY <3>3 DEF Life!Step, Mail
  <2>8. ASSUME NEW k \in StatusKeys,
               age'[t] = age[t],
               Phase(l, t)' = Phase(l, t),
               PostsAt(l, t)' = PostsAt(l, t),
               Waiting(l, t)' = Waiting(l, t),
               DueAt(l, t)' = DueAt(l, t) \ {k}
       PROVE  Life!Stay(s) \/ Life!Step(s)
    <3>1. V'[s] = [V[s] EXCEPT !.due = @ \ {k}]
      BY <2>3, <2>8
    <3>2. Life!Refuse(s, k)
      BY <3>1 DEF V, Life!Refuse
    <3> QED
      BY <3>2 DEF Life!Step, Mail
  <2>9. ASSUME NEW r \in Replies,
               age'[t] = age[t],
               Phase(l, t)' = Phase(l, t),
               DueAt(l, t)' = DueAt(l, t),
               PostsAt(l, t)' = PostsAt(l, t),
               age[t] = "fresh",
               Phase(l, t) = "open",
               Cardinality(Waiting(l, t)) < MaxContactRequests,
               About[r] = t,
               Waiting(l, t)' = Waiting(l, t) \cup {r}
       PROVE  Life!Stay(s) \/ Life!Step(s)
    <3>1. V'[s] = [V[s] EXCEPT !.mail = @ \cup {r}]
      BY <2>3, <2>9
    <3>2. /\ V[s].age = "fresh" /\ r \in Mail[s]
          /\ V[s].phase = "open" /\ Cardinality(V[s].mail) < MaxContactRequests
      BY <2>3, <2>9
    <3>3. Life!Receives(s)
      BY <3>2, SameCount DEF V, Life!Receives
    <3>4. Life!Receive(s, r)
      BY <3>1, <3>2, <3>3 DEF V, Life!Receive
    <3> QED
      BY <3>2, <3>4 DEF Life!Step, Mail
  <2>10. ASSUME NEW r \in Replies,
               age'[t] = age[t],
               Phase(l, t)' = Phase(l, t),
               DueAt(l, t)' = DueAt(l, t),
               Phase(l, t) = "open",
               Cardinality(Waiting(l, t)) < MaxContactRequests,
               About[r] = t,
               r \in PostsAt(l, t),
               Waiting(l, t)' = Waiting(l, t) \cup {r},
               PostsAt(l, t)' = PostsAt(l, t) \ {r}
       PROVE  Life!Stay(s) \/ Life!Step(s)
    <3>1. V'[s] = [V[s] EXCEPT !.mail = @ \cup {r}, !.posts = @ \ {r}]
      <4> DEFINE e == [V[s] EXCEPT !.mail = @ \cup {r}, !.posts = @ \ {r}]
      <4>1. /\ V'[s].age = age[t] /\ V'[s].phase = Phase(l, t) /\ V'[s].due = DueAt(l, t)
            /\ V'[s].posts = PostsAt(l, t) \ {r} /\ V'[s].mail = Waiting(l, t) \cup {r}
        BY <2>3, <2>10
      <4>2. /\ e.age = age[t] /\ e.phase = Phase(l, t) /\ e.due = DueAt(l, t)
            /\ e.posts = PostsAt(l, t) \ {r} /\ e.mail = Waiting(l, t) \cup {r}
        BY <2>3
      <4>3. e = [i \in Fields |-> e[i]] /\ V'[s] = [i \in Fields |-> V'[s][i]]
        BY <2>3 DEF Fields
      <4> HIDE DEF e
      <4>4. /\ V'[s].age = e.age /\ V'[s].phase = e.phase /\ V'[s].due = e.due
            /\ V'[s].posts = e.posts /\ V'[s].mail = e.mail
        BY ONLY <4>1, <4>2
      <4>5. V'[s] = e
        BY ONLY <4>3, <4>4, SameFields
      <4> QED
        BY <4>5 DEF e
    <3>2. /\ r \in V[s].posts /\ r \in Mail[s]
          /\ V[s].phase = "open" /\ Cardinality(V[s].mail) < MaxContactRequests
      BY <2>3, <2>10
    <3>3. Life!Receives(s)
      BY <3>2, SameCount DEF V, Life!Receives
    <3>4. Life!Deliver(s, r)
      BY <3>1, <3>2, <3>3 DEF V, Life!Deliver
    <3> QED
      BY <3>2, <3>4 DEF Life!Step, Mail
  <2>11. ASSUME NEW r \in Replies,
               age'[t] = age[t],
               Phase(l, t)' = Phase(l, t),
               DueAt(l, t)' = DueAt(l, t),
               Waiting(l, t)' = Waiting(l, t),
               About[r] = t,
               PostsAt(l, t)' = PostsAt(l, t) \ {r}
       PROVE  Life!Stay(s) \/ Life!Step(s)
    <3>1. V'[s] = [V[s] EXCEPT !.posts = @ \ {r}]
      BY <2>3, <2>11
    <3>2. r \in Mail[s]
      BY <2>3, <2>11
    <3>3. Life!Dismiss(s, r) /\ r \in Mail[s]
      BY <3>1, <3>2 DEF V, Life!Dismiss
    <3> QED
      BY <3>3 DEF Life!Step, Mail
  <2>12. ASSUME age'[t] = age[t],
               DueAt(l, t)' = DueAt(l, t),
               PostsAt(l, t)' = PostsAt(l, t),
               Waiting(l, t)' = Waiting(l, t),
               Phase(l, t) = "open",
               Phase(l, t)' = "withdrawn"
       PROVE  Life!Stay(s) \/ Life!Step(s)
    <3>1. V'[s] = [V[s] EXCEPT !.phase = "withdrawn"]
      BY <2>3, <2>12
    <3>2. V[s].phase = "open"
      BY <2>3, <2>12
    <3>3. Life!Withdraw(s)
      BY <3>1, <3>2 DEF V, Life!Withdraw
    <3> QED
      BY <3>3 DEF Life!Step, Mail
  <2>13. ASSUME age'[t] = age[t],
               Phase(l, t)' = Phase(l, t),
               DueAt(l, t)' = DueAt(l, t),
               PostsAt(l, t)' = PostsAt(l, t),
               Phase(l, t) # "none",
               Waiting(l, t)' = {}
       PROVE  Life!Stay(s) \/ Life!Step(s)
    <3>1. V'[s] = [V[s] EXCEPT !.mail = {}]
      BY <2>3, <2>13
    <3>2. V[s].phase # "none"
      BY <2>3, <2>13
    <3>3. Life!HandOut(s)
      BY <3>1, <3>2 DEF V, Life!HandOut
    <3> QED
      BY <3>3 DEF Life!Step, Mail
  <2>14. ASSUME Phase(l, t)' = Phase(l, t),
               DueAt(l, t)' = DueAt(l, t),
               PostsAt(l, t)' = PostsAt(l, t),
               Waiting(l, t)' = Waiting(l, t),
               age[t] = "fresh",
               age'[t] = "expired"
       PROVE  Life!Stay(s) \/ Life!Step(s)
    <3>1. V'[s] = [V[s] EXCEPT !.age = "expired"]
      BY <2>3, <2>14
    <3>2. V[s].age = "fresh"
      BY <2>3, <2>14
    <3>3. Life!Expire(s)
      BY <3>1, <3>2 DEF V, Life!Expire
    <3> QED
      BY <3>3 DEF Life!Step, Mail
  <2>15. ASSUME Phase(l, t)' = Phase(l, t),
               DueAt(l, t)' = DueAt(l, t),
               Waiting(l, t)' = Waiting(l, t),
               age[t] = "expired",
               age'[t] = "old",
               DueAt(l, t) = {},
               PostsAt(l, t)' = {}
       PROVE  Life!Stay(s) \/ Life!Step(s)
    <3>1. V'[s] = [V[s] EXCEPT !.age = "old", !.posts = {}]
      <4> DEFINE e == [V[s] EXCEPT !.age = "old", !.posts = {}]
      <4>1. /\ V'[s].age = "old" /\ V'[s].phase = Phase(l, t) /\ V'[s].due = DueAt(l, t)
            /\ V'[s].posts = {} /\ V'[s].mail = Waiting(l, t)
        BY <2>3, <2>15
      <4>2. /\ e.age = "old" /\ e.phase = Phase(l, t) /\ e.due = DueAt(l, t)
            /\ e.posts = {} /\ e.mail = Waiting(l, t)
        BY <2>3
      <4>3. e = [i \in Fields |-> e[i]] /\ V'[s] = [i \in Fields |-> V'[s][i]]
        BY <2>3 DEF Fields
      <4> HIDE DEF e
      <4>4. /\ V'[s].age = e.age /\ V'[s].phase = e.phase /\ V'[s].due = e.due
            /\ V'[s].posts = e.posts /\ V'[s].mail = e.mail
        BY ONLY <4>1, <4>2
      <4>5. V'[s] = e
        BY ONLY <4>3, <4>4, SameFields
      <4> QED
        BY <4>5 DEF e
    <3>2. V[s].age = "expired" /\ V[s].due = {}
      BY <2>3, <2>15
    <3>3. Life!GrowOld(s)
      BY <3>1, <3>2 DEF V, Life!GrowOld
    <3> QED
      BY <3>3 DEF Life!Step, Mail
  <2>16. ASSUME age'[t] = age[t],
               DueAt(l, t)' = DueAt(l, t),
               PostsAt(l, t)' = PostsAt(l, t),
               age[t] = "old",
               Phase(l, t)' = "none",
               Waiting(l, t)' = {}
       PROVE  Life!Stay(s) \/ Life!Step(s)
    <3>1. V'[s] = [V[s] EXCEPT !.phase = "none", !.mail = {}]
      <4> DEFINE e == [V[s] EXCEPT !.phase = "none", !.mail = {}]
      <4>1. /\ V'[s].age = age[t] /\ V'[s].phase = "none" /\ V'[s].due = DueAt(l, t)
            /\ V'[s].posts = PostsAt(l, t) /\ V'[s].mail = {}
        BY <2>3, <2>16
      <4>2. /\ e.age = age[t] /\ e.phase = "none" /\ e.due = DueAt(l, t)
            /\ e.posts = PostsAt(l, t) /\ e.mail = {}
        BY <2>3
      <4>3. e = [i \in Fields |-> e[i]] /\ V'[s] = [i \in Fields |-> V'[s][i]]
        BY <2>3 DEF Fields
      <4> HIDE DEF e
      <4>4. /\ V'[s].age = e.age /\ V'[s].phase = e.phase /\ V'[s].due = e.due
            /\ V'[s].posts = e.posts /\ V'[s].mail = e.mail
        BY ONLY <4>1, <4>2
      <4>5. V'[s] = e
        BY ONLY <4>3, <4>4, SameFields
      <4> QED
        BY <4>5 DEF e
    <3>2. V[s].age = "old"
      BY <2>3, <2>16
    <3>3. Life!Drop(s)
      BY <3>1, <3>2 DEF V, Life!Drop
    <3> QED
      BY <3>3 DEF Life!Step, Mail
  <2> QED
    BY <2>2, <2>4, <2>5, <2>6, <2>7, <2>8, <2>9, <2>10,
        <2>11, <2>12, <2>13, <2>14, <2>15, <2>16 DEF SlotStep
<1> QED
  BY <1>1, <1>2, Invariance, PTL DEF Spec, LifeCycle, Life!Spec
=============================================================================
