# A TLA+ verification of GoCellProtocol

GoCellProtocol is the Go port of a protocol of *Cells*: objects with state, a
flow of events and access rules, owned by an identity with a signing key, and
reached locally through a resolver or remotely through *bridges*. This project
models the parts of it whose correctness depends on order, time and
concurrency, checks them with TLC and proves the main results with TLAPS.

## 1. The system

| part | source | state it keeps | operations |
|---|---|---|---|
| Bridge channel admission | `interop/channel.go`, `bridgehead.go`, `cloud_bridge.go` | per connection: handshake state, pending transcript, deadline, admitted channel | `Hello`, `BeginChallenge`, `FinishChallenge`, `Accept`; `Receive` (`onHello`, `onProof`); `Bridgehead.serve` |
| CloudBridge | `cloud_bridge.go`, `bridge.go` | socket, session flags, pending calls, feed sinks, command counter | `Connect`, `Ready`, `SendCommand`, `Flow`, `CloseConnection`, `readLoop` |
| BridgeEndpoint | `bridge.go` | replay store | `Handle` |
| Signing-challenge replay store | `identity_signing_challenge.go` | used nonces and their expiries | validate, `consume` |
| GeneralCell flow | `general_cell.go`, `flow.go` | history, subscribers, sequence counter | `PushFlowElement`, `Flow`, `AbsorbFlow`, `Close` |
| GeneralCell admission and access | `general_cell.go`, `agreements.go` | template, policy, contracts, removals | `AddAgreementAuthorizedBy`, `RemoveContracts`, `ContractAllows`, `HoldsContract`, `Admit`, `ValidateAccess` |
| GeneralCell state | `general_cell.go`, `keypath.go` | storage, handlers | `Get`, `Set`, `Keys` |
| CellResolver | `resolver.go` | registrations, instances, remote bridges | `Resolve`, `RegisterNamedEmitCell`, `CellAtEndpoint`, `loadReference` |
| Scaffold, InMemoryStore | `runtime.go` | cells, lifecycle, stored flows | `InvokeGet`, `InvokeSet`, `Terminate` |
| ChatCell | `chat.go`, `interop/chat.go` | invitations with their artifacts, ledger of used ones, messages, participants, drafts | `audience.*`: invite, generate, accept, decline, revoke, clear; `compose.*`, `sendMessage`; admission conditions |
| InviteLanding | `invite_landing.go` | ticket records, waiting replies | `Publish`, `Revoke`, `Status`, `Collect`, `Landing`, `Reply`, `PurgeExpired` |
| InvitationCell | `invitation.go` | settings, outbox, inbox | `invite.*`: configure, prepare, publish, markSent, refreshStatus, pullContactRequests, acceptContactRequest, revoke, clearOutbox, respond |
| EntityAnchorCell | `entity_anchor.go`, `interop/identity_link.go` | genesis seal, link records, used approval JTIs, under keypaths anyone with a grant may set | `Set`, `entity.batchPersist`, `identityLinks.*`: genesis, approveEnrollment, completeEnrollment, revoke |
| EntityScaffoldExtensionCell | `entity_extension.go` | outgoing requests, link records | `extension.*`: beginRequest, reviewRequest, approveRequest, acceptApproval, revokeLink, clearPending |
| Built-in cells | `cells.go` | vault notes, graph index | per cell |
| Identity, vault | `identity.go` | keys | `Identity`, `Sign` |
| WebSocket framing | `websocket.go` | a socket | `SendText`, `ReadMessage` |
| interop artifacts, values, configuration, commands | `interop/*`, `value.go`, `configuration.go`, `cmd/*` | none | verify, encode, parse |

How they meet. A `CloudBridge` dials a `Bridgehead`; both run the admission
handshake over the socket. After that the bridge's calls become commands with
numbers, the bridgehead passes them to a `BridgeEndpoint`, and that one calls
the target Cell as the identity the command carries. The Cell decides by its
contracts (`CellContracts`), and its flow (`CellFlow`) reaches subscribers. A
peer may ask either end to sign a challenge, which the replay store guards. An
`InvitationCell` registers tickets at landings over HTTP, invitees post their
replies there, and the cell fetches them with the status key of the ticket. A
`ChatCell` is a Cell whose contracts have conditions that look up its own
invitations: what `CellContracts` leaves free, `ChatCell` decides. Two places
of one person link their identities either through an `EntityAnchorCell`, with
a full chain of request, approval, credential and presentation, or through the
packets of their `EntityScaffoldExtensionCell`s, which people carry.

What is hard here: frames that are replayed, reordered or delivered to another
connection; two clocks, read at different moments; callbacks and vaults that
take time between a check and its use; goroutines that copy state under a lock
and act on it after; connections that are lost and made again; HTTP calls that
are given up and served all the same; handlers that check one keypath and
store another in a later critical section; signed papers that are handed in
late, again or after they were replaced; limits of buffers and stores.
`PROJECT.json` lists every such place as a hazard, with the properties that
would catch it going wrong.

## 2. Modules

| module | models | proofs | MC module, configurations |
|---|---|---|---|
| `ChannelAdmission` | handshake and command loop; implements `ChannelService` | `ChannelAdmissionProofs` | `MCChannelAdmission`: `.cfg`, `MCChannelLiveness.cfg` |
| `ChannelService` | abstract: what an admitted channel promises both ends | with `ChannelAdmission` | with `ChannelAdmission` |
| `CellFlow` | a Cell's flow | `CellFlowProofs` | `MCCellFlow`: `.cfg` |
| `CellContracts` | admission and access | `CellContractsProofs` | `MCCellContracts`: `.cfg` |
| `SigningReplay` | sign commands and the replay store; implements `NonceGuard` | `SigningReplayProofs` | `MCSigningReplay`: `.cfg` |
| `NonceGuard` | abstract: what the replay store promises | with `SigningReplay` | with `SigningReplay` |
| `CloudBridge` | the client end of a bridge | `CloudBridgeProofs` | `MCCloudBridge`: `.cfg`, `MCCloudBridgeCids.cfg` |
| `InviteLanding` | the store of a landing | with `Invitation` | with `Invitation` |
| `TicketLife` | abstract: what a landing promises of a ticket | with `Invitation` | with `Invitation` |
| `Invitation` | an `InvitationCell`, its landings and the calls between them; implements `TicketLife` | `InvitationProofs` | `MCInvitation`: `.cfg` |
| `ChatCell` | invitations, admission conditions and messages of a chat | `ChatCellProofs` | `MCChatCell`: `.cfg`, `MCChatCellRekey.cfg` |
| `EntityAnchor` | an `EntityAnchorCell` and the verification of links | `IdentityLinkProofs` | `MCEntityAnchor`: `.cfg` |
| `EntityExtension` | several `EntityScaffoldExtensionCell`s and their packets; implements `LinkBook` | `IdentityLinkProofs` | `MCEntityExtension`: `.cfg` |
| `LinkBook` | abstract: what link records promise | with `EntityExtension` | with `EntityExtension` |

A run checks what could go wrong in the code; where a theorem already states a
plain fact for every value of the constants (most types, one signature per
connect, one challenge per connection, no subscriber after close, no
unconditional admission, joined entries have a reply), no run repeats it.

A definition `X_Something` next to `X` is `X` with a plausible bug; the
specifications never use it. For each checked property one of them makes
TLC find the property violated.

### ChannelAdmission

State and actions follow `ChannelServer` and `ChannelClient` one to one, with
the driver's step added: `phase` is where `Bridgehead.serve` is. The transport
is a set of all frames ever sent, by kind; any connection may receive any of
them any number of times, which covers loss, replay, reordering and delivery
to the wrong connection. A foreign peer may claim any identity and sign with a
key of its own. Cryptography is ideal: a signature is the pair of key and
transcript, a digest is what it digests, a random value is the name of the
connection that drew it. There are two clocks: the monotonic one of the
deadlines and the wall clock of the transcripts, which differs between client
and server by a constant offset. `onProof` is two steps, because the host's
`Recheck` runs in between, and a command is two steps (`HandleCommand`,
`Respond`), because `Handle` does; `Handle` answers every command once.

`ChannelService` says what this is for, without frames, digests and clocks: a
connect signs for one connection at the endpoint it dialled, a connection
admits only the connect that signed for it, a connect opens only the connection
that admitted it, and the Cell is acted on under the key of that connect. One
command is different: for an `admit`, `BridgeEndpoint.Handle` (`bridge.go:157-163`)
asks the Cell about the requester that the payload names, and nothing compares
that requester with the admitted identity. `GeneralCell.Admit`
(`general_cell.go:431-445`) looks at that requester's contract and changes
nothing, so `ChannelService` has it as a step of its own, `Ask`, which an
admitted connection may take about anyone. The
mapping (`Service`) takes what a connect has signed for from the proofs that
bear its nonce, and the rest from the state of the two ends.

Run `channel_admission` (1 180 172 states): agreement of both ends, no second
channel from replayed frames, admission and answers only in time, and the
implementation of `ChannelService` (`ProvidesChannel`). Two connects and two connections of one identity at two
endpoints are enough for frames to cross in every way; the clocks go up to the
expiry instant of a channel. Clients and servers are symmetric (the run has no
liveness property). Run `channel_liveness`: both ends leave the handshake.
Fairness: time passes, a read returns when its deadline has passed (`SetReadDeadline`,
`SetDeadline`), and the local vault and `Recheck` return. No frame is fair.

### CellFlow

The lock is held across steps only where the code blocks while holding it,
in the replay of an overfull history. `out[s]` is everything put into a
channel and `read[s]` how much was taken. `PushFlowElement` is a locked step
(`Push`) and one unlocked step per subscriber of the copy (`SendDelivers`,
`SendDrops`, `SendPanics`).

Run `cell_flow` (620 410 states): exactly-once delivery up to drops by a full
buffer, order per producer, a push that has returned comes before all that is
recorded later (`RealTimeOrder`, by the history variable `before`; pushes that
overlap may arrive in any order), own histories replay without a gap, pushes and `Flow` calls end. Two own
producers, one absorbed flow, two subscribers; a channel of 2 and 3 elements,
so a full channel and an overfull history both happen. Fairness: a goroutine
that can go on does, and Go's mutex lets every waiter in; readers are not fair.
The sends of two producers may cross after the unlock, so a channel keeps the
order of each producer and not that of the history.

### CellContracts

One Cell and its requesters other than the owner. `RequestAgreement` is the
part of `AddAgreementAuthorizedBy` before the conditions, `EvaluateRequest` one
condition, `SignContract` the locked end. An access collects the current
contracts (`Collect`), tries them (`TryContract`, `EvaluateAccess`) and is
allowed or denied; in between everything may change. `met` stands for the
state that lookups read and changes freely. `signedAt` and the fields `since`,
`template`, `signed` and `held` of an access are history for the properties.
The unit of time is the bump of a signing that falls into the clock reading of
a removal.

Run `cell_contracts` (1 136 280 states): access only after an admission since the last
removal and within the term, all conditions of the template met, re-admission
survives the removal before it. One requester, one condition, a read and a write grant, one
contract, call and access at a time and three clock readings; the theorems
hold for any number.

### SigningReplay

Any number of handlers on one store; a handler validates, consumes and signs
in three steps and reads the clock in the first two. Run `signing_replay`
(1 141 792 states): one use of a nonce while its challenge is valid, every
entry expires, so that a full store refuses for a bounded time, and the store
implements `NonceGuard` (`GuardsNonces`), which forgets a nonce at the instant
its challenge expires. The code forgets at the next `consume`; the mapping takes
the entries that this purge would leave (`Remembered`) as the guarded ones.

### CloudBridge

Every call goes through its critical sections one step at a time. A socket is
the number of its dial; `b.pending` is the set of calls that have an entry,
each under its number. `BridgeBase.request` is three steps, load, store and
load again, because it has no lock: that is the data race between calls.
`raced` remembers that two draws overlapped. A crash of the process (nil
socket, send on a closed sink, double close) is recorded in `panic` and ends
the behaviour. Writing to a socket may fail at any moment; only a socket that
`CloseConnection` closed must fail.

Run `cloud_bridge` (4 477 388 states): own answers only, the lock is never
blocked by a full result channel, nothing is closed twice, one readLoop until
`CloseConnection`, and the loss of a connection reaches every call that waits
on it. One call of each kind and two connections: a reconnect after a loss and
one after `CloseConnection` both happen. Run `bridge_cids` shows that two `Get`
calls at the same time can get each other's answer. Reachable panics (a nil
socket between `Connect` and registration, a sink closed after it was copied)
are listed as hazards.

### Invitation

`InviteLanding` has one store for each landing host and one action for each of
its handlers, which run under `InviteLanding.mu` from their first look at the
store. `Publish` and `Reply` read the clock before they take the mutex
(invite_landing.go:216, :428), and what was in time then is in time for them.
So each is two steps: `CheckPublication` and `Post` note a call that was found
in time in `due` and `posts`, and while it waits the clock goes on and other
calls change the store. Signatures and envelopes are ideal; what is left of the
checks in `interop/verify.go` is time: a ticket is fresh, expired or old (past
the day of grace), and a reply may expire before its ticket. One assumption is
made about the wait: a handler that has read the clock gets the mutex within the
day of grace (`Age`). A status key is the number of the draw that made it.

`Invitation` adds the issuer's cell and the network. Every `invite.*` handler
holds `stateMu` to its end, so a call and what the handler makes of its outcome
are one step; `refreshStatus` and `pullContactRequests` are one step for each
entry of their loop, `publishTicket` one for each base. A call is answered, or
given up: then the landing has served it, never gets it, or serves it later
(`late`, `ServeLate`); the clock may have been read before (`Check`). `lost`, `doubt` and `to` are history: replies handed out
that never came to the inbox, tickets with a publish call given up, and the
landing that stored a reply.

Run `invitation` (596 159 states) checks that the pair implements `TicketLife`
(`LifeCycle`), that a published short link opens its own ticket within the
grace, that the status key fits unless a publish call was given up, that a
stored reply disappears only with the answer that carried it or with its
purged ticket. One
own ticket at two landings, and a ticket of another cell with the same code at
the first; a cell made without a landing whose owner may set both; two replies,
one of which declines and one of which expires early; one reply at a time
(`MaxContactRequests` 1), two publications of a ticket (`MaxDraws`), one late
call (`MaxLate`) and one call before a mutex at a time (`MaxWaiting`). With these a code collision drives
`publishTicket` to its fallback, a late publication meets a later one, a late
collect meets a second, a reply meets a full inbox, and a publication or a reply
is stored after its ticket has expired; the theorems hold for any number.

Choices: `force` may always be passed, so `already_invited` stops nothing; the
`respond` of this repository always names an entity, so a reply that declines
comes from another implementation; nothing in the repository calls
`PurgeExpired`, a host does; the tickets of other cells do not expire within
the model; all hosts read the same clock. Left out: the opening counters, the
rate limiters (they refuse, as the network may), `invite.verify` with the list
of revoked tickets that only it reads, and the list of sent replies.

### ChatCell

Every handler of `write` runs under `stateMu` to its end, so it is one action;
who may call it is the matter of `CellContracts`. A record is a status, a key,
the number of its artifact, whether that has expired, and the acceptance; the
ledger `c.consumed` is a set of uses. Signatures are ideal: an acceptance is an
artifact and the ID its signer drew, and any acceptance of an artifact that was
ever issued may be handed in at any time. `generateArtifacts` signs one target
after the other, in an order of IDs, and gives up at the first error: then
(`generateArtifactsFails`) some targets have new artifacts, one is only
pending again and the rest is untouched. `artifacts`, `out`, `composed` and
`sent` are history.

Run `chat` (294 274 states): the ledger fits the records (`LedgerAgrees`), only
the last artifact of a member admits (`LastArtifactAdmits`), who was declined
or revoked is no member until invited or accepted anew (`RefusedStayOut`), and
the messages are the tail of what was sent (`Transcript`). Two invitees with
two keys, three artifacts each, two acceptance IDs; two callers with two drafts,
and four messages of which two are kept. So an artifact is replaced after it was
used, an ID is used for two artifacts, a signature fails between two others, and
messages of both callers, composed and not, are pushed out in turn. The
membership half and the message half of the module share no variable: every
action reads and changes one of them, and every property is about one of them.
The run therefore moves each half while the other rests (`OneHalfAtATime`); the
theorems, which hold for any number, have no such restriction. Run `chat_rekey` shows that a member invited
again with another key is admitted by the old key's acceptance.

Left out: `audience.mode` and `compose.contentType`, which only shape payloads,
and the setting of the admission conditions, which is
`SetTemplateConditions` of `CellContracts`.

### EntityAnchor

No handler holds a lock for longer than one keypath, so a call is a sequence
of steps between which other calls run. `genesis` and `performGenesis` look at
the seal, then store seal and record; `complete` reads the clock and loads the
used JTIs, iterates over them (`usedApprovalJTIs`), verifies, and stores the
record and the JTI in two more steps; `revoke` loads and stores; `setEntity`
looks at the seal and writes; `batchPersist` writes any keypath but the
seal's, one by one, after a genesis if there was none. A value that a caller
writes is "written": nobody vouches for it. Only the exact keypath of the
genesis record is refused, none above or below it, so every record can be
written.

Approvals are what their issuers signed. `approve` draws a new ID, and the
request's sender, who hands the approval in, cannot change it; but an approval
can be signed outside an anchor (`signElsewhere`) and then has any ID and JTI,
those of another approval and the genesis ID included. A record's key is the
safe form of that ID, whatever is stored there: a completed approval replaces
the record of another one with its ID, a revoked one too, and an approval with
the genesis ID replaces the genesis record. Of `VerifyCompletion` remains who
signed what for whom: request and approval belong together, the approver's key
is another one, the terms are what was asked for, the JTI is new, nothing has
expired, the credential says the same as the approval, and the subject
presents it. Calls that are refused change nothing.

`usedApprovalJTIs` goes through the stored map after the lock is released
(entity_anchor.go:348-350), while another call may store an entry in it. What
the iteration finds is then open ("raced"); that the Go runtime may also stop
the whole process at such a race is left out. In the same way a `revoke` that
has loaded a record may see what a caller writes into it.

Run `anchor` (2 548 716 states): a record, active or revoked, is that of an
approval with its key, by another key than the subject's, whose JTI is used or
about to be (`LinksAreApproved`); a sealed anchor has a record that is not
revoked at the genesis key, which is the genesis record but for a caller's
write or a link whose approval bears the genesis ID (`GenesisHolds`); a JTI
that was stored as used is not accepted again (`CompletesOnce`), except where
its place was taken, by a JTI with the same safe key or by a caller's write,
or where the iteration was raced. `LinksAreApproved` says "another key" since
that is all the code checks; section 4 has what it promises. Two calls at a
time, one request, two approvals by either identity with the genesis ID or
another, and two JTIs with one safe key, which is what `SafeRecordKey` makes of
JTIs that differ in unsafe characters only; two calls are enough for every
pair of handlers to cross, and the theorems hold for any number. Calls and
JTIs are symmetric.

### EntityExtension

Each handler runs under `stateMu`. Requests and approvals that were made are
handed over by people: late, again, to another place or never. An approval also
comes as a form that no place signed (number 0): without a proof, altered, or
signed by an outsider. `acceptApproval` checks the signature only under an
`issuerIdentity` that is handed over with the approval, and that key may be the
outsider's; without one it takes any form that has the hash of its request
(`entity_extension_test.go:195` accepts one with `signatureVerified` false).
`checked` is history: the record was made under a signature checked with the key
of a place. The records of
a place are a set, since their order is one of display; a link ID is the number
of its draw, so that a record which `storeLink` makes is another one than those
it replaces. Only the newest outgoing request of a place is compared with an
approval, as in `acceptApproval`, and `clearPending` makes an older one the
newest again: outgoing requests are numbers, the newest is the largest.

`LinkBook` is the promise: at a place an identity has one active link or none,
a new link takes its place, and one that was revoked or replaced is never
active again. The mapping takes the link of the active record, if there is one,
and the links of the revoked records; `approveRequest` and `acceptApproval` are
its `Link`, `revokeLink` its `Revoke` or, of a revoked record, a stutter.

Run `extension` (685 839 states): a place has at most one active link of an
identity (`OneLiveLink`); an approval that was checked under a place's key is
one that a place made, a record of such an approval, checked or not, is of the
identity that asked, at it or at the approver, and the approver has a record of
that identity from that approval or a later one, while a form that no place
signed makes a record of the place itself only (`BothSidesHold`); revoked
records stay as they are (`RevokedStays`); the cells implement `LinkBook`
(`KeepsBook`). Two places in both roles, two requests, two approvals, three
records: a request is approved twice, a second request overtakes the first, a
form is accepted before and after a genuine approval, a link is revoked between
acceptances. The code accepts an approval again after its link was revoked,
which leaves the revoked record and adds an active one; nothing in the
repository says otherwise, and no property speaks of it.
`approveRequest` signs a request that has not expired; that only the person
decides is not modelled.

### Deadlock

Deadlock is checked in `invitation`, where the owner can always save other
settings, and in `chat`, `anchor` and `extension`, where some handler can
always be called. It is not checked in the other runs: the bounded sets of calls and
connections come to their end, and a Cell or bridge that nobody calls may rest.

## 3. What is proved

All theorems hold for every value of the constants that satisfies the named
assumption of its module (`ChannelAssumption`, `FlowAssumption`,
`SigningAssumption`, `ContractsAssumption`, `BridgeAssumption`,
`LandingAssumption`, `InvitationAssumption`, `ChatAssumption`,
`AnchorAssumption`): bounds and time limits are
naturals, and sets that the code keeps apart are disjoint.

* `ChannelAdmissionProofs`. Type correctness, then an inductive invariant that
  relates each end to the frames: every challenge was issued by the server it
  names, at its endpoint, with that server still holding it or past it; every
  proof with a client's key was made by the connect of its nonce, over the
  transcript that connect keeps; every acknowledgement was sent by the server
  that admitted its digest. Agreement for both ends, no replay, one signature,
  one challenge and authorised commands follow, since nonces and session
  names determine the two ends; the two timing properties are action
  properties of single steps under that invariant. `ChannelRefinement` maps
  every step to one of `ChannelService`. The promise that a connection is signed
  for by one connect only is the hard step: it needs that a challenge names the
  nonce its server keeps. Besides the invariant above it takes `Orderly`: only a
  handling connection has a command, and only an authenticated connect a channel.
* `CellFlowProofs`. The invariant counts: what is in a channel, dropped or
  pending is within the history and pairwise disjoint, a producer's pending
  element is its latest, and a live subscription accounts for all elements.
  Without the link between a producer's current element and the order of its
  earlier ones, per-producer order is not inductive. `Before` does the same
  across producers: what was sent before an element was recorded is older and is
  never sent again.
* `SigningReplayProofs`. An accepted request's nonce is in the store until its
  expiry has passed, and consumption times do not exceed the clock.
  `GuardRefinement`: a consume in the code is a grant over the entries that the
  purge leaves, a refused one changes nothing that is guarded although it
  purges, and a tick drops exactly the entries that expire with it.
* `CellContractsProofs`. Candidates of an access were current when it started,
  hence their conditions are the template's of that moment and their signing
  is no older than `signedAt`; conditions left and held partition them.
* `CloudBridgeProofs`. Every safety property of the module. The invariant ties
  the sections under `b.mu` to what happens between them: a pending call has an
  empty channel, is noted by no readLoop and holds the bridge's socket; a call
  that has registered is pending, noted or answered; numbers in use are
  distinct and at most the counter while no two draws overlapped; a call dials
  only for a bridge without connection, and such a bridge has no socket, hence
  no readLoop, unless it was closed. That last link is what makes one reader
  and one close of `b.ready` inductive.
* `InvitationProofs`. Every property of the run, the refinement included.
  `Effect` says once what serving a call can do to a store and `StoreSteps`
  that a step serves one call, stores one reply, purges or leaves the stores
  alone. The invariant: the records of a landing have distinct codes, and only
  recorded tickets are withdrawn or have replies (`Records`); the record of a
  published entry outlives the grace (`Links`); calls wait for a mutex only
  within the grace of their ticket, and a reply at one landing (`Waits`); no
  landing has a ticket that may still be published for the first time, unless a
  call was given up (`Clean`, from which the keys fit); a ticket without a record
  to which a reply came is past its grace, so that nothing about it waits and it
  cannot be registered again (`Traces`). `SlotSteps` maps
  each step to a step of `TicketLife` for every landing and ticket.
* `ChatCellProofs`. Every safety property of the run. The ledger's agreement is
  inductive only together with two facts about the records: an artifact in a
  record is the last one issued for the member and only records that exist have
  one (`RecordsAreCurrent`, from which `LastArtifactAdmits`), and who is out has
  a refused status (`OutAreRefused`, from which `RefusedStayOut`).
  `Transcript` needs that drafts are composed bodies, each at one caller
  (`DraftsAreOwn`). The membership and the message half are disjoint in their
  variables and proved apart.
* `IdentityLinkProofs`, for `EntityAnchor`, assuming that the genesis ID has a
  key of its own (it ends in a UUID, which `SafeRecordKey` leaves as it is).
  The invariant says what a call between its steps carries: one that completes,
  the link of an approval that met the terms, at the approval's key, and, where
  it found the JTI fresh, a JTI that is not in the store; one that revokes, a
  record that may be at its key, which is not the genesis key (`CallsFit`). A
  record is that of an approval that met the terms and whose JTI is used or
  about to be (`RecordsFit`, from which `LinksAreApproved`), and a used JTI is
  found or displaced (`UsedFit`, from which `CompletesOnce`). Every step is
  shown to move calls, records and used JTIs in one of a few ways (`Moves`),
  and these keep the invariant (`MovesKeep`). Without `CallsFit`, what is
  stored after another call's stores would not be known to be approved.
* `IdentityLinkProofs`, for `EntityExtension`, assuming only that the outsider
  and "no issuer" are no places. Every property of the run, the refinement included. `BothSidesHold` is not
  inductive: that the approver holds a record of an approval must be known
  before the asker accepts it, hence of every approval and not of the records
  only (`ApproverHolds`). It is kept because an acceptance replaces records of
  the place itself (`OwnRequests`: a place asks for itself only) and an approval
  replaces a record by one of a later approval; who approves its own request
  may accept an older approval afterwards, so the invariant is about approvals
  for another. `LinksFit` says whose a record is and where, by which approval
  or by none, and that a checked one has an approval. Refinement:
  `ActiveIs` needs `OneLiveLink` for the choice in the mapping to be the record
  that is revoked.

Only model-checked: the liveness properties (fairness is beyond the prover) and
the violations, which are counterexamples.

## 4. Findings

| run | what it shows |
|---|---|
| `bridge_cids` | overlapping `Get` calls exchange answers, against `TestCloudBridgeConnectsAndCorrelatesResponses` |
| `chat_rekey` | a member invited again with another key is admitted by what the old key signed, against chat.go:16-18 |

More differences between text and code follow from the models without a
run of their own:

* an `admit` is answered about the requester that its payload names
  (bridge.go:157), who need not be the admitted one; README.md:53 says that
  every later command must carry the admitted public key. Every command that
  acts on the Cell does (`ProvidesChannel`).

* an absorbed element keeps its foreign sequence number (general_cell.go:735),
  so the history that holds it fails `ReplayFlow`; README.md:12 promises replay
  checks. `OwnHistoryReplays` is what holds.
* a challenge that expires between the two clock readings of a sign handler is
  signed again (identity_signing_challenge.go:236); README.md:125 says "rejects
  replay". `OneUseWhileValid` is what holds.
* under `automaticWhenConditionsMet` a caller's own Agreement installs a
  contract (general_cell.go:527); README.md:110 says that "caller-supplied
  Agreements cannot install grants". `UnapprovedAreConditional` is what holds.
* identity_link.go:8-12 says that an enrollment takes four pieces, "all checked
  by the Cell that owns the entity", among them an approval "signed by an
  existing key of the entity"; `validateApproval` takes the issuer from the
  envelope (identity_link.go:509) and asks only that its key is not the
  subject's (529), so any other key will do. `LinksAreApproved` is what holds.
* an approval's ID is its signer's, and its record's key: a completed approval
  with the ID "genesis-" and the anchor's UUID replaces the genesis record
  (entity_anchor.go:377), a `Set` of a keypath above or below it writes over it,
  and entity_anchor_test.go:104 expects `genesisKeypathIsImmutable`; an approval
  with the ID of a revoked link makes it active again, and a link whose ID
  begins with "genesis-" cannot be revoked (entity_anchor.go:400).
  `GenesisHolds` is what holds.
* a landing reads the clock before its mutex (invite_landing.go:216, :428), so a
  ticket or a reply may be stored after its end. `LifeCycle` is what holds:
  whatever is stored was found fresh, and nothing is stored after the grace.
* a landing deletes replies before its answer has arrived
  (invite_landing.go:356), so a reply it confirmed (invite_landing.go:479) can
  be lost. `ReplyIsKept` is what holds.

## 5. Not modelled, and the plan

Left out for good: byte-level framing, JSON conversion and canonical encoding,
key generation, command-line drivers, wording of errors. Their results appear
as ideal values.

Left to do, in this order:

1. `Resolver`: registrations, instances by scope and requester, and the
   scaffold's lifecycle states, under concurrent calls;
2. the composition of `ChatCell` with `CellContracts`, so that "revoking an
   invitation ends access at once" (chat.go) becomes one property;
3. `KeyPath`: `GetKeyPath` after `SetKeyPath` as pure operators.
