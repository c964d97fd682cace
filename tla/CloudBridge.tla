----------------------------- MODULE CloudBridge -----------------------------
(***************************************************************************)
(* The client end of a bridge (cloud_bridge.go, and the command numbers of *)
(* BridgeBase in bridge.go): one CloudBridge that many goroutines call,    *)
(* that connects on demand, loses its connection and connects again.       *)
(*                                                                         *)
(* Callers meet in a few critical sections under b.mu and race outside     *)
(* them: Connect dials, SendCommand and Flow write to the socket they saw, *)
(* readLoop hands results to channels and feed elements to sinks, and      *)
(* BridgeBase.request counts without any lock.                             *)
(*                                                                         *)
(* A socket is the number of the dial that gave it, 0 is nil, and readLoop *)
(* g is the one that dial g started.  An entry of b.pending is the call    *)
(* that made it, found under the call's number.  The peer answers what was *)
(* sent to it, late, twice or never, and may be lost at any moment.        *)
(* Requesters have passed validateRequester.  Signing is SigningReplay's.  *)
(***************************************************************************)
EXTENDS Integers, FiniteSets

CONSTANTS
    Senders,        \* SendCommand calls
    Bases,          \* those that BridgeBase.request makes
    Flows,          \* Flow calls
    MaxSockets,     \* bound on successful dials
    Lost            \* the error result of a pending call

ASSUME BridgeAssumption ==
    /\ Bases \subseteq Senders
    /\ Senders \cap Flows = {}
    /\ Lost \notin Senders \cup Flows
    /\ MaxSockets \in Nat

Calls == Senders \cup Flows
Sockets == 1..MaxSockets

PCs == {"idle", "loaded", "stored", "called", "dialing", "polling",
        "connected", "sending", "waiting", "flowing", "closing", "done",
        "failed"}
LoopStates == {"none", "top", "reading", "delivering", "feeding", "done"}
Panics == {"none", "nil socket", "send on closed sink",
           "close of closed sink", "close of closed ready"}

VARIABLES
    authenticate,               \* options.Authenticate
    connecting, connected, sessionReady, readErr, closed,
    readyOpen,                  \* b.ready is not closed yet
    socket, opened, shut,       \* b.socket, dials so far, closed sockets
    cid,                        \* b.base.cid
    pending,                    \* b.pending
    feedCID, feedSinks,         \* b.feedCID, b.feedSinks
    sinkClosed,                 \* sinks that are closed
    pc, loadedCid, mine, sock,  \* a call: step, register, number, socket
    inbox,                      \* what its result channel was sent
    sent,                       \* calls whose command went out
    loop, rsock, note, targets, \* a readLoop: step, socket, frame, sinks
    raced,                      \* two draws of a number overlapped
    panic                       \* what ended the process

session == <<authenticate, connecting, connected, sessionReady, readErr,
             closed, readyOpen, socket, opened, shut>>
feedVars == <<feedCID, feedSinks, sinkClosed>>
callVars == <<pc, loadedCid, mine, sock, inbox, sent>>
loopVars == <<loop, rsock, note, targets>>
vars == <<session, cid, pending, feedVars, callVars, loopVars, raced, panic>>

(* Every variable has its type.                                            *)
TypeOK ==
    /\ authenticate \in BOOLEAN /\ connecting \in BOOLEAN
    /\ connected \in BOOLEAN /\ sessionReady \in BOOLEAN
    /\ readErr \in BOOLEAN /\ closed \in BOOLEAN /\ readyOpen \in BOOLEAN
    /\ opened \in 0..MaxSockets /\ socket \in 0..opened
    /\ shut \subseteq Sockets
    /\ cid \in Nat /\ feedCID \in Nat
    /\ pending \subseteq Senders
    /\ feedSinks \subseteq Flows /\ sinkClosed \subseteq Flows
    /\ pc \in [Calls -> PCs]
    /\ loadedCid \in [Bases -> Nat]
    /\ mine \in [Calls -> Nat]
    /\ sock \in [Calls -> 0..MaxSockets]
    /\ inbox \in [Senders -> SUBSET (Calls \cup {Lost})]
    /\ sent \subseteq Calls
    /\ loop \in [Sockets -> LoopStates]
    /\ rsock \in [Sockets -> 0..MaxSockets]
    /\ note \in [Sockets -> SUBSET (Senders \X Calls)]
    /\ targets \in [Sockets -> SUBSET Flows]
    /\ raced \in BOOLEAN
    /\ panic \in Panics

\* NewCloudBridge.
Init ==
    /\ authenticate \in BOOLEAN
    /\ connecting = FALSE /\ connected = FALSE /\ sessionReady = FALSE
    /\ readErr = FALSE /\ closed = FALSE /\ readyOpen = TRUE
    /\ socket = 0 /\ opened = 0 /\ shut = {}
    /\ cid = 0 /\ pending = {}
    /\ feedCID = 0 /\ feedSinks = {} /\ sinkClosed = {}
    /\ pc = [c \in Calls |-> "idle"]
    /\ loadedCid = [c \in Bases |-> 0]
    /\ mine = [c \in Calls |-> 0]
    /\ sock = [c \in Calls |-> 0]
    /\ inbox = [c \in Senders |-> {}]
    /\ sent = {}
    /\ loop = [g \in Sockets |-> "none"]
    /\ rsock = [g \in Sockets |-> 0]
    /\ note = [g \in Sockets |-> {}]
    /\ targets = [g \in Sockets |-> {}]
    /\ raced = FALSE
    /\ panic = "none"

Running == panic = "none"
Goto(c, step) == pc' = [pc EXCEPT ![c] = step]

-----------------------------------------------------------------------------
(* Command numbers.                                                        *)

\* Some other call is in the middle of BridgeBase's unlocked b.cid++.
Overlap(c) == \E d \in Bases \ {c} : pc[d] \in {"loaded", "stored"}

\* BridgeBase.request: b.cid++ loads and stores, and the command loads again.
LoadCid(c) ==
    /\ Running /\ pc[c] = "idle"
    /\ loadedCid' = [loadedCid EXCEPT ![c] = cid]
    /\ raced' = (raced \/ Overlap(c))
    /\ Goto(c, "loaded")
    /\ UNCHANGED <<session, cid, pending, feedVars, mine, sock, inbox, sent,
                   loopVars, panic>>

StoreCid(c) ==
    /\ Running /\ pc[c] = "loaded"
    /\ cid' = loadedCid[c] + 1
    /\ loadedCid' = [loadedCid EXCEPT ![c] = 0]
    /\ Goto(c, "stored")
    /\ UNCHANGED <<session, pending, feedVars, mine, sock, inbox, sent,
                   loopVars, raced, panic>>

TakeCid(c) ==
    /\ Running /\ pc[c] = "stored"
    /\ mine' = [mine EXCEPT ![c] = cid]
    /\ Goto(c, "called")
    /\ UNCHANGED <<session, cid, pending, feedVars, loadedCid, sock, inbox,
                   sent, loopVars, raced, panic>>

\* SendCommand's own number, for a command that has none, under b.mu.
DrawCid_Unstored(c) ==
    /\ Running /\ pc[c] = "connected" /\ mine[c] = 0
    /\ mine' = [mine EXCEPT ![c] = cid + 1]
    /\ raced' = (raced \/ Overlap(c))
    /\ UNCHANGED <<session, cid, pending, feedVars, pc, loadedCid, sock,
                   inbox, sent, loopVars, panic>>

DrawCid(c) ==
    /\ Running /\ pc[c] = "connected" /\ mine[c] = 0
    /\ cid' = cid + 1
    /\ mine' = [mine EXCEPT ![c] = cid + 1]
    /\ raced' = (raced \/ Overlap(c))
    /\ UNCHANGED <<session, pending, feedVars, pc, loadedCid, sock, inbox,
                   sent, loopVars, panic>>

-----------------------------------------------------------------------------
(* Connect.                                                                *)

ConnectStart(c) ==
    /\ Running
    /\ pc[c] = IF c \in Bases THEN "called" ELSE "idle"
    /\ \/ /\ connected
          /\ Goto(c, "connected") /\ UNCHANGED session
       \/ /\ ~connected /\ connecting
          /\ Goto(c, "polling") /\ UNCHANGED session
       \/ /\ ~connected /\ ~connecting
          /\ connecting' = TRUE /\ readErr' = FALSE
          /\ sessionReady' = FALSE /\ readyOpen' = TRUE
          /\ Goto(c, "dialing")
          /\ UNCHANGED <<authenticate, connected, closed, socket, opened,
                         shut>>
    /\ UNCHANGED <<cid, pending, feedVars, loadedCid, mine, sock, inbox,
                   sent, loopVars, raced, panic>>

\* The dial, and the handshake when asked for, succeeded.
Dialed(c) ==
    /\ Running /\ pc[c] = "dialing" /\ opened < MaxSockets
    /\ connecting' = FALSE /\ connected' = TRUE /\ readErr' = FALSE
    /\ opened' = opened + 1 /\ socket' = opened + 1
    /\ sessionReady' = authenticate
    /\ readyOpen' = (readyOpen /\ ~authenticate)
    /\ panic' = IF authenticate /\ ~readyOpen THEN "close of closed ready"
                                              ELSE panic
    /\ loop' = [loop EXCEPT ![opened + 1] = "top"]
    /\ Goto(c, "connected")
    /\ UNCHANGED <<authenticate, closed, shut, cid, pending, feedVars,
                   loadedCid, mine, sock, inbox, sent, rsock, note, targets,
                   raced>>

DialFails(c) ==
    /\ Running /\ pc[c] = "dialing"
    /\ connecting' = FALSE /\ readErr' = TRUE
    /\ Goto(c, "failed")
    /\ UNCHANGED <<authenticate, connected, sessionReady, closed, readyOpen,
                   socket, opened, shut, cid, pending, feedVars, loadedCid,
                   mine, sock, inbox, sent, loopVars, raced, panic>>

\* Another call dials: wait until that is settled.
Poll(c) ==
    /\ Running /\ pc[c] = "polling"
    /\ connected \/ ~connecting \/ readErr
    /\ Goto(c, IF readErr THEN "failed" ELSE "connected")
    /\ UNCHANGED <<session, cid, pending, feedVars, loadedCid, mine, sock,
                   inbox, sent, loopVars, raced, panic>>

PollCancelled(c) ==
    /\ Running /\ pc[c] = "polling"
    /\ Goto(c, "failed")
    /\ UNCHANGED <<session, cid, pending, feedVars, loadedCid, mine, sock,
                   inbox, sent, loopVars, raced, panic>>

-----------------------------------------------------------------------------
(* SendCommand.                                                            *)

Under(number) == {d \in pending : mine[d] = number}

Register(c) ==
    /\ Running /\ pc[c] = "connected" /\ mine[c] # 0
    /\ IF closed
       THEN Goto(c, "failed") /\ UNCHANGED <<pending, sock>>
       ELSE /\ pending' = (pending \ Under(mine[c])) \cup {c}
            /\ sock' = [sock EXCEPT ![c] = socket]
            /\ Goto(c, "sending")
    /\ UNCHANGED <<session, cid, feedVars, loadedCid, mine, inbox, sent,
                   loopVars, raced, panic>>

\* A nil socket has no writeMu to lock.
SendOnNil(c) ==
    /\ Running /\ pc[c] = "sending" /\ sock[c] = 0
    /\ panic' = "nil socket"
    /\ UNCHANGED <<session, cid, pending, feedVars, callVars, loopVars,
                   raced>>

Send(c) ==
    /\ Running /\ pc[c] = "sending" /\ sock[c] \notin {0} \cup shut
    /\ sent' = sent \cup {c}
    /\ Goto(c, "waiting")
    /\ UNCHANGED <<session, cid, pending, feedVars, loadedCid, mine, sock,
                   inbox, loopVars, raced, panic>>

\* A failed write or the request's timeout: removePending, and an error.
GiveUp(c) ==
    /\ Running
    /\ pc[c] = "waiting" \/ (pc[c] = "sending" /\ sock[c] # 0)
    /\ pending' = pending \ Under(mine[c])
    /\ Goto(c, "failed")
    /\ UNCHANGED <<session, cid, feedVars, loadedCid, mine, sock, inbox,
                   sent, loopVars, raced, panic>>

Returns(c) ==
    /\ Running /\ pc[c] = "waiting" /\ inbox[c] # {}
    /\ Goto(c, IF Lost \in inbox[c] THEN "failed" ELSE "done")
    /\ UNCHANGED <<session, cid, pending, feedVars, loadedCid, mine, sock,
                   inbox, sent, loopVars, raced, panic>>

-----------------------------------------------------------------------------
(* Flow.                                                                   *)

\* A first sink subscribes, the others share its feed.
AddSink(c) ==
    /\ Running /\ pc[c] = "connected"
    /\ feedSinks' = feedSinks \cup {c}
    /\ IF feedCID = 0
       THEN /\ cid' = cid + 1 /\ feedCID' = cid + 1
            /\ mine' = [mine EXCEPT ![c] = cid + 1]
            /\ sock' = [sock EXCEPT ![c] = socket]
            /\ raced' = (raced \/ Overlap(c))
            /\ Goto(c, "sending")
       ELSE /\ Goto(c, "flowing")
            /\ UNCHANGED <<cid, feedCID, mine, sock, raced>>
    /\ UNCHANGED <<session, pending, sinkClosed, loadedCid, inbox, sent,
                   loopVars, panic>>

Subscribe(c) ==
    /\ Running /\ pc[c] = "sending" /\ sock[c] \notin {0} \cup shut
    /\ sent' = sent \cup {c}
    /\ Goto(c, "flowing")
    /\ UNCHANGED <<session, cid, pending, feedVars, loadedCid, mine, sock,
                   inbox, loopVars, raced, panic>>

\* removeFeedSink, when the write fails or the context is done: the sink is
\* taken out under the lock and closed after it.
RemoveSink(c) ==
    /\ Running
    /\ pc[c] = "flowing" \/ (pc[c] = "sending" /\ sock[c] # 0)
    /\ feedSinks' = feedSinks \ {c}
    /\ feedCID' = IF feedSinks \subseteq {c} THEN 0 ELSE feedCID
    /\ Goto(c, IF c \in feedSinks THEN "closing" ELSE "failed")
    /\ UNCHANGED <<session, cid, pending, sinkClosed, loadedCid, mine, sock,
                   inbox, sent, loopVars, raced, panic>>

CloseSink(c) ==
    /\ Running /\ pc[c] = "closing"
    /\ sinkClosed' = sinkClosed \cup {c}
    /\ panic' = IF c \in sinkClosed THEN "close of closed sink" ELSE panic
    /\ Goto(c, "failed")
    /\ UNCHANGED <<session, cid, pending, feedCID, feedSinks, loadedCid,
                   mine, sock, inbox, sent, loopVars, raced>>

-----------------------------------------------------------------------------
(* The end of a connection.                                                *)

\* failPendingLocked and closeFeedSinksLocked.
LetGo_KeepsSinks ==
    /\ pending' = {}
    /\ inbox' = [c \in Senders |->
                   IF c \in pending THEN inbox[c] \cup {Lost} ELSE inbox[c]]
    /\ UNCHANGED <<feedSinks, feedCID>>
    /\ sinkClosed' = sinkClosed \cup feedSinks
    /\ panic' = IF feedSinks \cap sinkClosed # {} THEN "close of closed sink"
                                                  ELSE panic

LetGo_KeepsPending ==
    /\ UNCHANGED <<pending, inbox>>
    /\ feedSinks' = {} /\ feedCID' = 0
    /\ sinkClosed' = sinkClosed \cup feedSinks
    /\ panic' = IF feedSinks \cap sinkClosed # {} THEN "close of closed sink"
                                                  ELSE panic

LetGo ==
    /\ pending' = {}
    /\ inbox' = [c \in Senders |->
                   IF c \in pending THEN inbox[c] \cup {Lost} ELSE inbox[c]]
    /\ feedSinks' = {} /\ feedCID' = 0
    /\ sinkClosed' = sinkClosed \cup feedSinks
    /\ panic' = IF feedSinks \cap sinkClosed # {} THEN "close of closed sink"
                                                  ELSE panic

\* CloseConnection acts once in the life of a bridge.
CloseConnection ==
    /\ Running /\ ~closed
    /\ closed' = TRUE
    /\ socket' = 0 /\ connected' = FALSE /\ sessionReady' = FALSE
    /\ shut' = shut \cup ({socket} \ {0})
    /\ LetGo
    /\ UNCHANGED <<authenticate, connecting, readErr, readyOpen, opened, cid,
                   pc, loadedCid, mine, sock, sent, loopVars, raced>>

-----------------------------------------------------------------------------
(* readLoop.                                                               *)

\* A readLoop knows its socket only while it reads.
Step(g, step) == /\ loop' = [loop EXCEPT ![g] = step]
                 /\ rsock' = [rsock EXCEPT ![g] = 0]

ReadNext(g) ==
    /\ Running /\ loop[g] = "top"
    /\ loop' = [loop EXCEPT ![g] = IF socket = 0 THEN "done" ELSE "reading"]
    /\ rsock' = [rsock EXCEPT ![g] = socket]
    /\ UNCHANGED <<session, cid, pending, feedVars, callVars, note, targets,
                   raced, panic>>

\* handleReadError, whichever socket is the bridge's by now.
ReadFails_GoesOn(g) ==
    /\ Running /\ loop[g] = "reading"
    /\ readErr' = TRUE /\ connected' = FALSE /\ sessionReady' = FALSE
    /\ socket' = 0
    /\ LetGo
    /\ Step(g, "top")
    /\ UNCHANGED <<authenticate, connecting, closed, readyOpen, opened, shut,
                   cid, pc, loadedCid, mine, sock, sent, note, targets,
                   raced>>

ReadFails(g) ==
    /\ Running /\ loop[g] = "reading"
    /\ readErr' = TRUE /\ connected' = FALSE /\ sessionReady' = FALSE
    /\ socket' = 0
    /\ LetGo
    /\ Step(g, "done")
    /\ UNCHANGED <<authenticate, connecting, closed, readyOpen, opened, shut,
                   cid, pc, loadedCid, mine, sock, sent, note, targets,
                   raced>>

\* A frame can only come from a socket that was not closed here.
Reading(g) == Running /\ loop[g] = "reading" /\ rsock[g] \notin shut

\* markReady.
MarkReady(g) ==
    /\ Reading(g)
    /\ LET marks == connected /\ ~sessionReady IN
         /\ sessionReady' = (sessionReady \/ marks)
         /\ readyOpen' = (readyOpen /\ ~marks)
         /\ panic' = IF marks /\ ~readyOpen THEN "close of closed ready"
                                            ELSE panic
    /\ Step(g, "top")
    /\ UNCHANGED <<authenticate, connecting, connected, readErr, closed,
                   socket, opened, shut, cid, pending, feedVars, callVars,
                   note, targets, raced>>

\* A frame that the bridge only answers (sign, an unsupported command) or
\* cannot read.
ReadOther(g) ==
    /\ Reading(g)
    /\ Step(g, "top")
    /\ UNCHANGED <<session, cid, pending, feedVars, callVars, note,
                   targets, raced, panic>>

\* The peer's answer to call r: handleIncoming takes the pending entry of its
\* number, if there is one, and sends after the unlock.
Correlate_KeepsEntry(g, r) ==
    /\ note' = [note EXCEPT ![g] = {<<d, r>> : d \in Under(mine[r])}]
    /\ UNCHANGED pending
    /\ Step(g, IF Under(mine[r]) = {} THEN "top" ELSE "delivering")

Correlate(g, r) ==
    /\ note' = [note EXCEPT ![g] = {<<d, r>> : d \in Under(mine[r])}]
    /\ pending' = pending \ Under(mine[r])
    /\ Step(g, IF Under(mine[r]) = {} THEN "top" ELSE "delivering")

ReadResponse(g, r) ==
    /\ Reading(g)
    /\ r \in sent /\ sock[r] = rsock[g]
    /\ Correlate(g, r)
    /\ UNCHANGED <<session, cid, feedVars, callVars, targets, raced,
                   panic>>

Deliver(g) ==
    /\ Running /\ loop[g] = "delivering"
    /\ \E n \in note[g] : inbox' = [inbox EXCEPT ![n[1]] = @ \cup {n[2]}]
    /\ note' = [note EXCEPT ![g] = {}]
    /\ Step(g, "top")
    /\ UNCHANGED <<session, cid, pending, feedVars, pc, loadedCid, mine,
                   sock, sent, targets, raced, panic>>

\* An element of the feed that f subscribed to: handleFeedResponse copies the
\* sinks, or leaves it to handleIncoming when that feed is not the current.
ReadFeed(g, f) ==
    /\ Reading(g)
    /\ f \in sent /\ sock[f] = rsock[g]
    /\ IF mine[f] = feedCID
       THEN /\ targets' = [targets EXCEPT ![g] = feedSinks]
            /\ Step(g, "feeding")
            /\ UNCHANGED <<pending, note>>
       ELSE Correlate(g, f) /\ UNCHANGED targets
    /\ UNCHANGED <<session, cid, feedVars, callVars, raced, panic>>

\* One sink of the copy; a full one loses the element.
Feed(g, f) ==
    /\ Running /\ loop[g] = "feeding" /\ f \in targets[g]
    /\ targets' = [targets EXCEPT ![g] = @ \ {f}]
    /\ panic' = IF f \in sinkClosed THEN "send on closed sink" ELSE panic
    /\ UNCHANGED <<session, cid, pending, feedVars, callVars, loop, rsock,
                   note, raced>>

Fed(g) ==
    /\ Running /\ loop[g] = "feeding" /\ targets[g] = {}
    /\ Step(g, "top")
    /\ UNCHANGED <<session, cid, pending, feedVars, callVars, note,
                   targets, raced, panic>>

-----------------------------------------------------------------------------
ConnectNext(c) ==
    ConnectStart(c) \/ Dialed(c) \/ DialFails(c) \/ Poll(c)
    \/ PollCancelled(c)

SenderNext(c) ==
    \/ ConnectNext(c) \/ DrawCid(c) \/ Register(c)
    \/ SendOnNil(c) \/ Send(c) \/ GiveUp(c) \/ Returns(c)

FlowNext(c) ==
    \/ ConnectNext(c) \/ AddSink(c)
    \/ SendOnNil(c) \/ Subscribe(c) \/ RemoveSink(c) \/ CloseSink(c)

LoopNext(g) ==
    \/ ReadNext(g) \/ ReadFails(g) \/ MarkReady(g) \/ ReadOther(g)
    \/ Deliver(g) \/ Fed(g)
    \/ \E r \in Senders : ReadResponse(g, r)
    \/ \E f \in Flows : ReadFeed(g, f) \/ Feed(g, f)

Next ==
    \/ \E c \in Bases : LoadCid(c) \/ StoreCid(c) \/ TakeCid(c)
    \/ \E c \in Senders : SenderNext(c)
    \/ \E c \in Flows : FlowNext(c)
    \/ \E g \in Sockets : LoopNext(g)
    \/ CloseConnection

Spec == Init /\ [][Next]_vars

-----------------------------------------------------------------------------
(* A call gets the answer to its own command or an error, however late or  *)
(* often the peer answers, across timeouts and reconnects, unless two      *)
(* draws of a command number overlapped.                                   *)
OwnAnswer == raced \/ \A c \in Senders : inbox[c] \subseteq {c, Lost}

(* failPendingLocked sends while it holds b.mu, to channels with room for  *)
(* one result: a call that is still pending was sent nothing and no        *)
(* readLoop is about to send to it, so the send never blocks the bridge.   *)
LockNeverBlocks ==
    \A c \in pending : /\ inbox[c] = {}
                       /\ \A g \in Sockets, r \in Calls : <<c, r>> \notin note[g]

(* Reconnects and late "ready" frames never close b.ready twice, and no    *)
(* sink is closed by both removeFeedSink and the end of its connection.    *)
ClosesOnce ==
    panic \notin {"close of closed sink", "close of closed ready"}

Alive(g) == loop[g] \notin {"none", "done"}

(* Until CloseConnection at most one readLoop is at work, however often    *)
(* the bridge reconnects, and it is the one of the bridge's socket: frames *)
(* are handled one at a time and in order.                                 *)
OneReader ==
    ~closed => \A g \in Sockets : Alive(g) => socket = g

(* A call that waits for an answer on a socket the bridge has let go of    *)
(* has its result or is about to be handed it, whatever came between its   *)
(* registration and the loss: it never waits for its timeout, unless two   *)
(* draws of a command number overlapped.                                   *)
LossIsNoticed ==
    raced \/ \A c \in Senders :
      pc[c] = "waiting" /\ socket # sock[c] =>
        inbox[c] # {} \/ \E g \in Sockets, r \in Calls : <<c, r>> \in note[g]

-----------------------------------------------------------------------------
(* TestCloudBridgeConnectsAndCorrelatesResponses, cloud_bridge_test.go:22: *)
(* what a call returns is the response to its own command.                 *)
CorrelatesResponses ==
    \A c \in Senders : pc[c] = "done" => inbox[c] = {c}
=============================================================================
