-------------------------- MODULE CloudBridgeProofs --------------------------
(***************************************************************************)
(* Theorems about CloudBridge, for any sets of calls and any number of     *)
(* connections.                                                            *)
(***************************************************************************)
EXTENDS CloudBridge, TLAPS

\* Steps of a call before its critical section.
Before == {"idle", "loaded", "stored", "called", "dialing", "polling",
           "connected"}

\* Some readLoop is about to hand a result to c.
Noted(c) == \E g \in Sockets, r \in Calls : <<c, r>> \in note[g]

(* A pending call is registered under its own number, for the bridge's     *)
(* socket, and was sent nothing; one that has registered is pending, has   *)
(* its result or is about to get it.                                       *)
Pendings ==
    /\ \A c \in pending :
         /\ pc[c] \in {"sending", "waiting"}
         /\ inbox[c] = {} /\ ~Noted(c)
         /\ sock[c] # 0 => sock[c] = socket
    /\ \A c, d \in pending : mine[c] = mine[d] => c = d
    /\ closed => pending = {}
    /\ \A c \in Senders :
         /\ pc[c] \in Before => inbox[c] = {} /\ ~Noted(c)
         /\ pc[c] = "waiting" => sock[c] # 0
         /\ pc[c] \in {"sending", "waiting"} =>
              raced \/ c \in pending \/ inbox[c] # {} \/ Noted(c)

(* Results, in a channel or on their way, carry the number of the call     *)
(* they go to, and a readLoop carries one at a time.                       *)
Results ==
    /\ \A g \in Sockets :
         /\ loop[g] # "delivering" => note[g] = {}
         /\ \A n \in note[g] : note[g] = {n}
    /\ \A g \in Sockets, c \in Senders, r \in Calls :
         <<c, r>> \in note[g] => mine[r] = mine[c] /\ mine[c] # 0
    /\ \A c \in Senders, r \in Calls :
         r \in inbox[c] => mine[r] = mine[c] /\ mine[c] # 0

(* When a call has a number, and when two have the same.                   *)
Numbers ==
    /\ \A c \in Calls :
         /\ pc[c] \in {"idle", "loaded", "stored"} => mine[c] = 0
         /\ c \in Flows /\ pc[c] \in Before => mine[c] = 0
         /\ pc[c] \in {"sending", "waiting"} \/ c \in sent => mine[c] # 0
    /\ \A c \in Calls \ Bases : pc[c] \notin {"loaded", "stored"}
    /\ \/ raced
       \/ /\ \A c, d \in Calls : mine[c] = mine[d] /\ mine[c] # 0 => c = d
          /\ \A c \in Calls : mine[c] <= cid
          /\ \A c \in Bases : pc[c] \in {"loaded", "stored"} => ~Overlap(c)
          /\ \A c \in Bases :
               /\ pc[c] = "loaded" => loadedCid[c] = cid
               /\ pc[c] = "stored" => \A d \in Calls : mine[d] < cid

(* One call dials at a time, for a bridge without connection; b.ready is   *)
(* open until the session is ready.                                        *)
Session ==
    /\ \A c, d \in Calls : pc[c] = "dialing" /\ pc[d] = "dialing" => c = d
    /\ \A c \in Calls : pc[c] = "dialing" => connecting
    /\ connecting => ~connected /\ readyOpen
    /\ connected => readyOpen = ~sessionReady

(* A sink is closed by whoever takes it out of the bridge.                 *)
Sinks ==
    /\ \A f \in feedSinks : f \notin sinkClosed
                            /\ pc[f] \in {"sending", "flowing"}
    /\ \A f \in Flows :
         /\ pc[f] = "closing" => f \notin feedSinks \cup sinkClosed
         /\ pc[f] \in Before => f \notin sinkClosed

(* The readLoops, while the bridge is not closed.                          *)
Readers ==
    /\ OneReader
    /\ \A g \in Sockets : g > opened => loop[g] = "none"
    /\ ~closed /\ ~connected => socket = 0

IInv == /\ TypeOK /\ Pendings /\ Results /\ Numbers
        /\ Session /\ Sinks /\ Readers /\ ClosesOnce

-----------------------------------------------------------------------------
(* NewCloudBridge: nothing is pending, read or subscribed to.              *)
LEMMA InitIInv == Init => IInv
<1> SUFFICES ASSUME Init PROVE IInv
  OBVIOUS
<1> USE BridgeAssumption DEF Init, Calls, Sockets
<1>1. TypeOK
  <2>1. opened \in 0..MaxSockets /\ socket \in 0..opened
    OBVIOUS
  <2>2. /\ pc \in [Calls -> PCs] /\ loadedCid \in [Bases -> Nat]
        /\ mine \in [Calls -> Nat] /\ sock \in [Calls -> 0..MaxSockets]
        /\ inbox \in [Senders -> SUBSET (Calls \cup {Lost})]
    BY DEF PCs
  <2>3. /\ loop \in [Sockets -> LoopStates]
        /\ rsock \in [Sockets -> 0..MaxSockets]
        /\ note \in [Sockets -> SUBSET (Senders \X Calls)]
        /\ targets \in [Sockets -> SUBSET Flows]
    BY DEF LoopStates
  <2> QED
    BY <2>1, <2>2, <2>3 DEF TypeOK, Panics
<1>2. Pendings /\ Results
  BY DEF Pendings, Results, Noted
<1>3. Numbers /\ Sinks
  BY DEF Numbers, Sinks, Before, Overlap
<1>4. Session /\ Readers /\ ClosesOnce
  BY DEF Session, Readers, OneReader, Alive, ClosesOnce
<1> QED
  BY <1>1, <1>2, <1>3, <1>4 DEF IInv

(* The end of a connection keeps the types of what it settles.             *)
LEMMA LetGoType ==
  ASSUME TypeOK, LetGo
  PROVE  /\ pending' \subseteq Senders
         /\ inbox' \in [Senders -> SUBSET (Calls \cup {Lost})]
         /\ feedSinks' \subseteq Flows /\ feedCID' \in Nat
         /\ sinkClosed' \subseteq Flows /\ panic' \in Panics
<1>1. ASSUME NEW c \in Senders PROVE inbox'[c] \subseteq Calls \cup {Lost}
  BY DEF LetGo, TypeOK
<1>2. inbox' \in [Senders -> SUBSET (Calls \cup {Lost})]
  BY <1>1 DEF LetGo
<1> QED
  BY <1>2 DEF LetGo, TypeOK, Panics

(* An answer keeps the types of the notes and the pending calls.           *)
LEMMA CorrelateType ==
  ASSUME TypeOK, NEW g \in Sockets, NEW r \in Calls, Correlate(g, r)
  PROVE  /\ pending' \subseteq Senders
         /\ note' \in [Sockets -> SUBSET (Senders \X Calls)]
         /\ loop' \in [Sockets -> LoopStates]
         /\ rsock' \in [Sockets -> 0..MaxSockets]
<1>1. {<<d, r>> : d \in Under(mine[r])} \subseteq Senders \X Calls
  BY DEF TypeOK, Under
<1> QED
  BY <1>1, BridgeAssumption DEF Correlate, Step, TypeOK, LoopStates, Under

(* Every step keeps every variable in its type.                            *)
LEMMA TypeStep == ASSUME TypeOK, [Next]_vars PROVE TypeOK'
<1> USE BridgeAssumption DEF TypeOK, Calls, Goto, session, feedVars,
      callVars, loopVars
<1>0. ASSUME NEW c \in Bases, LoadCid(c) PROVE TypeOK'
  BY <1>0 DEF LoadCid, Overlap, PCs
<1>1. ASSUME NEW c \in Bases, StoreCid(c) \/ TakeCid(c) PROVE TypeOK'
  BY <1>1 DEF StoreCid, TakeCid, PCs
<1>2. ASSUME NEW c \in Calls, ConnectStart(c) PROVE TypeOK'
  BY <1>2 DEF ConnectStart, PCs
<1>3. ASSUME NEW c \in Calls, Dialed(c) PROVE TypeOK'
  <2>0. opened < MaxSockets /\ opened \in 0..MaxSockets
    BY <1>3 DEF Dialed
  <2>1. opened + 1 \in 1..MaxSockets /\ opened \in Nat
    BY <2>0
  <2>2. loop' \in [Sockets -> LoopStates] /\ pc' \in [Calls -> PCs]
    BY <1>3, <2>1 DEF Dialed, Sockets, LoopStates, PCs
  <2>3. opened' = opened + 1 /\ socket' = opened + 1
    BY <1>3 DEF Dialed
  <2>4. opened' \in 0..MaxSockets /\ socket' \in 0..opened'
    BY <2>1, <2>3
  <2>5. panic' \in Panics
    BY <1>3 DEF Dialed, Panics
  <2> QED
    BY <1>3, <2>2, <2>4, <2>5 DEF Dialed
<1>4. ASSUME NEW c \in Calls, DialFails(c) \/ Poll(c) \/ PollCancelled(c)
      PROVE  TypeOK'
  <2>1. CASE DialFails(c)
    BY <2>1 DEF DialFails, PCs
  <2>2. CASE Poll(c)
    BY <2>2 DEF Poll, PCs
  <2>3. CASE PollCancelled(c)
    BY <2>3 DEF PollCancelled, PCs
  <2> QED
    BY <1>4, <2>1, <2>2, <2>3
<1>5. ASSUME NEW c \in Calls, SendOnNil(c) PROVE TypeOK'
  BY <1>5 DEF SendOnNil, Panics
<1>6. ASSUME NEW c \in Senders, DrawCid(c) PROVE TypeOK'
  BY <1>6 DEF DrawCid
<1>7. ASSUME NEW c \in Senders, Register(c) PROVE TypeOK'
  <2>1. socket \in 0..MaxSockets
    OBVIOUS
  <2>2. /\ pending' \subseteq Senders /\ pc' \in [Calls -> PCs]
        /\ sock' \in [Calls -> 0..MaxSockets]
    BY <1>7, <2>1 DEF Register, PCs
  <2> QED
    BY <1>7, <2>2 DEF Register
<1>8. ASSUME NEW c \in Senders, Send(c) \/ GiveUp(c) \/ Returns(c)
      PROVE  TypeOK'
  BY <1>8 DEF Send, GiveUp, Returns, PCs
<1>9. ASSUME NEW c \in Flows, AddSink(c) PROVE TypeOK'
  <2>0. raced' \in BOOLEAN
    BY <1>9, Zenon DEF AddSink, Overlap
  <2>1. socket \in 0..MaxSockets
    OBVIOUS
  <2>2. /\ feedSinks' \subseteq Flows /\ pc' \in [Calls -> PCs]
        /\ cid' \in Nat /\ feedCID' \in Nat
        /\ mine' \in [Calls -> Nat] /\ sock' \in [Calls -> 0..MaxSockets]
    BY <1>9, <2>1 DEF AddSink, PCs
  <2> QED
    BY <1>9, <2>0, <2>2 DEF AddSink
<1>10. ASSUME NEW c \in Flows, Subscribe(c) \/ RemoveSink(c) \/ CloseSink(c)
       PROVE  TypeOK'
  <2>1. CASE Subscribe(c)
    BY <2>1 DEF Subscribe, PCs
  <2>2. CASE RemoveSink(c)
    BY <2>2 DEF RemoveSink, PCs
  <2>3. CASE CloseSink(c)
    BY <2>3 DEF CloseSink, PCs, Panics
  <2> QED
    BY <1>10, <2>1, <2>2, <2>3
<1>11. ASSUME NEW g \in Sockets, ReadNext(g) \/ ReadOther(g) \/ Fed(g)
       PROVE  TypeOK'
  BY <1>11 DEF ReadNext, ReadOther, Fed, Step, LoopStates
<1>12. ASSUME NEW g \in Sockets, ReadFails(g) PROVE TypeOK'
  <2>1. LetGo
    BY <1>12 DEF ReadFails
  <2>2. /\ loop' \in [Sockets -> LoopStates]
        /\ rsock' \in [Sockets -> 0..MaxSockets]
    BY <1>12 DEF ReadFails, Step, LoopStates
  <2>3. socket' \in 0..opened'
    BY <1>12 DEF ReadFails
  <2> QED
    BY <1>12, <2>1, <2>2, <2>3, LetGoType DEF ReadFails
<1>13. ASSUME NEW g \in Sockets, MarkReady(g) PROVE TypeOK'
  <2>1. /\ loop' \in [Sockets -> LoopStates]
        /\ rsock' \in [Sockets -> 0..MaxSockets]
    <3>1. Step(g, "top")
      BY <1>13 DEF MarkReady
    <3> QED
      BY <3>1 DEF Step, LoopStates
  <2>2. /\ sessionReady' \in BOOLEAN /\ readyOpen' \in BOOLEAN
        /\ panic' \in Panics
    BY <1>13 DEF MarkReady, Panics
  <2> QED
    BY <1>13, <2>1, <2>2 DEF MarkReady
<1>14. ASSUME NEW g \in Sockets, Deliver(g) PROVE TypeOK'
  BY <1>14 DEF Deliver, Step, LoopStates
<1>15. ASSUME NEW g \in Sockets, NEW r \in Senders, ReadResponse(g, r)
       PROVE  TypeOK'
  BY <1>15, CorrelateType DEF ReadResponse
<1>16. ASSUME NEW g \in Sockets, NEW f \in Flows, ReadFeed(g, f)
       PROVE  TypeOK'
  <2>1. CASE Correlate(g, f) /\ UNCHANGED targets
    BY <1>16, <2>1, CorrelateType DEF ReadFeed
  <2>2. CASE /\ targets' = [targets EXCEPT ![g] = feedSinks]
             /\ Step(g, "feeding") /\ UNCHANGED <<pending, note>>
    BY <1>16, <2>2 DEF ReadFeed, Step, LoopStates
  <2> QED
    BY <1>16, <2>1, <2>2 DEF ReadFeed
<1>17. ASSUME NEW g \in Sockets, NEW f \in Flows, Feed(g, f) PROVE TypeOK'
  BY <1>17 DEF Feed, Panics
<1>18. CASE CloseConnection
  <2>1. LetGo
    BY <1>18 DEF CloseConnection
  <2>2. shut' \subseteq Sockets /\ socket' \in 0..opened'
    BY <1>18 DEF CloseConnection, Sockets
  <2> QED
    BY <1>18, <2>1, <2>2, LetGoType DEF CloseConnection
<1>19. CASE UNCHANGED vars
  BY <1>19 DEF vars
<1> QED
  BY <1>0, <1>1, <1>2, <1>3, <1>4, <1>5, <1>6, <1>7, <1>8, <1>9, <1>10,
     <1>11, <1>12, <1>13, <1>14, <1>15, <1>16, <1>17, <1>18, <1>19
     DEF Next, SenderNext, FlowNext, LoopNext, ConnectNext

(* The session's flags: one dial at a time, and b.ready.                   *)
LEMMA SessionStep == ASSUME IInv, [Next]_vars PROVE Session'
<1> USE BridgeAssumption DEF IInv, TypeOK, Session, Calls, Goto
<1>1. ASSUME NEW c \in Bases, LoadCid(c) \/ StoreCid(c) \/ TakeCid(c)
      PROVE  Session'
  BY <1>1 DEF LoadCid, StoreCid, TakeCid, session
<1>2. ASSUME NEW c \in Calls, ConnectStart(c) PROVE Session'
  BY <1>2 DEF ConnectStart, session
<1>3. ASSUME NEW c \in Calls, Dialed(c) PROVE Session'
  BY <1>3 DEF Dialed
<1>4. ASSUME NEW c \in Calls, DialFails(c) PROVE Session'
  BY <1>4 DEF DialFails
<1>5. ASSUME NEW c \in Calls, Poll(c) \/ PollCancelled(c) \/ SendOnNil(c)
      PROVE  Session'
  <2>1. CASE Poll(c) \/ PollCancelled(c)
    BY <2>1 DEF Poll, PollCancelled, session
  <2>2. CASE SendOnNil(c)
    BY <2>2 DEF SendOnNil, session, callVars
  <2> QED
    BY <1>5, <2>1, <2>2
<1>6. ASSUME NEW c \in Senders,
             DrawCid(c) \/ Register(c) \/ Send(c) \/ GiveUp(c) \/ Returns(c)
      PROVE  Session'
  BY <1>6 DEF DrawCid, Register, Send, GiveUp, Returns, session
<1>7. ASSUME NEW c \in Flows,
             AddSink(c) \/ Subscribe(c) \/ RemoveSink(c) \/ CloseSink(c)
      PROVE  Session'
  <2>1. CASE AddSink(c)
    BY <2>1 DEF AddSink, session
  <2>2. CASE Subscribe(c) \/ RemoveSink(c) \/ CloseSink(c)
    <3>1. /\ UNCHANGED session
          /\ \E step \in {"flowing", "closing", "failed"} : Goto(c, step)
      BY <2>2 DEF Subscribe, RemoveSink, CloseSink
    <3> QED
      BY <3>1 DEF session
  <2> QED
    BY <1>7, <2>1, <2>2
<1>8. ASSUME NEW g \in Sockets, ReadFails(g) PROVE Session'
  BY <1>8 DEF ReadFails
<1>9. ASSUME NEW g \in Sockets, MarkReady(g) PROVE Session'
  BY <1>9 DEF MarkReady, callVars
<1>10. ASSUME NEW g \in Sockets,
              ReadNext(g) \/ ReadOther(g) \/ Deliver(g) \/ Fed(g)
       PROVE  Session'
  BY <1>10 DEF ReadNext, ReadOther, Deliver, Fed, session, callVars
<1>11. ASSUME NEW g \in Sockets, NEW r \in Calls,
              ReadResponse(g, r) \/ ReadFeed(g, r) \/ Feed(g, r)
       PROVE  Session'
  <2>1. UNCHANGED <<session, pc>>
    BY <1>11 DEF ReadResponse, ReadFeed, Feed, callVars
  <2> QED
    BY <2>1 DEF session
<1>12. CASE CloseConnection
  BY <1>12 DEF CloseConnection
<1>13. CASE UNCHANGED vars
  BY <1>13 DEF vars, session, callVars
<1> QED
  BY <1>1, <1>2, <1>3, <1>4, <1>5, <1>6, <1>7, <1>8, <1>9, <1>10, <1>11,
     <1>12, <1>13 DEF Next, SenderNext, FlowNext, LoopNext, ConnectNext

(* The sinks: whoever takes one out of the bridge closes it.               *)
LEMMA SinksStep == ASSUME IInv, [Next]_vars PROVE Sinks'
<1> USE BridgeAssumption DEF IInv, TypeOK, Sinks, Before, Calls, Goto
<1>1. ASSUME NEW c \in Bases, LoadCid(c) \/ StoreCid(c) \/ TakeCid(c)
      PROVE  Sinks'
  BY <1>1 DEF LoadCid, StoreCid, TakeCid, feedVars
<1>2. ASSUME NEW c \in Calls, ConnectStart(c) \/ Dialed(c) \/ DialFails(c)
      PROVE  Sinks'
  BY <1>2 DEF ConnectStart, Dialed, DialFails, feedVars
<1>3. ASSUME NEW c \in Calls, Poll(c) \/ PollCancelled(c) \/ SendOnNil(c)
      PROVE  Sinks'
  BY <1>3 DEF Poll, PollCancelled, SendOnNil, feedVars, callVars
<1>4. ASSUME NEW c \in Senders,
             DrawCid(c) \/ Register(c) \/ Send(c) \/ GiveUp(c) \/ Returns(c)
      PROVE  Sinks'
  BY <1>4 DEF DrawCid, Register, Send, GiveUp, Returns, feedVars
<1>5. ASSUME NEW c \in Flows, AddSink(c) PROVE Sinks'
  BY <1>5 DEF AddSink
<1>6. ASSUME NEW c \in Flows, Subscribe(c) PROVE Sinks'
  BY <1>6 DEF Subscribe, feedVars
<1>7. ASSUME NEW c \in Flows, RemoveSink(c) PROVE Sinks'
  BY <1>7 DEF RemoveSink
<1>8. ASSUME NEW c \in Flows, CloseSink(c) PROVE Sinks'
  BY <1>8 DEF CloseSink
<1>9. ASSUME NEW g \in Sockets, ReadFails(g) PROVE Sinks'
  BY <1>9 DEF ReadFails, LetGo
<1>10. ASSUME NEW g \in Sockets,
              \/ ReadNext(g) \/ MarkReady(g) \/ ReadOther(g)
              \/ Deliver(g) \/ Fed(g)
       PROVE  Sinks'
  BY <1>10 DEF ReadNext, MarkReady, ReadOther, Deliver, Fed, feedVars,
               callVars
<1>11. ASSUME NEW g \in Sockets, NEW r \in Calls,
              ReadResponse(g, r) \/ ReadFeed(g, r) \/ Feed(g, r)
       PROVE  Sinks'
  BY <1>11 DEF ReadResponse, ReadFeed, Feed, feedVars, callVars
<1>12. CASE CloseConnection
  BY <1>12 DEF CloseConnection, LetGo
<1>13. CASE UNCHANGED vars
  BY <1>13 DEF vars, feedVars, callVars
<1> QED
  BY <1>1, <1>2, <1>3, <1>4, <1>5, <1>6, <1>7, <1>8, <1>9, <1>10, <1>11,
     <1>12, <1>13 DEF Next, SenderNext, FlowNext, LoopNext, ConnectNext

(* The panics of a second close.                                           *)
LEMMA ClosesOnceStep == ASSUME IInv, [Next]_vars PROVE ClosesOnce'
<1> USE DEF IInv, ClosesOnce
<1>1. ASSUME NEW c \in Bases, LoadCid(c) \/ StoreCid(c) \/ TakeCid(c)
      PROVE  ClosesOnce'
  BY <1>1 DEF LoadCid, StoreCid, TakeCid
<1>2. ASSUME NEW c \in Calls, Dialed(c) PROVE ClosesOnce'
  BY <1>2 DEF Dialed, Session
<1>3. ASSUME NEW c \in Calls,
             \/ ConnectStart(c) \/ DialFails(c) \/ Poll(c)
             \/ PollCancelled(c) \/ SendOnNil(c)
      PROVE  ClosesOnce'
  BY <1>3 DEF ConnectStart, DialFails, Poll, PollCancelled, SendOnNil
<1>4. ASSUME NEW c \in Senders,
             DrawCid(c) \/ Register(c) \/ Send(c) \/ GiveUp(c) \/ Returns(c)
      PROVE  ClosesOnce'
  BY <1>4 DEF DrawCid, Register, Send, GiveUp, Returns
<1>5. ASSUME NEW c \in Flows, AddSink(c) \/ Subscribe(c) \/ RemoveSink(c)
      PROVE  ClosesOnce'
  BY <1>5 DEF AddSink, Subscribe, RemoveSink
<1>6. ASSUME NEW c \in Flows, CloseSink(c) PROVE ClosesOnce'
  BY <1>6 DEF CloseSink, Sinks
<1>7. ASSUME NEW g \in Sockets, ReadFails(g) PROVE ClosesOnce'
  BY <1>7 DEF ReadFails, LetGo, Sinks
<1>8. ASSUME NEW g \in Sockets, MarkReady(g) PROVE ClosesOnce'
  BY <1>8 DEF MarkReady, Session
<1>9. ASSUME NEW g \in Sockets,
             ReadNext(g) \/ ReadOther(g) \/ Deliver(g) \/ Fed(g)
      PROVE  ClosesOnce'
  BY <1>9 DEF ReadNext, ReadOther, Deliver, Fed
<1>10. ASSUME NEW g \in Sockets, NEW r \in Calls,
              ReadResponse(g, r) \/ ReadFeed(g, r) \/ Feed(g, r)
       PROVE  ClosesOnce'
  BY <1>10 DEF ReadResponse, ReadFeed, Feed
<1>11. CASE CloseConnection
  BY <1>11 DEF CloseConnection, LetGo, Sinks
<1>12. CASE UNCHANGED vars
  BY <1>12 DEF vars
<1> QED
  BY <1>1, <1>2, <1>3, <1>4, <1>5, <1>6, <1>7, <1>8, <1>9, <1>10, <1>11,
     <1>12 DEF Next, SenderNext, FlowNext, LoopNext, ConnectNext, Calls

(* The readLoops: a dial starts one only when none is left.                *)
LEMMA ReadersStep == ASSUME IInv, [Next]_vars PROVE Readers'
<1> USE BridgeAssumption DEF IInv, TypeOK, Readers, OneReader, Alive, Calls
<1>1. ASSUME NEW c \in Bases, LoadCid(c) \/ StoreCid(c) \/ TakeCid(c)
      PROVE  Readers'
  BY <1>1 DEF LoadCid, StoreCid, TakeCid, session, loopVars
<1>2. ASSUME NEW c \in Calls, ConnectStart(c) PROVE Readers'
  BY <1>2 DEF ConnectStart, session, loopVars
<1>3. ASSUME NEW c \in Calls, Dialed(c) PROVE Readers'
  <2>1. connecting /\ ~connected
    BY <1>3 DEF Dialed, Session
  <2>2. opened \in Nat
    OBVIOUS
  <2>3. opened' = opened + 1 /\ socket' = opened + 1 /\ connected'
        /\ closed' = closed
        /\ loop' = [loop EXCEPT ![opened + 1] = "top"]
    BY <1>3 DEF Dialed
  <2>4. ~closed => \A g \in Sockets : ~Alive(g)
    BY <2>1 DEF Sockets
  <2>5. OneReader'
    BY <2>3, <2>4
  <2>6. \A g \in Sockets : g > opened' => loop'[g] = "none"
    BY <2>2, <2>3 DEF Sockets
  <2> QED
    BY <2>3, <2>5, <2>6
<1>4. ASSUME NEW c \in Calls, DialFails(c) PROVE Readers'
  BY <1>4 DEF DialFails, loopVars
<1>5. ASSUME NEW c \in Calls, Poll(c) \/ PollCancelled(c) \/ SendOnNil(c)
      PROVE  Readers'
  BY <1>5 DEF Poll, PollCancelled, SendOnNil, session, loopVars
<1>6. ASSUME NEW c \in Senders,
             DrawCid(c) \/ Register(c) \/ Send(c) \/ GiveUp(c) \/ Returns(c)
      PROVE  Readers'
  BY <1>6 DEF DrawCid, Register, Send, GiveUp, Returns, session, loopVars
<1>7. ASSUME NEW c \in Flows,
             AddSink(c) \/ Subscribe(c) \/ RemoveSink(c) \/ CloseSink(c)
      PROVE  Readers'
  BY <1>7 DEF AddSink, Subscribe, RemoveSink, CloseSink, session, loopVars
<1>8. ASSUME NEW g \in Sockets, ReadFails(g) PROVE Readers'
  BY <1>8 DEF ReadFails, Step
<1>9. ASSUME NEW g \in Sockets, ReadNext(g) PROVE Readers'
  BY <1>9 DEF ReadNext, session
<1>10. ASSUME NEW g \in Sockets,
              MarkReady(g) \/ ReadOther(g) \/ Deliver(g) \/ Fed(g)
       PROVE  Readers'
  <2>1. UNCHANGED <<connected, closed, socket, opened>>
        /\ loop[g] \notin {"none", "done"} /\ Step(g, "top")
    BY <1>10 DEF MarkReady, ReadOther, Deliver, Fed, Reading, session
  <2> QED
    BY <2>1 DEF Step
<1>11. ASSUME NEW g \in Sockets, NEW r \in Calls,
              ReadResponse(g, r) \/ ReadFeed(g, r) \/ Feed(g, r)
       PROVE  Readers'
  <2>1. UNCHANGED <<connected, closed, socket, opened>>
        /\ loop[g] \notin {"none", "done"}
    BY <1>11 DEF ReadResponse, ReadFeed, Feed, Reading, session
  <2>2. UNCHANGED loop \/ \E step \in LoopStates : Step(g, step)
    BY <1>11 DEF ReadResponse, ReadFeed, Feed, Correlate, LoopStates
  <2> QED
    BY <2>1, <2>2 DEF Step
<1>12. CASE CloseConnection
  BY <1>12 DEF CloseConnection, loopVars
<1>13. CASE UNCHANGED vars
  BY <1>13 DEF vars, session, loopVars
<1> QED
  BY <1>1, <1>2, <1>3, <1>4, <1>5, <1>6, <1>7, <1>8, <1>9, <1>10, <1>11,
     <1>12, <1>13 DEF Next, SenderNext, FlowNext, LoopNext, ConnectNext

(* A number drawn in one step, under b.mu, by a call that had none.        *)
LEMMA DrawnNumber ==
  ASSUME IInv, NEW c \in Calls, pc[c] = "connected", mine[c] = 0,
         cid' = cid + 1, mine' = [mine EXCEPT ![c] = cid + 1],
         raced' = (raced \/ Overlap(c)),
         UNCHANGED <<loadedCid, sent>>,
         \/ c \in Senders /\ pc' = pc
         \/ c \in Flows /\ pc' = [pc EXCEPT ![c] = "sending"]
  PROVE  Numbers'
<1> USE BridgeAssumption DEF IInv, TypeOK, Numbers, Before, Calls
<1>1. cid \in Nat /\ mine'[c] = cid + 1 /\ mine'[c] # 0
      /\ \A d \in Calls \ {c} : mine'[d] = mine[d]
  OBVIOUS
<1>2. \A d \in Calls \ {c} : pc'[d] = pc[d]
  OBVIOUS
<1>3. \/ c \notin Flows /\ pc'[c] = "connected"
      \/ pc'[c] = "sending"
  OBVIOUS
<1>4. \A d \in Calls :
        /\ pc'[d] \in {"idle", "loaded", "stored"} => mine'[d] = 0
        /\ d \in Flows /\ pc'[d] \in Before => mine'[d] = 0
        /\ pc'[d] \in {"sending", "waiting"} \/ d \in sent' => mine'[d] # 0
  BY <1>1, <1>2, <1>3
<1>5. \A d \in Calls \ Bases : pc'[d] \notin {"loaded", "stored"}
  BY <1>2, <1>3
<1>6. ASSUME ~raced'
      PROVE  /\ \A d, e \in Calls :
                  mine'[d] = mine'[e] /\ mine'[d] # 0 => d = e
             /\ \A d \in Calls : mine'[d] <= cid'
             /\ \A d \in Bases : pc'[d] \notin {"loaded", "stored"}
  <2>1. ~raced /\ \A d \in Bases : pc[d] \notin {"loaded", "stored"}
    BY <1>6 DEF Overlap
  <2>2. \A d \in Calls : mine[d] \in Nat /\ mine[d] <= cid
    BY <2>1
  <2>3. \A d, e \in Calls : mine[d] = mine[e] /\ mine[d] # 0 => d = e
    BY <2>1
  <2>4. \A d \in Bases : pc'[d] \notin {"loaded", "stored"}
    BY <2>1, <1>2, <1>3
  <2> QED
    BY <2>2, <2>3, <2>4, <1>1
<1> QED
  BY <1>4, <1>5, <1>6

(* The numbers of commands.                                                *)
LEMMA NumbersStep == ASSUME IInv, [Next]_vars PROVE Numbers'
<1> USE BridgeAssumption DEF IInv, TypeOK, Numbers, Before, Calls, Goto
<1>1. ASSUME NEW c \in Bases, LoadCid(c) PROVE Numbers'
  BY <1>1 DEF LoadCid, Overlap
<1>2. ASSUME NEW c \in Bases, StoreCid(c) PROVE Numbers'
  BY <1>2 DEF StoreCid, Overlap
<1>3. ASSUME NEW c \in Bases, TakeCid(c) PROVE Numbers'
  BY <1>3 DEF TakeCid, Overlap
<1>4. ASSUME NEW c \in Calls,
             \/ ConnectStart(c) \/ Dialed(c) \/ DialFails(c) \/ Poll(c)
             \/ PollCancelled(c)
      PROVE  Numbers'
  <2>1. UNCHANGED <<cid, loadedCid, mine, sent, raced>>
        /\ pc[c] \in {"idle", "called", "dialing", "polling"}
        /\ \E step \in {"dialing", "polling", "connected", "failed"} :
             Goto(c, step)
    BY <1>4 DEF ConnectStart, Dialed, DialFails, Poll, PollCancelled
  <2> QED
    BY <2>1 DEF Overlap
<1>5. ASSUME NEW c \in Calls, SendOnNil(c) PROVE Numbers'
  BY <1>5 DEF SendOnNil, callVars, Overlap
<1>6. ASSUME NEW c \in Senders, DrawCid(c) PROVE Numbers'
  BY <1>6, DrawnNumber DEF DrawCid
<1>7. ASSUME NEW c \in Senders, Register(c) PROVE Numbers'
  BY <1>7 DEF Register, Overlap
<1>8. ASSUME NEW c \in Senders, Send(c) \/ GiveUp(c) \/ Returns(c)
      PROVE  Numbers'
  BY <1>8 DEF Send, GiveUp, Returns, Overlap
<1>9. ASSUME NEW c \in Flows, AddSink(c) PROVE Numbers'
  <2>1. CASE feedCID = 0
    BY <1>9, <2>1, DrawnNumber DEF AddSink
  <2>2. CASE feedCID # 0
    BY <1>9, <2>2 DEF AddSink, Overlap
  <2> QED
    BY <2>1, <2>2
<1>10. ASSUME NEW c \in Flows, Subscribe(c) \/ RemoveSink(c) \/ CloseSink(c)
       PROVE  Numbers'
  <2>1. CASE Subscribe(c)
    BY <2>1 DEF Subscribe, Overlap
  <2>2. CASE RemoveSink(c)
    BY <2>2 DEF RemoveSink, Overlap
  <2>3. CASE CloseSink(c)
    BY <2>3 DEF CloseSink, Overlap
  <2> QED
    BY <1>10, <2>1, <2>2, <2>3
<1>11. ASSUME UNCHANGED <<cid, pc, loadedCid, mine, sent, raced>>
       PROVE  Numbers'
  BY <1>11 DEF Overlap
<1>12. ASSUME NEW g \in Sockets, LoopNext(g)
       PROVE  UNCHANGED <<cid, pc, loadedCid, mine, sent, raced>>
  BY <1>12 DEF LoopNext, ReadNext, ReadFails, MarkReady, ReadOther, Deliver,
       Fed, ReadResponse, ReadFeed, Feed, callVars
<1>13. ASSUME CloseConnection \/ UNCHANGED vars
       PROVE  UNCHANGED <<cid, pc, loadedCid, mine, sent, raced>>
  BY <1>13 DEF CloseConnection, vars, callVars
<1> QED
  BY <1>1, <1>2, <1>3, <1>4, <1>5, <1>6, <1>7, <1>8, <1>9, <1>10, <1>11,
     <1>12, <1>13 DEF Next, SenderNext, FlowNext, ConnectNext

(* What is on its way to a call, for a step that leaves the notes alone.   *)
LEMMA NotedSame ==
  ASSUME note' = note PROVE \A c \in Senders : Noted(c)' <=> Noted(c)
BY DEF Noted

(* An answer makes a note of the pending call that has its number, if any. *)
LEMMA CorrelateNotes ==
  ASSUME IInv, NEW g \in Sockets, NEW r \in Calls, loop[g] # "delivering",
         Correlate(g, r)
  PROVE  /\ \A h \in Sockets \ {g} : note'[h] = note[h] /\ loop'[h] = loop[h]
         /\ \A d \in Senders, e \in Calls :
              <<d, e>> \in note'[g] <=> d \in Under(mine[r]) /\ e = r
         /\ \A d \in Senders :
              Noted(d)' <=> Noted(d) \/ d \in Under(mine[r])
<1>1. note[g] = {}
  BY DEF IInv, Results
<1>2. \A h \in Sockets \ {g} : note'[h] = note[h] /\ loop'[h] = loop[h]
  BY DEF Correlate, Step, IInv, TypeOK
<1>3. note'[g] = {<<d, r>> : d \in Under(mine[r])}
  BY DEF Correlate, IInv, TypeOK
<1>4. \A d, e : <<d, e>> \in note'[g] <=> d \in Under(mine[r]) /\ e = r
  BY <1>3
<1>5. \A d \in Senders : Noted(d)' <=> Noted(d) \/ d \in Under(mine[r])
  BY <1>1, <1>2, <1>4 DEF Noted
<1> QED
  BY <1>2, <1>4, <1>5

(* A delivery moves one note into the channel of its call.                 *)
LEMMA DeliverMoves ==
  ASSUME IInv, NEW g \in Sockets, Deliver(g)
  PROVE  \E d \in Senders, r \in Calls :
           /\ note[g] = {<<d, r>>} /\ note'[g] = {} /\ Noted(d)
           /\ inbox'[d] = inbox[d] \cup {r}
           /\ \A c \in Senders \ {d} : inbox'[c] = inbox[c]
           /\ \A h \in Sockets \ {g} : note'[h] = note[h]
           /\ \A c \in Senders : Noted(c)' => Noted(c)
           /\ \A c \in Senders \ {d} : Noted(c) => Noted(c)'
<1> USE DEF IInv, TypeOK, Deliver
<1>1. PICK n \in note[g] : inbox' = [inbox EXCEPT ![n[1]] = @ \cup {n[2]}]
  OBVIOUS
<1>2. n \in Senders \X Calls /\ note[g] = {n}
  BY <1>1 DEF Results
<1>3. PICK d \in Senders, r \in Calls : n = <<d, r>>
  BY <1>2
<1>4. inbox'[d] = inbox[d] \cup {r}
      /\ \A c \in Senders \ {d} : inbox'[c] = inbox[c]
  BY <1>1, <1>3
<1>5. note'[g] = {} /\ \A h \in Sockets \ {g} : note'[h] = note[h]
  OBVIOUS
<1>6. Noted(d)
  BY <1>2, <1>3 DEF Noted
<1>7. \A c \in Senders : Noted(c)' => Noted(c)
  BY <1>5 DEF Noted
<1>8. ASSUME NEW c \in Senders \ {d}, Noted(c) PROVE Noted(c)'
  <2>1. PICK h \in Sockets, e \in Calls : <<c, e>> \in note[h]
    BY <1>8 DEF Noted
  <2>2. h # g
    BY <1>2, <1>3, <1>8, <2>1
  <2> QED
    BY <1>5, <2>1, <2>2 DEF Noted
<1> QED
  BY <1>2, <1>3, <1>4, <1>5, <1>6, <1>7, <1>8

(* A call that takes its number has no result yet and is nobody's answer.  *)
LEMMA NumberedResults ==
  ASSUME IInv, NEW c \in Calls, pc[c] \in Before, mine[c] = 0,
         \E n \in Nat : mine' = [mine EXCEPT ![c] = n],
         UNCHANGED <<loop, note, inbox>>
  PROVE  Results'
<1> USE DEF IInv, TypeOK
<1>1. \A d \in Calls \ {c} : mine'[d] = mine[d]
  OBVIOUS
<1>2. ASSUME NEW g \in Sockets, NEW d \in Senders, NEW r \in Calls,
             <<d, r>> \in note[g]
      PROVE  mine'[r] = mine'[d] /\ mine'[d] # 0
  <2>1. mine[r] = mine[d] /\ mine[d] # 0
    BY <1>2 DEF Results
  <2> QED
    BY <1>1, <2>1 DEF Calls
<1>3. ASSUME NEW d \in Senders, NEW r \in Calls, r \in inbox[d]
      PROVE  mine'[r] = mine'[d] /\ mine'[d] # 0
  <2>1. mine[r] = mine[d] /\ mine[d] # 0
    BY <1>3 DEF Results
  <2> QED
    BY <1>1, <2>1 DEF Calls
<1> QED
  BY <1>2, <1>3 DEF Results

(* An answer carries the number of the call it is noted for.               *)
LEMMA CorrelateResults ==
  ASSUME IInv, NEW g \in Sockets, NEW r \in Calls, r \in sent,
         loop[g] # "delivering", Correlate(g, r), UNCHANGED <<mine, inbox>>
  PROVE  Results'
<1> USE DEF IInv, TypeOK
<1>0. mine[r] # 0
  BY DEF Numbers
<1>1. /\ \A h \in Sockets \ {g} : note'[h] = note[h] /\ loop'[h] = loop[h]
      /\ \A d \in Senders, e \in Calls :
           <<d, e>> \in note'[g] <=> d \in Under(mine[r]) /\ e = r
  BY CorrelateNotes
<1>2. note'[g] = {<<d, r>> : d \in Under(mine[r])}
  BY DEF Correlate
<1>3. \A d, e \in Under(mine[r]) : d = e
  BY DEF Under, Pendings
<1>4. \A n \in note'[g] : note'[g] = {n}
  BY <1>2, <1>3
<1>5. loop'[g] # "delivering" => note'[g] = {}
  BY <1>2 DEF Correlate, Step
<1>6. ASSUME NEW d \in Senders, NEW e \in Calls, <<d, e>> \in note'[g]
      PROVE  mine[e] = mine[d] /\ mine[d] # 0
  BY <1>0, <1>1, <1>6 DEF Under
<1> QED
  BY <1>1, <1>4, <1>5, <1>6 DEF Results

(* Results keep the number of the call they go to.                         *)
LEMMA ResultsStep == ASSUME IInv, [Next]_vars PROVE Results'
<1> USE DEF IInv
<1>1. ASSUME NEW c \in Bases, TakeCid(c) PROVE Results'
  BY <1>1, NumberedResults, BridgeAssumption
     DEF TakeCid, TypeOK, Calls, Before, Numbers, loopVars
<1>2. ASSUME NEW c \in Senders, DrawCid(c) PROVE Results'
  <2>1. c \in Calls /\ cid + 1 \in Nat
    BY DEF TypeOK, Calls
  <2> QED
    BY <1>2, <2>1, NumberedResults DEF DrawCid, Before, loopVars
<1>3. ASSUME NEW c \in Flows, AddSink(c) PROVE Results'
  <2>1. pc[c] \in Before /\ mine[c] = 0 /\ c \in Calls
    BY <1>3 DEF AddSink, Numbers, Before, Calls
  <2>2. \E n \in Nat : mine' = [mine EXCEPT ![c] = n]
    BY <1>3, <2>1 DEF AddSink, TypeOK
  <2> QED
    BY <1>3, <2>1, <2>2, NumberedResults DEF AddSink, loopVars
<1>4. ASSUME NEW c \in Calls, Dialed(c) PROVE Results'
  <2>1. \A g \in Sockets : loop'[g] = loop[g] \/ loop[g] = "none"
    <3>1. opened \in Nat
      BY BridgeAssumption DEF TypeOK
    <3>2. loop' = [loop EXCEPT ![opened + 1] = "top"]
      BY <1>4 DEF Dialed
    <3>3. \A g \in Sockets : g = opened + 1 => loop[g] = "none"
      BY <3>1 DEF Readers, Sockets
    <3> QED
      BY <3>2, <3>3 DEF TypeOK
  <2>2. UNCHANGED <<note, mine, inbox>>
    BY <1>4 DEF Dialed
  <2> QED
    BY <2>1, <2>2 DEF Results
<1>5. ASSUME NEW g \in Sockets, ReadNext(g) \/ ReadOther(g) \/ MarkReady(g)
                                \/ Fed(g)
      PROVE  Results'
  <2>1. /\ UNCHANGED <<note, mine, inbox>> /\ loop[g] # "delivering"
        /\ \E step \in LoopStates : loop' = [loop EXCEPT ![g] = step]
    BY <1>5 DEF ReadNext, ReadOther, MarkReady, Fed, Step, Reading,
                LoopStates, callVars
  <2> QED
    BY <2>1 DEF Results, TypeOK
<1>6. ASSUME LetGo, UNCHANGED <<note, mine>>,
             \/ UNCHANGED loop
             \/ \E g \in Sockets :
                  /\ loop[g] = "reading"
                  /\ loop' = [loop EXCEPT ![g] = "done"]
      PROVE  Results'
  <2>1. \A g \in Sockets : loop'[g] = loop[g] \/ loop[g] = "reading"
    BY <1>6 DEF TypeOK
  <2>2. \A c \in Senders, r \in Calls : r \in inbox'[c] => r \in inbox[c]
    BY <1>6, BridgeAssumption DEF LetGo, Calls
  <2> QED
    BY <1>6, <2>1, <2>2 DEF Results
<1>7. ASSUME NEW g \in Sockets, ReadFails(g) PROVE Results'
  BY <1>6, <1>7 DEF ReadFails, Step
<1>8. ASSUME NEW g \in Sockets, Deliver(g) PROVE Results'
  <2>1. PICK d \in Senders, r \in Calls :
          /\ note[g] = {<<d, r>>} /\ note'[g] = {}
          /\ inbox'[d] = inbox[d] \cup {r}
          /\ \A c \in Senders \ {d} : inbox'[c] = inbox[c]
          /\ \A h \in Sockets \ {g} : note'[h] = note[h]
    BY <1>8, DeliverMoves
  <2>2. \A h \in Sockets \ {g} : loop'[h] = loop[h]
    BY <1>8 DEF Deliver, Step, TypeOK
  <2>3. mine' = mine
    BY <1>8 DEF Deliver
  <2>4. mine[r] = mine[d] /\ mine[d] # 0
    BY <2>1 DEF Results
  <2> QED
    BY <2>1, <2>2, <2>3, <2>4 DEF Results
<1>9. ASSUME NEW g \in Sockets, NEW r \in Senders, ReadResponse(g, r)
      PROVE  Results'
  BY <1>9, CorrelateResults DEF ReadResponse, Reading, Calls, callVars
<1>10. ASSUME NEW g \in Sockets, NEW f \in Flows, ReadFeed(g, f)
       PROVE  Results'
  <2>1. /\ f \in sent /\ loop[g] = "reading" /\ f \in Calls
        /\ UNCHANGED <<mine, inbox>>
    BY <1>10 DEF ReadFeed, Reading, Calls, callVars
  <2>2. CASE Correlate(g, f)
    BY <2>1, <2>2, CorrelateResults
  <2>3. CASE Step(g, "feeding") /\ UNCHANGED note
    BY <2>1, <2>3 DEF Step, Results, TypeOK
  <2> QED
    BY <1>10, <2>2, <2>3 DEF ReadFeed
<1>11. CASE CloseConnection
  BY <1>6, <1>11 DEF CloseConnection, loopVars
<1>12. ASSUME UNCHANGED <<loop, note, mine, inbox>> PROVE Results'
  BY <1>12 DEF Results
<1>13. ASSUME NEW c \in Calls,
             \/ LoadCid(c) \/ StoreCid(c) \/ ConnectStart(c) \/ DialFails(c)
             \/ Poll(c) \/ PollCancelled(c) \/ SendOnNil(c)
             \/ Register(c) \/ Send(c) \/ GiveUp(c) \/ Returns(c)
             \/ Subscribe(c) \/ RemoveSink(c) \/ CloseSink(c)
       PROVE  UNCHANGED <<loop, note, mine, inbox>>
  BY <1>13 DEF LoadCid, StoreCid, ConnectStart, DialFails, Poll,
       PollCancelled, SendOnNil, Register, Send, GiveUp, Returns, Subscribe,
       RemoveSink, CloseSink, loopVars, callVars
<1>14. ASSUME NEW g \in Sockets, NEW f \in Flows, Feed(g, f)
       PROVE  UNCHANGED <<loop, note, mine, inbox>>
  BY <1>14 DEF Feed, callVars
<1>15. CASE UNCHANGED vars
  BY <1>12, <1>15 DEF vars, loopVars, callVars
<1> QED
  BY <1>1, <1>2, <1>3, <1>4, <1>5, <1>7, <1>8, <1>9, <1>10, <1>11, <1>12,
     <1>13, <1>14, <1>15, BridgeAssumption
     DEF Next, SenderNext, FlowNext, LoopNext, ConnectNext, Calls

(* A step of a call that has not registered, or of a Flow call, changes    *)
(* nothing for the calls that wait.                                        *)
LEMMA QuietPendings ==
  ASSUME IInv, NEW c \in Calls,
         UNCHANGED <<pending, inbox, note, closed>>, raced => raced',
         c \in Senders => /\ pc[c] \in Before
                          /\ pc'[c] \in Before \cup {"failed"},
         \A d \in Senders :
           /\ sock'[d] = sock[d]
           /\ d # c => mine'[d] = mine[d] /\ pc'[d] = pc[d],
         socket' = socket \/ socket = 0 \/ pending = {}
  PROVE  Pendings'
<1> USE DEF IInv, TypeOK, Pendings
<1>1. \A d \in Senders : Noted(d)' <=> Noted(d)
  BY NotedSame
<1>2. c \notin pending
  BY DEF Before
<1>3. \A d \in pending : /\ d \in Senders /\ pc'[d] = pc[d]
                         /\ mine'[d] = mine[d] /\ sock'[d] = sock[d]
  BY <1>2
<1>4. \A d \in pending : /\ pc'[d] \in {"sending", "waiting"}
                         /\ inbox'[d] = {} /\ ~Noted(d)'
                         /\ sock'[d] # 0 => sock'[d] = socket'
  BY <1>1, <1>3
<1>5. \A d, e \in pending : mine'[d] = mine'[e] => d = e
  BY <1>3
<1>6. ASSUME NEW d \in Senders
      PROVE  /\ pc'[d] \in Before => inbox'[d] = {} /\ ~Noted(d)'
             /\ pc'[d] = "waiting" => sock'[d] # 0
             /\ pc'[d] \in {"sending", "waiting"} =>
                  raced' \/ d \in pending' \/ inbox'[d] # {} \/ Noted(d)'
  <2>1. CASE d = c
    BY <1>1, <2>1 DEF Before
  <2>2. CASE d # c
    BY <1>1, <2>2
  <2> QED
    BY <2>1, <2>2
<1> QED
  BY <1>4, <1>5, <1>6

(* SendCommand registers under its number: an entry it replaces has the    *)
(* same number, which takes an overlap of two draws.                       *)
LEMMA RegisterPendings ==
  ASSUME IInv, NEW c \in Senders, Register(c), ~closed PROVE Pendings'
<1> USE BridgeAssumption DEF IInv, TypeOK, Calls
<1>1. /\ pending' = (pending \ Under(mine[c])) \cup {c}
      /\ sock'[c] = socket /\ pc'[c] = "sending"
      /\ UNCHANGED <<socket, closed, inbox, note, mine, raced>>
      /\ pc[c] = "connected" /\ mine[c] # 0
  BY DEF Register, Goto, session, loopVars
<1>2. \A d \in Senders \ {c} : sock'[d] = sock[d] /\ pc'[d] = pc[d]
  BY DEF Register, Goto
<1>3. \A d \in Senders : Noted(d)' <=> Noted(d)
  BY <1>1, NotedSame
<1>4. inbox[c] = {} /\ ~Noted(c)
  BY <1>1 DEF Pendings, Before
<1>5. \A d \in pending' : /\ pc'[d] \in {"sending", "waiting"}
                          /\ inbox'[d] = {} /\ ~Noted(d)'
                          /\ sock'[d] # 0 => sock'[d] = socket'
  BY <1>1, <1>2, <1>3, <1>4 DEF Pendings
<1>6. \A d, e \in pending' : mine'[d] = mine'[e] => d = e
  BY <1>1 DEF Pendings, Under
<1>7. ASSUME NEW d \in Senders, d # c, pc[d] \in {"sending", "waiting"}
      PROVE  raced' \/ d \in pending' \/ inbox'[d] # {} \/ Noted(d)'
  <2>1. raced \/ mine[d] # mine[c]
    BY <1>1, <1>7 DEF Numbers
  <2> QED
    BY <1>1, <1>3, <1>7, <2>1 DEF Pendings, Under
<1>8. ASSUME NEW d \in Senders
      PROVE  /\ pc'[d] \in Before => inbox'[d] = {} /\ ~Noted(d)'
             /\ pc'[d] = "waiting" => sock'[d] # 0
             /\ pc'[d] \in {"sending", "waiting"} =>
                  raced' \/ d \in pending' \/ inbox'[d] # {} \/ Noted(d)'
  <2>1. CASE d = c
    BY <1>1, <2>1 DEF Before
  <2>2. CASE d # c
    BY <1>1, <1>2, <1>3, <1>7, <2>2 DEF Pendings
  <2> QED
    BY <2>1, <2>2
<1> QED
  BY <1>1, <1>5, <1>6, <1>8 DEF Pendings

(* A call that gives up takes the entry of its number away: its own,       *)
(* unless two draws overlapped.                                            *)
LEMMA GiveUpPendings ==
  ASSUME IInv, NEW c \in Senders, GiveUp(c) PROVE Pendings'
<1> USE BridgeAssumption DEF IInv, TypeOK, Calls
<1>1. /\ pending' = pending \ Under(mine[c]) /\ pc'[c] = "failed"
      /\ UNCHANGED <<socket, sock, closed, inbox, note, mine, raced>>
      /\ pc[c] \in {"sending", "waiting"}
  BY DEF GiveUp, Goto, session, loopVars
<1>2. \A d \in Senders \ {c} : pc'[d] = pc[d]
  BY DEF GiveUp, Goto
<1>3. \A d \in Senders : Noted(d)' <=> Noted(d)
  BY <1>1, NotedSame
<1>4. c \notin pending'
  BY <1>1 DEF Under
<1>5. \A d \in pending' : /\ pc'[d] \in {"sending", "waiting"}
                          /\ inbox'[d] = {} /\ ~Noted(d)'
                          /\ sock'[d] # 0 => sock'[d] = socket'
  BY <1>1, <1>2, <1>3, <1>4 DEF Pendings
<1>6. ASSUME NEW d \in Senders, d # c, pc[d] \in {"sending", "waiting"}
      PROVE  raced' \/ d \in pending' \/ inbox'[d] # {} \/ Noted(d)'
  <2>1. raced \/ mine[d] # mine[c]
    BY <1>1, <1>6 DEF Numbers
  <2> QED
    BY <1>1, <1>3, <1>6, <2>1 DEF Pendings, Under
<1>7. ASSUME NEW d \in Senders
      PROVE  /\ pc'[d] \in Before => inbox'[d] = {} /\ ~Noted(d)'
             /\ pc'[d] = "waiting" => sock'[d] # 0
             /\ pc'[d] \in {"sending", "waiting"} =>
                  raced' \/ d \in pending' \/ inbox'[d] # {} \/ Noted(d)'
  <2>1. CASE d = c
    BY <1>1, <2>1 DEF Before
  <2>2. CASE d # c
    BY <1>1, <1>2, <1>3, <1>6, <2>2 DEF Pendings
  <2> QED
    BY <2>1, <2>2
<1> QED
  BY <1>1, <1>5, <1>7 DEF Pendings

(* A call that sends or returns.                                           *)
LEMMA SendPendings ==
  ASSUME IInv, NEW c \in Senders, Send(c) \/ Returns(c) PROVE Pendings'
<1> USE BridgeAssumption DEF IInv, TypeOK, Calls, Pendings
<1>1. /\ UNCHANGED <<socket, sock, closed, pending, inbox, note, mine, raced>>
      /\ pc[c] \in {"sending", "waiting"}
      /\ \/ pc'[c] = "waiting" /\ sock[c] # 0
         \/ pc'[c] \in {"failed", "done"} /\ inbox[c] # {}
  BY DEF Send, Returns, Goto, session, loopVars
<1>2. \A d \in Senders \ {c} : pc'[d] = pc[d]
  BY DEF Send, Returns, Goto
<1>3. \A d \in Senders : Noted(d)' <=> Noted(d)
  BY <1>1, NotedSame
<1>4. \A d \in pending : pc'[d] \in {"sending", "waiting"}
  BY <1>1, <1>2
<1>5. ASSUME NEW d \in Senders
      PROVE  /\ pc'[d] \in Before => inbox'[d] = {} /\ ~Noted(d)'
             /\ pc'[d] = "waiting" => sock'[d] # 0
             /\ pc'[d] \in {"sending", "waiting"} =>
                  raced' \/ d \in pending' \/ inbox'[d] # {} \/ Noted(d)'
  <2>1. CASE d = c
    BY <1>1, <1>3, <2>1 DEF Before
  <2>2. CASE d # c
    BY <1>1, <1>2, <1>3, <2>2
  <2> QED
    BY <2>1, <2>2
<1>6. \A d \in pending' : /\ pc'[d] \in {"sending", "waiting"}
                          /\ inbox'[d] = {} /\ ~Noted(d)'
                          /\ sock'[d] # 0 => sock'[d] = socket'
  BY <1>1, <1>3, <1>4
<1> QED
  BY <1>1, <1>5, <1>6

(* The end of a connection settles every pending call.                     *)
LEMMA LetGoPendings ==
  ASSUME IInv, LetGo, UNCHANGED <<pc, mine, sock, note, raced>>
  PROVE  Pendings'
<1> USE DEF IInv, TypeOK, Pendings
<1>1. pending' = {}
      /\ \A c \in Senders : inbox'[c] = IF c \in pending
                                        THEN inbox[c] \cup {Lost} ELSE inbox[c]
  BY DEF LetGo
<1>2. \A c \in Senders : Noted(c)' <=> Noted(c)
  BY NotedSame
<1>3. ASSUME NEW c \in Senders
      PROVE  /\ pc'[c] \in Before => inbox'[c] = {} /\ ~Noted(c)'
             /\ pc'[c] = "waiting" => sock'[c] # 0
             /\ pc'[c] \in {"sending", "waiting"} =>
                  raced' \/ c \in pending' \/ inbox'[c] # {} \/ Noted(c)'
  BY <1>1, <1>2 DEF Before
<1> QED
  BY <1>1, <1>3

(* A delivery goes to a call that is pending no more.                      *)
LEMMA DeliverPendings ==
  ASSUME IInv, NEW g \in Sockets, Deliver(g) PROVE Pendings'
<1> USE DEF IInv, TypeOK, Pendings
<1>1. PICK d \in Senders, r \in Calls :
        /\ Noted(d) /\ inbox'[d] = inbox[d] \cup {r}
        /\ \A c \in Senders \ {d} : inbox'[c] = inbox[c]
        /\ \A c \in Senders : Noted(c)' => Noted(c)
        /\ \A c \in Senders \ {d} : Noted(c) => Noted(c)'
  BY DeliverMoves
<1>2. UNCHANGED <<socket, sock, closed, pending, pc, mine, raced>>
  BY DEF Deliver, session
<1>3. d \notin pending /\ pc[d] \notin Before
  BY <1>1
<1>4. \A c \in pending' : /\ pc'[c] \in {"sending", "waiting"}
                          /\ inbox'[c] = {} /\ ~Noted(c)'
                          /\ sock'[c] # 0 => sock'[c] = socket'
  BY <1>1, <1>2, <1>3
<1>5. ASSUME NEW c \in Senders
      PROVE  /\ pc'[c] \in Before => inbox'[c] = {} /\ ~Noted(c)'
             /\ pc'[c] = "waiting" => sock'[c] # 0
             /\ pc'[c] \in {"sending", "waiting"} =>
                  raced' \/ c \in pending' \/ inbox'[c] # {} \/ Noted(c)'
  BY <1>1, <1>2, <1>3
<1> QED
  BY <1>2, <1>4, <1>5

(* An answer takes the entry it finds: that call is noted instead.         *)
LEMMA CorrelatePendings ==
  ASSUME IInv, NEW g \in Sockets, NEW r \in Calls, loop[g] # "delivering",
         Correlate(g, r),
         UNCHANGED <<socket, sock, closed, inbox, pc, mine, raced>>
  PROVE  Pendings'
<1> USE DEF IInv, TypeOK, Pendings
<1>1. \A d \in Senders : Noted(d)' <=> Noted(d) \/ d \in Under(mine[r])
  BY CorrelateNotes
<1>2. pending' = pending \ Under(mine[r])
  BY DEF Correlate
<1>3. \A d \in Under(mine[r]) : d \in pending
  BY DEF Under
<1>4. \A c \in pending' : /\ pc'[c] \in {"sending", "waiting"}
                          /\ inbox'[c] = {} /\ ~Noted(c)'
                          /\ sock'[c] # 0 => sock'[c] = socket'
  BY <1>1, <1>2
<1>5. ASSUME NEW c \in Senders
      PROVE  /\ pc'[c] \in Before => inbox'[c] = {} /\ ~Noted(c)'
             /\ pc'[c] = "waiting" => sock'[c] # 0
             /\ pc'[c] \in {"sending", "waiting"} =>
                  raced' \/ c \in pending' \/ inbox'[c] # {} \/ Noted(c)'
  BY <1>1, <1>2, <1>3 DEF Before
<1> QED
  BY <1>2, <1>4, <1>5

(* The pending calls and those that have left them.                        *)
LEMMA PendingsStep == ASSUME IInv, [Next]_vars PROVE Pendings'
<1> USE BridgeAssumption
<1>1. ASSUME NEW c \in Bases, LoadCid(c) \/ StoreCid(c) \/ TakeCid(c)
      PROVE  Pendings'
  <2>1. /\ UNCHANGED <<session, pending, inbox, note, sock>>
        /\ raced => raced'
        /\ pc[c] \in {"idle", "loaded", "stored"}
        /\ pc'[c] \in {"loaded", "stored", "called"}
        /\ \A d \in Senders \ {c} : mine'[d] = mine[d] /\ pc'[d] = pc[d]
    BY <1>1 DEF LoadCid, StoreCid, TakeCid, Goto, loopVars, IInv, TypeOK,
                Calls
  <2> QED
    BY <2>1, QuietPendings DEF Before, Calls, session
<1>2. ASSUME NEW c \in Calls,
             ConnectStart(c) \/ DialFails(c) \/ Poll(c) \/ PollCancelled(c)
      PROVE  Pendings'
  <2>1. /\ UNCHANGED <<pending, inbox, note, closed, sock, mine, raced,
                       socket>>
        /\ pc[c] \in {"idle", "called", "dialing", "polling"}
        /\ \E step \in {"dialing", "polling", "connected", "failed"} :
             Goto(c, step)
    BY <1>2 DEF ConnectStart, DialFails, Poll, PollCancelled, loopVars,
                session
  <2>2. /\ pc[c] \in Before /\ pc'[c] \in Before \cup {"failed"}
        /\ \A d \in Senders \ {c} : pc'[d] = pc[d]
    BY <2>1 DEF Before, Goto, IInv, TypeOK, Calls
  <2> QED
    BY <2>1, <2>2, QuietPendings
<1>3. ASSUME NEW c \in Calls, Dialed(c) PROVE Pendings'
  <2>1. /\ UNCHANGED <<pending, inbox, note, closed, sock, mine, raced>>
        /\ pc[c] = "dialing" /\ Goto(c, "connected")
    BY <1>3 DEF Dialed
  <2>2. /\ pc[c] \in Before /\ pc'[c] \in Before
        /\ \A d \in Senders \ {c} : pc'[d] = pc[d]
    BY <2>1 DEF Before, Goto, IInv, TypeOK, Calls
  <2>3. socket = 0 \/ pending = {}
    BY <2>1 DEF IInv, Session, Readers, Pendings
  <2> QED
    BY <2>1, <2>2, <2>3, QuietPendings
<1>4. ASSUME NEW c \in Senders, DrawCid(c) PROVE Pendings'
  <2>1. /\ UNCHANGED <<session, pending, inbox, note, sock, pc>>
        /\ raced => raced'
        /\ pc[c] = "connected"
        /\ \A d \in Senders \ {c} : mine'[d] = mine[d]
    BY <1>4 DEF DrawCid, loopVars, IInv, TypeOK, Calls
  <2> QED
    BY <2>1, QuietPendings DEF Before, Calls, session
<1>5. ASSUME NEW c \in Flows,
             AddSink(c) \/ Subscribe(c) \/ RemoveSink(c) \/ CloseSink(c)
      PROVE  Pendings'
  <2>1. c \in Calls /\ c \notin Senders
    BY DEF Calls
  <2>2. UNCHANGED <<session, pending, inbox, note>>
    BY <1>5 DEF AddSink, Subscribe, RemoveSink, CloseSink, loopVars
  <2>3. raced => raced'
    BY <1>5, Zenon DEF AddSink, Subscribe, RemoveSink, CloseSink
  <2>4. \A d \in Senders :
          sock'[d] = sock[d] /\ mine'[d] = mine[d] /\ pc'[d] = pc[d]
    BY <1>5, <2>1 DEF AddSink, Subscribe, RemoveSink, CloseSink, Goto, IInv,
                      TypeOK, Calls
  <2> QED
    BY <2>1, <2>2, <2>3, <2>4, QuietPendings DEF session
<1>6. ASSUME UNCHANGED <<pending, inbox, note, closed, raced, pc, sock, mine,
                         socket>>
      PROVE  Pendings'
  BY <1>6 DEF IInv, Pendings, Noted
<1>7. ASSUME NEW c \in Senders, Register(c) PROVE Pendings'
  <2>1. CASE closed
    <3>1. /\ UNCHANGED <<session, pending, inbox, note, sock, mine, raced>>
          /\ pc[c] = "connected" /\ Goto(c, "failed")
      BY <1>7, <2>1 DEF Register, loopVars
    <3>2. pc'[c] = "failed" /\ \A d \in Senders \ {c} : pc'[d] = pc[d]
      BY <3>1 DEF Goto, IInv, TypeOK, Calls
    <3> QED
      BY <3>1, <3>2, QuietPendings DEF Before, Calls, session
  <2> QED
    BY <1>7, <2>1, RegisterPendings
<1>8. ASSUME NEW c \in Senders, Send(c) \/ GiveUp(c) \/ Returns(c)
      PROVE  Pendings'
  BY <1>8, SendPendings, GiveUpPendings
<1>9. ASSUME NEW g \in Sockets, Deliver(g) PROVE Pendings'
  BY <1>9, DeliverPendings
<1>10. ASSUME NEW g \in Sockets, ReadFails(g) PROVE Pendings'
  BY <1>10, LetGoPendings DEF ReadFails
<1>11. CASE CloseConnection
  BY <1>11, LetGoPendings DEF CloseConnection, loopVars
<1>12. ASSUME NEW g \in Sockets, NEW r \in Senders, ReadResponse(g, r)
       PROVE  Pendings'
  BY <1>12, CorrelatePendings
     DEF ReadResponse, Reading, Calls, session, callVars
<1>13. ASSUME NEW g \in Sockets, NEW f \in Flows, ReadFeed(g, f)
       PROVE  Pendings'
  <2>1. /\ loop[g] = "reading" /\ f \in Calls
        /\ UNCHANGED <<closed, socket, raced, pc, sock, mine, inbox>>
    BY <1>13 DEF ReadFeed, Reading, Calls, session, callVars
  <2>2. Correlate(g, f) \/ UNCHANGED <<pending, note>>
    BY <1>13 DEF ReadFeed
  <2> QED
    BY <1>6, <2>1, <2>2, CorrelatePendings
<1>14. ASSUME NEW g \in Sockets,
              ReadNext(g) \/ MarkReady(g) \/ ReadOther(g) \/ Fed(g)
       PROVE  Pendings'
  BY <1>6, <1>14 DEF ReadNext, MarkReady, ReadOther, Fed, session, callVars
<1>15. ASSUME NEW g \in Sockets, NEW f \in Flows, Feed(g, f)
       PROVE  Pendings'
  BY <1>6, <1>15 DEF Feed, session, callVars, loopVars
<1>16. ASSUME NEW c \in Calls, SendOnNil(c) PROVE Pendings'
  BY <1>6, <1>16 DEF SendOnNil, session, callVars, loopVars
<1>17. CASE UNCHANGED vars
  BY <1>6, <1>17 DEF vars, session, callVars, loopVars
<1> QED
  BY <1>1, <1>2, <1>3, <1>4, <1>5, <1>7, <1>8, <1>9, <1>10, <1>11, <1>12,
     <1>13, <1>14, <1>15, <1>16, <1>17
     DEF Next, SenderNext, FlowNext, LoopNext, ConnectNext, Calls

(* Every behaviour of CloudBridge keeps the invariant.                     *)
LEMMA Invariance == Spec => []IInv
<1>1. ASSUME IInv, [Next]_vars PROVE IInv'
  <2>1. TypeOK'
    BY <1>1, TypeStep DEF IInv
  <2> QED
    BY <1>1, <2>1, PendingsStep, ResultsStep, NumbersStep, SessionStep,
       SinksStep, ReadersStep, ClosesOnceStep DEF IInv
<1> QED
  BY <1>1, InitIInv, PTL DEF Spec

-----------------------------------------------------------------------------
(* The state of a CloudBridge keeps its types, whatever its callers, its   *)
(* peer and the network do.                                                *)
THEOREM BridgeTypeCorrect == Spec => []TypeOK
<1>1. IInv => TypeOK
  BY DEF IInv
<1> QED
  BY <1>1, Invariance, PTL

(* SendCommand and handleIncoming: a call gets the answer to its own       *)
(* command or an error, for late and repeated answers too, unless two      *)
(* draws of a command number overlapped.                                   *)
THEOREM AnswersAreOwn == Spec => []OwnAnswer
<1>1. ASSUME IInv PROVE OwnAnswer
  <2> SUFFICES ASSUME ~raced, NEW c \in Senders, NEW r \in inbox[c], r # Lost
               PROVE  r = c
    BY DEF OwnAnswer
  <2>1. r \in Calls /\ c \in Calls
    BY <1>1 DEF IInv, TypeOK, Calls
  <2>2. mine[r] = mine[c] /\ mine[c] # 0
    BY <1>1, <2>1 DEF IInv, Results
  <2> QED
    BY <1>1, <2>1, <2>2 DEF IInv, Numbers
<1> QED
  BY <1>1, Invariance, PTL

(* failPendingLocked sends with b.mu held, and there is always room.       *)
THEOREM LockStaysFree == Spec => []LockNeverBlocks
<1>1. IInv => LockNeverBlocks
  BY DEF IInv, Pendings, Noted, LockNeverBlocks
<1> QED
  BY <1>1, Invariance, PTL

(* b.ready and the sinks of Flow are closed once.                          *)
THEOREM NothingClosedTwice == Spec => []ClosesOnce
<1>1. IInv => ClosesOnce
  BY DEF IInv
<1> QED
  BY <1>1, Invariance, PTL

(* Until CloseConnection one readLoop at most is at work, for any number   *)
(* of reconnects.                                                          *)
THEOREM ReaderIsAlone == Spec => []OneReader
<1>1. IInv => OneReader
  BY DEF IInv, Readers
<1> QED
  BY <1>1, Invariance, PTL

(* A call that waits on a lost socket has its result or is about to.       *)
THEOREM LossReachesCalls == Spec => []LossIsNoticed
<1>1. ASSUME IInv PROVE LossIsNoticed
  <2> SUFFICES ASSUME ~raced, NEW c \in Senders, pc[c] = "waiting",
                      socket # sock[c]
               PROVE  inbox[c] # {} \/ Noted(c)
    BY DEF LossIsNoticed, Noted
  <2>1. c \in pending \/ inbox[c] # {} \/ Noted(c)
    BY <1>1 DEF IInv, Pendings
  <2>2. c \notin pending
    BY <1>1 DEF IInv, Pendings
  <2> QED
    BY <2>1, <2>2
<1> QED
  BY <1>1, Invariance, PTL
=============================================================================
