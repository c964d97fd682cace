------------------------------ MODULE CellFlow ------------------------------
(***************************************************************************)
(* The flow of one GeneralCell (general_cell.go): its history, the         *)
(* subscriptions Flow hands out, and the producers that push into it.      *)
(*                                                                         *)
(* PushFlowElement numbers and records an element under c.mu and copies    *)
(* the subscribers, then sends outside the lock, one channel at a time     *)
(* and without ever waiting.  Flow replays the history into the new        *)
(* channel while it holds c.mu and before anybody can read that channel.   *)
(*                                                                         *)
(* An element is known by its place in the history.  out[s] is everything  *)
(* ever put into the channel of subscription s and read[s] how much of it  *)
(* was received, so the rest is what the channel buffers.  Callers have    *)
(* passed ValidateAccess.  before is a history variable: for each element, *)
(* the elements whose PushFlowElement had returned when it was recorded.   *)
(***************************************************************************)
EXTENDS Integers, Sequences

CONSTANTS
    Owners,         \* goroutines that push elements of the cell's own
    Absorbers,      \* goroutines of AbsorbFlow, one per absorbed flow
    Subscribers,    \* calls of Flow
    Capacity,       \* buffer of a subscriber's channel (64)
    Upstream,       \* sequence numbers that absorbed elements carry
    MaxPushes       \* bound on the length of the history

ASSUME FlowAssumption ==
    /\ Owners \cap Absorbers = {}
    /\ Capacity \in Nat \ {0}
    /\ Upstream \subseteq Nat \ {0}
    /\ MaxPushes \in Nat

Producers == Owners \cup Absorbers
SubStates == {"none", "calling", "replaying", "live", "ended"}

VARIABLES
    locked,         \* c.mu is held from one step to the next
    closed,         \* c.closed
    history,        \* c.flowHistory: sequence number and producer
    nextSequence,   \* c.nextSequence
    sub,            \* where a Flow call and its subscription are
    out, read,      \* its channel: elements put in, number received
    dropped,        \* elements its full channel did not take
    elem, targets,  \* what a producer is sending, and to whom still
    before,         \* elements that were sent when an element was recorded
    panicked        \* a send on a closed channel ended the process

pushVars == <<history, nextSequence, elem, targets, before>>
chanVars == <<out, read, dropped>>
vars == <<locked, closed, pushVars, sub, chanVars, panicked>>

Element == [sequence : Nat, by : Producers]

(* Every variable has its type, and a channel never buffers more than its  *)
(* capacity or delivers what was not sent.                                 *)
TypeOK ==
    /\ locked \in BOOLEAN /\ closed \in BOOLEAN /\ panicked \in BOOLEAN
    /\ history \in Seq(Element)
    /\ nextSequence \in Nat
    /\ sub \in [Subscribers -> SubStates]
    /\ out \in [Subscribers -> Seq(Nat)]
    /\ read \in [Subscribers -> Nat]
    /\ \A s \in Subscribers : /\ read[s] <= Len(out[s])
                              /\ Len(out[s]) - read[s] <= Capacity
    /\ dropped \in [Subscribers -> SUBSET Nat]
    /\ elem \in [Producers -> Nat]
    /\ targets \in [Producers -> SUBSET Subscribers]
    /\ before \in Seq(SUBSET Nat)

-----------------------------------------------------------------------------
Init ==
    /\ locked = FALSE /\ closed = FALSE /\ panicked = FALSE
    /\ history = <<>> /\ nextSequence = 0
    /\ sub = [s \in Subscribers |-> "none"]
    /\ out = [s \in Subscribers |-> <<>>]
    /\ read = [s \in Subscribers |-> 0]
    /\ dropped = [s \in Subscribers |-> {}]
    /\ elem = [p \in Producers |-> 0]
    /\ targets = [p \in Producers |-> {}]
    /\ before = <<>>

LockFree == ~locked /\ ~panicked
Live == {s \in Subscribers : sub[s] = "live"}       \* c.subscribers
Full(s) == Len(out[s]) - read[s] >= Capacity

\* Somebody asks for the flow and waits for c.mu.
FlowCall(s) ==
    /\ ~panicked
    /\ sub[s] = "none"
    /\ sub' = [sub EXCEPT ![s] = "calling"]
    /\ UNCHANGED <<locked, closed, pushVars, chanVars, panicked>>

\* A closed cell hands out a closed channel without any history.
FlowClosed_KeepsLock(s) ==
    /\ LockFree
    /\ sub[s] = "calling"
    /\ closed
    /\ locked' = TRUE
    /\ sub' = [sub EXCEPT ![s] = "ended"]
    /\ UNCHANGED <<closed, pushVars, chanVars, panicked>>

FlowClosed(s) ==
    /\ LockFree
    /\ sub[s] = "calling"
    /\ closed
    /\ sub' = [sub EXCEPT ![s] = "ended"]
    /\ UNCHANGED <<locked, closed, pushVars, chanVars, panicked>>

\* What replaying the first n elements of the history puts in a channel.
Replay_NewestFirst(n) == [i \in 1..n |-> n + 1 - i]

Replay(n) == [i \in 1..n |-> i]

\* The history fits the channel: replay and registration are one critical
\* section.
FlowRegister(s) ==
    /\ LockFree
    /\ sub[s] = "calling"
    /\ ~closed
    /\ Len(history) <= Capacity
    /\ sub' = [sub EXCEPT ![s] = "live"]
    /\ out' = [out EXCEPT ![s] = Replay(Len(history))]
    /\ UNCHANGED <<locked, closed, pushVars, read, dropped, panicked>>

\* The history does not fit: the replay waits for a reader, with c.mu held,
\* on a channel that nobody else has seen.
FlowOverflow(s) ==
    /\ LockFree
    /\ sub[s] = "calling"
    /\ ~closed
    /\ Len(history) > Capacity
    /\ locked' = TRUE
    /\ sub' = [sub EXCEPT ![s] = "replaying"]
    /\ out' = [out EXCEPT ![s] = Replay(Capacity)]
    /\ UNCHANGED <<closed, pushVars, read, dropped, panicked>>

\* The goroutine of Flow, when the subscriber's context is done.
Cancel(s) ==
    /\ LockFree
    /\ sub[s] = "live"
    /\ sub' = [sub EXCEPT ![s] = "ended"]
    /\ UNCHANGED <<locked, closed, pushVars, chanVars, panicked>>

Close ==
    /\ LockFree
    /\ closed' = TRUE
    /\ sub' = [s \in Subscribers |->
                 IF sub[s] = "live" THEN "ended" ELSE sub[s]]
    /\ UNCHANGED <<locked, pushVars, chanVars, panicked>>

-----------------------------------------------------------------------------
\* Locked half of PushFlowElement: an element that carries a number (an
\* absorbed one) keeps it, and c.nextSequence counts it all the same.
Record_NumberThenCount(p, sequence) ==
    /\ nextSequence' = nextSequence + 1
    /\ history' = Append(history,
         [sequence |-> IF sequence = 0 THEN nextSequence ELSE sequence,
          by |-> p])

Record(p, sequence) ==
    /\ nextSequence' = nextSequence + 1
    /\ history' = Append(history,
         [sequence |-> IF sequence = 0 THEN nextSequence' ELSE sequence,
          by |-> p])

\* The elements that nobody is sending any more.
Returned == {n \in 1..Len(history) :
               \A p \in Producers : elem[p] = n => targets[p] = {}}

\* It ends by copying the subscribers of the moment.  A producer pushes its
\* next element when it is through with the last.
Push_BeforeSends(p, sequence) ==
    /\ LockFree
    /\ Len(history) < MaxPushes
    /\ Record(p, sequence)
    /\ elem' = [elem EXCEPT ![p] = Len(history) + 1]
    /\ targets' = [targets EXCEPT ![p] = Live]
    /\ before' = Append(before, Returned)
    /\ UNCHANGED <<locked, closed, sub, chanVars, panicked>>

Push(p, sequence) ==
    /\ LockFree
    /\ targets[p] = {}
    /\ Len(history) < MaxPushes
    /\ Record(p, sequence)
    /\ elem' = [elem EXCEPT ![p] = Len(history) + 1]
    /\ targets' = [targets EXCEPT ![p] = Live]
    /\ before' = Append(before, Returned)
    /\ UNCHANGED <<locked, closed, sub, chanVars, panicked>>

\* An element of the cell's own has no number yet.
PushOwn(p) == Push(p, 0)

\* The goroutine of AbsorbFlow passes on what the attached cell emitted,
\* with the number that cell gave it.
PushAbsorbed(p) == \E sequence \in Upstream : Push(p, sequence)

Sent(p, s) == targets' = [targets EXCEPT ![p] = @ \ {s}]

\* Unlocked half: one channel of the copy at a time, in any order.
SendDelivers(p, s) ==
    /\ ~panicked
    /\ s \in targets[p]
    /\ sub[s] = "live"
    /\ ~Full(s)
    /\ out' = [out EXCEPT ![s] = Append(@, elem[p])]
    /\ Sent(p, s)
    /\ UNCHANGED <<locked, closed, history, nextSequence, elem, before, sub,
                   read, dropped, panicked>>

\* The default branch of the select: a full channel loses the element.
SendDrops_Waits(p, s) ==
    /\ ~panicked
    /\ s \in targets[p]
    /\ sub[s] = "live"
    /\ Full(s)
    /\ UNCHANGED vars

SendDrops(p, s) ==
    /\ ~panicked
    /\ s \in targets[p]
    /\ sub[s] = "live"
    /\ Full(s)
    /\ dropped' = [dropped EXCEPT ![s] = @ \cup {elem[p]}]
    /\ Sent(p, s)
    /\ UNCHANGED <<locked, closed, history, nextSequence, elem, before, sub,
                   out, read, panicked>>

\* The channel was closed after the subscribers were copied: the send
\* panics, and nothing recovers it.
SendPanics(p, s) ==
    /\ ~panicked
    /\ s \in targets[p]
    /\ sub[s] = "ended"
    /\ panicked' = TRUE
    /\ UNCHANGED <<locked, closed, pushVars, sub, chanVars>>

\* The holder of the channel takes an element; a closed channel still has
\* the ones it buffered.
Receive(s) ==
    /\ ~panicked
    /\ sub[s] \in {"live", "ended"}
    /\ read[s] < Len(out[s])
    /\ read' = [read EXCEPT ![s] = @ + 1]
    /\ UNCHANGED <<locked, closed, pushVars, sub, out, dropped, panicked>>

-----------------------------------------------------------------------------
FlowProceeds(s) == FlowClosed(s) \/ FlowRegister(s) \/ FlowOverflow(s)

Send(p, s) == SendDelivers(p, s) \/ SendDrops(p, s) \/ SendPanics(p, s)

Next ==
    \/ \E s \in Subscribers : FlowCall(s) \/ FlowProceeds(s) \/ Cancel(s)
                              \/ Receive(s)
    \/ Close
    \/ \E p \in Owners : PushOwn(p)
    \/ \E p \in Absorbers : PushAbsorbed(p)
    \/ \E p \in Producers, s \in Subscribers : Send(p, s)

Spec == Init /\ [][Next]_vars

\* A goroutine that is ready runs: sends never wait, and Go's mutex does
\* not starve a waiter.  Nothing says that a reader ever reads.
Fairness ==
    /\ \A s \in Subscribers : WF_vars(FlowProceeds(s))
    /\ \A p \in Producers : WF_vars(\E s \in Subscribers : Send(p, s))

FairSpec == Spec /\ Fairness

-----------------------------------------------------------------------------
(* Element n is on its way to s: its producer copied the subscribers and   *)
(* has not come to s yet.                                                  *)
Pending(n, s) == \E p \in Producers : s \in targets[p] /\ elem[p] = n

Delivered(n, s) == \E i \in 1..Len(out[s]) : out[s][i] = n

(* No channel ever carries an element twice, and of every element of the   *)
(* history a live subscription can tell what became of it: it was put into *)
(* its channel, or its full channel lost it, or its producer is about to   *)
(* send it, and never two of these.  No element falls between the replay   *)
(* of Flow and the first PushFlowElement that knows the subscription.      *)
ExactlyOnce ==
    \A s \in Subscribers :
      /\ \A i, j \in 1..Len(out[s]) : out[s][i] = out[s][j] => i = j
      /\ sub[s] = "live" =>
           \A n \in 1..Len(history) :
             /\ Delivered(n, s) \/ n \in dropped[s] \/ Pending(n, s)
             /\ ~(Delivered(n, s) /\ n \in dropped[s])
             /\ ~(Delivered(n, s) /\ Pending(n, s))
             /\ ~(n \in dropped[s] /\ Pending(n, s))

(* What a channel carries of one producer's elements is in the order in    *)
(* which that producer pushed them, replayed ones included; the order      *)
(* between two producers is not promised by PushFlowElement.               *)
ProducerOrder ==
    \A s \in Subscribers : \A i, j \in 1..Len(out[s]) :
      i < j /\ history[out[s][i]].by = history[out[s][j]].by
        => out[s][i] < out[s][j]

(* The sends of two producers overtake each other, but a push that has     *)
(* returned is over for every subscriber: an element that is recorded      *)
(* afterwards, by anyone, is never received before it, whether the one or  *)
(* the other was replayed or sent.                                         *)
RealTimeOrder ==
    \A s \in Subscribers : \A i, j \in 1..Len(out[s]) :
      i < j => out[s][j] \notin before[out[s][i]]

(* Once Close returns nobody is subscribed, and nobody becomes so.         *)
ClosedHasNoSubscribers == closed => Live = {}

\* runtime.go, ReplayFlow: the numbers are there and have no gap.
Replays ==
    \A i \in 1..Len(history) :
      /\ history[i].sequence # 0
      /\ i > 1 => history[i].sequence = history[i - 1].sequence + 1

(* A history of the cell's own elements passes ReplayFlow, whichever       *)
(* goroutines pushed them and in whatever order they took the lock.        *)
OwnHistoryReplays ==
    (\A i \in 1..Len(history) : history[i].by \in Owners) => Replays

(* PushFlowElement never waits for a reader: a producer that has copied    *)
(* the subscribers gets through with its sends, unless the process dies.   *)
PushReturns ==
    \A p \in Producers : targets[p] # {} ~> targets[p] = {} \/ panicked

(* A Flow call returns with a channel, unless the history has outgrown     *)
(* the channel's capacity or the process dies.                             *)
FlowReturns ==
    \A s \in Subscribers :
      sub[s] = "calling" ~>
        sub[s] \in {"live", "ended"} \/ Len(history) > Capacity \/ panicked
=============================================================================
