--------------------------- MODULE CellFlowProofs ---------------------------
(***************************************************************************)
(* Theorems about CellFlow, for any sets of producers and subscribers, any *)
(* channel capacity and any bound on the history.                          *)
(***************************************************************************)
EXTENDS CellFlow, TLAPS

(* The number of an own element is its place in the history.               *)
OwnNumbers ==
    /\ nextSequence = Len(history)
    /\ \A i \in 1..Len(history) :
         history[i].by \in Owners => history[i].sequence = i

(* Channels and losses speak of recorded elements, and a call that has not *)
(* been answered has no channel.                                           *)
Recorded ==
    \A s \in Subscribers :
      /\ \A i \in 1..Len(out[s]) : out[s][i] \in 1..Len(history)
      /\ dropped[s] \subseteq 1..Len(history)
      /\ sub[s] \in {"none", "calling"} =>
           out[s] = <<>> /\ dropped[s] = {} /\ read[s] = 0

(* A producer sends an element that it recorded, to subscriptions that     *)
(* were live, and is ahead of all that they already have of it.            *)
InFlight ==
    \A p \in Producers : \A s \in targets[p] :
      /\ sub[s] \in {"live", "ended"}
      /\ elem[p] \in 1..Len(history)
      /\ history[elem[p]].by = p
      /\ elem[p] \notin dropped[s]
      /\ \A i \in 1..Len(out[s]) :
           history[out[s][i]].by = p => out[s][i] < elem[p]

(* What was sent before an element was recorded is older, and nobody sends *)
(* it again.                                                               *)
Before ==
    /\ Len(before) = Len(history)
    /\ \A n \in 1..Len(history) : \A m \in before[n] :
         /\ m \in 1..(n - 1)
         /\ \A p \in Producers : elem[p] = m => targets[p] = {}

IInv == /\ TypeOK /\ OwnNumbers /\ Recorded /\ InFlight /\ Before
        /\ ExactlyOnce /\ ProducerOrder /\ RealTimeOrder
        /\ ClosedHasNoSubscribers

-----------------------------------------------------------------------------
(* Before anything happens the invariant holds: no history, no channel.    *)
LEMMA InitIInv == Init => IInv
<1> SUFFICES ASSUME Init PROVE IInv
  OBVIOUS
<1> USE FlowAssumption DEF Init
<1>1. TypeOK
  <2>1. \A s \in Subscribers : Len(out[s]) = 0 /\ read[s] = 0
    OBVIOUS
  <2>2. \A s \in Subscribers : /\ read[s] <= Len(out[s])
                               /\ Len(out[s]) - read[s] <= Capacity
    BY <2>1
  <2>3. /\ history \in Seq(Element) /\ before \in Seq(SUBSET Nat)
        /\ out \in [Subscribers -> Seq(Nat)]
    OBVIOUS
  <2> QED
    BY <2>2, <2>3 DEF TypeOK, SubStates
<1>2. OwnNumbers /\ Recorded /\ InFlight /\ Before
  BY DEF OwnNumbers, Recorded, InFlight, Before
<1>3. ExactlyOnce /\ ProducerOrder /\ RealTimeOrder
  BY DEF ExactlyOnce, ProducerOrder, RealTimeOrder
<1>4. ClosedHasNoSubscribers
  BY DEF ClosedHasNoSubscribers
<1> QED
  BY <1>1, <1>2, <1>3, <1>4 DEF IInv

(* Steps that only move a Flow call or end subscriptions: FlowCall,        *)
(* FlowClosed, Cancel and Close.                                           *)
LEMMA SubscriptionStep ==
  ASSUME IInv, UNCHANGED <<locked, pushVars, chanVars, panicked>>,
         closed' \in BOOLEAN, sub' \in [Subscribers -> SubStates],
         \A s \in Subscribers :
           \/ sub'[s] = sub[s]
           \/ sub[s] = "none" /\ sub'[s] = "calling"
           \/ sub[s] \in {"calling", "live"} /\ sub'[s] = "ended",
         closed' => \A s \in Subscribers : sub'[s] # "live"
  PROVE  IInv'
<1> USE FlowAssumption DEF IInv, pushVars, chanVars
<1>1. TypeOK'
  BY DEF TypeOK
<1>2. OwnNumbers' /\ ProducerOrder' /\ RealTimeOrder' /\ Before'
  BY DEF OwnNumbers, ProducerOrder, RealTimeOrder, Before
<1>3. Recorded'
  BY DEF Recorded
<1>4. InFlight'
  BY DEF InFlight, TypeOK
<1>5. \A s \in Subscribers : sub'[s] = "live" => sub[s] = "live"
  OBVIOUS
<1>6. ExactlyOnce'
  BY <1>5 DEF ExactlyOnce, Delivered, Pending
<1>7. ClosedHasNoSubscribers'
  BY DEF ClosedHasNoSubscribers, Live
<1> QED
  BY <1>1, <1>2, <1>3, <1>4, <1>6, <1>7

(* Flow that replays the history and registers.                            *)
LEMMA RegisterStep ==
  ASSUME IInv, NEW s \in Subscribers, FlowRegister(s)
  PROVE  IInv'
<1> USE FlowAssumption DEF IInv, FlowRegister, LockFree, pushVars
<1> DEFINE n == Len(history)
<1>1. n \in Nat /\ Replay(n) \in Seq(Nat) /\ Len(Replay(n)) = n
      /\ \A i \in 1..n : Replay(n)[i] = i
  BY DEF TypeOK, Replay
<1>2. out'[s] = Replay(n) /\ sub'[s] = "live" /\ read'[s] = 0
      /\ dropped'[s] = {} /\ read[s] = 0 /\ out[s] = <<>>
  BY DEF TypeOK, Recorded
<1>3. \A r \in Subscribers \ {s} :
        out'[r] = out[r] /\ sub'[r] = sub[r] /\ read'[r] = read[r]
        /\ dropped'[r] = dropped[r]
  <2>1. out \in [Subscribers -> Seq(Nat)] /\ sub \in [Subscribers -> SubStates]
    BY DEF TypeOK
  <2> QED
    BY <2>1
<1>4. TypeOK'
  <2>1. out' \in [Subscribers -> Seq(Nat)] /\ sub' \in [Subscribers -> SubStates]
    BY <1>1 DEF TypeOK, SubStates
  <2>2. \A r \in Subscribers : /\ read'[r] <= Len(out'[r])
                               /\ Len(out'[r]) - read'[r] <= Capacity
    BY <1>1, <1>2, <1>3 DEF TypeOK
  <2> QED
    BY <2>1, <2>2 DEF TypeOK
<1>5. OwnNumbers' /\ ClosedHasNoSubscribers'
  BY DEF OwnNumbers, ClosedHasNoSubscribers, Live
<1>6. Recorded'
  <2> SUFFICES ASSUME NEW r \in Subscribers
               PROVE  /\ \A i \in 1..Len(out'[r]) : out'[r][i] \in 1..n
                      /\ dropped'[r] \subseteq 1..n
                      /\ sub'[r] \in {"none", "calling"} =>
                           out'[r] = <<>> /\ dropped'[r] = {}
                           /\ read'[r] = 0
    BY DEF Recorded
  <2> QED
    BY <1>1, <1>2, <1>3 DEF Recorded
<1>7. \A p \in Producers : s \notin targets[p]
  BY DEF InFlight, TypeOK
<1>8. InFlight'
  BY <1>3, <1>7 DEF InFlight, TypeOK
<1>9. ExactlyOnce'
  <2> SUFFICES ASSUME NEW r \in Subscribers
               PROVE  ExactlyOnce!(r)'
    BY DEF ExactlyOnce
  <2>1. CASE r = s
    BY <2>1, <1>1, <1>2, <1>7 DEF ExactlyOnce, Delivered, Pending
  <2>2. CASE r # s
    BY <2>2, <1>3 DEF ExactlyOnce, Delivered, Pending
  <2> QED
    BY <2>1, <2>2
<1>10. ProducerOrder'
  BY <1>1, <1>2, <1>3 DEF ProducerOrder
<1>11. RealTimeOrder'
  <2> SUFFICES ASSUME NEW r \in Subscribers, NEW i \in 1..Len(out'[r]),
                      NEW j \in 1..Len(out'[r]), i < j
               PROVE  out'[r][j] \notin before[out'[r][i]]
    BY DEF RealTimeOrder
  <2>1. CASE r = s
    BY <2>1, <1>1, <1>2 DEF Before
  <2>2. CASE r # s
    BY <2>2, <1>3 DEF RealTimeOrder
  <2> QED
    BY <2>1, <2>2
<1>12. Before'
  BY DEF Before
<1> QED
  BY <1>4, <1>5, <1>6, <1>8, <1>9, <1>10, <1>11, <1>12

(* Flow whose replay does not fit: it keeps the lock.                      *)
LEMMA OverflowStep ==
  ASSUME IInv, NEW s \in Subscribers, FlowOverflow(s)
  PROVE  IInv'
<1> USE FlowAssumption DEF IInv, FlowOverflow, LockFree, pushVars
<1>1. Replay(Capacity) \in Seq(Nat) /\ Len(Replay(Capacity)) = Capacity
      /\ Capacity < Len(history)
      /\ \A i \in 1..Capacity : Replay(Capacity)[i] = i
  BY DEF TypeOK, Replay
<1>2. out'[s] = Replay(Capacity) /\ sub'[s] = "replaying" /\ read'[s] = 0
      /\ dropped'[s] = {} /\ read[s] = 0 /\ out[s] = <<>>
  BY DEF TypeOK, Recorded
<1>3. \A r \in Subscribers \ {s} :
        out'[r] = out[r] /\ sub'[r] = sub[r] /\ read'[r] = read[r]
        /\ dropped'[r] = dropped[r]
  <2>1. out \in [Subscribers -> Seq(Nat)] /\ sub \in [Subscribers -> SubStates]
    BY DEF TypeOK
  <2> QED
    BY <2>1
<1>4. TypeOK'
  BY <1>1, <1>2, <1>3 DEF TypeOK, SubStates
<1>5. OwnNumbers' /\ ClosedHasNoSubscribers'
  BY DEF OwnNumbers, ClosedHasNoSubscribers, Live
<1>6. Recorded'
  BY <1>1, <1>2, <1>3 DEF Recorded, TypeOK
<1>7. \A p \in Producers : s \notin targets[p]
  BY DEF InFlight, TypeOK
<1>8. InFlight'
  BY <1>3, <1>7 DEF InFlight, TypeOK
<1>9. ExactlyOnce'
  <2> SUFFICES ASSUME NEW r \in Subscribers
               PROVE  ExactlyOnce!(r)'
    BY DEF ExactlyOnce
  <2>1. CASE r = s
    BY <2>1, <1>1, <1>2 DEF ExactlyOnce
  <2>2. CASE r # s
    BY <2>2, <1>3 DEF ExactlyOnce, Delivered, Pending
  <2> QED
    BY <2>1, <2>2
<1>10. ProducerOrder'
  BY <1>1, <1>2, <1>3 DEF ProducerOrder
<1>11. RealTimeOrder'
  <2> SUFFICES ASSUME NEW r \in Subscribers, NEW i \in 1..Len(out'[r]),
                      NEW j \in 1..Len(out'[r]), i < j
               PROVE  out'[r][j] \notin before[out'[r][i]]
    BY DEF RealTimeOrder
  <2>1. CASE r = s
    BY <2>1, <1>1, <1>2 DEF Before
  <2>2. CASE r # s
    BY <2>2, <1>3 DEF RealTimeOrder
  <2> QED
    BY <2>1, <2>2
<1>12. Before'
  BY DEF Before
<1> QED
  BY <1>4, <1>5, <1>6, <1>8, <1>9, <1>10, <1>11, <1>12

(* The locked half of PushFlowElement.                                     *)
LEMMA PushStep ==
  ASSUME IInv, NEW p \in Producers, NEW sequence \in Nat, Push(p, sequence),
         p \in Owners => sequence = 0
  PROVE  IInv'
<1> USE FlowAssumption DEF IInv, Push, LockFree, chanVars
<1> DEFINE n == Len(history)
           e == [sequence |-> IF sequence = 0 THEN n + 1 ELSE sequence,
                 by |-> p]
<1>1. n \in Nat /\ nextSequence' = n + 1 /\ e \in Element
      /\ history' = Append(history, e)
  BY DEF TypeOK, OwnNumbers, Record, Element
<1>2. history' \in Seq(Element) /\ Len(history') = n + 1
      /\ history'[n + 1] = e /\ \A i \in 1..n : history'[i] = history[i]
  BY <1>1 DEF TypeOK
<1> HIDE DEF e
<1>3. elem'[p] = n + 1 /\ targets'[p] = Live
      /\ \A q \in Producers \ {p} : elem'[q] = elem[q]
                                    /\ targets'[q] = targets[q]
  BY DEF TypeOK
<1>12. /\ before' \in Seq(SUBSET Nat) /\ Len(before') = n + 1
       /\ before'[n + 1] = Returned
       /\ \A i \in 1..n : before'[i] = before[i]
  BY <1>1, SMTT(30) DEF TypeOK, Before, Returned
<1>4. TypeOK'
  BY <1>1, <1>2, <1>3, <1>12 DEF TypeOK, Live
<1>5. OwnNumbers'
  BY <1>1, <1>2 DEF OwnNumbers, e
<1>6. ClosedHasNoSubscribers'
  BY <1>2 DEF ClosedHasNoSubscribers, Live
<1>7. Recorded'
  BY <1>1, <1>2 DEF Recorded
<1>8. \A s \in Subscribers : \A i \in 1..Len(out[s]) :
        /\ out[s][i] \in 1..n
        /\ history'[out[s][i]] = history[out[s][i]]
  BY <1>2 DEF Recorded
<1>9. InFlight'
  <2> SUFFICES ASSUME NEW q \in Producers, NEW s \in targets'[q]
               PROVE  InFlight!(q)!(s)'
    BY DEF InFlight
  <2>1. s \in Subscribers
    BY <1>4 DEF TypeOK
  <2>2. CASE q = p
    <3>1. elem'[q] = n + 1 /\ sub'[s] = "live" /\ history'[n + 1].by = p
      BY <2>2, <1>2, <1>3 DEF Live, e
    <3>2. n + 1 \notin dropped'[s]
      BY <1>1, <2>1 DEF Recorded
    <3>3. \A i \in 1..Len(out'[s]) : out'[s][i] < n + 1
      BY <1>1, <1>8, <2>1
    <3> QED
      BY <2>2, <3>1, <3>2, <3>3, <1>1, <1>2
  <2>3. CASE q # p
    <3>1. s \in targets[q] /\ elem'[q] = elem[q]
      BY <2>3, <1>3
    <3>2. InFlight!(q)!(s)
      BY <3>1 DEF InFlight
    <3>3. elem[q] \in 1..n /\ history'[elem[q]] = history[elem[q]]
      BY <3>2, <1>2
    <3> QED
      BY <3>1, <3>2, <3>3, <1>8, <2>1, <1>1, <1>2
  <2> QED
    BY <2>2, <2>3
<1>10. ExactlyOnce'
  <2> SUFFICES ASSUME NEW s \in Subscribers
               PROVE  ExactlyOnce!(s)'
    BY DEF ExactlyOnce
  <2>1. \A i, j \in 1..Len(out'[s]) : out'[s][i] = out'[s][j] => i = j
    BY DEF ExactlyOnce
  <2>2. ASSUME sub'[s] = "live", NEW k \in 1..Len(history')
        PROVE  /\ Delivered(k, s)' \/ k \in dropped'[s] \/ Pending(k, s)'
               /\ ~(Delivered(k, s)' /\ k \in dropped'[s])
               /\ ~(Delivered(k, s)' /\ Pending(k, s)')
               /\ ~(k \in dropped'[s] /\ Pending(k, s)')
    <3>1. Delivered(k, s)' <=> Delivered(k, s)
      BY DEF Delivered
    <3>2. CASE k = n + 1
      <4>1. ~Delivered(k, s) /\ k \notin dropped'[s]
        BY <3>2, <1>1, <1>8 DEF Delivered, Recorded
      <4>2. Pending(k, s)'
        BY <3>2, <2>2, <1>3 DEF Pending, Live
      <4> QED
        BY <3>1, <4>1, <4>2
    <3>3. CASE k # n + 1
      <4>1. k \in 1..n
        BY <3>3, <1>1, <1>2
      <4>2. Pending(k, s)' <=> Pending(k, s)
        BY <3>3, <1>3 DEF Pending
      <4> QED
        BY <3>1, <4>1, <4>2, <2>2 DEF ExactlyOnce
    <3> QED
      BY <3>2, <3>3
  <2> QED
    BY <2>1, <2>2
<1>11. ProducerOrder'
  BY <1>8 DEF ProducerOrder
<1>13. RealTimeOrder'
  BY <1>8, <1>12 DEF RealTimeOrder
<1>14. Before'
  <2> SUFFICES ASSUME NEW i \in 1..(n + 1), NEW m \in before'[i]
               PROVE  /\ m \in 1..(i - 1)
                      /\ \A q \in Producers : elem'[q] = m => targets'[q] = {}
    BY <1>2, <1>12 DEF Before
  <2>1. /\ m \in 1..(i - 1)
        /\ \A q \in Producers : elem[q] = m => targets[q] = {}
    <3>1. CASE i = n + 1
      BY <3>1, <1>1, <1>12 DEF Returned
    <3>2. CASE i # n + 1
      BY <3>2, <1>1, <1>12 DEF Before
    <3> QED
      BY <3>1, <3>2
  <2> QED
    BY <2>1, <1>1, <1>3
<1> QED
  BY <1>4, <1>5, <1>6, <1>7, <1>9, <1>10, <1>11, <1>13, <1>14

(* A send that finds room.                                                 *)
LEMMA DeliverStep ==
  ASSUME IInv, NEW p \in Producers, NEW s \in Subscribers,
         SendDelivers(p, s)
  PROVE  IInv'
<1> USE FlowAssumption DEF IInv
<1>m. PICK m : m = Len(out[s])
  OBVIOUS
<1>k. PICK k : k = elem[p]
  OBVIOUS
<1>0. UNCHANGED <<locked, closed, history, nextSequence, elem, before, sub,
                  read, dropped, panicked>>
      /\ s \in targets[p]
  BY DEF SendDelivers
<1>1. m \in Nat /\ k \in Nat
  BY <1>m, <1>k DEF TypeOK
<1>r. read[s] \in Nat /\ read[s] <= m /\ m - read[s] < Capacity
  BY <1>0, <1>m DEF TypeOK, Full, SendDelivers
<1>2. Len(out'[s]) = m + 1 /\ out'[s][m + 1] = k
      /\ \A i \in 1..m : out'[s][i] = out[s][i]
  BY <1>m, <1>k, <1>1 DEF TypeOK, SendDelivers
<1>3. out' \in [Subscribers -> Seq(Nat)]
      /\ \A r \in Subscribers \ {s} : out'[r] = out[r]
  BY <1>k, <1>1 DEF TypeOK, SendDelivers
<1>4. targets' \in [Producers -> SUBSET Subscribers]
      /\ targets'[p] = targets[p] \ {s}
      /\ \A q \in Producers \ {p} : targets'[q] = targets[q]
  BY DEF Sent, TypeOK, SendDelivers
<1>5. TypeOK'
  <2>1. ASSUME NEW r \in Subscribers
        PROVE  read'[r] <= Len(out'[r]) /\ Len(out'[r]) - read'[r] <= Capacity
    <3>1. read'[r] = read[r]
      BY <1>0
    <3>2. CASE r = s
      BY <3>1, <3>2, <1>1, <1>r, <1>2
    <3>3. CASE r # s
      BY <3>1, <3>3, <1>3 DEF TypeOK
    <3> QED
      BY <3>2, <3>3
  <2> QED
    BY <2>1, <1>0, <1>3, <1>4 DEF TypeOK
<1>6. OwnNumbers' /\ ClosedHasNoSubscribers'
  BY <1>0 DEF OwnNumbers, ClosedHasNoSubscribers, Live
<1>7. /\ k \in 1..Len(history) /\ history[k].by = p /\ k \notin dropped[s]
      /\ \A i \in 1..m : history[out[s][i]].by = p => out[s][i] < k
  BY <1>0, <1>m, <1>k DEF InFlight
<1>8. \A i \in 1..m : out[s][i] # k
  BY <1>1, <1>7
<1>9. Recorded'
  <2> SUFFICES ASSUME NEW r \in Subscribers PROVE Recorded!(r)'
    BY DEF Recorded
  <2>1. Recorded!(r)
    BY DEF Recorded
  <2>2. \A i \in 1..Len(out'[r]) : out'[r][i] \in 1..Len(history)
    <3>1. CASE r = s
      <4>1. \A i \in 1..m : out'[s][i] \in 1..Len(history)
        BY <2>1, <3>1, <1>m, <1>2
      <4>2. out'[s][m + 1] \in 1..Len(history)
        BY <1>2, <1>7
      <4>3. \A i \in 1..Len(out'[s]) : i \in 1..m \/ i = m + 1
        BY <1>1, <1>2
      <4> QED
        BY <3>1, <4>1, <4>2, <4>3
    <3>2. CASE r # s
      BY <2>1, <3>2, <1>3
    <3> QED
      BY <3>1, <3>2
  <2>3. sub[s] \in {"live", "ended"}
    BY <1>0 DEF InFlight
  <2> QED
    BY <2>1, <2>2, <2>3, <1>0, <1>3
<1>10. \A q \in Producers \ {p} : s \in targets[q] => elem[q] # k
  BY <1>7 DEF InFlight
<1>11. InFlight'
  <2> SUFFICES ASSUME NEW q \in Producers, NEW r \in targets'[q]
               PROVE  InFlight!(q)!(r)'
    BY DEF InFlight
  <2>1. r \in Subscribers /\ r \in targets[q] /\ ~(q = p /\ r = s)
    BY <1>4, <1>5 DEF TypeOK
  <2>2. InFlight!(q)!(r)
    BY <2>1 DEF InFlight
  <2>3. CASE r = s
    <3>1. q # p /\ history[k].by # q
      BY <2>1, <2>3, <1>7
    <3>2. ASSUME NEW i \in 1..Len(out'[r]), history[out'[r][i]].by = q
          PROVE  out'[r][i] < elem[q]
      <4>1. i \in 1..m \/ i = m + 1
        BY <2>3, <1>1, <1>2
      <4>2. i # m + 1
        BY <2>3, <3>1, <3>2, <1>2
      <4>3. out'[r][i] = out[s][i] /\ i \in 1..Len(out[s])
        BY <4>1, <4>2, <2>3, <1>2, <1>m
      <4> QED
        BY <4>3, <2>2, <2>3, <3>2
    <3> QED
      BY <2>2, <3>2, <1>0
  <2>4. CASE r # s
    BY <2>1, <2>2, <2>4, <1>0, <1>3
  <2> QED
    BY <2>3, <2>4
<1>12. ExactlyOnce'
  <2> SUFFICES ASSUME NEW r \in Subscribers
               PROVE  ExactlyOnce!(r)'
    BY DEF ExactlyOnce
  <2>1. \A i, j \in 1..Len(out'[r]) : out'[r][i] = out'[r][j] => i = j
    <3>1. \A i, j \in 1..Len(out[r]) : out[r][i] = out[r][j] => i = j
      BY DEF ExactlyOnce
    <3>2. CASE r = s
      <4> SUFFICES ASSUME NEW i \in 1..(m + 1), NEW j \in 1..(m + 1),
                          out'[s][i] = out'[s][j]
                   PROVE  i = j
        BY <3>2, <1>2
      <4>1. CASE i \in 1..m /\ j \in 1..m
        BY <3>1, <3>2, <4>1, <1>m, <1>2
      <4>2. CASE i = m + 1 /\ j = m + 1
        BY <4>2
      <4>3. CASE (i \in 1..m /\ j = m + 1) \/ (i = m + 1 /\ j \in 1..m)
        BY <4>3, <1>2, <1>8
      <4> QED
        BY <4>1, <4>2, <4>3, <1>1
    <3>3. CASE r # s
      BY <3>1, <3>3, <1>3
    <3> QED
      BY <3>2, <3>3
  <2>2. ASSUME sub'[r] = "live", NEW h \in 1..Len(history')
        PROVE  /\ Delivered(h, r)' \/ h \in dropped'[r] \/ Pending(h, r)'
               /\ ~(Delivered(h, r)' /\ h \in dropped'[r])
               /\ ~(Delivered(h, r)' /\ Pending(h, r)')
               /\ ~(h \in dropped'[r] /\ Pending(h, r)')
    <3>1. ExactlyOnce!(r)!2!2!(h)
      BY <2>2, <1>0 DEF ExactlyOnce
    <3>2. CASE r # s
      <4>1. /\ Delivered(h, r)' <=> Delivered(h, r)
            /\ Pending(h, r)' <=> Pending(h, r)
        BY <3>2, <1>0, <1>3, <1>4 DEF Delivered, Pending
      <4> QED
        BY <3>1, <4>1, <1>0
    <3>3. CASE r = s /\ h # k
      <4>1. Delivered(h, r)' <=> Delivered(h, r)
        <5>1. (\E i \in 1..(m + 1) : out'[s][i] = h)
                <=> (\E i \in 1..m : out[s][i] = h)
          BY <3>3, <1>1, <1>2
        <5> QED
          BY <5>1, <3>3, <1>m, <1>2 DEF Delivered
      <4>2. Pending(h, r)' <=> Pending(h, r)
        BY <3>3, <1>0, <1>k, <1>4 DEF Pending
      <4> QED
        BY <3>1, <4>1, <4>2, <1>0
    <3>4. CASE r = s /\ h = k
      <4>1. Delivered(h, r)'
        BY <3>4, <1>1, <1>2 DEF Delivered
      <4>2. ~Pending(h, r)'
        BY <3>4, <1>0, <1>4, <1>10 DEF Pending
      <4> QED
        BY <3>4, <4>1, <4>2, <1>0, <1>7
    <3> QED
      BY <3>2, <3>3, <3>4
  <2> QED
    BY <2>1, <2>2
<1>13. ProducerOrder'
  <2> SUFFICES ASSUME NEW r \in Subscribers
               PROVE  ProducerOrder!(r)'
    BY DEF ProducerOrder
  <2>1. CASE r = s
    <3> SUFFICES ASSUME NEW i \in 1..(m + 1), NEW j \in 1..(m + 1), i < j,
                        history[out'[s][i]].by = history[out'[s][j]].by
                 PROVE  out'[s][i] < out'[s][j]
      BY <2>1, <1>0, <1>2 DEF ProducerOrder
    <3>1. i \in 1..m /\ out'[s][i] = out[s][i]
      BY <1>1, <1>2
    <3>2. CASE j = m + 1
      BY <3>1, <3>2, <1>2, <1>7
    <3>3. CASE j \in 1..m
      BY <3>1, <3>3, <1>m, <1>2 DEF ProducerOrder
    <3> QED
      BY <3>2, <3>3, <1>1
  <2>2. CASE r # s
    BY <2>2, <1>0, <1>3 DEF ProducerOrder
  <2> QED
    BY <2>1, <2>2
<1>14. Before'
  BY <1>0, <1>4 DEF Before
<1>15. RealTimeOrder'
  <2> SUFFICES ASSUME NEW r \in Subscribers, NEW i \in 1..Len(out'[r]),
                      NEW j \in 1..Len(out'[r]), i < j
               PROVE  out'[r][j] \notin before[out'[r][i]]
    BY <1>0 DEF RealTimeOrder
  <2>1. CASE r = s
    <3>1. i \in 1..m /\ out'[s][i] = out[s][i] /\ out[s][i] \in 1..Len(history)
      BY <2>1, <1>m, <1>1, <1>2 DEF Recorded
    <3>2. CASE j = m + 1
      BY <2>1, <3>1, <3>2, <1>0, <1>k, <1>2 DEF Before
    <3>3. CASE j # m + 1
      <4>1. j \in 1..m /\ out'[s][j] = out[s][j]
        BY <2>1, <3>3, <1>1, <1>2
      <4>2. out[s][j] \notin before[out[s][i]]
        BY <3>1, <4>1, <1>m DEF RealTimeOrder
      <4> QED
        BY <2>1, <3>1, <4>1, <4>2
    <3> QED
      BY <3>2, <3>3
  <2>2. CASE r # s
    BY <2>2, <1>3 DEF RealTimeOrder
  <2> QED
    BY <2>1, <2>2
<1> QED
  BY <1>5, <1>6, <1>9, <1>11, <1>12, <1>13, <1>14, <1>15

(* A send that finds the channel full.                                     *)
LEMMA DropStep ==
  ASSUME IInv, NEW p \in Producers, NEW s \in Subscribers, SendDrops(p, s)
  PROVE  IInv'
<1> USE FlowAssumption DEF IInv
<1> DEFINE k == elem[p]
<1>1. UNCHANGED <<locked, closed, history, nextSequence, elem, before, sub,
                  out, read, panicked>>
      /\ s \in targets[p]
  BY DEF SendDrops
<1>2. dropped' \in [Subscribers -> SUBSET Nat]
      /\ dropped'[s] = dropped[s] \cup {k}
      /\ \A r \in Subscribers \ {s} : dropped'[r] = dropped[r]
  BY DEF TypeOK, SendDrops
<1>3. targets' \in [Producers -> SUBSET Subscribers]
      /\ targets'[p] = targets[p] \ {s}
      /\ \A q \in Producers \ {p} : targets'[q] = targets[q]
  BY DEF Sent, TypeOK, SendDrops
<1>4. TypeOK'
  BY <1>1, <1>2, <1>3 DEF TypeOK
<1>5. OwnNumbers' /\ ClosedHasNoSubscribers'
      /\ ProducerOrder' /\ RealTimeOrder'
  BY <1>1 DEF OwnNumbers, ClosedHasNoSubscribers,
              Live, ProducerOrder, RealTimeOrder
<1>a. InFlight
  OBVIOUS
<1>6. /\ k \in 1..Len(history) /\ history[k].by = p
      /\ sub[s] \in {"live", "ended"}
      /\ \A i \in 1..Len(out[s]) :
           history[out[s][i]].by = p => out[s][i] < k
  BY ONLY <1>a, <1>1 DEF InFlight
<1>7. ~Delivered(k, s)
  BY <1>6 DEF Delivered, TypeOK
<1>8. Recorded'
  BY <1>1, <1>2, <1>6 DEF Recorded
<1>9. \A q \in Producers \ {p} : s \in targets[q] => elem[q] # k
  BY <1>6 DEF InFlight
<1>10. InFlight'
  <2> SUFFICES ASSUME NEW q \in Producers, NEW r \in targets'[q]
               PROVE  InFlight!(q)!(r)'
    BY DEF InFlight
  <2>1. r \in Subscribers /\ r \in targets[q] /\ ~(q = p /\ r = s)
    BY <1>3 DEF TypeOK
  <2>2. InFlight!(q)!(r)
    BY <2>1 DEF InFlight
  <2>3. elem[q] \notin dropped'[r]
    BY <2>1, <2>2, <1>2, <1>9
  <2> QED
    BY <2>2, <2>3, <1>1
<1>11. ExactlyOnce'
  <2> SUFFICES ASSUME NEW r \in Subscribers
               PROVE  ExactlyOnce!(r)'
    BY DEF ExactlyOnce
  <2>1. \A i, j \in 1..Len(out'[r]) : out'[r][i] = out'[r][j] => i = j
    BY <1>1 DEF ExactlyOnce
  <2>2. ASSUME sub'[r] = "live", NEW h \in 1..Len(history')
        PROVE  /\ Delivered(h, r)' \/ h \in dropped'[r] \/ Pending(h, r)'
               /\ ~(Delivered(h, r)' /\ h \in dropped'[r])
               /\ ~(Delivered(h, r)' /\ Pending(h, r)')
               /\ ~(h \in dropped'[r] /\ Pending(h, r)')
    <3>1. ExactlyOnce!(r)!2!2!(h) /\ (Delivered(h, r)' <=> Delivered(h, r))
      BY <2>2, <1>1 DEF ExactlyOnce, Delivered
    <3>2. CASE ~(r = s /\ h = k)
      <4>1. Pending(h, r)' <=> Pending(h, r)
        BY <3>2, <1>1, <1>3 DEF Pending
      <4>2. h \in dropped'[r] <=> h \in dropped[r]
        BY <3>2, <1>2
      <4> QED
        BY <3>1, <4>1, <4>2
    <3>3. CASE r = s /\ h = k
      <4>1. ~Pending(h, r)'
        BY <3>3, <1>1, <1>3, <1>9 DEF Pending
      <4> QED
        BY <3>1, <3>3, <4>1, <1>2, <1>7
    <3> QED
      BY <3>2, <3>3
  <2> QED
    BY <2>1, <2>2
<1>12. Before'
  BY <1>1, <1>3 DEF Before
<1> QED
  BY <1>4, <1>5, <1>8, <1>10, <1>11, <1>12

(* A reader takes an element; the process panics.                          *)
LEMMA ReadStep ==
  ASSUME IInv, UNCHANGED <<locked, closed, pushVars, sub, out, dropped>>,
         panicked' \in BOOLEAN,
         \/ UNCHANGED read
         \/ \E s \in Subscribers : Receive(s)
  PROVE  IInv'
<1> USE FlowAssumption DEF IInv, pushVars
<1>1. TypeOK'
  <2>1. CASE UNCHANGED read
    BY <2>1 DEF TypeOK
  <2>2. ASSUME NEW s \in Subscribers, Receive(s) PROVE TypeOK'
    <3>1. read' \in [Subscribers -> Nat] /\ read'[s] = read[s] + 1
          /\ read[s] < Len(out[s])
          /\ \A r \in Subscribers \ {s} : read'[r] = read[r]
      BY <2>2 DEF Receive, TypeOK
    <3>2. \A r \in Subscribers : read[r] \in Nat /\ Len(out[r]) \in Nat
      BY DEF TypeOK
    <3>3. ASSUME NEW r \in Subscribers
          PROVE  /\ read'[r] <= Len(out'[r])
                 /\ Len(out'[r]) - read'[r] <= Capacity
      <4>1. read[r] <= Len(out[r]) /\ Len(out[r]) - read[r] <= Capacity
        BY DEF TypeOK
      <4> QED
        BY <3>1, <3>2, <4>1
    <3> QED
      BY <3>1, <3>3 DEF TypeOK
  <2> QED
    BY <2>1, <2>2
<1>2. Recorded'
  BY DEF Recorded, Receive, TypeOK
<1>3. OwnNumbers' /\ InFlight' /\ ProducerOrder' /\ RealTimeOrder' /\ Before'
  BY DEF OwnNumbers, InFlight, ProducerOrder, RealTimeOrder, Before
<1>4. ExactlyOnce'
  BY DEF ExactlyOnce, Delivered, Pending
<1>5. ClosedHasNoSubscribers'
  BY DEF ClosedHasNoSubscribers, Live
<1> QED
  BY <1>1, <1>2, <1>3, <1>4, <1>5

(* Every step of CellFlow preserves the invariant.                         *)
LEMMA NextIInv == IInv /\ [Next]_vars => IInv'
<1> SUFFICES ASSUME IInv, [Next]_vars PROVE IInv'
  OBVIOUS
<1>0. TypeOK
  BY DEF IInv
<1>1. ASSUME NEW s \in Subscribers, FlowCall(s) \/ FlowClosed(s) \/ Cancel(s)
      PROVE  IInv'
  <2>1. UNCHANGED <<locked, pushVars, chanVars, panicked, closed>>
    BY <1>1 DEF FlowCall, FlowClosed, Cancel
  <2>2. \/ sub[s] = "none" /\ sub' = [sub EXCEPT ![s] = "calling"]
        \/ /\ sub[s] \in {"calling", "live"}
           /\ sub' = [sub EXCEPT ![s] = "ended"]
    BY <1>1 DEF FlowCall, FlowClosed, Cancel
  <2>3. closed' => \A r \in Subscribers : sub'[r] # "live"
    BY <1>0, <2>1, <2>2 DEF IInv, ClosedHasNoSubscribers, Live, TypeOK
  <2>4. sub' \in [Subscribers -> SubStates] /\ closed' \in BOOLEAN
        /\ \A r \in Subscribers :
             \/ sub'[r] = sub[r]
             \/ sub[r] = "none" /\ sub'[r] = "calling"
             \/ sub[r] \in {"calling", "live"} /\ sub'[r] = "ended"
    BY <1>0, <2>1, <2>2 DEF TypeOK, SubStates
  <2> QED
    BY <2>1, <2>3, <2>4, SubscriptionStep
<1>2. ASSUME Close PROVE IInv'
  <2>1. UNCHANGED <<locked, pushVars, chanVars, panicked>>
    BY <1>2 DEF Close
  <2>2. /\ sub' \in [Subscribers -> SubStates] /\ closed' \in BOOLEAN
        /\ \A r \in Subscribers :
             \/ sub'[r] = sub[r]
             \/ sub[r] = "live" /\ sub'[r] = "ended"
        /\ \A r \in Subscribers : sub'[r] # "live"
    BY <1>0, <1>2 DEF TypeOK, SubStates, Close
  <2> QED
    BY <2>1, <2>2, SubscriptionStep
<1>3. ASSUME NEW p \in Producers, NEW s \in Subscribers, SendPanics(p, s)
      PROVE  IInv'
  BY <1>3, ReadStep DEF SendPanics, chanVars
<1>4. ASSUME NEW s \in Subscribers, Receive(s) PROVE IInv'
  <2>1. UNCHANGED <<locked, closed, pushVars, sub, out, dropped>>
        /\ panicked' \in BOOLEAN
    BY <1>0, <1>4 DEF Receive, TypeOK
  <2> QED
    BY <2>1, <1>4, ReadStep
<1>5. ASSUME NEW p \in Owners, PushOwn(p) PROVE IInv'
  BY <1>5, PushStep DEF PushOwn, Producers
<1>6. ASSUME NEW p \in Absorbers, PushAbsorbed(p) PROVE IInv'
  <2>1. p \in Producers /\ p \notin Owners
    BY FlowAssumption DEF Producers
  <2>2. PICK sequence \in Upstream : Push(p, sequence)
    BY <1>6 DEF PushAbsorbed
  <2>3. sequence \in Nat
    BY FlowAssumption
  <2> QED
    BY <2>1, <2>2, <2>3, PushStep
<1>7. ASSUME UNCHANGED vars PROVE IInv'
  <2>1. UNCHANGED <<locked, closed, pushVars, sub, out, dropped>>
        /\ UNCHANGED read /\ panicked' \in BOOLEAN
    BY <1>0, <1>7 DEF vars, chanVars, TypeOK
  <2> QED
    BY <2>1, ReadStep
<1> QED
  BY <1>1, <1>2, <1>3, <1>4, <1>5, <1>6, <1>7, RegisterStep, OverflowStep,
     DeliverStep, DropStep DEF Next, FlowProceeds, Send

LEMMA Invariance == Spec => []IInv
  BY InitIInv, NextIInv, PTL DEF Spec

(* A history of own elements only is numbered 1, 2, 3 ...                  *)
LEMMA OwnNumbersReplay == IInv => OwnHistoryReplays
<1> SUFFICES ASSUME IInv,
                    \A i \in 1..Len(history) : history[i].by \in Owners
             PROVE  Replays
  BY DEF OwnHistoryReplays
<1>1. Len(history) \in Nat
      /\ \A i \in 1..Len(history) : history[i].sequence = i
  BY DEF IInv, OwnNumbers, TypeOK
<1> QED
  BY <1>1 DEF Replays

-----------------------------------------------------------------------------
(* Type correctness: in particular no channel of Flow holds more than its  *)
(* buffer, and none hands out an element it was not sent.                  *)
THEOREM FlowTypeCorrect == Spec => []TypeOK
<1>1. IInv => TypeOK
  BY DEF IInv
<1> QED
  BY <1>1, Invariance, PTL

(* The replay of Flow and the sends of PushFlowElement together give every *)
(* live subscription each element once, or count it lost to a full         *)
(* channel.                                                                *)
THEOREM EveryElementOnce == Spec => []ExactlyOnce
<1>1. IInv => ExactlyOnce
  BY DEF IInv
<1> QED
  BY <1>1, Invariance, PTL

(* One producer's elements arrive in the order it pushed them.             *)
THEOREM OrderOfProducers == Spec => []ProducerOrder
<1>1. IInv => ProducerOrder
  BY DEF IInv
<1> QED
  BY <1>1, Invariance, PTL

(* A push that has returned comes before all that is recorded later, for   *)
(* every subscriber and across producers.                                  *)
THEOREM OrderInRealTime == Spec => []RealTimeOrder
<1>1. IInv => RealTimeOrder
  BY DEF IInv
<1> QED
  BY <1>1, Invariance, PTL

(* A closed cell has no subscribers, whatever Flow calls race with Close.  *)
THEOREM CloseIsFinal == Spec => []ClosedHasNoSubscribers
<1>1. IInv => ClosedHasNoSubscribers
  BY DEF IInv
<1> QED
  BY <1>1, Invariance, PTL

(* ReplayFlow accepts the history of a cell that absorbs nothing.          *)
THEOREM OwnFlowReplays == Spec => []OwnHistoryReplays
  BY OwnNumbersReplay, Invariance, PTL
=============================================================================
