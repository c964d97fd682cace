----------------------------- MODULE TicketLife -----------------------------
(***************************************************************************)
(* What landings promise about invitation tickets.  A slot is a ticket at  *)
(* a landing.  It is registered, and takes replies, only by calls that     *)
(* came while the ticket was fresh; such a call may still be on its way    *)
(* when the ticket expires, but not when its grace is over.  A withdrawn   *)
(* slot takes no replies, no slot holds more than the agreed number, and   *)
(* one that is dropped never comes back.  Module Invitation implements     *)
(* this (LifeCycle).                                                       *)
(***************************************************************************)
EXTENDS Integers, FiniteSets

CONSTANTS
    Slots,
    Keys,       \* under which a slot may be registered
    Mail,       \* of a slot: the replies that may come to it
    Cap         \* how many of them may wait at once

VARIABLE
    slot        \* age:   of the ticket, "fresh", "expired" or "old"
                \* phase: "none", "open" or "withdrawn"
                \* due:   registrations on their way
                \* posts: replies on their way
                \* mail:  replies waiting to be handed out

vars == <<slot>>

Init == slot = [s \in Slots |-> [age |-> "fresh", phase |-> "none",
                                 due |-> {}, posts |-> {}, mail |-> {}]]

\* Calls that come in time and are kept waiting.
Call(s, k) ==
    /\ slot[s].age = "fresh"
    /\ slot'[s] = [slot[s] EXCEPT !.due = @ \cup {k}]

Post(s, r) ==
    /\ slot[s].age = "fresh"
    /\ slot'[s] = [slot[s] EXCEPT !.posts = @ \cup {r}]

\* A registration, at once or after waiting.
Open(s, k) ==
    /\ k \in slot[s].due \/ slot[s].age = "fresh"
    /\ slot[s].phase = "none"
    /\ slot'[s] = [slot[s] EXCEPT !.due = @ \ {k}, !.phase = "open"]

\* A reply, at once or after waiting.
Receives(s) == slot[s].phase = "open" /\ Cardinality(slot[s].mail) < Cap

Receive(s, r) ==
    /\ slot[s].age = "fresh"
    /\ Receives(s)
    /\ slot'[s] = [slot[s] EXCEPT !.mail = @ \cup {r}]

Deliver(s, r) ==
    /\ r \in slot[s].posts
    /\ Receives(s)
    /\ slot'[s] = [slot[s] EXCEPT !.mail = @ \cup {r}, !.posts = @ \ {r}]

\* Calls that are refused after waiting.
Refuse(s, k) == slot'[s] = [slot[s] EXCEPT !.due = @ \ {k}]

Dismiss(s, r) == slot'[s] = [slot[s] EXCEPT !.posts = @ \ {r}]

Withdraw(s) ==
    /\ slot[s].phase = "open"
    /\ slot'[s] = [slot[s] EXCEPT !.phase = "withdrawn"]

HandOut(s) ==
    /\ slot[s].phase # "none"
    /\ slot'[s] = [slot[s] EXCEPT !.mail = {}]

\* The clock.  When the grace is over nothing is on its way any more, and
\* the slot can be dropped.
Expire(s) ==
    /\ slot[s].age = "fresh"
    /\ slot'[s] = [slot[s] EXCEPT !.age = "expired"]

GrowOld(s) ==
    /\ slot[s].age = "expired"
    /\ slot[s].due = {}
    /\ slot'[s] = [slot[s] EXCEPT !.age = "old", !.posts = {}]

Drop(s) ==
    /\ slot[s].age = "old"
    /\ slot'[s] = [slot[s] EXCEPT !.phase = "none", !.mail = {}]

Step(s) ==
    \/ \E k \in Keys : Call(s, k) \/ Open(s, k) \/ Refuse(s, k)
    \/ \E r \in Mail[s] :
          Post(s, r) \/ Receive(s, r) \/ Deliver(s, r) \/ Dismiss(s, r)
    \/ Withdraw(s) \/ HandOut(s)
    \/ Expire(s) \/ GrowOld(s) \/ Drop(s)

Stay(s) == slot'[s] = slot[s]

\* Time moves several slots at once.
Next == \A s \in Slots : Stay(s) \/ Step(s)

Spec == Init /\ [][Next]_vars
=============================================================================
