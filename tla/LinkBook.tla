------------------------------ MODULE LinkBook ------------------------------
(***************************************************************************)
(* What the link records of places promise: a place has at most one active *)
(* link of an identity, a new one takes its place, and a link that was     *)
(* revoked or replaced is never active again.  Links are numbered in the   *)
(* order in which they are made.  Module EntityExtension implements this   *)
(* (KeepsBook).                                                            *)
(***************************************************************************)
EXTENDS Integers

CONSTANT Places

VARIABLES
    made,       \* how many links were made
    active,     \* place, identity -> the number of its active link, or 0
    revoked     \* place -> the links it has revoked

vars == <<made, active, revoked>>

Init ==
    /\ made = 0
    /\ active = [p \in Places |-> [i \in Places |-> 0]]
    /\ revoked = [p \in Places |-> {}]

Link(p, i) ==
    /\ made' = made + 1
    /\ active' = [active EXCEPT ![p][i] = made + 1]
    /\ revoked' = revoked

Revoke(p, i) ==
    /\ active[p][i] # 0
    /\ active' = [active EXCEPT ![p][i] = 0]
    /\ revoked' = [revoked EXCEPT ![p] = @ \cup {active[p][i]}]
    /\ made' = made

Next == \E p, i \in Places : Link(p, i) \/ Revoke(p, i)

Spec == Init /\ [][Next]_vars
=============================================================================
