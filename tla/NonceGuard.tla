----------------------------- MODULE NonceGuard -----------------------------
(***************************************************************************)
(* What the store of used challenges promises: a signature is granted only *)
(* if its nonce is not guarded and fewer than Limit are; the nonce is then *)
(* guarded until the challenge has expired, and at that instant is free    *)
(* again.  Module SigningReplay, which forgets only when it next consumes, *)
(* implements this (GuardsNonces).                                         *)
(***************************************************************************)
EXTENDS Integers, FiniteSets

CONSTANTS Requests, Limit

VARIABLES
    now,
    asks,       \* request -> its nonce (key) and when it expires
    guards,     \* the nonces that are guarded, and until when
    granted     \* the requests that are to be signed

vars == <<now, asks, guards, granted>>

Current(entries, time) == {e \in entries : e.expiresAt >= time}

Init ==
    /\ now = 0
    /\ guards = {} /\ granted = {}

Grant(r) ==
    /\ r \notin granted
    /\ \A e \in guards : e.key # asks[r].key
    /\ Cardinality(guards) < Limit
    /\ guards' = Current(guards \cup {asks[r]}, now)
    /\ granted' = granted \cup {r}
    /\ UNCHANGED <<now, asks>>

\* The vault failed; the nonce stays guarded.
Withdraw(r) ==
    /\ granted' = granted \ {r}
    /\ UNCHANGED <<now, asks, guards>>

Pass ==
    /\ now' = now + 1
    /\ guards' = Current(guards, now + 1)
    /\ UNCHANGED <<asks, granted>>

Next == Pass \/ \E r \in Requests : Grant(r) \/ Withdraw(r)

Spec == Init /\ [][Next]_vars
=============================================================================
