--------------------------- MODULE ChannelService ---------------------------
(***************************************************************************)
(* What an admitted bridge channel promises to the two ends, whatever the  *)
(* transport does: a connect signs for one connection, at the endpoint it  *)
(* dialled; a connection is signed for by one connect and admits that one, *)
(* once; a connect takes as its channel the connection that admitted it;   *)
(* and until the connection is over the Cell is used for that connect, one *)
(* command at a time: acted on under its key only, or asked whether some   *)
(* requester, who need not be the one that was admitted, may connect.      *)
(* Module ChannelAdmission implements this (ProvidesChannel).              *)
(***************************************************************************)
CONSTANTS Clients, Servers, Keys

VARIABLES
    key, dialled,   \* connect -> its identity, the endpoint it dials
    listens,        \* connection -> the endpoint it came in at
    signed,         \* connect -> the connections it has signed for
    admitted,       \* connection -> the connects it has admitted
    opened,         \* connect -> the connections it takes as its channel
    using,          \* connection -> what its command uses the Cell for
    over            \* the connections that have ended

given == <<key, dialled, listens>>
vars == <<given, signed, admitted, opened, using, over>>

Init ==
    /\ signed = [c \in Clients |-> {}]
    /\ admitted = [s \in Servers |-> {}]
    /\ opened = [c \in Clients |-> {}]
    /\ using = [s \in Servers |-> {}]
    /\ over = {}

Sign(c, s) ==
    /\ signed[c] = {} /\ \A d \in Clients : s \notin signed[d]
    /\ dialled[c] = listens[s]
    /\ signed' = [signed EXCEPT ![c] = {s}]
    /\ UNCHANGED <<given, admitted, opened, using, over>>

Admit(s, c) ==
    /\ s \in signed[c] /\ admitted[s] = {} /\ s \notin over
    /\ admitted' = [admitted EXCEPT ![s] = {c}]
    /\ UNCHANGED <<given, signed, opened, using, over>>

Open(c, s) ==
    /\ c \in admitted[s] /\ opened[c] = {}
    /\ opened' = [opened EXCEPT ![c] = {s}]
    /\ UNCHANGED <<given, signed, admitted, using, over>>

Act(s, c) ==
    /\ c \in admitted[s] /\ using[s] = {} /\ s \notin over
    /\ using' = [using EXCEPT ![s] = {[kind |-> "act", whom |-> key[c]]}]
    /\ UNCHANGED <<given, signed, admitted, opened, over>>

\* An answer about k, of no effect on the Cell, once somebody was admitted.
Ask(s, k) ==
    /\ admitted[s] # {} /\ using[s] = {} /\ s \notin over
    /\ using' = [using EXCEPT ![s] = {[kind |-> "ask", whom |-> k]}]
    /\ UNCHANGED <<given, signed, admitted, opened, over>>

Answer(s) ==
    /\ using' = [using EXCEPT ![s] = {}]
    /\ UNCHANGED <<given, signed, admitted, opened, over>>

End(s) ==
    /\ over' = over \cup {s}
    /\ using' = [using EXCEPT ![s] = {}]
    /\ UNCHANGED <<given, signed, admitted, opened>>

Next ==
    \E s \in Servers :
        \/ \E c \in Clients : Sign(c, s) \/ Admit(s, c) \/ Open(c, s) \/ Act(s, c)
        \/ \E k \in Keys : Ask(s, k)
        \/ Answer(s) \/ End(s)

Spec == Init /\ [][Next]_vars
=============================================================================
