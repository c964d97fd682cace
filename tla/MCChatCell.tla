----------------------------- MODULE MCChatCell -----------------------------
(* Instances of ChatCell for TLC.                                          *)
EXTENDS ChatCell, TLC

Sym == Permutations(Members) \cup Permutations(Keys) \cup Permutations(Callers)

(* membership and talk share no variable: every action moves one of them,  *)
(* reads that one only and leaves the other alone, and every property is   *)
(* about one of them.  So it is enough to move each while the other rests. *)
OneHalfAtATime ==
    \/ sent = <<>> /\ composed = 0 /\ participants = {}
    \/ \A u \in Members : invitations[u] = NoInvitation /\ artifacts[u] = <<>>
=============================================================================
