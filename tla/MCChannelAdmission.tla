------------------------- MODULE MCChannelAdmission -------------------------
(* TLC instance of ChannelAdmission.                                       *)
EXTENDS ChannelAdmission, TLC
MCOffsets == {-1}
Sym == Permutations(Clients) \cup Permutations(Servers)
       \cup Permutations(Identities) \cup Permutations(Endpoints)
=============================================================================
