-------------------------- MODULE MCSigningReplay ---------------------------
(* TLC instance of SigningReplay.                                          *)
EXTENDS SigningReplay, TLC
Sym == Permutations(Requests) \cup Permutations(Nonces)
=============================================================================
