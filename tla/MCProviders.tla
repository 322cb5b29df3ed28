---------------------------- MODULE MCProviders ----------------------------
(* Providers for TLC. *)
EXTENDS Providers, TLC

Symm == Permutations(Ids) \cup Permutations(Clients)
=============================================================================
