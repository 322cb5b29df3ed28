------------------------------ MODULE MCRules ------------------------------
(* Rules for TLC. *)
EXTENDS Rules, TLC

Symm == Permutations(Clients) \cup Permutations(Replicas) \cup Permutations(Names)
=============================================================================
