---------------------------- MODULE MCRedisFanout ----------------------------
(* Model-checking instance of RedisFanout. *)
EXTENDS RedisFanout

=============================================================================
