-------------------------- MODULE MCSSEBroadcaster --------------------------
(* SSEBroadcaster for TLC: one tenant with two notifications, one with one. *)
EXTENDS SSEBroadcaster, TLC

CONSTANTS t1, t2

TwoTenants == {t1, t2}
TwoAndOne == (t1 :> 2) @@ (t2 :> 1)

=============================================================================
