---------------------------- MODULE MCIncidents ----------------------------
(* Incidents for TLC: two alerts of different services and severities. *)
EXTENDS Incidents

CONSTANTS f1, f2

Symm == Permutations(Incident) \cup Permutations(Client)

TwoAlerts == {f1, f2}
ServiceOfTwo == (f1 :> "db") @@ (f2 :> "web")
SeverityOfTwo == (f1 :> 2) @@ (f2 :> 3)
=============================================================================
