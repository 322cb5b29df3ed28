----------------------------- MODULE MCTenants -----------------------------
(* Tenants for TLC: a superadmin and two people with a group each. *)
EXTENDS Tenants, TLC

CONSTANTS sa, p1, p2, u1, g1, g2, t1, t2
Token == [c \in {sa, p1, p2} |->
             CASE c = sa -> {} [] c = p1 -> {u1, g1} [] c = p2 -> {g2}]
Admins == [t \in {t1, t2} |-> IF t = t1 THEN {u1, g2} ELSE {}]
Mappings == {[s \in {u1, g1, g2} |-> IF s = u1 THEN 2 ELSE IF s = g1 THEN 3 ELSE 0],
             [s \in {u1, g1, g2} |-> 2]}
Symm == Permutations(OpNames) \cup Permutations(TenantNames)
=============================================================================
