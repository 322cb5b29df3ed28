----------------------------- MODULE MCPresets -----------------------------
(* Presets for TLC: bodies bring no tag, one, or two new ones. *)
EXTENDS Presets, TLC

UpToTwo == {<<>>} \cup {<<t>> : t \in TagDtos}
           \cup {<<t, u>> : <<t, u>> \in {x \in TagDtos \X TagDtos : x[1].new /\ x[2].new /\ x[1] # x[2]}}

Symm == Permutations(Clients) \cup Permutations(Presets) \cup Permutations(Tags)
=============================================================================
