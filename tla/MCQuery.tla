------------------------------ MODULE MCQuery ------------------------------
(* Query for TLC: the filters a client drafts and searches with. *)
EXTENDS Query

OrderOps == {"LT", "LE", "GT", "GE"}
Leaves ==
    {Cmp("severity", op, v) : op \in OrderOps \union {"EQ", "NE"},
                              v \in EnumValues \union {"Critical", "bogus"}}
    \union {Cmp("status", op, v) : op \in {"EQ", "LE", "GT"}, v \in {"low", "critical"}}
    \union {Cmp("assignee", op, v) : op \in {"EQ", "NE"}, v \in {Null, "ann", ""}}
    \union {Cmp("assignee", "contains", "ann"), Cmp("incident", "EQ", "i1")}
    \union {Cmp("nowhere", "EQ", "ann"), Bare("assignee"), Bare("severity")}
    \union {In("severity", {"low", "Critical"}), In("assignee", {"ann", Null})}
    \union {Has("severity"), Has("nowhere"), True, False, Const("ann")}

\* The right operands: one of each way the mapper treats a leaf.
Right ==
    {Cmp("severity", "LE", "critical"), Cmp("severity", "LT", "critical"),
     Cmp("severity", "GT", "critical"), Cmp("status", "EQ", "low"),
     Cmp("assignee", "NE", "ann"), Not(Cmp("severity", "LE", "Critical")),
     In("assignee", {"ann", Null}), Cmp("nowhere", "EQ", "ann"), Has("severity")}

Pairs == UNION {{And(l, r), Or(l, r)} : l \in Leaves \union {Not(e) : e \in Leaves}, r \in Right}

MCDrafts ==
    {Broken, Blank, Unsupported} \union Leaves \union {Not(e) : e \in Leaves}
    \union Pairs \union {Not(e) : e \in Pairs}

MCSearches ==
    {Empty, Broken, Cmp("severity", "GT", "low"),
     In("incident", {"i1", "i2"}),
     Or(Cmp("incident", "EQ", "i1"), Cmp("severity", "EQ", "low")),
     Cmp("nowhere", "EQ", "ann")}

Symm == Permutations(Alert)
=============================================================================
