SPECIFICATION Spec
CONSTANTS
    Names = {n1, n2}
    Provs = {p1}
    Clients = {c1, c2}
    Replicas = {r1, r2}
    None = None
    MaxRules = 3
    MaxWork = 4
SYMMETRY Symm
CHECK_DEADLOCK FALSE
INVARIANTS DeduplicationHolds RowsAreTold
PROPERTIES WritesStayInTheirColumns
