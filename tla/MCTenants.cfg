SPECIFICATION Spec
CONSTANTS
    sa = sa
    p1 = p1
    p2 = p2
    u1 = u1
    g1 = g1
    g2 = g2
    t1 = t1
    t2 = t2
    TenantIds = {t1, t2}
    TenantNames = {n1, n2}
    Callers = {sa, p1, p2}
    Superadmins = {sa}
    Subjects = {u1, g1, g2}
    Groups = {g1, g2}
    SubjectsOf <- Token
    OpNames = {o1, o2}
    None = None
    Assignments <- Mappings
    InitialAdmins <- Admins
    MaxOps = 3
    MaxSagas = 2
    MaxActive = 2
    MaxFaults = 1
    MaxKeys = 4
SYMMETRY Symm
CHECK_DEADLOCK FALSE
INVARIANTS OperatorsAgree LockoutNeedsStaleAuthority
