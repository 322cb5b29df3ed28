SPECIFICATION EitherSpec
CONSTANTS
    Refs = {webhook, r1, r2}
    System = {webhook}
    Users = {keep, u1}
    DefaultUser = keep
    Clients = {c1, c2}
    None = None
    webhook = webhook
    r1 = r1
    r2 = r2
    SecretNames = {r1, r2}
    NameOf <- Folded
    ForceReset = TRUE
    MaxKeys = 4
    MaxOps = 4
    MaxFaults = 1
    Incident = {i1, i2}
    Client = {k1, k2}
    User = {v1, v2}
    NoIncident = NoIncident
    NoUser = NoUser
    Status = {"acknowledged"}
    MaxRequests = 2
SYMMETRY Symm
CHECK_DEADLOCK FALSE
INVARIANTS KeysAreSound AnsweredDeletionHolds OnlyEntitledSignIn AssigneeIsOnRecord NotesAreSound
