SPECIFICATION Spec
CONSTANTS
    f1 = f1
    f2 = f2
    Incident = {i1, i2}
    Alert <- TwoAlerts
    Client = {c1, c2}
    NoIncident = NoIncident
    Service <- ServiceOfTwo
    Severity <- SeverityOfTwo
    MaxBatch = 2
    MaxSources = 2
    MaxRequests = 1
SYMMETRY Symm
CHECK_DEADLOCK FALSE
INVARIANTS TypeOK AggregatesFollowLinks MovedIsNeverLost
