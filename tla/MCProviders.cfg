SPECIFICATION Spec
CONSTANTS
    Ids = {u1, u2}
    Names = {n1, n2}
    Clients = {c1, c2}
    None = None
    Consumers = {n1}
    Hooked = {n1}
    Refreshing = {n2}
    MaxOps = 3
    MaxFaults = 1
SYMMETRY Symm
CHECK_DEADLOCK FALSE
INVARIANTS StoresAreSound ProvisioningIsExact NoConsumerAfterShutdown
