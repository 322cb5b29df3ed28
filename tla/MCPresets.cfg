SPECIFICATION Spec
CONSTANTS
    Presets = {p1, p2}
    Names = {n1, n2}
    Tags = {g1, g2}
    Tabs = {b1}
    Users = {u1}
    Boards = {d1}
    Clients = {c1, c2}
    None = None
    TagLists <- UpToTwo
    Provisioned = {n1}
    MaxWork = 3
SYMMETRY Symm
CHECK_DEADLOCK FALSE
INVARIANTS PresetsAreSound RequestsAreWhole
