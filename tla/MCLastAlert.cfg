SPECIFICATION Spec
CONSTANTS
    Fps = {f1, f2}
    Writers = {w1, w2}
    Requests = {r1}
    NoRow = NoRow
    MaxTs = 2
    MaxAttempts = 3
    MaxFaults = 2
    Payloads <- MCPayloads
    ClearLists <- MCClearLists
SYMMETRY Symm
CHECK_DEADLOCK FALSE
INVARIANTS TypeOK OccurrencesSettle ChoiceLasts RequestIsWhole
