SPECIFICATION Spec
CONSTANTS
    Alert = {a1, a2, a3}
    Incident = {"i1", "i2"}
    HardLimit = 2
    PageSize = 1
    MaxWrites = 3
    Searches <- MCSearches
    Drafts <- MCDrafts
SYMMETRY Symm
INVARIANTS FilterIsExact PagesAreSound FacetsCountBoth
