SPECIFICATION Spec
CONSTANTS
    Docs = {d1, d2}
    d1 = d1
    d2 = d2
    NoDoc = NoDoc
    Connector = "sharepoint"
    Changes = {"edit", "touch", "acl", "remove", "upload", "grow", "aclback", "restore"}
    Faults = {"fail", "partial", "crash", "enum", "aclread"}
    Modes = {"delta", "full", "forced", "single", "reindex"}
    MaxClock = 3
    MaxFaults = 1
SYMMETRY Symmetry
INVARIANTS
    TypeOK
    RowNeverAheadOfIndex
PROPERTIES
    HidesOnlyTheMissing
