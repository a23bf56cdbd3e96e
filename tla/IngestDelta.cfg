SPECIFICATION Spec
CONSTANTS
    Docs = {d1, d2}
    d1 = d1
    d2 = d2
    NoDoc = NoDoc
    Connector = "sql"
    Changes = {"edit", "touch", "acl", "remove", "upload"}
    Faults = {"crash", "enum"}
    Modes = {"delta", "full"}
    MaxClock = 4
    MaxFaults = 1
SYMMETRY Symmetry
INVARIANTS
    NothingLostBehindCursor
