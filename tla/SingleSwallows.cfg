SPECIFICATION Spec
CONSTANTS
    Docs = {d1, d2}
    d1 = d1
    d2 = d2
    NoDoc = NoDoc
    Connector = "sql"
    Changes = {"edit"}
    Faults = {}
    Modes = {"delta", "single"}
    MaxClock = 3
    MaxFaults = 0
SYMMETRY Symmetry
PROPERTIES
    SingleRunKeepsOtherChanges
