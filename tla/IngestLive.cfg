SPECIFICATION FairSpec
CONSTANTS
    Docs = {d1, d2}
    d1 = d1
    d2 = d2
    NoDoc = NoDoc
    Connector = "blob"
    Changes = {"edit", "touch", "acl", "remove", "upload", "grow"}
    Faults = {"fail", "partial", "crash", "enum"}
    Modes = {"delta", "single"}
    MaxClock = 3
    MaxFaults = 1
INVARIANTS
    SkipIsSound
    AclSkipIsSound
PROPERTIES
    CleanFullScanMirrors
    EventuallyMirrored
