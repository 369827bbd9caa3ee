SPECIFICATION Spec
CONSTANTS
    Sessions = {s1, s2}
    Clients = {c1}
    Nobody = Nobody
    PinLimit = 1
    MaxMsgs = 3
    MaxRev = 2
    Ops <- BrowserOps
SYMMETRY Symmetry
CHECK_DEADLOCK FALSE

    
PROPERTIES
    CleanupTakesOnlyEmpty
    ExtendsOrCuts
