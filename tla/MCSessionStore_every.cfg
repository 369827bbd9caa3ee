SPECIFICATION Spec
CONSTANTS
    Sessions = {s1}
    Clients = {c1, c2}
    Nobody = Nobody
    PinLimit = 1
    MaxMsgs = 2
    MaxRev = 2
    Ops <- EveryOp
SYMMETRY Symmetry
CHECK_DEADLOCK FALSE
INVARIANTS
    TypeOK
PROPERTIES
    AppendOnlyAdds
    RevNeverFalls
