CONSTANTS
    m1 = m1
    m2 = m2
    p1 = p1
    p2 = p2
    Requests = {r1, r2}
    Inputs <- MCInputs
    Ids = {n1, n2}
    Moduli = {m1, m2}
    MaxStuck = 1
    ApiKeySet = TRUE
    Absent = Absent
    Partial = Partial
SPECIFICATION ProverSpec
CHECK_DEADLOCK FALSE
INVARIANTS
    ProverTypeOK
    RepliesAreOwn
    FilesAreInFlight
PROPERTIES
    ProvingEnds
    ShutdownEnds
