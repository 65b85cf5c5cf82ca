CONSTANTS
    t1 = t1
    t2 = t2
    d1 = d1
    d2 = d2
    d3 = d3
    f1 = f1
    f2 = f2
    f3 = f3
    r1 = r1
    None = None
    Items = {t1}
    RawTurns = {t1}
    Derived = {d1, d2, d3}
    Workers = {w1, w2}
    Clients = {}
    Targets = {t1}
    Facts = {f1, f2, f3}
    Storable = {f1, f2}
    Parses <- OneTurnParses
    ContentOf <- DistinctContents
    TupleOf <- FactTuples
    Attempts = 2
    Embedded = TRUE
    MaxFaults = 1
SPECIFICATION Spec
SYMMETRY WorkerSymmetry
INVARIANTS
    TypeOK
    
    UnqueuedOnlyAfterFailure
CHECK_DEADLOCK FALSE
