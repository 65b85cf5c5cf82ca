CONSTANTS
    a = a
    b = b
    t1 = t1
    t2 = t2
    f1 = f1
    f2 = f2
    lives = lives
    Clients = {c1, c2}
    Tenants = {a, b}
    Turns = {t1, t2}
    Facts = {f1, f2}
    NoFact = NoFact
    NoTuple = NoTuple
    TupleOf <- Tuples
    Parses <- FactLists
    Derived <- Structured
    Batches <- Requests
    Options <- ServerOptions
    VectorService = TRUE
    MaxCalls = 2
    MaxUnmarked = 1
SPECIFICATION Spec
SYMMETRY ClientSymmetry
INVARIANTS
    TypeOK
    AnswersMatchRequests
    
    
    UnembeddedOnlyAfterFailure
    IndexStateTellsOutcome
CHECK_DEADLOCK FALSE
