CONSTANTS
    m1 = m1
    m2 = m2
    m3 = m3
    single = single
    married = married
    Memories = {m1, m2, m3}
    ValueOf <- Values
    Writers = {w1, w2}
    Batches <- SmallBatches
    Graph = TRUE
    ChunkSize = 1
SPECIFICATION Spec
INVARIANTS
    TypeOK
    OneActiveValue
CHECK_DEADLOCK FALSE
