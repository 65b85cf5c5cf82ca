CONSTANTS
    m1 = m1
    m2 = m2
    m3 = m3
    single = single
    married = married
    Memories = {m1, m2, m3}
    ValueOf <- Values
    Writers = {w1, w2}
    Batches <- SmallBatches
    Graph = FALSE
    ChunkSize = 1
SPECIFICATION Spec
INVARIANTS
    SomeValueActive
CHECK_DEADLOCK FALSE
