CONSTANTS
    a = a
    b = b
    x = x
    y = y
    ann = ann
    hobby = hobby
    w1 = w1
    w2 = w2
    w3 = w3
    w4 = w4
    w5 = w5
    None = None
    Idf <- IdfTable
    Capacity = 2
    Searchers = {c1, c2}
    Tenants = {a, b}
    Memory <- Memories
    Stored = {1, 2, 4}
    Orphans = {5}
    Deletable = {1}
    Queries <- TheQueries
    TextWords <- TheTexts
    KeyOf <- TheKeys
    Similarity <- Near
    Requests <- TheRequests
    Settings <- Servers
    MaxSearches = 2
    MaxChanges = 1
SYMMETRY SearcherSymmetry
SPECIFICATION Spec
INVARIANTS
    TypeOK
    AnswersAreCurrent
    
    SettledMatchesAreFound
    CacheKeepsRecent
    VectorsBelongToQueries
    BetterSignalsRankHigher
CHECK_DEADLOCK FALSE
