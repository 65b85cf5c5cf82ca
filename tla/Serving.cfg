CONSTANTS
    Tenants <- MCTenants
    NoTenant = ""
    Rank <- MCRank
    Window = 2
    Capacity = 3
    MaxMinute = 2
    Slots = {r1, r2}
    RestRequests <- MCRestRequests
    Issuer = "pali"
    CallSlots = {k1, k2}
    Calls <- MCCalls
    Sessions <- MCSessions
    SessionID <- MCSessionID
    InitTenant <- MCInitTenant
    Settings <- MCSettings
    Initially <- MCInitially
    PageLimit = 2
    TopLimit = 1
    EventLimit = 2
    MaxRows = 1
    Budget = 6
SYMMETRY SlotSymmetry
CHECK_DEADLOCK FALSE
SPECIFICATION Spec
INVARIANTS
    TypeOK
    
    CallsActForOwnTenants
    SequentialSessionsRemember
    RecentEventsAreTheNewest
    
    CountersAddUp
    TopTenantsLead
