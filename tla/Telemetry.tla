----------------------------- MODULE Telemetry -----------------------------
(***************************************************************************)
(* The telemetry service (internal/telemetry/service.go): four atomic      *)
(* counters and three structures under a lock each, a ring of request      *)
(* counts per minute, a ring of events and a map of counts per tenant.     *)
(* Every operator below is one atomic section of the code; an observation  *)
(* (RecordStore, RecordRequest...) takes several of them, one after        *)
(* another, and Serving interleaves them.  An event keeps its type, tenant *)
(* and status; times are minutes.                                          *)
(***************************************************************************)
EXTENDS Lists

CONSTANTS
    Tenants,      \* the identifiers a tenant can have
    NoTenant,     \* the empty tenant identifier
    Rank,         \* the order of the identifiers, as sort.Slice compares them
    Window,       \* RequestWindowMinutes (30)
    Capacity,     \* EventBufferSize (256)
    MaxMinute     \* bound: the last minute of the clock

ASSUME TelemetryAssumption ==
    /\ NoTenant \notin Tenants
    /\ Rank \in [Tenants -> Nat]
    /\ \A s, t \in Tenants : Rank[s] = Rank[t] => s = t
    /\ Window \in Nat \ {0}
    /\ Capacity \in Nat \ {0}
    /\ MaxMinute \in Nat

VARIABLES
    clock,           \* the current minute
    activeRequests,
    storeCount, batchStoreCount, searchCount,
    requestRing,     \* [0..Window-1 -> [minute, count]]
    events,          \* [0..Capacity-1 -> event]
    eventHead, eventSize,
    tenantCounts,    \* from the tenants seen so far to [writes, searches]
    recorded,        \* history: the minutes recordRequestMinute was given
    appended         \* history: the events appendEvent was given

counters == <<storeCount, batchStoreCount, searchCount>>
minuteVars == <<requestRing, recorded>>
eventVars == <<events, eventHead, eventSize, appended>>
telemetryVars ==
    <<clock, activeRequests, counters, minuteVars, eventVars, tenantCounts>>

NoEvent == [type |-> "none", tenant |-> NoTenant, status |-> 0]

\* The real clock is far past its first window, where minute % Window would
\* meet a negative minute; the zero buckets of a new ring are then all stale.
FirstMinute == 2 * Window

NewService ==
    /\ clock = FirstMinute
    /\ activeRequests = 0
    /\ storeCount = 0
    /\ batchStoreCount = 0
    /\ searchCount = 0
    /\ requestRing = [i \in 0 .. Window - 1 |-> [minute |-> 0, count |-> 0]]
    /\ events = [i \in 0 .. Capacity - 1 |-> NoEvent]
    /\ eventHead = 0
    /\ eventSize = 0
    /\ tenantCounts = [t \in {} |-> [writes |-> 0, searches |-> 0]]
    /\ recorded = <<>>
    /\ appended = <<>>

\* A minute passes.
Tick ==
    /\ clock < FirstMinute + MaxMinute
    /\ clock' = clock + 1
    /\ UNCHANGED <<activeRequests, counters, minuteVars, eventVars, tenantCounts>>

----------------------------------------------------------------------------
(* The sections that change something *)

isSuccessStatus(status) == status \in 200 .. 399

\* recordRequestMinute: a bucket that holds another minute starts again.  The
\* middleware reads the clock just before the lock is taken; the two are one
\* step here, as only a wait of Window minutes could tell them apart.
MutantRecordRequestMinute ==
    LET i == clock % Window
    IN /\ requestRing' = [requestRing EXCEPT
              ![i] = [minute |-> clock, count |-> @.count + 1]]
       /\ recorded' = Append(recorded, clock)

RecordRequestMinute ==
    LET i == clock % Window
    IN /\ requestRing' = [requestRing EXCEPT
              ![i] = [minute |-> clock,
                      count  |-> IF @.minute # clock THEN 1 ELSE @.count + 1]]
       /\ recorded' = Append(recorded, clock)

\* appendEvent: the oldest event makes room once the ring is full.
MutantAppendEvent(event) ==
    /\ events' = [events EXCEPT ![eventHead] = event]
    /\ eventHead' = IF eventSize < Capacity THEN (eventHead + 1) % Capacity
                                            ELSE eventHead
    /\ eventSize' = IF eventSize < Capacity THEN eventSize + 1 ELSE eventSize
    /\ appended' = Append(appended, event)

AppendEvent(event) ==
    /\ events' = [events EXCEPT ![eventHead] = event]
    /\ eventHead' = (eventHead + 1) % Capacity
    /\ eventSize' = IF eventSize < Capacity THEN eventSize + 1 ELSE eventSize
    /\ appended' = Append(appended, event)

\* tenantCounts[tenant] gains some writes and searches; the empty tenant and
\* an empty gain are ignored.
AddTenant(tenant, writes, searches) ==
    IF tenant = NoTenant \/ writes + searches = 0
    THEN UNCHANGED tenantCounts
    ELSE tenantCounts' =
             [t \in DOMAIN tenantCounts \cup {tenant} |->
                 LET old == IF t \in DOMAIN tenantCounts
                            THEN tenantCounts[t]
                            ELSE [writes |-> 0, searches |-> 0]
                 IN IF t = tenant
                    THEN [writes   |-> old.writes + writes,
                          searches |-> old.searches + searches]
                    ELSE old]

----------------------------------------------------------------------------
(* The sections of Snapshot *)

\* requestsPerMinute: the counts of the Window minutes that end with now.
RequestsPerMinute(now) ==
    [minute \in now - Window + 1 .. now |->
        LET bucket == requestRing[minute % Window]
        IN IF bucket.minute = minute THEN bucket.count ELSE 0]

\* recentEvents: the newest events first.
RecentEvents(limit) ==
    [i \in 1 .. IF limit > eventSize THEN eventSize ELSE limit |->
        events[(eventHead - i + Capacity) % Capacity]]

\* topTenants: the order of sort.Slice, cut at the limit.
MutantBusier(s, t, byWrites) ==
    LET first(u)  == IF byWrites THEN tenantCounts[u].searches ELSE tenantCounts[u].writes
    IN \/ first(s) > first(t)
       \/ first(s) = first(t) /\ Rank[s] < Rank[t]

Busier(s, t, byWrites) ==
    LET first(u)  == IF byWrites THEN tenantCounts[u].writes ELSE tenantCounts[u].searches
        second(u) == IF byWrites THEN tenantCounts[u].searches ELSE tenantCounts[u].writes
    IN \/ first(s) > first(t)
       \/ first(s) = first(t) /\ second(s) > second(t)
       \/ first(s) = first(t) /\ second(s) = second(t) /\ Rank[s] < Rank[t]

BusierPairs(byWrites) ==
    {p \in (DOMAIN tenantCounts) \X (DOMAIN tenantCounts) : Busier(p[1], p[2], byWrites)}

TopTenants(limit, byWrites) ==
    LET sorted == SortedBy(DOMAIN tenantCounts, BusierPairs(byWrites))
    IN SubSeq(sorted, 1, IF Len(sorted) > limit THEN limit ELSE Len(sorted))
============================================================================
