------------------------------ MODULE Serving ------------------------------
(***************************************************************************)
(* The servers in front of the memory service: the REST API with its       *)
(* bearer tokens (internal/auth, internal/api), the MCP tools with their   *)
(* session tenants (internal/mcp/tools), the forms of the dashboard        *)
(* (internal/dashboard) and the tenants they share (internal/core/tenant,  *)
(* sqlite/tenant.go).                                                      *)
(*                                                                         *)
(* A REST request passes its middleware, its handler, one call of a        *)
(* service, and then the telemetry the handler and the middleware defer,   *)
(* one section of Telemetry per step.  An MCP call resolves its tenant in  *)
(* up to three steps (the session map is read and written under separate   *)
(* locks, the list of tenants is a query in between) and then acts.  What  *)
(* the memory service does inside a call is the business of SyncStore,     *)
(* Search and AsyncPipeline: here it is a row count per tenant that a      *)
(* store may raise and a deletion lower, also when the call fails.         *)
(***************************************************************************)
EXTENDS Telemetry

CONSTANTS
    Slots,          \* the REST requests that can be in progress together
    RestRequests,   \* what a REST client may send
    Issuer,         \* auth.issuer, or "" when none is configured
    CallSlots,      \* the MCP calls that can be in progress together
    Calls,          \* what an MCP client may send
    Sessions,       \* the MCP sessions
    SessionID,      \* their identifiers: "" over stdio
    InitTenant,     \* the tenant in a session's initialize metadata, or NoTenant
    Settings,       \* the configurations: auth.enabled and default_tenant_id
    Initially,      \* the tenants that may exist when the servers start
    PageLimit,      \* how many tenants the dashboard loads (200)
    TopLimit,       \* how many tenants a list of top tenants shows
    EventLimit,     \* how many events a snapshot shows
    MaxRows,        \* bound: rows of a tenant
    Budget          \* bound: what all requests, calls and forms may spend

VARIABLES
    config,          \* [auth |-> BOOLEAN, default |-> tenant or NoTenant]
    tenants,         \* the tenants table, newest first
    rows,            \* memories per tenant
    jobs,            \* the tenants that have postprocess jobs
    request,         \* the REST request in each slot
    call,            \* the MCP call in each slot
    sessionTenants,  \* Toolset.sessionTenants: identifier -> tenant or NoTenant
    spent,           \* what the operations begun so far have spent of the budget
    touched,         \* history: <<authenticated tenant, tenant>> of every effect or answer
    accepted, found, \* history: items stored with 201, searches answered 200, per tenant
    successes,       \* history: successful stores, batches and searches
    named,           \* history: the tenants the calls of a session named
    last,            \* history: the tenant the last call of a session acted for
    overlapped       \* history: the sessions that had two calls at once

database == <<tenants, rows, jobs>>
restGhosts == <<touched, accepted, found, successes>>
sessionGhosts == <<named, last, overlapped>>
restVars == <<request, restGhosts, telemetryVars>>
mcpVars == <<call, sessionTenants, sessionGhosts>>
vars == <<config, database, restVars, mcpVars, spent>>

SomeTenant == Tenants \cup {NoTenant}
RequestOps == {"store", "store_batch", "ingest", "ingest_batch", "search", "jobs",
               "job", "delete", "tenant_create", "tenant_stats"}
Item == [tenant : SomeTenant, valid : BOOLEAN]

\* Only a batch has more or fewer items than one; the database starts without
\* duplicates; sessions with an identifier have one of their own.
ASSUME RestAssumption ==
    \A q \in RestRequests :
        /\ q.op \in RequestOps
        /\ q.items \in Seq(Item)
        /\ q.op \notin {"store_batch", "ingest_batch"} => Len(q.items) = 1
        /\ q.token.tenant \in SomeTenant
ASSUME SettingsAssumption ==
    /\ Settings \subseteq [auth : BOOLEAN, default : SomeTenant]
    /\ \A ts \in Initially :
          /\ ts \in Seq(Tenants)
          /\ \A i, j \in 1 .. Len(ts) : ts[i] = ts[j] => i = j
ASSUME SessionAssumption ==
    /\ Sessions # {}
    /\ InitTenant \in [Sessions -> SomeTenant]
    /\ \A s, t \in Sessions : SessionID[s] = SessionID[t] => s = t \/ SessionID[s] = ""
ASSUME BoundsAssumption ==
    /\ IsFiniteSet(Slots)
    /\ MaxRows \in Nat
    /\ EventLimit \in Nat
    /\ PageLimit \in Nat
    /\ TopLimit \in Nat \ {0}
SessionIDs == {SessionID[s] : s \in Sessions}
Existing == {tenants[i] : i \in 1 .. Len(tenants)}

IdleRequest ==
    [pc |-> "idle", op |-> "none", items |-> <<>>, caller |-> NoTenant,
     status |-> 0, tenant |-> NoTenant, writes |-> {}]

IdleCall ==
    [pc |-> "idle", tool |-> "none", session |-> CHOOSE s \in Sessions : TRUE,
     explicit |-> NoTenant, token |-> NoTenant, meta |-> NoTenant,
     valid |-> TRUE, tenant |-> NoTenant]

Init ==
    /\ NewService
    /\ config \in Settings
    /\ tenants \in Initially
    /\ rows = [t \in Tenants |-> 0]
    /\ jobs = {}
    /\ request = [r \in Slots |-> IdleRequest]
    /\ call = [k \in CallSlots |-> IdleCall]
    /\ sessionTenants = [id \in SessionIDs |-> NoTenant]
    /\ spent = 0
    /\ touched = {}
    /\ accepted = [t \in Tenants |-> 0]
    /\ found = [t \in Tenants |-> 0]
    /\ successes = [op \in {"store", "store_batch", "search"} |-> 0]
    /\ named = [s \in Sessions |-> {}]
    /\ last = [s \in Sessions |-> NoTenant]
    /\ overlapped = {}

\* The bound on the number of operations: a request weighs 3, an MCP call 2
\* and a form 1, for the steps they take.
Spend(weight) == spent + weight <= Budget /\ spent' = spent + weight

----------------------------------------------------------------------------
(* What the services do to the tables *)

\* The rows after a store for some tenants: deduplication may add none, and a
\* store that fails half-way leaves what it had inserted.
RowsAfterStore(ts) ==
    {[t \in Tenants |-> IF t \in grown THEN rows[t] + 1 ELSE rows[t]] :
        grown \in SUBSET {t \in ts : rows[t] < MaxRows}}

RowsAfterDelete(t) == [rows EXCEPT ![t] = @ - 1]

\* sqlite/tenant.go, Create: the primary key refuses a second row.
InsertTenant(t) == tenants' = <<t>> \o tenants

\* sqlite/tenant.go, List: the newest tenants.
ListTenants(limit) == SubSeq(tenants, 1, IF Len(tenants) > limit THEN limit ELSE Len(tenants))

----------------------------------------------------------------------------
(* REST: authentication, binding and tenant access *)

\* GenerateTenantToken: what an operator hands to a client of a tenant.
IssueToken(tenant) == [bearer |-> TRUE, signed |-> TRUE, issuer |-> Issuer, tenant |-> tenant]

\* The tier, kind, origin, filters... of an item parse.
FieldsParse(item) == item.valid

\* JWTAuthenticator.Authenticate: the tenant of a token, NoTenant for 401.
Authenticate(token) ==
    IF /\ token.bearer
       /\ token.signed
       /\ Issuer = "" \/ token.issuer \in {"", Issuer}
    THEN token.tenant
    ELSE NoTenant

\* enforceTenantAccess: 0, or the status of its error.
EnforceTenantAccess(caller, tenant) ==
    IF tenant = NoTenant THEN 400
    ELSE IF caller # NoTenant /\ caller # tenant THEN 403 ELSE 0

\* The first error of a body's items: the tenant is checked before the fields.
BindItem(caller, item) ==
    IF EnforceTenantAccess(caller, item.tenant) # 0
    THEN EnforceTenantAccess(caller, item.tenant)
    ELSE IF FieldsParse(item) THEN 0 ELSE 400

BindItems(caller, items) ==
    LET failing == {i \in 1 .. Len(items) : BindItem(caller, items[i]) # 0}
    IN IF failing = {} THEN 0
       ELSE BindItem(caller, items[CHOOSE i \in failing : \A j \in failing : i <= j])

\* The status a handler answers before it calls a service, or 0.
Bind(q, caller) ==
    IF ~q.json \/ q.items = <<>> THEN 400
    ELSE CASE q.op = "search" ->
                IF FieldsParse(q.items[1]) THEN EnforceTenantAccess(caller, q.items[1].tenant)
                                           ELSE 400
           [] q.op = "job" -> 0
           [] OTHER -> BindItems(caller, q.items)

TenantsOf(items) == {items[i].tenant : i \in 1 .. Len(items)}

\* setTelemetryTenant: a search names its tenant before it is checked, a store
\* once it is bound, a batch only when all its items agree.
TelemetryTenant(q, bound) ==
    IF \/ q.op \in {"store", "store_batch"} /\ bound = 0 /\ Cardinality(TenantsOf(q.items)) = 1
       \/ q.op = "search" /\ q.json
    THEN q.items[1].tenant
    ELSE NoTenant

\* Where a request goes once its status is known: what the handler defers,
\* then what the middleware does.
AfterHandler(op, status) ==
    CASE op \in {"store", "search"} /\ isSuccessStatus(status) -> "count"
      [] op = "store_batch" /\ isSuccessStatus(status) -> "writes"
      [] op \in {"store", "store_batch", "search"} /\ ~isSuccessStatus(status) -> "event"
      [] OTHER -> "minute"

\* A request arrives: RequestStarted, the auth middleware and the handler up
\* to its service call.
Arrive(r, q) ==
    LET caller  == IF config.auth THEN Authenticate(q.token) ELSE NoTenant
        refused == config.auth /\ caller = NoTenant
        bound   == Bind(q, caller)
    IN /\ request[r].pc = "idle"
       /\ Spend(3)
       /\ activeRequests' = activeRequests + 1
       /\ request' = [request EXCEPT ![r] =
              IF refused
              THEN [IdleRequest EXCEPT !.pc = "minute", !.op = q.op, !.status = 401]
              ELSE [pc     |-> IF bound = 0 THEN "service" ELSE AfterHandler(q.op, bound),
                    op     |-> q.op,
                    items  |-> IF bound = 0 THEN q.items ELSE <<>>,
                    caller |-> caller,
                    status |-> bound,
                    tenant |-> TelemetryTenant(q, bound),
                    writes |-> IF bound = 0 /\ q.op \in {"store", "store_batch", "search"}
                               THEN TenantsOf(q.items) ELSE {}]]
       /\ UNCHANGED <<config, database, mcpVars, restGhosts, clock, counters,
                      minuteVars, eventVars, tenantCounts>>

----------------------------------------------------------------------------
(* REST: the service calls *)

\* The handler has its answer.
Answer(r, status) ==
    LET q  == request[r]
        ok == isSuccessStatus(status)
        n(t) == Cardinality({i \in 1 .. Len(q.items) : q.items[i].tenant = t})
    IN /\ request' = [request EXCEPT ![r].status = status,
                                     ![r].pc = AfterHandler(q.op, status)]
       /\ accepted' = IF ok /\ q.op \in {"store", "store_batch"}
                      THEN [t \in Tenants |-> accepted[t] + n(t)] ELSE accepted
       /\ found' = IF ok /\ q.op = "search"
                   THEN [t \in Tenants |-> found[t] + n(t)] ELSE found
       /\ successes' = IF ok /\ q.op \in DOMAIN successes
                       THEN [successes EXCEPT ![q.op] = @ + 1] ELSE successes
       /\ UNCHANGED <<config, mcpVars, spent, telemetryVars>>

\* The request read or changed something of these tenants.
Touch(r, ts) == touched' = touched \cup ({request[r].caller} \X ts)

\* Every service call first asks whether its tenants exist.
TenantMissing(r) ==
    /\ request[r].pc = "service"
    /\ request[r].op \notin {"job", "tenant_create"}
    /\ ~(TenantsOf(request[r].items) \subseteq Existing)
    /\ Answer(r, 404)
    /\ UNCHANGED <<database, touched>>

\* Store and StoreBatch; one that fails may leave rows behind, one with an
\* empty content stores nothing.
StoreMemories(r) ==
    LET ts == TenantsOf(request[r].items)
    IN /\ request[r].pc = "service"
       /\ request[r].op \in {"store", "store_batch"}
       /\ ts \subseteq Existing
       /\ \/ /\ rows' \in RowsAfterStore(ts)
             /\ Touch(r, ts)
             /\ \E status \in {201, 500} : Answer(r, status)
          \/ Answer(r, 400) /\ UNCHANGED <<rows, touched>>
       /\ UNCHANGED <<tenants, jobs>>

\* Ingest and IngestBatch: the rows and their jobs, in one transaction.
IngestMemories(r) ==
    LET ts == TenantsOf(request[r].items)
    IN /\ request[r].pc = "service"
       /\ request[r].op \in {"ingest", "ingest_batch"}
       /\ ts \subseteq Existing
       /\ \/ /\ rows' \in RowsAfterStore(ts)
             /\ jobs' = jobs \cup ts
             /\ Touch(r, ts)
             /\ Answer(r, 202)
          \/ /\ UNCHANGED <<rows, jobs, touched>>
             /\ \E status \in {400, 500} : Answer(r, status)
       /\ UNCHANGED tenants

\* A handler that only reads what its tenant has; some queries are refused.
ReadTenant(r, op) ==
    LET ts == TenantsOf(request[r].items)
    IN /\ request[r].pc = "service"
       /\ request[r].op = op
       /\ ts \subseteq Existing
       /\ \/ Answer(r, 200) /\ Touch(r, ts)
          \/ \E status \in {400, 500} : Answer(r, status) /\ UNCHANGED touched
       /\ UNCHANGED database

SearchMemories(r) == ReadTenant(r, "search")
ListPostprocessJobs(r) == ReadTenant(r, "jobs")
TenantStats(r) == ReadTenant(r, "tenant_stats")

\* GetPostprocessJob: the job is fetched first, then its tenant is checked.
MutantGetPostprocessJob(r) ==
    /\ request[r].pc = "service"
    /\ request[r].op = "job"
    /\ \/ Answer(r, 404) /\ UNCHANGED touched
       \/ \E t \in jobs : Answer(r, 200) /\ Touch(r, {t})
    /\ UNCHANGED database

GetPostprocessJob(r) ==
    /\ request[r].pc = "service"
    /\ request[r].op = "job"
    /\ \/ Answer(r, 404) /\ UNCHANGED touched
       \/ \E t \in jobs :
             LET denied == EnforceTenantAccess(request[r].caller, t)
             IN IF denied = 0 THEN Answer(r, 200) /\ Touch(r, {t})
                              ELSE Answer(r, denied) /\ UNCHANGED touched
    /\ UNCHANGED database

\* Delete: a row of the tenant, or an identifier it has no row for.
DeleteMemory(r) ==
    LET t == request[r].items[1].tenant
    IN /\ request[r].pc = "service"
       /\ request[r].op = "delete"
       /\ t \in Existing
       /\ \/ /\ rows[t] > 0
             /\ rows' = RowsAfterDelete(t)
             /\ Touch(r, {t})
             /\ \E status \in {204, 500} : Answer(r, status)
          \/ /\ UNCHANGED <<rows, touched>>
             /\ \E status \in {404, 500} : Answer(r, status)
       /\ UNCHANGED <<tenants, jobs>>

\* A second request with the same identifier is answered 409.
MutantCreateTenant(r) ==
    LET t == request[r].items[1].tenant
    IN /\ request[r].pc = "service"
       /\ request[r].op = "tenant_create"
       /\ InsertTenant(t) /\ Touch(r, {t}) /\ Answer(r, 201)
       /\ UNCHANGED <<rows, jobs>>

CreateTenant(r) ==
    LET t == request[r].items[1].tenant
    IN /\ request[r].pc = "service"
       /\ request[r].op = "tenant_create"
       /\ \/ t \notin Existing /\ InsertTenant(t) /\ Touch(r, {t}) /\ Answer(r, 201)
          \/ t \in Existing /\ Answer(r, 409) /\ UNCHANGED <<tenants, touched>>
       /\ UNCHANGED <<rows, jobs>>

----------------------------------------------------------------------------
(* REST: the telemetry of a request, one section per step *)

Goto(r, pc) == request' = [request EXCEPT ![r].pc = pc]
RecordFrame == UNCHANGED <<config, database, mcpVars, spent, restGhosts, clock>>

\* storeCount, batchStoreCount or searchCount.
CountSuccess(r) ==
    LET op == request[r].op
    IN /\ request[r].pc = "count"
       /\ storeCount' = IF op = "store" THEN storeCount + 1 ELSE storeCount
       /\ batchStoreCount' = IF op = "store_batch" THEN batchStoreCount + 1 ELSE batchStoreCount
       /\ searchCount' = IF op = "search" THEN searchCount + 1 ELSE searchCount
       /\ Goto(r, IF op = "store_batch" THEN "event" ELSE "writes")
       /\ RecordFrame
       /\ UNCHANGED <<activeRequests, minuteVars, eventVars, tenantCounts>>

\* addTenantWrites or addTenantSearches, tenant after tenant.
MutantCountTenant(r) ==
    LET q == request[r]
    IN /\ q.pc = "writes"
       /\ \E t \in q.writes :
             /\ AddTenant(t, IF q.op = "search" THEN 0 ELSE 1,
                             IF q.op = "search" THEN 1 ELSE 0)
             /\ request' = [request EXCEPT ![r].writes = @ \ {t},
                               ![r].pc = IF q.writes # {t} THEN "writes"
                                         ELSE IF q.op = "store_batch" THEN "count" ELSE "event"]
       /\ RecordFrame
       /\ UNCHANGED <<activeRequests, counters, minuteVars, eventVars>>

CountTenant(r) ==
    LET q == request[r]
        n(t) == Cardinality({i \in 1 .. Len(q.items) : q.items[i].tenant = t})
    IN /\ q.pc = "writes"
       /\ \E t \in q.writes :
             /\ AddTenant(t, IF q.op = "search" THEN 0 ELSE n(t),
                             IF q.op = "search" THEN 1 ELSE 0)
             /\ request' = [request EXCEPT ![r].writes = @ \ {t},
                               ![r].pc = IF q.writes # {t} THEN "writes"
                                         ELSE IF q.op = "store_batch" THEN "count" ELSE "event"]
       /\ RecordFrame
       /\ UNCHANGED <<activeRequests, counters, minuteVars, eventVars>>

\* The event of the handler: a batch of several tenants names none.
RecordEvent(r) ==
    /\ request[r].pc = "event"
    /\ AppendEvent([type |-> request[r].op, tenant |-> request[r].tenant,
                    status |-> request[r].status])
    /\ Goto(r, "minute")
    /\ RecordFrame
    /\ UNCHANGED <<activeRequests, counters, minuteVars, tenantCounts>>

RecordMinute(r) ==
    /\ request[r].pc = "minute"
    /\ RecordRequestMinute
    /\ Goto(r, "request")
    /\ RecordFrame
    /\ UNCHANGED <<activeRequests, counters, eventVars, tenantCounts>>

RecordRequest(r) ==
    /\ request[r].pc = "request"
    /\ AppendEvent([type |-> "request", tenant |-> request[r].tenant,
                    status |-> request[r].status])
    /\ Goto(r, "finish")
    /\ RecordFrame
    /\ UNCHANGED <<activeRequests, counters, minuteVars, tenantCounts>>

\* The deferred RequestFinished.
FinishRequest(r) ==
    /\ request[r].pc = "finish"
    /\ activeRequests' = activeRequests - 1
    /\ request' = [request EXCEPT ![r] = IdleRequest]
    /\ RecordFrame
    /\ UNCHANGED <<counters, minuteVars, eventVars, tenantCounts>>

----------------------------------------------------------------------------
(* MCP: the tenant of a call *)

restSide == <<restVars, config>>

\* The tools that resolve a tenant: all but tenant_create and tenant_list.
ResolvingTools == {"store", "preference", "search", "list", "delete", "stats", "exists"}
Tools == ResolvingTools \cup {"tenant_create", "tenant_list"}

ASSUME CallsAssumption ==
    Calls \subseteq [tool : Tools, session : Sessions, explicit : SomeTenant,
                     token : SomeTenant, meta : SomeTenant, valid : BOOLEAN]

\* A client calls a tool in one of its sessions.
BeginCall(k, c) ==
    /\ call[k].pc = "idle"
    /\ Spend(2)
    /\ call' = [call EXCEPT ![k] =
           [pc      |-> IF c.tool \in ResolvingTools THEN "resolve" ELSE "act",
            tool    |-> c.tool, session |-> c.session, explicit |-> c.explicit,
            token   |-> c.token, meta |-> c.meta, valid |-> c.valid,
            tenant  |-> IF c.tool \in ResolvingTools THEN NoTenant ELSE c.explicit]]
    /\ named' = [named EXCEPT ![c.session] =
           @ \cup ({c.explicit, c.meta, InitTenant[c.session],
                   IF config.auth THEN c.token ELSE NoTenant} \ {NoTenant})]
    /\ overlapped' = IF \E j \in CallSlots \ {k} :
                            call[j].pc # "idle" /\ call[j].session = c.session
                     THEN overlapped \cup {c.session} ELSE overlapped
    /\ UNCHANGED <<database, restSide, sessionTenants, last>>

\* The tenants a call finds before it looks at the session map, and after it.
FirstOf(candidates) ==
    LET given == {i \in 1 .. Len(candidates) : candidates[i] # NoTenant}
    IN IF given = {} THEN NoTenant
       ELSE candidates[CHOOSE i \in given : \A j \in given : i <= j]

MutantNamedByCall(c) == FirstOf(<<IF config.auth THEN c.token ELSE NoTenant, c.explicit>>)

NamedByCall(c) == FirstOf(<<c.explicit, IF config.auth THEN c.token ELSE NoTenant>>)

Remembered(s) == IF SessionID[s] = "" THEN NoTenant ELSE sessionTenants[SessionID[s]]

NamedBySetup(c) == FirstOf(<<InitTenant[c.session], c.meta, config.default>>)

\* resolveTenant up to the point where it remembers a tenant or asks for the
\* list of tenants; the session map is read under its own lock.
ResolveTenant(k) ==
    LET c == call[k]
        step(pc, tenant) == call' = [call EXCEPT ![k].pc = pc, ![k].tenant = tenant]
    IN /\ c.pc = "resolve"
       /\ IF NamedByCall(c) # NoTenant THEN step("remember", NamedByCall(c))
          ELSE IF Remembered(c.session) # NoTenant THEN step("act", Remembered(c.session))
          ELSE IF NamedBySetup(c) # NoTenant THEN step("remember", NamedBySetup(c))
          ELSE step("detect", NoTenant)
       /\ UNCHANGED <<database, restSide, sessionTenants, sessionGhosts, spent>>

\* The single tenant of the database, if List(2) returns exactly one;
\* otherwise, or when the query fails, the call ends with an error.
DetectTenant(k) ==
    /\ call[k].pc = "detect"
    /\ \/ /\ Len(ListTenants(2)) = 1
          /\ call' = [call EXCEPT ![k].pc = "remember", ![k].tenant = ListTenants(2)[1]]
       \/ call' = [call EXCEPT ![k] = IdleCall]
    /\ UNCHANGED <<database, restSide, sessionTenants, sessionGhosts, spent>>

\* rememberSessionTenant: a session without an identifier remembers nothing.
MutantRememberSessionTenant(k) ==
    LET id == SessionID[call[k].session]
    IN /\ call[k].pc = "remember"
       /\ sessionTenants' = IF id = "" \/ call[k].explicit # NoTenant THEN sessionTenants
                            ELSE [sessionTenants EXCEPT ![id] = call[k].tenant]
       /\ call' = [call EXCEPT ![k].pc = "act"]
       /\ UNCHANGED <<database, restSide, sessionGhosts, spent>>

RememberSessionTenant(k) ==
    LET id == SessionID[call[k].session]
    IN /\ call[k].pc = "remember"
       /\ sessionTenants' = IF id = "" THEN sessionTenants
                            ELSE [sessionTenants EXCEPT ![id] = call[k].tenant]
       /\ call' = [call EXCEPT ![k].pc = "act"]
       /\ UNCHANGED <<database, restSide, sessionGhosts, spent>>

----------------------------------------------------------------------------
(* MCP: the tools *)

\* The call ends; the tenant it acted for is the one it had resolved.
EndCall(k) ==
    /\ call[k].pc = "act"
    /\ call' = [call EXCEPT ![k] = IdleCall]
    /\ last' = IF call[k].tool \in ResolvingTools
               THEN [last EXCEPT ![call[k].session] = call[k].tenant] ELSE last
    /\ UNCHANGED <<restSide, sessionTenants, named, overlapped, spent>>

\* parseTier, parseSearchTiers, parseMemoryKind...: after the tenant is resolved.
ArgumentsParse(c) == c.valid

\* memory_store and memory_store_preference.
ToolStores(k) ==
    /\ call[k].tool \in {"store", "preference"}
    /\ ArgumentsParse(call[k])
    /\ call[k].tenant \in Existing
    /\ rows' \in RowsAfterStore({call[k].tenant})
    /\ EndCall(k)
    /\ UNCHANGED <<tenants, jobs>>

ToolDeletes(k) ==
    /\ call[k].tool = "delete"
    /\ call[k].tenant \in Existing
    /\ rows[call[k].tenant] > 0
    /\ rows' = RowsAfterDelete(call[k].tenant)
    /\ EndCall(k)
    /\ UNCHANGED <<tenants, jobs>>

\* tenant_create; an empty name is refused by the tenant service.
ToolCreatesTenant(k) ==
    /\ call[k].tool = "tenant_create"
    /\ ArgumentsParse(call[k])
    /\ call[k].tenant \in Tenants \ Existing
    /\ InsertTenant(call[k].tenant)
    /\ EndCall(k)
    /\ UNCHANGED <<rows, jobs>>

\* memory_search and memory_list.
ToolReadsMemories(k) ==
    /\ call[k].tool \in {"search", "list"}
    /\ ArgumentsParse(call[k])
    /\ EndCall(k)
    /\ UNCHANGED database

\* tenant_list, tenant_stats and tenant_exists.
ToolReadsTenants(k) ==
    /\ call[k].tool \in {"tenant_list", "stats", "exists"}
    /\ EndCall(k)
    /\ UNCHANGED database

\* The arguments do not parse, the tenant or the memory does not exist, or
\* the service fails before it changes anything.
ToolFails(k) ==
    /\ EndCall(k)
    /\ UNCHANGED database

----------------------------------------------------------------------------
(* The forms of the dashboard, outside /v1: no token and no telemetry *)

Form == /\ Spend(1)
        /\ UNCHANGED <<restSide, mcpVars, jobs>>

DashboardCreateMemory(t) ==
    /\ t \in Existing
    /\ rows' \in RowsAfterStore({t})
    /\ Form
    /\ UNCHANGED tenants

DashboardDeleteMemory(t) ==
    /\ t \in Existing
    /\ rows[t] > 0
    /\ rows' = RowsAfterDelete(t)
    /\ Form
    /\ UNCHANGED tenants

DashboardCreateTenant(t) ==
    /\ t \notin Existing
    /\ InsertTenant(t)
    /\ Form
    /\ UNCHANGED rows

\* ListMemoryCounts: tenants without memories count zero.
ListMemoryCounts(listed) == [t \in {listed[i] : i \in 1 .. Len(listed)} |-> rows[t]]

\* ListWithStats: the newest tenants with their counts.
ListWithStats(limit) ==
    LET listed == ListTenants(limit)
        counts == ListMemoryCounts(listed)
    IN [i \in 1 .. Len(listed) |-> [tenant |-> listed[i], count |-> counts[listed[i]]]]

\* Handlers.Stats: a later tenant must have more memories to replace the top one.
TopTenant(views) ==
    LET leads(i) == /\ views[i].count > 0
                    /\ \A j \in 1 .. Len(views) :
                          \/ views[j].count < views[i].count
                          \/ views[j].count = views[i].count /\ i <= j
        leading == {i \in 1 .. Len(views) : leads(i)}
    IN IF leading = {} THEN NoTenant ELSE views[CHOOSE i \in leading : TRUE].tenant

LargerPairs(V) ==
    {p \in V \X V : \/ p[1].count > p[2].count
                    \/ p[1].count = p[2].count /\ Rank[p[1].tenant] < Rank[p[2].tenant]}

TopTenantsByMemory(views, limit) ==
    LET shown == {views[i] : i \in 1 .. Len(views)}
        sorted == SortedBy(shown, LargerPairs(shown))
    IN SubSeq(sorted, 1, IF Len(sorted) > limit THEN limit ELSE Len(sorted))

----------------------------------------------------------------------------

HandleRequest(r) ==
    \/ \E q \in RestRequests : Arrive(r, q)
    \/ TenantMissing(r)
    \/ StoreMemories(r)
    \/ IngestMemories(r)
    \/ SearchMemories(r)
    \/ ListPostprocessJobs(r)
    \/ TenantStats(r)
    \/ GetPostprocessJob(r)
    \/ DeleteMemory(r)
    \/ CreateTenant(r)

ObserveRequest(r) ==
    \/ CountSuccess(r)
    \/ CountTenant(r)
    \/ RecordEvent(r)
    \/ RecordMinute(r)
    \/ RecordRequest(r)
    \/ FinishRequest(r)

HandleCall(k) ==
    \/ \E c \in Calls : BeginCall(k, c)
    \/ ResolveTenant(k)
    \/ DetectTenant(k)
    \/ RememberSessionTenant(k)
    \/ ToolStores(k)
    \/ ToolDeletes(k)
    \/ ToolCreatesTenant(k)
    \/ ToolReadsMemories(k)
    \/ ToolReadsTenants(k)
    \/ ToolFails(k)

SubmitForm(t) ==
    \/ DashboardCreateMemory(t)
    \/ DashboardDeleteMemory(t)
    \/ DashboardCreateTenant(t)

PassMinute == Tick /\ UNCHANGED <<config, database, request, restGhosts, mcpVars, spent>>

Next ==
    \/ \E r \in Slots : HandleRequest(r) \/ ObserveRequest(r)
    \/ \E k \in CallSlots : HandleCall(k)
    \/ \E t \in Tenants : SubmitForm(t)
    \/ PassMinute

Spec == Init /\ [][Next]_vars

----------------------------------------------------------------------------
(* Properties *)

EventType == {"none", "store", "store_batch", "search", "request"}
Event == [type : EventType, tenant : SomeTenant, status : Nat]
Request ==
    [pc : {"idle", "service", "count", "writes", "event", "minute", "request", "finish"},
     op : RequestOps \cup {"none"}, items : Seq(Item), caller : SomeTenant,
     status : Nat, tenant : SomeTenant, writes : SUBSET SomeTenant]
Call ==
    [pc : {"idle", "resolve", "detect", "remember", "act"},
     tool : Tools \cup {"none"}, session : Sessions,
     explicit : SomeTenant, token : SomeTenant, meta : SomeTenant,
     valid : BOOLEAN, tenant : SomeTenant]

\* The types of the servers' state: rings of the configured sizes, a tenant
\* table without duplicates, known requests and calls.
TypeOK ==
    /\ config \in [auth : BOOLEAN, default : SomeTenant]
    /\ tenants \in Seq(Tenants)
    /\ \A i, j \in 1 .. Len(tenants) : tenants[i] = tenants[j] => i = j
    /\ rows \in [Tenants -> 0 .. MaxRows]
    /\ jobs \subseteq Tenants
    /\ request \in [Slots -> Request]
    /\ call \in [CallSlots -> Call]
    /\ sessionTenants \in [SessionIDs -> SomeTenant]
    /\ clock \in FirstMinute .. FirstMinute + MaxMinute
    /\ activeRequests \in Nat
    /\ storeCount \in Nat /\ batchStoreCount \in Nat /\ searchCount \in Nat
    /\ requestRing \in [0 .. Window - 1 -> [minute : Nat, count : Nat]]
    /\ events \in [0 .. Capacity - 1 -> Event]
    /\ eventHead \in 0 .. Capacity - 1
    /\ eventSize \in 0 .. Capacity
    /\ DOMAIN tenantCounts \subseteq Tenants
    /\ \A t \in DOMAIN tenantCounts :
          tenantCounts[t] \in [writes : Nat, searches : Nat]

\* With authentication on, a REST request only reads or changes what belongs
\* to the tenant of its token: the items of a batch are checked one by one,
\* and a job is fetched before its tenant is known (handlers/memory.go).
OnlyOwnTenantIsTouched ==
    config.auth => \A access \in touched : access[1] = access[2]

\* The tenant an MCP call acts for is the one it names, else the one its token
\* names, else one that its own session named or a default: never a tenant
\* that only another session named, however the calls interleave
\* (mcp/tools/registry.go, resolveTenant).
CallsActForOwnTenants ==
    \A k \in CallSlots :
        LET c == call[k]
        IN c.pc \in {"remember", "act"} /\ c.tool \in ResolvingTools =>
            /\ c.explicit # NoTenant => c.tenant = c.explicit
            /\ c.explicit = NoTenant /\ config.auth /\ c.token # NoTenant =>
                  c.tenant = c.token
            /\ \/ c.tenant \in named[c.session]
               \/ c.tenant = config.default
               \/ Len(tenants) > 0 /\ c.tenant = tenants[Len(tenants)]

\* As long as the calls of a session come one after another, the session
\* remembers the tenant its last call acted for.  Two calls at once can lose
\* it: the one that found no session tenant writes its default last.
SequentialSessionsRemember ==
    \A s \in Sessions :
        (/\ SessionID[s] # ""
         /\ s \notin overlapped
         /\ last[s] # NoTenant
         /\ \A k \in CallSlots : call[k].pc # "idle" => call[k].session # s)
            => sessionTenants[SessionID[s]] = last[s]

\* A snapshot shows the newest events, newest first, also after the ring has
\* wrapped around (appendEvent and recentEvents).
RecentEventsAreTheNewest ==
    LET n == Len(appended)
        shown == RecentEvents(EventLimit)
    IN /\ DOMAIN shown = {i \in 1 .. n : i <= Capacity /\ i <= EventLimit}
       /\ \A i \in DOMAIN shown : shown[i] = appended[n + 1 - i]

\* The counts of the last Window minutes are the requests of those minutes,
\* also when a bucket is reused (recordRequestMinute and requestsPerMinute).
MinuteCountsAreExact ==
    LET shown == RequestsPerMinute(clock)
    IN \A minute \in DOMAIN shown :
          shown[minute] = Cardinality({i \in 1 .. Len(recorded) : recorded[i] = minute})

\* The active requests are the ones in progress; once there are none, every
\* successful store, batch and search is counted once, and every item of them
\* for its own tenant, a batch of several tenants included.
CountersAddUp ==
    LET busy == {r \in Slots : request[r].pc # "idle"}
        count(t) == IF t \in DOMAIN tenantCounts THEN tenantCounts[t]
                    ELSE [writes |-> 0, searches |-> 0]
    IN /\ activeRequests = Cardinality(busy)
       /\ busy = {} =>
            /\ storeCount = successes["store"]
            /\ batchStoreCount = successes["store_batch"]
            /\ searchCount = successes["search"]
            /\ \A t \in Tenants :
                  count(t) = [writes |-> accepted[t], searches |-> found[t]]

\* A list of top tenants leaves out no tenant that is busier than one it shows
\* (topTenants), and the top tenant of the statistics page has as many
\* memories as the first of its list (Stats and topTenantsByMemory).
TopTenantsLead ==
    /\ \A byWrites \in BOOLEAN :
          LET shown == {TopTenants(TopLimit, byWrites)[i] :
                            i \in 1 .. Len(TopTenants(TopLimit, byWrites))}
              count(t) == IF byWrites THEN tenantCounts[t].writes
                                      ELSE tenantCounts[t].searches
          IN \A s \in shown, t \in DOMAIN tenantCounts \ shown : count(s) >= count(t)
    /\ LET views == ListWithStats(PageLimit)
       IN TopTenant(views) # NoTenant =>
              TopTenantsByMemory(views, TopLimit)[1].count = rows[TopTenant(views)]
============================================================================
