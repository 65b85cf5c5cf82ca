--------------------------- MODULE ServingProofs ---------------------------
(***************************************************************************)
(* The separation of tenants by the REST handlers, and the rings and       *)
(* counters of the telemetry service, for any tenants, requests, calls,    *)
(* sessions and sizes.                                                     *)
(***************************************************************************)
EXTENDS Serving, ListProofs

-----------------------------------------------------------------------------
(* Arithmetic of the rings.                                                *)

LEMMA SmallMod == ASSUME NEW c \in Nat \ {0}, NEW a \in 0 .. c - 1 PROVE a % c = a
  BY SMT

LEMMA NextMod == ASSUME NEW c \in Nat \ {0}, NEW a \in c .. 2 * c - 1 PROVE a % c = a - c
  BY SMT

LEMMA ModRange == ASSUME NEW c \in Nat \ {0}, NEW a \in Nat PROVE a % c \in 0 .. c - 1
  BY SMT

LEMMA DivRange == ASSUME NEW c \in Nat \ {0}, NEW a \in Nat PROVE a \div c \in Int
  BY SMT

LEMMA DivMod == ASSUME NEW c \in Nat \ {0}, NEW a \in Nat PROVE a = c * (a \div c) + (a % c)
  BY SMT

(* No multiple of c lies strictly between 0 and c. *)
LEMMA NoSmallMultiple ==
    ASSUME NEW c \in Nat \ {0}, NEW q \in Int
    PROVE  ~ (0 < c * q /\ c * q < c)
  <1>1. CASE q <= 0
    BY <1>1, SMT
  <1>2. CASE q >= 1
    BY <1>2, SMT
  <1> QED
    BY <1>1, <1>2

(* Two minutes of one window never share a bucket. *)
LEMMA DistinctMod ==
    ASSUME NEW c \in Nat \ {0}, NEW a \in Nat, NEW b \in Nat, a < b, b < a + c
    PROVE  a % c # b % c
  <1> SUFFICES ASSUME a % c = b % c PROVE FALSE
    OBVIOUS
  <1> DEFINE p == a \div c
             q == b \div c
  <1>1. p \in Int /\ q \in Int
    BY DivRange
  <1>a. a = c * p + (a % c)
    BY DivMod, Zenon
  <1>b. b = c * q + (b % c)
    BY DivMod, Zenon
  <1>3. a % c \in Int /\ b % c \in Int
    BY ModRange
  <1> HIDE DEF p, q
  <1>4. c * q \in Int /\ c * p \in Int /\ q - p \in Int /\ c * (q - p) = c * q - c * p
    BY <1>1
  <1>5. c * q - c * p = b - a
    BY <1>a, <1>b, <1>3, <1>4
  <1> QED
    BY <1>4, <1>5, NoSmallMultiple

-----------------------------------------------------------------------------
(* REST: what the handlers have established when they call a service.      *)

Pcs == {"idle", "service", "count", "writes", "event", "minute", "request", "finish"}
ObservedOps == {"store", "store_batch", "search"}

(* A request at its service call has tenants, which under authentication   *)
(* are all the caller; only observed operations have telemetry of their    *)
(* own.                                                                    *)
Bound(q) ==
    /\ q.pc \in {"count", "writes", "event"} => q.op \in ObservedOps
    /\ q.pc = "service" => q.op # "none"
    /\ q.pc = "service" /\ q.op # "job" =>
          /\ q.items # <<>>
          /\ \A i \in 1 .. Len(q.items) :
                /\ q.items[i].tenant \in Tenants
                /\ config.auth => q.items[i].tenant = q.caller
    /\ q.pc = "service" /\ config.auth => q.caller \in Tenants

RestOK == request \in [Slots -> Request] /\ \A r \in Slots : Bound(request[r])

ConfigOK == config \in [auth : BOOLEAN, default : SomeTenant]

LEMMA IdleRequestType == IdleRequest \in Request /\ Bound(IdleRequest)
  BY DEF IdleRequest, Request, Bound, SomeTenant

LEMMA AfterHandlerType ==
    ASSUME NEW op \in RequestOps, NEW status \in Nat
    PROVE  /\ AfterHandler(op, status) \in {"count", "writes", "event", "minute"}
           /\ AfterHandler(op, status) # "minute" => op \in ObservedOps
  BY DEF AfterHandler, ObservedOps

(* Items that bind belong to the caller. *)
LEMMA BindItemAccess ==
    ASSUME NEW caller \in SomeTenant, NEW item \in Item, BindItem(caller, item) = 0
    PROVE  item.tenant \in Tenants /\ (caller # NoTenant => item.tenant = caller)
  BY DEF BindItem, EnforceTenantAccess, Item, SomeTenant

LEMMA BindItemsAccess ==
    ASSUME NEW caller \in SomeTenant, NEW items \in Seq(Item), BindItems(caller, items) = 0,
           NEW i \in 1 .. Len(items)
    PROVE  BindItem(caller, items[i]) = 0
  <1> DEFINE failing == {j \in 1 .. Len(items) : BindItem(caller, items[j]) # 0}
  <1>1. failing \in SUBSET Nat
    OBVIOUS
  <1>2. ASSUME failing # {} PROVE FALSE
    <2> DEFINE first == CHOOSE j \in failing : \A k \in failing : j <= k
    <2>1. first \in failing
      BY <1>1, <1>2, LeastNatural
    <2>2. BindItems(caller, items) = BindItem(caller, items[first])
      BY <1>2 DEF BindItems
    <2> QED
      BY <2>1, <2>2
  <1> QED
    BY <1>2

LEMMA BindAccess ==
    ASSUME NEW q \in RestRequests, NEW caller \in SomeTenant, Bind(q, caller) = 0
    PROVE  /\ q.items # <<>>
           /\ q.op # "job" => \A i \in 1 .. Len(q.items) :
                 /\ q.items[i].tenant \in Tenants
                 /\ caller # NoTenant => q.items[i].tenant = caller
  <1>0. /\ q.items \in Seq(Item) /\ q.items # <<>>
        /\ q.op \notin {"store_batch", "ingest_batch"} => Len(q.items) = 1
    BY RestAssumption DEF Bind
  <1>1. CASE q.op = "search"
    <2>1. Len(q.items) = 1 /\ q.items[1] \in Item
      BY <1>0, <1>1
    <2>2. EnforceTenantAccess(caller, q.items[1].tenant) = 0
      BY <1>0, <1>1 DEF Bind
    <2> QED
      BY <1>0, <2>1, <2>2 DEF EnforceTenantAccess, Item, SomeTenant
  <1>2. CASE q.op \notin {"search", "job"}
    <2>1. BindItems(caller, q.items) = 0
      BY <1>0, <1>2 DEF Bind
    <2>2. ASSUME NEW i \in 1 .. Len(q.items)
          PROVE  /\ q.items[i].tenant \in Tenants
                 /\ caller # NoTenant => q.items[i].tenant = caller
      BY <1>0, <2>1, BindItemsAccess, BindItemAccess
    <2> QED
      BY <1>0, <2>2
  <1> QED
    BY <1>0, <1>1, <1>2

(* The status a handler answers is a number. *)
LEMMA BindType ==
    ASSUME NEW q \in RestRequests, NEW caller
    PROVE  Bind(q, caller) \in Nat
  <1>1. \A t : EnforceTenantAccess(caller, t) \in Nat
    BY DEF EnforceTenantAccess
  <1>2. \A item : BindItem(caller, item) \in Nat
    BY <1>1 DEF BindItem
  <1>3. BindItems(caller, q.items) \in Nat
    BY <1>2 DEF BindItems
  <1> QED
    BY <1>1, <1>3 DEF Bind

(* Replacing one slot's record by a bound request keeps the requests typed. *)
LEMMA SlotUpdate ==
    ASSUME RestOK, UNCHANGED config, NEW r \in Slots, NEW q \in Request, Bound(q),
           request' = [request EXCEPT ![r] = q]
    PROVE  RestOK'
  <1>1. request' \in [Slots -> Request]
    BY DEF RestOK
  <1>2. \A s \in Slots : Bound(request[s])'
    BY DEF RestOK, Bound
  <1> QED
    BY <1>1, <1>2 DEF RestOK

LEMMA RefusalType ==
    ASSUME NEW op \in RequestOps, NEW q,
           q = [pc |-> "minute", op |-> op, items |-> <<>>, caller |-> NoTenant,
                status |-> 401, tenant |-> NoTenant, writes |-> {}]
    PROVE  q \in Request /\ Bound(q)
  BY DEF Request, Bound, SomeTenant

(* An arriving request binds or is refused. *)
LEMMA ArriveType ==
    ASSUME ConfigOK, RestOK, NEW r \in Slots, NEW q \in RestRequests, Arrive(r, q)
    PROVE  RestOK'
  <1> DEFINE caller == IF config.auth THEN Authenticate(q.token) ELSE NoTenant
             bound == Bind(q, caller)
             refusal == [IdleRequest EXCEPT !.pc = "minute", !.op = q.op, !.status = 401]
             entry == [pc     |-> IF bound = 0 THEN "service" ELSE AfterHandler(q.op, bound),
                       op     |-> q.op,
                       items  |-> IF bound = 0 THEN q.items ELSE <<>>,
                       caller |-> caller,
                       status |-> bound,
                       tenant |-> TelemetryTenant(q, bound),
                       writes |-> IF bound = 0 /\ q.op \in {"store", "store_batch", "search"}
                                  THEN TenantsOf(q.items) ELSE {}]
  <1>0. /\ q.op \in RequestOps /\ q.items \in Seq(Item) /\ q.token.tenant \in SomeTenant
        /\ q.op \notin {"store_batch", "ingest_batch"} => Len(q.items) = 1
    BY RestAssumption
  <1>1. caller \in SomeTenant
    BY <1>0 DEF Authenticate, SomeTenant
  <1>2. bound \in Nat
    BY BindType
  <1>3. bound # 0 => /\ AfterHandler(q.op, bound) \in {"count", "writes", "event", "minute"}
                     /\ AfterHandler(q.op, bound) # "minute" => q.op \in ObservedOps
    BY <1>0, <1>2, AfterHandlerType
  <1>4. bound = 0 =>
          /\ q.items # <<>>
          /\ q.op # "job" => \A i \in 1 .. Len(q.items) :
                /\ q.items[i].tenant \in Tenants
                /\ caller # NoTenant => q.items[i].tenant = caller
    BY <1>1, BindAccess
  <1>5. TelemetryTenant(q, bound) \in SomeTenant
    <2> HIDE DEF bound, caller, refusal, entry
    <2>1. Len(q.items) >= 1 => q.items[1].tenant \in SomeTenant
      <3>1. Len(q.items) >= 1 => q.items[1] \in Item
        BY <1>0
      <3> QED
        BY <3>1 DEF Item
    <2>2. CASE q.op = "search"
      BY <1>0, <2>1, <2>2 DEF TelemetryTenant, SomeTenant
    <2>3. CASE q.op # "search" /\ bound = 0
      <3>1. Len(q.items) >= 1
        BY <1>0, <1>4, <2>3
      <3> QED
        BY <2>1, <2>3, <3>1 DEF TelemetryTenant, SomeTenant
    <2>4. CASE q.op # "search" /\ bound # 0
      BY <2>4 DEF TelemetryTenant, SomeTenant
    <2> QED
      BY <2>2, <2>3, <2>4
  <1>6. TenantsOf(q.items) \subseteq SomeTenant
    <2>1. \A i \in 1 .. Len(q.items) : q.items[i] \in Item
      BY <1>0
    <2> QED
      BY <2>1 DEF TenantsOf, Item
  <1>7. refusal \in Request /\ Bound(refusal)
    <2>1. PICK x : x = refusal
      OBVIOUS
    <2>2. x = [pc |-> "minute", op |-> q.op, items |-> <<>>, caller |-> NoTenant,
               status |-> 401, tenant |-> NoTenant, writes |-> {}]
      <3>1. PICK op : op = q.op
        OBVIOUS
      <3>2. x = [IdleRequest EXCEPT !.pc = "minute", !.op = op, !.status = 401]
        BY ONLY <2>1, <3>1
      <3>3. x = [pc |-> "minute", op |-> op, items |-> <<>>, caller |-> NoTenant,
                 status |-> 401, tenant |-> NoTenant, writes |-> {}]
        BY ONLY <3>2 DEF IdleRequest
      <3> QED
        BY ONLY <3>1, <3>3
    <2> HIDE DEF refusal
    <2>3. x \in Request /\ Bound(x)
      <3>1. PICK op \in RequestOps : op = q.op
        BY <1>0
      <3> QED
        BY ONLY <2>2, <3>1, RefusalType
    <2> QED
      BY <2>1, <2>3
  <1>8. ~ (config.auth /\ caller = NoTenant) => entry \in Request /\ Bound(entry)
    <2> SUFFICES ASSUME ~ (config.auth /\ caller = NoTenant)
                 PROVE  entry \in Request /\ Bound(entry)
      OBVIOUS
    <2>0. config.auth => caller \in Tenants
      BY <1>1 DEF SomeTenant
    <2> HIDE DEF caller, bound
    <2>1. entry.pc \in Pcs
      BY <1>3 DEF Pcs
    <2>2. entry.items \in Seq(Item) /\ entry.writes \subseteq SomeTenant
      BY <1>0, <1>6
    <2>3. entry \in Request
      BY <1>0, <1>1, <1>2, <1>5, <2>1, <2>2 DEF Request, Pcs
    <2>4. Bound(entry)
      <3>1. CASE bound = 0
        <4>1. /\ entry.pc = "service" /\ entry.items = q.items /\ entry.op = q.op
              /\ entry.caller = caller
          BY <3>1
        <4>2. q.op # "none"
          BY <1>0 DEF RequestOps
        <4> HIDE DEF entry
        <4> QED
          BY <1>4, <2>0, <3>1, <4>1, <4>2, TelemetryAssumption DEF Bound
      <3>2. CASE bound # 0
        <4>1. /\ entry.pc \in {"count", "writes", "event", "minute"} /\ entry.op = q.op
              /\ entry.pc # "minute" => q.op \in ObservedOps
          BY <1>3, <3>2
        <4> HIDE DEF entry
        <4> QED
          BY <4>1 DEF Bound
      <3> QED
        BY <3>1, <3>2
    <2> QED
      BY <2>3, <2>4
  <1>9. request' = [request EXCEPT ![r] = IF config.auth /\ caller = NoTenant
                                          THEN refusal ELSE entry]
    BY DEF Arrive
  <1>10. UNCHANGED config
    BY DEF Arrive
  <1> HIDE DEF refusal, entry, caller
  <1> QED
    BY <1>7, <1>8, <1>9, <1>10, SlotUpdate

(* The fields a handler's answer sets, and those it keeps. *)
LEMMA AnswerFields ==
    ASSUME RestOK, NEW r \in Slots, NEW status, NEW pc,
           request' = [request EXCEPT ![r].status = status, ![r].pc = pc]
    PROVE  request' = [request EXCEPT ![r] = [request[r] EXCEPT !.status = status, !.pc = pc]]
  BY DEF RestOK

LEMMA AnswerType ==
    ASSUME RestOK, NEW r \in Slots, NEW status \in Nat, request[r].pc = "service",
           Answer(r, status)
    PROVE  RestOK'
  <1> DEFINE pc == AfterHandler(request[r].op, status)
             q == [request[r] EXCEPT !.status = status, !.pc = pc]
  <1>0. request[r] \in Request /\ request[r].op \in RequestOps
    BY DEF RestOK, Bound, Request
  <1>1. /\ pc \in {"count", "writes", "event", "minute"}
        /\ pc # "minute" => request[r].op \in ObservedOps
    BY <1>0, AfterHandlerType
  <1>2. request' = [request EXCEPT ![r] = q]
    BY AnswerFields DEF Answer
  <1> HIDE DEF pc
  <1>3. q \in Request
    BY <1>0, <1>1 DEF Request
  <1>4. q.pc = pc /\ q.op = request[r].op
    BY <1>0 DEF Request
  <1>5. Bound(q)
    <2> HIDE DEF q
    <2> QED
      BY <1>1, <1>4 DEF Bound
  <1>6. UNCHANGED config
    BY DEF Answer
  <1> QED
    BY <1>2, <1>3, <1>5, <1>6, SlotUpdate

(* A request moves on to its next observation. *)
LEMMA MoveType ==
    ASSUME RestOK, UNCHANGED config, NEW r \in Slots, NEW pc \in Pcs \ {"service"},
           pc \in {"count", "writes", "event"} => request[r].op \in ObservedOps,
           Goto(r, pc)
    PROVE  RestOK'
  <1> DEFINE q == [request[r] EXCEPT !.pc = pc]
  <1>0. request[r] \in Request
    BY DEF RestOK
  <1>1. q \in Request
    BY <1>0 DEF Request, Pcs
  <1>2. q.pc = pc /\ q.op = request[r].op
    BY <1>0 DEF Request
  <1>3. Bound(q)
    <2> HIDE DEF q
    <2> QED
      BY <1>2 DEF Bound
  <1>4. request' = [request EXCEPT ![r] = q]
    BY DEF Goto, RestOK
  <1> QED
    BY <1>1, <1>3, <1>4, SlotUpdate

(* Counting a tenant takes it off the tenants still to count. *)
LEMMA CountTenantType ==
    ASSUME RestOK, NEW r \in Slots, CountTenant(r)
    PROVE  RestOK'
  <1>0. /\ request[r] \in Request /\ request[r].op \in ObservedOps /\ UNCHANGED config
    BY DEF RestOK, Bound, CountTenant, RecordFrame
  <1>1. \E t, pc : /\ pc \in {"writes", "count", "event"}
                   /\ request' = [request EXCEPT ![r].writes = @ \ {t}, ![r].pc = pc]
    <2>1. PICK t : request' = [request EXCEPT ![r].writes = @ \ {t},
                      ![r].pc = IF request[r].writes # {t} THEN "writes"
                                ELSE IF request[r].op = "store_batch" THEN "count" ELSE "event"]
      BY Zenon DEF CountTenant
    <2> QED
      BY <2>1, Zenon
  <1>a. PICK t, pc : /\ pc \in {"writes", "count", "event"}
                     /\ request' = [request EXCEPT ![r].writes = @ \ {t}, ![r].pc = pc]
    BY <1>1
  <1> DEFINE q == [request[r] EXCEPT !.writes = @ \ {t}, !.pc = pc]
  <1>2. q \in Request
    BY <1>0, <1>a DEF Request
  <1>3. q.pc = pc /\ q.op = request[r].op
    BY <1>0 DEF Request
  <1>4. Bound(q)
    <2> HIDE DEF q
    <2> QED
      BY <1>0, <1>a, <1>3 DEF Bound
  <1>5. request' = [request EXCEPT ![r] = q]
    BY <1>a DEF RestOK
  <1> QED
    BY <1>0, <1>2, <1>4, <1>5, SlotUpdate

(* The service calls end in an answer. *)
ServiceCall(r) ==
    \/ TenantMissing(r) \/ StoreMemories(r) \/ IngestMemories(r) \/ SearchMemories(r)
    \/ ListPostprocessJobs(r) \/ TenantStats(r) \/ GetPostprocessJob(r)
    \/ DeleteMemory(r) \/ CreateTenant(r)

LEMMA ServiceAnswers ==
    ASSUME NEW r \in Slots, ServiceCall(r)
    PROVE  request[r].pc = "service" /\ \E status \in Nat : Answer(r, status)
  <1>1. \A t : EnforceTenantAccess(request[r].caller, t) \in Nat
    BY DEF EnforceTenantAccess
  <1>2. CASE GetPostprocessJob(r)
    <2>1. CASE Answer(r, 404)
      BY <1>2, <2>1 DEF GetPostprocessJob
    <2>2. CASE Answer(r, 200)
      BY <1>2, <2>2 DEF GetPostprocessJob
    <2>3. ASSUME NEW t, Answer(r, EnforceTenantAccess(request[r].caller, t))
          PROVE  \E status \in Nat : Answer(r, status)
      <3>1. PICK status \in Nat : status = EnforceTenantAccess(request[r].caller, t)
        BY <1>1
      <3> QED
        BY <2>3, <3>1
    <2> QED
      BY <1>2, <2>1, <2>2, <2>3 DEF GetPostprocessJob
  <1>3. CASE TenantMissing(r)
    BY <1>3 DEF TenantMissing
  <1>4. CASE StoreMemories(r)
    BY <1>4 DEF StoreMemories
  <1>5. CASE IngestMemories(r)
    BY <1>5 DEF IngestMemories
  <1>6. CASE SearchMemories(r) \/ ListPostprocessJobs(r) \/ TenantStats(r)
    BY <1>6 DEF SearchMemories, ListPostprocessJobs, TenantStats, ReadTenant
  <1>7. CASE DeleteMemory(r)
    BY <1>7 DEF DeleteMemory
  <1>8. CASE CreateTenant(r)
    BY <1>8 DEF CreateTenant
  <1> QED
    BY <1>2, <1>3, <1>4, <1>5, <1>6, <1>7, <1>8 DEF ServiceCall

(* The steps that are not a request's leave the requests alone. *)
LEMMA RestFrame ==
    /\ \A k \in CallSlots : HandleCall(k) => UNCHANGED <<restVars, config>>
    /\ \A t \in Tenants : SubmitForm(t) => UNCHANGED <<restVars, mcpVars, jobs, config>>
    /\ PassMinute => UNCHANGED <<request, restGhosts, database, mcpVars, config>>
  <1>1. ASSUME NEW k \in CallSlots, HandleCall(k) PROVE UNCHANGED <<restVars, config>>
    <2>1. UNCHANGED restSide
      BY <1>1
         DEF HandleCall, BeginCall, ResolveTenant, DetectTenant, RememberSessionTenant,
             ToolStores, ToolDeletes, ToolCreatesTenant, ToolReadsMemories, ToolReadsTenants,
             ToolFails, EndCall
    <2> QED
      BY <2>1 DEF restSide
  <1>2. ASSUME NEW t \in Tenants, SubmitForm(t)
        PROVE  UNCHANGED <<restVars, mcpVars, jobs, config>>
    BY <1>2
       DEF SubmitForm, DashboardCreateMemory, DashboardDeleteMemory, DashboardCreateTenant,
           Form, restSide
  <1>3. PassMinute => UNCHANGED <<request, restGhosts, database, mcpVars, config>>
    BY DEF PassMinute
  <1> QED
    BY <1>1, <1>2, <1>3

(* The settings never change. *)
LEMMA ConfigStep == [Next]_vars => UNCHANGED config
  <1> SUFFICES ASSUME [Next]_vars PROVE UNCHANGED config
    OBVIOUS
  <1>1. ASSUME NEW r \in Slots, HandleRequest(r) PROVE UNCHANGED config
    <2>1. ASSUME NEW q \in RestRequests, Arrive(r, q) PROVE UNCHANGED config
      BY <2>1 DEF Arrive
    <2>2. CASE ServiceCall(r)
      BY <2>2, ServiceAnswers DEF Answer
    <2> QED
      BY <1>1, <2>1, <2>2 DEF HandleRequest, ServiceCall
  <1>2. ASSUME NEW r \in Slots, ObserveRequest(r) PROVE UNCHANGED config
    BY <1>2
       DEF ObserveRequest, CountSuccess, CountTenant, RecordEvent, RecordMinute,
           RecordRequest, FinishRequest, RecordFrame
  <1>3. CASE UNCHANGED vars
    BY <1>3 DEF vars
  <1> QED
    BY <1>1, <1>2, <1>3, RestFrame DEF Next

(* Every step keeps the requests bound. *)
LEMMA RestStep ==
    ASSUME ConfigOK, RestOK, [Next]_vars
    PROVE  RestOK'
  <1>0. UNCHANGED config
    BY ConfigStep
  <1>1. ASSUME NEW r \in Slots, HandleRequest(r) PROVE RestOK'
    <2>1. ASSUME NEW q \in RestRequests, Arrive(r, q) PROVE RestOK'
      BY <2>1, ArriveType
    <2>2. CASE ServiceCall(r)
      BY <2>2, ServiceAnswers, AnswerType
    <2> QED
      BY <1>1, <2>1, <2>2 DEF HandleRequest, ServiceCall
  <1>2. ASSUME NEW r \in Slots, ObserveRequest(r) PROVE RestOK'
    <2>0. request[r].pc \in {"count", "writes", "event"} => request[r].op \in ObservedOps
      BY DEF RestOK, Bound
    <2>1. CASE CountSuccess(r)
      BY <1>0, <2>0, <2>1, MoveType DEF CountSuccess, Pcs
    <2>2. CASE CountTenant(r)
      BY <2>2, CountTenantType
    <2>3. CASE RecordEvent(r)
      BY <1>0, <2>3, MoveType DEF RecordEvent, Pcs
    <2>4. CASE RecordMinute(r)
      BY <1>0, <2>4, MoveType DEF RecordMinute, Pcs
    <2>5. CASE RecordRequest(r)
      BY <1>0, <2>5, MoveType DEF RecordRequest, Pcs
    <2>6. CASE FinishRequest(r)
      BY <1>0, <2>6, IdleRequestType, SlotUpdate DEF FinishRequest
    <2> QED
      BY <1>2, <2>1, <2>2, <2>3, <2>4, <2>5, <2>6 DEF ObserveRequest
  <1>3. CASE UNCHANGED request
    BY <1>0, <1>3 DEF RestOK, Bound
  <1> QED
    BY <1>1, <1>2, <1>3, RestFrame DEF Next, vars, restVars

LEMMA RestInit == Init => ConfigOK /\ RestOK
  <1> SUFFICES ASSUME Init PROVE ConfigOK /\ RestOK
    OBVIOUS
  <1>1. ConfigOK
    BY SettingsAssumption DEF Init, ConfigOK
  <1>2. RestOK
    BY IdleRequestType DEF Init, RestOK
  <1> QED
    BY <1>1, <1>2

-----------------------------------------------------------------------------
(* What a service call touches belongs to its caller. *)
LEMMA TouchOwn ==
    ASSUME ConfigOK, RestOK, OnlyOwnTenantIsTouched, NEW r \in Slots, ServiceCall(r)
    PROVE  OnlyOwnTenantIsTouched'
  <1>0. /\ request[r].pc = "service" /\ UNCHANGED config /\ Bound(request[r])
        /\ request[r].items \in Seq(Item)
    BY ServiceAnswers DEF Answer, RestOK, Request
  <1> DEFINE caller == request[r].caller
             ts == TenantsOf(request[r].items)
  <1>1. ASSUME Touch(r, {}) \/ UNCHANGED touched PROVE OnlyOwnTenantIsTouched'
    BY <1>0, <1>1 DEF Touch, OnlyOwnTenantIsTouched
  <1>2. ASSUME NEW own, Touch(r, own), config.auth => own \subseteq {caller}
        PROVE  OnlyOwnTenantIsTouched'
    BY <1>0, <1>2 DEF Touch, OnlyOwnTenantIsTouched
  <1>3. /\ request[r].op # "job" /\ config.auth => ts \subseteq {caller}
        /\ request[r].op # "job" /\ config.auth => request[r].items[1].tenant = caller
    BY <1>0 DEF Bound, TenantsOf
  <1>4. CASE GetPostprocessJob(r)
    <2>1. ASSUME NEW t, EnforceTenantAccess(caller, t) = 0, Touch(r, {t})
          PROVE  OnlyOwnTenantIsTouched'
      <3>1. config.auth => t = caller
        BY <1>0, <2>1, TelemetryAssumption DEF EnforceTenantAccess, Bound
      <3> QED
        BY <1>2, <2>1, <3>1
    <2> QED
      BY <1>1, <1>4, <2>1 DEF GetPostprocessJob
  <1>5. CASE TenantMissing(r)
    BY <1>1, <1>5 DEF TenantMissing
  <1>6. CASE StoreMemories(r)
    BY <1>1, <1>2, <1>3, <1>6 DEF StoreMemories
  <1>7. CASE IngestMemories(r)
    BY <1>1, <1>2, <1>3, <1>7 DEF IngestMemories
  <1>8. CASE SearchMemories(r) \/ ListPostprocessJobs(r) \/ TenantStats(r)
    BY <1>1, <1>2, <1>3, <1>8 DEF SearchMemories, ListPostprocessJobs, TenantStats, ReadTenant
  <1>9. CASE DeleteMemory(r)
    BY <1>1, <1>2, <1>3, <1>9 DEF DeleteMemory
  <1>10. CASE CreateTenant(r)
    BY <1>1, <1>2, <1>3, <1>10 DEF CreateTenant
  <1> QED
    BY <1>4, <1>5, <1>6, <1>7, <1>8, <1>9, <1>10 DEF ServiceCall

(***************************************************************************)
(* With authentication on, no REST request reads or changes anything of a  *)
(* tenant that its token does not name, whatever requests arrive and       *)
(* however they interleave: batches are checked item by item, and a job    *)
(* that belongs to another tenant is not answered.                         *)
(***************************************************************************)
THEOREM OnlyOwnTenantIsTouchedCorrect == Spec => []OnlyOwnTenantIsTouched
  <1> DEFINE IInv == ConfigOK /\ RestOK /\ OnlyOwnTenantIsTouched
  <1>1. Init => IInv
    <2>1. Init => OnlyOwnTenantIsTouched
      BY DEF Init, OnlyOwnTenantIsTouched
    <2> QED
      BY <2>1, RestInit
  <1>2. IInv /\ [Next]_vars => IInv'
    <2> SUFFICES ASSUME IInv, [Next]_vars PROVE IInv'
      OBVIOUS
    <2>0. UNCHANGED config
      BY ConfigStep
    <2>1. ConfigOK' /\ RestOK'
      BY <2>0, RestStep DEF ConfigOK
    <2>2. ASSUME UNCHANGED touched PROVE OnlyOwnTenantIsTouched'
      BY <2>0, <2>2 DEF OnlyOwnTenantIsTouched
    <2>3. ASSUME NEW r \in Slots, HandleRequest(r) \/ ObserveRequest(r)
          PROVE  OnlyOwnTenantIsTouched'
      <3>1. CASE ServiceCall(r)
        BY <3>1, TouchOwn
      <3>2. CASE UNCHANGED touched
        BY <2>2, <3>2
      <3> QED
        BY <2>3, <3>1, <3>2
           DEF HandleRequest, ServiceCall, Arrive, ObserveRequest, CountSuccess, CountTenant,
               RecordEvent, RecordMinute, RecordRequest, FinishRequest, RecordFrame,
               restGhosts
    <2>4. OnlyOwnTenantIsTouched'
      BY <2>2, <2>3, RestFrame DEF Next, vars, restVars, restGhosts
    <2> QED
      BY <2>1, <2>4
  <1> QED
    BY <1>1, <1>2, PTL DEF Spec

-----------------------------------------------------------------------------
(* The rings: what a step may do to them. *)
LEMMA TelemetryCases ==
    ASSUME ConfigOK, RestOK, [Next]_vars
    PROVE  /\ UNCHANGED eventVars \/ \E e \in Event : AppendEvent(e)
           /\ \/ UNCHANGED <<clock, minuteVars>>
              \/ Tick
              \/ RecordRequestMinute /\ UNCHANGED clock
  <1> DEFINE Events == UNCHANGED eventVars \/ \E e \in Event : AppendEvent(e)
             Minutes == \/ UNCHANGED <<clock, minuteVars>>
                        \/ Tick
                        \/ RecordRequestMinute /\ UNCHANGED clock
  <1>1. ASSUME NEW r \in Slots, HandleRequest(r) PROVE Events /\ Minutes
    <2>1. CASE ServiceCall(r)
      BY <2>1, ServiceAnswers DEF Answer, telemetryVars
    <2>2. ASSUME NEW q \in RestRequests, Arrive(r, q) PROVE Events /\ Minutes
      BY <2>2 DEF Arrive
    <2> HIDE DEF Events, Minutes
    <2> QED
      BY <1>1, <2>1, <2>2 DEF HandleRequest, ServiceCall
  <1>2. ASSUME NEW r \in Slots, ObserveRequest(r) PROVE Events /\ Minutes
    <2>0. /\ request[r] \in Request
          /\ request[r].pc = "event" => request[r].op \in ObservedOps
          /\ request[r].tenant \in SomeTenant /\ request[r].status \in Nat
      BY DEF RestOK, Bound, Request
    <2>1. CASE RecordEvent(r)
      <3> DEFINE e == [type |-> request[r].op, tenant |-> request[r].tenant,
                       status |-> request[r].status]
      <3>1. e \in Event
        BY <2>0, <2>1 DEF RecordEvent, Event, EventType, ObservedOps
      <3>2. AppendEvent(e) /\ UNCHANGED <<clock, minuteVars>>
        BY <2>1 DEF RecordEvent, RecordFrame
      <3> HIDE DEF e
      <3> QED
        BY <3>1, <3>2
    <2>2. CASE RecordRequest(r)
      <3> DEFINE e == [type |-> "request", tenant |-> request[r].tenant,
                       status |-> request[r].status]
      <3>1. e \in Event
        BY <2>0 DEF Event, EventType
      <3>2. AppendEvent(e) /\ UNCHANGED <<clock, minuteVars>>
        BY <2>2 DEF RecordRequest, RecordFrame
      <3> HIDE DEF e
      <3> QED
        BY <3>1, <3>2
    <2>3. CASE RecordMinute(r)
      BY <2>3 DEF RecordMinute, RecordFrame
    <2>4. CASE CountSuccess(r) \/ CountTenant(r) \/ FinishRequest(r)
      BY <2>4 DEF CountSuccess, CountTenant, FinishRequest, RecordFrame
    <2> HIDE DEF Events, Minutes
    <2> QED
      BY <1>2, <2>1, <2>2, <2>3, <2>4 DEF ObserveRequest
  <1>3. ASSUME UNCHANGED telemetryVars PROVE Events /\ Minutes
    BY <1>3 DEF telemetryVars
  <1>4. ASSUME PassMinute PROVE Events /\ Minutes
    BY <1>4 DEF PassMinute, Tick
  <1> HIDE DEF Events, Minutes
  <1>5. Events /\ Minutes
    BY <1>1, <1>2, <1>3, <1>4, RestFrame DEF Next, vars, restVars
  <1> QED
    BY <1>5 DEF Events, Minutes

EventsOK ==
    /\ events \in [0 .. Capacity - 1 -> Event]
    /\ eventHead \in 0 .. Capacity - 1
    /\ eventSize \in 0 .. Capacity
    /\ appended \in Seq(Event)

(* The place of the i-th newest event of a ring whose next place is head. *)
Back(head, i) == IF i <= head THEN head - i ELSE head - i + Capacity

LEMMA BackIsMod ==
    ASSUME NEW head \in 0 .. Capacity - 1, NEW i \in 1 .. Capacity
    PROVE  (head - i + Capacity) % Capacity = Back(head, i)
  <1>0. Capacity \in Nat \ {0}
    BY TelemetryAssumption
  <1> DEFINE a == head - i + Capacity
  <1>1. CASE i <= head
    <2>1. a \in Capacity .. 2 * Capacity - 1
      BY <1>0, <1>1
    <2>2. a % Capacity = a - Capacity
      BY <1>0, <2>1, NextMod
    <2> QED
      BY <1>0, <1>1, <2>2 DEF Back
  <1>2. CASE ~ (i <= head)
    <2>1. a \in 0 .. Capacity - 1
      BY <1>0, <1>2
    <2>2. a % Capacity = a
      BY <1>0, <2>1, SmallMod
    <2> QED
      BY <1>2, <2>2 DEF Back
  <1> QED
    BY <1>1, <1>2

LEMMA HeadIsMod ==
    ASSUME NEW head \in 0 .. Capacity - 1
    PROVE  (head + 1) % Capacity = IF head + 1 = Capacity THEN 0 ELSE head + 1
  <1>0. Capacity \in Nat \ {0}
    BY TelemetryAssumption
  <1>1. CASE head + 1 = Capacity
    BY <1>0, <1>1, NextMod
  <1>2. CASE head + 1 # Capacity
    BY <1>0, <1>2, SmallMod
  <1> QED
    BY <1>1, <1>2

(***************************************************************************)
(* The ring holds the newest events: as many as have been appended, up to  *)
(* its capacity, the newest behind the head.                               *)
(***************************************************************************)
RingHoldsNewest ==
    /\ eventSize = IF Len(appended) < Capacity THEN Len(appended) ELSE Capacity
    /\ \A i \in 1 .. eventSize :
          events[Back(eventHead, i)] = appended[Len(appended) + 1 - i]

LEMMA RingStep ==
    ASSUME EventsOK, RingHoldsNewest, NEW e \in Event, AppendEvent(e)
    PROVE  EventsOK' /\ RingHoldsNewest'
  <1>0. /\ Capacity \in Nat \ {0} /\ Len(appended) \in Nat
        /\ eventHead \in 0 .. Capacity - 1 /\ eventSize \in 0 .. Capacity
    BY TelemetryAssumption DEF EventsOK
  <1>1. eventHead' = IF eventHead + 1 = Capacity THEN 0 ELSE eventHead + 1
    BY <1>0, HeadIsMod DEF AppendEvent
  <1>2. /\ appended' \in Seq(Event) /\ Len(appended') = Len(appended) + 1
        /\ appended'[Len(appended) + 1] = e
        /\ \A i \in 1 .. Len(appended) : appended'[i] = appended[i]
    BY DEF EventsOK, AppendEvent
  <1>3. /\ events' \in [0 .. Capacity - 1 -> Event] /\ events'[eventHead] = e
        /\ \A i \in 0 .. Capacity - 1 : i # eventHead => events'[i] = events[i]
    BY DEF EventsOK, AppendEvent
  <1>4. /\ eventSize' \in 0 .. Capacity
        /\ eventSize' = IF Len(appended') < Capacity THEN Len(appended') ELSE Capacity
    BY <1>0, <1>2 DEF AppendEvent, RingHoldsNewest
  <1>5. EventsOK'
    BY <1>0, <1>1, <1>2, <1>3, <1>4 DEF EventsOK
  <1>6. ASSUME NEW i \in 1 .. eventSize'
        PROVE  events'[Back(eventHead', i)] = appended'[Len(appended') + 1 - i]
    <2>1. CASE i = 1
      <3>1. Back(eventHead', i) = eventHead
        BY <1>0, <1>1, <2>1 DEF Back
      <3> QED
        BY <1>0, <1>2, <1>3, <2>1, <3>1
    <2>2. CASE i # 1
      <3> DEFINE j == i - 1
      <3>1. j \in 1 .. eventSize /\ j < Capacity /\ j <= Len(appended)
        BY <1>0, <1>4, <2>2 DEF AppendEvent, RingHoldsNewest
      <3>2. /\ Back(eventHead', i) = Back(eventHead, j)
            /\ Back(eventHead, j) \in 0 .. Capacity - 1
            /\ Back(eventHead, j) # eventHead
        BY <1>0, <1>1, <2>2, <3>1 DEF Back
      <3>3. Len(appended') + 1 - i = Len(appended) + 1 - j
        BY <1>0, <1>2
      <3>4. Len(appended) + 1 - j \in 1 .. Len(appended)
        BY <1>0, <3>1
      <3>5. events[Back(eventHead, j)] = appended[Len(appended) + 1 - j]
        BY <3>1 DEF RingHoldsNewest
      <3> HIDE DEF j
      <3> QED
        BY <1>2, <1>3, <3>2, <3>3, <3>4, <3>5
    <2> QED
      BY <2>1, <2>2
  <1>7. RingHoldsNewest'
    BY <1>4, <1>6 DEF RingHoldsNewest, Back
  <1> QED
    BY <1>5, <1>7

(* The ring's contents are what a snapshot shows. *)
LEMMA RingIsShown == EventsOK /\ RingHoldsNewest => RecentEventsAreTheNewest
  <1> SUFFICES ASSUME EventsOK, RingHoldsNewest PROVE RecentEventsAreTheNewest
    OBVIOUS
  <1>0. /\ Capacity \in Nat \ {0} /\ EventLimit \in Nat /\ Len(appended) \in Nat
        /\ eventHead \in 0 .. Capacity - 1 /\ eventSize \in 0 .. Capacity
    BY TelemetryAssumption, BoundsAssumption DEF EventsOK
  <1> DEFINE n == IF EventLimit > eventSize THEN eventSize ELSE EventLimit
  <1>1. RecentEvents(EventLimit) =
            [i \in 1 .. n |-> events[(eventHead - i + Capacity) % Capacity]]
    BY DEF RecentEvents
  <1>2. n \in Nat /\ n <= eventSize
    BY <1>0
  <1>3. 1 .. n = {i \in 1 .. Len(appended) : i <= Capacity /\ i <= EventLimit}
    BY <1>0 DEF RingHoldsNewest
  <1> HIDE DEF n
  <1>4. ASSUME NEW i \in 1 .. n
        PROVE  events[(eventHead - i + Capacity) % Capacity] = appended[Len(appended) + 1 - i]
    <2>1. i \in 1 .. Capacity /\ i \in 1 .. eventSize
      BY <1>0, <1>2
    <2> QED
      BY <1>0, <2>1, BackIsMod DEF RingHoldsNewest
  <1> QED
    BY <1>1, <1>3, <1>4 DEF RecentEventsAreTheNewest

LEMMA EventsInit == Init => EventsOK /\ RingHoldsNewest
  <1> SUFFICES ASSUME Init PROVE EventsOK /\ RingHoldsNewest
    OBVIOUS
  <1>0. Capacity \in Nat \ {0}
    BY TelemetryAssumption
  <1>1. EventsOK
    BY <1>0 DEF Init, NewService, EventsOK, NoEvent, Event, EventType, SomeTenant
  <1>2. RingHoldsNewest
    BY <1>0 DEF Init, NewService, RingHoldsNewest
  <1> QED
    BY <1>1, <1>2

LEMMA EventsStep ==
    ASSUME ConfigOK, RestOK, EventsOK, RingHoldsNewest, [Next]_vars
    PROVE  EventsOK' /\ RingHoldsNewest'
  <1>1. ASSUME UNCHANGED eventVars PROVE EventsOK' /\ RingHoldsNewest'
    BY <1>1 DEF eventVars, EventsOK, RingHoldsNewest, Back
  <1> QED
    BY <1>1, TelemetryCases, RingStep

(***************************************************************************)
(* A snapshot shows the newest events, newest first, for every capacity    *)
(* of the ring and every limit, before and after it wraps around, however  *)
(* the requests that append events interleave.                             *)
(***************************************************************************)
THEOREM RecentEventsAreTheNewestCorrect == Spec => []RecentEventsAreTheNewest
  <1> DEFINE IInv == ConfigOK /\ RestOK /\ EventsOK /\ RingHoldsNewest
  <1>1. Init => IInv
    BY RestInit, EventsInit
  <1>2. IInv /\ [Next]_vars => IInv'
    BY ConfigStep, RestStep, EventsStep DEF ConfigOK
  <1>3. IInv => RecentEventsAreTheNewest
    BY RingIsShown
  <1> QED
    BY <1>1, <1>2, <1>3, PTL DEF Spec

-----------------------------------------------------------------------------
(* The ring of the minutes.                                                *)

MinutesOK ==
    /\ clock \in Nat
    /\ clock >= FirstMinute
    /\ requestRing \in [0 .. Window - 1 -> [minute : Nat, count : Nat]]
    /\ recorded \in Seq(Nat)
    /\ \A i \in 1 .. Len(recorded) : recorded[i] <= clock
    /\ \A b \in 0 .. Window - 1 : requestRing[b].minute <= clock

(* The requests of a minute, and what the ring says of it. *)
Requests(minute) == {i \in 1 .. Len(recorded) : recorded[i] = minute}
Shown(minute) ==
    IF requestRing[minute % Window].minute = minute
    THEN requestRing[minute % Window].count ELSE 0

RingCountsMinutes ==
    \A minute \in clock - Window + 1 .. clock : Shown(minute) = Cardinality(Requests(minute))

LEMMA RequestsFinite ==
    ASSUME MinutesOK, NEW minute
    PROVE  IsFiniteSet(Requests(minute)) /\ Cardinality(Requests(minute)) \in Nat
  <1>1. IsFiniteSet(1 .. Len(recorded))
    BY FS_Interval DEF MinutesOK
  <1>2. Requests(minute) \subseteq 1 .. Len(recorded)
    BY DEF Requests
  <1> QED
    BY <1>1, <1>2, FS_Subset, FS_CardinalityType

LEMMA MinuteInWindow ==
    ASSUME MinutesOK, NEW minute \in clock - Window + 1 .. clock
    PROVE  /\ Window \in Nat \ {0} /\ minute \in Nat
           /\ minute % Window \in 0 .. Window - 1
           /\ minute <= clock /\ clock < minute + Window
  <1>1. Window \in Nat \ {0} /\ minute \in Nat /\ minute <= clock /\ clock < minute + Window
    BY TelemetryAssumption DEF MinutesOK, FirstMinute
  <1> QED
    BY <1>1, ModRange

LEMMA TickKeepsMinutes ==
    ASSUME MinutesOK, RingCountsMinutes, Tick
    PROVE  MinutesOK' /\ RingCountsMinutes'
  <1>0. Window \in Nat \ {0} /\ clock \in Nat /\ clock' = clock + 1
    BY TelemetryAssumption DEF MinutesOK, Tick
  <1>1. requestRing' = requestRing /\ recorded' = recorded
    BY DEF Tick, minuteVars
  <1>2. MinutesOK'
    <2>1. \A i \in 1 .. Len(recorded) : recorded[i] <= clock + 1
      BY <1>0 DEF MinutesOK
    <2>2. \A b \in 0 .. Window - 1 : requestRing[b].minute <= clock + 1
      BY <1>0 DEF MinutesOK
    <2> QED
      BY <1>0, <1>1, <2>1, <2>2 DEF MinutesOK, FirstMinute
  <1>3. ASSUME NEW minute \in clock' - Window + 1 .. clock'
        PROVE  Shown(minute) = Cardinality(Requests(minute))
    <2>1. CASE minute \in clock - Window + 1 .. clock
      BY <2>1 DEF RingCountsMinutes
    <2>2. CASE minute = clock + 1
      <3>1. minute % Window \in 0 .. Window - 1
        BY <1>0, <2>2, ModRange
      <3>2. requestRing[minute % Window].minute # minute
        BY <1>0, <2>2, <3>1 DEF MinutesOK
      <3>3. Requests(minute) = {}
        BY <1>0, <2>2 DEF Requests, MinutesOK
      <3> QED
        BY <3>2, <3>3, FS_EmptySet DEF Shown
    <2> QED
      BY <1>0, <2>1, <2>2
  <1>4. RingCountsMinutes'
    BY <1>1, <1>3 DEF RingCountsMinutes, Shown, Requests
  <1> QED
    BY <1>2, <1>4

LEMMA RecordKeepsMinutes ==
    ASSUME MinutesOK, RingCountsMinutes, RecordRequestMinute, UNCHANGED clock
    PROVE  MinutesOK' /\ RingCountsMinutes'
  <1>0. Window \in Nat \ {0} /\ clock \in Nat /\ Len(recorded) \in Nat
    BY TelemetryAssumption DEF MinutesOK
  <1> DEFINE place == clock % Window
             n == IF requestRing[place].minute # clock THEN 1 ELSE requestRing[place].count + 1
  <1>1. place \in 0 .. Window - 1
    BY <1>0, ModRange
  <1>2. n \in Nat
    BY <1>1 DEF MinutesOK
  <1>3. requestRing' = [requestRing EXCEPT ![place] = [minute |-> clock, count |-> n]]
    BY DEF RecordRequestMinute
  <1>4. /\ requestRing' \in [0 .. Window - 1 -> [minute : Nat, count : Nat]]
        /\ requestRing'[place] = [minute |-> clock, count |-> n]
        /\ \A b \in 0 .. Window - 1 : b # place => requestRing'[b] = requestRing[b]
    <2> HIDE DEF place, n
    <2> QED
      BY <1>0, <1>1, <1>2, <1>3 DEF MinutesOK
  <1>5. /\ recorded' \in Seq(Nat) /\ Len(recorded') = Len(recorded) + 1
        /\ recorded'[Len(recorded) + 1] = clock
        /\ \A i \in 1 .. Len(recorded) : recorded'[i] = recorded[i]
    BY <1>0 DEF RecordRequestMinute, MinutesOK
  <1>6. MinutesOK'
    <2> HIDE DEF place, n
    <2>1. ASSUME NEW i \in 1 .. Len(recorded') PROVE recorded'[i] <= clock
      <3>1. CASE i = Len(recorded) + 1
        BY <1>0, <1>5, <3>1
      <3>2. CASE i # Len(recorded) + 1
        <4>1. i \in 1 .. Len(recorded)
          BY <1>0, <1>5, <3>2
        <4> QED
          BY <1>5, <4>1 DEF MinutesOK
      <3> QED
        BY <3>1, <3>2
    <2>2. \A b \in 0 .. Window - 1 : requestRing'[b].minute <= clock
      <3> SUFFICES ASSUME NEW b \in 0 .. Window - 1 PROVE requestRing'[b].minute <= clock
        OBVIOUS
      <3>1. CASE b = place
        BY <1>0, <1>4, <3>1
      <3>2. CASE b # place
        BY <1>4, <3>2 DEF MinutesOK
      <3> QED
        BY <3>1, <3>2
    <2> QED
      BY <1>4, <1>5, <2>1, <2>2 DEF MinutesOK, FirstMinute
  <1>7. ASSUME NEW minute \in clock - Window + 1 .. clock
        PROVE  Shown(minute)' = Cardinality(Requests(minute)')
    <2>0. /\ minute \in Nat /\ minute % Window \in 0 .. Window - 1
          /\ minute <= clock /\ clock < minute + Window
      BY MinuteInWindow
    <2>1. CASE minute = clock
      <3>1. Requests(minute)' = Requests(minute) \cup {Len(recorded) + 1}
        BY <1>0, <1>5, <2>1 DEF Requests
      <3>2. Len(recorded) + 1 \notin Requests(minute)
        BY <1>0 DEF Requests
      <3>3. Cardinality(Requests(minute)') = Cardinality(Requests(minute)) + 1
        BY <3>1, <3>2, RequestsFinite, FS_AddElement
      <3>4. Shown(minute) = Cardinality(Requests(minute))
        BY DEF RingCountsMinutes
      <3>5. Shown(minute)' = n
        <4> HIDE DEF n
        <4> QED
          BY <1>4, <2>1 DEF Shown
      <3>6. n = Shown(minute) + 1
        BY <2>1, <1>1 DEF Shown, MinutesOK
      <3> QED
        BY <3>3, <3>4, <3>5, <3>6
    <2>2. CASE minute # clock
      <3>0. minute < clock
        BY <1>0, <2>0, <2>2
      <3>1. minute % Window # place
        BY <1>0, <2>0, <3>0, DistinctMod, Zenon
      <3>2. Shown(minute)' = Shown(minute)
        <4> HIDE DEF place, n
        <4> QED
          BY <1>4, <2>0, <3>1 DEF Shown
      <3>3. Requests(minute)' = Requests(minute)
        BY <1>0, <1>5, <2>2 DEF Requests
      <3> QED
        BY <3>2, <3>3 DEF RingCountsMinutes
    <2> QED
      BY <2>1, <2>2
  <1>8. RingCountsMinutes'
    BY <1>7 DEF RingCountsMinutes, Requests
  <1> QED
    BY <1>6, <1>8

LEMMA MinutesInit == Init => MinutesOK /\ RingCountsMinutes
  <1> SUFFICES ASSUME Init PROVE MinutesOK /\ RingCountsMinutes
    OBVIOUS
  <1>0. Window \in Nat \ {0}
    BY TelemetryAssumption
  <1>1. MinutesOK
    BY <1>0 DEF Init, NewService, MinutesOK, FirstMinute
  <1>2. ASSUME NEW minute \in clock - Window + 1 .. clock
        PROVE  Shown(minute) = Cardinality(Requests(minute))
    <2>1. minute % Window \in 0 .. Window - 1
      BY <1>1, MinuteInWindow
    <2>2. Shown(minute) = 0
      BY <2>1 DEF Shown, Init, NewService
    <2>3. Requests(minute) = {}
      BY DEF Requests, Init, NewService
    <2> QED
      BY <2>2, <2>3, FS_EmptySet
  <1> QED
    BY <1>1, <1>2 DEF RingCountsMinutes

LEMMA MinutesStep ==
    ASSUME ConfigOK, RestOK, MinutesOK, RingCountsMinutes, [Next]_vars
    PROVE  MinutesOK' /\ RingCountsMinutes'
  <1>1. ASSUME UNCHANGED <<clock, minuteVars>> PROVE MinutesOK' /\ RingCountsMinutes'
    BY <1>1 DEF minuteVars, MinutesOK, RingCountsMinutes, Shown, Requests
  <1> QED
    BY <1>1, TelemetryCases, TickKeepsMinutes, RecordKeepsMinutes

(***************************************************************************)
(* The counts a snapshot shows for the last minutes are the requests of    *)
(* those minutes, for every window, however long the clock runs and        *)
(* however often a bucket is reused.                                       *)
(***************************************************************************)
THEOREM MinuteCountsAreExactCorrect == Spec => []MinuteCountsAreExact
  <1> DEFINE IInv == ConfigOK /\ RestOK /\ MinutesOK /\ RingCountsMinutes
  <1>1. Init => IInv
    BY RestInit, MinutesInit
  <1>2. IInv /\ [Next]_vars => IInv'
    BY ConfigStep, RestStep, MinutesStep DEF ConfigOK
  <1>3. IInv => MinuteCountsAreExact
    BY DEF RingCountsMinutes, MinuteCountsAreExact, RequestsPerMinute, Shown, Requests
  <1> QED
    BY <1>1, <1>2, <1>3, PTL DEF Spec

-----------------------------------------------------------------------------
(* The counters: what the requests in progress still owe them.             *)

Stores == {"store", "store_batch"}

(* A success of an operation that its counter does not show yet: a batch   *)
(* counts its tenants first, a store or a search itself.                   *)
Pending(q, op) ==
    q.op = op /\ (q.pc = "count" \/ (q.pc = "writes" /\ op = "store_batch"))

(* The items of a tenant that its counts do not show yet. *)
Owed(q, t, ops) ==
    {i \in 1 .. Len(q.items) :
        /\ q.items[i].tenant = t /\ t \in q.writes /\ q.op \in ops
        /\ q.pc = "writes" \/ (q.pc = "count" /\ q.op # "store_batch")}

Busy == {r \in Slots : request[r].pc # "idle"}
Uncounted(op) == {r \in Slots : Pending(request[r], op)}
Pairs(f) == {p \in Slots \X Nat : p[2] \in f[p[1]]}
Debt(t, ops) == Pairs([r \in Slots |-> Owed(request[r], t, ops)])

Counter(op) == CASE op = "store" -> storeCount
                 [] op = "store_batch" -> batchStoreCount
                 [] op = "search" -> searchCount
Count(t) == IF t \in DOMAIN tenantCounts THEN tenantCounts[t]
            ELSE [writes |-> 0, searches |-> 0]

(* A request that may still succeed, or did, counts tenants of its items:  *)
(* all of them before it has an answer; a search has one item.             *)
Ready(q) ==
    q.op \in ObservedOps /\ q.pc \in {"service", "count", "writes"} =>
        /\ q.writes \subseteq TenantsOf(q.items) \cap Tenants
        /\ q.pc = "service" => q.writes = TenantsOf(q.items)
        /\ q.op = "search" => Len(q.items) = 1

CountersOK ==
    /\ activeRequests \in Nat
    /\ storeCount \in Nat /\ batchStoreCount \in Nat /\ searchCount \in Nat
    /\ successes \in [ObservedOps -> Nat]
    /\ accepted \in [Tenants -> Nat] /\ found \in [Tenants -> Nat]
    /\ DOMAIN tenantCounts \subseteq Tenants
    /\ \A t \in DOMAIN tenantCounts : tenantCounts[t] \in [writes : Nat, searches : Nat]

DebtsOK ==
    /\ activeRequests = Cardinality(Busy)
    /\ \A op \in ObservedOps : Counter(op) + Cardinality(Uncounted(op)) = successes[op]
    /\ \A t \in Tenants :
          /\ IsFiniteSet(Debt(t, Stores)) /\ IsFiniteSet(Debt(t, {"search"}))
          /\ Count(t).writes + Cardinality(Debt(t, Stores)) = accepted[t]
          /\ Count(t).searches + Cardinality(Debt(t, {"search"})) = found[t]

ReadyOK == \A r \in Slots : Ready(request[r])

(* One member of a finite set comes or goes. *)
LEMMA MemberUpdate ==
    ASSUME NEW A, NEW B, NEW r, IsFiniteSet(A),
           \A s : s # r => (s \in A <=> s \in B)
    PROVE  /\ IsFiniteSet(B)
           /\ Cardinality(A) \in Nat /\ Cardinality(B) \in Nat
           /\ Cardinality(B) + (IF r \in A THEN 1 ELSE 0) =
              Cardinality(A) + (IF r \in B THEN 1 ELSE 0)
  <1> DEFINE C == A \ {r}
  <1>1. IsFiniteSet(C)
    BY FS_RemoveElement, Zenon
  <1>2. A = IF r \in A THEN C \cup {r} ELSE C
    OBVIOUS
  <1>3. B = IF r \in B THEN C \cup {r} ELSE C
    <2>1. \A s : s \in B <=> s \in (IF r \in B THEN C \cup {r} ELSE C)
      BY Zenon
    <2> QED
      BY <2>1, Zenon
  <1>4. r \notin C
    OBVIOUS
  <1> HIDE DEF C
  <1>5. /\ IsFiniteSet(C \cup {r}) /\ Cardinality(C) \in Nat
        /\ Cardinality(C \cup {r}) = Cardinality(C) + 1
    BY <1>1, <1>4, FS_AddElement, FS_CardinalityType
  <1>6. IsFiniteSet(B)
    BY <1>1, <1>3, <1>5, Zenon
  <1>7. Cardinality(A) = IF r \in A THEN Cardinality(C) + 1 ELSE Cardinality(C)
    BY <1>2, <1>5, Zenon
  <1>8. Cardinality(B) = IF r \in B THEN Cardinality(C) + 1 ELSE Cardinality(C)
    BY <1>3, <1>5, Zenon
  <1> QED
    BY <1>5, <1>6, <1>7, <1>8

(* The pairs of one slot are as many as its numbers. *)
LEMMA SlotPairs ==
    ASSUME NEW r, NEW I, IsFiniteSet(I)
    PROVE  IsFiniteSet({r} \X I) /\ Cardinality({r} \X I) = Cardinality(I)
  <1> DEFINE f == [i \in I |-> <<r, i>>]
  <1>1. f \in Bijection(I, {r} \X I)
    <2>1. f \in [I -> {r} \X I]
      OBVIOUS
    <2>2. \A i, j \in I : f[i] = f[j] => i = j
      OBVIOUS
    <2>3. \A p \in {r} \X I : \E i \in I : f[i] = p
      OBVIOUS
    <2> HIDE DEF f
    <2> QED
      BY <2>1, <2>2, <2>3, Zenon DEF Bijection, Injection, Surjection, IsInjective
  <1>2. ExistsBijection(I, {r} \X I)
    BY <1>1, Zenon DEF ExistsBijection
  <1> QED
    BY <1>2, FS_Bijection

LEMMA DisjointUnion ==
    ASSUME NEW A, NEW B, IsFiniteSet(A), IsFiniteSet(B), A \cap B = {}
    PROVE  /\ IsFiniteSet(A \cup B)
           /\ Cardinality(A) \in Nat /\ Cardinality(B) \in Nat
           /\ Cardinality(A \cup B) = Cardinality(A) + Cardinality(B)
  <1>1. /\ IsFiniteSet(A \cup B)
        /\ Cardinality(A \cup B) = Cardinality(A) + Cardinality(B) - Cardinality(A \cap B)
    BY FS_Union, Zenon
  <1>2. Cardinality(A \cap B) = 0 /\ Cardinality(A) \in Nat /\ Cardinality(B) \in Nat
    BY FS_EmptySet, FS_CardinalityType, Zenon
  <1> QED
    BY <1>1, <1>2

(* The numbers of one slot change. *)
LEMMA PairsUpdate ==
    ASSUME NEW f \in [Slots -> SUBSET Nat], NEW g \in [Slots -> SUBSET Nat], NEW r \in Slots,
           \A s \in Slots : s # r => f[s] = g[s],
           IsFiniteSet(Pairs(f)), IsFiniteSet(f[r]), IsFiniteSet(g[r])
    PROVE  /\ IsFiniteSet(Pairs(g))
           /\ Cardinality(Pairs(f)) \in Nat /\ Cardinality(Pairs(g)) \in Nat
           /\ Cardinality(f[r]) \in Nat /\ Cardinality(g[r]) \in Nat
           /\ Cardinality(Pairs(g)) + Cardinality(f[r]) =
              Cardinality(Pairs(f)) + Cardinality(g[r])
  <1> DEFINE F == {r} \X f[r]
             G == {r} \X g[r]
             P == {p \in Pairs(f) : p[1] # r}
  <1>1. /\ IsFiniteSet(F) /\ Cardinality(F) = Cardinality(f[r])
        /\ IsFiniteSet(G) /\ Cardinality(G) = Cardinality(g[r])
    BY SlotPairs, Zenon
  <1>2. IsFiniteSet(P)
    BY FS_Subset
  <1>3. Pairs(f) = P \cup F /\ P \cap F = {}
    BY DEF Pairs
  <1>4. Pairs(g) = P \cup G /\ P \cap G = {}
    BY DEF Pairs
  <1> HIDE DEF F, G, P
  <1>5. /\ Cardinality(P) \in Nat /\ Cardinality(F) \in Nat
        /\ Cardinality(Pairs(f)) = Cardinality(P) + Cardinality(F)
    BY <1>1, <1>2, <1>3, DisjointUnion, Zenon
  <1>6. /\ Cardinality(G) \in Nat /\ IsFiniteSet(Pairs(g))
        /\ Cardinality(Pairs(g)) = Cardinality(P) + Cardinality(G)
    <2>1. /\ Cardinality(G) \in Nat /\ IsFiniteSet(P \cup G)
          /\ Cardinality(P \cup G) = Cardinality(P) + Cardinality(G)
      BY <1>1, <1>2, <1>4, DisjointUnion, Zenon
    <2> QED
      BY <1>4, <2>1, Zenon
  <1> QED
    BY <1>1, <1>5, <1>6

-----------------------------------------------------------------------------
(* A step of one request keeps the counters and the debts in balance.      *)

One(condition) == IF condition THEN 1 ELSE 0

Balanced(p, q) ==
    /\ activeRequests' + One(p.pc # "idle") = activeRequests + One(q.pc # "idle")
    /\ \A op \in ObservedOps :
          Counter(op)' + One(Pending(q, op)) + successes[op] =
          Counter(op) + One(Pending(p, op)) + successes'[op]
    /\ \A t \in Tenants :
          /\ Count(t)'.writes + Cardinality(Owed(q, t, Stores)) + accepted[t] =
             Count(t).writes + Cardinality(Owed(p, t, Stores)) + accepted'[t]
          /\ Count(t)'.searches + Cardinality(Owed(q, t, {"search"})) + found[t] =
             Count(t).searches + Cardinality(Owed(p, t, {"search"})) + found'[t]

LEMMA OwedFinite ==
    ASSUME NEW q \in Request, NEW t, NEW ops
    PROVE  /\ Owed(q, t, ops) \in SUBSET Nat /\ IsFiniteSet(Owed(q, t, ops))
           /\ Cardinality(Owed(q, t, ops)) \in Nat
  <1>1. Len(q.items) \in Nat
    BY DEF Request
  <1>2. IsFiniteSet(1 .. Len(q.items))
    BY <1>1, IntervalCount
  <1>3. Owed(q, t, ops) \subseteq 1 .. Len(q.items)
    BY Zenon DEF Owed
  <1>4. Owed(q, t, ops) \in SUBSET Nat
    BY <1>1, <1>3
  <1>5. IsFiniteSet(Owed(q, t, ops))
    BY <1>2, <1>3, FS_Subset
  <1> QED
    BY <1>4, <1>5, FS_CardinalityType

LEMMA CountType ==
    ASSUME CountersOK, NEW t \in Tenants
    PROVE  Count(t).writes \in Nat /\ Count(t).searches \in Nat
  BY DEF CountersOK, Count

LEMMA CounterType ==
    ASSUME CountersOK, NEW op \in ObservedOps
    PROVE  Counter(op) \in Nat /\ successes[op] \in Nat
  BY DEF CountersOK, Counter, ObservedOps

(* The requests in progress, and those not counted yet, after a step. *)
LEMMA SlotMembers ==
    ASSUME RestOK, NEW r \in Slots, NEW q \in Request, request' = [request EXCEPT ![r] = q],
           NEW op
    PROVE  /\ Cardinality(Busy) \in Nat /\ Cardinality(Busy') \in Nat
           /\ Cardinality(Busy') + One(request[r].pc # "idle") =
              Cardinality(Busy) + One(q.pc # "idle")
           /\ Cardinality(Uncounted(op)) \in Nat /\ Cardinality(Uncounted(op)') \in Nat
           /\ Cardinality(Uncounted(op)') + One(Pending(request[r], op)) =
              Cardinality(Uncounted(op)) + One(Pending(q, op))
  <1>0. /\ request'[r] = q /\ \A s \in Slots : s # r => request'[s] = request[s]
    BY DEF RestOK
  <1>1. /\ Busy \subseteq Slots /\ Uncounted(op) \subseteq Slots
    BY DEF Busy, Uncounted
  <1>2. IsFiniteSet(Busy) /\ IsFiniteSet(Uncounted(op))
    BY <1>1, BoundsAssumption, FS_Subset
  <1>3. /\ \A s : s # r => (s \in Busy <=> s \in Busy')
        /\ r \in Busy <=> request[r].pc # "idle"
        /\ r \in Busy' <=> q.pc # "idle"
    BY <1>0, Zenon DEF Busy
  <1>4. /\ \A s : s # r => (s \in Uncounted(op) <=> s \in Uncounted(op)')
        /\ r \in Uncounted(op) <=> Pending(request[r], op)
        /\ r \in Uncounted(op)' <=> Pending(q, op)
    BY <1>0, Zenon DEF Uncounted, Pending
  <1>5. /\ Cardinality(Busy) \in Nat /\ Cardinality(Busy') \in Nat
        /\ Cardinality(Busy') + (IF r \in Busy THEN 1 ELSE 0) =
           Cardinality(Busy) + (IF r \in Busy' THEN 1 ELSE 0)
    <2>1. PICK a, b : a = Busy /\ b = Busy'
      OBVIOUS
    <2>2. IsFiniteSet(a) /\ \A s : s # r => (s \in a <=> s \in b)
      BY <1>2, <1>3, <2>1, Zenon
    <2>3. /\ Cardinality(a) \in Nat /\ Cardinality(b) \in Nat
          /\ Cardinality(b) + (IF r \in a THEN 1 ELSE 0) =
             Cardinality(a) + (IF r \in b THEN 1 ELSE 0)
      BY <2>2, MemberUpdate
    <2> QED
      BY <2>1, <2>3, Zenon
  <1>6. /\ Cardinality(Uncounted(op)) \in Nat /\ Cardinality(Uncounted(op)') \in Nat
        /\ Cardinality(Uncounted(op)') + (IF r \in Uncounted(op) THEN 1 ELSE 0) =
           Cardinality(Uncounted(op)) + (IF r \in Uncounted(op)' THEN 1 ELSE 0)
    <2>1. PICK a, b : a = Uncounted(op) /\ b = Uncounted(op)'
      OBVIOUS
    <2>2. IsFiniteSet(a) /\ \A s : s # r => (s \in a <=> s \in b)
      BY <1>2, <1>4, <2>1, Zenon
    <2>3. /\ Cardinality(a) \in Nat /\ Cardinality(b) \in Nat
          /\ Cardinality(b) + (IF r \in a THEN 1 ELSE 0) =
             Cardinality(a) + (IF r \in b THEN 1 ELSE 0)
      BY <2>2, MemberUpdate
    <2> QED
      BY <2>1, <2>3, Zenon
  <1> QED
    BY <1>3, <1>4, <1>5, <1>6, Zenon DEF One

(* The items not counted yet, after a step. *)
LEMMA SlotDebt ==
    ASSUME RestOK, NEW r \in Slots, NEW q \in Request, request' = [request EXCEPT ![r] = q],
           NEW t, NEW ops, IsFiniteSet(Debt(t, ops))
    PROVE  /\ IsFiniteSet(Debt(t, ops)')
           /\ Cardinality(Debt(t, ops)) \in Nat /\ Cardinality(Debt(t, ops)') \in Nat
           /\ Cardinality(Debt(t, ops)') + Cardinality(Owed(request[r], t, ops)) =
              Cardinality(Debt(t, ops)) + Cardinality(Owed(q, t, ops))
  <1>0. /\ request'[r] = q /\ \A s \in Slots : s # r => request'[s] = request[s]
        /\ \A s \in Slots : request[s] \in Request /\ request'[s] \in Request
    BY DEF RestOK
  <1> DEFINE f == [s \in Slots |-> Owed(request[s], t, ops)]
             g == [s \in Slots |-> Owed(request'[s], t, ops)]
  <1>1. PICK a, b : a = f /\ b = g
    OBVIOUS
  <1>2. a \in [Slots -> SUBSET Nat] /\ b \in [Slots -> SUBSET Nat]
    BY <1>0, <1>1, OwedFinite
  <1>3. \A s \in Slots : s # r => a[s] = b[s]
    BY <1>0, <1>1
  <1>4. a[r] = Owed(request[r], t, ops) /\ b[r] = Owed(q, t, ops)
    BY <1>0, <1>1
  <1>5. IsFiniteSet(a[r]) /\ IsFiniteSet(b[r])
    BY <1>0, <1>4, OwedFinite
  <1>6. Debt(t, ops) = Pairs(a)
    BY <1>1 DEF Debt
  <1>7. Debt(t, ops)' = Pairs(b)
    BY <1>1 DEF Debt, Pairs, Owed
  <1> HIDE DEF f, g
  <1>8. /\ IsFiniteSet(Pairs(b))
        /\ Cardinality(Pairs(a)) \in Nat /\ Cardinality(Pairs(b)) \in Nat
        /\ Cardinality(Pairs(b)) + Cardinality(a[r]) = Cardinality(Pairs(a)) + Cardinality(b[r])
    BY <1>2, <1>3, <1>5, <1>6, PairsUpdate
  <1> QED
    BY <1>4, <1>6, <1>7, <1>8, Zenon

LEMMA BalanceKept ==
    ASSUME RestOK, CountersOK, CountersOK', DebtsOK, NEW r \in Slots, NEW q \in Request,
           request' = [request EXCEPT ![r] = q], Balanced(request[r], q)
    PROVE  DebtsOK'
  <1>0. request[r] \in Request
    BY DEF RestOK
  <1>1. activeRequests' = Cardinality(Busy')
    <2>1. /\ Cardinality(Busy) \in Nat /\ Cardinality(Busy') \in Nat
          /\ Cardinality(Busy') + One(request[r].pc # "idle") =
             Cardinality(Busy) + One(q.pc # "idle")
      BY SlotMembers
    <2>2. activeRequests' + One(request[r].pc # "idle") = activeRequests + One(q.pc # "idle")
      BY Zenon DEF Balanced
    <2>3. /\ activeRequests = Cardinality(Busy) /\ activeRequests' \in Nat
          /\ One(request[r].pc # "idle") \in Nat /\ One(q.pc # "idle") \in Nat
      BY DEF DebtsOK, CountersOK, One
    <2> QED
      BY <2>1, <2>2, <2>3
  <1>2. ASSUME NEW op \in ObservedOps
        PROVE  Counter(op)' + Cardinality(Uncounted(op)') = successes'[op]
    <2>1. /\ Cardinality(Uncounted(op)) \in Nat /\ Cardinality(Uncounted(op)') \in Nat
          /\ Cardinality(Uncounted(op)') + One(Pending(request[r], op)) =
             Cardinality(Uncounted(op)) + One(Pending(q, op))
      BY SlotMembers
    <2>2. Counter(op)' + One(Pending(q, op)) + successes[op] =
          Counter(op) + One(Pending(request[r], op)) + successes'[op]
      BY Zenon DEF Balanced
    <2>3. /\ Counter(op) \in Nat /\ successes[op] \in Nat
          /\ Counter(op) + Cardinality(Uncounted(op)) = successes[op]
      BY CounterType DEF DebtsOK
    <2>4. Counter(op)' \in Nat /\ successes'[op] \in Nat
      BY DEF CountersOK, Counter, ObservedOps
    <2>5. One(Pending(request[r], op)) \in Nat /\ One(Pending(q, op)) \in Nat
      BY Zenon DEF One
    <2> QED
      BY <2>1, <2>2, <2>3, <2>4, <2>5
  <1>3. ASSUME NEW t \in Tenants
        PROVE  /\ IsFiniteSet(Debt(t, Stores)') /\ IsFiniteSet(Debt(t, {"search"})')
               /\ Count(t)'.writes + Cardinality(Debt(t, Stores)') = accepted'[t]
               /\ Count(t)'.searches + Cardinality(Debt(t, {"search"})') = found'[t]
    <2>1. /\ Count(t).writes \in Nat /\ Count(t).searches \in Nat
          /\ accepted[t] \in Nat /\ found[t] \in Nat
      BY CountType DEF CountersOK
    <2>2. /\ Count(t)'.writes \in Nat /\ Count(t)'.searches \in Nat
          /\ accepted'[t] \in Nat /\ found'[t] \in Nat
      BY DEF CountersOK, Count
    <2>3. \A ops : /\ Cardinality(Owed(request[r], t, ops)) \in Nat
                   /\ Cardinality(Owed(q, t, ops)) \in Nat
      BY <1>0, OwedFinite
    <2>4. /\ IsFiniteSet(Debt(t, Stores)) /\ IsFiniteSet(Debt(t, {"search"}))
          /\ Count(t).writes + Cardinality(Debt(t, Stores)) = accepted[t]
          /\ Count(t).searches + Cardinality(Debt(t, {"search"})) = found[t]
      BY DEF DebtsOK
    <2>5. /\ Count(t)'.writes + Cardinality(Owed(q, t, Stores)) + accepted[t] =
             Count(t).writes + Cardinality(Owed(request[r], t, Stores)) + accepted'[t]
          /\ Count(t)'.searches + Cardinality(Owed(q, t, {"search"})) + found[t] =
             Count(t).searches + Cardinality(Owed(request[r], t, {"search"})) + found'[t]
      BY Zenon DEF Balanced
    <2>6. /\ IsFiniteSet(Debt(t, Stores)')
          /\ Cardinality(Debt(t, Stores)) \in Nat /\ Cardinality(Debt(t, Stores)') \in Nat
          /\ Cardinality(Debt(t, Stores)') + Cardinality(Owed(request[r], t, Stores)) =
             Cardinality(Debt(t, Stores)) + Cardinality(Owed(q, t, Stores))
      BY <2>4, SlotDebt
    <2>7. /\ IsFiniteSet(Debt(t, {"search"})')
          /\ Cardinality(Debt(t, {"search"})) \in Nat /\ Cardinality(Debt(t, {"search"})') \in Nat
          /\ Cardinality(Debt(t, {"search"})') + Cardinality(Owed(request[r], t, {"search"})) =
             Cardinality(Debt(t, {"search"})) + Cardinality(Owed(q, t, {"search"}))
      BY <2>4, SlotDebt
    <2>8. Count(t)'.writes + Cardinality(Debt(t, Stores)') = accepted'[t]
      <3> DEFINE count == Count(t).writes
                 counted == Count(t)'.writes
                 owed == Cardinality(Owed(request[r], t, Stores))
                 owing == Cardinality(Owed(q, t, Stores))
                 debt == Cardinality(Debt(t, Stores))
                 debts == Cardinality(Debt(t, Stores)')
                 total == accepted[t]
                 totals == accepted'[t]
      <3>1. /\ count \in Nat /\ counted \in Nat /\ owed \in Nat /\ owing \in Nat
            /\ debt \in Nat /\ debts \in Nat /\ total \in Nat /\ totals \in Nat
        BY <2>1, <2>2, <2>3, <2>6
      <3>2. /\ count + debt = total /\ debts + owed = debt + owing
            /\ counted + owing + total = count + owed + totals
        BY <2>4, <2>5, <2>6
      <3> HIDE DEF count, counted, owed, owing, debt, debts, total, totals
      <3>3. counted + debts = totals
        BY ONLY <3>1, <3>2
      <3> QED
        BY <3>3 DEF counted, debts, totals
    <2>9. Count(t)'.searches + Cardinality(Debt(t, {"search"})') = found'[t]
      <3> DEFINE count == Count(t).searches
                 counted == Count(t)'.searches
                 owed == Cardinality(Owed(request[r], t, {"search"}))
                 owing == Cardinality(Owed(q, t, {"search"}))
                 debt == Cardinality(Debt(t, {"search"}))
                 debts == Cardinality(Debt(t, {"search"})')
                 total == found[t]
                 totals == found'[t]
      <3>1. /\ count \in Nat /\ counted \in Nat /\ owed \in Nat /\ owing \in Nat
            /\ debt \in Nat /\ debts \in Nat /\ total \in Nat /\ totals \in Nat
        BY <2>1, <2>2, <2>3, <2>7
      <3>2. /\ count + debt = total /\ debts + owed = debt + owing
            /\ counted + owing + total = count + owed + totals
        BY <2>4, <2>5, <2>7
      <3> HIDE DEF count, counted, owed, owing, debt, debts, total, totals
      <3>3. counted + debts = totals
        BY ONLY <3>1, <3>2
      <3> QED
        BY <3>3 DEF counted, debts, totals
    <2> QED
      BY <2>6, <2>7, <2>8, <2>9
  <1> QED
    BY <1>1, <1>2, <1>3 DEF DebtsOK

LEMMA OwesNothing ==
    ASSUME NEW q, q.pc \notin {"count", "writes"}, NEW t, NEW ops, NEW op
    PROVE  Owed(q, t, ops) = {} /\ ~ Pending(q, op)
  BY Zenon DEF Owed, Pending

(* A step between two places where a request owes nothing. *)
LEMMA QuietBalance ==
    ASSUME CountersOK, NEW p, NEW q,
           p.pc \notin {"count", "writes"}, q.pc \notin {"count", "writes"},
           activeRequests' + One(p.pc # "idle") = activeRequests + One(q.pc # "idle"),
           UNCHANGED <<counters, tenantCounts, accepted, found, successes>>
    PROVE  Balanced(p, q)
  <1>0. Cardinality({}) = 0
    BY FS_EmptySet
  <1>1. ASSUME NEW op \in ObservedOps
        PROVE  Counter(op)' + One(Pending(q, op)) + successes[op] =
               Counter(op) + One(Pending(p, op)) + successes'[op]
    <2>1. Counter(op)' = Counter(op) /\ successes'[op] = successes[op]
      BY DEF Counter, counters
    <2>2. One(Pending(q, op)) = 0 /\ One(Pending(p, op)) = 0
      BY OwesNothing, Zenon DEF One
    <2> QED
      BY <2>1, <2>2
  <1>2. ASSUME NEW t \in Tenants
        PROVE  /\ Count(t)'.writes + Cardinality(Owed(q, t, Stores)) + accepted[t] =
                  Count(t).writes + Cardinality(Owed(p, t, Stores)) + accepted'[t]
               /\ Count(t)'.searches + Cardinality(Owed(q, t, {"search"})) + found[t] =
                  Count(t).searches + Cardinality(Owed(p, t, {"search"})) + found'[t]
    <2>1. Count(t)' = Count(t) /\ accepted' = accepted /\ found' = found
      BY DEF Count
    <2>2. \A ops : Owed(q, t, ops) = {} /\ Owed(p, t, ops) = {}
      BY OwesNothing, Zenon
    <2> QED
      BY <2>1, <2>2
  <1> QED
    BY <1>1, <1>2 DEF Balanced

(* The parts of the invariant that one request's step can disturb. *)
LEMMA SlotKeepsCounts ==
    ASSUME RestOK, CountersOK, CountersOK', DebtsOK, ReadyOK, NEW r \in Slots,
           NEW q \in Request, Ready(q), request' = [request EXCEPT ![r] = q],
           Balanced(request[r], q)
    PROVE  DebtsOK' /\ ReadyOK'
  <1>1. DebtsOK'
    BY BalanceKept
  <1>2. request'[r] = q /\ \A s \in Slots : s # r => request'[s] = request[s]
    BY DEF RestOK
  <1>3. ASSUME NEW s \in Slots PROVE Ready(request[s])'
    <2>1. PICK p : p = request'[s]
      OBVIOUS
    <2>2. p = request[s] \/ p = q
      BY <1>2, <2>1
    <2>3. Ready(p)
      BY <2>2 DEF ReadyOK
    <2> QED
      BY <2>1, <2>3 DEF Ready
  <1>4. ReadyOK'
    BY <1>3 DEF ReadyOK
  <1> QED
    BY <1>1, <1>4

-----------------------------------------------------------------------------
(* The refusals of a handler are no successes. *)
LEMMA BindRefuses ==
    ASSUME NEW q \in RestRequests, NEW caller \in SomeTenant
    PROVE  Bind(q, caller) \in {0, 400, 403}
  <1>0. q.items \in Seq(Item)
    BY RestAssumption
  <1>1. \A t : EnforceTenantAccess(caller, t) \in {0, 400, 403}
    BY DEF EnforceTenantAccess
  <1>2. \A item : BindItem(caller, item) \in {0, 400, 403}
    BY <1>1 DEF BindItem
  <1>3. BindItems(caller, q.items) \in {0, 400, 403}
    BY <1>2 DEF BindItems
  <1> QED
    BY <1>1, <1>3 DEF Bind

LEMMA FailureIsQuiet ==
    ASSUME NEW op \in RequestOps, NEW status \in Nat, ~ isSuccessStatus(status)
    PROVE  AfterHandler(op, status) \in {"event", "minute"}
  BY DEF AfterHandler

LEMMA SuccessIsCounted ==
    ASSUME NEW op \in RequestOps, NEW status \in Nat, isSuccessStatus(status)
    PROVE  AfterHandler(op, status) =
              IF op \in {"store", "search"} THEN "count"
              ELSE IF op = "store_batch" THEN "writes" ELSE "minute"
  BY DEF AfterHandler

(* A request that arrives owes nothing; if it binds it will count all the  *)
(* tenants of its items.                                                   *)
LEMMA ArriveReady ==
    ASSUME ConfigOK, RestOK, NEW r \in Slots, NEW q0 \in RestRequests, Arrive(r, q0)
    PROVE  \E q : /\ request' = [request EXCEPT ![r] = q]
                  /\ q.pc \in {"service", "event", "minute"} /\ Ready(q)
  <1> DEFINE caller == IF config.auth THEN Authenticate(q0.token) ELSE NoTenant
             bound == Bind(q0, caller)
             refusal == [IdleRequest EXCEPT !.pc = "minute", !.op = q0.op, !.status = 401]
             entry == [pc     |-> IF bound = 0 THEN "service" ELSE AfterHandler(q0.op, bound),
                       op     |-> q0.op,
                       items  |-> IF bound = 0 THEN q0.items ELSE <<>>,
                       caller |-> caller,
                       status |-> bound,
                       tenant |-> TelemetryTenant(q0, bound),
                       writes |-> IF bound = 0 /\ q0.op \in {"store", "store_batch", "search"}
                                  THEN TenantsOf(q0.items) ELSE {}]
  <1>0. /\ q0.op \in RequestOps /\ q0.items \in Seq(Item) /\ q0.token.tenant \in SomeTenant
        /\ q0.op \notin {"store_batch", "ingest_batch"} => Len(q0.items) = 1
    BY RestAssumption
  <1>1. caller \in SomeTenant
    BY <1>0 DEF Authenticate, SomeTenant
  <1>2. bound \in {0, 400, 403}
    BY <1>1, BindRefuses
  <1>3. bound # 0 => AfterHandler(q0.op, bound) \in {"event", "minute"}
    <2> HIDE DEF bound
    <2>1. bound # 0 => bound \in Nat /\ ~ isSuccessStatus(bound)
      BY <1>2 DEF isSuccessStatus
    <2> QED
      BY <1>0, <2>1, FailureIsQuiet
  <1>4. bound = 0 /\ q0.op # "job" => TenantsOf(q0.items) \subseteq Tenants
    BY <1>1, BindAccess DEF TenantsOf
  <1>5. request' = [request EXCEPT ![r] = IF config.auth /\ caller = NoTenant
                                          THEN refusal ELSE entry]
    BY DEF Arrive
  <1>6. PICK q : q = IF config.auth /\ caller = NoTenant THEN refusal ELSE entry
    OBVIOUS
  <1>7. CASE q = refusal
    <2>1. q.pc = "minute"
      BY <1>7 DEF IdleRequest
    <2>2. request' = [request EXCEPT ![r] = q]
      BY <1>5, <1>6
    <2>3. Ready(q)
      BY <2>1 DEF Ready
    <2> QED
      BY <2>1, <2>2, <2>3
  <1>8. CASE q = entry
    <2>1. request' = [request EXCEPT ![r] = q]
      BY <1>5, <1>6
    <2> HIDE DEF caller, bound
    <2>2. /\ q.pc = (IF bound = 0 THEN "service" ELSE AfterHandler(q0.op, bound))
          /\ q.op = q0.op /\ (bound = 0 => q.items = q0.items)
          /\ bound = 0 /\ q0.op \in ObservedOps => q.writes = TenantsOf(q0.items)
      BY <1>8 DEF ObservedOps
    <2> HIDE DEF entry
    <2>3. q.pc \in {"service", "event", "minute"}
      BY <1>3, <2>2
    <2>4. Ready(q)
      <3>1. CASE bound = 0
        BY <1>0, <1>4, <2>2, <3>1 DEF Ready, ObservedOps
      <3>2. CASE bound # 0
        BY <1>3, <2>2, <3>2 DEF Ready
      <3> QED
        BY <3>1, <3>2
    <2> QED
      BY <2>1, <2>3, <2>4
  <1> QED
    BY <1>6, <1>7, <1>8

CountInv == CountersOK /\ DebtsOK /\ ReadyOK

LEMMA ArriveCounts ==
    ASSUME ConfigOK, RestOK, RestOK', CountInv, NEW r \in Slots, NEW q0 \in RestRequests,
           Arrive(r, q0)
    PROVE  CountInv'
  <1>1. PICK q : /\ request' = [request EXCEPT ![r] = q]
                 /\ q.pc \in {"service", "event", "minute"} /\ Ready(q)
    BY ArriveReady
  <1>2. q \in Request
    <2>1. request'[r] = q
      BY <1>1 DEF RestOK
    <2> QED
      BY <2>1 DEF RestOK
  <1>3. /\ request[r].pc = "idle" /\ activeRequests' = activeRequests + 1
        /\ UNCHANGED <<counters, tenantCounts, accepted, found, successes>>
    BY DEF Arrive, restGhosts
  <1>4. CountersOK'
    BY <1>3 DEF CountInv, CountersOK, counters
  <1>5. Balanced(request[r], q)
    <2>1. activeRequests' + One(request[r].pc # "idle") = activeRequests + One(q.pc # "idle")
      BY <1>1, <1>3 DEF One, CountInv, CountersOK
    <2>2. /\ request[r].pc \notin {"count", "writes"} /\ q.pc \notin {"count", "writes"}
          /\ CountersOK
      BY <1>1, <1>3 DEF CountInv
    <2> QED
      BY <1>3, <2>1, <2>2, QuietBalance
  <1> QED
    BY <1>1, <1>2, <1>4, <1>5, SlotKeepsCounts DEF CountInv

(* A step of the middleware that counts nothing. *)
LEMMA QuietCounts ==
    ASSUME RestOK, CountInv, NEW r \in Slots, NEW pc, Goto(r, pc),
           request[r].pc \in {"event", "minute", "request"},
           pc \in {"minute", "request", "finish"},
           UNCHANGED <<activeRequests, counters, tenantCounts, accepted, found, successes>>
    PROVE  CountInv'
  <1> DEFINE x == [request[r] EXCEPT !.pc = pc]
  <1>0. request[r] \in Request
    BY DEF RestOK
  <1>1. PICK q : q = x
    OBVIOUS
  <1>2. q \in Request /\ q.pc = pc
    BY <1>0, <1>1 DEF Request
  <1>3. request' = [request EXCEPT ![r] = q]
    BY <1>1 DEF Goto, RestOK
  <1> HIDE DEF x
  <1>4. CountersOK'
    BY DEF CountInv, CountersOK, counters
  <1>5. Ready(q)
    BY <1>2 DEF Ready
  <1>6. Balanced(request[r], q)
    <2>1. activeRequests' + One(request[r].pc # "idle") = activeRequests + One(q.pc # "idle")
      BY <1>2 DEF One
    <2>2. /\ request[r].pc \notin {"count", "writes"} /\ q.pc \notin {"count", "writes"}
          /\ CountersOK
      BY <1>2 DEF CountInv
    <2> QED
      BY <2>1, <2>2, QuietBalance
  <1> QED
    BY <1>2, <1>3, <1>4, <1>5, <1>6, SlotKeepsCounts DEF CountInv

LEMMA FinishCounts ==
    ASSUME RestOK, CountInv, NEW r \in Slots, FinishRequest(r)
    PROVE  CountInv'
  <1>0. /\ request[r].pc = "finish" /\ activeRequests' = activeRequests - 1
        /\ request' = [request EXCEPT ![r] = IdleRequest]
        /\ UNCHANGED <<counters, tenantCounts, accepted, found, successes>>
    BY DEF FinishRequest, RecordFrame, restGhosts
  <1>1. PICK q : q = IdleRequest
    OBVIOUS
  <1>2. q \in Request /\ q.pc = "idle" /\ request' = [request EXCEPT ![r] = q]
    BY <1>0, <1>1, IdleRequestType DEF IdleRequest
  <1>3. activeRequests \in Nat /\ activeRequests - 1 \in Nat
    <2>1. /\ Cardinality(Busy) \in Nat /\ Cardinality(Busy') \in Nat
          /\ Cardinality(Busy') + One(request[r].pc # "idle") =
             Cardinality(Busy) + One(q.pc # "idle")
      BY <1>2, SlotMembers
    <2>2. activeRequests = Cardinality(Busy)
      BY DEF CountInv, DebtsOK
    <2>3. One(request[r].pc # "idle") = 1 /\ One(q.pc # "idle") = 0
      BY <1>0, <1>2 DEF One
    <2> QED
      BY <2>1, <2>2, <2>3
  <1>4. CountersOK'
    BY <1>0, <1>3 DEF CountInv, CountersOK, counters
  <1>5. Ready(q)
    BY <1>2 DEF Ready
  <1>6. Balanced(request[r], q)
    <2>1. activeRequests' + One(request[r].pc # "idle") = activeRequests + One(q.pc # "idle")
      BY <1>0, <1>2, <1>3 DEF One
    <2>2. /\ request[r].pc \notin {"count", "writes"} /\ q.pc \notin {"count", "writes"}
          /\ CountersOK
      BY <1>0, <1>2 DEF CountInv
    <2> QED
      BY <1>0, <2>1, <2>2, QuietBalance
  <1> QED
    BY <1>2, <1>4, <1>5, <1>6, SlotKeepsCounts DEF CountInv

-----------------------------------------------------------------------------
(* What a request owes once it has succeeded: all its items.               *)
ItemsOf(q, t) == {i \in 1 .. Len(q.items) : q.items[i].tenant = t}

LEMMA SuccessOwes ==
    ASSUME NEW p, NEW q, p.op \in ObservedOps, q.op = p.op, q.items = p.items,
           q.writes = TenantsOf(p.items),
           q.pc = IF p.op = "store_batch" THEN "writes" ELSE "count",
           NEW t
    PROVE  /\ Owed(q, t, Stores) = IF p.op = "search" THEN {} ELSE ItemsOf(p, t)
           /\ Owed(q, t, {"search"}) = IF p.op = "search" THEN ItemsOf(p, t) ELSE {}
           /\ \A op : Pending(q, op) <=> op = p.op
  <1>1. \A i \in 1 .. Len(p.items) : p.items[i].tenant = t => t \in TenantsOf(p.items)
    BY DEF TenantsOf
  <1>2. \A op : Pending(q, op) <=> op = p.op
    BY DEF Pending
  <1>3. Owed(q, t, Stores) = IF p.op = "search" THEN {} ELSE ItemsOf(p, t)
    BY <1>1 DEF Owed, ItemsOf, Stores, ObservedOps
  <1>4. Owed(q, t, {"search"}) = IF p.op = "search" THEN ItemsOf(p, t) ELSE {}
    BY <1>1 DEF Owed, ItemsOf, ObservedOps
  <1> QED
    BY <1>2, <1>3, <1>4

LEMMA ItemsFinite ==
    ASSUME NEW q \in Request, NEW t
    PROVE  IsFiniteSet(ItemsOf(q, t)) /\ Cardinality(ItemsOf(q, t)) \in Nat
  <1>1. Len(q.items) \in Nat
    BY DEF Request
  <1>2. IsFiniteSet(1 .. Len(q.items))
    BY <1>1, IntervalCount
  <1>3. ItemsOf(q, t) \subseteq 1 .. Len(q.items)
    BY Zenon DEF ItemsOf
  <1>4. IsFiniteSet(ItemsOf(q, t))
    BY <1>2, <1>3, FS_Subset
  <1> QED
    BY <1>4, FS_CardinalityType

(* The histories of an answer to request p. *)
Answered(p, status) ==
    /\ isSuccessStatus(status) /\ p.op \in Stores =>
         accepted' = [t \in Tenants |-> accepted[t] + Cardinality(ItemsOf(p, t))]
    /\ ~ (isSuccessStatus(status) /\ p.op \in Stores) => accepted' = accepted
    /\ isSuccessStatus(status) /\ p.op = "search" =>
         found' = [t \in Tenants |-> found[t] + Cardinality(ItemsOf(p, t))]
    /\ ~ (isSuccessStatus(status) /\ p.op = "search") => found' = found
    /\ isSuccessStatus(status) /\ p.op \in ObservedOps =>
         successes' = [successes EXCEPT ![p.op] = @ + 1]
    /\ ~ (isSuccessStatus(status) /\ p.op \in ObservedOps) => successes' = successes
    /\ UNCHANGED <<activeRequests, counters, tenantCounts>>

LEMMA AnswerHistories ==
    ASSUME RestOK, CountersOK, NEW r \in Slots, NEW status, Answer(r, status),
           NEW p, p = request[r]
    PROVE  Answered(p, status)
  <1>0. DOMAIN successes = ObservedOps
    BY DEF CountersOK
  <1>2. UNCHANGED <<activeRequests, counters, tenantCounts>>
    BY DEF Answer, telemetryVars
  <1>3. /\ isSuccessStatus(status) /\ p.op \in ObservedOps =>
             successes' = [successes EXCEPT ![p.op] = @ + 1]
        /\ ~ (isSuccessStatus(status) /\ p.op \in ObservedOps) => successes' = successes
    BY <1>0, Zenon DEF Answer
  <1>4. /\ isSuccessStatus(status) /\ p.op \in Stores =>
              accepted' = [t \in Tenants |-> accepted[t] + Cardinality(ItemsOf(p, t))]
        /\ ~ (isSuccessStatus(status) /\ p.op \in Stores) => accepted' = accepted
    BY Zenon DEF Answer, ItemsOf, Stores
  <1>5. /\ isSuccessStatus(status) /\ p.op = "search" =>
              found' = [t \in Tenants |-> found[t] + Cardinality(ItemsOf(p, t))]
        /\ ~ (isSuccessStatus(status) /\ p.op = "search") => found' = found
    BY Zenon DEF Answer, ItemsOf
  <1> QED
    BY <1>2, <1>3, <1>4, <1>5, Zenon DEF Answered

LEMMA AnswerCounts ==
    ASSUME RestOK, CountInv, NEW r \in Slots, NEW status \in Nat,
           request[r].pc = "service", Answer(r, status)
    PROVE  CountInv'
  <1> DEFINE pc == AfterHandler(request[r].op, status)
             success == isSuccessStatus(status)
  <1>0. PICK p, q : p = request[r] /\ q = [p EXCEPT !.status = status, !.pc = pc]
    OBVIOUS
  <1>1. /\ p \in Request /\ p.pc = "service" /\ p.op \in RequestOps /\ Ready(p)
        /\ CountersOK
    BY <1>0 DEF RestOK, Bound, Request, CountInv, ReadyOK
  <1>2. /\ pc \in {"count", "writes", "event", "minute"}
        /\ ~ success => pc \in {"event", "minute"}
        /\ success => pc = IF p.op \in {"store", "search"} THEN "count"
                           ELSE IF p.op = "store_batch" THEN "writes" ELSE "minute"
    BY <1>0, <1>1, AfterHandlerType, FailureIsQuiet, SuccessIsCounted
  <1> HIDE DEF pc
  <1>3. /\ q \in Request /\ q.pc = pc /\ q.op = p.op /\ q.items = p.items
        /\ q.writes = p.writes
    BY <1>0, <1>1, <1>2 DEF Request
  <1>4. /\ success /\ p.op \in Stores =>
             accepted' = [t \in Tenants |-> accepted[t] + Cardinality(ItemsOf(p, t))]
        /\ ~ (success /\ p.op \in Stores) => accepted' = accepted
        /\ success /\ p.op = "search" =>
             found' = [t \in Tenants |-> found[t] + Cardinality(ItemsOf(p, t))]
        /\ ~ (success /\ p.op = "search") => found' = found
        /\ success /\ p.op \in ObservedOps =>
             successes' = [successes EXCEPT ![p.op] = @ + 1]
        /\ ~ (success /\ p.op \in ObservedOps) => successes' = successes
        /\ UNCHANGED <<activeRequests, counters, tenantCounts>>
        /\ request' = [request EXCEPT ![r] = q]
    <2>1. AfterHandler(p.op, status) = pc
      BY <1>0 DEF pc
    <2>2. request' = [request EXCEPT ![r] =
             [p EXCEPT !.status = status, !.pc = AfterHandler(p.op, status)]]
      BY <1>0, AnswerFields DEF Answer
    <2>3. request' = [request EXCEPT ![r] = q]
      BY <1>0, <2>1, <2>2, Zenon
    <2>4. Answered(p, status)
      BY <1>0, <1>1, AnswerHistories
    <2> QED
      BY <2>3, <2>4, Zenon DEF Answered
  <1> HIDE DEF success
  <1>5. \A t : Cardinality(ItemsOf(p, t)) \in Nat
    BY <1>1, ItemsFinite
  <1>6. CountersOK'
    <2>1. successes' \in [ObservedOps -> Nat]
      BY <1>1, <1>4 DEF CountersOK
    <2>2. accepted' \in [Tenants -> Nat]
      BY <1>1, <1>4, <1>5 DEF CountersOK
    <2>3. found' \in [Tenants -> Nat]
      BY <1>1, <1>4, <1>5 DEF CountersOK
    <2> QED
      BY <1>1, <1>4, <2>1, <2>2, <2>3 DEF CountersOK, counters
  <1>7. Ready(q)
    BY <1>1, <1>2, <1>3 DEF Ready
  <1>8. Balanced(p, q)
    <2>0. activeRequests' + One(p.pc # "idle") = activeRequests + One(q.pc # "idle")
      BY <1>1, <1>2, <1>3, <1>4 DEF One
    <2>1. CASE ~ (success /\ p.op \in ObservedOps)
      <3>1. q.pc \notin {"count", "writes"} /\ p.pc \notin {"count", "writes"}
        BY <1>1, <1>2, <1>3, <2>1 DEF ObservedOps
      <3>2. UNCHANGED <<counters, tenantCounts, accepted, found, successes>>
        BY <1>4, <2>1 DEF ObservedOps, Stores
      <3> QED
        BY <1>1, <2>0, <3>1, <3>2, QuietBalance
    <2>2. CASE success /\ p.op \in ObservedOps
      <3>1. /\ q.pc = (IF p.op = "store_batch" THEN "writes" ELSE "count")
            /\ q.writes = TenantsOf(p.items)
        BY <1>1, <1>2, <1>3, <2>2 DEF ObservedOps, Ready
      <3>2. \A t : /\ Owed(q, t, Stores) = IF p.op = "search" THEN {} ELSE ItemsOf(p, t)
                   /\ Owed(q, t, {"search"}) = IF p.op = "search" THEN ItemsOf(p, t) ELSE {}
        BY <1>3, <2>2, <3>1, SuccessOwes
      <3>3. \A op : Pending(q, op) <=> op = p.op
        BY <1>3, <2>2, <3>1, SuccessOwes
      <3>4. \A t, ops, op : Owed(p, t, ops) = {} /\ ~ Pending(p, op)
        BY <1>1, OwesNothing
      <3>5. ASSUME NEW op \in ObservedOps
            PROVE  Counter(op)' + One(Pending(q, op)) + successes[op] =
                   Counter(op) + One(Pending(p, op)) + successes'[op]
        <4>1. Counter(op)' = Counter(op) /\ Counter(op) \in Nat /\ successes[op] \in Nat
          BY <1>1, <1>4, CounterType DEF Counter, counters
        <4>2. successes'[op] = IF op = p.op THEN successes[op] + 1 ELSE successes[op]
          BY <1>1, <1>4, <2>2 DEF CountersOK
        <4>3. One(Pending(q, op)) = (IF op = p.op THEN 1 ELSE 0) /\ One(Pending(p, op)) = 0
          BY <3>3, <3>4, Zenon DEF One
        <4> QED
          BY <4>1, <4>2, <4>3
      <3>6. ASSUME NEW t \in Tenants
            PROVE  /\ Count(t)'.writes + Cardinality(Owed(q, t, Stores)) + accepted[t] =
                      Count(t).writes + Cardinality(Owed(p, t, Stores)) + accepted'[t]
                   /\ Count(t)'.searches + Cardinality(Owed(q, t, {"search"})) + found[t] =
                      Count(t).searches + Cardinality(Owed(p, t, {"search"})) + found'[t]
        <4>1. /\ Count(t)' = Count(t) /\ Count(t).writes \in Nat /\ Count(t).searches \in Nat
              /\ accepted[t] \in Nat /\ found[t] \in Nat /\ Cardinality({}) = 0
          BY <1>1, <1>4, CountType, FS_EmptySet DEF Count, CountersOK
        <4>2. accepted'[t] = IF p.op = "search" THEN accepted[t]
                             ELSE accepted[t] + Cardinality(ItemsOf(p, t))
          BY <1>4, <2>2 DEF ObservedOps, Stores
        <4>3. found'[t] = IF p.op = "search" THEN found[t] + Cardinality(ItemsOf(p, t))
                          ELSE found[t]
          BY <1>4, <2>2
        <4>4. /\ Cardinality(Owed(p, t, Stores)) = 0
              /\ Cardinality(Owed(p, t, {"search"})) = 0
          BY <3>4, <4>1, Zenon
        <4>5. /\ Cardinality(Owed(q, t, Stores)) =
                    IF p.op = "search" THEN 0 ELSE Cardinality(ItemsOf(p, t))
              /\ Cardinality(Owed(q, t, {"search"})) =
                    IF p.op = "search" THEN Cardinality(ItemsOf(p, t)) ELSE 0
          BY <3>2, <4>1, Zenon
        <4>6. Cardinality(ItemsOf(p, t)) \in Nat
          BY <1>5
        <4> QED
          BY <4>1, <4>2, <4>3, <4>4, <4>5, <4>6
      <3> QED
        BY <2>0, <3>5, <3>6 DEF Balanced
    <2> QED
      BY <2>1, <2>2
  <1>9. Balanced(request[r], q)
    BY <1>0, <1>8
  <1> QED
    BY <1>3, <1>4, <1>6, <1>7, <1>9, SlotKeepsCounts DEF CountInv

-----------------------------------------------------------------------------
(* A success is counted: a store or a search still owes its tenants, a     *)
(* batch has counted them before.                                          *)
LEMMA CountSuccessCounts ==
    ASSUME RestOK, CountInv, NEW r \in Slots, CountSuccess(r)
    PROVE  CountInv'
  <1> DEFINE pc == IF request[r].op = "store_batch" THEN "event" ELSE "writes"
  <1>0. PICK p, q : p = request[r] /\ q = [p EXCEPT !.pc = pc]
    OBVIOUS
  <1>1. /\ p \in Request /\ p.pc = "count" /\ p.op \in ObservedOps /\ Ready(p)
        /\ CountersOK
    BY <1>0 DEF RestOK, Bound, CountInv, ReadyOK, CountSuccess
  <1>2. /\ q \in Request /\ q.op = p.op /\ q.items = p.items /\ q.writes = p.writes
        /\ q.pc = (IF p.op = "store_batch" THEN "event" ELSE "writes")
    BY <1>0, <1>1 DEF Request
  <1>3. request' = [request EXCEPT ![r] = q]
    BY <1>0 DEF CountSuccess, Goto, RestOK
  <1>4. /\ storeCount' = IF p.op = "store" THEN storeCount + 1 ELSE storeCount
        /\ batchStoreCount' = IF p.op = "store_batch" THEN batchStoreCount + 1
                              ELSE batchStoreCount
        /\ searchCount' = IF p.op = "search" THEN searchCount + 1 ELSE searchCount
        /\ UNCHANGED <<activeRequests, tenantCounts, accepted, found, successes>>
    BY <1>0 DEF CountSuccess, RecordFrame, restGhosts
  <1> HIDE DEF pc
  <1>5. CountersOK'
    BY <1>1, <1>4 DEF CountersOK
  <1>6. Ready(q)
    BY <1>1, <1>2 DEF Ready
  <1>7. Balanced(p, q)
    <2>1. activeRequests' + One(p.pc # "idle") = activeRequests + One(q.pc # "idle")
      BY <1>1, <1>2, <1>4 DEF One
    <2>2. ASSUME NEW op \in ObservedOps
          PROVE  Counter(op)' + One(Pending(q, op)) + successes[op] =
                 Counter(op) + One(Pending(p, op)) + successes'[op]
      <3>1. Counter(op) \in Nat /\ successes[op] \in Nat /\ successes' = successes
        BY <1>1, <1>4, CounterType
      <3>2. Counter(op)' = IF op = p.op THEN Counter(op) + 1 ELSE Counter(op)
        BY <1>1, <1>4 DEF Counter, ObservedOps
      <3>3. (Pending(p, op) <=> op = p.op) /\ ~ Pending(q, op)
        BY <1>1, <1>2 DEF Pending
      <3>4. One(Pending(p, op)) = (IF op = p.op THEN 1 ELSE 0) /\ One(Pending(q, op)) = 0
        BY <3>3, Zenon DEF One
      <3> QED
        BY <3>1, <3>2, <3>4
    <2>3. ASSUME NEW t \in Tenants
          PROVE  /\ Count(t)'.writes + Cardinality(Owed(q, t, Stores)) + accepted[t] =
                    Count(t).writes + Cardinality(Owed(p, t, Stores)) + accepted'[t]
                 /\ Count(t)'.searches + Cardinality(Owed(q, t, {"search"})) + found[t] =
                    Count(t).searches + Cardinality(Owed(p, t, {"search"})) + found'[t]
      <3>1. Count(t)' = Count(t) /\ accepted' = accepted /\ found' = found
        BY <1>4 DEF Count
      <3>2. \A ops : Owed(q, t, ops) = Owed(p, t, ops)
        BY <1>1, <1>2 DEF Owed
      <3> QED
        BY <3>1, <3>2
    <2> QED
      BY <2>1, <2>2, <2>3 DEF Balanced
  <1>8. Balanced(request[r], q)
    BY <1>0, <1>7
  <1> QED
    BY <1>2, <1>3, <1>5, <1>6, <1>8, SlotKeepsCounts DEF CountInv

(* What AddTenant does to the counts. *)
LEMMA AddTenantCounts ==
    ASSUME CountersOK, NEW t0 \in Tenants, NEW w \in Nat, NEW n \in Nat, AddTenant(t0, w, n)
    PROVE  /\ DOMAIN tenantCounts' \subseteq Tenants
           /\ \A t \in DOMAIN tenantCounts' :
                 tenantCounts'[t] \in [writes : Nat, searches : Nat]
           /\ \A t \in Tenants :
                 /\ Count(t)'.writes = Count(t).writes + (IF t = t0 THEN w ELSE 0)
                 /\ Count(t)'.searches = Count(t).searches + (IF t = t0 THEN n ELSE 0)
  <1>0. \A t \in Tenants : Count(t).writes \in Nat /\ Count(t).searches \in Nat
    BY CountType
  <1>1. CASE w + n = 0
    <2>1. tenantCounts' = tenantCounts /\ w = 0 /\ n = 0
      BY <1>1 DEF AddTenant
    <2>2. \A t \in Tenants : Count(t)' = Count(t)
      BY <2>1 DEF Count
    <2> QED
      BY <1>0, <2>1, <2>2 DEF CountersOK
  <1>2. CASE w + n # 0
    <2> DEFINE gained == [writes |-> Count(t0).writes + w, searches |-> Count(t0).searches + n]
    <2>0. gained \in [writes : Nat, searches : Nat] /\ t0 # NoTenant
      BY <1>0, TelemetryAssumption
    <2>1. tenantCounts' = [t \in DOMAIN tenantCounts \cup {t0} |->
                              IF t = t0 THEN gained ELSE Count(t)]
      BY <1>2, <2>0 DEF AddTenant, Count
    <2>2. PICK g : g = gained
      OBVIOUS
    <2>3. /\ DOMAIN tenantCounts' = DOMAIN tenantCounts \cup {t0}
          /\ \A t \in DOMAIN tenantCounts \cup {t0} :
                tenantCounts'[t] = IF t = t0 THEN g ELSE Count(t)
      BY <2>1, <2>2
    <2>4. DOMAIN tenantCounts' \subseteq Tenants
      BY <2>3 DEF CountersOK
    <2>5. \A t \in DOMAIN tenantCounts' : tenantCounts'[t] \in [writes : Nat, searches : Nat]
      <3> HIDE DEF gained
      <3> QED
        BY <2>0, <2>2, <2>3 DEF CountersOK, Count
    <2>6. ASSUME NEW t \in Tenants
          PROVE  /\ Count(t)'.writes = Count(t).writes + (IF t = t0 THEN w ELSE 0)
                 /\ Count(t)'.searches = Count(t).searches + (IF t = t0 THEN n ELSE 0)
      <3>1. CASE t = t0
        <4>1. Count(t)' = g
          BY <2>3, <3>1 DEF Count
        <4> QED
          BY <2>2, <3>1, <4>1
      <3>2. CASE t # t0
        <4>1. Count(t)' = Count(t)
          <5>1. t \in DOMAIN tenantCounts' <=> t \in DOMAIN tenantCounts
            BY <2>3, <3>2
          <5>2. t \in DOMAIN tenantCounts => tenantCounts'[t] = tenantCounts[t]
            BY <2>3, <3>2 DEF Count
          <5> QED
            BY <5>1, <5>2 DEF Count
        <4> QED
          BY <1>0, <3>2, <4>1
      <3> QED
        BY <3>1, <3>2
    <2> QED
      BY <2>4, <2>5, <2>6
  <1> QED
    BY <1>1, <1>2

(* A tenant counted is owed no more; the others are owed what they were. *)
LEMMA CountedOwes ==
    ASSUME NEW p, NEW q, NEW t0, p.pc = "writes", t0 \in p.writes,
           q.op = p.op, q.items = p.items, q.writes = p.writes \ {t0},
           q.pc = IF p.writes # {t0} THEN "writes"
                  ELSE IF p.op = "store_batch" THEN "count" ELSE "event"
    PROVE  /\ \A ops : /\ Owed(p, t0, ops) = IF p.op \in ops THEN ItemsOf(p, t0) ELSE {}
                       /\ Owed(q, t0, ops) = {}
           /\ \A t, ops : t # t0 => Owed(q, t, ops) = Owed(p, t, ops)
           /\ \A op : Pending(q, op) <=> Pending(p, op)
  <1>1. ASSUME NEW ops
        PROVE  /\ Owed(p, t0, ops) = IF p.op \in ops THEN ItemsOf(p, t0) ELSE {}
               /\ Owed(q, t0, ops) = {}
    BY DEF Owed, ItemsOf
  <1>2. ASSUME NEW t, NEW ops, t # t0 PROVE Owed(q, t, ops) = Owed(p, t, ops)
    <2>1. CASE p.writes # {t0}
      BY <1>2, <2>1 DEF Owed
    <2>2. CASE p.writes = {t0}
      BY <1>2, <2>2 DEF Owed
    <2> QED
      BY <2>1, <2>2
  <1>3. \A op : Pending(q, op) <=> Pending(p, op)
    BY DEF Pending
  <1> QED
    BY <1>1, <1>2, <1>3

LEMMA OneItem ==
    ASSUME NEW p \in Request, Len(p.items) = 1, NEW t0 \in TenantsOf(p.items)
    PROVE  Cardinality(ItemsOf(p, t0)) = 1
  <1>1. ItemsOf(p, t0) = {1}
    BY DEF ItemsOf, TenantsOf
  <1> QED
    BY <1>1, FS_Singleton

LEMMA CountTenantCounts ==
    ASSUME RestOK, CountInv, NEW r \in Slots, CountTenant(r)
    PROVE  CountInv'
  <1>0. PICK p : p = request[r]
    OBVIOUS
  <1>1. /\ p \in Request /\ p.pc = "writes" /\ p.op \in ObservedOps /\ Ready(p)
        /\ CountersOK
    BY <1>0 DEF RestOK, Bound, CountInv, ReadyOK, CountTenant
  <1>2. PICK t0 \in p.writes :
          /\ AddTenant(t0, IF p.op = "search" THEN 0 ELSE Cardinality(ItemsOf(p, t0)),
                           IF p.op = "search" THEN 1 ELSE 0)
          /\ request' = [request EXCEPT ![r].writes = @ \ {t0},
                            ![r].pc = IF p.writes # {t0} THEN "writes"
                                      ELSE IF p.op = "store_batch" THEN "count" ELSE "event"]
    <2>1. PICK t \in request[r].writes :
            /\ AddTenant(t, IF request[r].op = "search" THEN 0 ELSE Cardinality(ItemsOf(request[r], t)),
                            IF request[r].op = "search" THEN 1 ELSE 0)
            /\ request' = [request EXCEPT ![r].writes = @ \ {t},
                  ![r].pc = IF request[r].writes # {t} THEN "writes"
                            ELSE IF request[r].op = "store_batch" THEN "count" ELSE "event"]
      BY Zenon DEF CountTenant, ItemsOf
    <2> QED
      BY <1>0, <2>1, Zenon
  <1> DEFINE pc == IF p.writes # {t0} THEN "writes"
                   ELSE IF p.op = "store_batch" THEN "count" ELSE "event"
  <1>3. PICK q : q = [p EXCEPT !.writes = @ \ {t0}, !.pc = pc]
    OBVIOUS
  <1>4. /\ q \in Request /\ q.op = p.op /\ q.items = p.items
        /\ q.writes = p.writes \ {t0} /\ q.pc = pc
    BY <1>1, <1>3 DEF Request
  <1>5. request' = [request EXCEPT ![r] = q]
    BY <1>0, <1>2, <1>3 DEF RestOK
  <1>6. UNCHANGED <<activeRequests, counters, accepted, found, successes>>
    BY DEF CountTenant, RecordFrame, restGhosts
  <1>7. t0 \in Tenants /\ t0 \in TenantsOf(p.items)
    BY <1>1, <1>2 DEF Ready
  <1> DEFINE items == Cardinality(ItemsOf(p, t0))
             w == IF p.op = "search" THEN 0 ELSE items
             n == IF p.op = "search" THEN 1 ELSE 0
  <1>8. items \in Nat /\ w \in Nat /\ n \in Nat
    BY <1>1, ItemsFinite
  <1>9. AddTenant(t0, w, n)
    BY <1>2
  <1>10. p.op = "search" => items = 1
    BY <1>1, <1>7, OneItem DEF Ready
  <1> HIDE DEF items, pc
  <1>11. /\ DOMAIN tenantCounts' \subseteq Tenants
         /\ \A t \in DOMAIN tenantCounts' : tenantCounts'[t] \in [writes : Nat, searches : Nat]
         /\ \A t \in Tenants :
               /\ Count(t)'.writes = Count(t).writes + (IF t = t0 THEN w ELSE 0)
               /\ Count(t)'.searches = Count(t).searches + (IF t = t0 THEN n ELSE 0)
    <2> HIDE DEF w, n
    <2> QED
      BY <1>1, <1>7, <1>8, <1>9, AddTenantCounts
  <1>12. CountersOK'
    BY <1>1, <1>6, <1>11 DEF CountersOK, counters
  <1>13. Ready(q)
    BY <1>1, <1>4 DEF Ready, pc
  <1>14. Balanced(p, q)
    <2>0. /\ \A ops : /\ Owed(p, t0, ops) = IF p.op \in ops THEN ItemsOf(p, t0) ELSE {}
                      /\ Owed(q, t0, ops) = {}
          /\ \A t, ops : t # t0 => Owed(q, t, ops) = Owed(p, t, ops)
          /\ \A op : Pending(q, op) <=> Pending(p, op)
      BY <1>1, <1>2, <1>4, CountedOwes DEF pc
    <2>1. activeRequests' + One(p.pc # "idle") = activeRequests + One(q.pc # "idle")
      BY <1>1, <1>4, <1>6 DEF One, pc
    <2>2. ASSUME NEW op \in ObservedOps
          PROVE  Counter(op)' + One(Pending(q, op)) + successes[op] =
                 Counter(op) + One(Pending(p, op)) + successes'[op]
      <3>1. Counter(op)' = Counter(op) /\ successes' = successes
        BY <1>6 DEF Counter, counters
      <3>2. One(Pending(q, op)) = One(Pending(p, op))
        BY <2>0, Zenon DEF One
      <3> QED
        BY <3>1, <3>2
    <2>3. ASSUME NEW t \in Tenants
          PROVE  /\ Count(t)'.writes + Cardinality(Owed(q, t, Stores)) + accepted[t] =
                    Count(t).writes + Cardinality(Owed(p, t, Stores)) + accepted'[t]
                 /\ Count(t)'.searches + Cardinality(Owed(q, t, {"search"})) + found[t] =
                    Count(t).searches + Cardinality(Owed(p, t, {"search"})) + found'[t]
      <3>1. /\ Count(t).writes \in Nat /\ Count(t).searches \in Nat
            /\ accepted[t] \in Nat /\ found[t] \in Nat /\ Cardinality({}) = 0
            /\ accepted' = accepted /\ found' = found
        BY <1>1, <1>6, CountType, FS_EmptySet DEF CountersOK
      <3>2. CASE t # t0
        <4>1. \A ops : Owed(q, t, ops) = Owed(p, t, ops)
          BY <2>0, <3>2, Zenon
        <4>2. Count(t)'.writes = Count(t).writes /\ Count(t)'.searches = Count(t).searches
          BY <1>11, <3>1, <3>2
        <4> QED
          BY <3>1, <4>1, <4>2
      <3>3. CASE t = t0
        <4>1. /\ Cardinality(Owed(q, t, Stores)) = 0
              /\ Cardinality(Owed(q, t, {"search"})) = 0
          BY <2>0, <3>1, <3>3, Zenon
        <4>2. /\ Cardinality(Owed(p, t, Stores)) = w
              /\ Cardinality(Owed(p, t, {"search"})) = n
          <5>1. CASE p.op = "search"
            <6>1. Owed(p, t, Stores) = {} /\ Owed(p, t, {"search"}) = ItemsOf(p, t0)
              BY <2>0, <3>3, <5>1 DEF Stores
            <6> QED
              BY <1>10, <3>1, <5>1, <6>1 DEF items
          <5>2. CASE p.op # "search"
            <6>1. Owed(p, t, Stores) = ItemsOf(p, t0) /\ Owed(p, t, {"search"}) = {}
              BY <1>1, <2>0, <3>3, <5>2 DEF Stores, ObservedOps
            <6> QED
              BY <3>1, <5>2, <6>1 DEF items
          <5> QED
            BY <5>1, <5>2
        <4>3. Count(t)'.writes = Count(t).writes + w /\ Count(t)'.searches = Count(t).searches + n
          BY <1>11, <3>3
        <4> HIDE DEF w, n
        <4> QED
          BY <1>8, <3>1, <4>1, <4>2, <4>3
      <3> QED
        BY <3>2, <3>3
    <2> QED
      BY <2>1, <2>2, <2>3 DEF Balanced
  <1>15. Balanced(request[r], q)
    BY <1>0, <1>14
  <1> QED
    BY <1>4, <1>5, <1>12, <1>13, <1>15, SlotKeepsCounts DEF CountInv

LEMMA CountFrame ==
    ASSUME CountInv, UNCHANGED <<request, restGhosts, activeRequests, counters, tenantCounts>>
    PROVE  CountInv'
  <1>1. CountersOK'
    BY DEF CountInv, CountersOK, restGhosts, counters
  <1>2. ReadyOK'
    BY DEF CountInv, ReadyOK, Ready
  <1>3. DebtsOK'
    <2>1. Busy' = Busy /\ \A op : Uncounted(op)' = Uncounted(op) /\ Counter(op)' = Counter(op)
      BY DEF Busy, Uncounted, Pending, Counter, counters
    <2>2. ASSUME NEW t, NEW ops PROVE Count(t)' = Count(t) /\ Debt(t, ops)' = Debt(t, ops)
      BY DEF Count, Debt, Pairs, Owed
    <2>3. UNCHANGED <<accepted, found, successes, activeRequests>>
      BY DEF restGhosts
    <2>4. DebtsOK
      BY DEF CountInv
    <2> QED
      BY <2>1, <2>2, <2>3, <2>4 DEF DebtsOK
  <1> QED
    BY <1>1, <1>2, <1>3 DEF CountInv

LEMMA CountStep ==
    ASSUME ConfigOK, RestOK, CountInv, [Next]_vars
    PROVE  CountInv'
  <1>0. RestOK'
    BY RestStep
  <1>1. ASSUME NEW r \in Slots, HandleRequest(r) PROVE CountInv'
    <2>1. ASSUME NEW q \in RestRequests, Arrive(r, q) PROVE CountInv'
      BY <1>0, <2>1, ArriveCounts
    <2>2. CASE ServiceCall(r)
      BY <2>2, ServiceAnswers, AnswerCounts
    <2> QED
      BY <1>1, <2>1, <2>2 DEF HandleRequest, ServiceCall
  <1>2. ASSUME NEW r \in Slots, ObserveRequest(r) PROVE CountInv'
    <2>1. CASE CountSuccess(r)
      BY <2>1, CountSuccessCounts
    <2>2. CASE CountTenant(r)
      BY <2>2, CountTenantCounts
    <2>3. CASE RecordEvent(r)
      <3>1. /\ request[r].pc = "event" /\ Goto(r, "minute")
            /\ UNCHANGED <<activeRequests, counters, tenantCounts, accepted, found, successes>>
        BY <2>3 DEF RecordEvent, RecordFrame, restGhosts
      <3> QED
        BY <3>1, QuietCounts
    <2>4. CASE RecordMinute(r)
      <3>1. /\ request[r].pc = "minute" /\ Goto(r, "request")
            /\ UNCHANGED <<activeRequests, counters, tenantCounts, accepted, found, successes>>
        BY <2>4 DEF RecordMinute, RecordFrame, restGhosts
      <3> QED
        BY <3>1, QuietCounts
    <2>5. CASE RecordRequest(r)
      <3>1. /\ request[r].pc = "request" /\ Goto(r, "finish")
            /\ UNCHANGED <<activeRequests, counters, tenantCounts, accepted, found, successes>>
        BY <2>5 DEF RecordRequest, RecordFrame, restGhosts
      <3> QED
        BY <3>1, QuietCounts
    <2>6. CASE FinishRequest(r)
      BY <2>6, FinishCounts
    <2> QED
      BY <1>2, <2>1, <2>2, <2>3, <2>4, <2>5, <2>6 DEF ObserveRequest
  <1>3. ASSUME UNCHANGED restVars PROVE CountInv'
    BY <1>3, CountFrame DEF restVars, telemetryVars
  <1>4. ASSUME PassMinute PROVE CountInv'
    BY <1>4, CountFrame DEF PassMinute, Tick
  <1> QED
    BY <1>1, <1>2, <1>3, <1>4, RestFrame DEF Next, vars

LEMMA CountInit == Init => CountInv
  <1> SUFFICES ASSUME Init PROVE CountInv
    OBVIOUS
  <1>0. Cardinality({}) = 0 /\ IsFiniteSet({})
    BY FS_EmptySet
  <1>1. CountersOK
    BY DEF Init, NewService, CountersOK, ObservedOps
  <1>2. \A r \in Slots : request[r].pc = "idle"
    BY DEF Init, IdleRequest
  <1>3. ReadyOK
    BY <1>2 DEF ReadyOK, Ready
  <1>4. Busy = {} /\ \A op : Uncounted(op) = {}
    BY <1>2 DEF Busy, Uncounted, Pending
  <1>5. \A t, ops : Debt(t, ops) = {}
    BY <1>2 DEF Debt, Pairs, Owed
  <1>6. /\ \A op \in ObservedOps : Counter(op) = 0 /\ successes[op] = 0
        /\ \A t \in Tenants : /\ Count(t).writes = 0 /\ accepted[t] = 0
                              /\ Count(t).searches = 0 /\ found[t] = 0
        /\ activeRequests = 0
    BY DEF Init, NewService, Counter, ObservedOps, Count
  <1>7. DebtsOK
    <2>1. Cardinality(Busy) = 0 /\ \A op : Cardinality(Uncounted(op)) = 0
      BY <1>0, <1>4, Zenon
    <2>2. \A t, ops : IsFiniteSet(Debt(t, ops)) /\ Cardinality(Debt(t, ops)) = 0
      BY <1>0, <1>5, Zenon
    <2> QED
      BY <1>6, <2>1, <2>2 DEF DebtsOK
  <1> QED
    BY <1>1, <1>3, <1>7 DEF CountInv

(* Without requests in progress nothing is owed. *)
LEMMA CountsAddUp == CountInv => CountersAddUp
  <1> SUFFICES ASSUME CountInv PROVE CountersAddUp
    OBVIOUS
  <1>0. CountersOK /\ DebtsOK /\ Cardinality({}) = 0
    BY FS_EmptySet DEF CountInv
  <1>1. activeRequests = Cardinality(Busy)
    BY <1>0 DEF DebtsOK
  <1>2. ASSUME Busy = {}
        PROVE  /\ storeCount = successes["store"]
               /\ batchStoreCount = successes["store_batch"]
               /\ searchCount = successes["search"]
               /\ \A t \in Tenants :
                     Count(t) = [writes |-> accepted[t], searches |-> found[t]]
    <2>1. \A r \in Slots : request[r].pc = "idle"
      BY <1>2 DEF Busy
    <2>2. \A op : Uncounted(op) = {}
      BY <2>1 DEF Uncounted, Pending
    <2>3. \A t, ops : Debt(t, ops) = {}
      BY <2>1 DEF Debt, Pairs, Owed
    <2>4. ASSUME NEW op \in ObservedOps PROVE Counter(op) = successes[op]
      <3>1. Counter(op) \in Nat /\ Cardinality(Uncounted(op)) = 0
        BY <1>0, <2>2, CounterType, Zenon
      <3>2. Counter(op) + Cardinality(Uncounted(op)) = successes[op]
        BY <1>0, Zenon DEF DebtsOK
      <3> QED
        BY <3>1, <3>2
    <2>5. ASSUME NEW t \in Tenants
          PROVE  Count(t) = [writes |-> accepted[t], searches |-> found[t]]
      <3>1. /\ Count(t).writes \in Nat /\ Count(t).searches \in Nat
            /\ Count(t) \in [writes : Nat, searches : Nat]
        BY <1>0 DEF CountersOK, Count
      <3>2. Count(t).writes = accepted[t] /\ Count(t).searches = found[t]
        <4>1. /\ Cardinality(Debt(t, Stores)) = 0
              /\ Cardinality(Debt(t, {"search"})) = 0
          BY <1>0, <2>3, Zenon
        <4>2. /\ Count(t).writes + Cardinality(Debt(t, Stores)) = accepted[t]
              /\ Count(t).searches + Cardinality(Debt(t, {"search"})) = found[t]
          BY <1>0, Zenon DEF DebtsOK
        <4> QED
          BY <3>1, <4>1, <4>2
      <3> QED
        BY <3>1, <3>2
    <2> QED
      BY <2>4, <2>5 DEF Counter, ObservedOps
  <1> QED
    BY <1>1, <1>2 DEF CountersAddUp, Busy, Count

(***************************************************************************)
(* The active requests of the telemetry are the requests in progress, and  *)
(* whenever there are none, every successful store, batch and search has   *)
(* been counted once and every item for its own tenant, for any number of  *)
(* requests whose deferred sections interleave and any mixture of tenants  *)
(* in a batch.                                                             *)
(***************************************************************************)
THEOREM CountersAddUpCorrect == Spec => []CountersAddUp
  <1> DEFINE IInv == ConfigOK /\ RestOK /\ CountInv
  <1>1. Init => IInv
    BY RestInit, CountInit
  <1>2. IInv /\ [Next]_vars => IInv'
    BY ConfigStep, RestStep, CountStep DEF ConfigOK
  <1>3. IInv => CountersAddUp
    BY CountsAddUp
  <1> QED
    BY <1>1, <1>2, <1>3, PTL DEF Spec

===========================================================================
