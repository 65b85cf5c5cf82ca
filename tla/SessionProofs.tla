--------------------------- MODULE SessionProofs ---------------------------
(***************************************************************************)
(* The tenants of MCP sessions: what a call acts for and what a session    *)
(* remembers, for any sessions, calls and interleavings of them with the   *)
(* rest of the servers; and type correctness of the servers.               *)
(***************************************************************************)
EXTENDS ServingProofs

-----------------------------------------------------------------------------
(* The candidates of resolveTenant.                                        *)

(* FirstOf is the first candidate that is given, if any. *)
LEMMA FirstOfGiven ==
    ASSUME NEW cs \in Seq(SomeTenant)
    PROVE  \/ /\ FirstOf(cs) = NoTenant
              /\ \A i \in 1 .. Len(cs) : cs[i] = NoTenant
           \/ \E i \in 1 .. Len(cs) :
                 /\ FirstOf(cs) = cs[i] /\ cs[i] # NoTenant
                 /\ \A j \in 1 .. Len(cs) : cs[j] # NoTenant => i <= j
  <1> DEFINE given == {i \in 1 .. Len(cs) : cs[i] # NoTenant}
             least == CHOOSE i \in given : \A j \in given : i <= j
  <1>1. CASE given = {}
    BY <1>1 DEF FirstOf
  <1>2. CASE given # {}
    <2>1. given \in SUBSET Nat
      OBVIOUS
    <2>2. \E i \in given : \A j \in given : i <= j
      <3> HIDE DEF given
      <3> QED
        BY <1>2, <2>1, LeastNatural
    <2>3. least \in given /\ \A j \in given : least <= j
      BY <2>2
    <2>4. FirstOf(cs) = cs[least]
      BY <1>2 DEF FirstOf
    <2> HIDE DEF least
    <2> QED
      BY <2>3, <2>4
  <1> QED
    BY <1>1, <1>2

LEMMA FirstOfTwo ==
    ASSUME NEW a \in SomeTenant, NEW b \in SomeTenant
    PROVE  FirstOf(<<a, b>>) = IF a # NoTenant THEN a ELSE b
  <1> DEFINE cs == <<a, b>>
  <1>1. cs \in Seq(SomeTenant) /\ Len(cs) = 2 /\ cs[1] = a /\ cs[2] = b
    OBVIOUS
  <1> HIDE DEF cs
  <1>2. FirstOf(cs) = IF a # NoTenant THEN a ELSE b
    <2>1. CASE FirstOf(cs) = NoTenant /\ \A i \in 1 .. Len(cs) : cs[i] = NoTenant
      BY <1>1, <2>1
    <2>2. ASSUME NEW i \in 1 .. Len(cs), FirstOf(cs) = cs[i], cs[i] # NoTenant,
                 \A j \in 1 .. Len(cs) : cs[j] # NoTenant => i <= j
          PROVE  FirstOf(cs) = IF a # NoTenant THEN a ELSE b
      <3>1. i = 1 \/ i = 2
        BY <1>1, <2>2
      <3>2. a # NoTenant => i = 1
        BY <1>1, <2>2, <3>1
      <3> QED
        BY <1>1, <2>2, <3>1, <3>2
    <2> QED
      BY <1>1, <2>1, <2>2, FirstOfGiven
  <1> QED
    BY <1>2 DEF cs

LEMMA FirstOfThree ==
    ASSUME NEW a \in SomeTenant, NEW b \in SomeTenant, NEW c \in SomeTenant
    PROVE  FirstOf(<<a, b, c>>) \in {a, b, c}
  <1> DEFINE cs == <<a, b, c>>
  <1>1. cs \in Seq(SomeTenant) /\ Len(cs) = 3 /\ cs[1] = a /\ cs[2] = b /\ cs[3] = c
    OBVIOUS
  <1> HIDE DEF cs
  <1>2. FirstOf(cs) \in {a, b, c}
    BY <1>1, FirstOfGiven
  <1> QED
    BY <1>2 DEF cs

-----------------------------------------------------------------------------
(* Types and the invariant of the calls.                                   *)

McpOK ==
    /\ call \in [CallSlots -> Call]
    /\ sessionTenants \in [SessionIDs -> SomeTenant]
    /\ named \in [Sessions -> SUBSET Tenants]
    /\ last \in [Sessions -> SomeTenant]
    /\ tenants \in Seq(Tenants)

(* The tenants a session may act for. *)
Own(s, t) ==
    \/ t \in named[s]
    \/ t = config.default
    \/ Len(tenants) > 0 /\ t = tenants[Len(tenants)]

Token(c) == IF config.auth THEN c.token ELSE NoTenant

ActsForOwn(c) ==
    /\ c.explicit # NoTenant => c.tenant = c.explicit
    /\ c.explicit = NoTenant /\ config.auth /\ c.token # NoTenant => c.tenant = c.token
    /\ Own(c.session, c.tenant)

(* A call in progress has had its names recorded; one that asks for the    *)
(* list of tenants names none itself; one that has a tenant has its own.   *)
CallOK(c) ==
    c.pc # "idle" =>
        /\ {c.explicit, c.meta, InitTenant[c.session], Token(c)} \ {NoTenant}
              \subseteq named[c.session]
        /\ c.pc # "act" => c.tool \in ResolvingTools
        /\ c.pc = "detect" => c.explicit = NoTenant /\ Token(c) = NoTenant
        /\ c.pc \in {"remember", "act"} /\ c.tool \in ResolvingTools => ActsForOwn(c)

CallsOK == \A k \in CallSlots : CallOK(call[k])

(* What a session remembers is its own. *)
SessionsOwn ==
    \A s \in Sessions : Remembered(s) # NoTenant => Own(s, Remembered(s))

LEMMA IdleCallType == IdleCall \in Call /\ CallOK(IdleCall) /\ IdleCall.pc = "idle"
  BY SessionAssumption DEF IdleCall, Call, CallOK, SomeTenant

LEMMA SessionIDType == \A s \in Sessions : SessionID[s] \in SessionIDs
  BY DEF SessionIDs

-----------------------------------------------------------------------------
(* The steps, as the calls see them.                                       *)

TenantsGrow == tenants' = tenants \/ \E t \in Tenants : InsertTenant(t)

LEMMA CallCases ==
    ASSUME McpOK, NEW k \in CallSlots, HandleCall(k)
    PROVE  /\ TenantsGrow
           /\ \/ \E c \in Calls : BeginCall(k, c)
              \/ ResolveTenant(k)
              \/ DetectTenant(k)
              \/ RememberSessionTenant(k)
              \/ EndCall(k)
  BY DEF HandleCall, TenantsGrow, BeginCall, ResolveTenant, DetectTenant,
         RememberSessionTenant, ToolStores, ToolDeletes, ToolCreatesTenant,
         ToolReadsMemories, ToolReadsTenants, ToolFails, database

LEMMA McpFrame ==
    ASSUME ConfigOK, RestOK, McpOK, [Next]_vars
    PROVE  /\ TenantsGrow
           /\ UNCHANGED mcpVars \/ \E k \in CallSlots : HandleCall(k)
  <1> DEFINE Goal == /\ TenantsGrow
                     /\ UNCHANGED mcpVars \/ \E k \in CallSlots : HandleCall(k)
  <1>1. ASSUME NEW r \in Slots, HandleRequest(r) PROVE Goal
    <2>1. ASSUME NEW q \in RestRequests, Arrive(r, q) PROVE Goal
      BY <2>1 DEF Arrive, TenantsGrow, database
    <2>2. CASE ServiceCall(r)
      <3>1. UNCHANGED mcpVars
        BY <2>2, ServiceAnswers DEF Answer
      <3>2. CASE CreateTenant(r)
        <4>1. Bound(request[r]) /\ request[r] \in Request
          BY DEF RestOK
        <4>2. request[r].items[1].tenant \in Tenants
          <5>1. request[r].items \in Seq(Item)
            BY <4>1 DEF Request
          <5>2. Len(request[r].items) \in Nat /\ request[r].items # <<>>
            BY <3>2, <4>1, <5>1 DEF CreateTenant, Bound
          <5>3. 1 \in 1 .. Len(request[r].items)
            BY <5>1, <5>2
          <5> QED
            BY <3>2, <4>1, <5>3 DEF CreateTenant, Bound
        <4> QED
          BY <3>1, <3>2, <4>2 DEF CreateTenant, TenantsGrow
      <3>3. CASE UNCHANGED tenants
        BY <3>1, <3>3 DEF TenantsGrow
      <3> QED
        BY <2>2, <3>2, <3>3
           DEF ServiceCall, TenantMissing, StoreMemories, IngestMemories, SearchMemories,
               ListPostprocessJobs, TenantStats, ReadTenant, GetPostprocessJob,
               DeleteMemory, database
    <2> QED
      BY <1>1, <2>1, <2>2 DEF HandleRequest, ServiceCall
  <1>2. ASSUME NEW r \in Slots, ObserveRequest(r) PROVE Goal
    BY <1>2
       DEF ObserveRequest, CountSuccess, CountTenant, RecordEvent, RecordMinute,
           RecordRequest, FinishRequest, RecordFrame, TenantsGrow, database
  <1>3. ASSUME NEW k \in CallSlots, HandleCall(k) PROVE Goal
    BY <1>3, CallCases
  <1>4. ASSUME NEW t \in Tenants, SubmitForm(t) PROVE Goal
    BY <1>4
       DEF SubmitForm, DashboardCreateMemory, DashboardDeleteMemory, DashboardCreateTenant,
           Form, TenantsGrow
  <1>5. ASSUME PassMinute \/ UNCHANGED vars PROVE Goal
    BY <1>5 DEF PassMinute, vars, TenantsGrow, database
  <1> HIDE DEF Goal
  <1>6. Goal
    BY <1>1, <1>2, <1>3, <1>4, <1>5 DEF Next
  <1> QED
    BY <1>6 DEF Goal

(* The last tenant of the table stays the last. *)
LEMMA OldestStays ==
    ASSUME McpOK, TenantsGrow
    PROVE  /\ tenants' \in Seq(Tenants)
           /\ Len(tenants) > 0 => /\ Len(tenants') > 0
                                  /\ tenants'[Len(tenants')] = tenants[Len(tenants)]
  <1>1. CASE tenants' = tenants
    BY <1>1 DEF McpOK
  <1>2. ASSUME NEW t \in Tenants, InsertTenant(t)
        PROVE  /\ tenants' \in Seq(Tenants)
               /\ Len(tenants) > 0 => /\ Len(tenants') > 0
                                      /\ tenants'[Len(tenants')] = tenants[Len(tenants)]
    BY <1>2 DEF InsertTenant, McpOK
  <1> QED
    BY <1>1, <1>2 DEF TenantsGrow

(* A session keeps what is its own. *)
LEMMA OwnLasts ==
    ASSUME McpOK, TenantsGrow, UNCHANGED config, NEW s, NEW t, Own(s, t),
           named[s] \subseteq named'[s]
    PROVE  Own(s, t)'
  BY OldestStays DEF Own

LEMMA CallLasts ==
    ASSUME McpOK, TenantsGrow, UNCHANGED config, NEW c, CallOK(c),
           named[c.session] \subseteq named'[c.session]
    PROVE  CallOK(c)'
  BY OwnLasts DEF CallOK, ActsForOwn, Token

(* One slot changes. *)
LEMMA CallUpdate ==
    ASSUME McpOK, CallsOK, TenantsGrow, UNCHANGED config,
           \A s \in Sessions : named[s] \subseteq named'[s],
           NEW k \in CallSlots, NEW c \in Call, CallOK(c)',
           call' = [call EXCEPT ![k] = c]
    PROVE  call' \in [CallSlots -> Call] /\ CallsOK'
  <1>1. call' \in [CallSlots -> Call]
    BY DEF McpOK
  <1>2. ASSUME NEW j \in CallSlots PROVE CallOK(call[j])'
    <2>1. CASE j = k
      <3>1. call'[j] = c
        BY <2>1 DEF McpOK
      <3> QED
        BY <3>1 DEF CallOK, ActsForOwn, Own, Token
    <2>2. CASE j # k
      <3>1. PICK d \in Call : d = call[j]
        BY DEF McpOK
      <3>2. call'[j] = d
        BY <2>2, <3>1 DEF McpOK
      <3>3. CallOK(d) /\ d.session \in Sessions
        BY <3>1 DEF CallsOK, Call
      <3>4. CallOK(d)'
        BY <3>3, CallLasts
      <3> QED
        BY <3>2, <3>4 DEF CallOK, ActsForOwn, Own, Token
    <2> QED
      BY <2>1, <2>2
  <1> QED
    BY <1>1, <1>2 DEF CallsOK

(* What a session remembers stays its own. *)
LEMMA SessionsLast ==
    ASSUME McpOK, SessionsOwn, TenantsGrow, UNCHANGED <<config, sessionTenants>>,
           \A s \in Sessions : named[s] \subseteq named'[s]
    PROVE  SessionsOwn'
  <1> SUFFICES ASSUME NEW s \in Sessions, Remembered(s)' # NoTenant
               PROVE  Own(s, Remembered(s))'
    BY DEF SessionsOwn
  <1>1. PICK t : t = Remembered(s)
    OBVIOUS
  <1>2. Remembered(s)' = t
    BY <1>1 DEF Remembered
  <1>3. Own(s, t)'
    BY <1>1, <1>2, OwnLasts DEF SessionsOwn
  <1> QED
    BY <1>2, <1>3 DEF Own

(* A call whose place or tenant changes. *)
Moved(c, pc, tenant) ==
    [pc |-> pc, tool |-> c.tool, session |-> c.session, explicit |-> c.explicit,
     token |-> c.token, meta |-> c.meta, valid |-> c.valid, tenant |-> tenant]

LEMMA MovedEquals ==
    ASSUME NEW c \in Call, NEW pc, NEW tenant
    PROVE  [c EXCEPT !.pc = pc, !.tenant = tenant] = Moved(c, pc, tenant)
  <1>1. PICK q : q = [c EXCEPT !.pc = pc, !.tenant = tenant]
    OBVIOUS
  <1>2. q = Moved(c, pc, tenant)
    BY <1>1 DEF Call, Moved
  <1> QED
    BY <1>1, <1>2

Step(k, pc, tenant) == call' = [call EXCEPT ![k].pc = pc, ![k].tenant = tenant]

LEMMA StepMoves ==
    ASSUME McpOK, NEW k \in CallSlots, NEW c \in Call, c = call[k], NEW pc, NEW tenant,
           Step(k, pc, tenant)
    PROVE  call' = [call EXCEPT ![k] = Moved(c, pc, tenant)]
  <1>1. PICK q : q = [c EXCEPT !.pc = pc, !.tenant = tenant]
    OBVIOUS
  <1>2. q = Moved(c, pc, tenant)
    BY <1>1, MovedEquals
  <1>4. call \in [CallSlots -> Call]
    BY DEF McpOK
  <1>5. call' = [call EXCEPT ![k] = [call[k] EXCEPT !.pc = pc, !.tenant = tenant]]
    BY <1>4 DEF Step
  <1>6. call' = [call EXCEPT ![k] = q]
    BY <1>1, <1>5
  <1> QED
    BY <1>2, <1>6

LEMMA MovedType ==
    ASSUME NEW c \in Call, NEW pc \in {"idle", "resolve", "detect", "remember", "act"},
           NEW tenant \in SomeTenant
    PROVE  Moved(c, pc, tenant) \in Call
  BY DEF Call, Moved

(***************************************************************************)
(* The calls and the session map while the steps of a call run.            *)
(***************************************************************************)
CallFrame ==
    /\ ConfigOK /\ McpOK /\ CallsOK /\ SessionsOwn
    /\ TenantsGrow /\ UNCHANGED config

(* What a resolving step gives a call is the call's own. *)
LEMMA ResolvedIsOwn ==
    ASSUME ConfigOK, McpOK, CallsOK, SessionsOwn,
           NEW k \in CallSlots, NEW c, c = call[k], c.pc = "resolve"
    PROVE  /\ NamedByCall(c) = IF c.explicit # NoTenant THEN c.explicit ELSE Token(c)
           /\ NamedByCall(c) \in SomeTenant
           /\ NamedByCall(c) # NoTenant => Own(c.session, NamedByCall(c))
           /\ Remembered(c.session) \in SomeTenant
           /\ Remembered(c.session) # NoTenant => Own(c.session, Remembered(c.session))
           /\ NamedBySetup(c) \in SomeTenant
           /\ NamedBySetup(c) # NoTenant => Own(c.session, NamedBySetup(c))
  <1>1. c \in Call /\ CallOK(c)
    BY DEF McpOK, CallsOK
  <1>2. /\ c.session \in Sessions /\ c.explicit \in SomeTenant /\ c.token \in SomeTenant
        /\ c.meta \in SomeTenant /\ Token(c) \in SomeTenant
        /\ InitTenant[c.session] \in SomeTenant /\ config.default \in SomeTenant
    BY <1>1, SessionAssumption DEF Call, Token, SomeTenant, ConfigOK
  <1>3. NamedByCall(c) = IF c.explicit # NoTenant THEN c.explicit ELSE Token(c)
    <2>1. NamedByCall(c) = FirstOf(<<c.explicit, Token(c)>>)
      BY DEF NamedByCall, Token
    <2> QED
      BY <1>2, <2>1, FirstOfTwo
  <1>4. NamedBySetup(c) \in {InitTenant[c.session], c.meta, config.default}
    BY <1>2, FirstOfThree DEF NamedBySetup
  <1>5. Remembered(c.session) \in SomeTenant
    BY <1>2, SessionIDType DEF Remembered, McpOK, SomeTenant
  <1>6. {c.explicit, c.meta, InitTenant[c.session], Token(c)} \ {NoTenant}
            \subseteq named[c.session]
    BY <1>1 DEF CallOK
  <1>7. NamedByCall(c) # NoTenant => Own(c.session, NamedByCall(c))
    BY <1>3, <1>6 DEF Own
  <1>8. NamedBySetup(c) # NoTenant => Own(c.session, NamedBySetup(c))
    BY <1>4, <1>6 DEF Own
  <1>9. Remembered(c.session) # NoTenant => Own(c.session, Remembered(c.session))
    BY <1>2 DEF SessionsOwn
  <1>10. NamedBySetup(c) \in SomeTenant /\ NamedByCall(c) \in SomeTenant
    BY <1>2, <1>3, <1>4
  <1> QED
    BY <1>3, <1>5, <1>7, <1>8, <1>9, <1>10

LEMMA MoveCall ==
    ASSUME CallFrame, NEW k \in CallSlots, UNCHANGED <<named, last, sessionTenants>>,
           NEW c \in Call, CallOK(c), call' = [call EXCEPT ![k] = c]
    PROVE  McpOK' /\ CallsOK' /\ SessionsOwn'
  <1>0. \A s \in Sessions : named[s] \subseteq named'[s]
    OBVIOUS
  <1>1. CallOK(c)'
    BY CallLasts DEF CallFrame
  <1>2. call' \in [CallSlots -> Call] /\ CallsOK'
    BY <1>0, <1>1, CallUpdate DEF CallFrame
  <1>3. SessionsOwn'
    BY <1>0, SessionsLast DEF CallFrame
  <1> QED
    BY <1>2, <1>3, OldestStays DEF CallFrame, McpOK

LEMMA ResolveOwn ==
    ASSUME CallFrame, NEW k \in CallSlots, ResolveTenant(k)
    PROVE  /\ McpOK' /\ CallsOK' /\ SessionsOwn'
           /\ \E pc \in {"detect", "remember", "act"}, t \in SomeTenant :
                 /\ call' = [call EXCEPT ![k] = Moved(call[k], pc, t)]
                 /\ pc = "act" => t = Remembered(call[k].session)
  <1>0. PICK c \in Call : c = call[k]
    BY DEF CallFrame, McpOK
  <1>1. /\ CallOK(c) /\ c.pc = "resolve" /\ c.tool \in ResolvingTools
        /\ UNCHANGED <<named, last, sessionTenants>>
    BY <1>0 DEF CallFrame, CallsOK, ResolveTenant, CallOK, sessionGhosts
  <1>2. PICK pc \in {"detect", "remember", "act"}, t \in SomeTenant :
            /\ call' = [call EXCEPT ![k] = Moved(c, pc, t)]
            /\ pc = "act" => t = Remembered(c.session)
            /\ CallOK(Moved(c, pc, t))
    <2> DEFINE Result(pc, t) ==
           /\ call' = [call EXCEPT ![k] = Moved(c, pc, t)]
           /\ pc = "act" => t = Remembered(c.session)
           /\ CallOK(Moved(c, pc, t))
    <2>0. /\ NamedByCall(c) = IF c.explicit # NoTenant THEN c.explicit ELSE Token(c)
          /\ NamedByCall(c) \in SomeTenant
          /\ NamedByCall(c) # NoTenant => Own(c.session, NamedByCall(c))
          /\ Remembered(c.session) \in SomeTenant
          /\ Remembered(c.session) # NoTenant => Own(c.session, Remembered(c.session))
          /\ NamedBySetup(c) \in SomeTenant
          /\ NamedBySetup(c) # NoTenant => Own(c.session, NamedBySetup(c))
      BY <1>0, <1>1, ResolvedIsOwn DEF CallFrame
    <2>1. ASSUME NEW pc, NEW t, Step(k, pc, t)
          PROVE  call' = [call EXCEPT ![k] = Moved(c, pc, t)]
      BY <1>0, <2>1, StepMoves DEF CallFrame
    <2>2. ASSUME NEW pc \in {"remember", "act"}, NEW t \in SomeTenant, Own(c.session, t),
                 c.explicit # NoTenant => t = c.explicit,
                 c.explicit = NoTenant /\ Token(c) # NoTenant => t = Token(c)
          PROVE  CallOK(Moved(c, pc, t))
      <3>1. PICK m : m = Moved(c, pc, t)
        OBVIOUS
      <3>2. /\ m.pc = pc /\ m.tool = c.tool /\ m.session = c.session
            /\ m.explicit = c.explicit /\ m.token = c.token /\ m.meta = c.meta
            /\ m.tenant = t
        BY <3>1 DEF Moved
      <3>3. CallOK(m)
        BY <1>1, <2>2, <3>2 DEF CallOK, ActsForOwn, Token
      <3> QED
        BY <3>1, <3>3
    <2>3. CASE NamedByCall(c) # NoTenant
      <3>1. Step(k, "remember", NamedByCall(c))
        BY <1>0, <2>3 DEF ResolveTenant, Step
      <3>2. CallOK(Moved(c, "remember", NamedByCall(c)))
        BY <2>0, <2>2, <2>3
      <3>3. Result("remember", NamedByCall(c))
        BY <2>1, <3>1, <3>2
      <3> HIDE DEF Result
      <3>4. \E pc \in {"detect", "remember", "act"}, t \in SomeTenant : Result(pc, t)
        BY <2>0, <3>3
      <3> QED
        BY <3>4 DEF Result
    <2>4. CASE NamedByCall(c) = NoTenant /\ Remembered(c.session) # NoTenant
      <3>1. Step(k, "act", Remembered(c.session))
        BY <1>0, <2>4 DEF ResolveTenant, Step
      <3>2. CallOK(Moved(c, "act", Remembered(c.session)))
        BY <2>0, <2>2, <2>4
      <3>3. Result("act", Remembered(c.session))
        BY <2>1, <3>1, <3>2
      <3> HIDE DEF Result
      <3>4. \E pc \in {"detect", "remember", "act"}, t \in SomeTenant : Result(pc, t)
        BY <2>0, <3>3
      <3> QED
        BY <3>4 DEF Result
    <2>5. CASE /\ NamedByCall(c) = NoTenant /\ Remembered(c.session) = NoTenant
               /\ NamedBySetup(c) # NoTenant
      <3>1. Step(k, "remember", NamedBySetup(c))
        BY <1>0, <2>5 DEF ResolveTenant, Step
      <3>2. CallOK(Moved(c, "remember", NamedBySetup(c)))
        BY <2>0, <2>2, <2>5
      <3>3. Result("remember", NamedBySetup(c))
        BY <2>1, <3>1, <3>2
      <3> HIDE DEF Result
      <3>4. \E pc \in {"detect", "remember", "act"}, t \in SomeTenant : Result(pc, t)
        BY <2>0, <3>3
      <3> QED
        BY <3>4 DEF Result
    <2>6. CASE /\ NamedByCall(c) = NoTenant /\ Remembered(c.session) = NoTenant
               /\ NamedBySetup(c) = NoTenant
      <3>1. Step(k, "detect", NoTenant)
        BY <1>0, <2>6 DEF ResolveTenant, Step
      <3>2. CallOK(Moved(c, "detect", NoTenant))
        <4>1. PICK m : m = Moved(c, "detect", NoTenant)
          OBVIOUS
        <4>2. /\ m.pc = "detect" /\ m.tool = c.tool /\ m.session = c.session
              /\ m.explicit = c.explicit /\ m.token = c.token /\ m.meta = c.meta
          BY <4>1 DEF Moved
        <4>3. CallOK(m)
          BY <1>1, <2>0, <2>6, <4>2 DEF CallOK, Token
        <4> QED
          BY <4>1, <4>3
      <3>3. Result("detect", NoTenant)
        BY <2>1, <3>1, <3>2
      <3> HIDE DEF Result
      <3>4. \E pc \in {"detect", "remember", "act"}, t \in SomeTenant : Result(pc, t)
        BY <3>3 DEF SomeTenant
      <3> QED
        BY <3>4 DEF Result
    <2> HIDE DEF Result
    <2> QED
      BY <2>3, <2>4, <2>5, <2>6
  <1>3. Moved(c, pc, t) \in Call
    BY MovedType
  <1>4. McpOK' /\ CallsOK' /\ SessionsOwn'
    BY <1>1, <1>2, <1>3, MoveCall
  <1> QED
    BY <1>0, <1>2, <1>4


LEMMA BeginOwn ==
    ASSUME CallFrame, NEW k \in CallSlots, NEW c \in Calls, BeginCall(k, c)
    PROVE  /\ McpOK' /\ CallsOK' /\ SessionsOwn'
           /\ \E d \in Call :
                 /\ call' = [call EXCEPT ![k] = d]
                 /\ d.pc # "idle" /\ d.session = c.session
                 /\ ~ (d.pc = "act" /\ d.tool \in ResolvingTools)
  <1>0. /\ c.tool \in Tools /\ c.session \in Sessions /\ c.explicit \in SomeTenant
        /\ c.token \in SomeTenant /\ c.meta \in SomeTenant /\ c.valid \in BOOLEAN
        /\ InitTenant[c.session] \in SomeTenant
    BY CallsAssumption, SessionAssumption
  <1> DEFINE d == [pc      |-> IF c.tool \in ResolvingTools THEN "resolve" ELSE "act",
                   tool    |-> c.tool, session |-> c.session, explicit |-> c.explicit,
                   token   |-> c.token, meta |-> c.meta, valid |-> c.valid,
                   tenant  |-> IF c.tool \in ResolvingTools THEN NoTenant ELSE c.explicit]
             given == {c.explicit, c.meta, InitTenant[c.session],
                       IF config.auth THEN c.token ELSE NoTenant} \ {NoTenant}
  <1>1. /\ call' = [call EXCEPT ![k] = d]
        /\ UNCHANGED <<sessionTenants, last>>
        /\ named' = [named EXCEPT ![c.session] = @ \cup given]
    BY DEF BeginCall
  <1>2. d \in Call
    BY <1>0 DEF Call, SomeTenant
  <1>3. given \subseteq Tenants
    BY <1>0 DEF SomeTenant
  <1> HIDE DEF given
  <1>4. /\ named' \in [Sessions -> SUBSET Tenants]
        /\ \A s \in Sessions : named[s] \subseteq named'[s]
        /\ given \subseteq named'[c.session]
    BY <1>0, <1>1, <1>3 DEF CallFrame, McpOK
  <1>5. /\ d.pc = (IF c.tool \in ResolvingTools THEN "resolve" ELSE "act")
        /\ d.tool = c.tool /\ d.session = c.session /\ d.explicit = c.explicit
        /\ d.token = c.token /\ d.meta = c.meta
    OBVIOUS
  <1> HIDE DEF d
  <1>6. PICK e \in Call : e = d
    BY <1>2
  <1>7. CallOK(e)'
    BY <1>4, <1>5, <1>6 DEF CallFrame, CallOK, Token, given
  <1>8. call' \in [CallSlots -> Call] /\ CallsOK'
    BY <1>1, <1>4, <1>6, <1>7, CallUpdate DEF CallFrame
  <1>9. SessionsOwn'
    BY <1>1, <1>4, SessionsLast DEF CallFrame
  <1>10. McpOK'
    BY <1>1, <1>4, <1>8, OldestStays DEF CallFrame, McpOK
  <1> QED
    BY <1>1, <1>2, <1>5, <1>8, <1>9, <1>10

LEMMA DetectOwn ==
    ASSUME CallFrame, NEW k \in CallSlots, DetectTenant(k)
    PROVE  /\ McpOK' /\ CallsOK' /\ SessionsOwn'
           /\ \E d \in Call :
                 /\ call' = [call EXCEPT ![k] = d]
                 /\ d.pc # "idle" => d.session = call[k].session
                 /\ d.pc # "act"
  <1>0. PICK c \in Call : c = call[k]
    BY DEF CallFrame, McpOK
  <1>1. /\ CallOK(c) /\ c.pc = "detect" /\ UNCHANGED <<named, last, sessionTenants>>
        /\ tenants \in Seq(Tenants) /\ McpOK
    BY <1>0 DEF CallFrame, CallsOK, DetectTenant, sessionGhosts, McpOK
  <1>2. CASE call' = [call EXCEPT ![k] = IdleCall]
    BY <1>1, <1>2, IdleCallType, MoveCall
  <1>3. CASE /\ Len(ListTenants(2)) = 1
             /\ call' = [call EXCEPT ![k].pc = "remember", ![k].tenant = ListTenants(2)[1]]
    <2>1. Len(tenants) = 1 /\ ListTenants(2)[1] = tenants[1]
      BY <1>1, <1>3 DEF ListTenants
    <2>2. PICK t \in Tenants : t = tenants[1]
      <3>0. tenants \in Seq(Tenants) /\ 1 \in 1 .. Len(tenants)
        BY <1>1, <2>1
      <3>1. tenants[1] \in Tenants
        BY <3>0, ElementOfSeq
      <3> QED
        BY <3>1
    <2>3. Step(k, "remember", t)
      BY <1>3, <2>1, <2>2 DEF Step
    <2>4. PICK m : m = Moved(c, "remember", t)
      OBVIOUS
    <2>5. call' = [call EXCEPT ![k] = m]
      BY <1>0, <1>1, <2>3, <2>4, StepMoves
    <2>6. m \in Call
      BY <2>4, MovedType DEF SomeTenant
    <2>7. /\ m.pc = "remember" /\ m.tool = c.tool /\ m.session = c.session
          /\ m.explicit = c.explicit /\ m.token = c.token /\ m.meta = c.meta
          /\ m.tenant = t
      BY <2>4 DEF Moved
    <2>8. Own(m.session, t)
      BY <2>1, <2>2 DEF Own
    <2>9. CallOK(m)
      BY <1>1, <2>7, <2>8 DEF CallOK, ActsForOwn, Token
    <2> QED
      BY <1>0, <1>1, <2>5, <2>6, <2>7, <2>9, MoveCall
  <1> QED
    BY <1>2, <1>3 DEF DetectTenant

LEMMA RememberOwn ==
    ASSUME CallFrame, NEW k \in CallSlots, RememberSessionTenant(k)
    PROVE  /\ McpOK' /\ CallsOK' /\ SessionsOwn'
           /\ call' = [call EXCEPT ![k] = Moved(call[k], "act", call[k].tenant)]
           /\ \A s \in Sessions : SessionID[s] # "" =>
                 Remembered(s)' = IF s = call[k].session THEN call[k].tenant
                                                         ELSE Remembered(s)
  <1>0. PICK c \in Call : c = call[k]
    BY DEF CallFrame, McpOK
  <1>1. /\ CallOK(c) /\ c.pc = "remember" /\ UNCHANGED <<named, last>> /\ McpOK
        /\ c.session \in Sessions /\ c.tenant \in SomeTenant
    BY <1>0 DEF CallFrame, CallsOK, RememberSessionTenant, sessionGhosts, Call
  <1>2. PICK m : m = Moved(c, "act", c.tenant)
    OBVIOUS
  <1>3. call' = [call EXCEPT ![k] = m]
    <2>1. PICK q : q = [c EXCEPT !.pc = "act"]
      OBVIOUS
    <2>2. q = Moved(c, "act", c.tenant)
      BY <2>1 DEF Call, Moved
    <2>3. call \in [CallSlots -> Call]
      BY <1>1 DEF McpOK
    <2>4. call' = [call EXCEPT ![k] = q]
      BY <1>0, <2>1, <2>3 DEF RememberSessionTenant
    <2> QED
      BY <1>2, <2>2, <2>4
  <1>4. m \in Call
    BY <1>1, <1>2, MovedType
  <1>5. /\ m.pc = "act" /\ m.tool = c.tool /\ m.session = c.session
        /\ m.explicit = c.explicit /\ m.token = c.token /\ m.meta = c.meta
        /\ m.tenant = c.tenant
    BY <1>2 DEF Moved
  <1>6. CallOK(m)
    BY <1>1, <1>5 DEF CallOK, ActsForOwn, Token
  <1>7. CallOK(m)' /\ \A s \in Sessions : named[s] \subseteq named'[s]
    BY <1>1, <1>6, CallLasts DEF CallFrame
  <1>8. call' \in [CallSlots -> Call] /\ CallsOK'
    BY <1>3, <1>4, <1>7, CallUpdate DEF CallFrame
  <1>9. sessionTenants' =
            IF SessionID[c.session] = "" THEN sessionTenants
            ELSE [sessionTenants EXCEPT ![SessionID[c.session]] = c.tenant]
    BY <1>0 DEF RememberSessionTenant
  <1>10. sessionTenants' \in [SessionIDs -> SomeTenant]
    BY <1>1, <1>9 DEF McpOK
  <1>11. ASSUME NEW s \in Sessions, SessionID[s] # ""
         PROVE  Remembered(s)' = IF s = c.session THEN c.tenant ELSE Remembered(s)
    <2>1. SessionID[s] \in SessionIDs /\ SessionID[c.session] \in SessionIDs
      BY <1>1, SessionIDType
    <2>2. SessionID[s] = SessionID[c.session] => s = c.session
      BY <1>1, <1>11, SessionAssumption
    <2> QED
      BY <1>1, <1>9, <1>11, <2>1, <2>2 DEF Remembered, McpOK
  <1>12. SessionsOwn'
    <2> SUFFICES ASSUME NEW s \in Sessions, Remembered(s)' # NoTenant
                 PROVE  Own(s, Remembered(s))'
      BY DEF SessionsOwn
    <2>1. SessionID[s] # ""
      BY DEF Remembered
    <2>2. PICK t : t = IF s = c.session THEN c.tenant ELSE Remembered(s)
      OBVIOUS
    <2>3. Remembered(s)' = t
      BY <1>11, <2>1, <2>2
    <2>4. Own(s, t)
      BY <1>1, <2>2, <2>3 DEF CallOK, ActsForOwn, CallFrame, SessionsOwn
    <2>5. Own(s, t)'
      BY <1>1, <1>7, <2>4, OwnLasts DEF CallFrame
    <2> QED
      BY <2>3, <2>5 DEF Own
  <1>13. McpOK'
    BY <1>1, <1>8, <1>10, OldestStays DEF CallFrame, McpOK
  <1> QED
    BY <1>0, <1>2, <1>3, <1>8, <1>11, <1>12, <1>13

LEMMA EndOwn ==
    ASSUME CallFrame, NEW k \in CallSlots, EndCall(k)
    PROVE  McpOK' /\ CallsOK' /\ SessionsOwn'
  <1>1. /\ call' = [call EXCEPT ![k] = IdleCall] /\ UNCHANGED <<named, sessionTenants>>
        /\ call[k] \in Call
    BY DEF EndCall, CallFrame, McpOK
  <1>2. CallOK(IdleCall)' /\ \A s \in Sessions : named[s] \subseteq named'[s]
    BY <1>1, IdleCallType DEF CallOK
  <1>3. call' \in [CallSlots -> Call] /\ CallsOK'
    BY <1>1, <1>2, IdleCallType, CallUpdate DEF CallFrame
  <1>4. SessionsOwn'
    BY <1>1, <1>2, SessionsLast DEF CallFrame
  <1>5. last' \in [Sessions -> SomeTenant]
    BY <1>1 DEF EndCall, CallFrame, McpOK, Call
  <1> QED
    BY <1>1, <1>3, <1>4, <1>5, OldestStays DEF CallFrame, McpOK


LEMMA OwnStep ==
    ASSUME ConfigOK, RestOK, McpOK, CallsOK, SessionsOwn, [Next]_vars
    PROVE  McpOK' /\ CallsOK' /\ SessionsOwn'
  <1>0. CallFrame
    BY ConfigStep, McpFrame DEF CallFrame
  <1>1. CASE UNCHANGED mcpVars
    <2>1. UNCHANGED <<call, sessionTenants, named, last, config>>
      BY <1>1, ConfigStep DEF mcpVars, sessionGhosts
    <2>2. SessionsOwn'
      BY <1>0, <2>1, SessionsLast DEF CallFrame
    <2>3. McpOK'
      BY <1>0, <2>1, OldestStays DEF CallFrame, McpOK
    <2>4. ASSUME NEW j \in CallSlots PROVE CallOK(call[j])'
      <3>1. PICK d : d = call[j]
        OBVIOUS
      <3>2. CallOK(d)'
        BY <1>0, <2>1, <3>1, CallLasts DEF CallFrame, CallsOK
      <3> QED
        BY <2>1, <3>1, <3>2 DEF CallOK, ActsForOwn, Own, Token
    <2> QED
      BY <2>2, <2>3, <2>4 DEF CallsOK
  <1>2. ASSUME NEW k \in CallSlots, HandleCall(k)
        PROVE  McpOK' /\ CallsOK' /\ SessionsOwn'
    BY <1>0, <1>2, CallCases, BeginOwn, ResolveOwn, DetectOwn, RememberOwn, EndOwn
  <1> QED
    BY <1>1, <1>2, McpFrame

LEMMA OwnInit == Init => McpOK /\ CallsOK /\ SessionsOwn
  <1> SUFFICES ASSUME Init PROVE McpOK /\ CallsOK /\ SessionsOwn
    OBVIOUS
  <1>1. McpOK
    BY IdleCallType, SettingsAssumption DEF Init, McpOK, SomeTenant
  <1>2. CallsOK
    BY IdleCallType DEF Init, CallsOK
  <1>3. SessionsOwn
    BY SessionIDType DEF Init, SessionsOwn, Remembered
  <1> QED
    BY <1>1, <1>2, <1>3

(***************************************************************************)
(* Every MCP call acts for the tenant it names, else for the one its token *)
(* names, else for one its own session named or for a default, for any     *)
(* sessions and calls, however the steps of resolveTenant interleave with  *)
(* other calls, REST requests and new tenants.                             *)
(***************************************************************************)
THEOREM CallsActForOwnTenantsCorrect == Spec => []CallsActForOwnTenants
  <1> DEFINE IInv == ConfigOK /\ RestOK /\ McpOK /\ CallsOK /\ SessionsOwn
  <1>1. Init => IInv
    BY RestInit, OwnInit
  <1>2. IInv /\ [Next]_vars => IInv'
    <2> SUFFICES ASSUME IInv, [Next]_vars PROVE IInv'
      OBVIOUS
    <2>1. ConfigOK' /\ RestOK'
      BY ConfigStep, RestStep DEF ConfigOK
    <2> QED
      BY <2>1, OwnStep
  <1>3. IInv => CallsActForOwnTenants
    BY DEF CallsOK, CallOK, ActsForOwn, Own, CallsActForOwnTenants
  <1> QED
    BY <1>1, <1>2, <1>3, PTL DEF Spec

-----------------------------------------------------------------------------
(* What a session remembers while its calls come one after another.        *)

InSession(c, s) == c.pc # "idle" /\ c.session = s
HasTenant(c) == c.pc = "act" /\ c.tool \in ResolvingTools

(* A session that never had two calls at once has at most one; it          *)
(* remembers the tenant of a call that has one, and otherwise the tenant   *)
(* of its last call.                                                       *)
Sequential(s) ==
    SessionID[s] # "" /\ s \notin overlapped =>
        /\ \A j, k \in CallSlots : InSession(call[j], s) /\ InSession(call[k], s) => j = k
        /\ \A k \in CallSlots :
              InSession(call[k], s) /\ HasTenant(call[k]) => Remembered(s) = call[k].tenant
        /\ (\A k \in CallSlots : InSession(call[k], s) => ~ HasTenant(call[k]))
              /\ last[s] # NoTenant => Remembered(s) = last[s]

(* A step of another session's call. *)
LEMMA OtherSession ==
    ASSUME McpOK, NEW s \in Sessions, Sequential(s), overlapped \subseteq overlapped',
           NEW k \in CallSlots, NEW c, call' = [call EXCEPT ![k] = c],
           ~ InSession(call[k], s), ~ InSession(c, s), last'[s] = last[s],
           SessionID[s] # "" => Remembered(s)' = Remembered(s)
    PROVE  Sequential(s)'
  <1>1. ASSUME NEW j \in CallSlots, InSession(call'[j], s)
        PROVE  call'[j] = call[j]
    BY <1>1 DEF McpOK
  <1>2. ASSUME NEW j \in CallSlots, InSession(call[j], s)
        PROVE  call'[j] = call[j]
    BY <1>2 DEF McpOK
  <1> SUFFICES ASSUME SessionID[s] # "", s \notin overlapped'
               PROVE  /\ \A j, l \in CallSlots :
                            InSession(call'[j], s) /\ InSession(call'[l], s) => j = l
                      /\ \A l \in CallSlots :
                            InSession(call'[l], s) /\ HasTenant(call'[l])
                               => Remembered(s)' = call'[l].tenant
                      /\ (\A l \in CallSlots : InSession(call'[l], s) => ~ HasTenant(call'[l]))
                            /\ last'[s] # NoTenant => Remembered(s)' = last'[s]
    BY DEF Sequential, InSession, HasTenant
  <1> QED
    BY <1>1, <1>2 DEF Sequential

(* A step of the session's only call. *)
LEMMA OwnSession ==
    ASSUME McpOK, NEW s \in Sessions,
           NEW k \in CallSlots, NEW c, call' = [call EXCEPT ![k] = c],
           SessionID[s] # "" /\ s \notin overlapped' =>
               /\ \A j \in CallSlots : j # k => ~ InSession(call[j], s)
               /\ InSession(c, s) /\ HasTenant(c) => Remembered(s)' = c.tenant
               /\ (InSession(c, s) => ~ HasTenant(c)) /\ last'[s] # NoTenant
                     => Remembered(s)' = last'[s]
    PROVE  Sequential(s)'
  <1> SUFFICES ASSUME SessionID[s] # "", s \notin overlapped'
               PROVE  /\ \A j, l \in CallSlots :
                            InSession(call'[j], s) /\ InSession(call'[l], s) => j = l
                      /\ \A l \in CallSlots :
                            InSession(call'[l], s) /\ HasTenant(call'[l])
                               => Remembered(s)' = call'[l].tenant
                      /\ (\A l \in CallSlots : InSession(call'[l], s) => ~ HasTenant(call'[l]))
                            /\ last'[s] # NoTenant => Remembered(s)' = last'[s]
    BY DEF Sequential, InSession, HasTenant
  <1>1. call'[k] = c /\ \A j \in CallSlots : j # k => call'[j] = call[j]
    BY DEF McpOK
  <1>2. \A j \in CallSlots : InSession(call'[j], s) => j = k
    BY <1>1
  <1> QED
    BY <1>1, <1>2

LEMMA SequentialCall ==
    ASSUME CallFrame, NEW s \in Sessions, Sequential(s), NEW k \in CallSlots, HandleCall(k)
    PROVE  Sequential(s)'
  <1>0. McpOK /\ SessionID[s] \in SessionIDs
    BY SessionIDType DEF CallFrame
  <1>1. PICK c \in Call : c = call[k]
    BY <1>0 DEF McpOK
  <1>2. ASSUME SessionID[s] # "", s \notin overlapped, InSession(c, s)
        PROVE  \A j \in CallSlots : j # k => ~ InSession(call[j], s)
    BY <1>1, <1>2 DEF Sequential
  <1>3. ASSUME NEW b \in Calls, BeginCall(k, b) PROVE Sequential(s)'
    <2>1. PICK d \in Call : /\ call' = [call EXCEPT ![k] = d]
                            /\ d.pc # "idle" /\ d.session = b.session
                            /\ ~ HasTenant(d)
      BY <1>3, BeginOwn DEF HasTenant
    <2>2. /\ UNCHANGED <<sessionTenants, last>> /\ overlapped \subseteq overlapped'
          /\ c.pc = "idle" /\ Remembered(s)' = Remembered(s)
          /\ (\E j \in CallSlots \ {k} : InSession(call[j], b.session))
                => b.session \in overlapped'
      BY <1>1, <1>3 DEF BeginCall, Remembered, InSession
    <2>3. CASE s = b.session
      <3>1. ASSUME SessionID[s] # "", s \notin overlapped'
            PROVE  /\ \A j \in CallSlots : j # k => ~ InSession(call[j], s)
                   /\ last'[s] # NoTenant => Remembered(s)' = last'[s]
        <4>1. \A j \in CallSlots : j # k => ~ InSession(call[j], s)
          BY <2>2, <2>3, <3>1
        <4>2. \A j \in CallSlots : ~ InSession(call[j], s)
          BY <1>1, <2>2, <4>1 DEF InSession
        <4> QED
          BY <2>2, <3>1, <4>1, <4>2 DEF Sequential
      <3> QED
        BY <1>0, <2>1, <3>1, OwnSession
    <2>4. CASE s # b.session
      <3>1. ~ InSession(call[k], s) /\ ~ InSession(d, s)
        BY <1>1, <2>1, <2>2, <2>4 DEF InSession
      <3> QED
        BY <1>0, <2>1, <2>2, <3>1, OtherSession
    <2> QED
      BY <2>3, <2>4
  <1>4. ASSUME NEW d \in Call, call' = [call EXCEPT ![k] = d], c.pc # "idle",
               overlapped' = overlapped,
               d.pc # "idle" => d.session = c.session,
               c.session # s /\ SessionID[s] # "" => /\ Remembered(s)' = Remembered(s)
                                                     /\ last'[s] = last[s],
               c.session # s => last'[s] = last[s],
               c.session = s /\ SessionID[s] # "" /\ s \notin overlapped =>
                   /\ InSession(d, s) /\ HasTenant(d) => Remembered(s)' = d.tenant
                   /\ (InSession(d, s) => ~ HasTenant(d)) /\ last'[s] # NoTenant
                         => Remembered(s)' = last'[s]
        PROVE  Sequential(s)'
    <2>1. CASE c.session = s
      <3>1. InSession(c, s)
        BY <1>4, <2>1 DEF InSession
      <3> QED
        BY <1>0, <1>2, <1>4, <2>1, <3>1, OwnSession
    <2>2. CASE c.session # s
      <3>1. ~ InSession(call[k], s) /\ ~ InSession(d, s)
        BY <1>1, <1>4, <2>2 DEF InSession
      <3> QED
        BY <1>0, <1>4, <2>2, <3>1, OtherSession
    <2> QED
      BY <2>1, <2>2
  <1>5. (* before the step, a call of s without a tenant leaves the last one remembered *)
        c.session = s /\ c.pc # "idle" /\ SessionID[s] # "" /\ s \notin overlapped =>
            /\ HasTenant(c) => Remembered(s) = c.tenant
            /\ ~ HasTenant(c) /\ last[s] # NoTenant => Remembered(s) = last[s]
    BY <1>1, <1>2 DEF Sequential, InSession
  <1>6. CASE ResolveTenant(k)
    <2>1. PICK pc \in {"detect", "remember", "act"}, t \in SomeTenant :
              /\ call' = [call EXCEPT ![k] = Moved(c, pc, t)]
              /\ pc = "act" => t = Remembered(c.session)
      BY <1>1, <1>6, ResolveOwn
    <2>2. PICK d \in Call : d = Moved(c, pc, t)
      BY MovedType
    <2>3. d.pc = pc /\ d.session = c.session /\ d.tenant = t
      BY <2>2 DEF Moved
    <2>4. /\ UNCHANGED <<sessionTenants, last, overlapped>> /\ c.pc = "resolve"
          /\ Remembered(s)' = Remembered(s)
      BY <1>1, <1>6 DEF ResolveTenant, sessionGhosts, Remembered
    <2>5. ~ HasTenant(c)
      BY <2>4 DEF HasTenant
    <2>6. HasTenant(d) => pc = "act"
      BY <2>3 DEF HasTenant
    <2>7. d.pc # "idle"
      BY <2>3
    <2> QED
      BY <1>4, <1>5, <2>1, <2>2, <2>3, <2>4, <2>5, <2>6, <2>7 DEF InSession
  <1>7. CASE DetectTenant(k)
    <2>1. PICK d \in Call : /\ call' = [call EXCEPT ![k] = d]
                            /\ d.pc # "idle" => d.session = c.session
                            /\ d.pc # "act"
      BY <1>1, <1>7, DetectOwn
    <2>2. /\ UNCHANGED <<sessionTenants, last, overlapped>> /\ c.pc = "detect"
          /\ Remembered(s)' = Remembered(s)
      BY <1>1, <1>7 DEF DetectTenant, sessionGhosts, Remembered
    <2>3. ~ HasTenant(c) /\ ~ HasTenant(d)
      BY <2>1, <2>2 DEF HasTenant
    <2> QED
      BY <1>4, <1>5, <2>1, <2>2, <2>3
  <1>8. CASE RememberSessionTenant(k)
    <2>1. /\ call' = [call EXCEPT ![k] = Moved(c, "act", c.tenant)]
          /\ SessionID[s] # "" => Remembered(s)' = IF s = c.session THEN c.tenant
                                                                    ELSE Remembered(s)
      BY <1>1, <1>8, RememberOwn
    <2>2. PICK d \in Call : d = Moved(c, "act", c.tenant)
      BY MovedType DEF Call
    <2>3. d.pc = "act" /\ d.tool = c.tool /\ d.session = c.session /\ d.tenant = c.tenant
      BY <2>2 DEF Moved
    <2>4. UNCHANGED <<last, overlapped>> /\ c.pc = "remember" /\ c.tool \in ResolvingTools
      BY <1>1, <1>8 DEF RememberSessionTenant, sessionGhosts, CallFrame, CallsOK, CallOK
    <2>5. HasTenant(d) /\ (c.session = s => InSession(d, s))
      BY <2>3, <2>4 DEF HasTenant, InSession
    <2> QED
      BY <1>4, <2>1, <2>2, <2>3, <2>4, <2>5
  <1>9. CASE EndCall(k)
    <2>1. /\ call' = [call EXCEPT ![k] = IdleCall] /\ UNCHANGED <<sessionTenants, overlapped>>
          /\ c.pc = "act" /\ Remembered(s)' = Remembered(s)
          /\ last' = IF c.tool \in ResolvingTools
                     THEN [last EXCEPT ![c.session] = c.tenant] ELSE last
      BY <1>1, <1>9 DEF EndCall, Remembered
    <2>2. last'[s] = IF c.tool \in ResolvingTools /\ c.session = s THEN c.tenant ELSE last[s]
      BY <1>0, <2>1 DEF McpOK
    <2>3. HasTenant(c) <=> c.tool \in ResolvingTools
      BY <2>1 DEF HasTenant
    <2>4. ~ InSession(IdleCall, s)
      BY IdleCallType DEF InSession
    <2>5. c.session # s => last'[s] = last[s]
      BY <2>2
    <2>6. c.session = s /\ SessionID[s] # "" /\ s \notin overlapped /\ last'[s] # NoTenant
             => Remembered(s)' = last'[s]
      BY <1>5, <2>1, <2>2, <2>3
    <2> QED
      BY <1>4, <2>1, <2>4, <2>5, <2>6, IdleCallType
  <1> QED
    BY <1>0, <1>3, <1>6, <1>7, <1>8, <1>9, CallCases

(***************************************************************************)
(* A session whose calls come one after another remembers the tenant its   *)
(* last call acted for, whatever the other sessions do: for any number of  *)
(* sessions with identifiers of their own.                                 *)
(***************************************************************************)
THEOREM SequentialSessionsRememberCorrect == Spec => []SequentialSessionsRemember
  <1> DEFINE Seqs == \A s \in Sessions : Sequential(s)
             IInv == /\ ConfigOK /\ RestOK /\ McpOK /\ CallsOK /\ SessionsOwn
                     /\ Seqs
  <1>1. Init => IInv
    <2>1. Init => Seqs
      BY IdleCallType DEF Init, Sequential, InSession
    <2> QED
      BY <2>1, RestInit, OwnInit
  <1>2. IInv /\ [Next]_vars => IInv'
    <2> SUFFICES ASSUME IInv, [Next]_vars PROVE IInv'
      OBVIOUS
    <2>1. ConfigOK' /\ RestOK' /\ UNCHANGED config
      BY ConfigStep, RestStep DEF ConfigOK
    <2>2. McpOK' /\ CallsOK' /\ SessionsOwn'
      BY OwnStep
    <2>3. CallFrame
      BY <2>1, McpFrame DEF CallFrame
    <2>4. ASSUME UNCHANGED mcpVars PROVE Seqs'
      BY <2>4 DEF mcpVars, sessionGhosts, Sequential, InSession, HasTenant, Remembered
    <2>5. ASSUME NEW k \in CallSlots, HandleCall(k) PROVE Seqs'
      BY <2>3, <2>5, SequentialCall
    <2>6. Seqs'
      BY <2>4, <2>5, McpFrame
    <2> QED
      BY <2>1, <2>2, <2>6
  <1>3. IInv => SequentialSessionsRemember
    <2> SUFFICES ASSUME IInv, NEW s \in Sessions, SessionID[s] # "", s \notin overlapped,
                        last[s] # NoTenant,
                        \A k \in CallSlots : call[k].pc # "idle" => call[k].session # s
                 PROVE  sessionTenants[SessionID[s]] = last[s]
      BY DEF SequentialSessionsRemember
    <2>1. \A k \in CallSlots : ~ InSession(call[k], s)
      BY DEF InSession
    <2> QED
      BY <2>1 DEF Sequential, Remembered
  <1> QED
    BY <1>1, <1>2, <1>3, PTL DEF Spec

-----------------------------------------------------------------------------
(* Type correctness of the servers: what is left are the tables.           *)

TablesOK ==
    /\ tenants \in Seq(Tenants) /\ Distinct(tenants)
    /\ rows \in [Tenants -> 0 .. MaxRows]
    /\ jobs \subseteq Tenants

(* What a step may do to the tables. *)
TablesStep ==
    /\ \/ tenants' = tenants
       \/ \E t \in Tenants : t \notin Existing /\ InsertTenant(t)
    /\ \/ rows' = rows
       \/ \E ts : rows' \in RowsAfterStore(ts)
       \/ \E t \in Tenants : rows[t] > 0 /\ rows' = RowsAfterDelete(t)
    /\ \/ jobs' = jobs
       \/ \E ts \in SUBSET Existing : jobs' = jobs \cup ts

LEMMA TablesKeep ==
    ASSUME TablesOK, TablesStep
    PROVE  TablesOK'
  <1>1. tenants' \in Seq(Tenants) /\ Distinct(tenants)'
    <2>1. CASE tenants' = tenants
      BY <2>1 DEF TablesOK, Distinct
    <2>2. ASSUME NEW t \in Tenants, t \notin Existing, InsertTenant(t)
          PROVE  tenants' \in Seq(Tenants) /\ Distinct(tenants)'
      <3>1. /\ tenants' \in Seq(Tenants) /\ Len(tenants') = Len(tenants) + 1
            /\ Len(tenants) \in Nat
            /\ \A i \in 1 .. Len(tenants') : tenants'[i] = IF i = 1 THEN t ELSE tenants[i - 1]
        BY <2>2 DEF InsertTenant, TablesOK
      <3>2. \A i \in 1 .. Len(tenants) : tenants[i] # t
        BY <2>2 DEF Existing
      <3>3. ASSUME NEW i \in 1 .. Len(tenants'), NEW j \in 1 .. Len(tenants'),
                   tenants'[i] = tenants'[j]
            PROVE  i = j
        <4>1. CASE i = 1 \/ j = 1
          BY <3>1, <3>2, <3>3, <4>1
        <4>2. CASE i # 1 /\ j # 1
          <5>1. /\ i - 1 \in 1 .. Len(tenants) /\ j - 1 \in 1 .. Len(tenants)
                /\ tenants[i - 1] = tenants[j - 1]
            BY <3>1, <3>3, <4>2
          <5>2. i - 1 = j - 1
            BY <5>1 DEF TablesOK, Distinct
          <5> QED
            BY <3>1, <5>2
        <4> QED
          BY <4>1, <4>2
      <3> QED
        BY <3>1, <3>3 DEF Distinct
    <2> QED
      BY <2>1, <2>2 DEF TablesStep
  <1>2. rows' \in [Tenants -> 0 .. MaxRows]
    <2>0. MaxRows \in Nat /\ rows \in [Tenants -> 0 .. MaxRows]
      BY BoundsAssumption DEF TablesOK
    <2>1. ASSUME NEW ts, rows' \in RowsAfterStore(ts) PROVE rows' \in [Tenants -> 0 .. MaxRows]
      <3>1. PICK grown \in SUBSET {t \in ts : rows[t] < MaxRows} :
               rows' = [t \in Tenants |-> IF t \in grown THEN rows[t] + 1 ELSE rows[t]]
        BY <2>1 DEF RowsAfterStore
      <3>2. \A t \in Tenants :
               (IF t \in grown THEN rows[t] + 1 ELSE rows[t]) \in 0 .. MaxRows
        BY <2>0
      <3> QED
        BY <3>1, <3>2
    <2>2. ASSUME NEW t \in Tenants, rows[t] > 0, rows' = RowsAfterDelete(t)
          PROVE  rows' \in [Tenants -> 0 .. MaxRows]
      BY <2>0, <2>2 DEF RowsAfterDelete
    <2> QED
      BY <2>0, <2>1, <2>2 DEF TablesStep
  <1>3. jobs' \subseteq Tenants
    <2>1. Existing \subseteq Tenants
      BY DEF Existing, TablesOK
    <2> QED
      BY <2>1 DEF TablesStep, TablesOK
  <1> QED
    BY <1>1, <1>2, <1>3 DEF TablesOK

LEMMA ServiceTables ==
    ASSUME RestOK, TablesOK, NEW r \in Slots, ServiceCall(r)
    PROVE  TablesStep
  <1>0. /\ request[r].pc = "service" /\ Bound(request[r]) /\ request[r].items \in Seq(Item)
    BY ServiceAnswers DEF RestOK, Request
  <1>1. Existing \subseteq Tenants
    BY DEF Existing, TablesOK
  <1>2. CASE CreateTenant(r)
    <2>1. request[r].items[1].tenant \in Tenants
      <3>1. Len(request[r].items) \in Nat /\ request[r].items # <<>>
        BY <1>0, <1>2 DEF CreateTenant, Bound
      <3>2. 1 \in 1 .. Len(request[r].items)
        BY <1>0, <3>1
      <3> QED
        BY <1>0, <1>2, <3>2 DEF CreateTenant, Bound
    <2> QED
      BY <1>2, <2>1 DEF CreateTenant, TablesStep
  <1>3. CASE StoreMemories(r)
    BY <1>3 DEF StoreMemories, TablesStep
  <1>4. CASE IngestMemories(r)
    BY <1>4 DEF IngestMemories, TablesStep
  <1>5. CASE DeleteMemory(r)
    BY <1>1, <1>5 DEF DeleteMemory, TablesStep
  <1>6. CASE UNCHANGED database
    BY <1>6 DEF database, TablesStep
  <1> QED
    BY <1>2, <1>3, <1>4, <1>5, <1>6
       DEF ServiceCall, TenantMissing, SearchMemories, ListPostprocessJobs, TenantStats,
           ReadTenant, GetPostprocessJob

LEMMA CallTables ==
    ASSUME TablesOK, NEW k \in CallSlots, HandleCall(k)
    PROVE  TablesStep
  <1>1. Existing \subseteq Tenants
    BY DEF Existing, TablesOK
  <1>2. CASE ToolStores(k)
    BY <1>2 DEF ToolStores, TablesStep
  <1>3. CASE ToolDeletes(k)
    BY <1>1, <1>3 DEF ToolDeletes, TablesStep
  <1>4. CASE ToolCreatesTenant(k)
    BY <1>4 DEF ToolCreatesTenant, TablesStep
  <1>5. CASE UNCHANGED database
    BY <1>5 DEF database, TablesStep
  <1> QED
    BY <1>2, <1>3, <1>4, <1>5
       DEF HandleCall, BeginCall, ResolveTenant, DetectTenant, RememberSessionTenant,
           ToolReadsMemories, ToolReadsTenants, ToolFails

LEMMA TablesNext ==
    ASSUME ConfigOK, RestOK, TablesOK, [Next]_vars
    PROVE  TablesOK'
  <1>1. ASSUME UNCHANGED database PROVE TablesStep
    BY <1>1 DEF database, TablesStep
  <1>2. ASSUME NEW r \in Slots, HandleRequest(r) \/ ObserveRequest(r) PROVE TablesStep
    <2>1. CASE ServiceCall(r)
      BY <2>1, ServiceTables
    <2>2. ASSUME NEW q \in RestRequests, Arrive(r, q) PROVE TablesStep
      BY <1>1, <2>2 DEF Arrive
    <2>3. CASE ObserveRequest(r)
      BY <1>1, <2>3
         DEF ObserveRequest, CountSuccess, CountTenant, RecordEvent, RecordMinute,
             RecordRequest, FinishRequest, RecordFrame
    <2> QED
      BY <1>2, <2>1, <2>2, <2>3 DEF HandleRequest, ServiceCall
  <1>3. ASSUME NEW k \in CallSlots, HandleCall(k) PROVE TablesStep
    BY <1>3, CallTables
  <1>4. ASSUME NEW t \in Tenants, SubmitForm(t) PROVE TablesStep
    BY <1>4
       DEF SubmitForm, DashboardCreateMemory, DashboardDeleteMemory, DashboardCreateTenant,
           Form, TablesStep
  <1>5. ASSUME PassMinute \/ UNCHANGED vars PROVE TablesStep
    BY <1>1, <1>5 DEF PassMinute, vars
  <1>6. TablesStep
    BY <1>1, <1>2, <1>3, <1>4, <1>5 DEF Next
  <1> QED
    BY <1>6, TablesKeep

(* AddTenant is all that happens to the counts of the tenants. *)
LEMMA KnownStep ==
    ASSUME [Next]_vars
    PROVE  tenantCounts' = tenantCounts \/ \E t, w, n : AddTenant(t, w, n)
  <1>1. ASSUME NEW r \in Slots, HandleRequest(r) PROVE tenantCounts' = tenantCounts
    <2>1. CASE ServiceCall(r)
      BY <2>1, ServiceAnswers DEF Answer, telemetryVars
    <2>2. ASSUME NEW q \in RestRequests, Arrive(r, q) PROVE tenantCounts' = tenantCounts
      BY <2>2 DEF Arrive
    <2> QED
      BY <1>1, <2>1, <2>2 DEF HandleRequest, ServiceCall
  <1>2. ASSUME NEW r \in Slots, ObserveRequest(r)
        PROVE  tenantCounts' = tenantCounts \/ \E t, w, n : AddTenant(t, w, n)
    BY <1>2 DEF ObserveRequest, CountSuccess, CountTenant, RecordEvent, RecordMinute, RecordRequest,
                FinishRequest, RecordFrame
  <1>3. ASSUME UNCHANGED telemetryVars PROVE tenantCounts' = tenantCounts
    BY <1>3 DEF telemetryVars
  <1>4. ASSUME PassMinute PROVE tenantCounts' = tenantCounts
    BY <1>4 DEF PassMinute, Tick
  <1> QED
    BY <1>1, <1>2, <1>3, <1>4, RestFrame DEF Next, vars, restVars

(* The inductive invariant of the servers. *)
ServersOK ==
    /\ ConfigOK /\ RestOK /\ CountInv
    /\ McpOK /\ CallsOK /\ SessionsOwn
    /\ EventsOK /\ RingHoldsNewest /\ MinutesOK /\ RingCountsMinutes
    /\ TablesOK
    /\ clock \in FirstMinute .. FirstMinute + MaxMinute
    /\ IsFiniteSet(DOMAIN tenantCounts)

LEMMA ServersHold == Spec => []ServersOK
  <1> DEFINE ClockOK == clock \in FirstMinute .. FirstMinute + MaxMinute
             Requested == ConfigOK /\ RestOK /\ CountInv
             Called == McpOK /\ CallsOK /\ SessionsOwn
             Rings == EventsOK /\ RingHoldsNewest /\ MinutesOK /\ RingCountsMinutes
             Known == IsFiniteSet(DOMAIN tenantCounts)
  <1>0. /\ Capacity \in Nat \ {0} /\ Window \in Nat \ {0} /\ MaxMinute \in Nat
        /\ MaxRows \in Nat /\ FirstMinute \in Nat
    BY TelemetryAssumption, BoundsAssumption DEF FirstMinute
  <1>1. Init => ServersOK
    <2> SUFFICES ASSUME Init PROVE ServersOK
      OBVIOUS
    <2>1. Requested /\ Called
      BY RestInit, CountInit, OwnInit
    <2>2. TablesOK
      BY <1>0, SettingsAssumption DEF Init, TablesOK, Distinct
    <2>3. ClockOK
      BY <1>0 DEF Init, NewService
    <2>4. Rings
      BY EventsInit, MinutesInit
    <2>5. Known
      <3>1. DOMAIN tenantCounts = {}
        BY DEF Init, NewService
      <3> QED
        BY <3>1, FS_EmptySet
    <2> QED
      BY <2>1, <2>2, <2>3, <2>4, <2>5 DEF ServersOK
  <1>2. ServersOK /\ [Next]_vars => ServersOK'
    <2> SUFFICES ASSUME ServersOK, [Next]_vars PROVE ServersOK'
      OBVIOUS
    <2>0. Requested /\ Called /\ Rings /\ TablesOK /\ ClockOK /\ Known
      BY DEF ServersOK
    <2>1. Requested'
      BY <2>0, ConfigStep, RestStep, CountStep DEF ConfigOK
    <2>2. Called'
      BY <2>0, OwnStep
    <2>3. TablesOK'
      BY <2>0, TablesNext
    <2>4. ClockOK'
      BY <1>0, <2>0, TelemetryCases DEF Tick, FirstMinute
    <2>5. Rings'
      BY <2>0, EventsStep, MinutesStep
    <2>6. Known'
      <3>1. CASE tenantCounts' = tenantCounts
        BY <2>0, <3>1
      <3>2. ASSUME NEW t, NEW w, NEW n, AddTenant(t, w, n) PROVE Known'
        <4>1. DOMAIN tenantCounts' = DOMAIN tenantCounts \/ DOMAIN tenantCounts' = DOMAIN tenantCounts \cup {t}
          BY <3>2 DEF AddTenant
        <4> QED
          BY <2>0, <4>1, FS_AddElement
      <3> QED
        BY <3>1, <3>2, KnownStep
    <2> QED
      BY <2>1, <2>2, <2>3, <2>4, <2>5, <2>6 DEF ServersOK
  <1> QED
    BY <1>1, <1>2, PTL DEF Spec

(***************************************************************************)
(* The types of the servers' state, for any tenants, requests, calls and   *)
(* sizes: the table of tenants never holds a tenant twice, whichever of    *)
(* the REST API, the tools and the dashboard creates it, counts of rows    *)
(* and of active requests never fall below zero, the rings keep their      *)
(* shape.                                                                  *)
(***************************************************************************)
THEOREM TypeCorrect == Spec => []TypeOK
  <1>1. ServersOK => TypeOK
    BY DEF ServersOK, TypeOK, ConfigOK, RestOK, CountInv, CountersOK, McpOK, EventsOK, MinutesOK,
           TablesOK, Distinct
  <1> QED
    BY <1>1, ServersHold, PTL

-----------------------------------------------------------------------------
(* The lists of the dashboard.                                             *)

(* topTenants sorts by an order: no two tenants have the same Rank. *)
LEMMA BusierOrders ==
    ASSUME CountInv, IsFiniteSet(DOMAIN tenantCounts), NEW byWrites \in BOOLEAN
    PROVE  Orders(BusierPairs(byWrites), DOMAIN tenantCounts)
  <1> PICK D : D = DOMAIN tenantCounts
    OBVIOUS
  <1>1. \A s \in D : /\ s \in Tenants /\ Rank[s] \in Nat
                     /\ tenantCounts[s].writes \in Nat /\ tenantCounts[s].searches \in Nat
    BY TelemetryAssumption DEF CountInv, CountersOK
  <1>2. \A s, t \in D : Rank[s] = Rank[t] => s = t
    BY <1>1, TelemetryAssumption
  <1>3. \A s, t \in D : <<s, t>> \in BusierPairs(byWrites) <=> Busier(s, t, byWrites)
    BY DEF BusierPairs
  <1>4. \A s \in D : ~ Busier(s, s, byWrites)
    BY <1>1 DEF Busier
  <1>5. \A s, t \in D : s # t => Busier(s, t, byWrites) \/ Busier(t, s, byWrites)
    BY <1>1, <1>2 DEF Busier
  <1>6. \A s, t, u \in D : Busier(s, t, byWrites) /\ Busier(t, u, byWrites) => Busier(s, u, byWrites)
    BY <1>1 DEF Busier
  <1> QED
    BY <1>3, <1>4, <1>5, <1>6 DEF Orders

LEMMA TopTenantsAreBusiest ==
    ASSUME CountInv, IsFiniteSet(DOMAIN tenantCounts), NEW byWrites \in BOOLEAN
    PROVE  LET top == TopTenants(TopLimit, byWrites)
           IN  /\ \A i \in 1 .. Len(top) : top[i] \in DOMAIN tenantCounts
               /\ \A i \in 1 .. Len(top), t \in DOMAIN tenantCounts :
                     (\A j \in 1 .. Len(top) : t # top[j]) => Busier(top[i], t, byWrites)
  <1> DEFINE S == DOMAIN tenantCounts
             R == BusierPairs(byWrites)
             f == SortedBy(S, R)
             top == TopTenants(TopLimit, byWrites)
  <1>1. Orders(R, S)
    BY BusierOrders
  <1>5. Sorts(f, S, R)
    BY <1>1, SortedBySorts
  <1>6. CutAt(top, f, TopLimit)
    BY DEF TopTenants, CutAt
  <1>7. TopLimit \in Nat
    BY BoundsAssumption
  <1> HIDE DEF top, f, R
  <1>8. /\ \A i \in 1 .. Len(top) : top[i] \in S
        /\ \A i \in 1 .. Len(top), t \in S :
              (\A j \in 1 .. Len(top) : t # top[j]) => <<top[i], t>> \in R
    BY <1>1, <1>5, <1>6, <1>7, Leaders
  <1>9. \A s, t : <<s, t>> \in R => Busier(s, t, byWrites)
    BY DEF R, BusierPairs
  <1> QED
    BY <1>8, <1>9 DEF top

(* ListWithStats shows each tenant once, with the count of its rows. *)
LEMMA ViewsShowRows ==
    ASSUME TablesOK
    PROVE  LET views == ListWithStats(PageLimit)
           IN  /\ Len(views) \in Nat
               /\ views \in [1 .. Len(views) -> {views[i] : i \in 1 .. Len(views)}]
               /\ \A i \in 1 .. Len(views) :
                     /\ views[i] \in [tenant : Tenants, count : Nat]
                     /\ views[i].count = rows[views[i].tenant]
  <1> DEFINE listed == ListTenants(PageLimit)
             counts == ListMemoryCounts(listed)
             views == ListWithStats(PageLimit)
  <1>1. PageLimit \in Nat /\ MaxRows \in Nat
    BY BoundsAssumption
  <1>2. Len(listed) \in Nat /\ \A i \in 1 .. Len(listed) : listed[i] \in Tenants
    BY <1>1 DEF ListTenants, TablesOK
  <1>3. \A i \in 1 .. Len(listed) : counts[listed[i]] = rows[listed[i]]
    BY DEF ListMemoryCounts
  <1>4. views = [i \in 1 .. Len(listed) |-> [tenant |-> listed[i], count |-> counts[listed[i]]]]
    BY DEF ListWithStats
  <1> HIDE DEF listed, counts, views
  <1>5. /\ Len(views) = Len(listed)
        /\ views \in [1 .. Len(listed) -> {views[i] : i \in 1 .. Len(listed)}]
    BY <1>2, <1>4
  <1>6. ASSUME NEW i \in 1 .. Len(listed)
        PROVE  /\ views[i] = [tenant |-> listed[i], count |-> rows[listed[i]]]
               /\ listed[i] \in Tenants /\ rows[listed[i]] \in Nat
    BY <1>1, <1>2, <1>3, <1>4 DEF TablesOK
  <1> QED
    BY <1>2, <1>5, <1>6 DEF views

LEMMA TopTenantHasMost ==
    ASSUME TablesOK, TopTenant(ListWithStats(PageLimit)) # NoTenant
    PROVE  TopTenantsByMemory(ListWithStats(PageLimit), TopLimit)[1].count
              = rows[TopTenant(ListWithStats(PageLimit))]
  <1>a. PICK views : views = ListWithStats(PageLimit)
    OBVIOUS
  <1> DEFINE N == 1 .. Len(views)
             V == {views[i] : i \in N}
             R == LargerPairs(V)
             Larger(v, w) == \/ v.count > w.count
                             \/ v.count = w.count /\ Rank[v.tenant] < Rank[w.tenant]
             f == SortedBy(V, R)
             top == TopTenantsByMemory(views, TopLimit)
             leads(i) == /\ views[i].count > 0
                         /\ \A j \in N : \/ views[j].count < views[i].count
                                         \/ views[j].count = views[i].count /\ i <= j
             leading == {i \in N : leads(i)}
  <1>0. Len(views) \in Nat
    BY <1>a, ViewsShowRows
  <1>b. views \in [N -> V]
    BY <1>a, ViewsShowRows
  <1>1. \A i \in N : /\ views[i] \in [tenant : Tenants, count : Nat]
                     /\ views[i].count = rows[views[i].tenant]
    BY <1>a, ViewsShowRows
  <1>2. leading # {} /\ TopTenant(views) = views[CHOOSE i \in leading : TRUE].tenant
    BY <1>a DEF TopTenant
  <1>3. PICK i0 \in N : leads(i0) /\ TopTenant(views) = views[i0].tenant
    BY <1>2
  <1>4. rows[TopTenant(views)] = views[i0].count
    BY <1>1, <1>3
  <1>5. IsFiniteSet(V)
    <2>1. views \in Surjection(N, V)
      <3>1. \A v \in V : \E i \in N : views[i] = v
        OBVIOUS
      <3> HIDE DEF V
      <3> QED
        BY <1>b, <3>1 DEF Surjection
    <2>2. IsFiniteSet(N)
      BY <1>0, FS_Interval
    <2> QED
      BY <2>1, <2>2, FS_Surjection
  <1>6. \A v \in V : /\ v \in [tenant : Tenants, count : Nat] /\ v.count = rows[v.tenant]
                     /\ v.tenant \in Tenants /\ v.count \in Nat /\ Rank[v.tenant] \in Nat
    <2>1. \A v \in V : v \in [tenant : Tenants, count : Nat] /\ v.count = rows[v.tenant]
      BY <1>1
    <2> HIDE DEF V
    <2>2. \A v \in V : v.tenant \in Tenants /\ v.count \in Nat
      BY <2>1
    <2>3. \A t \in Tenants : Rank[t] \in Nat
      BY TelemetryAssumption
    <2> QED
      BY <2>1, <2>2, <2>3, Zenon
  <1>7. \A v, w \in V : Rank[v.tenant] = Rank[w.tenant] => v = w
    <2> SUFFICES ASSUME NEW v \in V, NEW w \in V, Rank[v.tenant] = Rank[w.tenant]
                 PROVE  v = w
      OBVIOUS
    <2> HIDE DEF V
    <2>1. v.tenant = w.tenant
      BY <1>6, TelemetryAssumption
    <2>2. /\ v \in [tenant : Tenants, count : Nat] /\ v.count = rows[v.tenant]
          /\ w \in [tenant : Tenants, count : Nat] /\ w.count = rows[w.tenant]
      BY <1>6
    <2> QED
      BY ONLY <2>1, <2>2
  <1> HIDE DEF V
  <1>8. \A v, w \in V : <<v, w>> \in R <=> Larger(v, w)
    BY DEF LargerPairs
  <1>9. Orders(R, V)
    <2>1. \A v \in V : ~ Larger(v, v)
      BY <1>6
    <2>2. \A v, w \in V : v # w => Larger(v, w) \/ Larger(w, v)
      BY <1>6, <1>7
    <2>3. \A u, v, w \in V : Larger(u, v) /\ Larger(v, w) => Larger(u, w)
      BY <1>6
    <2> HIDE DEF Larger, R
    <2> QED
      BY <1>5, <1>8, <2>1, <2>2, <2>3 DEF Orders
  <1> HIDE DEF Larger, R
  <1>13. Sorts(f, V, R)
    BY <1>9, SortedBySorts
  <1>14. CutAt(top, f, TopLimit)
    BY DEF TopTenantsByMemory, V, R, CutAt
  <1>15. TopLimit \in Nat /\ TopLimit # 0
    BY BoundsAssumption
  <1>16. views[i0] \in V
    BY DEF V
  <1> HIDE DEF f, top
  <1>17. top[1] \in V /\ (views[i0] = top[1] \/ <<top[1], views[i0]>> \in R)
    <2>1. LeadsAll(top, V, R)
      BY <1>9, <1>13, <1>14, <1>15, Leaders
    <2> QED
      BY <1>16, <2>1 DEF LeadsAll
  <1>18. top[1].count >= views[i0].count
    BY <1>6, <1>8, <1>16, <1>17 DEF Larger
  <1>19. top[1].count <= views[i0].count
    <2>1. PICK j \in N : top[1] = views[j]
      BY <1>17 DEF V
    <2> QED
      BY <1>1, <1>3, <2>1
  <1>20. top[1].count \in Nat /\ views[i0].count \in Nat
    BY <1>6, <1>16, <1>17
  <1> QED
    BY <1>a, <1>4, <1>18, <1>19, <1>20 DEF top

(***************************************************************************)
(* No list of top tenants that Snapshot gives leaves out a tenant that is  *)
(* busier than one it shows, at any interleaving of the sections that      *)
(* count, and the statistics page names a tenant with as many memories as  *)
(* the first of its list.                                                  *)
(***************************************************************************)
THEOREM TopTenantsLeadCorrect == Spec => []TopTenantsLead
  <1>1. ServersOK => TopTenantsLead
    <2> SUFFICES ASSUME ServersOK PROVE TopTenantsLead
      OBVIOUS
    <2>1. CountInv /\ TablesOK /\ IsFiniteSet(DOMAIN tenantCounts)
      BY DEF ServersOK
    <2>2. ASSUME NEW byWrites \in BOOLEAN,
                 NEW i \in 1 .. Len(TopTenants(TopLimit, byWrites)),
                 NEW t \in DOMAIN tenantCounts,
                 \A j \in 1 .. Len(TopTenants(TopLimit, byWrites)) :
                    t # TopTenants(TopLimit, byWrites)[j]
          PROVE  IF byWrites THEN tenantCounts[TopTenants(TopLimit, byWrites)[i]].writes >= tenantCounts[t].writes
                 ELSE tenantCounts[TopTenants(TopLimit, byWrites)[i]].searches >= tenantCounts[t].searches
      <3>1. PICK s \in DOMAIN tenantCounts : s = TopTenants(TopLimit, byWrites)[i] /\ Busier(s, t, byWrites)
        BY <2>1, <2>2, TopTenantsAreBusiest
      <3>2. /\ tenantCounts[s].writes \in Nat /\ tenantCounts[t].writes \in Nat
            /\ tenantCounts[s].searches \in Nat /\ tenantCounts[t].searches \in Nat
        BY <2>1 DEF CountInv, CountersOK
      <3> QED
        BY <3>1, <3>2 DEF Busier
    <2>3. TopTenant(ListWithStats(PageLimit)) # NoTenant =>
             TopTenantsByMemory(ListWithStats(PageLimit), TopLimit)[1].count
                = rows[TopTenant(ListWithStats(PageLimit))]
      BY <2>1, TopTenantHasMost
    <2> QED
      BY <2>2, <2>3 DEF TopTenantsLead
  <1> QED
    BY <1>1, ServersHold, PTL

===========================================================================
