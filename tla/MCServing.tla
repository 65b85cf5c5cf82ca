----------------------------- MODULE MCServing -----------------------------
(***************************************************************************)
(* Two tenants, two REST requests and two MCP calls at once.  The requests *)
(* are representatives: every operation, both tenants, every way a token   *)
(* or a body can be refused.  One session has an identifier, one has an    *)
(* identifier and a tenant in its metadata, one runs over stdio.           *)
(***************************************************************************)
EXTENDS Serving, TLC

MCTenants == {"a", "b"}
MCRank == [t \in MCTenants |-> IF t = "a" THEN 1 ELSE 2]
MCSettings == {[auth |-> TRUE, default |-> ""], [auth |-> FALSE, default |-> "b"]}
MCInitially == {<<"a">>, <<"b", "a">>}

Signed(t) == IssueToken(t)
Refused == {[Signed("a") EXCEPT !.bearer = FALSE], [Signed("a") EXCEPT !.signed = FALSE],
            [Signed("a") EXCEPT !.issuer = "other"], Signed("")}

Entry(t, v) == [tenant |-> t, valid |-> v]
Send(op, token, items) == [op |-> op, token |-> token, json |-> TRUE, items |-> items]
One(t) == <<Entry(t, TRUE)>>

MCRestRequests ==
    {Send("store", token, One("a")) : token \in Refused \cup {Signed("a")}}
    \cup {Send("search", Signed("a"), One(t)) : t \in {"", "b"}}
    \cup {Send(op, [Signed("a") EXCEPT !.issuer = ""], One("a")) :
             op \in {"search", "ingest", "jobs", "delete", "tenant_stats"}}
    \cup {Send("store_batch", Signed("a"), <<Entry("a", TRUE), Entry("a", TRUE)>>),
          Send("store_batch", Signed("a"), <<Entry("a", TRUE), Entry("b", TRUE)>>),
          Send("store_batch", Signed("a"), <<>>),
          Send("ingest_batch", Signed("b"), <<Entry("b", TRUE), Entry("b", TRUE)>>),
          Send("search", Signed("a"), <<Entry("b", FALSE)>>),
          [Send("search", Signed("a"), One("a")) EXCEPT !.json = FALSE],
          Send("tenant_create", Signed("b"), One("b")),
          Send("job", Signed("a"), One(""))}

MCSessions == {1, 2, 3}
MCSessionID == <<"s1", "s2", "">>
MCInitTenant == <<"", "b", "">>

Tool(tool, s, explicit, token) ==
    [tool |-> tool, session |-> s, explicit |-> explicit, token |-> token,
     meta |-> "", valid |-> TRUE]

MCCalls ==
    {Tool("store", s, "", "") : s \in {1, 2, 3}}
    \cup {Tool("delete", 1, t, "") : t \in {"a", "b"}}
    \cup {Tool("search", s, "", "b") : s \in {1, 3}}
    \cup {Tool("list", 1, "a", "b"), Tool("stats", 3, "b", ""),
          Tool("tenant_list", 2, "", ""),
          [Tool("preference", 1, "", "") EXCEPT !.meta = "a", !.valid = FALSE],
          Tool("tenant_create", 2, "b", "")}

SlotSymmetry == Permutations(Slots) \cup Permutations(CallSlots)
============================================================================
