----------------------------- MODULE SyncStore -----------------------------
(***************************************************************************)
(* The synchronous store: Service.StoreBatch and what it calls, for        *)
(* several clients of one database.  A call splits its items into turns    *)
(* for the parser and plain memories.  Turns are stored one memory at a    *)
(* time (storeWithParser) or staged together and written in one            *)
(* transaction (storeBatchWithParser); plain memories are written in one   *)
(* transaction and their structured observations derived afterwards.       *)
(* Every call of the repository, the vector store, an embedder or a scorer *)
(* may fail, and the store then returns the error and undoes nothing.      *)
(***************************************************************************)
EXTENDS Naturals, Integers, Sequences, FiniteSets

CONSTANTS
    Clients,        \* goroutines that serve a store request
    Tenants,
    Turns,          \* contents of turns
    Facts,          \* what parsers extract
    NoFact,         \* the fact of a raw turn's identity
    NoTuple,        \* a fact without entity, relation and value
    TupleOf,        \* the relation tuple of a fact
    Parses,         \* the fact lists a parser may give for a turn; <<>> also stands for an error
    Derived,        \* the structured facts of a turn, always the same
    Batches,        \* the requests clients send
    Options,        \* parser and StoreRawTurn options, and whether the embedder has BatchEmbed
    VectorService,  \* the vector store is a service whose answer may be lost
    MaxCalls,       \* bound on the requests
    MaxUnmarked     \* bound on the memories whose index marks are lost

Item == [tenant : Tenants, turn : Turns, raw : BOOLEAN]

ASSUME StoreAssumption ==
    /\ NoFact \notin Facts
    /\ DOMAIN TupleOf = Facts
    /\ Parses \in [Turns -> SUBSET Seq(Facts)]
    /\ Derived \in [Turns -> Seq(Facts)]
    /\ Batches \subseteq Seq(Item) \ {<<>>}
    /\ Options \subseteq [parser : BOOLEAN, rawTurn : BOOLEAN, batchEmbedder : BOOLEAN]
    /\ VectorService \in BOOLEAN
    /\ MaxCalls \in Nat /\ MaxUnmarked \in Nat

VARIABLES
    options,    \* of this server, fixed at its start
    rows,       \* memories in the order of their insertion; the id is the position
    index,      \* memory_index_jobs for the upsert operation
    embedded,   \* ids with an embedding
    links,      \* entity facts: tenant, tuple and the memory that states it
    call,       \* the request each client serves
    replies,    \* history: how each request ended
    overlaps,   \* history: requests that were served at the same time
    unmarked    \* history: ids whose index state was not written, the error being logged

vars == <<options, rows, index, embedded, links, call, replies, overlaps, unmarked>>

---------------------------------------------------------------------------
(* Memories to be stored, and references to memories.                     *)

RawKey(turn) == [turn |-> turn, n |-> 0, fact |-> NoFact]
FactKey(turn, n, fact) == [turn |-> turn, n |-> n, fact |-> fact]

\* A unit of work: item i of the request asks for the memory with this key.
RawUnit(i, turn) == [item |-> i, key |-> RawKey(turn), tuple |-> NoTuple]
FactUnits(i, turn, facts) ==
    [n \in 1..Len(facts) |->
        [item |-> i, key |-> FactKey(turn, n, facts[n]), tuple |-> TupleOf[facts[n]]]]

\* A raw turn or a plain memory: nobody looks it up before it is stored.
IsRaw(unit) == unit.key.fact = NoFact

\* The memories of a parsed turn. A turn that yields no fact is stored raw.
Units(i, turn, facts) ==
    IF facts = <<>> THEN <<RawUnit(i, turn)>>
    ELSE (IF options.rawTurn THEN <<RawUnit(i, turn)>> ELSE <<>>) \o FactUnits(i, turn, facts)

\* Mutant: references are not moved to the stored rows.
MutantResolve(ref, base) == ref

\* A reference is the id of a row, or minus the position of a staged memory.
Resolve(ref, base) == IF ref < 0 THEN base - ref ELSE ref

Idle == [at |-> "idle", n |-> 0, items |-> <<>>, part |-> "parser", together |-> FALSE,
         todo |-> <<>>, plan |-> <<>>, staged |-> <<>>, base |-> 0, found |-> {}, out |-> <<>>,
         units |-> {}]

Calls == DOMAIN replies

Init ==
    /\ options \in Options
    /\ rows = <<>>
    /\ index = {}
    /\ embedded = {}
    /\ links = {}
    /\ call = [c \in Clients |-> Idle]
    /\ replies = <<>>
    /\ overlaps = {}
    /\ unmarked = {}

---------------------------------------------------------------------------
(* A request.                                                             *)

\* Positions of the items that go to the parser, and of the others.
ForParser(item) == options.parser /\ item.raw
ParserItems(items) == {i \in 1..Len(items) : ForParser(items[i])}
PlainItems(items) == {i \in 1..Len(items) : ~ForParser(items[i])}

\* The loops visit positions in their order: the one sequence of them that ascends.
InOrder(positions) ==
    {s \in [1..Cardinality(positions) -> positions] :
        /\ \A j, k \in DOMAIN s : j < k => s[j] < s[k]
        /\ \A i \in positions : \E k \in DOMAIN s : s[k] = i}

\* storeBatchWithParser stages the turns together, unless there is only one,
\* or no batch embedder, or its call fails: then they are stored in sequence.
MayStage(items) == Cardinality(ParserItems(items)) > 1 /\ options.batchEmbedder

StoreBatch(c, items) ==
    /\ call[c].at = "idle"
    /\ Len(replies) < MaxCalls
    /\ LET n == Len(replies) + 1
       IN /\ \E together \in IF MayStage(items) THEN BOOLEAN ELSE {FALSE}, turns \in InOrder(ParserItems(items)) :
                call' = [call EXCEPT ![c] =
                    [Idle EXCEPT !.at = "next", !.n = n, !.items = items, !.together = together,
                                 !.todo = turns,
                                 !.out = [i \in 1..Len(items) |-> 0]]]
          /\ replies' = Append(replies, [status |-> "open", items |-> items, out |-> <<>>, units |-> {}])
          /\ overlaps' = overlaps \cup {{n, call[d].n} : d \in {e \in Clients : call[e].at # "idle"}}
    /\ UNCHANGED <<options, rows, index, embedded, links, unmarked>>

\* Mutant: the last memory of an item answers for it.
MutantAnswer(out, i, ref) == [out EXCEPT ![i] = ref]

\* Item i refers to the first memory found or staged for it.
Answer(out, i, ref) == IF out[i] = 0 THEN [out EXCEPT ![i] = ref] ELSE out

Head1(c) == Head(call[c].plan)

\* The parser answers for the next turn, or fails, and its heuristic
\* fallback too: either way facts \in Parses[turn] tells what is to be stored.
ParseNext(c) ==
    /\ call[c].at = "next"
    /\ call[c].plan = <<>>
    /\ call[c].todo # <<>>
    /\ LET i == Head(call[c].todo)
           turn == call[c].items[i].turn
           work == IF call[c].part = "derive"
                   THEN {FactUnits(i, turn, Derived[turn])}
                   ELSE {Units(i, turn, facts) : facts \in Parses[turn]}
       IN \E units \in work :
            call' = [call EXCEPT ![c].todo = Tail(@), ![c].plan = units,
                                 ![c].units = @ \cup {units[u] : u \in 1..Len(units)}]
    /\ UNCHANGED <<options, rows, index, embedded, links, replies, overlaps, unmarked>>

\* After a memory is staged the sequential path writes it at once.
Stage(c, unit) ==
    LET staged == Append(call[c].staged, unit)
    IN call' = [call EXCEPT ![c].plan = Tail(@), ![c].staged = staged,
                            ![c].out = Answer(@, unit.item, -Len(staged)),
                            ![c].found = IF unit.tuple = NoTuple THEN @
                                         ELSE @ \cup {[item |-> unit.item, tuple |-> unit.tuple, ref |-> -Len(staged)]},
                            ![c].at = IF call[c].together THEN "next" ELSE "insert"]

\* Mutant: only new memories get an entity fact.
MutantReuse(c, unit, ref) ==
    call' = [call EXCEPT ![c].plan = Tail(@), ![c].out = Answer(@, unit.item, ref), ![c].at = "next"]

\* A fact that is stored or staged already is linked to that memory.
Reuse(c, unit, ref) ==
    call' = [call EXCEPT ![c].plan = Tail(@),
                         ![c].out = Answer(@, unit.item, ref),
                         ![c].found = IF unit.tuple = NoTuple THEN @
                                      ELSE @ \cup {[item |-> unit.item, tuple |-> unit.tuple, ref |-> ref]},
                         ![c].at = IF call[c].together \/ unit.tuple = NoTuple THEN "next" ELSE "link"]

StageRaw(c) ==
    /\ call[c].at = "next"
    /\ call[c].plan # <<>>
    /\ IsRaw(Head1(c))
    /\ Stage(c, Head1(c))
    /\ UNCHANGED <<options, rows, index, embedded, links, replies, overlaps, unmarked>>

TenantOf(c, i) == call[c].items[i].tenant

\* Mutant: only the repository is asked.
MutantPendingMatches(c, unit) == {}

\* Staged memories of the item's tenant with the unit's key, else with its tuple.
PendingMatches(c, unit) ==
    LET mine == {k \in 1..Len(call[c].staged) :
                    TenantOf(c, call[c].staged[k].item) = TenantOf(c, unit.item)}
        byKey == {k \in mine : call[c].staged[k].key = unit.key}
        byTuple == {k \in mine : unit.tuple # NoTuple /\ call[c].staged[k].tuple = unit.tuple}
    IN IF byKey # {} THEN byKey ELSE byTuple

RowsWithKey(tenant, key) == {r \in 1..Len(rows) : rows[r].tenant = tenant /\ rows[r].key = key}

\* Pending memories first, then the repository by canonical key.
FindByCanonicalKey(c) ==
    /\ call[c].at = "next"
    /\ call[c].plan # <<>>
    /\ ~IsRaw(Head1(c))
    /\ LET unit == Head1(c)
           pending == PendingMatches(c, unit)
           known == RowsWithKey(TenantOf(c, unit.item), unit.key)
       IN \/ pending # {} /\ \E k \in pending : Reuse(c, unit, -k)
          \/ pending = {} /\ \E r \in known : Reuse(c, unit, r)
          \/ /\ pending = {} /\ known = {}
             /\ IF unit.tuple = NoTuple THEN Stage(c, unit) ELSE call' = [call EXCEPT ![c].at = "tuple"]
    /\ UNCHANGED <<options, rows, index, embedded, links, replies, overlaps, unmarked>>

RowsWithTuple(tenant, tuple) ==
    {e.row : e \in {f \in links : f.tenant = tenant /\ f.tuple = tuple /\ tuple # NoTuple}}

\* Then by relation tuple; a fact that nothing states yet becomes a memory.
FindByRelationTuple(c) ==
    /\ call[c].at = "tuple"
    /\ LET unit == Head1(c)
           known == RowsWithTuple(TenantOf(c, unit.item), unit.tuple)
       IN \/ \E r \in known : Reuse(c, unit, r)
          \/ known = {} /\ Stage(c, unit)
    /\ UNCHANGED <<options, rows, index, embedded, links, replies, overlaps, unmarked>>

---------------------------------------------------------------------------
(* Writing what is staged.                                                *)

\* Mutant: a mark does not replace the earlier state.
MutantMark(ix, tenant, ids, state) ==
    ix \cup {[tenant |-> tenant, row |-> r, state |-> state] : r \in ids}

Mark(ix, tenant, ids, state) ==
    {e \in ix : ~(e.tenant = tenant /\ e.row \in ids)}
        \cup {[tenant |-> tenant, row |-> r, state |-> state] : r \in ids}

\* The batch path has staged everything there is.
AllStaged(c) ==
    call[c].at = "next" /\ call[c].plan = <<>> /\ call[c].todo = <<>> /\ call[c].together

\* storeInRepo: one transaction inserts the rows, each with a pending index row.
StoreInRepo(c) ==
    /\ call[c].at = "insert" \/ (AllStaged(c) /\ call[c].staged # <<>>)
    /\ LET staged == call[c].staged
           base == Len(rows)
           made == [k \in 1..Len(staged) |->
                      [tenant |-> TenantOf(c, staged[k].item), key |-> staged[k].key,
                       tuple |-> staged[k].tuple, call |-> call[c].n]]
       IN /\ rows' = rows \o made
          /\ index' = index \cup {[tenant |-> made[k].tenant, row |-> base + k, state |-> "pending"] :
                                    k \in 1..Len(made)}
          /\ call' = [call EXCEPT ![c].at = "upsert", ![c].base = base,
                        ![c].out = [i \in DOMAIN @ |-> Resolve(@[i], base)],
                        ![c].found = {[f EXCEPT !.ref = Resolve(@, base)] : f \in @}]
    /\ UNCHANGED <<options, embedded, links, replies, overlaps, unmarked>>

\* Mutant: the last memory of a batch is forgotten.
MutantInserted(c) == (call[c].base + 1)..(call[c].base + Len(call[c].staged) - 1)

Inserted(c) == (call[c].base + 1)..(call[c].base + Len(call[c].staged))

\* Both marks of upsertStoredEmbeddings name the tenant of the first memory,
\* and each of them may be lost: its error is only logged.
MarkIndexState(c, state) ==
    LET tenant == rows[call[c].base + 1].tenant
    IN \/ /\ index' = Mark(index, tenant, Inserted(c), state)
          /\ UNCHANGED unmarked
       \/ /\ Cardinality(unmarked \cup Inserted(c)) <= MaxUnmarked
          /\ index' \in {index, Mark(index, tenant, Inserted(c), "pending")}
          /\ unmarked' = unmarked \cup Inserted(c)

UpsertStoredEmbeddings(c) ==
    /\ call[c].at = "upsert"
    /\ embedded' = embedded \cup Inserted(c)
    /\ MarkIndexState(c, "indexed")
    /\ call' = [call EXCEPT ![c].staged = <<>>,
                            ![c].at = IF call[c].found = {} THEN "next" ELSE "link",
                            ![c].together = IF call[c].found = {} THEN FALSE ELSE @]
    /\ UNCHANGED <<options, rows, links, replies, overlaps>>

\* storeEntityFacts: the facts found or stored since the last time.
StoreEntityFacts(c) ==
    /\ call[c].at = "link" \/ (AllStaged(c) /\ call[c].staged = <<>>)
    /\ links' = links \cup {[tenant |-> TenantOf(c, f.item), tuple |-> f.tuple, row |-> f.ref] :
                              f \in call[c].found}
    /\ call' = [call EXCEPT ![c].at = "next", ![c].found = {}, ![c].together = FALSE]
    /\ UNCHANGED <<options, rows, index, embedded, replies, overlaps, unmarked>>

---------------------------------------------------------------------------
(* From one part of a request to the next, and its end.                   *)

PartDone(c) ==
    call[c].at = "next" /\ call[c].plan = <<>> /\ call[c].todo = <<>> /\ ~call[c].together

\* storeBatchWithoutParser stages all plain memories for one transaction.
StorePlain(c) ==
    /\ PartDone(c)
    /\ call[c].part = "parser"
    /\ PlainItems(call[c].items) # {}
    /\ \E plain \in InOrder(PlainItems(call[c].items)) :
          LET unit(k) == RawUnit(plain[k], call[c].items[plain[k]].turn)
          IN call' = [call EXCEPT ![c].part = "plain",
                         ![c].staged = [k \in 1..Len(plain) |-> unit(k)],
                         ![c].units = @ \cup {unit(k) : k \in 1..Len(plain)},
                         ![c].out = [i \in DOMAIN @ |->
                              IF \E k \in 1..Len(plain) : plain[k] = i
                              THEN -(CHOOSE k \in 1..Len(plain) : plain[k] = i) ELSE @[i]],
                         ![c].at = "insert"]
    /\ UNCHANGED <<options, rows, index, embedded, links, replies, overlaps, unmarked>>

\* writeCanonicalStructuredDerived for every raw turn among them.
DeriveStructured(c) ==
    /\ PartDone(c)
    /\ call[c].part = "plain"
    /\ \E turns \in InOrder({i \in PlainItems(call[c].items) : call[c].items[i].raw}) :
          call' = [call EXCEPT ![c].part = "derive", ![c].todo = turns]
    /\ UNCHANGED <<options, rows, index, embedded, links, replies, overlaps, unmarked>>

Return(c) ==
    /\ PartDone(c)
    /\ call[c].part = "derive" \/ PlainItems(call[c].items) = {}
    /\ replies' = [replies EXCEPT ![call[c].n] =
                     [@ EXCEPT !.status = "ok", !.out = call[c].out, !.units = call[c].units]]
    /\ call' = [call EXCEPT ![c] = Idle]
    /\ UNCHANGED <<options, rows, index, embedded, links, overlaps, unmarked>>

\* An embedder, a scorer or a repository call fails, or the process ends:
\* the error is returned, or nobody is left to return it.
Fail(c) ==
    /\ call[c].at # "idle"
    /\ replies' = [replies EXCEPT ![call[c].n].status = "failed"]
    /\ call' = [call EXCEPT ![c] = Idle]
    /\ UNCHANGED <<options, rows, index, embedded, links, overlaps, unmarked>>

\* The vector store refuses; a service may have stored the points all the same.
UpsertFails(c) ==
    /\ call[c].at = "upsert"
    /\ embedded' \in {embedded} \cup (IF VectorService THEN {embedded \cup Inserted(c)} ELSE {})
    /\ MarkIndexState(c, "failed")
    /\ replies' = [replies EXCEPT ![call[c].n].status = "failed"]
    /\ call' = [call EXCEPT ![c] = Idle]
    /\ UNCHANGED <<options, rows, links, overlaps>>

ClientStep(c) ==
    \/ \E items \in Batches : StoreBatch(c, items)
    \/ ParseNext(c) \/ StageRaw(c) \/ FindByCanonicalKey(c) \/ FindByRelationTuple(c)
    \/ StoreInRepo(c) \/ UpsertStoredEmbeddings(c) \/ StoreEntityFacts(c)
    \/ StorePlain(c) \/ DeriveStructured(c) \/ Return(c)
    \/ Fail(c) \/ UpsertFails(c)

Next == \E c \in Clients : ClientStep(c)

Spec == Init /\ [][Next]_vars

---------------------------------------------------------------------------
(* Properties.                                                            *)

Ids == 1..Len(rows)

(* Rows, references and history have their shapes, and what a request      *)
(* refers to is stored or staged (store_batch_parser.go, resolution of     *)
(* pending indexes).                                                       *)
TypeOK ==
    /\ options \in Options
    /\ \A r \in Ids : rows[r].tenant \in Tenants /\ rows[r].call \in Calls
    /\ \A e \in index : e.row \in Ids /\ e.tenant \in Tenants
                        /\ e.state \in {"pending", "indexed", "failed"}
    /\ embedded \subseteq Ids /\ unmarked \subseteq Ids
    /\ \A e \in links : e.row \in Ids
    /\ \A c \in Clients : call[c].at # "idle" =>
          /\ call[c].n \in Calls
          /\ \A i \in DOMAIN call[c].out : call[c].out[i] \in (-Len(call[c].staged))..Len(rows)
          /\ \A f \in call[c].found : f.ref # 0 /\ f.ref \in (-Len(call[c].staged))..Len(rows)

(* A successful request answers every item with a memory of that item's    *)
(* tenant: its own row if the turn is stored as it is, else a memory of    *)
(* that turn or one that states a tuple of it (StoreBatch reassembles the  *)
(* results of the two paths; resultRefs and pendingToStored in the batch   *)
(* parser).                                                                *)
AnswersMatchRequests ==
    \A n \in Calls : replies[n].status = "ok" =>
        LET r == replies[n]
        IN \A i \in DOMAIN r.items :
             LET id == r.out[i]  item == r.items[i]
             IN /\ id \in Ids
                /\ rows[id].tenant = item.tenant
                /\ ~ForParser(item) \/ options.rawTurn =>
                      rows[id].key = RawKey(item.turn) /\ rows[id].call = n
                /\ \/ rows[id].key.turn = item.turn
                   \/ \E u \in r.units : u.item = i /\ u.tuple # NoTuple
                          /\ [tenant |-> item.tenant, tuple |-> u.tuple, row |-> id] \in links

(* Every fact a successful request took from a turn is stated by some      *)
(* memory of the tenant and, if it has a tuple, found by that tuple from   *)
(* then on: reusing a pending or stored memory loses none.                 *)
EveryFactIsStated ==
    \A n \in Calls : replies[n].status = "ok" =>
        \A u \in replies[n].units :
            LET tenant == replies[n].items[u.item].tenant
            IN /\ u.tuple = NoTuple => RowsWithKey(tenant, u.key) # {}
               /\ u.tuple # NoTuple => RowsWithTuple(tenant, u.tuple) # {}

Overlapped(n, m) == n # m /\ {n, m} \in overlaps

(* A tenant has one memory for a canonical key unless two requests were    *)
(* served at once, and one for a relation tuple unless moreover a request  *)
(* failed between its row and its entity fact: neither a repeated request, *)
(* nor two equal turns of one batch, duplicate what a turn states.         *)
DuplicatesNeedRaceOrFailure ==
    \A r, s \in Ids :
        r < s /\ rows[r].tenant = rows[s].tenant
              /\ rows[r].key.fact # NoFact /\ rows[s].key.fact # NoFact =>
            /\ rows[r].key = rows[s].key => Overlapped(rows[r].call, rows[s].call)
            /\ rows[r].tuple = rows[s].tuple /\ rows[r].tuple # NoTuple =>
                  \/ Overlapped(rows[r].call, rows[s].call)
                  \/ replies[rows[r].call].status = "failed"

(* A memory lacks its embedding only while its request is served or after  *)
(* that request failed: the row is committed before the vector is written. *)
UnembeddedOnlyAfterFailure ==
    \A r \in Ids : r \notin embedded =>
        \/ replies[rows[r].call].status = "failed"
        \/ \E c \in Clients : call[c].at = "upsert" /\ r \in Inserted(c)

(* The index row of a memory tells the outcome of its request, unless the  *)
(* mark was lost, or the memory was written together with a first memory   *)
(* of another tenant, whose tenant upsertStoredEmbeddings uses for all.    *)
IndexStateTellsOutcome ==
    \A e \in index :
        /\ e.state = "indexed" => e.row \in embedded
        /\ e.state = "failed" => replies[rows[e.row].call].status = "failed"
        /\ /\ e.state = "pending" /\ e.tenant = rows[e.row].tenant
           /\ replies[rows[e.row].call].status = "ok"
           /\ e.row \notin unmarked
           => \E f \in index : f.row = e.row /\ f.tenant # e.tenant /\ f.state = "indexed"

===========================================================================
