-------------------------- MODULE SyncStoreProofs --------------------------
(***************************************************************************)
(* The synchronous store, for any clients, tenants, turns, parsers and     *)
(* batches: its types, and that answers match requests, that no fact is    *)
(* lost, that duplicates need a race or a failure, and that embeddings and *)
(* index rows tell how a request ended.                                    *)
(***************************************************************************)
EXTENDS SyncStore, FiniteSetTheorems, SequenceTheorems, TLAPS

-----------------------------------------------------------------------------
(* Types.                                                                  *)

Steps == {"idle", "next", "tuple", "insert", "upsert", "link"}
Keys == [turn : Turns, n : Nat, fact : Facts \cup {NoFact}]
Tuples == {TupleOf[f] : f \in Facts} \cup {NoTuple}
Unit == [item : Nat, key : Keys, tuple : Tuples]
Found == [item : Nat, tuple : Tuples, ref : Int]

Call == [at : Steps, n : Nat, items : Seq(Item), part : {"parser", "plain", "derive"},
         together : BOOLEAN, todo : Seq(Nat), plan : Seq(Unit), staged : Seq(Unit), base : Nat,
         found : SUBSET Found, out : Seq(Int), units : SUBSET Unit]

Row == [tenant : Tenants, key : Keys, tuple : Tuples, call : Nat]
IndexRow == [tenant : Tenants, row : Nat, state : {"pending", "indexed", "failed"}]
Link == [tenant : Tenants, tuple : Tuples, row : Nat]
Reply == [status : {"open", "ok", "failed"}, items : Seq(Item), out : Seq(Int), units : SUBSET Unit]

Types ==
    /\ options \in Options
    /\ rows \in Seq(Row)
    /\ index \in SUBSET IndexRow
    /\ embedded \in SUBSET Nat
    /\ links \in SUBSET Link
    /\ call \in [Clients -> Call]
    /\ replies \in Seq(Reply)
    /\ unmarked \in SUBSET Nat

-----------------------------------------------------------------------------
(* The course of a request; k is its record.                               *)

UnitOK(k, u) ==
    /\ u.item \in 1..Len(k.items)
    /\ u.key.turn = k.items[u.item].turn
    /\ IsRaw(u) => u.tuple = NoTuple

(* What a request looks like at each of its steps. *)
CourseOK(k) ==
    /\ Len(k.out) = Len(k.items)
    /\ \A j \in 1..Len(k.todo) : k.todo[j] \in 1..Len(k.items)
    /\ \A u \in k.units : UnitOK(k, u)
    /\ \A j \in 1..Len(k.plan) : k.plan[j] \in k.units
    /\ \A j \in 1..Len(k.staged) : UnitOK(k, k.staged[j])
    /\ k.together => k.part = "parser" /\ k.at # "insert"
    /\ k.at \in {"insert", "upsert"} => k.staged # <<>>
    /\ k.at = "tuple" => k.plan # <<>> /\ ~IsRaw(Head(k.plan)) /\ Head(k.plan).tuple # NoTuple
    /\ k.at = "link" \/ (k.at \in {"next", "tuple"} /\ ~k.together) => k.staged = <<>>
    /\ k.at \in {"next", "tuple"} /\ ~k.together => k.found = {}

(* A reference of item i names a row or a staged memory of its tenant. *)
RefOK(k, i, ref) ==
    \/ ref \in Ids /\ rows[ref].tenant = k.items[i].tenant
    \/ /\ -ref \in 1..Len(k.staged)
       /\ k.at # "upsert"
       /\ k.items[k.staged[-ref].item].tenant = k.items[i].tenant

RefsOK(k) ==
    /\ \A f \in k.found : /\ f.item \in 1..Len(k.items)
                          /\ f.tuple # NoTuple
                          /\ RefOK(k, f.item, f.ref)
    /\ \A i \in 1..Len(k.out) : k.out[i] # 0 => RefOK(k, i, k.out[i])

(* What has been inserted is what was staged. *)
InsertedOK(k) ==
    k.at = "upsert" =>
        /\ k.base + Len(k.staged) <= Len(rows)
        /\ \A j \in 1..Len(k.staged) :
              /\ rows[k.base + j].tenant = k.items[k.staged[j].item].tenant
              /\ rows[k.base + j].key = k.staged[j].key
              /\ rows[k.base + j].tuple = k.staged[j].tuple
              /\ rows[k.base + j].call = k.n

(* The reply of a request that is served is open. *)
OpenOK(k) ==
    /\ k.n \in Calls
    /\ replies[k.n].status = "open"
    /\ replies[k.n].items = k.items

CallsOK ==
    /\ \A c \in Clients : call[c].at # "idle" =>
          CourseOK(call[c]) /\ RefsOK(call[c]) /\ InsertedOK(call[c]) /\ OpenOK(call[c])
    /\ \A c, d \in Clients : c # d /\ call[c].at # "idle" /\ call[d].at # "idle" =>
          call[c].n # call[d].n /\ {call[c].n, call[d].n} \in overlaps

StoresOK ==
    /\ \A r \in Ids : rows[r].call \in Calls
    /\ \A e \in index : e.row \in Ids
    /\ embedded \subseteq Ids /\ unmarked \subseteq Ids
    /\ \A e \in links : e.row \in Ids /\ rows[e.row].tenant = e.tenant

Inv == Types /\ CallsOK /\ StoresOK

-----------------------------------------------------------------------------
(* Embeddings and index.                                                   *)

InFlight(r) == \E c \in Clients : call[c].at = "upsert" /\ r \in Inserted(c)
Failed(n) == replies[n].status = "failed"

(* Every memory that is not being embedded has an indexed row that no      *)
(* other row of the same tenant contradicts, or an excuse.                 *)
MarkedOK ==
    \A r \in Ids :
        \/ Failed(rows[r].call) \/ InFlight(r) \/ r \in unmarked
        \/ \E e \in index :
              /\ e.row = r /\ e.state = "indexed"
              /\ \A f \in index : f.row = r /\ f.tenant = e.tenant => f.state = "indexed"

OutcomeOK ==
    \A e \in index :
        /\ e.state = "indexed" => e.row \in embedded
        /\ e.state = "failed" => Failed(rows[e.row].call)

-----------------------------------------------------------------------------
(* Duplicates.                                                             *)

Open == {"next", "tuple", "insert"}

SameTenant(k, u, v) == k.items[u.item].tenant = k.items[v.item].tenant

(* No other memory of the tenant has the key, or the tuple, of a unit. *)
KeyNew(k, u) ==
    \A r \in Ids : rows[r].tenant = k.items[u.item].tenant /\ rows[r].key = u.key =>
        Overlapped(rows[r].call, k.n)
TupleNew(k, u) ==
    \A r \in Ids :
        rows[r].tenant = k.items[u.item].tenant /\ rows[r].tuple = u.tuple /\ u.tuple # NoTuple =>
            Overlapped(rows[r].call, k.n) \/ Failed(rows[r].call)

(* A unit is not among the first n that are staged. *)
NotStaged(k, u, n) ==
    \A j \in 1..n : SameTenant(k, k.staged[j], u) =>
        /\ k.staged[j].key # u.key
        /\ k.staged[j].tuple = u.tuple => u.tuple = NoTuple

FreshOK(k) ==
    k.at \in Open =>
        /\ \A j \in 1..Len(k.staged) : ~IsRaw(k.staged[j]) =>
              /\ KeyNew(k, k.staged[j]) /\ TupleNew(k, k.staged[j])
              /\ NotStaged(k, k.staged[j], j - 1)
        /\ \A j \in 1..Len(k.staged) : k.staged[j].tuple # NoTuple =>
              \E f \in k.found : f.ref = -j /\ f.tuple = k.staged[j].tuple
        /\ k.at = "tuple" => KeyNew(k, Head(k.plan)) /\ NotStaged(k, Head(k.plan), Len(k.staged))

(* The client that still has to link a row. *)
Owes(k, r) ==
    /\ k.at \in {"upsert", "link"}
    /\ k.n = rows[r].call
    /\ \E f \in k.found : f.ref = r /\ f.tuple = rows[r].tuple

LinkedOK ==
    \A r \in Ids : rows[r].tuple # NoTuple =>
        \/ [tenant |-> rows[r].tenant, tuple |-> rows[r].tuple, row |-> r] \in links
        \/ Failed(rows[r].call)
        \/ \E c \in Clients : Owes(call[c], r)

Fresh ==
    /\ \A c \in Clients : call[c].at # "idle" => FreshOK(call[c])
    /\ LinkedOK

-----------------------------------------------------------------------------
(* Facts that are stated, or will be.                                      *)

Stated(k, u) ==
    \/ \E j \in 1..Len(k.plan) : k.plan[j] = u
    \/ /\ u.tuple = NoTuple
       /\ \/ \E j \in 1..Len(k.staged) : k.staged[j].key = u.key /\ SameTenant(k, k.staged[j], u)
          \/ RowsWithKey(k.items[u.item].tenant, u.key) # {}
    \/ /\ u.tuple # NoTuple
       /\ \/ \E f \in k.found : f.tuple = u.tuple /\ SameTenant(k, f, u)
          \/ RowsWithTuple(k.items[u.item].tenant, u.tuple) # {}

StatedOK == \A c \in Clients : call[c].at # "idle" => \A u \in call[c].units : Stated(call[c], u)

-----------------------------------------------------------------------------
(* Answers.                                                                *)

KeyAt(k, ref) == IF ref > 0 THEN rows[ref].key ELSE k.staged[-ref].key

Own(k, i) == ~ForParser(k.items[i]) \/ options.rawTurn

(* Item i is answered by a memory, or has its turn coming. *)
AnswerOK(k, i) ==
    k.out[i] # 0 =>
        /\ Own(k, i) => /\ KeyAt(k, k.out[i]) = RawKey(k.items[i].turn)
                        /\ k.out[i] > 0 => rows[k.out[i]].call = k.n
        /\ \/ KeyAt(k, k.out[i]).turn = k.items[i].turn
           \/ \E u \in k.units :
                 /\ u.item = i /\ u.tuple # NoTuple
                 /\ \/ [tenant |-> k.items[i].tenant, tuple |-> u.tuple, row |-> k.out[i]] \in links
                    \/ [item |-> i, tuple |-> u.tuple, ref |-> k.out[i]] \in k.found

WaitingOK(k, i) ==
    k.out[i] = 0 =>
        /\ k.part = "parser"
        /\ \/ ~ForParser(k.items[i])
           \/ \E j \in 1..Len(k.todo) : k.todo[j] = i
           \/ k.plan # <<>> /\ Head(k.plan).item = i
        /\ k.plan # <<>> /\ Head(k.plan).item = i /\ options.rawTurn =>
              Head(k.plan).key = RawKey(k.items[i].turn)

(* A plan is for one item, in the parser's part for one of the parser's. *)
ParserOK(k) ==
    /\ \A j \in 1..Len(k.plan) : k.plan[j].item = k.plan[1].item
    /\ k.part = "parser" =>
          /\ \A j \in 1..Len(k.todo) : ForParser(k.items[k.todo[j]])
          /\ \A j \in 1..Len(k.plan) : ForParser(k.items[k.plan[j].item])

AnswersFor(k) ==
    /\ ParserOK(k)
    /\ \A i \in 1..Len(k.items) : AnswerOK(k, i) /\ WaitingOK(k, i)

AnswersOK == \A c \in Clients : call[c].at # "idle" => AnswersFor(call[c])

-----------------------------------------------------------------------------
(* How each step changes the record of its request, from k to l.           *)

Others(c) == \A d \in Clients : d # c => call'[d] = call[d]

BeginFields(l, n, items, together, turns) ==
    /\ l.at = "next" /\ l.n = n /\ l.items = items /\ l.part = "parser" /\ l.together = together
    /\ l.todo = turns /\ l.plan = <<>> /\ l.staged = <<>> /\ l.base = 0 /\ l.found = {}
    /\ l.out = [i \in 1..Len(items) |-> 0] /\ l.units = {}

ParseFields(k, l, units) ==
    /\ l.at = k.at /\ l.n = k.n /\ l.items = k.items /\ l.part = k.part /\ l.together = k.together
    /\ l.todo = Tail(k.todo) /\ l.plan = units /\ l.staged = k.staged /\ l.base = k.base
    /\ l.found = k.found /\ l.out = k.out
    /\ l.units = k.units \cup {units[u] : u \in 1..Len(units)}

StageFields(k, l, u) ==
    /\ l.at = IF k.together THEN "next" ELSE "insert"
    /\ l.n = k.n /\ l.items = k.items /\ l.part = k.part /\ l.together = k.together /\ l.todo = k.todo
    /\ l.plan = Tail(k.plan) /\ l.staged = Append(k.staged, u) /\ l.base = k.base
    /\ l.found = IF u.tuple = NoTuple THEN k.found
                 ELSE k.found \cup {[item |-> u.item, tuple |-> u.tuple, ref |-> -Len(Append(k.staged, u))]}
    /\ l.out = Answer(k.out, u.item, -Len(Append(k.staged, u)))
    /\ l.units = k.units

ReuseFields(k, l, u, ref) ==
    /\ l.at = IF k.together \/ u.tuple = NoTuple THEN "next" ELSE "link"
    /\ l.n = k.n /\ l.items = k.items /\ l.part = k.part /\ l.together = k.together /\ l.todo = k.todo
    /\ l.plan = Tail(k.plan) /\ l.staged = k.staged /\ l.base = k.base
    /\ l.found = IF u.tuple = NoTuple THEN k.found
                 ELSE k.found \cup {[item |-> u.item, tuple |-> u.tuple, ref |-> ref]}
    /\ l.out = Answer(k.out, u.item, ref)
    /\ l.units = k.units

TupleFields(k, l) ==
    /\ l.at = "tuple"
    /\ l.n = k.n /\ l.items = k.items /\ l.part = k.part /\ l.together = k.together /\ l.todo = k.todo
    /\ l.plan = k.plan /\ l.staged = k.staged /\ l.base = k.base /\ l.found = k.found
    /\ l.out = k.out /\ l.units = k.units

InsertFields(k, l, base) ==
    /\ l.at = "upsert"
    /\ l.n = k.n /\ l.items = k.items /\ l.part = k.part /\ l.together = k.together /\ l.todo = k.todo
    /\ l.plan = k.plan /\ l.staged = k.staged /\ l.base = base
    /\ l.found = {[f EXCEPT !.ref = Resolve(f.ref, base)] : f \in k.found}
    /\ l.out = [i \in DOMAIN k.out |-> Resolve(k.out[i], base)]
    /\ l.units = k.units

UpsertFields(k, l) ==
    /\ l.at = IF k.found = {} THEN "next" ELSE "link"
    /\ l.n = k.n /\ l.items = k.items /\ l.part = k.part
    /\ l.together = IF k.found = {} THEN FALSE ELSE k.together
    /\ l.todo = k.todo /\ l.plan = k.plan /\ l.staged = <<>> /\ l.base = k.base /\ l.found = k.found
    /\ l.out = k.out /\ l.units = k.units

LinkFields(k, l) ==
    /\ l.at = "next"
    /\ l.n = k.n /\ l.items = k.items /\ l.part = k.part /\ l.together = FALSE
    /\ l.todo = k.todo /\ l.plan = k.plan /\ l.staged = k.staged /\ l.base = k.base /\ l.found = {}
    /\ l.out = k.out /\ l.units = k.units

(* The reference of plain item i, or x, which it had. *)
PlainRef(plain, i, x) ==
    IF \E j \in 1..Len(plain) : plain[j] = i THEN -(CHOOSE j \in 1..Len(plain) : plain[j] = i) ELSE x

PlainFields(k, l, plain) ==
    /\ l.at = "insert"
    /\ l.n = k.n /\ l.items = k.items /\ l.part = "plain" /\ l.together = k.together /\ l.todo = k.todo
    /\ l.plan = k.plan /\ l.base = k.base /\ l.found = k.found
    /\ l.staged = [j \in 1..Len(plain) |-> RawUnit(plain[j], k.items[plain[j]].turn)]
    /\ l.out = [i \in DOMAIN k.out |-> PlainRef(plain, i, k.out[i])]
    /\ l.units = k.units \cup {RawUnit(plain[j], k.items[plain[j]].turn) : j \in 1..Len(plain)}

DeriveFields(k, l, turns) ==
    /\ l.at = k.at
    /\ l.n = k.n /\ l.items = k.items /\ l.part = "derive" /\ l.together = k.together /\ l.todo = turns
    /\ l.plan = k.plan /\ l.staged = k.staged /\ l.base = k.base /\ l.found = k.found
    /\ l.out = k.out /\ l.units = k.units

LEMMA IdleType == Idle \in Call
  BY DEF Idle, Call, Steps

BeginCall(c, n, items, together, turns) ==
    call' = [call EXCEPT ![c] =
                [Idle EXCEPT !.at = "next", !.n = n, !.items = items, !.together = together,
                             !.todo = turns, !.out = [i \in 1..Len(items) |-> 0]]]

LEMMA BeginEffect ==
    ASSUME Types, NEW c \in Clients, NEW items \in Seq(Item), NEW n \in Nat, NEW together \in BOOLEAN,
           NEW turns \in Seq(Nat), BeginCall(c, n, items, together, turns)
    PROVE  /\ BeginFields(call'[c], n, items, together, turns) /\ Others(c)
           /\ call' \in [Clients -> Call]
  <1>1. call \in [Clients -> Call]
    BY DEF Types
  <1>2. [i \in 1..Len(items) |-> 0] \in Seq(Int)
    BY IsASeq, LenProperties
  <1>3. BeginFields(call'[c], n, items, together, turns) /\ Others(c)
    BY <1>1 DEF Call, Idle, BeginFields, Others, BeginCall
  <1> DEFINE out == [i \in 1..Len(items) |-> 0]
             l == [Idle EXCEPT !.at = "next", !.n = n, !.items = items, !.together = together,
                               !.todo = turns, !.out = out]
  <1>4. l \in Call
    <2> HIDE DEF out
    <2> QED
      BY <1>2, IdleType, Zenon DEF Call, Steps, out
  <1> QED
    BY <1>1, <1>3, <1>4 DEF BeginCall

(* An answer is written once, to its item. *)
LEMMA AnswerType ==
    ASSUME NEW out \in Seq(Int), NEW i \in 1..Len(out), NEW ref \in Int
    PROVE  /\ Answer(out, i, ref) \in Seq(Int)
           /\ Len(Answer(out, i, ref)) = Len(out)
           /\ \A j \in 1..Len(out) :
                 Answer(out, i, ref)[j] = IF j = i /\ out[i] = 0 THEN ref ELSE out[j]
  BY ExceptSeq DEF Answer

LEMMA StageEffect ==
    ASSUME Types, NEW c \in Clients, NEW u \in Unit, Stage(c, u), call[c].plan # <<>>,
           u.item \in 1..Len(call[c].out)
    PROVE  /\ StageFields(call[c], call'[c], u) /\ Others(c)
           /\ call' \in [Clients -> Call]
  <1> DEFINE k == call[c]
             staged == Append(k.staged, u)
             out == Answer(k.out, u.item, -Len(staged))
             found == IF u.tuple = NoTuple THEN k.found
                      ELSE k.found \cup {[item |-> u.item, tuple |-> u.tuple, ref |-> -Len(staged)]}
             at == IF k.together THEN "next" ELSE "insert"
  <1>1. call \in [Clients -> Call]
    BY DEF Types
  <1>2. StageFields(call[c], call'[c], u) /\ Others(c)
    BY <1>1 DEF Call, Stage, StageFields, Others
  <1>3. k \in Call /\ k.staged \in Seq(Unit) /\ k.out \in Seq(Int) /\ k.found \in SUBSET Found
        /\ k.plan \in Seq(Unit)
    BY <1>1, Zenon DEF Call
  <1>4. staged \in Seq(Unit) /\ -Len(staged) \in Int
    BY <1>3
  <1>5. out \in Seq(Int)
    <2> HIDE DEF staged
    <2> QED
      BY <1>3, <1>4, AnswerType
  <1>6. found \in SUBSET Found
    <2> HIDE DEF staged
    <2> QED
      BY <1>3, <1>4 DEF Found, Unit
  <1>7. Tail(k.plan) \in Seq(Unit) /\ at \in Steps
    BY <1>3 DEF Steps
  <1>8. call' = [call EXCEPT ![c].plan = Tail(k.plan), ![c].staged = staged, ![c].out = out,
                             ![c].found = found, ![c].at = at]
    BY <1>1 DEF Stage, Call
  <1> HIDE DEF staged, out, found, at
  <1>9. call' = [call EXCEPT ![c] = [call[c] EXCEPT !.plan = Tail(k.plan), !.staged = staged,
                                                    !.out = out, !.found = found, !.at = at]]
    BY <1>1, <1>8, Zenon DEF Call
  <1>10. [k EXCEPT !.plan = Tail(k.plan), !.staged = staged, !.out = out, !.found = found, !.at = at] \in Call
    BY <1>3, <1>4, <1>5, <1>6, <1>7, Zenon DEF Call
  <1> QED
    BY <1>1, <1>2, <1>9, <1>10

LEMMA ReuseEffect ==
    ASSUME Types, NEW c \in Clients, NEW u \in Unit, NEW ref \in Int, Reuse(c, u, ref),
           call[c].plan # <<>>, u.item \in 1..Len(call[c].out)
    PROVE  /\ ReuseFields(call[c], call'[c], u, ref) /\ Others(c)
           /\ call' \in [Clients -> Call]
  <1> DEFINE k == call[c]
             out == Answer(k.out, u.item, ref)
             found == IF u.tuple = NoTuple THEN k.found
                      ELSE k.found \cup {[item |-> u.item, tuple |-> u.tuple, ref |-> ref]}
             at == IF k.together \/ u.tuple = NoTuple THEN "next" ELSE "link"
  <1>1. call \in [Clients -> Call]
    BY DEF Types
  <1>2. ReuseFields(call[c], call'[c], u, ref) /\ Others(c)
    BY <1>1 DEF Call, Reuse, ReuseFields, Others
  <1>3. k \in Call /\ k.out \in Seq(Int) /\ k.found \in SUBSET Found /\ k.plan \in Seq(Unit)
    BY <1>1, Zenon DEF Call
  <1>4. out \in Seq(Int)
    BY <1>3, AnswerType
  <1>5. found \in SUBSET Found
    BY <1>3 DEF Found, Unit
  <1>6. Tail(k.plan) \in Seq(Unit) /\ at \in Steps
    BY <1>3 DEF Steps
  <1>7. call' = [call EXCEPT ![c].plan = Tail(k.plan), ![c].out = out, ![c].found = found, ![c].at = at]
    BY <1>1 DEF Reuse, Call
  <1> HIDE DEF out, found, at
  <1>8. call' = [call EXCEPT ![c] = [call[c] EXCEPT !.plan = Tail(k.plan), !.out = out, !.found = found,
                                                    !.at = at]]
    BY <1>1, <1>7, Zenon DEF Call
  <1>9. [k EXCEPT !.plan = Tail(k.plan), !.out = out, !.found = found, !.at = at] \in Call
    BY <1>3, <1>4, <1>5, <1>6, Zenon DEF Call
  <1> QED
    BY <1>1, <1>2, <1>8, <1>9

LEMMA ParseEffect ==
    ASSUME Types, NEW c \in Clients, NEW units \in Seq(Unit), call[c].todo # <<>>,
           call' = [call EXCEPT ![c].todo = Tail(@), ![c].plan = units,
                                ![c].units = @ \cup {units[u] : u \in 1..Len(units)}]
    PROVE  /\ ParseFields(call[c], call'[c], units) /\ Others(c)
           /\ call' \in [Clients -> Call]
  <1> DEFINE k == call[c]
             all == k.units \cup {units[u] : u \in 1..Len(units)}
  <1>1. call \in [Clients -> Call]
    BY DEF Types
  <1>2. ParseFields(call[c], call'[c], units) /\ Others(c)
    BY <1>1 DEF Call, ParseFields, Others
  <1>3. k \in Call /\ k.todo \in Seq(Nat) /\ k.units \in SUBSET Unit
    BY <1>1, Zenon DEF Call
  <1>4. all \in SUBSET Unit /\ Tail(k.todo) \in Seq(Nat)
    BY <1>3
  <1>5. call' = [call EXCEPT ![c].todo = Tail(k.todo), ![c].plan = units, ![c].units = all]
    BY <1>1 DEF Call
  <1> HIDE DEF all
  <1>6. call' = [call EXCEPT ![c] = [call[c] EXCEPT !.todo = Tail(k.todo), !.plan = units, !.units = all]]
    BY <1>1, <1>5, Zenon DEF Call
  <1>7. [k EXCEPT !.todo = Tail(k.todo), !.plan = units, !.units = all] \in Call
    BY <1>3, <1>4, Zenon DEF Call
  <1> QED
    BY <1>1, <1>2, <1>6, <1>7, Zenon

LEMMA TupleEffect ==
    ASSUME Types, NEW c \in Clients, call' = [call EXCEPT ![c].at = "tuple"]
    PROVE  /\ TupleFields(call[c], call'[c]) /\ Others(c)
           /\ call' \in [Clients -> Call]
  <1>1. call \in [Clients -> Call]
    BY DEF Types
  <1>2. call' = [call EXCEPT ![c] = [call[c] EXCEPT !.at = "tuple"]]
    BY <1>1 DEF Call
  <1>3. [call[c] EXCEPT !.at = "tuple"] \in Call
    <2>1. call[c] \in Call
      BY <1>1
    <2> QED
      BY <2>1 DEF Call, Steps
  <1>4. TupleFields(call[c], call'[c]) /\ Others(c)
    BY <1>1 DEF Call, TupleFields, Others
  <1> QED
    BY <1>1, <1>2, <1>3, <1>4

(* A resolved reference. *)
LEMMA ResolveType ==
    ASSUME NEW ref \in Int, NEW base \in Nat
    PROVE  Resolve(ref, base) = (IF ref < 0 THEN base - ref ELSE ref) /\ Resolve(ref, base) \in Int
  BY DEF Resolve

LEMMA FoundUpdate ==
    ASSUME NEW f \in Found, NEW x \in Int
    PROVE  /\ [f EXCEPT !.ref = x] \in Found
           /\ [f EXCEPT !.ref = x].item = f.item /\ [f EXCEPT !.ref = x].tuple = f.tuple
           /\ [f EXCEPT !.ref = x].ref = x
  BY DEF Found

InsertCall(c, base) ==
    call' = [call EXCEPT ![c].at = "upsert", ![c].base = base,
                         ![c].out = [i \in DOMAIN @ |-> Resolve(@[i], base)],
                         ![c].found = {[f EXCEPT !.ref = Resolve(@, base)] : f \in @}]

UpsertCall(c) ==
    call' = [call EXCEPT ![c].staged = <<>>,
                         ![c].at = IF call[c].found = {} THEN "next" ELSE "link",
                         ![c].together = IF call[c].found = {} THEN FALSE ELSE @]

LEMMA InsertEffect ==
    ASSUME Types, NEW c \in Clients, NEW base \in Nat,
           InsertCall(c, base)
    PROVE  /\ InsertFields(call[c], call'[c], base) /\ Others(c)
           /\ call' \in [Clients -> Call]
  <1> DEFINE k == call[c]
             out == [i \in DOMAIN k.out |-> Resolve(k.out[i], base)]
             found == {[f EXCEPT !.ref = Resolve(f.ref, base)] : f \in k.found}
  <1>1. call \in [Clients -> Call]
    BY DEF Types
  <1>2. k \in Call /\ k.out \in Seq(Int) /\ k.found \in SUBSET Found
    BY <1>1 DEF Call
  <1>3. call' = [call EXCEPT ![c].at = "upsert", ![c].base = base, ![c].out = out, ![c].found = found]
    BY <1>1, Zenon DEF Call, InsertCall
  <1>4. out \in Seq(Int)
    <2>1. ASSUME NEW i \in 1..Len(k.out) PROVE Resolve(k.out[i], base) \in Int
      <3>1. k.out[i] \in Int
        BY <1>2, ElementOfSeq
      <3> QED
        BY <3>1, ResolveType, Zenon
    <2>2. DOMAIN k.out = 1..Len(k.out) /\ Len(k.out) \in Nat
      BY <1>2
    <2> QED
      BY <2>1, <2>2, IsASeq
  <1>5. found \in SUBSET Found
    <2>1. \A f \in k.found : f \in Found /\ f.ref \in Int
      BY <1>2 DEF Found
    <2> QED
      BY <2>1, ResolveType, FoundUpdate
  <1> HIDE DEF out, found
  <1>6. call' = [call EXCEPT ![c] = [call[c] EXCEPT !.at = "upsert", !.base = base, !.out = out,
                                                    !.found = found]]
    BY <1>1, <1>3, Zenon DEF Call
  <1>7. [k EXCEPT !.at = "upsert", !.base = base, !.out = out, !.found = found] \in Call
    BY <1>2, <1>4, <1>5, Zenon DEF Call, Steps
  <1>8. InsertFields(call[c], call'[c], base) /\ Others(c)
    BY <1>1, <1>6, <1>2 DEF Call, InsertFields, Others, out, found
  <1> QED
    BY <1>1, <1>6, <1>7, <1>8

LEMMA UpsertEffect ==
    ASSUME Types, NEW c \in Clients,
           UpsertCall(c)
    PROVE  /\ UpsertFields(call[c], call'[c]) /\ Others(c)
           /\ call' \in [Clients -> Call]
  <1> DEFINE k == call[c]
             at == IF k.found = {} THEN "next" ELSE "link"
             together == IF k.found = {} THEN FALSE ELSE k.together
  <1>1. call \in [Clients -> Call]
    BY DEF Types
  <1>2. k \in Call /\ at \in Steps /\ together \in BOOLEAN /\ <<>> \in Seq(Unit)
    <2>1. k \in Call /\ <<>> \in Seq(Unit)
      BY <1>1
    <2>2. at \in Steps
      BY DEF Steps
    <2>3. together \in BOOLEAN
      BY <2>1, Zenon DEF Call
    <2> QED
      BY <2>1, <2>2, <2>3, Zenon
  <1>3. call' = [call EXCEPT ![c].staged = <<>>, ![c].at = at, ![c].together = together]
    BY <1>1, Zenon DEF Call, UpsertCall
  <1> HIDE DEF at, together
  <1>4. UpsertFields(call[c], call'[c]) /\ Others(c)
    <2>1. /\ call'[c].at = at /\ call'[c].together = together /\ call'[c].staged = <<>>
          /\ call'[c].n = k.n /\ call'[c].items = k.items /\ call'[c].part = k.part /\ call'[c].todo = k.todo
          /\ call'[c].plan = k.plan /\ call'[c].base = k.base /\ call'[c].found = k.found
          /\ call'[c].out = k.out /\ call'[c].units = k.units
      BY <1>1, <1>3 DEF Call
    <2>2. Others(c)
      BY <1>1, <1>3 DEF Others
    <2> QED
      BY <2>1, <2>2 DEF UpsertFields, at, together
  <1>5. call' = [call EXCEPT ![c] = [call[c] EXCEPT !.staged = <<>>, !.at = at, !.together = together]]
    BY <1>1, <1>3, Zenon DEF Call
  <1>6. [k EXCEPT !.staged = <<>>, !.at = at, !.together = together] \in Call
    BY <1>2, Zenon DEF Call
  <1> QED
    BY <1>1, <1>4, <1>5, <1>6

LEMMA LinkEffect ==
    ASSUME Types, NEW c \in Clients,
           call' = [call EXCEPT ![c].at = "next", ![c].found = {}, ![c].together = FALSE]
    PROVE  /\ LinkFields(call[c], call'[c]) /\ Others(c)
           /\ call' \in [Clients -> Call]
  <1>1. call \in [Clients -> Call]
    BY DEF Types
  <1>2. call' = [call EXCEPT ![c] = [call[c] EXCEPT !.at = "next", !.found = {}, !.together = FALSE]]
    BY <1>1, Zenon DEF Call
  <1>3. [call[c] EXCEPT !.at = "next", !.found = {}, !.together = FALSE] \in Call
    <2>1. call[c] \in Call
      BY <1>1
    <2> QED
      BY <2>1 DEF Call, Steps
  <1>4. LinkFields(call[c], call'[c]) /\ Others(c)
    BY <1>1 DEF Call, LinkFields, Others
  <1> QED
    BY <1>1, <1>2, <1>3, <1>4

LEMMA DeriveEffect ==
    ASSUME Types, NEW c \in Clients, NEW turns \in Seq(Nat),
           call' = [call EXCEPT ![c].part = "derive", ![c].todo = turns]
    PROVE  /\ DeriveFields(call[c], call'[c], turns) /\ Others(c)
           /\ call' \in [Clients -> Call]
  <1>1. call \in [Clients -> Call]
    BY DEF Types
  <1>2. call' = [call EXCEPT ![c] = [call[c] EXCEPT !.part = "derive", !.todo = turns]]
    BY <1>1, Zenon DEF Call
  <1>3. [call[c] EXCEPT !.part = "derive", !.todo = turns] \in Call
    BY <1>1, Zenon DEF Call
  <1>4. DeriveFields(call[c], call'[c], turns) /\ Others(c)
    BY <1>1 DEF Call, DeriveFields, Others
  <1> QED
    BY <1>1, <1>2, <1>3, <1>4

LEMMA EndEffect ==
    ASSUME Types, NEW c \in Clients, call' = [call EXCEPT ![c] = Idle]
    PROVE  call'[c] = Idle /\ Others(c) /\ call' \in [Clients -> Call]
  BY IdleType DEF Types, Others

PlainCall(c, plain) ==
    LET unit(k) == RawUnit(plain[k], call[c].items[plain[k]].turn)
    IN call' = [call EXCEPT ![c].part = "plain",
                   ![c].staged = [k \in 1..Len(plain) |-> unit(k)],
                   ![c].units = @ \cup {unit(k) : k \in 1..Len(plain)},
                   ![c].out = [i \in DOMAIN @ |->
                        IF \E k \in 1..Len(plain) : plain[k] = i
                        THEN -(CHOOSE k \in 1..Len(plain) : plain[k] = i) ELSE @[i]],
                   ![c].at = "insert"]

LEMMA RawUnitType ==
    ASSUME NEW i \in Nat, NEW turn \in Turns
    PROVE  /\ RawUnit(i, turn) \in Unit /\ RawUnit(i, turn).item = i
           /\ RawUnit(i, turn).key = RawKey(turn) /\ RawUnit(i, turn).tuple = NoTuple
           /\ RawUnit(i, turn).key.turn = turn /\ IsRaw(RawUnit(i, turn))
  BY DEF RawUnit, RawKey, Unit, Keys, Tuples, IsRaw

LEMMA PlainOut ==
    ASSUME NEW plain \in Seq(Nat), NEW x \in Int, NEW i, NEW y, y = PlainRef(plain, i, x)
    PROVE  /\ y \in Int
           /\ (\E j \in 1..Len(plain) : plain[j] = i) => -y \in 1..Len(plain) /\ plain[-y] = i
           /\ ~(\E j \in 1..Len(plain) : plain[j] = i) => y = x
  <1>1. CASE \E j \in 1..Len(plain) : plain[j] = i
    <2> DEFINE j == CHOOSE j \in 1..Len(plain) : plain[j] = i
    <2>1. j \in 1..Len(plain) /\ plain[j] = i
      BY <1>1
    <2> HIDE DEF j
    <2>2. y = -j
      BY <1>1 DEF j, PlainRef
    <2> QED
      BY <1>1, <2>1, <2>2
  <1> QED
    BY <1>1 DEF PlainRef

LEMMA PlainEffect ==
    ASSUME Types, NEW c \in Clients, NEW plain \in Seq(Nat), PlainCall(c, plain),
           \A j \in 1..Len(plain) : plain[j] \in 1..Len(call[c].items)
    PROVE  /\ PlainFields(call[c], call'[c], plain) /\ Others(c)
           /\ call' \in [Clients -> Call]
  <1> DEFINE k == call[c]
             unit(j) == RawUnit(plain[j], k.items[plain[j]].turn)
             staged == [j \in 1..Len(plain) |-> unit(j)]
             units == k.units \cup {unit(j) : j \in 1..Len(plain)}
             outAt(i) == PlainRef(plain, i, k.out[i])
             out == [i \in DOMAIN k.out |-> outAt(i)]
  <1>1. call \in [Clients -> Call]
    BY DEF Types
  <1>2. k \in Call /\ k.out \in Seq(Int) /\ k.units \in SUBSET Unit /\ k.items \in Seq(Item)
    BY <1>1 DEF Call
  <1>3. call' = [call EXCEPT ![c].part = "plain", ![c].staged = staged, ![c].units = units,
                             ![c].out = out, ![c].at = "insert"]
    BY <1>1, Zenon DEF Call, PlainCall, PlainRef
  <1>4. \A j \in 1..Len(plain) : unit(j) \in Unit
    <2> SUFFICES ASSUME NEW j \in 1..Len(plain) PROVE unit(j) \in Unit
      OBVIOUS
    <2>1. plain[j] \in Nat /\ k.items[plain[j]] \in Item
      BY <1>2, ElementOfSeq, Zenon
    <2> QED
      BY <2>1, RawUnitType DEF Item
  <1>5. staged \in Seq(Unit) /\ units \in SUBSET Unit
    <2> HIDE DEF unit
    <2> QED
      BY <1>2, <1>4, IsASeq
  <1>6. out \in Seq(Int)
    <2>1. ASSUME NEW i \in 1..Len(k.out) PROVE outAt(i) \in Int
      <3>1. k.out[i] \in Int
        BY <1>2, ElementOfSeq
      <3> QED
        BY <3>1, PlainOut
    <2>2. DOMAIN k.out = 1..Len(k.out) /\ Len(k.out) \in Nat
      BY <1>2
    <2> HIDE DEF outAt
    <2> QED
      BY <2>1, <2>2, IsASeq
  <1>7. PlainFields(call[c], call'[c], plain) /\ Others(c)
    <2>1. /\ PlainFields(call[c], call'[c], plain) <=>
             /\ call'[c].at = "insert" /\ call'[c].n = k.n /\ call'[c].items = k.items
             /\ call'[c].part = "plain" /\ call'[c].together = k.together /\ call'[c].todo = k.todo
             /\ call'[c].plan = k.plan /\ call'[c].base = k.base /\ call'[c].found = k.found
             /\ call'[c].staged = staged /\ call'[c].out = out /\ call'[c].units = units
      BY DEF PlainFields
    <2> HIDE DEF staged, out, units
    <2> QED
      BY <1>1, <1>3, <2>1 DEF Call, Others
  <1> HIDE DEF staged, out, units
  <1>8. call' = [call EXCEPT ![c] = [call[c] EXCEPT !.part = "plain", !.staged = staged, !.units = units,
                                                    !.out = out, !.at = "insert"]]
    BY <1>1, <1>3, Zenon DEF Call
  <1>9. [k EXCEPT !.part = "plain", !.staged = staged, !.units = units, !.out = out, !.at = "insert"] \in Call
    BY <1>2, <1>5, <1>6, Zenon DEF Call, Steps
  <1> QED
    BY <1>1, <1>7, <1>8, <1>9

(* Positions in their order. *)
LEMMA InOrderType ==
    ASSUME NEW n \in Nat, NEW positions \in SUBSET (1..n), NEW s \in InOrder(positions)
    PROVE  /\ s \in Seq(Nat)
           /\ \A j \in 1..Len(s) : s[j] \in positions
           /\ \A i \in positions : \E j \in 1..Len(s) : s[j] = i
  <1>1. Cardinality(positions) \in Nat
    <2>1. IsFiniteSet(1..n)
      BY FS_Interval
    <2>2. IsFiniteSet(positions)
      BY <2>1, FS_Subset, Zenon
    <2> QED
      BY <2>2, FS_CardinalityType, Zenon
  <1>2. s \in [1..Cardinality(positions) -> positions] /\ \A i \in positions : \E j \in DOMAIN s : s[j] = i
    BY DEF InOrder
  <1>3. s \in Seq(Nat) /\ Len(s) = Cardinality(positions)
    <2> DEFINE m == Cardinality(positions)
    <2>a. m \in Nat /\ s \in [1..m -> positions]
      BY <1>1, <1>2
    <2> HIDE DEF m
    <2>b. positions \subseteq Nat
      OBVIOUS
    <2>1. m \in Nat /\ s \in [1..m -> Nat]
      BY <2>a, <2>b, Zenon
    <2>2. s \in Seq(Nat) /\ Len(s) = m
      BY <2>1, SeqDef
    <2> QED
      BY <2>2 DEF m
  <1> QED
    BY <1>2, <1>3, Zenon

(* The memories of a parsed turn. *)
TurnUnits(i, turn, units) ==
    /\ units \in Seq(Unit)
    /\ \A j \in 1..Len(units) : /\ units[j].item = i /\ units[j].key.turn = turn
                                /\ IsRaw(units[j]) => units[j].tuple = NoTuple

LEMMA FactUnitsType ==
    ASSUME NEW i \in Nat, NEW turn \in Turns, NEW facts \in Seq(Facts)
    PROVE  TurnUnits(i, turn, FactUnits(i, turn, facts))
           /\ Len(FactUnits(i, turn, facts)) = Len(facts)
  <1> DEFINE unit(j) == [item |-> i, key |-> FactKey(turn, j, facts[j]), tuple |-> TupleOf[facts[j]]]
  <1>1. ASSUME NEW j \in 1..Len(facts)
        PROVE  /\ unit(j) \in Unit /\ unit(j).item = i /\ unit(j).key.turn = turn
               /\ ~IsRaw(unit(j))
    <2>1. facts[j] \in Facts /\ j \in Nat
      BY ElementOfSeq
    <2>2. FactKey(turn, j, facts[j]) \in Keys /\ FactKey(turn, j, facts[j]).turn = turn
          /\ FactKey(turn, j, facts[j]).fact = facts[j]
      BY <2>1 DEF FactKey, Keys
    <2>3. TupleOf[facts[j]] \in Tuples
      BY <2>1 DEF Tuples
    <2> QED
      BY <2>1, <2>2, <2>3, StoreAssumption DEF Unit, IsRaw
  <1>2. FactUnits(i, turn, facts) = [j \in 1..Len(facts) |-> unit(j)]
    BY DEF FactUnits
  <1>3. Len(facts) \in Nat
    OBVIOUS
  <1> HIDE DEF unit
  <1>4. [j \in 1..Len(facts) |-> unit(j)] \in Seq(Unit) /\ Len([j \in 1..Len(facts) |-> unit(j)]) = Len(facts)
    BY <1>1, <1>3, IsASeq
  <1> QED
    BY <1>1, <1>2, <1>4 DEF TurnUnits

LEMMA UnitsType ==
    ASSUME NEW i \in Nat, NEW turn \in Turns, NEW facts \in Seq(Facts)
    PROVE  /\ TurnUnits(i, turn, Units(i, turn, facts))
           /\ Units(i, turn, facts) # <<>>
           /\ options.rawTurn => Head(Units(i, turn, facts)) = RawUnit(i, turn)
  <1> DEFINE raw == <<RawUnit(i, turn)>>
             rest == FactUnits(i, turn, facts)
  <1>1. TurnUnits(i, turn, raw) /\ raw \in Seq(Unit) /\ Len(raw) = 1 /\ Head(raw) = RawUnit(i, turn)
    BY RawUnitType DEF TurnUnits
  <1>2. TurnUnits(i, turn, rest) /\ rest \in Seq(Unit) /\ Len(rest) = Len(facts)
    BY FactUnitsType DEF TurnUnits
  <1>3. CASE facts = <<>>
    BY <1>1, <1>3 DEF Units
  <1>4. CASE facts # <<>> /\ options.rawTurn
    <2>1. Units(i, turn, facts) = raw \o rest
      BY <1>4 DEF Units
    <2> HIDE DEF raw, rest
    <2>2. /\ raw \o rest \in Seq(Unit) /\ Len(raw \o rest) = 1 + Len(rest)
          /\ (raw \o rest)[1] = raw[1]
          /\ \A j \in 2..Len(raw \o rest) : (raw \o rest)[j] = rest[j - 1]
      BY <1>1, <1>2, ConcatProperties
    <2>3. TurnUnits(i, turn, raw \o rest)
      BY <1>1, <1>2, <2>2 DEF TurnUnits
    <2>4. raw[1] = RawUnit(i, turn)
      BY DEF raw
    <2>5. raw \o rest # <<>> /\ Head(raw \o rest) = RawUnit(i, turn)
      BY <1>2, <2>2, <2>4
    <2> QED
      BY <1>4, <2>1, <2>3, <2>5
  <1>5. CASE facts # <<>> /\ ~options.rawTurn
    <2>1. Units(i, turn, facts) = <<>> \o rest
      BY <1>5 DEF Units
    <2> HIDE DEF rest
    <2>2. <<>> \o rest = rest
      BY <1>2
    <2>3. rest # <<>>
      BY <1>2, <1>5
    <2> QED
      BY <1>2, <1>5, <2>1, <2>2, <2>3
  <1> QED
    BY <1>3, <1>4, <1>5

-----------------------------------------------------------------------------
(* The steps that change a request's record, by their effect on it.        *)

Quiet == UNCHANGED <<options, rows, index, embedded, links, replies, overlaps, unmarked>>

Begins(c, items, together, turns) ==
    /\ call[c].at = "idle"
    /\ turns \in Seq(Nat)
    /\ \A j \in 1..Len(turns) : turns[j] \in ParserItems(items)
    /\ \A i \in ParserItems(items) : \E j \in 1..Len(turns) : turns[j] = i
    /\ BeginFields(call'[c], Len(replies) + 1, items, together, turns)
    /\ replies' = Append(replies, [status |-> "open", items |-> items, out |-> <<>>, units |-> {}])
    /\ overlaps' = overlaps \cup {{Len(replies) + 1, call[d].n} : d \in {e \in Clients : call[e].at # "idle"}}
    /\ UNCHANGED <<options, rows, index, embedded, links, unmarked>>

ParsesTurn(c, units) ==
    /\ call[c].at = "next" /\ call[c].plan = <<>> /\ call[c].todo # <<>>
    /\ ParseFields(call[c], call'[c], units)
    /\ LET i == Head(call[c].todo)
           turn == call[c].items[i].turn
       IN /\ TurnUnits(i, turn, units)
          /\ call[c].part # "derive" => /\ units # <<>>
                                        /\ options.rawTurn => Head(units) = RawUnit(i, turn)
    /\ Quiet

(* The head of the plan is worked on. *)
AtHead(c) == call[c].plan # <<>> /\ call[c].at \in {"next", "tuple"}

Stages(c) ==
    /\ AtHead(c)
    /\ StageFields(call[c], call'[c], Head1(c))
    /\ call[c].at = "next" => \/ IsRaw(Head1(c))
                              \/ /\ PendingMatches(c, Head1(c)) = {}
                                 /\ RowsWithKey(TenantOf(c, Head1(c).item), Head1(c).key) = {}
                                 /\ Head1(c).tuple = NoTuple
    /\ call[c].at = "tuple" => RowsWithTuple(TenantOf(c, Head1(c).item), Head1(c).tuple) = {}
    /\ Quiet

(* A fact reuses a staged memory or a row with its key, or one with its tuple. *)
Reusable(c, u, ref) ==
    \/ -ref \in PendingMatches(c, u)
    \/ ref \in RowsWithKey(TenantOf(c, u.item), u.key)
    \/ ref \in RowsWithTuple(TenantOf(c, u.item), u.tuple)

Reuses(c, ref) ==
    /\ AtHead(c)
    /\ ~IsRaw(Head1(c))
    /\ ref \in Int
    /\ ReuseFields(call[c], call'[c], Head1(c), ref)
    /\ Reusable(c, Head1(c), ref)
    /\ Quiet

AsksTuple(c) ==
    /\ call[c].at = "next" /\ call[c].plan # <<>> /\ ~IsRaw(Head1(c)) /\ Head1(c).tuple # NoTuple
    /\ PendingMatches(c, Head1(c)) = {}
    /\ RowsWithKey(TenantOf(c, Head1(c).item), Head1(c).key) = {}
    /\ TupleFields(call[c], call'[c])
    /\ Quiet

(* The rows of what is staged. *)
Made(k) ==
    [j \in 1..Len(k.staged) |->
        [tenant |-> k.items[k.staged[j].item].tenant, key |-> k.staged[j].key,
         tuple |-> k.staged[j].tuple, call |-> k.n]]

PendingRows(k, base) ==
    {[tenant |-> k.items[k.staged[j].item].tenant, row |-> base + j, state |-> "pending"] :
        j \in 1..Len(k.staged)}

Inserts(c) ==
    /\ call[c].staged # <<>>
    /\ call[c].at = "insert" \/ AllStaged(c)
    /\ InsertFields(call[c], call'[c], Len(rows))
    /\ rows' = rows \o Made(call[c])
    /\ index' = index \cup PendingRows(call[c], Len(rows))
    /\ UNCHANGED <<options, embedded, links, replies, overlaps, unmarked>>

Upserts(c) ==
    /\ call[c].at = "upsert"
    /\ UpsertFields(call[c], call'[c])
    /\ embedded' = embedded \cup Inserted(c)
    /\ MarkIndexState(c, "indexed")
    /\ UNCHANGED <<options, rows, links, replies, overlaps>>

StoresFacts(c) ==
    /\ call[c].at = "link" \/ (AllStaged(c) /\ call[c].staged = <<>>)
    /\ LinkFields(call[c], call'[c])
    /\ links' = links \cup {[tenant |-> TenantOf(c, f.item), tuple |-> f.tuple, row |-> f.ref] :
                              f \in call[c].found}
    /\ UNCHANGED <<options, rows, index, embedded, replies, overlaps, unmarked>>

StagesPlain(c, plain) ==
    /\ PartDone(c) /\ call[c].part = "parser"
    /\ plain \in Seq(Nat) /\ plain # <<>>
    /\ \A j \in 1..Len(plain) : plain[j] \in PlainItems(call[c].items)
    /\ \A i \in PlainItems(call[c].items) : \E j \in 1..Len(plain) : plain[j] = i
    /\ PlainFields(call[c], call'[c], plain)
    /\ Quiet

Derives(c, turns) ==
    /\ PartDone(c) /\ call[c].part = "plain"
    /\ turns \in Seq(Nat)
    /\ \A j \in 1..Len(turns) : turns[j] \in PlainItems(call[c].items)
    /\ DeriveFields(call[c], call'[c], turns)
    /\ Quiet

Returns(c) ==
    /\ PartDone(c)
    /\ call[c].part = "derive" \/ PlainItems(call[c].items) = {}
    /\ call'[c] = Idle
    /\ replies' = [replies EXCEPT ![call[c].n] =
                     [@ EXCEPT !.status = "ok", !.out = call[c].out, !.units = call[c].units]]
    /\ UNCHANGED <<options, rows, index, embedded, links, overlaps, unmarked>>

Fails(c) ==
    /\ call[c].at # "idle"
    /\ call'[c] = Idle
    /\ replies' = [replies EXCEPT ![call[c].n].status = "failed"]
    /\ \/ UNCHANGED <<index, embedded, unmarked>>
       \/ /\ call[c].at = "upsert"
          /\ embedded' = embedded \/ embedded' = embedded \cup Inserted(c)
          /\ MarkIndexState(c, "failed")
    /\ UNCHANGED <<options, rows, links, overlaps>>

Change(c) ==
    \/ \E items \in Batches, together \in BOOLEAN, turns \in Seq(Nat) : Begins(c, items, together, turns)
    \/ \E units \in Seq(Unit) : ParsesTurn(c, units)
    \/ Stages(c)
    \/ \E ref \in Int : Reuses(c, ref)
    \/ AsksTuple(c) \/ Inserts(c) \/ Upserts(c) \/ StoresFacts(c)
    \/ \E plain \in Seq(Nat) : StagesPlain(c, plain)
    \/ \E turns \in Seq(Nat) : Derives(c, turns)
    \/ Returns(c) \/ Fails(c)

(* The step of one client: the records of the others stay, and its own     *)
(* changes in one of these ways.                                           *)
Changes(c) == Others(c) /\ call' \in [Clients -> Call] /\ Change(c)

LEMMA ItemsType ==
    ASSUME Types, NEW c \in Clients
    PROVE  /\ call[c] \in Call
           /\ call[c].items \in Seq(Item) /\ call[c].todo \in Seq(Nat) /\ call[c].plan \in Seq(Unit)
           /\ call[c].staged \in Seq(Unit) /\ call[c].out \in Seq(Int) /\ call[c].n \in Nat
           /\ call[c].base \in Nat /\ call[c].found \in SUBSET Found /\ call[c].units \in SUBSET Unit
  BY DEF Types, Call

LEMMA BatchItems ==
    ASSUME NEW items \in Batches
    PROVE  items \in Seq(Item) /\ items # <<>> /\ Len(items) \in Nat
  BY StoreAssumption

LEMMA StoreBatchChange ==
    ASSUME Inv, NEW c \in Clients, NEW items \in Batches, StoreBatch(c, items)
    PROVE  Changes(c)
  <1>1. Types /\ replies \in Seq(Reply) /\ Len(replies) + 1 \in Nat
    BY DEF Inv, Types
  <1>2. items \in Seq(Item) /\ Len(items) \in Nat
    BY BatchItems
  <1> DEFINE n == Len(replies) + 1
  <1>3. PICK together \in BOOLEAN, turns \in InOrder(ParserItems(items)) :
           BeginCall(c, n, items, together, turns)
    BY Zenon DEF StoreBatch, BeginCall
  <1>4. ParserItems(items) \in SUBSET (1..Len(items))
    BY DEF ParserItems
  <1>5. /\ turns \in Seq(Nat)
        /\ \A j \in 1..Len(turns) : turns[j] \in ParserItems(items)
        /\ \A i \in ParserItems(items) : \E j \in 1..Len(turns) : turns[j] = i
    BY <1>2, <1>4, InOrderType, Zenon
  <1>6. /\ BeginFields(call'[c], n, items, together, turns) /\ Others(c)
        /\ call' \in [Clients -> Call]
    BY <1>1, <1>2, <1>3, <1>5, BeginEffect, Zenon
  <1>7. /\ call[c].at = "idle"
        /\ replies' = Append(replies, [status |-> "open", items |-> items, out |-> <<>>, units |-> {}])
        /\ overlaps' = overlaps \cup {{n, call[d].n} : d \in {e \in Clients : call[e].at # "idle"}}
        /\ UNCHANGED <<options, rows, index, embedded, links, unmarked>>
    BY DEF StoreBatch
  <1>8. Begins(c, items, together, turns)
    BY <1>5, <1>6, <1>7, Zenon DEF Begins
  <1> QED
    BY <1>5, <1>6, <1>8, Zenon DEF Changes, Change

LEMMA HeadUnit ==
    ASSUME Types, NEW c \in Clients, CourseOK(call[c]), call[c].plan # <<>>
    PROVE  /\ Head1(c) \in Unit /\ Head1(c) \in call[c].units /\ UnitOK(call[c], Head1(c))
           /\ Head1(c).item \in 1..Len(call[c].out)
  <1>1. call[c].plan \in Seq(Unit)
    BY ItemsType
  <1>2. Head1(c) = call[c].plan[1] /\ 1 \in 1..Len(call[c].plan)
    BY <1>1 DEF Head1
  <1>3. Head1(c) \in Unit
    BY <1>1, <1>2, ElementOfSeq
  <1> QED
    BY <1>2, <1>3, Zenon DEF CourseOK, UnitOK

LEMMA ParseNextChange ==
    ASSUME Inv, NEW c \in Clients, ParseNext(c)
    PROVE  Changes(c)
  <1> DEFINE i == Head(call[c].todo)
             turn == call[c].items[i].turn
  <1>1. Types /\ call[c].at = "next" /\ call[c].plan = <<>> /\ call[c].todo # <<>> /\ CourseOK(call[c])
    BY DEF ParseNext, Inv, CallsOK
  <1>2. i \in Nat /\ turn \in Turns
    <2>1. call[c].todo \in Seq(Nat) /\ call[c].items \in Seq(Item)
      BY <1>1, ItemsType
    <2>2. i = call[c].todo[1] /\ 1 \in 1..Len(call[c].todo)
      BY <1>1, <2>1
    <2>3. i \in 1..Len(call[c].items)
      BY <1>1, <2>2 DEF CourseOK
    <2>4. call[c].items[i] \in Item
      BY <2>1, <2>3, ElementOfSeq
    <2> QED
      BY <2>3, <2>4 DEF Item
  <1>3. PICK units \in (IF call[c].part = "derive" THEN {FactUnits(i, turn, Derived[turn])}
                        ELSE {Units(i, turn, facts) : facts \in Parses[turn]}) :
           call' = [call EXCEPT ![c].todo = Tail(@), ![c].plan = units,
                                ![c].units = @ \cup {units[u] : u \in 1..Len(units)}]
    BY Zenon DEF ParseNext
  <1>4. /\ TurnUnits(i, turn, units)
        /\ call[c].part # "derive" => /\ units # <<>>
                                      /\ options.rawTurn => Head(units) = RawUnit(i, turn)
    <2>1. CASE call[c].part = "derive"
      <3>1. Derived[turn] \in Seq(Facts) /\ units = FactUnits(i, turn, Derived[turn])
        BY <1>2, <1>3, <2>1, StoreAssumption, Zenon
      <3> QED
        BY <1>2, <2>1, <3>1, FactUnitsType, Zenon
    <2>2. CASE call[c].part # "derive"
      <3>1. PICK facts \in Parses[turn] : units = Units(i, turn, facts)
        BY <1>3, <2>2
      <3>2. facts \in Seq(Facts)
        BY <1>2, StoreAssumption
      <3> QED
        BY <1>2, <2>2, <3>1, <3>2, UnitsType, Zenon
    <2> QED
      BY <2>1, <2>2
  <1>5. units \in Seq(Unit)
    BY <1>4 DEF TurnUnits
  <1>6. ParseFields(call[c], call'[c], units) /\ Others(c) /\ call' \in [Clients -> Call]
    BY <1>1, <1>3, <1>5, ParseEffect, Zenon
  <1>7. Quiet
    BY DEF ParseNext, Quiet
  <1>8. ParsesTurn(c, units)
    BY <1>1, <1>4, <1>6, <1>7, Zenon DEF ParsesTurn
  <1> QED
    BY <1>5, <1>6, <1>8, Zenon DEF Changes, Change

LEMMA StageRawChange ==
    ASSUME Inv, NEW c \in Clients, StageRaw(c)
    PROVE  Changes(c)
  <1>1. /\ Types /\ call[c].at = "next" /\ call[c].plan # <<>> /\ IsRaw(Head1(c)) /\ CourseOK(call[c])
        /\ Stage(c, Head1(c)) /\ Quiet
    BY DEF StageRaw, Quiet, Inv, CallsOK
  <1>2. StageFields(call[c], call'[c], Head1(c)) /\ Others(c) /\ call' \in [Clients -> Call]
    BY <1>1, HeadUnit, StageEffect, Zenon
  <1>3. Stages(c)
    BY <1>1, <1>2 DEF Stages, AtHead
  <1> QED
    BY <1>2, <1>3, Zenon DEF Changes, Change

LEMMA FindByCanonicalKeyChange ==
    ASSUME Inv, NEW c \in Clients, FindByCanonicalKey(c)
    PROVE  Changes(c)
  <1> DEFINE u == Head1(c)
             pending == PendingMatches(c, u)
             known == RowsWithKey(TenantOf(c, u.item), u.key)
  <1>1. /\ Types /\ call[c].at = "next" /\ call[c].plan # <<>> /\ ~IsRaw(u) /\ CourseOK(call[c])
        /\ Quiet
    BY DEF FindByCanonicalKey, Quiet, Inv, CallsOK
  <1>2. u \in Unit /\ u.item \in 1..Len(call[c].out)
    BY <1>1, HeadUnit
  <1>3. \/ \E k \in pending : Reuse(c, u, -k)
        \/ \E r \in known : Reuse(c, u, r)
        \/ /\ pending = {} /\ known = {}
           /\ IF u.tuple = NoTuple THEN Stage(c, u) ELSE call' = [call EXCEPT ![c].at = "tuple"]
    BY DEF FindByCanonicalKey
  <1>4. ASSUME NEW ref \in Int, Reuse(c, u, ref), Reusable(c, u, ref)
        PROVE  Changes(c)
    <2>1. ReuseFields(call[c], call'[c], u, ref) /\ Others(c) /\ call' \in [Clients -> Call]
      BY <1>1, <1>2, <1>4, ReuseEffect, Zenon
    <2>2. Reuses(c, ref)
      BY <1>1, <1>4, <2>1 DEF Reuses, AtHead
    <2> QED
      BY <2>1, <2>2, Zenon DEF Changes, Change
  <1>5. CASE \E k \in pending : Reuse(c, u, -k)
    <2>1. PICK k \in pending : Reuse(c, u, -k)
      BY <1>5
    <2>2. k \in Int /\ -k \in Int /\ -(-k) = k
      BY DEF PendingMatches
    <2>3. Reusable(c, u, -k)
      BY <2>2 DEF Reusable
    <2> QED
      BY <1>4, <2>1, <2>2, <2>3
  <1>6. CASE \E r \in known : Reuse(c, u, r)
    <2>1. PICK r \in known : Reuse(c, u, r)
      BY <1>6
    <2>2. r \in Int
      BY DEF RowsWithKey
    <2> QED
      BY <1>4, <2>1, <2>2 DEF Reusable
  <1>7. CASE pending = {} /\ known = {} /\ u.tuple = NoTuple /\ Stage(c, u)
    <2>1. StageFields(call[c], call'[c], u) /\ Others(c) /\ call' \in [Clients -> Call]
      BY <1>1, <1>2, <1>7, StageEffect, Zenon
    <2>2. Stages(c)
      BY <1>1, <1>7, <2>1 DEF Stages, AtHead
    <2> QED
      BY <2>1, <2>2, Zenon DEF Changes, Change
  <1>8. CASE pending = {} /\ known = {} /\ u.tuple # NoTuple /\ call' = [call EXCEPT ![c].at = "tuple"]
    <2>1. TupleFields(call[c], call'[c]) /\ Others(c) /\ call' \in [Clients -> Call]
      BY <1>1, <1>8, TupleEffect, Zenon
    <2>2. AsksTuple(c)
      BY <1>1, <1>8, <2>1 DEF AsksTuple
    <2> QED
      BY <2>1, <2>2, Zenon DEF Changes, Change
  <1> QED
    BY <1>3, <1>5, <1>6, <1>7, <1>8

LEMMA FindByRelationTupleChange ==
    ASSUME Inv, NEW c \in Clients, FindByRelationTuple(c)
    PROVE  Changes(c)
  <1> DEFINE u == Head1(c)
             known == RowsWithTuple(TenantOf(c, u.item), u.tuple)
  <1>1. Types /\ call[c].at = "tuple" /\ CourseOK(call[c]) /\ Quiet
    BY DEF FindByRelationTuple, Quiet, Inv, CallsOK
  <1>2. call[c].plan # <<>> /\ ~IsRaw(u)
    BY <1>1 DEF CourseOK, Head1
  <1>3. u \in Unit /\ u.item \in 1..Len(call[c].out)
    BY <1>1, <1>2, HeadUnit
  <1>4. (\E r \in known : Reuse(c, u, r)) \/ (known = {} /\ Stage(c, u))
    BY DEF FindByRelationTuple
  <1>5. CASE \E r \in known : Reuse(c, u, r)
    <2>1. PICK r \in known : Reuse(c, u, r)
      BY <1>5
    <2>2. r \in Int
      BY <1>1 DEF RowsWithTuple, Types, Link
    <2>3. ReuseFields(call[c], call'[c], u, r) /\ Others(c) /\ call' \in [Clients -> Call]
      BY <1>1, <1>2, <1>3, <2>1, <2>2, ReuseEffect, Zenon
    <2>4. Reuses(c, r)
      BY <1>1, <1>2, <2>1, <2>2, <2>3 DEF Reuses, AtHead, Reusable
    <2> QED
      BY <2>2, <2>3, <2>4, Zenon DEF Changes, Change
  <1>6. CASE known = {} /\ Stage(c, u)
    <2>1. StageFields(call[c], call'[c], u) /\ Others(c) /\ call' \in [Clients -> Call]
      BY <1>1, <1>2, <1>3, <1>6, StageEffect, Zenon
    <2>2. Stages(c)
      BY <1>1, <1>2, <1>6, <2>1 DEF Stages, AtHead
    <2> QED
      BY <2>1, <2>2, Zenon DEF Changes, Change
  <1> QED
    BY <1>4, <1>5, <1>6

LEMMA StoreInRepoChange ==
    ASSUME Inv, NEW c \in Clients, StoreInRepo(c)
    PROVE  Changes(c)
  <1>1. Types /\ rows \in Seq(Row) /\ Len(rows) \in Nat
    BY DEF Inv, Types
  <1>2. call[c].at = "insert" \/ (AllStaged(c) /\ call[c].staged # <<>>)
    BY Zenon DEF StoreInRepo
  <1>3. call[c].staged # <<>>
    <2>1. call[c].at = "insert" => CourseOK(call[c])
      BY DEF Inv, CallsOK
    <2> QED
      BY <1>2, <2>1 DEF CourseOK
  <1> DEFINE staged == call[c].staged
             made == [j \in 1..Len(staged) |->
                        [tenant |-> TenantOf(c, staged[j].item), key |-> staged[j].key,
                         tuple |-> staged[j].tuple, call |-> call[c].n]]
  <1>4. /\ rows' = rows \o made
        /\ index' = index \cup {[tenant |-> made[j].tenant, row |-> Len(rows) + j, state |-> "pending"] :
                                  j \in 1..Len(made)}
        /\ InsertCall(c, Len(rows))
        /\ UNCHANGED <<options, embedded, links, replies, overlaps, unmarked>>
    BY Zenon DEF StoreInRepo, InsertCall
  <1>5. made = Made(call[c])
    BY DEF Made, TenantOf
  <1>6. Len(staged) \in Nat
    BY <1>1, ItemsType
  <1>7. Len(made) = Len(staged)
    <2> DEFINE row(j) == [tenant |-> TenantOf(c, staged[j].item), key |-> staged[j].key,
                          tuple |-> staged[j].tuple, call |-> call[c].n]
               m == Len(staged)
    <2>1. m \in Nat
      BY <1>6
    <2> HIDE DEF row, m
    <2>2. Len([j \in 1..m |-> row(j)]) = m
      BY <2>1
    <2> QED
      BY <2>2 DEF row, m
  <1>8. \A j \in 1..Len(staged) : made[j].tenant = call[c].items[staged[j].item].tenant
    BY DEF TenantOf
  <1>9. index' = index \cup PendingRows(call[c], Len(rows))
    <2> HIDE DEF made
    <2> QED
      BY <1>4, <1>7, <1>8, Zenon DEF PendingRows
  <1>10. InsertFields(call[c], call'[c], Len(rows)) /\ Others(c) /\ call' \in [Clients -> Call]
    BY <1>1, <1>4, InsertEffect, Zenon
  <1>11. Inserts(c)
    BY <1>2, <1>3, <1>4, <1>5, <1>9, <1>10, Zenon DEF Inserts
  <1> QED
    BY <1>10, <1>11, Zenon DEF Changes, Change

LEMMA UpsertStoredEmbeddingsChange ==
    ASSUME Inv, NEW c \in Clients, UpsertStoredEmbeddings(c)
    PROVE  Changes(c)
  <1>1. Types /\ UpsertCall(c)
    BY Zenon DEF Inv, UpsertStoredEmbeddings, UpsertCall
  <1>2. UpsertFields(call[c], call'[c]) /\ Others(c) /\ call' \in [Clients -> Call]
    BY <1>1, UpsertEffect, Zenon
  <1>3. Upserts(c)
    BY <1>2, Zenon DEF Upserts, UpsertStoredEmbeddings
  <1> QED
    BY <1>2, <1>3, Zenon DEF Changes, Change

LEMMA StoreEntityFactsChange ==
    ASSUME Inv, NEW c \in Clients, StoreEntityFacts(c)
    PROVE  Changes(c)
  <1>1. Types /\ call' = [call EXCEPT ![c].at = "next", ![c].found = {}, ![c].together = FALSE]
    BY DEF Inv, StoreEntityFacts
  <1>2. LinkFields(call[c], call'[c]) /\ Others(c) /\ call' \in [Clients -> Call]
    BY <1>1, LinkEffect, Zenon
  <1>3. StoresFacts(c)
    BY <1>2, Zenon DEF StoresFacts, StoreEntityFacts
  <1> QED
    BY <1>2, <1>3, Zenon DEF Changes, Change

LEMMA StorePlainChange ==
    ASSUME Inv, NEW c \in Clients, StorePlain(c)
    PROVE  Changes(c)
  <1>1. Types /\ PartDone(c) /\ call[c].part = "parser" /\ PlainItems(call[c].items) # {} /\ Quiet
    BY Zenon DEF Inv, StorePlain, Quiet
  <1>2. PICK plain \in InOrder(PlainItems(call[c].items)) : PlainCall(c, plain)
    BY Zenon DEF StorePlain, PlainCall
  <1>3. Len(call[c].items) \in Nat /\ PlainItems(call[c].items) \in SUBSET (1..Len(call[c].items))
    BY <1>1, ItemsType DEF PlainItems
  <1>4. /\ plain \in Seq(Nat)
        /\ \A j \in 1..Len(plain) : plain[j] \in PlainItems(call[c].items)
        /\ \A i \in PlainItems(call[c].items) : \E j \in 1..Len(plain) : plain[j] = i
    BY <1>3, InOrderType, Zenon
  <1>5. plain # <<>>
    <2>1. PICK i \in PlainItems(call[c].items) : TRUE
      BY <1>1
    <2>2. PICK j \in 1..Len(plain) : plain[j] = i
      BY <1>4
    <2> QED
      BY <1>4, <2>2
  <1>6. PlainFields(call[c], call'[c], plain) /\ Others(c) /\ call' \in [Clients -> Call]
    <2>1. \A j \in 1..Len(plain) : plain[j] \in 1..Len(call[c].items)
      BY <1>3, <1>4, Zenon
    <2> QED
      BY <1>1, <1>2, <1>4, <2>1, PlainEffect, Zenon
  <1>7. StagesPlain(c, plain)
    BY <1>1, <1>4, <1>5, <1>6, Zenon DEF StagesPlain
  <1> QED
    BY <1>4, <1>6, <1>7, Zenon DEF Changes, Change

LEMMA DeriveStructuredChange ==
    ASSUME Inv, NEW c \in Clients, DeriveStructured(c)
    PROVE  Changes(c)
  <1> DEFINE positions == {i \in PlainItems(call[c].items) : call[c].items[i].raw}
  <1>1. Types /\ PartDone(c) /\ call[c].part = "plain" /\ Quiet
    BY DEF Inv, DeriveStructured, Quiet
  <1>2. PICK turns \in InOrder(positions) :
           call' = [call EXCEPT ![c].part = "derive", ![c].todo = turns]
    BY Zenon DEF DeriveStructured
  <1>3. Len(call[c].items) \in Nat /\ positions \in SUBSET (1..Len(call[c].items))
    BY <1>1, ItemsType DEF PlainItems
  <1>4. turns \in Seq(Nat) /\ \A j \in 1..Len(turns) : turns[j] \in positions
    <2> HIDE DEF positions
    <2> QED
      BY <1>3, InOrderType, Zenon
  <1>5. DeriveFields(call[c], call'[c], turns) /\ Others(c) /\ call' \in [Clients -> Call]
    BY <1>1, <1>2, <1>4, DeriveEffect, Zenon
  <1>6. Derives(c, turns)
    BY <1>1, <1>4, <1>5 DEF Derives
  <1> QED
    BY <1>4, <1>5, <1>6, Zenon DEF Changes, Change

LEMMA ReturnChange ==
    ASSUME Inv, NEW c \in Clients, Return(c)
    PROVE  Changes(c)
  <1>1. call'[c] = Idle /\ Others(c) /\ call' \in [Clients -> Call]
    BY EndEffect, Zenon DEF Inv, Return
  <1>2. Returns(c)
    BY <1>1, Zenon DEF Returns, Return
  <1> QED
    BY <1>1, <1>2, Zenon DEF Changes, Change

LEMMA FailChange ==
    ASSUME Inv, NEW c \in Clients, Fail(c) \/ UpsertFails(c)
    PROVE  Changes(c)
  <1>1. call' = [call EXCEPT ![c] = Idle]
    BY DEF Fail, UpsertFails
  <1>2. call'[c] = Idle /\ Others(c) /\ call' \in [Clients -> Call]
    BY <1>1, EndEffect, Zenon DEF Inv
  <1>3. Fails(c)
    <2>1. CASE Fail(c)
      BY <1>2, <2>1, Zenon DEF Fails, Fail
    <2>2. CASE UpsertFails(c)
      <3>1. embedded' = embedded \/ embedded' = embedded \cup Inserted(c)
        <4> DEFINE more == embedded \cup Inserted(c)
        <4>1. embedded' \in {embedded} \cup (IF VectorService THEN {more} ELSE {})
          BY <2>2 DEF UpsertFails
        <4> HIDE DEF more
        <4>2. embedded' = embedded \/ embedded' = more
          BY <4>1
        <4> QED
          BY <4>2 DEF more
      <3>2. /\ call[c].at = "upsert" /\ MarkIndexState(c, "failed")
            /\ replies' = [replies EXCEPT ![call[c].n].status = "failed"]
            /\ UNCHANGED <<options, rows, links, overlaps>>
        BY <2>2 DEF UpsertFails
      <3>3. call[c].at # "idle"
        BY <3>2
      <3> QED
        BY <1>2, <3>1, <3>2, <3>3, Zenon DEF Fails
    <2> QED
      BY <2>1, <2>2
  <1> QED
    BY <1>2, <1>3, Zenon DEF Changes, Change

LEMMA StepChange ==
    ASSUME Inv, NEW c \in Clients, ClientStep(c)
    PROVE  Changes(c)
  BY StoreBatchChange, ParseNextChange, StageRawChange, FindByCanonicalKeyChange,
     FindByRelationTupleChange, StoreInRepoChange, UpsertStoredEmbeddingsChange,
     StoreEntityFactsChange, StorePlainChange, DeriveStructuredChange, ReturnChange, FailChange
     DEF ClientStep

-----------------------------------------------------------------------------
(* What a step leaves: rows, links and overlaps only grow, and a request   *)
(* changes no reply but its own, which was open.                           *)

Grow(c) ==
    /\ options' = options
    /\ rows' \in Seq(Row) /\ Len(rows) <= Len(rows')
    /\ \A r \in 1..Len(rows) : rows'[r] = rows[r]
    /\ links' \in SUBSET Link /\ links \subseteq links'
    /\ overlaps \subseteq overlaps'
    /\ replies' \in Seq(Reply) /\ Len(replies) <= Len(replies')
    /\ \A n \in 1..Len(replies) :
          /\ replies'[n].items = replies[n].items
          /\ replies[n].status # "open" => replies'[n] = replies[n]
          /\ call[c].at = "idle" \/ n # call[c].n => replies'[n] = replies[n]

LEMMA MadeType ==
    ASSUME Types, NEW k \in Call, \A j \in 1..Len(k.staged) : k.staged[j].item \in 1..Len(k.items)
    PROVE  /\ Made(k) \in Seq(Row) /\ Len(Made(k)) = Len(k.staged)
           /\ \A j \in 1..Len(k.staged) :
                 /\ Made(k)[j] = [tenant |-> k.items[k.staged[j].item].tenant, key |-> k.staged[j].key,
                                  tuple |-> k.staged[j].tuple, call |-> k.n]
                 /\ Made(k)[j].tenant = k.items[k.staged[j].item].tenant
                 /\ Made(k)[j].key = k.staged[j].key
                 /\ Made(k)[j].tuple = k.staged[j].tuple
                 /\ Made(k)[j].call = k.n
  <1> DEFINE row(j) == [tenant |-> k.items[k.staged[j].item].tenant, key |-> k.staged[j].key,
                        tuple |-> k.staged[j].tuple, call |-> k.n]
             m == Len(k.staged)
  <1>1. k.staged \in Seq(Unit) /\ k.items \in Seq(Item) /\ k.n \in Nat /\ m \in Nat
    BY DEF Call
  <1>2. ASSUME NEW j \in 1..m PROVE row(j) \in Row
    <2>1. k.staged[j] \in Unit /\ k.items[k.staged[j].item] \in Item
      BY <1>1, ElementOfSeq
    <2> QED
      BY <1>1, <2>1, Zenon DEF Row, Unit, Item
  <1>3. Made(k) = [j \in 1..m |-> row(j)]
    BY DEF Made
  <1>4. /\ [j \in 1..m |-> row(j)] \in Seq(Row) /\ Len([j \in 1..m |-> row(j)]) = m
        /\ \A j \in 1..m : [i \in 1..m |-> row(i)][j] = row(j)
    <2> HIDE DEF row, m
    <2> QED
      BY <1>1, <1>2, IsASeq
  <1>5. /\ Made(k) \in Seq(Row) /\ Len(Made(k)) = m
        /\ \A j \in 1..m : Made(k)[j] = row(j)
    <2> HIDE DEF row, m
    <2> QED
      BY <1>3, <1>4, Zenon
  <1> QED
    BY <1>5

(* The rows after an insert. *)
LEMMA RowsAfterInsert ==
    ASSUME Inv, NEW c \in Clients, Inserts(c)
    PROVE  /\ rows' \in Seq(Row) /\ Len(rows') = Len(rows) + Len(call[c].staged)
           /\ \A r \in 1..Len(rows) : rows'[r] = rows[r]
           /\ \A j \in 1..Len(call[c].staged) : rows'[Len(rows) + j] = Made(call[c])[j]
           /\ \A r \in 1..Len(rows') : r \notin 1..Len(rows) =>
                 r - Len(rows) \in 1..Len(call[c].staged) /\ r = Len(rows) + (r - Len(rows))
  <1>1. Types /\ rows \in Seq(Row) /\ call[c] \in Call /\ Len(call[c].staged) \in Nat
    BY ItemsType DEF Inv, Types
  <1>2. CourseOK(call[c])
    BY DEF Inv, CallsOK, Inserts, AllStaged
  <1>3. \A j \in 1..Len(call[c].staged) : call[c].staged[j].item \in 1..Len(call[c].items)
    BY <1>2 DEF CourseOK, UnitOK
  <1>4. Made(call[c]) \in Seq(Row) /\ Len(Made(call[c])) = Len(call[c].staged)
    BY <1>1, <1>3, MadeType
  <1>5. rows' = rows \o Made(call[c])
    BY DEF Inserts
  <1> QED
    BY <1>1, <1>4, <1>5, ConcatProperties

(* How a request ends. *)
LEMMA RepliesAfterEnd ==
    ASSUME Inv, NEW c \in Clients, Returns(c) \/ Fails(c)
    PROVE  /\ replies' \in Seq(Reply) /\ Len(replies') = Len(replies)
           /\ call[c].n \in 1..Len(replies) /\ replies[call[c].n].status = "open"
           /\ \A n \in 1..Len(replies) : n # call[c].n => replies'[n] = replies[n]
           /\ replies'[call[c].n].items = replies[call[c].n].items
           /\ Fails(c) => replies'[call[c].n].status = "failed"
           /\ Returns(c) => /\ replies'[call[c].n].status = "ok"
                            /\ replies'[call[c].n].out = call[c].out
                            /\ replies'[call[c].n].units = call[c].units
  <1>1. Types /\ replies \in Seq(Reply) /\ call[c].at # "idle"
    BY DEF Inv, Types, Returns, Fails, PartDone
  <1>2. call[c].n \in 1..Len(replies) /\ replies[call[c].n].status = "open"
    BY <1>1 DEF Inv, CallsOK, OpenOK, Calls
  <1>3. replies[call[c].n] \in Reply /\ call[c].out \in Seq(Int) /\ call[c].units \in SUBSET Unit
    BY <1>1, <1>2, ItemsType, ElementOfSeq
  <1> DEFINE n == call[c].n
             good == [replies[n] EXCEPT !.status = "ok", !.out = call[c].out, !.units = call[c].units]
             bad == [replies[n] EXCEPT !.status = "failed"]
  <1>4. /\ good \in Reply /\ good.items = replies[n].items /\ good.status = "ok"
        /\ good.out = call[c].out /\ good.units = call[c].units
        /\ bad \in Reply /\ bad.items = replies[n].items /\ bad.status = "failed"
    <2> DEFINE r == replies[n]
               out == call[c].out
               units == call[c].units
    <2>1. r \in Reply /\ out \in Seq(Int) /\ units \in SUBSET Unit
      BY <1>3
    <2> HIDE DEF r, out, units
    <2>2. /\ [r EXCEPT !.status = "ok", !.out = out, !.units = units] \in Reply
          /\ [r EXCEPT !.status = "ok", !.out = out, !.units = units].items = r.items
          /\ [r EXCEPT !.status = "ok", !.out = out, !.units = units].status = "ok"
          /\ [r EXCEPT !.status = "ok", !.out = out, !.units = units].out = out
          /\ [r EXCEPT !.status = "ok", !.out = out, !.units = units].units = units
          /\ [r EXCEPT !.status = "failed"] \in Reply
          /\ [r EXCEPT !.status = "failed"].items = r.items
          /\ [r EXCEPT !.status = "failed"].status = "failed"
      BY <2>1, Zenon DEF Reply
    <2> QED
      BY <2>2, Zenon DEF r, out, units
  <1>5. /\ Returns(c) => replies' = [replies EXCEPT ![n] = good]
        /\ Fails(c) => replies' = [replies EXCEPT ![n] = bad]
    BY <1>1, <1>2 DEF Returns, Fails
  <1> HIDE DEF good, bad
  <1>6. ~(Returns(c) /\ Fails(c))
    <2>1. good # bad
      BY <1>4
    <2> QED
      BY <1>1, <1>2, <1>5, <2>1
  <1>7. CASE Returns(c)
    BY <1>1, <1>2, <1>4, <1>5, <1>6, <1>7, ExceptSeq
  <1>8. CASE Fails(c)
    BY <1>1, <1>2, <1>4, <1>5, <1>6, <1>8, ExceptSeq
  <1> QED
    BY <1>7, <1>8

LEMMA RepliesAfterBegin ==
    ASSUME Inv, NEW c \in Clients, NEW items \in Batches, NEW together, NEW turns,
           Begins(c, items, together, turns)
    PROVE  /\ replies' \in Seq(Reply) /\ Len(replies') = Len(replies) + 1
           /\ \A n \in 1..Len(replies) : replies'[n] = replies[n]
           /\ replies'[Len(replies) + 1].status = "open"
           /\ replies'[Len(replies) + 1].items = items
  <1> DEFINE r == [status |-> "open", items |-> items, out |-> <<>>, units |-> {}]
  <1>1. replies \in Seq(Reply)
    BY DEF Inv, Types
  <1>2. items \in Seq(Item)
    BY BatchItems
  <1>3. r \in Reply /\ r.status = "open" /\ r.items = items
    BY <1>2 DEF Reply
  <1>4. replies' = Append(replies, r)
    BY DEF Begins
  <1> HIDE DEF r
  <1> QED
    BY <1>1, <1>3, <1>4, AppendProperties

LEMMA LinksAfter ==
    ASSUME Inv, NEW c \in Clients, StoresFacts(c)
    PROVE  /\ links' \in SUBSET Link /\ links \subseteq links'
           /\ \A e \in links' : e \in links \/ \E f \in call[c].found :
                 /\ e = [tenant |-> TenantOf(c, f.item), tuple |-> f.tuple, row |-> f.ref]
                 /\ e.tenant = call[c].items[f.item].tenant /\ e.tuple = f.tuple /\ e.row = f.ref
                 /\ f.ref \in Ids /\ rows[f.ref].tenant = call[c].items[f.item].tenant
           /\ \A f \in call[c].found :
                 /\ [tenant |-> call[c].items[f.item].tenant, tuple |-> f.tuple, row |-> f.ref] \in links'
                 /\ f.ref \in Ids /\ rows[f.ref].tenant = call[c].items[f.item].tenant
  <1>1. /\ Types /\ call[c].found \in SUBSET Found /\ links \in SUBSET Link
        /\ call[c].at # "idle" /\ call[c].items \in Seq(Item)
    BY ItemsType DEF Inv, Types, StoresFacts, AllStaged
  <1>2. CourseOK(call[c]) /\ RefsOK(call[c])
    BY <1>1 DEF Inv, CallsOK
  <1>3. call[c].staged = <<>>
    BY <1>2 DEF CourseOK, StoresFacts
  <1>4. \A f \in call[c].found : f.item \in 1..Len(call[c].items) /\ RefOK(call[c], f.item, f.ref)
    BY <1>2 DEF RefsOK
  <1>5. \A f \in call[c].found : f.ref \in Ids /\ rows[f.ref].tenant = call[c].items[f.item].tenant
    BY <1>3, <1>4 DEF RefOK
  <1>6. ASSUME NEW f \in call[c].found
        PROVE  [tenant |-> TenantOf(c, f.item), tuple |-> f.tuple, row |-> f.ref] \in Link
    <2>1. call[c].items[f.item] \in Item /\ f.tuple \in Tuples
      BY <1>1, <1>4, ElementOfSeq DEF Found
    <2>2. f.ref \in Nat
      BY <1>5 DEF Ids
    <2> QED
      BY <2>1, <2>2 DEF Link, TenantOf, Item
  <1>7. links' = links \cup {[tenant |-> TenantOf(c, f.item), tuple |-> f.tuple, row |-> f.ref] :
                               f \in call[c].found}
    BY DEF StoresFacts
  <1> DEFINE link(f) == [tenant |-> TenantOf(c, f.item), tuple |-> f.tuple, row |-> f.ref]
  <1>8. \A f \in call[c].found :
           /\ link(f).tenant = call[c].items[f.item].tenant /\ link(f).tuple = f.tuple /\ link(f).row = f.ref
           /\ link(f) = [tenant |-> call[c].items[f.item].tenant, tuple |-> f.tuple, row |-> f.ref]
    BY DEF TenantOf
  <1>9. \A e \in links' : e \in links \/ \E f \in call[c].found : e = link(f)
    BY <1>7
  <1>10. \A f \in call[c].found : link(f) \in links' /\ link(f) \in Link
    BY <1>6, <1>7
  <1>11. links \subseteq links'
    BY <1>7
  <1> HIDE DEF link
  <1>12. links' \in SUBSET Link
    BY <1>1, <1>9, <1>10
  <1>13. \A e \in links' : e \in links \/ \E f \in call[c].found :
                 /\ e = link(f)
                 /\ e.tenant = call[c].items[f.item].tenant /\ e.tuple = f.tuple /\ e.row = f.ref
                 /\ f.ref \in Ids /\ rows[f.ref].tenant = call[c].items[f.item].tenant
    BY <1>5, <1>8, <1>9
  <1>14. \A f \in call[c].found :
                 /\ [tenant |-> call[c].items[f.item].tenant, tuple |-> f.tuple, row |-> f.ref] \in links'
                 /\ f.ref \in Ids /\ rows[f.ref].tenant = call[c].items[f.item].tenant
    BY <1>5, <1>8, <1>10
  <1> QED
    BY <1>11, <1>12, <1>13, <1>14 DEF link

LEMMA Grows ==
    ASSUME Inv, NEW c \in Clients, Changes(c)
    PROVE  Grow(c)
  <1>1. /\ Types /\ rows \in Seq(Row) /\ Len(rows) \in Nat /\ links \in SUBSET Link
        /\ replies \in Seq(Reply) /\ Len(replies) \in Nat
    BY DEF Inv, Types
  <1>2. ASSUME Quiet PROVE Grow(c)
    BY <1>1, <1>2 DEF Quiet, Grow
  <1>3. ASSUME NEW items \in Batches, NEW together, NEW turns, Begins(c, items, together, turns)
        PROVE  Grow(c)
    <2>1. call[c].at = "idle" /\ UNCHANGED <<options, rows, links>> /\ overlaps \subseteq overlaps'
      BY <1>3 DEF Begins
    <2> QED
      BY <1>1, <1>3, <2>1, RepliesAfterBegin DEF Grow
  <1>4. CASE Inserts(c)
    <2>1. UNCHANGED <<options, links, overlaps, replies>> /\ Len(call[c].staged) \in Nat
      BY <1>1, <1>4, ItemsType DEF Inserts
    <2> QED
      BY <1>1, <1>4, <2>1, RowsAfterInsert DEF Grow
  <1>5. CASE Upserts(c)
    BY <1>1, <1>5 DEF Upserts, Grow
  <1>6. CASE StoresFacts(c)
    <2>1. UNCHANGED <<options, rows, overlaps, replies>>
      BY <1>6 DEF StoresFacts
    <2> QED
      BY <1>1, <1>6, <2>1, LinksAfter DEF Grow
  <1>7. CASE Returns(c) \/ Fails(c)
    <2>1. UNCHANGED <<options, rows, links, overlaps>>
      BY <1>7 DEF Returns, Fails
    <2>2. call[c].at # "idle"
      BY <1>7 DEF Returns, Fails, PartDone
    <2> QED
      BY <1>1, <1>7, <2>1, <2>2, RepliesAfterEnd DEF Grow
  <1> QED
    BY <1>2, <1>3, <1>4, <1>5, <1>6, <1>7
       DEF Changes, Change, ParsesTurn, Stages, Reuses, AsksTuple, StagesPlain, Derives

-----------------------------------------------------------------------------
(* Index rows.                                                             *)

LEMMA InsertedIds ==
    ASSUME Inv, NEW c \in Clients, call[c].at = "upsert"
    PROVE  /\ Inserted(c) \subseteq Ids
           /\ call[c].base + 1 \in Inserted(c)
           /\ \A r \in Inserted(c) : rows[r].call = call[c].n
           /\ \A j \in 1..Len(call[c].staged) : call[c].base + j \in Inserted(c)
           /\ \A r \in Inserted(c) : r - call[c].base \in 1..Len(call[c].staged)
                                     /\ r = call[c].base + (r - call[c].base)
  <1>1. Types /\ call[c].base \in Nat /\ call[c].staged \in Seq(Unit) /\ rows \in Seq(Row)
    BY ItemsType DEF Inv, Types
  <1>2. CourseOK(call[c]) /\ InsertedOK(call[c])
    BY DEF Inv, CallsOK
  <1>3. Len(call[c].staged) >= 1
    BY <1>1, <1>2 DEF CourseOK
  <1>4. call[c].base + Len(call[c].staged) <= Len(rows)
    BY <1>2 DEF InsertedOK
  <1>5. \A r \in Inserted(c) : r - call[c].base \in 1..Len(call[c].staged)
                               /\ r = call[c].base + (r - call[c].base)
    BY <1>1 DEF Inserted
  <1>6. \A j \in 1..Len(call[c].staged) : rows[call[c].base + j].call = call[c].n
    BY <1>2 DEF InsertedOK
  <1>7. \A r \in Inserted(c) : rows[r].call = call[c].n
    BY <1>5, <1>6
  <1>8. Inserted(c) \subseteq Ids /\ call[c].base + 1 \in Inserted(c)
        /\ \A j \in 1..Len(call[c].staged) : call[c].base + j \in Inserted(c)
    <2> DEFINE b == call[c].base
               n == Len(call[c].staged)
               m == Len(rows)
    <2>1. b \in Nat /\ n \in Nat /\ m \in Nat /\ n >= 1 /\ b + n <= m
      BY <1>1, <1>3, <1>4
    <2>2. Inserted(c) = (b + 1)..(b + n) /\ Ids = 1..m
      BY DEF Inserted, Ids
    <2> HIDE DEF b, n, m
    <2>3. Inserted(c) \subseteq Ids /\ b + 1 \in Inserted(c) /\ \A j \in 1..n : b + j \in Inserted(c)
      BY <2>1, <2>2
    <2> QED
      BY <2>3 DEF b, n
  <1> QED
    BY <1>5, <1>7, <1>8

(* A mark replaces the rows of its memories and its tenant. *)
LEMMA MarkRows ==
    ASSUME NEW ix, NEW tenant, NEW ids, NEW state
    PROVE  /\ \A e \in Mark(ix, tenant, ids, state) :
                 \/ e \in ix /\ ~(e.tenant = tenant /\ e.row \in ids)
                 \/ e.tenant = tenant /\ e.row \in ids /\ e.state = state
           /\ \A e \in ix : ~(e.tenant = tenant /\ e.row \in ids) => e \in Mark(ix, tenant, ids, state)
           /\ \A r \in ids : \E e \in Mark(ix, tenant, ids, state) :
                 e.row = r /\ e.tenant = tenant /\ e.state = state
  <1> DEFINE row(r) == [tenant |-> tenant, row |-> r, state |-> state]
             new == {row(r) : r \in ids}
  <1>1. \A r \in ids : row(r).tenant = tenant /\ row(r).row = r /\ row(r).state = state
    OBVIOUS
  <1>2. Mark(ix, tenant, ids, state) = {e \in ix : ~(e.tenant = tenant /\ e.row \in ids)} \cup new
    BY DEF Mark
  <1>3. \A e \in new : \E r \in ids : e = row(r)
    OBVIOUS
  <1>4. \A r \in ids : row(r) \in new
    OBVIOUS
  <1> HIDE DEF row, new
  <1>5. \A e \in new : e.tenant = tenant /\ e.row \in ids /\ e.state = state
    BY <1>1, <1>3
  <1>6. \A r \in ids : \E e \in new : e.row = r /\ e.tenant = tenant /\ e.state = state
    BY <1>1, <1>4
  <1> QED
    BY <1>2, <1>5, <1>6

LEMMA MarkType ==
    ASSUME NEW ix \in SUBSET IndexRow, NEW tenant \in Tenants, NEW ids \in SUBSET Nat,
           NEW state \in {"pending", "indexed", "failed"}
    PROVE  Mark(ix, tenant, ids, state) \in SUBSET IndexRow
  <1>1. \A r \in ids : [tenant |-> tenant, row |-> r, state |-> state] \in IndexRow
    BY DEF IndexRow
  <1> QED
    BY <1>1 DEF Mark

(* How a client leaves the index: tenant t is that of its first memory. *)
Remarks(c, t, state) ==
    \/ index' = Mark(index, t, Inserted(c), state) /\ unmarked' = unmarked
    \/ /\ index' = index \/ index' = Mark(index, t, Inserted(c), "pending")
       /\ unmarked' = unmarked \cup Inserted(c)

LEMMA MarkEffect ==
    ASSUME Inv, NEW c \in Clients, call[c].at = "upsert", NEW state \in {"indexed", "failed"},
           MarkIndexState(c, state)
    PROVE  /\ rows[call[c].base + 1].tenant \in Tenants
           /\ Remarks(c, rows[call[c].base + 1].tenant, state)
  <1>1. call[c].base + 1 \in Ids /\ rows \in Seq(Row)
    BY InsertedIds DEF Inv, Types
  <1>2. rows[call[c].base + 1] \in Row
    BY <1>1, ElementOfSeq DEF Ids
  <1>3. rows[call[c].base + 1].tenant \in Tenants
    BY <1>2 DEF Row
  <1> DEFINE t == rows[call[c].base + 1].tenant
  <1>4. \/ index' = Mark(index, t, Inserted(c), state) /\ UNCHANGED unmarked
        \/ /\ index' \in {index, Mark(index, t, Inserted(c), "pending")}
           /\ unmarked' = unmarked \cup Inserted(c)
    BY DEF MarkIndexState
  <1> QED
    BY <1>3, <1>4 DEF Remarks

LEMMA RemarksType ==
    ASSUME Inv, NEW c \in Clients, call[c].at = "upsert", NEW state \in {"indexed", "failed"},
           NEW t \in Tenants, Remarks(c, t, state)
    PROVE  /\ index' \in SUBSET IndexRow /\ \A e \in index' : e.row \in Ids
           /\ unmarked' \in SUBSET Nat /\ unmarked' \subseteq Ids
           /\ \A e \in index' : \/ e \in index
                                \/ e.row \in Inserted(c) /\ e.state \in {"pending", state}
  <1>1. /\ index \in SUBSET IndexRow /\ unmarked \in SUBSET Nat
        /\ Inserted(c) \subseteq Ids /\ Ids \subseteq Nat
        /\ \A e \in index : e.row \in Ids
        /\ unmarked \subseteq Ids
    BY InsertedIds DEF Inv, Types, StoresOK, Ids
  <1>2. Inserted(c) \in SUBSET Nat
    BY <1>1, Zenon
  <1>3. ASSUME NEW s \in {"pending", state}, index' = Mark(index, t, Inserted(c), s)
        PROVE  /\ index' \in SUBSET IndexRow
               /\ \A e \in index' : e \in index \/ (e.row \in Inserted(c) /\ e.state \in {"pending", state})
    <2>1. s \in {"pending", "indexed", "failed"}
      OBVIOUS
    <2>2. /\ index' \in SUBSET IndexRow
          /\ \A e \in index' : \/ e \in index
                               \/ e.row \in Inserted(c) /\ e.state = s
      <3> DEFINE ix == index
                 ids == Inserted(c)
      <3>1. ix \in SUBSET IndexRow /\ ids \in SUBSET Nat
        BY <1>1, <1>2
      <3> HIDE DEF ix, ids
      <3>2. /\ Mark(ix, t, ids, s) \in SUBSET IndexRow
            /\ \A e \in Mark(ix, t, ids, s) : \/ e \in ix
                                              \/ e.row \in ids /\ e.state = s
        <4>1. s \in {"pending", "indexed", "failed"} /\ t \in Tenants
          BY <2>1
        <4>2. Mark(ix, t, ids, s) \in SUBSET IndexRow
          BY <3>1, <4>1, MarkType, Zenon
        <4> QED
          BY <4>2, MarkRows
      <3> QED
        BY <1>3, <3>2 DEF ix, ids
    <2> QED
      BY <2>2
  <1>4. /\ index' \in SUBSET IndexRow
        /\ \A e \in index' : e \in index \/ (e.row \in Inserted(c) /\ e.state \in {"pending", state})
    <2>1. CASE index' = index
      BY <1>1, <2>1
    <2> QED
      BY <1>3, <2>1 DEF Remarks
  <1>5. unmarked' \in SUBSET Nat /\ unmarked' \subseteq Ids
    BY <1>1, Zenon DEF Remarks
  <1> QED
    BY <1>1, <1>4, <1>5

LEMMA PendingRowsType ==
    ASSUME Inv, NEW c \in Clients, Inserts(c)
    PROVE  /\ PendingRows(call[c], Len(rows)) \in SUBSET IndexRow
           /\ \A e \in PendingRows(call[c], Len(rows)) : \E j \in 1..Len(call[c].staged) :
                 e.row = Len(rows) + j /\ e.state = "pending"
                 /\ e.tenant = call[c].items[call[c].staged[j].item].tenant
  <1>1. Types /\ call[c].staged \in Seq(Unit) /\ call[c].items \in Seq(Item) /\ Len(rows) \in Nat
    BY ItemsType DEF Inv, Types
  <1>2. CourseOK(call[c])
    BY DEF Inv, CallsOK, Inserts, AllStaged
  <1> DEFINE row(j) == [tenant |-> call[c].items[call[c].staged[j].item].tenant, row |-> Len(rows) + j,
                        state |-> "pending"]
  <1>3. ASSUME NEW j \in 1..Len(call[c].staged)
        PROVE  /\ row(j) \in IndexRow /\ row(j).row = Len(rows) + j /\ row(j).state = "pending"
               /\ row(j).tenant = call[c].items[call[c].staged[j].item].tenant
    <2>1. call[c].staged[j].item \in 1..Len(call[c].items)
      BY <1>2 DEF CourseOK, UnitOK
    <2>2. call[c].items[call[c].staged[j].item] \in Item
      BY <1>1, <2>1, ElementOfSeq, Zenon
    <2> QED
      BY <1>1, <2>2 DEF IndexRow, Item
  <1>4. PendingRows(call[c], Len(rows)) = {row(j) : j \in 1..Len(call[c].staged)}
    BY DEF PendingRows
  <1> HIDE DEF row
  <1>5. \A e \in PendingRows(call[c], Len(rows)) : \E j \in 1..Len(call[c].staged) : e = row(j)
    BY <1>4
  <1> QED
    BY <1>3, <1>5

LEMMA TypesStep ==
    ASSUME Inv, NEW c \in Clients, Changes(c)
    PROVE  Types' /\ StoresOK'
  <1>1. Grow(c) /\ Types /\ StoresOK /\ call' \in [Clients -> Call] /\ Len(rows) \in Nat /\ Len(rows') \in Nat
        /\ Len(replies) \in Nat /\ Len(replies') \in Nat
    BY Grows DEF Inv, Changes, Grow, Types
  <1>2. \A r \in Ids : r \in Ids' /\ rows'[r] = rows[r]
    BY <1>1 DEF Grow, Ids
  <1>3. \A n \in Calls : n \in Calls'
    BY <1>1 DEF Grow, Calls, Types
  <1>4. /\ index' \in SUBSET IndexRow /\ embedded' \in SUBSET Nat /\ unmarked' \in SUBSET Nat
        /\ \A e \in index' : e.row \in Ids'
        /\ embedded' \subseteq Ids' /\ unmarked' \subseteq Ids'
    <2>1. CASE UNCHANGED <<index, embedded, unmarked>>
      BY <1>1, <1>2, <2>1, Zenon DEF Types, StoresOK
    <2>2. CASE Inserts(c)
      <3>1. UNCHANGED <<embedded, unmarked>> /\ index' = index \cup PendingRows(call[c], Len(rows))
        BY <2>2 DEF Inserts
      <3>2. \A j \in 1..Len(call[c].staged) : Len(rows) + j \in Ids'
        <4>1. Len(call[c].staged) \in Nat
          BY <1>1, ItemsType
        <4> QED
          BY <1>1, <2>2, <4>1, RowsAfterInsert DEF Ids
      <3>3. \A e \in PendingRows(call[c], Len(rows)) : e \in IndexRow /\ e.row \in Ids'
        BY <2>2, <3>2, PendingRowsType
      <3> QED
        BY <1>1, <1>2, <3>1, <3>3, Zenon DEF Types, StoresOK
    <2>3. ASSUME NEW state \in {"indexed", "failed"}, call[c].at = "upsert",
                 embedded' = embedded \/ embedded' = embedded \cup Inserted(c),
                 MarkIndexState(c, state)
          PROVE  <1>4
      <3>1. /\ index' \in SUBSET IndexRow /\ \A e \in index' : e.row \in Ids
            /\ unmarked' \in SUBSET Nat /\ unmarked' \subseteq Ids
        BY <2>3, MarkEffect, RemarksType
      <3>2. embedded' \subseteq Ids
        BY <1>1, <2>3, InsertedIds DEF StoresOK
      <3>3. Ids' \subseteq Nat
        BY <1>1 DEF Ids
      <3> QED
        BY <1>2, <3>1, <3>2, <3>3, Zenon
    <2>4. CASE Upserts(c)
      BY <2>3, <2>4 DEF Upserts
    <2>5. CASE Fails(c)
      BY <2>1, <2>3, <2>5 DEF Fails
    <2> QED
      BY <2>1, <2>2, <2>4, <2>5, Zenon
         DEF Changes, Change, Begins, ParsesTurn, Stages, Reuses, AsksTuple, StoresFacts, StagesPlain, Derives,
             Returns, Quiet
  <1>5. \A r \in Ids' : rows'[r].call \in Calls'
    <2>1. CASE rows' = rows
      BY <1>1, <1>3, <2>1 DEF StoresOK, Ids
    <2>2. CASE Inserts(c)
      <3>1. call[c].n \in Calls /\ CourseOK(call[c])
        BY <2>2 DEF Inv, CallsOK, OpenOK, Inserts, AllStaged
      <3>2. \A j \in 1..Len(call[c].staged) : Made(call[c])[j].call = call[c].n
        BY <1>1, <3>1, ItemsType, MadeType, Zenon DEF CourseOK, UnitOK
      <3>3. ASSUME NEW r \in Ids', r \notin Ids PROVE rows'[r].call \in Calls'
        <4>1. /\ r \in 1..Len(rows') /\ r \notin 1..Len(rows)
          BY <3>3 DEF Ids
        <4> DEFINE j == r - Len(rows)
        <4>2. j \in 1..Len(call[c].staged) /\ r = Len(rows) + j
          BY <2>2, <4>1, RowsAfterInsert
        <4> HIDE DEF j
        <4>3. rows'[r] = Made(call[c])[j]
          BY <2>2, <4>2, RowsAfterInsert
        <4>4. rows'[r].call = call[c].n
          BY <3>2, <4>2, <4>3
        <4> QED
          BY <1>3, <3>1, <4>4
      <3> QED
        BY <1>1, <1>2, <1>3, <3>3 DEF StoresOK
    <2> QED
      BY <2>1, <2>2, Zenon
         DEF Changes, Change, Begins, ParsesTurn, Stages, Reuses, AsksTuple, Upserts, StoresFacts, StagesPlain,
             Derives, Returns, Fails, Quiet
  <1>6. \A e \in links' : e.row \in Ids' /\ rows'[e.row].tenant = e.tenant
    <2>1. CASE links' = links
      BY <1>1, <1>2, <2>1 DEF StoresOK
    <2>2. CASE StoresFacts(c)
      BY <1>1, <1>2, <2>2, LinksAfter DEF StoresOK
    <2> QED
      BY <2>1, <2>2, Zenon
         DEF Changes, Change, Begins, ParsesTurn, Stages, Reuses, AsksTuple, Inserts, Upserts, StagesPlain,
             Derives, Returns, Fails, Quiet
  <1>7. Types'
    BY <1>1, <1>4 DEF Types, Grow
  <1>8. StoresOK'
    BY <1>4, <1>5, <1>6 DEF StoresOK
  <1> QED
    BY <1>7, <1>8

-----------------------------------------------------------------------------
(* The course of a request is kept by each of its steps.                   *)

LEMMA TailElements ==
    ASSUME NEW S, NEW s \in Seq(S), s # <<>>
    PROVE  /\ Tail(s) \in Seq(S) /\ Len(Tail(s)) = Len(s) - 1
           /\ \A j \in 1..Len(Tail(s)) : j + 1 \in 1..Len(s) /\ Tail(s)[j] = s[j + 1]
           /\ \A j \in 1..Len(s) : \/ j = 1 /\ s[j] = Head(s)
                                   \/ j - 1 \in 1..Len(Tail(s)) /\ Tail(s)[j - 1] = s[j]
  OBVIOUS

LEMMA InTail ==
    ASSUME NEW S, NEW s \in Seq(S), s # <<>>, NEW j \in 1..Len(s), j # 1
    PROVE  \E q \in 1..Len(Tail(s)) : Tail(s)[q] = s[j]
  <1>1. j - 1 \in 1..Len(Tail(s)) /\ Tail(s)[j - 1] = s[j]
    BY TailElements
  <1> QED
    BY <1>1

LEMMA AppendElements ==
    ASSUME NEW S, NEW s \in Seq(S), NEW x \in S
    PROVE  /\ Append(s, x) \in Seq(S) /\ Len(Append(s, x)) = Len(s) + 1 /\ Append(s, x) # <<>>
           /\ \A j \in 1..Len(s) : j \in 1..Len(Append(s, x)) /\ Append(s, x)[j] = s[j]
           /\ Append(s, x)[Len(s) + 1] = x /\ Len(s) + 1 \in 1..Len(Append(s, x))
           /\ \A j \in 1..Len(Append(s, x)) : j \in 1..Len(s) \/ j = Len(s) + 1
  <1>1. /\ Append(s, x) \in Seq(S) /\ Len(Append(s, x)) = Len(s) + 1 /\ Len(s) \in Nat
        /\ \A j \in 1..Len(s) : Append(s, x)[j] = s[j]
        /\ Append(s, x)[Len(s) + 1] = x
    BY AppendProperties
  <1>2. Append(s, x) # <<>>
    BY <1>1
  <1> DEFINE n == Len(s)
             m == Len(Append(s, x))
  <1>3. n \in Nat /\ m = n + 1
    BY <1>1
  <1> HIDE DEF n, m
  <1>4. (\A j \in 1..n : j \in 1..m) /\ n + 1 \in 1..m /\ \A j \in 1..m : j \in 1..n \/ j = n + 1
    BY <1>3
  <1> QED
    BY <1>1, <1>2, <1>4 DEF n, m

LEMMA SameItems ==
    ASSUME NEW k, NEW l, l.items = k.items
    PROVE  \A u : UnitOK(l, u) <=> UnitOK(k, u)
  BY DEF UnitOK

LEMMA CourseBegin ==
    ASSUME NEW l, NEW n, NEW items \in Seq(Item), NEW together, NEW turns \in Seq(Nat),
           \A j \in 1..Len(turns) : turns[j] \in 1..Len(items),
           BeginFields(l, n, items, together, turns)
    PROVE  CourseOK(l)
  <1>1. Len([i \in 1..Len(items) |-> 0]) = Len(items)
    <2> DEFINE m == Len(items)
    <2>1. m \in Nat
      OBVIOUS
    <2> HIDE DEF m
    <2>2. Len([i \in 1..m |-> 0]) = m
      BY <2>1
    <2> QED
      BY <2>2 DEF m
  <1> QED
    BY <1>1 DEF BeginFields, CourseOK

LEMMA CourseParse ==
    ASSUME NEW k \in Call, NEW l \in Call, CourseOK(k), k.at = "next", k.plan = <<>>, k.todo # <<>>,
           NEW units, ParseFields(k, l, units), TurnUnits(Head(k.todo), k.items[Head(k.todo)].turn, units)
    PROVE  CourseOK(l)
  <1>1. k.todo \in Seq(Nat) /\ units \in Seq(Unit)
    BY DEF Call, TurnUnits
  <1>2. Head(k.todo) \in 1..Len(k.items)
    BY <1>1 DEF CourseOK
  <1>3. \A j \in 1..Len(units) : UnitOK(k, units[j])
    BY <1>1, <1>2 DEF TurnUnits, UnitOK
  <1>4. \A j \in 1..Len(l.todo) : l.todo[j] \in 1..Len(l.items)
    BY <1>1, TailElements DEF CourseOK, ParseFields
  <1>5. \A u \in l.units : UnitOK(l, u)
    BY <1>3, SameItems DEF CourseOK, ParseFields
  <1>6. \A j \in 1..Len(l.plan) : l.plan[j] \in l.units
    BY <1>1 DEF ParseFields
  <1>7. \A j \in 1..Len(l.staged) : UnitOK(l, l.staged[j])
    BY SameItems DEF CourseOK, ParseFields
  <1> QED
    BY <1>4, <1>5, <1>6, <1>7 DEF CourseOK, ParseFields

LEMMA CourseStage ==
    ASSUME NEW k \in Call, NEW l \in Call, CourseOK(k), k.plan # <<>>, k.at \in {"next", "tuple"},
           StageFields(k, l, Head(k.plan))
    PROVE  CourseOK(l)
  <1> DEFINE u == Head(k.plan)
  <1>1. /\ k.plan \in Seq(Unit) /\ k.staged \in Seq(Unit) /\ k.out \in Seq(Int)
        /\ l.staged \in Seq(Unit) /\ k.together \in BOOLEAN
    BY DEF Call
  <1>2. u = k.plan[1] /\ 1 \in 1..Len(k.plan) /\ u \in Unit
    BY <1>1
  <1>3. u \in k.units /\ UnitOK(k, u)
    BY <1>2 DEF CourseOK
  <1> HIDE DEF u
  <1>4. Len(l.out) = Len(l.items)
    <2>1. u.item \in 1..Len(k.out)
      BY <1>3 DEF UnitOK, CourseOK
    <2>2. -Len(Append(k.staged, u)) \in Int
      BY <1>1, <1>2
    <2>3. Len(Answer(k.out, u.item, -Len(Append(k.staged, u)))) = Len(k.out)
      BY <1>1, <2>1, <2>2, AnswerType
    <2> QED
      BY <2>3 DEF CourseOK, StageFields, u
  <1>5. \A j \in 1..Len(l.plan) : l.plan[j] \in l.units
    BY <1>1, TailElements DEF CourseOK, StageFields
  <1>6. \A j \in 1..Len(l.staged) : UnitOK(l, l.staged[j])
    <2>1. l.staged = Append(k.staged, u) /\ l.items = k.items
      BY DEF StageFields, u
    <2>2. \A j \in 1..Len(l.staged) : UnitOK(k, l.staged[j])
      BY <1>1, <1>2, <1>3, <2>1, AppendElements DEF CourseOK
    <2> QED
      BY <2>1, <2>2, SameItems
  <1>7. l.staged # <<>>
    BY <1>1, <1>2, AppendElements DEF StageFields, u
  <1>8. \A x \in l.units : UnitOK(l, x)
    BY SameItems DEF CourseOK, StageFields
  <1>9. l.todo = k.todo /\ l.items = k.items /\ l.together = k.together /\ l.part = k.part
        /\ l.at = IF k.together THEN "next" ELSE "insert"
    BY DEF StageFields
  <1>10. \A j \in 1..Len(l.todo) : l.todo[j] \in 1..Len(l.items)
    BY <1>9 DEF CourseOK
  <1> QED
    BY <1>1, <1>4, <1>5, <1>6, <1>7, <1>8, <1>9, <1>10 DEF CourseOK

LEMMA CourseReuse ==
    ASSUME NEW k \in Call, NEW l \in Call, CourseOK(k), k.plan # <<>>, k.at \in {"next", "tuple"},
           NEW ref \in Int, ReuseFields(k, l, Head(k.plan), ref)
    PROVE  CourseOK(l)
  <1> DEFINE u == Head(k.plan)
  <1>1. k.plan \in Seq(Unit) /\ k.out \in Seq(Int) /\ k.together \in BOOLEAN
    BY DEF Call
  <1>2. u = k.plan[1] /\ 1 \in 1..Len(k.plan)
    BY <1>1
  <1>3. u \in k.units /\ UnitOK(k, u)
    BY <1>2 DEF CourseOK
  <1> HIDE DEF u
  <1>4. Len(l.out) = Len(l.items)
    <2>1. u.item \in 1..Len(k.out)
      BY <1>3 DEF UnitOK, CourseOK
    <2>2. Len(Answer(k.out, u.item, ref)) = Len(k.out)
      BY <1>1, <2>1, AnswerType
    <2> QED
      BY <2>2 DEF CourseOK, ReuseFields, u
  <1>5. \A j \in 1..Len(l.plan) : l.plan[j] \in l.units
    BY <1>1, TailElements DEF CourseOK, ReuseFields
  <1>6. l.todo = k.todo /\ l.items = k.items /\ l.together = k.together /\ l.part = k.part
        /\ l.staged = k.staged /\ l.units = k.units
        /\ l.at = (IF k.together \/ u.tuple = NoTuple THEN "next" ELSE "link")
        /\ (u.tuple = NoTuple => l.found = k.found)
    BY DEF ReuseFields, u
  <1>7. \A j \in 1..Len(l.staged) : UnitOK(l, l.staged[j])
    BY <1>6, SameItems DEF CourseOK
  <1>8. \A x \in l.units : UnitOK(l, x)
    BY <1>6, SameItems DEF CourseOK
  <1>9. \A j \in 1..Len(l.todo) : l.todo[j] \in 1..Len(l.items)
    BY <1>6 DEF CourseOK
  <1> QED
    BY <1>1, <1>4, <1>5, <1>6, <1>7, <1>8, <1>9 DEF CourseOK

LEMMA CourseTuple ==
    ASSUME NEW k \in Call, NEW l \in Call, CourseOK(k), k.at = "next", k.plan # <<>>,
           ~IsRaw(Head(k.plan)), Head(k.plan).tuple # NoTuple, TupleFields(k, l)
    PROVE  CourseOK(l)
  BY SameItems DEF CourseOK, TupleFields

LEMMA CourseInsert ==
    ASSUME NEW k \in Call, NEW l \in Call, CourseOK(k), k.staged # <<>>, k.at \in {"insert", "next"},
           NEW base, InsertFields(k, l, base)
    PROVE  CourseOK(l)
  <1>1. k.out \in Seq(Int)
    BY DEF Call
  <1>2. Len([i \in DOMAIN k.out |-> Resolve(k.out[i], base)]) = Len(k.out)
    <2> DEFINE m == Len(k.out)
    <2>1. m \in Nat /\ DOMAIN k.out = 1..m
      BY <1>1
    <2> HIDE DEF m
    <2>2. Len([i \in 1..m |-> Resolve(k.out[i], base)]) = m
      BY <2>1
    <2> QED
      BY <2>1, <2>2 DEF m
  <1> QED
    BY <1>2, SameItems DEF CourseOK, InsertFields

LEMMA CourseUpsert ==
    ASSUME NEW k \in Call, NEW l \in Call, CourseOK(k), k.at = "upsert", UpsertFields(k, l)
    PROVE  CourseOK(l)
  BY SameItems DEF CourseOK, UpsertFields

LEMMA CourseLink ==
    ASSUME NEW k \in Call, NEW l \in Call, CourseOK(k), k.staged = <<>>, LinkFields(k, l)
    PROVE  CourseOK(l)
  BY SameItems DEF CourseOK, LinkFields

LEMMA CoursePlain ==
    ASSUME NEW k \in Call, NEW l \in Call, CourseOK(k), k.at = "next", ~k.together, k.plan = <<>>,
           NEW plain \in Seq(Nat), plain # <<>>, \A j \in 1..Len(plain) : plain[j] \in 1..Len(k.items),
           PlainFields(k, l, plain)
    PROVE  CourseOK(l)
  <1> DEFINE unit(j) == RawUnit(plain[j], k.items[plain[j]].turn)
  <1>1. k.out \in Seq(Int) /\ k.items \in Seq(Item)
    BY DEF Call
  <1>2. ASSUME NEW j \in 1..Len(plain) PROVE UnitOK(k, unit(j))
    <2>1. plain[j] \in 1..Len(k.items) /\ plain[j] \in Nat
      BY ElementOfSeq
    <2>2. k.items[plain[j]] \in Item
      BY <1>1, <2>1, ElementOfSeq
    <2> QED
      BY <2>1, <2>2, RawUnitType DEF UnitOK, Item
  <1>3. l.staged = [j \in 1..Len(plain) |-> unit(j)] /\ l.items = k.items
        /\ l.units = k.units \cup {unit(j) : j \in 1..Len(plain)}
    BY DEF PlainFields
  <1> HIDE DEF unit
  <1>4. Len(l.staged) = Len(plain) /\ \A j \in 1..Len(plain) : l.staged[j] = unit(j)
    <2> DEFINE m == Len(plain)
    <2>1. m \in Nat
      OBVIOUS
    <2> HIDE DEF m
    <2>2. Len([j \in 1..m |-> unit(j)]) = m
      BY <2>1
    <2> QED
      BY <1>3, <2>2 DEF m
  <1>5. \A j \in 1..Len(l.staged) : UnitOK(l, l.staged[j])
    BY <1>2, <1>3, <1>4, SameItems
  <1>6. \A u \in l.units : UnitOK(l, u)
    BY <1>2, <1>3, SameItems DEF CourseOK
  <1>7. Len(l.out) = Len(k.out)
    <2> DEFINE m == Len(k.out)
               x(i) == PlainRef(plain, i, k.out[i])
    <2>1. m \in Nat /\ DOMAIN k.out = 1..m
      BY <1>1
    <2>2. l.out = [i \in DOMAIN k.out |-> x(i)]
      BY DEF PlainFields
    <2> HIDE DEF m, x
    <2>3. Len([i \in 1..m |-> x(i)]) = m
      BY <2>1
    <2> QED
      BY <2>1, <2>2, <2>3 DEF m
  <1>8. l.staged # <<>>
    BY <1>4
  <1>9. l.at = "insert" /\ l.together = k.together /\ l.todo = k.todo /\ l.plan = k.plan
    BY DEF PlainFields
  <1>10. \A j \in 1..Len(l.todo) : l.todo[j] \in 1..Len(l.items)
    BY <1>3, <1>9 DEF CourseOK
  <1>11. \A j \in 1..Len(l.plan) : l.plan[j] \in l.units
    BY <1>9
  <1> QED
    BY <1>3, <1>5, <1>6, <1>7, <1>8, <1>9, <1>10, <1>11 DEF CourseOK

LEMMA CourseDerive ==
    ASSUME NEW k \in Call, NEW l \in Call, CourseOK(k), k.at = "next", ~k.together,
           NEW turns, \A j \in 1..Len(turns) : turns[j] \in 1..Len(k.items), DeriveFields(k, l, turns)
    PROVE  CourseOK(l)
  BY SameItems DEF CourseOK, DeriveFields

-----------------------------------------------------------------------------
(* References stay good, those of the client that steps and the others'.   *)

LEMMA OthersKeep ==
    ASSUME Inv, NEW c \in Clients, Grow(c), NEW k \in Call
    PROVE  /\ RefsOK(k) => RefsOK(k)'
           /\ InsertedOK(k) => InsertedOK(k)'
           /\ OpenOK(k) /\ (call[c].at = "idle" \/ k.n # call[c].n) => OpenOK(k)'
  <1>1. \A r \in Ids : r \in Ids' /\ rows'[r] = rows[r]
    BY DEF Grow, Ids, Inv, Types
  <1>2. \A i, ref : RefOK(k, i, ref) => RefOK(k, i, ref)'
    BY <1>1 DEF RefOK
  <1>3. RefsOK(k) => RefsOK(k)'
    BY <1>2 DEF RefsOK
  <1>4. InsertedOK(k) => InsertedOK(k)'
    <2> SUFFICES ASSUME InsertedOK(k), k.at = "upsert" PROVE InsertedOK(k)'
      BY DEF InsertedOK
    <2>1. k.base \in Nat /\ Len(k.staged) \in Nat /\ Len(rows) \in Nat /\ Len(rows') \in Nat
          /\ Len(rows) <= Len(rows')
      BY DEF Call, Inv, Types, Grow
    <2>2. k.base + Len(k.staged) <= Len(rows)
      BY DEF InsertedOK
    <2>3. \A j \in 1..Len(k.staged) : k.base + j \in Ids
      BY <2>1, <2>2 DEF Ids
    <2>4. k.base + Len(k.staged) <= Len(rows')
      BY <2>1, <2>2
    <2>5. \A j \in 1..Len(k.staged) : rows'[k.base + j] = rows[k.base + j]
      BY <1>1, <2>3
    <2> QED
      BY <2>4, <2>5 DEF InsertedOK
  <1>5. OpenOK(k) /\ (call[c].at = "idle" \/ k.n # call[c].n) => OpenOK(k)'
    BY DEF OpenOK, Grow, Calls, Inv, Types
  <1> QED
    BY <1>3, <1>4, <1>5

(* A reference survives when memories are only added to what is staged. *)
LEMMA RefMove ==
    ASSUME NEW k \in Call, NEW l \in Call, l.items = k.items, rows' = rows, l.at # "upsert",
           Len(k.staged) <= Len(l.staged), \A j \in 1..Len(k.staged) : l.staged[j] = k.staged[j],
           NEW i, NEW ref, RefOK(k, i, ref)
    PROVE  RefOK(l, i, ref)'
  <1>1. Len(k.staged) \in Nat /\ Len(l.staged) \in Nat
    BY DEF Call
  <1> QED
    BY <1>1 DEF RefOK, Ids

LEMMA RefsMove ==
    ASSUME NEW k \in Call, NEW l \in Call, l.items = k.items, rows' = rows, l.at # "upsert",
           l.staged = k.staged, l.found = k.found, l.out = k.out, RefsOK(k)
    PROVE  RefsOK(l)'
  <1>1. Len(k.staged) \in Nat
    BY DEF Call
  <1>2. \A i, ref : RefOK(k, i, ref) => RefOK(l, i, ref)'
    BY <1>1, RefMove
  <1> QED
    BY <1>2 DEF RefsOK

(* References with one more, to ref, that item u.item asked for. *)
LEMMA RefsMore ==
    ASSUME NEW k \in Call, NEW l \in Call, l.items = k.items, rows' = rows, l.at # "upsert",
           Len(k.staged) <= Len(l.staged), \A j \in 1..Len(k.staged) : l.staged[j] = k.staged[j],
           NEW u \in Unit, u.item \in 1..Len(k.items), u.item \in 1..Len(k.out), NEW ref \in Int,
           RefOK(l, u.item, ref)',
           l.found = (IF u.tuple = NoTuple THEN k.found
                      ELSE k.found \cup {[item |-> u.item, tuple |-> u.tuple, ref |-> ref]}),
           l.out = Answer(k.out, u.item, ref), RefsOK(k)
    PROVE  RefsOK(l)'
  <1>1. \A i, r : RefOK(k, i, r) => RefOK(l, i, r)'
    BY RefMove
  <1>2. k.out \in Seq(Int)
    BY DEF Call
  <1>3. \A i \in 1..Len(l.out) : l.out[i] # 0 => RefOK(l, i, l.out[i])'
    <2>1. /\ Len(l.out) = Len(k.out)
          /\ \A j \in 1..Len(k.out) : l.out[j] = IF j = u.item /\ k.out[u.item] = 0 THEN ref ELSE k.out[j]
      BY <1>2, AnswerType
    <2>2. \A i \in 1..Len(k.out) : k.out[i] # 0 => RefOK(k, i, k.out[i])
      BY Zenon DEF RefsOK
    <2> QED
      BY <1>1, <2>1, <2>2, Zenon
  <1>4. ASSUME NEW f \in l.found
        PROVE  f.item \in 1..Len(l.items) /\ f.tuple # NoTuple /\ RefOK(l, f.item, f.ref)'
    <2>1. CASE f \in k.found
      BY <1>1, <2>1 DEF RefsOK
    <2>2. CASE f \notin k.found
      <3>1. u.tuple # NoTuple /\ f = [item |-> u.item, tuple |-> u.tuple, ref |-> ref]
        BY <2>2
      <3>2. f.item = u.item /\ f.tuple = u.tuple /\ f.ref = ref
        BY <3>1
      <3> QED
        BY <3>1, <3>2
    <2> QED
      BY <2>1, <2>2
  <1> QED
    BY <1>3, <1>4 DEF RefsOK

LEMMA RefsStage ==
    ASSUME NEW k \in Call, NEW l \in Call, CourseOK(k), RefsOK(k), k.plan # <<>>,
           StageFields(k, l, Head(k.plan)), rows' = rows
    PROVE  RefsOK(l)'
  <1> DEFINE u == Head(k.plan)
             ref == -Len(Append(k.staged, u))
  <1>1. k.plan \in Seq(Unit) /\ k.staged \in Seq(Unit) /\ k.out \in Seq(Int)
    BY DEF Call
  <1>2. u \in Unit /\ UnitOK(k, u)
    <2>1. u = k.plan[1] /\ 1 \in 1..Len(k.plan) /\ u \in Unit
      BY <1>1
    <2> QED
      BY <2>1 DEF CourseOK
  <1>3. u.item \in 1..Len(k.items) /\ u.item \in 1..Len(k.out)
    BY <1>2 DEF UnitOK, CourseOK
  <1> HIDE DEF u
  <1>4. /\ l.items = k.items /\ l.staged = Append(k.staged, u)
        /\ l.at # "upsert" /\ l.out = Answer(k.out, u.item, ref)
        /\ l.found = IF u.tuple = NoTuple THEN k.found
                     ELSE k.found \cup {[item |-> u.item, tuple |-> u.tuple, ref |-> ref]}
    BY DEF StageFields, u
  <1>5. /\ Len(k.staged) <= Len(l.staged) /\ \A j \in 1..Len(k.staged) : l.staged[j] = k.staged[j]
        /\ ref \in Int /\ -ref \in 1..Len(l.staged) /\ l.staged[-ref] = u
    <2>1. /\ Len(Append(k.staged, u)) = Len(k.staged) + 1 /\ Len(k.staged) \in Nat
          /\ \A j \in 1..Len(k.staged) : Append(k.staged, u)[j] = k.staged[j]
          /\ Append(k.staged, u)[Len(k.staged) + 1] = u
      BY <1>1, <1>2, AppendElements
    <2> QED
      BY <1>4, <2>1
  <1> HIDE DEF ref
  <1>6. RefOK(l, u.item, ref)'
    BY <1>4, <1>5 DEF RefOK
  <1> QED
    BY <1>2, <1>3, <1>4, <1>5, <1>6, RefsMore, Zenon

(* What the two look-ups find belongs to the item's tenant. *)
LEMMA ReusableRef ==
    ASSUME Inv, NEW c \in Clients, CourseOK(call[c]), call[c].at # "upsert",
           NEW u \in Unit, NEW ref \in Int, Reusable(c, u, ref)
    PROVE  RefOK(call[c], u.item, ref)
  <1>1. CASE -ref \in PendingMatches(c, u)
    BY <1>1, Zenon DEF PendingMatches, TenantOf, RefOK
  <1>2. CASE ref \in RowsWithKey(TenantOf(c, u.item), u.key)
    BY <1>2 DEF RowsWithKey, TenantOf, RefOK, Ids
  <1>3. CASE ref \in RowsWithTuple(TenantOf(c, u.item), u.tuple)
    <2>1. PICK e \in links : e.tenant = TenantOf(c, u.item) /\ e.row = ref
      BY <1>3 DEF RowsWithTuple
    <2>2. e.row \in Ids /\ rows[e.row].tenant = e.tenant
      BY DEF Inv, StoresOK
    <2> QED
      BY <2>1, <2>2 DEF TenantOf, RefOK
  <1> QED
    BY <1>1, <1>2, <1>3 DEF Reusable

LEMMA RefsReuse ==
    ASSUME NEW k \in Call, NEW l \in Call, CourseOK(k), RefsOK(k), k.plan # <<>>, NEW ref \in Int,
           RefOK(k, Head(k.plan).item, ref), ReuseFields(k, l, Head(k.plan), ref), rows' = rows
    PROVE  RefsOK(l)'
  <1> DEFINE u == Head(k.plan)
  <1>1. k.plan \in Seq(Unit) /\ Len(k.staged) \in Nat
    BY DEF Call
  <1>2. u \in Unit /\ UnitOK(k, u)
    <2>1. u = k.plan[1] /\ 1 \in 1..Len(k.plan) /\ u \in Unit
      BY <1>1
    <2> QED
      BY <2>1 DEF CourseOK
  <1>3. u.item \in 1..Len(k.items) /\ u.item \in 1..Len(k.out)
    BY <1>2 DEF UnitOK, CourseOK
  <1>4. RefOK(k, u.item, ref)
    OBVIOUS
  <1> HIDE DEF u
  <1>5. /\ l.items = k.items /\ l.staged = k.staged
        /\ l.at # "upsert" /\ l.out = Answer(k.out, u.item, ref)
        /\ l.found = IF u.tuple = NoTuple THEN k.found
                     ELSE k.found \cup {[item |-> u.item, tuple |-> u.tuple, ref |-> ref]}
    BY DEF ReuseFields, u
  <1>6. Len(k.staged) <= Len(l.staged) /\ \A j \in 1..Len(k.staged) : l.staged[j] = k.staged[j]
    BY <1>1, <1>5
  <1>7. RefOK(l, u.item, ref)'
    BY <1>4, <1>5, <1>6, RefMove
  <1> QED
    BY <1>2, <1>3, <1>5, <1>6, <1>7, RefsMore, Zenon

LEMMA ResolvedOut ==
    ASSUME NEW out \in Seq(Int), NEW base \in Nat
    PROVE  LET res == [i \in DOMAIN out |-> Resolve(out[i], base)]
           IN  Len(res) = Len(out) /\ \A i \in 1..Len(out) : res[i] = Resolve(out[i], base)
  <1> DEFINE m == Len(out)
             res == [i \in DOMAIN out |-> Resolve(out[i], base)]
  <1>1. m \in Nat /\ DOMAIN out = 1..m
    OBVIOUS
  <1> HIDE DEF m
  <1>2. Len([i \in 1..m |-> Resolve(out[i], base)]) = m
    BY <1>1
  <1> QED
    BY <1>1, <1>2 DEF m

LEMMA ResolvedFound ==
    ASSUME NEW found \in SUBSET Found, NEW base \in Nat,
           NEW g \in {[f EXCEPT !.ref = Resolve(f.ref, base)] : f \in found}
    PROVE  \E f \in found : g.item = f.item /\ g.tuple = f.tuple /\ g.ref = Resolve(f.ref, base)
  <1>1. PICK f \in found : g = [f EXCEPT !.ref = Resolve(f.ref, base)]
    OBVIOUS
  <1>2. f \in Found /\ f.ref \in Int
    BY DEF Found
  <1>3. Resolve(f.ref, base) \in Int
    BY <1>2, ResolveType
  <1> QED
    BY <1>1, <1>2, <1>3, FoundUpdate

(* After the insert every reference is to a row. *)
LEMMA RefInsert ==
    ASSUME Inv, NEW c \in Clients, Inserts(c), NEW i \in 1..Len(call[c].items), NEW ref \in Int,
           RefOK(call[c], i, ref)
    PROVE  /\ Resolve(ref, Len(rows)) \in Ids' /\ rows'[Resolve(ref, Len(rows))].tenant = call[c].items[i].tenant
           /\ ref \in Ids => Resolve(ref, Len(rows)) = ref
           /\ ref \notin Ids => /\ -ref \in 1..Len(call[c].staged)
                                /\ Resolve(ref, Len(rows)) = Len(rows) + (-ref)
                                /\ rows'[Resolve(ref, Len(rows))] = Made(call[c])[-ref]
  <1> DEFINE k == call[c]
             base == Len(rows)
  <1>1. Types /\ k \in Call /\ base \in Nat /\ Len(k.staged) \in Nat
    BY ItemsType DEF Inv, Types
  <1>2. CourseOK(k)
    BY DEF Inv, CallsOK, Inserts, AllStaged
  <1>3. CASE ref \in Ids
    <2>1. Resolve(ref, base) = ref
      BY <1>3, <1>1 DEF Ids, Resolve
    <2>2. rows[ref].tenant = k.items[i].tenant
      BY <1>1, <1>3 DEF RefOK, Ids
    <2>3. ref \in Ids' /\ rows'[ref] = rows[ref]
      BY <1>1, <1>3, RowsAfterInsert DEF Ids
    <2> QED
      BY <1>3, <2>1, <2>2, <2>3
  <1>4. CASE ref \notin Ids
    <2>1. -ref \in 1..Len(k.staged) /\ k.items[k.staged[-ref].item].tenant = k.items[i].tenant
      BY <1>4 DEF RefOK
    <2>2. Resolve(ref, base) = base + (-ref)
      BY <1>1, <2>1 DEF Resolve
    <2>3. base + (-ref) \in Ids' /\ rows'[base + (-ref)] = Made(k)[-ref]
      BY <1>1, <2>1, RowsAfterInsert DEF Ids
    <2>4. Made(k)[-ref].tenant = k.items[k.staged[-ref].item].tenant
      BY <1>1, <1>2, <2>1, MadeType, Zenon DEF CourseOK, UnitOK
    <2> QED
      BY <1>4, <2>1, <2>2, <2>3, <2>4
  <1> QED
    BY <1>3, <1>4

LEMMA RefsInsert ==
    ASSUME Inv, NEW c \in Clients, Inserts(c), NEW l, l = call'[c], l \in Call
    PROVE  RefsOK(l)'
  <1> DEFINE k == call[c]
             base == Len(rows)
  <1>1. Types /\ k \in Call /\ base \in Nat /\ k.out \in Seq(Int) /\ k.found \in SUBSET Found
    BY ItemsType DEF Inv, Types
  <1>2. CourseOK(k) /\ RefsOK(k)
    BY DEF Inv, CallsOK, Inserts, AllStaged
  <1>3. /\ l.items = k.items
        /\ l.found = {[f EXCEPT !.ref = Resolve(f.ref, base)] : f \in k.found}
        /\ l.out = [i \in DOMAIN k.out |-> Resolve(k.out[i], base)]
    BY DEF Inserts, InsertFields
  <1>4. ASSUME NEW g \in l.found
        PROVE  g.item \in 1..Len(l.items) /\ g.tuple # NoTuple /\ RefOK(l, g.item, g.ref)'
    <2>1. PICK f \in k.found : g.item = f.item /\ g.tuple = f.tuple /\ g.ref = Resolve(f.ref, base)
      BY <1>1, <1>3, ResolvedFound, Zenon
    <2>2. f.item \in 1..Len(k.items) /\ f.tuple # NoTuple /\ RefOK(k, f.item, f.ref) /\ f.ref \in Int
      BY <1>1, <1>2 DEF RefsOK, Found
    <2>3. Resolve(f.ref, base) \in Ids' /\ rows'[Resolve(f.ref, base)].tenant = k.items[f.item].tenant
      BY <2>2, RefInsert
    <2> QED
      BY <1>3, <2>1, <2>2, <2>3 DEF RefOK
  <1>5. ASSUME NEW i \in 1..Len(l.out), l.out[i] # 0
        PROVE  RefOK(l, i, l.out[i])'
    <2>1. i \in 1..Len(k.out) /\ l.out[i] = Resolve(k.out[i], base)
      BY <1>1, <1>3, ResolvedOut
    <2>2. k.out[i] \in Int /\ i \in 1..Len(k.items)
      BY <1>1, <1>2, <2>1, ElementOfSeq, Zenon DEF CourseOK
    <2>3. k.out[i] # 0
      BY <1>1, <1>5, <2>1 DEF Resolve
    <2>4. RefOK(k, i, k.out[i])
      BY <1>2, <2>1, <2>3 DEF RefsOK
    <2>5. l.out[i] \in Ids' /\ rows'[l.out[i]].tenant = k.items[i].tenant
      BY <2>1, <2>2, <2>4, RefInsert
    <2> QED
      BY <1>3, <2>5, Zenon DEF RefOK
  <1> QED
    BY <1>4, <1>5 DEF RefsOK

LEMMA InsertedInsert ==
    ASSUME Inv, NEW c \in Clients, Inserts(c), NEW l, l = call'[c], l \in Call
    PROVE  InsertedOK(l)'
  <1> DEFINE k == call[c]
             base == Len(rows)
  <1>1. Types /\ k \in Call /\ base \in Nat /\ Len(k.staged) \in Nat /\ CourseOK(k)
    BY ItemsType DEF Inv, Types, CallsOK, Inserts, AllStaged
  <1>2. /\ l.items = k.items /\ l.staged = k.staged /\ l.base = base /\ l.n = k.n
    BY DEF Inserts, InsertFields
  <1>3. l.base + Len(l.staged) <= Len(rows')
    BY <1>1, <1>2, RowsAfterInsert
  <1>4. ASSUME NEW j \in 1..Len(l.staged)
        PROVE  /\ rows'[l.base + j].tenant = l.items[l.staged[j].item].tenant
               /\ rows'[l.base + j].key = l.staged[j].key
               /\ rows'[l.base + j].tuple = l.staged[j].tuple
               /\ rows'[l.base + j].call = l.n
    <2>1. rows'[base + j] = Made(k)[j]
      BY <1>2, RowsAfterInsert
    <2>2. /\ Made(k)[j].tenant = k.items[k.staged[j].item].tenant /\ Made(k)[j].key = k.staged[j].key
          /\ Made(k)[j].tuple = k.staged[j].tuple /\ Made(k)[j].call = k.n
      <3>1. (\A q \in 1..Len(k.staged) : k.staged[q].item \in 1..Len(k.items)) /\ j \in 1..Len(k.staged)
        BY <1>1, <1>2 DEF CourseOK, UnitOK
      <3> QED
        BY <1>1, <3>1, MadeType, Zenon
    <2> QED
      BY <1>2, <2>1, <2>2
  <1> QED
    BY <1>3, <1>4 DEF InsertedOK

(* Once nothing is staged, or what was staged is inserted, references are to rows. *)
LEMMA RefsToRows ==
    ASSUME NEW k \in Call, NEW l \in Call, RefsOK(k), k.at = "upsert" \/ k.staged = <<>>,
           l.items = k.items, l.found \subseteq k.found, l.out = k.out, rows' = rows
    PROVE  RefsOK(l)'
  <1>1. \A i, ref : RefOK(k, i, ref) => RefOK(l, i, ref)'
    BY DEF RefOK, Ids
  <1> QED
    BY <1>1 DEF RefsOK

LEMMA RefsPlain ==
    ASSUME NEW k \in Call, NEW l \in Call, CourseOK(k), RefsOK(k), k.staged = <<>>,
           NEW plain \in Seq(Nat), \A j \in 1..Len(plain) : plain[j] \in 1..Len(k.items),
           PlainFields(k, l, plain), rows' = rows
    PROVE  RefsOK(l)'
  <1>1. k.out \in Seq(Int) /\ k.items \in Seq(Item)
    BY DEF Call
  <1>2. /\ l.items = k.items /\ l.found = k.found /\ l.at = "insert"
        /\ l.staged = [j \in 1..Len(plain) |-> RawUnit(plain[j], k.items[plain[j]].turn)]
        /\ l.out = [i \in DOMAIN k.out |-> PlainRef(plain, i, k.out[i])]
    BY DEF PlainFields
  <1>3. \A i, ref : RefOK(k, i, ref) => RefOK(l, i, ref)'
    BY <1>2 DEF RefOK, Ids
  <1>4. Len(l.staged) = Len(plain) /\ \A j \in 1..Len(plain) : l.staged[j].item = plain[j]
    <2> DEFINE m == Len(plain)
               unit(j) == RawUnit(plain[j], k.items[plain[j]].turn)
    <2>1. m \in Nat
      OBVIOUS
    <2>2. \A j \in 1..m : unit(j).item = plain[j]
      BY DEF RawUnit
    <2> HIDE DEF m, unit
    <2>3. /\ Len([j \in 1..m |-> unit(j)]) = m
          /\ \A j \in 1..m : [q \in 1..m |-> unit(q)][j] = unit(j)
      BY <2>1
    <2>4. l.staged = [j \in 1..m |-> unit(j)]
      BY <1>2 DEF m, unit
    <2>5. Len(l.staged) = m /\ \A j \in 1..m : l.staged[j].item = plain[j]
      BY <2>2, <2>3, <2>4, Zenon
    <2> QED
      BY <2>5 DEF m
  <1>5. DOMAIN l.out = 1..Len(k.out) /\ Len(l.out) = Len(k.out)
    <2>1. l.out \in Seq(Int) /\ DOMAIN k.out = 1..Len(k.out)
      BY <1>1 DEF Call
    <2>2. DOMAIN l.out = DOMAIN k.out
      BY <1>2
    <2> QED
      BY <2>1, <2>2
  <1>6. ASSUME NEW i \in 1..Len(l.out), l.out[i] # 0
        PROVE  RefOK(l, i, l.out[i])'
    <2>1. k.out[i] \in Int
      BY <1>1, <1>5, ElementOfSeq
    <2>2. l.out[i] = PlainRef(plain, i, k.out[i])
      BY <1>1, <1>2, <1>5
    <2> DEFINE y == l.out[i]
               x == k.out[i]
    <2>3. /\ (\E j \in 1..Len(plain) : plain[j] = i) => -y \in 1..Len(plain) /\ plain[-y] = i
          /\ ~(\E j \in 1..Len(plain) : plain[j] = i) => y = x
      BY <2>1, <2>2, PlainOut
    <2>4. CASE \E j \in 1..Len(plain) : plain[j] = i
      BY <1>2, <1>4, <2>3, <2>4, Zenon DEF RefOK
    <2>5. CASE ~(\E j \in 1..Len(plain) : plain[j] = i)
      <3>1. l.out[i] = k.out[i] /\ i \in 1..Len(k.out)
        BY <1>5, <2>3, <2>5
      <3> QED
        BY <1>3, <1>6, <3>1 DEF RefsOK
    <2> QED
      BY <2>4, <2>5
  <1> QED
    BY <1>2, <1>3, <1>6, Zenon DEF RefsOK

LEMMA OwnRecord ==
    ASSUME Inv, NEW c \in Clients, Changes(c), NEW l, l = call'[c], l.at # "idle"
    PROVE  CourseOK(l) /\ RefsOK(l)' /\ InsertedOK(l)' /\ OpenOK(l)'
  <1> DEFINE k == call[c]
             Goal == CourseOK(l) /\ RefsOK(l)' /\ InsertedOK(l)' /\ OpenOK(l)'
  <1> SUFFICES Goal
    OBVIOUS
  <1>1. Types /\ k \in Call /\ l \in Call /\ k.staged \in Seq(Unit)
    BY ItemsType DEF Inv, Changes
  <1>2. k.at # "idle" => CourseOK(k) /\ RefsOK(k) /\ InsertedOK(k) /\ OpenOK(k)
    BY DEF Inv, CallsOK
  <1>3. ASSUME l.n = k.n, l.items = k.items, replies' = replies, k.at # "idle" PROVE OpenOK(l)'
    BY <1>2, <1>3 DEF OpenOK, Calls
  <1>4. ASSUME l.at # "upsert" PROVE InsertedOK(l)'
    BY <1>4 DEF InsertedOK
  <1>5. ASSUME NEW items \in Batches, NEW together, NEW turns, Begins(c, items, together, turns)
        PROVE  Goal
    <2>1. items \in Seq(Item) /\ Len(items) \in Nat
      BY BatchItems
    <2>2. BeginFields(l, Len(replies) + 1, items, together, turns) /\ turns \in Seq(Nat)
          /\ \A j \in 1..Len(turns) : turns[j] \in 1..Len(items)
      BY <1>5 DEF Begins, ParserItems
    <2>3. CourseOK(l)
      BY <2>1, <2>2, CourseBegin
    <2>4. l.found = {} /\ l.at # "upsert" /\ l.n = Len(replies) + 1 /\ l.items = items
          /\ l.out = [i \in 1..Len(items) |-> 0]
      BY <2>2 DEF BeginFields
    <2>5. \A i \in 1..Len(l.out) : l.out[i] = 0
      <3>1. Len(l.out) = Len(l.items)
        BY <2>3 DEF CourseOK
      <3> QED
        BY <2>4, <3>1
    <2>6. RefsOK(l)'
      BY <2>4, <2>5 DEF RefsOK
    <2>7. OpenOK(l)'
      <3>1. replies \in Seq(Reply) /\ replies' \in Seq(Reply) /\ Len(replies') = Len(replies) + 1
        BY <1>1, <1>5, RepliesAfterBegin DEF Types
      <3> QED
        BY <1>5, <2>4, <3>1, RepliesAfterBegin DEF OpenOK, Calls
    <2> QED
      BY <1>4, <2>3, <2>4, <2>6, <2>7
  <1>6. ASSUME NEW units, ParsesTurn(c, units) PROVE Goal
    <2>1. /\ k.at = "next" /\ k.plan = <<>> /\ k.todo # <<>> /\ ParseFields(k, l, units)
          /\ TurnUnits(Head(k.todo), k.items[Head(k.todo)].turn, units)
          /\ replies' = replies /\ rows' = rows
      BY <1>6 DEF ParsesTurn, Quiet
    <2>2. CourseOK(l)
      BY <1>1, <1>2, <2>1, CourseParse
    <2>3. l.items = k.items /\ l.n = k.n /\ l.at = "next" /\ l.staged = k.staged /\ l.found = k.found /\ l.out = k.out
      BY <2>1 DEF ParseFields
    <2>4. RefsOK(l)'
      BY <1>1, <1>2, <2>1, <2>3, RefsMove
    <2> QED
      BY <1>3, <1>4, <2>1, <2>2, <2>3, <2>4
  <1>7. CASE Stages(c)
    <2>1. /\ k.at \in {"next", "tuple"} /\ k.plan # <<>> /\ StageFields(k, l, Head(k.plan))
          /\ replies' = replies /\ rows' = rows
      BY <1>7 DEF Stages, AtHead, Quiet, Head1
    <2>2. CourseOK(l) /\ RefsOK(l)'
      BY <1>1, <1>2, <2>1, CourseStage, RefsStage
    <2>3. l.items = k.items /\ l.n = k.n /\ l.at # "upsert"
      BY <2>1 DEF StageFields
    <2> QED
      BY <1>3, <1>4, <2>1, <2>2, <2>3
  <1>8. ASSUME NEW ref, Reuses(c, ref) PROVE Goal
    <2>1. /\ k.at \in {"next", "tuple"} /\ k.plan # <<>> /\ ReuseFields(k, l, Head(k.plan), ref) /\ ref \in Int
          /\ replies' = replies /\ rows' = rows /\ Reusable(c, Head1(c), ref)
      BY <1>8 DEF Reuses, AtHead, Quiet, Head1
    <2>2. CourseOK(k) /\ RefsOK(k)
      BY <1>2, <2>1
    <2>3. RefOK(k, Head(k.plan).item, ref)
      <3>1. Head1(c) \in Unit /\ Head1(c) = Head(k.plan)
        BY <1>1, <2>1, <2>2, HeadUnit DEF Head1
      <3> QED
        BY <2>1, <2>2, <3>1, ReusableRef
    <2>4. CourseOK(l) /\ RefsOK(l)'
      BY <1>1, <2>1, <2>2, <2>3, CourseReuse, RefsReuse, Zenon
    <2>5. l.items = k.items /\ l.n = k.n /\ l.at # "upsert"
      BY <2>1 DEF ReuseFields
    <2> QED
      BY <1>3, <1>4, <2>1, <2>4, <2>5
  <1>9. CASE AsksTuple(c)
    <2>1. /\ k.at = "next" /\ k.plan # <<>> /\ ~IsRaw(Head(k.plan)) /\ Head(k.plan).tuple # NoTuple
          /\ TupleFields(k, l) /\ replies' = replies /\ rows' = rows
      BY <1>9 DEF AsksTuple, Quiet, Head1
    <2>2. l.items = k.items /\ l.n = k.n /\ l.at = "tuple" /\ l.staged = k.staged /\ l.found = k.found /\ l.out = k.out
      BY <2>1 DEF TupleFields
    <2>3. CourseOK(l) /\ RefsOK(l)'
      BY <1>1, <1>2, <2>1, <2>2, CourseTuple, RefsMove
    <2> QED
      BY <1>3, <1>4, <2>1, <2>2, <2>3
  <1>10. CASE Inserts(c)
    <2>1. /\ k.at \in {"insert", "next"} /\ k.staged # <<>> /\ InsertFields(k, l, Len(rows))
          /\ replies' = replies
      BY <1>10 DEF Inserts, AllStaged
    <2>2. CourseOK(l)
      BY <1>1, <1>2, <2>1, CourseInsert
    <2>3. l.items = k.items /\ l.n = k.n
      BY <2>1 DEF InsertFields
    <2>4. RefsOK(l)' /\ InsertedOK(l)'
      BY <1>1, <1>10, RefsInsert, InsertedInsert
    <2> QED
      BY <1>3, <2>1, <2>2, <2>3, <2>4
  <1>11. CASE Upserts(c)
    <2>1. k.at = "upsert" /\ UpsertFields(k, l) /\ replies' = replies /\ rows' = rows
      BY <1>11 DEF Upserts
    <2>2. l.items = k.items /\ l.n = k.n /\ l.at # "upsert" /\ l.found = k.found /\ l.out = k.out
      BY <2>1 DEF UpsertFields
    <2>3. CourseOK(l) /\ RefsOK(l)'
      BY <1>1, <1>2, <2>1, <2>2, CourseUpsert, RefsToRows
    <2> QED
      BY <1>3, <1>4, <2>1, <2>2, <2>3
  <1>12. CASE StoresFacts(c)
    <2>1. LinkFields(k, l) /\ replies' = replies /\ rows' = rows /\ k.at # "idle"
      BY <1>12 DEF StoresFacts, AllStaged
    <2>2. k.staged = <<>>
      BY <1>2, <1>12, <2>1 DEF StoresFacts, CourseOK
    <2>3. l.items = k.items /\ l.n = k.n /\ l.at # "upsert" /\ l.found \subseteq k.found /\ l.out = k.out
      BY <2>1 DEF LinkFields
    <2>4. CourseOK(l) /\ RefsOK(l)'
      BY <1>1, <1>2, <2>1, <2>2, <2>3, CourseLink, RefsToRows
    <2> QED
      BY <1>3, <1>4, <2>1, <2>3, <2>4
  <1>13. ASSUME NEW plain, StagesPlain(c, plain) PROVE Goal
    <2>1. /\ k.at = "next" /\ ~k.together /\ k.plan = <<>> /\ plain \in Seq(Nat) /\ plain # <<>>
          /\ PlainFields(k, l, plain) /\ replies' = replies /\ rows' = rows
      BY <1>13 DEF StagesPlain, PartDone, Quiet
    <2>2. \A j \in 1..Len(plain) : plain[j] \in 1..Len(k.items)
      BY <1>13 DEF StagesPlain, PlainItems
    <2>3. k.staged = <<>>
      BY <1>2, <2>1 DEF CourseOK
    <2>4. CourseOK(l) /\ RefsOK(l)'
      BY <1>1, <1>2, <2>1, <2>2, <2>3, CoursePlain, RefsPlain
    <2>5. l.items = k.items /\ l.n = k.n /\ l.at # "upsert"
      BY <2>1 DEF PlainFields
    <2> QED
      BY <1>3, <1>4, <2>1, <2>4, <2>5
  <1>14. ASSUME NEW turns, Derives(c, turns) PROVE Goal
    <2>1. k.at = "next" /\ ~k.together /\ DeriveFields(k, l, turns) /\ replies' = replies /\ rows' = rows
      BY <1>14 DEF Derives, PartDone, Quiet
    <2>2. \A j \in 1..Len(turns) : turns[j] \in 1..Len(k.items)
      BY <1>14 DEF Derives, PlainItems
    <2>3. l.items = k.items /\ l.n = k.n /\ l.at = "next" /\ l.staged = k.staged /\ l.found = k.found /\ l.out = k.out
      BY <2>1 DEF DeriveFields
    <2>4. CourseOK(l) /\ RefsOK(l)'
      BY <1>1, <1>2, <2>1, <2>2, <2>3, CourseDerive, RefsMove
    <2> QED
      BY <1>3, <1>4, <2>1, <2>3, <2>4
  <1>15. CASE Returns(c) \/ Fails(c)
    BY <1>15 DEF Returns, Fails, Idle
  <1> HIDE DEF Goal
  <1> QED
    BY <1>5, <1>6, <1>7, <1>8, <1>9, <1>10, <1>11, <1>12, <1>13, <1>14, <1>15 DEF Changes, Change

(* A request keeps its number and its items. *)
LEMMA SameRequest ==
    ASSUME NEW c \in Clients, Changes(c), call[c].at # "idle", call'[c].at # "idle"
    PROVE  call'[c].n = call[c].n /\ call'[c].items = call[c].items
  <1> DEFINE Goal == call'[c].n = call[c].n /\ call'[c].items = call[c].items
  <1> SUFFICES Goal
    OBVIOUS
  <1>1. ASSUME NEW items, NEW together, NEW turns, Begins(c, items, together, turns) PROVE Goal
    BY <1>1 DEF Begins
  <1>2. ASSUME NEW units, ParsesTurn(c, units) PROVE Goal
    BY <1>2 DEF ParsesTurn, ParseFields
  <1>3. CASE Stages(c)
    BY <1>3 DEF Stages, StageFields
  <1>4. ASSUME NEW ref, Reuses(c, ref) PROVE Goal
    BY <1>4 DEF Reuses, ReuseFields
  <1>5. CASE AsksTuple(c) \/ Inserts(c) \/ Upserts(c) \/ StoresFacts(c)
    BY <1>5, Zenon DEF AsksTuple, Inserts, Upserts, StoresFacts, TupleFields, InsertFields, UpsertFields, LinkFields
  <1>6. ASSUME NEW plain, StagesPlain(c, plain) PROVE Goal
    BY <1>6 DEF StagesPlain, PlainFields
  <1>7. ASSUME NEW turns, Derives(c, turns) PROVE Goal
    BY <1>7 DEF Derives, DeriveFields
  <1>8. CASE Returns(c) \/ Fails(c)
    BY <1>8 DEF Returns, Fails, Idle
  <1> HIDE DEF Goal
  <1> QED
    BY <1>1, <1>2, <1>3, <1>4, <1>5, <1>6, <1>7, <1>8 DEF Changes, Change

(* Requests that are served at once have different numbers, and overlap. *)
LEMMA PairsStep ==
    ASSUME Inv, NEW c \in Clients, Changes(c),
           NEW d \in Clients, d # c, call'[c].at # "idle", call'[d].at # "idle"
    PROVE  /\ call'[c].n # call'[d].n /\ {call'[c].n, call'[d].n} \in overlaps'
           /\ call'[c].n # call'[d].n /\ {call'[d].n, call'[c].n} \in overlaps'
  <1>1. call'[d] = call[d] /\ overlaps \subseteq overlaps'
    BY Grows DEF Changes, Others, Grow
  <1>2. CASE call[c].at # "idle"
    <2>1. call'[c].n = call[c].n
      BY <1>2, SameRequest
    <2>2. /\ call[c].n # call[d].n /\ {call[c].n, call[d].n} \in overlaps
          /\ {call[d].n, call[c].n} \in overlaps
      BY <1>1, <1>2 DEF Inv, CallsOK
    <2> QED
      BY <1>1, <2>1, <2>2
  <1>3. CASE call[c].at = "idle"
    <2>1. PICK items \in Batches, together \in BOOLEAN, turns \in Seq(Nat) : Begins(c, items, together, turns)
      BY <1>3 DEF Changes, Change, ParsesTurn, Stages, Reuses, AsksTuple, Inserts, Upserts, StoresFacts,
                  StagesPlain, Derives, Returns, Fails, AllStaged, PartDone, AtHead
    <2>2. call'[c].n = Len(replies) + 1
      BY <2>1 DEF Begins, BeginFields
    <2>3. call[d].n \in 1..Len(replies) /\ Len(replies) \in Nat
      BY <1>1 DEF Inv, CallsOK, OpenOK, Calls, Types
    <2>4. {Len(replies) + 1, call[d].n} \in overlaps'
      BY <1>1, <2>1 DEF Begins
    <2>5. {call[d].n, Len(replies) + 1} = {Len(replies) + 1, call[d].n}
      OBVIOUS
    <2>6. Len(replies) + 1 # call[d].n
      BY <2>3
    <2> QED
      BY <1>1, <2>2, <2>4, <2>5, <2>6, Zenon
  <1> QED
    BY <1>2, <1>3

LEMMA InvStep ==
    ASSUME Inv, NEW c \in Clients, Changes(c)
    PROVE  Inv'
  <1>1. Types' /\ StoresOK'
    BY TypesStep
  <1>2. Grow(c)
    BY Grows
  <1>3. ASSUME NEW d \in Clients, call'[d].at # "idle"
        PROVE  CourseOK(call[d])' /\ RefsOK(call[d])' /\ InsertedOK(call[d])' /\ OpenOK(call[d])'
    <2>1. CASE d = c
      BY <1>3, <2>1, OwnRecord
    <2>2. CASE d # c
      <3>1. call'[d] = call[d] /\ call[d] \in Call
        BY <2>2, ItemsType DEF Changes, Others, Inv
      <3>2. CourseOK(call[d]) /\ RefsOK(call[d]) /\ InsertedOK(call[d]) /\ OpenOK(call[d])
        BY <1>3, <3>1 DEF Inv, CallsOK
      <3>3. call[c].at = "idle" \/ call[d].n # call[c].n
        BY <1>3, <2>2, <3>1, Zenon DEF Inv, CallsOK
      <3> QED
        BY <1>2, <3>1, <3>2, <3>3, OthersKeep
    <2> QED
      BY <2>1, <2>2
  <1>4. ASSUME NEW d \in Clients, NEW e \in Clients, d # e, call'[d].at # "idle", call'[e].at # "idle"
        PROVE  call'[d].n # call'[e].n /\ {call'[d].n, call'[e].n} \in overlaps'
    <2>1. CASE d = c \/ e = c
      BY <1>4, <2>1, PairsStep
    <2>2. CASE d # c /\ e # c
      <3>1. call'[d] = call[d] /\ call'[e] = call[e]
        BY <2>2 DEF Changes, Others
      <3> QED
        BY <1>2, <1>4, <3>1 DEF Inv, CallsOK, Grow
    <2> QED
      BY <2>1, <2>2
  <1>5. CallsOK'
    BY <1>3, <1>4 DEF CallsOK
  <1> QED
    BY <1>1, <1>5 DEF Inv

LEMMA InvInit == Init => Inv
  <1> SUFFICES ASSUME Init PROVE Inv
    OBVIOUS
  <1>1. \A c \in Clients : call[c] = Idle /\ call[c].at = "idle"
    BY DEF Init, Idle
  <1>2. Types
    BY IdleType DEF Init, Types
  <1>3. CallsOK
    BY <1>1 DEF CallsOK
  <1>4. StoresOK
    BY DEF Init, StoresOK, Ids
  <1> QED
    BY <1>2, <1>3, <1>4 DEF Inv

LEMMA InvIsInvariant == Spec => []Inv
  <1>1. Inv /\ [Next]_vars => Inv'
    <2> SUFFICES ASSUME Inv, [Next]_vars PROVE Inv'
      OBVIOUS
    <2>1. ASSUME NEW c \in Clients, ClientStep(c) PROVE Inv'
      BY <2>1, StepChange, InvStep
    <2>2. CASE UNCHANGED vars
      <3>1. Types' /\ StoresOK'
        BY <2>2 DEF vars, Inv, Types, StoresOK, Ids, Calls
      <3>2. \A k : /\ RefsOK(k) => RefsOK(k)'
                   /\ InsertedOK(k) => InsertedOK(k)'
                   /\ OpenOK(k) => OpenOK(k)'
        BY <2>2 DEF vars, RefsOK, RefOK, InsertedOK, OpenOK, Ids, Calls
      <3>3. CallsOK'
        BY <2>2, <3>2 DEF vars, Inv, CallsOK
      <3> QED
        BY <3>1, <3>3 DEF Inv
    <2> QED
      BY <2>1, <2>2 DEF Next
  <1> QED
    BY <1>1, InvInit, PTL DEF Spec

(* What each request refers to is stored or staged, and rows, index rows,  *)
(* embeddings and links have their types, whatever fails and however the   *)
(* requests interleave (StoreBatch and the resolution of pending indexes   *)
(* in storeBatchWithParser).                                               *)
THEOREM TypeCorrect == Spec => []TypeOK
  <1>1. Inv => TypeOK
    <2> SUFFICES ASSUME Inv PROVE TypeOK
      OBVIOUS
    <2>1. ASSUME NEW r \in Ids PROVE rows[r].tenant \in Tenants /\ rows[r].call \in Calls
      <3>1. rows[r] \in Row
        BY ElementOfSeq DEF Inv, Types, Ids
      <3> QED
        BY <3>1 DEF Inv, StoresOK, Row
    <2>2. ASSUME NEW e \in index
          PROVE  e.row \in Ids /\ e.tenant \in Tenants /\ e.state \in {"pending", "indexed", "failed"}
      BY DEF Inv, StoresOK, Types, IndexRow
    <2>3. ASSUME NEW c \in Clients, call[c].at # "idle"
          PROVE  /\ call[c].n \in Calls
                 /\ \A i \in DOMAIN call[c].out : call[c].out[i] \in (-Len(call[c].staged))..Len(rows)
                 /\ \A f \in call[c].found : f.ref # 0 /\ f.ref \in (-Len(call[c].staged))..Len(rows)
      <3>1. /\ call[c].out \in Seq(Int) /\ call[c].found \in SUBSET Found
            /\ Len(call[c].staged) \in Nat /\ Len(rows) \in Nat
        BY ItemsType DEF Inv, Types
      <3>2. RefsOK(call[c]) /\ OpenOK(call[c])
        BY <2>3 DEF Inv, CallsOK
      <3>3. \A i : \A ref \in Int :
               RefOK(call[c], i, ref) => ref # 0 /\ ref \in (-Len(call[c].staged))..Len(rows)
        BY <3>1 DEF RefOK, Ids
      <3>4. ASSUME NEW i \in DOMAIN call[c].out
            PROVE  call[c].out[i] \in (-Len(call[c].staged))..Len(rows)
        <4>1. i \in 1..Len(call[c].out) /\ call[c].out[i] \in Int
          BY <3>1
        <4>2. CASE call[c].out[i] = 0
          BY <3>1, <4>2
        <4>3. CASE call[c].out[i] # 0
          BY <3>2, <3>3, <4>1, <4>3 DEF RefsOK
        <4> QED
          BY <4>2, <4>3
      <3>5. ASSUME NEW f \in call[c].found
            PROVE  f.ref # 0 /\ f.ref \in (-Len(call[c].staged))..Len(rows)
        <4>1. f.ref \in Int
          BY <3>1 DEF Found
        <4> QED
          BY <3>2, <3>3, <4>1 DEF RefsOK
      <3> QED
        BY <3>2, <3>4, <3>5 DEF OpenOK
    <2>4. /\ options \in Options /\ embedded \subseteq Ids /\ unmarked \subseteq Ids
          /\ \A e \in links : e.row \in Ids
      BY DEF Inv, Types, StoresOK
    <2> QED
      BY <2>1, <2>2, <2>3, <2>4 DEF TypeOK
  <1> QED
    BY <1>1, InvIsInvariant, PTL

-----------------------------------------------------------------------------
(* Embeddings and index rows.                                              *)

(* A row was there before the step, or the step inserts it. *)
LEMMA RowCases ==
    ASSUME Inv, NEW c \in Clients, Changes(c), NEW r \in Ids'
    PROVE  \/ r \in Ids /\ rows'[r] = rows[r]
           \/ Inserts(c) /\ r \notin Ids
  <1>1. CASE rows' = rows
    BY <1>1 DEF Ids
  <1>2. CASE Inserts(c)
    BY <1>2, RowsAfterInsert DEF Ids
  <1> QED
    BY <1>1, <1>2, Zenon
       DEF Changes, Change, Begins, ParsesTurn, Stages, Reuses, AsksTuple, Upserts, StoresFacts, StagesPlain,
           Derives, Returns, Fails, Quiet

LEMMA FailedStays ==
    ASSUME Inv, NEW c \in Clients, Changes(c), NEW r \in Ids, Failed(rows[r].call)
    PROVE  rows'[r] = rows[r] /\ Failed(rows[r].call)'
  <1>1. Grow(c) /\ rows[r].call \in Calls
    BY Grows DEF Inv, StoresOK
  <1>2. rows'[r] = rows[r]
    BY <1>1 DEF Grow, Ids
  <1>3. rows[r].call \in 1..Len(replies)
    BY <1>1 DEF Calls, Inv, Types
  <1>4. replies'[rows[r].call] = replies[rows[r].call]
    BY <1>1, <1>3, Zenon DEF Grow, Failed
  <1> QED
    BY <1>2, <1>4 DEF Failed

(* A client whose rows are not embedded yet embeds them or fails. *)
LEMMA UpsertEnds ==
    ASSUME NEW c \in Clients, Changes(c), call[c].at = "upsert"
    PROVE  Upserts(c) \/ Fails(c)
  BY DEF Changes, Change, Begins, ParsesTurn, Stages, Reuses, AsksTuple, Inserts, StoresFacts, StagesPlain,
         Derives, Returns, PartDone, AllStaged, AtHead

LEMMA InFlightStep ==
    ASSUME Inv, NEW c \in Clients, Changes(c), NEW r \in Ids, InFlight(r)
    PROVE  \/ InFlight(r)'
           \/ Upserts(c) /\ r \in Inserted(c)
           \/ rows'[r] = rows[r] /\ Failed(rows[r].call)'
  <1>1. PICK d \in Clients : call[d].at = "upsert" /\ r \in Inserted(d)
    BY DEF InFlight
  <1>2. CASE d # c
    <2>1. call'[d] = call[d]
      BY <1>2 DEF Changes, Others
    <2> QED
      BY <1>1, <2>1 DEF InFlight, Inserted
  <1>3. CASE d = c /\ Fails(c)
    <2>1. rows[r].call = call[c].n
      BY <1>1, <1>3, InsertedIds
    <2>2. replies'[call[c].n].status = "failed" /\ rows' = rows
      BY <1>3, RepliesAfterEnd, Zenon DEF Fails
    <2> QED
      BY <2>1, <2>2 DEF Failed
  <1> QED
    BY <1>1, <1>2, <1>3, UpsertEnds

LEMMA NewInFlight ==
    ASSUME Inv, NEW c \in Clients, Inserts(c), NEW r \in Ids', r \notin Ids
    PROVE  InFlight(r)'
  <1>1. Len(rows) \in Nat /\ Len(call[c].staged) \in Nat
    BY ItemsType DEF Inv, Types
  <1>2. r - Len(rows) \in 1..Len(call[c].staged) /\ r = Len(rows) + (r - Len(rows))
    BY RowsAfterInsert DEF Ids
  <1>3. call'[c].at = "upsert" /\ call'[c].base = Len(rows) /\ call'[c].staged = call[c].staged
    BY DEF Inserts, InsertFields
  <1>4. r \in (Len(rows) + 1)..(Len(rows) + Len(call[c].staged))
    BY <1>1, <1>2
  <1>5. r \in Inserted(c)'
    BY <1>3, <1>4 DEF Inserted
  <1> QED
    BY <1>3, <1>5 DEF InFlight

LEMMA EmbeddedGrows ==
    ASSUME NEW c \in Clients, Changes(c)
    PROVE  embedded \subseteq embedded' /\ unmarked \subseteq unmarked'
  <1>1. CASE UNCHANGED <<embedded, unmarked>>
    BY <1>1
  <1>2. CASE Upserts(c)
    BY <1>2 DEF Upserts, MarkIndexState
  <1>3. CASE Fails(c)
    BY <1>3 DEF Fails, MarkIndexState
  <1> QED
    BY <1>1, <1>2, <1>3, Zenon
       DEF Changes, Change, Begins, ParsesTurn, Stages, Reuses, AsksTuple, Inserts, StoresFacts, StagesPlain,
           Derives, Returns, Quiet

LEMMA UnembeddedStep ==
    ASSUME Inv, UnembeddedOnlyAfterFailure, NEW c \in Clients, Changes(c)
    PROVE  UnembeddedOnlyAfterFailure'
  <1> SUFFICES ASSUME NEW r \in Ids', r \notin embedded'
               PROVE  Failed(rows[r].call)' \/ InFlight(r)'
    BY DEF UnembeddedOnlyAfterFailure, Failed, InFlight
  <1>1. CASE r \in Ids /\ rows'[r] = rows[r]
    <2>1. r \notin embedded
      BY EmbeddedGrows
    <2>2. Failed(rows[r].call) \/ InFlight(r)
      BY <1>1, <2>1 DEF UnembeddedOnlyAfterFailure, Failed, InFlight
    <2>3. CASE Failed(rows[r].call)
      BY <1>1, <2>3, FailedStays
    <2>4. CASE InFlight(r)
      <3>1. ~(Upserts(c) /\ r \in Inserted(c))
        BY DEF Upserts
      <3> QED
        BY <1>1, <2>4, <3>1, InFlightStep
    <2> QED
      BY <2>2, <2>3, <2>4
  <1>2. CASE Inserts(c) /\ r \notin Ids
    BY <1>2, NewInFlight
  <1> QED
    BY <1>1, <1>2, RowCases

(* A memory that was committed lacks its embedding only while its request  *)
(* is served or after that request failed, for any number of clients and   *)
(* for either kind of vector store (storeInRepo commits before             *)
(* upsertStoredEmbeddings writes the vectors).                             *)
THEOREM UnembeddedOnlyAfterFailureCorrect == Spec => []UnembeddedOnlyAfterFailure
  <1>1. Init => UnembeddedOnlyAfterFailure
    BY DEF Init, UnembeddedOnlyAfterFailure, Ids
  <1>2. Inv /\ UnembeddedOnlyAfterFailure /\ [Next]_vars => UnembeddedOnlyAfterFailure'
    <2> SUFFICES ASSUME Inv, UnembeddedOnlyAfterFailure, [Next]_vars PROVE UnembeddedOnlyAfterFailure'
      OBVIOUS
    <2>1. ASSUME NEW c \in Clients, ClientStep(c) PROVE UnembeddedOnlyAfterFailure'
      BY <2>1, StepChange, UnembeddedStep
    <2>2. CASE UNCHANGED vars
      BY <2>2 DEF vars, UnembeddedOnlyAfterFailure, Ids, Inserted
    <2> QED
      BY <2>1, <2>2 DEF Next
  <1> QED
    BY <1>1, <1>2, InvIsInvariant, PTL DEF Spec

(* The index rows of a memory change only while its client marks them. *)
LEMMA IndexKept ==
    ASSUME Inv, NEW c \in Clients, Changes(c), NEW r \in Ids, ~(call[c].at = "upsert" /\ r \in Inserted(c)),
           NEW e, e.row = r
    PROVE  e \in index' <=> e \in index
  <1>1. CASE index' = index
    BY <1>1
  <1>2. CASE Inserts(c)
    <2>1. \A x \in PendingRows(call[c], Len(rows)) : x.row # r
      <3>1. \A x \in PendingRows(call[c], Len(rows)) : \E j \in 1..Len(call[c].staged) : x.row = Len(rows) + j
        BY <1>2, PendingRowsType
      <3>2. Len(rows) \in Nat /\ Len(call[c].staged) \in Nat
        BY ItemsType DEF Inv, Types
      <3> QED
        BY <3>1, <3>2 DEF Ids
    <2> QED
      BY <1>2, <2>1 DEF Inserts
  <1>3. ASSUME NEW state \in {"indexed", "failed"}, call[c].at = "upsert", MarkIndexState(c, state)
        PROVE  e \in index' <=> e \in index
    <2> DEFINE t == rows[call[c].base + 1].tenant
    <2>1. Remarks(c, t, state)
      BY <1>3, MarkEffect
    <2>2. r \notin Inserted(c)
      BY <1>3
    <2> HIDE DEF t
    <2>3. \A s : e \in Mark(index, t, Inserted(c), s) <=> e \in index
      BY <2>2, MarkRows
    <2> QED
      BY <2>1, <2>3 DEF Remarks
  <1>4. CASE Upserts(c)
    BY <1>3, <1>4 DEF Upserts
  <1>5. CASE Fails(c)
    BY <1>1, <1>3, <1>5 DEF Fails
  <1> QED
    BY <1>1, <1>2, <1>4, <1>5, Zenon
       DEF Changes, Change, Begins, ParsesTurn, Stages, Reuses, AsksTuple, StoresFacts, StagesPlain, Derives,
           Returns, Quiet

(* An indexed row of memory r that no row of the same tenant contradicts. *)
Settled(ix, r) ==
    \E e \in ix : /\ e.row = r /\ e.state = "indexed"
                  /\ \A f \in ix : f.row = r /\ f.tenant = e.tenant => f.state = "indexed"

LEMMA MarkSettles ==
    ASSUME NEW ix, NEW t, NEW ids, NEW r \in ids
    PROVE  Settled(Mark(ix, t, ids, "indexed"), r)
  <1>1. PICK e \in Mark(ix, t, ids, "indexed") : e.row = r /\ e.tenant = t /\ e.state = "indexed"
    BY MarkRows
  <1>2. \A f \in Mark(ix, t, ids, "indexed") : f.row = r /\ f.tenant = t => f.state = "indexed"
    BY MarkRows
  <1> QED
    BY <1>1, <1>2 DEF Settled

LEMMA MarkedStep ==
    ASSUME Inv, MarkedOK, NEW c \in Clients, Changes(c)
    PROVE  MarkedOK'
  <1> SUFFICES ASSUME NEW r \in Ids'
               PROVE  Failed(rows[r].call)' \/ InFlight(r)' \/ r \in unmarked' \/ Settled(index', r)
    BY DEF MarkedOK, Settled
  <1>1. CASE Inserts(c) /\ r \notin Ids
    BY <1>1, NewInFlight
  <1>2. CASE r \in Ids /\ rows'[r] = rows[r]
    <2>1. Failed(rows[r].call) \/ InFlight(r) \/ r \in unmarked \/ Settled(index, r)
      BY <1>2 DEF MarkedOK, Settled
    <2>2. CASE Failed(rows[r].call)
      BY <1>2, <2>2, FailedStays
    <2>3. CASE InFlight(r)
      <3>1. CASE Upserts(c) /\ r \in Inserted(c)
        <4> DEFINE t == rows[call[c].base + 1].tenant
        <4>1. Remarks(c, t, "indexed")
          BY <3>1, MarkEffect DEF Upserts
        <4>2. CASE index' = Mark(index, t, Inserted(c), "indexed")
          BY <3>1, <4>2, MarkSettles
        <4>3. CASE unmarked' = unmarked \cup Inserted(c)
          BY <3>1, <4>3
        <4> QED
          BY <4>1, <4>2, <4>3 DEF Remarks
      <3> QED
        BY <1>2, <2>3, <3>1, InFlightStep
    <2>4. CASE r \in unmarked
      BY <2>4, EmbeddedGrows
    <2>5. CASE Settled(index, r) /\ ~InFlight(r)
      <3>1. ~(call[c].at = "upsert" /\ r \in Inserted(c))
        BY <2>5 DEF InFlight
      <3>2. \A e : e.row = r => (e \in index' <=> e \in index)
        BY <1>2, <3>1, IndexKept
      <3> QED
        BY <2>5, <3>2 DEF Settled
    <2> QED
      BY <2>1, <2>2, <2>3, <2>4, <2>5
  <1> QED
    BY <1>1, <1>2, RowCases

LEMMA OutcomeStep ==
    ASSUME Inv, OutcomeOK, NEW c \in Clients, Changes(c)
    PROVE  OutcomeOK'
  <1> SUFFICES ASSUME NEW e \in index'
               PROVE  /\ e.state = "indexed" => e.row \in embedded'
                      /\ e.state = "failed" => Failed(rows[e.row].call)'
    BY DEF OutcomeOK
  <1>1. CASE e \in index
    <2>1. e.row \in Ids
      BY <1>1 DEF Inv, StoresOK
    <2>2. e.state = "indexed" => e.row \in embedded'
      BY <1>1, EmbeddedGrows DEF OutcomeOK
    <2>3. e.state = "failed" => Failed(rows[e.row].call)
      BY <1>1 DEF OutcomeOK
    <2> QED
      BY <2>1, <2>2, <2>3, FailedStays
  <1>2. CASE e \notin index /\ Inserts(c)
    <2>1. e \in PendingRows(call[c], Len(rows))
      BY <1>2 DEF Inserts
    <2>2. e.state = "pending"
      BY <1>2, <2>1, PendingRowsType
    <2> QED
      BY <2>2
  <1>3. CASE e \notin index /\ Upserts(c)
    <2>1. e.row \in Inserted(c) /\ e.state \in {"pending", "indexed"}
      BY <1>3, MarkEffect, RemarksType DEF Upserts
    <2> QED
      BY <1>3, <2>1 DEF Upserts
  <1>4. CASE e \notin index /\ Fails(c)
    <2>1. call[c].at = "upsert" /\ MarkIndexState(c, "failed")
      BY <1>4 DEF Fails
    <2>2. e.row \in Inserted(c) /\ e.state \in {"pending", "failed"}
      BY <1>4, <2>1, MarkEffect, RemarksType
    <2>3. rows[e.row].call = call[c].n /\ rows' = rows
      BY <1>4, <2>1, <2>2, InsertedIds DEF Fails
    <2>4. replies'[call[c].n].status = "failed"
      BY <1>4, RepliesAfterEnd
    <2> QED
      BY <2>2, <2>3, <2>4 DEF Failed
  <1>5. CASE index' = index
    BY <1>1, <1>5
  <1> QED
    BY <1>1, <1>2, <1>3, <1>4, <1>5, Zenon
       DEF Changes, Change, Begins, ParsesTurn, Stages, Reuses, AsksTuple, StoresFacts, StagesPlain, Derives,
           Returns, Quiet

LEMMA IndexInvariant == Spec => [](MarkedOK /\ OutcomeOK)
  <1>1. Init => MarkedOK /\ OutcomeOK
    BY DEF Init, MarkedOK, OutcomeOK, Ids
  <1>2. Inv /\ MarkedOK /\ OutcomeOK /\ [Next]_vars => MarkedOK' /\ OutcomeOK'
    <2> SUFFICES ASSUME Inv, MarkedOK, OutcomeOK, [Next]_vars PROVE MarkedOK' /\ OutcomeOK'
      OBVIOUS
    <2>1. ASSUME NEW c \in Clients, ClientStep(c) PROVE MarkedOK' /\ OutcomeOK'
      BY <2>1, StepChange, MarkedStep, OutcomeStep
    <2>2. CASE UNCHANGED vars
      BY <2>2 DEF vars, MarkedOK, OutcomeOK, Ids, InFlight, Inserted, Failed
    <2> QED
      BY <2>1, <2>2 DEF Next
  <1> QED
    BY <1>1, <1>2, InvIsInvariant, PTL DEF Spec

(* An index row tells how its memory's request ended: indexed means an     *)
(* embedding, failed a failed request, and pending after a success that    *)
(* the mark was lost or went to the tenant of the batch's first memory,    *)
(* for any batches of any tenants (upsertStoredEmbeddings).                *)
THEOREM IndexStateTellsOutcomeCorrect == Spec => []IndexStateTellsOutcome
  <1>1. Inv /\ MarkedOK /\ OutcomeOK => IndexStateTellsOutcome
    <2> SUFFICES ASSUME Inv, MarkedOK, OutcomeOK, NEW e \in index
                 PROVE  /\ e.state = "indexed" => e.row \in embedded
                        /\ e.state = "failed" => replies[rows[e.row].call].status = "failed"
                        /\ /\ e.state = "pending" /\ e.tenant = rows[e.row].tenant
                           /\ replies[rows[e.row].call].status = "ok"
                           /\ e.row \notin unmarked
                           => \E f \in index : f.row = e.row /\ f.tenant # e.tenant /\ f.state = "indexed"
      BY DEF IndexStateTellsOutcome
    <2>1. /\ e.state = "indexed" => e.row \in embedded
          /\ e.state = "failed" => replies[rows[e.row].call].status = "failed"
      BY DEF OutcomeOK, Failed
    <2>2. ASSUME e.state = "pending", replies[rows[e.row].call].status = "ok", e.row \notin unmarked
          PROVE  \E f \in index : f.row = e.row /\ f.tenant # e.tenant /\ f.state = "indexed"
      <3>1. e.row \in Ids
        BY DEF Inv, StoresOK
      <3>2. ~Failed(rows[e.row].call)
        BY <2>2 DEF Failed
      <3>3. ~InFlight(e.row)
        <4> SUFFICES ASSUME NEW c \in Clients, call[c].at = "upsert", e.row \in Inserted(c) PROVE FALSE
          BY DEF InFlight
        <4>1. rows[e.row].call = call[c].n
          BY InsertedIds
        <4>2. replies[call[c].n].status = "open"
          BY DEF Inv, CallsOK, OpenOK
        <4> QED
          BY <2>2, <4>1, <4>2
      <3>4. PICK f \in index : /\ f.row = e.row /\ f.state = "indexed"
                               /\ \A g \in index : g.row = e.row /\ g.tenant = f.tenant => g.state = "indexed"
        BY <2>2, <3>1, <3>2, <3>3 DEF MarkedOK
      <3> QED
        BY <2>2, <3>4
    <2> QED
      BY <2>1, <2>2
  <1> QED
    BY <1>1, InvIsInvariant, IndexInvariant, PTL

-----------------------------------------------------------------------------
(* Duplicates.                                                             *)

LEMMA OverlapStays ==
    ASSUME Inv, NEW c \in Clients, Changes(c), NEW n, NEW m, Overlapped(n, m)
    PROVE  Overlapped(n, m)'
  BY Grows DEF Grow, Overlapped

(* What is new to a request stays so while others step. *)
LEMMA NewKept ==
    ASSUME Inv, NEW c \in Clients, Changes(c), NEW k \in Call, NEW u,
           Inserts(c) => k.n # call[c].n /\ {call[c].n, k.n} \in overlaps
    PROVE  (KeyNew(k, u) => KeyNew(k, u)') /\ (TupleNew(k, u) => TupleNew(k, u)')
  <1>1. ASSUME Inserts(c), NEW r \in Ids', r \notin Ids
        PROVE  Overlapped(rows[r].call, k.n)'
    <2>1. r - Len(rows) \in 1..Len(call[c].staged) /\ r = Len(rows) + (r - Len(rows))
      BY <1>1, RowsAfterInsert DEF Ids
    <2>2. rows'[r] = Made(call[c])[r - Len(rows)]
      BY <1>1, <2>1, RowsAfterInsert
    <2>3. Types /\ call[c] \in Call /\ CourseOK(call[c])
      BY <1>1, ItemsType DEF Inv, CallsOK, Inserts, AllStaged
    <2>4. Made(call[c])[r - Len(rows)].call = call[c].n
      BY <2>1, <2>3, MadeType, Zenon DEF CourseOK, UnitOK
    <2>5. overlaps' = overlaps
      BY <1>1 DEF Inserts
    <2> QED
      BY <1>1, <2>2, <2>4, <2>5 DEF Overlapped
  <1>2. ASSUME KeyNew(k, u), NEW r \in Ids', rows'[r].tenant = k.items[u.item].tenant, rows'[r].key = u.key
        PROVE  Overlapped(rows[r].call, k.n)'
    <2>1. CASE r \in Ids /\ rows'[r] = rows[r]
      <3>1. Overlapped(rows[r].call, k.n)
        BY <1>2, <2>1 DEF KeyNew
      <3>2. overlaps \subseteq overlaps'
        BY Grows DEF Grow
      <3> QED
        BY <2>1, <3>1, <3>2 DEF Overlapped
    <2> QED
      BY <1>1, <2>1, RowCases
  <1>3. ASSUME TupleNew(k, u), NEW r \in Ids', rows'[r].tenant = k.items[u.item].tenant,
               rows'[r].tuple = u.tuple, u.tuple # NoTuple
        PROVE  Overlapped(rows[r].call, k.n)' \/ Failed(rows[r].call)'
    <2>1. CASE r \in Ids /\ rows'[r] = rows[r]
      <3>1. Overlapped(rows[r].call, k.n) \/ Failed(rows[r].call)
        BY <1>3, <2>1 DEF TupleNew
      <3>2. overlaps \subseteq overlaps'
        BY Grows DEF Grow
      <3>3. CASE Failed(rows[r].call)
        BY <2>1, <3>3, FailedStays
      <3>4. CASE Overlapped(rows[r].call, k.n)
        BY <2>1, <3>2, <3>4 DEF Overlapped
      <3> QED
        BY <3>1, <3>3, <3>4
    <2> QED
      BY <1>1, <2>1, RowCases
  <1> QED
    BY <1>2, <1>3 DEF KeyNew, TupleNew

LEMMA FreshKept ==
    ASSUME Inv, NEW c \in Clients, Changes(c), NEW k \in Call, FreshOK(k),
           Inserts(c) => k.n # call[c].n /\ {call[c].n, k.n} \in overlaps
    PROVE  FreshOK(k)'
  <1>1. \A u : (KeyNew(k, u) => KeyNew(k, u)') /\ (TupleNew(k, u) => TupleNew(k, u)')
    BY NewKept, Zenon
  <1> QED
    BY <1>1 DEF FreshOK

(* What is new to a request stays so while it works on its own plan. *)
LEMMA NewMoves ==
    ASSUME NEW k, NEW l, l.items = k.items, l.n = k.n, Quiet
    PROVE  /\ \A u : KeyNew(k, u) => KeyNew(l, u)'
           /\ \A u : TupleNew(k, u) => TupleNew(l, u)'
           /\ \A u, v : SameTenant(l, u, v) <=> SameTenant(k, u, v)
  BY Zenon DEF Quiet, KeyNew, TupleNew, Overlapped, Failed, Ids, SameTenant

LEMMA FreshMoves ==
    ASSUME NEW k, NEW l, l.items = k.items, l.n = k.n, Quiet, k.at \in Open, FreshOK(k),
           l.staged = k.staged, k.found \subseteq l.found, l.at # "tuple"
    PROVE  FreshOK(l)'
  <1>1. /\ \A u : KeyNew(k, u) => KeyNew(l, u)'
        /\ \A u : TupleNew(k, u) => TupleNew(l, u)'
        /\ \A u, v : SameTenant(l, u, v) <=> SameTenant(k, u, v)
    BY NewMoves
  <1>2. \A u, n : NotStaged(k, u, n) => NotStaged(l, u, n)
    BY <1>1 DEF NotStaged
  <1> QED
    BY <1>1, <1>2 DEF FreshOK

(* The client asked about its plan's head and found nothing. *)
LEMMA HeadIsNew ==
    ASSUME Inv, NEW c \in Clients, call[c].at = "next", call[c].plan # <<>>,
           PendingMatches(c, Head1(c)) = {},
           RowsWithKey(TenantOf(c, Head1(c).item), Head1(c).key) = {}
    PROVE  KeyNew(call[c], Head1(c)) /\ NotStaged(call[c], Head1(c), Len(call[c].staged))
  <1> DEFINE u == Head1(c)
             k == call[c]
  <1>1. KeyNew(k, u)
    BY DEF RowsWithKey, KeyNew, TenantOf, Ids
  <1>2. ASSUME NEW j \in 1..Len(k.staged), SameTenant(k, k.staged[j], u)
        PROVE  k.staged[j].key # u.key /\ (k.staged[j].tuple = u.tuple => u.tuple = NoTuple)
    <2>1. TenantOf(c, k.staged[j].item) = TenantOf(c, u.item)
      BY <1>2 DEF SameTenant, TenantOf
    <2> HIDE DEF u
    <2>2. PendingMatches(c, u) = {}
      BY DEF u
    <2> QED
      BY <2>1, <2>2 DEF PendingMatches
  <1> QED
    BY <1>1, <1>2 DEF NotStaged

(* No row states the tuple that the client looked for, unless its request  *)
(* overlaps or failed: a client that still owes the link is another one.   *)
LEMMA TupleIsNew ==
    ASSUME Inv, LinkedOK, NEW c \in Clients, call[c].at = "tuple",
           RowsWithTuple(TenantOf(c, Head1(c).item), Head1(c).tuple) = {}
    PROVE  TupleNew(call[c], Head1(c))
  <1> DEFINE u == Head1(c)
             k == call[c]
  <1> SUFFICES ASSUME NEW r \in Ids, rows[r].tenant = k.items[u.item].tenant, rows[r].tuple = u.tuple,
                      u.tuple # NoTuple
               PROVE  Overlapped(rows[r].call, k.n) \/ Failed(rows[r].call)
    BY DEF TupleNew
  <1>1. [tenant |-> rows[r].tenant, tuple |-> rows[r].tuple, row |-> r] \notin links
    <2> DEFINE e == [tenant |-> rows[r].tenant, tuple |-> rows[r].tuple, row |-> r]
    <2>1. e.tenant = TenantOf(c, u.item) /\ e.tuple = u.tuple /\ e.row = r
      BY DEF TenantOf
    <2> HIDE DEF e, u
    <2>2. RowsWithTuple(TenantOf(c, u.item), u.tuple) = {}
      BY DEF u
    <2>3. e \notin links
      BY <2>1, <2>2 DEF RowsWithTuple
    <2> QED
      BY <2>3 DEF e
  <1>2. Failed(rows[r].call) \/ \E d \in Clients : Owes(call[d], r)
    BY <1>1 DEF LinkedOK
  <1>3. ASSUME NEW d \in Clients, Owes(call[d], r) PROVE Overlapped(rows[r].call, k.n)
    <2>1. call[d].at # "idle" /\ d # c /\ call[d].n = rows[r].call
      BY <1>3 DEF Owes
    <2>2. call[d].n # call[c].n /\ {call[d].n, call[c].n} \in overlaps
      BY <2>1 DEF Inv, CallsOK
    <2> QED
      BY <2>1, <2>2 DEF Overlapped
  <1> QED
    BY <1>2, <1>3

LEMMA FreshStage ==
    ASSUME Inv, Fresh, NEW c \in Clients, Stages(c), NEW l \in Call, l = call'[c]
    PROVE  FreshOK(l)'
  <1> DEFINE u == Head1(c)
             k == call[c]
             n == Len(k.staged)
  <1>1. /\ Types /\ k \in Call /\ CourseOK(k) /\ FreshOK(k) /\ k.at \in {"next", "tuple"} /\ k.plan # <<>>
        /\ k.staged \in Seq(Unit) /\ Quiet /\ StageFields(k, l, u)
    BY ItemsType DEF Inv, CallsOK, Fresh, Stages, AtHead
  <1>2. u \in Unit /\ UnitOK(k, u)
    BY <1>1, HeadUnit
  <1>3. ~IsRaw(u) => KeyNew(k, u) /\ NotStaged(k, u, n) /\ TupleNew(k, u)
    <2> SUFFICES ASSUME ~IsRaw(u) PROVE KeyNew(k, u) /\ NotStaged(k, u, n) /\ TupleNew(k, u)
      OBVIOUS
    <2>1. CASE k.at = "next"
      <3>1. /\ PendingMatches(c, u) = {} /\ RowsWithKey(TenantOf(c, u.item), u.key) = {}
            /\ u.tuple = NoTuple
        BY <2>1 DEF Stages
      <3>2. TupleNew(k, u)
        BY <3>1 DEF TupleNew
      <3> QED
        BY <1>1, <2>1, <3>1, <3>2, HeadIsNew
    <2>2. CASE k.at = "tuple"
      <3>1. RowsWithTuple(TenantOf(c, u.item), u.tuple) = {}
        BY <2>2 DEF Stages
      <3>2. TupleNew(k, u)
        BY <2>2, <3>1, TupleIsNew DEF Fresh
      <3>3. KeyNew(k, Head(k.plan)) /\ NotStaged(k, Head(k.plan), Len(k.staged))
        BY <1>1, <2>2 DEF FreshOK, Open
      <3> QED
        BY <3>2, <3>3 DEF Head1
    <2> QED
      BY <1>1, <2>1, <2>2
  <1> HIDE DEF u
  <1>4. /\ l.items = k.items /\ l.n = k.n /\ l.staged = Append(k.staged, u) /\ l.at # "tuple"
        /\ l.found = IF u.tuple = NoTuple THEN k.found
                     ELSE k.found \cup {[item |-> u.item, tuple |-> u.tuple, ref |-> -Len(Append(k.staged, u))]}
    BY <1>1 DEF StageFields
  <1>5. /\ \A v : KeyNew(k, v) => KeyNew(l, v)'
        /\ \A v : TupleNew(k, v) => TupleNew(l, v)'
        /\ \A v, w : SameTenant(l, v, w) <=> SameTenant(k, v, w)
    BY <1>1, <1>4, NewMoves
  <1>6. /\ Len(l.staged) = n + 1 /\ n \in Nat /\ l.staged[n + 1] = u
        /\ \A j \in 1..n : l.staged[j] = k.staged[j]
        /\ \A j \in 1..Len(l.staged) : j \in 1..n \/ j = n + 1
    BY <1>1, <1>2, <1>4, AppendElements
  <1>7. ASSUME NEW v, NEW m \in 0..n, NotStaged(k, v, m) PROVE NotStaged(l, v, m)
    <2> SUFFICES ASSUME NEW j \in 1..m, SameTenant(l, l.staged[j], v)
                 PROVE  l.staged[j].key # v.key /\ (l.staged[j].tuple = v.tuple => v.tuple = NoTuple)
      BY DEF NotStaged
    <2>1. l.staged[j] = k.staged[j]
      BY <1>6
    <2>2. SameTenant(k, k.staged[j], v)
      BY <1>5, <2>1
    <2> QED
      BY <1>7, <2>1, <2>2 DEF NotStaged
  <1>8. ASSUME NEW j \in 1..Len(l.staged), ~IsRaw(l.staged[j])
        PROVE  KeyNew(l, l.staged[j])' /\ TupleNew(l, l.staged[j])' /\ NotStaged(l, l.staged[j], j - 1)
    <2>1. CASE j \in 1..n
      <3>1. ~IsRaw(k.staged[j]) /\ l.staged[j] = k.staged[j] /\ j - 1 \in 0..n
        BY <1>6, <1>8, <2>1
      <3>2. KeyNew(k, k.staged[j]) /\ TupleNew(k, k.staged[j]) /\ NotStaged(k, k.staged[j], j - 1)
        BY <1>1, <2>1, <3>1 DEF FreshOK, Open
      <3> QED
        BY <1>5, <1>7, <3>1, <3>2
    <2>2. CASE j = n + 1
      <3>1. l.staged[j] = u /\ j - 1 = n /\ n \in 0..n
        BY <1>6, <2>2
      <3> QED
        BY <1>3, <1>5, <1>7, <1>8, <3>1
    <2> QED
      BY <1>6, <2>1, <2>2
  <1>9. ASSUME NEW j \in 1..Len(l.staged), l.staged[j].tuple # NoTuple
        PROVE  \E f \in l.found : f.ref = -j /\ f.tuple = l.staged[j].tuple
    <2>1. CASE j \in 1..n
      <3>1. l.staged[j] = k.staged[j] /\ k.found \subseteq l.found
        BY <1>4, <1>6, <2>1
      <3>2. \E f \in k.found : f.ref = -j /\ f.tuple = k.staged[j].tuple
        BY <1>1, <1>9, <2>1, <3>1 DEF FreshOK, Open
      <3> QED
        BY <3>1, <3>2
    <2>2. CASE j = n + 1
      <3> DEFINE f == [item |-> u.item, tuple |-> u.tuple, ref |-> -j]
      <3>1. l.staged[j] = u /\ Len(Append(k.staged, u)) = j
        BY <1>4, <1>6, <2>2
      <3>2. f \in l.found
        BY <1>4, <1>9, <3>1
      <3>3. f.ref = -j /\ f.tuple = u.tuple
        OBVIOUS
      <3> QED
        BY <3>1, <3>2, <3>3
    <2> QED
      BY <1>6, <2>1, <2>2
  <1> QED
    BY <1>4, <1>8, <1>9, Zenon DEF FreshOK

LEMMA FreshOwn ==
    ASSUME Inv, Fresh, NEW c \in Clients, Changes(c), NEW l, l = call'[c], l.at # "idle"
    PROVE  FreshOK(l)'
  <1> DEFINE k == call[c]
             Goal == FreshOK(l)'
  <1> SUFFICES Goal
    OBVIOUS
  <1>1. Types /\ k \in Call /\ l \in Call /\ k.staged \in Seq(Unit)
    BY ItemsType DEF Inv, Changes
  <1>2. k.at # "idle" => CourseOK(k) /\ FreshOK(k)
    BY DEF Inv, CallsOK, Fresh
  <1>3. ASSUME l.staged = <<>>, l.at # "tuple" PROVE Goal
    <2>1. 1..Len(l.staged) = {}
      BY <1>3
    <2> QED
      BY <1>3, <2>1 DEF FreshOK
  <1>4. ASSUME NEW items, NEW together, NEW turns, Begins(c, items, together, turns) PROVE Goal
    BY <1>3, <1>4 DEF Begins, BeginFields
  <1>5. ASSUME NEW units, ParsesTurn(c, units) PROVE Goal
    <2>1. k.at = "next" /\ ParseFields(k, l, units) /\ Quiet
      BY <1>5 DEF ParsesTurn
    <2>2. l.items = k.items /\ l.n = k.n /\ l.staged = k.staged /\ k.found \subseteq l.found /\ l.at # "tuple"
      BY <2>1 DEF ParseFields
    <2> QED
      BY <1>2, <2>1, <2>2, FreshMoves DEF Open
  <1>6. CASE Stages(c)
    BY <1>1, <1>6, FreshStage
  <1>7. ASSUME NEW ref, Reuses(c, ref) PROVE Goal
    <2>1. k.at \in {"next", "tuple"} /\ ReuseFields(k, l, Head1(c), ref) /\ Quiet
      BY <1>7 DEF Reuses, AtHead
    <2>2. l.items = k.items /\ l.n = k.n /\ l.staged = k.staged /\ k.found \subseteq l.found /\ l.at # "tuple"
      BY <2>1 DEF ReuseFields
    <2> QED
      BY <1>2, <2>1, <2>2, FreshMoves DEF Open
  <1>8. CASE AsksTuple(c)
    <2>1. /\ k.at = "next" /\ k.plan # <<>> /\ TupleFields(k, l) /\ Quiet
          /\ PendingMatches(c, Head1(c)) = {}
          /\ RowsWithKey(TenantOf(c, Head1(c).item), Head1(c).key) = {}
      BY <1>8 DEF AsksTuple
    <2>2. /\ l.items = k.items /\ l.n = k.n /\ l.staged = k.staged /\ l.found = k.found /\ l.plan = k.plan
          /\ l.at = "tuple"
      BY <2>1 DEF TupleFields
    <2>3. /\ \A u : KeyNew(k, u) => KeyNew(l, u)'
          /\ \A u : TupleNew(k, u) => TupleNew(l, u)'
          /\ \A u, v : SameTenant(l, u, v) <=> SameTenant(k, u, v)
      BY <2>1, <2>2, NewMoves
    <2>4. \A u, n : NotStaged(k, u, n) => NotStaged(l, u, n)
      BY <2>2, <2>3 DEF NotStaged
    <2>5. KeyNew(k, Head(k.plan)) /\ NotStaged(k, Head(k.plan), Len(k.staged))
      BY <2>1, HeadIsNew DEF Head1
    <2>6. FreshOK(k) /\ k.at \in Open
      BY <1>2, <2>1 DEF Open
    <2> QED
      BY <2>2, <2>3, <2>4, <2>5, <2>6 DEF FreshOK
  <1>9. CASE Inserts(c)
    BY <1>9 DEF Inserts, InsertFields, FreshOK, Open
  <1>10. CASE Upserts(c)
    BY <1>3, <1>10 DEF Upserts, UpsertFields
  <1>11. CASE StoresFacts(c)
    <2>1. LinkFields(k, l) /\ k.at # "idle"
      BY <1>11 DEF StoresFacts, AllStaged
    <2>2. k.staged = <<>>
      BY <1>2, <1>11, <2>1 DEF StoresFacts, CourseOK
    <2> QED
      BY <1>3, <2>1, <2>2 DEF LinkFields
  <1>12. ASSUME NEW plain, StagesPlain(c, plain) PROVE Goal
    <2>1. PlainFields(k, l, plain) /\ plain \in Seq(Nat)
      BY <1>12 DEF StagesPlain
    <2>2. \A j \in 1..Len(l.staged) : IsRaw(l.staged[j]) /\ l.staged[j].tuple = NoTuple
      <3> DEFINE unit(j) == RawUnit(plain[j], k.items[plain[j]].turn)
                 m == Len(plain)
      <3>1. l.staged = [j \in 1..m |-> unit(j)] /\ m \in Nat
        BY <2>1 DEF PlainFields
      <3>2. \A j \in 1..m : IsRaw(unit(j)) /\ unit(j).tuple = NoTuple
        BY DEF RawUnit, RawKey, IsRaw
      <3> HIDE DEF unit, m
      <3>3. Len(l.staged) = m /\ \A j \in 1..m : l.staged[j] = unit(j)
        BY <3>1
      <3> QED
        BY <3>2, <3>3
    <2>3. l.at = "insert"
      BY <2>1 DEF PlainFields
    <2> QED
      BY <2>2, <2>3 DEF FreshOK
  <1>13. ASSUME NEW turns, Derives(c, turns) PROVE Goal
    <2>1. k.at = "next" /\ DeriveFields(k, l, turns) /\ Quiet
      BY <1>13 DEF Derives, PartDone
    <2>2. l.items = k.items /\ l.n = k.n /\ l.staged = k.staged /\ k.found \subseteq l.found /\ l.at # "tuple"
      BY <2>1 DEF DeriveFields
    <2> QED
      BY <1>2, <2>1, <2>2, FreshMoves DEF Open
  <1>14. CASE Returns(c) \/ Fails(c)
    BY <1>14 DEF Returns, Fails, Idle
  <1> HIDE DEF Goal
  <1> QED
    BY <1>4, <1>5, <1>6, <1>7, <1>8, <1>9, <1>10, <1>11, <1>12, <1>13, <1>14 DEF Changes, Change

(* A client that owes a link embeds its rows, writes the link or fails. *)
LEMMA OwedStep ==
    ASSUME Inv, NEW c \in Clients, Changes(c), NEW r \in Ids, rows'[r] = rows[r], Owes(call[c], r)
    PROVE  \/ [tenant |-> rows[r].tenant, tuple |-> rows[r].tuple, row |-> r] \in links'
           \/ Failed(rows[r].call)'
           \/ Owes(call[c], r)'
  <1>1. PICK f \in call[c].found : f.ref = r /\ f.tuple = rows[r].tuple
    BY DEF Owes
  <1>2. call[c].at \in {"upsert", "link"} /\ call[c].n = rows[r].call
    BY DEF Owes
  <1>3. CASE Upserts(c)
    <2>1. UpsertFields(call[c], call'[c])
      BY <1>3 DEF Upserts
    <2>2. call'[c].at = "link" /\ call'[c].n = call[c].n /\ call'[c].found = call[c].found
      BY <1>1, <2>1 DEF UpsertFields
    <2> QED
      BY <1>1, <1>2, <2>2 DEF Owes
  <1>4. CASE StoresFacts(c)
    BY <1>1, <1>4, LinksAfter, Zenon
  <1>5. CASE Fails(c)
    <2>1. replies'[call[c].n].status = "failed"
      BY <1>5, RepliesAfterEnd
    <2> QED
      BY <1>2, <2>1 DEF Failed
  <1> QED
    BY <1>2, <1>3, <1>4, <1>5, Zenon
       DEF Changes, Change, Begins, ParsesTurn, Stages, Reuses, AsksTuple, Inserts, StagesPlain, Derives,
           Returns, PartDone, AllStaged, AtHead

(* A client owes the links of the rows it inserts. *)
LEMMA NewOwed ==
    ASSUME Inv, NEW c \in Clients, FreshOK(call[c]), Inserts(c), NEW r \in Ids', r \notin Ids,
           rows'[r].tuple # NoTuple
    PROVE  Owes(call[c], r)'
  <1> DEFINE k == call[c]
             base == Len(rows)
             j == r - base
  <1>1. Types /\ k \in Call /\ base \in Nat /\ CourseOK(k) /\ k.found \in SUBSET Found /\ k.at \in {"next", "insert"}
    BY ItemsType DEF Inv, Types, CallsOK, Inserts, AllStaged
  <1>2. j \in 1..Len(k.staged) /\ r = base + j /\ rows'[r] = Made(k)[j]
    BY RowsAfterInsert DEF Ids
  <1>3. Made(k)[j].tuple = k.staged[j].tuple /\ Made(k)[j].call = k.n
    <2>1. \A q \in 1..Len(k.staged) : k.staged[q].item \in 1..Len(k.items)
      BY <1>1 DEF CourseOK, UnitOK
    <2> QED
      BY <1>1, <1>2, <2>1, MadeType, Zenon
  <1> HIDE DEF j
  <1>4. PICK f \in k.found : f.ref = -j /\ f.tuple = k.staged[j].tuple
    BY <1>1, <1>2, <1>3 DEF FreshOK, Open
  <1> DEFINE g == [f EXCEPT !.ref = Resolve(f.ref, base)]
  <1>5. g.tuple = f.tuple /\ g.ref = base + j
    <2>1. f \in Found /\ Resolve(f.ref, base) = base + j
      BY <1>1, <1>2, <1>4 DEF Resolve
    <2> QED
      BY <2>1 DEF Found
  <1>6. /\ call'[c].at = "upsert" /\ call'[c].n = k.n
        /\ call'[c].found = {[x EXCEPT !.ref = Resolve(x.ref, base)] : x \in k.found}
    BY DEF Inserts, InsertFields
  <1>7. g \in call'[c].found
    BY <1>6, Zenon
  <1> HIDE DEF g
  <1> QED
    BY <1>2, <1>3, <1>4, <1>5, <1>6, <1>7 DEF Owes

LEMMA LinkedStep ==
    ASSUME Inv, Fresh, NEW c \in Clients, Changes(c)
    PROVE  LinkedOK'
  <1> SUFFICES ASSUME NEW r \in Ids', rows'[r].tuple # NoTuple
               PROVE  \/ [tenant |-> rows'[r].tenant, tuple |-> rows'[r].tuple, row |-> r] \in links'
                      \/ Failed(rows[r].call)'
                      \/ \E d \in Clients : Owes(call[d], r)'
    BY DEF LinkedOK
  <1>1. CASE Inserts(c) /\ r \notin Ids
    <2>1. FreshOK(call[c])
      BY <1>1 DEF Fresh, Inserts, AllStaged
    <2> QED
      BY <1>1, <2>1, NewOwed
  <1>2. CASE r \in Ids /\ rows'[r] = rows[r]
    <2>1. \/ [tenant |-> rows[r].tenant, tuple |-> rows[r].tuple, row |-> r] \in links
          \/ Failed(rows[r].call)
          \/ \E d \in Clients : Owes(call[d], r)
      BY <1>2 DEF Fresh, LinkedOK
    <2>2. CASE Failed(rows[r].call)
      BY <1>2, <2>2, FailedStays
    <2>3. links \subseteq links'
      BY Grows DEF Grow
    <2>4. ASSUME NEW d \in Clients, Owes(call[d], r), d # c PROVE Owes(call[d], r)'
      <3>1. call'[d] = call[d]
        BY <2>4 DEF Changes, Others
      <3> QED
        BY <1>2, <2>4, <3>1 DEF Owes
    <2> QED
      BY <1>2, <2>1, <2>2, <2>3, <2>4, OwedStep
  <1> QED
    BY <1>1, <1>2, RowCases

LEMMA FreshStep ==
    ASSUME Inv, Fresh, NEW c \in Clients, Changes(c)
    PROVE  Fresh'
  <1>1. ASSUME NEW d \in Clients, call'[d].at # "idle" PROVE FreshOK(call[d])'
    <2>1. CASE d = c
      BY <1>1, <2>1, FreshOwn
    <2>2. CASE d # c
      <3>1. call'[d] = call[d] /\ call[d] \in Call
        BY <2>2, ItemsType DEF Changes, Others, Inv
      <3>2. FreshOK(call[d])
        BY <1>1, <3>1 DEF Fresh
      <3>3. Inserts(c) => call[d].n # call[c].n /\ {call[c].n, call[d].n} \in overlaps
        BY <1>1, <2>2, <3>1, Zenon DEF Inv, CallsOK, Inserts, AllStaged
      <3> QED
        BY <3>1, <3>2, <3>3, FreshKept
    <2> QED
      BY <2>1, <2>2
  <1> QED
    BY <1>1, LinkedStep DEF Fresh

LEMMA DuplicatesStep ==
    ASSUME Inv, Fresh, DuplicatesNeedRaceOrFailure, NEW c \in Clients, Changes(c)
    PROVE  DuplicatesNeedRaceOrFailure'
  <1> DEFINE k == call[c]
             base == Len(rows)
  <1> SUFFICES ASSUME NEW r \in Ids', NEW s \in Ids', r < s, rows'[r].tenant = rows'[s].tenant,
                      rows'[r].key.fact # NoFact, rows'[s].key.fact # NoFact
               PROVE  /\ rows'[r].key = rows'[s].key => Overlapped(rows[r].call, rows[s].call)'
                      /\ rows'[r].tuple = rows'[s].tuple /\ rows'[r].tuple # NoTuple =>
                            \/ Overlapped(rows[r].call, rows[s].call)'
                            \/ Failed(rows[r].call)'
    BY DEF DuplicatesNeedRaceOrFailure, Failed
  <1>1. Len(rows) \in Nat /\ Len(rows') \in Nat /\ overlaps \subseteq overlaps'
    BY Grows DEF Grow, Inv, Types
  <1>2. CASE s \in Ids
    <2>1. r \in Ids
      BY <1>1, <1>2 DEF Ids
    <2>2. rows'[r] = rows[r] /\ rows'[s] = rows[s]
      BY <1>2, <2>1, Grows DEF Grow, Ids
    <2>3. /\ rows[r].key = rows[s].key => Overlapped(rows[r].call, rows[s].call)
          /\ rows[r].tuple = rows[s].tuple /\ rows[r].tuple # NoTuple =>
                Overlapped(rows[r].call, rows[s].call) \/ Failed(rows[r].call)
      BY <1>2, <2>1, <2>2 DEF DuplicatesNeedRaceOrFailure, Failed
    <2>4. Failed(rows[r].call) => Failed(rows[r].call)'
      BY <2>1, FailedStays
    <2>5. Overlapped(rows[r].call, rows[s].call) => Overlapped(rows[r].call, rows[s].call)'
      BY <1>1, <2>2 DEF Overlapped
    <2> QED
      BY <2>2, <2>3, <2>4, <2>5
  <1>3. CASE s \notin Ids
    <2>1. Inserts(c)
      BY <1>3, RowCases
    <2>2. /\ Types /\ k \in Call /\ CourseOK(k) /\ FreshOK(k) /\ k.at \in Open
          /\ overlaps' = overlaps /\ replies' = replies
      BY <2>1, ItemsType DEF Inv, CallsOK, Fresh, Inserts, AllStaged, Open
    <2>3. \A j \in 1..Len(k.staged) :
             /\ Made(k)[j].tenant = k.items[k.staged[j].item].tenant /\ Made(k)[j].key = k.staged[j].key
             /\ Made(k)[j].tuple = k.staged[j].tuple /\ Made(k)[j].call = k.n
      BY <2>2, MadeType, Zenon DEF CourseOK, UnitOK
    <2> DEFINE j == s - base
               u == k.staged[j]
    <2>4. j \in 1..Len(k.staged) /\ rows'[s] = Made(k)[j]
      BY <1>3, <2>1, RowsAfterInsert, Zenon DEF Ids
    <2>5. /\ rows'[s].tenant = k.items[u.item].tenant /\ rows'[s].key = u.key
          /\ rows'[s].tuple = u.tuple /\ rows'[s].call = k.n
      BY <2>3, <2>4
    <2>6. ~IsRaw(u)
      BY <2>5 DEF IsRaw
    <2>7. KeyNew(k, u) /\ TupleNew(k, u) /\ NotStaged(k, u, j - 1)
      BY <2>2, <2>4, <2>6 DEF FreshOK
    <2>8. CASE r \in Ids
      <3>1. rows'[r] = rows[r]
        BY <2>8, Grows DEF Grow, Ids
      <3>2. rows[r].key = u.key => Overlapped(rows[r].call, k.n)
        BY <2>5, <2>7, <2>8, <3>1, Zenon DEF KeyNew
      <3>3. rows[r].tuple = u.tuple /\ u.tuple # NoTuple => Overlapped(rows[r].call, k.n) \/ Failed(rows[r].call)
        BY <2>5, <2>7, <2>8, <3>1, Zenon DEF TupleNew
      <3>4. Overlapped(rows[r].call, k.n) => Overlapped(rows[r].call, rows[s].call)'
        BY <2>2, <2>5, <3>1 DEF Overlapped
      <3>5. Failed(rows[r].call) => Failed(rows[r].call)'
        BY <2>2, <3>1 DEF Failed
      <3> QED
        BY <2>5, <3>1, <3>2, <3>3, <3>4, <3>5
    <2>9. CASE r \notin Ids
      <3> DEFINE i == r - base
                 v == k.staged[i]
      <3>1. i \in 1..Len(k.staged) /\ rows'[r] = Made(k)[i]
        BY <2>1, <2>9, RowsAfterInsert DEF Ids
      <3>2. rows'[r].tenant = k.items[v.item].tenant /\ rows'[r].key = v.key /\ rows'[r].tuple = v.tuple
        BY <2>3, <3>1
      <3>3. i \in 1..(j - 1)
        BY <1>1, <2>4, <3>1 DEF Ids
      <3>4. SameTenant(k, v, u)
        BY <2>5, <3>2 DEF SameTenant
      <3>5. v.key # u.key /\ (v.tuple = u.tuple => u.tuple = NoTuple)
        BY <2>7, <3>3, <3>4 DEF NotStaged
      <3> QED
        BY <2>5, <3>2, <3>5
    <2> QED
      BY <2>8, <2>9
  <1> QED
    BY <1>2, <1>3

(* A tenant has one memory for a canonical key unless requests overlapped, *)
(* and one for a relation tuple unless moreover a request failed between   *)
(* its row and its entity fact: for any batches, parsers and clients       *)
(* (FindByCanonicalKey, FindByRelationTuple and the pending memories of    *)
(* one batch).                                                             *)
THEOREM DuplicatesNeedRaceOrFailureCorrect == Spec => []DuplicatesNeedRaceOrFailure
  <1>1. Init => Fresh /\ DuplicatesNeedRaceOrFailure
    <2> SUFFICES ASSUME Init PROVE Fresh /\ DuplicatesNeedRaceOrFailure
      OBVIOUS
    <2>1. \A c \in Clients : call[c].at = "idle"
      BY DEF Init, Idle
    <2>2. Ids = {}
      BY DEF Init, Ids
    <2> QED
      BY <2>1, <2>2 DEF Fresh, LinkedOK, DuplicatesNeedRaceOrFailure
  <1>2. Inv /\ Fresh /\ DuplicatesNeedRaceOrFailure /\ [Next]_vars => Fresh' /\ DuplicatesNeedRaceOrFailure'
    <2> SUFFICES ASSUME Inv, Fresh, DuplicatesNeedRaceOrFailure, [Next]_vars
                 PROVE  Fresh' /\ DuplicatesNeedRaceOrFailure'
      OBVIOUS
    <2>1. ASSUME NEW c \in Clients, ClientStep(c) PROVE Fresh' /\ DuplicatesNeedRaceOrFailure'
      BY <2>1, StepChange, FreshStep, DuplicatesStep
    <2>2. CASE UNCHANGED vars
      <3>1. ASSUME NEW k, FreshOK(k) PROVE FreshOK(k)'
        <4>1. Quiet
          BY <2>2 DEF vars, Quiet
        <4>2. \A u : (KeyNew(k, u) => KeyNew(k, u)') /\ (TupleNew(k, u) => TupleNew(k, u)')
          BY <4>1, NewMoves
        <4> QED
          BY <3>1, <4>2 DEF FreshOK
      <3>2. LinkedOK'
        BY <2>2 DEF vars, Fresh, LinkedOK, Owes, Failed, Ids
      <3>3. Fresh'
        BY <2>2, <3>1, <3>2 DEF vars, Fresh
      <3>4. DuplicatesNeedRaceOrFailure'
        <4>1. rows' = rows /\ overlaps' = overlaps /\ replies' = replies
          BY <2>2 DEF vars
        <4> QED
          <5>1. Ids' = Ids
            BY <4>1 DEF Ids
          <5>2. \A n, m : Overlapped(n, m)' <=> Overlapped(n, m)
            BY <4>1 DEF Overlapped
          <5> QED
            BY <4>1, <5>1, <5>2 DEF DuplicatesNeedRaceOrFailure
      <3> QED
        BY <3>3, <3>4
    <2> QED
      BY <2>1, <2>2 DEF Next
  <1> QED
    BY <1>1, <1>2, InvIsInvariant, PTL DEF Spec

-----------------------------------------------------------------------------
(* Every fact is stated.                                                   *)

(* What is found by key or by tuple stays found. *)
LEMMA StaysFound ==
    ASSUME Inv, NEW c \in Clients, Changes(c), NEW t, NEW x
    PROVE  /\ RowsWithKey(t, x) # {} => RowsWithKey(t, x)' # {}
           /\ RowsWithTuple(t, x) # {} => RowsWithTuple(t, x)' # {}
  <1>1. /\ Len(rows) \in Nat /\ Len(rows') \in Nat /\ Len(rows) <= Len(rows')
        /\ \A r \in 1..Len(rows) : rows'[r] = rows[r]
        /\ links \subseteq links'
    BY Grows DEF Grow, Inv, Types
  <1>2. \A r \in 1..Len(rows) : r \in 1..Len(rows')
    BY <1>1
  <1>3. RowsWithKey(t, x) \subseteq RowsWithKey(t, x)'
    BY <1>1, <1>2 DEF RowsWithKey
  <1>4. RowsWithTuple(t, x) \subseteq RowsWithTuple(t, x)'
    BY <1>1 DEF RowsWithTuple
  <1> QED
    BY <1>3, <1>4

LEMMA StatedKept ==
    ASSUME Inv, NEW c \in Clients, Changes(c), NEW k, NEW u, Stated(k, u)
    PROVE  Stated(k, u)'
  <1>1. \A t, x : /\ RowsWithKey(t, x) # {} => RowsWithKey(t, x)' # {}
                  /\ RowsWithTuple(t, x) # {} => RowsWithTuple(t, x)' # {}
    BY StaysFound
  <1> QED
    BY <1>1 DEF Stated

(* A fact stays stated when plan, staged memories and found facts are kept *)
(* for it.                                                                 *)
LEMMA StatedMoves ==
    ASSUME Inv, NEW c \in Clients, Changes(c), NEW k, NEW l, NEW u, l.items = k.items, Stated(k, u),
           (\E j \in 1..Len(k.plan) : k.plan[j] = u) => Stated(l, u)',
           \A j \in 1..Len(k.staged) : \E q \in 1..Len(l.staged) : l.staged[q] = k.staged[j],
           \A f \in k.found : \E g \in l.found : g.item = f.item /\ g.tuple = f.tuple
    PROVE  Stated(l, u)'
  <1>1. \A t, x : /\ RowsWithKey(t, x) # {} => RowsWithKey(t, x)' # {}
                  /\ RowsWithTuple(t, x) # {} => RowsWithTuple(t, x)' # {}
    BY StaysFound
  <1>2. \A v, w : SameTenant(l, v, w) <=> SameTenant(k, v, w)
    BY DEF SameTenant
  <1>3. \A v, f, g : f.item = g.item => (SameTenant(l, f, v) <=> SameTenant(l, g, v))
    BY DEF SameTenant
  <1>4. CASE \E j \in 1..Len(k.plan) : k.plan[j] = u
    BY <1>4
  <1>5. CASE /\ u.tuple = NoTuple
             /\ \E j \in 1..Len(k.staged) : k.staged[j].key = u.key /\ SameTenant(k, k.staged[j], u)
    BY <1>2, <1>5 DEF Stated
  <1>6. CASE u.tuple = NoTuple /\ RowsWithKey(k.items[u.item].tenant, u.key) # {}
    BY <1>1, <1>6 DEF Stated
  <1>7. CASE u.tuple # NoTuple /\ \E f \in k.found : f.tuple = u.tuple /\ SameTenant(k, f, u)
    <2>1. PICK f \in k.found : f.tuple = u.tuple /\ SameTenant(k, f, u)
      BY <1>7
    <2>2. PICK g \in l.found : g.item = f.item /\ g.tuple = f.tuple
      BY <2>1
    <2>3. SameTenant(l, g, u) /\ g.tuple = u.tuple
      BY <1>2, <1>3, <2>1, <2>2
    <2> QED
      BY <1>7, <2>3 DEF Stated
  <1>8. CASE u.tuple # NoTuple /\ RowsWithTuple(k.items[u.item].tenant, u.tuple) # {}
    BY <1>1, <1>8 DEF Stated
  <1> QED
    BY <1>4, <1>5, <1>6, <1>7, <1>8 DEF Stated

LEMMA StatedStage ==
    ASSUME Inv, NEW c \in Clients, Changes(c), Stages(c), NEW l \in Call, l = call'[c],
           NEW u, Stated(call[c], u)
    PROVE  Stated(l, u)'
  <1> DEFINE k == call[c]
             h == Head1(c)
  <1>1. /\ Types /\ k \in Call /\ CourseOK(k) /\ k.plan # <<>> /\ k.plan \in Seq(Unit)
        /\ k.staged \in Seq(Unit) /\ StageFields(k, l, h)
    BY ItemsType DEF Inv, CallsOK, Stages, AtHead
  <1>2. h \in Unit
    BY <1>1, HeadUnit
  <1>3. h = Head(k.plan)
    BY DEF Head1
  <1> HIDE DEF h
  <1>4. /\ l.items = k.items /\ l.plan = Tail(k.plan) /\ l.staged = Append(k.staged, h)
        /\ l.found = IF h.tuple = NoTuple THEN k.found
                     ELSE k.found \cup {[item |-> h.item, tuple |-> h.tuple, ref |-> -Len(Append(k.staged, h))]}
    BY <1>1 DEF StageFields
  <1>5. /\ \A j \in 1..Len(k.staged) : j \in 1..Len(l.staged) /\ l.staged[j] = k.staged[j]
        /\ Len(k.staged) + 1 \in 1..Len(l.staged) /\ l.staged[Len(k.staged) + 1] = h
    BY <1>1, <1>2, <1>4, AppendElements
  <1>6. k.found \subseteq l.found
    BY <1>4
  <1>7. ASSUME NEW j \in 1..Len(k.plan), k.plan[j] = u PROVE Stated(l, u)'
    <2>1. CASE j = 1
      <3>1. u = h
        BY <1>1, <1>3, <1>7, <2>1
      <3>2. CASE u.tuple = NoTuple
        <4>1. \E q \in 1..Len(l.staged) : l.staged[q].key = u.key /\ SameTenant(l, l.staged[q], u)
          BY <1>5, <3>1, Zenon DEF SameTenant
        <4> QED
          BY <3>2, <4>1 DEF Stated
      <3>3. CASE u.tuple # NoTuple
        <4> DEFINE f == [item |-> h.item, tuple |-> h.tuple, ref |-> -Len(Append(k.staged, h))]
        <4>1. f \in l.found
          BY <1>4, <3>1, <3>3
        <4>2. f.item = u.item /\ f.tuple = u.tuple
          BY <3>1
        <4> HIDE DEF f
        <4>3. SameTenant(l, f, u)
          BY <4>2 DEF SameTenant
        <4> QED
          BY <3>3, <4>1, <4>2, <4>3 DEF Stated
      <3> QED
        BY <3>2, <3>3
    <2>2. CASE j # 1
      <3> DEFINE plan == k.plan
      <3>1. plan \in Seq(Unit) /\ plan # <<>> /\ j \in 1..Len(plan) /\ plan[j] = u /\ l.plan = Tail(plan)
        BY <1>1, <1>4, <1>7
      <3> HIDE DEF plan
      <3>2. \E q \in 1..Len(Tail(plan)) : Tail(plan)[q] = plan[j]
        BY <2>2, <3>1, InTail, Zenon
      <3>3. \E q \in 1..Len(l.plan) : l.plan[q] = u
        BY <3>1, <3>2
      <3> QED
        BY <3>3 DEF Stated
    <2> QED
      BY <2>1, <2>2
  <1> QED
    BY <1>4, <1>5, <1>6, <1>7, StatedMoves, Zenon

LEMMA StatedReuse ==
    ASSUME Inv, NEW c \in Clients, Changes(c), NEW ref, Reuses(c, ref), NEW l \in Call, l = call'[c],
           NEW u, Stated(call[c], u)
    PROVE  Stated(l, u)'
  <1> DEFINE k == call[c]
             h == Head1(c)
  <1>1. /\ Types /\ k \in Call /\ CourseOK(k) /\ k.plan # <<>> /\ k.plan \in Seq(Unit)
        /\ k.staged \in Seq(Unit) /\ ReuseFields(k, l, h, ref) /\ Reusable(c, h, ref) /\ Quiet
    BY ItemsType DEF Inv, CallsOK, Reuses, AtHead
  <1>2. h = Head(k.plan)
    BY DEF Head1
  <1> HIDE DEF h
  <1>3. /\ l.items = k.items /\ l.plan = Tail(k.plan) /\ l.staged = k.staged
        /\ l.found = IF h.tuple = NoTuple THEN k.found
                     ELSE k.found \cup {[item |-> h.item, tuple |-> h.tuple, ref |-> ref]}
    BY <1>1 DEF ReuseFields
  <1>4. k.found \subseteq l.found
    BY <1>3
  <1>5. ASSUME NEW j \in 1..Len(k.plan), k.plan[j] = u PROVE Stated(l, u)'
    <2>1. CASE j = 1
      <3>1. u = h
        BY <1>1, <1>2, <1>5, <2>1
      <3>2. CASE u.tuple = NoTuple
        <4>1. CASE -ref \in PendingMatches(c, u)
          <5>1. \E q \in 1..Len(k.staged) :
                   k.staged[q].key = u.key /\ TenantOf(c, k.staged[q].item) = TenantOf(c, u.item)
            BY <3>2, <4>1 DEF PendingMatches
          <5>2. \E q \in 1..Len(l.staged) : l.staged[q].key = u.key /\ SameTenant(l, l.staged[q], u)
            BY <1>3, <5>1 DEF SameTenant, TenantOf
          <5> QED
            BY <3>2, <5>2 DEF Stated
        <4>2. CASE ref \in RowsWithKey(TenantOf(c, u.item), u.key)
          <5>1. RowsWithKey(l.items[u.item].tenant, u.key) # {}
            BY <1>3, <4>2 DEF TenantOf
          <5>2. RowsWithKey(l.items[u.item].tenant, u.key)' # {}
            BY <5>1, StaysFound
          <5> QED
            BY <3>2, <5>2 DEF Stated
        <4>3. CASE ref \in RowsWithTuple(TenantOf(c, u.item), u.tuple)
          BY <3>2, <4>3 DEF RowsWithTuple
        <4> QED
          BY <1>1, <3>1, <4>1, <4>2, <4>3 DEF Reusable
      <3>3. CASE u.tuple # NoTuple
        <4> DEFINE f == [item |-> h.item, tuple |-> h.tuple, ref |-> ref]
        <4>1. f \in l.found
          BY <1>3, <3>1, <3>3
        <4>2. f.item = u.item /\ f.tuple = u.tuple
          BY <3>1
        <4> HIDE DEF f
        <4>3. SameTenant(l, f, u)
          BY <4>2 DEF SameTenant
        <4> QED
          BY <3>3, <4>1, <4>2, <4>3 DEF Stated
      <3> QED
        BY <3>2, <3>3
    <2>2. CASE j # 1
      <3> DEFINE plan == k.plan
      <3>1. plan \in Seq(Unit) /\ plan # <<>> /\ j \in 1..Len(plan) /\ plan[j] = u /\ l.plan = Tail(plan)
        BY <1>1, <1>3, <1>5
      <3> HIDE DEF plan
      <3>2. \E q \in 1..Len(Tail(plan)) : Tail(plan)[q] = plan[j]
        BY <2>2, <3>1, InTail, Zenon
      <3>3. \E q \in 1..Len(l.plan) : l.plan[q] = u
        BY <3>1, <3>2
      <3> QED
        BY <3>3 DEF Stated
    <2> QED
      BY <2>1, <2>2
  <1> QED
    BY <1>3, <1>4, <1>5, StatedMoves

LEMMA StatedOwn ==
    ASSUME Inv, StatedOK, NEW c \in Clients, Changes(c), NEW l, l = call'[c], l.at # "idle", NEW u \in l.units
    PROVE  Stated(l, u)'
  <1> DEFINE k == call[c]
             Goal == Stated(l, u)'
  <1> SUFFICES Goal
    OBVIOUS
  <1>1. Types /\ k \in Call /\ l \in Call /\ k.plan \in Seq(Unit) /\ k.staged \in Seq(Unit)
    BY ItemsType DEF Inv, Changes
  <1>2. k.at # "idle" => CourseOK(k) /\ InsertedOK(k) /\ \A x \in k.units : Stated(k, x)
    BY DEF Inv, CallsOK, StatedOK
  <1>3. ASSUME k.at # "idle", l.units = k.units, l.items = k.items, l.plan = k.plan,
               \A j \in 1..Len(k.staged) : \E q \in 1..Len(l.staged) : l.staged[q] = k.staged[j],
               \A f \in k.found : \E g \in l.found : g.item = f.item /\ g.tuple = f.tuple
        PROVE  Goal
    <2>1. Stated(k, u)
      BY <1>2, <1>3
    <2>2. (\E j \in 1..Len(k.plan) : k.plan[j] = u) => Stated(l, u)'
      BY <1>3 DEF Stated
    <2> QED
      BY <1>3, <2>1, <2>2, StatedMoves, Zenon
  <1>4. ASSUME NEW items, NEW together, NEW turns, Begins(c, items, together, turns) PROVE Goal
    BY <1>4 DEF Begins, BeginFields
  <1>5. ASSUME NEW units, ParsesTurn(c, units) PROVE Goal
    <2>1. k.at # "idle" /\ k.plan = <<>> /\ ParseFields(k, l, units)
      BY <1>5 DEF ParsesTurn
    <2>2. /\ l.items = k.items /\ l.staged = k.staged /\ l.found = k.found /\ l.plan = units
          /\ l.units = k.units \cup {units[j] : j \in 1..Len(units)}
      BY <2>1 DEF ParseFields
    <2>3. CASE \E j \in 1..Len(l.plan) : l.plan[j] = u
      BY <2>3 DEF Stated
    <2>4. CASE u \in k.units
      <3>1. Stated(k, u)
        BY <1>2, <2>1, <2>4
      <3>2. ~ \E j \in 1..Len(k.plan) : k.plan[j] = u
        BY <2>1
      <3> QED
        BY <2>2, <3>1, <3>2, StatedMoves
    <2> QED
      BY <2>2, <2>3, <2>4
  <1>6. CASE Stages(c)
    <2>1. k.at # "idle" /\ l.units = k.units
      BY <1>6 DEF Stages, AtHead, StageFields
    <2> QED
      BY <1>1, <1>2, <1>6, <2>1, StatedStage, Zenon
  <1>7. ASSUME NEW ref, Reuses(c, ref) PROVE Goal
    <2>1. k.at # "idle" /\ l.units = k.units
      BY <1>7 DEF Reuses, AtHead, ReuseFields
    <2> QED
      BY <1>1, <1>2, <1>7, <2>1, StatedReuse, Zenon
  <1>8. CASE AsksTuple(c)
    <2>1. k.at # "idle" /\ TupleFields(k, l)
      BY <1>8 DEF AsksTuple
    <2> QED
      BY <1>3, <2>1 DEF TupleFields
  <1>9. CASE Inserts(c)
    <2>1. k.at # "idle" /\ InsertFields(k, l, Len(rows)) /\ k.found \in SUBSET Found /\ Len(rows) \in Nat
      BY <1>1, <1>9, ItemsType DEF Inserts, AllStaged, Types
    <2>2. ASSUME NEW f \in k.found PROVE \E g \in l.found : g.item = f.item /\ g.tuple = f.tuple
      <3> DEFINE g == [f EXCEPT !.ref = Resolve(f.ref, Len(rows))]
      <3>1. g \in l.found
        BY <2>1, Zenon DEF InsertFields
      <3>2. g.item = f.item /\ g.tuple = f.tuple
        BY <2>1 DEF Found
      <3> QED
        BY <3>1, <3>2, Zenon
    <2>3. l.units = k.units /\ l.items = k.items /\ l.plan = k.plan /\ l.staged = k.staged
      BY <2>1 DEF InsertFields
    <2> QED
      BY <1>3, <2>1, <2>2, <2>3
  <1>10. CASE Upserts(c)
    <2>1. k.at = "upsert" /\ UpsertFields(k, l) /\ rows' = rows /\ links' = links
      BY <1>10 DEF Upserts
    <2>2. l.units = k.units /\ l.items = k.items /\ l.plan = k.plan /\ l.found = k.found
      BY <2>1 DEF UpsertFields
    <2>3. Stated(k, u)
      BY <1>2, <2>1, <2>2
    <2>4. CASE /\ u.tuple = NoTuple
               /\ \E j \in 1..Len(k.staged) : k.staged[j].key = u.key /\ SameTenant(k, k.staged[j], u)
      <3>1. PICK j \in 1..Len(k.staged) : k.staged[j].key = u.key /\ SameTenant(k, k.staged[j], u)
        BY <2>4
      <3>2. rows[k.base + j].tenant = k.items[k.staged[j].item].tenant /\ rows[k.base + j].key = k.staged[j].key
        BY <1>2, <2>1 DEF InsertedOK
      <3>3. k.base + j \in 1..Len(rows)
        BY <2>1, InsertedIds DEF Ids
      <3>4. RowsWithKey(l.items[u.item].tenant, u.key) # {}
        BY <2>2, <3>1, <3>2, <3>3 DEF RowsWithKey, SameTenant
      <3>5. RowsWithKey(l.items[u.item].tenant, u.key)' # {}
        BY <3>4, StaysFound
      <3> QED
        BY <2>4, <3>5 DEF Stated
    <2>5. \A v, w : SameTenant(l, v, w) <=> SameTenant(k, v, w)
      BY <2>2 DEF SameTenant
    <2>6. CASE \/ \E j \in 1..Len(k.plan) : k.plan[j] = u
               \/ u.tuple # NoTuple /\ \E f \in k.found : f.tuple = u.tuple /\ SameTenant(k, f, u)
      BY <2>2, <2>5, <2>6 DEF Stated
    <2>7. CASE \/ u.tuple = NoTuple /\ RowsWithKey(k.items[u.item].tenant, u.key) # {}
               \/ u.tuple # NoTuple /\ RowsWithTuple(k.items[u.item].tenant, u.tuple) # {}
      <3>1. \/ u.tuple = NoTuple /\ RowsWithKey(l.items[u.item].tenant, u.key)' # {}
            \/ u.tuple # NoTuple /\ RowsWithTuple(l.items[u.item].tenant, u.tuple)' # {}
        BY <2>2, <2>7, StaysFound
      <3> QED
        BY <3>1 DEF Stated
    <2> QED
      BY <2>3, <2>4, <2>6, <2>7 DEF Stated
  <1>11. CASE StoresFacts(c)
    <2>1. k.at # "idle" /\ LinkFields(k, l)
      BY <1>11 DEF StoresFacts, AllStaged
    <2>2. l.units = k.units /\ l.items = k.items /\ l.plan = k.plan /\ l.staged = k.staged
      BY <2>1 DEF LinkFields
    <2>3. Stated(k, u)
      BY <1>2, <2>1, <2>2
    <2>4. CASE u.tuple # NoTuple /\ \E f \in k.found : f.tuple = u.tuple /\ SameTenant(k, f, u)
      <3>1. PICK f \in k.found : f.tuple = u.tuple /\ SameTenant(k, f, u)
        BY <2>4
      <3> DEFINE e == [tenant |-> k.items[f.item].tenant, tuple |-> f.tuple, row |-> f.ref]
      <3>2. e \in links'
        BY <1>11, LinksAfter
      <3>3. e.tenant = l.items[u.item].tenant /\ e.tuple = u.tuple
        BY <2>2, <3>1 DEF SameTenant
      <3> HIDE DEF e
      <3>4. RowsWithTuple(l.items[u.item].tenant, u.tuple)' # {}
        BY <2>4, <3>2, <3>3 DEF RowsWithTuple
      <3> QED
        BY <2>4, <3>4 DEF Stated
    <2>5. \A v, w : SameTenant(l, v, w) <=> SameTenant(k, v, w)
      BY <2>2 DEF SameTenant
    <2>6. CASE \/ \E j \in 1..Len(k.plan) : k.plan[j] = u
               \/ /\ u.tuple = NoTuple
                  /\ \E j \in 1..Len(k.staged) : k.staged[j].key = u.key /\ SameTenant(k, k.staged[j], u)
      BY <2>2, <2>5, <2>6 DEF Stated
    <2>7. CASE \/ u.tuple = NoTuple /\ RowsWithKey(k.items[u.item].tenant, u.key) # {}
               \/ u.tuple # NoTuple /\ RowsWithTuple(k.items[u.item].tenant, u.tuple) # {}
      <3>1. \/ u.tuple = NoTuple /\ RowsWithKey(l.items[u.item].tenant, u.key)' # {}
            \/ u.tuple # NoTuple /\ RowsWithTuple(l.items[u.item].tenant, u.tuple)' # {}
        BY <2>2, <2>7, StaysFound
      <3> QED
        BY <3>1 DEF Stated
    <2> QED
      BY <2>3, <2>4, <2>6, <2>7 DEF Stated
  <1>12. ASSUME NEW plain, StagesPlain(c, plain) PROVE Goal
    <2>1. k.at # "idle" /\ k.staged = <<>> /\ k.plan = <<>> /\ PlainFields(k, l, plain) /\ plain \in Seq(Nat)
      BY <1>2, <1>12 DEF StagesPlain, PartDone, CourseOK
    <2> DEFINE unit(j) == RawUnit(plain[j], k.items[plain[j]].turn)
               m == Len(plain)
    <2>2. /\ l.items = k.items /\ l.found = k.found /\ l.staged = [j \in 1..m |-> unit(j)]
          /\ l.units = k.units \cup {unit(j) : j \in 1..m} /\ m \in Nat
      BY <2>1 DEF PlainFields
    <2>3. CASE u \in k.units
      <3>1. Stated(k, u)
        BY <1>2, <2>1, <2>3
      <3>2. (~ \E j \in 1..Len(k.plan) : k.plan[j] = u) /\ 1..Len(k.staged) = {}
        BY <2>1
      <3> HIDE DEF unit, m
      <3> QED
        BY <2>2, <3>1, <3>2, StatedMoves
    <2>4. CASE u \notin k.units
      <3>1. PICK j \in 1..m : u = unit(j)
        BY <2>2, <2>4
      <3>2. unit(j).tuple = NoTuple
        BY DEF RawUnit
      <3> HIDE DEF unit, m
      <3>3. Len(l.staged) = m /\ l.staged[j] = u
        BY <2>2, <3>1
      <3>4. SameTenant(l, l.staged[j], u)
        BY <3>3 DEF SameTenant
      <3> QED
        BY <3>1, <3>2, <3>3, <3>4 DEF Stated
    <2> QED
      BY <2>3, <2>4
  <1>13. ASSUME NEW turns, Derives(c, turns) PROVE Goal
    <2>1. k.at # "idle" /\ DeriveFields(k, l, turns)
      BY <1>13 DEF Derives, PartDone
    <2> QED
      BY <1>3, <2>1 DEF DeriveFields
  <1>14. CASE Returns(c) \/ Fails(c)
    BY <1>14 DEF Returns, Fails, Idle
  <1> HIDE DEF Goal
  <1> QED
    BY <1>4, <1>5, <1>6, <1>7, <1>8, <1>9, <1>10, <1>11, <1>12, <1>13, <1>14 DEF Changes, Change

LEMMA StatedStep ==
    ASSUME Inv, StatedOK, NEW c \in Clients, Changes(c)
    PROVE  StatedOK'
  <1> SUFFICES ASSUME NEW d \in Clients, call'[d].at # "idle", NEW u \in call'[d].units
               PROVE  Stated(call[d], u)'
    BY DEF StatedOK
  <1>1. CASE d = c
    BY <1>1, StatedOwn
  <1>2. CASE d # c
    <2>1. call'[d] = call[d]
      BY <1>2 DEF Changes, Others
    <2>2. Stated(call[d], u)
      BY <2>1 DEF StatedOK
    <2> QED
      BY <2>1, <2>2, StatedKept
  <1> QED
    BY <1>1, <1>2

(* An ended request's reply stays; a request that ends well answers with   *)
(* what it has. *)
LEMMA OkReplies ==
    ASSUME Inv, NEW c \in Clients, Changes(c), NEW n \in Calls', replies'[n].status = "ok"
    PROVE  \/ n \in Calls /\ replies'[n] = replies[n]
           \/ /\ Returns(c) /\ n = call[c].n
              /\ replies'[n].items = call[c].items
              /\ replies'[n].out = call[c].out
              /\ replies'[n].units = call[c].units
  <1>1. /\ replies \in Seq(Reply) /\ replies' \in Seq(Reply)
        /\ \A m \in 1..Len(replies) : call[c].at = "idle" \/ m # call[c].n => replies'[m] = replies[m]
    BY Grows DEF Grow, Inv, Types
  <1>2. CASE replies' = replies
    BY <1>2 DEF Calls
  <1>3. ASSUME NEW items \in Batches, NEW together, NEW turns, Begins(c, items, together, turns)
        PROVE  n \in Calls /\ replies'[n] = replies[n]
    <2>1. n # Len(replies) + 1
      BY <1>3, RepliesAfterBegin
    <2>2. n \in 1..Len(replies)
      BY <1>1, <1>3, <2>1, RepliesAfterBegin DEF Calls
    <2> QED
      BY <1>1, <1>3, <2>2, RepliesAfterBegin DEF Calls
  <1>4. CASE Returns(c)
    <2>1. n \in 1..Len(replies)
      BY <1>1, <1>4, RepliesAfterEnd DEF Calls
    <2>2. OpenOK(call[c])
      BY <1>4 DEF Inv, CallsOK, Returns, PartDone
    <2>3. CASE n # call[c].n
      BY <1>1, <1>4, <2>1, <2>3, RepliesAfterEnd DEF Calls
    <2>4. CASE n = call[c].n
      BY <1>4, <2>2, <2>4, RepliesAfterEnd DEF OpenOK
    <2> QED
      BY <2>3, <2>4
  <1>5. CASE Fails(c)
    <2>1. n \in 1..Len(replies)
      BY <1>1, <1>5, RepliesAfterEnd DEF Calls
    <2>2. n # call[c].n
      BY <1>5, RepliesAfterEnd
    <2> QED
      BY <1>1, <1>5, <2>1, <2>2, RepliesAfterEnd DEF Calls
  <1> QED
    BY <1>2, <1>3, <1>4, <1>5
       DEF Changes, Change, ParsesTurn, Stages, Reuses, AsksTuple, Inserts, Upserts, StoresFacts, StagesPlain,
           Derives, Quiet

LEMMA EveryFactStep ==
    ASSUME Inv, StatedOK, EveryFactIsStated, NEW c \in Clients, Changes(c)
    PROVE  EveryFactIsStated'
  <1> SUFFICES ASSUME NEW n \in Calls', replies'[n].status = "ok", NEW u \in replies'[n].units
               PROVE  /\ u.tuple = NoTuple => RowsWithKey(replies[n].items[u.item].tenant, u.key)' # {}
                      /\ u.tuple # NoTuple => RowsWithTuple(replies[n].items[u.item].tenant, u.tuple)' # {}
    BY DEF EveryFactIsStated
  <1> DEFINE t == replies'[n].items[u.item].tenant
  <1>1. /\ u.tuple = NoTuple => RowsWithKey(t, u.key) # {}
        /\ u.tuple # NoTuple => RowsWithTuple(t, u.tuple) # {}
    <2>1. CASE n \in Calls /\ replies'[n] = replies[n]
      BY <2>1 DEF EveryFactIsStated
    <2>2. CASE /\ Returns(c) /\ n = call[c].n /\ replies'[n].items = call[c].items
               /\ replies'[n].units = call[c].units
      <3>1. Stated(call[c], u)
        BY <2>2 DEF StatedOK, Returns, PartDone
      <3>2. CourseOK(call[c]) /\ call[c].plan = <<>> /\ call[c].at = "next" /\ ~call[c].together
        BY <2>2 DEF Inv, CallsOK, Returns, PartDone
      <3>3. call[c].staged = <<>> /\ call[c].found = {}
        BY <3>2 DEF CourseOK
      <3>4. 1..Len(call[c].plan) = {} /\ 1..Len(call[c].staged) = {}
        BY <3>2, <3>3
      <3> QED
        BY <2>2, <3>1, <3>3, <3>4 DEF Stated
    <2> QED
      BY <2>1, <2>2, OkReplies
  <1>2. \A k : /\ RowsWithKey(k, u.key) # {} => RowsWithKey(k, u.key)' # {}
               /\ RowsWithTuple(k, u.tuple) # {} => RowsWithTuple(k, u.tuple)' # {}
    BY StaysFound
  <1> QED
    BY <1>1, <1>2

(* Every fact a successful request took from its turns is stated by a      *)
(* memory of the tenant and found by its tuple from then on, for any       *)
(* parser and any batch: what is pending, stored or written by another     *)
(* request is reused without losing one.                                   *)
THEOREM EveryFactIsStatedCorrect == Spec => []EveryFactIsStated
  <1>1. Init => StatedOK /\ EveryFactIsStated
    <2> SUFFICES ASSUME Init PROVE StatedOK /\ EveryFactIsStated
      OBVIOUS
    <2>1. \A c \in Clients : call[c].at = "idle"
      BY DEF Init, Idle
    <2>2. Calls = {}
      BY DEF Init, Calls
    <2> QED
      BY <2>1, <2>2 DEF StatedOK, EveryFactIsStated
  <1>2. Inv /\ StatedOK /\ EveryFactIsStated /\ [Next]_vars => StatedOK' /\ EveryFactIsStated'
    <2> SUFFICES ASSUME Inv, StatedOK, EveryFactIsStated, [Next]_vars
                 PROVE  StatedOK' /\ EveryFactIsStated'
      OBVIOUS
    <2>1. ASSUME NEW c \in Clients, ClientStep(c) PROVE StatedOK' /\ EveryFactIsStated'
      BY <2>1, StepChange, StatedStep, EveryFactStep
    <2>2. CASE UNCHANGED vars
      <3>1. rows' = rows /\ links' = links /\ call' = call /\ replies' = replies
        BY <2>2 DEF vars
      <3> QED
        BY <3>1 DEF StatedOK, EveryFactIsStated, Stated, RowsWithKey, RowsWithTuple, Calls
    <2> QED
      BY <2>1, <2>2 DEF Next
  <1> QED
    BY <1>1, <1>2, InvIsInvariant, PTL DEF Spec

-----------------------------------------------------------------------------
(* Answers.                                                                *)

LEMMA OutType ==
    ASSUME NEW k \in Call, CourseOK(k), NEW i \in 1..Len(k.items)
    PROVE  k.out[i] \in Int /\ i \in 1..Len(k.out) /\ k.items[i] \in Item
  <1>1. k.out \in Seq(Int) /\ k.items \in Seq(Item) /\ Len(k.out) = Len(k.items)
    BY DEF Call, CourseOK
  <1>2. i \in 1..Len(k.out)
    BY <1>1
  <1> QED
    BY <1>1, <1>2, ElementOfSeq

(* A reference is positive, to a row, or negative, to what is staged. *)
LEMMA RefSign ==
    ASSUME Types, NEW k \in Call, CourseOK(k), RefsOK(k), NEW i \in 1..Len(k.items), k.out[i] # 0
    PROVE  /\ k.out[i] > 0 => k.out[i] \in Ids /\ rows[k.out[i]].tenant = k.items[i].tenant
           /\ k.out[i] <= 0 => -k.out[i] \in 1..Len(k.staged) /\ k.at # "upsert"
  <1>1. k.out[i] \in Int /\ i \in 1..Len(k.out) /\ Len(rows) \in Nat /\ Len(k.staged) \in Nat
    <2>1. rows \in Seq(Row) /\ k.staged \in Seq(Unit)
      BY DEF Types, Call
    <2> QED
      BY <2>1, OutType
  <1>2. RefOK(k, i, k.out[i])
    BY <1>1 DEF RefsOK
  <1> QED
    BY <1>1, <1>2 DEF RefOK, Ids

(* The answer to item i survives a step that keeps what it refers to. *)
LEMMA AnswerMoves ==
    ASSUME NEW k, NEW l, NEW i, k.out[i] \in Int, AnswerOK(k, i),
           l.items = k.items, l.n = k.n, l.out[i] = k.out[i], k.units \subseteq l.units,
           options' = options, links \subseteq links',
           k.out[i] > 0 => rows'[k.out[i]] = rows[k.out[i]],
           k.out[i] < 0 => l.staged[-k.out[i]] = k.staged[-k.out[i]],
           \A t : [item |-> i, tuple |-> t, ref |-> k.out[i]] \in k.found =>
                     \/ [item |-> i, tuple |-> t, ref |-> k.out[i]] \in l.found
                     \/ [tenant |-> k.items[i].tenant, tuple |-> t, row |-> k.out[i]] \in links'
    PROVE  AnswerOK(l, i)'
  <1> SUFFICES ASSUME k.out[i] # 0 PROVE AnswerOK(l, i)'
    BY Zenon DEF AnswerOK
  <1>1. KeyAt(l, l.out[i])' = KeyAt(k, k.out[i])
    BY DEF KeyAt
  <1>2. Own(l, i)' <=> Own(k, i)
    BY DEF Own, ForParser
  <1>3. Own(l, i)' => /\ KeyAt(l, l.out[i])' = RawKey(l.items[i].turn)
                      /\ l.out[i] > 0 => rows'[l.out[i]].call = l.n
    BY <1>1, <1>2 DEF AnswerOK
  <1>4. \/ KeyAt(l, l.out[i])'.turn = l.items[i].turn
        \/ \E u \in l.units :
              /\ u.item = i /\ u.tuple # NoTuple
              /\ \/ [tenant |-> l.items[i].tenant, tuple |-> u.tuple, row |-> l.out[i]] \in links'
                 \/ [item |-> i, tuple |-> u.tuple, ref |-> l.out[i]] \in l.found
    <2>1. CASE KeyAt(k, k.out[i]).turn = k.items[i].turn
      BY <1>1, <2>1
    <2>2. CASE \E u \in k.units :
                 /\ u.item = i /\ u.tuple # NoTuple
                 /\ \/ [tenant |-> k.items[i].tenant, tuple |-> u.tuple, row |-> k.out[i]] \in links
                    \/ [item |-> i, tuple |-> u.tuple, ref |-> k.out[i]] \in k.found
      BY <2>2, Zenon
    <2> QED
      BY <2>1, <2>2, Zenon DEF AnswerOK
  <1> QED
    BY <1>3, <1>4, Zenon DEF AnswerOK

LEMMA WaitingMoves ==
    ASSUME NEW k, NEW l, l.items = k.items, l.part = k.part, l.todo = k.todo, l.plan = k.plan,
           options' = options
    PROVE  /\ ParserOK(k) => ParserOK(l)'
           /\ \A i : l.out[i] = k.out[i] /\ WaitingOK(k, i) => WaitingOK(l, i)'
  BY DEF ParserOK, WaitingOK, ForParser

(* Answers survive a step that keeps plan, answers and rows. *)
LEMMA AnswersMove ==
    ASSUME Inv, NEW c \in Clients, Changes(c), NEW k \in Call, NEW l \in Call, CourseOK(k), RefsOK(k), AnswersFor(k),
           l.items = k.items, l.n = k.n, l.part = k.part, l.todo = k.todo, l.plan = k.plan, l.out = k.out,
           k.units \subseteq l.units,
           \/ l.staged = k.staged
           \/ k.at = "upsert" \/ k.staged = <<>>,
           \A i \in 1..Len(k.items) : \A t :
              [item |-> i, tuple |-> t, ref |-> k.out[i]] \in k.found =>
                     \/ [item |-> i, tuple |-> t, ref |-> k.out[i]] \in l.found
                     \/ [tenant |-> k.items[i].tenant, tuple |-> t, row |-> k.out[i]] \in links'
    PROVE  AnswersFor(l)'
  <1>1. Grow(c) /\ Types
    BY Grows DEF Inv
  <1>2. options' = options /\ links \subseteq links' /\ \A r \in Ids : rows'[r] = rows[r]
    BY <1>1 DEF Grow, Ids
  <1>3. ParserOK(l)' /\ \A i \in 1..Len(l.items) : WaitingOK(l, i)'
    BY <1>2, WaitingMoves, Zenon DEF AnswersFor
  <1>4. ASSUME NEW i \in 1..Len(k.items) PROVE AnswerOK(l, i)'
    <2>1. k.out[i] \in Int /\ AnswerOK(k, i)
      BY OutType DEF AnswersFor
    <2>2. k.out[i] > 0 => rows'[k.out[i]] = rows[k.out[i]]
      BY <1>1, <1>2, <2>1, RefSign
    <2>3. k.out[i] < 0 => l.staged[-k.out[i]] = k.staged[-k.out[i]]
      BY <1>1, <2>1, RefSign
    <2>4. \A t : [item |-> i, tuple |-> t, ref |-> k.out[i]] \in k.found =>
                     \/ [item |-> i, tuple |-> t, ref |-> k.out[i]] \in l.found
                     \/ [tenant |-> k.items[i].tenant, tuple |-> t, row |-> k.out[i]] \in links'
      OBVIOUS
    <2> QED
      BY <1>2, <2>1, <2>2, <2>3, <2>4, AnswerMoves, Zenon
  <1> QED
    BY <1>3, <1>4 DEF AnswersFor

LEMMA AnswersBegin ==
    ASSUME Inv, NEW c \in Clients, NEW items \in Batches, NEW together, NEW turns,
           Begins(c, items, together, turns), NEW l, l = call'[c]
    PROVE  AnswersFor(l)'
  <1>1. /\ l.items = items /\ l.part = "parser" /\ l.todo = turns /\ l.plan = <<>>
        /\ l.out = [i \in 1..Len(items) |-> 0]
    BY DEF Begins, BeginFields
  <1>2. /\ \A j \in 1..Len(turns) : turns[j] \in ParserItems(items)
        /\ \A i \in ParserItems(items) : \E j \in 1..Len(turns) : turns[j] = i
        /\ options' = options
    BY Zenon DEF Begins
  <1>3. \A x : ForParser(x)' <=> ForParser(x)
    BY <1>2 DEF ForParser
  <1>4. ParserOK(l)'
    BY <1>1, <1>2, <1>3 DEF ParserOK, ParserItems
  <1>5. ASSUME NEW i \in 1..Len(l.items) PROVE AnswerOK(l, i)' /\ WaitingOK(l, i)'
    <2>1. l.out[i] = 0
      BY <1>1
    <2>2. ForParser(l.items[i]) => \E j \in 1..Len(l.todo) : l.todo[j] = i
      BY <1>1, <1>2 DEF ParserItems
    <2> QED
      BY <1>1, <1>3, <2>1, <2>2 DEF AnswerOK, WaitingOK
  <1> QED
    BY <1>4, <1>5 DEF AnswersFor

LEMMA AnswersParse ==
    ASSUME Inv, NEW c \in Clients, Changes(c), NEW units, ParsesTurn(c, units), AnswersFor(call[c]),
           NEW l \in Call, l = call'[c]
    PROVE  AnswersFor(l)'
  <1> DEFINE k == call[c]
             h == Head(k.todo)
  <1>1. /\ Types /\ k \in Call /\ CourseOK(k) /\ RefsOK(k) /\ k.plan = <<>> /\ k.todo # <<>> /\ k.todo \in Seq(Nat)
        /\ ParseFields(k, l, units) /\ TurnUnits(h, k.items[h].turn, units)
        /\ options' = options /\ links' = links /\ rows' = rows
        /\ k.part # "derive" => units # <<>> /\ (options.rawTurn => Head(units) = RawUnit(h, k.items[h].turn))
    BY ItemsType, Zenon DEF Inv, CallsOK, ParsesTurn, Quiet
  <1>2. /\ l.items = k.items /\ l.n = k.n /\ l.part = k.part /\ l.todo = Tail(k.todo) /\ l.plan = units
        /\ l.staged = k.staged /\ l.found = k.found /\ l.out = k.out /\ k.units \subseteq l.units
    BY <1>1 DEF ParseFields
  <1>3. units \in Seq(Unit) /\ \A j \in 1..Len(units) : units[j].item = h
    BY <1>1 DEF TurnUnits
  <1>4. \A x : ForParser(x)' <=> ForParser(x)
    BY <1>1 DEF ForParser
  <1>5. ParserOK(l)'
    <2>1. \A j \in 1..Len(l.plan) : l.plan[j].item = l.plan[1].item
      BY <1>2, <1>3
    <2>2. ASSUME l.part = "parser"
          PROVE  /\ \A j \in 1..Len(l.todo) : ForParser(l.items[l.todo[j]])
                 /\ \A j \in 1..Len(l.plan) : ForParser(l.items[l.plan[j].item])
      <3>1. \A j \in 1..Len(k.todo) : ForParser(k.items[k.todo[j]])
        BY <1>2, <2>2 DEF AnswersFor, ParserOK
      <3>2. \A j \in 1..Len(l.todo) : ForParser(l.items[l.todo[j]])
        BY <1>1, <1>2, <3>1, TailElements
      <3>3. h = k.todo[1] /\ 1 \in 1..Len(k.todo)
        BY <1>1
      <3>4. ForParser(k.items[h])
        BY <3>1, <3>3
      <3> QED
        BY <1>2, <1>3, <3>2, <3>4
    <2> QED
      BY <1>4, <2>1, <2>2 DEF ParserOK
  <1>6. ASSUME NEW i \in 1..Len(k.items) PROVE AnswerOK(l, i)'
    <2>1. k.out[i] \in Int /\ AnswerOK(k, i)
      BY <1>1, OutType DEF AnswersFor
    <2> QED
      BY <1>1, <1>2, <2>1, AnswerMoves, Zenon
  <1>7. ASSUME NEW i \in 1..Len(k.items), k.out[i] = 0 PROVE WaitingOK(l, i)'
    <2>1. WaitingOK(k, i)
      BY DEF AnswersFor
    <2>2. k.part = "parser" /\ (~ForParser(k.items[i]) \/ \E j \in 1..Len(k.todo) : k.todo[j] = i)
      BY <1>1, <1>7, <2>1 DEF WaitingOK
    <2>3. l.plan # <<>> /\ Head(l.plan).item = h
      BY <1>1, <1>2, <1>3, <2>2
    <2>4. Head(l.plan).item = i /\ options'.rawTurn => Head(l.plan).key = RawKey(l.items[i].turn)
      <3> SUFFICES ASSUME h = i, options.rawTurn PROVE Head(l.plan).key = RawKey(l.items[i].turn)
        BY <1>1, <2>3
      <3>1. Head(l.plan) = RawUnit(i, k.items[i].turn)
        BY <1>1, <1>2, <2>2, Zenon
      <3> QED
        BY <1>2, <3>1 DEF RawUnit
    <2>5. \/ ~ForParser(l.items[i])
          \/ \E j \in 1..Len(l.todo) : l.todo[j] = i
          \/ Head(l.plan).item = i
      <3> SUFFICES ASSUME NEW j \in 1..Len(k.todo), k.todo[j] = i
                   PROVE  (\E q \in 1..Len(l.todo) : l.todo[q] = i) \/ Head(l.plan).item = i
        BY <1>2, <2>2
      <3> DEFINE todo == k.todo
      <3>1. todo \in Seq(Nat) /\ todo # <<>> /\ j \in 1..Len(todo) /\ todo[j] = i /\ l.todo = Tail(todo) /\ h = todo[1]
        BY <1>1, <1>2
      <3> HIDE DEF todo
      <3>2. j # 1 => \E q \in 1..Len(Tail(todo)) : Tail(todo)[q] = todo[j]
        BY <3>1, InTail, Zenon
      <3> QED
        BY <2>3, <3>1, <3>2
    <2> QED
      BY <1>2, <1>4, <2>2, <2>3, <2>4, <2>5 DEF WaitingOK
  <1>8. \A i \in 1..Len(k.items) : WaitingOK(l, i)'
    BY <1>2, <1>7 DEF WaitingOK
  <1> QED
    BY <1>2, <1>5, <1>6, <1>8 DEF AnswersFor

(* An item that waits for the plan gets its own raw turn if it wants one. *)
LEMMA HeadWaits ==
    ASSUME NEW k \in Call, CourseOK(k), AnswersFor(k), k.plan # <<>>, NEW u, u = Head(k.plan), k.out[u.item] = 0
    PROVE  Own(k, u.item) => u.key = RawKey(k.items[u.item].turn)
  <1>1. k.plan \in Seq(Unit) /\ u = k.plan[1] /\ 1 \in 1..Len(k.plan)
    BY DEF Call
  <1>2. u.item \in 1..Len(k.items)
    BY <1>1 DEF CourseOK, UnitOK
  <1>3. WaitingOK(k, u.item) /\ ParserOK(k)
    BY <1>2 DEF AnswersFor
  <1>4. k.part = "parser" /\ (options.rawTurn => u.key = RawKey(k.items[u.item].turn))
    BY <1>3 DEF WaitingOK
  <1>5. ForParser(k.items[u.item])
    BY <1>1, <1>3, <1>4 DEF ParserOK
  <1> QED
    BY <1>4, <1>5 DEF Own

(* The head u of the plan is done, its item referring to ref. *)
HeadDone(k, l, u, ref) ==
    /\ u = Head(k.plan) /\ k.plan # <<>> /\ ref \in Int /\ ref # 0
    /\ l.items = k.items /\ l.n = k.n /\ l.part = k.part /\ l.todo = k.todo /\ l.plan = Tail(k.plan)
    /\ l.out = Answer(k.out, u.item, ref) /\ l.units = k.units /\ k.found \subseteq l.found
    /\ \A j \in 1..Len(k.staged) : l.staged[j] = k.staged[j]

(* The head of a plan answers for its item if nothing does yet. *)
LEMMA AnswersHead ==
    ASSUME Types, NEW k \in Call, NEW l \in Call, CourseOK(k), RefsOK(k), AnswersFor(k),
           NEW u, NEW ref, HeadDone(k, l, u, ref), options' = options, rows' = rows, links' = links,
           k.out[u.item] = 0 => AnswerOK(l, u.item)'
    PROVE  AnswersFor(l)'
  <1> USE DEF HeadDone
  <1>1. k.plan \in Seq(Unit) /\ u = k.plan[1] /\ 1 \in 1..Len(k.plan) /\ k.out \in Seq(Int)
    BY DEF Call
  <1>2. u.item \in 1..Len(k.items) /\ u.item \in 1..Len(k.out)
    BY <1>1 DEF CourseOK, UnitOK
  <1>3. \A i \in 1..Len(k.out) : l.out[i] = IF i = u.item /\ k.out[u.item] = 0 THEN ref ELSE k.out[i]
    <2> DEFINE out == k.out
               h == u.item
    <2>1. out \in Seq(Int) /\ h \in 1..Len(out) /\ l.out = Answer(out, h, ref)
      BY <1>1, <1>2
    <2> HIDE DEF out, h
    <2>2. \A i \in 1..Len(out) : l.out[i] = IF i = h /\ out[h] = 0 THEN ref ELSE out[i]
      BY <2>1, AnswerType
    <2> QED
      BY <2>2 DEF out, h
  <1>4. \A x : ForParser(x)' <=> ForParser(x)
    BY DEF ForParser
  <1>5. ParserOK(k)
    BY DEF AnswersFor
  <1>6. \A j \in 1..Len(l.plan) : j + 1 \in 1..Len(k.plan) /\ l.plan[j] = k.plan[j + 1]
    BY <1>1, TailElements
  <1>7. l.plan # <<>> => 1 \in 1..Len(l.plan) /\ Head(l.plan) = l.plan[1]
    BY <1>1
  <1>8. \A j \in 1..Len(l.plan) : l.plan[j].item = u.item
    BY <1>1, <1>5, <1>6 DEF ParserOK
  <1>9. ParserOK(l)'
    <2>1. \A j \in 1..Len(l.plan) : l.plan[j].item = l.plan[1].item
      <3> SUFFICES ASSUME NEW j \in 1..Len(l.plan) PROVE l.plan[j].item = l.plan[1].item
        OBVIOUS
      <3>1. Len(l.plan) \in Nat
        BY <1>1
      <3>2. 1 \in 1..Len(l.plan)
        BY <3>1
      <3> QED
        BY <1>8, <3>2, Zenon
    <2> QED
      BY <1>4, <1>5, <1>6, <2>1 DEF ParserOK
  <1>10. ASSUME NEW i \in 1..Len(k.items) PROVE AnswerOK(l, i)' /\ WaitingOK(l, i)'
    <2>1. /\ k.out[i] \in Int /\ i \in 1..Len(k.out) /\ AnswerOK(k, i) /\ WaitingOK(k, i)
          /\ k.out[i] # 0 /\ k.out[i] <= 0 => -k.out[i] \in 1..Len(k.staged)
      BY OutType, RefSign DEF AnswersFor
    <2>2. CASE i = u.item /\ k.out[u.item] = 0
      <3>1. l.out[i] = ref
        BY <1>3, <2>1, <2>2
      <3> QED
        BY <2>2, <3>1 DEF WaitingOK
    <2>3. CASE i # u.item \/ k.out[u.item] # 0
      <3>1. l.out[i] = k.out[i]
        BY <1>3, <2>1, <2>3
      <3>2. AnswerOK(l, i)'
        <4>1. k.out[i] < 0 => l.staged[-k.out[i]] = k.staged[-k.out[i]]
          BY <2>1
        <4> QED
          BY <2>1, <3>1, <4>1, AnswerMoves, Zenon
      <3>3. ASSUME k.out[i] = 0 PROVE WaitingOK(l, i)'
        <4>1. /\ k.part = "parser"
              /\ i # u.item
              /\ ~ForParser(k.items[i]) \/ \E j \in 1..Len(k.todo) : k.todo[j] = i
          BY <2>1, <2>3, <3>3 DEF WaitingOK
        <4>2. l.plan # <<>> => Head(l.plan).item # i
          BY <1>7, <1>8, <4>1, Zenon
        <4> QED
          BY <1>4, <4>1, <4>2, Zenon DEF WaitingOK
      <3> QED
        BY <3>1, <3>2, <3>3, Zenon DEF WaitingOK
    <2> QED
      BY <2>2, <2>3
  <1> QED
    BY <1>9, <1>10 DEF AnswersFor

LEMMA AnswersStage ==
    ASSUME Inv, NEW c \in Clients, Stages(c), AnswersFor(call[c]), NEW l \in Call, l = call'[c],
           NEW k, k = call[c], NEW u, u = Head1(c)
    PROVE  AnswersFor(l)'
  <1> DEFINE ref == -Len(Append(k.staged, u))
  <1>1. /\ Types /\ k \in Call /\ CourseOK(k) /\ RefsOK(k) /\ k.plan # <<>> /\ k.plan \in Seq(Unit)
        /\ k.staged \in Seq(Unit) /\ k.out \in Seq(Int) /\ StageFields(k, l, u) /\ Quiet
    BY ItemsType DEF Inv, CallsOK, Stages, AtHead
  <1>2. u \in Unit /\ u = Head(k.plan) /\ UnitOK(k, u) /\ u.item \in 1..Len(k.out)
    BY <1>1, HeadUnit DEF Head1
  <1>3. /\ Len(Append(k.staged, u)) = Len(k.staged) + 1 /\ Len(k.staged) \in Nat
        /\ \A j \in 1..Len(k.staged) : Append(k.staged, u)[j] = k.staged[j]
        /\ Append(k.staged, u)[Len(k.staged) + 1] = u
    BY <1>1, <1>2, AppendElements
  <1>4. /\ l.items = k.items /\ l.n = k.n /\ l.part = k.part /\ l.todo = k.todo /\ l.plan = Tail(k.plan)
        /\ l.out = Answer(k.out, u.item, ref) /\ l.units = k.units /\ k.found \subseteq l.found
        /\ l.staged = Append(k.staged, u)
    BY <1>1 DEF StageFields
  <1>5. ref \in Int /\ ref < 0 /\ l.staged[-ref] = u
    BY <1>3, <1>4
  <1> HIDE DEF ref
  <1>6. options' = options /\ rows' = rows /\ links' = links
    BY <1>1 DEF Quiet
  <1>7. ASSUME k.out[u.item] = 0 PROVE AnswerOK(l, u.item)'
    <2>1. l.out[u.item] = ref
      BY <1>1, <1>2, <1>4, <1>7 DEF Answer
    <2>2. KeyAt(l, ref)' = u.key
      BY <1>5 DEF KeyAt
    <2>3. Own(k, u.item) => u.key = RawKey(k.items[u.item].turn)
      BY <1>1, <1>2, <1>7, HeadWaits, Zenon
    <2>4. Own(l, u.item)' <=> Own(k, u.item)
      BY <1>4, <1>6 DEF Own, ForParser
    <2>5. u.key.turn = k.items[u.item].turn
      BY <1>2 DEF UnitOK
    <2>6. ~(l.out[u.item] > 0)
      BY <1>5, <2>1
    <2> QED
      BY <1>4, <2>1, <2>2, <2>3, <2>4, <2>5, <2>6 DEF AnswerOK
  <1>8. (\A j \in 1..Len(k.staged) : l.staged[j] = k.staged[j]) /\ ref # 0 /\ AnswersFor(k)
    BY <1>3, <1>4, <1>5
  <1>9. k.out[u.item] = 0 => AnswerOK(l, u.item)'
    BY <1>7
  <1>10. HeadDone(k, l, u, ref)
    BY <1>1, <1>2, <1>4, <1>5, <1>8, Zenon DEF HeadDone
  <1> QED
    BY <1>1, <1>6, <1>8, <1>9, <1>10, AnswersHead

LEMMA AnswersReuse ==
    ASSUME Inv, NEW c \in Clients, NEW ref, Reuses(c, ref), AnswersFor(call[c]), NEW l \in Call, l = call'[c],
           NEW k, k = call[c], NEW u, u = Head1(c)
    PROVE  AnswersFor(l)'
  <1>1. /\ Types /\ k \in Call /\ CourseOK(k) /\ RefsOK(k) /\ k.plan # <<>> /\ k.plan \in Seq(Unit)
        /\ k.staged \in Seq(Unit) /\ k.out \in Seq(Int) /\ ReuseFields(k, l, u, ref) /\ Quiet
        /\ ref \in Int /\ Reusable(c, u, ref) /\ ~IsRaw(u) /\ k.at # "upsert"
    BY ItemsType DEF Inv, CallsOK, Reuses, AtHead
  <1>2. u \in Unit /\ u = Head(k.plan) /\ UnitOK(k, u) /\ u.item \in 1..Len(k.out) /\ u \in k.units
    BY <1>1, HeadUnit DEF Head1
  <1>3. RefOK(k, u.item, ref)
    BY <1>1, <1>2, ReusableRef
  <1>4. /\ l.items = k.items /\ l.n = k.n /\ l.part = k.part /\ l.todo = k.todo /\ l.plan = Tail(k.plan)
        /\ l.out = Answer(k.out, u.item, ref) /\ l.units = k.units /\ k.found \subseteq l.found
        /\ l.staged = k.staged
        /\ u.tuple # NoTuple => [item |-> u.item, tuple |-> u.tuple, ref |-> ref] \in l.found
    BY <1>1 DEF ReuseFields
  <1>5. /\ ref # 0 /\ (ref > 0 => ref \in Ids) /\ (ref < 0 => -ref \in 1..Len(k.staged))
    <2>1. Len(rows) \in Nat /\ Len(k.staged) \in Nat
      BY <1>1 DEF Types
    <2> QED
      BY <1>1, <1>3, <2>1 DEF RefOK, Ids
  <1>6. options' = options /\ rows' = rows /\ links' = links
    BY <1>1 DEF Quiet
  <1>7. ASSUME k.out[u.item] = 0 PROVE AnswerOK(l, u.item)'
    <2>1. l.out[u.item] = ref
      BY <1>1, <1>2, <1>4, <1>7 DEF Answer
    <2>2. ~Own(k, u.item)
      <3>1. Own(k, u.item) => u.key = RawKey(k.items[u.item].turn)
        BY <1>1, <1>2, <1>7, HeadWaits, Zenon
      <3> QED
        BY <1>1, <3>1 DEF RawKey, IsRaw
    <2>3. ~Own(l, u.item)'
      BY <1>4, <1>6, <2>2 DEF Own, ForParser
    <2>4. CASE u.tuple # NoTuple
      BY <1>2, <1>4, <2>1, <2>3, <2>4, Zenon DEF AnswerOK
    <2>5. CASE u.tuple = NoTuple
      <3>1. KeyAt(k, ref) = u.key
        <4>1. CASE -ref \in PendingMatches(c, u)
          <5>1. -ref \in 1..Len(k.staged) /\ k.staged[-ref].key = u.key
            BY <2>5, <4>1 DEF PendingMatches
          <5>2. ~(ref > 0)
            BY <1>1, <5>1
          <5> QED
            BY <5>1, <5>2 DEF KeyAt
        <4>2. CASE ref \in RowsWithKey(TenantOf(c, u.item), u.key)
          BY <4>2 DEF RowsWithKey, KeyAt
        <4>3. CASE ref \in RowsWithTuple(TenantOf(c, u.item), u.tuple)
          BY <2>5, <4>3 DEF RowsWithTuple
        <4> QED
          BY <1>1, <4>1, <4>2, <4>3 DEF Reusable
      <3>2. KeyAt(l, ref)' = KeyAt(k, ref)
        BY <1>4, <1>6 DEF KeyAt
      <3>3. u.key.turn = k.items[u.item].turn
        BY <1>2 DEF UnitOK
      <3> QED
        BY <1>4, <2>1, <2>3, <3>1, <3>2, <3>3 DEF AnswerOK
    <2> QED
      BY <2>4, <2>5
  <1>8. (\A j \in 1..Len(k.staged) : l.staged[j] = k.staged[j]) /\ AnswersFor(k)
    BY <1>4
  <1>9. k.out[u.item] = 0 => AnswerOK(l, u.item)'
    BY <1>7
  <1>10. HeadDone(k, l, u, ref)
    BY <1>1, <1>2, <1>4, <1>5, <1>8 DEF HeadDone
  <1> QED
    BY <1>1, <1>6, <1>8, <1>9, <1>10, AnswersHead

LEMMA AnswersInsert ==
    ASSUME Inv, NEW c \in Clients, Inserts(c), AnswersFor(call[c]), NEW l \in Call, l = call'[c],
           NEW k, k = call[c], NEW base, base = Len(rows)
    PROVE  AnswersFor(l)'
  <1>1. /\ Types /\ k \in Call /\ base \in Nat /\ k.out \in Seq(Int) /\ k.found \in SUBSET Found
        /\ CourseOK(k) /\ RefsOK(k) /\ AnswersFor(k) /\ StoresOK
    BY ItemsType DEF Inv, Types, CallsOK, Inserts, AllStaged
  <1>2. /\ l.items = k.items /\ l.n = k.n /\ l.part = k.part /\ l.todo = k.todo /\ l.plan = k.plan
        /\ l.units = k.units /\ l.staged = k.staged
        /\ l.found = {[f EXCEPT !.ref = Resolve(f.ref, base)] : f \in k.found}
        /\ l.out = [i \in DOMAIN k.out |-> Resolve(k.out[i], base)]
        /\ options' = options /\ links' = links
    BY DEF Inserts, InsertFields
  <1>3. ParserOK(l)'
    BY <1>1, <1>2, WaitingMoves DEF AnswersFor
  <1>4. ASSUME NEW i \in 1..Len(k.items), NEW x, x = k.out[i], NEW y, y = l.out[i]
        PROVE  AnswerOK(l, i)' /\ WaitingOK(l, i)'
    <2>1. x \in Int /\ i \in 1..Len(k.out) /\ AnswerOK(k, i) /\ WaitingOK(k, i)
      BY <1>1, <1>4, OutType DEF AnswersFor
    <2>2. y = Resolve(x, base)
      BY <1>1, <1>2, <1>4, <2>1, ResolvedOut
    <2>3. CASE x = 0
      <3>1. y = 0
        BY <2>2, <2>3 DEF Resolve
      <3>2. WaitingOK(l, i)'
        <4>1. l.out[i] = k.out[i]
          BY <1>4, <2>3, <3>1
        <4> QED
          BY <1>2, <2>1, <4>1, WaitingMoves, Zenon
      <3> QED
        BY <1>4, <3>1, <3>2 DEF AnswerOK
    <2>4. CASE x # 0
      <3>1. RefOK(k, i, x)
        BY <1>1, <1>4, <2>1, <2>4 DEF RefsOK
      <3>2. /\ y \in Ids' /\ (x \in Ids => y = x)
            /\ x \notin Ids => -x \in 1..Len(k.staged) /\ rows'[y] = Made(k)[-x]
        BY <2>1, <2>2, <3>1, RefInsert
      <3>3. y \in Int /\ y > 0
        <4>1. Len(rows') \in Nat
          BY RowsAfterInsert
        <4> QED
          BY <3>2, <4>1 DEF Ids
      <3>4. /\ rows'[y].key = KeyAt(k, x)
            /\ (Own(k, i) => rows'[y].call = k.n)
        <4>1. CASE x \in Ids
          <5>1. rows'[y] = rows[x] /\ x > 0
            BY <3>2, <3>3, <4>1, RowsAfterInsert DEF Ids
          <5> QED
            BY <1>4, <2>1, <2>4, <5>1 DEF KeyAt, AnswerOK
        <4>2. CASE x \notin Ids
          <5>1. -x \in 1..Len(k.staged) /\ rows'[y] = Made(k)[-x]
            BY <3>2, <4>2
          <5>2. Made(k)[-x].key = k.staged[-x].key /\ Made(k)[-x].call = k.n
            BY <1>1, <5>1, MadeType, Zenon DEF CourseOK, UnitOK
          <5>3. ~(x > 0)
            BY <2>1, <5>1
          <5> QED
            BY <5>1, <5>2, <5>3 DEF KeyAt
        <4> QED
          BY <4>1, <4>2
      <3>5. KeyAt(l, y)' = KeyAt(k, x)
        BY <3>3, <3>4 DEF KeyAt
      <3>6. Own(l, i)' <=> Own(k, i)
        BY <1>2 DEF Own, ForParser
      <3>7. ASSUME NEW t, [item |-> i, tuple |-> t, ref |-> x] \in k.found
            PROVE  [item |-> i, tuple |-> t, ref |-> y] \in l.found
        <4> DEFINE f == [item |-> i, tuple |-> t, ref |-> x]
        <4>1. [f EXCEPT !.ref = Resolve(f.ref, base)] \in l.found
          BY <1>2, <3>7, Zenon
        <4>2. [f EXCEPT !.ref = Resolve(f.ref, base)] = [item |-> i, tuple |-> t, ref |-> y]
          BY <2>2
        <4> QED
          BY <4>1, <4>2
      <3>8. ASSUME NEW t, NEW s, [tenant |-> s, tuple |-> t, row |-> x] \in links
            PROVE  [tenant |-> s, tuple |-> t, row |-> y] \in links'
        <4>1. x \in Ids
          BY <1>1, <3>8 DEF StoresOK
        <4> QED
          BY <1>2, <3>2, <3>8, <4>1
      <3>9. \/ KeyAt(k, x).turn = k.items[i].turn
            \/ \E u \in l.units :
                 /\ u.item = i /\ u.tuple # NoTuple
                 /\ \/ [tenant |-> k.items[i].tenant, tuple |-> u.tuple, row |-> y] \in links'
                    \/ [item |-> i, tuple |-> u.tuple, ref |-> y] \in l.found
        BY <1>2, <1>4, <2>1, <2>4, <3>7, <3>8, Zenon DEF AnswerOK
      <3>10. Own(k, i) => KeyAt(k, x) = RawKey(k.items[i].turn)
        BY <1>4, <2>1, <2>4 DEF AnswerOK
      <3>11. AnswerOK(l, i)'
        BY <1>2, <1>4, <3>4, <3>5, <3>6, <3>9, <3>10, Zenon DEF AnswerOK
      <3>12. WaitingOK(l, i)'
        BY <1>4, <3>3 DEF WaitingOK
      <3> QED
        BY <3>11, <3>12
    <2> QED
      BY <2>3, <2>4
  <1> QED
    BY <1>2, <1>3, <1>4 DEF AnswersFor

LEMMA AnswersPlain ==
    ASSUME Inv, NEW c \in Clients, NEW plain, StagesPlain(c, plain), AnswersFor(call[c]), NEW l \in Call, l = call'[c],
           NEW k, k = call[c]
    PROVE  AnswersFor(l)'
  <1>1. /\ Types /\ k \in Call /\ k.out \in Seq(Int) /\ CourseOK(k) /\ RefsOK(k) /\ AnswersFor(k)
        /\ k.plan = <<>> /\ k.todo = <<>> /\ ~k.together /\ k.at = "next" /\ PlainFields(k, l, plain) /\ Quiet
        /\ plain \in Seq(Nat)
        /\ \A j \in 1..Len(plain) : plain[j] \in PlainItems(k.items)
        /\ \A i \in PlainItems(k.items) : \E j \in 1..Len(plain) : plain[j] = i
    BY ItemsType, Zenon DEF Inv, CallsOK, StagesPlain, PartDone
  <1>2. k.staged = <<>> /\ k.found = {}
    BY <1>1 DEF CourseOK
  <1> DEFINE unit(j) == RawUnit(plain[j], k.items[plain[j]].turn)
             m == Len(plain)
  <1>3. /\ l.items = k.items /\ l.n = k.n /\ l.part = "plain" /\ l.todo = k.todo /\ l.plan = k.plan
        /\ l.staged = [j \in 1..m |-> unit(j)] /\ k.units \subseteq l.units
        /\ l.out = [i \in DOMAIN k.out |-> PlainRef(plain, i, k.out[i])]
        /\ options' = options /\ links' = links /\ rows' = rows
    BY <1>1 DEF PlainFields, Quiet
  <1>4. ParserOK(l)'
    <2>1. 1..Len(l.plan) = {}
      BY <1>1, <1>3
    <2> QED
      BY <1>3, <2>1 DEF ParserOK
  <1>5. ASSUME NEW j \in 1..m PROVE l.staged[j].key = RawKey(k.items[plain[j]].turn)
    <2>1. l.staged[j] = unit(j)
      <3> HIDE DEF unit, m
      <3> QED
        BY <1>3
    <2> QED
      BY <2>1 DEF RawUnit
  <1>6. ASSUME NEW i \in 1..Len(k.items), NEW x, x = k.out[i], NEW y, y = l.out[i]
        PROVE  AnswerOK(l, i)' /\ WaitingOK(l, i)'
    <2>1. x \in Int /\ i \in 1..Len(k.out) /\ AnswerOK(k, i) /\ WaitingOK(k, i)
      BY <1>1, <1>6, OutType DEF AnswersFor
    <2>2. y = PlainRef(plain, i, x)
      <3>1. DOMAIN k.out = 1..Len(k.out)
        BY <1>1
      <3> QED
        BY <1>3, <1>6, <2>1, <3>1
    <2>3. /\ y \in Int
          /\ (\E j \in 1..m : plain[j] = i) => -y \in 1..m /\ plain[-y] = i
          /\ ~(\E j \in 1..m : plain[j] = i) => y = x
      <3>1. plain \in Seq(Nat)
        BY <1>1
      <3>2. x \in Int /\ y = PlainRef(plain, i, x)
        BY <2>1, <2>2
      <3> QED
        BY ONLY <3>1, <3>2, PlainOut
    <2>4. CASE \E j \in 1..m : plain[j] = i
      <3>1. -y \in 1..m /\ plain[-y] = i /\ y \in Int
        BY <2>4, <2>3
      <3>2. y < 0 /\ ~(y > 0)
        BY <1>1, <3>1
      <3>3. KeyAt(l, y)' = RawKey(k.items[i].turn)
        BY <1>5, <3>1, <3>2 DEF KeyAt
      <3>4. RawKey(k.items[i].turn).turn = k.items[i].turn
        BY DEF RawKey
      <3>5. AnswerOK(l, i)'
        BY <1>3, <1>6, <3>2, <3>3, <3>4 DEF AnswerOK
      <3>6. WaitingOK(l, i)'
        BY <1>6, <3>2 DEF WaitingOK
      <3> QED
        BY <3>5, <3>6
    <2>5. CASE ~ \E j \in 1..m : plain[j] = i
      <3>1. y = x
        BY <2>5, <2>3
      <3>2. ForParser(k.items[i])
        BY <1>1, <2>5 DEF PlainItems
      <3>3. x # 0
        <4>1. 1..Len(k.todo) = {}
          BY <1>1
        <4> QED
          BY <1>1, <1>6, <2>1, <3>2, <4>1, Zenon DEF WaitingOK
      <3>4. x > 0
        <4>1. x <= 0 => -x \in 1..Len(k.staged)
          BY <1>1, <1>6, <3>3, RefSign, Zenon
        <4>2. 1..Len(k.staged) = {}
          BY <1>2
        <4> QED
          BY <2>1, <4>1, <4>2
      <3>5. AnswerOK(l, i)'
        <4>1. k.out[i] \in Int /\ ~(k.out[i] < 0) /\ l.out[i] = k.out[i]
          BY <1>6, <2>1, <3>1, <3>4
        <4> QED
          BY <1>2, <1>3, <2>1, <4>1, AnswerMoves, Zenon
      <3>6. WaitingOK(l, i)'
        BY <1>6, <3>1, <3>3, Zenon DEF WaitingOK
      <3> QED
        BY <3>5, <3>6
    <2> QED
      BY <2>4, <2>5
  <1> QED
    BY <1>3, <1>4, <1>6 DEF AnswersFor

LEMMA AnswersDerive ==
    ASSUME Inv, NEW c \in Clients, NEW turns, Derives(c, turns), AnswersFor(call[c]), NEW l \in Call, l = call'[c],
           NEW k, k = call[c]
    PROVE  AnswersFor(l)'
  <1>1. /\ Types /\ k \in Call /\ CourseOK(k) /\ AnswersFor(k) /\ k.plan = <<>> /\ k.part = "plain"
        /\ DeriveFields(k, l, turns) /\ Quiet
    BY ItemsType DEF Inv, CallsOK, Derives, PartDone
  <1>2. /\ l.items = k.items /\ l.n = k.n /\ l.part = "derive" /\ l.plan = <<>> /\ l.staged = k.staged
        /\ l.found = k.found /\ l.out = k.out /\ l.units = k.units
        /\ options' = options /\ links' = links /\ rows' = rows
    BY <1>1 DEF DeriveFields, Quiet
  <1>3. ParserOK(l)'
    <2>1. 1..Len(l.plan) = {}
      BY <1>2
    <2> QED
      BY <1>2, <2>1 DEF ParserOK
  <1>4. ASSUME NEW i \in 1..Len(k.items) PROVE AnswerOK(l, i)' /\ WaitingOK(l, i)'
    <2>1. k.out[i] \in Int /\ AnswerOK(k, i) /\ WaitingOK(k, i)
      BY <1>1, OutType DEF AnswersFor
    <2>2. k.out[i] # 0
      BY <1>1, <2>1 DEF WaitingOK
    <2>3. AnswerOK(l, i)'
      BY <1>2, <2>1, AnswerMoves
    <2> QED
      BY <1>2, <2>2, <2>3 DEF WaitingOK
  <1> QED
    BY <1>2, <1>3, <1>4 DEF AnswersFor

LEMMA AnswersOwn ==
    ASSUME Inv, AnswersOK, NEW c \in Clients, Changes(c), NEW l, l = call'[c], l.at # "idle", NEW k, k = call[c]
    PROVE  AnswersFor(l)'
  <1> DEFINE Goal == AnswersFor(l)'
  <1> SUFFICES Goal
    OBVIOUS
  <1>1. Types /\ k \in Call /\ l \in Call
    BY ItemsType DEF Inv, Changes
  <1>2. k.at # "idle" => CourseOK(k) /\ RefsOK(k) /\ AnswersFor(k) /\ AnswersFor(call[c])
    BY DEF Inv, CallsOK, AnswersOK
  <1>3. ASSUME NEW items \in Batches, NEW together, NEW turns, Begins(c, items, together, turns) PROVE Goal
    BY <1>3, AnswersBegin
  <1>4. ASSUME NEW units, ParsesTurn(c, units) PROVE Goal
    <2>1. k.at # "idle"
      BY <1>4 DEF ParsesTurn
    <2> QED
      BY <1>1, <1>2, <1>4, <2>1, AnswersParse
  <1>5. CASE Stages(c)
    <2>1. k.at # "idle"
      BY <1>5 DEF Stages, AtHead
    <2> QED
      BY <1>1, <1>2, <1>5, <2>1, AnswersStage
  <1>6. ASSUME NEW ref, Reuses(c, ref) PROVE Goal
    <2>1. k.at # "idle"
      BY <1>6 DEF Reuses, AtHead
    <2> QED
      BY <1>1, <1>2, <1>6, <2>1, AnswersReuse
  <1>7. CASE AsksTuple(c)
    <2>1. k.at # "idle" /\ TupleFields(k, l)
      BY <1>7 DEF AsksTuple
    <2>2. /\ l.items = k.items /\ l.n = k.n /\ l.part = k.part /\ l.todo = k.todo /\ l.plan = k.plan
          /\ l.out = k.out /\ k.units \subseteq l.units /\ l.staged = k.staged /\ l.found = k.found
      BY <2>1 DEF TupleFields
    <2> QED
      BY <1>1, <1>2, <2>1, <2>2, AnswersMove
  <1>8. CASE Inserts(c)
    <2>1. k.at # "idle"
      BY <1>8 DEF Inserts, AllStaged
    <2> QED
      BY <1>1, <1>2, <1>8, <2>1, AnswersInsert, Zenon
  <1>9. CASE Upserts(c)
    <2>1. k.at = "upsert" /\ UpsertFields(k, l)
      BY <1>9 DEF Upserts
    <2>2. /\ l.items = k.items /\ l.n = k.n /\ l.part = k.part /\ l.todo = k.todo /\ l.plan = k.plan
          /\ l.out = k.out /\ k.units \subseteq l.units /\ l.found = k.found
      BY <2>1 DEF UpsertFields
    <2> QED
      BY <1>1, <1>2, <2>1, <2>2, AnswersMove
  <1>10. CASE StoresFacts(c)
    <2>1. k.at # "idle" /\ LinkFields(k, l)
      BY <1>10 DEF StoresFacts, AllStaged
    <2>2. /\ l.items = k.items /\ l.n = k.n /\ l.part = k.part /\ l.todo = k.todo /\ l.plan = k.plan
          /\ l.out = k.out /\ k.units \subseteq l.units /\ l.staged = k.staged
      BY <2>1 DEF LinkFields
    <2>3. ASSUME NEW i \in 1..Len(k.items), NEW t, [item |-> i, tuple |-> t, ref |-> k.out[i]] \in k.found
          PROVE  [tenant |-> k.items[i].tenant, tuple |-> t, row |-> k.out[i]] \in links'
      <3> DEFINE f == [item |-> i, tuple |-> t, ref |-> k.out[i]]
      <3>1. f \in call[c].found
        BY <2>3
      <3>2. f.item = i /\ f.tuple = t /\ f.ref = k.out[i]
        OBVIOUS
      <3> HIDE DEF f
      <3>3. [tenant |-> call[c].items[f.item].tenant, tuple |-> f.tuple, row |-> f.ref] \in links'
        BY <1>10, <3>1, LinksAfter
      <3> QED
        BY <3>2, <3>3
    <2> QED
      BY <1>1, <1>2, <2>1, <2>2, <2>3, AnswersMove
  <1>11. ASSUME NEW plain, StagesPlain(c, plain) PROVE Goal
    <2>1. k.at # "idle"
      BY <1>11 DEF StagesPlain, PartDone
    <2> QED
      BY <1>1, <1>2, <1>11, <2>1, AnswersPlain
  <1>12. ASSUME NEW turns, Derives(c, turns) PROVE Goal
    <2>1. k.at # "idle"
      BY <1>12 DEF Derives, PartDone
    <2> QED
      BY <1>1, <1>2, <1>12, <2>1, AnswersDerive
  <1>13. CASE Returns(c) \/ Fails(c)
    BY <1>13 DEF Returns, Fails, Idle
  <1> HIDE DEF Goal
  <1> QED
    BY <1>3, <1>4, <1>5, <1>6, <1>7, <1>8, <1>9, <1>10, <1>11, <1>12, <1>13 DEF Changes, Change

LEMMA AnswersStep ==
    ASSUME Inv, AnswersOK, NEW c \in Clients, Changes(c)
    PROVE  AnswersOK'
  <1> SUFFICES ASSUME NEW d \in Clients, call'[d].at # "idle", NEW l, l = call'[d]
               PROVE  AnswersFor(l)'
    BY DEF AnswersOK
  <1>1. CASE d = c
    BY <1>1, AnswersOwn
  <1>2. CASE d # c
    <2>1. l = call[d] /\ l \in Call
      BY <1>2, ItemsType DEF Changes, Others, Inv
    <2>2. CourseOK(l) /\ RefsOK(l) /\ AnswersFor(l)
      BY <2>1 DEF AnswersOK, Inv, CallsOK
    <2> QED
      BY <2>1, <2>2, AnswersMove
  <1> QED
    BY <1>1, <1>2

(* What a reply says of item i. *)
Answered(n, r, i) ==
    LET id == r.out[i]  item == r.items[i]
    IN /\ id \in Ids
       /\ rows[id].tenant = item.tenant
       /\ ~ForParser(item) \/ options.rawTurn =>
             rows[id].key = RawKey(item.turn) /\ rows[id].call = n
       /\ \/ rows[id].key.turn = item.turn
          \/ \E u \in r.units : u.item = i /\ u.tuple # NoTuple
                 /\ [tenant |-> item.tenant, tuple |-> u.tuple, row |-> id] \in links

(* It stays true, since memories and entity facts are only added. *)
LEMMA AnsweredStays ==
    ASSUME Inv, NEW c \in Clients, Changes(c), NEW n, NEW r, NEW i, Answered(n, r, i)
    PROVE  Answered(n, r, i)'
  <1>1. /\ Len(rows) \in Nat /\ Len(rows') \in Nat /\ Len(rows) <= Len(rows') /\ options' = options
        /\ \A q \in 1..Len(rows) : rows'[q] = rows[q]
        /\ links \subseteq links'
    BY Grows DEF Grow, Inv, Types
  <1>2. r.out[i] \in Ids /\ r.out[i] \in Ids' /\ rows'[r.out[i]] = rows[r.out[i]]
    BY <1>1 DEF Answered, Ids
  <1>3. \A x : ForParser(x)' <=> ForParser(x)
    BY <1>1 DEF ForParser
  <1> QED
    BY <1>1, <1>2, <1>3, Zenon DEF Answered

(* A request that ends well has answered every item. *)
LEMMA ReturnAnswers ==
    ASSUME Inv, AnswersOK, NEW c \in Clients, Returns(c), NEW i \in 1..Len(call[c].items)
    PROVE  Answered(call[c].n, call[c], i)
  <1> DEFINE k == call[c]
  <1>1. /\ Types /\ k \in Call /\ CourseOK(k) /\ RefsOK(k) /\ AnswersFor(k)
        /\ k.plan = <<>> /\ k.todo = <<>> /\ k.at = "next" /\ ~k.together
        /\ k.part = "derive" \/ PlainItems(k.items) = {}
    BY ItemsType DEF Inv, CallsOK, AnswersOK, Returns, PartDone
  <1>2. k.staged = <<>> /\ k.found = {}
    BY <1>1 DEF CourseOK
  <1>3. 1..Len(k.todo) = {} /\ 1..Len(k.staged) = {}
    BY <1>1, <1>2
  <1>4. AnswerOK(k, i) /\ WaitingOK(k, i) /\ k.out[i] \in Int
    BY <1>1, OutType DEF AnswersFor
  <1>5. k.out[i] # 0
    BY <1>1, <1>3, <1>4, Zenon DEF WaitingOK, PlainItems
  <1>6. k.out[i] > 0 /\ k.out[i] \in Ids /\ rows[k.out[i]].tenant = k.items[i].tenant
    BY <1>1, <1>3, <1>4, <1>5, RefSign
  <1>7. KeyAt(k, k.out[i]) = rows[k.out[i]].key
    BY <1>6 DEF KeyAt
  <1> HIDE DEF k
  <1>8. /\ Own(k, i) => rows[k.out[i]].key = RawKey(k.items[i].turn) /\ rows[k.out[i]].call = k.n
        /\ \/ rows[k.out[i]].key.turn = k.items[i].turn
           \/ \E u \in k.units : /\ u.item = i /\ u.tuple # NoTuple
                                 /\ [tenant |-> k.items[i].tenant, tuple |-> u.tuple, row |-> k.out[i]] \in links
    BY <1>2, <1>4, <1>5, <1>6, <1>7, Zenon DEF AnswerOK
  <1> QED
    BY <1>6, <1>8, Zenon DEF Answered, Own, k

LEMMA AnswersMatchStep ==
    ASSUME Inv, AnswersOK, AnswersMatchRequests, NEW c \in Clients, Changes(c)
    PROVE  AnswersMatchRequests'
  <1> SUFFICES ASSUME NEW n \in Calls', replies'[n].status = "ok", NEW i \in DOMAIN replies'[n].items
               PROVE  Answered(n, replies[n], i)'
    BY Zenon DEF AnswersMatchRequests, Answered
  <1> SUFFICES ASSUME NEW r, r = replies'[n] PROVE Answered(n, r, i)'
    OBVIOUS
  <1>1. CASE n \in Calls /\ replies'[n] = replies[n]
    <2>1. Answered(n, r, i)
      BY <1>1 DEF AnswersMatchRequests, Answered
    <2> QED
      BY <2>1, AnsweredStays
  <1>2. CASE /\ Returns(c) /\ n = call[c].n
             /\ r.items = call[c].items /\ r.out = call[c].out /\ r.units = call[c].units
    <2>1. i \in 1..Len(call[c].items)
      <3>1. call[c].items \in Seq(Item)
        BY ItemsType DEF Inv
      <3> QED
        BY <1>2, <3>1
    <2>2. Answered(call[c].n, call[c], i)
      BY <1>2, <2>1, ReturnAnswers
    <2>3. Answered(n, r, i)
      BY <1>2, <2>2, Zenon DEF Answered
    <2> QED
      BY <2>3, AnsweredStays
  <1> QED
    BY <1>1, <1>2, OkReplies

(* A successful request answers every item with a memory of the item's     *)
(* tenant: its own raw turn where one is to be stored, else a memory of    *)
(* the turn or one that states a tuple of it, for any batch that mixes     *)
(* turns and plain memories, any parser and any concurrent requests.       *)
THEOREM AnswersMatchRequestsCorrect == Spec => []AnswersMatchRequests
  <1>1. Init => AnswersOK /\ AnswersMatchRequests
    <2> SUFFICES ASSUME Init PROVE AnswersOK /\ AnswersMatchRequests
      OBVIOUS
    <2>1. \A c \in Clients : call[c].at = "idle"
      BY DEF Init, Idle
    <2>2. Calls = {}
      BY DEF Init, Calls
    <2> QED
      BY <2>1, <2>2 DEF AnswersOK, AnswersMatchRequests
  <1>2. Inv /\ AnswersOK /\ AnswersMatchRequests /\ [Next]_vars => AnswersOK' /\ AnswersMatchRequests'
    <2> SUFFICES ASSUME Inv, AnswersOK, AnswersMatchRequests, [Next]_vars
                 PROVE  AnswersOK' /\ AnswersMatchRequests'
      OBVIOUS
    <2>1. ASSUME NEW c \in Clients, ClientStep(c) PROVE AnswersOK' /\ AnswersMatchRequests'
      BY <2>1, StepChange, AnswersStep, AnswersMatchStep
    <2>2. CASE UNCHANGED vars
      <3>1. rows' = rows /\ links' = links /\ call' = call /\ replies' = replies /\ options' = options
        BY <2>2 DEF vars
      <3>2. \A x : ForParser(x)' <=> ForParser(x)
        BY <3>1 DEF ForParser
      <3>3. \A k, i : (Own(k, i)' <=> Own(k, i)) /\ KeyAt(k, i)' = KeyAt(k, i)
        BY <3>1, <3>2 DEF Own, KeyAt
      <3>4. ASSUME NEW k, NEW i
            PROVE  (AnswerOK(k, i) => AnswerOK(k, i)') /\ (WaitingOK(k, i) => WaitingOK(k, i)')
        BY <3>1, <3>2, <3>3, Zenon DEF AnswerOK, WaitingOK
      <3>5. ASSUME NEW k, AnswersFor(k) PROVE AnswersFor(k)'
        BY <3>2, <3>4, <3>5 DEF AnswersFor, ParserOK
      <3>6. AnswersOK'
        BY <3>1, <3>5 DEF AnswersOK
      <3>7. AnswersMatchRequests'
        <4> SUFFICES ASSUME NEW n \in Calls', replies'[n].status = "ok", NEW i \in DOMAIN replies'[n].items
                     PROVE  Answered(n, replies[n], i)'
          BY Zenon DEF AnswersMatchRequests, Answered
        <4>1. Answered(n, replies[n], i)
          BY <3>1, Zenon DEF AnswersMatchRequests, Answered, Calls
        <4> QED
          BY <3>1, <3>2, <4>1 DEF Answered, Ids
      <3> QED
        BY <3>6, <3>7
    <2> QED
      BY <2>1, <2>2 DEF Next
  <1> QED
    BY <1>1, <1>2, InvIsInvariant, PTL DEF Spec

===========================================================================
