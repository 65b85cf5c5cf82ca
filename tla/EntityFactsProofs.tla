------------------------- MODULE EntityFactsProofs -------------------------
(***************************************************************************)
(* OneActiveValue holds for any memories, values, writers, batches and     *)
(* chunk size, over either repository.                                     *)
(***************************************************************************)
EXTENDS EntityFacts, TLAPS

(* A chunk ends after it began and within the batch. *)
LEMMA ChunkEndFacts ==
    ASSUME TypeOK, NEW w \in Writers, stored[w] < Len(batch[w])
    PROVE  ChunkEnd(w) \in Nat /\ stored[w] < ChunkEnd(w) /\ ChunkEnd(w) <= Len(batch[w])
  <1>1. stored[w] \in Nat /\ Len(batch[w]) \in Nat
    BY DEF TypeOK
  <1> QED
    BY <1>1, ChunkAssumption DEF ChunkEnd

(* The facts of a chunk, and those a writer still owes, are memories. *)
LEMMA PendingFacts ==
    ASSUME TypeOK, NEW w \in Writers
    PROVE  Pending(w) \subseteq Memories
  <1>1. /\ batch[w] \in Seq(Memories) /\ stored[w] \in Nat /\ closing[w] \in Nat
        /\ stored[w] <= Len(batch[w])
    BY DEF TypeOK
  <1> QED
    BY <1>1 DEF Pending

(* The initial state has the types. *)
LEMMA TypeInit == Init => TypeOK
  BY DEF Init, TypeOK

(* Every step keeps the types. *)
LEMMA TypeStep == TypeOK /\ [Next]_vars => TypeOK'
  <1> SUFFICES ASSUME TypeOK, [Next]_vars PROVE TypeOK'
    OBVIOUS
  <1>1. ASSUME NEW w \in Writers, NEW facts \in Batches, Begin(w, facts) PROVE TypeOK'
    <2>1. facts \in Seq(Memories) /\ Len(facts) \in Nat
      BY BatchesAssumption
    <2>2. Len(batch[w]) = 0 /\ stored[w] = 0 /\ closing[w] = 0
      BY <1>1 DEF Begin, Idle, TypeOK
    <2> QED
      BY <1>1, <2>1, <2>2 DEF Begin, TypeOK
  <1>2. ASSUME NEW w \in Writers, StoreBatch(w) PROVE TypeOK'
    <2>1. /\ ChunkEnd(w) \in Nat /\ stored[w] < ChunkEnd(w) /\ ChunkEnd(w) <= Len(batch[w])
      BY <1>2, ChunkEndFacts DEF StoreBatch
    <2>2. \A m \in Memories : Upserted(m) \in {"active", "closed"}
      BY DEF Upserted
    <2>3. fact' \in [Memories -> {"none", "active", "closed"}]
      BY <1>2, <2>2 DEF StoreBatch, TypeOK
    <2>4. closing[w] = 0
      BY <1>2 DEF StoreBatch, TypeOK
    <2> QED
      BY <1>2, <2>1, <2>3, <2>4 DEF StoreBatch, TypeOK
  <1>3. ASSUME NEW w \in Writers, InvalidateEntityRelation(w) PROVE TypeOK'
    <2>1. fact' \in [Memories -> {"none", "active", "closed"}]
      BY <1>3 DEF InvalidateEntityRelation, TypeOK
    <2>2. /\ batch[w] \in Seq(Memories) /\ Len(batch[w]) \in Nat \ {0}
          /\ stored[w] = Len(batch[w]) /\ closing[w] < Len(batch[w])
      BY <1>3 DEF InvalidateEntityRelation, Idle, TypeOK
    <2>3. CASE closing[w] + 1 = Len(batch[w])
      BY <1>3, <2>1, <2>2, <2>3 DEF InvalidateEntityRelation, TypeOK
    <2>4. CASE closing[w] + 1 # Len(batch[w])
      BY <1>3, <2>1, <2>2, <2>4 DEF InvalidateEntityRelation, TypeOK
    <2> QED
      BY <2>3, <2>4
  <1>4. ASSUME NEW w \in Writers, Fail(w) PROVE TypeOK'
    BY <1>4, PendingFacts DEF Fail, TypeOK
  <1>5. ASSUME NEW m \in Memories, DeleteMemory(m) PROVE TypeOK'
    BY <1>5 DEF DeleteMemory, TypeOK
  <1>6. CASE UNCHANGED vars
    BY <1>6 DEF vars, TypeOK
  <1> QED
    BY <1>1, <1>2, <1>3, <1>4, <1>5, <1>6 DEF Next

(***************************************************************************)
(* The rows and the writers keep their types: a writer closes facts only   *)
(* for facts it has stored.                                                *)
(***************************************************************************)
THEOREM TypeCorrect == Spec => []TypeOK
  BY TypeInit, TypeStep, PTL DEF Spec

-----------------------------------------------------------------------------
(* What a step does to the debts of facts: a writer's debts change only by *)
(* its own steps.                                                          *)
LEMMA OwedByOthers ==
    ASSUME NEW w \in Writers,
           \A v \in Writers \ {w} : Pending(v)' = Pending(v),
           NEW m \in Memories, Owed(m), m \notin Pending(w),
           cut \subseteq cut'
    PROVE  Owed(m)'
  BY DEF Owed

(* Writers other than w have the same debts when only w's places change. *)
LEMMA PendingKept ==
    ASSUME NEW w \in Writers, NEW v \in Writers,
           batch'[v] = batch[v], stored'[v] = stored[v], closing'[v] = closing[v]
    PROVE  Pending(v)' = Pending(v)
  BY DEF Pending

(* Every step keeps at most one active value among completed stores. *)
LEMMA ValueStep == TypeOK /\ OneActiveValue /\ [Next]_vars => OneActiveValue'
  <1> SUFFICES ASSUME TypeOK, OneActiveValue, [Next]_vars,
                      NEW m \in Memories, NEW n \in Memories,
                      fact'[m] = "active", fact'[n] = "active", ValueOf[m] # ValueOf[n]
               PROVE  Owed(m)' \/ Owed(n)'
    BY DEF OneActiveValue
  <1>0. fact[m] = "active" /\ fact[n] = "active" => Owed(m) \/ Owed(n)
    BY DEF OneActiveValue
  <1>1. ASSUME NEW w \in Writers, NEW facts \in Batches, Begin(w, facts)
        PROVE  Owed(m)' \/ Owed(n)'
    <2>1. stored[w] = 0 /\ closing[w] = 0
      BY <1>1 DEF Begin, Idle, TypeOK
    <2>2. \A v \in Writers \ {w} : Pending(v)' = Pending(v)
      BY <1>1, PendingKept DEF Begin, TypeOK
    <2>3. Pending(w) = {}
      BY <2>1 DEF Pending
    <2> QED
      BY <1>0, <1>1, <2>2, <2>3, OwedByOthers DEF Begin
  <1>2. ASSUME NEW w \in Writers, StoreBatch(w) PROVE Owed(m)' \/ Owed(n)'
    <2>1. /\ ChunkEnd(w) \in Nat /\ stored[w] < ChunkEnd(w) /\ ChunkEnd(w) <= Len(batch[w])
          /\ stored[w] \in Nat
      BY <1>2, ChunkEndFacts DEF StoreBatch, TypeOK
    <2>2. closing[w] = 0
      BY <1>2 DEF StoreBatch, TypeOK
    <2>3. \A v \in Writers \ {w} : Pending(v)' = Pending(v)
      BY <1>2, PendingKept DEF StoreBatch, TypeOK
    <2>4. Pending(w)' = {batch[w][i] : i \in 1 .. ChunkEnd(w)}
      BY <1>2, <2>2 DEF StoreBatch, TypeOK, Pending
    <2>5. Pending(w) \subseteq Pending(w)' /\ Chunk(w) \subseteq Pending(w)'
      <3>1. /\ 1 .. stored[w] \subseteq 1 .. ChunkEnd(w)
            /\ stored[w] + 1 .. ChunkEnd(w) \subseteq 1 .. ChunkEnd(w)
        BY <2>1
      <3>2. Pending(w) = {batch[w][i] : i \in 1 .. stored[w]}
        BY <2>2 DEF Pending
      <3> QED
        BY <2>4, <3>1, <3>2 DEF Chunk
    <2>6. \A k \in Memories : Owed(k) => Owed(k)'
      BY <1>2, <2>3, <2>5 DEF Owed, StoreBatch
    <2>7. CASE m \in Chunk(w) \/ n \in Chunk(w)
      BY <2>5, <2>7 DEF Owed
    <2>8. CASE m \notin Chunk(w) /\ n \notin Chunk(w)
      BY <1>0, <1>2, <2>6, <2>8 DEF StoreBatch
    <2> QED
      BY <2>7, <2>8
  <1>3. ASSUME NEW w \in Writers, InvalidateEntityRelation(w) PROVE Owed(m)' \/ Owed(n)'
    <2> DEFINE k == batch[w][closing[w] + 1]
    <2>1. /\ batch[w] \in Seq(Memories) /\ Len(batch[w]) \in Nat \ {0} /\ closing[w] \in Nat
          /\ stored[w] = Len(batch[w]) /\ closing[w] < Len(batch[w])
      BY <1>3 DEF InvalidateEntityRelation, Idle, TypeOK
    <2>2. \A j \in Memories :
             fact'[j] = IF fact[j] = "active" /\ ValueOf[j] # ValueOf[k] THEN "closed" ELSE fact[j]
      BY <1>3 DEF InvalidateEntityRelation, Superseded
    <2>3. fact[m] = "active" /\ ValueOf[m] = ValueOf[k]
      BY <2>2
    <2>4. fact[n] = "active" /\ ValueOf[n] = ValueOf[k]
      BY <2>2
    <2> QED
      BY <2>3, <2>4
  <1>4. ASSUME NEW w \in Writers, Fail(w) PROVE Owed(m)' \/ Owed(n)'
    <2>1. \A v \in Writers \ {w} : Pending(v)' = Pending(v)
      BY <1>4, PendingKept DEF Fail, TypeOK
    <2>2. \A j \in Memories : Owed(j) => Owed(j)'
      BY <1>4, <2>1 DEF Fail, Owed
    <2> QED
      BY <1>0, <1>4, <2>2 DEF Fail
  <1>5. ASSUME NEW d \in Memories, DeleteMemory(d) PROVE Owed(m)' \/ Owed(n)'
    <2>1. \A v \in Writers : Pending(v)' = Pending(v)
      BY <1>5 DEF DeleteMemory, Pending
    <2>2. \A j \in Memories : Owed(j) => Owed(j)'
      BY <1>5, <2>1 DEF DeleteMemory, Owed
    <2>3. fact[m] = "active" /\ fact[n] = "active"
      BY <1>5 DEF DeleteMemory, TypeOK
    <2> QED
      BY <1>0, <2>2, <2>3
  <1>6. CASE UNCHANGED vars
    <2>1. \A v \in Writers : Pending(v)' = Pending(v)
      BY <1>6 DEF vars, Pending
    <2>2. \A j \in Memories : Owed(j) => Owed(j)'
      BY <1>6, <2>1 DEF vars, Owed
    <2> QED
      BY <1>0, <1>6, <2>2 DEF vars
  <1> QED
    BY <1>1, <1>2, <1>3, <1>4, <1>5, <1>6 DEF Next

(***************************************************************************)
(* Completed stores leave at most one active value of a singleton          *)
(* relation, whatever the interleaving of invalidateSupersededEntityFacts. *)
(***************************************************************************)
THEOREM OneActiveValueCorrect == Spec => []OneActiveValue
  <1>1. Init => OneActiveValue
    BY DEF Init, OneActiveValue
  <1> QED
    BY <1>1, TypeInit, TypeStep, ValueStep, PTL DEF Spec

=============================================================================
