----------------------- MODULE PostprocessQueueProofs -----------------------
(***************************************************************************)
(* Theorems about PostprocessQueue for every number of jobs, workers and   *)
(* processes, every batch size, attempt limit, delay and number of faults. *)
(***************************************************************************)
EXTENDS PostprocessQueue, SequenceTheorems, TLAPS

-----------------------------------------------------------------------------
(* What Head and Tail return for the non-empty batch of a worker. *)
LEMMA TailFacts ==
    ASSUME NEW S, NEW s \in Seq(S), s # <<>>
    PROVE  /\ Len(s) \in Nat \ {0}
           /\ Head(s) = s[1] /\ Head(s) \in S
           /\ Tail(s) \in Seq(S)
           /\ Len(Tail(s)) = Len(s) - 1
           /\ \A i \in 1..Len(Tail(s)) : Tail(s)[i] = s[i + 1] /\ i + 1 \in 1..Len(s)
           /\ Tail(s) = <<>> <=> Len(s) = 1
  <1>1. Len(s) \in Nat \ {0} /\ s \in [1..Len(s) -> S]
    BY EmptySeq, LenProperties
  <1>2. /\ Head(s) = s[1] /\ Head(s) \in S
        /\ Tail(s) \in Seq(S)
        /\ Len(Tail(s)) = Len(s) - 1
        /\ \A i \in 1..Len(Tail(s)) : Tail(s)[i] = s[i + 1]
    BY <1>1, HeadTailProperties
  <1>3. Tail(s) = <<>> <=> Len(Tail(s)) = 0
    BY <1>2, EmptySeq
  <1> QED
    BY <1>1, <1>2, <1>3

(* A non-empty list of n elements is a sequence. *)
LEMMA ListIsSeq ==
    ASSUME NEW S, NEW n \in Nat \ {0}, NEW f \in [1..n -> S]
    PROVE  f \in Seq(S) /\ Len(f) = n /\ f # <<>>
  OBVIOUS

(* A retry delay is a number of ticks, and never above the maximum. *)
LEMMA DelayType ==
    ASSUME NEW attempt \in Nat
    PROVE  retryDelay(attempt) \in Nat /\ retryDelay(attempt) <= RetryMax
  BY DurationAssumption DEF retryDelay

(* max_attempts is positive after EffectiveMaxAttempts. *)
LEMMA EffectivePositive ==
    ASSUME NEW request \in Requests
    PROVE  EffectiveMaxAttempts(request) \in Nat \ {0}
  BY AttemptsAssumption DEF EffectiveMaxAttempts

(* Changing the status and the lease of a row keeps its type and the rest. *)
LEMMA RowUpdate ==
    ASSUME NEW row \in Row, NEW st \in Statuses, NEW o \in Workers \cup {NoOwner}, NEW t \in Int
    PROVE  LET new == [row EXCEPT !.status = st, !.owner = o, !.leasedUntil = t]
           IN  /\ new \in Row
               /\ new.status = st /\ new.owner = o /\ new.leasedUntil = t
               /\ new.attempts = row.attempts /\ new.max = row.max
               /\ new.availableAt = row.availableAt /\ new.createdAt = row.createdAt
  BY DEF Row

(* What FailedRow writes, and that it keeps the type of the row. *)
LEMMA FailedRowFacts ==
    ASSUME NEW row \in Row, NEW job \in Snapshot, now \in Nat
    PROVE  LET new == FailedRow(row, job)
           IN  /\ new \in Row
               /\ new.attempts = job.attempts + 1
               /\ new.max = row.max
               /\ new.status = IF job.attempts + 1 >= job.max THEN "dead_letter" ELSE "failed"
               /\ new.leasedUntil = NoLease
  <1> DEFINE a  == job.attempts + 1
             st == IF a >= job.max THEN "dead_letter" ELSE "failed"
             at == IF a >= job.max THEN now ELSE now + retryDelay(a)
  <1>1. a \in Nat
    BY DEF Snapshot
  <1>2. retryDelay(a) \in Nat
    BY <1>1, DelayType
  <1>3. at \in Nat /\ st \in Statuses /\ NoLease \in Int
    BY <1>2 DEF Statuses, NoLease
  <1>4. FailedRow(row, job) = [row EXCEPT !.status = st, !.attempts = a, !.availableAt = at,
                                          !.owner = NoOwner, !.leasedUntil = NoLease]
    BY DEF FailedRow
  <1> HIDE DEF a, st, at
  <1>5. /\ FailedRow(row, job) \in Row
        /\ FailedRow(row, job).attempts = a
        /\ FailedRow(row, job).max = row.max
        /\ FailedRow(row, job).status = st
        /\ FailedRow(row, job).leasedUntil = NoLease
    BY <1>1, <1>3, <1>4 DEF Row
  <1> QED
    BY <1>5 DEF a, st

-----------------------------------------------------------------------------
(* The type invariant holds initially. *)
LEMMA TypeInit == Init => TypeOK
  <1> SUFFICES ASSUME Init PROVE TypeOK
    OBVIOUS
  <1>1. jobs \in [Jobs -> Row]
    BY DEF Init, Absent, Row, Statuses, NoLease
  <1>2. now \in Nat
    BY DurationAssumption DEF Init
  <1>3. batch \in [Workers -> Seq(Snapshot)]
    BY DEF Init
  <1> QED
    BY <1>1, <1>2, <1>3, FaultsAssumption DEF Init, TypeOK

(* Advance leaves pc and batch well typed and in step with each other. *)
LEMMA AdvanceType ==
    ASSUME TypeOK, NEW w \in Workers, pc[w] = "exec", Advance(w)
    PROVE  /\ pc' \in [Workers -> {"poll", "next", "exec", "down"}]
           /\ batch' \in [Workers -> Seq(Snapshot)]
           /\ \A v \in Workers : batch'[v] # <<>> <=> pc'[v] \in {"next", "exec"}
  <1>1. batch[w] \in Seq(Snapshot) /\ batch[w] # <<>>
    BY DEF TypeOK
  <1>2. Tail(batch[w]) \in Seq(Snapshot)
    BY <1>1, TailFacts
  <1> QED
    BY <1>1, <1>2 DEF TypeOK, Advance

(* Every step keeps the type invariant. *)
LEMMA TypeStep == TypeOK /\ [Next]_vars => TypeOK'
  <1> SUFFICES ASSUME TypeOK, [Next]_vars PROVE TypeOK'
    OBVIOUS
  <1> USE DEF TypeOK
  <1>1. ASSUME NEW S \in SUBSET Jobs, NEW request \in Requests,
               EnqueuePostprocessJobs(S, request)
        PROVE  TypeOK'
    <2>1. QueuedRow(request) \in Row
      BY EffectivePositive DEF QueuedRow, Row, Statuses, NoLease
    <2> QED
      BY <1>1, <2>1 DEF EnqueuePostprocessJobs
  <1>2. ASSUME NEW w \in Workers, ClaimPostprocessJobs(w)
        PROVE  TypeOK'
    <2>1. PICK n \in 1..BatchSize : \E ids \in [1..n -> Jobs] :
             /\ jobs' = [j \in Jobs |-> IF j \in Range(ids) THEN ClaimedRow(w, j) ELSE jobs[j]]
             /\ batch' = [batch EXCEPT ![w] = [i \in 1..n |-> SnapshotOf(ids[i])]]
      BY <1>2 DEF ClaimPostprocessJobs
    <2>2. PICK ids \in [1..n -> Jobs] :
             /\ jobs' = [j \in Jobs |-> IF j \in Range(ids) THEN ClaimedRow(w, j) ELSE jobs[j]]
             /\ batch' = [batch EXCEPT ![w] = [i \in 1..n |-> SnapshotOf(ids[i])]]
      BY <2>1
    <2>3. ASSUME NEW j \in Jobs PROVE ClaimedRow(w, j) \in Row
      <3>1. jobs[j] \in Row /\ now + Lease \in Int /\ "running" \in Statuses
        BY DurationAssumption DEF Statuses
      <3> QED
        BY <3>1, RowUpdate DEF ClaimedRow
    <2>4. jobs' \in [Jobs -> Row]
      BY <2>2, <2>3
    <2>5. \A j \in Jobs : SnapshotOf(j) \in Snapshot
      BY DEF SnapshotOf, Snapshot, Row
    <2> DEFINE list == [i \in 1..n |-> SnapshotOf(ids[i])]
    <2>6. list \in [1..n -> Snapshot] /\ n \in Nat \ {0}
      BY <2>2, <2>5, BatchAssumption
    <2>7. batch' = [batch EXCEPT ![w] = list]
      BY <2>2
    <2> HIDE DEF list
    <2>8. list \in Seq(Snapshot) /\ list # <<>>
      BY <2>6, ListIsSeq
    <2> QED
      BY <1>2, <2>4, <2>7, <2>8 DEF ClaimPostprocessJobs
  <1>3. ASSUME NEW w \in Workers, Begin(w)
        PROVE  TypeOK'
    <2>1. Head(batch[w]) \in Snapshot
      BY <1>3, TailFacts DEF Begin
    <2> QED
      BY <1>3, <2>1 DEF Begin, Snapshot
  <1>4. ASSUME NEW w \in Workers, MarkPostprocessJobSucceeded(w)
        PROVE  TypeOK'
    <2>1. Head(batch[w]) \in Snapshot
      BY <1>4, TailFacts DEF MarkPostprocessJobSucceeded
    <2> DEFINE id == Head(batch[w]).id
    <2>2. id \in Jobs /\ jobs[id] \in Row /\ NoLease \in Int /\ "succeeded" \in Statuses
      BY <2>1 DEF Snapshot, NoLease, Statuses
    <2>3. [jobs[id] EXCEPT !.status = "succeeded", !.owner = NoOwner, !.leasedUntil = NoLease] \in Row
      BY <2>2, RowUpdate
    <2>4. jobs' \in [Jobs -> Row]
      BY <1>4, <2>2, <2>3 DEF MarkPostprocessJobSucceeded
    <2> QED
      BY <1>4, <2>4, AdvanceType DEF MarkPostprocessJobSucceeded
  <1>5. ASSUME NEW w \in Workers, MarkPostprocessJobFailed(w)
        PROVE  TypeOK'
    <2>1. Head(batch[w]) \in Snapshot
      BY <1>5, TailFacts DEF MarkPostprocessJobFailed
    <2>2. jobs[Head(batch[w]).id] \in Row
      BY <2>1 DEF Snapshot
    <2>3. jobs' \in [Jobs -> Row]
      BY <1>5, <2>1, <2>2, FailedRowFacts DEF MarkPostprocessJobFailed
    <2> QED
      BY <1>5, <2>3, AdvanceType DEF MarkPostprocessJobFailed
  <1>6. ASSUME NEW w \in Workers, MarkLost(w)
        PROVE  TypeOK'
    BY <1>6, AdvanceType, FaultsAssumption DEF MarkLost
  <1>7. ASSUME NEW w \in Workers, WorkerReturn(w)
        PROVE  TypeOK'
    <2>1. <<>> \in Seq(Snapshot)
      OBVIOUS
    <2> QED
      BY <1>7, <2>1 DEF WorkerReturn
  <1>8. ASSUME NEW p \in Processes, Stop(p)
        PROVE  TypeOK'
    BY <1>8, FaultsAssumption DEF Stop
  <1>9. ASSUME NEW p \in Processes, Crash(p)
        PROVE  TypeOK'
    BY <1>9, FaultsAssumption DEF Crash
  <1>10. ASSUME NEW p \in Processes, StartPostprocessWorkers(p)
         PROVE  TypeOK'
    BY <1>10 DEF StartPostprocessWorkers, Running
  <1>11. CASE Tick
    BY <1>11 DEF Tick
  <1>12. CASE UNCHANGED vars
    BY <1>12 DEF vars
  <1> QED
    BY <1>1, <1>2, <1>3, <1>4, <1>5, <1>6, <1>7, <1>8, <1>9, <1>10, <1>11, <1>12
       DEF Next, WorkerStep

(* Every reachable state is well typed. *)
THEOREM TypeCorrect == Spec => []TypeOK
  BY TypeInit, TypeStep, PTL DEF Spec

-----------------------------------------------------------------------------
(* What a worker holds at a position of its batch is a job. *)
LEMMA HeldElement ==
    ASSUME TypeOK, NEW w \in Workers, NEW i \in 1..Len(batch[w])
    PROVE  batch[w][i] \in Snapshot /\ batch[w][i].id \in Jobs
  <1>1. batch[w] \in Seq(Snapshot)
    BY DEF TypeOK
  <1>2. batch[w][i] \in Snapshot
    BY <1>1, ElementOfSeq
  <1> QED
    BY <1>2 DEF Snapshot

(* The first job of a worker that executes. *)
LEMMA HeldFirst ==
    ASSUME TypeOK, NEW w \in Workers, pc[w] \in {"next", "exec"}
    PROVE  1 \in 1..Len(batch[w]) /\ Head(batch[w]) = batch[w][1]
  <1>1. batch[w] \in Seq(Snapshot) /\ batch[w] # <<>>
    BY DEF TypeOK
  <1> QED
    BY <1>1, TailFacts

(***************************************************************************)
(* After Advance(w) every position (v, i) of a batch is an old position    *)
(* (v, Old(i)), and none of them is the job that was finished.             *)
(***************************************************************************)
LEMMA AdvancePositions ==
    ASSUME TypeOK, ExclusiveHold, NEW w \in Workers, pc[w] = "exec", Advance(w),
           NEW v \in Workers, NEW i \in 1..Len(batch'[v])
    PROVE  LET k == IF v = w THEN i + 1 ELSE i
           IN  /\ k \in 1..Len(batch[v])
               /\ batch'[v][i] = batch[v][k]
               /\ batch[v][k].id # Head(batch[w]).id
               /\ i \in Nat /\ ~ (v = w /\ k = 1)
  <1>1. batch[w] \in Seq(Snapshot) /\ batch[w] # <<>>
    BY DEF TypeOK
  <1>2. 1 \in 1..Len(batch[w]) /\ Head(batch[w]) = batch[w][1]
    BY HeldFirst
  <1>3. /\ batch' = [batch EXCEPT ![w] = Tail(batch[w])]
        /\ batch \in [Workers -> Seq(Snapshot)]
    BY DEF Advance, TypeOK
  <1>4. CASE v = w
    <2>1. batch'[v] = Tail(batch[w]) /\ i \in 1..Len(Tail(batch[w]))
      BY <1>3, <1>4
    <2>2. /\ Tail(batch[w])[i] = batch[w][i + 1] /\ i + 1 \in 1..Len(batch[w])
          /\ Len(Tail(batch[w])) = Len(batch[w]) - 1 /\ Len(batch[w]) \in Nat
      BY <1>1, <2>1, TailFacts
    <2>3. i \in Nat /\ i + 1 # 1
      BY <2>1, <2>2
    <2>4. batch[w][i + 1].id # batch[w][1].id
      BY <1>2, <2>2, <2>3 DEF ExclusiveHold
    <2> QED
      BY <1>2, <1>4, <2>1, <2>2, <2>3, <2>4
  <1>5. CASE v # w
    <2>1. batch'[v] = batch[v] /\ i \in 1..Len(batch[v])
      BY <1>3, <1>5
    <2>2. batch[v][i].id # batch[w][1].id
      BY <1>2, <1>5, <2>1 DEF ExclusiveHold
    <2>3. i \in Nat
      BY <1>3, <2>1, LenProperties
    <2> QED
      BY <1>2, <1>5, <2>1, <2>2, <2>3
  <1> QED
    BY <1>4, <1>5

(***************************************************************************)
(* A worker that finishes its first job keeps the others, and the table    *)
(* keeps the rows of every job that is still held.                         *)
(***************************************************************************)
LEMMA AdvanceHold ==
    ASSUME TypeOK, ExclusiveHold, NEW w \in Workers, pc[w] = "exec", Advance(w),
           \A j \in Jobs : j # Head(batch[w]).id => jobs'[j] = jobs[j]
    PROVE  ExclusiveHold'
  <1> SUFFICES ASSUME NEW v \in Workers, NEW i \in 1..Len(batch'[v])
               PROVE  /\ jobs'[batch'[v][i].id].status = "running"
                      /\ jobs'[batch'[v][i].id].owner = v
                      /\ jobs'[batch'[v][i].id].attempts = batch'[v][i].attempts
                      /\ jobs'[batch'[v][i].id].max = batch'[v][i].max
                      /\ \A u \in Workers : \A k \in 1..Len(batch'[u]) :
                            batch'[u][k].id = batch'[v][i].id => u = v /\ k = i
    BY DEF ExclusiveHold
  <1> DEFINE m == IF v = w THEN i + 1 ELSE i
  <1>1. /\ m \in 1..Len(batch[v])
        /\ batch'[v][i] = batch[v][m]
        /\ batch[v][m].id # Head(batch[w]).id
        /\ i \in Nat
    BY AdvancePositions
  <1>2. jobs'[batch[v][m].id] = jobs[batch[v][m].id]
    BY <1>1, HeldElement
  <1>3. /\ jobs'[batch'[v][i].id].status = "running"
        /\ jobs'[batch'[v][i].id].owner = v
        /\ jobs'[batch'[v][i].id].attempts = batch'[v][i].attempts
        /\ jobs'[batch'[v][i].id].max = batch'[v][i].max
    BY <1>1, <1>2 DEF ExclusiveHold
  <1>4. ASSUME NEW u \in Workers, NEW k \in 1..Len(batch'[u]),
               batch'[u][k].id = batch'[v][i].id
        PROVE  u = v /\ k = i
    <2> DEFINE l == IF u = w THEN k + 1 ELSE k
    <2>1. l \in 1..Len(batch[u]) /\ batch'[u][k] = batch[u][l] /\ k \in Nat
      BY AdvancePositions
    <2>2. u = v /\ l = m
      BY <1>1, <1>4, <2>1 DEF ExclusiveHold
    <2> QED
      BY <1>1, <2>1, <2>2
  <1> QED
    BY <1>3, <1>4

(* Steps that at most drop whole batches and leave the table alone. *)
LEMMA DropHold ==
    ASSUME TypeOK, ExclusiveHold, jobs' = jobs,
           \A w \in Workers : batch'[w] = batch[w] \/ batch'[w] = <<>>
    PROVE  ExclusiveHold'
  <1>1. \A w \in Workers : \A i \in 1..Len(batch'[w]) : batch'[w] = batch[w]
    BY EmptySeq
  <1> QED
    BY <1>1 DEF ExclusiveHold

(***************************************************************************)
(* What a claim does to the rows and to the batch of the claiming worker.  *)
(***************************************************************************)
ClaimEffect(w, n, ids) ==
    /\ n \in Nat \ {0}
    /\ ids \in [1..n -> Jobs]
    /\ IsClaimList(ids)
    /\ \A i \in 1..n : Claimable(ids[i])
    /\ \A i, k \in 1..n : ids[i] = ids[k] => i = k
    /\ Len(batch'[w]) = n
    /\ \A i \in 1..n : batch'[w][i] = SnapshotOf(ids[i])
    /\ \A v \in Workers : v # w => batch'[v] = batch[v]
    /\ \A i \in 1..n : jobs'[ids[i]] = ClaimedRow(w, ids[i])
    /\ \A j \in Jobs : (\A i \in 1..n : ids[i] # j) => jobs'[j] = jobs[j]

LEMMA ClaimFacts ==
    ASSUME TypeOK, NEW w \in Workers, ClaimPostprocessJobs(w)
    PROVE  \E n, ids : ClaimEffect(w, n, ids)
  <1>1. PICK n \in 1..BatchSize : \E ids \in [1..n -> Jobs] :
             /\ IsClaimList(ids)
             /\ jobs' = [j \in Jobs |-> IF j \in Range(ids) THEN ClaimedRow(w, j) ELSE jobs[j]]
             /\ batch' = [batch EXCEPT ![w] = [i \in 1..n |-> SnapshotOf(ids[i])]]
    BY DEF ClaimPostprocessJobs
  <1>2. PICK ids \in [1..n -> Jobs] :
             /\ IsClaimList(ids)
             /\ jobs' = [j \in Jobs |-> IF j \in Range(ids) THEN ClaimedRow(w, j) ELSE jobs[j]]
             /\ batch' = [batch EXCEPT ![w] = [i \in 1..n |-> SnapshotOf(ids[i])]]
    BY <1>1
  <1>3. n \in Nat \ {0}
    BY BatchAssumption
  <1>4. DOMAIN ids = 1..n /\ Range(ids) = {ids[i] : i \in 1..n}
    BY <1>2 DEF Range
  <1>5. /\ \A i \in 1..n : Claimable(ids[i])
        /\ \A i, k \in 1..n : ids[i] = ids[k] => i = k
    BY <1>2, <1>4 DEF IsClaimList
  <1> DEFINE list == [i \in 1..n |-> SnapshotOf(ids[i])]
  <1>6. list \in [1..n -> Snapshot]
    <2>1. \A j \in Jobs : SnapshotOf(j) \in Snapshot
      BY DEF SnapshotOf, Snapshot, Row, TypeOK
    <2> QED
      BY <1>2, <2>1
  <1>7. \A i \in 1..n : list[i] = SnapshotOf(ids[i])
    OBVIOUS
  <1>8. batch'[w] = list /\ \A v \in Workers : v # w => batch'[v] = batch[v]
    BY <1>2 DEF TypeOK
  <1> HIDE DEF list
  <1>9. Len(list) = n
    BY <1>3, <1>6, ListIsSeq
  <1>10. \A i \in 1..n : jobs'[ids[i]] = ClaimedRow(w, ids[i])
    BY <1>2, <1>4
  <1>11. \A j \in Jobs : (\A i \in 1..n : ids[i] # j) => jobs'[j] = jobs[j]
    BY <1>2, <1>4
  <1>12. ClaimEffect(w, n, ids)
    BY <1>2, <1>3, <1>5, <1>7, <1>8, <1>9, <1>10, <1>11 DEF ClaimEffect
  <1> QED
    BY <1>12

(* The fields of a claimed row. *)
LEMMA ClaimedRowFacts ==
    ASSUME TypeOK, NEW w \in Workers, NEW j \in Jobs
    PROVE  /\ ClaimedRow(w, j).status = "running"
           /\ ClaimedRow(w, j).owner = w
           /\ ClaimedRow(w, j).attempts = jobs[j].attempts
           /\ ClaimedRow(w, j).max = jobs[j].max
           /\ ClaimedRow(w, j).availableAt = jobs[j].availableAt
           /\ ClaimedRow(w, j).createdAt = jobs[j].createdAt
  <1>1. jobs[j] \in Row
    BY DEF TypeOK
  <1> QED
    BY <1>1 DEF ClaimedRow, Row

(* The claim query takes only jobs that wait, which nobody holds. *)
LEMMA ClaimHold ==
    ASSUME TypeOK, ExclusiveHold, NEW w \in Workers, ClaimPostprocessJobs(w)
    PROVE  ExclusiveHold'
  <1>1. PICK n, ids : ClaimEffect(w, n, ids)
    BY ClaimFacts
  <1>2. /\ n \in Nat \ {0} /\ ids \in [1..n -> Jobs]
        /\ \A i, k \in 1..n : ids[i] = ids[k] => i = k
        /\ Len(batch'[w]) = n
        /\ \A i \in 1..n : batch'[w][i] = SnapshotOf(ids[i])
        /\ \A v \in Workers : v # w => batch'[v] = batch[v]
        /\ \A i \in 1..n : jobs'[ids[i]] = ClaimedRow(w, ids[i])
        /\ \A j \in Jobs : (\A i \in 1..n : ids[i] # j) => jobs'[j] = jobs[j]
    BY <1>1 DEF ClaimEffect
  <1>3. \A i \in 1..n : jobs[ids[i]].status # "running"
    BY <1>1 DEF ClaimEffect, Claimable
  <1>4. \A i \in 1..n : /\ batch'[w][i].id = ids[i]
                        /\ batch'[w][i].attempts = jobs[ids[i]].attempts
                        /\ batch'[w][i].max = jobs[ids[i]].max
    <2>1. \A j \in Jobs : /\ SnapshotOf(j).id = j
                          /\ SnapshotOf(j).attempts = jobs[j].attempts
                          /\ SnapshotOf(j).max = jobs[j].max
      BY DEF SnapshotOf
    <2> QED
      BY <1>2, <2>1
  <1>5. ASSUME NEW v \in Workers, v # w, NEW k \in 1..Len(batch'[v])
        PROVE  /\ batch'[v][k] = batch[v][k] /\ k \in 1..Len(batch[v])
               /\ \A i \in 1..n : ids[i] # batch[v][k].id
               /\ jobs'[batch[v][k].id] = jobs[batch[v][k].id]
    <2>1. batch'[v][k] = batch[v][k] /\ k \in 1..Len(batch[v])
      BY <1>2, <1>5
    <2>2. jobs[batch[v][k].id].status = "running" /\ batch[v][k].id \in Jobs
      BY <2>1, HeldElement DEF ExclusiveHold
    <2>3. \A i \in 1..n : ids[i] # batch[v][k].id
      BY <1>3, <2>2
    <2> QED
      BY <1>2, <2>1, <2>2, <2>3
  <1> SUFFICES ASSUME NEW v \in Workers, NEW i \in 1..Len(batch'[v])
               PROVE  /\ jobs'[batch'[v][i].id].status = "running"
                      /\ jobs'[batch'[v][i].id].owner = v
                      /\ jobs'[batch'[v][i].id].attempts = batch'[v][i].attempts
                      /\ jobs'[batch'[v][i].id].max = batch'[v][i].max
                      /\ \A u \in Workers : \A k \in 1..Len(batch'[u]) :
                            batch'[u][k].id = batch'[v][i].id => u = v /\ k = i
    BY DEF ExclusiveHold
  <1>6. CASE v = w
    <2>1. i \in 1..n /\ ids[i] \in Jobs
      BY <1>2, <1>6
    <2>2. /\ jobs'[ids[i]].status = "running"
          /\ jobs'[ids[i]].owner = w
          /\ jobs'[ids[i]].attempts = jobs[ids[i]].attempts
          /\ jobs'[ids[i]].max = jobs[ids[i]].max
      BY <1>2, <2>1, ClaimedRowFacts
    <2>3. ASSUME NEW u \in Workers, NEW k \in 1..Len(batch'[u]), batch'[u][k].id = ids[i]
          PROVE  u = w /\ k = i
      <3>1. u = w
        BY <1>5, <2>1, <2>3
      <3>2. k \in 1..n
        BY <1>2, <3>1
      <3> QED
        BY <1>2, <1>4, <2>1, <2>3, <3>1, <3>2
    <2> QED
      BY <1>4, <1>6, <2>1, <2>2, <2>3
  <1>7. CASE v # w
    <2>1. /\ batch'[v][i] = batch[v][i] /\ i \in 1..Len(batch[v])
          /\ \A k \in 1..n : ids[k] # batch[v][i].id
          /\ jobs'[batch[v][i].id] = jobs[batch[v][i].id]
      BY <1>5, <1>7
    <2>2. ASSUME NEW u \in Workers, NEW k \in 1..Len(batch'[u]), batch'[u][k].id = batch[v][i].id
          PROVE  u = v /\ k = i
      <3>1. u # w
        BY <1>2, <1>4, <2>1, <2>2
      <3>2. batch'[u][k] = batch[u][k] /\ k \in 1..Len(batch[u])
        BY <1>5, <3>1
      <3> QED
        BY <2>1, <2>2, <3>2 DEF ExclusiveHold
    <2> QED
      BY <2>1, <2>2 DEF ExclusiveHold
  <1> QED
    BY <1>6, <1>7

(* Every step keeps jobs exclusively held. *)
LEMMA HoldStep == TypeOK /\ ExclusiveHold /\ [Next]_vars => ExclusiveHold'
  <1> SUFFICES ASSUME TypeOK, ExclusiveHold, [Next]_vars PROVE ExclusiveHold'
    OBVIOUS
  <1>1. ASSUME NEW S \in SUBSET Jobs, NEW request \in Requests,
               EnqueuePostprocessJobs(S, request)
        PROVE  ExclusiveHold'
    <2>1. ASSUME NEW w \in Workers, NEW i \in 1..Len(batch[w])
          PROVE  jobs'[batch[w][i].id] = jobs[batch[w][i].id]
      <3>1. jobs[batch[w][i].id].status = "running" /\ batch[w][i].id \in Jobs
        BY HeldElement DEF ExclusiveHold
      <3> QED
        BY <1>1, <3>1 DEF EnqueuePostprocessJobs
    <2>2. batch' = batch
      BY <1>1 DEF EnqueuePostprocessJobs
    <2> QED
      BY <2>1, <2>2 DEF ExclusiveHold
  <1>2. ASSUME NEW w \in Workers, ClaimPostprocessJobs(w)
        PROVE  ExclusiveHold'
    BY <1>2, ClaimHold
  <1>3. ASSUME NEW w \in Workers, Begin(w)
        PROVE  ExclusiveHold'
    BY <1>3 DEF Begin, ExclusiveHold
  <1>4. ASSUME NEW w \in Workers, MarkPostprocessJobSucceeded(w)
        PROVE  ExclusiveHold'
    <2>1. \A j \in Jobs : j # Head(batch[w]).id => jobs'[j] = jobs[j]
      BY <1>4 DEF MarkPostprocessJobSucceeded, TypeOK
    <2> QED
      BY <1>4, <2>1, AdvanceHold DEF MarkPostprocessJobSucceeded
  <1>5. ASSUME NEW w \in Workers, MarkPostprocessJobFailed(w)
        PROVE  ExclusiveHold'
    <2>1. \A j \in Jobs : j # Head(batch[w]).id => jobs'[j] = jobs[j]
      BY <1>5 DEF MarkPostprocessJobFailed, TypeOK
    <2> QED
      BY <1>5, <2>1, AdvanceHold DEF MarkPostprocessJobFailed
  <1>6. ASSUME NEW w \in Workers, MarkLost(w)
        PROVE  ExclusiveHold'
    BY <1>6, AdvanceHold DEF MarkLost
  <1>7. ASSUME NEW w \in Workers, WorkerReturn(w)
        PROVE  ExclusiveHold'
    BY <1>7, DropHold DEF WorkerReturn, TypeOK
  <1>8. ASSUME NEW p \in Processes, Stop(p)
        PROVE  ExclusiveHold'
    BY <1>8 DEF Stop, ExclusiveHold
  <1>9. ASSUME NEW p \in Processes, Crash(p)
        PROVE  ExclusiveHold'
    BY <1>9, DropHold DEF Crash
  <1>10. ASSUME NEW p \in Processes, StartPostprocessWorkers(p)
         PROVE  ExclusiveHold'
    BY <1>10 DEF StartPostprocessWorkers, ExclusiveHold
  <1>11. CASE Tick
    BY <1>11 DEF Tick, ExclusiveHold
  <1>12. CASE UNCHANGED vars
    BY <1>12 DEF vars, ExclusiveHold
  <1> QED
    BY <1>1, <1>2, <1>3, <1>4, <1>5, <1>6, <1>7, <1>8, <1>9, <1>10, <1>11, <1>12
       DEF Next, WorkerStep

(***************************************************************************)
(* No job is ever in the hands of two workers, and the marks, which check  *)
(* no owner, write over the row the worker claimed.                        *)
(***************************************************************************)
THEOREM ExclusiveHoldCorrect == Spec => []ExclusiveHold
  <1>1. Init => ExclusiveHold
    BY EmptySeq DEF Init, ExclusiveHold
  <1> QED
    BY <1>1, TypeInit, TypeStep, HoldStep, PTL DEF Spec

-----------------------------------------------------------------------------
(***************************************************************************)
(* AttemptBudget is not inductive: it says nothing of running jobs.  What  *)
(* makes it so is the account of every status, and that a held job has     *)
(* been executed once more than it has failed exactly while its execution  *)
(* is under way.                                                           *)
(***************************************************************************)
StatusAccount(row, n) ==
    /\ row.status = "none" => row.attempts = 0 /\ n = 0
    /\ row.status \in {"queued", "failed"} => row.attempts < row.max /\ n = row.attempts
    /\ row.status = "running" => row.attempts < row.max /\ n <= row.attempts + 1
    /\ row.status = "succeeded" => n <= row.max
    /\ row.status = "dead_letter" => row.attempts = row.max /\ n = row.max

HeldAccount(w, i) ==
    runs[batch[w][i].id] =
        IF pc[w] = "exec" /\ i = 1 THEN batch[w][i].attempts + 1 ELSE batch[w][i].attempts

Account ==
    /\ \A j \in Jobs : StatusAccount(jobs[j], runs[j])
    /\ \A w \in Workers : \A i \in 1..Len(batch[w]) : HeldAccount(w, i)

(* The account implies the property the runs check. *)
LEMMA AccountImpliesBudget == TypeOK /\ Account => AttemptBudget
  <1> SUFFICES ASSUME TypeOK, Account, NEW j \in Jobs
               PROVE  /\ runs[j] <= jobs[j].max
                      /\ jobs[j].status = "dead_letter" =>
                            jobs[j].attempts = jobs[j].max /\ runs[j] = jobs[j].max
                      /\ jobs[j].status \in {"queued", "failed"} =>
                            jobs[j].attempts < jobs[j].max /\ runs[j] = jobs[j].attempts
    BY DEF AttemptBudget
  <1>1. jobs[j].status \in Statuses /\ jobs[j].attempts \in Nat /\ jobs[j].max \in Nat /\ runs[j] \in Nat
    BY DEF TypeOK, Row
  <1>2. StatusAccount(jobs[j], runs[j])
    BY DEF Account
  <1> QED
    BY <1>1, <1>2 DEF StatusAccount, Statuses

(* Finishing a job keeps the account of the jobs that stay held. *)
LEMMA AdvanceAccount ==
    ASSUME TypeOK, ExclusiveHold, Account, NEW w \in Workers, pc[w] = "exec", Advance(w),
           runs' = runs
    PROVE  \A v \in Workers : \A i \in 1..Len(batch'[v]) : HeldAccount(v, i)'
  <1> SUFFICES ASSUME NEW v \in Workers, NEW i \in 1..Len(batch'[v])
               PROVE  HeldAccount(v, i)'
    OBVIOUS
  <1> DEFINE m == IF v = w THEN i + 1 ELSE i
  <1>1. /\ m \in 1..Len(batch[v])
        /\ batch'[v][i] = batch[v][m]
        /\ i \in Nat
        /\ ~ (v = w /\ m = 1)
    BY AdvancePositions
  <1>2. HeldAccount(v, m)
    BY <1>1 DEF Account
  <1>3. pc'[w] # "exec" /\ (v # w => pc'[v] = pc[v])
    BY DEF Advance, TypeOK
  <1> QED
    BY <1>1, <1>2, <1>3 DEF HeldAccount

(* Every step keeps the account. *)
LEMMA AccountStep == TypeOK /\ ExclusiveHold /\ Account /\ [Next]_vars => Account'
  <1> SUFFICES ASSUME TypeOK, ExclusiveHold, Account, [Next]_vars PROVE Account'
    OBVIOUS
  <1>a. \A j \in Jobs : /\ jobs[j] \in Row /\ jobs[j].attempts \in Nat
                        /\ jobs[j].max \in Nat /\ runs[j] \in Nat
                        /\ StatusAccount(jobs[j], runs[j])
    BY DEF TypeOK, Row, Account
  <1>b. ASSUME batch' = batch, pc' = pc, runs' = runs
        PROVE  \A w \in Workers : \A i \in 1..Len(batch'[w]) : HeldAccount(w, i)'
    BY <1>b DEF Account, HeldAccount
  <1>c. ASSUME runs' = runs,
               \A w \in Workers : \/ batch'[w] = <<>>
                                  \/ batch'[w] = batch[w] /\ pc'[w] = pc[w]
        PROVE  \A w \in Workers : \A i \in 1..Len(batch'[w]) : HeldAccount(w, i)'
    BY <1>c, EmptySeq DEF Account, HeldAccount
  <1>1. ASSUME NEW S \in SUBSET Jobs, NEW request \in Requests,
               EnqueuePostprocessJobs(S, request)
        PROVE  Account'
    <2>1. \A j \in S : runs[j] = 0
      BY <1>1, <1>a DEF EnqueuePostprocessJobs, StatusAccount
    <2>2. StatusAccount(QueuedRow(request), 0)
      BY EffectivePositive DEF StatusAccount, QueuedRow
    <2>3. \A j \in Jobs : StatusAccount(jobs'[j], runs'[j])
      BY <1>1, <1>a, <2>1, <2>2 DEF EnqueuePostprocessJobs
    <2> QED
      BY <1>1, <1>b, <2>3 DEF EnqueuePostprocessJobs, Account
  <1>2. ASSUME NEW w \in Workers, ClaimPostprocessJobs(w)
        PROVE  Account'
    <2>1. PICK n, ids : ClaimEffect(w, n, ids)
      BY <1>2, ClaimFacts
    <2>2. runs' = runs /\ pc'[w] = "next" /\ \A v \in Workers : v # w => pc'[v] = pc[v]
      BY <1>2 DEF ClaimPostprocessJobs, TypeOK
    <2>3. ASSUME NEW i \in 1..n
          PROVE  /\ ids[i] \in Jobs
                 /\ jobs[ids[i]].attempts < jobs[ids[i]].max
                 /\ runs[ids[i]] = jobs[ids[i]].attempts
      <3>1. ids[i] \in Jobs /\ Claimable(ids[i])
        BY <2>1 DEF ClaimEffect
      <3>2. jobs[ids[i]].status \in {"queued", "failed"}
        BY <3>1 DEF Claimable
      <3> QED
        BY <1>a, <3>1, <3>2 DEF StatusAccount
    <2>4. ASSUME NEW j \in Jobs PROVE StatusAccount(jobs'[j], runs'[j])
      <3>1. CASE \E i \in 1..n : ids[i] = j
        <4>1. jobs'[j] = ClaimedRow(w, j)
          BY <2>1, <3>1 DEF ClaimEffect
        <4>2. jobs[j].attempts < jobs[j].max /\ runs[j] = jobs[j].attempts
          BY <2>3, <3>1
        <4> QED
          BY <1>a, <2>2, <4>1, <4>2, ClaimedRowFacts DEF StatusAccount
      <3>2. CASE \A i \in 1..n : ids[i] # j
        BY <1>a, <2>1, <2>2, <3>2 DEF ClaimEffect
      <3> QED
        BY <3>1, <3>2
    <2>5. ASSUME NEW v \in Workers, NEW i \in 1..Len(batch'[v])
          PROVE  HeldAccount(v, i)'
      <3>1. CASE v = w
        <4>1. i \in 1..n /\ batch'[w][i] = SnapshotOf(ids[i])
          BY <2>1, <3>1 DEF ClaimEffect
        <4>2. batch'[w][i].id = ids[i] /\ batch'[w][i].attempts = jobs[ids[i]].attempts
          BY <4>1 DEF SnapshotOf
        <4> QED
          BY <2>2, <2>3, <3>1, <4>1, <4>2 DEF HeldAccount
      <3>2. CASE v # w
        BY <2>1, <2>2, <3>2 DEF ClaimEffect, Account, HeldAccount
      <3> QED
        BY <3>1, <3>2
    <2> QED
      BY <2>4, <2>5 DEF Account
  <1>3. ASSUME NEW w \in Workers, Begin(w)
        PROVE  Account'
    <2> DEFINE id == batch[w][1].id
    <2>1. /\ 1 \in 1..Len(batch[w]) /\ Head(batch[w]) = batch[w][1]
          /\ id \in Jobs /\ batch[w][1] \in Snapshot
      BY <1>3, HeldFirst, HeldElement DEF Begin
    <2>2. /\ runs'[id] = runs[id] + 1
          /\ \A j \in Jobs : j # id => runs'[j] = runs[j]
          /\ pc'[w] = "exec" /\ pc[w] = "next"
          /\ \A v \in Workers : v # w => pc'[v] = pc[v]
          /\ jobs' = jobs /\ batch' = batch
      BY <1>3, <2>1 DEF Begin, TypeOK
    <2>3. /\ jobs[id].status = "running"
          /\ jobs[id].attempts = batch[w][1].attempts
          /\ runs[id] = jobs[id].attempts
      BY <2>1, <2>2 DEF ExclusiveHold, Account, HeldAccount
    <2>4. ASSUME NEW j \in Jobs PROVE StatusAccount(jobs'[j], runs'[j])
      <3>1. CASE j = id
        BY <1>a, <2>1, <2>2, <2>3, <3>1 DEF StatusAccount
      <3>2. CASE j # id
        BY <1>a, <2>2, <3>2
      <3> QED
        BY <3>1, <3>2
    <2>5. ASSUME NEW v \in Workers, NEW i \in 1..Len(batch'[v])
          PROVE  HeldAccount(v, i)'
      <3>1. i \in 1..Len(batch[v]) /\ batch'[v][i] = batch[v][i] /\ batch[v][i].id \in Jobs
        BY <2>2, HeldElement
      <3>2. HeldAccount(v, i)
        BY <3>1 DEF Account
      <3>3. CASE v = w /\ i = 1
        BY <2>1, <2>2, <2>3, <3>1, <3>3 DEF HeldAccount
      <3>4. CASE ~ (v = w /\ i = 1)
        <4>1. batch[v][i].id # id
          BY <2>1, <3>1, <3>4 DEF ExclusiveHold
        <4>2. runs'[batch[v][i].id] = runs[batch[v][i].id]
          BY <2>2, <3>1, <4>1
        <4> QED
          BY <2>2, <3>1, <3>2, <3>4, <4>2 DEF HeldAccount
      <3> QED
        BY <3>3, <3>4
    <2> QED
      BY <2>4, <2>5 DEF Account
  <1>d. ASSUME NEW w \in Workers, pc[w] = "exec"
        PROVE  LET job == Head(batch[w])
               IN  /\ job \in Snapshot /\ job.id \in Jobs
                   /\ jobs[job.id].status = "running"
                   /\ jobs[job.id].attempts = job.attempts
                   /\ jobs[job.id].max = job.max
                   /\ runs[job.id] = job.attempts + 1
    <2>1. /\ 1 \in 1..Len(batch[w]) /\ Head(batch[w]) = batch[w][1]
          /\ batch[w][1] \in Snapshot /\ batch[w][1].id \in Jobs
      BY <1>d, HeldFirst, HeldElement
    <2> QED
      BY <1>d, <2>1 DEF ExclusiveHold, Account, HeldAccount
  <1>4. ASSUME NEW w \in Workers, MarkPostprocessJobSucceeded(w)
        PROVE  Account'
    <2> DEFINE id == Head(batch[w]).id
               new == [jobs[id] EXCEPT !.status = "succeeded", !.owner = NoOwner, !.leasedUntil = NoLease]
    <2>1. id \in Jobs /\ jobs[id].status = "running" /\ jobs[id] \in Row
      BY <1>4, <1>a, <1>d DEF MarkPostprocessJobSucceeded
    <2>2. new.status = "succeeded" /\ new.max = jobs[id].max
      BY <2>1 DEF Row
    <2>3. runs[id] <= jobs[id].max
      BY <1>a, <2>1 DEF StatusAccount
    <2>4. StatusAccount(new, runs[id])
      <3> HIDE DEF new
      <3> QED BY <2>2, <2>3 DEF StatusAccount
    <2>5. runs' = runs /\ jobs' = [jobs EXCEPT ![id] = new]
      BY <1>4 DEF MarkPostprocessJobSucceeded
    <2> HIDE DEF new
    <2>6. \A j \in Jobs : StatusAccount(jobs'[j], runs'[j])
      BY <1>a, <2>1, <2>4, <2>5 DEF TypeOK
    <2> QED
      BY <1>4, <2>5, <2>6, AdvanceAccount DEF MarkPostprocessJobSucceeded, Account
  <1>5. ASSUME NEW w \in Workers, MarkPostprocessJobFailed(w)
        PROVE  Account'
    <2> DEFINE job == Head(batch[w])
               new == FailedRow(jobs[job.id], job)
    <2>1. /\ job \in Snapshot /\ job.id \in Jobs
          /\ jobs[job.id].status = "running"
          /\ jobs[job.id].attempts = job.attempts
          /\ jobs[job.id].max = job.max
          /\ runs[job.id] = job.attempts + 1
      BY <1>5, <1>d DEF MarkPostprocessJobFailed
    <2>2. /\ new.attempts = job.attempts + 1
          /\ new.max = job.max
          /\ new.status = IF job.attempts + 1 >= job.max THEN "dead_letter" ELSE "failed"
      BY <1>a, <2>1, FailedRowFacts DEF TypeOK
    <2>3. job.attempts < job.max
      BY <1>a, <2>1 DEF StatusAccount
    <2>4. job.attempts \in Nat /\ job.max \in Nat
      BY <2>1 DEF Snapshot
    <2>5. StatusAccount(new, runs[job.id])
      <3> HIDE DEF new, job
      <3> QED BY <2>1, <2>2, <2>3, <2>4 DEF StatusAccount
    <2>6. runs' = runs /\ jobs' = [jobs EXCEPT ![job.id] = new]
      BY <1>5 DEF MarkPostprocessJobFailed
    <2> HIDE DEF new
    <2>7. \A j \in Jobs : StatusAccount(jobs'[j], runs'[j])
      BY <1>a, <2>1, <2>5, <2>6 DEF TypeOK
    <2> QED
      BY <1>5, <2>6, <2>7, AdvanceAccount DEF MarkPostprocessJobFailed, Account
  <1>6. ASSUME NEW w \in Workers, MarkLost(w)
        PROVE  Account'
    BY <1>6, <1>a, AdvanceAccount DEF MarkLost, Account
  <1>7. ASSUME NEW w \in Workers, WorkerReturn(w)
        PROVE  Account'
    <2>1. \A v \in Workers : \/ batch'[v] = <<>>
                             \/ batch'[v] = batch[v] /\ pc'[v] = pc[v]
      BY <1>7 DEF WorkerReturn, TypeOK
    <2> QED
      BY <1>7, <1>a, <1>c, <2>1 DEF WorkerReturn, Account
  <1>8. ASSUME NEW p \in Processes, Stop(p)
        PROVE  Account'
    BY <1>8, <1>a, <1>b DEF Stop, Account
  <1>9. ASSUME NEW p \in Processes, Crash(p)
        PROVE  Account'
    <2>1. \A v \in Workers : \/ batch'[v] = <<>>
                             \/ batch'[v] = batch[v] /\ pc'[v] = pc[v]
      BY <1>9 DEF Crash
    <2> QED
      BY <1>9, <1>a, <1>c, <2>1 DEF Crash, Account
  <1>10. ASSUME NEW p \in Processes, StartPostprocessWorkers(p)
         PROVE  Account'
    <2>1. \A v \in Workers : \/ batch'[v] = <<>>
                             \/ batch'[v] = batch[v] /\ pc'[v] = pc[v]
      BY <1>10 DEF StartPostprocessWorkers, Running, TypeOK
    <2> QED
      BY <1>10, <1>a, <1>c, <2>1 DEF StartPostprocessWorkers, Account
  <1>11. CASE Tick
    BY <1>11, <1>a, <1>b DEF Tick, Account
  <1>12. CASE UNCHANGED vars
    BY <1>12, <1>a, <1>b DEF vars, Account
  <1> QED
    BY <1>1, <1>2, <1>3, <1>4, <1>5, <1>6, <1>7, <1>8, <1>9, <1>10, <1>11, <1>12
       DEF Next, WorkerStep

(***************************************************************************)
(* max_attempts bounds the executions of every job, through any number of  *)
(* crashes, restarts and lost updates.                                     *)
(***************************************************************************)
THEOREM AttemptBudgetCorrect == Spec => []AttemptBudget
  <1>1. Init => ExclusiveHold /\ Account
    BY EmptySeq DEF Init, ExclusiveHold, Account, StatusAccount, Absent
  <1> QED
    BY <1>1, TypeInit, TypeStep, HoldStep, AccountStep, AccountImpliesBudget, PTL DEF Spec

-----------------------------------------------------------------------------
(* Strengthening: a cancelled context is itself the sign of a fault. *)
NoFaultNoCancel == faults = 0 => \A p \in Processes : ~ cancelled[p]

(* After the mark of w's first job, every other held job is still held. *)
LEMMA AdvanceHeld ==
    ASSUME TypeOK, NEW w \in Workers, pc[w] = "exec", Advance(w),
           NEW j \in Jobs, j # Head(batch[w]).id, Held(j)
    PROVE  Held(j)'
  <1>1. PICK v \in Workers : \E i \in 1..Len(batch[v]) : batch[v][i].id = j
    BY DEF Held
  <1>2. PICK i \in 1..Len(batch[v]) : batch[v][i].id = j
    BY <1>1
  <1>3. batch' = [batch EXCEPT ![w] = Tail(batch[w])] /\ batch \in [Workers -> Seq(Snapshot)]
    BY DEF Advance, TypeOK
  <1>4. CASE v # w
    BY <1>2, <1>3, <1>4 DEF Held
  <1>5. CASE v = w
    <2>1. batch[w] \in Seq(Snapshot) /\ batch[w] # <<>>
      BY DEF TypeOK
    <2>2. /\ Len(batch[w]) \in Nat /\ Head(batch[w]) = batch[w][1]
          /\ Len(Tail(batch[w])) = Len(batch[w]) - 1
          /\ \A k \in 1..Len(Tail(batch[w])) : Tail(batch[w])[k] = batch[w][k + 1]
      BY <2>1, TailFacts
    <2>3. i # 1
      BY <1>2, <1>5, <2>2
    <2>4. i - 1 \in 1..Len(Tail(batch[w])) /\ (i - 1) + 1 = i
      BY <1>5, <2>2, <2>3
    <2>5. Tail(batch[w])[i - 1] = batch[w][i]
      BY <2>2, <2>4
    <2>6. batch'[w] = Tail(batch[w])
      BY <1>3
    <2> QED
      BY <1>2, <1>5, <2>4, <2>5, <2>6 DEF Held
  <1> QED
    BY <1>4, <1>5

(* Every step keeps the running jobs held while there has been no fault. *)
LEMMA StrandedStep ==
    TypeOK /\ NoFaultNoCancel /\ StrandedOnlyByFault /\ [Next]_vars
      => NoFaultNoCancel' /\ StrandedOnlyByFault'
  <1> SUFFICES ASSUME TypeOK, NoFaultNoCancel, StrandedOnlyByFault, [Next]_vars
               PROVE  NoFaultNoCancel' /\ StrandedOnlyByFault'
    OBVIOUS
  <1> USE DEF NoFaultNoCancel
  <1>a. faults \in Nat /\ ProcessOf \in [Workers -> Processes]
    BY FaultsAssumption, ProcessesAssumption DEF TypeOK
  <1>b. faults = 0 => \A j \in Jobs : jobs[j].status = "running" => Held(j)
    BY DEF StrandedOnlyByFault, Stranded
  <1>c. ASSUME faults' = 0 => \A j \in Jobs : jobs'[j].status = "running" => Held(j)'
        PROVE  StrandedOnlyByFault'
    BY <1>c DEF StrandedOnlyByFault, Stranded
  <1>1. ASSUME NEW S \in SUBSET Jobs, NEW request \in Requests,
               EnqueuePostprocessJobs(S, request)
        PROVE  NoFaultNoCancel' /\ StrandedOnlyByFault'
    <2>1. \A j \in Jobs : jobs'[j].status = "running" => jobs[j].status = "running"
      BY <1>1 DEF EnqueuePostprocessJobs, QueuedRow
    <2> QED
      BY <1>1, <1>b, <1>c, <2>1 DEF EnqueuePostprocessJobs, Held
  <1>2. ASSUME NEW w \in Workers, ClaimPostprocessJobs(w)
        PROVE  NoFaultNoCancel' /\ StrandedOnlyByFault'
    <2>1. PICK n, ids : ClaimEffect(w, n, ids)
      BY <1>2, ClaimFacts
    <2>2. pc[w] = "poll" /\ faults' = faults /\ cancelled' = cancelled
      BY <1>2 DEF ClaimPostprocessJobs
    <2>3. batch[w] = <<>>
      BY <2>2 DEF TypeOK
    <2>4. ASSUME NEW j \in Jobs, faults = 0, jobs'[j].status = "running"
          PROVE  Held(j)'
      <3>1. CASE \E i \in 1..n : ids[i] = j
        <4>1. PICK i \in 1..n : ids[i] = j
          BY <3>1
        <4>2. batch'[w][i] = SnapshotOf(j) /\ i \in 1..Len(batch'[w])
          BY <2>1, <4>1 DEF ClaimEffect
        <4>3. batch'[w][i].id = j
          BY <4>2 DEF SnapshotOf
        <4> QED
          BY <4>2, <4>3 DEF Held
      <3>2. CASE \A i \in 1..n : ids[i] # j
        <4>1. jobs'[j] = jobs[j]
          BY <2>1, <3>2 DEF ClaimEffect
        <4>2. PICK v \in Workers : \E i \in 1..Len(batch[v]) : batch[v][i].id = j
          BY <1>b, <2>4, <4>1 DEF Held
        <4>3. v # w
          BY <2>3, <4>2, EmptySeq
        <4>4. batch'[v] = batch[v]
          BY <2>1, <4>3 DEF ClaimEffect
        <4> QED
          BY <4>2, <4>4 DEF Held
      <3> QED
        BY <3>1, <3>2
    <2> QED
      BY <1>c, <2>2, <2>4
  <1>3. ASSUME NEW w \in Workers, Begin(w)
        PROVE  NoFaultNoCancel' /\ StrandedOnlyByFault'
    BY <1>3, <1>b, <1>c DEF Begin, Held
  <1>d. ASSUME NEW w \in Workers, pc[w] = "exec", Advance(w),
               faults' = faults, cancelled' = cancelled, jobs' \in [Jobs -> Row],
               jobs'[Head(batch[w]).id].status # "running",
               \A j \in Jobs : j # Head(batch[w]).id => jobs'[j] = jobs[j]
        PROVE  NoFaultNoCancel' /\ StrandedOnlyByFault'
    <2>1. ASSUME NEW j \in Jobs, faults = 0, jobs'[j].status = "running"
          PROVE  Held(j)'
      BY <1>b, <1>d, <2>1, AdvanceHeld
    <2> QED
      BY <1>c, <1>d, <2>1
  <1>4. ASSUME NEW w \in Workers, MarkPostprocessJobSucceeded(w)
        PROVE  NoFaultNoCancel' /\ StrandedOnlyByFault'
    <2> DEFINE id == Head(batch[w]).id
    <2>1. id \in Jobs /\ jobs[id] \in Row
      BY <1>4, HeldFirst, HeldElement DEF MarkPostprocessJobSucceeded, TypeOK
    <2>2. [jobs[id] EXCEPT !.status = "succeeded", !.owner = NoOwner,
                           !.leasedUntil = NoLease].status = "succeeded"
      BY <2>1 DEF Row
    <2>3. jobs'[id].status = "succeeded"
      BY <1>4, <2>1, <2>2 DEF MarkPostprocessJobSucceeded, TypeOK
    <2>4. \A j \in Jobs : j # id => jobs'[j] = jobs[j]
      BY <1>4 DEF MarkPostprocessJobSucceeded, TypeOK
    <2>5. jobs' \in [Jobs -> Row]
      BY TypeStep DEF TypeOK
    <2> QED
      BY <1>4, <1>d, <2>3, <2>4, <2>5 DEF MarkPostprocessJobSucceeded
  <1>5. ASSUME NEW w \in Workers, MarkPostprocessJobFailed(w)
        PROVE  NoFaultNoCancel' /\ StrandedOnlyByFault'
    <2> DEFINE job == Head(batch[w])
    <2>1. job \in Snapshot /\ job.id \in Jobs /\ jobs[job.id] \in Row
      BY <1>5, HeldFirst, HeldElement DEF MarkPostprocessJobFailed, TypeOK
    <2>2. FailedRow(jobs[job.id], job).status # "running"
      BY <2>1, FailedRowFacts DEF TypeOK
    <2>3. jobs'[job.id].status # "running"
      BY <1>5, <2>1, <2>2 DEF MarkPostprocessJobFailed, TypeOK
    <2>4. \A j \in Jobs : j # job.id => jobs'[j] = jobs[j]
      BY <1>5 DEF MarkPostprocessJobFailed, TypeOK
    <2>5. jobs' \in [Jobs -> Row]
      BY TypeStep DEF TypeOK
    <2> QED
      BY <1>5, <1>d, <2>3, <2>4, <2>5 DEF MarkPostprocessJobFailed
  <1>6. ASSUME NEW w \in Workers, MarkLost(w)
        PROVE  NoFaultNoCancel' /\ StrandedOnlyByFault'
    <2>1. faults' # 0
      BY <1>6, <1>a DEF MarkLost
    <2> QED
      BY <2>1, <1>c
  <1>7. ASSUME NEW w \in Workers, WorkerReturn(w)
        PROVE  NoFaultNoCancel' /\ StrandedOnlyByFault'
    <2>1. faults' # 0
      BY <1>7, <1>a DEF WorkerReturn
    <2> QED
      BY <2>1, <1>c
  <1>8. ASSUME NEW p \in Processes, Stop(p) \/ Crash(p)
        PROVE  NoFaultNoCancel' /\ StrandedOnlyByFault'
    <2>1. faults' # 0
      BY <1>8, <1>a DEF Stop, Crash
    <2> QED
      BY <2>1, <1>c
  <1>9. ASSUME NEW p \in Processes, StartPostprocessWorkers(p)
        PROVE  NoFaultNoCancel' /\ StrandedOnlyByFault'
    <2>1. faults' # 0
      BY <1>9, <1>a DEF StartPostprocessWorkers
    <2> QED
      BY <2>1, <1>c
  <1>10. CASE Tick
    BY <1>10, <1>b, <1>c DEF Tick, Held
  <1>11. CASE UNCHANGED vars
    BY <1>11, <1>b, <1>c DEF vars, Held
  <1> QED
    BY <1>1, <1>2, <1>3, <1>4, <1>5, <1>6, <1>7, <1>8, <1>9, <1>10, <1>11
       DEF Next, WorkerStep

(* As long as no process stops and no update fails, every running job is held. *)
THEOREM StrandedOnlyByFaultCorrect == Spec => []StrandedOnlyByFault
  <1>1. Init => NoFaultNoCancel /\ StrandedOnlyByFault
    BY DEF Init, NoFaultNoCancel, StrandedOnlyByFault, Stranded, Absent
  <1> QED
    BY <1>1, TypeInit, TypeStep, StrandedStep, PTL DEF Spec

-----------------------------------------------------------------------------
(***************************************************************************)
(* What one step may do to the row of a job: enter the queue, be claimed,  *)
(* and be marked while a worker executes it.                               *)
(***************************************************************************)
Submitted(S) ==
    \E request \in Requests :
        /\ \A j \in S : jobs[j].status = "none" /\ jobs'[j] = QueuedRow(request)
        /\ \A j \in Jobs \ S : jobs'[j] = jobs[j]
        /\ runs' = runs

Taken(S) ==
    /\ \A j \in S : /\ jobs[j].status \in {"queued", "failed"}
                    /\ jobs'[j].status = "running"
                    /\ jobs'[j].attempts = jobs[j].attempts
                    /\ jobs'[j].max = jobs[j].max
    /\ \A j \in Jobs \ S : jobs'[j] = jobs[j]
    /\ runs' = runs

Marked(id) ==
    /\ jobs[id].status = "running"
    /\ jobs'[id].max = jobs[id].max
    /\ \/ jobs'[id].status = "succeeded" /\ jobs'[id].attempts = jobs[id].attempts
       \/ /\ jobs'[id].attempts = jobs[id].attempts + 1
          /\ jobs'[id].status =
                IF jobs[id].attempts + 1 >= jobs[id].max THEN "dead_letter" ELSE "failed"
    /\ \A j \in Jobs \ {id} : jobs'[j] = jobs[j]
    /\ runs' = runs

Begun(id) ==
    /\ jobs[id].status = "running"
    /\ jobs' = jobs
    /\ \A j \in Jobs \ {id} : runs'[j] = runs[j]

LEMMA TableStep ==
    ASSUME TypeOK, ExclusiveHold, [Next]_vars
    PROVE  \/ \E S \in SUBSET Jobs : Submitted(S) \/ Taken(S)
           \/ \E id \in Jobs : Marked(id) \/ Begun(id)
           \/ jobs' = jobs /\ runs' = runs
  <1> DEFINE Goal == \/ \E S \in SUBSET Jobs : Submitted(S) \/ Taken(S)
                     \/ \E id \in Jobs : Marked(id) \/ Begun(id)
                     \/ jobs' = jobs /\ runs' = runs
  <1>a. ASSUME NEW w \in Workers, pc[w] \in {"next", "exec"}
        PROVE  LET job == Head(batch[w])
               IN  /\ job \in Snapshot /\ job.id \in Jobs
                   /\ jobs[job.id] \in Row
                   /\ jobs[job.id].status = "running"
                   /\ jobs[job.id].attempts = job.attempts
                   /\ jobs[job.id].max = job.max
    <2>1. /\ 1 \in 1..Len(batch[w]) /\ Head(batch[w]) = batch[w][1]
          /\ batch[w][1] \in Snapshot /\ batch[w][1].id \in Jobs
      BY <1>a, HeldFirst, HeldElement
    <2> QED
      BY <2>1 DEF ExclusiveHold, TypeOK
  <1>1. ASSUME NEW S \in SUBSET Jobs, NEW request \in Requests,
               EnqueuePostprocessJobs(S, request)
        PROVE  Goal
    <2>1. Submitted(S)
      BY <1>1 DEF EnqueuePostprocessJobs, Submitted
    <2> QED
      BY <2>1
  <1>2. ASSUME NEW w \in Workers, ClaimPostprocessJobs(w)
        PROVE  Goal
    <2>1. PICK n, ids : ClaimEffect(w, n, ids)
      BY <1>2, ClaimFacts
    <2> DEFINE S == {ids[i] : i \in 1..n}
    <2>2. S \in SUBSET Jobs
      BY <2>1 DEF ClaimEffect
    <2>3. ASSUME NEW j \in S
          PROVE  /\ jobs[j].status \in {"queued", "failed"}
                 /\ jobs'[j].status = "running"
                 /\ jobs'[j].attempts = jobs[j].attempts
                 /\ jobs'[j].max = jobs[j].max
      <3>1. PICK i \in 1..n : ids[i] = j
        OBVIOUS
      <3>2. jobs'[j] = ClaimedRow(w, j) /\ Claimable(j)
        BY <2>1, <3>1 DEF ClaimEffect
      <3> QED
        BY <2>2, <3>2, ClaimedRowFacts DEF Claimable
    <2>4. \A j \in Jobs \ S : jobs'[j] = jobs[j]
      BY <2>1 DEF ClaimEffect
    <2>5. runs' = runs
      BY <1>2 DEF ClaimPostprocessJobs
    <2> HIDE DEF S
    <2>6. Taken(S)
      BY <2>3, <2>4, <2>5 DEF Taken
    <2> QED
      BY <2>2, <2>6
  <1>3. ASSUME NEW w \in Workers, Begin(w)
        PROVE  Goal
    <2>1. Begun(Head(batch[w]).id) /\ Head(batch[w]).id \in Jobs
      BY <1>3, <1>a DEF Begin, Begun, TypeOK
    <2> QED
      BY <2>1
  <1>4. ASSUME NEW w \in Workers, MarkPostprocessJobSucceeded(w)
        PROVE  Goal
    <2> DEFINE id == Head(batch[w]).id
               new == [jobs[id] EXCEPT !.status = "succeeded", !.owner = NoOwner, !.leasedUntil = NoLease]
    <2>1. id \in Jobs /\ jobs[id].status = "running" /\ jobs[id] \in Row
      BY <1>4, <1>a DEF MarkPostprocessJobSucceeded
    <2>2. new.status = "succeeded" /\ new.max = jobs[id].max /\ new.attempts = jobs[id].attempts
      BY <2>1 DEF Row
    <2>3. jobs' = [jobs EXCEPT ![id] = new] /\ runs' = runs
      BY <1>4 DEF MarkPostprocessJobSucceeded
    <2> HIDE DEF new
    <2>4. Marked(id)
      BY <2>1, <2>2, <2>3 DEF Marked, TypeOK
    <2> QED
      BY <2>1, <2>4
  <1>5. ASSUME NEW w \in Workers, MarkPostprocessJobFailed(w)
        PROVE  Goal
    <2> DEFINE job == Head(batch[w])
               new == FailedRow(jobs[job.id], job)
    <2>1. /\ job \in Snapshot /\ job.id \in Jobs
          /\ jobs[job.id] \in Row
          /\ jobs[job.id].status = "running"
          /\ jobs[job.id].attempts = job.attempts
          /\ jobs[job.id].max = job.max
      BY <1>5, <1>a DEF MarkPostprocessJobFailed
    <2>2. /\ new.attempts = job.attempts + 1
          /\ new.max = job.max
          /\ new.status = IF job.attempts + 1 >= job.max THEN "dead_letter" ELSE "failed"
      BY <2>1, FailedRowFacts DEF TypeOK
    <2>3. jobs' = [jobs EXCEPT ![job.id] = new] /\ runs' = runs
      BY <1>5 DEF MarkPostprocessJobFailed
    <2> HIDE DEF new
    <2>4. Marked(job.id)
      BY <2>1, <2>2, <2>3 DEF Marked, TypeOK
    <2> QED
      BY <2>1, <2>4
  <1>6. ASSUME NEW w \in Workers, MarkLost(w) \/ WorkerReturn(w)
        PROVE  Goal
    BY <1>6 DEF MarkLost, WorkerReturn
  <1>7. ASSUME NEW p \in Processes, Stop(p) \/ Crash(p) \/ StartPostprocessWorkers(p)
        PROVE  Goal
    BY <1>7 DEF Stop, Crash, StartPostprocessWorkers
  <1>8. CASE Tick
    BY <1>8 DEF Tick
  <1>9. CASE UNCHANGED vars
    BY <1>9 DEF vars
  <1> QED
    BY <1>1, <1>2, <1>3, <1>4, <1>5, <1>6, <1>7, <1>8, <1>9 DEF Next, WorkerStep

(* Succeeded and dead-lettered jobs never change again and never run again. *)
THEOREM SettledIsFinalCorrect == Spec => SettledIsFinal
  <1>1. TypeOK /\ ExclusiveHold /\ [Next]_vars =>
          [\A j \in Jobs : jobs[j].status \in {"succeeded", "dead_letter"} =>
              jobs'[j] = jobs[j] /\ runs'[j] = runs[j]]_vars
    <2> SUFFICES ASSUME TypeOK, ExclusiveHold, [Next]_vars,
                        NEW j \in Jobs, jobs[j].status \in {"succeeded", "dead_letter"}
                 PROVE  jobs'[j] = jobs[j] /\ runs'[j] = runs[j]
      OBVIOUS
    <2>1. ASSUME NEW S \in SUBSET Jobs, Submitted(S) \/ Taken(S)
          PROVE  jobs'[j] = jobs[j] /\ runs'[j] = runs[j]
      <3>1. j \notin S
        BY <2>1 DEF Submitted, Taken
      <3> QED
        BY <2>1, <3>1 DEF Submitted, Taken
    <2>2. ASSUME NEW id \in Jobs, Marked(id) \/ Begun(id)
          PROVE  jobs'[j] = jobs[j] /\ runs'[j] = runs[j]
      <3>1. j # id
        BY <2>2 DEF Marked, Begun
      <3> QED
        BY <2>2, <3>1 DEF Marked, Begun
    <2> QED
      BY <2>1, <2>2, TableStep
  <1>2. Init => ExclusiveHold
    BY EmptySeq DEF Init, ExclusiveHold
  <1> QED
    BY <1>1, <1>2, TypeInit, TypeStep, HoldStep, PTL DEF Spec, SettledIsFinal

(***************************************************************************)
(* The queue implements the lifecycle of JobLifecycle: every step of a     *)
(* worker, a process or the clock is one of its steps or leaves the        *)
(* statuses, failures and limits of all jobs alone.                        *)
(***************************************************************************)
THEOREM LifecycleCorrect == Spec => ImplementsLifecycle
  <1> DEFINE Phase == [j \in Jobs |-> jobs[j].status]
             Failures == [j \in Jobs |-> jobs[j].attempts]
             Limit == [j \in Jobs |-> jobs[j].max]
  <1>1. Init => Lifecycle!Init
    BY DEF Init, Absent, Lifecycle!Init
  <1>2. Init => ExclusiveHold /\ Account
    BY EmptySeq DEF Init, ExclusiveHold, Account, StatusAccount, Absent
  <1>3. TypeOK /\ ExclusiveHold /\ Account /\ [Next]_vars => [Lifecycle!Next]_(Lifecycle!lvars)
    <2> SUFFICES ASSUME TypeOK, ExclusiveHold, Account, [Next]_vars
                 PROVE  Lifecycle!Next \/ UNCHANGED Lifecycle!lvars
      OBVIOUS
    <2>1. ASSUME NEW S \in SUBSET Jobs, Submitted(S)
          PROVE  \E N \in SUBSET Jobs, n \in {EffectiveMaxAttempts(r) : r \in Requests} :
                    Lifecycle!Submit(N, n)
      <3>1. PICK request \in Requests :
               /\ \A j \in S : jobs[j].status = "none" /\ jobs'[j] = QueuedRow(request)
               /\ \A j \in Jobs \ S : jobs'[j] = jobs[j]
        BY <2>1 DEF Submitted
      <3> DEFINE m == EffectiveMaxAttempts(request)
      <3>2. m \in {EffectiveMaxAttempts(r) : r \in Requests}
        OBVIOUS
      <3>3. \A j \in S : /\ jobs[j].status = "none" /\ jobs[j].attempts = 0
                         /\ jobs'[j].status = "queued"
                         /\ jobs'[j].attempts = 0 /\ jobs'[j].max = m
        <4>1. \A j \in S : jobs[j].attempts = 0
          BY <3>1 DEF Account, StatusAccount
        <4>2. /\ QueuedRow(request).status = "queued"
              /\ QueuedRow(request).attempts = 0 /\ QueuedRow(request).max = m
          BY DEF QueuedRow
        <4> QED
          BY <3>1, <4>1, <4>2
      <3>4. /\ \A j \in S : Phase[j] = "none"
            /\ Phase' = [j \in Jobs |-> IF j \in S THEN "queued" ELSE Phase[j]]
            /\ Limit' = [j \in Jobs |-> IF j \in S THEN m ELSE Limit[j]]
            /\ Failures' = Failures
        BY <3>1, <3>3
      <3> QED
        BY <3>2, <3>4 DEF Lifecycle!Submit
    <2>2. ASSUME NEW S \in SUBSET Jobs, Taken(S)
          PROVE  \E C \in SUBSET Jobs : Lifecycle!Claim(C)
      <3>1. \A j \in S : jobs[j].attempts < jobs[j].max
        BY <2>2 DEF Taken, Account, StatusAccount
      <3>2. /\ \A j \in S : Phase[j] \in {"queued", "failed"} /\ Failures[j] < Limit[j]
            /\ Phase' = [j \in Jobs |-> IF j \in S THEN "running" ELSE Phase[j]]
            /\ Limit' = Limit
            /\ Failures' = Failures
        BY <2>2, <3>1 DEF Taken
      <3> QED
        BY <3>2 DEF Lifecycle!Claim
    <2>3. ASSUME NEW id \in Jobs, Marked(id)
          PROVE  Lifecycle!Succeed(id) \/ Lifecycle!Fail(id)
      <3>1. /\ Phase[id] = "running"
            /\ \A j \in Jobs \ {id} : jobs'[j] = jobs[j]
            /\ Limit' = Limit
        BY <2>3 DEF Marked
      <3>2. CASE jobs'[id].status = "succeeded" /\ jobs'[id].attempts = jobs[id].attempts
        <4>1. /\ Phase' = [Phase EXCEPT ![id] = "succeeded"]
              /\ Failures' = Failures
          BY <3>1, <3>2
        <4> QED
          BY <3>1, <4>1 DEF Lifecycle!Succeed
      <3>3. CASE /\ jobs'[id].attempts = jobs[id].attempts + 1
                 /\ jobs'[id].status =
                       IF jobs[id].attempts + 1 >= jobs[id].max THEN "dead_letter" ELSE "failed"
        <4>1. /\ Phase' = [Phase EXCEPT ![id] =
                              IF Failures[id] + 1 >= Limit[id] THEN "dead_letter" ELSE "failed"]
              /\ Failures' = [Failures EXCEPT ![id] = Failures[id] + 1]
          BY <3>1, <3>3
        <4> QED
          BY <3>1, <4>1 DEF Lifecycle!Fail
      <3> QED
        BY <2>3, <3>2, <3>3 DEF Marked
    <2>4. ASSUME jobs' = jobs
          PROVE  UNCHANGED Lifecycle!lvars
      BY <2>4 DEF Lifecycle!lvars
    <2> QED
      BY <2>1, <2>2, <2>3, <2>4, TableStep DEF Lifecycle!Next, Begun
  <1> QED
    BY <1>1, <1>2, <1>3, TypeInit, TypeStep, HoldStep, AccountStep, PTL
       DEF Spec, ImplementsLifecycle, Lifecycle!Spec

-----------------------------------------------------------------------------
(* A time is its second and its fraction. *)
LEMMA SecondFraction ==
    ASSUME NEW t \in Nat
    PROVE  /\ Second(t) \in Nat /\ Fraction(t) \in 0..(TicksPerSecond - 1)
           /\ t = TicksPerSecond * Second(t) + Fraction(t)
           /\ TextRank(t) \in 1..TicksPerSecond
  BY DurationAssumption DEF Second, Fraction, TextRank

(***************************************************************************)
(* How wrong the order of the stored text is: never by a whole second.     *)
(***************************************************************************)
LEMMA TextError ==
    ASSUME NEW a \in Nat, NEW b \in Nat
    PROVE  /\ TextLeq(a, b) => a < b + TicksPerSecond
           /\ a + TicksPerSecond <= b => TextLeq(a, b)
  <1> DEFINE T == TicksPerSecond
             sa == Second(a)
             sb == Second(b)
             fa == Fraction(a)
             fb == Fraction(b)
  <1>1. /\ T \in Nat \ {0} /\ sa \in Nat /\ sb \in Nat
        /\ fa \in 0..(T - 1) /\ fb \in 0..(T - 1)
        /\ a = T * sa + fa /\ b = T * sb + fb
    BY DurationAssumption, SecondFraction
  <1>2. TextLeq(a, b) => sa <= sb
    BY <1>1 DEF TextLeq
  <1>3. sa < sb => TextLeq(a, b)
    BY DEF TextLeq
  <1> HIDE DEF T, sa, sb, fa, fb
  <1>4. ASSUME NEW x \in Nat, NEW y \in Nat, x <= y
        PROVE  T * x <= T * y
    BY <1>1, <1>4
  <1>5. sa <= sb => a < b + T
    BY <1>1, <1>4
  <1>6. sb <= sa => ~ (a + T <= b)
    BY <1>1, <1>4
  <1> QED
    BY <1>1, <1>2, <1>3, <1>5, <1>6 DEF T

(* The order of the text is transitive. *)
LEMMA TextTransitive ==
    ASSUME NEW a \in Nat, NEW b \in Nat, NEW c \in Nat, TextLeq(a, b), TextLeq(b, c)
    PROVE  TextLeq(a, c)
  <1>1. ASSUME NEW t \in Nat
        PROVE  Second(t) \in Nat /\ TextRank(t) \in Nat
    <2>1. TextRank(t) \in 1..TicksPerSecond /\ TicksPerSecond \in Nat
      BY SecondFraction, DurationAssumption
    <2> QED
      BY <2>1, SecondFraction
  <1> QED
    BY <1>1 DEF TextLeq

(* A waiting job is under no lease, so only its time decides if it is claimable. *)
WaitingIsFree ==
    \A j \in Jobs : jobs[j].status \in {"queued", "failed"} => jobs[j].leasedUntil = NoLease

(* Only a claim makes a job running, and every step keeps waiting jobs free. *)
LEMMA WaitingStep ==
    ASSUME TypeOK, WaitingIsFree, [Next]_vars
    PROVE  /\ WaitingIsFree'
           /\ \A j \in Jobs : Claimed(j) => \E w \in Workers : ClaimPostprocessJobs(w)
  <1> DEFINE Quiet == /\ WaitingIsFree'
                      /\ \A j \in Jobs : ~ Claimed(j)
  <1>1. ASSUME NEW S \in SUBSET Jobs, NEW request \in Requests,
               EnqueuePostprocessJobs(S, request)
        PROVE  Quiet
    <2>1. /\ QueuedRow(request).status = "queued"
          /\ QueuedRow(request).leasedUntil = NoLease
      BY DEF QueuedRow
    <2>2. \A j \in Jobs : jobs'[j] = QueuedRow(request) \/ jobs'[j] = jobs[j]
      BY <1>1 DEF EnqueuePostprocessJobs
    <2> QED
      BY <2>1, <2>2 DEF WaitingIsFree, Claimed
  <1>2. ASSUME NEW w \in Workers, ClaimPostprocessJobs(w)
        PROVE  WaitingIsFree'
    <2>1. PICK n, ids : ClaimEffect(w, n, ids)
      BY <1>2, ClaimFacts
    <2>2. \A j \in Jobs : jobs'[j] = ClaimedRow(w, j) \/ jobs'[j] = jobs[j]
      BY <2>1 DEF ClaimEffect
    <2> QED
      BY <2>2, ClaimedRowFacts DEF WaitingIsFree
  <1>3. ASSUME jobs' = jobs
        PROVE  Quiet
    BY <1>3 DEF WaitingIsFree, Claimed
  <1>4. ASSUME NEW w \in Workers, MarkPostprocessJobSucceeded(w)
        PROVE  Quiet
    <2> DEFINE id == Head(batch[w]).id
               new == [jobs[id] EXCEPT !.status = "succeeded", !.owner = NoOwner, !.leasedUntil = NoLease]
    <2>1. id \in Jobs /\ jobs[id] \in Row
      BY <1>4, HeldFirst, HeldElement DEF MarkPostprocessJobSucceeded, TypeOK
    <2>2. new.status = "succeeded"
      BY <2>1 DEF Row
    <2>3. \A j \in Jobs : jobs'[j] = new \/ jobs'[j] = jobs[j]
      BY <1>4, <2>1 DEF MarkPostprocessJobSucceeded, TypeOK
    <2> HIDE DEF new
    <2> QED
      BY <2>2, <2>3 DEF WaitingIsFree, Claimed
  <1>5. ASSUME NEW w \in Workers, MarkPostprocessJobFailed(w)
        PROVE  Quiet
    <2> DEFINE job == Head(batch[w])
               new == FailedRow(jobs[job.id], job)
    <2>1. job \in Snapshot /\ job.id \in Jobs /\ jobs[job.id] \in Row
      BY <1>5, HeldFirst, HeldElement DEF MarkPostprocessJobFailed, TypeOK
    <2>2. new.status # "running" /\ new.leasedUntil = NoLease
      BY <2>1, FailedRowFacts DEF TypeOK
    <2>3. \A j \in Jobs : jobs'[j] = new \/ jobs'[j] = jobs[j]
      BY <1>5, <2>1 DEF MarkPostprocessJobFailed, TypeOK
    <2> HIDE DEF new
    <2> QED
      BY <2>2, <2>3 DEF WaitingIsFree, Claimed
  <1>6. ASSUME NEW w \in Workers, Begin(w) \/ MarkLost(w) \/ WorkerReturn(w)
        PROVE  jobs' = jobs
    BY <1>6 DEF Begin, MarkLost, WorkerReturn
  <1>7. ASSUME NEW p \in Processes, Stop(p) \/ Crash(p) \/ StartPostprocessWorkers(p)
        PROVE  jobs' = jobs
    BY <1>7 DEF Stop, Crash, StartPostprocessWorkers
  <1>8. Tick \/ UNCHANGED vars => jobs' = jobs
    BY DEF Tick, vars
  <1>9. (\E w \in Workers : ClaimPostprocessJobs(w)) \/ Quiet
    BY <1>1, <1>3, <1>4, <1>5, <1>6, <1>7, <1>8 DEF Next, WorkerStep
  <1> QED
    BY <1>2, <1>9

(***************************************************************************)
(* Claims follow availability up to a second, although SQL compares text.  *)
(***************************************************************************)
THEOREM ClaimsInTimeOrderCorrect == Spec => ClaimsInTimeOrder
  <1>1. TypeOK /\ WaitingIsFree /\ [Next]_vars =>
          [\A j \in Jobs : Claimed(j) =>
              /\ jobs[j].availableAt < now + TicksPerSecond
              /\ \A k \in Jobs :
                    /\ jobs[k].status \in {"queued", "failed"}
                    /\ jobs[k].availableAt + TicksPerSecond <= jobs[j].availableAt
                    => Claimed(k)]_vars
    <2> SUFFICES ASSUME TypeOK, WaitingIsFree, [Next]_vars, NEW j \in Jobs, Claimed(j)
                 PROVE  /\ jobs[j].availableAt < now + TicksPerSecond
                        /\ \A k \in Jobs :
                              /\ jobs[k].status \in {"queued", "failed"}
                              /\ jobs[k].availableAt + TicksPerSecond <= jobs[j].availableAt
                              => Claimed(k)
      OBVIOUS
    <2>a. now \in Nat /\ \A x \in Jobs : jobs[x].availableAt \in Nat
      BY DEF TypeOK, Row
    <2>1. PICK w \in Workers : ClaimPostprocessJobs(w)
      BY WaitingStep
    <2>2. PICK n, ids : ClaimEffect(w, n, ids)
      BY <2>1, ClaimFacts
    <2>3. PICK i \in 1..n : ids[i] = j
      BY <2>2 DEF ClaimEffect, Claimed
    <2>4. TextLeq(jobs[j].availableAt, now)
      BY <2>2, <2>3 DEF ClaimEffect, Claimable
    <2>5. jobs[j].availableAt < now + TicksPerSecond
      BY <2>a, <2>4, TextError
    <2>6. ASSUME NEW k \in Jobs, jobs[k].status \in {"queued", "failed"},
                 jobs[k].availableAt + TicksPerSecond <= jobs[j].availableAt
          PROVE  Claimed(k)
      <3>1. TextLeq(jobs[k].availableAt, jobs[j].availableAt)
        BY <2>a, <2>6, TextError
      <3>2. jobs[k].availableAt # jobs[j].availableAt
        BY <2>a, <2>6, DurationAssumption
      <3>3. ~ ClaimBefore(j, k)
        BY <3>1, <3>2 DEF ClaimBefore
      <3>4. TextLeq(jobs[k].availableAt, now)
        BY <2>a, <2>4, <3>1, TextTransitive
      <3>5. Claimable(k)
        BY <2>6, <3>4 DEF Claimable, WaitingIsFree
      <3>6. DOMAIN ids = 1..n /\ IsClaimList(ids)
        BY <2>2 DEF ClaimEffect
      <3>7. \E l \in 1..n : ids[l] = k
        BY <2>3, <3>3, <3>5, <3>6 DEF IsClaimList
      <3>8. jobs'[k] = ClaimedRow(w, k)
        BY <2>2, <3>7 DEF ClaimEffect
      <3> QED
        BY <2>6, <3>8, ClaimedRowFacts DEF Claimed
    <2> QED
      BY <2>5, <2>6
  <1>2. Init => WaitingIsFree
    BY DEF Init, WaitingIsFree, Absent
  <1>3. TypeOK /\ WaitingIsFree /\ [Next]_vars => WaitingIsFree'
    BY WaitingStep
  <1> QED
    BY <1>1, <1>2, <1>3, TypeInit, TypeStep, PTL DEF Spec, ClaimsInTimeOrder

=============================================================================
