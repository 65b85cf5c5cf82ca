-------------------------- MODULE PostprocessQueue --------------------------
(***************************************************************************)
(* The asynchronous postprocess queue: the table memory_postprocess_jobs   *)
(* (internal/repository/sqlite/memory_jobs.go) and the worker loops that   *)
(* drain it (internal/core/memory/postprocess_worker.go).                  *)
(*                                                                         *)
(* Several server processes (the REST API and the MCP server) may share    *)
(* one database file, each with its own workers.  SQLite runs one          *)
(* transaction at a time, so each repository call is one atomic step;      *)
(* everything between two calls interleaves.                               *)
(*                                                                         *)
(* The work a job stands for is abstract here: an execution may succeed or *)
(* fail.  AsyncPipeline composes this module with the job handlers.        *)
(***************************************************************************)
EXTENDS Integers, Sequences, Functions

CONSTANTS
    Jobs,               \* the (tenant, memory, job type) keys of the table
    Workers,            \* worker goroutines
    Processes,          \* server processes sharing the database
    ProcessOf,          \* [Workers -> Processes]
    NoOwner,            \* lease_owner = ''
    BatchSize,          \* PostprocessWorkerOptions.BatchSize, normalised
    Requests,           \* values callers pass as max_attempts
    DefaultMaxAttempts, \* used for a request <= 0
    Lease,              \* PostprocessWorkerOptions.Lease, in ticks
    RetryBase,          \* PostprocessWorkerOptions.RetryBase, in ticks
    RetryMax,           \* PostprocessWorkerOptions.RetryMax, in ticks
    TicksPerSecond,     \* resolution of the clock
    MaxFaults           \* bound on stops, crashes and lost updates

ASSUME ProcessesAssumption == ProcessOf \in [Workers -> Processes]
ASSUME OwnerAssumption == NoOwner \notin Workers
ASSUME BatchAssumption == BatchSize \in Nat \ {0}
ASSUME AttemptsAssumption == Requests \subseteq Int /\ DefaultMaxAttempts \in Nat \ {0}
\* normalizePostprocessWorkerOptions: positive durations, base at most max
ASSUME DurationAssumption ==
    /\ Lease \in Nat \ {0}
    /\ RetryBase \in Nat \ {0}
    /\ RetryMax \in Nat \ {0}
    /\ RetryBase <= RetryMax
    /\ TicksPerSecond \in Nat \ {0}
ASSUME FaultsAssumption == MaxFaults \in Nat

VARIABLES
    jobs,       \* the table: [Jobs -> Row]
    now,        \* the wall clock, in ticks
    pc,         \* [Workers -> {"poll", "next", "exec", "down"}], place in the worker loop
    batch,      \* [Workers -> Seq(Snapshot)], claimed jobs not finished, head first
    cancelled,  \* [Processes -> BOOLEAN], the workers' context is cancelled
    faults,     \* stops, crashes and lost updates so far
    runs        \* history: [Jobs -> Nat], executions begun

vars == <<jobs, now, pc, batch, cancelled, faults, runs>>

NoLease == -1

Statuses == {"none", "queued", "running", "succeeded", "failed", "dead_letter"}

Row == [status: Statuses, attempts: Nat, max: Nat, availableAt: Nat,
        createdAt: Nat, owner: Workers \cup {NoOwner}, leasedUntil: Int]

\* what a worker keeps of a row it claimed: the row as it was at the claim
Snapshot == [id: Jobs, attempts: Nat, max: Nat]

Absent == [status |-> "none", attempts |-> 0, max |-> 0, availableAt |-> 0,
           createdAt |-> 0, owner |-> NoOwner, leasedUntil |-> NoLease]

(***************************************************************************)
(* Times are stored as RFC3339Nano text, which drops trailing zeros, and   *)
(* SQL compares the text: "..:07Z" sorts after "..:07.5Z", because '.'     *)
(* precedes 'Z'.  So a whole second sorts after every fraction of itself.  *)
(* This is exact while no fraction's digits are a prefix of another's, as  *)
(* with 1, 2, 4, 5 or 10 ticks a second.                                   *)
(***************************************************************************)
Second(t) == t \div TicksPerSecond
Fraction(t) == t % TicksPerSecond
TextRank(t) == IF Fraction(t) = 0 THEN TicksPerSecond ELSE Fraction(t)

TextLeq(a, b) ==
    \/ Second(a) < Second(b)
    \/ Second(a) = Second(b) /\ TextRank(a) <= TextRank(b)

(***************************************************************************)
(* retryDelay: the base, doubled for every attempt after the first, until  *)
(* it would pass the maximum.                                              *)
(***************************************************************************)
retryDelay(attempt) ==
    LET doubled == RetryBase * 2^(attempt - 1)
    IN  IF attempt <= 1 THEN RetryBase
        ELSE IF doubled \in 0..RetryMax THEN doubled ELSE RetryMax

-----------------------------------------------------------------------------
Init ==
    /\ jobs = [j \in Jobs |-> Absent]
    /\ now \in 0..(TicksPerSecond - 1)
    /\ pc = [w \in Workers |-> "poll"]
    /\ batch = [w \in Workers |-> <<>>]
    /\ cancelled = [p \in Processes |-> FALSE]
    /\ faults = 0
    /\ runs = [j \in Jobs |-> 0]

EffectiveMaxAttempts(request) ==
    IF request <= 0 THEN DefaultMaxAttempts ELSE request

QueuedRow(request) ==
    [status |-> "queued", attempts |-> 0, max |-> EffectiveMaxAttempts(request),
     availableAt |-> now, createdAt |-> now, owner |-> NoOwner, leasedUntil |-> NoLease]

(***************************************************************************)
(* StoreBatchAsyncIngest and EnqueuePostprocessJobs: one transaction that  *)
(* upserts a set of rows.  Every caller enqueues jobs of memories it has   *)
(* just inserted, so the rows are new; a failed transaction changes none.  *)
(***************************************************************************)
EnqueuePostprocessJobs(S, request) ==
    /\ S # {}
    /\ \A j \in S : jobs[j].status = "none"
    /\ jobs' = [j \in Jobs |-> IF j \in S THEN QueuedRow(request) ELSE jobs[j]]
    /\ UNCHANGED <<now, pc, batch, cancelled, faults, runs>>

(***************************************************************************)
(* The claim query: available, waiting, and not under an unexpired lease.  *)
(***************************************************************************)
MutantClaimableAnyStatus(j) ==
    /\ jobs[j].status \in {"queued", "failed", "running"}
    /\ TextLeq(jobs[j].availableAt, now)
    /\ jobs[j].leasedUntil = NoLease \/ TextLeq(jobs[j].leasedUntil, now)

MutantClaimableQueuedOnly(j) ==
    /\ jobs[j].status = "queued"
    /\ TextLeq(jobs[j].availableAt, now)

MutantClaimableSettled(j) ==
    /\ jobs[j].status \notin {"none", "running"}
    /\ TextLeq(jobs[j].availableAt, now)

Claimable(j) ==
    /\ jobs[j].status \in {"queued", "failed"}
    /\ TextLeq(jobs[j].availableAt, now)
    /\ jobs[j].leasedUntil = NoLease \/ TextLeq(jobs[j].leasedUntil, now)

(* ORDER BY available_at ASC, created_at ASC, as text *)
ClaimBefore(j, k) ==
    \/ ~ TextLeq(jobs[k].availableAt, jobs[j].availableAt)
    \/ /\ jobs[j].availableAt = jobs[k].availableAt
       /\ TextLeq(jobs[j].createdAt, jobs[k].createdAt)

(* LIMIT BatchSize: ids lists the first claimable jobs in claim order. *)
MutantIsClaimList(ids) ==
    /\ \A i, k \in DOMAIN ids : i # k => ids[i] # ids[k]
    /\ \A i \in DOMAIN ids : Claimable(ids[i])

IsClaimList(ids) ==
    /\ \A i, k \in DOMAIN ids : i # k => ids[i] # ids[k]
    /\ \A i \in DOMAIN ids : Claimable(ids[i])
    /\ \A i, k \in DOMAIN ids : i < k => ClaimBefore(ids[i], ids[k])
    /\ \A j \in Jobs : Claimable(j) =>
          \/ \E i \in DOMAIN ids : ids[i] = j
          \/ Len(ids) = BatchSize /\ \A i \in DOMAIN ids : ClaimBefore(ids[i], j)

ClaimedRow(w, j) ==
    [jobs[j] EXCEPT !.status = "running", !.owner = w, !.leasedUntil = now + Lease]

SnapshotOf(j) == [id |-> j, attempts |-> jobs[j].attempts, max |-> jobs[j].max]

(***************************************************************************)
(* ClaimPostprocessJobs, called at the top of the worker loop.  With       *)
(* nothing to claim, or on an error, the worker sleeps and polls again.    *)
(***************************************************************************)
ClaimPostprocessJobs(w) ==
    /\ pc[w] = "poll"
    /\ ~ cancelled[ProcessOf[w]]
    /\ \E n \in 1..BatchSize : \E ids \in [1..n -> Jobs] :
          /\ IsClaimList(ids)
          /\ jobs' = [j \in Jobs |-> IF j \in Range(ids) THEN ClaimedRow(w, j) ELSE jobs[j]]
          /\ batch' = [batch EXCEPT ![w] = [i \in 1..n |-> SnapshotOf(ids[i])]]
    /\ pc' = [pc EXCEPT ![w] = "next"]
    /\ UNCHANGED <<now, cancelled, faults, runs>>

(* The loop over the claimed jobs: the context is checked before each one. *)
Begin(w) ==
    /\ pc[w] = "next"
    /\ ~ cancelled[ProcessOf[w]]
    /\ pc' = [pc EXCEPT ![w] = "exec"]
    /\ runs' = [runs EXCEPT ![Head(batch[w]).id] = @ + 1]
    /\ UNCHANGED <<jobs, now, batch, cancelled, faults>>

(* The worker moves on to its next claimed job, or polls again. *)
MutantAdvanceDrops(w) ==
    /\ batch' = [batch EXCEPT ![w] = <<>>]
    /\ pc' = [pc EXCEPT ![w] = "poll"]

MutantAdvanceStays(w) ==
    /\ batch' = [batch EXCEPT ![w] = Tail(batch[w])]
    /\ pc' = [pc EXCEPT ![w] = "next"]

Advance(w) ==
    /\ batch' = [batch EXCEPT ![w] = Tail(batch[w])]
    /\ pc' = [pc EXCEPT ![w] = IF Tail(batch[w]) = <<>> THEN "poll" ELSE "next"]

(* The execution returned nil: MarkPostprocessJobSucceeded, by id alone. *)
MarkPostprocessJobSucceeded(w) ==
    LET id == Head(batch[w]).id
    IN  /\ pc[w] = "exec"
        /\ ~ cancelled[ProcessOf[w]]
        /\ jobs' = [jobs EXCEPT ![id] = [jobs[id] EXCEPT
                        !.status = "succeeded", !.owner = NoOwner, !.leasedUntil = NoLease]]
        /\ Advance(w)
        /\ UNCHANGED <<now, cancelled, faults, runs>>

(***************************************************************************)
(* The execution failed: processPostprocessJob counts the attempt from the *)
(* row it claimed and MarkPostprocessJobFailed writes what it decided.     *)
(***************************************************************************)
MutantFailedRow(row, job) ==
    LET attempts == job.attempts + 1
        dead     == attempts > job.max
    IN  [row EXCEPT
            !.status      = IF dead THEN "dead_letter" ELSE "failed",
            !.attempts    = attempts,
            !.availableAt = IF dead THEN now ELSE now + retryDelay(attempts),
            !.owner       = NoOwner,
            !.leasedUntil = NoLease]

FailedRow(row, job) ==
    LET attempts == job.attempts + 1
        dead     == attempts >= job.max
    IN  [row EXCEPT
            !.status      = IF dead THEN "dead_letter" ELSE "failed",
            !.attempts    = attempts,
            !.availableAt = IF dead THEN now ELSE now + retryDelay(attempts),
            !.owner       = NoOwner,
            !.leasedUntil = NoLease]

MarkPostprocessJobFailed(w) ==
    LET job == Head(batch[w])
    IN  /\ pc[w] = "exec"
        /\ ~ cancelled[ProcessOf[w]]
        /\ jobs' = [jobs EXCEPT ![job.id] = FailedRow(jobs[job.id], job)]
        /\ Advance(w)
        /\ UNCHANGED <<now, cancelled, faults, runs>>

(***************************************************************************)
(* The mark returned an error, which is only logged: the context is        *)
(* cancelled, or the database refused the update.                          *)
(***************************************************************************)
MarkLost(w) ==
    /\ pc[w] = "exec"
    /\ \/ /\ cancelled[ProcessOf[w]]
          /\ UNCHANGED faults
       \/ /\ ~ cancelled[ProcessOf[w]]
          /\ faults < MaxFaults
          /\ faults' = faults + 1
    /\ Advance(w)
    /\ UNCHANGED <<jobs, now, cancelled, runs>>

(* A cancelled context ends the loop; jobs claimed and not begun are left. *)
WorkerReturn(w) ==
    /\ pc[w] \in {"poll", "next"}
    /\ cancelled[ProcessOf[w]]
    /\ pc' = [pc EXCEPT ![w] = "down"]
    /\ batch' = [batch EXCEPT ![w] = <<>>]
    /\ UNCHANGED <<jobs, now, cancelled, faults, runs>>

Running(p) == \E w \in Workers : ProcessOf[w] = p /\ pc[w] # "down"

(* The stop function of StartPostprocessWorkers: cancel, then wait. *)
Stop(p) ==
    /\ Running(p)
    /\ ~ cancelled[p]
    /\ faults < MaxFaults
    /\ faults' = faults + 1
    /\ cancelled' = [cancelled EXCEPT ![p] = TRUE]
    /\ UNCHANGED <<jobs, now, pc, batch, runs>>

(* The process dies: its goroutines vanish, the database stays. *)
Crash(p) ==
    /\ Running(p)
    /\ faults < MaxFaults
    /\ faults' = faults + 1
    /\ cancelled' = [cancelled EXCEPT ![p] = TRUE]
    /\ pc' = [w \in Workers |-> IF ProcessOf[w] = p THEN "down" ELSE pc[w]]
    /\ batch' = [w \in Workers |-> IF ProcessOf[w] = p THEN <<>> ELSE batch[w]]
    /\ UNCHANGED <<jobs, now, runs>>

(* StartPostprocessWorkers in a new process; nothing is recovered. *)
StartPostprocessWorkers(p) ==
    /\ cancelled[p]
    /\ ~ Running(p)
    /\ cancelled' = [cancelled EXCEPT ![p] = FALSE]
    /\ pc' = [w \in Workers |-> IF ProcessOf[w] = p THEN "poll" ELSE pc[w]]
    /\ UNCHANGED <<jobs, now, batch, faults, runs>>

(***************************************************************************)
(* The clock.  It advances while a stored deadline still lies ahead: past  *)
(* the last one, later times are alike for every query.                    *)
(***************************************************************************)
Ahead(t) == ~ TextLeq(t, now) \/ t > now

Tick ==
    /\ \E j \in Jobs :
          \/ jobs[j].status \in {"queued", "failed"} /\ Ahead(jobs[j].availableAt)
          \/ jobs[j].status = "running" /\ Ahead(jobs[j].leasedUntil)
    /\ now' = now + 1
    /\ UNCHANGED <<jobs, pc, batch, cancelled, faults, runs>>

WorkerStep(w) ==
    \/ ClaimPostprocessJobs(w)
    \/ Begin(w)
    \/ MarkPostprocessJobSucceeded(w)
    \/ MarkPostprocessJobFailed(w)
    \/ MarkLost(w)
    \/ WorkerReturn(w)

Next ==
    \/ \E S \in SUBSET Jobs, request \in Requests : EnqueuePostprocessJobs(S, request)
    \/ \E w \in Workers : WorkerStep(w)
    \/ \E p \in Processes : Stop(p) \/ Crash(p) \/ StartPostprocessWorkers(p)
    \/ Tick

Spec == Init /\ [][Next]_vars

(***************************************************************************)
(* A goroutine that can run eventually runs and every execution ends: the  *)
(* calls it makes are bounded by client timeouts.  Time passes.  Nothing   *)
(* obliges an operator to restart a process.                               *)
(***************************************************************************)
Fairness ==
    /\ \A w \in Workers : WF_vars(WorkerStep(w))
    /\ WF_vars(Tick)

FairSpec == Spec /\ Fairness

-----------------------------------------------------------------------------
(***************************************************************************)
(* Properties.                                                             *)
(***************************************************************************)

(* The table, the workers and the clock keep their types, and a worker has  *)
(* claimed jobs exactly while it is in the loop over them.                  *)
TypeOK ==
    /\ jobs \in [Jobs -> Row]
    /\ now \in Nat
    /\ pc \in [Workers -> {"poll", "next", "exec", "down"}]
    /\ batch \in [Workers -> Seq(Snapshot)]
    /\ \A w \in Workers : batch[w] # <<>> <=> pc[w] \in {"next", "exec"}
    /\ cancelled \in [Processes -> BOOLEAN]
    /\ faults \in 0..MaxFaults
    /\ runs \in [Jobs -> Nat]

(* Some worker has claimed j and not finished it. *)
Held(j) == \E w \in Workers : \E i \in 1..Len(batch[w]) : batch[w][i].id = j

(***************************************************************************)
(* No job is in the hands of two workers, or twice in those of one, and    *)
(* the copy a worker decides the next attempt from is still what the table *)
(* holds.  The marks go by id alone, with no check of the owner, so this   *)
(* rests on the claim query.                                               *)
(***************************************************************************)
ExclusiveHold ==
    \A w \in Workers : \A i \in 1..Len(batch[w]) :
        LET job == batch[w][i]
        IN  /\ jobs[job.id].status = "running"
            /\ jobs[job.id].owner = w
            /\ jobs[job.id].attempts = job.attempts
            /\ jobs[job.id].max = job.max
            /\ \A v \in Workers : \A k \in 1..Len(batch[v]) :
                  batch[v][k].id = job.id => v = w /\ k = i

(***************************************************************************)
(* max_attempts is exactly the number of executions a job may have: no job *)
(* is executed more often, a job is dead-lettered only when its attempts   *)
(* are used up, and a waiting one always has an attempt left.              *)
(***************************************************************************)
AttemptBudget ==
    \A j \in Jobs :
        LET row == jobs[j]
        IN  /\ runs[j] <= row.max
            /\ row.status = "dead_letter" => row.attempts = row.max /\ runs[j] = row.max
            /\ row.status \in {"queued", "failed"} => row.attempts < row.max
                                                   /\ runs[j] = row.attempts

(* A job marked running that no worker holds: nothing will ever finish it. *)
Stranded(j) == jobs[j].status = "running" /\ ~ Held(j)

(* Without a stop, a crash or a refused update no job is left running. *)
StrandedOnlyByFault == faults = 0 => \A j \in Jobs : ~ Stranded(j)

(* Succeeded and dead-lettered jobs are final, whatever the workers do.   *)
SettledIsFinal ==
    [][\A j \in Jobs : jobs[j].status \in {"succeeded", "dead_letter"} =>
            jobs'[j] = jobs[j] /\ runs'[j] = runs[j]]_vars

Claimed(j) == jobs[j].status # "running" /\ jobs'[j].status = "running"

(***************************************************************************)
(* The text comparison of times is wrong by less than a second: a retry is *)
(* not claimed a second or more before its delay is over, and a job is not *)
(* passed over for one that became available a second or more after it.    *)
(***************************************************************************)
ClaimsInTimeOrder ==
    [][\A j \in Jobs : Claimed(j) =>
            /\ jobs[j].availableAt < now + TicksPerSecond
            /\ \A k \in Jobs :
                  /\ jobs[k].status \in {"queued", "failed"}
                  /\ jobs[k].availableAt + TicksPerSecond <= jobs[j].availableAt
                  => Claimed(k)]_vars

(***************************************************************************)
(* A job accepted into the queue is not forgotten: it reaches a final      *)
(* state, unless a fault strands it or every worker goes down.             *)
(***************************************************************************)
AcceptedJobSettles ==
    \A j \in Jobs :
        jobs[j].status \in {"queued", "failed"} ~>
            \/ jobs[j].status \in {"succeeded", "dead_letter"}
            \/ Stranded(j)
            \/ \A w \in Workers : pc[w] = "down"

(***************************************************************************)
(* What "lease-based claiming" promises: a running job whose lease has run *)
(* out does not stay running while workers go on polling.                  *)
(***************************************************************************)
ExpiredLeaseIsReclaimed ==
    \A j \in Jobs :
        jobs[j].status = "running" /\ jobs[j].leasedUntil < now ~>
            \/ jobs[j].status # "running"
            \/ \A w \in Workers : pc[w] = "down"

(* The queue implements the lifecycle of its jobs. *)
Lifecycle == INSTANCE JobLifecycle WITH
    phase    <- [j \in Jobs |-> jobs[j].status],
    failures <- [j \in Jobs |-> jobs[j].attempts],
    limit    <- [j \in Jobs |-> jobs[j].max],
    Limits   <- {EffectiveMaxAttempts(request) : request \in Requests}

ImplementsLifecycle == Lifecycle!Spec

=============================================================================
