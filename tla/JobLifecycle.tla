---------------------------- MODULE JobLifecycle ----------------------------
(***************************************************************************)
(* What the postprocess queue promises about every job, with no workers,   *)
(* clock, leases or processes: a job is submitted once with a limit on its *)
(* tries, a try ends in success, in a retry or in the dead-letter state,   *)
(* and no job is tried more often than its limit.                          *)
(*                                                                         *)
(* PostprocessQueue implements this specification.  States are those of    *)
(* domain.PostprocessJobStatus; "none" is a job that has no row.           *)
(***************************************************************************)
EXTENDS Naturals

CONSTANTS
    Jobs,
    Limits      \* the numbers of tries a job may be given

VARIABLES
    phase,      \* [Jobs -> Phases]
    failures,   \* [Jobs -> Nat], tries that ended in an error
    limit       \* [Jobs -> Nat], tries allowed

lvars == <<phase, failures, limit>>

Phases == {"none", "queued", "running", "succeeded", "failed", "dead_letter"}

Init ==
    /\ phase = [j \in Jobs |-> "none"]
    /\ failures = [j \in Jobs |-> 0]
    /\ limit = [j \in Jobs |-> 0]

(* New jobs enter the queue together, with one limit. *)
Submit(S, m) ==
    /\ \A j \in S : phase[j] = "none"
    /\ phase' = [j \in Jobs |-> IF j \in S THEN "queued" ELSE phase[j]]
    /\ limit' = [j \in Jobs |-> IF j \in S THEN m ELSE limit[j]]
    /\ UNCHANGED failures

(* Jobs that wait, for their first try or for a retry, start a try.  *)
Claim(S) ==
    /\ \A j \in S : phase[j] \in {"queued", "failed"} /\ failures[j] < limit[j]
    /\ phase' = [j \in Jobs |-> IF j \in S THEN "running" ELSE phase[j]]
    /\ UNCHANGED <<failures, limit>>

Succeed(j) ==
    /\ phase[j] = "running"
    /\ phase' = [phase EXCEPT ![j] = "succeeded"]
    /\ UNCHANGED <<failures, limit>>

(* A failed try leaves the job for a retry exactly while tries remain. *)
Fail(j) ==
    /\ phase[j] = "running"
    /\ failures' = [failures EXCEPT ![j] = failures[j] + 1]
    /\ phase' = [phase EXCEPT ![j] =
                    IF failures[j] + 1 >= limit[j] THEN "dead_letter" ELSE "failed"]
    /\ UNCHANGED limit

Next ==
    \/ \E S \in SUBSET Jobs, m \in Limits : Submit(S, m)
    \/ \E S \in SUBSET Jobs : Claim(S)
    \/ \E j \in Jobs : Succeed(j) \/ Fail(j)

Spec == Init /\ [][Next]_lvars

=============================================================================
