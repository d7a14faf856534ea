-------------------------- MODULE ExportLifecycle --------------------------
(***************************************************************************)
(* What a usage export promises its tenant: the state machine drawn in the *)
(* comment of models.ExportStatus.                                         *)
(*                                                                         *)
(*     queued -> processing -> completed                                   *)
(*                    +------> queued    (attempts remaining)              *)
(*                    +------> failed    (attempts exhausted)              *)
(*                                                                         *)
(* No queue, no consumers and no clock: only what the rows may do.  A step *)
(* may move several jobs, because one UPDATE statement may.                *)
(***************************************************************************)
EXTENDS Naturals

CONSTANTS
    Jobs,           \* export jobs
    MaxAttempts     \* claims a job may consume (EXPORT_MAX_ATTEMPTS)

VARIABLES
    status,         \* status[j]: "absent" until the job is requested
    attempts        \* attempts[j]: how often j has been handed to a consumer

vars == <<status, attempts>>

Terminal(s) == s \in {"completed", "failed"}

Init ==
    /\ status = [j \in Jobs |-> "absent"]
    /\ attempts = [j \in Jobs |-> 0]

\* The job is stored on behalf of a tenant.
Enqueue(j) ==
    /\ status[j] = "absent"
    /\ status'[j] = "queued"
    /\ attempts'[j] = attempts[j]

\* A consumer takes the job, which costs one attempt.
Start(j) ==
    /\ status[j] = "queued"
    /\ status'[j] = "processing"
    /\ attempts'[j] = attempts[j] + 1

\* The attempt ends: with a result, with a retry, or for good.
Finish(j) ==
    /\ status[j] = "processing"
    /\ \/ status'[j] = "completed"
       \/ status'[j] = "queued" /\ attempts[j] < MaxAttempts
       \/ status'[j] = "failed" /\ attempts[j] = MaxAttempts
    /\ attempts'[j] = attempts[j]

Stay(j) == status'[j] = status[j] /\ attempts'[j] = attempts[j]

Next ==
    /\ status' = [j \in Jobs |-> status'[j]]
    /\ attempts' = [j \in Jobs |-> attempts'[j]]
    /\ \A j \in Jobs : Enqueue(j) \/ Start(j) \/ Finish(j) \/ Stay(j)

Spec == Init /\ [][Next]_vars
=============================================================================
