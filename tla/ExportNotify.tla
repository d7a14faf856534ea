---------------------------- MODULE ExportNotify ----------------------------
(***************************************************************************)
(* The notifications of the export pipeline and the Lambda that consumes   *)
(* them.  The API stores a job and then tries to publish a pointer to it;  *)
(* SQS delivers the message at least once, hides it while it is handled,   *)
(* and gives up on it after MaxReceive deliveries; an invocation of the    *)
(* Lambda runs the export worker once, on whichever job is the oldest.     *)
(* Three clocks run against each other: the Lambda's timeout, the job's    *)
(* visibility timeout and the message's.                                   *)
(*                                                                         *)
(* Sources: internal/service/export_service.go (Request),                  *)
(* internal/cloud/sqs.go, cmd/lambda-export/main.go, and the constants of  *)
(* infra/terraform/sqs.tf and lambda.tf.  Statements of the job table are  *)
(* ExportQueue's; here each is one step.  The mapping of SQS to Lambda     *)
(* (batch_size = 1) and exports.Worker.RunOnce are external.               *)
(***************************************************************************)
EXTENDS Integers, FiniteSets

CONSTANTS
    NumJobs,            \* bound: jobs requested in a behaviour
    Lambdas,            \* execution environments of the Lambda
    Pollers,            \* cmd/worker tasks and in-process workers
    MaxAttempts,        \* WorkerConfig.MaxAttempts
    MaxReceive,         \* maxReceiveCount of the queue
    LambdaTimeout,      \* timeout of the Lambda, in units of time
    JobVisibility,      \* WorkerConfig.VisibilityTimeout
    MessageVisibility   \* visibility_timeout_seconds of the queue

ASSUME JobsAssumption == NumJobs \in Nat
ASSUME ConsumersAssumption == Lambdas \cap Pollers = {}
ASSUME AttemptsAssumption == MaxAttempts \in Nat \ {0}
ASSUME ReceiveAssumption == MaxReceive \in Nat \ {0}
ASSUME TimeoutsAssumption ==
    /\ LambdaTimeout \in Nat /\ JobVisibility \in Nat /\ MessageVisibility \in Nat
    /\ LambdaTimeout <= JobVisibility       \* 600 s and 10 minutes

Consumers == Lambdas \cup Pollers
Jobs == 1..NumJobs

\* The message about a job has the job's number; Foreign is a message with a
\* body that does not parse, which something else put into the queue.
Foreign == 0
Messages == Jobs \cup {Foreign}

\* age: since started_at, while the job is processing.
Job == [status : {"absent", "queued", "processing", "completed", "failed"},
        attempts : Nat, age : Nat]

\* n: the receive count.  age: since the last delivery, while hidden.
Message == [at : {"none", "visible", "hidden", "deleted", "dead"},
            n : 0..MaxReceive, age : Nat]

\* msg: the message of a Lambda's invocation.  job, tries: what ClaimQueued
\* returned.  age: since the invocation began.  ok: RunOnce's error is nil.
Run == [at : {"start", "claim", "work", "report"}, msg : Messages,
        job : 0..NumJobs, tries : Nat, age : Nat, ok : BOOLEAN]
Idle == [at |-> "idle", job |-> 0, age |-> 0]

VARIABLES
    job,            \* export_jobs
    posting,        \* jobs whose request is about to publish
    msg,            \* the queue and its dead-letter queue
    run             \* run[c]: the call of RunOnce that c is in

vars == <<job, posting, msg, run>>

-----------------------------------------------------------------------------
Init ==
    /\ job = [j \in Jobs |-> [status |-> "absent", attempts |-> 0, age |-> 0]]
    /\ posting = {}
    /\ msg = [m \in Messages |->
                [at |-> IF m = Foreign THEN "visible" ELSE "none", n |-> 0, age |-> 0]]
    /\ run = [c \in Consumers |-> Idle]

(* The API *****************************************************************)

\* ExportService.Request up to the INSERT, which commits.
Request(j) ==
    /\ job[j].status = "absent"
    /\ \A k \in Jobs : k < j => job[k].status # "absent"
    /\ job' = [job EXCEPT ![j].status = "queued"]
    /\ posting' = posting \cup {j}
    /\ UNCHANGED <<msg, run>>

\* The rest of Request: SQSNotifier.Publish, or NoopNotifier's.  The message
\* is in the queue, or it is not: the credentials or the queue were not
\* available, there is no queue, or the API died first.
Publish(j) ==
    /\ j \in posting
    /\ posting' = posting \ {j}
    /\ \/ msg' = [msg EXCEPT ![j].at = "visible"]
       \/ UNCHANGED msg
    /\ UNCHANGED <<job, run>>

(* The queue ***************************************************************)

\* A run that has claimed nothing yet.
Began(s, m) ==
    [at |-> s, msg |-> m, job |-> 0, tries |-> 0, age |-> 0, ok |-> TRUE]

\* A delivery: of a visible message, or once more of one that is hidden, as
\* SQS delivers at least once.
Receive(c, m) ==
    /\ c \in Lambdas /\ run[c] = Idle
    /\ msg[m].at \in {"visible", "hidden"} /\ msg[m].n < MaxReceive
    /\ msg' = [msg EXCEPT ![m] = [at |-> "hidden", n |-> @.n + 1, age |-> 0]]
    /\ run' = [run EXCEPT ![c] = Began("start", m)]
    /\ UNCHANGED <<job, posting>>

\* A message that comes back as if it had never been delivered.
Reappear_Forgets(m) ==
    /\ msg[m].at = "hidden" /\ msg[m].age >= MessageVisibility
    /\ msg' = [msg EXCEPT ![m] = [at |-> "visible", n |-> 0, age |-> 0]]
    /\ UNCHANGED <<job, posting, run>>

\* The message was not deleted in time.
Reappear(m) ==
    /\ msg[m].at = "hidden" /\ msg[m].age >= MessageVisibility
    /\ msg' = [msg EXCEPT ![m] = [@ EXCEPT !.at = "visible", !.age = 0]]
    /\ UNCHANGED <<job, posting, run>>

\* The redrive policy, when the message would be delivered once more.
DeadLetter(m) ==
    /\ msg[m].at = "visible" /\ msg[m].n = MaxReceive
    /\ msg' = [msg EXCEPT ![m].at = "dead"]
    /\ UNCHANGED <<job, posting, run>>

(* exports.Worker.RunOnce **************************************************)

\* A poller may begin at any time, a Lambda when handle calls RunOnce.
MayBegin(c) ==
    IF c \in Pollers THEN run[c] = Idle
                     ELSE run[c].at = "start" /\ run[c].msg # Foreign

Return(c, ok) ==
    run' = [run EXCEPT ![c] = IF c \in Lambdas
                              THEN [@ EXCEPT !.at = "report", !.job = 0,
                                             !.tries = 0, !.ok = ok]
                              ELSE Idle]

\* Stale when the timeout has just been reached.
Stale_Inclusive(j) == job[j].status = "processing" /\ job[j].age >= JobVisibility

\* started_at < now() - the visibility timeout.
Stale(j) == job[j].status = "processing" /\ job[j].age > JobVisibility

\* A release that passes over exhausted jobs.
Released_WithinBudget(row) ==
    IF row.attempts >= MaxAttempts THEN row
    ELSE [row EXCEPT !.status = "queued", !.age = 0]

Released(row) ==
    [row EXCEPT !.status = IF row.attempts >= MaxAttempts THEN "failed" ELSE "queued",
                !.age = 0]

ReleaseStale(c) ==
    /\ MayBegin(c)
    /\ job' = [j \in Jobs |-> IF Stale(j) THEN Released(job[j]) ELSE job[j]]
    /\ run' = [run EXCEPT ![c] =
                 IF c \in Pollers THEN Began("claim", Foreign)
                                  ELSE [@ EXCEPT !.at = "claim"]]
    /\ UNCHANGED <<posting, msg>>

Queued == {j \in Jobs : job[j].status = "queued"}

ClaimedRow_UnknownStatus(row) ==
    [status |-> "claimed", attempts |-> row.attempts + 1, age |-> 0]

ClaimedRow(row) ==
    [status |-> "processing", attempts |-> row.attempts + 1, age |-> 0]

\* ClaimQueued takes the oldest queued job, whatever the message is about.
Claim(c) ==
    /\ run[c].at = "claim"
    /\ \E j \in Queued :
          /\ \A k \in Queued : j <= k
          /\ job' = [job EXCEPT ![j] = ClaimedRow(@)]
          /\ run' = [run EXCEPT ![c] = [@ EXCEPT !.at = "work", !.job = j,
                                                 !.tries = job[j].attempts + 1]]
    /\ UNCHANGED <<posting, msg>>

\* "The second one finds nothing to claim."
NothingToClaim(c) ==
    /\ run[c].at = "claim" /\ Queued = {}
    /\ Return(c, TRUE)
    /\ UNCHANGED <<job, posting, msg>>

\* A statement of RunOnce fails.  The job, if one was claimed, stays as it is.
RunOnceFails(c) ==
    /\ MayBegin(c) \/ run[c].at \in {"claim", "work"}
    /\ Return(c, FALSE)
    /\ UNCHANGED <<job, posting, msg>>

\* Settling that only gives up when the budget has been exceeded.
Outcomes_OneMore(c) ==
    {"completed", IF run[c].tries <= MaxAttempts THEN "queued" ELSE "failed"}

\* MarkCompleted; or, when the export could not be generated or uploaded,
\* Requeue or MarkFailed.
Outcomes(c) ==
    {"completed", IF run[c].tries < MaxAttempts THEN "queued" ELSE "failed"}

\* The outcome is written by the job's id.  Whether RunOnce returns the error
\* of a failed export is up to it.
Settle(c) ==
    /\ run[c].at = "work"
    /\ \E s \in Outcomes(c) :
          /\ job' = [job EXCEPT ![run[c].job] = [@ EXCEPT !.status = s, !.age = 0]]
          /\ \E ok \in BOOLEAN : (s = "completed" => ok) /\ Return(c, ok)
    /\ UNCHANGED <<posting, msg>>

(* The Lambda's runtime loop ***********************************************)

\* handle, when the only record of the batch does not parse: it is skipped,
\* and no failure reported.
Skip(c) ==
    /\ run[c].at = "start" /\ run[c].msg = Foreign
    /\ Return(c, TRUE)
    /\ UNCHANGED <<job, posting, msg>>

\* postResponse arrives: the message is deleted unless it is among the
\* batchItemFailures, in which case it stays hidden for the time being.
Respond(c) ==
    /\ run[c].at = "report"
    /\ msg' = IF run[c].ok /\ msg[run[c].msg].at # "dead"
              THEN [msg EXCEPT ![run[c].msg] = [@ EXCEPT !.at = "deleted", !.age = 0]]
              ELSE msg
    /\ run' = [run EXCEPT ![c] = Idle]
    /\ UNCHANGED <<job, posting>>

\* The process dies, is shut down, or, a Lambda, meets its timeout, or its
\* event cannot be fetched or its response is lost.
Die(c) ==
    /\ run[c] # Idle
    /\ run' = [run EXCEPT ![c] = Idle]
    /\ UNCHANGED <<job, posting, msg>>

\* A unit of time passes.  No invocation outlives the Lambda's timeout; that
\* no poller outlives its job's is ExportQueue's MayOverrun = FALSE.
Tick ==
    /\ \A c \in Lambdas : run[c] # Idle => run[c].age < LambdaTimeout
    /\ \A c \in Pollers : run[c].at = "work" => job[run[c].job].age < JobVisibility
    /\ job' = [j \in Jobs |->
                 IF job[j].status = "processing" /\ job[j].age <= JobVisibility
                 THEN [job[j] EXCEPT !.age = @ + 1] ELSE job[j]]
    /\ msg' = [m \in Messages |->
                 IF msg[m].at = "hidden" /\ msg[m].age < MessageVisibility
                 THEN [msg[m] EXCEPT !.age = @ + 1] ELSE msg[m]]
    /\ run' = [c \in Consumers |->
                 IF c \in Lambdas /\ run[c] # Idle
                 THEN [run[c] EXCEPT !.age = @ + 1] ELSE run[c]]
    /\ UNCHANGED posting

-----------------------------------------------------------------------------
Step(c) ==
    \/ ReleaseStale(c) \/ Claim(c) \/ NothingToClaim(c) \/ Settle(c)
    \/ Skip(c) \/ Respond(c)

Next ==
    \/ \E j \in Jobs : Request(j) \/ Publish(j)
    \/ \E c \in Consumers, m \in Messages : Receive(c, m)
    \/ \E m \in Messages : Reappear(m) \/ DeadLetter(m)
    \/ \E c \in Consumers : Step(c) \/ RunOnceFails(c) \/ Die(c)
    \/ Tick

Spec == Init /\ [][Next]_vars

\* A poller polls again and again and is not stopped or failed at the same
\* statement every time; a run ends, if only by its timeout; time passes; the
\* queue delivers.
Fairness ==
    /\ \A c \in Pollers : SF_vars(ReleaseStale(c)) /\ SF_vars(Claim(c))
    /\ \A c \in Consumers : WF_vars(Step(c) \/ Die(c))
    /\ WF_vars(Tick)
    /\ \A m \in Messages : /\ WF_vars(Reappear(m))
                           /\ WF_vars(DeadLetter(m))
                           /\ SF_vars(\E c \in Lambdas : Receive(c, m))

FairSpec == Spec /\ Fairness

-----------------------------------------------------------------------------
(* Properties **************************************************************)

\* Every variable keeps its type.
TypeOK ==
    /\ job \in [Jobs -> Job]
    /\ posting \subseteq Jobs
    /\ msg \in [Messages -> Message]
    /\ run \in [Consumers -> Run \cup {Idle}]

\* "Whichever consumer claims one owns it" (cmd/lambda-export): who works on
\* a job has the only claim on it, although the outcome is written by id and
\* the job's visibility timeout is no longer than the Lambda's timeout.
HoldersOwnTheirJobs ==
    \A c \in Consumers : run[c].job # 0 =>
        /\ job[run[c].job].status = "processing"
        /\ job[run[c].job].attempts = run[c].tries
        /\ \A d \in Consumers \ {c} : run[d].job # run[c].job

\* Duplicated, lost and repeated notifications do not show in the job table:
\* it follows the state machine of models.ExportStatus.
Lifecycle == INSTANCE ExportLifecycle WITH
    status <- [j \in Jobs |-> job[j].status],
    attempts <- [j \in Jobs |-> job[j].attempts]

ImplementsLifecycle == Lifecycle!Spec

\* "If the queue is unavailable or a message is lost, the job is still in the
\* table and still gets processed" (docs/AWS.md), provided somebody polls.
LateNotLost ==
    \A j \in Jobs : (job[j].status = "queued") ~> (job[j].status \in {"completed", "failed"})

\* No message is "retried forever" (infra/terraform/sqs.tf): handled or
\* failing, parsable or not, each leaves the queue.
MessagesLeave ==
    \A m \in Messages : (msg[m].at = "visible") ~> (msg[m].at \in {"deleted", "dead"})
=============================================================================
