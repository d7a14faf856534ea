---------------------------- MODULE ExportQueue ----------------------------
(***************************************************************************)
(* The export pipeline: the API stores a job row, consumers claim rows     *)
(* with FOR UPDATE SKIP LOCKED, upload an object and record the outcome,   *)
(* rows whose consumer died are released after the visibility timeout, and *)
(* the API mints download URLs for completed jobs.                         *)
(*                                                                         *)
(* Sources: internal/repository/export_repository.go (every statement),    *)
(* internal/service/export_service.go (Request, DownloadURL).  The         *)
(* consumer loop, exports.Worker, is not part of the repository: it is     *)
(* modelled from how cmd/worker, cmd/lambda-export and cmd/api configure   *)
(* and run it.                                                             *)
(***************************************************************************)
EXTENDS Integers, FiniteSets

CONSTANTS
    NumJobs,        \* bound: rows the API may create in a behaviour
    Workers,        \* consumers: in-process, cmd/worker tasks, Lambdas
    Tenants,
    BatchSize,      \* BatchSize[w]: the LIMIT of w's claims (5 for a worker,
                    \* 1 for a Lambda)
    MaxAttempts,    \* WorkerConfig.MaxAttempts
    ClaimBound,     \* bound: attempts are not counted beyond this value
    MayOverrun      \* may a consumer still hold a job whose visibility
                    \* timeout has expired?

ASSUME JobsAssumption == NumJobs \in Nat
ASSUME TenantsAssumption == Tenants # {}
ASSUME BatchAssumption == BatchSize \in [Workers -> Nat \ {0}]
ASSUME AttemptsAssumption == MaxAttempts \in Nat \ {0}   \* config.go:403
ASSUME BoundAssumption == ClaimBound \in Nat /\ ClaimBound >= MaxAttempts
ASSUME OverrunAssumption == MayOverrun \in BOOLEAN

VARIABLES
    row,            \* export_jobs
    stored,         \* jobs whose CSV is in the object store
    locked,         \* locked[w]: rows locked by w's open claim statement
    claim,          \* claim[w][j]: the attempts value ClaimQueued returned
                    \* to w for job j, or 0 when w does not hold j
    uploaded,       \* uploaded[w]: held jobs whose Put has returned
    urls            \* history: download URLs minted, <<tenant, job>>

vars == <<row, stored, locked, claim, uploaded, urls>>

\* ORDER BY created_at: jobs are numbered in creation order.
Jobs == 1..NumJobs

Status == {"queued", "processing", "completed", "failed"}
Terminal(s) == s \in {"completed", "failed"}

\* started_at relative to the cutoff of ReleaseStale: "old" is before it.
StartedAt == {"null", "recent", "old"}

\* finished_at is set; object_key is non-empty.  error, row_count and
\* size_bytes are payload no property tells apart.
Row == [status : Status \cup {"absent"}, tenant : Tenants, attempts : Nat,
        started : StartedAt, finished : BOOLEAN, key : BOOLEAN]

Holds(w, j) == claim[w][j] > 0
Idle(w) == locked[w] = {} /\ \A j \in Jobs : ~Holds(w, j)

\* A statement that writes one row waits while another holds its lock.
Unlocked(j) == \A w \in Workers : j \notin locked[w]

-----------------------------------------------------------------------------
(* Row images written by the repository's statements.                      *)

QueuedRow(t) ==
    [status |-> "queued", tenant |-> t, attempts |-> 0, started |-> "null",
     finished |-> FALSE, key |-> FALSE]

\* No row yet; the other columns are placeholders.
AbsentRow == [QueuedRow(CHOOSE t \in Tenants : TRUE) EXCEPT !.status = "absent"]

ClaimedRow_StartNotStamped(r) ==
    [r EXCEPT !.status = "processing", !.attempts = @ + 1]

ClaimedRow(r) ==
    [r EXCEPT !.status = "processing", !.attempts = @ + 1,
              !.started = "recent"]

CompletedRow(r) ==
    [r EXCEPT !.status = "completed", !.key = TRUE, !.finished = TRUE]

FailedRow_UnknownStatus(r) ==
    [r EXCEPT !.status = "error", !.finished = TRUE]

FailedRow(r) == [r EXCEPT !.status = "failed", !.finished = TRUE]

RequeuedRow(r) == [r EXCEPT !.status = "queued", !.started = "null"]

ReleasedRow(r) ==
    IF r.attempts >= MaxAttempts
    THEN [r EXCEPT !.status = "failed", !.finished = TRUE, !.started = "null"]
    ELSE [r EXCEPT !.status = "queued", !.finished = FALSE, !.started = "null"]

-----------------------------------------------------------------------------
Init ==
    /\ row = [j \in Jobs |-> AbsentRow]
    /\ stored = {}
    /\ locked = [w \in Workers |-> {}]
    /\ claim = [w \in Workers |-> [j \in Jobs |-> 0]]
    /\ uploaded = [w \in Workers |-> {}]
    /\ urls = {}

(* The API *****************************************************************)

\* ExportService.Request with a valid scope and valid filters.  An invalid
\* request stores nothing.  The notification is ExportNotify's concern.
Request(t) ==
    /\ \E j \in Jobs :
          /\ row[j].status = "absent"
          /\ \A k \in Jobs : k < j => row[k].status # "absent"
          /\ row' = [row EXCEPT ![j] = QueuedRow(t)]
    /\ UNCHANGED <<stored, locked, claim, uploaded, urls>>

\* DownloadURL reading the job with GetByID, which has no tenant predicate.
DownloadURL_Unscoped(t, j) ==
    /\ row[j].status = "completed"
    /\ row[j].key
    /\ urls' = urls \cup {<<t, j>>}
    /\ UNCHANGED <<row, stored, locked, claim, uploaded>>

\* ExportService.DownloadURL: a row of another tenant is not found, a row
\* that is not completed is a conflict, an empty key an internal error.
DownloadURL(t, j) ==
    /\ row[j].tenant = t
    /\ row[j].status = "completed"
    /\ row[j].key
    /\ urls' = urls \cup {<<t, j>>}
    /\ UNCHANGED <<row, stored, locked, claim, uploaded>>

(* The consumers ***********************************************************)

\* The claim's CTE without SKIP LOCKED.
Claimable_NoSkip(w) ==
    {j \in Jobs : row[j].status = "queued" /\ row[j].attempts < ClaimBound}

\* The rows the claim's CTE may lock: queued, and skipping locked ones.
Claimable(w) ==
    {j \in Jobs : /\ row[j].status = "queued"
                  /\ \A v \in Workers \ {w} : j \notin locked[v]
                  /\ row[j].attempts < ClaimBound}

\* ORDER BY created_at LIMIT n.
Oldest(S, n) == {j \in S : Cardinality({k \in S : k < j}) < n}

\* ClaimQueued, first half: SELECT ... FOR UPDATE SKIP LOCKED.  A poll that
\* finds nothing to claim changes nothing.
ClaimLock(w) ==
    /\ Idle(w)
    /\ locked' = [locked EXCEPT ![w] = Oldest(Claimable(w), BatchSize[w])]
    /\ UNCHANGED <<row, stored, claim, uploaded, urls>>

\* ClaimQueued, second half: the UPDATE commits.  The rows reach the
\* consumer unless the connection fails while they are being read.
ClaimCommit(w) ==
    /\ locked[w] # {}
    /\ row' = [j \in Jobs |-> IF j \in locked[w] THEN ClaimedRow(row[j])
                                                 ELSE row[j]]
    /\ \/ claim' = [claim EXCEPT ![w] =
                      [j \in Jobs |-> IF j \in locked[w]
                                      THEN row[j].attempts + 1 ELSE 0]]
       \/ UNCHANGED claim
    /\ locked' = [locked EXCEPT ![w] = {}]
    /\ UNCHANGED <<stored, uploaded, urls>>

\* ObjectStore.Put returned: the temporary file is in the object store.
Upload(w, j) ==
    /\ Holds(w, j)
    /\ j \notin uploaded[w]
    /\ uploaded' = [uploaded EXCEPT ![w] = @ \cup {j}]
    /\ stored' = stored \cup {j}
    /\ UNCHANGED <<row, locked, claim, urls>>

\* w is done with j.
Drop(w, j) ==
    /\ claim' = [claim EXCEPT ![w][j] = 0]
    /\ uploaded' = [uploaded EXCEPT ![w] = @ \ {j}]
    /\ UNCHANGED <<stored, locked, urls>>

Complete_BeforeUpload(w, j) ==
    /\ Holds(w, j)
    /\ Unlocked(j)
    /\ row' = [row EXCEPT ![j] = CompletedRow(@)]
    /\ Drop(w, j)

\* MarkCompleted: UPDATE ... WHERE id = $1, whatever the row's status is.
Complete(w, j) ==
    /\ j \in uploaded[w]
    /\ Unlocked(j)
    /\ row' = [row EXCEPT ![j] = CompletedRow(@)]
    /\ Drop(w, j)

Fail_GivesUpEarly(w, j) ==
    /\ Holds(w, j)
    /\ j \notin uploaded[w]
    /\ Unlocked(j)
    /\ row' = [row EXCEPT ![j] = FailedRow(@)]
    /\ Drop(w, j)

\* Generating or uploading failed: Requeue while attempts remain, else
\* MarkFailed.  Both are UPDATE ... WHERE id = $1, and the attempts compared
\* are those of the claim, not those of the row.
Fail(w, j) ==
    /\ Holds(w, j)
    /\ j \notin uploaded[w]
    /\ Unlocked(j)
    /\ row' = [row EXCEPT ![j] = IF claim[w][j] < MaxAttempts
                                 THEN RequeuedRow(@) ELSE FailedRow(@)]
    /\ Drop(w, j)

\* The write that would have recorded the outcome failed, or a shutdown
\* cancelled the context: the row stays as it is.
Abandon(w, j) ==
    /\ Holds(w, j)
    /\ Drop(w, j)
    /\ UNCHANGED row

\* The consumer's process dies and is replaced: its statement is rolled
\* back, its batch forgotten, its rows and objects stay.
Crash(w) ==
    /\ ~Idle(w)
    /\ locked' = [locked EXCEPT ![w] = {}]
    /\ claim' = [claim EXCEPT ![w] = [j \in Jobs |-> 0]]
    /\ uploaded' = [uploaded EXCEPT ![w] = {}]
    /\ UNCHANGED <<row, stored, urls>>

(* Time and recovery *******************************************************)

\* started_at of a claimed row falls behind now() - VisibilityTimeout.
VisibilityExpires(j) ==
    /\ row[j].status = "processing"
    /\ row[j].started = "recent"
    /\ MayOverrun \/ \A w \in Workers : ~Holds(w, j)
    /\ row' = [row EXCEPT ![j].started = "old"]
    /\ UNCHANGED <<stored, locked, claim, uploaded, urls>>

StaleJobs == {j \in Jobs : row[j].status = "processing" /\ row[j].started = "old"}

\* ReleaseStale, which a consumer runs between two batches.
ReleaseStale(w) ==
    /\ Idle(w)
    /\ row' = [j \in Jobs |-> IF j \in StaleJobs THEN ReleasedRow(row[j])
                                                 ELSE row[j]]
    /\ UNCHANGED <<stored, locked, claim, uploaded, urls>>

-----------------------------------------------------------------------------
Settle(w, j) == Upload(w, j) \/ Complete(w, j) \/ Fail(w, j) \/ Abandon(w, j)

Next ==
    \/ \E t \in Tenants : Request(t)
    \/ \E t \in Tenants, j \in Jobs : DownloadURL(t, j)
    \/ \E w \in Workers : ClaimLock(w)
    \/ \E w \in Workers : ClaimCommit(w)
    \/ \E w \in Workers, j \in Jobs : Settle(w, j)
    \/ \E w \in Workers : Crash(w)
    \/ \E j \in Jobs : VisibilityExpires(j)
    \/ \E w \in Workers : ReleaseStale(w)

\* Consumers poll forever, a held job is eventually settled, and time
\* passes.  A claim is not cut off by a crash every time it is tried.
Fairness ==
    /\ \A w \in Workers : WF_vars(ClaimLock(w))
    /\ \A w \in Workers : SF_vars(ClaimCommit(w))
    /\ \A w \in Workers, j \in Jobs : WF_vars(Settle(w, j))
    /\ \A w \in Workers : WF_vars(ReleaseStale(w))
    /\ \A j \in Jobs : WF_vars(VisibilityExpires(j))

Spec == Init /\ [][Next]_vars
FairSpec == Spec /\ Fairness

-----------------------------------------------------------------------------
(* Properties **************************************************************)

\* Every variable keeps its type: in particular the statements write only
\* statuses the CHECK constraint of export_jobs admits.
TypeOK ==
    /\ row \in [Jobs -> Row]
    /\ stored \subseteq Jobs
    /\ locked \in [Workers -> SUBSET Jobs]
    /\ claim \in [Workers -> [Jobs -> Nat]]
    /\ uploaded \in [Workers -> SUBSET Jobs]
    /\ urls \subseteq Tenants \X Jobs

\* "No window where two workers generate the same export": at any time at
\* most one consumer holds a job (the comment of ClaimQueued).
NoDuplicateWork ==
    \A j \in Jobs : \A w, v \in Workers : Holds(w, j) /\ Holds(v, j) => w = v

\* The retry budget: no job is handed out more than MaxAttempts times, a
\* queued job has an attempt left, and only an exhausted job has failed.
RetryBudget ==
    \A j \in Jobs :
        /\ row[j].attempts <= MaxAttempts
        /\ row[j].status \in {"absent", "queued"} => row[j].attempts < MaxAttempts
        /\ row[j].status = "failed" => row[j].attempts = MaxAttempts

\* started_at and finished_at agree with the status after every mix of
\* claims, retries and releases, which set them in five statements.
TimestampsMatchStatus ==
    \A j \in Jobs :
        /\ row[j].status = "queued" => row[j].started = "null"
        /\ row[j].status = "processing" => row[j].started # "null"
        /\ row[j].finished <=> Terminal(row[j].status)

\* A completed job has an object to download: MarkCompleted is only reached
\* after Put, and no later statement takes the key away.
CompletedHasObject ==
    \A j \in Jobs : row[j].status = "completed" => row[j].key /\ j \in stored

\* A download URL was minted for the tenant that owns the job, and the job
\* behind every URL ever minted is still completed and still has its object.
DownloadsStayValid ==
    \A u \in urls : /\ row[u[2]].tenant = u[1]
                    /\ row[u[2]].status = "completed"
                    /\ u[2] \in stored

\* ExportStatus.Terminal: "no further transition is possible" once a job is
\* completed or failed; nor does any column of its row change.
TerminalIsFinal ==
    [][\A j \in Jobs : Terminal(row[j].status) => row'[j] = row[j]]_vars

\* The rows follow the state machine of models.ExportStatus.
Lifecycle == INSTANCE ExportLifecycle WITH
    status <- [j \in Jobs |-> row[j].status],
    attempts <- [j \in Jobs |-> row[j].attempts]

ImplementsLifecycle == Lifecycle!Spec

\* "The export is late, not lost": a stored job reaches a terminal status
\* although consumers may crash forever.
EveryJobFinishes ==
    \A j \in Jobs : (row[j].status = "queued") ~> Terminal(row[j].status)
=============================================================================
