# BridgeCore in TLA+

TLA+ models of BridgeCore, a multi-tenant API platform in Go (REST and
GraphQL over PostgreSQL, Redis, S3 and SQS), the TLC runs that check them on
small instances, and TLAPS proofs that hold for every instance.

Paths in this file are relative to the repository (`src/`).

## 1. The system

| Component | State | Operations | Talks to | What makes it correct |
|---|---|---|---|---|
| Export jobs (`internal/repository/export_repository.go`, `internal/service/export_service.go`) | `export_jobs` rows, objects in S3, download URLs | request, list, read, mint a URL; claim, complete, fail, requeue, release | consumers through the table; SQS as a wake-up | one consumer per job, bounded retries, final outcomes, URLs that work, no lost job |
| Export consumers (`cmd/worker`, `cmd/lambda-export`, in-process in `cmd/api`) | the batch in hand | release stale, claim, upload, record the outcome | export jobs, usage table, object store | survive crashes at any point |
| Users and roles (`internal/service/user_service.go`) | role and is_active of users | UpdateRole, SetActive | access tokens issued by sessions | the last admin stays; audit records tell the truth |
| Sessions (`internal/service/auth_service.go`, `refresh_token_repository.go`, `pkg/jwt`) | `refresh_tokens` rows | signup, login, refresh, logout | users, tenants | single use, no forked sessions, logout is complete |
| Tenants (`internal/service/tenant_service.go`) | plan, is_active, deleted_at | create, update (operator), rename (admin), delete | every request through `middleware.Auth` | operators' orders stand; suspension takes effect |
| Entitlements (`internal/service/entitlement_service.go`) | `tenant_features` | grant, gate, list | plan of the tenant | the gate joins plan and grant without admitting who never had the feature |
| Request chain (`internal/middleware`) | one request's context | Auth, RequireRole, RequireFeature, RateLimit, metering | all of the above | the order of the chain, what is read when |
| Rate limiter (`middleware/ratelimit.go`) | Redis counters per window | Incr, Expire | Redis | the limit per window, failing open, keys that expire |
| Usage metering (`middleware/usage.go`) | `usage_logs`, goroutines in flight | record after the response | shutdown | records attributed and not lost silently |
| API keys (`service/apikey_service.go`) | `api_keys` | generate, rotate, deactivate, authenticate | Auth | only a tenant's own keys change; a revoked key is dead; rotation is one operation |
| GraphQL cost limit (`graph/complexity.go`) | none | analyse and check a document | GraphQL handler | cost is what it is said to be and bounds the work, although integers wrap |
| GraphQL loader (`graph/dataloader.go`) | per-request cache | prime, load | tenants | one story per request, a current one, from one query |
| GraphQL resolvers (`graph/resolver.go`, `directives.go`, `handler.go`) | none | decorate, resolve | all services | no field is open to whom its REST route refuses |
| SQS and the Lambda (`internal/cloud/sqs.go`, `cmd/lambda-export`, `infra/terraform/sqs.tf`) | messages, receive counts, invocations | publish, receive, report, dead-letter | export jobs | notifications are hints: no job is lost with one, no message stays for ever |
| Migrations (`internal/database/migrate.go`) | `schema_migrations` | migrate at boot | database | each migration once and in order, also with several instances |
| Configuration and boot (`internal/config/config.go`, `cmd/*/main.go`, `bootstrap.go`) | one instance's boot | fetch secrets, load, validate, connect, migrate, listen, shut down | Secrets Manager, Postgres, Redis, ECS | never serve with what production refuses; come up again after every fault |
| Cloud credentials (`internal/cloud/credentials.go`) | cached credentials | retrieve | S3, SQS, Secrets Manager | cached answers are valid until they expire |
| Audit log, logging, responses, seed, the rest of the infrastructure | - | - | - | no behaviour of their own (see section 8) |

What is hard here: no service method opens a transaction, so every operation
that reads before it writes is a sequence of statements that other requests
interleave with; access tokens outlive the rows they were issued from;
consumers crash and are presumed dead by a clock; notifications are lost or
repeated; three timeouts race; instances of several releases boot and migrate
at once; two transports gate the same operations twice. PROJECT.json lists
each such hazard at the line where it bites.

## 2. Modules

| Module | Models |
|---|---|
| `ExportLifecycle` | what an export promises: the state machine drawn in the comment of `models.ExportStatus` |
| `ExportQueue` | the export pipeline: every statement of `ExportRepository`, the API's `Request` and `DownloadURL`, and the consumers |
| `ExportQueueProofs` | theorems about `ExportQueue`, including that it implements `ExportLifecycle` |
| `UserRoles`, `UserRolesProofs` | role and status changes under stale access tokens |
| `SessionLifecycle` | what a login promises: a session that is entered with one token at a time and is over for good once it ends |
| `Sessions`, `SessionsProofs` | refresh-token rotation and logout; implements `SessionLifecycle` |
| `TenantPlane`, `TenantPlaneProofs` | tenant rows written by operators and admins, read by every request |
| `RequestChain`, `RequestChainProofs` | requests on their way through authentication, rate limit, metering and gates to the API-key and export handlers |
| `ExportNotify`, `ExportNotifyProofs` | notifications through SQS and the Lambda that consumes them, next to polling workers, on an abstract clock; implements `ExportLifecycle` too |
| `GraphCost` | the static cost limit of GraphQL documents and two references for it, the promised cost and the work done; pure operators |
| `GraphRequest`, `GraphRequestProofs` | GraphQL requests from the document to the last field: limit, decorators, data loader, concurrent changes of tenants, plans and grants; extends `GraphCost` |
| `Boot`, `BootProofs` | secrets, configuration, connection, migrations, listening and shutdown of several instances at once, and the rolling deployment they may be part of |
| `MCExportQueue`, `MCExportNotify`, `MCUserRoles`, `MCSessions`, `MCTenantPlane`, `MCRequestChain`, `MCGraphRequest`, `MCBoot` | values for the constants of TLC's instances |

Definitions named `X_Something` beside a definition `X` are variants of `X`
with one plausible mistake. No specification uses them; substituting one for
`X` makes TLC report the property that guards against it (PROJECT.json,
"mutants").

### ExportQueue

- `row` is the table: status, tenant, attempts, `started_at` as null / recent /
  older than the visibility timeout, whether `finished_at` and `object_key` are
  set. Error text, counts and sizes are payload.
- `ClaimQueued` is two actions, because other statements run between the
  locking SELECT and the UPDATE: `ClaimLock` takes row locks (SKIP LOCKED:
  `Claimable` leaves out rows others have locked), `ClaimCommit` updates them
  and hands them to the consumer, or loses them when reading the result fails.
- `Complete`, `Fail` and `ReleaseStale` are `MarkCompleted`,
  `Requeue`/`MarkFailed` and `ReleaseStale`. The first two write `WHERE id =
  $1` whatever the row's status, as the code does.
- The worker loop (`exports.Worker`) is not part of the repository. It is
  modelled from its three callers: between two batches it releases stale jobs,
  then claims a batch, and for each job generates and uploads the object and
  records the outcome; a failed job is requeued while the attempts its claim
  returned are below `MaxAttempts`. `Abandon` is an outcome that could not be
  recorded or a shutdown, `Crash` the death of the process at any point.
- `MayOverrun` says whether a consumer may still hold a job whose visibility
  timeout has passed. Nothing in the code prevents it (no deadline in
  `cmd/worker`; a batch of five shares one `started_at`). The runs and most
  theorems assume FALSE; section 5 says what happens otherwise.

### UserRoles

A request is `Read` (the token says admin, the target is loaded), `CheckAdmins`
(only when an admin would be lost) and `Write`, as `UpdateRole` and `SetActive`
are. `adminToken` is the set of users who hold an unexpired access token that
says admin; demotion and deactivation do not take it away. `Overlap` says
whether two changes of one tenant's users may be in flight at once.

### Sessions

A refresh is `Refresh` (the presented token is found among the usable ones),
`ReadUser`, `Revoke` (its result ignored) and `Create`; a login is `Login` and
`Create`; `Logout` is one statement. A token's parent and family are history
variables. `Overlap` says whether requests about one user may interleave,
`RevokeMayFail` whether the revoking UPDATE may fail.

`Lifecycle` maps this to `SessionLifecycle`, which knows no users, rows or
requests. A session is named by its first token; it is `usable` while one of
its tokens is accepted, `exchanging` while a refresh has revoked the token it
was given and not stored the next one, and `over` when neither holds although
tokens of it are stored. `Revoke` is the abstract exchange and `Create` the
renewal; `Logout` ends several sessions in one statement; `Drop`, an expiry and
a logout that comes before the successor is stored are ends too.

### TenantPlane

An update is `UpdateTenant` (operator) or, after `Auth`, `UpdateForScope`
(admin), each reading the row and preparing the row to write, and `Write`,
which writes all of it. `Delete` is a single statement and interleaves with
everything. `ordered` is a history: plan and status as operators last got them
acknowledged. What a plan entitles to is `RequestChain`'s and `GraphRequest`'s.

### RequestChain

- `Chain` is the order of the layers in `cmd/api/routes.go`; `at` is the layer
  a request is in, `sub` the statement inside the layer. `Serve` is
  `next.ServeHTTP`, `Answer` a response, which starts the metering goroutine
  if it passes the metering layer on its way out.
- `RateLimit` is one action per command of Redis: `Incr`, with `IncrAgain` for
  a command the client library repeats after a lost reply and `IncrFails` for
  the error that fails open, then `Expire` for the first request of a window,
  whose error is discarded. Counters belong to an identity and a minute;
  `CounterExpires` is their TTL. `Gone` ends a request between any two
  statements, and takes what it was about to do with it. `made` is a history:
  the request's INCR created the counter. `CutOff` says that such a request was
  kept from setting the TTL, by a lost reply, an error or its own end.
- `Auth` reads the key and the plan, `RequireFeature` the grant; `Operate` is
  an operator changing either at any time. `grant` is the row of
  `tenant_features`; no row and a disabled one are one value, as
  `TenantHasFeature` answers both alike. `entitled` is a history: whether the
  tenant had the feature at some moment since.
- `Rotate` and `Deactivate` are `ReadKey`, `DeactivateKey` and, for a rotation,
  `CreateKey`, which is also `Generate`. Each may fail with or without its
  effect.
- Bounds in the model: `Faults` limits how often Redis or a statement fails in
  a behaviour (`MetFault`, `MayFail`), and a command is repeated at most once;
  the insert of the metering goroutine is payload; a request refused
  by `Auth` changes nothing and is left out; access tokens do not expire; the
  status of the tenant is `TenantPlane`'s.

### ExportNotify

- `job` is the job table with one step per statement, `msg` the queue and its
  dead-letter queue with SQS's receive counts, `run` the call of
  `exports.Worker.RunOnce` a Lambda or a poller is in. `age` counts units of
  time since `started_at`, since the last delivery and since the invocation
  began.
- `Request` stores the job, `Publish` the message, or not: without a queue, with
  an error, or when the API dies in between. `Receive` is a delivery, also of a
  message that is hidden at the time; `Skip` is a body that does not parse;
  `Respond` is `postResponse`, which deletes the message unless it is reported
  as failed; `Reappear` and `DeadLetter` are the queue's.
- `Tick` lets time pass and stops at the Lambda's timeout (an invocation then
  only ends) and, for a poller, at the job's visibility timeout: that a poller
  settles in time is the assumption `MayOverrun = FALSE` of `ExportQueue`.
- `TimeoutsAssumption` is what `lambda.tf` and `main.go` agree on: the Lambda's
  600 s are no longer than the job's 10 minutes.

### GraphCost and GraphRequest

- A document is a sequence of tokens. Fields, aliases, braces and argument lists
  are what every document has; a list carries its page size (none, a literal, a
  variable). The rest comes with `Syntax`:
  - *directives*: `Directive`, `@include(if: ...)`. For the scanner its name is a
    field and its list an argument list like any other, the last one before the
    selection set.
  - *fragments*: `Spread`, `Inline` and `Fragment`. The names of fragments and of
    type conditions count as fields; the fields of a fragment count once, where
    it is declared. `Inlined` writes the fragment out where it is spread, which
    is what is executed.
  - *texts*: comments and strings that the scanner reads otherwise than GraphQL.
    `says` is a `pageSize: k` in a comment or a string that stands in front of
    the real one in a list (or, as `says = 1`, a parenthesis that ends the list
    for the scanner); `Veil` ends the document for the scanner: a comment closed
    by `\r`, an odd quote or parenthesis in the comment of a list.
  Other comments and strings are one token, `Text`. `Plain` documents have none
  of the three.
- `Scan` is a turn of the loop of `Analyze`, with its stack of multipliers and the
  pending one, in integers that wrap at `IntLimit`; it reads what is `Seen`.
  `CostOf` is what the comment of `Analyze` defines, computed from the nesting
  and from each field's own list, and `Work` the number of fields an execution
  resolves, from `pagination` and the schema. `Validate` says that the fields of
  a document can be given types of the schema.
- `Write` writes every document of the grammar token by token, so that `Analyze`
  is checked on prefixes as well; `Admit` is `ServeHTTP` up to the execution. All
  requests of a behaviour send the same document (bound), and what a document
  selects does not decide which fields the requests resolve: any sequence of
  fields of one operation does, which is more than any one document.
- `Begin` is the request's authentication, which reads the plan of its tenant;
  `Decorate` is a decorator of `directives.go` letting a field's resolver run or
  not, with that plan and the grant as it is when the field is reached
  (`ac.TenantPlan` and `TenantHasFeature` in `HasFeature`); reading the grant may
  fail, which fails the field. Then the resolver: `Users` (with `Prime`), `User`,
  `UpdateTenant`, `Other` for those that touch neither tenants nor the loader;
  `UserTenant` is `Load` for `User.tenant`. `Operate` is everybody else: it changes
  rows, plans and grants.
- `since`, `answers` and `entitled` are histories: the rows of the caller's tenant
  during the request, what the request was answered, and whether its tenant has
  had `usage.export` at some moment since it was authenticated.

### Boot

- A configuration maps five groups of settings to what their values are good
  for; `Environment` is `ApplySecrets`, `Resolve` the `getEnv` functions,
  `Default` the defaults of `Load`, `Validate` what is refused. `Configure` is
  `loadSecrets` and `Load` together: any subset of the secrets may arrive.
- `Connect` is `connectWithRetry` (the worker and the Lambda try once); `Track`
  and `CreateTracking` are the two steps inside `CREATE TABLE IF NOT EXISTS`;
  `Check`, `Apply` and `Commit` are the statements of `Migrate` for one file;
  `Listen` is `NewRedis` and the server. Postgres' part is external: a second
  transaction with the same migration waits for the first (`Blocked`) and then
  fails, or fails at the primary key of `schema_migrations` (`Duplicate`); a
  failover ends open transactions (`Abort`).
- Every error on the way is `log.Fatal`: the instance goes `Down` and the
  orchestrator starts it again (`Launch`). `MaxFaults` bounds failed fetches,
  outages, kills and lost commit answers together.
- `Rolling` are the API tasks of a deployment in progress. `failed` counts those
  of them that ended before it was complete; from `BreakAfter` on the circuit
  breaker of `infra/terraform/ecs.tf:131` may roll it back (`RollBack`), and once
  all of them serve it is complete (`CompleteDeploy`). Either retires the other
  release: its tasks are stopped (`Terminate`, `Kill`) and started no more
  (`Retired`). The worker's service and the Lambda have no circuit breaker.

## 3. Properties

Each module has one type invariant, `TypeOK`. Beyond it:

| Module | Property | In a sentence |
|---|---|---|
| ExportQueue | `NoDuplicateWork`, `CompletedHasObject`, `DownloadsStayValid` | one holder per job; completed jobs have objects; URLs stay good |
| | `ImplementsLifecycle` | refinement: rows follow the documented state machine, its retry budget included |
| | `EveryJobFinishes` | liveness: no stored job is lost |
| | `RetryBudget`, `TimestampsMatchStatus`, `TerminalIsFinal` | proved only |
| ExportNotify | `HoldersOwnTheirJobs` | who works on a job has its latest and only claim, whatever is delivered when |
| | `ImplementsLifecycle` | refinement of the same lifecycle |
| | `LateNotLost`, `MessagesLeave` | liveness of jobs and of messages |
| UserRoles | `EveryTenantHasAnAdmin` | an active admin always remains |
| | `SnapshotIsCurrent` | proved only |
| Sessions | `SingleUse`, `LogoutEndsSessions` | rotation of refresh tokens |
| | `ImplementsLifecycle` | refinement: one accepted token at a time, each new, and an ended session stays ended |
| | `OneLivePerSession` | proved only |
| TenantPlane | `OrdersStand`, `SuspensionSuspends`, `DeletedIsFinal` | operators' orders, their effect, deletion |
| RequestChain | `LimitHolds`, `NoNoisyNeighbour`, `CountersAreShortLived` | the limiter |
| | `MeteringIsComplete`, `EntitledWhenServed` | metering and the feature gate |
| | `OwnKeysOnly`, `RevokedKeysAreRefused` | API keys |
| GraphRequest | `AnalysisIsExact`, `AcceptedIsAffordable` | the cost limit against its two references, on plain documents |
| | `LimitIsALimit` | the limit on any documents; violated, see section 5 |
| | `AnswersWereCurrent`, `AnswersAgree` | the data loader |
| | `NoWeakerThanRest` | GraphQL against REST |
| Boot | `SchemaIsAPrefix`, `SafeToServe` | migrations and configuration |
| | `EveryInstanceServes` | liveness of the deployment |

## 4. Runs

| Run | Instance | States | Shows |
|---|---|---|---|
| `export_prompt` | 2 jobs, 2 tenants, a consumer with batches of 2 and one with batches of 1, 3 attempts | 10 thousand | the pipeline's promises, refinement and liveness |
| `export_notify` | 1 job and a foreign message, 1 Lambda, 1 poller, 2 attempts, 2 deliveries, timeouts of 2, 2 and 3 units | 22 thousand | ownership, refinement, jobs late but not lost, messages leave |
| `users_serial` | a tenant of 3 and a tenant of 2 users, 2 handlers | 389 thousand | an admin always remains |
| `users_overlap` | 2 admins, 2 overlapping requests | | no admin remains |
| `sessions_serial` | 2 users, 4 tokens, 2 handlers | 529 thousand | single use, complete logout, refinement |
| `sessions_replay` | 1 user, 3 tokens, 2 overlapping requests | | one token is exchanged twice |
| `tenants_serial` | 2 tenants, 2 plans, 2 handlers | 24 thousand | orders stand, suspension suspends, deletion is final |
| `tenants_overlap` | 1 tenant, 2 overlapping updates | | an acknowledged order is undone |
| `request_chain` | 2 requests, 2 tenants, 2 keys, a limit of 1, 2 minutes, 1 fault | 824 thousand | limit, counters, metering, gate, ownership and revocation of keys |
| `graphql` | every document of up to 4 names with directives, fragments and texts, integers below 40; 2 requests of 2 fields, changing plans and grants | 3.8 million | cost limit, loader, gates |
| `graphql_directives` | documents of up to 3 names and a directive | | an accepted document resolves more than the limit |
| `boot` | 2 releases of the API, one rolling out, and a Lambda, 2 migrations, 2 connection attempts, 3 faults, rollback after 3 failures | 597 thousand | schema, configuration, recovery |

Run one with `tlc -workers 2 -config ExportPrompt.cfg MCExportQueue.tla`.

**Bounds.** Two jobs let a batch hold more than one, and one job be recovered
while another is worked on; two consumers are what it takes to fight over a
row; three attempts give a first, a middle and a last one. `ClaimBound` stops
TLC from counting attempts for ever when overruns make them unbounded; with
prompt consumers it is never reached. Three users let an admin be lost while
two others remain; four tokens allow a login, two rotations and a second
session. In `request_chain` two requests with a limit of one meet at every
pair of statements, in the limiter and about one key; the second row of
`api_keys` is the one a rotation or a generation creates; two minutes let a
counter expire and a request straddle a window; one fault at any point is
enough for each partial failure, as the handlers do not retry. Only one
tenant's entitlements change, as gates of different tenants share nothing.

In `export_notify` a unit is five minutes, so that the three timeouts keep
their order (600 s, 10 minutes, 900 s) and the Lambda's meets the job's at the
boundary; two deliveries give a redelivery and the dead letter, two attempts
a retry and the last one. One job and one Lambda suffice because the poller
competes for the job and the foreign message for the Lambda; the theorems lift
this. In `graphql` four names reach a connection inside nothing, a list inside
it, and a field inside that, with one comment, alias, reserved word or
introspection name, a directive, a spread or a text among them: a document has
at most one of these rarer tokens, a fragment is spread once, its type condition
always fits, and a veil hides the rest of the document. Integers below 40 (`IntLimit`) hold a full page of
three for each of the 13 tokens the limit on length accepts, and wrap when four
names nest in three full pages, which 64 bits do only after ten nested pages of
100. In
`boot` two API tasks are what it takes to race for a migration, two migrations
what it takes to be between two; three faults allow an outage, a lost commit
and a kill on the way back from it, and three failures of the new release, which
one outage can cause, are where `BreakAfter` lets ECS roll back (it counts half
of the desired tasks and never fewer than three). The proofs lift all the bounds on the
properties they state.

**Symmetry** is used where only safety is checked: users of one tenant and
handlers (`users_serial`), users and handlers (`sessions_serial`), requests
(`request_chain`). The properties treat the members alike, and no constant
tells them apart.

**Fairness.** `export_prompt`: consumers poll (claiming and releasing are
weakly fair), a held job is eventually settled one way or another, time
passes, and a claim is not cut off by a crash every single time (strong
fairness of `ClaimCommit`). Crashes are not fair and may go on for ever: each
costs an attempt, and an exhausted job fails. `export_notify`: a poller polls
again and again and is not stopped at the same statement every time (strong
fairness of releasing and claiming), a run ends, if only by its timeout, time
passes, and SQS delivers, redelivers and dead-letters. Nothing is assumed of
publishing or of the outcome of a run. A deployment with Lambdas only has no
such poller, and there `LateNotLost` is not claimed. `boot`: an instance goes on
with its boot, the orchestrator starts what is down and not retired, and outages
end; faults are bounded, so they stop at some point. `deployment_circuit_breaker`
with `rollback` (`ecs.tf:131`, docs/DEPLOYMENT.md:139) ends the restarts of a
release that fails while it is rolled out: after `BreakAfter` failures `RollBack`
may happen at any time, or not at all, as ECS may also forget failures when a task
becomes healthy. `EveryInstanceServes` therefore says that an instance ends up
serving or belongs to a release that is retired; as only one of the two is, the
other one serves. Nothing is assumed of `RollBack`, `Terminate` or `Kill`. No fairness is assumed for users, the
API, operators or GraphQL requests.

**Deadlock** is checked in every run but those of four modules: in `graphql` and
`graphql_directives` a behaviour ends when its requests have been answered, in
`boot` when every instance serves and no fault is left, in `tenants_serial` and
`tenants_overlap` when every tenant of the instance is deleted.

## 5. Where the code differs from what it says

The `violation` runs are divergences between the code and its own comments or
documents: two admins can demote each other (`user_service.go:139` and rule 3
of `UpdateRole`), a refresh token can be exchanged twice (`auth_service.go:201`
and docs/SECURITY.md, "single use"), an update can undo an acknowledged
suspension or plan change (`tenant_repository.go:91` and "suspension actually
suspends"), and a directive with an argument after a connection's own arguments
lets a document pass the limit on complexity that resolves more fields
(`complexity.go:84`: the last list before a selection set decides its multiplier,
and `users(pageSize: 100) @include(if: true) { ... }` ends with a list that names
no page, against the comment at `:47` and docs/ARCHITECTURE.md:252). The first
three need two requests at the same time; the passing runs and the theorems show
that they need nothing else, because without the overlap everything holds. The
fourth holds on plain documents (`AcceptedIsAffordable`).

Observations without a run of their own:

- The limit on complexity is also undercut by fragments, whose fields count once
  and outside every connection they are spread in (`complexity.go:129` and the
  multiplier of the declaration), and the limit on depth with it; and by texts
  that scanner and parser read differently: the first `pageSize` in the raw text
  of a list is taken, in a comment too (`:177`), a parenthesis in a comment of a
  list counts (`matchParen`, `:239`), and a comment runs to `\n` although GraphQL
  ends it at `\r` as well (`:74`). With `Syntax = {"fragments"}` or `{"texts"}` in
  GraphDirectives.cfg TLC finds `LimitIsALimit` violated by each. In the other
  direction the names of directives, spreads and type conditions count as fields,
  which overcounts. Not in the grammar: a comment between a name and its colon
  (the alias then counts as a field), and what else an argument list holds
  (`matchParen` skips it).
- The export Lambda cannot start in production: `lambda.tf:49-64` and the bundle of
  `secrets.tf:46` give it no `CORS_ALLOWED_ORIGINS`, `Validate` refuses the default
  `*` (`config.go:417`), and every cold start dies, although docs/AWS.md:309 calls
  it an alternative consumer of the same queue. `Boot` has this instance's
  environment outside production, where it boots; in production `Bootable` is
  false of it, and `EveryInstanceServes` says nothing.
- A fault between Incr and Expire leaves a counter without a TTL
  (`ratelimit.go:32`, `:40`): the reply to the INCR lost, Expire failing (its error
  is discarded), or the process ending. Nothing comes back to the key once its
  minute is over, and `volatile-lru` (docs/AWS.md:175, `redis.tf`) evicts only keys
  with a TTL: it stays in a Redis that "holds rate-limit counters and nothing
  durable". `CountersAreShortLived` says that there is no other way to leave one.
- A logout between a refresh's reading of the tokens and its storing of the
  successor does not end that session (`auth_service.go:207`). With `Overlap =
  TRUE` in SessionsSerial.cfg `LogoutEndsSessions` fails at once.
- A GraphQL document keeps the plan its request was authenticated with to the end,
  however long it runs: a downgrade in between takes effect with the next request,
  while a withdrawn grant takes effect with the next field. `NoWeakerThanRest`
  says no more than that the tenant had the feature at some moment since.

- A consumer that outlives the visibility timeout of its job records its
  outcome over the outcome of the consumer that took the job over, so a
  terminal row can change (`export_repository.go:153`, :169 and :187 against the
  comment of `ExportStatus.Terminal`). `MayOverrun = TRUE` with two consumers and
  `TerminalIsFinal` shows it; `TerminalRowsAreFinal` proves it cannot happen
  otherwise.
- A disabled `tenant_features` row decides nothing, although an explicit row
  "always takes precedence over the plan default table"
  (`entitlement_service.go:46-49`): `TenantHasFeature` answers it like a missing
  row, and `HasFeature` falls through to the plan (:59). `grant` of the models
  has one value for both.
- A rotation that fails between its two statements has revoked the old key
  (`apikey_service.go:77` against "in one logical operation", :63). Rotating a
  key that is already revoked succeeds and issues another, because
  `ErrNotFound` is ignored. `CountActiveByTenant` is "used to enforce the
  single-key limit" (`apikey_repository.go:147`), but nothing calls it.
- A `Signup` whose user cannot be stored leaves its tenant and its slug behind
  (`auth_service.go:112`): the same slug is refused afterwards, and nobody can
  log in to that tenant.
- A message that does not parse is acknowledged and deleted; the comment at
  `cmd/lambda-export/main.go:180` says it goes to the dead-letter queue.
- A connection that is asked for without a page size (or with a literal of 0)
  costs 1 and returns `DefaultPageSize` rows, although `resolver.go:583` says that
  `pagination` makes the analyzer's worst-case assumption true, so the limit on
  complexity undercounts it;
  `AcceptedIsAffordable` and `LimitIsALimit` are about documents that name their
  pages.
- GraphQL's `apiKeys` and `auditLogs` require a developer, their REST routes
  (`routes.go:117`, :138) any credentials, although the two "cannot drift"
  (docs/GRAPHQL.md:131). `NoWeakerThanRest` holds because GraphQL is the
  stricter one.
- A mutation document that reads a user's tenant, updates the tenant and reads
  it again gets the first row twice: the loader is not invalidated. This is
  what `AnswersAgree` says, and `AnswersWereCurrent` allows it.
- "Exactly one component owns schema changes" (`cmd/worker/main.go:70`), but
  every API task runs `Migrate`. `SchemaIsAPrefix` and `EveryInstanceServes` show
  that this is safe: the loser of a race dies and comes back.
- A failed fetch of the secrets is "deliberately fatal in effect"
  (`bootstrap.go:41`) in production only: elsewhere the instance serves with the
  default secrets. A variable that is set but empty hides a fetched secret
  (`ApplySecrets` keeps it, `getEnv` then takes the default).
- `/ready` is the target group's health check (`alb.tf:31`), so ECS replaces the
  tasks that fail it; the comment at `health_handler.go:106` says they are not
  restarted. `Terminate` models the replacement.
- `connectWithRetry` sleeps once more after its last attempt.

## 6. Proofs

All theorems are of the form `Spec => []P`, `Spec => [][A]_vars` or `Spec =>
Lifecycle!Spec` (a refinement: exports twice, sessions once), for every value of
the constants that the named ASSUMEs of the modules allow; hypotheses beyond
these are in the statements (`Exclusive`, `Overlap = FALSE`, `RevokeMayFail =
FALSE`, `IntsAreWide`). Each follows the same argument: an inductive invariant, one
lemma per kind of step, and a last temporal step.

- **ExportQueueProofs.** Unconditionally: `TypeCorrect`,
  `CompletedJobsHaveObjects`. Under `Exclusive` (no overruns unless there is a
  single consumer): `ExclusiveClaims`, `BudgetIsKept`, `TimestampsAgree`,
  `TerminalRowsAreFinal`, `DownloadsAreValid`, `RowsImplementLifecycle`. The
  invariant has three parts. `Ownership`: locked rows are queued and locked
  once, a held job is processing and has one holder, a consumer is in a
  statement or in a batch, a stale job has no holder. `ObjectInv`: what is
  completed or uploaded is stored. `RowInv`: budget and timestamps, and that a
  holder's claim count is the row's. None of the checked properties is
  inductive alone: that a write `WHERE id = $1` hits a row of status
  processing follows only from who holds and locks what. `RowStep`
  characterises what one step may do to one row; lifecycle and finality
  follow from it.
- **ExportNotifyProofs.** `TypeCorrect`, `HoldersOwn` and
  `TableImplementsLifecycle`, for any number of jobs, Lambdas and pollers and
  any timeouts that satisfy `TimeoutsAssumption`. The strengthening (`RunOK`,
  `NoSharing`, `Budget`) relates the clocks: a Lambda that works on a job began no later than the job's
  `started_at`, so the job's age never exceeds the invocation's, which never
  exceeds the Lambda's timeout; with `LambdaTimeout <= JobVisibility` no held job
  is ever stale. A timeout one unit longer, or a release at the boundary itself
  (`Stale_Inclusive`), breaks it.
- **UserRolesProofs.** `TypeCorrect` always; with `Overlap = FALSE`
  `LastAdminStays` and `SnapshotsAreCurrent`, for finite sets of users. The
  strengthening is that a change which passed the check leaves another active
  admin in the tenant, and that requests in flight concern different tenants;
  a count above one yields the other admin (`AnotherAdmin`, with the library's
  cardinality theorems).
- **SessionsProofs.** `TypeCorrect` always; with `Overlap = FALSE`
  `LogoutIsComplete`, also when single revocations fail; with `RevokeMayFail =
  FALSE` too, `TokensAreSingleUse` and `SessionsDoNotFork`. The strengthening:
  families belong to one user and start at a stored token, a usable token and
  one being exchanged have no successor, and while a token is being exchanged
  no other token of its session is usable.
  Under the same two assumptions `TokensImplementLifecycle`: the invariants
  make the phase of a session a function of its tokens (`Phases`,
  `SessionFacts`), and one lemma per kind of statement says what its user sees
  of it (`NothingSeen`, `ExchangeSeen`, `IssueSeen`, `EndSeen`); that other
  sessions see nothing rests on families having one user and users one
  request. It is more than the invariants together: the token that replaces
  another was never given out before, and no way leads back from `over`.
- **TenantPlaneProofs.** `TypeCorrect` and `DeletedTenantsAreFinal` always;
  with `Overlap = FALSE` `OperatorsDecide` and `SuspendedTenantsAreRefused`. The
  strengthening: at most one update per tenant is in flight, and what it will
  write is its order applied to the orders so far.
- **RequestChainProofs.** All eight theorems are unconditional: `TypeCorrect`,
  `EntitledRequestsOnly`, `KeysAreOwn`, `RevokedKeysStayRefused`, `LimitIsKept`,
  `NeighboursAreQuiet`, `CountersAreNotLeft`, `MeteringMissesNothing`. The
  strengthening for the keys and the gate says what a request knows in each layer: behind the role check
  it is a developer's, about to deactivate it has found the key and compared
  its tenant, about to create or answered with success the key is revoked
  (`KeyOK`); and whatever the gate would admit is in the tenant's history
  (`EntitledOK`). That others cannot undo this follows from `KeysGrow`: rows of
  `api_keys` are never lost, given away or revived.
  The limiter (`LimitInv`) keeps an account per tenant and window. A request
  that reached Redis is charged, one whose INCR was repeated twice (`Charge`),
  and the counter never exceeds the charge: a 429 is the doing of the tenant's
  own requests. In the other direction the counter is at least the number of
  requests let through, until its TTL drops it; that happens only once the
  window is `Over`, with none of its requests in front of the limiter any more,
  so the number let through stays what it was, at most `Limit`. This rests on
  what `Tick` and `CounterExpires` assume of time: no request is in the limiter
  for longer than the window it computed and the next, and the TTL of 90 seconds
  outlives them. The sets counted are finite although `Requests` need not be,
  because requests arrive one by one. `ShortInv` names, for a counter without a
  TTL, the request that created it (`made`) and says that it is alive in front of
  its EXPIRE or was cut off there (`CutOff`): a request that died elsewhere, or
  did not create the counter, is no excuse. `MeterInv` (`Metered`) says what each
  request has left in `usage`, by how it was answered.
- **GraphRequestProofs**, on requests: `TypeCorrect`, `AnswersAreCurrent`,
  `OneAnswer` and `GraphQLIsNoWeaker`, for any callers, requests, tenants and
  limits. The invariant `Stories` says that what a loader has cached or recorded as missing
  was a row of the request's tenant during the request, that all answers so far
  are that row, and that a loader which has asked once knows the answer. For the
  gates `Remembers` says that an executing request whose tenant's plan had the
  feature at authentication, or whose tenant has it now by plan or grant, is in
  `entitled`: the decorator's join of an old plan with a new grant then admits
  nobody who never had it.
- **GraphRequestProofs**, on documents: `AnalysisIsRight`, unconditionally, and
  `AcceptedIsCheap` under `IntsAreWide` (`MaxLength * MaxPageSize < IntLimit`: an
  int can count a full page for every byte of a document). In the code an int has
  64 bits and a body at most 2^20 bytes (`handler.go:68`), so this says that
  MAX_PAGE_SIZE is below 2^43; `Validate` in `config.go:351` sets it no upper
  bound, the default is 100.
  Both are about plain documents, because the scanner is wrong on others (section
  5); `Scanned` and `Composed` below are statements about documents that are plain
  so far, and a document that stops being plain never becomes plain again.
  The documents have no bound here, and there is no induction over sequences: the
  induction is along `Write`, which appends a token. What it needs of the folds
  of the community modules (`FoldLeft`, `FoldSet`, `MapThenSumSet`) is that they
  exist as functions and gain one application per element, in any order for sums
  and products. That is proved by induction over the subsets of a finite set,
  with the well-foundedness of the subset order from the library.
  The inductive invariant (`Scanned`) has two parts. `Balanced`: braces match,
  and fields stand inside them, which is why `Closed` never has to keep the last
  multiplier for a brace too many. `Knows`: entry k of the multiplier stack is
  the product, as an int, of the page sizes of the open selection sets that stand
  no deeper than k, the pending multiplier is that of the selection set that
  would open next, and cost, depth and fields are those of the document. The cost
  alone is not inductive: a multiplier that is not popped or reset shows only in
  later fields. That wrapping every product and sum is the same as wrapping the
  result is `WrapSum` and `WrapProduct`, from division with remainder.
  For `AcceptedIsCheap` the document is also put together as the grammar says
  (`Composed`): arguments follow `users`, and a selection set follows its field.
  In a valid document at most one selection set around a field then counts for
  more than one (`OneConnection`): an inner connection would have a parent, and
  no type but Query has `users`. So a field counts for at most one page, the cost
  of a document within the length limit fits in an int and is compared with
  `MaxComplexity` as it is, and the work is no more than the cost (`WorkWithinCost`).
- **BootProofs.** `TypeCorrect`, `MigrationsAreAPrefix` and `ServesSafely`, for
  any instances, releases, environments and bounds. The strengthening
  (`Progress`): an instance that migrates has every earlier migration of its
  release recorded, one that got past its migrations has all of them, and one
  that got past `Configure` and `Connect` holds a configuration that passed
  `Validate` and the database's password. What the deployment does only counts
  (`DeployTyped`) or stops instances, which disturbs none of this.

Only model-checked: the liveness properties (`EveryJobFinishes`, `LateNotLost`,
`MessagesLeave`, `EveryInstanceServes`), which are out of the prover's reach.
Every other property of a passing run is a theorem. The violation runs are TLC's.

## 7. Plan

1. Done: the export pipeline and its notifications with one abstract
   specification for both; users; sessions; tenants and entitlements; the
   request chain with rate limit, metering and API keys; the GraphQL cost limit,
   loader and gates; configuration, migrations and boot; their theorems.
2. `Signup`: its two inserts, with the uniqueness of slugs and emails and a
   failure between them, in front of `UserRoles` and `Sessions`.

## 8. Not modelled, and why

Request signing and password hashing are cryptography; listing, pagination of
REST, search, formatting, response envelopes and logging change no state; the
audit log is written after the fact and read by nobody else. The resolvers of
`graph/` that only call services are those services' modules'; the mapping of
their results is payload. Cached cloud credentials are valid until they expire
whichever fetch they come from, so nothing hangs on the order of fetches.
`Signup` is planned (section 7). Configuration is modelled in five groups of
settings, not field by field. Of Terraform only what the models take constants
and environments from is used. Names, emails, slugs, filters and file contents
are payload. The expiry of objects by the bucket's lifecycle rules is left
out: `stored` only grows, so `CompletedHasObject` speaks of exports younger than
that rule. A statement whose connection breaks after its commit is covered by
`ClaimCommit` and `Abandon` for the pipeline, by the failing statements of
`RequestChain` and by `Commit` of `Boot`, and not elsewhere.
