-------------------------------- MODULE Boot --------------------------------
(***************************************************************************)
(* How the programs of a deployment start, and what they share while they  *)
(* do: API tasks, which migrate the schema on boot, export workers and the *)
(* export Lambda, which do not.  A rolling deploy starts tasks of a new    *)
(* release, with more migrations, beside the old ones, and the             *)
(* orchestrator starts whatever has died again, until the deployment's     *)
(* circuit breaker gives up on the new release, so several instances fetch *)
(* secrets, connect and migrate at the same time, through outages of       *)
(* Postgres and Redis.                                                     *)
(*                                                                         *)
(* Sources: cmd/api/main.go and bootstrap.go, cmd/worker/main.go,          *)
(* cmd/lambda-export/main.go, internal/config/config.go,                   *)
(* internal/database/migrate.go and database.go,                           *)
(* internal/handler/health_handler.go and infra/terraform.  ECS, Secrets   *)
(* Manager and PostgreSQL's transactions are external.                     *)
(***************************************************************************)
EXTENDS Integers, Sequences

CONSTANTS
    Tasks,              \* instances the orchestrator keeps alive
    Rolling,            \* the API tasks of a deployment in progress, if any
    roleOf,             \* "api", "worker" or "lambda"
    hasOf,              \* the number of migrations in the instance's release
    production,         \* is APP_ENV of the instance "production"?
    givenOf,            \* the settings in the environment it is started with
    secretsOf,          \* the secrets it is told to fetch
    ConnectAttempts,    \* 10 in connectWithRetry
    BreakAfter,         \* failed tasks after which ECS may roll back
    MaxFaults           \* bound: outages, kills, failed fetches, lost answers

\* JWT: the two signing secrets.  DB: the database password.  CORS: the origins.
\* DEV: introspection and the playground.  TUNING: sizes, limits, names, TTLs.
Settings == {"JWT", "DB", "CORS", "DEV", "TUNING"}

\* garbled: does not parse.  weak: what only production refuses, as a short or
\* well-known secret.  bad: what Validate refuses everywhere.
Values == {"unset", "empty", "garbled", "weak", "bad", "good"}

Roles == {"api", "worker", "lambda"}
Secrets == {"app", "rds"}

ASSUME RolesAssumption == roleOf \in [Tasks -> Roles]
ASSUME ReleasesAssumption == hasOf \in [Tasks -> Nat]
ASSUME EnvironmentAssumption ==
    /\ production \in [Tasks -> BOOLEAN]
    /\ givenOf \in [Tasks -> [Settings -> Values]]
    /\ secretsOf \in [Tasks -> SUBSET Secrets]
ASSUME RollingAssumption == Rolling \subseteq {t \in Tasks : roleOf[t] = "api"}
ASSUME BootBoundsAssumption ==
    ConnectAttempts \in Nat \ {0} /\ BreakAfter \in Nat \ {0} /\ MaxFaults \in Nat

\* got: the secrets that were fetched.  tries: failed connection attempts.
\* at: the migration Migrate is at; after the last one, hasOf[t] + 1.
Instance == [pc : {"down", "configure", "connect", "track", "create", "check",
                   "apply", "commit", "aborted", "redis", "serve", "drain"},
             got : SUBSET Secrets, tries : 0..ConnectAttempts, at : Nat]
Down == [pc |-> "down", got |-> {}, tries |-> 0, at |-> 1]
Deployments == {"none", "rolling", "complete", "rolled back"}

VARIABLES
    task,       \* the instances
    tracked,    \* does schema_migrations exist?
    schema,     \* the rows of schema_migrations, in the order they committed
    deploy,     \* how the deployment is doing
    failed,     \* tasks of it that have ended
    db, redis,  \* are Postgres and Redis reachable?
    faults      \* faults so far

ecs == <<deploy, failed>>
vars == <<task, tracked, schema, ecs, db, redis, faults>>

Init ==
    /\ task = [t \in Tasks |-> Down]
    /\ tracked = FALSE
    /\ schema = <<>>
    /\ deploy = (IF Rolling = {} THEN "none" ELSE "rolling") /\ failed = 0
    /\ db = TRUE /\ redis = TRUE
    /\ faults = 0

-----------------------------------------------------------------------------
(* Configuration: what the environment and the secrets come to.            *)

\* The settings a secret holds: the application's bundle, RDS's own credential.
Bundle(s) == IF s = "app" THEN {"JWT"} ELSE {"DB"}

\* ApplySecrets: a variable that exists keeps its value, even an empty one.
Environment(t, got) ==
    [k \in Settings |->
        IF givenOf[t][k] = "unset" /\ \E s \in got : k \in Bundle(s)
        THEN "good" ELSE givenOf[t][k]]

\* The defaults of Load: fit for development, hardened where it says so.
Default(t, k) ==
    CASE k \in {"JWT", "DB", "CORS"} -> "weak"
      [] k = "DEV" -> IF production[t] THEN "good" ELSE "weak"
      [] k = "TUNING" -> "good"

\* getEnv and its typed variants: what is absent, empty or does not parse is
\* the default.
Resolve(t, e) ==
    [k \in Settings |->
        IF e[k] \in {"unset", "empty", "garbled"} THEN Default(t, k) ELSE e[k]]

Config(t, got) == Resolve(t, Environment(t, got))

Validate(t, c) ==
    /\ \A k \in Settings : c[k] # "bad"
    /\ production[t] => \A k \in Settings : c[k] # "weak"

-----------------------------------------------------------------------------
(* Migrations: one transaction each, with its row in schema_migrations.    *)

Recorded(v) == \E i \in 1..Len(schema) : schema[i] = v

\* Mutants: a check of the version that counts transactions in progress; one
\* that is left out; and a table of versions without its primary key.
Exists_CountsPending(v) ==
    Recorded(v) \/ \E u \in Tasks : task[u].pc = "commit" /\ task[u].at = v
Exists_Forgotten(v) == FALSE
Duplicate_NoKey(v) == FALSE

Exists(v) == Recorded(v)
Duplicate(v) == Recorded(v)

\* Another transaction created this migration's objects and has not ended:
\* the statement waits for it on the catalogue's unique indexes.
Blocked(t) == \E u \in Tasks \ {t} : task[u].pc = "commit" /\ task[u].at = task[t].at

-----------------------------------------------------------------------------
(* The steps of an instance.                                               *)

Become(t, r) == task' = [task EXCEPT ![t] = r] /\ UNCHANGED ecs
Goto(t, pc) == Become(t, [task[t] EXCEPT !.pc = pc])

\* log.Fatal, or an error that ends the program: Postgres rolls back whatever
\* the instance had begun, and ECS counts it against the deployment.
Counts(t) == deploy = "rolling" /\ t \in Rolling /\ failed < BreakAfter
Die(t) ==
    /\ task' = [task EXCEPT ![t] = Down]
    /\ failed' = IF Counts(t) THEN failed + 1 ELSE failed
    /\ UNCHANGED deploy

\* A fault that the environment adds to a step, counted.
Fault == faults < MaxFaults /\ faults' = faults + 1

\* A complete deployment replaces the API tasks that are not part of it, one
\* that is rolled back those that are: ECS stops them and starts them no more.
Retired(t) ==
    /\ roleOf[t] = "api"
    /\ deploy = IF t \in Rolling THEN "rolled back" ELSE "complete"

Launch(t) ==
    /\ task[t].pc = "down" /\ ~Retired(t)
    /\ Goto(t, "configure")
    /\ UNCHANGED <<tracked, schema, db, redis, faults>>

\* loadSecrets and Load.  A fetch that fails is logged, and the boot goes on.
Configure(t) ==
    /\ task[t].pc = "configure"
    /\ \E got \in SUBSET secretsOf[t] :
        /\ IF got = secretsOf[t] THEN UNCHANGED faults ELSE Fault
        /\ IF Validate(t, Config(t, got))
           THEN Become(t, [task[t] EXCEPT !.pc = "connect", !.got = got])
           ELSE Die(t)
    /\ UNCHANGED <<tracked, schema, db, redis>>

\* NewPostgres pings; the password must be the database's.
Reachable(t) == db /\ Config(t, task[t].got)["DB"] = "good"

\* A mutant: one attempt too many.
Attempts_OneMore(t) == IF roleOf[t] = "api" THEN ConnectAttempts + 1 ELSE 1

\* connectWithRetry in the API; the worker and the Lambda try once.
Attempts(t) == IF roleOf[t] = "api" THEN ConnectAttempts ELSE 1

Connect(t) ==
    /\ task[t].pc = "connect"
    /\ \/ /\ task[t].tries < Attempts(t) /\ Reachable(t)
          /\ Goto(t, IF roleOf[t] = "api" THEN "track" ELSE "serve")
       \/ /\ task[t].tries < Attempts(t) /\ ~Reachable(t)
          /\ Become(t, [task[t] EXCEPT !.tries = task[t].tries + 1])
       \/ /\ task[t].tries = Attempts(t)
          /\ Die(t)
    /\ UNCHANGED <<tracked, schema, db, redis, faults>>

\* CREATE TABLE IF NOT EXISTS schema_migrations looks for the table ...
Track(t) ==
    /\ task[t].pc = "track"
    /\ IF ~db THEN Die(t) ELSE Goto(t, IF tracked THEN "check" ELSE "create")
    /\ UNCHANGED <<tracked, schema, db, redis, faults>>

\* ... and creates it: one that appeared in between is an error.
CreateTracking(t) ==
    /\ task[t].pc = "create"
    /\ IF ~db \/ tracked THEN Die(t) /\ UNCHANGED tracked
       ELSE Goto(t, "check") /\ tracked' = TRUE
    /\ UNCHANGED <<schema, db, redis, faults>>

\* SELECT EXISTS, in no transaction.
Check(t) ==
    /\ task[t].pc = "check"
    /\ \/ /\ task[t].at > hasOf[t]
          /\ Goto(t, "redis")
       \/ /\ task[t].at <= hasOf[t] /\ ~db
          /\ Die(t)
       \/ /\ task[t].at <= hasOf[t] /\ db /\ Exists(task[t].at)
          /\ Become(t, [task[t] EXCEPT !.at = task[t].at + 1])
       \/ /\ task[t].at <= hasOf[t] /\ db /\ ~Exists(task[t].at)
          /\ Goto(t, "apply")
    /\ UNCHANGED <<tracked, schema, db, redis, faults>>

\* Begin, and the file's statements.  When the migration has been committed since
\* the check, they fail on what exists or, written with IF NOT EXISTS, do nothing.
Apply(t) ==
    /\ task[t].pc = "apply"
    /\ \/ db /\ ~Blocked(t) /\ Goto(t, "commit")
       \/ db /\ ~Blocked(t) /\ Recorded(task[t].at) /\ Die(t)
       \/ ~db /\ Die(t)
    /\ UNCHANGED <<tracked, schema, db, redis, faults>>

\* The version's row, whose key is unique, and the commit.  The answer to a
\* commit that took effect can be lost.
Commit(t) ==
    /\ task[t].pc = "commit"
    /\ \/ /\ ~Duplicate(task[t].at)
          /\ schema' = Append(schema, task[t].at)
          /\ \/ /\ Become(t, [task[t] EXCEPT !.pc = "check", !.at = task[t].at + 1])
                /\ UNCHANGED faults
             \/ Fault /\ Die(t)
       \/ /\ Duplicate(task[t].at)
          /\ Die(t)
          /\ UNCHANGED <<schema, faults>>
    /\ UNCHANGED <<tracked, db, redis>>

\* The transaction was lost with its connection.
Abort(t) ==
    /\ task[t].pc = "aborted"
    /\ Die(t)
    /\ UNCHANGED <<tracked, schema, db, redis, faults>>

\* NewRedis pings once; then the routes are registered and the server listens.
Listen(t) ==
    /\ task[t].pc = "redis"
    /\ IF redis THEN Goto(t, "serve") ELSE Die(t)
    /\ UNCHANGED <<tracked, schema, db, redis, faults>>

\* Shutdown, at most 20 seconds; the worker finishes its job.
Drain(t) ==
    /\ task[t].pc = "drain"
    /\ Die(t)
    /\ UNCHANGED <<tracked, schema, db, redis, faults>>

-----------------------------------------------------------------------------
(* The environment.                                                        *)

\* What GET /ready answers for the target group's health check.
Ready == db /\ redis

\* SIGTERM: the service replaces a task that is not ready, or retires one.
\* Before signal.Notify the signal kills.
Terminate(t) ==
    /\ task[t].pc = "serve"
    /\ Goto(t, "drain")
    /\ \/ roleOf[t] = "api" /\ ~Ready /\ UNCHANGED faults
       \/ Retired(t) /\ UNCHANGED faults
       \/ Fault
    /\ UNCHANGED <<tracked, schema, db, redis>>

Kill(t) ==
    /\ task[t].pc # "down"
    /\ Die(t)
    /\ Fault \/ (Retired(t) /\ UNCHANGED faults)
    /\ UNCHANGED <<tracked, schema, db, redis>>

\* The new tasks are healthy, all of them; or the circuit breaker has seen
\* enough of them end.
CompleteDeploy ==
    /\ deploy = "rolling" /\ Ready
    /\ \A t \in Rolling : task[t].pc = "serve"
    /\ deploy' = "complete"
    /\ UNCHANGED <<task, tracked, schema, failed, db, redis, faults>>

RollBack ==
    /\ deploy = "rolling" /\ failed = BreakAfter
    /\ deploy' = "rolled back"
    /\ UNCHANGED <<task, tracked, schema, failed, db, redis, faults>>

\* A failover ends every transaction that is open.
LosePostgres ==
    /\ db /\ db' = FALSE
    /\ Fault
    /\ task' = [t \in Tasks |->
        IF task[t].pc = "commit" THEN [task[t] EXCEPT !.pc = "aborted"] ELSE task[t]]
    /\ UNCHANGED <<tracked, schema, ecs, redis>>

LoseRedis ==
    /\ redis /\ redis' = FALSE
    /\ Fault
    /\ UNCHANGED <<task, tracked, schema, ecs, db>>

Recover ==
    /\ ~(db /\ redis)
    /\ db' = TRUE /\ redis' = TRUE
    /\ UNCHANGED <<task, tracked, schema, ecs, faults>>

Step(t) ==
    \/ Launch(t) \/ Configure(t) \/ Connect(t) \/ Track(t) \/ CreateTracking(t)
    \/ Check(t) \/ Apply(t) \/ Commit(t) \/ Abort(t) \/ Listen(t) \/ Drain(t)

Next ==
    \/ \E t \in Tasks : Step(t) \/ Terminate(t) \/ Kill(t)
    \/ CompleteDeploy \/ RollBack
    \/ LosePostgres \/ LoseRedis \/ Recover

\* The orchestrator restarts what has died unless it is retired, a program goes
\* on with its boot, and an outage ends; no instance has to be stopped or to
\* fail, and no deployment to be rolled back.
Spec == Init /\ [][Next]_vars
FairSpec == Spec /\ (\A t \in Tasks : WF_vars(Step(t))) /\ WF_vars(Recover)

-----------------------------------------------------------------------------
(* Properties.                                                             *)

\* The variables have their types: no instance attempts to connect more than
\* ten times (connectWithRetry).
TypeOK ==
    /\ task \in [Tasks -> Instance]
    /\ tracked \in BOOLEAN
    /\ schema \in Seq(Nat \ {0})
    /\ deploy \in Deployments /\ failed \in 0..BreakAfter
    /\ db \in BOOLEAN /\ redis \in BOOLEAN
    /\ faults \in 0..MaxFaults

\* Whatever instances of whatever releases migrate at once, and wherever they
\* die, the migrations that took effect are the first ones, in their order,
\* each exactly once (Migrate).
SchemaIsAPrefix == \A i \in 1..Len(schema) : schema[i] = i

\* An instance that runs in production resolved to a configuration without any
\* value production refuses, whatever fetch failed, and holds the database's
\* password; an API that serves has every migration of its release
\* (loadSecrets, Load, Migrate before ListenAndServe).
SafeToServe ==
    \A t \in Tasks : task[t].pc \in {"serve", "drain"} =>
        /\ production[t] =>
            \A k \in Settings : Config(t, task[t].got)[k] = "good"
        /\ Config(t, task[t].got)["DB"] = "good"
        /\ roleOf[t] = "api" => \A v \in 1..hasOf[t] : Recorded(v)

\* What an instance is given is enough when nothing fails.
Bootable(t) ==
    /\ Validate(t, Config(t, secretsOf[t]))
    /\ Config(t, secretsOf[t])["DB"] = "good"

\* Every instance that is configured to boot ends up running for good once
\* faults stop, unless the deployment has retired it: the loser of a race to
\* migrate, the task whose commit was not acknowledged and the one replaced
\* during an outage included (main's log.Fatal and the restart it relies on).
\* As only one of two releases is retired, the other one serves.
EveryInstanceServes ==
    \A t \in Tasks : Bootable(t) => <>[](task[t].pc = "serve" \/ Retired(t))
=============================================================================
