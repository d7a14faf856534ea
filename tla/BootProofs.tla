----------------------------- MODULE BootProofs -----------------------------
(***************************************************************************)
(* Proofs about Boot, for any instances, releases and task definitions:    *)
(* the type invariant, that the schema is always a prefix of the           *)
(* migrations, and that what serves is fit to.                             *)
(***************************************************************************)
EXTENDS Boot, TLAPS

\* What an instance at its place in the boot has established, when n migrations
\* have been committed: it never is more than one migration ahead of the schema.
Fit(t, got) == Validate(t, Config(t, got))
Keyed(t, got) == Config(t, got)["DB"] = "good"

Established(t, r, n) ==
    /\ r.at >= 1 /\ r.at <= n + 1
    /\ r.pc = "redis" => hasOf[t] <= n
    /\ r.pc \in {"serve", "drain"} /\ roleOf[t] = "api" => hasOf[t] <= n
    /\ r.pc \notin {"down", "configure"} => Fit(t, r.got)
    /\ r.pc \notin {"down", "configure", "connect"} => Keyed(t, r.got)

Progress == \A t \in Tasks : Established(t, task[t], Len(schema))

\* The inductive invariant.
IInv == TypeOK /\ SchemaIsAPrefix /\ Progress

-----------------------------------------------------------------------------
(* Lemmas.                                                                 *)

\* A configuration has no unresolved value.
LEMMA ConfigIsResolved ==
    ASSUME NEW t \in Tasks, NEW got, NEW k \in Settings
    PROVE  Config(t, got)[k] \in {"weak", "bad", "good"}
<1>1. givenOf[t][k] \in Values
  BY EnvironmentAssumption
<1>2. Environment(t, got)[k] \in Values
  BY <1>1 DEF Environment, Values
<1>3. Default(t, k) \in {"weak", "good"}
  BY DEF Default, Settings
<1>4. Config(t, got)[k] = IF Environment(t, got)[k] \in {"unset", "empty", "garbled"}
                          THEN Default(t, k) ELSE Environment(t, got)[k]
  BY DEF Config, Resolve
<1> QED
  BY <1>2, <1>3, <1>4 DEF Values

\* An instance that has just died, or not yet started, has nothing to show.
LEMMA DownIsFine ==
    ASSUME NEW t \in Tasks, NEW n \in Nat
    PROVE  Down \in Instance /\ Established(t, Down, n)
<1>1. Down \in Instance
  BY BootBoundsAssumption DEF Down, Instance
<1> QED
  BY <1>1 DEF Down, Established

\* What the steps write into an instance keeps its type and its other fields.
LEMMA TryFields ==
    ASSUME NEW i \in Instance, NEW n \in 0..ConnectAttempts
    PROVE  LET r == [i EXCEPT !.tries = n]
           IN  r \in Instance /\ r.pc = i.pc /\ r.got = i.got /\ r.at = i.at
  BY DEF Instance

LEMMA MigrationFields ==
    ASSUME NEW i \in Instance, NEW v \in Nat
    PROVE  LET r == [i EXCEPT !.at = v]
           IN  r \in Instance /\ r.pc = i.pc /\ r.got = i.got /\ r.at = v
  BY DEF Instance

LEMMA CheckFields ==
    ASSUME NEW i \in Instance, NEW v \in Nat
    PROVE  LET r == [i EXCEPT !.pc = "check", !.at = v]
           IN  r \in Instance /\ r.pc = "check" /\ r.got = i.got /\ r.at = v
  BY DEF Instance

\* In a schema that is a prefix, the migrations up to its length are recorded.
LEMMA PrefixRecords ==
    ASSUME TypeOK, SchemaIsAPrefix, NEW v \in Nat
    PROVE  Recorded(v) <=> v \in 1..Len(schema)
  BY DEF TypeOK, SchemaIsAPrefix, Recorded

\* The failures ECS counts stay within its bound.
DeployTyped == deploy \in Deployments /\ failed \in 0..BreakAfter

LEMMA InstanceSteps ==
    ASSUME IInv, NEW t \in Tasks
    PROVE  /\ \A r : Become(t, r) => task' = [task EXCEPT ![t] = r] /\ DeployTyped'
           /\ Die(t) => task' = [task EXCEPT ![t] = Down] /\ DeployTyped'
<1>1. DeployTyped
  BY DEF IInv, TypeOK, DeployTyped
<1>2. ASSUME NEW r, Become(t, r) PROVE task' = [task EXCEPT ![t] = r] /\ DeployTyped'
  BY <1>1, <1>2 DEF Become, ecs, DeployTyped
<1>3. ASSUME Die(t) PROVE task' = [task EXCEPT ![t] = Down] /\ DeployTyped'
  <2>1. Counts(t) => failed + 1 \in 0..BreakAfter
    BY <1>1, BootBoundsAssumption DEF Counts, DeployTyped
  <2> QED
    BY <1>1, <1>3, <2>1 DEF Die, DeployTyped
<1> QED
  BY <1>2, <1>3

\* A step of one instance that leaves it established preserves the invariant,
\* when the schema does not change.
LEMMA OneInstance ==
    ASSUME IInv, NEW t \in Tasks, NEW r \in Instance,
           Established(t, r, Len(schema)), task' = [task EXCEPT ![t] = r], DeployTyped',
           UNCHANGED schema, tracked' \in BOOLEAN, db' \in BOOLEAN,
           redis' \in BOOLEAN, faults' \in 0..MaxFaults
    PROVE  IInv'
<1>1. TypeOK'
  BY DEF IInv, TypeOK, DeployTyped
<1>2. SchemaIsAPrefix'
  BY DEF IInv, SchemaIsAPrefix
<1>3. ASSUME NEW u \in Tasks PROVE Established(u, task[u], Len(schema))'
  <2>1. task'[u] = IF u = t THEN r ELSE task[u]
    BY DEF IInv, TypeOK
  <2>2. Established(u, task[u], Len(schema))
    BY DEF IInv, Progress
  <2>3. Established(u, task'[u], Len(schema'))
    BY <2>1, <2>2
  <2> QED
    BY <2>3 DEF Established, Fit, Keyed
<1> QED
  BY <1>1, <1>2, <1>3 DEF IInv, Progress

\* An instance that only moves on, keeping what it has.
LEMMA MovesOn ==
    ASSUME IInv, NEW t \in Tasks,
           NEW pc \in {"configure", "connect", "track", "create", "check",
                       "apply", "commit", "aborted", "redis", "serve", "drain"},
           Goto(t, pc), Established(t, [task[t] EXCEPT !.pc = pc], Len(schema)),
           UNCHANGED schema, tracked' \in BOOLEAN, db' \in BOOLEAN,
           redis' \in BOOLEAN, faults' \in 0..MaxFaults
    PROVE  IInv'
<1>1. [task[t] EXCEPT !.pc = pc] \in Instance
  BY DEF IInv, TypeOK, Instance
<1> QED
  BY <1>1, OneInstance, InstanceSteps DEF Goto

\* An instance that dies.
LEMMA Dies ==
    ASSUME IInv, NEW t \in Tasks, Die(t),
           UNCHANGED schema, tracked' \in BOOLEAN, db' \in BOOLEAN,
           redis' \in BOOLEAN, faults' \in 0..MaxFaults
    PROVE  IInv'
<1>1. Len(schema) \in Nat
  BY DEF IInv, TypeOK
<1> QED
  BY <1>1, DownIsFine, OneInstance, InstanceSteps

-----------------------------------------------------------------------------
(* The steps of the boot.                                                  *)

LEMMA InitInvariant == Init => IInv
<1> SUFFICES ASSUME Init PROVE IInv
  OBVIOUS
<1>1. TypeOK
  <2>1. schema \in Seq(Nat \ {0}) /\ Len(schema) = 0
    BY DEF Init
  <2>2. task \in [Tasks -> Instance]
    BY DownIsFine DEF Init
  <2>3. tracked \in BOOLEAN /\ db \in BOOLEAN /\ redis \in BOOLEAN
    BY DEF Init
  <2>4. faults \in 0..MaxFaults /\ deploy \in Deployments /\ failed \in 0..BreakAfter
    BY BootBoundsAssumption DEF Init, Deployments
  <2> QED
    BY <2>1, <2>2, <2>3, <2>4 DEF TypeOK
<1>2. SchemaIsAPrefix
  BY DEF Init, SchemaIsAPrefix
<1>3. Progress
  BY DownIsFine DEF Init, Progress
<1> QED
  BY <1>1, <1>2, <1>3 DEF IInv

LEMMA Types ==
    ASSUME IInv, NEW t \in Tasks
    PROVE  /\ task[t] \in Instance /\ task \in [Tasks -> Instance]
           /\ schema \in Seq(Nat \ {0}) /\ Len(schema) \in Nat
           /\ tracked \in BOOLEAN /\ db \in BOOLEAN /\ redis \in BOOLEAN
           /\ faults \in 0..MaxFaults /\ MaxFaults \in Nat
           /\ Established(t, task[t], Len(schema))
           /\ hasOf[t] \in Nat
  BY BootBoundsAssumption, ReleasesAssumption DEF IInv, TypeOK, Progress

LEMMA LaunchStep ==
    ASSUME IInv, NEW t \in Tasks, Launch(t) PROVE IInv'
<1>1. Established(t, [task[t] EXCEPT !.pc = "configure"], Len(schema))
  BY Types DEF Launch, Established, Instance
<1> QED
  BY <1>1, Types, MovesOn DEF Launch

LEMMA ConfigureStep ==
    ASSUME IInv, NEW t \in Tasks, Configure(t) PROVE IInv'
<1>1. PICK got \in SUBSET secretsOf[t] :
        /\ IF got = secretsOf[t] THEN UNCHANGED faults ELSE Fault
        /\ IF Validate(t, Config(t, got))
           THEN Become(t, [task[t] EXCEPT !.pc = "connect", !.got = got])
           ELSE Die(t)
  BY DEF Configure
<1>2. faults' \in 0..MaxFaults
  BY <1>1, Types DEF Fault
<1>3. CASE ~Validate(t, Config(t, got))
  BY <1>1, <1>2, <1>3, Types, Dies DEF Configure
<1>4. CASE Validate(t, Config(t, got))
  <2> DEFINE r == [task[t] EXCEPT !.pc = "connect", !.got = got]
  <2>1. got \in SUBSET Secrets
    BY EnvironmentAssumption
  <2>2. r \in Instance /\ r.pc = "connect" /\ r.got = got /\ r.at = task[t].at
    BY <2>1, Types DEF Instance
  <2>3. Become(t, r)
    BY <1>1, <1>4
  <2> HIDE DEF r
  <2>4. Established(t, r, Len(schema))
    BY <1>4, <2>2, Types DEF Established, Fit
  <2> QED
    BY <1>2, <2>2, <2>3, <2>4, Types, OneInstance, InstanceSteps DEF Configure
<1> QED
  BY <1>3, <1>4

LEMMA ConnectStep ==
    ASSUME IInv, NEW t \in Tasks, Connect(t) PROVE IInv'
<1>1. CASE task[t].tries < Attempts(t) /\ Reachable(t)
               /\ Goto(t, IF roleOf[t] = "api" THEN "track" ELSE "serve")
  <2> DEFINE pc == IF roleOf[t] = "api" THEN "track" ELSE "serve"
  <2>1. [task[t] EXCEPT !.pc = pc].pc = pc
        /\ [task[t] EXCEPT !.pc = pc].at = task[t].at
        /\ [task[t] EXCEPT !.pc = pc].got = task[t].got
    BY Types DEF Instance
  <2>2. Established(t, [task[t] EXCEPT !.pc = pc], Len(schema))
    BY <1>1, <2>1, Types DEF Connect, Reachable, Established, Keyed
  <2> QED
    BY <1>1, <2>2, Types, MovesOn DEF Connect
<1>2. CASE task[t].tries < Attempts(t)
               /\ Become(t, [task[t] EXCEPT !.tries = task[t].tries + 1])
  <2> DEFINE r == [task[t] EXCEPT !.tries = task[t].tries + 1]
  <2>1. Attempts(t) \in Nat /\ Attempts(t) <= ConnectAttempts
    BY BootBoundsAssumption DEF Attempts
  <2>2. task[t].tries + 1 \in 0..ConnectAttempts /\ task[t] \in Instance
    BY <1>2, <2>1, Types, BootBoundsAssumption DEF Instance
  <2>3. r \in Instance /\ r.pc = task[t].pc /\ r.got = task[t].got /\ r.at = task[t].at
    BY <2>2, TryFields
  <2>4. Become(t, r)
    BY <1>2
  <2> HIDE DEF r
  <2>5. Established(t, r, Len(schema))
    BY <2>3, Types DEF Established
  <2> QED
    BY <2>3, <2>4, <2>5, Types, OneInstance, InstanceSteps DEF Connect
<1>3. CASE Die(t)
  BY <1>3, Types, Dies DEF Connect
<1> QED
  BY <1>1, <1>2, <1>3 DEF Connect

LEMMA TrackStep ==
    ASSUME IInv, NEW t \in Tasks, Track(t) PROVE IInv'
<1>1. CASE Die(t)
  BY <1>1, Types, Dies DEF Track
<1>2. ASSUME NEW pc \in {"check", "create"}, Goto(t, pc) PROVE IInv'
  <2>1. Established(t, [task[t] EXCEPT !.pc = pc], Len(schema))
    BY Types DEF Track, Established, Instance
  <2> QED
    BY <1>2, <2>1, Types, MovesOn DEF Track
<1> QED
  BY <1>1, <1>2 DEF Track

LEMMA CreateTrackingStep ==
    ASSUME IInv, NEW t \in Tasks, CreateTracking(t) PROVE IInv'
<1>1. tracked' \in BOOLEAN
  BY Types DEF CreateTracking
<1>2. CASE Die(t)
  BY <1>1, <1>2, Types, Dies DEF CreateTracking
<1>3. CASE Goto(t, "check")
  <2>1. Established(t, [task[t] EXCEPT !.pc = "check"], Len(schema))
    BY Types DEF CreateTracking, Established, Instance
  <2> QED
    BY <1>1, <1>3, <2>1, Types, MovesOn DEF CreateTracking
<1> QED
  BY <1>2, <1>3 DEF CreateTracking

LEMMA CheckStep ==
    ASSUME IInv, NEW t \in Tasks, Check(t) PROVE IInv'
<1>1. CASE task[t].at > hasOf[t] /\ Goto(t, "redis")
  <2>1. Established(t, [task[t] EXCEPT !.pc = "redis"], Len(schema))
    BY <1>1, Types DEF Check, Established, Instance
  <2> QED
    BY <1>1, <2>1, Types, MovesOn DEF Check
<1>2. CASE Die(t)
  BY <1>2, Types, Dies DEF Check
<1>3. CASE Exists(task[t].at) /\ Become(t, [task[t] EXCEPT !.at = task[t].at + 1])
  <2> DEFINE r == [task[t] EXCEPT !.at = task[t].at + 1]
  <2>1. r \in Instance /\ r.pc = task[t].pc /\ r.got = task[t].got /\ r.at = task[t].at + 1
    <3>1. task[t] \in Instance /\ task[t].at + 1 \in Nat
      BY Types DEF Instance
    <3> QED
      BY <3>1, MigrationFields
  <2>2. Become(t, r)
    BY <1>3
  <2> HIDE DEF r
  <2>3. task[t].at \in 1..Len(schema)
    BY <1>3, Types, PrefixRecords DEF IInv, Exists, Instance
  <2>4. Established(t, r, Len(schema))
    <3>1. task[t].pc = "check"
      BY DEF Check
    <3>2. Fit(t, r.got) /\ Keyed(t, r.got)
      BY <2>1, <3>1, Types DEF Established
    <3>3. r.at >= 1 /\ r.at <= Len(schema) + 1
      BY <2>1, <2>3, Types
    <3> QED
      BY <2>1, <3>1, <3>2, <3>3 DEF Established
  <2> QED
    BY <2>1, <2>2, <2>4, Types, OneInstance, InstanceSteps DEF Check
<1>4. CASE Goto(t, "apply")
  <2>1. Established(t, [task[t] EXCEPT !.pc = "apply"], Len(schema))
    BY Types DEF Check, Established, Instance
  <2> QED
    BY <1>4, <2>1, Types, MovesOn DEF Check
<1> QED
  BY <1>1, <1>2, <1>3, <1>4 DEF Check

LEMMA ApplyStep ==
    ASSUME IInv, NEW t \in Tasks, Apply(t) PROVE IInv'
<1>1. CASE Goto(t, "commit")
  <2>1. Established(t, [task[t] EXCEPT !.pc = "commit"], Len(schema))
    BY Types DEF Apply, Established, Instance
  <2> QED
    BY <1>1, <2>1, Types, MovesOn DEF Apply
<1>2. CASE Die(t)
  BY <1>2, Types, Dies DEF Apply
<1> QED
  BY <1>1, <1>2 DEF Apply

\* The row a commit adds is the next migration's: it is not recorded, and the
\* instance is at most one migration ahead.
LEMMA CommitStep ==
    ASSUME IInv, NEW t \in Tasks, Commit(t) PROVE IInv'
<1>1. CASE Duplicate(task[t].at)
  BY <1>1, Types, Dies DEF Commit
<1>2. CASE ~Duplicate(task[t].at)
  <2> DEFINE n == Len(schema)
             v == task[t].at
             r == [task[t] EXCEPT !.pc = "check", !.at = task[t].at + 1]
  <2>1. v = n + 1
    BY <1>2, Types, PrefixRecords DEF IInv, Duplicate, Established, Instance
  <2>2. schema' = Append(schema, v) /\ Len(schema') = n + 1
    BY <1>2, Types DEF Commit
  <2>3. SchemaIsAPrefix'
    BY <2>1, <2>2, Types DEF IInv, SchemaIsAPrefix
  <2>4. PICK s \in {r, Down} : task' = [task EXCEPT ![t] = s] /\ DeployTyped'
    BY <1>2, InstanceSteps DEF Commit
  <2>5. r \in Instance /\ r.pc = "check" /\ r.got = task[t].got /\ r.at = v + 1
    <3>1. task[t] \in Instance /\ task[t].at + 1 \in Nat
      BY Types DEF Instance
    <3> QED
      BY <3>1, CheckFields
  <2> HIDE DEF r
  <2>6. Established(t, r, n + 1)
    BY <2>1, <2>5, Types DEF Commit, Established
  <2>7. s \in Instance /\ Established(t, s, n + 1)
    BY <2>4, <2>5, <2>6, Types, DownIsFine
  <2>8. faults' \in 0..MaxFaults
    BY Types DEF Commit, Fault
  <2>9. TypeOK'
    <3>1. schema' \in Seq(Nat \ {0})
      BY <2>1, <2>2, Types
    <3> QED
      BY <2>4, <2>7, <2>8, <3>1, Types DEF TypeOK, Commit, DeployTyped
  <2>10. ASSUME NEW u \in Tasks PROVE Established(u, task[u], Len(schema))'
    <3>1. task'[u] = IF u = t THEN s ELSE task[u]
      BY <2>4, Types
    <3>2. Established(u, task[u], n) /\ hasOf[u] \in Nat /\ task[u] \in Instance
      BY Types
    <3>3. Established(u, task[u], n + 1)
      BY <3>2, Types DEF Established, Instance
    <3>4. Established(u, task'[u], Len(schema'))
      BY <2>2, <2>7, <3>1, <3>3
    <3> QED
      BY <3>4 DEF Established, Fit, Keyed
  <2> QED
    BY <2>3, <2>9, <2>10 DEF IInv, Progress
<1> QED
  BY <1>1, <1>2

LEMMA AbortStep ==
    ASSUME IInv, NEW t \in Tasks, Abort(t) \/ Drain(t) PROVE IInv'
  BY Types, Dies DEF Abort, Drain

LEMMA ListenStep ==
    ASSUME IInv, NEW t \in Tasks, Listen(t) PROVE IInv'
<1>1. CASE Goto(t, "serve")
  <2>1. Established(t, [task[t] EXCEPT !.pc = "serve"], Len(schema))
    BY Types DEF Listen, Established, Instance
  <2> QED
    BY <1>1, <2>1, Types, MovesOn DEF Listen
<1>2. CASE Die(t)
  BY <1>2, Types, Dies DEF Listen
<1> QED
  BY <1>1, <1>2 DEF Listen

LEMMA TerminateStep ==
    ASSUME IInv, NEW t \in Tasks, Terminate(t) PROVE IInv'
<1>1. Established(t, [task[t] EXCEPT !.pc = "drain"], Len(schema))
  BY Types DEF Terminate, Established, Instance
<1>2. faults' \in 0..MaxFaults
  BY Types DEF Terminate, Fault
<1> QED
  BY <1>1, <1>2, Types, MovesOn DEF Terminate

LEMMA KillStep ==
    ASSUME IInv, NEW t \in Tasks, Kill(t) PROVE IInv'
<1>1. faults' \in 0..MaxFaults
  BY Types DEF Kill, Fault
<1> QED
  BY <1>1, Types, Dies DEF Kill

LEMMA LosePostgresStep ==
    ASSUME IInv, LosePostgres PROVE IInv'
<1>1. ASSUME NEW t \in Tasks
      PROVE  /\ task'[t] \in Instance
             /\ Established(t, task'[t], Len(schema))
  <2>1. task'[t] = IF task[t].pc = "commit"
                   THEN [task[t] EXCEPT !.pc = "aborted"] ELSE task[t]
    BY DEF LosePostgres
  <2>2. [task[t] EXCEPT !.pc = "aborted"] \in Instance
    BY Types DEF Instance
  <2>3. CASE task[t].pc = "commit"
    BY <2>1, <2>2, <2>3, Types DEF Established, Instance
  <2> QED
    BY <2>1, <2>2, <2>3, Types
<1>2. TypeOK'
  <2>1. task' \in [Tasks -> Instance]
    BY <1>1 DEF LosePostgres
  <2>2. faults' \in 0..MaxFaults
    BY BootBoundsAssumption DEF LosePostgres, Fault, IInv, TypeOK
  <2>3. tracked' \in BOOLEAN /\ db' \in BOOLEAN /\ redis' \in BOOLEAN
    BY DEF LosePostgres, IInv, TypeOK
  <2> QED
    BY <2>1, <2>2, <2>3 DEF LosePostgres, IInv, TypeOK, ecs
<1>3. SchemaIsAPrefix'
  BY DEF LosePostgres, IInv, SchemaIsAPrefix
<1>4. ASSUME NEW t \in Tasks PROVE Established(t, task[t], Len(schema))'
  BY <1>1 DEF LosePostgres, Established, Fit, Keyed
<1> QED
  BY <1>2, <1>3, <1>4 DEF IInv, Progress

LEMMA QuietStep ==
    ASSUME IInv, CompleteDeploy \/ RollBack \/ LoseRedis \/ Recover \/ UNCHANGED vars
    PROVE  IInv'
<1>1. TypeOK'
  <2>1. faults' \in 0..MaxFaults
    <3>1. UNCHANGED faults \/ Fault
      BY DEF CompleteDeploy, RollBack, LoseRedis, Recover, vars
    <3> QED
      BY <3>1, BootBoundsAssumption DEF Fault, IInv, TypeOK
  <2>2. tracked' \in BOOLEAN /\ db' \in BOOLEAN /\ redis' \in BOOLEAN
    BY DEF CompleteDeploy, RollBack, LoseRedis, Recover, vars, IInv, TypeOK
  <2>3. UNCHANGED <<task, schema>>
    BY DEF CompleteDeploy, RollBack, LoseRedis, Recover, vars
  <2>4. deploy' \in Deployments /\ failed' \in 0..BreakAfter
    BY DEF CompleteDeploy, RollBack, LoseRedis, Recover, vars, ecs, Deployments, IInv, TypeOK
  <2> QED
    BY <2>1, <2>2, <2>3, <2>4 DEF IInv, TypeOK
<1>2. UNCHANGED <<task, schema>>
  BY DEF CompleteDeploy, RollBack, LoseRedis, Recover, vars
<1> QED
  BY <1>1, <1>2 DEF IInv, SchemaIsAPrefix, Progress, Established, Fit, Keyed

LEMMA InvariantStep == IInv /\ [Next]_vars => IInv'
<1> SUFFICES ASSUME IInv, [Next]_vars PROVE IInv'
  OBVIOUS
<1>1. ASSUME NEW t \in Tasks, Step(t) PROVE IInv'
  BY <1>1, LaunchStep, ConfigureStep, ConnectStep, TrackStep, CreateTrackingStep,
     CheckStep, ApplyStep, CommitStep, AbortStep, ListenStep DEF Step
<1> QED
  BY <1>1, TerminateStep, KillStep, LosePostgresStep, QuietStep DEF Next

LEMMA Invariant == Spec => []IInv
  BY InitInvariant, InvariantStep, PTL DEF Spec

-----------------------------------------------------------------------------
(* Theorems.                                                               *)

\* The variables have their types, whatever boots and whatever fails.
THEOREM TypeCorrect == Spec => []TypeOK
<1>1. IInv => TypeOK
  BY DEF IInv
<1> QED
  BY <1>1, Invariant, PTL

\* Migrate, run by any number of instances of any releases at once, applies the
\* migrations in their order, each once.
THEOREM MigrationsAreAPrefix == Spec => []SchemaIsAPrefix
<1>1. IInv => SchemaIsAPrefix
  BY DEF IInv
<1> QED
  BY <1>1, Invariant, PTL

\* An instance that runs is configured as Validate demands, and an API that
\* serves finds the schema of its release.
THEOREM ServesSafely == Spec => []SafeToServe
<1>1. ASSUME IInv, NEW t \in Tasks, task[t].pc \in {"serve", "drain"}
      PROVE  /\ production[t] =>
                  \A k \in Settings : Config(t, task[t].got)[k] = "good"
             /\ Config(t, task[t].got)["DB"] = "good"
             /\ roleOf[t] = "api" => \A v \in 1..hasOf[t] : Recorded(v)
  <2>1. Fit(t, task[t].got) /\ Keyed(t, task[t].got)
    BY <1>1, Types DEF Established
  <2>2. production[t] => \A k \in Settings : Config(t, task[t].got)[k] = "good"
    BY <2>1, ConfigIsResolved DEF Fit, Validate
  <2>3. roleOf[t] = "api" => hasOf[t] <= Len(schema)
    BY <1>1, Types DEF Established
  <2>4. ASSUME roleOf[t] = "api", NEW v \in 1..hasOf[t] PROVE Recorded(v)
    BY <1>1, <2>3, <2>4, Types, PrefixRecords DEF IInv
  <2> QED
    BY <2>1, <2>2, <2>4 DEF Keyed
<1>2. IInv => SafeToServe
  BY <1>1 DEF SafeToServe
<1> QED
  BY <1>2, Invariant, PTL
=============================================================================
