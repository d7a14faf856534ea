---------------------------- MODULE GraphRequest ----------------------------
(***************************************************************************)
(* GraphQL requests.  A document is analysed and, unless a limit refuses   *)
(* it, executed: its top-level fields are resolved one after the other,    *)
(* each behind its decorator, and User.tenant through a data loader that   *)
(* lives as long as the request.  Requests run next to each other, and     *)
(* tenants, plans and grants change underneath.                            *)
(*                                                                         *)
(* Sources: graph/handler.go, graph/dataloader.go, graph/resolver.go,      *)
(* graph/directives.go and, for the REST routes of the same operations,    *)
(* cmd/api/routes.go.  The services behind the resolvers are the other     *)
(* modules'; here only the tenant rows change.  graphql-go resolves the    *)
(* fields of one document in turn and is external.                         *)
(***************************************************************************)
EXTENDS GraphCost, FiniteSets

CONSTANTS
    Requests,
    Tenants, tenantOf,  \* tenantOf[q]: the tenant of q's credentials
    rolesOf,            \* rolesOf[q]: the roles they may have
    Syntax,             \* bound: what documents may have besides fields and lists
    MaxTokens,          \* bound: fields in a document, extras counted as fields
    MaxFields,          \* bound: top-level fields resolved by a request
    MaxVersion          \* bound: writes of one tenant row

ASSUME CallersAssumption ==
    /\ tenantOf \in [Requests -> Tenants]
    /\ rolesOf \in [Requests -> SUBSET {"viewer", "developer", "admin"}]
ASSUME SyntaxAssumption == Syntax \subseteq {"directives", "fragments", "texts"}
ASSUME BoundsAssumption == MaxTokens \in Nat /\ MaxFields \in Nat /\ MaxVersion \in Nat \ {0}

(* The decorators of the schema, and the gates of the REST routes of the   *)
(* same operations.                                                        *)
Queries == {"me", "tenant", "users", "user", "features", "myFeatures", "apiKeys",
            "usage", "usageSummary", "auditLogs", "exportJobs", "exportJob",
            "exportDownload"}
Mutations == {"updateTenant", "updateUserRole", "generateApiKey", "rotateApiKey",
              "deactivateApiKey", "requestUsageExport"}
Fields == Queries \cup Mutations

Exports == {"exportJobs", "exportJob", "exportDownload", "requestUsageExport"}
KeyChanges == {"generateApiKey", "rotateApiKey", "deactivateApiKey"}

Decorator_NoFeature(f) ==
    CASE f \in {"updateTenant", "updateUserRole"} -> "admin"
      [] f \in KeyChanges \cup {"apiKeys", "auditLogs"} -> "developer"
      [] f \in Exports \ {"exportDownload"} -> "usage.export"
      [] OTHER -> "auth"
Decorator(f) ==
    CASE f \in {"updateTenant", "updateUserRole"} -> "admin"
      [] f \in KeyChanges \cup {"apiKeys", "auditLogs"} -> "developer"
      [] f \in Exports -> "usage.export"
      [] OTHER -> "auth"
RestGate(f) ==
    CASE f \in {"updateTenant", "updateUserRole"} -> "admin"
      [] f \in KeyChanges -> "developer"
      [] f \in Exports -> "usage.export"
      [] OTHER -> "auth"

Rank == [viewer |-> 1, developer |-> 2, admin |-> 3]
Admits(gate, role, entitled) ==
    CASE gate = "auth" -> TRUE
      [] gate = "usage.export" -> entitled
      [] OTHER -> Rank[role] >= Rank[gate]

\* Rows are versions; Gone is a row that is deleted.
Gone == 0
NotCached == -1
Loader == [cache : [Tenants -> NotCached..MaxVersion], missed : SUBSET Tenants, queries : Nat]
NoField == ""
Request == [at : {"waiting", "accepted", "refused", "running", "done"},
            role : {"none"} \cup DOMAIN Rank, kind : {{}, Queries, Mutations},
            plan : BOOLEAN, field : Fields \cup {NoField}, n : 0..MaxFields, nested : BOOLEAN]

VARIABLES
    doc,        \* the document being written and analysed
    req,        \* req[q]: where the request is
    row,        \* tenants
    plan,       \* tenants whose plan includes usage.export
    grant,      \* tenants it is granted to
    loader,     \* loader[q]: the data loader of the request
    since,      \* history: since[q]: rows of q's tenant while q executes
    entitled,   \* history: executing requests whose tenant has had usage.export
    answers     \* history: answers[q]: what User.tenant was answered

vars == <<doc, req, row, plan, grant, loader, since, entitled, answers>>
data == <<row, plan, grant>>
past == <<since, entitled>>

Waiting == [at |-> "waiting", role |-> "none", kind |-> {}, plan |-> FALSE,
            field |-> NoField, n |-> 0, nested |-> FALSE]
EmptyLoader == [cache |-> [t \in Tenants |-> NotCached], missed |-> {}, queries |-> 0]

-----------------------------------------------------------------------------
Init ==
    /\ doc = <<>>
    /\ req = [q \in Requests |-> Waiting]
    /\ row = [t \in Tenants |-> 1]
    /\ plan = {} /\ grant = {}
    /\ loader = [q \in Requests |-> EmptyLoader]
    /\ since = [q \in Requests |-> {}] /\ entitled = {}
    /\ answers = [q \in Requests |-> {}]

(* Writing a document ******************************************************)

\* What may follow in the grammar of GraphQL: every field name but name and
\* __schema opens a selection set, and users may have arguments.
Pages == {Args("none", 0), Args("variable", MaxPageSize), Args("literal", 0),
          Args("literal", MaxPageSize + 1)}
Commented == {[p EXCEPT !.says = 1] : p \in Pages}
FieldTokens == {Name(f) : f \in {"name", "users", "nodes", "tenant", "__schema"}}
PlainTokens == {Open, Close, Text, Alias, Name("query")} \cup Pages \cup FieldTokens
Tokens == PlainTokens \cup Commented \cup {Directive, Spread, Inline, Fragment, Veil}

\* A document has one of the rarer tokens at most (bound): an alias, a query's
\* keyword, an introspection, a text, a directive or a fragment.
Rare == {Text, Alias, Name("query"), Name("__schema"), Directive, Spread, Inline, Veil}
          \cup Commented
Names(d) == Quantify(DOMAIN d, LAMBDA i : IsField(d[i]))
Extras(d) == Quantify(DOMAIN d, LAMBDA i : d[i] \in Rare)
FieldNames(d) ==
    IF Names(d) + Extras(d) >= MaxTokens THEN {}
    ELSE IF Extras(d) = 0 THEN FieldTokens \cup {Alias} ELSE FieldTokens \ {Name("__schema")}

\* A fragment that is spread is declared after the operation, once.
Undeclared(d) == Spread \in Range(d) /\ Fragment \notin Range(d)
Complete(d) ==
    /\ d # <<>> /\ Nesting(d, Len(d) + 1) = 0 /\ Close \in Range(d)
    /\ ~Undeclared(d) /\ d[Len(d)] # Fragment
LastSaid(d) ==
    LET said == Said(d, Len(d) + 1) IN IF said = {} THEN Text ELSE d[Max(said)]
Grammar(d) ==
    LET last == LastSaid(d)
    IN CASE last = Text -> {Open} \cup (IF Extras(d) = 0 THEN {Name("query")} ELSE {})
         [] last = Alias -> FieldNames(d) \ {Alias}
         [] last = Open -> FieldNames(d)
         [] last = Name("users") -> {Open} \cup (IF d[Len(d)] = Directive THEN {} ELSE Pages)
         [] last \in {Name("query"), Name("nodes"), Name("tenant"), Inline, Fragment}
                      \cup Pages \cup Commented -> {Open}
         [] Undeclared(d) /\ last = Close /\ Nesting(d, Len(d) + 1) = 0 -> {Fragment}
         [] OTHER -> FieldNames(d) \cup {Close}
Rarely(d) ==
    LET last == LastSaid(d)
    IN IF Extras(d) > 0 \/ Names(d) >= MaxTokens THEN {}
       ELSE {Text}
         \cup {t \in Commented \cup {Veil} : "texts" \in Syntax
                                           /\ (t = Veil \/ last = Name("users"))}
         \cup {t \in {Directive} : "directives" \in Syntax /\ last \in FieldTokens \cup Pages}
         \cup {t \in {Spread, Inline} : "fragments" \in Syntax
                                       /\ last \in {Open, Close, Name("name"), Name("__schema")}}
Continuations(d) == IF Complete(d) THEN {} ELSE Grammar(d) \cup Rarely(d)

\* The clients of all requests send the same document (bound), so it is
\* analysed before the first is executed: Check reads nothing else.
Write ==
    /\ \A q \in Requests : req[q].at = "waiting"
    /\ \E t \in Continuations(doc) : doc' = Append(doc, t)
    /\ UNCHANGED <<req, data, loader, past, answers>>

\* Handler.ServeHTTP up to the execution; a refusal is audited and answered.
Admit ==
    /\ Complete(doc) /\ \A q \in Requests : req[q].at = "waiting"
    /\ doc' = <<>>
    /\ req' = [q \in Requests |->
                 [req[q] EXCEPT !.at = IF Check(doc) = "" THEN "accepted" ELSE "refused"]]
    /\ UNCHANGED <<data, loader, past, answers>>

(* Executing it ************************************************************)
NewLoaders_Shared(q) ==
    LET others == {p \in Requests \ {q} : req[p].at = "running"}
    IN IF others # {} THEN loader[CHOOSE p \in others : TRUE] ELSE EmptyLoader
NewLoaders_NilMap(q) == [cache |-> [t \in Tenants |-> NotCached], queries |-> 0]
NewLoaders(q) == EmptyLoader

\* The request is authenticated, which reads its tenant's plan, and executed.
Begin(q) ==
    /\ req[q].at = "accepted"
    /\ \E role \in rolesOf[q], kind \in {Queries, Mutations} :
         req' = [req EXCEPT ![q] = [req[q] EXCEPT !.at = "running", !.role = role, !.kind = kind,
                                                  !.plan = tenantOf[q] \in plan]]
    /\ loader' = [loader EXCEPT ![q] = NewLoaders(q)]
    /\ since' = [since EXCEPT ![q] = {row[tenantOf[q]]}]
    /\ entitled' = entitled \cup {p \in {q} : tenantOf[p] \in plan \cup grant}
    /\ UNCHANGED <<doc, data, answers>>

Running(q) == req[q].at = "running"

\* A decorator: requireAuth, requiresRole or requiresFeature.  The plan is the
\* one the request was authenticated with, a grant is read now, which may fail.
\* A denial is audited and answered as an error of the field.
Reached(q, f) == [req EXCEPT ![q] = [req[q] EXCEPT !.n = @ + 1, !.field = f]]
Decorate(q) ==
    /\ Running(q) /\ req[q].field = NoField /\ req[q].n < MaxFields
    /\ \E f \in req[q].kind :
         LET gate == Decorator(f)
             admitted == Admits(gate, req[q].role, req[q].plan \/ tenantOf[q] \in grant)
         IN \/ admitted /\ req' = Reached(q, f)
            \/ ~admitted /\ req' = Reached(q, NoField)
            \/ gate = "usage.export" /\ req' = Reached(q, NoField)
    /\ UNCHANGED <<doc, data, loader, past, answers>>

\* The row changes for every request about the tenant that is running.
Changed(t, version) ==
    /\ row' = [row EXCEPT ![t] = version]
    /\ since' = [q \in Requests |->
                   IF Running(q) /\ tenantOf[q] = t THEN since[q] \cup {version} ELSE since[q]]

Resolved(q, user) ==
    [req EXCEPT ![q] = [req[q] EXCEPT !.field = NoField, !.nested = @ \/ user]]

\* Prime, with the keys of a page of users: the caller's tenant, which all of
\* them have.  One query for what is neither cached nor missed.
Pending(q, keys) ==
    {t \in keys : loader[q].cache[t] = NotCached /\ t \notin loader[q].missed}
Stored(l, keys) ==
    [cache |-> [t \in Tenants |-> IF t \in keys /\ row[t] # Gone THEN row[t] ELSE l.cache[t]],
     missed |-> l.missed \cup {t \in keys : row[t] = Gone},
     queries |-> l.queries + 1]
Prime(q, keys) ==
    LET pending == Pending(q, keys)
    IN IF pending = {} THEN loader
       ELSE [loader EXCEPT ![q] = Stored(@, pending)]

\* Resolver.users: a page, then the loader is primed for it.  A failed query
\* for the page is the field's error, a failed Prime is logged.
Users(q) ==
    /\ Running(q) /\ req[q].field = "users"
    /\ \/ req' = Resolved(q, FALSE) /\ UNCHANGED loader
       \/ req' = Resolved(q, TRUE) /\ UNCHANGED loader
       \/ req' = Resolved(q, TRUE) /\ loader' = Prime(q, {tenantOf[q]})
    /\ UNCHANGED <<doc, data, past, answers>>

\* me, user and updateUserRole answer a user, null or an error; the other
\* fields neither read nor write anything of this module.
User(q) ==
    /\ Running(q) /\ req[q].field \in {"me", "user", "updateUserRole"}
    /\ \E user \in BOOLEAN : req' = Resolved(q, user)
    /\ UNCHANGED <<doc, data, loader, past, answers>>
Other(q) ==
    /\ Running(q)
    /\ req[q].field \notin {NoField, "users", "me", "user", "updateUserRole", "updateTenant"}
    /\ req' = Resolved(q, FALSE)
    /\ UNCHANGED <<doc, data, loader, past, answers>>

\* Resolver.updateTenant: the row is written, unless it is gone or a statement
\* fails.
UpdateTenant(q) ==
    /\ Running(q) /\ req[q].field = "updateTenant"
    /\ req' = Resolved(q, FALSE)
    /\ \/ UNCHANGED <<row, since>>
       \/ row[tenantOf[q]] \in 1..(MaxVersion - 1)
          /\ Changed(tenantOf[q], row[tenantOf[q]] + 1)
    /\ UNCHANGED <<doc, plan, grant, loader, entitled, answers>>

\* Resolver.userTenant through BatchLoader.Load: cached, known to be missing,
\* or fetched; a row that is gone or a failed query is the field's error and
\* leaves the loader alone.
Load_NotStored(l, t) ==
    [cache |-> l.cache, missed |-> l.missed, queries |-> l.queries + 1]
Load(l, t) ==
    [cache |-> [l.cache EXCEPT ![t] = row[t]], missed |-> l.missed, queries |-> l.queries + 1]
UserTenant(q) ==
    LET t == tenantOf[q]
        cached == loader[q].cache[t]
        Answer(version) == answers' = [answers EXCEPT ![q] = @ \cup {version}]
    IN /\ Running(q) /\ req[q].nested /\ req[q].field = NoField
       /\ CASE cached # NotCached -> Answer(cached) /\ UNCHANGED loader
            [] cached = NotCached /\ t \in loader[q].missed -> Answer(Gone) /\ UNCHANGED loader
            [] OTHER -> /\ row[t] # Gone
                        /\ Answer(row[t])
                        /\ loader' = [loader EXCEPT ![q] = Load(@, t)]
       /\ UNCHANGED <<doc, req, data, past>>

\* The response is written, and the request's context is garbage.
Finish(q) ==
    /\ Running(q) /\ req[q].field = NoField
    /\ req' = [req EXCEPT ![q] = [Waiting EXCEPT !.at = "done"]]
    /\ loader' = [loader EXCEPT ![q] = EmptyLoader]
    /\ since' = [since EXCEPT ![q] = {}] /\ entitled' = entitled \ {q}
    /\ answers' = [answers EXCEPT ![q] = {}]
    /\ UNCHANGED <<doc, data>>

\* Other requests and operators: a row is written or deleted, a plan or a
\* grant changes.
Toggled(tenants, t) == IF t \in tenants THEN tenants \ {t} ELSE tenants \cup {t}
Operate(t) ==
    /\ \E q \in Requests : Running(q)
    /\ \/ /\ row[t] # Gone
          /\ Changed(t, Gone) \/ (row[t] < MaxVersion /\ Changed(t, row[t] + 1))
          /\ UNCHANGED <<plan, grant, entitled>>
       \/ /\ \/ plan' = Toggled(plan, t) /\ UNCHANGED grant
             \/ grant' = Toggled(grant, t) /\ UNCHANGED plan
          /\ entitled' = entitled \cup {q \in Requests : /\ Running(q) /\ tenantOf[q] = t
                                                      /\ t \in plan' \cup grant'}
          /\ UNCHANGED <<row, since>>
    /\ UNCHANGED <<doc, req, loader, answers>>

Next ==
    \/ Write \/ Admit
    \/ \E q \in Requests :
         \/ Begin(q) \/ Decorate(q) \/ Users(q) \/ User(q) \/ Other(q)
         \/ UpdateTenant(q) \/ UserTenant(q) \/ Finish(q)
    \/ \E t \in Tenants : Operate(t)

Spec == Init /\ [][Next]_vars

-----------------------------------------------------------------------------
TypeOK ==
    /\ doc \in Seq(Tokens)
    /\ req \in [Requests -> Request]
    /\ row \in [Tenants -> Gone..MaxVersion]
    /\ plan \in SUBSET Tenants /\ grant \in SUBSET Tenants
    /\ loader \in [Requests -> Loader]
    /\ since \in [Requests -> SUBSET (Gone..MaxVersion)]
    /\ entitled \in SUBSET Requests
    /\ answers \in [Requests -> SUBSET (Gone..MaxVersion)]

\* On plain documents the scanner agrees with what its comment says it
\* computes, and on their prefixes too, as far as an int can say it
\* (complexity.go, Analyze).
AnalysisIsExact ==
    LET a == Analyze(doc)
    IN Plain(doc) => /\ a.cost = Wrap(CostOf(doc))
                     /\ a.deepest = DepthOf(doc)
                     /\ a.fields = Cardinality(Positions(doc))

\* A document that passes the limits and the validation, and names the page
\* size of each of its connections, resolves no more fields than the limit
\* on complexity says, whatever its variables are (Check, pagination).  The
\* code does not keep this where Syntax has directives, as the run
\* graphql_directives shows, nor where it has fragments or texts.
LimitIsALimit ==
    LET executed == Inlined(doc)
    IN Complete(doc) /\ Check(doc) = "" /\ Validate(executed) /\ NamesItsPages(executed)
         => Work(executed) <= MaxComplexity

\* It does on plain documents, although sums and products wrap (Check,
\* pageMultiplier, pagination).
AcceptedIsAffordable == Plain(doc) => LimitIsALimit

\* User.tenant is answered with a row that was current at some moment of the
\* request: a loader does not carry rows from one request to another
\* (NewLoaders).
AnswersWereCurrent == \A q \in Requests : answers[q] \subseteq since[q]

\* A request tells one story about a tenant, although the row changes and the
\* loader may be primed, fall back to single reads or fail in any order, and
\* asks the database about it at most once (Prime, Load).
AnswersAgree ==
    \A q \in Requests : Cardinality(answers[q]) <= 1 /\ loader[q].queries <= 1

\* The body of a field runs only for callers whom the REST route of the same
\* operation admits: their role passes its gate, and a tenant without
\* usage.export since the request was authenticated gets no export, although
\* the plan of a long document is the one it was authenticated with and grants
\* are read field by field (directives.go, rbac.go, routes.go).
NoWeakerThanRest ==
    [][\A q \in Requests :
          req'[q].field # NoField /\ req[q].field = NoField
            => Admits(RestGate(req'[q].field), req[q].role, q \in entitled)]_vars
=============================================================================
