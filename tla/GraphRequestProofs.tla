------------------------- MODULE GraphRequestProofs -------------------------
(***************************************************************************)
(* Theorems about GraphRequest, for any requests, tenants and bounds.  The *)
(* first part is about requests, and does not depend on what Check         *)
(* computes; the second is about documents: Analyze is exact, and what     *)
(* Check accepts is affordable.                                            *)
(***************************************************************************)
EXTENDS GraphRequest, FiniteSetTheorems, SequenceTheorems, WellFoundedInduction, TLAPS

\* Tokens are closed under the grammar.
LEMMA GrammarInTokens == \A d : Continuations(d) \subseteq Tokens
  <1>0. /\ PlainTokens \subseteq Tokens /\ Commented \subseteq Tokens
        /\ {Directive, Spread, Inline, Fragment, Veil} \subseteq Tokens
    BY DEF Tokens
  <1>1. \A d : FieldNames(d) \subseteq Tokens
    BY <1>0 DEF FieldNames, PlainTokens
  <1>2. /\ Pages \subseteq Tokens
        /\ {Open, Close, Text, Alias, Name("query")} \subseteq Tokens
    BY <1>0 DEF PlainTokens
  <1> HIDE DEF Pages, Commented, Directive, Spread, Inline, Fragment, Veil, Open, Close, Text, Alias
  <1>3. \A d : Grammar(d) \subseteq Tokens
    BY <1>0, <1>1, <1>2 DEF Grammar
  <1>4. \A d : Rarely(d) \subseteq Tokens
    BY <1>0, <1>2 DEF Rarely
  <1> QED
    BY <1>3, <1>4 DEF Continuations

LEMMA EmptyLoaderTyped == EmptyLoader \in Loader
  BY BoundsAssumption DEF EmptyLoader, Loader, NotCached

LEMMA WaitingTyped == Waiting \in Request
  BY BoundsAssumption DEF Waiting, Request, Fields, Queries, Mutations, NoField, Rank

\* The ways in which a request's record changes.
LEMMA RequestFields ==
    ASSUME NEW r \in Request
    PROVE  /\ \A at \in {"accepted", "refused", "done"} : [r EXCEPT !.at = at] \in Request
           /\ \A role \in DOMAIN Rank, kind \in {Queries, Mutations}, e \in BOOLEAN :
                [r EXCEPT !.at = "running", !.role = role, !.kind = kind, !.plan = e] \in Request
           /\ \A field \in Fields \cup {NoField} : r.n + 1 \in 0..MaxFields =>
                [r EXCEPT !.n = @ + 1, !.field = field] \in Request
           /\ \A user \in BOOLEAN : [r EXCEPT !.field = NoField, !.nested = @ \/ user] \in Request
  <1>1. \A at \in {"accepted", "refused", "done"} : [r EXCEPT !.at = at] \in Request
    BY DEF Request
  <1>2. ASSUME NEW role \in DOMAIN Rank, NEW kind \in {Queries, Mutations}, NEW e \in BOOLEAN
        PROVE  [r EXCEPT !.at = "running", !.role = role, !.kind = kind, !.plan = e] \in Request
    BY DEF Request
  <1>3. ASSUME NEW field \in Fields \cup {NoField}, r.n + 1 \in 0..MaxFields
        PROVE  [r EXCEPT !.n = @ + 1, !.field = field] \in Request
    BY <1>3 DEF Request
  <1>4. ASSUME NEW user \in BOOLEAN
        PROVE  [r EXCEPT !.field = NoField, !.nested = @ \/ user] \in Request
    BY DEF Request
  <1> QED
    BY <1>1, <1>2, <1>3, <1>4

LEMMA TypeInit == Init => TypeOK
  BY EmptyLoaderTyped, WaitingTyped, BoundsAssumption DEF Init, TypeOK, Gone

LEMMA ChangedTyped ==
    ASSUME TypeOK, NEW t \in Tenants, NEW v \in Gone..MaxVersion, Changed(t, v)
    PROVE  /\ row' \in [Tenants -> Gone..MaxVersion]
           /\ since' \in [Requests -> SUBSET (Gone..MaxVersion)]
  BY DEF TypeOK, Changed

LEMMA ResolvedTyped ==
    ASSUME TypeOK, NEW q \in Requests, NEW user \in BOOLEAN
    PROVE  Resolved(q, user) \in [Requests -> Request]
  <1> DEFINE r == [req[q] EXCEPT !.field = NoField, !.nested = @ \/ user]
  <1>1. r \in Request
    BY RequestFields DEF TypeOK
  <1>2. Resolved(q, user) = [req EXCEPT ![q] = r]
    BY DEF Resolved
  <1> HIDE DEF r
  <1> QED
    BY <1>1, <1>2 DEF TypeOK

LEMMA StoredTyped ==
    ASSUME TypeOK, NEW l \in Loader, NEW keys \in SUBSET Tenants
    PROVE  Stored(l, keys) \in Loader
  BY BoundsAssumption DEF TypeOK, Stored, Loader, NotCached, Gone

LEMMA PrimeTyped ==
    ASSUME TypeOK, NEW q \in Requests, NEW keys \in SUBSET Tenants
    PROVE  Prime(q, keys) \in [Requests -> Loader]
  <1>1. Pending(q, keys) \in SUBSET Tenants
    BY DEF Pending
  <1>2. loader[q] \in Loader
    BY DEF TypeOK
  <1>3. Stored(loader[q], Pending(q, keys)) \in Loader
    BY <1>1, <1>2, StoredTyped
  <1> QED
    BY <1>3 DEF TypeOK, Prime

LEMMA LoadTyped ==
    ASSUME TypeOK, NEW l \in Loader, NEW t \in Tenants
    PROVE  Load(l, t) \in Loader
  <1> DEFINE c == [l.cache EXCEPT ![t] = row[t]]
  <1>1. c \in [Tenants -> NotCached..MaxVersion]
    BY BoundsAssumption DEF TypeOK, Loader, NotCached, Gone
  <1>2. Load(l, t) = [cache |-> c, missed |-> l.missed, queries |-> l.queries + 1]
    BY DEF Load
  <1>3. l.missed \in SUBSET Tenants /\ l.queries + 1 \in Nat
    BY DEF Loader
  <1> HIDE DEF c
  <1> QED
    BY <1>1, <1>2, <1>3 DEF Loader

LEMMA TypeNext == TypeOK /\ [Next]_vars => TypeOK'
  <1> SUFFICES ASSUME TypeOK, [Next]_vars PROVE TypeOK'
    OBVIOUS
  <1> USE DEF past
  <1>1. CASE Write
    <2>1. PICK tok \in Continuations(doc) : doc' = Append(doc, tok)
      BY <1>1 DEF Write
    <2>2. doc' \in Seq(Tokens)
      BY <2>1, GrammarInTokens DEF TypeOK
    <2> QED
      BY <1>1, <2>2 DEF Write, TypeOK, data
  <1>2. CASE Admit
    <2>1. \A q \in Requests, at \in {"accepted", "refused"} : [req[q] EXCEPT !.at = at] \in Request
      BY RequestFields DEF TypeOK
    <2>2. req' \in [Requests -> Request]
      BY <1>2, <2>1 DEF Admit, TypeOK
    <2>3. doc' \in Seq(Tokens)
      <3>1. doc' = <<>>
        BY <1>2 DEF Admit
      <3> QED
        BY <3>1, EmptySeq
    <2>4. UNCHANGED <<row, plan, grant, loader, since, entitled, answers>>
      BY <1>2 DEF Admit, data
    <2> QED
      BY <2>2, <2>3, <2>4 DEF TypeOK
  <1>3. ASSUME NEW q \in Requests, Begin(q) PROVE TypeOK'
    <2>1. PICK role \in rolesOf[q], kind \in {Queries, Mutations} :
            req' = [req EXCEPT ![q] = [req[q] EXCEPT !.at = "running", !.role = role, !.kind = kind,
                                                     !.plan = tenantOf[q] \in plan]]
      BY <1>3 DEF Begin
    <2>2. role \in DOMAIN Rank
      BY <2>1, CallersAssumption DEF Rank
    <2>3. req' \in [Requests -> Request]
      <3> DEFINE e == tenantOf[q] \in plan
      <3>1. e \in BOOLEAN /\ req[q] \in Request
        BY DEF TypeOK
      <3>2. req' = [req EXCEPT ![q] = [req[q] EXCEPT !.at = "running", !.role = role, !.kind = kind,
                                                     !.plan = e]]
        BY <2>1
      <3> HIDE DEF e
      <3>3. [req[q] EXCEPT !.at = "running", !.role = role, !.kind = kind, !.plan = e] \in Request
        BY <2>2, <3>1, RequestFields
      <3> QED
        BY <3>2, <3>3 DEF TypeOK
    <2>4. row[tenantOf[q]] \in Gone..MaxVersion
      BY CallersAssumption DEF TypeOK
    <2>5. entitled' \in SUBSET Requests
      BY <1>3 DEF Begin, TypeOK
    <2> QED
      BY <1>3, <2>3, <2>4, <2>5, EmptyLoaderTyped DEF Begin, TypeOK, NewLoaders, data
  <1>4. ASSUME NEW q \in Requests, Decorate(q) PROVE TypeOK'
    <2>1. PICK g \in req[q].kind \cup {NoField} : req' = Reached(q, g)
      BY <1>4 DEF Decorate
    <2>2. g \in Fields \cup {NoField}
      BY <2>1 DEF TypeOK, Request, Fields
    <2>3. req[q].n + 1 \in 0..MaxFields
      BY <1>4, BoundsAssumption DEF Decorate, TypeOK, Request
    <2>4. req' \in [Requests -> Request]
      <3> DEFINE r == [req[q] EXCEPT !.n = @ + 1, !.field = g]
      <3>1. r \in Request
        BY <2>2, <2>3, RequestFields DEF TypeOK
      <3>2. req' = [req EXCEPT ![q] = r]
        BY <2>1 DEF Reached
      <3> HIDE DEF r
      <3> QED
        BY <3>1, <3>2 DEF TypeOK
    <2> QED
      BY <1>4, <2>4 DEF Decorate, TypeOK, data
  <1>5. ASSUME NEW q \in Requests, Users(q) PROVE TypeOK'
    <2>1. req' \in [Requests -> Request]
      BY <1>5, ResolvedTyped DEF Users
    <2>2. {tenantOf[q]} \in SUBSET Tenants
      BY CallersAssumption
    <2>3. loader' \in [Requests -> Loader]
      <3>1. Prime(q, {tenantOf[q]}) \in [Requests -> Loader]
        BY <2>2, PrimeTyped
      <3>2. loader' = loader \/ loader' = Prime(q, {tenantOf[q]})
        BY <1>5 DEF Users
      <3> QED
        BY <3>1, <3>2 DEF TypeOK
    <2> QED
      BY <1>5, <2>1, <2>3 DEF Users, TypeOK, data
  <1>6. ASSUME NEW q \in Requests, User(q) PROVE TypeOK'
    BY <1>6, ResolvedTyped DEF User, TypeOK, data
  <1>7. ASSUME NEW q \in Requests, Other(q) PROVE TypeOK'
    BY <1>7, ResolvedTyped DEF Other, TypeOK, data
  <1>8. ASSUME NEW q \in Requests, UpdateTenant(q) PROVE TypeOK'
    <2>1. req' \in [Requests -> Request]
      BY <1>8, ResolvedTyped DEF UpdateTenant
    <2>2. CASE UNCHANGED <<row, since>>
      BY <1>8, <2>1, <2>2 DEF UpdateTenant, TypeOK
    <2>3. CASE row[tenantOf[q]] \in 1..(MaxVersion - 1) /\ Changed(tenantOf[q], row[tenantOf[q]] + 1)
      <3>1. row[tenantOf[q]] + 1 \in Gone..MaxVersion
        BY <2>3, BoundsAssumption DEF Gone
      <3>2. row' \in [Tenants -> Gone..MaxVersion] /\ since' \in [Requests -> SUBSET (Gone..MaxVersion)]
        BY <2>3, <3>1, CallersAssumption, ChangedTyped
      <3> QED
        BY <1>8, <2>1, <3>2 DEF UpdateTenant, TypeOK
    <2> QED
      BY <1>8, <2>2, <2>3 DEF UpdateTenant
  <1>9. ASSUME NEW q \in Requests, UserTenant(q) PROVE TypeOK'
    <2> DEFINE t == tenantOf[q]
    <2>1. t \in Tenants /\ row[t] \in Gone..MaxVersion /\ loader[q] \in Loader
      BY CallersAssumption DEF TypeOK
    <2>2. Load(loader[q], t) \in Loader
      BY <2>1, LoadTyped
    <2>3. loader' \in [Requests -> Loader]
      BY <1>9, <2>2 DEF UserTenant, TypeOK
    <2>4. loader[q].cache[t] # NotCached => loader[q].cache[t] \in Gone..MaxVersion
      BY <2>1, BoundsAssumption DEF Loader, NotCached, Gone
    <2>5. Gone \in Gone..MaxVersion
      BY BoundsAssumption DEF Gone
    <2>6. answers' \in [Requests -> SUBSET (Gone..MaxVersion)]
      BY <1>9, <2>1, <2>4, <2>5 DEF UserTenant, TypeOK
    <2> QED
      BY <1>9, <2>3, <2>6 DEF UserTenant, TypeOK, data
  <1>10. ASSUME NEW q \in Requests, Finish(q) PROVE TypeOK'
    <2>1. [Waiting EXCEPT !.at = "done"] \in Request
      BY WaitingTyped DEF Request
    <2> QED
      BY <1>10, <2>1, EmptyLoaderTyped DEF Finish, TypeOK, data
  <1>11. ASSUME NEW t \in Tenants, Operate(t) PROVE TypeOK'
    <2>1. Gone \in Gone..MaxVersion
      BY BoundsAssumption DEF Gone
    <2>2. CASE /\ row[t] < MaxVersion /\ Changed(t, row[t] + 1)
               /\ UNCHANGED <<plan, grant, entitled>>
      <3>1. row[t] + 1 \in Gone..MaxVersion
        BY <2>2, BoundsAssumption DEF TypeOK, Gone
      <3> QED
        BY <1>11, <2>2, <3>1, ChangedTyped DEF Operate, TypeOK
    <2>3. CASE Changed(t, Gone) /\ UNCHANGED <<plan, grant, entitled>>
      BY <1>11, <2>1, <2>3, ChangedTyped DEF Operate, TypeOK
    <2>4. CASE UNCHANGED <<row, since>>
      <3>1. /\ UNCHANGED <<doc, req, loader, answers>>
            /\ \/ UNCHANGED plan /\ grant' = Toggled(grant, t)
               \/ UNCHANGED grant /\ plan' = Toggled(plan, t)
               \/ UNCHANGED <<plan, grant>>
            /\ UNCHANGED entitled
                 \/ \E more \in SUBSET Requests : entitled' = entitled \cup more
        BY <1>11 DEF Operate
      <3>2. Toggled(plan, t) \in SUBSET Tenants /\ Toggled(grant, t) \in SUBSET Tenants
        BY DEF Toggled, TypeOK
      <3>3. plan' \in SUBSET Tenants /\ grant' \in SUBSET Tenants /\ entitled' \in SUBSET Requests
        BY <3>1, <3>2 DEF TypeOK
      <3> QED
        BY <2>4, <3>1, <3>3 DEF TypeOK
    <2> QED
      BY <1>11, <2>2, <2>3, <2>4 DEF Operate
  <1>12. CASE UNCHANGED vars
    BY <1>12 DEF vars, TypeOK
  <1> QED
    BY <1>1, <1>2, <1>3, <1>4, <1>5, <1>6, <1>7, <1>8, <1>9, <1>10, <1>11, <1>12 DEF Next

\* Documents, requests, loaders and histories keep their types.
THEOREM TypeCorrect == Spec => []TypeOK
  BY TypeInit, TypeNext, PTL DEF Spec

-----------------------------------------------------------------------------
(* What a loader knows about its request's tenant is the only answer it    *)
(* can give, and it learns it in one query, at a moment of the request.    *)
Known(q) ==
    IF loader[q].cache[tenantOf[q]] # NotCached THEN {loader[q].cache[tenantOf[q]]}
    ELSE IF tenantOf[q] \in loader[q].missed THEN {Gone} ELSE {}

Story(q) ==
    /\ Running(q) => row[tenantOf[q]] \in since[q]
    /\ ~Running(q) => loader[q] = EmptyLoader
    /\ Known(q) \subseteq since[q]
    /\ answers[q] \subseteq Known(q)
    /\ tenantOf[q] \in loader[q].missed => loader[q].cache[tenantOf[q]] = NotCached
    /\ loader[q].queries = IF Known(q) = {} THEN 0 ELSE 1

Stories == \A q \in Requests : Story(q)

LEMMA EmptyKnowsNothing ==
    ASSUME NEW q \in Requests, loader[q] = EmptyLoader
    PROVE  Known(q) = {} /\ tenantOf[q] \notin loader[q].missed /\ loader[q].queries = 0
  BY CallersAssumption DEF Known, EmptyLoader

LEMMA StoryInit == Init => Stories
  <1> SUFFICES ASSUME Init, NEW q \in Requests PROVE Story(q)
    BY DEF Stories
  <1>1. loader[q] = EmptyLoader /\ answers[q] = {} /\ ~Running(q)
    BY DEF Init, Waiting, Running
  <1> QED
    BY <1>1, EmptyKnowsNothing DEF Story

\* A request that is left alone keeps its story, also when its row changes.
LEMMA StoryStays ==
    ASSUME TypeOK, NEW q \in Requests, Story(q),
           loader'[q] = loader[q], answers'[q] = answers[q], Running(q)' <=> Running(q),
           since[q] \subseteq since'[q],
           Running(q) => row'[tenantOf[q]] \in since'[q]
    PROVE  Story(q)'
  <1>1. Known(q)' = Known(q)
    BY DEF Known
  <1> QED
    BY <1>1 DEF Story

LEMMA ChangedKeepsStories ==
    ASSUME TypeOK, Stories, NEW t \in Tenants, NEW v \in Gone..MaxVersion, Changed(t, v),
           UNCHANGED <<loader, answers>>, \A q \in Requests : Running(q)' <=> Running(q)
    PROVE  Stories'
  <1> SUFFICES ASSUME NEW q \in Requests PROVE Story(q)'
    BY DEF Stories
  <1>1. since[q] \subseteq since'[q]
    BY DEF Changed, TypeOK
  <1>2. ASSUME Running(q) PROVE row'[tenantOf[q]] \in since'[q]
    <2>1. CASE tenantOf[q] = t
      BY <1>2, <2>1 DEF Changed, TypeOK
    <2>2. CASE tenantOf[q] # t
      BY <1>2, <2>2, CallersAssumption DEF Changed, TypeOK, Stories, Story
    <2> QED
      BY <2>1, <2>2
  <1> QED
    BY <1>1, <1>2, StoryStays DEF Stories

\* The same when neither rows nor loaders change.
LEMMA QuietKeepsStories ==
    ASSUME TypeOK, Stories, UNCHANGED <<row, loader, since, answers>>,
           \A q \in Requests : Running(q)' <=> Running(q)
    PROVE  Stories'
  BY StoryStays DEF Stories, Story

\* The end of a field's body leaves the requests running, and no body begun.
LEMMA ResolvedRuns ==
    ASSUME TypeOK, NEW p \in Requests, NEW user, req' = Resolved(p, user)
    PROVE  \A q \in Requests : /\ Running(q)' <=> Running(q)
                               /\ req'[q].plan => req[q].plan
                               /\ req'[q].field # NoField => req'[q].field = req[q].field
  <1>1. req[p] \in Request
    BY DEF TypeOK
  <1> DEFINE r == [req[p] EXCEPT !.field = NoField, !.nested = @ \/ user]
  <1>2. r.at = req[p].at /\ (r.plan => req[p].plan) /\ r.field = NoField
    BY <1>1 DEF Request
  <1>3. req' = [req EXCEPT ![p] = r]
    BY DEF Resolved
  <1> HIDE DEF r
  <1>4. req'[p] = r /\ \A q \in Requests \ {p} : req'[q] = req[q]
    BY <1>3 DEF TypeOK
  <1> QED
    BY <1>2, <1>4 DEF Running

\* Neither does its decorator.
LEMMA ReachedRuns ==
    ASSUME TypeOK, NEW p \in Requests, NEW f, req' = Reached(p, f)
    PROVE  \A q \in Requests : /\ Running(q)' <=> Running(q)
                               /\ req'[q].plan => req[q].plan
                               /\ q # p => req'[q] = req[q]
                               /\ q = p => req'[q].field = f
  <1>1. req[p] \in Request
    BY DEF TypeOK
  <1> DEFINE r == [req[p] EXCEPT !.n = @ + 1, !.field = f]
  <1>2. r.at = req[p].at /\ (r.plan => req[p].plan) /\ r.field = f
    BY <1>1 DEF Request
  <1>3. req' = [req EXCEPT ![p] = r]
    BY DEF Reached
  <1> HIDE DEF r
  <1>4. req'[p] = r /\ \A q \in Requests \ {p} : req'[q] = req[q]
    BY <1>3 DEF TypeOK
  <1> QED
    BY <1>2, <1>4 DEF Running

LEMMA StoryNext == TypeOK /\ Stories /\ [Next]_vars => Stories'
  <1> SUFFICES ASSUME TypeOK, Stories, [Next]_vars PROVE Stories'
    OBVIOUS
  <1> USE DEF past
  <1>1. CASE Write
    BY <1>1, QuietKeepsStories DEF Write, data, Running
  <1>2. CASE Admit
    <2>1. ASSUME NEW q \in Requests PROVE ~Running(q) /\ ~Running(q)'
      <3>1. req'[q] = [req[q] EXCEPT !.at = IF Check(doc) = "" THEN "accepted" ELSE "refused"]
        BY <1>2 DEF Admit
      <3>2. req'[q].at \in {"accepted", "refused"}
        <4>1. req[q] \in Request
          BY DEF TypeOK
        <4> QED
          BY <3>1, <4>1 DEF Request
      <3> QED
        BY <1>2, <3>2 DEF Admit, Running
    <2> QED
      BY <1>2, <2>1, QuietKeepsStories DEF Admit, data
  <1>3. ASSUME NEW p \in Requests, Begin(p) PROVE Stories'
    <2> SUFFICES ASSUME NEW q \in Requests PROVE Story(q)'
      BY DEF Stories
    <2>1. CASE q = p
      <3>1. ~Running(p) /\ Running(p)'
        BY <1>3 DEF Begin, Running, TypeOK
      <3>2. loader'[p] = EmptyLoader /\ answers'[p] = answers[p] /\ row'[tenantOf[p]] \in since'[p]
        BY <1>3 DEF Begin, NewLoaders, TypeOK, data
      <3>3. Known(p) = {} /\ answers[p] = {}
        BY <3>1, EmptyKnowsNothing DEF Stories, Story
      <3>4. Known(p)' = {} /\ tenantOf[p] \notin loader'[p].missed /\ loader'[p].queries = 0
        BY <3>2, CallersAssumption DEF Known, EmptyLoader
      <3> QED
        BY <2>1, <3>1, <3>2, <3>3, <3>4 DEF Story
    <2>2. CASE q # p
      BY <1>3, <2>2, StoryStays DEF Begin, Stories, Story, TypeOK, Running, data
    <2> QED
      BY <2>1, <2>2
  <1>4. ASSUME NEW p \in Requests, Decorate(p) PROVE Stories'
    <2>1. \E g : req' = Reached(p, g)
      BY <1>4 DEF Decorate
    <2>2. \A q \in Requests : Running(q)' <=> Running(q)
      BY <2>1, ReachedRuns
    <2> QED
      BY <1>4, <2>2, QuietKeepsStories DEF Decorate, data
  <1>5. ASSUME NEW p \in Requests, Users(p) PROVE Stories'
    <2> SUFFICES ASSUME NEW q \in Requests PROVE Story(q)'
      BY DEF Stories
    <2> DEFINE t == tenantOf[p]
    <2>1. Running(p) /\ Running(p)' /\ UNCHANGED <<row, since, answers>>
      BY <1>5, ResolvedRuns DEF Users, data
    <2>2. CASE q = p /\ loader' # loader
      <3>1. loader' = Prime(p, {t}) /\ Pending(p, {t}) # {}
        BY <1>5, <2>2 DEF Users, Prime
      <3>2. Pending(p, {t}) = {t} /\ loader[p].cache[t] = NotCached /\ t \notin loader[p].missed
        BY <3>1 DEF Pending
      <3>3. loader'[p] = Stored(loader[p], {t})
        BY <3>1, <3>2 DEF Prime, TypeOK
      <3>4. Known(p) = {} /\ answers[p] = {} /\ loader[p].queries = 0 /\ row[t] \in since[p]
        BY <2>1, <3>2 DEF Known, Stories, Story
      <3>5. t \in Tenants /\ row[t] \in Gone..MaxVersion /\ loader'[p].queries = 1
        BY <3>3, <3>4, CallersAssumption DEF Stored, TypeOK
      <3>6. CASE row[t] = Gone
        <4>1. loader'[p].cache[t] = NotCached /\ t \in loader'[p].missed
          BY <3>2, <3>3, <3>5, <3>6 DEF Stored
        <4> QED
          BY <2>1, <2>2, <3>4, <3>5, <3>6, <4>1 DEF Story, Known
      <3>7. CASE row[t] # Gone
        <4>1. loader'[p].cache[t] = row[t] /\ t \notin loader'[p].missed
          BY <3>2, <3>3, <3>5, <3>7 DEF Stored
        <4>2. row[t] # NotCached
          BY <3>5, BoundsAssumption DEF Gone, NotCached
        <4> QED
          BY <2>1, <2>2, <3>4, <3>5, <4>1, <4>2 DEF Story, Known
      <3> QED
        BY <3>6, <3>7
    <2>3. CASE q # p \/ loader' = loader
      <3>1. loader'[q] = loader[q]
        BY <1>5, <2>3 DEF Users, Prime, TypeOK
      <3>2. Running(q)' <=> Running(q)
        BY <1>5, <2>1 DEF Users, Resolved, Running, TypeOK
      <3> QED
        BY <2>1, <3>1, <3>2, StoryStays DEF Stories, Story
    <2> QED
      BY <2>2, <2>3
  <1>6. ASSUME NEW p \in Requests, User(p) PROVE Stories'
    <2>1. \A q \in Requests : Running(q)' <=> Running(q)
      BY <1>6 DEF User, Resolved, Running, TypeOK
    <2> QED
      BY <1>6, <2>1, QuietKeepsStories DEF User, data
  <1>7. ASSUME NEW p \in Requests, Other(p) PROVE Stories'
    <2>1. \A q \in Requests : Running(q)' <=> Running(q)
      BY <1>7 DEF Other, Resolved, Running, TypeOK
    <2> QED
      BY <1>7, <2>1, QuietKeepsStories DEF Other, data
  <1>8. ASSUME NEW p \in Requests, UpdateTenant(p) PROVE Stories'
    <2>1. \A q \in Requests : Running(q)' <=> Running(q)
      BY <1>8 DEF UpdateTenant, Resolved, Running, TypeOK
    <2>2. CASE UNCHANGED <<row, since>>
      BY <1>8, <2>1, <2>2, QuietKeepsStories DEF UpdateTenant
    <2>3. CASE row[tenantOf[p]] \in 1..(MaxVersion - 1) /\ Changed(tenantOf[p], row[tenantOf[p]] + 1)
      <3>1. row[tenantOf[p]] + 1 \in Gone..MaxVersion /\ tenantOf[p] \in Tenants
        BY <2>3, BoundsAssumption, CallersAssumption DEF Gone
      <3> QED
        BY <1>8, <2>1, <2>3, <3>1, ChangedKeepsStories DEF UpdateTenant
    <2> QED
      BY <1>8, <2>2, <2>3 DEF UpdateTenant
  <1>9. ASSUME NEW p \in Requests, UserTenant(p) PROVE Stories'
    <2> SUFFICES ASSUME NEW q \in Requests PROVE Story(q)'
      BY DEF Stories
    <2> DEFINE t == tenantOf[p]
    <2>1. Running(p) /\ UNCHANGED <<req, row, since>>
      BY <1>9 DEF UserTenant, data
    <2>2. CASE q # p
      BY <1>9, <2>1, <2>2, StoryStays DEF UserTenant, Stories, Story, Running, TypeOK
    <2>3. CASE q = p
      <3>1. CASE loader[p].cache[t] # NotCached
        <4>1. loader' = loader /\ answers'[p] = answers[p] \cup {loader[p].cache[t]}
          BY <1>9, <3>1 DEF UserTenant, TypeOK
        <4> QED
          BY <2>1, <2>3, <3>1, <4>1 DEF Stories, Story, Known, Running
      <3>2. CASE loader[p].cache[t] = NotCached /\ t \in loader[p].missed
        <4>1. loader' = loader /\ answers'[p] = answers[p] \cup {Gone}
          BY <1>9, <3>2 DEF UserTenant, TypeOK
        <4> QED
          BY <2>1, <2>3, <3>2, <4>1 DEF Stories, Story, Known, Running
      <3>3. CASE loader[p].cache[t] = NotCached /\ t \notin loader[p].missed
        <4>1. Known(p) = {} /\ answers[p] = {} /\ loader[p].queries = 0 /\ row[t] \in since[p]
          BY <2>1, <3>3 DEF Known, Stories, Story
        <4>2. row[t] # Gone /\ loader'[p] = Load(loader[p], t) /\ answers'[p] = {row[t]}
          BY <1>9, <3>3, <4>1 DEF UserTenant, TypeOK
        <4>3. t \in Tenants /\ row[t] # NotCached
          BY CallersAssumption, BoundsAssumption DEF TypeOK, Gone, NotCached
        <4>4. loader'[p].cache[t] = row[t] /\ t \notin loader'[p].missed /\ loader'[p].queries = 1
          BY <3>3, <4>1, <4>2, <4>3 DEF Load, TypeOK, Loader
        <4> QED
          BY <2>1, <2>3, <4>1, <4>2, <4>3, <4>4 DEF Story, Known, Running
      <3> QED
        BY <3>1, <3>2, <3>3
    <2> QED
      BY <2>2, <2>3
  <1>10. ASSUME NEW p \in Requests, Finish(p) PROVE Stories'
    <2> SUFFICES ASSUME NEW q \in Requests PROVE Story(q)'
      BY DEF Stories
    <2>1. CASE q = p
      <3>1. loader'[p] = EmptyLoader /\ answers'[p] = {} /\ ~Running(p)'
        BY <1>10 DEF Finish, TypeOK, Running, Waiting
      <3>2. Known(p)' = {} /\ tenantOf[p] \notin loader'[p].missed /\ loader'[p].queries = 0
        BY <3>1, CallersAssumption DEF Known, EmptyLoader
      <3> QED
        BY <2>1, <3>1, <3>2 DEF Story
    <2>2. CASE q # p
      BY <1>10, <2>2, StoryStays DEF Finish, Stories, Story, TypeOK, Running, data
    <2> QED
      BY <2>1, <2>2
  <1>11. ASSUME NEW t \in Tenants, Operate(t) PROVE Stories'
    <2>1. \A q \in Requests : Running(q)' <=> Running(q)
      BY <1>11 DEF Operate, Running
    <2>2. Gone \in Gone..MaxVersion
      BY BoundsAssumption DEF Gone
    <2>3. CASE row[t] < MaxVersion /\ Changed(t, row[t] + 1)
      <3>1. row[t] + 1 \in Gone..MaxVersion
        BY <2>3, BoundsAssumption DEF TypeOK, Gone
      <3> QED
        BY <1>11, <2>1, <2>3, <3>1, ChangedKeepsStories DEF Operate
    <2>4. CASE Changed(t, Gone)
      BY <1>11, <2>1, <2>2, <2>4, ChangedKeepsStories DEF Operate
    <2>5. CASE UNCHANGED <<row, since>>
      BY <1>11, <2>1, <2>5, QuietKeepsStories DEF Operate
    <2> QED
      BY <1>11, <2>3, <2>4, <2>5 DEF Operate
  <1>12. CASE UNCHANGED vars
    BY <1>12, QuietKeepsStories DEF vars, Running
  <1> QED
    BY <1>1, <1>2, <1>3, <1>4, <1>5, <1>6, <1>7, <1>8, <1>9, <1>10, <1>11, <1>12 DEF Next

LEMMA StoryCorrect == Spec => []Stories
  BY TypeCorrect, StoryInit, StoryNext, PTL DEF Spec

\* Whatever a request answers about a tenant was true while it executed.
THEOREM AnswersAreCurrent == Spec => []AnswersWereCurrent
  <1>1. Stories => AnswersWereCurrent
    BY DEF Stories, Story, AnswersWereCurrent
  <1> QED
    BY <1>1, StoryCorrect, PTL

\* A request gives one answer about its tenant, from one query.
THEOREM OneAnswer == Spec => []AnswersAgree
  <1>1. ASSUME TypeOK, Stories PROVE AnswersAgree
    <2> SUFFICES ASSUME NEW q \in Requests
                 PROVE  Cardinality(answers[q]) <= 1 /\ loader[q].queries <= 1
      BY DEF AnswersAgree
    <2>1. PICK x : answers[q] \subseteq {x}
      BY <1>1 DEF Stories, Story, Known
    <2>2. Cardinality(answers[q]) <= 1
      <3>1. answers[q] = {} \/ answers[q] = {x}
        BY <2>1
      <3>2. CASE answers[q] = {}
        BY <3>2, FS_EmptySet
      <3>3. CASE answers[q] = {x}
        <4>1. Cardinality({x}) = 1
          BY FS_Singleton
        <4> QED
          BY <3>3, <4>1
      <3> QED
        BY <3>1, <3>2, <3>3
    <2> QED
      BY <1>1, <2>2 DEF Stories, Story
  <1> QED
    BY <1>1, TypeCorrect, StoryCorrect, PTL

-----------------------------------------------------------------------------
(* The tenant of a request that executes with a plan that includes the     *)
(* exports, or that holds a grant now, has been entitled since the request *)
(* was authenticated.                                                      *)
Remembered(q) ==
    Running(q) /\ (req[q].plan \/ tenantOf[q] \in grant) => q \in entitled

Remembers == \A q \in Requests : Remembered(q)

LEMMA RememberedInit == Init => Remembers
  BY DEF Init, Waiting, Running, Remembers, Remembered

\* A step that neither begins nor ends a request, and grants nothing.
LEMMA RememberedStays ==
    ASSUME Remembers, UNCHANGED grant, entitled \subseteq entitled',
           \A q \in Requests : (Running(q)' => Running(q)) /\ (req'[q].plan => req[q].plan)
    PROVE  Remembers'
  BY DEF Remembers, Remembered

LEMMA RememberedNext == TypeOK /\ Remembers /\ [Next]_vars => Remembers'
  <1> SUFFICES ASSUME TypeOK, Remembers, [Next]_vars PROVE Remembers'
    OBVIOUS
  <1>1. CASE UNCHANGED <<req, grant, entitled>>
    BY <1>1 DEF Remembers, Remembered, Running
  <1>2. CASE Admit
    <2> SUFFICES ASSUME NEW q \in Requests PROVE ~Running(q)'
      BY DEF Remembers, Remembered
    <2>1. req'[q] = [req[q] EXCEPT !.at = IF Check(doc) = "" THEN "accepted" ELSE "refused"]
      BY <1>2 DEF Admit
    <2>2. req[q] \in Request
      BY DEF TypeOK
    <2> QED
      BY <2>1, <2>2 DEF Running, Request
  <1>3. ASSUME NEW p \in Requests, Begin(p) PROVE Remembers'
    <2> SUFFICES ASSUME NEW q \in Requests PROVE Remembered(q)'
      BY DEF Remembers
    <2> DEFINE e == tenantOf[p] \in plan
    <2>1. PICK role, kind :
            req' = [req EXCEPT ![p] = [req[p] EXCEPT !.at = "running", !.role = role,
                                                     !.kind = kind, !.plan = e]]
      BY <1>3 DEF Begin
    <2>2. /\ UNCHANGED grant
          /\ entitled' = entitled \cup {r \in {p} : tenantOf[r] \in plan \cup grant}
      BY <1>3 DEF Begin, data
    <2>3. e => tenantOf[p] \in plan
      OBVIOUS
    <2> HIDE DEF e
    <2>4. CASE q = p
      <3>1. req'[p].plan => e
        BY <2>1 DEF TypeOK, Request
      <3> QED
        BY <2>2, <2>3, <2>4, <3>1 DEF Remembered
    <2>5. CASE q # p
      BY <2>1, <2>2, <2>5 DEF Remembers, Remembered, Running, TypeOK
    <2> QED
      BY <2>4, <2>5
  <1>4. ASSUME NEW p \in Requests, Decorate(p) PROVE Remembers'
    <2>1. \E f : req' = Reached(p, f)
      BY <1>4 DEF Decorate
    <2> QED
      BY <1>4, <2>1, ReachedRuns, RememberedStays DEF Decorate, data, past
  <1>5. ASSUME NEW p \in Requests, NEW user, req' = Resolved(p, user),
               UNCHANGED <<grant, entitled>>
        PROVE  Remembers'
    BY <1>5, ResolvedRuns, RememberedStays
  <1>6. ASSUME NEW p \in Requests, Finish(p) PROVE Remembers'
    <2> SUFFICES ASSUME NEW q \in Requests PROVE Remembered(q)'
      BY DEF Remembers
    <2>1. CASE q = p
      BY <1>6, <2>1 DEF Finish, TypeOK, Running, Waiting, Remembered
    <2>2. CASE q # p
      BY <1>6, <2>2 DEF Finish, TypeOK, Running, Remembers, Remembered, data
    <2> QED
      BY <2>1, <2>2
  <1>7. ASSUME NEW t \in Tenants, Operate(t) PROVE Remembers'
    <2>1. UNCHANGED req
      BY <1>7 DEF Operate
    <2>2. CASE UNCHANGED <<plan, grant, entitled>>
      BY <1>1, <2>1, <2>2
    <2>3. CASE /\ \/ plan' = Toggled(plan, t) /\ UNCHANGED grant
                  \/ grant' = Toggled(grant, t)
               /\ entitled' = entitled \cup {q \in Requests : /\ Running(q) /\ tenantOf[q] = t
                                                           /\ t \in plan' \cup grant'}
      <3> SUFFICES ASSUME NEW q \in Requests PROVE Remembered(q)'
        BY DEF Remembers
      <3>1. CASE tenantOf[q] = t /\ t \in grant'
        BY <2>1, <2>3, <3>1 DEF Remembered, Running
      <3>2. CASE tenantOf[q] \in grant' => tenantOf[q] \in grant
        BY <2>1, <2>3, <3>2 DEF Remembers, Remembered, Running
      <3>3. CASE tenantOf[q] # t
        BY <2>1, <2>3, <3>3 DEF Remembers, Remembered, Running, Toggled
      <3> QED
        BY <3>1, <3>2, <3>3
    <2> QED
      BY <1>7, <2>2, <2>3 DEF Operate
  <1> QED
    BY <1>1, <1>2, <1>3, <1>4, <1>5, <1>6, <1>7
    DEF Next, Write, Users, User, Other, UpdateTenant, UserTenant, vars, data, past

LEMMA RememberedCorrect == Spec => []Remembers
  BY TypeCorrect, RememberedInit, RememberedNext, PTL DEF Spec

\* The decorator of a field is at least as strict as the gate of the REST
\* route, and what it reads of a plan or a grant the tenant has had since the
\* request was authenticated: no step begins a field's body for a caller whom
\* REST would refuse during all of the request.
THEOREM GraphQLIsNoWeaker == Spec => NoWeakerThanRest
  <1> DEFINE Gated == \A q \in Requests :
                        req'[q].field # NoField /\ req[q].field = NoField
                          => Admits(RestGate(req'[q].field), req[q].role, q \in entitled)
  <1>1. ASSUME NEW f \in Fields, NEW role, NEW e, NEW h, e => h, Admits(Decorator(f), role, e)
        PROVE  Admits(RestGate(f), role, h)
    BY <1>1 DEF Admits, Decorator, RestGate
  <1>2. ASSUME TypeOK, Remembers, [Next]_vars PROVE Gated
    <2> SUFFICES ASSUME NEW q \in Requests,
                        req'[q].field # NoField, req[q].field = NoField
                 PROVE  Admits(RestGate(req'[q].field), req[q].role, q \in entitled)
      OBVIOUS
    <2>1. PICK p \in Requests : Decorate(p)
      <3>1. CASE Admit
        <4>1. req'[q] = [req[q] EXCEPT !.at = IF Check(doc) = "" THEN "accepted" ELSE "refused"]
          BY <3>1 DEF Admit
        <4>2. req[q] \in Request
          BY <1>2 DEF TypeOK
        <4>3. req'[q].field = req[q].field
          BY <4>1, <4>2 DEF Request
        <4> QED
          BY <4>3
      <3>2. ASSUME NEW r \in Requests, Begin(r) PROVE FALSE
        <4> DEFINE e == tenantOf[r] \in plan
        <4>1. PICK role, kind :
                req' = [req EXCEPT ![r] = [req[r] EXCEPT !.at = "running", !.role = role,
                                                         !.kind = kind, !.plan = e]]
          BY <3>2 DEF Begin
        <4> HIDE DEF e
        <4>2. req'[r].field = req[r].field
          <5> DEFINE b == [req[r] EXCEPT !.at = "running", !.role = role, !.kind = kind, !.plan = e]
          <5>1. req[r] \in Request
            BY <1>2 DEF TypeOK
          <5>2. b.field = req[r].field
            BY <5>1 DEF Request
          <5>3. req' = [req EXCEPT ![r] = b]
            BY <4>1
          <5> HIDE DEF b
          <5> QED
            BY <1>2, <5>2, <5>3 DEF TypeOK
        <4>3. q # r => req'[q] = req[q]
          BY <1>2, <4>1 DEF TypeOK
        <4> QED
          BY <4>2, <4>3
      <3>3. ASSUME NEW r \in Requests, NEW user, req' = Resolved(r, user) PROVE FALSE
        BY <1>2, <3>3, ResolvedRuns
      <3>4. ASSUME NEW r \in Requests, Finish(r) PROVE FALSE
        BY <1>2, <3>4 DEF Finish, Waiting, TypeOK
      <3>5. req' # req
        OBVIOUS
      <3> QED
        BY <1>2, <3>1, <3>2, <3>3, <3>4, <3>5
        DEF Next, Write, Users, User, Other, UpdateTenant, UserTenant, Operate, vars
    <2> DEFINE e == req[p].plan \/ tenantOf[p] \in grant
    <2>2. /\ Running(p)
          /\ \E f \in req[p].kind :
               \/ Admits(Decorator(f), req[p].role, e) /\ req' = Reached(p, f)
               \/ req' = Reached(p, NoField)
      BY <2>1 DEF Decorate
    <2>3. e => p \in entitled
      BY <1>2, <2>2 DEF Remembers, Remembered
    <2> HIDE DEF e
    <2>4. PICK f \in req[p].kind : \/ Admits(Decorator(f), req[p].role, e) /\ req' = Reached(p, f)
                                   \/ req' = Reached(p, NoField)
      BY <2>2
    <2>5. req' # Reached(p, NoField)
      BY <1>2, ReachedRuns
    <2>6. Admits(Decorator(f), req[p].role, e) /\ req' = Reached(p, f)
      BY <2>4, <2>5
    <2>7. q = p /\ req'[q].field = f
      BY <1>2, <2>6, ReachedRuns
    <2>8. f \in Fields
      BY <1>2 DEF TypeOK, Request, Fields
    <2>9. Admits(RestGate(f), req[p].role, p \in entitled)
      BY <1>1, <2>3, <2>6, <2>8
    <2> QED
      BY <2>7, <2>9
  <1>3. Spec => [][Gated]_vars
    BY <1>2, TypeCorrect, RememberedCorrect, PTL DEF Spec
  <1> QED
    BY <1>3 DEF NoWeakerThanRest

-----------------------------------------------------------------------------
(* Induction over the subsets of a finite set, and folds over them: the    *)
(* community modules define folds by a CHOOSE over recursive functions.    *)

\* What holds of a finite set whenever it holds of its proper subsets.
LEMMA SubsetInduction ==
    ASSUME NEW S, IsFiniteSet(S), NEW B \in SUBSET SUBSET S,
           \A s \in SUBSET S : (\A u \in SUBSET s : u # s => u \in B) => s \in B
    PROVE  \A s \in SUBSET S : s \in B
  <1> DEFINE bad == (SUBSET S) \ B
  <1>1. IsWellFoundedOn(StrictSubsetOrdering(S), SUBSET S)
    BY FS_StrictSubsetOrderingWellFounded, FS_FiniteSubsetsOfFinite
  <1>2. ASSUME bad # {} PROVE FALSE
    <2>1. \E s \in bad : \A u \in bad : ~(<<u, s>> \in StrictSubsetOrdering(S))
      <3>1. bad \subseteq SUBSET S
        OBVIOUS
      <3> HIDE DEF bad
      <3> QED  BY <1>1, <1>2, <3>1, WFMin
    <2>2. PICK s \in bad : \A u \in bad : ~(<<u, s>> \in StrictSubsetOrdering(S))
      BY <2>1
    <2>3. \A u \in SUBSET s : u # s => u \in B
      BY <2>2 DEF StrictSubsetOrdering
    <2> QED  BY <2>3
  <1> QED  BY <1>2

\* g folds G over the subsets of S: MapThenFoldSet, with what it is given as
\* functions.
IsFold(g, S, V, base, pick, G) ==
    /\ g \in [SUBSET S -> V]
    /\ g[{}] = base
    /\ \A s \in SUBSET S : s # {} => g[s] = G[pick[s]][g[s \ {pick[s]}]]

Foldable(S, V, base, pick, G) ==
    /\ IsFiniteSet(S)
    /\ base \in V
    /\ \A s \in SUBSET S : s # {} => pick[s] \in s
    /\ G \in [S -> [V -> V]]

\* h computes what a fold would, as far as its values are in V.
Unfolds(h, S, V, base, pick, G) ==
    /\ h[{}] = base
    /\ \A s \in SUBSET S : s # {} /\ h[s \ {pick[s]}] \in V
          => h[s] = G[pick[s]][h[s \ {pick[s]}]]

\* Such a fold exists, and computes any value its recursion gives.
LEMMA FoldExists ==
    ASSUME NEW S, NEW V, NEW base, NEW pick, NEW G, Foldable(S, V, base, pick, G)
    PROVE  \E g : IsFold(g, S, V, base, pick, G)
  <1> DEFINE Upto(n) ==
        \E g \in [SUBSET S -> V] :
          /\ g[{}] = base
          /\ \A s \in SUBSET S : s # {} /\ Cardinality(s) <= n
                => g[s] = G[pick[s]][g[s \ {pick[s]}]]
  <1> DEFINE B == {s \in SUBSET S : Upto(Cardinality(s))}
  <1>1. \A s \in SUBSET S : IsFiniteSet(s) /\ Cardinality(s) \in Nat
    BY FS_Subset, FS_CardinalityType DEF Foldable
  <1>2. \A s \in SUBSET S : \A x \in s : Cardinality(s \ {x}) = Cardinality(s) - 1
    BY <1>1, FS_RemoveElement
  <1>3. \A s \in SUBSET S : s # {} => Cardinality(s) # 0
    BY <1>1, FS_EmptySet
  <1>4. ASSUME NEW n \in Nat, Upto(n) PROVE Upto(n + 1)
    <2>1. PICK g \in [SUBSET S -> V] :
            /\ g[{}] = base
            /\ \A s \in SUBSET S : s # {} /\ Cardinality(s) <= n
                  => g[s] = G[pick[s]][g[s \ {pick[s]}]]
      BY <1>4
    <2> DEFINE h == [s \in SUBSET S |-> IF s # {} /\ Cardinality(s) = n + 1
                                        THEN G[pick[s]][g[s \ {pick[s]}]] ELSE g[s]]
    <2>2. \A s \in SUBSET S : s # {} =>
             /\ pick[s] \in S /\ s \ {pick[s]} \in SUBSET S
             /\ G[pick[s]][g[s \ {pick[s]}]] \in V
      BY <2>1 DEF Foldable
    <2>3. h \in [SUBSET S -> V]
      BY <2>1, <2>2
    <2>4. ASSUME NEW s \in SUBSET S, Cardinality(s) <= n PROVE h[s] = g[s]
      <3>1. Cardinality(s) # n + 1
        <4> DEFINE c == Cardinality(s)
        <4>1. c \in Nat /\ c <= n
          BY <1>1, <2>4
        <4> HIDE DEF c
        <4>2. c # n + 1
          BY <4>1
        <4> QED  BY <4>2 DEF c
      <3> QED  BY <3>1
    <2>5. h[{}] = base
      BY <2>1
    <2>6. \A s \in SUBSET S : s # {} /\ Cardinality(s) <= n + 1
             => h[s] = G[pick[s]][h[s \ {pick[s]}]]
      <3> SUFFICES ASSUME NEW s \in SUBSET S, s # {}, Cardinality(s) <= n + 1
                   PROVE  h[s] = G[pick[s]][h[s \ {pick[s]}]]
        OBVIOUS
      <3>1. pick[s] \in s /\ s \ {pick[s]} \in SUBSET S
        BY DEF Foldable
      <3>2. Cardinality(s \ {pick[s]}) <= n
        BY <3>1, <1>1, <1>2
      <3>3. h[s \ {pick[s]}] = g[s \ {pick[s]}]
        BY <3>1, <3>2, <2>4
      <3>4. h[s] = G[pick[s]][g[s \ {pick[s]}]]
        <4>1. h[s] = IF Cardinality(s) = n + 1 THEN G[pick[s]][g[s \ {pick[s]}]] ELSE g[s]
          OBVIOUS
        <4>2. Cardinality(s) \in Nat
          BY <1>1
        <4> HIDE DEF h
        <4>3. CASE Cardinality(s) = n + 1
          BY <4>1, <4>3
        <4>4. CASE Cardinality(s) # n + 1
          <5>1. Cardinality(s) <= n
            BY <4>2, <4>4
          <5> QED  BY <2>1, <4>1, <4>4, <5>1
        <4> QED  BY <4>3, <4>4
      <3> HIDE DEF h
      <3> QED  BY <3>3, <3>4
    <2> HIDE DEF h
    <2> QED  BY <2>3, <2>5, <2>6
  <1>5. Upto(0)
    <2> DEFINE g == [s \in SUBSET S |-> base]
    <2>1. g \in [SUBSET S -> V] /\ g[{}] = base
      BY DEF Foldable
    <2>2. \A s \in SUBSET S : ~(s # {} /\ Cardinality(s) <= 0)
      BY <1>1, <1>3
    <2> HIDE DEF g
    <2> QED  BY <2>1, <2>2
  <1> HIDE DEF Upto
  <1>6. ASSUME NEW s \in SUBSET S, \A u \in SUBSET s : u # s => u \in B PROVE s \in B
    <2>1. CASE s = {}
      BY <2>1, <1>5, FS_EmptySet
    <2>2. CASE s # {}
      <3>1. PICK x \in s : TRUE
        BY <2>2
      <3>2. Upto(Cardinality(s \ {x}))
        BY <1>6, <3>1
      <3>3. Cardinality(s) = Cardinality(s \ {x}) + 1 /\ Cardinality(s \ {x}) \in Nat
        BY <1>1, <1>2, <3>1
      <3>4. Upto(Cardinality(s))
        BY <1>4, <3>2, <3>3
      <3> QED  BY <3>4
    <2> QED  BY <2>1, <2>2
  <1>7. S \in B
    <2>1. B \in SUBSET SUBSET S /\ S \in SUBSET S /\ IsFiniteSet(S)
      BY DEF Foldable
    <2> HIDE DEF B
    <2> QED  BY <1>6, <2>1, SubsetInduction
  <1>8. Upto(Cardinality(S))
    BY <1>7
  <1>9. \A s \in SUBSET S : Cardinality(s) <= Cardinality(S)
    BY FS_Subset DEF Foldable
  <1> QED  BY <1>8, <1>9 DEF Upto, IsFold

\* Two folds agree on the sets they both know.
LEMMA FoldsAgree ==
    ASSUME NEW S, NEW V, NEW base, NEW pick, NEW G, Foldable(S, V, base, pick, G),
           NEW T, NEW H, NEW pick2, NEW g, NEW h, S \subseteq T,
           IsFold(g, S, V, base, pick, G), IsFold(h, T, V, base, pick2, H),
           \A s \in SUBSET S : s # {} => pick[s] = pick2[s],
           \A x \in S, v \in V : G[x][v] = H[x][v]
    PROVE  \A s \in SUBSET S : g[s] = h[s]
  <1> DEFINE B == {s \in SUBSET S : g[s] = h[s]}
  <1>1. ASSUME NEW s \in SUBSET S, \A u \in SUBSET s : u # s => u \in B PROVE s \in B
    <2>1. CASE s = {}
      BY <2>1 DEF IsFold
    <2>2. CASE s # {}
      <3>1. pick[s] \in s /\ pick[s] = pick2[s] /\ s \in SUBSET T
        BY <2>2 DEF Foldable
      <3>2. g[s \ {pick[s]}] = h[s \ {pick[s]}] /\ g[s \ {pick[s]}] \in V
        <4>1. s \ {pick[s]} \in SUBSET s /\ s \ {pick[s]} # s
          BY <3>1
        <4> QED  BY <1>1, <4>1 DEF IsFold
      <3>3. g[s] = G[pick[s]][g[s \ {pick[s]}]] /\ h[s] = H[pick[s]][h[s \ {pick[s]}]]
        BY <2>2, <3>1 DEF IsFold
      <3>4. g[s] = h[s]
        BY <3>1, <3>2, <3>3
      <3> QED  BY <3>4
    <2> QED  BY <2>1, <2>2
  <1>2. B \in SUBSET SUBSET S /\ IsFiniteSet(S)
    BY DEF Foldable
  <1>3. \A s \in SUBSET S : s \in B
    <2> HIDE DEF B
    <2> QED  BY <1>1, <1>2, SubsetInduction
  <1> QED  BY <1>3

\* There is one fold only.
LEMMA FoldUnique ==
    ASSUME NEW S, NEW V, NEW base, NEW pick, NEW G, Foldable(S, V, base, pick, G),
           NEW g, IsFold(g, S, V, base, pick, G),
           NEW h, Unfolds(h, S, V, base, pick, G)
    PROVE  h[S] = g[S]
  <1> DEFINE B == {s \in SUBSET S : h[s] = g[s]}
  <1>1. ASSUME NEW s \in SUBSET S, \A u \in SUBSET s : u # s => u \in B PROVE s \in B
    <2>1. CASE s = {}
      BY <2>1 DEF IsFold, Unfolds
    <2>2. CASE s # {}
      <3>1. pick[s] \in s
        BY <2>2 DEF Foldable
      <3>2. h[s \ {pick[s]}] = g[s \ {pick[s]}] /\ g[s \ {pick[s]}] \in V
        <4>1. s \ {pick[s]} \in SUBSET s /\ s \ {pick[s]} # s
          BY <3>1
        <4> QED  BY <1>1, <4>1 DEF IsFold
      <3>3. g[s] = G[pick[s]][g[s \ {pick[s]}]] /\ h[s] = G[pick[s]][h[s \ {pick[s]}]]
        BY <2>2, <3>2 DEF IsFold, Unfolds
      <3> QED  BY <3>2, <3>3
    <2> QED  BY <2>1, <2>2
  <1>2. B \in SUBSET SUBSET S /\ IsFiniteSet(S)
    BY DEF Foldable
  <1>3. \A s \in SUBSET S : s \in B
    <2> HIDE DEF B
    <2> QED  BY <1>1, <1>2, SubsetInduction
  <1> QED  BY <1>3

Swaps(G, S, V) == \A x \in S, y \in S, v \in V : G[x][G[y][v]] = G[y][G[x][v]]

\* When the order does not matter, any element may come last.
LEMMA FoldAnyOrder ==
    ASSUME NEW S, NEW V, NEW base, NEW pick, NEW G, Foldable(S, V, base, pick, G),
           NEW g, IsFold(g, S, V, base, pick, G),
           Swaps(G, S, V), NEW z \in S
    PROVE  g[S] = G[z][g[S \ {z}]]
  <1> DEFINE B == {s \in SUBSET S : \A x \in s : g[s] = G[x][g[s \ {x}]]}
  <1>1. ASSUME NEW s \in SUBSET S, \A u \in SUBSET s : u # s => u \in B PROVE s \in B
    <2> SUFFICES ASSUME NEW x \in s PROVE g[s] = G[x][g[s \ {x}]]
      OBVIOUS
    <2> DEFINE c == pick[s]
    <2>1. c \in s /\ g[s] = G[c][g[s \ {c}]]
      BY DEF Foldable, IsFold
    <2>2. CASE c = x
      BY <2>1, <2>2
    <2>3. CASE c # x
      <3> DEFINE rest == (s \ {c}) \ {x}
      <3>1. /\ s \ {c} \in SUBSET s /\ s \ {c} # s /\ x \in s \ {c}
            /\ s \ {x} \in SUBSET s /\ s \ {x} # s /\ c \in s \ {x}
            /\ (s \ {x}) \ {c} = rest /\ rest \in SUBSET S
            /\ x \in S /\ c \in S
        BY <2>1, <2>3
      <3> HIDE DEF c
      <3>2. g[s \ {c}] = G[x][g[rest]]
        BY <1>1, <3>1
      <3>3. g[s \ {x}] = G[c][g[rest]]
        BY <1>1, <3>1
      <3>4. g[rest] \in V
        BY <3>1 DEF IsFold
      <3> HIDE DEF rest
      <3> QED  BY <2>1, <3>1, <3>2, <3>3, <3>4 DEF Swaps
    <2> QED  BY <2>2, <2>3
  <1>2. B \in SUBSET SUBSET S /\ IsFiniteSet(S)
    BY DEF Foldable
  <1>3. \A s \in SUBSET S : s \in B
    <2> HIDE DEF B
    <2> QED  BY <1>1, <1>2, SubsetInduction
  <1> QED  BY <1>3

-----------------------------------------------------------------------------
(* Sums and products of functions with integer values.                     *)

Pick(S) == [s \in SUBSET S |-> CHOOSE x \in s : TRUE]
Adds(w) == [x \in DOMAIN w |-> [v \in Int |-> w[x] + v]]
Times(w) == [x \in DOMAIN w |-> [v \in Int |-> w[x] * v]]
Folded(S, V, base, pick, G) == (CHOOSE g : IsFold(g, S, V, base, pick, G))[S]
SumOver(S, w) == Folded(S, Int, 0, Pick(S), Adds(w))
ProductOver(S, w) == Folded(S, Int, 1, Pick(S), Times(w))

\* Adding and multiplying are foldable, in any order.
LEMMA SumFoldable ==
    ASSUME NEW S, IsFiniteSet(S), NEW w \in [S -> Int]
    PROVE  /\ Foldable(S, Int, 0, Pick(S), Adds(w))
           /\ \A x \in S, v \in Int : Adds(w)[x][v] = w[x] + v
  BY DEF Foldable, Pick, Adds

LEMMA ProductFoldable ==
    ASSUME NEW S, IsFiniteSet(S), NEW w \in [S -> Int]
    PROVE  /\ Foldable(S, Int, 1, Pick(S), Times(w))
           /\ \A x \in S, v \in Int : Times(w)[x][v] = w[x] * v
  <1>1. \A x \in S, v \in Int : w[x] * v \in Int
    OBVIOUS
  <1>2. DOMAIN w = S /\ \A x \in S : [v \in Int |-> w[x] * v] \in [Int -> Int]
    BY <1>1
  <1>3. Times(w) \in [S -> [Int -> Int]]
    BY <1>2 DEF Times
  <1>4. \A s \in SUBSET S : s # {} => Pick(S)[s] \in s
    BY DEF Pick
  <1>5. \A x \in S, v \in Int : Times(w)[x][v] = w[x] * v
    BY <1>2 DEF Times
  <1> QED  BY <1>3, <1>4, <1>5 DEF Foldable

\* The CHOOSE of a fold is a fold.
LEMMA FoldedIsFold ==
    ASSUME NEW S, NEW V, NEW base, NEW pick, NEW G, Foldable(S, V, base, pick, G)
    PROVE  /\ \E g : IsFold(g, S, V, base, pick, G) /\ Folded(S, V, base, pick, G) = g[S]
           /\ Folded(S, V, base, pick, G) \in V
           /\ S = {} => Folded(S, V, base, pick, G) = base
  <1> DEFINE g == CHOOSE g : IsFold(g, S, V, base, pick, G)
  <1>1. IsFold(g, S, V, base, pick, G)
    BY FoldExists
  <1>2. Folded(S, V, base, pick, G) = g[S]
    BY DEF Folded
  <1> HIDE DEF g
  <1>3. g[S] \in V /\ g[{}] = base
    BY <1>1 DEF IsFold
  <1> QED  BY <1>1, <1>2, <1>3

\* What unfolds like a fold has its value.
LEMMA FoldedUnfolds ==
    ASSUME NEW S, NEW V, NEW base, NEW pick, NEW G, Foldable(S, V, base, pick, G),
           NEW h, Unfolds(h, S, V, base, pick, G)
    PROVE  h[S] = Folded(S, V, base, pick, G)
  BY FoldedIsFold, FoldUnique

\* A fold over one element more, when that element may come last.
LEMMA FoldedAdd ==
    ASSUME NEW S, NEW V, NEW base, NEW pick, NEW G, Foldable(S, V, base, pick, G),
           NEW x, x \notin S, NEW T, T = S \cup {x},
           NEW pick2, NEW H, Foldable(T, V, base, pick2, H),
           \A s \in SUBSET S : s # {} => pick[s] = pick2[s],
           \A y \in S, v \in V : G[y][v] = H[y][v],
           \/ pick2[T] = x
           \/ Swaps(H, T, V)
    PROVE  Folded(T, V, base, pick2, H) = H[x][Folded(S, V, base, pick, G)]
  <1>1. PICK g : IsFold(g, S, V, base, pick, G) /\ Folded(S, V, base, pick, G) = g[S]
    BY FoldedIsFold
  <1>2. PICK h : IsFold(h, T, V, base, pick2, H) /\ Folded(T, V, base, pick2, H) = h[T]
    BY FoldedIsFold
  <1>3. g[S] = h[S]
    <2>1. S \subseteq T /\ S \in SUBSET S
      OBVIOUS
    <2>2. \A s \in SUBSET S : g[s] = h[s]
      BY <1>1, <1>2, <2>1, FoldsAgree
    <2> QED  BY <2>1, <2>2
  <1>4. T \in SUBSET T /\ T # {} /\ x \in T /\ T \ {x} = S
    OBVIOUS
  <1>5. h[T] = H[x][h[S]]
    <2>1. CASE pick2[T] = x
      <3>1. h[T] = H[pick2[T]][h[T \ {pick2[T]}]]
        BY <1>2, <1>4 DEF IsFold
      <3> QED  BY <1>4, <2>1, <3>1
    <2>2. CASE Swaps(H, T, V)
      <3>1. h[T] = H[x][h[T \ {x}]]
        BY <1>2, <1>4, <2>2, FoldAnyOrder
      <3> QED  BY <1>4, <3>1
    <2> QED  BY <2>1, <2>2
  <1> QED  BY <1>1, <1>2, <1>3, <1>5

\* u gives weights to x and to the elements of S, to these the ones w gives.
Widens(S, x, w, u) ==
    /\ IsFiniteSet(S) /\ x \notin S
    /\ w \in [S -> Int] /\ u \in [S \cup {x} -> Int]
    /\ \A y \in S : w[y] = u[y]

\* One element more adds its weight to the sum.
LEMMA SumAdd ==
    ASSUME NEW S, NEW x, NEW w, NEW u, Widens(S, x, w, u)
    PROVE  /\ SumOver(S, w) \in Int
           /\ SumOver(S \cup {x}, u) = u[x] + SumOver(S, w)
  <1> USE DEF Widens
  <1> DEFINE T == S \cup {x}
  <1>1. Foldable(S, Int, 0, Pick(S), Adds(w)) /\ \A y \in S, v \in Int : Adds(w)[y][v] = w[y] + v
    BY SumFoldable
  <1>2. IsFiniteSet(T)
    BY FS_AddElement
  <1>3. Foldable(T, Int, 0, Pick(T), Adds(u)) /\ \A y \in T, v \in Int : Adds(u)[y][v] = u[y] + v
    BY <1>2, SumFoldable
  <1>4. \A s \in SUBSET S : s # {} => Pick(S)[s] = Pick(T)[s]
    BY DEF Pick
  <1>5. \A y \in S, v \in Int : Adds(w)[y][v] = Adds(u)[y][v]
    BY <1>1, <1>3
  <1>6. Swaps(Adds(u), T, Int)
    <2> SUFFICES ASSUME NEW y \in T, NEW z \in T, NEW v \in Int
                 PROVE  Adds(u)[y][Adds(u)[z][v]] = Adds(u)[z][Adds(u)[y][v]]
      BY DEF Swaps
    <2>1. u[y] \in Int /\ u[z] \in Int
      OBVIOUS
    <2>2. Adds(u)[y][Adds(u)[z][v]] = u[y] + (u[z] + v)
      BY <1>3, <2>1
    <2>3. Adds(u)[z][Adds(u)[y][v]] = u[z] + (u[y] + v)
      BY <1>3, <2>1
    <2> QED  BY <2>1, <2>2, <2>3
  <1>7. SumOver(S, w) \in Int
    <2>1. Folded(S, Int, 0, Pick(S), Adds(w)) \in Int
      BY <1>1, FoldedIsFold
    <2> QED  BY <2>1 DEF SumOver
  <1>8. SumOver(T, u) = Adds(u)[x][SumOver(S, w)]
    <2> DEFINE p == Pick(S)
               q == Pick(T)
               A == Adds(w)
               C == Adds(u)
    <2>1. /\ Foldable(S, Int, 0, p, A) /\ Foldable(T, Int, 0, q, C)
          /\ \A s \in SUBSET S : s # {} => p[s] = q[s]
          /\ \A y \in S, v \in Int : A[y][v] = C[y][v]
          /\ Swaps(C, T, Int)
          /\ T = S \cup {x}
      BY <1>1, <1>3, <1>4, <1>5, <1>6
    <2>2. SumOver(S, w) = Folded(S, Int, 0, p, A) /\ SumOver(T, u) = Folded(T, Int, 0, q, C)
      BY DEF SumOver
    <2> HIDE DEF p, q, A, C, T
    <2>3. Folded(T, Int, 0, q, C) = C[x][Folded(S, Int, 0, p, A)]
      BY <2>1, FoldedAdd
    <2> QED  BY <2>2, <2>3 DEF C
  <1> QED  BY <1>3, <1>7, <1>8

\* One element more multiplies the product by its weight.
LEMMA ProductAdd ==
    ASSUME NEW S, NEW x, NEW w, NEW u, Widens(S, x, w, u)
    PROVE  /\ ProductOver(S, w) \in Int
           /\ ProductOver(S \cup {x}, u) = u[x] * ProductOver(S, w)
  <1> USE DEF Widens
  <1> DEFINE T == S \cup {x}
  <1>1. Foldable(S, Int, 1, Pick(S), Times(w)) /\ \A y \in S, v \in Int : Times(w)[y][v] = w[y] * v
    BY ProductFoldable
  <1>2. IsFiniteSet(T)
    BY FS_AddElement
  <1>3. Foldable(T, Int, 1, Pick(T), Times(u)) /\ \A y \in T, v \in Int : Times(u)[y][v] = u[y] * v
    BY <1>2, ProductFoldable
  <1>4. \A s \in SUBSET S : s # {} => Pick(S)[s] = Pick(T)[s]
    BY DEF Pick
  <1>5. \A y \in S, v \in Int : Times(w)[y][v] = Times(u)[y][v]
    BY <1>1, <1>3
  <1>6. Swaps(Times(u), T, Int)
    <2> SUFFICES ASSUME NEW y \in T, NEW z \in T, NEW v \in Int
                 PROVE  Times(u)[y][Times(u)[z][v]] = Times(u)[z][Times(u)[y][v]]
      BY DEF Swaps
    <2>1. u[y] \in Int /\ u[z] \in Int
      OBVIOUS
    <2>2. \A a \in Int, b \in Int : a * b \in Int
      OBVIOUS
    <2>3. Times(u)[y][Times(u)[z][v]] = u[y] * (u[z] * v)
      BY <1>3, <2>1, <2>2
    <2>4. Times(u)[z][Times(u)[y][v]] = u[z] * (u[y] * v)
      BY <1>3, <2>1, <2>2
    <2>5. \A a \in Int, b \in Int, c \in Int : a * (b * c) = b * (a * c)
      OBVIOUS
    <2> QED  BY <2>1, <2>3, <2>4, <2>5
  <1>7. ProductOver(S, w) \in Int
    <2>1. Folded(S, Int, 1, Pick(S), Times(w)) \in Int
      BY <1>1, FoldedIsFold
    <2> QED  BY <2>1 DEF ProductOver
  <1>8. ProductOver(T, u) = Times(u)[x][ProductOver(S, w)]
    <2> DEFINE p == Pick(S)
               q == Pick(T)
               A == Times(w)
               C == Times(u)
    <2>1. /\ Foldable(S, Int, 1, p, A) /\ Foldable(T, Int, 1, q, C)
          /\ \A s \in SUBSET S : s # {} => p[s] = q[s]
          /\ \A y \in S, v \in Int : A[y][v] = C[y][v]
          /\ Swaps(C, T, Int)
          /\ T = S \cup {x}
      BY <1>1, <1>3, <1>4, <1>5, <1>6
    <2>2. ProductOver(S, w) = Folded(S, Int, 1, p, A) /\ ProductOver(T, u) = Folded(T, Int, 1, q, C)
      BY DEF ProductOver
    <2> HIDE DEF p, q, A, C, T
    <2>3. Folded(T, Int, 1, q, C) = C[x][Folded(S, Int, 1, p, A)]
      BY <2>1, FoldedAdd
    <2> QED  BY <2>2, <2>3 DEF C
  <1> QED  BY <1>3, <1>7, <1>8

\* The empty sum is 0, the empty product 1.
LEMMA EmptyFolds ==
    /\ \A w \in [{} -> Int] : SumOver({}, w) = 0
    /\ \A w \in [{} -> Int] : ProductOver({}, w) = 1
  <1>1. ASSUME NEW w \in [{} -> Int] PROVE SumOver({}, w) = 0
    <2>1. Foldable({}, Int, 0, Pick({}), Adds(w))
      BY FS_EmptySet, SumFoldable
    <2>2. Folded({}, Int, 0, Pick({}), Adds(w)) = 0
      BY <2>1, FoldedIsFold
    <2> QED  BY <2>2 DEF SumOver
  <1>2. ASSUME NEW w \in [{} -> Int] PROVE ProductOver({}, w) = 1
    <2>1. Foldable({}, Int, 1, Pick({}), Times(w))
      BY FS_EmptySet, ProductFoldable
    <2>2. Folded({}, Int, 1, Pick({}), Times(w)) = 1
      BY <2>1, FoldedIsFold
    <2> QED  BY <2>2 DEF ProductOver
  <1> QED  BY <1>1, <1>2

-----------------------------------------------------------------------------
(* The folds of GraphCost as sums and products.                            *)

\* The product of the weights of the selection sets that enclose position i.
Share(d, weight, i) == FoldSet(LAMBDA j, product : weight[j] * product, 1, Enclosing(d, i))

\* Weighted is the sum of the shares of the fields.
LEMMA WeightedIsSum ==
    ASSUME NEW d, NEW weight, IsFiniteSet(Positions(d)), \A i \in Positions(d) : Share(d, weight, i) \in Int
    PROVE  Weighted(d, weight) = SumOver(Positions(d), [i \in Positions(d) |-> Share(d, weight, i)])
  <1> DEFINE S == Positions(d)
             w == [i \in S |-> Share(d, weight, i)]
             it == CHOOSE f : f = [s \in SUBSET S |->
                     IF s = {} THEN 0
                     ELSE Share(d, weight, CHOOSE x \in s : TRUE) + f[s \ {CHOOSE x \in s : TRUE}]]
  <1>1. Weighted(d, weight) = it[S]
    BY DEF Weighted, MapThenSumSet, MapThenFoldSet, Share
  <1>0. w \in [S -> Int] /\ IsFiniteSet(S) /\ \A i \in S : w[i] = Share(d, weight, i)
    OBVIOUS
  <1>2. PICK g : IsFold(g, S, Int, 0, Pick(S), Adds(w))
    <2> HIDE DEF w, S
    <2> QED  BY <1>0, SumFoldable, FoldExists
  <1>3. g = [s \in SUBSET S |->
                     IF s = {} THEN 0
                     ELSE Share(d, weight, CHOOSE x \in s : TRUE) + g[s \ {CHOOSE x \in s : TRUE}]]
    <2>1. ASSUME NEW s \in SUBSET S, s # {}
          PROVE g[s] = Share(d, weight, CHOOSE x \in s : TRUE) + g[s \ {CHOOSE x \in s : TRUE}]
      <3> DEFINE c == CHOOSE x \in s : TRUE
      <3>1. c \in s /\ Pick(S)[s] = c
        BY <2>1 DEF Pick
      <3>2. g[s] = Adds(w)[c][g[s \ {c}]] /\ g[s \ {c}] \in Int
        BY <1>2, <2>1, <3>1 DEF IsFold
      <3>3. Adds(w)[c][g[s \ {c}]] = w[c] + g[s \ {c}]
        BY <3>1, <3>2, SumFoldable
      <3> QED  BY <3>1, <3>2, <3>3
    <2> HIDE DEF S
    <2> QED  BY <1>2, <2>1 DEF IsFold
  <1>4. it = [s \in SUBSET S |->
                     IF s = {} THEN 0
                     ELSE Share(d, weight, CHOOSE x \in s : TRUE) + it[s \ {CHOOSE x \in s : TRUE}]]
    <2> HIDE DEF S
    <2> QED  BY <1>3
  <1>5. Unfolds(it, S, Int, 0, Pick(S), Adds(w))
    <2>1. it[{}] = 0
      BY <1>4
    <2>2. ASSUME NEW s \in SUBSET S, s # {}, it[s \ {Pick(S)[s]}] \in Int
          PROVE  it[s] = Adds(w)[Pick(S)[s]][it[s \ {Pick(S)[s]}]]
      <3> DEFINE c == CHOOSE x \in s : TRUE
      <3>1. c \in s /\ Pick(S)[s] = c
        BY <2>2 DEF Pick
      <3>2. it[s] = Share(d, weight, c) + it[s \ {c}]
        BY <1>4, <2>2
      <3>3. Adds(w)[c][it[s \ {c}]] = w[c] + it[s \ {c}]
        <4>1. c \in S /\ it[s \ {c}] \in Int
          BY <2>2, <3>1
        <4> HIDE DEF it
        <4> QED  BY <4>1, SumFoldable
      <3> HIDE DEF it
      <3> QED  BY <3>1, <3>2, <3>3
    <2> HIDE DEF it, S, w
    <2> QED  BY <2>1, <2>2 DEF Unfolds
  <1> HIDE DEF it, S, w
  <1>6. it[S] = Folded(S, Int, 0, Pick(S), Adds(w))
    BY <1>0, <1>5, SumFoldable, FoldedUnfolds
  <1> QED  BY <1>1, <1>6 DEF SumOver, w, S

\* A share is a product over the enclosing selection sets.
LEMMA ShareIsProduct ==
    ASSUME NEW d, NEW weight, NEW i, IsFiniteSet(Enclosing(d, i)),
           \A j \in Enclosing(d, i) : weight[j] \in Int
    PROVE  Share(d, weight, i) = ProductOver(Enclosing(d, i), [j \in Enclosing(d, i) |-> weight[j]])
  <1> DEFINE S == Enclosing(d, i)
             w == [j \in S |-> weight[j]]
             it == CHOOSE f : f = [s \in SUBSET S |->
                     IF s = {} THEN 1
                     ELSE weight[CHOOSE x \in s : TRUE] * f[s \ {CHOOSE x \in s : TRUE}]]
  <1>1. Share(d, weight, i) = it[S]
    BY DEF Share, FoldSet, MapThenFoldSet
  <1>0. w \in [S -> Int] /\ IsFiniteSet(S) /\ \A j \in S : w[j] = weight[j]
    OBVIOUS
  <1>2. PICK g : IsFold(g, S, Int, 1, Pick(S), Times(w))
    <2> HIDE DEF w, S
    <2> QED  BY <1>0, ProductFoldable, FoldExists
  <1>3. g = [s \in SUBSET S |->
                     IF s = {} THEN 1
                     ELSE weight[CHOOSE x \in s : TRUE] * g[s \ {CHOOSE x \in s : TRUE}]]
    <2>1. ASSUME NEW s \in SUBSET S, s # {}
          PROVE g[s] = weight[CHOOSE x \in s : TRUE] * g[s \ {CHOOSE x \in s : TRUE}]
      <3> DEFINE c == CHOOSE x \in s : TRUE
      <3>1. c \in s /\ Pick(S)[s] = c
        BY <2>1 DEF Pick
      <3>2. g[s] = Times(w)[c][g[s \ {c}]] /\ g[s \ {c}] \in Int
        BY <1>2, <2>1, <3>1 DEF IsFold
      <3>3. Times(w)[c][g[s \ {c}]] = w[c] * g[s \ {c}]
        BY <3>1, <3>2, ProductFoldable
      <3> QED  BY <3>1, <3>2, <3>3
    <2> HIDE DEF S
    <2> QED  BY <1>2, <2>1 DEF IsFold
  <1>4. it = [s \in SUBSET S |->
                     IF s = {} THEN 1
                     ELSE weight[CHOOSE x \in s : TRUE] * it[s \ {CHOOSE x \in s : TRUE}]]
    <2> HIDE DEF S
    <2> QED  BY <1>3
  <1>5. Unfolds(it, S, Int, 1, Pick(S), Times(w))
    <2>1. it[{}] = 1
      BY <1>4
    <2>2. ASSUME NEW s \in SUBSET S, s # {}, it[s \ {Pick(S)[s]}] \in Int
          PROVE  it[s] = Times(w)[Pick(S)[s]][it[s \ {Pick(S)[s]}]]
      <3> DEFINE c == CHOOSE x \in s : TRUE
      <3>1. c \in s /\ Pick(S)[s] = c
        BY <2>2 DEF Pick
      <3>2. it[s] = weight[c] * it[s \ {c}]
        BY <1>4, <2>2
      <3>3. Times(w)[c][it[s \ {c}]] = w[c] * it[s \ {c}]
        <4>1. c \in S /\ it[s \ {c}] \in Int
          BY <2>2, <3>1
        <4> HIDE DEF it
        <4> QED  BY <4>1, ProductFoldable
      <3> HIDE DEF it
      <3> QED  BY <3>1, <3>2, <3>3
    <2> HIDE DEF it, S, w
    <2> QED  BY <2>1, <2>2 DEF Unfolds
  <1> HIDE DEF it, S, w
  <1>6. it[S] = Folded(S, Int, 1, Pick(S), Times(w))
    BY <1>0, <1>5, ProductFoldable, FoldedUnfolds
  <1> QED  BY <1>1, <1>6 DEF ProductOver, w, S

-----------------------------------------------------------------------------
(* Names for the parts of a document, and what tokens are.                 *)

Hint(d, j) == PageMultiplier(ArgsOf(d, j))
Hints(d) == [j \in DOMAIN d |-> PageMultiplier(ArgsOf(d, j))]
Factor(d, i) == Share(d, Hints(d), i)

\* A finite set of integers has a greatest element.
LEMMA MaxOf ==
    ASSUME NEW S, IsFiniteSet(S), S \subseteq Int, S # {}
    PROVE  Max(S) \in S /\ \A y \in S : y <= Max(S)
  <1> DEFINE Tops(s) == \E x \in s : \A y \in s : x >= y
             B == {s \in SUBSET S : s # {} => Tops(s)}
  <1>1. ASSUME NEW s \in SUBSET S, \A u \in SUBSET s : u # s => u \in B PROVE s \in B
    <2> SUFFICES ASSUME s # {} PROVE Tops(s)
      OBVIOUS
    <2>1. PICK z \in s : TRUE
      OBVIOUS
    <2>2. s \ {z} \in B
      BY <1>1, <2>1
    <2>3. CASE s = {z}
      BY <2>1, <2>3
    <2>4. CASE s # {z}
      <3>1. PICK x \in s \ {z} : \A y \in s \ {z} : x >= y
        BY <2>2, <2>4
      <3>2. x \in Int /\ z \in Int
        OBVIOUS
      <3>3. CASE x >= z
        BY <3>1, <3>3
      <3>4. CASE z > x
        <4>1. \A y \in s : z >= y
          <5> SUFFICES ASSUME NEW y \in s, y # z PROVE z >= y
            BY <3>2
          <5>1. x >= y /\ y \in Int
            BY <3>1
          <5> QED  BY <3>2, <3>4, <5>1
        <4> QED  BY <4>1, <2>1
      <3> QED  BY <3>2, <3>3, <3>4
    <2> QED  BY <2>3, <2>4
  <1>2. B \in SUBSET SUBSET S
    OBVIOUS
  <1>3. \A s \in SUBSET S : s \in B
    <2> HIDE DEF B
    <2> QED  BY <1>1, <1>2, SubsetInduction
  <1>4. PICK x \in S : \A y \in S : x >= y
    BY <1>3
  <1>5. Max(S) \in S /\ \A y \in S : Max(S) >= y
    BY <1>4 DEF Max
  <1>6. ASSUME NEW y \in S PROVE y <= Max(S)
    <2>1. y \in Int /\ Max(S) \in Int /\ Max(S) >= y
      BY <1>5
    <2> QED  BY <2>1
  <1> QED  BY <1>5, <1>6

-----------------------------------------------------------------------------
(* Plain documents are sequences of plain tokens, written by the grammar   *)
(* without directives, fragments and comments in argument lists.           *)

\* The tokens that are not ignored, and the last of them.
SaidIn(d) == {i \in DOMAIN d : d[i] # Text}
LastIn(d) == IF SaidIn(d) = {} THEN Text ELSE d[Max(SaidIn(d))]

PlainFollows(d) ==
    LET last == LastIn(d)
    IN CASE last = Text -> {Open} \cup (IF Extras(d) = 0 THEN {Name("query")} ELSE {})
         [] last = Alias -> FieldNames(d) \ {Alias}
         [] last = Open -> FieldNames(d)
         [] last = Name("users") -> Pages \cup {Open}
         [] last \in {Name("query"), Name("nodes"), Name("tenant")} \cup Pages -> {Open}
         [] OTHER -> FieldNames(d) \cup {Close}
PlainNext(d) == IF Complete(d) THEN {} ELSE PlainFollows(d) \cup {Text}

\* Plain tokens are closed under the plain grammar.
LEMMA NextIsPlain == \A d : PlainNext(d) \subseteq PlainTokens
  <1>1. \A d : FieldNames(d) \subseteq PlainTokens
    BY DEF FieldNames, PlainTokens
  <1>2. \A d : PlainFollows(d) \subseteq PlainTokens
    BY <1>1 DEF PlainFollows, PlainTokens
  <1> QED
    BY <1>2 DEF PlainNext, PlainTokens

\* Tokens are told apart by what they are.
LEMMA TokenKinds ==
    ASSUME NEW t \in PlainTokens
    PROVE  /\ t = Open <=> t.is = "{"
           /\ t = Close <=> t.is = "}"
           /\ t = Text <=> t.is = "text"
           /\ t = Alias <=> t.is = "alias"
           /\ t \in Pages <=> t.is = "args"
           /\ t.is \in {"{", "}", "text", "alias", "name", "args"}
           /\ IsField(t) => t.is = "name"
           /\ t.is = "name" => t = Name("query") \/ (t \in FieldTokens /\ IsField(t))
           /\ t.is = "args" => t.says = 0
           /\ t \notin {Directive, Spread, Inline, Fragment, Veil} \cup Commented
  <1>1. /\ Open.is = "{" /\ Close.is = "}" /\ Text.is = "text" /\ Alias.is = "alias"
        /\ \A f : Name(f).is = "name" /\ Name(f).of = f
        /\ \A by, n : Args(by, n).is = "args"
    BY DEF Open, Close, Text, Alias, Name, Args
  <1>2. \A p \in Pages : p.is = "args"
    <2> SUFFICES ASSUME NEW p \in Pages PROVE p.is = "args"
      OBVIOUS
    <2>1. PICK by, n : p = Args(by, n)
      BY DEF Pages
    <2> QED  BY <1>1, <2>1
  <1>3. \A f \in {"name", "users", "nodes", "tenant", "__schema"} : IsField(Name(f))
    BY <1>1 DEF IsField, Reserved
  <1>4. \A f \in FieldTokens : f.is = "name" /\ IsField(f)
    BY <1>1, <1>3 DEF FieldTokens
  <1>9. \A p \in Pages : p.says = 0
    BY DEF Pages, Args
  <1>10. /\ Directive.is = "directive" /\ Spread.is = "spread" /\ Inline.is = "inline"
         /\ Fragment.is = "fragment" /\ Veil.is = "veil"
         /\ \A c \in Commented : c.is = "args" /\ c.says = 1
    <2>1. \A c \in Commented : c.is = "args" /\ c.says = 1
      BY DEF Commented, Pages, Args
    <2> QED  BY <2>1 DEF Directive, Spread, Inline, Fragment, Veil
  <1> HIDE DEF Open, Close, Text, Alias, Pages, Commented, Directive, Spread, Inline, Fragment, Veil
  <1>11. ASSUME t.is \in {"{", "}", "text", "alias", "name", "args"}, t.is = "args" => t.says = 0
         PROVE  t \notin {Directive, Spread, Inline, Fragment, Veil} \cup Commented
    <2>1. t \notin Commented
      <3> SUFFICES ASSUME t \in Commented PROVE FALSE
        OBVIOUS
      <3>1. t.is = "args" /\ t.says = 1
        BY <1>10
      <3>2. t.says = 0
        BY <1>11, <3>1
      <3> QED  BY <3>1, <3>2
    <2>2. \A x \in {Directive, Spread, Inline, Fragment, Veil} :
             x.is \in {"directive", "spread", "inline", "fragment", "veil"}
      BY <1>10
    <2>3. t.is \notin {"directive", "spread", "inline", "fragment", "veil"}
      BY <1>11
    <2> QED  BY <2>1, <2>2, <2>3
  <1>5. CASE t \in {Open, Close, Text, Alias}
    BY <1>1, <1>2, <1>5, <1>11 DEF IsField
  <1>6. CASE t = Name("query")
    BY <1>1, <1>2, <1>6, <1>11 DEF IsField
  <1>7. CASE t \in Pages
    BY <1>1, <1>2, <1>7, <1>9, <1>11 DEF IsField
  <1>8. CASE t \in FieldTokens
    BY <1>1, <1>2, <1>4, <1>8, <1>11
  <1> QED  BY <1>5, <1>6, <1>7, <1>8 DEF PlainTokens

\* Tokens that are not plain can be told.
LEMMA RareKinds ==
    ASSUME NEW t \in {Directive, Spread, Inline, Fragment, Veil} \cup Commented
    PROVE  \/ t.is \in {"directive", "spread", "inline", "fragment", "veil"}
           \/ t.is = "args" /\ t.says # 0
  <1>1. \A c \in Commented : c.is = "args" /\ c.says = 1
    BY DEF Commented, Pages, Args
  <1>2. CASE t \in Commented
    BY <1>1, <1>2
  <1>3. CASE t \in {Directive, Spread, Inline, Fragment, Veil}
    BY <1>3 DEF Directive, Spread, Inline, Fragment, Veil
  <1> QED  BY <1>2, <1>3

\* A plain document is written in plain tokens,
LEMMA PlainSeq ==
    ASSUME NEW d \in Seq(Tokens), Plain(d)
    PROVE  d \in Seq(PlainTokens)
  <1>1. ASSUME NEW i \in DOMAIN d PROVE d[i] \in PlainTokens
    <2>1. d[i] \in Tokens
      OBVIOUS
    <2>2. /\ d[i].is \notin {"directive", "spread", "inline", "fragment", "veil"}
          /\ d[i].is = "args" => d[i].says = 0
      BY DEF Plain
    <2> QED  BY <2>1, <2>2, RareKinds DEF Tokens
  <1>2. Len(d) \in Nat /\ d = [i \in 1..Len(d) |-> d[i]] /\ DOMAIN d = 1..Len(d)
    OBVIOUS
  <1>3. \A i \in 1..Len(d) : d[i] \in PlainTokens
    BY <1>1, <1>2
  <1> QED  BY <1>2, <1>3

\* and its beginning is plain.
LEMMA PlainPrefix ==
    ASSUME NEW d \in Seq(Tokens), NEW t \in Tokens, Plain(Append(d, t))
    PROVE  Plain(d) /\ t \in PlainTokens
  <1> DEFINE e == Append(d, t)
  <1>1. /\ Len(d) \in Nat /\ DOMAIN d = 1..Len(d) /\ DOMAIN e = 1..(Len(d) + 1)
        /\ e[Len(d) + 1] = t /\ \A i \in 1..Len(d) : e[i] = d[i]
    OBVIOUS
  <1>2. \A i \in 1..(Len(d) + 1) :
           /\ e[i].is \notin {"directive", "spread", "inline", "fragment", "veil"}
           /\ e[i].is = "args" => e[i].says = 0
    BY <1>1 DEF Plain
  <1> HIDE DEF e
  <1>3. Plain(d)
    <2>1. \A i \in DOMAIN d : i \in 1..(Len(d) + 1) /\ e[i] = d[i]
      BY <1>1
    <2> QED  BY <1>2, <2>1 DEF Plain
  <1>4. t.is \notin {"directive", "spread", "inline", "fragment", "veil"} /\ (t.is = "args" => t.says = 0)
    <2>1. Len(d) + 1 \in 1..(Len(d) + 1)
      BY <1>1
    <2> QED  BY <1>1, <1>2, <2>1
  <1>5. t \in PlainTokens
    BY <1>4, RareKinds DEF Tokens
  <1> QED  BY <1>3, <1>5

\* The scanner sees the whole of a plain document, which is executed as it is.
LEMMA PlainWhole ==
    ASSUME NEW d \in Seq(PlainTokens)
    PROVE  /\ Seen(d) = d /\ Inlined(d) = d
           /\ ~Undeclared(d) /\ \A i \in DOMAIN d : d[i] # Fragment
           /\ \A j \in 1..(Len(d) + 1) : Said(d, j) = {k \in 1..(j - 1) : d[k] # Text}
           /\ LastSaid(d) = LastIn(d)
           /\ \A i \in 1..(Len(d) + 1) : Owned(d, i) = Enclosing(d, i)
  <1>1. /\ Len(d) \in Nat /\ DOMAIN d = 1..Len(d)
        /\ \A i \in DOMAIN d : d[i] \in PlainTokens
    OBVIOUS
  <1>2. \A i \in DOMAIN d : d[i] \notin {Spread, Inline, Fragment, Veil}
    BY <1>1, TokenKinds
  <1>3. Seen(d) = d
    BY <1>2 DEF Seen
  <1>4. Inlined(d) = d
    BY <1>2 DEF Inlined
  <1>5. ~Undeclared(d)
    BY <1>2 DEF Undeclared, Range
  <1>6. \A i \in DOMAIN d : d[i] # Text <=> d[i].is \notin {"text", "veil", "directive"}
    BY <1>1, TokenKinds
  <1>7. ASSUME NEW j \in 1..(Len(d) + 1)
        PROVE  Said(d, j) = {k \in 1..(j - 1) : d[k] # Text}
    <2>1. \A k \in 1..(j - 1) : k \in DOMAIN d
      BY <1>1
    <2> QED  BY <1>6, <2>1 DEF Said
  <1>8. LastSaid(d) = LastIn(d)
    <2>1. Len(d) + 1 \in 1..(Len(d) + 1) /\ (Len(d) + 1) - 1 = Len(d)
      BY <1>1
    <2>2. Said(d, Len(d) + 1) = SaidIn(d)
      BY <1>1, <1>7, <2>1 DEF SaidIn
    <2> QED  BY <2>2 DEF LastSaid, LastIn
  <1>9. ASSUME NEW i \in 1..(Len(d) + 1) PROVE Owned(d, i) = Enclosing(d, i)
    <2>1. ASSUME NEW j \in Enclosing(d, i) PROVE j = 1 \/ d[j - 1] # Inline
      <3>1. j \in 1..(i - 1)
        BY DEF Enclosing
      <3>2. j # 1 => j - 1 \in DOMAIN d
        BY <1>1, <3>1
      <3> QED  BY <1>2, <3>2
    <2> QED  BY <2>1 DEF Owned
  <1> QED  BY <1>2, <1>3, <1>4, <1>5, <1>7, <1>8, <1>9

\* The last token that is not text is a token.
LEMMA LastTyped ==
    ASSUME NEW d \in Seq(PlainTokens)
    PROVE  /\ SaidIn(d) # {} => Max(SaidIn(d)) \in SaidIn(d)
           /\ IsFiniteSet(SaidIn(d)) /\ SaidIn(d) \subseteq Int
           /\ LastIn(d) \in PlainTokens
  <1>1. /\ Len(d) \in Nat /\ DOMAIN d = 1..Len(d) /\ \A i \in DOMAIN d : d[i] \in PlainTokens
    OBVIOUS
  <1>2. IsFiniteSet(SaidIn(d)) /\ SaidIn(d) \subseteq Int
    <2>1. IsFiniteSet(1..Len(d))
      BY <1>1, FS_Interval
    <2> QED  BY <1>1, <2>1, FS_Subset DEF SaidIn
  <1>3. SaidIn(d) # {} => Max(SaidIn(d)) \in SaidIn(d)
    BY <1>2, MaxOf
  <1>4. SaidIn(d) # {} => d[Max(SaidIn(d))] \in PlainTokens
    BY <1>1, <1>3 DEF SaidIn
  <1>5. Text \in PlainTokens
    BY DEF PlainTokens
  <1> QED  BY <1>2, <1>3, <1>4, <1>5 DEF LastIn

\* What the grammar adds to a plain document and leaves it plain is what the
\* plain grammar adds.
LEMMA NextOfPlain ==
    ASSUME NEW d \in Seq(PlainTokens), NEW t \in Continuations(d), t \in PlainTokens
    PROVE  t \in PlainNext(d)
  <1> DEFINE last == LastIn(d)
             users == Name("users")
             three == {Name("query"), Name("nodes"), Name("tenant")}
  <1>1. last \in PlainTokens
    BY LastTyped
  <1>2. last \notin {Inline, Fragment} \cup Commented /\ ~Undeclared(d) /\ LastSaid(d) = last
    BY <1>1, TokenKinds, PlainWhole
  <1>3. ~Complete(d) /\ t \in Grammar(d) \cup Rarely(d)
    BY DEF Continuations
  <1>4. CASE t \in Rarely(d)
    <2>1. t \notin {Directive, Spread, Inline, Fragment, Veil} \cup Commented
      BY TokenKinds
    <2>2. Rarely(d) \subseteq {Text, Directive, Spread, Inline, Veil} \cup Commented
      BY DEF Rarely
    <2>3. t = Text
      BY <1>4, <2>1, <2>2
    <2> QED  BY <1>3, <2>3 DEF PlainNext
  <1>5. CASE t \in Grammar(d)
    <2>1. Grammar(d) =
            CASE last = Text -> {Open} \cup (IF Extras(d) = 0 THEN {Name("query")} ELSE {})
              [] last = Alias -> FieldNames(d) \ {Alias}
              [] last = Open -> FieldNames(d)
              [] last = users -> {Open} \cup (IF d[Len(d)] = Directive THEN {} ELSE Pages)
              [] last \in {Name("query"), Name("nodes"), Name("tenant"), Inline, Fragment}
                           \cup Pages \cup Commented -> {Open}
              [] Undeclared(d) /\ last = Close /\ Nesting(d, Len(d) + 1) = 0 -> {Fragment}
              [] OTHER -> FieldNames(d) \cup {Close}
      BY <1>2 DEF Grammar
    <2>2. PlainFollows(d) =
            CASE last = Text -> {Open} \cup (IF Extras(d) = 0 THEN {Name("query")} ELSE {})
              [] last = Alias -> FieldNames(d) \ {Alias}
              [] last = Open -> FieldNames(d)
              [] last = users -> Pages \cup {Open}
              [] last \in three \cup Pages -> {Open}
              [] OTHER -> FieldNames(d) \cup {Close}
      BY DEF PlainFollows
    <2>3. last \in {Name("query"), Name("nodes"), Name("tenant"), Inline, Fragment}
                   \cup Pages \cup Commented <=> last \in three \cup Pages
      BY <1>2
    <2> HIDE DEF last, users, three, Pages, Commented, Open, Close, Text, Alias, Directive, Inline, Fragment
    <2>4. Grammar(d) \subseteq PlainFollows(d)
      BY <1>2, <2>1, <2>2, <2>3
    <2> QED  BY <1>3, <1>5, <2>4 DEF PlainNext
  <1> QED  BY <1>3, <1>4, <1>5

\* pageMultiplier stays between 1 and the largest page.
LEMMA HintRange ==
    ASSUME NEW t \in Pages PROVE PageMultiplier(t) \in 1..MaxPageSize
  <1>1. \A n \in Nat \ {0} : Min({n, MaxPageSize}) \in 1..MaxPageSize
    <2> SUFFICES ASSUME NEW n \in Nat \ {0} PROVE Min({n, MaxPageSize}) \in 1..MaxPageSize
      OBVIOUS
    <2>1. \E x \in {n, MaxPageSize} : \A y \in {n, MaxPageSize} : x =< y
      BY PagesAssumption
    <2>2. Min({n, MaxPageSize}) \in {n, MaxPageSize}
          /\ \A y \in {n, MaxPageSize} : Min({n, MaxPageSize}) =< y
      BY <2>1 DEF Min
    <2> QED  BY <2>2, PagesAssumption
  <1> QED  BY <1>1, PagesAssumption DEF Pages, Args, PageMultiplier

\* No argument list is no hint.
LEMMA NoHint == NoArgs \in Pages /\ PageMultiplier(NoArgs) = 1
  BY DEF NoArgs, Pages, Args, PageMultiplier

-----------------------------------------------------------------------------
(* What one more token changes.                                            *)

Opens(d, i) == {j \in 1..(i - 1) : d[j] = Open}
Closes(d, i) == {j \in 1..(i - 1) : d[j] = Close}

\* Nesting is a difference of two finite counts.
LEMMA NestingCounts ==
    ASSUME NEW d, NEW i \in Int
    PROVE  /\ Nesting(d, i) = Cardinality(Opens(d, i)) - Cardinality(Closes(d, i))
           /\ IsFiniteSet(Opens(d, i)) /\ IsFiniteSet(Closes(d, i))
           /\ Cardinality(Opens(d, i)) \in Nat /\ Cardinality(Closes(d, i)) \in Nat
           /\ Nesting(d, i) \in Int
  <1>1. Nesting(d, i) = Cardinality(Opens(d, i)) - Cardinality(Closes(d, i))
    BY DEF Nesting, Quantify, Opens, Closes
  <1>2. IsFiniteSet(Opens(d, i)) /\ IsFiniteSet(Closes(d, i))
    <2>1. IsFiniteSet(1..(i - 1))
      BY FS_Interval
    <2> QED  BY <2>1, FS_Subset DEF Opens, Closes
  <1>3. Cardinality(Opens(d, i)) \in Nat /\ Cardinality(Closes(d, i)) \in Nat
    BY <1>2, FS_CardinalityType
  <1> QED  BY <1>1, <1>2, <1>3

\* The nesting changes with each brace.
LEMMA NestingNext ==
    ASSUME NEW d, NEW i \in Nat \ {0}
    PROVE  /\ d[i] = Open => Nesting(d, i + 1) = Nesting(d, i) + 1
           /\ d[i] = Close => Nesting(d, i + 1) = Nesting(d, i) - 1
           /\ d[i] \notin {Open, Close} => Nesting(d, i + 1) = Nesting(d, i)
  <1>1. Open # Close
    BY DEF Open, Close
  <1>2. 1..((i + 1) - 1) = (1..(i - 1)) \cup {i}
    OBVIOUS
  <1>3. i \notin 1..(i - 1)
    OBVIOUS
  <1>4. /\ Opens(d, i + 1) = IF d[i] = Open THEN Opens(d, i) \cup {i} ELSE Opens(d, i)
        /\ Closes(d, i + 1) = IF d[i] = Close THEN Closes(d, i) \cup {i} ELSE Closes(d, i)
        /\ i \notin Opens(d, i) /\ i \notin Closes(d, i)
    BY <1>2, <1>3 DEF Opens, Closes
  <1>5. IsFiniteSet(Opens(d, i)) /\ IsFiniteSet(Closes(d, i))
    BY NestingCounts
  <1>6. /\ Cardinality(Opens(d, i) \cup {i}) = Cardinality(Opens(d, i)) + 1
        /\ Cardinality(Closes(d, i) \cup {i}) = Cardinality(Closes(d, i)) + 1
    BY <1>4, <1>5, FS_AddElement
  <1>7. i + 1 \in Int
    OBVIOUS
  <1>8. /\ Nesting(d, i) = Cardinality(Opens(d, i)) - Cardinality(Closes(d, i))
        /\ Nesting(d, i + 1) = Cardinality(Opens(d, i + 1)) - Cardinality(Closes(d, i + 1))
        /\ Cardinality(Opens(d, i)) \in Nat /\ Cardinality(Closes(d, i)) \in Nat
    BY <1>7, NestingCounts
  <1>9. ASSUME d[i] = Open PROVE Nesting(d, i + 1) = Nesting(d, i) + 1
    <2>1. Opens(d, i + 1) = Opens(d, i) \cup {i} /\ Closes(d, i + 1) = Closes(d, i)
      BY <1>1, <1>4, <1>9
    <2>2. Cardinality(Opens(d, i + 1)) = Cardinality(Opens(d, i)) + 1
      BY <1>6, <2>1
    <2> QED  BY <1>8, <2>1, <2>2
  <1>10. ASSUME d[i] = Close PROVE Nesting(d, i + 1) = Nesting(d, i) - 1
    <2>1. Opens(d, i + 1) = Opens(d, i) /\ Closes(d, i + 1) = Closes(d, i) \cup {i}
      BY <1>1, <1>4, <1>10
    <2>2. Cardinality(Closes(d, i + 1)) = Cardinality(Closes(d, i)) + 1
      BY <1>6, <2>1
    <2> QED  BY <1>8, <2>1, <2>2
  <1>11. ASSUME d[i] \notin {Open, Close} PROVE Nesting(d, i + 1) = Nesting(d, i)
    BY <1>4, <1>8, <1>11
  <1> QED  BY <1>9, <1>10, <1>11

\* What the positions before the new one say of the document stays.
LEMMA PrefixStays ==
    ASSUME NEW d, NEW e, NEW m \in Nat, \A j \in 1..m : d[j] = e[j]
    PROVE  /\ \A i \in 1..(m + 1) : /\ Nesting(e, i) = Nesting(d, i)
                                     /\ ArgsOf(e, i) = ArgsOf(d, i)
                                     /\ Enclosing(e, i) = Enclosing(d, i)
  <1>1. ASSUME NEW i \in 1..(m + 1)
        PROVE  Nesting(e, i) = Nesting(d, i) /\ ArgsOf(e, i) = ArgsOf(d, i)
    <2>1. \A j \in 1..(i - 1) : j \in 1..m
      OBVIOUS
    <2>2. Opens(e, i) = Opens(d, i) /\ Closes(e, i) = Closes(d, i)
      BY <2>1 DEF Opens, Closes
    <2>3. Nesting(e, i) = Nesting(d, i)
      BY <2>2, NestingCounts
    <2>4. Said(e, i) = Said(d, i)
      BY <2>1 DEF Said
    <2>5. ArgsOf(e, i) = ArgsOf(d, i)
      <3> DEFINE before == Said(d, i)
      <3>1. IsFiniteSet(before) /\ before \subseteq Int
        <4>1. i - 1 \in Int /\ before \in SUBSET (1..(i - 1)) /\ 1..(i - 1) \subseteq Int
          BY DEF Said
        <4>2. IsFiniteSet(1..(i - 1))
          BY <4>1, FS_Interval
        <4> HIDE DEF before
        <4> QED  BY <4>1, <4>2, FS_Subset
      <3>2. before # {} => Max(before) \in before
        <4> HIDE DEF before
        <4> QED  BY <3>1, MaxOf
      <3>3. before # {} => e[Max(before)] = d[Max(before)]
        BY <2>1, <3>2 DEF Said
      <3>4. ArgsOf(d, i) = IF before # {} /\ d[Max(before)].is = "args"
                            THEN d[Max(before)] ELSE NoArgs
        BY DEF ArgsOf
      <3>5. ArgsOf(e, i) = IF before # {} /\ e[Max(before)].is = "args"
                            THEN e[Max(before)] ELSE NoArgs
        BY <2>4 DEF ArgsOf
      <3> HIDE DEF before
      <3> QED  BY <3>3, <3>4, <3>5
    <2> QED  BY <2>3, <2>5
  <1>2. ASSUME NEW i \in 1..(m + 1) PROVE Enclosing(e, i) = Enclosing(d, i)
    <2>1. \A j \in 1..(i - 1) : j \in 1..m /\ j \in 1..(m + 1)
      OBVIOUS
    <2>2. \A j \in 1..(i - 1) : \A k \in (j + 1)..i : k \in 1..(m + 1)
      OBVIOUS
    <2>3. \A j \in 1..(i - 1) :
             (\A k \in (j + 1)..i : Nesting(e, k) > Nesting(e, j))
               <=> (\A k \in (j + 1)..i : Nesting(d, k) > Nesting(d, j))
      BY <1>1, <2>1, <2>2
    <2> QED  BY <2>1, <2>3 DEF Enclosing
  <1> QED  BY <1>1, <1>2

-----------------------------------------------------------------------------
(* The scanner as a fold.                                                  *)

Stacks == Seq(Int) \ {<<>>}
Scanner == [depth : Int, deepest : Int, cost : Int, fields : Int, introspects : BOOLEAN,
            mult : Stacks, pending : Int]
Fresh == [depth |-> 0, deepest |-> 0, cost |-> 0, fields |-> 0,
          introspects |-> FALSE, mult |-> <<1>>, pending |-> 1]
Tops(S) == [s \in SUBSET S |-> Max(s)]
Turns(d) == [i \in DOMAIN d |-> [s \in Scanner |-> Scan(s, d[i])]]

\* The top of the multiplier stack, and the stack without it.
LEMMA LastAndFront ==
    ASSUME NEW m \in Seq(Int) \ {<<>>}
    PROVE  /\ Last(m) = m[Len(m)] /\ Last(m) \in Int /\ Len(m) \in Nat \ {0}
           /\ Len(m) > 1 => /\ Front(m) \in Seq(Int) \ {<<>>}
                            /\ Len(Front(m)) = Len(m) - 1
                            /\ \A k \in 1..(Len(m) - 1) : Front(m)[k] = m[k]
  <1>1. Len(m) \in Nat \ {0}
    OBVIOUS
  <1>2. Last(m) = m[Len(m)] /\ Last(m) \in Int
    BY <1>1 DEF Last
  <1>3. ASSUME Len(m) > 1
        PROVE  /\ Front(m) \in Seq(Int) \ {<<>>}
               /\ Len(Front(m)) = Len(m) - 1
               /\ \A k \in 1..(Len(m) - 1) : Front(m)[k] = m[k]
    <2>1. Front(m) = [k \in 1..(Len(m) - 1) |-> m[k]]
      BY <1>1, <1>3 DEF Front
    <2>2. \A k \in 1..(Len(m) - 1) : m[k] \in Int
      BY <1>1
    <2>3. Len(m) - 1 \in Nat
      BY <1>1, <1>3
    <2>4. Front(m) \in Seq(Int) /\ Len(Front(m)) = Len(m) - 1
      BY <2>1, <2>2, <2>3
    <2>5. Front(m) # <<>>
      <3>1. Len(<<>>) = 0
        OBVIOUS
      <3> QED  BY <1>1, <1>3, <2>4, <3>1
    <2>6. \A k \in 1..(Len(m) - 1) : Front(m)[k] = m[k]
      BY <2>1
    <2> QED  BY <2>4, <2>5, <2>6
  <1> QED  BY <1>1, <1>2, <1>3

\* Integers wrap to integers.
LEMMA WrapTyped == \A n \in Int : Wrap(n) \in Int
  BY IntAssumption DEF Wrap

\* The greater of two integers.
LEMMA MaxOfTwo ==
    ASSUME NEW a \in Int, NEW b \in Int
    PROVE  Max({a, b}) = IF a >= b THEN a ELSE b
  <1>1. \E x \in {a, b} : \A y \in {a, b} : x >= y
    OBVIOUS
  <1>2. Max({a, b}) \in {a, b} /\ \A y \in {a, b} : Max({a, b}) >= y
    BY <1>1 DEF Max
  <1>3. Max({a, b}) >= a /\ Max({a, b}) >= b /\ (Max({a, b}) = a \/ Max({a, b}) = b)
    BY <1>2
  <1> QED  BY <1>3

\* What a turn of the loop does, token by token.
LEMMA Turn ==
    ASSUME NEW s \in Scanner, NEW t \in PlainTokens
    PROVE  /\ t = Open => Scan(s, t) = Opened(s)
           /\ t = Close => Scan(s, t) = Closed(s)
           /\ t \in Pages => Scan(s, t) = [s EXCEPT !.pending = PageMultiplier(t)]
           /\ IsField(t) => Scan(s, t) = Counted(s, t.of)
           /\ t \notin {Open, Close} \cup Pages /\ ~IsField(t) => Scan(s, t) = s
  <1> HIDE DEF Open, Close
  <1>1. /\ t = Open <=> t.is = "{"
        /\ t = Close <=> t.is = "}"
        /\ t \in Pages <=> t.is = "args"
        /\ IsField(t) => t.is = "name"
        /\ t.is \in {"{", "}", "text", "alias", "name", "args"}
    BY TokenKinds
  <1>2. t = Open => Scan(s, t) = Opened(s)
    BY <1>1 DEF Scan
  <1>3. t = Close => Scan(s, t) = Closed(s)
    BY <1>1 DEF Scan
  <1>4. t \in Pages => Scan(s, t) = [s EXCEPT !.pending = PageMultiplier(t)]
    BY <1>1 DEF Scan
  <1>5. IsField(t) => Scan(s, t) = Counted(s, t.of)
    BY <1>1 DEF Scan
  <1>6. t \notin {Open, Close} \cup Pages /\ ~IsField(t) => Scan(s, t) = s
    BY <1>1 DEF Scan
  <1> QED  BY <1>2, <1>3, <1>4, <1>5, <1>6

\* The fields of the scanner after a turn.
LEMMA ScannerTyped ==
    ASSUME NEW y \in Int, NEW x \in Int, NEW c \in Int, NEW f \in Int, NEW b \in BOOLEAN,
           NEW m \in Stacks, NEW p \in Int
    PROVE  [depth |-> y, deepest |-> x, cost |-> c, fields |-> f, introspects |-> b,
            mult |-> m, pending |-> p] \in Scanner
  BY DEF Scanner

\* One field of the scanner is set at a time.
LEMMA ScannerFields ==
    ASSUME NEW s \in Scanner
    PROVE  /\ s = [depth |-> s.depth, deepest |-> s.deepest, cost |-> s.cost,
                   fields |-> s.fields, introspects |-> s.introspects, mult |-> s.mult,
                   pending |-> s.pending]
           /\ s.depth \in Int /\ s.deepest \in Int /\ s.cost \in Int /\ s.fields \in Int
           /\ s.introspects \in BOOLEAN /\ s.mult \in Stacks /\ s.pending \in Int
           /\ Last(s.mult) \in Int
  <1>1. s.mult \in Stacks
    BY DEF Scanner
  <1>2. Last(s.mult) \in Int
    BY <1>1, LastAndFront DEF Stacks
  <1> QED  BY <1>1, <1>2 DEF Scanner

\* What an opening brace does to the scanner.
LEMMA OpenedFields ==
    ASSUME NEW s \in Scanner
    PROVE  /\ Opened(s) \in Scanner
           /\ Opened(s).depth = s.depth + 1
           /\ Opened(s).deepest = (IF s.deepest >= s.depth + 1 THEN s.deepest ELSE s.depth + 1)
           /\ Opened(s).mult = Append(s.mult, Wrap(Last(s.mult) * s.pending))
           /\ Opened(s).pending = 1
           /\ Opened(s).cost = s.cost /\ Opened(s).fields = s.fields
  <1> DEFINE x == Max({s.deepest, s.depth + 1})
             m == Append(s.mult, Wrap(Last(s.mult) * s.pending))
  <1>1. Last(s.mult) * s.pending \in Int
    BY ScannerFields
  <1>2. m \in Stacks
    <2>1. Wrap(Last(s.mult) * s.pending) \in Int
      BY <1>1, WrapTyped
    <2>2. s.mult \in Seq(Int)
      BY ScannerFields DEF Stacks
    <2>3. m \in Seq(Int) /\ m # <<>>
      BY <2>1, <2>2, AppendProperties
    <2> QED  BY <2>3 DEF Stacks
  <1>3. x = IF s.deepest >= s.depth + 1 THEN s.deepest ELSE s.depth + 1
    BY MaxOfTwo, ScannerFields
  <1>4. x \in Int /\ s.depth + 1 \in Int
    BY <1>3, ScannerFields
  <1>5. Opened(s) = [s EXCEPT !.depth = s.depth + 1, !.deepest = x, !.mult = m, !.pending = 1]
    BY DEF Opened, Scanner
  <1> HIDE DEF x, m
  <1>6. Opened(s) = [depth |-> s.depth + 1, deepest |-> x, cost |-> s.cost, fields |-> s.fields,
                     introspects |-> s.introspects, mult |-> m, pending |-> 1]
    BY <1>5, ScannerFields
  <1>7. Opened(s) \in Scanner
    BY <1>2, <1>4, <1>6, ScannerFields, ScannerTyped
  <1> QED  BY <1>3, <1>6, <1>7 DEF m

\* What a closing brace does to the scanner.
LEMMA ClosedFields ==
    ASSUME NEW s \in Scanner
    PROVE  /\ Closed(s) \in Scanner
           /\ Closed(s).depth = s.depth - 1 /\ Closed(s).deepest = s.deepest
           /\ Closed(s).mult = (IF Len(s.mult) > 1 THEN Front(s.mult) ELSE s.mult)
           /\ Closed(s).pending = 1
           /\ Closed(s).cost = s.cost /\ Closed(s).fields = s.fields
  <1> DEFINE m == IF Len(s.mult) > 1 THEN Front(s.mult) ELSE s.mult
  <1>1. Len(s.mult) > 1 => Front(s.mult) \in Stacks
    BY ScannerFields, LastAndFront DEF Stacks
  <1>2. m \in Stacks /\ s.depth - 1 \in Int
    BY <1>1, ScannerFields
  <1>3. Closed(s) = [s EXCEPT !.depth = s.depth - 1, !.mult = m, !.pending = 1]
    BY DEF Closed, Scanner
  <1> HIDE DEF m
  <1>4. Closed(s) = [depth |-> s.depth - 1, deepest |-> s.deepest, cost |-> s.cost,
                     fields |-> s.fields, introspects |-> s.introspects, mult |-> m, pending |-> 1]
    BY <1>3, ScannerFields
  <1>5. Closed(s) \in Scanner
    BY <1>2, <1>4, ScannerFields, ScannerTyped
  <1> QED  BY <1>4, <1>5 DEF m

\* What a field does to the scanner.
LEMMA CountedFields ==
    ASSUME NEW s \in Scanner, NEW f
    PROVE  /\ Counted(s, f) \in Scanner
           /\ Counted(s, f).depth = s.depth /\ Counted(s, f).deepest = s.deepest
           /\ Counted(s, f).mult = s.mult /\ Counted(s, f).pending = s.pending
           /\ s.depth >= 1 => /\ Counted(s, f).fields = s.fields + 1
                              /\ Counted(s, f).cost = Wrap(s.cost + Last(s.mult))
  <1> DEFINE b == s.introspects \/ f = "__schema"
             n == IF s.depth >= 1 THEN s.fields + 1 ELSE s.fields
             c == IF s.depth >= 1 THEN Wrap(s.cost + Last(s.mult)) ELSE s.cost
  <1>1. s.cost + Last(s.mult) \in Int /\ s.fields + 1 \in Int
    BY ScannerFields
  <1>2. c \in Int /\ n \in Int /\ b \in BOOLEAN
    BY <1>1, WrapTyped, ScannerFields
  <1>3. Counted(s, f) = [s EXCEPT !.introspects = b, !.fields = n, !.cost = c]
    BY DEF Counted, Scanner
  <1>0. DOMAIN s = {"depth", "deepest", "cost", "fields", "introspects", "mult", "pending"}
    BY DEF Scanner
  <1> HIDE DEF b, n, c
  <1>4. Counted(s, f) = [depth |-> s.depth, deepest |-> s.deepest, cost |-> c, fields |-> n,
                         introspects |-> b, mult |-> s.mult, pending |-> s.pending]
    BY <1>0, <1>3
  <1>5. Counted(s, f) \in Scanner
    BY <1>2, <1>4, ScannerFields, ScannerTyped
  <1> QED  BY <1>4, <1>5 DEF n, c

\* A turn leads from scanner states to scanner states.
LEMMA ScanTyped == \A s \in Scanner, t \in PlainTokens : Scan(s, t) \in Scanner
  <1> SUFFICES ASSUME NEW s \in Scanner, NEW t \in PlainTokens PROVE Scan(s, t) \in Scanner
    OBVIOUS
  <1>1. CASE t = Open
    BY <1>1, Turn, OpenedFields
  <1>2. CASE t = Close
    BY <1>2, Turn, ClosedFields
  <1>3. CASE t \in Pages
    <2>1. PageMultiplier(t) \in Int
      BY <1>3, HintRange, PagesAssumption
    <2>2. \A p \in Int : [s EXCEPT !.pending = p] \in Scanner
      BY DEF Scanner
    <2> QED  BY <1>3, <2>1, <2>2, Turn
  <1>4. CASE IsField(t)
    BY <1>4, Turn, CountedFields
  <1>5. CASE t \notin {Open, Close} \cup Pages /\ ~IsField(t)
    BY <1>5, Turn
  <1> QED  BY <1>1, <1>2, <1>3, <1>4, <1>5

\* The turns of a document can be folded.
LEMMA TurnsFoldable ==
    ASSUME NEW d \in Seq(PlainTokens)
    PROVE  /\ Foldable(DOMAIN d, Scanner, Fresh, Tops(DOMAIN d), Turns(d))
           /\ \A i \in DOMAIN d, s \in Scanner : Turns(d)[i][s] = Scan(s, d[i])
           /\ DOMAIN d = 1..Len(d)
  <1>1. DOMAIN d = 1..Len(d) /\ Len(d) \in Nat /\ \A i \in DOMAIN d : d[i] \in PlainTokens
    OBVIOUS
  <1>2. IsFiniteSet(DOMAIN d)
    BY <1>1, FS_Interval
  <1>3. Fresh \in Scanner
    <2>1. <<1>> \in Stacks
      BY DEF Stacks
    <2> QED  BY <2>1 DEF Fresh, Scanner
  <1>4. ASSUME NEW s \in SUBSET DOMAIN d, s # {} PROVE Tops(DOMAIN d)[s] \in s
    <2>1. IsFiniteSet(s) /\ s \subseteq Int
      BY <1>1, <1>2, FS_Subset
    <2>2. Max(s) \in s
      BY <1>4, <2>1, MaxOf
    <2> QED  BY <2>2 DEF Tops
  <1>5. Turns(d) \in [DOMAIN d -> [Scanner -> Scanner]]
    <2>1. \A i \in DOMAIN d, s \in Scanner : Scan(s, d[i]) \in Scanner
      BY <1>1, ScanTyped
    <2> QED  BY <2>1 DEF Turns
  <1>6. \A i \in DOMAIN d, s \in Scanner : Turns(d)[i][s] = Scan(s, d[i])
    BY DEF Turns
  <1> QED  BY <1>1, <1>2, <1>3, <1>4, <1>5, <1>6 DEF Foldable

\* A fold from the left, and what one more element adds to it.
LEMMA AnalyzeIsFold ==
    ASSUME NEW d \in Seq(PlainTokens)
    PROVE  Analyze(d) = Folded(DOMAIN d, Scanner, Fresh, Tops(DOMAIN d), Turns(d))
  <1> DEFINE S == DOMAIN d
             it == CHOOSE f : f = [s \in SUBSET S |->
                     IF s = {} THEN Fresh ELSE Scan(f[s \ {Max(s)}], d[Max(s)])]
  <1>1. Analyze(d) = it[S]
    <2>1. Seen(d) = d
      BY PlainWhole
    <2> QED  BY <2>1 DEF Analyze, FoldLeft, MapThenFoldSet, Fresh
  <1>0. /\ Foldable(S, Scanner, Fresh, Tops(S), Turns(d))
        /\ \A i \in S, s \in Scanner : Turns(d)[i][s] = Scan(s, d[i])
    BY TurnsFoldable
  <1>2. PICK g : IsFold(g, S, Scanner, Fresh, Tops(S), Turns(d))
    <2> HIDE DEF S
    <2> QED  BY <1>0, FoldExists
  <1>3. g = [s \in SUBSET S |->
                     IF s = {} THEN Fresh ELSE Scan(g[s \ {Max(s)}], d[Max(s)])]
    <2>1. ASSUME NEW s \in SUBSET S, s # {}
          PROVE g[s] = Scan(g[s \ {Max(s)}], d[Max(s)])
      <3>1. Max(s) \in s /\ Tops(S)[s] = Max(s)
        BY <1>0, <2>1 DEF Tops, Foldable
      <3>2. g[s] = Turns(d)[Max(s)][g[s \ {Max(s)}]] /\ g[s \ {Max(s)}] \in Scanner
        BY <1>2, <2>1, <3>1 DEF IsFold
      <3> QED  BY <1>0, <3>1, <3>2
    <2> HIDE DEF S
    <2> QED  BY <1>2, <2>1 DEF IsFold
  <1>4. it = [s \in SUBSET S |->
                     IF s = {} THEN Fresh ELSE Scan(it[s \ {Max(s)}], d[Max(s)])]
    <2> HIDE DEF S
    <2> QED  BY <1>3
  <1>5. Unfolds(it, S, Scanner, Fresh, Tops(S), Turns(d))
    <2>1. it[{}] = Fresh
      BY <1>4
    <2>2. ASSUME NEW s \in SUBSET S, s # {}, it[s \ {Tops(S)[s]}] \in Scanner
          PROVE  it[s] = Turns(d)[Tops(S)[s]][it[s \ {Tops(S)[s]}]]
      <3>1. Max(s) \in s /\ Tops(S)[s] = Max(s)
        BY <1>0, <2>2 DEF Tops, Foldable
      <3>2. it[s] = Scan(it[s \ {Max(s)}], d[Max(s)])
        BY <1>4, <2>2
      <3> HIDE DEF it
      <3> QED  BY <1>0, <2>2, <3>1, <3>2
    <2> HIDE DEF it, S
    <2> QED  BY <2>1, <2>2 DEF Unfolds
  <1> HIDE DEF it, S
  <1>6. it[S] = Folded(S, Scanner, Fresh, Tops(S), Turns(d))
    BY <1>0, <1>5, FoldedUnfolds
  <1> QED  BY <1>1, <1>6 DEF S

\* The scanner reads a document token by token.
LEMMA AnalyzeEmpty == Analyze(<<>>) = Fresh
  <1>1. <<>> \in Seq(PlainTokens) /\ DOMAIN <<>> = {}
    OBVIOUS
  <1>2. /\ Analyze(<<>>) = Folded(DOMAIN <<>>, Scanner, Fresh, Tops(DOMAIN <<>>), Turns(<<>>))
        /\ Foldable(DOMAIN <<>>, Scanner, Fresh, Tops(DOMAIN <<>>), Turns(<<>>))
    BY <1>1, AnalyzeIsFold, TurnsFoldable
  <1>3. Folded(DOMAIN <<>>, Scanner, Fresh, Tops(DOMAIN <<>>), Turns(<<>>)) = Fresh
    BY <1>1, <1>2, FoldedIsFold
  <1> QED  BY <1>2, <1>3

\* Analyze returns a state of the scanner.
LEMMA AnalyzeTyped == \A d \in Seq(PlainTokens) : Analyze(d) \in Scanner
  BY AnalyzeIsFold, TurnsFoldable, FoldedIsFold

\* The analysis of one token more is one turn more.
LEMMA AnalyzeAppend ==
    ASSUME NEW d \in Seq(PlainTokens), NEW t \in PlainTokens
    PROVE  Analyze(Append(d, t)) = Scan(Analyze(d), t)
  <1> DEFINE e == Append(d, t)
             n == Len(d)
             S == DOMAIN d
             T == DOMAIN e
  <1>1. /\ e \in Seq(PlainTokens) /\ n \in Nat
        /\ S = 1..n /\ T = S \cup {n + 1} /\ n + 1 \notin S
        /\ e[n + 1] = t /\ \A i \in S : e[i] = d[i]
    OBVIOUS
  <1> HIDE DEF e, n, S, T
  <1>2. /\ Foldable(S, Scanner, Fresh, Tops(S), Turns(d))
        /\ \A i \in S, s \in Scanner : Turns(d)[i][s] = Scan(s, d[i])
    BY TurnsFoldable DEF S
  <1>3. /\ Foldable(T, Scanner, Fresh, Tops(T), Turns(e))
        /\ \A i \in T, s \in Scanner : Turns(e)[i][s] = Scan(s, e[i])
    BY <1>1, TurnsFoldable DEF T
  <1>4. \A s \in SUBSET S : Tops(S)[s] = Tops(T)[s]
    BY <1>1 DEF Tops
  <1>5. \A y \in S, v \in Scanner : Turns(d)[y][v] = Turns(e)[y][v]
    BY <1>1, <1>2, <1>3
  <1>6. Tops(T)[T] = n + 1
    <2>1. IsFiniteSet(T) /\ T \subseteq Int /\ T # {}
      BY <1>1, <1>3 DEF Foldable
    <2>2. Max(T) \in T /\ \A y \in T : y <= Max(T)
      BY <2>1, MaxOf
    <2>3. n + 1 \in T /\ n + 1 <= Max(T) /\ \A y \in T : y \in Int /\ y <= n + 1
      <3>1. n + 1 \in T
        BY <1>1
      <3>2. n + 1 <= Max(T)
        BY <2>2, <3>1
      <3>3. \A y \in T : y \in Int /\ y <= n + 1
        BY <1>1
      <3> QED  BY <3>1, <3>2, <3>3
    <2>4. Max(T) \in Int /\ Max(T) <= n + 1
      BY <2>2, <2>3
    <2>5. Max(T) = n + 1
      BY <1>1, <2>3, <2>4
    <2> QED  BY <2>5 DEF Tops
  <1>7. Folded(T, Scanner, Fresh, Tops(T), Turns(e))
           = Turns(e)[n + 1][Folded(S, Scanner, Fresh, Tops(S), Turns(d))]
    <2> DEFINE p == Tops(S)
               q == Tops(T)
               A == Turns(d)
               C == Turns(e)
               x == n + 1
    <2>1. /\ Foldable(S, Scanner, Fresh, p, A) /\ Foldable(T, Scanner, Fresh, q, C)
          /\ \A s \in SUBSET S : s # {} => p[s] = q[s]
          /\ \A y \in S, v \in Scanner : A[y][v] = C[y][v]
          /\ q[T] = x /\ x \notin S /\ T = S \cup {x}
      BY <1>1, <1>2, <1>3, <1>4, <1>5, <1>6
    <2> HIDE DEF p, q, A, C, x
    <2>2. Folded(T, Scanner, Fresh, q, C) = C[x][Folded(S, Scanner, Fresh, p, A)]
      BY <2>1, FoldedAdd
    <2> QED  BY <2>2 DEF p, q, A, C, x
  <1>8. Analyze(d) = Folded(S, Scanner, Fresh, Tops(S), Turns(d)) /\ Analyze(d) \in Scanner
    BY AnalyzeIsFold, AnalyzeTyped DEF S
  <1>9. Analyze(e) = Folded(T, Scanner, Fresh, Tops(T), Turns(e))
    BY <1>1, AnalyzeIsFold DEF T
  <1> QED  BY <1>1, <1>3, <1>7, <1>8, <1>9 DEF e

-----------------------------------------------------------------------------
(* A document and one token more.                                          *)

\* Append, position by position.
LEMMA Appended ==
    ASSUME NEW d \in Seq(PlainTokens), NEW t \in PlainTokens
    PROVE  /\ Append(d, t) \in Seq(PlainTokens)
           /\ Len(d) \in Nat /\ Len(Append(d, t)) = Len(d) + 1
           /\ DOMAIN d = 1..Len(d) /\ DOMAIN Append(d, t) = 1..(Len(d) + 1)
           /\ Append(d, t)[Len(d) + 1] = t
           /\ \A j \in 1..Len(d) : d[j] = Append(d, t)[j] /\ d[j] \in PlainTokens
  OBVIOUS

\* m is the position of the token that e has and d has not.
NestingGoesOn(d, t, e, m) ==
    /\ \A i \in 1..m : Nesting(e, i) = Nesting(d, i) /\ Nesting(d, i) \in Int
    /\ Nesting(e, m + 1) \in Int
    /\ t = Open => Nesting(e, m + 1) = Nesting(d, m) + 1
    /\ t = Close => Nesting(e, m + 1) = Nesting(d, m) - 1
    /\ t \notin {Open, Close} => Nesting(e, m + 1) = Nesting(d, m)

LEMMA NestingAppend ==
    ASSUME NEW d \in Seq(PlainTokens), NEW t \in PlainTokens, NEW e, e = Append(d, t),
           NEW m, m = Len(d) + 1
    PROVE  NestingGoesOn(d, t, e, m)
  <1>1. /\ Len(d) \in Nat /\ e[m] = t /\ \A j \in 1..Len(d) : d[j] = e[j]
    BY Appended
  <1>2. \A i \in 1..(Len(d) + 1) : Nesting(e, i) = Nesting(d, i)
    BY <1>1, PrefixStays
  <1>3. m \in Nat \ {0} /\ m \in 1..m /\ \A i \in 1..m : i \in Int
    BY <1>1
  <1>4. \A i \in 1..m : Nesting(d, i) \in Int
    BY <1>3, NestingCounts
  <1>5. /\ t = Open => Nesting(e, m + 1) = Nesting(e, m) + 1
        /\ t = Close => Nesting(e, m + 1) = Nesting(e, m) - 1
        /\ t \notin {Open, Close} => Nesting(e, m + 1) = Nesting(e, m)
    BY <1>1, <1>3, NestingNext
  <1>6. Nesting(e, m + 1) \in Int
    BY <1>3, NestingCounts
  <1> QED  BY <1>2, <1>3, <1>4, <1>5, <1>6 DEF NestingGoesOn

\* Text leaves what was said last.
LEMMA LastAppend ==
    ASSUME NEW d \in Seq(PlainTokens), NEW t \in PlainTokens, NEW e, e = Append(d, t)
    PROVE  LastIn(e) = IF t = Text THEN LastIn(d) ELSE t
  <1> DEFINE n == Len(d)
  <1>1. /\ e \in Seq(PlainTokens) /\ n \in Nat /\ DOMAIN d = 1..n /\ DOMAIN e = 1..(n + 1)
        /\ e[n + 1] = t /\ \A j \in 1..n : d[j] = e[j]
    BY Appended
  <1> HIDE DEF n
  <1>2. CASE t = Text
    <2>1. SaidIn(e) = SaidIn(d)
      BY <1>1, <1>2 DEF SaidIn
    <2>2. SaidIn(d) # {} => e[Max(SaidIn(d))] = d[Max(SaidIn(d))]
      <3>1. SaidIn(d) # {} => Max(SaidIn(d)) \in 1..n
        BY <1>1, LastTyped DEF SaidIn
      <3> QED  BY <1>1, <3>1
    <2> QED  BY <1>2, <2>1, <2>2 DEF LastIn
  <1>3. CASE t # Text
    <2>1. n + 1 \in SaidIn(e) /\ \A i \in SaidIn(e) : i \in Int /\ i <= n + 1
      BY <1>1, <1>3 DEF SaidIn
    <2>2. Max(SaidIn(e)) \in SaidIn(e) /\ \A i \in SaidIn(e) : i <= Max(SaidIn(e))
      BY <1>1, <2>1, LastTyped, MaxOf
    <2>3. n + 1 <= Max(SaidIn(e)) /\ Max(SaidIn(e)) <= n + 1 /\ Max(SaidIn(e)) \in Int
      BY <2>1, <2>2
    <2>4. Max(SaidIn(e)) = n + 1
      BY <1>1, <2>3
    <2> QED  BY <1>1, <1>3, <2>1, <2>4 DEF LastIn
  <1> QED  BY <1>2, <1>3

\* What the last argument list says at the end of a document.
LEMMA ArgsAtEnd ==
    ASSUME NEW d \in Seq(PlainTokens), NEW m, m = Len(d) + 1
    PROVE  ArgsOf(d, m) = IF LastIn(d) \in Pages THEN LastIn(d) ELSE NoArgs
  <1>1. {k \in 1..(m - 1) : d[k] # Text} = SaidIn(d)
    <2>1. Len(d) \in Nat /\ DOMAIN d = 1..Len(d) /\ m - 1 = Len(d)
      OBVIOUS
    <2> QED  BY <2>1 DEF SaidIn
  <1>2. ArgsOf(d, m) = IF SaidIn(d) # {} /\ d[Max(SaidIn(d))].is = "args" THEN d[Max(SaidIn(d))] ELSE NoArgs
    <2>1. Len(d) + 1 \in 1..(Len(d) + 1)
      OBVIOUS
    <2>2. Said(d, m) = {k \in 1..(m - 1) : d[k] # Text}
      BY <2>1, PlainWhole
    <2> QED  BY <1>1, <2>2 DEF ArgsOf
  <1>3. LastIn(d) \in Pages <=> LastIn(d).is = "args"
    BY LastTyped, TokenKinds
  <1>4. CASE SaidIn(d) = {}
    <2>1. LastIn(d).is = "text"
      BY <1>4 DEF LastIn, Text
    <2> QED  BY <1>2, <1>3, <1>4, <2>1
  <1>5. CASE SaidIn(d) # {}
    <2>1. LastIn(d) = d[Max(SaidIn(d))]
      BY <1>5 DEF LastIn
    <2> QED  BY <1>2, <1>3, <1>5, <2>1
  <1> QED  BY <1>4, <1>5

\* The selection sets open at the end of a document.
EnclosingGoesOn(d, t, e, m) ==
    /\ t = Open => Enclosing(e, m + 1) = Enclosing(d, m) \cup {m}
    /\ t = Close => Enclosing(e, m + 1)
                      = {j \in Enclosing(d, m) : Nesting(d, j) <= Nesting(d, m) - 2}
    /\ t \notin {Open, Close} => Enclosing(e, m + 1) = Enclosing(d, m)

LEMMA EnclosingAppend ==
    ASSUME NEW d \in Seq(PlainTokens), NEW t \in PlainTokens, NEW e, e = Append(d, t),
           NEW m, m = Len(d) + 1
    PROVE  EnclosingGoesOn(d, t, e, m)
  <1>1. /\ Len(d) \in Nat /\ e[m] = t /\ \A j \in 1..Len(d) : d[j] = e[j]
        /\ m \in Nat \ {0} /\ Len(d) = m - 1
    BY Appended
  <1>2. /\ \A i \in 1..m : Nesting(e, i) = Nesting(d, i) /\ Nesting(d, i) \in Int
        /\ Nesting(e, m + 1) \in Int
        /\ t = Open => Nesting(e, m + 1) = Nesting(d, m) + 1
        /\ t = Close => Nesting(e, m + 1) = Nesting(d, m) - 1
        /\ t \notin {Open, Close} => Nesting(e, m + 1) = Nesting(d, m)
    <2>1. NestingGoesOn(d, t, e, m)
      BY NestingAppend
    <2> QED  BY <2>1 DEF NestingGoesOn
  <1>3. /\ (m + 1) - 1 = m /\ m \in 1..m
        /\ \A j \in 1..m : j \in 1..(m - 1) \/ j = m
        /\ \A j \in 1..(m - 1) : j \in 1..m /\ m \in (j + 1)..m
    BY <1>1
  <1>4. \A j \in 1..(m - 1) : j \in Enclosing(d, m) <=>
           d[j] = Open /\ \A k \in (j + 1)..m : Nesting(d, k) > Nesting(d, j)
    BY DEF Enclosing
  <1>5. ASSUME NEW j \in 1..(m - 1)
        PROVE  j \in Enclosing(e, m + 1) <=>
                 j \in Enclosing(d, m) /\ Nesting(e, m + 1) > Nesting(d, j)
    <2>1. \A k \in (j + 1)..(m + 1) : k \in (j + 1)..m \/ k = m + 1
      BY <1>1
    <2>2. \A k \in (j + 1)..m : k \in 1..m /\ k \in (j + 1)..(m + 1)
      BY <1>1
    <2>3. m + 1 \in (j + 1)..(m + 1) /\ j \in 1..m
      BY <1>1, <1>3
    <2>4. (\A k \in (j + 1)..(m + 1) : Nesting(e, k) > Nesting(e, j))
             <=> (\A k \in (j + 1)..m : Nesting(d, k) > Nesting(d, j))
                 /\ Nesting(e, m + 1) > Nesting(d, j)
      BY <1>2, <2>1, <2>2, <2>3
    <2>5. j \in Enclosing(e, m + 1) <=>
            e[j] = Open /\ \A k \in (j + 1)..(m + 1) : Nesting(e, k) > Nesting(e, j)
      BY <1>3 DEF Enclosing
    <2> QED  BY <1>1, <1>4, <2>4, <2>5
  <1>6. Enclosing(e, m + 1) \subseteq 1..m /\ Enclosing(d, m) \subseteq 1..(m - 1)
    BY <1>3 DEF Enclosing
  <1>7. \A j \in Enclosing(d, m) : Nesting(d, j) \in Int /\ Nesting(d, m) > Nesting(d, j)
    <2> SUFFICES ASSUME NEW j \in Enclosing(d, m)
                 PROVE  Nesting(d, j) \in Int /\ Nesting(d, m) > Nesting(d, j)
      OBVIOUS
    <2>1. j \in 1..(m - 1)
      BY <1>6
    <2> QED  BY <1>2, <1>3, <1>4, <2>1
  <1>8. m \in Enclosing(e, m + 1) <=> t = Open /\ Nesting(e, m + 1) > Nesting(d, m)
    <2>1. \A k : k \in (m + 1)..(m + 1) <=> k = m + 1
      BY <1>1
    <2>2. m \in Enclosing(e, m + 1) <=>
            e[m] = Open /\ \A k \in (m + 1)..(m + 1) : Nesting(e, k) > Nesting(e, m)
      BY <1>3 DEF Enclosing
    <2> QED  BY <1>1, <1>2, <1>3, <2>1, <2>2
  <1>9. m \notin Enclosing(d, m)
    BY <1>1, <1>6
  <1>10. ASSUME t = Open PROVE Enclosing(e, m + 1) = Enclosing(d, m) \cup {m}
    <2>1. \A j \in Enclosing(d, m) : Nesting(e, m + 1) > Nesting(d, j)
      BY <1>2, <1>3, <1>7, <1>10
    <2>2. Nesting(e, m + 1) > Nesting(d, m)
      BY <1>2, <1>3, <1>10
    <2> QED  BY <1>3, <1>5, <1>6, <1>8, <1>10, <2>1, <2>2
  <1>11. ASSUME t = Close
         PROVE  Enclosing(e, m + 1)
                  = {j \in Enclosing(d, m) : Nesting(d, j) <= Nesting(d, m) - 2}
    <2>1. \A j \in Enclosing(d, m) :
            Nesting(e, m + 1) > Nesting(d, j) <=> Nesting(d, j) <= Nesting(d, m) - 2
      BY <1>2, <1>3, <1>7, <1>11
    <2>2. m \notin Enclosing(e, m + 1)
      BY <1>8, <1>11 DEF Open, Close
    <2> QED  BY <1>3, <1>5, <1>6, <2>1, <2>2
  <1>12. ASSUME t \notin {Open, Close} PROVE Enclosing(e, m + 1) = Enclosing(d, m)
    <2>1. \A j \in Enclosing(d, m) : Nesting(e, m + 1) > Nesting(d, j)
      BY <1>2, <1>3, <1>7, <1>12
    <2>2. m \notin Enclosing(e, m + 1)
      BY <1>8, <1>12
    <2> QED  BY <1>3, <1>5, <1>6, <2>1, <2>2
  <1> QED  BY <1>10, <1>11, <1>12 DEF EnclosingGoesOn

-----------------------------------------------------------------------------
(* Two's complement.                                                       *)

Euclid(M, n) ==
    /\ n % M \in Int /\ n \div M \in Int
    /\ 0 <= n % M /\ n % M < M
    /\ n = M * (n \div M) + (n % M)

\* Quotient and remainder are what the integers define,
LEMMA EuclidHolds == ASSUME NEW M \in Nat \ {0}, NEW n \in Int PROVE Euclid(M, n)
  <1>1. n % M \in 0..(M - 1)
    OBVIOUS
  <1>2. n = M * (n \div M) + (n % M)
    OBVIOUS
  <1>3. n \div M \in Int
    OBVIOUS
  <1> QED  BY <1>1, <1>2, <1>3 DEF Euclid

\* and are the only ones.
LEMMA EuclidUnique ==
    ASSUME NEW M \in Nat \ {0}, NEW q \in Int, NEW r \in Int, 0 <= r, r < M,
           NEW p \in Int, NEW s \in Int, 0 <= s, s < M, M * q + r = M * p + s
    PROVE  r = s
  <1>1. r - s = M * (p - q)
    OBVIOUS
  <1>2. p - q >= 1 => M * (p - q) >= M
    OBVIOUS
  <1>3. p - q <= -1 => M * (p - q) <= -M
    OBVIOUS
  <1>4. p = q
    BY <1>1, <1>2, <1>3
  <1> QED  BY <1>4

\* Equal as far as an int can tell.
Congruent(x, y) == \E q \in Int : x = (2 * IntLimit) * q + y

\* Wrapping keeps an integer's class modulo 2 * IntLimit,
LEMMA WrapCongruent == ASSUME NEW n \in Int PROVE Wrap(n) \in Int /\ Congruent(Wrap(n), n)
  <1> DEFINE M == 2 * IntLimit
             q == (n + IntLimit) \div M
  <1>1. M \in Nat \ {0} /\ n + IntLimit \in Int
    BY IntAssumption
  <1>2. Euclid(M, n + IntLimit)
    BY <1>1, EuclidHolds
  <1>3. Wrap(n) = ((n + IntLimit) % M) - IntLimit
    BY DEF Wrap
  <1> HIDE DEF M
  <1>4. q \in Int /\ n + IntLimit = M * q + ((n + IntLimit) % M) /\ (n + IntLimit) % M \in Int
    BY <1>2 DEF Euclid
  <1> HIDE DEF q
  <1>5. M * (-q) = -(M * q) /\ M * q \in Int
    BY <1>1, <1>4
  <1>6. Wrap(n) = M * (-q) + n /\ Wrap(n) \in Int /\ -q \in Int
    BY <1>1, <1>3, <1>4, <1>5, IntAssumption
  <1> QED  BY <1>6 DEF Congruent, M

\* and depends on nothing else:
LEMMA WrapAgrees ==
    ASSUME NEW x \in Int, NEW y \in Int, Congruent(x, y) PROVE Wrap(x) = Wrap(y)
  <1> DEFINE M == 2 * IntLimit
  <1>1. M \in Nat \ {0} /\ IntLimit \in Int
    BY IntAssumption
  <1>2. PICK q \in Int : x = M * q + y
    BY DEF Congruent
  <1> DEFINE a == x + IntLimit
             b == y + IntLimit
  <1>3. Wrap(x) = (a % M) - IntLimit /\ Wrap(y) = (b % M) - IntLimit
    BY DEF Wrap
  <1>4. a \in Int /\ b \in Int /\ a = M * q + b
    BY <1>1, <1>2
  <1> HIDE DEF M, a, b
  <1>5. Euclid(M, a) /\ Euclid(M, b)
    BY <1>1, <1>4, EuclidHolds
  <1>6. /\ a = M * (a \div M) + (a % M) /\ a \div M \in Int
        /\ b = M * (b \div M) + (b % M) /\ b \div M \in Int
        /\ a % M \in Int /\ 0 <= a % M /\ a % M < M
        /\ b % M \in Int /\ 0 <= b % M /\ b % M < M
    BY <1>5 DEF Euclid
  <1>7. M * (q + (b \div M)) = M * q + M * (b \div M) /\ q + (b \div M) \in Int
    BY <1>1, <1>6
  <1>8. M * (a \div M) + (a % M) = M * (q + (b \div M)) + (b % M)
    <2>1. M * q \in Int /\ M * (b \div M) \in Int /\ M * (a \div M) \in Int
      BY <1>1, <1>6
    <2> QED  BY <1>4, <1>6, <1>7, <2>1
  <1>9. a % M = b % M
    BY <1>1, <1>6, <1>7, <1>8, EuclidUnique
  <1> QED  BY <1>3, <1>9

\* Sums and products may be wrapped as one goes or at the end.
LEMMA WrapSum ==
    ASSUME NEW a \in Int, NEW b \in Int PROVE Wrap(Wrap(a) + Wrap(b)) = Wrap(a + b)
  <1> DEFINE M == 2 * IntLimit
  <1>1. M \in Int
    BY IntAssumption
  <1>2. PICK p \in Int : Wrap(a) = M * p + a
    BY WrapCongruent DEF Congruent
  <1>3. PICK q \in Int : Wrap(b) = M * q + b
    BY WrapCongruent DEF Congruent
  <1> HIDE DEF M
  <1>4. M * (p + q) = M * p + M * q /\ M * p \in Int /\ M * q \in Int
    BY <1>1
  <1>5. Wrap(a) + Wrap(b) = M * (p + q) + (a + b) /\ Wrap(a) + Wrap(b) \in Int /\ a + b \in Int
    BY <1>2, <1>3, <1>4
  <1>6. Congruent(Wrap(a) + Wrap(b), a + b)
    BY <1>5 DEF Congruent, M
  <1> QED  BY <1>5, <1>6, WrapAgrees

\* A wrapped factor leaves the wrapped product as it is.
LEMMA WrapProduct ==
    ASSUME NEW a \in Int, NEW b \in Int PROVE Wrap(Wrap(a) * b) = Wrap(a * b)
  <1> DEFINE M == 2 * IntLimit
  <1>1. M \in Int
    BY IntAssumption
  <1>2. PICK p \in Int : Wrap(a) = M * p + a
    BY WrapCongruent DEF Congruent
  <1> HIDE DEF M
  <1>3. M * p \in Int /\ Wrap(a) \in Int
    BY <1>1, <1>2
  <1>4. Wrap(a) * b = (M * p) * b + a * b
    BY <1>2, <1>3
  <1>5. (M * p) * b = M * (p * b) /\ p * b \in Int /\ a * b \in Int /\ M * (p * b) \in Int
    BY <1>1
  <1>6. Wrap(a) * b = M * (p * b) + a * b /\ Wrap(a) * b \in Int
    BY <1>3, <1>4, <1>5
  <1>7. Congruent(Wrap(a) * b, a * b)
    BY <1>5, <1>6 DEF Congruent, M
  <1> QED  BY <1>5, <1>6, <1>7, WrapAgrees

\* An integer that fits is not changed.
LEMMA WrapSmall ==
    ASSUME NEW n \in Int, -IntLimit <= n, n < IntLimit PROVE Wrap(n) = n
  <1> DEFINE M == 2 * IntLimit
             a == n + IntLimit
  <1>1. M \in Nat \ {0} /\ IntLimit \in Int /\ a \in Int /\ 0 <= a /\ a < M
    BY IntAssumption
  <1>2. Wrap(n) = (a % M) - IntLimit
    BY DEF Wrap
  <1>0. a - IntLimit = n
    BY <1>1
  <1> HIDE DEF M, a
  <1>3. Euclid(M, a)
    BY <1>1, EuclidHolds
  <1>4. M * (a \div M) + (a % M) = M * 0 + a
    BY <1>1, <1>3 DEF Euclid
  <1>5. a % M = a
    BY <1>1, <1>3, <1>4, EuclidUnique DEF Euclid
  <1> QED  BY <1>0, <1>2, <1>5

-----------------------------------------------------------------------------
(* What the grammar lets a document say.                                   *)

\* What may follow the start of a document, and arguments.
LEMMA GrammarSays ==
    ASSUME NEW d \in Seq(PlainTokens), NEW t \in PlainNext(d), t # Text
    PROVE  /\ ~Complete(d)
           /\ LastIn(d) \in {Text, Name("query")} => t \in {Open, Name("query")}
           /\ LastIn(d) \in Pages => t = Open
  <1> DEFINE last == LastIn(d)
  <1>1. t \in PlainFollows(d) /\ ~Complete(d)
    BY DEF PlainNext
  <1>2. last \in PlainTokens
    BY LastTyped
  <1>3. /\ Open.is = "{" /\ Text.is = "text" /\ Alias.is = "alias"
        /\ \A f : Name(f).is = "name" /\ Name(f).of = f
        /\ \A p \in Pages : p.is = "args"
    <2>1. \A p \in Pages : p.is = "args"
      BY DEF Pages, Args
    <2> QED  BY <2>1 DEF Open, Text, Alias, Name
  <1>4. last \in {Name("query")} \cup Pages
           => last # Text /\ last # Alias /\ last # Open /\ last # Name("users")
    <2>1. Name("query").is = "name" /\ Name("query").of = "query" /\ Name("users").of = "users"
          /\ Name("users").is = "name"
      BY <1>3
    <2> HIDE DEF Open, Text, Alias, last
    <2> QED  BY <1>3, <2>1
  <1>5. Text # Alias /\ Text # Open /\ Text # Name("users")
         /\ Text \notin {Name("query"), Name("nodes"), Name("tenant")} \cup Pages
    <2>1. \A f : Text # Name(f)
      BY <1>3
    <2>2. Text \notin Pages /\ Text # Alias /\ Text # Open
      BY <1>3
    <2> QED  BY <2>1, <2>2
  <1>6. PlainFollows(d) = CASE last = Text -> {Open} \cup (IF Extras(d) = 0 THEN {Name("query")} ELSE {})
                        [] last = Alias -> FieldNames(d) \ {Alias}
                        [] last = Open -> FieldNames(d)
                        [] last = Name("users") -> Pages \cup {Open}
                        [] last \in {Name("query"), Name("nodes"), Name("tenant")} \cup Pages -> {Open}
                        [] OTHER -> FieldNames(d) \cup {Close}
    BY DEF PlainFollows
  <1> HIDE DEF Open, Text, Alias, last
  <1>7. ASSUME last = Text PROVE t \in {Open, Name("query")}
    <2>1. PlainFollows(d) = {Open} \cup (IF Extras(d) = 0 THEN {Name("query")} ELSE {})
      BY <1>5, <1>6, <1>7
    <2> QED  BY <1>1, <2>1
  <1>8. ASSUME last \in {Name("query")} \cup Pages PROVE t = Open
    <2>1. PlainFollows(d) = {Open}
      BY <1>4, <1>6, <1>8
    <2> QED  BY <1>1, <2>1
  <1> QED  BY <1>1, <1>7, <1>8 DEF last

\* Where a document stands after each token: braces are matched, fields stand
\* inside them, and a document ends with the brace that closes its first.
Balanced(d) ==
    /\ d \in Seq(PlainTokens)
    /\ Nesting(d, Len(d) + 1) >= 0
    /\ (\E i \in 1..Len(d) : d[i] = Open) => Nesting(d, Len(d) + 1) >= 1 \/ Complete(d)
    /\ (\A i \in 1..Len(d) : d[i] # Open)
          => \A i \in 1..Len(d) : d[i] \in {Text, Name("query")}

LEMMA BalancedEmpty == Balanced(<<>>)
  <1>1. <<>> \in Seq(PlainTokens) /\ Len(<<>>) = 0
    OBVIOUS
  <1>2. Opens(<<>>, 1) = {} /\ Closes(<<>>, 1) = {}
    BY DEF Opens, Closes
  <1>3. Nesting(<<>>, 1) = 0
    BY <1>2, NestingCounts, FS_EmptySet
  <1> QED  BY <1>1, <1>3 DEF Balanced

\* The next token of a balanced document, and what it may be.
Fits(d, t) ==
    /\ t \in PlainTokens
    /\ IsField(t) \/ t = Close => Nesting(d, Len(d) + 1) >= 1
    /\ LastIn(d) \in Pages => t \in {Open, Text}

LEMMA NextFits ==
    ASSUME NEW d, Balanced(d), NEW t \in PlainNext(d)
    PROVE  Fits(d, t) /\ ~Complete(d)
           /\ ((\A i \in 1..Len(d) : d[i] # Open) => t \in {Open, Text, Name("query")})
  <1>1. d \in Seq(PlainTokens) /\ t \in PlainTokens
    BY NextIsPlain DEF Balanced
  <1>2. ~Complete(d)
    BY DEF PlainNext
  <1>3. CASE t = Text
    <2>1. ~IsField(t) /\ t # Close
      BY <1>3 DEF Text, Close, IsField
    <2> QED  BY <1>1, <1>2, <1>3, <2>1 DEF Fits
  <1>4. CASE t # Text
    <2>1. /\ LastIn(d) \in {Text, Name("query")} => t \in {Open, Name("query")}
          /\ LastIn(d) \in Pages => t = Open
      BY <1>1, <1>4, GrammarSays
    <2>2. ASSUME \A i \in 1..Len(d) : d[i] # Open PROVE t \in {Open, Name("query")}
      <3>1. \A i \in 1..Len(d) : d[i] \in {Text, Name("query")}
        BY <2>2 DEF Balanced
      <3>2. LastIn(d) \in {Text, Name("query")}
        <4>1. CASE SaidIn(d) = {}
          BY <4>1 DEF LastIn
        <4>2. CASE SaidIn(d) # {}
          <5>1. Max(SaidIn(d)) \in SaidIn(d)
            BY <1>1, <4>2, LastTyped
          <5>2. Max(SaidIn(d)) \in 1..Len(d)
            BY <1>1, <5>1 DEF SaidIn
          <5> QED  BY <3>1, <4>2, <5>2 DEF LastIn
        <4> QED  BY <4>1, <4>2
      <3> QED  BY <2>1, <3>2
    <2>3. ASSUME IsField(t) \/ t = Close PROVE Nesting(d, Len(d) + 1) >= 1
      <3>1. t \notin {Open, Name("query")}
        <4>1. Open.is = "{" /\ Close.is = "}" /\ Name("query").is = "name" /\ Name("query").of = "query"
          BY DEF Open, Close, Name
        <4> QED  BY <2>3, <4>1 DEF IsField, Reserved
      <3>2. \E i \in 1..Len(d) : d[i] = Open
        BY <2>2, <3>1
      <3> QED  BY <1>2, <3>2 DEF Balanced
    <2> QED  BY <1>1, <1>2, <2>1, <2>2, <2>3 DEF Fits
  <1> QED  BY <1>3, <1>4

LEMMA BalancedAppend ==
    ASSUME NEW d, Balanced(d), NEW t \in PlainNext(d)
    PROVE  Balanced(Append(d, t))
  <1> DEFINE e == Append(d, t)
             n == Len(d)
             m == n + 1
  <1>1. d \in Seq(PlainTokens) /\ t \in PlainTokens
    BY NextIsPlain DEF Balanced
  <1>2. /\ e \in Seq(PlainTokens) /\ n \in Nat /\ Len(e) = m /\ e[m] = t
        /\ DOMAIN e = 1..m
        /\ \A j \in 1..n : d[j] = e[j]
    BY <1>1, Appended
  <1>3. NestingGoesOn(d, t, e, m)
    BY <1>1, NestingAppend
  <1>4. /\ Nesting(d, m) >= 0
        /\ (\E i \in 1..n : d[i] = Open) => Nesting(d, m) >= 1
        /\ (\A i \in 1..n : d[i] # Open) => \A i \in 1..n : d[i] \in {Text, Name("query")}
        /\ Fits(d, t)
        /\ (\A i \in 1..n : d[i] # Open) => t \in {Open, Text, Name("query")}
    BY NextFits DEF Balanced
  <1> HIDE DEF e, n, Open, Close, Text
  <1>5. m \in 1..m /\ n \in Nat /\ \A j \in 1..m : j \in 1..n \/ j = m
    BY <1>2
  <1>6. \A j \in 1..n : j \in 1..m
    BY <1>2
  <1> HIDE DEF m
  <1>7. Nesting(d, m) \in Int /\ Nesting(e, m + 1) \in Int
    BY <1>3, <1>5 DEF NestingGoesOn
  <1>8. Open # Close
    BY DEF Open, Close
  <1>9. Nesting(e, m + 1) >= 0
    <2>1. CASE t = Open
      BY <1>3, <1>4, <1>7, <2>1 DEF NestingGoesOn
    <2>2. CASE t = Close
      <3>1. Nesting(d, m) >= 1
        BY <1>4, <2>2 DEF Fits, m, n
      <3> QED  BY <1>3, <1>7, <2>2, <3>1 DEF NestingGoesOn
    <2>3. CASE t \notin {Open, Close}
      BY <1>3, <1>4, <1>7, <2>3 DEF NestingGoesOn
    <2> QED  BY <2>1, <2>2, <2>3
  <1>10. ASSUME \E i \in 1..m : e[i] = Open
         PROVE  Nesting(e, m + 1) >= 1 \/ Complete(e)
    <2>1. CASE t = Open
      BY <1>3, <1>4, <1>7, <2>1 DEF NestingGoesOn
    <2>2. CASE t = Close
      <3>1. CASE Nesting(e, m + 1) >= 1
        BY <3>1
      <3>2. CASE Nesting(e, m + 1) = 0
        <4>1. Close \in Range(e)
          BY <1>2, <1>5, <2>2 DEF Range
        <4>3. ~Undeclared(e) /\ e[Len(e)] # Fragment
          BY <1>2, <1>5, PlainWhole
        <4>2. e # <<>>
          <5>1. Len(<<>>) = 0 /\ m # 0
            BY <1>5 DEF m
          <5> QED  BY <1>2, <5>1
        <4> QED  BY <1>2, <3>2, <4>1, <4>2, <4>3 DEF Complete
      <3> QED  BY <1>7, <1>9, <3>1, <3>2
    <2>3. CASE t \notin {Open, Close}
      <3>1. \E i \in 1..n : d[i] = Open
        BY <1>2, <1>5, <1>10, <2>3
      <3> QED  BY <1>3, <1>4, <2>3, <3>1 DEF NestingGoesOn
    <2> QED  BY <2>1, <2>2, <2>3
  <1>11. ASSUME \A i \in 1..m : e[i] # Open
         PROVE  \A i \in 1..m : e[i] \in {Text, Name("query")}
    <2>1. \A i \in 1..n : d[i] # Open
      BY <1>2, <1>6, <1>11
    <2>2. t # Open
      BY <1>2, <1>5, <1>11
    <2>3. t \in {Text, Name("query")} /\ \A i \in 1..n : d[i] \in {Text, Name("query")}
      BY <1>4, <2>1, <2>2
    <2> QED  BY <1>2, <1>5, <2>3
  <1>12. Len(e) = m /\ e \in Seq(PlainTokens)
    BY <1>2
  <1>13. Balanced(e)
    BY <1>9, <1>10, <1>11, <1>12 DEF Balanced
  <1> QED  BY <1>13 DEF e

-----------------------------------------------------------------------------
(* What one more token adds to the sum over the fields.                    *)

\* What a selection set multiplies by is between 1 and the largest page.
LEMMA HintTyped ==
    ASSUME NEW d \in Seq(PlainTokens), NEW i \in 1..(Len(d) + 1)
    PROVE  ArgsOf(d, i) \in Pages /\ Hint(d, i) \in 1..MaxPageSize /\ Hint(d, i) \in Int
  <1> DEFINE before == {k \in 1..(i - 1) : d[k] # Text}
  <1>1. /\ Len(d) \in Nat /\ i - 1 \in Int /\ 1..(i - 1) \subseteq Int
        /\ \A k \in 1..(i - 1) : d[k] \in PlainTokens
    OBVIOUS
  <1>2. IsFiniteSet(before) /\ before \subseteq Int
    <2>1. before \in SUBSET (1..(i - 1))
      OBVIOUS
    <2>0. IsFiniteSet(1..(i - 1))
      BY <1>1, FS_Interval
    <2> HIDE DEF before
    <2> QED  BY <1>1, <2>0, <2>1, FS_Subset
  <1>3. before # {} => Max(before) \in before
    <2> HIDE DEF before
    <2> QED  BY <1>2, MaxOf
  <1>4. before # {} => d[Max(before)] \in PlainTokens
    BY <1>1, <1>3
  <1>5. ArgsOf(d, i) = IF before # {} /\ d[Max(before)].is = "args" THEN d[Max(before)] ELSE NoArgs
    <2>1. Said(d, i) = before
      BY PlainWhole
    <2> QED  BY <2>1 DEF ArgsOf
  <1> HIDE DEF before
  <1>6. ArgsOf(d, i) \in Pages
    BY <1>4, <1>5, TokenKinds, NoHint
  <1>7. Hint(d, i) \in 1..MaxPageSize
    BY <1>6, HintRange DEF Hint
  <1> QED  BY <1>6, <1>7, PagesAssumption

\* Selection sets that enclose a position open before it.
LEMMA EnclosingBefore ==
    ASSUME NEW d, NEW i \in Int
    PROVE  Enclosing(d, i) \subseteq 1..(i - 1) /\ IsFiniteSet(Enclosing(d, i))
  <1>1. IsFiniteSet(1..(i - 1))
    BY FS_Interval
  <1>2. Enclosing(d, i) \subseteq 1..(i - 1)
    BY DEF Enclosing
  <1> QED  BY <1>1, <1>2, FS_Subset

\* The product of the page sizes of the selection sets in S.
PagesProduct(d, S) == ProductOver(S, [j \in S |-> Hint(d, j)])

LEMMA ProductTyped ==
    ASSUME NEW d \in Seq(PlainTokens), NEW S, IsFiniteSet(S), S \subseteq 1..(Len(d) + 1)
    PROVE  PagesProduct(d, S) \in Int
  <1>1. [j \in S |-> Hint(d, j)] \in [S -> Int]
    BY HintTyped
  <1>2. Folded(S, Int, 1, Pick(S), Times([j \in S |-> Hint(d, j)])) \in Int
    BY <1>1, ProductFoldable, FoldedIsFold
  <1> QED  BY <1>2 DEF PagesProduct, ProductOver

\* What a field at position i counts for is the product of the enclosing pages.
LEMMA FactorAt ==
    ASSUME NEW d \in Seq(PlainTokens), NEW i \in 1..(Len(d) + 1)
    PROVE  Factor(d, i) = PagesProduct(d, Enclosing(d, i)) /\ Factor(d, i) \in Int
  <1>1. i \in Int /\ \A j \in 1..(i - 1) : j \in 1..(Len(d) + 1)
    OBVIOUS
  <1>2. Enclosing(d, i) \subseteq 1..(Len(d) + 1) /\ IsFiniteSet(Enclosing(d, i))
    BY <1>1, EnclosingBefore
  <1>3. \A j \in Enclosing(d, i) : Hint(d, j) \in Int
    BY <1>2, HintTyped
  <1>4. Factor(d, i) = PagesProduct(d, Enclosing(d, i))
    <2>1. \A j \in Enclosing(d, i) : Hints(d)[j] = Hint(d, j)
      <3>1. Enclosing(d, i) \subseteq 1..(i - 1) /\ DOMAIN d = 1..Len(d) /\ Len(d) \in Nat
        BY <1>1, EnclosingBefore
      <3>2. Enclosing(d, i) \subseteq DOMAIN d
        BY <3>1
      <3> QED  BY <3>2 DEF Hints, Hint
    <2>2. Factor(d, i) = ProductOver(Enclosing(d, i), [j \in Enclosing(d, i) |-> Hints(d)[j]])
      BY <1>2, <1>3, <2>1, ShareIsProduct DEF Factor
    <2>3. [j \in Enclosing(d, i) |-> Hints(d)[j]] = [j \in Enclosing(d, i) |-> Hint(d, j)]
      BY <2>1
    <2> QED  BY <2>2, <2>3 DEF PagesProduct
  <1> QED  BY <1>2, <1>4, ProductTyped

\* Hints and factors of positions in d, and of the next, stay.
LEMMA HintsStay ==
    ASSUME NEW d \in Seq(PlainTokens), NEW t \in PlainTokens, NEW e, e = Append(d, t),
           NEW i \in 1..(Len(d) + 1)
    PROVE  Hint(e, i) = Hint(d, i) /\ Enclosing(e, i) = Enclosing(d, i)
  <1>1. Len(d) \in Nat /\ \A j \in 1..Len(d) : d[j] = e[j]
    BY Appended
  <1> QED  BY <1>1, PrefixStays DEF Hint

LEMMA FactorStays ==
    ASSUME NEW d \in Seq(PlainTokens), NEW t \in PlainTokens, NEW e, e = Append(d, t),
           NEW i \in 1..(Len(d) + 1)
    PROVE  Factor(e, i) = Factor(d, i)
  <1>1. e \in Seq(PlainTokens) /\ Len(e) = Len(d) + 1 /\ Len(d) \in Nat
    BY Appended
  <1>2. i \in 1..(Len(e) + 1) /\ \A j \in 1..(i - 1) : j \in 1..(Len(d) + 1)
    BY <1>1
  <1>3. Factor(e, i) = PagesProduct(e, Enclosing(e, i)) /\ Factor(d, i) = PagesProduct(d, Enclosing(d, i))
    BY <1>1, <1>2, FactorAt
  <1>4. Enclosing(e, i) = Enclosing(d, i)
    BY HintsStay
  <1>5. Enclosing(d, i) \subseteq 1..(Len(d) + 1)
    BY <1>2, EnclosingBefore
  <1>6. [j \in Enclosing(d, i) |-> Hint(e, j)] = [j \in Enclosing(d, i) |-> Hint(d, j)]
    BY <1>5, HintsStay
  <1> QED  BY <1>3, <1>4, <1>6 DEF PagesProduct

PositionsGoOn(d, t, e, m) ==
    /\ Positions(e) = IF IsField(t) THEN Positions(d) \cup {m} ELSE Positions(d)
    /\ m \notin Positions(d) /\ Positions(d) \subseteq 1..m /\ IsFiniteSet(Positions(d))

LEMMA PositionsAppend ==
    ASSUME NEW d \in Seq(PlainTokens), NEW t \in PlainTokens, NEW e, e = Append(d, t),
           NEW m, m = Len(d) + 1
    PROVE  PositionsGoOn(d, t, e, m)
  <1>1. /\ Len(d) \in Nat /\ DOMAIN d = 1..Len(d) /\ DOMAIN e = 1..(Len(d) + 1)
        /\ e[Len(d) + 1] = t /\ \A j \in 1..Len(d) : d[j] = e[j]
    BY Appended
  <1>2. m \in DOMAIN e /\ e[m] = t /\ m \notin DOMAIN d /\ DOMAIN d \subseteq 1..m
        /\ DOMAIN e = DOMAIN d \cup {m} /\ \A j \in DOMAIN d : d[j] = e[j]
    BY <1>1
  <1>3. IsFiniteSet(DOMAIN d)
    BY <1>1, FS_Interval
  <1>4. Positions(d) \subseteq DOMAIN d
    BY DEF Positions
  <1>5. Positions(e) = IF IsField(t) THEN Positions(d) \cup {m} ELSE Positions(d)
    BY <1>2 DEF Positions
  <1> QED  BY <1>2, <1>3, <1>4, <1>5, FS_Subset DEF PositionsGoOn

\* The cost of a document is the sum of its fields' factors,
LEMMA CostIsSum ==
    ASSUME NEW d, IsFiniteSet(Positions(d)), \A i \in Positions(d) : Factor(d, i) \in Int
    PROVE  CostOf(d) = SumOver(Positions(d), [i \in Positions(d) |-> Factor(d, i)])
  <1>1. CostOf(d) = Weighted(d, Hints(d))
    BY DEF CostOf, Hints
  <1>2. Weighted(d, Hints(d)) = SumOver(Positions(d), [i \in Positions(d) |-> Share(d, Hints(d), i)])
    BY WeightedIsSum DEF Factor
  <1> QED  BY <1>1, <1>2 DEF Factor

\* and one field more adds its factor.
LEMMA CostAppend ==
    ASSUME NEW d \in Seq(PlainTokens), NEW t \in PlainTokens, NEW e, e = Append(d, t),
           NEW m, m = Len(d) + 1
    PROVE  /\ CostOf(d) \in Int /\ Factor(d, m) \in Int
           /\ CostOf(e) = IF IsField(t) THEN Factor(d, m) + CostOf(d) ELSE CostOf(d)
  <1> DEFINE S == Positions(d)
             w == [i \in S |-> Factor(d, i)]
             T == Positions(e)
             u == [i \in T |-> Factor(e, i)]
  <1>1. /\ T = IF IsField(t) THEN S \cup {m} ELSE S
        /\ m \notin S /\ S \subseteq 1..m /\ IsFiniteSet(S)
    <2>1. PositionsGoOn(d, t, e, m)
      BY PositionsAppend
    <2> QED  BY <2>1 DEF PositionsGoOn
  <1>2. e \in Seq(PlainTokens) /\ m \in Nat /\ m \in 1..(Len(d) + 1) /\ m = Len(d) + 1
    BY Appended
  <1>3. \A i \in 1..m : Factor(d, i) \in Int /\ Factor(e, i) = Factor(d, i)
    <2> SUFFICES ASSUME NEW i \in 1..m PROVE Factor(d, i) \in Int /\ Factor(e, i) = Factor(d, i)
      OBVIOUS
    <2>1. i \in 1..(Len(d) + 1)
      BY <1>2
    <2> QED  BY <2>1, FactorAt, FactorStays
  <1>4. T \subseteq 1..m /\ IsFiniteSet(T) /\ m \in 1..m
    BY <1>1, <1>2, FS_AddElement
  <1>5. /\ w \in [S -> Int] /\ u \in [T -> Int]
        /\ \A i \in S : w[i] = Factor(d, i)
        /\ \A i \in T : u[i] = Factor(d, i)
    BY <1>1, <1>3, <1>4
  <1>6. CostOf(d) = SumOver(S, w)
    BY <1>1, <1>3, CostIsSum
  <1>7. CostOf(e) = SumOver(T, u)
    BY <1>3, <1>4, CostIsSum
  <1>8. \A i \in S : w[i] = u[i]
    BY <1>1, <1>5
  <1> HIDE DEF S, T, w, u
  <1>9. SumOver(S, w) \in Int /\ SumOver(S \cup {m}, [i \in S \cup {m} |-> Factor(d, i)]) \in Int
    <2>1. Folded(S, Int, 0, Pick(S), Adds(w)) \in Int
      BY <1>1, <1>5, SumFoldable, FoldedIsFold
    <2>2. IsFiniteSet(S \cup {m}) /\ [i \in S \cup {m} |-> Factor(d, i)] \in [S \cup {m} -> Int]
      BY <1>1, <1>3, <1>4, FS_AddElement
    <2>3. Folded(S \cup {m}, Int, 0, Pick(S \cup {m}), Adds([i \in S \cup {m} |-> Factor(d, i)])) \in Int
      BY <2>2, SumFoldable, FoldedIsFold
    <2> QED  BY <2>1, <2>3 DEF SumOver
  <1>10. ASSUME IsField(t) PROVE CostOf(e) = Factor(d, m) + CostOf(d)
    <2>1. T = S \cup {m}
      BY <1>1, <1>10
    <2>2. SumOver(S \cup {m}, u) = u[m] + SumOver(S, w)
      <3>1. Widens(S, m, w, u)
        BY <1>1, <1>5, <1>8, <2>1 DEF Widens
      <3> QED  BY <3>1, SumAdd
    <2>3. u[m] = Factor(d, m)
      BY <1>5, <2>1
    <2> QED  BY <1>6, <1>7, <2>1, <2>2, <2>3
  <1>11. ASSUME ~IsField(t) PROVE CostOf(e) = CostOf(d)
    <2>1. T = S
      BY <1>1, <1>11
    <2>2. u = w
      BY <1>5, <1>8, <2>1
    <2> QED  BY <1>6, <1>7, <2>1, <2>2
  <1> QED  BY <1>3, <1>4, <1>6, <1>9, <1>10, <1>11

-----------------------------------------------------------------------------
(* The depth of a document.                                                *)

Nestings(d) == {Nesting(d, i) : i \in 1..(Len(d) + 1)}

\* The depth of a document is a greatest element that exists,
LEMMA NestingsFinite ==
    ASSUME NEW d \in Seq(PlainTokens)
    PROVE  /\ IsFiniteSet(Nestings(d)) /\ Nestings(d) \subseteq Int /\ Nestings(d) # {}
           /\ DepthOf(d) = Max(Nestings(d))
           /\ DepthOf(d) \in Nestings(d) /\ \A y \in Nestings(d) : y <= DepthOf(d)
  <1> DEFINE I == 1..(Len(d) + 1)
             f == [i \in I |-> Nesting(d, i)]
  <1>1. Len(d) + 1 \in I /\ \A i \in I : i \in Int
    OBVIOUS
  <1>2. IsFiniteSet(I)
    BY FS_Interval
  <1>3. f \in Surjection(I, Nestings(d))
    BY DEF Nestings, Surjection
  <1>4. IsFiniteSet(Nestings(d))
    <2> HIDE DEF I, f
    <2> QED  BY <1>2, <1>3, FS_Surjection
  <1>5. Nestings(d) \subseteq Int /\ Nestings(d) # {}
    BY <1>1, NestingCounts DEF Nestings
  <1>6. DepthOf(d) = Max(Nestings(d))
    BY DEF DepthOf, Nestings
  <1> QED  BY <1>4, <1>5, <1>6, MaxOf

DepthGoesOn(d, e, m) ==
    /\ DepthOf(d) \in Int /\ Nesting(d, m) <= DepthOf(d)
    /\ DepthOf(e) = IF DepthOf(d) >= Nesting(e, m + 1) THEN DepthOf(d) ELSE Nesting(e, m + 1)

\* and one token more raises it if its nesting is greater.
LEMMA DepthAppend ==
    ASSUME NEW d \in Seq(PlainTokens), NEW t \in PlainTokens, NEW e, e = Append(d, t),
           NEW m, m = Len(d) + 1
    PROVE  DepthGoesOn(d, e, m)
  <1> DEFINE new == Nesting(e, m + 1)
  <1>1. /\ e \in Seq(PlainTokens) /\ Len(e) = m /\ m \in Nat /\ Len(d) + 1 = m
    BY Appended
  <1>2. NestingGoesOn(d, t, e, m)
    BY NestingAppend
  <1>3. \A i \in 1..m : Nesting(e, i) = Nesting(d, i)
    BY <1>2 DEF NestingGoesOn
  <1>4. new \in Int
    BY <1>2 DEF NestingGoesOn
  <1>5. m \in 1..m /\ m + 1 \in 1..(m + 1) /\ (\A i \in 1..(m + 1) : i \in 1..m \/ i = m + 1)
        /\ \A i \in 1..m : i \in 1..(m + 1)
    BY <1>1
  <1>6. Nestings(e) = Nestings(d) \cup {new}
    BY <1>1, <1>3, <1>5 DEF Nestings
  <1>7. Nesting(d, m) \in Nestings(d)
    BY <1>1, <1>5 DEF Nestings
  <1>8. /\ DepthOf(d) \in Nestings(d) /\ Nestings(d) \subseteq Int
        /\ \A y \in Nestings(d) : y <= DepthOf(d)
    BY NestingsFinite
  <1>9. /\ DepthOf(e) \in Nestings(e) /\ Nestings(e) \subseteq Int
        /\ \A y \in Nestings(e) : y <= DepthOf(e)
    BY <1>1, NestingsFinite
  <1> HIDE DEF new
  <1>10. /\ DepthOf(e) = new \/ DepthOf(e) \in Nestings(d)
         /\ new <= DepthOf(e) /\ DepthOf(d) <= DepthOf(e)
    BY <1>6, <1>8, <1>9
  <1>11. DepthOf(e) = new \/ DepthOf(e) <= DepthOf(d)
    BY <1>8, <1>10
  <1>12. DepthOf(e) = IF DepthOf(d) >= new THEN DepthOf(d) ELSE new
    BY <1>4, <1>8, <1>9, <1>10, <1>11
  <1> QED  BY <1>7, <1>8, <1>12 DEF new, DepthGoesOn

-----------------------------------------------------------------------------
(* What the scanner knows at the end of a document: mult[k] is the product *)
(* of the selection sets that stand no deeper than k, as an int.           *)
Shallow(d, k) ==
    {j \in Enclosing(d, Len(d) + 1) : Nesting(d, j) <= k - 2}
Knows(a, d) ==
    /\ a \in Scanner
    /\ a.depth = Nesting(d, Len(d) + 1)
    /\ Len(a.mult) = a.depth + 1
    /\ \A k \in 1..(a.depth + 1) : a.mult[k] = Wrap(PagesProduct(d, Shallow(d, k)))
    /\ a.pending = Hint(d, Len(d) + 1)
    /\ a.cost = Wrap(CostOf(d))
    /\ a.fields = Cardinality(Positions(d))
    /\ a.deepest = DepthOf(d)

\* The last multiplier is the product of all that are open.
LEMMA ShallowAll ==
    ASSUME NEW d \in Seq(PlainTokens)
    PROVE  /\ Shallow(d, Nesting(d, Len(d) + 1) + 1) = Enclosing(d, Len(d) + 1)
           /\ \A j \in Enclosing(d, Len(d) + 1) :
                Nesting(d, j) \in Int /\ Nesting(d, j) < Nesting(d, Len(d) + 1)
  <1> DEFINE m == Len(d) + 1
  <1>1. m \in Int /\ Nesting(d, m) \in Int
    BY NestingCounts
  <1>2. ASSUME NEW j \in Enclosing(d, m) PROVE Nesting(d, j) \in Int /\ Nesting(d, j) < Nesting(d, m)
    <2>1. j \in 1..(m - 1) /\ \A k \in (j + 1)..m : Nesting(d, k) > Nesting(d, j)
      BY DEF Enclosing
    <2>2. m \in (j + 1)..m /\ j \in Int
      BY <1>1, <2>1
    <2>3. Nesting(d, j) \in Int
      BY <2>2, NestingCounts
    <2>4. Nesting(d, m) > Nesting(d, j)
      BY <2>1, <2>2
    <2> QED  BY <1>1, <2>3, <2>4
  <1> HIDE DEF m
  <1>3. \A j \in Enclosing(d, m) : Nesting(d, j) <= (Nesting(d, m) + 1) - 2
    BY <1>1, <1>2
  <1>4. Shallow(d, Nesting(d, m) + 1) = Enclosing(d, m)
    BY <1>3 DEF Shallow, m
  <1> QED  BY <1>2, <1>4 DEF m

LEMMA EmptyProduct == \A d : PagesProduct(d, {}) = 1
  <1> SUFFICES ASSUME NEW d PROVE PagesProduct(d, {}) = 1
    OBVIOUS
  <1>1. [j \in {} |-> Hint(d, j)] \in [{} -> Int]
    OBVIOUS
  <1> QED  BY <1>1, EmptyFolds DEF PagesProduct

\* The integers a scan starts with fit.
LEMMA WrapOfSmall == Wrap(0) = 0 /\ Wrap(1) = 1
  <1>1. -IntLimit <= 0 /\ 0 < IntLimit /\ -IntLimit <= 1 /\ 1 < IntLimit
    BY IntAssumption, PagesAssumption
  <1> QED  BY <1>1, WrapSmall

\* The scanner starts out right.
LEMMA KnowsEmpty == Knows(Fresh, <<>>)
  <1>1. <<>> \in Seq(PlainTokens) /\ Len(<<>>) = 0 /\ DOMAIN <<>> = {} /\ 0 + 1 = 1
    OBVIOUS
  <1>2. Fresh \in Scanner
    BY <1>1, AnalyzeTyped, AnalyzeEmpty
  <1>3. Opens(<<>>, 1) = {} /\ Closes(<<>>, 1) = {}
    BY DEF Opens, Closes
  <1>4. Nesting(<<>>, 1) = 0
    BY <1>3, NestingCounts, FS_EmptySet
  <1>5. \A k : Shallow(<<>>, k) = {}
    BY <1>1 DEF Shallow, Enclosing
  <1>6. Hint(<<>>, 1) = 1
    <2>1. LastIn(<<>>) = Text
      BY <1>1 DEF SaidIn, LastIn
    <2>2. Text \notin Pages
      BY DEF Text, Pages, Args
    <2>3. ArgsOf(<<>>, 1) = NoArgs
      BY <1>1, <2>1, <2>2, ArgsAtEnd
    <2> QED  BY <2>3, NoHint DEF Hint
  <1>7. Positions(<<>>) = {}
    BY <1>1 DEF Positions
  <1>8. CostOf(<<>>) = 0
    <2>1. CostOf(<<>>) = SumOver({}, [i \in {} |-> Factor(<<>>, i)])
      BY <1>7, CostIsSum, FS_EmptySet
    <2>2. [i \in {} |-> Factor(<<>>, i)] \in [{} -> Int]
      OBVIOUS
    <2> QED  BY <2>1, <2>2, EmptyFolds
  <1>9. DepthOf(<<>>) = 0
    <2>1. Nestings(<<>>) = {0}
      <3>1. \A i : i \in 1..(0 + 1) <=> i = 1
        OBVIOUS
      <3> QED  BY <1>1, <1>4, <3>1 DEF Nestings
    <2> QED  BY <1>1, <2>1, NestingsFinite
  <1>10. /\ Fresh.depth = 0 /\ Fresh.deepest = 0 /\ Fresh.cost = 0 /\ Fresh.fields = 0
         /\ Fresh.mult = <<1>> /\ Fresh.pending = 1
    BY DEF Fresh
  <1>11. Len(Fresh.mult) = 1 /\ Fresh.mult[1] = 1
    BY <1>10
  <1>12. \A k \in 1..(0 + 1) : Fresh.mult[k] = Wrap(PagesProduct(<<>>, Shallow(<<>>, k)))
    <2>1. \A k \in 1..(0 + 1) : k = 1
      OBVIOUS
    <2> QED  BY <1>5, <1>11, <2>1, EmptyProduct, WrapOfSmall
  <1> HIDE DEF Fresh
  <1> QED  BY <1>1, <1>2, <1>4, <1>6, <1>7, <1>8, <1>9, <1>10, <1>11, <1>12, WrapOfSmall, FS_EmptySet
           DEF Knows

\* What the next selection set would multiply by, after one token more.
LEMMA HintAppend ==
    ASSUME NEW d \in Seq(PlainTokens), NEW t \in PlainTokens, NEW e, e = Append(d, t)
    PROVE  /\ t = Text => Hint(e, Len(e) + 1) = Hint(d, Len(d) + 1)
           /\ t \in Pages => Hint(e, Len(e) + 1) = PageMultiplier(t)
           /\ t \notin Pages \cup {Text} => Hint(e, Len(e) + 1) = 1
           /\ LastIn(d) \notin Pages => Hint(d, Len(d) + 1) = 1
  <1>1. e \in Seq(PlainTokens)
    BY Appended
  <1>2. /\ ArgsOf(d, Len(d) + 1) = IF LastIn(d) \in Pages THEN LastIn(d) ELSE NoArgs
        /\ ArgsOf(e, Len(e) + 1) = IF LastIn(e) \in Pages THEN LastIn(e) ELSE NoArgs
    BY <1>1, ArgsAtEnd
  <1>3. LastIn(e) = IF t = Text THEN LastIn(d) ELSE t
    BY LastAppend
  <1>4. Text \notin Pages
    BY DEF Text, Pages, Args
  <1> HIDE DEF Text
  <1> QED  BY <1>2, <1>3, <1>4, NoHint DEF Hint

\* Products over what is already written stay,
LEMMA ProductStays ==
    ASSUME NEW d \in Seq(PlainTokens), NEW t \in PlainTokens, NEW e, e = Append(d, t)
    PROVE  \A S \in SUBSET (1..(Len(d) + 1)) : PagesProduct(e, S) = PagesProduct(d, S)
  <1> SUFFICES ASSUME NEW S \in SUBSET (1..(Len(d) + 1))
               PROVE  PagesProduct(e, S) = PagesProduct(d, S)
    OBVIOUS
  <1>1. \A j \in S : Hint(e, j) = Hint(d, j)
    BY HintsStay
  <1>2. [j \in S |-> Hint(e, j)] = [j \in S |-> Hint(d, j)]
    BY <1>1
  <1> QED  BY <1>2 DEF PagesProduct

\* and a selection set that opens multiplies them by its page.
LEMMA ProductGrows ==
    ASSUME NEW d \in Seq(PlainTokens), NEW S, IsFiniteSet(S), NEW m \in 1..(Len(d) + 1),
           S \subseteq 1..(Len(d) + 1), m \notin S
    PROVE  PagesProduct(d, S \cup {m}) = Hint(d, m) * PagesProduct(d, S)
  <1> DEFINE w == [j \in S |-> Hint(d, j)]
             T == S \cup {m}
             u == [j \in T |-> Hint(d, j)]
  <1>1. \A j \in T : Hint(d, j) \in Int
    BY HintTyped
  <1>2. w \in [S -> Int] /\ u \in [S \cup {m} -> Int]
    BY <1>1
  <1>3. u[m] = Hint(d, m) /\ \A y \in S : w[y] = u[y]
    OBVIOUS
  <1> HIDE DEF w, u
  <1>4. ProductOver(S \cup {m}, u) = u[m] * ProductOver(S, w)
    <2>1. Widens(S, m, w, u)
      BY <1>2, <1>3 DEF Widens
    <2> QED  BY <2>1, ProductAdd
  <1> QED  BY <1>3, <1>4 DEF w, u, PagesProduct

\* The multipliers that stay in force.
LEMMA ShallowAppend ==
    ASSUME NEW d \in Seq(PlainTokens), NEW t \in PlainTokens, NEW e, e = Append(d, t), NEW k \in Int,
           k <= Nesting(d, Len(d) + 1) + 1, t = Close => k <= Nesting(d, Len(d) + 1)
    PROVE  PagesProduct(e, Shallow(e, k)) = PagesProduct(d, Shallow(d, k))
  <1> DEFINE m == Len(d) + 1
  <1>1. Len(e) = m /\ m \in Nat /\ m \in 1..m /\ Len(d) = m - 1 /\ \A i \in 1..(m - 1) : i \in 1..m
    BY Appended
  <1>2. NestingGoesOn(d, t, e, m)
    BY NestingAppend
  <1>3. EnclosingGoesOn(d, t, e, m)
    BY EnclosingAppend
  <1>4. k <= Nesting(d, m) + 1 /\ (t = Close => k <= Nesting(d, m))
    OBVIOUS
  <1>5. \A x : Shallow(d, x) = {j \in Enclosing(d, m) : Nesting(d, j) <= x - 2}
    BY DEF Shallow
  <1>6. \A x : Shallow(e, x) = {j \in Enclosing(e, m + 1) : Nesting(e, j) <= x - 2}
    BY <1>1 DEF Shallow
  <1>0. \A S \in SUBSET (1..m) : PagesProduct(e, S) = PagesProduct(d, S)
    BY ProductStays
  <1> HIDE DEF m, Open, Close
  <1>7. \A i \in 1..m : Nesting(e, i) = Nesting(d, i) /\ Nesting(d, i) \in Int
    BY <1>2 DEF NestingGoesOn
  <1>8. Enclosing(d, m) \subseteq 1..(m - 1)
    BY <1>1, EnclosingBefore
  <1>9. \A j \in Enclosing(d, m) : Nesting(e, j) = Nesting(d, j) /\ Nesting(d, j) \in Int
    BY <1>1, <1>7, <1>8
  <1>10. Nesting(e, m) = Nesting(d, m) /\ Nesting(d, m) \in Int
    BY <1>1, <1>7
  <1>11. \A j : j \in Shallow(d, k) <=> j \in Enclosing(d, m) /\ Nesting(d, j) <= k - 2
    BY <1>5
  <1>12. \A j : j \in Shallow(e, k) <=> j \in Enclosing(e, m + 1) /\ Nesting(e, j) <= k - 2
    BY <1>6
  <1>13. Shallow(e, k) = Shallow(d, k)
    <2>1. CASE t = Open
      <3>1. ~(Nesting(e, m) <= k - 2)
        BY <1>4, <1>10
      <3>2. \A j : j \in Enclosing(e, m + 1) <=> j \in Enclosing(d, m) \/ j = m
        BY <1>3, <2>1 DEF EnclosingGoesOn
      <3>3. \A j : j \in Shallow(e, k) <=> j \in Shallow(d, k)
        BY <1>9, <1>11, <1>12, <3>1, <3>2
      <3> QED  BY <3>3
    <2>2. CASE t = Close
      <3>1. k <= Nesting(d, m)
        BY <1>4, <2>2
      <3>2. \A j \in Enclosing(d, m) : Nesting(d, j) <= k - 2 => Nesting(d, j) <= Nesting(d, m) - 2
        BY <1>9, <1>10, <3>1
      <3>3. \A j : j \in Enclosing(e, m + 1)
                     <=> j \in Enclosing(d, m) /\ Nesting(d, j) <= Nesting(d, m) - 2
        BY <1>3, <2>2 DEF EnclosingGoesOn
      <3>4. \A j : j \in Shallow(e, k) <=> j \in Shallow(d, k)
        BY <1>9, <1>11, <1>12, <3>2, <3>3
      <3> QED  BY <3>4
    <2>3. CASE t \notin {Open, Close}
      <3>1. Enclosing(e, m + 1) = Enclosing(d, m)
        BY <1>3, <2>3 DEF EnclosingGoesOn
      <3>2. \A j : j \in Shallow(e, k) <=> j \in Shallow(d, k)
        BY <1>9, <1>11, <1>12, <3>1
      <3> QED  BY <3>2
    <2> QED  BY <2>1, <2>2, <2>3
  <1>14. Shallow(d, k) \subseteq 1..m
    BY <1>1, <1>8, <1>11
  <1> QED  BY <1>0, <1>13, <1>14

-----------------------------------------------------------------------------
(* One turn of the scanner.                                                *)

\* Fields are counted as they are written.
LEMMA FieldsCounted ==
    ASSUME NEW d \in Seq(PlainTokens), NEW t \in PlainTokens, NEW e, e = Append(d, t)
    PROVE  /\ IsField(t) => Cardinality(Positions(e)) = Cardinality(Positions(d)) + 1
           /\ ~IsField(t) => Positions(e) = Positions(d)
  <1>1. PositionsGoOn(d, t, e, Len(d) + 1)
    BY PositionsAppend
  <1>2. IsFiniteSet(Positions(d)) /\ Len(d) + 1 \notin Positions(d)
    BY <1>1 DEF PositionsGoOn
  <1>3. Cardinality(Positions(d) \cup {Len(d) + 1}) = Cardinality(Positions(d)) + 1
    BY <1>2, FS_AddElement
  <1> QED  BY <1>1, <1>3 DEF PositionsGoOn

\* The scanner knows d, and t comes next, at position m; e is what d becomes.
Reads(a, d, t, e, m) ==
    /\ d \in Seq(PlainTokens) /\ Knows(a, d) /\ Fits(d, t)
    /\ e = Append(d, t) /\ m = Len(d) + 1
    /\ Nesting(d, m) >= 0

\* What is known of d, and what the new token says of e.
Read(a, d, t, e, m) ==
    /\ e \in Seq(PlainTokens) /\ Len(e) = m /\ m \in Nat \ {0} /\ t \in PlainTokens
    /\ NestingGoesOn(d, t, e, m) /\ DepthGoesOn(d, e, m)
    /\ Nesting(d, m) \in Nat /\ Nesting(e, m + 1) \in Int
    /\ IsField(t) => Cardinality(Positions(e)) = Cardinality(Positions(d)) + 1
    /\ ~IsField(t) => Positions(e) = Positions(d)
    /\ CostOf(d) \in Int /\ Factor(d, m) \in Int
    /\ CostOf(e) = IF IsField(t) THEN Factor(d, m) + CostOf(d) ELSE CostOf(d)
    /\ \A k \in Int : k <= Nesting(d, m) + 1 /\ (t = Close => k <= Nesting(d, m))
          => PagesProduct(e, Shallow(e, k)) = PagesProduct(d, Shallow(d, k))
    /\ t = Text => Hint(e, m + 1) = Hint(d, m)
    /\ t \in Pages => Hint(e, m + 1) = PageMultiplier(t)
    /\ t \notin Pages \cup {Text} => Hint(e, m + 1) = 1
    /\ t \notin {Open, Text} => Hint(d, m) = 1
    /\ IsField(t) \/ t = Close => Nesting(d, m) >= 1

KnownAt(a, d, m) ==
    /\ a \in Scanner
    /\ a.depth = Nesting(d, m)
    /\ Len(a.mult) = Nesting(d, m) + 1
    /\ \A k \in 1..(Nesting(d, m) + 1) : a.mult[k] = Wrap(PagesProduct(d, Shallow(d, k)))
    /\ Last(a.mult) = Wrap(Factor(d, m))
    /\ a.pending = Hint(d, m) /\ a.cost = Wrap(CostOf(d))
    /\ a.fields = Cardinality(Positions(d)) /\ a.deepest = DepthOf(d)

\* Everything one token more can change, in one place.
LEMMA WhatIsRead ==
    ASSUME NEW a, NEW d, NEW t, NEW e, NEW m, Reads(a, d, t, e, m)
    PROVE  Read(a, d, t, e, m)
  <1>1. /\ d \in Seq(PlainTokens) /\ t \in PlainTokens /\ e = Append(d, t) /\ m = Len(d) + 1
        /\ Nesting(d, m) >= 0 /\ Fits(d, t)
    BY DEF Reads, Fits
  <1>2. e \in Seq(PlainTokens) /\ Len(e) = m /\ m \in Nat \ {0}
    BY <1>1, Appended
  <1>3. NestingGoesOn(d, t, e, m)
    BY <1>1, NestingAppend
  <1>4. DepthGoesOn(d, e, m)
    BY <1>1, DepthAppend
  <1>5. Nesting(d, m) \in Nat /\ Nesting(e, m + 1) \in Int
    BY <1>1, <1>2, <1>3 DEF NestingGoesOn
  <1>6. /\ IsField(t) => Cardinality(Positions(e)) = Cardinality(Positions(d)) + 1
        /\ ~IsField(t) => Positions(e) = Positions(d)
    BY <1>1, FieldsCounted
  <1>7. /\ CostOf(d) \in Int /\ Factor(d, Len(d) + 1) \in Int
        /\ CostOf(e) = IF IsField(t) THEN Factor(d, Len(d) + 1) + CostOf(d) ELSE CostOf(d)
    BY <1>1, CostAppend
  <1>8. ASSUME NEW k \in Int, k <= Nesting(d, m) + 1, t = Close => k <= Nesting(d, m)
        PROVE  PagesProduct(e, Shallow(e, k)) = PagesProduct(d, Shallow(d, k))
    <2>1. k <= Nesting(d, Len(d) + 1) + 1 /\ (t = Close => k <= Nesting(d, Len(d) + 1))
      BY <1>1, <1>8
    <2> QED  BY <1>1, <2>1, ShallowAppend
  <1>9. /\ t = Text => Hint(e, m + 1) = Hint(d, m)
        /\ t \in Pages => Hint(e, m + 1) = PageMultiplier(t)
        /\ t \notin Pages \cup {Text} => Hint(e, m + 1) = 1
        /\ LastIn(d) \notin Pages => Hint(d, m) = 1
    <2>1. Hint(e, Len(e) + 1) = Hint(e, m + 1) /\ Hint(d, Len(d) + 1) = Hint(d, m)
      BY <1>1, <1>2
    <2>2. /\ t = Text => Hint(e, Len(e) + 1) = Hint(d, Len(d) + 1)
          /\ t \in Pages => Hint(e, Len(e) + 1) = PageMultiplier(t)
          /\ t \notin Pages \cup {Text} => Hint(e, Len(e) + 1) = 1
          /\ LastIn(d) \notin Pages => Hint(d, Len(d) + 1) = 1
      BY <1>1, HintAppend
    <2> QED  BY <2>1, <2>2
  <1>10. t \notin {Open, Text} => Hint(d, m) = 1
    BY <1>1, <1>9 DEF Fits
  <1>11. IsField(t) \/ t = Close => Nesting(d, m) >= 1
    BY <1>1 DEF Fits
  <1>12. Factor(d, Len(d) + 1) = Factor(d, m)
    BY <1>1
  <1> QED  BY <1>1, <1>2, <1>3, <1>4, <1>5, <1>6, <1>7, <1>8, <1>9, <1>10, <1>11, <1>12 DEF Read

\* What the scanner knows before the token, in one place.
LEMMA WhatIsKnown ==
    ASSUME NEW a, NEW d, NEW t, NEW e, NEW m, Reads(a, d, t, e, m)
    PROVE  KnownAt(a, d, m)
  <1>1. /\ d \in Seq(PlainTokens) /\ t \in PlainTokens /\ m = Len(d) + 1 /\ Nesting(d, m) \in Nat
    <2>1. Read(a, d, t, e, m)
      BY WhatIsRead
    <2> QED  BY <2>1 DEF Reads, Read
  <1>2. /\ a \in Scanner /\ a.depth = Nesting(d, m) /\ Len(a.mult) = Nesting(d, m) + 1
        /\ \A k \in 1..(Nesting(d, m) + 1) : a.mult[k] = Wrap(PagesProduct(d, Shallow(d, k)))
        /\ a.pending = Hint(d, m) /\ a.cost = Wrap(CostOf(d))
        /\ a.fields = Cardinality(Positions(d)) /\ a.deepest = DepthOf(d)
    <2>1. Knows(a, d)
      BY DEF Reads
    <2> QED  BY <1>1, <2>1 DEF Knows
  <1>3. Last(a.mult) = Wrap(Factor(d, m))
    <2>1. Last(a.mult) = a.mult[Nesting(d, m) + 1]
      BY <1>2, ScannerFields, LastAndFront DEF Stacks
    <2>2. Nesting(d, m) + 1 \in 1..(Nesting(d, m) + 1)
      BY <1>1
    <2>3. Shallow(d, Nesting(d, m) + 1) = Enclosing(d, m)
      BY <1>1, ShallowAll
    <2>4. Factor(d, m) = PagesProduct(d, Enclosing(d, m))
      <3>1. m \in 1..(Len(d) + 1)
        BY <1>1
      <3> QED  BY <1>1, <3>1, FactorAt
    <2> QED  BY <1>2, <2>1, <2>2, <2>3, <2>4
  <1> QED  BY <1>2, <1>3 DEF KnownAt

\* A token that is neither a brace nor a field.
LEMMA PlainToken ==
    ASSUME NEW a, NEW d, NEW t, NEW e, NEW m, Reads(a, d, t, e, m),
           t \notin {Open, Close}, ~IsField(t),
           NEW b \in Scanner, b.depth = a.depth, b.deepest = a.deepest, b.mult = a.mult,
           b.cost = a.cost, b.fields = a.fields, b.pending = Hint(e, m + 1)
    PROVE  Knows(b, e)
  <1>1. Read(a, d, t, e, m) /\ KnownAt(a, d, m)
    BY WhatIsRead, WhatIsKnown
  <1>2. Nesting(e, m + 1) = Nesting(d, m) /\ Nesting(d, m) \in Nat
    BY <1>1 DEF Read, NestingGoesOn
  <1>3. DepthOf(e) = DepthOf(d)
    BY <1>1, <1>2 DEF Read, DepthGoesOn
  <1>4. Positions(e) = Positions(d) /\ CostOf(e) = CostOf(d) /\ Len(e) + 1 = m + 1
    BY <1>1 DEF Read
  <1>5. \A k \in 1..(Nesting(d, m) + 1) :
           PagesProduct(e, Shallow(e, k)) = PagesProduct(d, Shallow(d, k))
    BY <1>1, <1>2 DEF Read
  <1>6. /\ Len(a.mult) = Nesting(d, m) + 1 /\ a.depth = Nesting(d, m)
        /\ \A k \in 1..(Nesting(d, m) + 1) : a.mult[k] = Wrap(PagesProduct(d, Shallow(d, k)))
        /\ a.cost = Wrap(CostOf(d)) /\ a.fields = Cardinality(Positions(d)) /\ a.deepest = DepthOf(d)
    BY <1>1 DEF KnownAt
  <1>7. \A k \in 1..(Nesting(d, m) + 1) : b.mult[k] = Wrap(PagesProduct(e, Shallow(e, k)))
    BY <1>5, <1>6
  <1> QED  BY <1>2, <1>3, <1>4, <1>6, <1>7 DEF Knows

\* A field counts what encloses it.
LEMMA FieldToken ==
    ASSUME NEW a, NEW d, NEW t, NEW e, NEW m, Reads(a, d, t, e, m), IsField(t)
    PROVE  Knows(Counted(a, t.of), e)
  <1> DEFINE b == Counted(a, t.of)
  <1>1. Read(a, d, t, e, m) /\ KnownAt(a, d, m)
    BY WhatIsRead, WhatIsKnown
  <1>0. t \notin {Open, Close} \cup Pages \cup {Text}
    <2>1. t.is = "name"
      BY DEF IsField
    <2>2. Open.is = "{" /\ Close.is = "}" /\ Text.is = "text"
      BY DEF Open, Close, Text
    <2>3. t \in Pages => t.is = "args"
      BY <1>1, TokenKinds DEF Read
    <2> HIDE DEF Open, Close, Text
    <2> QED  BY <2>1, <2>2, <2>3
  <1>2. Nesting(e, m + 1) = Nesting(d, m) /\ Nesting(d, m) \in Nat /\ Nesting(d, m) >= 1
    BY <1>0, <1>1 DEF Read, NestingGoesOn
  <1>3. DepthOf(e) = DepthOf(d)
    BY <1>1, <1>2 DEF Read, DepthGoesOn
  <1>4. /\ Cardinality(Positions(e)) = Cardinality(Positions(d)) + 1
        /\ CostOf(e) = Factor(d, m) + CostOf(d) /\ CostOf(d) \in Int /\ Factor(d, m) \in Int
        /\ Len(e) + 1 = m + 1 /\ Hint(e, m + 1) = 1 /\ Hint(d, m) = 1
    BY <1>0, <1>1 DEF Read
  <1>5. \A k \in 1..(Nesting(d, m) + 1) :
           PagesProduct(e, Shallow(e, k)) = PagesProduct(d, Shallow(d, k))
    BY <1>0, <1>1, <1>2 DEF Read
  <1>6. /\ a \in Scanner /\ Len(a.mult) = Nesting(d, m) + 1 /\ a.depth = Nesting(d, m)
        /\ \A k \in 1..(Nesting(d, m) + 1) : a.mult[k] = Wrap(PagesProduct(d, Shallow(d, k)))
        /\ a.cost = Wrap(CostOf(d)) /\ a.fields = Cardinality(Positions(d)) /\ a.deepest = DepthOf(d)
        /\ a.pending = Hint(d, m) /\ Last(a.mult) = Wrap(Factor(d, m))
    BY <1>1 DEF KnownAt
  <1>7. /\ b \in Scanner /\ b.depth = a.depth /\ b.deepest = a.deepest /\ b.mult = a.mult
        /\ b.pending = a.pending /\ b.fields = a.fields + 1
        /\ b.cost = Wrap(a.cost + Last(a.mult))
    BY <1>2, <1>6, CountedFields
  <1> HIDE DEF b
  <1>8. b.cost = Wrap(CostOf(e))
    <2>1. Wrap(Wrap(CostOf(d)) + Wrap(Factor(d, m))) = Wrap(CostOf(d) + Factor(d, m))
      BY <1>4, WrapSum
    <2>2. CostOf(d) + Factor(d, m) = Factor(d, m) + CostOf(d)
      BY <1>4
    <2> QED  BY <1>4, <1>6, <1>7, <2>1, <2>2
  <1>9. \A k \in 1..(Nesting(d, m) + 1) : b.mult[k] = Wrap(PagesProduct(e, Shallow(e, k)))
    BY <1>5, <1>6, <1>7
  <1>10. Knows(b, e)
    BY <1>2, <1>3, <1>4, <1>6, <1>7, <1>8, <1>9 DEF Knows
  <1> QED  BY <1>10 DEF b

\* A selection set opens: its pages multiply what encloses it.
LEMMA OpenToken ==
    ASSUME NEW a, NEW d, NEW t, NEW e, NEW m, Reads(a, d, t, e, m), t = Open
    PROVE  Knows(Opened(a), e)
  <1> DEFINE b == Opened(a)
             D == Nesting(d, m)
  <1>1. Read(a, d, t, e, m) /\ KnownAt(a, d, m)
    BY WhatIsRead, WhatIsKnown
  <1>0. t \notin Pages \cup {Text} /\ t # Close /\ ~IsField(t)
    <2>1. t.is = "{" /\ Close.is = "}" /\ Text.is = "text"
      BY DEF Open, Close, Text
    <2>2. t \in Pages => t.is = "args"
      BY <1>1, TokenKinds DEF Read
    <2> HIDE DEF Open, Close, Text
    <2> QED  BY <2>1, <2>2 DEF IsField
  <1>2. Nesting(e, m + 1) = D + 1 /\ D \in Nat
    BY <1>1 DEF Read, NestingGoesOn
  <1>3. DepthOf(e) = IF DepthOf(d) >= D + 1 THEN DepthOf(d) ELSE D + 1
    BY <1>1, <1>2 DEF Read, DepthGoesOn
  <1>4. /\ Positions(e) = Positions(d) /\ CostOf(e) = CostOf(d)
        /\ Len(e) = m /\ Len(e) + 1 = m + 1 /\ Hint(e, m + 1) = 1 /\ e \in Seq(PlainTokens) /\ m \in Nat \ {0}
    BY <1>0, <1>1 DEF Read
  <1>5. \A k \in 1..(D + 1) : PagesProduct(e, Shallow(e, k)) = PagesProduct(d, Shallow(d, k))
    BY <1>0, <1>1, <1>2 DEF Read
  <1>6. /\ a \in Scanner /\ Len(a.mult) = D + 1 /\ a.depth = D
        /\ \A k \in 1..(D + 1) : a.mult[k] = Wrap(PagesProduct(d, Shallow(d, k)))
        /\ a.cost = Wrap(CostOf(d)) /\ a.fields = Cardinality(Positions(d)) /\ a.deepest = DepthOf(d)
        /\ a.pending = Hint(d, m) /\ Last(a.mult) = Wrap(Factor(d, m))
    BY <1>1 DEF KnownAt
  <1>7. /\ b \in Scanner /\ b.depth = D + 1
        /\ b.deepest = (IF DepthOf(d) >= D + 1 THEN DepthOf(d) ELSE D + 1)
        /\ b.mult = Append(a.mult, Wrap(Last(a.mult) * a.pending))
        /\ b.pending = 1 /\ b.cost = a.cost /\ b.fields = a.fields
    BY <1>6, OpenedFields
  <1>8. Wrap(Last(a.mult) * a.pending) = Wrap(PagesProduct(e, Shallow(e, D + 2)))
    <2>1. d \in Seq(PlainTokens) /\ t \in PlainTokens /\ e = Append(d, t) /\ m = Len(d) + 1
      BY <1>1 DEF Reads, Read
    <2>2. m \in 1..(Len(d) + 1) /\ m - 1 < m /\ m \in Int /\ 1..(m - 1) \subseteq 1..(Len(d) + 1)
          /\ m \notin 1..(m - 1)
      BY <1>4, <2>1
    <2>3. Shallow(e, D + 2) = Enclosing(e, m + 1)
      <3>1. Shallow(e, Nesting(e, Len(e) + 1) + 1) = Enclosing(e, Len(e) + 1)
        BY <1>4, ShallowAll
      <3>2. Nesting(e, Len(e) + 1) + 1 = D + 2
        BY <1>2, <1>4
      <3> QED  BY <1>4, <3>1, <3>2
    <2>4. Enclosing(e, m + 1) = Enclosing(d, m) \cup {m}
      <3>1. EnclosingGoesOn(d, t, e, m)
        BY <2>1, EnclosingAppend
      <3> QED  BY <3>1 DEF EnclosingGoesOn
    <2>5. Enclosing(d, m) \subseteq 1..(m - 1) /\ IsFiniteSet(Enclosing(d, m))
      BY <2>2, EnclosingBefore
    <2>6. PagesProduct(d, Enclosing(d, m) \cup {m}) = Hint(d, m) * PagesProduct(d, Enclosing(d, m))
      BY <2>1, <2>2, <2>5, ProductGrows
    <2>7. Factor(d, m) = PagesProduct(d, Enclosing(d, m)) /\ Factor(d, m) \in Int /\ Hint(d, m) \in Int
      BY <2>1, <2>2, FactorAt, HintTyped
    <2>8. Enclosing(d, m) \cup {m} \subseteq 1..(Len(d) + 1)
      BY <2>2, <2>5
    <2>9. PagesProduct(e, Enclosing(d, m) \cup {m}) = PagesProduct(d, Enclosing(d, m) \cup {m})
      <3>1. \A S \in SUBSET (1..(Len(d) + 1)) : PagesProduct(e, S) = PagesProduct(d, S)
        BY <2>1, ProductStays
      <3> QED  BY <2>8, <3>1
    <2>10. Wrap(Wrap(Factor(d, m)) * Hint(d, m)) = Wrap(Factor(d, m) * Hint(d, m))
      BY <2>7, WrapProduct
    <2>11. Factor(d, m) * Hint(d, m) = Hint(d, m) * Factor(d, m)
      BY <2>7
    <2> QED  BY <1>6, <2>3, <2>4, <2>6, <2>7, <2>9, <2>10, <2>11
  <1> HIDE DEF b, D
  <1>9. a.mult \in Seq(Int)
    BY <1>6, ScannerFields DEF Stacks
  <1>10. Len(b.mult) = D + 2
    BY <1>2, <1>6, <1>7, <1>9
  <1>11. \A k \in 1..(D + 2) : b.mult[k] = Wrap(PagesProduct(e, Shallow(e, k)))
    <2> SUFFICES ASSUME NEW k \in 1..(D + 2)
                 PROVE  b.mult[k] = Wrap(PagesProduct(e, Shallow(e, k)))
      OBVIOUS
    <2>1. CASE k \in 1..(D + 1)
      <3>1. b.mult[k] = a.mult[k]
        BY <1>2, <1>6, <1>7, <1>9, <2>1
      <3> QED  BY <1>5, <1>6, <2>1, <3>1
    <2>2. CASE k = D + 2
      <3>1. b.mult[D + 2] = Wrap(Last(a.mult) * a.pending)
        BY <1>2, <1>6, <1>7, <1>9
      <3> QED  BY <1>8, <2>2, <3>1 DEF D
    <2> QED  BY <1>2, <2>1, <2>2
  <1>12. (D + 1) + 1 = D + 2
    BY <1>2
  <1>13. Knows(b, e)
    BY <1>2, <1>3, <1>4, <1>6, <1>7, <1>10, <1>11, <1>12 DEF Knows
  <1> QED  BY <1>13 DEF b

\* A selection set closes, and what it multiplied is forgotten.
LEMMA CloseToken ==
    ASSUME NEW a, NEW d, NEW t, NEW e, NEW m, Reads(a, d, t, e, m), t = Close
    PROVE  Knows(Closed(a), e)
  <1> DEFINE b == Closed(a)
             D == Nesting(d, m)
  <1>1. Read(a, d, t, e, m) /\ KnownAt(a, d, m)
    BY WhatIsRead, WhatIsKnown
  <1>0. t \notin Pages \cup {Text} /\ t # Open /\ ~IsField(t)
    <2>1. t.is = "}" /\ Open.is = "{" /\ Text.is = "text"
      BY DEF Open, Close, Text
    <2>2. t \in Pages => t.is = "args"
      BY <1>1, TokenKinds DEF Read
    <2> HIDE DEF Open, Close, Text
    <2> QED  BY <2>1, <2>2 DEF IsField
  <1>2. Nesting(e, m + 1) = D - 1 /\ D \in Nat /\ D >= 1
    BY <1>1 DEF Read, NestingGoesOn
  <1>3. DepthOf(e) = DepthOf(d)
    BY <1>1, <1>2 DEF Read, DepthGoesOn
  <1>4. /\ Positions(e) = Positions(d) /\ CostOf(e) = CostOf(d)
        /\ Len(e) + 1 = m + 1 /\ Hint(e, m + 1) = 1
    BY <1>0, <1>1 DEF Read
  <1>5. \A k \in 1..D : PagesProduct(e, Shallow(e, k)) = PagesProduct(d, Shallow(d, k))
    <2> SUFFICES ASSUME NEW k \in 1..D
                 PROVE  PagesProduct(e, Shallow(e, k)) = PagesProduct(d, Shallow(d, k))
      OBVIOUS
    <2>1. k \in Int /\ k <= Nesting(d, m) + 1 /\ k <= Nesting(d, m)
      BY <1>2
    <2> QED  BY <1>1, <2>1 DEF Read
  <1>6. /\ a \in Scanner /\ Len(a.mult) = D + 1 /\ a.depth = D
        /\ \A k \in 1..(D + 1) : a.mult[k] = Wrap(PagesProduct(d, Shallow(d, k)))
        /\ a.cost = Wrap(CostOf(d)) /\ a.fields = Cardinality(Positions(d)) /\ a.deepest = DepthOf(d)
    BY <1>1 DEF KnownAt
  <1>7. Len(a.mult) > 1
    BY <1>2, <1>6
  <1>8. /\ b \in Scanner /\ b.depth = D - 1 /\ b.deepest = DepthOf(d)
        /\ b.mult = Front(a.mult) /\ b.pending = 1 /\ b.cost = a.cost /\ b.fields = a.fields
    BY <1>6, <1>7, ClosedFields
  <1>9. Len(b.mult) = D /\ \A k \in 1..D : b.mult[k] = a.mult[k]
    <2>1. a.mult \in Seq(Int) \ {<<>>}
      BY <1>6, ScannerFields DEF Stacks
    <2>2. /\ Len(Front(a.mult)) = Len(a.mult) - 1
          /\ \A k \in 1..(Len(a.mult) - 1) : Front(a.mult)[k] = a.mult[k]
      BY <1>7, <2>1, LastAndFront
    <2>3. Len(a.mult) - 1 = D
      BY <1>2, <1>6
    <2> QED  BY <1>8, <2>2, <2>3
  <1> HIDE DEF b, D
  <1>10. \A k \in 1..D : b.mult[k] = Wrap(PagesProduct(e, Shallow(e, k)))
    <2>1. \A k \in 1..D : k \in 1..(D + 1)
      BY <1>2
    <2> QED  BY <1>5, <1>6, <1>9, <2>1
  <1>11. (D - 1) + 1 = D
    BY <1>2
  <1>12. Knows(b, e)
    BY <1>2, <1>3, <1>4, <1>6, <1>8, <1>9, <1>10, <1>11 DEF Knows
  <1> QED  BY <1>12 DEF b

\* A turn of the scanner keeps it right.
LEMMA KnowsAppend ==
    ASSUME NEW a, NEW d, NEW t, NEW e, NEW m, Reads(a, d, t, e, m)
    PROVE  Knows(Scan(a, t), e)
  <1>1. Read(a, d, t, e, m) /\ KnownAt(a, d, m)
    BY WhatIsRead, WhatIsKnown
  <1>2. t \in PlainTokens /\ a \in Scanner
    BY <1>1 DEF Read, KnownAt
  <1>3. /\ Open.is = "{" /\ Close.is = "}" /\ Text.is = "text"
        /\ t \in Pages <=> t.is = "args"
    BY <1>2, TokenKinds DEF Open, Close, Text
  <1> HIDE DEF Open, Close, Text
  <1>4. CASE t = Open
    BY <1>2, <1>4, Turn, OpenToken
  <1>5. CASE t = Close
    BY <1>2, <1>5, Turn, CloseToken
  <1>6. CASE IsField(t)
    BY <1>2, <1>6, Turn, FieldToken
  <1>7. CASE t \in Pages
    <2>1. t \notin {Open, Close} /\ ~IsField(t)
      BY <1>3, <1>7 DEF IsField
    <2>2. Hint(e, m + 1) = PageMultiplier(t) /\ PageMultiplier(t) \in Int
      BY <1>1, <1>7, HintRange, PagesAssumption DEF Read
    <2> DEFINE b == [a EXCEPT !.pending = PageMultiplier(t)]
    <2>3. Scan(a, t) = b
      BY <1>2, <1>7, Turn
    <2>4. b \in Scanner
      BY <1>2, <2>3, ScanTyped
    <2>5. /\ b.depth = a.depth /\ b.deepest = a.deepest /\ b.mult = a.mult /\ b.cost = a.cost
          /\ b.fields = a.fields /\ b.pending = PageMultiplier(t)
      BY <1>2 DEF Scanner
    <2> HIDE DEF b
    <2> QED  BY <2>1, <2>2, <2>3, <2>4, <2>5, PlainToken
  <1>8. CASE t \notin {Open, Close} \cup Pages /\ ~IsField(t)
    <2>1. Scan(a, t) = a
      BY <1>2, <1>8, Turn
    <2>2. a.pending = Hint(e, m + 1)
      <3>1. a.pending = Hint(d, m)
        BY <1>1 DEF KnownAt
      <3>2. t = Text => Hint(e, m + 1) = Hint(d, m)
        BY <1>1 DEF Read
      <3>3. t # Text => Hint(e, m + 1) = 1 /\ Hint(d, m) = 1
        BY <1>1, <1>8 DEF Read
      <3> QED  BY <3>1, <3>2, <3>3
    <2> QED  BY <1>2, <1>8, <2>1, <2>2, PlainToken
  <1> QED  BY <1>4, <1>5, <1>6, <1>7, <1>8

-----------------------------------------------------------------------------
\* A plain document is balanced and the scanner knows it.
Scanned ==
    /\ doc \in Seq(Tokens)
    /\ Plain(doc) => Balanced(doc) /\ Knows(Analyze(doc), doc)

LEMMA ScannedInit == Init => Scanned
  <1>1. <<>> \in Seq(Tokens)
    OBVIOUS
  <1> QED  BY <1>1, BalancedEmpty, KnowsEmpty, AnalyzeEmpty DEF Init, Scanned

\* No step leaves the scanner wrong: a document is written token by token.
LEMMA ScannedNext == Scanned /\ [Next]_vars => Scanned'
  <1> SUFFICES ASSUME Scanned, [Next]_vars PROVE Scanned'
    OBVIOUS
  <1>1. CASE Write
    <2>1. PICK t \in Continuations(doc) : doc' = Append(doc, t)
      BY <1>1 DEF Write
    <2>2. doc \in Seq(Tokens) /\ t \in Tokens
      BY GrammarInTokens DEF Scanned
    <2>3. doc' \in Seq(Tokens)
      BY <2>1, <2>2
    <2>4. ASSUME Plain(doc') PROVE Balanced(doc') /\ Knows(Analyze(doc'), doc')
      <3>1. Plain(doc) /\ t \in PlainTokens
        BY <2>1, <2>2, <2>4, PlainPrefix
      <3>2. Balanced(doc) /\ Knows(Analyze(doc), doc)
        BY <3>1 DEF Scanned
      <3>3. doc \in Seq(PlainTokens) /\ Nesting(doc, Len(doc) + 1) >= 0
        BY <3>2 DEF Balanced
      <3>4. t \in PlainNext(doc)
        BY <3>1, <3>3, NextOfPlain
      <3>5. Balanced(Append(doc, t)) /\ Fits(doc, t)
        BY <3>2, <3>4, BalancedAppend, NextFits
      <3>6. Reads(Analyze(doc), doc, t, Append(doc, t), Len(doc) + 1)
        BY <3>2, <3>3, <3>5 DEF Reads
      <3>7. Knows(Scan(Analyze(doc), t), Append(doc, t))
        BY <3>6, KnowsAppend
      <3>8. Analyze(Append(doc, t)) = Scan(Analyze(doc), t)
        BY <3>1, <3>3, AnalyzeAppend
      <3> QED  BY <2>1, <3>5, <3>7, <3>8
    <2> QED  BY <2>3, <2>4 DEF Scanned
  <1>2. CASE Admit
    <2>1. doc' = <<>>
      BY <1>2 DEF Admit
    <2>2. <<>> \in Seq(Tokens)
      OBVIOUS
    <2> QED  BY <2>1, <2>2, BalancedEmpty, KnowsEmpty, AnalyzeEmpty DEF Scanned
  <1>3. CASE UNCHANGED doc
    BY <1>3 DEF Scanned
  <1>4. CASE UNCHANGED vars
    BY <1>3, <1>4 DEF vars
  <1>5. ASSUME NEW q \in Requests,
               Begin(q) \/ Decorate(q) \/ Users(q) \/ User(q) \/ Other(q)
                 \/ UpdateTenant(q) \/ UserTenant(q) \/ Finish(q)
        PROVE  UNCHANGED doc
    BY <1>5 DEF Begin, Decorate, Users, User, Other, UpdateTenant, UserTenant, Finish
  <1>6. ASSUME NEW t \in Tenants, Operate(t) PROVE UNCHANGED doc
    BY <1>6 DEF Operate
  <1> QED  BY <1>1, <1>2, <1>3, <1>4, <1>5, <1>6 DEF Next

\* Analyze in graph/complexity.go is exact on plain documents: whatever the
\* clients have written so far, unless it has a directive, a fragment or a
\* comment the scanner misreads, the cost it returns is the sum over the fields
\* of the product of their enclosing page sizes, as an int that wraps, and depth
\* and number of fields are the document's.
THEOREM AnalysisIsRight == Spec => []AnalysisIsExact
  <1>1. Scanned => AnalysisIsExact
    BY DEF Scanned, Knows, AnalysisIsExact
  <1> QED  BY <1>1, ScannedInit, ScannedNext, PTL DEF Spec

-----------------------------------------------------------------------------
(* Bounds on sums and products, by induction over the set.                 *)

Part(w, s) == [x \in s |-> w[x]]

\* A sum or product without one of its elements.
LEMMA SumSplit ==
    ASSUME NEW S, IsFiniteSet(S), NEW w \in [S -> Int], NEW s \in SUBSET S, NEW z \in s
    PROVE  /\ SumOver(s \ {z}, Part(w, s \ {z})) \in Int
           /\ SumOver(s, Part(w, s)) = w[z] + SumOver(s \ {z}, Part(w, s \ {z}))
  <1> DEFINE r == s \ {z}
             v == Part(w, r)
             u == Part(w, s)
  <1>1. IsFiniteSet(r)
    <2>1. r \in SUBSET S
      OBVIOUS
    <2> QED  BY <2>1, FS_Subset
  <1>2. v \in [r -> Int] /\ u \in [r \cup {z} -> Int] /\ (\A y \in r : v[y] = u[y]) /\ u[z] = w[z]
    BY DEF Part
  <1>3. z \notin r /\ s = r \cup {z}
    OBVIOUS
  <1> HIDE DEF r, v, u
  <1>4. SumOver(r, v) \in Int /\ SumOver(r \cup {z}, u) = u[z] + SumOver(r, v)
    <2>1. Widens(r, z, v, u)
      BY <1>1, <1>2, <1>3 DEF Widens
    <2> QED  BY <2>1, SumAdd
  <1> QED  BY <1>2, <1>3, <1>4 DEF r, v, u

LEMMA ProductSplit ==
    ASSUME NEW S, IsFiniteSet(S), NEW w \in [S -> Int], NEW s \in SUBSET S, NEW z \in s
    PROVE  /\ ProductOver(s \ {z}, Part(w, s \ {z})) \in Int
           /\ ProductOver(s, Part(w, s)) = w[z] * ProductOver(s \ {z}, Part(w, s \ {z}))
  <1> DEFINE r == s \ {z}
             v == Part(w, r)
             u == Part(w, s)
  <1>1. IsFiniteSet(r)
    <2>1. r \in SUBSET S
      OBVIOUS
    <2> QED  BY <2>1, FS_Subset
  <1>2. v \in [r -> Int] /\ u \in [r \cup {z} -> Int] /\ (\A y \in r : v[y] = u[y]) /\ u[z] = w[z]
    BY DEF Part
  <1>3. z \notin r /\ s = r \cup {z}
    OBVIOUS
  <1> HIDE DEF r, v, u
  <1>4. ProductOver(r, v) \in Int /\ ProductOver(r \cup {z}, u) = u[z] * ProductOver(r, v)
    <2>1. Widens(r, z, v, u)
      BY <1>1, <1>2, <1>3 DEF Widens
    <2> QED  BY <2>1, ProductAdd
  <1> QED  BY <1>2, <1>3, <1>4 DEF r, v, u

LEMMA EmptyParts ==
    ASSUME NEW w PROVE SumOver({}, Part(w, {})) = 0 /\ ProductOver({}, Part(w, {})) = 1
  <1>1. Part(w, {}) \in [{} -> Int]
    BY DEF Part
  <1> QED  BY <1>1, EmptyFolds

LEMMA WholePart == ASSUME NEW S, NEW V, NEW w \in [S -> V] PROVE Part(w, S) = w
  BY DEF Part

\* Greater weights, a greater sum.
LEMMA SumMonotone ==
    ASSUME NEW S, IsFiniteSet(S), NEW w \in [S -> Int], NEW u \in [S -> Int],
           \A x \in S : w[x] <= u[x]
    PROVE  SumOver(S, w) \in Int /\ SumOver(S, u) \in Int /\ SumOver(S, w) <= SumOver(S, u)
  <1> DEFINE Good(s) == /\ SumOver(s, Part(w, s)) \in Int /\ SumOver(s, Part(u, s)) \in Int
                        /\ SumOver(s, Part(w, s)) <= SumOver(s, Part(u, s))
             B == {s \in SUBSET S : Good(s)}
  <1>1. ASSUME NEW s \in SUBSET S, \A r \in SUBSET s : r # s => r \in B PROVE s \in B
    <2>1. CASE s = {}
      <3>1. Good({})
        BY EmptyParts
      <3> HIDE DEF Good
      <3> QED  BY <2>1, <3>1
    <2>2. CASE s # {}
      <3>1. PICK z \in s : TRUE
        BY <2>2
      <3>2. Good(s \ {z})
        BY <1>1, <3>1
      <3>3. /\ SumOver(s, Part(w, s)) = w[z] + SumOver(s \ {z}, Part(w, s \ {z}))
            /\ SumOver(s, Part(u, s)) = u[z] + SumOver(s \ {z}, Part(u, s \ {z}))
        BY SumSplit
      <3>4. w[z] \in Int /\ u[z] \in Int /\ w[z] <= u[z]
        OBVIOUS
      <3>5. Good(s)
        BY <3>2, <3>3, <3>4
      <3> HIDE DEF Good
      <3> QED  BY <3>5
    <2> QED  BY <2>1, <2>2
  <1>2. \A s \in SUBSET S : s \in B
    <2>1. B \in SUBSET SUBSET S
      OBVIOUS
    <2> HIDE DEF B
    <2> QED  BY <1>1, <2>1, SubsetInduction
  <1>3. Good(S)
    BY <1>2
  <1> QED  BY <1>3, WholePart

\* A sum is at most its largest weight for each element.
LEMMA SumBound ==
    ASSUME NEW S, IsFiniteSet(S), NEW w \in [S -> Int], NEW c \in Int,
           \A x \in S : 0 <= w[x] /\ w[x] <= c
    PROVE  SumOver(S, w) \in Int /\ 0 <= SumOver(S, w) /\ SumOver(S, w) <= Cardinality(S) * c
  <1> DEFINE Good(s) == /\ SumOver(s, Part(w, s)) \in Int /\ 0 <= SumOver(s, Part(w, s))
                        /\ SumOver(s, Part(w, s)) <= Cardinality(s) * c
             B == {s \in SUBSET S : Good(s)}
  <1>1. ASSUME NEW s \in SUBSET S, \A r \in SUBSET s : r # s => r \in B PROVE s \in B
    <2>1. CASE s = {}
      <3>1. Good({})
        <4>1. Cardinality({}) = 0 /\ 0 * c = 0
          BY FS_EmptySet
        <4> QED  BY <4>1, EmptyParts
      <3> HIDE DEF Good
      <3> QED  BY <2>1, <3>1
    <2>2. CASE s # {}
      <3>1. PICK z \in s : TRUE
        BY <2>2
      <3>2. Good(s \ {z})
        BY <1>1, <3>1
      <3>3. SumOver(s, Part(w, s)) = w[z] + SumOver(s \ {z}, Part(w, s \ {z}))
        BY SumSplit
      <3>4. w[z] \in Int /\ 0 <= w[z] /\ w[z] <= c
        OBVIOUS
      <3>5. Cardinality(s) = Cardinality(s \ {z}) + 1 /\ Cardinality(s \ {z}) \in Nat
        <4>1. IsFiniteSet(s)
          BY FS_Subset
        <4>2. IsFiniteSet(s \ {z}) /\ z \notin s \ {z} /\ s = (s \ {z}) \cup {z}
          BY <4>1, FS_RemoveElement
        <4>3. Cardinality((s \ {z}) \cup {z}) = Cardinality(s \ {z}) + 1
          BY <4>2, FS_AddElement
        <4> QED  BY <4>2, <4>3, FS_CardinalityType
      <3>6. (Cardinality(s \ {z}) + 1) * c = Cardinality(s \ {z}) * c + c
            /\ Cardinality(s \ {z}) * c \in Int
        <4>1. PICK n \in Nat : n = Cardinality(s \ {z})
          BY <3>5
        <4>2. (n + 1) * c = n * c + c /\ n * c \in Int
          OBVIOUS
        <4> QED  BY <4>1, <4>2
      <3>7. Good(s)
        BY <3>2, <3>3, <3>4, <3>5, <3>6
      <3> HIDE DEF Good
      <3> QED  BY <3>7
    <2> QED  BY <2>1, <2>2
  <1>2. \A s \in SUBSET S : s \in B
    <2>1. B \in SUBSET SUBSET S
      OBVIOUS
    <2> HIDE DEF B
    <2> QED  BY <1>1, <2>1, SubsetInduction
  <1>3. Good(S)
    BY <1>2
  <1> QED  BY <1>3, WholePart

\* Products of positive integers grow with their factors.
LEMMA TimesMonotone ==
    ASSUME NEW a \in Int, NEW b \in Int, NEW x \in Int, NEW y \in Int,
           1 <= a, a <= b, 1 <= x, x <= y
    PROVE  1 <= a * x /\ a * x <= b * y
  <1>1. 1 <= a * x
    OBVIOUS
  <1>2. a * x <= b * x
    OBVIOUS
  <1>3. b * x <= b * y
    OBVIOUS
  <1>4. a * x \in Int /\ b * x \in Int /\ b * y \in Int
    OBVIOUS
  <1> QED  BY <1>1, <1>2, <1>3, <1>4

\* Greater weights, a greater product.
LEMMA ProductMonotone ==
    ASSUME NEW S, IsFiniteSet(S), NEW w \in [S -> Int], NEW u \in [S -> Int],
           \A x \in S : 1 <= w[x] /\ w[x] <= u[x]
    PROVE  /\ ProductOver(S, w) \in Int /\ ProductOver(S, u) \in Int
           /\ 1 <= ProductOver(S, w) /\ ProductOver(S, w) <= ProductOver(S, u)
  <1> DEFINE Good(s) == /\ ProductOver(s, Part(w, s)) \in Int /\ ProductOver(s, Part(u, s)) \in Int
                        /\ 1 <= ProductOver(s, Part(w, s))
                        /\ ProductOver(s, Part(w, s)) <= ProductOver(s, Part(u, s))
             B == {s \in SUBSET S : Good(s)}
  <1>1. ASSUME NEW s \in SUBSET S, \A r \in SUBSET s : r # s => r \in B PROVE s \in B
    <2>1. CASE s = {}
      <3>1. Good({})
        BY EmptyParts
      <3> HIDE DEF Good
      <3> QED  BY <2>1, <3>1
    <2>2. CASE s # {}
      <3>1. PICK z \in s : TRUE
        BY <2>2
      <3>2. Good(s \ {z})
        BY <1>1, <3>1
      <3>3. /\ ProductOver(s, Part(w, s)) = w[z] * ProductOver(s \ {z}, Part(w, s \ {z}))
            /\ ProductOver(s, Part(u, s)) = u[z] * ProductOver(s \ {z}, Part(u, s \ {z}))
        BY ProductSplit
      <3>4. w[z] \in Int /\ u[z] \in Int /\ 1 <= w[z] /\ w[z] <= u[z]
        OBVIOUS
      <3>5. Good(s)
        BY <3>2, <3>3, <3>4, TimesMonotone
      <3> HIDE DEF Good
      <3> QED  BY <3>5
    <2> QED  BY <2>1, <2>2
  <1>2. \A s \in SUBSET S : s \in B
    <2>1. B \in SUBSET SUBSET S
      OBVIOUS
    <2> HIDE DEF B
    <2> QED  BY <1>1, <2>1, SubsetInduction
  <1>3. Good(S)
    BY <1>2
  <1> QED  BY <1>3, WholePart

\* At most one factor is not one.
LEMMA ProductOfOne ==
    ASSUME NEW S, IsFiniteSet(S), NEW w \in [S -> Int], NEW c \in Int, 1 <= c,
           \A x \in S : 1 <= w[x] /\ w[x] <= c,
           \A x \in S, y \in S : x # y => w[x] = 1 \/ w[y] = 1
    PROVE  ProductOver(S, w) <= c
  <1> DEFINE Good(s) == /\ ProductOver(s, Part(w, s)) \in Int
                        /\ ProductOver(s, Part(w, s)) <= c
                        /\ (\A x \in s : w[x] = 1) => ProductOver(s, Part(w, s)) = 1
             B == {s \in SUBSET S : Good(s)}
  <1>1. ASSUME NEW s \in SUBSET S, \A r \in SUBSET s : r # s => r \in B PROVE s \in B
    <2>1. CASE s = {}
      <3>1. Good({})
        BY EmptyParts
      <3> HIDE DEF Good
      <3> QED  BY <2>1, <3>1
    <2>2. CASE s # {}
      <3>1. PICK z \in s : TRUE
        BY <2>2
      <3>2. Good(s \ {z})
        BY <1>1, <3>1
      <3>3. ProductOver(s, Part(w, s)) = w[z] * ProductOver(s \ {z}, Part(w, s \ {z}))
        BY ProductSplit
      <3>4. w[z] \in Int /\ 1 <= w[z] /\ w[z] <= c
        OBVIOUS
      <3>5. CASE w[z] = 1
        <4>1. ProductOver(s, Part(w, s)) = ProductOver(s \ {z}, Part(w, s \ {z}))
          BY <3>2, <3>3, <3>5
        <4> QED  BY <3>2, <4>1
      <3>6. CASE w[z] # 1
        <4>1. \A x \in s \ {z} : w[x] = 1
          BY <3>6
        <4>2. ProductOver(s \ {z}, Part(w, s \ {z})) = 1
          BY <3>2, <4>1
        <4>3. ProductOver(s, Part(w, s)) = w[z]
          BY <3>3, <3>4, <4>2
        <4>4. Good(s)
          BY <3>4, <3>6, <4>3
        <4> HIDE DEF Good
        <4> QED  BY <4>4
      <3> QED  BY <3>5, <3>6
    <2> QED  BY <2>1, <2>2
  <1>2. \A s \in SUBSET S : s \in B
    <2>1. B \in SUBSET SUBSET S
      OBVIOUS
    <2> HIDE DEF B
    <2> QED  BY <1>1, <2>1, SubsetInduction
  <1>3. Good(S)
    BY <1>2
  <1> QED  BY <1>3, WholePart

-----------------------------------------------------------------------------
(* How a document is put together, token by token.                         *)

\* Arguments follow a field users, and a selection set follows the field it is
\* of, with nothing but text between them (and the field's arguments).
WrittenAt(d, j) ==
    /\ d[j] = Name("query") => \A x \in 1..(j - 1) : d[x] = Text
    /\ d[j] \in Pages => \E u \in 1..(j - 1) : /\ d[u] = Name("users")
                                               /\ \A x \in (u + 1)..(j - 1) : d[x] = Text
    /\ d[j] = Open => \/ \A x \in 1..(j - 1) : d[x] \in {Text, Name("query")}
                      \/ \E u \in 1..(j - 1) :
                           /\ IsField(d[u])
                           /\ \A x \in (u + 1)..(j - 1) : d[x].is \in {"text", "args"}
Written(d) == \A j \in 1..Len(d) : WrittenAt(d, j)

\* What is written stays,
LEMMA WrittenStays ==
    ASSUME NEW d, NEW e, NEW j \in Nat \ {0}, \A x \in 1..j : d[x] = e[x], WrittenAt(d, j)
    PROVE  WrittenAt(e, j)
  <1>1. d[j] = e[j] /\ \A x \in 1..(j - 1) : d[x] = e[x]
    OBVIOUS
  <1>2. \A u \in 1..(j - 1) : \A x \in (u + 1)..(j - 1) : d[x] = e[x]
    <2>1. \A u \in 1..(j - 1) : \A x \in (u + 1)..(j - 1) : x \in 1..(j - 1)
      OBVIOUS
    <2> QED  BY <1>1, <2>1
  <1>3. e[j] = Name("query") => \A x \in 1..(j - 1) : e[x] = Text
    BY <1>1 DEF WrittenAt
  <1>4. ASSUME e[j] \in Pages
        PROVE  \E u \in 1..(j - 1) : e[u] = Name("users") /\ \A x \in (u + 1)..(j - 1) : e[x] = Text
    <2>1. PICK u \in 1..(j - 1) : d[u] = Name("users") /\ \A x \in (u + 1)..(j - 1) : d[x] = Text
      BY <1>1, <1>4 DEF WrittenAt
    <2> QED  BY <1>1, <1>2, <2>1
  <1>5. ASSUME e[j] = Open
        PROVE  \/ \A x \in 1..(j - 1) : e[x] \in {Text, Name("query")}
               \/ \E u \in 1..(j - 1) :
                    IsField(e[u]) /\ \A x \in (u + 1)..(j - 1) : e[x].is \in {"text", "args"}
    <2>1. CASE \A x \in 1..(j - 1) : d[x] \in {Text, Name("query")}
      BY <1>1, <2>1
    <2>2. ASSUME NEW u \in 1..(j - 1), IsField(d[u]),
                 \A x \in (u + 1)..(j - 1) : d[x].is \in {"text", "args"}
          PROVE  IsField(e[u]) /\ \A x \in (u + 1)..(j - 1) : e[x].is \in {"text", "args"}
      BY <1>1, <1>2, <2>2
    <2> QED  BY <1>1, <1>5, <2>1, <2>2 DEF WrittenAt
  <1> QED  BY <1>3, <1>4, <1>5 DEF WrittenAt

\* Where the last token that is not text stands.
SaidAt(d, k) == d[k] = LastIn(d) /\ \A x \in (k + 1)..Len(d) : d[x] = Text

\* The last token that is not text stands somewhere, and text follows it.
LEMMA LastAt ==
    ASSUME NEW d \in Seq(PlainTokens)
    PROVE  \/ LastIn(d) = Text /\ \A x \in 1..Len(d) : d[x] = Text
           \/ LastIn(d) # Text /\ \E k \in 1..Len(d) : SaidAt(d, k)
  <1>1. DOMAIN d = 1..Len(d) /\ Len(d) \in Nat
    OBVIOUS
  <1>2. CASE SaidIn(d) = {}
    BY <1>1, <1>2 DEF LastIn, SaidIn
  <1>3. CASE SaidIn(d) # {}
    <2> DEFINE k == Max(SaidIn(d))
    <2>1. k \in SaidIn(d) /\ \A y \in SaidIn(d) : y <= k
      BY <1>3, LastTyped, MaxOf
    <2>2. LastIn(d) = d[k] /\ d[k] # Text /\ k \in 1..Len(d)
      BY <1>1, <1>3, <2>1 DEF LastIn, SaidIn
    <2> HIDE DEF k
    <2>3. ASSUME NEW x \in (k + 1)..Len(d) PROVE d[x] = Text
      <3>1. x \in 1..Len(d) /\ ~(x <= k)
        BY <1>1, <2>2
      <3>2. x \notin SaidIn(d)
        BY <2>1, <3>1
      <3> QED  BY <1>1, <3>1, <3>2 DEF SaidIn
    <2> QED  BY <2>2, <2>3 DEF SaidAt
  <1> QED  BY <1>2, <1>3

\* What the grammar asks for before arguments, selection sets and query.
LEMMA GrammarAsks ==
    ASSUME NEW d \in Seq(PlainTokens), NEW t \in PlainNext(d)
    PROVE  /\ t = Name("query") => LastIn(d) = Text
           /\ t \in Pages => LastIn(d) = Name("users")
           /\ t = Open => \/ LastIn(d) \in {Text, Name("query")} \cup Pages
                          \/ IsField(LastIn(d))
  <1> DEFINE last == LastIn(d)
             query == Name("query")
             users == Name("users")
             nodes == Name("nodes")
             tenant == Name("tenant")
  <1>1. last \in PlainTokens
    BY LastTyped
  <1>2. /\ Open.is = "{" /\ Close.is = "}" /\ Text.is = "text" /\ Alias.is = "alias"
        /\ \A f : Name(f).is = "name" /\ Name(f).of = f
        /\ \A p \in Pages : p.is = "args"
    <2>1. \A p \in Pages : p.is = "args"
      BY DEF Pages, Args
    <2> QED  BY <2>1 DEF Open, Close, Text, Alias, Name
  <1>3. ASSUME t \in FieldNames(d) \cup {Close, Alias, Text}
        PROVE  t # query /\ t \notin Pages /\ t # Open
    <2>1. t \in {Name(f) : f \in {"name", "users", "nodes", "tenant", "__schema"}} \cup {Close, Alias, Text}
      BY <1>3 DEF FieldNames, FieldTokens
    <2>2. query.is = "name" /\ query.of = "query"
      BY <1>2
    <2> HIDE DEF Open, Close, Text, Alias, query, Pages
    <2>3. ASSUME NEW f \in {"name", "users", "nodes", "tenant", "__schema"}, t = Name(f)
          PROVE  t.is = "name" /\ t.of # "query"
      BY <1>2, <2>3
    <2>4. CASE \E f \in {"name", "users", "nodes", "tenant", "__schema"} : t = Name(f)
      BY <1>2, <2>2, <2>3, <2>4
    <2>5. CASE t \in {Close, Alias, Text}
      BY <1>2, <2>2, <2>5
    <2> QED  BY <2>1, <2>4, <2>5
  <1>4. users \in FieldTokens /\ IsField(users) /\ IsField(Name("nodes")) /\ IsField(Name("tenant"))
    BY <1>2 DEF FieldTokens, IsField, Reserved
  <1>5. Open \notin Pages /\ query \notin Pages /\ query # Open
    BY <1>2
  <1>8. /\ users # query /\ users # nodes /\ users # tenant
        /\ users # Text /\ users # Alias /\ users # Open /\ users \notin Pages
        /\ \A y \in {query, nodes, tenant} \cup Pages : y # Text /\ y # Alias /\ y # Open
    <2>1. /\ users.is = "name" /\ users.of = "users"
          /\ query.is = "name" /\ query.of = "query"
          /\ nodes.is = "name" /\ nodes.of = "nodes"
          /\ tenant.is = "name" /\ tenant.of = "tenant"
      BY <1>2
    <2> HIDE DEF users, query, nodes, tenant
    <2>2. users # query /\ users # nodes /\ users # tenant
      BY <2>1
    <2>3. users # Text /\ users # Alias /\ users # Open /\ users \notin Pages
      BY <1>2, <2>1
    <2>4. \A y \in {query, nodes, tenant} : y # Text /\ y # Alias /\ y # Open
      BY <1>2, <2>1
    <2>5. \A y \in Pages : y # Text /\ y # Alias /\ y # Open
      BY <1>2
    <2> QED  BY <2>2, <2>3, <2>4, <2>5
  <1>9. PlainFollows(d) = CASE last = Text -> {Open} \cup (IF Extras(d) = 0 THEN {query} ELSE {})
                       [] last = Alias -> FieldNames(d) \ {Alias}
                       [] last = Open -> FieldNames(d)
                       [] last = users -> Pages \cup {Open}
                       [] last \in {query, nodes, tenant} \cup Pages -> {Open}
                       [] OTHER -> FieldNames(d) \cup {Close}
    BY DEF PlainFollows
  <1> HIDE DEF Open, Close, Text, Alias, last, query, users, nodes, tenant, Pages
  <1>6. CASE t \in PlainFollows(d)
    <2>1. CASE last = Text
      <3>1. PlainFollows(d) \subseteq {Open, query}
        BY <1>2, <2>1 DEF PlainFollows, last, query
      <3> QED  BY <1>5, <1>6, <2>1, <3>1 DEF last, query
    <2>2. CASE last = Alias
      <3>1. PlainFollows(d) \subseteq FieldNames(d)
        BY <1>2, <2>2 DEF PlainFollows, last
      <3> QED  BY <1>3, <1>6, <3>1 DEF query
    <2>3. CASE last = Open
      <3>1. PlainFollows(d) \subseteq FieldNames(d)
        BY <1>2, <2>3 DEF PlainFollows, last
      <3> QED  BY <1>3, <1>6, <3>1 DEF query
    <2>4. CASE last = users
      <3>1. PlainFollows(d) = Pages \cup {Open}
        BY <1>8, <1>9, <2>4
      <3> QED  BY <1>4, <1>5, <1>6, <2>4, <3>1 DEF query, users, last
    <2>5. CASE last \in {query, nodes, tenant} \cup Pages
      <3>1. PlainFollows(d) = {Open}
        BY <1>8, <1>9, <2>5
      <3> QED  BY <1>4, <1>5, <1>6, <2>5, <3>1 DEF query, nodes, tenant, last
    <2>6. CASE last \notin {Text, Alias, Open, users, query, nodes, tenant} \cup Pages
      <3>1. PlainFollows(d) = FieldNames(d) \cup {Close}
        BY <1>9, <2>6
      <3> QED  BY <1>3, <1>6, <3>1 DEF query
    <2> QED  BY <2>1, <2>2, <2>3, <2>4, <2>5, <2>6
  <1>7. CASE t = Text
    BY <1>3, <1>7 DEF query
  <1> QED  BY <1>6, <1>7 DEF PlainNext

\* Each token the grammar allows keeps the document well put together.
LEMMA WrittenAppend ==
    ASSUME NEW d \in Seq(PlainTokens), Written(d), NEW t \in PlainNext(d)
    PROVE  Written(Append(d, t))
  <1> DEFINE e == Append(d, t)
             n == Len(d)
             m == n + 1
             query == Name("query")
             users == Name("users")
  <1>1. t \in PlainTokens
    BY NextIsPlain
  <1>2. /\ n \in Nat /\ Len(e) = m /\ e[m] = t
        /\ \A j \in 1..n : d[j] = e[j] /\ d[j] \in PlainTokens
    BY <1>1, Appended
  <1>3. \A j \in 1..n : WrittenAt(d, j)
    BY DEF Written
  <1>4. LastIn(d) = Text => \A x \in 1..n : d[x] = Text
    BY LastAt
  <1>5. LastIn(d) # Text => \E k \in 1..n : SaidAt(d, k)
    BY LastAt
  <1>6. /\ t = query => LastIn(d) = Text
        /\ t \in Pages => LastIn(d) = users
        /\ t = Open => LastIn(d) \in {Text, query} \cup Pages \/ IsField(LastIn(d))
    BY GrammarAsks
  <1>7. /\ users # Text /\ query # Text /\ IsField(users) /\ Text.is = "text"
        /\ \A p \in Pages : p.is = "args" /\ p # Text
        /\ \A y : IsField(y) => y # Text
    <2>1. \A p \in Pages : p.is = "args"
      BY DEF Pages, Args
    <2> QED  BY <2>1 DEF Text, Name, IsField, Reserved
  <1> HIDE DEF e, n, query, users, Open, Text, Pages
  <1>8. m - 1 = n /\ m \in Nat \ {0} /\ \A j \in 1..m : j \in 1..n \/ j = m
    BY <1>2
  <1>9. ASSUME NEW j \in 1..n PROVE WrittenAt(e, j)
    <2>1. j \in Nat \ {0} /\ \A x \in 1..j : d[x] = e[x]
      BY <1>2
    <2> QED  BY <1>3, <2>1, WrittenStays
  <1>10. ASSUME NEW k \in 1..n, SaidAt(d, k)
         PROVE  /\ e[k] = LastIn(d)
                /\ \A x \in (k + 1)..(m - 1) : e[x] = Text
                /\ \A x \in 1..(m - 1) : x \in 1..(k - 1) \/ x = k \/ x \in (k + 1)..(m - 1)
    <2>1. \A x \in (k + 1)..n : x \in 1..n
      BY <1>2
    <2> QED  BY <1>2, <1>8, <1>10, <2>1 DEF SaidAt, n
  <1>11. ASSUME t = query PROVE \A x \in 1..(m - 1) : e[x] = Text
    BY <1>2, <1>4, <1>6, <1>8, <1>11
  <1>12. ASSUME t \in Pages
         PROVE  \E u \in 1..(m - 1) : e[u] = users /\ \A x \in (u + 1)..(m - 1) : e[x] = Text
    <2>1. PICK k \in 1..n : SaidAt(d, k)
      BY <1>5, <1>6, <1>7, <1>12
    <2> QED  BY <1>6, <1>8, <1>10, <1>12, <2>1
  <1>13. ASSUME t = Open
         PROVE  \/ \A x \in 1..(m - 1) : e[x] \in {Text, query}
                \/ \E u \in 1..(m - 1) :
                     IsField(e[u]) /\ \A x \in (u + 1)..(m - 1) : e[x].is \in {"text", "args"}
    <2>1. CASE LastIn(d) = Text
      BY <1>2, <1>4, <1>8, <2>1
    <2>2. CASE LastIn(d) = query
      <3>1. PICK k \in 1..n : SaidAt(d, k)
        BY <1>5, <1>7, <2>2
      <3>2. \A x \in 1..(k - 1) : d[x] = Text
        BY <1>3, <2>2, <3>1 DEF WrittenAt, SaidAt, query
      <3>3. \A x \in 1..(k - 1) : e[x] = Text
        <4>1. \A x \in 1..(k - 1) : x \in 1..n
          BY <1>2
        <4> QED  BY <1>2, <3>2, <4>1
      <3> QED  BY <1>10, <2>2, <3>1, <3>3
    <2>3. CASE IsField(LastIn(d))
      <3>1. PICK k \in 1..n : SaidAt(d, k)
        BY <1>5, <1>7, <2>3
      <3>2. IsField(e[k]) /\ \A x \in (k + 1)..(m - 1) : e[x].is \in {"text", "args"}
        BY <1>7, <1>10, <2>3, <3>1
      <3> QED  BY <1>8, <3>2
    <2>4. CASE LastIn(d) \in Pages
      <3>1. PICK k \in 1..n : SaidAt(d, k)
        BY <1>5, <1>7, <2>4
      <3>2. PICK u \in 1..(k - 1) : d[u] = users /\ \A x \in (u + 1)..(k - 1) : d[x] = Text
        BY <1>3, <2>4, <3>1 DEF WrittenAt, SaidAt, users
      <3>3. /\ u \in 1..n /\ u \in 1..(m - 1)
            /\ \A x \in (u + 1)..(m - 1) : x \in (u + 1)..(k - 1) \/ x = k \/ x \in (k + 1)..(m - 1)
            /\ \A x \in (u + 1)..(k - 1) : x \in 1..n
        BY <1>2, <1>8
      <3>4. IsField(e[u]) /\ e[k].is = "args"
        BY <1>2, <1>7, <1>10, <2>4, <3>1, <3>2, <3>3
      <3>5. \A x \in (u + 1)..(k - 1) : e[x].is = "text"
        BY <1>2, <1>7, <3>2, <3>3
      <3>6. \A x \in (k + 1)..(m - 1) : e[x].is = "text"
        BY <1>7, <1>10, <3>1
      <3>7. \A x \in (u + 1)..(m - 1) : e[x].is \in {"text", "args"}
        BY <3>3, <3>4, <3>5, <3>6
      <3> QED  BY <3>3, <3>4, <3>7
    <2> QED  BY <1>6, <1>13, <2>1, <2>2, <2>3, <2>4
  <1>14. WrittenAt(e, m)
    BY <1>2, <1>8, <1>11, <1>12, <1>13 DEF WrittenAt, query, users
  <1>15. Written(e)
    BY <1>2, <1>8, <1>9, <1>14 DEF Written
  <1> QED  BY <1>15 DEF e

LEMMA WrittenEmpty == Written(<<>>)
  BY DEF Written

-----------------------------------------------------------------------------
(* In a valid document no connection is inside another.                    *)

\* A selection set that counts for more than one is that of a field users.
LEMMA HintedByUsers ==
    ASSUME NEW d \in Seq(PlainTokens), Written(d), NEW j \in 1..Len(d), d[j] = Open, Hint(d, j) # 1
    PROVE  \E u \in Positions(d) : d[u].of = "users" /\ Selects(d, u, j)
  <1> DEFINE before == {k \in 1..(j - 1) : d[k] # Text}
             k == Max(before)
  <1>1. /\ Len(d) \in Nat /\ DOMAIN d = 1..Len(d) /\ j - 1 \in Int /\ 1..(j - 1) \subseteq Int
        /\ \A x \in 1..(j - 1) : x \in 1..Len(d)
        /\ \A x \in 1..Len(d) : d[x] \in PlainTokens
    OBVIOUS
  <1>2. IsFiniteSet(before) /\ before \subseteq Int
    <2>1. before \in SUBSET (1..(j - 1))
      OBVIOUS
    <2>2. IsFiniteSet(1..(j - 1))
      BY <1>1, FS_Interval
    <2> HIDE DEF before
    <2> QED  BY <1>1, <2>1, <2>2, FS_Subset
  <1>3. ArgsOf(d, j) = IF before # {} /\ d[k].is = "args" THEN d[k] ELSE NoArgs
    <2>1. j \in 1..(Len(d) + 1)
      BY <1>1
    <2>2. Said(d, j) = before
      BY <2>1, PlainWhole
    <2> QED  BY <2>2 DEF ArgsOf
  <1>4. before # {} /\ d[k].is = "args"
    BY <1>3, NoHint DEF Hint
  <1>5. k \in before /\ \A y \in before : y <= k
    <2> HIDE DEF before
    <2> QED  BY <1>2, <1>4, MaxOf
  <1>6. k \in 1..(j - 1) /\ d[k] \in Pages
    BY <1>1, <1>4, <1>5, TokenKinds
  <1>7. \A x \in (k + 1)..(j - 1) : d[x] = Text
    <2> SUFFICES ASSUME NEW x \in (k + 1)..(j - 1), d[x] # Text PROVE FALSE
      OBVIOUS
    <2>1. x \in 1..(j - 1) /\ ~(x <= k)
      BY <1>6
    <2> QED  BY <1>5, <2>1
  <1> HIDE DEF before, k
  <1>8. PICK u \in 1..(k - 1) : d[u] = Name("users") /\ \A x \in (u + 1)..(k - 1) : d[x] = Text
    BY <1>1, <1>6 DEF Written, WrittenAt
  <1>9. /\ u \in 1..Len(d) /\ u < j
        /\ \A x \in (u + 1)..(j - 1) : x \in (u + 1)..(k - 1) \/ x = k \/ x \in (k + 1)..(j - 1)
    BY <1>1, <1>6
  <1>10. Text.is = "text" /\ d[u].of = "users" /\ IsField(d[u])
    BY <1>8 DEF Text, Name, IsField, Reserved
  <1>11. \A x \in (u + 1)..(j - 1) : d[x].is \in {"text", "args"}
    BY <1>4, <1>7, <1>8, <1>9, <1>10
  <1>12. u \in Positions(d) /\ Selects(d, u, j)
    BY <1>1, <1>9, <1>10, <1>11 DEF Positions, Selects
  <1> QED  BY <1>10, <1>12

\* Connections are selected on Query alone.
LEMMA UsersOnTop ==
    ASSUME NEW d, Validate(d), NEW u \in Positions(d), d[u].of = "users"
    PROVE  Parents(d, u) = {}
  <1>1. PICK types \in [Positions(d) -> Types] : \A i \in Positions(d) :
           \/ Parents(d, i) = {} /\ types[i] = TypeOf("Query", d[i].of)
           \/ \E p \in Parents(d, i) : types[i] = TypeOf(types[p], d[i].of)
    BY DEF Validate
  <1>2. ASSUME NEW p \in Parents(d, u), types[u] = TypeOf(types[p], "users") PROVE FALSE
    <2>1. types[p] \in Types /\ types[u] \in Types
      BY DEF Parents
    <2>2. TypeOf(types[p], "users") = "invalid"
      BY <2>1 DEF TypeOf, Types
    <2> QED  BY <1>2, <2>1, <2>2 DEF Types
  <1> QED  BY <1>1, <1>2

\* No two selection sets around one position count for more than one.
LEMMA OneConnection ==
    ASSUME NEW d \in Seq(PlainTokens), Written(d), Validate(d), NEW i \in 1..(Len(d) + 1),
           NEW j \in Enclosing(d, i), NEW l \in Enclosing(d, i), j < l,
           Hint(d, j) # 1, Hint(d, l) # 1
    PROVE  FALSE
  <1>1. /\ i \in Int /\ Len(d) \in Nat /\ DOMAIN d = 1..Len(d)
        /\ \A x \in 1..(i - 1) : x \in 1..Len(d)
    OBVIOUS
  <1>2. /\ j \in 1..(i - 1) /\ d[j] = Open /\ \A k \in (j + 1)..i : Nesting(d, k) > Nesting(d, j)
        /\ l \in 1..(i - 1) /\ d[l] = Open
    BY DEF Enclosing
  <1>3. PICK u \in Positions(d) : d[u].of = "users" /\ Selects(d, u, j)
    BY <1>1, <1>2, HintedByUsers
  <1>4. PICK v \in Positions(d) : d[v].of = "users" /\ Selects(d, v, l)
    BY <1>1, <1>2, HintedByUsers
  <1>5. Parents(d, v) = {}
    BY <1>4, UsersOnTop
  <1>6. /\ u \in 1..Len(d) /\ u < j /\ IsField(d[u])
        /\ v \in 1..Len(d) /\ v < l /\ IsField(d[v])
        /\ \A k \in (v + 1)..(l - 1) : d[k].is \in {"text", "args", "directive", "veil"}
    BY <1>1, <1>3, <1>4 DEF Positions, Selects
  <1>7. Open.is = "{" /\ Text.is = "text" /\ Name("query").is = "name"
        /\ \A y : IsField(y) => y.is = "name" /\ y # Text /\ y # Name("query")
    BY DEF Open, Text, Name, IsField, Reserved
  <1> HIDE DEF Open, Text, Name
  <1>8. j < v
    <2>1. j # v
      BY <1>2, <1>6, <1>7
    <2>2. j \notin (v + 1)..(l - 1)
      BY <1>2, <1>6, <1>7
    <2> QED  BY <1>1, <1>2, <1>6, <2>1, <2>2
  <1>9. j \in Enclosing(d, v)
    <2>1. v \in Int /\ v < i /\ j \in 1..(v - 1) /\ \A k \in (j + 1)..v : k \in (j + 1)..i
      BY <1>1, <1>2, <1>6, <1>8
    <2> QED  BY <1>2, <2>1 DEF Enclosing
  <1> DEFINE top == Max(Enclosing(d, v))
  <1>10. top \in Enclosing(d, v) /\ j <= top
    <2>1. v \in Int /\ 1..(v - 1) \subseteq Int
      BY <1>6
    <2>2. IsFiniteSet(Enclosing(d, v)) /\ Enclosing(d, v) \subseteq Int
      BY <2>1, EnclosingBefore
    <2> QED  BY <1>9, <2>2, MaxOf
  <1>11. top \in 1..Len(d) /\ d[top] = Open
    <2>1. \A x \in 1..(v - 1) : x \in 1..Len(d)
      BY <1>1, <1>6
    <2> QED  BY <1>10, <2>1 DEF Enclosing
  <1>12. \A p \in Positions(d) : ~Selects(d, p, top)
    <2>1. v \in 1..(Len(d) + 1)
      BY <1>1, <1>6
    <2>2. Owned(d, v) = Enclosing(d, v)
      BY <2>1, PlainWhole
    <2> QED  BY <1>5, <2>2 DEF Parents
  <1> HIDE DEF top
  <1>13. \/ \A x \in 1..(top - 1) : d[x] \in {Text, Name("query")}
         \/ \E p \in 1..(top - 1) :
              IsField(d[p]) /\ \A x \in (p + 1)..(top - 1) : d[x].is \in {"text", "args"}
    BY <1>11 DEF Written, WrittenAt
  <1>14. CASE \A x \in 1..(top - 1) : d[x] \in {Text, Name("query")}
    <2>1. u \in 1..(top - 1)
      BY <1>1, <1>2, <1>6, <1>10, <1>11
    <2> QED  BY <1>6, <1>7, <1>14, <2>1
  <1>15. ASSUME NEW p \in 1..(top - 1), IsField(d[p]),
                \A x \in (p + 1)..(top - 1) : d[x].is \in {"text", "args"}
         PROVE  FALSE
    <2>1. p \in DOMAIN d /\ p < top
      BY <1>1, <1>11
    <2>2. p \in Positions(d) /\ Selects(d, p, top)
      BY <1>11, <1>15, <2>1 DEF Positions, Selects
    <2> QED  BY <1>12, <2>2
  <1> QED  BY <1>13, <1>14, <1>15

\* A field counts for no more than one page.
LEMMA FactorBounded ==
    ASSUME NEW d \in Seq(PlainTokens), Written(d), Validate(d), NEW i \in 1..(Len(d) + 1)
    PROVE  Factor(d, i) \in Int /\ 0 <= Factor(d, i) /\ Factor(d, i) <= MaxPageSize
  <1> DEFINE S == Enclosing(d, i)
             w == [j \in S |-> Hint(d, j)]
  <1>1. i \in Int /\ \A x \in 1..(i - 1) : x \in 1..(Len(d) + 1)
    OBVIOUS
  <1>2. S \subseteq 1..(i - 1) /\ IsFiniteSet(S) /\ S \subseteq Int
    BY <1>1, EnclosingBefore
  <1>3. \A j \in S : Hint(d, j) \in 1..MaxPageSize /\ Hint(d, j) \in Int
    BY <1>1, <1>2, HintTyped
  <1>4. ASSUME NEW x \in S, NEW y \in S, x # y PROVE Hint(d, x) = 1 \/ Hint(d, y) = 1
    <2>1. x < y \/ y < x
      BY <1>2, <1>4
    <2> QED  BY <2>1, OneConnection
  <1>5. Factor(d, i) = ProductOver(S, w) /\ Factor(d, i) \in Int
    BY FactorAt DEF PagesProduct
  <1>6. MaxPageSize \in Int /\ 1 <= MaxPageSize
    BY PagesAssumption
  <1>7. w \in [S -> Int] /\ \A x \in S : w[x] = Hint(d, x)
    BY <1>3
  <1> HIDE DEF S, w
  <1>8. /\ \A x \in S : 1 <= w[x] /\ w[x] <= MaxPageSize
        /\ \A x \in S, y \in S : x # y => w[x] = 1 \/ w[y] = 1
        /\ \A x \in S : 1 <= w[x] /\ w[x] <= w[x]
    BY <1>3, <1>4, <1>6, <1>7
  <1>9. ProductOver(S, w) <= MaxPageSize
    BY <1>2, <1>6, <1>7, <1>8, ProductOfOne
  <1>10. 1 <= ProductOver(S, w)
    BY <1>2, <1>7, <1>8, ProductMonotone
  <1> QED  BY <1>5, <1>9, <1>10

\* A valid document costs at most a page for each of its tokens.
LEMMA CostBounded ==
    ASSUME NEW d \in Seq(PlainTokens), Written(d), Validate(d)
    PROVE  CostOf(d) \in Int /\ 0 <= CostOf(d) /\ CostOf(d) <= Len(d) * MaxPageSize
  <1> DEFINE S == Positions(d)
             w == [i \in S |-> Factor(d, i)]
  <1>1. Len(d) \in Nat /\ DOMAIN d = 1..Len(d) /\ \A i \in 1..Len(d) : i \in 1..(Len(d) + 1)
    OBVIOUS
  <1>2. S \subseteq 1..Len(d)
    BY <1>1 DEF Positions
  <1>3. IsFiniteSet(S) /\ Cardinality(S) \in Nat /\ Cardinality(S) <= Len(d)
    <2>1. IsFiniteSet(1..Len(d)) /\ Cardinality(1..Len(d)) = Len(d)
      <3>1. 1 \in Int /\ Len(d) \in Int /\ (IF 1 > Len(d) THEN 0 ELSE Len(d) - 1 + 1) = Len(d)
        BY <1>1
      <3>2. IsFiniteSet(1..Len(d)) /\ Cardinality(1..Len(d)) = IF 1 > Len(d) THEN 0 ELSE Len(d) - 1 + 1
        BY <3>1, FS_Interval
      <3> QED  BY <3>1, <3>2
    <2> QED  BY <1>2, <2>1, FS_Subset, FS_CardinalityType
  <1>4. \A i \in S : Factor(d, i) \in Int /\ 0 <= Factor(d, i) /\ Factor(d, i) <= MaxPageSize
    BY <1>1, <1>2, FactorBounded
  <1>5. CostOf(d) = SumOver(S, w)
    BY <1>3, <1>4, CostIsSum
  <1>6. w \in [S -> Int] /\ \A i \in S : 0 <= w[i] /\ w[i] <= MaxPageSize
    BY <1>4
  <1>7. MaxPageSize \in Nat
    BY PagesAssumption
  <1> HIDE DEF S, w
  <1>8. SumOver(S, w) \in Int /\ 0 <= SumOver(S, w) /\ SumOver(S, w) <= Cardinality(S) * MaxPageSize
    BY <1>3, <1>6, <1>7, SumBound
  <1>9. Cardinality(S) * MaxPageSize <= Len(d) * MaxPageSize
        /\ Cardinality(S) * MaxPageSize \in Int /\ Len(d) * MaxPageSize \in Int
    <2>1. \A a \in Nat, b \in Nat, c \in Nat : a <= b => a * c <= b * c /\ a * c \in Int /\ b * c \in Int
      OBVIOUS
    <2> QED  BY <1>1, <1>3, <1>7, <2>1
  <1> QED  BY <1>5, <1>8, <1>9

-----------------------------------------------------------------------------
(* The work of a document, and its cost.                                   *)

\* What a selection set really multiplies by.
Rows(d, j) == IF j \in Connections(d) THEN PageSize(ArgsOf(d, j)) ELSE 1
RowsOf(d) == [j \in DOMAIN d |-> IF j \in Connections(d) THEN PageSize(ArgsOf(d, j)) ELSE 1]

\* A connection returns no more rows than the scanner counts for it.
LEMMA RowsHinted ==
    ASSUME NEW d \in Seq(PlainTokens), NamesItsPages(d), NEW j \in 1..Len(d)
    PROVE  Rows(d, j) \in Int /\ 1 <= Rows(d, j) /\ Rows(d, j) <= Hint(d, j)
  <1>1. j \in 1..(Len(d) + 1)
    OBVIOUS
  <1>2. Hint(d, j) \in 1..MaxPageSize /\ ArgsOf(d, j) \in Pages
    BY <1>1, HintTyped
  <1>3. CASE j \in Connections(d)
    <2>1. Hinted(ArgsOf(d, j))
      BY <1>3 DEF NamesItsPages
    <2>0. ArgsOf(d, j).says = 0
      BY <1>2 DEF Pages, Args
    <2>2. PageSize(ArgsOf(d, j)) = PageMultiplier(ArgsOf(d, j))
      BY <2>0, <2>1 DEF Hinted, PageSize, PageMultiplier
    <2> QED  BY <1>2, <1>3, <2>2, PagesAssumption DEF Rows, Hint
  <1>4. CASE j \notin Connections(d)
    BY <1>2, <1>4, PagesAssumption DEF Rows
  <1> QED  BY <1>3, <1>4

\* A field is resolved no more often than the scanner counts it,
LEMMA ShareWithinFactor ==
    ASSUME NEW d \in Seq(PlainTokens), NamesItsPages(d), NEW i \in 1..(Len(d) + 1)
    PROVE  Share(d, RowsOf(d), i) \in Int /\ Share(d, RowsOf(d), i) <= Factor(d, i)
  <1> DEFINE S == Enclosing(d, i)
             w == [j \in S |-> RowsOf(d)[j]]
             u == [j \in S |-> Hint(d, j)]
  <1>1. i \in Int /\ DOMAIN d = 1..Len(d) /\ \A x \in 1..(i - 1) : x \in 1..Len(d) /\ x \in 1..(Len(d) + 1)
    OBVIOUS
  <1>2. S \subseteq 1..(i - 1) /\ IsFiniteSet(S)
    BY <1>1, EnclosingBefore
  <1>3. \A j \in S : RowsOf(d)[j] = Rows(d, j)
    BY <1>1, <1>2 DEF RowsOf, Rows
  <1>4. \A j \in S : /\ RowsOf(d)[j] \in Int /\ 1 <= RowsOf(d)[j]
                     /\ RowsOf(d)[j] <= Hint(d, j) /\ Hint(d, j) \in Int
    BY <1>1, <1>2, <1>3, RowsHinted, HintTyped
  <1>5. Share(d, RowsOf(d), i) = ProductOver(S, w)
    BY <1>2, <1>4, ShareIsProduct
  <1>6. Factor(d, i) = ProductOver(S, u)
    BY FactorAt DEF PagesProduct
  <1>7. w \in [S -> Int] /\ u \in [S -> Int] /\ \A x \in S : 1 <= w[x] /\ w[x] <= u[x]
    BY <1>4
  <1> HIDE DEF S, w, u
  <1>8. ProductOver(S, w) \in Int /\ ProductOver(S, w) <= ProductOver(S, u)
    BY <1>2, <1>7, ProductMonotone
  <1> QED  BY <1>5, <1>6, <1>8

\* so a document causes no more work than its cost.
LEMMA WorkWithinCost ==
    ASSUME NEW d \in Seq(PlainTokens), NamesItsPages(d)
    PROVE  Work(d) \in Int /\ Work(d) <= CostOf(d)
  <1> DEFINE S == Positions(d)
             w == [i \in S |-> Share(d, RowsOf(d), i)]
             u == [i \in S |-> Factor(d, i)]
  <1>1. Len(d) \in Nat /\ DOMAIN d = 1..Len(d) /\ \A i \in 1..Len(d) : i \in 1..(Len(d) + 1)
    OBVIOUS
  <1>2. S \subseteq 1..Len(d) /\ IsFiniteSet(S)
    <2>1. S \subseteq 1..Len(d)
      BY <1>1 DEF Positions
    <2>2. IsFiniteSet(1..Len(d))
      BY <1>1, FS_Interval
    <2> QED  BY <2>1, <2>2, FS_Subset
  <1>3. \A i \in S : /\ Share(d, RowsOf(d), i) \in Int /\ Factor(d, i) \in Int
                     /\ Share(d, RowsOf(d), i) <= Factor(d, i)
    BY <1>1, <1>2, ShareWithinFactor, FactorAt
  <1>4. Work(d) = SumOver(S, w)
    <2>1. Work(d) = Weighted(d, RowsOf(d))
      BY DEF Work, RowsOf
    <2> QED  BY <1>2, <1>3, <2>1, WeightedIsSum
  <1>5. CostOf(d) = SumOver(S, u)
    BY <1>2, <1>3, CostIsSum
  <1>6. w \in [S -> Int] /\ u \in [S -> Int] /\ \A x \in S : w[x] <= u[x]
    BY <1>3
  <1> HIDE DEF S, w, u
  <1> QED  BY <1>2, <1>4, <1>5, <1>6, SumMonotone

\* An int can count a full page for every byte of a document.
IntsAreWide == MaxLength * MaxPageSize < IntLimit

\* The cost of a document within the length limit fits in an int.
LEMMA CostFits ==
    ASSUME IntsAreWide, NEW len \in Nat, len <= MaxLength,
           NEW cost \in Int, 0 <= cost, cost <= len * MaxPageSize
    PROVE  Wrap(cost) = cost
  <1>1. MaxLength \in Nat /\ MaxPageSize \in Nat /\ IntLimit \in Nat
    BY LimitsAssumption, PagesAssumption, IntAssumption
  <1>2. \A a \in Nat, b \in Nat, c \in Nat : a <= b => a * c <= b * c /\ a * c \in Int /\ b * c \in Int
    OBVIOUS
  <1>3. len * MaxPageSize <= MaxLength * MaxPageSize
        /\ len * MaxPageSize \in Int /\ MaxLength * MaxPageSize \in Int
    BY <1>1, <1>2
  <1>4. -IntLimit <= cost /\ cost < IntLimit
    BY <1>1, <1>3 DEF IntsAreWide
  <1> QED  BY <1>4, WrapSmall

\* What Check accepts is within its limits.
WithinLimits(d) == ~(Len(d) > MaxLength) /\ ~(Analyze(d).cost > MaxComplexity)

LEMMA Accepts == \A d : Check(d) = "" => WithinLimits(d)
  <1> SUFFICES ASSUME NEW d, Check(d) = "" PROVE WithinLimits(d)
    OBVIOUS
  <1> DEFINE a == Analyze(d)
  <1>1. Check(d) = CASE Len(d) > MaxLength -> "too large"
                     [] a.introspects /\ ~AllowIntrospection -> "introspection"
                     [] a.deepest > MaxDepth -> "too deep"
                     [] a.cost > MaxComplexity -> "too expensive"
                     [] OTHER -> ""
    BY DEF Check
  <1> HIDE DEF a
  <1>2. ~(Len(d) > MaxLength) /\ ~(a.cost > MaxComplexity)
    BY <1>1
  <1> QED  BY <1>2 DEF a, WithinLimits

\* An accepted document is within the limit in truth, not modulo 2 * IntLimit.
LEMMA AffordableDocument ==
    ASSUME IntsAreWide, NEW d, Balanced(d), Knows(Analyze(d), d), Written(d),
           WithinLimits(d), Validate(d), NamesItsPages(d)
    PROVE  Work(d) <= MaxComplexity
  <1>1. d \in Seq(PlainTokens) /\ Analyze(d).cost = Wrap(CostOf(d))
    BY DEF Balanced, Knows
  <1>2. CostOf(d) \in Int /\ 0 <= CostOf(d) /\ CostOf(d) <= Len(d) * MaxPageSize
    BY <1>1, CostBounded
  <1>3. Len(d) \in Nat /\ MaxLength \in Nat /\ MaxComplexity \in Nat
    BY <1>1, LimitsAssumption
  <1>4. Len(d) <= MaxLength /\ ~(Wrap(CostOf(d)) > MaxComplexity)
    BY <1>1, <1>3 DEF WithinLimits
  <1>5. Wrap(CostOf(d)) = CostOf(d)
    BY <1>2, <1>3, <1>4, CostFits
  <1>6. Work(d) \in Int /\ Work(d) <= CostOf(d)
    BY <1>1, WorkWithinCost
  <1> QED  BY <1>2, <1>3, <1>4, <1>5, <1>6

\* A plain document was written as the grammar asks.
Composed ==
    /\ doc \in Seq(Tokens)
    /\ Plain(doc) => doc \in Seq(PlainTokens) /\ Written(doc)

\* Documents stay well put together.
LEMMA ComposedNext == Composed /\ [Next]_vars => Composed'
  <1> SUFFICES ASSUME Composed, [Next]_vars PROVE Composed'
    OBVIOUS
  <1>1. CASE Write
    <2>1. PICK t \in Continuations(doc) : doc' = Append(doc, t)
      BY <1>1 DEF Write
    <2>2. doc \in Seq(Tokens) /\ t \in Tokens
      BY GrammarInTokens DEF Composed
    <2>3. doc' \in Seq(Tokens)
      BY <2>1, <2>2
    <2>4. ASSUME Plain(doc') PROVE doc' \in Seq(PlainTokens) /\ Written(doc')
      <3>1. Plain(doc) /\ t \in PlainTokens
        BY <2>1, <2>2, <2>4, PlainPrefix
      <3>2. doc \in Seq(PlainTokens) /\ Written(doc)
        BY <3>1 DEF Composed
      <3>3. t \in PlainNext(doc)
        BY <3>1, <3>2, NextOfPlain
      <3> QED  BY <2>1, <2>3, <2>4, <3>2, <3>3, PlainSeq, WrittenAppend
    <2> QED  BY <2>3, <2>4 DEF Composed
  <1>2. CASE Admit
    <2>1. doc' = <<>>
      BY <1>2 DEF Admit
    <2>2. <<>> \in Seq(Tokens) /\ <<>> \in Seq(PlainTokens)
      OBVIOUS
    <2> QED  BY <2>1, <2>2, WrittenEmpty DEF Composed
  <1>3. CASE UNCHANGED doc
    BY <1>3 DEF Composed
  <1>4. CASE UNCHANGED vars
    BY <1>3, <1>4 DEF vars
  <1>5. ASSUME NEW q \in Requests,
               Begin(q) \/ Decorate(q) \/ Users(q) \/ User(q) \/ Other(q)
                 \/ UpdateTenant(q) \/ UserTenant(q) \/ Finish(q)
        PROVE  UNCHANGED doc
    BY <1>5 DEF Begin, Decorate, Users, User, Other, UpdateTenant, UserTenant, Finish
  <1>6. ASSUME NEW t \in Tenants, Operate(t) PROVE UNCHANGED doc
    BY <1>6 DEF Operate
  <1> QED  BY <1>1, <1>2, <1>3, <1>4, <1>5, <1>6 DEF Next

\* Check in graph/complexity.go bounds the work of Handler.ServeHTTP on plain
\* documents: a valid one that it accepts, without directives, fragments and
\* comments the scanner misreads, whose connections name their pages, resolves
\* no more fields than MaxComplexity, provided an int can count a full page for
\* every byte of a document of MaxBytes.
THEOREM AcceptedIsCheap ==
    ASSUME IntsAreWide
    PROVE  Spec => []AcceptedIsAffordable
  <1>1. Init => Composed
    <2>1. <<>> \in Seq(Tokens) /\ <<>> \in Seq(PlainTokens)
      OBVIOUS
    <2> QED  BY <2>1, WrittenEmpty DEF Init, Composed
  <1>2. Scanned /\ Composed => AcceptedIsAffordable
    <2> SUFFICES ASSUME Scanned, Composed, Plain(doc), Check(doc) = "",
                        Validate(Inlined(doc)), NamesItsPages(Inlined(doc))
                 PROVE  Work(Inlined(doc)) <= MaxComplexity
      BY DEF AcceptedIsAffordable, LimitIsALimit
    <2>1. Balanced(doc) /\ Knows(Analyze(doc), doc) /\ Written(doc) /\ doc \in Seq(PlainTokens)
      BY DEF Scanned, Composed
    <2>2. Inlined(doc) = doc
      BY <2>1, PlainWhole
    <2> QED  BY <2>1, <2>2, Accepts, AffordableDocument
  <1> QED  BY <1>1, <1>2, ComposedNext, ScannedInit, ScannedNext, PTL DEF Spec
=============================================================================
