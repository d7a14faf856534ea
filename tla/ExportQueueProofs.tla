------------------------- MODULE ExportQueueProofs -------------------------
(***************************************************************************)
(* Theorems about ExportQueue, for every number of jobs and attempts and   *)
(* every set of consumers and tenants.                                     *)
(***************************************************************************)
EXTENDS ExportQueue, TLAPS

-----------------------------------------------------------------------------
(* Type correctness ********************************************************)

\* Every row image a statement writes is a row: the columns it leaves alone
\* keep their type, and the statuses it writes pass the CHECK constraint.
LEMMA RowImages ==
  ASSUME NEW r \in Row
  PROVE  /\ ClaimedRow(r) \in Row
         /\ CompletedRow(r) \in Row
         /\ FailedRow(r) \in Row
         /\ RequeuedRow(r) \in Row
         /\ ReleasedRow(r) \in Row
         /\ [r EXCEPT !.started = "old"] \in Row
<1> USE DEF Row, Status, StartedAt
<1>1. ClaimedRow(r) \in Row
  <2>1. r.attempts + 1 \in Nat
    OBVIOUS
  <2>2. [r EXCEPT !.status = "processing"] \in Row
    OBVIOUS
  <2>3. ASSUME NEW q \in Row, NEW n \in Nat
        PROVE  [q EXCEPT !.attempts = n, !.started = "recent"] \in Row
    BY Zenon
  <2>4. QED
    BY <2>1, Zenon DEF ClaimedRow
<1>2. CompletedRow(r) \in Row
  BY DEF CompletedRow
<1>3. FailedRow(r) \in Row
  BY DEF FailedRow
<1>4. RequeuedRow(r) \in Row
  BY DEF RequeuedRow
<1>5. ReleasedRow(r) \in Row
  BY DEF ReleasedRow
<1>6. [r EXCEPT !.started = "old"] \in Row
  OBVIOUS
<1>7. QED
  BY <1>1, <1>2, <1>3, <1>4, <1>5, <1>6

\* The row an INSERT writes is a row.
LEMMA QueuedRowIsRow ==
  ASSUME NEW t \in Tenants
  PROVE  QueuedRow(t) \in Row
  BY DEF QueuedRow, Row, Status, StartedAt

\* The placeholder of a row that does not exist yet is a row.
LEMMA AbsentRowIsRow == AbsentRow \in Row
<1>1. (CHOOSE t \in Tenants : TRUE) \in Tenants
  BY TenantsAssumption
<1>2. QED
  BY <1>1 DEF AbsentRow, QueuedRow, Row, Status, StartedAt

\* One step of the pipeline keeps every variable's type.
LEMMA TypeStep == TypeOK /\ [Next]_vars => TypeOK'
<1> SUFFICES ASSUME TypeOK, [Next]_vars PROVE TypeOK'
  OBVIOUS
<1> USE DEF TypeOK
<1>1. ASSUME NEW t \in Tenants, Request(t) PROVE TypeOK'
  BY <1>1, QueuedRowIsRow DEF Request
<1>2. ASSUME NEW t \in Tenants, NEW j \in Jobs, DownloadURL(t, j) PROVE TypeOK'
  BY <1>2 DEF DownloadURL
<1>3. ASSUME NEW w \in Workers, ClaimLock(w) PROVE TypeOK'
  BY <1>3 DEF ClaimLock, Oldest, Claimable
<1>4. ASSUME NEW w \in Workers, ClaimCommit(w) PROVE TypeOK'
  <2>1. row' \in [Jobs -> Row]
    BY <1>4, RowImages DEF ClaimCommit
  <2>2. \A j \in Jobs : row[j].attempts + 1 \in Nat
    BY DEF Row
  <2>3. claim' \in [Workers -> [Jobs -> Nat]]
    BY <1>4, <2>2 DEF ClaimCommit
  <2>4. QED
    BY <1>4, <2>1, <2>3 DEF ClaimCommit
<1>5. ASSUME NEW w \in Workers, NEW j \in Jobs, Settle(w, j) PROVE TypeOK'
  <2>1. CASE Upload(w, j)
    BY <2>1 DEF Upload
  <2>2. ASSUME Drop(w, j)
        PROVE  /\ claim' \in [Workers -> [Jobs -> Nat]]
               /\ uploaded' \in [Workers -> SUBSET Jobs]
    BY <2>2 DEF Drop
  <2>3. CASE Complete(w, j)
    BY <2>2, <2>3, RowImages DEF Complete, Drop
  <2>4. CASE Fail(w, j)
    BY <2>2, <2>4, RowImages DEF Fail, Drop
  <2>5. CASE Abandon(w, j)
    BY <2>2, <2>5 DEF Abandon, Drop
  <2>6. QED
    BY <1>5, <2>1, <2>3, <2>4, <2>5 DEF Settle
<1>6. ASSUME NEW w \in Workers, Crash(w) PROVE TypeOK'
  BY <1>6 DEF Crash
<1>7. ASSUME NEW j \in Jobs, VisibilityExpires(j) PROVE TypeOK'
  BY <1>7, RowImages DEF VisibilityExpires
<1>8. ASSUME NEW w \in Workers, ReleaseStale(w) PROVE TypeOK'
  BY <1>8, RowImages DEF ReleaseStale
<1>9. CASE UNCHANGED vars
  BY <1>9 DEF vars
<1>10. QED
  BY <1>1, <1>2, <1>3, <1>4, <1>5, <1>6, <1>7, <1>8, <1>9 DEF Next

\* The columns of export_jobs, the consumers' batches and the issued URLs
\* keep their types in every reachable state, overrun or not.
THEOREM TypeCorrect == Spec => []TypeOK
<1>1. Init => TypeOK
  BY AbsentRowIsRow DEF Init, TypeOK
<1>2. QED
  BY <1>1, TypeStep, PTL DEF Spec

-----------------------------------------------------------------------------
(* Completed jobs have an object *******************************************)

\* A consumer's uploaded jobs are in the store, and so are completed ones.
ObjectInv ==
    /\ \A w \in Workers : uploaded[w] \subseteq stored
    /\ CompletedHasObject

\* One step of the pipeline keeps ObjectInv.
LEMMA ObjectStep == TypeOK /\ ObjectInv /\ [Next]_vars => ObjectInv'
<1> SUFFICES ASSUME TypeOK, ObjectInv, [Next]_vars PROVE ObjectInv'
  OBVIOUS
<1> USE DEF TypeOK, ObjectInv, CompletedHasObject, Row
<1>1. ASSUME NEW t \in Tenants, Request(t) PROVE ObjectInv'
  BY <1>1 DEF Request, QueuedRow
<1>2. ASSUME NEW t \in Tenants, NEW j \in Jobs, DownloadURL(t, j) PROVE ObjectInv'
  BY <1>2 DEF DownloadURL
<1>3. ASSUME NEW w \in Workers, ClaimLock(w) PROVE ObjectInv'
  BY <1>3 DEF ClaimLock
<1>4. ASSUME NEW w \in Workers, ClaimCommit(w) PROVE ObjectInv'
  BY <1>4 DEF ClaimCommit, ClaimedRow
<1>5. ASSUME NEW w \in Workers, NEW j \in Jobs, Upload(w, j) PROVE ObjectInv'
  BY <1>5 DEF Upload
<1>6. ASSUME NEW w \in Workers, NEW j \in Jobs, Complete(w, j) PROVE ObjectInv'
  BY <1>6 DEF Complete, Drop, CompletedRow
<1>7. ASSUME NEW w \in Workers, NEW j \in Jobs, Fail(w, j) PROVE ObjectInv'
  BY <1>7 DEF Fail, Drop, RequeuedRow, FailedRow
<1>8. ASSUME NEW w \in Workers, NEW j \in Jobs, Abandon(w, j) PROVE ObjectInv'
  BY <1>8 DEF Abandon, Drop
<1>9. ASSUME NEW w \in Workers, Crash(w) PROVE ObjectInv'
  BY <1>9 DEF Crash
<1>10. ASSUME NEW j \in Jobs, VisibilityExpires(j) PROVE ObjectInv'
  BY <1>10 DEF VisibilityExpires
<1>11. ASSUME NEW w \in Workers, ReleaseStale(w) PROVE ObjectInv'
  <2>1. ASSUME NEW j \in Jobs, row'[j].status = "completed"
        PROVE  row'[j] = row[j]
    <3>1. ReleasedRow(row[j]).status # "completed"
      BY DEF ReleasedRow
    <3> QED
      BY <1>11, <2>1, <3>1 DEF ReleaseStale
  <2> QED
    BY <1>11, <2>1 DEF ReleaseStale
<1>12. CASE UNCHANGED vars
  BY <1>12 DEF vars
<1>13. QED
  BY <1>1, <1>2, <1>3, <1>4, <1>5, <1>6, <1>7, <1>8, <1>9, <1>10, <1>11, <1>12
     DEF Next, Settle

\* Whatever consumers do, and even when two of them run the same job, a row
\* that says "completed" has an object key and its object is in the store.
THEOREM CompletedJobsHaveObjects == Spec => []CompletedHasObject
<1>1. Init => ObjectInv
  BY DEF Init, ObjectInv, CompletedHasObject, AbsentRow, QueuedRow
<1>2. ObjectInv => CompletedHasObject
  BY DEF ObjectInv
<1>3. QED
  BY <1>1, <1>2, ObjectStep, TypeCorrect, PTL DEF Spec

-----------------------------------------------------------------------------
(* One owner per job *******************************************************)

\* When claims are exclusive: consumers settle their jobs before the
\* visibility timeout, or there is only one consumer.
Exclusive == MayOverrun => \A w, v \in Workers : w = v

\* NoDuplicateWork is not inductive: it needs what a lock and a claim say
\* about the row.
LocksOnQueuedRows ==
    \A w, v \in Workers : \A j \in locked[w] :
        row[j].status = "queued" /\ (j \in locked[v] => v = w)
HeldIsProcessing ==
    \A w \in Workers, j \in Jobs :
        Holds(w, j) => /\ row[j].status = "processing"
                       /\ row[j].attempts = claim[w][j]
OneStatementOrOneBatch ==
    \A w \in Workers : locked[w] # {} => \A j \in Jobs : ~Holds(w, j)
UploadedIsHeld ==
    \A w \in Workers : \A j \in uploaded[w] : Holds(w, j)
StaleIsFree ==
    ~MayOverrun =>
        \A j \in Jobs : row[j].status = "processing" /\ row[j].started = "old"
                            => \A w \in Workers : ~Holds(w, j)

Ownership ==
    /\ LocksOnQueuedRows
    /\ HeldIsProcessing
    /\ OneStatementOrOneBatch
    /\ UploadedIsHeld
    /\ StaleIsFree
    /\ NoDuplicateWork

\* What Drop does to the consumers' variables.
LEMMA DropEffect ==
  ASSUME TypeOK, NEW w \in Workers, NEW j \in Jobs, Drop(w, j)
  PROVE  /\ \A v \in Workers, k \in Jobs :
               Holds(v, k)' => Holds(v, k) /\ <<v, k>> # <<w, j>>
                                           /\ claim'[v][k] = claim[v][k]
         /\ \A v \in Workers, k \in Jobs :
               Holds(v, k) /\ <<v, k>> # <<w, j>> => Holds(v, k)'
         /\ \A v \in Workers : \A k \in uploaded'[v] :
               k \in uploaded[v] /\ <<v, k>> # <<w, j>>
         /\ locked' = locked
<1> USE DEF TypeOK, Drop
<1>1. \A v \in Workers, k \in Jobs :
         claim'[v][k] = IF v = w /\ k = j THEN 0 ELSE claim[v][k]
  OBVIOUS
<1>2. \A v \in Workers :
         uploaded'[v] = IF v = w THEN uploaded[v] \ {j} ELSE uploaded[v]
  OBVIOUS
<1>3. QED
  BY <1>1, <1>2 DEF Holds

\* A consumer that is done with j may write anything to j's row, because
\* nobody else holds or locks it.
LEMMA DropKeepsOwnership ==
  ASSUME TypeOK, Ownership, NEW w \in Workers, NEW j \in Jobs, NEW r,
         Holds(w, j), Drop(w, j), row' = [row EXCEPT ![j] = r]
  PROVE  Ownership'
<1> USE DEF Ownership
<1>1. \A k \in Jobs : k # j => row'[k] = row[k]
  BY DEF TypeOK
<1>2. \A v \in Workers : ~Holds(v, j)'
  BY DropEffect DEF NoDuplicateWork
<1>3. \A v \in Workers : j \notin locked[v]
  BY DEF HeldIsProcessing, LocksOnQueuedRows
<1>4. LocksOnQueuedRows'
  BY <1>1, <1>3, DropEffect DEF LocksOnQueuedRows, TypeOK
<1>5. HeldIsProcessing'
  BY <1>1, <1>2, DropEffect DEF HeldIsProcessing
<1>6. OneStatementOrOneBatch'
  BY DropEffect DEF OneStatementOrOneBatch
<1>7. UploadedIsHeld'
  BY DropEffect DEF UploadedIsHeld, TypeOK
<1>8. StaleIsFree'
  BY <1>1, <1>2, DropEffect DEF StaleIsFree
<1>9. NoDuplicateWork'
  BY DropEffect DEF NoDuplicateWork
<1>10. QED
  BY <1>4, <1>5, <1>6, <1>7, <1>8, <1>9

\* Rows may change as long as held rows stay what the claim says, locked
\* rows stay queued, and no held row becomes stale.
LEMMA RowsKeepOwnership ==
  ASSUME Ownership, TypeOK, UNCHANGED <<locked, claim>>,
         \A w \in Workers : \A j \in uploaded'[w] : Holds(w, j),
         \A w \in Workers, j \in Jobs :
            Holds(w, j) => /\ row'[j].status = row[j].status
                           /\ row'[j].attempts = row[j].attempts
                           /\ MayOverrun \/ row'[j] = row[j],
         \A w \in Workers : \A j \in locked[w] : row'[j] = row[j]
  PROVE  Ownership'
<1> USE DEF Ownership, Holds
<1>1. LocksOnQueuedRows'
  BY DEF LocksOnQueuedRows
<1>2. HeldIsProcessing'
  BY DEF HeldIsProcessing
<1>3. OneStatementOrOneBatch'
  BY DEF OneStatementOrOneBatch
<1>4. UploadedIsHeld'
  BY DEF UploadedIsHeld
<1>5. StaleIsFree'
  BY DEF StaleIsFree
<1>6. NoDuplicateWork'
  BY DEF NoDuplicateWork
<1>7. QED
  BY <1>1, <1>2, <1>3, <1>4, <1>5, <1>6

\* Claims: only rows locked by w, which nobody else holds or locks, move.
LEMMA ClaimKeepsOwnership ==
  ASSUME TypeOK, Ownership, NEW w \in Workers, ClaimCommit(w)
  PROVE  Ownership'
<1>1. \A j \in Jobs : j \notin locked[w] => row'[j] = row[j]
  BY DEF ClaimCommit
<1>2. ASSUME NEW j \in locked[w]
      PROVE  /\ row'[j].status = "processing"
             /\ row'[j].started = "recent"
             /\ row'[j].attempts = row[j].attempts + 1
  <2>1. row[j] \in Row /\ row'[j] = ClaimedRow(row[j])
    <3>1. j \in Jobs /\ row[j] \in Row
      BY DEF TypeOK
    <3> QED
      BY <3>1 DEF ClaimCommit
  <2> QED
    BY <2>1 DEF ClaimedRow, Row
<1> USE DEF Ownership, Holds
<1>3. /\ locked'[w] = {}
      /\ \A v \in Workers : v # w => locked'[v] = locked[v]
      /\ uploaded' = uploaded
  BY DEF ClaimCommit, TypeOK
<1>4. \A v \in Workers : \A j \in locked[w] : ~Holds(v, j)
  BY DEF HeldIsProcessing, LocksOnQueuedRows, TypeOK
<1>5. \A v \in Workers, j \in Jobs :
         \/ claim'[v][j] = claim[v][j]
         \/ v = w /\ j \in locked[w] /\ claim'[v][j] = row[j].attempts + 1
  <2>1. CASE UNCHANGED claim
    BY <2>1
  <2>2. CASE claim' = [claim EXCEPT ![w] =
                         [j \in Jobs |-> IF j \in locked[w]
                                         THEN row[j].attempts + 1 ELSE 0]]
    <3>1. \A j \in Jobs : claim[w][j] = 0
      BY DEF OneStatementOrOneBatch, ClaimCommit, TypeOK
    <3>2. QED
      BY <2>2, <3>1 DEF TypeOK
  <2>3. QED
    BY <2>1, <2>2 DEF ClaimCommit
<1>6. LocksOnQueuedRows'
  BY <1>1, <1>3 DEF LocksOnQueuedRows, TypeOK
<1>7. HeldIsProcessing'
  BY <1>1, <1>2, <1>4, <1>5 DEF HeldIsProcessing
<1>8. OneStatementOrOneBatch'
  BY <1>3, <1>5 DEF OneStatementOrOneBatch
<1>9. UploadedIsHeld'
  BY <1>3, <1>4, <1>5 DEF UploadedIsHeld, TypeOK, OneStatementOrOneBatch, ClaimCommit
<1>10. StaleIsFree'
  BY <1>1, <1>2, <1>4, <1>5 DEF StaleIsFree
<1>11. NoDuplicateWork'
  BY <1>4, <1>5 DEF NoDuplicateWork
<1>12. QED
  BY <1>6, <1>7, <1>8, <1>9, <1>10, <1>11

\* One step of the pipeline keeps Ownership.
LEMMA OwnershipStep ==
  TypeOK /\ Ownership /\ Exclusive /\ [Next]_vars => Ownership'
<1> SUFFICES ASSUME TypeOK, Ownership, Exclusive, [Next]_vars
             PROVE  Ownership'
  OBVIOUS
<1>0. /\ \A v \in Workers : \A j \in uploaded[v] : Holds(v, j)
      /\ \A v \in Workers : locked[v] \subseteq Jobs
  BY DEF Ownership, UploadedIsHeld, TypeOK
<1>a. /\ LocksOnQueuedRows /\ HeldIsProcessing /\ OneStatementOrOneBatch
      /\ UploadedIsHeld /\ StaleIsFree /\ NoDuplicateWork
  BY DEF Ownership
<1>1. ASSUME NEW t \in Tenants, Request(t) PROVE Ownership'
  <2>1. PICK j \in Jobs : /\ row[j].status = "absent"
                          /\ row' = [row EXCEPT ![j] = QueuedRow(t)]
    BY <1>1 DEF Request
  <2>2. \A v \in Workers : ~Holds(v, j) /\ j \notin locked[v]
    BY <1>a, <2>1 DEF HeldIsProcessing, LocksOnQueuedRows
  <2>3. UNCHANGED <<locked, claim, uploaded>>
    BY <1>1 DEF Request
  <2>4. \A k \in Jobs : k # j => row'[k] = row[k]
    BY <2>1 DEF TypeOK
  <2>5. QED
    BY <1>0, <2>2, <2>3, <2>4, RowsKeepOwnership
<1>2. ASSUME NEW t \in Tenants, NEW j \in Jobs, DownloadURL(t, j)
      PROVE  Ownership'
  BY <1>0, <1>2, RowsKeepOwnership DEF DownloadURL
<1>3. ASSUME NEW w \in Workers, ClaimLock(w) PROVE Ownership'
  <2>1. /\ \A v \in Workers : v # w => locked'[v] = locked[v]
        /\ \A j \in locked'[w] : /\ row[j].status = "queued"
                                 /\ \A v \in Workers \ {w} : j \notin locked[v]
        /\ UNCHANGED <<row, claim, uploaded>>
    BY <1>3 DEF ClaimLock, Oldest, Claimable, TypeOK
  <2>2. LocksOnQueuedRows'
    BY <1>a, <2>1 DEF LocksOnQueuedRows, TypeOK
  <2>3. OneStatementOrOneBatch'
    BY <1>3, <1>a, <2>1 DEF OneStatementOrOneBatch, ClaimLock, Idle, Holds
  <2>4. QED
    BY <1>a, <2>1, <2>2, <2>3
       DEF Ownership, HeldIsProcessing, UploadedIsHeld, StaleIsFree, NoDuplicateWork, Holds
<1>4. ASSUME NEW w \in Workers, ClaimCommit(w) PROVE Ownership'
  BY <1>4, ClaimKeepsOwnership
<1>5. ASSUME NEW w \in Workers, NEW j \in Jobs, Settle(w, j)
      PROVE  Ownership'
  <2>1. CASE Upload(w, j)
    <3>1. \A v \in Workers : \A k \in uploaded'[v] : Holds(v, k)
      BY <1>0, <2>1 DEF Upload, TypeOK
    <3>2. UNCHANGED <<row, locked, claim>>
      BY <2>1 DEF Upload
    <3>3. QED
      BY <3>1, <3>2, RowsKeepOwnership
  <2>2. CASE Complete(w, j)
    BY <1>0, <2>2, DropKeepsOwnership DEF Complete
  <2>3. CASE Fail(w, j)
    BY <2>3, DropKeepsOwnership DEF Fail
  <2>4. CASE Abandon(w, j)
    <3>1. row' = [row EXCEPT ![j] = row[j]]
      BY <2>4 DEF Abandon, TypeOK
    <3>2. QED
      BY <2>4, <3>1, DropKeepsOwnership DEF Abandon
  <2>5. QED
    BY <1>5, <2>1, <2>2, <2>3, <2>4 DEF Settle
<1>6. ASSUME NEW w \in Workers, Crash(w) PROVE Ownership'
  <2>1. /\ \A v \in Workers : locked'[v] \subseteq locked[v]
        /\ \A v \in Workers : v = w => uploaded'[v] = {}
        /\ \A v \in Workers : v # w => uploaded'[v] = uploaded[v]
        /\ \A v \in Workers, j \in Jobs :
              claim'[v][j] = IF v = w THEN 0 ELSE claim[v][j]
        /\ UNCHANGED row
    BY <1>6 DEF Crash, TypeOK
  <2>2. \A v \in Workers, j \in Jobs :
           /\ Holds(v, j)' => Holds(v, j) /\ claim'[v][j] = claim[v][j]
           /\ Holds(v, j) /\ v # w => Holds(v, j)'
    BY <2>1 DEF Holds
  <2>3. LocksOnQueuedRows' /\ OneStatementOrOneBatch'
    BY <1>a, <2>1, <2>2 DEF LocksOnQueuedRows, OneStatementOrOneBatch
  <2>4. HeldIsProcessing' /\ StaleIsFree' /\ NoDuplicateWork'
    BY <1>a, <2>1, <2>2 DEF HeldIsProcessing, StaleIsFree, NoDuplicateWork
  <2>5. UploadedIsHeld'
    BY <1>a, <2>1, <2>2 DEF UploadedIsHeld, TypeOK
  <2>6. QED
    BY <2>3, <2>4, <2>5 DEF Ownership
<1>7. ASSUME NEW j \in Jobs, VisibilityExpires(j) PROVE Ownership'
  <2>1. /\ row' = [row EXCEPT ![j].started = "old"]
        /\ row[j].status = "processing"
        /\ MayOverrun \/ \A v \in Workers : ~Holds(v, j)
        /\ UNCHANGED <<locked, claim, uploaded>>
    BY <1>7 DEF VisibilityExpires
  <2>2. \A v \in Workers : j \notin locked[v]
    BY <1>a, <2>1 DEF LocksOnQueuedRows
  <2>3. /\ \A k \in Jobs : k # j => row'[k] = row[k]
        /\ row'[j].status = row[j].status
        /\ row'[j].attempts = row[j].attempts
    BY <2>1 DEF TypeOK, Row
  <2>4. QED
    BY <1>0, <2>1, <2>2, <2>3, RowsKeepOwnership
<1>8. ASSUME NEW w \in Workers, ReleaseStale(w) PROVE Ownership'
  <2>1. \A j \in StaleJobs, v \in Workers : ~Holds(v, j)
    BY <1>8, <1>a, OverrunAssumption
       DEF ReleaseStale, StaleJobs, Idle, Exclusive, StaleIsFree
  <2>2. \A j \in StaleJobs, v \in Workers : j \notin locked[v]
    BY <1>a DEF StaleJobs, LocksOnQueuedRows
  <2>3. /\ \A j \in Jobs : j \notin StaleJobs => row'[j] = row[j]
        /\ UNCHANGED <<locked, claim, uploaded>>
    BY <1>8 DEF ReleaseStale
  <2>4. QED
    BY <1>0, <2>1, <2>2, <2>3, RowsKeepOwnership
<1>9. CASE UNCHANGED vars
  BY <1>0, <1>9, RowsKeepOwnership DEF vars
<1>10. QED
  BY <1>1, <1>2, <1>3, <1>4, <1>5, <1>6, <1>7, <1>8, <1>9 DEF Next

\* The store is empty at first: nothing is held, locked or stale.
LEMMA OwnershipInit == Init => Ownership
  BY DEF Init, Ownership, LocksOnQueuedRows, HeldIsProcessing, Holds,
         OneStatementOrOneBatch, UploadedIsHeld, StaleIsFree, NoDuplicateWork,
         AbsentRow, QueuedRow

\* "No window where two workers generate the same export" (ClaimQueued):
\* true for every number of jobs and consumers as long as claims are
\* exclusive.
THEOREM ExclusiveClaims ==
  ASSUME Exclusive PROVE Spec => []NoDuplicateWork
<1>1. TypeOK /\ Ownership /\ [Next]_vars => Ownership'
  BY OwnershipStep
<1>2. Ownership => NoDuplicateWork
  BY DEF Ownership
<1>3. QED
  BY <1>1, <1>2, OwnershipInit, TypeCorrect, PTL DEF Spec

-----------------------------------------------------------------------------
(* What one step may do to one row *****************************************)

\* The transitions of a row that the repository's statements can cause when
\* claims are exclusive.
RowStep(j) ==
    \/ row'[j] = row[j]
    \/ row[j].status = "absent" /\ \E t \in Tenants : row'[j] = QueuedRow(t)
    \/ row[j].status = "queued" /\ row'[j] = ClaimedRow(row[j])
    \/ /\ row[j].status = "processing"
       /\ \/ row'[j] = CompletedRow(row[j])
          \/ row[j].attempts < MaxAttempts /\ row'[j] = RequeuedRow(row[j])
          \/ row[j].attempts >= MaxAttempts /\ row'[j] = FailedRow(row[j])
          \/ row'[j] = ReleasedRow(row[j])
          \/ row'[j] = [row[j] EXCEPT !.started = "old"]

\* Every step moves every row along RowStep: an owner's unconditional UPDATE
\* finds the row it claimed.
LEMMA RowsFollowRowStep ==
  TypeOK /\ Ownership /\ [Next]_vars => \A j \in Jobs : RowStep(j)
<1> SUFFICES ASSUME TypeOK, Ownership, [Next]_vars, NEW i \in Jobs
             PROVE  RowStep(i)
  OBVIOUS
<1> USE DEF TypeOK, RowStep
<1>1. ASSUME NEW t \in Tenants, Request(t) PROVE RowStep(i)
  BY <1>1 DEF Request
<1>2. ASSUME NEW w \in Workers, ClaimCommit(w) PROVE RowStep(i)
  BY <1>2 DEF ClaimCommit, Ownership, LocksOnQueuedRows
<1>3. ASSUME NEW w \in Workers, NEW j \in Jobs, Complete(w, j)
      PROVE  RowStep(i)
  BY <1>3 DEF Complete, Ownership, UploadedIsHeld, HeldIsProcessing
<1>4. ASSUME NEW w \in Workers, NEW j \in Jobs, Fail(w, j) PROVE RowStep(i)
  <2>1. row[j].status = "processing" /\ row[j].attempts = claim[w][j]
    BY <1>4 DEF Fail, Ownership, HeldIsProcessing
  <2>2. row[j].attempts \in Nat
    BY DEF Row
  <2>3. row'[i] = IF i # j THEN row[i]
                  ELSE IF row[j].attempts < MaxAttempts
                       THEN RequeuedRow(row[j]) ELSE FailedRow(row[j])
    BY <1>4, <2>1 DEF Fail
  <2>4. QED
    BY <2>1, <2>2, <2>3, AttemptsAssumption
<1>5. ASSUME NEW j \in Jobs, VisibilityExpires(j) PROVE RowStep(i)
  BY <1>5 DEF VisibilityExpires
<1>6. ASSUME NEW w \in Workers, ReleaseStale(w) PROVE RowStep(i)
  BY <1>6 DEF ReleaseStale, StaleJobs
<1>7. ASSUME UNCHANGED row PROVE RowStep(i)
  BY <1>7
<1>8. QED
  BY <1>1, <1>2, <1>3, <1>4, <1>5, <1>6, <1>7
     DEF Next, Settle, DownloadURL, ClaimLock, Upload, Abandon, Crash, vars

\* The rows' own invariant: retry budget and timestamps, and a job nobody
\* has requested has no attempts.
FreshRows == \A j \in Jobs : row[j].status = "absent" => row[j].attempts = 0
RowInv == RetryBudget /\ TimestampsMatchStatus /\ FreshRows

\* The rows' invariant, for one row.
RowOK(r) ==
    /\ r.attempts <= MaxAttempts
    /\ r.status \in {"absent", "queued"} => r.attempts < MaxAttempts
    /\ r.status = "failed" => r.attempts = MaxAttempts
    /\ r.status = "queued" => r.started = "null"
    /\ r.status = "processing" => r.started # "null"
    /\ r.finished <=> Terminal(r.status)
    /\ r.status = "absent" => r.attempts = 0

\* Each row image, written where RowStep allows it, is a sound row.
LEMMA RowImagesOK ==
  ASSUME NEW r \in Row, RowOK(r)
  PROVE  /\ r.status = "queued" => RowOK(ClaimedRow(r))
         /\ RowOK(CompletedRow(r))
         /\ r.attempts < MaxAttempts /\ r.status = "processing"
               => RowOK(RequeuedRow(r))
         /\ r.attempts >= MaxAttempts => RowOK(FailedRow(r))
         /\ RowOK(ReleasedRow(r))
         /\ r.status = "processing" => RowOK([r EXCEPT !.started = "old"])
<1> USE AttemptsAssumption DEF Row, RowOK, Terminal
<1>1. r.status = "queued" => RowOK(ClaimedRow(r))
  BY DEF ClaimedRow
<1>2. r.status = "processing" => RowOK([r EXCEPT !.started = "old"])
  OBVIOUS
<1>3. RowOK(CompletedRow(r))
  BY DEF CompletedRow
<1>4. r.attempts < MaxAttempts /\ r.status = "processing" => RowOK(RequeuedRow(r))
  BY DEF RequeuedRow
<1>5. r.attempts >= MaxAttempts => RowOK(FailedRow(r))
  BY DEF FailedRow
<1>6. RowOK(ReleasedRow(r))
  BY DEF ReleasedRow
<1>7. QED
  BY <1>1, <1>2, <1>3, <1>4, <1>5, <1>6

\* RowStep keeps the rows' invariant.
LEMMA RowInvStep ==
  TypeOK /\ RowInv /\ (\A j \in Jobs : RowStep(j)) => RowInv'
<1>1. RowInv <=> \A j \in Jobs : RowOK(row[j])
  BY DEF RowInv, RetryBudget, TimestampsMatchStatus, FreshRows, RowOK
<1>2. RowInv' <=> \A j \in Jobs : RowOK(row'[j])
  BY DEF RowInv, RetryBudget, TimestampsMatchStatus, FreshRows, RowOK
<1> SUFFICES ASSUME TypeOK, NEW j \in Jobs, RowOK(row[j]), RowStep(j)
             PROVE  RowOK(row'[j])
  BY <1>1, <1>2
<1>3. row[j] \in Row
  BY DEF TypeOK
<1>4. \A t \in Tenants : RowOK(QueuedRow(t))
  BY AttemptsAssumption DEF RowOK, QueuedRow, Terminal
<1>5. QED
  BY <1>3, <1>4, RowImagesOK, Zenon DEF RowStep

\* Ownership and the rows' invariant hold together in every reachable state.
LEMMA Invariants ==
  ASSUME Exclusive
  PROVE  Spec => [](TypeOK /\ Ownership /\ ObjectInv /\ RowInv)
<1>1. Init => RowInv
  <2>1. /\ AbsentRow.status = "absent"
        /\ AbsentRow.attempts = 0
        /\ AbsentRow.finished = FALSE
    BY DEF AbsentRow, QueuedRow
  <2>2. QED
    BY <2>1, AttemptsAssumption
       DEF Init, RowInv, RetryBudget, TimestampsMatchStatus, FreshRows, Terminal
<1>2. Init => ObjectInv
  BY DEF Init, ObjectInv, CompletedHasObject, AbsentRow, QueuedRow
<1>3. TypeOK /\ Ownership /\ RowInv /\ [Next]_vars => RowInv'
  BY RowsFollowRowStep, RowInvStep
<1>4. TypeOK /\ Ownership /\ [Next]_vars => Ownership'
  BY OwnershipStep
<1>5. QED
  BY <1>1, <1>2, <1>3, <1>4, OwnershipInit, ObjectStep, TypeCorrect, PTL
     DEF Spec

\* "Attempts remaining" and "attempts exhausted" mean what they say: no job
\* is handed out more often than MaxAttempts, and none fails before that.
THEOREM BudgetIsKept == ASSUME Exclusive PROVE Spec => []RetryBudget
<1>1. RowInv => RetryBudget
  BY DEF RowInv
<1>2. QED
  BY <1>1, Invariants, PTL

\* started_at and finished_at agree with the status column.
THEOREM TimestampsAgree ==
  ASSUME Exclusive PROVE Spec => []TimestampsMatchStatus
<1>1. RowInv => TimestampsMatchStatus
  BY DEF RowInv
<1>2. QED
  BY <1>1, Invariants, PTL

\* A row that reached a terminal status (ExportStatus.Terminal) is never
\* written again.
THEOREM TerminalRowsAreFinal == ASSUME Exclusive PROVE Spec => TerminalIsFinal
<1>1. TypeOK /\ Ownership /\ [Next]_vars =>
         [\A j \in Jobs : Terminal(row[j].status) => row'[j] = row[j]]_vars
  <2> SUFFICES ASSUME \A j \in Jobs : RowStep(j), NEW j \in Jobs,
                      Terminal(row[j].status)
               PROVE  row'[j] = row[j]
    BY RowsFollowRowStep
  <2>1. QED
    BY DEF RowStep, Terminal
<1>2. QED
  BY <1>1, Invariants, PTL DEF Spec, TerminalIsFinal

-----------------------------------------------------------------------------
(* Download URLs ***********************************************************)

\* One step keeps every issued URL good: its row is final and the store only
\* grows.
LEMMA DownloadsStep ==
  TypeOK /\ Ownership /\ ObjectInv /\ DownloadsStayValid /\ [Next]_vars
     => DownloadsStayValid'
<1> SUFFICES ASSUME TypeOK, Ownership, ObjectInv, DownloadsStayValid, [Next]_vars
             PROVE  DownloadsStayValid'
  OBVIOUS
<1>1. \A j \in Jobs : row[j].status = "completed" => row'[j] = row[j]
  BY RowsFollowRowStep DEF RowStep
<1>2. stored \subseteq stored'
  BY DEF Next, Request, DownloadURL, ClaimLock, ClaimCommit, Settle, Upload,
         Complete, Fail, Abandon, Drop, Crash, VisibilityExpires, ReleaseStale, vars
<1>3. \A u \in urls' : \/ u \in urls
                       \/ /\ u[2] \in Jobs
                          /\ row[u[2]].tenant = u[1]
                          /\ row[u[2]].status = "completed"
  <2>1. ASSUME NEW t \in Tenants, NEW j \in Jobs, DownloadURL(t, j),
               NEW u \in urls'
        PROVE  u \in urls \/ u = <<t, j>>
    BY <2>1 DEF DownloadURL
  <2>2. CASE \E t \in Tenants, j \in Jobs : DownloadURL(t, j)
    BY <2>1, <2>2 DEF DownloadURL
  <2>3. CASE UNCHANGED urls
    BY <2>3
  <2>4. QED
    BY <2>2, <2>3
       DEF Next, Request, ClaimLock, ClaimCommit, Settle, Upload, Complete, Fail,
           Abandon, Drop, Crash, VisibilityExpires, ReleaseStale, vars
<1>4. \A u \in urls : u[2] \in Jobs
  BY DEF TypeOK
<1>5. QED
  BY <1>1, <1>2, <1>3, <1>4
     DEF DownloadsStayValid, ObjectInv, CompletedHasObject

\* DownloadURL never signs a URL for another tenant's job, and the job of a
\* signed URL stays completed with its object stored.
THEOREM DownloadsAreValid == ASSUME Exclusive PROVE Spec => []DownloadsStayValid
<1>1. Init => DownloadsStayValid
  BY DEF Init, DownloadsStayValid
<1>2. QED
  BY <1>1, DownloadsStep, Invariants, PTL DEF Spec

-----------------------------------------------------------------------------
(* Refinement of the documented state machine ******************************)

\* A row that follows RowStep follows an edge of the lifecycle.
LEMMA LifecycleEdge ==
  ASSUME TypeOK, RowInv, NEW j \in Jobs, RowStep(j)
  PROVE  LET s == row[j].status  n == row[j].attempts
             t == row'[j].status m == row'[j].attempts
         IN  \/ s = "absent" /\ t = "queued" /\ m = n
             \/ s = "queued" /\ t = "processing" /\ m = n + 1
             \/ /\ s = "processing" /\ m = n
                /\ \/ t = "completed"
                   \/ t = "queued" /\ n < MaxAttempts
                   \/ t = "failed" /\ n = MaxAttempts
             \/ t = s /\ m = n
<1>1. /\ row[j] \in Row /\ row[j].attempts \in Nat
      /\ row[j].attempts <= MaxAttempts
      /\ row[j].status = "absent" => row[j].attempts = 0
  BY DEF TypeOK, Row, RowInv, RetryBudget, FreshRows
<1>2. \A t \in Tenants : QueuedRow(t).status = "queued" /\ QueuedRow(t).attempts = 0
  BY DEF QueuedRow
<1>3. ASSUME NEW r \in Row
      PROVE  /\ ClaimedRow(r).status = "processing"
             /\ ClaimedRow(r).attempts = r.attempts + 1
             /\ CompletedRow(r).status = "completed"
             /\ CompletedRow(r).attempts = r.attempts
             /\ RequeuedRow(r).status = "queued"
             /\ RequeuedRow(r).attempts = r.attempts
             /\ FailedRow(r).status = "failed"
             /\ FailedRow(r).attempts = r.attempts
             /\ ReleasedRow(r).status = IF r.attempts >= MaxAttempts
                                        THEN "failed" ELSE "queued"
             /\ ReleasedRow(r).attempts = r.attempts
  BY DEF Row, ClaimedRow, CompletedRow, RequeuedRow, FailedRow, ReleasedRow
<1>4. \/ row'[j].status = row[j].status /\ row'[j].attempts = row[j].attempts
      \/ row[j].status = "absent" /\ row'[j].status = "queued" /\ row'[j].attempts = 0
      \/ /\ row[j].status = "queued" /\ row'[j].status = "processing"
         /\ row'[j].attempts = row[j].attempts + 1
      \/ /\ row[j].status = "processing" /\ row'[j].attempts = row[j].attempts
         /\ \/ row'[j].status = "completed"
            \/ row'[j].status = "queued" /\ row[j].attempts < MaxAttempts
            \/ row'[j].status = "failed" /\ row[j].attempts >= MaxAttempts
            \/ row'[j].status = IF row[j].attempts >= MaxAttempts
                                THEN "failed" ELSE "queued"
  <2>1. CASE row'[j] = row[j]
    BY <2>1
  <2>2. CASE row[j].status = "absent" /\ \E t \in Tenants : row'[j] = QueuedRow(t)
    BY <1>2, <2>2
  <2>3. CASE row[j].status = "queued" /\ row'[j] = ClaimedRow(row[j])
    BY <1>1, <1>3, <2>3
  <2>4. CASE row[j].status = "processing" /\ row'[j] = CompletedRow(row[j])
    BY <1>1, <1>3, <2>4
  <2>5. CASE /\ row[j].status = "processing"
             /\ \/ row[j].attempts < MaxAttempts /\ row'[j] = RequeuedRow(row[j])
                \/ row[j].attempts >= MaxAttempts /\ row'[j] = FailedRow(row[j])
                \/ row'[j] = ReleasedRow(row[j])
    BY <1>1, <1>3, <2>5
  <2>6. CASE row'[j] = [row[j] EXCEPT !.started = "old"]
    BY <1>1, <2>6 DEF Row
  <2>7. QED
    BY <2>1, <2>2, <2>3, <2>4, <2>5, <2>6, Zenon DEF RowStep
<1>5. QED
  BY <1>1, <1>4, AttemptsAssumption

\* Exclusive claims implement the state machine drawn at models.ExportStatus,
\* whatever crashes, retries and releases happen.
THEOREM RowsImplementLifecycle ==
  ASSUME Exclusive PROVE Spec => ImplementsLifecycle
<1>1. Init => Lifecycle!Init
  BY DEF Init, Lifecycle!Init, AbsentRow, QueuedRow
<1>2. TypeOK /\ Ownership /\ RowInv /\ [Next]_vars
         => [Lifecycle!Next]_(Lifecycle!vars)
  <2> SUFFICES ASSUME TypeOK, RowInv, \A j \in Jobs : RowStep(j)
               PROVE  Lifecycle!Next
    BY RowsFollowRowStep
  <2>1. QED
    BY LifecycleEdge
       DEF Lifecycle!Next, Lifecycle!Enqueue, Lifecycle!Start, Lifecycle!Finish,
           Lifecycle!Stay
<1>3. QED
  BY <1>1, <1>2, Invariants, PTL DEF Spec, ImplementsLifecycle, Lifecycle!Spec
=============================================================================
