------------------------- MODULE ExportNotifyProofs -------------------------
(***************************************************************************)
(* Theorems about ExportNotify, for any number of jobs, Lambdas and        *)
(* pollers: who works on a job owns it, because no invocation outlives the *)
(* job's visibility timeout, and the job table follows ExportLifecycle.    *)
(***************************************************************************)
EXTENDS ExportNotify, TLAPS

\* What c knows about the job it works on.
Owns(c, j) ==
    /\ run[c].at = "work"
    /\ job[j].status = "processing"
    /\ job[j].attempts = run[c].tries
    /\ job[j].age <= JobVisibility
    /\ c \in Lambdas => job[j].age <= run[c].age

RunOK(c) ==
    /\ run[c].at = "work" => run[c].job # 0
    /\ run[c].job # 0 => Owns(c, run[c].job)
    /\ c \in Lambdas => run[c].age <= LambdaTimeout

NoSharing ==
    \A c, d \in Consumers : c # d /\ run[c].job # 0 => run[c].job # run[d].job

\* The retry budget, as the job table has it.
Budget(j) ==
    /\ job[j].attempts <= MaxAttempts
    /\ job[j].status \in {"absent", "queued"} => job[j].attempts < MaxAttempts

IInv ==
    /\ TypeOK
    /\ \A c \in Consumers : RunOK(c)
    /\ NoSharing
    /\ \A j \in Jobs : Budget(j)

-----------------------------------------------------------------------------
LEMMA RunIsTyped ==
    ASSUME TypeOK, NEW c \in Consumers
    PROVE  /\ run[c] = Idle \/ run[c] \in Run
           /\ run[c].job \in 0..NumJobs /\ run[c].age \in Nat
           /\ run[c].at # "idle" => run[c] \in Run
           /\ run[c].at = "idle" => run[c] = Idle
<1>1. run[c] = Idle \/ run[c] \in Run
  BY DEF TypeOK
<1>2. CASE run[c] = Idle
  BY <1>2, JobsAssumption DEF Idle
<1>3. CASE run[c] \in Run
  BY <1>3 DEF Run
<1> QED  BY <1>1, <1>2, <1>3

\* A step that leaves jobs alone and changes one consumer, who holds no job
\* afterwards.
LEMMA LetGo ==
    ASSUME IInv, NEW c \in Consumers, NEW v \in Run \cup {Idle},
           run' = [run EXCEPT ![c] = v], UNCHANGED job,
           v.job = 0, v.at # "work",
           c \in Lambdas => v.age <= LambdaTimeout,
           posting' \subseteq Jobs, msg' \in [Messages -> Message]
    PROVE  IInv'
<1> USE DEF IInv
<1>1. run \in [Consumers -> Run \cup {Idle}]
  BY DEF TypeOK
<1>2. run'[c] = v /\ \A d \in Consumers : d # c => run'[d] = run[d]
  BY <1>1
<1>3. TypeOK'
  BY <1>1 DEF TypeOK
<1>4. ASSUME NEW d \in Consumers PROVE RunOK(d)'
  BY <1>2 DEF RunOK, Owns
<1>5. NoSharing'
  BY <1>2 DEF NoSharing
<1>6. \A j \in Jobs : Budget(j)'
  BY DEF Budget
<1> QED  BY <1>3, <1>4, <1>5, <1>6

LEMMA ReturnIsTyped ==
    ASSUME IInv, NEW c \in Consumers, NEW ok \in BOOLEAN,
           c \in Pollers \/ run[c] \in Run
    PROVE  LET v == IF c \in Lambdas
                    THEN [run[c] EXCEPT !.at = "report", !.job = 0, !.tries = 0, !.ok = ok]
                    ELSE Idle
           IN  /\ v \in Run \cup {Idle} /\ v.job = 0 /\ v.at # "work"
               /\ c \in Lambdas => v.age <= LambdaTimeout
<1> DEFINE v == IF c \in Lambdas
                THEN [run[c] EXCEPT !.at = "report", !.job = 0, !.tries = 0, !.ok = ok]
                ELSE Idle
<1>1. CASE c \in Lambdas
  <2>1. run[c] \in Run /\ run[c].age <= LambdaTimeout
    BY <1>1, ConsumersAssumption DEF IInv, RunOK
  <2> DEFINE B == BOOLEAN
  <2>2. /\ run[c] \in [at : {"start", "claim", "work", "report"}, msg : Messages,
                        job : 0..NumJobs, tries : Nat, age : Nat, ok : B]
        /\ ok \in B
    BY <2>1 DEF Run
  <2>3. v = [run[c] EXCEPT !.at = "report", !.job = 0, !.tries = 0, !.ok = ok]
    BY <1>1
  <2> HIDE DEF B, v
  <2>4. v = [at |-> "report", msg |-> run[c].msg, job |-> 0, tries |-> 0,
             age |-> run[c].age, ok |-> ok]
    BY <2>2, <2>3
  <2>5. /\ v \in [at : {"start", "claim", "work", "report"}, msg : Messages,
                   job : 0..NumJobs, tries : Nat, age : Nat, ok : B]
        /\ v.job = 0 /\ v.at # "work" /\ v.age = run[c].age
    BY <2>2, <2>4, JobsAssumption
  <2>6. v \in Run
    BY <2>5 DEF Run, B
  <2>7. v \in Run \cup {Idle} /\ v.job = 0 /\ v.at # "work" /\ v.age <= LambdaTimeout
    BY <2>1, <2>5, <2>6
  <2> QED  BY <2>7 DEF v
<1>2. CASE c \notin Lambdas
  BY <1>2 DEF Idle
<1> QED  BY <1>1, <1>2

LEMMA ReturnStep ==
    ASSUME IInv, NEW c \in Consumers, NEW ok \in BOOLEAN,
           c \in Pollers \/ run[c] \in Run, Return(c, ok),
           UNCHANGED <<job, posting, msg>>
    PROVE  IInv'
<1> DEFINE v == IF c \in Lambdas
                THEN [run[c] EXCEPT !.at = "report", !.job = 0, !.tries = 0, !.ok = ok]
                ELSE Idle
<1>1. run' = [run EXCEPT ![c] = v]
  BY DEF Return
<1>2. /\ v \in Run \cup {Idle} /\ v.job = 0 /\ v.at # "work"
      /\ c \in Lambdas => v.age <= LambdaTimeout
  BY ReturnIsTyped
<1>3. posting' \subseteq Jobs /\ msg' \in [Messages -> Message] /\ job' = job
  BY DEF IInv, TypeOK
<1> HIDE DEF v
<1> QED  BY <1>1, <1>2, <1>3, LetGo

\* A step that moves one consumer, changes one row at most, and leaves the
\* jobs of the others alone.
LEMMA OthersKeep ==
    ASSUME IInv, TypeOK', NEW c \in Consumers,
           NEW j \in Jobs,
           \A d \in Consumers : d # c => run'[d] = run[d] /\ run[d].job # j,
           \A k \in Jobs : k # j => job'[k] = job[k],
           run'[c].job \in {0, j},
           RunOK(c)', Budget(j)'
    PROVE  IInv'
<1> USE DEF IInv
<1>1. ASSUME NEW d \in Consumers PROVE RunOK(d)'
  <2>1. CASE d = c
    BY <2>1
  <2>2. CASE d # c
    <3>1. run'[d] = run[d] /\ run[d].job # j /\ RunOK(d)
      BY <2>2
    <3>2. run[d].job # 0 => run[d].job \in Jobs
      BY RunIsTyped DEF Jobs
    <3>3. run[d].job # 0 => job'[run[d].job] = job[run[d].job]
      BY <3>1, <3>2
    <3> QED  BY <3>1, <3>3 DEF RunOK, Owns
  <2> QED  BY <2>1, <2>2
<1>2. NoSharing'
  <2> SUFFICES ASSUME NEW d \in Consumers, NEW e \in Consumers, d # e,
                      run'[d].job # 0, run'[d].job = run'[e].job
               PROVE  FALSE
    BY DEF NoSharing
  <2> QED  BY DEF NoSharing
<1>3. \A k \in Jobs : Budget(k)'
  BY DEF Budget
<1> QED  BY <1>1, <1>2, <1>3

LEMMA RequestStep ==
    ASSUME IInv, NEW j \in Jobs, Request(j)
    PROVE  IInv'
<1> USE DEF IInv
<1>1. /\ job[j].status = "absent" /\ UNCHANGED <<msg, run>>
      /\ job' = [job EXCEPT ![j] = [job[j] EXCEPT !.status = "queued"]]
      /\ posting' \subseteq Jobs
  BY DEF Request, TypeOK
<1>2. /\ TypeOK'
      /\ job'[j].status = "queued" /\ job'[j].attempts = job[j].attempts
      /\ \A k \in Jobs : k # j => job'[k] = job[k]
  BY <1>1 DEF TypeOK, Job
<1>3. ASSUME NEW c \in Consumers PROVE RunOK(c)' /\ run[c].job # j
  <2>1. RunOK(c) /\ (run[c].job # 0 => run[c].job \in Jobs)
    BY RunIsTyped DEF Jobs
  <2>2. run[c].job # j
    BY <1>1, <2>1 DEF RunOK, Owns, Jobs
  <2> QED  BY <1>1, <1>2, <2>1, <2>2 DEF RunOK, Owns
<1>4. \A k \in Jobs : Budget(k)'
  BY <1>1, <1>2 DEF Budget
<1>5. NoSharing'
  BY <1>1 DEF NoSharing
<1> QED  BY <1>2, <1>3, <1>4, <1>5

\* Steps of the queue.
LEMMA QueueStep ==
    ASSUME IInv, UNCHANGED <<job, run>>, posting' \subseteq Jobs,
           msg' \in [Messages -> Message]
    PROVE  IInv'
<1> USE DEF IInv
<1>1. TypeOK'
  BY DEF TypeOK
<1> QED  BY <1>1 DEF RunOK, Owns, NoSharing, Budget

LEMMA ReceiveStep ==
    ASSUME IInv, NEW c \in Consumers, NEW m \in Messages, Receive(c, m)
    PROVE  IInv'
<1> USE DEF IInv
<1>1. /\ run' = [run EXCEPT ![c] = Began("start", m)] /\ UNCHANGED <<job, posting>>
      /\ msg[m].n < MaxReceive
      /\ msg' = [msg EXCEPT ![m] = [at |-> "hidden", n |-> msg[m].n + 1, age |-> 0]]
  BY DEF Receive
<1>2. /\ Began("start", m) \in Run /\ Began("start", m).job = 0
      /\ Began("start", m).at # "work" /\ Began("start", m).age <= LambdaTimeout
  BY JobsAssumption, TimeoutsAssumption DEF Began, Run
<1>3. msg' \in [Messages -> Message]
  <2>1. msg[m] \in Message /\ msg \in [Messages -> Message]
    BY DEF TypeOK
  <2>2. [at |-> "hidden", n |-> msg[m].n + 1, age |-> 0] \in Message
    BY <1>1, <2>1, ReceiveAssumption DEF Message
  <2> QED  BY <1>1, <2>1, <2>2
<1>4. posting' \subseteq Jobs
  BY <1>1 DEF TypeOK
<1> QED  BY <1>1, <1>2, <1>3, <1>4, LetGo

LEMMA ReleaseStep ==
    ASSUME IInv, NEW c \in Consumers, ReleaseStale(c)
    PROVE  IInv'
<1> USE DEF IInv
<1>1. job' = [j \in Jobs |-> IF Stale(j) THEN Released(job[j]) ELSE job[j]]
  BY DEF ReleaseStale
<1> DEFINE v == IF c \in Pollers THEN Began("claim", Foreign)
                                 ELSE [run[c] EXCEPT !.at = "claim"]
<1>2. run' = [run EXCEPT ![c] = v] /\ UNCHANGED <<posting, msg>>
  BY DEF ReleaseStale
<1>3. /\ v \in Run /\ v.at = "claim" /\ v.job = 0
      /\ c \in Lambdas => v.age <= LambdaTimeout
  <2>1. CASE c \in Pollers
    <3>1. v = Began("claim", Foreign) /\ c \notin Lambdas
      BY <2>1, ConsumersAssumption
    <3>2. Began("claim", Foreign) \in Run
      BY JobsAssumption DEF Began, Run, Messages
    <3> QED  BY <3>1, <3>2 DEF Began
  <2>2. CASE c \notin Pollers
    <3>1. run[c].at = "start" /\ v = [run[c] EXCEPT !.at = "claim"]
      BY <2>2 DEF ReleaseStale, MayBegin
    <3>2. run[c] \in Run /\ run[c].job = 0
      BY <3>1, RunIsTyped DEF RunOK, Owns
    <3>3. c \in Lambdas => run[c].age <= LambdaTimeout
      BY DEF RunOK
    <3> QED  BY <3>1, <3>2, <3>3 DEF Run
  <2> QED  BY <2>1, <2>2
<1> HIDE DEF v
<1>4. run'[c] = v /\ \A d \in Consumers : d # c => run'[d] = run[d]
  BY <1>2 DEF TypeOK
<1>5. ASSUME NEW j \in Jobs
      PROVE  job'[j] \in Job /\ Budget(j)'
  <2>1. job[j] \in Job /\ Budget(j)
    BY DEF TypeOK
  <2>2. CASE Stale(j)
    <3>1. job'[j] = Released(job[j])
      BY <1>1, <2>2
    <3>2. CASE job[j].attempts >= MaxAttempts
      <4>1. job'[j] = [status |-> "failed", attempts |-> job[j].attempts, age |-> 0]
        BY <2>1, <3>1, <3>2 DEF Released, Job
      <4>2. job'[j] \in Job
        BY <2>1, <4>1 DEF Job
      <4> QED  BY <2>1, <4>1, <4>2 DEF Budget
    <3>3. CASE ~(job[j].attempts >= MaxAttempts)
      <4>1. job'[j] = [status |-> "queued", attempts |-> job[j].attempts, age |-> 0]
        BY <2>1, <3>1, <3>3 DEF Released, Job
      <4>2. job'[j] \in Job /\ job[j].attempts < MaxAttempts
        BY <2>1, <3>3, <4>1, AttemptsAssumption DEF Job
      <4> QED  BY <2>1, <4>1, <4>2 DEF Budget
    <3> QED  BY <3>2, <3>3
  <2>3. CASE ~Stale(j)
    BY <1>1, <2>1, <2>3 DEF Budget
  <2> QED  BY <2>2, <2>3
<1>6. TypeOK'
  <2>1. job' \in [Jobs -> Job]
    BY <1>1, <1>5
  <2>2. run' \in [Consumers -> Run \cup {Idle}]
    BY <1>2, <1>3 DEF TypeOK
  <2> QED  BY <1>2, <2>1, <2>2 DEF TypeOK
<1>7. ASSUME NEW d \in Consumers PROVE RunOK(d)'
  <2>1. CASE d = c
    BY <1>3, <1>4, <2>1 DEF RunOK
  <2>2. CASE d # c
    <3>1. run'[d] = run[d] /\ RunOK(d)
      BY <1>4, <2>2
    <3>2. ASSUME run[d].job # 0
          PROVE  job'[run[d].job] = job[run[d].job]
      <4>1. run[d].job \in Jobs /\ job[run[d].job].age <= JobVisibility
        BY <3>1, <3>2, RunIsTyped DEF RunOK, Owns, Jobs
      <4>2. ~Stale(run[d].job)
        BY <4>1, TimeoutsAssumption DEF Stale, TypeOK, Job
      <4> QED  BY <1>1, <4>1, <4>2
    <3> QED  BY <3>1, <3>2 DEF RunOK, Owns
  <2> QED  BY <2>1, <2>2
<1>8. NoSharing'
  BY <1>3, <1>4 DEF NoSharing
<1> QED  BY <1>5, <1>6, <1>7, <1>8

LEMMA ClaimStep ==
    ASSUME IInv, NEW c \in Consumers, Claim(c)
    PROVE  IInv'
<1> USE DEF IInv
<1>1. PICK j \in Queued :
          /\ job' = [job EXCEPT ![j] = ClaimedRow(job[j])]
          /\ run' = [run EXCEPT ![c] = [run[c] EXCEPT !.at = "work", !.job = j,
                                                      !.tries = job[j].attempts + 1]]
  BY DEF Claim
<1>2. j \in Jobs /\ job[j].status = "queued" /\ job[j] \in Job
  BY DEF Queued, TypeOK
<1>3. run[c].at = "claim" /\ run[c] \in Run /\ UNCHANGED <<posting, msg>>
  BY RunIsTyped DEF Claim
<1>4. /\ job'[j] = [status |-> "processing", attempts |-> job[j].attempts + 1, age |-> 0]
      /\ \A k \in Jobs : k # j => job'[k] = job[k]
      /\ job' \in [Jobs -> Job]
  BY <1>1, <1>2 DEF ClaimedRow, TypeOK, Job
<1> DEFINE v == [run[c] EXCEPT !.at = "work", !.job = j, !.tries = job[j].attempts + 1]
<1>5. /\ v \in Run /\ v.at = "work" /\ v.job = j /\ v.age = run[c].age
      /\ v.tries = job[j].attempts + 1
  <2>1. job[j].attempts + 1 \in Nat /\ j \in 0..NumJobs
    BY <1>2, JobsAssumption DEF Job, Jobs
  <2> QED  BY <1>3, <2>1 DEF Run
<1> HIDE DEF v
<1>6. /\ run' \in [Consumers -> Run \cup {Idle}] /\ run'[c] = v
      /\ \A d \in Consumers : d # c => run'[d] = run[d]
  BY <1>1, <1>5 DEF TypeOK, v
<1>7. TypeOK'
  BY <1>3, <1>4, <1>6 DEF TypeOK
<1>8. RunOK(c)'
  BY <1>2, <1>3, <1>4, <1>5, <1>6, JobsAssumption, TimeoutsAssumption
     DEF RunOK, Owns, Jobs, Run
<1>9. Budget(j)'
  BY <1>2, <1>4, AttemptsAssumption DEF Budget, Job
<1>10. ASSUME NEW d \in Consumers, d # c PROVE run[d].job # j
  BY <1>2, JobsAssumption DEF RunOK, Owns, Jobs
<1> QED  BY <1>2, <1>4, <1>5, <1>6, <1>7, <1>8, <1>9, <1>10, OthersKeep

LEMMA SettleStep ==
    ASSUME IInv, NEW c \in Consumers, Settle(c)
    PROVE  IInv'
<1> USE DEF IInv
<1>0. PICK j \in Jobs : j = run[c].job
  BY RunIsTyped DEF Settle, RunOK, Jobs
<1>1. PICK s \in Outcomes(c), ok \in BOOLEAN :
          /\ job' = [job EXCEPT ![j] = [job[j] EXCEPT !.status = s, !.age = 0]]
          /\ Return(c, ok)
  BY <1>0 DEF Settle
<1>2. /\ run[c].at = "work" /\ run[c] \in Run /\ job[j] \in Job
      /\ Owns(c, j) /\ UNCHANGED <<posting, msg>>
  BY <1>0, RunIsTyped DEF Settle, RunOK, TypeOK, Jobs
<1> DEFINE v == IF c \in Lambdas
                THEN [run[c] EXCEPT !.at = "report", !.job = 0, !.tries = 0, !.ok = ok]
                ELSE Idle
<1> HIDE DEF v
<1>3. s \in {"completed", "queued", "failed"}
      /\ (s = "queued" => job[j].attempts < MaxAttempts)
  BY <1>2 DEF Outcomes, Owns
<1>4. /\ job'[j].status = s /\ job'[j].attempts = job[j].attempts
      /\ \A k \in Jobs : k # j => job'[k] = job[k]
      /\ job' \in [Jobs -> Job]
  BY <1>1, <1>2, <1>3 DEF TypeOK, Job
<1>5. Budget(j)'
  BY <1>2, <1>3, <1>4, AttemptsAssumption DEF Budget, Job
<1>6. run' = [run EXCEPT ![c] = v]
  BY <1>1 DEF Return, v
<1>7. /\ v \in Run \cup {Idle} /\ v.job = 0 /\ v.at # "work"
      /\ c \in Lambdas => v.age <= LambdaTimeout
  BY <1>2, ReturnIsTyped DEF v
<1>8. /\ run' \in [Consumers -> Run \cup {Idle}] /\ run'[c] = v
      /\ \A d \in Consumers : d # c => run'[d] = run[d]
  BY <1>6, <1>7 DEF TypeOK
<1>9. TypeOK'
  BY <1>2, <1>4, <1>8 DEF TypeOK
<1>10. RunOK(c)'
  BY <1>7, <1>8 DEF RunOK
<1>11. ASSUME NEW d \in Consumers, d # c PROVE run[d].job # j
  <2>1. run[c].job # 0 /\ run[c].job = j
    BY <1>0, <1>2 DEF RunOK
  <2> QED  BY <1>11, <2>1 DEF NoSharing
<1> QED  BY <1>2, <1>4, <1>5, <1>7, <1>8, <1>9, <1>10, <1>11, OthersKeep

LEMMA TickStep ==
    ASSUME IInv, Tick
    PROVE  IInv'
<1> USE DEF IInv
<1>1. ASSUME NEW j \in Jobs
      PROVE  /\ job'[j] \in Job /\ job'[j].status = job[j].status
             /\ job'[j].attempts = job[j].attempts
             /\ job'[j].age <= job[j].age + 1
  <2>1. job[j] \in Job
    BY DEF TypeOK
  <2>2. job'[j] = job[j] \/ job'[j] = [job[j] EXCEPT !.age = @ + 1]
    BY DEF Tick
  <2> QED  BY <2>1, <2>2 DEF Job
<1>2. ASSUME NEW c \in Consumers
      PROVE  /\ run'[c] \in Run \cup {Idle}
             /\ run'[c].job = run[c].job /\ run'[c].at = run[c].at
             /\ run'[c].job # 0 => run'[c].tries = run[c].tries
             /\ run'[c].age =
                   IF c \in Lambdas /\ run[c] # Idle THEN run[c].age + 1 ELSE run[c].age
  <2>1. CASE c \in Lambdas /\ run[c] # Idle
    <3>1. run'[c] = [run[c] EXCEPT !.age = run[c].age + 1] /\ run[c] \in Run
      BY <2>1, RunIsTyped DEF Tick
    <3>2. run[c].age + 1 \in Nat
      BY <3>1 DEF Run
    <3>3. run'[c] \in Run
      BY <3>1, <3>2 DEF Run
    <3> QED  BY <2>1, <3>1, <3>3 DEF Run
  <2>2. CASE ~(c \in Lambdas /\ run[c] # Idle)
    BY <2>2 DEF Tick, TypeOK
  <2> QED  BY <2>1, <2>2
<1>3. msg' \in [Messages -> Message]
  <2>1. ASSUME NEW m \in Messages PROVE msg'[m] \in Message
    <3>1. msg[m] \in Message
      BY DEF TypeOK
    <3>2. msg'[m] = msg[m] \/ msg'[m] = [msg[m] EXCEPT !.age = @ + 1]
      BY DEF Tick
    <3> QED  BY <3>1, <3>2 DEF Message
  <2> QED  BY <2>1 DEF Tick
<1>4. TypeOK'
  BY <1>1, <1>2, <1>3 DEF TypeOK, Tick
<1>5. ASSUME NEW c \in Consumers PROVE RunOK(c)'
  <2>1. RunOK(c)
    OBVIOUS
  <2>2. c \in Lambdas => run'[c].age <= LambdaTimeout
    <3>1. c \in Lambdas /\ run[c] # Idle => run[c].age + 1 <= LambdaTimeout
      BY RunIsTyped, TimeoutsAssumption DEF Tick
    <3> QED  BY <1>2, <2>1, <3>1 DEF RunOK
  <2>3. ASSUME run[c].job # 0
        PROVE  Owns(c, run[c].job)'
    <3>1. /\ run[c].job \in Jobs /\ Owns(c, run[c].job) /\ run[c].at = "work"
          /\ job[run[c].job] \in Job /\ run[c] \in Run /\ run[c] # Idle
      BY <2>1, <2>3, RunIsTyped DEF RunOK, Owns, Jobs, TypeOK, Idle
    <3> DEFINE a == job[run[c].job].age
               b == job'[run[c].job].age
    <3>2. a \in Nat /\ run[c].age \in Nat /\ b \in Nat /\ b <= a + 1
      BY <1>1, <3>1 DEF Job, Run
    <3>3. CASE c \in Lambdas
      <4>1. a <= run[c].age /\ run[c].age < LambdaTimeout /\ run'[c].age = run[c].age + 1
        BY <1>2, <3>1, <3>3 DEF Owns, Tick
      <4>2. b <= JobVisibility /\ b <= run'[c].age
        <5> HIDE DEF a, b
        <5> QED  BY <3>2, <4>1, TimeoutsAssumption
      <4> QED  BY <1>1, <1>2, <2>3, <3>1, <4>2 DEF Owns
    <3>4. CASE c \notin Lambdas
      <4>1. a < JobVisibility
        BY <3>1, <3>4 DEF Tick, Consumers
      <4>2. b <= JobVisibility
        <5> HIDE DEF a, b
        <5> QED  BY <3>2, <4>1, TimeoutsAssumption
      <4> QED  BY <1>1, <1>2, <2>3, <3>1, <3>4, <4>2 DEF Owns
    <3> QED  BY <3>3, <3>4
  <2> QED  BY <1>2, <2>1, <2>2, <2>3 DEF RunOK
<1>6. NoSharing'
  BY <1>2 DEF NoSharing
<1>7. \A j \in Jobs : Budget(j)'
  BY <1>1 DEF Budget
<1> QED  BY <1>4, <1>5, <1>6, <1>7

LEMMA RuntimeStep ==
    ASSUME IInv, NEW c \in Consumers, Respond(c) \/ Die(c)
    PROVE  IInv'
<1> USE DEF IInv
<1>1. run' = [run EXCEPT ![c] = Idle] /\ UNCHANGED <<job, posting>>
  BY DEF Respond, Die
<1>2. /\ Idle \in Run \cup {Idle} /\ Idle.job = 0 /\ Idle.at # "work"
      /\ Idle.age <= LambdaTimeout
  BY TimeoutsAssumption DEF Idle
<1>3. msg' \in [Messages -> Message]
  <2>1. CASE Respond(c)
    <3>1. run[c] \in Run
      BY <2>1, RunIsTyped DEF Respond
    <3>2. run[c].msg \in Messages /\ msg[run[c].msg] \in Message
      BY <3>1 DEF Run, TypeOK
    <3>3. [msg[run[c].msg] EXCEPT !.at = "deleted", !.age = 0] \in Message
      BY <3>2 DEF Message
    <3> QED  BY <2>1, <3>3 DEF Respond, TypeOK
  <2>2. CASE Die(c)
    BY <2>2 DEF Die, TypeOK
  <2> QED  BY <2>1, <2>2
<1>4. posting' \subseteq Jobs
  BY <1>1 DEF TypeOK
<1> QED  BY <1>1, <1>2, <1>3, <1>4, LetGo

LEMMA ReturningStep ==
    ASSUME IInv, NEW c \in Consumers,
           NothingToClaim(c) \/ RunOnceFails(c) \/ Skip(c)
    PROVE  IInv'
<1>1. PICK ok \in BOOLEAN : Return(c, ok)
  BY DEF NothingToClaim, RunOnceFails, Skip
<1>2. UNCHANGED <<job, posting, msg>>
  BY DEF NothingToClaim, RunOnceFails, Skip
<1>3. c \in Pollers \/ run[c] \in Run
  BY RunIsTyped DEF NothingToClaim, RunOnceFails, Skip, MayBegin, IInv
<1> QED  BY <1>1, <1>2, <1>3, ReturnStep

LEMMA InitOK == Init => IInv
<1> SUFFICES ASSUME Init PROVE IInv
  OBVIOUS
<1>1. TypeOK
  BY ReceiveAssumption DEF Init, TypeOK, Job, Message, Messages
<1>2. \A c \in Consumers : run[c] = Idle
  BY DEF Init
<1>3. \A c \in Consumers : RunOK(c)
  BY <1>2, TimeoutsAssumption DEF RunOK, Idle
<1>4. NoSharing
  BY <1>2 DEF NoSharing, Idle
<1>5. \A j \in Jobs : Budget(j)
  BY AttemptsAssumption DEF Init, Budget
<1> QED  BY <1>1, <1>3, <1>4, <1>5 DEF IInv

LEMMA NextOK == IInv /\ [Next]_vars => IInv'
<1> SUFFICES ASSUME IInv, [Next]_vars PROVE IInv'
  OBVIOUS
<1>1. ASSUME NEW j \in Jobs, Request(j) PROVE IInv'
  BY <1>1, RequestStep
<1>2. ASSUME NEW j \in Jobs, Publish(j) PROVE IInv'
  <2>1. UNCHANGED <<job, run>> /\ posting' \subseteq Jobs /\ j \in Messages
    BY <1>2 DEF Publish, IInv, TypeOK, Messages
  <2>2. msg' \in [Messages -> Message]
    <3>1. msg[j] \in Message /\ msg \in [Messages -> Message]
      BY <2>1 DEF IInv, TypeOK
    <3>2. [msg[j] EXCEPT !.at = "visible"] \in Message
      BY <3>1 DEF Message
    <3> QED  BY <1>2, <3>1, <3>2 DEF Publish
  <2> QED  BY <2>1, <2>2, QueueStep
<1>3. ASSUME NEW c \in Consumers, NEW m \in Messages, Receive(c, m) PROVE IInv'
  BY <1>3, ReceiveStep
<1>4. ASSUME NEW m \in Messages, Reappear(m) \/ DeadLetter(m) PROVE IInv'
  <2>1. UNCHANGED <<job, run>> /\ posting' \subseteq Jobs
    BY <1>4 DEF Reappear, DeadLetter, IInv, TypeOK
  <2>2. msg' \in [Messages -> Message]
    <3>1. msg[m] \in Message /\ msg \in [Messages -> Message]
      BY DEF IInv, TypeOK
    <3>2. /\ [msg[m] EXCEPT !.at = "visible", !.age = 0] \in Message
          /\ [msg[m] EXCEPT !.at = "dead"] \in Message
      BY <3>1 DEF Message
    <3> QED  BY <1>4, <3>1, <3>2 DEF Reappear, DeadLetter
  <2> QED  BY <2>1, <2>2, QueueStep
<1>5. ASSUME NEW c \in Consumers, Step(c) \/ RunOnceFails(c) \/ Die(c) PROVE IInv'
  <2>1. CASE ReleaseStale(c)
    BY <2>1, ReleaseStep
  <2>2. CASE Claim(c)
    BY <2>2, ClaimStep
  <2>3. CASE Settle(c)
    BY <2>3, SettleStep
  <2>4. CASE NothingToClaim(c) \/ RunOnceFails(c) \/ Skip(c)
    BY <2>4, ReturningStep
  <2>5. CASE Respond(c) \/ Die(c)
    BY <2>5, RuntimeStep
  <2> QED  BY <1>5, <2>1, <2>2, <2>3, <2>4, <2>5 DEF Step
<1>6. CASE Tick
  BY <1>6, TickStep
<1>7. CASE UNCHANGED vars
  BY <1>7, QueueStep DEF vars, IInv, TypeOK
<1> QED  BY <1>1, <1>2, <1>3, <1>4, <1>5, <1>6, <1>7 DEF Next

LEMMA Inductive == Spec => []IInv
<1> QED  BY InitOK, NextOK, PTL DEF Spec

-----------------------------------------------------------------------------
\* Jobs, messages and runs keep their types, for any number of them and
\* whatever the queue delivers (TypeOK).
THEOREM TypeCorrect == Spec => []TypeOK
<1>1. IInv => TypeOK
  BY DEF IInv
<1> QED  BY <1>1, Inductive, PTL

\* Who works on a job owns it (HoldersOwnTheirJobs): the invocation began
\* before it claimed, so it is over when the claim is stale.
THEOREM HoldersOwn == Spec => []HoldersOwnTheirJobs
<1>1. IInv => HoldersOwnTheirJobs
  BY DEF IInv, RunOK, Owns, NoSharing, HoldersOwnTheirJobs
<1> QED  BY <1>1, Inductive, PTL

\* What a step may do to the status and the attempts of one job.
LEMMA LifeStep ==
    ASSUME IInv, [Next]_vars, NEW j \in Jobs
    PROVE  \/ /\ job[j].status = "absent" /\ job'[j].status = "queued"
              /\ job'[j].attempts = job[j].attempts
           \/ /\ job[j].status = "queued" /\ job'[j].status = "processing"
              /\ job'[j].attempts = job[j].attempts + 1
           \/ /\ job[j].status = "processing" /\ job'[j].attempts = job[j].attempts
              /\ \/ job'[j].status = "completed"
                 \/ job'[j].status = "queued" /\ job[j].attempts < MaxAttempts
                 \/ job'[j].status = "failed" /\ job[j].attempts = MaxAttempts
           \/ job'[j].status = job[j].status /\ job'[j].attempts = job[j].attempts
<1> USE DEF IInv
<1>1. job \in [Jobs -> Job] /\ job[j] \in Job /\ Budget(j)
  BY DEF TypeOK
<1>2. ASSUME NEW k \in Jobs, Request(k)
      PROVE  \/ /\ job[j].status = "absent" /\ job'[j].status = "queued"
                /\ job'[j].attempts = job[j].attempts
             \/ job'[j] = job[j]
  BY <1>1, <1>2 DEF Request, Job
<1>3. ASSUME NEW c \in Consumers, ReleaseStale(c)
      PROVE  \/ /\ job[j].status = "processing" /\ job'[j].attempts = job[j].attempts
                /\ \/ job'[j].status = "queued" /\ job[j].attempts < MaxAttempts
                   \/ job'[j].status = "failed" /\ job[j].attempts = MaxAttempts
             \/ job'[j] = job[j]
  <2>1. job'[j] = job[j] \/ (Stale(j) /\ job'[j] = Released(job[j]))
    BY <1>3 DEF ReleaseStale
  <2>2. job[j].attempts <= MaxAttempts
    BY <1>1 DEF Budget
  <2>3. job[j].attempts \in Nat /\ MaxAttempts \in Nat
    BY <1>1, AttemptsAssumption DEF Job
  <2>4. CASE job'[j] = job[j]
    BY <2>4
  <2>5. CASE Stale(j) /\ job'[j] = Released(job[j])
    <3>1. job[j].status = "processing"
      BY <2>5 DEF Stale
    <3>2. CASE job[j].attempts >= MaxAttempts
      <4>1. job'[j] = [status |-> "failed", attempts |-> job[j].attempts, age |-> 0]
        BY <1>1, <2>5, <3>2 DEF Released, Job
      <4>2. job[j].attempts = MaxAttempts
        BY <2>2, <2>3, <3>2
      <4> QED  BY <3>1, <4>1, <4>2
    <3>3. CASE ~(job[j].attempts >= MaxAttempts)
      <4>1. job'[j] = [status |-> "queued", attempts |-> job[j].attempts, age |-> 0]
        BY <1>1, <2>5, <3>3 DEF Released, Job
      <4>2. job[j].attempts < MaxAttempts
        BY <2>3, <3>3
      <4> QED  BY <3>1, <4>1, <4>2
    <3> QED  BY <3>2, <3>3
  <2> QED  BY <2>1, <2>4, <2>5
<1>4. ASSUME NEW c \in Consumers, Claim(c)
      PROVE  \/ /\ job[j].status = "queued" /\ job'[j].status = "processing"
                /\ job'[j].attempts = job[j].attempts + 1
             \/ job'[j] = job[j]
  BY <1>1, <1>4 DEF Claim, Queued, ClaimedRow
<1>5. ASSUME NEW c \in Consumers, Settle(c)
      PROVE  \/ /\ job[j].status = "processing" /\ job'[j].attempts = job[j].attempts
                /\ \/ job'[j].status = "completed"
                   \/ job'[j].status = "queued" /\ job[j].attempts < MaxAttempts
                   \/ job'[j].status = "failed" /\ job[j].attempts = MaxAttempts
             \/ job'[j] = job[j]
  <2>1. PICK s \in Outcomes(c) :
           job' = [job EXCEPT ![run[c].job] = [job[run[c].job] EXCEPT !.status = s, !.age = 0]]
    BY <1>5 DEF Settle
  <2>2. CASE run[c].job = j
    <3>1. Owns(c, j) /\ job[j].attempts <= MaxAttempts
      BY <1>1, <1>5, <2>2 DEF Settle, RunOK, Budget
    <3>2. job'[j].status = s /\ job'[j].attempts = job[j].attempts
      BY <1>1, <2>1, <2>2 DEF Job
    <3>3. \/ s = "completed"
          \/ s = "queued" /\ job[j].attempts < MaxAttempts
          \/ s = "failed" /\ job[j].attempts = MaxAttempts
      <4>1. job[j].attempts \in Nat /\ MaxAttempts \in Nat
        BY <1>1, AttemptsAssumption DEF Job
      <4>2. run[c].tries = job[j].attempts
        BY <3>1 DEF Owns
      <4>3. CASE run[c].tries < MaxAttempts
        BY <4>2, <4>3 DEF Outcomes
      <4>4. CASE ~(run[c].tries < MaxAttempts)
        <5>1. job[j].attempts = MaxAttempts
          BY <3>1, <4>1, <4>2, <4>4
        <5> QED  BY <4>4, <5>1 DEF Outcomes
      <4> QED  BY <4>3, <4>4
    <3> QED  BY <3>1, <3>2, <3>3 DEF Owns
  <2>3. CASE run[c].job # j
    BY <1>1, <2>1, <2>3
  <2> QED  BY <2>2, <2>3
<1>6. CASE Tick
  BY <1>1, <1>6 DEF Tick, Job
<1>7. ASSUME \/ \E k \in Jobs : Publish(k)
             \/ \E c \in Consumers, m \in Messages : Receive(c, m)
             \/ \E m \in Messages : Reappear(m) \/ DeadLetter(m)
             \/ \E c \in Consumers : \/ NothingToClaim(c) \/ RunOnceFails(c) \/ Skip(c)
                                     \/ Respond(c) \/ Die(c)
             \/ UNCHANGED vars
      PROVE  job' = job
  BY <1>7 DEF Publish, Receive, Reappear, DeadLetter, NothingToClaim, RunOnceFails,
              Skip, Respond, Die, vars
<1> QED  BY <1>2, <1>3, <1>4, <1>5, <1>6, <1>7 DEF Next, Step

\* Whatever happens to the notifications, the job table implements the state
\* machine of models.ExportStatus (ImplementsLifecycle).
THEOREM TableImplementsLifecycle == Spec => ImplementsLifecycle
<1>1. Init => Lifecycle!Init
  BY DEF Init, Lifecycle!Init
<1>2. IInv /\ [Next]_vars => [Lifecycle!Next]_Lifecycle!vars
  <2> SUFFICES ASSUME IInv, [Next]_vars PROVE Lifecycle!Next
    OBVIOUS
  <2>1. ASSUME NEW j \in Jobs
        PROVE  \/ Lifecycle!Enqueue(j) \/ Lifecycle!Start(j)
               \/ Lifecycle!Finish(j) \/ Lifecycle!Stay(j)
    BY <2>1, LifeStep DEF Lifecycle!Enqueue, Lifecycle!Start, Lifecycle!Finish,
                          Lifecycle!Stay
  <2> QED  BY <2>1 DEF Lifecycle!Next
<1> QED  BY <1>1, <1>2, Inductive, PTL DEF Spec, ImplementsLifecycle, Lifecycle!Spec
=============================================================================
