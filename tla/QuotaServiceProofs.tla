------------------------ MODULE QuotaServiceProofs ------------------------
(***************************************************************************)
(* Proofs about QuotaService for every set of users, URLs, submissions,    *)
(* handlers, reconcilers, retriers and jobs, and every limit.              *)
(***************************************************************************)
EXTENDS QuotaService, TLAPS

(* The type invariant, one conjunct per group of variables. *)
TxnType == [pc : AdmitPcs, sub : Submissions \cup {None}, window : 0..LastDay,
            limit : Nat, used : Nat]
BatchType == [todo : SUBSET Submissions, admitted : SUBSET Submissions]
RetryType == [pc : {"idle", "lock", "commit", "enqueue"}, sub : Submissions \cup {None},
              window : 0..LastDay, limit : Nat, used : Nat]
RunType == [pc : {"none", "waiting", "active", "select", "refund", "refunding"},
            sub : Submissions \cup {None}, attempt : 0..Attempts,
            after : {"stop", "retry", "hit"}, todo : SUBSET Submissions,
            item : Submissions \cup {None}, window : 0..LastDay]

RowsOK ==
    /\ clock \in Nat /\ created \in [Submissions -> Nat]
    /\ status \in [Submissions -> Statuses]
    /\ failure \in [Submissions -> Failures \cup {None}]
    /\ charged \in [Submissions -> BOOLEAN]
    /\ window \in [Submissions -> 0..LastDay]
CountsOK ==
    /\ usage \in [Users -> [Days -> Nat]]
    /\ retries \in [Submissions -> [Days -> Nat]]
LimitsOK ==
    /\ globalLimit \in Limits /\ override \in [Users -> Overrides]
    /\ day \in Days /\ cached \in SUBSET Urls

(* A transaction knows its row; one that has read the counter under the    *)
(* lock has read what it still is, and a limit that was in force.          *)
AdmitOK ==
    /\ admit \in [Admitters -> TxnType]
    /\ \A p \in Submissions : admit[p].sub = p
    /\ \A p \in Admitters :
         /\ admit[p].pc # "idle" => admit[p].sub \in Submissions
         /\ admit[p].pc \in {"window", "commit"} => admit[p].window \in Days
BatchOK == batch \in [Reconcilers -> BatchType]
RetryOK ==
    /\ retry \in [Retriers -> RetryType]
    /\ \A q \in Retriers :
         retry[q].pc # "idle" => retry[q].sub \in Submissions /\ retry[q].window \in Days
RunOK ==
    /\ run \in [Runs -> RunType]
    /\ \A r \in Runs :
         /\ run[r].pc # "none" => run[r].sub \in Submissions /\ run[r].attempt \in 1..Attempts
         /\ run[r].pc = "refunding" => run[r].item \in Submissions /\ run[r].window \in Days

TypeInv == RowsOK /\ CountsOK /\ LimitsOK /\ AdmitOK /\ BatchOK /\ RetryOK /\ RunOK

USE DEF Days, Admitters, Runs

\* TypeInv is TypeOK and what a handler knows of the row it works on.
LEMMA TypeInvImpliesTypeOK == TypeInv => TypeOK
  BY DEF TypeInv, TypeOK, RowsOK, CountsOK, LimitsOK, AdmitOK, BatchOK, RetryOK, RunOK,
         TxnType, BatchType, RetryType, RunType

\* The effective limits lie between the bounds of the admin API.
LEMMA EffectiveLimits ==
  ASSUME LimitsOK, NEW u \in Users
  PROVE  NovelLimit(u) \in 1..NovelCap /\ RetryLimit(u) \in 0..RetryCap
  BY LimitsAssumption DEF LimitsOK, Limits, Overrides, NovelLimit, RetryLimit

\* Adding a job keeps the queue well formed.
LEMMA EnqueueType ==
  ASSUME RunOK, NEW s \in Submissions, Enqueue(s)
  PROVE  RunOK'
  BY OwnersAssumption, BoundsAssumption DEF RunOK, RunType, Enqueue, NoJob, Job

\* The answer of admitSubmission leaves its caller well formed.
LEMMA ReturnType ==
  ASSUME AdmitOK, BatchOK, NEW p \in Admitters, NEW ok \in BOOLEAN,
         admit[p].sub \in Submissions, Return(p, ok)
  PROVE  AdmitOK' /\ BatchOK'
<1> DEFINE answer == IF ok THEN "enqueue" ELSE "done"
<1>1. CASE p \in Submissions
  <2>1. admit' = [admit EXCEPT ![p] = Txn(answer, p, 0)] /\ batch' = batch
    BY <1>1 DEF Return
  <2>2. answer \in {"enqueue", "done"}
    OBVIOUS
  <2>3. Txn(answer, p, 0) \in TxnType
    BY <1>1, <2>2, BoundsAssumption DEF TxnType, AdmitPcs, Txn
  <2>4. Txn(answer, p, 0).sub = p /\ Txn(answer, p, 0).pc = answer
    BY DEF Txn
  <2> QED
    BY <1>1, <2>1, <2>2, <2>3, <2>4 DEF AdmitOK, BatchOK
<1>2. CASE p \notin Submissions
  <2>1. /\ admit' = [admit EXCEPT ![p] = Idle]
        /\ batch' = [batch EXCEPT ![p] = [todo |-> @.todo \ {admit[p].sub},
                       admitted |-> @.admitted \cup IF ok THEN {admit[p].sub} ELSE {}]]
    BY <1>2 DEF Return
  <2>2. Idle \in TxnType /\ Idle.pc = "idle"
    BY BoundsAssumption DEF TxnType, AdmitPcs, Idle, Txn
  <2>3. AdmitOK'
    BY <1>2, <2>1, <2>2 DEF AdmitOK
  <2>4. BatchOK'
    BY <1>2, <2>1 DEF BatchOK, BatchType, AdmitOK
  <2> QED
    BY <2>3, <2>4
<1> QED
  BY <1>1, <1>2

\* The initial state is well formed.
THEOREM InitType == Init => TypeInv
  BY LimitsAssumption, BoundsAssumption, ProcessesAssumption
  DEF Init, TypeInv, RowsOK, CountsOK, LimitsOK, AdmitOK, BatchOK, RetryOK, RunOK,
      TxnType, BatchType, RetryType, RunType, Idle, Txn, NoJob, Job, Limits, Overrides, Statuses,
      Failures, AdmitPcs


-----------------------------------------------------------------------------
(* One process moves: what must be checked of its new record.              *)

\* Writing one counter of a table of counters.
LEMMA CounterUpdate ==
  ASSUME NEW A, NEW f \in [A -> [Days -> Nat]], NEW a \in A, NEW d \in Days, NEW n \in Nat
  PROVE  /\ [f EXCEPT ![a][d] = n] \in [A -> [Days -> Nat]]
         /\ \A b \in A, e \in Days :
              [f EXCEPT ![a][d] = n][b][e] = IF b = a /\ e = d THEN n ELSE f[b][e]
<1> DEFINE row == [f[a] EXCEPT ![d] = n]
<1>1. row \in [Days -> Nat]
  OBVIOUS
<1>2. [f EXCEPT ![a][d] = n] = [f EXCEPT ![a] = row]
  OBVIOUS
<1>3. \A e \in Days : row[e] = IF e = d THEN n ELSE f[a][e]
  OBVIOUS
<1> HIDE DEF row
<1> QED
  BY <1>1, <1>2, <1>3

\* Writing the transaction of one caller of admitSubmission.
LEMMA UpdateTxn ==
  ASSUME AdmitOK, NEW p \in Admitters, NEW txn \in TxnType,
         p \in Submissions => txn.sub = p,
         txn.pc # "idle" => txn.sub \in Submissions,
         txn.pc \in {"window", "commit"} => txn.window \in Days,
         admit' = [admit EXCEPT ![p] = txn]
  PROVE  AdmitOK'
  BY DEF AdmitOK

\* Writing the transaction of one registerRetry call.
LEMMA UpdateRetry ==
  ASSUME RetryOK, NEW q \in Retriers, NEW txn \in RetryType,
         txn.pc # "idle" => txn.sub \in Submissions /\ txn.window \in Days,
         retry' = [retry EXCEPT ![q] = txn]
  PROVE  RetryOK'
  BY DEF RetryOK

\* Writing one job.
LEMMA UpdateRun ==
  ASSUME RunOK, NEW r \in Runs, NEW job \in RunType,
         job.pc # "none" => job.sub \in Submissions /\ job.attempt \in 1..Attempts,
         job.pc = "refunding" => job.item \in Submissions /\ job.window \in Days,
         run' = [run EXCEPT ![r] = job]
  PROVE  RunOK'
  BY DEF RunOK

\* A new pc that needs no more of the record than the old one.
LEMMA UpdatePc ==
  ASSUME AdmitOK, NEW p \in Admitters, NEW pc \in AdmitPcs \ {"window", "commit"},
         admit[p].sub \in Submissions, admit' = [admit EXCEPT ![p].pc = pc]
  PROVE  AdmitOK'
  BY DEF AdmitOK, TxnType

\* The empty slot of the queue is a well formed job.
LEMMA NoJobType == NoJob \in RunType /\ NoJob.pc = "none"
  BY BoundsAssumption DEF NoJob, Job, RunType

\* A run that ends leaves its slot empty, or has an attempt left (queue.ts:26).
LEMMA FinishRunJob ==
  ASSUME NEW r \in Runs, FinishRun(r)
  PROVE  \/ run' = [run EXCEPT ![r] = NoJob]
         \/ /\ run[r].attempt < Attempts
            /\ run' = [run EXCEPT ![r] = Job("waiting", run[r].sub, run[r].attempt + 1)]
  BY DEF FinishRun

\* A job that has just been added, or waits for its next attempt, is well formed.
LEMMA NewJobType ==
  ASSUME NEW s \in Submissions, NEW n \in 1..Attempts
  PROVE  /\ Job("waiting", s, n) \in RunType
         /\ Job("waiting", s, n).pc = "waiting"
         /\ Job("waiting", s, n).sub = s /\ Job("waiting", s, n).attempt = n
  BY BoundsAssumption DEF Job, RunType

\* A job put back to wait for its next attempt leaves the queue well formed.
LEMMA RequeueType ==
  ASSUME RunOK, NEW r \in Runs, NEW s \in Submissions, NEW n \in 1..Attempts,
         run' = [run EXCEPT ![r] = Job("waiting", s, n)]
  PROVE  RunOK'
<1> DEFINE job == Job("waiting", s, n)
<1>1. job \in RunType /\ job.pc = "waiting" /\ job.sub = s /\ job.attempt = n
  BY NewJobType
<1>2. run' = [run EXCEPT ![r] = job]
  OBVIOUS
<1> HIDE DEF job
<1> QED
  BY <1>1, <1>2, UpdateRun

-----------------------------------------------------------------------------
(* Each action preserves the type invariant.                               *)

\* createSubmission keeps the types (repository.ts:79-113, app.ts:309).
LEMMA SubmitType ==
  ASSUME TypeInv, NEW s \in Submissions, SubmitStep(s)
  PROVE  TypeInv'
<1> USE DEF TypeInv, CountsOK, LimitsOK, BatchOK, RetryOK
<1>a. s \in Admitters /\ admit[s].sub = s
  BY DEF AdmitOK
<1>1. CASE StampRow(s)
  <2>1. RowsOK'
    BY <1>1 DEF StampRow, RowsOK
  <2>2. AdmitOK'
    BY <1>1, <1>a, UpdatePc DEF StampRow, AdmitPcs
  <2> QED
    BY <1>1, <2>1, <2>2 DEF StampRow, countVars, limitVars, RunOK
<1>2. CASE InsertRow(s)
  <2>1. RowsOK'
    BY <1>2 DEF InsertRow, RowsOK, Statuses
  <2>2. AdmitOK'
    BY <1>2, <1>a, UpdatePc DEF InsertRow, AdmitPcs
  <2> QED
    BY <1>2, <2>1, <2>2 DEF InsertRow, countVars, limitVars, RunOK
<1>3. CASE ApplyUrlCache(s)
  <2>1. RowsOK'
    BY <1>3 DEF ApplyUrlCache, RowsOK, Statuses
  <2>2. AdmitOK'
    <3>1. PICK pc \in {"done", "start"} : admit' = [admit EXCEPT ![s].pc = pc]
      BY <1>3 DEF ApplyUrlCache
    <3> QED
      BY <3>1, <1>a, UpdatePc DEF AdmitPcs
  <2> QED
    BY <1>3, <2>1, <2>2 DEF ApplyUrlCache, countVars, limitVars, RunOK
<1>4. CASE EnqueueAdmitted(s)
  <2>1. AdmitOK'
    BY <1>4, <1>a, UpdatePc DEF EnqueueAdmitted, AdmitPcs
  <2>2. RunOK'
    BY <1>4, EnqueueType DEF EnqueueAdmitted
  <2> QED
    BY <1>4, <2>1, <2>2 DEF EnqueueAdmitted, rowVars, countVars, limitVars, RowsOK
<1> QED
  BY <1>1, <1>2, <1>3, <1>4 DEF SubmitStep

\* admitSubmission keeps the types (quota.ts:23-54).
LEMMA AdmitType ==
  ASSUME TypeInv, NEW p \in Admitters, AdmitStep(p)
  PROVE  TypeInv'
<1> DEFINE s == admit[p].sub
           u == userId[s]
<1> USE DEF TypeInv, LimitsOK, RetryOK
<1>a. admit[p].pc # "idle"
  BY DEF AdmitStep, ReadSubmission, LockUrl, AdmitFree, LockWindow, Defer, Charge
<1>b. s \in Submissions /\ u \in Users /\ admit[p] \in TxnType
  BY <1>a, OwnersAssumption DEF AdmitOK
<1>c. p \in Submissions => s = p
  BY DEF AdmitOK
<1>1. CASE ReadSubmission(p)
  <2>1. AdmitOK' /\ BatchOK'
    <3>1. CASE Return(p, FALSE)
      BY <3>1, <1>b, ReturnType
    <3>2. CASE admit' = [admit EXCEPT ![p].pc = "url"] /\ UNCHANGED batch
      BY <3>2, <1>b, UpdatePc DEF AdmitPcs, BatchOK
    <3> QED
      BY <1>1, <3>1, <3>2 DEF ReadSubmission
  <2> QED
    BY <1>1, <2>1 DEF ReadSubmission, rowVars, countVars, limitVars, RowsOK, CountsOK, RunOK
<1>2. CASE LockUrl(p)
  <2>1. AdmitOK'
    <3>1. CASE admit' = [admit EXCEPT ![p].pc = "free"]
      BY <3>1, <1>b, UpdatePc DEF AdmitPcs
    <3>2. CASE admit' = [admit EXCEPT ![p] = [@ EXCEPT !.pc = "window", !.window = day]]
      <4> DEFINE txn == [admit[p] EXCEPT !.pc = "window", !.window = day]
      <4>1. admit' = [admit EXCEPT ![p] = txn]
        BY <3>2
      <4>a. day \in Days /\ day \in 0..LastDay
        BY BoundsAssumption
      <4>2. txn \in TxnType /\ txn.sub = s /\ txn.window = day
        BY <1>b, <4>a DEF TxnType, AdmitPcs
      <4> HIDE DEF txn
      <4> QED
        BY <4>a, <4>1, <4>2, <1>b, <1>c, UpdateTxn
    <3> QED
      BY <1>2, <3>1, <3>2 DEF LockUrl
  <2> QED
    BY <1>2, <2>1 DEF LockUrl, rowVars, countVars, limitVars, RowsOK, CountsOK, BatchOK, RunOK
<1>3. CASE AdmitFree(p)
  <2>1. RowsOK'
    BY <1>3, <1>b, BoundsAssumption DEF AdmitFree, RowsOK, Statuses
  <2>2. AdmitOK' /\ BatchOK'
    BY <1>3, <1>b, ReturnType DEF AdmitFree
  <2> QED
    BY <1>3, <2>1, <2>2 DEF AdmitFree, countVars, limitVars, CountsOK, RunOK
<1>4. CASE LockWindow(p)
  <2> DEFINE txn == [admit[p] EXCEPT !.pc = "commit", !.limit = NovelLimit(u),
                                     !.used = usage[u][admit[p].window]]
  <2>1. admit' = [admit EXCEPT ![p] = txn]
    BY <1>4 DEF LockWindow
  <2>2. admit[p].window \in Days
    BY <1>4 DEF LockWindow, AdmitOK
  <2>a. NovelLimit(u) \in Nat
    BY <1>b, EffectiveLimits, LimitsAssumption
  <2>3. usage[u][admit[p].window] \in Nat
    BY <1>b, <2>2 DEF CountsOK
  <2>4. txn \in TxnType /\ txn.sub = s /\ txn.window = admit[p].window
    BY <1>b, <2>a, <2>3 DEF TxnType, AdmitPcs
  <2> HIDE DEF txn
  <2>5. AdmitOK'
    BY <2>1, <2>2, <2>4, <1>b, <1>c, UpdateTxn
  <2> QED
    BY <1>4, <2>5 DEF LockWindow, rowVars, countVars, limitVars, RowsOK, CountsOK, BatchOK, RunOK
<1>5. CASE Defer(p)
  <2>1. RowsOK'
    BY <1>5, <1>b, BoundsAssumption DEF Defer, RowsOK, Statuses
  <2>2. AdmitOK' /\ BatchOK'
    BY <1>5, <1>b, ReturnType DEF Defer
  <2> QED
    BY <1>5, <2>1, <2>2 DEF Defer, countVars, limitVars, CountsOK, RunOK
<1>6. CASE Charge(p)
  <2>1. admit[p].window \in Days
    BY <1>6 DEF Charge, AdmitOK
  <2>2. RowsOK'
    BY <1>6, <1>b, <2>1 DEF Charge, RowsOK, Statuses
  <2>3. CountsOK'
    <3>1. usage' = [usage EXCEPT ![u][admit[p].window] = @ + 1] /\ retries' = retries
      BY <1>6 DEF Charge
    <3> DEFINE d == admit[p].window
               n == usage[u][d] + 1
    <3>2. usage' = [usage EXCEPT ![u][d] = n] /\ retries' = retries
      BY <3>1
    <3>3. d \in Days /\ usage[u][d] \in Nat
      BY <1>b, <2>1 DEF CountsOK
    <3>a. n \in Nat
      BY <3>3
    <3> HIDE DEF d, n
    <3>4. [usage EXCEPT ![u][d] = n] \in [Users -> [Days -> Nat]]
      BY <1>b, <3>3, <3>a, CounterUpdate DEF CountsOK
    <3> QED
      BY <3>2, <3>4 DEF CountsOK
  <2>4. AdmitOK' /\ BatchOK'
    BY <1>6, <1>b, ReturnType DEF Charge
  <2> QED
    BY <1>6, <2>2, <2>3, <2>4 DEF Charge, limitVars, RunOK
<1> QED
  BY <1>1, <1>2, <1>3, <1>4, <1>5, <1>6 DEF AdmitStep

\* The rows a pass sets out to admit are submissions (quota.ts:79-85).
LEMMA StartPassBatch ==
  ASSUME BatchOK, NEW r \in Reconcilers, StartPass(r)
  PROVE  BatchOK'
<1> DEFINE oldest == {s \in Waiting :
                        Cardinality({t \in Waiting : created[t] < created[s]}) < Batch}
<1>1. oldest \in SUBSET Submissions
  BY DEF Waiting
<1>2. batch' = [batch EXCEPT ![r].todo = oldest]
  BY DEF StartPass
<1> HIDE DEF oldest
<1> QED
  BY <1>1, <1>2 DEF BatchOK, BatchType

\* A pass of the reconciler keeps the types (quota.ts:79-85, quota-reconciler.ts:7-20).
LEMMA PassType ==
  ASSUME TypeInv, NEW r \in Reconcilers, PassStep(r)
  PROVE  TypeInv'
<1> USE DEF TypeInv, LimitsOK, RetryOK, CountsOK, RowsOK, rowVars, countVars, limitVars
<1>a. r \in Admitters /\ r \notin Submissions
  BY ProcessesAssumption
<1>1. CASE StartPass(r)
  <2>1. BatchOK'
    BY <1>1, StartPassBatch
  <2> QED
    BY <1>1, <2>1 DEF StartPass, AdmitOK, RunOK
<1>2. CASE AdmitNext(r)
  <2>1. PICK s \in batch[r].todo : admit' = [admit EXCEPT ![r] = Txn("start", s, 0)]
    BY <1>2 DEF AdmitNext
  <2>2. s \in Submissions
    BY <2>1 DEF BatchOK, BatchType
  <2>3. Txn("start", s, 0) \in TxnType /\ Txn("start", s, 0).sub = s
          /\ Txn("start", s, 0).pc = "start"
    BY <2>2, BoundsAssumption DEF Txn, TxnType, AdmitPcs
  <2>4. AdmitOK'
    BY <1>a, <2>1, <2>2, <2>3, UpdateTxn
  <2> QED
    BY <1>2, <2>4 DEF AdmitNext, BatchOK, RunOK
<1>3. CASE EnqueueNext(r)
  <2>1. PICK s \in batch[r].admitted :
          /\ Enqueue(s)
          /\ batch' = [batch EXCEPT ![r].admitted = @ \ {s}]
    BY <1>3 DEF EnqueueNext
  <2>2. s \in Submissions
    BY <2>1 DEF BatchOK, BatchType
  <2>3. RunOK' /\ BatchOK'
    BY <2>1, <2>2, EnqueueType DEF BatchOK, BatchType
  <2> QED
    BY <1>3, <2>3 DEF EnqueueNext, AdmitOK
<1> QED
  BY <1>1, <1>2, <1>3 DEF PassStep

\* registerRetry and its enqueue keep the types (quota.ts:56-77, app.ts:348-353).
LEMMA RetryStepType ==
  ASSUME TypeInv, NEW q \in Retriers,
         RetryStep(q) \/ \E s \in Submissions : ReadFailed(q, s)
  PROVE  TypeInv'
<1> USE DEF TypeInv, LimitsOK, BatchOK, rowVars, countVars, limitVars
<1> DEFINE s == retry[q].sub
           d == retry[q].window
<1>a. retry[q] \in RetryType
  BY DEF RetryOK
<1>b. Idle \in RetryType /\ Idle.pc = "idle"
  BY BoundsAssumption DEF Idle, Txn, RetryType
<1>1. ASSUME NEW t \in Submissions, ReadFailed(q, t) PROVE TypeInv'
  <2>1. day \in Days /\ day \in 0..LastDay
    BY BoundsAssumption
  <2>2. Txn("lock", t, day) \in RetryType /\ Txn("lock", t, day).sub = t
          /\ Txn("lock", t, day).window = day
    BY <2>1 DEF Txn, RetryType
  <2>3. RetryOK'
    BY <1>1, <2>1, <2>2, UpdateRetry DEF ReadFailed
  <2> QED
    BY <1>1, <2>3 DEF ReadFailed, RowsOK, CountsOK, AdmitOK, RunOK
<1>2. CASE LockRetry(q)
  <2> DEFINE txn == [retry[q] EXCEPT !.pc = "commit", !.limit = RetryLimit(userId[s]),
                                     !.used = retries[s][d]]
  <2>1. retry' = [retry EXCEPT ![q] = txn]
    BY <1>2 DEF LockRetry
  <2>2. s \in Submissions /\ d \in Days
    BY <1>2 DEF LockRetry, RetryOK
  <2>3. RetryLimit(userId[s]) \in Nat
    BY <2>2, EffectiveLimits, OwnersAssumption, LimitsAssumption
  <2>4. retries[s][d] \in Nat
    BY <2>2 DEF CountsOK
  <2>5. txn \in RetryType /\ txn.sub = s /\ txn.window = d
    BY <1>a, <2>3, <2>4 DEF RetryType
  <2> HIDE DEF txn
  <2>6. RetryOK'
    BY <2>1, <2>2, <2>5, UpdateRetry
  <2> QED
    BY <1>2, <2>6 DEF LockRetry, RowsOK, CountsOK, AdmitOK, RunOK
<1>3. CASE RetryLimitExceeded(q)
  <2>1. RetryOK'
    BY <1>3, <1>b, UpdateRetry DEF RetryLimitExceeded
  <2> QED
    BY <1>3, <2>1 DEF RetryLimitExceeded, RowsOK, CountsOK, AdmitOK, RunOK
<1>4. CASE RegisterRetry(q)
  <2>1. s \in Submissions /\ d \in Days
    BY <1>4 DEF RegisterRetry, RetryOK
  <2>2. RowsOK'
    BY <1>4, <2>1 DEF RegisterRetry, RowsOK, Statuses
  <2>3. CountsOK'
    <3> DEFINE n == retries[s][d] + 1
    <3>1. retries' = [retries EXCEPT ![s][d] = n] /\ usage' = usage
      BY <1>4 DEF RegisterRetry
    <3>2. retries[s][d] \in Nat
      BY <2>1 DEF CountsOK
    <3>3. n \in Nat
      BY <3>2
    <3> HIDE DEF n
    <3>4. [retries EXCEPT ![s][d] = n] \in [Submissions -> [Days -> Nat]]
      BY <2>1, <3>3, CounterUpdate DEF CountsOK
    <3> QED
      BY <3>1, <3>4 DEF CountsOK
  <2>4. RetryOK'
    BY <1>4, <1>a DEF RegisterRetry, RetryOK, RetryType
  <2> QED
    BY <1>4, <2>2, <2>3, <2>4 DEF RegisterRetry, AdmitOK, RunOK
<1>5. CASE EnqueueRetry(q)
  <2>1. RetryOK'
    BY <1>5, <1>b, UpdateRetry DEF EnqueueRetry
  <2>2. RunOK'
    BY <1>5, EnqueueType DEF EnqueueRetry, RetryOK
  <2> QED
    BY <1>5, <2>1, <2>2 DEF EnqueueRetry, RowsOK, CountsOK, AdmitOK
<1> QED
  BY <1>1, <1>2, <1>3, <1>4, <1>5 DEF RetryStep

\* setStatus leaves every row with a status.
LEMMA SetStatusType ==
  ASSUME RowsOK, NEW url, NEW st \in Statuses, SetStatus(url, st)
  PROVE  status' \in [Submissions -> Statuses]
  BY DEF RowsOK, SetStatus

\* A run of the pipeline keeps the types (pipeline.ts:464-548, quota.ts:97-106).
LEMMA WorkerType ==
  ASSUME TypeInv, NEW r \in Runs, WorkerStep(r)
  PROVE  TypeInv'
<1> USE DEF TypeInv, LimitsOK, BatchOK, RetryOK, rowVars, countVars, limitVars
<1> DEFINE job == run[r]
<1>a. job \in RunType
  BY DEF RunOK
<1>b. job.pc # "none" => job.sub \in Submissions /\ job.attempt \in 1..Attempts
                           /\ urlHash[job.sub] \in Urls
  BY OwnersAssumption DEF RunOK
<1>1. CASE StartRun(r)
  <2>1. RowsOK'
    BY <1>1, SetStatusType DEF StartRun, RowsOK, Statuses
  <2>2. RunOK'
    BY <1>1, <1>a, <1>b DEF StartRun, RunOK, RunType
  <2> QED
    BY <1>1, <2>1, <2>2 DEF StartRun, CountsOK, AdmitOK
<1>2. CASE Identify(r)
  <2>1. RowsOK'
    BY <1>2, SetStatusType DEF Identify, RowsOK, Statuses
  <2>2. RunOK'
    BY <1>2, NoJobType, UpdateRun DEF Identify
  <2>3. cached' \in SUBSET Urls
    BY <1>2, <1>b DEF Identify
  <2> QED
    BY <1>2, <2>1, <2>2, <2>3 DEF Identify, CountsOK, AdmitOK
<1>3. CASE FingerprintHit(r)
  <2> DEFINE next == [job EXCEPT !.pc = "refund", !.after = "hit", !.todo = {job.sub}]
  <2>1. RowsOK'
    BY <1>3, SetStatusType DEF FingerprintHit, RowsOK, Statuses
  <2>2. run' = [run EXCEPT ![r] = next] /\ job.pc # "none"
    BY <1>3 DEF FingerprintHit
  <2>3. next \in RunType /\ next.pc = "refund" /\ next.sub = job.sub
          /\ next.attempt = job.attempt
    BY <1>a, <1>b, <2>2 DEF RunType
  <2> HIDE DEF next
  <2>4. RunOK'
    BY <1>b, <2>2, <2>3, UpdateRun
  <2> QED
    BY <1>3, <2>1, <2>4 DEF FingerprintHit, CountsOK, AdmitOK
<1>4. CASE FailContent(r)
  <2>1. RowsOK'
    BY <1>4, SetStatusType DEF FailContent, RowsOK, Statuses, Failures
  <2>2. RunOK'
    BY <1>4, NoJobType, UpdateRun DEF FailContent
  <2> QED
    BY <1>4, <2>1, <2>2 DEF FailContent, CountsOK, AdmitOK
<1>5. ASSUME NEW cause \in {"permanent", "transient"}, FailTechnical(r, cause)
      PROVE  TypeInv'
  <2> DEFINE after == IF cause = "transient" THEN "retry" ELSE "stop"
             next == [job EXCEPT !.pc = "select", !.after = after]
  <2>1. RowsOK'
    BY <1>5, SetStatusType DEF FailTechnical, RowsOK, Statuses, Failures
  <2>2. run' = [run EXCEPT ![r] = next] /\ job.pc # "none"
    BY <1>5 DEF FailTechnical
  <2>a. after \in {"stop", "retry", "hit"}
    OBVIOUS
  <2> HIDE DEF after
  <2>3. next \in RunType /\ next.pc = "select" /\ next.sub = job.sub
          /\ next.attempt = job.attempt
    BY <1>a, <2>a DEF RunType
  <2> HIDE DEF next
  <2>4. RunOK'
    BY <1>b, <2>2, <2>3, UpdateRun
  <2> QED
    BY <1>5, <2>1, <2>4 DEF FailTechnical, CountsOK, AdmitOK
<1>6. CASE SelectMatches(r)
  <2> DEFINE rows == RowsOf(urlHash[job.sub])
             next == [job EXCEPT !.pc = "refund", !.todo = rows]
  <2>1. run' = [run EXCEPT ![r] = next] /\ job.pc # "none"
    BY <1>6 DEF SelectMatches
  <2>2. rows \subseteq Submissions
    BY DEF RowsOf
  <2> HIDE DEF rows
  <2>3. next \in RunType /\ next.pc = "refund" /\ next.sub = job.sub
          /\ next.attempt = job.attempt
    BY <1>a, <2>2 DEF RunType
  <2> HIDE DEF next
  <2>4. RunOK'
    BY <1>b, <2>1, <2>3, UpdateRun
  <2> QED
    BY <1>6, <2>4 DEF SelectMatches, RowsOK, CountsOK, AdmitOK
<1>7. ASSUME NEW s \in Submissions, ReadReservation(r, s) PROVE TypeInv'
  <2>1. ASSUME HoldsReservation(s) PROVE RunOK'
    <3> DEFINE next == [job EXCEPT !.pc = "refunding", !.item = s, !.window = window[s],
                                   !.todo = job.todo \ {s}]
    <3>a. job.pc = "refund"
      BY <1>7 DEF ReadReservation
    <3>1. run' = [run EXCEPT ![r] = next]
      BY <1>7, <2>1 DEF ReadReservation
    <3>2. window[s] \in 0..LastDay /\ window[s] \in Days
      BY <2>1, BoundsAssumption DEF RowsOK, HoldsReservation
    <3>3. next \in RunType
      BY <1>a, <3>2 DEF RunType
    <3>4. next.pc = "refunding" /\ next.sub = job.sub /\ next.attempt = job.attempt
            /\ next.item = s /\ next.window = window[s]
      BY <1>a DEF RunType
    <3>5. next.sub \in Submissions /\ next.attempt \in 1..Attempts
      BY <1>b, <3>a, <3>4
    <3>6. next.item \in Submissions /\ next.window \in Days
      BY <3>2, <3>4
    <3> HIDE DEF next
    <3> QED
      BY <3>1, <3>3, <3>5, <3>6, UpdateRun
  <2>2. ASSUME ~HoldsReservation(s) PROVE RunOK'
    <3> DEFINE next == [job EXCEPT !.todo = job.todo \ {s}]
    <3>1. job.pc = "refund"
      BY <1>7 DEF ReadReservation
    <3>2. run' = [run EXCEPT ![r] = next]
      BY <1>7, <2>2 DEF ReadReservation
    <3>3. next \in RunType /\ next.pc = "refund" /\ next.sub = job.sub
            /\ next.attempt = job.attempt
      BY <1>a, <3>1 DEF RunType
    <3>4. job.sub \in Submissions /\ job.attempt \in 1..Attempts
      BY <1>b, <3>1
    <3>5. next.pc # "none" /\ next.pc # "refunding"
      BY <3>3
    <3> HIDE DEF next
    <3> QED
      BY <3>2, <3>3, <3>4, <3>5, UpdateRun
  <2>3. RunOK'
    BY <2>1, <2>2
  <2> QED
    BY <1>7, <2>3 DEF ReadReservation, RowsOK, CountsOK, AdmitOK
<1>8. CASE Refund(r)
  <2> DEFINE s == job.item
             d == job.window
             next == [job EXCEPT !.pc = "refund", !.item = None, !.window = 0]
  <2>1. s \in Submissions /\ d \in Days /\ userId[s] \in Users
    BY <1>8, OwnersAssumption DEF Refund, RunOK
  <2>2. RowsOK'
    BY <1>8, <2>1 DEF Refund, RowsOK
  <2>3. CountsOK'
    <3> DEFINE n == IF usage[userId[s]][d] = 0 THEN 0 ELSE usage[userId[s]][d] - 1
    <3>1. usage' = [usage EXCEPT ![userId[s]][d] = n] /\ retries' = retries
      BY <1>8 DEF Refund
    <3>2. usage[userId[s]][d] \in Nat
      BY <2>1 DEF CountsOK
    <3>3. n \in Nat
      BY <3>2
    <3> HIDE DEF n
    <3>4. [usage EXCEPT ![userId[s]][d] = n] \in [Users -> [Days -> Nat]]
      BY <2>1, <3>3, CounterUpdate DEF CountsOK
    <3> QED
      BY <3>1, <3>4 DEF CountsOK
  <2>4. run' = [run EXCEPT ![r] = next] /\ job.pc # "none"
    BY <1>8 DEF Refund
  <2>a. 0 \in 0..LastDay
    BY BoundsAssumption
  <2>5. next \in RunType /\ next.pc = "refund" /\ next.sub = job.sub
          /\ next.attempt = job.attempt
    BY <1>a, <2>a DEF RunType
  <2> HIDE DEF next
  <2>6. RunOK'
    BY <1>b, <2>4, <2>5, UpdateRun
  <2> QED
    BY <1>8, <2>2, <2>3, <2>6 DEF Refund, AdmitOK
<1>9. CASE FinishRun(r)
  <2>1. RunOK'
    <3>1. CASE run' = [run EXCEPT ![r] = NoJob]
      BY <3>1, NoJobType, UpdateRun
    <3>2. CASE job.attempt < Attempts
                 /\ run' = [run EXCEPT ![r] = Job("waiting", job.sub, job.attempt + 1)]
      <4>1. job.sub \in Submissions /\ job.attempt + 1 \in 1..Attempts
        BY <1>9, <1>b, <3>2, BoundsAssumption DEF FinishRun
      <4> QED
        BY <3>2, <4>1, RequeueType
    <3> QED
      BY <1>9, <3>1, <3>2, FinishRunJob
  <2>2. cached' \in SUBSET Urls
    BY <1>9, <1>b DEF FinishRun
  <2> QED
    BY <1>9, <2>1, <2>2 DEF FinishRun, RowsOK, CountsOK, AdmitOK
<1> QED
  BY <1>1, <1>2, <1>3, <1>4, <1>5, <1>6, <1>7, <1>8, <1>9 DEF WorkerStep

\* The administrator keeps the types (admin.ts:95-100, 132-145).
LEMMA AdminType ==
  ASSUME TypeInv, AdminStep
  PROVE  TypeInv'
<1> USE DEF TypeInv, BatchOK, RetryOK, rowVars, countVars, limitVars, procVars
<1>1. ASSUME NEW l \in GlobalChoices, UpdateGlobalQuotas(l) PROVE TypeInv'
  BY <1>1, LimitsAssumption
  DEF UpdateGlobalQuotas, RowsOK, CountsOK, LimitsOK, AdmitOK, RunOK
<1>2. ASSUME NEW u \in Users, NEW l \in OverrideChoices, UpdateUserQuotas(u, l) PROVE TypeInv'
  BY <1>2, LimitsAssumption
  DEF UpdateUserQuotas, RowsOK, CountsOK, LimitsOK, AdmitOK, RunOK
<1>3. ASSUME NEW j \in AdminJobs, NEW s \in Submissions, AdminReprocess(j, s) PROVE TypeInv'
  <2>1. RowsOK'
    BY <1>3 DEF AdminReprocess, RowsOK, Statuses
  <2>2. 1 \in 1..Attempts
    BY BoundsAssumption
  <2>3. RunOK'
    <3> DEFINE job == Job("waiting", s, 1)
    <3>1. run' = [run EXCEPT ![j] = job]
      BY <1>3 DEF AdminReprocess
    <3>2. job \in RunType /\ job.pc = "waiting" /\ job.sub = s /\ job.attempt = 1
      BY <2>2, NewJobType
    <3> HIDE DEF job
    <3> QED
      BY <2>2, <3>1, <3>2, UpdateRun
  <2> QED
    BY <1>3, <2>1, <2>3 DEF AdminReprocess, CountsOK, LimitsOK, AdmitOK
<1> QED
  BY <1>1, <1>2, <1>3 DEF AdminStep

\* The calendar and the expiry of the cache keep the types.
LEMMA TimeType ==
  ASSUME TypeInv, NextDay \/ \E url \in Urls : ExpireCache(url)
  PROVE  TypeInv'
  BY BoundsAssumption
  DEF TypeInv, NextDay, ExpireCache, rowVars, countVars, limitVars, procVars, RowsOK, CountsOK,
      LimitsOK, AdmitOK, BatchOK, RetryOK, RunOK

\* Every step keeps the types: one step of the proof per process.
LEMMA NextType == TypeInv /\ [Next]_vars => TypeInv'
<1> SUFFICES ASSUME TypeInv, [Next]_vars PROVE TypeInv'
  OBVIOUS
<1>1. CASE UNCHANGED vars
  BY <1>1 DEF vars, rowVars, countVars, limitVars, procVars, TypeInv, RowsOK, CountsOK,
              LimitsOK, AdmitOK, BatchOK, RetryOK, RunOK
<1> QED
  BY <1>1, SubmitType, AdmitType, PassType, RetryStepType, WorkerType, AdminType, TimeType
  DEF Next

\* Every variable keeps its type, for all users, limits and numbers of processes.
THEOREM TypeCorrect == Spec => []TypeOK
<1>1. Spec => []TypeInv
  BY InitType, NextType, PTL DEF Spec
<1> QED
  BY <1>1, TypeInvImpliesTypeOK, PTL
-----------------------------------------------------------------------------
(***************************************************************************)
(* The caps.  UsageWithinCap is not inductive: Charge increments whatever  *)
(* the counter then is, trusting the value read under the lock.  What      *)
(* makes it safe is that a transaction about to commit has read the value  *)
(* the counter still has, because no two of them hold the same window.     *)
(***************************************************************************)
Committing(p, u, d) ==
    admit[p].pc = "commit" /\ userId[admit[p].sub] = u /\ admit[p].window = d

CounterRead == \A p \in Admitters : admit[p].pc = "commit" =>
                 /\ admit[p].used = usage[userId[admit[p].sub]][admit[p].window]
                 /\ admit[p].limit <= NovelCap
WindowMutex == \A p, q \in Admitters, u \in Users, d \in Days :
                 Committing(p, u, d) /\ Committing(q, u, d) => p = q
CapInv == CounterRead /\ WindowMutex /\ UsageWithinCap

\* A step that reads no counter into a transaction and writes none.
LEMMA QuietStep ==
  ASSUME TypeInv, CapInv, usage' = usage,
         \A p \in Admitters : admit'[p] = admit[p] \/ admit'[p].pc # "commit"
  PROVE  CapInv'
  BY DEF CapInv, CounterRead, WindowMutex, UsageWithinCap, Committing

\* The answer of admitSubmission is no reading of a counter.
LEMMA ReturnIsQuiet ==
  ASSUME AdmitOK, NEW p \in Admitters, NEW ok \in BOOLEAN, Return(p, ok)
  PROVE  \A q \in Admitters : admit'[q] = admit[q] \/ admit'[q].pc # "commit"
<1> DEFINE answer == IF ok THEN "enqueue" ELSE "done"
<1>1. CASE p \in Submissions
  <2>1. admit' = [admit EXCEPT ![p] = Txn(answer, p, 0)]
    BY <1>1 DEF Return
  <2>2. Txn(answer, p, 0).pc # "commit"
    BY DEF Txn
  <2> QED
    BY <2>1, <2>2 DEF AdmitOK
<1>2. CASE p \notin Submissions
  BY <1>2 DEF Return, AdmitOK, Idle, Txn
<1> QED
  BY <1>1, <1>2

\* A caller that takes the window lock reads the counter as it is, and no other
\* holds the lock.
LEMMA LockWindowCap ==
  ASSUME TypeInv, CapInv, NEW p \in Admitters, LockWindow(p)
  PROVE  CapInv'
<1> DEFINE u == userId[admit[p].sub]
           d == admit[p].window
           txn == [admit[p] EXCEPT !.pc = "commit", !.limit = NovelLimit(u),
                                   !.used = usage[u][d]]
<1>1. admit' = [admit EXCEPT ![p] = txn] /\ usage' = usage
  BY DEF LockWindow, countVars
<1>2. u \in Users /\ d \in Days /\ admit[p] \in TxnType
  BY OwnersAssumption DEF LockWindow, TypeInv, AdmitOK
<1>3. txn.pc = "commit" /\ txn.sub = admit[p].sub /\ txn.window = d
        /\ txn.limit = NovelLimit(u) /\ txn.used = usage[u][d]
  BY <1>2 DEF TxnType
<1>4. NovelLimit(u) <= NovelCap
  BY <1>2, EffectiveLimits, LimitsAssumption DEF TypeInv
<1>5. \A q \in Admitters : ~Committing(q, u, d)
  BY DEF LockWindow, WindowLocked, Committing
<1> HIDE DEF txn
<1>6. admit'[p] = txn /\ \A q \in Admitters : q # p => admit'[q] = admit[q]
  BY <1>1 DEF TypeInv, AdmitOK
<1>7. CounterRead'
  BY <1>1, <1>3, <1>4, <1>6 DEF CapInv, CounterRead
<1>8. WindowMutex'
  BY <1>3, <1>5, <1>6 DEF CapInv, WindowMutex, Committing
<1> QED
  BY <1>1, <1>7, <1>8 DEF CapInv, UsageWithinCap

\* The holder of the lock adds one to a counter below its limit; the others that
\* have read a counter have read another one.
LEMMA ChargeCap ==
  ASSUME TypeInv, CapInv, NEW p \in Admitters, Charge(p)
  PROVE  CapInv'
<1> DEFINE u == userId[admit[p].sub]
           d == admit[p].window
           n == usage[u][d] + 1
<1>1. u \in Users /\ d \in Days
  BY OwnersAssumption DEF Charge, TypeInv, AdmitOK
<1>2. usage[u][d] \in Nat /\ admit[p].limit \in Nat
  BY <1>1 DEF TypeInv, CountsOK, AdmitOK, TxnType
<1>3. n \in Nat /\ n <= NovelCap
  BY <1>2, LimitsAssumption DEF Charge, CapInv, CounterRead
<1>4. usage' = [usage EXCEPT ![u][d] = n]
  BY DEF Charge
<1>5. Committing(p, u, d)
  BY DEF Charge, Committing
<1>6. \A q \in Admitters : q # p => ~Committing(q, u, d)
  BY <1>1, <1>5 DEF CapInv, WindowMutex
<1>7. \A q \in Admitters : q # p => admit'[q] = admit[q]
  BY DEF Charge, Return, TypeInv, AdmitOK
<1>8. admit'[p].pc # "commit"
  <2>1. Return(p, TRUE)
    BY DEF Charge
  <2>2. CASE p \in Submissions
    BY <2>1, <2>2 DEF Return, TypeInv, AdmitOK, Txn
  <2>3. CASE p \notin Submissions
    BY <2>1, <2>3 DEF Return, TypeInv, AdmitOK, Idle, Txn
  <2> QED
    BY <2>2, <2>3
<1> HIDE DEF n
<1>9. \A v \in Users, e \in Days :
        usage'[v][e] = IF v = u /\ e = d THEN n ELSE usage[v][e]
  <2>1. usage \in [Users -> [Days -> Nat]]
    BY DEF TypeInv, CountsOK
  <2>2. \A v \in Users, e \in Days :
          [usage EXCEPT ![u][d] = n][v][e] = IF v = u /\ e = d THEN n ELSE usage[v][e]
    BY <1>1, <1>3, <2>1, CounterUpdate
  <2> QED
    BY <1>4, <2>2
<1>10. CounterRead'
  <2> SUFFICES ASSUME NEW q \in Admitters, admit'[q].pc = "commit"
               PROVE  /\ admit'[q].used = usage'[userId[admit'[q].sub]][admit'[q].window]
                      /\ admit'[q].limit <= NovelCap
    BY DEF CounterRead
  <2>1. q # p /\ admit'[q] = admit[q]
    BY <1>7, <1>8
  <2>2. userId[admit[q].sub] \in Users /\ admit[q].window \in Days
    BY <2>1, OwnersAssumption DEF TypeInv, AdmitOK
  <2>3. ~(userId[admit[q].sub] = u /\ admit[q].window = d)
    BY <1>6, <2>1 DEF Committing
  <2> QED
    BY <1>9, <2>1, <2>2, <2>3 DEF CapInv, CounterRead
<1>11. WindowMutex'
  BY <1>7, <1>8 DEF CapInv, WindowMutex, Committing
<1>12. UsageWithinCap'
  BY <1>3, <1>9 DEF CapInv, UsageWithinCap
<1> QED
  BY <1>10, <1>11, <1>12 DEF CapInv

\* A refund lowers a counter nobody has read under the lock.
LEMMA RefundCap ==
  ASSUME TypeInv, CapInv, NEW r \in Runs, Refund(r)
  PROVE  CapInv'
<1> DEFINE u == userId[run[r].item]
           d == run[r].window
           n == IF usage[u][d] = 0 THEN 0 ELSE usage[u][d] - 1
<1>1. u \in Users /\ d \in Days
  BY OwnersAssumption DEF Refund, TypeInv, RunOK
<1>2. usage[u][d] \in Nat /\ usage[u][d] <= NovelCap
  BY <1>1 DEF TypeInv, CountsOK, CapInv, UsageWithinCap
<1>3. n \in Nat /\ n <= NovelCap
  BY <1>2, LimitsAssumption
<1>4. usage' = [usage EXCEPT ![u][d] = n] /\ admit' = admit
  BY DEF Refund
<1>5. \A q \in Admitters : ~Committing(q, u, d)
  BY DEF Refund, WindowLocked, Committing
<1> HIDE DEF n
<1>6. \A v \in Users, e \in Days :
        usage'[v][e] = IF v = u /\ e = d THEN n ELSE usage[v][e]
  <2>1. usage \in [Users -> [Days -> Nat]]
    BY DEF TypeInv, CountsOK
  <2>2. \A v \in Users, e \in Days :
          [usage EXCEPT ![u][d] = n][v][e] = IF v = u /\ e = d THEN n ELSE usage[v][e]
    BY <1>1, <1>3, <2>1, CounterUpdate
  <2> QED
    BY <1>4, <2>2
<1>7. CounterRead'
  <2> SUFFICES ASSUME NEW q \in Admitters, admit[q].pc = "commit"
               PROVE  /\ admit[q].used = usage'[userId[admit[q].sub]][admit[q].window]
                      /\ admit[q].limit <= NovelCap
    BY <1>4 DEF CounterRead
  <2>1. userId[admit[q].sub] \in Users /\ admit[q].window \in Days
    BY OwnersAssumption DEF TypeInv, AdmitOK
  <2>2. ~(userId[admit[q].sub] = u /\ admit[q].window = d)
    BY <1>5 DEF Committing
  <2> QED
    BY <1>6, <2>1, <2>2 DEF CapInv, CounterRead
<1>8. WindowMutex'
  BY <1>4 DEF CapInv, WindowMutex, Committing
<1>9. UsageWithinCap'
  BY <1>3, <1>6 DEF CapInv, UsageWithinCap
<1> QED
  BY <1>7, <1>8, <1>9 DEF CapInv

\* No counter is above its limit at first.
LEMMA InitCap == Init => CapInv
  BY LimitsAssumption, ProcessesAssumption
  DEF Init, CapInv, CounterRead, WindowMutex, Committing, UsageWithinCap, Idle, Txn

\* Every step keeps the counters within the limit.
LEMMA NextCap == TypeInv /\ CapInv /\ [Next]_vars => CapInv'
<1> SUFFICES ASSUME TypeInv, CapInv, [Next]_vars PROVE CapInv'
  OBVIOUS
<1> USE DEF countVars, procVars
<1>1. ASSUME NEW s \in Submissions, SubmitStep(s) PROVE CapInv'
  <2>1. usage' = usage
    BY <1>1 DEF SubmitStep, StampRow, InsertRow, ApplyUrlCache, EnqueueAdmitted
  <2>2. PICK pc \in {"insert", "lookup", "start", "done"} :
          admit' = [admit EXCEPT ![s].pc = pc]
    BY <1>1 DEF SubmitStep, StampRow, InsertRow, ApplyUrlCache, EnqueueAdmitted
  <2> QED
    BY <2>1, <2>2, QuietStep DEF TypeInv, AdmitOK, TxnType
<1>2. ASSUME NEW p \in Admitters, AdmitStep(p) PROVE CapInv'
  <2>1. CASE ReadSubmission(p)
    <3>1. CASE Return(p, FALSE)
      BY <2>1, <3>1, ReturnIsQuiet, QuietStep DEF ReadSubmission, TypeInv
    <3>2. CASE admit' = [admit EXCEPT ![p].pc = "url"]
      BY <2>1, <3>2, QuietStep DEF ReadSubmission, TypeInv, AdmitOK, TxnType
    <3> QED
      BY <2>1, <3>1, <3>2 DEF ReadSubmission
  <2>2. CASE LockUrl(p)
    <3> DEFINE txn == [admit[p] EXCEPT !.pc = "window", !.window = day]
    <3>1. txn.pc = "window"
      BY DEF TypeInv, AdmitOK, TxnType
    <3>2. admit' = [admit EXCEPT ![p] = txn] \/ admit' = [admit EXCEPT ![p].pc = "free"]
      BY <2>2 DEF LockUrl
    <3> HIDE DEF txn
    <3> QED
      BY <2>2, <3>1, <3>2, QuietStep DEF LockUrl, TypeInv, AdmitOK, TxnType
  <2>3. CASE AdmitFree(p)
    BY <2>3, ReturnIsQuiet, QuietStep DEF AdmitFree, TypeInv
  <2>4. CASE Defer(p)
    BY <2>4, ReturnIsQuiet, QuietStep DEF Defer, TypeInv
  <2> QED
    BY <1>2, <2>1, <2>2, <2>3, <2>4, LockWindowCap, ChargeCap DEF AdmitStep
<1>3. ASSUME NEW r \in Reconcilers, PassStep(r) PROVE CapInv'
  <2>1. usage' = usage
    BY <1>3 DEF PassStep, StartPass, AdmitNext, EnqueueNext
  <2>2. admit' = admit \/ \E s : admit' = [admit EXCEPT ![r] = Txn("start", s, 0)]
    BY <1>3 DEF PassStep, StartPass, AdmitNext, EnqueueNext
  <2>3. \A s : Txn("start", s, 0).pc # "commit"
    BY DEF Txn
  <2> QED
    BY <2>1, <2>2, <2>3, QuietStep DEF TypeInv, AdmitOK
<1>4. ASSUME NEW r \in Runs, WorkerStep(r) PROVE CapInv'
  <2>1. CASE Refund(r)
    BY <2>1, RefundCap
  <2>2. CASE ~Refund(r)
    <3>1. usage' = usage /\ admit' = admit
      BY <1>4, <2>2 DEF WorkerStep, StartRun, Identify, FingerprintHit, FailContent,
                        FailTechnical, SelectMatches, ReadReservation, FinishRun
    <3> QED
      BY <3>1, QuietStep
  <2> QED
    BY <2>1, <2>2
<1>5. ASSUME usage' = usage, admit' = admit PROVE CapInv'
  BY <1>5, QuietStep
<1>6. ASSUME NEW q \in Retriers, RetryStep(q) \/ \E s \in Submissions : ReadFailed(q, s)
      PROVE  CapInv'
  BY <1>5, <1>6 DEF RetryStep, LockRetry, RetryLimitExceeded, RegisterRetry, EnqueueRetry,
                    ReadFailed
<1>7. CASE AdminStep \/ NextDay \/ \E url \in Urls : ExpireCache(url)
  BY <1>5, <1>7 DEF AdminStep, UpdateGlobalQuotas, UpdateUserQuotas, AdminReprocess, NextDay,
                    ExpireCache
<1>8. CASE UNCHANGED vars
  BY <1>5, <1>8 DEF vars
<1> QED
  BY <1>1, <1>2, <1>3, <1>4, <1>6, <1>7, <1>8 DEF Next

\* No interleaving of handlers, reconcilers, refunds and changes of the limits
\* lets a user's counter pass the largest limit: the advisory lock is enough.
THEOREM CapRespected == Spec => []UsageWithinCap
<1>1. TypeInv /\ CapInv /\ [Next]_vars => (TypeInv /\ CapInv)'
  BY NextType, NextCap
<1>2. Spec => [](TypeInv /\ CapInv)
  BY InitType, InitCap, <1>1, PTL DEF Spec
<1>3. TypeInv /\ CapInv => UsageWithinCap
  BY DEF CapInv
<1> QED
  BY <1>2, <1>3, PTL
-----------------------------------------------------------------------------
(* The retry counters, along the same argument.                            *)

Retrying(q, s, d) == retry[q].pc = "commit" /\ retry[q].sub = s /\ retry[q].window = d

RetryCounterRead == \A q \in Retriers : retry[q].pc = "commit" =>
                      /\ retry[q].used = retries[retry[q].sub][retry[q].window]
                      /\ retry[q].limit <= RetryCap
RetryMutex == \A p, q \in Retriers, s \in Submissions, d \in Days :
                Retrying(p, s, d) /\ Retrying(q, s, d) => p = q
RetryInv == RetryCounterRead /\ RetryMutex /\ RetriesWithinCap

\* A step that takes no retry lock and writes no retry counter.
LEMMA QuietRetryStep ==
  ASSUME TypeInv, RetryInv, retries' = retries,
         \A q \in Retriers : retry'[q] = retry[q] \/ retry'[q].pc # "commit"
  PROVE  RetryInv'
  BY DEF RetryInv, RetryCounterRead, RetryMutex, RetriesWithinCap, Retrying

\* A caller that takes the retry lock reads the counter as it is, alone.
LEMMA LockRetryCap ==
  ASSUME TypeInv, RetryInv, NEW q \in Retriers, LockRetry(q)
  PROVE  RetryInv'
<1> DEFINE s == retry[q].sub
           d == retry[q].window
           txn == [retry[q] EXCEPT !.pc = "commit", !.limit = RetryLimit(userId[s]),
                                   !.used = retries[s][d]]
<1>1. retry' = [retry EXCEPT ![q] = txn] /\ retries' = retries
  BY DEF LockRetry, countVars
<1>2. s \in Submissions /\ d \in Days /\ retry[q] \in RetryType
  BY DEF LockRetry, TypeInv, RetryOK
<1>3. txn.pc = "commit" /\ txn.sub = s /\ txn.window = d
        /\ txn.limit = RetryLimit(userId[s]) /\ txn.used = retries[s][d]
  BY <1>2 DEF RetryType
<1>4. RetryLimit(userId[s]) <= RetryCap
  BY <1>2, OwnersAssumption, EffectiveLimits, LimitsAssumption DEF TypeInv
<1>5. \A p \in Retriers : ~Retrying(p, s, d)
  BY DEF LockRetry, RetryLocked, Retrying
<1> HIDE DEF txn
<1>6. retry'[q] = txn /\ \A p \in Retriers : p # q => retry'[p] = retry[p]
  BY <1>1 DEF TypeInv, RetryOK
<1>7. RetryCounterRead'
  BY <1>1, <1>3, <1>4, <1>6 DEF RetryInv, RetryCounterRead
<1>8. RetryMutex'
  BY <1>3, <1>5, <1>6 DEF RetryInv, RetryMutex, Retrying
<1> QED
  BY <1>1, <1>7, <1>8 DEF RetryInv, RetriesWithinCap

\* The holder of the retry lock adds one to a counter below its limit.
LEMMA RegisterRetryCap ==
  ASSUME TypeInv, RetryInv, NEW q \in Retriers, RegisterRetry(q)
  PROVE  RetryInv'
<1> DEFINE s == retry[q].sub
           d == retry[q].window
           n == retries[s][d] + 1
<1>1. s \in Submissions /\ d \in Days
  BY DEF RegisterRetry, TypeInv, RetryOK
<1>2. retries[s][d] \in Nat /\ retry[q].limit \in Nat
  BY <1>1 DEF TypeInv, CountsOK, RetryOK, RetryType
<1>3. n \in Nat /\ n <= RetryCap
  BY <1>2, LimitsAssumption DEF RegisterRetry, RetryInv, RetryCounterRead
<1>4. retries' = [retries EXCEPT ![s][d] = n]
  BY DEF RegisterRetry
<1>5. \A p \in Retriers : p # q => ~Retrying(p, s, d)
  BY <1>1 DEF RegisterRetry, RetryInv, RetryMutex, Retrying
<1>6. /\ retry'[q].pc # "commit"
      /\ \A p \in Retriers : p # q => retry'[p] = retry[p]
  BY DEF RegisterRetry, TypeInv, RetryOK, RetryType
<1> HIDE DEF n
<1>7. \A t \in Submissions, e \in Days :
        retries'[t][e] = IF t = s /\ e = d THEN n ELSE retries[t][e]
  <2>1. retries \in [Submissions -> [Days -> Nat]]
    BY DEF TypeInv, CountsOK
  <2>2. \A t \in Submissions, e \in Days :
          [retries EXCEPT ![s][d] = n][t][e] = IF t = s /\ e = d THEN n ELSE retries[t][e]
    BY <1>1, <1>3, <2>1, CounterUpdate
  <2> QED
    BY <1>4, <2>2
<1>8. RetryCounterRead'
  <2> SUFFICES ASSUME NEW p \in Retriers, retry'[p].pc = "commit"
               PROVE  /\ retry'[p].used = retries'[retry'[p].sub][retry'[p].window]
                      /\ retry'[p].limit <= RetryCap
    BY DEF RetryCounterRead
  <2>1. p # q /\ retry'[p] = retry[p]
    BY <1>6
  <2>2. retry[p].sub \in Submissions /\ retry[p].window \in Days
    BY <2>1 DEF TypeInv, RetryOK
  <2>3. ~(retry[p].sub = s /\ retry[p].window = d)
    BY <1>5, <2>1 DEF Retrying
  <2> QED
    BY <1>7, <2>1, <2>2, <2>3 DEF RetryInv, RetryCounterRead
<1>9. RetryMutex'
  BY <1>6 DEF RetryInv, RetryMutex, Retrying
<1>10. RetriesWithinCap'
  BY <1>3, <1>7 DEF RetryInv, RetriesWithinCap
<1> QED
  BY <1>8, <1>9, <1>10 DEF RetryInv

\* Every step keeps the retry counters within the limit.
LEMMA NextRetry == TypeInv /\ RetryInv /\ [Next]_vars => RetryInv'
<1> SUFFICES ASSUME TypeInv, RetryInv, [Next]_vars PROVE RetryInv'
  OBVIOUS
<1> USE DEF countVars, procVars
<1>1. ASSUME NEW q \in Retriers, RetryStep(q) \/ \E s \in Submissions : ReadFailed(q, s)
      PROVE  RetryInv'
  <2>1. ASSUME NEW s \in Submissions, ReadFailed(q, s) PROVE RetryInv'
    <3>1. Txn("lock", s, day).pc # "commit"
      BY DEF Txn
    <3> QED
      BY <2>1, <3>1, QuietRetryStep DEF ReadFailed, TypeInv, RetryOK
  <2>2. CASE RetryLimitExceeded(q) \/ EnqueueRetry(q)
    BY <2>2, QuietRetryStep DEF RetryLimitExceeded, EnqueueRetry, TypeInv, RetryOK, Idle, Txn
  <2> QED
    BY <1>1, <2>1, <2>2, LockRetryCap, RegisterRetryCap DEF RetryStep
<1>2. ASSUME retries' = retries, retry' = retry PROVE RetryInv'
  BY <1>2, QuietRetryStep
<1>3. ASSUME NEW s \in Submissions, SubmitStep(s) PROVE RetryInv'
  BY <1>2, <1>3 DEF SubmitStep, StampRow, InsertRow, ApplyUrlCache, EnqueueAdmitted
<1>4. ASSUME NEW p \in Admitters, AdmitStep(p) PROVE RetryInv'
  BY <1>2, <1>4 DEF AdmitStep, ReadSubmission, LockUrl, AdmitFree, LockWindow, Defer, Charge
<1>5. ASSUME NEW r \in Reconcilers, PassStep(r) PROVE RetryInv'
  BY <1>2, <1>5 DEF PassStep, StartPass, AdmitNext, EnqueueNext
<1>6. ASSUME NEW r \in Runs, WorkerStep(r) PROVE RetryInv'
  BY <1>2, <1>6 DEF WorkerStep, StartRun, Identify, FingerprintHit, FailContent,
                    FailTechnical, SelectMatches, ReadReservation, Refund, FinishRun
<1>7. CASE AdminStep \/ NextDay \/ \E url \in Urls : ExpireCache(url)
  BY <1>2, <1>7 DEF AdminStep, UpdateGlobalQuotas, UpdateUserQuotas, AdminReprocess, NextDay,
                    ExpireCache
<1>8. CASE UNCHANGED vars
  BY <1>2, <1>8 DEF vars
<1> QED
  BY <1>1, <1>3, <1>4, <1>5, <1>6, <1>7, <1>8 DEF Next

\* However many reprocess requests race for a URL, its retries of a day stay within
\* the largest retry limit.
THEOREM RetriesRespected == Spec => []RetriesWithinCap
<1>1. Init => RetryInv
  BY LimitsAssumption
  DEF Init, RetryInv, RetryCounterRead, RetryMutex, Retrying, RetriesWithinCap, Idle, Txn
<1>2. TypeInv /\ RetryInv /\ [Next]_vars => (TypeInv /\ RetryInv)'
  BY NextType, NextRetry
<1>3. Spec => [](TypeInv /\ RetryInv)
  BY InitType, <1>1, <1>2, PTL DEF Spec
<1>4. TypeInv /\ RetryInv => RetriesWithinCap
  BY DEF RetryInv
<1> QED
  BY <1>3, <1>4, PTL

===========================================================================
