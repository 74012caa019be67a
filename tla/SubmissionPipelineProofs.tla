----------------------- MODULE SubmissionPipelineProofs -----------------------
(***************************************************************************)
(* Proofs about SubmissionPipeline for every set of users, URLs, rows,     *)
(* handlers, administrators' jobs and interruptions.                       *)
(***************************************************************************)
EXTENDS SubmissionPipeline, TLAPS

(* The type invariant: the types, and what each process knows.             *)
NoRun == {"none", "used"}
CreateType == [pc : {"idle", "lookup", "hit", "admit", "admitting", "enqueue", "done"},
               hit : CacheEntries \cup {None}]
ReconcilerType == [pc : {"idle", "admit", "admitting", "enqueue"}, sub : Submissions \cup {None}]
ResolverType == [pc : {"idle", "commit"}, sub : Submissions \cup {None}]
RetrierType == [pc : {"idle", "commit", "enqueue", "done"}, sub : Submissions \cup {None}]

TablesOK ==
    /\ row \in [Submissions -> Rows]
    /\ entries \subseteq Users \X Works
    /\ cache \in [Urls -> CacheEntries \cup {None}]
HistoryOK == faults \in 0..MaxFaults /\ lost \subseteq Submissions

\* What a run carries from one statement to the next.
JobKnows(j) ==
    /\ j.pc \notin NoRun => j.sub \in Submissions /\ j.attempt \in 1..Attempts
    /\ j.pc \in {"hitRows", "hitCache"} => j.work \in Works /\ j.from \in Urls
    /\ j.pc \in {"source", "settle", "fanOut"} => j.result = "identified"
    /\ j.pc = "confirm" => j.result = "needs_confirmation"
    /\ j.pc = "fanOut" => j.work \in Works
    /\ j.pc = "cacheResult" => j.result \in {"identified", "needs_confirmation"}
JobOK ==
    /\ job \in [Runs -> Jobs]
    /\ \A r \in Runs : JobKnows(job[r])
    /\ \A url \in Urls : /\ job[url].pc # "used"
                         /\ job[url].pc # "none" => urlHash[job[url].sub] = url

HandlersOK ==
    /\ create \in [Submissions -> CreateType]
    /\ \A s \in Submissions : create[s].pc = "hit" => create[s].hit \in CacheEntries
    /\ reconciler \in ReconcilerType
    /\ reconciler.pc # "idle" => reconciler.sub \in Submissions
    /\ reconciler.pc = "idle" => reconciler.sub = None
    /\ resolver \in [Resolvers -> ResolverType]
    /\ \A m \in Resolvers : resolver[m].pc # "idle" => resolver[m].sub \in Submissions
    /\ retrier \in [Retriers -> RetrierType]
    /\ \A q \in Retriers : retrier[q].pc # "idle" => retrier[q].sub \in Submissions

TypeInv == TablesOK /\ HistoryOK /\ JobOK /\ HandlersOK

\* TypeInv is TypeOK and what a process knows of the row it works on.
LEMMA TypeInvImpliesTypeOK == TypeInv => TypeOK
  BY DEF TypeInv, TypeOK, TablesOK, HistoryOK, JobOK, HandlersOK, CreateType, ReconcilerType,
         ResolverType, RetrierType

\* The initial state is well formed.
LEMMA InitType == Init => TypeInv
  BY ConstantsAssumption
  DEF Init, TypeInv, TablesOK, HistoryOK, JobOK, JobKnows, HandlersOK, CreateType,
      ReconcilerType, ResolverType, RetrierType, Rows, Works, CacheEntries, Jobs, NoJob, NoRun,
      Pending, Active, Stages, Runs

-----------------------------------------------------------------------------
(* Updates                                                                 *)

\* A job's record replaced by one that knows what its stage needs.
LEMMA UpdateJob ==
  ASSUME JobOK, NEW r \in Runs, NEW j \in Jobs, JobKnows(j),
         r \in Urls => j.pc # "used" /\ (j.pc # "none" => urlHash[j.sub] = r),
         job' = [job EXCEPT ![r] = j]
  PROVE  JobOK'
  BY DEF JobOK, JobKnows, Runs

\* Writing all rows of a URL.
LEMMA UpdateRowsType ==
  ASSUME row \in [Submissions -> Rows], NEW url, NEW F(_),
         \A x \in Rows : F(x) \in Rows,
         UpdateRows(url, F)
  PROVE  row' \in [Submissions -> Rows]
  BY DEF UpdateRows

\* A new job.
LEMMA NewJobType ==
  ASSUME NEW s \in Submissions
  PROVE  /\ NewJob(s) \in Jobs /\ JobKnows(NewJob(s))
         /\ NewJob(s).pc = "waiting" /\ NewJob(s).sub = s /\ NewJob(s).attempt = 1
<1>1. NoJob \in Jobs
  BY ConstantsAssumption DEF NoJob, Jobs
<1>2. 1 \in 0..Attempts /\ 1 \in 1..Attempts
  BY ConstantsAssumption
<1>3. NewJob(s) \in Jobs /\ NewJob(s).pc = "waiting" /\ NewJob(s).sub = s /\ NewJob(s).attempt = 1
  BY <1>1, <1>2 DEF NewJob, Jobs, Pending
<1> QED
  BY <1>2, <1>3 DEF JobKnows, NoRun

\* enqueue.
LEMMA EnqueueType ==
  ASSUME JobOK, HistoryOK, NEW s \in Submissions, Enqueue(s)
  PROVE  JobOK' /\ lost' \subseteq Submissions
<1>1. urlHash[s] \in Urls /\ urlHash[s] \in Runs
  BY ConstantsAssumption DEF Runs
<1>2. NewJob(s) \in Jobs /\ JobKnows(NewJob(s)) /\ NewJob(s).pc = "waiting" /\ NewJob(s).sub = s
  BY NewJobType
<1>3. lost' \subseteq Submissions
  BY DEF Enqueue, HistoryOK
<1>4. CASE job[urlHash[s]].pc = "none"
  <2>1. job' = [job EXCEPT ![urlHash[s]] = NewJob(s)]
    BY <1>4 DEF Enqueue
  <2> QED
    BY <1>1, <1>2, <1>3, <2>1, UpdateJob
<1>5. CASE job[urlHash[s]].pc # "none"
  BY <1>3, <1>5 DEF Enqueue, JobOK
<1> QED
  BY <1>4, <1>5

\* A handler's record replaced.
LEMMA UpdateCreate ==
  ASSUME HandlersOK, NEW s \in Submissions, NEW c \in CreateType,
         c.pc = "hit" => c.hit \in CacheEntries,
         create' = [create EXCEPT ![s] = c], UNCHANGED <<reconciler, resolver, retrier>>
  PROVE  HandlersOK'
  BY DEF HandlersOK

LEMMA UpdateReconciler ==
  ASSUME HandlersOK, NEW c \in ReconcilerType,
         c.pc # "idle" => c.sub \in Submissions, c.pc = "idle" => c.sub = None,
         reconciler' = c, UNCHANGED <<create, resolver, retrier>>
  PROVE  HandlersOK'
  BY DEF HandlersOK

LEMMA UpdateRetrier ==
  ASSUME HandlersOK, NEW q \in Retriers, NEW c \in RetrierType,
         c.pc # "idle" => c.sub \in Submissions,
         retrier' = [retrier EXCEPT ![q] = c], UNCHANGED <<create, reconciler, resolver>>
  PROVE  HandlersOK'
  BY DEF HandlersOK

LEMMA UpdateResolver ==
  ASSUME HandlersOK, NEW m \in Resolvers, NEW c \in ResolverType,
         c.pc # "idle" => c.sub \in Submissions,
         resolver' = [resolver EXCEPT ![m] = c], UNCHANGED <<create, reconciler, retrier>>
  PROVE  HandlersOK'
  BY DEF HandlersOK

\* The bound on interruptions.
LEMMA FaultType ==
  ASSUME HistoryOK, Fault
  PROVE  faults' \in 0..MaxFaults
  BY ConstantsAssumption DEF HistoryOK, Fault

\* A row replaced.
LEMMA UpdateRow ==
  ASSUME row \in [Submissions -> Rows], NEW s \in Submissions, NEW x \in Rows,
         row' = [row EXCEPT ![s] = x]
  PROVE  row' \in [Submissions -> Rows]
  OBVIOUS

\* A cached entry's expiry renewed.
LEMMA RenewedType ==
  ASSUME cache \in [Urls -> CacheEntries \cup {None}], NEW url \in Urls, NEW e \in CacheEntries,
         NEW c \in Renewed(cache, url, e)
  PROVE  c \in [Urls -> CacheEntries \cup {None}]
  BY DEF Renewed

-----------------------------------------------------------------------------
(* Every step keeps the types.                                             *)

\* createSubmission.
LEMMA CreateStepType ==
  ASSUME TypeInv, NEW s \in Submissions, InsertRow(s) \/ CreateStep(s) \/ CutCreate(s)
  PROVE  TypeInv'
<1> USE DEF TypeInv
<1>0. /\ create[s] \in CreateType /\ row[s] \in Rows
      /\ userId[s] \in Users /\ urlHash[s] \in Urls
      /\ cache[urlHash[s]] \in CacheEntries \cup {None}
  <2>1. userId[s] \in Users /\ urlHash[s] \in Urls
    BY ConstantsAssumption
  <2> QED
    BY <2>1 DEF HandlersOK, TablesOK
<1>1. CASE InsertRow(s)
  <2>1. [create[s] EXCEPT !.pc = "lookup"] \in CreateType
    BY <1>0 DEF CreateType
  <2>2. HandlersOK'
    BY <1>0, <1>1, <2>1, UpdateCreate DEF InsertRow, CreateType
  <2>3. row' \in [Submissions -> Rows]
    BY <1>0, <1>1 DEF InsertRow, TablesOK, Rows
  <2> QED
    BY <1>1, <2>2, <2>3 DEF InsertRow, TablesOK, HistoryOK, JobOK
<1>2. CASE LookupUrlCache(s)
  <2> DEFINE c == IF cache[urlHash[s]] # None
                  THEN [pc |-> "hit", hit |-> cache[urlHash[s]]]
                  ELSE [pc |-> "admit", hit |-> None]
  <2>1. c \in CreateType /\ (c.pc = "hit" => c.hit \in CacheEntries)
    BY <1>0 DEF CreateType
  <2>2. create' = [create EXCEPT ![s] = c]
    BY <1>2 DEF LookupUrlCache
  <2> HIDE DEF c
  <2>3. HandlersOK'
    BY <1>2, <2>1, <2>2, UpdateCreate DEF LookupUrlCache
  <2> QED
    BY <1>2, <2>3 DEF LookupUrlCache, TablesOK, HistoryOK, JobOK
<1>3. CASE ApplyUrlCache(s)
  <2> DEFINE c == [pc |-> "done", hit |-> None]
             hit == create[s].hit
             x == [row[s] EXCEPT !.status = hit.status, !.work = hit.work, !.fp = hit.fp]
  <2>1. hit \in CacheEntries
    BY <1>3 DEF ApplyUrlCache, HandlersOK
  <2>2. c \in CreateType /\ c.pc # "hit"
    BY DEF CreateType
  <2>3. HandlersOK'
    BY <1>3, <2>2, UpdateCreate DEF ApplyUrlCache
  <2>4. x \in Rows
    BY <1>0, <2>1 DEF Rows, CacheEntries
  <2>5. row' \in [Submissions -> Rows]
    BY <1>3, <2>4 DEF ApplyUrlCache, TablesOK
  <2>6. cache' \in [Urls -> CacheEntries \cup {None}]
    BY <1>0, <1>3, <2>1, RenewedType DEF ApplyUrlCache, TablesOK
  <2>7. entries' \subseteq Users \X Works
    <3>1. hit.work # None => hit.work \in Works
      BY <2>1 DEF CacheEntries
    <3> QED
      BY <1>0, <1>3, <3>1 DEF ApplyUrlCache, TablesOK
  <2> QED
    BY <1>3, <2>3, <2>5, <2>6, <2>7 DEF ApplyUrlCache, TablesOK, HistoryOK, JobOK
<1>4. CASE ReadStatus(s)
  <2> DEFINE p == IF Status(s) \in {"queued", "waiting_for_quota"} THEN "admitting" ELSE "done"
             c == [create[s] EXCEPT !.pc = p]
  <2>1. c \in CreateType /\ c.pc # "hit"
    BY <1>0 DEF CreateType
  <2>2. create' = [create EXCEPT ![s] = c]
    BY <1>4 DEF ReadStatus
  <2> HIDE DEF c
  <2>3. HandlersOK'
    BY <1>4, <2>1, <2>2, UpdateCreate DEF ReadStatus
  <2> QED
    BY <1>4, <2>3 DEF ReadStatus, TablesOK, HistoryOK, JobOK
<1>5. CASE Admit(s)
  <2>1. PICK p \in {"enqueue", "done"}, st \in {"queued", "waiting_for_quota"} :
           row' = [row EXCEPT ![s].status = st] /\ create' = [create EXCEPT ![s].pc = p]
    BY <1>5 DEF Admit
  <2> DEFINE c == [create[s] EXCEPT !.pc = p]
             x == [row[s] EXCEPT !.status = st]
  <2>2. c \in CreateType /\ c.pc # "hit"
    BY <1>0 DEF CreateType
  <2>3. x \in Rows
    BY <1>0 DEF Rows
  <2>4. create' = [create EXCEPT ![s] = c] /\ row' = [row EXCEPT ![s] = x]
    BY <2>1
  <2> HIDE DEF c, x
  <2>5. HandlersOK'
    BY <1>5, <2>2, <2>4, UpdateCreate DEF Admit
  <2>6. row' \in [Submissions -> Rows]
    BY <2>3, <2>4 DEF TablesOK
  <2> QED
    BY <1>5, <2>5, <2>6 DEF Admit, TablesOK, HistoryOK, JobOK
<1>6. CASE EnqueueCreated(s)
  <2> DEFINE c == [create[s] EXCEPT !.pc = "done"]
  <2>1. c \in CreateType /\ c.pc # "hit"
    BY <1>0 DEF CreateType
  <2>2. create' = [create EXCEPT ![s] = c]
    BY <1>6 DEF EnqueueCreated
  <2> HIDE DEF c
  <2>3. HandlersOK'
    BY <1>6, <2>1, <2>2, UpdateCreate DEF EnqueueCreated
  <2>4. JobOK' /\ lost' \subseteq Submissions
    BY <1>6, EnqueueType DEF EnqueueCreated
  <2> QED
    BY <1>6, <2>3, <2>4 DEF EnqueueCreated, TablesOK, HistoryOK
<1>7. CASE CutCreate(s)
  <2>1. [pc |-> "done", hit |-> None] \in CreateType
    BY DEF CreateType
  <2>2. HandlersOK'
    BY <1>7, <2>1, UpdateCreate DEF CutCreate
  <2>3. HistoryOK'
    BY <1>7, FaultType DEF CutCreate, HistoryOK
  <2> QED
    BY <1>7, <2>2, <2>3 DEF CutCreate, TablesOK, JobOK
<1> QED
  BY <1>1, <1>2, <1>3, <1>4, <1>5, <1>6, <1>7 DEF CreateStep
\* The reconciler.
LEMMA ReconcilerStepType ==
  ASSUME TypeInv, ReconcilerStep \/ CutReconciler
  PROVE  TypeInv'
<1> USE DEF TypeInv
<1>0. /\ reconciler \in ReconcilerType
      /\ reconciler.pc # "idle" => reconciler.sub \in Submissions
      /\ [pc |-> "idle", sub |-> None] \in ReconcilerType
  BY DEF HandlersOK, ReconcilerType
<1>1. ASSUME NEW s \in Submissions, PickWaiting(s)
      PROVE  TypeInv'
  <2>1. [pc |-> "admit", sub |-> s] \in ReconcilerType
    BY DEF ReconcilerType
  <2>2. HandlersOK'
    BY <1>1, <2>1, UpdateReconciler DEF PickWaiting
  <2> QED
    BY <1>1, <2>2 DEF PickWaiting, TablesOK, HistoryOK, JobOK
<1>2. CASE ReadWaiting
  <2>1. CASE reconciler' = [pc |-> "idle", sub |-> None]
    <3>1. HandlersOK'
      BY <1>0, <1>2, <2>1, UpdateReconciler DEF ReadWaiting
    <3> QED
      BY <1>2, <3>1 DEF ReadWaiting, TablesOK, HistoryOK, JobOK
  <2>2. CASE reconciler' = [reconciler EXCEPT !.pc = "admitting"]
    <3> DEFINE c == [reconciler EXCEPT !.pc = "admitting"]
    <3>1. c \in ReconcilerType /\ c.pc # "idle" /\ c.sub \in Submissions
      BY <1>0, <1>2 DEF ReconcilerType, ReadWaiting
    <3> HIDE DEF c
    <3>2. HandlersOK'
      BY <1>2, <2>2, <3>1, UpdateReconciler DEF ReadWaiting, c
    <3> QED
      BY <1>2, <3>2 DEF ReadWaiting, TablesOK, HistoryOK, JobOK
  <2> QED
    BY <1>2, <2>1, <2>2 DEF ReadWaiting
<1>3. CASE AdmitWaiting
  <2> DEFINE s == reconciler.sub
             c == [reconciler EXCEPT !.pc = "enqueue"]
             x == [row[s] EXCEPT !.status = "queued"]
  <2>1. s \in Submissions /\ row[s] \in Rows
    BY <1>0, <1>3 DEF AdmitWaiting, TablesOK
  <2>2. c \in ReconcilerType /\ c.pc # "idle" /\ c.sub \in Submissions
    BY <1>0, <2>1 DEF ReconcilerType
  <2>3. x \in Rows
    BY <2>1 DEF Rows
  <2>4. reconciler' = c /\ row' = [row EXCEPT ![s] = x]
    BY <1>3 DEF AdmitWaiting
  <2> HIDE DEF c, x
  <2>5. HandlersOK'
    BY <1>3, <2>2, <2>4, UpdateReconciler DEF AdmitWaiting
  <2>6. row' \in [Submissions -> Rows]
    BY <2>1, <2>3, <2>4 DEF TablesOK
  <2> QED
    BY <1>3, <2>5, <2>6 DEF AdmitWaiting, TablesOK, HistoryOK, JobOK
<1>4. CASE DeferWaiting
  <2> DEFINE s == reconciler.sub
             x == [row[s] EXCEPT !.status = "waiting_for_quota"]
  <2>1. s \in Submissions /\ row[s] \in Rows
    BY <1>0, <1>4 DEF DeferWaiting, TablesOK
  <2>2. x \in Rows
    BY <2>1 DEF Rows
  <2>3. row' \in [Submissions -> Rows]
    BY <1>4, <2>1, <2>2 DEF DeferWaiting, TablesOK
  <2>4. HandlersOK'
    BY <1>0, <1>4, UpdateReconciler DEF DeferWaiting
  <2> QED
    BY <1>4, <2>3, <2>4 DEF DeferWaiting, TablesOK, HistoryOK, JobOK
<1>5. CASE EnqueueWaiting
  <2>1. reconciler.sub \in Submissions
    BY <1>0, <1>5 DEF EnqueueWaiting
  <2>2. HandlersOK'
    BY <1>0, <1>5, UpdateReconciler DEF EnqueueWaiting
  <2>3. JobOK' /\ lost' \subseteq Submissions
    BY <1>5, <2>1, EnqueueType DEF EnqueueWaiting
  <2> QED
    BY <1>5, <2>2, <2>3 DEF EnqueueWaiting, TablesOK, HistoryOK
<1>6. CASE CutReconciler
  <2>1. HandlersOK'
    BY <1>0, <1>6, UpdateReconciler DEF CutReconciler
  <2>2. HistoryOK'
    BY <1>0, <1>6, FaultType DEF CutReconciler, HistoryOK
  <2> QED
    BY <1>6, <2>1, <2>2 DEF CutReconciler, TablesOK, JobOK
<1> QED
  BY <1>1, <1>2, <1>3, <1>4, <1>5, <1>6 DEF ReconcilerStep

\* confirm and resolve.
LEMMA ResolverStepType ==
  ASSUME TypeInv, NEW m \in Resolvers,
         (\E s \in Submissions : ReadResolvable(m, s)) \/ (\E w \in Works : Resolve(m, w))
  PROVE  TypeInv'
<1> USE DEF TypeInv
<1>1. ASSUME NEW s \in Submissions, ReadResolvable(m, s)
      PROVE  TypeInv'
  <2>1. [pc |-> "commit", sub |-> s] \in ResolverType
    BY DEF ResolverType
  <2>2. HandlersOK'
    BY <1>1, <2>1, UpdateResolver DEF ReadResolvable
  <2> QED
    BY <1>1, <2>2 DEF ReadResolvable, TablesOK, HistoryOK, JobOK
<1>2. ASSUME NEW w \in Works, Resolve(m, w)
      PROVE  TypeInv'
  <2> DEFINE s == resolver[m].sub
             x == [row[s] EXCEPT !.status = "identified", !.work = w, !.failure = None]
  <2>1. s \in Submissions /\ row[s] \in Rows
    BY <1>2 DEF Resolve, TablesOK, HandlersOK
  <2>2. x \in Rows /\ userId[s] \in Users
    BY <2>1, ConstantsAssumption DEF Rows
  <2>3. row' \in [Submissions -> Rows]
    BY <1>2, <2>1, <2>2 DEF Resolve, TablesOK
  <2>4. entries' \subseteq Users \X Works
    <3>1. entries' = entries \cup {<<userId[s], w>>}
      BY <1>2 DEF Resolve
    <3> HIDE DEF s, x
    <3> QED
      BY <2>2, <3>1 DEF TablesOK
  <2>5. [pc |-> "idle", sub |-> None] \in ResolverType
    BY DEF ResolverType
  <2>6. HandlersOK'
    BY <1>2, <2>5, UpdateResolver DEF Resolve
  <2> QED
    BY <1>2, <2>3, <2>4, <2>6 DEF Resolve, TablesOK, HistoryOK, JobOK
<1> QED
  BY <1>1, <1>2
\* reprocess by the owner.
LEMMA RetryStepType ==
  ASSUME TypeInv, NEW q \in Retriers,
         RetryStep(q) \/ CutRetry(q) \/ \E s \in Submissions : ReadFailed(q, s)
  PROVE  TypeInv'
<1> USE DEF TypeInv
<1>0. /\ retrier[q] \in RetrierType
      /\ retrier[q].pc # "idle" => retrier[q].sub \in Submissions
  BY DEF HandlersOK
<1>1. ASSUME NEW s \in Submissions, ReadFailed(q, s)
      PROVE  TypeInv'
  <2>1. [pc |-> "commit", sub |-> s] \in RetrierType
    BY DEF RetrierType
  <2>2. HandlersOK'
    BY <1>1, <2>1, UpdateRetrier DEF ReadFailed
  <2> QED
    BY <1>1, <2>2 DEF ReadFailed, TablesOK, HistoryOK, JobOK
<1>2. ASSUME NEW p \in {"enqueue", "done"}, retrier[q].pc # "idle",
             retrier' = [retrier EXCEPT ![q].pc = p], UNCHANGED <<create, reconciler, resolver>>
      PROVE  HandlersOK'
  <2> DEFINE c == [retrier[q] EXCEPT !.pc = p]
  <2>1. c \in RetrierType /\ c.sub \in Submissions
    BY <1>0, <1>2 DEF RetrierType
  <2>2. retrier' = [retrier EXCEPT ![q] = c]
    BY <1>2
  <2> HIDE DEF c
  <2> QED
    BY <1>2, <2>1, <2>2, UpdateRetrier
<1>3. CASE RegisterRetry(q)
  <2> DEFINE s == retrier[q].sub
             x == [row[s] EXCEPT !.status = "queued", !.failure = None, !.work = None]
  <2>1. s \in Submissions /\ row[s] \in Rows
    BY <1>0, <1>3 DEF RegisterRetry, TablesOK
  <2>2. x \in Rows
    BY <2>1 DEF Rows
  <2>3. row' \in [Submissions -> Rows]
    BY <1>3, <2>1, <2>2 DEF RegisterRetry, TablesOK
  <2>4. HandlersOK'
    BY <1>2, <1>3 DEF RegisterRetry
  <2> QED
    BY <1>3, <2>3, <2>4 DEF RegisterRetry, TablesOK, HistoryOK, JobOK
<1>4. CASE RetryLimitExceeded(q)
  <2>1. HandlersOK'
    BY <1>2, <1>4 DEF RetryLimitExceeded
  <2> QED
    BY <1>4, <2>1 DEF RetryLimitExceeded, TablesOK, HistoryOK, JobOK
<1>5. CASE EnqueueRetry(q)
  <2>1. HandlersOK'
    BY <1>2, <1>5 DEF EnqueueRetry
  <2>2. JobOK' /\ lost' \subseteq Submissions
    BY <1>0, <1>5, EnqueueType DEF EnqueueRetry
  <2> QED
    BY <1>5, <2>1, <2>2 DEF EnqueueRetry, TablesOK, HistoryOK
<1>6. CASE CutRetry(q)
  <2>1. HandlersOK'
    BY <1>2, <1>6 DEF CutRetry
  <2>2. HistoryOK'
    BY <1>0, <1>6, FaultType DEF CutRetry, HistoryOK
  <2> QED
    BY <1>6, <2>1, <2>2 DEF CutRetry, TablesOK, JobOK
<1> QED
  BY <1>1, <1>3, <1>4, <1>5, <1>6 DEF RetryStep

\* The job record of an administrator's request whose enqueue failed, and of one that ended.
LEMMA NoJobType ==
  /\ NoJob \in Jobs /\ JobKnows(NoJob) /\ NoJob.pc = "none"
  /\ [NoJob EXCEPT !.pc = "used"] \in Jobs /\ JobKnows([NoJob EXCEPT !.pc = "used"])
<1>1. NoJob \in Jobs
  BY ConstantsAssumption DEF NoJob, Jobs
<1>2. [NoJob EXCEPT !.pc = "used"] \in Jobs /\ [NoJob EXCEPT !.pc = "used"].pc = "used"
  BY <1>1 DEF NoJob, Jobs
<1> QED
  BY <1>1, <1>2 DEF NoJob, JobKnows, NoRun

\* reprocess by an administrator.
LEMMA AdminStepType ==
  ASSUME TypeInv, NEW j \in AdminJobs, NEW s \in Submissions,
         AdminReprocess(j, s) \/ CutAdminReprocess(j, s)
  PROVE  TypeInv'
<1> USE DEF TypeInv
<1> DEFINE x == [row[s] EXCEPT !.status = "queued", !.failure = None]
<1>0. row[s] \in Rows /\ j \in Runs /\ j \notin Urls /\ job[j] \in Jobs
  BY ConstantsAssumption DEF TablesOK, Runs, JobOK
<1>1. x \in Rows
  BY <1>0 DEF Rows
<1>2. row' \in [Submissions -> Rows]
  BY <1>1 DEF AdminReprocess, CutAdminReprocess, TablesOK
<1>3. CASE AdminReprocess(j, s)
  <2>1. job' = [job EXCEPT ![j] = NewJob(s)]
    BY <1>3 DEF AdminReprocess
  <2>2. JobOK'
    BY <1>0, <2>1, NewJobType, UpdateJob
  <2> QED
    BY <1>2, <1>3, <2>2 DEF AdminReprocess, TablesOK, HistoryOK, HandlersOK
<1>4. CASE CutAdminReprocess(j, s)
  <2> DEFINE u == [job[j] EXCEPT !.pc = "used"]
  <2>1. u \in Jobs /\ u.pc = "used"
    BY <1>0 DEF Jobs
  <2>2. job' = [job EXCEPT ![j] = u]
    BY <1>4 DEF CutAdminReprocess
  <2> HIDE DEF u
  <2>3. JobKnows(u)
    BY <2>1 DEF JobKnows, NoRun
  <2>4. JobOK'
    BY <1>0, <2>1, <2>2, <2>3, UpdateJob
  <2>5. HistoryOK'
    BY <1>4, FaultType DEF CutAdminReprocess, HistoryOK
  <2> QED
    BY <1>2, <1>4, <2>4, <2>5 DEF CutAdminReprocess, TablesOK, HandlersOK
<1> QED
  BY <1>3, <1>4

\* The expiry of a cached identification.
LEMMA DropCacheType ==
  ASSUME TypeInv, NEW url \in Urls, DropCache(url)
  PROVE  TypeInv'
  BY DEF TypeInv, TablesOK, HistoryOK, JobOK, HandlersOK, DropCache
\* What the steps of a run know of it.
LEMMA RunType ==
  ASSUME TypeInv, NEW r \in Runs, job[r].pc \notin NoRun
  PROVE  /\ job[r] \in Jobs /\ JobKnows(job[r])
         /\ job[r].sub \in Submissions /\ Url(r) \in Urls
         /\ job[r].attempt \in 1..Attempts
         /\ row[job[r].sub] \in Rows
         /\ Owners(Url(r)) \subseteq Users
         /\ RowsOf(Url(r)) \subseteq Submissions
<1>1. job[r] \in Jobs /\ JobKnows(job[r])
  BY DEF TypeInv, JobOK
<1>2. job[r].sub \in Submissions /\ job[r].attempt \in 1..Attempts
  BY <1>1 DEF JobKnows
<1> QED
  BY <1>1, <1>2, ConstantsAssumption DEF TypeInv, TablesOK, Url, Owners, RowsOf

\* A run goes on with the same row.
LEMMA AdvanceType ==
  ASSUME TypeInv, NEW r \in Runs, job[r].pc \notin NoRun,
         NEW j \in Jobs, JobKnows(j), j.pc \notin NoRun, j.sub = job[r].sub,
         job' = [job EXCEPT ![r] = j]
  PROVE  JobOK'
<1>1. r \in Urls => urlHash[j.sub] = r
  BY DEF TypeInv, JobOK, NoRun
<1> QED
  BY <1>1, UpdateJob DEF TypeInv, NoRun

LEMMA GotoType ==
  ASSUME TypeInv, NEW r \in Runs, job[r].pc \notin NoRun, NEW p \in Active,
         JobKnows([job[r] EXCEPT !.pc = p]), Goto(r, p)
  PROVE  JobOK'
<1> DEFINE j == [job[r] EXCEPT !.pc = p]
<1>1. job[r] \in Jobs
  BY RunType
<1>2. j \in Jobs /\ j.pc \notin NoRun /\ j.sub = job[r].sub
  BY <1>1 DEF Jobs, NoRun, Active, Stages
<1>3. job' = [job EXCEPT ![r] = j]
  BY DEF Goto
<1> HIDE DEF j
<1> QED
  BY <1>2, <1>3, AdvanceType DEF j

\* The stages whose run needs to know no more than its row.
LEMMA PlainStage ==
  ASSUME TypeInv, NEW r \in Runs, job[r].pc \notin NoRun,
         NEW p \in {"scraping", "fingerprint", "fingerprinted", "identifying", "ending"}
  PROVE  JobKnows([job[r] EXCEPT !.pc = p])
<1>1. /\ job[r] \in Jobs /\ job[r].sub \in Submissions /\ job[r].attempt \in 1..Attempts
  BY RunType
<1> DEFINE j == [job[r] EXCEPT !.pc = p]
<1>2. j.pc = p /\ j.sub = job[r].sub /\ j.attempt = job[r].attempt
  BY <1>1 DEF Jobs
<1> HIDE DEF j
<1>3. JobKnows(j)
  BY <1>1, <1>2 DEF JobKnows
<1> QED
  BY <1>3 DEF j

\* What setStatus writes.
LEMMA SetStatusType ==
  ASSUME TypeInv, NEW url,
         NEW st \in {"scraping", "identifying", "needs_confirmation"}, SetStatus(url, st)
  PROVE  row' \in [Submissions -> Rows]
<1>1. ASSUME NEW x \in Rows
      PROVE  [x EXCEPT !.status = st] \in Rows
  BY DEF Rows
<1> QED
  BY <1>1 DEF SetStatus, UpdateRows, TypeInv, TablesOK

\* The run starts, downloads, and reads the Reel.
LEMMA ScrapeType ==
  ASSUME TypeInv, NEW r \in Runs, Begin(r) \/ ScrapeMedia(r) \/ StartIdentifying(r)
  PROVE  TypeInv'
<1>1. CASE Begin(r)
  <2>1. job[r].pc \notin NoRun /\ Goto(r, "scraping") /\ SetStatus(Url(r), "scraping")
    BY <1>1 DEF Begin, NoRun
  <2>2. JobOK'
    BY <2>1, PlainStage, GotoType DEF Active, Stages
  <2>3. row' \in [Submissions -> Rows]
    BY <2>1, SetStatusType
  <2> QED
    BY <1>1, <2>2, <2>3 DEF Begin, TypeInv, TablesOK, HistoryOK, HandlersOK
<1>2. CASE ScrapeMedia(r)
  <2>1. job[r].pc \notin NoRun /\ Goto(r, "fingerprint")
    BY <1>2 DEF ScrapeMedia, NoRun
  <2>2. JobOK'
    BY <2>1, PlainStage, GotoType DEF Active, Stages
  <2> QED
    BY <1>2, <2>2 DEF ScrapeMedia, TypeInv, TablesOK, HistoryOK, HandlersOK
<1>3. CASE StartIdentifying(r)
  <2>1. job[r].pc \notin NoRun /\ Goto(r, "identifying") /\ SetStatus(Url(r), "identifying")
    BY <1>3 DEF StartIdentifying, NoRun
  <2>2. JobOK'
    BY <2>1, PlainStage, GotoType DEF Active, Stages
  <2>3. row' \in [Submissions -> Rows]
    BY <2>1, SetStatusType
  <2> QED
    BY <1>3, <2>2, <2>3 DEF StartIdentifying, TypeInv, TablesOK, HistoryOK, HandlersOK
<1> QED
  BY <1>1, <1>2, <1>3

\* The result is taken over from a cached fingerprint, or there is none.
LEMMA FingerprintType ==
  ASSUME TypeInv, NEW r \in Runs,
         FingerprintHit(r) \/ HitRows(r) \/ HitCache(r) \/ FingerprintMiss(r)
  PROVE  TypeInv'
<1> USE DEF TypeInv
<1>0. job[r].pc \notin NoRun
  BY DEF FingerprintHit, HitRows, HitCache, FingerprintMiss, NoRun
<1>r. /\ job[r] \in Jobs /\ JobKnows(job[r]) /\ job[r].sub \in Submissions
      /\ Url(r) \in Urls /\ job[r].attempt \in 1..Attempts /\ Owners(Url(r)) \subseteq Users
  BY <1>0, RunType
<1>1. CASE FingerprintHit(r)
  <2>1. PICK url \in Urls :
           /\ cache[url] # None /\ cache[url].work # None
           /\ entries' = entries \cup (Owners(Url(r)) \X {cache[url].work})
           /\ job' = [job EXCEPT ![r] = [job[r] EXCEPT !.pc = "hitRows", !.from = url,
                                                 !.work = cache[url].work]]
    BY <1>1 DEF FingerprintHit, Matching
  <2> DEFINE j == [job[r] EXCEPT !.pc = "hitRows", !.from = url, !.work = cache[url].work]
  <2>2. cache[url].work \in Works
    BY <2>1 DEF TablesOK, CacheEntries
  <2>3. /\ j \in Jobs /\ j.pc = "hitRows" /\ j.from \in Urls /\ j.work \in Works
        /\ j.sub = job[r].sub /\ j.attempt = job[r].attempt
    BY <1>r, <2>2 DEF Jobs, Active, Stages
  <2>4. job' = [job EXCEPT ![r] = j]
    BY <2>1
  <2> HIDE DEF j
  <2>5. JobKnows(j) /\ j.pc \notin NoRun
    BY <1>r, <2>3 DEF JobKnows, NoRun
  <2>6. JobOK'
    BY <1>0, <2>3, <2>4, <2>5, AdvanceType
  <2>7. entries' \subseteq Users \X Works
    BY <1>r, <2>1, <2>2 DEF TablesOK
  <2> QED
    BY <1>1, <2>6, <2>7 DEF FingerprintHit, TablesOK, HistoryOK, HandlersOK
<1>2. CASE HitRows(r)
  <2>1. job[r].work \in Works /\ job[r].from \in Urls /\ Goto(r, "hitCache")
    BY <1>r, <1>2 DEF HitRows, JobKnows
  <2> DEFINE j == [job[r] EXCEPT !.pc = "hitCache"]
  <2>2. /\ j.pc = "hitCache" /\ j.from \in Urls /\ j.work \in Works
        /\ j.sub = job[r].sub /\ j.attempt = job[r].attempt
    BY <1>r, <2>1 DEF Jobs
  <2> HIDE DEF j
  <2>3. JobKnows(j)
    BY <1>r, <2>2 DEF JobKnows
  <2>4. JobOK'
    BY <1>0, <2>1, <2>3, GotoType DEF j, Active, Stages
  <2>5. ASSUME NEW x \in Rows
        PROVE  [x EXCEPT !.status = "identified", !.work = job[r].work, !.fp = TRUE] \in Rows
    BY <2>1 DEF Rows
  <2>6. row' \in [Submissions -> Rows]
    BY <1>2, <2>5 DEF HitRows, UpdateRows, TablesOK
  <2> QED
    BY <1>2, <2>4, <2>6 DEF HitRows, TablesOK, HistoryOK, HandlersOK
<1>3. CASE HitCache(r)
  <2> DEFINE hit == [status |-> "identified", work |-> job[r].work, fp |-> TRUE]
  <2>1. /\ job[r].work \in Works /\ job[r].from \in Urls /\ Goto(r, "ending")
        /\ \E c \in Renewed(cache, job[r].from, hit) : cache' = [c EXCEPT ![Url(r)] = hit]
    BY <1>r, <1>3 DEF HitCache, JobKnows
  <2>2. hit \in CacheEntries
    BY <2>1 DEF CacheEntries
  <2> HIDE DEF hit
  <2>3. PICK c \in Renewed(cache, job[r].from, hit) : cache' = [c EXCEPT ![Url(r)] = hit]
    BY <2>1
  <2>4. c \in [Urls -> CacheEntries \cup {None}]
    BY <2>1, <2>2, RenewedType DEF TablesOK
  <2>5. cache' \in [Urls -> CacheEntries \cup {None}]
    BY <2>2, <2>3, <2>4
  <2>6. JobOK'
    BY <1>0, <2>1, PlainStage, GotoType DEF Active, Stages
  <2> QED
    BY <1>3, <2>5, <2>6 DEF HitCache, TablesOK, HistoryOK, HandlersOK
<1>4. CASE FingerprintMiss(r)
  <2>1. Goto(r, "fingerprinted")
    BY <1>4 DEF FingerprintMiss
  <2>2. JobOK'
    BY <1>0, <2>1, PlainStage, GotoType DEF Active, Stages
  <2>3. ASSUME NEW x \in Rows
        PROVE  [x EXCEPT !.fp = TRUE] \in Rows
    BY DEF Rows
  <2>4. row' \in [Submissions -> Rows]
    BY <1>4, <2>3 DEF FingerprintMiss, UpdateRows, TablesOK
  <2> QED
    BY <1>4, <2>2, <2>4 DEF FingerprintMiss, TablesOK, HistoryOK, HandlersOK
<1> QED
  BY <1>1, <1>2, <1>3, <1>4
\* The model's answer: candidates or a work.
LEMMA AnswerType ==
  ASSUME TypeInv, NEW r \in Runs,
         FindCandidates(r) \/ NeedConfirmation(r) \/ AddToWatchlist(r) \/ ReadSource(r)
  PROVE  TypeInv'
<1> USE DEF TypeInv
<1>0. job[r].pc \notin NoRun
  BY DEF FindCandidates, NeedConfirmation, AddToWatchlist, ReadSource, NoRun
<1>r. /\ job[r] \in Jobs /\ JobKnows(job[r]) /\ job[r].sub \in Submissions
      /\ Url(r) \in Urls /\ job[r].attempt \in 1..Attempts /\ Owners(Url(r)) \subseteq Users
      /\ row[job[r].sub] \in Rows
  BY <1>0, RunType
<1>1. CASE FindCandidates(r)
  <2> DEFINE j == [job[r] EXCEPT !.pc = "confirm", !.result = "needs_confirmation"]
  <2>1. /\ j \in Jobs /\ j.pc = "confirm" /\ j.result = "needs_confirmation"
        /\ j.sub = job[r].sub /\ j.attempt = job[r].attempt
    BY <1>r DEF Jobs, Active, Stages
  <2>2. job' = [job EXCEPT ![r] = j]
    BY <1>1 DEF FindCandidates
  <2> HIDE DEF j
  <2>3. JobKnows(j) /\ j.pc \notin NoRun
    BY <1>r, <2>1 DEF JobKnows, NoRun
  <2>4. JobOK'
    BY <1>0, <2>1, <2>2, <2>3, AdvanceType
  <2> QED
    BY <1>1, <2>4 DEF FindCandidates, TablesOK, HistoryOK, HandlersOK
<1>2. CASE NeedConfirmation(r)
  <2>1. /\ job[r].result = "needs_confirmation" /\ Goto(r, "cacheResult")
        /\ SetStatus(Url(r), "needs_confirmation")
    BY <1>r, <1>2 DEF NeedConfirmation, JobKnows
  <2> DEFINE j == [job[r] EXCEPT !.pc = "cacheResult"]
  <2>2. /\ j.pc = "cacheResult" /\ j.result = "needs_confirmation"
        /\ j.sub = job[r].sub /\ j.attempt = job[r].attempt
    BY <1>r, <2>1 DEF Jobs
  <2> HIDE DEF j
  <2>3. JobKnows(j)
    BY <1>r, <2>2 DEF JobKnows
  <2>4. JobOK'
    BY <1>0, <2>1, <2>3, GotoType DEF j, Active, Stages
  <2>5. row' \in [Submissions -> Rows]
    BY <2>1, SetStatusType
  <2> QED
    BY <1>2, <2>4, <2>5 DEF NeedConfirmation, TablesOK, HistoryOK, HandlersOK
<1>3. CASE AddToWatchlist(r)
  <2> DEFINE j == [job[r] EXCEPT !.pc = "source", !.result = "identified"]
  <2>1. /\ j \in Jobs /\ j.pc = "source" /\ j.result = "identified"
        /\ j.sub = job[r].sub /\ j.attempt = job[r].attempt
    BY <1>r DEF Jobs, Active, Stages
  <2>2. job' = [job EXCEPT ![r] = j]
    BY <1>3 DEF AddToWatchlist
  <2> HIDE DEF j
  <2>3. JobKnows(j) /\ j.pc \notin NoRun
    BY <1>r, <2>1 DEF JobKnows, NoRun
  <2>4. JobOK'
    BY <1>0, <2>1, <2>2, <2>3, AdvanceType
  <2>5. ASSUME NEW x \in Rows
        PROVE  [x EXCEPT !.work = CatalogWork] \in Rows
    BY DEF Rows, Works
  <2>6. row' \in [Submissions -> Rows]
    BY <1>3, <2>5 DEF AddToWatchlist, UpdateRows, TablesOK
  <2>7. entries' \subseteq Users \X Works
    BY <1>r, <1>3 DEF AddToWatchlist, TablesOK, Works
  <2> QED
    BY <1>3, <2>4, <2>6, <2>7 DEF AddToWatchlist, TablesOK, HistoryOK, HandlersOK
<1>4. CASE ReadSource(r)
  <2> DEFINE j == [job[r] EXCEPT !.pc = "settle", !.work = row[job[r].sub].work]
  <2>1. row[job[r].sub].work \in Works \cup {None} /\ job[r].result = "identified"
    BY <1>r, <1>4 DEF Rows, ReadSource, JobKnows
  <2>2. /\ j \in Jobs /\ j.pc = "settle" /\ j.result = "identified"
        /\ j.sub = job[r].sub /\ j.attempt = job[r].attempt
    BY <1>r, <2>1 DEF Jobs, Active, Stages
  <2>3. job' = [job EXCEPT ![r] = j]
    BY <1>4 DEF ReadSource
  <2> HIDE DEF j
  <2>4. JobKnows(j) /\ j.pc \notin NoRun
    BY <1>r, <2>2 DEF JobKnows, NoRun
  <2>5. JobOK'
    BY <1>0, <2>2, <2>3, <2>4, AdvanceType
  <2> QED
    BY <1>4, <2>5 DEF ReadSource, TablesOK, HistoryOK, HandlersOK
<1> QED
  BY <1>1, <1>2, <1>3, <1>4

\* The result reaches rows, watchlists and cache.
LEMMA SettleType ==
  ASSUME TypeInv, NEW r \in Runs, Settle(r) \/ FanOut(r) \/ CacheResult(r)
  PROVE  TypeInv'
<1> USE DEF TypeInv
<1>0. job[r].pc \notin NoRun
  BY DEF Settle, FanOut, CacheResult, NoRun
<1>r. /\ job[r] \in Jobs /\ JobKnows(job[r]) /\ job[r].sub \in Submissions
      /\ Url(r) \in Urls /\ job[r].attempt \in 1..Attempts /\ Owners(Url(r)) \subseteq Users
      /\ row[job[r].sub] \in Rows
  BY <1>0, RunType
<1>f. ASSUME Goto(r, "cacheResult"), job[r].pc \in {"settle", "fanOut"}
      PROVE  JobOK'
  <2> DEFINE j == [job[r] EXCEPT !.pc = "cacheResult"]
  <2>1. /\ j.pc = "cacheResult" /\ j.result = "identified"
        /\ j.sub = job[r].sub /\ j.attempt = job[r].attempt
    BY <1>r, <1>f DEF Jobs, JobKnows
  <2> HIDE DEF j
  <2>2. JobKnows(j)
    BY <1>r, <2>1 DEF JobKnows
  <2> QED
    BY <1>0, <1>f, <2>2, GotoType DEF j, Active, Stages
<1>1. CASE Settle(r)
  <2>1. job[r].work \in Works \cup {None}
    BY <1>r DEF Jobs
  <2>2. ASSUME NEW x \in Rows
        PROVE  [x EXCEPT !.status = "identified",
                         !.work = IF job[r].work # None THEN job[r].work ELSE x.work] \in Rows
    BY <2>1 DEF Rows
  <2>3. row' \in [Submissions -> Rows]
    BY <1>1, <2>2 DEF Settle, UpdateRows, TablesOK
  <2>4. CASE job[r].work # None
    <3> DEFINE j == [job[r] EXCEPT !.pc = "fanOut"]
    <3>1. /\ j.pc = "fanOut" /\ j.result = "identified" /\ j.work \in Works
          /\ j.sub = job[r].sub /\ j.attempt = job[r].attempt
      BY <1>r, <1>1, <2>1, <2>4 DEF Settle, Jobs, JobKnows
    <3> HIDE DEF j
    <3>2. JobKnows(j)
      BY <1>r, <3>1 DEF JobKnows
    <3>3. Goto(r, "fanOut")
      BY <1>1, <2>4 DEF Settle
    <3>4. JobOK'
      BY <1>0, <3>2, <3>3, GotoType DEF j, Active, Stages
    <3> QED
      BY <1>1, <2>3, <3>4 DEF Settle, TablesOK, HistoryOK, HandlersOK
  <2>5. CASE job[r].work = None
    <3>1. JobOK'
      BY <1>f, <1>1, <2>5 DEF Settle
    <3> QED
      BY <1>1, <2>3, <3>1 DEF Settle, TablesOK, HistoryOK, HandlersOK
  <2> QED
    BY <2>4, <2>5
<1>2. CASE FanOut(r)
  <2>1. job[r].work \in Works
    BY <1>r, <1>2 DEF FanOut, JobKnows
  <2>2. JobOK'
    BY <1>f, <1>2 DEF FanOut
  <2>3. entries' \subseteq Users \X Works
    BY <1>r, <1>2, <2>1 DEF FanOut, TablesOK
  <2> QED
    BY <1>2, <2>2, <2>3 DEF FanOut, TablesOK, HistoryOK, HandlersOK
<1>3. CASE CacheResult(r)
  <2> DEFINE e == [status |-> job[r].result, work |-> row[job[r].sub].work,
                   fp |-> row[job[r].sub].fp]
  <2>1. e \in CacheEntries
    BY <1>r, <1>3 DEF CacheResult, JobKnows, CacheEntries, Rows
  <2>2. cache' \in [Urls -> CacheEntries \cup {None}]
    BY <1>3, <2>1 DEF CacheResult, TablesOK
  <2>3. JobOK'
    BY <1>0, <1>3, PlainStage, GotoType DEF CacheResult, Active, Stages
  <2> QED
    BY <1>3, <2>2, <2>3 DEF CacheResult, TablesOK, HistoryOK, HandlersOK
<1> QED
  BY <1>1, <1>2, <1>3
\* What is left of a run that BullMQ is done with.
LEMMA EndedType ==
  ASSUME NEW r \in Runs
  PROVE  /\ Ended(r) \in Jobs /\ JobKnows(Ended(r)) /\ Ended(r).pc \in NoRun
         /\ r \in Urls => Ended(r).pc = "none"
<1>1. r \in Urls => r \notin AdminJobs
  BY ConstantsAssumption
<1> QED
  BY <1>1, NoJobType DEF Ended, NoJob, NoRun

\* The steps that store a failure on the rows.
Failing(r) == (\E cause \in Causes : Fail(r, cause)) \/ RefuseStatement(r) \/ RefuseRefund(r)

\* They come from the try block and write nothing but rows, job and faults.
LEMMA FailingStores ==
  ASSUME NEW r \in Runs, Failing(r)
  PROVE  /\ job[r].pc \in Stages /\ job[r].pc \notin NoRun
         /\ \E cause \in {"content", "permanent", "transient"}, again \in BOOLEAN :
               StoreFailure(r, cause, again)
         /\ UNCHANGED <<entries, cache, create, reconciler, resolver, retrier, lost>>
         /\ Fault \/ faults' = faults
  BY ConstantsAssumption DEF Failing, Fail, RefuseStatement, RefuseRefund, Stages, NoRun

\* The rows fail, and the run comes to its end.
LEMMA FailType ==
  ASSUME TypeInv, NEW r \in Runs, Failing(r)
  PROVE  TypeInv'
<1> USE DEF TypeInv
<1>0. /\ job[r].pc \notin NoRun
      /\ UNCHANGED <<entries, cache, create, reconciler, resolver, retrier, lost>>
      /\ Fault \/ faults' = faults
  BY FailingStores
<1>s. PICK cause \in {"content", "permanent", "transient"}, again \in BOOLEAN :
         StoreFailure(r, cause, again)
  BY FailingStores
<1> DEFINE j == [job[r] EXCEPT !.pc = "ending", !.again = again]
<1>r. /\ job[r] \in Jobs /\ JobKnows(job[r]) /\ job[r].sub \in Submissions
      /\ job[r].attempt \in 1..Attempts
  BY <1>0, RunType
<1>1. /\ j \in Jobs /\ j.pc = "ending" /\ j.sub = job[r].sub /\ j.attempt = job[r].attempt
  BY <1>r DEF Jobs, Active
<1>2. job' = [job EXCEPT ![r] = j]
  BY <1>s DEF StoreFailure
<1> HIDE DEF j
<1>3. JobKnows(j) /\ j.pc \notin NoRun
  BY <1>r, <1>1 DEF JobKnows, NoRun
<1>4. JobOK'
  BY <1>0, <1>1, <1>2, <1>3, AdvanceType
<1>5. ASSUME NEW x \in Rows
      PROVE  [x EXCEPT !.status = "failed", !.failure = cause] \in Rows
  BY DEF Rows
<1>6. row' \in [Submissions -> Rows]
  BY <1>s, <1>5 DEF StoreFailure, UpdateRows, TablesOK
<1>7. HistoryOK'
  BY <1>0, FaultType DEF HistoryOK
<1> QED
  BY <1>0, <1>4, <1>6, <1>7 DEF TablesOK, HandlersOK

\* The next attempt of a run.
LEMMA RestartType ==
  ASSUME TypeInv, NEW r \in Runs, job[r].pc \notin NoRun,
         NEW n \in 1..Attempts, NEW k \in 0..MaxStalled,
         job' = [job EXCEPT ![r] = [NewJob(job[r].sub) EXCEPT !.attempt = n, !.stalled = k]]
  PROVE  JobOK'
<1> DEFINE j == [NewJob(job[r].sub) EXCEPT !.attempt = n, !.stalled = k]
<1>1. job[r].sub \in Submissions
  BY RunType
<1>2. NewJob(job[r].sub) \in Jobs /\ NewJob(job[r].sub).pc = "waiting"
      /\ NewJob(job[r].sub).sub = job[r].sub
  BY <1>1, NewJobType
<1>3. n \in 0..Attempts
  BY ConstantsAssumption
<1>4. j \in Jobs /\ j.pc = "waiting" /\ j.sub = job[r].sub /\ j.attempt = n
  BY <1>2, <1>3 DEF Jobs
<1> HIDE DEF j
<1>5. JobKnows(j) /\ j.pc \notin NoRun
  BY <1>1, <1>4 DEF JobKnows, NoRun
<1>6. job' = [job EXCEPT ![r] = j]
  BY DEF j
<1> QED
  BY <1>4, <1>5, <1>6, AdvanceType

\* The run ends, the worker dies under it, or its failure cannot be stored.
LEMMA EndType ==
  ASSUME TypeInv, NEW r \in Runs, EndRun(r) \/ Crash(r) \/ RefuseFailure(r)
  PROVE  TypeInv'
<1> USE DEF TypeInv
<1>0. job[r].pc \notin NoRun
  BY DEF EndRun, Crash, RefuseFailure, NoRun, Active, Stages, Pending
<1>r. /\ job[r] \in Jobs /\ job[r].attempt \in 1..Attempts /\ job[r].stalled \in 0..MaxStalled
      /\ RowsOf(Url(r)) \subseteq Submissions
  BY <1>0, RunType DEF Jobs
<1>n. Attempts \in Nat /\ MaxStalled \in Nat
  BY ConstantsAssumption
<1>e. ASSUME job' = [job EXCEPT ![r] = Ended(r)]
      PROVE  JobOK'
  BY <1>e, EndedType, UpdateJob DEF NoRun
<1>a. ASSUME job' = [job EXCEPT ![r] = NextAttempt(r)], job[r].attempt < Attempts
      PROVE  JobOK'
  <2>1. job[r].attempt + 1 \in 1..Attempts
    BY <1>r, <1>n, <1>a
  <2> QED
    BY <1>0, <1>r, <1>a, <2>1, RestartType DEF NextAttempt
<1>1. CASE EndRun(r)
  <2>1. JobOK'
    BY <1>1, <1>a, <1>e DEF EndRun
  <2> QED
    BY <1>1, <2>1 DEF EndRun, TablesOK, HistoryOK, HandlersOK
<1>2. CASE Crash(r)
  <2>1. HistoryOK'
    BY <1>r, <1>2, FaultType DEF Crash, HistoryOK
  <2>2. CASE job[r].stalled < MaxStalled
    <3>1. job[r].stalled + 1 \in 0..MaxStalled
      BY <1>r, <1>n, <2>2
    <3>2. job' = [job EXCEPT ![r] = [NewJob(job[r].sub) EXCEPT !.attempt = job[r].attempt,
                                                               !.stalled = job[r].stalled + 1]]
      BY <1>2, <2>2 DEF Crash
    <3>3. JobOK'
      BY <1>0, <1>r, <3>1, <3>2, RestartType
    <3> QED
      BY <1>2, <2>1, <3>3 DEF Crash, TablesOK, HandlersOK
  <2>3. CASE ~(job[r].stalled < MaxStalled)
    <3>1. JobOK'
      BY <1>2, <1>e, <2>3 DEF Crash
    <3> QED
      BY <1>2, <2>1, <3>1 DEF Crash, TablesOK, HandlersOK
  <2> QED
    BY <2>2, <2>3
<1>3. CASE RefuseFailure(r)
  <2>1. HistoryOK'
    BY <1>r, <1>3, FaultType DEF RefuseFailure, HistoryOK
  <2>2. JobOK'
    BY <1>3, <1>a, <1>e DEF RefuseFailure
  <2> QED
    BY <1>3, <2>1, <2>2 DEF RefuseFailure, TablesOK, HandlersOK
<1> QED
  BY <1>1, <1>2, <1>3

-----------------------------------------------------------------------------
LEMMA NextType == TypeInv /\ [Next]_vars => TypeInv'
<1> SUFFICES ASSUME TypeInv, [Next]_vars
             PROVE  TypeInv'
  OBVIOUS
<1>1. CASE UNCHANGED vars
  BY <1>1 DEF vars, TypeInv, TablesOK, HistoryOK, JobOK, HandlersOK
<1>2. ASSUME NEW s \in Submissions, InsertRow(s) \/ CreateStep(s) \/ CutCreate(s)
      PROVE  TypeInv'
  BY <1>2, CreateStepType
<1>3. CASE ReconcilerStep \/ CutReconciler
  BY <1>3, ReconcilerStepType
<1>4. ASSUME NEW m \in Resolvers,
             (\E s \in Submissions : ReadResolvable(m, s)) \/ (\E w \in Works : Resolve(m, w))
      PROVE  TypeInv'
  BY <1>4, ResolverStepType
<1>5. ASSUME NEW q \in Retriers,
             RetryStep(q) \/ CutRetry(q) \/ \E s \in Submissions : ReadFailed(q, s)
      PROVE  TypeInv'
  BY <1>5, RetryStepType
<1>6. ASSUME NEW j \in AdminJobs, NEW s \in Submissions,
             AdminReprocess(j, s) \/ CutAdminReprocess(j, s)
      PROVE  TypeInv'
  BY <1>6, AdminStepType
<1>7. ASSUME NEW url \in Urls, DropCache(url)
      PROVE  TypeInv'
  BY <1>7, DropCacheType
<1>8. ASSUME NEW r \in Runs, WorkerStep(r) \/ CutRun(r)
      PROVE  TypeInv'
  BY <1>8, ScrapeType, FingerprintType, AnswerType, SettleType, FailType, EndType
     DEF WorkerStep, CutRun, Failing
<1> QED
  BY <1>1, <1>2, <1>3, <1>4, <1>5, <1>6, <1>7, <1>8 DEF Next

\* Type correctness of the pipeline: no job is tried more than Attempts times, only pairs of
\* a user and a work come onto watchlists, and a run writes only works it has.
THEOREM PipelineTypeCorrect == Spec => []TypeOK
<1>1. Spec => []TypeInv
  BY InitType, NextType, PTL DEF Spec
<1> QED
  BY <1>1, TypeInvImpliesTypeOK, PTL
-----------------------------------------------------------------------------
(* Rows in progress.  The stages alone are not inductive: a row is queued  *)
(* while a handler still owes it an enqueue, and a job in the queue helps   *)
(* a row only if it will write the row's status again.                     *)
Live(s) == \E r \in Runs : job[r].pc \notin NoRun \cup Late /\ urlHash[job[r].sub] = urlHash[s]
Owed(s) == \/ create[s].pc \notin {"idle", "done"}
           \/ reconciler.pc = "enqueue" /\ reconciler.sub = s
           \/ \E q \in Retriers : retrier[q].pc = "enqueue" /\ retrier[q].sub = s
Backed(s) == /\ Status(s) \in {"scraping", "identifying"} => Live(s) \/ s \in lost
             /\ Status(s) = "queued" => Live(s) \/ Owed(s) \/ s \in lost
WorkInv == \A s \in Submissions : Backed(s)

LEMMA InitWork == Init => WorkInv
  BY DEF Init, WorkInv, Backed, Status

\* A run that may still write the rows keeps doing so, or was not going to.
LEMMA KeepLive ==
  ASSUME TypeInv, NEW r \in Runs, NEW j, job' = [job EXCEPT ![r] = j],
         job[r].pc \notin NoRun \cup Late =>
            j.pc \notin NoRun \cup Late /\ urlHash[j.sub] = urlHash[job[r].sub],
         NEW s \in Submissions, Live(s)
  PROVE  Live(s)'
  BY DEF Live, TypeInv, JobOK

\* enqueue finds a run that will write the row, starts one, or is remembered.
LEMMA EnqueueKeeps ==
  ASSUME TypeInv, NEW s \in Submissions, Enqueue(s), row' = row
  PROVE  /\ \A t \in Submissions : Live(t) => Live(t)'
         /\ lost \ {s} \subseteq lost'
         /\ InProgress(s) => Live(s)' \/ s \in lost'
<1> DEFINE url == urlHash[s]
<1>0. url \in Urls /\ url \in Runs /\ job[url].pc # "used"
  BY ConstantsAssumption DEF Runs, TypeInv, JobOK
<1>1. lost \ {s} \subseteq lost'
  BY DEF Enqueue
<1>2. CASE job[url].pc = "none"
  <2>1. job' = [job EXCEPT ![url] = NewJob(s)]
    BY <1>2 DEF Enqueue
  <2>2. NewJob(s).pc = "waiting" /\ NewJob(s).sub = s
    BY NewJobType
  <2>3. \A t \in Submissions : Live(t) => Live(t)'
    BY <1>0, <1>2, <2>1, KeepLive DEF NoRun
  <2>4. job'[url].pc = "waiting" /\ job'[url].sub = s
    BY <1>0, <2>1, <2>2 DEF TypeInv, JobOK
  <2>5. Live(s)'
    BY <1>0, <2>4 DEF Live, NoRun, Late
  <2> QED
    BY <1>1, <2>3, <2>5
<1>3. CASE job[url].pc # "none"
  <2>1. job' = job
    BY <1>3 DEF Enqueue
  <2>2. \A t \in Submissions : Live(t) => Live(t)'
    BY <2>1 DEF Live
  <2>3. InProgress(s) /\ job[url].pc \in Late => s \in lost'
    BY DEF Enqueue
  <2>4. job[url].pc \notin Late => Live(s)
    BY <1>0, <1>3 DEF Live, NoRun, TypeInv, JobOK
  <2> QED
    BY <1>1, <2>2, <2>3, <2>4
<1> QED
  BY <1>2, <1>3

\* A handler goes on: it writes at most its own row.
LEMMA HandlerKeeps ==
  ASSUME TypeInv, WorkInv, NEW s \in Submissions,
         \A t \in Submissions : Live(t) => Live(t)',
         \A t \in Submissions \ {s} : row'[t] = row[t] /\ (Owed(t) => Owed(t)'),
         lost \ {s} \subseteq lost',
         Backed(s)'
  PROVE  WorkInv'
  BY DEF WorkInv, Backed, Status
LEMMA CreateStepWork ==
  ASSUME TypeInv, WorkInv, NEW s \in Submissions,
         InsertRow(s) \/ CreateStep(s) \/ CutCreate(s)
  PROVE  WorkInv'
<1>0. create[s] \in CreateType /\ row[s] \in Rows /\ Backed(s)
  BY DEF TypeInv, HandlersOK, TablesOK, WorkInv
<1>1. \A t \in Submissions \ {s} : row'[t] = row[t] /\ (Owed(t) => Owed(t)')
  BY DEF CreateStep, InsertRow, LookupUrlCache, ApplyUrlCache, ReadStatus, Admit,
         EnqueueCreated, CutCreate, TypeInv, TablesOK, HandlersOK, Owed
<1>2. CASE EnqueueCreated(s)
  <2>1. Enqueue(s) /\ row' = row
    BY <1>2 DEF EnqueueCreated
  <2>2. Backed(s)'
    BY <2>1, EnqueueKeeps DEF Backed, InProgress, Status
  <2> QED
    BY <1>1, <2>1, <2>2, EnqueueKeeps, HandlerKeeps
<1>3. CASE ~EnqueueCreated(s)
  <2>1. job' = job /\ lost \subseteq lost'
    BY <1>3 DEF CreateStep, InsertRow, LookupUrlCache, ApplyUrlCache, ReadStatus, Admit, CutCreate
  <2>2. \A t \in Submissions : Live(t) => Live(t)'
    BY <2>1 DEF Live
  <2>3. Backed(s)'
    <3>1. CASE InsertRow(s)
      BY <1>0, <3>1 DEF InsertRow, Backed, Owed, Status, TypeInv, TablesOK, HandlersOK
    <3>2. CASE LookupUrlCache(s)
      <4>1. row' = row /\ create'[s].pc \in {"hit", "admit"}
        BY <3>2 DEF LookupUrlCache, TypeInv, HandlersOK
      <4> QED
        BY <1>0, <2>1, <2>2, <4>1 DEF Backed, Owed, Status
    <3>3. CASE ApplyUrlCache(s)
      <4>1. create[s].hit.status \in {"identified", "needs_confirmation"}
        BY <3>3 DEF ApplyUrlCache, TypeInv, HandlersOK, CacheEntries
      <4>2. row'[s].status = create[s].hit.status
        BY <1>0, <3>3 DEF ApplyUrlCache, TypeInv, TablesOK, Rows
      <4> QED
        BY <4>1, <4>2 DEF Backed, Status
    <3>4. CASE ReadStatus(s)
      <4>1. /\ row' = row
            /\ Status(s) = "queued" => create'[s].pc = "admitting"
        BY <1>0, <3>4 DEF ReadStatus, TypeInv, HandlersOK, CreateType
      <4> QED
        BY <1>0, <2>1, <2>2, <4>1 DEF Backed, Owed, Status
    <3>5. CASE Admit(s)
      <4>1. \/ row'[s].status = "queued" /\ create'[s].pc = "enqueue"
            \/ row'[s].status = "waiting_for_quota"
        BY <1>0, <3>5 DEF Admit, TypeInv, TablesOK, HandlersOK, CreateType, Rows
      <4> QED
        BY <4>1 DEF Backed, Owed, Status
    <3>6. CASE CutCreate(s)
      <4>1. s \in lost'
        BY <3>6 DEF CutCreate
      <4> QED
        BY <4>1 DEF Backed
    <3> QED
      BY <1>3, <3>1, <3>2, <3>3, <3>4, <3>5, <3>6 DEF CreateStep
  <2> QED
    BY <1>1, <2>1, <2>2, <2>3, HandlerKeeps
<1> QED
  BY <1>2, <1>3

LEMMA ReconcilerStepWork ==
  ASSUME TypeInv, WorkInv, ReconcilerStep \/ CutReconciler
  PROVE  WorkInv'
<1>1. CASE EnqueueWaiting
  <2>0. PICK s \in Submissions : s = reconciler.sub
    BY <1>1 DEF EnqueueWaiting, TypeInv, HandlersOK
  <2>1. Enqueue(s) /\ row' = row
    BY <1>1, <2>0 DEF EnqueueWaiting
  <2>2. \A t \in Submissions \ {s} : Owed(t) => Owed(t)'
    BY <1>1, <2>0 DEF EnqueueWaiting, Owed
  <2>3. Backed(s)'
    BY <2>1, EnqueueKeeps DEF WorkInv, Backed, InProgress, Status
  <2> QED
    BY <2>1, <2>2, <2>3, EnqueueKeeps, HandlerKeeps
<1>2. CASE AdmitWaiting \/ DeferWaiting
  <2>0. PICK s \in Submissions : s = reconciler.sub
    BY <1>2 DEF AdmitWaiting, DeferWaiting, TypeInv, HandlersOK
  <2>1. row[s] \in Rows /\ reconciler \in ReconcilerType
    BY DEF TypeInv, HandlersOK, TablesOK
  <2>2. /\ job' = job /\ lost' = lost
        /\ \A t \in Submissions \ {s} : row'[t] = row[t] /\ (Owed(t) => Owed(t)')
    BY <1>2, <2>0 DEF AdmitWaiting, DeferWaiting, Owed, TypeInv, TablesOK
  <2>3. \/ row'[s].status = "queued" /\ reconciler'.pc = "enqueue" /\ reconciler'.sub = s
        \/ row'[s].status = "waiting_for_quota"
    BY <1>2, <2>0, <2>1 DEF AdmitWaiting, DeferWaiting, TypeInv, TablesOK, Rows, ReconcilerType
  <2>4. Backed(s)'
    BY <2>3 DEF Backed, Owed, Status
  <2>5. \A t \in Submissions : Live(t) => Live(t)'
    BY <2>2 DEF Live
  <2> QED
    BY <2>1, <2>2, <2>4, <2>5, HandlerKeeps
<1>3. CASE CutReconciler \/ ReadWaiting \/ \E s \in Submissions : PickWaiting(s)
  <2>1. job' = job /\ row' = row /\ lost \subseteq lost'
    BY <1>3 DEF CutReconciler, ReadWaiting, PickWaiting
  <2>2. \A t \in Submissions : Owed(t) => Owed(t)' \/ t \in lost'
    BY <1>3 DEF CutReconciler, ReadWaiting, PickWaiting, Owed
  <2>3. \A t \in Submissions : Live(t) => Live(t)'
    BY <2>1 DEF Live
  <2> QED
    BY <2>1, <2>2, <2>3 DEF WorkInv, Backed, Status
<1> QED
  BY <1>1, <1>2, <1>3 DEF ReconcilerStep

LEMMA ResolverStepWork ==
  ASSUME TypeInv, WorkInv, NEW m \in Resolvers,
         (\E s \in Submissions : ReadResolvable(m, s)) \/ (\E w \in Works : Resolve(m, w))
  PROVE  WorkInv'
<1>1. job' = job /\ lost' = lost /\ \A t \in Submissions : Owed(t) => Owed(t)'
  BY DEF ReadResolvable, Resolve, Owed
<1>2. \A t \in Submissions : row'[t].status \in {row[t].status, "identified"}
  <2>1. ASSUME NEW w \in Works, Resolve(m, w)
        PROVE  \A t \in Submissions : row'[t].status \in {row[t].status, "identified"}
    <3>1. PICK s \in Submissions : s = resolver[m].sub
      BY <2>1 DEF Resolve, TypeInv, HandlersOK
    <3>2. row[s] \in Rows
      BY DEF TypeInv, TablesOK
    <3>3. /\ row'[s] = [row[s] EXCEPT !.status = "identified", !.work = w, !.failure = None]
          /\ \A t \in Submissions \ {s} : row'[t] = row[t]
      BY <2>1, <3>1 DEF Resolve, TypeInv, TablesOK
    <3>4. row'[s].status = "identified"
      BY <3>2, <3>3 DEF Rows
    <3> QED
      BY <3>3, <3>4
  <2> QED
    BY <2>1 DEF ReadResolvable
<1>3. \A t \in Submissions : Live(t) => Live(t)'
  BY <1>1 DEF Live
<1> QED
  BY <1>1, <1>2, <1>3 DEF WorkInv, Backed, Status

LEMMA RetryStepWork ==
  ASSUME TypeInv, WorkInv, NEW q \in Retriers,
         RetryStep(q) \/ CutRetry(q) \/ \E s \in Submissions : ReadFailed(q, s)
  PROVE  WorkInv'
<1>0. retrier[q] \in RetrierType
  BY DEF TypeInv, HandlersOK
<1>1. CASE EnqueueRetry(q)
  <2>0. PICK s \in Submissions : s = retrier[q].sub
    BY <1>1 DEF EnqueueRetry, TypeInv, HandlersOK
  <2>1. Enqueue(s) /\ row' = row
    BY <1>1, <2>0 DEF EnqueueRetry
  <2>2. \A t \in Submissions \ {s} : Owed(t) => Owed(t)'
    BY <1>1, <2>0 DEF EnqueueRetry, Owed, TypeInv, HandlersOK
  <2>3. Backed(s)'
    BY <2>1, EnqueueKeeps DEF WorkInv, Backed, InProgress, Status
  <2> QED
    BY <2>1, <2>2, <2>3, EnqueueKeeps, HandlerKeeps
<1>2. CASE RegisterRetry(q)
  <2>1. PICK s \in Submissions : s = retrier[q].sub
    BY <1>2 DEF RegisterRetry, TypeInv, HandlersOK
  <2>2. /\ job' = job /\ lost' = lost
        /\ \A t \in Submissions \ {s} : row'[t] = row[t]
        /\ retrier'[q].pc = "enqueue" /\ retrier'[q].sub = s
        /\ \A p \in Retriers \ {q} : retrier'[p] = retrier[p]
        /\ UNCHANGED <<create, reconciler>>
    BY <1>0, <1>2, <2>1 DEF RegisterRetry, TypeInv, TablesOK, HandlersOK, RetrierType
  <2>3. row'[s].status = "queued"
    BY <1>2, <2>1 DEF RegisterRetry, TypeInv, TablesOK, Rows
  <2>4. \A t \in Submissions : Owed(t) => Owed(t)'
    BY <1>2, <2>2 DEF RegisterRetry, Owed
  <2>5. Backed(s)'
    BY <2>2, <2>3 DEF Backed, Owed, Status
  <2>6. \A t \in Submissions : Live(t) => Live(t)'
    BY <2>2 DEF Live
  <2> QED
    BY <2>1, <2>2, <2>4, <2>5, <2>6, HandlerKeeps
<1>3. CASE RetryLimitExceeded(q) \/ CutRetry(q) \/ \E s \in Submissions : ReadFailed(q, s)
  <2>1. job' = job /\ row' = row /\ lost \subseteq lost' /\ UNCHANGED <<create, reconciler>>
    BY <1>3 DEF RetryLimitExceeded, CutRetry, ReadFailed
  <2>2. \A p \in Retriers \ {q} : retrier'[p] = retrier[p]
    BY <1>3 DEF RetryLimitExceeded, CutRetry, ReadFailed, TypeInv, HandlersOK
  <2>3. retrier[q].pc = "enqueue" => retrier[q].sub \in lost'
    BY <1>3 DEF RetryLimitExceeded, CutRetry, ReadFailed
  <2>4. \A t \in Submissions : Owed(t) => Owed(t)' \/ t \in lost'
    BY <2>1, <2>2, <2>3 DEF Owed
  <2>5. \A t \in Submissions : Live(t) => Live(t)'
    BY <2>1 DEF Live
  <2> QED
    BY <2>1, <2>4, <2>5 DEF WorkInv, Backed, Status
<1> QED
  BY <1>1, <1>2, <1>3 DEF RetryStep

LEMMA AdminStepWork ==
  ASSUME TypeInv, WorkInv, NEW j \in AdminJobs, NEW s \in Submissions,
         AdminReprocess(j, s) \/ CutAdminReprocess(j, s)
  PROVE  WorkInv'
<1>0. j \in Runs /\ job[j] \in Jobs /\ job[j].pc = "none"
  BY DEF Runs, TypeInv, JobOK, AdminReprocess, CutAdminReprocess
<1>1. /\ \A t \in Submissions \ {s} : row'[t] = row[t]
      /\ \A t \in Submissions : Owed(t) => Owed(t)'
      /\ lost \subseteq lost'
  BY DEF AdminReprocess, CutAdminReprocess, Owed, TypeInv, TablesOK
<1>2. CASE AdminReprocess(j, s)
  <2>1. job' = [job EXCEPT ![j] = NewJob(s)]
    BY <1>2 DEF AdminReprocess
  <2>2. \A t \in Submissions : Live(t) => Live(t)'
    BY <1>0, <2>1, KeepLive DEF NoRun
  <2>3. job'[j].pc = "waiting" /\ job'[j].sub = s
    BY <1>0, <2>1, NewJobType DEF TypeInv, JobOK
  <2>4. Live(s)'
    BY <1>0, <2>3 DEF Live, NoRun, Late
  <2>5. Backed(s)'
    BY <2>4 DEF Backed
  <2> QED
    BY <1>1, <2>2, <2>5, HandlerKeeps
<1>3. CASE CutAdminReprocess(j, s)
  <2>1. job' = [job EXCEPT ![j] = [job[j] EXCEPT !.pc = "used"]] /\ s \in lost'
    BY <1>3 DEF CutAdminReprocess
  <2>2. \A t \in Submissions : Live(t) => Live(t)'
    BY <1>0, <2>1, KeepLive DEF NoRun
  <2>3. Backed(s)'
    BY <2>1 DEF Backed
  <2> QED
    BY <1>1, <2>2, <2>3, HandlerKeeps
<1> QED
  BY <1>2, <1>3
\* The owed enqueues of handlers are no business of the worker's.
HandlersRest == UNCHANGED <<create, reconciler, retrier>>

\* A run goes on without touching a status.
LEMMA RunKeeps ==
  ASSUME TypeInv, WorkInv, HandlersRest, NEW r \in Runs, NEW j, job' = [job EXCEPT ![r] = j],
         job[r].pc \notin NoRun \cup Late =>
            j.pc \notin NoRun \cup Late /\ urlHash[j.sub] = urlHash[job[r].sub],
         \A s \in Submissions : row'[s].status = row[s].status,
         lost \subseteq lost'
  PROVE  WorkInv'
<1>1. \A s \in Submissions : Live(s) => Live(s)'
  BY KeepLive
<1>2. \A s \in Submissions : Owed(s) => Owed(s)'
  BY DEF HandlersRest, Owed
<1> QED
  BY <1>1, <1>2 DEF WorkInv, Backed, Status

\* The rows a run writes, and the others.
LEMMA OtherRows ==
  ASSUME TypeInv, WorkInv, HandlersRest, NEW r \in Runs, job[r].pc \notin NoRun,
         NEW j, job' = [job EXCEPT ![r] = j], j.sub = job[r].sub \/ j.pc \in NoRun,
         NEW s \in Submissions, urlHash[s] # Url(r), row'[s] = row[s],
         s \in lost => s \in lost'
  PROVE  Backed(s)'
<1>1. Live(s) => Live(s)'
  BY DEF Live, Url, TypeInv, JobOK
<1>2. Owed(s) => Owed(s)'
  BY DEF HandlersRest, Owed
<1> QED
  BY <1>1, <1>2 DEF WorkInv, Backed, Status

\* A run writes a stage and is at it.
LEMMA StageKeeps ==
  ASSUME TypeInv, WorkInv, HandlersRest, NEW r \in Runs, job[r].pc \notin NoRun,
         NEW p \in Active \ Late, Goto(r, p),
         \A s \in Submissions \ RowsOf(Url(r)) : row'[s] = row[s],
         lost \ RowsOf(Url(r)) \subseteq lost'
  PROVE  WorkInv'
<1> DEFINE j == [job[r] EXCEPT !.pc = p]
<1>1. job[r] \in Jobs
  BY RunType
<1>2. j.pc = p /\ j.sub = job[r].sub /\ job' = [job EXCEPT ![r] = j] /\ job'[r] = j
  BY <1>1 DEF Jobs, Goto, TypeInv, JobOK
<1> HIDE DEF j
<1>3. SUFFICES ASSUME NEW s \in Submissions
               PROVE  Backed(s)'
  BY DEF WorkInv
<1>4. CASE urlHash[s] # Url(r)
  BY <1>2, <1>4, OtherRows DEF RowsOf
<1>5. CASE urlHash[s] = Url(r)
  <2>1. Live(s)'
    BY <1>2, <1>5 DEF Live, Url, NoRun, Active, Stages
  <2> QED
    BY <2>1 DEF Backed
<1> QED
  BY <1>4, <1>5

\* A run's last write to the rows settles them all.
LEMMA LastWriteKeeps ==
  ASSUME TypeInv, WorkInv, HandlersRest, NEW r \in Runs, job[r].pc \notin NoRun,
         NEW j, job' = [job EXCEPT ![r] = j], j.sub = job[r].sub \/ j.pc \in NoRun,
         \A s \in Submissions \ RowsOf(Url(r)) : row'[s] = row[s],
         \A s \in RowsOf(Url(r)) : row'[s].status \in {"identified", "needs_confirmation", "failed"}
                                   \/ s \in lost',
         lost \subseteq lost'
  PROVE  WorkInv'
<1>1. SUFFICES ASSUME NEW s \in Submissions
               PROVE  Backed(s)'
  BY DEF WorkInv
<1>2. CASE urlHash[s] # Url(r)
  BY <1>2, OtherRows DEF RowsOf
<1>3. CASE urlHash[s] = Url(r) /\ s \in RowsOf(Url(r))
  BY <1>3 DEF Backed, Status
<1>4. CASE urlHash[s] = Url(r) /\ s \notin RowsOf(Url(r))
  BY <1>4 DEF RowsOf, Backed, Status
<1> QED
  BY <1>2, <1>3, <1>4

LEMMA StageStepWork ==
  ASSUME TypeInv, WorkInv, NEW r \in Runs, Begin(r) \/ StartIdentifying(r)
  PROVE  WorkInv'
<1>1. job[r].pc \notin NoRun /\ HandlersRest
  BY DEF Begin, StartIdentifying, NoRun, HandlersRest
<1>2. \A s \in Submissions \ RowsOf(Url(r)) : row'[s] = row[s]
  BY DEF Begin, StartIdentifying, SetStatus, UpdateRows
<1>3. lost \ RowsOf(Url(r)) \subseteq lost'
  BY DEF Begin, StartIdentifying
<1>4. PICK p \in Active \ Late : Goto(r, p)
  BY DEF Begin, StartIdentifying, Active, Stages, Late
<1> QED
  BY <1>1, <1>2, <1>3, <1>4, StageKeeps

LEMMA SilentStepWork ==
  ASSUME TypeInv, WorkInv, NEW r \in Runs,
         \/ ScrapeMedia(r) \/ FingerprintHit(r) \/ FingerprintMiss(r) \/ HitCache(r)
         \/ FindCandidates(r) \/ AddToWatchlist(r) \/ ReadSource(r) \/ FanOut(r) \/ CacheResult(r)
  PROVE  WorkInv'
<1>1. HandlersRest /\ lost' = lost
  BY DEF ScrapeMedia, FingerprintHit, FingerprintMiss, HitCache, FindCandidates, AddToWatchlist,
         ReadSource, FanOut, CacheResult, HandlersRest
<1>2. job[r].pc \notin NoRun /\ job[r] \in Jobs
  BY RunType DEF ScrapeMedia, FingerprintHit, FingerprintMiss, HitCache, FindCandidates,
                 AddToWatchlist, ReadSource, FanOut, CacheResult, NoRun
<1>3. \A s \in Submissions : row'[s].status = row[s].status
  <2>1. CASE AddToWatchlist(r)
    <3>1. ASSUME NEW x \in Rows
          PROVE  [x EXCEPT !.work = CatalogWork].status = x.status
      BY DEF Rows
    <3> QED
      BY <2>1, <3>1 DEF AddToWatchlist, UpdateRows, TypeInv, TablesOK
  <2>2. CASE FingerprintMiss(r)
    <3>1. ASSUME NEW x \in Rows
          PROVE  [x EXCEPT !.fp = TRUE].status = x.status
      BY DEF Rows
    <3> QED
      BY <2>2, <3>1 DEF FingerprintMiss, UpdateRows, TypeInv, TablesOK
  <2>3. CASE ~AddToWatchlist(r) /\ ~FingerprintMiss(r)
    BY <2>3 DEF ScrapeMedia, FingerprintHit, HitCache, FindCandidates, ReadSource, FanOut,
                CacheResult
  <2> QED
    BY <2>1, <2>2, <2>3
<1>4. PICK j : /\ job' = [job EXCEPT ![r] = j]
               /\ job[r].pc \notin Late => j.pc \notin NoRun \cup Late /\ j.sub = job[r].sub
  <2>1. CASE ScrapeMedia(r) \/ FingerprintMiss(r)
    <3>0. PICK p \in {"fingerprint", "fingerprinted"} : Goto(r, p)
      BY <2>1 DEF ScrapeMedia, FingerprintMiss
    <3> DEFINE j == [job[r] EXCEPT !.pc = p]
    <3>1. j.pc = p /\ j.sub = job[r].sub
      BY <1>2 DEF Jobs
    <3>2. job' = [job EXCEPT ![r] = j]
      BY <3>0 DEF Goto
    <3> HIDE DEF j
    <3> QED
      BY <3>1, <3>2 DEF NoRun, Late
  <2>2. CASE FingerprintHit(r)
    <3>1. PICK url \in Urls :
            job' = [job EXCEPT ![r] = [job[r] EXCEPT !.pc = "hitRows", !.from = url,
                                                     !.work = cache[url].work]]
      BY <2>2 DEF FingerprintHit, Matching
    <3> DEFINE j == [job[r] EXCEPT !.pc = "hitRows", !.from = url, !.work = cache[url].work]
    <3>2. j.pc = "hitRows" /\ j.sub = job[r].sub
      BY <1>2 DEF Jobs
    <3>3. job' = [job EXCEPT ![r] = j]
      BY <3>1
    <3> HIDE DEF j
    <3> QED
      BY <3>2, <3>3 DEF NoRun, Late
  <2>3. CASE HitCache(r) \/ FanOut(r) \/ CacheResult(r)
    BY <2>3 DEF HitCache, FanOut, CacheResult, Goto, Late
  <2>4. CASE FindCandidates(r)
    <3> DEFINE j == [job[r] EXCEPT !.pc = "confirm", !.result = "needs_confirmation"]
    <3>1. j.pc = "confirm" /\ j.sub = job[r].sub
      BY <1>2 DEF Jobs
    <3>2. job' = [job EXCEPT ![r] = j]
      BY <2>4 DEF FindCandidates
    <3> HIDE DEF j
    <3> QED
      BY <3>1, <3>2 DEF NoRun, Late
  <2>5. CASE AddToWatchlist(r)
    <3> DEFINE j == [job[r] EXCEPT !.pc = "source", !.result = "identified"]
    <3>1. j.pc = "source" /\ j.sub = job[r].sub
      BY <1>2 DEF Jobs
    <3>2. job' = [job EXCEPT ![r] = j]
      BY <2>5 DEF AddToWatchlist
    <3> HIDE DEF j
    <3> QED
      BY <3>1, <3>2 DEF NoRun, Late
  <2>6. CASE ReadSource(r)
    <3> DEFINE j == [job[r] EXCEPT !.pc = "settle", !.work = row[job[r].sub].work]
    <3>1. j.pc = "settle" /\ j.sub = job[r].sub
      BY <1>2 DEF Jobs
    <3>2. job' = [job EXCEPT ![r] = j]
      BY <2>6 DEF ReadSource
    <3> HIDE DEF j
    <3> QED
      BY <3>1, <3>2 DEF NoRun, Late
  <2> QED
    BY <2>1, <2>2, <2>3, <2>4, <2>5, <2>6
<1> QED
  BY <1>1, <1>3, <1>4, RunKeeps

LEMMA LastWriteWork ==
  ASSUME TypeInv, WorkInv, NEW r \in Runs,
         HitRows(r) \/ NeedConfirmation(r) \/ Settle(r) \/ Failing(r)
  PROVE  WorkInv'
<1>1. job[r].pc \notin NoRun /\ HandlersRest /\ lost' = lost
  BY FailingStores DEF HitRows, NeedConfirmation, Settle, NoRun, HandlersRest
<1>2. job[r] \in Jobs /\ \A s \in RowsOf(Url(r)) : s \in Submissions /\ row[s] \in Rows
  BY <1>1, RunType DEF TypeInv, TablesOK, RowsOf
<1>3. \A s \in Submissions \ RowsOf(Url(r)) : row'[s] = row[s]
  BY FailingStores DEF HitRows, NeedConfirmation, Settle, StoreFailure, SetStatus, UpdateRows
<1>4. \A s \in RowsOf(Url(r)) : row'[s].status \in {"identified", "needs_confirmation", "failed"}
  <2>1. CASE HitRows(r)
    BY <1>2, <2>1 DEF HitRows, UpdateRows, Rows
  <2>2. CASE NeedConfirmation(r)
    BY <1>2, <2>2 DEF NeedConfirmation, SetStatus, UpdateRows, Rows
  <2>3. CASE Settle(r)
    BY <1>2, <2>3 DEF Settle, UpdateRows, Rows
  <2>4. CASE Failing(r)
    <3>1. PICK cause \in {"content", "permanent", "transient"}, again \in BOOLEAN :
             StoreFailure(r, cause, again)
      BY <2>4, FailingStores
    <3>2. ASSUME NEW x \in Rows
          PROVE  [x EXCEPT !.status = "failed", !.failure = cause].status = "failed"
      BY DEF Rows
    <3>3. \A s \in RowsOf(Url(r)) :
             row'[s] = [row[s] EXCEPT !.status = "failed", !.failure = cause]
      BY <1>2, <3>1 DEF StoreFailure, UpdateRows
    <3> QED
      BY <1>2, <3>2, <3>3
  <2> QED
    BY <2>1, <2>2, <2>3, <2>4
<1>5. PICK j : job' = [job EXCEPT ![r] = j] /\ j.sub = job[r].sub
  <2>1. \A p : [job[r] EXCEPT !.pc = p].sub = job[r].sub
    BY <1>2 DEF Jobs
  <2>2. CASE HitRows(r) \/ NeedConfirmation(r) \/ Settle(r)
    <3>1. PICK p : Goto(r, p)
      BY <2>2 DEF HitRows, NeedConfirmation, Settle
    <3> DEFINE j == [job[r] EXCEPT !.pc = p]
    <3>2. job' = [job EXCEPT ![r] = j] /\ j.sub = job[r].sub
      BY <2>1, <3>1 DEF Goto
    <3> HIDE DEF j
    <3> QED
      BY <3>2
  <2>3. CASE Failing(r)
    <3>1. PICK cause \in {"content", "permanent", "transient"}, again \in BOOLEAN :
             StoreFailure(r, cause, again)
      BY <2>3, FailingStores
    <3> DEFINE j == [job[r] EXCEPT !.pc = "ending", !.again = again]
    <3>2. job' = [job EXCEPT ![r] = j] /\ j.sub = job[r].sub
      BY <1>2, <3>1 DEF StoreFailure, Jobs
    <3> HIDE DEF j
    <3> QED
      BY <3>2
  <2> QED
    BY <2>2, <2>3
<1> QED
  BY <1>1, <1>3, <1>4, <1>5, LastWriteKeeps

LEMMA EndWork ==
  ASSUME TypeInv, WorkInv, NEW r \in Runs, EndRun(r) \/ Crash(r) \/ RefuseFailure(r)
  PROVE  WorkInv'
<1>0. /\ job[r].pc \notin NoRun /\ HandlersRest /\ row' = row
      /\ EndRun(r) => job[r].pc \in Late
  BY DEF EndRun, Crash, RefuseFailure, NoRun, Active, Stages, Pending, HandlersRest, Late
<1>r. job[r].sub \in Submissions /\ job[r] \in Jobs
  BY <1>0, RunType
<1>1. CASE EndRun(r)
  <2>1. PICK j : job' = [job EXCEPT ![r] = j]
    BY <1>1 DEF EndRun
  <2> QED
    BY <1>0, <1>1, <2>1, RunKeeps DEF EndRun
<1>2. ASSUME NEW n, NEW k, lost' = lost,
             job' = [job EXCEPT ![r] = [NewJob(job[r].sub) EXCEPT !.attempt = n, !.stalled = k]]
      PROVE  WorkInv'
  <2> DEFINE j == [NewJob(job[r].sub) EXCEPT !.attempt = n, !.stalled = k]
  <2>1. j.pc = "waiting" /\ j.sub = job[r].sub
    BY <1>r, NewJobType DEF Jobs
  <2>2. job' = [job EXCEPT ![r] = j]
    BY <1>2
  <2> HIDE DEF j
  <2> QED
    BY <1>0, <1>2, <2>1, <2>2, RunKeeps DEF NoRun, Late
<1>3. ASSUME job' = [job EXCEPT ![r] = Ended(r)], lost' = lost \cup RowsOf(Url(r))
      PROVE  WorkInv'
  BY <1>0, <1>3, EndedType, LastWriteKeeps
<1>4. CASE Crash(r)
  BY <1>2, <1>3, <1>4 DEF Crash
<1>5. CASE RefuseFailure(r)
  BY <1>2, <1>3, <1>5 DEF RefuseFailure, NextAttempt
<1> QED
  BY <1>1, <1>4, <1>5

LEMMA NextWork == TypeInv /\ WorkInv /\ [Next]_vars => WorkInv'
<1> SUFFICES ASSUME TypeInv, WorkInv, [Next]_vars
             PROVE  WorkInv'
  OBVIOUS
<1>1. CASE UNCHANGED vars
  BY <1>1 DEF vars, WorkInv, Backed, Live, Owed, Status
<1>2. ASSUME NEW s \in Submissions, InsertRow(s) \/ CreateStep(s) \/ CutCreate(s)
      PROVE  WorkInv'
  BY <1>2, CreateStepWork
<1>3. CASE ReconcilerStep \/ CutReconciler
  BY <1>3, ReconcilerStepWork
<1>4. ASSUME NEW m \in Resolvers,
             (\E s \in Submissions : ReadResolvable(m, s)) \/ (\E w \in Works : Resolve(m, w))
      PROVE  WorkInv'
  BY <1>4, ResolverStepWork
<1>5. ASSUME NEW q \in Retriers,
             RetryStep(q) \/ CutRetry(q) \/ \E s \in Submissions : ReadFailed(q, s)
      PROVE  WorkInv'
  BY <1>5, RetryStepWork
<1>6. ASSUME NEW j \in AdminJobs, NEW s \in Submissions,
             AdminReprocess(j, s) \/ CutAdminReprocess(j, s)
      PROVE  WorkInv'
  BY <1>6, AdminStepWork
<1>7. ASSUME NEW url \in Urls, DropCache(url)
      PROVE  WorkInv'
  BY <1>7 DEF DropCache, WorkInv, Backed, Live, Owed, Status
<1>8. ASSUME NEW r \in Runs, WorkerStep(r) \/ CutRun(r)
      PROVE  WorkInv'
  BY <1>8, StageStepWork, SilentStepWork, LastWriteWork, EndWork DEF WorkerStep, CutRun, Failing
<1> QED
  BY <1>1, <1>2, <1>3, <1>4, <1>5, <1>6, <1>7, <1>8 DEF Next

LEMMA WorkImplies == TypeInv /\ WorkInv => StageHasJob /\ OrphanLostEnqueue
<1> SUFFICES ASSUME TypeInv, WorkInv, NEW s \in Submissions
             PROVE  /\ Live(s) => JobsOf(urlHash[s]) # {}
                    /\ Owed(s) => HandlersOf(s)
  BY DEF WorkInv, Backed, StageHasJob, OrphanLostEnqueue, Attended, InProgress
<1> QED
  BY DEF Live, Owed, JobsOf, HandlersOf, NoRun

LEMMA WorkCorrect == Spec => [](TypeInv /\ WorkInv)
  BY InitType, InitWork, NextType, NextWork, PTL DEF Spec

\* A row never shows a stage of a run that no job is in or will restart, unless BullMQ gave
\* the run up or the row's own enqueue was interrupted, for any number of jobs, handlers,
\* attempts and interruptions.
THEOREM StagesHaveJobs == Spec => []StageHasJob
  BY WorkCorrect, WorkImplies, PTL

\* Every row in progress that nothing attends to has had its enqueue interrupted, absorbed
\* or given up: no interleaving of handlers and runs strands a row otherwise.
THEOREM OrphansLostTheirEnqueue == Spec => []OrphanLostEnqueue
  BY WorkCorrect, WorkImplies, PTL
-----------------------------------------------------------------------------
(* Fanning out.  Entries are added in statements of their own, before or   *)
(* after the rows are written, and three races come between the two.       *)

\* The stages in which a run counts on the work of its own row.
Holding == {"source", "settle", "fanOut", "cacheResult"}

\* A Reel is sent between reuseCachedFingerprint's reading of the rows of its URL and its
\* update of them (pipeline-store.ts:136-142).
SentDuringHit ==
    \E r \in Runs : job[r].pc = "hitRows" /\ \E s \in Submissions : InsertRow(s) /\ urlHash[s] = Url(r)
\* A reprocess request (quota.ts:74) or a cached question (repository.ts:106) takes the work
\* from the row of a run that has given it one and reads it again (pipeline-store.ts:33, 44).
WorkTaken ==
    \E r \in Runs : /\ job[r].pc \in Holding
                    /\ row[job[r].sub].work # None /\ row'[job[r].sub].work = None
\* BullMQ gives up a run between its update of the rows and its entries (pipeline-store.ts:38-42),
\* or a run that was to begin anew there.
GivenUp ==
    \E r \in Runs : \/ job[r].pc = "fanOut" /\ Crash(r) /\ ~(job[r].stalled < MaxStalled)
                    \/ /\ job[r].pc \in {"waiting", "fanOut"} /\ RefuseFailure(r)
                       /\ ~(job[r].attempt < Attempts)
NoRace == ~SentDuringHit /\ ~WorkTaken /\ ~GivenUp

\* What a run's step leaves of its slot and of the others.
RunMoves(r, pc, work, result) ==
    /\ job'[r].pc = pc /\ job'[r].work = work /\ job'[r].result = result
    /\ job'[r].sub = job[r].sub
    /\ \A q \in Runs : q # r => job'[q] = job[q]
RunEnds(r) == job'[r].pc \in NoRun /\ \A q \in Runs : q # r => job'[q] = job[q]

\* Going on.
LEMMA GotoRun ==
  ASSUME TypeInv, NEW r \in Runs, NEW pc, Goto(r, pc)
  PROVE  RunMoves(r, pc, job[r].work, job[r].result)
<1>1. job \in [Runs -> Jobs] /\ job[r] \in Jobs
  BY DEF TypeInv, JobOK
<1> DEFINE j == [job[r] EXCEPT !.pc = pc]
<1>2. j.pc = pc /\ j.work = job[r].work /\ j.result = job[r].result /\ j.sub = job[r].sub
  BY <1>1 DEF Jobs
<1>3. job' = [job EXCEPT ![r] = j]
  BY DEF Goto
<1> HIDE DEF j
<1> QED
  BY <1>1, <1>2, <1>3 DEF RunMoves

\* What each statement of a run does to its job.
LEMMA RunSteps ==
  ASSUME TypeInv, NEW r \in Runs
  PROVE  /\ Begin(r) => RunMoves(r, "scraping", job[r].work, job[r].result)
         /\ ScrapeMedia(r) => RunMoves(r, "fingerprint", job[r].work, job[r].result)
         /\ StartIdentifying(r) => RunMoves(r, "identifying", job[r].work, job[r].result)
         /\ FingerprintMiss(r) => RunMoves(r, "fingerprinted", job[r].work, job[r].result)
         /\ HitRows(r) => RunMoves(r, "hitCache", job[r].work, job[r].result)
         /\ HitCache(r) => RunMoves(r, "ending", job[r].work, job[r].result)
         /\ NeedConfirmation(r) => RunMoves(r, "cacheResult", job[r].work, job[r].result)
         /\ FanOut(r) => RunMoves(r, "cacheResult", job[r].work, job[r].result)
         /\ CacheResult(r) => RunMoves(r, "ending", job[r].work, job[r].result)
         /\ Settle(r) => RunMoves(r, IF job[r].work # None THEN "fanOut" ELSE "cacheResult",
                                  job[r].work, job[r].result)
  BY GotoRun DEF Begin, ScrapeMedia, StartIdentifying, FingerprintMiss, HitRows, HitCache,
                 NeedConfirmation, FanOut, CacheResult, Settle

\* What the statements that carry a result do to it.
LEMMA RunAnswers ==
  ASSUME TypeInv, NEW r \in Runs, job[r].pc \notin NoRun
  PROVE  /\ FindCandidates(r) => RunMoves(r, "confirm", job[r].work, "needs_confirmation")
         /\ AddToWatchlist(r) => RunMoves(r, "source", job[r].work, "identified")
         /\ ReadSource(r) => RunMoves(r, "settle", row[job[r].sub].work, job[r].result)
         /\ Failing(r) => RunMoves(r, "ending", job[r].work, job[r].result)
         /\ FingerprintHit(r) =>
              \E url \in Urls : /\ cache[url] # None /\ cache[url].work # None
                                /\ RunMoves(r, "hitRows", cache[url].work, job[r].result)
                                /\ entries' = entries \cup (Owners(Url(r)) \X {cache[url].work})
<1>1. job \in [Runs -> Jobs] /\ job[r] \in Jobs
  BY DEF TypeInv, JobOK
<1>2. FindCandidates(r) => RunMoves(r, "confirm", job[r].work, "needs_confirmation")
  <2> DEFINE j == [job[r] EXCEPT !.pc = "confirm", !.result = "needs_confirmation"]
  <2>1. j.pc = "confirm" /\ j.work = job[r].work /\ j.result = "needs_confirmation" /\ j.sub = job[r].sub
    BY <1>1 DEF Jobs
  <2>2. FindCandidates(r) => job' = [job EXCEPT ![r] = j]
    BY DEF FindCandidates
  <2> HIDE DEF j
  <2> QED
    BY <1>1, <2>1, <2>2 DEF RunMoves
<1>3. AddToWatchlist(r) => RunMoves(r, "source", job[r].work, "identified")
  <2> DEFINE j == [job[r] EXCEPT !.pc = "source", !.result = "identified"]
  <2>1. j.pc = "source" /\ j.work = job[r].work /\ j.result = "identified" /\ j.sub = job[r].sub
    BY <1>1 DEF Jobs
  <2>2. AddToWatchlist(r) => job' = [job EXCEPT ![r] = j]
    BY DEF AddToWatchlist
  <2> HIDE DEF j
  <2> QED
    BY <1>1, <2>1, <2>2 DEF RunMoves
<1>4. ReadSource(r) => RunMoves(r, "settle", row[job[r].sub].work, job[r].result)
  <2> DEFINE w == row[job[r].sub].work
             j == [job[r] EXCEPT !.pc = "settle", !.work = w]
  <2>2. ReadSource(r) => job' = [job EXCEPT ![r] = j]
    BY DEF ReadSource
  <2> HIDE DEF w
  <2>1. j.pc = "settle" /\ j.work = w /\ j.result = job[r].result /\ j.sub = job[r].sub
    BY <1>1 DEF Jobs
  <2> HIDE DEF j
  <2> QED
    BY <1>1, <2>1, <2>2 DEF RunMoves, w
<1>5. ASSUME Failing(r)
      PROVE  RunMoves(r, "ending", job[r].work, job[r].result)
  <2>0. PICK cause \in {"content", "permanent", "transient"}, again \in BOOLEAN :
           StoreFailure(r, cause, again)
    BY <1>5, FailingStores
  <2> DEFINE j == [job[r] EXCEPT !.pc = "ending", !.again = again]
  <2>1. j.pc = "ending" /\ j.work = job[r].work /\ j.result = job[r].result /\ j.sub = job[r].sub
    BY <1>1 DEF Jobs
  <2>2. job' = [job EXCEPT ![r] = j]
    BY <2>0 DEF StoreFailure
  <2> HIDE DEF j
  <2> QED
    BY <1>1, <2>1, <2>2 DEF RunMoves
<1>6. ASSUME FingerprintHit(r)
      PROVE  \E url \in Urls : /\ cache[url] # None /\ cache[url].work # None
                               /\ RunMoves(r, "hitRows", cache[url].work, job[r].result)
                               /\ entries' = entries \cup (Owners(Url(r)) \X {cache[url].work})
  <2>1. PICK url \in Urls :
           /\ cache[url] # None /\ cache[url].work # None
           /\ entries' = entries \cup (Owners(Url(r)) \X {cache[url].work})
           /\ job' = [job EXCEPT ![r] = [job[r] EXCEPT !.pc = "hitRows", !.from = url,
                                                       !.work = cache[url].work]]
    BY <1>6 DEF FingerprintHit, Matching
  <2> DEFINE w == cache[url].work
             j == [job[r] EXCEPT !.pc = "hitRows", !.from = url, !.work = w]
  <2>2. job' = [job EXCEPT ![r] = j]
    BY <2>1
  <2> HIDE DEF w
  <2>3. j.pc = "hitRows" /\ j.work = w /\ j.result = job[r].result /\ j.sub = job[r].sub
    BY <1>1 DEF Jobs
  <2> HIDE DEF j
  <2>4. RunMoves(r, "hitRows", w, job[r].result)
    BY <1>1, <2>2, <2>3 DEF RunMoves
  <2> QED
    BY <2>1, <2>4 DEF w
<1> QED
  BY <1>2, <1>3, <1>4, <1>5, <1>6

\* A run that ends, crashes or cannot store its failure leaves its slot or waits there with the
\* same row.
LEMMA RunStops ==
  ASSUME TypeInv, NEW r \in Runs, EndRun(r) \/ Crash(r) \/ RefuseFailure(r)
  PROVE  /\ job[r].pc \in Pending \cup Active
         /\ UNCHANGED <<row, entries, cache, create, reconciler, resolver, retrier>>
         /\ \/ RunEnds(r)
            \/ /\ job'[r].pc = "waiting" /\ job'[r].sub = job[r].sub
               /\ \A q \in Runs : q # r => job'[q] = job[q]
         /\ job'[r].pc \in NoRun =>
              \/ EndRun(r)
              \/ Crash(r) /\ ~(job[r].stalled < MaxStalled)
              \/ RefuseFailure(r) /\ ~(job[r].attempt < Attempts)
<1>0. job[r].pc \in Pending \cup Active /\ job[r].pc \notin NoRun
  BY DEF EndRun, Crash, RefuseFailure, Pending, Active, Stages, NoRun
<1>1. job \in [Runs -> Jobs] /\ job[r] \in Jobs /\ job[r].sub \in Submissions
  BY <1>0, RunType DEF TypeInv, JobOK
<1>2. \A q \in Runs : q # r => job'[q] = job[q]
  BY <1>1 DEF EndRun, Crash, RefuseFailure
<1>3. \A a, n : /\ [NewJob(job[r].sub) EXCEPT !.attempt = a, !.stalled = n].pc = "waiting"
                /\ [NewJob(job[r].sub) EXCEPT !.attempt = a, !.stalled = n].sub = job[r].sub
  BY <1>1, NewJobType DEF Jobs
<1>4. Ended(r).pc \in NoRun
  BY EndedType
<1>a. UNCHANGED <<row, entries, cache, create, reconciler, resolver, retrier>>
  BY DEF EndRun, Crash, RefuseFailure
<1>5. ASSUME NEW n, NEW k,
             job'[r] = [NewJob(job[r].sub) EXCEPT !.attempt = n, !.stalled = k]
      PROVE  job'[r].pc = "waiting" /\ job'[r].sub = job[r].sub
  BY <1>3, <1>5
<1>6. ASSUME job'[r] = Ended(r)
      PROVE  RunEnds(r)
  BY <1>2, <1>4, <1>6 DEF RunEnds
<1>7. CASE EndRun(r)
  <2>1. job'[r] = NextAttempt(r) \/ job'[r] = Ended(r)
    BY <1>1, <1>7 DEF EndRun
  <2> QED
    BY <1>0, <1>2, <1>a, <1>5, <1>6, <1>7, <2>1 DEF NextAttempt
<1>8. CASE Crash(r)
  <2>1. /\ job[r].stalled < MaxStalled =>
             job'[r] = [NewJob(job[r].sub) EXCEPT !.attempt = job[r].attempt,
                                                  !.stalled = job[r].stalled + 1]
        /\ ~(job[r].stalled < MaxStalled) => job'[r] = Ended(r)
    BY <1>1, <1>8 DEF Crash
  <2>2. /\ job[r].stalled < MaxStalled => job'[r].pc = "waiting" /\ job'[r].sub = job[r].sub
        /\ ~(job[r].stalled < MaxStalled) => RunEnds(r)
    BY <1>5, <1>6, <2>1
  <2> QED
    BY <1>0, <1>2, <1>a, <1>8, <2>2 DEF NoRun
<1>9. CASE RefuseFailure(r)
  <2>1. /\ job[r].attempt < Attempts => job'[r] = NextAttempt(r)
        /\ ~(job[r].attempt < Attempts) => job'[r] = Ended(r)
    BY <1>1, <1>9 DEF RefuseFailure
  <2>2. /\ job[r].attempt < Attempts => job'[r].pc = "waiting" /\ job'[r].sub = job[r].sub
        /\ ~(job[r].attempt < Attempts) => RunEnds(r)
    BY <1>5, <1>6, <2>1 DEF NextAttempt
  <2> QED
    BY <1>0, <1>2, <1>a, <1>9, <2>2 DEF NoRun
<1> QED
  BY <1>7, <1>8, <1>9

(* The inductive invariant.  Whoever works on a row has found it there...  *)
Present(s) == Status(s) # "absent"
PresentInv ==
    /\ \A s \in Submissions : create[s].pc # "idle" => Present(s)
    /\ reconciler.pc # "idle" => Present(reconciler.sub)
    /\ \A m \in Resolvers : resolver[m].pc # "idle" => Present(resolver[m].sub)
    /\ \A q \in Retriers : retrier[q].pc # "idle" => Present(retrier[q].sub)
    /\ \A r \in Runs : job[r].pc \notin NoRun => Present(job[r].sub)
\* ...what is cached, or has been read from the cache, names a work...
UsableInv ==
    /\ CacheUsable
    /\ \A s \in Submissions :
         create[s].pc = "hit" /\ create[s].hit.status = "identified" => create[s].hit.work # None
\* ...and so does the row of a run that has identified it...
Held(r) ==
    /\ job[r].pc \in Holding /\ job[r].result = "identified" => row[job[r].sub].work # None
    /\ job[r].pc = "settle" => job[r].work # None
HeldInv == \A r \in Runs : Held(r)
\* ...a run that takes a result over has given it to every owner...
HitGiven(r) ==
    job[r].pc = "hitRows" => \A s \in RowsOf(Url(r)) : <<userId[s], job[r].work>> \in entries
HitInv == \A r \in Runs : HitGiven(r)
\* ...and an identified row has its entry, unless a run is about to add it or will begin anew.
Given(s) == <<userId[s], row[s].work>> \in entries
Supports(r, s) ==
    /\ urlHash[job[r].sub] = urlHash[s]
    /\ job[r].pc = "waiting" \/ (job[r].pc = "fanOut" /\ job[r].work = row[s].work)
Fan(s) ==
    Status(s) = "identified" =>
       row[s].work # None /\ (Given(s) \/ \E r \in Runs : Supports(r, s))
KeptInv == PresentInv /\ UsableInv /\ HeldInv
FanInv == KeptInv /\ HitInv /\ \A s \in Submissions : Fan(s)

\* What a step does to a row: nothing, or it writes a status that is no identification, or
\* a work whose entry is there (HitRows: if those of the run are), or one that a run will add.
RowStep(s) ==
    \/ row'[s].status = row[s].status /\ row'[s].work = row[s].work
    \/ row'[s].status \notin {"absent", "identified"}
    \/ /\ row'[s].status # "absent" /\ row'[s].work \in Works
       /\ HitInv => <<userId[s], row'[s].work>> \in entries'
    \/ /\ row'[s].status = "identified" /\ row'[s].work \in Works
       /\ \E r \in Runs : /\ urlHash[job'[r].sub] = urlHash[s] /\ job'[r].pc = "fanOut"
                          /\ job'[r].work = row'[s].work

\* Writing fields of a row.
LEMMA RowFields ==
  ASSUME NEW x \in Rows, NEW st, NEW f, NEW w
  PROVE  /\ [x EXCEPT !.status = st].status = st
         /\ [x EXCEPT !.status = st, !.failure = f].status = st
         /\ [x EXCEPT !.fp = TRUE].status = x.status /\ [x EXCEPT !.fp = TRUE].work = x.work
         /\ [x EXCEPT !.status = st, !.failure = f, !.work = None].status = st
         /\ [x EXCEPT !.work = w].status = x.status /\ [x EXCEPT !.work = w].work = w
         /\ [x EXCEPT !.status = st, !.work = w].status = st
         /\ [x EXCEPT !.status = st, !.work = w].work = w
         /\ [x EXCEPT !.status = st, !.work = w, !.failure = f].status = st
         /\ [x EXCEPT !.status = st, !.work = w, !.failure = f].work = w
         /\ [x EXCEPT !.status = st, !.work = w, !.fp = f].status = st
         /\ [x EXCEPT !.status = st, !.work = w, !.fp = f].work = w
  BY DEF Rows

\* The handlers.
LEMMA CreateRows ==
  ASSUME TypeInv, UsableInv, NEW s \in Submissions, InsertRow(s) \/ CreateStep(s) \/ CutCreate(s)
  PROVE  \A t \in Submissions : RowStep(t)
<1> USE DEF RowStep
<1>0. row \in [Submissions -> Rows] /\ row[s] \in Rows
  BY DEF TypeInv, TablesOK
<1>1. CASE InsertRow(s) \/ Admit(s)
  <2>1. PICK st \in {"queued", "waiting_for_quota"} : row' = [row EXCEPT ![s] = [row[s] EXCEPT !.status = st]]
    BY <1>1 DEF InsertRow, Admit
  <2>2. [row[s] EXCEPT !.status = st].status = st
    BY <1>0, RowFields
  <2> QED
    BY <1>0, <2>1, <2>2
<1>2. CASE ApplyUrlCache(s)
  <2> DEFINE hit == create[s].hit
             new == [row[s] EXCEPT !.status = hit.status, !.work = hit.work, !.fp = hit.fp]
  <2>1. /\ create[s].pc = "hit" /\ row' = [row EXCEPT ![s] = new]
        /\ hit.status = "identified" /\ hit.work # None => <<userId[s], hit.work>> \in entries'
    BY <1>2 DEF ApplyUrlCache
  <2>3. hit.status \in {"identified", "needs_confirmation"} /\ hit.work \in Works \cup {None}
    BY <2>1 DEF TypeInv, HandlersOK, CacheEntries
  <2>4. new.status = hit.status /\ new.work = hit.work
    BY <1>0 DEF Rows
  <2>5. row'[s] = new /\ \A t \in Submissions : t # s => row'[t] = row[t]
    BY <1>0, <2>1
  <2> HIDE DEF new, hit
  <2>6. hit.status = "identified" => hit.work # None
    BY <2>1 DEF UsableInv, hit
  <2> QED
    BY <2>1, <2>3, <2>4, <2>5, <2>6
<1>3. CASE row' = row
  BY <1>3
<1> QED
  BY <1>1, <1>2, <1>3 DEF CreateStep, LookupUrlCache, ReadStatus, EnqueueCreated, CutCreate

\* The reconciler, resolutions and reprocess requests.
LEMMA OtherHandlerRows ==
  ASSUME TypeInv,
         \/ ReconcilerStep \/ CutReconciler \/ \E url \in Urls : DropCache(url)
         \/ \E m \in Resolvers : \/ \E s \in Submissions : ReadResolvable(m, s)
                                 \/ \E w \in Works : Resolve(m, w)
         \/ \E q \in Retriers : RetryStep(q) \/ CutRetry(q) \/ \E s \in Submissions : ReadFailed(q, s)
         \/ \E j \in AdminJobs, s \in Submissions : AdminReprocess(j, s) \/ CutAdminReprocess(j, s)
  PROVE  \A t \in Submissions : RowStep(t)
<1> USE DEF RowStep
<1>0. row \in [Submissions -> Rows]
  BY DEF TypeInv, TablesOK
<1>1. CASE row' = row
  BY <1>1
<1>2. CASE AdmitWaiting \/ DeferWaiting
  <2> DEFINE s == reconciler.sub
  <2>1. s \in Submissions
    BY <1>2 DEF AdmitWaiting, DeferWaiting, TypeInv, HandlersOK
  <2>2. PICK st \in {"queued", "waiting_for_quota"} : row' = [row EXCEPT ![s] = [row[s] EXCEPT !.status = st]]
    BY <1>2 DEF AdmitWaiting, DeferWaiting
  <2>3. [row[s] EXCEPT !.status = st].status = st
    BY <1>0, <2>1, RowFields
  <2> QED
    BY <1>0, <2>1, <2>2, <2>3
<1>3. ASSUME NEW m \in Resolvers, NEW w \in Works, Resolve(m, w)
      PROVE  \A t \in Submissions : RowStep(t)
  <2> DEFINE s == resolver[m].sub
             new == [row[s] EXCEPT !.status = "identified", !.work = w, !.failure = None]
  <2>1. s \in Submissions
    BY <1>3 DEF Resolve, TypeInv, HandlersOK
  <2>2. row' = [row EXCEPT ![s] = new] /\ <<userId[s], w>> \in entries'
    BY <1>3 DEF Resolve
  <2>3. new.status = "identified" /\ new.work = w
    BY <1>0, <2>1, RowFields
  <2> HIDE DEF new
  <2> QED
    BY <1>0, <2>1, <2>2, <2>3
<1>4. ASSUME NEW q \in Retriers, RegisterRetry(q)
      PROVE  \A t \in Submissions : RowStep(t)
  <2> DEFINE s == retrier[q].sub
             new == [row[s] EXCEPT !.status = "queued", !.failure = None, !.work = None]
  <2>1. s \in Submissions
    BY <1>4 DEF RegisterRetry, TypeInv, HandlersOK
  <2>2. row' = [row EXCEPT ![s] = new]
    BY <1>4 DEF RegisterRetry
  <2>3. new.status = "queued"
    BY <1>0, <2>1, RowFields
  <2> HIDE DEF new
  <2> QED
    BY <1>0, <2>1, <2>2, <2>3
<1>5. ASSUME NEW j \in AdminJobs, NEW s \in Submissions, AdminReprocess(j, s) \/ CutAdminReprocess(j, s)
      PROVE  \A t \in Submissions : RowStep(t)
  <2> DEFINE new == [row[s] EXCEPT !.status = "queued", !.failure = None]
  <2>2. row' = [row EXCEPT ![s] = new]
    BY <1>5 DEF AdminReprocess, CutAdminReprocess
  <2>3. new.status = "queued"
    BY <1>0, RowFields
  <2> HIDE DEF new
  <2> QED
    BY <1>0, <2>2, <2>3
<1>6. CASE ReconcilerStep \/ CutReconciler \/ \E url \in Urls : DropCache(url)
  BY <1>1, <1>2, <1>6 DEF ReconcilerStep, ReadWaiting, EnqueueWaiting, PickWaiting, CutReconciler,
                          DropCache
<1>7. ASSUME NEW q \in Retriers, RetryStep(q) \/ CutRetry(q) \/ \E s \in Submissions : ReadFailed(q, s)
      PROVE  \A t \in Submissions : RowStep(t)
  BY <1>1, <1>4, <1>7 DEF RetryStep, RetryLimitExceeded, EnqueueRetry, CutRetry, ReadFailed
<1>8. ASSUME NEW m \in Resolvers, NEW s \in Submissions, ReadResolvable(m, s)
      PROVE  \A t \in Submissions : RowStep(t)
  BY <1>1, <1>8 DEF ReadResolvable
<1> QED
  BY <1>3, <1>5, <1>6, <1>7, <1>8

\* The worker: all rows of the URL are written alike.
LEMMA WorkerRows ==
  ASSUME TypeInv, KeptInv, NEW r \in Runs, WorkerStep(r) \/ CutRun(r)
  PROVE  \A s \in Submissions : RowStep(s)
<1> USE DEF RowStep
<1>0. row \in [Submissions -> Rows] /\ \A s \in RowsOf(Url(r)) : s \in Submissions /\ urlHash[s] = Url(r)
  BY DEF TypeInv, TablesOK, RowsOf
<1>1. CASE row' = row
  BY <1>1
<1>a. ASSUME NEW st \in {"scraping", "identifying", "needs_confirmation"}, SetStatus(Url(r), st)
      PROVE  \A s \in Submissions : RowStep(s)
  <2>1. \A s \in Submissions : row'[s] = IF s \in RowsOf(Url(r)) THEN [row[s] EXCEPT !.status = st] ELSE row[s]
    BY <1>a DEF SetStatus, UpdateRows
  <2>2. \A s \in Submissions : [row[s] EXCEPT !.status = st].status = st
    BY <1>0, RowFields
  <2> QED
    BY <2>1, <2>2
<1>2. CASE FingerprintMiss(r)
  <2>1. \A s \in Submissions : row'[s] = IF s \in RowsOf(Url(r)) THEN [row[s] EXCEPT !.fp = TRUE]
                                                                 ELSE row[s]
    BY <1>2 DEF FingerprintMiss, UpdateRows
  <2>2. \A s \in Submissions : /\ [row[s] EXCEPT !.fp = TRUE].status = row[s].status
                               /\ [row[s] EXCEPT !.fp = TRUE].work = row[s].work
    BY <1>0, RowFields
  <2> QED
    BY <2>1, <2>2
<1>3. CASE Failing(r)
  <2>0. PICK cause \in {"content", "permanent", "transient"}, again \in BOOLEAN :
           StoreFailure(r, cause, again)
    BY <1>3, FailingStores
  <2>1. \A s \in Submissions : row'[s] = IF s \in RowsOf(Url(r))
                                         THEN [row[s] EXCEPT !.status = "failed", !.failure = cause]
                                         ELSE row[s]
    BY <2>0 DEF StoreFailure, UpdateRows
  <2>2. \A s \in Submissions : [row[s] EXCEPT !.status = "failed", !.failure = cause].status = "failed"
    BY <1>0, RowFields
  <2> QED
    BY <2>1, <2>2
<1>4. CASE AddToWatchlist(r)
  <2>1. /\ \A s \in Submissions : row'[s] = IF s \in RowsOf(Url(r))
                                            THEN [row[s] EXCEPT !.work = CatalogWork] ELSE row[s]
        /\ entries' = entries \cup (Owners(Url(r)) \X {CatalogWork})
    BY <1>4 DEF AddToWatchlist, UpdateRows
  <2>2. \A s \in Submissions : /\ [row[s] EXCEPT !.work = CatalogWork].status = row[s].status
                               /\ [row[s] EXCEPT !.work = CatalogWork].work = CatalogWork
    BY <1>0, RowFields
  <2>3. \A s \in RowsOf(Url(r)) : row[s].status # "absent" /\ <<userId[s], CatalogWork>> \in entries'
    BY <2>1 DEF RowsOf, Status, Owners
  <2>4. ASSUME NEW s \in RowsOf(Url(r)) PROVE RowStep(s)
    <3>1. s \in Submissions /\ row'[s] = [row[s] EXCEPT !.work = CatalogWork]
      BY <1>0, <2>1
    <3>2. row'[s].work = CatalogWork /\ row'[s].status = row[s].status
      BY <2>2, <3>1
    <3> QED
      BY <2>3, <3>2 DEF Works
  <2> QED
    BY <2>1, <2>4
<1>5. CASE HitRows(r)
  <2> DEFINE w == job[r].work
  <2>1. /\ \A s \in Submissions : row'[s] =
             IF s \in RowsOf(Url(r))
             THEN [row[s] EXCEPT !.status = "identified", !.work = w, !.fp = TRUE] ELSE row[s]
        /\ entries' = entries /\ job[r].pc = "hitRows"
    BY <1>5 DEF HitRows, UpdateRows
  <2>2. \A s \in Submissions :
           /\ [row[s] EXCEPT !.status = "identified", !.work = w, !.fp = TRUE].status = "identified"
           /\ [row[s] EXCEPT !.status = "identified", !.work = w, !.fp = TRUE].work = w
    BY <1>0, RowFields
  <2>3. HitInv => \A s \in RowsOf(Url(r)) : <<userId[s], w>> \in entries'
    BY <2>1 DEF HitInv, HitGiven
  <2>4. w \in Works
    BY <2>1 DEF TypeInv, JobOK, JobKnows
  <2> QED
    BY <2>1, <2>2, <2>3, <2>4
<1>6. CASE Settle(r)
  <2> DEFINE w == job[r].work
  <2>0. w # None /\ w \in Works /\ job[r].pc = "settle"
    <3>1. job[r].pc = "settle" /\ w # None
      BY <1>6 DEF Settle, KeptInv, HeldInv, Held
    <3>2. w \in Works \cup {None}
      BY DEF TypeInv, JobOK, Jobs
    <3> QED
      BY <3>1, <3>2
  <2>1. \A s \in Submissions : row'[s] =
           IF s \in RowsOf(Url(r)) THEN [row[s] EXCEPT !.status = "identified", !.work = w] ELSE row[s]
    BY <1>6, <2>0 DEF Settle, UpdateRows
  <2>2. \A s \in Submissions :
           /\ [row[s] EXCEPT !.status = "identified", !.work = w].status = "identified"
           /\ [row[s] EXCEPT !.status = "identified", !.work = w].work = w
    BY <1>0, RowFields
  <2>3. job'[r].pc = "fanOut" /\ job'[r].work = w /\ job'[r].sub = job[r].sub
    BY <1>6, <2>0, RunSteps DEF RunMoves
  <2>4. ASSUME NEW s \in RowsOf(Url(r)) PROVE RowStep(s)
    <3>1. s \in Submissions /\ urlHash[job'[r].sub] = urlHash[s]
      BY <1>0, <2>3 DEF Url
    <3>2. row'[s].work = w /\ row'[s].status = "identified"
      BY <2>1, <2>2, <3>1
    <3> QED
      BY <2>0, <2>3, <3>1, <3>2
  <2> QED
    BY <2>1, <2>4
<1>7. CASE Begin(r) \/ StartIdentifying(r) \/ NeedConfirmation(r)
  BY <1>7, <1>a DEF Begin, StartIdentifying, NeedConfirmation
<1> QED
  BY <1>1, <1>2, <1>3, <1>4, <1>5, <1>6, <1>7
  DEF WorkerStep, CutRun, Failing, Crash, RefuseFailure, ScrapeMedia, FingerprintHit, HitCache,
      FindCandidates, ReadSource, FanOut, CacheResult, EndRun

\* Every step, to every row.
LEMMA NextRows ==
  ASSUME TypeInv, KeptInv, [Next]_vars, NEW s \in Submissions
  PROVE  RowStep(s)
<1>1. CASE UNCHANGED vars
  BY <1>1 DEF vars, RowStep
<1>2. CASE \E t \in Submissions : InsertRow(t) \/ CreateStep(t) \/ CutCreate(t)
  BY <1>2, CreateRows DEF KeptInv
<1>3. CASE \E r \in Runs : WorkerStep(r) \/ CutRun(r)
  BY <1>3, WorkerRows
<1> QED
  BY <1>1, <1>2, <1>3, OtherHandlerRows DEF Next

\* Watchlists only grow here, and rows stay.
LEMMA RowsStay ==
  ASSUME TypeInv, KeptInv, [Next]_vars
  PROVE  entries \subseteq entries' /\ \A s \in Submissions : Present(s) => Present(s)'
<1>1. \A s \in Submissions : Present(s) => Present(s)'
  BY NextRows DEF RowStep, Present, Status
<1> SUFFICES entries \subseteq entries'
  BY <1>1
<1>2. CASE UNCHANGED vars
  BY <1>2 DEF vars
<1>3. CASE \E t \in Submissions : InsertRow(t) \/ CreateStep(t) \/ CutCreate(t)
  BY <1>3 DEF InsertRow, CreateStep, CutCreate, LookupUrlCache, ApplyUrlCache, ReadStatus, Admit,
              EnqueueCreated
<1>4. CASE \E r \in Runs : WorkerStep(r) \/ CutRun(r)
  BY <1>4 DEF WorkerStep, CutRun, RefuseStatement, RefuseRefund, RefuseFailure, Crash, Begin,
              ScrapeMedia, StartIdentifying, FingerprintHit, HitRows, HitCache, FingerprintMiss,
              FindCandidates, NeedConfirmation, AddToWatchlist, ReadSource, Settle, FanOut,
              CacheResult, Fail, StoreFailure, EndRun
<1>5. CASE \/ ReconcilerStep \/ CutReconciler \/ \E url \in Urls : DropCache(url)
           \/ \E m \in Resolvers : \/ \E s \in Submissions : ReadResolvable(m, s)
                                   \/ \E w \in Works : Resolve(m, w)
  BY <1>5 DEF ReconcilerStep, CutReconciler, DropCache, ReadResolvable, Resolve, ReadWaiting,
              AdmitWaiting, DeferWaiting, EnqueueWaiting, PickWaiting
<1>6. CASE \/ \E q \in Retriers : RetryStep(q) \/ CutRetry(q) \/ \E s \in Submissions : ReadFailed(q, s)
           \/ \E j \in AdminJobs, s \in Submissions : AdminReprocess(j, s) \/ CutAdminReprocess(j, s)
  BY <1>6 DEF RetryStep, CutRetry, ReadFailed, RegisterRetry, RetryLimitExceeded, EnqueueRetry,
              AdminReprocess, CutAdminReprocess
<1> QED
  BY <1>1, <1>2, <1>3, <1>4, <1>5, <1>6 DEF Next

\* What a step does to a run: nothing, or it starts, ends, begins anew or goes on.
RunStep(r) ==
    \/ job'[r] = job[r]
    \/ job'[r].pc \in NoRun /\ (job[r].pc \in NoRun \/ EndRun(r) \/ Crash(r) \/ RefuseFailure(r))
    \/ /\ job[r].pc \in NoRun /\ job'[r].pc = "waiting"
       /\ Present(job'[r].sub)
    \/ /\ job[r].pc \notin NoRun /\ job'[r].sub = job[r].sub
       /\ \/ job[r].pc = "waiting" /\ job'[r].pc = "scraping" /\ Begin(r)
          \/ job'[r].pc = "waiting"
          \/ /\ job[r].pc # "waiting" /\ job'[r].pc = "ending"
             /\ \A s \in RowsOf(Url(r)) : row'[s].status # "identified"
          \/ /\ job[r].pc \notin {"waiting", "fanOut"}
             /\ job'[r].pc \notin NoRun \cup Holding \cup {"waiting", "hitRows"}
          \/ /\ job[r].pc = "fingerprint" /\ job'[r].pc = "hitRows" /\ row' = row
             /\ \A s \in RowsOf(Url(r)) : <<userId[s], job'[r].work>> \in entries'
          \/ /\ job[r].pc = "identifying" /\ job'[r].pc = "source" /\ row'[job[r].sub].work # None
          \/ job[r].pc = "confirm" /\ job'[r].pc = "cacheResult" /\ job'[r].result # "identified"
          \/ /\ job'[r].result = job[r].result
             /\ \/ /\ job[r].pc = "source" /\ job'[r].pc = "settle" /\ row' = row
                   /\ job'[r].work = row[job[r].sub].work
                \/ job[r].pc = "settle" /\ job'[r].pc \in {"fanOut", "cacheResult"}
                \/ /\ job[r].pc = "fanOut" /\ job'[r].pc = "cacheResult" /\ row' = row
                   /\ \A s \in RowsOf(Url(r)) : <<userId[s], job[r].work>> \in entries'

\* The steps of the worker.
LEMMA WorkerRuns ==
  ASSUME TypeInv, PresentInv, NEW r \in Runs, WorkerStep(r) \/ CutRun(r)
  PROVE  \A q \in Runs : RunStep(q)
<1>0. ASSUME NEW pc, NEW w, NEW res, RunMoves(r, pc, w, res) PROVE \A q \in Runs : q # r => RunStep(q)
  BY <1>0 DEF RunMoves, RunStep
<1> USE DEF RunStep
<1>a. job[r].pc \notin NoRun
  <2>1. CASE WorkerStep(r) /\ ~Failing(r)
    BY <2>1 DEF WorkerStep, Failing, Begin, ScrapeMedia, StartIdentifying, FingerprintHit, HitRows,
                HitCache, FingerprintMiss, FindCandidates, NeedConfirmation, AddToWatchlist,
                ReadSource, Settle, FanOut, CacheResult, EndRun, NoRun
  <2>2. CASE RefuseFailure(r) \/ Crash(r)
    BY <2>2, RunStops DEF Active, Stages, Pending, NoRun
  <2> QED
    BY <2>1, <2>2, FailingStores DEF CutRun, Failing
<1>b. /\ {"source", "settle", "fanOut", "cacheResult"} \cap {"scraping", "fingerprint", "identifying",
            "fingerprinted", "hitCache", "ending", "confirm", "waiting", "hitRows", "none", "used"} = {}
      /\ Holding = {"source", "settle", "fanOut", "cacheResult"} /\ NoRun = {"none", "used"}
  BY DEF Holding, NoRun
<1>1. CASE Begin(r)
  <2>1. job[r].pc = "waiting" /\ RunMoves(r, "scraping", job[r].work, job[r].result)
    BY <1>1, RunSteps DEF Begin
  <2> QED
    BY <1>0, <1>1, <1>a, <2>1 DEF RunMoves
<1>2. CASE \/ ScrapeMedia(r) \/ StartIdentifying(r) \/ FingerprintMiss(r) \/ HitRows(r)
           \/ HitCache(r) \/ CacheResult(r) \/ FindCandidates(r)
  <2>1. job[r].pc \notin {"waiting", "fanOut"}
    BY <1>2 DEF ScrapeMedia, StartIdentifying, FingerprintMiss, HitRows, HitCache, CacheResult,
                FindCandidates
  <2>2. PICK pc \in {"fingerprint", "fingerprinted", "identifying", "hitCache", "ending", "confirm"} :
           \E w, res : RunMoves(r, pc, w, res)
    BY <1>2, <1>a, RunSteps, RunAnswers
  <2> QED
    BY <1>0, <1>a, <1>b, <2>1, <2>2 DEF RunMoves
<1>f. CASE Failing(r)
  <2>1. job[r].pc # "waiting" /\ RunMoves(r, "ending", job[r].work, job[r].result)
    BY <1>f, <1>a, FailingStores, RunAnswers DEF Stages
  <2>2. PICK cause \in {"content", "permanent", "transient"}, again \in BOOLEAN :
           StoreFailure(r, cause, again)
    BY <1>f, FailingStores
  <2>3. ASSUME NEW s \in RowsOf(Url(r)) PROVE row'[s].status # "identified"
    <3>1. row[s] \in Rows /\ s \in Submissions
      BY DEF RowsOf, TypeInv, TablesOK
    <3>2. row'[s] = [row[s] EXCEPT !.status = "failed", !.failure = cause]
      BY <2>2, <3>1 DEF StoreFailure, UpdateRows
    <3> QED
      BY <3>1, <3>2, RowFields
  <2> QED
    BY <1>0, <1>a, <2>1, <2>3 DEF RunMoves
<1>3. CASE FingerprintHit(r)
  <2>1. PICK url \in Urls : /\ RunMoves(r, "hitRows", cache[url].work, job[r].result)
                            /\ entries' = entries \cup (Owners(Url(r)) \X {cache[url].work})
    BY <1>3, <1>a, RunAnswers
  <2>2. \A s \in RowsOf(Url(r)) : <<userId[s], job'[r].work>> \in entries'
    BY <2>1 DEF RunMoves, Owners
  <2>3. job[r].pc = "fingerprint" /\ row' = row
    BY <1>3 DEF FingerprintHit
  <2> QED
    BY <1>0, <1>a, <2>1, <2>2, <2>3 DEF RunMoves
<1>4. CASE AddToWatchlist(r)
  <2>1. job[r].pc = "identifying" /\ RunMoves(r, "source", job[r].work, "identified")
    BY <1>4, <1>a, RunAnswers DEF AddToWatchlist
  <2>2. job[r].sub \in RowsOf(Url(r)) /\ job[r].sub \in Submissions
    BY <1>a, RunType DEF PresentInv, Present, RowsOf, Url
  <2>3. row'[job[r].sub] = [row[job[r].sub] EXCEPT !.work = CatalogWork]
    BY <1>4, <2>2 DEF AddToWatchlist, UpdateRows
  <2>4. row'[job[r].sub].work # None
    BY <2>2, <2>3, RowFields, ConstantsAssumption DEF TypeInv, TablesOK
  <2> QED
    BY <1>0, <1>a, <2>1, <2>4 DEF RunMoves
<1>5. CASE NeedConfirmation(r)
  <2>1. job[r].pc = "confirm" /\ RunMoves(r, "cacheResult", job[r].work, job[r].result)
    BY <1>5, RunSteps DEF NeedConfirmation
  <2>2. job[r].result # "identified"
    BY <2>1 DEF TypeInv, JobOK, JobKnows
  <2> QED
    BY <1>0, <1>a, <2>1, <2>2 DEF RunMoves
<1>6. CASE ReadSource(r)
  <2>1. /\ job[r].pc = "source" /\ row' = row
        /\ RunMoves(r, "settle", row[job[r].sub].work, job[r].result)
    BY <1>6, <1>a, RunAnswers DEF ReadSource
  <2> QED
    BY <1>0, <1>a, <2>1 DEF RunMoves
<1>7. CASE Settle(r)
  <2>1. PICK pc \in {"fanOut", "cacheResult"} : RunMoves(r, pc, job[r].work, job[r].result)
    BY <1>7, RunSteps
  <2>2. job[r].pc = "settle"
    BY <1>7 DEF Settle
  <2> QED
    BY <1>0, <1>a, <2>1, <2>2 DEF RunMoves
<1>8. CASE FanOut(r)
  <2>1. job[r].pc = "fanOut" /\ row' = row /\ RunMoves(r, "cacheResult", job[r].work, job[r].result)
    BY <1>8, RunSteps DEF FanOut
  <2>2. \A s \in RowsOf(Url(r)) : <<userId[s], job[r].work>> \in entries'
    BY <1>8 DEF FanOut, Owners
  <2> QED
    BY <1>0, <1>a, <2>1, <2>2 DEF RunMoves
<1>9. CASE EndRun(r) \/ Crash(r) \/ RefuseFailure(r)
  BY <1>9, <1>a, RunStops DEF RunEnds
<1> QED
  BY <1>1, <1>2, <1>3, <1>4, <1>5, <1>6, <1>7, <1>8, <1>9, <1>f DEF WorkerStep, CutRun, Failing

\* Every step, to every run: the handlers only start runs.
LEMMA NextRuns ==
  ASSUME TypeInv, PresentInv, [Next]_vars
  PROVE  \A r \in Runs : RunStep(r)
<1> USE DEF RunStep
<1>0. job \in [Runs -> Jobs]
  BY DEF TypeInv, JobOK
<1>1. CASE job' = job
  BY <1>1
<1>2. ASSUME NEW s \in Submissions, Present(s), Enqueue(s)
      PROVE  \A r \in Runs : RunStep(r)
  <2>1. urlHash[s] \in Runs
    BY ConstantsAssumption DEF Runs
  <2>2. CASE job[urlHash[s]].pc = "none" /\ job' = [job EXCEPT ![urlHash[s]] = NewJob(s)]
    BY <1>0, <1>2, <2>1, <2>2, NewJobType DEF NoRun
  <2> QED
    BY <1>1, <1>2, <2>2 DEF Enqueue
<1>3. ASSUME NEW s \in Submissions, EnqueueCreated(s) PROVE \A r \in Runs : RunStep(r)
  BY <1>2, <1>3 DEF EnqueueCreated, PresentInv
<1>4. CASE EnqueueWaiting
  <2>1. reconciler.sub \in Submissions /\ Present(reconciler.sub)
    BY <1>4 DEF EnqueueWaiting, PresentInv, TypeInv, HandlersOK
  <2> QED
    BY <1>2, <1>4, <2>1 DEF EnqueueWaiting
<1>5. ASSUME NEW q \in Retriers, EnqueueRetry(q) PROVE \A r \in Runs : RunStep(r)
  <2>1. retrier[q].sub \in Submissions /\ Present(retrier[q].sub)
    BY <1>5 DEF EnqueueRetry, PresentInv, TypeInv, HandlersOK
  <2> QED
    BY <1>2, <1>5, <2>1 DEF EnqueueRetry
<1>6. ASSUME NEW j \in AdminJobs, NEW s \in Submissions, AdminReprocess(j, s)
      PROVE  \A r \in Runs : RunStep(r)
  <2>1. j \in Runs /\ job[j].pc \in NoRun /\ job' = [job EXCEPT ![j] = NewJob(s)] /\ Present(s)
    BY <1>6 DEF AdminReprocess, Runs, NoRun, Present
  <2> QED
    BY <1>0, <2>1, NewJobType
<1>7. ASSUME NEW j \in AdminJobs, NEW s \in Submissions, CutAdminReprocess(j, s)
      PROVE  \A r \in Runs : RunStep(r)
  <2> DEFINE new == [job[j] EXCEPT !.pc = "used"]
  <2>1. j \in Runs /\ job[j].pc \in NoRun /\ job' = [job EXCEPT ![j] = new]
    BY <1>7 DEF CutAdminReprocess, Runs, NoRun
  <2>2. new.pc \in NoRun
    BY <1>0, <2>1 DEF Jobs, NoRun
  <2> HIDE DEF new
  <2> QED
    BY <1>0, <2>1, <2>2
<1>8. CASE UNCHANGED vars \/ ReconcilerStep \/ CutReconciler \/ \E url \in Urls : DropCache(url)
  BY <1>1, <1>4, <1>8 DEF vars, ReconcilerStep, CutReconciler, DropCache, ReadWaiting, AdmitWaiting,
                          DeferWaiting, PickWaiting
<1>9. CASE \E s \in Submissions : InsertRow(s) \/ CreateStep(s) \/ CutCreate(s)
  BY <1>1, <1>3, <1>9 DEF InsertRow, CreateStep, CutCreate, LookupUrlCache, ApplyUrlCache,
                          ReadStatus, Admit
<1>10. CASE \/ \E m \in Resolvers : \/ \E s \in Submissions : ReadResolvable(m, s)
                                    \/ \E w \in Works : Resolve(m, w)
            \/ \E q \in Retriers : RetryStep(q) \/ CutRetry(q) \/ \E s \in Submissions : ReadFailed(q, s)
  BY <1>1, <1>5, <1>10 DEF ReadResolvable, Resolve, RetryStep, CutRetry, ReadFailed, RegisterRetry,
                           RetryLimitExceeded
<1> QED
  BY <1>6, <1>7, <1>8, <1>9, <1>10, WorkerRuns DEF Next

\* Handlers find the rows they work on.
LEMMA NextPresent ==
  ASSUME TypeInv, KeptInv, [Next]_vars
  PROVE  PresentInv'
<1>0. /\ PresentInv
      /\ \A s \in Submissions : Present(s) => row'[s].status # "absent"
      /\ \A s \in Submissions : Present(s) <=> row[s].status # "absent"
  BY RowsStay DEF KeptInv, Present, Status
<1>1. ASSUME NEW r \in Runs, job'[r].pc \notin NoRun PROVE row'[job'[r].sub].status # "absent"
  <2>1. RunStep(r)
    BY <1>0, NextRuns
  <2>2. CASE job[r].pc \in NoRun /\ job'[r].pc = "waiting" /\ Present(job'[r].sub)
    <3>1. TypeInv'
      BY NextType
    <3>2. job'[r].sub \in Submissions
      BY <1>1, <3>1 DEF TypeInv, JobOK, JobKnows
    <3> QED
      BY <1>0, <2>2, <3>2
  <2>3. CASE job[r].pc \notin NoRun /\ job'[r].sub = job[r].sub
    <3>1. job[r].sub \in Submissions
      BY <2>3, RunType
    <3> QED
      BY <1>0, <2>3, <3>1 DEF PresentInv
  <2> QED
    BY <1>1, <2>1, <2>2, <2>3 DEF RunStep
<1>2. ASSUME NEW s \in Submissions, create'[s].pc # "idle" PROVE row'[s].status # "absent"
  <2>1. CASE create[s].pc # "idle"
    BY <1>0, <2>1 DEF PresentInv
  <2>2. CASE create' = create
    BY <1>0, <1>2, <2>2 DEF PresentInv
  <2>3. ASSUME NEW t \in Submissions, InsertRow(t), create[s].pc = "idle" PROVE row'[s].status # "absent"
    <3>1. t = s
      BY <1>2, <2>3 DEF InsertRow, TypeInv, HandlersOK
    <3>2. row'[s] = [row[s] EXCEPT !.status = "queued"] /\ row[s] \in Rows
      BY <2>3, <3>1 DEF InsertRow, TypeInv, TablesOK
    <3> QED
      BY <3>2, RowFields
  <2>4. ASSUME NEW t \in Submissions, CreateStep(t) \/ CutCreate(t), create[s].pc = "idle" PROVE FALSE
    <3>1. create[t].pc # "idle"
      BY <2>4 DEF CreateStep, CutCreate, LookupUrlCache, ApplyUrlCache, ReadStatus, Admit,
                  EnqueueCreated
    <3>2. create'[s] = create[s]
      BY <2>4, <3>1 DEF CreateStep, CutCreate, LookupUrlCache, ApplyUrlCache, ReadStatus, Admit,
                        EnqueueCreated, TypeInv, HandlersOK
    <3> QED
      BY <1>2, <2>4, <3>2
  <2>5. \/ create' = create
        \/ \E t \in Submissions : InsertRow(t) \/ CreateStep(t) \/ CutCreate(t)
    BY DEF Next, vars, ReconcilerStep, ReadWaiting, AdmitWaiting, DeferWaiting, EnqueueWaiting,
           PickWaiting, CutReconciler, DropCache, ReadResolvable, Resolve, RetryStep, CutRetry,
           ReadFailed, RegisterRetry, RetryLimitExceeded, EnqueueRetry, AdminReprocess,
           CutAdminReprocess, WorkerStep, CutRun, RefuseStatement, RefuseRefund, RefuseFailure,
           Crash, Begin, ScrapeMedia, StartIdentifying, FingerprintHit, HitRows, HitCache,
           FingerprintMiss, FindCandidates, NeedConfirmation, AddToWatchlist, ReadSource, Settle,
           FanOut, CacheResult, Fail, StoreFailure, EndRun
  <2> QED
    BY <2>1, <2>2, <2>3, <2>4, <2>5
<1>3. \/ UNCHANGED <<reconciler, resolver, retrier>>
      \/ ReconcilerStep \/ CutReconciler
      \/ \E m \in Resolvers : \/ \E s \in Submissions : ReadResolvable(m, s)
                              \/ \E w \in Works : Resolve(m, w)
      \/ \E q \in Retriers : RetryStep(q) \/ CutRetry(q) \/ \E s \in Submissions : ReadFailed(q, s)
  BY DEF Next, vars, DropCache, AdminReprocess, CutAdminReprocess, InsertRow, CreateStep,
         CutCreate, LookupUrlCache, ApplyUrlCache, ReadStatus, Admit, EnqueueCreated, WorkerStep,
         CutRun, RefuseStatement, RefuseRefund, RefuseFailure, Crash, Begin, ScrapeMedia,
         StartIdentifying, FingerprintHit, HitRows, HitCache, FingerprintMiss, FindCandidates,
         NeedConfirmation, AddToWatchlist, ReadSource, Settle, FanOut, CacheResult, Fail,
         StoreFailure, EndRun
<1> DEFINE Found ==
      /\ reconciler'.pc # "idle" => row'[reconciler'.sub].status # "absent"
      /\ \A m \in Resolvers : resolver'[m].pc # "idle" => row'[resolver'[m].sub].status # "absent"
      /\ \A q \in Retriers : retrier'[q].pc # "idle" => row'[retrier'[q].sub].status # "absent"
<1>4. /\ reconciler.pc # "idle" => row'[reconciler.sub].status # "absent"
      /\ \A m \in Resolvers : resolver[m].pc # "idle" => row'[resolver[m].sub].status # "absent"
      /\ \A q \in Retriers : retrier[q].pc # "idle" => row'[retrier[q].sub].status # "absent"
  BY <1>0 DEF PresentInv, TypeInv, HandlersOK
<1>5. ASSUME UNCHANGED <<reconciler, resolver, retrier>> PROVE Found
  BY <1>4, <1>5
<1>6. ASSUME ReconcilerStep \/ CutReconciler PROVE Found
  <2>1. UNCHANGED <<resolver, retrier>>
    BY <1>6 DEF ReconcilerStep, ReadWaiting, AdmitWaiting, DeferWaiting, EnqueueWaiting,
                PickWaiting, CutReconciler
  <2>2. \/ reconciler'.pc = "idle"
        \/ reconciler.pc # "idle" /\ reconciler'.sub = reconciler.sub
        \/ reconciler'.sub \in Submissions /\ row[reconciler'.sub].status # "absent"
    BY <1>6 DEF ReconcilerStep, ReadWaiting, AdmitWaiting, DeferWaiting, EnqueueWaiting,
                PickWaiting, CutReconciler, TypeInv, HandlersOK, ReconcilerType, Status
  <2> QED
    BY <1>0, <1>4, <2>1, <2>2
<1>7. ASSUME NEW m \in Resolvers, (\E s \in Submissions : ReadResolvable(m, s)) \/ \E w \in Works : Resolve(m, w)
      PROVE  Found
  <2>1. UNCHANGED <<reconciler, retrier>> /\ \A n \in Resolvers : n # m => resolver'[n] = resolver[n]
    BY <1>7 DEF ReadResolvable, Resolve, TypeInv, HandlersOK
  <2>2. resolver'[m].pc = "idle" \/ (resolver'[m].sub \in Submissions /\ row[resolver'[m].sub].status # "absent")
    <3>1. resolver \in [Resolvers -> ResolverType]
      BY DEF TypeInv, HandlersOK
    <3>2. ASSUME NEW s \in Submissions, ReadResolvable(m, s)
          PROVE  resolver'[m].sub = s /\ row[s].status # "absent"
      BY <3>1, <3>2 DEF ReadResolvable, Status
    <3>3. ASSUME NEW w \in Works, Resolve(m, w) PROVE resolver'[m].pc = "idle"
      BY <3>1, <3>3 DEF Resolve
    <3> QED
      BY <1>7, <3>2, <3>3
  <2> QED
    BY <1>0, <1>4, <2>1, <2>2
<1>8. ASSUME NEW q \in Retriers, RetryStep(q) \/ CutRetry(q) \/ \E s \in Submissions : ReadFailed(q, s)
      PROVE  Found
  <2>1. UNCHANGED <<reconciler, resolver>> /\ \A n \in Retriers : n # q => retrier'[n] = retrier[n]
    BY <1>8 DEF RetryStep, CutRetry, ReadFailed, RegisterRetry, RetryLimitExceeded, EnqueueRetry,
                TypeInv, HandlersOK
  <2>2. \/ retrier[q].pc # "idle" /\ retrier'[q].sub = retrier[q].sub
        \/ retrier'[q].sub \in Submissions /\ row[retrier'[q].sub].status # "absent"
    <3>1. CASE RetryStep(q) \/ CutRetry(q)
      BY <3>1 DEF RetryStep, CutRetry, RegisterRetry, RetryLimitExceeded, EnqueueRetry,
                TypeInv, HandlersOK, RetrierType
    <3>2. CASE \E s \in Submissions : ReadFailed(q, s)
      BY <3>2 DEF ReadFailed, TypeInv, HandlersOK, Status
    <3> QED
      BY <1>8, <3>1, <3>2
  <2> QED
    BY <1>0, <1>4, <2>1, <2>2
<1>9. Found
  BY <1>3, <1>5, <1>6, <1>7, <1>8
<1> QED
  BY <1>1, <1>2, <1>9 DEF PresentInv, Present, Status

\* A row appears only when its Reel is sent.
LEMMA Newcomers ==
  ASSUME TypeInv, KeptInv, [Next]_vars, NEW s \in Submissions, ~Present(s)
  PROVE  InsertRow(s) \/ row'[s] = row[s]
<1> USE DEF Present, PresentInv
<1>0. /\ row \in [Submissions -> Rows] /\ PresentInv
      /\ \A url : s \notin RowsOf(url)
  BY DEF TypeInv, TablesOK, KeptInv, RowsOf
<1>1. CASE UNCHANGED vars
  BY <1>1 DEF vars
<1>2. ASSUME NEW t \in Submissions, InsertRow(t) \/ CreateStep(t) \/ CutCreate(t)
      PROVE  InsertRow(s) \/ row'[s] = row[s]
  <2>1. CASE t = s
    <3>1. create[s].pc = "idle"
      BY <1>0
    <3> QED
      BY <1>2, <2>1, <3>1 DEF CreateStep, CutCreate, LookupUrlCache, ApplyUrlCache, ReadStatus,
                              Admit, EnqueueCreated
  <2>2. CASE t # s
    BY <1>0, <1>2, <2>2 DEF InsertRow, CreateStep, CutCreate, LookupUrlCache, ApplyUrlCache,
                            ReadStatus, Admit, EnqueueCreated
  <2> QED
    BY <2>1, <2>2
<1>3. CASE ReconcilerStep \/ CutReconciler \/ \E url \in Urls : DropCache(url)
  <2>1. reconciler.pc # "idle" => reconciler.sub # s
    BY <1>0
  <2> QED
    BY <1>0, <1>3, <2>1 DEF ReconcilerStep, ReadWaiting, AdmitWaiting, DeferWaiting, EnqueueWaiting,
                            PickWaiting, CutReconciler, DropCache
<1>4. ASSUME NEW m \in Resolvers, (\E t \in Submissions : ReadResolvable(m, t)) \/ \E w \in Works : Resolve(m, w)
      PROVE  row'[s] = row[s]
  <2>1. resolver[m].pc # "idle" => resolver[m].sub # s
    BY <1>0
  <2> QED
    BY <1>0, <1>4, <2>1 DEF ReadResolvable, Resolve
<1>5. ASSUME NEW q \in Retriers, RetryStep(q) \/ CutRetry(q) \/ \E t \in Submissions : ReadFailed(q, t)
      PROVE  row'[s] = row[s]
  <2>1. retrier[q].pc # "idle" => retrier[q].sub # s
    BY <1>0
  <2> QED
    BY <1>0, <1>5, <2>1 DEF RetryStep, CutRetry, ReadFailed, RegisterRetry, RetryLimitExceeded,
                            EnqueueRetry
<1>6. ASSUME NEW j \in AdminJobs, NEW t \in Submissions, AdminReprocess(j, t) \/ CutAdminReprocess(j, t)
      PROVE  row'[s] = row[s]
  BY <1>0, <1>6 DEF AdminReprocess, CutAdminReprocess
<1>7. ASSUME NEW r \in Runs, WorkerStep(r) \/ CutRun(r)
      PROVE  row'[s] = row[s]
  BY <1>0, <1>7 DEF WorkerStep, CutRun, RefuseStatement, RefuseRefund, RefuseFailure, Crash,
                    Begin, ScrapeMedia, StartIdentifying, FingerprintHit, HitRows, HitCache,
                    FingerprintMiss, FindCandidates, NeedConfirmation, AddToWatchlist, ReadSource,
                    Settle, FanOut, CacheResult, Fail, StoreFailure, EndRun, SetStatus, UpdateRows
<1> QED
  BY <1>1, <1>2, <1>3, <1>4, <1>5, <1>6, <1>7 DEF Next

\* A run that takes a result over gives it to every owner.
LEMMA NextHit ==
  ASSUME TypeInv, FanInv, [Next]_vars, ~SentDuringHit
  PROVE  HitInv'
<1> SUFFICES ASSUME NEW r \in Runs, job'[r].pc = "hitRows", NEW s \in Submissions,
                    row'[s].status # "absent", urlHash[s] = urlHash[job'[r].sub]
             PROVE  <<userId[s], job'[r].work>> \in entries'
  BY DEF HitInv, HitGiven, RowsOf, Status, Url
<1>1. RunStep(r) /\ entries \subseteq entries'
  BY NextRuns, RowsStay DEF FanInv, KeptInv
<1>2. CASE job'[r] = job[r]
  <2>1. Present(s)
    <3>1. InsertRow(s) => FALSE
      BY <1>2 DEF SentDuringHit, Url
    <3> QED
      BY <3>1, Newcomers DEF FanInv, Present, Status
  <2>2. s \in RowsOf(Url(r))
    BY <1>2, <2>1 DEF RowsOf, Url, Present
  <2> QED
    BY <1>1, <1>2, <2>2 DEF FanInv, KeptInv, HitInv, HitGiven
<1>3. CASE /\ job'[r].sub = job[r].sub /\ row' = row
           /\ \A t \in RowsOf(Url(r)) : <<userId[t], job'[r].work>> \in entries'
  BY <1>3 DEF RowsOf, Url, Status
<1> QED
  BY <1>1, <1>2, <1>3 DEF RunStep, NoRun

\* The row of a run that has identified it keeps a work.
LEMMA NextHeld ==
  ASSUME TypeInv, PresentInv, HeldInv, [Next]_vars, ~WorkTaken
  PROVE  HeldInv'
<1> SUFFICES ASSUME NEW r \in Runs
             PROVE  /\ job'[r].pc \in Holding /\ job'[r].result = "identified" =>
                         row'[job'[r].sub].work # None
                    /\ job'[r].pc = "settle" => job'[r].work # None
  BY DEF HeldInv, Held
<1>1. RunStep(r)
  BY NextRuns
<1>2. job[r].pc \in Holding /\ job[r].result = "identified" =>
         row[job[r].sub].work # None /\ row'[job[r].sub].work # None
  BY DEF HeldInv, Held, WorkTaken
<1>3. job[r].pc = "source" => job[r].result = "identified"
  BY DEF TypeInv, JobOK, JobKnows
<1>4. {"none", "used", "waiting", "scraping", "hitRows", "ending"} \cap Holding = {} /\ "source" \in Holding
      /\ "settle" \in Holding /\ "fanOut" \in Holding
  BY DEF Holding
<1>5. CASE job'[r] = job[r]
  BY <1>2, <1>5 DEF HeldInv, Held
<1>6. CASE job'[r].pc \notin Holding
  BY <1>4, <1>6
<1> QED
  BY <1>1, <1>2, <1>3, <1>4, <1>5, <1>6 DEF RunStep, NoRun

\* What is written to the cache, or read from it, names a work.
LEMMA NextUsable ==
  ASSUME TypeInv, KeptInv, [Next]_vars
  PROVE  UsableInv'
<1> DEFINE Fit(e) == e.status = "identified" => e.work # None
           CacheFits == \A url \in Urls : cache'[url] # None => Fit(cache'[url])
           HitsFit == \A s \in Submissions : create'[s].pc = "hit" => Fit(create'[s].hit)
<1>0. /\ \A url \in Urls : cache[url] # None => Fit(cache[url])
      /\ \A s \in Submissions : create[s].pc = "hit" => Fit(create[s].hit)
      /\ cache \in [Urls -> CacheEntries \cup {None}]
      /\ create \in [Submissions -> CreateType]
      /\ \A s \in Submissions : urlHash[s] \in Urls
  BY ConstantsAssumption DEF KeptInv, UsableInv, CacheUsable, TypeInv, TablesOK, HandlersOK
<1>1. ASSUME NEW url \in Urls, NEW e, Fit(e), NEW c \in Renewed(cache, url, e),
             NEW u \in Urls, c[u] # None
      PROVE  Fit(c[u])
  BY <1>0, <1>1 DEF Renewed
<1>2. ASSUME NEW s \in Submissions, InsertRow(s) \/ CreateStep(s) \/ CutCreate(s)
      PROVE  CacheFits /\ HitsFit
  <2>1. CASE ApplyUrlCache(s)
    <3>1. Fit(create[s].hit) /\ cache' \in Renewed(cache, urlHash[s], create[s].hit)
      BY <1>0, <2>1 DEF ApplyUrlCache
    <3>2. create' = [create EXCEPT ![s] = [pc |-> "done", hit |-> None]]
      BY <2>1 DEF ApplyUrlCache
    <3>3. HitsFit
      BY <1>0, <3>2
    <3> QED
      BY <1>0, <1>1, <3>1, <3>3
  <2>2. CASE LookupUrlCache(s)
    <3>1. /\ cache' = cache
          /\ create' = [create EXCEPT ![s] = IF cache[urlHash[s]] # None
                                             THEN [pc |-> "hit", hit |-> cache[urlHash[s]]]
                                             ELSE [pc |-> "admit", hit |-> None]]
      BY <2>2 DEF LookupUrlCache
    <3> QED
      BY <1>0, <3>1
  <2>3. CASE CutCreate(s)
    <3>1. cache' = cache /\ create' = [create EXCEPT ![s] = [pc |-> "done", hit |-> None]]
      BY <2>3 DEF CutCreate
    <3> QED
      BY <1>0, <3>1
  <2>4. CASE InsertRow(s) \/ ReadStatus(s) \/ Admit(s) \/ EnqueueCreated(s)
    <3>1. PICK pc \in {"lookup", "admitting", "done", "enqueue"} :
             cache' = cache /\ create' = [create EXCEPT ![s].pc = pc]
      BY <2>4 DEF InsertRow, ReadStatus, Admit, EnqueueCreated
    <3>2. create'[s].pc = pc /\ \A t \in Submissions : t # s => create'[t] = create[t]
      BY <1>0, <3>1 DEF CreateType
    <3> QED
      BY <1>0, <3>1, <3>2
  <2> QED
    BY <1>2, <2>1, <2>2, <2>3, <2>4 DEF CreateStep
<1>3. ASSUME NEW r \in Runs, WorkerStep(r) \/ CutRun(r)
      PROVE  CacheFits /\ HitsFit
  <2>1. HitsFit
    <3>1. create' = create
      BY <1>3 DEF WorkerStep, CutRun, RefuseStatement, RefuseRefund, RefuseFailure, Crash, Begin,
                  ScrapeMedia, StartIdentifying, FingerprintHit, HitRows, HitCache,
                  FingerprintMiss, FindCandidates, NeedConfirmation, AddToWatchlist, ReadSource,
                  Settle, FanOut, CacheResult, Fail, StoreFailure, EndRun
    <3> QED
      BY <1>0, <3>1
  <2>2. CASE HitCache(r)
    <3> DEFINE hit == [status |-> "identified", work |-> job[r].work, fp |-> TRUE]
    <3>1. /\ job[r].pc = "hitCache"
          /\ \E c \in Renewed(cache, job[r].from, hit) : cache' = [c EXCEPT ![Url(r)] = hit]
      BY <2>2 DEF HitCache
    <3>2. job[r].work \in Works /\ job[r].from \in Urls
      BY <3>1 DEF TypeInv, JobOK, JobKnows
    <3>3. Fit(hit)
      BY <3>2, ConstantsAssumption DEF Works
    <3> HIDE DEF hit
    <3>4. PICK c \in Renewed(cache, job[r].from, hit) : cache' = [c EXCEPT ![Url(r)] = hit]
      BY <3>1
    <3>5. \A u \in Urls : c[u] # None => Fit(c[u])
      BY <1>1, <3>2, <3>3
    <3>6. DOMAIN c = Urls
      BY <1>0, <3>2 DEF Renewed
    <3>7. \A u \in Urls : cache'[u] = hit \/ cache'[u] = c[u]
      BY <3>4, <3>6
    <3> QED
      BY <2>1, <3>3, <3>5, <3>7
  <2>3. CASE CacheResult(r)
    <3> DEFINE new == [status |-> job[r].result, work |-> row[job[r].sub].work, fp |-> row[job[r].sub].fp]
    <3>1. job[r].pc = "cacheResult" /\ cache' = [cache EXCEPT ![Url(r)] = new]
      BY <2>3 DEF CacheResult
    <3>2. Fit(new)
      BY <3>1 DEF KeptInv, HeldInv, Held, Holding
    <3> HIDE DEF new
    <3>3. \A u \in Urls : cache'[u] = new \/ cache'[u] = cache[u]
      BY <1>0, <3>1
    <3> QED
      BY <1>0, <2>1, <3>2, <3>3
  <2>4. CASE cache' = cache
    BY <1>0, <2>1, <2>4
  <2> QED
    BY <1>3, <2>2, <2>3, <2>4 DEF WorkerStep, CutRun, RefuseStatement, RefuseRefund,
                                  RefuseFailure, Crash, Begin, ScrapeMedia, StartIdentifying,
                                  FingerprintHit, HitRows, FingerprintMiss, FindCandidates,
                                  NeedConfirmation, AddToWatchlist, ReadSource, Settle, FanOut,
                                  Fail, StoreFailure, EndRun
<1>4. ASSUME NEW url \in Urls, DropCache(url)
      PROVE  CacheFits /\ HitsFit
  BY <1>0, <1>4 DEF DropCache
<1>5. ASSUME UNCHANGED <<cache, create>>
      PROVE  CacheFits /\ HitsFit
  BY <1>0, <1>5
<1>6. CacheFits /\ HitsFit
  BY <1>2, <1>3, <1>4, <1>5
  DEF Next, vars, ReconcilerStep, ReadWaiting, AdmitWaiting, DeferWaiting, EnqueueWaiting,
      PickWaiting, CutReconciler, ReadResolvable, Resolve, RetryStep, CutRetry, ReadFailed,
      RegisterRetry, RetryLimitExceeded, EnqueueRetry, AdminReprocess, CutAdminReprocess
<1> QED
  BY <1>6 DEF UsableInv, CacheUsable

\* An identified row keeps its entry or the run that is to add it.
LEMMA NextFan ==
  ASSUME TypeInv, FanInv, [Next]_vars, ~GivenUp, NEW s \in Submissions
  PROVE  Fan(s)'
<1> DEFINE Backing(r) == /\ urlHash[job'[r].sub] = urlHash[s]
                         /\ job'[r].pc = "waiting" \/ (job'[r].pc = "fanOut" /\ job'[r].work = row'[s].work)
           Done == <<userId[s], row'[s].work>> \in entries'
<1> SUFFICES ASSUME row'[s].status = "identified"
             PROVE  row'[s].work # None /\ (Done \/ \E r \in Runs : Backing(r))
  BY DEF Fan, Given, Supports, Status
<1>0. None \notin Works
  BY ConstantsAssumption DEF Works
<1>1. CASE row'[s].status = row[s].status /\ row'[s].work = row[s].work
  <2>1. row[s].work # None /\ (Given(s) \/ \E r \in Runs : Supports(r, s))
    BY <1>1 DEF FanInv, KeptInv, Fan, Status
  <2>2. CASE Given(s)
    BY <1>1, <2>1, <2>2, RowsStay DEF FanInv, Given
  <2>3. ASSUME NEW r \in Runs, Supports(r, s) PROVE Done \/ Backing(r)
    <3>1. RunStep(r) /\ job[r].pc \notin NoRun /\ s \in RowsOf(Url(r))
      BY <1>1, <2>3, NextRuns DEF FanInv, KeptInv, Supports, NoRun, RowsOf, Url, Status
    <3>2. CASE job'[r] = job[r]
      BY <1>1, <2>3, <3>2 DEF Supports
    <3>3. ~(job'[r].pc \in NoRun /\ (EndRun(r) \/ Crash(r) \/ RefuseFailure(r)))
      <4>1. ~EndRun(r)
        BY <2>3 DEF Supports, EndRun
      <4>2. Crash(r) => job[r].pc = "fanOut"
        BY <2>3 DEF Supports, Crash, Active, Stages
      <4> QED
        BY <2>3, <4>1, <4>2, RunStops DEF GivenUp, Supports
    <3>4. ~Begin(r)
      <4>1. Begin(r) => row'[s] = [row[s] EXCEPT !.status = "scraping"]
        BY <3>1 DEF Begin, SetStatus, UpdateRows
      <4>2. row[s] \in Rows
        BY DEF TypeInv, TablesOK
      <4>3. [row[s] EXCEPT !.status = "scraping"].status = "scraping"
        BY <4>2 DEF Rows
      <4> QED
        BY <4>1, <4>3
    <3>5. CASE job'[r].sub = job[r].sub /\ job'[r].pc = "waiting"
      BY <2>3, <3>5 DEF Supports
    <3>6. CASE /\ job[r].pc = "fanOut"
               /\ \A t \in RowsOf(Url(r)) : <<userId[t], job[r].work>> \in entries'
      BY <1>1, <2>3, <3>1, <3>6 DEF Supports
    <3> QED
      BY <2>3, <3>1, <3>2, <3>3, <3>4, <3>5, <3>6 DEF RunStep, Supports
  <2> QED
    BY <1>1, <2>1, <2>2, <2>3
<1>2. CASE row'[s].work \in Works /\ Done
  BY <1>0, <1>2
<1>3. CASE /\ row'[s].work \in Works
           /\ \E r \in Runs : /\ urlHash[job'[r].sub] = urlHash[s] /\ job'[r].pc = "fanOut"
                              /\ job'[r].work = row'[s].work
  BY <1>0, <1>3
<1> QED
  BY <1>1, <1>2, <1>3, NextRows DEF FanInv, RowStep

\* The initial state has no rows.
LEMMA InitKept == Init => KeptInv
  BY DEF Init, KeptInv, PresentInv, UsableInv, CacheUsable, HeldInv, Held, Holding, Status, Present,
         NoJob, NoRun
\* Nor anything identified.
LEMMA InitFan == Init => FanInv
  BY InitKept DEF Init, FanInv, HitInv, HitGiven, Fan, Status, NoJob

\* Every step that takes no work from a run keeps the cache usable...
LEMMA NextKept ==
  ASSUME TypeInv, KeptInv, [Next]_vars, [~WorkTaken]_vars
  PROVE  KeptInv'
<1>1. CASE ~WorkTaken
  BY <1>1, NextPresent, NextUsable, NextHeld DEF KeptInv
<1>2. CASE UNCHANGED vars
  BY <1>2 DEF vars, KeptInv, PresentInv, UsableInv, CacheUsable, HeldInv, Held, Status, Present
<1> QED
  BY <1>1, <1>2

\* ...and every step but the three races keeps identified rows supported.
LEMMA FanInductive ==
  ASSUME TypeInv, FanInv, [Next]_vars, [NoRace]_vars
  PROVE  FanInv'
<1>1. KeptInv'
  BY NextKept DEF NoRace, FanInv
<1>2. CASE NoRace
  <2>1. HitInv'
    BY <1>2, NextHit DEF NoRace
  <2>2. \A s \in Submissions : Fan(s)'
    BY <1>2, NextFan DEF NoRace
  <2> QED
    BY <1>1, <2>1, <2>2 DEF FanInv
<1>3. CASE UNCHANGED vars
  <2>1. HitInv'
    BY <1>3 DEF vars, FanInv, HitInv, HitGiven, Status, RowsOf, Url
  <2>2. \A s \in Submissions : Fan(s)'
    BY <1>3 DEF vars, FanInv, Fan, Given, Supports, Status
  <2> QED
    BY <1>1, <2>1, <2>2 DEF FanInv
<1> QED
  BY <1>2, <1>3

\* Without a job of its URL an identified row has its entry.
LEMMA FanImplies == TypeInv /\ FanInv => FannedOut
<1> SUFFICES ASSUME TypeInv, FanInv, NEW s \in Submissions, Status(s) = "identified", JobsOf(urlHash[s]) = {}
             PROVE  row[s].work # None /\ <<userId[s], row[s].work>> \in entries
  BY DEF FannedOut
<1>1. \A r \in Runs : ~Supports(r, s)
  BY DEF Supports, JobsOf
<1> QED
  BY <1>1 DEF FanInv, Fan, Given

\* Unless one of the three races occurs, an identified row whose URL has no job has a work,
\* and its owner has that work on the watchlist.
THEOREM FannedOutButForRaces == Spec /\ [][NoRace]_vars => []FannedOut
  BY InitType, InitFan, NextType, FanInductive, FanImplies, PTL DEF Spec

\* Unless a row loses the work its run has given it, no cached identification lacks one.
THEOREM CacheUsableButForRaces == Spec /\ [][~WorkTaken]_vars => []CacheUsable
<1>1. KeptInv => CacheUsable
  BY DEF KeptInv, UsableInv
<1> QED
  BY <1>1, InitType, InitKept, NextType, NextKept, PTL DEF Spec
=============================================================================
