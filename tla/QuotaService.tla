---------------------------- MODULE QuotaService ----------------------------
(***************************************************************************)
(* Daily quotas, retries and refunds: src/quota.ts, src/quota-reconciler.ts *)
(* and the handlers around them.                                           *)
(*                                                                         *)
(* Every transaction runs under READ COMMITTED and is split where another  *)
(* connection can come between: the reads that precede its advisory lock,  *)
(* the acquisition of each lock with the reads made under it, and its      *)
(* writes, which become visible together at the commit.  A lock is held by *)
(* the transactions whose pc lies between its acquisition and the commit;  *)
(* advisory xact locks have no other owner, so no variable records them.   *)
(* The identification pipeline appears by what it does to the rows of a    *)
(* URL and to reservations; SubmissionPipeline models the rest of it.      *)
(***************************************************************************)
EXTENDS Naturals, FiniteSets

CONSTANTS
    Users,          \* users with submissions
    Urls,           \* normalized URL hashes
    Submissions,    \* rows that may be created; a user has one row per URL
    userId,         \* owner of each submission
    urlHash,        \* URL of each submission
    Reconcilers,    \* processes running startQuotaReconciler, one per API process
    Retriers,       \* concurrent POST /submissions/:id/reprocess requests
    AdminJobs,      \* queue slots of admin reprocess jobs, which have unique ids
    DefaultNovel, DefaultRetry,  \* column defaults of quota_settings
    NovelCap, RetryCap,          \* the largest limits an administrator may set
    GlobalChoices, OverrideChoices, \* limits the administrator picks from
    Outcomes,       \* outcomes of an identification attempt a run explores
    LastDay,        \* bound on calendar days
    Batch,          \* admitWaiting's limit, 100 in the code
    Attempts,       \* BullMQ attempts per job, 3 in the code
    None            \* SQL null

Days == 1..LastDay
Limits == [novel : 1..NovelCap, retry : 0..RetryCap]
Overrides == [novel : (1..NovelCap) \cup {None}, retry : (0..RetryCap) \cup {None}]
Failures == {"content", "permanent", "transient"}
Admitters == Submissions \cup Reconcilers
Runs == Urls \cup AdminJobs

ASSUME OwnersAssumption ==
    /\ userId \in [Submissions -> Users]
    /\ urlHash \in [Submissions -> Urls]
    /\ \A s, t \in Submissions : userId[s] = userId[t] /\ urlHash[s] = urlHash[t] => s = t
ASSUME ProcessesAssumption ==
    /\ Submissions \cap Reconcilers = {}
    /\ Urls \cap AdminJobs = {}
ASSUME LimitsAssumption ==
    /\ NovelCap \in Nat /\ RetryCap \in Nat
    /\ DefaultNovel \in 1..NovelCap /\ DefaultRetry \in 0..RetryCap
    /\ GlobalChoices \subseteq Limits /\ OverrideChoices \subseteq Overrides
    /\ None \notin Nat
ASSUME BoundsAssumption ==
    /\ LastDay \in Nat \ {0} /\ Batch \in Nat \ {0} /\ Attempts \in Nat \ {0}
    /\ Outcomes \subseteq Failures \cup {"identified", "fingerprint"}

VARIABLES
    clock, created,   \* last createdAt handed out; createdAt of each row, 0 before
    status, failure,  \* reel_submissions.status; class of failureCode
    charged, window,  \* quotaCharged; quotaWindowDate, 0 for null
    usage, retries,   \* daily_quota_usage, daily_retry_usage
    globalLimit, override, \* quota_settings, user_quota_overrides
    day,              \* today in São Paulo
    cached,           \* URLs with an unexpired identification in the cache
    admit,            \* one createSubmission handler or admitSubmission call per admitter
    batch,            \* the pass of each reconciler
    retry,            \* one registerRetry call per retrier
    run               \* BullMQ jobs: one slot per URL, one per admin job

rowVars   == <<clock, created, status, failure, charged, window>>
countVars == <<usage, retries>>
limitVars == <<globalLimit, override>>
procVars  == <<admit, batch, retry, run>>
vars      == <<rowVars, countVars, limitVars, day, cached, procVars>>

Statuses == {"absent", "queued", "waiting_for_quota", "scraping", "identified", "failed"}
AdmitPcs == {"idle", "insert", "lookup", "start", "url", "free", "window", "commit",
             "enqueue", "done"}

\* Type correctness: in particular a transaction works on a row that exists, no
\* counter is negative (quota.ts:102) and no job is tried more than Attempts times
\* (queue.ts:26).
TypeOK ==
    /\ clock \in Nat /\ created \in [Submissions -> Nat]
    /\ status \in [Submissions -> Statuses]
    /\ failure \in [Submissions -> Failures \cup {None}]
    /\ charged \in [Submissions -> BOOLEAN]
    /\ window \in [Submissions -> 0..LastDay]
    /\ usage \in [Users -> [Days -> Nat]]
    /\ retries \in [Submissions -> [Days -> Nat]]
    /\ globalLimit \in Limits
    /\ override \in [Users -> Overrides]
    /\ day \in Days
    /\ cached \in SUBSET Urls
    /\ admit \in [Admitters -> [pc : AdmitPcs, sub : Submissions \cup {None},
                                window : 0..LastDay, limit : Nat, used : Nat]]
    /\ batch \in [Reconcilers -> [todo : SUBSET Submissions, admitted : SUBSET Submissions]]
    /\ retry \in [Retriers -> [pc : {"idle", "lock", "commit", "enqueue"},
                               sub : Submissions \cup {None},
                               window : 0..LastDay, limit : Nat, used : Nat]]
    /\ run \in [Runs -> [pc : {"none", "waiting", "active", "select", "refund", "refunding"},
                         sub : Submissions \cup {None}, attempt : 0..Attempts,
                         after : {"stop", "retry", "hit"}, todo : SUBSET Submissions,
                         item : Submissions \cup {None}, window : 0..LastDay]]

Txn(pc, s, d) == [pc |-> pc, sub |-> s, window |-> d, limit |-> 0, used |-> 0]
Idle == Txn("idle", None, 0)
Job(pc, s, n) == [pc |-> pc, sub |-> s, attempt |-> n, after |-> "stop", todo |-> {},
                  item |-> None, window |-> 0]
NoJob == Job("none", None, 0)

Init ==
    /\ clock = 0 /\ created = [s \in Submissions |-> 0]
    /\ status = [s \in Submissions |-> "absent"]
    /\ failure = [s \in Submissions |-> None]
    /\ charged = [s \in Submissions |-> FALSE]
    /\ window = [s \in Submissions |-> 0]
    /\ usage = [u \in Users |-> [d \in Days |-> 0]]
    /\ retries = [s \in Submissions |-> [d \in Days |-> 0]]
    /\ globalLimit = [novel |-> DefaultNovel, retry |-> DefaultRetry]
    /\ override = [u \in Users |-> [novel |-> None, retry |-> None]]
    /\ day = 1
    /\ cached = {}
    /\ admit = [p \in Admitters |->
                  IF p \in Submissions THEN Txn("idle", p, 0) ELSE Idle]
    /\ batch = [r \in Reconcilers |-> [todo |-> {}, admitted |-> {}]]
    /\ retry = [q \in Retriers |-> Idle]
    /\ run = [r \in Runs |-> NoJob]
-----------------------------------------------------------------------------
(* Reads                                                                   *)

Visible(s) == status[s] # "absent"
RowsOf(url) == {s \in Submissions : Visible(s) /\ urlHash[s] = url}
WaitingMutant == {s \in Submissions : status[s] = "queued"}
Waiting == {s \in Submissions : status[s] = "waiting_for_quota"}

\* The first row of the URL by createdAt; createdAt values are distinct here,
\* where the code breaks a tie by id.
Earliest(s) == \A t \in RowsOf(urlHash[s]) : created[s] <= created[t]

NovelLimit(u) == IF override[u].novel # None THEN override[u].novel ELSE globalLimit.novel
RetryLimit(u) == IF override[u].retry # None THEN override[u].retry ELSE globalLimit.retry

UrlLockedMutant(url) ==
    \E p \in Admitters : /\ admit[p].pc \in {"url", "free", "window", "commit"}
                         /\ urlHash[admit[p].sub] = url
UrlLocked(url) ==
    \E p \in Admitters : /\ admit[p].pc \in {"free", "window", "commit"}
                         /\ urlHash[admit[p].sub] = url

WindowLockedMutant(u, d) == FALSE
WindowLocked(u, d) ==
    \E p \in Admitters : /\ admit[p].pc = "commit"
                         /\ userId[admit[p].sub] = u
                         /\ admit[p].window = d

RetryLockedMutant(s, d) == FALSE
RetryLocked(s, d) ==
    \E q \in Retriers : retry[q].pc = "commit" /\ retry[q].sub = s /\ retry[q].window = d
-----------------------------------------------------------------------------
(* The queue: a job id is a URL hash, so a pending job absorbs later calls *)

Enqueue(s) ==
    run' = IF run[urlHash[s]].pc = "none"
           THEN [run EXCEPT ![urlHash[s]] = Job("waiting", s, 1)]
           ELSE run

(* createSubmission, up to the call of admitSubmission                     *)

\* The insert statement takes its createdAt when it starts...
StampRow(s) ==
    /\ admit[s].pc = "idle"
    /\ clock' = clock + 1
    /\ created' = [created EXCEPT ![s] = clock + 1]
    /\ admit' = [admit EXCEPT ![s].pc = "insert"]
    /\ UNCHANGED <<status, failure, charged, window, countVars, limitVars, day, cached,
                   batch, retry, run>>

\* ...and the row is visible to others when it commits.
InsertRow(s) ==
    /\ admit[s].pc = "insert"
    /\ status' = [status EXCEPT ![s] = "queued"]
    /\ admit' = [admit EXCEPT ![s].pc = "lookup"]
    /\ UNCHANGED <<clock, created, failure, charged, window, countVars, limitVars, day,
                   cached, batch, retry, run>>

ApplyUrlCache(s) ==
    /\ admit[s].pc = "lookup"
    /\ IF urlHash[s] \in cached
       THEN /\ status' = [status EXCEPT ![s] = "identified"]
            /\ admit' = [admit EXCEPT ![s].pc = "done"]
       ELSE /\ admit' = [admit EXCEPT ![s].pc = "start"]
            /\ UNCHANGED status
    /\ UNCHANGED <<clock, created, failure, charged, window, countVars, limitVars, day,
                   cached, batch, retry, run>>

EnqueueAdmitted(s) ==
    /\ admit[s].pc = "enqueue"
    /\ Enqueue(s)
    /\ admit' = [admit EXCEPT ![s].pc = "done"]
    /\ UNCHANGED <<rowVars, countVars, limitVars, day, cached, batch, retry>>
-----------------------------------------------------------------------------
(* admitSubmission, called by a createSubmission handler or a reconciler   *)

\* What the caller does with the answer: the handler enqueues or returns, the
\* reconciler collects the item and goes on to the next one.
Return(p, ok) ==
    LET s == admit[p].sub IN
    IF p \in Submissions
    THEN /\ admit' = [admit EXCEPT ![p] = Txn(IF ok THEN "enqueue" ELSE "done", p, 0)]
         /\ UNCHANGED batch
    ELSE /\ admit' = [admit EXCEPT ![p] = Idle]
         /\ batch' = [batch EXCEPT ![p] = [todo |-> @.todo \ {s},
                                           admitted |-> @.admitted \cup IF ok THEN {s} ELSE {}]]

\* The status is read here, before any lock, and never again.
ReadSubmission(p) ==
    /\ admit[p].pc = "start"
    /\ IF status[admit[p].sub] \in {"queued", "waiting_for_quota"}
       THEN admit' = [admit EXCEPT ![p].pc = "url"] /\ UNCHANGED batch
       ELSE Return(p, FALSE)
    /\ UNCHANGED <<rowVars, countVars, limitVars, day, cached, retry, run>>

LockUrl(p) ==
    /\ admit[p].pc = "url"
    /\ ~UrlLocked(urlHash[admit[p].sub])
    /\ admit' = IF Earliest(admit[p].sub)
                THEN [admit EXCEPT ![p] = [@ EXCEPT !.pc = "window", !.window = day]]
                ELSE [admit EXCEPT ![p].pc = "free"]
    /\ UNCHANGED <<rowVars, countVars, limitVars, day, cached, batch, retry, run>>

AdmitFree(p) ==
    LET s == admit[p].sub IN
    /\ admit[p].pc = "free"
    /\ status' = [status EXCEPT ![s] = "queued"]
    /\ charged' = [charged EXCEPT ![s] = FALSE]
    /\ window' = [window EXCEPT ![s] = 0]
    /\ Return(p, TRUE)
    /\ UNCHANGED <<clock, created, failure, countVars, limitVars, day, cached, retry, run>>

LockWindow(p) ==
    LET u == userId[admit[p].sub] IN
    /\ admit[p].pc = "window"
    /\ ~WindowLocked(u, admit[p].window)
    /\ admit' = [admit EXCEPT ![p] = [@ EXCEPT !.pc = "commit", !.limit = NovelLimit(u),
                                             !.used = usage[u][admit[p].window]]]
    /\ UNCHANGED <<rowVars, countVars, limitVars, day, cached, batch, retry, run>>

Defer(p) ==
    LET s == admit[p].sub IN
    /\ admit[p].pc = "commit"
    /\ admit[p].used >= admit[p].limit
    /\ status' = [status EXCEPT ![s] = "waiting_for_quota"]
    /\ charged' = [charged EXCEPT ![s] = FALSE]
    /\ window' = [window EXCEPT ![s] = 0]
    /\ Return(p, FALSE)
    /\ UNCHANGED <<clock, created, failure, countVars, limitVars, day, cached, retry, run>>

Charge(p) ==
    LET s == admit[p].sub IN
    /\ admit[p].pc = "commit"
    /\ admit[p].used < admit[p].limit
    /\ usage' = [usage EXCEPT ![userId[s]][admit[p].window] = @ + 1]
    /\ status' = [status EXCEPT ![s] = "queued"]
    /\ charged' = [charged EXCEPT ![s] = TRUE]
    /\ window' = [window EXCEPT ![s] = admit[p].window]
    /\ Return(p, TRUE)
    /\ UNCHANGED <<clock, created, failure, retries, limitVars, day, cached, retry, run>>
-----------------------------------------------------------------------------
(* The reconciler's pass: admitWaiting, then one enqueue per admitted item *)

StartPass(r) ==
    /\ admit[r].pc = "idle" /\ batch[r].todo = {} /\ batch[r].admitted = {}
    /\ batch' = [batch EXCEPT ![r].todo =
                   {s \in Waiting :
                      Cardinality({t \in Waiting : created[t] < created[s]}) < Batch}]
    /\ UNCHANGED <<rowVars, countVars, limitVars, day, cached, admit, retry, run>>

AdmitNext(r) ==
    /\ admit[r].pc = "idle"
    /\ \E s \in batch[r].todo :
         /\ \A t \in batch[r].todo : created[s] <= created[t]
         /\ admit' = [admit EXCEPT ![r] = Txn("start", s, 0)]
    /\ UNCHANGED <<rowVars, countVars, limitVars, day, cached, batch, retry, run>>

EnqueueNext(r) ==
    /\ admit[r].pc = "idle" /\ batch[r].todo = {}
    /\ \E s \in batch[r].admitted :
         /\ \A t \in batch[r].admitted : created[s] <= created[t]
         /\ Enqueue(s)
         /\ batch' = [batch EXCEPT ![r].admitted = @ \ {s}]
    /\ UNCHANGED <<rowVars, countVars, limitVars, day, cached, admit, retry>>
-----------------------------------------------------------------------------
(* registerRetry and the enqueue that follows it                           *)

ReadFailed(q, s) ==
    /\ retry[q].pc = "idle"
    /\ status[s] = "failed" /\ failure[s] = "transient"
    /\ retry' = [retry EXCEPT ![q] = Txn("lock", s, day)]
    /\ UNCHANGED <<rowVars, countVars, limitVars, day, cached, admit, batch, run>>

LockRetry(q) ==
    LET s == retry[q].sub IN
    /\ retry[q].pc = "lock"
    /\ ~RetryLocked(s, retry[q].window)
    /\ retry' = [retry EXCEPT ![q] = [@ EXCEPT !.pc = "commit", !.limit = RetryLimit(userId[s]),
                                             !.used = retries[s][retry[q].window]]]
    /\ UNCHANGED <<rowVars, countVars, limitVars, day, cached, admit, batch, run>>

RetryLimitExceeded(q) ==
    /\ retry[q].pc = "commit"
    /\ retry[q].used >= retry[q].limit
    /\ retry' = [retry EXCEPT ![q] = Idle]
    /\ UNCHANGED <<rowVars, countVars, limitVars, day, cached, admit, batch, run>>

RegisterRetry(q) ==
    LET s == retry[q].sub IN
    /\ retry[q].pc = "commit"
    /\ retry[q].used < retry[q].limit
    /\ retries' = [retries EXCEPT ![s][retry[q].window] = @ + 1]
    /\ status' = [status EXCEPT ![s] = "queued"]
    /\ failure' = [failure EXCEPT ![s] = None]
    /\ retry' = [retry EXCEPT ![q].pc = "enqueue"]
    /\ UNCHANGED <<clock, created, charged, window, usage, limitVars, day, cached, admit,
                   batch, run>>

EnqueueRetry(q) ==
    /\ retry[q].pc = "enqueue"
    /\ Enqueue(retry[q].sub)
    /\ retry' = [retry EXCEPT ![q] = Idle]
    /\ UNCHANGED <<rowVars, countVars, limitVars, day, cached, admit, batch>>
-----------------------------------------------------------------------------
(* The administrator                                                       *)

UpdateGlobalQuotas(l) ==
    /\ globalLimit' = l
    /\ UNCHANGED <<rowVars, countVars, override, day, cached, procVars>>

UpdateUserQuotas(u, l) ==
    /\ override' = [override EXCEPT ![u] = l]
    /\ UNCHANGED <<rowVars, countVars, globalLimit, day, cached, procVars>>

\* Any row, whatever its status, goes back to the queue under a job id of its own.
AdminReprocess(j, s) ==
    /\ run[j].pc = "none"
    /\ Visible(s)
    /\ status' = [status EXCEPT ![s] = "queued"]
    /\ failure' = [failure EXCEPT ![s] = None]
    /\ run' = [run EXCEPT ![j] = Job("waiting", s, 1)]
    /\ UNCHANGED <<clock, created, charged, window, countVars, limitVars, day, cached, admit,
                   batch, retry>>
-----------------------------------------------------------------------------
(* The worker, seen from the quota: setStatus writes every row of the URL  *)

SetStatus(url, st) ==
    status' = [s \in Submissions |-> IF s \in RowsOf(url) THEN st ELSE status[s]]

StartRun(r) ==
    /\ run[r].pc = "waiting"
    /\ SetStatus(urlHash[run[r].sub], "scraping")
    /\ run' = [run EXCEPT ![r].pc = "active"]
    /\ UNCHANGED <<clock, created, failure, charged, window, countVars, limitVars, day, cached,
                   admit, batch, retry>>

Identify(r) ==
    /\ run[r].pc = "active" /\ "identified" \in Outcomes
    /\ SetStatus(urlHash[run[r].sub], "identified")
    /\ cached' = cached \cup {urlHash[run[r].sub]}
    /\ run' = [run EXCEPT ![r] = NoJob]
    /\ UNCHANGED <<clock, created, failure, charged, window, countVars, limitVars, day, admit,
                   batch, retry>>

\* reuseCachedFingerprint: only the submission the job names is refunded.
FingerprintHit(r) ==
    /\ run[r].pc = "active" /\ "fingerprint" \in Outcomes
    /\ SetStatus(urlHash[run[r].sub], "identified")
    /\ run' = [run EXCEPT ![r] = [@ EXCEPT !.pc = "refund", !.after = "hit", !.todo = {run[r].sub}]]
    /\ UNCHANGED <<clock, created, failure, charged, window, countVars, limitVars, day, cached,
                   admit, batch, retry>>

\* low_confidence and catalog_no_match keep the reservation and end the job.
FailContent(r) ==
    LET url == urlHash[run[r].sub] IN
    /\ run[r].pc = "active" /\ "content" \in Outcomes
    /\ SetStatus(url, "failed")
    /\ failure' = [s \in Submissions |-> IF s \in RowsOf(url) THEN "content" ELSE failure[s]]
    /\ run' = [run EXCEPT ![r] = NoJob]
    /\ UNCHANGED <<clock, created, charged, window, countVars, limitVars, day, cached, admit,
                   batch, retry>>

\* Every other failure refunds; a recoverable one is rethrown to BullMQ afterwards.
FailTechnical(r, cause) ==
    LET url == urlHash[run[r].sub] IN
    /\ run[r].pc = "active" /\ cause \in Outcomes
    /\ SetStatus(url, "failed")
    /\ failure' = [s \in Submissions |-> IF s \in RowsOf(url) THEN cause ELSE failure[s]]
    /\ run' = [run EXCEPT ![r] = [@ EXCEPT !.pc = "select",
                                         !.after = IF cause = "transient" THEN "retry" ELSE "stop"]]
    /\ UNCHANGED <<clock, created, charged, window, countVars, limitVars, day, cached, admit,
                   batch, retry>>

SelectMatches(r) ==
    /\ run[r].pc = "select"
    /\ run' = [run EXCEPT ![r] = [@ EXCEPT !.pc = "refund", !.todo = RowsOf(urlHash[run[r].sub])]]
    /\ UNCHANGED <<rowVars, countVars, limitVars, day, cached, admit, batch, retry>>

HoldsReservation(s) == charged[s] /\ window[s] # 0

\* refundTechnicalFailure reads the reservation before it takes the lock...
ReadReservation(r, s) ==
    /\ run[r].pc = "refund" /\ s \in run[r].todo
    /\ run' = IF HoldsReservation(s)
              THEN [run EXCEPT ![r] = [@ EXCEPT !.pc = "refunding", !.item = s,
                                              !.window = window[s], !.todo = run[r].todo \ {s}]]
              ELSE [run EXCEPT ![r].todo = @ \ {s}]
    /\ UNCHANGED <<rowVars, countVars, limitVars, day, cached, admit, batch, retry>>

\* ...and reads nothing under it: acquisition, writes and commit are one step.
RefundMutant(r) ==
    LET s == run[r].item IN
    /\ run[r].pc = "refunding"
    /\ usage' = [usage EXCEPT ![userId[s]][run[r].window] = IF @ = 0 THEN 0 ELSE @ - 1]
    /\ run' = [run EXCEPT ![r] = [@ EXCEPT !.pc = "refund", !.item = None, !.window = 0]]
    /\ UNCHANGED <<rowVars, retries, limitVars, day, cached, admit, batch, retry>>
Refund(r) ==
    LET s == run[r].item IN
    /\ run[r].pc = "refunding"
    /\ ~WindowLocked(userId[s], run[r].window)
    /\ usage' = [usage EXCEPT ![userId[s]][run[r].window] = IF @ = 0 THEN 0 ELSE @ - 1]
    /\ charged' = [charged EXCEPT ![s] = FALSE]
    /\ run' = [run EXCEPT ![r] = [@ EXCEPT !.pc = "refund", !.item = None, !.window = 0]]
    /\ UNCHANGED <<clock, created, status, failure, window, retries, limitVars, day, cached,
                   admit, batch, retry>>

FinishRunMutant(r) ==
    /\ run[r].pc = "refund" /\ run[r].todo = {}
    /\ run' = IF run[r].after = "retry" /\ run[r].attempt <= Attempts
              THEN [run EXCEPT ![r] = Job("waiting", run[r].sub, run[r].attempt + 1)]
              ELSE [run EXCEPT ![r] = NoJob]
    /\ UNCHANGED <<rowVars, countVars, limitVars, day, cached, admit, batch, retry>>
FinishRun(r) ==
    /\ run[r].pc = "refund" /\ run[r].todo = {}
    /\ run' = IF run[r].after = "retry" /\ run[r].attempt < Attempts
              THEN [run EXCEPT ![r] = Job("waiting", run[r].sub, run[r].attempt + 1)]
              ELSE [run EXCEPT ![r] = NoJob]
    /\ cached' = IF run[r].after = "hit" THEN cached \cup {urlHash[run[r].sub]} ELSE cached
    /\ UNCHANGED <<rowVars, countVars, limitVars, day, admit, batch, retry>>
-----------------------------------------------------------------------------
(* Time                                                                    *)

NextDay ==
    /\ day < LastDay
    /\ day' = day + 1
    /\ UNCHANGED <<rowVars, countVars, limitVars, cached, procVars>>

\* The 180-day expiry of a cached identification, or its removal by an administrator.
ExpireCache(url) ==
    /\ url \in cached
    /\ cached' = cached \ {url}
    /\ UNCHANGED <<rowVars, countVars, limitVars, day, procVars>>
-----------------------------------------------------------------------------
SubmitStep(s) == StampRow(s) \/ InsertRow(s) \/ ApplyUrlCache(s) \/ EnqueueAdmitted(s)
AdmitStep(p) == ReadSubmission(p) \/ LockUrl(p) \/ AdmitFree(p) \/ LockWindow(p)
                  \/ Defer(p) \/ Charge(p)
PassStep(r) == StartPass(r) \/ AdmitNext(r) \/ EnqueueNext(r)
RetryStep(q) == LockRetry(q) \/ RetryLimitExceeded(q) \/ RegisterRetry(q) \/ EnqueueRetry(q)
WorkerStep(r) ==
    \/ StartRun(r) \/ Identify(r) \/ FingerprintHit(r) \/ FailContent(r)
    \/ \E cause \in {"permanent", "transient"} : FailTechnical(r, cause)
    \/ SelectMatches(r) \/ Refund(r) \/ FinishRun(r)
    \/ \E s \in Submissions : ReadReservation(r, s)
AdminStep ==
    \/ \E l \in GlobalChoices : UpdateGlobalQuotas(l)
    \/ \E u \in Users, l \in OverrideChoices : UpdateUserQuotas(u, l)
    \/ \E j \in AdminJobs, s \in Submissions : AdminReprocess(j, s)

Next ==
    \/ \E s \in Submissions : SubmitStep(s)
    \/ \E p \in Admitters : AdmitStep(p)
    \/ \E r \in Reconcilers : PassStep(r)
    \/ \E q \in Retriers : RetryStep(q) \/ \E s \in Submissions : ReadFailed(q, s)
    \/ \E r \in Runs : WorkerStep(r)
    \/ AdminStep
    \/ NextDay
    \/ \E url \in Urls : ExpireCache(url)

Spec == Init /\ [][Next]_vars

\* What the runtime guarantees.  A handler that has been called runs on, and so does
\* a pass of the reconciler, whose timer keeps firing.  Strong fairness, since a
\* PostgreSQL lock queue is first come first served: a caller that finds its lock free
\* again and again gets it.
Fairness ==
    /\ \A s \in Submissions :
         SF_vars(InsertRow(s) \/ ApplyUrlCache(s) \/ AdmitStep(s) \/ EnqueueAdmitted(s))
    /\ \A r \in Reconcilers : SF_vars(AdmitStep(r) \/ PassStep(r))

FairSpec == Spec /\ Fairness
-----------------------------------------------------------------------------
(* Properties                                                              *)

\* No user is ever charged, on any day, more novel analyses than the largest
\* limit in force allows (quota.ts:42-50), however many handlers, reconcilers and
\* refunds race: reading the counter and incrementing it are separate statements.
UsageWithinCap == \A u \in Users, d \in Days : usage[u][d] <= NovelCap

\* Nor does a URL get more user retries in a day than the largest retry limit
\* (quota.ts:68-73).
RetriesWithinCap == \A s \in Submissions, d \in Days : retries[s][d] <= RetryCap

\* The counter of a user and a day is the number of that user's rows charged on
\* that day: no reservation is lost, leaked or counted twice (quota.ts:47-51,
\* 100-104), whatever the order in which admissions, deferrals and refunds commit.
Ledger(u, d) == {s \in Submissions : charged[s] /\ userId[s] = u /\ window[s] = d}
LedgerExact == \A u \in Users, d \in Days : usage[u][d] = Cardinality(Ledger(u, d))

\* The stepwise transactions implement the atomic ledger of QuotaLedger: at every
\* commit at most one reservation is taken or given back, by the row that holds it.
AbstractLedger == INSTANCE QuotaLedger WITH
    reserved <- [s \in Submissions |-> IF charged[s] THEN window[s] ELSE 0],
    count <- usage
ImplementsLedger == AbstractLedger!Spec

\* README: "repeated normalized URLs do not consume quota": two rows of a URL never
\* hold a reservation at the same time, in whatever order their inserts become visible.
RepeatedUrlIsFree ==
    \A s, t \in Submissions : charged[s] /\ charged[t] /\ urlHash[s] = urlHash[t] => s = t

\* README: "the API reconciler admits the oldest eligible entries every minute": a
\* waiting entry whose owner has allowance left is admitted, unless the allowance is
\* used by another entry of the owner.
Eligible(s) == status[s] = "waiting_for_quota" /\ usage[userId[s]][day] < NovelLimit(userId[s])
EligibleAdmitted == \A s \in Submissions : Eligible(s) ~> ~Eligible(s)

\* Every handler that starts gets through its locks and returns.
HandlersReturn ==
    \A s \in Submissions : admit[s].pc = "start" ~> admit[s].pc \in {"enqueue", "done"}
=============================================================================
