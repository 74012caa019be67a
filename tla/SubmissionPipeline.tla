------------------------- MODULE SubmissionPipeline -------------------------
(***************************************************************************)
(* A submission from POST /v1/submissions to its result: the API handlers  *)
(* (app.ts, repository.ts), the BullMQ queue (queue.ts), the worker        *)
(* (worker.ts, pipeline.ts) and the store both write (pipeline-store.ts).  *)
(*                                                                         *)
(* All rows of a URL are written together by the worker, while the handlers *)
(* of their owners come and go.  An action is one SQL statement, one queue *)
(* call, or several in a row of which all but one commute with the steps   *)
(* of other processes.  Quotas are reduced to their answer (QuotaService   *)
(* has the rest), scraping and identification to their outcome.            *)
(***************************************************************************)
EXTENDS Naturals, FiniteSets

CONSTANTS
    Users, Urls, Submissions,
    userId, urlHash,  \* owner and URL of each submission
    CatalogWork,      \* what the pipeline identifies in these Reels
    PersonalWork,     \* the custom or other work a user resolves one to
    Media,            \* URLs whose media, one and the same file, is downloaded
    Deferrable,       \* submissions the quota may make wait
    Resolvers,        \* concurrent confirm and resolve requests
    Retriers,         \* concurrent user reprocess requests, each used once
    AdminJobs,        \* admin reprocess requests, each used once
    Causes,           \* failures a run explores
    Attempts,         \* BullMQ attempts per job, 3 in the code
    MaxStalled,       \* BullMQ's maxStalledCount, 1 by default
    MaxFaults,        \* bound on crashes and interruptions
    None

ASSUME ConstantsAssumption ==
    /\ userId \in [Submissions -> Users] /\ urlHash \in [Submissions -> Urls]
    /\ \A s, t \in Submissions : userId[s] = userId[t] /\ urlHash[s] = urlHash[t] => s = t
    /\ None \notin Submissions /\ Urls \cap AdminJobs = {}
    /\ Media \subseteq Urls /\ Deferrable \subseteq Submissions
    /\ Causes \subseteq {"content", "permanent", "transient"}
    /\ Attempts \in Nat \ {0} /\ MaxStalled \in Nat /\ MaxFaults \in Nat
    /\ None \notin {CatalogWork, PersonalWork} /\ CatalogWork # PersonalWork

VARIABLES
    row,        \* reel_submissions
    entries,    \* watchlist_entries, as pairs of user and work
    cache,      \* identification_cache: the unexpired entry of each URL
    job,        \* the BullMQ job of each URL and of each admin request, and its run
    create,     \* the createSubmission handler of each submission
    reconciler, \* the item the quota reconciler is on
    resolver, retrier, \* confirm/resolve and reprocess handlers
    faults,     \* crashes and interruptions so far
    lost        \* history: rows whose enqueue came to nothing, with no run since

vars == <<row, entries, cache, job, create, reconciler, resolver, retrier, faults, lost>>

Runs == Urls \cup AdminJobs
Works == {CatalogWork, PersonalWork}
Rows == [status : {"absent", "queued", "waiting_for_quota", "scraping", "identifying",
                   "needs_confirmation", "identified", "failed"},
         failure : {"content", "permanent", "transient", None},
         work : Works \cup {None}, fp : BOOLEAN]
CacheEntries == [status : {"identified", "needs_confirmation"}, work : Works \cup {None},
                 fp : BOOLEAN]
Pending == {"waiting"}
\* The stages of a run after its last write to the rows' status.
Late == {"hitCache", "fanOut", "cacheResult", "ending"}
\* The stages of the pipeline's try block, named after the statement that comes next.
Stages == {"scraping", "fingerprint", "fingerprinted", "hitRows", "hitCache", "identifying",
           "confirm", "source", "settle", "fanOut", "cacheResult"}
Active == Stages \cup {"ending"}
Jobs == [pc : {"none", "used"} \cup Pending \cup Active, sub : Submissions \cup {None},
         attempt : 0..Attempts, stalled : 0..MaxStalled, again : BOOLEAN,
         result : {"identified", "needs_confirmation", None}, work : Works \cup {None},
         from : Urls \cup {None}]

\* Type correctness: in particular no job is tried more than Attempts times (queue.ts:26)
\* and only pairs of a user and a work come onto watchlists.
TypeOK ==
    /\ row \in [Submissions -> Rows]
    /\ entries \subseteq Users \X Works
    /\ cache \in [Urls -> CacheEntries \cup {None}]
    /\ job \in [Runs -> Jobs]
    /\ create \in [Submissions -> [pc : {"idle", "lookup", "hit", "admit", "admitting",
                                         "enqueue", "done"}, hit : CacheEntries \cup {None}]]
    /\ reconciler \in [pc : {"idle", "admit", "admitting", "enqueue"},
                       sub : Submissions \cup {None}]
    /\ resolver \in [Resolvers -> [pc : {"idle", "commit"}, sub : Submissions \cup {None}]]
    /\ retrier \in [Retriers -> [pc : {"idle", "commit", "enqueue", "done"},
                                 sub : Submissions \cup {None}]]
    /\ faults \in 0..MaxFaults
    /\ lost \subseteq Submissions

NoJob == [pc |-> "none", sub |-> None, attempt |-> 0, stalled |-> 0, again |-> FALSE,
          result |-> None, work |-> None, from |-> None]
NewJob(s) == [NoJob EXCEPT !.pc = "waiting", !.sub = s, !.attempt = 1]

Init ==
    /\ row = [s \in Submissions |->
                [status |-> "absent", failure |-> None, work |-> None, fp |-> FALSE]]
    /\ entries = {}
    /\ cache = [url \in Urls |-> None]
    /\ job = [r \in Runs |-> NoJob]
    /\ create = [s \in Submissions |-> [pc |-> "idle", hit |-> None]]
    /\ reconciler = [pc |-> "idle", sub |-> None]
    /\ resolver = [m \in Resolvers |-> [pc |-> "idle", sub |-> None]]
    /\ retrier = [q \in Retriers |-> [pc |-> "idle", sub |-> None]]
    /\ faults = 0
    /\ lost = {}
-----------------------------------------------------------------------------
Status(s) == row[s].status
RowsOf(url) == {s \in Submissions : Status(s) # "absent" /\ urlHash[s] = url}
Owners(url) == {userId[s] : s \in RowsOf(url)}

InProgress(s) == Status(s) \in {"queued", "scraping", "identifying"}

\* enqueue: a job id is a URL hash, and a pending or active job absorbs the call.
\* Its getJob, getState, remove and add are one step here: a second caller that comes
\* between them adds the same job or finds it.  A run that will not write the status
\* again is no help to the row.
Enqueue(s) ==
    LET url == urlHash[s] IN
    /\ job' = IF job[url].pc = "none" THEN [job EXCEPT ![url] = NewJob(s)] ELSE job
    /\ lost' = IF job[url].pc \in Late /\ InProgress(s) THEN lost \cup {s} ELSE lost \ {s}

(* createSubmission and the enqueue that follows it                        *)

InsertRow(s) ==
    /\ create[s].pc = "idle"
    /\ row' = [row EXCEPT ![s].status = "queued"]
    /\ create' = [create EXCEPT ![s].pc = "lookup"]
    /\ UNCHANGED <<entries, cache, job, reconciler, resolver, retrier, faults, lost>>

LookupUrlCache(s) ==
    /\ create[s].pc = "lookup"
    /\ create' = [create EXCEPT ![s] =
                    IF cache[urlHash[s]] # None
                    THEN [pc |-> "hit", hit |-> cache[urlHash[s]]]
                    ELSE [pc |-> "admit", hit |-> None]]
    /\ UNCHANGED <<row, entries, cache, job, reconciler, resolver, retrier, faults, lost>>

\* An UPDATE of the entry's expiry: one that expired after it was looked up is valid
\* again, one that was deleted stays away.
Renewed(c, url, entry) == {c, [c EXCEPT ![url] = IF @ = None THEN entry ELSE @]}

ApplyUrlCache(s) ==
    LET hit == create[s].hit IN
    /\ create[s].pc = "hit"
    /\ entries' = IF hit.status = "identified" /\ hit.work # None
                  THEN entries \cup {<<userId[s], hit.work>>} ELSE entries
    /\ row' = [row EXCEPT ![s] = [@ EXCEPT !.status = hit.status, !.work = hit.work,
                                           !.fp = hit.fp]]
    /\ cache' \in Renewed(cache, urlHash[s], hit)
    /\ create' = [create EXCEPT ![s] = [pc |-> "done", hit |-> None]]
    /\ UNCHANGED <<job, reconciler, resolver, retrier, faults, lost>>

\* admitSubmission reads the status before it waits for its locks...
ReadStatus(s) ==
    /\ create[s].pc = "admit"
    /\ create' = [create EXCEPT ![s].pc =
                    IF Status(s) \in {"queued", "waiting_for_quota"} THEN "admitting" ELSE "done"]
    /\ UNCHANGED <<row, entries, cache, job, reconciler, resolver, retrier, faults, lost>>

\* ...and writes it without a second look.
Admit(s) ==
    /\ create[s].pc = "admitting"
    /\ \/ /\ row' = [row EXCEPT ![s].status = "queued"]
          /\ create' = [create EXCEPT ![s].pc = "enqueue"]
       \/ /\ s \in Deferrable
          /\ row' = [row EXCEPT ![s].status = "waiting_for_quota"]
          /\ create' = [create EXCEPT ![s].pc = "done"]
    /\ UNCHANGED <<entries, cache, job, reconciler, resolver, retrier, faults, lost>>

EnqueueCreated(s) ==
    /\ create[s].pc = "enqueue"
    /\ Enqueue(s)
    /\ create' = [create EXCEPT ![s].pc = "done"]
    /\ UNCHANGED <<row, entries, cache, reconciler, resolver, retrier, faults>>
\* The request ends where it is: the API stops, closing the queue and the pool under its
\* requests, or the database or Redis refuses a call.  What is committed stays, and sending
\* the URL again enqueues nothing.
Fault == faults < MaxFaults /\ faults' = faults + 1

CutCreate(s) ==
    /\ create[s].pc \notin {"idle", "done"} /\ Fault
    /\ create' = [create EXCEPT ![s] = [pc |-> "done", hit |-> None]]
    /\ lost' = lost \cup {s}
    /\ UNCHANGED <<row, entries, cache, job, reconciler, resolver, retrier>>
-----------------------------------------------------------------------------
(* The quota reconciler, one waiting row per pass                          *)

PickWaiting(s) ==
    /\ reconciler.pc = "idle" /\ Status(s) = "waiting_for_quota"
    /\ reconciler' = [pc |-> "admit", sub |-> s]
    /\ UNCHANGED <<row, entries, cache, job, create, resolver, retrier, faults, lost>>

ReadWaiting ==
    /\ reconciler.pc = "admit"
    /\ reconciler' = IF Status(reconciler.sub) \in {"queued", "waiting_for_quota"}
                     THEN [reconciler EXCEPT !.pc = "admitting"]
                     ELSE [pc |-> "idle", sub |-> None]
    /\ UNCHANGED <<row, entries, cache, job, create, resolver, retrier, faults, lost>>

AdmitWaiting ==
    /\ reconciler.pc = "admitting"
    /\ row' = [row EXCEPT ![reconciler.sub].status = "queued"]
    /\ reconciler' = [reconciler EXCEPT !.pc = "enqueue"]
    /\ UNCHANGED <<entries, cache, job, create, resolver, retrier, faults, lost>>

DeferWaiting ==
    /\ reconciler.pc = "admitting"
    /\ row' = [row EXCEPT ![reconciler.sub].status = "waiting_for_quota"]
    /\ reconciler' = [pc |-> "idle", sub |-> None]
    /\ UNCHANGED <<entries, cache, job, create, resolver, retrier, faults, lost>>

EnqueueWaitingMutant ==
    /\ reconciler.pc = "enqueue"
    /\ reconciler' = [pc |-> "idle", sub |-> None]
    /\ UNCHANGED <<row, entries, cache, job, create, resolver, retrier, faults, lost>>
EnqueueWaiting ==
    /\ reconciler.pc = "enqueue"
    /\ Enqueue(reconciler.sub)
    /\ reconciler' = [pc |-> "idle", sub |-> None]
    /\ UNCHANGED <<row, entries, cache, create, resolver, retrier, faults>>
\* A pass that fails or dies has admitted what it has committed.
CutReconciler ==
    /\ reconciler.pc # "idle" /\ Fault
    /\ reconciler' = [pc |-> "idle", sub |-> None]
    /\ lost' = IF reconciler.pc = "enqueue" THEN lost \cup {reconciler.sub} ELSE lost
    /\ UNCHANGED <<row, entries, cache, job, create, resolver, retrier>>
-----------------------------------------------------------------------------
(* confirm and resolve: the status is checked on a row read beforehand.    *)
(* Confirming a candidate is resolving to the catalog work it names.       *)

ReadResolvable(m, s) ==
    /\ resolver[m].pc = "idle"
    /\ Status(s) \in {"needs_confirmation", "failed", "waiting_for_quota"}
    /\ resolver' = [resolver EXCEPT ![m] = [pc |-> "commit", sub |-> s]]
    /\ UNCHANGED <<row, entries, cache, job, create, reconciler, retrier, faults, lost>>

Resolve(m, w) ==
    LET s == resolver[m].sub IN
    /\ resolver[m].pc = "commit"
    /\ entries' = entries \cup {<<userId[s], w>>}
    /\ row' = [row EXCEPT ![s] = [@ EXCEPT !.status = "identified", !.work = w,
                                           !.failure = None]]
    /\ resolver' = [resolver EXCEPT ![m] = [pc |-> "idle", sub |-> None]]
    /\ UNCHANGED <<cache, job, create, reconciler, retrier, faults, lost>>

(* reprocess, by the owner and by an administrator                         *)

ReadFailed(q, s) ==
    /\ retrier[q].pc = "idle"
    /\ Status(s) = "failed" /\ row[s].failure = "transient"
    /\ retrier' = [retrier EXCEPT ![q] = [pc |-> "commit", sub |-> s]]
    /\ UNCHANGED <<row, entries, cache, job, create, reconciler, resolver, faults, lost>>

RegisterRetry(q) ==
    /\ retrier[q].pc = "commit"
    /\ row' = [row EXCEPT ![retrier[q].sub] = [@ EXCEPT !.status = "queued", !.failure = None,
                                                        !.work = None]]
    /\ retrier' = [retrier EXCEPT ![q].pc = "enqueue"]
    /\ UNCHANGED <<entries, cache, job, create, reconciler, resolver, faults, lost>>

RetryLimitExceeded(q) ==
    /\ retrier[q].pc = "commit"
    /\ retrier' = [retrier EXCEPT ![q].pc = "done"]
    /\ UNCHANGED <<row, entries, cache, job, create, reconciler, resolver, faults, lost>>

EnqueueRetry(q) ==
    /\ retrier[q].pc = "enqueue"
    /\ Enqueue(retrier[q].sub)
    /\ retrier' = [retrier EXCEPT ![q].pc = "done"]
    /\ UNCHANGED <<row, entries, cache, create, reconciler, resolver, faults>>

CutRetry(q) ==
    /\ retrier[q].pc = "enqueue" /\ Fault
    /\ retrier' = [retrier EXCEPT ![q].pc = "done"]
    /\ lost' = lost \cup {retrier[q].sub}
    /\ UNCHANGED <<row, entries, cache, job, create, reconciler, resolver>>

\* The administrator's job has an id of its own and runs beside the URL's.
AdminReprocess(j, s) ==
    /\ job[j].pc = "none" /\ Status(s) # "absent"
    /\ row' = [row EXCEPT ![s] = [@ EXCEPT !.status = "queued", !.failure = None]]
    /\ job' = [job EXCEPT ![j] = NewJob(s)]
    /\ UNCHANGED <<entries, cache, create, reconciler, resolver, retrier, faults, lost>>

\* Its enqueue fails, after the row was written.
CutAdminReprocess(j, s) ==
    /\ job[j].pc = "none" /\ Status(s) # "absent" /\ Fault
    /\ row' = [row EXCEPT ![s] = [@ EXCEPT !.status = "queued", !.failure = None]]
    /\ job' = [job EXCEPT ![j].pc = "used"]
    /\ lost' = lost \cup {s}
    /\ UNCHANGED <<entries, cache, create, reconciler, resolver, retrier>>

\* The 180-day expiry of a cached identification, or its removal by an administrator.
DropCache(url) ==
    /\ cache[url] # None
    /\ cache' = [cache EXCEPT ![url] = None]
    /\ UNCHANGED <<row, entries, job, create, reconciler, resolver, retrier, faults, lost>>
-----------------------------------------------------------------------------
(* The worker: IdentificationPipeline.run on the rows of one URL           *)

Url(r) == urlHash[job[r].sub]
Goto(r, pc) == job' = [job EXCEPT ![r].pc = pc]

\* setStatus, and every other pipeline update, writes all rows of the URL.
UpdateRows(url, fields(_)) ==
    row' = [s \in Submissions |-> IF s \in RowsOf(url) THEN fields(row[s]) ELSE row[s]]
SetStatus(url, st) == UpdateRows(url, LAMBDA x : [x EXCEPT !.status = st])

Begin(r) ==
    /\ job[r].pc = "waiting"
    /\ SetStatus(Url(r), "scraping")
    /\ Goto(r, "scraping")
    /\ lost' = lost \ RowsOf(Url(r))
    /\ UNCHANGED <<entries, cache, create, reconciler, resolver, retrier, faults>>

ScrapeMedia(r) ==
    /\ job[r].pc = "scraping" /\ Url(r) \in Media
    /\ Goto(r, "fingerprint")
    /\ UNCHANGED <<row, entries, cache, create, reconciler, resolver, retrier, faults, lost>>

\* setStatus(identifying), at once or after the fingerprint is stored.
StartIdentifying(r) ==
    /\ \/ job[r].pc = "fingerprinted"
       \/ job[r].pc = "scraping" /\ Url(r) \notin Media
    /\ SetStatus(Url(r), "identifying")
    /\ Goto(r, "identifying")
    /\ UNCHANGED <<entries, cache, create, reconciler, resolver, retrier, faults, lost>>

\* reuseCachedFingerprint: look one identification of this fingerprint up, read the rows,
\* add an entry for each...
Matching == {url \in Urls : /\ cache[url] # None
                            /\ cache[url].fp /\ cache[url].status = "identified"}
FingerprintHit(r) ==
    /\ job[r].pc = "fingerprint"
    /\ \E url \in Matching :
         /\ cache[url].work # None
         /\ entries' = entries \cup (Owners(Url(r)) \X {cache[url].work})
         /\ job' = [job EXCEPT ![r] = [@ EXCEPT !.pc = "hitRows", !.from = url,
                                                 !.work = cache[url].work]]
    /\ UNCHANGED <<row, cache, create, reconciler, resolver, retrier, faults, lost>>

\* ...then update all rows of the URL, those that came in between included.
HitRows(r) ==
    /\ job[r].pc = "hitRows"
    /\ UpdateRows(Url(r), LAMBDA x : [x EXCEPT !.status = "identified", !.work = job[r].work,
                                               !.fp = TRUE])
    /\ Goto(r, "hitCache")
    /\ UNCHANGED <<entries, cache, create, reconciler, resolver, retrier, faults, lost>>

HitCache(r) ==
    LET hit == [status |-> "identified", work |-> job[r].work, fp |-> TRUE] IN
    /\ job[r].pc = "hitCache"
    /\ \E c \in Renewed(cache, job[r].from, hit) : cache' = [c EXCEPT ![Url(r)] = hit]
    /\ Goto(r, "ending")
    /\ UNCHANGED <<row, entries, create, reconciler, resolver, retrier, faults, lost>>

\* There is none, or the one that was found names no work: setContentFingerprint.
FingerprintMiss(r) ==
    /\ job[r].pc = "fingerprint"
    /\ (\A url \in Matching : cache[url].work # None) => Matching = {}
    /\ UpdateRows(Url(r), LAMBDA x : [x EXCEPT !.fp = TRUE])
    /\ Goto(r, "fingerprinted")
    /\ UNCHANGED <<entries, cache, create, reconciler, resolver, retrier, faults, lost>>

\* A plausible or uncorroborated result: candidates, then needs_confirmation.
FindCandidatesMutant(r) ==
    /\ job[r].pc = "identifying"
    /\ Goto(r, "ending")
    /\ UNCHANGED <<row, entries, cache, create, reconciler, resolver, retrier, faults, lost>>
FindCandidates(r) ==
    /\ job[r].pc = "identifying"
    /\ job' = [job EXCEPT ![r] = [@ EXCEPT !.pc = "confirm", !.result = "needs_confirmation"]]
    /\ UNCHANGED <<row, entries, cache, create, reconciler, resolver, retrier, faults, lost>>

NeedConfirmation(r) ==
    /\ job[r].pc = "confirm"
    /\ SetStatus(Url(r), "needs_confirmation")
    /\ Goto(r, "cacheResult")
    /\ UNCHANGED <<entries, cache, create, reconciler, resolver, retrier, faults, lost>>

\* addToWatchlist, one transaction.
AddToWatchlistMutant(r) ==
    /\ job[r].pc = "identifying"
    /\ entries' = entries \cup (Owners(Url(r)) \X {CatalogWork})
    /\ job' = [job EXCEPT ![r] = [@ EXCEPT !.pc = "source", !.result = "identified"]]
    /\ UNCHANGED <<row, cache, create, reconciler, resolver, retrier, faults, lost>>
AddToWatchlist(r) ==
    /\ job[r].pc = "identifying"
    /\ entries' = entries \cup (Owners(Url(r)) \X {CatalogWork})
    /\ UpdateRows(Url(r), LAMBDA x : [x EXCEPT !.work = CatalogWork])
    /\ job' = [job EXCEPT ![r] = [@ EXCEPT !.pc = "source", !.result = "identified"]]
    /\ UNCHANGED <<cache, create, reconciler, resolver, retrier, faults, lost>>

\* setStatus(identified) reads the work of the job's own row...
ReadSource(r) ==
    /\ job[r].pc = "source"
    /\ job' = [job EXCEPT ![r] = [@ EXCEPT !.pc = "settle", !.work = row[job[r].sub].work]]
    /\ UNCHANGED <<row, entries, cache, create, reconciler, resolver, retrier, faults, lost>>

\* ...gives it to every row...
Settle(r) ==
    LET w == job[r].work IN
    /\ job[r].pc = "settle"
    /\ UpdateRows(Url(r), LAMBDA x : [x EXCEPT !.status = "identified",
                                               !.work = IF w # None THEN w ELSE x.work])
    /\ Goto(r, IF w # None THEN "fanOut" ELSE "cacheResult")
    /\ UNCHANGED <<entries, cache, create, reconciler, resolver, retrier, faults, lost>>

\* ...adds an entry for every owner...
FanOutMutant(r) ==
    /\ job[r].pc = "fanOut"
    /\ Goto(r, "cacheResult")
    /\ UNCHANGED <<row, entries, cache, create, reconciler, resolver, retrier, faults, lost>>
FanOut(r) ==
    /\ job[r].pc = "fanOut"
    /\ entries' = entries \cup (Owners(Url(r)) \X {job[r].work})
    /\ Goto(r, "cacheResult")
    /\ UNCHANGED <<row, cache, create, reconciler, resolver, retrier, faults, lost>>

\* ...and caches what the job's row holds by now.
CacheResult(r) ==
    /\ job[r].pc = "cacheResult"
    /\ cache' = [cache EXCEPT ![Url(r)] =
                   [status |-> job[r].result, work |-> row[job[r].sub].work,
                    fp |-> row[job[r].sub].fp]]
    /\ Goto(r, "ending")
    /\ UNCHANGED <<row, entries, create, reconciler, resolver, retrier, faults, lost>>

\* The catch: a failure is stored on every row, and BullMQ is to try again or not.
StoreFailure(r, cause, again) ==
    /\ UpdateRows(Url(r), LAMBDA x : [x EXCEPT !.status = "failed", !.failure = cause])
    /\ job' = [job EXCEPT ![r] = [@ EXCEPT !.pc = "ending", !.again = again]]

\* The Reel cannot be scraped or analysed; recoverable errors are rethrown.  Low confidence
\* and an unknown title end the run from "identifying" only.
FailMutant(r, cause) ==
    /\ job[r].pc \in {"scraping", "identifying"}
    /\ job' = [job EXCEPT ![r] = [@ EXCEPT !.pc = "ending", !.again = (cause = "transient")]]
    /\ UNCHANGED <<row, entries, cache, create, reconciler, resolver, retrier, faults, lost>>
Fail(r, cause) ==
    /\ job[r].pc \in IF cause = "content" THEN {"identifying"} ELSE {"scraping", "identifying"}
    /\ StoreFailure(r, cause, cause = "transient")
    /\ UNCHANGED <<entries, cache, create, reconciler, resolver, retrier, faults, lost>>

\* Any statement of the try block is refused, which is a recoverable pipeline_error.  (When
\* Begin's is, the rows are what they are after Begin and this.)
RefuseStatement(r) ==
    /\ job[r].pc \in Stages /\ Fault
    /\ StoreFailure(r, "transient", TRUE)
    /\ UNCHANGED <<entries, cache, create, reconciler, resolver, retrier, lost>>

\* The rows are written, but a refund is refused: the catch itself throws, and BullMQ tries
\* again whatever the cause was.
RefuseRefund(r) ==
    /\ "permanent" \in Causes /\ job[r].pc \in {"scraping", "identifying"} /\ Fault
    /\ StoreFailure(r, "permanent", TRUE)
    /\ UNCHANGED <<entries, cache, create, reconciler, resolver, retrier, lost>>

\* The job leaves the queue, or waits for its next attempt.
Ended(r) == IF r \in AdminJobs THEN [NoJob EXCEPT !.pc = "used"] ELSE NoJob
NextAttempt(r) == [NewJob(job[r].sub) EXCEPT !.attempt = job[r].attempt + 1,
                                             !.stalled = job[r].stalled]
EndRunMutant(r) ==
    /\ job[r].pc = "ending"
    /\ job' = [job EXCEPT ![r] = IF job[r].again /\ job[r].attempt <= Attempts
                                 THEN NextAttempt(r) ELSE Ended(r)]
    /\ UNCHANGED <<row, entries, cache, create, reconciler, resolver, retrier, faults, lost>>
EndRun(r) ==
    /\ job[r].pc = "ending"
    /\ job' = [job EXCEPT ![r] = IF job[r].again /\ job[r].attempt < Attempts
                                 THEN NextAttempt(r) ELSE Ended(r)]
    /\ UNCHANGED <<row, entries, cache, create, reconciler, resolver, retrier, faults, lost>>

\* The failure cannot be stored either, as when the database is away from the start: the rows
\* stay as they are, and after the last attempt nothing is left that would write them.
RefuseFailure(r) ==
    /\ job[r].pc \in Pending \cup Stages /\ Fault
    /\ job' = [job EXCEPT ![r] = IF job[r].attempt < Attempts THEN NextAttempt(r) ELSE Ended(r)]
    /\ lost' = IF job[r].attempt < Attempts THEN lost ELSE lost \cup RowsOf(Url(r))
    /\ UNCHANGED <<row, entries, cache, create, reconciler, resolver, retrier>>

\* The worker dies. BullMQ requeues the stalled job, but only MaxStalled times; then it
\* fails the job without telling the pipeline.
Crash(r) ==
    /\ job[r].pc \in Active /\ Fault
    /\ job' = [job EXCEPT ![r] =
                 IF job[r].stalled < MaxStalled
                 THEN [NewJob(job[r].sub) EXCEPT !.attempt = job[r].attempt,
                                                 !.stalled = job[r].stalled + 1]
                 ELSE Ended(r)]
    /\ lost' = IF job[r].stalled < MaxStalled THEN lost ELSE lost \cup RowsOf(Url(r))
    /\ UNCHANGED <<row, entries, cache, create, reconciler, resolver, retrier>>
-----------------------------------------------------------------------------
CreateStep(s) == LookupUrlCache(s) \/ ApplyUrlCache(s) \/ ReadStatus(s) \/ Admit(s)
                   \/ EnqueueCreated(s)
ReconcilerStep == ReadWaiting \/ AdmitWaiting \/ DeferWaiting \/ EnqueueWaiting
                    \/ \E s \in Submissions : PickWaiting(s)
RetryStep(q) == RegisterRetry(q) \/ RetryLimitExceeded(q) \/ EnqueueRetry(q)
WorkerStep(r) ==
    \/ Begin(r) \/ ScrapeMedia(r) \/ StartIdentifying(r)
    \/ FingerprintHit(r) \/ HitRows(r) \/ HitCache(r) \/ FingerprintMiss(r)
    \/ FindCandidates(r) \/ NeedConfirmation(r)
    \/ AddToWatchlist(r) \/ ReadSource(r) \/ Settle(r) \/ FanOut(r) \/ CacheResult(r)
    \/ \E cause \in Causes : Fail(r, cause)
    \/ EndRun(r)
CutRun(r) == RefuseStatement(r) \/ RefuseRefund(r) \/ RefuseFailure(r) \/ Crash(r)

Next ==
    \/ \E s \in Submissions : InsertRow(s) \/ CreateStep(s) \/ CutCreate(s)
    \/ ReconcilerStep \/ CutReconciler
    \/ \E m \in Resolvers : \/ \E s \in Submissions : ReadResolvable(m, s)
                            \/ \E w \in Works : Resolve(m, w)
    \/ \E q \in Retriers : RetryStep(q) \/ CutRetry(q)
                           \/ \E s \in Submissions : ReadFailed(q, s)
    \/ \E j \in AdminJobs, s \in Submissions : AdminReprocess(j, s) \/ CutAdminReprocess(j, s)
    \/ \E url \in Urls : DropCache(url)
    \/ \E r \in Runs : WorkerStep(r) \/ CutRun(r)

Spec == Init /\ [][Next]_vars

\* Handlers that were called return, the reconciler's timer fires, BullMQ hands
\* waiting jobs to a worker and a worker runs on.  The allowance is renewed every day,
\* so a row is not deferred for ever.
Fairness ==
    /\ \A s \in Submissions : WF_vars(CreateStep(s))
    /\ WF_vars(ReconcilerStep) /\ SF_vars(AdmitWaiting)
    /\ \A q \in Retriers : WF_vars(RetryStep(q))
    /\ \A r \in Runs : WF_vars(WorkerStep(r))
FairSpec == Spec /\ Fairness
-----------------------------------------------------------------------------
(* Properties                                                              *)

JobsOf(url) == {r \in Runs : job[r].pc \notin {"none", "used"} /\ urlHash[job[r].sub] = url}
HandlersOf(s) ==
    \/ create[s].pc \notin {"idle", "done"}
    \/ reconciler.sub = s
    \/ \E q \in Retriers : retrier[q].sub = s /\ retrier[q].pc \in {"commit", "enqueue"}

\* README: "BullMQ coalesces concurrent submissions ...; completion fans the result out to
\* every waiting user": a row shown as being worked on is being worked on: a job of its URL
\* is in the queue or with a worker, or a handler is about to enqueue one (queue.ts:16-26,
\* quota.ts:33-51, app.ts:309, 350).  Nothing else touches such a row again, since confirm
\* and reprocess refuse it.
Attended(s) == JobsOf(urlHash[s]) # {} \/ HandlersOf(s)
NoOrphan == \A s \in Submissions : InProgress(s) => Attended(s)

\* What holds whatever is interrupted: a row in progress that nothing works on has lost its
\* own enqueue, because its request or the pass that admitted it ended early (app.ts:309,
\* 350, quota-reconciler.ts:13, app.ts:251, server.ts:66), a run past its last write
\* absorbed it (queue.ts:18), or BullMQ gave its run up (worker.ts:70, pipeline.ts:541); and
\* the next run of the URL, for whomever, makes up for it.
OrphanLostEnqueue == \A s \in Submissions : InProgress(s) => Attended(s) \/ s \in lost

\* Nor does a row ever show a stage of a run that no job is in or will restart, however
\* the jobs of the URL and of administrators, user retries and crashes interleave
\* (pipeline.ts:469, 502-541; queue.ts:26): each run's last write to the rows is a result,
\* unless BullMQ gives it up.
StageHasJob == \A s \in Submissions :
                 Status(s) \in {"scraping", "identifying"} =>
                   JobsOf(urlHash[s]) # {} \/ s \in lost

\* README: "completion fans the result out to every waiting user": once nothing is
\* running for its URL, an identified row has a work, and its owner has that work on the
\* watchlist (pipeline-store.ts:35-42, 137-141, 173-175; repository.ts:104-111).
FannedOut == \A s \in Submissions :
               Status(s) = "identified" /\ JobsOf(urlHash[s]) = {} =>
                 row[s].work # None /\ <<userId[s], row[s].work>> \in entries

\* A cached identification can be applied: it names a work (pipeline-store.ts:43-56), the
\* work the next submission of the URL puts on a watchlist without any analysis.
CacheUsable == \A url \in Urls :
                 cache[url] # None /\ cache[url].status = "identified" => cache[url].work # None

\* README: "Manual corrections remain personal and never overwrite the global cache".
ManualStaysPersonal == \A url \in Urls : cache[url] # None => cache[url].work # PersonalWork

\* Every submission comes to a result: identified, a question to the user, or a failure,
\* also after worker crashes and when a handler was cut off and a later run of the URL takes
\* the row along; only a row whose enqueue is lost may stay.
Settled(s) == Status(s) \in {"identified", "needs_confirmation", "failed"}
EventuallySettled == \A s \in Submissions : InProgress(s) ~> Settled(s) \/ s \in lost
=============================================================================
