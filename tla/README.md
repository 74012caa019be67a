# Watch Later backend: a verification project in TLA+

TLA+ models of the backend in `src/`, TLC configurations that check them on small
instances, and TLAPS proofs that hold for every instance. Paths below are relative to the
repository's `src/` directory unless they name a file of this directory.

## The system

A user shares an Instagram Reel; the backend finds out which film or series it shows and
puts that work on the user's watchlist. An API process (`server.ts`) and a worker process
(`worker.ts`) share PostgreSQL and a Redis queue (BullMQ).

| Component | State | Operations | Talks to |
| --- | --- | --- | --- |
| Quota service (`quota.ts`) | `daily_quota_usage`, `daily_retry_usage`, `quota_settings`, `user_quota_overrides`, the charge columns of `reel_submissions` | admit, register a retry, refund, admit waiting rows | called by the repository, the reconciler and the pipeline store; advisory locks between them |
| Reconciler (`quota-reconciler.ts`) | a running flag per API process | every minute: admit up to 100 waiting rows, enqueue them | quota service, queue |
| Intake and resolution (`repository.ts`, `app.ts`) | `reel_submissions`, `watchlist_entries`, `works` | create, confirm, resolve, reprocess, watchlist edits | quota service, cache, queue |
| Queue (`queue.ts`) | one BullMQ job per URL hash, one per admin request | enqueue with deduplication, 3 attempts with backoff | worker |
| Worker and pipeline (`worker.ts`, `pipeline.ts`, `failures.ts`) | the job it is on, temporary files | scrape, fingerprint, identify, resolve, store | pipeline store, Instagram, Gemini, catalogs |
| Pipeline store (`pipeline-store.ts`) | rows of a URL, cache, entries, artifacts | status, candidates, fingerprints, evidence, watchlist | quota service (refunds), object storage |
| Identification cache | `identification_cache`, 180 days, renewed by hits | hit by URL, hit by fingerprint, upsert, invalidate | written by the worker, read by intake and worker |
| Administration (`admin.ts`) | audits, logs | reprocess, invalidate, set limits, read | all tables, queue |
| Stremio addon (`stremio.ts`) | `stremio_connections`, IMDb ids | connect, rotate, revoke, catalog, mark watched | watchlist |
| Evidence artifacts (`artifact-storage.ts`) | `submission_artifacts`, objects in S3 | put, delete, expire | pipeline store |
| Client error window (`app.ts:179`) | count per user and minute, in memory | accept or reject a report | – |
| Listings (`repository.ts:55,115`, `admin.ts:31`) | a cursor the client keeps | pages of the watchlist, the inbox and the log | rows the others write |
| Catalog (`catalog.ts`, `catalog-metadata-cache.ts`) | `catalog_metadata_cache` | search, IMDb ids, streaming with cached details | TMDB, AniList |
| Auth, logging, configuration, migrations | no state the rest depends on | | |

What is hard here is concurrency across connections. The rows of one URL belong to several users
and are written together by the worker, while the handlers of their owners write them one by
one; nothing but three kinds of advisory lock orders them, and every transaction runs under READ
COMMITTED. A request may end between any two of its statements: the API closes the queue and the
pool under running requests when it shuts down. The queue coalesces the jobs of a URL by job id.
Failures are retried by BullMQ, by users and by administrators, possibly at once, and a worker
that dies is replaced by another run of its job over half-written rows. What makes each
component correct:

- quota service: counters never pass a limit, a counter is the number of rows charged, nobody
  with allowance waits for ever, no handler blocks for ever;
- queue, worker and store: whatever is shown as in progress is in progress, every submission
  comes to a result, the result reaches everyone who asked;
- cache: what it hands out can be applied, and comes from the pipeline alone;
- watchlist and works: one work per catalog id, an entry for every resolution;
- Stremio: a token acts for its owner only, and not after it was revoked;
- artifacts: no row without its object, no object without its row;
- listings: a walk from page to page loses and repeats nothing that stayed;
- client errors: a user's reports are limited over any span, and refused only when there were
  that many;
- catalog: nothing incomplete is cached, and what is cached is not fetched again.

`PROJECT.json` lists the hazards at their lines.

## The modules

### QuotaLedger – what the daily quota promises

An atomic ledger: a submission holds at most one reservation, on one day; `count` is the
number of reservations of a user and a day, never above `NovelCap`. It is the abstract
specification `QuotaService` is checked to implement.

### QuotaService – transactions, locks and counters

`status`, `failure`, `charged`, `window` and `created` are the columns of
`reel_submissions` the quota reads and writes; `usage` and `retries` are the two counter tables;
`globalLimit` and `override` the limits; `admit`, `batch`, `retry` and `run` the program counters
of the callers of `admitSubmission`, of reconciler passes, of `registerRetry` calls and of jobs.

A transaction is split where another connection can come between. `admitSubmission` is
`ReadSubmission` (the status check, before any lock), `LockUrl` (first lock, and who is the
earliest row of the URL), `AdmitFree`, or `LockWindow` (second lock; limit and counter are read
under it) and then `Defer` or `Charge`, whose writes become visible together at the commit.
`refundTechnicalFailure` is `ReadReservation` and `Refund`; `registerRetry` is `ReadFailed`,
`LockRetry`, then `RetryLimitExceeded` or `RegisterRetry`. A lock is held by the transactions
whose program counter lies between its acquisition and the commit, so `UrlLocked`,
`WindowLocked` and `RetryLocked` read it off the program counters. `StampRow` and `InsertRow` are
one SQL insert: `createdAt` is the time the insert starts, the row is visible when it commits.
The worker appears as its writes to statuses and its refunds.

Abstracted: hash collisions of `hashtext`; which rows a `Failures` class stands for (content:
`low_confidence`, `catalog_no_match`; transient: what `isRecoverableFailure` accepts; permanent:
the rest); equal `createdAt` values; a `needs_confirmation` result, which leaves the quota as
`identified` does. Users who submit a URL twice get their old row back, which changes nothing.

### SubmissionPipeline – a submission from intake to result

`row` (status, failure class, work, whether a fingerprint is stored), `entries`
(`watchlist_entries`), `cache`, `job` (one slot per URL and per admin request, with the program
counter of its run), and the program counters of the handlers. Each action is one SQL statement
or queue call, or several in a row of which all but one commute with what others do.
`createSubmission` is `InsertRow`, `LookupUrlCache`, `ApplyUrlCache` or `ReadStatus`, `Admit`
and `EnqueueCreated`; `setStatus(identified)` is `ReadSource`, `Settle`, `FanOut` and
`CacheResult`; `reuseCachedFingerprint` is `FingerprintHit`, `HitRows` and `HitCache`. `Enqueue`
gives up when the URL has a pending or active job. `Fail` is a Reel that cannot be scraped,
analysed or matched. Any other statement of the try block may be refused, which the pipeline's
catch stores as a recoverable failure (`RefuseStatement`); the catch itself may throw after the rows
are written (`RefuseRefund`) or before (`RefuseFailure`), and BullMQ then tries again whatever the
cause was. `EndRun` is BullMQ's decision to try again, `Crash` a worker that dies and the stalled-job
check that requeues its job, or fails it after `MaxStalled` times without telling the pipeline.
A miss of the fingerprint is `FingerprintMiss` and `StartIdentifying`, one UPDATE each; the lookup
takes any one match (`limit(1)`) and misses when that one names no work.

A handler's request or a reconciler's pass may end wherever it is (`CutCreate`, `CutReconciler`,
`CutRetry`, `CutAdminReprocess`): the API shuts down or dies, or the database or Redis refuses a
call. `MaxFaults` bounds these, refused statements of a run and crashes together. `lost` is history:
the rows whose own enqueue was cut off, or was absorbed by a run that will not write the status again
(`Late`), or whose run was given up, by BullMQ after too many stalls or in its last attempt because the
failure could not be stored, until another enqueue of the row or another run of the URL. The code does
strand these rows, and the properties that except them do not count against that: `NoOrphan` does.
What they say is that a row is stranded in none but these ways, within what is modelled.

Abstracted: the quota is its answer (only `Deferrable` rows may be deferred); scraping is
whether media is found (`Media`, all of it one file); identification is its outcome
(candidates, a catalog work, or a failure); the reconciler handles one row per pass; the queue's
`getState`, `remove` and `add` are one step; one pipeline version.

### MCQuotaService, MCSubmissionPipeline

The instances: which users send which URLs, and which limits an administrator may choose.
`MCWorkCatalog` and `MCEvidenceArtifacts` do the same for the two modules below.

### MCApi

Puts `WorkCatalog`, `ClientErrors`, `Listings` and `MetadataCache` into one system. The API serves
them side by side and they share no state, so a behaviour is of one of them (`part`) and the others
keep their initial state: the interleavings left out are those of steps that commute.

### WorkCatalog – works, watchlists and Stremio

`works` and `external` are the tables `works` and `external_work_ids` with their unique indexes
(`works_tmdb_id_unique`, provider and external id); `entry` is `watchlist_entries`; `connected`
the users who have a Stremio token; `add` and `mark` the program counters of requests. `addWork` runs without a transaction and is
`LookupWork`, `InsertWork`, `InsertExternalId`, `InsertEntry`, `ReadExisting`; `addMovie` is
`UpsertMovie`, `InsertEntry`, `ReadExisting`; a private work `InsertCustom`, `InsertEntry`; the
pipeline's `addToWatchlist` is one transaction, `LookupWork` with its read and `AddToWatchlist`
with its commit, for every owner of the URL. A violated index ends the request; `Crash` ends it
anywhere. `catalog`, `action` and `markWatched` of the addon are `ListInCatalog`, `Action` and
`MarkWatched`; where TMDB has no IMDb id, or its insert fails or finds it there, `ListInCatalog`
changes nothing. The insert may come after the entry it was for is gone, which leads to no other
states: it depends on the kind and the number of the work only, and these stay.

Abstracted: posters, years and texts; "watching" is "want to watch", since only the order of a
listing tells them apart; TMDB's answer about an IMDb id is the title itself; a token is its owner being connected, so that rotating it changes
nothing; works of AniList, which have no TMDB number and take `addWork`'s path alone. The
submissions' columns that `addToWatchlist` writes are `SubmissionPipeline`'s.

### EvidenceArtifacts – downloads, artifacts and Gemini's files

The inside of `ScrapeMedia`, of the steps from "identifying" on and of what fails there in `SubmissionPipeline`. `run` holds
the locals of the run in each of the worker's slots; `dirs` the temporary directories, `rows`
`submission_artifacts`, `objects` the bucket, `sending` the put requests under way, `files` what
is at Gemini. `scrape` is `FetchPrimary`, `FetchEmbed`, `StartYtDlp`, `DownloadWithYtDlp`,
`RenderPublicPage`, `StartDownload`, `Download`, each with the ways it gives up; `extract` is
`Extract`; `saveEvidenceArtifacts` has one action per statement, and its concurrent puts end in
any order, also after the save they belong to has failed. `identify` is `Upload` and, in its
`finally`, `DeleteFiles`. `Crash` stops all runs of the process. `CleanupExpired` is the hourly
sweep. `abandoned` and `half` are history: which runs were interrupted or refused a deletion,
and which submissions a save left between deleting objects and rows.

Abstracted: a page is whether it shows text, a video and an image; what ffmpeg makes is a set of
kinds; a failing database statement other than the insert is the crash at the same place; the
expiry of a row is the day it falls on; the database as storage, which keeps the data in the row.

### ClientErrors – the error window of the mobile app

`windows` is the map `mobileErrorWindows`, `clock` is `Date.now()`; `accepted` and `refused`
record when a user's reports were. A handler reads and writes its window without an await in
between, so it is one action: `Accept` or `Refuse`, in the window `Window(u)` says. `Restart`
empties the map. The clock goes forward; several API processes have a map each, and the bounds
are per process.

### Listings – walks from page to page

One client's walk through the watchlist, the inbox or the log (`listing`): `FetchPage` is a
request with the `cursor` of the page before, one SELECT. `rows` is the table it reads: `Insert`
adds a row, with a creation time up to `Lag` older than the moment it becomes visible (the time
of a statement or log record, the visibility of its commit); `Move` changes a watch status, or
lets a submission be identified or go back to the queue; `RemoveRow` deletes an entry. Times are
ticks, of which `PerMs` make a millisecond, since PostgreSQL keeps microseconds and the cursor
does not. `steady`, `onPages`, `twice`, `ends` and `mixed` are history: what the client should
see, has seen, has seen twice, where pages ended, and whether one had rows of two statuses.

Abstracted: what a row shows; the log's filters, which do not change during a walk; the clients'
own limits. Where the order leaves a tie open, as the inbox's and the log's do, `Pages` is every
page the database may return.

### MetadataCache – details and seasons of a title

Requests for the streaming page of one title, each with the two branches of its `Promise.all`:
`details` (`Lookup`, `FetchDetails`, `FetchSeason` for each season in any order, `Put`) and
`providers` (`AskProviders`). One branch may fail and answer the client while the other goes on
and stores; a season may fail while the others still arrive. The cache may start with a row of
an earlier version. Seasons air (`Air`) at any time; the rest of the details is in `names` as
well, since it comes with them.

### The proof modules

`QuotaServiceProofs`, `SubmissionPipelineProofs`, `WorkCatalogProofs`, `EvidenceArtifactsProofs`,
`ClientErrorsProofs`, `ListingsProofs` and `MetadataCacheProofs` have the theorems about the
modules they extend. `QuotaLedgerProofs` extends `QuotaServiceProofs`: the counters are exact and
`QuotaLedger` is implemented.

## The runs

| Run | Checks | Result |
| --- | --- | --- |
| `quota_safety` | `TypeOK`, `UsageWithinCap`, `RetriesWithinCap` | hold |
| `quota_ledger` | `LedgerExact`, `ImplementsLedger` | hold, for one reconciler and one job per URL |
| `quota_live` | `EligibleAdmitted`, `HandlersReturn` | hold, with a batch that holds all waiting rows |
| `quota_starvation` | `EligibleAdmitted` | violated, with a batch smaller than the waiting rows |
| `pipeline_live` | `TypeOK`, `EventuallySettled` | hold, for one row per URL and one interruption |
| `pipeline_shared` | `FannedOut`, `CacheUsable` | hold, for two rows of a URL without media, final failures and one interruption |
| `pipeline_rerun` | `StageHasJob`, `OrphanLostEnqueue` | hold, with an admin job, a reprocess request and two interruptions |
| `pipeline_fanout` | `NoOrphan` | violated, with two rows of a URL |
| `pipeline_personal` | `ManualStaysPersonal` | violated |
| `api_requests` | `ChosenButForClashes`, `OneWorkPerTitle`, `MarkedIsMeant` | hold, for TMDB numbers that differ |
| | `SpanBounded`, `RefusedWhenFull` | hold |
| | `NothingSkipped`, `NothingTwice` | hold, with the exceptions they name |
| | `SeasonsComplete`, `FetchedOnce` | hold |
| `catalog_kinds` | `ChosenTitle` | violated, for a movie and a series with the same number |
| `evidence_saves` | `NoPartialLeftBehind`, `EvidenceKept`, `NothingLeftAtGemini`, `ListedCanBeRead` | hold |

What the violated ones show:

- **Starvation** (`README.md` line 83, "admits the oldest eligible entries"): `admitWaiting`
  takes the oldest waiting rows, eligible or not. When one user has a batch of old rows and no
  allowance, a younger row of another user who has allowance is never looked at.
- **Lost joiner** (`README.md` line 74, "completion fans the result out to every waiting user"):
  a row committed after the run's last read of the URL's rows, whose enqueue finds the job still
  active, stays `queued`; confirm, resolve and reprocess refuse a queued row.
- **Manual result in the cache** (`README.md` line 75, "never overwrite the global cache"):
  confirm and resolve check a status read earlier, and `setStatus` caches what the row holds; a
  manual resolution that commits during a run reaches everyone who sends that URL later.
- **Movie for series** (`schema.ts:126`, where an external id is unique together with its type;
  `repository.integration.test.ts:229`): `addToWatchlist` and `addWork` look a work up by
  provider and number. A series whose TMDB number belongs to a movie in `works` puts the movie
  on the list; the other way round as well.

More counterexamples are reachable by editing a configuration, and have no run of their own:

- `quota_ledger` on the instance `Pair` with one admin job: `refundTechnicalFailure` reads the
  reservation before its lock, so two jobs on one URL that fail together take two from the
  counter for one reservation (`LedgerExact`; line 82, "Technical failures ... refund a
  reservation").
- `quota_ledger` on the instance `Shared` with `RepeatedUrlIsFree`: the row inserted second but
  committed first is the earliest visible row and is charged; when the other row appears it has
  the smaller `createdAt` and is charged too (line 82, "repeated normalized URLs do not consume
  quota").
- `pipeline_rerun` with `NoOrphan`: a reprocess request accepted between the write of
  `failed` and the end of that job is absorbed by the job and lost (line 45, "safely enqueue it
  again"); and an enqueue that fails, or that a shutdown cuts off, leaves a row `queued` that
  the user can neither confirm nor reprocess nor send again (line 40, "Persist and enqueue").
- `api_requests` with `NothingSkipped` without its last disjunct: after a page that ends in an
  old entry to watch, a newer one that has been watched is on no page, since the order goes by
  status first and the cursor is a time (line 47, "Paginated watchlist"; `openapi.ts:90`,
  "Exclusive ISO 8601 cursor returned by the previous page"). With `NothingTwice` without
  `mixed`: a page that ends in an older row of the next status shows newer rows of the status
  before again. Without the other disjunct, on every listing: a second row of the millisecond a
  page ended in is skipped.
- `pipeline_shared` on the instance `Repost` with `Media = {x, y}`: a row inserted between the
  SELECT and the UPDATE of a fingerprint hit is identified without an entry (`FannedOut`).
- `pipeline_shared` with `Retriers = {q1}`: `registerRetry` clears the work of a row the next
  attempt has just identified, and an identified result without a work is cached
  (`CacheUsable`).
- `pipeline_shared` with `AdminJobs = {j1}` and no fault: an administrator reprocesses a row whose
  request is still looking at the cache; the request finds a question cached by the first run and
  writes it, without a work, over the work the administrator's run has just given the row
  (`CacheUsable`, and once that run has ended `FannedOut`).
- `pipeline_shared` with `MaxFaults = 2`: a run that stalls for the second time between `Settle` and
  `FanOut` is given up, and a row that joined it after `AddToWatchlist` is identified without an
  entry (`FannedOut`). With transient causes one interruption is enough: after a failed first attempt,
  the read of the rows for `FanOut` is refused in the last one, and so is the catch's own `setStatus`.

With two reconcilers `LedgerExact` fails as well: both may read a waiting row before either
charges it, so a row is charged twice.

Three weaknesses no sentence of the repository speaks about, so that no property states them:

- A work that `addMovie` stored, or an `addWork` that ended between its two inserts, has no external
  id. `addWork` and the pipeline then do not find it and fail on `works_tmdb_id_unique` each
  time they are given it; in `api_requests` these are the requests that end in `AddToWatchlist` and
  `InsertWork` without a work.
- Objects may stay in the bucket that no row names: a put that completes after another put of its
  save has failed, the objects of a second job on the submission whose rows the first one
  deletes, and those of a row that expires between the SELECT and the DELETE of stale rows.
- A Stremio catalog lists an entry under the IMDb id TMDB gives although its insert failed
  (`stremio.ts:136-141`, the second disjunct of `ListInCatalog`); to mark it under that id finds
  nothing until a later catalog request stores it.

### Bounds

`LastDay`, `Batch`, `Attempts`, `MaxFaults`, `MaxStalled`, `MaxCrashes`, `MaxClock`, `MaxTime`
and the sets of processes and rows are the bounds; no other counter grows. Two rows are enough
for every race between rows of a user or of a URL, since each lock and each counter is about one
user-day, one URL or one submission; `quota_ledger` has a third, so that a shared URL and a
second URL of the same user occur together. Two concurrent retriers are enough for a race for
the last retry. A limit of 1, raised to 2 in `quota_live` and lowered to no retries in
`quota_safety`, makes the limit the thing in the way; two attempts let a retry follow a refund.
One interruption meets every program counter of a handler, a pass or a run; `MaxStalled` is
BullMQ's default of one, and the two interruptions of `pipeline_rerun` let it give a run up. In
`api_requests` three additions are needed to link a wrong work, two to race and one to find it;
the two titles and the two users, and the additions, are interchangeable, except that the titles
differ in kind. A window of two reports and three ticks, and a clock of two windows and one
tick, let windows lie together and apart, and let five reports be accepted, the fewest
`SpanBounded` speaks of. Three rows and pages of two make walks of several pages; two statuses,
two ticks in a millisecond and a delay of one give ties, rows that appear behind the cursor and
pages with two statuses. Three requests and two seasons: one that has stored the details, one that
comes after it, and an older one that still fetches, stores or fails at every step of the two. In `evidence_saves` two runs are what the worker's concurrency allows
at a time, `Retention` of two days is the least the assumption admits and `LastDay` 2 lets
everything expire; one crash meets every step. A second run per slot does not fit. Deadlock is
checked where a reconciler runs for ever; elsewhere the system may stop, when every submission
is settled.

### Fairness

`QuotaService`: strong fairness for each handler and each reconciler. A handler that was
called runs on and its database queues lock waiters in order, so a lock that becomes free
again and again is granted; the reconciler's timer keeps firing. Nothing is assumed of users,
administrators, the calendar, or which row a pass favours.
`SubmissionPipeline`: weak fairness for handlers, the reconciler, BullMQ and a running worker, and
strong fairness for `AdmitWaiting`, since the allowance is renewed every day. Users need not
confirm, retry or resolve; crashes are not fair.

## The proofs

All theorems are about specifications without fairness and hold for any values of the constants
that meet the named assumptions. Every safety property of a passing run is proved. Where a property
fails in races the runs leave out, the theorem names the races and says that the property holds in
every behaviour without them, so that the code has no other way to break it; what the code cannot
do anyway is not assumed away but proved.

### Quota

`QuotaServiceProofs`, from the assumptions named in `QuotaService` (owners and URLs of
submissions are given and a user has one row per URL; processes have distinct names; limits are
natural numbers and the administrator stays within the caps), for any number of days:

- `TypeCorrect`: `Spec => []TypeOK`;
- `CapRespected`: `Spec => []UsageWithinCap`;
- `RetriesRespected`: `Spec => []RetriesWithinCap`.

`TypeOK` is not inductive: a `Charge` writes the counter of the user of `admit[p].sub`, so one
has to know that a transaction past its start has a row and, past `LockUrl`, a day. `TypeInv`
adds that for transactions, retries and jobs, and the proof goes process by process with one
lemma for each, and one step per action in it.

`UsageWithinCap` needs to know what a transaction between `LockWindow` and its commit has read.
`CapInv` adds: the value it read is still the counter, the limit it read is within the cap, and
no other transaction is there with the same user and day. `LockWindow` establishes this because
the lock is free; `Charge` keeps it because the others have read other counters; `Refund` keeps it
because it waits for the same lock. Without the lock's part `Charge` could push a counter
past the cap, which is the mutant the run checks. `RetriesWithinCap` follows from `RetryInv` in
the same way.

### Ledger

`QuotaLedgerProofs`, from the same assumptions:

- `LedgerExactButForRaces`: `Spec /\ []NoRace => []LedgerExact`;
- `LedgerImplementedButForRaces`: `Spec /\ []NoRace => ImplementsLedger`.

`NoRace` excludes two races, both described above: the passes of two reconcilers hold the same row,
and an admin job refunds a row while another job does. Any number of reconcilers and of admin jobs
may run beside each other otherwise. The counterexamples with a second reconciler and with an admin
job show that neither half can be left out. That the jobs of two URLs never refund the same row is
proved (`RacesApart`, from `JobsOfUrl`), and that nothing but these two races can make two hands hold
one reservation (`NoRaceOneAtATime`).

`LedgerExact` compares a counter with the rows charged on it (`Books`), and is not inductive: a
`Charge` could count a row a second time, a `Refund` give back what is not there. `LedgerInv` adds
that a row waits for its quota, or is in a pass, only after its own handler has returned
(`HandlerFirst`), that whoever may still charge a row finds it uncharged (`Uncharged`), that a
refund finds the reservation it has read (`ReservationRead`), and that reservations are on days that
have been (`ReservedDays`). Each step keeps the books because it leaves all reservations alone
(`BooksKept`) or takes or gives back exactly one (`ChargeBooks` and its counterpart, with
`FiniteSetTheorems`). For the refinement, `Charge` is `Reserve` and `Refund` is the ledger's
`Refund`, all other steps stutter; that the cap is respected comes from `CapInv`.

### Pipeline

`SubmissionPipelineProofs`, from `ConstantsAssumption` of `SubmissionPipeline`, for any rows, URLs,
handlers, administrators' jobs, attempts and interruptions:

- `PipelineTypeCorrect`: `Spec => []TypeOK`;
- `StagesHaveJobs`: `Spec => []StageHasJob`;
- `OrphansLostTheirEnqueue`: `Spec => []OrphanLostEnqueue`.

`TypeInv` adds to `TypeOK` what each process knows: a run has its row, and from `hitRows` or
`fanOut` on the work it is about to write; a URL's job is about that URL.

`OrphanLostEnqueue` is not inductive: a job in the queue attends to a row, but leaves it behind
when it ends. `WorkInv` says of each row in progress that it is in `lost`, or that a run of its
URL is before its last write to the rows, or, if it is `queued`, that a handler still owes it an
enqueue. A step of a run keeps this because the run goes on (`RunKeeps`), writes a stage it is
in (`StageKeeps`) or settles every row of the URL (`LastWriteKeeps`); an enqueue because it
finds such a run, starts one, or is remembered (`EnqueueKeeps`). Only `Crash` and
`RefuseFailure` may end a run before its last write, and put its rows into `lost` when it is not
begun anew.

Who gets the result, in the same module:

- `FannedOutButForRaces`: `Spec /\ [][NoRace]_vars => []FannedOut`;
- `CacheUsableButForRaces`: `Spec /\ [][~WorkTaken]_vars => []CacheUsable`.

`NoRace` excludes three steps: a Reel is sent between a fingerprint hit's reading of the rows and its
update of them (`SentDuringHit`); a reprocess request or a cached question takes the work from a row
whose run has given it one and reads it again (`WorkTaken`); a run is given up between its
update of the rows and its entries, or in its last attempt before it begins anew (`GivenUp`). None of
the three can be left out: each has its counterexamples above.

`FannedOut` speaks of URLs without a job, where nothing is left to be done. `FanInv` says what
holds meanwhile: an identified row has a work and its entry, or a run of its URL is about to add it
or will begin anew, which overwrites the status (`Fan`); what a run takes over it has already
given to every owner (`HitInv`). The work itself is `KeptInv`'s: whoever works on a row finds it
there (`PresentInv`), the row of a run that has identified it has a work until the run ends
(`HeldInv`), and so has all that is cached or read from the cache (`UsableInv`). The proof says
first what a step may do to a row (`RowStep`) and to a run (`RunStep`), action by action, and
derives the rest from that.

### Works

`WorkCatalogProofs`, from the assumptions named in `WorkCatalog`, for any users, titles,
requests and marks:

- `OneRowPerTitle`: `Spec => []OneWorkPerTitle`;
- `StremioMarksTheMeant`: `Spec => []MarkedIsMeant`;
- `TitleAsChosen`: `Spec => []ChosenButForClashes`: a request that succeeds has put a work of its
  title's number on the list, and its very title unless another title has the number as well.
  `catalog_kinds` shows that the exception cannot be left out.

`WorksInv`: no two works have the same number, a work's number is its title's, and its kind and
number are for ever those of a title. `Kept`: no step changes the number or the kind of a work, so
what an IMDb id led to when it was stored it leads to later, under whatever title an upsert has left
there. `ChosenInv`: external ids lead to works of their number, and every request that has a work has
one of the number of the title it was made for; with `WorksInv`, the number tells the title apart
where no other has it.

### Evidence

`EvidenceArtifactsProofs`, from the assumption named in `EvidenceArtifacts`, for any slots,
submissions, pages, crashes and days:

- `NoPartialDownloads`: `Spec => []NoPartialLeftBehind`;
- `SweepSparesRuns`: `Spec => []EvidenceKept`;
- `GeminiIsEmptied`: `Spec => []NothingLeftAtGemini`;
- `ListedArtifactsCanBeRead`: `Spec => []ListedCanBeRead`.

`LeftoverInv` speaks of runs under way where the properties speak of runs that have ended: an
incomplete directory is that of a run still downloading into it (`Partial`); a run's evidence was
touched on a day the run has seen, and a run sees two days at most, which the retention outlasts
(`Kept`); a file at Gemini is that of a run still identifying (`Uploads`); crashes and refusals
excepted, as in the properties.

A row is inserted after its object was stored and deleted after it, but the deletions go by keys read
earlier, while other runs store and delete. `ReadInv` says that a row not expired has its object
unless a run is between deleting the objects and the rows it has chosen (`Readable`, `Chosen`),
that a run's own keys are stored when it inserts them (`OwnKeys`), and that keys are not used twice: no
row and no choice has a key of an attempt that has not saved yet (`KnownKeys`, `NoneYet`, `Unique`).
TLC checked both invariants on the instance of `evidence_saves` before they were proved.

### Client errors, listings, metadata

Each for the constants its `Parameters` name.

- `SpansBounded`, `RefusalsJustified`: `Placed` says where the reports of a user lie: the last
  `count` since the window started, the `MaxErrors` before them no later, all earlier ones a
  window's length before that. So a report that opens a window is a window's length after the
  second to last window's reports, which is the gap `Spread` asks for; and a refusal finds
  `MaxErrors` reports in the window that is open (`Filled`).
- `WalksSkipNothing`, `WalksRepeatNothing`: a steady row not seen yet is ahead of the cursor, or
  some page ended in its millisecond or in another status (`SteadyInv`); rows seen are not older
  than the cursor while no page had two statuses (`TwiceInv`). `LeftOut` is the step: what a
  page leaves out is behind its last row in the order. A row removed or moved back is ruled out
  by leaving `steady`.
- `CacheWhole`, `NoSecondFetch`: a current row in the cache is complete and stays current, a
  request with details has them complete (`Stored`, `RequestInv`); a request that came when
  another had its details therefore finds a current row at its lookup.

### What is only model-checked

Liveness (`EligibleAdmitted`, `HandlersReturn`, `EventuallySettled`), which the proof system does not
cover, and the violated properties, which are counterexamples.

## Plan

1. Done: the modules above, with theorems about all safety properties of the passing runs.
2. Whether `WorkTaken` can be narrowed to the two handlers that cause it.
3. An abstract specification of the watchlist that `WorkCatalog` implements for distinct numbers.
4. Evidence summaries, together with the runs that write them.

## Not modelled

HTTP clients and parsing (searches, scraper, Gemini, URL normalisation), authentication,
configuration, migrations and the OpenAPI description keep no state the properties are about.
Overviews, roles, health and details of a row only read; audits only append, after the action they
record, so that an action whose request ends early has none. Stremio's catalogs are paged by a
number of rows the Stremio client chooses, so a walk through them is the client's. Logging has no
state but its records, which are rows of `Listings`; they are written without waiting, so those of
a process's last moments, such as `api.shutdown_completed` after the pool has ended
(`server.ts:59-60`), may never reach the table. Evidence summaries, which concurrent runs may
overwrite, are not modelled yet.
