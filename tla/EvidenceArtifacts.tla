------------------------- MODULE EvidenceArtifacts -------------------------
(***************************************************************************)
(* The evidence of a run: what the scraper downloads, what ffmpeg makes of *)
(* it, the copies in object storage and at Gemini, and the sweep of        *)
(* temporary directories.  src/pipeline.ts, saveEvidenceArtifacts of       *)
(* src/pipeline-store.ts, src/artifact-storage.ts and the sweep of         *)
(* src/worker.ts; object storage is configured.                            *)
(*                                                                         *)
(* This is the inside of SubmissionPipeline's ScrapeMedia and of a run     *)
(* that is "scraping" or "identifying" there.  What a run writes to the    *)
(* submissions is there; a run that fails or ends here simply gives its    *)
(* slot back.                                                              *)
(***************************************************************************)
EXTENDS Naturals, FiniteSets

CONSTANTS
    Runs,        \* the worker's slots
    None,        \* no submission
    Submissions, \* any slot may work on any; two may work on the same
    Pages,       \* what a page may show: [text, media, image : BOOLEAN]
    Extracts,    \* sets of artifacts ffmpeg may make of a video
    YtDlp,       \* SCRAPER_YTDLP_FALLBACK
    Browser,     \* SCRAPER_BROWSER_FALLBACK
    Retention,   \* days that directories and artifacts are kept
    LastDay,     \* bound: the last day considered
    MaxAttempts, \* bound: runs per slot
    MaxCrashes   \* bound: crashes of the worker

Kinds == {"video", "frame", "audio"}

ASSUME PagesAssumption ==
    /\ Pages \subseteq [text : BOOLEAN, media : BOOLEAN, image : BOOLEAN]
    /\ Extracts \subseteq SUBSET {"frame", "audio"}
    /\ YtDlp \in BOOLEAN /\ Browser \in BOOLEAN
\* A run takes minutes, so it may see one midnight, and retention is longer than that.
ASSUME RetentionAssumption ==
    /\ Retention \in Nat \ {0, 1}
    /\ LastDay \in Nat /\ MaxAttempts \in Nat /\ MaxCrashes \in Nat

VARIABLES
    run,        \* per slot, the locals of its run
    dirs,       \* temporary directories: whose, touched when, download complete or not
    rows,       \* submission_artifacts: object key and day of expiry
    objects,    \* keys in object storage
    sending,    \* keys of put requests under way, their run waiting or not
    files,      \* files at Gemini
    abandoned,  \* runs a crash interrupted or a provider refused to clean up after
    half,       \* submissions whose save stopped between deleting objects and rows
    day,
    crashes

vars == <<run, dirs, rows, objects, sending, files, abandoned, half, day, crashes>>

Blank == [text |-> FALSE, media |-> FALSE, image |-> FALSE]
Idle(n) == [pc |-> "idle", n |-> n, of |-> None, since |-> 0, page |-> Blank, kinds |-> {}, keys |-> {}]
PCs == {"idle", "primary", "embed", "ytdlp", "ytdlp_download", "browser", "download", "writing",
        "extract", "select_stale", "select_replaced", "delete_objects", "delete_expired",
        "delete_replaced", "put", "cleanup", "fingerprint", "upload", "delete_files"}

Init ==
    /\ run = [r \in Runs |-> Idle(0)]
    /\ dirs = {} /\ rows = {} /\ objects = {} /\ sending = {} /\ files = {} /\ abandoned = {}
    /\ half = {} /\ day = 0 /\ crashes = 0

\* A run is named by its slot, its number there and its submission; a stored object and a
\* file by its run and its kind.
Attempt(r) == <<r, run[r].n, run[r].of>>
Key(r, k) == <<Attempt(r), k>>
RunOf(key) == key[1]
SlotOf(key) == RunOf(key)[1]
SubmissionOf(key) == RunOf(key)[3]
Active(a) == run[a[1]].pc # "idle" /\ run[a[1]].n = a[2]

At(r, pc) == run[r].pc = pc
Goto(r, pc) == run' = [run EXCEPT ![r].pc = pc]
GotoWith(r, pc, field, value) == run' = [run EXCEPT ![r].pc = pc, ![r][field] = value]
Scraped(r, kinds) ==
    run' = [run EXCEPT ![r].pc = "select_stale", ![r].kinds = kinds, ![r].page = Blank]
End(r) == run' = [run EXCEPT ![r] = Idle(@.n)]

Directory(r, whole) == [by |-> Attempt(r), touched |-> day, whole |-> whole]
OwnDirs(r) == {d \in dirs : d.by = Attempt(r)}
MakeDirectory(r) == dirs' = dirs \cup {Directory(r, FALSE)}
Complete(r) == dirs' = (dirs \ OwnDirs(r)) \cup {Directory(r, TRUE)}
RemoveDirectory(r) == dirs' = dirs \ OwnDirs(r)
-----------------------------------------------------------------------------
(* PublicInstagramScraper.scrape                                           *)

Storage == <<rows, objects, sending>>
Rest == <<Storage, files, abandoned, half, day, crashes>>

Start(r) ==
    /\ At(r, "idle") /\ run[r].n < MaxAttempts
    /\ \E s \in Submissions :
         run' = [run EXCEPT ![r] = [Idle(@.n + 1) EXCEPT !.pc = "primary", !.of = s, !.since = day]]
    /\ UNCHANGED <<dirs, Rest>>

\* The first layer still to try, or the download of what has been found.
NextLayer(page, tried) ==
    IF page.media THEN "download"
    ELSE IF YtDlp /\ tried \subseteq {"embed"} THEN "ytdlp"
    ELSE IF Browser /\ "browser" \notin tried THEN "browser" ELSE "download"

FetchPrimary(r) ==
    /\ At(r, "primary")
    /\ \/ \E page \in Pages : GotoWith(r, IF page.media THEN "download" ELSE "embed", "page", page)
       \/ End(r)
    /\ UNCHANGED <<dirs, Rest>>

\* What the primary page showed takes precedence, except for the video.
Merged(page, other) ==
    [text |-> page.text \/ other.text, media |-> other.media, image |-> page.image \/ other.image]

\* Only a page with a title or a description survives a failing embed page.
FetchEmbed(r) ==
    LET page == run[r].page IN
    /\ At(r, "embed")
    /\ \/ \E other \in Pages :
            LET m == Merged(page, other) IN GotoWith(r, NextLayer(m, {"embed"}), "page", m)
       \/ page.text /\ Goto(r, NextLayer(page, {"embed"}))
       \/ ~page.text /\ End(r)
    /\ UNCHANGED <<dirs, Rest>>

StartYtDlp(r) ==
    /\ At(r, "ytdlp")
    /\ MakeDirectory(r) /\ Goto(r, "ytdlp_download")
    /\ UNCHANGED Rest

\* A video that is too long or too large ends the run, any other failure the layer.
DownloadWithYtDlp(r) ==
    /\ At(r, "ytdlp_download")
    /\ \/ Complete(r) /\ Goto(r, "extract")
       \/ RemoveDirectory(r) /\ End(r)
       \/ RemoveDirectory(r) /\ Goto(r, NextLayer(run[r].page, {"embed", "ytdlp"}))
    /\ UNCHANGED Rest

\* A browser that fails ends the run, whatever text or image was found before.
RenderPublicPage(r) ==
    /\ At(r, "browser")
    /\ \/ \E other \in Pages : GotoWith(r, "download", "page", Merged(run[r].page, other))
       \/ End(r)
    /\ UNCHANGED <<dirs, Rest>>

\* A refused address, type or size ends the run before there is a directory.
StartDownload(r) ==
    LET page == run[r].page IN
    /\ At(r, "download")
    /\ \/ /\ page.media \/ page.image
          /\ MakeDirectory(r) /\ Goto(r, "writing")
       \/ /\ ~page.media /\ ~page.image /\ page.text
          /\ Scraped(r, {}) /\ UNCHANGED dirs
       \/ /\ page.media \/ page.image \/ page = Blank
          /\ End(r) /\ UNCHANGED dirs
    /\ UNCHANGED Rest

\* A stream that breaks or exceeds the limit, or a video that is too long, is removed.
DownloadMutant(r) ==
    /\ At(r, "writing")
    /\ \/ Complete(r) /\ IF run[r].page.media THEN Goto(r, "extract") ELSE Scraped(r, {"frame"})
       \/ (IF run[r].page.media THEN RemoveDirectory(r) ELSE UNCHANGED dirs) /\ End(r)
    /\ UNCHANGED Rest
Download(r) ==
    /\ At(r, "writing")
    /\ \/ Complete(r) /\ IF run[r].page.media THEN Goto(r, "extract") ELSE Scraped(r, {"frame"})
       \/ RemoveDirectory(r) /\ End(r)
    /\ UNCHANGED Rest

\* ffmpeg's failures leave artifacts out; the frames and the audio join the video.
Extract(r) ==
    /\ At(r, "extract")
    /\ \E made \in Extracts : Scraped(r, {"video"} \cup made)
    /\ Complete(r)
    /\ UNCHANGED Rest
-----------------------------------------------------------------------------
(* DrizzlePipelineStore.saveEvidenceArtifacts                              *)

Own(r, row) == SubmissionOf(row.key) = run[r].of
Expired(row) == row.expires <= day  \* its moment has passed when that day's steps happen
KeysOf(some) == {row.key : row \in some}

SelectStale(r) ==
    /\ At(r, "select_stale")
    /\ GotoWith(r, "select_replaced", "keys", KeysOf({row \in rows : Expired(row)}))
    /\ UNCHANGED <<dirs, Rest>>

SelectReplaced(r) ==
    /\ At(r, "select_replaced")
    /\ GotoWith(r, "delete_objects", "keys",
                run[r].keys \cup KeysOf({row \in rows : Own(r, row)}))
    /\ UNCHANGED <<dirs, Rest>>

\* A request that fails may have deleted some of the objects.
DeleteObjects(r) ==
    /\ At(r, "delete_objects")
    /\ \/ /\ objects' = objects \ run[r].keys
          /\ GotoWith(r, "delete_expired", "keys", {})
          /\ UNCHANGED <<abandoned, half>>
       \/ /\ run[r].keys # {}
          /\ \E gone \in SUBSET run[r].keys : objects' = objects \ gone
          /\ abandoned' = abandoned \cup {Attempt(r)}
          /\ half' = half \cup {run[r].of}
          /\ End(r)
    /\ UNCHANGED <<dirs, rows, sending, files, day, crashes>>

\* By the clock of this statement, not by the one the objects were chosen with.
DeleteExpired(r) ==
    /\ At(r, "delete_expired")
    /\ rows' = {row \in rows : ~Expired(row)}
    /\ Goto(r, "delete_replaced")
    /\ UNCHANGED <<dirs, objects, sending, files, abandoned, half, day, crashes>>

Between(r) == run[r].pc \in {"delete_expired", "delete_replaced"}

DeleteReplacedMutant(r) ==
    /\ At(r, "delete_replaced")
    /\ IF run[r].kinds = {}
       THEN Goto(r, "upload") /\ UNCHANGED <<sending, rows>>
       ELSE Goto(r, "put") /\ sending' = sending \cup {Key(r, k) : k \in run[r].kinds}
            /\ rows' = {row \in rows : ~Own(r, row)}
    /\ half' = half \ {run[r].of}
    /\ UNCHANGED <<dirs, objects, files, abandoned, day, crashes>>
\* All puts are sent at once.
DeleteReplaced(r) ==
    /\ At(r, "delete_replaced")
    /\ rows' = {row \in rows : ~Own(r, row)}
    /\ IF run[r].kinds = {}
       THEN Goto(r, "upload") /\ UNCHANGED sending
       ELSE Goto(r, "put") /\ sending' = sending \cup {Key(r, k) : k \in run[r].kinds}
    /\ half' = half \ {run[r].of}
    /\ UNCHANGED <<dirs, objects, files, abandoned, day, crashes>>

\* A put is counted if its run still waits; one that fails sends the run to clean up, and
\* the puts that are still under way are not waited for.
Waits(key) == Active(RunOf(key)) /\ At(SlotOf(key), "put")

Put(key) ==
    /\ key \in sending
    /\ sending' = sending \ {key}
    /\ objects' = objects \cup {key}
    /\ run' = IF Waits(key) THEN [run EXCEPT ![SlotOf(key)].keys = @ \cup {key}] ELSE run
    /\ UNCHANGED <<dirs, rows, files, abandoned, half, day, crashes>>

PutFails(key) ==
    /\ key \in sending
    /\ sending' = sending \ {key}
    /\ run' = IF Waits(key) THEN [run EXCEPT ![SlotOf(key)].pc = "cleanup"] ELSE run
    /\ UNCHANGED <<dirs, rows, objects, files, abandoned, half, day, crashes>>

\* The expiry is reckoned just before the puts; a midnight during them is not told apart.
InsertRows(r) ==
    /\ At(r, "put") /\ run[r].keys = {Key(r, k) : k \in run[r].kinds}
    /\ \/ /\ rows' = rows \cup {[key |-> key, expires |-> day + Retention] : key \in run[r].keys}
          /\ GotoWith(r, IF "video" \in run[r].kinds THEN "fingerprint" ELSE "upload", "keys", {})
       \/ Goto(r, "cleanup") /\ UNCHANGED rows
    /\ UNCHANGED <<dirs, objects, sending, files, abandoned, half, day, crashes>>

\* Its own failure is ignored.
Cleanup(r) ==
    /\ At(r, "cleanup")
    /\ \/ objects' = objects \ run[r].keys /\ UNCHANGED abandoned
       \/ /\ run[r].keys # {}
          /\ \E gone \in SUBSET run[r].keys : objects' = objects \ gone
          /\ abandoned' = abandoned \cup {Attempt(r)}
    /\ End(r)
    /\ UNCHANGED <<dirs, rows, sending, files, half, day, crashes>>
-----------------------------------------------------------------------------
(* The fingerprint and GeminiIdentifier.identify                           *)

\* On an exact match the run ends without Gemini.
Fingerprint(r) ==
    /\ At(r, "fingerprint")
    /\ Goto(r, "upload") \/ End(r)
    /\ UNCHANGED <<dirs, Rest>>

\* The artifacts stand for the video they are made of.
Inputs(r) == IF run[r].kinds \subseteq {"video"} THEN run[r].kinds ELSE run[r].kinds \ {"video"}
Uploaded(r) == {f \in files : RunOf(f) = Attempt(r)}
ToUpload(r) == {Key(r, k) : k \in Inputs(r)} \ files

Upload(r) ==
    /\ At(r, "upload")
    /\ \/ \E f \in ToUpload(r) :
            /\ files' = files \cup {f}
            /\ UNCHANGED run \/ Goto(r, "delete_files")   \* ready, or not processed in time
       \/ Goto(r, "delete_files") /\ UNCHANGED files      \* an answer, or a failed request
    /\ UNCHANGED <<dirs, Storage, abandoned, half, day, crashes>>

\* Whatever the outcome; a deletion that fails is ignored.
DeleteFilesMutant(r) ==
    /\ At(r, "delete_files")
    /\ \/ ToUpload(r) = {} /\ files' = files \ Uploaded(r) /\ UNCHANGED abandoned
       \/ ToUpload(r) # {} /\ UNCHANGED <<files, abandoned>>
    /\ End(r)
    /\ UNCHANGED <<dirs, Storage, half, day, crashes>>
DeleteFiles(r) ==
    /\ At(r, "delete_files")
    /\ \/ files' = files \ Uploaded(r) /\ UNCHANGED abandoned
       \/ /\ Uploaded(r) # {}
          /\ \E kept \in SUBSET Uploaded(r) : files' = files \ (Uploaded(r) \ kept)
          /\ abandoned' = abandoned \cup {Attempt(r)}
    /\ End(r)
    /\ UNCHANGED <<dirs, Storage, half, day, crashes>>
-----------------------------------------------------------------------------
(* The worker's process and time                                           *)

\* Every run of the process stops where it is; puts may have arrived or not.
Crash ==
    /\ crashes < MaxCrashes /\ crashes' = crashes + 1
    /\ abandoned' = abandoned \cup {Attempt(r) : r \in {q \in Runs : ~At(q, "idle")}}
    /\ half' = half \cup {run[r].of : r \in {q \in Runs : Between(q)}}
    /\ run' = [r \in Runs |-> Idle(run[r].n)]
    /\ \E arrived \in SUBSET sending : objects' = objects \cup arrived
    /\ sending' = {}
    /\ UNCHANGED <<dirs, rows, files, day>>

CleanupExpiredMutant ==
    /\ dirs' = {d \in dirs : d.touched = day}
    /\ UNCHANGED <<run, Rest>>
CleanupExpired ==
    /\ dirs' = {d \in dirs : day - d.touched < Retention}
    /\ UNCHANGED <<run, Rest>>

NextDay ==
    /\ day < LastDay
    /\ \A r \in Runs : At(r, "idle") \/ run[r].since = day
    /\ day' = day + 1
    /\ UNCHANGED <<run, dirs, Storage, files, abandoned, half, crashes>>

Scrape(r) ==
    \/ Start(r) \/ FetchPrimary(r) \/ FetchEmbed(r) \/ StartYtDlp(r) \/ DownloadWithYtDlp(r)
    \/ RenderPublicPage(r) \/ StartDownload(r) \/ Download(r) \/ Extract(r)
Save(r) ==
    \/ SelectStale(r) \/ SelectReplaced(r) \/ DeleteObjects(r) \/ DeleteExpired(r)
    \/ DeleteReplaced(r) \/ InsertRows(r) \/ Cleanup(r)
Identify(r) == Fingerprint(r) \/ Upload(r) \/ DeleteFiles(r)

Next ==
    \/ \E r \in Runs : Scrape(r) \/ Save(r) \/ Identify(r)
    \/ \E key \in sending : Put(key) \/ PutFails(key)
    \/ Crash \/ CleanupExpired \/ NextDay

Spec == Init /\ [][Next]_vars
-----------------------------------------------------------------------------
(* Properties                                                              *)

\* "Partial or invalid downloads are removed at their point of failure" (pipeline.ts:546): a
\* directory whose download is not complete belongs to a run under way or to a crashed one,
\* through every fallback of the scraper.
NoPartialLeftBehind == \A d \in dirs : d.whole \/ Active(d.by) \/ d.by \in abandoned

\* The sweep (worker.ts:41-50) never takes the evidence of a run that still has to read it,
\* to save it, to fingerprint it or to upload it.
EvidenceKept ==
    \A r \in Runs :
       run[r].kinds # {} => \E d \in OwnDirs(r) : d.whole

\* Media sent to Gemini does not stay there: a file belongs to a run that is identifying, or
\* to one that crashed or whose deletion Gemini refused (pipeline.ts:449-452).
NothingLeftAtGemini == \A f \in files : Active(RunOf(f)) \/ RunOf(f) \in abandoned

\* An artifact the administration lists can be read (admin.ts:64-74): an unexpired row has its
\* object, unless a save of its submission is between deleting the two, or stopped there and
\* no later one has made up for it; saves of other submissions, and a second job on this one,
\* do not take it away.
ListedCanBeRead ==
    \A row \in rows :
       \/ Expired(row) \/ row.key \in objects
       \/ SubmissionOf(row.key) \in half
       \/ \E r \in Runs : Own(r, row) /\ Between(r)
=============================================================================
