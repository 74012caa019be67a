---------------------- MODULE EvidenceArtifactsProofs ----------------------
(***************************************************************************)
(* Proofs about EvidenceArtifacts for every number of slots, submissions,  *)
(* pages, attempts, crashes and days: nothing half-done stays behind, the  *)
(* sweep spares the runs, and a listed artifact can be read.               *)
(***************************************************************************)
EXTENDS EvidenceArtifacts, TLAPS

(* The type invariant. *)
AttemptIds == Runs \X Nat \X Submissions
KeyIds == AttemptIds \X Kinds
PageType == [text : BOOLEAN, media : BOOLEAN, image : BOOLEAN]
RunType == [pc : PCs, n : Nat, of : Submissions \cup {None}, since : Nat, page : PageType,
            kinds : SUBSET Kinds, keys : SUBSET KeyIds]
RunsOK ==
    /\ run \in [Runs -> RunType]
    /\ \A r \in Runs : run[r].pc # "idle" => run[r].of \in Submissions
DirsOK == dirs \in SUBSET [by : AttemptIds, touched : Nat, whole : BOOLEAN]
StorageOK ==
    /\ rows \in SUBSET [key : KeyIds, expires : Nat]
    /\ objects \in SUBSET KeyIds /\ sending \in SUBSET KeyIds
RestOK ==
    /\ files \in SUBSET KeyIds /\ abandoned \in SUBSET AttemptIds /\ half \in SUBSET Submissions
    /\ day \in Nat /\ crashes \in Nat
TypeInv == RunsOK /\ DirsOK /\ StorageOK /\ RestOK

(* What a step does to its slot: the run goes on, ends or starts.          *)
Moves(r, pc, kinds, keys) ==
    /\ run'[r].pc = pc /\ run'[r].kinds = kinds /\ run'[r].keys = keys
    /\ run'[r].n = run[r].n /\ run'[r].of = run[r].of /\ run'[r].since = run[r].since
    /\ \A q \in Runs : q # r => run'[q] = run[q]
Ends(r) ==
    /\ run'[r].pc = "idle" /\ run'[r].kinds = {} /\ run'[r].keys = {} /\ run'[r].n = run[r].n
    /\ \A q \in Runs : q # r => run'[q] = run[q]
Starts(r) ==
    /\ run'[r].pc = "primary" /\ run'[r].kinds = {} /\ run'[r].keys = {}
    /\ run'[r].n = run[r].n + 1 /\ run'[r].since = day
    /\ \A q \in Runs : q # r => run'[q] = run[q]

\* A blank page, and what two pages show together, are pages.
LEMMA PageTypes ==
  /\ Blank \in PageType /\ Pages \subseteq PageType
  /\ \A p, q \in PageType : Merged(p, q) \in PageType
  BY PagesAssumption DEF PageType, Blank, Merged

\* The empty slot.
LEMMA IdleType ==
  ASSUME NEW n \in Nat
  PROVE  /\ Idle(n) \in RunType
         /\ Idle(n).pc = "idle" /\ Idle(n).kinds = {} /\ Idle(n).keys = {} /\ Idle(n).n = n
  BY PageTypes DEF Idle, RunType, PCs

\* Going on to another step.
LEMMA GotoMoves ==
  ASSUME RunsOK, NEW r \in Runs, run[r].pc # "idle", NEW pc \in PCs, Goto(r, pc)
  PROVE  RunsOK' /\ Moves(r, pc, run[r].kinds, run[r].keys)
  BY DEF Goto, RunsOK, RunType, Moves

\* Going on with another page.
LEMMA PageMoves ==
  ASSUME RunsOK, NEW r \in Runs, run[r].pc # "idle", NEW pc \in PCs, NEW page \in PageType,
         GotoWith(r, pc, "page", page)
  PROVE  RunsOK' /\ Moves(r, pc, run[r].kinds, run[r].keys)
  BY DEF GotoWith, RunsOK, RunType, Moves

\* Going on with other keys.
LEMMA KeysMoves ==
  ASSUME RunsOK, NEW r \in Runs, run[r].pc # "idle", NEW pc \in PCs, NEW keys \in SUBSET KeyIds,
         GotoWith(r, pc, "keys", keys)
  PROVE  RunsOK' /\ Moves(r, pc, run[r].kinds, keys)
  BY DEF GotoWith, RunsOK, RunType, Moves

\* Going on with what has been scraped.
LEMMA ScrapedMoves ==
  ASSUME RunsOK, NEW r \in Runs, run[r].pc # "idle", NEW kinds \in SUBSET Kinds, Scraped(r, kinds)
  PROVE  RunsOK' /\ Moves(r, "select_stale", kinds, run[r].keys)
<1>1. "select_stale" \in PCs /\ Blank \in PageType
  BY PageTypes DEF PCs
<1> QED
  BY <1>1 DEF Scraped, RunsOK, RunType, Moves

\* The end of a run.
LEMMA EndEnds ==
  ASSUME RunsOK, NEW r \in Runs, End(r)
  PROVE  RunsOK' /\ Ends(r)
<1>1. run[r].n \in Nat
  BY DEF RunsOK, RunType
<1>2. run' = [run EXCEPT ![r] = Idle(run[r].n)]
  BY DEF End
<1> QED
  BY <1>1, <1>2, IdleType DEF RunsOK, Ends

\* The start of one.
LEMMA StartStarts ==
  ASSUME RunsOK, RestOK, NEW r \in Runs, Start(r)
  PROVE  RunsOK' /\ Starts(r)
<1>1. run[r].n \in Nat /\ day \in Nat /\ run[r].n + 1 \in Nat
  BY DEF RunsOK, RunType, RestOK
<1>2. PICK s \in Submissions :
        run' = [run EXCEPT ![r] = [Idle(run[r].n + 1) EXCEPT !.pc = "primary", !.of = s, !.since = day]]
  BY DEF Start
<1> DEFINE idle == Idle(run[r].n + 1)
           job == [idle EXCEPT !.pc = "primary", !.of = s, !.since = day]
<1>a. "primary" \in PCs
  BY DEF PCs
<1>b. idle \in RunType /\ idle.kinds = {} /\ idle.keys = {} /\ idle.n = run[r].n + 1
  BY <1>1, IdleType
<1> HIDE DEF idle
<1>3. /\ job \in RunType /\ job.pc = "primary" /\ job.of = s /\ job.since = day
      /\ job.kinds = {} /\ job.keys = {} /\ job.n = run[r].n + 1
  BY <1>1, <1>a, <1>b DEF RunType
<1>4. run' = [run EXCEPT ![r] = job]
  BY <1>2 DEF idle
<1> HIDE DEF job
<1> QED
  BY <1>3, <1>4 DEF RunsOK, Starts
-----------------------------------------------------------------------------
(* What each phase of a run does to its slot and its directory             *)

Downloading == {"ytdlp_download", "writing"}
Looking == {"primary", "embed", "ytdlp", "browser", "download", "extract"}
Scraping == Looking \cup Downloading

\* The directory is left alone when none is being filled, or removed.
Settles(r) == RemoveDirectory(r) \/ (dirs' = dirs /\ run[r].pc \notin Downloading)
ScrapeEffect(r) ==
    \/ run[r].pc = "idle" /\ Starts(r) /\ dirs' = dirs
    \/ /\ run[r].pc \in Scraping
       /\ \/ Settles(r) /\ Ends(r)
          \/ Settles(r) /\ \E pc \in Looking : Moves(r, pc, run[r].kinds, run[r].keys)
          \/ Settles(r) /\ Moves(r, "select_stale", {}, run[r].keys)
          \/ MakeDirectory(r) /\ \E pc \in Downloading : Moves(r, pc, run[r].kinds, run[r].keys)
          \/ Complete(r) /\ Moves(r, "extract", run[r].kinds, run[r].keys)
          \/ Complete(r) /\ \E kinds \in SUBSET Kinds : Moves(r, "select_stale", kinds, run[r].keys)

\* The layers of the scraper (pipeline.ts:98-359): a run that gives up a layer or ends
\* while its directory is being filled removes it.
LEMMA ScrapeDoes ==
  ASSUME TypeInv, NEW r \in Runs, Scrape(r)
  PROVE  RunsOK' /\ ScrapeEffect(r) /\ UNCHANGED Rest
<1> USE DEF At
<1>0. RunsOK /\ RestOK /\ run[r].page \in PageType
  BY DEF TypeInv, RunsOK, RunType
<1>a. Scraping \subseteq PCs /\ Looking \subseteq PCs
  BY DEF Scraping, Looking, Downloading, PCs
<1>b. \A page, tried : NextLayer(page, tried) \in Looking
  BY DEF NextLayer, Looking
<1>1. CASE Start(r)
  BY <1>0, <1>1, StartStarts DEF Start, ScrapeEffect
<1>c. ASSUME NEW pc \in Looking, run[r].pc \in Scraping, Settles(r),
             Goto(r, pc) \/ \E page \in PageType : GotoWith(r, pc, "page", page)
      PROVE  RunsOK' /\ ScrapeEffect(r)
  <2>1. run[r].pc # "idle" /\ pc \in PCs
    BY <1>a, <1>c DEF Scraping, Looking, Downloading
  <2>2. RunsOK' /\ Moves(r, pc, run[r].kinds, run[r].keys)
    BY <1>0, <1>c, <2>1, GotoMoves, PageMoves
  <2> QED
    BY <1>c, <2>2 DEF ScrapeEffect
<1>d. ASSUME run[r].pc \in Scraping, Settles(r), End(r)
      PROVE  RunsOK' /\ ScrapeEffect(r)
  BY <1>0, <1>d, EndEnds DEF ScrapeEffect
<1>e. \A p, q \in PageType : Merged(p, q) \in PageType
  BY PageTypes
<1>2. CASE FetchPrimary(r)
  <2>1. run[r].pc \in Scraping /\ Settles(r) /\ UNCHANGED Rest
    BY <1>2 DEF FetchPrimary, Settles, Scraping, Looking, Downloading
  <2>2. CASE End(r)
    BY <1>d, <2>1, <2>2
  <2>3. ASSUME NEW page \in Pages, GotoWith(r, IF page.media THEN "download" ELSE "embed", "page", page)
        PROVE  RunsOK' /\ ScrapeEffect(r)
    <3>1. (IF page.media THEN "download" ELSE "embed") \in Looking /\ page \in PageType
      BY PageTypes DEF Looking
    <3> QED
      BY <1>c, <2>1, <2>3, <3>1
  <2> QED
    BY <1>2, <2>1, <2>2, <2>3 DEF FetchPrimary
<1>3. CASE FetchEmbed(r)
  <2>1. run[r].pc \in Scraping /\ Settles(r) /\ UNCHANGED Rest
    BY <1>3 DEF FetchEmbed, Settles, Scraping, Looking, Downloading
  <2>2. CASE End(r)
    BY <1>d, <2>1, <2>2
  <2>3. ASSUME NEW other \in Pages,
               GotoWith(r, NextLayer(Merged(run[r].page, other), {"embed"}), "page", Merged(run[r].page, other))
        PROVE  RunsOK' /\ ScrapeEffect(r)
    <3>1. Merged(run[r].page, other) \in PageType
      BY <1>0, <1>e, PageTypes
    <3> QED
      BY <1>b, <1>c, <2>1, <2>3, <3>1
  <2>4. CASE Goto(r, NextLayer(run[r].page, {"embed"}))
    BY <1>b, <1>c, <2>1, <2>4
  <2> QED
    BY <1>3, <2>1, <2>2, <2>3, <2>4 DEF FetchEmbed
<1>4. CASE StartYtDlp(r)
  <2>1. run[r].pc \in Scraping /\ run[r].pc # "idle" /\ "ytdlp_download" \in PCs /\ UNCHANGED Rest
    BY <1>4 DEF StartYtDlp, Scraping, Looking, PCs
  <2>2. RunsOK' /\ Moves(r, "ytdlp_download", run[r].kinds, run[r].keys)
    BY <1>0, <1>4, <2>1, GotoMoves DEF StartYtDlp
  <2> QED
    BY <1>4, <2>1, <2>2 DEF StartYtDlp, ScrapeEffect, Downloading
<1>5. CASE DownloadWithYtDlp(r)
  <2>1. /\ run[r].pc \in Scraping /\ run[r].pc # "idle" /\ "extract" \in PCs /\ UNCHANGED Rest
        /\ RemoveDirectory(r) => Settles(r)
    BY <1>5 DEF DownloadWithYtDlp, Settles, Scraping, Downloading, PCs
  <2>2. CASE Complete(r) /\ Goto(r, "extract")
    <3>1. RunsOK' /\ Moves(r, "extract", run[r].kinds, run[r].keys)
      BY <1>0, <2>1, <2>2, GotoMoves
    <3> QED
      BY <2>1, <2>2, <3>1 DEF ScrapeEffect
  <2>3. CASE RemoveDirectory(r) /\ End(r)
    BY <1>d, <2>1, <2>3
  <2>4. CASE RemoveDirectory(r) /\ Goto(r, NextLayer(run[r].page, {"embed", "ytdlp"}))
    BY <1>b, <1>c, <2>1, <2>4
  <2> QED
    BY <1>5, <2>1, <2>2, <2>3, <2>4 DEF DownloadWithYtDlp
<1>6. CASE RenderPublicPage(r)
  <2>1. run[r].pc \in Scraping /\ Settles(r) /\ UNCHANGED Rest /\ "download" \in Looking
    BY <1>6 DEF RenderPublicPage, Settles, Scraping, Looking, Downloading
  <2>2. CASE End(r)
    BY <1>d, <2>1, <2>2
  <2>3. ASSUME NEW other \in Pages, GotoWith(r, "download", "page", Merged(run[r].page, other))
        PROVE  RunsOK' /\ ScrapeEffect(r)
    <3>1. Merged(run[r].page, other) \in PageType
      BY <1>0, <1>e, PageTypes
    <3> QED
      BY <1>c, <2>1, <2>3, <3>1
  <2> QED
    BY <1>6, <2>1, <2>2, <2>3 DEF RenderPublicPage
<1>7. CASE StartDownload(r)
  <2>1. /\ run[r].pc \in Scraping /\ run[r].pc # "idle" /\ run[r].pc \notin Downloading
        /\ "writing" \in PCs /\ UNCHANGED Rest
    BY <1>7 DEF StartDownload, Scraping, Looking, Downloading, PCs
  <2>2. CASE MakeDirectory(r) /\ Goto(r, "writing")
    <3>1. RunsOK' /\ Moves(r, "writing", run[r].kinds, run[r].keys)
      BY <1>0, <2>1, <2>2, GotoMoves
    <3> QED
      BY <2>1, <2>2, <3>1 DEF ScrapeEffect, Downloading
  <2>3. CASE Scraped(r, {}) /\ UNCHANGED dirs
    <3>1. RunsOK' /\ Moves(r, "select_stale", {}, run[r].keys)
      BY <1>0, <2>1, <2>3, ScrapedMoves
    <3> QED
      BY <2>1, <2>3, <3>1 DEF ScrapeEffect, Settles
  <2>4. CASE End(r) /\ UNCHANGED dirs
    BY <1>d, <2>1, <2>4 DEF Settles
  <2> QED
    BY <1>7, <2>1, <2>2, <2>3, <2>4 DEF StartDownload
<1>8. CASE Download(r) \/ Extract(r)
  <2>1. /\ run[r].pc \in Scraping /\ run[r].pc # "idle" /\ "extract" \in PCs /\ UNCHANGED Rest
        /\ RemoveDirectory(r) => Settles(r)
    BY <1>8 DEF Download, Extract, Settles, Scraping, Looking, Downloading, PCs
  <2>2. CASE Complete(r) /\ Goto(r, "extract")
    <3>1. RunsOK' /\ Moves(r, "extract", run[r].kinds, run[r].keys)
      BY <1>0, <2>1, <2>2, GotoMoves
    <3> QED
      BY <2>1, <2>2, <3>1 DEF ScrapeEffect
  <2>3. ASSUME NEW kinds \in SUBSET Kinds, Complete(r), Scraped(r, kinds)
        PROVE  RunsOK' /\ ScrapeEffect(r)
    <3>1. RunsOK' /\ Moves(r, "select_stale", kinds, run[r].keys)
      BY <1>0, <2>1, <2>3, ScrapedMoves
    <3> QED
      BY <2>1, <2>3, <3>1 DEF ScrapeEffect
  <2>4. CASE RemoveDirectory(r) /\ End(r)
    BY <1>d, <2>1, <2>4
  <2>5. CASE Download(r)
    <3>1. {"frame"} \in SUBSET Kinds
      BY DEF Kinds
    <3> QED
      BY <2>1, <2>2, <2>3, <2>4, <2>5, <3>1 DEF Download
  <2>6. CASE Extract(r)
    <3>1. \A made \in Extracts : {"video"} \cup made \in SUBSET Kinds
      BY PagesAssumption DEF Kinds
    <3> QED
      BY <2>1, <2>3, <2>6, <3>1 DEF Extract
  <2> QED
    BY <1>8, <2>5, <2>6
<1> QED
  BY <1>1, <1>2, <1>3, <1>4, <1>5, <1>6, <1>7, <1>8 DEF Scrape

\* The run of a key, its slot and its submission.
LEMMA KeyParts ==
  ASSUME RunsOK, NEW r \in Runs
  PROVE  /\ run[r].pc # "idle" => Attempt(r) \in AttemptIds
         /\ run[r].pc # "idle" => \A k \in Kinds : Key(r, k) \in KeyIds
         /\ \A k : RunOf(Key(r, k)) = Attempt(r) /\ SlotOf(Key(r, k)) = r
                     /\ SubmissionOf(Key(r, k)) = run[r].of
         /\ \A q \in Runs : q # r => Attempt(q) # Attempt(r)
<1>1. run[r].pc # "idle" => Attempt(r) \in AttemptIds
  BY DEF RunsOK, RunType, AttemptIds, Attempt
<1>2. \A k : Key(r, k) = <<Attempt(r), k>> /\ RunOf(Key(r, k)) = Attempt(r)
  BY DEF Key, RunOf
<1>3. Attempt(r)[1] = r /\ Attempt(r)[3] = run[r].of
  BY DEF Attempt
<1>4. \A q \in Runs : q # r => Attempt(q) # Attempt(r)
  BY DEF Attempt
<1> QED
  BY <1>1, <1>2, <1>3, <1>4 DEF KeyIds, SlotOf, SubmissionOf

\* A stored key has a run, in a slot, on a submission.
LEMMA KeyTypes ==
  ASSUME NEW key \in KeyIds
  PROVE  /\ RunOf(key) \in AttemptIds /\ SlotOf(key) \in Runs /\ SubmissionOf(key) \in Submissions
         /\ RunOf(key)[1] = SlotOf(key) /\ RunOf(key)[2] \in Nat
         /\ RunOf(key)[3] = SubmissionOf(key)
  BY DEF KeyIds, AttemptIds, RunOf, SlotOf, SubmissionOf

\* A run keeps its name until it ends.
LEMMA SameAttempt ==
  ASSUME RunsOK, NEW r \in Runs, NEW pc, NEW kinds, NEW keys, Moves(r, pc, kinds, keys)
  PROVE  \A q \in Runs : Attempt(q)' = Attempt(q)
  BY DEF Moves, Attempt

\* What a run does to its directory keeps the directories well formed.
LEMMA DirsType ==
  ASSUME TypeInv, NEW r \in Runs,
         \/ dirs' = dirs \/ RemoveDirectory(r)
         \/ run[r].pc # "idle" /\ (MakeDirectory(r) \/ Complete(r))
  PROVE  DirsOK'
<1>1. CASE dirs' = dirs \/ RemoveDirectory(r)
  BY <1>1 DEF RemoveDirectory, TypeInv, DirsOK
<1>2. CASE run[r].pc # "idle" /\ (MakeDirectory(r) \/ Complete(r))
  <2>1. \A whole \in BOOLEAN :
          Directory(r, whole) \in [by : AttemptIds, touched : Nat, whole : BOOLEAN]
    BY <1>2, KeyParts DEF Directory, TypeInv, RestOK
  <2> QED
    BY <1>2, <2>1 DEF MakeDirectory, Complete, TypeInv, DirsOK
<1> QED
  BY <1>1, <1>2

SavePcs == {"select_stale", "select_replaced", "delete_objects", "delete_expired",
            "delete_replaced", "put", "cleanup"}

\* saveEvidenceArtifacts (pipeline-store.ts:85-123), statement by statement.
LEMMA SaveDoes ==
  ASSUME TypeInv, NEW r \in Runs
  PROVE  /\ SelectStale(r) => RunsOK' /\
              Moves(r, "select_replaced", run[r].kinds, KeysOf({row \in rows : Expired(row)}))
         /\ SelectReplaced(r) => RunsOK' /\
              Moves(r, "delete_objects", run[r].kinds,
                    run[r].keys \cup KeysOf({row \in rows : Own(r, row)}))
         /\ DeleteObjects(r) => RunsOK' /\
              \/ Moves(r, "delete_expired", run[r].kinds, {}) /\ UNCHANGED <<abandoned, half>>
              \/ /\ Ends(r) /\ half' = half \cup {run[r].of}
                 /\ abandoned' = abandoned \cup {Attempt(r)}
         /\ DeleteExpired(r) => RunsOK' /\ Moves(r, "delete_replaced", run[r].kinds, run[r].keys)
         /\ DeleteReplaced(r) => RunsOK' /\
              \/ Moves(r, "upload", run[r].kinds, run[r].keys) /\ sending' = sending
              \/ /\ Moves(r, "put", run[r].kinds, run[r].keys)
                 /\ sending' = sending \cup {Key(r, k) : k \in run[r].kinds}
         /\ InsertRows(r) => RunsOK' /\
              \/ /\ rows' = rows \cup {[key |-> key, expires |-> day + Retention] : key \in run[r].keys}
                 /\ \E pc \in {"fingerprint", "upload"} : Moves(r, pc, run[r].kinds, {})
              \/ Moves(r, "cleanup", run[r].kinds, run[r].keys) /\ rows' = rows
         /\ Cleanup(r) => RunsOK' /\ Ends(r)
<1> USE DEF At
<1>0. RunsOK /\ RestOK /\ SavePcs \cup {"fingerprint", "upload"} \subseteq PCs
  BY DEF TypeInv, SavePcs, PCs
<1>1. \A some \in SUBSET rows : KeysOf(some) \in SUBSET KeyIds
  BY DEF TypeInv, StorageOK, KeysOf
<1>2. run[r].keys \in SUBSET KeyIds /\ {} \in SUBSET KeyIds
  BY DEF TypeInv, RunsOK, RunType
<1>3. ASSUME SelectStale(r)
      PROVE  RunsOK' /\ Moves(r, "select_replaced", run[r].kinds, KeysOf({row \in rows : Expired(row)}))
  <2>1. run[r].pc # "idle" /\ KeysOf({row \in rows : Expired(row)}) \in SUBSET KeyIds
    BY <1>1, <1>3 DEF SelectStale
  <2> QED
    BY <1>0, <1>3, <2>1, KeysMoves DEF SelectStale, SavePcs
<1>4. ASSUME SelectReplaced(r)
      PROVE  RunsOK' /\ Moves(r, "delete_objects", run[r].kinds,
                              run[r].keys \cup KeysOf({row \in rows : Own(r, row)}))
  <2>1. run[r].pc # "idle" /\ run[r].keys \cup KeysOf({row \in rows : Own(r, row)}) \in SUBSET KeyIds
    BY <1>1, <1>2, <1>4 DEF SelectReplaced
  <2> QED
    BY <1>0, <1>4, <2>1, KeysMoves DEF SelectReplaced, SavePcs
<1>5. ASSUME DeleteObjects(r)
      PROVE  RunsOK' /\
              \/ Moves(r, "delete_expired", run[r].kinds, {}) /\ UNCHANGED <<abandoned, half>>
              \/ /\ Ends(r) /\ half' = half \cup {run[r].of}
                 /\ abandoned' = abandoned \cup {Attempt(r)}
  <2>1. run[r].pc # "idle"
    BY <1>5 DEF DeleteObjects
  <2>2. CASE GotoWith(r, "delete_expired", "keys", {}) /\ UNCHANGED <<abandoned, half>>
    BY <1>0, <1>2, <2>1, <2>2, KeysMoves DEF SavePcs
  <2>3. CASE End(r) /\ half' = half \cup {run[r].of} /\ abandoned' = abandoned \cup {Attempt(r)}
    BY <1>0, <2>3, EndEnds
  <2> QED
    BY <1>5, <2>2, <2>3 DEF DeleteObjects
<1>6. ASSUME DeleteExpired(r)
      PROVE  RunsOK' /\ Moves(r, "delete_replaced", run[r].kinds, run[r].keys)
  BY <1>0, <1>6, GotoMoves DEF DeleteExpired, SavePcs
<1>7. ASSUME DeleteReplaced(r)
      PROVE  RunsOK' /\
              \/ Moves(r, "upload", run[r].kinds, run[r].keys) /\ sending' = sending
              \/ /\ Moves(r, "put", run[r].kinds, run[r].keys)
                 /\ sending' = sending \cup {Key(r, k) : k \in run[r].kinds}
  <2>1. run[r].pc # "idle"
    BY <1>7 DEF DeleteReplaced
  <2>2. CASE Goto(r, "upload") /\ UNCHANGED sending
    BY <1>0, <2>1, <2>2, GotoMoves
  <2>3. CASE Goto(r, "put") /\ sending' = sending \cup {Key(r, k) : k \in run[r].kinds}
    BY <1>0, <2>1, <2>3, GotoMoves DEF SavePcs
  <2> QED
    BY <1>7, <2>2, <2>3 DEF DeleteReplaced
<1>8. ASSUME InsertRows(r)
      PROVE  RunsOK' /\
              \/ /\ rows' = rows \cup {[key |-> key, expires |-> day + Retention] : key \in run[r].keys}
                 /\ \E pc \in {"fingerprint", "upload"} : Moves(r, pc, run[r].kinds, {})
              \/ Moves(r, "cleanup", run[r].kinds, run[r].keys) /\ rows' = rows
  <2>1. run[r].pc # "idle"
    BY <1>8 DEF InsertRows
  <2>2. ASSUME NEW pc \in {"fingerprint", "upload"}, GotoWith(r, pc, "keys", {})
        PROVE  RunsOK' /\ Moves(r, pc, run[r].kinds, {})
    BY <1>0, <1>2, <2>1, <2>2, KeysMoves
  <2>3. CASE /\ rows' = rows \cup {[key |-> key, expires |-> day + Retention] : key \in run[r].keys}
             /\ GotoWith(r, IF "video" \in run[r].kinds THEN "fingerprint" ELSE "upload", "keys", {})
    BY <2>2, <2>3
  <2>4. CASE Goto(r, "cleanup") /\ UNCHANGED rows
    BY <1>0, <2>1, <2>4, GotoMoves DEF SavePcs
  <2> QED
    BY <1>8, <2>3, <2>4 DEF InsertRows
<1>9. ASSUME Cleanup(r) PROVE RunsOK' /\ Ends(r)
  BY <1>0, <1>9, EndEnds DEF Cleanup
<1> QED
  BY <1>3, <1>4, <1>5, <1>6, <1>7, <1>8, <1>9

\* GeminiIdentifier.identify (pipeline.ts:411-453): what it uploads is its own, and
\* what it does not delete is accounted for.
IdentifyEffect(r) ==
    \/ run[r].pc = "fingerprint" /\ UNCHANGED <<files, abandoned>>
         /\ (Moves(r, "upload", run[r].kinds, run[r].keys) \/ Ends(r))
    \/ /\ run[r].pc = "upload" /\ abandoned' = abandoned
       /\ files' = files \/ \E k \in Kinds : files' = files \cup {Key(r, k)}
       /\ run' = run \/ Moves(r, "delete_files", run[r].kinds, run[r].keys)
    \/ /\ run[r].pc = "delete_files" /\ Ends(r) /\ files' \subseteq files
       /\ abandoned' = abandoned \/ abandoned' = abandoned \cup {Attempt(r)}
       /\ \A f \in files' : RunOf(f) = Attempt(r) => Attempt(r) \in abandoned'
LEMMA IdentifyDoes ==
  ASSUME TypeInv, NEW r \in Runs, Identify(r)
  PROVE  RunsOK' /\ IdentifyEffect(r) /\ UNCHANGED <<dirs, Storage, half, day, crashes>>
<1> USE DEF At
<1>0. RunsOK /\ {"upload", "delete_files"} \subseteq PCs
  BY DEF TypeInv, PCs
<1>1. CASE Fingerprint(r)
  <2>1. run[r].pc = "fingerprint" /\ UNCHANGED <<dirs, Rest>>
    BY <1>1 DEF Fingerprint
  <2>2. CASE End(r)
    BY <1>0, <2>1, <2>2, EndEnds DEF IdentifyEffect, Rest
  <2>3. CASE Goto(r, "upload")
    <3>1. RunsOK' /\ Moves(r, "upload", run[r].kinds, run[r].keys)
      BY <1>0, <2>1, <2>3, GotoMoves
    <3> QED
      BY <2>1, <3>1 DEF IdentifyEffect, Rest
  <2> QED
    BY <1>1, <2>2, <2>3 DEF Fingerprint
<1>2. CASE Upload(r)
  <2>1. run[r].pc = "upload" /\ UNCHANGED <<dirs, Storage, abandoned, half, day, crashes>>
    BY <1>2 DEF Upload
  <2>2. files' = files \/ \E k \in Kinds : files' = files \cup {Key(r, k)}
    <3>1. Inputs(r) \subseteq Kinds
      BY DEF Inputs, TypeInv, RunsOK, RunType
    <3> QED
      BY <1>2, <3>1 DEF Upload, ToUpload
  <2>3. CASE run' = run
    BY <2>1, <2>2, <2>3 DEF IdentifyEffect, TypeInv, RunsOK
  <2>4. CASE Goto(r, "delete_files")
    <3>1. RunsOK' /\ Moves(r, "delete_files", run[r].kinds, run[r].keys)
      BY <1>0, <2>1, <2>4, GotoMoves
    <3> QED
      BY <2>1, <2>2, <3>1 DEF IdentifyEffect
  <2> QED
    BY <1>2, <2>3, <2>4 DEF Upload
<1>3. CASE DeleteFiles(r)
  <2>1. run[r].pc = "delete_files" /\ UNCHANGED <<dirs, Storage, half, day, crashes>> /\ End(r)
    BY <1>3 DEF DeleteFiles
  <2>2. /\ files' \subseteq files
        /\ abandoned' = abandoned \/ abandoned' = abandoned \cup {Attempt(r)}
        /\ \A f \in files' : RunOf(f) = Attempt(r) => Attempt(r) \in abandoned'
    BY <1>3 DEF DeleteFiles, Uploaded
  <2>3. RunsOK' /\ Ends(r)
    BY <1>0, <2>1, EndEnds
  <2> QED
    BY <2>1, <2>2, <2>3 DEF IdentifyEffect
<1> QED
  BY <1>1, <1>2, <1>3 DEF Identify

\* A put that arrives, or fails, concerns the run that waits for it, if any still does.
LEMMA PutDoes ==
  ASSUME TypeInv, NEW key \in sending, Put(key) \/ PutFails(key)
  PROVE  /\ RunsOK' /\ SlotOf(key) \in Runs /\ key \in KeyIds /\ sending' = sending \ {key}
         /\ UNCHANGED <<dirs, rows, files, abandoned, half, day, crashes>>
         /\ \/ run' = run
            \/ /\ Active(RunOf(key)) /\ run[SlotOf(key)].pc = "put"
               /\ LET r == SlotOf(key) IN
                  \/ Put(key) /\ Moves(r, "put", run[r].kinds, run[r].keys \cup {key})
                  \/ PutFails(key) /\ Moves(r, "cleanup", run[r].kinds, run[r].keys)
         /\ objects' = IF Put(key) THEN objects \cup {key} ELSE objects
<1> DEFINE r == SlotOf(key)
<1> USE DEF Waits, At
<1>0. r \in Runs /\ key \in KeyIds /\ RunsOK
  BY KeyTypes DEF TypeInv, StorageOK
<1>1. /\ sending' = sending \ {key} /\ UNCHANGED <<dirs, rows, files, abandoned, half, day, crashes>>
      /\ objects' = IF Put(key) THEN objects \cup {key} ELSE objects
  BY DEF Put, PutFails
<1>2. CASE run' = run
  BY <1>0, <1>1, <1>2 DEF RunsOK
<1>3. CASE Waits(key) /\ Put(key)
  <2>1. run' = [run EXCEPT ![r].keys = @ \cup {key}] /\ Active(RunOf(key)) /\ run[r].pc = "put"
    BY <1>3 DEF Put
  <2>2. run[r] \in RunType /\ run[r].keys \cup {key} \in SUBSET KeyIds
    BY <1>0 DEF RunsOK, RunType
  <2>3. RunsOK' /\ Moves(r, "put", run[r].kinds, run[r].keys \cup {key})
    BY <1>0, <2>1, <2>2 DEF RunsOK, RunType, Moves
  <2> QED
    BY <1>0, <1>1, <1>3, <2>1, <2>3
<1>4. CASE Waits(key) /\ PutFails(key)
  <2>1. /\ run' = [run EXCEPT ![r].pc = "cleanup"] /\ Active(RunOf(key)) /\ run[r].pc = "put"
        /\ "cleanup" \in PCs
    BY <1>4 DEF PutFails, PCs
  <2>2. RunsOK' /\ Moves(r, "cleanup", run[r].kinds, run[r].keys)
    BY <1>0, <2>1 DEF RunsOK, RunType, Moves
  <2> QED
    BY <1>0, <1>1, <1>4, <2>1, <2>2
<1> QED
  BY <1>2, <1>3, <1>4 DEF Put, PutFails

\* A crash ends every run.
LEMMA CrashDoes ==
  ASSUME TypeInv, Crash
  PROVE  /\ RunsOK' /\ \A r \in Runs : /\ run'[r].pc = "idle" /\ run'[r].kinds = {}
                                        /\ run'[r].keys = {} /\ run'[r].n = run[r].n
         /\ \A r \in Runs : run[r].pc # "idle" => Attempt(r) \in abandoned'
         /\ \A r \in Runs : Between(r) => run[r].of \in half'
         /\ abandoned \subseteq abandoned' /\ half \subseteq half'
<1>1. \A r \in Runs : run'[r] = Idle(run[r].n) /\ run[r].n \in Nat
  BY DEF Crash, TypeInv, RunsOK, RunType
<1>2. \A r \in Runs : /\ run'[r] \in RunType /\ run'[r].pc = "idle" /\ run'[r].kinds = {}
                     /\ run'[r].keys = {} /\ run'[r].n = run[r].n
  BY <1>1, IdleType
<1>3. RunsOK'
  BY <1>2 DEF RunsOK, Crash
<1> QED
  BY <1>2, <1>3 DEF Crash, At
-----------------------------------------------------------------------------
(* The type invariant                                                      *)

\* The initial state is well formed.
LEMMA InitType == Init => TypeInv
<1> SUFFICES ASSUME Init PROVE TypeInv
  OBVIOUS
<1>1. \A r \in Runs : run[r] = Idle(0)
  BY DEF Init
<1>2. RunsOK
  BY <1>1, IdleType DEF Init, RunsOK
<1> QED
  BY <1>2 DEF Init, TypeInv, DirsOK, StorageOK, RestOK

\* A save keeps what is stored well formed.
LEMMA SaveType ==
  ASSUME TypeInv, NEW r \in Runs, Save(r)
  PROVE  TypeInv'
<1> USE DEF At
<1>0. RunsOK'
  BY SaveDoes DEF Save
<1>1. run[r].pc # "idle" /\ run[r].of \in Submissions /\ Attempt(r) \in AttemptIds
  <2>1. run[r].pc # "idle"
    BY DEF Save, SelectStale, SelectReplaced, DeleteObjects, DeleteExpired, DeleteReplaced,
           InsertRows, Cleanup
  <2> QED
    BY <2>1, KeyParts DEF TypeInv, RunsOK
<1>2. UNCHANGED <<dirs, files, day, crashes>>
  BY DEF Save, SelectStale, SelectReplaced, DeleteObjects, DeleteExpired, DeleteReplaced,
         InsertRows, Cleanup, Rest, Storage
<1>3. abandoned' \in SUBSET AttemptIds /\ half' \in SUBSET Submissions
  BY <1>1 DEF Save, SelectStale, SelectReplaced, DeleteObjects, DeleteExpired, DeleteReplaced,
         InsertRows, Cleanup, Rest, Storage, TypeInv, RestOK
<1>4. objects' \in SUBSET KeyIds
  BY DEF Save, SelectStale, SelectReplaced, DeleteObjects, DeleteExpired, DeleteReplaced,
         InsertRows, Cleanup, Rest, Storage, TypeInv, StorageOK
<1>5. sending' \in SUBSET KeyIds
  <2>1. {Key(r, k) : k \in run[r].kinds} \in SUBSET KeyIds
    BY <1>1, KeyParts DEF TypeInv, RunsOK, RunType
  <2> QED
    BY <2>1 DEF Save, SelectStale, SelectReplaced, DeleteObjects, DeleteExpired, DeleteReplaced,
         InsertRows, Cleanup, Rest, Storage, TypeInv, StorageOK
<1>6. rows' \in SUBSET [key : KeyIds, expires : Nat]
  <2>1. {[key |-> key, expires |-> day + Retention] : key \in run[r].keys}
           \in SUBSET [key : KeyIds, expires : Nat]
    <3>1. run[r].keys \in SUBSET KeyIds /\ day + Retention \in Nat
      BY RetentionAssumption DEF TypeInv, RunsOK, RunType, RestOK
    <3> QED
      BY <3>1
  <2> QED
    BY <2>1 DEF Save, SelectStale, SelectReplaced, DeleteObjects, DeleteExpired, DeleteReplaced,
         InsertRows, Cleanup, Rest, Storage, TypeInv, StorageOK
<1> QED
  BY <1>0, <1>2, <1>3, <1>4, <1>5, <1>6 DEF TypeInv, DirsOK, StorageOK, RestOK

\* Identification, a put, a crash and time keep everything well formed.
LEMMA OtherType ==
  ASSUME TypeInv,
         \/ \E r \in Runs : Identify(r)
         \/ \E key \in sending : Put(key) \/ PutFails(key)
         \/ Crash \/ CleanupExpired \/ NextDay
  PROVE  TypeInv'
<1> USE DEF TypeInv
<1>1. ASSUME NEW r \in Runs, Identify(r) PROVE TypeInv'
  <2>1. RunsOK' /\ IdentifyEffect(r) /\ UNCHANGED <<dirs, Storage, half, day, crashes>>
    BY <1>1, IdentifyDoes
  <2>2. run[r].pc # "idle" /\ Attempt(r) \in AttemptIds /\ \A k \in Kinds : Key(r, k) \in KeyIds
    BY <2>1, KeyParts DEF IdentifyEffect
  <2>3. files' \in SUBSET KeyIds /\ abandoned' \in SUBSET AttemptIds
    BY <2>1, <2>2 DEF IdentifyEffect, RestOK
  <2> QED
    BY <2>1, <2>3 DEF DirsOK, StorageOK, Storage, RestOK
<1>2. ASSUME NEW key \in sending, Put(key) \/ PutFails(key) PROVE TypeInv'
  BY <1>2, PutDoes DEF DirsOK, StorageOK, RestOK
<1>3. CASE Crash
  <2>1. abandoned' \in SUBSET AttemptIds /\ half' \in SUBSET Submissions
    <3>1. \A r \in Runs : ~At(r, "idle") => Attempt(r) \in AttemptIds /\ run[r].of \in Submissions
      BY KeyParts DEF RunsOK, At
    <3>2. \A r \in Runs : Between(r) => ~At(r, "idle")
      BY DEF Between, At
    <3> QED
      BY <1>3, <3>1, <3>2 DEF Crash, RestOK
  <2>2. RunsOK'
    BY <1>3, CrashDoes
  <2> QED
    BY <1>3, <2>1, <2>2 DEF Crash, DirsOK, StorageOK, RestOK
<1>4. CASE CleanupExpired
  BY <1>4 DEF CleanupExpired, Rest, Storage, RunsOK, DirsOK, StorageOK, RestOK
<1>5. CASE NextDay
  BY <1>5 DEF NextDay, Storage, RunsOK, DirsOK, StorageOK, RestOK
<1> QED
  BY <1>1, <1>2, <1>3, <1>4, <1>5

\* Every step keeps the types.
LEMMA NextType == TypeInv /\ [Next]_vars => TypeInv'
<1> SUFFICES ASSUME TypeInv, [Next]_vars PROVE TypeInv'
  OBVIOUS
<1>1. ASSUME NEW r \in Runs, Scrape(r) PROVE TypeInv'
  <2>1. RunsOK' /\ ScrapeEffect(r) /\ UNCHANGED Rest
    BY <1>1, ScrapeDoes
  <2>2. DirsOK'
    BY <2>1, DirsType DEF ScrapeEffect, Settles, Scraping, Looking, Downloading
  <2> QED
    BY <2>1, <2>2 DEF TypeInv, StorageOK, RestOK, Rest, Storage
<1>2. CASE UNCHANGED vars
  BY <1>2 DEF vars, TypeInv, RunsOK, DirsOK, StorageOK, RestOK
<1> QED
  BY <1>1, <1>2, SaveType, OtherType DEF Next
-----------------------------------------------------------------------------
(* Directories and files at Gemini                                         *)

\* Only a run that is filling a directory, or a crashed one, has an incomplete one.
Partial ==
    \A d \in dirs : ~d.whole =>
       \/ d.by \in abandoned
       \/ \E r \in Runs : run[r].pc \in Downloading /\ d.by = Attempt(r)

(* The sweep spares a run's evidence because it was touched after the run  *)
(* began, and a run sees one midnight at most: that is less than the       *)
(* retention.                                                              *)
Kept ==
    \A r \in Runs :
       /\ run[r].pc \in Scraping \cup {"idle"} => run[r].kinds = {}
       /\ run[r].pc # "idle" => run[r].since <= day /\ day <= run[r].since + 1
       /\ run[r].kinds # {} => \E d \in OwnDirs(r) : d.whole /\ run[r].since <= d.touched

\* Only a run that is identifying, or one that is excused, has files at Gemini.
Uploads ==
    \A f \in files :
       \/ RunOf(f) \in abandoned
       \/ \E r \in Runs : run[r].pc \in {"upload", "delete_files"} /\ RunOf(f) = Attempt(r)

LeftoverInv == Partial /\ Kept /\ Uploads

\* A save touches no directory and no file.
LEMMA SaveQuiet ==
  ASSUME TypeInv, NEW r \in Runs, Save(r)
  PROVE  /\ UNCHANGED <<dirs, files, day>> /\ abandoned \subseteq abandoned'
         /\ run[r].pc \in SavePcs
         /\ \/ Ends(r)
            \/ \E pc \in SavePcs \cup {"fingerprint", "upload"} : \E keys :
                  Moves(r, pc, run[r].kinds, keys)
<1>1. UNCHANGED <<dirs, files, day>> /\ abandoned \subseteq abandoned' /\ run[r].pc \in SavePcs
  BY DEF Save, SelectStale, SelectReplaced, DeleteObjects, DeleteExpired, DeleteReplaced,
         InsertRows, Cleanup, Rest, Storage, SavePcs, At
<1> DEFINE to(pc) == \E keys : Moves(r, pc, run[r].kinds, keys)
<1>2. \/ Ends(r) \/ to("select_replaced") \/ to("delete_objects") \/ to("delete_expired")
      \/ to("delete_replaced") \/ to("upload") \/ to("put") \/ to("fingerprint") \/ to("cleanup")
  BY SaveDoes DEF Save
<1> QED
  BY <1>1, <1>2 DEF SavePcs

\* The phases of a run are distinct.
LEMMA Phases ==
  /\ "idle" \notin Scraping \cup SavePcs
  /\ Scraping \cap (SavePcs \cup {"fingerprint", "upload", "delete_files"}) = {}
  /\ Looking \cap Downloading = {}
  /\ SavePcs \cap {"fingerprint", "upload", "delete_files"} = {}
  BY DEF Scraping, Looking, Downloading, SavePcs

\* Whoever was filling a directory still is, or has been crashed.
LEMMA QuietPartial ==
  ASSUME Partial, dirs' \subseteq dirs, abandoned \subseteq abandoned',
         \A r \in Runs : run[r].pc \in Downloading =>
           \/ run'[r].pc \in Downloading /\ Attempt(r)' = Attempt(r)
           \/ Attempt(r) \in abandoned'
  PROVE  Partial'
  BY DEF Partial

\* A slot that does not move keeps the name of its run.
LEMMA OthersKeep ==
  ASSUME NEW r \in Runs, \A q \in Runs : q # r => run'[q] = run[q]
  PROVE  \A q \in Runs : q # r => Attempt(q)' = Attempt(q)
  BY DEF Attempt

\* The scraper removes what it leaves incomplete.
LEMMA ScrapePartial ==
  ASSUME TypeInv, Partial, NEW r \in Runs, Scrape(r)
  PROVE  Partial'
<1>0. RunsOK /\ ScrapeEffect(r) /\ abandoned' = abandoned
  BY ScrapeDoes DEF TypeInv, Rest
<1>1. \A q \in Runs : q # r => Attempt(q)' = Attempt(q) /\ run'[q] = run[q]
  BY <1>0, OthersKeep DEF ScrapeEffect, Moves, Ends, Starts
<1>2. \A q \in Runs : q # r => Attempt(q) # Attempt(r)
  BY <1>0, KeyParts
<1> SUFFICES ASSUME NEW d \in dirs', ~d.whole, d.by \notin abandoned
             PROVE  \E q \in Runs : run'[q].pc \in Downloading /\ d.by = Attempt(q)'
  BY <1>0 DEF Partial
<1>3. CASE d \in dirs
  <2>1. PICK q \in Runs : run[q].pc \in Downloading /\ d.by = Attempt(q)
    BY <1>3 DEF Partial
  <2>2. CASE q # r
    BY <1>1, <2>1, <2>2
  <2>3. CASE q = r
    <3>1. ~RemoveDirectory(r) /\ ~Complete(r)
      <4>1. d \in OwnDirs(r)
        BY <1>3, <2>1, <2>3 DEF OwnDirs
      <4>2. d # Directory(r, TRUE)
        BY DEF Directory
      <4> QED
        BY <4>1, <4>2 DEF RemoveDirectory, Complete
    <3>2. \E pc \in Downloading : Moves(r, pc, run[r].kinds, run[r].keys)
      BY <1>0, <2>1, <2>3, <3>1, Phases DEF ScrapeEffect, Settles, Scraping
    <3>3. Attempt(r)' = Attempt(r)
      BY <3>2 DEF Moves, Attempt
    <3> QED
      BY <2>1, <2>3, <3>2, <3>3 DEF Moves
  <2> QED
    BY <2>2, <2>3
<1>4. CASE d \notin dirs
  <2>1. MakeDirectory(r) /\ \E pc \in Downloading : Moves(r, pc, run[r].kinds, run[r].keys)
    BY <1>0, <1>4 DEF ScrapeEffect, Settles, RemoveDirectory, Complete, Directory
  <2>2. d.by = Attempt(r)
    BY <1>4, <2>1 DEF MakeDirectory, Directory
  <2>3. Attempt(r)' = Attempt(r)
    BY <2>1 DEF Moves, Attempt
  <2> QED
    BY <2>1, <2>2, <2>3 DEF Moves
<1> QED
  BY <1>3, <1>4

\* No other step starts to fill a directory, or stops doing so.
LEMMA NextPartial == TypeInv /\ Partial /\ [Next]_vars => Partial'
<1> SUFFICES ASSUME TypeInv, Partial, [Next]_vars PROVE Partial'
  OBVIOUS
<1>0. RunsOK
  BY DEF TypeInv
<1>1. ASSUME NEW r \in Runs, Save(r) \/ Identify(r) PROVE Partial'
  <2>1. /\ run[r].pc \notin Downloading /\ dirs' = dirs /\ abandoned \subseteq abandoned'
        /\ \A q \in Runs : q # r => run'[q] = run[q]
    <3>1. CASE Save(r)
      BY <3>1, SaveQuiet, Phases DEF Scraping, Moves, Ends
    <3>2. CASE Identify(r)
      BY <3>2, IdentifyDoes, Phases DEF IdentifyEffect, Scraping, Moves, Ends
    <3> QED
      BY <1>1, <3>1, <3>2
  <2>2. \A q \in Runs : q # r => Attempt(q)' = Attempt(q)
    BY <2>1, OthersKeep
  <2> QED
    BY <2>1, <2>2, QuietPartial
<1>2. ASSUME NEW key \in sending, Put(key) \/ PutFails(key) PROVE Partial'
  <2>1. /\ UNCHANGED <<dirs, abandoned>>
        /\ run' = run \/ \E r \in Runs : /\ run[r].pc = "put"
                                        /\ \A q \in Runs : q # r => run'[q] = run[q]
    BY <1>2, PutDoes DEF Moves
  <2>2. \A q \in Runs : run[q].pc \in Downloading => run'[q] = run[q]
    BY <2>1 DEF Downloading
  <2> QED
    BY <2>1, <2>2, QuietPartial DEF Attempt
<1>3. CASE Crash
  <2>1. \A r \in Runs : run[r].pc \in Downloading => Attempt(r) \in abandoned'
    BY <1>3, CrashDoes, Phases DEF Scraping
  <2> QED
    BY <1>3, <2>1, CrashDoes, QuietPartial DEF Crash
<1>4. CASE CleanupExpired \/ NextDay \/ UNCHANGED vars
  BY <1>4, QuietPartial DEF CleanupExpired, NextDay, vars, Rest, Attempt
<1> QED
  BY <1>1, <1>2, <1>3, <1>4, ScrapePartial DEF Next

\* A step that neither moves a slot nor touches a directory keeps its evidence.
LEMMA KeptUpdate ==
  ASSUME TypeInv, Kept, NEW r \in Runs, dirs' = dirs, day' = day,
         \A q \in Runs : q # r => run'[q] = run[q],
         \/ run'[r] = run[r]
         \/ Ends(r)
         \/ \E keys, pc : Moves(r, pc, run[r].kinds, keys) /\ pc \notin Scraping \cup {"idle"}
                         /\ run[r].pc # "idle"
  PROVE  Kept'
<1>1. \A q \in Runs : run'[q] = run[q] => Attempt(q)' = Attempt(q)
  BY DEF Attempt
<1>2. ASSUME NEW q \in Runs, run'[q] = run[q]
      PROVE  /\ run'[q].pc \in Scraping \cup {"idle"} => run'[q].kinds = {}
             /\ run'[q].pc # "idle" => run'[q].since <= day /\ day <= run'[q].since + 1
             /\ run'[q].kinds # {} => \E d \in OwnDirs(q)' : d.whole /\ run'[q].since <= d.touched
  <2>1. OwnDirs(q)' = OwnDirs(q)
    BY <1>1, <1>2 DEF OwnDirs
  <2> QED
    BY <1>2, <2>1 DEF Kept
<1>3. ASSUME Ends(r)
      PROVE  run'[r].kinds = {} /\ run'[r].pc = "idle"
  BY <1>3 DEF Ends
<1>4. ASSUME NEW keys, NEW pc, Moves(r, pc, run[r].kinds, keys), pc \notin Scraping \cup {"idle"},
             run[r].pc # "idle"
      PROVE  /\ run'[r].pc \in Scraping \cup {"idle"} => run'[r].kinds = {}
             /\ run'[r].pc # "idle" => run'[r].since <= day /\ day <= run'[r].since + 1
             /\ run'[r].kinds # {} => \E d \in OwnDirs(r)' : d.whole /\ run'[r].since <= d.touched
  <2>1. OwnDirs(r)' = OwnDirs(r)
    BY <1>4 DEF Moves, OwnDirs, Attempt
  <2> QED
    BY <1>4, <2>1 DEF Kept, Moves
<1> QED
  BY <1>2, <1>3, <1>4 DEF Kept

\* Evidence is complete, in a directory touched since the run began, when the run gets it.
LEMMA ScrapeKept ==
  ASSUME TypeInv, Kept, NEW r \in Runs, Scrape(r)
  PROVE  Kept'
<1>0. RunsOK /\ ScrapeEffect(r) /\ day' = day /\ day \in Nat
  BY ScrapeDoes DEF TypeInv, Rest, RestOK
<1>1. \A q \in Runs : q # r => run'[q] = run[q]
  BY <1>0 DEF ScrapeEffect, Moves, Ends, Starts
<1>2. \A q \in Runs : q # r => Attempt(q) # Attempt(r) /\ Attempt(q)' = Attempt(q)
  BY <1>0, <1>1, OthersKeep, KeyParts
<1>3. \A q \in Runs : q # r => OwnDirs(q) \subseteq dirs'
  BY <1>0, <1>2 DEF ScrapeEffect, Settles, OwnDirs, RemoveDirectory, MakeDirectory, Complete
<1>4. ASSUME NEW q \in Runs, q # r
      PROVE  /\ run'[q].pc \in Scraping \cup {"idle"} => run'[q].kinds = {}
             /\ run'[q].pc # "idle" => run'[q].since <= day /\ day <= run'[q].since + 1
             /\ run'[q].kinds # {} => \E d \in OwnDirs(q)' : d.whole /\ run'[q].since <= d.touched
  <2>1. run'[q] = run[q] /\ OwnDirs(q) \subseteq OwnDirs(q)'
    BY <1>1, <1>2, <1>3, <1>4 DEF OwnDirs
  <2> QED
    BY <2>1 DEF Kept
<1>5. run'[r].pc # "idle" => run'[r].since <= day /\ day <= run'[r].since + 1
  <2>1. run[r].pc # "idle" => run[r].since <= day /\ day <= run[r].since + 1
    BY DEF Kept
  <2>2. \/ run'[r].pc = "idle" \/ run'[r].since = day
        \/ run[r].pc # "idle" /\ run'[r].since = run[r].since
    BY <1>0, Phases DEF ScrapeEffect, Starts, Ends, Moves
  <2> QED
    BY <1>0, <2>1, <2>2
<1>6. ASSUME NEW kinds, Moves(r, "select_stale", kinds, run[r].keys), Complete(r), run[r].pc # "idle"
      PROVE  \E d \in OwnDirs(r)' : d.whole /\ run'[r].since <= d.touched
  <2> DEFINE d == Directory(r, TRUE)
  <2>1. d \in dirs' /\ d.by = Attempt(r) /\ d.whole /\ d.touched = day
    BY <1>6 DEF Complete, Directory
  <2>2. Attempt(r)' = Attempt(r) /\ run'[r].since = run[r].since /\ run[r].since <= day
    BY <1>6 DEF Moves, Attempt, Kept
  <2> QED
    BY <2>1, <2>2 DEF OwnDirs
<1>7. /\ run'[r].pc \in Scraping \cup {"idle"} => run'[r].kinds = {}
      /\ run'[r].kinds # {} => \E d \in OwnDirs(r)' : d.whole /\ run'[r].since <= d.touched
  <2>1. CASE Starts(r) \/ Ends(r) \/ Moves(r, "select_stale", {}, run[r].keys)
    BY <2>1 DEF Starts, Ends, Moves
  <2>2. ASSUME NEW pc, run[r].pc \in Scraping, Moves(r, pc, run[r].kinds, run[r].keys)
        PROVE  run'[r].kinds = {}
    BY <2>2 DEF Moves, Kept
  <2>3. ASSUME NEW kinds, Moves(r, "select_stale", kinds, run[r].keys)
        PROVE  run'[r].pc \notin Scraping \cup {"idle"}
    BY <2>3, Phases DEF Moves, SavePcs
  <2> QED
    BY <1>0, <1>6, <2>1, <2>2, <2>3, Phases DEF ScrapeEffect
<1> QED
  BY <1>0, <1>4, <1>5, <1>7 DEF Kept

\* The sweep takes no directory touched today or yesterday; every run is younger.
LEMMA SweepKept ==
  ASSUME TypeInv, Kept, CleanupExpired
  PROVE  Kept'
<1>1. run' = run /\ day' = day /\ dirs' = {d \in dirs : day - d.touched < Retention}
  BY DEF CleanupExpired, Rest
<1>2. ASSUME NEW r \in Runs, run[r].kinds # {}
      PROVE  \E d \in OwnDirs(r)' : d.whole /\ run[r].since <= d.touched
  <2>1. PICK d \in OwnDirs(r) : d.whole /\ run[r].since <= d.touched
    BY <1>2 DEF Kept
  <2>2. day <= run[r].since + 1
    BY <1>2 DEF Kept
  <2>3. /\ d \in dirs /\ d.by = Attempt(r) /\ d.touched \in Nat
        /\ day \in Nat /\ run[r].since \in Nat
    BY <2>1 DEF OwnDirs, TypeInv, DirsOK, RestOK, RunsOK, RunType
  <2>4. day - d.touched < Retention
    BY <2>1, <2>2, <2>3, RetentionAssumption
  <2>5. d \in OwnDirs(r)'
    BY <1>1, <2>3, <2>4 DEF OwnDirs, Attempt
  <2> QED
    BY <2>1, <2>5
<1> QED
  BY <1>1, <1>2 DEF Kept

\* Every step keeps the evidence of the runs.
LEMMA NextKept == TypeInv /\ Kept /\ [Next]_vars => Kept'
<1> SUFFICES ASSUME TypeInv, Kept, [Next]_vars PROVE Kept'
  OBVIOUS
<1>1. ASSUME NEW r \in Runs, Save(r) PROVE Kept'
  <2>1. UNCHANGED <<dirs, day>> /\ run[r].pc # "idle"
    BY <1>1, SaveQuiet, Phases
  <2>2. Ends(r) \/ \E pc \in SavePcs \cup {"fingerprint", "upload"} : \E keys :
                     Moves(r, pc, run[r].kinds, keys)
    BY <1>1, SaveQuiet
  <2>3. \A pc \in SavePcs \cup {"fingerprint", "upload"} : pc \notin Scraping \cup {"idle"}
    BY Phases
  <2>4. \A q \in Runs : q # r => run'[q] = run[q]
    BY <2>2 DEF Moves, Ends
  <2> QED
    BY <2>1, <2>2, <2>3, <2>4, KeptUpdate
<1>2. ASSUME NEW r \in Runs, Identify(r) PROVE Kept'
  <2>1. IdentifyEffect(r) /\ UNCHANGED <<dirs, day>>
    BY <1>2, IdentifyDoes
  <2>2. \A pc \in {"upload", "delete_files"} : pc \notin Scraping \cup {"idle"}
    BY Phases
  <2>3. run[r].pc # "idle" /\ \A q \in Runs : q # r => run'[q] = run[q]
    BY <2>1 DEF IdentifyEffect, Moves, Ends
  <2>4. \/ run' = run \/ Ends(r)
        \/ \E pc \in {"upload", "delete_files"} : Moves(r, pc, run[r].kinds, run[r].keys)
    BY <2>1 DEF IdentifyEffect
  <2> QED
    BY <2>1, <2>2, <2>3, <2>4, KeptUpdate
<1>3. ASSUME NEW key \in sending, Put(key) \/ PutFails(key) PROVE Kept'
  <2> DEFINE r == SlotOf(key)
  <2>1. r \in Runs /\ UNCHANGED <<dirs, day>>
    BY <1>3, PutDoes
  <2>2. \/ run' = run
        \/ /\ run[r].pc = "put"
           /\ \E pc \in {"put", "cleanup"} : \E keys : Moves(r, pc, run[r].kinds, keys)
    BY <1>3, PutDoes
  <2>3. \A pc \in {"put", "cleanup"} : pc \notin Scraping \cup {"idle"}
    BY Phases DEF SavePcs
  <2>4. \A q \in Runs : q # r => run'[q] = run[q]
    BY <2>2 DEF Moves
  <2> QED
    BY <2>1, <2>2, <2>3, <2>4, KeptUpdate
<1>4. CASE Crash
  BY <1>4, CrashDoes DEF Kept
<1>5. CASE NextDay
  <2>1. run' = run /\ dirs' = dirs /\ day' = day + 1 /\ day \in Nat
    BY <1>5 DEF NextDay, TypeInv, RestOK
  <2>2. \A r \in Runs : run[r].pc # "idle" => run[r].since = day
    BY <1>5 DEF NextDay, At
  <2>3. \A r \in Runs : OwnDirs(r)' = OwnDirs(r)
    BY <2>1 DEF OwnDirs, Attempt
  <2> QED
    BY <2>1, <2>2, <2>3 DEF Kept
<1>6. CASE UNCHANGED vars
  BY <1>6 DEF vars, Kept, OwnDirs, Attempt
<1> QED
  BY <1>1, <1>2, <1>3, <1>4, <1>5, <1>6, ScrapeKept, SweepKept DEF Next

\* Whoever had files at Gemini still deletes them, or is excused.
LEMMA QuietUploads ==
  ASSUME Uploads, files' \subseteq files, abandoned \subseteq abandoned',
         \A r \in Runs : run[r].pc \in {"upload", "delete_files"} =>
           \/ run'[r].pc \in {"upload", "delete_files"} /\ Attempt(r)' = Attempt(r)
           \/ Attempt(r) \in abandoned'
           \/ \A f \in files' : RunOf(f) # Attempt(r)
  PROVE  Uploads'
  BY DEF Uploads

\* Identification deletes what it has uploaded, whatever its outcome.
LEMMA IdentifyUploads ==
  ASSUME TypeInv, Uploads, NEW r \in Runs, Identify(r)
  PROVE  Uploads'
<1>0. RunsOK /\ IdentifyEffect(r)
  BY IdentifyDoes DEF TypeInv
<1>1. \A q \in Runs : q # r => run'[q] = run[q] /\ Attempt(q)' = Attempt(q)
  BY <1>0, OthersKeep DEF IdentifyEffect, Moves, Ends
<1>2. CASE run[r].pc = "fingerprint"
  BY <1>0, <1>1, <1>2, QuietUploads DEF IdentifyEffect
<1>3. CASE run[r].pc = "upload"
  <2>1. /\ abandoned' = abandoned /\ Attempt(r)' = Attempt(r)
        /\ run'[r].pc \in {"upload", "delete_files"}
        /\ files' = files \/ \E k \in Kinds : files' = files \cup {Key(r, k)}
    BY <1>0, <1>3 DEF IdentifyEffect, Moves, Attempt
  <2>2. \A f \in files' : f \in files \/ RunOf(f) = Attempt(r)
    BY <1>0, <2>1, KeyParts
  <2> QED
    BY <1>1, <2>1, <2>2 DEF Uploads
<1>4. CASE run[r].pc = "delete_files"
  <2>1. /\ files' \subseteq files /\ abandoned \subseteq abandoned'
        /\ Attempt(r) \in abandoned' \/ \A f \in files' : RunOf(f) # Attempt(r)
    BY <1>0, <1>4 DEF IdentifyEffect
  <2> QED
    BY <1>1, <2>1, QuietUploads
<1> QED
  BY <1>0, <1>2, <1>3, <1>4 DEF IdentifyEffect

\* Every step leaves at Gemini only what somebody still deletes, or is excused for.
LEMMA NextUploads == TypeInv /\ Uploads /\ [Next]_vars => Uploads'
<1> SUFFICES ASSUME TypeInv, Uploads, [Next]_vars PROVE Uploads'
  OBVIOUS
<1>1. ASSUME NEW r \in Runs, Scrape(r) \/ Save(r) PROVE Uploads'
  <2>1. /\ run[r].pc \notin {"upload", "delete_files"} /\ files' = files
        /\ abandoned \subseteq abandoned' /\ \A q \in Runs : q # r => run'[q] = run[q]
    <3>1. CASE Scrape(r)
      BY <3>1, ScrapeDoes, Phases DEF ScrapeEffect, Rest, Starts, Moves, Ends
    <3>2. CASE Save(r)
      BY <3>2, SaveQuiet, Phases DEF Moves, Ends
    <3> QED
      BY <1>1, <3>1, <3>2
  <2>2. \A q \in Runs : q # r => Attempt(q)' = Attempt(q)
    BY <2>1, OthersKeep
  <2> QED
    BY <2>1, <2>2, QuietUploads
<1>2. ASSUME NEW key \in sending, Put(key) \/ PutFails(key) PROVE Uploads'
  <2>1. /\ UNCHANGED <<files, abandoned>>
        /\ run' = run \/ \E r \in Runs : /\ run[r].pc = "put"
                                        /\ \A q \in Runs : q # r => run'[q] = run[q]
    BY <1>2, PutDoes DEF Moves
  <2>2. \A q \in Runs : run[q].pc \in {"upload", "delete_files"} => run'[q] = run[q]
    BY <2>1
  <2> QED
    BY <2>1, <2>2, QuietUploads DEF Attempt
<1>3. CASE Crash
  <2>1. files' = files /\ abandoned \subseteq abandoned'
        /\ \A r \in Runs : run[r].pc \in {"upload", "delete_files"} => Attempt(r) \in abandoned'
    BY <1>3, CrashDoes DEF Crash
  <2> QED
    BY <2>1, QuietUploads
<1>4. CASE CleanupExpired \/ NextDay \/ UNCHANGED vars
  BY <1>4, QuietUploads DEF CleanupExpired, NextDay, vars, Rest, Attempt
<1> QED
  BY <1>1, <1>2, <1>3, <1>4, IdentifyUploads DEF Next

\* The three facts hold together, of every reachable state.
LEMMA LeftoverAlways == Spec => [](TypeInv /\ LeftoverInv)
<1>1. Init => TypeInv /\ LeftoverInv
  <2> SUFFICES ASSUME Init PROVE LeftoverInv
    BY InitType
  <2>1. \A r \in Runs : run[r].pc = "idle" /\ run[r].kinds = {}
    BY IdleType DEF Init
  <2> QED
    BY <2>1 DEF Init, LeftoverInv, Partial, Kept, Uploads
<1>2. TypeInv /\ LeftoverInv /\ [Next]_vars => (TypeInv /\ LeftoverInv)'
  BY NextType, NextPartial, NextKept, NextUploads DEF LeftoverInv
<1> QED
  BY <1>1, <1>2, PTL DEF Spec

\* A slot that works on something is running that attempt.
LEMMA OwnIsActive == \A r \in Runs : run[r].pc # "idle" => Active(Attempt(r))
  BY DEF Active, Attempt

\* Through every fallback of the scraper, an incomplete download is removed by the run
\* that gives it up (pipeline.ts:546).
THEOREM NoPartialDownloads == Spec => []NoPartialLeftBehind
<1>1. LeftoverInv => NoPartialLeftBehind
  <2>1. \A r \in Runs : run[r].pc \in Downloading => run[r].pc # "idle"
    BY Phases DEF Scraping
  <2> QED
    BY <2>1, OwnIsActive DEF LeftoverInv, Partial, NoPartialLeftBehind
<1> QED
  BY <1>1, LeftoverAlways, PTL

\* However long the retention, if longer than a day, the sweep never takes the evidence
\* of a run under way (worker.ts:41-50).
THEOREM SweepSparesRuns == Spec => []EvidenceKept
<1>1. LeftoverInv => EvidenceKept
  BY DEF LeftoverInv, Kept, EvidenceKept
<1> QED
  BY <1>1, LeftoverAlways, PTL

\* A run deletes what it has sent to Gemini before it ends, unless it crashes or Gemini
\* refuses (pipeline.ts:449-452).
THEOREM GeminiIsEmptied == Spec => []NothingLeftAtGemini
<1>1. LeftoverInv => NothingLeftAtGemini
  BY OwnIsActive DEF LeftoverInv, Uploads, NothingLeftAtGemini
<1> QED
  BY <1>1, LeftoverAlways, PTL
-----------------------------------------------------------------------------
(* A listed artifact can be read                                           *)

(* Keys are never used again: the runs they name have begun, so a run that *)
(* starts has a name of its own.                                           *)
Known(a) == a[2] <= run[a[1]].n /\ (Active(a) => a = Attempt(a[1]))
KnownKeys ==
    /\ \A row \in rows : Known(RunOf(row.key))
    /\ \A key \in sending : Known(RunOf(key))
    /\ \A r \in Runs : \A key \in run[r].keys : Known(RunOf(key))

\* A slot goes on, ends its run or begins the next one.
SlotStep(r) ==
    \/ /\ run'[r].n = run[r].n /\ run'[r].of = run[r].of
       /\ run[r].pc = "idle" => run'[r].pc = "idle"
    \/ run'[r].n = run[r].n /\ run'[r].pc = "idle"
    \/ run'[r].n = run[r].n + 1

\* Every step moves every slot in one of these ways.
LEMMA NextSlots ==
  ASSUME TypeInv, [Next]_vars
  PROVE  \A q \in Runs : SlotStep(q)
<1>a. ASSUME NEW r \in Runs, NEW pc, NEW kinds, NEW keys, Moves(r, pc, kinds, keys),
             run[r].pc # "idle"
      PROVE  \A q \in Runs : SlotStep(q)
  BY <1>a DEF Moves, SlotStep
<1>b. ASSUME NEW r \in Runs, Ends(r) \/ Starts(r) PROVE \A q \in Runs : SlotStep(q)
  BY <1>b DEF Ends, Starts, SlotStep
<1>c. ASSUME run' = run PROVE \A q \in Runs : SlotStep(q)
  BY <1>c DEF SlotStep
<1>1. ASSUME NEW r \in Runs, Scrape(r) PROVE \A q \in Runs : SlotStep(q)
  BY <1>1, <1>a, <1>b, ScrapeDoes, Phases DEF ScrapeEffect
<1>2. ASSUME NEW r \in Runs, Save(r) PROVE \A q \in Runs : SlotStep(q)
  BY <1>2, <1>a, <1>b, SaveQuiet, Phases
<1>3. ASSUME NEW r \in Runs, Identify(r) PROVE \A q \in Runs : SlotStep(q)
  BY <1>3, <1>a, <1>b, <1>c, IdentifyDoes DEF IdentifyEffect
<1>4. ASSUME NEW key \in sending, Put(key) \/ PutFails(key) PROVE \A q \in Runs : SlotStep(q)
  BY <1>4, <1>a, <1>c, PutDoes
<1>5. CASE Crash
  BY <1>5, CrashDoes DEF SlotStep
<1>6. CASE CleanupExpired \/ NextDay \/ UNCHANGED vars
  BY <1>6, <1>c DEF CleanupExpired, NextDay, vars
<1> QED
  BY <1>1, <1>2, <1>3, <1>4, <1>5, <1>6 DEF Next

\* A name that is known stays known.
LEMMA KnownStays ==
  ASSUME TypeInv, [Next]_vars, NEW a \in AttemptIds, Known(a)
  PROVE  Known(a)'
<1>1. a[1] \in Runs /\ a[2] \in Nat
  BY DEF AttemptIds
<1>2. run[a[1]].n \in Nat /\ SlotStep(a[1])
  BY <1>1, NextSlots DEF TypeInv, RunsOK, RunType
<1> QED
  BY <1>1, <1>2 DEF Known, Active, SlotStep, Attempt

\* The name of a run is known.
LEMMA OwnKnown ==
  ASSUME TypeInv, NEW r \in Runs
  PROVE  Known(Attempt(r))
  BY DEF Known, Attempt, TypeInv, RunsOK, RunType

\* New keys come from rows, from puts and from the run that makes them.
LEMMA KeySources ==
  ASSUME TypeInv, [Next]_vars
  PROVE  /\ \A row \in rows' : row \in rows \/ \E r \in Runs : row.key \in run[r].keys
         /\ \A key \in sending' : key \in sending \/ \E r \in Runs : RunOf(key) = Attempt(r)
         /\ \A q \in Runs : \A key \in run'[q].keys :
              key \in run[q].keys \cup sending \cup KeysOf(rows)
<1> DEFINE Sources ==
         /\ \A row \in rows' : row \in rows \/ \E r \in Runs : row.key \in run[r].keys
         /\ \A key \in sending' : key \in sending \/ \E r \in Runs : RunOf(key) = Attempt(r)
         /\ \A q \in Runs : \A key \in run'[q].keys :
              key \in run[q].keys \cup sending \cup KeysOf(rows)
<1>a. ASSUME NEW r \in Runs, NEW keys \in SUBSET (run[r].keys \cup KeysOf(rows)), NEW pc, NEW kinds,
             Moves(r, pc, kinds, keys)
      PROVE  \A q \in Runs : \A key \in run'[q].keys : key \in run[q].keys \cup KeysOf(rows)
  BY <1>a DEF Moves
<1>b. ASSUME NEW r \in Runs, Ends(r) \/ Starts(r) \/ run' = run
      PROVE  \A q \in Runs : \A key \in run'[q].keys : key \in run[q].keys
  BY <1>b DEF Ends, Starts
<1>1. ASSUME NEW r \in Runs, Scrape(r) PROVE Sources
  BY <1>1, <1>a, <1>b, ScrapeDoes DEF ScrapeEffect, Rest, Storage
<1>2. ASSUME NEW r \in Runs, Save(r) PROVE Sources
  <2>1. \A row \in rows' : row \in rows \/ row.key \in run[r].keys
    BY <1>2 DEF Save, SelectStale, SelectReplaced, DeleteObjects, DeleteExpired, DeleteReplaced,
                InsertRows, Cleanup, Rest, Storage
  <2>2. \A key \in sending' : key \in sending \/ RunOf(key) = Attempt(r)
    <3>1. \A k : RunOf(Key(r, k)) = Attempt(r)
      BY KeyParts DEF TypeInv
    <3> QED
      BY <1>2, <3>1 DEF Save, SelectStale, SelectReplaced, DeleteObjects, DeleteExpired,
                        DeleteReplaced, InsertRows, Cleanup, Rest, Storage
  <2>3. /\ KeysOf({row \in rows : Expired(row)}) \subseteq KeysOf(rows)
        /\ KeysOf({row \in rows : Own(r, row)}) \subseteq KeysOf(rows)
    BY DEF KeysOf
  <2>4. \/ Ends(r)
        \/ \E pc, keys : Moves(r, pc, run[r].kinds, keys) /\ keys \subseteq run[r].keys \cup KeysOf(rows)
    <3> DEFINE To(pc, keys) == Moves(r, pc, run[r].kinds, keys) /\ keys \subseteq run[r].keys \cup KeysOf(rows)
    <3>1. CASE SelectStale(r)
      <4>1. To("select_replaced", KeysOf({row \in rows : Expired(row)}))
        BY <2>3, <3>1, SaveDoes
      <4> QED
        BY <4>1
    <3>2. CASE SelectReplaced(r)
      <4>1. To("delete_objects", run[r].keys \cup KeysOf({row \in rows : Own(r, row)}))
        BY <2>3, <3>2, SaveDoes
      <4> QED
        BY <4>1
    <3>3. CASE DeleteObjects(r) \/ Cleanup(r)
      <4>1. Ends(r) \/ To("delete_expired", {})
        BY <3>3, SaveDoes
      <4> QED
        BY <4>1
    <3>4. CASE DeleteExpired(r)
      <4>1. To("delete_replaced", run[r].keys)
        BY <3>4, SaveDoes
      <4> QED
        BY <4>1
    <3>5. CASE DeleteReplaced(r)
      <4>1. To("upload", run[r].keys) \/ To("put", run[r].keys)
        BY <3>5, SaveDoes
      <4> QED
        BY <4>1
    <3>6. CASE InsertRows(r)
      <4>1. To("fingerprint", {}) \/ To("upload", {}) \/ To("cleanup", run[r].keys)
        BY <3>6, SaveDoes
      <4> QED
        BY <4>1
    <3> QED
      BY <1>2, <3>1, <3>2, <3>3, <3>4, <3>5, <3>6 DEF Save
  <2> QED
    BY <1>a, <1>b, <2>1, <2>2, <2>4
<1>3. ASSUME NEW r \in Runs, Identify(r) PROVE Sources
  BY <1>3, <1>a, <1>b, IdentifyDoes DEF IdentifyEffect, Storage
<1>4. ASSUME NEW key \in sending, Put(key) \/ PutFails(key) PROVE Sources
  BY <1>4, PutDoes DEF Moves
<1>5. CASE Crash
  BY <1>5, CrashDoes DEF Crash
<1>6. CASE CleanupExpired \/ NextDay \/ UNCHANGED vars
  BY <1>6 DEF CleanupExpired, NextDay, vars, Rest, Storage
<1> QED
  BY <1>1, <1>2, <1>3, <1>4, <1>5, <1>6 DEF Next

\* Every step keeps the keys known.
LEMMA NextKnown == TypeInv /\ KnownKeys /\ [Next]_vars => KnownKeys'
<1> SUFFICES ASSUME TypeInv, KnownKeys, [Next]_vars PROVE KnownKeys'
  OBVIOUS
<1>1. \A key \in KeyIds : Known(RunOf(key)) => Known(RunOf(key))'
  BY KnownStays, KeyTypes
<1>2. /\ \A row \in rows : row.key \in KeyIds
      /\ \A key \in sending : key \in KeyIds
      /\ \A r \in Runs : \A key \in run[r].keys : key \in KeyIds
      /\ \A key \in KeysOf(rows) : \E row \in rows : row.key = key
  BY DEF TypeInv, StorageOK, RunsOK, RunType, KeysOf
<1>3. TypeInv'
  BY NextType
<1>4. \A row \in rows' : Known(RunOf(row.key))'
  BY <1>1, <1>2, KeySources DEF KnownKeys
<1>5. \A key \in sending' : Known(RunOf(key))'
  <2>1. ASSUME NEW key \in sending', NEW r \in Runs, RunOf(key) = Attempt(r) PROVE Known(RunOf(key))
    BY <2>1, OwnKnown
  <2>2. \A key \in sending' : key \in KeyIds
    BY <1>3 DEF TypeInv, StorageOK
  <2> QED
    BY <1>1, <1>2, <2>1, <2>2, KeySources DEF KnownKeys
<1>6. ASSUME NEW r \in Runs, NEW key \in run'[r].keys PROVE Known(RunOf(key))'
  <2>1. key \in run[r].keys \cup sending \cup KeysOf(rows)
    BY KeySources
  <2>2. CASE key \in run[r].keys \cup sending
    BY <1>1, <1>2, <2>2 DEF KnownKeys
  <2>3. CASE key \in KeysOf(rows)
    <3>1. PICK row \in rows : row.key = key
      BY <1>2, <2>3
    <3>2. row.key \in KeyIds /\ Known(RunOf(row.key))
      BY <1>2, <3>1 DEF KnownKeys
    <3> QED
      BY <1>1, <3>1, <3>2
  <2> QED
    BY <2>1, <2>2, <2>3
<1> QED
  BY <1>4, <1>5, <1>6 DEF KnownKeys

Choosing == {"select_replaced", "delete_objects"}
Unsaved == Scraping \cup SavePcs
\* Keys of rows, and those a save has chosen from rows.
Taken == KeysOf(rows) \cup UNION {run[q].keys : q \in {r \in Runs : run[r].pc \in Choosing}}

(* Why the objects of a row stay: a run that has inserted no rows yet has  *)
(* keys that nobody has chosen to delete; what it has put is there; what a *)
(* save has chosen has expired or belongs to its own submission; and the   *)
(* expiry of a key does not change.                                        *)
NoneYet == \A q \in Runs : run[q].pc \in Unsaved => \A key \in Taken : RunOf(key) # Attempt(q)
OwnKeys(r) ==
    /\ run[r].pc \in {"put", "cleanup"} => \A key \in run[r].keys : RunOf(key) = Attempt(r)
    /\ run[r].pc = "put" => run[r].keys \subseteq objects
    /\ Between(r) => run[r].keys = {}
Chosen(r) ==
    run[r].pc \in Choosing =>
       \A row \in rows : row.key \in run[r].keys => Expired(row) \/ Own(r, row)
Unique == \A x, y \in rows : x.key = y.key => x = y
Readable(row) ==
    \/ Expired(row) \/ row.key \in objects \/ SubmissionOf(row.key) \in half
    \/ \E r \in Runs : Own(r, row) /\ Between(r)
ReadInv ==
    /\ KnownKeys /\ NoneYet /\ Unique
    /\ \A r \in Runs : OwnKeys(r) /\ Chosen(r)
    /\ \A row \in rows : Readable(row)

\* What a step that is no part of a save does to a slot.
Elsewhere(q) ==
    \/ run'[q] = run[q]
    \/ run'[q].pc = "idle" /\ run'[q].keys = {} /\ (Between(q) => run[q].of \in half')
    \/ run'[q].pc = "primary" /\ run'[q].n = run[q].n + 1 /\ run[q].pc = "idle"
    \/ /\ run[q].pc \in Scraping /\ run'[q].pc \in Scraping \cup {"select_stale"}
       /\ run'[q].n = run[q].n /\ run'[q].of = run[q].of
    \/ /\ run[q].pc \in {"fingerprint", "upload"} /\ run'[q].pc \in {"upload", "delete_files"}
       /\ run'[q].n = run[q].n /\ run'[q].of = run[q].of
    \/ /\ run[q].pc = "put" /\ run'[q].pc \in {"put", "cleanup"}
       /\ run'[q].n = run[q].n /\ run'[q].of = run[q].of
       /\ \A key \in run'[q].keys :
            key \in run[q].keys \/ (RunOf(key) = Attempt(q) /\ key \in objects')
Background ==
    /\ rows' = rows /\ objects \subseteq objects' /\ half \subseteq half'
    /\ day' = day \/ day' = day + 1
    /\ \A q \in Runs : Elsewhere(q)

\* Everything but the statements of a save leaves the rows and their objects alone.
LEMMA BackgroundSteps ==
  ASSUME TypeInv, KnownKeys, [Next]_vars, ~\E r \in Runs : Save(r)
  PROVE  Background
<1> USE DEF Background, Elsewhere
<1>1. ASSUME NEW r \in Runs, Scrape(r) PROVE Background
  <2>1. ScrapeEffect(r) /\ UNCHANGED <<rows, objects, half, day>>
    BY <1>1, ScrapeDoes DEF Rest, Storage
  <2>2. run[r].pc \in Scraping => ~Between(r)
    BY Phases DEF Between, SavePcs
  <2>3. \A pc \in Looking \cup Downloading : pc \in Scraping
    BY DEF Scraping
  <2>4. CASE run[r].pc = "idle" /\ Starts(r)
    BY <2>1, <2>4 DEF Starts
  <2>5. CASE run[r].pc \in Scraping /\ Ends(r)
    BY <2>1, <2>2, <2>5 DEF Ends
  <2>6. ASSUME NEW pc \in Scraping \cup {"select_stale"}, NEW kinds, run[r].pc \in Scraping,
               Moves(r, pc, kinds, run[r].keys)
        PROVE  Background
    BY <2>1, <2>6 DEF Moves
  <2>7. "extract" \in Scraping
    BY DEF Scraping, Looking
  <2> QED
    BY <2>1, <2>3, <2>4, <2>5, <2>6, <2>7 DEF ScrapeEffect
<1>2. ASSUME NEW r \in Runs, Identify(r) PROVE Background
  <2>1. IdentifyEffect(r) /\ UNCHANGED <<rows, objects, half, day>>
    BY <1>2, IdentifyDoes DEF Storage
  <2>2. run[r].pc \in {"fingerprint", "upload", "delete_files"} => ~Between(r)
    BY DEF Between
  <2>3. Elsewhere(r) /\ \A q \in Runs : q # r => run'[q] = run[q]
    BY <2>1, <2>2 DEF IdentifyEffect, Ends, Moves
  <2> QED
    BY <2>1, <2>3
<1>3. ASSUME NEW key \in sending, Put(key) \/ PutFails(key) PROVE Background
  <2> DEFINE r == SlotOf(key)
  <2>1. UNCHANGED <<rows, half, day>> /\ objects \subseteq objects' /\ r \in Runs
    BY <1>3, PutDoes
  <2>2. CASE run' = run
    BY <2>1, <2>2
  <2>3. CASE run' # run
    <3>1. Active(RunOf(key)) /\ run[r].pc = "put"
      BY <1>3, <2>3, PutDoes
    <3>2. RunOf(key) = Attempt(r)
      BY <1>3, <3>1, PutDoes, KeyTypes DEF KnownKeys, Known
    <3>3. \/ Moves(r, "put", run[r].kinds, run[r].keys \cup {key}) /\ key \in objects'
          \/ Moves(r, "cleanup", run[r].kinds, run[r].keys)
      BY <1>3, <2>3, PutDoes
    <3> QED
      BY <2>1, <3>1, <3>2, <3>3 DEF Moves
  <2> QED
    BY <2>2, <2>3
<1>4. CASE Crash
  <2>1. rows' = rows /\ day' = day /\ objects \subseteq objects'
    BY <1>4 DEF Crash
  <2> QED
    BY <1>4, <2>1, CrashDoes
<1>5. CASE CleanupExpired \/ NextDay \/ UNCHANGED vars
  BY <1>5 DEF CleanupExpired, NextDay, vars, Rest, Storage
<1> QED
  BY <1>1, <1>2, <1>3, <1>4, <1>5 DEF Next

\* The steps of the phases, as the invariant tells them apart.
LEMMA MorePhases ==
  /\ Choosing \subseteq SavePcs /\ SavePcs \subseteq Unsaved /\ Scraping \subseteq Unsaved
  /\ {"idle", "fingerprint", "upload", "delete_files"} \cap Unsaved = {}
  /\ "primary" \in Scraping
  /\ Scraping \cap SavePcs = {}
  /\ Choosing \cap {"select_stale", "put", "cleanup", "delete_expired", "delete_replaced"} = {}
  BY Phases DEF Choosing, SavePcs, Unsaved, Scraping, Looking

\* What has been taken is a key of a run that has begun.
LEMMA TakenKnown ==
  ASSUME TypeInv, KnownKeys, NEW key \in Taken
  PROVE  key \in KeyIds /\ Known(RunOf(key))
<1>1. CASE key \in KeysOf(rows)
  <2>1. PICK row \in rows : row.key = key
    BY <1>1 DEF KeysOf
  <2> QED
    BY <2>1 DEF KnownKeys, TypeInv, StorageOK
<1>2. CASE \E r \in Runs : key \in run[r].keys
  BY <1>2 DEF KnownKeys, TypeInv, RunsOK, RunType
<1> QED
  BY <1>1, <1>2 DEF Taken

\* Nothing is taken but from what is, and a run that starts has a new name.
LEMMA NoneYetKept ==
  ASSUME TypeInv, KnownKeys, NoneYet, Taken' \subseteq Taken,
         \A q \in Runs : run'[q].pc \in Unsaved =>
           \/ run[q].pc \in Unsaved /\ Attempt(q)' = Attempt(q)
           \/ run'[q].n = run[q].n + 1
  PROVE  NoneYet'
<1> SUFFICES ASSUME NEW q \in Runs, run'[q].pc \in Unsaved, NEW key \in Taken'
             PROVE  RunOf(key) # Attempt(q)'
  BY DEF NoneYet
<1>1. key \in Taken /\ key \in KeyIds /\ Known(RunOf(key))
  BY TakenKnown
<1>2. CASE run[q].pc \in Unsaved /\ Attempt(q)' = Attempt(q)
  BY <1>1, <1>2 DEF NoneYet
<1>3. CASE run'[q].n = run[q].n + 1
  <2>1. RunOf(key) = Attempt(q)' => RunOf(key)[1] = q /\ RunOf(key)[2] = run[q].n + 1
    BY <1>3 DEF Attempt
  <2>2. RunOf(key)[2] <= run[RunOf(key)[1]].n /\ run[q].n \in Nat /\ RunOf(key)[2] \in Nat
    BY <1>1, KeyTypes DEF Known, TypeInv, RunsOK, RunType
  <2> QED
    BY <2>1, <2>2
<1> QED
  BY <1>2, <1>3

\* A step that is no part of a save keeps every artifact readable.
LEMMA BackgroundRead ==
  ASSUME TypeInv, TypeInv', ReadInv, KnownKeys', Background
  PROVE  ReadInv'
<1>0. /\ rows' = rows /\ objects \subseteq objects' /\ half \subseteq half'
      /\ \A q \in Runs : Elsewhere(q)
      /\ \A row \in rows : Expired(row) => Expired(row)'
  <2>1. \A row \in rows : row.expires \in Nat
    BY DEF TypeInv, StorageOK
  <2>2. day \in Nat
    BY DEF TypeInv, RestOK
  <2> QED
    BY <2>1, <2>2 DEF Background, Expired
<1>a. \A q \in Runs : run'[q] = run[q] => Attempt(q)' = Attempt(q)
  BY DEF Attempt
<1>1. \A q \in Runs : run'[q].pc \in Choosing => run'[q] = run[q]
  BY <1>0, MorePhases, Phases DEF Elsewhere, Choosing
<1>2. Taken' \subseteq Taken
  BY <1>0, <1>1 DEF Taken, KeysOf
<1>3. NoneYet'
  <2>1. \A q \in Runs : run'[q].n = run[q].n /\ run'[q].of = run[q].of => Attempt(q)' = Attempt(q)
    BY DEF Attempt
  <2>2. "put" \in Unsaved
    BY MorePhases DEF SavePcs
  <2>3. \A q \in Runs : run'[q].pc \in Unsaved =>
           \/ run[q].pc \in Unsaved /\ Attempt(q)' = Attempt(q)
           \/ run'[q].n = run[q].n + 1
    BY <1>0, <1>a, <2>1, <2>2, MorePhases DEF Elsewhere
  <2> QED
    BY <1>2, <2>3, NoneYetKept DEF ReadInv
<1>4. Unique'
  BY <1>0 DEF ReadInv, Unique
<1>5. ASSUME NEW q \in Runs PROVE OwnKeys(q)'
  <2>1. CASE run'[q] = run[q]
    BY <1>0, <1>a, <2>1 DEF ReadInv, OwnKeys, Between
  <2>2. CASE run'[q].pc \in Scraping \cup {"idle", "select_stale", "upload", "delete_files"}
    BY <2>2, Phases DEF OwnKeys, Between, SavePcs
  <2>3. CASE /\ run[q].pc = "put" /\ run'[q].pc \in {"put", "cleanup"}
             /\ run'[q].n = run[q].n /\ run'[q].of = run[q].of
             /\ \A key \in run'[q].keys :
                  key \in run[q].keys \/ (RunOf(key) = Attempt(q) /\ key \in objects')
    <3>1. Attempt(q)' = Attempt(q)
      BY <2>3 DEF Attempt
    <3> QED
      BY <1>0, <2>3, <3>1 DEF ReadInv, OwnKeys, Between
  <2> QED
    BY <1>0, <2>1, <2>2, <2>3, MorePhases DEF Elsewhere
<1>6. ASSUME NEW q \in Runs PROVE Chosen(q)'
  BY <1>0, <1>1 DEF ReadInv, Chosen, Own
<1>7. ASSUME NEW row \in rows' PROVE Readable(row)'
  <2>1. Readable(row)
    BY <1>0 DEF ReadInv
  <2>2. CASE Expired(row) \/ row.key \in objects \/ SubmissionOf(row.key) \in half
    BY <1>0, <2>2 DEF Readable
  <2>3. ASSUME NEW r \in Runs, Own(r, row), Between(r) PROVE Readable(row)'
    <3>1. run'[r] = run[r] \/ run[r].of \in half'
      <4>1. run[r].pc \notin Scraping \cup {"fingerprint", "upload", "put", "idle"}
        BY <2>3, Phases DEF Between, SavePcs
      <4> QED
        BY <1>0, <2>3, <4>1 DEF Elsewhere
    <3>2. CASE run'[r] = run[r]
      BY <2>3, <3>2 DEF Readable, Own, Between
    <3>3. CASE run[r].of \in half'
      BY <2>3, <3>3 DEF Readable, Own
    <3> QED
      BY <3>1, <3>2, <3>3
  <2> QED
    BY <2>1, <2>2, <2>3 DEF Readable
<1> QED
  BY <1>3, <1>4, <1>5, <1>6, <1>7 DEF ReadInv

(* The statements of a save.  What it leaves to the other runs:            *)
SaveFrame(r) ==
    /\ run[r].pc \in SavePcs /\ day' = day
    /\ \A q \in Runs : q # r => run'[q] = run[q]
    /\ run'[r].n = run[r].n
    /\ run'[r].pc # "idle" => run'[r].of = run[r].of
    /\ \A key \in objects : key \in objects' \/ key \in Taken \/ RunOf(key) = Attempt(r)

\* A save deletes no object another run counts on, and adds no row another save has chosen.
LEMMA SaveOthers ==
  ASSUME TypeInv, ReadInv, NEW r \in Runs, SaveFrame(r),
         \A row \in rows' : row \in rows \/ RunOf(row.key) = Attempt(r),
         NEW q \in Runs, q # r
  PROVE  OwnKeys(q)' /\ Chosen(q)'
<1>1. run'[q] = run[q] /\ Attempt(q)' = Attempt(q) /\ Attempt(q) # Attempt(r)
  BY KeyParts DEF SaveFrame, Attempt, TypeInv
<1>2. run[r].pc \in Unsaved
  BY MorePhases DEF SaveFrame
<1>3. OwnKeys(q)'
  <2>1. OwnKeys(q)
    BY DEF ReadInv
  <2>2. ASSUME run[q].pc = "put", NEW key \in run[q].keys PROVE key \in objects'
    <3>1. key \in objects /\ RunOf(key) = Attempt(q)
      BY <2>1, <2>2 DEF OwnKeys
    <3>2. run[q].pc \in Unsaved
      BY <2>2, MorePhases DEF SavePcs
    <3>3. key \notin Taken
      BY <3>1, <3>2 DEF ReadInv, NoneYet
    <3> QED
      BY <1>1, <3>1, <3>3 DEF SaveFrame
  <2> QED
    BY <1>1, <2>1, <2>2 DEF OwnKeys, Between
<1>4. Chosen(q)'
  <2> SUFFICES ASSUME run[q].pc \in Choosing, NEW row \in rows', row.key \in run[q].keys
               PROVE  (Expired(row) \/ Own(q, row))'
    BY <1>1 DEF Chosen
  <2>1. row.key \in Taken
    BY DEF Taken
  <2>2. row \in rows
    BY <1>2, <2>1 DEF ReadInv, NoneYet
  <2> QED
    BY <1>1, <2>2 DEF ReadInv, Chosen, Expired, Own, SaveFrame
<1> QED
  BY <1>3, <1>4

\* A statement that adds no row keeps what concerns the keys.
LEMMA SaveKeeps ==
  ASSUME TypeInv, ReadInv, KnownKeys', NEW r \in Runs, SaveFrame(r), rows' \subseteq rows,
         run'[r].pc \in Choosing => run'[r].keys \subseteq Taken
  PROVE  KnownKeys' /\ NoneYet' /\ Unique' /\ \A q \in Runs : q # r => OwnKeys(q)' /\ Chosen(q)'
<1>1. \A q \in Runs : q # r => OwnKeys(q)' /\ Chosen(q)'
  BY SaveOthers
<1>2. Unique'
  BY DEF ReadInv, Unique
<1>3. Taken' \subseteq Taken
  BY DEF SaveFrame, Taken, KeysOf
<1>4. \A q \in Runs : run'[q].pc \in Unsaved =>
        run[q].pc \in Unsaved /\ Attempt(q)' = Attempt(q)
  <2>1. run[r].pc \in Unsaved /\ "idle" \notin Unsaved
    BY MorePhases DEF SaveFrame
  <2> QED
    BY <2>1 DEF SaveFrame, Attempt
<1>5. NoneYet'
  BY <1>3, <1>4, NoneYetKept DEF ReadInv
<1> QED
  BY <1>1, <1>2, <1>5

\* A row stays readable while its object does and no save of its submission ends.
LEMMA ReadableKept ==
  ASSUME NEW row, Readable(row), NEW r \in Runs, day' = day, half \subseteq half',
         \A q \in Runs : q # r => run'[q] = run[q],
         row.key \in objects => row.key \in objects' \/ Expired(row)
                                  \/ (Own(r, row) /\ (Between(r)' \/ run[r].of \in half')),
         Between(r) \/ Between(r)' => Between(r)' /\ run'[r].of = run[r].of
  PROVE  Readable(row)'
<1>1. CASE Expired(row) \/ SubmissionOf(row.key) \in half
  BY <1>1 DEF Readable, Expired
<1>2. CASE row.key \in objects
  BY <1>2 DEF Readable, Expired, Own
<1>3. CASE \E q \in Runs : Own(q, row) /\ Between(q)
  BY <1>3 DEF Readable, Own, Between
<1> QED
  BY <1>1, <1>2, <1>3 DEF Readable

\* The rows a save will delete are chosen from the expired and from its own.
LEMMA SelectRead ==
  ASSUME TypeInv, ReadInv, KnownKeys', NEW r \in Runs, SelectStale(r) \/ SelectReplaced(r)
  PROVE  ReadInv'
<1> USE DEF At
<1>0. UNCHANGED <<rows, objects, half, day>>
  BY DEF SelectStale, SelectReplaced, Rest, Storage
<1> DEFINE stale == KeysOf({row \in rows : Expired(row)})
           own == run[r].keys \cup KeysOf({row \in rows : Own(r, row)})
<1>1. \/ /\ run[r].pc = "select_stale" /\ Moves(r, "select_replaced", run[r].kinds, stale)
      \/ /\ run[r].pc = "select_replaced" /\ Moves(r, "delete_objects", run[r].kinds, own)
  BY SaveDoes DEF SelectStale, SelectReplaced
<1>2. SaveFrame(r)
  BY <1>0, <1>1 DEF SaveFrame, SavePcs, Moves
<1>3. /\ run'[r].pc \in Choosing /\ run'[r].of = run[r].of /\ run'[r].keys \subseteq Taken
      /\ ~Between(r) /\ ~Between(r)'
  <2>1. KeysOf({row \in rows : Own(r, row)}) \subseteq Taken /\ stale \subseteq Taken
    BY DEF Taken, KeysOf
  <2>2. run[r].pc = "select_replaced" => run[r].keys \subseteq Taken
    BY DEF Taken, Choosing
  <2> QED
    BY <1>1, <2>1, <2>2 DEF Moves, Choosing, Between
<1>4. KnownKeys' /\ NoneYet' /\ Unique' /\ \A q \in Runs : q # r => OwnKeys(q)' /\ Chosen(q)'
  BY <1>0, <1>2, <1>3, SaveKeeps
<1>5. OwnKeys(r)'
  BY <1>3 DEF OwnKeys, Between, Choosing
<1>6. Chosen(r)'
  <2> SUFFICES ASSUME NEW row \in rows, row.key \in run'[r].keys
               PROVE  Expired(row) \/ Own(r, row)
    BY <1>0, <1>3 DEF Chosen, Expired, Own
  <2>1. ASSUME row.key \in stale PROVE Expired(row)
    BY <2>1 DEF KeysOf, ReadInv, Unique
  <2>2. ASSUME row.key \in KeysOf({x \in rows : Own(r, x)}) PROVE Own(r, row)
    BY <2>2 DEF KeysOf, Own
  <2>3. ASSUME run[r].pc = "select_replaced", row.key \in run[r].keys
        PROVE  Expired(row) \/ Own(r, row)
    BY <2>3 DEF ReadInv, Chosen, Choosing
  <2> QED
    BY <1>1, <2>1, <2>2, <2>3 DEF Moves
<1>7. ASSUME NEW row \in rows' PROVE Readable(row)'
  <2>1. Readable(row)
    BY <1>0 DEF ReadInv
  <2> QED
    BY <1>0, <1>2, <1>3, <2>1, ReadableKept DEF SaveFrame
<1> QED
  BY <1>4, <1>5, <1>6, <1>7 DEF ReadInv

\* Deleting the objects: every row that loses its object has expired or is the save's own,
\* and the submission of a save that stops here is marked.
LEMMA DeleteObjectsRead ==
  ASSUME TypeInv, ReadInv, KnownKeys', NEW r \in Runs, DeleteObjects(r)
  PROVE  ReadInv'
<1>0. /\ run[r].pc = "delete_objects" /\ UNCHANGED <<rows, day>>
      /\ \A key \in objects : key \in objects' \/ key \in run[r].keys
      /\ half \subseteq half'
  BY DEF DeleteObjects, At
<1>1. \/ Moves(r, "delete_expired", run[r].kinds, {})
      \/ Ends(r) /\ run[r].of \in half'
  BY SaveDoes
<1>2. run[r].keys \subseteq Taken
  BY <1>0 DEF Taken, Choosing
<1>3. SaveFrame(r)
  BY <1>0, <1>1, <1>2 DEF SaveFrame, SavePcs, Moves, Ends
<1>4. run'[r].pc \notin Choosing /\ ~Between(r)
  BY <1>0, <1>1 DEF Choosing, Moves, Ends, Between
<1>5. KnownKeys' /\ NoneYet' /\ Unique' /\ \A q \in Runs : q # r => OwnKeys(q)' /\ Chosen(q)'
  BY <1>0, <1>3, <1>4, SaveKeeps
<1>6. OwnKeys(r)' /\ Chosen(r)'
  BY <1>1, <1>4 DEF OwnKeys, Chosen, Between, Moves, Ends
<1>7. ASSUME NEW row \in rows' PROVE Readable(row)'
  <2>1. Readable(row)
    BY <1>0 DEF ReadInv
  <2>2. row.key \in run[r].keys => Expired(row) \/ Own(r, row)
    BY <1>0 DEF ReadInv, Chosen, Choosing
  <2>3. Between(r)' \/ run[r].of \in half'
    BY <1>1 DEF Between, Moves
  <2>4. Between(r)' => run'[r].of = run[r].of
    BY <1>1 DEF Between, Moves, Ends
  <2> QED
    BY <1>0, <1>3, <1>4, <2>1, <2>2, <2>3, <2>4, ReadableKept DEF SaveFrame
<1> QED
  BY <1>5, <1>6, <1>7 DEF ReadInv

\* Deleting the expired rows.
LEMMA DeleteExpiredRead ==
  ASSUME TypeInv, ReadInv, KnownKeys', NEW r \in Runs, DeleteExpired(r)
  PROVE  ReadInv'
<1>0. /\ run[r].pc = "delete_expired" /\ UNCHANGED <<objects, half, day>> /\ rows' \subseteq rows
      /\ Moves(r, "delete_replaced", run[r].kinds, run[r].keys)
  BY SaveDoes DEF DeleteExpired, At
<1>1. SaveFrame(r)
  BY <1>0 DEF SaveFrame, SavePcs, Moves
<1>2. run'[r].pc \notin Choosing /\ Between(r) /\ Between(r)' /\ run'[r].of = run[r].of
  BY <1>0 DEF Choosing, Moves, Between
<1>3. KnownKeys' /\ NoneYet' /\ Unique' /\ \A q \in Runs : q # r => OwnKeys(q)' /\ Chosen(q)'
  BY <1>0, <1>1, <1>2, SaveKeeps
<1>4. OwnKeys(r)' /\ Chosen(r)'
  <2>1. OwnKeys(r)
    BY DEF ReadInv
  <2> QED
    BY <1>0, <1>2, <2>1 DEF OwnKeys, Chosen, Between, Moves
<1>5. ASSUME NEW row \in rows' PROVE Readable(row)'
  <2>1. Readable(row)
    BY <1>0 DEF ReadInv
  <2> QED
    BY <1>0, <1>1, <1>2, <2>1, ReadableKept DEF SaveFrame
<1> QED
  BY <1>3, <1>4, <1>5 DEF ReadInv

\* Deleting the rows of the submission: whatever had become of their objects, they are gone.
LEMMA DeleteReplacedRead ==
  ASSUME TypeInv, ReadInv, KnownKeys', NEW r \in Runs, DeleteReplaced(r)
  PROVE  ReadInv'
<1>0. /\ run[r].pc = "delete_replaced" /\ UNCHANGED <<objects, day>>
      /\ rows' = {row \in rows : ~Own(r, row)} /\ half' = half \ {run[r].of}
  BY DEF DeleteReplaced, At
<1>a. \E pc \in {"put", "upload"} : Moves(r, pc, run[r].kinds, run[r].keys)
  BY SaveDoes
<1>1. SaveFrame(r)
  BY <1>0, <1>a DEF SaveFrame, SavePcs, Moves
<1>2. run'[r].pc \notin Choosing /\ ~Between(r)' /\ run'[r].keys = {}
  <2>1. run[r].keys = {}
    BY <1>0 DEF ReadInv, OwnKeys, Between
  <2> QED
    BY <1>a, <2>1 DEF Choosing, Moves, Between
<1>3. KnownKeys' /\ NoneYet' /\ Unique' /\ \A q \in Runs : q # r => OwnKeys(q)' /\ Chosen(q)'
  BY <1>0, <1>1, <1>2, SaveKeeps
<1>4. OwnKeys(r)' /\ Chosen(r)'
  BY <1>2 DEF OwnKeys, Chosen, Between
<1>5. ASSUME NEW row \in rows' PROVE Readable(row)'
  <2>1. row \in rows /\ Readable(row) /\ ~Own(r, row)
    BY <1>0 DEF ReadInv
  <2>2. CASE Expired(row) \/ row.key \in objects \/ SubmissionOf(row.key) \in half
    BY <1>0, <2>1, <2>2 DEF Readable, Expired, Own
  <2>3. ASSUME NEW q \in Runs, Own(q, row), Between(q) PROVE Readable(row)'
    <3>1. run'[q] = run[q]
      BY <1>1, <2>1, <2>3 DEF SaveFrame
    <3> QED
      BY <2>3, <3>1 DEF Readable, Own, Between
  <2> QED
    BY <2>1, <2>2, <2>3 DEF Readable
<1> QED
  BY <1>3, <1>4, <1>5 DEF ReadInv

\* The rows of what has been put: their objects are there, and their keys are new.
LEMMA InsertRowsRead ==
  ASSUME TypeInv, ReadInv, KnownKeys', NEW r \in Runs, InsertRows(r)
  PROVE  ReadInv'
<1>0. run[r].pc = "put" /\ UNCHANGED <<objects, half, day>>
  BY DEF InsertRows, At
<1>a. /\ run[r].pc \in SavePcs /\ run[r].pc \in Unsaved /\ ~Between(r)
      /\ \A key \in run[r].keys : RunOf(key) = Attempt(r) /\ key \in objects
  BY <1>0, MorePhases DEF SavePcs, Between, ReadInv, OwnKeys
<1>1. CASE Moves(r, "cleanup", run[r].kinds, run[r].keys) /\ rows' = rows
  <2>1. SaveFrame(r)
    BY <1>0, <1>1, <1>a DEF SaveFrame, Moves
  <2>2. run'[r].pc \notin Choosing /\ ~Between(r)'
    BY <1>1 DEF Choosing, Moves, Between
  <2>3. KnownKeys' /\ NoneYet' /\ Unique' /\ \A q \in Runs : q # r => OwnKeys(q)' /\ Chosen(q)'
    BY <1>1, <2>1, <2>2, SaveKeeps
  <2>4. OwnKeys(r)' /\ Chosen(r)'
    <3>1. Attempt(r)' = Attempt(r)
      BY <1>1, SameAttempt DEF TypeInv
    <3> QED
      BY <1>1, <1>a, <2>2, <3>1 DEF OwnKeys, Chosen, Moves
  <2>5. ASSUME NEW row \in rows' PROVE Readable(row)'
    <3>1. Readable(row)
      BY <1>1 DEF ReadInv
    <3> QED
      BY <1>0, <1>a, <2>1, <2>2, <3>1, ReadableKept DEF SaveFrame
  <2> QED
    BY <2>3, <2>4, <2>5 DEF ReadInv
<1>2. ASSUME NEW pc \in {"fingerprint", "upload"}, Moves(r, pc, run[r].kinds, {}),
             rows' = rows \cup {[key |-> key, expires |-> day + Retention] : key \in run[r].keys}
      PROVE  ReadInv'
  <2>1. SaveFrame(r)
    BY <1>0, <1>2, <1>a DEF SaveFrame, Moves
  <2>2. run'[r].pc \notin Choosing \cup Unsaved /\ ~Between(r)'
    BY <1>2, MorePhases DEF Choosing, Moves, Between
  <2>3. \A row \in rows' : row \in rows \/ row.key \in run[r].keys
    BY <1>2
  <2>4. \A q \in Runs : q # r => OwnKeys(q)' /\ Chosen(q)'
    BY <1>a, <2>1, <2>3, SaveOthers
  <2>5. OwnKeys(r)' /\ Chosen(r)'
    BY <1>2, <2>2 DEF OwnKeys, Chosen, Between, Moves
  <2>6. NoneYet'
    <3>1. Taken' \subseteq Taken \cup run[r].keys
      BY <2>1, <2>2, <2>3 DEF SaveFrame, Taken, KeysOf
    <3> SUFFICES ASSUME NEW q \in Runs, run'[q].pc \in Unsaved, NEW key \in Taken'
                 PROVE  RunOf(key) # Attempt(q)'
      BY DEF NoneYet
    <3>2. q # r /\ run'[q] = run[q] /\ Attempt(q)' = Attempt(q)
      BY <2>1, <2>2 DEF SaveFrame, Attempt
    <3>3. CASE key \in Taken
      BY <3>2, <3>3 DEF ReadInv, NoneYet
    <3>4. CASE key \in run[r].keys
      BY <1>a, <3>2, <3>4, KeyParts DEF TypeInv
    <3> QED
      BY <3>1, <3>3, <3>4
  <2>7. Unique'
    <3> DEFINE fresh == {[key |-> key, expires |-> day + Retention] : key \in run[r].keys}
    <3>1. \A x, y \in fresh : x.key = y.key => x = y
      OBVIOUS
    <3>2. \A x \in rows : \A y \in fresh : x.key # y.key
      <4>1. \A x \in rows : RunOf(x.key) # Attempt(r)
        BY <1>a DEF ReadInv, NoneYet, Taken, KeysOf
      <4> QED
        BY <1>a, <4>1
    <3>3. \A x, y \in rows : x.key = y.key => x = y
      BY DEF ReadInv, Unique
    <3> HIDE DEF fresh
    <3>4. rows' = rows \cup fresh
      BY <1>2 DEF fresh
    <3> QED
      BY <3>1, <3>2, <3>3, <3>4 DEF Unique
  <2>8. ASSUME NEW row \in rows' PROVE Readable(row)'
    <3>1. CASE row.key \in run[r].keys
      BY <1>0, <1>a, <3>1 DEF Readable
    <3>2. CASE row \in rows
      <4>1. Readable(row)
        BY <3>2 DEF ReadInv
      <4> QED
        BY <1>0, <1>a, <2>1, <2>2, <4>1, ReadableKept DEF SaveFrame
    <3> QED
      BY <2>3, <3>1, <3>2
  <2> QED
    BY <2>4, <2>5, <2>6, <2>7, <2>8 DEF ReadInv
<1> QED
  BY <1>1, <1>2, SaveDoes

\* The clean-up deletes what this run has put and no row names.
LEMMA CleanupRead ==
  ASSUME TypeInv, ReadInv, KnownKeys', NEW r \in Runs, Cleanup(r)
  PROVE  ReadInv'
<1>0. /\ run[r].pc = "cleanup" /\ UNCHANGED <<rows, half, day>> /\ Ends(r)
      /\ \A key \in objects : key \in objects' \/ key \in run[r].keys
  BY SaveDoes DEF Cleanup, At
<1>a. /\ run[r].pc \in SavePcs /\ run[r].pc \in Unsaved /\ ~Between(r)
      /\ \A key \in run[r].keys : RunOf(key) = Attempt(r)
  BY <1>0, MorePhases DEF SavePcs, Between, ReadInv, OwnKeys
<1>1. SaveFrame(r)
  BY <1>0, <1>a DEF SaveFrame, Ends
<1>2. run'[r].pc \notin Choosing /\ ~Between(r)'
  BY <1>0 DEF Choosing, Ends, Between
<1>3. KnownKeys' /\ NoneYet' /\ Unique' /\ \A q \in Runs : q # r => OwnKeys(q)' /\ Chosen(q)'
  BY <1>0, <1>1, <1>2, SaveKeeps
<1>4. OwnKeys(r)' /\ Chosen(r)'
  BY <1>0, <1>2 DEF OwnKeys, Chosen, Between, Ends
<1>5. ASSUME NEW row \in rows' PROVE Readable(row)'
  <2>1. Readable(row) /\ row \in rows
    BY <1>0 DEF ReadInv
  <2>2. RunOf(row.key) # Attempt(r)
    BY <1>a, <2>1 DEF ReadInv, NoneYet, Taken, KeysOf
  <2>3. row.key \in objects => row.key \in objects'
    BY <1>0, <1>a, <2>2
  <2> QED
    BY <1>0, <1>1, <1>2, <1>a, <2>1, <2>3, ReadableKept DEF SaveFrame
<1> QED
  BY <1>3, <1>4, <1>5 DEF ReadInv

\* Every step keeps every artifact readable.
LEMMA NextRead == TypeInv /\ ReadInv /\ [Next]_vars => ReadInv'
<1> SUFFICES ASSUME TypeInv, ReadInv, [Next]_vars PROVE ReadInv'
  OBVIOUS
<1>1. TypeInv' /\ KnownKeys /\ KnownKeys'
  BY NextType, NextKnown DEF ReadInv
<1>2. ASSUME NEW r \in Runs, Save(r) PROVE ReadInv'
  BY <1>1, <1>2, SelectRead, DeleteObjectsRead, DeleteExpiredRead, DeleteReplacedRead,
     InsertRowsRead, CleanupRead DEF Save
<1>3. CASE ~\E r \in Runs : Save(r)
  BY <1>1, <1>3, BackgroundSteps, BackgroundRead
<1> QED
  BY <1>2, <1>3

\* The invariant behind ListedCanBeRead always holds.
LEMMA ReadAlways == Spec => []ReadInv
<1>1. Init => ReadInv
  BY IdleType DEF Init, ReadInv, KnownKeys, NoneYet, Unique, Taken, KeysOf, OwnKeys, Chosen,
     Choosing, Between, Idle
<1>2. Init => TypeInv
  BY InitType
<1>3. TypeInv /\ [Next]_vars => TypeInv'
  BY NextType
<1>4. TypeInv /\ ReadInv /\ [Next]_vars => ReadInv'
  BY NextRead
<1> QED
  BY <1>1, <1>2, <1>3, <1>4, PTL DEF Spec

\* An artifact the administration lists can be read (admin.ts:64-74), however many saves, of
\* this submission and of others, overlap with each other and with crashes.
THEOREM ListedArtifactsCanBeRead == Spec => []ListedCanBeRead
<1>1. ReadInv => ListedCanBeRead
  BY DEF ReadInv, Readable, ListedCanBeRead
<1> QED
  BY <1>1, ReadAlways, PTL
=============================================================================
