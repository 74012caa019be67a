------------------------------ MODULE Listings ------------------------------
(***************************************************************************)
(* A client's walk through a listing, page by page, while its rows are     *)
(* added, moved and removed: the watchlist (GET /v1/watchlist), the inbox  *)
(* (GET /v1/inbox) and the administrators' log (GET /v1/admin/logs).  A    *)
(* page is one SELECT.  Its cursor is its last row's creation time, in     *)
(* milliseconds, while PostgreSQL keeps microseconds.                      *)
(***************************************************************************)
EXTENDS Naturals, FiniteSets

CONSTANTS
    Ids,        \* row ids, numbers: the watchlist breaks ties by id
    Limit,      \* rows per page
    Ranks,      \* ranks of watch statuses, 0..2 in the code, 1 for want_to_watch
    PerMs,      \* ticks of the database's clock per millisecond
    Lag,        \* longest time from a row's creation time to its commit
    MaxTime,    \* bound on the clock
    Absent      \* no row, no cursor

VARIABLES
    listing,    \* the listing walked
    now,        \* the clock, in ticks
    rows,       \* watchlist_entries, reel_submissions or operational_logs
    cursor,     \* nextCursor of the last page
    walk,       \* the client: before its first page, between pages, done
    steady,     \* history: rows listed at the first page and not moved since
    onPages,    \* history: rows on a page of this walk
    twice,      \* history: rows on two pages of it
    ends,       \* history: the last row of each page
    mixed       \* history: a page had rows of several groups

listVars == <<listing, now, rows, cursor, walk, steady, onPages, twice, ends, mixed>>
walkHistory == <<steady, onPages, twice, ends, mixed>>

\* The rank of a watch status in the watchlist's ORDER BY.  The inbox lists what is not
\* identified, group 0; all of the log is one group.
Groups == IF listing = "watchlist" THEN Ranks ELSE IF listing = "inbox" THEN 0..1 ELSE {0}

ListsInit ==
    /\ listing \in {"watchlist", "inbox", "logs"}
    /\ now = 0
    /\ rows = [i \in Ids |-> Absent]
    /\ cursor = Absent
    /\ walk = "start"
    /\ steady = {} /\ onPages = {} /\ twice = {} /\ ends = {} /\ mixed = FALSE
-----------------------------------------------------------------------------
\* A row's creation time is that of its statement, or of the log record: it shows later.
\* New entries are want_to_watch, new submissions queued; log times are in milliseconds.
Insert(i) ==
    /\ rows[i] = Absent
    /\ \E at \in {t \in 0..now : t + Lag >= now} :
          /\ listing = "logs" => at % PerMs = 0
          /\ rows' = [rows EXCEPT ![i] =
                        [at |-> at, group |-> IF listing = "watchlist" THEN 1 ELSE 0]]
    /\ UNCHANGED <<listing, now, cursor, walk, walkHistory>>

\* updateStatus; a submission is identified, or goes back to the queue.
Move(i) ==
    /\ rows[i] # Absent
    /\ \E g \in Groups \ {rows[i].group} : rows' = [rows EXCEPT ![i].group = g]
    /\ steady' = steady \ {i}
    /\ UNCHANGED <<listing, now, cursor, walk, onPages, twice, ends, mixed>>

RemoveRow(i) ==
    /\ listing = "watchlist" /\ rows[i] # Absent
    /\ rows' = [rows EXCEPT ![i] = Absent]
    /\ steady' = steady \ {i} /\ onPages' = onPages \ {i} /\ twice' = twice \ {i}
    /\ UNCHANGED <<listing, now, cursor, walk, ends, mixed>>

ListsTick ==
    now < MaxTime /\ now' = now + 1 /\ UNCHANGED <<listing, rows, cursor, walk, walkHistory>>
-----------------------------------------------------------------------------
InListing(i) == rows[i] # Absent /\ (listing = "inbox" => rows[i].group = 0)
MatchingMutant == {i \in Ids : InListing(i) /\ (cursor # Absent => rows[i].at <= cursor)}
Matching == {i \in Ids : InListing(i) /\ (cursor # Absent => rows[i].at < cursor)}

\* ORDER BY: only the watchlist's goes by status first, and settles ties.
Precedes(i, j) ==
    \/ rows[i].group < rows[j].group
    \/ /\ rows[i].group = rows[j].group
       /\ \/ rows[i].at > rows[j].at
          \/ listing = "watchlist" /\ rows[i].at = rows[j].at /\ i > j

\* The pages LIMIT can cut off: several, where the order leaves a tie open.
Pages(match) ==
    {P \in SUBSET match :
        /\ Cardinality(P) <= Limit
        /\ P # match => Cardinality(P) = Limit
        /\ \A i \in P, j \in match \ P : ~Precedes(j, i)}

\* createdAt.toISOString() of the last row.  The inbox and the watchlist end at a page that
\* is not full, the log at one that is empty.
Ms(t) == t - (t % PerMs)
MoreMutant(P) == IF listing = "logs" THEN P # {} ELSE Cardinality(P) > Limit
More(P) == IF listing = "logs" THEN P # {} ELSE Cardinality(P) = Limit

FetchPage ==
    /\ \E P \in Pages(Matching) :
          /\ IF More(P)
             THEN \E e \in {i \in P : \A j \in P : ~Precedes(i, j)} :
                     /\ cursor' = Ms(rows[e].at)
                     /\ ends' = ends \cup {rows[e]}
                     /\ walk' = "on"
             ELSE walk' = "done" /\ UNCHANGED <<cursor, ends>>
          /\ steady' = IF walk = "start" THEN Matching ELSE steady
          /\ onPages' = onPages \cup P
          /\ twice' = twice \cup (onPages \cap P)
          /\ mixed' = (mixed \/ \E i, j \in P : rows[i].group # rows[j].group)
    /\ UNCHANGED <<listing, now, rows>>

\* What comes after the walk makes no difference to it.
ListsNext ==
    /\ walk # "done"
    /\ FetchPage \/ ListsTick \/ \E i \in Ids : Insert(i) \/ Move(i) \/ RemoveRow(i)
ListsSpec == ListsInit /\ [][ListsNext]_listVars
-----------------------------------------------------------------------------
(* Properties                                                              *)

\* A walk to the end shows every row that was there from its start and stayed as it was,
\* whatever comes and goes meanwhile (repository.ts:57-76, 115-131; app.ts:273, 358, 207;
\* admin.ts:36-40), but for two kinds: a row created in the millisecond a page ended in, and,
\* on the watchlist, a row of another status than the one a page ended in.
NothingSkipped ==
    walk = "done" =>
        \A i \in steady \ onPages : \E e \in ends :
            Ms(e.at) = Ms(rows[i].at) \/ (listing = "watchlist" /\ e.group # rows[i].group)

\* No row is on two pages, also when it is moved between them; on the watchlist as long as
\* no page goes from one status to the next.
NothingTwice == twice # {} => listing = "watchlist" /\ mixed
=============================================================================
