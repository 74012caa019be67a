---------------------------- MODULE WorkCatalog ----------------------------
(***************************************************************************)
(* The canonical works, the watchlists that point to them and the Stremio  *)
(* addon: src/repository.ts, the transaction addToWatchlist of             *)
(* src/pipeline-store.ts and src/stremio.ts.                               *)
(*                                                                         *)
(* The API's handlers run without a transaction, so every statement is an  *)
(* action of its own; a violated unique index ends the request with an     *)
(* error.  The rows of submissions are SubmissionPipeline's.               *)
(***************************************************************************)
EXTENDS Naturals, FiniteSets, Sequences

CONSTANTS
    Users,      \* owners of watchlists
    Titles,     \* movies and series of TMDB
    kind,       \* "movie" or "series"
    tmdbId,     \* TMDB numbers movies and series separately
    Adds,       \* requests that may put a work on a list
    Routes,     \* how they may do it: "work", "movie", "custom", "pipeline"
    Marks,      \* requests of Stremio that may mark an entry as watched
    Custom,     \* the title of a work that is in no catalog
    None        \* SQL null

ASSUME TitlesAssumption ==
    /\ kind \in [Titles -> {"movie", "series"}]
    /\ Custom \notin Titles
    \* TMDB has one id per movie and one per series.
    /\ \A s, t \in Titles : kind[s] = kind[t] /\ tmdbId[s] = tmdbId[t] => s = t
    /\ \A t \in Titles : tmdbId[t] # None
ASSUME RoutesAssumption == Routes \subseteq {"work", "movie", "custom", "pipeline"}

VARIABLES
    works,      \* the table works, in order of insertion
    external,   \* external_work_ids: the work of each external id, 0 if none
    entry,      \* watchlist_entries: of each user and work, None if not on the list
    connected,  \* users with a Stremio token; a rotated or revoked one does nothing
    add,        \* one request per slot
    mark        \* one markWatched call at a time per slot

vars == <<works, external, entry, connected, add, mark>>

\* "want_to_watch" and "watching" differ only in the order of a listing.
Statuses == {"unwatched", "watched"}
ExternalIds == ({"tmdb"} \X {tmdbId[t] : t \in Titles}) \cup ({"imdb"} \X Titles)
WorkIds == 1..Cardinality(Adds)  \* no request inserts more than one work
Idle == [pc |-> "idle", owners |-> {}, title |-> None, work |-> 0]

NoMark == [pc |-> "idle", user |-> None, work |-> 0]

Init ==
    /\ works = <<>>
    /\ external = [i \in ExternalIds |-> 0]
    /\ entry = [u \in Users |-> [w \in WorkIds |-> None]]
    /\ connected = {}
    /\ add = [p \in Adds |-> Idle]
    /\ mark = [m \in Marks |-> NoMark]
-----------------------------------------------------------------------------
(* Putting a work on a list                                                *)

Tmdb(t) == <<"tmdb", tmdbId[t]>>
WithTmdbId(id) == {w \in DOMAIN works : works[w].tmdb = id}
Work(t) == [title |-> t, kind |-> kind[t], tmdb |-> tmdbId[t]]
NewWork == Len(works) + 1
Continue(p, pc, w) == add' = [add EXCEPT ![p] = [@ EXCEPT !.pc = pc, !.work = w]]
Finish(p, w) == add' = [add EXCEPT ![p] = [@ EXCEPT !.pc = "ok", !.owners = {}, !.work = w]]
Abort(p) == add' = [add EXCEPT ![p] = [Idle EXCEPT !.pc = "failed"]]

\* addWork and addToWatchlist look the work up by its external id, whatever its kind.
LookupWork(p, route, owners, t) ==
    /\ add[p].pc = "idle"
    /\ add' = [add EXCEPT ![p] =
                 [pc |-> CASE route = "pipeline" -> "commit"
                           [] external[Tmdb(t)] # 0 -> "entry"
                           [] OTHER -> "insert",
                  owners |-> owners, title |-> t, work |-> external[Tmdb(t)]]]
    /\ UNCHANGED <<works, external, entry, connected, mark>>

\* works_tmdb_id_unique refuses a second work with the same number.
InsertWorkMutant(p) ==
    /\ add[p].pc = "insert"
    /\ works' = Append(works, Work(add[p].title)) /\ Continue(p, "external", NewWork)
    /\ UNCHANGED <<external, entry, connected, mark>>
InsertWork(p) ==
    /\ add[p].pc = "insert"
    /\ IF WithTmdbId(tmdbId[add[p].title]) # {}
       THEN Abort(p) /\ UNCHANGED works
       ELSE works' = Append(works, Work(add[p].title)) /\ Continue(p, "external", NewWork)
    /\ UNCHANGED <<external, entry, connected, mark>>

InsertExternalIdMutant(p) ==
    /\ add[p].pc = "external"
    /\ external' = [external EXCEPT ![Tmdb(add[p].title)] = Len(works)]
    /\ Continue(p, "entry", add[p].work)
    /\ UNCHANGED <<works, entry, connected, mark>>
InsertExternalId(p) ==
    /\ add[p].pc = "external"
    /\ IF external[Tmdb(add[p].title)] # 0
       THEN Abort(p) /\ UNCHANGED external
       ELSE /\ external' = [external EXCEPT ![Tmdb(add[p].title)] = add[p].work]
            /\ Continue(p, "entry", add[p].work)
    /\ UNCHANGED <<works, entry, connected, mark>>

\* addMovie inserts or updates by TMDB id, and stores no external id.
UpsertMovie(p, u, t) ==
    /\ add[p].pc = "idle" /\ kind[t] = "movie"
    /\ \/ /\ WithTmdbId(tmdbId[t]) = {}
          /\ works' = Append(works, Work(t))
          /\ add' = [add EXCEPT ![p] = [pc |-> "entry", owners |-> {u},
                                        title |-> t, work |-> NewWork]]
       \/ \E w \in WithTmdbId(tmdbId[t]) :
            /\ works' = [works EXCEPT ![w].title = t]
            /\ add' = [add EXCEPT ![p] = [pc |-> "entry", owners |-> {u},
                                          title |-> t, work |-> w]]
    /\ UNCHANGED <<external, entry, connected, mark>>

\* The kind of a custom work is read by nothing that matters here.
InsertCustom(p, u) ==
    /\ add[p].pc = "idle"
    /\ works' = Append(works, [title |-> Custom, kind |-> None, tmdb |-> None])
    /\ add' = [add EXCEPT ![p] = [pc |-> "entry", owners |-> {u},
                                  title |-> Custom, work |-> NewWork]]
    /\ UNCHANGED <<external, entry, connected, mark>>

\* An entry that is there already is left alone.
Listed(p, w) ==
    entry' = [u \in Users |->
                IF u \in add[p].owners /\ entry[u][w] = None
                THEN [entry[u] EXCEPT ![w] = "unwatched"]
                ELSE entry[u]]

InsertEntry(p) ==
    LET w == add[p].work IN
    /\ add[p].pc = "entry"
    /\ Listed(p, w)
    /\ IF \A u \in add[p].owners : entry[u][w] = None
       THEN Finish(p, w) ELSE Continue(p, "existing", w)
    /\ UNCHANGED <<works, external, connected, mark>>

\* The entry that was in the way is read back, and may have been removed since.
ReadExisting(p) ==
    LET w == add[p].work IN
    /\ add[p].pc = "existing"
    /\ IF \A u \in add[p].owners : entry[u][w] # None THEN Finish(p, w) ELSE Abort(p)
    /\ UNCHANGED <<works, external, entry, connected, mark>>

\* The writes of addToWatchlist become visible together, for every owner.
AddToWatchlist(p) ==
    LET t == add[p].title IN
    /\ add[p].pc = "commit"
    /\ IF add[p].work # 0
       THEN Listed(p, add[p].work) /\ Finish(p, add[p].work)
            /\ UNCHANGED <<works, external>>
       ELSE IF WithTmdbId(tmdbId[t]) # {} \/ external[Tmdb(t)] # 0
       THEN Abort(p) /\ UNCHANGED <<works, external, entry>>
       ELSE /\ works' = Append(works, Work(t))
            /\ external' = [external EXCEPT ![Tmdb(t)] = NewWork]
            /\ Listed(p, NewWork) /\ Finish(p, NewWork)
    /\ UNCHANGED <<connected, mark>>

\* The process ends between two statements.
Crash(p) ==
    /\ add[p].pc \in {"insert", "external", "entry", "existing", "commit"}
    /\ Abort(p)
    /\ UNCHANGED <<works, external, entry, connected, mark>>
-----------------------------------------------------------------------------
(* The list's own operations                                               *)

UpdateStatus(u, w, st) ==
    /\ entry[u][w] # None
    /\ entry' = [entry EXCEPT ![u][w] = st]
    /\ UNCHANGED <<works, external, connected, add, mark>>

\* A markWatched call that has read the entry updates it by its id, which no row has now,
\* even if the work is added again.
Remove(u, w) ==
    /\ entry[u][w] # None
    /\ entry' = [entry EXCEPT ![u][w] = None]
    /\ mark' = [m \in Marks |-> IF mark[m] = [pc |-> "update", user |-> u, work |-> w]
                               THEN NoMark ELSE mark[m]]
    /\ UNCHANGED <<works, external, connected, add>>
-----------------------------------------------------------------------------
(* The Stremio addon                                                       *)

Connect(u) ==
    /\ connected' = connected \cup {u}
    /\ UNCHANGED <<works, external, entry, add, mark>>

Disconnect(u) ==
    /\ connected' = connected \ {u}
    /\ UNCHANGED <<works, external, entry, add, mark>>

\* The IMDb id TMDB gives for a work; it identifies the title.
ImdbId(w) == CHOOSE i \in {"imdb"} \X Titles :
               kind[i[2]] = works[w].kind /\ tmdbId[i[2]] = works[w].tmdb

\* A catalog answer resolves the IMDb id of an entry that has a TMDB id but no IMDb id, and
\* inserts it unless another answer has.  TMDB may have no id or fail, and so may the insert;
\* the entry is then listed under an id that no row has.
ListInCatalogMutant(u, w) ==
    /\ u \in connected /\ entry[u][w] # None /\ works[w].tmdb # None
    /\ \E v \in DOMAIN works :
         /\ entry[u][v] # None /\ works[v].tmdb # None
         /\ external' = [external EXCEPT ![ImdbId(v)] = IF @ = 0 THEN w ELSE @]
    /\ UNCHANGED <<works, entry, connected, add, mark>>
ListInCatalog(u, w) ==
    /\ u \in connected /\ entry[u][w] # None /\ works[w].tmdb # None
    /\ \/ external' = [external EXCEPT ![ImdbId(w)] = IF @ = 0 THEN w ELSE @]
       \/ UNCHANGED external
    /\ UNCHANGED <<works, entry, connected, add, mark>>

\* markWatched finds the entry by the IMDb id...
Action(m, u, t) ==
    LET w == external[<<"imdb", t>>] IN
    /\ mark[m].pc = "idle" /\ u \in connected
    /\ w # 0 /\ entry[u][w] # None
    /\ mark' = [mark EXCEPT ![m] = IF entry[u][w] = "watched" THEN NoMark
                                    ELSE [pc |-> "update", user |-> u, work |-> w]]
    /\ UNCHANGED <<works, external, entry, connected, add>>

\* ...and updates it, unless it has been removed.
MarkWatched(m) ==
    /\ mark[m].pc = "update"
    /\ entry' = [entry EXCEPT ![mark[m].user][mark[m].work] = "watched"]
    /\ mark' = [mark EXCEPT ![m] = NoMark]
    /\ UNCHANGED <<works, external, connected, add>>
-----------------------------------------------------------------------------
Start(p) ==
    \E u \in Users :
       \/ "work" \in Routes /\ \E t \in Titles : LookupWork(p, "work", {u}, t)
       \/ "movie" \in Routes /\ \E t \in Titles : UpsertMovie(p, u, t)
       \/ "custom" \in Routes /\ InsertCustom(p, u)
StartPipeline(p) ==
    /\ "pipeline" \in Routes
    /\ \E owners \in SUBSET Users \ {{}}, t \in Titles : LookupWork(p, "pipeline", owners, t)
AddStep(p) ==
    \/ InsertWork(p) \/ InsertExternalId(p) \/ InsertEntry(p) \/ ReadExisting(p)
    \/ AddToWatchlist(p) \/ Crash(p)
ListStep(u) ==
    \E w \in DOMAIN works :
       Remove(u, w) \/ ListInCatalog(u, w) \/ \E st \in Statuses : UpdateStatus(u, w, st)

Next ==
    \/ \E p \in Adds : Start(p) \/ StartPipeline(p) \/ AddStep(p)
    \/ \E u \in Users : ListStep(u) \/ Connect(u) \/ Disconnect(u)
    \/ \E m \in Marks : MarkWatched(m) \/ \E u \in Users, t \in Titles : Action(m, u, t)

Spec == Init /\ [][Next]_vars
-----------------------------------------------------------------------------
(* Properties                                                              *)

\* A request that succeeds has put the title it was made for on the list, whatever other
\* requests store in the meantime (repository.ts:37-53, pipeline-store.ts:161-174).
ChosenTitle == \A p \in Adds : add[p].pc = "ok" => works[add[p].work].title = add[p].title

\* The work a succeeding request has put on the list has the TMDB number of its title, and is
\* of this very title unless one of the other kind has the same number; a custom work is one
\* (repository.ts:20-53, 158-165, pipeline-store.ts:161-174).
SharesNumber(t) == \E s \in Titles \ {t} : tmdbId[s] = tmdbId[t]
ChosenButForClashes ==
    \A p \in Adds : add[p].pc = "ok" =>
      LET w == works[add[p].work]  t == add[p].title IN
      \/ w.title = t
      \/ t # Custom /\ SharesNumber(t) /\ w.tmdb = tmdbId[t]

\* A title of TMDB has one row in works, whichever handlers and pipeline runs add it at the
\* same time and in whatever way (repository.ts:22-28, 42-48): lists, detail pages and the
\* cache all mean the same work by it.
OneWorkPerTitle ==
    \A v, w \in DOMAIN works : works[v].title = works[w].title /\ v # w => works[v].title = Custom

\* A stored IMDb id leads to a work of its own kind and TMDB number, so that what is marked in
\* Stremio is never another title's entry: in whatever order the answers of several users
\* store ids, and whatever additions and renamings come in between (stremio.ts:131-141,
\* 164-177, repository.ts:22-28).
MarkedIsMeant ==
    \A t \in Titles : LET w == external[<<"imdb", t>>] IN
      w # 0 => /\ w \in DOMAIN works
               /\ works[w].kind = kind[t] /\ works[w].tmdb = tmdbId[t]
=============================================================================
