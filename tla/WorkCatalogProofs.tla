------------------------- MODULE WorkCatalogProofs -------------------------
(***************************************************************************)
(* Works, their external ids and the requests that add them, for any       *)
(* users, titles and requests.                                             *)
(***************************************************************************)
EXTENDS WorkCatalog, TLAPS

Ids == {tmdbId[t] : t \in Titles}
Rows == [title : Titles \cup {Custom}, kind : {"movie", "series", None}, tmdb : Ids \cup {None}]
Pcs == {"idle", "insert", "external", "entry", "existing", "commit", "ok", "failed"}
AddRows == [pc : Pcs, owners : SUBSET Users, title : Titles \cup {Custom, None}, work : Nat]

\* A work's number is its title's and, with its kind, that of a title for ever.
Sound(r) ==
    /\ \/ r.title = Custom /\ r.tmdb = None
       \/ r.title \in Titles /\ r.tmdb = tmdbId[r.title]
    /\ r.tmdb # None => \E t \in Titles : kind[t] = r.kind /\ tmdbId[t] = r.tmdb
WorksInv ==
    /\ works \in Seq(Rows)
    /\ \A w \in DOMAIN works : Sound(works[w])
    /\ \A v, w \in DOMAIN works : works[v].tmdb = works[w].tmdb /\ works[v].tmdb # None => v = w
AddsInv ==
    /\ add \in [Adds -> AddRows] /\ external \in [ExternalIds -> Nat]
    /\ \A p \in Adds : add[p].pc \in {"insert", "external", "commit"} => add[p].title \in Titles

\* The ways a step may leave the works, and what all of them have in common.
NewTitle(t) == WithTmdbId(tmdbId[t]) = {} /\ works' = Append(works, Work(t))
NewCustom == works' = Append(works, [title |-> Custom, kind |-> None, tmdb |-> None])
Renamed(w, t) == w \in WithTmdbId(tmdbId[t]) /\ works' = [works EXCEPT ![w].title = t]
Kept ==
    \A w \in DOMAIN works : /\ w \in DOMAIN works'
                            /\ works'[w].tmdb = works[w].tmdb /\ works'[w].kind = works[w].kind

LEMMA Appended ==
  ASSUME NEW S, NEW s \in Seq(S), NEW x \in S
  PROVE  /\ Append(s, x) \in Seq(S) /\ DOMAIN Append(s, x) = DOMAIN s \cup {Len(s) + 1}
         /\ Append(s, x)[Len(s) + 1] = x /\ Len(s) + 1 \notin DOMAIN s /\ Len(s) \in Nat
         /\ \A w \in DOMAIN s : Append(s, x)[w] = s[w]
  OBVIOUS

LEMMA WorkRow ==
  ASSUME NEW t \in Titles
  PROVE  /\ Work(t) \in Rows /\ Work(t).title = t /\ Work(t).tmdb = tmdbId[t]
         /\ Work(t).kind = kind[t] /\ Sound(Work(t)) /\ tmdbId[t] # None
BY TitlesAssumption DEF Work, Rows, Ids, Sound

LEMMA NewTitleKeeps == ASSUME WorksInv, NEW t \in Titles, NewTitle(t) PROVE WorksInv' /\ Kept
<1>1. /\ works' \in Seq(Rows) /\ DOMAIN works' = DOMAIN works \cup {Len(works) + 1}
      /\ works'[Len(works) + 1] = Work(t) /\ Len(works) + 1 \notin DOMAIN works
      /\ \A w \in DOMAIN works : works'[w] = works[w]
  BY Appended, WorkRow DEF WorksInv, NewTitle
<1>2. \A w \in DOMAIN works : works[w].tmdb # tmdbId[t]
  BY DEF NewTitle, WithTmdbId
<1> QED
  BY <1>1, <1>2, WorkRow DEF WorksInv, Kept

LEMMA NewCustomKeeps == ASSUME WorksInv, NewCustom PROVE WorksInv' /\ Kept
<1> DEFINE c == [title |-> Custom, kind |-> None, tmdb |-> None]
<1>1. c \in Rows /\ c.tmdb = None /\ Sound(c)
  <2>1. c.title = Custom /\ c.tmdb = None
    OBVIOUS
  <2>2. c \in Rows
    BY DEF Rows
  <2> QED
    BY <2>1, <2>2 DEF Sound
<1> HIDE DEF c
<1>2. /\ works' \in Seq(Rows) /\ DOMAIN works' = DOMAIN works \cup {Len(works) + 1}
      /\ works'[Len(works) + 1] = c /\ Len(works) + 1 \notin DOMAIN works
      /\ \A w \in DOMAIN works : works'[w] = works[w]
  BY <1>1, Appended DEF WorksInv, NewCustom, c
<1> QED
  BY <1>1, <1>2 DEF WorksInv, Kept

\* What an upsert by number changes in a work.
LEMMA RenamedRow ==
  ASSUME WorksInv, NEW t \in Titles, NEW w, Renamed(w, t)
  PROVE  /\ works' \in Seq(Rows) /\ DOMAIN works' = DOMAIN works /\ w \in DOMAIN works
         /\ works'[w].title = t /\ works'[w].tmdb = works[w].tmdb
         /\ works'[w].kind = works[w].kind /\ works[w].tmdb = tmdbId[t]
         /\ \A v \in DOMAIN works : v # w => works'[v] = works[v]
<1>1. w \in DOMAIN works /\ works[w].tmdb = tmdbId[t] /\ works[w] \in Rows
  BY DEF Renamed, WithTmdbId, WorksInv
<1>2. works' = [works EXCEPT ![w] = [works[w] EXCEPT !.title = t]]
  BY DEF Renamed
<1>3. [works[w] EXCEPT !.title = t] \in Rows
  BY <1>1 DEF Rows
<1>4. works' \in Seq(Rows) /\ DOMAIN works' = DOMAIN works
  BY <1>1, <1>2, <1>3 DEF WorksInv
<1>5. works'[w] = [works[w] EXCEPT !.title = t]
  BY <1>1, <1>2 DEF WorksInv
<1> QED
  BY <1>1, <1>2, <1>4, <1>5 DEF WorksInv, Rows

LEMMA RenamedKeeps == ASSUME WorksInv, NEW t \in Titles, NEW w, Renamed(w, t) PROVE WorksInv' /\ Kept
<1>1. Sound(works[w])
  BY RenamedRow DEF WorksInv
<1>2. Sound(works'[w])
  BY <1>1, RenamedRow DEF Sound
<1> QED
  BY <1>2, RenamedRow DEF WorksInv, Kept

LEMMA SameKeeps == ASSUME WorksInv, UNCHANGED works PROVE WorksInv' /\ Kept
BY DEF WorksInv, Kept

LEMMA TmdbId == ASSUME NEW t \in Titles PROVE Tmdb(t) \in ExternalIds /\ <<"imdb", t>> \in ExternalIds
BY DEF Tmdb, ExternalIds

LEMMA AddKeeps ==
  ASSUME AddsInv, NEW p \in Adds, NEW r \in AddRows, add' = [add EXCEPT ![p] = r],
         r.pc \in {"insert", "external", "commit"} => r.title \in Titles,
         external' \in [ExternalIds -> Nat]
  PROVE  AddsInv'
BY DEF AddsInv

LEMMA ContinueKeeps ==
  ASSUME AddsInv, NEW p \in Adds, NEW pc \in Pcs, NEW w \in Nat, Continue(p, pc, w),
         pc \in {"insert", "external", "commit"} => add[p].title \in Titles,
         external' \in [ExternalIds -> Nat]
  PROVE  AddsInv'
<1> DEFINE r == [add[p] EXCEPT !.pc = pc, !.work = w]
<1>1. r \in AddRows /\ r.pc = pc /\ r.title = add[p].title
  BY DEF AddsInv, AddRows
<1>2. add' = [add EXCEPT ![p] = r]
  BY DEF Continue
<1> HIDE DEF r
<1> QED
  BY <1>1, <1>2, AddKeeps

LEMMA FinishKeeps ==
  ASSUME AddsInv, NEW p \in Adds, NEW w \in Nat, Finish(p, w), external' \in [ExternalIds -> Nat]
  PROVE  AddsInv'
<1> DEFINE r == [add[p] EXCEPT !.pc = "ok", !.owners = {}, !.work = w]
<1>1. r \in AddRows /\ r.pc = "ok"
  BY DEF AddsInv, AddRows, Pcs
<1>2. add' = [add EXCEPT ![p] = r]
  BY DEF Finish
<1> HIDE DEF r
<1> QED
  BY <1>1, <1>2, AddKeeps

LEMMA AbortKeeps ==
  ASSUME AddsInv, NEW p \in Adds, Abort(p), UNCHANGED external PROVE AddsInv'
<1> DEFINE r == [Idle EXCEPT !.pc = "failed"]
<1>1. r \in AddRows /\ r.pc = "failed"
  BY DEF Idle, AddRows, Pcs
<1>2. add' = [add EXCEPT ![p] = r]
  BY DEF Abort
<1> HIDE DEF r
<1> QED
  BY <1>1, <1>2, AddKeeps DEF AddsInv
\* The first step of a request.
LEMMA LookupWorkKeeps ==
  ASSUME WorksInv, AddsInv, NEW p \in Adds, NEW route, NEW owners \in SUBSET Users,
         NEW t \in Titles, LookupWork(p, route, owners, t)
  PROVE  WorksInv' /\ Kept /\ AddsInv'
<1> DEFINE pc == CASE route = "pipeline" -> "commit"
                   [] external[Tmdb(t)] # 0 -> "entry"
                   [] OTHER -> "insert"
           r == [pc |-> pc, owners |-> owners, title |-> t, work |-> external[Tmdb(t)]]
<1>1. pc \in Pcs
  BY DEF Pcs
<1>2. external[Tmdb(t)] \in Nat
  BY TmdbId DEF AddsInv
<1> HIDE DEF pc
<1>3. r \in AddRows /\ r.title = t
  BY <1>1, <1>2 DEF AddRows
<1>4. add' = [add EXCEPT ![p] = r] /\ UNCHANGED <<works, external>>
  BY DEF LookupWork, pc
<1> HIDE DEF r
<1> QED
  BY <1>3, <1>4, AddKeeps, SameKeeps DEF AddsInv

LEMMA UpsertMovieKeeps ==
  ASSUME WorksInv, AddsInv, NEW p \in Adds, NEW u \in Users, NEW t \in Titles, UpsertMovie(p, u, t)
  PROVE  WorksInv' /\ Kept /\ AddsInv'
<1> DEFINE r(w) == [pc |-> "entry", owners |-> {u}, title |-> t, work |-> w]
<1>1. \A w \in Nat : r(w) \in AddRows /\ r(w).pc = "entry"
  BY DEF AddRows, Pcs
<1>2. \/ NewTitle(t) /\ add' = [add EXCEPT ![p] = r(NewWork)]
      \/ \E w \in DOMAIN works : Renamed(w, t) /\ add' = [add EXCEPT ![p] = r(w)]
  BY DEF UpsertMovie, NewTitle, Renamed, WithTmdbId
<1>3. external' \in [ExternalIds -> Nat]
  BY DEF UpsertMovie, AddsInv
<1>4. NewWork \in Nat /\ DOMAIN works \subseteq Nat
  BY DEF NewWork, WorksInv
<1> HIDE DEF r
<1> QED
  BY <1>1, <1>2, <1>3, <1>4, NewTitleKeeps, RenamedKeeps, AddKeeps

LEMMA InsertCustomKeeps ==
  ASSUME WorksInv, AddsInv, NEW p \in Adds, NEW u \in Users, InsertCustom(p, u)
  PROVE  WorksInv' /\ Kept /\ AddsInv'
<1> DEFINE r == [pc |-> "entry", owners |-> {u}, title |-> Custom, work |-> NewWork]
<1>1. NewWork \in Nat
  BY DEF NewWork, WorksInv
<1>2. r \in AddRows /\ r.pc = "entry"
  BY <1>1 DEF AddRows, Pcs
<1>3. NewCustom /\ add' = [add EXCEPT ![p] = r] /\ UNCHANGED external
  BY DEF InsertCustom, NewCustom
<1> HIDE DEF r
<1> QED
  BY <1>2, <1>3, NewCustomKeeps, AddKeeps DEF AddsInv

\* The later ones.
LEMMA AddStepKeeps ==
  ASSUME WorksInv, AddsInv, NEW p \in Adds, AddStep(p) PROVE WorksInv' /\ Kept /\ AddsInv'
<1>1. add[p].work \in Nat /\ NewWork \in Nat /\ external \in [ExternalIds -> Nat]
  BY DEF AddsInv, AddRows, NewWork, WorksInv
<1>2. ASSUME InsertWork(p) PROVE WorksInv' /\ Kept /\ AddsInv'
  <2>1. add[p].title \in Titles /\ UNCHANGED external
    BY <1>2 DEF InsertWork, AddsInv
  <2>2. CASE Abort(p) /\ UNCHANGED works
    BY <2>1, <2>2, AbortKeeps, SameKeeps
  <2>3. CASE NewTitle(add[p].title) /\ Continue(p, "external", NewWork)
    BY <1>1, <2>1, <2>3, NewTitleKeeps, ContinueKeeps DEF Pcs
  <2> QED
    BY <1>2, <2>2, <2>3 DEF InsertWork, NewTitle
<1>3. ASSUME InsertExternalId(p) PROVE WorksInv' /\ Kept /\ AddsInv'
  <2>1. add[p].title \in Titles /\ UNCHANGED works
    BY <1>3 DEF InsertExternalId, AddsInv
  <2>2. CASE Abort(p) /\ UNCHANGED external
    BY <2>1, <2>2, AbortKeeps, SameKeeps
  <2>3. CASE /\ external' = [external EXCEPT ![Tmdb(add[p].title)] = add[p].work]
             /\ Continue(p, "entry", add[p].work)
    <3>1. external' \in [ExternalIds -> Nat]
      BY <1>1, <2>3
    <3> QED
      BY <1>1, <2>1, <2>3, <3>1, ContinueKeeps, SameKeeps DEF Pcs
  <2> QED
    BY <1>3, <2>2, <2>3 DEF InsertExternalId
<1>4. ASSUME InsertEntry(p) PROVE WorksInv' /\ Kept /\ AddsInv'
  <2>1. UNCHANGED <<works, external>> /\ (Finish(p, add[p].work) \/ Continue(p, "existing", add[p].work))
    BY <1>4 DEF InsertEntry
  <2> QED
    BY <1>1, <2>1, FinishKeeps, ContinueKeeps, SameKeeps DEF Pcs
<1>5. ASSUME ReadExisting(p) PROVE WorksInv' /\ Kept /\ AddsInv'
  <2>1. UNCHANGED <<works, external>> /\ (Finish(p, add[p].work) \/ Abort(p))
    BY <1>5 DEF ReadExisting
  <2> QED
    BY <1>1, <2>1, FinishKeeps, AbortKeeps, SameKeeps
<1>6. ASSUME AddToWatchlist(p) PROVE WorksInv' /\ Kept /\ AddsInv'
  <2>1. add[p].title \in Titles
    BY <1>6 DEF AddToWatchlist, AddsInv
  <2>2. CASE Finish(p, add[p].work) /\ UNCHANGED <<works, external>>
    BY <1>1, <2>2, FinishKeeps, SameKeeps
  <2>3. CASE Abort(p) /\ UNCHANGED <<works, external>>
    BY <2>3, AbortKeeps, SameKeeps
  <2>4. CASE /\ NewTitle(add[p].title) /\ Finish(p, NewWork)
             /\ external' = [external EXCEPT ![Tmdb(add[p].title)] = NewWork]
    <3>1. external' \in [ExternalIds -> Nat]
      BY <1>1, <2>4
    <3> QED
      BY <1>1, <2>1, <2>4, <3>1, FinishKeeps, NewTitleKeeps
  <2> QED
    BY <1>6, <2>2, <2>3, <2>4 DEF AddToWatchlist, NewTitle
<1>7. ASSUME Crash(p) PROVE WorksInv' /\ Kept /\ AddsInv'
  BY <1>7, AbortKeeps, SameKeeps DEF Crash
<1> QED
  BY <1>2, <1>3, <1>4, <1>5, <1>6, <1>7 DEF AddStep
Inv == WorksInv /\ AddsInv /\ MarkedIsMeant
SameImdb == \A t \in Titles : external'[<<"imdb", t>>] = external[<<"imdb", t>>]

LEMMA ImdbIdIs ==
  ASSUME WorksInv, NEW w \in DOMAIN works, works[w].tmdb # None
  PROVE  \E t \in Titles : /\ ImdbId(w) = <<"imdb", t>>
                           /\ kind[t] = works[w].kind /\ tmdbId[t] = works[w].tmdb
<1>1. PICK t \in Titles : kind[t] = works[w].kind /\ tmdbId[t] = works[w].tmdb
  BY DEF WorksInv, Sound
<1>2. <<"imdb", t>> \in {"imdb"} \X Titles /\ <<"imdb", t>>[2] = t
  OBVIOUS
<1>3. /\ ImdbId(w) \in {"imdb"} \X Titles
      /\ kind[ImdbId(w)[2]] = works[w].kind /\ tmdbId[ImdbId(w)[2]] = works[w].tmdb
  BY <1>1, <1>2 DEF ImdbId
<1> QED
  BY <1>3

LEMMA MarkedKeeps ==
  ASSUME Kept, MarkedIsMeant, SameImdb PROVE MarkedIsMeant'
BY DEF MarkedIsMeant, SameImdb, Kept

LEMMA StartSameImdb == ASSUME NEW p \in Adds, Start(p) \/ StartPipeline(p) PROVE SameImdb
BY DEF Start, StartPipeline, LookupWork, UpsertMovie, InsertCustom, SameImdb

LEMMA AddStepSameImdb == ASSUME AddsInv, NEW p \in Adds, AddStep(p) PROVE SameImdb
<1>1. ASSUME NEW t, NEW w, external' = [external EXCEPT ![Tmdb(t)] = w] PROVE SameImdb
  <2>1. \A s : Tmdb(t) # <<"imdb", s>>
    BY DEF Tmdb
  <2> QED
    BY <1>1, <2>1, TmdbId DEF SameImdb, AddsInv
<1>2. UNCHANGED external => SameImdb
  BY DEF SameImdb
<1>3. CASE InsertWork(p) \/ InsertEntry(p) \/ ReadExisting(p) \/ Crash(p)
  BY <1>2, <1>3 DEF InsertWork, InsertEntry, ReadExisting, Crash
<1>4. CASE InsertExternalId(p)
  BY <1>1, <1>2, <1>4 DEF InsertExternalId
<1>5. CASE AddToWatchlist(p)
  BY <1>1, <1>2, <1>5 DEF AddToWatchlist
<1> QED
  BY <1>3, <1>4, <1>5 DEF AddStep

LEMMA ListInCatalogKeeps ==
  ASSUME Inv, NEW u \in Users, NEW w \in DOMAIN works, ListInCatalog(u, w) PROVE Inv'
<1>1. WorksInv' /\ Kept /\ works[w].tmdb # None /\ works' = works /\ add' = add
  BY SameKeeps DEF ListInCatalog, Inv
<1>2. PICK t \in Titles : /\ ImdbId(w) = <<"imdb", t>>
                          /\ kind[t] = works[w].kind /\ tmdbId[t] = works[w].tmdb
  BY <1>1, ImdbIdIs DEF Inv
<1>3. w \in Nat
  BY DEF Inv, WorksInv
<1>4. /\ external' \in [ExternalIds -> Nat]
      /\ external'[<<"imdb", t>>] \in {w, external[<<"imdb", t>>]}
      /\ \A i \in ExternalIds : i # <<"imdb", t>> => external'[i] = external[i]
  BY <1>2, <1>3, TmdbId DEF ListInCatalog, Inv, AddsInv
<1>5. AddsInv'
  BY <1>1, <1>4 DEF Inv, AddsInv
<1>6. ASSUME NEW s \in Titles, external'[<<"imdb", s>>] # 0
      PROVE  LET v == external'[<<"imdb", s>>] IN
             v \in DOMAIN works /\ works[v].kind = kind[s] /\ works[v].tmdb = tmdbId[s]
  <2>1. CASE external'[<<"imdb", s>>] = external[<<"imdb", s>>]
    BY <1>6, <2>1 DEF Inv, MarkedIsMeant
  <2>2. CASE s = t /\ external'[<<"imdb", s>>] = w
    BY <1>2, <2>2
  <2> QED
    BY <1>4, <2>1, <2>2, TmdbId
<1>7. MarkedIsMeant'
  BY <1>1, <1>6 DEF MarkedIsMeant
<1> QED
  BY <1>1, <1>5, <1>7 DEF Inv

LEMMA NextKeeps == ASSUME Inv, [Next]_vars PROVE Inv'
<1>1. ASSUME UNCHANGED <<works, external, add>> PROVE Inv'
  BY <1>1, SameKeeps, MarkedKeeps DEF Inv, AddsInv, SameImdb
<1>2. ASSUME NEW p \in Adds, Start(p) \/ StartPipeline(p) PROVE Inv'
  <2>1. WorksInv' /\ Kept /\ AddsInv'
    BY <1>2, LookupWorkKeeps, UpsertMovieKeeps, InsertCustomKeeps DEF Start, StartPipeline, Inv
  <2> QED
    BY <1>2, <2>1, StartSameImdb, MarkedKeeps DEF Inv
<1>3. ASSUME NEW p \in Adds, AddStep(p) PROVE Inv'
  BY <1>3, AddStepKeeps, AddStepSameImdb, MarkedKeeps DEF Inv
<1>4. ASSUME NEW u \in Users, ListStep(u) \/ Connect(u) \/ Disconnect(u) PROVE Inv'
  BY <1>1, <1>4, ListInCatalogKeeps DEF ListStep, Remove, UpdateStatus, Connect, Disconnect
<1>5. ASSUME NEW m \in Marks, MarkWatched(m) \/ \E u \in Users, t \in Titles : Action(m, u, t)
      PROVE  Inv'
  BY <1>1, <1>5 DEF MarkWatched, Action
<1> QED
  BY <1>1, <1>2, <1>3, <1>4, <1>5 DEF Next, vars

LEMMA InitHolds == Init => Inv
<1> SUFFICES ASSUME Init PROVE Inv
  OBVIOUS
<1>1. WorksInv
  BY DEF Init, WorksInv
<1>2. Idle \in AddRows /\ Idle.pc = "idle"
  BY DEF Idle, AddRows, Pcs
<1>3. AddsInv
  BY <1>2 DEF Init, AddsInv
<1>4. MarkedIsMeant
  BY TmdbId DEF Init, MarkedIsMeant
<1> QED
  BY <1>1, <1>3, <1>4 DEF Inv

LEMMA InvAlways == Spec => []Inv
<1>1. Inv /\ [Next]_vars => Inv'
  BY NextKeeps
<1> QED
  BY <1>1, InitHolds, PTL DEF Spec

\* Whichever requests and pipeline runs race, and in whatever way each adds it, a title of
\* TMDB never has two rows of works (repository.ts:22-48, pipeline-store.ts:161-170).
THEOREM OneRowPerTitle == Spec => []OneWorkPerTitle
<1>1. Inv => OneWorkPerTitle
  BY TitlesAssumption DEF Inv, WorksInv, Sound, OneWorkPerTitle
<1> QED
  BY <1>1, InvAlways, PTL

\* The id under which Stremio marks an entry leads to a work of its kind and number, with any
\* number of users, additions and catalog requests, and even where TMDB numbers a movie and a
\* series alike (stremio.ts:131-141, 164-177).
THEOREM StremioMarksTheMeant == Spec => []MarkedIsMeant
<1>1. Inv => MarkedIsMeant
  BY DEF Inv
<1> QED
  BY <1>1, InvAlways, PTL
-----------------------------------------------------------------------------
(* The title a request asked for                                           *)

\* The TMDB number of the work a title leads to: a custom one has none.
Number(t) == IF t = Custom THEN None ELSE tmdbId[t]
Linked(t) ==
    LET w == external[Tmdb(t)] IN w # 0 => w \in DOMAIN works /\ works[w].tmdb = tmdbId[t]
\* A request r that has a work has one of its title's number, by the table w.
HasWork(r) == r.pc \in {"external", "entry", "existing", "ok"} \/ (r.pc = "commit" /\ r.work # 0)
Good(r, w) ==
    HasWork(r) => /\ r.title \in Titles \cup {Custom} /\ r.work \in DOMAIN w
                  /\ w[r.work].tmdb = Number(r.title)
ChosenInv == (\A t \in Titles : Linked(t)) /\ (\A p \in Adds : Good(add[p], works))

LEMMA NumberOf == ASSUME NEW t \in Titles PROVE Number(t) = tmdbId[t]
BY TitlesAssumption DEF Number

LEMMA NewTitleKept ==
  ASSUME WorksInv, NEW t \in Titles, NewTitle(t)
  PROVE  NewWork \in DOMAIN works' /\ works'[NewWork].tmdb = tmdbId[t]
BY Appended, WorkRow DEF WorksInv, NewTitle, NewWork

LEMMA NewCustomKept ==
  ASSUME WorksInv, NewCustom
  PROVE  NewWork \in DOMAIN works' /\ works'[NewWork].tmdb = None
<1> DEFINE c == [title |-> Custom, kind |-> None, tmdb |-> None]
<1>1. c \in Rows /\ c.tmdb = None
  BY DEF Rows
<1>2. works' = Append(works, c)
  BY DEF NewCustom
<1> HIDE DEF c
<1> QED
  BY <1>1, <1>2, Appended DEF WorksInv, NewWork

LEMMA ChosenKeeps ==
  ASSUME AddsInv, ChosenInv, Kept, NEW p \in Adds, NEW r, add' = [add EXCEPT ![p] = r],
         Good(r, works'), \A t \in Titles : external'[Tmdb(t)] = external[Tmdb(t)] \/ Linked(t)'
  PROVE  ChosenInv'
<1>1. ASSUME NEW t \in Titles PROVE Linked(t)'
  BY DEF ChosenInv, Linked, Kept
<1>2. ASSUME NEW q \in Adds PROVE Good(add'[q], works')
  <2>1. CASE q = p
    BY <2>1 DEF AddsInv, Good
  <2>2. CASE q # p
    BY <2>2 DEF ChosenInv, AddsInv, Good, Kept
  <2> QED
    BY <2>1, <2>2
<1> QED
  BY <1>1, <1>2 DEF ChosenInv

LEMMA SameChosen ==
  ASSUME ChosenInv, UNCHANGED <<works, add>>, \A t \in Titles : external'[Tmdb(t)] = external[Tmdb(t)]
  PROVE  ChosenInv'
BY DEF ChosenInv, Linked

LEMMA StartChosen ==
  ASSUME Inv, ChosenInv, NEW p \in Adds, Start(p) \/ StartPipeline(p) PROVE ChosenInv'
<1>1. ASSUME NEW route, NEW owners \in SUBSET Users, NEW t \in Titles, LookupWork(p, route, owners, t)
      PROVE  ChosenInv'
  <2> DEFINE pc == CASE route = "pipeline" -> "commit"
                     [] external[Tmdb(t)] # 0 -> "entry"
                     [] OTHER -> "insert"
             r == [pc |-> pc, owners |-> owners, title |-> t, work |-> external[Tmdb(t)]]
  <2>1. add' = [add EXCEPT ![p] = r] /\ UNCHANGED <<works, external>>
    BY <1>1 DEF LookupWork
  <2>2. pc \in {"external", "entry", "existing", "ok"} => external[Tmdb(t)] # 0
    OBVIOUS
  <2> HIDE DEF pc
  <2>3. r.work = external[Tmdb(t)] /\ r.title = t /\ r.pc = pc
    OBVIOUS
  <2> HIDE DEF r
  <2>4. Good(r, works')
    BY <2>1, <2>2, <2>3, NumberOf DEF ChosenInv, Linked, Good, HasWork
  <2>5. Kept
    BY <2>1 DEF Kept
  <2> QED
    BY <2>1, <2>4, <2>5, ChosenKeeps DEF Inv
<1>2. ASSUME NEW u \in Users, NEW t \in Titles, UpsertMovie(p, u, t) PROVE ChosenInv'
  <2> DEFINE r(w) == [pc |-> "entry", owners |-> {u}, title |-> t, work |-> w]
  <2>1. PICK w : /\ add' = [add EXCEPT ![p] = r(w)] /\ UNCHANGED external
                 /\ (NewTitle(t) /\ w = NewWork) \/ Renamed(w, t)
    BY <1>2 DEF UpsertMovie, NewTitle, Renamed
  <2>2. Kept /\ w \in DOMAIN works' /\ works'[w].tmdb = tmdbId[t]
    BY <2>1, NewTitleKeeps, NewTitleKept, RenamedKeeps, RenamedRow DEF Inv
  <2>3. r(w).work = w /\ r(w).title = t
    OBVIOUS
  <2> HIDE DEF r
  <2>4. Good(r(w), works')
    BY <2>2, <2>3, NumberOf DEF Good
  <2> QED
    BY <2>1, <2>2, <2>4, ChosenKeeps DEF Inv
<1>3. ASSUME NEW u \in Users, InsertCustom(p, u) PROVE ChosenInv'
  <2> DEFINE r == [pc |-> "entry", owners |-> {u}, title |-> Custom, work |-> NewWork]
  <2>1. add' = [add EXCEPT ![p] = r] /\ UNCHANGED external /\ NewCustom
    BY <1>3 DEF InsertCustom, NewCustom
  <2>2. r.work = NewWork /\ r.title = Custom
    OBVIOUS
  <2> HIDE DEF r
  <2>3. Good(r, works') /\ Kept
    BY <2>1, <2>2, NewCustomKept, NewCustomKeeps DEF Good, Number, Inv
  <2> QED
    BY <2>1, <2>3, ChosenKeeps DEF Inv
<1> QED
  BY <1>1, <1>2, <1>3 DEF Start, StartPipeline
LEMMA ContinueChosen ==
  ASSUME Inv, ChosenInv, Kept, NEW p \in Adds, NEW pc \in Pcs, NEW w, Continue(p, pc, w),
         add[p].title \in Titles \cup {Custom},
         w \in DOMAIN works' /\ works'[w].tmdb = Number(add[p].title),
         \A t \in Titles : external'[Tmdb(t)] = external[Tmdb(t)] \/ Linked(t)'
  PROVE  ChosenInv'
<1> DEFINE r == [add[p] EXCEPT !.pc = pc, !.work = w]
<1>1. r.work = w /\ r.title = add[p].title
  BY DEF Inv, AddsInv, AddRows
<1>2. add' = [add EXCEPT ![p] = r]
  BY DEF Continue
<1> HIDE DEF r
<1>3. Good(r, works')
  BY <1>1 DEF Good
<1> QED
  BY <1>2, <1>3, ChosenKeeps DEF Inv

LEMMA FinishChosen ==
  ASSUME Inv, ChosenInv, Kept, NEW p \in Adds, NEW w, Finish(p, w),
         add[p].title \in Titles \cup {Custom},
         w \in DOMAIN works' /\ works'[w].tmdb = Number(add[p].title),
         \A t \in Titles : external'[Tmdb(t)] = external[Tmdb(t)] \/ Linked(t)'
  PROVE  ChosenInv'
<1> DEFINE r == [add[p] EXCEPT !.pc = "ok", !.owners = {}, !.work = w]
<1>1. r.work = w /\ r.title = add[p].title
  BY DEF Inv, AddsInv, AddRows
<1>2. add' = [add EXCEPT ![p] = r]
  BY DEF Finish
<1> HIDE DEF r
<1>3. Good(r, works')
  BY <1>1 DEF Good
<1> QED
  BY <1>2, <1>3, ChosenKeeps DEF Inv

LEMMA AbortChosen ==
  ASSUME Inv, ChosenInv, Kept, NEW p \in Adds, Abort(p), UNCHANGED external
  PROVE  ChosenInv'
<1> DEFINE r == [Idle EXCEPT !.pc = "failed"]
<1>1. r.pc = "failed"
  BY DEF Idle
<1>2. add' = [add EXCEPT ![p] = r]
  BY DEF Abort
<1> HIDE DEF r
<1>3. Good(r, works')
  BY <1>1 DEF Good, HasWork
<1> QED
  BY <1>2, <1>3, ChosenKeeps DEF Inv

\* A new external id leads to a work of its number, and no other id changes.
LEMMA NewLink ==
  ASSUME Inv, NEW t \in Titles, NEW w, external' = [external EXCEPT ![Tmdb(t)] = w],
         w \in DOMAIN works' /\ works'[w].tmdb = tmdbId[t]
  PROVE  \A s \in Titles : external'[Tmdb(s)] = external[Tmdb(s)] \/ Linked(s)'
<1> SUFFICES ASSUME NEW s \in Titles PROVE external'[Tmdb(s)] = external[Tmdb(s)] \/ Linked(s)'
  OBVIOUS
<1>1. CASE Tmdb(s) = Tmdb(t)
  <2>1. tmdbId[s] = tmdbId[t]
    BY <1>1 DEF Tmdb
  <2> QED
    BY <1>1, <2>1, TmdbId DEF Linked, Inv, AddsInv
<1>2. CASE Tmdb(s) # Tmdb(t)
  BY <1>2, TmdbId DEF Inv, AddsInv
<1> QED
  BY <1>1, <1>2

LEMMA AddStepChosen ==
  ASSUME Inv, ChosenInv, NEW p \in Adds, AddStep(p) PROVE ChosenInv'
<1>1. HasWork(add[p]) => /\ add[p].title \in Titles \cup {Custom} /\ add[p].work \in DOMAIN works
                         /\ works[add[p].work].tmdb = Number(add[p].title)
  BY DEF ChosenInv, Good
<1>2. UNCHANGED works => Kept
  BY DEF Kept
<1>3. ASSUME InsertWork(p) PROVE ChosenInv'
  <2>1. add[p].title \in Titles /\ UNCHANGED external
    BY <1>3 DEF InsertWork, Inv, AddsInv
  <2>2. CASE Abort(p) /\ UNCHANGED works
    BY <1>2, <2>1, <2>2, AbortChosen
  <2>3. CASE NewTitle(add[p].title) /\ Continue(p, "external", NewWork)
    BY <2>1, <2>3, NewTitleKeeps, NewTitleKept, NumberOf, ContinueChosen DEF Pcs, Inv
  <2> QED
    BY <1>3, <2>2, <2>3 DEF InsertWork, NewTitle
<1>4. ASSUME InsertExternalId(p) PROVE ChosenInv'
  <2>1. /\ add[p].title \in Titles /\ UNCHANGED works
        /\ add[p].work \in DOMAIN works /\ works[add[p].work].tmdb = Number(add[p].title)
    BY <1>1, <1>4 DEF InsertExternalId, Inv, AddsInv, HasWork
  <2>2. CASE Abort(p) /\ UNCHANGED external
    BY <1>2, <2>1, <2>2, AbortChosen
  <2>3. CASE /\ external' = [external EXCEPT ![Tmdb(add[p].title)] = add[p].work]
             /\ Continue(p, "entry", add[p].work)
    BY <1>2, <2>1, <2>3, NumberOf, NewLink, ContinueChosen DEF Pcs
  <2> QED
    BY <1>4, <2>2, <2>3 DEF InsertExternalId
<1>5. ASSUME InsertEntry(p) \/ ReadExisting(p) PROVE ChosenInv'
  <2>1. /\ UNCHANGED <<works, external>>
        /\ add[p].title \in Titles \cup {Custom} /\ add[p].work \in DOMAIN works
        /\ works[add[p].work].tmdb = Number(add[p].title)
        /\ Finish(p, add[p].work) \/ Continue(p, "existing", add[p].work) \/ Abort(p)
    BY <1>1, <1>5 DEF InsertEntry, ReadExisting, HasWork
  <2> QED
    BY <1>2, <2>1, FinishChosen, ContinueChosen, AbortChosen DEF Pcs
<1>6. ASSUME AddToWatchlist(p) PROVE ChosenInv'
  <2>1. add[p].title \in Titles
    BY <1>6 DEF AddToWatchlist, Inv, AddsInv
  <2>2. CASE add[p].work # 0 /\ Finish(p, add[p].work) /\ UNCHANGED <<works, external>>
    BY <1>1, <1>2, <1>6, <2>2, FinishChosen DEF AddToWatchlist, HasWork
  <2>3. CASE Abort(p) /\ UNCHANGED <<works, external>>
    BY <1>2, <2>3, AbortChosen
  <2>4. CASE /\ NewTitle(add[p].title) /\ Finish(p, NewWork)
             /\ external' = [external EXCEPT ![Tmdb(add[p].title)] = NewWork]
    BY <2>1, <2>4, NewTitleKeeps, NewTitleKept, NumberOf, NewLink, FinishChosen DEF Inv
  <2> QED
    BY <1>6, <2>2, <2>3, <2>4 DEF AddToWatchlist, NewTitle
<1>7. ASSUME Crash(p) PROVE ChosenInv'
  BY <1>2, <1>7, AbortChosen DEF Crash
<1> QED
  BY <1>3, <1>4, <1>5, <1>6, <1>7 DEF AddStep

LEMMA NextChosen == ASSUME Inv, ChosenInv, [Next]_vars PROVE ChosenInv'
<1>1. ASSUME UNCHANGED <<works, external, add>> PROVE ChosenInv'
  BY <1>1, SameChosen
<1>2. ASSUME NEW u \in Users, NEW w \in DOMAIN works, ListInCatalog(u, w) PROVE ChosenInv'
  <2>1. PICK t \in Titles : ImdbId(w) = <<"imdb", t>>
    BY <1>2, ImdbIdIs DEF ListInCatalog, Inv
  <2>2. \A s \in Titles : Tmdb(s) # <<"imdb", t>>
    BY DEF Tmdb
  <2>3. \A s \in Titles : external'[Tmdb(s)] = external[Tmdb(s)]
    BY <1>2, <2>1, <2>2, TmdbId DEF ListInCatalog, Inv, AddsInv
  <2> QED
    BY <1>2, <2>3, SameChosen DEF ListInCatalog
<1>3. ASSUME NEW u \in Users, ListStep(u) \/ Connect(u) \/ Disconnect(u) PROVE ChosenInv'
  BY <1>1, <1>2, <1>3 DEF ListStep, Remove, UpdateStatus, Connect, Disconnect
<1>4. ASSUME NEW m \in Marks, MarkWatched(m) \/ \E u \in Users, t \in Titles : Action(m, u, t)
      PROVE  ChosenInv'
  BY <1>1, <1>4 DEF MarkWatched, Action
<1> QED
  BY <1>1, <1>3, <1>4, StartChosen, AddStepChosen DEF Next, vars

\* A request that succeeds has put a work with its title's number on the list, and its very
\* title unless TMDB has given that number to another one as well, whatever requests, runs and
\* crashes come in between (repository.ts:20-53, pipeline-store.ts:161-174).
THEOREM TitleAsChosen == Spec => []ChosenButForClashes
<1>1. Init => ChosenInv
  <2> SUFFICES ASSUME Init PROVE ChosenInv
    OBVIOUS
  <2>1. \A t \in Titles : Linked(t)
    BY TmdbId DEF Init, Linked
  <2>2. ~HasWork(Idle)
    BY DEF HasWork, Idle
  <2> QED
    BY <2>1, <2>2 DEF Init, ChosenInv, Good
<1>2. Inv /\ ChosenInv /\ [Next]_vars => ChosenInv'
  BY NextChosen
<1>3. Inv /\ ChosenInv => ChosenButForClashes
  <2> SUFFICES ASSUME Inv, ChosenInv, NEW p \in Adds, add[p].pc = "ok"
               PROVE  LET w == works[add[p].work]  t == add[p].title IN
                      \/ w.title = t
                      \/ t # Custom /\ SharesNumber(t) /\ w.tmdb = tmdbId[t]
    BY DEF ChosenButForClashes
  <2>1. /\ add[p].title \in Titles \cup {Custom} /\ Sound(works[add[p].work])
        /\ works[add[p].work].tmdb = Number(add[p].title)
    BY DEF ChosenInv, Good, HasWork, Inv, WorksInv
  <2>2. CASE add[p].title = Custom
    BY <2>1, <2>2, TitlesAssumption DEF Number, Sound
  <2>3. CASE add[p].title \in Titles
    BY <2>1, <2>3, NumberOf, TitlesAssumption DEF Sound, SharesNumber
  <2> QED
    BY <2>1, <2>2, <2>3
<1> QED
  BY <1>1, <1>2, <1>3, InvAlways, PTL DEF Spec
=============================================================================
