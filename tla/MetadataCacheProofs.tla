------------------------ MODULE MetadataCacheProofs ------------------------
(***************************************************************************)
(* The metadata cache, for any requests and seasons.                       *)
(***************************************************************************)
EXTENDS MetadataCache, TLAPS

Metadata == [version : {Version - 1, Version}, names : SUBSET Seasons, seasons : SUBSET Seasons]

\* What the constants have to be.
Parameters == Version \in Nat \ {0} /\ Nothing \notin Metadata \cup {"ok", "error"}

Types ==
    /\ aired \in SUBSET Seasons
    /\ cached \in Metadata \cup {Nothing}
    /\ details \in [Requests -> {"idle", "lookup", "fetch", "seasons", "have", "failed"}]
    /\ providers \in [Requests -> {"idle", "asked", "have", "refused", "failed"}]
    /\ fetched \in [Requests -> SUBSET Seasons]
    /\ names \in [Requests -> SUBSET Seasons]
    /\ answer \in [Requests -> {Nothing, "ok", "error"}]
    /\ known \in SUBSET Requests

\* What is stored is whole, and stays; a request that has its details has all of them.
Stored == Current(cached) => cached.seasons = cached.names
RequestInv(r) ==
    /\ details[r] = "have" => Current(cached) /\ fetched[r] = names[r]
    /\ answer[r] = "ok" => details[r] = "have"
    /\ r \in known => Current(cached) /\ details[r] \notin {"fetch", "seasons"}
Inv == Types /\ Stored /\ \A r \in Requests : RequestInv(r)

LEMMA InitInv == ASSUME Parameters, MetadataInit PROVE Inv
<1>1. Types
  BY DEF Parameters, MetadataInit, Types, Metadata
<1>2. Stored
  BY DEF Parameters, MetadataInit, Stored, Current
<1>3. ASSUME NEW r \in Requests PROVE RequestInv(r)
  BY DEF Parameters, MetadataInit, RequestInv
<1> QED
  BY <1>1, <1>2, <1>3 DEF Inv

\* A step that leaves the cache alone.
LEMMA SameCache ==
  ASSUME Parameters, Inv, cached' = cached, Types',
         \A r \in Requests :
            /\ details'[r] = "have" => Current(cached) /\ fetched'[r] = names'[r]
            /\ answer'[r] = "ok" => details'[r] = "have"
            /\ r \in known' => Current(cached) /\ details'[r] \notin {"fetch", "seasons"}
  PROVE  Inv'
BY DEF Inv, Stored, RequestInv, Current

LEMMA BeginKeeps == ASSUME Parameters, Inv, NEW r \in Requests, Begin(r) PROVE Inv'
<1>1. Types'
  BY DEF Inv, Types, Begin
<1>2. (\E q \in Requests : details[q] = "have") => Current(cached)
  BY DEF Inv, RequestInv
<1>3. \A q \in Requests : details'[q] = IF q = r THEN "lookup" ELSE details[q]
  BY DEF Inv, Types, Begin
<1>4. \A q \in Requests : q \in known' => q \in known \/ (q = r /\ Current(cached))
  BY <1>2 DEF Begin
<1>5. ASSUME NEW q \in Requests
      PROVE  /\ details'[q] = "have" => Current(cached) /\ fetched'[q] = names'[q]
             /\ answer'[q] = "ok" => details'[q] = "have"
             /\ q \in known' => Current(cached) /\ details'[q] \notin {"fetch", "seasons"}
  BY <1>3, <1>4, <1>5 DEF Inv, RequestInv, Begin
<1> QED
  BY <1>1, <1>5, SameCache DEF Begin
\* A hit has what is stored; a miss has nothing stored, so nobody came knowing of it.
LEMMA LookupKeeps == ASSUME Parameters, Inv, NEW r \in Requests, Lookup(r) PROVE Inv'
<1>1. /\ cached' = cached /\ answer' = answer /\ known' = known /\ aired' = aired
      /\ providers' = [providers EXCEPT ![r] = "asked"] /\ details[r] = "lookup"
  BY DEF Lookup
<1>2. CASE Current(cached)
  <2>1. /\ details' = [details EXCEPT ![r] = "have"]
        /\ names' = [names EXCEPT ![r] = cached.names]
        /\ fetched' = [fetched EXCEPT ![r] = cached.seasons]
        /\ cached.names = cached.seasons /\ cached.names \in SUBSET Seasons
    BY <1>2 DEF Lookup, Inv, Stored, Types, Current, Metadata
  <2>2. Types'
    BY <1>1, <2>1 DEF Inv, Types
  <2>3. ASSUME NEW q \in Requests
        PROVE  /\ details'[q] = "have" => Current(cached) /\ fetched'[q] = names'[q]
               /\ answer'[q] = "ok" => details'[q] = "have"
               /\ q \in known' => Current(cached) /\ details'[q] \notin {"fetch", "seasons"}
    BY <1>1, <1>2, <2>1 DEF Inv, Types, RequestInv
  <2> QED
    BY <1>1, <2>2, <2>3, SameCache
<1>3. CASE ~Current(cached)
  <2>1. details' = [details EXCEPT ![r] = "fetch"] /\ names' = names /\ fetched' = fetched
    BY <1>3 DEF Lookup
  <2>2. Types'
    BY <1>1, <2>1 DEF Inv, Types
  <2>3. ASSUME NEW q \in Requests
        PROVE  /\ details'[q] = "have" => Current(cached) /\ fetched'[q] = names'[q]
               /\ answer'[q] = "ok" => details'[q] = "have"
               /\ q \in known' => Current(cached) /\ details'[q] \notin {"fetch", "seasons"}
    BY <1>1, <1>3, <2>1 DEF Inv, Types, RequestInv
  <2> QED
    BY <1>1, <2>2, <2>3, SameCache
<1> QED
  BY <1>2, <1>3

LEMMA FetchKeeps ==
  ASSUME Parameters, Inv, NEW r \in Requests,
         FetchDetails(r) \/ FailDetails(r) \/ \E s \in Seasons : FetchSeason(r, s)
  PROVE  Inv'
<1>1. CASE FetchDetails(r)
  <2>1. Types'
    BY <1>1 DEF Inv, Types, FetchDetails
  <2>2. ASSUME NEW q \in Requests
        PROVE  /\ details'[q] = "have" => Current(cached) /\ fetched'[q] = names'[q]
               /\ answer'[q] = "ok" => details'[q] = "have"
               /\ q \in known' => Current(cached) /\ details'[q] \notin {"fetch", "seasons"}
    BY <1>1 DEF Inv, Types, RequestInv, FetchDetails
  <2> QED
    BY <1>1, <2>1, <2>2, SameCache DEF FetchDetails
<1>2. CASE FailDetails(r)
  <2>1. Types'
    BY <1>2 DEF Inv, Types, FailDetails, Told
  <2>2. ASSUME NEW q \in Requests
        PROVE  /\ details'[q] = "have" => Current(cached) /\ fetched'[q] = names'[q]
               /\ answer'[q] = "ok" => details'[q] = "have"
               /\ q \in known' => Current(cached) /\ details'[q] \notin {"fetch", "seasons"}
    BY <1>2 DEF Inv, Types, RequestInv, FailDetails, Told
  <2> QED
    BY <1>2, <2>1, <2>2, SameCache DEF FailDetails
<1>3. ASSUME NEW s \in Seasons, FetchSeason(r, s) PROVE Inv'
  <2>1. Types'
    BY <1>3 DEF Inv, Types, FetchSeason
  <2>2. ASSUME NEW q \in Requests
        PROVE  /\ details'[q] = "have" => Current(cached) /\ fetched'[q] = names'[q]
               /\ answer'[q] = "ok" => details'[q] = "have"
               /\ q \in known' => Current(cached) /\ details'[q] \notin {"fetch", "seasons"}
    BY <1>3 DEF Inv, Types, RequestInv, FetchSeason
  <2> QED
    BY <1>3, <2>1, <2>2, SameCache DEF FetchSeason
<1> QED
  BY <1>1, <1>2, <1>3

\* What is stored is whole, whoever stored before.
LEMMA PutKeeps == ASSUME Parameters, Inv, NEW r \in Requests, Put(r) PROVE Inv'
<1>1. /\ cached' = [version |-> Version, names |-> names[r], seasons |-> fetched[r]]
      /\ details' = [details EXCEPT ![r] = "have"] /\ names[r] = fetched[r]
      /\ aired' = aired /\ providers' = providers /\ fetched' = fetched /\ names' = names
      /\ answer' = answer /\ known' = known
  BY DEF Put, Store
<1>2. cached' \in Metadata
  BY <1>1 DEF Inv, Types, Metadata
<1>3. Current(cached')
  BY <1>1, <1>2 DEF Parameters, Current
<1>4. Types'
  BY <1>1, <1>2 DEF Inv, Types
<1>5. Stored'
  BY <1>1 DEF Stored
<1>6. ASSUME NEW q \in Requests PROVE RequestInv(q)'
  BY <1>1, <1>3 DEF Inv, Types, RequestInv, Current
<1> QED
  BY <1>4, <1>5, <1>6 DEF Inv

LEMMA AnswerKeeps ==
  ASSUME Parameters, Inv, NEW r \in Requests, AskProviders(r) \/ Answer(r)
  PROVE  Inv'
<1>1. /\ cached' = cached /\ known' = known /\ details' = details /\ fetched' = fetched
      /\ names' = names /\ aired' = aired
  BY DEF AskProviders, Answer
<1>2. Types'
  BY <1>1 DEF Inv, Types, AskProviders, Answer, Told
<1>3. \A q \in Requests : answer'[q] = "ok" => answer[q] = "ok" \/ details[q] = "have"
  BY DEF Inv, Types, AskProviders, Answer, Told
<1>4. ASSUME NEW q \in Requests
      PROVE  /\ details'[q] = "have" => Current(cached) /\ fetched'[q] = names'[q]
             /\ answer'[q] = "ok" => details'[q] = "have"
             /\ q \in known' => Current(cached) /\ details'[q] \notin {"fetch", "seasons"}
  BY <1>1, <1>3 DEF Inv, RequestInv
<1> QED
  BY <1>1, <1>2, <1>4, SameCache

LEMMA AirKeeps == ASSUME Inv, Air PROVE Inv'
BY DEF Air, Inv, Types, Stored, RequestInv, Current

LEMMA StutterKeeps == ASSUME Inv, UNCHANGED metaVars PROVE Inv'
BY DEF metaVars, Inv, Types, Stored, RequestInv, Current

LEMMA NextKeeps == ASSUME Parameters, Inv, [MetadataNext]_metaVars PROVE Inv'
BY BeginKeeps, LookupKeeps, FetchKeeps, PutKeeps, AnswerKeeps, AirKeeps, StutterKeeps
   DEF MetadataNext

\* Neither the cache nor a client ever gets a title with a season missing, for any number
\* of requests and seasons and wherever they fail (catalog.ts:136-144).
THEOREM CacheWhole == ASSUME Parameters PROVE MetadataSpec => []SeasonsComplete
<1>1. MetadataInit => Inv
  BY InitInv
<1>2. Inv /\ [MetadataNext]_metaVars => Inv'
  BY NextKeeps
<1>3. Inv => SeasonsComplete
  BY DEF Inv, Stored, RequestInv, Current, SeasonsComplete
<1> QED
  BY <1>1, <1>2, <1>3, PTL DEF MetadataSpec

\* A title whose details a request has stored is not fetched by those that come later
\* (catalog.ts:131-140, catalog-metadata-cache.ts:21-26).
THEOREM NoSecondFetch == ASSUME Parameters PROVE MetadataSpec => []FetchedOnce
<1>1. MetadataInit => Inv
  BY InitInv
<1>2. Inv /\ [MetadataNext]_metaVars => Inv'
  BY NextKeeps
<1>3. Inv => FetchedOnce
  BY DEF Inv, Types, RequestInv, FetchedOnce
<1> QED
  BY <1>1, <1>2, <1>3, PTL DEF MetadataSpec
=============================================================================
