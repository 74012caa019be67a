--------------------------- MODULE MetadataCache ---------------------------
(***************************************************************************)
(* GET /v1/catalog/streaming for one title of TMDB: its details come from  *)
(* the metadata cache (catalog-metadata-cache.ts), or from TMDB, which     *)
(* lists the seasons and serves each on its own (catalog.ts); where it can *)
(* be streamed is asked every time.                                        *)
(***************************************************************************)
EXTENDS Naturals, FiniteSets

CONSTANTS
    Requests,
    Seasons,    \* the seasons the title may come to have, none for a movie
    Version,    \* metadataVersion, 5 in the code
    Nothing     \* no row, no answer yet

VARIABLES
    aired,      \* TMDB: the title's seasons
    cached,     \* catalog_metadata_cache: the title's row
    details,    \* each request's details: looked up, being fetched, there, or given up
    providers,  \* each request's answer to /watch/providers
    fetched,    \* seasons fetched by each request
    names,      \* seasons the details of each request name
    answer,     \* what each request's client was told
    known       \* history: requests that came when another had its details stored

metaVars == <<aired, cached, details, providers, fetched, names, answer, known>>

\* A row of an earlier version does not have the seasons.
MetadataInit ==
    /\ aired \in SUBSET Seasons
    /\ cached \in {Nothing, [version |-> Version - 1, names |-> aired, seasons |-> {}]}
    /\ details = [r \in Requests |-> "idle"]
    /\ providers = [r \in Requests |-> "idle"]
    /\ fetched = [r \in Requests |-> {}]
    /\ names = [r \in Requests |-> {}]
    /\ answer = [r \in Requests |-> Nothing]
    /\ known = {}

Air == /\ \E s \in Seasons \ aired : aired' = aired \cup {s}
       /\ UNCHANGED <<cached, details, providers, fetched, names, answer, known>>
-----------------------------------------------------------------------------
Current(c) == c # Nothing /\ c.version = Version

Begin(r) ==
    /\ details[r] = "idle"
    /\ details' = [details EXCEPT ![r] = "lookup"]
    /\ known' = IF \E q \in Requests : details[q] = "have"
                THEN known \cup {r} ELSE known
    /\ UNCHANGED <<aired, cached, providers, fetched, names, answer>>

\* The cache is read before TMDB is asked for the details, or for the providers.
Lookup(r) ==
    /\ details[r] = "lookup"
    /\ IF Current(cached)
       THEN /\ details' = [details EXCEPT ![r] = "have"]
            /\ names' = [names EXCEPT ![r] = cached.names]
            /\ fetched' = [fetched EXCEPT ![r] = cached.seasons]
       ELSE /\ details' = [details EXCEPT ![r] = "fetch"]
            /\ UNCHANGED <<names, fetched>>
    /\ providers' = [providers EXCEPT ![r] = "asked"]
    /\ UNCHANGED <<aired, cached, answer, known>>

FetchDetails(r) ==
    /\ details[r] = "fetch"
    /\ details' = [details EXCEPT ![r] = "seasons"]
    /\ names' = [names EXCEPT ![r] = aired]
    /\ UNCHANGED <<aired, cached, providers, fetched, answer, known>>

\* One request per season, all under way at once.
FetchSeason(r, s) ==
    /\ details[r] = "seasons" /\ s \in names[r] \ fetched[r]
    /\ fetched' = [fetched EXCEPT ![r] = @ \cup {s}]
    /\ UNCHANGED <<aired, cached, details, providers, names, answer, known>>

\* The database, or TMDB for the details or a season, refuses or does not answer: the
\* client is told if it still waits.
Told(r, a) == answer' = IF answer[r] = Nothing THEN [answer EXCEPT ![r] = a] ELSE answer
FailDetails(r) ==
    /\ details[r] \in {"lookup", "fetch", "seasons"}
    /\ details' = [details EXCEPT ![r] = "failed"]
    /\ Told(r, "error")
    /\ UNCHANGED <<aired, cached, providers, fetched, names, known>>

\* The upsert, also when the client was told of an error meanwhile.
Store(r, c) ==
    /\ cached' = c
    /\ details' = [details EXCEPT ![r] = "have"]
    /\ UNCHANGED <<aired, providers, fetched, names, answer, known>>
PutEarlyMutant(r) ==
    /\ details[r] = "seasons"
    /\ Store(r, [version |-> Version, names |-> names[r], seasons |-> fetched[r]])
PutMutant(r) ==
    /\ details[r] = "seasons" /\ names[r] = fetched[r]
    /\ Store(r, [version |-> IF cached = Nothing THEN Version ELSE cached.version,
                 names |-> names[r], seasons |-> fetched[r]])
Put(r) ==
    /\ details[r] = "seasons" /\ names[r] = fetched[r]
    /\ Store(r, [version |-> Version, names |-> names[r], seasons |-> fetched[r]])

\* /watch/providers answers, with a result or a refusal, or does not answer.
AskProviders(r) ==
    /\ providers[r] = "asked"
    /\ \/ /\ \E p \in {"have", "refused"} : providers' = [providers EXCEPT ![r] = p]
          /\ UNCHANGED answer
       \/ /\ providers' = [providers EXCEPT ![r] = "failed"]
          /\ Told(r, "error")
    /\ UNCHANGED <<aired, cached, details, fetched, names, known>>

\* A refusal is looked at when the details are there.
Answer(r) ==
    /\ answer[r] = Nothing /\ details[r] = "have" /\ providers[r] \in {"have", "refused"}
    /\ Told(r, IF providers[r] = "have" THEN "ok" ELSE "error")
    /\ UNCHANGED <<aired, cached, details, providers, fetched, names, known>>

MetadataNext ==
    \/ Air
    \/ \E r \in Requests :
          \/ Begin(r) \/ Lookup(r) \/ FetchDetails(r) \/ FailDetails(r) \/ Put(r)
          \/ AskProviders(r) \/ Answer(r)
          \/ \E s \in Seasons : FetchSeason(r, s)
MetadataSpec == MetadataInit /\ [][MetadataNext]_metaVars
-----------------------------------------------------------------------------
(* Properties                                                              *)

\* No request, however it and the others fail, makes the cache keep a title with a season
\* missing that its details name; nor is a client given one (catalog.ts:136-144, 230-267):
\* an entry is never fetched again, so a gap would stay.
SeasonsComplete ==
    /\ cached # Nothing /\ cached.version = Version => cached.seasons = cached.names
    /\ \A r \in Requests : answer[r] = "ok" => fetched[r] = names[r]

\* Once a request has stored a title's details, those that come later ask TMDB for its
\* providers only, whatever older requests still fetch, store or fail at
\* (catalog.ts:131-140, catalog-metadata-cache.ts:21-26, 38-40).
FetchedOnce == \A r \in known : details[r] \notin {"fetch", "seasons"}
=============================================================================
