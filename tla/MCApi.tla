-------------------------------- MODULE MCApi --------------------------------
(***************************************************************************)
(* The API's requests beside the submissions: works and watchlists with    *)
(* the Stremio addon (WorkCatalog), reports of client errors, walks        *)
(* through listings and the metadata cache.  They share no state, so a     *)
(* behaviour is of one of them, and the others stay as they start.         *)
(* The slots of WorkCatalog also name the requests of MetadataCache, so    *)
(* that the symmetry of the ones is that of the others.                    *)
(***************************************************************************)
EXTENDS MCWorkCatalog, ClientErrors, Listings, MetadataCache

VARIABLE part  \* the one a behaviour is of

ApiInit ==
    /\ part \in {"works", "errors", "lists", "metadata"}
    /\ Init /\ ErrorsInit /\ ListsInit /\ MetadataInit
    /\ part # "lists" => listing = "logs"
    /\ part # "metadata" => aired = {} /\ cached = Nothing

ApiNext ==
    /\ \/ part = "works" /\ Next /\ UNCHANGED <<errorVars, listVars, metaVars>>
       \/ part = "errors" /\ ErrorsNext /\ UNCHANGED <<vars, listVars, metaVars>>
       \/ part = "lists" /\ ListsNext /\ UNCHANGED <<vars, errorVars, metaVars>>
       \/ part = "metadata" /\ MetadataNext /\ UNCHANGED <<vars, errorVars, listVars>>
    /\ UNCHANGED part

ApiSpec == ApiInit /\ [][ApiNext]_<<part, vars, errorVars, listVars, metaVars>>
=============================================================================
