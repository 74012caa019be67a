-------------------------- MODULE MCQuotaService --------------------------
(* Small instances of QuotaService: which users send which Reels, and the  *)
(* limits an administrator may choose.                                     *)
EXTENDS QuotaService

CONSTANTS u1, u2, x, y, z, w, a, b, c, d

\* Two users send x, and u1 sends y too: a shared URL and a deferral.
Mixed == {a, b, c}
MixedUser == [s \in Mixed |-> IF s = b THEN u2 ELSE u1]
MixedUrl  == [s \in Mixed |-> IF s = c THEN y ELSE x]

\* One user sends two Reels.
Pair == {a, c}
PairUser == [s \in Pair |-> u1]
PairUrl  == [s \in Pair |-> IF s = c THEN y ELSE x]

\* Two users send the same Reel.
Shared == {a, b}
SharedUser == [s \in Shared |-> IF s = b THEN u2 ELSE u1]
SharedUrl  == [s \in Shared |-> x]

\* Two users send two Reels each, all different.
Distinct == {a, b, c, d}
DistinctUser == [s \in Distinct |-> IF s \in {b, d} THEN u2 ELSE u1]
DistinctUrl  == [s \in Distinct |-> CASE s = a -> x [] s = b -> z [] s = c -> y [] s = d -> w]

LowerGlobal   == {[novel |-> 1, retry |-> 0]}
KeepRetry     == {[novel |-> None, retry |-> 1]}
RaiseOverride == {[novel |-> 2, retry |-> None]}

\* The behaviours in which requests arrive one after the other.
OneRequest == Cardinality({s \in Submissions : admit[s].pc \notin {"idle", "done"}}) <= 1
SerialSpec == Init /\ [][Next /\ OneRequest']_vars /\ Fairness
===========================================================================
