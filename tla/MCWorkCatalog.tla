-------------------------- MODULE MCWorkCatalog ---------------------------
(* Small instances of WorkCatalog: one movie and one series, with TMDB     *)
(* numbers that differ or that happen to be the same.                      *)
EXTENDS WorkCatalog, TLC

CONSTANTS m, s, u1, u2, a1, a2, a3

Kinds == [t \in {m, s} |-> IF t = m THEN "movie" ELSE "series"]
Apart == [t \in {m, s} |-> IF t = m THEN 550 ELSE 1399]
Alike == [t \in {m, s} |-> 550]
Symmetric == Permutations(Users) \cup Permutations(Adds)
===========================================================================
