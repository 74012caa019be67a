---------------------------- MODULE QuotaLedger ----------------------------
(***************************************************************************)
(* What the daily quota promises, without transactions or locks: a ledger  *)
(* in which every submission holds at most one reservation, a reservation  *)
(* belongs to one user and one São Paulo day, the counter of a user and a  *)
(* day is the number of reservations held on it, and no counter passes the *)
(* cap.  QuotaService implements it with two-step reads, advisory locks    *)
(* and an SQL increment.                                                   *)
(***************************************************************************)
EXTENDS Naturals

CONSTANTS
    Users,        \* the owners of submissions
    Submissions,  \* rows of reel_submissions
    userId,       \* the owner of each submission
    LastDay,      \* bound: the last calendar day considered
    NovelCap      \* the largest daily limit in force

VARIABLES
    reserved,     \* reserved[s]: the day s holds a reservation on, 0 if none
    count         \* count[u][d]: the reservations user u holds on day d

ledgerVars == <<reserved, count>>

Init ==
    /\ reserved = [s \in Submissions |-> 0]
    /\ count = [u \in Users |-> [d \in 1..LastDay |-> 0]]

\* A submission that holds nothing takes one unit of its owner's day.
Reserve(s, d) ==
    /\ reserved[s] = 0
    /\ count[userId[s]][d] < NovelCap
    /\ reserved' = [reserved EXCEPT ![s] = d]
    /\ count' = [count EXCEPT ![userId[s]][d] = @ + 1]

\* A submission gives back the unit it holds, once.
Refund(s) ==
    /\ reserved[s] # 0
    /\ reserved' = [reserved EXCEPT ![s] = 0]
    /\ count' = [count EXCEPT ![userId[s]][reserved[s]] = @ - 1]

Next == \E s \in Submissions : Refund(s) \/ \E d \in 1..LastDay : Reserve(s, d)

Spec == Init /\ [][Next]_ledgerVars
=============================================================================
