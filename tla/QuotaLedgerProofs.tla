-------------------------- MODULE QuotaLedgerProofs --------------------------
(***************************************************************************)
(* The counters of QuotaService are exact and its transactions implement   *)
(* QuotaLedger, as long as two races do not happen: two passes of          *)
(* reconcilers that hold the same row, and an admin job that refunds a row *)
(* together with another job.                                              *)
(***************************************************************************)
EXTENDS QuotaServiceProofs, FiniteSetTheorems

\* A pass has picked the row for admission, or is admitting it.
Carries(r, s) == s \in batch[r].todo \/ (admit[r].pc # "idle" /\ admit[r].sub = s)
\* A job has read the row's reservation and waits for the lock to refund it.
Refunding(r, s) == run[r].pc = "refunding" /\ run[r].item = s

OneAtATime ==
    /\ \A q, r \in Reconcilers, s \in Submissions : Carries(q, s) /\ Carries(r, s) => q = r
    /\ \A q, r \in Runs, s \in Submissions : Refunding(q, s) /\ Refunding(r, s) => q = r

(* Neither the exactness of a counter nor the refinement is inductive: a   *)
(* Charge must find its row uncharged, and a Refund must find the          *)
(* reservation it has read.                                                *)

\* A row waits, or is in a pass, only after its own handler has returned...
HandlerFirst ==
    \A s \in Submissions :
       status[s] = "waiting_for_quota" \/ (\E r \in Reconcilers : Carries(r, s))
         => admit[s].pc = "done"
\* ...and whoever may charge a row finds it uncharged.
Uncharged ==
    \A s \in Submissions :
       (\/ status[s] = "waiting_for_quota"
        \/ admit[s].pc \notin {"enqueue", "done"}
        \/ \E r \in Reconcilers : Carries(r, s)) => ~charged[s]
ReservationRead ==
    \A r \in Runs, s \in Submissions :
       Refunding(r, s) => charged[s] /\ window[s] = run[r].window
ReservedDays == \A s \in Submissions : charged[s] => window[s] \in Days
Books ==
    \A u \in Users, d \in Days :
       IsFiniteSet(Ledger(u, d)) /\ usage[u][d] = Cardinality(Ledger(u, d))
LedgerInv == HandlerFirst /\ Uncharged /\ ReservationRead /\ ReservedDays /\ Books

USE DEF Days, Admitters, Runs
-----------------------------------------------------------------------------
(* The books                                                               *)

\* Rows that keep their reservations keep the books.
LEMMA BooksKept ==
  ASSUME Books, usage' = usage,
         \A s \in Submissions : charged'[s] = charged[s] /\ (charged[s] => window'[s] = window[s])
  PROVE  Books'
<1>1. \A u \in Users, d \in Days : Ledger(u, d)' = Ledger(u, d)
  BY DEF Ledger
<1> QED
  BY <1>1 DEF Books

\* A charge of an uncharged row enters it once, on its owner's day.
LEMMA ChargeBooks ==
  ASSUME TypeInv, Books, NEW p \in Admitters, Charge(p), ~charged[admit[p].sub]
  PROVE  Books'
<1> DEFINE s == admit[p].sub
           u == userId[s]
           d == admit[p].window
           n == usage[u][d] + 1
<1>1. s \in Submissions /\ u \in Users /\ d \in Days
  BY OwnersAssumption DEF Charge, TypeInv, AdmitOK
<1>2. charged' = [charged EXCEPT ![s] = TRUE] /\ window' = [window EXCEPT ![s] = d]
  BY DEF Charge
<1>3. usage' = [usage EXCEPT ![u][d] = n]
  BY DEF Charge
<1>4. usage[u][d] \in Nat
  BY <1>1 DEF TypeInv, CountsOK
<1>5. \A v \in Users, e \in Days : usage'[v][e] = IF v = u /\ e = d THEN n ELSE usage[v][e]
  BY <1>1, <1>3, <1>4, CounterUpdate DEF TypeInv, CountsOK
<1>6. \A t \in Submissions : /\ charged'[t] = IF t = s THEN TRUE ELSE charged[t]
                             /\ window'[t] = IF t = s THEN d ELSE window[t]
  BY <1>1, <1>2 DEF TypeInv, RowsOK
<1> SUFFICES ASSUME NEW v \in Users, NEW e \in Days
             PROVE  IsFiniteSet(Ledger(v, e)') /\ usage'[v][e] = Cardinality(Ledger(v, e)')
  BY DEF Books
<1>7. IsFiniteSet(Ledger(v, e)) /\ usage[v][e] = Cardinality(Ledger(v, e))
  BY DEF Books
<1>8. CASE v = u /\ e = d
  <2>1. Ledger(v, e)' = Ledger(v, e) \cup {s}
    BY <1>1, <1>6, <1>8 DEF Ledger
  <2>2. s \notin Ledger(v, e)
    BY DEF Ledger
  <2>3. IsFiniteSet(Ledger(v, e) \cup {s})
          /\ Cardinality(Ledger(v, e) \cup {s}) = Cardinality(Ledger(v, e)) + 1
    BY <1>7, <2>2, FS_AddElement
  <2>4. usage'[v][e] = Cardinality(Ledger(v, e)) + 1
    BY <1>5, <1>7, <1>8
  <2> QED
    BY <2>1, <2>3, <2>4
<1>9. CASE ~(v = u /\ e = d)
  <2>1. Ledger(v, e)' = Ledger(v, e)
    BY <1>1, <1>6, <1>9 DEF Ledger
  <2> QED
    BY <1>5, <1>7, <1>9, <2>1
<1> QED
  BY <1>8, <1>9

\* A refund of the reservation it has read strikes that one out.
LEMMA RefundBooks ==
  ASSUME TypeInv, LedgerInv, NEW r \in Runs, Refund(r)
  PROVE  Books' /\ usage[userId[run[r].item]][run[r].window] > 0
<1> DEFINE s == run[r].item
           u == userId[s]
           d == run[r].window
           n == IF usage[u][d] = 0 THEN 0 ELSE usage[u][d] - 1
<1>1. s \in Submissions /\ u \in Users /\ d \in Days
  BY OwnersAssumption DEF Refund, TypeInv, RunOK
<1>2. charged' = [charged EXCEPT ![s] = FALSE] /\ window' = window
  BY DEF Refund
<1>3. usage' = [usage EXCEPT ![u][d] = n]
  BY DEF Refund
<1>4. usage[u][d] \in Nat
  BY <1>1 DEF TypeInv, CountsOK
<1>a. n \in Nat
  BY <1>4
<1>b. charged[s] /\ window[s] = d
  BY <1>1 DEF Refund, LedgerInv, ReservationRead, Refunding
<1>c. s \in Ledger(u, d) /\ IsFiniteSet(Ledger(u, d)) /\ usage[u][d] = Cardinality(Ledger(u, d))
  BY <1>1, <1>b DEF Ledger, LedgerInv, Books
<1>d. usage[u][d] > 0
  BY <1>4, <1>c, FS_EmptySet
<1>e. n = usage[u][d] - 1
  BY <1>4, <1>d
<1> HIDE DEF n
<1>5. \A v \in Users, e \in Days : usage'[v][e] = IF v = u /\ e = d THEN n ELSE usage[v][e]
  BY <1>1, <1>3, <1>a, CounterUpdate DEF TypeInv, CountsOK
<1>6. \A t \in Submissions : charged'[t] = IF t = s THEN FALSE ELSE charged[t]
  BY <1>1, <1>2 DEF TypeInv, RowsOK
<1>7. ASSUME NEW v \in Users, NEW e \in Days
      PROVE  IsFiniteSet(Ledger(v, e)') /\ usage'[v][e] = Cardinality(Ledger(v, e)')
  <2>0. IsFiniteSet(Ledger(v, e)) /\ usage[v][e] = Cardinality(Ledger(v, e))
    BY DEF LedgerInv, Books
  <2>1. CASE v = u /\ e = d
    <3>1. Ledger(v, e)' = Ledger(v, e) \ {s}
      BY <1>1, <1>2, <1>6, <2>1 DEF Ledger
    <3>2. IsFiniteSet(Ledger(v, e) \ {s})
            /\ Cardinality(Ledger(v, e) \ {s}) = Cardinality(Ledger(v, e)) - 1
      BY <1>c, <2>0, <2>1, FS_RemoveElement
    <3>3. usage'[v][e] = Cardinality(Ledger(v, e)) - 1
      BY <1>5, <1>e, <2>0, <2>1
    <3> QED
      BY <3>1, <3>2, <3>3
  <2>2. CASE ~(v = u /\ e = d)
    <3>1. Ledger(v, e)' = Ledger(v, e)
      BY <1>1, <1>2, <1>6, <1>b, <2>2 DEF Ledger
    <3> QED
      BY <1>5, <2>0, <2>2, <3>1
  <2> QED
    BY <2>1, <2>2
<1> QED
  BY <1>7, <1>d DEF Books

-----------------------------------------------------------------------------
(* The rows                                                                *)

\* Adding a job starts no refund.
LEMMA EnqueueRefunds ==
  ASSUME RunOK, NEW s \in Submissions, run' = run \/ Enqueue(s)
  PROVE  \A r \in Runs, t \in Submissions :
           Refunding(r, t)' => Refunding(r, t) /\ run'[r].window = run[r].window
<1>1. Job("waiting", s, 1).pc = "waiting" /\ urlHash[s] \in Runs
  BY OwnersAssumption DEF Job
<1>2. run' = run \/ run' = [run EXCEPT ![urlHash[s]] = Job("waiting", s, 1)]
  BY DEF Enqueue
<1>3. ASSUME NEW r \in Runs PROVE run'[r] = run[r] \/ run'[r].pc = "waiting"
  BY <1>1, <1>2 DEF RunOK
<1> QED
  BY <1>3 DEF Refunding

\* A step that charges nothing, defers nothing and starts no admission of a row
\* that was not waiting.
LEMMA QuietLedger ==
  ASSUME LedgerInv, usage' = usage, charged' = charged, window' = window,
         \A s \in Submissions :
           /\ status'[s] = "waiting_for_quota" => status[s] = "waiting_for_quota"
           /\ admit[s].pc = "done" => admit'[s].pc = "done"
           /\ admit'[s].pc \notin {"enqueue", "done"} => admit[s].pc \notin {"enqueue", "done"}
           /\ \A r \in Reconcilers :
                Carries(r, s)' => Carries(r, s) \/ status[s] = "waiting_for_quota"
           /\ \A r \in Runs : Refunding(r, s)' =>
                \/ Refunding(r, s) /\ run'[r].window = run[r].window
                \/ charged[s] /\ window[s] = run'[r].window
  PROVE  LedgerInv'
<1>1. HandlerFirst'
  BY DEF LedgerInv, HandlerFirst
<1>2. Uncharged'
  BY DEF LedgerInv, Uncharged
<1>3. ReservationRead'
  BY DEF LedgerInv, ReservationRead
<1>4. ReservedDays'
  BY DEF LedgerInv, ReservedDays
<1>5. Books'
  BY BooksKept DEF LedgerInv
<1> QED
  BY <1>1, <1>2, <1>3, <1>4, <1>5 DEF LedgerInv

\* A caller past its start works on an uncharged row, and is the only one that does.
LEMMA AdmitterAlone ==
  ASSUME TypeInv, LedgerInv, OneAtATime, NEW p \in Admitters,
         admit[p].pc \notin {"idle", "enqueue", "done"}
  PROVE  /\ admit[p].sub \in Submissions
         /\ ~charged[admit[p].sub]
         /\ \A r \in Reconcilers : Carries(r, admit[p].sub) => r = p
         /\ p \notin Submissions => admit[admit[p].sub].pc = "done"
<1> DEFINE s == admit[p].sub
<1>1. s \in Submissions
  BY DEF TypeInv, AdmitOK
<1>2. CASE p \in Submissions
  <2>1. s = p
    BY <1>2 DEF TypeInv, AdmitOK
  <2> QED
    BY <1>1, <1>2, <2>1 DEF LedgerInv, HandlerFirst, Uncharged
<1>3. CASE p \in Reconcilers
  <2>1. Carries(p, s)
    BY DEF Carries
  <2> QED
    BY <1>1, <1>3, <2>1, ProcessesAssumption DEF LedgerInv, HandlerFirst, Uncharged, OneAtATime
<1> QED
  BY <1>2, <1>3

\* The answer ends the caller's work on the row, and nobody else's.
LEMMA ReturnCarries ==
  ASSUME TypeInv, NEW p \in Admitters, NEW ok \in BOOLEAN, admit[p].pc # "idle", Return(p, ok)
  PROVE  /\ \A r \in Reconcilers, t \in Submissions :
              Carries(r, t)' => Carries(r, t) /\ (r = p => t # admit[p].sub)
         /\ \A q \in Admitters : q # p => admit'[q] = admit[q]
         /\ p \in Submissions => admit'[p].pc = IF ok THEN "enqueue" ELSE "done"
<1> DEFINE answer == IF ok THEN "enqueue" ELSE "done"
<1>1. CASE p \in Submissions
  <2>1. admit' = [admit EXCEPT ![p] = Txn(answer, p, 0)] /\ batch' = batch
    BY <1>1 DEF Return
  <2>2. Txn(answer, p, 0).pc = answer
    BY DEF Txn
  <2>3. \A r \in Reconcilers : r # p
    BY <1>1, ProcessesAssumption
  <2> QED
    BY <1>1, <2>1, <2>2, <2>3 DEF TypeInv, AdmitOK, Carries
<1>2. CASE p \notin Submissions
  <2>1. /\ admit' = [admit EXCEPT ![p] = Idle]
        /\ batch' = [batch EXCEPT ![p] = [todo |-> @.todo \ {admit[p].sub},
                       admitted |-> @.admitted \cup IF ok THEN {admit[p].sub} ELSE {}]]
    BY <1>2 DEF Return
  <2>2. Idle.pc = "idle"
    BY DEF Idle, Txn
  <2>3. p \in Reconcilers /\ batch'[p].todo = batch[p].todo \ {admit[p].sub}
    BY <1>2, <2>1 DEF TypeInv, BatchOK
  <2>4. \A r \in Reconcilers : r # p => batch'[r] = batch[r]
    BY <2>1 DEF TypeInv, BatchOK
  <2>5. admit'[p].pc = "idle" /\ \A q \in Admitters : q # p => admit'[q] = admit[q]
    BY <2>1, <2>2 DEF TypeInv, AdmitOK
  <2> QED
    BY <1>2, <2>3, <2>4, <2>5 DEF Carries
<1> QED
  BY <1>1, <1>2

\* An answer leaves a waiting row with a handler that has returned.
LEMMA AnswerHandlerFirst ==
  ASSUME TypeInv, LedgerInv, OneAtATime, NEW p \in Admitters,
         admit[p].pc \in {"free", "commit"}, NEW ok \in BOOLEAN, Return(p, ok),
         NEW st, st = "waiting_for_quota" => ~ok,
         status' = [status EXCEPT ![admit[p].sub] = st]
  PROVE  HandlerFirst'
<1> DEFINE s == admit[p].sub
<1>1. s \in Submissions /\ (\A r \in Reconcilers : Carries(r, s) => r = p)
        /\ (p \notin Submissions => admit[s].pc = "done")
  BY AdmitterAlone
<1>2. \A t \in Submissions : status'[t] = IF t = s THEN st ELSE status[t]
  BY <1>1 DEF TypeInv, RowsOK
<1>3. /\ \A r \in Reconcilers, t \in Submissions :
            Carries(r, t)' => Carries(r, t) /\ (r = p => t # s)
      /\ \A q \in Admitters : q # p => admit'[q] = admit[q]
      /\ p \in Submissions => admit'[p].pc = IF ok THEN "enqueue" ELSE "done"
  BY ReturnCarries
<1>4. p \in Submissions => s = p
  BY DEF TypeInv, AdmitOK
<1> SUFFICES ASSUME NEW t \in Submissions,
                    status'[t] = "waiting_for_quota" \/ \E r \in Reconcilers : Carries(r, t)'
             PROVE  admit'[t].pc = "done"
  BY DEF HandlerFirst
<1>5. CASE t = s
  BY <1>1, <1>2, <1>3, <1>4, <1>5, ProcessesAssumption
<1>6. CASE t # s
  <2>1. admit[t].pc = "done"
    BY <1>2, <1>3, <1>6 DEF LedgerInv, HandlerFirst
  <2>2. t # p
    BY <1>4, <1>6
  <2> QED
    BY <1>3, <2>1, <2>2
<1> QED
  BY <1>5, <1>6

\* A row admitted for free or deferred had no reservation, so none is lost.
LEMMA AnswerLedger ==
  ASSUME TypeInv, LedgerInv, OneAtATime, NEW p \in Admitters, AdmitFree(p) \/ Defer(p)
  PROVE  LedgerInv'
<1> DEFINE s == admit[p].sub
<1>0. admit[p].pc \in {"free", "commit"} /\ run' = run /\ usage' = usage
  BY DEF AdmitFree, Defer, countVars
<1>1. s \in Submissions /\ ~charged[s]
  BY <1>0, AdmitterAlone
<1>2. HandlerFirst'
  <2>1. CASE AdmitFree(p)
    BY <1>0, <2>1, AnswerHandlerFirst DEF AdmitFree
  <2>2. CASE Defer(p)
    BY <1>0, <2>2, AnswerHandlerFirst DEF Defer
  <2> QED
    BY <2>1, <2>2
<1>3. \A t \in Submissions : /\ charged'[t] = IF t = s THEN FALSE ELSE charged[t]
                             /\ window'[t] = IF t = s THEN 0 ELSE window[t]
  BY <1>1 DEF AdmitFree, Defer, TypeInv, RowsOK
<1>4. PICK ok \in BOOLEAN : Return(p, ok)
  BY DEF AdmitFree, Defer
<1>5. /\ \A r \in Reconcilers, t \in Submissions : Carries(r, t)' => Carries(r, t)
      /\ \A q \in Admitters : q # p => admit'[q] = admit[q]
  BY <1>0, <1>4, ReturnCarries
<1>6. \A t \in Submissions : t # s => status'[t] = status[t]
  BY <1>1 DEF AdmitFree, Defer, TypeInv, RowsOK
<1>7. p \in Submissions => s = p
  BY DEF TypeInv, AdmitOK
<1>8. Uncharged'
  <2> SUFFICES ASSUME NEW t \in Submissions, t # s,
                      \/ status'[t] = "waiting_for_quota"
                      \/ admit'[t].pc \notin {"enqueue", "done"}
                      \/ \E r \in Reconcilers : Carries(r, t)'
               PROVE  ~charged'[t]
    BY <1>3 DEF Uncharged
  <2>1. ~charged[t]
    BY <1>5, <1>6, <1>7 DEF LedgerInv, Uncharged
  <2> QED
    BY <1>3, <2>1
<1>9. ReservationRead'
  BY <1>0, <1>1, <1>3 DEF LedgerInv, ReservationRead, Refunding
<1>10. ReservedDays'
  BY <1>3 DEF LedgerInv, ReservedDays
<1>11. Books'
  <2>1. \A t \in Submissions : charged[t] \in BOOLEAN
    BY DEF TypeInv, RowsOK
  <2>2. charged[s] = FALSE
    BY <1>1, <2>1
  <2>3. \A t \in Submissions : charged'[t] = charged[t]
    BY <1>3, <2>2
  <2>4. \A t \in Submissions : charged[t] => window'[t] = window[t]
    BY <1>1, <1>3
  <2> QED
    BY <1>0, <2>3, <2>4, BooksKept DEF LedgerInv
<1> QED
  BY <1>2, <1>8, <1>9, <1>10, <1>11 DEF LedgerInv

\* A charge is of an uncharged row, which nobody else is about to charge.
LEMMA ChargeLedger ==
  ASSUME TypeInv, LedgerInv, OneAtATime, NEW p \in Admitters, Charge(p)
  PROVE  LedgerInv'
<1> DEFINE s == admit[p].sub
<1>0. admit[p].pc = "commit" /\ run' = run /\ Return(p, TRUE)
  BY DEF Charge
<1>1. s \in Submissions /\ ~charged[s] /\ (\A r \in Reconcilers : Carries(r, s) => r = p)
        /\ (p \notin Submissions => admit[s].pc = "done") /\ admit[p].window \in Days
  BY <1>0, AdmitterAlone DEF TypeInv, AdmitOK
<1>2. HandlerFirst'
  BY <1>0, AnswerHandlerFirst DEF Charge
<1>3. \A t \in Submissions : /\ charged'[t] = IF t = s THEN TRUE ELSE charged[t]
                             /\ window'[t] = IF t = s THEN admit[p].window ELSE window[t]
                             /\ status'[t] = IF t = s THEN "queued" ELSE status[t]
  BY <1>1 DEF Charge, TypeInv, RowsOK
<1>4. /\ \A r \in Reconcilers, t \in Submissions :
            Carries(r, t)' => Carries(r, t) /\ (r = p => t # s)
      /\ \A q \in Admitters : q # p => admit'[q] = admit[q]
      /\ p \in Submissions => admit'[p].pc = "enqueue"
  BY <1>0, ReturnCarries
<1>5. p \in Submissions => s = p
  BY DEF TypeInv, AdmitOK
<1>6. Uncharged'
  <2> SUFFICES ASSUME NEW t \in Submissions,
                      \/ status'[t] = "waiting_for_quota"
                      \/ admit'[t].pc \notin {"enqueue", "done"}
                      \/ \E r \in Reconcilers : Carries(r, t)'
               PROVE  ~charged'[t]
    BY DEF Uncharged
  <2>1. CASE t = s
    BY <1>1, <1>3, <1>4, <1>5, <2>1, ProcessesAssumption
  <2>2. CASE t # s
    BY <1>3, <1>4, <1>5, <2>2 DEF LedgerInv, Uncharged
  <2> QED
    BY <2>1, <2>2
<1>7. ReservationRead'
  BY <1>0, <1>1, <1>3 DEF LedgerInv, ReservationRead, Refunding
<1>8. ReservedDays'
  BY <1>1, <1>3 DEF LedgerInv, ReservedDays
<1>9. Books'
  BY <1>1, ChargeBooks DEF LedgerInv
<1> QED
  BY <1>2, <1>6, <1>7, <1>8, <1>9 DEF LedgerInv

\* A refund gives back what it has read, and no other refund has read it.
LEMMA RefundLedger ==
  ASSUME TypeInv, LedgerInv, OneAtATime, NEW r \in Runs, Refund(r)
  PROVE  LedgerInv'
<1> DEFINE s == run[r].item
<1>1. s \in Submissions /\ Refunding(r, s)
  BY DEF Refund, Refunding, TypeInv, RunOK
<1>2. \A t \in Submissions : charged'[t] = IF t = s THEN FALSE ELSE charged[t]
  BY <1>1 DEF Refund, TypeInv, RowsOK
<1>3. window' = window /\ status' = status /\ admit' = admit /\ batch' = batch
  BY DEF Refund
<1>4. run'[r].pc = "refund" /\ \A q \in Runs : q # r => run'[q] = run[q]
  BY DEF Refund, TypeInv, RunOK, RunType
<1>5. HandlerFirst'
  BY <1>3 DEF LedgerInv, HandlerFirst, Carries
<1>6. Uncharged'
  BY <1>2, <1>3 DEF LedgerInv, Uncharged, Carries
<1>7. ReservationRead'
  <2> SUFFICES ASSUME NEW q \in Runs, NEW t \in Submissions, Refunding(q, t)'
               PROVE  charged'[t] /\ window'[t] = run'[q].window
    BY DEF ReservationRead
  <2>1. q # r /\ Refunding(q, t) /\ run'[q] = run[q]
    BY <1>4 DEF Refunding
  <2>2. t # s
    BY <1>1, <2>1 DEF OneAtATime
  <2>3. charged[t] /\ window[t] = run[q].window
    BY <2>1 DEF LedgerInv, ReservationRead
  <2> QED
    BY <1>2, <1>3, <2>1, <2>2, <2>3
<1>8. ReservedDays'
  BY <1>2, <1>3 DEF LedgerInv, ReservedDays
<1>9. Books'
  BY RefundBooks
<1> QED
  BY <1>5, <1>6, <1>7, <1>8, <1>9 DEF LedgerInv
-----------------------------------------------------------------------------
(* Every step                                                              *)

\* The books change at commits only: of admitSubmission (quota.ts:31-52) and of
\* refundTechnicalFailure (quota.ts:102-104).
LEMMA StepKinds ==
  ASSUME [Next]_vars
  PROVE  \/ \E p \in Admitters : AdmitFree(p) \/ Defer(p) \/ Charge(p)
         \/ \E r \in Runs : Refund(r)
         \/ UNCHANGED <<charged, window, usage>>
<1> USE DEF rowVars, countVars
<1>1. ASSUME NEW s \in Submissions, SubmitStep(s) PROVE UNCHANGED <<charged, window, usage>>
  BY <1>1 DEF SubmitStep, StampRow, InsertRow, ApplyUrlCache, EnqueueAdmitted
<1>2. ASSUME NEW p \in Admitters, ReadSubmission(p) \/ LockUrl(p) \/ LockWindow(p)
      PROVE  UNCHANGED <<charged, window, usage>>
  BY <1>2 DEF ReadSubmission, LockUrl, LockWindow
<1>3. ASSUME NEW r \in Reconcilers, PassStep(r) PROVE UNCHANGED <<charged, window, usage>>
  BY <1>3 DEF PassStep, StartPass, AdmitNext, EnqueueNext
<1>4. ASSUME NEW q \in Retriers, RetryStep(q) \/ \E s \in Submissions : ReadFailed(q, s)
      PROVE  UNCHANGED <<charged, window, usage>>
  BY <1>4 DEF RetryStep, LockRetry, RetryLimitExceeded, RegisterRetry, EnqueueRetry, ReadFailed
<1>5. ASSUME NEW r \in Runs, WorkerStep(r), ~Refund(r)
      PROVE  UNCHANGED <<charged, window, usage>>
  BY <1>5 DEF WorkerStep, StartRun, Identify, FingerprintHit, FailContent, FailTechnical,
              SelectMatches, ReadReservation, FinishRun
<1>6. CASE AdminStep \/ NextDay \/ \E url \in Urls : ExpireCache(url)
  BY <1>6 DEF AdminStep, UpdateGlobalQuotas, UpdateUserQuotas, AdminReprocess, NextDay,
              ExpireCache
<1>7. CASE UNCHANGED vars
  BY <1>7 DEF vars
<1> QED
  BY <1>1, <1>2, <1>3, <1>4, <1>5, <1>6, <1>7 DEF Next, AdmitStep

\* No handler has returned, and no row has been charged, at first.
LEMMA InitLedger == Init => LedgerInv
<1> SUFFICES ASSUME Init PROVE LedgerInv
  OBVIOUS
<1>1. \A s \in Submissions : ~charged[s] /\ status[s] = "absent"
  BY DEF Init
<1>2. \A r \in Reconcilers, s \in Submissions : ~Carries(r, s)
  BY ProcessesAssumption DEF Init, Carries, Idle, Txn
<1>3. \A r \in Runs, s \in Submissions : ~Refunding(r, s)
  BY DEF Init, Refunding, NoJob, Job
<1>4. \A u \in Users, d \in Days : Ledger(u, d) = {} /\ usage[u][d] = 0
  BY DEF Init, Ledger
<1> QED
  BY <1>1, <1>2, <1>3, <1>4, FS_EmptySet
  DEF LedgerInv, HandlerFirst, Uncharged, ReservationRead, ReservedDays, Books

\* createSubmission starts no admission of a row that was not waiting for it.
LEMMA SubmitLedger ==
  ASSUME TypeInv, LedgerInv, NEW s \in Submissions, SubmitStep(s)
  PROVE  LedgerInv'
<1>1. UNCHANGED <<charged, window, usage, batch>>
  BY DEF SubmitStep, StampRow, InsertRow, ApplyUrlCache, EnqueueAdmitted, rowVars, countVars
<1>2. \A t \in Submissions : status'[t] = "waiting_for_quota" => status[t] = "waiting_for_quota"
  BY DEF SubmitStep, StampRow, InsertRow, ApplyUrlCache, EnqueueAdmitted, rowVars, TypeInv, RowsOK
<1>3. /\ \A q \in Admitters : q # s => admit'[q] = admit[q]
      /\ admit[s].pc \in {"idle", "insert", "lookup", "enqueue"}
      /\ admit[s].pc = "enqueue" => admit'[s].pc = "done"
  BY DEF SubmitStep, StampRow, InsertRow, ApplyUrlCache, EnqueueAdmitted, TypeInv, AdmitOK, TxnType
<1>4. \A r \in Reconcilers, t \in Submissions : Carries(r, t)' => Carries(r, t)
  BY <1>1, <1>3, ProcessesAssumption DEF Carries
<1>5. \A r \in Runs, t \in Submissions :
        Refunding(r, t)' => Refunding(r, t) /\ run'[r].window = run[r].window
  <2>1. run' = run \/ Enqueue(s)
    BY DEF SubmitStep, StampRow, InsertRow, ApplyUrlCache, EnqueueAdmitted
  <2> QED
    BY <2>1, EnqueueRefunds DEF TypeInv
<1>6. \A t \in Submissions :
        /\ admit[t].pc = "done" => admit'[t].pc = "done"
        /\ admit'[t].pc \notin {"enqueue", "done"} => admit[t].pc \notin {"enqueue", "done"}
  BY <1>3
<1> QED
  BY <1>1, <1>2, <1>4, <1>5, <1>6, QuietLedger

\* A caller that reads or takes a lock goes on with the row it has, or lets go of it.
LEMMA AdmitLedger ==
  ASSUME TypeInv, LedgerInv, NEW p \in Admitters,
         ReadSubmission(p) \/ LockUrl(p) \/ LockWindow(p)
  PROVE  LedgerInv'
<1>1. UNCHANGED <<status, charged, window, usage, run>>
        /\ admit[p].pc \in {"start", "url", "window"}
  BY DEF ReadSubmission, LockUrl, LockWindow, rowVars, countVars
<1>2. /\ \A q \in Admitters : q # p => admit'[q] = admit[q]
      /\ p \in Submissions => admit'[p].pc # "enqueue"
      /\ \A r \in Reconcilers, t \in Submissions : Carries(r, t)' => Carries(r, t)
  <2>1. CASE Return(p, FALSE)
    BY <1>1, <2>1, ReturnCarries
  <2>2. CASE \/ LockWindow(p) \/ LockUrl(p)
             \/ admit' = [admit EXCEPT ![p].pc = "url"] /\ batch' = batch
    <3>1. /\ \A q \in Admitters : q # p => admit'[q] = admit[q]
          /\ admit'[p].pc \in {"url", "free", "window", "commit"} /\ admit'[p].sub = admit[p].sub
          /\ batch' = batch
      <4> USE DEF TypeInv, AdmitOK, TxnType
      <4>1. CASE LockWindow(p)
        BY <4>1 DEF LockWindow
      <4>2. CASE LockUrl(p)
        BY <4>2 DEF LockUrl
      <4>3. CASE admit' = [admit EXCEPT ![p].pc = "url"] /\ batch' = batch
        BY <4>3
      <4> HIDE DEF StartRun, Identify, FingerprintHit, FailContent, FailTechnical, SelectMatches,
                   ReadReservation, FinishRun
      <4> QED
        BY <2>2, <4>1, <4>2, <4>3
    <3>2. \A r \in Reconcilers, t \in Submissions : Carries(r, t)' => Carries(r, t)
      BY <1>1, <3>1 DEF Carries
    <3> QED
      BY <3>1, <3>2
  <2> QED
    BY <2>1, <2>2 DEF ReadSubmission
<1>3. \A r \in Runs, t \in Submissions :
        Refunding(r, t)' => Refunding(r, t) /\ run'[r].window = run[r].window
  BY <1>1 DEF Refunding
<1>4. \A t \in Submissions :
        /\ admit[t].pc = "done" => admit'[t].pc = "done"
        /\ admit'[t].pc \notin {"enqueue", "done"} => admit[t].pc \notin {"enqueue", "done"}
  BY <1>1, <1>2
<1> QED
  BY <1>1, <1>2, <1>3, <1>4, QuietLedger

\* A pass takes up rows that wait, and then works on rows it has taken up.
LEMMA PassLedger ==
  ASSUME TypeInv, LedgerInv, NEW r \in Reconcilers, PassStep(r)
  PROVE  LedgerInv'
<1>1. UNCHANGED <<status, charged, window, usage>>
  BY DEF PassStep, StartPass, AdmitNext, EnqueueNext, rowVars, countVars
<1>2. \A q \in Admitters : q # r => admit'[q] = admit[q]
  BY DEF PassStep, StartPass, AdmitNext, EnqueueNext, TypeInv, AdmitOK
<1>3. \A q \in Reconcilers, t \in Submissions :
        Carries(q, t)' => Carries(q, t) \/ status[t] = "waiting_for_quota"
  <2>1. CASE StartPass(r)
    <3>1. batch'[r].todo \subseteq Waiting
      BY <2>1 DEF StartPass, TypeInv, BatchOK, BatchType
    <3>2. admit' = admit /\ \A q \in Reconcilers : q # r => batch'[q] = batch[q]
      BY <2>1 DEF StartPass, TypeInv, BatchOK
    <3> QED
      BY <3>1, <3>2 DEF Carries, Waiting
  <2>2. CASE AdmitNext(r)
    <3>1. PICK s \in batch[r].todo : admit' = [admit EXCEPT ![r] = Txn("start", s, 0)]
      BY <2>2 DEF AdmitNext
    <3>2. admit'[r].sub = s /\ batch' = batch
      BY <2>2, <3>1 DEF AdmitNext, TypeInv, AdmitOK, Txn
    <3> QED
      BY <1>2, <3>2 DEF Carries
  <2>3. CASE EnqueueNext(r)
    <3>1. admit' = admit /\ \A q \in Reconcilers : batch'[q].todo = batch[q].todo
      BY <2>3 DEF EnqueueNext, TypeInv, BatchOK, BatchType
    <3> QED
      BY <3>1 DEF Carries
  <2> QED
    BY <2>1, <2>2, <2>3 DEF PassStep
<1>4. \A q \in Runs, t \in Submissions :
        Refunding(q, t)' => Refunding(q, t) /\ run'[q].window = run[q].window
  <2>1. run' = run \/ \E s \in Submissions : Enqueue(s)
    <3>1. CASE EnqueueNext(r)
      <4>1. batch[r].admitted \subseteq Submissions
        BY DEF TypeInv, BatchOK, BatchType
      <4>2. \E s \in batch[r].admitted : Enqueue(s)
        BY <3>1 DEF EnqueueNext
      <4> QED
        BY <4>1, <4>2
    <3>2. CASE ~EnqueueNext(r)
      BY <3>2 DEF PassStep, StartPass, AdmitNext
    <3> QED
      BY <3>1, <3>2
  <2>2. CASE run' = run
    BY <2>2 DEF Refunding
  <2>3. ASSUME NEW s \in Submissions, Enqueue(s)
        PROVE  \A q \in Runs, t \in Submissions :
                 Refunding(q, t)' => Refunding(q, t) /\ run'[q].window = run[q].window
    BY <2>3, EnqueueRefunds DEF TypeInv
  <2> QED
    BY <2>1, <2>2, <2>3
<1>5. \A t \in Submissions : admit'[t] = admit[t]
  BY <1>2, ProcessesAssumption
<1> QED
  BY <1>1, <1>3, <1>4, <1>5, QuietLedger

\* A retry puts its row back in the queue: the row does not wait.
LEMMA RetryLedger ==
  ASSUME TypeInv, LedgerInv, NEW q \in Retriers,
         RetryStep(q) \/ \E s \in Submissions : ReadFailed(q, s)
  PROVE  LedgerInv'
<1>1. UNCHANGED <<charged, window, usage, admit, batch>>
  BY DEF RetryStep, LockRetry, RetryLimitExceeded, RegisterRetry, EnqueueRetry, ReadFailed,
         rowVars, countVars
<1>2. \A t \in Submissions : status'[t] = "waiting_for_quota" => status[t] = "waiting_for_quota"
  BY DEF RetryStep, LockRetry, RetryLimitExceeded, RegisterRetry, EnqueueRetry, ReadFailed,
         rowVars, TypeInv, RowsOK
<1>3. \A r \in Runs, t \in Submissions :
        Refunding(r, t)' => Refunding(r, t) /\ run'[r].window = run[r].window
  <2>1. CASE run' = run
    BY <2>1 DEF Refunding
  <2>2. CASE EnqueueRetry(q)
    <3>1. retry[q].sub \in Submissions /\ Enqueue(retry[q].sub)
      BY <2>2 DEF EnqueueRetry, TypeInv, RetryOK
    <3> QED
      BY <3>1, EnqueueRefunds DEF TypeInv
  <2> QED
    BY <2>1, <2>2 DEF RetryStep, LockRetry, RetryLimitExceeded, RegisterRetry, ReadFailed
<1> QED
  BY <1>1, <1>2, <1>3, QuietLedger DEF Carries

\* Only a read of a reservation leads to its refund.
LEMMA NoRefundStarts ==
  ASSUME TypeInv, NEW r \in Runs, WorkerStep(r), ~Refund(r),
         ~\E t \in Submissions : ReadReservation(r, t)
  PROVE  run'[r].pc # "refunding"
<1> USE DEF TypeInv, RunOK, RunType
<1>1. Job("waiting", run[r].sub, run[r].attempt + 1).pc = "waiting" /\ NoJob.pc = "none"
  BY DEF NoJob, Job
<1>2. CASE FinishRun(r)
  BY <1>1, <1>2, FinishRunJob
<1>3. CASE Identify(r) \/ FailContent(r)
  BY <1>1, <1>3 DEF Identify, FailContent
<1>4. CASE StartRun(r) \/ FingerprintHit(r) \/ SelectMatches(r)
  BY <1>4 DEF StartRun, FingerprintHit, SelectMatches
<1>5. CASE \E cause \in {"permanent", "transient"} : FailTechnical(r, cause)
  BY <1>5 DEF FailTechnical
<1> QED
  BY <1>2, <1>3, <1>4, <1>5 DEF WorkerStep

\* A job starts no refund but of a reservation it reads, and lets no row wait.
LEMMA WorkerLedger ==
  ASSUME TypeInv, LedgerInv, NEW r \in Runs, WorkerStep(r), ~Refund(r)
  PROVE  LedgerInv'
<1> USE DEF WorkerStep, StartRun, Identify, FingerprintHit, FailContent, FailTechnical,
            SelectMatches, ReadReservation, FinishRun
<1>1. UNCHANGED <<charged, window, usage, admit, batch>>
  BY DEF rowVars, countVars
<1>2. \A t \in Submissions : status'[t] = "waiting_for_quota" => status[t] = "waiting_for_quota"
  BY DEF SetStatus, rowVars
<1>3. \A q \in Runs : q # r => run'[q] = run[q]
  BY DEF TypeInv, RunOK
<1>4. \A t \in Submissions : Refunding(r, t)' => charged[t] /\ window[t] = run'[r].window
  <2> USE DEF TypeInv, RunOK, RunType, Refunding
  <2>1. ASSUME NEW s \in Submissions, ReadReservation(r, s)
        PROVE  \A t \in Submissions : Refunding(r, t)' => charged[t] /\ window[t] = run'[r].window
    <3>1. CASE HoldsReservation(s)
      <4>1. run'[r].item = s /\ run'[r].window = window[s]
        BY <2>1, <3>1
      <4>2. charged[s]
        BY <3>1 DEF HoldsReservation
      <4> QED
        BY <4>1, <4>2
    <3>2. CASE ~HoldsReservation(s)
      <4>1. run'[r].pc = "refund"
        BY <2>1, <3>2
      <4> QED
        BY <4>1
    <3> QED
      BY <3>1, <3>2
  <2>2. CASE ~\E t \in Submissions : ReadReservation(r, t)
    <3>2. run'[r].pc # "refunding"
      BY <2>2, NoRefundStarts
    <3> QED
      BY <3>2
  <2> QED
    BY <2>1, <2>2
<1>5. \A q \in Runs, t \in Submissions : Refunding(q, t)' =>
        \/ Refunding(q, t) /\ run'[q].window = run[q].window
        \/ charged[t] /\ window[t] = run'[q].window
  BY <1>3, <1>4 DEF Refunding
<1> QED
  BY <1>1, <1>2, <1>5, QuietLedger DEF Carries

\* Neither an administrator nor time touches a reservation.
LEMMA AdminLedger ==
  ASSUME TypeInv, LedgerInv,
         AdminStep \/ NextDay \/ (\E url \in Urls : ExpireCache(url)) \/ UNCHANGED vars
  PROVE  LedgerInv'
<1> USE DEF AdminStep, UpdateGlobalQuotas, UpdateUserQuotas, AdminReprocess, NextDay, ExpireCache,
            vars, rowVars, countVars, procVars
<1>1. UNCHANGED <<charged, window, usage, admit, batch>>
  OBVIOUS
<1>2. \A t \in Submissions : status'[t] = "waiting_for_quota" => status[t] = "waiting_for_quota"
  BY DEF TypeInv, RowsOK
<1>3. \A r \in Runs : run'[r] = run[r] \/ run'[r].pc = "waiting"
  BY DEF Job, TypeInv, RunOK
<1>4. \A r \in Runs, t \in Submissions :
        Refunding(r, t)' => Refunding(r, t) /\ run'[r].window = run[r].window
  BY <1>3 DEF Refunding
<1> QED
  BY <1>1, <1>2, <1>4, QuietLedger DEF Carries

\* Every step out of a state in which neither race is on keeps the ledger.
LEMMA NextLedger == TypeInv /\ LedgerInv /\ OneAtATime /\ [Next]_vars => LedgerInv'
<1> SUFFICES ASSUME TypeInv, LedgerInv, OneAtATime, [Next]_vars PROVE LedgerInv'
  OBVIOUS
<1>1. ASSUME NEW p \in Admitters, AdmitStep(p) PROVE LedgerInv'
  BY <1>1, AdmitLedger, AnswerLedger, ChargeLedger DEF AdmitStep
<1>2. ASSUME NEW r \in Runs, WorkerStep(r) PROVE LedgerInv'
  BY <1>2, WorkerLedger, RefundLedger
<1> QED
  BY <1>1, <1>2, SubmitLedger, PassLedger, RetryLedger, AdminLedger DEF Next
-----------------------------------------------------------------------------
(* Where the races are: the jobs of two URLs never refund the same row.    *)

\* The passes of two reconcilers, which may be anywhere (quota.ts:80-88), do not hold the same
\* row, and an admin job, whose id is its own (queue.ts:17), does not refund a row while
\* another job does (quota.ts:94-105).
NoRace ==
    /\ \A q, r \in Reconcilers, s \in Submissions : Carries(q, s) /\ Carries(r, s) => q = r
    /\ \A q \in AdminJobs, r \in Runs, s \in Submissions :
          Refunding(q, s) /\ Refunding(r, s) => q = r

\* The job in the slot of a URL refunds rows of that URL only: the rows of a slot
\* and of another have nothing in common.
OfUrl(x, job) ==
    /\ job.pc # "none" => urlHash[job.sub] = x
    /\ \A s \in job.todo : urlHash[s] = x
    /\ job.pc = "refunding" => urlHash[job.item] = x
JobsOfUrl == \A x \in Urls : OfUrl(x, run[x])

\* A new job, and an empty slot, belong to their URL.
LEMMA NewJobOfUrl ==
  ASSUME NEW s, NEW n
  PROVE  OfUrl(urlHash[s], Job("waiting", s, n)) /\ \A x : OfUrl(x, NoJob)
  BY DEF OfUrl, NoJob, Job

\* Adding a job puts it in the slot of its URL.
LEMMA EnqueueOfUrl ==
  ASSUME RunOK, JobsOfUrl, NEW s \in Submissions, Enqueue(s)
  PROVE  JobsOfUrl'
<1>1. run' = run \/ run' = [run EXCEPT ![urlHash[s]] = Job("waiting", s, 1)]
  BY DEF Enqueue
<1>2. urlHash[s] \in Urls /\ OfUrl(urlHash[s], Job("waiting", s, 1))
  BY OwnersAssumption, NewJobOfUrl
<1>3. ASSUME NEW x \in Urls PROVE OfUrl(x, run'[x])
  BY <1>1, <1>2 DEF JobsOfUrl, RunOK
<1> QED
  BY <1>3 DEF JobsOfUrl, OfUrl

\* A job goes on with rows of the URL it was added for.
LEMMA WorkerOfUrl ==
  ASSUME TypeInv, JobsOfUrl, NEW r \in Runs, WorkerStep(r)
  PROVE  JobsOfUrl'
<1> USE DEF TypeInv, RunOK, RunType
<1>1. \A q \in Runs : q # r => run'[q] = run[q]
  BY DEF WorkerStep, StartRun, Identify, FingerprintHit, FailContent, FailTechnical,
         SelectMatches, ReadReservation, Refund, FinishRun
<1>2. ASSUME r \in Urls PROVE OfUrl(r, run'[r])
  <2> DEFINE job == run[r]
  <2>0. OfUrl(r, job)
    BY <1>2 DEF JobsOfUrl
  <2>1. CASE FinishRun(r)
    <3>1. job.pc # "none"
      BY <2>1 DEF FinishRun
    <3>2. OfUrl(r, Job("waiting", job.sub, job.attempt + 1)) /\ OfUrl(r, NoJob)
      <4>1. r = urlHash[job.sub]
        BY <2>0, <3>1 DEF OfUrl
      <4> QED
        BY <4>1, NewJobOfUrl
    <3> QED
      BY <2>1, <3>2, FinishRunJob
  <2>2. CASE Identify(r) \/ FailContent(r)
    BY <2>2, NewJobOfUrl DEF Identify, FailContent
  <2>3. CASE StartRun(r)
    BY <2>0, <2>3 DEF StartRun, OfUrl
  <2>4. CASE FingerprintHit(r)
    BY <2>0, <2>4 DEF FingerprintHit, OfUrl
  <2>5. CASE \E cause \in {"permanent", "transient"} : FailTechnical(r, cause)
    BY <2>0, <2>5 DEF FailTechnical, OfUrl
  <2>6. CASE SelectMatches(r)
    BY <2>0, <2>6 DEF SelectMatches, OfUrl, RowsOf
  <2>7. CASE Refund(r)
    BY <2>0, <2>7 DEF Refund, OfUrl
  <2>8. CASE \E s \in Submissions : ReadReservation(r, s)
    BY <2>0, <2>8 DEF ReadReservation, OfUrl
  <2> QED
    BY <2>1, <2>2, <2>3, <2>4, <2>5, <2>6, <2>7, <2>8 DEF WorkerStep
<1>3. ASSUME NEW x \in Urls PROVE OfUrl(x, run'[x])
  BY <1>1, <1>2 DEF JobsOfUrl
<1> QED
  BY <1>3 DEF JobsOfUrl, OfUrl

\* Every step keeps the jobs of the URLs apart.
LEMMA NextJobsOfUrl == TypeInv /\ JobsOfUrl /\ [Next]_vars => JobsOfUrl'
<1> SUFFICES ASSUME TypeInv, JobsOfUrl, [Next]_vars PROVE JobsOfUrl'
  OBVIOUS
<1>1. ASSUME run' = run PROVE JobsOfUrl'
  BY <1>1 DEF JobsOfUrl, OfUrl
<1>2. ASSUME NEW s \in Submissions, Enqueue(s) PROVE JobsOfUrl'
  BY <1>2, EnqueueOfUrl DEF TypeInv
<1>3. ASSUME NEW s \in Submissions, SubmitStep(s) PROVE JobsOfUrl'
  BY <1>1, <1>2, <1>3 DEF SubmitStep, StampRow, InsertRow, ApplyUrlCache, EnqueueAdmitted
<1>4. ASSUME NEW p \in Admitters, AdmitStep(p) PROVE JobsOfUrl'
  BY <1>1, <1>4 DEF AdmitStep, ReadSubmission, LockUrl, AdmitFree, LockWindow, Defer, Charge
<1>5. ASSUME NEW r \in Reconcilers, PassStep(r) PROVE JobsOfUrl'
  <2>1. CASE EnqueueNext(r)
    <3>1. PICK s \in batch[r].admitted : Enqueue(s)
      BY <2>1 DEF EnqueueNext
    <3>2. s \in Submissions
      BY <3>1 DEF TypeInv, BatchOK, BatchType
    <3> QED
      BY <1>2, <3>1, <3>2
  <2> QED
    BY <1>1, <1>5, <2>1 DEF PassStep, StartPass, AdmitNext
<1>6. ASSUME NEW q \in Retriers, RetryStep(q) \/ \E s \in Submissions : ReadFailed(q, s)
      PROVE  JobsOfUrl'
  <2>1. CASE EnqueueRetry(q)
    BY <1>2, <2>1 DEF EnqueueRetry, TypeInv, RetryOK
  <2> QED
    BY <1>1, <1>6, <2>1 DEF RetryStep, LockRetry, RetryLimitExceeded, RegisterRetry, ReadFailed
<1>7. CASE AdminStep \/ NextDay \/ (\E url \in Urls : ExpireCache(url)) \/ UNCHANGED vars
  <2>1. ASSUME NEW j \in AdminJobs, NEW s \in Submissions, AdminReprocess(j, s) PROVE JobsOfUrl'
    <3>1. \A x \in Urls : run'[x] = run[x]
      BY <2>1, ProcessesAssumption DEF AdminReprocess, TypeInv, RunOK
    <3> QED
      BY <3>1 DEF JobsOfUrl, OfUrl
  <2> QED
    BY <1>1, <1>7, <2>1 DEF AdminStep, UpdateGlobalQuotas, UpdateUserQuotas, NextDay,
                            ExpireCache, vars, procVars
<1> QED
  BY <1>3, <1>4, <1>5, <1>6, <1>7, WorkerOfUrl DEF Next

\* No job is in a slot at first.
LEMMA InitJobsOfUrl == Init => JobsOfUrl
  BY NewJobOfUrl DEF Init, JobsOfUrl

\* So what is left of the two races is NoRace.
LEMMA NoRaceOneAtATime == TypeInv /\ JobsOfUrl /\ NoRace => OneAtATime
<1> SUFFICES ASSUME TypeInv, JobsOfUrl, NoRace PROVE OneAtATime
  OBVIOUS
<1>1. \A r \in Urls, s \in Submissions : Refunding(r, s) => r = urlHash[s]
  BY DEF JobsOfUrl, OfUrl, Refunding
<1> QED
  BY <1>1 DEF OneAtATime, NoRace

LEMMA RacesApart == Spec /\ []NoRace => []OneAtATime
<1>1. TypeInv /\ JobsOfUrl /\ [Next]_vars => (TypeInv /\ JobsOfUrl)'
  BY NextType, NextJobsOfUrl
<1>2. Init => TypeInv /\ JobsOfUrl
  BY InitType, InitJobsOfUrl
<1> QED
  BY <1>1, <1>2, NoRaceOneAtATime, PTL DEF Spec

\* Unless two passes hold a row at the same time, or an admin job and another one both have
\* read it for a refund, every counter is the number of reservations held on it
\* (quota.ts:47-51, 102-104): the code has no other way to miscount, whatever handlers,
\* retries, refunds of jobs of any number of URLs, passes and day changes interleave.
THEOREM LedgerExactButForRaces == Spec /\ []NoRace => []LedgerExact
<1>1. TypeInv /\ LedgerInv /\ OneAtATime /\ [Next]_vars => (TypeInv /\ LedgerInv)'
  BY NextType, NextLedger
<1>2. Init => TypeInv /\ LedgerInv
  BY InitType, InitLedger
<1>3. TypeInv /\ LedgerInv => LedgerExact
  BY DEF LedgerInv, Books, LedgerExact
<1> QED
  BY <1>1, <1>2, <1>3, RacesApart, PTL DEF Spec
-----------------------------------------------------------------------------
(* The refinement: QuotaLedger's reserved and count, in terms of the rows  *)

Reserved == [s \in Submissions |-> IF charged[s] THEN window[s] ELSE 0]

\* The rows of the abstract ledger change where those of the database do.
LEMMA ReservedUpdate ==
  ASSUME NEW s \in Submissions, NEW d,
         IF charged'[s] THEN window'[s] = d ELSE d = 0,
         \A t \in Submissions : t # s =>
           charged'[t] = charged[t] /\ (charged[t] => window'[t] = window[t])
  PROVE  Reserved' = [Reserved EXCEPT ![s] = d]
<1>1. ASSUME NEW t \in Submissions
      PROVE  (IF charged'[t] THEN window'[t] ELSE 0)
               = IF t = s THEN d ELSE IF charged[t] THEN window[t] ELSE 0
  <2>1. CASE t = s
    BY <2>1
  <2>2. CASE t # s
    BY <2>2
  <2> QED
    BY <2>1, <2>2
<1> QED
  BY <1>1 DEF Reserved

\* A charge is a reservation of the abstract ledger: the row holds none, and the
\* counter the caller has read under the lock is below the cap.
LEMMA ChargeReserves ==
  ASSUME TypeInv, CapInv, LedgerInv, OneAtATime, NEW p \in Admitters, Charge(p)
  PROVE  AbstractLedger!Next
<1>0. PICK s \in Submissions, d \in Days : s = admit[p].sub /\ d = admit[p].window
  BY DEF Charge, TypeInv, AdmitOK
<1> DEFINE u == userId[s]
<1>1. ~charged[s] /\ u \in Users
  BY <1>0, AdmitterAlone, OwnersAssumption DEF Charge
<1>2. usage[u][d] < NovelCap
  <2>1. /\ admit[p].used < admit[p].limit /\ admit[p].used = usage[u][d]
        /\ admit[p].limit <= NovelCap
    BY <1>0 DEF Charge, CapInv, CounterRead
  <2>2. usage[u][d] \in Nat /\ admit[p].limit \in Nat
    BY <1>1 DEF TypeInv, CountsOK, AdmitOK, TxnType
  <2> QED
    BY <2>1, <2>2, LimitsAssumption
<1>3. Reserved' = [Reserved EXCEPT ![s] = d]
  <2>1. charged' = [charged EXCEPT ![s] = TRUE] /\ window' = [window EXCEPT ![s] = d]
    BY <1>0 DEF Charge
  <2>2. charged'[s] = TRUE /\ window'[s] = d
    BY <1>1, <2>1 DEF TypeInv, RowsOK
  <2>3. \A t \in Submissions : t # s => charged'[t] = charged[t] /\ window'[t] = window[t]
    BY <1>1, <2>1 DEF TypeInv, RowsOK
  <2> QED
    BY <1>1, <2>2, <2>3, ReservedUpdate
<1>4. Reserved[s] = 0
  BY <1>1 DEF Reserved
<1>5. usage' = [usage EXCEPT ![u][d] = @ + 1]
  BY <1>0 DEF Charge
<1>6. AbstractLedger!Reserve(s, d)
  BY <1>2, <1>3, <1>4, <1>5 DEF AbstractLedger!Reserve, Reserved
<1> QED
  BY <1>1, <1>6 DEF AbstractLedger!Next

\* A refund gives back, once, the reservation of the row on the day it holds it.
LEMMA RefundReturns ==
  ASSUME TypeInv, LedgerInv, NEW r \in Runs, Refund(r)
  PROVE  AbstractLedger!Next
<1>0. PICK s \in Submissions, d \in Days : s = run[r].item /\ d = run[r].window
  BY DEF Refund, TypeInv, RunOK
<1> DEFINE u == userId[s]
<1>1. u \in Users
  BY OwnersAssumption
<1>2. charged[s] /\ window[s] = d
  BY <1>0 DEF Refund, LedgerInv, ReservationRead, Refunding
<1>3. Reserved[s] = d /\ Reserved[s] # 0
  BY <1>1, <1>2 DEF Reserved
<1>4. Reserved' = [Reserved EXCEPT ![s] = 0]
  <2>1. charged' = [charged EXCEPT ![s] = FALSE] /\ window' = window
    BY <1>0 DEF Refund
  <2>2. charged'[s] = FALSE /\ \A t \in Submissions : t # s => charged'[t] = charged[t]
    BY <1>1, <2>1 DEF TypeInv, RowsOK
  <2> QED
    BY <1>1, <2>1, <2>2, ReservedUpdate
<1>5. usage' = [usage EXCEPT ![u][d] = @ - 1]
  <2>1. usage' = [usage EXCEPT ![u][d] = IF @ = 0 THEN 0 ELSE @ - 1]
    BY <1>0 DEF Refund
  <2>2. usage[u][d] > 0 /\ usage[u][d] \in Nat
    BY <1>0, <1>1, RefundBooks DEF TypeInv, CountsOK
  <2>3. usage[u][d] # 0
    BY <2>2
  <2> QED
    BY <2>1, <2>3
<1>6. AbstractLedger!Refund(s)
  BY <1>3, <1>4, <1>5 DEF AbstractLedger!Refund, Reserved
<1> QED
  BY <1>1, <1>6 DEF AbstractLedger!Next

\* A row admitted for free, or deferred, neither takes nor gives back anything.
LEMMA AnswerStutters ==
  ASSUME TypeInv, LedgerInv, OneAtATime, NEW p \in Admitters, AdmitFree(p) \/ Defer(p)
  PROVE  Reserved' = Reserved /\ usage' = usage
<1> DEFINE s == admit[p].sub
<1>1. s \in Submissions /\ ~charged[s] /\ usage' = usage
  BY AdmitterAlone DEF AdmitFree, Defer, countVars
<1>2. charged' = [charged EXCEPT ![s] = FALSE] /\ window' = [window EXCEPT ![s] = 0]
  BY DEF AdmitFree, Defer
<1>3. charged'[s] = FALSE
        /\ \A t \in Submissions : t # s => charged'[t] = charged[t] /\ window'[t] = window[t]
  BY <1>1, <1>2 DEF TypeInv, RowsOK
<1>4. Reserved' = [Reserved EXCEPT ![s] = 0]
  BY <1>1, <1>3, ReservedUpdate
<1>5. Reserved[s] = 0
  BY <1>1 DEF Reserved
<1> QED
  BY <1>1, <1>4, <1>5 DEF Reserved

\* Every step is a step of the abstract ledger, or leaves it alone.
LEMMA StepImplements ==
  TypeInv /\ CapInv /\ LedgerInv /\ OneAtATime /\ [Next]_vars
    => [AbstractLedger!Next]_(AbstractLedger!ledgerVars)
<1> SUFFICES ASSUME TypeInv, CapInv, LedgerInv, OneAtATime, [Next]_vars
             PROVE  AbstractLedger!Next \/ (Reserved' = Reserved /\ usage' = usage)
  BY DEF AbstractLedger!ledgerVars, Reserved
<1>1. ASSUME UNCHANGED <<charged, window, usage>> PROVE Reserved' = Reserved /\ usage' = usage
  BY <1>1 DEF Reserved
<1> QED
  BY <1>1, StepKinds, ChargeReserves, RefundReturns, AnswerStutters

\* The transactions of admitSubmission and refundTechnicalFailure implement the atomic
\* ledger in every behaviour without the two races: a reservation is taken by a row
\* that holds none, below the cap, and given back once (quota.ts:36-51, 94-105).
THEOREM LedgerImplementedButForRaces == Spec /\ []NoRace => ImplementsLedger
<1>1. Init => AbstractLedger!Init
  BY DEF Init, AbstractLedger!Init
<1>2. TypeInv /\ CapInv /\ LedgerInv /\ OneAtATime /\ [Next]_vars
        => (TypeInv /\ CapInv /\ LedgerInv)'
  BY NextType, NextCap, NextLedger
<1>3. Init => TypeInv /\ CapInv /\ LedgerInv
  BY InitType, InitCap, InitLedger
<1> QED
  BY <1>1, <1>2, <1>3, StepImplements, RacesApart, PTL DEF Spec, ImplementsLedger, AbstractLedger!Spec
=============================================================================
