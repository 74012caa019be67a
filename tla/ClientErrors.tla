---------------------------- MODULE ClientErrors ----------------------------
(***************************************************************************)
(* The error window of POST /v1/client-errors (app.ts): per process and    *)
(* user, a count of the reports accepted since the window was opened.      *)
(* A handler does not await between reading and writing its window.        *)
(***************************************************************************)
EXTENDS Naturals, Sequences, FiniteSets

CONSTANTS
    Clients,    \* users of the mobile app
    MaxErrors,  \* reports per window, 30 in the code
    Minute,     \* length of a window, 60 000 ms in the code
    MaxClock,   \* bound on the clock
    Never       \* no window, no refusal

VARIABLES
    clock,      \* Date.now(), taken to go forward
    windows,    \* mobileErrorWindows
    accepted,   \* history: when each user's reports were accepted by this process
    refused     \* history: when each user was last refused by this process

errorVars == <<clock, windows, accepted, refused>>

ErrorsInit ==
    /\ clock = 0
    /\ windows = [u \in Clients |-> Never]
    /\ accepted = [u \in Clients |-> <<>>]
    /\ refused = [u \in Clients |-> Never]
-----------------------------------------------------------------------------
\* The window a report falls in: a new one if there is none or a minute has passed.
WindowMutant(u) ==
    IF windows[u] = Never \/ clock - windows[u].startedAt > Minute
    THEN [startedAt |-> clock, count |-> 0]
    ELSE windows[u]
Window(u) ==
    IF windows[u] = Never \/ clock - windows[u].startedAt >= Minute
    THEN [startedAt |-> clock, count |-> 0]
    ELSE windows[u]

AcceptMutant(u) ==
    /\ Window(u).count <= MaxErrors
    /\ windows' = [windows EXCEPT ![u] = [Window(u) EXCEPT !.count = @ + 1]]
    /\ accepted' = [accepted EXCEPT ![u] = Append(@, clock)]
    /\ UNCHANGED <<clock, refused>>
Accept(u) ==
    /\ Window(u).count < MaxErrors
    /\ windows' = [windows EXCEPT ![u] = [Window(u) EXCEPT !.count = @ + 1]]
    /\ accepted' = [accepted EXCEPT ![u] = Append(@, clock)]
    /\ UNCHANGED <<clock, refused>>

\* 429, with the window left as it is.
Refuse(u) ==
    /\ Window(u).count >= MaxErrors
    /\ refused' = [refused EXCEPT ![u] = clock]
    /\ UNCHANGED <<clock, windows, accepted>>

\* The windows are the process's memory.
Restart ==
    /\ windows' = [u \in Clients |-> Never]
    /\ accepted' = [u \in Clients |-> <<>>]
    /\ refused' = [u \in Clients |-> Never]
    /\ UNCHANGED clock

ErrorsTick == clock < MaxClock /\ clock' = clock + 1 /\ UNCHANGED <<windows, accepted, refused>>

ErrorsNext == Restart \/ ErrorsTick \/ \E u \in Clients : Accept(u) \/ Refuse(u)
ErrorsSpec == ErrorsInit /\ [][ErrorsNext]_errorVars
-----------------------------------------------------------------------------
(* Properties                                                              *)

\* Windows are opened by the first report after the last one ended, so the end of one and
\* the start of the next lie together in a minute: it may see up to 2 * MaxErrors reports
\* of a user, and never more (app.ts:185-188).
SpanBounded ==
    \A u \in Clients : \A i \in DOMAIN accepted[u] :
        i > 2 * MaxErrors => accepted[u][i] >= accepted[u][i - 2 * MaxErrors] + Minute

\* A user is refused only when MaxErrors of its reports were accepted within the minute
\* before (app.ts:185-186): a refusal does not extend the window.
Recent(u, t) == {i \in DOMAIN accepted[u] : accepted[u][i] <= t /\ t < accepted[u][i] + Minute}
RefusedWhenFull ==
    \A u \in Clients : refused[u] # Never => Cardinality(Recent(u, refused[u])) >= MaxErrors
=============================================================================
