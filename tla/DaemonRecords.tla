---------------------------- MODULE DaemonRecords ----------------------------
(* Four parts of the daemon side by side: the registry (WorkspaceRegistry), *)
(* the processes over one home (DaemonHome), the adapters of a route        *)
(* (AdapterChoice) and the ledger (RunLedger). They share no variable; this *)
(* module gives each its own and names the properties of the last two.      *)
EXTENDS WorkspaceRegistry, DaemonHome

CONSTANTS
    Adapters, Unknown, NoAdapter, Events,
    Runs, Day, FinishedAt, OfRoute, Limit, Readers

VARIABLES
    route, upsert, binaries, isDir, event,
    runFile, days, tried, appended, damaged, reader

A == INSTANCE AdapterChoice WITH call <- upsert
L == INSTANCE RunLedger WITH file <- runFile, present <- days

-----------------------------------------------------------------------------
\* An event is executed by the adapter selected for its route, in a workspace
\* that was found fit after the event was queued, or not at all
\* (selectAdapterLocked, startEvent).
EventsFailClosed == A!EventsFailClosed

\* A selection moves only when the operator asks for it (upsertRoute,
\* determineAdapter).
SelectionSticks == A!SelectionSticks

\* No answer leaves an acknowledged record out in silence, and a call fails
\* only over a damaged file that it had to read (ListRuns, InspectRun).
AnswersAreComplete == L!AnswersAreComplete /\ L!FailuresAreExplained
=============================================================================
