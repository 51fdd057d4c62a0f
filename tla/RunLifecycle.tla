---------------------------- MODULE RunLifecycle ----------------------------
(***************************************************************************)
(* What epicsd promises about a run, without its goroutines, its queue     *)
(* order or its wake-ups: a run is accepted only while there is room and   *)
(* its overlap policy allows it, it executes only when its route is free   *)
(* and its workspace has a slot, and it is recorded at most once, with a   *)
(* result that fits what happened to it.  RunQueueImplements shows that    *)
(* RunQueue keeps these promises.                                          *)
(***************************************************************************)
EXTENDS Integers, Sequences, FiniteSets

CONSTANTS Runs, RouteOf, WorkspaceOf, Overlap,
          GlobalQueueCapacity, PerWorkspaceConcurrency

VARIABLES status,   \* of each run
          ledger    \* the results recorded of each run

Statuses == {"new", "turned_away", "queued", "running", "ended", "over", "lost"}

In(s)       == {r \in Runs : status[r] = s}
RouteMates(r) == {s \in Runs \ {r} : RouteOf[s] = RouteOf[r]}

Init ==
    /\ status = [r \in Runs |-> "new"]
    /\ ledger = [r \in Runs |-> <<>>]

\* The results a record may carry, by the status the run leaves.
ResultsOf(s) ==
    CASE s = "turned_away" -> {"rejected", "skipped"}
      [] s = "queued"      -> {"rejected"}
      [] OTHER             -> {"succeeded", "failed", "rejected"}

Move(r, from, to) == status[r] = from /\ status' = [status EXCEPT ![r] = to]

Accept(r) ==
    /\ Cardinality(In("queued")) < GlobalQueueCapacity
    /\ Overlap[r] # "none" => RouteMates(r) \cap In("queued") = {}
    /\ Overlap[r] = "single_flight" => RouteMates(r) \cap In("running") = {}
    /\ Move(r, "new", "queued")
    /\ UNCHANGED ledger

TurnAway(r) == Move(r, "new", "turned_away") /\ UNCHANGED ledger

Start(r) ==
    /\ RouteMates(r) \cap In("running") = {}
    /\ Cardinality({s \in In("running") : WorkspaceOf[s] = WorkspaceOf[r]})
         < PerWorkspaceConcurrency
    /\ Move(r, "queued", "running")
    /\ UNCHANGED ledger

End(r) == Move(r, "running", "ended") /\ UNCHANGED ledger

\* The record may be missing: the write can fail unnoticed.
Close(r) ==
    \E s \in {"turned_away", "queued", "ended"} :
        /\ Move(r, s, "over")
        /\ \/ \E result \in ResultsOf(s) :
                ledger' = [ledger EXCEPT ![r] = Append(@, result)]
           \/ UNCHANGED ledger

\* The process ends, and with it every run that is not over.
Lose ==
    /\ status' = [r \in Runs |-> IF status[r] \in {"new", "over", "lost"}
                                 THEN status[r] ELSE "lost"]
    /\ UNCHANGED ledger

Next ==
    \/ \E r \in Runs : Accept(r) \/ TurnAway(r) \/ Start(r) \/ End(r) \/ Close(r)
    \/ Lose

Spec == Init /\ [][Next]_<<status, ledger>>
=============================================================================
