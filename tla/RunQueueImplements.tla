------------------------- MODULE RunQueueImplements -------------------------
(* RunQueue implements RunLifecycle: the refinement mapping.               *)
EXTENDS RunQueue

\* A queued run keeps its promise of a record while rejectPending holds it;
\* a run executes until the dispatcher has received its result.
statusOf(s) ==
    CASE s = "refused"              -> "turned_away"
      [] s \in {"pending", "purged"} -> "queued"
      [] s \in MarkedStages          -> "running"
      [] s = "clearing"             -> "ended"
      [] s = "closed"               -> "over"
      [] OTHER                      -> s

Lifecycle == INSTANCE RunLifecycle WITH
    status <- [r \in Runs |-> statusOf(stage[r])]

\* Every behaviour of the daemon's queue is one that RunLifecycle allows: the
\* goroutines of handleWebhook, catchUpCron, dispatchLoop, startEvent and
\* shutdown together keep its promises.
ImplementsLifecycle == Lifecycle!Spec
=============================================================================
