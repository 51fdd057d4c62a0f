------------------------------ MODULE RunQueue ------------------------------
(***************************************************************************)
(* The run queue of epicsd (internal/daemon/daemon.go): HTTP handlers and  *)
(* the cron scheduler put triggers into one bounded queue, one dispatcher  *)
(* goroutine starts an executor goroutine per ready run, executors report  *)
(* back over a buffered channel, and the shutdown goroutine drains,        *)
(* rejects and stops.  Every critical section of s.mu is one action; what  *)
(* the code does outside the mutex (the ledger append, the channel sends)  *)
(* is an action of its own, so goroutines interleave where they may.       *)
(*                                                                         *)
(* A run is known by its id.  The event snapshot it carries (route id,     *)
(* workspace id, overlap policy) is taken before it is queued and never    *)
(* changes, so the snapshots are constants.                                *)
(***************************************************************************)
EXTENDS Integers, SequencesExt, FiniteSets

CONSTANTS
    Runs,                     \* run ids; every trigger generates a fresh one
    Routes,                   \* route ids
    Workspaces,               \* workspace ids
    RouteOf,                  \* event.route.ID
    WorkspaceOf,              \* event.workspace.ID
    Overlap,                  \* event.route.OverlapPolicy; "none" for a webhook
    GlobalQueueCapacity,
    PerWorkspaceConcurrency,
    FinishChanCapacity,       \* make(chan finishedRun, 64)
    LedgerMayFail             \* can AppendRun return an error, which is ignored?

OverlapPolicies == {"none", "single_flight", "queue_one"}

ASSUME RunsFinite == IsFiniteSet(Runs)
ASSUME SnapshotTypes ==
    /\ RouteOf \in [Runs -> Routes]
    /\ WorkspaceOf \in [Runs -> Workspaces]
    /\ Overlap \in [Runs -> OverlapPolicies]
\* A route id starts with its kind ("webhook:" or "cron:"), so runs of one
\* route are all webhook deliveries or all cron firings.
ASSUME RouteHasOneKind ==
    \A r, s \in Runs :
        RouteOf[r] = RouteOf[s] => (Overlap[r] = "none" <=> Overlap[s] = "none")
\* normalizeConfig replaces a zero by the default.
ASSUME ConfigAssumption ==
    /\ GlobalQueueCapacity \in Nat \ {0}
    /\ PerWorkspaceConcurrency \in Nat \ {0}
    /\ FinishChanCapacity \in Nat \ {0}
    /\ LedgerMayFail \in BOOLEAN

VARIABLES
    stage,              \* where each run is
    outcome,            \* run.Outcome of each run
    pending,            \* s.pending
    routeRunning,       \* s.routeRunning, as the set of its keys
    workspaceRunning,   \* s.workspaceRunning
    notified,           \* is the token in s.notifyCh (capacity 1)?
    finishCh,           \* s.finishCh
    dispatcher,         \* control point of dispatchLoop
    scheduler,          \* control point of schedulerLoop
    phase,              \* control point of Run / shutdown, and of the process
    purged,             \* the local slice rejectPending took from s.pending
    forced,             \* did shutdown leave its loop through the deadline?
    ledger              \* what runs/*.jsonl records of each run, in file order

queueVars    == <<pending, notified>>
markVars     == <<routeRunning, workspaceRunning>>
runVars      == <<stage, outcome>>
shutdownVars == <<phase, purged, forced>>
vars == <<stage, outcome, pending, routeRunning, workspaceRunning, notified,
          finishCh, dispatcher, scheduler, phase, purged, forced, ledger>>

(***************************************************************************)
(* Stages of a run, in the order a run may pass through them.              *)
(*   new         the trigger has not fired                                 *)
(*   refused     turned away; the caller has still to append its record    *)
(*   pending     in s.pending (a webhook caller has been answered 202)     *)
(*   purged      in the slice rejectPending works through                  *)
(*   starting    marked running, the executor assesses the workspace       *)
(*   dispatching inside the adapter's Dispatch                             *)
(*   finishing   Dispatch returned, the executor wants to send on finishCh *)
(*   sent        in finishCh                                               *)
(*   clearing    received and unmarked, not yet appended                   *)
(*   closed      AppendRun has been called                                 *)
(*   lost        the process ended first                                   *)
(***************************************************************************)
Stages == {"new", "refused", "pending", "purged", "starting", "dispatching",
           "finishing", "sent", "clearing", "closed", "lost"}
Outcomes == {"queued", "running", "succeeded", "failed", "rejected", "skipped"}
\* The outcomes of a run that was turned away, and of one that executed.
Refusals == {"rejected", "skipped"}
Results  == {"succeeded", "failed", "rejected"}
\* Runs that hold their route and a slot of their workspace.
MarkedStages   == {"starting", "dispatching", "finishing", "sent"}
\* Runs the daemon has accepted and not yet recorded.
AcceptedStages == {"pending", "purged", "clearing"} \cup MarkedStages
Volatile       == {"refused"} \cup AcceptedStages

Marked     == {r \in Runs : stage[r] \in MarkedStages}
Accepting  == phase = "serving"
Alive      == phase \notin {"stopped", "down"}
IsCron(r)  == Overlap[r] # "none"
Backlog(rt) == {i \in DOMAIN pending : RouteOf[pending[i]] = rt}

Init ==
    /\ stage = [r \in Runs |-> "new"]
    /\ outcome = [r \in Runs |-> "queued"]
    /\ pending = <<>>
    /\ routeRunning = {}
    /\ workspaceRunning = [w \in Workspaces |-> 0]
    /\ notified = FALSE
    /\ finishCh = <<>>
    /\ dispatcher = "select"
    /\ scheduler = "ready"
    /\ phase = "serving"
    /\ purged = <<>>
    /\ forced = FALSE
    /\ ledger = [r \in Runs |-> <<>>]

-----------------------------------------------------------------------------
(* Triggers: HTTP handler goroutines and the scheduler goroutine.          *)

\* The write of one ledger line; its error is discarded by every caller.
Record(r, result) ==
    /\ stage' = [stage EXCEPT ![r] = "closed"]
    /\ outcome' = [outcome EXCEPT ![r] = result]
    /\ \/ ledger' = [ledger EXCEPT ![r] = Append(@, result)]
       \/ LedgerMayFail /\ UNCHANGED ledger

\* Mutant: append to s.pending without signalWork.
PushUnsignalled(r) ==
    /\ pending' = Append(pending, r)
    /\ stage' = [stage EXCEPT ![r] = "pending"]
    /\ UNCHANGED <<outcome, notified>>

\* pending = append(pending, &event); signalWork()
Push(r) ==
    /\ pending' = Append(pending, r)
    /\ notified' = TRUE
    /\ stage' = [stage EXCEPT ![r] = "pending"]
    /\ UNCHANGED outcome

\* Mutant: the failure reason is stored where the outcome belongs.
TurnAwayReasonAsOutcome(r, result) ==
    /\ stage' = [stage EXCEPT ![r] = "refused"]
    /\ outcome' = [outcome EXCEPT ![r] = "queue_saturated"]
    /\ UNCHANGED queueVars

TurnAway(r, result) ==
    /\ stage' = [stage EXCEPT ![r] = "refused"]
    /\ outcome' = [outcome EXCEPT ![r] = result]
    /\ UNCHANGED queueVars

\* Mutant: the capacity test lets one event too many in.
EnqueueOverCapacity(r) ==
    /\ Alive
    /\ stage[r] = "new" /\ ~IsCron(r)
    /\ \/ /\ Accepting /\ Len(pending) <= GlobalQueueCapacity
          /\ Push(r)
       \/ /\ ~(Accepting /\ Len(pending) <= GlobalQueueCapacity)
          /\ TurnAway(r, "rejected")
    /\ UNCHANGED <<markVars, finishCh, dispatcher, scheduler, shutdownVars, ledger>>

\* enqueue, called by a webhook handler
Enqueue(r) ==
    /\ Alive
    /\ stage[r] = "new" /\ ~IsCron(r)
    /\ \/ /\ Accepting /\ Len(pending) < GlobalQueueCapacity
          /\ Push(r)
       \/ /\ ~(Accepting /\ Len(pending) < GlobalQueueCapacity)
          /\ TurnAway(r, "rejected")
    /\ UNCHANGED <<markVars, finishCh, dispatcher, scheduler, shutdownVars, ledger>>

\* The handler appends the record of the delivery it turned away.
AppendRefusedWebhook(r) ==
    /\ phase # "down"
    /\ stage[r] = "refused" /\ ~IsCron(r)
    /\ Record(r, outcome[r])
    /\ UNCHANGED <<queueVars, markVars, finishCh, dispatcher, scheduler, shutdownVars>>

\* Mutant: the test forgets the queue.
OverlapsRunningOnly(r) ==
    Overlap[r] = "single_flight" /\ RouteOf[r] \in routeRunning

\* The overlap test of enqueueCronWithPolicy
Overlaps(r) ==
    \/ Backlog(RouteOf[r]) # {}
    \/ Overlap[r] = "single_flight" /\ RouteOf[r] \in routeRunning

\* enqueueCron up to its AppendRun.  The adapter may be unhealthy.
EnqueueCron(r) ==
    /\ Alive
    /\ scheduler = "ready"
    /\ stage[r] = "new" /\ IsCron(r)
    /\ \/ /\ TurnAway(r, "rejected")                   \* adapter unhealthy
          /\ scheduler' = "append"
       \/ /\ Accepting /\ Overlaps(r)
          /\ TurnAway(r, "skipped")
          /\ scheduler' = "append"
       \/ /\ Accepting /\ ~Overlaps(r)
          /\ Len(pending) < GlobalQueueCapacity
          /\ Push(r)
          /\ UNCHANGED scheduler
       \/ /\ ~Accepting \/ (~Overlaps(r) /\ Len(pending) >= GlobalQueueCapacity)
          /\ TurnAway(r, "rejected")                   \* queue_saturated
          /\ scheduler' = "append"
    /\ UNCHANGED <<markVars, finishCh, dispatcher, shutdownVars, ledger>>

AppendRefusedCron(r) ==
    /\ Alive
    /\ scheduler = "append"
    /\ stage[r] = "refused" /\ IsCron(r)
    /\ Record(r, outcome[r])
    /\ scheduler' = "ready"
    /\ UNCHANGED <<queueVars, markVars, finishCh, dispatcher, shutdownVars>>

-----------------------------------------------------------------------------
(* The dispatcher goroutine: select over loopCtx.Done, finishCh, notifyCh. *)

\* Mutants: the scan forgets the route, or is off by one at the workspace cap.
BlockedByWorkspaceOnly(r) ==
    workspaceRunning[WorkspaceOf[r]] >= PerWorkspaceConcurrency
BlockedAboveCap(r) ==
    \/ RouteOf[r] \in routeRunning
    \/ workspaceRunning[WorkspaceOf[r]] > PerWorkspaceConcurrency

Blocked(r) ==
    \/ RouteOf[r] \in routeRunning
    \/ workspaceRunning[WorkspaceOf[r]] >= PerWorkspaceConcurrency

FirstReady(i) ==
    /\ i \in DOMAIN pending
    /\ ~Blocked(pending[i])
    /\ \A j \in 1 .. (i - 1) : Blocked(pending[j])

NothingReady == \A i \in DOMAIN pending : Blocked(pending[i])

ReceiveNotify ==
    /\ Alive
    /\ dispatcher = "select" /\ notified
    /\ notified' = FALSE
    /\ dispatcher' = "scan"
    /\ UNCHANGED <<runVars, pending, markVars, finishCh, scheduler, shutdownVars, ledger>>

\* nextReadyEvent picks the first event that is not blocked, startEvent
\* launches its goroutine; the scan goes on until nextReadyEvent is nil.
NextReadyEvent ==
    /\ Alive
    /\ dispatcher = "scan"
    /\ \E i \in DOMAIN pending :
        /\ FirstReady(i)
        /\ pending' = RemoveAt(pending, i)
        /\ routeRunning' = routeRunning \cup {RouteOf[pending[i]]}
        /\ workspaceRunning' = [workspaceRunning EXCEPT ![WorkspaceOf[pending[i]]] = @ + 1]
        /\ stage' = [stage EXCEPT ![pending[i]] = "starting"]
    /\ UNCHANGED <<outcome, notified, finishCh, dispatcher, scheduler, shutdownVars, ledger>>

NoReadyEvent ==
    /\ Alive
    /\ dispatcher = "scan"
    /\ NothingReady
    /\ dispatcher' = "select"
    /\ UNCHANGED <<runVars, queueVars, markVars, finishCh, scheduler, shutdownVars, ledger>>

\* The critical section of handleFinished: the marks go before the record.
ReceiveFinished ==
    /\ Alive
    /\ dispatcher = "select" /\ finishCh # <<>>
    /\ LET r == Head(finishCh) IN
        /\ routeRunning' = routeRunning \ {RouteOf[r]}
        /\ workspaceRunning' =
              [workspaceRunning EXCEPT ![WorkspaceOf[r]] = IF @ > 0 THEN @ - 1 ELSE @]
        /\ stage' = [stage EXCEPT ![r] = "clearing"]
    /\ finishCh' = Tail(finishCh)
    /\ dispatcher' = "append"
    /\ UNCHANGED <<outcome, queueVars, scheduler, shutdownVars, ledger>>

AppendFinished(r) ==
    /\ Alive
    /\ dispatcher = "append" /\ stage[r] = "clearing"
    /\ Record(r, outcome[r])
    /\ dispatcher' = "signal"
    /\ UNCHANGED <<queueVars, markVars, finishCh, scheduler, shutdownVars>>

\* Mutant: handleFinished returns without signalWork.
SignalFinishedSilently ==
    /\ Alive
    /\ dispatcher = "signal"
    /\ dispatcher' = "select"
    /\ UNCHANGED <<runVars, queueVars, markVars, finishCh, scheduler, shutdownVars, ledger>>

\* saveRoutes, then signalWork
SignalFinished ==
    /\ Alive
    /\ dispatcher = "signal"
    /\ notified' = TRUE
    /\ dispatcher' = "select"
    /\ UNCHANGED <<runVars, pending, markVars, finishCh, scheduler, shutdownVars, ledger>>

-----------------------------------------------------------------------------
(* Executor goroutines.  They outlive the loops: nobody waits for them.    *)

executorFrame == <<queueVars, markVars, dispatcher, scheduler, shutdownVars, ledger>>

\* refreshWorkspace or determineAdapter failed
StartRejected(r) ==
    /\ phase # "down"
    /\ stage[r] = "starting"
    /\ stage' = [stage EXCEPT ![r] = "finishing"]
    /\ outcome' = [outcome EXCEPT ![r] = "rejected"]
    /\ UNCHANGED <<executorFrame, finishCh>>

StartDispatch(r) ==
    /\ phase # "down"
    /\ stage[r] = "starting"
    /\ stage' = [stage EXCEPT ![r] = "dispatching"]
    /\ outcome' = [outcome EXCEPT ![r] = "running"]
    /\ UNCHANGED <<executorFrame, finishCh>>

\* The adapter's process ends, by itself or killed when loopCtx is cancelled.
DispatchReturns(r) ==
    /\ phase # "down"
    /\ stage[r] = "dispatching"
    /\ stage' = [stage EXCEPT ![r] = "finishing"]
    /\ \E result \in {"succeeded", "failed"} : outcome' = [outcome EXCEPT ![r] = result]
    /\ UNCHANGED <<executorFrame, finishCh>>

\* s.finishCh <- finishedRun{...} blocks while the buffer is full.
SendFinished(r) ==
    /\ phase # "down"
    /\ stage[r] = "finishing"
    /\ Len(finishCh) < FinishChanCapacity
    /\ finishCh' = Append(finishCh, r)
    /\ stage' = [stage EXCEPT ![r] = "sent"]
    /\ UNCHANGED <<executorFrame, outcome>>

-----------------------------------------------------------------------------
(* The shutdown goroutine, and the end and the restart of the process.     *)

triggerFrame == <<markVars, finishCh, dispatcher, scheduler, ledger>>

BeginShutdown ==
    /\ phase = "serving"
    /\ phase' = "draining"
    /\ UNCHANGED <<triggerFrame, runVars, queueVars, purged, forced>>

\* Mutant: the runtime counts as idle while runs execute.
RuntimeIdleEmptyQueue == pending = <<>>

RuntimeIdle == pending = <<>> /\ routeRunning = {}

\* runtimeIdle() was true: loopCancel()
StopIdle ==
    /\ phase = "draining" /\ RuntimeIdle
    /\ phase' = "cancelled"
    /\ UNCHANGED <<triggerFrame, runVars, queueVars, purged, forced>>

\* Mutant: rejectPending works on s.pending and leaves it in place.
DeadlineKeepsQueue ==
    /\ phase = "draining"
    /\ phase' = "rejecting"
    /\ forced' = TRUE
    /\ purged' = pending
    /\ stage' = [r \in Runs |-> IF stage[r] = "pending" THEN "purged" ELSE stage[r]]
    /\ UNCHANGED <<triggerFrame, outcome, queueVars>>

\* Mutant: the deadline waits for the runs that execute.
DeadlineWaitsForRuns ==
    /\ phase = "draining" /\ routeRunning = {}
    /\ phase' = "rejecting"
    /\ forced' = TRUE
    /\ purged' = pending
    /\ pending' = <<>>
    /\ stage' = [r \in Runs |-> IF stage[r] = "pending" THEN "purged" ELSE stage[r]]
    /\ UNCHANGED <<triggerFrame, outcome, notified>>

\* deadline.C fired: rejectPending swaps the queue out under the mutex ...
Deadline ==
    /\ phase = "draining"
    /\ phase' = "rejecting"
    /\ forced' = TRUE
    /\ purged' = pending
    /\ pending' = <<>>
    /\ stage' = [r \in Runs |-> IF stage[r] = "pending" THEN "purged" ELSE stage[r]]
    /\ UNCHANGED <<triggerFrame, outcome, notified>>

\* ... and appends one rejection after the other.
RejectPurged ==
    /\ phase = "rejecting" /\ purged # <<>>
    /\ Record(Head(purged), "rejected")
    /\ purged' = Tail(purged)
    /\ UNCHANGED <<queueVars, markVars, finishCh, dispatcher, scheduler, phase, forced>>

CancelForced ==
    /\ phase = "rejecting" /\ purged = <<>>
    /\ phase' = "cancelled"
    /\ UNCHANGED <<triggerFrame, runVars, queueVars, purged, forced>>

\* loopCtx.Done() is ready; select may still prefer another ready case.
DispatcherExit ==
    /\ phase = "cancelled" /\ dispatcher = "select"
    /\ dispatcher' = "exited"
    /\ UNCHANGED <<runVars, queueVars, markVars, finishCh, scheduler, shutdownVars, ledger>>

SchedulerExit ==
    /\ phase = "cancelled" /\ scheduler = "ready"
    /\ scheduler' = "exited"
    /\ UNCHANGED <<runVars, queueVars, markVars, finishCh, dispatcher, shutdownVars, ledger>>

\* loopWG.Wait() returns and with it shutdown and Run.
Stop ==
    /\ phase = "cancelled"
    /\ dispatcher = "exited" /\ scheduler = "exited"
    /\ phase' = "stopped"
    /\ UNCHANGED <<triggerFrame, runVars, queueVars, purged, forced>>

\* The process ends: everything but the ledger was in its memory.
ProcessEnds ==
    /\ phase' = "down"
    /\ stage' = [r \in Runs |-> IF stage[r] \in Volatile THEN "lost" ELSE stage[r]]
    /\ pending' = <<>> /\ purged' = <<>> /\ finishCh' = <<>>
    /\ routeRunning' = {}
    /\ workspaceRunning' = [w \in Workspaces |-> 0]
    /\ notified' = FALSE
    /\ dispatcher' = "select" /\ scheduler' = "ready"
    /\ forced' = FALSE
    /\ UNCHANGED <<outcome, ledger>>

Exit  == phase = "stopped" /\ ProcessEnds
Crash == Alive /\ ProcessEnds

\* Mutant: the new process opens the ledger of the day with O_TRUNC.
RestartTruncatesLedger ==
    /\ phase = "down"
    /\ phase' = "serving"
    /\ ledger' = [r \in Runs |-> <<>>]
    /\ UNCHANGED <<markVars, finishCh, dispatcher, scheduler, runVars, queueVars, purged, forced>>

\* A new process: New() makes an empty queue, Run() starts both loops.
Restart ==
    /\ phase = "down"
    /\ phase' = "serving"
    /\ UNCHANGED <<triggerFrame, runVars, queueVars, purged, forced>>

-----------------------------------------------------------------------------
Trigger(r) ==
    \/ Enqueue(r) \/ AppendRefusedWebhook(r)
    \/ EnqueueCron(r) \/ AppendRefusedCron(r)
Executor(r) ==
    StartRejected(r) \/ StartDispatch(r) \/ DispatchReturns(r) \/ SendFinished(r)
Dispatcher ==
    \/ ReceiveNotify \/ NextReadyEvent \/ NoReadyEvent
    \/ ReceiveFinished \/ (\E r \in Runs : AppendFinished(r)) \/ SignalFinished
Shutdown ==
    \/ BeginShutdown \/ StopIdle \/ Deadline \/ RejectPurged \/ CancelForced
    \/ DispatcherExit \/ SchedulerExit \/ Stop
Process == Exit \/ Crash \/ Restart

Next ==
    \/ \E r \in Runs : Trigger(r) \/ Executor(r)
    \/ Dispatcher
    \/ Shutdown
    \/ Process

Spec == Init /\ [][Next]_vars

(***************************************************************************)
(* Fairness.  Goroutines that can run do run.  The dispatcher's select     *)
(* picks at random among its ready cases, so each case gets strong         *)
(* fairness of its own; so does a send on a channel that fills up again.   *)
(* Goroutines of one kind share one fairness condition, which is weaker    *)
(* than one each, and enough because every run takes each step once.       *)
(* Nothing forces a trigger, a shutdown or a crash.                        *)
(***************************************************************************)
GoroutineFairness ==
    /\ SF_vars(ReceiveNotify) /\ SF_vars(ReceiveFinished)
    /\ SF_vars(DispatcherExit) /\ SF_vars(SchedulerExit)
    /\ WF_vars(\/ NextReadyEvent \/ NoReadyEvent \/ SignalFinished
               \/ \E r \in Runs : AppendFinished(r))
    /\ WF_vars(\E r \in Runs : AppendRefusedCron(r))
    /\ WF_vars(StopIdle \/ Deadline \/ RejectPurged \/ CancelForced \/ Stop \/ Exit)

\* The adapter's process ends; the code sets no timeout on it.
ExecutorFairness ==
    /\ WF_vars(\E r \in Runs : StartRejected(r) \/ StartDispatch(r))
    /\ WF_vars(\E r \in Runs : DispatchReturns(r))
    /\ SF_vars(\E r \in Runs : SendFinished(r))

\* The adapter's process may hang for ever.
FairSpec == Spec /\ GoroutineFairness

-----------------------------------------------------------------------------
(* Properties *)

TypeOK ==
    /\ stage \in [Runs -> Stages]
    /\ outcome \in [Runs -> Outcomes]
    /\ pending \in Seq(Runs)
    /\ routeRunning \in SUBSET Routes
    /\ workspaceRunning \in [Workspaces -> Nat]
    /\ notified \in BOOLEAN
    /\ finishCh \in Seq(Runs)
    /\ dispatcher \in {"select", "scan", "append", "signal", "exited"}
    /\ scheduler \in {"ready", "append", "exited"}
    /\ phase \in {"serving", "draining", "rejecting", "cancelled", "stopped", "down"}
    /\ purged \in Seq(Runs)
    /\ forced \in BOOLEAN
    /\ ledger \in [Runs -> Seq(Outcomes)]

\* No two runs of one route execute at the same time, from the moment the
\* dispatcher marks the route to the moment it receives the result, and a
\* route is marked exactly while one of its runs executes: a mark is neither
\* left behind nor removed early (nextReadyEvent, handleFinished).
RouteExclusive ==
    /\ routeRunning = {RouteOf[r] : r \in Marked}
    /\ \A r, s \in Marked : RouteOf[r] = RouteOf[s] => r = s

\* A workspace never executes more than PerWorkspaceConcurrency runs, and its
\* counter is the number of runs that execute: no slot leaks or is freed twice
\* (nextReadyEvent, handleFinished).
InWorkspace(w) == {r \in Marked : WorkspaceOf[r] = w}
WorkspaceCapHolds ==
    \A w \in Workspaces :
        /\ workspaceRunning[w] = Cardinality(InWorkspace(w))
        /\ workspaceRunning[w] <= PerWorkspaceConcurrency

\* The queue never outgrows its capacity, no run is in it, or on its way to
\* the ledger, twice, and nothing enters it once shutdown has found it idle
\* or has emptied it, where nobody would ever take it out (enqueue,
\* nextReadyEvent, shutdown, rejectPending).
QueueSound ==
    /\ Len(pending) <= GlobalQueueCapacity
    /\ phase \notin {"serving", "draining"} => pending = <<>>
    /\ phase # "rejecting" => purged = <<>>
    /\ IsInjective(pending) /\ IsInjective(finishCh) /\ IsInjective(purged)
    /\ ToSet(pending) = {r \in Runs : stage[r] = "pending"}
    /\ ToSet(purged) = {r \in Runs : stage[r] = "purged"}
    /\ ToSet(finishCh) = {r \in Runs : stage[r] = "sent"}

\* The overlap policies of enqueueCronWithPolicy hold whatever the dispatcher
\* does meanwhile: at most one firing of a cron route waits, and a
\* single_flight firing never waits behind a running one.
CronOverlap ==
    \A r, s \in Runs :
        (r # s /\ IsCron(r) /\ RouteOf[r] = RouteOf[s] /\ stage[r] = "pending") =>
            /\ stage[s] # "pending"
            /\ Overlap[r] = "single_flight" => s \notin Marked

\* The wake-up token is never lost: when the dispatcher sleeps in its select
\* with no token to receive, no queued event could start (signalWork drops
\* the token when one is there; nextReadyEvent scans without holding the
\* mutex between two events).
NoLostWakeup == (dispatcher = "select" /\ ~notified) => NothingReady

\* A run is recorded at most once, only when its life is over, and exactly
\* once if the ledger can be written, with an outcome that fits: handleFinished,
\* rejectPending and the refusals never record the same run, and no record
\* says "queued" or "running".
RecordedOnce ==
    \A r \in Runs :
        /\ Len(ledger[r]) <= 1
        /\ stage[r] # "closed" => ledger[r] = <<>>
        /\ (stage[r] = "closed" /\ ~LedgerMayFail) => ledger[r] = <<outcome[r]>>
        /\ stage[r] = "refused" => outcome[r] \in Refusals
        /\ stage[r] \in {"finishing", "sent", "clearing"} => outcome[r] \in Results
        /\ stage[r] = "closed" => outcome[r] \in Refusals \cup Results

\* When shutdown returns, every run that was still queued has been recorded;
\* when it returns before the deadline, so has every run that was accepted:
\* an idle runtime means that nothing is on its way to the ledger but what
\* the dispatcher holds, and loopWG.Wait waits for that.
StopAccountsForRuns ==
    phase = "stopped" =>
        \A r \in Runs :
            /\ stage[r] \notin {"pending", "purged", "clearing"}
            /\ stage[r] \in MarkedStages => forced

\* A record, once in the ledger, is never changed or removed, by a crash and a
\* restart either, and a run that is over never starts again.
LedgerIsAppendOnly ==
    [][\A r \in Runs :
          /\ IsPrefix(ledger[r], ledger'[r])
          /\ stage[r] \in {"closed", "lost"} => stage'[r] = stage[r]]_vars

\* If the adapters' processes end, every accepted run ends in the ledger, unless
\* epicsd ends first: no wake-up is lost, no blocked route stays blocked, no
\* slot leaks.
AcceptedRunEnds ==
    ExecutorFairness => \A r \in Runs : stage[r] = "pending" ~> stage[r] \in {"closed", "lost"}

\* A shutdown ends even if every adapter process hangs: neither the drain nor
\* loopWG.Wait waits for an executor past the deadline.
ShutdownEnds == phase = "draining" ~> phase = "down"
=============================================================================
