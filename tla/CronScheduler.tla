--------------------------- MODULE CronScheduler ---------------------------
(***************************************************************************)
(* The cron scheduler of epicsd (internal/daemon/daemon.go, cronexpr.go):  *)
(* catchUpCron hands every due time between the last tick and now to       *)
(* enqueueCron, then moves the last tick and saves it in state.json.  The  *)
(* clock runs on, routes are switched and the process may end between any  *)
(* two of its steps.  A save whose rename fails removes state.json before  *)
(* it renames again (writeFileAtomically): the next process finds none,    *)
(* Ensure writes one without a tick, and the count begins anew.            *)
(*                                                                         *)
(* Time is counted in ticks; a second has Second ticks, because state.json *)
(* keeps the last tick in RFC 3339, without fractions.  A route's schedule *)
(* is the set of times at which its expression matches; they are multiples *)
(* of its unit, a minute, or a second if the expression has six fields.    *)
(***************************************************************************)
EXTENDS Integers

CONSTANTS
    Routes,         \* cron routes
    Second,         \* ticks of the clock in a second
    UnitOf,         \* ticks in the unit of the route's expression
    Schedule,       \* multiples of that unit at which the expression matches
    MaxTime,        \* bound on the clock
    MaxFaults,      \* bound on the ends of the process and the clock's steps back
    SavesMayFail    \* can the saves of state.json and workspaces.json fail?

Times == 0 .. MaxTime
NoTick == -1        \* an empty lastSchedulerTickAt

ASSUME UnitTypes ==
    /\ Second \in Nat \ {0}
    /\ \A r \in Routes : UnitOf[r] \in Nat \ {0} /\ UnitOf[r] % Second = 0
ASSUME ScheduleTypes ==
    \A r \in Routes : \A t \in Schedule[r] : t \in Times /\ t % UnitOf[r] = 0
ASSUME BoundTypes == /\ MaxTime \in Nat /\ Second <= MaxTime /\ MaxFaults \in Nat
                     /\ SavesMayFail \in BOOLEAN

VARIABLES
    clock,          \* the wall clock
    enabled,        \* enabled cron routes, workspace enabled too
    step,           \* control point of catchUpCron; "down" without a process
    lastTick,       \* s.state.LastSchedulerTickAt
    savedTick,      \* lastSchedulerTickAt of state.json; none without the file
    now, since,     \* local variables of catchUpCron
    todo,           \* routes of its snapshot it has not looked at yet
    route,          \* the route it is at
    due,            \* due times of that route it has not handed over yet
    handed,         \* how often each due time went to enqueueCron
    excused,        \* due times a catch-up passed over: route or workspace off
    unrefreshed,    \* those it passed over because workspaces.json was not saved
    forgotten,      \* times between the tick reached and a start without one
    reached,        \* the last tick of this process, or of the one before
    unsaved,        \* due times handed over since the last tick was last saved
    replayable,     \* due times the end of a process or the clock lets come again
    firstTick,      \* where the first process started to count
    faults          \* ends of the process and steps back so far

tickVars  == <<lastTick, savedTick>>
localVars == <<now, since, todo, route, due>>
passedVars == <<excused, unrefreshed, forgotten>>
historyVars == <<handed, passedVars, reached, unsaved, replayable, firstTick>>
vars == <<clock, enabled, step, tickVars, localVars, historyVars, faults>>

Truncate(t, unit) == t - (t % unit)
\* Mutant: the unit of the last tick is due again.
WindowFromLastTick(r, from, to) ==
    IF from < to
    THEN {t \in Schedule[r] : Truncate(from, UnitOf[r]) <= t /\ t <= Truncate(to, UnitOf[r])}
    ELSE {}

\* cronDueBetween: from the unit after the one of from to the one of to
Window(r, from, to) ==
    IF from < to
    THEN {t \in Schedule[r] : Truncate(from, UnitOf[r]) < t /\ t <= Truncate(to, UnitOf[r])}
    ELSE {}

NoTimes == [r \in Routes |-> {}]
ResetLocals == now' = 0 /\ since' = 0 /\ todo' = {} /\ route' = {} /\ due' = {}

Init ==
    /\ clock \in 0 .. Second
    /\ enabled \in SUBSET Routes
    /\ step = "down"
    /\ lastTick = NoTick /\ savedTick = NoTick
    /\ now = 0 /\ since = 0 /\ todo = {} /\ route = {} /\ due = {}
    /\ handed = [r \in Routes |-> [t \in Times |-> 0]]
    /\ excused = NoTimes /\ unrefreshed = NoTimes /\ forgotten = {}
    /\ unsaved = NoTimes /\ replayable = NoTimes
    /\ firstTick = NoTick /\ reached = NoTick
    /\ faults = 0

-----------------------------------------------------------------------------
\* A process that finds no tick starts to count now.
InitialTick == IF savedTick = NoTick THEN Truncate(clock, Second) ELSE savedTick

FirstTick == IF firstTick = NoTick THEN InitialTick ELSE firstTick

\* New and recoverState
Start ==
    /\ step = "down"
    /\ lastTick' = InitialTick /\ savedTick' = InitialTick
    /\ firstTick' = FirstTick /\ reached' = InitialTick
    /\ forgotten' = forgotten \cup
                      IF savedTick = NoTick /\ firstTick # NoTick
                      THEN {t \in Times : reached < t /\ t <= InitialTick} ELSE {}
    /\ step' = "waiting"
    /\ UNCHANGED <<clock, enabled, localVars, handed, excused, unrefreshed, unsaved,
                   replayable, faults>>

\* The save of recoverState fails, or the process ends within it.
StartFails ==
    /\ step = "down" /\ SavesMayFail
    /\ savedTick # NoTick /\ savedTick' = NoTick
    /\ UNCHANGED <<clock, enabled, step, lastTick, localVars, historyVars, faults>>

\* The snapshot at the top of catchUpCron: at the start, then at every tick of
\* the ticker, which may come late.
BeginCatchUp ==
    /\ step = "waiting"
    /\ now' = clock /\ since' = lastTick
    /\ todo' = enabled
    /\ excused' = [r \in Routes |-> IF r \in enabled THEN excused[r]
                                    ELSE excused[r] \cup Window(r, lastTick, clock)]
    /\ step' = "routes"
    /\ UNCHANGED <<clock, enabled, tickVars, route, due, handed, unrefreshed,
                   forgotten, reached, unsaved, replayable, firstTick, faults>>

\* refreshWorkspace: the route is skipped if its workspace is degraded, off or
\* not registered, and also if workspaces.json cannot be saved.
RefreshWorkspace(r) ==
    /\ step = "routes" /\ due = {}
    /\ r \in todo
    /\ todo' = todo \ {r}
    /\ \/ /\ route' = {r} /\ due' = Window(r, since, now)
          /\ UNCHANGED <<excused, unrefreshed>>
       \/ /\ excused' = [excused EXCEPT ![r] = @ \cup Window(r, since, now)]
          /\ UNCHANGED <<route, due, unrefreshed>>
       \/ /\ SavesMayFail
          /\ unrefreshed' = [unrefreshed EXCEPT ![r] = @ \cup Window(r, since, now)]
          /\ UNCHANGED <<route, due, excused>>
    /\ UNCHANGED <<clock, enabled, step, tickVars, now, since, handed, forgotten, reached,
                   unsaved, replayable, firstTick, faults>>

\* One call of enqueueCron, which queues the run or records why not.
EnqueueCron(r) ==
    /\ step = "routes" /\ due # {} /\ route = {r}
    /\ \E t \in due :
        /\ \A u \in due : t <= u
        /\ due' = due \ {t}
        /\ handed' = [handed EXCEPT ![r][t] = @ + 1]
        /\ unsaved' = [unsaved EXCEPT ![r] = @ \cup {t}]
    /\ UNCHANGED <<clock, enabled, step, tickVars, now, since, todo, route, passedVars, reached,
                   replayable, firstTick, faults>>

\* Mutant: the tick is the time at the end of the catch-up, not its start.
TickAtEnd == Truncate(clock, Second)

NewTick == Truncate(now, Second)

SetLastTick ==
    /\ step = "routes" /\ todo = {} /\ due = {}
    /\ lastTick' = NewTick /\ reached' = NewTick
    /\ step' = "save"
    /\ UNCHANGED <<clock, enabled, savedTick, localVars, handed, passedVars, unsaved,
                   replayable, firstTick, faults>>

\* saveState, whose error is ignored: it leaves the file, or none.
SaveState ==
    /\ step = "save"
    /\ \/ savedTick' = lastTick /\ unsaved' = NoTimes
       \/ SavesMayFail /\ savedTick' \in {savedTick, NoTick} /\ UNCHANGED unsaved
    /\ ResetLocals
    /\ step' = "waiting"
    /\ UNCHANGED <<clock, enabled, lastTick, handed, passedVars, reached, replayable, firstTick,
                   faults>>

\* The process ends, within a catch-up, also between the removal of state.json
\* and the second rename, or, by a shutdown, between two.
ProcessEnds ==
    /\ step # "down" /\ faults < MaxFaults
    /\ step' = "down"
    /\ lastTick' = NoTick
    /\ savedTick' \in {savedTick} \cup (IF step = "save" /\ SavesMayFail THEN {NoTick} ELSE {})
    /\ ResetLocals
    /\ replayable' = [r \in Routes |-> replayable[r] \cup
                         (IF savedTick' = NoTick THEN {} ELSE unsaved[r])]
    /\ unsaved' = NoTimes
    /\ faults' = faults + 1
    /\ UNCHANGED <<clock, enabled, handed, passedVars, reached, firstTick>>

SetRouteEnabled(r) ==
    /\ enabled' \in {enabled \cup {r}, enabled \ {r}} \ {enabled}
    /\ UNCHANGED <<clock, step, tickVars, localVars, historyVars, faults>>

Tick ==
    /\ clock < MaxTime
    /\ clock' = clock + 1
    /\ UNCHANGED <<enabled, step, tickVars, localVars, historyVars, faults>>

\* The wall clock is set back.
ClockStepsBack ==
    /\ faults < MaxFaults
    /\ clock' \in 0 .. (clock - 1)
    /\ replayable' = [r \in Routes |-> replayable[r] \cup {t \in Schedule[r] : t > clock'}]
    /\ faults' = faults + 1
    /\ UNCHANGED <<enabled, step, tickVars, localVars, handed, passedVars, reached, unsaved,
                   firstTick>>

Next ==
    \/ Start \/ StartFails \/ BeginCatchUp \/ SetLastTick \/ SaveState \/ ProcessEnds
    \/ \E r \in Routes : RefreshWorkspace(r) \/ EnqueueCron(r) \/ SetRouteEnabled(r)
    \/ Tick \/ ClockStepsBack

Spec == Init /\ [][Next]_vars

-----------------------------------------------------------------------------
(* Properties *)

Ticks == Times \cup {NoTick}
TypeOK ==
    /\ clock \in Times
    /\ enabled \subseteq Routes /\ todo \subseteq Routes /\ route \subseteq Routes
    /\ step \in {"down", "waiting", "routes", "save"}
    /\ step # "down" => lastTick \in Times
    /\ lastTick \in Ticks /\ savedTick \in Ticks /\ firstTick \in Ticks
    /\ reached \in Ticks /\ forgotten \subseteq Times
    /\ unrefreshed \in [Routes -> SUBSET Times]
    /\ now \in Times /\ since \in Times
    /\ due \subseteq Times
    /\ handed \in [Routes -> [Times -> Nat]]
    /\ excused \in [Routes -> SUBSET Times] /\ unsaved \in [Routes -> SUBSET Times]
    /\ replayable \in [Routes -> SUBSET Times]
    /\ faults \in 0 .. MaxFaults

\* A due time goes to enqueueCron once, and again only if a process ended with
\* it handed over and its tick not saved, or the clock was set back behind it:
\* the windows of successive catch-ups, also across a restart and although the
\* saved tick loses its fraction, do not overlap (catchUpCron, cronDueBetween).
NoDoubleFiring ==
    \A r \in Routes : \A t \in Schedule[r] :
        handed[r][t] > 1 => t \in replayable[r]

\* No due time is missed: once the last tick has passed it, it was handed over,
\* but for three reasons: its route or workspace was off when the catch-up came
\* to it, workspaces.json could not be saved then, or a failed save took the tick
\* with state.json, and it lies between the tick reached and the next start.  This
\* holds for the saved tick at every moment, so also for a process that starts
\* late: the windows leave no other gap (catchUpCron, cronDueBetween, saveState).
NoMissedFiring ==
    \A r \in Routes : \A t \in Schedule[r] \ (excused[r] \cup unrefreshed[r] \cup forgotten) :
        (firstTick # NoTick /\ firstTick < t /\ (t <= savedTick \/ t <= lastTick))
            => handed[r][t] > 0
=============================================================================
