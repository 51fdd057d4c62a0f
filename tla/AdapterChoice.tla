---------------------------- MODULE AdapterChoice ----------------------------
(* Which adapter executes the events of one route: chosen by upsertRoute,   *)
(* tested when a trigger is admitted, and chosen again when the event       *)
(* starts, from the route as it was when the trigger came, the workspace as *)
(* it was just assessed, and the adapters as they are then.                 *)
EXTENDS Naturals

CONSTANTS
    Adapters,       \* s.adapters
    Unknown,        \* a name that is not among them
    NoAdapter,      \* the empty name
    Events          \* the triggers of the route

\* The names differ: Unknown and NoAdapter are no adapters.
AdapterTypes == Adapters \cap {Unknown, NoAdapter} = {} /\ Unknown # NoAdapter

RouteNames == Adapters \cup {Unknown, NoAdapter}
Choices == [pinned : RouteNames, preferred : RouteNames]
Route == [pinned : Adapters \cup {NoAdapter}, preferred : Adapters \cup {NoAdapter},
          selected : Adapters]
NoRoute == [pinned |-> NoAdapter, preferred |-> NoAdapter, selected |-> NoAdapter]

VARIABLES
    route,          \* the record in s.routes, or NoRoute
    call,           \* the last upsert that was accepted: its choices, and reselect
    binaries,       \* the adapters whose programs are found
    isDir,          \* the workspace's path is a directory
    event           \* each event: position, route, assessment, adapter, history

vars == <<route, call, binaries, isDir, event>>

\* dirSeen is history: the directory was there at some time since the event
\* was taken from the queue.
NoEvent == [at |-> "none", route |-> NoRoute, ok |-> FALSE,
            adapter |-> NoAdapter, dirSeen |-> FALSE]

Init ==
    /\ route = NoRoute
    /\ call = [pinned |-> NoAdapter, reselect |-> FALSE]
    /\ binaries \in SUBSET Adapters /\ isDir \in BOOLEAN
    /\ event = [e \in Events |-> NoEvent]

-----------------------------------------------------------------------------
(* selectAdapterLocked *)

\* Mutant: the path is not looked at, and the assessment is the caller's.
HealthyAnyway(a, ok) == a \in binaries

\* Healthy: the assessment given, then the path and the programs as they are.
Healthy(a, ok) == ok /\ isDir /\ a \in binaries

\* Mutant: the preferred adapter comes before the selected one.
DecisivePreferred(r, reselect, hasExisting) ==
    IF r.pinned # NoAdapter THEN r.pinned
    ELSE IF r.preferred # NoAdapter THEN r.preferred
    ELSE IF hasExisting /\ ~reselect THEN r.selected ELSE NoAdapter

\* The name that decides alone, if there is one.
Decisive(r, reselect, hasExisting) ==
    IF r.pinned # NoAdapter THEN r.pinned
    ELSE IF hasExisting /\ ~reselect /\ r.selected # NoAdapter THEN r.selected
    ELSE r.preferred

\* What may be selected: the decisive adapter if it is healthy, or, when no
\* name decides, any healthy one, because the map has no order.
Selectable(r, ok, reselect, hasExisting) ==
    LET a == Decisive(r, reselect, hasExisting)
    IN  {b \in IF a # NoAdapter THEN {a} ELSE Adapters : Healthy(b, ok)}

\* determineAdapter: never reselects.
Determined(r, ok) == Selectable(r, ok, FALSE, r.selected # NoAdapter)

-----------------------------------------------------------------------------
(* upsertRoute: the route as it will be keeps the selected adapter of the   *)
(* one it replaces. validateAdapterNames refuses a name that is not known;  *)
(* a workspace or an adapter that is not healthy refuses the call.          *)

Valid(c) == c.pinned # Unknown /\ c.preferred # Unknown

Upsert ==
    \E c \in Choices, reselect \in BOOLEAN :
        /\ Valid(c)
        /\ LET new == [pinned |-> c.pinned, preferred |-> c.preferred, selected |-> route.selected]
           IN  \E a \in Selectable(new, isDir, reselect, route # NoRoute) :
                   route' = [new EXCEPT !.selected = a]
        /\ call' = [pinned |-> c.pinned, reselect |-> reselect]
        /\ UNCHANGED <<binaries, isDir, event>>

-----------------------------------------------------------------------------
(* An event *)

\* handleWebhook and enqueueCron refresh the workspace and test the adapter
\* before they queue the event with the route they read.
Admit(e) ==
    /\ event[e].at = "none" /\ route # NoRoute
    /\ isDir /\ Determined(route, isDir) # {}
    /\ event' = [event EXCEPT ![e].at = "queued", ![e].route = route, ![e].ok = isDir]
    /\ UNCHANGED <<route, call, binaries, isDir>>

\* startEvent: the executor refreshes the workspace.
Refreshed(e) == [event[e] EXCEPT !.at = "refreshed", !.ok = isDir, !.dirSeen = isDir]

StartEvent(e) ==
    /\ event[e].at = "queued"
    /\ event' = [event EXCEPT ![e] = Refreshed(e)]
    /\ UNCHANGED <<route, call, binaries, isDir>>

\* determineAdapter, then Dispatch starts epics resume in the workspace.
StartDispatch(e) ==
    /\ event[e].at = "refreshed"
    /\ \E a \in Determined(event[e].route, event[e].ok) :
         event' = [event EXCEPT ![e].at = "resuming", ![e].adapter = a]
    /\ UNCHANGED <<route, call, binaries, isDir>>

StartRejected(e) ==
    /\ event[e].at = "refreshed"
    /\ Determined(event[e].route, event[e].ok) = {}
    /\ event' = [event EXCEPT ![e].at = "rejected"]
    /\ UNCHANGED <<route, call, binaries, isDir>>

\* Dispatch: epics resume, then the host's command; either may fail.
Dispatch(e) ==
    /\ \/ event[e].at = "resuming" /\ event' = [event EXCEPT ![e].at = "prompting"]
       \/ event[e].at = "prompting" /\ event' = [event EXCEPT ![e].at = "succeeded"]
       \/ /\ event[e].at \in {"resuming", "prompting"}
          /\ event' = [event EXCEPT ![e].at = "failed"]
    /\ UNCHANGED <<route, call, binaries, isDir>>

Environment ==
    \/ /\ \E a \in Adapters :
            binaries' = IF a \in binaries THEN binaries \ {a} ELSE binaries \cup {a}
       /\ UNCHANGED <<route, call, isDir, event>>
    \/ /\ isDir' = ~isDir
       /\ event' = [e \in Events |->
            IF event[e].at = "refreshed" THEN [event[e] EXCEPT !.dirSeen = @ \/ isDir'] ELSE event[e]]
       /\ UNCHANGED <<route, call, binaries>>

Event(e) == Admit(e) \/ StartEvent(e) \/ StartDispatch(e) \/ StartRejected(e) \/ Dispatch(e)
Next == Upsert \/ Environment \/ \E e \in Events : Event(e)

Spec == Init /\ [][Next]_vars

-----------------------------------------------------------------------------
(* Properties *)

Positions == {"none", "queued", "refreshed", "resuming", "prompting",
              "succeeded", "failed", "rejected"}
TypeOK ==
    /\ route \in Route \cup {NoRoute}
    /\ call \in [pinned : Adapters \cup {NoAdapter}, reselect : BOOLEAN]
    /\ binaries \in SUBSET Adapters /\ isDir \in BOOLEAN
    /\ event \in [Events -> [at : Positions, route : Route \cup {NoRoute}, ok : BOOLEAN,
                             adapter : Adapters \cup {NoAdapter}, dirSeen : BOOLEAN]]

\* No failover: an event is executed by the adapter that was selected for its
\* route when the trigger came, or by none, whatever has become of adapters
\* and of the route since; and a pinned route's by the pinned one
\* (selectAdapterLocked at upsert, admission and start).
NoFailover ==
    \A e \in Events : event[e].adapter # NoAdapter =>
        /\ event[e].adapter = event[e].route.selected
        /\ event[e].route.pinned \in {NoAdapter, event[e].adapter}

\* The selected adapter of a route moves only when the operator pins another
\* or asks for a new selection, not when a preference changes or the selected
\* one is not healthy at an upsert.
SelectionStep ==
    (route # NoRoute /\ route'.selected # route.selected)
        => call'.reselect \/ call'.pinned = route'.selected
SelectionSticks == [][SelectionStep]_vars

\* Nothing is executed in a workspace that was not a directory at any time
\* since the event was taken from the queue: what the trigger found does not
\* count (startEvent, refreshWorkspace, Healthy).
FailsClosed ==
    \A e \in Events : event[e].at \in {"resuming", "prompting", "succeeded", "failed"} =>
        event[e].ok /\ event[e].dirSeen

\* An event is executed by the adapter selected for its route, in a workspace
\* that was found fit after the event was queued, or not at all.
EventsFailClosed == NoFailover /\ FailsClosed
=============================================================================
