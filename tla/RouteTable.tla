----------------------------- MODULE RouteTable -----------------------------
(***************************************************************************)
(* The routes of epicsd (internal/daemon/daemon.go, store/store.go): the   *)
(* table in memory, its copy in routes.json and the secret files.          *)
(*                                                                         *)
(* upsertRoute holds s.mu from its first step to its last, so no other     *)
(* goroutine sees the table between two steps; but each step that touches  *)
(* the disk is an action, because the process may end between any two and  *)
(* because a step may refuse the call after earlier ones took effect.      *)
(*                                                                         *)
(* A run carries a snapshot of its route and is known here by that route's *)
(* id, at most one in flight per route (RunQueue models the queue).        *)
(***************************************************************************)
EXTENDS Naturals, FiniteSets, Functions

CONSTANTS
    RouteIds,       \* ids webhookRouteID and cronRouteID make
    SecretValues,   \* what operators pass as secretValue
    NoId,           \* the empty string, as a route id
    NoSecret,       \* the empty string, as a secret value or reference
    SavesMayFail,   \* can a write of routes.json, workspaces.json or a secret fail?
    MaxUpserts,     \* bounds on the operator's calls: upserts,
    MaxSwitches     \* and enables and disables

ASSUME EmptyStrings == NoId \notin RouteIds /\ NoSecret \notin SecretValues
ASSUME BoundTypes == {MaxUpserts, MaxSwitches} \subseteq Nat /\ SavesMayFail \in BOOLEAN

VARIABLES
    routes,     \* s.routes
    disk,       \* routes.json
    secrets,    \* the files of secrets/, by reference
    inFlight,   \* ids of the routes with a run between admission and handleFinished
    unsaved,    \* has handleFinished still to call saveRoutes?
    call,       \* next step of the operator's call that holds s.mu
    request,    \* its payload
    record,     \* its local variable record
    existing,   \* its local variable existing
    promised,   \* what the daemon last answered it holds, by route id
    disturbed,  \* ids whose last call ended without an answer or with an error,
                \* and those a start without routes.json has lost since
    wiped,      \* has a save removed routes.json, and none written it since?
    upserts, switches   \* calls so far

tables     == <<routes, disk>>
callVars   == <<call, request, record, existing>>
answerVars == <<promised, disturbed, wiped>>
bounds     == <<upserts, switches>>
vars == <<tables, secrets, inFlight, unsaved, callVars, answerVars, bounds>>

AuthModes == {"none", "bearer", "hmac"}
\* WriteSecret names the file after the route id and the mode.
Ref(id, mode) == <<id, mode>>
Refs == {Ref(id, mode) : id \in RouteIds, mode \in {"bearer", "hmac"}}
ASSUME RefsAreNamed == NoSecret \notin Refs

\* The zero RouteRecord, which a lookup of an unknown id yields.
Zero == [id |-> NoId, enabled |-> FALSE, auth |-> "",
         bearerRef |-> NoSecret, hmacRef |-> NoSecret]
RouteRecords ==
    [id : RouteIds, enabled : BOOLEAN, auth : AuthModes,
     bearerRef : Refs \cup {NoSecret}, hmacRef : Refs \cup {NoSecret}]
\* A secret given with the mode "none" is never looked at.
Requests ==
    {q \in [from : RouteIds, to : RouteIds, auth : AuthModes, secret : SecretValues \cup {NoSecret}] :
        q.auth = "none" => q.secret = NoSecret}

Lookup(id) == IF id \in DOMAIN routes THEN routes[id] ELSE Zero
Put(f, k, v) == [x \in DOMAIN f \cup {k} |-> IF x = k THEN v ELSE f[x]]
Stored(r)    == Put(routes, r.id, r)
Empty == [x \in {} |-> x]
Without(f, S) == Restrict(f, DOMAIN f \ S)
NoRequest == [from |-> NoId, to |-> NoId, auth |-> "", secret |-> NoSecret]
Absent == [enabled |-> FALSE, auth |-> "", secret |-> NoSecret]
Present(id) == promised[id] # Absent

Init ==
    /\ routes = Empty /\ disk = Empty /\ secrets = Empty /\ inFlight = {}
    /\ unsaved = FALSE
    /\ call = "none" /\ request = NoRequest /\ record = Zero /\ existing = Zero
    /\ promised = [id \in RouteIds |-> Absent]
    /\ disturbed = {} /\ wiped = FALSE
    /\ upserts = 0 /\ switches = 0

-----------------------------------------------------------------------------
(* upsertRoute                                                             *)

InCall == {request.from, request.to}
EndCall == call' = "none" /\ request' = NoRequest /\ record' = Zero /\ existing' = Zero

\* Mutant: the new record is enabled whatever the one it replaces was.
RecordForEnabled(q, old) ==
    [id |-> q.to, enabled |-> TRUE, auth |-> q.auth,
     bearerRef |-> old.bearerRef, hmacRef |-> old.hmacRef]

\* What the new record takes over from the one it replaces.
RecordFor(q, old) ==
    [id |-> q.to,
     enabled |-> IF old = Zero THEN TRUE ELSE old.enabled,
     auth |-> q.auth, bearerRef |-> old.bearerRef, hmacRef |-> old.hmacRef]

\* A request whose routeId is not the id of its identity fields is a rename:
\* the old route leaves the table at once.
BeginUpsert(q) ==
    /\ call = "none" /\ upserts < MaxUpserts
    /\ q.from # q.to => q.from \in DOMAIN routes
    /\ existing' = Lookup(q.from)
    /\ record' = RecordFor(q, Lookup(q.from))
    /\ routes' = IF q.from # q.to THEN Without(routes, {q.from}) ELSE routes
    /\ request' = q
    /\ call' = "remove_secrets"
    /\ upserts' = upserts + 1
    /\ UNCHANGED <<disk, secrets, inFlight, unsaved, answerVars, switches>>

\* The secret files of the modes the route leaves.
Stale ==
    CASE record.auth = "none"   -> {existing.bearerRef, existing.hmacRef}
      [] record.auth = "bearer" -> {existing.hmacRef}
      [] record.auth = "hmac"   -> {existing.bearerRef}

\* A removal that fails is ignored.
RemoveSecrets ==
    /\ call = "remove_secrets"
    /\ \E gone \in SUBSET Stale :
         /\ SavesMayFail \/ gone = Stale
         /\ secrets' = Without(secrets, gone)
    /\ call' = "write_secret"
    /\ UNCHANGED <<tables, inFlight, unsaved, request, record, existing, answerVars, bounds>>

OldRef == IF record.auth = "bearer" THEN existing.bearerRef ELSE existing.hmacRef
\* The value to write: the one given, or else the one in use.
SecretToWrite ==
    IF request.secret # NoSecret THEN request.secret
    ELSE IF OldRef \in DOMAIN secrets THEN secrets[OldRef]
    ELSE NoSecret

\* Mutant: the reference is the old one, not the one WriteSecret returns.
RecordWithOldRef ==
    CASE record.auth = "bearer" ->
            [record EXCEPT !.bearerRef = IF OldRef = NoSecret THEN Ref(record.id, "bearer") ELSE OldRef,
                           !.hmacRef = NoSecret]
      [] record.auth = "hmac" ->
            [record EXCEPT !.hmacRef = IF OldRef = NoSecret THEN Ref(record.id, "hmac") ELSE OldRef,
                           !.bearerRef = NoSecret]
      [] OTHER -> [record EXCEPT !.bearerRef = NoSecret, !.hmacRef = NoSecret]

RecordWithRef ==
    CASE record.auth = "bearer" ->
            [record EXCEPT !.bearerRef = Ref(record.id, "bearer"), !.hmacRef = NoSecret]
      [] record.auth = "hmac" ->
            [record EXCEPT !.hmacRef = Ref(record.id, "hmac"), !.bearerRef = NoSecret]
      [] OTHER -> [record EXCEPT !.bearerRef = NoSecret, !.hmacRef = NoSecret]

WriteSecret ==
    /\ call = "write_secret"
    /\ \/ /\ record.auth = "none"
          /\ UNCHANGED secrets
       \/ /\ record.auth # "none" /\ SecretToWrite # NoSecret
          /\ secrets' = Put(secrets, Ref(record.id, record.auth), SecretToWrite)
    /\ record' = RecordWithRef
    /\ call' = "select_adapter"
    /\ existing' = Zero     \* it is not read again
    /\ UNCHANGED <<tables, inFlight, unsaved, request, answerVars, bounds>>

SelectAdapter ==
    /\ call = "select_adapter"
    /\ routes' = Stored(record)
    /\ call' = "save"
    /\ UNCHANGED <<disk, secrets, inFlight, unsaved, request, record, existing, answerVars, bounds>>

\* os.WriteFile truncates the secret file before it writes, and Chmod follows:
\* when one fails, or the process ends, the file may hold anything.
SecretCut ==
    /\ SavesMayFail /\ call = "write_secret"
    /\ record.auth # "none" /\ SecretToWrite # NoSecret
    /\ \E v \in SecretValues \cup {NoSecret} :
         secrets' = Put(secrets, Ref(record.id, record.auth), v)

\* The call returns an error: an adapter or an auth mode is not known or the
\* hmac header is missing, there is no secret or its file cannot be read or
\* written, or the adapter is not healthy.  Nothing that was done is undone.
RefuseUpsert ==
    /\ \/ call \in {"remove_secrets", "select_adapter"}
       \/ call = "write_secret" /\ record.auth # "none"
    /\ UNCHANGED secrets \/ SecretCut
    /\ disturbed' = disturbed \cup InCall
    /\ EndCall
    /\ UNCHANGED <<tables, inFlight, unsaved, promised, wiped, bounds>>

-----------------------------------------------------------------------------
(* setRouteEnabled, and the end both calls share                           *)

SetRouteEnabled(id, enabled) ==
    /\ call = "none" /\ switches < MaxSwitches
    /\ id \in DOMAIN routes
    /\ routes' = [routes EXCEPT ![id].enabled = enabled]
    /\ request' = [NoRequest EXCEPT !.from = id, !.to = id]
    /\ record' = [routes[id] EXCEPT !.enabled = enabled]
    /\ call' = "save_enabled"
    /\ switches' = switches + 1
    /\ UNCHANGED <<disk, secrets, inFlight, unsaved, existing, answerVars, upserts>>

\* What the operator may rely on once the upsert is answered.
UpsertPromise ==
    [enabled |-> IF request.from \in disturbed THEN record.enabled
                 ELSE Present(request.from) => promised[request.from].enabled,
     auth    |-> request.auth,
     secret  |-> IF request.auth = "none" THEN NoSecret
                 ELSE IF request.secret # NoSecret THEN request.secret
                 ELSE IF request.from \in disturbed THEN secrets[Ref(request.to, request.auth)]
                 ELSE promised[request.from].secret]

\* Mutant: setRouteEnabled leaves its save to the next call.
SavedForUpsertOnly == IF call = "save" THEN routes ELSE disk

\* What saveRoutesLocked writes: the whole table.
Saved == routes

\* writeFileAtomically renames a new file over the old one; when that fails it
\* removes the old one and tries again, and when that fails too, there is none.
\* The next load begins with Ensure, which writes an empty table then.
SaveDone    == disk' = Saved /\ wiped' = FALSE
FileRemoved == SavesMayFail /\ disk' = Empty /\ wiped' = TRUE
FileKept    == SavesMayFail /\ UNCHANGED <<disk, wiped>>

\* saveRoutesLocked succeeds and the operator is answered.
SaveAndAnswer ==
    /\ call \in {"save", "save_enabled"}
    /\ SaveDone
    /\ \/ /\ call = "save"
          /\ promised' = [promised EXCEPT ![request.from] = Absent, ![request.to] = UpsertPromise]
          /\ disturbed' = disturbed \ InCall
       \/ /\ call = "save_enabled"
          /\ promised' = IF request.to \in disturbed THEN promised
                         ELSE [promised EXCEPT ![request.to].enabled = record.enabled]
          /\ UNCHANGED disturbed
    /\ EndCall
    /\ UNCHANGED <<routes, secrets, inFlight, unsaved, bounds>>

\* saveRoutesLocked fails, or saveWorkspacesLocked does after it.
SaveFails ==
    /\ SavesMayFail
    /\ call \in {"save", "save_enabled"}
    /\ \/ FileKept \/ FileRemoved
       \/ call = "save" /\ SaveDone
    /\ disturbed' = disturbed \cup InCall
    /\ EndCall
    /\ UNCHANGED <<routes, secrets, inFlight, unsaved, promised, bounds>>

-----------------------------------------------------------------------------
(* Runs                                                                    *)

\* handleWebhook or catchUpCron takes its snapshot of an enabled route.
Admit(id) ==
    /\ call = "none"
    /\ id \in DOMAIN routes /\ routes[id].enabled
    /\ id \notin inFlight
    /\ inFlight' = inFlight \cup {id}
    /\ UNCHANGED <<tables, secrets, unsaved, callVars, answerVars, bounds>>

\* handleFinished reads the route afresh and stores it under its own id.
WithResult(id) == Stored(Lookup(id))

HandleFinished(id) ==
    /\ call = "none" /\ ~unsaved
    /\ id \in inFlight
    /\ routes' = WithResult(id)
    /\ inFlight' = inFlight \ {id}
    /\ unsaved' = TRUE
    /\ UNCHANGED <<disk, secrets, callVars, answerVars, bounds>>

\* saveRoutes at the end of handleFinished; its error is ignored.
SaveRoutes ==
    /\ call = "none" /\ unsaved
    /\ SaveDone \/ FileKept \/ FileRemoved
    /\ unsaved' = FALSE
    /\ UNCHANGED <<routes, secrets, inFlight, callVars, promised, disturbed, bounds>>

-----------------------------------------------------------------------------
Saving == call \in {"save", "save_enabled"} \/ (call = "none" /\ unsaved)

\* The process ends with this routes.json, or with none, and the next loads it.
EndWith(file, none) ==
    /\ disk' = file /\ routes' = file
    /\ disturbed' = disturbed \cup (InCall \ {NoId})
                              \cup {id \in RouteIds : none /\ Present(id)}

\* It ends at any point, also within a write: before the file is replaced,
\* before the answer, or between Remove and the second Rename.
Restart ==
    /\ \/ EndWith(disk, wiped)
       \/ Saving /\ EndWith(Saved, FALSE)
       \/ Saving /\ SavesMayFail /\ EndWith(Empty, TRUE)
    /\ UNCHANGED secrets \/ SecretCut
    /\ inFlight' = {} /\ unsaved' = FALSE /\ wiped' = FALSE
    /\ EndCall
    /\ UNCHANGED <<promised, bounds>>

Upsert ==
    \/ \E q \in Requests : BeginUpsert(q)
    \/ RemoveSecrets \/ WriteSecret \/ SelectAdapter \/ RefuseUpsert
Next ==
    \/ Upsert
    \/ \E id \in RouteIds, enabled \in BOOLEAN : SetRouteEnabled(id, enabled)
    \/ SaveAndAnswer \/ SaveFails
    \/ \E id \in RouteIds : Admit(id) \/ HandleFinished(id)
    \/ SaveRoutes
    \/ Restart

Spec == Init /\ [][Next]_vars

-----------------------------------------------------------------------------
(* Properties *)

IsTable(t) ==
    /\ t \in [DOMAIN t -> RouteRecords \cup {Zero}]
    /\ DOMAIN t \subseteq RouteIds \cup {NoId}
    /\ \A id \in DOMAIN t : t[id].id = id
TypeOK ==
    /\ IsTable(routes) /\ IsTable(disk) /\ inFlight \subseteq RouteIds
    /\ secrets \in [DOMAIN secrets -> SecretValues \cup {NoSecret}] /\ DOMAIN secrets \subseteq Refs
    /\ unsaved \in BOOLEAN
    /\ call \in {"none", "remove_secrets", "write_secret", "select_adapter",
                 "save", "save_enabled"}
    /\ call # "none" => InCall \subseteq RouteIds
    /\ disturbed \subseteq RouteIds /\ wiped \in BOOLEAN
    /\ upserts \in 0 .. MaxUpserts /\ switches \in 0 .. MaxSwitches

\* A table holds what the operator was last told it holds, for every route
\* that no failed or interrupted call has touched since.
Keeps(table) ==
    \A id \in RouteIds \ (disturbed \cup InCall) :
        /\ id \in DOMAIN table <=> Present(id)
        /\ Present(id) =>
            LET r == table[id] IN
            /\ r.enabled = promised[id].enabled /\ r.auth = promised[id].auth
            /\ r.auth = "none" \/ (Ref(id, r.auth) \in DOMAIN secrets
                                   /\ secrets[Ref(id, r.auth)] = promised[id].secret)

\* The table the daemon serves from keeps its answers, whatever calls for
\* other routes, finishing runs, failing saves and restarts happen between: a
\* renamed route does not come back, a disabled one does not fire again, a
\* secret is the last one given (upsertRoute, setRouteEnabled, handleFinished).
\* Only a start without routes.json loses answered routes, never the absence
\* of a renamed one, and only until they are upserted again.
ServedRoutesKept == Keeps(routes)

\* So does routes.json, with the secret files: what was answered survives the
\* end of the process at any point (saveRoutesLocked before every answer),
\* unless a save that failed in its second rename, or was cut short before it,
\* has removed the file: then it is an empty table until the next save puts
\* every route the daemon serves back.
StoredRoutesKept == IF wiped THEN disk = Empty ELSE Keeps(disk)

\* A route refers to its own secret file of its own mode and to no other, so
\* that removing or rewriting one route's secret never touches another's,
\* after renames, refusals and crashes too (applySecretLocked, WriteSecret).
RefsAreOwn ==
    \A t \in {routes, disk} : \A id \in DOMAIN t \ {NoId} :
        /\ t[id].bearerRef = IF t[id].auth = "bearer" THEN Ref(id, "bearer") ELSE NoSecret
        /\ t[id].hmacRef = IF t[id].auth = "hmac" THEN Ref(id, "hmac") ELSE NoSecret

\* Documented: "durable workspace, route, and run records".  A route stays in
\* routes.json until a call that was answered renames it.
RoutesAreDurable ==
    \A id \in RouteIds \ InCall : Present(id) => id \in DOMAIN disk

\* Documented: "every webhook or cron event resolves directly to one route".
\* The table holds routes that were upserted and nothing else.
EventsResolveToRoutes == DOMAIN routes \subseteq RouteIds
=============================================================================
