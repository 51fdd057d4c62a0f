------------------------------ MODULE Webhook ------------------------------
(***************************************************************************)
(* handleWebhook of epicsd (internal/daemon/daemon.go): HTTP goroutines    *)
(* carry deliveries through a row of checks, each of which reads the state *)
(* of its moment, to an answer.  The duplicate check, the enqueue and the  *)
(* duplicate mark are three critical sections, and other deliveries, the   *)
(* clock, the dispatcher, a shutdown or the end of the process may come    *)
(* between any two.                                                        *)
(*                                                                         *)
(* The other checks depend on the request and on the route, its secret,    *)
(* its workspace and its adapter (RouteTable), and change nothing here:    *)
(* those between two critical sections are one step, which passes or fails *)
(* with the answer of any one of them.                                     *)
(***************************************************************************)
EXTENDS Integers, Sequences, FiniteSets, Functions

CONSTANTS
    Deliveries,             \* HTTP requests
    Requests,               \* what a request names: its route id and event.DedupKey,
                            \* a header or else the hash of the body, so never empty
    GlobalQueueCapacity,
    DedupTTL,
    MaxTime                 \* bound on the clock

ASSUME RequestTypes == \A q \in Requests : DOMAIN q = {"route", "key"}
ASSUME BoundTypes == /\ GlobalQueueCapacity \in Nat \ {0}
                     /\ DedupTTL \in Nat /\ MaxTime \in Nat

VARIABLES
    request,        \* the request of each delivery that arrived
    step,           \* what the handler of each delivery does next
    answer,         \* the answer it has settled on
    ledger,         \* the refusals recorded in runs/*.jsonl for the delivery itself
    unwritten,      \* deliveries whose refusal could not be recorded
    enqueued,       \* deliveries that entered s.pending
    pending,        \* number of them that wait there
    shuttingDown,   \* s.shuttingDown, set together with ~s.accepting
    dedup,          \* s.dedup: expiry time by route and key
    now,            \* s.now()
    acknowledged,   \* deliveries answered 202 by this process
    known,          \* those of when a delivery arrived; until its check
    markedAt        \* when it was marked; -1 before

ledgerVars  == <<ledger, unwritten>>
queueVars   == <<enqueued, pending, shuttingDown>>
historyVars == <<acknowledged, known, markedAt>>
vars == <<request, step, answer, ledgerVars, queueVars, dedup, now, historyVars>>

Steps == {"new", "dedup", "adapter", "enqueue", "mark", "append", "reply", "done", "dropped"}
\* The map f with the entry x set to v, and the empty map.
With(f, x, v) == [y \in DOMAIN f \cup {x} |-> IF y = x THEN v ELSE f[y]]
NoEntries == [x \in {} |-> x]

DedupEntry(d) == <<request[d].route, request[d].key>>
Handled(d) == step[d] \notin {"new", "done", "dropped"}

Init ==
    /\ request = NoEntries
    /\ step = [d \in Deliveries |-> "new"]
    /\ answer = [d \in Deliveries |-> "none"]
    /\ ledger = [d \in Deliveries |-> <<>>] /\ unwritten = {}
    /\ enqueued = {} /\ pending = 0 /\ shuttingDown = FALSE
    /\ dedup = NoEntries
    /\ now = 0
    /\ acknowledged = {}
    /\ known = [d \in Deliveries |-> {}]
    /\ markedAt = [d \in Deliveries |-> -1]

-----------------------------------------------------------------------------
(* The handler *)

Goto(d, s) == step' = [step EXCEPT ![d] = s]
Settle(d, a) == answer' = [answer EXCEPT ![d] = a]

\* The 405 of another method than POST, the 503 of isShuttingDown, which decides
\* before anything is read, and the 404 of a path that names no route are not
\* recorded.  Then body, route, auth, workspace and event are checked: "refused"
\* stands for 413, 404, 401, 503 and 400.
Arrive(d) ==
    /\ step[d] = "new"
    /\ \E q \in Requests : request' = With(request, d, q)
    /\ known' = [known EXCEPT ![d] = acknowledged]
    /\ \/ Settle(d, "not_routed") /\ Goto(d, "reply")
       \/ shuttingDown /\ Settle(d, "shutting_down") /\ Goto(d, "reply")
       \/ ~shuttingDown /\ Settle(d, "refused") /\ Goto(d, "append")
       \/ ~shuttingDown /\ Goto(d, "dedup") /\ UNCHANGED answer
    /\ UNCHANGED <<ledgerVars, queueVars, dedup, now, acknowledged, markedAt>>

Unexpired == {k \in DOMAIN dedup : now <= dedup[k]}

\* Mutant: the lookup is by key alone.
IsDuplicateOfAnyRoute(d) == \E k \in Unexpired : k[2] = request[d].key

\* checkDedup prunes, then looks.
IsDuplicate(d) == DedupEntry(d) \in Unexpired

CheckDedup(d) ==
    /\ step[d] = "dedup"
    /\ known' = [known EXCEPT ![d] = {}]
    /\ dedup' = Restrict(dedup, Unexpired)
    /\ \/ IsDuplicate(d) /\ Settle(d, "duplicate") /\ Goto(d, "append")
       \/ ~IsDuplicate(d) /\ Goto(d, "adapter") /\ UNCHANGED answer
    /\ UNCHANGED <<request, ledgerVars, queueVars, now, acknowledged, markedAt>>

\* Mutant: an unhealthy adapter answers and leaves no record.
AfterUnhealthyReply == "reply"

AfterUnhealthy == "append"

\* determineAdapter, and the run id: without one the answer is not recorded.
PrepareRun(d) ==
    /\ step[d] = "adapter"
    /\ \/ Goto(d, "enqueue") /\ UNCHANGED answer
       \/ Settle(d, "adapter_unavailable") /\ Goto(d, AfterUnhealthy)
       \/ Settle(d, "no_run_id") /\ Goto(d, "reply")
    /\ UNCHANGED <<request, ledgerVars, queueVars, dedup, now, historyVars>>

\* Mutant: room for one event more than the capacity.
RoomForOneMore == ~shuttingDown /\ pending <= GlobalQueueCapacity

Room == ~shuttingDown /\ pending < GlobalQueueCapacity

Enqueue(d) ==
    /\ step[d] = "enqueue" /\ Room
    /\ pending' = pending + 1
    /\ enqueued' = enqueued \cup {d}
    /\ Goto(d, "mark")
    /\ UNCHANGED <<request, answer, ledgerVars, shuttingDown, dedup, now, historyVars>>

EnqueueRefused(d) ==
    /\ step[d] = "enqueue" /\ ~Room
    /\ Settle(d, "queue_saturated") /\ Goto(d, "append")
    /\ UNCHANGED <<request, ledgerVars, queueVars, dedup, now, historyVars>>

\* Mutant: the delivery is not marked.
NotMarked(d) == dedup

Marked(d) == With(dedup, DedupEntry(d), now + DedupTTL)

MarkDedup(d) ==
    /\ step[d] = "mark"
    /\ dedup' = Marked(d)
    /\ markedAt' = [markedAt EXCEPT ![d] = now]
    /\ Settle(d, "accepted") /\ Goto(d, "reply")
    /\ UNCHANGED <<request, ledgerVars, queueVars, now, acknowledged, known>>

\* appendWebhookRejection draws a run id and appends a record.  The handler
\* does not learn when either fails, nor when the record of a duplicate does.
AppendRejection(d) ==
    /\ step[d] = "append"
    /\ \/ ledger' = [ledger EXCEPT ![d] = Append(@, answer[d])] /\ UNCHANGED unwritten
       \/ unwritten' = unwritten \cup {d} /\ UNCHANGED ledger
    /\ Goto(d, "reply")
    /\ UNCHANGED <<request, answer, queueVars, dedup, now, historyVars>>

Reply(d) ==
    /\ step[d] = "reply"
    /\ Goto(d, "done")
    /\ acknowledged' = IF answer[d] = "accepted" THEN acknowledged \cup {d} ELSE acknowledged
    /\ UNCHANGED <<request, answer, ledgerVars, queueVars, dedup, now, known, markedAt>>

-----------------------------------------------------------------------------
(* Around the handlers *)

\* nextReadyEvent takes an event out of the queue and prunes s.dedup.
NextReadyEvent ==
    /\ pending > 0
    /\ pending' = pending - 1
    /\ dedup' = Restrict(dedup, Unexpired)
    /\ UNCHANGED <<request, step, answer, ledgerVars, enqueued, shuttingDown, now, historyVars>>

BeginShutdown ==
    /\ ~shuttingDown
    /\ shuttingDown' = TRUE
    /\ UNCHANGED <<request, step, answer, ledgerVars, enqueued, pending, dedup, now, historyVars>>

Tick ==
    /\ now < MaxTime
    /\ now' = now + 1
    /\ UNCHANGED <<request, step, answer, ledgerVars, queueVars, dedup, historyVars>>

\* The process ends and a new one starts: the queue and s.dedup were memory.
Restart ==
    /\ step' = [d \in Deliveries |-> IF Handled(d) THEN "dropped" ELSE step[d]]
    /\ pending' = 0 /\ shuttingDown' = FALSE
    /\ dedup' = NoEntries
    /\ acknowledged' = {}
    /\ UNCHANGED <<request, answer, ledgerVars, enqueued, now, known, markedAt>>

Handler(d) ==
    \/ Arrive(d) \/ CheckDedup(d) \/ PrepareRun(d)
    \/ Enqueue(d) \/ EnqueueRefused(d) \/ MarkDedup(d) \/ AppendRejection(d) \/ Reply(d)
Next ==
    \/ \E d \in Deliveries : Handler(d)
    \/ NextReadyEvent \/ BeginShutdown \/ Tick \/ Restart

Spec == Init /\ [][Next]_vars

-----------------------------------------------------------------------------
(* Properties *)

Recorded == {"refused", "duplicate", "adapter_unavailable", "queue_saturated"}
Refusals == Recorded \cup {"not_routed", "shutting_down", "no_run_id"}
Answers  == Refusals \cup {"none", "accepted"}
TypeOK ==
    /\ DOMAIN request = {d \in Deliveries : step[d] # "new"}
    /\ request \in [DOMAIN request -> Requests]
    /\ step \in [Deliveries -> Steps]
    /\ answer \in [Deliveries -> Answers]
    /\ ledger \in [Deliveries -> Seq(Answers)]
    /\ unwritten \subseteq Deliveries
    /\ enqueued \subseteq Deliveries /\ pending \in 0 .. GlobalQueueCapacity
    /\ shuttingDown \in BOOLEAN
    /\ DOMAIN dedup \subseteq {DedupEntry(d) : d \in DOMAIN request}
    /\ dedup \in [DOMAIN dedup -> Nat]
    /\ now \in 0 .. MaxTime
    /\ acknowledged \subseteq Deliveries
    /\ known \in [Deliveries -> SUBSET Deliveries]
    /\ markedAt \in [Deliveries -> -1 .. MaxTime]

SameDelivery(d, e) == DedupEntry(d) = DedupEntry(e)

\* An answer tells what happened: 202 exactly when the delivery is in the
\* queue, and what is answered 202 has no record but its run's.  A refusal by
\* a check of the route, the event or the queue is in the ledger, once, as the
\* caller got it, unless its record failed; one before a route is looked for,
\* and one for want of a run id, is not (handleWebhook, appendWebhookRejection).
AnswersMatchEffects ==
    \A d \in Deliveries :
        /\ step[d] = "done" => (answer[d] = "accepted" <=> d \in enqueued)
        /\ ledger[d] \in {<<>>, <<answer[d]>>}
        /\ ledger[d] # <<>> => answer[d] \in Recorded /\ d \notin enqueued
        /\ (step[d] = "done" /\ answer[d] \in Recorded) => (ledger[d] = <<>> <=> d \in unwritten)

\* A sender that repeats a delivery after it was answered 202 is refused until
\* the TTL has passed, whatever the handlers of other deliveries do between
\* (checkDedup, enqueue and markDedup are not one critical section).
RepeatsAreRefused ==
    [][\A d \in Deliveries : step[d] = "dedup" /\ step'[d] = "adapter" =>
          \A e \in known[d] : SameDelivery(d, e) => now > markedAt[e] + DedupTTL]_vars

\* Only a repetition is refused as one: some other delivery of the same key to
\* the same route entered the queue and was marked within the TTL.  A sender
\* that repeats after a 429 or a 503 is not turned away as a duplicate.
OnlyRepeatsAreRefused ==
    [][\A d \in Deliveries : answer[d] = "none" /\ answer'[d] = "duplicate" =>
          \E e \in enqueued \ {d} : /\ SameDelivery(d, e)
                                    /\ markedAt[e] # -1 /\ now <= markedAt[e] + DedupTTL]_vars
=============================================================================
