--------------------------- MODULE WebhookProofs ---------------------------
(* Theorems about Webhook, for any deliveries, requests, capacity and TTL. *)
EXTENDS Webhook, TLAPS

-----------------------------------------------------------------------------
(* Types *)

LEMMA TypeInit == Init => TypeOK
  <1> SUFFICES ASSUME Init PROVE TypeOK
    OBVIOUS
  <1>1. step \in [Deliveries -> Steps] /\ answer \in [Deliveries -> Answers]
    BY DEF Init, Steps, Answers
  <1>2. ledger \in [Deliveries -> Seq(Answers)] /\ unwritten \subseteq Deliveries
    BY DEF Init
  <1>3. DOMAIN request = {} /\ DOMAIN dedup = {}
    BY DEF Init, NoEntries
  <1>4. request \in [DOMAIN request -> Requests] /\ dedup \in [DOMAIN dedup -> Nat]
    BY <1>3 DEF Init, NoEntries
  <1>5. {d \in Deliveries : step[d] # "new"} = {}
    BY DEF Init
  <1>6. known \in [Deliveries -> SUBSET Deliveries] /\ markedAt \in [Deliveries -> -1 .. MaxTime]
    BY BoundTypes DEF Init
  <1>7. pending \in 0 .. GlobalQueueCapacity /\ now \in 0 .. MaxTime
    BY BoundTypes DEF Init
  <1>8. DOMAIN dedup \subseteq {DedupEntry(d) : d \in DOMAIN request}
    BY <1>3
  <1>9. enqueued = {} /\ acknowledged = {} /\ shuttingDown \in BOOLEAN
    BY DEF Init
  <1>10. QED
    BY <1>1, <1>2, <1>3, <1>4, <1>5, <1>6, <1>7, <1>8, <1>9 DEF TypeOK

LEMMA TypeNext == TypeOK /\ [Next]_vars => TypeOK'
  <1> SUFFICES ASSUME TypeOK, [Next]_vars PROVE TypeOK'
    OBVIOUS
  <1> USE BoundTypes DEF TypeOK, Steps, Answers, Refusals, Recorded, Goto, Settle, ledgerVars, queueVars, historyVars,
          DedupEntry, Unexpired, Restrict
  <1>1. ASSUME NEW k \in Deliveries, Arrive(k) PROVE TypeOK'
    <2>1. step' \in [Deliveries -> Steps] /\ answer' \in [Deliveries -> Answers]
      BY <1>1 DEF Arrive
    <2>2. step'[k] # "new" /\ \A d \in Deliveries \ {k} : step'[d] = step[d]
      BY <1>1 DEF Arrive
    <2>3. PICK q \in Requests : request' = With(request, k, q)
      BY <1>1 DEF Arrive
    <2>4. /\ DOMAIN request' = DOMAIN request \cup {k} /\ request' \in [DOMAIN request' -> Requests]
          /\ \A d \in DOMAIN request : request'[d] = request[d]
      BY <1>1, <2>3 DEF With, Arrive
    <2>5. DOMAIN request' = {d \in Deliveries : step'[d] # "new"}
      BY <2>2, <2>4
    <2>6. DOMAIN dedup' \subseteq {DedupEntry(d)' : d \in DOMAIN request'}
      <3>1. SUFFICES ASSUME NEW j \in DOMAIN dedup PROVE j \in {DedupEntry(d)' : d \in DOMAIN request'}
        BY <1>1 DEF Arrive
      <3>2. PICK d \in DOMAIN request : j = DedupEntry(d)
        OBVIOUS
      <3>3. d \in DOMAIN request' /\ DedupEntry(d)' = DedupEntry(d)
        BY <2>4
      <3>4. QED
        BY <3>2, <3>3
    <2>7. known' \in [Deliveries -> SUBSET Deliveries]
      BY <1>1 DEF Arrive
    <2>8. QED
      BY <1>1, <2>1, <2>4, <2>5, <2>6, <2>7 DEF Arrive
  <1>2. ASSUME NEW k \in Deliveries, CheckDedup(k) PROVE TypeOK'
    <2>1. step' \in [Deliveries -> Steps] /\ answer' \in [Deliveries -> Answers]
      BY <1>2 DEF CheckDedup
    <2>2. {d \in Deliveries : step'[d] # "new"} = {d \in Deliveries : step[d] # "new"}
      BY <1>2 DEF CheckDedup
    <2>3. DOMAIN dedup' \subseteq DOMAIN dedup /\ dedup' \in [DOMAIN dedup' -> Nat]
      BY <1>2 DEF CheckDedup
    <2>4. known' \in [Deliveries -> SUBSET Deliveries]
      BY <1>2 DEF CheckDedup
    <2>5. QED
      BY <1>2, <2>1, <2>2, <2>3, <2>4 DEF CheckDedup
  <1>3. ASSUME NEW k \in Deliveries, PrepareRun(k) PROVE TypeOK'
    <2>1. step' \in [Deliveries -> Steps] /\ answer' \in [Deliveries -> Answers]
      BY <1>3 DEF PrepareRun, AfterUnhealthy
    <2>2. {d \in Deliveries : step'[d] # "new"} = {d \in Deliveries : step[d] # "new"}
      BY <1>3 DEF PrepareRun, AfterUnhealthy
    <2>3. QED
      BY <1>3, <2>1, <2>2 DEF PrepareRun
  <1>4. ASSUME NEW k \in Deliveries, Enqueue(k) PROVE TypeOK'
    BY <1>4 DEF Enqueue, Room
  <1>5. ASSUME NEW k \in Deliveries, EnqueueRefused(k) PROVE TypeOK'
    BY <1>5 DEF EnqueueRefused, Room
  <1>6. ASSUME NEW k \in Deliveries, MarkDedup(k) PROVE TypeOK'
    BY <1>6 DEF MarkDedup, Marked, With
  <1>7. ASSUME NEW k \in Deliveries, AppendRejection(k) PROVE TypeOK'
    <2>1. step' \in [Deliveries -> Steps] /\ {d \in Deliveries : step'[d] # "new"} = {d \in Deliveries : step[d] # "new"}
      BY <1>7 DEF AppendRejection
    <2>2. ledger' \in [Deliveries -> Seq(Answers)] /\ unwritten' \subseteq Deliveries
      <3>1. CASE ledger' = [ledger EXCEPT ![k] = Append(@, answer[k])] /\ unwritten' = unwritten
        <4>1. Append(ledger[k], answer[k]) \in Seq(Answers)
          OBVIOUS
        <4>2. QED
          BY <3>1, <4>1
      <3>2. CASE ledger' = ledger /\ unwritten' = unwritten \cup {k}
        BY <3>2
      <3>3. QED
        BY <1>7, <3>1, <3>2 DEF AppendRejection
    <2>3. QED
      BY <1>7, <2>1, <2>2 DEF AppendRejection
  <1>8. ASSUME NEW k \in Deliveries, Reply(k) PROVE TypeOK'
    BY <1>8 DEF Reply
  <1>9. CASE NextReadyEvent
    BY <1>9 DEF NextReadyEvent
  <1>10. CASE BeginShutdown
    BY <1>10 DEF BeginShutdown
  <1>11. CASE Tick
    BY <1>11 DEF Tick
  <1>12. CASE Restart
    <2>1. step' \in [Deliveries -> Steps]
      BY <1>12 DEF Restart
    <2>2. {d \in Deliveries : step'[d] # "new"} = {d \in Deliveries : step[d] # "new"}
      BY <1>12 DEF Restart, Handled
    <2>3. DOMAIN dedup' = {} /\ dedup' \in [DOMAIN dedup' -> Nat]
      BY <1>12 DEF Restart, NoEntries
    <2>4. DOMAIN dedup' \subseteq {DedupEntry(d)' : d \in DOMAIN request'}
      BY <2>3
    <2>5. DOMAIN request' = {d \in Deliveries : step'[d] # "new"} /\ request' \in [DOMAIN request' -> Requests]
      BY <1>12, <2>2 DEF Restart
    <2>6. pending' = 0 /\ 0 \in 0 .. GlobalQueueCapacity
      BY <1>12 DEF Restart
    <2>7. pending' \in 0 .. GlobalQueueCapacity
      BY <2>6, Zenon
    <2>8. acknowledged' \subseteq Deliveries /\ shuttingDown' \in BOOLEAN
      BY <1>12 DEF Restart
    <2>9. QED
      BY <1>12, <2>1, <2>3, <2>4, <2>5, <2>7, <2>8 DEF Restart
  <1>13. CASE UNCHANGED vars
    BY <1>13 DEF vars, ledgerVars, queueVars, historyVars
  <1>14. QED
    BY <1>1, <1>2, <1>3, <1>4, <1>5, <1>6, <1>7, <1>8, <1>9, <1>10,
       <1>11, <1>12, <1>13
       DEF Next, Handler

\* Every variable keeps its type; the queue keeps its capacity, and the table
\* of duplicates names only deliveries that arrived.
THEOREM TypeCorrect == Spec => []TypeOK
  BY TypeInit, TypeNext, PTL DEF Spec

-----------------------------------------------------------------------------
(* Answers.  Where a handler is tells what it has done.                    *)

AnswerInv ==
    \A d \in Deliveries :
        /\ step[d] \in {"new", "dedup", "adapter", "enqueue"} =>
              answer[d] = "none" /\ ledger[d] = <<>> /\ d \notin enqueued
        /\ step[d] = "mark" => answer[d] = "none" /\ ledger[d] = <<>> /\ d \in enqueued
        /\ step[d] = "append" =>
              answer[d] \in Recorded /\ ledger[d] = <<>> /\ d \notin enqueued /\ d \notin unwritten
        /\ step[d] \in {"reply", "done"} =>
              \/ answer[d] = "accepted" /\ ledger[d] = <<>> /\ d \in enqueued
              \/ answer[d] \in Refusals \ Recorded /\ ledger[d] = <<>> /\ d \notin enqueued
              \/ /\ answer[d] \in Recorded /\ d \notin enqueued
                 /\ \/ ledger[d] = <<answer[d]>> /\ d \notin unwritten
                    \/ ledger[d] = <<>> /\ d \in unwritten
        /\ step[d] \notin {"reply", "done", "dropped"} => d \notin unwritten
        /\ ledger[d] # <<>> => ledger[d] = <<answer[d]>> /\ answer[d] \in Recorded /\ d \notin enqueued

LEMMA AnswerInit == Init => AnswerInv
  BY DEF Init, AnswerInv

LEMMA AnswerNext == TypeOK /\ AnswerInv /\ [Next]_vars => AnswerInv'
  <1> SUFFICES ASSUME TypeOK, AnswerInv, [Next]_vars PROVE AnswerInv'
    OBVIOUS
  <1> USE DEF TypeOK, AnswerInv, Steps, Refusals, Recorded, Goto, Settle, ledgerVars, queueVars, historyVars
  <1>1. ASSUME NEW k \in Deliveries, Arrive(k) PROVE AnswerInv'
    <2>1. step[k] = "new" /\ UNCHANGED <<ledger, unwritten, enqueued>>
      BY <1>1 DEF Arrive
    <2>2. \/ step' = [step EXCEPT ![k] = "reply"] /\ answer' = [answer EXCEPT ![k] = "not_routed"]
          \/ step' = [step EXCEPT ![k] = "reply"] /\ answer' = [answer EXCEPT ![k] = "shutting_down"]
          \/ step' = [step EXCEPT ![k] = "append"] /\ answer' = [answer EXCEPT ![k] = "refused"]
          \/ step' = [step EXCEPT ![k] = "dedup"] /\ answer' = answer
      BY <1>1 DEF Arrive
    <2>3. QED
      BY <2>1, <2>2
  <1>2. ASSUME NEW k \in Deliveries, CheckDedup(k) PROVE AnswerInv'
    BY <1>2 DEF CheckDedup, IsDuplicate
  <1>3. ASSUME NEW k \in Deliveries, PrepareRun(k) PROVE AnswerInv'
    BY <1>3 DEF PrepareRun, AfterUnhealthy
  <1>4. ASSUME NEW k \in Deliveries, Enqueue(k) PROVE AnswerInv'
    BY <1>4 DEF Enqueue, Room
  <1>5. ASSUME NEW k \in Deliveries, EnqueueRefused(k) PROVE AnswerInv'
    BY <1>5 DEF EnqueueRefused, Room
  <1>6. ASSUME NEW k \in Deliveries, MarkDedup(k) PROVE AnswerInv'
    BY <1>6 DEF MarkDedup, Marked, With
  <1>7. ASSUME NEW k \in Deliveries, AppendRejection(k) PROVE AnswerInv'
    <2>1. /\ ledger[k] = <<>> /\ k \notin unwritten
          /\ \/ ledger'[k] = <<answer[k]>> /\ unwritten' = unwritten
             \/ ledger'[k] = <<>> /\ unwritten' = unwritten \cup {k}
      <3>1. ledger[k] = <<>> /\ k \notin unwritten
        BY <1>7 DEF AppendRejection
      <3>2. \/ ledger'[k] = Append(ledger[k], answer[k]) /\ unwritten' = unwritten
            \/ ledger' = ledger /\ unwritten' = unwritten \cup {k}
        BY <1>7 DEF AppendRejection
      <3>3. Append(<<>>, answer[k]) = <<answer[k]>>
        OBVIOUS
      <3>4. QED
        BY <3>1, <3>2, <3>3, Zenon
    <2>2. \A d \in Deliveries \ {k} : ledger'[d] = ledger[d] /\ step'[d] = step[d]
      BY <1>7 DEF AppendRejection
    <2>3. step'[k] = "reply" /\ step[k] = "append" /\ answer' = answer /\ enqueued' = enqueued
      BY <1>7 DEF AppendRejection
    <2>4. QED
      BY <2>1, <2>2, <2>3
  <1>8. ASSUME NEW k \in Deliveries, Reply(k) PROVE AnswerInv'
    BY <1>8 DEF Reply
  <1>9. CASE NextReadyEvent
    BY <1>9 DEF NextReadyEvent
  <1>10. CASE BeginShutdown
    BY <1>10 DEF BeginShutdown
  <1>11. CASE Tick
    BY <1>11 DEF Tick
  <1>12. CASE Restart
    BY <1>12 DEF Restart, Handled, NoEntries
  <1>13. CASE UNCHANGED vars
    BY <1>13 DEF vars, ledgerVars, queueVars, historyVars
  <1>14. QED
    BY <1>1, <1>2, <1>3, <1>4, <1>5, <1>6, <1>7, <1>8, <1>9, <1>10,
       <1>11, <1>12, <1>13
       DEF Next, Handler

\* An answer tells what happened: 202 exactly when the delivery entered the
\* queue; a refusal of a check is in the ledger once, as it was given, or its
\* record failed; what is refused before a route is looked for is not there.
THEOREM AnswersMatch == Spec => []AnswersMatchEffects
  <1>1. AnswerInv => AnswersMatchEffects
    <2> SUFFICES ASSUME AnswerInv, NEW d \in Deliveries
                 PROVE  /\ step[d] = "done" => (answer[d] = "accepted" <=> d \in enqueued)
                        /\ ledger[d] \in {<<>>, <<answer[d]>>}
                        /\ ledger[d] # <<>> => answer[d] \in Recorded /\ d \notin enqueued
                        /\ (step[d] = "done" /\ answer[d] \in Recorded) => (ledger[d] = <<>> <=> d \in unwritten)
      BY DEF AnswersMatchEffects
    <2>1. ledger[d] \in {<<>>, <<answer[d]>>}
      BY DEF AnswerInv
    <2>2. <<answer[d]>> # <<>>
      OBVIOUS
    <2>3. (step[d] = "done" /\ answer[d] \in Recorded) => (ledger[d] = <<>> <=> d \in unwritten)
      BY <2>2 DEF AnswerInv, Refusals, Recorded
    <2>4. QED
      BY <2>1, <2>3 DEF AnswerInv, Refusals, Recorded
  <1>2. QED
    BY <1>1, AnswerInit, AnswerNext, TypeCorrect, PTL DEF Spec

LEMMA AnswerInvariant == Spec => []AnswerInv
  BY AnswerInit, AnswerNext, TypeCorrect, PTL DEF Spec

-----------------------------------------------------------------------------
(* Entries of the table come from deliveries that were accepted.          *)

MarkedFor(e, k) ==
    /\ DedupEntry(e) = k
    /\ markedAt[e] # -1 /\ dedup[k] = markedAt[e] + DedupTTL

EntriesInv == \A k \in DOMAIN dedup : \E e \in enqueued : MarkedFor(e, k)

LEMMA EntriesInit == Init => EntriesInv
  BY DEF Init, EntriesInv, NoEntries

LEMMA EntriesNext == TypeOK /\ AnswerInv /\ EntriesInv /\ [Next]_vars => EntriesInv'
  <1> SUFFICES ASSUME TypeOK, AnswerInv, EntriesInv, [Next]_vars PROVE EntriesInv'
    OBVIOUS
  <1> USE BoundTypes DEF TypeOK, AnswerInv, EntriesInv, MarkedFor, Steps, Goto, Settle, ledgerVars, queueVars, historyVars,
          DedupEntry, Unexpired, Restrict
  <1>1. ASSUME NEW k \in Deliveries, Arrive(k) PROVE EntriesInv'
    <2>1. PICK q \in Requests : request' = With(request, k, q)
      BY <1>1 DEF Arrive
    <2>2. \A e \in enqueued : request'[e] = request[e]
      BY <1>1, <2>1 DEF With, Arrive
    <2>3. SUFFICES ASSUME NEW j \in DOMAIN dedup PROVE \E e \in enqueued : MarkedFor(e, j)'
      BY <1>1 DEF Arrive
    <2>4. PICK e \in enqueued : MarkedFor(e, j)
      OBVIOUS
    <2>5. QED
      BY <1>1, <2>2, <2>4 DEF Arrive
  <1>2. ASSUME NEW k \in Deliveries, CheckDedup(k) PROVE EntriesInv'
    BY <1>2 DEF CheckDedup, IsDuplicate
  <1>3. ASSUME NEW k \in Deliveries, PrepareRun(k) PROVE EntriesInv'
    BY <1>3 DEF PrepareRun, AfterUnhealthy
  <1>4. ASSUME NEW k \in Deliveries, Enqueue(k) PROVE EntriesInv'
    BY <1>4 DEF Enqueue, Room
  <1>5. ASSUME NEW k \in Deliveries, EnqueueRefused(k) PROVE EntriesInv'
    BY <1>5 DEF EnqueueRefused, Room
  <1>6. ASSUME NEW k \in Deliveries, MarkDedup(k) PROVE EntriesInv'
    <2>1. /\ DOMAIN dedup' = DOMAIN dedup \cup {DedupEntry(k)}
          /\ dedup'[DedupEntry(k)] = now + DedupTTL
          /\ \A j \in DOMAIN dedup \ {DedupEntry(k)} : dedup'[j] = dedup[j]
      BY <1>6 DEF MarkDedup, Marked, With
    <2>2. markedAt'[k] = now /\ \A e \in Deliveries \ {k} : markedAt'[e] = markedAt[e]
      BY <1>6 DEF MarkDedup
    <2>3. k \in enqueued /\ enqueued' = enqueued /\ request' = request
      BY <1>6 DEF MarkDedup
    <2>4. MarkedFor(k, DedupEntry(k))'
      BY <2>1, <2>2, <2>3
    <2>5. ASSUME NEW j \in DOMAIN dedup, j # DedupEntry(k) PROVE \E e \in enqueued' : MarkedFor(e, j)'
      <3>1. PICK e \in enqueued : MarkedFor(e, j)
        OBVIOUS
      <3>2. e # k
        BY <2>5, <3>1
      <3>3. QED
        BY <2>1, <2>2, <2>3, <2>5, <3>1, <3>2
    <2>6. QED
      BY <2>1, <2>3, <2>4, <2>5
  <1>7. ASSUME NEW k \in Deliveries, AppendRejection(k) PROVE EntriesInv'
    BY <1>7 DEF AppendRejection
  <1>8. ASSUME NEW k \in Deliveries, Reply(k) PROVE EntriesInv'
    BY <1>8 DEF Reply
  <1>9. CASE NextReadyEvent
    BY <1>9 DEF NextReadyEvent
  <1>10. CASE BeginShutdown
    BY <1>10 DEF BeginShutdown
  <1>11. CASE Tick
    BY <1>11 DEF Tick
  <1>12. CASE Restart
    BY <1>12 DEF Restart, Handled, NoEntries
  <1>13. CASE UNCHANGED vars
    BY <1>13 DEF vars, ledgerVars, queueVars, historyVars
  <1>14. QED
    BY <1>1, <1>2, <1>3, <1>4, <1>5, <1>6, <1>7, <1>8, <1>9, <1>10,
       <1>11, <1>12, <1>13
       DEF Next, Handler

StepOnlyRepeats(d) ==
    answer[d] = "none" /\ answer'[d] = "duplicate" =>
        \E e \in enqueued \ {d} : /\ SameDelivery(d, e)
                                  /\ markedAt[e] # -1 /\ now <= markedAt[e] + DedupTTL

LEMMA StepsOnlyRepeats ==
    TypeOK /\ AnswerInv /\ EntriesInv /\ [Next]_vars =>
        [\A d \in Deliveries : StepOnlyRepeats(d)]_vars
  <1> SUFFICES ASSUME TypeOK, AnswerInv, EntriesInv, Next, NEW d \in Deliveries,
                      answer[d] = "none", answer'[d] = "duplicate"
               PROVE  \E e \in enqueued \ {d} : /\ SameDelivery(d, e)
                                                /\ markedAt[e] # -1 /\ now <= markedAt[e] + DedupTTL
    BY DEF StepOnlyRepeats
  <1>1. CheckDedup(d) /\ IsDuplicate(d)
    BY DEF TypeOK, Next, Handler, Settle, Goto, Arrive, CheckDedup, PrepareRun,
           AfterUnhealthy, Enqueue, EnqueueRefused, MarkDedup, AppendRejection, Reply,
           NextReadyEvent, BeginShutdown, Tick, Restart
  <1>2. d \notin enqueued
    BY <1>1 DEF CheckDedup, AnswerInv
  <1>3. PICK e \in enqueued : MarkedFor(e, DedupEntry(d)) /\ now <= dedup[DedupEntry(d)]
    BY <1>1 DEF IsDuplicate, Unexpired, EntriesInv
  <1>4. QED
    BY <1>2, <1>3 DEF MarkedFor, SameDelivery

\* Only a repetition is refused as one: a delivery of the same key to the same
\* route entered the queue and was marked within the TTL.
THEOREM RefusedAreRepeats == Spec => OnlyRepeatsAreRefused
  <1>1. Spec => []EntriesInv
    BY EntriesInit, EntriesNext, TypeCorrect, AnswerInvariant, PTL DEF Spec
  <1>2. [\A d \in Deliveries : StepOnlyRepeats(d)]_vars
        => [\A d \in Deliveries : answer[d] = "none" /\ answer'[d] = "duplicate" =>
              \E e \in enqueued \ {d} : /\ SameDelivery(d, e)
                                        /\ markedAt[e] # -1 /\ now <= markedAt[e] + DedupTTL]_vars
    BY DEF StepOnlyRepeats
  <1>3. QED
    BY <1>1, <1>2, StepsOnlyRepeats, TypeCorrect, AnswerInvariant, PTL DEF Spec, OnlyRepeatsAreRefused

-----------------------------------------------------------------------------
(* What was answered 202 stays in the table until its time has passed.     *)

Protected(e) == e \in acknowledged \/ (step[e] = "reply" /\ answer[e] = "accepted")
Remembered(e) ==
    /\ markedAt[e] # -1
    /\ \/ DedupEntry(e) \in DOMAIN dedup /\ dedup[DedupEntry(e)] >= markedAt[e] + DedupTTL
       \/ now > markedAt[e] + DedupTTL

MemoryInv ==
    /\ \A e \in Deliveries : markedAt[e] <= now
    /\ \A e \in acknowledged : step[e] = "done"
    /\ \A e \in Deliveries : Protected(e) => Remembered(e)
    /\ \A d \in Deliveries : step[d] = "dedup" => known[d] \subseteq acknowledged

LEMMA MemoryInit == Init => MemoryInv
  BY DEF Init, MemoryInv, Protected

LEMMA MemoryNext == TypeOK /\ AnswerInv /\ MemoryInv /\ [Next]_vars => MemoryInv'
  <1> SUFFICES ASSUME TypeOK, AnswerInv, MemoryInv, [Next]_vars PROVE MemoryInv'
    OBVIOUS
  <1> USE BoundTypes DEF TypeOK, AnswerInv, MemoryInv, Protected, Remembered, Refusals, Recorded,
          Steps, Goto, Settle, ledgerVars, queueVars, historyVars, DedupEntry, Unexpired, Restrict
  <1>1. ASSUME NEW k \in Deliveries, Arrive(k) PROVE MemoryInv'
    BY <1>1 DEF Arrive, With
  <1>2. ASSUME NEW k \in Deliveries, CheckDedup(k) PROVE MemoryInv'
    <2>1. step[k] = "dedup" /\ step'[k] \in {"append", "adapter"}
      BY <1>2 DEF CheckDedup
    <2>2. \A e \in Deliveries \ {k} : step'[e] = step[e] /\ answer'[e] = answer[e] /\ known'[e] = known[e]
      BY <1>2 DEF CheckDedup
    <2>3. /\ UNCHANGED <<request, now, acknowledged, markedAt>>
          /\ dedup' = [y \in DOMAIN dedup \cap {j \in DOMAIN dedup : now <= dedup[j]} |-> dedup[y]]
      BY <1>2 DEF CheckDedup
    <2>4. \A e \in Deliveries : Protected(e)' => Protected(e)
      BY <2>1, <2>2, <2>3
    <2>5. QED
      BY <2>1, <2>2, <2>3, <2>4
  <1>3. ASSUME NEW k \in Deliveries, PrepareRun(k) PROVE MemoryInv'
    <2>1. \A e \in Deliveries : Protected(e)' => Protected(e)
      BY <1>3 DEF PrepareRun, AfterUnhealthy
    <2>2. \A e \in Deliveries : step'[e] \in {"dedup", "done"} <=> step[e] \in {"dedup", "done"}
      BY <1>3 DEF PrepareRun, AfterUnhealthy
    <2>3. \A e \in Deliveries : step[e] \in {"dedup", "done"} => step'[e] = step[e]
      BY <1>3 DEF PrepareRun, AfterUnhealthy
    <2>4. QED
      BY <1>3, <2>1, <2>2, <2>3 DEF PrepareRun
  <1>4. ASSUME NEW k \in Deliveries, Enqueue(k) PROVE MemoryInv'
    BY <1>4 DEF Enqueue, Room
  <1>5. ASSUME NEW k \in Deliveries, EnqueueRefused(k) PROVE MemoryInv'
    BY <1>5 DEF EnqueueRefused, Room
  <1>6. ASSUME NEW k \in Deliveries, MarkDedup(k) PROVE MemoryInv'
    BY <1>6 DEF MarkDedup, Marked, With
  <1>7. ASSUME NEW k \in Deliveries, AppendRejection(k) PROVE MemoryInv'
    BY <1>7 DEF AppendRejection
  <1>8. ASSUME NEW k \in Deliveries, Reply(k) PROVE MemoryInv'
    BY <1>8 DEF Reply
  <1>9. CASE NextReadyEvent
    BY <1>9 DEF NextReadyEvent
  <1>10. CASE BeginShutdown
    BY <1>10 DEF BeginShutdown
  <1>11. CASE Tick
    BY <1>11 DEF Tick
  <1>12. CASE Restart
    BY <1>12 DEF Restart, Handled, NoEntries
  <1>13. CASE UNCHANGED vars
    BY <1>13 DEF vars, ledgerVars, queueVars, historyVars
  <1>14. QED
    BY <1>1, <1>2, <1>3, <1>4, <1>5, <1>6, <1>7, <1>8, <1>9, <1>10,
       <1>11, <1>12, <1>13
       DEF Next, Handler

StepRepeats(d) ==
    step[d] = "dedup" /\ step'[d] = "adapter" =>
        \A e \in known[d] : SameDelivery(d, e) => now > markedAt[e] + DedupTTL

LEMMA StepsRepeats ==
    TypeOK /\ AnswerInv /\ MemoryInv /\ [Next]_vars => [\A d \in Deliveries : StepRepeats(d)]_vars
  <1> SUFFICES ASSUME TypeOK, AnswerInv, MemoryInv, Next, NEW d \in Deliveries,
                      step[d] = "dedup", step'[d] = "adapter",
                      NEW e \in known[d], SameDelivery(d, e)
               PROVE  now > markedAt[e] + DedupTTL
    BY DEF StepRepeats
  <1>1. CheckDedup(d)
    BY DEF TypeOK, Next, Handler, Settle, Goto, Arrive, CheckDedup, PrepareRun,
           AfterUnhealthy, Enqueue, EnqueueRefused, MarkDedup, AppendRejection, Reply,
           NextReadyEvent, BeginShutdown, Tick, Restart, ledgerVars, queueVars, historyVars, Handled
  <1>2. CheckDedup(d) /\ ~IsDuplicate(d)
    BY <1>1 DEF CheckDedup, Goto, TypeOK
  <1>3. e \in acknowledged /\ DedupEntry(e) = DedupEntry(d)
    BY DEF MemoryInv, SameDelivery
  <1>4. Remembered(e)
    BY <1>3 DEF MemoryInv, Protected, TypeOK
  <1>5. DedupEntry(d) \notin DOMAIN dedup \/ now > dedup[DedupEntry(d)]
    BY <1>2 DEF IsDuplicate, Unexpired, TypeOK
  <1>6. QED
    BY <1>3, <1>4, <1>5, BoundTypes DEF Remembered, TypeOK

\* A repetition of what was answered 202 passes the check only after its TTL.
THEOREM RepeatsRefused == Spec => RepeatsAreRefused
  <1>1. Spec => []MemoryInv
    BY MemoryInit, MemoryNext, TypeCorrect, AnswerInvariant, PTL DEF Spec
  <1>2. [\A d \in Deliveries : StepRepeats(d)]_vars
        => [\A d \in Deliveries : step[d] = "dedup" /\ step'[d] = "adapter" =>
              \A e \in known[d] : SameDelivery(d, e) => now > markedAt[e] + DedupTTL]_vars
    BY DEF StepRepeats
  <1>3. QED
    BY <1>1, <1>2, StepsRepeats, TypeCorrect, AnswerInvariant, PTL DEF Spec, RepeatsAreRefused
=============================================================================
