--------------------------- MODULE RunQueueProofs ---------------------------
(* Theorems about RunQueue, for every set of runs, routes and workspaces.  *)
EXTENDS RunQueueImplements, SequenceTheorems, FiniteSetTheorems, TLAPS

(***************************************************************************)
(* Sequences without repetition, as s.pending, finishCh and the slice of   *)
(* rejectPending are.                                                      *)
(***************************************************************************)

\* Removing one element keeps the others, in their order.
LEMMA RemoveAtElements ==
    ASSUME NEW S, NEW s \in Seq(S), NEW i \in 1 .. Len(s)
    PROVE  /\ RemoveAt(s, i) \in Seq(S)
           /\ Len(RemoveAt(s, i)) = Len(s) - 1
           /\ \A j \in 1 .. (Len(s) - 1) :
                  RemoveAt(s, i)[j] = IF j < i THEN s[j] ELSE s[j + 1]
<1> DEFINE a == SubSeq(s, 1, i - 1)
           b == SubSeq(s, i + 1, Len(s))
<1>1. a \in Seq(S) /\ Len(a) = i - 1 /\ \A j \in 1 .. (i - 1) : a[j] = s[j]
  OBVIOUS
<1>2. /\ b \in Seq(S) /\ Len(b) = Len(s) - i
      /\ \A j \in 1 .. (Len(s) - i) : b[j] = s[i + j]
  OBVIOUS
<1> HIDE DEF a, b
<1>3. a \o b \in Seq(S) /\ Len(a \o b) = Len(s) - 1
  <2>1. a \o b \in Seq(S) /\ Len(a \o b) = Len(a) + Len(b)
    BY <1>1, <1>2, ConcatProperties, Zenon
  <2> QED BY <1>1, <1>2, <2>1
<1>4. ASSUME NEW j \in 1 .. (Len(s) - 1)
      PROVE  (a \o b)[j] = IF j < i THEN s[j] ELSE s[j + 1]
  <2>1. CASE j < i
    BY <1>1, <1>2, <2>1, ConcatProperties
  <2>2. CASE ~(j < i)
    <3>1. (a \o b)[j] = b[j - (i - 1)]
      BY <1>1, <1>2, <2>2, ConcatProperties
    <3>2. j - (i - 1) \in 1 .. (Len(s) - i) /\ i + (j - (i - 1)) = j + 1
      BY <2>2
    <3> QED BY <1>2, <2>2, <3>1, <3>2
  <2> QED BY <2>1, <2>2
<1> QED BY <1>3, <1>4 DEF RemoveAt, a, b

\* A sequence without repetition loses exactly the element removed.
LEMMA RemoveAtNoRepetition ==
    ASSUME NEW S, NEW s \in Seq(S), IsInjective(s), NEW i \in 1 .. Len(s)
    PROVE  /\ IsInjective(RemoveAt(s, i))
           /\ ToSet(RemoveAt(s, i)) = ToSet(s) \ {s[i]}
<1> DEFINE t == RemoveAt(s, i)
<1>1. /\ t \in Seq(S) /\ Len(t) = Len(s) - 1
      /\ \A j \in 1 .. (Len(s) - 1) : t[j] = IF j < i THEN s[j] ELSE s[j + 1]
  BY RemoveAtElements
<1> HIDE DEF t
<1>2. DOMAIN t = 1 .. (Len(s) - 1) /\ DOMAIN s = 1 .. Len(s) /\ Len(s) \in Nat
  BY <1>1, LenProperties
<1>3. \A a, b \in 1 .. Len(s) : s[a] = s[b] => a = b
  BY <1>2 DEF IsInjective
<1>4. IsInjective(t)
  BY <1>1, <1>2, <1>3 DEF IsInjective
<1>5. ASSUME NEW j \in 1 .. (Len(s) - 1) PROVE t[j] \in ToSet(s) \ {s[i]}
  <2>1. \E k \in 1 .. Len(s) : k # i /\ t[j] = s[k]
    <3>1. CASE j < i
      BY <1>1, <1>2, <3>1
    <3>2. CASE ~(j < i)
      <4>1. j + 1 \in 1 .. Len(s) /\ j + 1 # i
        BY <1>2, <3>2
      <4> QED BY <1>1, <3>2, <4>1
    <3> QED BY <3>1, <3>2
  <2> QED BY <1>2, <1>3, <2>1 DEF ToSet
<1>6. ASSUME NEW k \in 1 .. Len(s), k # i PROVE \E j \in 1 .. (Len(s) - 1) : t[j] = s[k]
  <2>1. CASE k < i
    BY <1>1, <1>2, <2>1
  <2>2. CASE k > i
    <3>1. k - 1 \in 1 .. (Len(s) - 1) /\ ~(k - 1 < i) /\ (k - 1) + 1 = k
      BY <1>2, <2>2
    <3> QED BY <1>1, <3>1
  <2> QED BY <1>2, <1>6, <2>1, <2>2
<1>7. ToSet(t) = ToSet(s) \ {s[i]}
  <2>1. ToSet(t) \subseteq ToSet(s) \ {s[i]}
    BY <1>2, <1>5 DEF ToSet
  <2>2. ASSUME NEW x \in ToSet(s) \ {s[i]} PROVE x \in ToSet(t)
    <3>1. PICK k \in 1 .. Len(s) : x = s[k] /\ k # i
      BY <1>2 DEF ToSet
    <3>2. PICK j \in 1 .. (Len(s) - 1) : t[j] = s[k]
      BY <1>6, <3>1
    <3> QED BY <1>2, <3>1, <3>2 DEF ToSet
  <2> QED BY <2>1, <2>2
<1> QED BY <1>4, <1>7 DEF t

\* Appending an element that is not there yet.
LEMMA AppendNoRepetition ==
    ASSUME NEW S, NEW s \in Seq(S), IsInjective(s), NEW e \in S, e \notin ToSet(s)
    PROVE  /\ IsInjective(Append(s, e))
           /\ ToSet(Append(s, e)) = ToSet(s) \cup {e}
<1> DEFINE t == Append(s, e)
<1>1. /\ t \in Seq(S) /\ Len(t) = Len(s) + 1 /\ t[Len(s) + 1] = e
      /\ \A j \in 1 .. Len(s) : t[j] = s[j]
  BY AppendProperties
<1> HIDE DEF t
<1>2. DOMAIN t = 1 .. (Len(s) + 1) /\ DOMAIN s = 1 .. Len(s) /\ Len(s) \in Nat
  BY <1>1, LenProperties
<1>3. /\ \A a, b \in 1 .. Len(s) : s[a] = s[b] => a = b
      /\ \A a \in 1 .. Len(s) : s[a] # e
  BY <1>2 DEF IsInjective, ToSet
<1>4. IsInjective(t)
  BY <1>1, <1>2, <1>3 DEF IsInjective
<1>5. ToSet(t) = ToSet(s) \cup {e}
  BY <1>1, <1>2 DEF ToSet
<1> QED BY <1>4, <1>5 DEF t

\* Taking the first element.
LEMMA TailNoRepetition ==
    ASSUME NEW S, NEW s \in Seq(S), IsInjective(s), s # <<>>
    PROVE  /\ Head(s) \in ToSet(s)
           /\ IsInjective(Tail(s))
           /\ ToSet(Tail(s)) = ToSet(s) \ {Head(s)}
<1> DEFINE t == Tail(s)
<1>1. /\ t \in Seq(S) /\ Len(t) = Len(s) - 1 /\ Len(s) \in Nat \ {0}
      /\ \A j \in 1 .. (Len(s) - 1) : t[j] = s[j + 1]
      /\ Head(s) = s[1]
  BY HeadTailProperties, EmptySeq
<1> HIDE DEF t
<1>2. DOMAIN t = 1 .. (Len(s) - 1) /\ DOMAIN s = 1 .. Len(s)
  BY <1>1, LenProperties
<1>3. \A a, b \in 1 .. Len(s) : s[a] = s[b] => a = b
  BY <1>2 DEF IsInjective
<1>4. IsInjective(t)
  BY <1>1, <1>2, <1>3 DEF IsInjective
<1>5. Head(s) \in ToSet(s)
  BY <1>1, <1>2 DEF ToSet
<1>6. ToSet(t) \subseteq ToSet(s) \ {Head(s)}
  <2>1. ASSUME NEW j \in 1 .. (Len(s) - 1) PROVE t[j] \in ToSet(s) \ {s[1]}
    BY <1>1, <1>2, <1>3 DEF ToSet
  <2> QED BY <1>1, <1>2, <2>1 DEF ToSet
<1>7. ASSUME NEW x \in ToSet(s) \ {Head(s)} PROVE x \in ToSet(t)
  <2>1. PICK k \in 1 .. Len(s) : x = s[k] /\ k # 1
    BY <1>1, <1>2 DEF ToSet
  <2>2. k - 1 \in 1 .. (Len(s) - 1) /\ t[k - 1] = s[k]
    BY <1>1, <2>1
  <2> QED BY <1>2, <2>1, <2>2 DEF ToSet
<1> QED BY <1>4, <1>5, <1>6, <1>7 DEF t

-----------------------------------------------------------------------------
(* Types.                                                                  *)

\* A record changes the run's stage and outcome and may extend the ledger.
LEMMA RecordTypes ==
    ASSUME TypeOK, NEW r \in Runs, NEW result \in Outcomes, Record(r, result)
    PROVE  /\ stage' \in [Runs -> Stages]
           /\ outcome' \in [Runs -> Outcomes]
           /\ ledger' \in [Runs -> Seq(Outcomes)]
<1>1. stage' \in [Runs -> Stages] /\ outcome' \in [Runs -> Outcomes]
  BY DEF Record, TypeOK, Stages
<1>2. Append(ledger[r], result) \in Seq(Outcomes)
  BY AppendProperties DEF TypeOK
<1>3. ledger' \in [Runs -> Seq(Outcomes)]
  BY <1>2 DEF Record, TypeOK
<1> QED BY <1>1, <1>3

\* Queueing a run, or turning it away.
LEMMA TriggerTypes ==
    ASSUME TypeOK, NEW r \in Runs, NEW result \in Outcomes,
           Push(r) \/ TurnAway(r, result)
    PROVE  /\ stage' \in [Runs -> Stages]
           /\ outcome' \in [Runs -> Outcomes]
           /\ pending' \in Seq(Runs)
           /\ notified' \in BOOLEAN
<1>1. Append(pending, r) \in Seq(Runs)
  BY AppendProperties DEF TypeOK
<1> QED BY <1>1 DEF Push, TurnAway, queueVars, TypeOK, Stages

LEMMA TypeStep == TypeOK /\ [Next]_vars => TypeOK'
<1> SUFFICES ASSUME TypeOK, [Next]_vars PROVE TypeOK'
  OBVIOUS
<1>1. ASSUME NEW r \in Runs, Enqueue(r) PROVE TypeOK'
  <2>1. Push(r) \/ TurnAway(r, "rejected")
    BY <1>1 DEF Enqueue
  <2>2. "rejected" \in Outcomes
    BY DEF Outcomes
  <2> QED BY <1>1, <2>1, <2>2, TriggerTypes DEF Enqueue, TypeOK, markVars, shutdownVars
<1>2. ASSUME NEW r \in Runs, AppendRefusedWebhook(r) PROVE TypeOK'
  <2>1. outcome[r] \in Outcomes
    BY DEF TypeOK
  <2> QED BY <1>2, <2>1, RecordTypes
          DEF AppendRefusedWebhook, TypeOK, queueVars, markVars, shutdownVars
<1>3. ASSUME NEW r \in Runs, EnqueueCron(r) PROVE TypeOK'
  <2>1. PICK result \in {"rejected", "skipped"} : Push(r) \/ TurnAway(r, result)
    BY <1>3 DEF EnqueueCron
  <2>2. result \in Outcomes
    BY <2>1 DEF Outcomes
  <2>3. scheduler' \in {"ready", "append", "exited"}
    BY <1>3 DEF EnqueueCron, TypeOK
  <2> QED BY <1>3, <2>1, <2>2, <2>3, TriggerTypes DEF EnqueueCron, TypeOK, markVars, shutdownVars
<1>4. ASSUME NEW r \in Runs, AppendRefusedCron(r) PROVE TypeOK'
  <2>1. outcome[r] \in Outcomes
    BY DEF TypeOK
  <2> QED BY <1>4, <2>1, RecordTypes
          DEF AppendRefusedCron, TypeOK, queueVars, markVars, shutdownVars
<1>5. ASSUME NEW r \in Runs, Executor(r) PROVE TypeOK'
  <2>1. Len(finishCh) < FinishChanCapacity => Append(finishCh, r) \in Seq(Runs)
    BY AppendProperties DEF TypeOK
  <2>2. /\ stage' \in [Runs -> Stages] /\ outcome' \in [Runs -> Outcomes]
        /\ finishCh' \in Seq(Runs)
    <3>1. CASE StartRejected(r)
      BY <3>1 DEF StartRejected, TypeOK, Stages, Outcomes
    <3>2. CASE StartDispatch(r)
      BY <3>2 DEF StartDispatch, TypeOK, Stages, Outcomes
    <3>3. CASE DispatchReturns(r)
      BY <3>3 DEF DispatchReturns, TypeOK, Stages, Outcomes
    <3>4. CASE SendFinished(r)
      BY <2>1, <3>4 DEF SendFinished, TypeOK, Stages
    <3> QED BY <1>5, <3>1, <3>2, <3>3, <3>4 DEF Executor
  <2>3. UNCHANGED executorFrame
    BY <1>5 DEF Executor, StartRejected, StartDispatch, DispatchReturns, SendFinished
  <2> QED BY <2>2, <2>3 DEF TypeOK, executorFrame, queueVars, markVars, shutdownVars
<1>6. CASE ReceiveNotify
  BY <1>6 DEF ReceiveNotify, TypeOK, runVars, markVars, shutdownVars
<1>7. CASE NextReadyEvent
  <2>1. PICK i \in DOMAIN pending :
            /\ pending' = RemoveAt(pending, i)
            /\ routeRunning' = routeRunning \cup {RouteOf[pending[i]]}
            /\ workspaceRunning' =
                 [workspaceRunning EXCEPT ![WorkspaceOf[pending[i]]] = @ + 1]
            /\ stage' = [stage EXCEPT ![pending[i]] = "starting"]
    BY <1>7 DEF NextReadyEvent
  <2>2. i \in 1 .. Len(pending) /\ pending[i] \in Runs
    BY LenProperties, ElementOfSeq DEF TypeOK
  <2>3. pending' \in Seq(Runs)
    BY <2>1, <2>2, RemoveAtElements DEF TypeOK
  <2>4. RouteOf[pending[i]] \in Routes /\ WorkspaceOf[pending[i]] \in Workspaces
    BY <2>2, SnapshotTypes
  <2>5. stage' \in [Runs -> Stages]
    BY <2>1, <2>2 DEF TypeOK, Stages
  <2>6. workspaceRunning' \in [Workspaces -> Nat]
    BY <2>1, <2>4 DEF TypeOK
  <2>7. routeRunning' \in SUBSET Routes
    BY <2>1, <2>4 DEF TypeOK
  <2> QED BY <1>7, <2>3, <2>5, <2>6, <2>7 DEF NextReadyEvent, TypeOK, shutdownVars
<1>8. CASE NoReadyEvent
  BY <1>8 DEF NoReadyEvent, TypeOK, runVars, queueVars, markVars, shutdownVars
<1>9. CASE ReceiveFinished
  <2>1. Head(finishCh) \in Runs /\ Tail(finishCh) \in Seq(Runs)
    BY <1>9, HeadTailProperties DEF ReceiveFinished, TypeOK
  <2>2. WorkspaceOf[Head(finishCh)] \in Workspaces
    BY <2>1, SnapshotTypes
  <2>3. workspaceRunning' \in [Workspaces -> Nat]
    BY <1>9, <2>2 DEF ReceiveFinished, TypeOK
  <2> QED BY <1>9, <2>1, <2>3 DEF ReceiveFinished, TypeOK, queueVars, shutdownVars, Stages
<1>10. ASSUME NEW r \in Runs, AppendFinished(r) PROVE TypeOK'
  <2>1. outcome[r] \in Outcomes
    BY DEF TypeOK
  <2> QED BY <1>10, <2>1, RecordTypes
          DEF AppendFinished, TypeOK, queueVars, markVars, shutdownVars
<1>11. CASE SignalFinished
  BY <1>11 DEF SignalFinished, TypeOK, runVars, markVars, shutdownVars
<1>12. CASE BeginShutdown \/ StopIdle \/ CancelForced \/ Stop \/ Restart
  BY <1>12 DEF BeginShutdown, StopIdle, CancelForced, Stop, Restart, TypeOK,
               triggerFrame, runVars, queueVars, markVars
<1>13. CASE Deadline
  BY <1>13, EmptySeq DEF Deadline, TypeOK, triggerFrame, markVars, Stages
<1>14. CASE RejectPurged
  <2>1. Head(purged) \in Runs /\ Tail(purged) \in Seq(Runs) /\ "rejected" \in Outcomes
    BY <1>14, HeadTailProperties DEF RejectPurged, TypeOK, Outcomes
  <2> QED BY <1>14, <2>1, RecordTypes DEF RejectPurged, TypeOK, queueVars, markVars
<1>15. CASE DispatcherExit \/ SchedulerExit
  BY <1>15 DEF DispatcherExit, SchedulerExit, TypeOK, runVars, queueVars, markVars, shutdownVars
<1>16. CASE Exit \/ Crash
  <2> USE DEF ProcessEnds
  <2>1. ProcessEnds
    BY <1>16 DEF Exit, Crash
  <2>2. stage' \in [Runs -> Stages]
    BY <2>1 DEF TypeOK, Stages
  <2>3. workspaceRunning' \in [Workspaces -> Nat]
    BY <2>1
  <2>4. pending' \in Seq(Runs) /\ purged' \in Seq(Runs) /\ finishCh' \in Seq(Runs)
    BY <2>1, EmptySeq
  <2> QED BY <2>1, <2>2, <2>3, <2>4 DEF TypeOK
<1>17. CASE UNCHANGED vars
  BY <1>17 DEF vars, TypeOK
<1> QED
  BY <1>1, <1>2, <1>3, <1>4, <1>5, <1>6, <1>7, <1>8, <1>9, <1>10, <1>11, <1>12, <1>13,
     <1>14, <1>15, <1>16, <1>17
     DEF Next, Trigger, Dispatcher, Shutdown, Process

\* Every variable keeps its type in every reachable state of the queue.
THEOREM TypeCorrect == Spec => []TypeOK
<1>1. Init => TypeOK
  <2> SUFFICES ASSUME Init PROVE TypeOK
    OBVIOUS
  <2> USE DEF Init
  <2>1. pending \in Seq(Runs) /\ purged \in Seq(Runs) /\ finishCh \in Seq(Runs)
    BY EmptySeq
  <2>2. ledger \in [Runs -> Seq(Outcomes)]
    BY EmptySeq
  <2>3. workspaceRunning \in [Workspaces -> Nat]
    OBVIOUS
  <2>4. stage \in [Runs -> Stages] /\ outcome \in [Runs -> Outcomes]
    BY DEF Stages, Outcomes
  <2> QED BY <2>1, <2>2, <2>3, <2>4 DEF TypeOK
<1> QED BY <1>1, TypeStep, PTL DEF Spec

-----------------------------------------------------------------------------
(* The queue, the channel and the slice of rejectPending hold the runs     *)
(* whose stage says so, each once.                                         *)

InSequence == {"pending", "purged", "sent"}

\* A step of a run that is in none of the three leaves them sound.
LEMMA MoveOutsideSequences ==
    ASSUME TypeOK, QueueSound,
           NEW r \in Runs, NEW to \in Stages \ InSequence,
           stage[r] \notin InSequence,
           stage' = [stage EXCEPT ![r] = to],
           UNCHANGED <<pending, finishCh, purged, phase>>
    PROVE  QueueSound'
BY DEF QueueSound, TypeOK, InSequence

LEMMA PushSound ==
    ASSUME TypeOK, QueueSound,
           NEW r \in Runs, stage[r] = "new",
           Accepting, Len(pending) < GlobalQueueCapacity,
           Push(r), UNCHANGED <<finishCh, purged, phase>>
    PROVE  QueueSound'
<1>1. r \notin ToSet(pending) /\ pending \in Seq(Runs) /\ IsInjective(pending)
  BY DEF QueueSound, TypeOK
<1>2. IsInjective(pending') /\ ToSet(pending') = ToSet(pending) \cup {r}
  BY <1>1, AppendNoRepetition DEF Push
<1>3. Len(pending') <= GlobalQueueCapacity
  BY <1>1, AppendProperties, ConfigAssumption, LenProperties DEF Push
<1>4. ToSet(pending') = {x \in Runs : stage'[x] = "pending"}
  BY <1>2 DEF QueueSound, Push, TypeOK
<1>5. /\ {x \in Runs : stage'[x] = "purged"} = {x \in Runs : stage[x] = "purged"}
      /\ {x \in Runs : stage'[x] = "sent"} = {x \in Runs : stage[x] = "sent"}
  BY DEF Push, TypeOK
<1> QED BY <1>2, <1>3, <1>4, <1>5 DEF QueueSound, Accepting

LEMMA QueueSoundStep == TypeOK /\ QueueSound /\ [Next]_vars => QueueSound'
<1> SUFFICES ASSUME TypeOK, QueueSound, [Next]_vars PROVE QueueSound'
  OBVIOUS
<1>1. ASSUME NEW r \in Runs, Enqueue(r) \/ EnqueueCron(r) PROVE QueueSound'
  <2>1. stage[r] = "new" /\ UNCHANGED <<finishCh, purged, phase>>
    BY <1>1 DEF Enqueue, EnqueueCron, shutdownVars
  <2>2. CASE Push(r) /\ Accepting /\ Len(pending) < GlobalQueueCapacity
    BY <2>1, <2>2, PushSound
  <2>3. CASE TurnAway(r, "rejected") \/ TurnAway(r, "skipped")
    <3>1. stage' = [stage EXCEPT ![r] = "refused"] /\ UNCHANGED pending
      BY <2>3 DEF TurnAway, queueVars
    <3> QED BY <2>1, <3>1, MoveOutsideSequences DEF Stages, InSequence
  <2> QED BY <1>1, <2>2, <2>3 DEF Enqueue, EnqueueCron
<1>2. ASSUME NEW r \in Runs,
             AppendRefusedWebhook(r) \/ AppendRefusedCron(r) \/ AppendFinished(r)
      PROVE  QueueSound'
  <2>1. /\ stage[r] \notin InSequence
        /\ stage' = [stage EXCEPT ![r] = "closed"]
        /\ UNCHANGED <<pending, finishCh, purged, phase>>
    BY <1>2 DEF AppendRefusedWebhook, AppendRefusedCron, AppendFinished, Record,
                queueVars, shutdownVars, InSequence
  <2> QED BY <2>1, MoveOutsideSequences DEF Stages, InSequence
<1>3. ASSUME NEW r \in Runs, StartRejected(r) \/ StartDispatch(r) \/ DispatchReturns(r)
      PROVE  QueueSound'
  <2>1. PICK to \in {"dispatching", "finishing"} :
            /\ stage[r] \notin InSequence
            /\ stage' = [stage EXCEPT ![r] = to]
            /\ UNCHANGED <<pending, finishCh, purged, phase>>
    BY <1>3 DEF StartRejected, StartDispatch, DispatchReturns, executorFrame,
                queueVars, shutdownVars, InSequence
  <2> QED BY <2>1, MoveOutsideSequences DEF Stages, InSequence
<1>4. ASSUME NEW r \in Runs, SendFinished(r) PROVE QueueSound'
  <2>1. r \notin ToSet(finishCh) /\ finishCh \in Seq(Runs) /\ IsInjective(finishCh)
    BY <1>4 DEF SendFinished, QueueSound, TypeOK
  <2>2. IsInjective(finishCh') /\ ToSet(finishCh') = ToSet(finishCh) \cup {r}
    BY <1>4, <2>1, AppendNoRepetition DEF SendFinished
  <2>3. UNCHANGED <<pending, purged, phase>> /\ stage' = [stage EXCEPT ![r] = "sent"]
    BY <1>4 DEF SendFinished, executorFrame, queueVars, shutdownVars
  <2> QED BY <1>4, <2>2, <2>3 DEF SendFinished, QueueSound, TypeOK
<1>5. CASE NextReadyEvent
  <2>1. PICK i \in DOMAIN pending :
            /\ pending' = RemoveAt(pending, i)
            /\ stage' = [stage EXCEPT ![pending[i]] = "starting"]
            /\ UNCHANGED <<finishCh, purged, phase>>
    BY <1>5 DEF NextReadyEvent, shutdownVars
  <2>2. /\ pending \in Seq(Runs) /\ IsInjective(pending)
        /\ i \in 1 .. Len(pending) /\ pending[i] \in Runs /\ Len(pending) \in Nat
    BY LenProperties, ElementOfSeq DEF TypeOK, QueueSound
  <2>3. IsInjective(pending') /\ ToSet(pending') = ToSet(pending) \ {pending[i]}
    BY <2>1, <2>2, RemoveAtNoRepetition
  <2>4. Len(pending') <= GlobalQueueCapacity
    BY <2>1, <2>2, RemoveAtElements, ConfigAssumption DEF QueueSound
  <2>6. phase \in {"serving", "draining"}
    BY <2>2, EmptySeq DEF QueueSound
  <2>5. stage[pending[i]] = "pending"
    BY <2>2 DEF QueueSound, ToSet
  <2> QED BY <2>1, <2>2, <2>3, <2>4, <2>5, <2>6 DEF QueueSound, TypeOK
<1>6. CASE ReceiveFinished
  <2> DEFINE r == Head(finishCh)
  <2>1. /\ r \in ToSet(finishCh) /\ IsInjective(finishCh')
        /\ ToSet(finishCh') = ToSet(finishCh) \ {r}
    BY <1>6, TailNoRepetition DEF ReceiveFinished, QueueSound, TypeOK
  <2>2. /\ stage' = [stage EXCEPT ![r] = "clearing"]
        /\ UNCHANGED <<pending, purged, phase>>
    BY <1>6 DEF ReceiveFinished, queueVars, shutdownVars
  <2>3. r \in Runs /\ stage[r] = "sent"
    BY <2>1 DEF QueueSound
  <2> HIDE DEF r
  <2> QED BY <2>1, <2>2, <2>3 DEF QueueSound, TypeOK
<1>7. CASE RejectPurged
  <2> DEFINE r == Head(purged)
  <2>1. /\ r \in ToSet(purged) /\ IsInjective(purged')
        /\ ToSet(purged') = ToSet(purged) \ {r}
    BY <1>7, TailNoRepetition DEF RejectPurged, QueueSound, TypeOK
  <2>2. /\ stage' = [stage EXCEPT ![r] = "closed"]
        /\ UNCHANGED <<pending, finishCh, phase>>
    BY <1>7 DEF RejectPurged, Record, queueVars
  <2>3. r \in Runs /\ stage[r] = "purged" /\ phase = "rejecting"
    BY <1>7, <2>1 DEF RejectPurged, QueueSound
  <2> HIDE DEF r
  <2> QED BY <2>1, <2>2, <2>3 DEF QueueSound, TypeOK
<1>8. CASE Deadline
  <2>1. /\ pending' = <<>> /\ purged' = pending /\ UNCHANGED finishCh
        /\ phase' = "rejecting" /\ purged = <<>>
        /\ stage' = [x \in Runs |-> IF stage[x] = "pending" THEN "purged" ELSE stage[x]]
    BY <1>8 DEF Deadline, triggerFrame, QueueSound
  <2>2. ToSet(<<>>) = {} /\ IsInjective(<<>>) /\ Len(<<>>) = 0
    BY DEF ToSet, IsInjective
  <2>3. {x \in Runs : stage[x] = "purged"} = {}
    BY <2>1, <2>2 DEF QueueSound
  <2> QED BY <2>1, <2>2, <2>3, ConfigAssumption DEF QueueSound
<1>9. CASE Exit \/ Crash
  <2>1. /\ pending' = <<>> /\ purged' = <<>> /\ finishCh' = <<>>
        /\ \A x \in Runs : stage'[x] \notin InSequence
    BY <1>9 DEF Exit, Crash, ProcessEnds, InSequence, Volatile, AcceptedStages, MarkedStages
  <2>2. ToSet(<<>>) = {} /\ IsInjective(<<>>) /\ Len(<<>>) = 0
    BY DEF ToSet, IsInjective
  <2> QED BY <2>1, <2>2, ConfigAssumption DEF QueueSound, InSequence
<1>10. CASE StopIdle
  BY <1>10 DEF StopIdle, RuntimeIdle, QueueSound, triggerFrame, runVars, queueVars
<1>11. CASE BeginShutdown \/ CancelForced \/ Stop \/ Restart
  BY <1>11 DEF BeginShutdown, CancelForced, Stop, Restart, QueueSound,
               triggerFrame, runVars, queueVars
<1>12. CASE \/ ReceiveNotify \/ NoReadyEvent \/ SignalFinished
            \/ DispatcherExit \/ SchedulerExit \/ UNCHANGED vars
  <2>1. UNCHANGED <<stage, pending, finishCh, purged, phase>>
    BY <1>12 DEF ReceiveNotify, NoReadyEvent, SignalFinished, DispatcherExit, SchedulerExit,
                 vars, runVars, queueVars, shutdownVars
  <2> QED BY <2>1 DEF QueueSound
<1> QED
  BY <1>1, <1>2, <1>3, <1>4, <1>5, <1>6, <1>7, <1>8, <1>9, <1>10, <1>11, <1>12
     DEF Next, Trigger, Executor, Dispatcher, Shutdown, Process

\* In every reachable state the queue is within its capacity, holds no run
\* twice, and is empty once shutdown has left its drain loop.
THEOREM QueueIsSound == Spec => []QueueSound
<1>1. Init => QueueSound
  <2>1. ToSet(<<>>) = {} /\ IsInjective(<<>>) /\ Len(<<>>) = 0
    BY DEF ToSet, IsInjective
  <2> QED BY <2>1, ConfigAssumption DEF Init, QueueSound
<1> QED BY <1>1, TypeCorrect, QueueSoundStep, PTL DEF Spec

-----------------------------------------------------------------------------
(* Marks: only the dispatcher changes which runs execute.                  *)

\* nextReadyEvent marks one queued run that nothing blocks.
LEMMA DispatcherStartsRun ==
    ASSUME TypeOK, QueueSound, NextReadyEvent
    PROVE  \E r \in Runs :
              /\ stage[r] = "pending" /\ ~Blocked(r)
              /\ stage' = [stage EXCEPT ![r] = "starting"]
              /\ Marked' = Marked \cup {r} /\ r \notin Marked
              /\ routeRunning' = routeRunning \cup {RouteOf[r]}
              /\ workspaceRunning' = [workspaceRunning EXCEPT ![WorkspaceOf[r]] = @ + 1]
<1>1. PICK i \in DOMAIN pending :
          /\ FirstReady(i)
          /\ routeRunning' = routeRunning \cup {RouteOf[pending[i]]}
          /\ workspaceRunning' = [workspaceRunning EXCEPT ![WorkspaceOf[pending[i]]] = @ + 1]
          /\ stage' = [stage EXCEPT ![pending[i]] = "starting"]
  BY DEF NextReadyEvent
<1> DEFINE r == pending[i]
<1>2. r \in Runs /\ stage[r] = "pending"
  BY <1>1 DEF QueueSound, ToSet
<1>3. ~Blocked(r)
  BY <1>1 DEF FirstReady
<1> HIDE DEF r
<1>4. Marked' = Marked \cup {r} /\ r \notin Marked
  <2>1. stage' = [stage EXCEPT ![r] = "starting"]
    BY <1>1 DEF r
  <2> QED BY <1>2, <2>1 DEF Marked, MarkedStages, TypeOK
<1>5. /\ routeRunning' = routeRunning \cup {RouteOf[r]}
      /\ workspaceRunning' = [workspaceRunning EXCEPT ![WorkspaceOf[r]] = @ + 1]
      /\ stage' = [stage EXCEPT ![r] = "starting"]
  BY <1>1 DEF r
<1> QED BY <1>2, <1>3, <1>4, <1>5

\* handleFinished unmarks one executing run.
LEMMA DispatcherClearsRun ==
    ASSUME TypeOK, QueueSound, ReceiveFinished
    PROVE  \E r \in Marked :
              /\ stage[r] = "sent"
              /\ stage' = [stage EXCEPT ![r] = "clearing"]
              /\ Marked' = Marked \ {r}
              /\ routeRunning' = routeRunning \ {RouteOf[r]}
              /\ workspaceRunning' =
                   [workspaceRunning EXCEPT ![WorkspaceOf[r]] = IF @ > 0 THEN @ - 1 ELSE @]
<1> DEFINE r == Head(finishCh)
<1>1. /\ routeRunning' = routeRunning \ {RouteOf[r]}
      /\ workspaceRunning' =
           [workspaceRunning EXCEPT ![WorkspaceOf[r]] = IF @ > 0 THEN @ - 1 ELSE @]
      /\ stage' = [stage EXCEPT ![r] = "clearing"]
  BY DEF ReceiveFinished
<1>2. r \in ToSet(finishCh)
  BY TailNoRepetition DEF ReceiveFinished, QueueSound, TypeOK
<1>3. r \in Runs /\ stage[r] = "sent"
  BY <1>2 DEF QueueSound
<1> HIDE DEF r
<1>4. r \in Marked /\ Marked' = Marked \ {r}
  BY <1>1, <1>3 DEF Marked, MarkedStages, TypeOK
<1> QED BY <1>1, <1>3, <1>4

\* Every other step leaves the marks and the executing runs alone.
LEMMA OtherStepsKeepMarks ==
    ASSUME TypeOK, QueueSound, [Next]_vars,
           ~NextReadyEvent, ~ReceiveFinished, ~ProcessEnds
    PROVE  Marked' = Marked /\ UNCHANGED markVars
<1> USE DEF Marked, MarkedStages, TypeOK
<1>1. ASSUME NEW r \in Runs, Trigger(r) PROVE Marked' = Marked /\ UNCHANGED markVars
  <2>1. PICK to \in {"pending", "refused", "closed"} :
            /\ stage[r] \notin MarkedStages
            /\ stage' = [stage EXCEPT ![r] = to]
            /\ UNCHANGED markVars
    BY <1>1 DEF Trigger, Enqueue, EnqueueCron, AppendRefusedWebhook, AppendRefusedCron,
                Push, TurnAway, Record
  <2> QED BY <2>1
<1>2. ASSUME NEW r \in Runs, Executor(r) PROVE Marked' = Marked /\ UNCHANGED markVars
  <2>1. PICK to \in MarkedStages :
            /\ stage[r] \in MarkedStages
            /\ stage' = [stage EXCEPT ![r] = to]
            /\ UNCHANGED markVars
    BY <1>2 DEF Executor, StartRejected, StartDispatch, DispatchReturns, SendFinished,
                executorFrame
  <2> QED BY <2>1
<1>3. ASSUME NEW r \in Runs, AppendFinished(r) PROVE Marked' = Marked /\ UNCHANGED markVars
  <2>1. stage[r] = "clearing" /\ stage' = [stage EXCEPT ![r] = "closed"] /\ UNCHANGED markVars
    BY <1>3 DEF AppendFinished, Record
  <2> QED BY <2>1
<1>4. CASE Deadline
  BY <1>4 DEF Deadline, triggerFrame
<1>5. CASE RejectPurged
  <2>1. Head(purged) \in ToSet(purged)
    BY <1>5, TailNoRepetition DEF RejectPurged, QueueSound
  <2>2. Head(purged) \in Runs /\ stage[Head(purged)] = "purged"
    BY <2>1 DEF QueueSound
  <2>3. stage' = [stage EXCEPT ![Head(purged)] = "closed"] /\ UNCHANGED markVars
    BY <1>5 DEF RejectPurged, Record
  <2> QED BY <2>2, <2>3
<1>6. CASE \/ ReceiveNotify \/ NoReadyEvent \/ SignalFinished
           \/ DispatcherExit \/ SchedulerExit \/ UNCHANGED vars
           \/ BeginShutdown \/ StopIdle \/ CancelForced \/ Stop \/ Restart
  <2>1. UNCHANGED <<stage, markVars>>
    BY <1>6 DEF ReceiveNotify, NoReadyEvent, SignalFinished, DispatcherExit, SchedulerExit,
                BeginShutdown, StopIdle, CancelForced, Stop, Restart,
                vars, runVars, markVars, triggerFrame
  <2> QED BY <2>1
<1> QED BY <1>1, <1>2, <1>3, <1>4, <1>5, <1>6
        DEF Next, Dispatcher, Shutdown, Process, Exit, Crash

LEMMA ProcessEndClearsMarks ==
    ASSUME TypeOK, ProcessEnds
    PROVE  /\ Marked' = {} /\ routeRunning' = {}
           /\ workspaceRunning' = [w \in Workspaces |-> 0]
BY DEF ProcessEnds, Marked, Volatile, AcceptedStages, MarkedStages

LEMMA RouteExclusiveStep ==
    TypeOK /\ QueueSound /\ RouteExclusive /\ [Next]_vars => RouteExclusive'
<1> SUFFICES ASSUME TypeOK, QueueSound, RouteExclusive, [Next]_vars PROVE RouteExclusive'
  OBVIOUS
<1>1. CASE NextReadyEvent
  <2>1. PICK r \in Runs :
            /\ ~Blocked(r)
            /\ Marked' = Marked \cup {r}
            /\ routeRunning' = routeRunning \cup {RouteOf[r]}
    BY <1>1, DispatcherStartsRun
  <2>2. \A s \in Marked : RouteOf[s] # RouteOf[r]
    BY <2>1 DEF Blocked, RouteExclusive
  <2> QED BY <2>1, <2>2 DEF RouteExclusive
<1>2. CASE ReceiveFinished
  <2>1. PICK r \in Marked :
            Marked' = Marked \ {r} /\ routeRunning' = routeRunning \ {RouteOf[r]}
    BY <1>2, DispatcherClearsRun
  <2> QED BY <2>1 DEF RouteExclusive
<1>3. CASE ProcessEnds
  BY <1>3, ProcessEndClearsMarks DEF RouteExclusive
<1>4. CASE ~NextReadyEvent /\ ~ReceiveFinished /\ ~ProcessEnds
  BY <1>4, OtherStepsKeepMarks DEF RouteExclusive, markVars
<1> QED BY <1>1, <1>2, <1>3, <1>4

\* Two runs of one route never execute at the same time, and the set of
\* marked routes is exact, for any number of routes, runs and workspaces.
THEOREM RoutesExcludeEachOther == Spec => []RouteExclusive
<1>1. Init => RouteExclusive
  BY DEF Init, RouteExclusive, Marked, MarkedStages
<1> QED BY <1>1, TypeCorrect, QueueIsSound, RouteExclusiveStep, PTL DEF Spec

-----------------------------------------------------------------------------
(* Workspace slots.                                                        *)

LEMMA InWorkspaceFinite == \A w : IsFiniteSet(InWorkspace(w))
BY RunsFinite, FS_Subset DEF InWorkspace, Marked

LEMMA WorkspaceCapStep ==
    TypeOK /\ QueueSound /\ WorkspaceCapHolds /\ [Next]_vars => WorkspaceCapHolds'
<1> SUFFICES ASSUME TypeOK, QueueSound, WorkspaceCapHolds, [Next]_vars,
                    NEW w \in Workspaces
             PROVE  /\ workspaceRunning'[w] = Cardinality(InWorkspace(w)')
                    /\ workspaceRunning'[w] <= PerWorkspaceConcurrency
  BY DEF WorkspaceCapHolds
<1>1. /\ workspaceRunning[w] = Cardinality(InWorkspace(w))
      /\ workspaceRunning[w] <= PerWorkspaceConcurrency
      /\ workspaceRunning[w] \in Nat /\ IsFiniteSet(InWorkspace(w))
  BY InWorkspaceFinite DEF WorkspaceCapHolds, TypeOK
<1>2. CASE NextReadyEvent
  <2>1. PICK r \in Runs :
            /\ ~Blocked(r)
            /\ Marked' = Marked \cup {r} /\ r \notin Marked
            /\ workspaceRunning' = [workspaceRunning EXCEPT ![WorkspaceOf[r]] = @ + 1]
    BY <1>2, DispatcherStartsRun
  <2>2. CASE WorkspaceOf[r] = w
    <3>1. InWorkspace(w)' = InWorkspace(w) \cup {r} /\ r \notin InWorkspace(w)
      BY <2>1, <2>2 DEF InWorkspace
    <3>2. Cardinality(InWorkspace(w)') = Cardinality(InWorkspace(w)) + 1
      BY <1>1, <3>1, FS_AddElement
    <3>3. workspaceRunning'[w] = workspaceRunning[w] + 1
      BY <2>1, <2>2 DEF TypeOK
    <3>4. workspaceRunning[w] < PerWorkspaceConcurrency
      BY <1>1, <2>1, <2>2, ConfigAssumption DEF Blocked
    <3> QED BY <1>1, <3>2, <3>3, <3>4, ConfigAssumption
  <2>3. CASE WorkspaceOf[r] # w
    <3>1. InWorkspace(w)' = InWorkspace(w)
      BY <2>1, <2>3 DEF InWorkspace
    <3>2. workspaceRunning'[w] = workspaceRunning[w]
      BY <2>1, <2>3 DEF TypeOK
    <3> QED BY <1>1, <3>1, <3>2
  <2> QED BY <2>2, <2>3
<1>3. CASE ReceiveFinished
  <2>1. PICK r \in Marked :
            /\ Marked' = Marked \ {r}
            /\ workspaceRunning' =
                 [workspaceRunning EXCEPT ![WorkspaceOf[r]] = IF @ > 0 THEN @ - 1 ELSE @]
    BY <1>3, DispatcherClearsRun
  <2>2. CASE WorkspaceOf[r] = w
    <3>1. InWorkspace(w)' = InWorkspace(w) \ {r} /\ r \in InWorkspace(w)
      BY <2>1, <2>2 DEF InWorkspace
    <3>2. Cardinality(InWorkspace(w)') = Cardinality(InWorkspace(w)) - 1
      BY <1>1, <3>1, FS_RemoveElement
    <3>3. Cardinality(InWorkspace(w)') \in Nat
      BY <1>1, <3>1, FS_RemoveElement, FS_CardinalityType
    <3>4. workspaceRunning'[w] = IF workspaceRunning[w] > 0 THEN workspaceRunning[w] - 1
                                                            ELSE workspaceRunning[w]
      BY <2>1, <2>2 DEF TypeOK
    <3> QED BY <1>1, <3>2, <3>3, <3>4, ConfigAssumption
  <2>3. CASE WorkspaceOf[r] # w
    <3>1. InWorkspace(w)' = InWorkspace(w)
      BY <2>1, <2>3 DEF InWorkspace
    <3>2. workspaceRunning'[w] = workspaceRunning[w]
      BY <2>1, <2>3 DEF TypeOK
    <3> QED BY <1>1, <3>1, <3>2
  <2> QED BY <2>2, <2>3
<1>4. CASE ProcessEnds
  <2>1. InWorkspace(w)' = {} /\ workspaceRunning'[w] = 0
    BY <1>4, ProcessEndClearsMarks DEF InWorkspace
  <2> QED BY <2>1, FS_EmptySet, ConfigAssumption
<1>5. CASE ~NextReadyEvent /\ ~ReceiveFinished /\ ~ProcessEnds
  <2>1. Marked' = Marked /\ UNCHANGED markVars
    BY <1>5, OtherStepsKeepMarks
  <2> QED BY <1>1, <2>1 DEF InWorkspace, markVars
<1> QED BY <1>2, <1>3, <1>4, <1>5

\* The concurrency cap of every workspace holds, and its counter counts.
THEOREM WorkspaceCapIsKept == Spec => []WorkspaceCapHolds
<1>1. Init => WorkspaceCapHolds
  <2> SUFFICES ASSUME Init, NEW w \in Workspaces
               PROVE  /\ workspaceRunning[w] = Cardinality(InWorkspace(w))
                      /\ workspaceRunning[w] <= PerWorkspaceConcurrency
    BY DEF WorkspaceCapHolds
  <2>1. InWorkspace(w) = {} /\ workspaceRunning[w] = 0
    BY DEF Init, InWorkspace, Marked, MarkedStages
  <2> QED BY <2>1, FS_EmptySet, ConfigAssumption
<1> QED BY <1>1, TypeCorrect, QueueIsSound, WorkspaceCapStep, PTL DEF Spec

-----------------------------------------------------------------------------
(* Overlap policies.                                                       *)

\* Only a trigger queues a run, and a cron firing only when its policy sees
\* neither a queued nor, for single_flight, a running run of its route.
LEMMA OnlyTriggersQueue ==
    ASSUME TypeOK, QueueSound, [Next]_vars,
           NEW r \in Runs, stage'[r] = "pending", stage[r] # "pending"
    PROVE  /\ stage' = [stage EXCEPT ![r] = "pending"]
           /\ IsCron(r) => ~Overlaps(r)
           /\ notified' = TRUE
<1>1. ASSUME NEW s \in Runs, Enqueue(s) \/ EnqueueCron(s)
      PROVE  /\ stage' = [stage EXCEPT ![r] = "pending"]
             /\ IsCron(r) => ~Overlaps(r)
             /\ notified' = TRUE
  <2>1. CASE Push(s) /\ (IsCron(s) => ~Overlaps(s))
    <3>1. s = r
      BY <2>1 DEF Push, TypeOK
    <3> QED BY <2>1, <3>1 DEF Push
  <2>2. CASE TurnAway(s, "rejected") \/ TurnAway(s, "skipped")
    BY <2>2 DEF TurnAway, TypeOK
  <2> QED BY <1>1, <2>1, <2>2 DEF Enqueue, EnqueueCron
<1>2. ASSUME NEW s \in Runs,
             \/ AppendRefusedWebhook(s) \/ AppendRefusedCron(s) \/ AppendFinished(s)
             \/ Executor(s)
      PROVE  FALSE
  BY <1>2 DEF AppendRefusedWebhook, AppendRefusedCron, AppendFinished, Record, Executor,
              StartRejected, StartDispatch, DispatchReturns, SendFinished, TypeOK
<1>3. CASE NextReadyEvent
  BY <1>3, DispatcherStartsRun DEF TypeOK
<1>4. CASE ReceiveFinished
  BY <1>4, DispatcherClearsRun DEF TypeOK
<1>5. CASE Deadline \/ RejectPurged \/ Exit \/ Crash
  BY <1>5 DEF Deadline, RejectPurged, Record, Exit, Crash, ProcessEnds, TypeOK
<1>6. CASE \/ ReceiveNotify \/ NoReadyEvent \/ SignalFinished
           \/ DispatcherExit \/ SchedulerExit \/ UNCHANGED vars
           \/ BeginShutdown \/ StopIdle \/ CancelForced \/ Stop \/ Restart
  BY <1>6 DEF ReceiveNotify, NoReadyEvent, SignalFinished, DispatcherExit, SchedulerExit,
              BeginShutdown, StopIdle, CancelForced, Stop, Restart, vars, runVars
<1> QED BY <1>1, <1>2, <1>3, <1>4, <1>5, <1>6
        DEF Next, Trigger, Dispatcher, Shutdown, Process

\* Only a queued run is marked.
LEMMA OnlyQueuedRunsStart ==
    ASSUME TypeOK, QueueSound, [Next]_vars, NEW s \in Marked', s \notin Marked
    PROVE  stage[s] = "pending" /\ stage'[s] # "pending"
<1>1. CASE NextReadyEvent
  BY <1>1, DispatcherStartsRun DEF TypeOK, Marked, MarkedStages
<1>2. CASE ReceiveFinished
  BY <1>2, DispatcherClearsRun
<1>3. CASE ProcessEnds
  BY <1>3, ProcessEndClearsMarks
<1>4. CASE ~NextReadyEvent /\ ~ReceiveFinished /\ ~ProcessEnds
  BY <1>4, OtherStepsKeepMarks
<1> QED BY <1>1, <1>2, <1>3, <1>4

LEMMA CronOverlapStep ==
    /\ TypeOK /\ QueueSound /\ RouteExclusive /\ CronOverlap /\ [Next]_vars
    => CronOverlap'
<1> SUFFICES ASSUME TypeOK, QueueSound, RouteExclusive, CronOverlap, [Next]_vars,
                    NEW r \in Runs, NEW s \in Runs,
                    r # s, IsCron(r), RouteOf[r] = RouteOf[s], stage'[r] = "pending"
             PROVE  /\ stage'[s] # "pending"
                    /\ Overlap[r] = "single_flight" => s \notin Marked'
  BY DEF CronOverlap, IsCron
<1>1. IsCron(s)
  BY RouteHasOneKind DEF IsCron
<1>2. CASE stage[r] = "pending"
  <2>1. stage[s] # "pending" /\ (Overlap[r] = "single_flight" => s \notin Marked)
    BY <1>2 DEF CronOverlap
  <2>2. stage'[s] # "pending"
    <3> SUFFICES ASSUME stage'[s] = "pending" PROVE FALSE
      OBVIOUS
    <3>1. ~Overlaps(s)
      BY <1>1, <2>1, OnlyTriggersQueue
    <3>2. PICK i \in DOMAIN pending : pending[i] = r
      BY <1>2 DEF QueueSound, ToSet
    <3> QED BY <3>1, <3>2 DEF Overlaps, Backlog
  <2>3. Overlap[r] = "single_flight" => s \notin Marked'
    BY <2>1, OnlyQueuedRunsStart
  <2> QED BY <2>2, <2>3
<1>3. CASE stage[r] # "pending"
  <2>1. ~Overlaps(r) /\ stage' = [stage EXCEPT ![r] = "pending"]
    BY <1>3, OnlyTriggersQueue
  <2>2. stage[s] # "pending"
    <3> SUFFICES ASSUME stage[s] = "pending" PROVE FALSE
      OBVIOUS
    <3>1. PICK i \in DOMAIN pending : pending[i] = s
      BY DEF QueueSound, ToSet
    <3> QED BY <2>1, <3>1 DEF Overlaps, Backlog
  <2>3. Overlap[r] = "single_flight" => s \notin Marked
    BY <2>1 DEF Overlaps, RouteExclusive
  <2> QED BY <2>1, <2>2, <2>3 DEF Marked, TypeOK
<1> QED BY <1>2, <1>3

\* The overlap policies of cron routes hold, however the scheduler, the
\* dispatcher and the executors interleave.
THEOREM OverlapPolicyIsKept == Spec => []CronOverlap
<1>1. Init => CronOverlap
  BY DEF Init, CronOverlap
<1> QED BY <1>1, TypeCorrect, QueueIsSound, RoutesExcludeEachOther, CronOverlapStep, PTL
        DEF Spec

-----------------------------------------------------------------------------
(* Wake-ups.                                                               *)

LEMMA NoLostWakeupStep ==
    TypeOK /\ QueueSound /\ NoLostWakeup /\ [Next]_vars => NoLostWakeup'
<1> SUFFICES ASSUME TypeOK, QueueSound, NoLostWakeup, [Next]_vars,
                    dispatcher' = "select", ~notified'
             PROVE  NothingReady'
  BY DEF NoLostWakeup
<1>1. CASE NextReadyEvent \/ ReceiveFinished \/ ReceiveNotify \/ SignalFinished
  BY <1>1 DEF NextReadyEvent, ReceiveFinished, ReceiveNotify, SignalFinished
<1>2. CASE ProcessEnds \/ Deadline
  BY <1>2 DEF ProcessEnds, Deadline, NothingReady
<1>3. CASE NoReadyEvent
  BY <1>3 DEF NoReadyEvent, NothingReady, Blocked, queueVars, markVars
<1>4. CASE /\ ~NextReadyEvent /\ ~ReceiveFinished /\ ~ProcessEnds
           /\ ~ReceiveNotify /\ ~SignalFinished /\ ~Deadline /\ ~NoReadyEvent
  <2>1. UNCHANGED markVars
    BY <1>4, OtherStepsKeepMarks
  <2>2. UNCHANGED <<pending, notified, dispatcher>>
    <3>1. ASSUME NEW r \in Runs, Trigger(r) \/ Executor(r) \/ AppendFinished(r)
          PROVE  UNCHANGED <<pending, notified, dispatcher>>
      BY <3>1 DEF Trigger, Executor, AppendFinished, Enqueue, EnqueueCron,
                  AppendRefusedWebhook, AppendRefusedCron, Push, TurnAway,
                  StartRejected, StartDispatch, DispatchReturns, SendFinished,
                  executorFrame, queueVars
    <3>2. CASE RejectPurged \/ Restart \/ BeginShutdown \/ StopIdle \/ CancelForced \/ Stop
      BY <3>2 DEF RejectPurged, Restart, BeginShutdown, StopIdle, CancelForced, Stop,
                  triggerFrame, queueVars
    <3>3. CASE DispatcherExit \/ SchedulerExit \/ UNCHANGED vars
      BY <3>3 DEF DispatcherExit, SchedulerExit, vars, queueVars
    <3> QED BY <1>4, <3>1, <3>2, <3>3 DEF Next, Dispatcher, Shutdown, Process, Exit, Crash
  <2> QED BY <2>1, <2>2 DEF NoLostWakeup, NothingReady, Blocked, markVars
<1> QED BY <1>1, <1>2, <1>3, <1>4

\* The dispatcher never sleeps without a token while a queued event could
\* start: the one-place channel and the scan outside the mutex lose nothing.
THEOREM WakeupsAreNotLost == Spec => []NoLostWakeup
<1>1. Init => NoLostWakeup
  BY DEF Init, NoLostWakeup, NothingReady
<1> QED BY <1>1, TypeCorrect, QueueIsSound, NoLostWakeupStep, PTL DEF Spec

-----------------------------------------------------------------------------
(* Records.                                                                *)

\* What RecordedOnce says of one run.
RunRecordedOnce(r) ==
    /\ Len(ledger[r]) <= 1
    /\ stage[r] # "closed" => ledger[r] = <<>>
    /\ (stage[r] = "closed" /\ ~LedgerMayFail) => ledger[r] = <<outcome[r]>>
    /\ stage[r] = "refused" => outcome[r] \in Refusals
    /\ stage[r] \in {"finishing", "sent", "clearing"} => outcome[r] \in Results
    /\ stage[r] = "closed" => outcome[r] \in Refusals \cup Results

LEMMA RecordStep ==
    ASSUME TypeOK, RecordedOnce, NEW r \in Runs, NEW result \in Refusals \cup Results,
           stage[r] # "closed", Record(r, result)
    PROVE  RecordedOnce'
<1>1. /\ stage' = [stage EXCEPT ![r] = "closed"]
      /\ outcome' = [outcome EXCEPT ![r] = result]
      /\ \/ ledger' = [ledger EXCEPT ![r] = Append(@, result)]
         \/ LedgerMayFail /\ ledger' = ledger
  BY DEF Record
<1>2. /\ ledger[r] = <<>> /\ Append(<<>>, result) = <<result>>
      /\ Len(<<result>>) <= 1 /\ Len(<<>>) <= 1
  <2>1. ledger[r] = <<>> /\ Append(<<>>, result) = <<result>>
    BY DEF RecordedOnce
  <2>2. Len(<<>>) = 0 /\ Len(<<result>>) = 1
    OBVIOUS
  <2> QED BY <2>1, <2>2
<1>3. SUFFICES ASSUME NEW x \in Runs PROVE RunRecordedOnce(x)'
  BY DEF RecordedOnce, RunRecordedOnce
<1>4. CASE x = r
  <2>1. stage'[x] = "closed" /\ outcome'[x] = result
    BY <1>1, <1>4 DEF TypeOK
  <2>2. ledger'[x] = <<result>> \/ (LedgerMayFail /\ ledger'[x] = <<>>)
    BY <1>1, <1>2, <1>4 DEF TypeOK
  <2>3. Len(ledger'[x]) <= 1
    BY <1>2, <2>2, Zenon
  <2>4. ~LedgerMayFail => ledger'[x] = <<outcome'[x]>>
    BY <2>1, <2>2
  <2> QED BY <2>1, <2>3, <2>4 DEF RunRecordedOnce
<1>5. CASE x # r
  <2>1. stage'[x] = stage[x] /\ outcome'[x] = outcome[x] /\ ledger'[x] = ledger[x]
    BY <1>1, <1>5 DEF TypeOK
  <2> QED BY <2>1 DEF RecordedOnce, RunRecordedOnce
<1> QED BY <1>4, <1>5

\* A step that records nothing and closes nothing, and gives every run that
\* enters one of the stages of a finished run a final outcome.
LEMMA NoRecordStep ==
    ASSUME TypeOK, RecordedOnce, UNCHANGED ledger,
           NEW r \in Runs, NEW to \in Stages \ {"closed"}, NEW result \in Outcomes,
           stage[r] # "closed",
           to = "refused" => result \in Refusals,
           to \in {"finishing", "sent", "clearing"} => result \in Results,
           stage' = [stage EXCEPT ![r] = to],
           outcome' = [outcome EXCEPT ![r] = result]
    PROVE  RecordedOnce'
BY DEF RecordedOnce, TypeOK

LEMMA RecordedOnceStep ==
    TypeOK /\ QueueSound /\ RecordedOnce /\ [Next]_vars => RecordedOnce'
<1> SUFFICES ASSUME TypeOK, QueueSound, RecordedOnce, [Next]_vars PROVE RecordedOnce'
  OBVIOUS
<1> USE DEF Stages, Outcomes, Refusals, Results
<1>1. ASSUME NEW r \in Runs, Enqueue(r) \/ EnqueueCron(r) PROVE RecordedOnce'
  <2>1. stage[r] = "new" /\ UNCHANGED ledger
    BY <1>1 DEF Enqueue, EnqueueCron
  <2>2. CASE Push(r)
    <3>1. outcome[r] \in Outcomes /\ outcome' = [outcome EXCEPT ![r] = outcome[r]]
      BY <2>2 DEF Push, TypeOK
    <3> QED BY <2>1, <2>2, <3>1, NoRecordStep DEF Push
  <2>3. CASE TurnAway(r, "rejected") \/ TurnAway(r, "skipped")
    BY <2>1, <2>3, NoRecordStep DEF TurnAway
  <2> QED BY <1>1, <2>2, <2>3 DEF Enqueue, EnqueueCron
<1>2. ASSUME NEW r \in Runs,
             AppendRefusedWebhook(r) \/ AppendRefusedCron(r) \/ AppendFinished(r)
      PROVE  RecordedOnce'
  <2>1. stage[r] \in {"refused", "clearing"} /\ Record(r, outcome[r])
    BY <1>2 DEF AppendRefusedWebhook, AppendRefusedCron, AppendFinished
  <2>2. outcome[r] \in Refusals \cup Results
    BY <2>1 DEF RecordedOnce
  <2> QED BY <2>1, <2>2, RecordStep
<1>3. ASSUME NEW r \in Runs, Executor(r) PROVE RecordedOnce'
  <2>1. UNCHANGED ledger
    BY <1>3 DEF Executor, StartRejected, StartDispatch, DispatchReturns, SendFinished,
                executorFrame
  <2>2. CASE StartRejected(r)
    BY <2>1, <2>2, NoRecordStep DEF StartRejected
  <2>3. CASE StartDispatch(r)
    BY <2>1, <2>3, NoRecordStep DEF StartDispatch
  <2>4. CASE DispatchReturns(r)
    <3>1. PICK result \in {"succeeded", "failed"} : outcome' = [outcome EXCEPT ![r] = result]
      BY <2>4 DEF DispatchReturns
    <3> QED BY <2>1, <2>4, <3>1, NoRecordStep DEF DispatchReturns
  <2>5. CASE SendFinished(r)
    <3>1. /\ stage[r] = "finishing" /\ stage' = [stage EXCEPT ![r] = "sent"]
          /\ outcome' = [outcome EXCEPT ![r] = outcome[r]] /\ outcome[r] \in Results
      BY <2>5 DEF SendFinished, RecordedOnce, TypeOK
    <3> QED BY <2>1, <3>1, NoRecordStep
  <2> QED BY <1>3, <2>2, <2>3, <2>4, <2>5 DEF Executor
<1>4. CASE NextReadyEvent
  <2>1. PICK r \in Runs : stage[r] = "pending" /\ stage' = [stage EXCEPT ![r] = "starting"]
    BY <1>4, DispatcherStartsRun
  <2>2. /\ UNCHANGED ledger
        /\ outcome' = [outcome EXCEPT ![r] = outcome[r]] /\ outcome[r] \in Outcomes
    BY <1>4 DEF NextReadyEvent, TypeOK
  <2> QED BY <2>1, <2>2, NoRecordStep
<1>5. CASE ReceiveFinished
  <2>1. PICK r \in Runs : stage[r] = "sent" /\ stage' = [stage EXCEPT ![r] = "clearing"]
    BY <1>5, DispatcherClearsRun DEF Marked
  <2>2. /\ UNCHANGED ledger
        /\ outcome' = [outcome EXCEPT ![r] = outcome[r]] /\ outcome[r] \in Results
    BY <1>5, <2>1 DEF ReceiveFinished, RecordedOnce, TypeOK
  <2> QED BY <2>1, <2>2, NoRecordStep
<1>6. CASE RejectPurged
  <2>1. Head(purged) \in ToSet(purged)
    BY <1>6, TailNoRepetition DEF RejectPurged, QueueSound, TypeOK
  <2>2. Head(purged) \in Runs /\ stage[Head(purged)] = "purged"
    BY <2>1 DEF QueueSound
  <2> QED BY <1>6, <2>2, RecordStep DEF RejectPurged
<1>7. CASE Deadline
  BY <1>7 DEF Deadline, triggerFrame, RecordedOnce, TypeOK
<1>8. CASE Exit \/ Crash
  BY <1>8 DEF Exit, Crash, ProcessEnds, RecordedOnce, TypeOK, Volatile, AcceptedStages,
              MarkedStages
<1>9. CASE \/ ReceiveNotify \/ NoReadyEvent \/ SignalFinished
           \/ DispatcherExit \/ SchedulerExit \/ UNCHANGED vars
           \/ BeginShutdown \/ StopIdle \/ CancelForced \/ Stop \/ Restart
  <2>1. UNCHANGED <<stage, outcome, ledger>>
    BY <1>9 DEF ReceiveNotify, NoReadyEvent, SignalFinished, DispatcherExit, SchedulerExit,
                BeginShutdown, StopIdle, CancelForced, Stop, Restart, vars, runVars, triggerFrame
  <2> QED BY <2>1 DEF RecordedOnce
<1> QED BY <1>1, <1>2, <1>3, <1>4, <1>5, <1>6, <1>7, <1>8, <1>9
        DEF Next, Trigger, Dispatcher, Shutdown, Process

\* No run is recorded twice, or before its life is over, and every closed run
\* has a final outcome; if the ledger can be written it has its record.
THEOREM RunsAreRecordedOnce == Spec => []RecordedOnce
<1>1. Init => RecordedOnce
  BY DEF Init, RecordedOnce
<1> QED BY <1>1, TypeCorrect, QueueIsSound, RecordedOnceStep, PTL DEF Spec

-----------------------------------------------------------------------------
(* Shutdown.                                                               *)

\* What shutdown relies on: the dispatcher holds at most one finished run and
\* only between receiving and appending it, loopWG.Wait has waited for it, and
\* an undisturbed drain ended with no route marked.
ShutdownSound ==
    /\ \A r \in Runs : stage[r] = "clearing" => dispatcher = "append"
    /\ \A r, s \in Runs : stage[r] = "clearing" /\ stage[s] = "clearing" => r = s
    /\ phase = "stopped" => dispatcher = "exited"
    /\ phase = "rejecting" => forced
    /\ phase \in {"cancelled", "stopped"} /\ ~forced => routeRunning = {}

\* A run that neither enters nor leaves the dispatcher's hands.
LEMMA MoveOutsideDispatcher ==
    ASSUME TypeOK, ShutdownSound,
           NEW r \in Runs, NEW to \in Stages \ {"clearing"}, stage[r] # "clearing",
           stage' = [stage EXCEPT ![r] = to],
           UNCHANGED <<dispatcher, phase, forced, routeRunning>>
    PROVE  ShutdownSound'
BY DEF ShutdownSound, TypeOK

LEMMA ShutdownSoundStep ==
    TypeOK /\ QueueSound /\ ShutdownSound /\ [Next]_vars => ShutdownSound'
<1> SUFFICES ASSUME TypeOK, QueueSound, ShutdownSound, [Next]_vars PROVE ShutdownSound'
  OBVIOUS
<1>1. ASSUME NEW r \in Runs, Trigger(r) \/ Executor(r) PROVE ShutdownSound'
  <2>1. UNCHANGED <<dispatcher, phase, forced, routeRunning>>
    BY <1>1 DEF Trigger, Enqueue, EnqueueCron, AppendRefusedWebhook, AppendRefusedCron,
                Executor, StartRejected, StartDispatch, DispatchReturns, SendFinished,
                executorFrame, markVars, shutdownVars
  <2>2. PICK to \in {"pending", "refused", "closed", "dispatching", "finishing", "sent"} :
            stage[r] # "clearing" /\ stage' = [stage EXCEPT ![r] = to]
    BY <1>1 DEF Trigger, Enqueue, EnqueueCron, AppendRefusedWebhook, AppendRefusedCron,
                Push, TurnAway, Record,
                Executor, StartRejected, StartDispatch, DispatchReturns, SendFinished
  <2> QED BY <2>1, <2>2, MoveOutsideDispatcher DEF Stages
<1>2. CASE NextReadyEvent
  <2>1. PICK r \in Runs : stage[r] = "pending" /\ stage' = [stage EXCEPT ![r] = "starting"]
    BY <1>2, DispatcherStartsRun
  <2>2. phase \in {"serving", "draining"}
    <3>1. DOMAIN pending # {}
      BY <1>2 DEF NextReadyEvent
    <3> QED BY <3>1 DEF QueueSound
  <2>3. UNCHANGED <<dispatcher, phase, forced>>
    BY <1>2 DEF NextReadyEvent, shutdownVars
  <2> QED BY <2>1, <2>2, <2>3 DEF ShutdownSound, TypeOK
<1>3. CASE ReceiveFinished
  <2>1. PICK r \in Runs :
            /\ stage[r] = "sent" /\ stage' = [stage EXCEPT ![r] = "clearing"]
            /\ routeRunning' = routeRunning \ {RouteOf[r]}
    BY <1>3, DispatcherClearsRun DEF Marked
  <2>2. /\ dispatcher = "select" /\ dispatcher' = "append"
        /\ phase # "stopped" /\ UNCHANGED <<phase, forced>>
    BY <1>3 DEF ReceiveFinished, Alive, shutdownVars
  <2> QED BY <2>1, <2>2 DEF ShutdownSound, TypeOK
<1>4. ASSUME NEW r \in Runs, AppendFinished(r) PROVE ShutdownSound'
  <2>1. /\ stage[r] = "clearing" /\ stage' = [stage EXCEPT ![r] = "closed"]
        /\ phase # "stopped" /\ UNCHANGED <<phase, forced, routeRunning>>
    BY <1>4 DEF AppendFinished, Record, Alive, markVars, shutdownVars
  <2>2. \A x \in Runs : stage'[x] # "clearing"
    BY <2>1 DEF ShutdownSound, TypeOK
  <2> QED BY <2>1, <2>2 DEF ShutdownSound
<1>5. CASE ReceiveNotify \/ NoReadyEvent \/ SignalFinished \/ DispatcherExit
  <2>1. /\ dispatcher # "append" /\ phase # "stopped"
        /\ UNCHANGED <<stage, phase, forced, routeRunning>>
    BY <1>5 DEF ReceiveNotify, NoReadyEvent, SignalFinished, DispatcherExit, Alive,
                runVars, markVars, shutdownVars
  <2> QED BY <2>1 DEF ShutdownSound
<1>6. CASE RejectPurged
  <2>1. Head(purged) \in ToSet(purged)
    BY <1>6, TailNoRepetition DEF RejectPurged, QueueSound, TypeOK
  <2>2. Head(purged) \in Runs /\ stage[Head(purged)] = "purged"
    BY <2>1 DEF QueueSound
  <2>3. /\ stage' = [stage EXCEPT ![Head(purged)] = "closed"]
        /\ UNCHANGED <<dispatcher, phase, forced, routeRunning>>
    BY <1>6 DEF RejectPurged, Record, markVars
  <2> QED BY <2>2, <2>3, MoveOutsideDispatcher DEF Stages
<1>7. CASE Deadline
  BY <1>7 DEF Deadline, triggerFrame, ShutdownSound, TypeOK
<1>8. CASE BeginShutdown \/ StopIdle \/ CancelForced \/ Stop \/ Restart
  BY <1>8 DEF BeginShutdown, StopIdle, RuntimeIdle, CancelForced, Stop, Restart,
              triggerFrame, markVars, runVars, ShutdownSound
<1>9. CASE Exit \/ Crash
  BY <1>9 DEF Exit, Crash, ProcessEnds, ShutdownSound, Volatile, AcceptedStages, TypeOK
<1>10. CASE SchedulerExit \/ UNCHANGED vars
  BY <1>10 DEF SchedulerExit, vars, runVars, markVars, shutdownVars, ShutdownSound
<1> QED BY <1>1, <1>2, <1>3, <1>4, <1>5, <1>6, <1>7, <1>8, <1>9, <1>10
        DEF Next, Dispatcher, Shutdown, Process

LEMMA ShutdownIsSound == Spec => []ShutdownSound
<1>1. Init => ShutdownSound
  BY DEF Init, ShutdownSound
<1> QED BY <1>1, TypeCorrect, QueueIsSound, ShutdownSoundStep, PTL DEF Spec

\* When shutdown returns, no queued run is unrecorded, and unless the deadline
\* struck no accepted run is.
THEOREM StopAccounts == Spec => []StopAccountsForRuns
<1>1. QueueSound /\ RouteExclusive /\ ShutdownSound => StopAccountsForRuns
  <2> SUFFICES ASSUME QueueSound, RouteExclusive, ShutdownSound, phase = "stopped",
                      NEW r \in Runs
               PROVE  /\ stage[r] \notin {"pending", "purged", "clearing"}
                      /\ stage[r] \in MarkedStages => forced
    BY DEF StopAccountsForRuns
  <2>1. stage[r] \notin {"pending", "purged"}
    <3>1. ToSet(<<>>) = {}
      BY DEF ToSet
    <3> QED BY <3>1 DEF QueueSound
  <2>2. stage[r] # "clearing"
    BY DEF ShutdownSound
  <2>3. stage[r] \in MarkedStages => forced
    BY DEF RouteExclusive, ShutdownSound, Marked
  <2> QED BY <2>1, <2>2, <2>3
<1> QED BY <1>1, QueueIsSound, RoutesExcludeEachOther, ShutdownIsSound, PTL

-----------------------------------------------------------------------------
(* The ledger.                                                             *)

LEMMA PrefixOfAppend ==
    ASSUME NEW S, NEW s \in Seq(S), NEW e \in S
    PROVE  IsPrefix(s, s) /\ IsPrefix(s, Append(s, e))
<1>1. Append(s, e) \in Seq(S) /\ Len(Append(s, e)) = Len(s) + 1
  BY AppendProperties
<1>2. Len(s) \in Nat /\ SubSeq(s, 1, Len(s)) = s
  BY LenProperties, SubSeqFull
<1>3. SubSeq(Append(s, e), 1, Len(s)) = s
  <2>1. SubSeq(Append(s, e), 1, Len(s)) = Restrict(Append(s, e), 1 .. Len(s))
    <3>1. Len(s) \in 0 .. Len(Append(s, e))
      BY <1>1, <1>2
    <3> QED BY <1>1, <3>1, SubSeqRestrict
  <2>2. SubSeq(s, 1, Len(s)) = Restrict(s, 1 .. Len(s))
    BY <1>2, SubSeqRestrict
  <2>3. \A i \in 1 .. Len(s) : Append(s, e)[i] = s[i]
    BY AppendProperties
  <2> QED BY <1>2, <2>1, <2>2, <2>3 DEF Restrict
<1> QED BY <1>1, <1>2, <1>3 DEF IsPrefix

Grows == \A r \in Runs :
    /\ IsPrefix(ledger[r], ledger'[r])
    /\ stage[r] \in {"closed", "lost"} => stage'[r] = stage[r]

LEMMA LedgerStep == TypeOK /\ QueueSound /\ RouteExclusive /\ [Next]_vars => Grows
<1> SUFFICES ASSUME TypeOK, QueueSound, RouteExclusive, [Next]_vars PROVE Grows
  OBVIOUS
\* One run goes on from a stage that is not its last.
<1>1. ASSUME NEW r \in Runs, stage[r] \notin {"closed", "lost"}, NEW to,
             stage' = [stage EXCEPT ![r] = to],
             UNCHANGED ledger \/ \E result \in Outcomes : ledger' = [ledger EXCEPT ![r] = Append(@, result)]
      PROVE  Grows
  <2> SUFFICES ASSUME NEW x \in Runs
               PROVE  /\ IsPrefix(ledger[x], ledger'[x])
                      /\ stage[x] \in {"closed", "lost"} => stage'[x] = stage[x]
    BY DEF Grows
  <2>1. ledger[x] \in Seq(Outcomes) /\ ledger \in [Runs -> Seq(Outcomes)] /\ "queued" \in Outcomes
    BY DEF TypeOK, Outcomes
  <2>2. ledger'[x] = ledger[x] \/ \E result \in Outcomes : ledger'[x] = Append(ledger[x], result)
    BY <1>1, <2>1
  <2>3. IsPrefix(ledger[x], ledger'[x])
    BY <2>1, <2>2, PrefixOfAppend
  <2> QED BY <1>1, <2>3 DEF TypeOK
\* No record is written, and what is over stays so.
<1>2. ASSUME UNCHANGED ledger,
             \A r \in Runs : stage[r] \in {"closed", "lost"} => stage'[r] = stage[r]
      PROVE  Grows
  <2>1. \A r \in Runs : ledger[r] \in Seq(Outcomes)
    BY DEF TypeOK
  <2>2. \A r \in Runs : IsPrefix(ledger[r], ledger[r])
    BY <2>1, PrefixOfAppend, LenProperties, SubSeqFull DEF IsPrefix
  <2> QED BY <1>2, <2>2 DEF Grows
<1>3. ASSUME NEW r \in Runs, Trigger(r) \/ AppendFinished(r) PROVE Grows
  <2>1. stage[r] \in {"new", "refused", "clearing"} /\ outcome[r] \in Outcomes
    BY <1>3 DEF Trigger, Enqueue, EnqueueCron, AppendRefusedWebhook, AppendRefusedCron,
                AppendFinished, TypeOK
  <2>2. \E to \in Stages : stage' = [stage EXCEPT ![r] = to]
    BY <1>3 DEF Trigger, Enqueue, EnqueueCron, AppendRefusedWebhook, AppendRefusedCron,
                AppendFinished, Record, Push, TurnAway, Stages
  <2>3. UNCHANGED ledger \/ ledger' = [ledger EXCEPT ![r] = Append(@, outcome[r])]
    BY <1>3 DEF Trigger, Enqueue, EnqueueCron, AppendRefusedWebhook, AppendRefusedCron,
                AppendFinished, Record
  <2> QED BY <1>1, <2>1, <2>2, <2>3
<1>4. ASSUME NEW r \in Runs, Executor(r) PROVE Grows
  <2>1. stage[r] \in {"starting", "dispatching", "finishing"} /\ UNCHANGED ledger
    BY <1>4 DEF Executor, StartRejected, StartDispatch, DispatchReturns, SendFinished, executorFrame
  <2>2. \E to \in Stages : stage' = [stage EXCEPT ![r] = to]
    BY <1>4 DEF Executor, StartRejected, StartDispatch, DispatchReturns, SendFinished, Stages
  <2> QED BY <1>1, <2>1, <2>2
<1>5. CASE NextReadyEvent
  <2>1. PICK r \in Runs : stage[r] = "pending" /\ stage' = [stage EXCEPT ![r] = "starting"]
    BY <1>5, DispatcherStartsRun
  <2>2. UNCHANGED ledger
    BY <1>5 DEF NextReadyEvent
  <2> QED BY <1>1, <2>1, <2>2
<1>6. CASE ReceiveFinished
  <2>1. PICK r \in Runs : stage[r] = "sent" /\ stage' = [stage EXCEPT ![r] = "clearing"]
    BY <1>6, DispatcherClearsRun DEF Marked
  <2>2. UNCHANGED ledger
    BY <1>6 DEF ReceiveFinished
  <2> QED BY <1>1, <2>1, <2>2
<1>7. CASE RejectPurged
  <2>1. Head(purged) \in ToSet(purged)
    BY <1>7, TailNoRepetition DEF RejectPurged, QueueSound, TypeOK
  <2>2. Head(purged) \in Runs /\ stage[Head(purged)] = "purged"
    BY <2>1 DEF QueueSound
  <2>3. /\ stage' = [stage EXCEPT ![Head(purged)] = "closed"] /\ "rejected" \in Outcomes
        /\ UNCHANGED ledger \/ ledger' = [ledger EXCEPT ![Head(purged)] = Append(@, "rejected")]
    BY <1>7 DEF RejectPurged, Record, Outcomes
  <2> QED BY <1>1, <2>2, <2>3
<1>8. CASE Exit \/ Crash
  BY <1>2, <1>8 DEF Exit, Crash, ProcessEnds, Volatile, AcceptedStages, MarkedStages
<1>9. CASE Deadline
  BY <1>2, <1>9 DEF Deadline, triggerFrame
<1>10. CASE \/ ReceiveNotify \/ NoReadyEvent \/ SignalFinished
            \/ DispatcherExit \/ SchedulerExit \/ UNCHANGED vars
            \/ BeginShutdown \/ StopIdle \/ CancelForced \/ Stop \/ Restart
  <2>1. UNCHANGED <<stage, ledger>>
    BY <1>10 DEF ReceiveNotify, NoReadyEvent, SignalFinished, DispatcherExit, SchedulerExit,
                 BeginShutdown, StopIdle, CancelForced, Stop, Restart, vars, runVars, triggerFrame
  <2> QED BY <1>2, <2>1
<1> QED BY <1>3, <1>4, <1>5, <1>6, <1>7, <1>8, <1>9, <1>10
        DEF Next, Dispatcher, Shutdown, Process

\* No step, crashes and restarts included, changes or removes a record, and a
\* run that is over never starts again.
THEOREM LedgerGrows == Spec => LedgerIsAppendOnly
<1>1. TypeOK /\ QueueSound /\ RouteExclusive /\ [Next]_vars =>
        [\A r \in Runs : /\ IsPrefix(ledger[r], ledger'[r])
                         /\ stage[r] \in {"closed", "lost"} => stage'[r] = stage[r]]_vars
  BY LedgerStep DEF Grows
<1> QED BY <1>1, TypeCorrect, QueueIsSound, RoutesExcludeEachOther, PTL
        DEF Spec, LedgerIsAppendOnly

-----------------------------------------------------------------------------
(* The refinement: RunQueue implements RunLifecycle.                        *)

\* The status of each stage, one equation per status.
LEMMA StatusOfStage ==
    ASSUME NEW s \in Stages
    PROVE  /\ statusOf(s) = "new" <=> s = "new"
           /\ statusOf(s) = "turned_away" <=> s = "refused"
           /\ statusOf(s) = "queued" <=> s \in {"pending", "purged"}
           /\ statusOf(s) = "running" <=> s \in MarkedStages
           /\ statusOf(s) = "ended" <=> s = "clearing"
           /\ statusOf(s) = "over" <=> s = "closed"
           /\ statusOf(s) = "lost" <=> s = "lost"
BY DEF statusOf, Stages, MarkedStages

LEMMA StatusValues ==
    /\ statusOf("new") = "new" /\ statusOf("refused") = "turned_away"
    /\ statusOf("pending") = "queued" /\ statusOf("purged") = "queued"
    /\ \A s \in MarkedStages : statusOf(s) = "running"
    /\ statusOf("clearing") = "ended" /\ statusOf("closed") = "over"
BY DEF statusOf, MarkedStages

status == [r \in Runs |-> statusOf(stage[r])]

\* A step of one run's stage is the same step of its status.
LEMMA StatusMove ==
    ASSUME TypeOK, NEW r \in Runs, NEW to \in Stages,
           stage' = [stage EXCEPT ![r] = to]
    PROVE  status' = [status EXCEPT ![r] = statusOf(to)]
BY DEF status, TypeOK

\* Distinct entries bound the number of queued runs by the queue's length.
LEMMA QueuedBound ==
    ASSUME TypeOK, QueueSound
    PROVE  /\ IsFiniteSet(ToSet(pending))
           /\ Cardinality(ToSet(pending)) <= Len(pending)
<1>1. Len(pending) \in Nat /\ DOMAIN pending = 1 .. Len(pending)
  BY LenProperties DEF TypeOK
<1>2. pending \in Surjection(1 .. Len(pending), ToSet(pending))
  BY <1>1, LenProperties DEF Surjection, ToSet, TypeOK
<1>3. /\ IsFiniteSet(1 .. Len(pending))
      /\ Cardinality(1 .. Len(pending)) = Len(pending)
  <2> DEFINE n == Len(pending)
  <2>1. n \in Nat
    BY <1>1
  <2> HIDE DEF n
  <2>2. IsFiniteSet(1 .. n) /\ Cardinality(1 .. n) = n
    BY <2>1, FS_Interval
  <2> QED BY <2>2 DEF n
<1> QED BY <1>2, <1>3, FS_Surjection

-----------------------------------------------------------------------------
(* Each kind of step of the queue, as a step of the life cycle.            *)

LEMMA SameCardinality == \A S : Lifecycle!Cardinality(S) = Cardinality(S)
BY DEF Lifecycle!Cardinality, Cardinality

Invariants ==
    /\ TypeOK /\ QueueSound /\ RouteExclusive /\ WorkspaceCapHolds
    /\ RecordedOnce /\ ShutdownSound

\* The runs that are queued and that execute, seen from the life cycle.
LEMMA StatusSets ==
    ASSUME TypeOK
    PROVE  /\ Lifecycle!In("queued") = {r \in Runs : stage[r] \in {"pending", "purged"}}
           /\ Lifecycle!In("running") = Marked
<1>1. \A r \in Runs : status[r] = statusOf(stage[r]) /\ stage[r] \in Stages
  BY DEF status, TypeOK
<1> QED BY <1>1, StatusOfStage DEF Lifecycle!In, Marked, status

\* enqueue and enqueueCronWithPolicy accept.
LEMMA PushIsAccept ==
    ASSUME Invariants, NEW r \in Runs, stage[r] = "new",
           Accepting, Len(pending) < GlobalQueueCapacity,
           IsCron(r) => ~Overlaps(r),
           Push(r), UNCHANGED ledger
    PROVE  Lifecycle!Accept(r)
<1> USE DEF Invariants
<1>1. Lifecycle!In("queued") = ToSet(pending)
  <2>1. \A x \in Runs : stage[x] # "purged"
    <3>1. ToSet(<<>>) = {}
      BY DEF ToSet
    <3> QED BY <3>1 DEF QueueSound, Accepting
  <2> QED BY <2>1, StatusSets DEF QueueSound
<1>2. Lifecycle!Cardinality(Lifecycle!In("queued")) < GlobalQueueCapacity
  <2>1. Cardinality(ToSet(pending)) < GlobalQueueCapacity
    BY QueuedBound, LenProperties, ConfigAssumption, FS_CardinalityType DEF TypeOK
  <2> QED BY <1>1, <2>1, SameCardinality
<1>3. ASSUME Overlap[r] # "none", NEW x \in Runs, RouteOf[x] = RouteOf[r]
      PROVE  /\ x \notin ToSet(pending)
             /\ Overlap[r] = "single_flight" => x \notin Marked
  BY <1>3 DEF IsCron, Overlaps, Backlog, ToSet, RouteExclusive
<1>4. Overlap[r] # "none" => Lifecycle!RouteMates(r) \cap Lifecycle!In("queued") = {}
  BY <1>1, <1>3 DEF Lifecycle!RouteMates
<1>5. Overlap[r] = "single_flight" => Lifecycle!RouteMates(r) \cap Lifecycle!In("running") = {}
  BY <1>3, StatusSets DEF Lifecycle!RouteMates
<1>6. Lifecycle!Move(r, "new", "queued")
  <2>1. status[r] = "new"
    BY StatusValues DEF status
  <2>2. "pending" \in Stages /\ stage' = [stage EXCEPT ![r] = "pending"]
    BY DEF Push, Stages
  <2>3. status' = [status EXCEPT ![r] = "queued"]
    BY <2>2, StatusMove, StatusValues
  <2> QED BY <2>1, <2>3 DEF Lifecycle!Move, status
<1> QED BY <1>2, <1>4, <1>5, <1>6 DEF Lifecycle!Accept

LEMMA TurnAwayRefines ==
    ASSUME TypeOK, NEW r \in Runs, stage[r] = "new", NEW result, TurnAway(r, result),
           UNCHANGED ledger
    PROVE  Lifecycle!TurnAway(r)
<1>1. status[r] = "new"
  BY StatusValues DEF status
<1>2. "refused" \in Stages /\ stage' = [stage EXCEPT ![r] = "refused"]
  BY DEF TurnAway, Stages
<1>3. status' = [status EXCEPT ![r] = "turned_away"]
  BY <1>2, StatusMove, StatusValues
<1> QED BY <1>1, <1>3 DEF Lifecycle!TurnAway, Lifecycle!Move, status

\* The four places where a record is written.
LEMMA RecordIsClose ==
    ASSUME TypeOK, NEW r \in Runs, NEW from \in {"turned_away", "queued", "ended"},
           status[r] = from, NEW result \in Lifecycle!ResultsOf(from), Record(r, result)
    PROVE  Lifecycle!Close(r)
<1>1. "closed" \in Stages /\ stage' = [stage EXCEPT ![r] = "closed"]
  BY DEF Record, Stages
<1>2. status' = [status EXCEPT ![r] = "over"]
  BY <1>1, StatusMove, StatusValues
<1>3. Lifecycle!Move(r, from, "over")
  BY <1>2 DEF Lifecycle!Move, status
<1>4. ledger' = [ledger EXCEPT ![r] = Append(@, result)] \/ UNCHANGED ledger
  BY DEF Record
<1> QED BY <1>3, <1>4 DEF Lifecycle!Close

LEMMA StartRefines ==
    ASSUME Invariants, NextReadyEvent
    PROVE  \E r \in Runs : Lifecycle!Start(r)
<1> USE DEF Invariants
<1>1. PICK r \in Runs :
          /\ stage[r] = "pending" /\ ~Blocked(r)
          /\ stage' = [stage EXCEPT ![r] = "starting"]
  BY DispatcherStartsRun
<1>2. Lifecycle!RouteMates(r) \cap Lifecycle!In("running") = {}
  BY <1>1, StatusSets DEF Blocked, RouteExclusive, Lifecycle!RouteMates
<1>3. Lifecycle!Cardinality({s \in Lifecycle!In("running") : WorkspaceOf[s] = WorkspaceOf[r]})
        < PerWorkspaceConcurrency
  <2>1. {s \in Lifecycle!In("running") : WorkspaceOf[s] = WorkspaceOf[r]}
          = InWorkspace(WorkspaceOf[r])
    BY StatusSets DEF InWorkspace
  <2>2. WorkspaceOf[r] \in Workspaces
    BY SnapshotTypes
  <2>3. workspaceRunning[WorkspaceOf[r]] < PerWorkspaceConcurrency
    BY <1>1, <2>2, ConfigAssumption DEF Blocked, TypeOK
  <2>4. Cardinality(InWorkspace(WorkspaceOf[r])) < PerWorkspaceConcurrency
    BY <2>2, <2>3 DEF WorkspaceCapHolds
  <2> QED BY <2>1, <2>4, SameCardinality
<1>4. Lifecycle!Move(r, "queued", "running")
  <2>1. status[r] = "queued"
    BY <1>1, StatusValues DEF status
  <2>2. "starting" \in Stages /\ "starting" \in MarkedStages
    BY DEF Stages, MarkedStages
  <2>3. status' = [status EXCEPT ![r] = "running"]
    BY <1>1, <2>2, StatusMove, StatusValues
  <2> QED BY <2>1, <2>3 DEF Lifecycle!Move, status
<1>5. UNCHANGED ledger
  BY DEF NextReadyEvent
<1> QED BY <1>2, <1>3, <1>4, <1>5 DEF Lifecycle!Start

LEMMA EndRefines ==
    ASSUME Invariants, ReceiveFinished
    PROVE  \E r \in Runs : Lifecycle!End(r)
<1> USE DEF Invariants
<1>1. PICK r \in Runs : stage[r] = "sent" /\ stage' = [stage EXCEPT ![r] = "clearing"]
  BY DispatcherClearsRun DEF Marked
<1>2. status[r] = "running"
  BY <1>1, StatusValues DEF status, MarkedStages
<1>3. "clearing" \in Stages
  BY DEF Stages
<1>4. status' = [status EXCEPT ![r] = "ended"]
  BY <1>1, <1>3, StatusMove, StatusValues
<1>5. UNCHANGED ledger
  BY DEF ReceiveFinished
<1> QED BY <1>2, <1>4, <1>5 DEF Lifecycle!End, Lifecycle!Move, status

LEMMA ProcessEndsRefines ==
    ASSUME TypeOK, ProcessEnds
    PROVE  Lifecycle!Lose
<1>1. ASSUME NEW r \in Runs
      PROVE  status'[r] = IF status[r] \in {"new", "over", "lost"} THEN status[r] ELSE "lost"
  <2>1. stage'[r] = IF stage[r] \in Volatile THEN "lost" ELSE stage[r]
    BY DEF ProcessEnds
  <2>2. stage[r] \in Stages
    BY DEF TypeOK
  <2>3. stage[r] \in Volatile <=> statusOf(stage[r]) \notin {"new", "over", "lost"}
    BY <2>2, StatusOfStage DEF Volatile, AcceptedStages, MarkedStages, Stages
  <2>4. statusOf("lost") = "lost"
    BY StatusOfStage DEF Stages
  <2> QED BY <2>1, <2>3, <2>4 DEF status
<1>2. status' = [r \in Runs |-> IF status[r] \in {"new", "over", "lost"}
                                THEN status[r] ELSE "lost"]
  BY <1>1 DEF status
<1> QED BY <1>2 DEF Lifecycle!Lose, ProcessEnds, status

-----------------------------------------------------------------------------
(* The theorem.                                                            *)

LifecycleStep == Lifecycle!Next \/ UNCHANGED <<status, ledger>>

LEMMA StepRefines == Invariants /\ [Next]_vars => LifecycleStep
<1> SUFFICES ASSUME Invariants, [Next]_vars PROVE LifecycleStep
  OBVIOUS
<1> USE DEF Invariants
<1>0. ASSUME NEW r \in Runs,
             \/ Lifecycle!Accept(r) \/ Lifecycle!TurnAway(r) \/ Lifecycle!Start(r)
             \/ Lifecycle!End(r) \/ Lifecycle!Close(r)
      PROVE  LifecycleStep
  BY <1>0 DEF LifecycleStep, Lifecycle!Next
<1>1. ASSUME NEW r \in Runs, Enqueue(r) \/ EnqueueCron(r) PROVE LifecycleStep
  <2>1. stage[r] = "new" /\ UNCHANGED ledger
    BY <1>1 DEF Enqueue, EnqueueCron
  <2>2. CASE /\ Push(r) /\ Accepting /\ Len(pending) < GlobalQueueCapacity
             /\ IsCron(r) => ~Overlaps(r)
    BY <1>0, <2>1, <2>2, PushIsAccept
  <2>3. CASE TurnAway(r, "rejected") \/ TurnAway(r, "skipped")
    BY <1>0, <2>1, <2>3, TurnAwayRefines
  <2> QED BY <1>1, <2>2, <2>3 DEF Enqueue, EnqueueCron
<1>2. ASSUME NEW r \in Runs, AppendRefusedWebhook(r) \/ AppendRefusedCron(r)
      PROVE  LifecycleStep
  <2>1. stage[r] = "refused" /\ Record(r, outcome[r])
    BY <1>2 DEF AppendRefusedWebhook, AppendRefusedCron
  <2>2. status[r] = "turned_away"
    BY <2>1, StatusValues DEF status
  <2>3. outcome[r] \in Lifecycle!ResultsOf("turned_away")
    BY <2>1 DEF RecordedOnce, Refusals, Lifecycle!ResultsOf
  <2> QED BY <1>0, <2>1, <2>2, <2>3, RecordIsClose
<1>3. ASSUME NEW r \in Runs, AppendFinished(r) PROVE LifecycleStep
  <2>1. stage[r] = "clearing" /\ Record(r, outcome[r])
    BY <1>3 DEF AppendFinished
  <2>2. status[r] = "ended"
    BY <2>1, StatusValues DEF status
  <2>3. outcome[r] \in Lifecycle!ResultsOf("ended")
    BY <2>1 DEF RecordedOnce, Results, Lifecycle!ResultsOf
  <2> QED BY <1>0, <2>1, <2>2, <2>3, RecordIsClose
<1>4. CASE RejectPurged
  <2>1. Head(purged) \in ToSet(purged)
    BY <1>4, TailNoRepetition DEF RejectPurged, QueueSound, TypeOK
  <2>2. Head(purged) \in Runs /\ stage[Head(purged)] = "purged"
    BY <2>1 DEF QueueSound
  <2>3. status[Head(purged)] = "queued"
    BY <2>2, StatusValues DEF status
  <2>4. "rejected" \in Lifecycle!ResultsOf("queued")
    BY DEF Lifecycle!ResultsOf
  <2> QED BY <1>0, <1>4, <2>2, <2>3, <2>4, RecordIsClose DEF RejectPurged
<1>5. CASE NextReadyEvent
  BY <1>0, <1>5, StartRefines
<1>6. CASE ReceiveFinished
  BY <1>0, <1>6, EndRefines
<1>7. CASE Exit \/ Crash
  BY <1>7, ProcessEndsRefines DEF Exit, Crash, LifecycleStep, Lifecycle!Next
<1>8. ASSUME NEW r \in Runs, Executor(r) PROVE LifecycleStep
  <2>1. PICK to \in MarkedStages :
            stage[r] \in MarkedStages /\ stage' = [stage EXCEPT ![r] = to]
    BY <1>8 DEF Executor, StartRejected, StartDispatch, DispatchReturns, SendFinished,
                MarkedStages
  <2>2. status[r] = "running" /\ to \in Stages
    BY <2>1, StatusValues DEF status, MarkedStages, Stages
  <2>3. status' = [status EXCEPT ![r] = "running"]
    BY <2>1, <2>2, StatusMove, StatusValues
  <2>4. UNCHANGED ledger
    BY <1>8 DEF Executor, StartRejected, StartDispatch, DispatchReturns, SendFinished,
                executorFrame
  <2> QED BY <2>2, <2>3, <2>4 DEF LifecycleStep, status
<1>9. CASE Deadline
  <2>1. UNCHANGED ledger
    BY <1>9 DEF Deadline, triggerFrame
  <2>2. \A r \in Runs : statusOf(stage'[r]) = statusOf(stage[r])
    BY <1>9, StatusValues DEF Deadline
  <2> QED BY <2>1, <2>2 DEF LifecycleStep, status
<1>10. CASE \/ ReceiveNotify \/ NoReadyEvent \/ SignalFinished
            \/ DispatcherExit \/ SchedulerExit \/ UNCHANGED vars
            \/ BeginShutdown \/ StopIdle \/ CancelForced \/ Stop \/ Restart
  <2>1. UNCHANGED <<stage, ledger>>
    BY <1>10 DEF ReceiveNotify, NoReadyEvent, SignalFinished, DispatcherExit, SchedulerExit,
                 BeginShutdown, StopIdle, CancelForced, Stop, Restart, vars, runVars, triggerFrame
  <2> QED BY <2>1 DEF LifecycleStep, status
<1> QED BY <1>1, <1>2, <1>3, <1>4, <1>5, <1>6, <1>7, <1>8, <1>9, <1>10
        DEF Next, Trigger, Dispatcher, Shutdown, Process

\* Whatever the goroutines do, the queue keeps the promises of RunLifecycle.
THEOREM QueueImplementsLifecycle == Spec => ImplementsLifecycle
<1>1. Init => Lifecycle!Init
  <2> SUFFICES ASSUME Init PROVE Lifecycle!Init
    OBVIOUS
  <2>1. \A r \in Runs : statusOf(stage[r]) = "new"
    BY StatusValues DEF Init
  <2> QED BY <2>1 DEF Init, Lifecycle!Init
<1>2. Invariants /\ [Next]_vars => [Lifecycle!Next]_<<[r \in Runs |-> statusOf(stage[r])], ledger>>
  BY StepRefines DEF LifecycleStep, status
<1>3. Spec => []Invariants
  BY TypeCorrect, QueueIsSound, RoutesExcludeEachOther, WorkspaceCapIsKept,
     RunsAreRecordedOnce, ShutdownIsSound, PTL DEF Invariants
<1> QED BY <1>1, <1>2, <1>3, PTL DEF Spec, ImplementsLifecycle, Lifecycle!Spec
=============================================================================
