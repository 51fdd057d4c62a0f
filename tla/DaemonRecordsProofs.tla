------------------------- MODULE DaemonRecordsProofs -------------------------
(* Theorems about three of the parts of DaemonRecords: WorkspaceRegistry, for *)
(* any paths, names, ids and refreshers; AdapterChoice, for any adapters and  *)
(* events; and RunLedger, for any runs, days, limit and readers.              *)
EXTENDS DaemonRecords, Sequences, SequenceTheorems, FiniteSetTheorems,
        WellFoundedInduction, TLAPS

-----------------------------------------------------------------------------
(* Types *)

LEMMA NothingTypes ==
    Empty \in [Ids -> Record \cup {None}] /\ NoRefresh \in [Refreshers -> Position]
  <1>1. Idle \in Position
    BY DEF Idle, Position
  <1>2. QED
    BY <1>1 DEF Empty, NoRefresh

LEMMA TypeInit == Init => TypeOK
  BY NothingTypes DEF Init, TypeOK

\* The id of a registration.
LEMMA TargetType == ASSUME NEW p \in Paths PROVE Target(p) \subseteq Ids
  BY DEF Target, Listed

LEMMA WithType ==
    ASSUME TypeOK, NEW p \in Paths, NEW n \in Names, NEW i \in Ids
    PROVE  With(p, n, i) \in [Ids -> Record \cup {None}]
  BY DEF With, TypeOK, Record

LEMMA TypeNext == TypeOK /\ [Next]_vars => TypeOK'
  <1> SUFFICES ASSUME TypeOK, [Next]_vars PROVE TypeOK'
    OBVIOUS
  <1> USE DEF TypeOK, table, process, history, SaveDone, SaveFails, Down
  <1>1. ASSUME NEW p \in Paths, NEW n \in Names,
               Register(p, n) \/ RegisterFails(p, n) \/ RegisterCut(p, n)
        PROVE  TypeOK'
    <2>1. CASE Register(p, n)
      BY <2>1, TargetType, WithType DEF Register
    <2>2. CASE RegisterFails(p, n)
      <3>1. PICK i \in Ids : workspaces' = With(p, n, i) /\ used' = used \cup {i}
        BY <2>2, TargetType DEF RegisterFails
      <3>2. workspaces' \in [Ids -> Record \cup {None}] /\ used' \in SUBSET Ids
        BY <3>1, WithType
      <3>3. saved' \in [Ids -> Record \cup {None}] /\ present' \in BOOLEAN
        BY <2>2, NothingTypes DEF RegisterFails
      <3>4. named' \in [Paths -> SUBSET Names] /\ overtaken' \in SUBSET Paths
        BY <2>2 DEF RegisterFails
      <3>5. QED
        BY <2>2, <3>2, <3>3, <3>4 DEF RegisterFails
    <2>3. CASE RegisterCut(p, n)
      BY <2>3, TargetType, WithType, NothingTypes DEF RegisterCut
    <2>4. QED
      BY <1>1, <2>1, <2>2, <2>3
  <1>2. ASSUME NEW f \in Refreshers, NEW i \in Ids, RefreshRead(f, i) PROVE TypeOK'
    BY <1>2 DEF RefreshRead, Position, Listed
  <1>3. ASSUME NEW f \in Refreshers, Assess(f) PROVE TypeOK'
    BY <1>3 DEF Assess, Position
  <1>4. ASSUME NEW f \in Refreshers, RefreshStore(f) PROVE TypeOK'
    BY <1>4 DEF RefreshStore, Stored, Position
  <1>5. ASSUME NEW f \in Refreshers, RefreshSave(f) PROVE TypeOK'
    BY <1>5, NothingTypes DEF RefreshSave, Idle, Position
  <1>6. ASSUME Crash \/ CrashInSave PROVE TypeOK'
    BY <1>6, NothingTypes DEF Crash, CrashInSave
  <1>7. ASSUME Restart \/ Recovered PROVE TypeOK'
    BY <1>7 DEF Restart, Recovered
  <1>8. ASSUME NEW i \in Ids, Recover(i) PROVE TypeOK'
    BY <1>8, NothingTypes DEF Recover
  <1>9. CASE UNCHANGED vars
    BY <1>9 DEF vars
  <1>10. QED
    BY <1>1, <1>2, <1>3, <1>4, <1>5, <1>6, <1>7, <1>8, <1>9
       DEF Next, Registration, Refreshing, Process

\* The records, the positions of the refreshers and the histories keep their
\* types (registerWorkspace, refreshWorkspace, recoverState).
THEOREM TypeCorrect == Spec => []TypeOK
  BY TypeInit, TypeNext, PTL DEF Spec

-----------------------------------------------------------------------------
(* One record per path.  An id that was never drawn has no record; what a   *)
(* refresher is about to store has the path of the record it replaces, and  *)
(* only a process that serves has refreshers.                               *)

Holds(f) == refresh[f].at \in {"read", "assessed"}

HeldFits(f) ==
    /\ refresh[f].at # "idle" => phase = "serving"
    /\ Holds(f) =>
         /\ refresh[f].id \in Ids /\ refresh[f].record \in Record
         /\ workspaces[refresh[f].id] # None
         /\ workspaces[refresh[f].id].path = refresh[f].record.path

PathInv ==
    /\ OneRecordPerPath
    /\ \A i \in Ids \ used : workspaces[i] = None /\ saved[i] = None
    /\ \A f \in Refreshers : HeldFits(f)

\* A registration's id has the path already, or is new; no other id has it.
LEMMA TargetFits ==
    ASSUME TypeOK, PathInv, NEW p \in Paths, NEW i \in Target(p)
    PROVE  /\ i \in Ids
           /\ workspaces[i] # None => workspaces[i].path = p
           /\ workspaces[i] = None => i \notin used
           /\ \A j \in Ids : (workspaces[j] # None /\ workspaces[j].path = p) => j = i
  BY DEF Target, Listed, PathInv, OneRecordPerPath, OneEach

LEMMA WithFits ==
    ASSUME TypeOK, PathInv, NEW p \in Paths, NEW n \in Names, NEW i \in Target(p)
    PROVE  OneEach(With(p, n, i))
  <1> DEFINE new == With(p, n, i)
  <1>1. \A j \in Ids : new[j] = IF j = i THEN [path |-> p, name |-> n] ELSE workspaces[j]
    BY TargetFits DEF With, TypeOK
  <1>2. QED
    BY <1>1, TargetFits DEF OneEach, PathInv, OneRecordPerPath

LEMMA PathInit == Init => PathInv
  BY DEF Init, PathInv, OneRecordPerPath, OneEach, HeldFits, Holds, Empty, NoRefresh, Idle

\* Nothing is there, and nobody refreshes.
LEMMA DownKeepsPaths ==
    ASSUME TypeOK, PathInv, Down, used \subseteq used',
           OneEach(saved'), \A i \in Ids \ used' : saved'[i] = None
    PROVE  PathInv'
  BY DEF PathInv, OneRecordPerPath, OneEach, Down, HeldFits, Holds, NoRefresh, Idle, Empty

LEMMA EmptyIsOne == OneEach(Empty) /\ \A i \in Ids : Empty[i] = None
  BY DEF OneEach, Empty

LEMMA PathNext == TypeOK /\ PathInv /\ [Next]_vars => PathInv'
  <1> SUFFICES ASSUME TypeOK, PathInv, [Next]_vars PROVE PathInv'
    OBVIOUS
  <1> USE DEF table, process, history
  <1>1. ASSUME NEW p \in Paths, NEW n \in Names, Register(p, n) \/ RegisterFails(p, n)
        PROVE  PathInv'
    <2>1. PICK i \in Target(p) : workspaces' = With(p, n, i) /\ used' = used \cup {i}
      BY <1>1 DEF Register, RegisterFails
    <2>2. /\ saved' \in {saved, Empty, workspaces'} /\ UNCHANGED <<phase, refresh>>
          /\ phase = "serving"
      BY <1>1 DEF Register, RegisterFails, SaveDone, SaveFails
    <2>3. \A j \in Ids : workspaces'[j] = IF j = i THEN [path |-> p, name |-> n] ELSE workspaces[j]
      BY <2>1, TargetFits DEF With, TypeOK
    <2>4. OneEach(workspaces') /\ \A j \in Ids \ used' : workspaces'[j] = None
      BY <2>1, <2>3, WithFits DEF PathInv
    <2>5. OneEach(saved') /\ \A j \in Ids \ used' : saved'[j] = None
      BY <2>1, <2>2, <2>4, EmptyIsOne DEF PathInv, OneRecordPerPath
    <2>6. ASSUME NEW f \in Refreshers PROVE HeldFits(f)'
      <3>1. i \in Ids /\ (workspaces[i] # None => workspaces[i].path = p)
        BY TargetFits
      <3>2. [path |-> p, name |-> n] # None
        BY NoneTypes DEF Record
      <3>3. QED
        BY <2>2, <2>3, <3>1, <3>2 DEF PathInv, HeldFits, Holds
    <2>7. QED
      BY <2>4, <2>5, <2>6 DEF PathInv, OneRecordPerPath
  <1>2. ASSUME NEW p \in Paths, NEW n \in Names, RegisterCut(p, n) PROVE PathInv'
    <2>1. PICK i \in Target(p) : saved' = With(p, n, i) /\ used' = used \cup {i}
      BY <1>2 DEF RegisterCut
    <2>2. OneEach(saved') /\ \A j \in Ids \ used' : saved'[j] = None
      BY <2>1, WithFits DEF PathInv, With, TypeOK
    <2>3. QED
      BY <1>2, <2>1, <2>2, DownKeepsPaths DEF RegisterCut
  <1>3. ASSUME NEW f \in Refreshers, NEW i \in Ids, RefreshRead(f, i) PROVE PathInv'
    <2>1. workspaces[i] \in Record
      BY <1>3 DEF RefreshRead, Listed, TypeOK
    <2>2. \A g \in Refreshers : HeldFits(g)'
      BY <1>3, <2>1, NoneTypes DEF RefreshRead, PathInv, HeldFits, Holds, TypeOK
    <2>3. QED
      BY <1>3, <2>2 DEF RefreshRead, PathInv, OneRecordPerPath
  <1>4. ASSUME NEW f \in Refreshers, Assess(f) PROVE PathInv'
    <2>1. \A g \in Refreshers : HeldFits(g)'
      BY <1>4 DEF Assess, PathInv, HeldFits, Holds, TypeOK, Position
    <2>2. QED
      BY <1>4, <2>1 DEF Assess, PathInv, OneRecordPerPath
  <1>5. ASSUME NEW f \in Refreshers, RefreshStore(f) PROVE PathInv'
    <2> DEFINE i == refresh[f].id
               r == refresh[f].record
    <2>1. /\ i \in Ids /\ r \in Record /\ r # None
          /\ workspaces[i] # None /\ workspaces[i].path = r.path
          /\ phase = "serving"
      BY <1>5, NoneTypes DEF RefreshStore, PathInv, HeldFits, Holds
    <2>2. \A j \in Ids : workspaces'[j] = IF j = i THEN r ELSE workspaces[j]
      BY <1>5, <2>1 DEF RefreshStore, Stored, TypeOK
    <2>3. OneEach(workspaces') /\ \A j \in Ids \ used' : workspaces'[j] = None
      BY <1>5, <2>1, <2>2 DEF RefreshStore, PathInv, OneRecordPerPath, OneEach
    <2>4. \A g \in Refreshers : HeldFits(g)'
      <3>1. \A g \in Refreshers : g # f => refresh'[g] = refresh[g]
        BY <1>5 DEF RefreshStore, TypeOK
      <3>2. refresh'[f].at = "stored" /\ phase' = phase
        BY <1>5 DEF RefreshStore, TypeOK, Position
      <3>3. QED
        BY <2>1, <2>2, <3>1, <3>2 DEF PathInv, HeldFits, Holds
    <2>5. QED
      BY <1>5, <2>3, <2>4 DEF RefreshStore, PathInv, OneRecordPerPath
  <1>6. ASSUME NEW f \in Refreshers, RefreshSave(f) PROVE PathInv'
    <2>1. saved' \in {saved, Empty, workspaces}
      BY <1>6 DEF RefreshSave, SaveDone, SaveFails
    <2>2. OneEach(saved') /\ \A j \in Ids \ used' : saved'[j] = None
      BY <1>6, <2>1, EmptyIsOne DEF RefreshSave, PathInv, OneRecordPerPath
    <2>3. \A g \in Refreshers : HeldFits(g)'
      BY <1>6 DEF RefreshSave, PathInv, HeldFits, Holds, Idle, TypeOK
    <2>4. QED
      BY <1>6, <2>2, <2>3 DEF RefreshSave, PathInv, OneRecordPerPath
  <1>7. ASSUME Crash \/ CrashInSave PROVE PathInv'
    <2>1. saved' \in {saved, Empty}
      BY <1>7 DEF Crash, CrashInSave
    <2>2. OneEach(saved') /\ \A i \in Ids \ used' : saved'[i] = None
      BY <1>7, <2>1, EmptyIsOne DEF Crash, CrashInSave, PathInv, OneRecordPerPath
    <2>3. QED
      BY <1>7, <2>2, DownKeepsPaths DEF Crash, CrashInSave
  <1>8. CASE Restart
    BY <1>8 DEF Restart, PathInv, OneRecordPerPath, HeldFits, Holds
  <1>9. CASE Recovered
    BY <1>9 DEF Recovered, PathInv, OneRecordPerPath, HeldFits, Holds
  <1>10. ASSUME NEW i \in Ids, Recover(i) PROVE PathInv'
    <2>1. CASE SaveDone /\ UNCHANGED <<workspaces, phase, refresh>>
      BY <1>10, <2>1 DEF Recover, SaveDone, PathInv, OneRecordPerPath, HeldFits, Holds
    <2>2. CASE Down /\ SaveFails
      <3>1. OneEach(saved') /\ \A j \in Ids \ used' : saved'[j] = None
        BY <1>10, <2>2, EmptyIsOne DEF Recover, SaveFails, PathInv, OneRecordPerPath
      <3>2. QED
        BY <1>10, <2>2, <3>1, DownKeepsPaths DEF Recover
    <2>3. QED
      BY <1>10, <2>1, <2>2 DEF Recover
  <1>11. CASE UNCHANGED vars
    BY <1>11 DEF vars, PathInv, OneRecordPerPath, HeldFits, Holds
  <1>12. QED
    BY <1>1, <1>2, <1>3, <1>4, <1>5, <1>6, <1>7, <1>8, <1>9, <1>10, <1>11
       DEF Next, Registration, Refreshing, Process

LEMMA PathInvariance == Spec => []PathInv
  BY PathInit, PathNext, TypeCorrect, PTL DEF Spec

\* A path never has two workspaces, in memory or in the file.
THEOREM PathsHaveOneRecord == Spec => []OneRecordPerPath
  <1>1. PathInv => OneRecordPerPath
    BY DEF PathInv
  <1>2. QED
    BY <1>1, PathInvariance, PTL

-----------------------------------------------------------------------------
(* What was answered.  An answered id was drawn, so that no later           *)
(* registration of another path gets it; a refresher keeps the path.        *)

HasPath(t, i, p) == t[i] # None /\ t[i].path = p

AnswerInv ==
    \A p \in Paths : answered[p] # None =>
        /\ answered[p] \in used
        /\ ~wiped =>
             /\ phase # "down" => HasPath(workspaces, answered[p], p)
             /\ present => HasPath(saved, answered[p], p)

\* A registration takes no other path's record.
LEMMA WithKeeps ==
    ASSUME TypeOK, PathInv, NEW p \in Paths, NEW n \in Names, NEW i \in Target(p)
    PROVE  /\ HasPath(With(p, n, i), i, p)
           /\ \A j \in used, q \in Paths :
                HasPath(workspaces, j, q) => HasPath(With(p, n, i), j, q)
  <1>1. \A j \in Ids : With(p, n, i)[j] =
            IF j = i THEN [path |-> p, name |-> n] ELSE workspaces[j]
    BY TargetFits DEF With, TypeOK
  <1>2. [path |-> p, name |-> n] # None
    BY NoneTypes DEF Record
  <1>3. used \subseteq Ids
    BY DEF TypeOK
  <1>4. QED
    BY <1>1, <1>2, <1>3, TargetFits DEF HasPath

LEMMA AnswerInit == Init => AnswerInv
  BY DEF Init, AnswerInv

LEMMA AnswerNext == TypeOK /\ PathInv /\ AnswerInv /\ [Next]_vars => AnswerInv'
  <1> SUFFICES ASSUME TypeOK, PathInv, AnswerInv, [Next]_vars,
                      NEW q \in Paths, answered'[q] # None
               PROVE  /\ answered'[q] \in used'
                      /\ ~wiped' =>
                           /\ phase' # "down" => HasPath(workspaces', answered'[q], q)
                           /\ present' => HasPath(saved', answered'[q], q)
    BY DEF AnswerInv, HasPath
  <1> DEFINE a == answered[q]
  <1> USE DEF table, process, history
  <1>1. ASSUME a # None, ~wiped
        PROVE  /\ a \in used
               /\ phase # "down" => HasPath(workspaces, a, q)
               /\ present => HasPath(saved, a, q)
    BY <1>1 DEF AnswerInv
  <1>2. ASSUME NEW p \in Paths, NEW n \in Names, NEW i \in Target(p),
               workspaces' = With(p, n, i), a # None, ~wiped, phase = "serving"
        PROVE  HasPath(workspaces', a, q)
    BY <1>1, <1>2, WithKeeps
  <1>3. ASSUME NEW p \in Paths, NEW n \in Names, Register(p, n)
        PROVE  /\ answered'[q] \in used'
               /\ ~wiped' => HasPath(workspaces', answered'[q], q) /\ HasPath(saved', answered'[q], q)
    <2>1. PICK i \in Target(p) : /\ workspaces' = With(p, n, i) /\ used' = used \cup {i}
                                 /\ answered' = [answered EXCEPT ![p] = i]
      BY <1>3 DEF Register
    <2>2. saved' = workspaces' /\ wiped' = wiped /\ phase = "serving"
      BY <1>3 DEF Register, SaveDone
    <2>3. CASE q = p
      <3>1. answered'[q] = i
        BY <2>1, <2>3 DEF TypeOK
      <3>2. HasPath(With(p, n, i), i, p)
        BY WithKeeps
      <3>3. QED
        BY <2>1, <2>2, <2>3, <3>1, <3>2
    <2>4. CASE q # p
      <3>1. answered'[q] = a
        BY <2>1, <2>4 DEF TypeOK
      <3>2. a \in used /\ (~wiped => HasPath(workspaces', a, q))
        BY <1>2, <2>1, <2>2, <3>1 DEF AnswerInv
      <3>3. QED
        BY <2>1, <2>2, <3>1, <3>2
    <2>5. QED
      BY <2>3, <2>4
  <1>4. ASSUME NEW p \in Paths, NEW n \in Names, RegisterFails(p, n)
        PROVE  /\ a \in used' /\ answered' = answered
               /\ ~wiped' => HasPath(workspaces', a, q) /\ (present' => HasPath(saved', a, q))
    <2>1. PICK i \in Target(p) : workspaces' = With(p, n, i) /\ used' = used \cup {i}
      BY <1>4 DEF RegisterFails
    <2>2. /\ answered' = answered /\ wiped' = wiped /\ phase = "serving"
          /\ (present' = present /\ saved' = saved) \/ present' = FALSE
      BY <1>4 DEF RegisterFails, SaveFails
    <2>3. ~wiped => HasPath(workspaces', a, q)
      BY <1>2, <2>1, <2>2
    <2>4. QED
      BY <1>1, <2>1, <2>2, <2>3 DEF AnswerInv
  <1>5. ASSUME NEW p \in Paths, NEW n \in Names, RegisterCut(p, n)
        PROVE  /\ a \in used' /\ answered' = answered /\ phase' = "down"
               /\ ~wiped' => HasPath(saved', a, q)
    <2>1. PICK i \in Target(p) : saved' = With(p, n, i) /\ used' = used \cup {i}
      BY <1>5 DEF RegisterCut
    <2>2. answered' = answered /\ wiped' = wiped /\ phase = "serving" /\ phase' = "down"
      BY <1>5 DEF RegisterCut, Down
    <2>3. ~wiped => HasPath(With(p, n, i), a, q)
      BY <1>1, <2>2, WithKeeps
    <2>4. QED
      BY <2>1, <2>2, <2>3 DEF AnswerInv
  <1>6. ASSUME NEW f \in Refreshers, RefreshStore(f)
        PROVE  /\ answered' = answered /\ used' = used /\ wiped' = wiped /\ phase = phase'
               /\ saved' = saved /\ present' = present
               /\ ~wiped => HasPath(workspaces', a, q)
    <2> DEFINE i == refresh[f].id
               r == refresh[f].record
    <2>1. /\ i \in Ids /\ r # None /\ workspaces[i].path = r.path /\ phase = "serving"
      BY <1>6, NoneTypes DEF RefreshStore, PathInv, HeldFits, Holds
    <2>2. \A j \in Ids : workspaces'[j] = IF j = i THEN r ELSE workspaces[j]
      BY <1>6, <2>1 DEF RefreshStore, Stored, TypeOK
    <2>3. /\ answered' = answered /\ used' = used /\ wiped' = wiped /\ phase = phase'
          /\ saved' = saved /\ present' = present
      BY <1>6 DEF RefreshStore
    <2>4. answered' = answered /\ a \in Ids
      BY <2>3 DEF TypeOK
    <2>5. ~wiped => HasPath(workspaces', a, q)
      BY <1>1, <2>1, <2>2, <2>4 DEF HasPath
    <2>6. QED
      BY <2>3, <2>5
  <1>7. ASSUME NEW f \in Refreshers, RefreshSave(f)
        PROVE  /\ UNCHANGED <<answered, used, wiped, phase, workspaces>>
               /\ phase = "serving"
               /\ saved' = workspaces \/ ~present' \/ UNCHANGED <<saved, present>>
    BY <1>7 DEF RefreshSave, SaveDone, SaveFails, PathInv, HeldFits
  <1>8. ASSUME Crash \/ CrashInSave
        PROVE  /\ UNCHANGED <<answered, used, wiped>> /\ phase' = "down"
               /\ ~present' \/ UNCHANGED <<saved, present>>
    BY <1>8 DEF Crash, CrashInSave, Down
  <1>9. ASSUME Restart
        PROVE  /\ UNCHANGED <<answered, used, saved>> /\ workspaces' = saved
               /\ wiped' = (wiped \/ ~present)
    BY <1>9 DEF Restart
  <1>10. ASSUME NEW i \in Ids, Recover(i)
         PROVE  /\ UNCHANGED <<answered, used, wiped>>
                /\ phase = "recovering"
                /\ \/ UNCHANGED <<workspaces, phase>> /\ saved' = workspaces
                   \/ phase' = "down" /\ (~present' \/ UNCHANGED <<saved, present>>)
    BY <1>10 DEF Recover, Down, SaveDone, SaveFails
  <1>11. ASSUME \/ Recovered \/ UNCHANGED vars
                \/ \E f \in Refreshers : Assess(f) \/ \E i \in Ids : RefreshRead(f, i)
         PROVE  UNCHANGED <<answered, used, wiped, workspaces, saved, present>> /\ (phase' # "down" => phase # "down")
    BY <1>11 DEF Recovered, vars, Assess, RefreshRead
  <1>12. CASE \E p \in Paths, n \in Names : Register(p, n) \/ RegisterFails(p, n) \/ RegisterCut(p, n)
    BY <1>3, <1>4, <1>5, <1>12
  <1>13. CASE \E f \in Refreshers : RefreshStore(f) \/ RefreshSave(f)
    BY <1>1, <1>6, <1>7, <1>13 DEF AnswerInv
  <1>14. CASE Crash \/ CrashInSave \/ Restart \/ \E i \in Ids : Recover(i)
    <2>1. CASE Crash \/ CrashInSave
      BY <1>1, <1>8, <2>1 DEF AnswerInv
    <2>2. CASE Restart
      BY <1>1, <1>9, <2>2 DEF AnswerInv
    <2>3. CASE \E i \in Ids : Recover(i)
      BY <1>1, <1>10, <2>3 DEF AnswerInv
    <2>4. QED
      BY <1>14, <2>1, <2>2, <2>3
  <1>15. CASE \/ Recovered \/ UNCHANGED vars
              \/ \E f \in Refreshers : Assess(f) \/ \E i \in Ids : RefreshRead(f, i)
    BY <1>1, <1>11, <1>15 DEF AnswerInv
  <1>16. QED
    BY <1>12, <1>13, <1>14, <1>15 DEF Next, Registration, Refreshing, Process

LEMMA AnswerInvariance == Spec => []AnswerInv
  BY AnswerInit, AnswerNext, TypeCorrect, PathInvariance, PTL DEF Spec

-----------------------------------------------------------------------------
(* Names.  Unless a path was registered while a refresher held its record,  *)
(* whoever holds or stores its record has a name that it may have.          *)

Fits(record) == record.path \in overtaken \/ record.name \in named[record.path]

NameInv ==
    /\ \A i \in Ids : workspaces[i] # None => Fits(workspaces[i])
    /\ \A i \in Ids : saved[i] # None => Fits(saved[i])
    /\ \A f \in Refreshers : Holds(f) => Fits(refresh[f].record)

LEMMA NameInit == Init => NameInv
  BY DEF Init, NameInv, Holds, Empty, NoRefresh, Idle

LEMMA NameNext == TypeOK /\ PathInv /\ NameInv /\ [Next]_vars => NameInv'
  <1> SUFFICES ASSUME TypeOK, PathInv, NameInv, [Next]_vars PROVE NameInv'
    OBVIOUS
  <1> USE DEF table, process, history
  <1>1. \A i \in Ids : Empty[i] = None
    BY DEF Empty
  <1>2. ASSUME NEW p \in Paths, NEW n \in Names,
               Register(p, n) \/ RegisterFails(p, n) \/ RegisterCut(p, n)
        PROVE  NameInv'
    <2>1. PICK i \in Target(p) :
             /\ workspaces' \in {With(p, n, i), Empty}
             /\ saved' \in {With(p, n, i), saved, Empty}
             /\ Register(p, n) => /\ saved' = With(p, n, i)
                                  /\ overtaken' = IF Held(i) THEN overtaken \cup {p} ELSE overtaken \ {p}
             /\ RegisterFails(p, n) => overtaken' = IF Held(i) THEN overtaken \cup {p} ELSE overtaken
             /\ RegisterCut(p, n) => overtaken' = overtaken /\ refresh' = NoRefresh
             /\ ~RegisterCut(p, n) => refresh' = refresh
      BY <1>2 DEF Register, RegisterFails, RegisterCut, SaveDone, SaveFails, Down
    <2>2. /\ \A q \in Paths : q # p => named'[q] = named[q]
          /\ n \in named'[p]
          /\ ~Register(p, n) => named[p] \subseteq named'[p]
      BY <1>2 DEF Register, RegisterFails, RegisterCut, TypeOK
    <2>3. \A j \in Ids : With(p, n, i)[j] =
             IF j = i THEN [path |-> p, name |-> n] ELSE workspaces[j]
      BY TargetFits DEF With, TypeOK
    <2> DEFINE FitsNow(record) == record.path \in overtaken' \/ record.name \in named'[record.path]
    <2>4. ASSUME NEW record \in Record, Fits(record), record.path # p \/ ~Register(p, n)
          PROVE  FitsNow(record)
      <3>1. record.path \in Paths /\ \A q \in overtaken : q # p \/ ~Register(p, n) => q \in overtaken'
        BY <1>2, <2>1 DEF Record
      <3>2. QED
        BY <2>2, <2>4, <3>1 DEF Fits
    <2>5. ASSUME NEW j \in Ids, With(p, n, i)[j] # None
          PROVE  FitsNow(With(p, n, i)[j])
      <3>1. CASE j = i
        BY <2>2, <2>3, <3>1
      <3>2. CASE j # i
        <4>1. workspaces[j] \in Record /\ With(p, n, i)[j] = workspaces[j] /\ Fits(workspaces[j])
          BY <2>3, <2>5, <3>2 DEF NameInv, TypeOK
        <4>2. workspaces[j].path # p
          BY <2>5, <3>2, <4>1, TargetFits
        <4>3. QED
          BY <2>4, <4>1, <4>2
      <3>3. QED
        BY <3>1, <3>2
    <2>6. ASSUME NEW j \in Ids, saved'[j] # None
          PROVE  FitsNow(saved'[j])
      <3>1. CASE saved' = With(p, n, i)
        BY <2>5, <2>6, <3>1
      <3>2. CASE saved' = saved /\ ~Register(p, n)
        BY <2>4, <2>6, <3>2 DEF NameInv, TypeOK
      <3>3. QED
        BY <1>1, <2>1, <2>6, <3>1, <3>2
    <2>7. ASSUME NEW f \in Refreshers, Holds(f)'
          PROVE  FitsNow(refresh'[f].record)
      <3>1. refresh' = refresh /\ ~RegisterCut(p, n)
        BY <2>1, <2>7 DEF Holds, NoRefresh, Idle
      <3>2. /\ Holds(f) /\ refresh[f].record \in Record /\ refresh[f].id \in Ids
            /\ workspaces[refresh[f].id] # None
            /\ workspaces[refresh[f].id].path = refresh[f].record.path
            /\ Fits(refresh[f].record)
        BY <2>7, <3>1 DEF PathInv, HeldFits, Holds, NameInv
      <3>3. CASE refresh[f].record.path = p
        <4>1. refresh[f].id = i
          BY <3>2, <3>3, TargetFits
        <4>2. Held(i)
          BY <3>2, <4>1 DEF Held, Holds
        <4>3. QED
          BY <1>2, <2>1, <3>1, <3>3, <4>2
      <3>4. CASE refresh[f].record.path # p
        BY <2>4, <3>1, <3>2, <3>4
      <3>5. QED
        BY <3>3, <3>4
    <2>8. \A j \in Ids : workspaces'[j] # None => FitsNow(workspaces'[j])
      BY <1>1, <2>1, <2>5
    <2>9. QED
      BY <2>6, <2>7, <2>8 DEF NameInv, Fits
  <1>3. ASSUME NEW f \in Refreshers, RefreshStore(f) PROVE NameInv'
    <2>1. Holds(f) /\ refresh[f].id \in Ids /\ Fits(refresh[f].record)
      BY <1>3 DEF RefreshStore, PathInv, HeldFits, Holds, NameInv
    <2>2. \A j \in Ids : workspaces'[j] \in {workspaces[j], refresh[f].record}
      BY <1>3, <2>1 DEF RefreshStore, Stored, TypeOK
    <2>3. \A g \in Refreshers : Holds(g)' => Holds(g) /\ refresh'[g].record = refresh[g].record
      BY <1>3 DEF RefreshStore, Holds, TypeOK, Position
    <2>4. QED
      BY <1>3, <2>1, <2>2, <2>3 DEF RefreshStore, NameInv, Fits
  <1>4. ASSUME NEW f \in Refreshers, NEW i \in Ids, RefreshRead(f, i) PROVE NameInv'
    BY <1>4 DEF RefreshRead, Listed, NameInv, Fits, Holds, TypeOK
  <1>5. ASSUME NEW f \in Refreshers, Assess(f) PROVE NameInv'
    BY <1>5 DEF Assess, NameInv, Fits, Holds, TypeOK, Position
  <1>6. ASSUME NEW f \in Refreshers, RefreshSave(f) PROVE NameInv'
    <2>1. saved' \in {saved, Empty, workspaces} /\ workspaces' = workspaces
      BY <1>6 DEF RefreshSave, SaveDone, SaveFails
    <2>2. \A g \in Refreshers : Holds(g)' => Holds(g) /\ refresh'[g].record = refresh[g].record
      BY <1>6 DEF RefreshSave, Holds, Idle, TypeOK
    <2>3. QED
      BY <1>1, <1>6, <2>1, <2>2 DEF RefreshSave, NameInv, Fits
  <1>7. CASE Crash \/ CrashInSave
    BY <1>1, <1>7 DEF Crash, CrashInSave, Down, NameInv, Fits, Holds, NoRefresh, Idle
  <1>8. CASE Restart
    BY <1>8 DEF Restart, NameInv, Fits, Holds
  <1>9. CASE Recovered
    BY <1>9 DEF Recovered, NameInv, Fits, Holds
  <1>10. ASSUME NEW i \in Ids, Recover(i) PROVE NameInv'
    BY <1>1, <1>10 DEF Recover, Down, SaveDone, SaveFails, NameInv, Fits, Holds, NoRefresh, Idle
  <1>11. CASE UNCHANGED vars
    BY <1>11 DEF vars, NameInv, Fits, Holds
  <1>12. QED
    BY <1>2, <1>3, <1>4, <1>5, <1>6, <1>7, <1>8, <1>9, <1>10, <1>11
       DEF Next, Registration, Refreshing, Process

\* What a registration answered stands: the id of its path, unless the file was
\* lost, and its name, unless a refresh held the record meanwhile.
THEOREM AnswersAreKept == Spec => []AnswersStand
  <1>1. TypeOK /\ PathInv /\ AnswerInv => AnsweredKept
    BY DEF AnswerInv, AnsweredKept, HasPath
  <1>2. NameInv => NameKept
    BY DEF NameInv, NameKept, Fits
  <1>3. Spec => []NameInv
    BY NameInit, NameNext, TypeCorrect, PathInvariance, PTL DEF Spec
  <1>4. QED
    BY <1>1, <1>2, <1>3, TypeCorrect, PathInvariance, AnswerInvariance, PTL DEF AnswersStand

-----------------------------------------------------------------------------
(* The adapters that are started in a workspace.                            *)

\* These do not depend on the state.
LEMMA AdapterConstants ==
    /\ A!AdapterTypes' = A!AdapterTypes /\ A!Positions' = A!Positions
    /\ A!Route' = A!Route /\ A!NoRoute' = A!NoRoute
  BY DEF A!AdapterTypes, A!Positions, A!Route, A!NoRoute

LEMMA AdapterTypeInit == A!Init => A!TypeOK
  BY DEF A!Init, A!TypeOK, A!Positions, A!NoRoute, A!NoEvent, A!Route

EventRecord ==
    [at : A!Positions, route : A!Route \cup {A!NoRoute}, ok : BOOLEAN,
     adapter : Adapters \cup {NoAdapter}, dirSeen : BOOLEAN]

\* The types are kept by a step that gives each event a record.
LEMMA EventsMove ==
    ASSUME A!TypeOK, UNCHANGED <<route, upsert>>, binaries' \in SUBSET Adapters, isDir' \in BOOLEAN,
           event' \in [Events -> EventRecord]
    PROVE  A!TypeOK'
  BY AdapterConstants DEF A!TypeOK, EventRecord

LEMMA EventType ==
    ASSUME A!TypeOK, NEW e \in Events
    PROVE  event \in [Events -> EventRecord] /\ event[e] \in EventRecord
  BY DEF A!TypeOK, EventRecord

\* What decides for a route that has a selected adapter.
LEMMA DeterminedIs ==
    ASSUME A!AdapterTypes, NEW r \in A!Route, NEW ok, NEW a \in A!Determined(r, ok)
    PROVE  /\ a \in Adapters /\ ok /\ isDir
           /\ a = IF r.pinned # NoAdapter THEN r.pinned ELSE r.selected
  <1>1. r.selected \in Adapters /\ r.selected # NoAdapter
        /\ r.pinned \in Adapters \cup {NoAdapter}
    BY DEF A!AdapterTypes, A!Route
  <1>2. A!Decisive(r, FALSE, r.selected # NoAdapter)
            = IF r.pinned # NoAdapter THEN r.pinned ELSE r.selected
    BY <1>1 DEF A!Decisive
  <1>3. QED
    BY <1>1, <1>2 DEF A!Determined, A!Selectable, A!Healthy

\* What an upsert selects: the pinned adapter if there is one; and, unless it is
\* asked for a new selection, the one it replaces.
LEMMA UpsertSelects ==
    ASSUME A!AdapterTypes, A!TypeOK, A!Upsert
    PROVE  /\ route' \in A!Route /\ A!TypeOK'
           /\ route'.pinned \in {NoAdapter, route'.selected}
           /\ A!SelectionStep
  <1>1. PICK c \in A!Choices, reselect \in BOOLEAN :
            /\ A!Valid(c)
            /\ \E a \in A!Selectable([pinned |-> c.pinned, preferred |-> c.preferred,
                                      selected |-> route.selected],
                                     isDir, reselect, route # A!NoRoute) :
                  route' = [pinned |-> c.pinned, preferred |-> c.preferred, selected |-> a]
            /\ upsert' = [pinned |-> c.pinned, reselect |-> reselect]
            /\ UNCHANGED <<binaries, isDir, event>>
    BY DEF A!Upsert
  <1> DEFINE new == [pinned |-> c.pinned, preferred |-> c.preferred, selected |-> route.selected]
             decisive == A!Decisive(new, reselect, route # A!NoRoute)
  <1>2. PICK a : /\ a \in A!Selectable(new, isDir, reselect, route # A!NoRoute)
                 /\ route' = [pinned |-> c.pinned, preferred |-> c.preferred, selected |-> a]
    BY <1>1
  <1>3. /\ c.pinned \in Adapters \cup {NoAdapter} /\ c.preferred \in Adapters \cup {NoAdapter}
    BY <1>1 DEF A!Valid, A!Choices, A!RouteNames
  <1>4. a \in IF decisive # NoAdapter THEN {decisive} ELSE Adapters
    BY <1>2 DEF A!Selectable
  <1>5. decisive = IF c.pinned # NoAdapter THEN c.pinned
                   ELSE IF route # A!NoRoute /\ ~reselect /\ route.selected # NoAdapter
                        THEN route.selected ELSE c.preferred
    BY DEF A!Decisive
  <1>6. route # A!NoRoute => route.selected \in Adapters /\ route.selected # NoAdapter
    BY DEF A!TypeOK, A!Route, A!AdapterTypes
  <1>7. a \in Adapters /\ (c.pinned # NoAdapter => a = c.pinned)
    <2> HIDE DEF decisive
    <2> QED
      BY <1>3, <1>4, <1>5, <1>6
  <1>8. route' \in A!Route
    BY <1>2, <1>3, <1>7 DEF A!Route
  <1>9. A!SelectionStep
    <2> HIDE DEF decisive
    <2> QED
      BY <1>1, <1>2, <1>4, <1>5, <1>6, <1>7 DEF A!SelectionStep
  <1>10. QED
    BY <1>1, <1>2, <1>3, <1>7, <1>8, <1>9 DEF A!TypeOK

\* The route that an event carries, and what the executor has found, decide
\* what it may do next.
EventFits(e) ==
    LET v == event[e]
    IN  /\ v.at # "none" => v.route \in A!Route /\ v.route.pinned \in {NoAdapter, v.route.selected}
        /\ v.at \in {"none", "queued", "refreshed", "rejected"} => v.adapter = NoAdapter
        /\ v.adapter # NoAdapter => v.adapter = v.route.selected
        /\ v.at = "refreshed" /\ v.ok => v.dirSeen
        /\ v.at \in {"resuming", "prompting", "succeeded", "failed"} => v.ok /\ v.dirSeen

AdapterInv ==
    /\ A!AdapterTypes /\ A!TypeOK
    /\ route # A!NoRoute => route.pinned \in {NoAdapter, route.selected}
    /\ \A e \in Events : EventFits(e)

LEMMA AdapterInit == A!AdapterTypes /\ A!Init => AdapterInv
  <1> SUFFICES ASSUME A!AdapterTypes, A!Init PROVE AdapterInv
    OBVIOUS
  <1>1. \A e \in Events : EventFits(e)
    BY DEF A!Init, EventFits, A!NoEvent
  <1>2. QED
    BY <1>1, AdapterTypeInit DEF AdapterInv, A!Init

LEMMA AdapterNext ==
    AdapterInv /\ [A!Next]_(A!vars) => AdapterInv' /\ [A!SelectionStep]_(A!vars)
  <1> SUFFICES ASSUME AdapterInv, [A!Next]_(A!vars)
               PROVE  AdapterInv' /\ [A!SelectionStep]_(A!vars)
    OBVIOUS
  <1> USE AdapterConstants DEF AdapterInv, EventFits
  <1>1. CASE A!Upsert
    <2>1. event' = event
      BY <1>1 DEF A!Upsert
    <2>2. QED
      BY <1>1, <2>1, UpsertSelects
  <1>2. ASSUME NEW e \in Events, A!Event(e)
        PROVE  /\ UNCHANGED <<route, upsert, binaries, isDir>>
               /\ AdapterInv'
    <2>1. /\ UNCHANGED <<route, upsert, binaries, isDir>>
          /\ \A d \in Events : d # e => event'[d] = event[d]
      BY <1>2 DEF A!Event, A!Admit, A!StartEvent, A!StartDispatch, A!StartRejected, A!Dispatch, A!TypeOK
    <2>2. A!TypeOK' /\ EventFits(e)'
      <3>1. CASE A!Admit(e)
        <4>1. /\ event[e].at = "none" /\ route \in A!Route /\ isDir \in BOOLEAN
              /\ event' = [event EXCEPT ![e].at = "queued", ![e].route = route, ![e].ok = isDir]
          BY <3>1 DEF A!Admit, A!TypeOK
        <4>2. A!TypeOK'
          <5>1. [event[e] EXCEPT !.at = "queued", !.route = route, !.ok = isDir] \in EventRecord
            BY <4>1, EventType DEF EventRecord, A!Positions
          <5>2. event' \in [Events -> EventRecord]
            BY <4>1, <5>1, EventType
          <5>3. QED
            BY <2>1, <5>2, EventsMove DEF A!TypeOK
        <4>3. /\ event'[e].at = "queued" /\ event'[e].route = route
              /\ event'[e].adapter = event[e].adapter
          BY <4>1 DEF A!TypeOK
        <4>4. QED
          BY <3>1, <4>1, <4>2, <4>3 DEF A!Admit
      <3>2. CASE A!StartEvent(e)
        BY <3>2 DEF A!StartEvent, A!Refreshed, A!TypeOK, A!Positions
      <3>3. CASE A!StartDispatch(e)
        <4>1. PICK a \in A!Determined(event[e].route, event[e].ok) :
                  event' = [event EXCEPT ![e].at = "resuming", ![e].adapter = a]
          BY <3>3 DEF A!StartDispatch
        <4>2. event[e].at = "refreshed" /\ event[e].route \in A!Route
          BY <3>3 DEF A!StartDispatch
        <4>3. a \in Adapters /\ event[e].ok /\ a = event[e].route.selected
          BY <4>2, DeterminedIs
        <4>4. A!TypeOK'
          <5>1. [event[e] EXCEPT !.at = "resuming", !.adapter = a] \in EventRecord
            BY <4>3, EventType DEF EventRecord, A!Positions
          <5>2. event' \in [Events -> EventRecord]
            BY <4>1, <5>1, EventType
          <5>3. QED
            BY <2>1, <5>2, EventsMove DEF A!TypeOK
        <4>5. /\ event'[e].at = "resuming" /\ event'[e].adapter = a
              /\ event'[e].route = event[e].route /\ event'[e].ok = event[e].ok
              /\ event'[e].dirSeen = event[e].dirSeen
          BY <4>1 DEF A!TypeOK
        <4>6. QED
          BY <4>2, <4>3, <4>4, <4>5
      <3>4. CASE A!StartRejected(e)
        BY <3>4 DEF A!StartRejected, A!TypeOK, A!Positions
      <3>5. CASE A!Dispatch(e)
        BY <3>5 DEF A!Dispatch, A!TypeOK, A!Positions
      <3>6. QED
        BY <1>2, <3>1, <3>2, <3>3, <3>4, <3>5 DEF A!Event
    <2>3. QED
      BY <2>1, <2>2
  <1>3. ASSUME A!Environment PROVE AdapterInv'
    <2>1. /\ UNCHANGED <<route, upsert>>
          /\ binaries' \in SUBSET Adapters /\ isDir' \in BOOLEAN
      BY <1>3 DEF A!Environment, A!TypeOK
    <2>2. CASE event' = event
      <3>1. event \in [Events -> EventRecord]
        BY DEF A!TypeOK, EventRecord
      <3>2. QED
        BY <2>1, <2>2, <3>1, EventsMove
    <2>3. CASE event' = [e \in Events |->
                 IF event[e].at = "refreshed" THEN [event[e] EXCEPT !.dirSeen = @ \/ isDir']
                 ELSE event[e]]
      <3>1. ASSUME NEW e \in Events
            PROVE  event'[e] \in EventRecord /\ EventFits(e)'
        <4>1. CASE event'[e] = event[e]
          BY <4>1, EventType
        <4>2. CASE event'[e] = [event[e] EXCEPT !.dirSeen = @ \/ isDir'] /\ event[e].at = "refreshed"
          <5>1. event'[e] \in EventRecord
            BY <2>1, <4>2, EventType DEF EventRecord
          <5>2. EventFits(e)'
            BY <4>2, EventType DEF EventRecord
          <5>3. QED
            BY <5>1, <5>2
        <4>3. QED
          BY <2>3, <4>1, <4>2
      <3>2. event' \in [Events -> EventRecord]
        BY <2>3, <3>1
      <3>3. QED
        BY <2>1, <3>1, <3>2, EventsMove
    <2>4. QED
      BY <1>3, <2>2, <2>3 DEF A!Environment
  <1>4. CASE UNCHANGED A!vars
    BY <1>4 DEF A!vars, A!TypeOK
  <1>5. A!SelectionStep \/ UNCHANGED A!vars
    BY <1>1, <1>2, <1>3, UpsertSelects DEF A!Next, A!Environment, A!SelectionStep
  <1>6. QED
    BY <1>1, <1>2, <1>3, <1>4, <1>5 DEF A!Next

\* Type correctness (UpsertRoute, selectAdapterLocked, startEvent).
THEOREM AdapterTypeCorrect == A!AdapterTypes /\ A!Spec => []A!TypeOK
  <1>1. AdapterInv => A!TypeOK
    BY DEF AdapterInv
  <1>2. QED
    BY <1>1, AdapterInit, AdapterNext, PTL DEF A!Spec

\* No failover, and nothing is executed in a workspace that was not found fit
\* (selectAdapterLocked, startEvent).
THEOREM EventsAreNotFailedOver == A!AdapterTypes /\ A!Spec => []EventsFailClosed
  <1>1. AdapterInv => EventsFailClosed
    BY DEF AdapterInv, EventFits, EventsFailClosed, A!EventsFailClosed, A!NoFailover, A!FailsClosed, A!TypeOK
  <1>2. QED
    BY <1>1, AdapterInit, AdapterNext, PTL DEF A!Spec

\* The selected adapter of a route moves only when the operator asks for it.
THEOREM SelectionsStick == A!AdapterTypes /\ A!Spec => SelectionSticks
  BY AdapterInit, AdapterNext, PTL DEF A!Spec, SelectionSticks, A!SelectionSticks

-----------------------------------------------------------------------------
(* RunLedger.  The text of an acknowledged record stays in a line of its day; *)
(* a file without damage has one record to a line.                           *)

\* A finite set of numbers has a largest one: of those that have none take one
\* with the least cardinality; it is no larger than the one that lacks some
\* element of it.
LEMMA FiniteSetHasLargest ==
    ASSUME NEW S \in SUBSET Nat, IsFiniteSet(S), S # {}
    PROVE  \E x \in S : \A y \in S : y <= x
  <1> DEFINE Least(U) == \E x \in U : \A y \in U : y <= x
             Bad == {n \in Nat : \E U \in SUBSET S : U # {} /\ ~Least(U) /\ Cardinality(U) = n}
  <1> SUFFICES ASSUME ~Least(S) PROVE FALSE
    OBVIOUS
  <1>1. Cardinality(S) \in Bad
    BY FS_CardinalityType
  <1>2. PICK n \in Bad : \A m \in Bad : n <= m
    <2> DEFINE less == OpToRel(<, Nat)
    <2>1. IsWellFoundedOn(less, Nat)
      BY NatLessThanWellFounded
    <2>2. \A x, y \in Nat : <<x, y>> \in less <=> x < y
      BY DEF OpToRel
    <2> HIDE DEF less, Bad
    <2>3. Bad \in SUBSET Nat
      BY DEF Bad
    <2>4. PICK n \in Bad : \A m \in Bad : ~ (<<m, n>> \in less)
      BY <1>1, <2>1, <2>3, WFMin
    <2>5. ASSUME NEW m \in Bad PROVE n <= m
      <3>1. m \in Nat /\ n \in Nat /\ ~ (<<m, n>> \in less)
        BY <2>3, <2>4
      <3>2. ~ (m < n)
        BY <2>2, <3>1
      <3>3. QED
        BY <3>1, <3>2
    <2>6. QED
      BY <2>5
  <1>3. PICK U \in SUBSET S : U # {} /\ ~Least(U) /\ Cardinality(U) = n
    BY <1>2
  <1>4. PICK x \in U : TRUE
    BY <1>3
  <1>5. IsFiniteSet(U)
    BY FS_Subset
  <1>6. Cardinality(U \ {x}) = n - 1 /\ n \in Nat
    BY <1>3, <1>4, <1>5, FS_RemoveElement
  <1>7. IsFiniteSet(U \ {x})
    BY <1>5, FS_RemoveElement
  <1>8. n - 1 \in Nat
    BY <1>6, <1>7, FS_CardinalityType
  <1>9. n - 1 \notin Bad
    BY <1>2, <1>6, <1>8
  <1>10. U \ {x} = {} \/ Least(U \ {x})
    BY <1>6, <1>8, <1>9
  <1>11. CASE U \ {x} = {}
    <2>1. U = {x} /\ x \in Nat
      BY <1>4, <1>11
    <2>2. QED
      BY <1>3, <2>1
  <1>12. CASE Least(U \ {x})
    <2>1. PICK z \in U \ {x} : \A y \in U \ {x} : y <= z
      BY <1>12
    <2>2. x \in Nat /\ z \in Nat /\ \A y \in U : y \in Nat
      BY <1>4, <2>1
    <2>3. CASE x <= z
      <3>1. \A y \in U : y <= z
        BY <2>1, <2>2, <2>3
      <3>2. QED
        BY <1>3, <2>1, <3>1
    <2>4. CASE z < x
      <3>1. \A y \in U : y <= x
        BY <2>1, <2>2, <2>4
      <3>2. QED
        BY <1>3, <1>4, <3>1
    <2>5. QED
      BY <2>2, <2>3, <2>4
  <1>13. QED
    BY <1>10, <1>11, <1>12

LEMMA LedgerConstants ==
    L!LedgerTypes' = L!LedgerTypes /\ L!Days' = L!Days /\ L!Line' = L!Line
  BY DEF L!LedgerTypes, L!Days, L!Line

\* An instance has its own copy of the operators of FiniteSets.
LEMMA LedgerSets ==
    \A S : L!IsFiniteSet(S) = IsFiniteSet(S) /\ L!Cardinality(S) = Cardinality(S)
  BY DEF L!IsFiniteSet, IsFiniteSet, L!Cardinality, Cardinality

Call == [at : {"idle", "reading", "done", "failed"}, call : {"list", "inspect"},
         wanted : SUBSET Runs, todo : SUBSET L!Days, got : SUBSET Runs,
         result : SUBSET Runs, atStart : SUBSET Runs]

LedgerType ==
    /\ runFile \in [L!Days -> Seq(L!Line)]
    /\ days \in SUBSET L!Days /\ damaged \in SUBSET L!Days
    /\ tried \in SUBSET Runs /\ appended \in SUBSET Runs
    /\ reader \in [Readers -> Call]

Recorded(r) == Day[r] \in days /\ \E i \in DOMAIN runFile[Day[r]] : r \in runFile[Day[r]][i].runs
Clean(line) == line.ended /\ ~line.fragment /\ \E r \in Runs : line.runs = {r}

LinesEnded(lines) == \A i \in 1 .. Len(lines) - 1 : lines[i].ended

LedgerInv ==
    /\ L!LedgerTypes /\ LedgerType
    /\ \A d \in L!Days : LinesEnded(runFile[d])
    /\ \A r \in appended : Recorded(r)
    /\ \A d \in L!Days \ damaged : \A i \in DOMAIN runFile[d] : Clean(runFile[d][i])

\* What a call has still to find is in a file it has still to read; it answers
\* with all it has found, or with the newest.
Complete(c) ==
    \A r \in c.atStart \cap c.wanted :
        \/ r \in c.result
        \/ /\ c.call = "list" /\ Cardinality(c.result) = Limit
           /\ \A s \in c.result : FinishedAt[s] >= FinishedAt[r]

Explained(c) ==
    \E d \in damaged : \A r \in c.atStart : (c.call = "inspect" /\ c.wanted = {r}) => d >= Day[r]

CallFits(c) ==
    /\ c.at = "reading" =>
         /\ c.atStart \subseteq appended /\ c.got \subseteq c.wanted
         /\ \A r \in c.atStart \cap c.wanted : r \in c.got \/ Day[r] \in c.todo
         /\ c.call = "inspect" => /\ \E r \in Runs : c.wanted = {r}
                                  /\ c.got # {} => c.todo = {}
    /\ c.at = "done" => Complete(c)
    /\ c.at = "failed" => Explained(c)

CallsFit == \A q \in Readers : CallFits(reader[q])

LEMMA LedgerInit == L!LedgerTypes /\ L!Init => LedgerInv /\ CallsFit
  <1> SUFFICES ASSUME L!LedgerTypes, L!Init PROVE LedgerInv /\ CallsFit
    OBVIOUS
  <1> USE DEF L!Init
  <1>1. L!NoReader \in Call /\ L!NoReader.at = "idle"
    BY DEF L!NoReader, Call
  <1>2. <<>> \in Seq(L!Line) /\ DOMAIN <<>> = {} /\ Len(<<>>) = 0
    OBVIOUS
  <1>3. LedgerType
    BY <1>1, <1>2 DEF LedgerType
  <1>4. LedgerInv
    BY <1>2, <1>3 DEF LedgerInv, LinesEnded
  <1>5. CallsFit
    BY <1>1 DEF CallsFit, CallFits
  <1>6. QED
    BY <1>4, <1>5

\* Bytes that are written leave all lines but perhaps the last as they were,
\* and the text of that one stays.
LEMMA WrittenKeeps ==
    ASSUME NEW s \in Seq(L!Line), NEW b \in L!Line
    PROVE  /\ L!Written(s, b) \in Seq(L!Line)
           /\ LinesEnded(s) => LinesEnded(L!Written(s, b))
           /\ \A r : (r \in b.runs \/ \E i \in DOMAIN s : r \in s[i].runs)
                  => \E i \in DOMAIN L!Written(s, b) : r \in L!Written(s, b)[i].runs
           /\ (Clean(b) /\ \A i \in DOMAIN s : Clean(s[i]))
                  => \A i \in DOMAIN L!Written(s, b) : Clean(L!Written(s, b)[i])
  <1> DEFINE n == Len(s)
             w == L!Written(s, b)
  <1>1. n \in Nat /\ DOMAIN s = 1 .. n /\ \A i \in 1 .. n : s[i] \in L!Line
    OBVIOUS
  <1>2. CASE s # <<>> /\ ~s[n].ended
    <2> DEFINE line == [runs |-> s[n].runs \cup b.runs, fragment |-> s[n].fragment \/ b.fragment,
                        ended |-> b.ended]
               front == SubSeq(s, 1, n - 1)
    <2>1. w = Append(front, line)
      BY <1>2 DEF L!Written, L!Last, L!Front
    <2>2. n \in Nat \ {0}
      BY <1>2
    <2>3. s[n] \in L!Line
      BY <1>1, <2>2
    <2>4. line \in L!Line
      BY <2>3 DEF L!Line
    <2>5. front \in Seq(L!Line) /\ Len(front) = n - 1 /\ \A i \in 1 .. n - 1 : front[i] = s[i]
      BY <2>2
    <2>6. /\ w \in Seq(L!Line) /\ DOMAIN w = 1 .. n /\ Len(w) = n /\ w[n] = line
          /\ \A i \in 1 .. n - 1 : w[i] = s[i]
      <3> HIDE DEF front, line, w
      <3>1. w \in Seq(L!Line) /\ Len(w) = n /\ DOMAIN w = 1 .. Len(w)
        BY <2>1, <2>2, <2>4, <2>5
      <3>2. w[n] = line /\ \A i \in 1 .. n - 1 : w[i] = front[i]
        BY <2>1, <2>2, <2>4, <2>5
      <3>3. QED
        BY <2>5, <3>1, <3>2
    <2> HIDE DEF w
    <2>7. ASSUME NEW r, r \in b.runs \/ \E i \in DOMAIN s : r \in s[i].runs
          PROVE  \E i \in DOMAIN w : r \in w[i].runs
      <3>1. CASE r \in b.runs
        BY <2>2, <2>6, <3>1
      <3>2. ASSUME NEW i \in 1 .. n, r \in s[i].runs PROVE \E j \in DOMAIN w : r \in w[j].runs
        <4>1. CASE i = n
          BY <2>2, <2>6, <3>2, <4>1
        <4>2. CASE i # n
          <5>1. i \in 1 .. n - 1
            BY <2>2, <4>2
          <5>2. w[i] = s[i]
            BY <2>6, <5>1
          <5>3. i \in DOMAIN w
            BY <2>6
          <5>4. QED
            BY <3>2, <5>2, <5>3
        <4>3. QED
          BY <4>1, <4>2
      <3>3. QED
        BY <1>1, <2>7, <3>1, <3>2
    <2>8. ~(\A i \in DOMAIN s : Clean(s[i]))
      BY <1>1, <1>2, <2>2 DEF Clean
    <2>9. LinesEnded(s) => LinesEnded(w)
      BY <2>6 DEF LinesEnded
    <2>10. QED
      BY <2>6, <2>7, <2>8, <2>9 DEF w
  <1>3. CASE ~(s # <<>> /\ ~s[n].ended)
    <2>1. w = Append(s, b)
      BY <1>3 DEF L!Written, L!Last
    <2> HIDE DEF w
    <2>2. w \in Seq(L!Line) /\ DOMAIN w = 1 .. n + 1 /\ Len(w) = n + 1 /\ w[n + 1] = b
          /\ \A i \in 1 .. n : w[i] = s[i]
      BY <2>1
    <2>3. n # 0 => s[n].ended
      BY <1>3
    <2>4. LinesEnded(s) => LinesEnded(w)
      BY <1>1, <2>2, <2>3 DEF LinesEnded
    <2>5. QED
      BY <1>1, <2>2, <2>4 DEF w
  <1>4. QED
    BY <1>2, <1>3

\* A write adds its record, or leaves damage; earlier records stay.
LEMMA WriteKeeps ==
    ASSUME LedgerInv, NEW r \in Runs, NEW b \in L!Line, L!Write(r, b)
    PROVE  /\ runFile' \in [L!Days -> Seq(L!Line)] /\ days' \in SUBSET L!Days
           /\ tried' \in SUBSET Runs
           /\ \A d \in L!Days : LinesEnded(runFile'[d])
           /\ \A x \in appended : Recorded(x)'
           /\ b.runs = {r} => Recorded(r)'
           /\ \A d \in L!Days \ damaged : (d # Day[r] \/ Clean(b)) =>
                  \A i \in DOMAIN runFile'[d] : Clean(runFile'[d][i])
  <1>1. Day[r] \in L!Days
    BY DEF L!Days
  <1>2. runFile \in [L!Days -> Seq(L!Line)] /\ runFile[Day[r]] \in Seq(L!Line)
    BY <1>1 DEF LedgerInv, LedgerType
  <1> DEFINE w == L!Written(runFile[Day[r]], b)
  <1>3. /\ runFile' = [runFile EXCEPT ![Day[r]] = w]
        /\ days' = days \cup {Day[r]} /\ tried' = tried \cup {r}
    BY DEF L!Write
  <1>4. /\ w \in Seq(L!Line) /\ LinesEnded(w)
        /\ \A x : (x \in b.runs \/ \E i \in DOMAIN runFile[Day[r]] : x \in runFile[Day[r]][i].runs)
                  => \E i \in DOMAIN w : x \in w[i].runs
        /\ (Clean(b) /\ \A i \in DOMAIN runFile[Day[r]] : Clean(runFile[Day[r]][i]))
                  => \A i \in DOMAIN w : Clean(w[i])
    BY <1>1, <1>2, WrittenKeeps DEF LedgerInv
  <1> HIDE DEF w
  <1>5. /\ runFile' \in [L!Days -> Seq(L!Line)] /\ runFile'[Day[r]] = w
        /\ \A d \in L!Days : d # Day[r] => runFile'[d] = runFile[d]
    BY <1>1, <1>2, <1>3, <1>4
  <1>6. ASSUME NEW x \in appended PROVE Recorded(x)'
    <2>1. Recorded(x) /\ Day[x] \in L!Days
      BY DEF LedgerInv, LedgerType, L!Days
    <2>2. CASE Day[x] = Day[r]
      BY <1>3, <1>4, <1>5, <2>1, <2>2 DEF Recorded
    <2>3. CASE Day[x] # Day[r]
      BY <1>3, <1>5, <2>1, <2>3 DEF Recorded
    <2>4. QED
      BY <2>2, <2>3
  <1>7. b.runs = {r} => Recorded(r)'
    BY <1>3, <1>4, <1>5 DEF Recorded
  <1>8. ASSUME NEW d \in L!Days \ damaged, d # Day[r] \/ Clean(b)
        PROVE  \A i \in DOMAIN runFile'[d] : Clean(runFile'[d][i])
    <2>1. \A i \in DOMAIN runFile[d] : Clean(runFile[d][i])
      BY DEF LedgerInv
    <2>2. CASE d = Day[r]
      BY <1>4, <1>5, <1>8, <2>1, <2>2
    <2>3. CASE d # Day[r]
      BY <1>5, <2>1, <2>3
    <2>4. QED
      BY <2>2, <2>3
  <1>9. \A d \in L!Days : LinesEnded(runFile'[d])
    BY <1>4, <1>5 DEF LedgerInv
  <1>10. QED
    BY <1>1, <1>3, <1>5, <1>6, <1>7, <1>8, <1>9 DEF LedgerInv, LedgerType

LEMMA DamageIsSeen ==
    ASSUME LedgerInv, NEW d \in L!Days, ~L!Decodes(runFile[d])
    PROVE  d \in damaged
  <1> SUFFICES ASSUME d \notin damaged PROVE FALSE
    OBVIOUS
  <1>1. PICK i \in DOMAIN runFile[d] : runFile[d][i].fragment \/ Cardinality(runFile[d][i].runs) # 1
    BY LedgerSets DEF L!Decodes
  <1>2. Clean(runFile[d][i])
    BY DEF LedgerInv
  <1>3. QED
    BY <1>1, <1>2, FS_Singleton DEF Clean

LEMMA ReadGivesAll ==
    ASSUME LedgerInv, NEW r \in appended, L!Decodes(runFile[Day[r]])
    PROVE  r \in L!Records(runFile[Day[r]])
  BY DEF LedgerInv, Recorded, L!Decodes, L!Records

\* Files are read newest first.
LEMMA NextFileIsNewest ==
    ASSUME L!LedgerTypes, NEW T \in SUBSET L!Days, T # {}
    PROVE  L!NextFile(T) \in T /\ \A e \in T : L!NextFile(T) >= e
  <1>1. Day \in Surjection(Runs, L!Days)
    BY DEF L!LedgerTypes, L!Days, Surjection
  <1>2. IsFiniteSet(L!Days)
    BY <1>1, LedgerSets, FS_Surjection DEF L!LedgerTypes
  <1>3. T \in SUBSET Nat
    BY DEF L!LedgerTypes, L!Days
  <1>4. IsFiniteSet(T)
    BY <1>2, FS_Subset
  <1>5. PICK d \in T : \A e \in T : e <= d
    BY <1>3, <1>4, FiniteSetHasLargest
  <1>6. \E x \in T : \A e \in T : x >= e
    BY <1>3, <1>5
  <1>7. QED
    BY <1>6 DEF L!NextFile

LEMMA StartFits ==
    ASSUME LedgerInv, CallsFit, NEW q \in Readers, L!Start(q)
    PROVE  LedgerInv' /\ CallsFit'
  <1>1. PICK kind \in {"list", "inspect"} :
          \E wanted \in IF kind = "list" THEN {Runs, OfRoute} ELSE {{r} : r \in Runs} :
            reader' = [reader EXCEPT ![q] =
               [at |-> "reading", call |-> kind, wanted |-> wanted, todo |-> days,
                got |-> {}, result |-> {}, atStart |-> appended]]
    BY DEF L!Start
  <1>2. PICK wanted \in IF kind = "list" THEN {Runs, OfRoute} ELSE {{r} : r \in Runs} :
            reader' = [reader EXCEPT ![q] =
               [at |-> "reading", call |-> kind, wanted |-> wanted, todo |-> days,
                got |-> {}, result |-> {}, atStart |-> appended]]
    BY <1>1
  <1> DEFINE c == [at |-> "reading", call |-> kind, wanted |-> wanted, todo |-> days,
                   got |-> {}, result |-> {}, atStart |-> appended]
  <1>3. UNCHANGED <<runFile, days, tried, appended, damaged>>
    BY DEF L!Start
  <1>4. wanted \in SUBSET Runs /\ (kind = "inspect" => \E r \in Runs : wanted = {r})
    BY <1>2 DEF LedgerInv, L!LedgerTypes
  <1>5. c \in Call
    BY <1>4 DEF Call, LedgerInv, LedgerType
  <1>6. reader' = [reader EXCEPT ![q] = c]
    BY <1>2
  <1>7. /\ c.at = "reading" /\ c.atStart = appended /\ c.got = {} /\ c.todo = days
        /\ c.call = kind /\ c.wanted = wanted
    OBVIOUS
  <1> HIDE DEF c
  <1>8. LedgerType' /\ LedgerInv'
    BY <1>3, <1>5, <1>6, LedgerConstants DEF LedgerInv, LedgerType, LinesEnded, Recorded, Clean
  <1>9. ASSUME NEW p \in Readers PROVE CallFits(reader[p])'
    <2>1. CASE p # q
      <3>1. reader'[p] = reader[p] /\ CallFits(reader[p])
        BY <1>6, <2>1 DEF LedgerInv, LedgerType, CallsFit
      <3>2. QED
        BY <1>3, <3>1 DEF CallFits, Complete, Explained
    <2>2. CASE p = q
      <3>1. reader'[p] = c
        BY <1>6, <2>2 DEF LedgerInv, LedgerType
      <3>2. \A r \in appended : Day[r] \in days
        BY DEF LedgerInv, Recorded
      <3>3. QED
        BY <1>3, <1>4, <1>7, <3>1, <3>2 DEF CallFits
    <2>3. QED
      BY <2>1, <2>2
  <1>10. QED
    BY <1>8, <1>9 DEF CallsFit

LEMMA ReadFits ==
    ASSUME LedgerInv, CallsFit, NEW q \in Readers, L!ReadFile(q)
    PROVE  LedgerInv' /\ CallsFit'
  <1> DEFINE c   == reader[q]
             d   == L!NextFile(c.todo)
             got == c.got \cup (L!Records(runFile[d]) \cap c.wanted)
             new == IF L!Decodes(runFile[d])
                    THEN [c EXCEPT !.got = got,
                                   !.todo = IF c.call = "inspect" /\ got # {} THEN {} ELSE c.todo \ {d}]
                    ELSE [c EXCEPT !.at = "failed"]
  <1>1. /\ c \in Call /\ c.at = "reading" /\ c.todo # {} /\ CallFits(c)
        /\ reader' = [reader EXCEPT ![q] = new]
        /\ UNCHANGED <<runFile, days, tried, appended, damaged>>
    <2>1. c \in Call /\ CallFits(c)
      BY DEF LedgerInv, LedgerType, CallsFit
    <2>2. /\ c.at = "reading" /\ c.todo # {}
          /\ UNCHANGED <<runFile, days, tried, appended, damaged>>
      BY DEF L!ReadFile
    <2>3. reader' = [reader EXCEPT ![q] = new]
      BY DEF L!ReadFile
    <2>4. QED
      BY <2>1, <2>2, <2>3
  <1>2. c.todo \in SUBSET L!Days
    BY <1>1 DEF Call
  <1>3. d \in c.todo /\ d \in L!Days /\ \A e \in c.todo : d >= e
    BY <1>1, <1>2, NextFileIsNewest DEF LedgerInv
  <1>4. got \in SUBSET Runs /\ got \subseteq c.wanted
    BY <1>1 DEF Call, CallFits
  <1> HIDE DEF got, d, c
  <1>5. new \in Call
    <2>1. [c EXCEPT !.at = "failed"] \in Call
      BY <1>1 DEF Call
    <2>2. (IF c.call = "inspect" /\ got # {} THEN {} ELSE c.todo \ {d}) \in SUBSET L!Days
      BY <1>2
    <2>3. \A t \in SUBSET L!Days : [c EXCEPT !.got = got, !.todo = t] \in Call
      BY <1>1, <1>4 DEF Call
    <2>4. QED
      BY <2>1, <2>2, <2>3
  <1>6. CallFits(new)
    <2>1. CASE ~L!Decodes(runFile[d])
      <3>1. d \in damaged
        BY <1>3, <2>1, DamageIsSeen
      <3>2. /\ new.at = "failed" /\ new.atStart = c.atStart /\ new.call = c.call
            /\ new.wanted = c.wanted
        BY <1>1, <2>1 DEF Call
      <3>3. ASSUME NEW r \in c.atStart, c.call = "inspect", c.wanted = {r} PROVE d >= Day[r]
        BY <1>1, <1>3, <3>3 DEF CallFits
      <3>4. Explained(new)
        BY <3>1, <3>2, <3>3 DEF Explained
      <3>5. QED
        BY <3>2, <3>4 DEF CallFits
    <2>2. CASE L!Decodes(runFile[d])
      <3> DEFINE t == IF c.call = "inspect" /\ got # {} THEN {} ELSE c.todo \ {d}
      <3>1. /\ new.at = "reading" /\ new.atStart = c.atStart /\ new.call = c.call
            /\ new.wanted = c.wanted /\ new.got = got /\ new.todo = t
        BY <1>1, <2>2 DEF Call
      <3>2. ASSUME NEW r \in c.atStart \cap c.wanted PROVE r \in got \/ Day[r] \in t
        <4>1. r \in appended /\ (r \in c.got \/ Day[r] \in c.todo)
          BY <1>1 DEF CallFits
        <4>2. Day[r] = d => r \in got
          BY <2>2, <4>1, ReadGivesAll DEF got
        <4>3. c.got \subseteq got
          BY DEF got
        <4>4. CASE c.call = "inspect" /\ got # {}
          <5>1. PICK x \in Runs : c.wanted = {x}
            BY <1>1, <4>4 DEF CallFits
          <5>2. QED
            BY <1>4, <4>4, <5>1
        <4>5. CASE ~(c.call = "inspect" /\ got # {})
          BY <4>1, <4>2, <4>3, <4>5
        <4>6. QED
          BY <4>4, <4>5
      <3>3. c.atStart \subseteq appended /\ (c.call = "inspect" => \E r \in Runs : c.wanted = {r})
        BY <1>1 DEF CallFits
      <3>4. c.call = "inspect" /\ got # {} => t = {}
        OBVIOUS
      <3> HIDE DEF t, new
      <3>5. QED
        BY <1>4, <3>1, <3>2, <3>3, <3>4 DEF CallFits
    <2>3. QED
      BY <2>1, <2>2
  <1> HIDE DEF new
  <1>7. LedgerType' /\ LedgerInv'
    BY <1>1, <1>5, LedgerConstants DEF LedgerInv, LedgerType, LinesEnded, Recorded, Clean
  <1>8. ASSUME NEW p \in Readers PROVE CallFits(reader[p])'
    <2>1. reader'[p] = (IF p = q THEN new ELSE reader[p])
      BY <1>1 DEF LedgerInv, LedgerType
    <2>2. CallFits(reader[p])
      BY DEF CallsFit
    <2>3. QED
      BY <1>1, <1>6, <2>1, <2>2 DEF CallFits, Complete, Explained
  <1>9. QED
    BY <1>7, <1>8 DEF CallsFit

LEMMA AnswerFits ==
    ASSUME LedgerInv, CallsFit, NEW q \in Readers, L!Answer(q)
    PROVE  LedgerInv' /\ CallsFit'
  <1> DEFINE c == reader[q]
  <1>1. PICK s \in IF c.call = "list" THEN L!Newest(c.got) ELSE {c.got} :
            reader' = [reader EXCEPT ![q].at = "done", ![q].result = s]
    BY DEF L!Answer
  <1> DEFINE new == [c EXCEPT !.at = "done", !.result = s]
  <1>2. /\ c \in Call /\ c.at = "reading" /\ c.todo = {} /\ CallFits(c)
        /\ reader' = [reader EXCEPT ![q] = new]
        /\ UNCHANGED <<runFile, days, tried, appended, damaged>>
    BY <1>1 DEF L!Answer, LedgerInv, LedgerType, CallsFit
  <1>3. s \in SUBSET c.got /\ c.got \in SUBSET Runs
    BY <1>1, <1>2 DEF L!Newest, Call
  <1>4. c.atStart \cap c.wanted \subseteq c.got
    BY <1>2 DEF CallFits
  <1> HIDE DEF c
  <1>5. new \in Call
    BY <1>2, <1>3 DEF Call
  <1>6. /\ new.at = "done" /\ new.atStart = c.atStart /\ new.call = c.call
        /\ new.wanted = c.wanted /\ new.result = s
    BY <1>2 DEF Call
  <1> HIDE DEF new
  <1>7. Complete(new)
    <2>1. CASE c.call # "list"
      BY <1>1, <1>4, <1>6, <2>1 DEF Complete
    <2>2. CASE c.call = "list"
      <3>1. /\ Cardinality(s) = (IF Cardinality(c.got) > Limit THEN Limit ELSE Cardinality(c.got))
            /\ \A r \in s, x \in c.got \ s : FinishedAt[r] >= FinishedAt[x]
        BY <1>1, <2>2, LedgerSets DEF L!Newest
      <3>2. IsFiniteSet(c.got)
        BY <1>3, LedgerSets, FS_Subset DEF LedgerInv, L!LedgerTypes
      <3>3. CASE Cardinality(c.got) > Limit
        BY <1>4, <1>6, <2>2, <3>1, <3>3 DEF Complete
      <3>4. CASE ~(Cardinality(c.got) > Limit)
        <4>1. s = c.got
          BY <1>3, <3>1, <3>2, <3>4, FS_Subset
        <4>2. QED
          BY <1>4, <1>6, <4>1 DEF Complete
      <3>5. QED
        BY <3>3, <3>4
    <2>3. QED
      BY <2>1, <2>2
  <1>8. CallFits(new)
    BY <1>6, <1>7 DEF CallFits
  <1>9. LedgerType' /\ LedgerInv'
    <2>1. LedgerType'
      <3>1. reader' \in [Readers -> Call]
        BY <1>2, <1>5 DEF LedgerInv, LedgerType
      <3>2. QED
        BY <1>2, <3>1, LedgerConstants DEF LedgerInv, LedgerType
    <2>2. QED
      BY <1>2, <2>1, LedgerConstants DEF LedgerInv, LedgerType, LinesEnded, Recorded, Clean
  <1>10. ASSUME NEW p \in Readers PROVE CallFits(reader[p])'
    <2>1. reader'[p] = (IF p = q THEN new ELSE reader[p])
      BY <1>2 DEF LedgerInv, LedgerType
    <2>2. CallFits(reader[p])
      BY DEF CallsFit
    <2>3. QED
      BY <1>2, <1>8, <2>1, <2>2 DEF CallFits, Complete, Explained
  <1>11. QED
    BY <1>9, <1>10 DEF CallsFit

LEMMA AppendFits ==
    ASSUME LedgerInv, CallsFit, NEW r \in Runs, L!AppendRun(r)
    PROVE  LedgerInv' /\ CallsFit'
  <1> DEFINE b == L!Whole(r)
  <1>1. b \in L!Line /\ b.runs = {r} /\ Clean(b)
    BY DEF L!Whole, L!Line, Clean
  <1>2. /\ L!Write(r, b) /\ appended' = appended \cup {r}
        /\ UNCHANGED <<damaged, reader>>
    BY DEF L!AppendRun
  <1> HIDE DEF b
  <1>3. /\ runFile' \in [L!Days -> Seq(L!Line)] /\ days' \in SUBSET L!Days
        /\ tried' \in SUBSET Runs
        /\ \A d \in L!Days : LinesEnded(runFile'[d])
        /\ \A x \in appended : Recorded(x)'
        /\ Recorded(r)'
        /\ \A d \in L!Days \ damaged : \A i \in DOMAIN runFile'[d] : Clean(runFile'[d][i])
    BY <1>1, <1>2, WriteKeeps
  <1>4. LedgerType'
    BY <1>2, <1>3, LedgerConstants DEF LedgerInv, LedgerType
  <1>5. LedgerInv'
    BY <1>2, <1>3, <1>4, LedgerConstants DEF LedgerInv, LinesEnded, Clean
  <1>6. CallsFit'
    BY <1>2 DEF CallsFit, CallFits, Complete, Explained
  <1>7. QED
    BY <1>5, <1>6

LEMMA CutFits ==
    ASSUME LedgerInv, CallsFit, NEW r \in Runs, L!AppendCut(r)
    PROVE  LedgerInv' /\ CallsFit'
  <1>1. PICK b \in {L!Unended(r), L!Fragment} : L!Write(r, b)
    BY DEF L!AppendCut
  <1>2. b \in L!Line
    <2>1. L!Unended(r) \in L!Line
      BY DEF L!Unended, L!Line
    <2>2. L!Fragment \in L!Line
      BY DEF L!Fragment, L!Line
    <2>3. QED
      BY <2>1, <2>2
  <1>3. /\ damaged' = damaged \cup {Day[r]} /\ appended' = appended
        /\ reader' = reader \/ reader' = [q \in Readers |-> L!NoReader]
    BY DEF L!AppendCut
  <1>4. /\ runFile' \in [L!Days -> Seq(L!Line)] /\ days' \in SUBSET L!Days
        /\ tried' \in SUBSET Runs
        /\ \A d \in L!Days : LinesEnded(runFile'[d])
        /\ \A x \in appended : Recorded(x)'
        /\ \A d \in L!Days \ damaged : d # Day[r] =>
               \A i \in DOMAIN runFile'[d] : Clean(runFile'[d][i])
    BY <1>1, <1>2, WriteKeeps
  <1>5. Day[r] \in L!Days
    BY DEF L!Days
  <1>6. L!NoReader \in Call /\ L!NoReader.at = "idle"
    BY DEF L!NoReader, Call
  <1>7. LedgerType'
    BY <1>3, <1>4, <1>5, <1>6, LedgerConstants DEF LedgerInv, LedgerType
  <1>8. LedgerInv'
    BY <1>3, <1>4, <1>7, LedgerConstants DEF LedgerInv, LinesEnded, Clean
  <1>9. CallsFit'
    <2>1. CASE reader' = reader
      BY <1>3, <2>1 DEF CallsFit, CallFits, Complete, Explained
    <2>2. CASE reader' = [q \in Readers |-> L!NoReader]
      BY <1>6, <2>2 DEF CallsFit, CallFits
    <2>3. QED
      BY <1>3, <2>1, <2>2
  <1>10. QED
    BY <1>8, <1>9

LEMMA LedgerInvariance == L!LedgerTypes /\ L!Spec => [](LedgerInv /\ CallsFit)
  <1>1. LedgerInv /\ CallsFit /\ [L!Next]_(L!vars) => (LedgerInv /\ CallsFit)'
    <2> SUFFICES ASSUME LedgerInv, CallsFit, [L!Next]_(L!vars) PROVE LedgerInv' /\ CallsFit'
      OBVIOUS
    <2>1. CASE UNCHANGED L!vars
      BY <2>1, LedgerConstants DEF L!vars, LedgerInv, LedgerType, Recorded, Clean, CallsFit, CallFits,
         Complete, Explained
    <2>2. QED
      BY <2>1, AppendFits, CutFits, StartFits, ReadFits, AnswerFits DEF L!Next
  <1>2. QED
    BY <1>1, LedgerInit, PTL DEF L!Spec

\* The files are sequences of lines of which only the last may lack its end,
\* and every call has its type.
THEOREM LedgerTypeCorrect == L!LedgerTypes /\ L!Spec => []L!TypeOK
  <1>1. LedgerInv => L!TypeOK
    BY DEF LedgerInv, LedgerType, LinesEnded, Call, L!TypeOK
  <1>2. QED
    BY <1>1, LedgerInvariance, PTL

\* No answer leaves an acknowledged record out in silence, however torn lines
\* are continued, and a call fails only over a damaged file that it had to read
\* (AppendRun, ListRuns, InspectRun).
THEOREM QueriesAreComplete ==
    L!LedgerTypes /\ L!Spec => []AnswersAreComplete
  <1>1. CallsFit => AnswersAreComplete
    BY LedgerSets DEF CallsFit, CallFits, Complete, Explained, AnswersAreComplete, L!AnswersAreComplete, L!FailuresAreExplained
  <1>2. QED
    BY <1>1, LedgerInvariance, PTL
==============================================================================
