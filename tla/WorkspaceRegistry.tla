-------------------------- MODULE WorkspaceRegistry --------------------------
(* The workspaces epicsd knows and workspaces.json: registerWorkspace holds *)
(* the mutex from its lookup to its answer, refreshWorkspace lets it go     *)
(* while it looks at the disk and then stores the record it read before.    *)
(* A record is its path and its display name; what the assessment finds     *)
(* (health, times) decides nothing here.                                    *)
EXTENDS Naturals, FiniteSets

CONSTANTS
    Paths, Names,   \* what an operator registers
    Ids,            \* what GenerateID can draw: bounds the registrations
    Refreshers,     \* handlers, scheduler and executors that refresh
    None            \* no record, no id

Record == [path : Paths, name : Names]

ASSUME NoneTypes == None \notin Record /\ None \notin Ids

VARIABLES
    workspaces,     \* s.workspaces
    saved,          \* the items of workspaces.json
    present,        \* whether workspaces.json is there
    phase,          \* "down", "recovering" or "serving"
    toRecover,      \* ids that recoverState has yet to refresh
    refresh,        \* each refresher: its position, its id, the record it holds
    used,           \* ids drawn so far
    answered,       \* history: the id answered for a path
    named,          \* history: names a path may have: answered last, or refused since
    overtaken,      \* history: paths registered while a refresher held their record
    wiped           \* history: the daemon started without its file

table == <<workspaces, saved, present, used>>
process == <<phase, toRecover, refresh>>
history == <<answered, named, overtaken, wiped>>
vars == <<table, process, history>>

Empty == [i \in Ids |-> None]
Idle == [at |-> "idle", id |-> None, record |-> None]
NoRefresh == [f \in Refreshers |-> Idle]
Listed == {i \in Ids : workspaces[i] # None}

Init ==
    /\ workspaces = Empty /\ saved = Empty /\ present = TRUE
    /\ phase = "serving" /\ toRecover = {} /\ refresh = NoRefresh
    /\ used = {}
    /\ answered = [p \in Paths |-> None]
    /\ named = [p \in Paths |-> {}]
    /\ overtaken = {} /\ wiped = FALSE

-----------------------------------------------------------------------------
(* writeFileAtomically: the rename replaces the file, or fails and leaves  *)
(* it, or fails, and so does the second after the file was removed.        *)

\* Mutant: what the file holds already is not written again.
SaveDoneNewOnly ==
    /\ saved' = [i \in Ids |-> IF saved[i] # None THEN saved[i] ELSE workspaces'[i]]
    /\ present' = TRUE

SaveDone == saved' = workspaces' /\ present' = TRUE
SaveFails ==
    \/ UNCHANGED <<saved, present>>
    \/ saved' = Empty /\ present' = FALSE

\* The process ends: what it held in memory is gone.
Down ==
    /\ phase' = "down" /\ toRecover' = {}
    /\ workspaces' = Empty /\ refresh' = NoRefresh

-----------------------------------------------------------------------------
(* registerWorkspace *)

\* Mutant: the lookup goes to the file.
TargetInFile(p) ==
    LET known == {i \in Ids : saved[i] # None /\ saved[i].path = p}
    IN  IF known # {} THEN known ELSE Ids \ used

\* The record of this path, or a fresh id.
Target(p) ==
    LET known == {i \in Listed : workspaces[i].path = p}
    IN  IF known # {} THEN known ELSE Ids \ used

Held(i) == \E f \in Refreshers : refresh[f].at \in {"read", "assessed"} /\ refresh[f].id = i

With(p, n, i) == [workspaces EXCEPT ![i] = [path |-> p, name |-> n]]

Register(p, n) ==
    /\ phase = "serving"
    /\ \E i \in Target(p) :
         /\ workspaces' = With(p, n, i)
         /\ used' = used \cup {i}
         /\ answered' = [answered EXCEPT ![p] = i]
         /\ overtaken' = IF Held(i) THEN overtaken \cup {p} ELSE overtaken \ {p}
    /\ SaveDone
    /\ named' = [named EXCEPT ![p] = {n}]
    /\ UNCHANGED <<process, wiped>>

\* The save fails: the caller gets an error, the memory keeps the record.
RegisterFails(p, n) ==
    /\ phase = "serving"
    /\ \E i \in Target(p) :
         /\ workspaces' = With(p, n, i)
         /\ used' = used \cup {i}
         /\ overtaken' = IF Held(i) THEN overtaken \cup {p} ELSE overtaken
    /\ SaveFails
    /\ named' = [named EXCEPT ![p] = @ \cup {n}]
    /\ UNCHANGED <<process, answered, wiped>>

\* The process ends between the save and the answer.
RegisterCut(p, n) ==
    /\ phase = "serving"
    /\ \E i \in Target(p) : saved' = With(p, n, i) /\ used' = used \cup {i}
    /\ present' = TRUE
    /\ Down
    /\ named' = [named EXCEPT ![p] = @ \cup {n}]
    /\ UNCHANGED <<answered, overtaken, wiped>>

-----------------------------------------------------------------------------
(* refreshWorkspace *)

RefreshRead(f, i) ==
    /\ phase = "serving" /\ refresh[f] = Idle /\ i \in Listed
    /\ refresh' = [refresh EXCEPT ![f] = [at |-> "read", id |-> i, record |-> workspaces[i]]]
    /\ UNCHANGED <<table, phase, toRecover, history>>

\* assessWorkspace, without the mutex.
Assess(f) ==
    /\ refresh[f].at = "read"
    /\ refresh' = [refresh EXCEPT ![f].at = "assessed"]
    /\ UNCHANGED <<table, phase, toRecover, history>>

Stored(f) == [workspaces EXCEPT ![refresh[f].id] = refresh[f].record]

RefreshStore(f) ==
    /\ refresh[f].at = "assessed"
    /\ workspaces' = Stored(f)
    /\ refresh' = [refresh EXCEPT ![f].at = "stored"]
    /\ UNCHANGED <<saved, present, used, phase, toRecover, history>>

\* saveWorkspaces takes the mutex again.
RefreshSave(f) ==
    /\ refresh[f].at = "stored"
    /\ UNCHANGED workspaces
    /\ SaveDone \/ SaveFails
    /\ refresh' = [refresh EXCEPT ![f] = Idle]
    /\ UNCHANGED <<used, phase, toRecover, history>>

-----------------------------------------------------------------------------
(* The process *)

Crash ==
    /\ phase # "down"
    /\ Down
    /\ UNCHANGED <<saved, present, used, history>>

\* The process ends between the two renames of a save.
CrashInSave ==
    /\ phase # "down"
    /\ Down
    /\ saved' = Empty /\ present' = FALSE
    /\ UNCHANGED <<used, history>>

\* Ensure creates the file if it is missing, loadRecords reads it.
Restart ==
    /\ phase = "down"
    /\ present' = TRUE
    /\ workspaces' = saved
    /\ toRecover' = {i \in Ids : saved[i] # None}
    /\ phase' = "recovering"
    /\ wiped' = (wiped \/ ~present)
    /\ UNCHANGED <<saved, refresh, used, answered, named, overtaken>>

\* recoverState refreshes one workspace after another; nobody else runs yet.
\* A save that fails ends the start.
Recover(i) ==
    /\ phase = "recovering" /\ i \in toRecover
    /\ \/ /\ UNCHANGED <<workspaces, phase, refresh>>
          /\ SaveDone
          /\ toRecover' = toRecover \ {i}
       \/ Down /\ SaveFails
    /\ UNCHANGED <<used, history>>

Recovered ==
    /\ phase = "recovering" /\ toRecover = {}
    /\ phase' = "serving"
    /\ UNCHANGED <<table, toRecover, refresh, history>>

Registration == \E p \in Paths, n \in Names :
    Register(p, n) \/ RegisterFails(p, n) \/ RegisterCut(p, n)
Refreshing == \E f \in Refreshers :
    \/ \E i \in Ids : RefreshRead(f, i)
    \/ Assess(f) \/ RefreshStore(f) \/ RefreshSave(f)
Process == Crash \/ CrashInSave \/ Restart \/ Recovered \/ \E i \in Ids : Recover(i)

Next == Registration \/ Refreshing \/ Process

Spec == Init /\ [][Next]_vars

-----------------------------------------------------------------------------
(* Properties *)

Position == [at : {"idle", "read", "assessed", "stored"},
             id : Ids \cup {None}, record : Record \cup {None}]

TypeOK ==
    /\ workspaces \in [Ids -> Record \cup {None}]
    /\ saved \in [Ids -> Record \cup {None}]
    /\ present \in BOOLEAN
    /\ phase \in {"down", "recovering", "serving"}
    /\ toRecover \in SUBSET Ids
    /\ refresh \in [Refreshers -> Position]
    /\ used \in SUBSET Ids
    /\ answered \in [Paths -> Ids \cup {None}]
    /\ named \in [Paths -> SUBSET Names]
    /\ overtaken \in SUBSET Paths
    /\ wiped \in BOOLEAN

OneEach(t) == \A i, j \in Ids :
    (t[i] # None /\ t[j] # None /\ t[i].path = t[j].path) => i = j

\* A path never has two workspaces, in memory or in the file, however
\* registrations, refreshes, failing saves and restarts follow each other:
\* routes and their caps are counted per workspace id (registerWorkspace,
\* refreshWorkspace, recoverState).
OneRecordPerPath == OneEach(workspaces) /\ OneEach(saved)

\* The id a registration answered stays the id of its path, in memory and on
\* disk, across refreshes and restarts, unless a save was cut short between
\* removing the file and renaming the new one. Routes are bound to that id.
AnsweredKept ==
    \A p \in Paths : (answered[p] # None /\ ~wiped) =>
        /\ phase # "down" => workspaces[answered[p]] # None /\ workspaces[answered[p]].path = p
        /\ present => saved[answered[p]] # None /\ saved[answered[p]].path = p

\* A workspace has the name it was last registered with, in memory and on
\* disk, or one whose registration was refused since, unless it was registered
\* while a refresh held the record it had read before: that refresh restores
\* the old name, and the answered one is lost (refreshWorkspace).
NameKept ==
    \A p \in Paths \ overtaken : \A i \in Ids :
        /\ (workspaces[i] # None /\ workspaces[i].path = p) => workspaces[i].name \in named[p]
        /\ (saved[i] # None /\ saved[i].path = p) => saved[i].name \in named[p]

\* What a registration answered stands: its id, and its name.
AnswersStand == AnsweredKept /\ NameKept
=============================================================================
