---------------------------- MODULE EpicDirectory ----------------------------
(***************************************************************************)
(* The plans and the logs of an Epic, which every command finds by listing *)
(* directories: Create, List and Current of internal/plan/plan.go, Build   *)
(* of internal/resume/resume.go, CreateAt and Recent of internal/logutil,  *)
(* and the layout by which internal/epic/epic.go says where they are.      *)
(*                                                                         *)
(* No command takes a lock here.  A plan file is its layout, the number    *)
(* its name begins with and in how many digits that is written, the rest   *)
(* of the name (a slug, by its rank in the order of names) and whether it  *)
(* ends in .md.  The code pads numbers to three decimal digits; the author *)
(* may not, and a name of his without a number, in no digits, begins with  *)
(* a letter.  A log is its day and the rest of its name; the logs are      *)
(* those of one layout.                                                    *)
(***************************************************************************)
EXTENDS Naturals, Sequences, FiniteSets, FiniteSetsExt

CONSTANTS
    Creators,   \* processes that run `epics plan create`
    Slugs,      \* slugs of titles, ranked by the order of names from 1
    Base,       \* digits of a number: ten in the code
    Width,      \* digits a number is padded to: three in the code
    MaxNumber,  \* bound: numbers of plans that anybody makes
    ByHand,     \* bound: files that the author makes by hand
    Days        \* bound: days on which logs are made

VARIABLES
    runtime,    \* whether EPIC.md asks for the runtime layout
    plans,      \* the files in the plans directories of both layouts
    pc,         \* what each creator does next
    number,     \* the number it has computed
    path,       \* the file it is to make, then the one it has made
    after,      \* creators that had ended when it began
    disturbed,  \* whether the layout changed, or a created plan was removed
    logs,       \* for each name of a log: when it was last written, or 0
    clock,      \* when the last of them was written
    reordered   \* whether logs were written by hand, or not in the order of days
planVars == <<plans, pc, number, path, after, disturbed>>
logVars  == <<logs, clock, reordered>>
vars     == <<runtime, planVars, logVars>>

Files     == [runtime : BOOLEAN, no : 0..MaxNumber, digits : 0..(Width + MaxNumber),
              slug : Slugs, md : BOOLEAN]
NoFile    == [runtime |-> FALSE, no |-> 0, digits |-> 0, slug |-> 0, md |-> FALSE]
LogNames  == Days \X Slugs

-----------------------------------------------------------------------------
(* The order of names *)

Power[l \in Nat] == IF l = 0 THEN 1 ELSE Base * Power[l - 1]

\* %03d: as many digits as it takes, and no fewer than the width
Length(n)   == CHOOSE l \in Width..(Width + MaxNumber) :
                   /\ Power[l] > n
                   /\ l > Width => Power[l - 1] <= n
Digit(f, i) == (f.no \div Power[f.digits - i]) % Base
Numbered(f) == f.digits > 0

DirectoryTypes ==
    /\ MaxNumber \in Nat /\ Base \in Nat \ {0, 1} /\ Width \in Nat \ {0}
    /\ 0 \notin Slugs /\ Days \subseteq Nat
    /\ ByHand \subseteq Files
    /\ \A f \in ByHand : IF Numbered(f) THEN f.no < Power[f.digits] ELSE f.no = 0

\* Names are compared character by character, and '-' comes before any digit.
NumberBefore(f, g) ==
    \/ /\ f.digits < g.digits
       /\ \A i \in 1..f.digits : Digit(f, i) = Digit(g, i)
    \/ \E k \in 1..f.digits :
         /\ k <= g.digits
         /\ Digit(f, k) < Digit(g, k)
         /\ \A i \in 1..(k - 1) : Digit(f, i) = Digit(g, i)

SameNumber(f, g) == f.digits = g.digits /\ f.no = g.no

NameBefore(f, g) ==
    \/ Numbered(f) /\ ~Numbered(g)
    \/ Numbered(f) /\ Numbered(g) /\ NumberBefore(f, g)
    \/ SameNumber(f, g) /\ f.slug < g.slug
    \/ SameNumber(f, g) /\ f.slug = g.slug /\ f.md /\ ~g.md

LastByName(s) == {f \in s : \A g \in s \ {f} : NameBefore(g, f)}

-----------------------------------------------------------------------------
(* Reading: the directory of the layout, which EPIC.md decides anew each time *)

collectFiles(layout) == {f \in plans : f.runtime = layout}
PlanFiles            == collectFiles(runtime)
List                 == {f \in PlanFiles : f.md}

\* LookupString finds any of the references in state.json, under several keys: a
\* Go map has no order.  No reference leads to no file.
Lookup(refs) == IF refs = {} THEN {NoFile} ELSE refs

\* The plans that `epics plan current` may name; none if it fails.
Current(refs) ==
    UNION {IF ref \in plans THEN {ref} ELSE LastByName(List) : ref \in Lookup(refs)}

\* Mutant: the plan that is first in the order of names.
ResumeFirst(refs) ==
    UNION {IF ref \in plans THEN {ref}
           ELSE {f \in PlanFiles :
                    \A g \in PlanFiles \ {f} : NameBefore(f, g)}
           : ref \in Lookup(refs)}

\* The plans that `epics resume` and `epics status` may name.
resolvePlanPath(refs) ==
    UNION {IF ref \in plans THEN {ref} ELSE LastByName(PlanFiles)
           : ref \in Lookup(refs)}

-----------------------------------------------------------------------------
(* epics plan create *)

\* Mutant: the plans are counted.
NextByCount == Cardinality(List) + 1

\* Names without a number are passed over.
nextNumber == Max({f.no : f \in {g \in List : Numbered(g)}} \cup {0}) + 1

Ended(c) == pc[c] \in {"done", "failed"}

\* The number is that of the layout that is found first.
Count(c) ==
    /\ pc[c] = "new"
    /\ nextNumber <= MaxNumber
    /\ number' = [number EXCEPT ![c] = nextNumber]
    /\ after' = [after EXCEPT ![c] = {d \in Creators : Ended(d)}]
    /\ pc' = [pc EXCEPT ![c] = "counted"]
    /\ UNCHANGED <<runtime, plans, path, disturbed, logVars>>

\* The layout is found once more.
Detect(c) ==
    /\ pc[c] = "counted"
    /\ \E s \in Slugs :
         path' = [path EXCEPT ![c] = [runtime |-> runtime, no |-> number[c],
                                      digits |-> Length(number[c]), slug |-> s,
                                      md |-> TRUE]]
    /\ pc' = [pc EXCEPT ![c] = "open"]
    /\ UNCHANGED <<runtime, plans, number, after, disturbed, logVars>>

\* O_EXCL: the call fails when the file is there.
Open(c) ==
    /\ pc[c] = "open"
    /\ plans' = plans \cup {path[c]}
    /\ pc' = [pc EXCEPT ![c] = IF path[c] \in plans THEN "failed" ELSE "write"]
    /\ UNCHANGED <<runtime, number, path, after, disturbed, logVars>>

WriteTitle(c) ==
    /\ pc[c] = "write"
    /\ pc' = [pc EXCEPT ![c] = "done"]
    /\ UNCHANGED <<runtime, plans, number, path, after, disturbed, logVars>>

\* The call fails, or its process ends; a file that it has made stays.
Fail(c) ==
    /\ pc[c] \in {"counted", "open", "write"}
    /\ pc' = [pc EXCEPT ![c] = "failed"]
    /\ UNCHANGED <<runtime, plans, number, path, after, disturbed, logVars>>

-----------------------------------------------------------------------------
(* The author: another spec_version, files by hand *)

SwitchLayout ==
    /\ runtime' = ~runtime
    /\ disturbed' = TRUE
    /\ UNCHANGED <<plans, pc, number, path, after, logVars>>

AddFile(f) ==
    /\ f \notin plans
    /\ plans' = plans \cup {f}
    /\ UNCHANGED <<runtime, pc, number, path, after, disturbed, logVars>>

RemoveFile(f) ==
    /\ plans' = plans \ {f}
    /\ disturbed' = (disturbed \/ \E c \in Creators : path[c] = f)
    /\ UNCHANGED <<runtime, pc, number, path, after, logVars>>

-----------------------------------------------------------------------------
(* epics log create *)

\* Logs are written one after the other, or within one tick of the file times.
Write(n, t) ==
    /\ t <= Cardinality(LogNames)
    /\ logs' = [logs EXCEPT ![n] = t]
    /\ clock' = IF t > clock THEN t ELSE clock
    /\ UNCHANGED <<runtime, planVars>>

Written == {n \in LogNames : logs[n] # 0}

\* The name is the day and the slug of the title, or the time of day if there
\* is no title; a file of that name is written over.  The day is read before
\* the file is written, from a clock that may be set back.
CreateLog(n) ==
    /\ \E t \in {clock, clock + 1} \ {0} : Write(n, t)
    /\ reordered' = (reordered \/ \E m \in Written : m[1] > n[1])

\* The author edits a log, copies one, checks one out, or removes one (0).
TouchLog(n) ==
    \E t \in 0..(clock + 1) :
        /\ Write(n, t)
        /\ reordered' = (reordered \/ t > 0)

LogBefore(m, n) == m[1] < n[1] \/ (m[1] = n[1] /\ m[2] < n[2])

\* LatestFiles sorts by name; Recent by time of change, then by name.
LatestByName == {n \in Written : \A m \in Written \ {n} : LogBefore(m, n)}
MostRecent   == {n \in Written : \A m \in Written \ {n} :
                    logs[m] < logs[n] \/ (logs[m] = logs[n] /\ LogBefore(m, n))}

-----------------------------------------------------------------------------
Init ==
    /\ runtime \in BOOLEAN
    /\ plans = {}
    /\ pc = [c \in Creators |-> "new"]
    /\ number = [c \in Creators |-> 0]
    /\ path = [c \in Creators |-> NoFile]
    /\ after = [c \in Creators |-> {}]
    /\ disturbed = FALSE
    /\ logs = [n \in LogNames |-> 0]
    /\ clock = 0
    /\ reordered = FALSE

Create(c) == Count(c) \/ Detect(c) \/ Open(c) \/ WriteTitle(c) \/ Fail(c)
Author ==
    \/ SwitchLayout
    \/ \E f \in ByHand : AddFile(f)
    \/ \E f \in plans : RemoveFile(f)
Next ==
    \/ \E c \in Creators : Create(c)
    \/ Author
    \/ \E n \in LogNames : CreateLog(n) \/ TouchLog(n)
Spec == Init /\ [][Next]_vars

-----------------------------------------------------------------------------
(* Properties *)

Done == {c \in Creators : pc[c] = "done"}
Padded(f) == f.digits = Width /\ f.no < Power[Width]

\* Plans are numbered without a lock, and yet, as long as the author removes none
\* of them and keeps the layout, a created plan stays, no other creation writes
\* over it, and its number is above those of all that were created before it was
\* begun, whatever plans of his own the author adds and removes: only creations
\* that overlap share a number (Create, nextNumber).
PlansInOrder ==
    ~disturbed => \A c \in Done :
        /\ path[c] \in plans
        /\ \A b \in Done \ {c} : path[b] # path[c]
        /\ \A b \in after[c] \cap Done : path[b].no < path[c].no

\* The commands agree on where the work stands.  With one reference (that counts
\* as none if it leads to no file), or with none, and only .md files, resume and
\* status name the plan that plan current names; without one it has the highest
\* number, as long as all names begin with a number of just the width (notes.md
\* and 5-old.md come after 010-new.md, and so does 999 after 1000).  The log that
\* status calls the latest is the one that log recent gives first, unless a day
\* has several, the author has written to logs, or they were not created in the
\* order of their days (Current, List, resolvePlanPath, LatestFiles, Recent).
ReadersAgree ==
    /\ List = PlanFiles =>
         /\ \A refs \in {{}} \cup {{ref} : ref \in plans} :
                Current(refs) = resolvePlanPath(refs)
         /\ (\A g \in List : Padded(g)) =>
                \A f \in Current({}), g \in List : g.no <= f.no
    /\ (~reordered /\ \A m, n \in Written : m[1] = n[1] => m = n) =>
         LatestByName = MostRecent
=============================================================================
