------------------------------ MODULE RunLedger ------------------------------
(* The files of runs/: AppendRun adds a line to the file of the day a run    *)
(* was queued, ListRuns and InspectRun read the files newest first while     *)
(* lines are added. A write that is cut short, by a full disk or by the end  *)
(* of the process, leaves a line without its end, and the next record        *)
(* continues it.                                                             *)
EXTENDS Naturals, FiniteSets, Sequences, SequencesExt

CONSTANTS
    Runs,           \* records, each appended once at most
    Day,            \* Runs -> Nat: the day in EnqueuedAt, which names the file
    FinishedAt,     \* Runs -> Nat: runSortKey
    OfRoute,        \* the runs of the route that a list may be limited to
    Limit,          \* the limit of a list
    Readers         \* admin calls

LedgerTypes ==
    /\ Day \in [Runs -> Nat] /\ FinishedAt \in [Runs -> Nat]
    /\ OfRoute \subseteq Runs /\ Limit \in Nat \ {0} /\ IsFiniteSet(Runs)

Days == {Day[r] : r \in Runs}

\* A line: the records whose text is in it, whether it has a fragment of
\* another, and whether it has its newline.
Line == [runs : SUBSET Runs, fragment : BOOLEAN, ended : BOOLEAN]

VARIABLES
    file,           \* each day's lines
    present,        \* the days that have a file
    tried,          \* the runs for which AppendRun was called
    appended,       \* history: the runs for which it returned nil
    damaged,        \* history: the days whose file a write was cut short in
    reader          \* each reader: position, what it looks for, what it has

vars == <<file, present, tried, appended, damaged, reader>>

NoReader == [at |-> "idle", call |-> "list", wanted |-> {}, todo |-> {},
             got |-> {}, result |-> {}, atStart |-> {}]

Init ==
    /\ file = [d \in Days |-> <<>>] /\ present = {}
    /\ tried = {} /\ appended = {} /\ damaged = {}
    /\ reader = [q \in Readers |-> NoReader]

-----------------------------------------------------------------------------
(* AppendRun *)

\* Bytes go to the end of the file: to a line that has no newline yet, or to
\* a new one.
Written(lines, bytes) ==
    IF lines # <<>> /\ ~Last(lines).ended
    THEN Append(Front(lines), [runs |-> Last(lines).runs \cup bytes.runs,
                               fragment |-> Last(lines).fragment \/ bytes.fragment,
                               ended |-> bytes.ended])
    ELSE Append(lines, bytes)

Whole(r)    == [runs |-> {r}, fragment |-> FALSE, ended |-> TRUE]
Unended(r)  == [runs |-> {r}, fragment |-> FALSE, ended |-> FALSE]
Fragment    == [runs |-> {}, fragment |-> TRUE, ended |-> FALSE]

Write(r, bytes) ==
    /\ r \notin tried /\ tried' = tried \cup {r}
    /\ file' = [file EXCEPT ![Day[r]] = Written(@, bytes)]
    /\ present' = present \cup {Day[r]}

AppendRun(r) ==
    /\ Write(r, Whole(r))
    /\ appended' = appended \cup {r}
    /\ UNCHANGED <<damaged, reader>>

\* The write is cut short. The process goes on, or ends with its readers.
AppendCut(r) ==
    /\ \E bytes \in {Unended(r), Fragment} : Write(r, bytes)
    /\ damaged' = damaged \cup {Day[r]}
    /\ reader' \in {reader, [q \in Readers |-> NoReader]}
    /\ UNCHANGED appended

-----------------------------------------------------------------------------
(* ListRuns, InspectRun *)

\* runFilesNewestFirst
Start(q) ==
    /\ reader[q].at \in {"idle", "done", "failed"}
    /\ \E call \in {"list", "inspect"} :
       \E wanted \in IF call = "list" THEN {Runs, OfRoute} ELSE {{r} : r \in Runs} :
         reader' = [reader EXCEPT ![q] =
             [at |-> "reading", call |-> call, wanted |-> wanted, todo |-> present,
              got |-> {}, result |-> {}, atStart |-> appended]]
    /\ UNCHANGED <<file, present, tried, appended, damaged>>

\* Mutant: a line that cannot be decoded is left out.
DecodesAny(lines) == TRUE

\* readRunFile: every line must be one record.
Decodes(lines) ==
    \A i \in DOMAIN lines : ~lines[i].fragment /\ Cardinality(lines[i].runs) = 1

Records(lines) == UNION {lines[i].runs : i \in {j \in DOMAIN lines :
                      ~lines[j].fragment /\ Cardinality(lines[j].runs) = 1}}

NextFile(days) == CHOOSE d \in days : \A e \in days : d >= e

ReadFile(q) ==
    /\ reader[q].at = "reading" /\ reader[q].todo # {}
    /\ LET call == reader[q]
           d == NextFile(call.todo)
           got == call.got \cup (Records(file[d]) \cap call.wanted)
           found == call.call = "inspect" /\ got # {}
       IN  reader' = [reader EXCEPT ![q] =
             IF Decodes(file[d])
             THEN [call EXCEPT !.got = got, !.todo = IF found THEN {} ELSE call.todo \ {d}]
             ELSE [call EXCEPT !.at = "failed"]]
    /\ UNCHANGED <<file, present, tried, appended, damaged>>

\* The prefixes of length Limit that sorting can give: runs of one key come in
\* any order.
Newest(got) ==
    {s \in SUBSET got :
        /\ Cardinality(s) = (IF Cardinality(got) > Limit THEN Limit ELSE Cardinality(got))
        /\ \A r \in s, x \in got \ s : FinishedAt[r] >= FinishedAt[x]}

Answer(q) ==
    /\ reader[q].at = "reading" /\ reader[q].todo = {}
    /\ \E s \in IF reader[q].call = "list" THEN Newest(reader[q].got) ELSE {reader[q].got} :
         reader' = [reader EXCEPT ![q].at = "done", ![q].result = s]
    /\ UNCHANGED <<file, present, tried, appended, damaged>>

Next ==
    \/ \E r \in Runs : AppendRun(r) \/ AppendCut(r)
    \/ \E q \in Readers : Start(q) \/ ReadFile(q) \/ Answer(q)

Spec == Init /\ [][Next]_vars

-----------------------------------------------------------------------------
(* Properties *)

TypeOK ==
    /\ file \in [Days -> Seq(Line)]
    /\ \A d \in Days : \A i \in 1 .. Len(file[d]) - 1 : file[d][i].ended
    /\ present \in SUBSET Days /\ damaged \in SUBSET Days
    /\ tried \in SUBSET Runs /\ appended \in SUBSET Runs
    /\ reader \in [Readers ->
         [at : {"idle", "reading", "done", "failed"}, call : {"list", "inspect"},
          wanted : SUBSET Runs, todo : SUBSET Days, got : SUBSET Runs,
          result : SUBSET Runs, atStart : SUBSET Runs]]

\* No answer leaves a record out in silence: what AppendRun had acknowledged
\* before the call began is in the answer, or behind its limit with a result
\* that is not newer than any in it, even if a later record was written into
\* the rest of a torn line (ListRuns, InspectRun, readRunFile).
AnswersAreComplete ==
    \A q \in Readers : reader[q].at = "done" =>
        \A r \in reader[q].atStart \cap reader[q].wanted :
            \/ r \in reader[q].result
            \/ /\ reader[q].call = "list" /\ Cardinality(reader[q].result) = Limit
               /\ \A s \in reader[q].result : FinishedAt[s] >= FinishedAt[r]

\* A call fails only over a damaged file, and an inspection of a recorded run
\* only over one of its own day or a later day: files are read newest first.
FailuresAreExplained ==
    \A q \in Readers : reader[q].at = "failed" =>
        \E d \in damaged :
            \A r \in reader[q].atStart :
                (reader[q].call = "inspect" /\ reader[q].wanted = {r}) => d >= Day[r]
=============================================================================
