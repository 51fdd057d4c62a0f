------------------------------ MODULE HostSetup ------------------------------
(***************************************************************************)
(* `epics host setup`, which `epics install` also runs, in a workspace     *)
(* that has files of its own: Setup of internal/hosts/claude, gemini and   *)
(* opencode with WriteIfMissingOrSame and AppendSection of                 *)
(* internal/hostutil, and `epics host doctor` on what they leave.          *)
(*                                                                         *)
(* A file is read, then truncated, then written, and no lock is taken:     *)
(* another setup or the user may come between.  A command file is absent,  *)
(* empty, "ours" or "other"; the instruction file (CLAUDE.md, GEMINI.md,   *)
(* AGENTS.md) is the set of its parts: the user's text, a section that     *)
(* only has the marker of ours, and our section.                           *)
(***************************************************************************)
EXTENDS Naturals, FiniteSets

CONSTANTS
    Setups,     \* processes that run a setup for one host
    Commands    \* the files under commands/ (and the README of claude)

VARIABLES
    command,    \* what each command file is
    guide,      \* the parts of the instruction file, or NoGuide
    pc,         \* what each setup does next
    todo,       \* command files it has not come to
    current,    \* the one it is to create, or has truncated
    held,       \* what it has read of the instruction file
    words,      \* parts that the user has put into the instruction file
    theirs,     \* command files that the user has made
    overlap,    \* whether a setup or the user stepped between two steps of a setup
    cut         \* whether a setup failed or died

vars == <<command, guide, pc, todo, current, held, words, theirs, overlap, cut>>

NoGuide == {"none"}
Parts   == {"user", "marker", "section"}
NoCommand == "-"
Busy(s) == pc[s] \notin {"new", "done", "dead"}
Goto(s, from, to) == pc[s] = from /\ pc' = [pc EXCEPT ![s] = to]

Init ==
    /\ command \in [Commands -> {"absent", "empty", "ours", "other"}]
    /\ guide \in {NoGuide} \cup SUBSET {"user", "marker"}
    /\ pc = [s \in Setups |-> "new"]
    /\ todo = [s \in Setups |-> Commands]
    /\ current = [s \in Setups |-> NoCommand]
    /\ held = [s \in Setups |-> {}]
    /\ words = guide \ NoGuide
    /\ theirs = {f \in Commands : command[f] \in {"empty", "other"}}
    /\ overlap = FALSE
    /\ cut = FALSE

Begin(s) ==
    /\ Goto(s, "new", "check")
    /\ overlap' = (overlap \/ \E t \in Setups \ {s} : Busy(t))
    /\ UNCHANGED <<command, guide, todo, current, held, words, theirs, cut>>

-----------------------------------------------------------------------------
(* WriteIfMissingOrSame, for the files in any order (a Go map) *)

\* A file that is there, the same or not, is left as it is.
Check(s, f) ==
    /\ f \in todo[s]
    /\ todo' = [todo EXCEPT ![s] = @ \ {f}]
    /\ \/ command[f] # "absent" /\ pc[s] = "check" /\ UNCHANGED <<pc, current>>
       \/ command[f] = "absent" /\ Goto(s, "check", "create")
                                /\ current' = [current EXCEPT ![s] = f]
    /\ UNCHANGED <<command, guide, held, words, theirs, overlap, cut>>

CreateFile(s) ==
    /\ Goto(s, "create", "fill")
    /\ command' = [command EXCEPT ![current[s]] = "empty"]
    /\ UNCHANGED <<guide, todo, current, held, words, theirs, overlap, cut>>

Fill(s) ==
    /\ Goto(s, "fill", "check")
    /\ command' = [command EXCEPT ![current[s]] = "ours"]
    /\ UNCHANGED <<guide, todo, current, held, words, theirs, overlap, cut>>

-----------------------------------------------------------------------------
(* AppendSection *)

\* Nothing is written when the whole section is there.
ReadGuide(s) ==
    /\ todo[s] = {}
    /\ \/ "section" \in guide /\ Goto(s, "check", "done") /\ UNCHANGED held
       \/ "section" \notin guide /\ Goto(s, "check", "truncate")
                                 /\ held' = [held EXCEPT ![s] = guide \ NoGuide]
    /\ UNCHANGED <<command, guide, todo, current, words, theirs, overlap, cut>>

Truncate(s) ==
    /\ Goto(s, "truncate", "append")
    /\ guide' = {}
    /\ UNCHANGED <<command, todo, current, held, words, theirs, overlap, cut>>

\* Mutant: the section alone is written.
SectionOnly(s) == {"section"}

NewGuide(s) == held[s] \cup {"section"}

\* Written from the start of the file: of what another setup has put there in
\* between, any part that is further on may stay.
Append(s) ==
    /\ Goto(s, "append", "done")
    /\ \E rest \in SUBSET (guide \ NoGuide) : guide' = NewGuide(s) \cup rest
    /\ UNCHANGED <<command, todo, current, held, words, theirs, overlap, cut>>

\* A call fails, or the process dies: a truncated file stays so.
Die(s) ==
    /\ Busy(s)
    /\ pc' = [pc EXCEPT ![s] = "dead"]
    /\ cut' = TRUE
    /\ UNCHANGED <<command, guide, todo, current, held, words, theirs, overlap>>

-----------------------------------------------------------------------------
(* The user *)

WriteGuide(part) ==
    /\ guide' = (guide \ NoGuide) \cup {part}
    /\ words' = words \cup {part}
    /\ overlap' = (overlap \/ \E s \in Setups : Busy(s))
    /\ UNCHANGED <<command, pc, todo, current, held, theirs, cut>>

WriteCommand(f) ==
    /\ command[f] = "absent"
    /\ command' = [command EXCEPT ![f] = "other"]
    /\ theirs' = theirs \cup {f}
    /\ overlap' = (overlap \/ \E s \in Setups : Busy(s))
    /\ UNCHANGED <<guide, pc, todo, current, held, words, cut>>

SetupStep(s) ==
    \/ Begin(s) \/ CreateFile(s) \/ Fill(s) \/ ReadGuide(s) \/ Truncate(s) \/ Append(s) \/ Die(s)
    \/ \E f \in Commands : Check(s, f)

User ==
    \/ \E part \in {"user", "marker"} : WriteGuide(part)
    \/ \E f \in Commands : WriteCommand(f)

Next == User \/ \E s \in Setups : SetupStep(s)
Spec == Init /\ [][Next]_vars

-----------------------------------------------------------------------------
(* Properties *)

\* epics host doctor: no command file is missing or empty, and the instruction
\* file has the marker, which both kinds of section have.
CommandOk(f) == command[f] \notin {"absent", "empty"}
GuideOk    == guide \cap {"marker", "section"} # {}
HostDoctorOk(blank) == GuideOk /\ \A f \in Commands : CommandOk(f) \/ f \in blank

\* A setup adds and never takes away: the user's words and command files stay as
\* they were, unless another setup, or the user, wrote while it ran; only a call
\* that is cut short may lose the instruction file (WriteIfMissingOrSame,
\* AppendSection).  And once all setups have ended, one with success and none
\* cut short, the doctor finds what it looks for, overlapping or not; a command
\* file that the user has left empty is not filled (Setup, HostDoctorChecks).
SetupAddsOnly ==
    (\A s \in Setups : ~Busy(s)) =>
        /\ ~overlap => \A f \in theirs : command[f] \in {"empty", "other"}
        /\ ~overlap /\ ~cut => words \subseteq guide
        /\ ~cut /\ (\E s \in Setups : pc[s] = "done") => HostDoctorOk(theirs)
=============================================================================
