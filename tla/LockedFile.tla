----------------------------- MODULE LockedFile -----------------------------
(***************************************************************************)
(* A JSON file that several epics processes change: state.json of an epic  *)
(* (Set and Get of internal/state/state.go) and .epics/installs.json       *)
(* (SaveInstall and LoadInstalls of internal/workspace/workspace.go).  The *)
(* writers exclude each other by a lock directory, which no process breaks *)
(* open, and put a new file in place with a rename; the readers take no    *)
(* lock.  The two packages differ in what they do when the rename fails:   *)
(* state copies across devices, workspace removes and renames again.       *)
(*                                                                         *)
(* Every writer makes one call, for a key, or a pair of slug and host, of  *)
(* its own; the content of the file is the set of the writers whose value  *)
(* it holds.                                                               *)
(***************************************************************************)
EXTENDS Naturals, FiniteSets

CONSTANTS
    Writers,    \* processes that call Set, or SaveInstall
    Readers     \* processes that call Get, or LoadInstalls

ASSUME ProcessTypes == Writers \cap Readers = {}

VARIABLES
    package,    \* "state" or "workspace"
    pc,         \* what each process does next
    lock,       \* whether the lock directory exists
    left,       \* whether a release could not remove it
    file,       \* what is at the path
    seen,       \* the content each writer has read and will write back
    got,        \* what each reader was given
    before,     \* writers that had succeeded when the reader began
    fallback    \* whether a rename ever failed, and its fallback was cut short

vars == <<package, pc, lock, left, file, seen, got, before, fallback>>

Whole(s) == [kind |-> "whole", content |-> s]
Absent   == [kind |-> "absent", content |-> {}]
Empty    == [kind |-> "empty", content |-> {}]
Torn     == [kind |-> "torn", content |-> {}]
Contents == {Whole(s) : s \in SUBSET Writers} \cup {Absent, Empty, Torn}

Critical == {"read", "write", "rename", "truncated", "torn", "removed", "release", "giveup"}
Ends     == {"done", "failed", "dead"}
Places   == {"new", "lock"} \cup Critical \cup Ends

Init ==
    /\ package \in {"state", "workspace"}
    /\ pc = [p \in Writers \cup Readers |-> "new"]
    /\ lock = FALSE
    /\ left = FALSE
    /\ file = Absent
    /\ seen = [w \in Writers |-> {}]
    /\ got = [r \in Readers |-> Absent]
    /\ before = [r \in Readers |-> {}]
    /\ fallback = "none"

Goto(p, from, to) == pc[p] = from /\ pc' = [pc EXCEPT ![p] = to]
Succeeded == {w \in Writers : pc[w] = "done"}

-----------------------------------------------------------------------------
(* The lock directory *)

Begin(w) ==
    /\ Goto(w, "new", "lock")
    /\ UNCHANGED <<package, lock, left, file, seen, got, before, fallback>>

\* os.Mkdir makes the lock directory, or fails because it exists.
Mkdir(w) ==
    /\ ~lock
    /\ Goto(w, "lock", "read")
    /\ lock' = TRUE
    /\ UNCHANGED <<package, left, file, seen, got, before, fallback>>

\* Mutant: the loop has no deadline; only a call without a lock can fail.
NoDeadline(w) ==
    /\ ~lock
    /\ Goto(w, "lock", "failed")
    /\ UNCHANGED <<package, lock, left, file, seen, got, before, fallback>>

\* The directory is still there after five seconds, or cannot be made.
LockFails(w) ==
    /\ Goto(w, "lock", "failed")
    /\ UNCHANGED <<package, lock, left, file, seen, got, before, fallback>>

\* Mutant: the error return forgets the deferred release.
GiveUpLocked(w) ==
    /\ Goto(w, "giveup", "failed")
    /\ UNCHANGED <<package, lock, left, file, seen, got, before, fallback>>

\* The error of os.Remove is dropped: the directory may stay.
Unlock ==
    \/ lock' = FALSE /\ UNCHANGED left
    \/ left' = TRUE /\ UNCHANGED lock

Release(w) ==
    /\ Goto(w, "release", "done")
    /\ Unlock
    /\ UNCHANGED <<package, file, seen, got, before, fallback>>

GiveUp(w) ==
    /\ Goto(w, "giveup", "failed")
    /\ Unlock
    /\ UNCHANGED <<package, file, seen, got, before, fallback>>

-----------------------------------------------------------------------------
(* Read, change, replace *)

\* state.Read takes an empty file for an empty object, loadIndex does not.
Readable(f) ==
    f.kind \in {"whole", "absent"} \cup (IF package = "state" THEN {"empty"} ELSE {})

ReadFile(w) ==
    /\ \/ Readable(file) /\ Goto(w, "read", "write") /\ seen' = [seen EXCEPT ![w] = file.content]
       \/ Goto(w, "read", "giveup") /\ UNCHANGED seen
    /\ UNCHANGED <<package, lock, left, file, got, before, fallback>>

\* The temporary file has a name of its own; nobody else sees it.
WriteTemp(w) ==
    /\ \/ Goto(w, "write", "rename")
       \/ Goto(w, "write", "giveup")
    /\ UNCHANGED <<package, lock, left, file, seen, got, before, fallback>>

\* Mutant: what is written is the writer's own value only.
NewContentAlone(w) == {w}

NewContent(w) == seen[w] \cup {w}

\* Mutant: state writes the file in place.
WriteInPlace(w) ==
    /\ \/ package = "state" /\ Goto(w, "rename", "truncated") /\ file' = Empty
       \/ package = "workspace" /\ Goto(w, "rename", "release")
                                /\ file' = Whole(NewContent(w))
    /\ UNCHANGED <<package, lock, left, seen, got, before, fallback>>

Rename(w) ==
    /\ Goto(w, "rename", "release")
    /\ file' = Whole(NewContent(w))
    /\ UNCHANGED <<package, lock, left, seen, got, before, fallback>>

\* Mutant: an error after the rename, say of a clean-up, is the call's error.
FailsAfterRename(w) ==
    /\ Goto(w, "rename", "giveup")
    /\ file' = Whole(NewContent(w))
    /\ UNCHANGED <<package, lock, left, seen, got, before, fallback>>

\* replaceFile gives up unless the error is EXDEV, and then truncates the file
\* and copies; workspace gives up only if it cannot remove the old file.
RenameFails(w) ==
    /\ Goto(w, "rename", "giveup")
    /\ UNCHANGED <<package, lock, left, file, seen, got, before, fallback>>

Fallback(w) ==
    /\ \/ package = "state" /\ Goto(w, "rename", "truncated") /\ file' = Empty
       \/ package = "workspace" /\ Goto(w, "rename", "removed") /\ file' = Absent
    /\ fallback' = IF fallback = "broken" THEN "broken" ELSE "used"
    /\ UNCHANGED <<package, lock, left, seen, got, before>>

CopySome(w) ==
    /\ Goto(w, "truncated", "torn")
    /\ file' = Torn
    /\ UNCHANGED <<package, lock, left, seen, got, before, fallback>>

\* The file is complete, and yet chmod or close may end the call with an error.
CopyRest(w) ==
    /\ Goto(w, "torn", "release") \/ Goto(w, "torn", "giveup")
    /\ file' = Whole(NewContent(w))
    /\ UNCHANGED <<package, lock, left, seen, got, before, fallback>>

RenameAgain(w) ==
    /\ Goto(w, "removed", "release")
    /\ file' = Whole(NewContent(w))
    /\ UNCHANGED <<package, lock, left, seen, got, before, fallback>>

Exposed(w) == pc[w] \in {"truncated", "torn", "removed"}

FallbackFails(w) ==
    /\ Exposed(w)
    /\ pc' = [pc EXCEPT ![w] = "giveup"]
    /\ fallback' = "broken"
    /\ UNCHANGED <<package, lock, left, file, seen, got, before>>

\* A process ends anywhere; its lock directory stays.
Die(w) ==
    /\ pc[w] \in {"lock"} \cup Critical
    /\ pc' = [pc EXCEPT ![w] = "dead"]
    /\ fallback' = IF Exposed(w) THEN "broken" ELSE fallback
    /\ UNCHANGED <<package, lock, left, file, seen, got, before>>

-----------------------------------------------------------------------------
(* Readers take no lock *)

BeginRead(r) ==
    /\ Goto(r, "new", "read")
    /\ before' = [before EXCEPT ![r] = Succeeded]
    /\ UNCHANGED <<package, lock, left, file, seen, got, fallback>>

Get(r) ==
    /\ Goto(r, "read", "done")
    /\ got' = [got EXCEPT ![r] = file]
    /\ UNCHANGED <<package, lock, left, file, seen, before, fallback>>

Write(w) ==
    \/ Mkdir(w) \/ LockFails(w) \/ Release(w) \/ GiveUp(w)
    \/ ReadFile(w) \/ WriteTemp(w) \/ Rename(w) \/ RenameFails(w) \/ Fallback(w)
    \/ CopySome(w) \/ CopyRest(w) \/ RenameAgain(w) \/ FallbackFails(w)
Read(r) == BeginRead(r) \/ Get(r)
Next ==
    \/ \E w \in Writers : Begin(w) \/ Write(w) \/ Die(w)
    \/ \E r \in Readers : Read(r)

\* A process that runs goes on; nothing makes one start or die.
Spec == Init /\ [][Next]_vars
FairSpec == Spec /\ \A w \in Writers : WF_vars(Write(w))

-----------------------------------------------------------------------------
(* Properties *)

TypeOK ==
    /\ package \in {"state", "workspace"}
    /\ pc \in [Writers \cup Readers -> Places]
    /\ lock \in BOOLEAN
    /\ left \in BOOLEAN
    /\ file \in Contents
    /\ package = "workspace" =>
         /\ file.kind \notin {"empty", "torn"}
         /\ \A w \in Writers : pc[w] \notin {"truncated", "torn"}
    /\ seen \in [Writers -> SUBSET Writers]
    /\ got \in [Readers -> Contents]
    /\ before \in [Readers -> SUBSET Writers]
    /\ fallback \in {"none", "used", "broken"}

InCritical == {w \in Writers : pc[w] \in Critical}
Dead       == {w \in Writers : pc[w] = "dead"}

\* One writer at a time reads, changes and replaces the file, the lock
\* directory is there as long as it does, and no call leaves it behind, by any
\* of its error returns, unless the process dies or the directory cannot be
\* removed, which the release does not report (acquireLock, deferred release).
LockExcludes ==
    /\ InCritical # {} => lock
    /\ lock => left \/ InCritical \cup Dead # {}
    /\ \A v, w \in InCritical : v = w

\* No update is lost: what a call that succeeded has written stays in the file
\* through the read, change and replace of all others, or is in the hands of a
\* writer that has just taken the file away.  Only a fallback that is cut
\* short loses it (Set, SaveInstall, replaceFile, writeFileAtomically).
UpdatesKept ==
    fallback # "broken" =>
        \A w \in Succeeded :
            w \in file.content \/ \E v \in Writers : Exposed(v) /\ w \in seen[v]

\* A reader, which takes no lock, gets a whole file with every update that
\* succeeded before it began.  If renames fail it may meet an empty, a torn or
\* no file, but never an old one (Get, LoadInstalls).
ReadsAreCurrent ==
    \A r \in Readers :
        pc[r] = "done" =>
            /\ fallback = "none" => got[r].kind \in {"whole", "absent"}
            /\ (fallback = "none" \/ (fallback = "used" /\ got[r].kind = "whole"))
                 => before[r] \subseteq got[r].content

\* Every call ends, with an error if need be, although a process that died has
\* left its lock directory and nobody removes it (the deadline of acquireLock).
CallsEnd == \A w \in Writers : pc[w] = "lock" ~> pc[w] \in Ends
=============================================================================
