--------------------------- MODULE InstallPackage ---------------------------
(***************************************************************************)
(* epics install (internal/install/install.go) of one package for one      *)
(* host: the new version is staged in a directory of its own, where its    *)
(* hooks run, the old one is moved aside, the new one is moved in, and     *)
(* installs.json gets a record; an error after the move puts the old one   *)
(* back.  Nothing excludes two processes that install the same package,    *)
(* and a process may end between any two steps.                            *)
(*                                                                         *)
(* Directories are moved whole.  Removing a directory is one step, and so  *)
(* is SaveInstall, which LockedFile takes apart: where it fails or is cut  *)
(* short, its fallback may have removed installs.json.  A rollback meets   *)
(* no further error but a directory that is in its way.  Installs of other *)
(* packages, whose saves may remove the file too, are not modelled.        *)
(***************************************************************************)
EXTENDS FiniteSets

CONSTANTS
    Installers,     \* processes, each with a version of its own
    Old,            \* the version that was there before
    Nothing         \* no directory, no record

ASSUME VersionTypes == Old \notin Installers /\ Nothing \notin Installers \cup {Old}

Versions == Installers \cup {Old}

VARIABLES
    pc,             \* the next step of each process
    dest,           \* the version in the install directory
    staged,         \* processes whose staging directory exists
    backup,         \* the version in each process's backup directory
    backupDir,      \* processes whose variable backupDir is not empty
    record,         \* the version installs.json names
    atStart,        \* dest and record when each process began
    alone,          \* processes that never ran at the same time as another
    unlisted        \* of those, the ones whose failing save removed installs.json

dirVars == <<dest, staged, backup, record>>
historyVars == <<atStart, alone, unlisted>>
vars == <<pc, dirVars, backupDir, historyVars>>

Ends   == {"done", "failed", "dead"}
Places == {"new", "resolve", "stage", "copy", "hooks", "stat", "backup", "promote", "save", "cleanup",
           "rollback", "restore", "abort"} \cup Ends
Active(i) == pc[i] \notin {"new"} \cup Ends

Init ==
    /\ pc = [i \in Installers |-> "new"]
    /\ \E v \in {Old, Nothing} : dest = v /\ record = v
    /\ staged = {}
    /\ backup = [i \in Installers |-> Nothing]
    /\ backupDir = {}
    /\ atStart = [i \in Installers |-> [dest |-> Nothing, record |-> Nothing]]
    /\ alone = Installers
    /\ unlisted = {}

Goto(i, from, to) == pc[i] = from /\ pc' = [pc EXCEPT ![i] = to]

-----------------------------------------------------------------------------
Others(i) == {j \in Installers \ {i} : Active(j)}

Begin(i) ==
    /\ Goto(i, "new", "resolve")
    /\ atStart' = [atStart EXCEPT ![i] = [dest |-> dest, record |-> record]]
    /\ alone' = IF Others(i) = {} THEN alone ELSE alone \ (Others(i) \cup {i})
    /\ UNCHANGED <<dirVars, backupDir, unlisted>>

\* The source is a directory, a registry entry or a clone; or there is none.
Resolve(i) ==
    /\ Goto(i, "resolve", "stage") \/ Goto(i, "resolve", "abort")
    /\ UNCHANGED <<dirVars, backupDir, historyVars>>

NewInstallStagingDir(i) ==
    /\ \/ Goto(i, "stage", "copy") /\ staged' = staged \cup {i}
       \/ Goto(i, "stage", "abort") /\ UNCHANGED staged
    /\ UNCHANGED <<dest, backup, record, backupDir, historyVars>>

\* copyPackageSurface, or materializeRegistryEntry; then Validate
CopyPackageSurface(i) ==
    /\ Goto(i, "copy", "hooks") \/ Goto(i, "copy", "abort")
    /\ UNCHANGED <<dirVars, backupDir, historyVars>>

\* The hooks of the staged package run in the staging directory.
RunInstallHooks(i) ==
    /\ Goto(i, "hooks", "stat") \/ Goto(i, "hooks", "abort")
    /\ UNCHANGED <<dirVars, backupDir, historyVars>>

\* promoteInstall: is there a version to move aside?
Stat(i) ==
    /\ \/ dest # Nothing /\ Goto(i, "stat", "backup")
       \/ dest = Nothing /\ Goto(i, "stat", "promote")
       \/ Goto(i, "stat", "abort")
    /\ UNCHANGED <<dirVars, backupDir, historyVars>>

\* Mutant: the old version is removed, not moved.
RemoveOld(i) ==
    /\ dest # Nothing
    /\ Goto(i, "backup", "promote")
    /\ dest' = Nothing
    /\ UNCHANGED <<staged, backup, record, backupDir, historyVars>>

\* Mutant: an inner variable keeps the name of the backup from the caller.
MoveAsideUnnamed(i) ==
    /\ dest # Nothing
    /\ Goto(i, "backup", "promote")
    /\ backup' = [backup EXCEPT ![i] = dest]
    /\ dest' = Nothing
    /\ UNCHANGED <<staged, record, backupDir, historyVars>>

MoveAside(i) ==
    /\ dest # Nothing
    /\ Goto(i, "backup", "promote")
    /\ backup' = [backup EXCEPT ![i] = dest]
    /\ backupDir' = backupDir \cup {i}
    /\ dest' = Nothing
    /\ UNCHANGED <<staged, record, historyVars>>

\* The directory went since the Stat, or the rename fails.
MoveAsideFails(i) ==
    /\ Goto(i, "backup", "abort")
    /\ UNCHANGED <<dirVars, backupDir, historyVars>>

\* os.Rename does not replace a directory.
Promote(i) ==
    /\ dest = Nothing
    /\ Goto(i, "promote", "save")
    /\ dest' = i
    /\ staged' = staged \ {i}
    /\ UNCHANGED <<backup, record, backupDir, historyVars>>

PromoteFails(i) ==
    /\ Goto(i, "promote", "rollback")
    /\ UNCHANGED <<dirVars, backupDir, historyVars>>

SaveInstall(i) ==
    /\ Goto(i, "save", "cleanup")
    /\ record' = i
    /\ UNCHANGED <<dest, staged, backup, backupDir, historyVars>>

\* Mutant: the error of SaveInstall is returned before the rollback is deferred.
SaveInstallAborts(i) ==
    /\ Goto(i, "save", "abort")
    /\ UNCHANGED <<dirVars, backupDir, historyVars>>

\* writeFileAtomically removes installs.json, with the records of all packages,
\* before it renames for the second time, which may fail too.
SaveInstallFails(i) ==
    /\ Goto(i, "save", "rollback")
    /\ \/ UNCHANGED <<record, unlisted>>
       \/ record' = Nothing /\ unlisted' = unlisted \cup ({i} \cap alone)
    /\ UNCHANGED <<dest, staged, backup, backupDir, atStart, alone>>

\* cleanupPromotedInstallBackup, then the deferred removal of the staging
\* directory and the end of the call
Cleanup(i) ==
    /\ Goto(i, "cleanup", "done")
    /\ backup' = [backup EXCEPT ![i] = Nothing]
    /\ staged' = staged \ {i}
    /\ UNCHANGED <<dest, record, backupDir, historyVars>>

\* rollbackPromotedInstall removes whatever is in the install directory.
RollBack(i) ==
    /\ Goto(i, "rollback", "restore")
    /\ dest' = Nothing
    /\ UNCHANGED <<staged, backup, record, backupDir, historyVars>>

\* It moves the backup back, unless a directory is there again; its error is
\* ignored.
Restore(i) ==
    /\ Goto(i, "restore", "abort")
    /\ \/ /\ i \in backupDir /\ dest = Nothing
          /\ dest' = backup[i]
          /\ backup' = [backup EXCEPT ![i] = Nothing]
       \/ /\ i \notin backupDir \/ dest # Nothing
          /\ UNCHANGED <<dest, backup>>
    /\ UNCHANGED <<staged, record, backupDir, historyVars>>

\* The deferred removal of the staging directory
Abort(i) ==
    /\ Goto(i, "abort", "failed")
    /\ staged' = staged \ {i}
    /\ UNCHANGED <<dest, backup, record, backupDir, historyVars>>

\* The process ends; the directories stay as they are, and nobody looks at the
\* ones it leaves.  It may end between the removal of installs.json and the
\* second rename.
Die(i) ==
    /\ Active(i)
    /\ pc' = [pc EXCEPT ![i] = "dead"]
    /\ record' = record \/ (pc[i] = "save" /\ record' = Nothing)
    /\ UNCHANGED <<dest, staged, backup, backupDir, historyVars>>

Install(i) ==
    \/ Begin(i) \/ Resolve(i) \/ NewInstallStagingDir(i) \/ CopyPackageSurface(i)
    \/ RunInstallHooks(i) \/ Stat(i)
    \/ MoveAside(i) \/ MoveAsideFails(i) \/ Promote(i) \/ PromoteFails(i)
    \/ SaveInstall(i) \/ SaveInstallFails(i) \/ Cleanup(i)
    \/ RollBack(i) \/ Restore(i) \/ Abort(i) \/ Die(i)
Next == \E i \in Installers : Install(i)

Spec == Init /\ [][Next]_vars

-----------------------------------------------------------------------------
(* Properties *)

TypeOK ==
    /\ pc \in [Installers -> Places]
    /\ dest \in Versions \cup {Nothing} /\ record \in Versions \cup {Nothing}
    /\ staged \subseteq Installers /\ backupDir \subseteq Installers
    /\ backup \in [Installers -> Versions \cup {Nothing}]
    /\ atStart \in [Installers -> [dest : Versions \cup {Nothing},
                                   record : Versions \cup {Nothing}]]
    /\ alone \subseteq Installers /\ unlisted \subseteq Installers
    /\ \A i \in Installers : backup[i] # Nothing => i \in backupDir

ReturnsAllOrNothing(i) ==
    /\ (pc[i] # "done" /\ pc'[i] = "done") => dest' = i /\ record' = i
    /\ (pc[i] # "failed" /\ pc'[i] = "failed") =>
          /\ dest' = atStart[i].dest
          /\ record' = IF i \in unlisted' THEN Nothing ELSE atStart[i].record
    /\ pc'[i] \in {"done", "failed"} => i \notin staged' /\ backup'[i] = Nothing

\* An install that runs alone and ends is all or nothing: when it returns, the
\* directory and the record both name the new version, or both are what they
\* were, and its staging and backup directories are gone (Install, its defers).
\* One error is not undone: if the save fails after it has removed
\* installs.json, the directory is back but no package is recorded any more
\* (workspace.writeFileAtomically).
AllOrNothing == [][\A i \in alone' : ReturnsAllOrNothing(i)]_vars

\* As long as no two installs overlap, a package that was there is never lost,
\* wherever processes end: the install directory or a backup holds one whenever
\* the record names one (promoteInstall moves, rollbackPromotedInstall restores).
PackageSurvives ==
    (alone = Installers /\ record # Nothing) =>
        dest # Nothing \/ \E i \in Installers : backup[i] # Nothing

\* Documented: a failing install must not "wipe or partially replace a
\* previously working install".  Once all processes have returned, what the
\* record names is still there.
InstalledStays ==
    (\A i \in Installers : pc[i] \in {"new", "done", "failed"}) /\ record # Nothing
        => dest # Nothing
=============================================================================
