------------------------- MODULE CommandFilesProofs -------------------------
(* Theorems about the parts of CommandFiles: InstallPackage, for any          *)
(* installers; HostSetup, for any setups and command files; EpicDirectory, for *)
(* any creators, slugs and digits; EpicPackage, for a SKILL.md of any length. *)
EXTENDS CommandFiles, Naturals, Sequences, SequenceTheorems, WellFoundedInduction, TLAPS

-----------------------------------------------------------------------------
(* Types *)

LEMMA TypeInit == Init => TypeOK
  BY DEF Init, TypeOK, Places, Versions

LEMMA TypeNext == TypeOK /\ [Next]_vars => TypeOK'
  <1> SUFFICES ASSUME TypeOK, [Next]_vars PROVE TypeOK'
    OBVIOUS
  <1> USE VersionTypes DEF TypeOK, Goto, Places, Ends, Versions, dirVars, historyVars
  <1>1. ASSUME NEW k \in Installers, Begin(k) PROVE TypeOK'
    BY <1>1 DEF Begin
  <1>2. ASSUME NEW k \in Installers, Resolve(k) PROVE TypeOK'
    BY <1>2 DEF Resolve
  <1>3. ASSUME NEW k \in Installers, NewInstallStagingDir(k) PROVE TypeOK'
    BY <1>3 DEF NewInstallStagingDir
  <1>4. ASSUME NEW k \in Installers, CopyPackageSurface(k) PROVE TypeOK'
    BY <1>4 DEF CopyPackageSurface
  <1>5. ASSUME NEW k \in Installers, RunInstallHooks(k) PROVE TypeOK'
    BY <1>5 DEF RunInstallHooks
  <1>6. ASSUME NEW k \in Installers, Stat(k) PROVE TypeOK'
    BY <1>6 DEF Stat
  <1>7. ASSUME NEW k \in Installers, MoveAside(k) PROVE TypeOK'
    BY <1>7 DEF MoveAside
  <1>8. ASSUME NEW k \in Installers, MoveAsideFails(k) PROVE TypeOK'
    BY <1>8 DEF MoveAsideFails
  <1>9. ASSUME NEW k \in Installers, Promote(k) PROVE TypeOK'
    BY <1>9 DEF Promote
  <1>10. ASSUME NEW k \in Installers, PromoteFails(k) PROVE TypeOK'
    BY <1>10 DEF PromoteFails
  <1>11. ASSUME NEW k \in Installers, SaveInstall(k) PROVE TypeOK'
    BY <1>11 DEF SaveInstall
  <1>12. ASSUME NEW k \in Installers, SaveInstallFails(k) PROVE TypeOK'
    BY <1>12 DEF SaveInstallFails
  <1>13. ASSUME NEW k \in Installers, Cleanup(k) PROVE TypeOK'
    BY <1>13 DEF Cleanup
  <1>14. ASSUME NEW k \in Installers, RollBack(k) PROVE TypeOK'
    BY <1>14 DEF RollBack
  <1>15. ASSUME NEW k \in Installers, Restore(k) PROVE TypeOK'
    BY <1>15 DEF Restore
  <1>16. ASSUME NEW k \in Installers, Abort(k) PROVE TypeOK'
    BY <1>16 DEF Abort
  <1>17. ASSUME NEW k \in Installers, Die(k) PROVE TypeOK'
    BY <1>17 DEF Die
  <1>18. CASE UNCHANGED vars
    BY <1>18 DEF vars, dirVars, historyVars
  <1>19. QED
    BY <1>1, <1>2, <1>3, <1>4, <1>5, <1>6, <1>7, <1>8, <1>9, <1>10, <1>11,
       <1>12, <1>13, <1>14, <1>15, <1>16, <1>17, <1>18
       DEF Next, Install

\* Every variable keeps its type, and a process remembers its backup directory
\* as long as there is something in it.
THEOREM TypeCorrect == Spec => []TypeOK
  BY TypeInit, TypeNext, PTL DEF Spec

-----------------------------------------------------------------------------
(* An install that runs alone.  Where it is tells what it has moved.      *)

Before == {"resolve", "stage", "copy", "hooks", "stat", "backup", "abort"}
After  == {"promote", "save", "rollback", "restore"}

AloneInv(i) ==
    /\ pc[i] \in {"new", "resolve", "stage", "copy", "hooks", "stat", "backup"} => i \notin backupDir
    /\ (i \in alone /\ Active(i)) =>
         /\ \A j \in Installers : j # i => ~Active(j)
         /\ pc[i] \in Before => dest = atStart[i].dest /\ backup[i] = Nothing
         /\ pc[i] \in After => IF i \in backupDir THEN backup[i] = atStart[i].dest
                               ELSE atStart[i].dest = Nothing
         /\ pc[i] \in {"promote", "restore"} => dest = Nothing
         /\ pc[i] \in {"save", "cleanup"} => dest = i
         /\ record = IF pc[i] = "cleanup" THEN i
                     ELSE IF i \in unlisted THEN Nothing ELSE atStart[i].record
    /\ i \in unlisted => pc[i] \in {"rollback", "restore", "abort", "failed", "dead"}
    /\ (i \in alone /\ pc[i] \in {"done", "failed"}) => i \notin staged /\ backup[i] = Nothing

Inv == \A i \in Installers : AloneInv(i)

LEMMA InvInit == Init => Inv
  BY DEF Init, Inv, AloneInv, Active, Ends

LEMMA InvNext == TypeOK /\ Inv /\ [Next]_vars => Inv'
  <1> SUFFICES ASSUME TypeOK, Inv, [Next]_vars, NEW i \in Installers PROVE AloneInv(i)'
    BY DEF Inv
  <1> USE DEF TypeOK, Inv, AloneInv, Goto, Active, Ends, Places, Before, After,
          dirVars, historyVars, Others
  <1>1. ASSUME NEW k \in Installers, Begin(k) PROVE AloneInv(i)'
    BY <1>1 DEF Begin
  <1>2. ASSUME NEW k \in Installers, Resolve(k) PROVE AloneInv(i)'
    BY <1>2 DEF Resolve
  <1>3. ASSUME NEW k \in Installers, NewInstallStagingDir(k) PROVE AloneInv(i)'
    BY <1>3 DEF NewInstallStagingDir
  <1>4. ASSUME NEW k \in Installers, CopyPackageSurface(k) PROVE AloneInv(i)'
    BY <1>4 DEF CopyPackageSurface
  <1>5. ASSUME NEW k \in Installers, RunInstallHooks(k) PROVE AloneInv(i)'
    BY <1>5 DEF RunInstallHooks
  <1>6. ASSUME NEW k \in Installers, Stat(k) PROVE AloneInv(i)'
    BY <1>6 DEF Stat
  <1>7. ASSUME NEW k \in Installers, MoveAside(k) PROVE AloneInv(i)'
    BY <1>7 DEF MoveAside
  <1>8. ASSUME NEW k \in Installers, MoveAsideFails(k) PROVE AloneInv(i)'
    BY <1>8 DEF MoveAsideFails
  <1>9. ASSUME NEW k \in Installers, Promote(k) PROVE AloneInv(i)'
    BY <1>9 DEF Promote
  <1>10. ASSUME NEW k \in Installers, PromoteFails(k) PROVE AloneInv(i)'
    BY <1>10 DEF PromoteFails
  <1>11. ASSUME NEW k \in Installers, SaveInstall(k) PROVE AloneInv(i)'
    BY <1>11 DEF SaveInstall
  <1>12. ASSUME NEW k \in Installers, SaveInstallFails(k) PROVE AloneInv(i)'
    BY <1>12 DEF SaveInstallFails
  <1>13. ASSUME NEW k \in Installers, Cleanup(k) PROVE AloneInv(i)'
    BY <1>13 DEF Cleanup
  <1>14. ASSUME NEW k \in Installers, RollBack(k) PROVE AloneInv(i)'
    BY <1>14 DEF RollBack
  <1>15. ASSUME NEW k \in Installers, Restore(k) PROVE AloneInv(i)'
    BY <1>15 DEF Restore
  <1>16. ASSUME NEW k \in Installers, Abort(k) PROVE AloneInv(i)'
    BY <1>16 DEF Abort
  <1>17. ASSUME NEW k \in Installers, Die(k) PROVE AloneInv(i)'
    BY <1>17 DEF Die
  <1>18. CASE UNCHANGED vars
    BY <1>18 DEF vars, dirVars, historyVars
  <1>19. QED
    BY <1>1, <1>2, <1>3, <1>4, <1>5, <1>6, <1>7, <1>8, <1>9, <1>10, <1>11,
       <1>12, <1>13, <1>14, <1>15, <1>16, <1>17, <1>18
       DEF Next, Install

LEMMA Invariance == Spec => []Inv
  BY InvInit, InvNext, TypeCorrect, PTL DEF Spec

-----------------------------------------------------------------------------
LEMMA StepAllOrNothing ==
    TypeOK /\ Inv /\ Inv' /\ [Next]_vars
        => [\A i \in alone' : ReturnsAllOrNothing(i)]_vars
  <1> SUFFICES ASSUME TypeOK, Inv, Inv', Next, NEW i \in alone' PROVE ReturnsAllOrNothing(i)
    OBVIOUS
  <1> USE DEF TypeOK, Inv, AloneInv, Goto, Active, Ends, Places, Before, After,
          dirVars, historyVars, Others, ReturnsAllOrNothing
  <1>1. ASSUME NEW k \in Installers, Begin(k) PROVE ReturnsAllOrNothing(i)
    BY <1>1 DEF Begin
  <1>2. ASSUME NEW k \in Installers, Resolve(k) PROVE ReturnsAllOrNothing(i)
    BY <1>2 DEF Resolve
  <1>3. ASSUME NEW k \in Installers, NewInstallStagingDir(k) PROVE ReturnsAllOrNothing(i)
    BY <1>3 DEF NewInstallStagingDir
  <1>4. ASSUME NEW k \in Installers, CopyPackageSurface(k) PROVE ReturnsAllOrNothing(i)
    BY <1>4 DEF CopyPackageSurface
  <1>5. ASSUME NEW k \in Installers, RunInstallHooks(k) PROVE ReturnsAllOrNothing(i)
    BY <1>5 DEF RunInstallHooks
  <1>6. ASSUME NEW k \in Installers, Stat(k) PROVE ReturnsAllOrNothing(i)
    BY <1>6 DEF Stat
  <1>7. ASSUME NEW k \in Installers, MoveAside(k) PROVE ReturnsAllOrNothing(i)
    BY <1>7 DEF MoveAside
  <1>8. ASSUME NEW k \in Installers, MoveAsideFails(k) PROVE ReturnsAllOrNothing(i)
    BY <1>8 DEF MoveAsideFails
  <1>9. ASSUME NEW k \in Installers, Promote(k) PROVE ReturnsAllOrNothing(i)
    BY <1>9 DEF Promote
  <1>10. ASSUME NEW k \in Installers, PromoteFails(k) PROVE ReturnsAllOrNothing(i)
    BY <1>10 DEF PromoteFails
  <1>11. ASSUME NEW k \in Installers, SaveInstall(k) PROVE ReturnsAllOrNothing(i)
    BY <1>11 DEF SaveInstall
  <1>12. ASSUME NEW k \in Installers, SaveInstallFails(k) PROVE ReturnsAllOrNothing(i)
    BY <1>12 DEF SaveInstallFails
  <1>13. ASSUME NEW k \in Installers, Cleanup(k) PROVE ReturnsAllOrNothing(i)
    BY <1>13 DEF Cleanup
  <1>14. ASSUME NEW k \in Installers, RollBack(k) PROVE ReturnsAllOrNothing(i)
    BY <1>14 DEF RollBack
  <1>15. ASSUME NEW k \in Installers, Restore(k) PROVE ReturnsAllOrNothing(i)
    BY <1>15 DEF Restore
  <1>16. ASSUME NEW k \in Installers, Abort(k) PROVE ReturnsAllOrNothing(i)
    BY <1>16 DEF Abort
  <1>17. ASSUME NEW k \in Installers, Die(k) PROVE ReturnsAllOrNothing(i)
    BY <1>17 DEF Die
  <1>18. CASE UNCHANGED vars
    BY <1>18 DEF vars, dirVars, historyVars
  <1>19. QED
    BY <1>1, <1>2, <1>3, <1>4, <1>5, <1>6, <1>7, <1>8, <1>9, <1>10, <1>11,
       <1>12, <1>13, <1>14, <1>15, <1>16, <1>17, <1>18
       DEF Next, Install

\* An install that nothing interferes with is all or nothing.
THEOREM InstallIsAllOrNothing == Spec => AllOrNothing
  BY StepAllOrNothing, Invariance, TypeCorrect, PTL DEF Spec, AllOrNothing

-----------------------------------------------------------------------------
(* No package is lost.  A backup holds one as long as the directory       *)
(* does not, and where the directory was empty from the start, another    *)
(* process that died has left one.                                        *)

SurvivesInv ==
    alone = Installers =>
        /\ record # Nothing => dest # Nothing \/ \E j \in Installers : backup[j] # Nothing
        /\ \A i \in Installers :
             (pc[i] \in After /\ record # Nothing) => \E j \in Installers : backup[j] # Nothing

LEMMA SurvivesInit == Init => SurvivesInv
  BY DEF Init, SurvivesInv, After

LEMMA SurvivesNext == TypeOK /\ Inv /\ SurvivesInv /\ [Next]_vars => SurvivesInv'
  <1> SUFFICES ASSUME TypeOK, Inv, SurvivesInv, [Next]_vars PROVE SurvivesInv'
    OBVIOUS
  <1> USE VersionTypes DEF TypeOK, Inv, AloneInv, Goto, Active, Ends, Places, Before, After,
          dirVars, historyVars, Others, SurvivesInv, Versions
  <1>1. ASSUME NEW k \in Installers, Begin(k) PROVE SurvivesInv'
    BY <1>1 DEF Begin
  <1>2. ASSUME NEW k \in Installers, Resolve(k) PROVE SurvivesInv'
    BY <1>2 DEF Resolve
  <1>3. ASSUME NEW k \in Installers, NewInstallStagingDir(k) PROVE SurvivesInv'
    BY <1>3 DEF NewInstallStagingDir
  <1>4. ASSUME NEW k \in Installers, CopyPackageSurface(k) PROVE SurvivesInv'
    BY <1>4 DEF CopyPackageSurface
  <1>5. ASSUME NEW k \in Installers, RunInstallHooks(k) PROVE SurvivesInv'
    BY <1>5 DEF RunInstallHooks
  <1>6. ASSUME NEW k \in Installers, Stat(k) PROVE SurvivesInv'
    BY <1>6 DEF Stat
  <1>7. ASSUME NEW k \in Installers, MoveAside(k) PROVE SurvivesInv'
    BY <1>7 DEF MoveAside
  <1>8. ASSUME NEW k \in Installers, MoveAsideFails(k) PROVE SurvivesInv'
    BY <1>8 DEF MoveAsideFails
  <1>9. ASSUME NEW k \in Installers, Promote(k) PROVE SurvivesInv'
    BY <1>9 DEF Promote
  <1>10. ASSUME NEW k \in Installers, PromoteFails(k) PROVE SurvivesInv'
    BY <1>10 DEF PromoteFails
  <1>11. ASSUME NEW k \in Installers, SaveInstall(k) PROVE SurvivesInv'
    BY <1>11 DEF SaveInstall
  <1>12. ASSUME NEW k \in Installers, SaveInstallFails(k) PROVE SurvivesInv'
    BY <1>12 DEF SaveInstallFails
  <1>13. ASSUME NEW k \in Installers, Cleanup(k) PROVE SurvivesInv'
    BY <1>13 DEF Cleanup
  <1>14. ASSUME NEW k \in Installers, RollBack(k) PROVE SurvivesInv'
    BY <1>14 DEF RollBack
  <1>15. ASSUME NEW k \in Installers, Restore(k) PROVE SurvivesInv'
    BY <1>15 DEF Restore
  <1>16. ASSUME NEW k \in Installers, Abort(k) PROVE SurvivesInv'
    BY <1>16 DEF Abort
  <1>17. ASSUME NEW k \in Installers, Die(k) PROVE SurvivesInv'
    BY <1>17 DEF Die
  <1>18. CASE UNCHANGED vars
    BY <1>18 DEF vars, dirVars, historyVars
  <1>19. QED
    BY <1>1, <1>2, <1>3, <1>4, <1>5, <1>6, <1>7, <1>8, <1>9, <1>10, <1>11,
       <1>12, <1>13, <1>14, <1>15, <1>16, <1>17, <1>18
       DEF Next, Install

\* As long as no two installs overlap, a recorded package is always somewhere.
THEOREM PackagesSurvive == Spec => []PackageSurvives
  <1>1. SurvivesInv => PackageSurvives
    BY DEF SurvivesInv, PackageSurvives
  <1>2. QED
    BY <1>1, SurvivesInit, SurvivesNext, Invariance, TypeCorrect, PTL DEF Spec

-----------------------------------------------------------------------------
(* HostSetup.  What an overlap or a cut call may spoil is kept apart from    *)
(* what holds in spite of one of them.                                       *)

SetupPlaces == {"new", "check", "create", "fill", "truncate", "append", "done", "dead"}

SetupType ==
    /\ command \in [Commands -> {"absent", "empty", "ours", "other"}]
    /\ guide \in {H!NoGuide} \cup SUBSET H!Parts
    /\ step \in [Setups -> SetupPlaces]
    /\ left \in [Setups -> SUBSET Commands]
    /\ current \in [Setups -> Commands \cup {H!NoCommand}]
    /\ \A s \in Setups : step[s] \in {"create", "fill"} => current[s] \in Commands
    /\ held \in [Setups -> SUBSET H!Parts]
    /\ words \in SUBSET {"user", "marker"} /\ theirs \in SUBSET Commands
    /\ overlap \in BOOLEAN /\ cut \in BOOLEAN

\* A file of the user is not one that a setup is to create or to fill.
TheirsKept ==
    ~overlap => \A f \in theirs :
        /\ command[f] \in {"empty", "other"}
        /\ \A s \in Setups : step[s] \in {"create", "fill"} => current[s] # f

\* A truncated guide comes back with the words that were read before.
WordsKept ==
    ~overlap /\ ~cut =>
        /\ words \subseteq guide \/ \E s \in Setups : step[s] = "append"
        /\ \A s \in Setups : step[s] \in {"truncate", "append"} => words \subseteq held[s]

OneSetup == ~overlap => \A s, t \in Setups : H!Busy(s) /\ H!Busy(t) => s = t

\* What is missing is still to be done by each setup that goes on, or by one.
NothingForgotten ==
    ~cut =>
        /\ \A f \in Commands : command[f] = "empty" =>
               f \in theirs \/ \E s \in Setups : step[s] = "fill" /\ current[s] = f
        /\ \A f \in Commands : command[f] = "absent" => \A s \in Setups :
               f \in left[s] \/ (step[s] = "create" /\ current[s] = f)
        /\ (\E s \in Setups : step[s] = "done") =>
               "section" \in guide \/ \E s \in Setups : step[s] = "append"
        /\ \A s \in Setups : step[s] \in {"truncate", "append", "done"} => left[s] = {}

SetupInv == SetupType /\ OneSetup /\ TheirsKept /\ WordsKept /\ NothingForgotten

LEMMA SetupInit == H!Init => SetupInv
  <1> SUFFICES ASSUME H!Init PROVE SetupInv
    OBVIOUS
  <1> USE DEF H!Init, H!NoGuide, H!Parts
  <1>1. words \subseteq guide /\ words \in SUBSET {"user", "marker"}
    OBVIOUS
  <1>2. guide \in {H!NoGuide} \cup SUBSET H!Parts
    OBVIOUS
  <1>3. SetupType
    BY <1>1, <1>2 DEF SetupType, SetupPlaces
  <1>4. OneSetup
    BY DEF OneSetup, H!Busy
  <1>5. TheirsKept
    BY DEF TheirsKept
  <1>6. WordsKept
    BY <1>1 DEF WordsKept
  <1>7. NothingForgotten
    BY DEF NothingForgotten
  <1>8. QED
    BY <1>3, <1>4, <1>5, <1>6, <1>7 DEF SetupInv

LEMMA SetupTypeNext == SetupType /\ [H!Next]_(H!vars) => SetupType'
  <1> SUFFICES ASSUME SetupType, [H!Next]_(H!vars) PROVE SetupType'
    OBVIOUS
  <1> USE DEF SetupType, SetupPlaces, H!Goto, H!NoGuide, H!Parts
  <1>1. ASSUME NEW k \in Setups, H!Begin(k) PROVE SetupType'
    BY <1>1 DEF H!Begin
  <1>2. ASSUME NEW k \in Setups, H!CreateFile(k) PROVE SetupType'
    BY <1>2 DEF H!CreateFile
  <1>3. ASSUME NEW k \in Setups, H!Fill(k) PROVE SetupType'
    BY <1>3 DEF H!Fill
  <1>4. ASSUME NEW k \in Setups, H!ReadGuide(k) PROVE SetupType'
    <2>1. guide \ H!NoGuide \in SUBSET H!Parts
      OBVIOUS
    <2>2. held' \in [Setups -> SUBSET H!Parts]
      BY <1>4, <2>1 DEF H!ReadGuide
    <2>3. QED
      BY <1>4, <2>2 DEF H!ReadGuide
  <1>5. ASSUME NEW k \in Setups, H!Truncate(k) PROVE SetupType'
    BY <1>5 DEF H!Truncate
  <1>6. ASSUME NEW k \in Setups, H!Append(k) PROVE SetupType'
    BY <1>6 DEF H!Append, H!NewGuide
  <1>7. ASSUME NEW k \in Setups, H!Die(k) PROVE SetupType'
    BY <1>7 DEF H!Die
  <1>8. ASSUME NEW k \in Setups, NEW f \in Commands, H!Check(k, f) PROVE SetupType'
    BY <1>8 DEF H!Check
  <1>9. ASSUME NEW part \in {"user", "marker"}, H!WriteGuide(part) PROVE SetupType'
    BY <1>9 DEF H!WriteGuide
  <1>10. ASSUME NEW f \in Commands, H!WriteCommand(f) PROVE SetupType'
    BY <1>10 DEF H!WriteCommand
  <1>11. CASE UNCHANGED H!vars
    BY <1>11 DEF H!vars
  <1>12. QED
    BY <1>1, <1>2, <1>3, <1>4, <1>5, <1>6, <1>7, <1>8, <1>9,
       <1>10, <1>11
       DEF H!Next, H!User, H!SetupStep

LEMMA OneSetupNext == SetupType /\ OneSetup /\ [H!Next]_(H!vars) => OneSetup'
  <1> SUFFICES ASSUME SetupType, OneSetup, [H!Next]_(H!vars) PROVE OneSetup'
    OBVIOUS
  <1> USE DEF SetupType, SetupPlaces, H!Goto, H!NoGuide, H!Parts,
          OneSetup, H!Busy
  <1>1. ASSUME NEW k \in Setups, H!Begin(k) PROVE OneSetup'
    BY <1>1 DEF H!Begin
  <1>2. ASSUME NEW k \in Setups, H!CreateFile(k) PROVE OneSetup'
    BY <1>2 DEF H!CreateFile
  <1>3. ASSUME NEW k \in Setups, H!Fill(k) PROVE OneSetup'
    BY <1>3 DEF H!Fill
  <1>4. ASSUME NEW k \in Setups, H!ReadGuide(k) PROVE OneSetup'
    BY <1>4 DEF H!ReadGuide
  <1>5. ASSUME NEW k \in Setups, H!Truncate(k) PROVE OneSetup'
    BY <1>5 DEF H!Truncate
  <1>6. ASSUME NEW k \in Setups, H!Append(k) PROVE OneSetup'
    BY <1>6 DEF H!Append
  <1>7. ASSUME NEW k \in Setups, H!Die(k) PROVE OneSetup'
    BY <1>7 DEF H!Die
  <1>8. ASSUME NEW k \in Setups, NEW f \in Commands, H!Check(k, f) PROVE OneSetup'
    BY <1>8 DEF H!Check
  <1>9. ASSUME NEW part \in {"user", "marker"}, H!WriteGuide(part) PROVE OneSetup'
    BY <1>9 DEF H!WriteGuide
  <1>10. ASSUME NEW f \in Commands, H!WriteCommand(f) PROVE OneSetup'
    BY <1>10 DEF H!WriteCommand
  <1>11. CASE UNCHANGED H!vars
    BY <1>11 DEF H!vars
  <1>12. QED
    BY <1>1, <1>2, <1>3, <1>4, <1>5, <1>6, <1>7, <1>8, <1>9,
       <1>10, <1>11
       DEF H!Next, H!User, H!SetupStep

LEMMA TheirsNext == SetupType /\ TheirsKept /\ [H!Next]_(H!vars) => TheirsKept'
  <1> SUFFICES ASSUME SetupType, TheirsKept, [H!Next]_(H!vars) PROVE TheirsKept'
    OBVIOUS
  <1> USE DEF SetupType, SetupPlaces, H!Goto, H!NoGuide, H!Parts,
          TheirsKept, H!Busy
  <1>1. ASSUME NEW k \in Setups, H!Begin(k) PROVE TheirsKept'
    BY <1>1 DEF H!Begin
  <1>2. ASSUME NEW k \in Setups, H!CreateFile(k) PROVE TheirsKept'
    BY <1>2 DEF H!CreateFile
  <1>3. ASSUME NEW k \in Setups, H!Fill(k) PROVE TheirsKept'
    BY <1>3 DEF H!Fill
  <1>4. ASSUME NEW k \in Setups, H!ReadGuide(k) PROVE TheirsKept'
    BY <1>4 DEF H!ReadGuide
  <1>5. ASSUME NEW k \in Setups, H!Truncate(k) PROVE TheirsKept'
    BY <1>5 DEF H!Truncate
  <1>6. ASSUME NEW k \in Setups, H!Append(k) PROVE TheirsKept'
    BY <1>6 DEF H!Append
  <1>7. ASSUME NEW k \in Setups, H!Die(k) PROVE TheirsKept'
    BY <1>7 DEF H!Die
  <1>8. ASSUME NEW k \in Setups, NEW f \in Commands, H!Check(k, f) PROVE TheirsKept'
    BY <1>8 DEF H!Check
  <1>9. ASSUME NEW part \in {"user", "marker"}, H!WriteGuide(part) PROVE TheirsKept'
    BY <1>9 DEF H!WriteGuide
  <1>10. ASSUME NEW f \in Commands, H!WriteCommand(f) PROVE TheirsKept'
    <2>1. /\ theirs' = theirs \cup {f} /\ step' = step /\ current' = current
          /\ \A g \in Commands : command'[g] = IF g = f THEN "other" ELSE command[g]
      BY <1>10 DEF H!WriteCommand
    <2>2. ~overlap' => ~overlap /\ \A s \in Setups : ~H!Busy(s)
      BY <1>10 DEF H!WriteCommand
    <2>3. ~overlap' => \A s \in Setups : step[s] \notin {"create", "fill"}
      BY <2>2
    <2>4. QED
      BY <2>1, <2>2, <2>3
  <1>11. CASE UNCHANGED H!vars
    BY <1>11 DEF H!vars
  <1>12. QED
    BY <1>1, <1>2, <1>3, <1>4, <1>5, <1>6, <1>7, <1>8, <1>9,
       <1>10, <1>11
       DEF H!Next, H!User, H!SetupStep

LEMMA WordsNext == SetupType /\ OneSetup /\ WordsKept /\ [H!Next]_(H!vars) => WordsKept'
  <1> SUFFICES ASSUME SetupType, OneSetup, WordsKept, [H!Next]_(H!vars) PROVE WordsKept'
    OBVIOUS
  <1> USE DEF SetupType, SetupPlaces, H!Goto, H!NoGuide, H!Parts,
          OneSetup, WordsKept, H!Busy
  <1>1. ASSUME NEW k \in Setups, H!Begin(k) PROVE WordsKept'
    BY <1>1 DEF H!Begin
  <1>2. ASSUME NEW k \in Setups, H!CreateFile(k) PROVE WordsKept'
    BY <1>2 DEF H!CreateFile
  <1>3. ASSUME NEW k \in Setups, H!Fill(k) PROVE WordsKept'
    BY <1>3 DEF H!Fill
  <1>4. ASSUME NEW k \in Setups, H!ReadGuide(k) PROVE WordsKept'
    BY <1>4 DEF H!ReadGuide
  <1>5. ASSUME NEW k \in Setups, H!Truncate(k) PROVE WordsKept'
    BY <1>5 DEF H!Truncate
  <1>6. ASSUME NEW k \in Setups, H!Append(k) PROVE WordsKept'
    BY <1>6 DEF H!Append, H!NewGuide
  <1>7. ASSUME NEW k \in Setups, H!Die(k) PROVE WordsKept'
    BY <1>7 DEF H!Die
  <1>8. ASSUME NEW k \in Setups, NEW f \in Commands, H!Check(k, f) PROVE WordsKept'
    BY <1>8 DEF H!Check
  <1>9. ASSUME NEW part \in {"user", "marker"}, H!WriteGuide(part) PROVE WordsKept'
    BY <1>9 DEF H!WriteGuide
  <1>10. ASSUME NEW f \in Commands, H!WriteCommand(f) PROVE WordsKept'
    BY <1>10 DEF H!WriteCommand
  <1>11. CASE UNCHANGED H!vars
    BY <1>11 DEF H!vars
  <1>12. QED
    BY <1>1, <1>2, <1>3, <1>4, <1>5, <1>6, <1>7, <1>8, <1>9,
       <1>10, <1>11
       DEF H!Next, H!User, H!SetupStep

LEMMA ForgottenNext == SetupType /\ NothingForgotten /\ [H!Next]_(H!vars) => NothingForgotten'
  <1> SUFFICES ASSUME SetupType, NothingForgotten, [H!Next]_(H!vars) PROVE NothingForgotten'
    OBVIOUS
  <1> USE DEF SetupType, SetupPlaces, H!Goto, H!NoGuide, H!Parts,
          NothingForgotten
  <1>1. ASSUME NEW k \in Setups, H!Begin(k) PROVE NothingForgotten'
    BY <1>1 DEF H!Begin
  <1>2. ASSUME NEW k \in Setups, H!CreateFile(k) PROVE NothingForgotten'
    BY <1>2 DEF H!CreateFile
  <1>3. ASSUME NEW k \in Setups, H!Fill(k) PROVE NothingForgotten'
    BY <1>3 DEF H!Fill
  <1>4. ASSUME NEW k \in Setups, H!ReadGuide(k) PROVE NothingForgotten'
    BY <1>4 DEF H!ReadGuide
  <1>5. ASSUME NEW k \in Setups, H!Truncate(k) PROVE NothingForgotten'
    BY <1>5 DEF H!Truncate
  <1>6. ASSUME NEW k \in Setups, H!Append(k) PROVE NothingForgotten'
    BY <1>6 DEF H!Append, H!NewGuide
  <1>7. ASSUME NEW k \in Setups, H!Die(k) PROVE NothingForgotten'
    BY <1>7 DEF H!Die
  <1>8. ASSUME NEW k \in Setups, NEW f \in Commands, H!Check(k, f) PROVE NothingForgotten'
    BY <1>8 DEF H!Check
  <1>9. ASSUME NEW part \in {"user", "marker"}, H!WriteGuide(part) PROVE NothingForgotten'
    BY <1>9 DEF H!WriteGuide
  <1>10. ASSUME NEW f \in Commands, H!WriteCommand(f) PROVE NothingForgotten'
    BY <1>10 DEF H!WriteCommand
  <1>11. CASE UNCHANGED H!vars
    BY <1>11 DEF H!vars
  <1>12. QED
    BY <1>1, <1>2, <1>3, <1>4, <1>5, <1>6, <1>7, <1>8, <1>9,
       <1>10, <1>11
       DEF H!Next, H!User, H!SetupStep

LEMMA SetupInvariance == H!Spec => []SetupInv
  <1>1. SetupInv /\ [H!Next]_(H!vars) => SetupInv'
    BY SetupTypeNext, OneSetupNext, TheirsNext, WordsNext, ForgottenNext DEF SetupInv
  <1>2. QED
    BY <1>1, SetupInit, PTL DEF H!Spec

\* A setup adds and never takes away, and leaves what epics host doctor looks
\* for (WriteIfMissingOrSame, AppendSection).
THEOREM SetupsAddOnly == H!Spec => []SetupAddsOnly
  <1>1. SetupInv => SetupAddsOnly
    <2> SUFFICES ASSUME SetupInv, \A s \in Setups : ~H!Busy(s)
                 PROVE  /\ ~overlap => \A f \in theirs : command[f] \in {"empty", "other"}
                        /\ ~overlap /\ ~cut => words \subseteq guide
                        /\ ~cut /\ (\E s \in Setups : step[s] = "done") => H!HostDoctorOk(theirs)
      BY DEF SetupAddsOnly, H!SetupAddsOnly
    <2>1. \A s \in Setups : step[s] \notin {"create", "fill", "append"}
      BY DEF H!Busy
    <2>2. ~overlap => \A f \in theirs : command[f] \in {"empty", "other"}
      BY DEF SetupInv, TheirsKept
    <2>3. ~overlap /\ ~cut => words \subseteq guide
      BY <2>1 DEF SetupInv, WordsKept
    <2>4. ASSUME ~cut, NEW s \in Setups, step[s] = "done" PROVE H!HostDoctorOk(theirs)
      <3>1. "section" \in guide
        BY <2>1, <2>4 DEF SetupInv, NothingForgotten
      <3>2. ASSUME NEW f \in Commands PROVE H!CommandOk(f) \/ f \in theirs
        BY <2>1, <2>4 DEF SetupInv, SetupType, NothingForgotten, H!CommandOk
      <3>3. QED
        BY <3>1, <3>2 DEF H!HostDoctorOk, H!GuideOk
    <2>5. QED
      BY <2>2, <2>3, <2>4
  <1>2. QED
    BY <1>1, SetupInvariance, PTL

-----------------------------------------------------------------------------
(* Numbers *)

\* A set of natural numbers has a least element, and a largest one if it has a
\* bound.
LEMMA LeastNumber ==
    ASSUME NEW S \in SUBSET Nat, S # {}
    PROVE  \E x \in S : \A y \in S : x <= y
  <1> DEFINE less == OpToRel(<, Nat)
  <1>1. IsWellFoundedOn(less, Nat)
    BY NatLessThanWellFounded
  <1>2. \A x, y \in Nat : <<x, y>> \in less <=> x < y
    BY DEF OpToRel
  <1> HIDE DEF less
  <1>3. PICK x \in S : \A y \in S : ~ (<<y, x>> \in less)
    BY <1>1, WFMin
  <1>4. ASSUME NEW y \in S PROVE x <= y
    <2>1. x \in Nat /\ y \in Nat /\ ~ (<<y, x>> \in less)
      BY <1>3
    <2>2. ~ (y < x)
      BY <1>2, <2>1
    <2>3. QED
      BY <2>1, <2>2
  <1>5. QED
    BY <1>4

LEMMA LargestNumber ==
    ASSUME NEW S \in SUBSET Nat, S # {}, NEW b \in Nat, \A y \in S : y <= b
    PROVE  \E x \in S : \A y \in S : y <= x
  <1> DEFINE T == {n \in Nat : \E y \in S : n = b - y}
  <1>1. T # {}
    <2>1. PICK y \in S : TRUE
      OBVIOUS
    <2>2. b - y \in Nat
      OBVIOUS
    <2>3. b - y \in T
      BY <2>2
    <2>4. QED
      BY <2>3
  <1>2. PICK t \in T : \A u \in T : t <= u
    BY <1>1, LeastNumber
  <1>3. PICK x \in S : t = b - x
    BY <1>2
  <1>4. ASSUME NEW y \in S PROVE y <= x
    <2>1. b - y \in T
      OBVIOUS
    <2>2. t <= b - y
      BY <1>2, <2>1
    <2>3. QED
      BY <1>3, <2>2
  <1>5. QED
    BY <1>4

-----------------------------------------------------------------------------
(* Powers.  The recursion that defines them has a solution: a table of the   *)
(* first powers can be made of any length, and two tables agree.             *)

Table(t, n) ==
    /\ t \in [0 .. n -> Nat] /\ t[0] = 1
    /\ \A i \in 1 .. n : t[i] = Base * t[i - 1]

LEMMA TableExists == ASSUME Base \in Nat, NEW n \in Nat PROVE \E t : Table(t, n)
  <1> DEFINE Bad == {m \in Nat : ~ \E t : Table(t, m)}
  <1> SUFFICES ASSUME Bad # {} PROVE FALSE
    OBVIOUS
  <1>1. PICK m \in Bad : \A k \in Bad : m <= k
    BY LeastNumber
  <1>2. m # 0
    <2>1. Table([i \in 0 .. 0 |-> 1], 0)
      BY DEF Table
    <2>2. QED
      BY <1>1, <2>1
  <1>3. m - 1 \in Nat /\ m \in Nat /\ m - 1 \notin Bad
    BY <1>1, <1>2
  <1>4. PICK t : Table(t, m - 1)
    BY <1>3
  <1> DEFINE u == [i \in 0 .. m |-> IF i = m THEN Base * t[m - 1] ELSE t[i]]
  <1>5. t \in [0 .. (m - 1) -> Nat] /\ t[0] = 1 /\ \A i \in 1 .. (m - 1) : t[i] = Base * t[i - 1]
    BY <1>4 DEF Table
  <1>6. Base * t[m - 1] \in Nat
    BY <1>3, <1>5
  <1>7. u \in [0 .. m -> Nat] /\ u[0] = 1
    BY <1>2, <1>3, <1>5, <1>6
  <1>8. ASSUME NEW i \in 1 .. m PROVE u[i] = Base * u[i - 1]
    <2>1. i - 1 \in 0 .. m /\ i - 1 # m /\ i \in 0 .. m
      BY <1>3
    <2>2. u[i - 1] = t[i - 1]
      BY <2>1
    <2>3. CASE i = m
      BY <2>1, <2>2, <2>3
    <2>4. CASE i # m
      <3>1. i \in 1 .. (m - 1)
        BY <1>3, <2>4
      <3>2. QED
        BY <1>5, <2>1, <2>2, <2>4, <3>1
    <2>5. QED
      BY <2>3, <2>4
  <1>9. Table(u, m)
    BY <1>7, <1>8 DEF Table
  <1>10. QED
    BY <1>1, <1>9

LEMMA TablesAgree ==
    ASSUME NEW n \in Nat, NEW m \in Nat, NEW t, NEW u, Table(t, n), Table(u, m),
           NEW i \in Nat, i <= n, i <= m
    PROVE  t[i] = u[i]
  <1> DEFINE Bad == {k \in 0 .. i : t[k] # u[k]}
  <1> SUFFICES ASSUME Bad # {} PROVE FALSE
    OBVIOUS
  <1>1. PICK k \in Bad : \A j \in Bad : k <= j
    <2>1. Bad \in SUBSET Nat
      OBVIOUS
    <2>2. QED
      BY <2>1, LeastNumber
  <1>2. k # 0
    BY <1>1 DEF Table
  <1>3. k - 1 \in 0 .. i /\ k - 1 \notin Bad /\ k \in 1 .. n /\ k \in 1 .. m
    BY <1>1, <1>2
  <1>4. t[k] = Base * t[k - 1] /\ u[k] = Base * u[k - 1]
    BY <1>3 DEF Table
  <1>5. QED
    BY <1>1, <1>3, <1>4

LEMMA PowerIs ==
    ASSUME Base \in Nat
    PROVE  D!Power = [l \in Nat |-> IF l = 0 THEN 1 ELSE Base * D!Power[l - 1]]
  <1> DEFINE T(n) == CHOOSE t : Table(t, n)
             p == [n \in Nat |-> T(n)[n]]
             q == [l \in Nat |-> IF l = 0 THEN 1 ELSE Base * p[l - 1]]
  <1>1. \A n \in Nat : Table(T(n), n)
    BY TableExists
  <1> HIDE DEF T
  <1>2. ASSUME NEW n \in Nat PROVE p[n] = q[n]
    <2>1. CASE n = 0
      BY <1>1, <2>1 DEF Table
    <2>2. CASE n # 0
      <3>1. n - 1 \in Nat /\ n \in 1 .. n /\ n - 1 <= n
        BY <2>2
      <3>2. T(n)[n] = Base * T(n)[n - 1]
        BY <1>1, <3>1 DEF Table
      <3>3. T(n)[n - 1] = T(n - 1)[n - 1]
        BY <1>1, <3>1, TablesAgree
      <3>4. p[n - 1] = T(n - 1)[n - 1] /\ p[n] = T(n)[n]
        BY <3>1
      <3>5. q[n] = Base * p[n - 1]
        BY <2>2
      <3>6. QED
        BY <3>2, <3>3, <3>4, <3>5
    <2>3. QED
      BY <2>1, <2>2
  <1>3. p = q
    <2> HIDE DEF p, q
    <2>1. p = [n \in Nat |-> p[n]] /\ q = [n \in Nat |-> q[n]]
      BY DEF p, q
    <2>2. QED
      BY <1>2, <2>1, Zenon
  <1>4. p = [l \in Nat |-> IF l = 0 THEN 1 ELSE Base * p[l - 1]]
    <2> HIDE DEF p
    <2>1. QED
      BY <1>3 DEF q
  <1> HIDE DEF p, q
  <1>5. QED
    BY <1>4 DEF D!Power

\* Every power is positive and Base times the one before it.
LEMMA Powers ==
    ASSUME Base \in Nat \ {0}
    PROVE  /\ D!Power[0] = 1
           /\ \A l \in Nat : D!Power[l + 1] = Base * D!Power[l]
           /\ \A l \in Nat : D!Power[l] \in Nat \ {0}
  <1> DEFINE Bad == {l \in Nat : D!Power[l] \notin Nat \ {0}}
  <1>1. D!Power[0] = 1 /\ \A l \in Nat \ {0} : D!Power[l] = Base * D!Power[l - 1]
    BY PowerIs
  <1>2. ASSUME NEW l \in Nat PROVE D!Power[l + 1] = Base * D!Power[l]
    <2>1. l + 1 \in Nat \ {0} /\ (l + 1) - 1 = l
      OBVIOUS
    <2>2. D!Power[l + 1] = Base * D!Power[(l + 1) - 1]
      BY <1>1, <2>1
    <2>3. QED
      BY <2>1, <2>2
  <1>3. ASSUME Bad # {} PROVE FALSE
    <2>1. PICK l \in Bad : \A k \in Bad : l <= k
      <3>1. Bad \in SUBSET Nat
        OBVIOUS
      <3>2. QED
        BY <1>3, <3>1, LeastNumber
    <2>2. l # 0
      BY <1>1, <2>1
    <2>3. l - 1 \in Nat /\ l - 1 \notin Bad
      BY <2>1, <2>2
    <2>4. D!Power[l] = Base * D!Power[l - 1] /\ D!Power[l - 1] \in Nat \ {0}
      BY <1>1, <2>2, <2>3
    <2>5. Base * D!Power[l - 1] \in Nat \ {0}
      BY <2>4
    <2>6. QED
      BY <2>1, <2>4, <2>5
  <1>4. QED
    BY <1>1, <1>2, <1>3

LEMMA PowersGrow ==
    ASSUME Base \in Nat \ {0}, NEW k \in Nat, NEW l \in Nat, k <= l
    PROVE  D!Power[k] <= D!Power[l]
  <1> DEFINE Bad == {j \in Nat : k <= j /\ ~ (D!Power[k] <= D!Power[j])}
  <1> SUFFICES ASSUME Bad # {} PROVE FALSE
    OBVIOUS
  <1>1. PICK j \in Bad : \A i \in Bad : j <= i
    <2>1. Bad \in SUBSET Nat
      OBVIOUS
    <2>2. QED
      BY <2>1, LeastNumber
  <1>2. j # k
    BY <1>1, Powers
  <1>3. j - 1 \in Nat /\ k <= j - 1 /\ j - 1 \notin Bad /\ (j - 1) + 1 = j
    BY <1>1, <1>2
  <1>4. D!Power[j] = Base * D!Power[j - 1]
    BY <1>3, Powers
  <1>5. D!Power[k] \in Nat /\ D!Power[j - 1] \in Nat /\ D!Power[k] <= D!Power[j - 1]
    BY <1>3, Powers
  <1>6. Base * D!Power[j - 1] >= D!Power[j - 1]
    BY <1>5
  <1>7. Base * D!Power[j - 1] \in Nat
    BY <1>5
  <1>8. QED
    BY <1>1, <1>4, <1>5, <1>6, <1>7

\* Powers outgrow their exponents, so that every number has a length.
LEMMA PowerAbove ==
    ASSUME Base \in Nat \ {0, 1}, NEW n \in Nat
    PROVE  n < D!Power[n]
  <1> DEFINE Bad == {j \in Nat : ~ (j < D!Power[j])}
  <1> SUFFICES ASSUME Bad # {} PROVE FALSE
    OBVIOUS
  <1>1. PICK j \in Bad : \A i \in Bad : j <= i
    <2>1. Bad \in SUBSET Nat
      OBVIOUS
    <2>2. QED
      BY <2>1, LeastNumber
  <1>2. j # 0
    BY <1>1, Powers
  <1>3. j - 1 \in Nat /\ j - 1 \notin Bad /\ (j - 1) + 1 = j
    BY <1>1, <1>2
  <1>4. D!Power[j] = Base * D!Power[j - 1]
    BY <1>3, Powers
  <1>5. D!Power[j - 1] \in Nat /\ j - 1 < D!Power[j - 1]
    BY <1>3, Powers
  <1> DEFINE p == D!Power[j - 1]
  <1>6. Base * p >= 2 * p /\ Base * p \in Nat
    BY <1>5
  <1>7. 2 * p > j
    BY <1>2, <1>3, <1>5
  <1>8. j < D!Power[j]
    <2> HIDE DEF p
    <2>1. p \in Nat
      BY <1>5 DEF p
    <2>2. D!Power[j] = Base * p
      BY <1>4 DEF p
    <2>3. QED
      BY <1>1, <1>6, <1>7, <2>1, <2>2
  <1>9. QED
    BY <1>1, <1>8

LEMMA LengthType ==
    ASSUME D!DirectoryTypes, NEW n \in 0 .. MaxNumber
    PROVE  D!Length(n) \in Width .. (Width + MaxNumber)
  <1> DEFINE Is(l) == D!Power[l] > n /\ (l > Width => D!Power[l - 1] <= n)
             Above == {l \in Nat : Width <= l /\ D!Power[l] > n}
  <1>1. Width \in Nat /\ MaxNumber \in Nat /\ Base \in Nat \ {0, 1}
    BY DEF D!DirectoryTypes
  <1>2. Width + MaxNumber \in Above
    <2>1. Width + MaxNumber \in Nat /\ Width <= Width + MaxNumber /\ n <= Width + MaxNumber
      BY <1>1
    <2>2. Width + MaxNumber < D!Power[Width + MaxNumber]
      BY <1>1, <2>1, PowerAbove
    <2>3. D!Power[Width + MaxNumber] \in Nat
      BY <1>1, <2>1, Powers
    <2>4. QED
      BY <2>1, <2>2, <2>3
  <1>3. PICK l \in Above : \A k \in Above : l <= k
    <2>1. Above \in SUBSET Nat /\ Above # {}
      BY <1>2
    <2>2. QED
      BY <2>1, LeastNumber
  <1>4. l \in Width .. (Width + MaxNumber)
    BY <1>1, <1>2, <1>3
  <1>5. ASSUME l > Width PROVE D!Power[l - 1] <= n
    <2>1. l - 1 \in Nat /\ Width <= l - 1 /\ l - 1 \notin Above
      BY <1>1, <1>3, <1>4, <1>5
    <2>2. D!Power[l - 1] \in Nat
      BY <1>1, <2>1, Powers
    <2>3. QED
      BY <2>1, <2>2
  <1>6. Is(l)
    BY <1>3, <1>5
  <1> HIDE DEF Is
  <1>7. (CHOOSE k \in Width .. (Width + MaxNumber) : Is(k)) \in Width .. (Width + MaxNumber)
    BY <1>4, <1>6
  <1>8. QED
    BY <1>7 DEF D!Length, Is

-----------------------------------------------------------------------------
(* EpicDirectory.  A creation that ends leaves its plan in the directory that *)
(* those who come later count.                                               *)

LEMMA DirectoryConstants == D!DirectoryTypes' = D!DirectoryTypes
  BY DEF D!DirectoryTypes

Making == {"open", "write", "done"}

DirectoryType ==
    /\ runtime \in BOOLEAN /\ disturbed \in BOOLEAN
    /\ plans \in SUBSET D!Files
    /\ place \in [Creators -> {"new", "counted", "failed"} \cup Making]
    /\ number \in [Creators -> 0 .. MaxNumber]
    /\ \A c \in Creators : place[c] \in {"counted"} \cup Making => number[c] \in 1 .. MaxNumber
    /\ path \in [Creators -> D!Files \cup {D!NoFile}]
    /\ \A c \in Creators : place[c] \in Making => path[c] \in D!Files
    /\ after \in [Creators -> SUBSET Creators]

\* A plan that is made is the creator's own, and it is one of the plans that
\* List gives.
PlansMade ==
    ~disturbed =>
        /\ \A c \in Creators : place[c] \in Making =>
               path[c].runtime = runtime /\ path[c].md /\ path[c].no = number[c]
               /\ D!Numbered(path[c])
        /\ \A c \in Creators : place[c] \in {"write", "done"} => path[c] \in plans
        /\ \A b, c \in Creators :
               place[b] \in {"write", "done"} /\ place[c] \in {"write", "done"} /\ b # c
                   => path[b] # path[c]

PlansCounted ==
    /\ \A c \in Creators : \A b \in after[c] : D!Ended(b)
    /\ ~disturbed => \A c \in Creators : place[c] \in {"counted"} \cup Making =>
           \A b \in after[c] : place[b] = "done" => path[b].no < number[c]

PlansInv == D!DirectoryTypes /\ DirectoryType /\ PlansMade /\ PlansCounted

\* The next number is above those of all plans that have one.
LEMMA NextNumberIsNext ==
    ASSUME D!DirectoryTypes, DirectoryType
    PROVE  /\ D!nextNumber \in Nat \ {0}
           /\ \A f \in D!List : D!Numbered(f) => f.no < D!nextNumber
  <1> DEFINE named == {f \in D!List : D!Numbered(f)}
             numbers == {f.no : f \in named} \cup {0}
  <1>1. \A f \in named : f.no \in 0 .. MaxNumber
    BY DEF D!List, D!PlanFiles, D!collectFiles, DirectoryType, D!Files
  <1>2. numbers \in SUBSET Nat /\ numbers # {} /\ MaxNumber \in Nat /\ \A n \in numbers : n <= MaxNumber
    BY <1>1 DEF D!DirectoryTypes
  <1>3. \A f \in named : f.no \in numbers
    OBVIOUS
  <1>4. D!nextNumber = D!Max(numbers) + 1
    BY DEF D!nextNumber
  <1> HIDE DEF numbers
  <1>5. \E n \in numbers : \A m \in numbers : m <= n
    BY <1>2, LargestNumber
  <1>6. \E n \in numbers : \A m \in numbers : n >= m
    BY <1>2, <1>5
  <1>7. D!Max(numbers) \in numbers /\ \A m \in numbers : D!Max(numbers) >= m
    BY <1>6 DEF D!Max
  <1>8. D!Max(numbers) \in Nat
    BY <1>2, <1>7
  <1>9. ASSUME NEW f \in D!List, D!Numbered(f) PROVE f.no < D!Max(numbers) + 1
    <2>1. f.no \in Nat /\ D!Max(numbers) >= f.no
      BY <1>2, <1>3, <1>7, <1>9
    <2>2. QED
      BY <1>8, <2>1
  <1>10. QED
    BY <1>4, <1>8, <1>9

LEMMA PlansInit == D!DirectoryTypes /\ D!Init => PlansInv
  <1> SUFFICES ASSUME D!DirectoryTypes, D!Init PROVE PlansInv
    OBVIOUS
  <1> USE DEF D!Init
  <1>1. DirectoryType
    <2>1. number \in [Creators -> 0 .. MaxNumber]
      BY DEF D!DirectoryTypes
    <2>2. path \in [Creators -> D!Files \cup {D!NoFile}] /\ plans \in SUBSET D!Files
      OBVIOUS
    <2>3. after \in [Creators -> SUBSET Creators]
      OBVIOUS
    <2>4. QED
      BY <2>1, <2>2, <2>3 DEF DirectoryType, Making
  <1>2. PlansMade /\ PlansCounted
    BY DEF PlansMade, PlansCounted, Making
  <1>3. QED
    BY <1>1, <1>2 DEF PlansInv

LEMMA DirectoryTypeNext == D!DirectoryTypes /\ DirectoryType /\ [D!Next]_(D!vars) => DirectoryType'
  <1> SUFFICES ASSUME D!DirectoryTypes, DirectoryType, [D!Next]_(D!vars) PROVE DirectoryType'
    OBVIOUS
  <1> USE DEF DirectoryType, Making, D!logVars, D!planVars
  <1>1. ASSUME NEW k \in Creators, D!Count(k) PROVE DirectoryType'
    <2>1. D!nextNumber \in 1 .. MaxNumber
      BY <1>1, NextNumberIsNext DEF D!Count, D!DirectoryTypes
    <2>2. {d \in Creators : D!Ended(d)} \in SUBSET Creators
      OBVIOUS
    <2>3. QED
      BY <1>1, <2>1, <2>2 DEF D!Count
  <1>2. ASSUME NEW k \in Creators, D!Detect(k) PROVE DirectoryType'
    <2>1. PICK s \in Slugs :
              path' = [path EXCEPT ![k] = [runtime |-> runtime, no |-> number[k],
                                           digits |-> D!Length(number[k]), slug |-> s, md |-> TRUE]]
      BY <1>2 DEF D!Detect
    <2>2. [runtime |-> runtime, no |-> number[k], digits |-> D!Length(number[k]),
           slug |-> s, md |-> TRUE] \in D!Files
      <3>1. D!Length(number[k]) \in 0 .. (Width + MaxNumber)
        BY LengthType DEF D!DirectoryTypes
      <3>2. QED
        BY <1>2, <3>1 DEF D!Detect, D!Files
    <2>3. QED
      BY <1>2, <2>1, <2>2 DEF D!Detect
  <1>3. ASSUME NEW k \in Creators, D!Open(k) PROVE DirectoryType'
    BY <1>3 DEF D!Open
  <1>4. ASSUME NEW k \in Creators, D!WriteTitle(k) PROVE DirectoryType'
    BY <1>4 DEF D!WriteTitle
  <1>5. ASSUME NEW k \in Creators, D!Fail(k) PROVE DirectoryType'
    BY <1>5 DEF D!Fail
  <1>6. ASSUME D!SwitchLayout PROVE DirectoryType'
    BY <1>6 DEF D!SwitchLayout
  <1>7. ASSUME NEW f \in ByHand, D!AddFile(f) PROVE DirectoryType'
    BY <1>7 DEF D!AddFile, D!DirectoryTypes
  <1>8. ASSUME NEW f \in plans, D!RemoveFile(f) PROVE DirectoryType'
    BY <1>8 DEF D!RemoveFile
  <1>9. ASSUME NEW n \in D!LogNames, D!CreateLog(n) \/ D!TouchLog(n) PROVE DirectoryType'
    BY <1>9 DEF D!CreateLog, D!TouchLog, D!Write
  <1>10. CASE UNCHANGED D!vars
    BY <1>10 DEF D!vars, D!planVars, D!logVars
  <1>11. QED
    BY <1>1, <1>2, <1>3, <1>4, <1>5, <1>6, <1>7, <1>8, <1>9, <1>10
       DEF D!Next, D!Author, D!Create

LEMMA PlansMadeNext == D!DirectoryTypes /\ DirectoryType /\ PlansMade /\ [D!Next]_(D!vars) => PlansMade'
  <1> SUFFICES ASSUME D!DirectoryTypes, DirectoryType, PlansMade, [D!Next]_(D!vars) PROVE PlansMade'
    OBVIOUS
  <1> USE DEF DirectoryType, Making, D!logVars, D!planVars, PlansMade
  <1>1. ASSUME NEW k \in Creators, D!Count(k) PROVE PlansMade'
    BY <1>1 DEF D!Count
  <1>2. ASSUME NEW k \in Creators, D!Detect(k) PROVE PlansMade'
    <2>1. D!Length(number[k]) > 0
      <3>1. number[k] \in 0 .. MaxNumber /\ Width \in Nat \ {0} /\ MaxNumber \in Nat
        BY DEF D!DirectoryTypes
      <3>2. D!Length(number[k]) \in Width .. (Width + MaxNumber)
        BY <3>1, LengthType
      <3>3. QED
        BY <3>1, <3>2
    <2>2. PICK s \in Slugs :
              path' = [path EXCEPT ![k] = [runtime |-> runtime, no |-> number[k],
                                           digits |-> D!Length(number[k]), slug |-> s, md |-> TRUE]]
      BY <1>2 DEF D!Detect
    <2>3. D!Numbered(path[k])' /\ \A c \in Creators \ {k} : path'[c] = path[c]
      BY <2>1, <2>2 DEF D!Numbered
    <2>4. QED
      BY <1>2, <2>2, <2>3 DEF D!Detect, D!Numbered
  <1>3. ASSUME NEW k \in Creators, D!Open(k) PROVE PlansMade'
    BY <1>3 DEF D!Open
  <1>4. ASSUME NEW k \in Creators, D!WriteTitle(k) PROVE PlansMade'
    BY <1>4 DEF D!WriteTitle
  <1>5. ASSUME NEW k \in Creators, D!Fail(k) PROVE PlansMade'
    BY <1>5 DEF D!Fail
  <1>6. ASSUME D!SwitchLayout PROVE PlansMade'
    BY <1>6 DEF D!SwitchLayout
  <1>7. ASSUME NEW f \in ByHand, D!AddFile(f) PROVE PlansMade'
    BY <1>7 DEF D!AddFile
  <1>8. ASSUME NEW f \in plans, D!RemoveFile(f) PROVE PlansMade'
    BY <1>8 DEF D!RemoveFile
  <1>9. ASSUME NEW n \in D!LogNames, D!CreateLog(n) \/ D!TouchLog(n) PROVE PlansMade'
    BY <1>9 DEF D!CreateLog, D!TouchLog, D!Write
  <1>10. CASE UNCHANGED D!vars
    BY <1>10 DEF D!vars, D!planVars, D!logVars
  <1>11. QED
    BY <1>1, <1>2, <1>3, <1>4, <1>5, <1>6, <1>7, <1>8, <1>9, <1>10
       DEF D!Next, D!Author, D!Create

LEMMA PlansCountedNext == D!DirectoryTypes /\ DirectoryType /\ PlansMade /\ PlansCounted /\ [D!Next]_(D!vars) => PlansCounted'
  <1> SUFFICES ASSUME D!DirectoryTypes, DirectoryType, PlansMade, PlansCounted, [D!Next]_(D!vars) PROVE PlansCounted'
    OBVIOUS
  <1> USE DEF DirectoryType, Making, D!logVars, D!planVars,
          PlansCounted, D!Ended
  <1>1. ASSUME NEW k \in Creators, D!Count(k) PROVE PlansCounted'
    <2>1. ASSUME ~disturbed, NEW b \in Creators, place[b] = "done"
          PROVE  path[b].no < D!nextNumber
      <3>1. path[b] \in D!List /\ D!Numbered(path[b])
        BY <2>1 DEF PlansMade, D!List, D!PlanFiles, D!collectFiles
      <3>2. QED
        BY <3>1, NextNumberIsNext
    <2>2. /\ number' = [number EXCEPT ![k] = D!nextNumber]
          /\ after' = [after EXCEPT ![k] = {d \in Creators : D!Ended(d)}]
          /\ place' = [place EXCEPT ![k] = "counted"] /\ place[k] = "new"
          /\ UNCHANGED <<path, disturbed>>
      BY <1>1 DEF D!Count
    <2>3. \A c \in Creators : \A b \in after'[c] : D!Ended(b)'
      BY <2>2
    <2>4. ASSUME ~disturbed, NEW c \in Creators, place'[c] \in {"counted"} \cup Making,
                 NEW b \in after'[c], place'[b] = "done"
          PROVE  path'[b].no < number'[c]
      <3>1. b \in Creators /\ b # k /\ place[b] = "done"
        BY <2>2, <2>4
      <3>2. CASE c = k
        BY <2>1, <2>2, <2>4, <3>1, <3>2
      <3>3. CASE c # k
        BY <2>2, <2>4, <3>1, <3>3
      <3>4. QED
        BY <3>2, <3>3
    <2>5. QED
      BY <2>2, <2>3, <2>4
  <1>2. ASSUME NEW k \in Creators, D!Detect(k) PROVE PlansCounted'
    BY <1>2 DEF D!Detect
  <1>3. ASSUME NEW k \in Creators, D!Open(k) PROVE PlansCounted'
    BY <1>3 DEF D!Open
  <1>4. ASSUME NEW k \in Creators, D!WriteTitle(k) PROVE PlansCounted'
    BY <1>4 DEF D!WriteTitle
  <1>5. ASSUME NEW k \in Creators, D!Fail(k) PROVE PlansCounted'
    BY <1>5 DEF D!Fail
  <1>6. ASSUME D!SwitchLayout PROVE PlansCounted'
    BY <1>6 DEF D!SwitchLayout
  <1>7. ASSUME NEW f \in ByHand, D!AddFile(f) PROVE PlansCounted'
    BY <1>7 DEF D!AddFile
  <1>8. ASSUME NEW f \in plans, D!RemoveFile(f) PROVE PlansCounted'
    BY <1>8 DEF D!RemoveFile
  <1>9. ASSUME NEW n \in D!LogNames, D!CreateLog(n) \/ D!TouchLog(n) PROVE PlansCounted'
    BY <1>9 DEF D!CreateLog, D!TouchLog, D!Write
  <1>10. CASE UNCHANGED D!vars
    BY <1>10 DEF D!vars, D!planVars, D!logVars
  <1>11. QED
    BY <1>1, <1>2, <1>3, <1>4, <1>5, <1>6, <1>7, <1>8, <1>9, <1>10
       DEF D!Next, D!Author, D!Create

LEMMA PlansInvariance == D!DirectoryTypes /\ D!Spec => []PlansInv
  <1>1. PlansInv /\ [D!Next]_(D!vars) => PlansInv'
    BY DirectoryTypeNext, PlansMadeNext, PlansCountedNext, DirectoryConstants DEF PlansInv
  <1>2. QED
    BY <1>1, PlansInit, PTL DEF D!Spec

\* Without a lock and yet in order: a created plan stays, is nobody else's, and
\* has a number above those of the plans created before (Create, nextNumber).
THEOREM PlansAreInOrder == D!DirectoryTypes /\ D!Spec => []PlansInOrder
  <1>1. PlansInv => PlansInOrder
    BY DEF PlansInv, DirectoryType, PlansMade, PlansCounted, Making,
       PlansInOrder, D!PlansInOrder, D!Done
  <1>2. QED
    BY <1>1, PlansInvariance, PTL

-----------------------------------------------------------------------------
(* Digits.  A number that fits its width has that many digits, and the       *)
(* quotients by ever smaller powers are put together from them.              *)

LEMMA Quotient ==
    ASSUME NEW n \in Nat, NEW d \in Nat \ {0}
    PROVE  n = d * (n \div d) + (n % d) /\ n % d \in 0 .. (d - 1) /\ n \div d \in Nat
  OBVIOUS

LEMMA QuotientOnly ==
    ASSUME NEW d \in Nat \ {0}, NEW n \in Nat, NEW a \in Nat, NEW r \in 0 .. d - 1,
           n = d * a + r
    PROVE  n \div d = a
  <1> DEFINE b == n \div d
             s == n % d
  <1>1. b \in Nat /\ s \in 0 .. d - 1 /\ n = d * b + s
    BY Quotient
  <1> HIDE DEF b, s
  <1>2. ~ (a >= b + 1)
    <2> SUFFICES ASSUME a >= b + 1 PROVE FALSE
      OBVIOUS
    <2>1. d * a >= d * b + d
      BY <1>1
    <2>2. d * a \in Nat /\ d * b \in Nat
      BY <1>1
    <2>3. QED
      BY <1>1, <2>1, <2>2
  <1>3. ~ (b >= a + 1)
    <2> SUFFICES ASSUME b >= a + 1 PROVE FALSE
      OBVIOUS
    <2>1. d * b >= d * a + d
      BY <1>1
    <2>2. d * a \in Nat /\ d * b \in Nat
      BY <1>1
    <2>3. QED
      BY <1>1, <2>1, <2>2
  <1>4. a = b
    BY <1>1, <1>2, <1>3
  <1>5. QED
    BY <1>4 DEF b

LEMMA QuotientStep ==
    ASSUME NEW e \in Nat \ {0}, NEW d \in Nat \ {0}, NEW n \in Nat
    PROVE  n \div d = e * (n \div (e * d)) + ((n \div d) % e)
  <1> DEFINE a == n \div d
             r == n % d
             b == a \div e
             s == a % e
  <1>1. a \in Nat /\ r \in 0 .. d - 1 /\ n = d * a + r
    BY Quotient
  <1> HIDE DEF a, r
  <1>2. b \in Nat /\ s \in 0 .. e - 1 /\ a = e * b + s
    BY <1>1, Quotient
  <1> HIDE DEF b, s
  <1>3. n = (e * d) * b + (d * s + r)
    BY <1>1, <1>2
  <1>4. e * d \in Nat \ {0} /\ d * s + r \in Nat
    BY <1>1, <1>2
  <1>5. d * s + r < e * d
    <2>1. s + 1 <= e /\ s \in Nat /\ r < d /\ r \in Nat
      BY <1>1, <1>2
    <2>2. d * (s + 1) <= d * e
      BY <2>1
    <2>3. d * (s + 1) = d * s + d /\ d * e = e * d /\ d * s \in Nat
      BY <2>1
    <2>4. QED
      BY <1>4, <2>1, <2>2, <2>3
  <1>6. n \div (e * d) = b
    <2> DEFINE t == d * s + r
               f == e * d
    <2>1. t \in 0 .. f - 1 /\ f \in Nat \ {0} /\ n = f * b + t
      BY <1>3, <1>4, <1>5
    <2> HIDE DEF t, f
    <2>2. n \div f = b
      BY <1>2, <2>1, QuotientOnly
    <2>3. QED
      BY <2>2 DEF f
  <1> DEFINE c == n \div (e * d)
  <1>7. a = e * c + s
    BY <1>2, <1>6, Zenon
  <1> HIDE DEF c
  <1>8. QED
    BY <1>7, Zenon DEF a, s, c

LEMMA QuotientLess ==
    ASSUME NEW d \in Nat \ {0}, NEW m \in Nat, NEW n \in Nat, m \div d < n \div d
    PROVE  m < n
  <1> DEFINE a == m \div d
             b == n \div d
             r == m % d
             s == n % d
  <1>1. a \in Nat /\ r \in 0 .. d - 1 /\ m = d * a + r
    BY Quotient
  <1>2. b \in Nat /\ s \in 0 .. d - 1 /\ n = d * b + s
    BY Quotient
  <1>3. a + 1 <= b
    BY <1>1, <1>2
  <1> HIDE DEF a, b, r, s
  <1>4. d * (a + 1) <= d * b /\ d * (a + 1) = d * a + d
    BY <1>1, <1>2, <1>3
  <1>5. d * a \in Nat /\ d * b \in Nat
    BY <1>1, <1>2
  <1>6. QED
    BY <1>1, <1>2, <1>4, <1>5

Fits(n) == n < D!Power[Width]

\* A number that fits its width is written in just as many digits.
LEMMA FitLength ==
    ASSUME D!DirectoryTypes, NEW n \in Nat, Fits(n)
    PROVE  D!Length(n) = Width
  <1> DEFINE Is(l) == D!Power[l] > n /\ (l > Width => D!Power[l - 1] <= n)
  <1>1. Width \in Nat /\ MaxNumber \in Nat /\ Base \in Nat \ {0} /\ n < D!Power[Width]
    BY DEF D!DirectoryTypes, Fits
  <1>2. Width \in Width .. (Width + MaxNumber) /\ Is(Width)
    BY <1>1, Powers
  <1>3. ASSUME NEW l \in Width .. (Width + MaxNumber), Is(l) PROVE l = Width
    <2>1. CASE l > Width
      <3>1. l - 1 \in Nat /\ Width <= l - 1
        BY <1>1, <2>1
      <3>2. D!Power[Width] <= D!Power[l - 1]
        BY <1>1, <3>1, PowersGrow
      <3>3. D!Power[l - 1] <= n /\ D!Power[l - 1] \in Nat /\ D!Power[Width] \in Nat
        BY <1>1, <1>3, <2>1, <3>1, Powers
      <3>4. QED
        BY <1>1, <3>2, <3>3
    <2>2. QED
      BY <1>1, <2>1
  <1> HIDE DEF Is
  <1>4. (CHOOSE l \in Width .. (Width + MaxNumber) : Is(l)) = Width
    BY <1>2, <1>3
  <1>5. QED
    BY <1>4 DEF D!Length, Is

\* The i-th of the digits of n when they are just as many as the width.
DigitOf(n, i) == (n \div D!Power[Width - i]) % Base

LEMMA DigitStep ==
    ASSUME D!DirectoryTypes, NEW n \in Nat, NEW i \in 1 .. Width
    PROVE  /\ DigitOf(n, i) \in Nat /\ DigitOf(n, i) < Base
           /\ n \div D!Power[Width - i]
                = Base * (n \div D!Power[Width - (i - 1)]) + DigitOf(n, i)
  <1> DEFINE d == D!Power[Width - i]
  <1>1. Width \in Nat /\ Base \in Nat \ {0} /\ Width - i \in Nat
        /\ (Width - i) + 1 = Width - (i - 1)
    BY DEF D!DirectoryTypes
  <1>2. d \in Nat \ {0} /\ D!Power[Width - (i - 1)] = Base * d
    BY <1>1, Powers
  <1>3. DigitOf(n, i) = (n \div d) % Base
    BY DEF DigitOf
  <1> HIDE DEF d
  <1>4. n \div d = Base * (n \div (Base * d)) + ((n \div d) % Base)
    BY <1>1, <1>2, QuotientStep
  <1>5. n \div d \in Nat
    BY <1>2, Quotient
  <1>6. (n \div d) % Base \in 0 .. Base - 1
    BY <1>1, <1>5, Quotient
  <1>7. DigitOf(n, i) \in Nat /\ DigitOf(n, i) < Base
    BY <1>1, <1>3, <1>6
  <1>8. n \div d = Base * (n \div D!Power[Width - (i - 1)]) + DigitOf(n, i)
    <2> DEFINE c == D!Power[Width - (i - 1)]
               g == DigitOf(n, i)
    <2>1. c = Base * d /\ g = (n \div d) % Base
      BY <1>2, <1>3
    <2> HIDE DEF c, g
    <2>2. n \div d = Base * (n \div c) + g
      BY <1>4, <2>1, Zenon
    <2>3. QED
      BY <2>2 DEF c, g
  <1>9. QED
    BY <1>7, <1>8 DEF d

\* Numbers whose first k digits agree have the same quotient by what is left.
LEMMA SamePrefix ==
    ASSUME D!DirectoryTypes, NEW m \in Nat, NEW n \in Nat, Fits(m), Fits(n),
           NEW k \in 0 .. Width, \A i \in 1 .. k : DigitOf(m, i) = DigitOf(n, i)
    PROVE  m \div D!Power[Width - k] = n \div D!Power[Width - k]
  <1> DEFINE Bad == {i \in 0 .. k : m \div D!Power[Width - i] # n \div D!Power[Width - i]}
  <1> SUFFICES ASSUME Bad # {} PROVE FALSE
    OBVIOUS
  <1>1. Width \in Nat /\ Base \in Nat \ {0} /\ Bad \in SUBSET Nat
    BY DEF D!DirectoryTypes
  <1>2. PICK i \in Bad : \A j \in Bad : i <= j
    BY <1>1, LeastNumber
  <1>3. i # 0
    <2>1. D!Power[Width] \in Nat \ {0} /\ m < D!Power[Width] /\ n < D!Power[Width] /\ Width - 0 = Width
      BY <1>1, Powers DEF Fits
    <2>2. ASSUME NEW x \in Nat, x < D!Power[Width] PROVE x \div D!Power[Width] = 0
      <3> DEFINE d == D!Power[Width]
      <3>1. d \in Nat \ {0} /\ x < d
        BY <2>1, <2>2
      <3> HIDE DEF d
      <3>2. x \in 0 .. d - 1 /\ x = d * 0 + x
        BY <3>1
      <3>3. x \div d = 0
        BY <3>1, <3>2, QuotientOnly
      <3>4. QED
        BY <3>3 DEF d
    <2>3. QED
      BY <1>2, <2>1, <2>2
  <1>4. i \in 1 .. k /\ i \in 1 .. Width /\ i - 1 \in 0 .. k /\ i - 1 \notin Bad
    BY <1>1, <1>2, <1>3
  <1>5. m \div D!Power[Width - (i - 1)] = n \div D!Power[Width - (i - 1)]
    BY <1>4
  <1>6. DigitOf(m, i) = DigitOf(n, i)
    BY <1>4
  <1>7. m \div D!Power[Width - i] = n \div D!Power[Width - i]
    <2>1. m \div D!Power[Width - i] = Base * (m \div D!Power[Width - (i - 1)]) + DigitOf(m, i)
      BY <1>4, DigitStep
    <2>2. n \div D!Power[Width - i] = Base * (n \div D!Power[Width - (i - 1)]) + DigitOf(n, i)
      BY <1>4, DigitStep
    <2>3. QED
      BY <1>5, <1>6, <2>1, <2>2
  <1>8. QED
    BY <1>2, <1>7

DigitsBefore(m, n) ==
    \E k \in 1 .. Width :
        /\ DigitOf(m, k) < DigitOf(n, k)
        /\ \A i \in 1 .. (k - 1) : DigitOf(m, i) = DigitOf(n, i)

\* Numbers that fit their width come in the order of their digits.
LEMMA NumberOrder ==
    ASSUME D!DirectoryTypes, NEW m \in Nat, NEW n \in Nat, Fits(m), Fits(n),
           DigitsBefore(m, n)
    PROVE  m < n
  <1>1. Width \in Nat /\ Base \in Nat \ {0}
    BY DEF D!DirectoryTypes
  <1>2. PICK k \in 1 .. Width :
            /\ DigitOf(m, k) < DigitOf(n, k)
            /\ \A i \in 1 .. (k - 1) : DigitOf(m, i) = DigitOf(n, i)
    BY <1>1 DEF DigitsBefore
  <1> DEFINE a == m \div D!Power[Width - (k - 1)]
             b == n \div D!Power[Width - (k - 1)]
  <1>3. a = b
    <2>1. k - 1 \in 0 .. Width
      BY <1>1
    <2>2. QED
      BY <1>2, <2>1, SamePrefix
  <1>4. Width - k \in Nat /\ Width - (k - 1) \in Nat
    BY <1>1
  <1>5. a \in Nat
    <2> DEFINE d == D!Power[Width - (k - 1)]
    <2>1. d \in Nat \ {0}
      BY <1>1, <1>4, Powers
    <2> HIDE DEF d
    <2>2. m \div d \in Nat
      BY <2>1, Quotient
    <2>3. QED
      BY <2>2 DEF d
  <1>6. m \div D!Power[Width - k] = Base * a + DigitOf(m, k) /\ DigitOf(m, k) \in Nat
    BY DigitStep
  <1>7. n \div D!Power[Width - k] = Base * b + DigitOf(n, k) /\ DigitOf(n, k) \in Nat
    BY DigitStep
  <1> HIDE DEF a, b
  <1>8. m \div D!Power[Width - k] < n \div D!Power[Width - k]
    <2>1. Base * a \in Nat
      BY <1>1, <1>5
    <2>2. QED
      BY <1>2, <1>3, <1>6, <1>7, <2>1
  <1>9. D!Power[Width - k] \in Nat \ {0}
    BY <1>1, <1>4, Powers
  <1>10. QED
    BY <1>8, <1>9, QuotientLess

LEMMA DigitsOrder ==
    ASSUME D!DirectoryTypes, NEW m \in Nat, NEW n \in Nat, Fits(m), Fits(n), m < n
    PROVE  DigitsBefore(m, n)
  <1>1. Width \in Nat /\ Base \in Nat \ {0}
    BY DEF D!DirectoryTypes
  <1> DEFINE Differ == {i \in 1 .. Width : DigitOf(m, i) # DigitOf(n, i)}
  <1>2. Differ # {}
    <2> SUFFICES ASSUME Differ = {} PROVE FALSE
      OBVIOUS
    <2>1. Width \in 0 .. Width /\ Width - Width = 0
      BY <1>1
    <2>2. m \div D!Power[Width - Width] = n \div D!Power[Width - Width]
      BY <1>1, <2>1, SamePrefix
    <2>3. D!Power[0] = 1
      BY <1>1, Powers
    <2>4. m \div 1 = m /\ n \div 1 = n
      OBVIOUS
    <2>5. QED
      BY <2>1, <2>2, <2>3, <2>4
  <1>3. PICK k \in Differ : \A i \in Differ : k <= i
    <2>1. Differ \in SUBSET Nat
      BY <1>1
    <2>2. QED
      BY <1>2, <2>1, LeastNumber
  <1>4. k \in 1 .. Width /\ \A i \in 1 .. (k - 1) : DigitOf(m, i) = DigitOf(n, i)
    BY <1>1, <1>3
  <1>5. DigitOf(m, k) \in Nat /\ DigitOf(n, k) \in Nat /\ DigitOf(m, k) # DigitOf(n, k)
    BY <1>3, <1>4, DigitStep
  <1>6. ~ (DigitOf(n, k) < DigitOf(m, k))
    <2> SUFFICES ASSUME DigitOf(n, k) < DigitOf(m, k) PROVE FALSE
      OBVIOUS
    <2>1. DigitsBefore(n, m)
      BY <1>4 DEF DigitsBefore
    <2>2. n < m
      BY <2>1, NumberOrder
    <2>3. QED
      BY <2>2
  <1>7. DigitOf(m, k) < DigitOf(n, k)
    BY <1>5, <1>6
  <1>8. QED
    BY <1>4, <1>7 DEF DigitsBefore

LEMMA PaddedBefore ==
    ASSUME D!DirectoryTypes, NEW f, NEW g, f.digits = Width, g.digits = Width
    PROVE  D!NumberBefore(f, g) <=> DigitsBefore(f.no, g.no)
  <1>1. Width \in Nat
    BY DEF D!DirectoryTypes
  <1>2. \A i : D!Digit(f, i) = DigitOf(f.no, i) /\ D!Digit(g, i) = DigitOf(g.no, i)
    BY DEF D!Digit, DigitOf
  <1>3. D!NumberBefore(f, g) <=>
            \E k \in 1 .. Width :
                /\ D!Digit(f, k) < D!Digit(g, k)
                /\ \A i \in 1 .. (k - 1) : D!Digit(f, i) = D!Digit(g, i)
    BY <1>1 DEF D!NumberBefore
  <1>4. QED
    BY <1>2, <1>3 DEF DigitsBefore

\* The names that plan create gives sort as their numbers do, as long as these
\* fit the width that the name is padded to (Create's format, the sort of List).
THEOREM NamesSortAsNumbers ==
    ASSUME D!DirectoryTypes, NEW f, NEW g, f.no \in Nat, g.no \in Nat,
           f.no < D!Power[Width], f.digits = D!Length(f.no),
           g.no < D!Power[Width], g.digits = D!Length(g.no)
    PROVE  D!NumberBefore(f, g) <=> f.no < g.no
  <1>1. Fits(f.no) /\ Fits(g.no)
    BY DEF Fits
  <1>2. f.digits = Width /\ g.digits = Width
    BY <1>1, FitLength
  <1>3. D!NumberBefore(f, g) <=> DigitsBefore(f.no, g.no)
    BY <1>2, PaddedBefore
  <1>4. DigitsBefore(f.no, g.no) <=> f.no < g.no
    BY <1>1, NumberOrder, DigitsOrder
  <1>5. QED
    BY <1>3, <1>4

-----------------------------------------------------------------------------
(* The logs.  As long as they are created in the order of their days, a      *)
(* later log is of a later day or of the same.                               *)

LogsInv ==
    /\ clock \in Nat /\ logs \in [D!LogNames -> Nat] /\ reordered \in BOOLEAN
    /\ \A n \in D!LogNames : logs[n] <= clock
    /\ ~reordered => \A m, n \in D!LogNames :
                        logs[m] # 0 /\ logs[m] < logs[n] => m[1] <= n[1]

LEMMA LogsInit == D!Init => LogsInv
  <1> SUFFICES ASSUME D!Init PROVE LogsInv
    OBVIOUS
  <1>1. clock = 0 /\ reordered = FALSE /\ logs = [n \in D!LogNames |-> 0]
    BY DEF D!Init
  <1>2. \A n \in D!LogNames : logs[n] = 0
    BY <1>1
  <1>3. logs \in [D!LogNames -> Nat] /\ clock \in Nat /\ reordered \in BOOLEAN
    BY <1>1
  <1>4. QED
    BY <1>1, <1>2, <1>3 DEF LogsInv

LEMMA WriteType ==
    ASSUME LogsInv, NEW k \in D!LogNames, NEW t \in Nat, D!Write(k, t)
    PROVE  /\ clock' \in Nat /\ logs' \in [D!LogNames -> Nat]
           /\ \A n \in D!LogNames : /\ logs[n] \in Nat /\ logs[n] <= clock /\ logs'[n] <= clock'
                                    /\ logs'[n] = IF n = k THEN t ELSE logs[n]
  <1>1. clock \in Nat /\ logs \in [D!LogNames -> Nat] /\ \A n \in D!LogNames : logs[n] <= clock
    BY DEF LogsInv
  <1>2. logs' = [logs EXCEPT ![k] = t] /\ clock' = IF t > clock THEN t ELSE clock
    BY DEF D!Write
  <1>3. \A n \in D!LogNames : logs'[n] = IF n = k THEN t ELSE logs[n]
    BY <1>1, <1>2
  <1>4. ASSUME NEW n \in D!LogNames PROVE logs[n] \in Nat /\ logs'[n] <= clock'
    BY <1>1, <1>2, <1>3
  <1>5. QED
    BY <1>1, <1>2, <1>3, <1>4

LEMMA LogsNext == D!DirectoryTypes /\ LogsInv /\ [D!Next]_(D!vars) => LogsInv'
  <1> SUFFICES ASSUME D!DirectoryTypes, LogsInv, [D!Next]_(D!vars) PROVE LogsInv'
    OBVIOUS
  <1> USE DEF D!LogNames
  <1>1. ASSUME NEW k \in D!LogNames, D!CreateLog(k) PROVE LogsInv'
    <2>1. PICK t \in {clock, clock + 1} \ {0} : D!Write(k, t)
      BY <1>1 DEF D!CreateLog
    <2>2. t \in Nat /\ clock <= t /\ clock \in Nat
      BY <2>1 DEF LogsInv
    <2>3. /\ clock' \in Nat /\ logs' \in [D!LogNames -> Nat]
          /\ \A n \in D!LogNames : /\ logs[n] \in Nat /\ logs[n] <= clock /\ logs'[n] <= clock'
                                   /\ logs'[n] = IF n = k THEN t ELSE logs[n]
      BY <2>1, <2>2, WriteType
    <2>4. reordered' = (reordered \/ \E m \in D!Written : m[1] > k[1])
      BY <1>1 DEF D!CreateLog
    <2>5. reordered' \in BOOLEAN
      BY <2>4, Zenon DEF LogsInv
    <2>6. ASSUME ~reordered', NEW m \in D!LogNames, NEW n \in D!LogNames,
                 logs'[m] # 0, logs'[m] < logs'[n]
          PROVE  m[1] <= n[1]
      <3>1. ~reordered /\ \A l \in D!Written : ~ (l[1] > k[1])
        BY <2>4, <2>6
      <3>2. m # k
        BY <2>2, <2>3, <2>6
      <3>3. logs[m] # 0 /\ m \in D!Written
        BY <2>3, <2>6, <3>2 DEF D!Written
      <3>4. m[1] \in Nat /\ k[1] \in Nat
        BY DEF D!DirectoryTypes
      <3>5. CASE n = k
        BY <3>1, <3>3, <3>4, <3>5
      <3>6. CASE n # k
        BY <2>3, <2>6, <3>1, <3>2, <3>6 DEF LogsInv
      <3>7. QED
        BY <3>5, <3>6
    <2>7. QED
      BY <2>3, <2>5, <2>6 DEF LogsInv
  <1>2. ASSUME NEW k \in D!LogNames, D!TouchLog(k) PROVE LogsInv'
    <2>1. PICK t \in 0 .. (clock + 1) : D!Write(k, t) /\ reordered' = (reordered \/ t > 0)
      BY <1>2 DEF D!TouchLog
    <2>2. t \in Nat
      BY <2>1 DEF LogsInv
    <2>3. /\ clock' \in Nat /\ logs' \in [D!LogNames -> Nat]
          /\ \A n \in D!LogNames : /\ logs[n] \in Nat /\ logs[n] <= clock /\ logs'[n] <= clock'
                                   /\ logs'[n] = IF n = k THEN t ELSE logs[n]
      BY <2>1, <2>2, WriteType
    <2>4. reordered' \in BOOLEAN
      BY <2>1, Zenon DEF LogsInv
    <2>5. ASSUME ~reordered', NEW m \in D!LogNames, NEW n \in D!LogNames,
                 logs'[m] # 0, logs'[m] < logs'[n]
          PROVE  m[1] <= n[1]
      <3>1. ~reordered /\ ~ (t > 0)
        BY <2>1, <2>5, Zenon
      <3>2. m # k /\ n # k
        BY <2>2, <2>3, <2>5, <3>1
      <3>3. QED
        BY <2>3, <2>5, <3>1, <3>2 DEF LogsInv
    <2>6. QED
      BY <2>3, <2>4, <2>5 DEF LogsInv
  <1>3. CASE UNCHANGED D!logVars
    BY <1>3 DEF D!logVars, LogsInv
  <1>4. D!Author \/ (\E c \in Creators : D!Create(c)) \/ UNCHANGED D!vars => UNCHANGED D!logVars
    BY DEF D!Author, D!SwitchLayout, D!AddFile, D!RemoveFile, D!Create, D!Count, D!Detect,
           D!Open, D!WriteTitle, D!Fail, D!vars, D!logVars
  <1>5. QED
    BY <1>1, <1>2, <1>3, <1>4 DEF D!Next

-----------------------------------------------------------------------------
(* What the commands show.  Without a reference they take the last file by   *)
(* name, and a log's name begins with its day.                               *)

LEMMA CurrentIsResumed ==
    ASSUME D!List = D!PlanFiles, NEW refs
    PROVE  D!Current(refs) = D!resolvePlanPath(refs)
  BY DEF D!Current, D!resolvePlanPath

LEMMA CurrentIsHighest ==
    ASSUME D!DirectoryTypes, DirectoryType, \A g \in D!List : D!Padded(g),
           NEW f \in D!Current({}), NEW g \in D!List
    PROVE  g.no <= f.no
  <1>1. D!NoFile \notin plans
    <2>1. \A h \in plans : h.slug \in Slugs
      BY DEF DirectoryType, D!Files
    <2>2. D!NoFile.slug \notin Slugs
      BY DEF D!NoFile, D!DirectoryTypes
    <2>3. QED
      BY <2>1, <2>2
  <1>2. f \in D!LastByName(D!List)
    <2>1. D!Lookup({}) = {D!NoFile}
      BY DEF D!Lookup
    <2>2. QED
      BY <1>1, <2>1 DEF D!Current
  <1>3. f \in D!List /\ \A h \in D!List \ {f} : D!NameBefore(h, f)
    BY <1>2 DEF D!LastByName
  <1>4. /\ f.no \in Nat /\ g.no \in Nat /\ Fits(f.no) /\ Fits(g.no)
        /\ f.digits = Width /\ g.digits = Width /\ Width > 0
    <2>1. \A h \in D!List : h.no \in 0 .. MaxNumber
      BY DEF D!List, D!PlanFiles, D!collectFiles, DirectoryType, D!Files
    <2>2. QED
      BY <1>3, <2>1 DEF D!DirectoryTypes, D!Padded, Fits
  <1>5. CASE g = f
    BY <1>4, <1>5
  <1>6. CASE g # f
    <2>1. D!NameBefore(g, f)
      BY <1>3, <1>6
    <2>2. CASE D!NumberBefore(g, f)
      <3>1. g.no < f.no
        BY <1>4, <2>2, PaddedBefore, NumberOrder
      <3>2. QED
        BY <1>4, <3>1
    <2>3. CASE g.no = f.no
      BY <1>4, <2>3
    <2>4. QED
      BY <1>4, <2>1, <2>2, <2>3 DEF D!NameBefore, D!Numbered, D!SameNumber
  <1>7. QED
    BY <1>5, <1>6

LEMMA LatestIsMostRecent ==
    ASSUME D!DirectoryTypes, LogsInv, ~reordered,
           \A m, n \in D!Written : m[1] = n[1] => m = n
    PROVE  D!LatestByName = D!MostRecent
  <1>1. \A n \in D!Written :
            n \in D!LogNames /\ n[1] \in Nat /\ logs[n] \in Nat /\ logs[n] # 0
    BY DEF D!Written, D!LogNames, D!DirectoryTypes, LogsInv
  <1>2. ASSUME NEW m \in D!Written, NEW n \in D!Written, m # n
        PROVE  D!LogBefore(m, n) <=>
                   logs[m] < logs[n] \/ (logs[m] = logs[n] /\ D!LogBefore(m, n))
    <2>1. m[1] # n[1]
      BY <1>1, <1>2
    <2>2. D!LogBefore(m, n) <=> m[1] < n[1]
      BY <2>1 DEF D!LogBefore
    <2>3. logs[m] < logs[n] => m[1] <= n[1]
      BY <1>1 DEF LogsInv
    <2>4. logs[n] < logs[m] => n[1] <= m[1]
      BY <1>1 DEF LogsInv
    <2>5. logs[m] < logs[n] => m[1] < n[1]
      BY <1>1, <2>1, <2>3
    <2>6. m[1] < n[1] => logs[m] < logs[n] \/ logs[m] = logs[n]
      BY <1>1, <2>4
    <2>7. QED
      BY <2>2, <2>5, <2>6, Zenon
  <1>3. ASSUME NEW n \in D!Written
        PROVE  n \in D!LatestByName <=> n \in D!MostRecent
    <2>1. n \in D!LatestByName <=> \A m \in D!Written \ {n} : D!LogBefore(m, n)
      BY DEF D!LatestByName
    <2>2. n \in D!MostRecent <=> \A m \in D!Written \ {n} :
              logs[m] < logs[n] \/ (logs[m] = logs[n] /\ D!LogBefore(m, n))
      BY DEF D!MostRecent
    <2>3. \A m \in D!Written \ {n} :
              D!LogBefore(m, n) <=> logs[m] < logs[n] \/ (logs[m] = logs[n] /\ D!LogBefore(m, n))
      BY <1>2
    <2>4. QED
      BY <2>1, <2>2, <2>3, Zenon
  <1>4. D!LatestByName \subseteq D!Written /\ D!MostRecent \subseteq D!Written
    BY DEF D!LatestByName, D!MostRecent
  <1>5. QED
    BY <1>3, <1>4

\* plan current, resume, status and log recent agree on what comes last, and
\* without a reference that plan has the highest number, if all are padded
\* (Current, List, resolvePlanPath, LatestFiles, Recent).
THEOREM CommandsAgree == D!DirectoryTypes /\ D!Spec => []ReadersAgree
  <1>1. PlansInv /\ LogsInv => ReadersAgree
    <2> SUFFICES ASSUME PlansInv, LogsInv PROVE D!ReadersAgree
      BY DEF ReadersAgree
    <2>1. D!DirectoryTypes /\ DirectoryType
      BY DEF PlansInv
    <2>2. ASSUME D!List = D!PlanFiles, NEW refs
          PROVE  D!Current(refs) = D!resolvePlanPath(refs)
      BY <2>2, CurrentIsResumed
    <2>3. ASSUME \A g \in D!List : D!Padded(g), NEW f \in D!Current({}), NEW g \in D!List
          PROVE  g.no <= f.no
      BY <2>1, <2>3, CurrentIsHighest
    <2>4. ASSUME ~reordered, \A m, n \in D!Written : m[1] = n[1] => m = n
          PROVE  D!LatestByName = D!MostRecent
      BY <2>1, <2>4, LatestIsMostRecent
    <2>5. QED
      BY <2>2, <2>3, <2>4 DEF D!ReadersAgree
  <1>2. D!DirectoryTypes /\ LogsInv /\ [D!Next]_(D!vars) => LogsInv'
    BY LogsNext
  <1>3. D!DirectoryTypes /\ LogsInv /\ [D!Next]_(D!vars) => (D!DirectoryTypes /\ LogsInv)'
    BY <1>2, DirectoryConstants
  <1>4. D!DirectoryTypes /\ D!Init => D!DirectoryTypes /\ LogsInv
    BY LogsInit
  <1>5. QED
    BY <1>1, <1>3, <1>4, PlansInvariance, PTL DEF D!Spec

-----------------------------------------------------------------------------
(* EpicPackage.  The footer is found from its first heading or marker on,    *)
(* whatever other footers follow, and a canonical one is found again where   *)
(* it was put.                                                               *)

LEMMA MinIsLeast ==
    ASSUME NEW I \in SUBSET Nat, I # {}
    PROVE  P!Min(I) \in I /\ \A i \in I : P!Min(I) <= i
  <1>1. \E x \in I : \A i \in I : x <= i
    BY LeastNumber
  <1>2. QED
    BY <1>1 DEF P!Min

LEMMA MaxIsLargest ==
    ASSUME NEW n \in Nat, NEW I \in SUBSET (1 .. n), I # {}
    PROVE  P!Max(I) \in I /\ \A i \in I : i <= P!Max(I)
  <1>1. I \in SUBSET Nat /\ \A i \in I : i <= n
    OBVIOUS
  <1>2. \E x \in I : \A i \in I : i <= x
    BY <1>1, LargestNumber
  <1>3. \E x \in I : \A i \in I : x >= i
    BY <1>1, <1>2
  <1>4. P!Max(I) \in I /\ \A i \in I : P!Max(I) >= i
    BY <1>3 DEF P!Max
  <1>5. QED
    BY <1>1, <1>4

\* A line with which a footer may begin.
IsFooter(t) == P!IsHeading(t) \/ P!HasMarker(t)

\* The first line of a kind.
LEMMA FirstIndex ==
    ASSUME NEW s \in Seq(P!Lines), NEW I \in SUBSET (1 .. Len(s)),
           NEW m, m = IF I # {} THEN P!Min(I) ELSE 0
    PROVE  /\ I = {} => m = 0
           /\ I # {} => m \in I /\ \A i \in 1 .. m - 1 : i \notin I
  <1>1. CASE I = {}
    BY <1>1
  <1>2. CASE I # {}
    <2>1. m \in I /\ \A i \in I : m <= i
      BY <1>2, MinIsLeast
    <2>2. \A i \in 1 .. m - 1 : i \notin I
      BY <2>1
    <2>3. QED
      BY <1>2, <2>1, <2>2
  <1>3. QED
    BY <1>1, <1>2

LEMMA FirstMarker ==
    ASSUME NEW s \in Seq(P!Lines)
    PROVE  LET m == P!SelectInSeq(s, P!HasMarker)
           IN  \/ m = 0 /\ \A i \in 1 .. Len(s) : ~P!HasMarker(s[i])
               \/ m \in 1 .. Len(s) /\ P!HasMarker(s[m]) /\ \A i \in 1 .. m - 1 : ~P!HasMarker(s[i])
  <1> DEFINE I == {i \in 1 .. Len(s) : P!HasMarker(s[i])}
             m == P!SelectInSeq(s, P!HasMarker)
  <1>1. m = IF I # {} THEN P!Min(I) ELSE 0
    BY DEF P!SelectInSeq
  <1> HIDE DEF m
  <1>2. I \in SUBSET (1 .. Len(s))
    OBVIOUS
  <1>3. /\ I = {} => m = 0
        /\ I # {} => m \in I /\ \A i \in 1 .. m - 1 : i \notin I
    BY <1>1, <1>2, FirstIndex
  <1>4. CASE I = {}
    BY <1>3, <1>4 DEF m
  <1>5. CASE I # {}
    <2>1. m \in 1 .. Len(s) /\ P!HasMarker(s[m]) /\ \A i \in 1 .. m - 1 : i \notin I
      BY <1>3, <1>5
    <2>2. \A i \in 1 .. m - 1 : i \in 1 .. Len(s)
      BY <2>1
    <2>3. \A i \in 1 .. m - 1 : ~P!HasMarker(s[i])
      BY <2>1, <2>2
    <2>4. QED
      BY <2>1, <2>3 DEF m
  <1>6. QED
    BY <1>4, <1>5

LEMMA FirstHeading ==
    ASSUME NEW s \in Seq(P!Lines)
    PROVE  LET m == P!footerHeadingIndex(s)
           IN  \/ m = 0 /\ \A i \in 1 .. Len(s) : ~P!IsHeading(s[i])
               \/ m \in 1 .. Len(s) /\ P!IsHeading(s[m]) /\ \A i \in 1 .. m - 1 : ~P!IsHeading(s[i])
  <1> DEFINE I == {i \in 1 .. Len(s) : P!IsHeading(s[i])}
             m == P!footerHeadingIndex(s)
  <1>1. m = IF I # {} THEN P!Min(I) ELSE 0
    BY DEF P!SelectInSeq, P!footerHeadingIndex
  <1> HIDE DEF m
  <1>2. I \in SUBSET (1 .. Len(s))
    OBVIOUS
  <1>3. /\ I = {} => m = 0
        /\ I # {} => m \in I /\ \A i \in 1 .. m - 1 : i \notin I
    BY <1>1, <1>2, FirstIndex
  <1>4. CASE I = {}
    BY <1>3, <1>4 DEF m
  <1>5. CASE I # {}
    <2>1. m \in 1 .. Len(s) /\ P!IsHeading(s[m]) /\ \A i \in 1 .. m - 1 : i \notin I
      BY <1>3, <1>5
    <2>2. \A i \in 1 .. m - 1 : i \in 1 .. Len(s)
      BY <2>1
    <2>3. \A i \in 1 .. m - 1 : ~P!IsHeading(s[i])
      BY <2>1, <2>2
    <2>4. QED
      BY <2>1, <2>3 DEF m
  <1>6. QED
    BY <1>4, <1>5

\* The blank lines at the end go, and no other.
EndsAt(s, n) ==
    /\ n \in 0 .. Len(s)
    /\ n > 0 => s[n] # "blank"
    /\ \A i \in n + 1 .. Len(s) : s[i] = "blank"

LEMMA TrimEnds ==
    ASSUME NEW s \in Seq(P!Lines)
    PROVE  \E n \in 0 .. Len(s) : EndsAt(s, n) /\ P!TrimRight(s) = SubSeq(s, 1, n)
  <1> DEFINE I == {i \in 1 .. Len(s) : s[i] # "blank"}
             n == IF I # {} THEN P!Max(I) ELSE 0
  <1>1. P!TrimRight(s) = SubSeq(s, 1, n)
    BY DEF P!TrimRight, P!SelectLastInSeq
  <1>2. Len(s) \in Nat
    OBVIOUS
  <1>3. CASE I = {}
    <2>1. n = 0 /\ \A i \in 1 .. Len(s) : s[i] = "blank"
      BY <1>3
    <2>2. EndsAt(s, 0)
      BY <1>2, <2>1 DEF EndsAt
    <2>3. QED
      BY <1>1, <1>2, <2>1, <2>2
  <1>4. CASE I # {}
    <2>1. n \in I /\ \A i \in I : i <= n
      BY <1>2, <1>4, MaxIsLargest
    <2> HIDE DEF n
    <2>2. n \in 1 .. Len(s) /\ s[n] # "blank" /\ \A i \in n + 1 .. Len(s) : i \notin I /\ i \in 1 .. Len(s)
      BY <1>2, <2>1
    <2>3. EndsAt(s, n)
      BY <2>2 DEF EndsAt
    <2>4. QED
      BY <1>1, <2>2, <2>3
  <1>5. QED
    BY <1>3, <1>4

LEMMA EndsOnce ==
    ASSUME NEW s \in Seq(P!Lines), NEW m, NEW n, EndsAt(s, m), EndsAt(s, n)
    PROVE  m = n
  <1>1. m \in Nat /\ n \in Nat /\ Len(s) \in Nat /\ m <= Len(s) /\ n <= Len(s)
    BY DEF EndsAt
  <1>2. ASSUME m < n PROVE FALSE
    BY <1>1, <1>2 DEF EndsAt
  <1>3. ASSUME n < m PROVE FALSE
    BY <1>1, <1>3 DEF EndsAt
  <1>4. QED
    BY <1>1, <1>2, <1>3

LEMMA TrimIs ==
    ASSUME NEW s \in Seq(P!Lines), NEW n, EndsAt(s, n)
    PROVE  P!TrimRight(s) = SubSeq(s, 1, n)
  BY TrimEnds, EndsOnce

\* A prefix.
LEMMA PrefixType ==
    ASSUME NEW s \in Seq(P!Lines), NEW n \in 0 .. Len(s)
    PROVE  /\ SubSeq(s, 1, n) \in Seq(P!Lines) /\ Len(SubSeq(s, 1, n)) = n
           /\ \A i \in 1 .. n : SubSeq(s, 1, n)[i] = s[i]
  OBVIOUS

LEMMA TrimType ==
    ASSUME NEW s \in Seq(P!Lines)
    PROVE  /\ P!TrimRight(s) \in Seq(P!Lines)
           /\ EndsAt(P!TrimRight(s), Len(P!TrimRight(s)))
           /\ P!TrimRight(P!TrimRight(s)) = P!TrimRight(s)
  <1>1. PICK n \in 0 .. Len(s) : EndsAt(s, n) /\ P!TrimRight(s) = SubSeq(s, 1, n)
    BY TrimEnds
  <1> DEFINE t == SubSeq(s, 1, n)
  <1>2. t \in Seq(P!Lines) /\ Len(t) = n /\ \A i \in 1 .. n : t[i] = s[i]
    BY PrefixType
  <1> HIDE DEF t
  <1>3. EndsAt(t, Len(t))
    BY <1>1, <1>2 DEF EndsAt
  <1>4. P!TrimRight(t) = SubSeq(t, 1, Len(t))
    BY <1>2, <1>3, TrimIs
  <1>5. SubSeq(t, 1, Len(t)) = t
    BY <1>2
  <1>6. QED
    BY <1>1, <1>2, <1>3, <1>4, <1>5 DEF t

FooterAt(s, f) ==
    /\ f \in 1 .. Len(s) /\ IsFooter(s[f])
    /\ \A i \in 1 .. f - 1 : ~IsFooter(s[i])
NoFooter(s) == \A i \in 1 .. Len(s) : ~IsFooter(s[i])

\* What is kept of a package whose footer begins in line f.
Kept(s, f) == SubSeq(s, 1, f - 1) \o (IF s[f] = "textmark" THEN <<"text">> ELSE <<>>)

LEMMA FooterOrNot ==
    ASSUME NEW s \in Seq(P!Lines)
    PROVE  NoFooter(s) \/ \E f \in 1 .. Len(s) : FooterAt(s, f)
  <1> DEFINE I == {i \in 1 .. Len(s) : IsFooter(s[i])}
  <1>1. CASE I = {}
    BY <1>1 DEF NoFooter
  <1>2. CASE I # {}
    <2>1. I \in SUBSET Nat
      OBVIOUS
    <2>2. PICK f \in I : \A i \in I : f <= i
      BY <1>2, <2>1, LeastNumber
    <2>3. \A i \in 1 .. f - 1 : i \in 1 .. Len(s) /\ i \notin I
      BY <2>2
    <2>4. FooterAt(s, f)
      BY <2>2, <2>3 DEF FooterAt
    <2>5. QED
      BY <2>2, <2>4
  <1>3. QED
    BY <1>1, <1>2

\* The author's part is what stands before the first line of a footer.
LEMMA AuthorPartIs ==
    ASSUME NEW s \in Seq(P!Lines)
    PROVE  /\ NoFooter(s) => P!AuthorPart(s) = P!TrimRight(s)
           /\ \A f \in 1 .. Len(s) : FooterAt(s, f) => P!AuthorPart(s) = P!TrimRight(Kept(s, f))
  <1> DEFINE I == {i \in 1 .. Len(s) : P!IsHeading(s[i]) \/ P!HasMarker(s[i])}
             m == IF I # {} THEN P!Min(I) ELSE 0
  <1>1. P!AuthorPart(s) = P!TrimRight(IF m = 0 THEN s ELSE Kept(s, m))
    BY DEF P!AuthorPart, P!SelectInSeq, Kept
  <1>2. I \in SUBSET (1 .. Len(s))
    OBVIOUS
  <1>3. /\ I = {} => m = 0
        /\ I # {} => m \in I /\ \A i \in 1 .. m - 1 : i \notin I
    BY <1>2, FirstIndex
  <1> HIDE DEF m
  <1>4. ASSUME NoFooter(s) PROVE P!AuthorPart(s) = P!TrimRight(s)
    <2>1. I = {}
      BY <1>4 DEF NoFooter, IsFooter
    <2>2. QED
      BY <1>1, <1>3, <2>1
  <1>5. ASSUME NEW f \in 1 .. Len(s), FooterAt(s, f)
        PROVE  P!AuthorPart(s) = P!TrimRight(Kept(s, f))
    <2>1. f \in I /\ \A i \in 1 .. f - 1 : i \notin I
      BY <1>5 DEF FooterAt, IsFooter
    <2>2. m \in I /\ \A i \in 1 .. m - 1 : i \notin I
      BY <1>3, <2>1
    <2>3. m \in Nat /\ f \in Nat /\ m # 0
      BY <1>2, <2>1, <2>2
    <2>4. m = f
      <3>1. ASSUME m < f PROVE FALSE
        <4>1. m \in 1 .. f - 1
          BY <2>3, <3>1
        <4>2. QED
          BY <2>1, <2>2, <4>1
      <3>2. ASSUME f < m PROVE FALSE
        <4>1. f \in 1 .. m - 1
          BY <2>3, <3>2
        <4>2. QED
          BY <2>1, <2>2, <4>1
      <3>3. QED
        BY <2>3, <3>1, <3>2
    <2>5. QED
      BY <1>1, <2>3, <2>4
  <1>6. QED
    BY <1>4, <1>5

\* stripSkillFooter cuts there too: a heading before the first marker is found
\* in what precedes that marker.
LEMMA StripIsAuthorPart ==
    ASSUME NEW s \in Seq(P!Lines)
    PROVE  P!stripSkillFooter(s) = P!AuthorPart(s)
  <1> DEFINE marker == P!SelectInSeq(s, P!HasMarker)
             upTo == IF marker > 0 THEN SubSeq(s, 1, marker - 1) \o P!BeforeMarker(s[marker]) ELSE s
             heading == P!footerHeadingIndex(upTo)
  <1>1. P!stripSkillFooter(s) =
            P!TrimRight(IF heading > 0 THEN SubSeq(upTo, 1, heading - 1) ELSE upTo)
    BY DEF P!stripSkillFooter
  <1>2. \/ marker = 0 /\ \A i \in 1 .. Len(s) : ~P!HasMarker(s[i])
        \/ /\ marker \in 1 .. Len(s) /\ P!HasMarker(s[marker])
           /\ \A i \in 1 .. marker - 1 : ~P!HasMarker(s[i])
    BY FirstMarker
  <1> HIDE DEF marker
  <1>3. CASE marker = 0
    <2>1. upTo = s /\ \A i \in 1 .. Len(s) : ~P!HasMarker(s[i])
      BY <1>2, <1>3
    <2>2. \/ heading = 0 /\ \A i \in 1 .. Len(s) : ~P!IsHeading(s[i])
          \/ /\ heading \in 1 .. Len(s) /\ P!IsHeading(s[heading])
             /\ \A i \in 1 .. heading - 1 : ~P!IsHeading(s[i])
      BY <2>1, FirstHeading
    <2> HIDE DEF upTo, heading
    <2>3. CASE heading = 0
      <3>1. NoFooter(s)
        BY <2>1, <2>2, <2>3 DEF NoFooter, IsFooter
      <3>2. QED
        BY <1>1, <2>1, <2>3, <3>1, AuthorPartIs
    <2>4. CASE heading # 0
      <3>1. heading \in 1 .. Len(s) /\ P!IsHeading(s[heading])
        BY <2>2, <2>4
      <3>2. FooterAt(s, heading)
        BY <2>1, <2>2, <2>4 DEF FooterAt, IsFooter
      <3>3. s[heading] # "textmark"
        BY <3>1 DEF P!IsHeading
      <3>4. SubSeq(s, 1, heading - 1) \in Seq(P!Lines)
        BY <3>1, PrefixType
      <3>5. Kept(s, heading) = SubSeq(s, 1, heading - 1)
        BY <3>3, <3>4 DEF Kept
      <3>6. QED
        <4>1. P!AuthorPart(s) = P!TrimRight(Kept(s, heading))
          BY <3>1, <3>2, AuthorPartIs
        <4>2. heading > 0
          BY <3>1
        <4>3. QED
          BY <1>1, <2>1, <3>5, <4>1, <4>2
    <2>5. QED
      BY <2>3, <2>4
  <1>4. CASE marker # 0
    <2> DEFINE before == SubSeq(s, 1, marker - 1)
               rest == P!BeforeMarker(s[marker])
    <2>1. /\ marker \in 1 .. Len(s) /\ P!HasMarker(s[marker])
          /\ \A i \in 1 .. marker - 1 : ~P!HasMarker(s[i])
      BY <1>2, <1>4
    <2>2. /\ before \in Seq(P!Lines) /\ Len(before) = marker - 1
          /\ \A i \in 1 .. marker - 1 : before[i] = s[i]
      BY <2>1, PrefixType
    <2>3. \/ s[marker] = "marker" /\ rest = <<>>
          \/ s[marker] = "headmark" /\ rest = <<"heading">>
          \/ s[marker] = "textmark" /\ rest = <<"text">>
      BY <2>1 DEF P!HasMarker, P!BeforeMarker
    <2>4. rest \in Seq(P!Lines) /\ Len(rest) \in {0, 1}
      <3>1. \A t \in P!Lines : <<t>> \in Seq(P!Lines) /\ Len(<<t>>) = 1
        OBVIOUS
      <3>2. "heading" \in P!Lines /\ "text" \in P!Lines
        BY DEF P!Lines
      <3>3. <<>> \in Seq(P!Lines) /\ Len(<<>>) = 0
        OBVIOUS
      <3> HIDE DEF rest
      <3>4. QED
        BY <2>3, <3>1, <3>2, <3>3
    <2>5. upTo = before \o rest
      BY <2>1
    <2> HIDE DEF before, rest
    <2>6. /\ upTo \in Seq(P!Lines) /\ Len(upTo) = marker - 1 + Len(rest)
          /\ \A i \in 1 .. marker - 1 : upTo[i] = s[i]
          /\ Len(rest) = 1 => upTo[marker] = rest[1]
      <3>1. before \o rest \in Seq(P!Lines) /\ Len(before \o rest) = Len(before) + Len(rest)
        BY <2>2, <2>4
      <3>2. \A i \in 1 .. marker - 1 : (before \o rest)[i] = before[i]
        BY <2>1, <2>2, <2>4
      <3>3. ASSUME Len(rest) = 1 PROVE (before \o rest)[marker] = rest[1]
        <4>1. (before \o rest)[Len(before) + 1] = rest[(Len(before) + 1) - Len(before)]
          BY <2>2, <2>4, <3>3, ConcatProperties
        <4>2. Len(before) + 1 = marker /\ (Len(before) + 1) - Len(before) = 1
          BY <2>1, <2>2
        <4>3. QED
          BY <4>1, <4>2
      <3>4. QED
        BY <2>2, <2>5, <3>1, <3>2, <3>3
    <2> HIDE DEF upTo
    <2>7. \/ heading = 0 /\ \A i \in 1 .. Len(upTo) : ~P!IsHeading(upTo[i])
          \/ /\ heading \in 1 .. Len(upTo) /\ P!IsHeading(upTo[heading])
             /\ \A i \in 1 .. heading - 1 : ~P!IsHeading(upTo[i])
      BY <2>6, FirstHeading
    <2> HIDE DEF heading
    <2>8. CASE \E h \in 1 .. marker - 1 : P!IsHeading(s[h])
      <3>1. PICK h \in 1 .. marker - 1 : P!IsHeading(s[h])
        BY <2>8
      <3>2. h \in 1 .. Len(upTo) /\ P!IsHeading(upTo[h])
        BY <2>1, <2>4, <2>6, <3>1
      <3>3. heading # 0
        BY <2>7, <3>2
      <3>4. heading <= h
        <4>1. ASSUME h < heading PROVE FALSE
          BY <2>7, <3>2, <3>3, <4>1
        <4>2. QED
          BY <2>6, <2>7, <3>2, <3>3, <4>1
      <3>5. heading \in 1 .. marker - 1
        BY <2>1, <2>6, <2>7, <3>1, <3>3, <3>4
      <3>6. P!IsHeading(s[heading]) /\ \A i \in 1 .. heading - 1 : ~P!IsHeading(s[i])
        <4>1. \A i \in 1 .. heading - 1 : i \in 1 .. marker - 1
          BY <2>1, <3>5
        <4>2. QED
          BY <2>6, <2>7, <3>3, <3>5, <4>1
      <3>7. FooterAt(s, heading)
        <4>1. \A i \in 1 .. heading - 1 : i \in 1 .. marker - 1
          BY <2>1, <3>5
        <4>2. heading \in 1 .. Len(s)
          BY <2>1, <3>5
        <4>3. QED
          BY <2>1, <3>6, <4>1, <4>2 DEF FooterAt, IsFooter
      <3>8. s[heading] # "textmark"
        BY <3>6 DEF P!IsHeading
      <3>9. SubSeq(upTo, 1, heading - 1) = SubSeq(s, 1, heading - 1)
        BY <2>1, <2>6, <3>5
      <3>10. SubSeq(s, 1, heading - 1) \in Seq(P!Lines)
        BY <2>1, <3>5, PrefixType
      <3>11. Kept(s, heading) = SubSeq(s, 1, heading - 1)
        BY <3>8, <3>10 DEF Kept
      <3>12. heading \in 1 .. Len(s) /\ heading > 0
        BY <2>1, <3>5
      <3>13. QED
        BY <1>1, <3>7, <3>9, <3>11, <3>12, AuthorPartIs
    <2>9. CASE ~ \E h \in 1 .. marker - 1 : P!IsHeading(s[h])
      <3>1. FooterAt(s, marker)
        BY <2>1, <2>9 DEF FooterAt, IsFooter
      <3>2. P!AuthorPart(s) = P!TrimRight(Kept(s, marker))
        BY <2>1, <3>1, AuthorPartIs
      <3>3. \A i \in 1 .. marker - 1 : ~P!IsHeading(upTo[i])
        BY <2>6, <2>9
      <3>4. CASE s[marker] = "headmark"
        <4>1. Len(rest) = 1 /\ rest[1] = "heading"
          BY <2>3, <3>4
        <4>2. Len(upTo) = marker /\ upTo[marker] = "heading"
          BY <2>1, <2>6, <4>1
        <4>3. heading = marker
          <5>1. P!IsHeading(upTo[marker]) /\ marker \in 1 .. Len(upTo)
            BY <2>1, <4>2 DEF P!IsHeading
          <5>2. heading \in 1 .. Len(upTo) /\ P!IsHeading(upTo[heading])
            BY <2>7, <5>1
          <5>3. heading \notin 1 .. marker - 1
            BY <3>3, <5>2
          <5>4. QED
            BY <2>1, <4>2, <5>2, <5>3
        <4>4. SubSeq(upTo, 1, heading - 1) = before
          BY <2>1, <2>2, <2>6, <4>2, <4>3
        <4>5. Kept(s, marker) = before
          BY <2>2, <3>4 DEF Kept, before
        <4>6. heading > 0
          BY <2>1, <4>3
        <4>7. QED
          BY <1>1, <3>2, <4>4, <4>5, <4>6
      <3>5. CASE s[marker] # "headmark"
        <4>1. Len(rest) = 0 \/ (Len(rest) = 1 /\ rest[1] = "text")
          BY <2>3, <3>5
        <4>2. \A i \in 1 .. Len(upTo) : ~P!IsHeading(upTo[i])
          <5>1. CASE Len(rest) = 0
            BY <2>1, <2>6, <3>3, <5>1
          <5>2. CASE Len(rest) = 1 /\ rest[1] = "text"
            <6>1. Len(upTo) = marker /\ ~P!IsHeading(upTo[marker])
              BY <2>1, <2>6, <5>2 DEF P!IsHeading
            <6>2. QED
              BY <2>1, <3>3, <6>1
          <5>3. QED
            BY <4>1, <5>1, <5>2
        <4>3. heading = 0
          BY <2>7, <4>2
        <4>4. Kept(s, marker) = upTo
          BY <2>3, <2>5, <3>5 DEF Kept, before
        <4>5. QED
          BY <1>1, <3>2, <4>3, <4>4
      <3>6. QED
        BY <3>4, <3>5
    <2>10. QED
      BY <2>8, <2>9
  <1>5. QED
    BY <1>3, <1>4

\* Trailing blank lines are no part of it.
LEMMA AuthorPartOfTrimmed ==
    ASSUME NEW s \in Seq(P!Lines)
    PROVE  P!AuthorPart(P!TrimRight(s)) = P!AuthorPart(s)
  <1>1. PICK n \in 0 .. Len(s) : EndsAt(s, n) /\ P!TrimRight(s) = SubSeq(s, 1, n)
    BY TrimEnds
  <1> DEFINE t == SubSeq(s, 1, n)
  <1>2. t \in Seq(P!Lines) /\ Len(t) = n /\ \A i \in 1 .. n : t[i] = s[i]
    BY PrefixType
  <1> HIDE DEF t
  <1>3. \A i \in n + 1 .. Len(s) : ~IsFooter(s[i])
    BY <1>1 DEF EndsAt, IsFooter, P!IsHeading, P!HasMarker
  <1>4. n \in Nat /\ Len(s) \in Nat /\ n <= Len(s)
    OBVIOUS
  <1>5. CASE NoFooter(s)
    <2>1. NoFooter(t)
      BY <1>2, <1>4, <1>5 DEF NoFooter
    <2>2. P!AuthorPart(t) = P!TrimRight(t) /\ P!AuthorPart(s) = P!TrimRight(s)
      BY <1>2, <1>5, <2>1, AuthorPartIs
    <2>3. P!TrimRight(t) = P!TrimRight(s)
      BY <1>1, TrimType DEF t
    <2>4. QED
      BY <1>1, <2>2, <2>3 DEF t
  <1>6. ASSUME NEW f \in 1 .. Len(s), FooterAt(s, f)
        PROVE  P!AuthorPart(t) = P!AuthorPart(s)
    <2>1. f \in 1 .. n
      BY <1>3, <1>4, <1>6 DEF FooterAt
    <2>2. FooterAt(t, f)
      BY <1>2, <1>4, <1>6, <2>1 DEF FooterAt
    <2>3. SubSeq(t, 1, f - 1) = SubSeq(s, 1, f - 1)
      BY <1>2, <1>4, <2>1
    <2>4. Kept(t, f) = Kept(s, f)
      BY <1>2, <2>1, <2>3 DEF Kept
    <2>5. P!AuthorPart(t) = P!TrimRight(Kept(t, f)) /\ P!AuthorPart(s) = P!TrimRight(Kept(s, f))
      BY <1>2, <1>6, <2>1, <2>2, AuthorPartIs
    <2>6. QED
      BY <2>4, <2>5
  <1>7. QED
    BY <1>1, <1>5, <1>6, FooterOrNot DEF t

\* A text without a footer that does not end in a blank line.
Plain(b) == b \in Seq(P!Lines) /\ NoFooter(b) /\ EndsAt(b, Len(b))

LEMMA TrimmedIsPlain ==
    ASSUME NEW s \in Seq(P!Lines), NoFooter(s)
    PROVE  Plain(P!TrimRight(s))
  <1>1. PICK n \in 0 .. Len(s) : EndsAt(s, n) /\ P!TrimRight(s) = SubSeq(s, 1, n)
    BY TrimEnds
  <1>2. P!TrimRight(s) \in Seq(P!Lines) /\ EndsAt(P!TrimRight(s), Len(P!TrimRight(s)))
    BY TrimType
  <1>3. Len(P!TrimRight(s)) = n /\ \A i \in 1 .. n : P!TrimRight(s)[i] = s[i]
    BY <1>1, PrefixType
  <1>4. NoFooter(P!TrimRight(s))
    BY <1>3 DEF NoFooter
  <1>5. QED
    BY <1>2, <1>4 DEF Plain

LEMMA AuthorPartIsPlain ==
    ASSUME NEW s \in Seq(P!Lines)
    PROVE  Plain(P!AuthorPart(s))
  <1>1. CASE NoFooter(s)
    BY <1>1, AuthorPartIs, TrimmedIsPlain
  <1>2. ASSUME NEW f \in 1 .. Len(s), FooterAt(s, f) PROVE Plain(P!AuthorPart(s))
    <2> DEFINE b == SubSeq(s, 1, f - 1)
               r == IF s[f] = "textmark" THEN <<"text">> ELSE <<>>
    <2>1. b \in Seq(P!Lines) /\ Len(b) = f - 1 /\ \A i \in 1 .. f - 1 : b[i] = s[i]
      BY PrefixType
    <2>2. "text" \in P!Lines /\ ~IsFooter("text")
      BY DEF P!Lines, IsFooter, P!IsHeading, P!HasMarker
    <2>3. <<"text">> \in Seq(P!Lines) /\ Len(<<"text">>) = 1 /\ <<"text">>[1] = "text"
      BY <2>2
    <2>4. r \in Seq(P!Lines) /\ \A i \in 1 .. Len(r) : ~IsFooter(r[i])
      BY <2>2, <2>3
    <2> HIDE DEF b, r
    <2>5. /\ b \o r \in Seq(P!Lines) /\ Len(b \o r) = Len(b) + Len(r)
          /\ \A i \in 1 .. Len(b) + Len(r) : (b \o r)[i] = IF i <= Len(b) THEN b[i] ELSE r[i - Len(b)]
      BY <2>1, <2>4, ConcatProperties
    <2>6. ASSUME NEW i \in 1 .. Len(b \o r) PROVE ~IsFooter((b \o r)[i])
      <3>1. CASE i <= Len(b)
        <4>1. i \in 1 .. f - 1 /\ (b \o r)[i] = s[i]
          BY <2>1, <2>5, <3>1
        <4>2. QED
          BY <1>2, <4>1 DEF FooterAt
      <3>2. CASE ~(i <= Len(b))
        <4>1. Len(b) \in Nat /\ Len(r) \in Nat
          BY <2>1, <2>4
        <4>2. i - Len(b) \in 1 .. Len(r) /\ (b \o r)[i] = r[i - Len(b)]
          BY <2>5, <3>2, <4>1
        <4>3. QED
          BY <2>4, <4>2
      <3>3. QED
        BY <3>1, <3>2
    <2>7. NoFooter(b \o r)
      BY <2>6 DEF NoFooter
    <2>8. P!AuthorPart(s) = P!TrimRight(b \o r)
      BY <1>2, AuthorPartIs DEF Kept, b, r
    <2>9. QED
      BY <2>5, <2>7, <2>8, TrimmedIsPlain
  <1>3. QED
    BY <1>1, <1>2, FooterOrNot

\* What a refresh writes below a plain text.
Footed(b) == IF b = <<>> THEN P!Canonical ELSE b \o <<"blank">> \o P!Canonical

LEMMA RefreshIs ==
    ASSUME NEW s \in Seq(P!Lines)
    PROVE  P!RefreshSkillFooter(s) = Footed(P!AuthorPart(s)) /\ Plain(P!AuthorPart(s))
  <1>1. P!TrimRight(s) \in Seq(P!Lines)
    BY TrimType
  <1>2. P!stripSkillFooter(P!TrimRight(s)) = P!AuthorPart(s)
    BY <1>1, StripIsAuthorPart, AuthorPartOfTrimmed
  <1>3. QED
    BY <1>2, AuthorPartIsPlain DEF P!RefreshSkillFooter, Footed

LEMMA CanonicalIs ==
    /\ P!Canonical \in Seq(P!Lines) /\ Len(P!Canonical) = 3
    /\ P!Canonical[1] = "heading" /\ P!Canonical[2] = "marker" /\ P!Canonical[3] = "body"
  BY DEF P!Canonical, P!Lines

\* The footer is in the last three lines, and it is the only one.
LEMMA FootedIs ==
    ASSUME NEW b, Plain(b)
    PROVE  \E k \in Nat \ {0} :
             /\ Footed(b) \in Seq(P!Lines) /\ Len(Footed(b)) = k + 2
             /\ Footed(b)[k] = "heading" /\ Footed(b)[k + 1] = "marker"
             /\ Footed(b)[k + 2] = "body"
             /\ \A i \in 1 .. k - 1 : ~IsFooter(Footed(b)[i])
             /\ Len(b) <= k - 1 /\ \A i \in 1 .. Len(b) : Footed(b)[i] = b[i]
             /\ \A i \in Len(b) + 1 .. k - 1 : Footed(b)[i] = "blank"
  <1>1. b \in Seq(P!Lines) /\ NoFooter(b)
    BY DEF Plain
  <1>2. CASE b = <<>>
    <2>1. Len(b) = 0 /\ Footed(b) = P!Canonical
      BY <1>2 DEF Footed
    <2>2. QED
      BY <2>1, CanonicalIs
  <1>3. CASE b # <<>>
    <2> DEFINE n == Len(b)
               c == b \o <<"blank">>
               r == c \o P!Canonical
    <2>1. n \in Nat
      BY <1>1
    <2>2. "blank" \in P!Lines /\ ~IsFooter("blank")
      BY DEF P!Lines, IsFooter, P!IsHeading, P!HasMarker
    <2>3. <<"blank">> \in Seq(P!Lines) /\ Len(<<"blank">>) = 1 /\ <<"blank">>[1] = "blank"
      BY <2>2
    <2>4. /\ c \in Seq(P!Lines) /\ Len(c) = n + 1
          /\ \A i \in 1 .. n + 1 : c[i] = IF i <= n THEN b[i] ELSE <<"blank">>[i - n]
      BY <1>1, <2>3, ConcatProperties
    <2>5. c[n + 1] = "blank" /\ \A i \in 1 .. n : c[i] = b[i]
      <3>1. n + 1 \in 1 .. n + 1 /\ ~(n + 1 <= n) /\ (n + 1) - n = 1
        BY <2>1
      <3>2. \A i \in 1 .. n : i \in 1 .. n + 1 /\ i <= n
        BY <2>1
      <3>3. QED
        BY <2>3, <2>4, <3>1, <3>2
    <2> HIDE DEF c
    <2>6. /\ r \in Seq(P!Lines) /\ Len(r) = Len(c) + Len(P!Canonical)
          /\ \A i \in 1 .. Len(c) + Len(P!Canonical) :
                r[i] = IF i <= Len(c) THEN c[i] ELSE P!Canonical[i - Len(c)]
      <3>1. c \in Seq(P!Lines) /\ P!Canonical \in Seq(P!Lines)
        BY <2>4, CanonicalIs
      <3>2. QED
        BY <3>1, ConcatProperties, Zenon
    <2>7. r = Footed(b)
      BY <1>3 DEF Footed, c
    <2> HIDE DEF r
    <2> DEFINE k == n + 2
    <2>8. k \in Nat \ {0} /\ Len(r) = k + 2 /\ Len(c) = k - 1 /\ n = k - 2
      BY <2>1, <2>4, <2>6, CanonicalIs
    <2>9. \A i \in 1 .. k - 1 : r[i] = c[i]
      BY <2>6, <2>8
    <2>10. r[k] = "heading" /\ r[k + 1] = "marker" /\ r[k + 2] = "body"
      <3>1. \A j \in 1 .. 3 : r[Len(c) + j] = P!Canonical[j]
        <4>1. \A j \in 1 .. 3 : /\ Len(c) + j \in 1 .. Len(c) + Len(P!Canonical)
                                /\ ~(Len(c) + j <= Len(c)) /\ (Len(c) + j) - Len(c) = j
          BY <2>1, <2>4, CanonicalIs
        <4>2. QED
          BY <2>6, <4>1
      <3>2. Len(c) + 1 = k /\ Len(c) + 2 = k + 1 /\ Len(c) + 3 = k + 2
        BY <2>1, <2>8
      <3>3. r[Len(c) + 1] = "heading" /\ r[Len(c) + 2] = "marker" /\ r[Len(c) + 3] = "body"
        BY <3>1, CanonicalIs
      <3>4. QED
        BY <3>2, <3>3
    <2>11. \A i \in 1 .. n : r[i] = b[i]
      BY <2>5, <2>8, <2>9
    <2>12. \A i \in n + 1 .. k - 1 : r[i] = "blank"
      BY <2>1, <2>5, <2>9
    <2>13. \A i \in 1 .. k - 1 : ~IsFooter(r[i])
      <3>1. ASSUME NEW i \in 1 .. k - 1 PROVE ~IsFooter(r[i])
        <4>1. i \in 1 .. n \/ i \in n + 1 .. k - 1
          BY <2>1
        <4>2. QED
          BY <1>1, <2>2, <2>11, <2>12, <4>1 DEF NoFooter
      <3>2. QED
        BY <3>1
    <2>14. n <= k - 1
      BY <2>1
    <2> HIDE DEF k
    <2>15. QED
      BY <2>6, <2>7, <2>8, <2>10, <2>11, <2>12, <2>13, <2>14
  <1>4. QED
    BY <1>2, <1>3

\* The author's part of what a refresh has written is the text it has put the
\* footer under.
LEMMA FootedKeepsAuthorPart ==
    ASSUME NEW b, Plain(b)
    PROVE  P!AuthorPart(Footed(b)) = b
  <1> DEFINE r == Footed(b)
             n == Len(b)
  <1>1. PICK k \in Nat \ {0} :
             /\ r \in Seq(P!Lines) /\ Len(r) = k + 2
             /\ r[k] = "heading" /\ \A i \in 1 .. k - 1 : ~IsFooter(r[i])
             /\ n <= k - 1 /\ \A i \in 1 .. n : r[i] = b[i]
             /\ \A i \in n + 1 .. k - 1 : r[i] = "blank"
    BY FootedIs
  <1> HIDE DEF r
  <1>2. b \in Seq(P!Lines) /\ n \in Nat /\ EndsAt(b, n)
    BY DEF Plain
  <1>3. FooterAt(r, k) /\ k \in 1 .. Len(r)
    BY <1>1 DEF FooterAt, IsFooter, P!IsHeading
  <1> DEFINE t == SubSeq(r, 1, k - 1)
  <1>4. k - 1 \in 0 .. Len(r)
    BY <1>1
  <1>5. t \in Seq(P!Lines) /\ Len(t) = k - 1 /\ \A i \in 1 .. k - 1 : t[i] = r[i]
    BY <1>1, <1>4, PrefixType
  <1> HIDE DEF t
  <1>6. Kept(r, k) = t
    BY <1>1, <1>5 DEF Kept, t
  <1>7. EndsAt(t, n)
    <2>1. n \in 0 .. Len(t) /\ \A i \in n + 1 .. Len(t) : t[i] = "blank"
      <3>1. \A i \in n + 1 .. k - 1 : i \in 1 .. k - 1
        BY <1>1, <1>2
      <3>2. QED
        BY <1>1, <1>2, <1>5, <3>1
    <2>2. ASSUME n > 0 PROVE t[n] # "blank"
      <3>1. n \in 1 .. n /\ n \in 1 .. k - 1
        BY <1>1, <1>2, <2>2
      <3>2. t[n] = b[n]
        BY <1>1, <1>5, <3>1
      <3>3. QED
        BY <1>2, <2>2, <3>2 DEF EndsAt
    <2>3. QED
      BY <2>1, <2>2 DEF EndsAt
  <1>8. P!TrimRight(t) = SubSeq(t, 1, n)
    BY <1>5, <1>7, TrimIs
  <1>9. SubSeq(t, 1, n) = b
    <2>1. \A i \in 1 .. n : i \in 1 .. k - 1
      BY <1>1, <1>2
    <2>2. \A i \in 1 .. n : t[i] = b[i]
      BY <1>1, <1>5, <2>1
    <2>3. n \in 0 .. Len(t)
      BY <1>7 DEF EndsAt
    <2>4. /\ SubSeq(t, 1, n) \in Seq(P!Lines) /\ Len(SubSeq(t, 1, n)) = n
          /\ \A i \in 1 .. n : SubSeq(t, 1, n)[i] = t[i]
      BY <1>5, <2>3, PrefixType
    <2>5. \A i \in 1 .. n : SubSeq(t, 1, n)[i] = b[i]
      BY <2>2, <2>4
    <2>6. QED
      BY <1>2, <2>4, <2>5, SeqEqual
  <1>10. P!AuthorPart(r) = P!TrimRight(Kept(r, k))
    BY <1>1, <1>3, AuthorPartIs
  <1>11. QED
    BY <1>6, <1>8, <1>9, <1>10 DEF r

\* Only the front matter may still be missing.
LEMMA FootedIsValid ==
    ASSUME NEW b, Plain(b)
    PROVE  /\ P!SkillErrors(Footed(b)) \subseteq {"missing_skill_frontmatter"}
           /\ Footed(b)[1] = "front" => P!SkillErrors(Footed(b)) = {}
           /\ Footed(b) \in Seq(P!Lines) /\ Footed(b) # <<>>
  <1> DEFINE r == Footed(b)
  <1>1. PICK k \in Nat \ {0} :
             /\ r \in Seq(P!Lines) /\ Len(r) = k + 2
             /\ r[k] = "heading" /\ r[k + 1] = "marker" /\ r[k + 2] = "body"
             /\ \A i \in 1 .. k - 1 : ~IsFooter(r[i])
    BY FootedIs
  <1> HIDE DEF r
  <1>2. /\ k \in DOMAIN r /\ k + 1 \in DOMAIN r /\ DOMAIN r = 1 .. k + 2
        /\ k + 1 \in Nat /\ k + 2 \in Nat /\ r # <<>>
    BY <1>1
  <1>3. P!TrimRight(r) # <<>>
    <2>1. EndsAt(r, Len(r))
      BY <1>1 DEF EndsAt
    <2>2. P!TrimRight(r) = SubSeq(r, 1, Len(r))
      BY <1>1, <2>1, TrimIs
    <2>3. Len(SubSeq(r, 1, Len(r))) = Len(r)
      BY <1>1
    <2>4. QED
      BY <1>1, <2>2, <2>3
  <1>4. P!Titled(r)
    BY <1>1, <1>2 DEF P!Titled, P!Holds
  <1>5. P!Marked(r)
    BY <1>1, <1>2 DEF P!Marked, P!HasMarker
  <1>6. P!footerHeadingIndex(r) = k
    <2> DEFINE m == P!footerHeadingIndex(r)
    <2>1. \/ m = 0 /\ \A i \in 1 .. Len(r) : ~P!IsHeading(r[i])
          \/ m \in 1 .. Len(r) /\ P!IsHeading(r[m]) /\ \A i \in 1 .. m - 1 : ~P!IsHeading(r[i])
      BY <1>1, FirstHeading
    <2> HIDE DEF m
    <2>2. P!IsHeading(r[k]) /\ k \in 1 .. Len(r)
      BY <1>1, <1>2 DEF P!IsHeading
    <2>3. m \in 1 .. Len(r) /\ P!IsHeading(r[m]) /\ \A i \in 1 .. m - 1 : ~P!IsHeading(r[i])
      BY <2>1, <2>2
    <2>4. m \notin 1 .. k - 1
      BY <1>1, <2>3 DEF IsFooter
    <2>5. k \notin 1 .. m - 1
      BY <2>2, <2>3
    <2>6. m = k
      BY <1>1, <2>3, <2>4, <2>5
    <2>7. QED
      BY <2>6 DEF m
  <1>7. P!skillFooterMatchesCanonical(r)
    <2> DEFINE t == SubSeq(r, k, Len(r))
    <2>1. t = P!Canonical
      <3>1. t \in Seq(P!Lines) /\ Len(t) = 3 /\ \A i \in 1 .. 3 : t[i] = r[k + i - 1]
        BY <1>1, <1>2
      <3>2. t[1] = r[k] /\ t[2] = r[k + 1] /\ t[3] = r[k + 2]
        <4>1. k + 1 - 1 = k /\ k + 2 - 1 = k + 1 /\ k + 3 - 1 = k + 2
          OBVIOUS
        <4>2. QED
          BY <3>1, <4>1
      <3> HIDE DEF t
      <3>3. \A i \in 1 .. 3 : t[i] = P!Canonical[i]
        <4>1. \A i \in 1 .. 3 : i = 1 \/ i = 2 \/ i = 3
          OBVIOUS
        <4>2. QED
          BY <1>1, <3>2, <4>1, CanonicalIs
      <3>4. QED
        BY <3>1, <3>3, CanonicalIs, SeqEqual
    <2>2. P!TrimRight(P!Canonical) = P!Canonical
      <3>1. EndsAt(P!Canonical, 3)
        BY CanonicalIs DEF EndsAt
      <3>2. P!TrimRight(P!Canonical) = SubSeq(P!Canonical, 1, 3)
        BY <3>1, CanonicalIs, TrimIs
      <3>3. SubSeq(P!Canonical, 1, 3) = P!Canonical
        BY CanonicalIs
      <3>4. QED
        BY <3>2, <3>3
    <2>3. QED
      BY <1>6, <2>1, <2>2 DEF P!skillFooterMatchesCanonical
  <1>8. P!SkillErrors(r) \subseteq {"missing_skill_frontmatter"}
    BY <1>3, <1>4, <1>5, <1>7 DEF P!SkillErrors, P!When
  <1>9. ASSUME r[1] = "front" PROVE P!SkillErrors(r) = {}
    <2>1. P!HasFrontmatter(r)
      BY <1>2, <1>9 DEF P!HasFrontmatter
    <2>2. QED
      BY <1>3, <1>4, <1>5, <1>7, <2>1 DEF P!SkillErrors, P!When
  <1>10. QED
    BY <1>1, <1>2, <1>8, <1>9 DEF r

LEMMA TemplateIs ==
    P!Template \in Seq(P!Lines) /\ P!RefreshSkillFooter(P!Template)[1] = "front"
  <1>1. /\ P!Template \in Seq(P!Lines) /\ Len(P!Template) = 3
        /\ P!Template[1] = "front" /\ P!Template[2] = "blank" /\ P!Template[3] = "text"
    BY DEF P!Template, P!Lines
  <1>2. NoFooter(P!Template)
    <2>1. \A i \in 1 .. 3 : i = 1 \/ i = 2 \/ i = 3
      OBVIOUS
    <2>2. QED
      BY <1>1, <2>1 DEF NoFooter, IsFooter, P!IsHeading, P!HasMarker
  <1>3. EndsAt(P!Template, 3)
    BY <1>1 DEF EndsAt
  <1>4. P!TrimRight(P!Template) = SubSeq(P!Template, 1, 3)
    BY <1>1, <1>3, TrimIs
  <1>5. SubSeq(P!Template, 1, 3) = P!Template
    BY <1>1
  <1>6. P!AuthorPart(P!Template) = P!Template
    BY <1>1, <1>2, <1>4, <1>5, AuthorPartIs
  <1>7. P!RefreshSkillFooter(P!Template) = Footed(P!Template) /\ Plain(P!Template)
    BY <1>1, <1>6, RefreshIs
  <1>8. Footed(P!Template)[1] = P!Template[1]
    <2>1. \A i \in 1 .. Len(P!Template) : Footed(P!Template)[i] = P!Template[i]
      BY <1>7, FootedIs
    <2>2. QED
      BY <1>1, <2>1
  <1>9. QED
    BY <1>1, <1>7, <1>8

\* What the last command has written.
SkillInv ==
    /\ skill = P!NoFile \/ skill \in Seq(P!Lines)
    /\ last = "init" => skill = P!RefreshSkillFooter(P!Template)
    /\ last = "upgrade" => was \in Seq(P!Lines) /\ skill = P!RefreshSkillFooter(was)

LEMMA SkillInit == P!Init => SkillInv
  <1> SUFFICES ASSUME P!Init PROVE SkillInv
    OBVIOUS
  <1>1. skill \in {P!NoFile} \cup UNION {[1 .. m -> P!Lines] : m \in 0 .. MaxLines} /\ last = "author"
    BY DEF P!Init, P!BoundedSeq, P!SeqOf
  <1>2. \A m \in 0 .. MaxLines : m \in Nat
    OBVIOUS
  <1>3. ASSUME NEW m \in 0 .. MaxLines, skill \in [1 .. m -> P!Lines] PROVE skill \in Seq(P!Lines)
    BY <1>2, <1>3, SeqDef
  <1>4. skill = P!NoFile \/ skill \in Seq(P!Lines)
    BY <1>1, <1>3
  <1>5. QED
    BY <1>1, <1>4 DEF SkillInv

LEMMA RefreshType ==
    ASSUME NEW s \in Seq(P!Lines)
    PROVE  P!RefreshSkillFooter(s) \in Seq(P!Lines)
  BY RefreshIs, FootedIsValid

LEMMA SkillNext == SkillInv /\ [P!Next]_(P!vars) => SkillInv'
  <1> SUFFICES ASSUME SkillInv, [P!Next]_(P!vars) PROVE SkillInv'
    OBVIOUS
  <1>1. CASE P!BeginInit
    BY <1>1 DEF P!BeginInit, SkillInv
  <1>2. CASE P!InitSkill
    <2>1. P!RefreshSkillFooter(P!Template) \in Seq(P!Lines) /\ <<>> \in Seq(P!Lines)
      BY TemplateIs, RefreshType
    <2>2. QED
      BY <1>2, <2>1 DEF P!InitSkill, SkillInv
  <1>3. CASE P!InitEpic
    BY <1>3 DEF P!InitEpic, SkillInv
  <1>4. CASE P!UpgradeSkillFooter
    <2>1. skill \in Seq(P!Lines) /\ <<>> \in Seq(P!Lines)
      BY <1>4 DEF P!UpgradeSkillFooter, SkillInv
    <2>2. P!RefreshSkillFooter(skill) \in Seq(P!Lines)
      BY <2>1, RefreshType
    <2>3. QED
      BY <1>4, <2>1, <2>2 DEF P!UpgradeSkillFooter, SkillInv
  <1>5. CASE P!WriteLegacy
    BY <1>5 DEF P!WriteLegacy, SkillInv
  <1>6. CASE UNCHANGED P!vars
    BY <1>6 DEF P!vars, SkillInv
  <1>7. QED
    BY <1>1, <1>2, <1>3, <1>4, <1>5, <1>6 DEF P!Next

\* After `epics upgrade-skill-footer` no footer raises an error, whatever was
\* there, all that stood before it is kept and another refresh changes nothing;
\* and SKILL.md raises no error at all if init has made it, or if it has a
\* complete front matter (RefreshSkillFooter, stripSkillFooter, Validate, runInit).
THEOREM FootersAreHealed == P!Spec => []UpgradeHeals
  <1>1. SkillInv => UpgradeHeals
    <2> SUFFICES ASSUME SkillInv PROVE UpgradeHeals
      OBVIOUS
    <2>1. ASSUME NEW s \in Seq(P!Lines), skill = P!RefreshSkillFooter(s)
          PROVE  /\ P!SkillErrors(skill) \subseteq {"missing_skill_frontmatter"}
                 /\ skill \in {P!Canonical, P!AuthorPart(s) \o <<"blank">> \o P!Canonical}
                 /\ P!RefreshSkillFooter(skill) = skill
                 /\ skill[1] = "front" => P!SkillErrors(skill) = {}
                 /\ skill # P!NoFile
      <3> DEFINE b == P!AuthorPart(s)
      <3>1. skill = Footed(b) /\ Plain(b)
        BY <2>1, RefreshIs
      <3> HIDE DEF b
      <3>2. /\ P!SkillErrors(skill) \subseteq {"missing_skill_frontmatter"}
            /\ skill[1] = "front" => P!SkillErrors(skill) = {}
            /\ skill \in Seq(P!Lines)
        BY <3>1, FootedIsValid
      <3>3. P!AuthorPart(skill) = b
        BY <3>1, FootedKeepsAuthorPart
      <3>4. P!RefreshSkillFooter(skill) = skill
        BY <3>1, <3>2, <3>3, RefreshIs
      <3>5. skill # P!NoFile
        <4>1. P!NoFile[1] = "no file" /\ Len(P!NoFile) = 1
          BY DEF P!NoFile
        <4>2. ASSUME skill = P!NoFile PROVE skill[1] \in P!Lines
          <5>1. Len(skill) = 1 /\ skill[1] = "no file"
            BY <4>1, <4>2, Zenon
          <5>2. 1 \in 1 .. 1
            OBVIOUS
          <5>3. 1 \in 1 .. Len(skill)
            BY <5>1, <5>2, Zenon
          <5>4. QED
            BY <3>2, <5>3
        <4>3. QED
          BY <4>1, <4>2 DEF P!Lines
      <3>6. skill \in {P!Canonical, P!AuthorPart(s) \o <<"blank">> \o P!Canonical}
        BY <3>1 DEF Footed, b
      <3>7. QED
        BY <3>2, <3>4, <3>5, <3>6
    <2>2. ASSUME skill # P!NoFile, P!SkillErrors(skill) = {}
          PROVE  \A live \in SUBSET P!LiveErrors :
                    P!Validate(live) \subseteq {"missing_epic_md", "empty_epic", "read_error_epic",
                                               "legacy_live_state_path"} \cup live
      BY <2>2 DEF P!Validate, P!When, P!validateRuntimeLayout
    <2>3. CASE last = "init"
      <3>1. skill = P!RefreshSkillFooter(P!Template) /\ skill[1] = "front"
        BY <2>3, TemplateIs DEF SkillInv
      <3>2. skill # P!NoFile /\ P!SkillErrors(skill) = {}
        BY <2>1, <3>1, TemplateIs
      <3>3. QED
        BY <2>2, <2>3, <3>2 DEF UpgradeHeals, P!UpgradeHeals
    <2>4. CASE last = "upgrade"
      <3>1. was \in Seq(P!Lines) /\ skill = P!RefreshSkillFooter(was)
        BY <2>4 DEF SkillInv
      <3>2. Head(skill) = skill[1]
        OBVIOUS
      <3>3. QED
        BY <2>1, <2>2, <2>4, <3>1, <3>2 DEF UpgradeHeals, P!UpgradeHeals
    <2>5. QED
      BY <2>3, <2>4 DEF UpgradeHeals, P!UpgradeHeals
  <1>2. QED
    BY <1>1, SkillInit, SkillNext, PTL DEF P!Spec
=============================================================================
