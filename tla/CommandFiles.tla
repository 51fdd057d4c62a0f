----------------------------- MODULE CommandFiles -----------------------------
(* What epics commands do to the files of a package and of its workspace:     *)
(* InstallPackage, EpicPackage, EpicDirectory (plans, logs) and HostSetup      *)
(* side by side. They share no variable; this module gives each its own and   *)
(* names the properties of the last three.                                    *)
EXTENDS InstallPackage

CONSTANTS
    MaxLines,
    Creators, Slugs, Base, Width, MaxNumber, ByHand, Days,
    Setups, Commands

VARIABLES
    skill, spec, legacy, todo, was, last,
    runtime, plans, place, number, path, after, disturbed, logs, clock, reordered,
    command, guide, step, left, current, held, words, theirs, overlap, cut

P == INSTANCE EpicPackage
D == INSTANCE EpicDirectory WITH pc <- place
H == INSTANCE HostSetup WITH pc <- step, todo <- left

-----------------------------------------------------------------------------
\* `epics upgrade-skill-footer` heals every footer and keeps the author's part
\* (RefreshSkillFooter, Validate).
UpgradeHeals == P!UpgradeHeals

\* Plans that were created one after the other are numbered in order and kept
\* (Create, nextNumber).
PlansInOrder == D!PlansInOrder

\* plan current, resume, status and log recent agree on what comes last
\* (Current, resolvePlanPath, Recent).
ReadersAgree == D!ReadersAgree

\* Setups add and take nothing away, and leave what the doctor asks for
\* (WriteIfMissingOrSame, AppendSection, HostDoctorChecks).
SetupAddsOnly == H!SetupAddsOnly
=============================================================================
