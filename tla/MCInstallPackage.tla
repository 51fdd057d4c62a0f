-------------------------- MODULE MCInstallPackage --------------------------
(* Small instances of InstallPackage.                                      *)
EXTENDS InstallPackage, TLC

Symmetry == Permutations(Installers)
=============================================================================
