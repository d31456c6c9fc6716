---------------------------- MODULE InstallerMC ----------------------------
(* Installer for TLC: interchangeable requests and databases.               *)
EXTENDS Installer, TLC

Symmetry == Permutations(Requests) \cup Permutations(Databases)
=============================================================================
