------------------------ MODULE UserAdministrationMC ------------------------
(* UserAdministration with interchangeable browsers and passwords. *)
EXTENDS UserAdministration, TLC

Interchangeable == Permutations(Browser) \cup Permutations(Password)
=============================================================================
