-------------------------- MODULE AccountRecoveryMC --------------------------
(* Small instances of AccountRecovery for TLC. *)
EXTENDS AccountRecovery, TLC

\* Users and browsers are interchangeable; ticket, credential and session ids
\* are ordered and are not.
Symmetry == Permutations(User) \cup Permutations(Browser)
==============================================================================
