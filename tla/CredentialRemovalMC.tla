------------------------- MODULE CredentialRemovalMC -------------------------
(* CredentialRemoval with symmetric TOTP secrets and owner browsers. *)
EXTENDS CredentialRemoval, TLC

Interchangeable == Permutations(Secret) \cup Permutations(Owner)
=============================================================================
