------------------------ MODULE DocumentPublishingMC ------------------------
(* DocumentPublishing for TLC: interchangeable documents, visitors, types.  *)
EXTENDS DocumentPublishing, TLC

(* Entries that are kept for ever are looked at in a calm cache only; those *)
(* that expire in both.                                                     *)
MCInit == Init /\ (ttl = 0 => calm)
MCSpec == MCInit /\ [][Next]_vars

Symmetry == Permutations(Documents) \cup Permutations(Visitors)
              \cup Permutations(Types)
=============================================================================
