---------------------------- MODULE StepUpPagesMC ----------------------------
(* Small instances of StepUpPages for TLC: the accounts start with the        *)
(* authenticators a run gives, and with a password.                           *)
EXTENDS StepUpPages, TLC

CONSTANT Initially

Start == Init /\ \A u \in User : factors[u] \in Initially /\ password[u]
StartSpec == Start /\ [][Next]_vars

Symmetric == Permutations(User) \cup Permutations(Run)
=============================================================================
