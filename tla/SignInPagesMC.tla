---------------------------- MODULE SignInPagesMC ----------------------------
(* Small instances of SignInPages for TLC: some accounts are in use, with both *)
(* kinds of key, the others were just created.                                 *)
EXTENDS SignInPages, TLC

CONSTANT InUse

Start ==
  /\ Init
  /\ \A u \in User : IF u \in InUse THEN keys[u] = Method /\ ticket[u] = "none" ELSE ticket[u] = "activation"
Sym == Permutations(Tab) \cup Permutations(Run)
StartSpec == Start /\ [][Next]_vars
==============================================================================
