--------------------------- MODULE StepUpContract ---------------------------
(***************************************************************************)
(* What a step-up promises to the person in front of the browser, whatever *)
(* pages, tabs and requests do in between: an operation is carried out in  *)
(* the name of a user only for a purpose that an authenticator of that     *)
(* user was asked about, and once for each answer.                         *)
(***************************************************************************)
CONSTANTS
  User,      \* accounts
  Ceremony,  \* what a person is asked in
  Purpose    \* an action together with its target

VARIABLES
  answered,  \* answers on their way: ceremony, account of the authenticator, purpose
  held,      \* the confirmation the session holds, if any
  done       \* the confirmed operation the last step carried out, if it did

vars == <<answered, held, done>>

Answers == Ceremony \X User \X Purpose

Init == answered = {} /\ held = {} /\ done = {}

\* A person answers a prompt.
Answer ==
  /\ \E a \in answered' : a \in Answers /\ answered' = answered \cup {a}
  /\ held' = held /\ done' = {}

\* Answers on their way get lost.
Lose == answered' \subseteq answered /\ held' = held /\ done' = {}

\* An answer arrives, this once, and replaces what the session held.
Accept ==
  /\ \E a \in answered : held' = {<<a[2], a[3]>>} /\ answered' = answered \ {a}
  /\ done' = {}

\* What the session holds is dropped, or was for something else.
Drop == held' = {} /\ answered' \subseteq answered /\ done' = {}

\* The operation that was confirmed is carried out.
Carry ==
  /\ held # {}
  /\ done' = held
  /\ held' = {}
  /\ answered' \subseteq answered

Next == Answer \/ Lose \/ Accept \/ Drop \/ Carry

Spec == Init /\ [][Next]_vars
=============================================================================
