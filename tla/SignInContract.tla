--------------------------- MODULE SignInContract ---------------------------
(***************************************************************************)
(* What the sign-in pages promise, whatever tabs, buttons and forms are in *)
(* use at once: a browser takes on the identity of an account only on what *)
(* just came from the owner of that account - a passkey, a password, or a  *)
(* code on top of that account's password - and once for each.             *)
(***************************************************************************)
CONSTANTS
  User,    \* accounts
  NoUser,  \* none of them
  Place    \* the prompts and forms people show something in

VARIABLES
  shown,    \* what owners have shown and is on its way: <<place, account, kind>>
  halfway,  \* the account whose password is waiting for a second factor
  user      \* the account the browser is signed in to

vars == <<shown, halfway, user>>

Kind == {"passkey", "password", "code"}

Init == shown = {} /\ halfway = NoUser /\ user = NoUser

\* The owner of an account shows a credential; what is on its way may get lost.
Show ==
  /\ \E a \in Place \X User \X Kind : shown' \subseteq shown \cup {a}
  /\ UNCHANGED <<halfway, user>>

\* A credential of account u arrives, this once.
Arrives(u, kind) ==
  \E place \in Place :
    /\ <<place, u, kind>> \in shown
    /\ shown' \subseteq shown \ {<<place, u, kind>>}

\* A password is accepted, and a second factor is asked for.
AskSecond ==
  /\ \E u \in User : Arrives(u, "password") /\ halfway' = u
  /\ UNCHANGED user

\* The browser is signed in.
Enter ==
  /\ \E u \in User :
       /\ \/ Arrives(u, "passkey")
          \/ Arrives(u, "password")
          \/ Arrives(u, "code") /\ halfway = u
       /\ user' = u
  /\ halfway' \in {halfway, NoUser}

\* The browser loses its identity, or what waits for a second factor.
Leave ==
  /\ user' \in {user, NoUser}
  /\ halfway' \in {halfway, NoUser}
  /\ shown' \subseteq shown

Next == Show \/ AskSecond \/ Enter \/ Leave

Spec == Init /\ [][Next]_vars
=============================================================================
