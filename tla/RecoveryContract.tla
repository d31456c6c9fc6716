--------------------------- MODULE RecoveryContract ---------------------------
(***************************************************************************)
(* What activation and recovery promise about an account, without tickets, *)
(* browsers, requests or transactions: it is locked or open, at most one   *)
(* offer lies out to open it again, it has keys, and it has live sessions. *)
(***************************************************************************)
CONSTANTS User, Cred, Session, None

VARIABLES
  status,  \* "absent", "active", "pending" (locked) or "deleted"
  offer,   \* purpose of the one redeemable ticket, or None
  keys,    \* authenticators of the account
  live     \* sessions of the account that nobody has ended

vars == <<status, offer, keys, live>>

Init ==
  /\ status = [u \in User |-> "absent"]
  /\ offer = [u \in User |-> None]
  /\ keys = [u \in User |-> {}]
  /\ live = [u \in User |-> {}]

Create(u) ==
  /\ status[u] = "absent"
  /\ \E s \in {"active", "pending"} : status' = [status EXCEPT ![u] = s]
  /\ UNCHANGED <<offer, keys, live>>

Delete(u) ==
  /\ status[u] \in {"active", "pending"}
  /\ status' = [status EXCEPT ![u] = "deleted"]
  /\ offer' = [offer EXCEPT ![u] = None]
  /\ keys' = [keys EXCEPT ![u] = {}]
  /\ live' = [live EXCEPT ![u] = {}]

\* An offer replaces the one before it, locks the account and ends its sessions.
Offer(u, purpose) ==
  /\ status[u] \in {"active", "pending"}
  /\ purpose = "activation" => status[u] = "pending"
  /\ status' = [status EXCEPT ![u] = "pending"]
  /\ offer' = [offer EXCEPT ![u] = purpose]
  /\ live' = [live EXCEPT ![u] = {}]
  /\ UNCHANGED keys

\* The only way out of the lock: the offer is spent on a key nobody has.
Redeem(u, key) ==
  /\ status[u] = "pending"
  /\ offer[u] # None
  /\ \A v \in User : key \notin keys[v]
  /\ status' = [status EXCEPT ![u] = "active"]
  /\ offer' = [offer EXCEPT ![u] = None]
  /\ keys' = [keys EXCEPT ![u] = IF offer[u] = "recovery" THEN {key} ELSE @ \cup {key}]
  /\ UNCHANGED live

Enroll(u, key) ==
  /\ status[u] \in {"active", "pending"}
  /\ \A v \in User : key \notin keys[v]
  /\ keys' = [keys EXCEPT ![u] = @ \cup {key}]
  /\ UNCHANGED <<status, offer, live>>

SignIn(u, session) ==
  /\ status[u] = "active"
  /\ \A v \in User : session \notin live[v]
  /\ live' = [live EXCEPT ![u] = @ \cup {session}]
  /\ UNCHANGED <<status, offer, keys>>

End(u, ended) ==
  /\ live' = [live EXCEPT ![u] = @ \ ended]
  /\ UNCHANGED <<status, offer, keys>>

Next ==
  \E u \in User :
    \/ Create(u)
    \/ Delete(u)
    \/ \E purpose \in {"activation", "recovery"} : Offer(u, purpose)
    \/ \E key \in Cred : Redeem(u, key) \/ Enroll(u, key)
    \/ \E session \in Session : SignIn(u, session)
    \/ \E ended \in SUBSET Session : End(u, ended)

Spec == Init /\ [][Next]_vars
===============================================================================
