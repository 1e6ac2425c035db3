----------------------------- MODULE AccountBook -----------------------------
(***************************************************************************)
(* What the accounts promise whoever signs up and logs in, without the     *)
(* transactions behind it and without the users table: a book in which an  *)
(* account is opened for an address in one step, once and for all, and a   *)
(* session is only ever granted to an account that is in it.               *)
(***************************************************************************)
CONSTANTS Request, Email, Password, None

VARIABLES
    accounts,   \* the user and the password of each address, or None
    sessions    \* the address and the account each request was answered for, or None

bookVars == <<accounts, sessions>>

Init ==
    /\ accounts = [e \in Email |-> None]
    /\ sessions = [r \in Request |-> None]

(* Every account has a user of its own. *)
Open(r, e, p) ==
    /\ accounts[e] = None
    /\ \A f \in Email : accounts[f] # None => accounts[f].user # r
    /\ accounts' = [accounts EXCEPT ![e] = [user |-> r, password |-> p]]
    /\ UNCHANGED sessions

Grant(r, e) ==
    /\ accounts[e] # None
    /\ sessions[r] = None
    /\ sessions' = [sessions EXCEPT ![r] = [email |-> e, account |-> accounts[e]]]
    /\ UNCHANGED accounts

Next ==
    \E r \in Request, e \in Email : Grant(r, e) \/ \E p \in Password : Open(r, e, p)

Spec == Init /\ [][Next]_bookVars
=============================================================================
