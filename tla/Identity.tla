------------------------------- MODULE Identity -------------------------------
(***************************************************************************)
(* Accounts: AuthService.signup, login and user_from_token over the users  *)
(* and auth_identities tables.  A signup is four separate transactions, a  *)
(* login two; requests run in a thread pool and interleave between them.   *)
(*                                                                         *)
(* An e-mail is taken after strip().lower(): Raw are the spellings clients *)
(* send, Normal what the service makes of them.  A password stands for     *)
(* itself and for its hash: verify is equality.                            *)
(***************************************************************************)
EXTENDS FiniteSets

CONSTANTS
    Request,    \* each is made at most once; a signup's user has its request's id
    Raw,        \* spellings of e-mail addresses
    Email,      \* normalised addresses
    Normal,     \* strip().lower()
    Password,
    Faults,     \* which of {"error", "crash"} the environment may inject
    None

AllFaults == {"error", "crash"}

(* A user row is the id of its user; an identity row has a user and a hash. *)
Account == [user : Request, password : Password]

ASSUME IdentityAssumption ==
    /\ Normal \in [Raw -> Email]
    /\ Faults \subseteq AllFaults
    /\ None \notin Request \cup Email \cup Password \cup Account

VARIABLES
    users,          \* the users row of each e-mail (UNIQUE), or None
    identities,     \* the local auth_identities row of each e-mail (UNIQUE), or None
    req             \* what each request is doing

vars == <<users, identities, req>>

PC == {"idle", "add_user", "hash", "add_identity", "token", "get_user", "whoami", "done"}
Op == {"none", "signup", "login", "me"}
Answer == {"none", "ok", "unauthorized", "conflict", "error", "crashed"}

(* user is whom the handler has found or made so far, and in the end whom the *)
(* answer and its token name.                                                 *)
Call == [pc : PC, op : Op, email : Email \cup {None}, password : Password \cup {None},
         user : Request \cup {None}, answer : Answer]

TypeOK ==
    /\ users \in [Email -> Request \cup {None}]
    /\ identities \in [Email -> Account \cup {None}]
    /\ req \in [Request -> Call]

NoCall == [pc |-> "idle", op |-> "none", email |-> None, password |-> None,
           user |-> None, answer |-> "none"]

Init ==
    /\ users = [e \in Email |-> None]
    /\ identities = [e \in Email |-> None]
    /\ req = [r \in Request |-> NoCall]

-----------------------------------------------------------------------------
(* Helpers *)

Enter(r, op, e, p, user, pc, answer) ==
    req' = [req EXCEPT ![r] = [pc |-> pc, op |-> op, email |-> e, password |-> p,
                               user |-> user, answer |-> answer]]

Goto(r, pc) == req' = [req EXCEPT ![r].pc = pc]

Finish(r, answer) == req' = [req EXCEPT ![r].pc = "done", ![r].answer = answer]

(* The access token of an answered signup or login. *)
Session(q) == req[q].answer = "ok" /\ req[q].op \in {"signup", "login"}

-----------------------------------------------------------------------------
(* signup *)

(* get_user_by_email, with which the handler starts *)
Signup(r, raw, p) ==
    LET e == Normal[raw] IN
    /\ req[r].pc = "idle"
    /\ \/ /\ users[e] = None
          /\ Enter(r, "signup", e, p, None, "add_user", "none")
       \/ /\ users[e] # None
          /\ Enter(r, "signup", e, p, None, "done", "conflict")
    /\ UNCHANGED <<users, identities>>

(* Mutants of AddUser: the e-mail is not UNIQUE; a duplicate is taken for the *)
(* caller's own user; the e-mail stands for the id.                           *)
AddUserTwice(r) ==
    /\ req[r].pc = "add_user"
    /\ users' = [users EXCEPT ![req[r].email] = r]
    /\ req' = [req EXCEPT ![r].pc = "hash", ![r].user = r]
    /\ UNCHANGED identities

AddUserOrGet(r) ==
    LET e == req[r].email
        user == IF users[e] = None THEN r ELSE users[e]
    IN
    /\ req[r].pc = "add_user"
    /\ users' = [users EXCEPT ![e] = user]
    /\ req' = [req EXCEPT ![r].pc = "hash", ![r].user = user]
    /\ UNCHANGED identities

AddUserByEmail(r) ==
    /\ req[r].pc = "add_user"
    /\ users' = [users EXCEPT ![req[r].email] = req[r].email]
    /\ Goto(r, "hash")
    /\ UNCHANGED identities

(* The INSERT of a duplicate e-mail is a ValueError, which no handler maps. *)
AddUser(r) ==
    LET e == req[r].email IN
    /\ req[r].pc = "add_user"
    /\ \/ /\ users[e] = None
          /\ users' = [users EXCEPT ![e] = r]
          /\ req' = [req EXCEPT ![r].pc = "hash", ![r].user = r]
       \/ /\ users[e] # None
          /\ Finish(r, "error")
          /\ UNCHANGED users
    /\ UNCHANGED identities

Hash(r) ==
    /\ req[r].pc = "hash"
    /\ Goto(r, "add_identity")
    /\ UNCHANGED <<users, identities>>

AddAuthIdentity(r) ==
    LET e == req[r].email IN
    /\ req[r].pc = "add_identity"
    /\ \/ /\ identities[e] = None
          /\ identities' = [identities EXCEPT ![e] = [user |-> req[r].user,
                                                      password |-> req[r].password]]
          /\ Goto(r, "token")
       \/ /\ identities[e] # None
          /\ Finish(r, "error")
          /\ UNCHANGED identities
    /\ UNCHANGED users

CreateAccessToken(r) ==
    /\ req[r].pc = "token"
    /\ Finish(r, "ok")
    /\ UNCHANGED <<users, identities>>

-----------------------------------------------------------------------------
(* login *)

(* Mutant of Login: the password is not verified. *)
LoginUnverified(r, raw, p) ==
    LET e == Normal[raw] IN
    /\ req[r].pc = "idle"
    /\ identities[e] # None
    /\ Enter(r, "login", e, p, identities[e].user, "get_user", "none")
    /\ UNCHANGED <<users, identities>>

(* get_auth_identity and verify *)
Login(r, raw, p) ==
    LET e == Normal[raw]
        known == identities[e] # None /\ identities[e].password = p
    IN
    /\ req[r].pc = "idle"
    /\ \/ known /\ Enter(r, "login", e, p, identities[e].user, "get_user", "none")
       \/ ~known /\ Enter(r, "login", e, p, None, "done", "unauthorized")
    /\ UNCHANGED <<users, identities>>

UserExists(u) == \E e \in Email : users[e] = u

(* get_user, which both login and user_from_token end in *)
GetUser(r) ==
    /\ req[r].pc \in {"get_user", "whoami"}
    /\ \/ /\ UserExists(req[r].user)
          /\ IF req[r].pc = "get_user" THEN Goto(r, "token") ELSE Finish(r, "ok")
       \/ ~UserExists(req[r].user) /\ Finish(r, "unauthorized")
    /\ UNCHANGED <<users, identities>>

-----------------------------------------------------------------------------
(* get_current_user with the token of session q: decode_user_id refuses it *)
(* once it has expired, which may be at any time.                          *)

Me(r, q) ==
    /\ req[r].pc = "idle"
    /\ Session(q)
    /\ \/ Enter(r, "me", req[q].email, req[q].password, req[q].user, "whoami", "none")
       \/ Enter(r, "me", None, None, None, "done", "unauthorized")
    /\ UNCHANGED <<users, identities>>

-----------------------------------------------------------------------------

InFlight(r) == req[r].pc \notin {"idle", "done"}

(* The database is down, or a library raises. *)
Fails(r) ==
    /\ "error" \in Faults
    /\ InFlight(r)
    /\ Finish(r, "error")
    /\ UNCHANGED <<users, identities>>

Crash(r) ==
    /\ "crash" \in Faults
    /\ InFlight(r)
    /\ Finish(r, "crashed")
    /\ UNCHANGED <<users, identities>>

Receive(r) ==
    \/ \E raw \in Raw, p \in Password : Signup(r, raw, p) \/ Login(r, raw, p)
    \/ \E q \in Request : Me(r, q)

Work(r) ==
    \/ AddUser(r) \/ Hash(r) \/ AddAuthIdentity(r) \/ CreateAccessToken(r)
    \/ GetUser(r)

Next == \E r \in Request : Receive(r) \/ Work(r) \/ Fails(r) \/ Crash(r)

Spec == Init /\ [][Next]_vars

-----------------------------------------------------------------------------
(* Safety *)

(* Every identity belongs to the user of the same e-mail, and its password is *)
(* the one of the signup that made that user: concurrent signups for one      *)
(* address never leave the password of one on the account of another.         *)
AccountsConsistent ==
    \A e \in Email : identities[e] # None =>
        LET u == identities[e].user IN
        /\ users[e] = u
        /\ req[u].op = "signup" /\ req[u].email = e
        /\ req[u].password = identities[e].password

(* A signup answered 201 has an account that its password opens, and of the   *)
(* signups for one e-mail, however spelt, at most one is answered 201.        *)
SignedUp(r) == req[r].op = "signup" /\ req[r].answer = "ok"
SignupOpensAccount ==
    \A r \in Request : SignedUp(r) =>
        identities[req[r].email] = [user |-> r, password |-> req[r].password]

(* Whoever is answered as a user, at login or with a token, traces back to    *)
(* the e-mail and the password of the one signup that made this user.         *)
SessionsAreOwners ==
    \A r \in Request : req[r].answer = "ok" =>
        LET u == req[r].user IN
        /\ u # None
        /\ users[req[r].email] = u
        /\ req[u].op = "signup"
        /\ req[u].email = req[r].email /\ req[u].password = req[r].password

(* A user whom a live token names is never told that the account is unknown:  *)
(* no step of user_from_token past decode refuses.                            *)
Resolves(r) ==
    req[r].pc \in {"get_user", "whoami"} => req'[r].answer # "unauthorized"
SessionsResolve == [][\A r \in Request : Resolves(r)]_vars

-----------------------------------------------------------------------------
(* Refinement *)

(* Whom each request was answered for, by what the client gave or the token
   stands for.                                                               *)
Granted ==
    [r \in Request |->
       IF req[r].answer = "ok"
       THEN [email |-> req[r].email,
             account |-> [user |-> req[r].user, password |-> req[r].password]]
       ELSE None]

Book == INSTANCE AccountBook WITH accounts <- identities, sessions <- Granted

(* Four transactions of a signup and two of a login, interleaved and cut short
   at will, look to the clients like a book of accounts: the insert of the
   identity is what opens one, nothing alters or takes it away afterwards, and
   every answer to a signup, login or token is of an account as it was opened. *)
ImplementsAccountBook == Book!Spec

-----------------------------------------------------------------------------
(* The inductive invariant *)

Stored(r) == identities[req[r].email] = [user |-> r, password |-> req[r].password]

(* What a call is about at each point of its handler, and what it has done. *)
Control(r) ==
    /\ req[r].pc = "idle" => req[r].op = "none"
    /\ req[r].op = "none" => req[r].user = None
    /\ req[r].pc \notin {"idle", "done"} => req[r].email # None /\ req[r].password # None
    /\ req[r].pc = "add_user" => req[r].op = "signup"
    /\ req[r].pc \in {"hash", "add_identity"} => req[r].op = "signup" /\ req[r].user = r
    /\ req[r].pc \in {"token", "get_user", "whoami"} => req[r].user # None
    /\ req[r].pc = "token" => req[r].op \in {"signup", "login"}
    /\ req[r].op = "signup" /\ req[r].user # None => req[r].user = r
    /\ req[r].pc = "get_user" => req[r].op = "login"
    /\ req[r].pc = "whoami" => req[r].op = "me"
    /\ req[r].pc \notin {"idle", "done"} => req[r].answer = "none"
    /\ req[r].answer = "ok" => req[r].pc = "done" /\ req[r].user # None
    /\ req[r].op = "signup" /\ (req[r].pc = "token" \/ req[r].answer = "ok") => Stored(r)
    /\ req[r].user # None => req[r].email # None /\ req[r].password # None

(* Whoever bears a user bears the e-mail and password of its signup. *)
Owned(r) ==
    LET u == req[r].user IN
    u # None =>
        /\ users[req[r].email] = u
        /\ req[u].op = "signup"
        /\ req[u].email = req[r].email
        /\ req[u].password = req[r].password

(* A user who logged in, or whom a token names, has the account it was found in. *)
Backed(r) ==
    req[r].op \in {"login", "me"} /\ req[r].user # None =>
        identities[req[r].email] = [user |-> req[r].user, password |-> req[r].password]

IInv ==
    /\ TypeOK
    /\ \A r \in Request : Control(r) /\ Owned(r) /\ Backed(r)
    /\ AccountsConsistent
=============================================================================
