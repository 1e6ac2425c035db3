--------------------------- MODULE IdentityProofs ---------------------------
(***************************************************************************)
(* What is proved of Identity, for every set of requests and addresses.    *)
(* The argument: rows are never changed once inserted, a user row names    *)
(* the signup that inserted it, and what a signup is about never changes,  *)
(* so whatever a request has learnt of an account stays true.              *)
(***************************************************************************)
EXTENDS Identity, TLAPS

LEMMA NotNone ==
    /\ None \notin Request /\ None \notin Email /\ None \notin Password
    /\ None \notin Account
BY IdentityAssumption

-----------------------------------------------------------------------------
(* What each action does to the one request it is about *)

Becomes(r, pc, user, answer) ==
    /\ req' \in [Request -> Call]
    /\ \A q \in Request \ {r} : req'[q] = req[q]
    /\ req'[r].pc = pc
    /\ req'[r].user = user
    /\ req'[r].answer = answer

(* A request in flight stays what it is. *)
Same(r) == /\ req[r].pc \notin {"idle", "done"}
           /\ req'[r].op = req[r].op
           /\ req'[r].email = req[r].email
           /\ req'[r].password = req[r].password

Begins(r, op, e, p, user, pc, answer) ==
    /\ req[r].pc = "idle"
    /\ Becomes(r, pc, user, answer)
    /\ req'[r].op = op
    /\ req'[r].email = e
    /\ req'[r].password = p

LEMMA EnterBegins ==
    ASSUME TypeOK, NEW r \in Request, NEW op \in Op, NEW e \in Email \cup {None},
           NEW p \in Password \cup {None}, NEW user \in Request \cup {None}, NEW pc \in PC,
           NEW answer \in Answer, req[r].pc = "idle", Enter(r, op, e, p, user, pc, answer)
    PROVE  Begins(r, op, e, p, user, pc, answer)
BY DEF TypeOK, Enter, Begins, Becomes, Call

LEMMA GotoBecomes ==
    ASSUME TypeOK, NEW r \in Request, NEW pc \in PC,
           req[r].pc \notin {"idle", "done"}, Goto(r, pc)
    PROVE  Becomes(r, pc, req[r].user, req[r].answer) /\ Same(r)
BY DEF TypeOK, Goto, Becomes, Same, Call

LEMMA FinishBecomes ==
    ASSUME TypeOK, NEW r \in Request, NEW answer \in Answer,
           req[r].pc \notin {"idle", "done"}, Finish(r, answer)
    PROVE  Becomes(r, "done", req[r].user, answer) /\ Same(r)
BY DEF TypeOK, Finish, Becomes, Same, Call, PC

LEMMA AccountType ==
    ASSUME TypeOK, NEW e \in Email, identities[e] # None
    PROVE  identities[e].user \in Request /\ identities[e].password \in Password
BY DEF TypeOK, Account

(* A request is accepted, or turned away at once. *)
Arrives(r) ==
    \/ \E e \in Email, p \in Password :
          \/ Begins(r, "signup", e, p, None, "add_user", "none")
          \/ Begins(r, "signup", e, p, None, "done", "conflict")
          \/ /\ identities[e] # None /\ identities[e].password = p
             /\ Begins(r, "login", e, p, identities[e].user, "get_user", "none")
          \/ Begins(r, "login", e, p, None, "done", "unauthorized")
    \/ \E q \in Request :
          /\ Session(q)
          /\ Begins(r, "me", req[q].email, req[q].password, req[q].user, "whoami", "none")
    \/ Begins(r, "me", None, None, None, "done", "unauthorized")

LEMMA ReceiveShape ==
    ASSUME TypeOK, NEW r \in Request, Receive(r)
    PROVE  UNCHANGED <<users, identities>> /\ Arrives(r)
<1> USE DEF Op, PC, Answer
<1>1. ASSUME NEW raw \in Raw, NEW p \in Password, Signup(r, raw, p)
      PROVE  UNCHANGED <<users, identities>> /\ Arrives(r)
  <2>1. Normal[raw] \in Email
    BY IdentityAssumption
  <2> QED BY <1>1, <2>1, EnterBegins DEF Signup, Arrives
<1>2. ASSUME NEW raw \in Raw, NEW p \in Password, Login(r, raw, p)
      PROVE  UNCHANGED <<users, identities>> /\ Arrives(r)
  <2>1. Normal[raw] \in Email
    BY IdentityAssumption
  <2> QED BY <1>2, <2>1, EnterBegins, AccountType DEF Login, Arrives
<1>3. ASSUME NEW q \in Request, Me(r, q)
      PROVE  UNCHANGED <<users, identities>> /\ Arrives(r)
  <2>1. /\ req[q].email \in Email \cup {None} /\ req[q].password \in Password \cup {None}
        /\ req[q].user \in Request \cup {None}
    BY DEF TypeOK, Call
  <2>2. CASE Enter(r, "me", req[q].email, req[q].password, req[q].user, "whoami", "none")
    <3>1. Begins(r, "me", req[q].email, req[q].password, req[q].user, "whoami", "none")
      BY <1>3, <2>1, <2>2, EnterBegins DEF Me
    <3> QED BY <1>3, <3>1 DEF Me, Arrives
  <2>3. CASE Enter(r, "me", None, None, None, "done", "unauthorized")
    BY <1>3, <2>3, EnterBegins DEF Me, Arrives
  <2> QED BY <1>3, <2>2, <2>3 DEF Me
<1> QED BY <1>1, <1>2, <1>3 DEF Receive

(* The other steps of a handler, but for its two inserts. *)
Proceeds(r) ==
    /\ Same(r)
    /\ \/ req[r].pc = "hash" /\ Becomes(r, "add_identity", req[r].user, req[r].answer)
       \/ req[r].pc \in {"token", "whoami"} /\ Becomes(r, "done", req[r].user, "ok")
       \/ req[r].pc = "get_user" /\ Becomes(r, "token", req[r].user, req[r].answer)
       \/ Becomes(r, "done", req[r].user, "error")
       \/ Becomes(r, "done", req[r].user, "crashed")
       \/ /\ req[r].pc \in {"get_user", "whoami"} /\ ~UserExists(req[r].user)
          /\ Becomes(r, "done", req[r].user, "unauthorized")

LEMMA AddUserEffect ==
    ASSUME TypeOK, NEW r \in Request, AddUser(r)
    PROVE  /\ identities' = identities
           /\ Same(r)
           /\ \/ /\ users[req[r].email] = None
                 /\ users' = [users EXCEPT ![req[r].email] = r]
                 /\ Becomes(r, "hash", r, req[r].answer)
              \/ users' = users /\ Becomes(r, "done", req[r].user, "error")
<1>1. "error" \in Answer /\ "hash" \in PC /\ req[r].pc \notin {"idle", "done"}
  BY DEF Answer, PC, AddUser
<1>2. CASE Finish(r, "error") /\ users' = users
  BY <1>1, <1>2, FinishBecomes DEF AddUser
<1>3. CASE users[req[r].email] = None
  BY <1>1, <1>3 DEF AddUser, TypeOK, Becomes, Same, Call
<1> QED BY <1>2, <1>3 DEF AddUser

LEMMA AddAuthIdentityEffect ==
    ASSUME TypeOK, NEW r \in Request, AddAuthIdentity(r)
    PROVE  /\ users' = users
           /\ Same(r)
           /\ \/ /\ identities[req[r].email] = None
                 /\ identities' = [identities EXCEPT ![req[r].email] =
                                     [user |-> req[r].user, password |-> req[r].password]]
                 /\ Becomes(r, "token", req[r].user, req[r].answer)
              \/ identities' = identities /\ Becomes(r, "done", req[r].user, "error")
<1>1. "error" \in Answer /\ "token" \in PC /\ req[r].pc \notin {"idle", "done"}
  BY DEF Answer, PC, AddAuthIdentity
<1> QED BY <1>1, FinishBecomes, GotoBecomes DEF AddAuthIdentity

LEMMA ProceedShape ==
    ASSUME TypeOK, NEW r \in Request,
           Hash(r) \/ CreateAccessToken(r) \/ GetUser(r) \/ Fails(r) \/ Crash(r)
    PROVE  UNCHANGED <<users, identities>> /\ Proceeds(r)
<1>1. {"error", "crashed", "ok", "unauthorized"} \subseteq Answer
      /\ {"add_identity", "token"} \subseteq PC
  BY DEF Answer, PC
<1>2. CASE Hash(r)
  BY <1>1, <1>2, GotoBecomes DEF Hash, Proceeds
<1>3. CASE CreateAccessToken(r)
  BY <1>1, <1>3, FinishBecomes DEF CreateAccessToken, Proceeds
<1>4. CASE GetUser(r)
  BY <1>1, <1>4, FinishBecomes, GotoBecomes DEF GetUser, Proceeds
<1>5. CASE Fails(r) \/ Crash(r)
  BY <1>1, <1>5, FinishBecomes DEF Fails, Crash, InFlight, Proceeds
<1> QED BY <1>2, <1>3, <1>4, <1>5

-----------------------------------------------------------------------------
(* What no step undoes *)

Changes(r) ==
    \/ (Arrives(r) \/ Proceeds(r)) /\ UNCHANGED <<users, identities>>
    \/ AddUser(r)
    \/ AddAuthIdentity(r)

LEMMA StepShape ==
    ASSUME TypeOK, NEW r \in Request, Receive(r) \/ Work(r) \/ Fails(r) \/ Crash(r)
    PROVE  Changes(r)
BY ReceiveShape, ProceedShape DEF Work, Changes

(* A row that was inserted stays as it is. *)
LEMMA RowsStay ==
    ASSUME TypeOK, NEW r \in Request, Changes(r), NEW e \in Email
    PROVE  /\ users[e] # None => users'[e] = users[e]
           /\ identities[e] # None => identities'[e] = identities[e]
<1>1. CASE UNCHANGED <<users, identities>>
  BY <1>1
<1>2. CASE AddUser(r)
  BY <1>2, AddUserEffect DEF TypeOK
<1>3. CASE AddAuthIdentity(r)
  BY <1>3, AddAuthIdentityEffect DEF TypeOK
<1> QED BY <1>1, <1>2, <1>3 DEF Changes

(* What a request is about never changes, and other requests stay as they are. *)
LEMMA CallsStay ==
    ASSUME TypeOK, NEW r \in Request, Changes(r), \A q \in Request : Control(q)
    PROVE  /\ \A q \in Request \ {r} : req'[q] = req[q]
           /\ \A q \in Request : req[q].op # "none" =>
                /\ req'[q].op = req[q].op
                /\ req'[q].email = req[q].email
                /\ req'[q].password = req[q].password
<1>1. \A q \in Request \ {r} : req'[q] = req[q]
  BY AddUserEffect, AddAuthIdentityEffect DEF Changes, Arrives, Proceeds, Begins, Becomes
<1>2. Same(r) \/ req[r].pc = "idle"
  BY AddUserEffect, AddAuthIdentityEffect DEF Changes, Arrives, Proceeds, Begins
<1> QED BY <1>1, <1>2 DEF Same, Control

LEMMA TypeStep ==
    ASSUME IInv, NEW r \in Request, Changes(r)
    PROVE  TypeOK'
<1> USE DEF IInv
<1>1. CASE (Arrives(r) \/ Proceeds(r)) /\ UNCHANGED <<users, identities>>
  BY <1>1 DEF Arrives, Proceeds, Begins, Becomes, TypeOK
<1>2. CASE AddUser(r)
  BY <1>2, AddUserEffect DEF Becomes, TypeOK
<1>3. CASE AddAuthIdentity(r)
  <2>1. req[r].user \in Request /\ req[r].password \in Password
    BY <1>3 DEF AddAuthIdentity, Control, TypeOK, Call
  <2>2. [user |-> req[r].user, password |-> req[r].password] \in Account
    BY <2>1 DEF Account
  <2> QED BY <1>3, <2>2, AddAuthIdentityEffect DEF Becomes, TypeOK
<1> QED BY <1>1, <1>2, <1>3 DEF Changes

-----------------------------------------------------------------------------
(* Who owns what *)

(* A request that keeps its user keeps owning it. *)
LEMMA OwnedStays ==
    ASSUME IInv, NEW r \in Request, Changes(r), NEW q \in Request,
           req[q].op # "none", req'[q].user = req[q].user
    PROVE  Owned(q)'
<1>1. ASSUME req[q].user # None PROVE Owned(q)'
  <2>1. /\ req[q].user \in Request /\ req[q].email \in Email
        /\ users[req[q].email] = req[q].user
        /\ req[req[q].user].op = "signup"
        /\ req[req[q].user].email = req[q].email
        /\ req[req[q].user].password = req[q].password
    BY <1>1 DEF IInv, Owned, Control, TypeOK, Call
  <2> QED BY <2>1, RowsStay, CallsStay, NotNone DEF IInv, Owned
<1> QED BY <1>1 DEF Owned

LEMMA OwnedStep ==
    ASSUME IInv, NEW r \in Request, Changes(r), NEW q \in Request
    PROVE  Owned(q)'
<1>1. CASE req[q].op # "none" /\ req'[q].user = req[q].user
  BY <1>1, OwnedStays
<1>2. CASE req'[q].user = None
  BY <1>2 DEF Owned
<1>3. CASE q # r
  <2>1. req'[q] = req[q]
    BY <1>3, CallsStay DEF IInv
  <2> QED BY <1>1, <1>2, <2>1 DEF IInv, Control, Owned
<1>4. CASE q = r /\ AddUser(r)
  <2>1. CASE users' = users /\ Becomes(r, "done", req[r].user, "error")
    <3>1. req[r].op = "signup" /\ req'[r].user = req[r].user
      BY <1>4, <2>1 DEF Becomes, AddUser, IInv, Control
    <3> QED BY <1>1, <1>4, <3>1
  <2>2. CASE /\ users' = [users EXCEPT ![req[r].email] = r]
             /\ Becomes(r, "hash", r, req[r].answer)
    <3>1. req[r].email \in Email /\ req[r].op = "signup"
      BY <1>4 DEF AddUser, IInv, Control, TypeOK, Call
    <3> QED BY <1>4, <2>2, <3>1, AddUserEffect DEF Becomes, Same, Owned, IInv, TypeOK
  <2> QED BY <1>4, <2>1, <2>2, AddUserEffect DEF IInv
<1>5. CASE q = r /\ (AddAuthIdentity(r) \/ Proceeds(r))
  <2>1. req'[r].user = req[r].user
    BY <1>5, AddAuthIdentityEffect DEF Proceeds, Becomes, IInv
  <2>2. req[r].op = "none" => req[r].user = None
    BY DEF IInv, Control
  <2> QED BY <1>1, <1>2, <1>5, <2>1, <2>2
<1>6. CASE q = r /\ Arrives(r) /\ UNCHANGED <<users, identities>>
  <2>1. ASSUME NEW e \in Email, NEW p \in Password,
               identities[e] # None, identities[e].password = p,
               Begins(r, "login", e, p, identities[e].user, "get_user", "none")
        PROVE  Owned(r)'
    <3>1. /\ identities[e].user \in Request
          /\ users[e] = identities[e].user
          /\ req[identities[e].user].op = "signup"
          /\ req[identities[e].user].email = e
          /\ req[identities[e].user].password = p
      BY <2>1, AccountType DEF IInv, AccountsConsistent
    <3> QED BY <1>6, <2>1, <3>1, CallsStay DEF IInv, Begins, Becomes, Owned
  <2>2. ASSUME NEW s \in Request, Session(s),
               Begins(r, "me", req[s].email, req[s].password, req[s].user, "whoami", "none")
        PROVE  Owned(r)'
    <3>1. /\ req[s].user \in Request
          /\ users[req[s].email] = req[s].user
          /\ req[req[s].user].op = "signup"
          /\ req[req[s].user].email = req[s].email
          /\ req[req[s].user].password = req[s].password
      BY <2>2 DEF IInv, Session, Control, Owned, TypeOK, Call
    <3> QED BY <1>6, <2>2, <3>1, CallsStay DEF IInv, Begins, Becomes, Owned
  <2> QED BY <1>2, <1>6, <2>1, <2>2 DEF Arrives, Begins, Becomes
<1> QED BY <1>3, <1>4, <1>5, <1>6 DEF Changes

LEMMA AccountsStep ==
    ASSUME IInv, NEW r \in Request, Changes(r)
    PROVE  AccountsConsistent'
<1> SUFFICES ASSUME NEW e \in Email, identities'[e] # None
             PROVE  /\ users'[e] = identities'[e].user
                    /\ req'[identities'[e].user].op = "signup"
                    /\ req'[identities'[e].user].email = e
                    /\ req'[identities'[e].user].password = identities'[e].password
  BY DEF AccountsConsistent
<1>1. CASE identities[e] # None
  <2>1. /\ identities'[e] = identities[e] /\ identities[e].user \in Request
        /\ users[e] = identities[e].user
        /\ req[identities[e].user].op = "signup"
        /\ req[identities[e].user].email = e
        /\ req[identities[e].user].password = identities[e].password
    BY <1>1, RowsStay, AccountType DEF IInv, AccountsConsistent
  <2> QED BY <2>1, RowsStay, CallsStay, NotNone DEF IInv
<1>2. CASE identities[e] = None
  <2>1. AddAuthIdentity(r)
    BY <1>2, AddUserEffect DEF Changes, IInv
  <2>2. /\ e = req[r].email
        /\ identities'[e] = [user |-> req[r].user, password |-> req[r].password]
        /\ users' = users
    BY <1>2, <2>1, AddAuthIdentityEffect DEF IInv, TypeOK
  <2>3. req[r].user = r /\ req[r].op = "signup" /\ users[e] = r
    BY <2>1, <2>2, NotNone DEF AddAuthIdentity, IInv, Control, Owned
  <2> QED BY <2>2, <2>3, CallsStay DEF IInv
<1> QED BY <1>1, <1>2

LEMMA ControlStep ==
    ASSUME IInv, NEW r \in Request, Changes(r), NEW q \in Request
    PROVE  Control(q)'
<1>0. Control(q) /\ TypeOK
  BY DEF IInv
<1>1. ASSUME req[q].op = "signup", req[q].email # None, req[q].password # None, Stored(q)
      PROVE  Stored(q)'
  <2>1. req[q].email \in Email /\ req[q].password \in Password
    BY <1>0, <1>1 DEF TypeOK, Call
  <2>2. identities[req[q].email] # None
    <3>1. [user |-> q, password |-> req[q].password] \in Account
      BY <2>1 DEF Account
    <3> QED BY <1>1, <3>1, NotNone DEF Stored
  <2>3. identities'[req[q].email] = identities[req[q].email]
    BY <1>0, <2>1, <2>2, RowsStay
  <2>4. req'[q].email = req[q].email /\ req'[q].password = req[q].password
    BY <1>1, CallsStay DEF IInv
  <2> QED BY <1>1, <2>3, <2>4 DEF Stored
<1>2. CASE q # r
  BY <1>0, <1>1, <1>2, CallsStay DEF Control, IInv
<1>3. CASE q = r /\ Arrives(r)
  <2>1. ASSUME NEW e \in Email, NEW p \in Password, NEW user \in Request,
               Begins(r, "login", e, p, user, "get_user", "none")
        PROVE  Control(q)'
    BY <1>3, <2>1, NotNone DEF Begins, Becomes, Control
  <2>2. ASSUME NEW e \in Email, NEW p \in Password,
               Begins(r, "signup", e, p, None, "add_user", "none")
        PROVE  Control(q)'
    BY <1>3, <2>2, NotNone DEF Begins, Becomes, Control
  <2>3. ASSUME NEW op \in {"signup", "login", "me"}, NEW e, NEW p,
               NEW answer \in {"conflict", "unauthorized"},
               Begins(r, op, e, p, None, "done", answer)
        PROVE  Control(q)'
    BY <1>3, <2>3, NotNone DEF Begins, Becomes, Control
  <2>4. ASSUME NEW s \in Request, Session(s),
               Begins(r, "me", req[s].email, req[s].password, req[s].user, "whoami", "none")
        PROVE  Control(q)'
    <3>1. Control(s) /\ req[s].user # None
      BY <2>4 DEF IInv, Control, Session
    <3>2. req[s].email # None /\ req[s].password # None
      BY <3>1 DEF Control
    <3> QED BY <1>3, <2>4, <3>1, <3>2 DEF Begins, Becomes, Control
  <2> QED BY <1>0, <1>3, <2>1, <2>2, <2>3, <2>4, AccountType DEF Arrives
<1>4. CASE q = r /\ Proceeds(r)
  <2>1. /\ req'[r].op = req[r].op /\ req'[r].email = req[r].email
        /\ req'[r].password = req[r].password /\ req'[r].user = req[r].user
        /\ req[r].pc # "idle"
    BY <1>4 DEF Proceeds, Same, Becomes
  <2>2. CASE req[r].pc = "hash" /\ req'[r].pc = "add_identity" /\ req'[r].answer = req[r].answer
    BY <1>0, <1>4, <2>1, <2>2 DEF Control
  <2>3. CASE req[r].pc \in {"token", "whoami"} /\ req'[r].pc = "done" /\ req'[r].answer = "ok"
    BY <1>0, <1>1, <1>4, <2>1, <2>3 DEF Control
  <2>4. CASE req[r].pc = "get_user" /\ req'[r].pc = "token" /\ req'[r].answer = req[r].answer
    BY <1>0, <1>4, <2>1, <2>4 DEF Control
  <2>5. CASE req'[r].pc = "done" /\ req'[r].answer \in {"error", "crashed", "unauthorized"}
    BY <1>0, <1>4, <2>1, <2>5 DEF Control
  <2> QED BY <1>4, <2>2, <2>3, <2>4, <2>5 DEF Proceeds, Becomes
<1>5. CASE q = r /\ AddUser(r)
  BY <1>0, <1>5, AddUserEffect, NotNone DEF Becomes, Same, Control, AddUser
<1>6. CASE q = r /\ AddAuthIdentity(r)
  <2>1. /\ req[r].user = r /\ req[r].op = "signup" /\ req[r].email \in Email
        /\ req[r].answer = "none"
    BY <1>0, <1>6 DEF AddAuthIdentity, Control, TypeOK, Call
  <2>2. /\ req'[r].op = req[r].op /\ req'[r].email = req[r].email
        /\ req'[r].password = req[r].password /\ req'[r].user = req[r].user
    BY <1>0, <1>6, AddAuthIdentityEffect DEF Same, Becomes
  <2>3. CASE /\ identities' = [identities EXCEPT ![req[r].email] =
                                 [user |-> req[r].user, password |-> req[r].password]]
             /\ Becomes(r, "token", req[r].user, req[r].answer)
    <3>1. Stored(r)'
      BY <1>0, <2>1, <2>2, <2>3 DEF Stored, TypeOK
    <3>2. req'[r].pc = "token" /\ req'[r].answer = "none"
      BY <2>1, <2>3 DEF Becomes
    <3>3. req'[r].user = r /\ req'[r].op = "signup" /\ r # None
          /\ req'[r].email # None /\ req'[r].password # None
      BY <1>0, <1>6, <2>1, <2>2, NotNone DEF AddAuthIdentity, Control
    <3> QED BY <1>6, <3>1, <3>2, <3>3 DEF Control
  <2>4. CASE Becomes(r, "done", req[r].user, "error")
    BY <1>0, <1>6, <2>1, <2>2, <2>4 DEF Becomes, Control, AddAuthIdentity
  <2> QED BY <1>0, <1>6, <2>3, <2>4, AddAuthIdentityEffect
<1> QED BY <1>2, <1>3, <1>4, <1>5, <1>6 DEF Changes

(* A login, or a bearer of its token, has the account that it was found in. *)
LEMMA BackedStep ==
    ASSUME IInv, NEW r \in Request, Changes(r), NEW q \in Request
    PROVE  Backed(q)'
<1>1. CASE req[q].op # "none" /\ req'[q].user = req[q].user
  <2> SUFFICES ASSUME req'[q].op \in {"login", "me"}, req'[q].user # None
               PROVE  identities'[req'[q].email] =
                        [user |-> req'[q].user, password |-> req'[q].password]
    BY DEF Backed
  <2>1. /\ req'[q].op = req[q].op /\ req'[q].email = req[q].email
        /\ req'[q].password = req[q].password
    BY <1>1, CallsStay DEF IInv
  <2>2. /\ req[q].user \in Request /\ req[q].email \in Email /\ req[q].password \in Password
        /\ identities[req[q].email] = [user |-> req[q].user, password |-> req[q].password]
    BY <1>1, <2>1 DEF IInv, Backed, Control, TypeOK, Call
  <2>3. identities[req[q].email] # None
    BY <2>2, NotNone DEF Account
  <2>4. identities'[req[q].email] = identities[req[q].email]
    BY <2>2, <2>3, RowsStay DEF IInv
  <2> QED BY <1>1, <2>1, <2>2, <2>4
<1>2. CASE q # r
  <2>1. req'[q] = req[q]
    BY <1>2, CallsStay DEF IInv
  <2> QED BY <1>1, <2>1 DEF IInv, Control, Backed
<1>3. CASE q = r /\ (AddUser(r) \/ AddAuthIdentity(r))
  <2>1. req[r].op = "signup"
    BY <1>3 DEF AddUser, AddAuthIdentity, IInv, Control
  <2>2. req'[r].op = "signup"
    BY <1>3, <2>1, CallsStay DEF IInv
  <2> QED BY <1>3, <2>2 DEF Backed
<1>4. CASE q = r /\ Proceeds(r)
  <2>1. req'[r].user = req[r].user
    BY <1>4 DEF Proceeds, Becomes
  <2>2. CASE req[r].op = "none"
    BY <1>4, <2>1, <2>2 DEF IInv, Control, Backed
  <2> QED BY <1>1, <1>4, <2>1, <2>2
<1>5. CASE q = r /\ Arrives(r) /\ UNCHANGED identities
  <2>1. CASE req'[r].user = None \/ req'[r].op = "signup"
    BY <1>5, <2>1 DEF Backed
  <2>2. ASSUME NEW e \in Email, NEW p \in Password,
               identities[e] # None, identities[e].password = p,
               Begins(r, "login", e, p, identities[e].user, "get_user", "none")
        PROVE  Backed(r)'
    <3>1. identities[e] = [user |-> identities[e].user, password |-> p]
      BY <2>2 DEF IInv, TypeOK, Account
    <3> QED BY <1>5, <2>2, <3>1 DEF Begins, Becomes, Backed
  <2>3. ASSUME NEW s \in Request, Session(s),
               Begins(r, "me", req[s].email, req[s].password, req[s].user, "whoami", "none")
        PROVE  Backed(r)'
    <3>1. identities[req[s].email] = [user |-> req[s].user, password |-> req[s].password]
      BY <2>3 DEF IInv, Session, Control, Stored, Backed
    <3> QED BY <1>5, <2>3, <3>1 DEF Begins, Becomes, Backed
  <2> QED BY <1>5, <2>1, <2>2, <2>3 DEF Arrives, Begins, Becomes
<1> QED BY <1>2, <1>3, <1>4, <1>5 DEF Changes

LEMMA InitIInv == Init => IInv
BY NotNone DEF Init, NoCall, IInv, TypeOK, Call, PC, Op, Answer, Control, Owned, Stored,
   Backed, AccountsConsistent

LEMMA NextIInv == IInv /\ [Next]_vars => IInv'
<1> SUFFICES ASSUME IInv, [Next]_vars PROVE IInv'
  OBVIOUS
<1>1. CASE UNCHANGED vars
  BY <1>1 DEF vars, IInv, TypeOK, Control, Owned, Stored, Backed, AccountsConsistent
<1>2. ASSUME NEW r \in Request, Changes(r) PROVE IInv'
  BY <1>2, TypeStep, ControlStep, OwnedStep, BackedStep, AccountsStep DEF IInv
<1> QED BY <1>1, <1>2, StepShape DEF Next, IInv

-----------------------------------------------------------------------------
(* Refinement *)

(* What the client gave and was answered with is an account of the book. *)
LEMMA AnsweredIsBacked ==
    ASSUME IInv, NEW r \in Request, req[r].user # None,
           req[r].pc = "token" \/ req[r].pc = "whoami"
    PROVE  /\ req[r].email \in Email
           /\ identities[req[r].email] # None
           /\ identities[req[r].email] = [user |-> req[r].user, password |-> req[r].password]
<1>1. /\ req[r].email \in Email /\ req[r].user \in Request /\ req[r].password \in Password
      /\ identities[req[r].email] = [user |-> req[r].user, password |-> req[r].password]
  BY DEF IInv, Control, Stored, Backed, TypeOK, Call
<1>2. [user |-> req[r].user, password |-> req[r].password] \in Account
  BY <1>1 DEF Account
<1> QED BY <1>1, <1>2, NotNone

(* A step after which the request is not answered ok grants nothing: what was
   answered stays, for an answered request is done.                          *)
LEMMA NothingGranted ==
    ASSUME IInv, NEW r \in Request, Changes(r), req'[r].answer # "ok"
    PROVE  Granted' = Granted
<1>1. req[r].answer # "ok"
  BY AddUserEffect, AddAuthIdentityEffect
  DEF Changes, Arrives, Proceeds, Begins, Same, IInv, Control
<1>2. \A q \in Request \ {r} : req'[q] = req[q]
  BY CallsStay DEF IInv
<1> QED BY <1>1, <1>2 DEF Granted

LEMMA OpensBook ==
    ASSUME IInv, NEW r \in Request, AddAuthIdentity(r), identities' # identities
    PROVE  Book!Open(r, req[r].email, req[r].password) /\ req[r].email \in Email
           /\ req[r].password \in Password
<1>1. /\ req[r].email \in Email /\ req[r].password \in Password
      /\ req[r].user = r /\ req[r].answer = "none"
  BY DEF AddAuthIdentity, IInv, Control, TypeOK, Call
<1>2. /\ identities[req[r].email] = None
      /\ identities' = [identities EXCEPT ![req[r].email] =
                          [user |-> r, password |-> req[r].password]]
      /\ req'[r].answer = "none"
  BY <1>1, AddAuthIdentityEffect DEF IInv, Becomes
<1>3. \A f \in Email : identities[f] # None => identities[f].user # r
  BY <1>2 DEF IInv, AccountsConsistent
<1>4. Granted' = Granted
  BY <1>2, NothingGranted DEF Changes
<1> QED BY <1>1, <1>2, <1>3, <1>4 DEF Book!Open

LEMMA GrantsSession ==
    ASSUME IInv, NEW r \in Request, Changes(r), req'[r].answer = "ok", req[r].answer # "ok"
    PROVE  Book!Grant(r, req[r].email) /\ req[r].email \in Email
<1>1. /\ Proceeds(r) /\ UNCHANGED <<users, identities>>
      /\ req[r].pc \in {"token", "whoami"}
  BY AddUserEffect, AddAuthIdentityEffect
  DEF Changes, Arrives, Proceeds, Begins, Becomes, IInv
<1>2. /\ req[r].email \in Email
      /\ identities[req[r].email] # None
      /\ identities[req[r].email] = [user |-> req[r].user, password |-> req[r].password]
  BY <1>1, AnsweredIsBacked DEF IInv, Control
<1>3. /\ \A q \in Request \ {r} : req'[q] = req[q]
      /\ req'[r].email = req[r].email /\ req'[r].password = req[r].password
      /\ req'[r].user = req[r].user
  BY <1>1 DEF Proceeds, Same, Becomes
<1>4. Granted[r] = None
  BY DEF Granted
<1>5. Granted' = [Granted EXCEPT ![r] = [email |-> req[r].email,
                                         account |-> identities[req[r].email]]]
  BY <1>2, <1>3 DEF Granted
<1> QED BY <1>1, <1>2, <1>4, <1>5 DEF Book!Grant

LEMMA BookInit == Init => Book!Init
BY DEF Init, NoCall, Granted, Book!Init

LEMMA BookStep == IInv /\ [Next]_vars => [Book!Next]_(Book!bookVars)
<1> SUFFICES ASSUME IInv, [Next]_vars PROVE [Book!Next]_(Book!bookVars)
  OBVIOUS
<1>1. CASE UNCHANGED vars
  BY <1>1 DEF vars, Granted, Book!bookVars
<1>2. ASSUME NEW r \in Request, Changes(r) PROVE [Book!Next]_(Book!bookVars)
  <2>1. CASE identities' # identities
    <3>1. AddAuthIdentity(r)
      BY <1>2, <2>1, AddUserEffect DEF Changes, IInv
    <3> QED BY <2>1, <3>1, OpensBook DEF Book!Next
  <2>2. CASE req'[r].answer = "ok" /\ req[r].answer # "ok"
    BY <1>2, <2>2, GrantsSession DEF Book!Next
  <2>3. CASE identities' = identities /\ req'[r].answer # "ok"
    BY <1>2, <2>3, NothingGranted DEF Book!bookVars
  <2>4. req[r].answer # "ok"
    BY <1>2, AddUserEffect, AddAuthIdentityEffect
    DEF Changes, Arrives, Proceeds, Begins, Same, IInv, Control
  <2> QED BY <2>1, <2>2, <2>3, <2>4
<1> QED BY <1>1, <1>2, StepShape DEF Next, IInv

-----------------------------------------------------------------------------
(* Theorems *)

THEOREM Invariance == Spec => []IInv
BY InitIInv, NextIInv, PTL DEF Spec

THEOREM TypeCorrect == Spec => []TypeOK
<1>1. IInv => TypeOK
  BY DEF IInv
<1> QED BY Invariance, <1>1, PTL

(* An identity belongs to the user of its e-mail and to that user's signup. *)
THEOREM AccountsAreConsistent == Spec => []AccountsConsistent
<1>1. IInv => AccountsConsistent
  BY DEF IInv
<1> QED BY Invariance, <1>1, PTL

(* A signup that was answered 201 has its account, now and forever. *)
THEOREM SignupsOpenAccounts == Spec => []SignupOpensAccount
<1>1. IInv => SignupOpensAccount
  BY DEF IInv, Control, Stored, SignupOpensAccount, SignedUp
<1> QED BY Invariance, <1>1, PTL

(* Nobody is answered as a user whose password they did not give. *)
THEOREM SessionsBelongToOwners == Spec => []SessionsAreOwners
<1>1. IInv => SessionsAreOwners
  BY DEF IInv, Control, Owned, SessionsAreOwners
<1> QED BY Invariance, <1>1, PTL

(* A user that a request has found or that a token names is there for good. *)
THEOREM SessionsAlwaysResolve == Spec => SessionsResolve
<1>1. IInv /\ [Next]_vars =>
        [\A r \in Request : Resolves(r)]_vars
  <2> SUFFICES ASSUME IInv, Next, NEW q \in Request, req[q].pc \in {"get_user", "whoami"}
               PROVE  req'[q].answer # "unauthorized"
    BY DEF Resolves
  <2>1. PICK r \in Request : Changes(r)
    BY StepShape DEF Next, IInv
  <2>2. UserExists(req[q].user) /\ req[q].answer = "none"
    <3>1. Control(q) /\ Owned(q) /\ req[q].user # None /\ req[q].email # None
      BY DEF IInv, Control
    <3>2. req[q].email \in Email
      BY <3>1 DEF IInv, TypeOK, Call
    <3> QED BY <3>1, <3>2 DEF Control, Owned, UserExists
  <2>3. CASE q # r
    BY <2>1, <2>2, <2>3, CallsStay DEF IInv
  <2>4. CASE q = r
    <3>1. Proceeds(r)
      BY <2>1, <2>4 DEF Changes, Arrives, Begins, AddUser, AddAuthIdentity
    <3> QED BY <2>2, <2>4, <3>1 DEF Proceeds, Becomes
  <2> QED BY <2>3, <2>4
<1> QED BY Invariance, <1>1, PTL DEF Spec, SessionsResolve

(* To their clients the interleaved transactions are a book of accounts: each is
   opened once, under one address, and every session is of an account in it.  *)
THEOREM BookImplemented == Spec => ImplementsAccountBook
BY Invariance, BookInit, BookStep, PTL DEF Spec, ImplementsAccountBook, Book!Spec
=============================================================================
