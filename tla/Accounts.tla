------------------------------- MODULE Accounts -------------------------------
(***************************************************************************)
(* Accounts and sessions (internal/security, internal/state/security.go):  *)
(* the bootstrap of the first owner, login, change and reset of passwords, *)
(* renaming, disabling and logout.  The hash of a password is computed     *)
(* between two accesses to the database and takes long, so a request is a  *)
(* program counter per client and every transaction is one step.           *)
(* A password is a number of its own; a session token is the session.      *)
(***************************************************************************)
EXTENDS Integers, FiniteSets

CONSTANTS
  Accounts, Sessions, Names, (* the random ids handed out; login names     *)
  Clients, Nobody,
  MaxPasswords,              (* bound: passwords chosen                    *)
  MaxOrders,                 (* bound: requests                            *)
  MaxFailures                (* bound: failed calls and deaths of Core     *)

(* state.UserRecord and state.SessionRecord                                *)
UserRecord    == [name : Names, hash : 1..MaxPasswords, owner : BOOLEAN, on : BOOLEAN,
                  disablings : 0..MaxOrders]
SessionRecord == [user : Accounts, revoked : BOOLEAN, disablings : 0..MaxOrders,
                  by : 1..MaxPasswords, late : BOOLEAN]

ASSUME AccountsAssumption ==
  /\ {MaxPasswords, MaxOrders, MaxFailures} \subseteq Nat
  /\ Nobody \notin UserRecord /\ Nobody \notin SessionRecord

VARIABLES
  account,   (* the users table, with a count of disablings (history)      *)
  session,   (* the sessions table, with what it was opened by (history)   *)
  held,      (* sessions whose token was given to a client                 *)
  setup,     (* the file bootstrap-token is there                          *)
  task,      (* what each client's request has read                        *)
  founded,   (* owners created by bootstrap (history)                      *)
  chosen, orders, failures

accountVars == <<account, session, held, setup, task, founded, chosen, orders, failures>>

Free == [do |-> "none", at |-> "none"]
AccountsInit ==
  /\ account = [a \in Accounts |-> Nobody] /\ session = [s \in Sessions |-> Nobody]
  /\ held = {} /\ setup = TRUE /\ task = [c \in Clients |-> Free] /\ founded = {}
  /\ chosen = 0 /\ orders = 0 /\ failures = 0

Present == {a \in Accounts : account[a] # Nobody}
Usable(s) ==
  /\ session[s] # Nobody /\ ~session[s].revoked /\ account[session[s].user].on
(* Authenticate: the actor of a request.                                   *)
Actors == {session[s].user : s \in {x \in held : Usable(x)}}
OwnerActors == {a \in Actors : account[a].owner}

Revoked(a, rows) ==
  [s \in Sessions |-> IF rows[s] # Nobody /\ rows[s].user = a
                      THEN [rows[s] EXCEPT !.revoked = TRUE] ELSE rows[s]]

Start(c, t) ==
  /\ task[c] = Free /\ orders < MaxOrders /\ orders' = orders + 1
  /\ task' = [task EXCEPT ![c] = t]
  /\ UNCHANGED <<account, session, held, setup, founded, chosen, failures>>
Stop(c) == task' = [task EXCEPT ![c] = Free] /\ UNCHANGED <<orders, failures>>
At(c, do, at) == task[c].do = do /\ task[c].at = at
Choose == chosen < MaxPasswords /\ chosen' = chosen + 1
Taken(n) == \E a \in Present : account[a].name = n
Unused == {a \in Accounts : account[a] = Nobody}
NewAccount(n, owner) ==
  [name |-> n, hash |-> chosen + 1, owner |-> owner, on |-> TRUE, disablings |-> 0]

-----------------------------------------------------------------------------
(* The first owner.  Initialized is read, the password is hashed, and the  *)
(* transaction counts the users again.                                     *)

Bootstrap(c, n) ==
  Present = {} /\ setup /\ Start(c, [do |-> "bootstrap", at |-> "insert", name |-> n])
OpenFor(c, a, hash) ==
  task' = [task EXCEPT ![c] = [do |-> task[c].do, at |-> "session", a |-> a, old |-> hash]]
InsertOwner(c, a) ==
  /\ account' = [account EXCEPT ![a] = NewAccount(task[c].name, TRUE)]
  /\ founded' = founded \cup {a} /\ Choose
  /\ OpenFor(c, a, chosen + 1) /\ UNCHANGED <<session, held, setup, orders, failures>>
CreateOwner(c, a) ==
  /\ At(c, "bootstrap", "insert") /\ a \in Unused
  /\ IF Present = {} THEN InsertOwner(c, a)
     ELSE Stop(c) /\ UNCHANGED <<account, session, held, setup, founded, chosen>>

-----------------------------------------------------------------------------
(* Login reads the user, compares the hash and opens a session.            *)

Login(c, a) ==
  /\ a \in Present /\ account[a].on
  /\ Start(c, [do |-> "login", at |-> "session", a |-> a, old |-> account[a].hash])
CreateSession(c, s) ==
  LET a == task[c].a IN
  /\ task[c].at = "session" /\ session[s] = Nobody /\ s \notin held
  /\ session' = [session EXCEPT ![s] =
       [user |-> a, revoked |-> FALSE, disablings |-> account[a].disablings,
        by |-> task[c].old, late |-> account[a].hash # task[c].old]]
  /\ task' = [task EXCEPT ![c] = [do |-> task[c].do, at |-> "answer", s |-> s]]
  /\ UNCHANGED <<account, held, setup, founded, chosen, orders, failures>>
(* SessionByTokenHash; the file of the token goes with the first owner.    *)
AnswerSession(c) ==
  /\ task[c].at = "answer"
  /\ held' = held \cup {s \in {task[c].s} : Usable(s)}
  /\ setup' = (setup /\ ~(task[c].do = "bootstrap" /\ Usable(task[c].s)))
  /\ Stop(c) /\ UNCHANGED <<account, session, founded, chosen>>

Logout(s) ==
  /\ s \in held /\ Usable(s) /\ orders < MaxOrders /\ orders' = orders + 1
  /\ session' = [session EXCEPT ![s].revoked = TRUE]
  /\ UNCHANGED <<account, held, setup, task, founded, chosen, failures>>

-----------------------------------------------------------------------------
(* Passwords: the hash that was verified is compared in the transaction    *)
(* that replaces it and revokes every session.                             *)

Intend(c, do, a) ==
  Start(c, [do |-> do, at |-> "commit", a |-> a, old |-> account[a].hash])
ChangePassword(c, a)    == a \in Actors /\ Intend(c, "change", a)
ResetPassword(c, by, a) == by \in OwnerActors /\ a \in Present \ {by} /\ Intend(c, "reset", a)
NewHash(a) == account' = [account EXCEPT ![a].hash = chosen + 1]
(* A bug: the previous hash is not compared.                               *)
ChangeUserPasswordBlindly(c) ==
  /\ task[c].at = "commit" /\ Choose /\ Stop(c)
  /\ NewHash(task[c].a) /\ session' = Revoked(task[c].a, session)
  /\ UNCHANGED <<held, setup, founded>>
ChangeUserPassword(c) ==
  /\ task[c].at = "commit" /\ Choose /\ Stop(c)
  /\ IF account[task[c].a].hash # task[c].old THEN UNCHANGED <<account, session>>
     ELSE NewHash(task[c].a) /\ session' = Revoked(task[c].a, session)
  /\ UNCHANGED <<held, setup, founded>>

-----------------------------------------------------------------------------
(* What an administrator does to others' accounts.                         *)

CreateUser(by, a, n) ==
  /\ by \in OwnerActors /\ a \in Unused /\ ~Taken(n) /\ Choose
  /\ orders < MaxOrders /\ orders' = orders + 1
  /\ account' = [account EXCEPT ![a] = NewAccount(n, FALSE)]
  /\ UNCHANGED <<session, held, setup, task, founded, failures>>
UpdateUserIdentity(by, a, n) ==
  /\ by \in OwnerActors /\ a \in Present /\ ~Taken(n)
  /\ orders < MaxOrders /\ orders' = orders + 1
  /\ account' = [account EXCEPT ![a].name = n] /\ session' = Revoked(a, session)
  /\ UNCHANGED <<held, setup, task, founded, chosen, failures>>
Disable(by, a) ==
  /\ by \in OwnerActors /\ a \in Present \ {by} /\ account[a].on
  /\ orders < MaxOrders /\ orders' = orders + 1
  /\ account' = [account EXCEPT ![a].on = FALSE, ![a].disablings = @ + 1]
  /\ session' = Revoked(a, session)
  /\ UNCHANGED <<held, setup, task, founded, chosen, failures>>
Enable(by, a) ==
  /\ by \in OwnerActors /\ a \in Present /\ ~account[a].on
  /\ orders < MaxOrders /\ orders' = orders + 1
  /\ account' = [account EXCEPT ![a].on = TRUE]
  /\ UNCHANGED <<session, held, setup, task, founded, chosen, failures>>

-----------------------------------------------------------------------------
Failing == failures < MaxFailures /\ failures' = failures + 1
RequestFails(c) ==
  /\ task[c] # Free /\ Failing /\ task' = [task EXCEPT ![c] = Free]
  /\ UNCHANGED <<account, session, held, setup, founded, chosen, orders>>
(* The next start removes revoked sessions and the token once there is an  *)
(* owner.                                                                  *)
Restart ==
  /\ Failing /\ task' = [c \in Clients |-> Free]
  /\ session' = [s \in Sessions |-> IF session[s] # Nobody /\ session[s].revoked
                                    THEN Nobody ELSE session[s]]
  /\ setup' = (Present = {})
  /\ UNCHANGED <<account, held, founded, chosen, orders>>

AccountsNext ==
  \/ \E c \in Clients :
       \/ \E n \in Names : Bootstrap(c, n)
       \/ \E a \in Accounts : CreateOwner(c, a) \/ Login(c, a) \/ ChangePassword(c, a)
                              \/ \E by \in Accounts : ResetPassword(c, by, a)
       \/ \E s \in Sessions : CreateSession(c, s)
       \/ AnswerSession(c) \/ ChangeUserPassword(c) \/ RequestFails(c)
  \/ \E s \in Sessions : Logout(s)
  \/ \E by, a \in Accounts :
       \/ Disable(by, a) \/ Enable(by, a)
       \/ \E n \in Names : CreateUser(by, a, n) \/ UpdateUserIdentity(by, a, n)
  \/ Restart
AccountsSpec == AccountsInit /\ [][AccountsNext]_accountVars

-----------------------------------------------------------------------------
(* Properties                                                              *)

(* The variables have their types, and a session belongs to a user.        *)
AccountsTypeOK ==
  /\ account \in [Accounts -> {Nobody} \cup UserRecord]
  /\ session \in [Sessions -> {Nobody} \cup SessionRecord]
  /\ \A s \in Sessions : session[s] # Nobody => session[s].user \in Present
  /\ held \subseteq Sessions /\ setup \in BOOLEAN /\ founded \subseteq Accounts
  /\ \A c \in Clients : task[c].at \in {"none", "insert", "session", "answer", "commit"}

(* However many first owners are set up at once, one of them is made.      *)
OneFounder == Cardinality(founded) <= 1

(* A password replaces the one its request has read: a change never undoes *)
(* a reset it has not seen (ChangeUserPassword).                           *)
PasswordNotOverwritten ==
  [][\A a \in Present : account'[a].hash # account[a].hash =>
       \E c \in Clients : /\ task[c].at = "commit" /\ task[c].a = a
                          /\ task[c].old = account[a].hash /\ task'[c] = Free]_accountVars

(* A session in use was opened with the current password, or by a login    *)
(* that had verified the one before when it was replaced.                  *)
SessionsFollowPassword ==
  \A s \in held : Usable(s) =>
    session[s].by = account[session[s].user].hash \/ session[s].late

(* Enabling a user again revives no session from before.                   *)
SessionsEndWithDisabling ==
  \A s \in held : Usable(s) => session[s].disablings = account[session[s].user].disablings

(* However requests overlap, there is one founder, no password is lost,    *)
(* and no session outlives what it was opened with.                        *)
LoginsAreSound ==
  /\ [](AccountsTypeOK /\ OneFounder /\ SessionsFollowPassword /\ SessionsEndWithDisabling)
  /\ PasswordNotOverwritten
=============================================================================
